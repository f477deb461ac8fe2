-------------------------------- MODULE Page --------------------------------
(* A fetched page in the browser (desktop-metal app.rs): from the tags and    *)
(* words of the document to nodes, the lines that they are wrapped to, and    *)
(* the zones that a click is looked up in.                                    *)
EXTENDS Integers, Sequences, SequencesExt, FiniteSetsExt

CONSTANTS Tokens,     \* [k, w, h]: a word, or a tag with its href
          MaxTokens,  \* bound: length of the document
          Width,      \* word -> its width
          COLUMN,     \* width of the text column
          TOOLBAR,    \* height of the browser's own bar
          Tops,       \* where the window's content begins on the screen
          Clicks,     \* heights in the content that are clicked
          HEIGHT,     \* height of the content
          MaxScroll   \* bound: how far the page is scrolled

VARIABLES page, loaded, title, style, nodes,
          top, scroll,
          link_hits,  \* the zones of the last drawing: [from, to, href]
          clicked,    \* the last click, or -1
          opened      \* the href that it opened, or ""

vars == <<page, loaded, title, style, nodes, top, scroll, link_hits, clicked, opened>>

Skips == {"script", "style", "head", "noscript"}
Headings == {"h1", "h2", "h3"}
Closers == {"p", "div", "section", "article", "main", "header", "footer", "nav", "td", "th", "tr"}

------------------------------------------------------------------------------
(* parse_html.  Every "<" ends the run of words before it.                    *)
Node(k, words, href) == [k |-> k, words |-> words, href |-> href]
Empty == [nodes |-> <<>>, buf |-> <<>>, skip |-> 0, ctx |-> "", link |-> FALSE, href |-> "", li |-> FALSE, pre |-> FALSE]

flush(p) ==
    IF p.buf = <<>> THEN p
    ELSE LET k == CASE p.ctx # "" -> p.ctx [] p.ctx = "" /\ p.link -> "link"
                    [] p.ctx = "" /\ ~p.link /\ p.li -> "li" [] OTHER -> "para" IN
         [p EXCEPT !.nodes = Append(@, Node(k, p.buf, IF k = "link" THEN p.href ELSE "")), !.buf = <<>>]
Blank(p) == IF p.nodes = <<>> THEN p
            ELSE IF Last(p.nodes).k = "blank" THEN p ELSE [p EXCEPT !.nodes = Append(@, Node("blank", <<>>, ""))]

Opened(p, t) ==
    CASE t.w \in Skips -> [p EXCEPT !.skip = @ + 1]
      [] t.w \in Headings -> [p EXCEPT !.ctx = t.w]
      [] t.w = "a" -> [p EXCEPT !.link = TRUE, !.href = t.h]
      [] t.w = "input" -> [p EXCEPT !.nodes = Append(@, Node("input", <<>>, ""))]
      [] t.w = "hr" -> [p EXCEPT !.nodes = Append(@, Node("hr", <<>>, ""))]
      [] t.w = "li" -> [p EXCEPT !.li = TRUE]
      [] t.w = "pre" -> [p EXCEPT !.pre = TRUE]
      [] OTHER -> p
ClosedTag(p, t) ==
    CASE t.w = "a" -> [p EXCEPT !.link = FALSE, !.href = ""]
      [] t.w = "li" -> [p EXCEPT !.li = FALSE]
      [] t.w \in Headings -> [p EXCEPT !.ctx = ""]
      [] t.w \in Closers -> Blank(p)
      [] OTHER -> p

\* Inside "pre" a "<" is a character like any other, that of "</pre>" too.
Read(p, t) ==
    CASE t.k = "word" \/ p.pre -> IF p.skip > 0 THEN p ELSE [p EXCEPT !.buf = Append(@, t.w)]
      [] t.k # "word" /\ ~p.pre /\ p.skip > 0 -> IF t.k = "close" /\ t.w \in Skips THEN [p EXCEPT !.skip = @ - 1] ELSE p
      [] OTHER -> IF t.k = "close" THEN ClosedTag(flush(p), t) ELSE Opened(flush(p), t)
parse_html(ts) == flush(FoldLeft(Read, Empty, ts)).nodes

\* The words between a tag and the close of it that follows; from the first one.
Between(ts, name, from) ==
    LET opens == {i \in from..Len(ts) : ts[i].k = "open" /\ ts[i].w = name}
        closes(i) == {j \in (i+1)..Len(ts) : ts[j].k = "close" /\ ts[j].w = name} IN
    IF opens = {} \/ (opens # {} /\ closes(Min(opens)) = {}) THEN <<>>
    ELSE SubSeq(ts, Min(opens) + 1, Min(closes(Min(opens))) - 1)
extract_title(ts) == Between(ts, "title", 1)
extract_style(ts) ==
    LET css[i \in 1..(Len(ts) + 1)] ==
          IF i > Len(ts) THEN <<>>
          ELSE IF ts[i].k = "open" /\ ts[i].w = "style"
          THEN Between(ts, "style", i) \o css[i + Len(Between(ts, "style", i)) + 1] ELSE css[i + 1] IN css[1]

------------------------------------------------------------------------------
(* Lines: a word goes to the next line when it does not fit with its space.   *)
wrap_text(ws, max) ==
    LET Put(l, w) == IF l.cur # <<>> /\ l.w + 1 + Width[w] > max
                     THEN [lines |-> Append(l.lines, l.cur), cur |-> <<w>>, w |-> Width[w]]
                     ELSE [l EXCEPT !.cur = Append(@, w), !.w = @ + (IF l.cur = <<>> THEN 0 ELSE 1) + Width[w]]
        all == FoldLeft(Put, [lines |-> <<>>, cur |-> <<>>, w |-> 0], ws) IN
    Append(all.lines, all.cur)

base_h(n) == CASE n.k = "h1" -> 44 [] n.k \in {"h2", "input"} -> 32 [] n.k = "h3" -> 26
               [] n.k = "hr" -> 14 [] n.k = "blank" -> 10
               [] n.k = "link" -> 20 * Len(wrap_text(n.words, COLUMN)) + 2
               [] OTHER -> 20 * Len(wrap_text(n.words, COLUMN)) + 4
\* Where node i begins in the document.
DocY(i) == SumFunctionOnSet([j \in DOMAIN nodes |-> base_h(nodes[j])], 1..(i-1))

\* The live page as render draws it: links get zones in pixels of the screen.
Zones == LET y0(i) == top + TOOLBAR + 1 + DocY(i) - scroll
             seen == {i \in DOMAIN nodes : nodes[i].k = "link" /\ y0(i) + base_h(nodes[i]) >= top + TOOLBAR + 1 /\ y0(i) < top + HEIGHT} IN
         [i \in DOMAIN SetToSortSeq(seen, <) |->
            LET n == SetToSortSeq(seen, <)[i] IN
            [from |-> y0(n), to |-> y0(n) + 20 * Len(wrap_text(nodes[n].words, COLUMN)) + 4, href |-> nodes[n].href]]

Init == /\ page = <<>> /\ loaded = FALSE /\ title = <<>> /\ style = <<>> /\ nodes = <<>>
        /\ top \in Tops /\ scroll = 0 /\ link_hits = <<>> /\ clicked = -1 /\ opened = ""

\* The server's document, one token at a time.
Send(t) == /\ ~loaded /\ Len(page) < MaxTokens /\ page' = Append(page, t)
           /\ UNCHANGED <<loaded, title, style, nodes, top, scroll, link_hits, clicked, opened>>
parse_page == /\ ~loaded /\ loaded' = TRUE
              /\ title' = extract_title(page) /\ style' = extract_style(page) /\ nodes' = parse_html(page)
              /\ UNCHANGED <<page, top, scroll, link_hits, clicked, opened>>
render == /\ loaded /\ link_hits' = Zones
          /\ UNCHANGED <<page, loaded, title, style, nodes, top, scroll, clicked, opened>>
\* A click below the bar opens the first zone that holds it, or else scrolls.
Click(y) ==
    LET hit == {i \in DOMAIN link_hits : link_hits[i].from <= y /\ y < link_hits[i].to /\ link_hits[i].href # ""} IN
    /\ loaded /\ link_hits = Zones /\ y > TOOLBAR + 1 /\ clicked' = y
    /\ opened' = (IF hit = {} THEN "" ELSE link_hits[Min(hit)].href)
    /\ scroll' = (CASE hit # {} -> scroll
                    [] y < TOOLBAR + 1 + (HEIGHT - TOOLBAR - 1) \div 2 -> Max({scroll - 60, 0})
                    [] OTHER -> Min({scroll + 60, MaxScroll}))
    /\ UNCHANGED <<page, loaded, title, style, nodes, top, link_hits>>
\* The arrow keys; and the window is moved.
Arrow(d) == /\ loaded /\ scroll' = Max({scroll + d, 0}) /\ scroll' <= MaxScroll
            /\ clicked' = -1 /\ opened' = ""
            /\ UNCHANGED <<page, loaded, title, style, nodes, top, link_hits>>
Next == \/ parse_page \/ render
        \/ \E t \in Tokens : Send(t)
        \/ \E y \in Clicks : Click(y)
        \/ \E d \in {-60, 60} : Arrow(d)
Spec == Init /\ [][Next]_vars

------------------------------------------------------------------------------
TypeOK == /\ scroll \in 0..MaxScroll /\ Len(page) <= MaxTokens
          /\ \A i \in DOMAIN nodes : nodes[i].k \in Headings \cup {"para", "link", "li", "input", "hr", "blank"}

\* The document by itself: the last tag of a kind before a word tells whether
\* the word is inside.
LastTag(i, names) == Max({0} \cup {j \in 1..(i-1) : page[j].k # "word" /\ page[j].w \in names})
Opens(i) == i # 0 /\ page[i].k = "open"
Hidden(i) == Opens(LastTag(i, Skips))
In(i, names) == LET j == Max({0} \cup {k \in 1..(i-1) : page[k].k # "word" /\ page[k].w \in names /\ ~Hidden(k)}) IN
                   IF Opens(j) THEN j ELSE 0
KindAt(i) == IF In(i, Headings) # 0 THEN <<page[In(i, Headings)].w, "">>
             ELSE IF In(i, {"a"}) # 0 THEN <<"link", page[In(i, {"a"})].h>>
             ELSE IF In(i, {"li"}) # 0 THEN <<"li", "">> ELSE <<"para", "">>
\* Hidden elements are not nested, and nothing is preformatted.
Plain == /\ \A i \in DOMAIN page : page[i].w # "pre"
         /\ \A i \in DOMAIN page : page[i].k = "open" /\ page[i].w \in Skips => ~Hidden(i)

\* All words outside of hidden elements are shown, in order, each as what the
\* document says it is, and the links lead where it says.
ShownAsWritten ==
    loaded /\ Plain =>
      LET written == SelectSeq([i \in DOMAIN page |-> i], LAMBDA i : page[i].k = "word" /\ ~Hidden(i)) IN
      [i \in DOMAIN written |-> <<page[written[i]].w, KindAt(written[i])>>] =
      FlattenSeq([n \in DOMAIN nodes |-> [j \in DOMAIN nodes[n].words |-> <<nodes[n].words[j], <<nodes[n].k, nodes[n].href>>>>]])

\* No word is lost by the wrapping and only a single word may be too wide.
WrappedInColumn ==
    \A i \in DOMAIN nodes : \A max \in {COLUMN, COLUMN - 1} :
      LET lines == wrap_text(nodes[i].words, max) IN
      /\ FlattenSeq(lines) = nodes[i].words
      /\ \A l \in DOMAIN lines : Len(lines[l]) > 1 =>
           FoldLeft(LAMBDA s, w : s + Width[w], Len(lines[l]) - 1, lines[l]) <= max

\* app.rs:96-99: clicks are given in the coordinates that the app draws in.
ClickOpensWhatIsThere ==
    opened # "" =>
      LET y == clicked - (TOOLBAR + 1) + scroll IN
      \E i \in DOMAIN nodes : /\ nodes[i].k = "link" /\ nodes[i].href = opened
                              /\ DocY(i) <= y /\ y < DocY(i) + base_h(nodes[i]) + 2
==============================================================================
