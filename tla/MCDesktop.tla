------------------------------ MODULE MCDesktop ------------------------------
(* The desktop and the programs in its windows, each on a small screen.  A    *)
(* behaviour is one of one of them, which is chosen at the start.  The        *)
(* variables are those of Desktop and some for programs that have more.       *)
EXTENDS Desktop, TLC

------------------------------------------------------------------------------
\* The small texts, pages, sheets, packages, lines and scripts on which the
\* programs are checked.

\* Editor, Nano and Notes: a file that is empty, one without and one with a line
\* break at its end.
Break == "newline"
Texts == {<<>>, <<"a", Break, "a">>, <<"a", Break>>}
LongTexts == {<<>>, <<"a", Break, "a">>, <<"a", Break, "a", "a", Break>>}

\* Lexer: characters that begin, continue and end tokens and comments.
Characters == {" ", "nl", "/", "*", "1", ".", "e", "+", "=", "\"", "\\", ":"}

\* Styles: selectors of all kinds and a list of them; declarations that are
\* whole, cut short or not understood; an element that several rules match.
Sel(k, v) == [k |-> k, v |-> v]
Selectors == "p" :> <<Sel("tag", "p")>> @@ ".w" :> <<Sel("class", "w")>> @@ "#t" :> <<Sel("id", "t")>>
             @@ "*" :> <<Sel("any", "")>> @@ ".w, #t, p" :> <<Sel("class", "w"), Sel("id", "t"), Sel("tag", "p")>>
Blocks == {<<<<"color", ":", "red">>, <<"color", ":", "none">>>>,
           <<<<"color", ":", "blue">>, <<"color">>, <<"font-weight", ":", "bold">>>>,
           <<<<"font-weight", ":", "x">>, <<"text-align", ":", "center", ":", "color">>, <<"display", ":", "none">>>>,
           <<<<"text-align", ":", "right">>, <<"font-size", ":", "large">>, <<"color", ":">>>>}
Elements == {[tag |-> "p", id |-> "", classes |-> {"w"}], [tag |-> "h", id |-> "t", classes |-> {"w"}],
             [tag |-> "p", id |-> "t", classes |-> {}]}
Inlines == {<<>>, <<<<"color", ":", "green">>, <<"color", ":", "red", ":", "x">>, <<"color", ":">>>>}

\* Page: words of two widths, links, a heading, a list item, a hidden element.
Opening(w) == [k |-> "open", w |-> w, h |-> ""]
Closing(w) == [k |-> "close", w |-> w, h |-> ""]
Word(w) == [k |-> "word", w |-> w, h |-> ""]
Link(u) == [Opening("a") EXCEPT !.h = u]
Elems == {Word("x"), Word("yy"), Link("u1"), Link("u2"), Closing("a"), Opening("h1"), Closing("h1"),
          Opening("li"), Closing("p"), Opening("style"), Closing("style")}
Width == [w \in {"x", "yy"} |-> IF w = "x" THEN 1 ELSE 3]

\* Packages: an index in disorder with a chain of dependencies, one with a loop
\* and a broken line, one whose package has been published twice.
Pkg(n, u, s, deps) == <<"@pkg", n, "1", u, s>> \o deps
Indexes == {<<<<"#", "repo">>, Pkg("app", "uapp", "x", <<"lib", "lib-gui">>), Pkg("lib", "ulib", "-", <<"core">>),
              Pkg("lib-gui", "ugui", "-", <<"core">>), Pkg("core", "ucore", "-", <<>>)>>,
            <<Pkg("app", "uapp", "-", <<"lib">>), Pkg("lib", "ulib", "-", <<"core">>), Pkg("core", "ucore2", "-", <<"lib">>),
              <<"@pkg", "lib-gui", "1">>>>,
            <<Pkg("app", "uapp2", "-", <<"lib">>), Pkg("lib", "ulib", "-", <<>>), Pkg("lib", "ugui", "-", <<"app">>)>>}
Dir == ("uapp" :> "app-1") @@ ("uapp2" :> "app-2") @@ ("ulib" :> "lib-1") @@ ("ugui" :> "lib-gui-1")
       @@ ("ucore" :> "core-1") @@ ("ucore2" :> "core-2")
NamesOf == [d \in {"app-1", "app-2"} |-> {"app"}] @@ ("lib-1" :> {"lib"}) @@ ("lib-gui-1" :> {"lib", "lib-gui"})
           @@ [d \in {"core-1", "core-2"} |-> {"core"}]
Bins == [d \in {"app-1", "app-2", "lib-gui-1"} |-> {"app"}] @@ [d \in {"lib-1", "core-1", "core-2"} |-> {}]

------------------------------------------------------------------------------
\* Shell: what is typed.  Names of files, variables and an alias; 0 is none.
F == 11
G == 12
LoopFile == 13
X == 21
Y == 22
Short == 31

Cmd(op, f, g, args) == [op |-> op, f |-> f, g |-> g, args |-> args, body |-> <<>>]
Num(n) == [k |-> "lit", n |-> n]
Var(x) == [k |-> "var", x |-> x]
Line(segs) == [segs |-> segs, to |-> 0, append |-> FALSE]
To(segs, f) == [segs |-> segs, to |-> f, append |-> FALSE]
Onto(segs, f) == [segs |-> segs, to |-> f, append |-> TRUE]
Sub(l) == [k |-> "sub", line |-> l]
Seq2 == Line(<<Cmd("seq", 0, 0, <<Num(2)>>)>>)
MCVars == {X, Y}
MCScripts ==
  LoopFile :> <<[t |-> "for", x |-> X, items |-> <<Num(2), Num(1)>>], [t |-> "do"],
              [t |-> "if", line |-> Line(<<Cmd("test", 0, 0, <<Var(X), Num(2)>>)>>)], [t |-> "then"],
              [t |-> "cmd", line |-> Onto(<<Cmd("echo", 0, 0, <<Var(X)>>)>>, F)],
              [t |-> "else"], [t |-> "cmd", line |-> Line(<<Cmd("rm", F, 0, <<>>)>>)],
              [t |-> "fi"], [t |-> "done"],
              [t |-> "while", line |-> Line(<<Cmd("test", F, 0, <<>>)>>)],
              [t |-> "cmd", line |-> Line(<<Cmd("mv", F, G, <<>>)>>)], [t |-> "done"]>>
MCLines ==
  { Line(<<Cmd("assign", X, 0, <<Num(2)>>)>>),
    To(<<Cmd("echo", 0, 0, <<Var(X), Num(1)>>)>>, F),
    Onto(<<Cmd("seq", 0, 0, <<Num(3)>>), Cmd("grep", 0, 0, <<Num(2)>>)>>, F),
    To(<<Cmd("cat", F, 0, <<>>), Cmd("sort", 0, 0, <<>>), Cmd("head", 0, 0, <<>>)>>, G),
    Line(<<Cmd("cat", G, 0, <<>>), Cmd("uniq", 0, 0, <<>>), Cmd("tail", 0, 0, <<>>), Cmd("wc", 0, 0, <<>>)>>),
    Line(<<Cmd("rm", F, 0, <<>>)>>), Line(<<Cmd("cp", F, G, <<>>)>>), Line(<<Cmd("mkdir", G, 0, <<>>)>>),
    Line(<<Cmd("mv", G, F, <<>>), Cmd("touch", G, 0, <<>>), Cmd("ls", 0, 0, <<>>)>>),
    Line(<<Cmd("psh", LoopFile, 0, <<>>)>>),
    Line(<<Cmd("echo", 0, 0, <<Sub(Seq2)>>)>>),
    Line(<<Cmd("unset", X, 0, <<>>), Cmd("false", 0, 0, <<>>)>>),
    Line(<<Cmd("cd", G, 0, <<>>), Cmd("pwd", 0, 0, <<>>), Cmd("rev", 0, 0, <<>>)>>),
    Line(<<Cmd("unknown", 0, 0, <<>>), Cmd("true", 0, 0, <<>>), Cmd("env", 0, 0, <<>>)>>),
    Line(<<Cmd("stat", F, 0, <<>>), Cmd("find", 0, 0, <<>>), Cmd("uname", 0, 0, <<>>)>>),
    Line(<<[Cmd("for", X, 0, <<Num(1), Num(2)>>) EXCEPT !.body = <<Var(X)>>]>>),
    Line(<<Cmd("nano", F, 0, <<>>), Cmd("kmanager", 0, 0, <<>>), Cmd("help", 0, 0, <<>>)>>),
    Line(<<Cmd("export", Y, 0, <<Num(3)>>), Cmd("printf", 0, 0, <<Var(Y)>>), Cmd("tr", 0, 0, <<Num(3), Num(2)>>), Cmd("cut", 0, 0, <<>>)>>),
    Line(<<Cmd("alias", Short, 0, <<>>), Cmd("alias", 0, 0, <<>>), Cmd("unalias", Short, 0, <<>>), Cmd("ping", 0, 0, <<>>), Cmd("which", 0, 0, <<>>)>>),
    Line(<<Cmd("file", F, 0, <<>>), Cmd("xxd", F, 0, <<>>), Cmd("df", 0, 0, <<>>), Cmd("ifconfig", 0, 0, <<>>), Cmd("curl", 0, 0, <<>>)>>),
    Line(<<Cmd("clear", 0, 0, <<>>), Cmd("sysinfo", 0, 0, <<>>)>>),
    To(<<Cmd("fetch", 0, 0, <<>>)>>, G), Line(<<Cmd("wget", G, 0, <<>>)>>), Line(<<Cmd("kinstall", 0, 0, <<>>)>>),
    Line(<<Cmd("exit", 0, 0, <<>>)>>) }

------------------------------------------------------------------------------
\* Script: tokens and programs, those of its self test (tjs.rs 1311-1367) in
\* small, an endless loop, and what a scope keeps.
Words == {"var", "if", "else", "while", "for", "function", "return", "true", "false", "null",
                "+", "-", "*", "/", "%", "=", "==", "!=", "===", "!==", "<", "<=", ">", ">=", "&&", "||", "!",
                "(", ")", "{", "}", "[", "]", ",", ";", "."}
Digits == "0" :> 0 @@ "1" :> 1 @@ "2" :> 2 @@ "3" :> 3 @@ "4" :> 4 @@ "5" :> 5 @@ "6" :> 6 @@ "7" :> 7 @@ "9" :> 9
Strings == "'foo'" :> <<6, 15, 15>> @@ "'bar'" :> <<2, 1, 18>>
Token(w) == CASE w \in Words -> [k |-> w, v |-> 0]
                   [] w \in DOMAIN Digits -> [k |-> "num", v |-> Digits[w]]
                   [] w \in DOMAIN Strings -> [k |-> "str", v |-> Strings[w]]
                   [] OTHER -> [k |-> "id", v |-> w]
Program(ws) == [i \in DOMAIN ws |-> Token(ws[i])]
Shows(ws) == <<"console", ".", "log", "(">> \o ws \o <<")", ";">>
Let(x, ws) == <<"var", x, "=">> \o ws \o <<";">>
Assign(x, ws) == <<x, "=">> \o ws \o <<";">>
NR == 1000
Case(ws, out) == [source |-> Program(ws), out |-> out]
Failed == <<<<<<0>>>>>>
Row(ns) == [i \in DOMAIN ns |-> <<ns[i]>>]

MCAlphabet == {Token(w) : w \in {"x", "1", "+", "*", "<", "&&", "=", "-", "(", ")"}}

MCPrograms ==
    "sums" :> Case(Shows(<<"1", "+", "2", "*", "3", "-", "4", "/", "2">>) \o Shows(<<"(", "1", "+", "2", ")", "*", "3", ",", "7", "%", "3">>),
                   <<Row(<<NR + 5>>), Row(<<NR + 9, NR + 1>>)>>) @@
    "text" :> Case(Shows(<<"'foo'", "+", "'bar'", ",", "'foo'", "+", "(", "2", "+", "3", ")", ",", "'bar'", "<", "'foo'">>),
                   <<<<<<6, 15, 15, 2, 1, 18>>, <<6, 15, 15, NR + 5>>, <<901>>>>>>) @@
    "logic" :> Case(Shows(<<"!", "false", ",", "-", "(", "-", "3", ")", ",", "true", "&&", "false", ",", "true", "||", "x", ",",
                          "true", "==", "1", ",", "true", "===", "1", ",", "null">>),
                    <<Row(<<901, NR + 3, 902, 901, 901, 902, 903>>)>>) @@
    "branch" :> Case(Let("x", <<"7">>) \o <<"if", "(", "x", ">", "5", ")", "{">> \o Shows(<<"1">>) \o <<"}", "else", "{">> \o Shows(<<"2">>)
                     \o <<"}", "if", "(", "x", ">=", "9", ")">> \o Shows(<<"3">>), <<Row(<<NR + 1>>)>>) @@
    "while" :> Case(Let("i", <<"0">>) \o <<"while", "(", "i", "<", "3", ")", "{">> \o Assign("i", <<"i", "+", "1">>) \o Let("j", <<"i">>)
                    \o <<"}">> \o Shows(<<"i">>), <<Row(<<NR + 3>>)>>) @@
    "inner" :> Case(Let("j", <<"1">>) \o <<"{">> \o Let("j", <<"2">>) \o Assign("j", <<"3">>) \o <<"}">> \o Shows(<<"j">>), <<Row(<<NR + 1>>)>>) @@
    "for" :> Case(Let("t", <<"0">>) \o <<"for", "(">> \o Let("k", <<"1">>) \o <<"k", "<=", "3", ";", "k", "=", "k", "+", "1", ")", "{">>
                  \o Assign("t", <<"t", "+", "k">>) \o <<"}">> \o Shows(<<"t">>), <<Row(<<NR + 6>>)>>) @@
    "array" :> Case(Let("a", <<"[", "3", ",", "1", "]">>) \o Let("b", <<"a">>) \o <<"a", "[", "3", "]", "=", "4", ";">>
                    \o Shows(<<"a", ".", "length", ",", "a", "[", "2", "]", ",", "a", "[", "3", "]", ",", "b", ".", "length", ",", "b">>),
                    <<<<<<NR + 4>>, <<903>>, <<NR + 4>>, <<NR + 2>>, <<NR + 3, 44, NR + 1>>>>>>) @@
    "hoisted" :> Case(Shows(<<"sq", "(", "6", ")">>) \o <<"function", "sq", "(", "x", ")", "{", "return", "x", "*", "x", ";", "}">>,
                      <<Row(<<NR + 36>>)>>) @@
    "fib" :> Case(<<"function", "fib", "(", "x", ")", "{", "if", "(", "x", "<", "2", ")", "{", "return", "x", ";", "}",
                    "return", "fib", "(", "x", "-", "1", ")", "+", "fib", "(", "x", "-", "2", ")", ";", "}">>
                  \o Shows(<<"fib", "(", "3", ")">>), <<Row(<<NR + 2>>)>>) @@
    "leaves" :> Case(<<"function", "f", "(", ")", "{", "for", "(", ";", ";", ")", "{", "while", "(", "true", ")", "{", "return", "1", ";",
                       "}", "}", "}">> \o Shows(<<"f", "(", "2", ")">>), <<Row(<<NR + 1>>)>>) @@
    "loops" :> Case(<<"while", "(", "true", ")", "{", "}">>, Failed) @@
    "undeclared" :> Case(<<"x", "=", "1", ";">>, Failed) @@
    "mixed" :> Case(Shows(<<"1", "<", "'foo'">>), Failed)

------------------------------------------------------------------------------
FirstInDock == <<"web">>

VARIABLES which,  \* the component whose steps this behaviour takes
          w1, w2, w3, w4, w5, w6

all == <<which, wins, desk, menu, dock, snap, btn, listed, kill, asked, pc,
                input, pace, opened, events, w1, w2, w3, w4, w5, w6>>

Edit == INSTANCE Editor WITH Letters <- {"a"}, TAB_WIDTH <- 2,
                             Files <- Texts, MaxText <- 3, MaxClip <- 1,
                             lines <- wins, line <- desk, col <- menu,
                             dirty <- dock, clip <- snap, file <- btn
Nan == INSTANCE Nano WITH Letters <- {"a"}, Files <- Texts, Rows <- {3, 4},
                          MaxText <- 4, lines <- wins, row <- desk,
                          col <- menu, top <- dock, modified <- snap,
                          esc <- btn, rows <- listed, file <- kill
Note == INSTANCE Notes WITH Letters <- {"a"}, NOTES_CAP <- 5,
                            Files <- LongTexts, Shortcuts <- {},
                            buf <- wins, cursor <- desk, modified <- menu,
                            file <- dock, pressed <- snap
Term == INSTANCE Terminal WITH Letters <- {"a", "b"},
                               Words <- {<<"a", "b">>, <<"a", "a", "a">>},
                               Sizes <- {<<6, 3>>, <<4, 2>>},
                               Prompt <- <<"[">>, Clip <- <<"b", "a">>,
                               LINE_MAX <- 7, HISTORY_CAP <- 2, MaxKeys <- 4,
                               term <- wins, home <- desk, spoilt <- menu,
                               keys <- dock
Psh == INSTANCE Shell WITH Lines <- MCLines, Scripts <- MCScripts,
                           Vars <- MCVars, HEAD <- 2, Fuel <- 4,
                           KM_MAX <- 2, MaxLines <- 3, sh <- wins,
                           typed <- desk, ran <- menu
Js == INSTANCE Script WITH Alphabet <- MCAlphabet, MaxTokens <- 4,
                           Programs <- MCPrograms, MaxSteps <- 140,
                           source <- wins, chosen <- desk
Lex == INSTANCE Lexer WITH Alphabet <- Characters,
                           Keywords <- {<<"e", "e">>}, MaxText <- 4,
                           lang <- wins, text <- desk, i <- menu,
                           start <- dock, out <- snap, st <- btn
Css == INSTANCE Styles WITH Selectors <- Selectors, Blocks <- Blocks,
                            Colors <- {"red", "blue", "green"},
                            Elements <- Elements, Inlines <- Inlines,
                            MaxRules <- 3, Places <- {1, 2}, rules <- wins,
                            box <- desk, painted <- menu
Html == INSTANCE Page WITH Tokens <- Elems, MaxTokens <- 4,
                           Width <- Width, COLUMN <- 4, TOOLBAR <- 34,
                           Tops <- {60}, Clicks <- {45, 70, 100},
                           HEIGHT <- 120, MaxScroll <- 60, page <- wins,
                           loaded <- desk, title <- menu, style <- dock,
                           nodes <- snap, top <- btn, scroll <- listed,
                           link_hits <- kill, clicked <- asked, opened <- pc
Pkgs == INSTANCE Packages WITH Indexes <- Indexes, Dir <- Dir,
                               NamesOf <- NamesOf, Bins <- Bins,
                               MaxSteps <- 4, cache <- wins, signed <- desk,
                               dirs <- menu, whole <- dock, links <- snap,
                               job <- btn, result <- listed, steps <- kill
Call == INSTANCE Phone WITH Digits <- {"1", "2"}, NUMBER <- 2, RECENT <- 2,
                            SHORT <- 1, VERIFY <- 3, LEAST <- 1,
                            Codes <- {<<"1">>, <<"2">>}, MSGS <- 3,
                            SEEDED <- 1, MaxKeys <- 8, tab <- wins,
                            number <- desk, call <- menu, recent <- dock,
                            count <- snap, verify <- btn, vlen <- listed,
                            code <- kill, sent <- asked, registered <- pc,
                            msgs <- input, compose <- pace, rcs <- opened,
                            typing <- events, due <- w1, dialled <- w2,
                            keys <- w3
Calc == INSTANCE Calculator WITH DigitKeys <- {0, 2, 3}, DISPLAY <- 2,
                                 MaxValue <- 60, MaxKeys <- 5,
                                 display <- wins, len <- desk,
                                 accumulator <- menu, current_op <- dock,
                                 new_number <- snap, mem <- btn,
                                 error <- listed, typed <- kill,
                                 plain <- asked, keys <- pc
Mine == INSTANCE Mines WITH MS_COLS <- 4, MS_ROWS <- 2, MS_MINES <- 1,
                            MaxFlags <- 1, mine <- wins, state <- desk,
                            dead <- menu, won <- dock, revealed <- snap,
                            flags <- btn, blind <- listed
Snk == INSTANCE Snake WITH SNAKE_COLS <- 4, SNAKE_ROWS <- 3, MaxScore <- 2,
                           body <- wins, dir <- desk, pending <- menu,
                           food <- dock, score <- snap, dead <- btn,
                           started <- listed
Screen == INSTANCE Display WITH Height <- 6, CURSOR_H <- 1, WinH <- 2,
                                WinAt <- {1, 2}, PointerAt <- {0, 5},
                                MenuRows <- {3}, Slack <- 0, MaxFaults <- 1,
                                boot <- wins, mode <- desk, todo <- menu,
                                step <- dock, owed <- snap, req <- btn,
                                resp <- listed, READY <- kill,
                                surface <- asked, objects <- pc,
                                host <- input, monitor <- pace,
                                real <- opened, back <- events, cbuf <- w1,
                                bg_cache <- w2, scene <- w3, kind <- w4,
                                right <- w5, faults <- w6

\* What a part with so many variables leaves alone, and how that begins.
Rest2 == <<menu, dock, snap, btn, listed, kill, asked, pc, input, pace,
           opened, events, w1, w2, w3, w4, w5, w6>>
Rest3 == <<dock, snap, btn, listed, kill, asked, pc, input, pace, opened,
           events, w1, w2, w3, w4, w5, w6>>
Rest4 == <<snap, btn, listed, kill, asked, pc, input, pace, opened, events,
           w1, w2, w3, w4, w5, w6>>
Rest5 == <<btn, listed, kill, asked, pc, input, pace, opened, events, w1, w2,
           w3, w4, w5, w6>>
Rest6 == <<listed, kill, asked, pc, input, pace, opened, events, w1, w2, w3,
           w4, w5, w6>>
Rest7 == <<kill, asked, pc, input, pace, opened, events, w1, w2, w3, w4, w5,
           w6>>
Rest8 == <<asked, pc, input, pace, opened, events, w1, w2, w3, w4, w5, w6>>
Rest10 == <<input, pace, opened, events, w1, w2, w3, w4, w5, w6>>
Rest14 == <<w1, w2, w3, w4, w5, w6>>
Rest17 == <<w4, w5, w6>>
Unused17 == w4 = 0 /\ w5 = 0 /\ w6 = 0
Unused14 == w1 = 0 /\ w2 = 0 /\ w3 = 0 /\ Unused17
Unused10 == input = 0 /\ pace = 0 /\ opened = 0 /\ events = 0 /\ Unused14
Unused8 == asked = 0 /\ pc = 0 /\ Unused10
Unused7 == kill = 0 /\ Unused8
Unused6 == listed = 0 /\ Unused7
Unused5 == btn = 0 /\ Unused6
Unused4 == snap = 0 /\ Unused5
Unused3 == dock = 0 /\ Unused4
Unused2 == menu = 0 /\ Unused3

PartInit ==
    \/ which = "desktop" /\ Init /\ Unused14
    \/ which = "editor" /\ Edit!Init /\ Unused6
    \/ which = "nano" /\ Nan!Init /\ Unused8
    \/ which = "notes" /\ Note!Init /\ Unused5
    \/ which = "terminal" /\ Term!Init /\ Unused4
    \/ which = "shell" /\ Psh!Init /\ Unused3
    \/ which = "script" /\ Js!Init /\ Unused2
    \/ which = "lexer" /\ Lex!Init /\ Unused6
    \/ which = "styles" /\ Css!Init /\ Unused3
    \/ which = "page" /\ Html!Init /\ Unused10
    \/ which = "packages" /\ Pkgs!Init /\ Unused8
    \/ which = "phone" /\ Call!Init /\ Unused17
    \/ which = "calculator" /\ Calc!Init /\ Unused10
    \/ which = "mines" /\ Mine!Init /\ Unused7
    \/ which = "snake" /\ Snk!Init /\ Unused7
    \/ which = "display" /\ Screen!Init
PartNext ==
    \/ which = "desktop" /\ Next /\ UNCHANGED <<which, Rest14>>
    \/ which = "editor" /\ Edit!Next /\ UNCHANGED <<which, Rest6>>
    \/ which = "nano" /\ Nan!Next /\ UNCHANGED <<which, Rest8>>
    \/ which = "notes" /\ Note!Next /\ UNCHANGED <<which, Rest5>>
    \/ which = "terminal" /\ Term!Next /\ UNCHANGED <<which, Rest4>>
    \/ which = "shell" /\ Psh!Next /\ UNCHANGED <<which, Rest3>>
    \/ which = "script" /\ Js!Next /\ UNCHANGED <<which, Rest2>>
    \/ which = "lexer" /\ Lex!Next /\ UNCHANGED <<which, Rest6>>
    \/ which = "styles" /\ Css!Next /\ UNCHANGED <<which, Rest3>>
    \/ which = "page" /\ Html!Next /\ UNCHANGED <<which, Rest10>>
    \/ which = "packages" /\ Pkgs!Next /\ UNCHANGED <<which, Rest8>>
    \/ which = "phone" /\ Call!Next /\ UNCHANGED <<which, Rest17>>
    \/ which = "calculator" /\ Calc!Next /\ UNCHANGED <<which, Rest10>>
    \/ which = "mines" /\ Mine!Next /\ UNCHANGED <<which, Rest7>>
    \/ which = "snake" /\ Snk!Next /\ UNCHANGED <<which, Rest7>>
    \/ which = "display" /\ Screen!Next /\ UNCHANGED which

\* The loop of the desktop goes on: see Desktop.
Programs == PartInit /\ [][PartNext]_all
            /\ WF_all(which = "desktop" /\ Frame /\ UNCHANGED <<which, Rest14>>)

\* A display that has had a fault is followed until a frame has mended it.
FewFaults == which = "display" => Screen!Followed

------------------------------------------------------------------------------
\* The states of the desktop and of all programs have their types.
TypesOK ==
    CASE which = "desktop" -> TypeOK
      [] which = "editor" -> Edit!TypeOK
      [] which = "nano" -> Nan!TypeOK
      [] which = "notes" -> Note!TypeOK
      [] which = "terminal" -> Term!TypeOK
      [] which = "shell" -> Psh!TypeOK
      [] which = "script" -> Js!TypeOK
      [] which = "lexer" -> Lex!TypeOK
      [] which = "styles" -> Css!TypeOK
      [] which = "page" -> Html!TypeOK
      [] which = "packages" -> Pkgs!TypeOK
      [] which = "phone" -> Call!TypeOK
      [] which = "calculator" -> Calc!TypeOK
      [] which = "mines" -> Mine!TypeOK
      [] which = "snake" -> Snk!TypeOK
      [] which = "display" -> Screen!TypeOK

\* Start menu, desktop menu and the menu of an item never wait for one click,
\* and a window follows the pointer only while the button is held: see Desktop.
MenusKept == which = "desktop" => MenusExclusive /\ GrabFollowsButton

\* A force-quit closes the window that the monitor's list showed.
KillsChosen == [][which = "desktop" => HitsChosen]_all

\* Only the window that is raised comes to lie above others.
RaisedOvertakes == [][which = "desktop" => TopOvertakes]_all

\* A program that asked to be closed is closed.
QuitsCome == (which = "desktop" /\ Quits) ~> (which # "desktop" \/ ~Quits)

\* The editors with lines and the one with a gapless buffer edit one text at one
\* place: TextBuffer.  What was saved comes back, and the arrow keys of Notes
\* move by lines.
TextKept ==
    /\ (which = "editor" => Edit!Buffer!Init) /\ (which = "nano" => Nan!Buffer!Init)
    /\ (which = "notes" => Note!Buffer!Init)
    /\ [][which = "editor" => Edit!Buffer!Next \/ UNCHANGED <<Edit!Buffer!vars>>]_all
    /\ [][which = "nano" => Nan!Buffer!Next \/ UNCHANGED <<Nan!Buffer!vars>>]_all
    /\ [][which = "notes" => Note!Buffer!Next \/ UNCHANGED <<Note!Buffer!vars>>]_all
    /\ [][which = "editor" => Edit!ReopenShows]_all
    /\ [][which = "notes" => Note!MovesByLine]_all

\* The line that Enter runs is the one on the screen, and a pipeline is its
\* commands, one after another.
ShellRight == /\ [](which = "terminal" => Term!LineOnScreen)
              /\ [][which = "shell" => Psh!PipesCompose]_all

\* "$(line)" stands for what the line prints, as the comment of the shell says.
SubstitutionYields == [][which = "shell" => Psh!SubstitutionYields]_all

\* What a page, a sheet or a script says is what is shown or logged; what the
\* desktop has drawn is on the monitor, but for what a drag frame leaves for later.
ScreenRight ==
    /\ [](which = "lexer" => Lex!TokensRight)
    /\ [][which = "script" => Js!GroupsRight /\ Js!ProgramsRun]_all
    /\ [](which = "styles" => Css!PaintedIsShown)
    /\ [][which = "styles" => Css!CascadeRight]_all
    /\ [](which = "display" => Screen!AnswersMatch /\ Screen!BackRight /\ Screen!ScreenShows)
    /\ [][which = "display" => Screen!NoTrail]_all
    /\ [](which = "page" => Html!ShownAsWritten /\ Html!WrappedInColumn)

\* Packages come after what they need; calls, sums and games end as their rules
\* say; and a text without the mark of changes is the file's.
AppsRight ==
    /\ [](which = "packages" => Pkgs!OrderRight /\ Pkgs!DepsFirst)
    /\ [](which = "phone" => Call!RecentShowsLast)
    /\ [](which = "calculator" => Calc!ResultIsRight)
    /\ [](which = "mines" => Mine!EndIsRight /\ Mine!FirstRevealSafe)
    /\ [][which = "mines" => Mine!FloodOpensRegion]_all
    /\ [](which = "snake" => Snk!SnakeWhole)
    /\ [](which = "editor" => Edit!UnsavedIsMarked)
    /\ [](which = "nano" => Nan!UnmodifiedIsSaved)
    /\ [](which = "notes" => Note!UnsavedIsMarked)
==============================================================================
