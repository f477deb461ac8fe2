------------------------------ MODULE Terminal ------------------------------
(* A terminal window of the desktop (desktop-metal term.rs): a grid of        *)
(* characters with a cursor, and the line the user is typing, which is kept   *)
(* apart from the grid.  Every key changes both, each by its own rules.       *)
(* Colours are left out; a key is one byte.                                   *)
EXTENDS Integers, Sequences, SequencesExt, FiniteSets

CONSTANTS Letters,      \* printable characters without a part in the rest
          Words,        \* what Tab can complete to (commands; each a sequence)
          Sizes,        \* sizes of the window, <<columns, rows>>
          Prompt,       \* what write_output prints before a line
          Clip,         \* text of the clipboard
          LINE_MAX,     \* characters of a line (255)
          HISTORY_CAP,  \* lines of the history (32)
          MaxKeys       \* bound: keys pressed

VARIABLES term,    \* the terminal: cols, rows, cells, row, col, esc; line, cursor;
                   \* history, pos, saved
          home,    \* where the prompt of this line ended, a column
          spoilt,  \* since then an escape sequence was typed, the line did not
                   \* fit, or the window was made too small for it
          keys

vars == <<term, home, spoilt, keys>>

Final == {"A", "B", "C", "D", "H", "F"}
Printable == Letters \cup Final \cup {"[", " "}
Blank == " "
At(t, r, c) == r * t.cols + c
Low(n, m) == IF n < m THEN n ELSE m
Down(n, m) == IF n > m THEN n - m ELSE 0

\* scroll_up, and the end of a row.
scroll_up(t) ==
    [t EXCEPT !.cells = [i \in DOMAIN @ |-> IF i < t.cols * (t.rows - 1) THEN @[i + t.cols] ELSE Blank]]
NextRow(t) == IF t.row + 1 >= t.rows THEN [scroll_up(t) EXCEPT !.col = 0]
                                     ELSE [t EXCEPT !.col = 0, !.row = @ + 1]

\* The index is checked: behind the last cell the program ends.
put_char(t, c) ==
    LET u == [t EXCEPT !.cells[At(t, t.row, t.col)] = c, !.col = @ + 1] IN
    IF At(t, t.row, t.col) >= t.cols * t.rows THEN [t EXCEPT !.esc = "panic"]
    ELSE IF u.col >= t.cols THEN NextRow(u) ELSE u

\* What is printed while no escape sequence is open.
Plain(t, b) ==
    CASE b = "nl" -> NextRow(t)
      [] b = "cr" -> [t EXCEPT !.col = 0]
      [] b = "bs" -> IF t.col > 0 THEN [t EXCEPT !.col = @ - 1, !.cells[At(t, t.row, t.col - 1)] = Blank]
                                  ELSE t
      [] b = "esc" -> [t EXCEPT !.esc = "esc"]
      [] b \in Printable -> put_char(t, b)
      [] OTHER -> t

Shown(t, s) == FoldLeft(Plain, t, s)

\* erase_line_input, load_history_line: the line on the screen is erased from
\* its end and the other one printed.
load_history_line(t, s) ==
    LET right == [t EXCEPT !.col = Low(@ + Len(t.line) - t.cursor, t.cols - 1)]
        erased == Shown(right, [i \in 1..Len(t.line) |-> "bs"])
        n == Low(Len(s), LINE_MAX) IN
    Shown([erased EXCEPT !.line = SubSeq(s, 1, n), !.cursor = n], SubSeq(s, 1, n))

\* handle_csi without parameters: Up, Down, Right, Left, Home, End.
handle_csi(t, c) ==
    CASE c = "A" /\ t.pos > 1 ->
           LET u == IF t.pos = Len(t.history) + 1 THEN [t EXCEPT !.saved = t.line] ELSE t IN
           load_history_line([u EXCEPT !.pos = @ - 1], t.history[t.pos - 1])
      [] c = "A" /\ t.pos = 1 /\ t.history = <<>> -> t
      [] c = "B" /\ t.pos <= Len(t.history) ->
           load_history_line([t EXCEPT !.pos = @ + 1],
             IF t.pos = Len(t.history) THEN t.saved ELSE t.history[t.pos + 1])
      [] c = "D" /\ t.cursor > 0 -> [t EXCEPT !.cursor = @ - 1, !.col = Down(@, 1)]
      [] c = "C" /\ t.cursor < Len(t.line) -> [t EXCEPT !.cursor = @ + 1, !.col = Low(@ + 1, t.cols - 1)]
      [] c = "H" -> [t EXCEPT !.cursor = 0, !.col = Down(@, t.cursor)]
      [] c = "F" -> [t EXCEPT !.cursor = Len(t.line), !.col = Low(@ + Len(t.line) - t.cursor, t.cols - 1)]
      [] OTHER -> t

process_byte(t, b) ==
    CASE t.esc = "normal" -> Plain(t, b)
      [] t.esc = "panic" -> t
      [] t.esc = "esc" -> [t EXCEPT !.esc = IF b = "[" THEN "csi" ELSE "normal"]
      [] b \in Letters \cup Final -> [handle_csi(t, b) EXCEPT !.esc = "normal"]
      [] OTHER -> t

write_output(t, s) == FoldLeft(process_byte, t, s)

\* redraw_from: the rest of the line, one blank, and back to the cursor.
redraw_from(t, from) ==
    LET n == Low(Len(t.line) - from, t.cols - t.col)
        end == t.col + n
        cells == [i \in DOMAIN t.cells |->
                    LET k == i - At(t, t.row, t.col) IN
                    IF k \in 0..(n - 1) THEN t.line[from + k + 1]
                    ELSE IF k = n /\ end < t.cols THEN Blank ELSE t.cells[i]]
        past == IF end < t.cols THEN end + 1 ELSE end
        want == t.col + Down(t.cursor, from) IN
    [t EXCEPT !.cells = cells, !.col = IF want <= past THEN want ELSE past]

Appended(t, b) == process_byte([t EXCEPT !.line = Append(@, b), !.cursor = @ + 1], b)

\* send_key, a printable byte: a full line lets it through to the screen.
Type(t, b) ==
    IF Len(t.line) >= LINE_MAX THEN process_byte(t, b)
    ELSE IF t.cursor = Len(t.line) THEN Appended(t, b)
    ELSE redraw_from([t EXCEPT !.line = InsertAt(@, t.cursor + 1, b), !.cursor = @ + 1], t.cursor)

\* Seeded fault: within the line the cursor of the screen stays.
BackspaceStays(t) ==
    IF t.cursor = 0 THEN t
    ELSE LET u == [t EXCEPT !.line = RemoveAt(@, t.cursor), !.cursor = @ - 1] IN
         IF t.cursor = Len(t.line) THEN process_byte(u, "bs")
         ELSE redraw_from(u, u.cursor)

Backspace(t) ==
    IF t.cursor = 0 THEN t
    ELSE LET u == [t EXCEPT !.line = RemoveAt(@, t.cursor), !.cursor = @ - 1] IN
         IF t.cursor = Len(t.line) THEN process_byte(u, "bs")
         ELSE redraw_from([u EXCEPT !.col = Down(@, 1)], u.cursor)

CtrlA(t) == [t EXCEPT !.cursor = 0, !.col = Down(@, t.cursor)]
CtrlE(t) == [t EXCEPT !.cursor = Len(t.line), !.col = Low(@ + Len(t.line) - t.cursor, t.cols - 1)]

Cleared(t) == [t EXCEPT !.cells = [i \in DOMAIN @ |-> Blank], !.row = 0, !.col = 0]
CtrlL(t) == LET u == write_output(write_output(Cleared(t), Prompt), t.line) IN
            [u EXCEPT !.col = Down(@, Len(t.line) - t.cursor)]

CtrlC(t) == write_output([write_output(t, <<"C", "cr", "nl">>) EXCEPT
                            !.line = <<>>, !.cursor = 0, !.pos = Len(t.history) + 1, !.saved = <<>>], Prompt)

\* tab_common_prefix, complete_tab.
Common(ms) == CHOOSE p \in UNION {{SubSeq(m, 1, n) : n \in 0..Len(m)} : m \in ms} :
                /\ \A m \in ms : IsPrefix(p, m)
                /\ \A m \in ms : Len(p) < Len(m) =>
                     \E o \in ms : ~IsPrefix(SubSeq(m, 1, Len(p) + 1), o)
Matches(t) == {w \in Words : t.cursor = Len(t.line) /\ IsPrefix(t.line, w)}
More(t) == LET p == Common(Matches(t)) IN SubSeq(p, Len(t.line) + 1, Len(p))
Completed(t) ==
    FoldLeft(LAMBDA u, b : IF Len(u.line) < LINE_MAX THEN Appended(u, b) ELSE u, t,
             IF Cardinality(Matches(t)) = 1 THEN Append(More(t), " ") ELSE More(t))
\* Nothing to add: all that match are listed, then prompt and line come again.
Listed(t) ==
    LET all == FlattenSeq([i \in 1..Cardinality(Matches(t)) |-> SetToSeq(Matches(t))[i] \o <<" ">>]) IN
    write_output(t, <<"cr", "nl">> \o all \o <<"cr", "nl">> \o Prompt)

\* Enter: the line goes to the history and to the shell, which prints out.
Enter(t, out) ==
    LET done == process_byte(t, "nl")
        known == t.line = <<>> \/ (t.history # <<>> /\ Last(t.history) = t.line)
        kept == IF known THEN t.history
                ELSE Append(IF Len(t.history) >= HISTORY_CAP THEN Tail(t.history) ELSE t.history, t.line)
        u == [done EXCEPT !.line = <<>>, !.cursor = 0, !.saved = <<>>, !.history = kept,
                          !.pos = Len(kept) + 1] IN
    write_output(write_output(u, out), Prompt)

\* resize_term: what fits of the upper left corner is kept.
Resized(t, s) ==
    [t EXCEPT !.cols = s[1], !.rows = s[2],
              !.cells = [i \in 0..(s[1] * s[2] - 1) |->
                           LET r == i \div s[1]  c == i % s[1] IN
                           IF r < t.rows /\ c < t.cols THEN t.cells[At(t, r, c)] ELSE Blank],
              !.col = Low(@, s[1] - 1), !.row = Low(@, s[2] - 1)]

------------------------------------------------------------------------------
Fresh(s) == [cols |-> s[1], rows |-> s[2], cells |-> [i \in 0..(s[1] * s[2] - 1) |-> Blank],
             row |-> 0, col |-> 0, esc |-> "normal", line |-> <<>>, cursor |-> 0,
             history |-> <<>>, pos |-> 1, saved |-> <<>>]

Init == /\ \E s \in Sizes : term = write_output(Fresh(s), Prompt)
        /\ home = term.col /\ spoilt = FALSE /\ keys = 0

Overlong(t) == home + Len(t.line) >= t.cols
\* A key that goes on with this line.
On(t) == /\ term.esc # "panic" /\ keys < MaxKeys /\ keys' = keys + 1
         /\ term' = t /\ spoilt' = (spoilt \/ Overlong(t)) /\ UNCHANGED home
\* A key that prints a prompt, as in p, and goes on to t.
Again(p, t) == /\ term.esc # "panic" /\ keys < MaxKeys /\ keys' = keys + 1
               /\ term' = t /\ home' = p.col
               /\ spoilt' = (term.esc # "normal" \/ term.col = term.cols \/ p.col + Len(t.line) >= t.cols)

Printing == \E b \in Letters : On(Type(term, b))
Rubout == On(Backspace(term))
ToStart == On(CtrlA(term))
ToEnd == On(CtrlE(term))
Paste == On(FoldLeft(Type, term, Clip))
Complete == /\ Matches(term) # {}
            /\ IF More(term) # <<>> THEN On(Completed(term))
               ELSE Again(Listed(term), write_output(Listed(term), term.line))
Clear == Again(write_output(Cleared(term), Prompt), CtrlL(term))
Cancel == Again(CtrlC(term), CtrlC(term))
Run == \E out \in {<<>>, <<"C", "cr", "nl">>} : Again(Enter(term, out), Enter(term, out))
\* An arrow key sends three bytes.
Arrow == /\ term.esc # "panic" /\ keys < MaxKeys /\ keys' = keys + 1
         /\ \E c \in {"A", "B", "C", "D"} :
              term' = FoldLeft(Type, process_byte(term, "esc"), <<"[", c>>)
         /\ spoilt' = TRUE /\ UNCHANGED home
Resize == /\ term.esc # "panic" /\ keys < MaxKeys /\ keys' = keys + 1
          /\ \E s \in Sizes :
               /\ s # <<term.cols, term.rows>>
               /\ term' = Resized(term, s)
               /\ spoilt' = (spoilt \/ term.row >= s[2] \/ Overlong(term'))
          /\ UNCHANGED home

Next == \/ Printing \/ Rubout \/ ToStart \/ ToEnd \/ Paste \/ Complete \/ Clear
        \/ Cancel \/ Run \/ Arrow \/ Resize
Spec == Init /\ [][Next]_vars

------------------------------------------------------------------------------
TypeOK == /\ DOMAIN term.cells = 0..(term.cols * term.rows - 1)
          /\ term.row \in 0..(term.rows - 1) /\ term.col \in 0..term.cols
          /\ term.line \in Seq(Printable) /\ Len(term.line) <= LINE_MAX
          /\ term.cursor \in 0..Len(term.line)
          /\ Len(term.history) <= HISTORY_CAP /\ term.pos \in 1..(Len(term.history) + 1)

\* The user sees the line that Enter will run, and its cursor, although line and
\* grid are changed separately by every key.  (Not after an arrow key: the bytes
\* of its sequence are also typed into the line; nor once the line was longer
\* than its row.)
LineOnScreen ==
    ~spoilt => /\ term.esc # "panic" /\ term.col = home + term.cursor
               /\ \A i \in 1..Len(term.line) : term.cells[At(term, term.row, home + i - 1)] = term.line[i]
               /\ \A c \in (home + Len(term.line))..(term.cols - 1) : term.cells[At(term, term.row, c)] = Blank
==============================================================================
