-------------------------------- MODULE Nano --------------------------------
(* nano, the editor inside a terminal window (desktop-metal term.rs,          *)
(* EditorState).  Other than the editor window it keeps the empty line behind *)
(* a last line break, so that saving and opening again changes nothing.       *)
EXTENDS Integers, Sequences, SequencesExt, FiniteSets

CONSTANTS Letters, \* printable characters
          Files,   \* what the file can hold at the start
          Rows,    \* heights of the terminal
          MaxText  \* bound: characters and line breaks in the editor

VARIABLES lines, row, col,  \* EditorState.lines, cursor_row, cursor_col (from 0)
          top,              \* scroll_top
          modified, esc,    \* esc_state
          rows,             \* of the terminal
          file

vars == <<lines, row, col, top, modified, esc, rows, file>>

NL == "newline"

\* EditorState::new: a line at every line break, and the rest.
Split(f) ==
    LET cut(acc, c) == IF c = NL THEN Append(acc, <<>>)
                                 ELSE [acc EXCEPT ![Len(acc)] = Append(@, c)] IN
    FoldLeft(cut, <<<<>>>>, f)

to_bytes(ls) == FoldLeft(LAMBDA acc, l : acc \o <<NL>> \o l, Head(ls), Tail(ls))

Init == /\ file \in Files /\ rows \in Rows
        /\ lines = Split(file) /\ row = 0 /\ col = 0 /\ top = 0
        /\ modified = FALSE /\ esc = 0

line_len(r) == Len(lines[r + 1])
Content(n) == n - 2

\* clamp_scroll, with which every key ends.
Scrolled(r) == IF r < top THEN r ELSE IF r >= top + Content(rows) THEN r - Content(rows) + 1 ELSE top
At(ls, r, c) == /\ lines' = ls /\ row' = r
                /\ col' = (IF c > Len(ls[r + 1]) THEN Len(ls[r + 1]) ELSE c)
                /\ top' = Scrolled(r)

\* An arrow key is three bytes, each a call of send_key_editor.
Escape == esc = 0 /\ esc' = 1 /\ UNCHANGED <<lines, row, col, top, modified, rows, file>>
Bracket(b) == /\ esc = 1 /\ esc' = (IF b = "[" THEN 2 ELSE 0)
              /\ UNCHANGED <<lines, row, col, top, modified, rows, file>>
Final(b) ==
    /\ esc = 2 /\ esc' = 0
    /\ CASE b = "A" /\ row > 0 -> At(lines, row - 1, col)
         [] b = "B" /\ row + 1 < Len(lines) -> At(lines, row + 1, col)
         [] b = "C" /\ col < line_len(row) -> At(lines, row, col + 1)
         [] b = "C" /\ col >= line_len(row) /\ row + 1 < Len(lines) -> At(lines, row + 1, 0)
         [] b = "D" /\ col > 0 -> At(lines, row, col - 1)
         [] b = "D" /\ col = 0 /\ row > 0 -> At(lines, row - 1, line_len(row - 1))
         [] b = "H" -> At(lines, row, 0)
         [] b = "F" -> At(lines, row, line_len(row))
         [] OTHER -> At(lines, row, col)
    /\ UNCHANGED <<modified, rows, file>>

HasRoom == Len(to_bytes(lines)) < MaxText

insert_char(b) ==
    /\ esc = 0 /\ HasRoom
    /\ At([lines EXCEPT ![row + 1] = InsertAt(@, col + 1, b)], row, col + 1)
    /\ modified' = TRUE /\ UNCHANGED <<esc, rows, file>>

backspace ==
    /\ esc = 0
    /\ IF col > 0 THEN At([lines EXCEPT ![row + 1] = RemoveAt(@, col)], row, col - 1)
       ELSE /\ row > 0
            /\ At(RemoveAt([lines EXCEPT ![row] = @ \o lines[row + 1]], row + 1), row - 1, line_len(row - 1))
    /\ modified' = TRUE /\ UNCHANGED <<esc, rows, file>>

newline ==
    LET l == lines[row + 1] IN
    /\ esc = 0 /\ HasRoom
    /\ At(InsertAt([lines EXCEPT ![row + 1] = SubSeq(@, 1, col)], row + 2, SubSeq(l, col + 1, Len(l))),
          row + 1, 0)
    /\ modified' = TRUE /\ UNCHANGED <<esc, rows, file>>

\* Ctrl+S.
Save == /\ esc = 0 /\ file' = to_bytes(lines) /\ modified' = FALSE
        /\ At(lines, row, col) /\ UNCHANGED <<esc, rows>>

\* Ctrl+X or Ctrl+Q, without a question, and nano on the same file again.
ExitAndOpen == /\ esc = 0
               /\ lines' = Split(file) /\ row' = 0 /\ col' = 0 /\ top' = 0 /\ modified' = FALSE
               /\ UNCHANGED <<esc, rows, file>>

\* The window is resized; the editor hears of it with the next key.
Resize == rows' \in Rows /\ UNCHANGED <<lines, row, col, top, modified, esc, file>>

Next == \/ Escape \/ backspace \/ newline \/ Save \/ ExitAndOpen \/ Resize
        \/ \E b \in Letters \cup {"["} : Bracket(b)
        \/ \E b \in {"A", "B", "C", "D", "H", "F"} : Final(b)
        \/ \E b \in Letters : insert_char(b)
Spec == Init /\ [][Next]_vars

------------------------------------------------------------------------------
TypeOK == /\ \A i \in 1..Len(lines) : lines[i] \in Seq(Letters)
          /\ row \in 0..(Len(lines) - 1) /\ col \in 0..line_len(row)
          /\ esc \in 0..2 /\ modified \in BOOLEAN /\ top \in 0..row

\* Keys, arrow keys and line breaks edit one text at one place.
Flat == to_bytes(lines)
FlatPos == Len(to_bytes(SubSeq(lines, 1, row + 1))) - line_len(row) + col
Buffer == INSTANCE TextBuffer WITH text <- Flat, pos <- FlatPos
ImplementsBuffer == Buffer!Spec

\* Nothing is lost without the mark: an unmodified text is the file's.
UnmodifiedIsSaved == ~modified => Flat = file
==============================================================================
