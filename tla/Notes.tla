-------------------------------- MODULE Notes --------------------------------
(* The Notes program of the desktop (desktop-metal app.rs): one buffer, one    *)
(* cursor, the file "notes.txt".                                              *)
EXTENDS Integers, Sequences, SequencesExt, FiniteSets

CONSTANTS Letters,   \* the printable characters
          NOTES_CAP, \* bytes in the buffer, of which one stays free
          Files,     \* what notes.txt can hold at the start
          Shortcuts  \* keys that the desktop's loop keeps for itself

VARIABLES buf,       \* Notes.buf up to Notes.len
          cursor,
          modified,
          file,      \* notes.txt
          pressed    \* the last key: "up", "down", "save" or another, "text"

vars == <<buf, cursor, modified, file, pressed>>

NL == "newline"
Texts == Letters \cup {NL}
Loaded(f) == SubSeq(f, 1, IF Len(f) < NOTES_CAP - 1 THEN Len(f) ELSE NOTES_CAP - 1)

Init == /\ file \in Files
        /\ buf = Loaded(file) /\ cursor = Len(buf) /\ modified = FALSE
        /\ pressed = "none"

Breaks(n) == {i \in 1..n : buf[i] = NL}
CurrentLine == Cardinality(Breaks(cursor))

\* line_range: where line n starts and where it ends, counted from 0.  The scan
\* that looks for the start ends before it reaches an empty last line.
LineRange(n) ==
    LET starts == {i \in 0..(Len(buf) - 1) : Cardinality(Breaks(i)) = n}
        start == IF starts = {} THEN 0
                 ELSE CHOOSE i \in starts : \A j \in starts : i <= j
        ends == {i \in start..Len(buf) : i = Len(buf) \/ buf[i + 1] = NL} IN
    IF Cardinality(Breaks(Len(buf))) < n THEN <<Len(buf), Len(buf)>>
    ELSE <<start, CHOOSE i \in ends : \A j \in ends : i <= j>>

Least(a, b) == IF a < b THEN a ELSE b

Press(k) == pressed' = k
Kept == UNCHANGED <<buf, modified, file>>

Type(c) == /\ Press("text")
           /\ IF Len(buf) < NOTES_CAP - 1
                THEN /\ buf' = InsertAt(buf, cursor + 1, c)
                     /\ cursor' = cursor + 1 /\ modified' = TRUE
                ELSE UNCHANGED <<buf, cursor, modified>>
           /\ UNCHANGED file

Backspace == /\ Press("text")
             /\ IF cursor > 0
                  THEN buf' = RemoveAt(buf, cursor) /\ cursor' = cursor - 1 /\ modified' = TRUE
                  ELSE UNCHANGED <<buf, cursor, modified>>
             /\ UNCHANGED file

\* The byte 0x7F; the key sequence for Delete is not looked at.
Delete == /\ Press("text")
          /\ IF cursor < Len(buf) THEN buf' = RemoveAt(buf, cursor + 1) /\ modified' = TRUE
                                  ELSE UNCHANGED <<buf, modified>>
          /\ UNCHANGED <<cursor, file>>

Left == Press("text") /\ cursor' = (IF cursor > 0 THEN cursor - 1 ELSE cursor) /\ Kept
Right == Press("text") /\ cursor' = Least(cursor + 1, Len(buf)) /\ Kept

Up == /\ Press("up") /\ Kept
      /\ LET n == CurrentLine
             col == cursor - LineRange(n)[1]
             above == LineRange(n - 1) IN
         cursor' = (IF n > 0 THEN Least(above[1] + col, above[2]) ELSE cursor)

Down == /\ Press("down") /\ Kept
        /\ LET n == CurrentLine
               col == cursor - LineRange(n)[1]
               below == LineRange(n + 1) IN
           cursor' = (IF below[1] < Len(buf) \/ below[1] = below[2]
                        THEN Least(below[1] + col, below[2]) ELSE cursor)

\* Ctrl+S, when it reaches the program.
Save == /\ Press("save")
        /\ IF "save" \in Shortcuts THEN UNCHANGED <<file, modified>>
                                   ELSE file' = buf /\ modified' = FALSE
        /\ UNCHANGED <<buf, cursor>>

\* The window is closed, without a question, and the program opened again.
Reopen == /\ Press("text")
          /\ buf' = Loaded(file) /\ cursor' = Len(buf') /\ modified' = FALSE
          /\ UNCHANGED file

Next == \/ \E c \in Texts : Type(c)
        \/ Backspace \/ Delete \/ Left \/ Right \/ Up \/ Down \/ Save \/ Reopen

Spec == Init /\ [][Next]_vars

------------------------------------------------------------------------------
TypeOK == /\ buf \in Seq(Texts) /\ Len(buf) < NOTES_CAP /\ cursor \in 0..Len(buf)
          /\ modified \in BOOLEAN /\ file \in Seq(Texts)

\* The buffer that is moved about in place is a text with a cursor.
Buffer == INSTANCE TextBuffer WITH text <- buf, pos <- cursor
ImplementsBuffer == Buffer!Spec

\* What "[modified]" does not warn of is on the disk, except the end of a file
\* that is longer than the buffer.
UnsavedIsMarked == ~modified => buf = Loaded(file)

\* The arrow keys move by one line and keep the column, as far as the line
\* goes; next to an empty last line line_range gives wrong places.
ColumnOf(p) == p - (CHOOSE b \in {0} \cup Breaks(p) : \A c \in Breaks(p) : c <= b)
LineLength(n) == Cardinality({p \in 0..Len(buf) : Cardinality(Breaks(p)) = n}) - 1
MovesByLine ==
    LET n == Cardinality(Breaks(cursor))
        m == IF pressed' = "up" THEN n - 1 ELSE n + 1 IN
       /\ pressed' \in {"up", "down"} /\ m \in 0..Cardinality(Breaks(Len(buf)))
       /\ NL # buf[Len(buf)]
       => /\ Cardinality(Breaks(cursor')) = m
          /\ ColumnOf(cursor') = Least(ColumnOf(cursor), LineLength(m))

\* "Ctrl+S save": after it the notes are on the disk.
CtrlSSaves == [][pressed' = "save" /\ modified => file' = buf]_vars
==============================================================================
