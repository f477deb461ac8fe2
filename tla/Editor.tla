------------------------------- MODULE Editor -------------------------------
(* The text editor of the desktop (desktop-metal editor.rs): a list of lines, *)
(* a cursor, the file it was opened on and the clipboard that all windows     *)
(* share.  A character is one byte here.                                      *)
EXTENDS Integers, Sequences, SequencesExt, FiniteSets

CONSTANTS Letters,   \* the printable characters; "space" is another
          TAB_WIDTH,
          Files,     \* what the file can hold at the start
          MaxText,   \* bound: characters and line breaks in the editor
          MaxClip    \* bound: characters of a line that is copied

VARIABLES lines, line, col,  \* TextEditor.lines, cursor_line, cursor_col
          dirty,             \* unsaved changes
          clip,              \* the clipboard, <<>> if there is none or nothing in it
          file

vars == <<lines, line, col, dirty, clip, file>>

NL == "newline"
Chars == Letters \cup {"space"}

Breaks(f) == {i \in 1..Len(f) : f[i] = NL}

\* str::lines: what lies between line breaks; a last line without a character
\* is none.
Split(f) ==
    LET pieces == [n \in 1..(Cardinality(Breaks(f)) + 1) |->
                     LET b == SetToSortSeq(Breaks(f), <) IN
                     SubSeq(f, IF n = 1 THEN 1 ELSE b[n - 1] + 1,
                               IF n > Len(b) THEN Len(f) ELSE b[n] - 1)] IN
    IF Last(pieces) = <<>> THEN Front(pieces) ELSE pieces

Load(f) == IF Split(f) = <<>> THEN <<<<>>>> ELSE Split(f)

\* lines.join("\n").
Join(ls) ==
    LET join[n \in 1..Len(ls)] ==
            IF n = 1 THEN ls[1] ELSE join[n - 1] \o <<NL>> \o ls[n] IN
    join[Len(ls)]

Init == /\ file \in Files
        /\ lines = Load(file) /\ line = 1 /\ col = 0
        /\ dirty = FALSE /\ clip = <<>>

Current == lines[line]
HasRoom(n) == Len(Join(lines)) + n <= MaxText

\* clamp_cursor, which every key ends with: ls, l and c are what the key left.
Clamped(ls, l, c) ==
    LET m == IF l > Len(ls) THEN Len(ls) ELSE l IN
    /\ lines' = ls /\ line' = m
    /\ col' = (IF c > Len(ls[m]) THEN Len(ls[m]) ELSE c)

Put(ls, l, c, s) == [ls EXCEPT ![l] = SubSeq(@, 1, c) \o s \o SubSeq(@, c + 1, Len(@))]
Cut(ls, l, c) == InsertAt([ls EXCEPT ![l] = SubSeq(@, 1, c)], l + 1, SubSeq(ls[l], c + 1, Len(ls[l])))
Glue(ls, l) == RemoveAt([ls EXCEPT ![l] = @ \o ls[l + 1]], l + 1)

\* Up, Down, Left, Right, Home, End.
Arrow ==
    /\ \/ line > 1 /\ Clamped(lines, line - 1, col)
       \/ line < Len(lines) /\ Clamped(lines, line + 1, col)
       \/ IF col < Len(Current) THEN Clamped(lines, line, col + 1)
            ELSE line < Len(lines) /\ Clamped(lines, line + 1, 0)
       \/ IF col > 0 THEN Clamped(lines, line, col - 1)
            ELSE line > 1 /\ Clamped(lines, line - 1, Len(lines[line - 1]))
       \/ Clamped(lines, line, 0)
       \/ Clamped(lines, line, Len(Current))
    /\ UNCHANGED <<dirty, clip, file>>

\* A click, on any line on screen: beyond the end of a line it is at the end.
Click(l, c) == /\ line' = l
               /\ col' = (IF c > Len(lines[l]) THEN Len(lines[l]) ELSE c)
               /\ UNCHANGED <<lines, dirty, clip, file>>

Changed(did) == /\ dirty' = (dirty \/ did)
                /\ UNCHANGED <<clip, file>>

Delete == /\ IF col < Len(Current)
               THEN Clamped([lines EXCEPT ![line] = RemoveAt(@, col + 1)], line, col)
               ELSE line < Len(lines) /\ Clamped(Glue(lines, line), line, col)
          /\ Changed(TRUE)

\* Seeded fault: the cursor is not put where the lines meet.
BackspaceKeepsColumn ==
    /\ IF col > 0
         THEN Clamped([lines EXCEPT ![line] = RemoveAt(@, col)], line, col - 1)
         ELSE line > 1 /\ Clamped(Glue(lines, line - 1), line - 1, col)
    /\ Changed(TRUE)

Backspace ==
    /\ IF col > 0
         THEN Clamped([lines EXCEPT ![line] = RemoveAt(@, col)], line, col - 1)
         ELSE line > 1 /\ Clamped(Glue(lines, line - 1), line - 1, Len(lines[line - 1]))
    /\ Changed(TRUE)

Type(c) == /\ HasRoom(1) /\ Clamped(Put(lines, line, col, <<c>>), line, col + 1)
           /\ Changed(TRUE)

Tab == /\ HasRoom(TAB_WIDTH)
       /\ Clamped(Put(lines, line, col, [i \in 1..TAB_WIDTH |-> "space"]), line, col + TAB_WIDTH)
       /\ Changed(TRUE)

Enter == /\ HasRoom(1) /\ Clamped(Cut(lines, line, col), line + 1, 0)
         /\ Changed(TRUE)

\* Ctrl+C takes the current line, without its break; another window may have
\* put something with line breaks there.
Copy == /\ Len(Current) <= MaxClip /\ clip' = Current
        /\ UNCHANGED <<lines, line, col, dirty, file>>
CopiedElsewhere == /\ clip' \in Files /\ clip' # <<>>
                   /\ UNCHANGED <<lines, line, col, dirty, file>>

\* Ctrl+V: character by character.
Paste ==
    LET at == [i \in 0..Len(clip) |-> SubSeq(clip, 1, i)]
        place[i \in 0..Len(clip)] ==
            IF i = 0 THEN <<lines, line, col>>
            ELSE LET p == place[i - 1] IN
                 IF clip[i] = NL THEN <<Cut(p[1], p[2], p[3]), p[2] + 1, 0>>
                 ELSE <<Put(p[1], p[2], p[3], <<clip[i]>>), p[2], p[3] + 1>>
        end == place[Len(clip)] IN
    /\ HasRoom(Len(clip))
    /\ Clamped(end[1], end[2], end[3])
    /\ \E did \in {TRUE, clip # <<>>} : Changed(did)

\* Ctrl+S; the desktop's loop calls it.
Save == /\ file' = Join(lines) /\ dirty' = FALSE
        /\ UNCHANGED <<lines, line, col, clip>>

\* The window is closed, without a question, and the file opened again.
Reopen == /\ lines' = Load(file) /\ line' = 1 /\ col' = 0 /\ dirty' = FALSE
          /\ UNCHANGED <<clip, file>>

Next == \/ Arrow \/ Delete \/ Backspace \/ Tab \/ Enter
        \/ \E l \in 1..Len(lines) : \E c \in 0..Len(lines[l]) : Click(l, c)
        \/ \E c \in Letters : Type(c)
        \/ Copy \/ CopiedElsewhere \/ Paste \/ Save \/ Reopen

Spec == Init /\ [][Next]_vars

------------------------------------------------------------------------------
\* The cursor is on the text: beyond it, the next key would stop the desktop.
TypeOK == /\ \A i \in 1..Len(lines) : lines[i] \in Seq(Chars)
          /\ line \in 1..Len(lines) /\ col \in 0..Len(Current)
          /\ dirty \in BOOLEAN /\ clip \in Seq(Chars \cup {NL}) /\ file \in Seq(Chars \cup {NL})

\* Splitting, gluing and pasting lines is editing one text at one place.
Flat == Join(lines)
FlatPos == Len(Join(SubSeq(lines, 1, line))) - Len(Current) + col
Buffer == INSTANCE TextBuffer WITH text <- Flat, pos <- FlatPos
ImplementsBuffer == Buffer!Spec

\* Without the mark of unsaved changes the editor shows the file, but for one
\* line break at its end, which neither opening nor saving keeps.
UnsavedIsMarked == ~dirty => file \in {Flat, Flat \o <<NL>>}

\* What was saved is what is opened, but for an empty line at the end.
ReopenShows == Reopen /\ ~dirty => Flat' = Flat \/ Flat = Flat' \o <<NL>>
==============================================================================
