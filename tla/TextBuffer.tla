----------------------------- MODULE TextBuffer -----------------------------
(* What the user of a text program of the desktop may rely on: a text with a  *)
(* cursor between two characters.  A key inserts at the cursor, deletes the   *)
(* character before or after it, or moves it; nothing else of the text        *)
(* changes.  Saving stores the text, opening shows the beginning of what is   *)
(* stored.                                                                    *)
EXTENDS Integers, Sequences, SequencesExt

VARIABLES text, pos, file

vars == <<text, pos, file>>

Init == IsPrefix(text, file) /\ pos \in 0..Len(text)

Insert == LET n == Len(text') - Len(text) IN
          /\ n > 0 /\ pos' = pos + n
          /\ SubSeq(text', 1, pos) = SubSeq(text, 1, pos)
          /\ SubSeq(text', pos' + 1, Len(text')) = SubSeq(text, pos + 1, Len(text))
          /\ UNCHANGED file

DeleteBack == /\ pos > 0 /\ text' = RemoveAt(text, pos) /\ pos' = pos - 1
              /\ UNCHANGED file

DeleteForward == /\ pos < Len(text) /\ text' = RemoveAt(text, pos + 1)
                 /\ UNCHANGED <<pos, file>>

Move == pos' \in 0..Len(text) /\ UNCHANGED <<text, file>>

Save == file' = text /\ UNCHANGED <<text, pos>>

Open == IsPrefix(text', file) /\ pos' \in 0..Len(text') /\ UNCHANGED file

Next == Insert \/ DeleteBack \/ DeleteForward \/ Move \/ Save \/ Open

Spec == Init /\ [][Next]_vars
=============================================================================
