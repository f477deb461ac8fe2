-------------------------------- MODULE Mines --------------------------------
(* Minesweeper (desktop-metal app.rs).  Which cell a key or a click means is  *)
(* left open.                                                                 *)
EXTENDS Integers, Sequences, SequencesExt, FiniteSets

CONSTANTS MS_COLS, MS_ROWS, MS_MINES,
          MaxFlags   \* bound: flags at a time

VARIABLES mine,      \* the mined cells, none until the first reveal
          state,     \* "hidden", "open" or "flag"
          dead, won,
          revealed,  \* counter of open cells
          flags,     \* counter of flags
          blind      \* the reveal that placed the mines was on a flag

vars == <<mine, state, dead, won, revealed, flags, blind>>

Cells == (0..(MS_COLS - 1)) \X (0..(MS_ROWS - 1))
Near(a, b) == a - b \in -1..1
Neighbors(i) == {j \in Cells \ {i} : Near(i[1], j[1]) /\ Near(i[2], j[2])}
Count(m, i) == Cardinality(Neighbors(i) \cap m)

Reset == /\ mine' = {} /\ state' = [i \in Cells |-> "hidden"]
         /\ dead' = FALSE /\ won' = FALSE /\ revealed' = 0 /\ flags' = 0
         /\ blind' = FALSE

Init == /\ mine = {} /\ state = [i \in Cells |-> "hidden"]
        /\ dead = FALSE /\ won = FALSE /\ revealed = 0 /\ flags = 0
        /\ blind = FALSE

Over == dead \/ won

\* place_mines: anywhere but on and around the first cell.
Placements(safe) == {m \in SUBSET (Cells \ (Neighbors(safe) \cup {safe})) :
                       Cardinality(m) = MS_MINES}

\* The flood: a stack of cells to open; a cell without mines around it pushes
\* its neighbours.  The result is the states and the number of cells opened.
RECURSIVE Flood(_, _, _, _)
Flood(m, s, n, stack) ==
    IF stack = <<>> THEN <<s, n>>
    ELSE LET i == Last(stack)
             rest == Front(stack)
             opened == [s EXCEPT ![i] = "open"]
             more == SetToSeq({j \in Neighbors(i) \ m : opened[j] = "hidden"}) IN
         CASE s[i] # "hidden" -> Flood(m, s, n, rest)
           [] s[i] = "hidden" /\ Count(m, i) = 0 -> Flood(m, opened, n + 1, rest \o more)
           [] s[i] = "hidden" /\ Count(m, i) # 0 -> Flood(m, opened, n + 1, rest)

\* reveal: mines are placed before it is known whether the cell can be opened.
Reveal(i) ==
    /\ ~Over
    /\ mine' \in (IF mine = {} THEN Placements(i) ELSE {mine})
    /\ blind' = (blind \/ (mine = {} /\ state[i] # "hidden"))
    /\ LET filled == Flood(mine', state, revealed, <<i>>) IN
       CASE state[i] # "hidden" -> UNCHANGED <<state, dead, won, revealed>>
         [] state[i] = "hidden" /\ i \in mine' ->
              /\ state' = [state EXCEPT ![i] = "open"] /\ dead' = TRUE
              /\ UNCHANGED <<won, revealed>>
         [] state[i] = "hidden" /\ i \notin mine' ->
              /\ state' = filled[1] /\ revealed' = filled[2]
              /\ won' = (filled[2] = MS_COLS * MS_ROWS - MS_MINES)
              /\ UNCHANGED dead
    /\ UNCHANGED flags

ToggleFlag(i) ==
    /\ ~Over
    /\ \/ /\ state[i] = "hidden" /\ flags < MaxFlags
          /\ state' = [state EXCEPT ![i] = "flag"] /\ flags' = flags + 1
       \/ /\ state[i] = "flag"
          /\ state' = [state EXCEPT ![i] = "hidden"] /\ flags' = flags - 1
    /\ UNCHANGED <<mine, dead, won, revealed, blind>>

\* After the end of a game the same keys and clicks start another.
Again == Over /\ Reset

Next == Again \/ \E i \in Cells : Reveal(i) \/ ToggleFlag(i)

Spec == Init /\ [][Next]_vars

------------------------------------------------------------------------------
Open == {i \in Cells : state[i] = "open"}

TypeOK == /\ mine \subseteq Cells /\ state \in [Cells -> {"hidden", "open", "flag"}]
          /\ dead \in BOOLEAN /\ won \in BOOLEAN /\ blind \in BOOLEAN
          /\ revealed = Cardinality(Open \ mine)
          /\ flags = Cardinality({i \in Cells : state[i] = "flag"})

\* The game is won when every cell without a mine is open, flags or not, and
\* lost when a mine is; never both.
EndIsRight == /\ won <=> mine # {} /\ Open = Cells \ mine
              /\ dead <=> Open \cap mine # {}

\* "First reveal is always safe (mines placed after it)": a game is not lost
\* before a cell was opened, unless the mines were placed around a flag.
FirstRevealSafe == dead /\ ~blind => Cardinality(Open) > 1

\* A reveal opens the cells that can be reached from it over cells without
\* mines around them and without flags, and no other.
FloodOpensRegion ==
    \A i \in Cells :
        state[i] = "hidden" /\ state'[i] = "open" /\ Reveal(i) /\ ~dead' =>
           LET closed(S) == /\ i \in S
                            /\ \A j \in S : Count(mine', j) = 0 =>
                                 \A k \in Neighbors(j) : state[k] = "hidden" => k \in S IN
           {k \in Cells : state'[k] # state[k]}
             = {k \in Cells : \A S \in SUBSET Cells : closed(S) => k \in S}
==============================================================================
