------------------------------- MODULE Snake -------------------------------
(* Snake (desktop-metal app.rs): keys ask for a direction at any time, the    *)
(* clock moves the snake.                                                     *)
EXTENDS Integers, Sequences, SequencesExt

CONSTANTS SNAKE_COLS, SNAKE_ROWS,
          MaxScore   \* bound: food eaten

VARIABLES body,      \* cells, the head first
          dir,       \* of the last move
          pending,   \* asked for since
          food, score, dead, started

vars == <<body, dir, pending, food, score, dead, started>>

Cells == (0..(SNAKE_COLS - 1)) \X (0..(SNAKE_ROWS - 1))
Dirs == {<<0, -1>>, <<0, 1>>, <<-1, 0>>, <<1, 0>>}
Plus(p, d) == <<p[1] + d[1], p[2] + d[2]>>

First == LET cx == SNAKE_COLS \div 2
             cy == SNAKE_ROWS \div 2
         IN <<<<cx, cy>>, <<cx - 1, cy>>, <<cx - 2, cy>>>>

\* place_food: a free cell, or where the food was if 256 tries found none.
place_food(b, was) == (Cells \ ToSet(b)) \cup {was}

\* new: the food of the struct is at the origin before the first is placed.
Init == /\ body = First /\ dir = <<1, 0>> /\ pending = <<1, 0>>
        /\ score = 0 /\ dead = FALSE /\ started = FALSE
        /\ food \in place_food(First, <<0, 0>>)

\* on_key: steering starts the game; it is taken even when the game is over.
Steer(d) == /\ pending' = d /\ started' = TRUE
            /\ UNCHANGED <<body, dir, food, score, dead>>
Restart == /\ dead
           /\ body' = First /\ dir' = <<1, 0>> /\ pending' = <<1, 0>>
           /\ score' = 0 /\ dead' = FALSE /\ started' = FALSE
           /\ food' \in place_food(First, food)

\* Seeded fault: it also turns straight back.
TurnedAnyway == pending

\* tick: the direction asked for, unless it is straight back.
Turned == IF Plus(pending, dir) = <<0, 0>> THEN dir ELSE pending
tick == /\ ~dead /\ started
        /\ dir' = Turned
        /\ LET head == Plus(body[1], dir') IN
           IF head \notin Cells \/ head \in ToSet(body)
           THEN dead' = TRUE /\ UNCHANGED <<body, food, score>>
           ELSE /\ score' = score + (IF head = food THEN 1 ELSE 0) /\ score' <= MaxScore
                /\ body' = <<head>> \o (IF head = food THEN body ELSE Front(body))
                /\ food' \in (IF head = food THEN place_food(body', food) ELSE {food})
                /\ UNCHANGED dead
        /\ UNCHANGED <<pending, started>>

Next == (\E d \in Dirs : Steer(d)) \/ Restart \/ tick
Spec == Init /\ [][Next]_vars

------------------------------------------------------------------------------
TypeOK == /\ ToSet(body) \subseteq Cells /\ food \in Cells /\ {dir, pending} \subseteq Dirs
          /\ score \in 0..MaxScore

\* The snake is one piece that never lies on itself and is as long as it ate.
\* It dies only by running on into a wall or its side: no sequence of keys
\* between two moves turns it back into its own neck.
SnakeWhole == /\ IsInjective(body) /\ Len(body) = 3 + score
              /\ \A k \in 1..(Len(body) - 1) : \E d \in Dirs : body[k] = Plus(body[k + 1], d)
              /\ dead => Plus(body[1], dir) # body[2]
==============================================================================
