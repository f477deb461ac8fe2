--------------------------------- MODULE Nic ---------------------------------
(* The descriptor rings of the network cards (e1000.rs, r8169.rs): the driver *)
(* and the card hand buffers to each other with a bit in each descriptor and, *)
(* on the Intel card, with head and tail registers.  A frame is its number.   *)
EXTENDS Integers, Sequences

CONSTANTS N,         \* N_DESC, N_RX, N_TX: descriptors in a ring
          MaxFrames  \* bound: frames in each direction

VARIABLES card,     \* "intel" or "realtek"
          rx,       \* RX descriptors: done (DD set, OWN clear) and the frame
          head,     \* where the card writes next
          tail,     \* RDT: the card stops there (Intel)
          RX_IDX,
          taken,    \* frames that the card has taken from the wire, in order
          got,      \* frames that poll_rx has returned, in order
          tx,       \* TX descriptors: owned by the card, and the frame
          txHead,   \* where the card sends next
          TDT,
          TX_IDX,
          confirm,  \* the slot that send waits for at its end (Intel), -1 if none
          sent,     \* number of calls of send
          wire,     \* frames the card has sent, in order
          stuck     \* send went on without the card once too often

rxVars == <<rx, head, tail, RX_IDX, taken, got>>
txVars == <<tx, txHead, TDT, TX_IDX, confirm, sent, wire, stuck>>
vars == <<card, rxVars, txVars>>

Slots == 0..(N - 1)
After(i) == (i + 1) % N

\* init: all but one receive descriptor are the Intel card's, all the Realtek's.
Init ==
    /\ card \in {"intel", "realtek"}
    /\ rx = [i \in Slots |-> [done |-> FALSE, frame |-> 0]]
    /\ head = 0 /\ tail = N - 1 /\ RX_IDX = 0 /\ taken = <<>> /\ got = <<>>
    /\ tx = [i \in Slots |-> [own |-> FALSE, frame |-> 0]]
    /\ txHead = 0 /\ TDT = 0 /\ TX_IDX = 0 /\ confirm = -1
    /\ sent = 0 /\ wire = <<>> /\ stuck = FALSE

\* The card takes a frame into its next descriptor; if it has none it drops it.
Arrive ==
    /\ Len(taken) < MaxFrames
    /\ IF card = "intel" THEN head # tail ELSE ~rx[head].done
    /\ rx' = [rx EXCEPT ![head] = [done |-> TRUE, frame |-> Len(taken) + 1]]
    /\ taken' = Append(taken, Len(taken) + 1)
    /\ head' = After(head)
    /\ UNCHANGED <<card, tail, RX_IDX, got, txVars>>

\* poll_rx: the frame of the next descriptor, which goes back to the card.
PollIntel ==
    /\ card = "intel" /\ rx[RX_IDX].done
    /\ got' = Append(got, rx[RX_IDX].frame)
    /\ rx' = [rx EXCEPT ![RX_IDX].done = FALSE]
    /\ tail' = RX_IDX
    /\ RX_IDX' = After(RX_IDX)
    /\ UNCHANGED <<card, head, taken, txVars>>

PollRealtek ==
    /\ card = "realtek" /\ rx[RX_IDX].done
    /\ got' = Append(got, rx[RX_IDX].frame)
    /\ rx' = [rx EXCEPT ![RX_IDX].done = FALSE]
    /\ RX_IDX' = After(RX_IDX)
    /\ UNCHANGED <<card, head, tail, taken, txVars>>

\* send: into the next descriptor, when the card has released it or when the
\* driver is tired of waiting for that.
SendIntel ==
    /\ card = "intel" /\ confirm = -1 /\ sent < MaxFrames
    /\ tx' = [tx EXCEPT ![TX_IDX] = [own |-> TRUE, frame |-> sent + 1]]
    /\ stuck' = (stuck \/ tx[TX_IDX].own)
    /\ sent' = sent + 1
    /\ TX_IDX' = After(TX_IDX) /\ TDT' = After(TX_IDX)
    /\ confirm' = TX_IDX
    /\ UNCHANGED <<card, rxVars, txHead, wire>>

\* ... and, on the Intel card, it waits a while until the frame is out.
Confirm ==
    /\ confirm # -1
    /\ confirm' = -1
    /\ stuck' = (stuck \/ \A i \in Slots : tx[i].own)
    /\ UNCHANGED <<card, rxVars, tx, txHead, TDT, TX_IDX, sent, wire>>

SendRealtek ==
    /\ card = "realtek" /\ sent < MaxFrames
    /\ tx' = [tx EXCEPT ![TX_IDX] = [own |-> TRUE, frame |-> sent + 1]]
    /\ stuck' = (stuck \/ tx[TX_IDX].own)
    /\ sent' = sent + 1
    /\ TX_IDX' = After(TX_IDX)
    /\ UNCHANGED <<card, rxVars, txHead, TDT, confirm, wire>>

\* The card sends from its next descriptor.
Transmit ==
    /\ IF card = "intel" THEN txHead # TDT ELSE tx[txHead].own
    /\ wire' = Append(wire, tx[txHead].frame)
    /\ tx' = [tx EXCEPT ![txHead].own = FALSE]
    /\ txHead' = After(txHead)
    /\ UNCHANGED <<card, rxVars, TDT, TX_IDX, confirm, sent, stuck>>

Driver == PollIntel \/ PollRealtek \/ SendIntel \/ Confirm \/ SendRealtek
Next == Arrive \/ Transmit \/ Driver
Spec == Init /\ [][Next]_vars

------------------------------------------------------------------------------
TypeOK ==
    /\ card \in {"intel", "realtek"}
    /\ rx \in [Slots -> [done : BOOLEAN, frame : 0..MaxFrames]]
    /\ tx \in [Slots -> [own : BOOLEAN, frame : 0..MaxFrames]]
    /\ head \in Slots /\ tail \in Slots /\ RX_IDX \in Slots
    /\ txHead \in Slots /\ TDT \in Slots /\ TX_IDX \in Slots
    /\ taken \in Seq(0..MaxFrames) /\ got \in Seq(0..MaxFrames) /\ wire \in Seq(0..MaxFrames)
    /\ sent \in 0..MaxFrames /\ confirm \in Slots \cup {-1} /\ stuck \in BOOLEAN

\* The k-th descriptor from i on.
Place(i, k) == (i + k) % N

\* What the card has taken from the wire is what the driver has returned and
\* what waits in the ring, each frame once and in order.
Unread == Len(taken) - Len(got)
ReceivedInOrder ==
    /\ Unread \in 0..N /\ \A k \in 0..(N - 1) : rx[Place(RX_IDX, k)].done <=> k < Unread
    /\ \A k \in 1..Len(got) : got[k] = taken[k]
    /\ \A k \in 1..Unread : rx[Place(RX_IDX, k - 1)].frame = taken[Len(got) + k]

\* What was given to send is what is out on the wire and what waits in the ring,
\* as long as the driver has not run over a card that stopped.
Unsent == sent - Len(wire)
SentInOrder ==
    ~stuck => /\ Unsent \in 0..N /\ \A k \in 0..(N - 1) : tx[Place(txHead, k)].own <=> k < Unsent
              /\ \A k \in 1..Len(wire) : wire[k] = k
              /\ \A k \in 1..Unsent : tx[Place(txHead, k - 1)].frame = Len(wire) + k

RingsInOrder == ReceivedInOrder /\ SentInOrder

------------------------------------------------------------------------------
(* What is proved of it, in KernelParts: the places of the card and of the    *)
(* driver in each ring are as far apart as frames wait in it.                 *)
NicConstants == N \in Nat \ {0} /\ MaxFrames \in Nat
PlacesApart ==
    /\ head = Place(RX_IDX, Unread)
    /\ card = "intel" => tail = Place(RX_IDX, N - 1) /\ Unread < N
    /\ ~stuck => TX_IDX = Place(txHead, Unsent) /\ (card = "intel" => TDT = TX_IDX)
CardInv == TypeOK /\ PlacesApart /\ RingsInOrder
==============================================================================
