-------------------------------- MODULE Eapol --------------------------------
(* The four-way handshake that gives a station its keys (eapol.rs), with an   *)
(* access point that repeats its messages, over air that loses, repeats and   *)
(* delays them.  A key is the record of what it was derived from, a MIC names *)
(* the key it was made with.                                                  *)
EXTENDS Integers, FiniteSets

CONSTANTS MaxTries,   \* bound: messages of the access point
          MaxRounds   \* bound: handshakes the access point begins

VARIABLES sup,   \* Supplicant: ptk (0 is none, else the nonce it is from), have_ptk
         keys,   \* Keys that on_message3 returned last, "none" before
         ap,     \* the access point: round (its nonce), counter, and how far it is
         toSta, toAp,  \* frames in the air, sets: a frame may arrive again
         tries

vars == <<sup, keys, ap, toSta, toAp, tries>>

\* wpa2::ptk with the addresses and our own nonce fixed: both sides put the
\* addresses and the nonces in order, so they derive the same key.
Ptk(anonce) == anonce
Gtk(round) == round

Init ==
    /\ sup = [ptk |-> 0, have_ptk |-> FALSE] /\ keys = {}
    /\ ap = [round |-> 1, counter |-> 0, state |-> "m1"]
    /\ toSta = {} /\ toAp = {} /\ tries = 0

(* The access point, as 802.11 has it: it repeats its message with the next   *)
(* replay counter until the answer to one comes, and may begin again.         *)
SendM1 ==
    /\ ap.state = "m1" /\ tries < MaxTries
    /\ toSta' = toSta \cup {[m |-> 1, nonce |-> ap.round, counter |-> ap.counter]}
    /\ ap' = [ap EXCEPT !.counter = @ + 1]
    /\ tries' = tries + 1
    /\ UNCHANGED <<sup, keys, toAp>>

SendM3 ==
    /\ ap.state = "m3" /\ tries < MaxTries
    /\ \E wrapped \in BOOLEAN :
         toSta' = toSta \cup {[m |-> 3, counter |-> ap.counter, mic |-> Ptk(ap.round),
                               gtk |-> IF wrapped THEN Gtk(ap.round) ELSE 0]}
    /\ ap' = [ap EXCEPT !.counter = @ + 1]
    /\ tries' = tries + 1
    /\ UNCHANGED <<sup, keys, toAp>>

TakeM2 ==
    /\ ap.state = "m1"
    /\ \E f \in toAp : /\ f.m = 2 /\ f.mic = Ptk(ap.round)
                       /\ f.counter = ap.counter - 1
    /\ ap' = [ap EXCEPT !.state = "m3"]
    /\ UNCHANGED <<sup, keys, toSta, toAp, tries>>

TakeM4 ==
    /\ ap.state = "m3"
    /\ \E f \in toAp : f.m = 4 /\ f.mic = Ptk(ap.round) /\ f.counter = ap.counter - 1
    /\ ap' = [ap EXCEPT !.state = "done"]
    /\ UNCHANGED <<sup, keys, toSta, toAp, tries>>

Restart ==
    /\ ap.state # "done" /\ ap.round < MaxRounds
    /\ ap' = [ap EXCEPT !.round = @ + 1, !.state = "m1"]
    /\ UNCHANGED <<sup, keys, toSta, toAp, tries>>

Lose == \/ \E f \in toSta : toSta' = toSta \ {f} /\ UNCHANGED <<sup, keys, ap, toAp, tries>>
        \/ \E f \in toAp : toAp' = toAp \ {f} /\ UNCHANGED <<sup, keys, ap, toSta, tries>>

------------------------------------------------------------------------------
\* on_message1: whatever was agreed before, the key is derived anew.
on_message1(m1) ==
    /\ m1.m = 1
    /\ sup' = [ptk |-> Ptk(m1.nonce), have_ptk |-> TRUE]
    /\ toAp' = toAp \cup {[m |-> 2, counter |-> m1.counter, mic |-> Ptk(m1.nonce)]}
    /\ UNCHANGED <<keys, ap, toSta, tries>>

\* Seeded fault: the code of the message is not compared.
verify_message3Any(m3) == sup.have_ptk

verify_message3(m3) == sup.have_ptk /\ m3.mic = sup.ptk

\* find_gtk_kde: a group key that cannot be unwrapped leaves none.
find_gtk_kde(m3) == m3.gtk

on_message3(m3) ==
    /\ m3.m = 3 /\ verify_message3(m3)
    /\ keys' = keys \cup {[ptk |-> sup.ptk, gtk |-> find_gtk_kde(m3)]}
    /\ toAp' = toAp \cup {[m |-> 4, counter |-> m3.counter, mic |-> sup.ptk]}
    /\ UNCHANGED <<sup, ap, toSta, tries>>

Receive == \E f \in toSta : on_message1(f) \/ on_message3(f)

Next == SendM1 \/ SendM3 \/ TakeM2 \/ TakeM4 \/ Restart \/ Lose \/ Receive
Spec == Init /\ [][Next]_vars

------------------------------------------------------------------------------
TypeOK ==
    /\ sup \in [ptk : 0..MaxRounds, have_ptk : BOOLEAN]
    /\ keys \subseteq [ptk : 0..MaxRounds, gtk : 0..MaxRounds]
    /\ ap.round \in 1..MaxRounds /\ ap.counter \in 0..MaxTries
    /\ ap.state \in {"m1", "m3", "done"}

\* When the access point is content, the station has been given the keys of this
\* very handshake, however often messages were repeated, late or lost; and it is
\* never given the group key of one handshake with the pairwise key of another.
KeysAgree ==
    /\ ap.state = "done" => \E k \in keys : k.ptk = Ptk(ap.round)
    /\ \A k \in keys : k.ptk # 0 /\ k.gtk \in {0, k.ptk}

------------------------------------------------------------------------------
(* What every step keeps, for the proof in ServicesProofs.                    *)

ToSta == [m : {1}, nonce : Nat \ {0}, counter : Int]
         \cup [m : {3}, counter : Int, mic : Nat \ {0}, gtk : Nat]
ToAp == [m : {2, 4}, counter : Int, mic : Nat \ {0}]

\* What is in the air came from where it says: a message 4 is only ever sent with
\* keys that were handed over, and a group key only with the pairwise key of its
\* own handshake.
Traced ==
    /\ sup \in [ptk : Nat, have_ptk : BOOLEAN] /\ (sup.have_ptk => sup.ptk # 0)
    /\ keys \subseteq [ptk : Nat \ {0}, gtk : Nat]
    /\ ap \in [round : Nat \ {0}, counter : Int, state : {"m1", "m3", "done"}]
    /\ toSta \subseteq ToSta /\ toAp \subseteq ToAp
    /\ \A f \in toSta : f.m = 3 => f.gtk \in {0, f.mic}
    /\ \A f \in toAp : f.m = 4 => \E k \in keys : k.ptk = f.mic
Inv == Traced /\ KeysAgree
==============================================================================
