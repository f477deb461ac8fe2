----------------------------- MODULE ByteStream -----------------------------
(* What a caller of the kernel's TCP client may rely on: the bytes it has   *)
(* been handed are the first bytes of what one server sent, in order and    *)
(* without a hole, and a connection that ended "complete" handed over all   *)
(* of them.  A connection may be cut at any time.                           *)
EXTENDS Integers, Sequences

CONSTANTS Servers,   \* the sources a connection can turn out to read from
          Size       \* how many bytes each of them sends

VARIABLES room,      \* how many bytes the caller has room for
          out,       \* the bytes handed over on the current connection
          end        \* "none", "open", "complete" or "cut"

vars == <<room, out, end>>

\* Byte i of the stream of server s.
Byte(s, i) == <<s, i>>

IsPrefixOf(o, s) == \A i \in 1..Len(o) : o[i] = Byte(s, i)

Init == room \in Nat /\ out = <<>> /\ end = "none"

Open == end' = "open" /\ out' = <<>> /\ room' \in Nat

Deliver ==
    /\ end = "open"
    /\ \E s \in Servers, n \in 1..Size :
         /\ Len(out) < n
         /\ IsPrefixOf(out, s)
         /\ out' = [i \in 1..n |-> Byte(s, i)]
    /\ UNCHANGED <<room, end>>

Complete == /\ end = "open"
            /\ end' = "complete"
            /\ Len(out') = (IF Size < room THEN Size ELSE room)
            /\ \E s \in Servers : IsPrefixOf(out, s) /\ IsPrefixOf(out', s)
            /\ UNCHANGED room

\* The last bytes may come with the end.
Cut == /\ end = "open"
       /\ end' = "cut"
       /\ \E s \in Servers, n \in Len(out)..Size :
            IsPrefixOf(out, s) /\ out' = [i \in 1..n |-> Byte(s, i)]
       /\ UNCHANGED room

Next == Open \/ Deliver \/ Complete \/ Cut

Spec == Init /\ [][Next]_vars
=============================================================================
