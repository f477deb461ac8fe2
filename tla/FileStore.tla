----------------------------- MODULE FileStore -----------------------------
(***************************************************************************)
(* What the filesystem of kernel/src/rpfs.rs promises its callers, with no   *)
(* blocks, slots or sectors: a map from paths to nothing, a directory or     *)
(* the content of a file, and the result of the last call.  Every call is    *)
(* one atomic step, and an orderly restart between two calls is invisible.   *)
(***************************************************************************)
EXTENDS Naturals, Sequences

CONSTANTS
  PathSet,   \* the paths callers use, closed under Ancestors
  Contents   \* the contents callers write

VARIABLES
  store,     \* what a reader finds at each path
  result     \* what the last call returned

NoFile    == "nofile"
Directory == "directory"

\* A path is the sequence of its '/'-separated components, "a/b" is <<"a", "b">>; what
\* lies below it are the paths that it is a proper prefix of.
Ancestor(p, k) == SubSeq(p, 1, k)
Ancestors(p)   == {Ancestor(p, k) : k \in 1 .. Len(p) - 1}
IsBelow(q, p)  == p \in Ancestors(q)

Missing(p) == {q \in Ancestors(p) : store[q] = NoFile}

(***************************************************************************)
(* store after a call that leaves v at p and has created the parents in D.   *)
(***************************************************************************)
With(p, v, D) ==
  [q \in PathSet |-> IF q = p THEN v ELSE IF q \in D THEN Directory ELSE store[q]]

Init ==
  /\ store = [p \in PathSet |-> NoFile]
  /\ result = TRUE

(***************************************************************************)
(* A successful write replaces the content at p, keeps every other path and  *)
(* may create missing parents.  Which of them it creates is left open here:  *)
(* the code does not create all of them (see ParentsCreated in Rpfs).        *)
(***************************************************************************)
WriteDone(p, c) ==
  /\ store[p] # Directory
  /\ \E D \in SUBSET Missing(p) : store' = With(p, c, D)
  /\ result' = TRUE

(***************************************************************************)
(* A write may be refused without effect.  When the device is full the old   *)
(* content is given up first, so a failed overwrite may also remove p.       *)
(***************************************************************************)
WriteFailed(p) ==
  /\ \/ store' = store
     \/ /\ store[p] # Directory
        /\ store' = With(p, NoFile, {})
  /\ result' = FALSE

DeleteDone(p) ==
  /\ store[p] # NoFile
  /\ store[p] = Directory => \A q \in PathSet : IsBelow(q, p) => store[q] = NoFile
  /\ store' = With(p, NoFile, {})
  /\ result' = TRUE

DeleteRefused(p) ==
  /\ \/ store[p] = NoFile
     \/ store[p] = Directory /\ \E q \in PathSet : IsBelow(q, p) /\ store[q] # NoFile
  /\ result' = FALSE
  /\ UNCHANGED store

(***************************************************************************)
(* mkdir is idempotent, and succeeds on any existing path, a file included.  *)
(***************************************************************************)
MkdirDone(p) ==
  /\ \E D \in SUBSET Missing(p) :
       store' = With(p, IF store[p] = NoFile THEN Directory ELSE store[p], D)
  /\ result' = TRUE

MkdirFailed(p) ==
  /\ store[p] = NoFile
  /\ \E D \in SUBSET Missing(p) : store' = With(p, NoFile, D)
  /\ result' = FALSE

Next ==
  \E p \in PathSet :
    \/ \E c \in Contents : WriteDone(p, c)
    \/ WriteFailed(p)
    \/ DeleteDone(p)
    \/ DeleteRefused(p)
    \/ MkdirDone(p)
    \/ MkdirFailed(p)

Spec == Init /\ [][Next]_<<store, result>>
=============================================================================
