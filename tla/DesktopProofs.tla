---------------------------- MODULE DesktopProofs ----------------------------
(***************************************************************************)
(* The desktop, for every set of names, contents, desktops and menu items, any *)
(* list of built-in files and any number of windows, calls, failures, restarts,*)
(* keys and clicks.                                                           *)
(*                                                                           *)
(* First the mirror of its file tree: a restart shows what was saved, and a    *)
(* call that it cuts short leaves the old or the new state.  The invariant says *)
(* of every promised name that the tree shows what loading the disk would show *)
(* (Loaded), and of a built-in file moreover that its content on the disk, if  *)
(* there is one, is the one shown, for the next manifest will name it.         *)
(* Between the two disk calls of a call its own names are only Ready: on the    *)
(* disk what the manifest is about to say of them.                             *)
(*                                                                           *)
(* Then the window manager: one menu at a time, nothing held when the button   *)
(* is up, a force-quit that meets the window it was asked for, and the order of *)
(* the windows.                                                               *)
(***************************************************************************)
EXTENDS DesktopVfs, WellFoundedInduction, FiniteSetTheorems, SequenceTheorems, TLAPS

(* A set of numbers has a least one.                                          *)
LEMMA LeastNatural ==
  ASSUME NEW S \in SUBSET Nat, S # {}
  PROVE  \E x \in S : \A y \in S : x <= y
<1> DEFINE I == {0 .. (n - 1) : n \in S}
<1>1. \A n \in S : 0 .. (n - 1) \in FiniteSubsetsOf(Nat)
  BY FS_Interval DEF FiniteSubsetsOf
<1>2. PICK t \in I : \A u \in I : ~(<<u, t>> \in StrictSubsetOrdering(Nat))
  <2>1. I \subseteq FiniteSubsetsOf(Nat) /\ I # {}
    BY <1>1
  <2> HIDE DEF I
  <2>2. QED
    BY <2>1, WFMin, FS_StrictSubsetOrderingWellFounded
<1>3. PICK x \in S : t = 0 .. (x - 1)
  OBVIOUS
<1>4. ASSUME NEW y \in S, y < x PROVE FALSE
  <2>1. (0 .. (y - 1)) \subseteq (0 .. (x - 1)) /\ y \in 0 .. (x - 1) /\ y \notin 0 .. (y - 1)
    BY <1>4
  <2>2. <<0 .. (y - 1), t>> \in StrictSubsetOrdering(Nat)
    BY <1>3, <2>1 DEF StrictSubsetOrdering
  <2>3. QED
    BY <1>2, <2>2
<1>5. QED
  BY <1>4

(* Induction, over the members of a set: the theorem for predicates is out of reach. *)
LEMMA NatSetInduction ==
  ASSUME NEW S \in SUBSET Nat, 0 \in S, \A n \in S : n + 1 \in S
  PROVE  S = Nat
<1> SUFFICES ASSUME Nat \ S # {} PROVE FALSE
  OBVIOUS
<1>1. PICK x \in Nat \ S : \A y \in Nat \ S : x <= y
  BY LeastNatural
<1>2. x - 1 \in Nat /\ x - 1 \notin Nat \ S
  BY <1>1
<1>3. QED
  BY <1>1, <1>2

-----------------------------------------------------------------------------
(* What is read from a tree.                                                  *)
Tree == Seq(Entry(Names))

FileAt(es, i, n) == es[i].name = n /\ ~es[i].is_dir
HasFile(es, n)   == \E i \in 1 .. Len(es) : FileAt(es, i, n)

(* The first file of a name, and what a reader finds.                          *)
LEMMA FirstFileIs ==
  ASSUME NEW es \in Tree, NEW n
  PROVE  /\ ~HasFile(es, n) => FirstFile(es, n) = 0
         /\ HasFile(es, n) => /\ FirstFile(es, n) \in 1 .. Len(es)
                              /\ FileAt(es, FirstFile(es, n), n)
                              /\ \A j \in 1 .. FirstFile(es, n) - 1 : ~FileAt(es, j, n)
<1> DEFINE I == {i \in 1 .. Len(es) : es[i].name = n /\ ~es[i].is_dir}
<1>0. Len(es) \in Nat
  BY DEF Tree
<1>1. FirstFile(es, n) = IF I # {} THEN CHOOSE x \in I : \A y \in I : x =< y ELSE 0
  BY DEF FirstFile, SelectInSeq, Min
<1>2. HasFile(es, n) <=> I # {}
  BY DEF HasFile, FileAt
<1>3. CASE I # {}
  <2>1. I \in SUBSET Nat
    BY <1>0
  <2>2. \E x \in I : \A y \in I : x <= y
    <3> HIDE DEF I
    <3>1. QED
      BY <2>1, <1>3, LeastNatural
  <2>3. FirstFile(es, n) \in I /\ \A y \in I : FirstFile(es, n) <= y
    <3> HIDE DEF I
    <3>1. QED
      BY <1>1, <1>3, <2>2
  <2>4. \A j \in 1 .. FirstFile(es, n) - 1 : j \notin I
    BY <1>0, <2>1, <2>3
  <2>5. QED
    BY <1>0, <1>2, <1>3, <2>3, <2>4 DEF FileAt
<1>4. CASE I = {}
  BY <1>1, <1>2, <1>4
<1>5. QED
  BY <1>3, <1>4

LEMMA ReadsFirst ==
  ASSUME NEW es \in Tree, NEW n, NEW i \in 1 .. Len(es), FileAt(es, i, n),
         \A j \in 1 .. i - 1 : ~FileAt(es, j, n)
  PROVE  FirstFile(es, n) = i /\ read(es, n) = es[i].data /\ HasFile(es, n)
<1>0. Len(es) \in Nat
  BY DEF Tree
<1>1. HasFile(es, n)
  BY DEF HasFile
<1>2. /\ FirstFile(es, n) \in 1 .. Len(es) /\ FileAt(es, FirstFile(es, n), n)
      /\ \A j \in 1 .. FirstFile(es, n) - 1 : ~FileAt(es, j, n)
  BY <1>1, FirstFileIs
<1>3. FirstFile(es, n) = i
  <2>1. ~(FirstFile(es, n) < i)
    BY <1>0, <1>2
  <2>2. ~(i < FirstFile(es, n))
    BY <1>0, <1>2
  <2>3. QED
    BY <1>0, <1>2, <2>1, <2>2
<1>4. QED
  BY <1>0, <1>1, <1>3 DEF read

LEMMA ReadIs ==
  ASSUME NEW es \in Tree, NEW n
  PROVE  /\ ~HasFile(es, n) => read(es, n) = Absent
         /\ HasFile(es, n) => read(es, n) \in Contents
         /\ HasFile(es, n) <=> read(es, n) # Absent
<1>0. Len(es) \in Nat /\ Absent \notin Contents
  BY VfsAssumption DEF Tree, Contents, Inputs, Absent, Empty, Long, Cut, Builtin
<1>1. CASE ~HasFile(es, n)
  BY <1>0, <1>1, FirstFileIs DEF read
<1>2. CASE HasFile(es, n)
  <2>1. FirstFile(es, n) \in 1 .. Len(es)
    BY <1>2, FirstFileIs
  <2>2. es[FirstFile(es, n)] \in Entry(Names)
    BY <2>1 DEF Tree
  <2>3. read(es, n) = es[FirstFile(es, n)].data
    BY <1>0, <2>1 DEF read
  <2>4. QED
    BY <1>0, <1>2, <2>2, <2>3 DEF Entry
<1>3. QED
  BY <1>1, <1>2

(* Two trees whose files of a name are at the same places hold the same of it. *)
LEMMA SameRead ==
  ASSUME NEW es \in Tree, NEW fs \in Tree, NEW n, Len(es) <= Len(fs),
         \A i \in 1 .. Len(es) :
            /\ FileAt(es, i, n) <=> FileAt(fs, i, n)
            /\ FileAt(es, i, n) => fs[i].data = es[i].data,
         \A i \in Len(es) + 1 .. Len(fs) : ~FileAt(fs, i, n)
  PROVE  read(fs, n) = read(es, n)
<1>0. Len(es) \in Nat /\ Len(fs) \in Nat
  BY DEF Tree
<1>1. CASE HasFile(es, n)
  <2> DEFINE i == FirstFile(es, n)
  <2>1. /\ i \in 1 .. Len(es) /\ FileAt(es, i, n)
        /\ \A j \in 1 .. i - 1 : ~FileAt(es, j, n)
    BY <1>1, FirstFileIs
  <2> HIDE DEF i
  <2>2. i \in 1 .. Len(fs) /\ FileAt(fs, i, n) /\ \A j \in 1 .. i - 1 : ~FileAt(fs, j, n)
    BY <1>0, <2>1
  <2>3. read(es, n) = es[i].data /\ read(fs, n) = fs[i].data
    BY <2>1, <2>2, ReadsFirst
  <2>4. QED
    BY <2>1, <2>3
<1>2. CASE ~HasFile(es, n)
  <2>1. ~HasFile(fs, n)
    BY <1>0, <1>2 DEF HasFile
  <2>2. QED
    BY <1>2, <2>1, ReadIs
<1>3. QED
  BY <1>1, <1>2
-----------------------------------------------------------------------------
(* What the calls do to a tree.                                               *)
Typing == Absent \notin Contents /\ Empty \in Contents /\ Names \subseteq Seq(STRING) \ {<<>>}

LEMMA TypingHolds == Typing
BY VfsAssumption DEF Typing, Contents, Inputs, Absent, Empty, Long, Cut, Builtin

(* Every directory of es lies above a name: it was made for one.               *)
Above(es) == \A i \in 1 .. Len(es) : es[i].is_dir => \E n \in Names : Disk!IsBelow(n, es[i].name)

LEMMA AppendTree ==
  ASSUME NEW es \in Tree, NEW e \in Entry(Names)
  PROVE  /\ Append(es, e) \in Tree
         /\ Len(Append(es, e)) = Len(es) + 1 /\ Len(es) \in Nat
         /\ Append(es, e)[Len(es) + 1] = e
         /\ \A i \in 1 .. Len(es) : Append(es, e)[i] = es[i]
BY DEF Tree

LEMMA AppendRead ==
  ASSUME NEW es \in Tree, NEW e \in Entry(Names), NEW m,
         ~(e.name = m /\ ~e.is_dir)
  PROVE  read(Append(es, e), m) = read(es, m)
<1>1. PICK fs : fs = Append(es, e)
  OBVIOUS
<1>2. /\ fs \in Tree /\ Len(fs) = Len(es) + 1 /\ Len(es) \in Nat /\ fs[Len(es) + 1] = e
      /\ \A i \in 1 .. Len(es) : fs[i] = es[i]
  BY <1>1, AppendTree
<1>3. \A i \in 1 .. Len(es) : /\ FileAt(es, i, m) <=> FileAt(fs, i, m)
                              /\ FileAt(es, i, m) => fs[i].data = es[i].data
  BY <1>2 DEF FileAt
<1>4. \A i \in Len(es) + 1 .. Len(fs) : ~FileAt(fs, i, m)
  BY <1>2 DEF FileAt
<1>5. read(fs, m) = read(es, m)
  BY <1>2, <1>3, <1>4, SameRead
<1>6. QED
  BY <1>1, <1>5

LEMMA AppendFileRead ==
  ASSUME NEW es \in Tree, NEW n \in Names, NEW c \in Contents, ~HasFile(es, n)
  PROVE  read(Append(es, File(n, c)), n) = c
<1>0. File(n, c) \in Entry(Names)
  BY DEF File, Entry
<1>1. PICK fs : fs = Append(es, File(n, c))
  OBVIOUS
<1>2. /\ fs \in Tree /\ Len(fs) = Len(es) + 1 /\ Len(es) \in Nat
      /\ fs[Len(es) + 1] = File(n, c)
      /\ \A i \in 1 .. Len(es) : fs[i] = es[i]
  BY <1>0, <1>1, AppendTree
<1>3. Len(es) + 1 \in 1 .. Len(fs) /\ FileAt(fs, Len(es) + 1, n)
  BY <1>2 DEF FileAt, File
<1>4. \A j \in 1 .. (Len(es) + 1) - 1 : ~FileAt(fs, j, n)
  BY <1>2 DEF FileAt, HasFile
<1>5. read(fs, n) = fs[Len(es) + 1].data
  BY <1>2, <1>3, <1>4, ReadsFirst
<1>6. QED
  BY <1>1, <1>2, <1>5 DEF File

(* write replaces or adds the file, and nothing else.                          *)
LEMMA WriteMem ==
  ASSUME NEW es \in Tree, NEW n \in Names, NEW c \in Contents
  PROVE  /\ write_mem(es, n, c) \in Tree
         /\ read(write_mem(es, n, c), n) = c
         /\ \A m : m # n => read(write_mem(es, n, c), m) = read(es, m)
         /\ Above(es) => Above(write_mem(es, n, c))
<1>0. PICK fs : fs = write_mem(es, n, c)
  OBVIOUS
<1>1. CASE ~HasFile(es, n)
  <2>1. fs = Append(es, File(n, c)) /\ File(n, c) \in Entry(Names)
    BY <1>0, <1>1, FirstFileIs DEF write_mem, File, Entry
  <2>2. fs \in Tree /\ read(fs, n) = c
    BY <1>1, <2>1, AppendTree, AppendFileRead
  <2>3. \A m : m # n => read(fs, m) = read(es, m)
    BY <2>1, AppendRead DEF File
  <2>4. Above(es) => Above(fs)
    <3>1. /\ Len(fs) = Len(es) + 1 /\ Len(es) \in Nat /\ fs[Len(es) + 1] = File(n, c)
          /\ \A i \in 1 .. Len(es) : fs[i] = es[i]
      BY <2>1, AppendTree
    <3>2. ~fs[Len(es) + 1].is_dir
      BY <3>1 DEF File
    <3>3. \A i \in 1 .. Len(fs) : fs[i].is_dir => i \in 1 .. Len(es) /\ fs[i] = es[i]
      BY <3>1, <3>2
    <3>4. QED
      BY <3>3 DEF Above
  <2>5. QED
    BY <1>0, <2>2, <2>3, <2>4
<1>2. CASE HasFile(es, n)
  <2>1. PICK i : i = FirstFile(es, n)
    OBVIOUS
  <2>2. /\ i \in 1 .. Len(es) /\ FileAt(es, i, n)
        /\ \A j \in 1 .. i - 1 : ~FileAt(es, j, n)
    BY <1>2, <2>1, FirstFileIs
  <2>3. fs = [es EXCEPT ![i].data = c]
    BY <1>0, <2>1, <2>2 DEF write_mem, Tree
  <2>4. /\ DOMAIN es = 1 .. Len(es) /\ Len(es) \in Nat
        /\ es \in [1 .. Len(es) -> Entry(Names)]
    BY DEF Tree
  <2>5. \A j \in 1 .. Len(es) : es[j] \in Entry(Names)
    BY <2>4
  <2>6. /\ fs[i].name = es[i].name /\ fs[i].is_dir = es[i].is_dir /\ fs[i].data = c
        /\ \A j \in 1 .. Len(es) : j # i => fs[j] = es[j]
        /\ fs[i] \in Entry(Names)
    BY <2>2, <2>3, <2>4, <2>5 DEF Entry
  <2>7. fs \in Tree /\ Len(fs) = Len(es)
    <3>1. fs \in [1 .. Len(es) -> Entry(Names)]
      BY <2>2, <2>3, <2>4, <2>5, <2>6
    <3>2. QED
      BY <3>1, <2>4 DEF Tree
  <2>8. \A j \in 1 .. Len(es) : fs[j].name = es[j].name /\ fs[j].is_dir = es[j].is_dir
    BY <2>6
  <2>9. \A m, j : j \in 1 .. Len(es) => (FileAt(fs, j, m) <=> FileAt(es, j, m))
    BY <2>8 DEF FileAt
  <2>10. read(fs, n) = c
    <3>1. FileAt(fs, i, n) /\ i \in 1 .. Len(fs) /\ \A j \in 1 .. i - 1 : ~FileAt(fs, j, n)
      BY <2>2, <2>4, <2>7, <2>9
    <3>2. QED
      BY <2>6, <2>7, <3>1, ReadsFirst
  <2>11. ASSUME NEW m, m # n PROVE read(fs, m) = read(es, m)
    <3>1. ~FileAt(es, i, m)
      BY <2>2, <2>11 DEF FileAt
    <3>2. \A j \in 1 .. Len(es) : /\ FileAt(es, j, m) <=> FileAt(fs, j, m)
                                  /\ FileAt(es, j, m) => fs[j].data = es[j].data
      BY <2>6, <2>9, <3>1
    <3>3. \A j \in Len(es) + 1 .. Len(fs) : ~FileAt(fs, j, m)
      BY <2>4, <2>7
    <3>4. QED
      BY <2>4, <2>7, <3>2, <3>3, SameRead
  <2>12. Above(es) => Above(fs)
    BY <2>7, <2>8 DEF Above
  <2>13. QED
    BY <1>0, <2>7, <2>10, <2>11, <2>12
<1>3. QED
  BY <1>1, <1>2

(* The directories made for a name change no file.                             *)
LEMMA MkdirTree ==
  ASSUME NEW es \in Tree, NEW d \in Names
  PROVE  /\ MkdirMissing(es, d) \in Tree
         /\ \A m : read(MkdirMissing(es, d), m) = read(es, m)
         /\ Above(es) /\ (\E n \in Names : Disk!IsBelow(n, d)) => Above(MkdirMissing(es, d))
<1>0. Dir(d) \in Entry(Names) /\ Dir(d).is_dir /\ Dir(d).name = d
  BY TypingHolds DEF Dir, Entry, Typing
<1>1. CASE exists(es, d)
  BY <1>1 DEF MkdirMissing
<1>2. CASE ~exists(es, d)
  <2>1. PICK fs : fs = MkdirMissing(es, d)
    OBVIOUS
  <2>2. fs = Append(es, Dir(d))
    BY <1>2, <2>1 DEF MkdirMissing
  <2>3. /\ fs \in Tree /\ Len(fs) = Len(es) + 1 /\ Len(es) \in Nat /\ fs[Len(es) + 1] = Dir(d)
        /\ \A i \in 1 .. Len(es) : fs[i] = es[i]
    BY <1>0, <2>2, AppendTree
  <2>4. \A m : read(fs, m) = read(es, m)
    BY <1>0, <2>2, AppendRead
  <2>5. ASSUME Above(es), \E n \in Names : Disk!IsBelow(n, d)
        PROVE  Above(fs)
    <3>1. ASSUME NEW i \in 1 .. Len(fs), fs[i].is_dir
          PROVE  \E n \in Names : Disk!IsBelow(n, fs[i].name)
      <4>1. CASE i = Len(es) + 1
        BY <1>0, <2>3, <2>5, <4>1
      <4>2. CASE i # Len(es) + 1
        <5>1. i \in 1 .. Len(es) /\ fs[i] = es[i]
          BY <2>3, <4>2
        <5>2. QED
          BY <2>5, <3>1, <5>1 DEF Above
      <4>3. QED
        BY <4>1, <4>2
    <3>2. QED
      BY <3>1 DEF Above
  <2>6. QED
    BY <2>1, <2>3, <2>4, <2>5
<1>3. QED
  BY <1>1, <1>2

LEMMA EnsureMade ==
  ASSUME NEW es, NEW n, NEW N \in Nat
  PROVE  \E g : g = [k \in 0 .. N |->
                       IF k = 0 THEN es ELSE MkdirMissing(g[k - 1], Disk!Ancestor(n, k))]
<1> DEFINE F(g, b) == [k \in 0 .. b |->
                         IF k = 0 THEN es ELSE MkdirMissing(g[k - 1], Disk!Ancestor(n, k))]
           S == {b \in Nat : \E g : g = F(g, b)}
<1>1. 0 \in S
  <2>1. [k \in 0 .. 0 |-> es] = F([k \in 0 .. 0 |-> es], 0)
    OBVIOUS
  <2>2. QED
    BY <2>1
<1>2. ASSUME NEW b \in S PROVE b + 1 \in S
  <2>1. PICK g : g = F(g, b)
    BY <1>2
  <2>2. PICK e : e = MkdirMissing(g[b], Disk!Ancestor(n, b + 1))
    OBVIOUS
  <2>3. PICK h : h = [k \in 0 .. b + 1 |-> IF k = b + 1 THEN e ELSE g[k]]
    OBVIOUS
  <2>4. b \in Nat
    OBVIOUS
  <2>5. \A k \in 0 .. b + 1 :
          h[k] = IF k = 0 THEN es ELSE MkdirMissing(h[k - 1], Disk!Ancestor(n, k))
    <3>1. ASSUME NEW k \in 0 .. b + 1
          PROVE  h[k] = IF k = 0 THEN es ELSE MkdirMissing(h[k - 1], Disk!Ancestor(n, k))
      <4>1. CASE k = b + 1
        <5>1. k # 0 /\ k - 1 = b /\ h[k] = e /\ h[b] = g[b]
          BY <2>3, <2>4, <4>1
        <5>2. QED
          BY <2>2, <4>1, <5>1
      <4>2. CASE k # b + 1
        <5>1. k \in 0 .. b /\ h[k] = g[k] /\ (k # 0 => k - 1 \in 0 .. b + 1 /\ h[k - 1] = g[k - 1])
          BY <2>3, <2>4, <4>2
        <5>2. g[k] = IF k = 0 THEN es ELSE MkdirMissing(g[k - 1], Disk!Ancestor(n, k))
          BY <2>1, <5>1
        <5>3. QED
          BY <5>1, <5>2
      <4>3. QED
        BY <4>1, <4>2
    <3>2. QED
      BY <3>1
  <2>6. h = F(h, b + 1)
    BY <2>3, <2>5
  <2>7. QED
    BY <2>4, <2>6
<1>3. S = Nat
  <2> HIDE DEF S
  <2>1. S \subseteq Nat
    BY DEF S
  <2>2. QED
    BY <1>1, <1>2, <2>1, NatSetInduction
<1>4. QED
  BY <1>3

LEMMA EnsureTree ==
  ASSUME NEW es \in Tree, NEW n \in Names
  PROVE  /\ ensure_parent_dirs(es, n) \in Tree
         /\ \A m : read(ensure_parent_dirs(es, n), m) = read(es, m)
         /\ Above(es) => Above(ensure_parent_dirs(es, n))
<1>0. n \in Seq(STRING) /\ Len(n) - 1 \in Nat
  <2>1. n \in Seq(STRING) /\ n # <<>>
    BY TypingHolds DEF Typing
  <2>2. QED
    BY <2>1
<1>1. PICK N \in Nat : N = Len(n) - 1
  BY <1>0
<1> DEFINE F(g) == [k \in 0 .. Len(n) - 1 |->
                      IF k = 0 THEN es ELSE MkdirMissing(g[k - 1], Disk!Ancestor(n, k))]
<1>2. PICK made : made = CHOOSE g : g = F(g)
  OBVIOUS
<1>3. made = F(made)
  <2>0. \E g : g = [k \in 0 .. N |->
                      IF k = 0 THEN es ELSE MkdirMissing(g[k - 1], Disk!Ancestor(n, k))]
    BY EnsureMade, SMTT(60)
  <2>1. \E g : g = F(g)
    BY <1>1, <2>0, Zenon
  <2> HIDE DEF F
  <2>2. QED
    BY <1>2, <2>1
<1>4. ensure_parent_dirs(es, n) = made[N]
  BY <1>1, <1>2 DEF ensure_parent_dirs
<1>5. /\ made[0] = es
      /\ \A k \in 1 .. N : made[k] = MkdirMissing(made[k - 1], Disk!Ancestor(n, k))
  BY <1>1, <1>3
<1>6. \A k \in 1 .. N : Disk!Ancestor(n, k) \in Names /\ Disk!IsBelow(n, Disk!Ancestor(n, k))
  <2>1. \A k \in 1 .. N : Disk!Ancestor(n, k) \in Disk!Ancestors(n)
    BY <1>1 DEF Disk!Ancestors
  <2>2. Disk!Ancestors(n) \subseteq Names
    BY VfsAssumption
  <2>3. QED
    BY <2>1, <2>2 DEF Disk!IsBelow
<1> DEFINE Right(t) == /\ t \in Tree /\ (\A m : read(t, m) = read(es, m))
                       /\ Above(es) => Above(t)
           S == {k \in Nat : k <= N => Right(made[k])}
<1>7. 0 \in S
  BY <1>5
<1>8. ASSUME NEW k \in S PROVE k + 1 \in S
  <2>1. k \in Nat /\ k + 1 \in Nat
    OBVIOUS
  <2>2. ASSUME k + 1 <= N PROVE Right(made[k + 1])
    <3>1. Right(made[k]) /\ k + 1 \in 1 .. N /\ (k + 1) - 1 = k
      BY <2>1, <2>2
    <3>2. PICK t : t = made[k]
      OBVIOUS
    <3>3. PICK d : d = Disk!Ancestor(n, k + 1)
      OBVIOUS
    <3>4. made[k + 1] = MkdirMissing(t, d) /\ d \in Names /\ Disk!IsBelow(n, d)
      BY <1>5, <1>6, <3>1, <3>2, <3>3
    <3>5. /\ t \in Tree /\ (\A m : read(t, m) = read(es, m)) /\ (Above(es) => Above(t))
      BY <3>1, <3>2
    <3>6. /\ MkdirMissing(t, d) \in Tree
          /\ \A m : read(MkdirMissing(t, d), m) = read(t, m)
          /\ Above(t) => Above(MkdirMissing(t, d))
      BY <3>4, <3>5, MkdirTree
    <3>7. QED
      BY <3>4, <3>5, <3>6
  <2>3. QED
    BY <2>1, <2>2
<1>9. S = Nat
  <2> HIDE DEF S
  <2>1. S \subseteq Nat
    BY DEF S
  <2>2. QED
    BY <1>7, <1>8, <2>1, NatSetInduction
<1>10. N \in S
  BY <1>9
<1>11. QED
  BY <1>4, <1>10

-----------------------------------------------------------------------------
(* Loading.                                                                   *)
LEMMA PullTree ==
  ASSUME NEW es \in Tree, NEW n \in Names
  PROVE  /\ Pull(es, n) \in Tree
         /\ \A m : read(Pull(es, n), m)
                     = IF m = n /\ persist_read(n) THEN disk[n] ELSE read(es, m)
         /\ Above(es) => Above(Pull(es, n))
<1>1. CASE ~persist_read(n)
  BY <1>1 DEF Pull
<1>2. CASE persist_read(n)
  <2>1. PICK t : t = ensure_parent_dirs(es, n)
    OBVIOUS
  <2>2. Pull(es, n) = write_mem(t, n, disk[n]) /\ disk[n] \in Contents
    BY <1>2, <2>1 DEF Pull, persist_read
  <2>3. t \in Tree /\ (\A m : read(t, m) = read(es, m)) /\ (Above(es) => Above(t))
    BY <2>1, EnsureTree
  <2>4. QED
    BY <1>2, <2>2, <2>3, WriteMem
<1>3. QED
  BY <1>1, <1>2

LEMMA PullsMade ==
  ASSUME NEW es, NEW N \in Nat
  PROVE  \E g : g = [k \in 0 .. N |-> IF k = 0 THEN es ELSE Pull(g[k - 1], listing[k])]
<1> DEFINE F(g, b) == [k \in 0 .. b |-> IF k = 0 THEN es ELSE Pull(g[k - 1], listing[k])]
           S == {b \in Nat : \E g : g = F(g, b)}
<1>1. 0 \in S
  <2>1. [k \in 0 .. 0 |-> es] = F([k \in 0 .. 0 |-> es], 0)
    OBVIOUS
  <2>2. QED
    BY <2>1
<1>2. ASSUME NEW b \in S PROVE b + 1 \in S
  <2>1. PICK g : g = F(g, b)
    BY <1>2
  <2>2. PICK e : e = Pull(g[b], listing[b + 1])
    OBVIOUS
  <2>3. PICK h : h = [k \in 0 .. b + 1 |-> IF k = b + 1 THEN e ELSE g[k]]
    OBVIOUS
  <2>4. b \in Nat
    OBVIOUS
  <2>5. \A k \in 0 .. b + 1 : h[k] = IF k = 0 THEN es ELSE Pull(h[k - 1], listing[k])
    <3>1. ASSUME NEW k \in 0 .. b + 1
          PROVE  h[k] = IF k = 0 THEN es ELSE Pull(h[k - 1], listing[k])
      <4>1. CASE k = b + 1
        <5>1. k # 0 /\ k - 1 = b /\ h[k] = e /\ h[b] = g[b]
          BY <2>3, <2>4, <4>1
        <5>2. QED
          BY <2>2, <4>1, <5>1
      <4>2. CASE k # b + 1
        <5>1. k \in 0 .. b /\ h[k] = g[k] /\ (k # 0 => k - 1 \in 0 .. b + 1 /\ h[k - 1] = g[k - 1])
          BY <2>3, <2>4, <4>2
        <5>2. g[k] = IF k = 0 THEN es ELSE Pull(g[k - 1], listing[k])
          BY <2>1, <5>1
        <5>3. QED
          BY <5>1, <5>2
      <4>3. QED
        BY <4>1, <4>2
    <3>2. QED
      BY <3>1
  <2>6. h = F(h, b + 1)
    BY <2>3, <2>5
  <2>7. QED
    BY <2>4, <2>6
<1>3. S = Nat
  <2> HIDE DEF S
  <2>1. S \subseteq Nat
    BY DEF S
  <2>2. QED
    BY <1>1, <1>2, <2>1, NatSetInduction
<1>4. QED
  BY <1>3

LEMMA PullListedTree ==
  ASSUME NEW es \in Tree, listing \in Seq(Names)
  PROVE  /\ PullListed(es) \in Tree
         /\ \A m : read(PullListed(es), m)
                     = IF m \in ToSet(listing) /\ persist_read(m) THEN disk[m] ELSE read(es, m)
         /\ Above(es) => Above(PullListed(es))
<1>1. PICK N \in Nat : N = Len(listing)
  OBVIOUS
<1> DEFINE F(g) == [k \in 0 .. Len(listing) |->
                      IF k = 0 THEN es ELSE Pull(g[k - 1], listing[k])]
<1>2. PICK pulled : pulled = CHOOSE g : g = F(g)
  OBVIOUS
<1>3. pulled = F(pulled)
  <2>0. \E g : g = [k \in 0 .. N |-> IF k = 0 THEN es ELSE Pull(g[k - 1], listing[k])]
    BY PullsMade, ZenonT(60)
  <2>1. \E g : g = F(g)
    BY <1>1, <2>0, Zenon
  <2> HIDE DEF F
  <2>2. QED
    BY <1>2, <2>1
<1>4. PullListed(es) = pulled[N]
  BY <1>1, <1>2 DEF PullListed
<1>5. pulled[0] = es /\ \A k \in 1 .. N : pulled[k] = Pull(pulled[k - 1], listing[k])
  BY <1>1, <1>3
<1>6. /\ \A k \in 1 .. N : listing[k] \in Names
      /\ ToSet(listing) = {listing[k] : k \in 1 .. N}
  BY <1>1 DEF ToSet
<1> DEFINE Seen(k, m) == IF (\E j \in 1 .. k : listing[j] = m) /\ persist_read(m)
                         THEN disk[m] ELSE read(es, m)
           Right(t, k) == /\ t \in Tree /\ (\A m : read(t, m) = Seen(k, m))
                          /\ Above(es) => Above(t)
           S == {k \in Nat : k <= N => Right(pulled[k], k)}
<1>7. 0 \in S
  BY <1>5
<1>8. ASSUME NEW k \in S PROVE k + 1 \in S
  <2>1. k \in Nat /\ k + 1 \in Nat
    OBVIOUS
  <2>2. ASSUME k + 1 <= N PROVE Right(pulled[k + 1], k + 1)
    <3>1. Right(pulled[k], k) /\ k + 1 \in 1 .. N /\ (k + 1) - 1 = k
      BY <2>1, <2>2
    <3>2. PICK t : t = pulled[k]
      OBVIOUS
    <3>3. PICK n \in Names : n = listing[k + 1]
      BY <1>6, <3>1
    <3>4. pulled[k + 1] = Pull(t, n)
      BY <1>5, <3>1, <3>2, <3>3
    <3>5. t \in Tree /\ (\A m : read(t, m) = Seen(k, m)) /\ (Above(es) => Above(t))
      BY <3>1, <3>2
    <3>6. /\ Pull(t, n) \in Tree
          /\ \A m : read(Pull(t, n), m) = IF m = n /\ persist_read(n) THEN disk[n] ELSE read(t, m)
          /\ Above(t) => Above(Pull(t, n))
      BY <3>5, PullTree
    <3>7. ASSUME NEW m PROVE read(Pull(t, n), m) = Seen(k + 1, m)
      <4>1. (\E j \in 1 .. k + 1 : listing[j] = m) <=> (\E j \in 1 .. k : listing[j] = m) \/ m = n
        BY <2>1, <3>3
      <4>2. QED
        BY <3>5, <3>6, <4>1
    <3>8. QED
      BY <3>4, <3>5, <3>6, <3>7
  <2>3. QED
    BY <2>1, <2>2
<1>9. S = Nat
  <2> HIDE DEF S
  <2>1. S \subseteq Nat
    BY DEF S
  <2>2. QED
    BY <1>7, <1>8, <2>1, NatSetInduction
<1>10. N \in S
  BY <1>9
<1>11. QED
  BY <1>4, <1>6, <1>10

LEMMA BuiltInTree ==
  /\ BuiltIn \in Tree /\ Above(BuiltIn)
  /\ \A m : read(BuiltIn, m) = IF m \in ToSet(Defaults) THEN Builtin ELSE Absent
<1>1. Defaults \in Seq(Names) /\ Builtin \in Contents
  BY VfsAssumption DEF Contents
<1>2. PICK b : b = BuiltIn
  OBVIOUS
<1>3. /\ Len(Defaults) \in Nat /\ DOMAIN Defaults = 1 .. Len(Defaults)
      /\ \A i \in 1 .. Len(Defaults) : Defaults[i] \in Names
  BY <1>1
<1>4. \A i \in 1 .. Len(Defaults) : File(Defaults[i], Builtin) \in Entry(Names)
  BY <1>1, <1>3 DEF File, Entry
<1>5. b = [i \in 1 .. Len(Defaults) |-> File(Defaults[i], Builtin)]
  BY <1>2, <1>3 DEF BuiltIn
<1>6. b \in Tree /\ Len(b) = Len(Defaults)
  BY <1>3, <1>4, <1>5 DEF Tree
<1>7. \A i \in 1 .. Len(b) : b[i].name = Defaults[i] /\ b[i].data = Builtin /\ ~b[i].is_dir
  BY <1>5, <1>6 DEF File
<1>8. Above(b)
  BY <1>7 DEF Above
<1>9. ASSUME NEW m PROVE read(b, m) = IF m \in ToSet(Defaults) THEN Builtin ELSE Absent
  <2>1. HasFile(b, m) <=> m \in ToSet(Defaults)
    BY <1>3, <1>6, <1>7 DEF HasFile, FileAt, ToSet
  <2>2. HasFile(b, m) => read(b, m) = Builtin
    <3>1. ASSUME HasFile(b, m) PROVE read(b, m) = Builtin
      <4>1. PICK i : i = FirstFile(b, m)
        OBVIOUS
      <4>2. i \in 1 .. Len(b) /\ FileAt(b, i, m) /\ \A j \in 1 .. i - 1 : ~FileAt(b, j, m)
        BY <1>6, <3>1, <4>1, FirstFileIs
      <4>3. QED
        BY <1>6, <1>7, <4>2, ReadsFirst
    <3>2. QED
      BY <3>1
  <2>3. QED
    BY <1>6, <2>1, <2>2, ReadIs
<1>10. QED
  BY <1>2, <1>6, <1>8, <1>9

(* What loading the disk over the built-in files shows of m.                    *)
InManifest(m) == disk[MANIFEST] = Listed /\ m \in ToSet(listing)
PulledBack(m) == persist_read(m) /\ (InManifest(m) \/ (m = Settings /\ m \notin ToSet(Defaults)))
Loaded(m)     == IF PulledBack(m) THEN disk[m]
                 ELSE IF m \in ToSet(Defaults) THEN Builtin ELSE Absent

(* No directory stands in the way of the settings where nothing is below them. *)
LEMMA SettingsFree ==
  ASSUME NEW es \in Tree, Above(es), Settings \notin Shadowed
  PROVE  exists(es, Settings) <=> HasFile(es, Settings)
<1>1. \A n \in Names : ~Disk!IsBelow(n, Settings)
  BY DEF Shadowed
<1>2. DOMAIN es = 1 .. Len(es)
  BY DEF Tree
<1>3. \A i \in 1 .. Len(es) : es[i].name = Settings => ~es[i].is_dir
  BY <1>1 DEF Above
<1>4. QED
  BY <1>2, <1>3 DEF exists, HasFile, FileAt

LEMMA LoadIs ==
  ASSUME listing \in Seq(Names)
  PROVE  /\ load_persisted(BuiltIn) \in Tree
         /\ \A m \in Names \ Shadowed : read(load_persisted(BuiltIn), m) = Loaded(m)
<1>1. PICK named : named = IF disk[MANIFEST] = Listed THEN PullListed(BuiltIn) ELSE BuiltIn
  OBVIOUS
<1>2. /\ named \in Tree /\ Above(named)
      /\ \A m : read(named, m) = IF InManifest(m) /\ persist_read(m) THEN disk[m]
                                 ELSE IF m \in ToSet(Defaults) THEN Builtin ELSE Absent
  BY <1>1, BuiltInTree, PullListedTree DEF InManifest
<1>3. Settings \in Names
  BY VfsAssumption
<1>4. /\ Pull(named, Settings) \in Tree
      /\ \A m : read(Pull(named, Settings), m)
                  = IF m = Settings /\ persist_read(Settings) THEN disk[Settings]
                    ELSE read(named, m)
  BY <1>2, <1>3, PullTree
<1>5. PICK loaded : loaded = load_persisted(BuiltIn)
  OBVIOUS
<1>6. loaded = IF exists(named, Settings) THEN named ELSE Pull(named, Settings)
  BY <1>1, <1>5 DEF load_persisted
<1>7. loaded \in Tree
  BY <1>2, <1>4, <1>6
<1>8. ASSUME NEW m \in Names \ Shadowed PROVE read(loaded, m) = Loaded(m)
  <2>1. CASE m # Settings
    BY <1>2, <1>4, <1>6, <2>1 DEF Loaded, PulledBack
  <2>2. CASE m = Settings
    <3>1. exists(named, Settings) <=> read(named, Settings) # Absent
      BY <1>2, <1>8, <2>2, SettingsFree, ReadIs
    <3>2. Builtin # Absent /\ (persist_read(m) => disk[m] # Absent)
      BY TypingHolds DEF Typing, persist_read, Builtin, Absent
    <3>3. QED
      BY <1>2, <1>4, <1>6, <2>2, <3>1, <3>2 DEF Loaded, PulledBack
  <2>3. QED
    BY <2>1, <2>2
<1>9. QED
  BY <1>5, <1>7, <1>8
-----------------------------------------------------------------------------
(* Deleting and listing.                                                      *)
KeptBy(g, es, W, N) ==
  [k \in 0 .. N |-> IF k = 0 THEN <<>>
                    ELSE IF es[k] \in W THEN Append(g[k - 1], es[k]) ELSE g[k - 1]]

LEMMA KeptMade ==
  ASSUME NEW es, NEW W, NEW N \in Nat
  PROVE  \E g : g = KeptBy(g, es, W, N)
<1> DEFINE F(g, b) == [k \in 0 .. b |->
                         IF k = 0 THEN <<>>
                         ELSE IF es[k] \in W THEN Append(g[k - 1], es[k]) ELSE g[k - 1]]
           S == {b \in Nat : \E g : g = F(g, b)}
<1>1. 0 \in S
  <2>1. [k \in 0 .. 0 |-> <<>>] = F([k \in 0 .. 0 |-> <<>>], 0)
    OBVIOUS
  <2>2. QED
    BY <2>1
<1>2. ASSUME NEW b \in S PROVE b + 1 \in S
  <2>1. PICK g : g = F(g, b)
    BY <1>2
  <2>2. PICK e : e = IF es[b + 1] \in W THEN Append(g[b], es[b + 1]) ELSE g[b]
    OBVIOUS
  <2>3. PICK h : h = [k \in 0 .. b + 1 |-> IF k = b + 1 THEN e ELSE g[k]]
    OBVIOUS
  <2>4. b \in Nat
    OBVIOUS
  <2>5. \A k \in 0 .. b + 1 :
          h[k] = IF k = 0 THEN <<>>
                 ELSE IF es[k] \in W THEN Append(h[k - 1], es[k]) ELSE h[k - 1]
    <3>1. ASSUME NEW k \in 0 .. b + 1
          PROVE  h[k] = IF k = 0 THEN <<>>
                        ELSE IF es[k] \in W THEN Append(h[k - 1], es[k]) ELSE h[k - 1]
      <4>1. CASE k = b + 1
        <5>1. k # 0 /\ k - 1 = b /\ h[k] = e /\ h[b] = g[b]
          BY <2>3, <2>4, <4>1
        <5>2. QED
          BY <2>2, <4>1, <5>1
      <4>2. CASE k # b + 1
        <5>1. k \in 0 .. b /\ h[k] = g[k] /\ (k # 0 => k - 1 \in 0 .. b + 1 /\ h[k - 1] = g[k - 1])
          BY <2>3, <2>4, <4>2
        <5>2. g[k] = IF k = 0 THEN <<>>
                     ELSE IF es[k] \in W THEN Append(g[k - 1], es[k]) ELSE g[k - 1]
          BY <2>1, <5>1
        <5>3. QED
          BY <5>1, <5>2
      <4>3. QED
        BY <4>1, <4>2
    <3>2. QED
      BY <3>1
  <2>6. h = F(h, b + 1)
    BY <2>3, <2>5
  <2>7. QED
    BY <2>4, <2>6
<1>3. S = Nat
  <2> HIDE DEF S
  <2>1. S \subseteq Nat
    BY DEF S
  <2>2. QED
    BY <1>1, <1>2, <2>1, NatSetInduction
<1>4. QED
  BY <1>3 DEF KeptBy

(* t holds, of the first k entries of es, those in W: files of a name of which all  *)
(* are in W are found as they were, those of which none is are gone.               *)
Sifted(t, es, W, k) ==
  /\ t \in Tree
  /\ ToSet(t) = {es[i] : i \in {j \in 1 .. k : es[j] \in W}}
  /\ \A m : (\A i \in 1 .. Len(es) : FileAt(es, i, m) => es[i] \in W) =>
              IF \E i \in 1 .. k : FileAt(es, i, m)
              THEN read(t, m) = read(es, m) ELSE ~HasFile(t, m)

LEMMA SiftedStep ==
  ASSUME NEW es \in Tree, NEW W, NEW k \in Nat, k + 1 <= Len(es), NEW t,
         Sifted(t, es, W, k)
  PROVE  Sifted(IF es[k + 1] \in W THEN Append(t, es[k + 1]) ELSE t, es, W, k + 1)
<1>0. /\ Len(es) \in Nat /\ t \in Tree /\ es[k + 1] \in Entry(Names)
      /\ k + 1 \in 1 .. Len(es)
  <2>1. Len(es) \in Nat /\ t \in Tree /\ k + 1 \in 1 .. Len(es)
    BY DEF Tree, Sifted
  <2>2. QED
    BY <2>1 DEF Tree
<1>1. PICK e : e = es[k + 1]
  OBVIOUS
<1>2. {j \in 1 .. k + 1 : es[j] \in W}
        = {j \in 1 .. k : es[j] \in W} \cup (IF e \in W THEN {k + 1} ELSE {})
  BY <1>1
<1>3. \A m : (\E i \in 1 .. k + 1 : FileAt(es, i, m))
               <=> (\E i \in 1 .. k : FileAt(es, i, m)) \/ FileAt(es, k + 1, m)
  OBVIOUS
<1>4. CASE e \notin W
  <2>1. ToSet(t) = {es[i] : i \in {j \in 1 .. k + 1 : es[j] \in W}}
    BY <1>2, <1>4 DEF Sifted
  <2>2. \A m : (\A i \in 1 .. Len(es) : FileAt(es, i, m) => es[i] \in W) => ~FileAt(es, k + 1, m)
    BY <1>0, <1>1, <1>4
  <2>3. QED
    BY <1>0, <1>1, <1>3, <1>4, <2>1, <2>2 DEF Sifted
<1>5. CASE e \in W
  <2>1. PICK fs : fs = Append(t, e)
    OBVIOUS
  <2>2. /\ fs \in Tree /\ Len(fs) = Len(t) + 1 /\ Len(t) \in Nat /\ fs[Len(t) + 1] = e
        /\ \A i \in 1 .. Len(t) : fs[i] = t[i]
    BY <1>0, <1>1, <2>1, AppendTree
  <2>3. ToSet(fs) = ToSet(t) \cup {e}
    <3>1. DOMAIN fs = 1 .. Len(t) + 1 /\ DOMAIN t = 1 .. Len(t)
      BY <1>0, <2>2 DEF Tree
    <3>2. QED
      BY <2>2, <3>1 DEF ToSet
  <2>4. ToSet(fs) = {es[i] : i \in {j \in 1 .. k + 1 : es[j] \in W}}
    <3>1. ToSet(t) = {es[i] : i \in {j \in 1 .. k : es[j] \in W}}
      BY DEF Sifted
    <3>2. QED
      BY <1>1, <1>2, <1>5, <2>3, <3>1
  <2>5. ASSUME NEW m, \A i \in 1 .. Len(es) : FileAt(es, i, m) => es[i] \in W
        PROVE  IF \E i \in 1 .. k + 1 : FileAt(es, i, m)
               THEN read(fs, m) = read(es, m) ELSE ~HasFile(fs, m)
    <3>1. IF \E i \in 1 .. k : FileAt(es, i, m)
          THEN read(t, m) = read(es, m) ELSE ~HasFile(t, m)
      BY <2>5 DEF Sifted
    <3>2. CASE \E i \in 1 .. k : FileAt(es, i, m)
      <4>1. read(t, m) = read(es, m) /\ HasFile(es, m)
        BY <1>0, <3>1, <3>2 DEF HasFile
      <4>2. HasFile(t, m)
        BY <1>0, <4>1, ReadIs
      <4>3. PICK i : i = FirstFile(t, m)
        OBVIOUS
      <4>4. i \in 1 .. Len(t) /\ FileAt(t, i, m) /\ \A j \in 1 .. i - 1 : ~FileAt(t, j, m)
        BY <1>0, <4>2, <4>3, FirstFileIs
      <4>5. i \in 1 .. Len(fs) /\ FileAt(fs, i, m) /\ \A j \in 1 .. i - 1 : ~FileAt(fs, j, m)
        BY <2>2, <4>4 DEF FileAt
      <4>6. read(fs, m) = fs[i].data /\ read(t, m) = t[i].data
        BY <1>0, <2>2, <4>4, <4>5, ReadsFirst
      <4>7. QED
        BY <1>3, <2>2, <3>2, <4>1, <4>4, <4>6
    <3>3. CASE ~(\E i \in 1 .. k : FileAt(es, i, m)) /\ FileAt(es, k + 1, m)
      <4>1. read(es, m) = e.data
        BY <1>0, <1>1, <3>3, ReadsFirst
      <4>2. ~HasFile(t, m)
        BY <3>1, <3>3
      <4>3. FileAt(fs, Len(t) + 1, m) /\ Len(t) + 1 \in 1 .. Len(fs)
        BY <1>1, <2>2, <3>3 DEF FileAt
      <4>4. \A j \in 1 .. (Len(t) + 1) - 1 : ~FileAt(fs, j, m)
        BY <2>2, <4>2 DEF FileAt, HasFile
      <4>5. read(fs, m) = fs[Len(t) + 1].data
        BY <2>2, <4>3, <4>4, ReadsFirst
      <4>6. QED
        BY <1>3, <2>2, <3>3, <4>1, <4>5
    <3>4. CASE ~(\E i \in 1 .. k + 1 : FileAt(es, i, m))
      <4>1. ~HasFile(t, m) /\ ~FileAt(es, k + 1, m)
        BY <1>3, <3>1, <3>4
      <4>2. \A i \in 1 .. Len(fs) : ~FileAt(fs, i, m)
        BY <1>1, <2>2, <4>1 DEF HasFile, FileAt
      <4>3. QED
        BY <3>4, <4>2 DEF HasFile
    <3>5. QED
      BY <1>3, <3>2, <3>3, <3>4
  <2>6. Sifted(fs, es, W, k + 1)
    BY <2>2, <2>4, <2>5 DEF Sifted
  <2>7. QED
    BY <1>1, <1>5, <2>1, <2>6
<1>6. QED
  BY <1>4, <1>5

LEMMA AmongIs ==
  ASSUME NEW es \in Tree, NEW W
  PROVE  Sifted(Among(es, W), es, W, Len(es))
<1>1. PICK N \in Nat : N = Len(es)
  BY DEF Tree
<1>2. PICK kept : kept = CHOOSE g : g = KeptBy(g, es, W, Len(es))
  OBVIOUS
<1>3. kept = KeptBy(kept, es, W, N)
  BY <1>1, <1>2, KeptMade
<1>4. Among(es, W) = kept[N]
  <2>1. Among(es, W) = (CHOOSE g : g = KeptBy(g, es, W, Len(es)))[Len(es)]
    BY DEF Among, KeptBy
  <2>2. QED
    BY <1>1, <1>2, <2>1
<1>5. /\ kept[0] = <<>>
      /\ \A k \in 1 .. N : kept[k] = IF es[k] \in W THEN Append(kept[k - 1], es[k]) ELSE kept[k - 1]
  <2>1. 0 \in 0 .. N /\ \A k \in 1 .. N : k \in 0 .. N /\ k # 0
    OBVIOUS
  <2>2. \A k \in 0 .. N :
          kept[k] = IF k = 0 THEN <<>>
                    ELSE IF es[k] \in W THEN Append(kept[k - 1], es[k]) ELSE kept[k - 1]
    BY <1>3, Zenon DEF KeptBy
  <2>3. QED
    BY <2>1, <2>2
<1> DEFINE S == {k \in Nat : k <= N => Sifted(kept[k], es, W, k)}
<1>6. 0 \in S
  <2>1. <<>> \in Tree /\ Len(<<>>) = 0 /\ DOMAIN <<>> = {}
    BY DEF Tree
  <2>2. \A m : ~HasFile(<<>>, m)
    BY <2>1 DEF HasFile
  <2>3. ToSet(<<>>) = {}
    BY <2>1 DEF ToSet
  <2>4. Sifted(<<>>, es, W, 0)
    BY <2>1, <2>2, <2>3 DEF Sifted
  <2>5. QED
    BY <1>5, <2>4
<1>7. ASSUME NEW k \in S PROVE k + 1 \in S
  <2>1. k \in Nat /\ k + 1 \in Nat
    OBVIOUS
  <2>2. ASSUME k + 1 <= N PROVE Sifted(kept[k + 1], es, W, k + 1)
    <3>1. Sifted(kept[k], es, W, k) /\ k + 1 \in 1 .. N /\ (k + 1) - 1 = k
      BY <2>1, <2>2
    <3>2. kept[k + 1] = IF es[k + 1] \in W THEN Append(kept[k], es[k + 1]) ELSE kept[k]
      BY <1>5, <3>1
    <3>3. QED
      BY <1>1, <2>1, <2>2, <3>1, <3>2, SiftedStep
  <2>3. QED
    BY <2>1, <2>2
<1>8. S = Nat
  <2> HIDE DEF S
  <2>1. S \subseteq Nat
    BY DEF S
  <2>2. QED
    BY <1>6, <1>7, <2>1, NatSetInduction
<1>9. QED
  BY <1>1, <1>4, <1>8

LEMMA DeleteTree ==
  ASSUME NEW es \in Tree, NEW n
  PROVE  LET fs == Among(es, Entry(Names \ {n}))
         IN  /\ fs \in Tree
             /\ ~HasFile(fs, n)
             /\ \A m : m # n => read(fs, m) = read(es, m)
<1>1. PICK W : W = Entry(Names \ {n})
  OBVIOUS
<1>2. PICK fs : fs = Among(es, W)
  OBVIOUS
<1>3. Sifted(fs, es, W, Len(es)) /\ Len(es) \in Nat
  BY <1>2, AmongIs DEF Tree
<1>4. fs \in Tree
  BY <1>3 DEF Sifted
<1>5. \A i \in 1 .. Len(es) : es[i] \in Entry(Names)
  BY DEF Tree
<1>6. \A i \in 1 .. Len(es) : es[i].name # n => es[i] \in W
  BY <1>1, <1>5 DEF Entry
<1>7. \A m : m # n => read(fs, m) = read(es, m)
  <2>1. ASSUME NEW m, m # n PROVE read(fs, m) = read(es, m)
    <3>1. \A i \in 1 .. Len(es) : FileAt(es, i, m) => es[i] \in W
      BY <1>6, <2>1 DEF FileAt
    <3>2. IF HasFile(es, m) THEN read(fs, m) = read(es, m) ELSE ~HasFile(fs, m)
      BY <1>3, <3>1 DEF Sifted, HasFile
    <3>3. QED
      BY <1>4, <3>2, ReadIs
  <2>2. QED
    BY <2>1
<1>8. ~HasFile(fs, n)
  <2>1. ASSUME NEW i \in 1 .. Len(fs), FileAt(fs, i, n) PROVE FALSE
    <3>1. fs[i] \in ToSet(fs)
      BY <1>4, <2>1 DEF Tree, ToSet
    <3>2. fs[i] \in W
      BY <1>3, <3>1 DEF Sifted
    <3>3. QED
      BY <1>1, <2>1, <3>2 DEF Entry, FileAt
  <2>2. QED
    BY <2>1 DEF HasFile
<1>9. QED
  BY <1>1, <1>2, <1>4, <1>7, <1>8

(* The manifest lists the files that are mirrored, and only those.              *)
LEMMA ManifestIs ==
  ASSUME NEW es \in Tree
  PROVE  /\ Manifest(es) \in Seq(Names \ LongNames)
         /\ \A m : m \in ToSet(Manifest(es)) <=> HasFile(es, m) /\ persistable(m)
<1>1. PICK W : W = {e \in ToSet(es) : ~e.is_dir /\ persistable(e.name)}
  OBVIOUS
<1>2. PICK fs : fs = Among(es, W)
  OBVIOUS
<1>3. fs \in Tree /\ ToSet(fs) = {es[i] : i \in {j \in 1 .. Len(es) : es[j] \in W}}
  BY <1>2, AmongIs DEF Sifted
<1>4. /\ DOMAIN fs = 1 .. Len(fs) /\ Len(fs) \in Nat /\ DOMAIN es = 1 .. Len(es)
      /\ \A i \in 1 .. Len(fs) : fs[i] \in Entry(Names)
  BY <1>3 DEF Tree
<1>5. Manifest(es) = [i \in 1 .. Len(fs) |-> fs[i].name]
  BY <1>1, <1>2, <1>4 DEF Manifest
<1>6. \A i \in 1 .. Len(fs) : fs[i] \in W /\ fs[i].name \in Names \ LongNames
  <2>1. \A i \in 1 .. Len(fs) : fs[i] \in ToSet(fs)
    BY <1>4 DEF ToSet
  <2>2. \A i \in 1 .. Len(fs) : fs[i] \in W
    BY <1>3, <2>1
  <2>3. \A i \in 1 .. Len(fs) : fs[i].name \in Names
    BY <1>4 DEF Entry
  <2>4. QED
    BY <1>1, <2>2, <2>3 DEF persistable
<1>7. Manifest(es) \in Seq(Names \ LongNames)
  BY <1>4, <1>5, <1>6
<1>8. ASSUME NEW m PROVE m \in ToSet(Manifest(es)) <=> HasFile(es, m) /\ persistable(m)
  <2>1. m \in ToSet(Manifest(es)) <=> \E i \in 1 .. Len(fs) : fs[i].name = m
    BY <1>4, <1>5 DEF ToSet
  <2>2. ASSUME NEW i \in 1 .. Len(fs), fs[i].name = m
        PROVE  HasFile(es, m) /\ persistable(m)
    <3>1. fs[i] \in ToSet(fs) /\ fs[i] \in W
      BY <1>4, <1>6 DEF ToSet
    <3>2. PICK j \in 1 .. Len(es) : es[j] = fs[i]
      BY <1>3, <3>1
    <3>3. QED
      BY <1>1, <2>2, <3>1, <3>2 DEF HasFile, FileAt
  <2>3. ASSUME HasFile(es, m), persistable(m)
        PROVE  \E i \in 1 .. Len(fs) : fs[i].name = m
    <3>1. PICK j \in 1 .. Len(es) : FileAt(es, j, m)
      BY <2>3 DEF HasFile
    <3>2. es[j] \in W
      BY <1>1, <1>4, <2>3, <3>1 DEF ToSet, FileAt
    <3>3. es[j] \in ToSet(fs)
      BY <1>3, <3>2
    <3>4. PICK i \in 1 .. Len(fs) : fs[i] = es[j]
      BY <1>4, <3>3 DEF ToSet
    <3>5. QED
      BY <3>1, <3>4 DEF FileAt
  <2>4. QED
    BY <2>1, <2>2, <2>3
<1>9. QED
  BY <1>7, <1>8
-----------------------------------------------------------------------------
(* Renaming.                                                                  *)
LEMMA FirstEntryIs ==
  ASSUME NEW es \in Tree, NEW n, exists(es, n)
  PROVE  /\ FirstEntry(es, n) \in 1 .. Len(es)
         /\ es[FirstEntry(es, n)].name = n
         /\ \A j \in 1 .. FirstEntry(es, n) - 1 : es[j].name # n
<1> DEFINE I == {i \in 1 .. Len(es) : es[i].name = n}
<1>0. Len(es) \in Nat /\ DOMAIN es = 1 .. Len(es)
  BY DEF Tree
<1>1. FirstEntry(es, n) = IF I # {} THEN CHOOSE x \in I : \A y \in I : x =< y ELSE 0
  BY DEF FirstEntry, SelectInSeq, Min
<1>2. I # {} /\ I \in SUBSET Nat
  BY <1>0 DEF exists
<1>3. FirstEntry(es, n) \in I /\ \A y \in I : FirstEntry(es, n) <= y
  <2> HIDE DEF I
  <2>1. \E x \in I : \A y \in I : x <= y
    BY <1>2, LeastNatural
  <2>2. QED
    BY <1>1, <1>2, <2>1
<1>4. \A j \in 1 .. FirstEntry(es, n) - 1 : j \notin I
  BY <1>0, <1>2, <1>3
<1>5. QED
  BY <1>0, <1>3, <1>4

(* fs is es with n for the name of the i-th entry.                             *)
Renamed(es, fs, i, n) ==
  /\ Len(fs) = Len(es) /\ i \in 1 .. Len(es)
  /\ fs[i].name = n /\ fs[i].is_dir = es[i].is_dir /\ fs[i].data = es[i].data
  /\ \A j \in 1 .. Len(es) : j # i => fs[j] = es[j]

WithName(es, i, n) == [es EXCEPT ![i].name = n]

LEMMA RenameTree ==
  ASSUME NEW es \in Tree, NEW n \in Names, NEW i \in 1 .. Len(es), NEW fs,
         fs = WithName(es, i, n)
  PROVE  /\ fs \in Tree /\ Renamed(es, fs, i, n)
         /\ \A k : k \notin {es[i].name, n} => read(fs, k) = read(es, k)
<1>1. fs = [es EXCEPT ![i].name = n]
  BY DEF WithName
<1>2. /\ DOMAIN es = 1 .. Len(es) /\ Len(es) \in Nat
      /\ es \in [1 .. Len(es) -> Entry(Names)]
  BY DEF Tree
<1>3. \A j \in 1 .. Len(es) : es[j] \in Entry(Names)
  BY <1>2
<1>4. /\ fs[i].name = n /\ fs[i].is_dir = es[i].is_dir /\ fs[i].data = es[i].data
      /\ \A j \in 1 .. Len(es) : j # i => fs[j] = es[j]
      /\ fs[i] \in Entry(Names)
  BY <1>1, <1>2, <1>3 DEF Entry
<1>5. fs \in Tree /\ Len(fs) = Len(es)
  <2>1. fs \in [1 .. Len(es) -> Entry(Names)]
    BY <1>1, <1>2, <1>3, <1>4
  <2>2. QED
    BY <2>1, <1>2 DEF Tree
<1>6. ASSUME NEW k, k \notin {es[i].name, n} PROVE read(fs, k) = read(es, k)
  <2>1. \A j \in 1 .. Len(es) : /\ FileAt(es, j, k) <=> FileAt(fs, j, k)
                                /\ FileAt(es, j, k) => fs[j].data = es[j].data
    BY <1>4, <1>6 DEF FileAt
  <2>2. \A j \in Len(es) + 1 .. Len(fs) : ~FileAt(fs, j, k)
    BY <1>2, <1>5
  <2>3. Len(es) <= Len(fs)
    BY <1>2, <1>5
  <2>4. QED
    BY <1>5, <2>1, <2>2, <2>3, SameRead, Zenon
<1>7. Renamed(es, fs, i, n)
  BY <1>4, <1>5 DEF Renamed
<1>8. QED
  BY <1>5, <1>6, <1>7

(* A file renamed to a free name that leaves nothing behind.                   *)
LeavesNothing(es, fs, i, m, n) ==
  /\ Renamed(es, fs, i, n)
  /\ es[i].name = m /\ ~es[i].is_dir /\ \A j \in 1 .. i - 1 : es[j].name # m
  /\ ~exists(es, n) /\ ~exists(fs, m)

LEMMA PlainRenameTree ==
  ASSUME NEW es \in Tree, NEW fs \in Tree, NEW m, NEW n, NEW i,
         LeavesNothing(es, fs, i, m, n)
  PROVE  /\ m # n /\ read(es, m) = es[i].data
         /\ ~HasFile(fs, m) /\ HasFile(fs, n) /\ read(fs, n) = es[i].data
<1>0. /\ DOMAIN es = 1 .. Len(es) /\ DOMAIN fs = 1 .. Len(fs) /\ Len(es) \in Nat
  BY DEF Tree
<1>1. /\ DOMAIN es = 1 .. Len(es) /\ DOMAIN fs = 1 .. Len(es) /\ Len(es) \in Nat
      /\ Len(fs) = Len(es) /\ i \in 1 .. Len(es)
      /\ fs[i].name = n /\ fs[i].is_dir = es[i].is_dir /\ fs[i].data = es[i].data
      /\ \A j \in 1 .. Len(es) : j # i => fs[j] = es[j]
      /\ es[i].name = m /\ ~es[i].is_dir /\ \A j \in 1 .. i - 1 : es[j].name # m
      /\ ~exists(es, n) /\ ~exists(fs, m)
  BY <1>0 DEF Renamed, LeavesNothing
<1>2. m # n
  BY <1>1 DEF exists
<1>3. read(es, m) = es[i].data
  <2>1. FileAt(es, i, m) /\ \A j \in 1 .. i - 1 : ~FileAt(es, j, m)
    BY <1>1 DEF FileAt
  <2>2. QED
    BY <1>1, <2>1, ReadsFirst
<1>4. ~HasFile(fs, m)
  BY <1>1 DEF exists, HasFile, FileAt
<1>5. HasFile(fs, n) /\ read(fs, n) = es[i].data
  <2>1. FileAt(fs, i, n) /\ i \in 1 .. Len(fs)
    BY <1>1 DEF FileAt
  <2>2. \A j \in 1 .. i - 1 : ~FileAt(fs, j, n)
    <3>1. \A j \in 1 .. i - 1 : j \in 1 .. Len(es) /\ j # i
      BY <1>1
    <3>2. QED
      BY <1>1, <3>1 DEF FileAt, exists
  <2>3. QED
    BY <1>1, <2>1, <2>2, ReadsFirst
<1>6. QED
  BY <1>2, <1>3, <1>4, <1>5
-----------------------------------------------------------------------------
(* The invariant.                                                             *)

(* What the user sees of m, or saw when the machine went down.                 *)
Held(m) == IF phase = "off" THEN seen[m] ELSE read(entries, m)

(* Loading shows it, and so it would if a manifest named m.                     *)
Agrees(m) ==
  /\ Held(m) = Loaded(m)
  /\ m \in ToSet(Defaults) /\ persist_read(m) => disk[m] = Held(m)

(* The disk holds what the manifest that is due will say of m.                 *)
Ready(m) ==
  IF HasFile(entries, m)
  THEN m \notin LongNames /\ persist_read(m) /\ disk[m] = read(entries, m)
  ELSE m \notin ToSet(Defaults) /\ (m = Settings => ~persist_read(m))

Promised == Names \ (loose \cup Shadowed)
Touched  == {call.from, call.to}

Typed ==
  /\ TypeOK
  /\ entries \in Tree
  /\ listing \in Seq(Names \ LongNames)
  /\ listing # <<>> => disk[MANIFEST] = Listed

CallOK ==
  /\ phase = "idle" => call = NoCall
  /\ phase = "flush" \/ call.firm => call.from \in Names /\ call.to \in Names

OthersAgree  == \A m \in Promised \ Touched : Agrees(m)
TouchedReady == phase = "flush" => \A m \in Promised \cap Touched : Ready(m)

CutSafe ==
  call.firm /\ Touched \cap (loose \cup Shadowed) = {} =>
    IF call.kind = "rename"
    THEN call.old \in {Loaded(call.from), Loaded(call.to)}
    ELSE Loaded(call.to) \in {call.old, call.new}

IInv == Typed /\ CallOK /\ OthersAgree /\ TouchedReady /\ CutSafe

(* The disk away from the names in T.                                          *)
DiskKept(T) ==
  /\ listing' = listing
  /\ disk'[MANIFEST] = disk[MANIFEST]
  /\ \A q \in Names \ T : /\ persist_read(q)' <=> persist_read(q)
                          /\ persist_read(q) => disk'[q] = disk[q]

LEMMA LoadedKept ==
  ASSUME NEW T, DiskKept(T), NEW q \in Names \ T
  PROVE  Loaded(q)' = Loaded(q)
BY DEF DiskKept, Loaded, PulledBack, InManifest

DiskValues == Contents \cup {Disk!NoFile, Disk!Directory, Listed}

LEMMA ValuesApart ==
  /\ Disk!NoFile \notin Contents /\ Disk!Directory \notin Contents
  /\ Fitting \subseteq Contents /\ Inputs \subseteq Contents /\ Cut \in Contents
BY VfsAssumption DEF Contents, Inputs, Empty, Long, Cut, Builtin, Disk!NoFile, Disk!Directory

(* persist_write changes one file, and holds it when it reports success.        *)
LEMMA PersistWrite ==
  ASSUME Typed, NEW n \in Names, NEW c \in Contents, persist_write(n, c), listing' = listing
  PROVE  /\ disk' \in [DiskPaths -> DiskValues] /\ result' \in BOOLEAN
         /\ failures' \in 0 .. MaxFailures
         /\ DiskKept({n})
         /\ Kept(c) => disk'[n] = c /\ c \in Contents \ {Empty}
<1>0. /\ disk \in [DiskPaths -> DiskValues] /\ result \in BOOLEAN
      /\ failures \in 0 .. MaxFailures /\ MaxFailures \in Nat
      /\ n \in DiskPaths /\ MANIFEST \in DiskPaths /\ n # MANIFEST /\ Names \subseteq DiskPaths
  BY VfsAssumption DEF Typed, TypeOK, DiskValues, DiskPaths
<1>1. CASE c = Empty
  <2>1. UNCHANGED <<disk, result, failures>>
    BY <1>1 DEF persist_write
  <2>2. DiskKept({n})
    BY <2>1 DEF DiskKept, persist_read
  <2>3. ~Kept(c)
    BY <1>1 DEF Kept, Fits
  <2>4. QED
    BY <1>0, <2>1, <2>2, <2>3
<1>2. CASE c # Empty
  <2>1. Save(n, c) /\ CountFailure(Failed(n))
    BY <1>2 DEF persist_write
  <2>2. failures' \in 0 .. MaxFailures
    BY <1>0, <2>1 DEF CountFailure
  <2>3. ASSUME NEW s \in Stored(c), Disk!WriteDone(n, s)
        PROVE  /\ disk' \in [DiskPaths -> DiskValues] /\ result' \in BOOLEAN
               /\ DiskKept({n}) /\ (Kept(c) => disk'[n] = c)
    <3>1. PICK D \in SUBSET Disk!Missing(n) :
             disk' = [q \in DiskPaths |-> IF q = n THEN s ELSE IF q \in D THEN Disk!Directory
                                          ELSE disk[q]]
      BY <2>3 DEF Disk!WriteDone, Disk!With
    <3>2. s \in Contents /\ result' = TRUE
      BY <1>2, <2>3, ValuesApart, TypingHolds DEF Stored, Disk!WriteDone, Typing
    <3>3. disk' \in [DiskPaths -> DiskValues]
      BY <1>0, <3>1, <3>2 DEF DiskValues
    <3>4. \A q \in D : q \in Names /\ disk[q] = Disk!NoFile
      BY <3>1, VfsAssumption DEF Disk!Missing
    <3>5. disk'[MANIFEST] = disk[MANIFEST]
      BY <1>0, <3>1, <3>4, VfsAssumption
    <3>6. \A q \in Names \ {n} : disk'[q] = IF q \in D THEN Disk!Directory ELSE disk[q]
      BY <1>0, <3>1
    <3>7. DiskKept({n})
      BY <3>4, <3>5, <3>6, ValuesApart DEF DiskKept, persist_read
    <3>8. Kept(c) => disk'[n] = c
      BY <1>0, <2>3, <3>1 DEF Kept, Fits, Stored
    <3>9. QED
      BY <3>2, <3>3, <3>7, <3>8
  <2>4. ASSUME Disk!WriteFailed(n)
        PROVE  /\ disk' \in [DiskPaths -> DiskValues] /\ result' \in BOOLEAN
               /\ DiskKept({n}) /\ ~Kept(c)
    <3>1. result' = FALSE
      BY <2>4 DEF Disk!WriteFailed
    <3>2. \/ disk' = disk
          \/ disk' = [q \in DiskPaths |-> IF q = n THEN Disk!NoFile ELSE disk[q]]
      BY <2>4 DEF Disk!WriteFailed, Disk!With
    <3>3. disk' \in [DiskPaths -> DiskValues]
      BY <1>0, <3>2 DEF DiskValues
    <3>4. disk'[MANIFEST] = disk[MANIFEST] /\ \A q \in Names \ {n} : disk'[q] = disk[q]
      BY <1>0, <3>2
    <3>5. DiskKept({n})
      BY <3>4 DEF DiskKept, persist_read
    <3>6. QED
      BY <3>1, <3>3, <3>5 DEF Kept
  <2>5. QED
    BY <1>2, <2>1, <2>2, <2>3, <2>4 DEF Save
<1>3. QED
  BY <1>1, <1>2
-----------------------------------------------------------------------------
(* A call of the tree leaves every name alone but those in T, which are loose    *)
(* afterwards, or agree, or are ready for the manifest.                         *)
CallDone(T) ==
  /\ phase = "idle" /\ phase' \in {"idle", "flush"}
  /\ \A q \in Names \ T : read(entries', q) = read(entries, q)
  /\ DiskKept(T)
  /\ loose \subseteq loose' \cup T
  /\ phase' = "idle" => \A q \in T \ (loose' \cup Shadowed) : Agrees(q)'
  /\ phase' = "flush" => /\ {call'.from, call'.to} = T
                         /\ \A q \in T \ (loose' \cup Shadowed) : Ready(q)'

LEMMA CallKeeps ==
  ASSUME IInv, NEW T \in SUBSET Names, CallDone(T), Typed', CallOK', CutSafe'
  PROVE  IInv'
<1>1. ASSUME NEW q \in Names, q \notin T, q \notin loose' \cup Shadowed
      PROVE  Agrees(q)'
  <2>1. call = NoCall /\ q \in Promised \ Touched
    <3>1. call = NoCall
      BY DEF IInv, CallOK, CallDone
    <3>2. q # <<>>
      BY VfsAssumption
    <3>3. q \in Promised
      BY <1>1 DEF CallDone, Promised
    <3>4. QED
      BY <3>1, <3>2, <3>3 DEF Touched, NoCall
  <2>2. Agrees(q) /\ phase = "idle" /\ phase' # "off"
    BY <2>1 DEF IInv, OthersAgree, CallDone
  <2>3. read(entries', q) = read(entries, q)
    BY <1>1 DEF CallDone
  <2>4. Loaded(q)' = Loaded(q)
    BY <1>1, LoadedKept DEF CallDone
  <2>5. /\ persist_read(q)' <=> persist_read(q)
        /\ persist_read(q) => disk'[q] = disk[q]
    BY <1>1 DEF CallDone, DiskKept
  <2>6. Held(q) = read(entries, q) /\ Held(q)' = read(entries', q)
    BY <2>2 DEF Held
  <2>7. QED
    BY <2>2, <2>3, <2>4, <2>5, <2>6 DEF Agrees
<1>2. OthersAgree'
  <2>1. ASSUME NEW q \in Names, q \notin loose' \cup Shadowed, q \notin Touched'
        PROVE  Agrees(q)'
    <3>1. CASE phase' = "idle"
      BY <1>1, <2>1, <3>1 DEF CallDone
    <3>2. CASE phase' = "flush"
      BY <1>1, <2>1, <3>2 DEF CallDone, Touched
    <3>3. QED
      BY <3>1, <3>2 DEF CallDone
  <2>2. QED
    BY <2>1 DEF OthersAgree, Promised
<1>3. TouchedReady'
  BY DEF TouchedReady, Promised, Touched, CallDone
<1>4. QED
  BY <1>2, <1>3 DEF IInv

(* The entries of a tree and of a listing have their types.                     *)
LEMMA TreeTyped ==
  ASSUME NEW es \in Tree
  PROVE  \A i \in DOMAIN es : es[i] \in [name : Names, data : Contents, is_dir : BOOLEAN]
<1>1. \A i \in DOMAIN es : es[i] \in Entry(Names)
  BY DEF Tree
<1>2. QED
  BY <1>1 DEF Entry

LEMMA ListTyped ==
  ASSUME NEW l \in Seq(Names \ LongNames)
  PROVE  \A i \in DOMAIN l : l[i] \in Names \ LongNames
OBVIOUS

LEMMA ViewTyped ==
  ASSUME NEW es \in Tree
  PROVE  View(es) \in [Names -> Contents \cup {Absent}]
BY ReadIs DEF View

(* What a call has to establish of the types.                                   *)
LEMMA CallTyped ==
  ASSUME Typed, Begin, phase' \in {"idle", "flush"}, entries' \in Tree,
         disk' \in [DiskPaths -> DiskValues], result' \in BOOLEAN,
         failures' \in 0 .. MaxFailures, loose' \in SUBSET Names, DiskKept(Names) \/ disk'[MANIFEST] = disk[MANIFEST]
  PROVE  Typed'
<1>1. calls' \in 0 .. MaxCalls
  <2>1. calls \in 0 .. MaxCalls /\ MaxCalls \in Nat /\ calls < MaxCalls /\ calls' = calls + 1
    BY VfsAssumption DEF Typed, TypeOK, Begin
  <2>2. QED
    BY <2>1
<1>2. UNCHANGED <<listing, seen>> /\ disk'[MANIFEST] = disk[MANIFEST]
  BY DEF Begin, DiskKept
<1>3. \A i \in DOMAIN entries' :
        entries'[i] \in [name : Names, data : Contents, is_dir : BOOLEAN]
  BY TreeTyped
<1>4. /\ listing \in Seq(Names \ LongNames) /\ (listing # <<>> => disk[MANIFEST] = Listed)
      /\ \A i \in DOMAIN listing : listing[i] \in Names \ LongNames
      /\ seen \in [Names -> Contents \cup {Absent}]
  BY DEF Typed, TypeOK
<1>5. TypeOK'
  BY <1>1, <1>2, <1>3, <1>4 DEF TypeOK, DiskValues
<1>6. QED
  BY <1>2, <1>4, <1>5 DEF Typed

LEMMA SameDisk ==
  ASSUME UNCHANGED <<disk, listing>>, NEW T
  PROVE  DiskKept(T)
BY DEF DiskKept, persist_read

LEMMA TypedNow ==
  ASSUME Typed
  PROVE  /\ entries \in Tree /\ disk \in [DiskPaths -> DiskValues] /\ result \in BOOLEAN
         /\ failures \in 0 .. MaxFailures /\ loose \in SUBSET Names
         /\ listing \in Seq(Names)
         /\ (listing # <<>> => disk[MANIFEST] = Listed)
BY DEF Typed, TypeOK, DiskValues

(* A name that is promised agrees while no call is on.                          *)
LEMMA IdleAgrees ==
  ASSUME IInv, phase = "idle", NEW q \in Names \ (loose \cup Shadowed)
  PROVE  Agrees(q) /\ read(entries, q) = Loaded(q) /\ call = NoCall
<1>1. call = NoCall
  BY DEF IInv, CallOK
<1>2. q # <<>>
  BY VfsAssumption
<1>3. Agrees(q)
  BY <1>1, <1>2 DEF IInv, OthersAgree, Promised, Touched, NoCall
<1>4. QED
  BY <1>1, <1>3 DEF Agrees, Held

LEMMA MkdirKeeps ==
  ASSUME IInv, NEW n \in Names, Mkdir(n)
  PROVE  IInv'
<1>1. Typed /\ entries \in Tree
  BY TypedNow DEF IInv
<1>2. Dir(n) \in Entry(Names) /\ Dir(n).is_dir
  BY TypingHolds DEF Typing, Dir, Entry
<1>3. /\ Begin /\ entries' = Append(entries, Dir(n))
      /\ UNCHANGED <<disk, result, failures, loose, listing>>
      /\ phase = "idle" /\ phase' = "idle" /\ call' = NoCall
  BY DEF Mkdir, Begin, Finish
<1>4. entries' \in Tree /\ \A q : read(entries', q) = read(entries, q)
  BY <1>1, <1>2, <1>3, AppendTree, AppendRead
<1>5. Typed'
  BY <1>1, <1>3, <1>4, TypedNow, CallTyped
<1>6. CallOK'
  BY <1>3 DEF CallOK, NoCall
<1>7. CutSafe'
  BY <1>3 DEF CutSafe, NoCall
<1>8. CallDone({})
  BY <1>3, <1>4, SameDisk DEF CallDone
<1>9. QED
  BY <1>5, <1>6, <1>7, <1>8, CallKeeps

LEMMA DeleteKeeps ==
  ASSUME IInv, NEW n \in Names, Delete(n)
  PROVE  IInv'
<1>1. Typed /\ entries \in Tree
  BY TypedNow DEF IInv
<1>2. /\ Begin /\ entries' = Among(entries, Entry(Names \ {n}))
      /\ UNCHANGED <<disk, result, failures, listing>> /\ phase = "idle"
      /\ loose' = IF n = Settings \/ n \in ToSet(Defaults) \/ ~persistable(n)
                  THEN loose \cup {n} ELSE loose \ {n}
  BY DEF Delete, Begin
<1>3. /\ entries' \in Tree /\ ~HasFile(entries', n)
      /\ \A q : q # n => read(entries', q) = read(entries, q)
  BY <1>1, <1>2, DeleteTree
<1>4. loose' \in SUBSET Names
  BY <1>1, <1>2, TypedNow
<1>5. DiskKept({n})
  BY <1>2, SameDisk
<1>6. CASE ~persistable(n)
  <2>1. phase' = "idle" /\ call' = NoCall /\ n \in loose'
    BY <1>2, <1>6 DEF Delete, Finish
  <2>2. Typed'
    BY <1>1, <1>2, <1>3, <1>4, <2>1, TypedNow, CallTyped
  <2>3. CallOK' /\ CutSafe'
    BY <2>1 DEF CallOK, CutSafe, NoCall
  <2>4. CallDone({n})
    BY <1>2, <1>3, <1>5, <2>1 DEF CallDone
  <2>5. QED
    BY <2>2, <2>3, <2>4, CallKeeps
<1>7. CASE persistable(n)
  <2>1. phase' = "flush" /\ call' = Calling("delete", n, n, read(entries, n), Absent)
    BY <1>7 DEF Delete, ThenFlush
  <2>2. /\ call'.kind = "delete" /\ call'.from = n /\ call'.to = n
        /\ call'.old = read(entries, n) /\ call'.new = Absent
        /\ call'.firm => n \notin loose
    BY <2>1 DEF Calling
  <2>3. Typed'
    BY <1>1, <1>2, <1>3, <1>4, <2>1, TypedNow, CallTyped
  <2>4. CallOK'
    BY <2>1, <2>2 DEF CallOK
  <2>5. n \notin loose' => Ready(n)'
    BY <1>2, <1>3 DEF Ready
  <2>6. CallDone({n})
    BY <1>2, <1>3, <1>5, <2>1, <2>2, <2>5 DEF CallDone
  <2>7. CutSafe'
    <3>1. ASSUME call'.firm, n \notin Shadowed PROVE Loaded(n)' = read(entries, n)
      <4>1. read(entries, n) = Loaded(n)
        BY <1>2, <2>2, <3>1, IdleAgrees
      <4>2. Loaded(n)' = Loaded(n)
        BY <1>2 DEF Loaded, PulledBack, InManifest, persist_read
      <4>3. QED
        BY <4>1, <4>2
    <3>2. QED
      BY <2>2, <3>1 DEF CutSafe, Touched
  <2>8. QED
    BY <2>3, <2>4, <2>6, <2>7, CallKeeps
<1>8. QED
  BY <1>6, <1>7

LEMMA WriteKeeps ==
  ASSUME IInv, NEW n \in Names, NEW c \in Inputs, Write(n, c)
  PROVE  IInv'
<1>1. /\ Typed /\ entries \in Tree /\ loose \in SUBSET Names /\ c \in Contents
      /\ listing # <<>> => disk[MANIFEST] = Listed
  BY TypedNow, ValuesApart DEF IInv
<1>2. /\ Begin /\ entries' = write_mem(entries, n, c) /\ UNCHANGED listing
      /\ phase = "idle" /\ phase' \in {"idle", "flush"}
  BY DEF Write, Begin, Finish, ThenFlush
<1>3. /\ entries' \in Tree /\ read(entries', n) = c
      /\ \A q : q # n => read(entries', q) = read(entries, q)
  BY <1>1, <1>2, WriteMem
<1>4. /\ disk' \in [DiskPaths -> DiskValues] /\ result' \in BOOLEAN
      /\ failures' \in 0 .. MaxFailures
      /\ DiskKept({n})
      /\ persistable(n) /\ Kept(c) => disk'[n] = c /\ c \in Contents \ {Empty}
  <2>1. CASE ~persistable(n)
    <3>1. UNCHANGED <<disk, result, failures>>
      BY <2>1 DEF Write
    <3>2. QED
      BY <1>1, <1>2, <2>1, <3>1, TypedNow, SameDisk
  <2>2. CASE persistable(n)
    <3>1. persist_write(n, c)
      BY <2>2 DEF Write
    <3>2. QED
      BY <1>1, <1>2, <3>1, PersistWrite
  <2>3. QED
    BY <2>1, <2>2
<1>5. /\ loose' = loose \cup {n} \/ loose' = loose \ {n}
      /\ n \notin loose' => persistable(n) /\ Kept(c) /\ Reloads(n)
  BY DEF Write
<1>6. Typed'
  <2>1. loose' \in SUBSET Names /\ disk'[MANIFEST] = disk[MANIFEST]
    BY <1>1, <1>4, <1>5 DEF DiskKept
  <2>2. QED
    BY <1>1, <1>2, <1>3, <1>4, <2>1, CallTyped
<1>7. n \notin loose' => persist_read(n)' /\ disk'[n] = c /\ n \notin LongNames
  BY <1>4, <1>5 DEF persist_read, persistable
<1>8. CASE phase' = "idle"
  <2>1. call' = NoCall
    BY <1>8 DEF Write, Finish, ThenFlush
  <2>2. CallOK' /\ CutSafe'
    BY <1>8, <2>1 DEF CallOK, CutSafe, NoCall
  <2>3. ASSUME n \notin loose' PROVE Agrees(n)'
    <3>1. exists(entries, n)
      BY <1>5, <1>8, <2>3 DEF Write, ThenFlush
    <3>2. n \in ToSet(listing) /\ listing # <<>>
      BY <1>5, <2>3, <3>1 DEF Reloads, ToSet
    <3>3. disk'[MANIFEST] = Listed /\ n \in ToSet(listing')
      BY <1>1, <1>2, <1>4, <3>2 DEF DiskKept
    <3>4. Loaded(n)' = c
      BY <1>7, <2>3, <3>3 DEF Loaded, PulledBack, InManifest
    <3>5. Held(n)' = c
      BY <1>3, <1>8 DEF Held
    <3>6. QED
      BY <1>7, <2>3, <3>4, <3>5 DEF Agrees
  <2>4. CallDone({n})
    BY <1>2, <1>3, <1>4, <1>5, <1>8, <2>3 DEF CallDone
  <2>5. QED
    BY <1>6, <2>2, <2>4, CallKeeps
<1>9. CASE phase' = "flush"
  <2>1. ~exists(entries, n) /\ call' = Calling("create", n, n, Absent, c)
    BY <1>9 DEF Write, Finish, ThenFlush
  <2>2. /\ call'.kind = "create" /\ call'.from = n /\ call'.to = n
        /\ call'.old = Absent /\ call'.new = c
        /\ call'.firm => n \notin loose
    BY <2>1 DEF Calling
  <2>3. CallOK'
    BY <1>9, <2>2 DEF CallOK
  <2>4. n \notin loose' => Ready(n)'
    <3>1. HasFile(entries', n)
      BY <1>1, <1>3, ReadIs, TypingHolds DEF Typing
    <3>2. QED
      BY <1>3, <1>7, <3>1 DEF Ready
  <2>5. CallDone({n})
    BY <1>2, <1>3, <1>4, <1>5, <1>9, <2>2, <2>4 DEF CallDone
  <2>6. CutSafe'
    <3>1. ASSUME call'.firm, n \notin loose' \cup Shadowed
          PROVE  Loaded(n)' \in {Absent, c}
      <4>1. read(entries, n) = Loaded(n) /\ read(entries, n) = Absent
        <5>1. ~HasFile(entries, n)
          BY <1>1, <2>1 DEF exists, HasFile, FileAt, Tree
        <5>2. QED
          BY <1>1, <1>2, <2>2, <3>1, <5>1, IdleAgrees, ReadIs
      <4>2. n \notin ToSet(Defaults)
        <5>1. Builtin # Absent /\ (persist_read(n) => disk[n] # Absent)
          BY TypingHolds DEF Typing, persist_read, Builtin, Absent
        <5>2. QED
          BY <1>1, <4>1, <5>1, TypingHolds DEF Loaded, PulledBack, InManifest, Builtin, Absent, persist_read, Typing
      <4>3. QED
        BY <1>7, <3>1, <4>2 DEF Loaded
    <3>2. QED
      BY <2>2, <3>1 DEF CutSafe, Touched
  <2>7. QED
    BY <1>6, <2>3, <2>5, <2>6, CallKeeps
<1>10. QED
  BY <1>2, <1>8, <1>9

LEMMA RenameKeeps ==
  ASSUME IInv, NEW m \in Names, NEW n \in Names, Rename(m, n)
  PROVE  IInv'
<1>1. Typed /\ entries \in Tree /\ loose \in SUBSET Names
  BY TypedNow DEF IInv
<1>2. PICK i : i = FirstEntry(entries, m)
  OBVIOUS
<1>3. PICK e : e = entries[i]
  OBVIOUS
<1>4. /\ Begin /\ exists(entries, m) /\ UNCHANGED listing /\ phase = "idle"
      /\ entries' = [entries EXCEPT ![i].name = n]
      /\ IF ~e.is_dir /\ persistable(n)
         THEN /\ persist_write(n, e.data)
              /\ ThenFlush(Calling("rename", m, n, e.data, e.data))
         ELSE /\ UNCHANGED <<disk, result, failures>>
              /\ Finish
      /\ loose' = IF ~e.is_dir /\ persistable(n) /\ PlainRename(m, n)
                  THEN loose \ {m, n} ELSE loose \cup {m, n}
  BY <1>2, <1>3 DEF Rename, Begin
<1>5. /\ i \in 1 .. Len(entries) /\ entries[i].name = m
      /\ \A j \in 1 .. i - 1 : entries[j].name # m
  BY <1>1, <1>2, <1>4, FirstEntryIs
<1>6. e \in Entry(Names) /\ e.data \in Contents
  <2>1. e \in Entry(Names)
    BY <1>1, <1>3, <1>5 DEF Tree
  <2>2. QED
    BY <2>1 DEF Entry
<1>7. /\ entries' \in Tree /\ Renamed(entries, entries', i, n)
      /\ \A k : k \notin {m, n} => read(entries', k) = read(entries, k)
  <2>1. entries' = WithName(entries, i, n)
    BY <1>4 DEF WithName
  <2>2. QED
    BY <1>1, <1>5, <2>1, RenameTree
<1>8. loose' \in SUBSET Names /\ loose \subseteq loose' \cup {m, n}
  BY <1>1, <1>4
<1>9. CASE ~(~e.is_dir /\ persistable(n))
  <2>1. /\ UNCHANGED <<disk, result, failures>> /\ phase' = "idle" /\ call' = NoCall
        /\ loose' = loose \cup {m, n}
    BY <1>4, <1>9 DEF Finish
  <2>2. DiskKept({m, n})
    BY <1>4, <2>1, SameDisk
  <2>3. Typed'
    BY <1>1, <1>4, <1>7, <1>8, <2>1, TypedNow, CallTyped
  <2>4. CallOK' /\ CutSafe'
    BY <2>1 DEF CallOK, CutSafe, NoCall
  <2>5. CallDone({m, n})
    BY <1>4, <1>7, <1>8, <2>1, <2>2 DEF CallDone
  <2>6. QED
    BY <2>3, <2>4, <2>5, CallKeeps
<1>10. CASE ~e.is_dir /\ persistable(n)
  <2>1. /\ persist_write(n, e.data) /\ phase' = "flush"
        /\ call' = Calling("rename", m, n, e.data, e.data)
        /\ loose' = IF PlainRename(m, n) THEN loose \ {m, n} ELSE loose \cup {m, n}
    BY <1>4, <1>10 DEF ThenFlush
  <2>2. /\ call'.kind = "rename" /\ call'.from = m /\ call'.to = n
        /\ call'.old = e.data /\ call'.new = e.data
        /\ call'.firm => m \notin loose /\ n \notin loose
    BY <2>1 DEF Calling
  <2>3. /\ disk' \in [DiskPaths -> DiskValues] /\ result' \in BOOLEAN
        /\ failures' \in 0 .. MaxFailures
        /\ DiskKept({n})
        /\ Kept(e.data) => disk'[n] = e.data /\ e.data \in Contents \ {Empty}
    BY <1>1, <1>4, <1>6, <2>1, PersistWrite
  <2>4. DiskKept({m, n}) /\ disk'[MANIFEST] = disk[MANIFEST]
    BY <2>3 DEF DiskKept
  <2>5. Typed'
    BY <1>1, <1>4, <1>7, <1>8, <2>1, <2>3, <2>4, CallTyped
  <2>6. CallOK'
    BY <2>1, <2>2 DEF CallOK
  <2>7. ASSUME PlainRename(m, n)
        PROVE  /\ m # n /\ read(entries, m) = e.data
               /\ Ready(m)' /\ Ready(n)'
    <3>1. /\ ~e.is_dir /\ persistable(m) /\ m # Settings /\ m \notin ToSet(Defaults)
          /\ ~exists(entries', m) /\ ~exists(entries, n) /\ Kept(e.data)
      BY <1>2, <1>3, <2>7 DEF PlainRename
    <3>2. /\ m # n /\ read(entries, m) = e.data
          /\ ~HasFile(entries', m) /\ HasFile(entries', n) /\ read(entries', n) = e.data
      <4>1. LeavesNothing(entries, entries', i, m, n)
        BY <1>3, <1>5, <1>7, <3>1 DEF LeavesNothing
      <4>2. QED
        BY <1>1, <1>3, <1>7, <4>1, PlainRenameTree
    <3>3. Ready(m)'
      BY <3>1, <3>2 DEF Ready
    <3>4. Ready(n)'
      BY <1>10, <2>3, <3>1, <3>2 DEF Ready, persist_read, persistable
    <3>5. QED
      BY <3>2, <3>3, <3>4
  <2>8. CallDone({m, n})
    <3>1. \A q \in {m, n} \ (loose' \cup Shadowed) : Ready(q)'
      BY <2>1, <2>7
    <3>2. QED
      BY <1>4, <1>7, <1>8, <2>1, <2>2, <2>4, <3>1 DEF CallDone
  <2>9. CutSafe'
    <3>1. ASSUME call'.firm, m \notin loose' \cup Shadowed
          PROVE  e.data = Loaded(m)'
      <4>1. PlainRename(m, n)
        BY <2>1, <3>1
      <4>2. read(entries, m) = Loaded(m)
        BY <1>4, <2>2, <3>1, IdleAgrees
      <4>3. Loaded(m)' = Loaded(m)
        BY <2>3, <2>7, <4>1, LoadedKept
      <4>4. QED
        BY <2>7, <4>1, <4>2, <4>3
    <3>2. QED
      BY <2>2, <3>1 DEF CutSafe, Touched
  <2>10. QED
    BY <2>5, <2>6, <2>8, <2>9, CallKeeps
<1>11. QED
  BY <1>9, <1>10

-----------------------------------------------------------------------------
(* The manifest.                                                              *)
LEMMA ManifestSave ==
  ASSUME Typed, Save(MANIFEST, Listed)
  PROVE  /\ disk' \in [DiskPaths -> DiskValues] /\ result' \in BOOLEAN
         /\ \A q \in Names : disk'[q] = disk[q]
         /\ result' => disk'[MANIFEST] = Listed
<1>0. disk \in [DiskPaths -> DiskValues] /\ MANIFEST \notin Names /\ MANIFEST \in DiskPaths
      /\ Names \subseteq DiskPaths
  BY TypedNow, VfsAssumption DEF DiskPaths
<1>1. Stored(Listed) = {Listed}
  BY DEF Stored, Listed, Long
<1>2. CASE Disk!WriteDone(MANIFEST, Listed)
  <2>1. Disk!Ancestors(MANIFEST) = {}
    BY DEF Disk!Ancestors, MANIFEST
  <2>2. disk' = [q \in DiskPaths |-> IF q = MANIFEST THEN Listed ELSE disk[q]] /\ result' = TRUE
    BY <1>2, <2>1 DEF Disk!WriteDone, Disk!With, Disk!Missing
  <2>3. QED
    BY <1>0, <2>2 DEF DiskValues
<1>3. CASE Disk!WriteFailed(MANIFEST)
  <2>1. /\ result' = FALSE
        /\ \/ disk' = disk
           \/ disk' = [q \in DiskPaths |-> IF q = MANIFEST THEN Disk!NoFile ELSE disk[q]]
    BY <1>3 DEF Disk!WriteFailed, Disk!With
  <2>2. QED
    BY <1>0, <2>1 DEF DiskValues
<1>4. QED
  BY <1>1, <1>2, <1>3 DEF Save

LEMMA FlushTyped ==
  ASSUME IInv, FlushManifest
  PROVE  Typed'
<1>1. Typed
  BY DEF IInv
<1>2. /\ disk' \in [DiskPaths -> DiskValues] /\ result' \in BOOLEAN
      /\ result' => disk'[MANIFEST] = Listed
  BY <1>1, ManifestSave DEF FlushManifest
<1>3. /\ entries \in Tree /\ loose \in SUBSET Names /\ failures \in 0 .. MaxFailures
      /\ listing \in Seq(Names \ LongNames) /\ (listing # <<>> => disk[MANIFEST] = Listed)
      /\ seen \in [Names -> Contents \cup {Absent}] /\ calls \in 0 .. MaxCalls
      /\ call.from \in Names /\ call.to \in Names
      /\ MaxFailures \in Nat
  BY VfsAssumption DEF IInv, Typed, TypeOK, CallOK, FlushManifest
<1>4. /\ phase' = "idle" /\ UNCHANGED <<entries, seen, calls>>
      /\ failures' \in 0 .. MaxFailures
  BY <1>3 DEF FlushManifest, Finish, CountFailure
<1>5. /\ listing' \in Seq(Names \ LongNames) /\ loose' \in SUBSET Names
      /\ listing' # <<>> => disk'[MANIFEST] = Listed
  <2>1. CASE result'
    BY <1>2, <1>3, <2>1, ManifestIs DEF FlushManifest
  <2>2. CASE ~result' /\ disk'[MANIFEST] = disk[MANIFEST]
    BY <1>3, <2>2 DEF FlushManifest
  <2>3. CASE ~result' /\ disk'[MANIFEST] # disk[MANIFEST]
    <3>1. listing' = <<>> /\ loose' = Names
      BY <2>3 DEF FlushManifest
    <3>2. QED
      BY <3>1
  <2>4. QED
    BY <2>1, <2>2, <2>3
<1>6. TypeOK'
  <2>1. \A j \in DOMAIN listing' : listing'[j] \in Names \ LongNames
    BY <1>5
  <2>2. \A j \in DOMAIN entries :
          entries[j] \in [name : Names, data : Contents, is_dir : BOOLEAN]
    BY <1>3, TreeTyped
  <2>3. QED
    BY <1>2, <1>3, <1>4, <1>5, <2>1, <2>2 DEF TypeOK, DiskValues
<1>7. QED
  BY <1>3, <1>4, <1>5, <1>6 DEF Typed

(* Once the manifest is written the tree is what loading would show of every name  *)
(* that agreed or was ready.                                                    *)
LEMMA FlushAgrees ==
  ASSUME IInv, FlushManifest, result', NEW q \in Names, q \notin loose \cup Shadowed
  PROVE  Agrees(q)'
<1>1. /\ Typed /\ entries \in Tree /\ phase = "flush" /\ phase' = "idle"
      /\ UNCHANGED entries /\ listing' = Manifest(entries)
  BY DEF IInv, Typed, FlushManifest, Finish
<1>2. disk'[q] = disk[q] /\ disk'[MANIFEST] = Listed
  BY <1>1, ManifestSave DEF FlushManifest
<1>3. InManifest(q)' <=> HasFile(entries, q) /\ persistable(q)
  BY <1>1, <1>2, ManifestIs DEF InManifest
<1>4. persist_read(q)' <=> persist_read(q)
  BY <1>2 DEF persist_read
<1>5. /\ HasFile(entries, q) <=> read(entries, q) # Absent
      /\ persist_read(q) => disk[q] # Absent
      /\ Builtin # Absent
  BY <1>1, ReadIs, TypingHolds DEF persist_read, Typing, Builtin, Absent
<1>6. Held(q)' = read(entries, q)
  BY <1>1 DEF Held
<1>7. \/ Agrees(q) /\ Held(q) = read(entries, q)
      \/ Ready(q)
  BY <1>1 DEF IInv, OthersAgree, TouchedReady, Promised, Held
<1>8. CASE Ready(q)
  BY <1>2, <1>3, <1>4, <1>5, <1>6, <1>8 DEF Ready, Agrees, Loaded, PulledBack, persistable
<1>9. CASE Agrees(q) /\ Held(q) = read(entries, q)
  <2>1. Loaded(q) = read(entries, q)
        /\ (q \in ToSet(Defaults) /\ persist_read(q) => disk[q] = read(entries, q))
    BY <1>9 DEF Agrees
  <2>2. CASE ~HasFile(entries, q)
    <3>1. ~PulledBack(q) /\ q \notin ToSet(Defaults)
      BY <1>5, <2>1, <2>2 DEF Loaded, PulledBack
    <3>2. ~PulledBack(q)'
      BY <1>3, <1>4, <2>2, <3>1 DEF PulledBack
    <3>3. QED
      BY <1>5, <1>6, <2>2, <3>1, <3>2 DEF Agrees, Loaded
  <2>3. CASE HasFile(entries, q)
    <3>1. persistable(q)
      <4>1. SUFFICES ASSUME q \in LongNames PROVE FALSE
        BY DEF persistable
      <4>2. q \notin ToSet(listing) /\ q \notin ToSet(Defaults) /\ q # Settings
        BY <1>1, <4>1, VfsAssumption DEF Typed, ToSet
      <4>3. QED
        BY <1>5, <2>1, <2>3, <4>2 DEF Loaded, PulledBack, InManifest
    <3>2. InManifest(q)'
      BY <1>3, <2>3, <3>1
    <3>3. CASE persist_read(q)
      <4>1. disk[q] = read(entries, q)
        BY <1>5, <2>1, <2>3, <3>3 DEF Loaded
      <4>2. QED
        BY <1>2, <1>4, <1>6, <3>2, <3>3, <4>1 DEF Agrees, Loaded, PulledBack
    <3>4. CASE ~persist_read(q)
      BY <1>4, <1>6, <2>1, <3>4 DEF Agrees, Loaded, PulledBack
    <3>5. QED
      BY <3>3, <3>4
  <2>4. QED
    BY <2>2, <2>3
<1>10. QED
  BY <1>7, <1>8, <1>9

LEMMA FlushKeeps ==
  ASSUME IInv, FlushManifest
  PROVE  IInv'
<1>1. Typed' /\ phase = "flush" /\ phase' = "idle" /\ call' = NoCall /\ UNCHANGED entries
  BY FlushTyped DEF FlushManifest, Finish
<1>2. CallOK' /\ CutSafe' /\ TouchedReady'
  BY <1>1 DEF CallOK, CutSafe, TouchedReady, NoCall
<1>3. ASSUME NEW q \in Names, q \notin loose' \cup Shadowed PROVE Agrees(q)'
  <2>1. CASE result'
    BY <1>3, <2>1, FlushAgrees DEF FlushManifest
  <2>2. CASE ~result'
    <3>1. /\ disk'[MANIFEST] = disk[MANIFEST] /\ UNCHANGED listing
          /\ q \notin loose /\ q \notin Touched
      BY <1>3, <2>2 DEF FlushManifest, Touched
    <3>2. disk'[q] = disk[q]
      BY ManifestSave DEF IInv, FlushManifest
    <3>3. Agrees(q)
      BY <1>3, <3>1 DEF IInv, OthersAgree, Promised
    <3>4. Loaded(q)' = Loaded(q) /\ (persist_read(q)' <=> persist_read(q))
      BY <3>1, <3>2 DEF Loaded, PulledBack, InManifest, persist_read
    <3>5. Held(q)' = Held(q)
      BY <1>1 DEF Held
    <3>6. QED
      BY <3>2, <3>3, <3>4, <3>5 DEF Agrees
  <2>3. QED
    BY <2>1, <2>2
<1>4. OthersAgree'
  BY <1>3 DEF OthersAgree, Promised
<1>5. QED
  BY <1>1, <1>2, <1>4 DEF IInv

-----------------------------------------------------------------------------
(* Restarts.                                                                  *)
LEMMA DownKeeps ==
  ASSUME IInv, Down
  PROVE  IInv'
<1>1. /\ Typed /\ CallOK /\ phase # "off" /\ phase' = "off" /\ entries' = <<>>
      /\ seen' = View(entries) /\ UNCHANGED <<disk, result, listing, call, loose, calls, failures>>
  BY DEF IInv, Down, device
<1>2. Typed'
  <2>1. View(entries) \in [Names -> Contents \cup {Absent}]
    BY <1>1, ViewTyped DEF Typed
  <2>2. entries' \in Tree /\ DOMAIN entries' = {}
    BY <1>1 DEF Tree
  <2>3. TypeOK'
    BY <1>1, <2>1, <2>2 DEF Typed, TypeOK
  <2>4. QED
    BY <1>1, <2>2, <2>3 DEF Typed
<1>3. CallOK'
  BY <1>1 DEF CallOK
<1>4. \A q : (Loaded(q)' = Loaded(q)) /\ (persist_read(q)' <=> persist_read(q))
  BY <1>1 DEF Loaded, PulledBack, InManifest, persist_read
<1>5. OthersAgree'
  <2>1. ASSUME NEW q \in Promised', q \notin Touched' PROVE Agrees(q)'
    <3>1. q \in Names /\ q \in Promised \ Touched
      BY <1>1, <2>1 DEF Promised, Touched
    <3>2. Agrees(q)
      BY <3>1 DEF IInv, OthersAgree
    <3>3. Held(q)' = Held(q)
      BY <1>1, <3>1 DEF Held, View
    <3>4. QED
      BY <1>1, <1>4, <3>2, <3>3 DEF Agrees
  <2>2. QED
    BY <2>1 DEF OthersAgree
<1>6. TouchedReady'
  BY <1>1 DEF TouchedReady
<1>7. CutSafe'
  BY <1>1, <1>4 DEF IInv, CutSafe, Touched
<1>8. QED
  BY <1>2, <1>3, <1>5, <1>6, <1>7 DEF IInv

LEMMA NewShows ==
  ASSUME IInv, New
  PROVE  /\ entries' \in Tree
         /\ \A q \in Names \ Shadowed : read(entries', q) = Loaded(q)
<1>1. listing \in Seq(Names)
  BY TypedNow DEF IInv
<1>2. QED
  BY <1>1, LoadIs DEF New

LEMMA NewKeeps ==
  ASSUME IInv, New
  PROVE  IInv'
<1>1. /\ Typed /\ phase = "off" /\ phase' = "idle" /\ call' = NoCall
      /\ UNCHANGED <<disk, result, listing, seen, calls, failures>>
      /\ loose' = (loose \cup Touched) \cap ToSet(Defaults)
      /\ entries' \in Tree
  BY NewShows DEF IInv, New, Finish, device, Touched
<1>2. Typed'
  <2>1. loose' \in SUBSET Names
    BY <1>1, VfsAssumption DEF ToSet
  <2>2. TypeOK'
    BY <1>1, <2>1, TreeTyped DEF Typed, TypeOK
  <2>3. QED
    BY <1>1, <2>2 DEF Typed
<1>3. CallOK' /\ CutSafe' /\ TouchedReady'
  BY <1>1 DEF CallOK, CutSafe, TouchedReady, NoCall
<1>4. ASSUME NEW q \in Names, q \notin loose' \cup Shadowed PROVE Agrees(q)'
  <2>1. Held(q)' = Loaded(q)
    BY <1>1, <1>4, NewShows DEF Held
  <2>2. Loaded(q)' = Loaded(q) /\ (persist_read(q)' <=> persist_read(q))
    BY <1>1 DEF Loaded, PulledBack, InManifest, persist_read
  <2>3. q \in ToSet(Defaults) /\ persist_read(q) => disk[q] = Loaded(q)
    <3>1. ASSUME q \in ToSet(Defaults) PROVE Agrees(q)
      BY <1>1, <1>4, <3>1 DEF IInv, OthersAgree, Promised
    <3>2. QED
      BY <3>1 DEF Agrees
  <2>4. QED
    BY <1>1, <2>1, <2>2, <2>3 DEF Agrees
<1>5. OthersAgree'
  BY <1>4 DEF OthersAgree, Promised
<1>6. QED
  BY <1>2, <1>3, <1>5 DEF IInv
-----------------------------------------------------------------------------
LEMMA InitInvariant == Init => IInv
<1> SUFFICES ASSUME Init PROVE IInv
  OBVIOUS
<1>1. /\ phase = "off" /\ entries = <<>> /\ disk = [p \in DiskPaths |-> Disk!NoFile]
      /\ result = TRUE /\ listing = <<>> /\ call = NoCall /\ seen = View(BuiltIn)
      /\ loose = {} /\ calls = 0 /\ failures = 0
  BY DEF Init
<1>2. Typed
  <2>1. entries \in Tree /\ DOMAIN entries = {} /\ listing \in Seq(Names \ LongNames)
        /\ DOMAIN listing = {}
    BY <1>1 DEF Tree
  <2>2. View(BuiltIn) \in [Names -> Contents \cup {Absent}]
    BY BuiltInTree, ViewTyped
  <2>3. disk \in [DiskPaths -> Contents \cup {Disk!NoFile, Disk!Directory, Listed}]
    BY <1>1
  <2>4. TypeOK
    BY <1>1, <2>1, <2>2, <2>3, VfsAssumption DEF TypeOK
  <2>5. QED
    BY <1>1, <2>1, <2>4 DEF Typed
<1>3. CallOK /\ TouchedReady /\ CutSafe
  BY <1>1 DEF CallOK, TouchedReady, CutSafe, NoCall
<1>4. OthersAgree
  <2>1. ASSUME NEW q \in Names PROVE Agrees(q)
    <3>1. ~persist_read(q)
      BY <1>1, ValuesApart DEF persist_read, DiskPaths
    <3>2. Held(q) = IF q \in ToSet(Defaults) THEN Builtin ELSE Absent
      BY <1>1, BuiltInTree DEF Held, View
    <3>3. QED
      BY <3>1, <3>2 DEF Agrees, Loaded, PulledBack
  <2>2. QED
    BY <2>1 DEF OthersAgree, Promised
<1>5. QED
  BY <1>2, <1>3, <1>4 DEF IInv

LEMMA StutterInvariant == IInv /\ UNCHANGED vars => IInv'
<1> SUFFICES ASSUME IInv, UNCHANGED vars PROVE IInv'
  OBVIOUS
<1>1. UNCHANGED <<phase, entries, disk, result, listing, call, seen, loose, calls, failures>>
  BY DEF vars, memory, device, history
<1>2. Typed' /\ CallOK' /\ TouchedReady' /\ CutSafe' /\ OthersAgree'
  <2>1. Typed' /\ CallOK'
    BY <1>1 DEF IInv, Typed, TypeOK, CallOK
  <2>2. \A q : (Loaded(q)' = Loaded(q)) /\ (persist_read(q)' <=> persist_read(q))
               /\ Held(q)' = Held(q)
    BY <1>1 DEF Loaded, PulledBack, InManifest, persist_read, Held
  <2>3. CutSafe'
    BY <1>1, <2>2 DEF IInv, CutSafe, Touched
  <2>4. \A q : Agrees(q)' <=> Agrees(q)
    BY <1>1, <2>2 DEF Agrees
  <2>5. \A q : Ready(q)' <=> Ready(q)
    BY <1>1, <2>2 DEF Ready
  <2>6. Promised' = Promised /\ Touched' = Touched
    BY <1>1 DEF Promised, Touched
  <2>7. QED
    BY <1>1, <2>1, <2>3, <2>4, <2>5, <2>6 DEF IInv, OthersAgree, TouchedReady
<1>3. QED
  BY <1>2 DEF IInv

LEMMA NextInvariant == IInv /\ [Next]_vars => IInv'
<1> SUFFICES ASSUME IInv, [Next]_vars PROVE IInv'
  OBVIOUS
<1>1. ASSUME NEW n \in Names, NEW c \in Inputs, Write(n, c) PROVE IInv'
  BY <1>1, WriteKeeps
<1>2. ASSUME NEW n \in Names, Delete(n) PROVE IInv'
  BY <1>2, DeleteKeeps
<1>3. ASSUME NEW n \in Names, Mkdir(n) PROVE IInv'
  BY <1>3, MkdirKeeps
<1>4. ASSUME NEW m \in Names, NEW n \in Names, Rename(m, n) PROVE IInv'
  BY <1>4, RenameKeeps
<1>5. CASE FlushManifest
  BY <1>5, FlushKeeps
<1>6. CASE Down
  BY <1>6, DownKeeps
<1>7. CASE New
  BY <1>7, NewKeeps
<1>8. CASE UNCHANGED vars
  BY <1>8, StutterInvariant
<1>9. QED
  BY <1>1, <1>2, <1>3, <1>4, <1>5, <1>6, <1>7, <1>8 DEF Next, Call

(* What is promised of the tree and the disk holds in every state: loading the      *)
(* disk would show every promised name as the tree has it, and in the middle of a    *)
(* call the names it touches are on the disk what the manifest will say of them.     *)
THEOREM MirrorInvariant == Spec => []IInv
<1>1. QED
  BY InitInvariant, NextInvariant, PTL DEF Spec

(* Entries, disk, manifest and history stay of their kinds: no name that is too      *)
(* long to be mirrored ever gets into the manifest.                                 *)
THEOREM TypesHold == Spec => []TypeOK
<1>1. IInv => TypeOK
  BY DEF IInv, Typed
<1>2. QED
  BY <1>1, MirrorInvariant, PTL

(* Only Vfs::new restarts.                                                      *)
LEMMA RestartIsNew ==
  ASSUME [Next]_vars, Restarts
  PROVE  New
<1>1. phase = "off" /\ phase' = "idle"
  BY DEF Restarts
<1>2. ~UNCHANGED vars
  BY <1>1 DEF vars, memory
<1>3. \A n, c : ~Write(n, c)
  BY <1>1 DEF Write, Begin
<1>4. \A n : ~Delete(n) /\ ~Mkdir(n)
  BY <1>1 DEF Delete, Mkdir, Begin
<1>5. \A m, n : ~Rename(m, n)
  BY <1>1 DEF Rename, Begin
<1>6. ~FlushManifest /\ ~Down
  BY <1>1 DEF FlushManifest, Down
<1>7. QED
  BY <1>2, <1>3, <1>4, <1>5, <1>6 DEF Next, Call

(* What was saved is there after a restart, and what was deleted or renamed away is   *)
(* not, whatever happened meanwhile to other names.                               *)
THEOREM RestartsShow == Spec => RestartShowsSaved
<1>1. IInv /\ [Next]_vars
        => [Restarts => \A n \in Names \ (loose \cup Shadowed \cup {call.from, call.to}) :
                           read(entries', n) = seen[n]]_vars
  <2> SUFFICES ASSUME IInv, [Next]_vars, Restarts,
                      NEW n \in Names \ (loose \cup Shadowed \cup {call.from, call.to})
               PROVE  read(entries', n) = seen[n]
    OBVIOUS
  <2>1. New /\ phase = "off"
    BY RestartIsNew DEF Restarts
  <2>2. read(entries', n) = Loaded(n)
    BY <2>1, NewShows
  <2>3. Agrees(n)
    BY DEF IInv, OthersAgree, Promised, Touched
  <2>4. QED
    BY <2>1, <2>2, <2>3 DEF Agrees, Held
<1>2. QED
  BY <1>1, MirrorInvariant, PTL DEF Spec, RestartShowsSaved

(* A restart between the two disk calls of a call finds the old or the new state of   *)
(* its name, and of a rename at least one of the two names holds the file: the data   *)
(* is on the disk before the manifest says so.                                      *)
THEOREM CutCallsSafe == Spec => CutCallIsSafe
<1>1. IInv /\ [Next]_vars
        => [Restarts /\ call.firm /\ {call.from, call.to} \cap (loose \cup Shadowed) = {} =>
              IF call.kind = "rename"
              THEN call.old \in {read(entries', call.from), read(entries', call.to)}
              ELSE read(entries', call.to) \in {call.old, call.new}]_vars
  <2> SUFFICES ASSUME IInv, [Next]_vars, Restarts, call.firm,
                      {call.from, call.to} \cap (loose \cup Shadowed) = {}
               PROVE  IF call.kind = "rename"
                      THEN call.old \in {read(entries', call.from), read(entries', call.to)}
                      ELSE read(entries', call.to) \in {call.old, call.new}
    OBVIOUS
  <2>1. New
    BY RestartIsNew
  <2>2. call.from \in Names \ Shadowed /\ call.to \in Names \ Shadowed
    BY DEF IInv, CallOK
  <2>3. /\ read(entries', call.from) = Loaded(call.from)
        /\ read(entries', call.to) = Loaded(call.to)
    BY <2>1, <2>2, NewShows
  <2>4. IF call.kind = "rename"
        THEN call.old \in {Loaded(call.from), Loaded(call.to)}
        ELSE Loaded(call.to) \in {call.old, call.new}
    BY DEF IInv, CutSafe, Touched
  <2>5. QED
    BY <2>3, <2>4
<1>2. QED
  BY <1>1, MirrorInvariant, PTL DEF Spec, CutCallIsSafe

-----------------------------------------------------------------------------
(* The windows.  The window manager is Desktop; its invariant ties the list of  *)
(* windows to where in the frame the loop is: what follows the pointer, what    *)
(* asked to be closed and whom a pending force-quit is meant for.               *)
CONSTANTS Desktops, Pinnable, FirstDock, MAX_DOCK, MaxListed, MaxWindows, MaxBurst, MaxEvents
VARIABLES wins, desk, menu, dock, snap, btn, listed, kill, asked, pc, input, pace, opened, events

Wm == INSTANCE Desktop

WmConstants ==
  /\ \E d \in Desktops : \A e \in Desktops : d <= e
  /\ MAX_DOCK \in Nat /\ FirstDock \in Seq(Pinnable) /\ Len(FirstDock) <= MAX_DOCK
  /\ MaxListed \in Nat \ {0} /\ MaxWindows \in Nat

WindowSet ==
  [id : 0 .. MaxWindows, desk : Desktops, min : BOOLEAN, max : BOOLEAN,
   grab : {"none", "drag", "resize"}, monitor : BOOLEAN, sel : 0 .. (MaxListed - 1),
   quit : BOOLEAN]

(* The windows of the list have numbers of their own, given in turn.           *)
Placed ==
  /\ wins \in Seq(WindowSet)
  /\ \A i, j \in 1 .. Len(wins) : wins[i].id = wins[j].id => i = j
  /\ opened \in 0 .. MaxWindows
  /\ \A i \in 1 .. Len(wins) : wins[i].id <= opened

(* Everything else.                                                           *)
AroundTyped ==
  /\ desk \in Desktops
  /\ menu \in [start : BOOLEAN, ctx : BOOLEAN, item : Wm!Items \cup {"none"}, qs : BOOLEAN]
  /\ dock \in Seq(Pinnable) /\ Len(dock) <= MAX_DOCK
  /\ snap \in {"none", "half", "top"} /\ btn \in BOOLEAN
  /\ kill \in -1 .. (MaxListed - 1)
  /\ pc \in {"poll", "keys", "mouse", "off"}
  /\ input \in [keys : Seq(Wm!KeySet), left : BOOLEAN, right : BOOLEAN]
  /\ listed \in Seq(Int) /\ Len(listed) <= MaxListed

NoGrab == \A i \in 1 .. Len(wins) : wins[i].grab = "none"
OneGrab == \A i, j \in 1 .. Len(wins) : wins[i].grab # "none" /\ wins[j].grab # "none" => i = j
NoQuit == \A i \in 1 .. Len(wins) : ~wins[i].quit

(* A press that a frame has still to handle meets no window that is held.       *)
Hands ==
  /\ pc = "poll" /\ ~btn => NoGrab
  /\ pace = "slow" => OneGrab
  /\ pace = "slow" /\ pc \in {"keys", "mouse"} /\ input.left => NoGrab

(* When events come slowly, a frame has one at most, and none while a force-quit *)
(* is pending.                                                                *)
Quiet ==
  /\ pc # "keys" => input.keys = <<>>
  /\ pc = "poll" => ~input.left /\ ~input.right
  /\ pace = "slow" => /\ Len(input.keys) <= 1 /\ ~(input.left /\ input.right)
                      /\ input.keys # <<>> => ~input.left /\ ~input.right
  /\ pace = "slow" /\ kill >= 0 => input.keys = <<>> /\ ~input.left /\ ~input.right /\ NoQuit
  /\ pc \in {"poll", "mouse"} => NoQuit

(* The list that the monitor shows is the windows' while a key is waiting, and   *)
(* the row of a pending force-quit is the window's that it was asked for.        *)
Shown == [i \in 1 .. (IF Len(wins) < MaxListed THEN Len(wins) ELSE MaxListed) |-> wins[i].id]
Choice ==
  /\ pace = "slow" /\ pc = "keys" /\ input.keys # <<>> => kill < 0 /\ NoQuit /\ listed = Shown
  /\ pace = "slow" /\ kill >= 0 => asked = IF kill < Len(wins) THEN wins[kill + 1].id ELSE -1

WmInv == Placed /\ AroundTyped /\ Hands /\ Quiet /\ Choice /\ Wm!MenusExclusive

(* The windows of the next state are those of this one, in their order but for  *)
(* the last, and perhaps a new one.  None is held that was not, if "grab" is in K,  *)
(* and none asks to be closed that did not, if "quit" is.                      *)
Both == {"grab", "quit"}
Keeping(g, K) ==
  /\ \A k, l \in 1 .. Len(wins') : g[k] = g[l] => k = l
  /\ \A k, l \in 1 .. (Len(wins') - 1) : k < l => g[k] < g[l]
  /\ \A k \in 1 .. Len(wins') :
       /\ g[k] <= Len(wins) => wins'[k].id = wins[g[k]].id
       /\ g[k] > Len(wins) => wins'[k].id = opened + 1 /\ opened' = opened + 1
       /\ "grab" \in K /\ wins'[k].grab # "none" => g[k] <= Len(wins) /\ wins[g[k]].grab # "none"
       /\ "quit" \in K /\ wins'[k].quit => g[k] <= Len(wins) /\ wins[g[k]].quit
Moved(K) ==
  /\ wins' \in Seq(WindowSet)
  /\ opened' \in 0 .. MaxWindows /\ opened <= opened'
  /\ \E g \in [1 .. Len(wins') -> 1 .. (Len(wins) + 1)] : Keeping(g, K)

LEMMA MovedKeeps ==
  ASSUME NEW K, WmConstants, Placed, Moved(K)
  PROVE  /\ Placed' /\ Wm!TopOvertakes
         /\ "grab" \in K => (NoGrab => NoGrab') /\ (OneGrab => OneGrab')
         /\ "quit" \in K => (NoQuit => NoQuit')
<1>1. PICK g \in [1 .. Len(wins') -> 1 .. (Len(wins) + 1)] : Keeping(g, K)
  BY DEF Moved
<1>2. PICK n \in Nat, m \in Nat : n = Len(wins) /\ m = Len(wins')
  BY DEF Placed, Moved
<1>3. PICK t : t = wins'
  OBVIOUS
<1>4. /\ \A k \in 1 .. m : g[k] \in 1 .. (n + 1)
      /\ \A k, l \in 1 .. m : g[k] = g[l] => k = l
      /\ \A k, l \in 1 .. (m - 1) : k < l => g[k] < g[l]
  BY <1>1, <1>2 DEF Keeping
<1>5. \A k \in 1 .. m :
        /\ g[k] <= n => t[k].id = wins[g[k]].id
        /\ g[k] > n => t[k].id = opened + 1 /\ opened' = opened + 1
        /\ "grab" \in K /\ t[k].grab # "none" => g[k] <= n /\ wins[g[k]].grab # "none"
        /\ "quit" \in K /\ t[k].quit => g[k] <= n /\ wins[g[k]].quit
  BY <1>1, <1>2, <1>3 DEF Keeping
<1>6. /\ \A i, j \in 1 .. n : wins[i].id = wins[j].id => i = j
      /\ \A i \in 1 .. n : wins[i].id \in Int /\ wins[i].id <= opened
      /\ opened \in Int
  <2>1. \A i \in 1 .. n : wins[i] \in WindowSet
    BY <1>2 DEF Placed
  <2>2. \A w \in WindowSet : w.id \in Int
    BY DEF WindowSet, WmConstants
  <2>3. QED
    BY <1>2, <2>1, <2>2 DEF Placed, WmConstants
<1>7. opened' \in Int /\ opened' \in 0 .. MaxWindows /\ opened <= opened' /\ t \in Seq(WindowSet)
  BY <1>3 DEF Moved, WmConstants
<1>8. ASSUME NEW k \in 1 .. m, NEW l \in 1 .. m, t[k].id = t[l].id PROVE k = l
  <2>1. PICK a \in 1 .. (n + 1), b \in 1 .. (n + 1) : a = g[k] /\ b = g[l]
    BY <1>4
  <2>2. /\ a <= n => t[k].id = wins[a].id
        /\ a > n => t[k].id = opened + 1
        /\ b <= n => t[l].id = wins[b].id
        /\ b > n => t[l].id = opened + 1
    BY <1>5, <2>1
  <2>3. /\ a <= n => a \in 1 .. n /\ wins[a].id \in Int /\ wins[a].id <= opened
        /\ b <= n => b \in 1 .. n /\ wins[b].id \in Int /\ wins[b].id <= opened
    BY <1>6
  <2>4. a = b
    <3>1. CASE a > n
      BY <1>6, <1>8, <2>2, <2>3, <3>1
    <3>2. CASE b > n
      BY <1>6, <1>8, <2>2, <2>3, <3>2
    <3>3. CASE a <= n /\ b <= n
      BY <1>6, <1>8, <2>2, <2>3, <3>3
    <3>4. QED
      BY <3>1, <3>2, <3>3
  <2>5. QED
    BY <1>4, <2>1, <2>4
<1>9. ASSUME NEW k \in 1 .. m PROVE t[k].id <= opened'
  <2>1. PICK a \in 1 .. (n + 1) : a = g[k]
    BY <1>4
  <2>2. /\ a <= n => t[k].id = wins[a].id
        /\ a > n => t[k].id = opened + 1 /\ opened' = opened + 1
    BY <1>5, <2>1
  <2>3. a <= n => a \in 1 .. n /\ wins[a].id \in Int /\ wins[a].id <= opened
    BY <1>6
  <2>4. QED
    BY <1>6, <1>7, <2>2, <2>3
<1>10. Placed'
  BY <1>2, <1>3, <1>7, <1>8, <1>9 DEF Placed
<1>11. Wm!TopOvertakes
  <2>1. ASSUME NEW i \in 1 .. n, NEW j \in 1 .. n, NEW k \in 1 .. m, NEW l \in 1 .. m,
               i < j, t[k].id = wins[i].id, t[l].id = wins[j].id, l < k
        PROVE  k = m
    <3>1. PICK a \in 1 .. (n + 1), b \in 1 .. (n + 1) : a = g[k] /\ b = g[l]
      BY <1>4
    <3>2. /\ a <= n => t[k].id = wins[a].id
          /\ a > n => t[k].id = opened + 1
          /\ b <= n => t[l].id = wins[b].id
          /\ b > n => t[l].id = opened + 1
      BY <1>5, <3>1
    <3>3. /\ wins[i].id \in Int /\ wins[i].id <= opened
          /\ wins[j].id \in Int /\ wins[j].id <= opened
      BY <1>6
    <3>4. a <= n /\ b <= n
      BY <1>6, <2>1, <3>2, <3>3
    <3>5. a \in 1 .. n /\ b \in 1 .. n /\ wins[a].id = wins[i].id /\ wins[b].id = wins[j].id
      BY <2>1, <3>2, <3>4
    <3>6. a = i /\ b = j
      BY <1>6, <3>5
    <3>7. k < m => l < k /\ l \in 1 .. (m - 1) /\ k \in 1 .. (m - 1)
      BY <2>1
    <3>8. k < m => g[l] < g[k]
      BY <1>4, <3>7
    <3>9. QED
      BY <2>1, <3>1, <3>6, <3>8
  <2>2. QED
    BY <1>2, <1>3, <2>1 DEF Wm!TopOvertakes
<1>12. ASSUME "grab" \in K PROVE (NoGrab => NoGrab') /\ (OneGrab => OneGrab')
  <2>1. ASSUME NoGrab PROVE NoGrab'
    <3>1. \A k \in 1 .. m : t[k].grab = "none"
      BY <1>2, <1>4, <1>5, <1>12, <2>1 DEF NoGrab
    <3>2. QED
      BY <1>2, <1>3, <3>1 DEF NoGrab
  <2>2. ASSUME OneGrab PROVE OneGrab'
    <3>1. ASSUME NEW k \in 1 .. m, NEW l \in 1 .. m, t[k].grab # "none", t[l].grab # "none"
          PROVE  k = l
      <4>1. g[k] \in 1 .. n /\ wins[g[k]].grab # "none" /\ g[l] \in 1 .. n /\ wins[g[l]].grab # "none"
        BY <1>4, <1>5, <1>12, <3>1
      <4>2. g[k] = g[l]
        BY <1>2, <2>2, <4>1 DEF OneGrab
      <4>3. QED
        BY <1>4, <4>2
    <3>2. QED
      BY <1>2, <1>3, <3>1 DEF OneGrab
  <2>3. QED
    BY <2>1, <2>2
<1>13. ASSUME "quit" \in K, NoQuit PROVE NoQuit'
  <2>1. \A k \in 1 .. m : ~t[k].quit
    BY <1>2, <1>4, <1>5, <1>13 DEF NoQuit
  <2>2. QED
    BY <1>2, <1>3, <2>1 DEF NoQuit
<1>14. QED
  BY <1>10, <1>11, <1>12, <1>13

-----------------------------------------------------------------------------
(* The ways in which a step changes the list.                                  *)
LEMMA StillMoved ==
  ASSUME WmConstants, Placed, UNCHANGED <<wins, opened>>
  PROVE  Moved(Both)
<1>1. PICK n \in Nat : n = Len(wins)
  BY DEF Placed
<1>2. PICK g : g = [k \in 1 .. n |-> k]
  OBVIOUS
<1>3. g \in [1 .. Len(wins') -> 1 .. (Len(wins) + 1)] /\ \A k \in 1 .. n : g[k] = k
  BY <1>1, <1>2
<1>4. Keeping(g, Both)
  BY <1>1, <1>3 DEF Keeping
<1>5. QED
  BY <1>3, <1>4 DEF Moved, Placed, WmConstants

LEMMA OpenMoved ==
  ASSUME WmConstants, Placed, desk \in Desktops, NEW item, Wm!Open(item)
  PROVE  Moved(Both)
<1>1. CASE ~(opened < MaxWindows)
  BY <1>1, StillMoved DEF Wm!Open
<1>2. CASE opened < MaxWindows
  <2>1. PICK n \in Nat : n = Len(wins)
    BY DEF Placed
  <2>2. PICK w : w = Wm!Window(item)
    OBVIOUS
  <2>3. w \in WindowSet /\ w.id = opened + 1 /\ w.grab = "none" /\ ~w.quit
    <3>1. opened + 1 \in 0 .. MaxWindows /\ 0 \in 0 .. (MaxListed - 1)
      BY <1>2 DEF Placed, WmConstants
    <3>2. QED
      BY <2>2, <3>1 DEF Wm!Window, WindowSet
  <2>4. wins' = Append(wins, w) /\ opened' = opened + 1
    BY <1>2, <2>2 DEF Wm!Open
  <2>5. /\ wins' \in Seq(WindowSet) /\ Len(wins') = n + 1 /\ wins'[n + 1] = w
        /\ \A k \in 1 .. n : wins'[k] = wins[k]
    BY <2>1, <2>3, <2>4, AppendProperties DEF Placed
  <2>6. PICK g : g = [k \in 1 .. (n + 1) |-> k]
    OBVIOUS
  <2>7. g \in [1 .. Len(wins') -> 1 .. (Len(wins) + 1)] /\ \A k \in 1 .. (n + 1) : g[k] = k
    BY <2>1, <2>5, <2>6
  <2>8. Keeping(g, Both)
    BY <2>1, <2>3, <2>4, <2>5, <2>7 DEF Keeping
  <2>9. QED
    BY <1>2, <2>4, <2>5, <2>7, <2>8 DEF Moved, Placed, WmConstants
<1>3. QED
  BY <1>1, <1>2

LEMMA RemovedIs ==
  ASSUME NEW S, NEW s \in Seq(S), NEW i \in 1 .. Len(s)
  PROVE  /\ RemoveAt(s, i) \in Seq(S) /\ Len(RemoveAt(s, i)) = Len(s) - 1
         /\ \A k \in 1 .. (Len(s) - 1) :
              RemoveAt(s, i)[k] = s[IF k < i THEN k ELSE k + 1]
<1>1. PICK n \in Nat : n = Len(s)
  OBVIOUS
<1>2. PICK a, b : a = SubSeq(s, 1, i - 1) /\ b = SubSeq(s, i + 1, n)
  OBVIOUS
<1>3. /\ a \in Seq(S) /\ Len(a) = i - 1 /\ \A k \in 1 .. (i - 1) : a[k] = s[k]
      /\ b \in Seq(S) /\ Len(b) = n - i /\ \A k \in 1 .. (n - i) : b[k] = s[i + k]
  BY <1>1, <1>2
<1>4. RemoveAt(s, i) = a \o b
  BY <1>1, <1>2 DEF RemoveAt
<1>5. /\ a \o b \in Seq(S) /\ Len(a \o b) = n - 1
      /\ \A k \in 1 .. (n - 1) : (a \o b)[k] = IF k <= i - 1 THEN a[k] ELSE b[k - (i - 1)]
  <2>1. /\ a \o b \in Seq(S) /\ Len(a \o b) = Len(a) + Len(b)
        /\ \A k \in 1 .. (Len(a) + Len(b)) :
             (a \o b)[k] = IF k <= Len(a) THEN a[k] ELSE b[k - Len(a)]
    BY <1>3, ConcatProperties
  <2>2. Len(a) + Len(b) = n - 1
    BY <1>1, <1>3
  <2>3. QED
    BY <1>3, <2>1, <2>2
<1>6. ASSUME NEW k \in 1 .. (n - 1)
      PROVE  (a \o b)[k] = s[IF k < i THEN k ELSE k + 1]
  <2>1. i \in Int /\ k \in Int
    BY <1>1
  <2>2. CASE k < i
    BY <1>1, <1>3, <1>5, <2>1, <2>2
  <2>3. CASE ~(k < i)
    <3>1. (a \o b)[k] = b[k - (i - 1)] /\ k - (i - 1) \in 1 .. (n - i)
      BY <1>1, <1>5, <2>1, <2>3
    <3>2. b[k - (i - 1)] = s[i + (k - (i - 1))]
      BY <1>3, <3>1
    <3>3. i + (k - (i - 1)) = k + 1
      BY <1>1
    <3>4. QED
      BY <2>3, <3>1, <3>2, <3>3
  <2>4. QED
    BY <2>2, <2>3
<1>7. QED
  BY <1>1, <1>4, <1>5, <1>6

LEMMA RemoveMoved ==
  ASSUME WmConstants, Placed, NEW i \in 1 .. Len(wins), wins' = RemoveAt(wins, i), opened' = opened
  PROVE  Moved(Both)
<1>1. PICK n \in Nat : n = Len(wins)
  BY DEF Placed
<1>2. /\ wins' \in Seq(WindowSet) /\ Len(wins') = n - 1
      /\ \A k \in 1 .. (n - 1) : wins'[k] = wins[IF k < i THEN k ELSE k + 1]
  BY <1>1, RemovedIs DEF Placed
<1>3. PICK g : g = [k \in 1 .. (n - 1) |-> IF k < i THEN k ELSE k + 1]
  OBVIOUS
<1>4. /\ g \in [1 .. Len(wins') -> 1 .. (Len(wins) + 1)]
      /\ \A k \in 1 .. (n - 1) : g[k] = IF k < i THEN k ELSE k + 1
  BY <1>1, <1>2, <1>3
<1>5. \A k \in 1 .. (n - 1) : g[k] <= n /\ wins'[k] = wins[g[k]]
  BY <1>1, <1>2, <1>4
<1>6. /\ \A k, l \in 1 .. (n - 1) : g[k] = g[l] => k = l
      /\ \A k, l \in 1 .. (n - 1) : k < l => g[k] < g[l]
  <2>1. i \in Int
    BY <1>1
  <2>2. QED
    BY <1>4, <2>1
<1>7. PICK m, t : m \in Nat /\ m = n - 1 /\ t = wins'
  BY <1>1
<1>8. t \in Seq(WindowSet) /\ Len(t) = m /\ g \in [1 .. m -> 1 .. (n + 1)]
  BY <1>1, <1>2, <1>4, <1>7
<1>9. \A k \in 1 .. m : g[k] <= n /\ t[k] = wins[g[k]]
  BY <1>5, <1>7
<1>10. /\ \A k, l \in 1 .. m : g[k] = g[l] => k = l
       /\ \A k, l \in 1 .. (m - 1) : k < l => g[k] < g[l]
  BY <1>6, <1>7
<1>11. Keeping(g, Both)
  BY <1>1, <1>7, <1>8, <1>9, <1>10 DEF Keeping
<1>12. QED
  BY <1>1, <1>7, <1>8, <1>11 DEF Moved, Placed, WmConstants

(* A window w in the place of the one that is taken out, on top.              *)
LEMMA LiftMoved ==
  ASSUME NEW K, WmConstants, Placed, opened' = opened,
         NEW i \in 1 .. Len(wins), NEW w \in WindowSet,
         wins' = Append(RemoveAt(wins, i), w),
         w.id = wins[i].id, w.quit = wins[i].quit, "grab" \in K => w.grab = wins[i].grab
  PROVE  Moved(K)
<1>1. PICK n \in Nat : n = Len(wins)
  BY DEF Placed
<1>2. PICK u : u = RemoveAt(wins, i)
  OBVIOUS
<1>3. /\ u \in Seq(WindowSet) /\ Len(u) = n - 1
      /\ \A k \in 1 .. (n - 1) : u[k] = wins[IF k < i THEN k ELSE k + 1]
  BY <1>1, <1>2, RemovedIs DEF Placed
<1>4. /\ wins' \in Seq(WindowSet) /\ Len(wins') = n /\ wins'[n] = w
      /\ \A k \in 1 .. (n - 1) : wins'[k] = u[k]
  <2>1. wins' = Append(u, w)
    BY <1>2
  <2>2. n = Len(u) + 1
    BY <1>1, <1>3
  <2>3. QED
    BY <1>3, <2>1, <2>2, AppendProperties
<1>5. PICK g : g = [k \in 1 .. n |-> IF k = n THEN i ELSE IF k < i THEN k ELSE k + 1]
  OBVIOUS
<1>6. /\ g \in [1 .. Len(wins') -> 1 .. (Len(wins) + 1)] /\ g[n] = i
      /\ \A k \in 1 .. (n - 1) : g[k] = IF k < i THEN k ELSE k + 1
  BY <1>1, <1>4, <1>5
<1>7. \A k \in 1 .. (n - 1) : g[k] <= n /\ wins'[k] = wins[g[k]]
  BY <1>1, <1>3, <1>4, <1>6
<1>8. /\ \A k, l \in 1 .. n : g[k] = g[l] => k = l
      /\ \A k, l \in 1 .. (n - 1) : k < l => g[k] < g[l]
  <2>1. i \in 1 .. n
    BY <1>1
  <2>2. ASSUME NEW k \in 1 .. (n - 1), NEW l \in 1 .. (n - 1)
        PROVE  (g[k] = g[l] => k = l) /\ (k < l => g[k] < g[l]) /\ g[k] # i
    BY <1>6, <2>1, <2>2
  <2>3. \A k \in 1 .. n : k = n \/ k \in 1 .. (n - 1)
    OBVIOUS
  <2>4. QED
    BY <1>6, <2>2, <2>3
<1>9. \A k \in 1 .. n :
        /\ g[k] <= n /\ wins'[k].id = wins[g[k]].id
        /\ "grab" \in K => wins'[k].grab = wins[g[k]].grab
        /\ wins'[k].quit = wins[g[k]].quit
  <2>1. \A k \in 1 .. n : k = n \/ k \in 1 .. (n - 1)
    OBVIOUS
  <2>2. QED
    BY <1>1, <1>4, <1>6, <1>7, <2>1
<1>10. Keeping(g, K)
  BY <1>1, <1>4, <1>6, <1>8, <1>9 DEF Keeping
<1>11. QED
  BY <1>4, <1>6, <1>10 DEF Moved, Placed, WmConstants

(* Windows that stay where they are.                                          *)
LEMMA TouchMoved ==
  ASSUME NEW K, WmConstants, Placed, opened' = opened,
         wins' \in Seq(WindowSet), Len(wins') = Len(wins),
         \A k \in 1 .. Len(wins) :
           /\ wins'[k].id = wins[k].id
           /\ "grab" \in K /\ wins'[k].grab # "none" => wins[k].grab # "none"
           /\ "quit" \in K /\ wins'[k].quit => wins[k].quit
  PROVE  Moved(K)
<1>1. PICK n \in Nat : n = Len(wins)
  BY DEF Placed
<1>2. PICK g : g = [k \in 1 .. n |-> k]
  OBVIOUS
<1>3. g \in [1 .. Len(wins') -> 1 .. (Len(wins) + 1)] /\ \A k \in 1 .. n : g[k] = k
  BY <1>1, <1>2
<1>4. Keeping(g, K)
  BY <1>1, <1>3 DEF Keeping
<1>5. QED
  BY <1>3, <1>4 DEF Moved, Placed, WmConstants

(* What is retained of the first k windows.                                    *)
Filtered(t, W, k) ==
  /\ t \in Seq(WindowSet)
  /\ \E f \in [1 .. Len(t) -> 1 .. k] :
       /\ \A a \in 1 .. Len(t) : t[a] = wins[f[a]] /\ wins[f[a]] \in W
       /\ \A a, b \in 1 .. Len(t) : a < b => f[a] < f[b]
  /\ (\A i \in 1 .. k : wins[i] \in W) => Len(t) = k /\ \A i \in 1 .. k : t[i] = wins[i]

LEMMA FilteredStep ==
  ASSUME Placed, NEW W, NEW k \in Nat, k + 1 <= Len(wins), NEW t, Filtered(t, W, k)
  PROVE  Filtered(IF wins[k + 1] \in W THEN Append(t, wins[k + 1]) ELSE t, W, k + 1)
<1>0. PICK m \in Nat : m = Len(t)
  BY DEF Filtered
<1>1. PICK f \in [1 .. m -> 1 .. k] :
         /\ m = Len(t)
         /\ \A a \in 1 .. m : t[a] = wins[f[a]] /\ wins[f[a]] \in W
         /\ \A a, b \in 1 .. m : a < b => f[a] < f[b]
  BY <1>0 DEF Filtered
<1>2. PICK w \in WindowSet : w = wins[k + 1]
  <2>1. k + 1 \in 1 .. Len(wins)
    BY DEF Placed
  <2>2. QED
    BY <2>1 DEF Placed
<1>3. t \in Seq(WindowSet) /\ ((\A i \in 1 .. k : wins[i] \in W) => m = k /\ \A i \in 1 .. k : t[i] = wins[i])
  BY <1>1 DEF Filtered
<1>4. CASE w \notin W
  <2>1. f \in [1 .. m -> 1 .. (k + 1)]
    BY <1>1
  <2>2. ~(\A i \in 1 .. (k + 1) : wins[i] \in W)
    BY <1>2, <1>4
  <2>3. Filtered(t, W, k + 1)
    BY <1>1, <1>3, <2>1, <2>2 DEF Filtered
  <2>4. QED
    BY <1>2, <1>4, <2>3
<1>5. CASE w \in W
  <2>1. PICK u : u = Append(t, w)
    OBVIOUS
  <2>2. /\ u \in Seq(WindowSet) /\ Len(u) = m + 1 /\ u[m + 1] = w
        /\ \A a \in 1 .. m : u[a] = t[a]
    BY <1>1, <1>2, <1>3, <2>1, AppendProperties
  <2>3. PICK h : h = [a \in 1 .. (m + 1) |-> IF a = m + 1 THEN k + 1 ELSE f[a]]
    OBVIOUS
  <2>4. /\ h \in [1 .. (m + 1) -> 1 .. (k + 1)] /\ h[m + 1] = k + 1
        /\ \A a \in 1 .. m : h[a] = f[a] /\ f[a] \in 1 .. k
    BY <1>1, <2>3
  <2>5. \A a \in 1 .. (m + 1) : a = m + 1 \/ a \in 1 .. m
    OBVIOUS
  <2>6. \A a \in 1 .. (m + 1) : u[a] = wins[h[a]] /\ wins[h[a]] \in W
    BY <1>1, <1>2, <1>5, <2>2, <2>4, <2>5
  <2>7. \A a, b \in 1 .. (m + 1) : a < b => h[a] < h[b]
    <3>1. ASSUME NEW a \in 1 .. (m + 1), NEW b \in 1 .. (m + 1), a < b PROVE h[a] < h[b]
      <4>1. a \in 1 .. m
        BY <3>1
      <4>2. QED
        BY <1>1, <2>4, <2>5, <3>1, <4>1
    <3>2. QED
      BY <3>1
  <2>8. ASSUME \A i \in 1 .. (k + 1) : wins[i] \in W
        PROVE  m + 1 = k + 1 /\ \A i \in 1 .. (k + 1) : u[i] = wins[i]
    <3>1. m = k /\ \A i \in 1 .. k : t[i] = wins[i]
      BY <1>3, <2>8
    <3>2. QED
      BY <1>2, <2>2, <2>5, <3>1
  <2>9. Filtered(u, W, k + 1)
    BY <2>2, <2>4, <2>6, <2>7, <2>8 DEF Filtered
  <2>10. QED
    BY <1>2, <1>5, <2>1, <2>9
<1>6. QED
  BY <1>4, <1>5

LEMMA RetainedIs ==
  ASSUME Placed, NEW W
  PROVE  Filtered(Wm!Retained(W), W, Len(wins))
<1>1. PICK N \in Nat : N = Len(wins)
  BY DEF Placed
<1>2. PICK kept : kept = CHOOSE g : g = KeptBy(g, wins, W, Len(wins))
  OBVIOUS
<1>3. kept = KeptBy(kept, wins, W, N)
  BY <1>1, <1>2, KeptMade
<1>4. Wm!Retained(W) = kept[N]
  <2>1. Wm!Retained(W) = (CHOOSE g : g = KeptBy(g, wins, W, Len(wins)))[Len(wins)]
    BY DEF Wm!Retained, KeptBy
  <2>2. QED
    BY <1>1, <1>2, <2>1
<1>5. /\ kept[0] = <<>>
      /\ \A k \in 1 .. N : kept[k] = IF wins[k] \in W THEN Append(kept[k - 1], wins[k]) ELSE kept[k - 1]
  <2>1. 0 \in 0 .. N /\ \A k \in 1 .. N : k \in 0 .. N /\ k # 0
    OBVIOUS
  <2>2. \A k \in 0 .. N :
          kept[k] = IF k = 0 THEN <<>>
                    ELSE IF wins[k] \in W THEN Append(kept[k - 1], wins[k]) ELSE kept[k - 1]
    BY <1>3, Zenon DEF KeptBy
  <2>3. QED
    BY <2>1, <2>2
<1> DEFINE S == {k \in Nat : k <= N => Filtered(kept[k], W, k)}
<1>6. 0 \in S
  <2>1. PICK t : t = <<>>
    OBVIOUS
  <2>2. t \in Seq(WindowSet) /\ Len(t) = 0
    BY <2>1
  <2>3. PICK f : f = [a \in 1 .. 0 |-> a]
    OBVIOUS
  <2>4. f \in [1 .. Len(t) -> 1 .. 0] /\ \A a \in 1 .. Len(t) : FALSE
    BY <2>2, <2>3
  <2>5. \A i \in 1 .. 0 : t[i] = wins[i]
    OBVIOUS
  <2>6. Filtered(t, W, 0)
    BY <2>2, <2>4, <2>5 DEF Filtered
  <2>7. QED
    BY <1>5, <2>1, <2>6
<1>7. ASSUME NEW k \in S PROVE k + 1 \in S
  <2>1. k \in Nat /\ k + 1 \in Nat
    OBVIOUS
  <2>2. ASSUME k + 1 <= N PROVE Filtered(kept[k + 1], W, k + 1)
    <3>1. Filtered(kept[k], W, k) /\ k + 1 \in 1 .. N /\ (k + 1) - 1 = k
      BY <2>1, <2>2
    <3>2. kept[k + 1] = IF wins[k + 1] \in W THEN Append(kept[k], wins[k + 1]) ELSE kept[k]
      BY <1>5, <3>1
    <3>3. QED
      BY <1>1, <2>1, <2>2, <3>1, <3>2, FilteredStep
  <2>3. QED
    BY <2>1, <2>2
<1>8. S = Nat
  <2> HIDE DEF S
  <2>1. S \subseteq Nat
    BY DEF S
  <2>2. QED
    BY <1>6, <1>7, <2>1, NatSetInduction
<1>9. QED
  BY <1>1, <1>4, <1>8

(* What is retained is in W, and everything if all is in W.                    *)
LEMMA RetainMoved ==
  ASSUME WmConstants, Placed, NEW W, wins' = Wm!Retained(W), opened' = opened
  PROVE  /\ Moved(Both)
         /\ \A k \in 1 .. Len(wins') : wins'[k] \in W
         /\ (\A i \in 1 .. Len(wins) : wins[i] \in W) => wins' = wins
<1>1. PICK n, t : n \in Nat /\ n = Len(wins) /\ t = wins'
  BY DEF Placed
<1>2. Filtered(t, W, n)
  BY <1>1, RetainedIs
<1>0. PICK m \in Nat : m = Len(t)
  BY <1>2 DEF Filtered
<1>3. PICK f \in [1 .. m -> 1 .. n] :
         /\ m = Len(t)
         /\ \A a \in 1 .. m : t[a] = wins[f[a]] /\ wins[f[a]] \in W
         /\ \A a, b \in 1 .. m : a < b => f[a] < f[b]
  BY <1>0, <1>2 DEF Filtered
<1>4. t \in Seq(WindowSet) /\ f \in [1 .. m -> 1 .. (n + 1)]
  BY <1>1, <1>2, <1>3 DEF Filtered
<1>5. \A a, b \in 1 .. m : f[a] = f[b] => a = b
  <2>1. ASSUME NEW a \in 1 .. m, NEW b \in 1 .. m, f[a] = f[b] PROVE a = b
    <3>1. f[a] \in 1 .. n /\ f[b] \in 1 .. n
      BY <1>3
    <3>2. ~(a < b) /\ ~(b < a)
      BY <1>3, <2>1, <3>1
    <3>3. QED
      BY <3>2
  <2>2. QED
    BY <2>1
<1>6. \A a \in 1 .. m : f[a] <= n
  BY <1>3
<1>7. \A a, b \in 1 .. (m - 1) : a < b => f[a] < f[b]
  BY <1>3
<1>8. Keeping(f, Both)
  BY <1>1, <1>3, <1>5, <1>6, <1>7 DEF Keeping
<1>9. Moved(Both)
  BY <1>1, <1>3, <1>4, <1>8 DEF Moved, Placed, WmConstants
<1>10. ASSUME \A i \in 1 .. n : wins[i] \in W PROVE t = wins
  <2>1. m = n /\ \A i \in 1 .. n : t[i] = wins[i]
    BY <1>2, <1>3, <1>10 DEF Filtered
  <2>2. wins \in Seq(WindowSet)
    BY DEF Placed
  <2>3. QED
    BY <1>1, <1>3, <1>4, <2>1, <2>2, SeqEqual
<1>11. QED
  BY <1>1, <1>3, <1>9, <1>10

(* The highest of some positions.                                              *)
LEMMA HighestIs ==
  ASSUME NEW n \in Nat, NEW S \in SUBSET (1 .. n), S # {}
  PROVE  Wm!Highest(S) \in S /\ \A j \in S : j <= Wm!Highest(S)
<1>1. {n - i : i \in S} \in SUBSET Nat /\ {n - i : i \in S} # {}
  <2>1. \A i \in S : n - i \in Nat
    OBVIOUS
  <2>2. QED
    BY <2>1
<1>2. PICK x \in {n - i : i \in S} : \A y \in {n - i : i \in S} : x <= y
  BY <1>1, LeastNatural
<1>3. PICK i \in S : x = n - i
  BY <1>2
<1>4. \A j \in S : j <= i
  <2>1. ASSUME NEW j \in S PROVE j <= i
    <3>1. n - i <= n - j
      BY <1>2, <1>3
    <3>2. QED
      BY <3>1
  <2>2. QED
    BY <2>1
<1>5. QED
  BY <1>3, <1>4 DEF Wm!Highest

LEMMA TopIs ==
  ASSUME Placed, Wm!OnDesk # {}
  PROVE  Wm!Top \in 1 .. Len(wins) /\ Wm!Top \in Wm!OnDesk
<1>1. Len(wins) \in Nat /\ Wm!OnDesk \in SUBSET (1 .. Len(wins))
  BY DEF Placed, Wm!OnDesk
<1>2. QED
  BY <1>1, HighestIs DEF Wm!Top

-----------------------------------------------------------------------------
(* What every key and every click leaves to be shown.                           *)
ScreenTyped ==
  /\ desk \in Desktops
  /\ menu \in [start : BOOLEAN, ctx : BOOLEAN, item : Wm!Items \cup {"none"}, qs : BOOLEAN]
  /\ dock \in Seq(Pinnable) /\ Len(dock) <= MAX_DOCK
  /\ snap \in {"none", "half", "top"}

LEMMA KeyHolds ==
  ASSUME WmConstants, WmInv, NEW k, Wm!NextKey(k), NEW K, Moved(K), "grab" \in K,
         kill' \in -1 .. (MaxListed - 1),
         pace = "slow" /\ kill' >= 0 =>
           NoQuit' /\ asked' = IF kill' < Len(wins') THEN wins'[kill' + 1].id ELSE -1
  PROVE  WmInv' /\ Wm!TopOvertakes
<1>1. /\ Placed' /\ Wm!TopOvertakes
      /\ (NoGrab => NoGrab') /\ (OneGrab => OneGrab')
  BY MovedKeeps DEF WmInv
<1>2. /\ pc = "keys" /\ input.keys # <<>>
      /\ input' = [input EXCEPT !.keys = Tail(@)]
      /\ UNCHANGED <<desk, menu, dock, snap, btn, listed, pc, pace>>
  BY DEF Wm!NextKey
<1>3. /\ input.keys \in Seq(Wm!KeySet) /\ input.left \in BOOLEAN /\ input.right \in BOOLEAN
      /\ input \in [keys : Seq(Wm!KeySet), left : BOOLEAN, right : BOOLEAN]
  BY DEF WmInv, AroundTyped
<1>4. /\ Tail(input.keys) \in Seq(Wm!KeySet) /\ Len(Tail(input.keys)) = Len(input.keys) - 1
      /\ Len(input.keys) \in Nat \ {0}
  BY <1>2, <1>3, HeadTailProperties, EmptySeq
<1>5. /\ input'.keys = Tail(input.keys) /\ input'.left = input.left /\ input'.right = input.right
      /\ input' \in [keys : Seq(Wm!KeySet), left : BOOLEAN, right : BOOLEAN]
  BY <1>2, <1>3, <1>4
<1>6. pace = "slow" => input'.keys = <<>> /\ ~input'.left /\ ~input'.right
  <2>1. pace = "slow" => Len(input.keys) <= 1 /\ ~input.left /\ ~input.right
    BY <1>2 DEF WmInv, Quiet
  <2>2. ASSUME pace = "slow" PROVE Tail(input.keys) = <<>>
    <3>1. PICK a, b : a = Len(input.keys) /\ b = Len(Tail(input.keys))
      OBVIOUS
    <3>2. a \in Nat \ {0} /\ b = a - 1 /\ a <= 1
      BY <1>4, <2>1, <2>2, <3>1
    <3>3. QED
      BY <1>4, <3>1, <3>2, EmptySeq
  <2>3. QED
    BY <1>5, <2>1, <2>2
<1>7. AroundTyped'
  BY <1>2, <1>5 DEF WmInv, AroundTyped
<1>8. Hands'
  BY <1>1, <1>2, <1>6 DEF WmInv, Hands
<1>9. Quiet'
  <2>1. pace = "slow" => Len(input'.keys) <= 1
    BY <1>6
  <2>2. QED
    BY <1>2, <1>6, <2>1 DEF Quiet
<1>10. Choice'
  BY <1>2, <1>6 DEF Choice
<1>11. Wm!MenusExclusive'
  BY <1>2 DEF WmInv, Wm!MenusExclusive
<1>12. QED
  BY <1>1, <1>7, <1>8, <1>9, <1>10, <1>11 DEF WmInv

LEMMA ClickHolds ==
  ASSUME WmConstants, WmInv, Wm!Left, NEW K, Moved(K), "quit" \in K,
         pace = "slow" /\ "grab" \notin K => OneGrab',
         ScreenTyped', Wm!MenusExclusive'
  PROVE  WmInv' /\ Wm!TopOvertakes
<1>1. /\ Placed' /\ Wm!TopOvertakes /\ (NoQuit => NoQuit')
      /\ "grab" \in K => (OneGrab => OneGrab')
  BY MovedKeeps DEF WmInv
<1>2. /\ pc = "mouse" /\ input.left
      /\ input' = [input EXCEPT !.left = FALSE]
      /\ UNCHANGED <<btn, listed, kill, asked, pc, pace>>
  BY DEF Wm!Left
<1>3. input \in [keys : Seq(Wm!KeySet), left : BOOLEAN, right : BOOLEAN]
  BY DEF WmInv, AroundTyped
<1>4. /\ input'.keys = input.keys /\ ~input'.left /\ input'.right = input.right
      /\ input' \in [keys : Seq(Wm!KeySet), left : BOOLEAN, right : BOOLEAN]
  BY <1>2, <1>3
<1>5. input.keys = <<>> /\ NoQuit' /\ ~(pace = "slow" /\ kill >= 0)
  BY <1>1, <1>2 DEF WmInv, Quiet
<1>6. AroundTyped'
  BY <1>2, <1>4 DEF WmInv, AroundTyped, ScreenTyped
<1>7. Hands'
  BY <1>1, <1>2, <1>4 DEF WmInv, Hands
<1>8. Quiet'
  BY <1>2, <1>4, <1>5 DEF WmInv, Quiet
<1>9. Choice'
  BY <1>2, <1>5 DEF Choice
<1>10. QED
  BY <1>1, <1>6, <1>7, <1>8, <1>9 DEF WmInv

(* Most clicks are on a menu, open a window or take one away.                   *)
LEMMA PlainClickHolds ==
  ASSUME WmConstants, WmInv, Wm!Left, Moved(Both), ScreenTyped', Wm!MenusExclusive'
  PROVE  WmInv' /\ Wm!TopOvertakes
<1>1. PICK K : K = Both
  OBVIOUS
<1>2. "grab" \in K /\ "quit" \in K /\ Moved(K)
  BY <1>1 DEF Both
<1>3. QED
  BY <1>2, ClickHolds

-----------------------------------------------------------------------------
(* The keys.                                                                   *)
LEMMA OpenKeyHolds ==
  ASSUME WmConstants, WmInv, Wm!OpenKey
  PROVE  WmInv' /\ Wm!TopOvertakes
<1>1. PICK i : Wm!Open(i)
  BY DEF Wm!OpenKey
<1>2. Moved(Both)
  BY <1>1, OpenMoved DEF WmInv, AroundTyped
<1>3. Wm!NextKey("open") /\ kill' = kill
  BY DEF Wm!OpenKey
<1>4. ~(pace = "slow" /\ kill >= 0)
  BY <1>3 DEF WmInv, Quiet, Wm!NextKey
<1>5. "grab" \in Both
  BY DEF Both
<1>6. QED
  BY <1>2, <1>3, <1>4, <1>5, KeyHolds DEF WmInv, AroundTyped

LEMMA CloseKeyHolds ==
  ASSUME WmConstants, WmInv, Wm!CloseKey
  PROVE  WmInv' /\ Wm!TopOvertakes
<1>1. /\ Wm!NextKey("close") /\ kill' = kill /\ opened' = opened
      /\ wins' = (IF Wm!OnDesk = {} THEN wins ELSE RemoveAt(wins, Wm!Top))
  BY DEF Wm!CloseKey, Wm!RemoveAt, RemoveAt
<1>2. Moved(Both)
  <2>1. CASE Wm!OnDesk = {}
    BY <1>1, <2>1, StillMoved DEF WmInv
  <2>2. CASE Wm!OnDesk # {}
    BY <1>1, <2>2, TopIs, RemoveMoved DEF WmInv
  <2>3. QED
    BY <2>1, <2>2
<1>4. ~(pace = "slow" /\ kill >= 0)
  BY <1>1 DEF WmInv, Quiet, Wm!NextKey
<1>5. "grab" \in Both
  BY DEF Both
<1>6. QED
  BY <1>1, <1>2, <1>4, <1>5, KeyHolds DEF WmInv, AroundTyped

(* A change of one window's fields.                                            *)
LEMMA OneTouched ==
  ASSUME WmConstants, Placed, NEW K, NEW i \in 1 .. Len(wins), NEW w \in WindowSet,
         wins' = [wins EXCEPT ![i] = w], opened' = opened, w.id = wins[i].id,
         "grab" \in K => w.grab = wins[i].grab, "quit" \in K => w.quit = wins[i].quit
  PROVE  Moved(K)
<1>1. /\ wins' \in Seq(WindowSet) /\ Len(wins') = Len(wins) /\ wins'[i] = w
      /\ \A k \in 1 .. Len(wins) : k # i => wins'[k] = wins[k]
  BY ExceptSeq DEF Placed
<1>2. \A k \in 1 .. Len(wins) :
        /\ wins'[k].id = wins[k].id
        /\ "grab" \in K /\ wins'[k].grab # "none" => wins[k].grab # "none"
        /\ "quit" \in K /\ wins'[k].quit => wins[k].quit
  BY <1>1
<1>3. QED
  BY <1>1, <1>2, TouchMoved

LEMMA QuitKeyHolds ==
  ASSUME WmConstants, WmInv, Wm!QuitKey
  PROVE  WmInv' /\ Wm!TopOvertakes
<1>1. /\ Wm!NextKey("quit") /\ kill' = kill /\ opened' = opened
      /\ wins' = (IF Wm!OnDesk # {} /\ ~wins[Wm!Top].monitor
                    THEN [wins EXCEPT ![Wm!Top].quit = TRUE] ELSE wins)
  BY DEF Wm!QuitKey
<1>2. PICK K : K = {"grab"}
  OBVIOUS
<1>3. Moved(K)
  <2>1. CASE Wm!OnDesk # {} /\ ~wins[Wm!Top].monitor
    <3>1. PICK i \in 1 .. Len(wins) : i = Wm!Top
      BY <2>1, TopIs DEF WmInv
    <3>2. wins[i] \in WindowSet
      BY DEF WmInv, Placed
    <3>3. PICK w : w = [wins[i] EXCEPT !.quit = TRUE]
      OBVIOUS
    <3>4. w \in WindowSet /\ w.id = wins[i].id /\ w.grab = wins[i].grab
      BY <3>2, <3>3 DEF WindowSet
    <3>5. wins' = [wins EXCEPT ![i] = w]
      BY <1>1, <2>1, <3>1, <3>3
    <3>6. QED
      BY <1>1, <1>2, <3>4, <3>5, OneTouched DEF WmInv
  <2>2. CASE ~(Wm!OnDesk # {} /\ ~wins[Wm!Top].monitor)
    <3>1. wins' = wins /\ wins \in Seq(WindowSet)
      BY <1>1, <2>2 DEF WmInv, Placed
    <3>2. QED
      BY <1>1, <3>1, TouchMoved DEF WmInv
  <2>3. QED
    BY <2>1, <2>2
<1>4. ~(pace = "slow" /\ kill >= 0)
  BY <1>1 DEF WmInv, Quiet, Wm!NextKey
<1>5. QED
  BY <1>1, <1>2, <1>3, <1>4, KeyHolds DEF WmInv, AroundTyped

LEMMA MonitorKeyHolds ==
  ASSUME WmConstants, WmInv, NEW k, Wm!MonitorKey(k)
  PROVE  WmInv' /\ Wm!TopOvertakes
<1>1. Wm!NextKey(k) /\ opened' = opened
  BY DEF Wm!MonitorKey
<1>2. /\ ~(pace = "slow" /\ kill >= 0)
      /\ pace = "slow" => NoQuit /\ listed = Shown
      /\ kill \in -1 .. (MaxListed - 1) /\ Len(listed) <= MaxListed /\ Len(listed) \in Nat
      /\ MaxListed \in Nat
  BY <1>1 DEF WmInv, Quiet, Choice, Wm!NextKey, AroundTyped, WmConstants
<1>3. "grab" \in Both
  BY DEF Both
<1>4. CASE wins' = wins /\ kill' = kill
  <2>1. Moved(Both)
    BY <1>1, <1>4, StillMoved DEF WmInv
  <2>2. QED
    BY <1>1, <1>2, <1>3, <1>4, <2>1, KeyHolds
<1>5. CASE Wm!OnDesk # {} /\ wins[Wm!Top].monitor
  <2>1. PICK i \in 1 .. Len(wins) : i = Wm!Top
    BY <1>5, TopIs DEF WmInv
  <2>2. wins[i] \in WindowSet
    BY DEF WmInv, Placed
  <2>3. wins[i].sel \in 0 .. (MaxListed - 1)
    BY <2>2 DEF WindowSet
  <2>4. CASE \E s \in 0 .. (MaxListed - 1) : wins' = [wins EXCEPT ![i].sel = s] /\ kill' = kill
    <3>1. PICK s \in 0 .. (MaxListed - 1) : wins' = [wins EXCEPT ![i].sel = s] /\ kill' = kill
      BY <2>4
    <3>2. PICK w : w = [wins[i] EXCEPT !.sel = s]
      OBVIOUS
    <3>3. w \in WindowSet /\ w.id = wins[i].id /\ w.grab = wins[i].grab /\ w.quit = wins[i].quit
      BY <2>2, <3>2 DEF WindowSet
    <3>4. wins' = [wins EXCEPT ![i] = w]
      BY <3>1, <3>2
    <3>5. Moved(Both)
      BY <1>1, <3>3, <3>4, OneTouched DEF WmInv
    <3>6. QED
      BY <1>1, <1>2, <1>3, <3>1, <3>5, KeyHolds
  <2>5. CASE /\ kill' = wins[i].sel /\ wins' = wins
             /\ asked' = (IF wins[i].sel < Len(listed) THEN listed[wins[i].sel + 1] ELSE -1)
    <3>1. Moved(Both)
      BY <1>1, <2>5, StillMoved DEF WmInv
    <3>2. ASSUME pace = "slow"
          PROVE  NoQuit' /\ asked' = IF kill' < Len(wins') THEN wins'[kill' + 1].id ELSE -1
      <4>1. PICK n \in Nat, s \in 0 .. (MaxListed - 1) : n = Len(wins) /\ s = wins[i].sel
        BY <2>3 DEF WmInv, Placed
      <4>2. PICK L \in Nat : L = IF n < MaxListed THEN n ELSE MaxListed
        BY <1>2
      <4>3. listed = [a \in 1 .. L |-> wins[a].id]
        BY <1>2, <3>2, <4>1, <4>2 DEF Shown
      <4>4. Len(listed) = L
        BY <4>3
      <4>5. s < L <=> s < n
        BY <1>2, <4>1, <4>2
      <4>6. s < L => listed[s + 1] = wins[s + 1].id
        BY <4>1, <4>3
      <4>7. NoQuit'
        BY <1>2, <2>5, <3>2 DEF NoQuit
      <4>8. QED
        BY <2>5, <4>1, <4>4, <4>5, <4>6, <4>7
    <3>3. kill' \in -1 .. (MaxListed - 1)
      BY <1>2, <2>3, <2>5
    <3>4. QED
      BY <1>1, <1>3, <3>1, <3>2, <3>3, KeyHolds
  <2>6. \/ wins' = wins /\ kill' = kill
        \/ \E s \in 0 .. (MaxListed - 1) : wins' = [wins EXCEPT ![i].sel = s] /\ kill' = kill
        \/ /\ kill' = wins[i].sel /\ wins' = wins
           /\ asked' = (IF wins[i].sel < Len(listed) THEN listed[wins[i].sel + 1] ELSE -1)
    <3>1. PICK m : m = wins[i].sel
      OBVIOUS
    <3>2. /\ m > 0 => m - 1 \in 0 .. (MaxListed - 1)
          /\ m + 1 < Len(listed) => m + 1 \in 0 .. (MaxListed - 1)
      BY <1>2, <2>3, <3>1
    <3>3. \/ wins' = [wins EXCEPT ![i].sel = IF m > 0 THEN m - 1 ELSE m] /\ kill' = kill
          \/ wins' = [wins EXCEPT ![i].sel = IF m + 1 < Len(listed) THEN m + 1 ELSE m] /\ kill' = kill
          \/ wins' = wins /\ kill' = kill
          \/ /\ kill' = m /\ wins' = wins
             /\ asked' = (IF m < Len(listed) THEN listed[m + 1] ELSE -1)
      BY <1>5, <2>1, <3>1 DEF Wm!MonitorKey
    <3>4. (IF m > 0 THEN m - 1 ELSE m) \in 0 .. (MaxListed - 1)
      BY <2>3, <3>1, <3>2
    <3>5. (IF m + 1 < Len(listed) THEN m + 1 ELSE m) \in 0 .. (MaxListed - 1)
      BY <2>3, <3>1, <3>2
    <3>6. QED
      BY <3>1, <3>3, <3>4, <3>5
  <2>7. QED
    BY <1>4, <2>4, <2>5, <2>6
<1>6. CASE ~(Wm!OnDesk # {} /\ wins[Wm!Top].monitor)
  BY <1>4, <1>6 DEF Wm!MonitorKey
<1>7. QED
  BY <1>5, <1>6

LEMMA RetainHolds ==
  ASSUME WmConstants, WmInv, Wm!Retain
  PROVE  WmInv' /\ Wm!TopOvertakes
<1>1. PICK W : W = {w \in ToSet(wins) : ~w.quit}
  OBVIOUS
<1>2. /\ pc = "keys" /\ input.keys = <<>> /\ wins' = Wm!Retained(W)
      /\ pc' = "mouse" /\ listed' = <<>>
      /\ UNCHANGED <<desk, menu, dock, snap, btn, kill, asked, input, pace, opened>>
  BY <1>1 DEF Wm!Retain, Wm!ToSet, ToSet
<1>3. /\ Moved(Both) /\ \A k \in 1 .. Len(wins') : wins'[k] \in W
      /\ (\A i \in 1 .. Len(wins) : wins[i] \in W) => wins' = wins
  BY <1>2, RetainMoved DEF WmInv
<1>4. /\ Placed' /\ Wm!TopOvertakes
      /\ (NoGrab => NoGrab') /\ (OneGrab => OneGrab')
  BY <1>3, MovedKeeps DEF WmInv, Both
<1>5. NoQuit'
  BY <1>1, <1>3 DEF NoQuit
<1>6. NoQuit => wins' = wins
  <2>1. DOMAIN wins = 1 .. Len(wins)
    BY DEF WmInv, Placed
  <2>2. NoQuit => \A i \in 1 .. Len(wins) : wins[i] \in W
    BY <1>1, <2>1 DEF NoQuit, ToSet
  <2>3. QED
    BY <1>3, <2>2
<1>7. AroundTyped'
  <2>1. <<>> \in Seq(Int) /\ Len(<<>>) <= MaxListed
    BY DEF WmConstants
  <2>2. QED
    BY <1>2, <2>1 DEF WmInv, AroundTyped
<1>8. Hands'
  BY <1>2, <1>4 DEF WmInv, Hands
<1>9. Quiet'
  BY <1>2, <1>5 DEF WmInv, Quiet
<1>10. Choice'
  <2>1. pace = "slow" /\ kill >= 0 => wins' = wins
    BY <1>6 DEF WmInv, Quiet
  <2>2. QED
    BY <1>2, <2>1 DEF WmInv, Choice
<1>11. Wm!MenusExclusive'
  BY <1>2 DEF WmInv, Wm!MenusExclusive
<1>12. QED
  BY <1>4, <1>7, <1>8, <1>9, <1>10, <1>11 DEF WmInv

-----------------------------------------------------------------------------
(* The clicks.                                                                 *)
LEMMA RightClickHolds ==
  ASSUME WmConstants, WmInv, Wm!RightClick
  PROVE  WmInv' /\ Wm!TopOvertakes
<1>1. /\ pc = "mouse" /\ input' = [input EXCEPT !.right = FALSE]
      /\ UNCHANGED <<wins, desk, dock, snap, btn, listed, kill, asked, pc, pace, opened>>
  BY DEF Wm!RightClick
<1>2. /\ input \in [keys : Seq(Wm!KeySet), left : BOOLEAN, right : BOOLEAN]
      /\ menu \in [start : BOOLEAN, ctx : BOOLEAN, item : Wm!Items \cup {"none"}, qs : BOOLEAN]
  BY DEF WmInv, AroundTyped
<1>3. /\ input'.keys = input.keys /\ input'.left = input.left /\ ~input'.right
      /\ input' \in [keys : Seq(Wm!KeySet), left : BOOLEAN, right : BOOLEAN]
  BY <1>1, <1>2
<1>4. menu' \in [start : BOOLEAN, ctx : BOOLEAN, item : Wm!Items \cup {"none"}, qs : BOOLEAN]
      /\ Wm!MenusExclusive'
  <2>1. CASE menu.item # "none" /\ menu' = [menu EXCEPT !.item = "none"]
    BY <1>2, <2>1 DEF WmInv, Wm!MenusExclusive
  <2>2. CASE menu.start /\ \E i \in Wm!Items : menu' = [menu EXCEPT !.item = i]
    BY <1>2, <2>2 DEF WmInv, Wm!MenusExclusive
  <2>3. CASE menu' = menu \/ menu' = [menu EXCEPT !.start = FALSE]
    BY <1>2, <2>3 DEF WmInv, Wm!MenusExclusive
  <2>4. CASE /\ menu.item = "none" /\ ~menu.start
             /\ \E bare \in BOOLEAN : menu' = [menu EXCEPT !.ctx = ~menu.ctx /\ bare]
    <3>1. PICK bare \in BOOLEAN : menu' = [menu EXCEPT !.ctx = ~menu.ctx /\ bare]
      BY <2>4
    <3>2. PICK c \in BOOLEAN : menu' = [menu EXCEPT !.ctx = c]
      BY <3>1
    <3>3. QED
      BY <1>2, <2>4, <3>2 DEF WmInv, Wm!MenusExclusive
  <2>5. QED
    BY <2>1, <2>2, <2>3, <2>4 DEF Wm!RightClick
<1>5. Moved(Both)
  BY <1>1, StillMoved DEF WmInv
<1>6. Placed' /\ Wm!TopOvertakes
  BY <1>5, MovedKeeps DEF WmInv
<1>7. (NoGrab => NoGrab') /\ (OneGrab => OneGrab') /\ (NoQuit => NoQuit')
  BY <1>1 DEF NoGrab, OneGrab, NoQuit
<1>8. AroundTyped'
  BY <1>1, <1>3, <1>4 DEF WmInv, AroundTyped
<1>9. Hands'
  BY <1>1, <1>3, <1>7 DEF WmInv, Hands
<1>10. Quiet'
  BY <1>1, <1>3, <1>7 DEF WmInv, Quiet
<1>11. Choice'
  BY <1>1, <1>3 DEF WmInv, Choice
<1>12. QED
  BY <1>4, <1>6, <1>8, <1>9, <1>10, <1>11 DEF WmInv

LEMMA DotHolds ==
  ASSUME WmConstants, WmInv, NEW d \in Desktops, Wm!ClickDot(d)
  PROVE  WmInv' /\ Wm!TopOvertakes
<1>1. /\ Wm!Left /\ desk' = d /\ snap' = (IF d # desk THEN "none" ELSE snap)
      /\ UNCHANGED <<wins, menu, dock, opened>>
  BY DEF Wm!ClickDot
<1>2. Moved(Both)
  BY <1>1, StillMoved DEF WmInv
<1>3. ScreenTyped' /\ Wm!MenusExclusive'
  BY <1>1 DEF WmInv, AroundTyped, ScreenTyped, Wm!MenusExclusive
<1>4. QED
  BY <1>1, <1>2, <1>3, PlainClickHolds

LEMMA TrayHolds ==
  ASSUME WmConstants, WmInv, Wm!ClickTray
  PROVE  WmInv' /\ Wm!TopOvertakes
<1>1. /\ Wm!Left /\ menu' = [menu EXCEPT !.qs = ~menu.qs, !.ctx = FALSE, !.start = FALSE]
      /\ UNCHANGED <<wins, desk, dock, snap, opened>>
  BY DEF Wm!ClickTray
<1>2. Moved(Both)
  BY <1>1, StillMoved DEF WmInv
<1>3. ScreenTyped' /\ Wm!MenusExclusive'
  BY <1>1 DEF WmInv, AroundTyped, ScreenTyped, Wm!MenusExclusive
<1>4. QED
  BY <1>1, <1>2, <1>3, PlainClickHolds

LEMMA PanelHolds ==
  ASSUME WmConstants, WmInv, Wm!ClickPanel
  PROVE  WmInv' /\ Wm!TopOvertakes
<1>1. PICK inside \in BOOLEAN : menu' = [menu EXCEPT !.qs = inside]
  BY DEF Wm!ClickPanel
<1>2. Wm!Left /\ menu.qs /\ UNCHANGED <<wins, desk, dock, snap, opened>>
  BY DEF Wm!ClickPanel
<1>3. Moved(Both)
  BY <1>2, StillMoved DEF WmInv
<1>4. ScreenTyped' /\ Wm!MenusExclusive'
  BY <1>1, <1>2 DEF WmInv, AroundTyped, ScreenTyped, Wm!MenusExclusive
<1>5. QED
  BY <1>2, <1>3, <1>4, PlainClickHolds

(* Every window of the desktop is hidden.                                      *)
LEMMA ShownMoved ==
  ASSUME WmConstants, Placed, Wm!ShowDesktop, opened' = opened
  PROVE  Moved(Both)
<1>1. PICK n \in Nat : n = Len(wins)
  BY DEF Placed
<1>2. PICK t : t = wins'
  OBVIOUS
<1>3. t = [i \in 1 .. n |-> IF i \in Wm!OnDesk THEN [wins[i] EXCEPT !.min = TRUE] ELSE wins[i]]
  BY <1>1, <1>2 DEF Wm!ShowDesktop
<1>4. \A i \in 1 .. n : wins[i] \in WindowSet
  BY <1>1 DEF Placed
<1>5. ASSUME NEW i \in 1 .. n
      PROVE  t[i] \in WindowSet /\ t[i].id = wins[i].id /\ t[i].grab = wins[i].grab /\ t[i].quit = wins[i].quit
  <2>1. PICK w : w = [wins[i] EXCEPT !.min = TRUE]
    OBVIOUS
  <2>2. w \in WindowSet /\ w.id = wins[i].id /\ w.grab = wins[i].grab /\ w.quit = wins[i].quit
    BY <1>4, <2>1 DEF WindowSet
  <2>3. t[i] = w \/ t[i] = wins[i]
    BY <1>3, <2>1
  <2>4. QED
    BY <1>4, <2>2, <2>3
<1>6. t \in Seq(WindowSet) /\ Len(t) = n
  <2>1. t \in [1 .. n -> WindowSet]
    BY <1>3, <1>5
  <2>2. QED
    BY <2>1
<1>7. QED
  BY <1>1, <1>2, <1>5, <1>6, TouchMoved

LEMMA CtxHolds ==
  ASSUME WmConstants, WmInv, Wm!ClickCtx
  PROVE  WmInv' /\ Wm!TopOvertakes
<1>1. /\ Wm!Left /\ menu.ctx /\ menu' = [menu EXCEPT !.ctx = FALSE]
      /\ UNCHANGED <<desk, dock, snap>>
  BY DEF Wm!ClickCtx
<1>2. PICK W : W = {w \in ToSet(wins) : w.desk # desk}
  OBVIOUS
<1>3. \/ \E i \in Pinnable : Wm!Open(i)
      \/ Wm!ShowDesktop /\ opened' = opened
      \/ wins' = Wm!Retained(W) /\ opened' = opened
      \/ UNCHANGED <<wins, opened>>
  BY <1>2 DEF Wm!ClickCtx, Wm!ToSet, ToSet
<1>4. Moved(Both)
  <2>1. CASE \E i \in Pinnable : Wm!Open(i)
    BY <2>1, OpenMoved DEF WmInv, AroundTyped
  <2>2. CASE Wm!ShowDesktop /\ opened' = opened
    BY <2>2, ShownMoved DEF WmInv
  <2>3. CASE wins' = Wm!Retained(W) /\ opened' = opened
    BY <2>3, RetainMoved DEF WmInv
  <2>4. CASE UNCHANGED <<wins, opened>>
    BY <2>4, StillMoved DEF WmInv
  <2>5. QED
    BY <1>3, <2>1, <2>2, <2>3, <2>4
<1>5. ScreenTyped' /\ Wm!MenusExclusive'
  BY <1>1 DEF WmInv, AroundTyped, ScreenTyped, Wm!MenusExclusive
<1>6. QED
  BY <1>1, <1>4, <1>5, PlainClickHolds

LEMMA ItemMenuHolds ==
  ASSUME WmConstants, WmInv, Wm!ClickItemMenu
  PROVE  WmInv' /\ Wm!TopOvertakes
<1>1. Wm!Left /\ menu.item # "none" /\ UNCHANGED <<desk, snap>>
  BY DEF Wm!ClickItemMenu
<1>2. PICK i : i = menu.item
  OBVIOUS
<1>3. /\ Wm!Open(i) \/ UNCHANGED <<wins, opened>>
      /\ Wm!Pin(i) \/ dock' = dock
      /\ \/ menu' = [menu EXCEPT !.item = "none", !.start = FALSE]
         \/ menu' = [menu EXCEPT !.item = "none"]
  BY <1>2 DEF Wm!ClickItemMenu
<1>4. Moved(Both)
  <2>1. CASE Wm!Open(i)
    BY <2>1, OpenMoved DEF WmInv, AroundTyped
  <2>2. CASE UNCHANGED <<wins, opened>>
    BY <2>2, StillMoved DEF WmInv
  <2>3. QED
    BY <1>3, <2>1, <2>2
<1>5. dock' \in Seq(Pinnable) /\ Len(dock') <= MAX_DOCK
  <2>1. dock \in Seq(Pinnable) /\ Len(dock) <= MAX_DOCK /\ MAX_DOCK \in Nat
    BY DEF WmInv, AroundTyped, WmConstants
  <2>2. CASE dock' = dock
    BY <2>1, <2>2
  <2>3. CASE i \in Pinnable /\ Len(dock) < MAX_DOCK /\ dock' = Append(dock, i)
    <3>1. dock' \in Seq(Pinnable) /\ Len(dock') = Len(dock) + 1 /\ Len(dock) \in Nat
      BY <2>1, <2>3, AppendProperties
    <3>2. QED
      BY <2>1, <2>3, <3>1
  <2>4. QED
    BY <1>3, <2>2, <2>3 DEF Wm!Pin
<1>6. ScreenTyped' /\ Wm!MenusExclusive'
  BY <1>1, <1>3, <1>5 DEF WmInv, AroundTyped, ScreenTyped, Wm!MenusExclusive
<1>7. QED
  BY <1>1, <1>4, <1>6, PlainClickHolds

LEMMA StartHolds ==
  ASSUME WmConstants, WmInv, Wm!ClickStart
  PROVE  WmInv' /\ Wm!TopOvertakes
<1>1. Wm!Left /\ UNCHANGED <<desk, dock, snap>>
  BY DEF Wm!ClickStart
<1>2. /\ (\E i \in Wm!Items : Wm!Open(i)) \/ UNCHANGED <<wins, opened>>
      /\ menu' = menu \/ menu' = [menu EXCEPT !.start = FALSE]
  BY DEF Wm!ClickStart
<1>3. Moved(Both)
  <2>1. CASE \E i \in Wm!Items : Wm!Open(i)
    BY <2>1, OpenMoved DEF WmInv, AroundTyped
  <2>2. CASE UNCHANGED <<wins, opened>>
    BY <2>2, StillMoved DEF WmInv
  <2>3. QED
    BY <1>2, <2>1, <2>2
<1>4. ScreenTyped' /\ Wm!MenusExclusive'
  BY <1>1, <1>2 DEF WmInv, AroundTyped, ScreenTyped, Wm!MenusExclusive
<1>5. QED
  BY <1>1, <1>3, <1>4, PlainClickHolds

LEMMA ShutDownHolds ==
  ASSUME WmConstants, WmInv, Wm!ShutDown
  PROVE  WmInv' /\ Wm!TopOvertakes
<1>1. /\ pc = "mouse" /\ input.left /\ pc' = "off"
      /\ UNCHANGED <<wins, desk, menu, dock, snap, kill, asked, opened, btn, listed, input, pace>>
  BY DEF Wm!ShutDown, Wm!screen
<1>2. Moved(Both)
  BY <1>1, StillMoved DEF WmInv
<1>3. Placed' /\ Wm!TopOvertakes
  BY <1>2, MovedKeeps DEF WmInv
<1>4. AroundTyped'
  BY <1>1 DEF WmInv, AroundTyped
<1>5. Hands'
  BY <1>1 DEF WmInv, Hands, NoGrab, OneGrab
<1>6. Quiet'
  BY <1>1 DEF WmInv, Quiet, NoQuit
<1>7. Choice'
  BY <1>1 DEF WmInv, Choice
<1>8. Wm!MenusExclusive'
  BY <1>1 DEF WmInv, Wm!MenusExclusive
<1>9. QED
  BY <1>3, <1>4, <1>5, <1>6, <1>7, <1>8 DEF WmInv

LEMMA DingirHolds ==
  ASSUME WmConstants, WmInv, Wm!ClickDingir
  PROVE  WmInv' /\ Wm!TopOvertakes
<1>1. /\ Wm!Left /\ ~menu.qs /\ ~menu.ctx /\ menu' = [menu EXCEPT !.start = TRUE]
      /\ UNCHANGED <<wins, desk, dock, snap, opened>>
  BY DEF Wm!ClickDingir, Wm!NoMenu
<1>2. Moved(Both)
  BY <1>1, StillMoved DEF WmInv
<1>3. ScreenTyped' /\ Wm!MenusExclusive'
  BY <1>1 DEF WmInv, AroundTyped, ScreenTyped, Wm!MenusExclusive
<1>4. QED
  BY <1>1, <1>2, <1>3, PlainClickHolds

LEMMA BareHolds ==
  ASSUME WmConstants, WmInv, Wm!ClickBare
  PROVE  WmInv' /\ Wm!TopOvertakes
<1>1. Wm!Left /\ UNCHANGED <<desk, menu, dock, snap>>
  BY DEF Wm!ClickBare
<1>2. \/ Wm!ShowDesktop /\ opened' = opened
      \/ \E i \in Wm!OnDesk :
           wins' = Append(RemoveAt(wins, i), [wins[i] EXCEPT !.min = FALSE]) /\ opened' = opened
      \/ \E i : Wm!Open(i)
      \/ UNCHANGED <<wins, opened>>
  BY DEF Wm!ClickBare, Wm!RemoveAt, RemoveAt
<1>3. Moved(Both)
  <2>1. CASE Wm!ShowDesktop /\ opened' = opened
    BY <2>1, ShownMoved DEF WmInv
  <2>2. CASE \E i \in Wm!OnDesk :
               wins' = Append(RemoveAt(wins, i), [wins[i] EXCEPT !.min = FALSE]) /\ opened' = opened
    <3>1. PICK i \in 1 .. Len(wins) :
            wins' = Append(RemoveAt(wins, i), [wins[i] EXCEPT !.min = FALSE]) /\ opened' = opened
      BY <2>2 DEF Wm!OnDesk
    <3>2. PICK w : w = [wins[i] EXCEPT !.min = FALSE]
      OBVIOUS
    <3>3. wins[i] \in WindowSet
      BY DEF WmInv, Placed
    <3>4. w \in WindowSet /\ w.id = wins[i].id /\ w.grab = wins[i].grab /\ w.quit = wins[i].quit
      BY <3>2, <3>3 DEF WindowSet
    <3>5. QED
      BY <3>1, <3>2, <3>4, LiftMoved DEF WmInv
  <2>3. CASE \E i : Wm!Open(i)
    BY <2>3, OpenMoved DEF WmInv, AroundTyped
  <2>4. CASE UNCHANGED <<wins, opened>>
    BY <2>4, StillMoved DEF WmInv
  <2>5. QED
    BY <1>2, <2>1, <2>2, <2>3, <2>4
<1>4. ScreenTyped' /\ Wm!MenusExclusive'
  BY <1>1 DEF WmInv, AroundTyped, ScreenTyped, Wm!MenusExclusive
<1>5. QED
  BY <1>1, <1>3, <1>4, PlainClickHolds

(* A click on a window: raised or not, it is the last of the list that is changed. *)
LEMMA WindowHolds ==
  ASSUME WmConstants, WmInv, NEW hi, NEW part \in Wm!Parts, Wm!ClickWindow(hi, part)
  PROVE  WmInv' /\ Wm!TopOvertakes
<1>1. /\ Wm!Left /\ hi \in 1 .. Len(wins)
      /\ UNCHANGED <<desk, menu, dock, snap, opened>>
  BY DEF Wm!ClickWindow, Wm!OnDesk
<1>2. PICK n \in Nat : n = Len(wins)
  BY DEF WmInv, Placed
<1>3. wins \in Seq(WindowSet) /\ wins[hi] \in WindowSet
  BY <1>1 DEF WmInv, Placed
<1>4. PICK raised : raised = IF hi # Wm!Top THEN Append(RemoveAt(wins, hi), wins[hi]) ELSE wins
  OBVIOUS
<1>5. /\ raised \in Seq(WindowSet) /\ Len(raised) = n
      /\ raised # wins => /\ raised = Append(RemoveAt(wins, hi), wins[hi])
                          /\ RemoveAt(wins, hi) \in Seq(WindowSet) /\ Len(RemoveAt(wins, hi)) = n - 1
                          /\ raised[n] = wins[hi]
                          /\ \A k \in 1 .. (n - 1) : raised[k] = RemoveAt(wins, hi)[k]
  <2>1. PICK u : u = RemoveAt(wins, hi)
    OBVIOUS
  <2>2. u \in Seq(WindowSet) /\ Len(u) = n - 1
    BY <1>1, <1>2, <1>3, <2>1, RemovedIs
  <2>3. PICK v, w : v = Append(u, w) /\ w = wins[hi]
    OBVIOUS
  <2>4. v \in Seq(WindowSet) /\ Len(v) = n /\ v[n] = w /\ \A k \in 1 .. (n - 1) : v[k] = u[k]
    BY <1>2, <1>3, <2>2, <2>3, AppendProperties
  <2>5. raised = v \/ raised = wins
    BY <1>4, <2>1, <2>3
  <2>6. QED
    BY <1>2, <1>3, <2>1, <2>2, <2>3, <2>4, <2>5
<1>6. n \in 1 .. n /\ raised[n] \in WindowSet
  BY <1>1, <1>2, <1>5
<1>7. wins' = (CASE part = "close" -> RemoveAt(raised, n)
                 [] part = "min" -> [raised EXCEPT ![n].min = TRUE]
                 [] part = "max" -> [raised EXCEPT ![n].max = ~@]
                 [] part = "corner" -> [raised EXCEPT ![n].grab = "resize"]
                 [] part = "title" -> [raised EXCEPT ![n].grab = "drag"]
                 [] part = "body" -> raised)
  BY <1>4, <1>5 DEF Wm!ClickWindow, Wm!RemoveAt, RemoveAt
<1>8. ScreenTyped' /\ Wm!MenusExclusive'
  BY <1>1 DEF WmInv, AroundTyped, ScreenTyped, Wm!MenusExclusive
<1>9. CASE part = "close"
  <2>1. wins' = RemoveAt(raised, n)
    BY <1>7, <1>9
  <2>2. Moved(Both)
    <3>1. CASE raised = wins
      BY <1>1, <1>2, <1>6, <2>1, <3>1, RemoveMoved DEF WmInv
    <3>2. CASE raised # wins
      <4>1. PICK u, t : u = RemoveAt(wins, hi) /\ t = RemoveAt(raised, n)
        OBVIOUS
      <4>2. /\ t \in Seq(WindowSet) /\ Len(t) = n - 1
            /\ \A k \in 1 .. (n - 1) : t[k] = raised[IF k < n THEN k ELSE k + 1]
        BY <1>2, <1>5, <1>6, <4>1, RemovedIs
      <4>3. u \in Seq(WindowSet) /\ Len(u) = n - 1 /\ \A k \in 1 .. (n - 1) : raised[k] = u[k]
        BY <1>5, <3>2, <4>1
      <4>4. \A k \in 1 .. (n - 1) : t[k] = u[k]
        BY <4>2, <4>3
      <4>5. t = u
        BY <4>2, <4>3, <4>4, SeqEqual
      <4>6. QED
        BY <1>1, <2>1, <4>1, <4>5, RemoveMoved DEF WmInv
    <3>3. QED
      BY <3>1, <3>2
  <2>3. QED
    BY <1>1, <1>8, <2>2, PlainClickHolds
<1>10. CASE part # "close"
  <2>1. PICK w : /\ w \in WindowSet /\ w.id = raised[n].id /\ w.quit = raised[n].quit
                 /\ w.grab = raised[n].grab \/ w.grab \in {"drag", "resize"}
                 /\ wins' = [raised EXCEPT ![n] = w]
    <3>1. PICK v : v = raised[n]
      OBVIOUS
    <3>2. v \in WindowSet
      BY <1>6, <3>1
    <3>3. CASE part = "min"
      <4>1. PICK w : w = [v EXCEPT !.min = TRUE]
        OBVIOUS
      <4>2. w \in WindowSet /\ w.id = v.id /\ w.quit = v.quit /\ w.grab = v.grab
        BY <3>2, <4>1 DEF WindowSet
      <4>3. wins' = [raised EXCEPT ![n] = w]
        BY <1>7, <3>1, <3>3, <4>1
      <4>4. QED
        BY <3>1, <4>2, <4>3
    <3>4. CASE part = "max"
      <4>1. PICK w : w = [v EXCEPT !.max = ~@]
        OBVIOUS
      <4>2. w \in WindowSet /\ w.id = v.id /\ w.quit = v.quit /\ w.grab = v.grab
        BY <3>2, <4>1 DEF WindowSet
      <4>3. wins' = [raised EXCEPT ![n] = w]
        BY <1>7, <3>1, <3>4, <4>1
      <4>4. QED
        BY <3>1, <4>2, <4>3
    <3>5. CASE part = "corner"
      <4>1. PICK w : w = [v EXCEPT !.grab = "resize"]
        OBVIOUS
      <4>2. w \in WindowSet /\ w.id = v.id /\ w.quit = v.quit /\ w.grab = "resize"
        BY <3>2, <4>1 DEF WindowSet
      <4>3. wins' = [raised EXCEPT ![n] = w]
        BY <1>7, <3>1, <3>5, <4>1
      <4>4. QED
        BY <3>1, <4>2, <4>3
    <3>6. CASE part = "title"
      <4>1. PICK w : w = [v EXCEPT !.grab = "drag"]
        OBVIOUS
      <4>2. w \in WindowSet /\ w.id = v.id /\ w.quit = v.quit /\ w.grab = "drag"
        BY <3>2, <4>1 DEF WindowSet
      <4>3. wins' = [raised EXCEPT ![n] = w]
        BY <1>7, <3>1, <3>6, <4>1
      <4>4. QED
        BY <3>1, <4>2, <4>3
    <3>7. CASE part = "body"
      <4>1. wins' = raised
        BY <1>7, <3>7
      <4>2. raised = [raised EXCEPT ![n] = v]
        BY <1>5, <3>1
      <4>3. QED
        BY <3>1, <3>2, <4>1, <4>2
    <3>8. QED
      BY <1>10, <3>3, <3>4, <3>5, <3>6, <3>7 DEF Wm!Parts
  <2>2. /\ Len(wins') = n /\ wins'[n] = w /\ \A k \in 1 .. (n - 1) : wins'[k] = raised[k]
    <3>1. /\ Len(wins') = n /\ wins'[n] = w
          /\ \A k \in 1 .. n : k # n => wins'[k] = raised[k]
      BY <1>5, <1>6, <2>1, ExceptSeq
    <3>2. \A k \in 1 .. (n - 1) : k \in 1 .. n /\ k # n
      OBVIOUS
    <3>3. QED
      BY <3>1, <3>2
  <2>3. PICK K : K = {"quit"}
    OBVIOUS
  <2>4. Moved(K)
    <3>1. CASE raised = wins
      BY <1>1, <1>2, <1>6, <2>1, <2>3, <3>1, OneTouched DEF WmInv
    <3>2. CASE raised # wins
      <4>1. PICK u : u = RemoveAt(wins, hi)
        OBVIOUS
      <4>2. u \in Seq(WindowSet) /\ Len(u) = n - 1 /\ \A k \in 1 .. (n - 1) : raised[k] = u[k]
        BY <1>5, <3>2, <4>1
      <4>3. PICK t : t = Append(u, w)
        OBVIOUS
      <4>4. t \in Seq(WindowSet) /\ Len(t) = n /\ t[n] = w /\ \A k \in 1 .. (n - 1) : t[k] = u[k]
        BY <1>2, <2>1, <4>2, <4>3, AppendProperties
      <4>5. wins' \in Seq(WindowSet)
        BY <1>5, <1>6, <2>1, ExceptSeq
      <4>6. \A k \in 1 .. n : wins'[k] = t[k]
        <5>1. \A k \in 1 .. n : k = n \/ k \in 1 .. (n - 1)
          OBVIOUS
        <5>2. QED
          BY <2>2, <4>2, <4>4, <5>1
      <4>7. wins' = t
        BY <2>2, <4>4, <4>5, <4>6, SeqEqual
      <4>8. raised[n] = wins[hi]
        BY <1>5, <3>2
      <4>9. wins' = Append(RemoveAt(wins, hi), w) /\ w.id = wins[hi].id /\ w.quit = wins[hi].quit
        BY <2>1, <4>1, <4>3, <4>7, <4>8
      <4>10. QED
        BY <1>1, <2>1, <2>3, <4>9, LiftMoved DEF WmInv
    <3>3. QED
      BY <3>1, <3>2
  <2>5. ASSUME pace = "slow" PROVE OneGrab'
    <3>1. NoGrab
      BY <1>1, <2>5 DEF WmInv, Hands, Wm!Left
    <3>2. ASSUME NEW k \in 1 .. (n - 1) PROVE raised[k].grab = "none"
      <4>1. CASE raised = wins
        BY <1>2, <3>1, <4>1 DEF NoGrab
      <4>2. CASE raised # wins
        <5>1. raised[k] = RemoveAt(wins, hi)[k]
          BY <1>5, <4>2
        <5>2. RemoveAt(wins, hi)[k] = wins[IF k < hi THEN k ELSE k + 1]
          BY <1>1, <1>2, <1>3, RemovedIs
        <5>3. (IF k < hi THEN k ELSE k + 1) \in 1 .. n
          BY <1>1, <1>2
        <5>4. QED
          BY <1>2, <3>1, <5>1, <5>2, <5>3 DEF NoGrab
      <4>3. QED
        BY <4>1, <4>2
    <3>3. \A k \in 1 .. n : k = n \/ (k \in 1 .. (n - 1) /\ wins'[k].grab = "none")
      BY <2>2, <3>2
    <3>4. QED
      BY <2>2, <3>3 DEF OneGrab
  <2>6. QED
    BY <1>1, <1>8, <2>3, <2>4, <2>5, ClickHolds
<1>11. QED
  BY <1>9, <1>10

-----------------------------------------------------------------------------
(* The beginning of a frame: what a poll finds.                                *)
LEMMA PollIs ==
  ASSUME WmInv, NEW keys \in Seq(Wm!KeySet), NEW left \in BOOLEAN, NEW right \in BOOLEAN,
         NEW down \in BOOLEAN, Wm!Polled(keys, left, right, down)
  PROVE  /\ input' = [keys |-> keys, left |-> left, right |-> right] /\ btn' = down
         /\ down /\ ~btn => left
         /\ pace = "slow" =>
              /\ Len(keys) <= 1 /\ ~(left /\ right) /\ (left => ~btn)
              /\ keys # <<>> => ~left /\ ~right /\ kill < 0
<1>1. PICK n \in Nat : n = Len(keys)
  OBVIOUS
<1>2. PICK a, b, c : /\ a = (IF left THEN 1 ELSE 0) /\ b = (IF right THEN 1 ELSE 0)
                     /\ c = (IF btn /\ (~down \/ left) THEN 1 ELSE 0)
  OBVIOUS
<1>3. /\ input' = [keys |-> keys, left |-> left, right |-> right] /\ btn' = down
      /\ down /\ ~btn => left
      /\ pace = "slow" => n + a + b + c <= (IF kill < 0 THEN 1 ELSE 0)
  BY <1>1, <1>2 DEF Wm!Polled
<1>4. keys # <<>> => n >= 1
  BY <1>1, EmptySeq
<1>5. /\ a \in Nat /\ b \in Nat /\ c \in Nat
      /\ left => a = 1
      /\ right => b = 1
      /\ btn /\ left => c = 1
  BY <1>2
<1>6. ASSUME pace = "slow"
      PROVE  /\ n <= 1 /\ ~(left /\ right) /\ (left => ~btn)
             /\ keys # <<>> => ~left /\ ~right /\ kill < 0
  <2>1. n + a + b + c <= 1 /\ (n >= 1 => kill < 0)
    <3>1. n + a + b + c <= (IF kill < 0 THEN 1 ELSE 0)
      BY <1>3, <1>6
    <3>2. CASE kill < 0
      BY <1>5, <3>1, <3>2
    <3>3. CASE ~(kill < 0)
      BY <1>5, <3>1, <3>3
    <3>4. QED
      BY <3>2, <3>3
  <2>2. ~(left /\ right)
    BY <1>5, <2>1
  <2>3. left => ~btn
    BY <1>5, <2>1
  <2>4. n >= 1 => ~left /\ ~right
    BY <1>5, <2>1
  <2>5. QED
    BY <1>4, <1>5, <2>1, <2>2, <2>3, <2>4
<1>7. QED
  BY <1>1, <1>3, <1>6

LEMMA BeginHolds ==
  ASSUME WmConstants, WmInv, Wm!BeginFrame
  PROVE  WmInv' /\ Wm!TopOvertakes /\ Wm!HitsChosen
<1>1. PICK keys \in Seq(Wm!KeySet), left \in BOOLEAN, right \in BOOLEAN, down \in BOOLEAN :
         Wm!Polled(keys, left, right, down)
  <2>1. <<>> \in Seq(Wm!KeySet)
    OBVIOUS
  <2>2. PICK keys \in {<<>>} \cup {<<k>> : k \in Wm!KeySet} \cup {<<j, k>> : j, k \in Wm!KeySet} :
          \E left, right, down \in BOOLEAN : Wm!Polled(keys, left, right, down)
    BY DEF Wm!BeginFrame
  <2>3. keys \in Seq(Wm!KeySet)
    <3>1. CASE keys = <<>>
      BY <2>1, <3>1
    <3>2. CASE keys \in {<<k>> : k \in Wm!KeySet}
      <4>1. PICK k \in Wm!KeySet : keys = <<k>>
        BY <3>2
      <4>2. QED
        BY <4>1
    <3>3. CASE keys \in {<<j, k>> : j, k \in Wm!KeySet}
      <4>1. PICK j \in Wm!KeySet, k \in Wm!KeySet : keys = <<j, k>>
        BY <3>3
      <4>2. QED
        BY <4>1
    <3>4. QED
      BY <2>2, <3>1, <3>2, <3>3
  <2>4. QED
    BY <2>2, <2>3
<1>2. /\ pc = "poll" /\ pc' = "keys" /\ kill' = -1
      /\ listed' = [i \in 1 .. (IF Len(wins) < MaxListed THEN Len(wins) ELSE MaxListed) |-> wins[i].id]
      /\ wins' = (IF kill \in 0 .. (Len(wins) - 1) THEN RemoveAt(wins, kill + 1) ELSE wins)
      /\ UNCHANGED <<desk, menu, dock, snap, pace, opened>>
  BY DEF Wm!BeginFrame, Wm!RemoveAt, RemoveAt
<1>3. /\ input' = [keys |-> keys, left |-> left, right |-> right] /\ btn' = down
      /\ down /\ ~btn => left
      /\ pace = "slow" => /\ Len(keys) <= 1 /\ ~(left /\ right) /\ (left => ~btn)
                          /\ keys # <<>> => ~left /\ ~right /\ kill < 0
  BY <1>1, PollIs
<1>4. /\ input'.keys = keys /\ input'.left = left /\ input'.right = right
      /\ input' \in [keys : Seq(Wm!KeySet), left : BOOLEAN, right : BOOLEAN]
  BY <1>1, <1>3
<1>5. PICK n \in Nat : n = Len(wins)
  BY DEF WmInv, Placed
<1>6. Moved(Both)
  <2>1. CASE kill \in 0 .. (n - 1)
    <3>1. kill + 1 \in 1 .. Len(wins)
      BY <1>5, <2>1
    <3>2. QED
      BY <1>2, <1>5, <2>1, <3>1, RemoveMoved DEF WmInv
  <2>2. CASE kill \notin 0 .. (n - 1)
    BY <1>2, <1>5, <2>2, StillMoved DEF WmInv
  <2>3. QED
    BY <2>1, <2>2
<1>7. /\ Placed' /\ Wm!TopOvertakes
      /\ (NoGrab => NoGrab') /\ (OneGrab => OneGrab') /\ (NoQuit => NoQuit')
  BY <1>6, MovedKeeps DEF WmInv, Both
<1>8. listed' \in Seq(Int) /\ Len(listed') <= MaxListed
  <2>1. PICK L \in Nat : L = (IF n < MaxListed THEN n ELSE MaxListed)
    BY DEF WmConstants
  <2>2. \A i \in 1 .. L : wins[i].id \in Int
    <3>1. \A i \in 1 .. n : wins[i] \in WindowSet
      BY <1>5 DEF WmInv, Placed
    <3>2. \A w \in WindowSet : w.id \in Int
      BY DEF WindowSet, WmConstants
    <3>3. \A i \in 1 .. L : i \in 1 .. n
      BY <2>1 DEF WmConstants
    <3>4. QED
      BY <3>1, <3>2, <3>3
  <2>3. PICK t : t = listed'
    OBVIOUS
  <2>4. t = [i \in 1 .. L |-> wins[i].id]
    BY <1>2, <1>5, <2>1, <2>3
  <2>5. t \in [1 .. L -> Int]
    BY <2>2, <2>4
  <2>6. t \in Seq(Int) /\ Len(t) = L
    BY <2>5
  <2>7. L <= MaxListed
    BY <2>1 DEF WmConstants
  <2>8. QED
    BY <2>3, <2>6, <2>7
<1>9. AroundTyped'
  <2>1. -1 \in -1 .. (MaxListed - 1)
    BY DEF WmConstants
  <2>2. QED
    BY <1>1, <1>2, <1>3, <1>4, <1>8, <2>1 DEF WmInv, AroundTyped
<1>10. Hands'
  <2>1. pace = "slow" => OneGrab'
    BY <1>7 DEF WmInv, Hands
  <2>2. pace = "slow" /\ left => NoGrab'
    BY <1>2, <1>3, <1>7 DEF WmInv, Hands
  <2>3. QED
    BY <1>2, <1>4, <2>1, <2>2 DEF Hands
<1>11. Quiet'
  <2>1. pc' = "keys" /\ ~(kill' >= 0) /\ pace' = pace
    BY <1>2
  <2>2. QED
    BY <1>3, <1>4, <2>1 DEF Quiet
<1>12. Choice'
  <2>1. ASSUME pace = "slow", keys # <<>> PROVE NoQuit' /\ listed' = Shown'
    <3>1. kill < 0
      BY <1>3, <2>1
    <3>2. wins' = wins
      BY <1>2, <1>5, <3>1 DEF WmInv, AroundTyped
    <3>3. NoQuit'
      BY <1>2, <1>7 DEF WmInv, Quiet
    <3>4. QED
      BY <1>2, <3>2, <3>3 DEF Shown
  <2>2. ~(kill' >= 0) /\ kill' < 0
    BY <1>2
  <2>3. QED
    BY <1>2, <1>4, <2>1, <2>2 DEF Choice
<1>13. Wm!MenusExclusive'
  BY <1>2 DEF WmInv, Wm!MenusExclusive
<1>14. Wm!HitsChosen
  <2>1. SUFFICES ASSUME pace = "slow"
                 PROVE  Wm!Ids(wins) \ Wm!Ids(wins') = IF kill < 0 THEN {} ELSE {asked} \ {-1}
    BY DEF Wm!HitsChosen
  <2>2. CASE kill < 0
    <3>1. wins' = wins
      BY <1>2, <1>5, <2>2 DEF WmInv, AroundTyped
    <3>2. QED
      BY <2>2, <3>1
  <2>3. kill \in -1 .. (MaxListed - 1) /\ MaxListed \in Nat
    BY DEF WmInv, AroundTyped, WmConstants
  <2>4. CASE kill >= 0 /\ kill >= n
    <3>1. kill \notin 0 .. (n - 1) /\ ~(kill < n) /\ ~(kill < 0)
      BY <2>3, <2>4
    <3>2. wins' = wins /\ asked = -1
      BY <1>2, <1>5, <2>1, <2>4, <3>1 DEF WmInv, Choice
    <3>3. QED
      BY <3>1, <3>2
  <2>5. CASE kill >= 0 /\ kill < n
    <3>1. PICK i \in 1 .. n : i = kill + 1 /\ kill \in 0 .. (n - 1)
      BY <2>3, <2>5
    <3>2. PICK t : t = wins'
      OBVIOUS
    <3>3. t = RemoveAt(wins, i) /\ asked = wins[i].id
      BY <1>2, <1>5, <2>1, <2>5, <3>1, <3>2 DEF WmInv, Choice
    <3>4. Len(t) = n - 1 /\ \A k \in 1 .. (n - 1) : t[k] = wins[IF k < i THEN k ELSE k + 1]
      BY <1>5, <3>1, <3>3, RemovedIs DEF WmInv, Placed
    <3>5. \A k, l \in 1 .. n : wins[k].id = wins[l].id => k = l
      BY <1>5 DEF WmInv, Placed
    <3>6. wins[i].id # -1
      <4>1. wins[i] \in WindowSet
        BY <1>5 DEF WmInv, Placed
      <4>2. wins[i].id \in 0 .. MaxWindows
        BY <4>1 DEF WindowSet
      <4>3. QED
        BY <4>2 DEF WmConstants
    <3>7. ASSUME NEW k \in 1 .. (n - 1) PROVE t[k].id # wins[i].id
      <4>1. PICK l \in 1 .. n : l = (IF k < i THEN k ELSE k + 1) /\ l # i
        BY <3>7
      <4>2. t[k] = wins[l]
        BY <3>4, <4>1
      <4>3. QED
        BY <3>5, <4>1, <4>2
    <3>8. ASSUME NEW l \in 1 .. n, l # i PROVE \E k \in 1 .. (n - 1) : t[k] = wins[l]
      <4>1. PICK k \in 1 .. (n - 1) : l = (IF k < i THEN k ELSE k + 1)
        <5>1. CASE l < i
          BY <5>1
        <5>2. CASE l > i
          <6>1. l - 1 \in 1 .. (n - 1) /\ ~(l - 1 < i) /\ l = (l - 1) + 1
            BY <5>2
          <6>2. QED
            BY <6>1
        <5>3. QED
          BY <3>8, <5>1, <5>2
      <4>2. QED
        BY <3>4, <4>1
    <3>9. Wm!Ids(wins) = {wins[l].id : l \in 1 .. n} /\ Wm!Ids(t) = {t[k].id : k \in 1 .. (n - 1)}
      BY <1>5, <3>4 DEF Wm!Ids
    <3>10. {wins[l].id : l \in 1 .. n} \ {t[k].id : k \in 1 .. (n - 1)} = {wins[i].id}
      <4>1. ASSUME NEW x \in {wins[l].id : l \in 1 .. n}, x \notin {t[k].id : k \in 1 .. (n - 1)}
            PROVE  x = wins[i].id
        <5>1. PICK l \in 1 .. n : x = wins[l].id
          BY <4>1
        <5>2. QED
          BY <3>8, <4>1, <5>1
      <4>2. wins[i].id \in {wins[l].id : l \in 1 .. n}
        OBVIOUS
      <4>3. wins[i].id \notin {t[k].id : k \in 1 .. (n - 1)}
        BY <3>7
      <4>4. QED
        BY <4>1, <4>2, <4>3
    <3>11. Wm!Ids(wins) \ Wm!Ids(t) = {wins[i].id}
      BY <3>9, <3>10
    <3>12. {asked} \ {-1} = {wins[i].id} /\ ~(kill < 0)
      BY <2>3, <2>5, <3>3, <3>6
    <3>13. QED
      BY <3>2, <3>11, <3>12
  <2>6. QED
    BY <2>2, <2>3, <2>4, <2>5
<1>15. QED
  BY <1>7, <1>9, <1>10, <1>11, <1>12, <1>13, <1>14 DEF WmInv

-----------------------------------------------------------------------------
(* The end of a frame.                                                         *)
LEMMA EndHolds ==
  ASSUME WmConstants, WmInv, Wm!EndFrame, Moved(Both), snap' \in {"none", "half", "top"},
         ~btn => NoGrab',
         kill >= 0 => Len(wins') = Len(wins) /\ \A i \in 1 .. Len(wins) : wins'[i].id = wins[i].id
  PROVE  WmInv' /\ Wm!TopOvertakes
<1>1. /\ pc = "mouse" /\ ~input.right /\ ~input.left /\ pc' = "poll"
      /\ UNCHANGED <<desk, menu, dock, btn, listed, kill, asked, input, pace, opened>>
  BY DEF Wm!EndFrame
<1>2. /\ Placed' /\ Wm!TopOvertakes
      /\ (NoGrab => NoGrab') /\ (OneGrab => OneGrab') /\ (NoQuit => NoQuit')
  BY MovedKeeps DEF WmInv, Both
<1>3. AroundTyped'
  BY <1>1 DEF WmInv, AroundTyped
<1>4. Hands'
  BY <1>1, <1>2 DEF WmInv, Hands
<1>5. Quiet'
  BY <1>1, <1>2 DEF WmInv, Quiet
<1>6. Choice'
  <2>1. ASSUME pace = "slow", kill >= 0
        PROVE  asked = IF kill < Len(wins') THEN wins'[kill + 1].id ELSE -1
    <3>1. asked = IF kill < Len(wins) THEN wins[kill + 1].id ELSE -1
      BY <2>1 DEF WmInv, Choice
    <3>2. kill \in Int /\ Len(wins) \in Nat
      BY DEF WmInv, AroundTyped, WmConstants, Placed
    <3>3. kill < Len(wins) => kill + 1 \in 1 .. Len(wins)
      BY <2>1, <3>2
    <3>4. Len(wins') = Len(wins) /\ \A i \in 1 .. Len(wins) : wins'[i].id = wins[i].id
      BY <2>1
    <3>5. QED
      BY <3>1, <3>3, <3>4
  <2>2. QED
    BY <1>1, <2>1 DEF Choice
<1>7. Wm!MenusExclusive'
  BY <1>1 DEF WmInv, Wm!MenusExclusive
<1>8. QED
  BY <1>2, <1>3, <1>4, <1>5, <1>6, <1>7 DEF WmInv

LEMMA DragHolds ==
  ASSUME WmConstants, WmInv, Wm!Drag
  PROVE  WmInv' /\ Wm!TopOvertakes
<1>1. Wm!EndFrame /\ btn /\ wins' = wins /\ snap' \in {"none", "half", "top"}
  BY DEF Wm!Drag, WmInv, AroundTyped
<1>2. Moved(Both)
  BY <1>1, StillMoved DEF WmInv, Wm!EndFrame
<1>3. QED
  BY <1>1, <1>2, EndHolds

LEMMA ReleaseHolds ==
  ASSUME WmConstants, WmInv, Wm!Release
  PROVE  WmInv' /\ Wm!TopOvertakes
<1>1. Wm!EndFrame /\ ~btn /\ snap' \in {"none", "half", "top"}
  BY DEF Wm!Release, WmInv, AroundTyped
<1>2. PICK n, t : n \in Nat /\ n = Len(wins) /\ t = wins'
  BY DEF WmInv, Placed
<1>3. PICK first, toggled :
        /\ first = (CHOOSE i \in Wm!Dragged : \A j \in Wm!Dragged : i <= j)
        /\ toggled = (Wm!Dragged # {} /\ snap = "top")
  OBVIOUS
<1>4. t = [i \in 1 .. n |-> [wins[i] EXCEPT !.grab = "none",
                                            !.max = IF toggled /\ i = first THEN ~@ ELSE @]]
  BY <1>2, <1>3 DEF Wm!Release
<1>5. \A i \in 1 .. n : wins[i] \in WindowSet
  BY <1>2 DEF WmInv, Placed
<1>6. ASSUME NEW i \in 1 .. n
      PROVE  t[i] \in WindowSet /\ t[i].id = wins[i].id /\ t[i].grab = "none" /\ t[i].quit = wins[i].quit
  <2>1. \E m \in BOOLEAN : t[i] = [wins[i] EXCEPT !.grab = "none", !.max = m]
    <3>1. wins[i].max \in BOOLEAN
      BY <1>5 DEF WindowSet
    <3>2. t[i] = [wins[i] EXCEPT !.grab = "none",
                                 !.max = IF toggled /\ i = first THEN ~wins[i].max ELSE wins[i].max]
      BY <1>4
    <3>3. CASE toggled /\ i = first
      <4>1. t[i] = [wins[i] EXCEPT !.grab = "none", !.max = ~wins[i].max]
        BY <3>2, <3>3
      <4>2. QED
        BY <3>1, <4>1
    <3>4. CASE ~(toggled /\ i = first)
      <4>1. t[i] = [wins[i] EXCEPT !.grab = "none", !.max = wins[i].max]
        BY <3>2, <3>4
      <4>2. QED
        BY <3>1, <4>1
    <3>5. QED
      BY <3>3, <3>4
  <2>2. PICK m \in BOOLEAN : t[i] = [wins[i] EXCEPT !.grab = "none", !.max = m]
    BY <2>1
  <2>3. QED
    BY <1>5, <2>2 DEF WindowSet
<1>7. t \in Seq(WindowSet) /\ Len(t) = n
  <2>1. t \in [1 .. n -> WindowSet]
    BY <1>4, <1>6
  <2>2. QED
    BY <1>2, <2>1
<1>8. Moved(Both)
  BY <1>1, <1>2, <1>6, <1>7, TouchMoved DEF WmInv, Wm!EndFrame
<1>9. NoGrab'
  BY <1>2, <1>6, <1>7 DEF NoGrab
<1>10. QED
  BY <1>1, <1>2, <1>6, <1>7, <1>8, <1>9, EndHolds

-----------------------------------------------------------------------------
(* The invariant.                                                              *)
LEMMA StartsHold == ASSUME WmConstants, Wm!Init PROVE WmInv
<1>1. /\ desk = (CHOOSE d \in Desktops : \A e \in Desktops : d <= e) /\ opened = 0
      /\ wins \in {<<>>} \cup {<<[Wm!Window(i) EXCEPT !.id = 0]>> : i \in Wm!Items}
      /\ dock = FirstDock /\ snap = "none" /\ btn = FALSE /\ listed = <<>> /\ kill = -1
      /\ pc = "poll" /\ input = Wm!None
      /\ \E s \in BOOLEAN : menu = [start |-> s, ctx |-> FALSE, item |-> "none", qs |-> FALSE]
  BY DEF Wm!Init
<1>2. desk \in Desktops
  BY <1>1 DEF WmConstants
<1>3. /\ wins \in Seq(WindowSet) /\ Len(wins) <= 1 /\ Len(wins) \in Nat
      /\ \A i \in 1 .. Len(wins) : wins[i].id = 0 /\ wins[i].grab = "none" /\ ~wins[i].quit
  <2>1. CASE wins = <<>>
    <3>1. Len(wins) = 0 /\ wins \in Seq(WindowSet)
      BY <2>1
    <3>2. QED
      BY <3>1
  <2>2. CASE wins # <<>>
    <3>1. PICK i \in Wm!Items : wins = <<[Wm!Window(i) EXCEPT !.id = 0]>>
      BY <1>1, <2>2
    <3>2. PICK w : w = [Wm!Window(i) EXCEPT !.id = 0]
      OBVIOUS
    <3>3. w \in WindowSet /\ w.id = 0 /\ w.grab = "none" /\ ~w.quit
      <4>1. 0 \in 0 .. MaxWindows /\ 0 \in 0 .. (MaxListed - 1)
        BY DEF WmConstants
      <4>2. w = [id |-> 0, desk |-> desk, min |-> FALSE, max |-> FALSE, grab |-> "none",
                 monitor |-> i = "monitor", sel |-> 0, quit |-> FALSE]
        BY <3>2 DEF Wm!Window
      <4>3. QED
        BY <1>2, <4>1, <4>2 DEF WindowSet
    <3>4. wins = <<w>>
      BY <3>1, <3>2
    <3>5. wins \in Seq(WindowSet) /\ Len(wins) = 1 /\ wins[1] = w
      BY <3>3, <3>4
    <3>6. QED
      BY <3>3, <3>5
  <2>3. QED
    BY <2>1, <2>2
<1>4. Placed
  BY <1>1, <1>3 DEF Placed, WmConstants
<1>5. AroundTyped
  <2>1. -1 \in -1 .. (MaxListed - 1) /\ <<>> \in Seq(Int) /\ Len(<<>>) <= MaxListed
    BY DEF WmConstants
  <2>2. Wm!None \in [keys : Seq(Wm!KeySet), left : BOOLEAN, right : BOOLEAN]
    BY DEF Wm!None
  <2>3. PICK s \in BOOLEAN : menu = [start |-> s, ctx |-> FALSE, item |-> "none", qs |-> FALSE]
    BY <1>1
  <2>4. menu \in [start : BOOLEAN, ctx : BOOLEAN, item : Wm!Items \cup {"none"}, qs : BOOLEAN]
    BY <2>3
  <2>5. dock \in Seq(Pinnable) /\ Len(dock) <= MAX_DOCK
    BY <1>1 DEF WmConstants
  <2>6. QED
    BY <1>1, <1>2, <2>1, <2>2, <2>4, <2>5 DEF AroundTyped
<1>6. NoGrab /\ OneGrab /\ NoQuit
  BY <1>3 DEF NoGrab, OneGrab, NoQuit
<1>7. input.keys = <<>> /\ ~input.left /\ ~input.right /\ Len(input.keys) <= 1
  BY <1>1 DEF Wm!None
<1>8. Hands
  BY <1>6 DEF Hands
<1>9. Quiet
  BY <1>6, <1>7 DEF Quiet
<1>10. Choice
  BY <1>1 DEF Choice
<1>11. Wm!MenusExclusive
  BY <1>1 DEF Wm!MenusExclusive
<1>12. QED
  BY <1>4, <1>5, <1>8, <1>9, <1>10, <1>11 DEF WmInv

LEMMA FramesHold ==
  ASSUME WmConstants, WmInv, [Wm!Next]_(Wm!vars)
  PROVE  /\ WmInv'
         /\ [Wm!TopOvertakes]_(Wm!vars) /\ [Wm!HitsChosen]_(Wm!vars)
<1>1. CASE Wm!BeginFrame
  BY <1>1, BeginHolds
<1>2. CASE Wm!OpenKey
  BY <1>2, OpenKeyHolds DEF Wm!OpenKey, Wm!NextKey, Wm!HitsChosen
<1>3. CASE Wm!CloseKey
  BY <1>3, CloseKeyHolds DEF Wm!CloseKey, Wm!NextKey, Wm!HitsChosen
<1>4. CASE Wm!QuitKey
  BY <1>4, QuitKeyHolds DEF Wm!QuitKey, Wm!NextKey, Wm!HitsChosen
<1>5. CASE \E k \in Wm!KeySet : Wm!MonitorKey(k)
  BY <1>5, MonitorKeyHolds DEF Wm!MonitorKey, Wm!NextKey, Wm!HitsChosen
<1>6. CASE Wm!Retain
  BY <1>6, RetainHolds DEF Wm!Retain, Wm!HitsChosen
<1>7. CASE Wm!RightClick
  BY <1>7, RightClickHolds DEF Wm!RightClick, Wm!HitsChosen
<1>8. CASE \E d \in Desktops : Wm!ClickDot(d)
  BY <1>8, DotHolds DEF Wm!ClickDot, Wm!Left, Wm!HitsChosen
<1>9. CASE Wm!ClickTray
  BY <1>9, TrayHolds DEF Wm!ClickTray, Wm!Left, Wm!HitsChosen
<1>10. CASE Wm!ClickPanel
  BY <1>10, PanelHolds DEF Wm!ClickPanel, Wm!Left, Wm!HitsChosen
<1>11. CASE Wm!ClickCtx
  BY <1>11, CtxHolds DEF Wm!ClickCtx, Wm!Left, Wm!HitsChosen
<1>12. CASE Wm!ClickItemMenu
  BY <1>12, ItemMenuHolds DEF Wm!ClickItemMenu, Wm!Left, Wm!HitsChosen
<1>13. CASE Wm!ClickStart
  BY <1>13, StartHolds DEF Wm!ClickStart, Wm!Left, Wm!HitsChosen
<1>14. CASE Wm!ShutDown
  BY <1>14, ShutDownHolds DEF Wm!ShutDown, Wm!HitsChosen
<1>15. CASE Wm!ClickDingir
  BY <1>15, DingirHolds DEF Wm!ClickDingir, Wm!Left, Wm!HitsChosen
<1>16. CASE Wm!ClickBare
  BY <1>16, BareHolds DEF Wm!ClickBare, Wm!Left, Wm!HitsChosen
<1>17. CASE \E hi \in 1 .. Len(wins), part \in Wm!Parts : Wm!ClickWindow(hi, part)
  BY <1>17, WindowHolds DEF Wm!ClickWindow, Wm!Left, Wm!HitsChosen
<1>18. CASE Wm!Drag
  BY <1>18, DragHolds DEF Wm!Drag, Wm!EndFrame, Wm!HitsChosen
<1>19. CASE Wm!Release
  BY <1>19, ReleaseHolds DEF Wm!Release, Wm!EndFrame, Wm!HitsChosen
<1>20. CASE UNCHANGED Wm!vars
  <2>1. UNCHANGED <<wins, desk, menu, dock, snap, btn, listed, kill, asked, pc, input, pace, opened>>
    BY <1>20 DEF Wm!vars
  <2>2. Placed'
    BY <2>1 DEF WmInv, Placed
  <2>3. AroundTyped'
    BY <2>1 DEF WmInv, AroundTyped
  <2>4. Hands'
    BY <2>1 DEF WmInv, Hands, NoGrab, OneGrab
  <2>5. Quiet' /\ Choice'
    BY <2>1 DEF WmInv, Quiet, Choice, NoQuit, Shown
  <2>6. Wm!MenusExclusive'
    BY <2>1 DEF WmInv, Wm!MenusExclusive
  <2>7. QED
    BY <1>20, <2>2, <2>3, <2>4, <2>5, <2>6 DEF WmInv
<1>21. QED
  BY <1>1, <1>2, <1>3, <1>4, <1>5, <1>6, <1>7, <1>8, <1>9, <1>10, <1>11, <1>12, <1>13, <1>14,
     <1>15, <1>16, <1>17, <1>18, <1>19, <1>20 DEF Wm!Next, Wm!Frame

LEMMA WmCardinality == \A S : Wm!Cardinality(S) = Cardinality(S)
BY DEF Wm!Cardinality, Cardinality

(* Numbers of their own: as many of them as windows.                           *)
LEMMA CountedWindows == ASSUME Placed PROVE Cardinality(Wm!Ids(wins)) = Len(wins)
<1>1. PICK n \in Nat : n = Len(wins)
  BY DEF Placed
<1>2. PICK f : f = [i \in 1 .. n |-> wins[i].id]
  OBVIOUS
<1>3. Wm!Ids(wins) = {wins[i].id : i \in 1 .. n}
  BY <1>1 DEF Wm!Ids
<1>4. f \in Bijection(1 .. n, Wm!Ids(wins))
  <2>1. f \in [1 .. n -> Wm!Ids(wins)] /\ \A i, j \in 1 .. n : f[i] = f[j] => i = j
    BY <1>1, <1>2, <1>3 DEF Placed
  <2>2. \A x \in Wm!Ids(wins) : \E i \in 1 .. n : f[i] = x
    BY <1>2, <1>3
  <2>3. QED
    BY <2>1, <2>2 DEF Bijection, Injection, Surjection, IsInjective
<1>5. QED
  BY <1>1, <1>4, FS_CountingElements DEF ExistsBijection

LEMMA FewGrabbed ==
  ASSUME Placed, OneGrab
  PROVE  Cardinality(Wm!Grabbed) <= 1
<1>1. Wm!Grabbed = {i \in 1 .. Len(wins) : wins[i].grab # "none"}
  BY DEF Wm!Grabbed
<1>2. CASE Wm!Grabbed = {}
  BY <1>2, FS_EmptySet
<1>3. CASE Wm!Grabbed # {}
  <2>1. PICK i : i \in Wm!Grabbed
    BY <1>3
  <2>2. i \in 1 .. Len(wins) /\ wins[i].grab # "none"
    BY <1>1, <2>1
  <2>3. \A j \in 1 .. Len(wins) : wins[j].grab # "none" => j = i
    BY <2>2 DEF OneGrab
  <2>4. Wm!Grabbed = {i}
    BY <1>1, <2>1, <2>3
  <2>5. Cardinality({i}) = 1
    BY FS_Singleton
  <2>6. QED
    BY <2>4, <2>5
<1>4. QED
  BY <1>2, <1>3

LEMMA WmTypes == ASSUME WmConstants, WmInv PROVE Wm!TypeOK
<1>1. Cardinality(Wm!Ids(wins)) = Len(wins)
  BY CountedWindows DEF WmInv
<1>2. Wm!ToSet(dock) \subseteq Pinnable
  <2>1. dock \in Seq(Pinnable)
    BY DEF WmInv, AroundTyped
  <2>2. QED
    BY <2>1 DEF Wm!ToSet
<1>3. QED
  BY <1>1, <1>2, WmCardinality DEF WmInv, Placed, WindowSet, AroundTyped, Wm!TypeOK

LEMMA WmMenus == ASSUME WmInv PROVE Wm!MenusExclusive /\ Wm!GrabFollowsButton
<1>1. pc = "poll" /\ ~btn => Wm!Grabbed = {}
  BY DEF WmInv, Hands, NoGrab, Wm!Grabbed
<1>2. pace = "slow" => Cardinality(Wm!Grabbed) <= 1
  BY FewGrabbed DEF WmInv, Hands
<1>3. QED
  BY <1>1, <1>2, WmCardinality DEF WmInv, Wm!GrabFollowsButton

(* The invariant holds from the first frame on, whatever is typed and clicked    *)
(* (the loop of main.rs 2871-3454).                                            *)
THEOREM WindowsInvariant == ASSUME WmConstants PROVE Wm!Spec => []WmInv
<1>1. Wm!Init => WmInv
  BY StartsHold
<1>2. WmInv /\ [Wm!Next]_(Wm!vars) => WmInv'
  BY FramesHold
<1>3. QED
  BY <1>1, <1>2, PTL DEF Wm!Spec

(* The desktop's variables keep their types: the selection of the monitor stays  *)
(* in a list of its length, the dock in its room, and no two windows of the list  *)
(* are the same one.                                                           *)
THEOREM DesktopTyped == ASSUME WmConstants PROVE Wm!Spec => []Wm!TypeOK
<1>1. WmInv => Wm!TypeOK
  BY WmTypes
<1>2. QED
  BY <1>1, WindowsInvariant, PTL

(* Two menus never wait for one click, and a window follows the pointer only      *)
(* while the button is held, whatever was closed, opened, switched to or polled   *)
(* in between; if clicks come slowly only one window does.  MenusKept of the run   *)
(* says this.                                                                  *)
THEOREM MenusHeld ==
  ASSUME WmConstants PROVE Wm!Spec => [](Wm!MenusExclusive /\ Wm!GrabFollowsButton)
<1>1. WmInv => Wm!MenusExclusive /\ Wm!GrabFollowsButton
  BY WmMenus
<1>2. QED
  BY <1>1, WindowsInvariant, PTL

(* A force-quit is asked for by a row of a list and served a frame later by that   *)
(* number: if events come slowly it closes the window that the list showed there,  *)
(* and no frame closes another (main.rs 2904-2918).  KillsChosen of the run says   *)
(* this.                                                                       *)
THEOREM KillsHit == ASSUME WmConstants PROVE Wm!Spec => Wm!KillHitsChosen
<1>1. WmInv /\ [Wm!Next]_(Wm!vars) => [Wm!HitsChosen]_(Wm!vars)
  BY FramesHold
<1>2. QED
  BY <1>1, WindowsInvariant, PTL DEF Wm!Spec, Wm!KillHitsChosen

(* The windows keep their order: one that comes to lie above another lies above    *)
(* all, whatever is opened, closed, raised, retained or minimised.                *)
(* RaisedOvertakes of the run says this.                                        *)
THEOREM OrderKept == ASSUME WmConstants PROVE Wm!Spec => Wm!OnlyRaisedOvertakes
<1>1. WmInv /\ [Wm!Next]_(Wm!vars) => [Wm!TopOvertakes]_(Wm!vars)
  BY FramesHold
<1>2. QED
  BY <1>1, WindowsInvariant, PTL DEF Wm!Spec, Wm!OnlyRaisedOvertakes
=============================================================================
