-------------------------------- MODULE Heap ---------------------------------
(* The heap of the desktop (heap.rs, allocator.rs): an address-sorted list of *)
(* free blocks.  The list is the sequence of its blocks; the header that a    *)
(* free block keeps in its own first bytes is the record.                     *)
EXTENDS Integers, Sequences, FiniteSetsExt, SequencesExt, FiniteSetTheorems, SequenceTheorems, TLAPS

CONSTANTS ALIGN,  \* every block is aligned to it, and every size a multiple
          HDR,    \* bytes of a free block's header
          BASE,   \* address of ARENA
          BYTES,  \* HEAP_BYTES
          Sizes, Aligns  \* what programs ask for

VARIABLES inited,
          list,    \* the free blocks from head on
          live,
          held,    \* what programs hold: address, size asked for
          refused  \* the request that alloc last answered with 0, or {}

vars == <<inited, list, live, held, refused>>

align_up(x, a) == ((x + a - 1) \div a) * a
round_block(size) == align_up(IF size < HDR THEN HDR ELSE size, ALIGN)
End == BASE + (BYTES \div ALIGN) * ALIGN

Init == inited = FALSE /\ list = <<>> /\ live = 0 /\ held = {} /\ refused = {}

\* ensure_init and init: one free block spanning the arena.
Laid == IF inited THEN list ELSE <<[at |-> BASE, size |-> End - BASE]>>

Payload(b, align) == align_up(b.at, align)
Fits(b, size, align) == Payload(b, align) + round_block(size) <= b.at + b.size

\* What is left of a block before and after the payload that is cut out of it.
Gap(at, size) == IF size >= HDR THEN <<[at |-> at, size |-> size]>> ELSE <<>>
\* Seeded fault: the bytes before an aligned payload are forgotten.
LeftOverBehind(b, size, align) ==
    LET after == Payload(b, align) + round_block(size) IN Gap(after, b.at + b.size - after)
LeftOver(b, size, align) ==
    LET payload == Payload(b, align)
        after == payload + round_block(size)
    IN Gap(b.at, payload - b.at) \o Gap(after, b.at + b.size - after)

\* In a list the blocks from the ath to the bth are replaced by others.
Splice(l, a, b, mid) == SubSeq(l, 1, a - 1) \o mid \o SubSeq(l, b + 1, Len(l))
Cut(l, k, size, align) == Splice(l, k, k, LeftOver(l[k], size, align))

\* alloc: the first block that it fits into, or 0.
Alloc(size, asked) ==
    LET align == IF asked < ALIGN THEN ALIGN ELSE asked
        fit == {k \in DOMAIN Laid : Fits(Laid[k], size, align)}
    IN /\ inited' = TRUE
       /\ IF fit = {}
          THEN /\ refused' = {[size |-> size, align |-> align]}
               /\ list' = Laid
               /\ UNCHANGED <<live, held>>
          ELSE LET k == Min(fit)
               IN /\ list' = Cut(Laid, k, size, align)
                  /\ live' = live + round_block(size)
                  /\ held' = held \cup {[at |-> Payload(Laid[k], align), size |-> size, align |-> asked]}
                  /\ refused' = {}

\* dealloc: the freed region joins the free blocks it touches, or goes between
\* them: p is the block before it, 0 if none.
Prev(l, at) == LET behind == {k \in DOMAIN l : l[k].at >= at}
               IN IF behind = {} THEN Len(l) ELSE Min(behind) - 1
PrevAdj(l, at, p) == p > 0 /\ l[p].at + l[p].size = at
CurAdj(l, end, p) == p < Len(l) /\ end = l[p + 1].at
JoinFirst(l, at, p) == IF PrevAdj(l, at, p) THEN p ELSE p + 1
JoinLast(l, end, p) == IF CurAdj(l, end, p) THEN p + 1 ELSE p
JoinFrom(l, at, p) == IF PrevAdj(l, at, p) THEN l[p].at ELSE at
JoinTo(l, end, p) == IF CurAdj(l, end, p) THEN l[p + 1].at + l[p + 1].size ELSE end
Join(l, at, end) ==
    LET p == Prev(l, at)
    IN Splice(l, JoinFirst(l, at, p), JoinLast(l, end, p),
              <<[at |-> JoinFrom(l, at, p), size |-> JoinTo(l, end, p) - JoinFrom(l, at, p)]>>)

Dealloc(h) ==
    LET need == round_block(h.size)
    IN /\ list' = Join(list, h.at, h.at + need)
       /\ live' = live - need
       /\ held' = held \ {h} /\ refused' = {}
       /\ UNCHANGED inited

Next == \/ \E s \in Sizes, a \in Aligns : Alloc(s, a)
        \/ \E h \in held : Dealloc(h)

Spec == Init /\ [][Next]_vars

------------------------------------------------------------------------------
Extent(at, size) == at..(at + size - 1)
Blocks(l) == {l[k] : k \in DOMAIN l}
Bytes(B) == UNION {Extent(b.at, b.size) : b \in B}
FreeIn(l) == Bytes(Blocks(l))
Free == FreeIn(list)
Used(h) == Extent(h.at, round_block(h.size))
InUse == UNION {Used(h) : h \in held}

TypeOK ==
    /\ inited \in BOOLEAN /\ live \in Nat
    /\ list \in Seq([at : BASE..End, size : 1..(End - BASE)])
    /\ held \subseteq [at : BASE..End, size : Sizes, align : Aligns]
    /\ refused \subseteq [size : Sizes, align : Nat]

\* What programs hold is apart from what others hold and from the free blocks,
\* whose headers would otherwise be written over it; it is aligned as asked.
BlocksApart ==
    /\ \A h \in held : /\ h.at % h.align = 0 /\ Used(h) \subseteq Extent(BASE, End - BASE)
                       /\ Used(h) \cap Free = {}
    /\ \A g \in held, h \in held : g # h => Used(g) \cap Used(h) = {}

\* Every byte is held or free, and live is the number of those that are held,
\* however allocations and releases alternate: the gauge of the desktop comes down again.
NothingLost ==
    /\ live = Cardinality(InUse)
    /\ inited => Free \cup InUse = Extent(BASE, End - BASE)

\* Free blocks are in order and never touch (heap.rs:10-11), so that a window of
\* many sizes that was opened and closed leaves no splinters.
Coalesced == \A k \in 1..(Len(list) - 1) : list[k].at + list[k].size < list[k + 1].at

\* alloc gives up only when no free place is large enough where it is aligned.
RefusedRightly ==
    \A r \in refused : \A p \in BASE..End :
        p % r.align = 0 => ~(Extent(p, round_block(r.size)) \subseteq Free)

------------------------------------------------------------------------------
(* Proofs, for an arena, an alignment and requests of any size.               *)

\* What is assumed of the constants: a header fits into the smallest block, the arena
\* is aligned and not empty, and alignments divide each other, as powers of two do.
Of(a, x) == \E q \in Int : x = a * q
HeapConstants ==
    /\ ALIGN \in Nat \ {0} /\ HDR \in 1..ALIGN /\ BASE \in Nat /\ BASE % ALIGN = 0
    /\ BYTES \in Nat /\ BYTES >= ALIGN /\ Sizes \subseteq Nat /\ Aligns \subseteq Nat \ {0}
    /\ \A a \in Aligns : IF a < ALIGN THEN ALIGN % a = 0 ELSE a % ALIGN = 0

LEMMA OfMod ==
  ASSUME NEW a \in Nat \ {0}, NEW x \in Int
  PROVE  x % a = 0 <=> Of(a, x)
<1> PICK d : d = x \div a
  OBVIOUS
<1> PICK m : m = x % a
  OBVIOUS
<1>1. d \in Int /\ m \in 0..(a - 1) /\ x = a * d + m
  OBVIOUS
<1>2. ASSUME m = 0 PROVE Of(a, x)
  <2>1. x = a * d
    BY <1>1, <1>2
  <2> QED BY <1>1, <2>1 DEF Of
<1>3. ASSUME NEW q \in Int, x = a * q PROVE m = 0
  <2>1. q - d \in Int /\ a * (q - d) = m
    <3>1. a * (q - d) = a * q - a * d
      BY <1>1
    <3> QED BY <1>1, <1>3, <3>1
  <2>2. q - d >= 1 => a * (q - d) >= a
    BY <2>1
  <2>3. q - d <= -1 => a * (q - d) <= -a
    BY <2>1
  <2>4. q - d = 0 => a * (q - d) = 0
    BY <2>1
  <2> QED BY <1>1, <2>1, <2>2, <2>3, <2>4
<1> QED BY <1>2, <1>3 DEF Of

LEMMA OfSum ==
  ASSUME NEW a \in Int, NEW x \in Int, NEW y \in Int, Of(a, x), Of(a, y)
  PROVE  Of(a, x + y) /\ Of(a, x - y)
<1>1. PICK q \in Int : x = a * q
  BY DEF Of
<1>2. PICK r \in Int : y = a * r
  BY DEF Of
<1>3. x + y = a * (q + r) /\ x - y = a * (q - r) /\ q + r \in Int /\ q - r \in Int
  BY <1>1, <1>2
<1> QED BY <1>3 DEF Of

LEMMA Cuts ==
  ASSUME NEW a \in Int, NEW at \in Int, NEW size \in Int, NEW p \in Int, NEW need \in Int,
         Of(a, at), Of(a, size), Of(a, p), Of(a, need)
  PROVE  Of(a, p + need) /\ Of(a, p - at) /\ Of(a, at + size - (p + need))
<1>1. PICK q \in Int, r \in Int, s \in Int, t \in Int : at = a * q /\ size = a * r /\ p = a * s /\ need = a * t
  BY DEF Of
<1>2. p + need = a * (s + t) /\ p - at = a * (s - q) /\ at + size - (p + need) = a * (q + r - (s + t))
  BY <1>1
<1>3. s + t \in Int /\ s - q \in Int /\ q + r - (s + t) \in Int
  OBVIOUS
<1> QED BY <1>2, <1>3 DEF Of

LEMMA OfTrans ==
  ASSUME NEW a \in Int, NEW b \in Int, NEW x \in Int, Of(a, b), Of(b, x)
  PROVE  Of(a, x)
<1>1. PICK q \in Int : b = a * q
  BY DEF Of
<1>2. PICK r \in Int : x = b * r
  BY DEF Of
<1>3. x = a * (q * r) /\ q * r \in Int
  BY <1>1, <1>2
<1> QED BY <1>3 DEF Of

LEMMA OfPositive ==
  ASSUME NEW a \in Nat \ {0}, NEW x \in Int, Of(a, x), x > 0
  PROVE  x >= a
<1>1. PICK q \in Int : x = a * q
  BY DEF Of
<1>2. q <= 0 => a * q <= 0
  OBVIOUS
<1>3. q >= 1 => a * q >= a
  OBVIOUS
<1> QED BY <1>1, <1>2, <1>3

\* align_up gives the least multiple that is not below.
LEMMA AlignUp ==
  ASSUME NEW a \in Nat \ {0}, NEW x \in Nat
  PROVE  /\ align_up(x, a) \in Nat /\ x <= align_up(x, a) /\ Of(a, align_up(x, a))
         /\ \A p \in Nat : x <= p /\ Of(a, p) => align_up(x, a) <= p
<1> PICK d : d = (x + a - 1) \div a
  OBVIOUS
<1>1. d \in Int /\ a * d <= x + a - 1 /\ x + a - 1 < a * d + a
  OBVIOUS
<1>2. align_up(x, a) = a * d /\ a * d \in Int
  BY <1>1 DEF align_up
<1>3. x <= a * d
  BY <1>1
<1>4. ASSUME NEW q \in Int, x <= a * q PROVE a * d <= a * q
  <2>1. d >= q + 1 => a * d >= a * q + a
    <3>1. d >= q + 1 => a * (d - (q + 1)) >= 0
      BY <1>1
    <3>2. a * (d - (q + 1)) = a * d - a * q - a
      BY <1>1
    <3> QED BY <1>1, <3>1, <3>2
  <2>2. d <= q => a * d <= a * q
    <3>1. d <= q => a * (q - d) >= 0
      BY <1>1
    <3>2. a * (q - d) = a * q - a * d
      BY <1>1
    <3> QED BY <1>1, <3>1, <3>2
  <2> QED BY <1>1, <1>4, <2>1, <2>2
<1>5. Of(a, align_up(x, a))
  BY <1>1, <1>2 DEF Of
<1>6. ASSUME NEW p \in Nat, x <= p, Of(a, p) PROVE align_up(x, a) <= p
  <2>1. PICK q \in Int : p = a * q
    BY <1>6 DEF Of
  <2> QED BY <1>2, <1>4, <1>6, <2>1
<1>7. align_up(x, a) \in Nat /\ x <= align_up(x, a)
  BY <1>2, <1>3
<1> QED BY <1>5, <1>6, <1>7

------------------------------------------------------------------------------
\* A list of free blocks as heap.rs describes it: aligned, of whole units, within
\* the arena, in order, and no two touch.
Block == [at : BASE..End, size : 1..(End - BASE)]
Sound(b) == b \in Block /\ Of(ALIGN, b.at) /\ Of(ALIGN, b.size) /\ b.at + b.size <= End
Sorted(l) == \A j, k \in DOMAIN l : j < k => l[j].at + l[j].size < l[k].at
Good(l) == l \in Seq(Block) /\ (\A k \in DOMAIN l : Sound(l[k])) /\ Sorted(l)

LEMMA Constants ==
  ASSUME HeapConstants
  PROVE  /\ ALIGN \in Nat \ {0} /\ HDR \in 1..ALIGN /\ BASE \in Nat /\ End \in Nat
         /\ BASE + ALIGN <= End /\ Of(ALIGN, BASE) /\ Of(ALIGN, End) /\ Of(ALIGN, End - BASE)
<1>1. ALIGN \in Nat \ {0} /\ HDR \in 1..ALIGN /\ BASE \in Nat /\ BYTES \in Nat /\ BYTES >= ALIGN
  BY DEF HeapConstants
<1> PICK d : d = BYTES \div ALIGN
  OBVIOUS
<1>2. d \in Nat /\ d >= 1
  <2>1. d \in Int /\ ALIGN * d <= BYTES /\ BYTES < ALIGN * d + ALIGN
    BY <1>1
  <2>2. d <= 0 => ALIGN * d <= 0
    BY <1>1, <2>1
  <2> QED BY <1>1, <2>1, <2>2
<1>3. d * ALIGN = ALIGN * d /\ ALIGN * d \in Nat /\ ALIGN * d >= ALIGN
  BY <1>1, <1>2
<1>4. Of(ALIGN, BASE)
  BY <1>1, OfMod DEF HeapConstants
<1>5. Of(ALIGN, ALIGN * d)
  BY <1>2 DEF Of
<1>6. End = BASE + ALIGN * d
  BY <1>3 DEF End
<1>7. Of(ALIGN, End)
  BY <1>1, <1>3, <1>4, <1>5, <1>6, OfSum
<1>8. End - BASE = ALIGN * d
  BY <1>1, <1>3, <1>6
<1> QED BY <1>1, <1>3, <1>4, <1>5, <1>6, <1>7, <1>8

LEMMA SoundBlock ==
  ASSUME HeapConstants, NEW b, Sound(b)
  PROVE  /\ b.at \in Nat /\ b.size \in Nat /\ b.size >= ALIGN /\ b.size >= 1
         /\ BASE <= b.at /\ b.at + b.size <= End
<1>1. b.at \in BASE..End /\ b.size \in 1..(End - BASE) /\ BASE \in Nat /\ End \in Nat
  BY Constants DEF Sound, Block
<1> QED BY <1>1, Constants, OfPositive DEF Sound

\* Lists one behind the other, and a part of one.
Before(B, C) == \A b \in B, c \in C : b.at + b.size < c.at

LEMMA BlocksConcat ==
  ASSUME NEW S, NEW s \in Seq(S), NEW t \in Seq(S)
  PROVE  /\ s \o t \in Seq(S) /\ Blocks(s \o t) = Blocks(s) \cup Blocks(t)
<1>1. s \o t \in Seq(S) /\ Len(s \o t) = Len(s) + Len(t) /\ Len(s) \in Nat /\ Len(t) \in Nat
      /\ DOMAIN s = 1..Len(s) /\ DOMAIN t = 1..Len(t) /\ DOMAIN (s \o t) = 1..(Len(s) + Len(t))
  OBVIOUS
<1>2. \A i \in 1..(Len(s) + Len(t)) : (s \o t)[i] = IF i <= Len(s) THEN s[i] ELSE t[i - Len(s)]
  OBVIOUS
<1>3. ASSUME NEW i \in DOMAIN s PROVE s[i] \in Blocks(s \o t)
  <2>1. i \in 1..(Len(s) + Len(t)) /\ i <= Len(s)
    BY <1>1
  <2> QED BY <1>1, <1>2, <2>1 DEF Blocks
<1>4. ASSUME NEW i \in DOMAIN t PROVE t[i] \in Blocks(s \o t)
  <2>1. i + Len(s) \in 1..(Len(s) + Len(t)) /\ ~(i + Len(s) <= Len(s)) /\ i + Len(s) - Len(s) = i
    BY <1>1
  <2> QED BY <1>1, <1>2, <2>1 DEF Blocks
<1>5. ASSUME NEW i \in DOMAIN (s \o t) PROVE (s \o t)[i] \in Blocks(s) \cup Blocks(t)
  <2>1. i <= Len(s) => i \in DOMAIN s
    BY <1>1
  <2>2. ~(i <= Len(s)) => i - Len(s) \in DOMAIN t
    BY <1>1
  <2> QED BY <1>1, <1>2, <2>1, <2>2 DEF Blocks
<1> QED BY <1>1, <1>3, <1>4, <1>5 DEF Blocks

LEMMA GoodConcat ==
  ASSUME NEW s, NEW t, Good(s), Good(t), Before(Blocks(s), Blocks(t))
  PROVE  Good(s \o t) /\ Blocks(s \o t) = Blocks(s) \cup Blocks(t)
<1>1. s \in Seq(Block) /\ t \in Seq(Block)
  BY DEF Good
<1>2. /\ s \o t \in Seq(Block) /\ Len(s) \in Nat /\ Len(t) \in Nat
      /\ DOMAIN s = 1..Len(s) /\ DOMAIN t = 1..Len(t) /\ DOMAIN (s \o t) = 1..(Len(s) + Len(t))
  BY <1>1
<1>3. \A i \in 1..(Len(s) + Len(t)) : (s \o t)[i] = IF i <= Len(s) THEN s[i] ELSE t[i - Len(s)]
  BY <1>1
<1>4. \A k \in DOMAIN (s \o t) : Sound((s \o t)[k])
  <2>1. \A b \in Blocks(s) \cup Blocks(t) : Sound(b)
    BY DEF Good, Blocks
  <2> QED BY <1>1, <2>1, BlocksConcat DEF Blocks
<1>5. ASSUME NEW j \in DOMAIN (s \o t), NEW k \in DOMAIN (s \o t), j < k
      PROVE  (s \o t)[j].at + (s \o t)[j].size < (s \o t)[k].at
  <2>1. CASE k <= Len(s)
    <3>1. j \in DOMAIN s /\ k \in DOMAIN s /\ j <= Len(s)
      BY <1>2, <1>5, <2>1
    <3>2. s[j].at + s[j].size < s[k].at
      BY <1>5, <3>1 DEF Good, Sorted
    <3> QED BY <1>2, <1>3, <2>1, <3>1, <3>2
  <2>2. CASE j > Len(s)
    <3>1. j - Len(s) \in DOMAIN t /\ k - Len(s) \in DOMAIN t /\ j - Len(s) < k - Len(s) /\ ~(j <= Len(s)) /\ ~(k <= Len(s))
      BY <1>2, <1>5, <2>2
    <3>2. t[j - Len(s)].at + t[j - Len(s)].size < t[k - Len(s)].at
      BY <3>1 DEF Good, Sorted
    <3> QED BY <1>2, <1>3, <3>1, <3>2
  <2>3. CASE j <= Len(s) /\ ~(k <= Len(s))
    <3>1. j \in DOMAIN s /\ k - Len(s) \in DOMAIN t
      BY <1>2, <1>5, <2>3
    <3>2. s[j].at + s[j].size < t[k - Len(s)].at
      BY <3>1 DEF Before, Blocks
    <3> QED BY <1>2, <1>3, <2>3, <3>2
  <2> QED BY <1>2, <2>1, <2>2, <2>3
<1> QED BY <1>1, <1>2, <1>4, <1>5, BlocksConcat DEF Good, Sorted

Run(l, a, b) == {l[k] : k \in a..b}
LEMMA GoodPart ==
  ASSUME NEW l, Good(l), NEW a \in Nat, NEW b \in Nat, 1 <= a, b <= Len(l)
  PROVE  Good(SubSeq(l, a, b)) /\ Blocks(SubSeq(l, a, b)) = Run(l, a, b)
<1>1. l \in Seq(Block) /\ Len(l) \in Nat /\ DOMAIN l = 1..Len(l)
  BY DEF Good
<1>2. \A k \in a..b : l[k] \in Block /\ k \in DOMAIN l
  BY <1>1
<1>3. /\ SubSeq(l, a, b) \in Seq(Block) /\ Len(SubSeq(l, a, b)) = IF a <= b THEN b - a + 1 ELSE 0
      /\ \A i \in 1..(b - a + 1) : SubSeq(l, a, b)[i] = l[a + i - 1]
  BY <1>2, SubSeqProperties
<1>4. DOMAIN SubSeq(l, a, b) = 1..(b - a + 1)
  BY <1>3
<1>5. \A i \in DOMAIN SubSeq(l, a, b) : a + i - 1 \in a..b /\ SubSeq(l, a, b)[i] = l[a + i - 1]
  BY <1>3, <1>4
<1>6. ASSUME NEW k \in a..b PROVE l[k] \in Blocks(SubSeq(l, a, b))
  <2>1. k - a + 1 \in 1..(b - a + 1) /\ a + (k - a + 1) - 1 = k
    OBVIOUS
  <2> QED BY <1>3, <1>4, <2>1 DEF Blocks
<1>7. Blocks(SubSeq(l, a, b)) = Run(l, a, b)
  <2>1. \A x \in Blocks(SubSeq(l, a, b)) : x \in Run(l, a, b)
    BY <1>5 DEF Blocks, Run
  <2>2. \A x \in Run(l, a, b) : x \in Blocks(SubSeq(l, a, b))
    BY <1>6 DEF Run
  <2> QED BY <2>1, <2>2
<1>8. \A i \in DOMAIN SubSeq(l, a, b) : Sound(SubSeq(l, a, b)[i])
  BY <1>2, <1>5 DEF Good
<1>9. Sorted(SubSeq(l, a, b))
  <2> SUFFICES ASSUME NEW j \in DOMAIN SubSeq(l, a, b), NEW k \in DOMAIN SubSeq(l, a, b), j < k
               PROVE  SubSeq(l, a, b)[j].at + SubSeq(l, a, b)[j].size < SubSeq(l, a, b)[k].at
    BY DEF Sorted
  <2>1. a + j - 1 \in DOMAIN l /\ a + k - 1 \in DOMAIN l /\ a + j - 1 < a + k - 1
    BY <1>2, <1>4, <1>5
  <2>2. l[a + j - 1].at + l[a + j - 1].size < l[a + k - 1].at
    BY <2>1 DEF Good, Sorted
  <2> QED BY <1>5, <2>2
<1> QED BY <1>3, <1>7, <1>8, <1>9 DEF Good

\* In a list one run of blocks is replaced by others that lie where it lay.
Part(l, a, b) == a \in Nat /\ b \in Nat /\ 1 <= a /\ a - 1 <= b /\ b <= Len(l)
Spliced(l, a, b, mid) == Blocks(Splice(l, a, b, mid)) = Run(l, 1, a - 1) \cup Blocks(mid) \cup Run(l, b + 1, Len(l))

LEMMA SpliceGood ==
  ASSUME NEW l, NEW mid, Good(l), Good(mid), NEW a, NEW b, Part(l, a, b),
         Before(Run(l, 1, a - 1), Blocks(mid)), Before(Blocks(mid), Run(l, b + 1, Len(l)))
  PROVE  /\ Good(Splice(l, a, b, mid))
         /\ Spliced(l, a, b, mid)
<1>0. a \in Nat /\ b \in Nat /\ 1 <= a /\ a - 1 <= b /\ b <= Len(l)
  BY DEF Part
<1>1. l \in Seq(Block) /\ Len(l) \in Nat /\ mid \in Seq(Block) /\ DOMAIN l = 1..Len(l)
  BY DEF Good
<1>2. Good(SubSeq(l, 1, a - 1)) /\ Blocks(SubSeq(l, 1, a - 1)) = Run(l, 1, a - 1)
  <2>1. a - 1 \in Nat /\ a - 1 <= Len(l)
    BY <1>0, <1>1
  <2> QED BY <1>0, <2>1, GoodPart
<1>3. Good(SubSeq(l, b + 1, Len(l))) /\ Blocks(SubSeq(l, b + 1, Len(l))) = Run(l, b + 1, Len(l))
  <2>1. b + 1 \in Nat /\ 1 <= b + 1
    BY <1>0
  <2> QED BY <1>0, <1>1, <2>1, GoodPart
<1>4. Before(Run(l, 1, a - 1), Run(l, b + 1, Len(l)))
  <2>1. ASSUME NEW j \in 1..(a - 1), NEW k \in (b + 1)..Len(l) PROVE l[j].at + l[j].size < l[k].at
    <3>1. j \in DOMAIN l /\ k \in DOMAIN l /\ j < k
      BY <1>0, <1>1
    <3> QED BY <3>1 DEF Good, Sorted
  <2> QED BY <2>1 DEF Before, Run
<1>5. /\ Good(SubSeq(l, 1, a - 1) \o mid)
      /\ Blocks(SubSeq(l, 1, a - 1) \o mid) = Run(l, 1, a - 1) \cup Blocks(mid)
  <2>1. Before(Blocks(SubSeq(l, 1, a - 1)), Blocks(mid))
    BY <1>0, <1>2
  <2> QED BY <1>0, <1>2, <2>1, GoodConcat
<1>6. Before(Run(l, 1, a - 1) \cup Blocks(mid), Run(l, b + 1, Len(l)))
  BY <1>0, <1>4 DEF Before
<1> QED
  <2> PICK p : p = SubSeq(l, 1, a - 1) \o mid
    OBVIOUS
  <2> PICK t : t = SubSeq(l, b + 1, Len(l))
    OBVIOUS
  <2>1. Before(Blocks(p), Blocks(t))
    BY <1>0, <1>3, <1>5, <1>6
  <2>2. Good(p \o t) /\ Blocks(p \o t) = Blocks(p) \cup Blocks(t)
    BY <1>0, <1>3, <1>5, <2>1, GoodConcat
  <2>3. p \o t = Splice(l, a, b, mid)
    BY DEF Splice
  <2> QED BY <1>0, <1>3, <1>5, <2>2, <2>3 DEF Spliced

\* The bytes of a list are those of its blocks, and each is in one of them.
LEMMA InExtent ==
  ASSUME NEW x, NEW at \in Int, NEW size \in Int
  PROVE  x \in Extent(at, size) <=> x \in Int /\ at <= x /\ x < at + size
BY DEF Extent

LEMMA OneBlock ==
  ASSUME HeapConstants, NEW l, Good(l), NEW j \in DOMAIN l, NEW k \in DOMAIN l, NEW x,
         x \in Extent(l[j].at, l[j].size), x \in Extent(l[k].at, l[k].size)
  PROVE  j = k
<1>1. j \in Nat /\ k \in Nat
  BY DEF Good
<1>2. /\ l[j].at \in Nat /\ l[j].size \in Nat /\ l[k].at \in Nat /\ l[k].size \in Nat
  BY SoundBlock DEF Good
<1>3. x \in Int /\ l[j].at <= x /\ x < l[j].at + l[j].size /\ l[k].at <= x /\ x < l[k].at + l[k].size
  BY <1>2, InExtent
<1>4. j < k => l[j].at + l[j].size < l[k].at
  BY DEF Good, Sorted
<1>5. k < j => l[k].at + l[k].size < l[j].at
  BY DEF Good, Sorted
<1> QED BY <1>1, <1>2, <1>3, <1>4, <1>5

Rest(l, a, b) == Bytes(Run(l, 1, a - 1)) \cup Bytes(Run(l, b + 1, Len(l)))
LEMMA SpliceFree ==
  ASSUME HeapConstants, NEW l, NEW mid, Good(l), NEW a, NEW b, Part(l, a, b),
         Spliced(l, a, b, mid)
  PROVE  /\ FreeIn(Splice(l, a, b, mid)) = Rest(l, a, b) \cup FreeIn(mid)
         /\ FreeIn(l) = Rest(l, a, b) \cup Bytes(Run(l, a, b))
         /\ Rest(l, a, b) \cap Bytes(Run(l, a, b)) = {}
<1> PICK rest : rest = Rest(l, a, b)
  OBVIOUS
<1>0. a \in Nat /\ b \in Nat /\ 1 <= a /\ a - 1 <= b /\ b <= Len(l)
  BY DEF Part
<1>1. Len(l) \in Nat /\ DOMAIN l = 1..Len(l)
  BY DEF Good
<1>2. FreeIn(Splice(l, a, b, mid)) = rest \cup FreeIn(mid)
  BY DEF FreeIn, Bytes, Spliced, Rest
<1>3. Blocks(l) = Run(l, 1, a - 1) \cup Run(l, a, b) \cup Run(l, b + 1, Len(l))
  <2>1. DOMAIN l = (1..(a - 1)) \cup (a..b) \cup ((b + 1)..Len(l))
    BY <1>0, <1>1
  <2> QED BY <2>1 DEF Blocks, Run
<1>4. FreeIn(l) = rest \cup Bytes(Run(l, a, b))
  BY <1>0, <1>3 DEF FreeIn, Bytes, Rest
<1>5. ASSUME NEW j \in DOMAIN l, NEW k \in a..b, j \notin a..b, NEW x,
             x \in Extent(l[j].at, l[j].size), x \in Extent(l[k].at, l[k].size)
      PROVE  FALSE
  <2>1. k \in DOMAIN l
    BY <1>0, <1>1
  <2> QED BY <1>0, <1>5, <2>1, OneBlock
<1>6. \A j \in (1..(a - 1)) \cup ((b + 1)..Len(l)) : j \in DOMAIN l /\ j \notin a..b
  BY <1>0, <1>1
<1>7. rest \cap Bytes(Run(l, a, b)) = {}
  <2> SUFFICES ASSUME NEW x \in rest, x \in Bytes(Run(l, a, b)) PROVE FALSE
    OBVIOUS
  <2>1. PICK k \in a..b : x \in Extent(l[k].at, l[k].size)
    BY DEF Bytes, Run
  <2>2. PICK j \in (1..(a - 1)) \cup ((b + 1)..Len(l)) : x \in Extent(l[j].at, l[j].size)
    BY DEF Bytes, Run, Rest
  <2> QED BY <1>0, <1>5, <1>6, <2>1, <2>2
<1> QED BY <1>0, <1>2, <1>4, <1>7

LEMMA Replaced ==
  ASSUME HeapConstants, NEW l, NEW mid, Good(l), Good(mid), NEW a, NEW b, Part(l, a, b),
         Before(Run(l, 1, a - 1), Blocks(mid)), Before(Blocks(mid), Run(l, b + 1, Len(l)))
  PROVE  /\ Good(Splice(l, a, b, mid)) /\ FreeIn(Splice(l, a, b, mid)) = Rest(l, a, b) \cup FreeIn(mid)
         /\ FreeIn(l) = Rest(l, a, b) \cup Bytes(Run(l, a, b))
         /\ Rest(l, a, b) \cap Bytes(Run(l, a, b)) = {}
<1>1. Good(Splice(l, a, b, mid)) /\ Spliced(l, a, b, mid)
  BY SpliceGood
<1> QED BY <1>1, SpliceFree

------------------------------------------------------------------------------
\* What a request takes of a block, and what it leaves.
LEMMA RoundBlock ==
  ASSUME HeapConstants, NEW size \in Nat
  PROVE  /\ round_block(size) \in Nat /\ round_block(size) >= 1 /\ round_block(size) >= size
         /\ Of(ALIGN, round_block(size))
<1> PICK s : s = IF size < HDR THEN HDR ELSE size
  OBVIOUS
<1>1. s \in Nat /\ s >= size /\ s >= 1 /\ ALIGN \in Nat \ {0}
  BY Constants
<1>2. align_up(s, ALIGN) \in Nat /\ s <= align_up(s, ALIGN) /\ Of(ALIGN, align_up(s, ALIGN))
  BY <1>1, AlignUp
<1>3. round_block(size) = align_up(s, ALIGN)
  BY DEF round_block
<1> QED BY <1>1, <1>2, <1>3

LEMMA OneGood ==
  ASSUME NEW b, Sound(b)
  PROVE  Good(<<b>>) /\ Blocks(<<b>>) = {b} /\ FreeIn(<<b>>) = Extent(b.at, b.size)
<1>1. b \in Block /\ DOMAIN <<b>> = {1} /\ <<b>>[1] = b
  BY DEF Sound
<1>2. <<b>> \in Seq(Block)
  BY <1>1
<1>3. Sorted(<<b>>)
  BY <1>1 DEF Sorted
<1>4. Blocks(<<b>>) = {b}
  BY <1>1 DEF Blocks
<1> QED BY <1>1, <1>2, <1>3, <1>4 DEF Good, FreeIn, Bytes

LEMMA GapGood ==
  ASSUME HeapConstants, NEW at \in Nat, NEW size \in Nat, Of(ALIGN, at), Of(ALIGN, size), BASE <= at, at + size <= End
  PROVE  /\ Good(Gap(at, size)) /\ FreeIn(Gap(at, size)) = Extent(at, size)
         /\ \A c \in Blocks(Gap(at, size)) : c.at = at /\ c.size = size
<1>1. ALIGN \in Nat \ {0} /\ HDR \in 1..ALIGN /\ BASE \in Nat /\ End \in Nat
  BY Constants
<1>2. CASE size = 0
  <2>1. Gap(at, size) = <<>>
    BY <1>1, <1>2 DEF Gap
  <2>2. Good(<<>>) /\ Blocks(<<>>) = {}
    BY DEF Good, Sorted, Blocks
  <2>3. Extent(at, size) = {}
    BY <1>2 DEF Extent
  <2> QED BY <2>1, <2>2, <2>3 DEF FreeIn, Bytes
<1>3. CASE size > 0
  <2> PICK b : b = [at |-> at, size |-> size]
    OBVIOUS
  <2>1. size >= ALIGN
    BY <1>1, <1>3, OfPositive
  <2>2. Gap(at, size) = <<b>>
    BY <1>1, <2>1 DEF Gap
  <2>3. b.at = at /\ b.size = size /\ at \in BASE..End /\ size \in 1..(End - BASE)
    BY <1>1, <1>3
  <2>4. Sound(b)
    BY <2>3 DEF Sound, Block
  <2> QED BY <2>2, <2>3, <2>4, OneGood
<1> QED BY <1>2, <1>3

LEMMA LeftOverGood ==
  ASSUME HeapConstants, NEW b, Sound(b), NEW size \in Nat, NEW align \in Nat \ {0}, Of(ALIGN, align),
         Fits(b, size, align), NEW p, p = Payload(b, align), NEW need, need = round_block(size)
  PROVE  /\ p \in Nat /\ b.at <= p /\ Of(align, p) /\ Of(ALIGN, p) /\ p + need <= b.at + b.size
         /\ Good(LeftOver(b, size, align))
         /\ \A c \in Blocks(LeftOver(b, size, align)) : b.at <= c.at /\ c.at + c.size <= b.at + b.size
         /\ FreeIn(LeftOver(b, size, align)) = Extent(b.at, b.size) \ Extent(p, need)
<1>1. b.at \in Nat /\ b.size \in Nat /\ BASE <= b.at /\ b.at + b.size <= End /\ Of(ALIGN, b.at) /\ Of(ALIGN, b.size)
  BY SoundBlock DEF Sound
<1>2. need \in Nat /\ need >= 1 /\ Of(ALIGN, need)
  BY RoundBlock
<1>3. ALIGN \in Nat \ {0} /\ BASE \in Nat /\ End \in Nat
  BY Constants
<1>4. p \in Nat /\ b.at <= p /\ Of(align, p)
  BY <1>1, AlignUp DEF Payload
<1>5. Of(ALIGN, p)
  BY <1>3, <1>4, OfTrans
<1>6. p + need <= b.at + b.size
  BY DEF Fits
<1>7. b.at \in Int /\ b.size \in Int /\ p \in Int /\ need \in Int /\ ALIGN \in Int
  BY <1>1, <1>2, <1>3, <1>4
<1>8. Of(ALIGN, p + need) /\ Of(ALIGN, p - b.at) /\ Of(ALIGN, b.at + b.size - (p + need))
  BY <1>1, <1>2, <1>5, <1>7, Cuts, Zenon
<1> PICK at, end, pre, post : at = b.at /\ end = b.at + b.size /\ pre = p - b.at /\ post = b.at + b.size - (p + need)
  OBVIOUS
<1>9. /\ at \in Nat /\ end \in Nat /\ pre \in Nat /\ post \in Nat /\ p + need \in Nat
      /\ at + pre = p /\ p + need + post = end /\ end <= End /\ BASE <= at /\ BASE <= p + need
  BY <1>1, <1>2, <1>3, <1>4, <1>6
<1>10. at + pre <= End
  BY <1>2, <1>3, <1>9
<1>11. /\ Good(Gap(at, pre)) /\ FreeIn(Gap(at, pre)) = Extent(at, pre)
       /\ \A c \in Blocks(Gap(at, pre)) : c.at = at /\ c.size = pre
  BY <1>1, <1>8, <1>9, <1>10, GapGood
<1>12. /\ Good(Gap(p + need, post)) /\ FreeIn(Gap(p + need, post)) = Extent(p + need, post)
       /\ \A c \in Blocks(Gap(p + need, post)) : c.at = p + need /\ c.size = post
  BY <1>8, <1>9, GapGood
<1>13. Before(Blocks(Gap(at, pre)), Blocks(Gap(p + need, post)))
  <2>1. at + pre < p + need
    BY <1>2, <1>4, <1>9
  <2> QED BY <1>11, <1>12, <2>1 DEF Before
<1>14. LeftOver(b, size, align) = Gap(at, pre) \o Gap(p + need, post)
  BY DEF LeftOver
<1>15. /\ Good(LeftOver(b, size, align))
       /\ Blocks(LeftOver(b, size, align)) = Blocks(Gap(at, pre)) \cup Blocks(Gap(p + need, post))
  BY <1>11, <1>12, <1>13, <1>14, GoodConcat
<1>16. \A c \in Blocks(LeftOver(b, size, align)) : at <= c.at /\ c.at + c.size <= end
  <2>1. at <= at /\ at + pre <= end /\ at <= p + need /\ p + need + post <= end
    BY <1>2, <1>4, <1>6, <1>9
  <2> QED BY <1>11, <1>12, <1>15, <2>1
<1>17. FreeIn(LeftOver(b, size, align)) = Extent(at, pre) \cup Extent(p + need, post)
  BY <1>11, <1>12, <1>15 DEF FreeIn, Bytes
<1>18. Extent(at, pre) \cup Extent(p + need, post) = Extent(at, b.size) \ Extent(p, need)
  <2>1. \A x : x \in Extent(at, pre) <=> x \in Int /\ at <= x /\ x < p
    BY <1>9 DEF Extent
  <2>2. \A x : x \in Extent(p + need, post) <=> x \in Int /\ p + need <= x /\ x < end
    BY <1>9 DEF Extent
  <2>3. \A x : x \in Extent(at, b.size) <=> x \in Int /\ at <= x /\ x < end
    BY <1>1, <1>9 DEF Extent
  <2>4. \A x : x \in Extent(p, need) <=> x \in Int /\ p <= x /\ x < p + need
    BY <1>2, <1>4 DEF Extent
  <2>5. at <= p /\ p <= p + need /\ p + need <= end
    BY <1>1, <1>2, <1>4, <1>6, <1>9
  <2> QED BY <1>4, <1>9, <2>1, <2>2, <2>3, <2>4, <2>5
<1> QED BY <1>4, <1>5, <1>6, <1>15, <1>16, <1>17, <1>18


\* Numbers have a least one: for the first block that fits.
WellOrdered == \A S \in SUBSET Nat : S # {} => \E x \in S : \A y \in S : x <= y
LEMMA MinLeast ==
  ASSUME WellOrdered, NEW S \in SUBSET Nat, S # {}
  PROVE  Min(S) \in S /\ \A y \in S : Min(S) <= y
BY DEF WellOrdered, Min

\* What is cut out of a block is free no more, and all else stays as it was.
LEMMA CutGood ==
  ASSUME HeapConstants, NEW l, Good(l), NEW k \in DOMAIN l, NEW size \in Nat, NEW align \in Nat \ {0}, Of(ALIGN, align),
         Fits(l[k], size, align)
  PROVE  /\ Good(Cut(l, k, size, align))
         /\ FreeIn(Cut(l, k, size, align)) = FreeIn(l) \ Extent(Payload(l[k], align), round_block(size))
         /\ Extent(Payload(l[k], align), round_block(size)) \subseteq FreeIn(l)
<1> PICK U : U = Extent(Payload(l[k], align), round_block(size))
  OBVIOUS
<1> PICK mid : mid = LeftOver(l[k], size, align)
  OBVIOUS
<1>1. Sound(l[k]) /\ Len(l) \in Nat /\ DOMAIN l = 1..Len(l) /\ k \in Nat /\ 1 <= k /\ k <= Len(l)
  BY DEF Good
<1> PICK b : b = l[k]
  OBVIOUS
<1>2. /\ Payload(b, align) \in Nat /\ b.at <= Payload(b, align) /\ Payload(b, align) + round_block(size) <= b.at + b.size
      /\ Good(mid) /\ FreeIn(mid) = Extent(b.at, b.size) \ U
      /\ \A c \in Blocks(mid) : b.at <= c.at /\ c.at + c.size <= b.at + b.size
  BY <1>1, LeftOverGood
<1>3. b.at \in Nat /\ b.size \in Nat /\ round_block(size) \in Nat
  BY <1>1, SoundBlock, RoundBlock
<1>4. \A c \in Blocks(mid) : c.at \in Nat /\ c.size \in Nat
  <2>1. \A c \in Blocks(mid) : Sound(c)
    BY <1>2 DEF Good, Blocks
  <2> QED BY <2>1, SoundBlock
<1>5. \A j \in DOMAIN l : l[j].at \in Nat /\ l[j].size \in Nat
  BY SoundBlock DEF Good
<1>6. Before(Run(l, 1, k - 1), Blocks(mid))
  <2> SUFFICES ASSUME NEW j \in 1..(k - 1), NEW c \in Blocks(mid) PROVE l[j].at + l[j].size < c.at
    BY DEF Before, Run
  <2>1. j \in DOMAIN l /\ j < k
    BY <1>1
  <2>2. l[j].at + l[j].size < b.at
    BY <1>1, <2>1 DEF Good, Sorted
  <2> QED BY <1>2, <1>3, <1>4, <1>5, <2>1, <2>2
<1>7. Before(Blocks(mid), Run(l, k + 1, Len(l)))
  <2> SUFFICES ASSUME NEW j \in (k + 1)..Len(l), NEW c \in Blocks(mid) PROVE c.at + c.size < l[j].at
    BY DEF Before, Run
  <2>1. j \in DOMAIN l /\ k < j
    BY <1>1
  <2>2. b.at + b.size < l[j].at
    BY <1>1, <2>1 DEF Good, Sorted
  <2>3. c.at + c.size <= b.at + b.size
    BY <1>2
  <2>4. c.at \in Nat /\ c.size \in Nat /\ l[j].at \in Nat
    BY <1>4, <1>5, <2>1
  <2> QED BY SMTT(60), <1>3, <2>2, <2>3, <2>4
<1>8. Part(l, k, k)
  BY <1>1 DEF Part
<1>9. /\ Good(Splice(l, k, k, mid)) /\ FreeIn(Splice(l, k, k, mid)) = Rest(l, k, k) \cup FreeIn(mid)
      /\ FreeIn(l) = Rest(l, k, k) \cup Bytes(Run(l, k, k))
      /\ Rest(l, k, k) \cap Bytes(Run(l, k, k)) = {}
  BY <1>2, <1>6, <1>7, <1>8, Replaced
<1>10. Bytes(Run(l, k, k)) = Extent(b.at, b.size)
  <2>1. Run(l, k, k) = {b}
    <3>1. k..k = {k}
      BY <1>1
    <3> QED BY <3>1 DEF Run
  <2> QED BY <2>1 DEF Bytes
<1>11. U \subseteq Extent(b.at, b.size)
  BY SMTT(60), <1>2, <1>3 DEF Extent
<1>12. Splice(l, k, k, mid) = Cut(l, k, size, align)
  BY DEF Cut
<1> PICK rest : rest = Rest(l, k, k)
  OBVIOUS
<1>13. rest \cup (Extent(b.at, b.size) \ U) = (rest \cup Extent(b.at, b.size)) \ U
  BY <1>9, <1>10, <1>11
<1> QED BY <1>2, <1>9, <1>10, <1>11, <1>12, <1>13


\* A run of free bytes lies within one block, since no two touch.
LEMMA RunInBlock ==
  ASSUME HeapConstants, NEW l, Good(l), NEW p \in Nat, NEW need \in Nat, need >= 1, Extent(p, need) \subseteq FreeIn(l)
  PROVE  \E k \in DOMAIN l : l[k].at <= p /\ p + need <= l[k].at + l[k].size
<1>1. \A j \in DOMAIN l : l[j].at \in Nat /\ l[j].size \in Nat /\ j \in Nat
  BY SoundBlock DEF Good
<1>2. ASSUME NEW x \in Extent(p, need) PROVE \E j \in DOMAIN l : x \in Int /\ l[j].at <= x /\ x < l[j].at + l[j].size
  <2>1. PICK j \in DOMAIN l : x \in Extent(l[j].at, l[j].size)
    BY <1>2 DEF FreeIn, Bytes, Blocks
  <2> QED BY <1>1, <2>1, InExtent
<1>3. PICK k \in DOMAIN l : l[k].at <= p /\ p < l[k].at + l[k].size
  <2>1. p \in Extent(p, need)
    BY DEF Extent
  <2> QED BY <1>2, <2>1
<1>4. ASSUME ~(p + need <= l[k].at + l[k].size) PROVE FALSE
  <2> PICK e : e = l[k].at + l[k].size
    OBVIOUS
  <2>1. e \in Extent(p, need)
    BY <1>1, <1>3, <1>4 DEF Extent
  <2>2. PICK j \in DOMAIN l : l[j].at <= e /\ e < l[j].at + l[j].size
    BY <1>2, <2>1
  <2>3. j < k => l[j].at + l[j].size < l[k].at
    BY DEF Good, Sorted
  <2>4. k < j => e < l[j].at
    BY DEF Good, Sorted
  <2>5. j # k
    BY <1>1, <2>2
  <2>6. l[k].at <= e
    BY <1>1
  <2> QED BY <1>1, <2>2, <2>3, <2>4, <2>5, <2>6
<1> QED BY <1>3, <1>4

\* What is given back joins the free blocks it touches, and all else stays as it was.
Between(l, at, end, p) ==
    /\ p \in 0..Len(l) /\ \A k \in 1..p : l[k].at + l[k].size <= at
    /\ \A k \in (p + 1)..Len(l) : end <= l[k].at

LEMMA JoinSound ==
  ASSUME HeapConstants, NEW l, Good(l), NEW at \in Nat, NEW end \in Nat, at < end, Of(ALIGN, at), Of(ALIGN, end),
         BASE <= at, end <= End, NEW p, Between(l, at, end, p),
         NEW f, f = JoinFrom(l, at, p), NEW e, e = JoinTo(l, end, p)
  PROVE  /\ f \in Nat /\ e \in Nat /\ f <= at /\ end <= e
         /\ Sound([at |-> f, size |-> e - f])
<1>1. ALIGN \in Nat \ {0} /\ BASE \in Nat /\ End \in Nat
  BY Constants
<1>2. p \in Nat /\ Len(l) \in Nat /\ DOMAIN l = 1..Len(l) /\ p <= Len(l)
  BY DEF Between, Good
<1>3. \A k \in DOMAIN l : /\ l[k].at \in Nat /\ l[k].size \in Nat /\ BASE <= l[k].at /\ l[k].at + l[k].size <= End
                          /\ Of(ALIGN, l[k].at) /\ Of(ALIGN, l[k].size)
  BY SoundBlock DEF Good, Sound
<1>4. f \in Nat /\ f <= at /\ BASE <= f /\ Of(ALIGN, f)
  <2>1. CASE PrevAdj(l, at, p)
    <3>1. p \in DOMAIN l /\ f = l[p].at /\ l[p].at + l[p].size = at
      BY <1>2, <2>1 DEF PrevAdj, JoinFrom
    <3> QED BY <1>3, <3>1
  <2>2. CASE ~PrevAdj(l, at, p)
    BY <2>2 DEF JoinFrom
  <2> QED BY <2>1, <2>2
<1>5. e \in Nat /\ end <= e /\ e <= End /\ Of(ALIGN, e)
  <2>1. CASE CurAdj(l, end, p)
    <3>1. p + 1 \in DOMAIN l /\ e = l[p + 1].at + l[p + 1].size /\ end = l[p + 1].at
      BY <1>2, <2>1 DEF CurAdj, JoinTo
    <3> PICK q : q = p + 1
      OBVIOUS
    <3>2. Of(ALIGN, l[q].at) /\ Of(ALIGN, l[q].size) /\ l[q].at \in Int /\ l[q].size \in Int /\ ALIGN \in Int
      BY <1>1, <1>3, <3>1
    <3>3. Of(ALIGN, l[q].at + l[q].size)
      BY <3>2, OfSum, Zenon
    <3> QED BY <1>3, <3>1, <3>3
  <2>2. CASE ~CurAdj(l, end, p)
    BY <2>2 DEF JoinTo
  <2> QED BY <2>1, <2>2
<1>6. Of(ALIGN, e - f)
  <2>1. ALIGN \in Int /\ e \in Int /\ f \in Int
    BY <1>1, <1>4, <1>5
  <2> QED BY <1>4, <1>5, <2>1, OfSum, Zenon
<1> PICK n : n = e - f
  OBVIOUS
<1>7. n \in 1..(End - BASE) /\ f \in BASE..End /\ f + n <= End
  BY <1>1, <1>4, <1>5
<1>8. Sound([at |-> f, size |-> n])
  BY <1>4, <1>6, <1>7 DEF Sound, Block
<1> QED BY <1>4, <1>5, <1>8

LEMMA JoinApart ==
  ASSUME HeapConstants, NEW l, Good(l), NEW at \in Nat, NEW end \in Nat, at < end, NEW p, Between(l, at, end, p),
         NEW f \in Nat, f = JoinFrom(l, at, p), NEW e \in Nat, e = JoinTo(l, end, p),
         NEW a, a = JoinFirst(l, at, p), NEW b, b = JoinLast(l, end, p)
  PROVE  /\ Part(l, a, b) /\ a \in Nat /\ b \in Nat
         /\ \A k \in 1..(a - 1) : l[k].at + l[k].size < f
         /\ \A k \in (b + 1)..Len(l) : e < l[k].at
<1>1. p \in Nat /\ Len(l) \in Nat /\ DOMAIN l = 1..Len(l) /\ p <= Len(l)
  BY DEF Between, Good
<1>2. \A k \in DOMAIN l : l[k].at \in Nat /\ l[k].size \in Nat /\ l[k].size >= 1
  BY SoundBlock DEF Good
<1>3. \A j, k \in DOMAIN l : j < k => l[j].at + l[j].size < l[k].at
  BY DEF Good, Sorted
<1>4. a \in Nat /\ b \in Nat /\ 1 <= a /\ a - 1 <= b /\ b <= Len(l)
  BY <1>1 DEF PrevAdj, CurAdj, JoinFirst, JoinLast
<1>5. ASSUME NEW k \in 1..(a - 1) PROVE l[k].at + l[k].size < f
  <2>1. CASE PrevAdj(l, at, p)
    <3>1. p \in DOMAIN l /\ f = l[p].at /\ k \in DOMAIN l /\ k < p
      BY <1>1, <2>1 DEF PrevAdj, JoinFrom, JoinFirst
    <3> QED BY <1>3, <3>1
  <2>2. CASE ~PrevAdj(l, at, p)
    <3>1. f = at /\ k \in 1..p /\ p > 0 /\ k \in DOMAIN l /\ p \in DOMAIN l /\ k \in Nat
      BY <1>1, <2>2 DEF JoinFrom, JoinFirst
    <3>2. l[p].at + l[p].size <= at /\ l[p].at + l[p].size # at
      BY <2>2, <3>1 DEF Between, PrevAdj
    <3>3. k < p => l[k].at + l[k].size < l[p].at
      BY <1>3, <3>1
    <3>4. k = p \/ k < p
      BY <1>1, <3>1
    <3> QED BY <1>2, <3>1, <3>2, <3>3, <3>4
  <2> QED BY <2>1, <2>2
<1>6. ASSUME NEW k \in (b + 1)..Len(l) PROVE e < l[k].at
  <2> PICK q : q = p + 1
    OBVIOUS
  <2>1. CASE CurAdj(l, end, p)
    <3>1. q \in DOMAIN l /\ e = l[q].at + l[q].size /\ k \in DOMAIN l /\ q < k
      BY <1>1, <2>1 DEF CurAdj, JoinTo, JoinLast
    <3> QED BY <1>3, <3>1
  <2>2. CASE ~CurAdj(l, end, p)
    <3>1. e = end /\ k \in q..Len(l) /\ k \in DOMAIN l /\ q \in DOMAIN l /\ k \in Nat /\ q \in q..Len(l) /\ p < Len(l)
      BY <1>1, <2>2 DEF JoinTo, JoinLast
    <3>2. end <= l[q].at /\ end # l[q].at
      BY <2>2, <3>1 DEF Between, CurAdj
    <3>3. q < k => l[q].at + l[q].size < l[k].at
      BY <1>3, <3>1
    <3>4. k = q \/ q < k
      BY <1>1, <3>1
    <3> QED BY <1>2, <3>1, <3>2, <3>3, <3>4
  <2> QED BY <2>1, <2>2
<1> QED BY <1>4, <1>5, <1>6 DEF Part

LEMMA JoinBytes ==
  ASSUME HeapConstants, NEW l, Good(l), NEW at \in Nat, NEW end \in Nat, at < end, NEW p, Between(l, at, end, p),
         NEW f \in Nat, f = JoinFrom(l, at, p), NEW e \in Nat, e = JoinTo(l, end, p), f <= at, end <= e,
         NEW a, a = JoinFirst(l, at, p), NEW b, b = JoinLast(l, end, p)
  PROVE  Extent(f, e - f) = Bytes(Run(l, a, b)) \cup Extent(at, end - at)
<1>1. p \in Nat /\ Len(l) \in Nat /\ DOMAIN l = 1..Len(l) /\ p <= Len(l)
  BY DEF Between, Good
<1>2. \A k \in DOMAIN l : l[k].at \in Nat /\ l[k].size \in Nat
  BY SoundBlock DEF Good
<1>3. \A x : x \in Extent(f, e - f) <=> x \in Int /\ f <= x /\ x < e
  BY DEF Extent
<1>4. \A x : x \in Extent(at, end - at) <=> x \in Int /\ at <= x /\ x < end
  BY DEF Extent
<1>5. \A x : x \in Bytes(Run(l, a, b)) <=> \E k \in a..b : x \in Extent(l[k].at, l[k].size)
  BY DEF Bytes, Run
<1> PICK q : q = p + 1
  OBVIOUS
<1>6. PrevAdj(l, at, p) => p \in DOMAIN l /\ p \in a..b /\ f = l[p].at /\ l[p].at + l[p].size = at
  BY <1>1 DEF PrevAdj, CurAdj, JoinFirst, JoinLast, JoinFrom
<1>7. CurAdj(l, end, p) => q \in DOMAIN l /\ q \in a..b /\ e = l[q].at + l[q].size /\ l[q].at = end
  BY <1>1 DEF PrevAdj, CurAdj, JoinFirst, JoinLast, JoinTo
<1>8. \A k \in a..b : (k = p /\ PrevAdj(l, at, p)) \/ (k = q /\ CurAdj(l, end, p))
  BY <1>1 DEF PrevAdj, CurAdj, JoinFirst, JoinLast
<1>9. ASSUME NEW x, NEW k \in a..b, x \in Extent(l[k].at, l[k].size) PROVE x \in Extent(f, e - f)
  <2>1. CASE k = p /\ PrevAdj(l, at, p)
    <3>1. x \in Int /\ l[p].at <= x /\ x < l[p].at + l[p].size
      BY <1>2, <1>6, <1>9, <2>1, InExtent
    <3> QED BY <1>3, <1>6, <2>1, <3>1
  <2>2. CASE k = q /\ CurAdj(l, end, p)
    <3>1. x \in Int /\ l[q].at <= x /\ x < l[q].at + l[q].size
      BY <1>2, <1>7, <1>9, <2>2, InExtent
    <3> QED BY <1>3, <1>7, <2>2, <3>1
  <2> QED BY <1>8, <2>1, <2>2
<1>10. ASSUME NEW x \in Extent(f, e - f), ~(x \in Extent(at, end - at)) PROVE x \in Bytes(Run(l, a, b))
  <2>1. x \in Int /\ f <= x /\ x < e /\ (x < at \/ end <= x)
    BY <1>3, <1>4, <1>10
  <2>2. CASE x < at
    <3>1. PrevAdj(l, at, p)
      BY <2>1, <2>2 DEF JoinFrom
    <3>2. x \in Extent(l[p].at, l[p].size)
      BY <1>2, <1>6, <2>1, <2>2, <3>1, InExtent
    <3> QED BY <1>5, <1>6, <3>1, <3>2
  <2>3. CASE end <= x
    <3>1. CurAdj(l, end, p)
      BY <2>1, <2>3 DEF JoinTo
    <3>2. x \in Extent(l[q].at, l[q].size)
      BY <1>2, <1>7, <2>1, <2>3, <3>1, InExtent
    <3> QED BY <1>5, <1>7, <3>1, <3>2
  <2> QED BY <2>1, <2>2, <2>3
<1>11. \A x \in Extent(at, end - at) : x \in Extent(f, e - f)
  BY <1>3, <1>4
<1> QED BY <1>5, <1>9, <1>10, <1>11

LEMMA PrevBetween ==
  ASSUME HeapConstants, WellOrdered, NEW l, Good(l), NEW at \in Nat, NEW end \in Nat, at < end,
         \A k \in DOMAIN l : l[k].at + l[k].size <= at \/ end <= l[k].at
  PROVE  Between(l, at, end, Prev(l, at))
<1>1. Len(l) \in Nat /\ DOMAIN l = 1..Len(l)
  BY DEF Good
<1>2. \A k \in DOMAIN l : l[k].at \in Nat /\ l[k].size \in Nat /\ l[k].size >= 1
  BY SoundBlock DEF Good
<1> PICK behind : behind = {k \in DOMAIN l : l[k].at >= at}
  OBVIOUS
<1>3. CASE behind = {}
  <2>1. Prev(l, at) = Len(l)
    BY <1>3 DEF Prev
  <2>2. \A k \in DOMAIN l : l[k].at + l[k].size <= at
    <3>1. \A k \in DOMAIN l : l[k].at < at
      BY <1>2, <1>3
    <3> QED BY <1>2, <3>1
  <2>3. Len(l) \in 0..Len(l) /\ (Len(l) + 1)..Len(l) = {}
    BY <1>1
  <2> QED BY <1>1, <2>1, <2>2, <2>3 DEF Between
<1>4. CASE behind # {}
  <2> PICK n : n = Min(behind)
    OBVIOUS
  <2>1. n \in DOMAIN l /\ l[n].at >= at /\ \A k \in behind : n <= k
    <3>1. behind \subseteq Nat
      BY <1>1
    <3> QED BY <1>4, <3>1, MinLeast
  <2>2. Prev(l, at) = n - 1
    BY <1>4 DEF Prev
  <2> PICK p \in 0..Len(l) : p = n - 1 /\ n = p + 1
    <3>1. n \in Int /\ 1 <= n /\ n <= Len(l) /\ n - 1 \in 0..Len(l) /\ n - 1 + 1 = n
      BY <1>1, <2>1
    <3> QED BY <3>1
  <2>3. ASSUME NEW k \in 1..p PROVE l[k].at + l[k].size <= at
    <3>1. k \in DOMAIN l /\ ~(n <= k)
      BY <1>1, <2>1
    <3>2. ~(l[k].at >= at)
      BY <2>1, <3>1
    <3> QED BY <1>2, <3>1, <3>2
  <2>4. ASSUME NEW k \in n..Len(l) PROVE end <= l[k].at
    <3>1. k \in DOMAIN l /\ (k = n \/ n < k)
      BY <1>1, <2>1
    <3>2. n < k => l[n].at + l[n].size < l[k].at
      BY <2>1, <3>1 DEF Good, Sorted
    <3>3. at <= l[k].at
      BY <1>2, <2>1, <3>1, <3>2
    <3> QED BY <1>2, <3>1, <3>3
  <2>5. Between(l, at, end, p)
    BY <2>3, <2>4 DEF Between
  <2> QED BY <2>2, <2>5
<1> QED BY <1>3, <1>4

LEMMA JoinGood ==
  ASSUME HeapConstants, WellOrdered, NEW l, Good(l), NEW at \in Nat, NEW end \in Nat, at < end, Of(ALIGN, at), Of(ALIGN, end),
         BASE <= at, end <= End, \A k \in DOMAIN l : l[k].at + l[k].size <= at \/ end <= l[k].at
  PROVE  Good(Join(l, at, end)) /\ FreeIn(Join(l, at, end)) = FreeIn(l) \cup Extent(at, end - at)
<1> PICK p : p = Prev(l, at)
  OBVIOUS
<1> PICK f, e : f = JoinFrom(l, at, p) /\ e = JoinTo(l, end, p)
  OBVIOUS
<1> PICK a, b : a = JoinFirst(l, at, p) /\ b = JoinLast(l, end, p)
  OBVIOUS
<1>1. Between(l, at, end, p)
  BY PrevBetween
<1>2. f \in Nat /\ e \in Nat /\ f <= at /\ end <= e /\ Sound([at |-> f, size |-> e - f])
  BY <1>1, JoinSound
<1>3. /\ Part(l, a, b) /\ a \in Nat /\ b \in Nat
      /\ \A k \in 1..(a - 1) : l[k].at + l[k].size < f
      /\ \A k \in (b + 1)..Len(l) : e < l[k].at
  BY <1>1, <1>2, JoinApart
<1>4. Extent(f, e - f) = Bytes(Run(l, a, b)) \cup Extent(at, end - at)
  BY <1>1, <1>2, JoinBytes
<1> PICK c : c = [at |-> f, size |-> e - f]
  OBVIOUS
<1> PICK mid : mid = <<c>>
  OBVIOUS
<1>5. Good(mid) /\ Blocks(mid) = {c} /\ FreeIn(mid) = Extent(f, e - f)
  BY <1>2, OneGood
<1>6. c.at = f /\ c.at + c.size = e
  BY <1>2
<1>7. Before(Run(l, 1, a - 1), Blocks(mid)) /\ Before(Blocks(mid), Run(l, b + 1, Len(l)))
  BY <1>3, <1>5, <1>6 DEF Before, Run
<1>8. /\ Good(Splice(l, a, b, mid)) /\ FreeIn(Splice(l, a, b, mid)) = Rest(l, a, b) \cup FreeIn(mid)
      /\ FreeIn(l) = Rest(l, a, b) \cup Bytes(Run(l, a, b))
  BY <1>3, <1>5, <1>7, Replaced
<1>9. Join(l, at, end) = Splice(l, a, b, mid)
  BY DEF Join
<1> QED BY <1>4, <1>5, <1>8, <1>9

------------------------------------------------------------------------------
\* Held and free parts make up the arena, each byte in one of them.
Arena == Extent(BASE, End - BASE)
HeldOK(h, F) == /\ h \in [at : Nat, size : Sizes, align : Aligns] /\ Of(ALIGN, h.at) /\ h.at % h.align = 0
                /\ Used(h) \subseteq Arena /\ Used(h) \cap F = {}
Parted(F) ==
    /\ \A h \in held : HeldOK(h, F)
    /\ \A g, h \in held : g # h => Used(g) \cap Used(h) = {}
    /\ F \cup InUse = Arena
    /\ live = Cardinality(InUse)
Started == inited \in BOOLEAN /\ (~inited => list = <<>> /\ held = {} /\ refused = {})
IInv == Started /\ Good(Laid) /\ Parted(FreeIn(Laid)) /\ RefusedRightly

LEMMA ExtentSize ==
  ASSUME NEW at \in Int, NEW n \in Nat
  PROVE  IsFiniteSet(Extent(at, n)) /\ Cardinality(Extent(at, n)) = n
<1> PICK z \in Int : z = at + n - 1
  OBVIOUS
<1>1. IsFiniteSet(at..z) /\ Cardinality(at..z) = IF at > z THEN 0 ELSE z - at + 1
  BY FS_Interval
<1>2. (IF at > z THEN 0 ELSE z - at + 1) = n
  OBVIOUS
<1>3. at..z = Extent(at, n)
  BY DEF Extent
<1> QED BY <1>1, <1>2, <1>3

LEMMA UsedBytes ==
  ASSUME HeapConstants, NEW h \in [at : Nat, size : Sizes, align : Aligns]
  PROVE  /\ round_block(h.size) \in Nat /\ round_block(h.size) >= 1 /\ Of(ALIGN, round_block(h.size))
         /\ IsFiniteSet(Used(h)) /\ Cardinality(Used(h)) = round_block(h.size) /\ h.at \in Used(h)
<1> PICK need : need = round_block(h.size)
  OBVIOUS
<1>1. h.at \in Nat /\ h.size \in Nat
  BY DEF HeapConstants
<1>2. need \in Nat /\ need >= 1 /\ Of(ALIGN, need)
  BY <1>1, RoundBlock
<1>3. Used(h) = Extent(h.at, need)
  BY DEF Used
<1>5. IsFiniteSet(Used(h)) /\ Cardinality(Used(h)) = need
  BY <1>1, <1>2, <1>3, ExtentSize
<1>6. h.at \in Used(h)
  BY <1>1, <1>2, <1>3 DEF Extent
<1> QED BY <1>2, <1>5, <1>6

LEMMA InUseFinite ==
  ASSUME HeapConstants, NEW F, Parted(F)
  PROVE  IsFiniteSet(InUse) /\ InUse \subseteq Arena
<1>1. BASE \in Int /\ BASE + (End - BASE) - 1 \in Int
  BY Constants
<1>2. IsFiniteSet(Arena)
  BY <1>1, FS_Interval DEF Arena, Extent
<1>3. InUse \subseteq Arena
  BY DEF Parted
<1> QED BY <1>2, <1>3, FS_Subset

\* Free bytes are given to a new block, or those of a block are given back.
LEMMA Give ==
  ASSUME HeapConstants, NEW F, Parted(F), NEW h, HeldOK(h, {}), Used(h) \subseteq F,
         held' = held \cup {h}, live' = live + round_block(h.size), NEW G, G = F \ Used(h)
  PROVE  Parted(G)'
<1>1. h \in [at : Nat, size : Sizes, align : Aligns]
  BY DEF HeldOK
<1>2. \A g \in held : HeldOK(g, F) /\ Used(g) \cap Used(h) = {}
  BY DEF Parted, HeldOK
<1>3. InUse' = InUse \cup Used(h) /\ InUse \cap Used(h) = {}
  BY <1>2 DEF InUse, Used, Extent
<1>4. live' = Cardinality(InUse')
  <2> PICK S : S = InUse
    OBVIOUS
  <2> PICK T : T = Used(h)
    OBVIOUS
  <2>1. IsFiniteSet(S) /\ IsFiniteSet(T) /\ S \cap T = {} /\ Cardinality(T) = round_block(h.size)
    BY <1>1, <1>3, InUseFinite, UsedBytes
  <2>2. Cardinality(S \cup T) = Cardinality(S) + Cardinality(T) - 0 /\ Cardinality(S) \in Nat
    BY <2>1, FS_Union, FS_EmptySet, FS_CardinalityType
  <2>3. live' = Cardinality(S) + Cardinality(T)
    BY <2>1 DEF Parted
  <2>4. Cardinality(T) \in Nat
    BY <2>1, FS_CardinalityType
  <2>5. Cardinality(S \cup T) = Cardinality(S) + Cardinality(T)
    BY <2>2, <2>4
  <2> QED BY <1>3, <2>3, <2>5
<1>5. G \cup InUse' = Arena
  BY <1>3 DEF Parted
<1>6. \A g \in held' : HeldOK(g, G)
  BY <1>2 DEF HeldOK
<1>7. \A g, k \in held' : g # k => Used(g) \cap Used(k) = {}
  BY <1>2 DEF Parted
<1> QED BY <1>4, <1>5, <1>6, <1>7 DEF Parted

LEMMA TakeBack ==
  ASSUME HeapConstants, NEW F, Parted(F), NEW h \in held,
         held' = held \ {h}, live' = live - round_block(h.size), NEW G, G = F \cup Used(h)
  PROVE  Parted(G)'
<1>1. h \in [at : Nat, size : Sizes, align : Aligns] /\ Used(h) \subseteq Arena
  BY DEF Parted, HeldOK
<1>2. \A g \in held' : g \in held /\ HeldOK(g, F) /\ Used(g) \cap Used(h) = {}
  BY DEF Parted
<1>3. InUse = InUse' \cup Used(h) /\ InUse' \cap Used(h) = {}
  BY <1>2 DEF InUse, Used, Extent
<1>4. live' = Cardinality(InUse')
  <2> PICK S : S = InUse
    OBVIOUS
  <2> PICK T : T = Used(h)
    OBVIOUS
  <2>1. IsFiniteSet(S) /\ IsFiniteSet(T) /\ T \subseteq S /\ Cardinality(T) = round_block(h.size) /\ InUse' = S \ T
    BY <1>1, <1>3, InUseFinite, UsedBytes
  <2>2. Cardinality(S \ T) = Cardinality(S) - Cardinality(S \cap T) /\ S \cap T = T
    BY <2>1, FS_Difference
  <2>3. live' = Cardinality(S) - Cardinality(T)
    BY <2>1 DEF Parted
  <2> QED BY <2>1, <2>2, <2>3
<1>5. G \cup InUse' = Arena
  BY <1>1, <1>3 DEF Parted
<1>6. \A g \in held' : HeldOK(g, G)
  BY <1>2 DEF HeldOK
<1>7. \A g, k \in held' : g # k => Used(g) \cap Used(k) = {}
  BY <1>2 DEF Parted
<1> QED BY <1>4, <1>5, <1>6, <1>7 DEF Parted


LEMMA PartedNow ==
  ASSUME NEW G, Parted(G)', G = FreeIn(Laid') PROVE Parted(FreeIn(Laid))'
<1>1. FreeIn(Laid)' = G
  BY DEF FreeIn, Bytes, Blocks, Extent
<1> QED BY <1>1 DEF Parted

------------------------------------------------------------------------------
LEMMA LaidGood == ASSUME HeapConstants, Init PROVE IInv
<1>1. ALIGN \in Nat \ {0} /\ BASE \in Nat /\ End \in Nat /\ BASE + ALIGN <= End /\ Of(ALIGN, BASE) /\ Of(ALIGN, End - BASE)
  BY Constants
<1> PICK n : n = End - BASE
  OBVIOUS
<1> PICK b : b = [at |-> BASE, size |-> n]
  OBVIOUS
<1>2. n \in 1..n /\ BASE \in BASE..End /\ BASE + n <= End
  BY <1>1
<1>3. Sound(b)
  BY <1>1, <1>2 DEF Sound, Block
<1>4. Laid = <<b>>
  BY DEF Init, Laid
<1>5. Good(Laid) /\ FreeIn(Laid) = Arena
  BY <1>3, <1>4, OneGood DEF Arena
<1>6. InUse = {}
  BY DEF Init, InUse
<1>7. Parted(Arena)
  BY <1>6, FS_EmptySet DEF Parted, Init
<1>8. RefusedRightly
  BY DEF Init, RefusedRightly
<1> QED BY <1>5, <1>7, <1>8 DEF IInv, Started, Init

LEMMA CutHolds ==
  ASSUME HeapConstants, NEW l, Good(l), Parted(FreeIn(l)), NEW k \in DOMAIN l, NEW size \in Sizes, size \in Nat,
         NEW asked \in Aligns, asked \in Nat \ {0}, NEW align \in Nat \ {0}, Of(ALIGN, align), Of(asked, align),
         Fits(l[k], size, align), NEW h, h = [at |-> Payload(l[k], align), size |-> size, align |-> asked],
         Laid' = Cut(l, k, size, align), live' = live + round_block(size), held' = held \cup {h}
  PROVE  Good(Laid') /\ Parted(FreeIn(Laid))'
<1>1. /\ Good(Cut(l, k, size, align))
      /\ FreeIn(Cut(l, k, size, align)) = FreeIn(l) \ Extent(Payload(l[k], align), round_block(size))
      /\ Extent(Payload(l[k], align), round_block(size)) \subseteq FreeIn(l)
  BY CutGood
<1>2. Used(h) = Extent(Payload(l[k], align), round_block(size)) /\ h.size = size /\ h.align = asked /\ h.at = Payload(l[k], align)
  BY DEF Used
<1> PICK p : p = Payload(l[k], align)
  OBVIOUS
<1>3. p \in Nat /\ Of(align, p) /\ Of(ALIGN, p)
  <2>1. Sound(l[k])
    BY DEF Good
  <2> QED BY <2>1, LeftOverGood
<1>4. HeldOK(h, {})
  <2>1. Of(asked, p)
    BY <1>3, OfTrans
  <2>2. p % asked = 0
    BY <1>3, <2>1, OfMod
  <2>3. Used(h) \subseteq Arena
    BY <1>1, <1>2 DEF Parted
  <2>4. h \in [at : Nat, size : Sizes, align : Aligns]
    BY <1>3
  <2> QED BY <1>2, <1>3, <2>2, <2>3, <2>4 DEF HeldOK
<1> PICK G : G = FreeIn(l) \ Used(h)
  OBVIOUS
<1>5. Parted(G)'
  BY <1>1, <1>2, <1>4, Give
<1>6. Parted(FreeIn(Laid))'
  BY <1>1, <1>2, <1>5, PartedNow
<1> QED BY <1>1, <1>6

LEMMA AllocHolds ==
  ASSUME HeapConstants, WellOrdered, IInv, NEW size \in Sizes, NEW asked \in Aligns, Alloc(size, asked)
  PROVE  IInv'
<1> PICK l : l = Laid
  OBVIOUS
<1> PICK align : align = IF asked < ALIGN THEN ALIGN ELSE asked
  OBVIOUS
<1> PICK need : need = round_block(size)
  OBVIOUS
<1> PICK fit : fit = {k \in DOMAIN l : Fits(l[k], size, align)}
  OBVIOUS
<1>1. Good(l) /\ Parted(FreeIn(l)) /\ inited' = TRUE /\ list' = Laid'
  BY DEF IInv, Alloc, Laid
<1>2. size \in Nat /\ asked \in Nat \ {0} /\ align \in Nat \ {0} /\ ALIGN \in Nat \ {0}
  BY DEF HeapConstants
<1>3. Of(ALIGN, align) /\ Of(asked, align)
  <2>1. Of(ALIGN, ALIGN) /\ Of(asked, asked)
    <3>1. ALIGN = ALIGN * 1 /\ asked = asked * 1
      BY <1>2
    <3> QED BY <3>1 DEF Of
  <2>2. CASE asked < ALIGN
    <3>1. ALIGN % asked = 0
      BY <2>2 DEF HeapConstants
    <3>2. Of(asked, ALIGN)
      BY <1>2, <3>1, OfMod
    <3> QED BY <2>1, <2>2, <3>2
  <2>3. CASE ~(asked < ALIGN)
    <3>1. asked % ALIGN = 0
      BY <2>3 DEF HeapConstants
    <3>2. Of(ALIGN, asked)
      BY <1>2, <3>1, OfMod
    <3> QED BY <2>1, <2>3, <3>2
  <2> QED BY <2>2, <2>3
<1>4. need \in Nat /\ need >= 1
  BY <1>2, RoundBlock
<1>5. CASE fit = {}
  <2>1. list' = l /\ held' = held /\ live' = live /\ refused' = {[size |-> size, align |-> align]}
    BY <1>5 DEF Alloc
  <2>2. Parted(FreeIn(l))' /\ Good(Laid')
    BY <1>1, <2>1 DEF Parted, InUse, HeldOK, Used, Extent, Arena, FreeIn, Bytes, Blocks
  <2>3. ASSUME NEW p \in BASE..End, p % align = 0, Extent(p, need) \subseteq FreeIn(l) PROVE FALSE
    <3>1. p \in Nat
      BY Constants
    <3>2. PICK k \in DOMAIN l : l[k].at <= p /\ p + need <= l[k].at + l[k].size
      BY <1>1, <1>4, <2>3, <3>1, RunInBlock
    <3>3. l[k].at \in Nat /\ l[k].size \in Nat
      BY <1>1, SoundBlock DEF Good
    <3>4. Of(align, p)
      BY <1>2, <2>3, <3>1, OfMod
    <3>5. Payload(l[k], align) \in Nat /\ Payload(l[k], align) <= p
      BY <1>2, <3>1, <3>2, <3>3, <3>4, AlignUp DEF Payload
    <3>6. Fits(l[k], size, align)
      BY <1>4, <3>1, <3>2, <3>3, <3>5 DEF Fits
    <3> QED BY <1>5, <3>6
  <2>4. RefusedRightly'
    BY <2>1, <2>3 DEF RefusedRightly, Free, Extent, FreeIn, Bytes, Blocks
  <2> QED BY <1>1, <2>1, <2>2, <2>4 DEF IInv, Started
<1>6. CASE fit # {}
  <2> PICK k : k = Min(fit)
    OBVIOUS
  <2>1. k \in DOMAIN l /\ Fits(l[k], size, align)
    <3>1. fit \subseteq Nat
      BY <1>1 DEF Good
    <3> QED BY <1>6, <3>1, MinLeast
  <2> PICK h : h = [at |-> Payload(l[k], align), size |-> size, align |-> asked]
    OBVIOUS
  <2>2. /\ list' = Cut(l, k, size, align)
        /\ live' = live + round_block(size) /\ held' = held \cup {h} /\ refused' = {}
    BY <1>6 DEF Alloc
  <2>3. Laid' = Cut(l, k, size, align)
    BY <1>1, <2>2
  <2>4. Good(Laid') /\ Parted(FreeIn(Laid))'
    BY <1>1, <1>2, <1>3, <2>1, <2>2, <2>3, CutHolds
  <2> QED BY <1>1, <2>2, <2>4 DEF IInv, Started, RefusedRightly
<1> QED BY <1>5, <1>6

LEMMA DeallocHolds ==
  ASSUME HeapConstants, WellOrdered, IInv, NEW h \in held, Dealloc(h)
  PROVE  IInv'
<1> PICK l : l = list
  OBVIOUS
<1>1. inited = TRUE /\ inited' = TRUE /\ Laid = l /\ Laid' = list' /\ Good(l) /\ Parted(FreeIn(l))
  BY DEF IInv, Started, Dealloc, Laid
<1> PICK need : need = round_block(h.size)
  OBVIOUS
<1>2. HeldOK(h, FreeIn(l))
  BY <1>1 DEF Parted
<1>3. h.at \in Nat /\ need \in Nat /\ need >= 1 /\ Of(ALIGN, need) /\ Of(ALIGN, h.at) /\ h.at \in Used(h)
  BY <1>2, UsedBytes DEF HeldOK
<1>4. \A k \in DOMAIN l : l[k].at \in Nat /\ l[k].size \in Nat /\ l[k].size >= 1
  BY <1>1, SoundBlock DEF Good
<1>5. \A k \in DOMAIN l : l[k].at + l[k].size <= h.at \/ h.at + need <= l[k].at
  <2> SUFFICES ASSUME NEW k \in DOMAIN l, h.at < l[k].at + l[k].size, l[k].at < h.at + need PROVE FALSE
    BY <1>3, <1>4
  <2> PICK x : x = IF h.at <= l[k].at THEN l[k].at ELSE h.at
    OBVIOUS
  <2>1. x \in Used(h)
    BY <1>3, <1>4 DEF Used, Extent
  <2>2. x \in Extent(l[k].at, l[k].size)
    BY <1>3, <1>4 DEF Extent
  <2>3. x \in FreeIn(l)
    BY <2>2 DEF FreeIn, Bytes, Blocks
  <2> QED BY <1>2, <2>1, <2>3 DEF HeldOK
<1>6. BASE <= h.at /\ h.at + need <= End
  <2>1. h.at \in Arena /\ h.at + need - 1 \in Arena
    BY <1>2, <1>3 DEF HeldOK, Used, Extent
  <2> QED BY <1>3, <2>1, Constants DEF Arena, Extent
<1> PICK end \in Nat : end = h.at + need
  BY <1>3
<1>7. Of(ALIGN, end)
  <2>1. ALIGN \in Int /\ h.at \in Int /\ need \in Int
    BY <1>3, Constants
  <2> QED BY <1>3, <2>1, OfSum
<1>8. Good(list') /\ FreeIn(list') = FreeIn(l) \cup Used(h)
  <2>1. h.at < end /\ end - h.at = need
    BY <1>3
  <2>2. list' = Join(l, h.at, end)
    BY DEF Dealloc
  <2>3. Good(Join(l, h.at, end)) /\ FreeIn(Join(l, h.at, end)) = FreeIn(l) \cup Extent(h.at, end - h.at)
    BY <1>1, <1>3, <1>5, <1>6, <1>7, <2>1, JoinGood
  <2> QED BY <2>1, <2>2, <2>3 DEF Used
<1>9. held' = held \ {h} /\ live' = live - round_block(h.size) /\ refused' = {}
  BY DEF Dealloc
<1> PICK G : G = FreeIn(l) \cup Used(h)
  OBVIOUS
<1>10. Parted(G)'
  BY <1>1, <1>9, TakeBack
<1>11. Parted(FreeIn(Laid))'
  BY <1>1, <1>8, <1>10, PartedNow
<1> QED BY <1>1, <1>8, <1>9, <1>11 DEF IInv, Started, RefusedRightly

LEMMA StepHolds == ASSUME HeapConstants, WellOrdered, IInv, [Next]_vars PROVE IInv'
<1>1. CASE Next
  BY <1>1, AllocHolds, DeallocHolds DEF Next
<1>2. CASE UNCHANGED vars
  <2> USE <1>2 DEF vars
  <2> PICK l : l = Laid
    OBVIOUS
  <2>1. Laid' = l /\ Started' /\ RefusedRightly'
    BY DEF Laid, IInv, Started, RefusedRightly, Free, FreeIn, Bytes, Blocks, Extent
  <2> PICK G : G = FreeIn(l)
    OBVIOUS
  <2>2. InUse' = InUse
    BY DEF InUse, Used, Extent
  <2>3. Parted(G)'
    BY <2>2 DEF IInv, Parted
  <2>4. Parted(FreeIn(Laid))'
    BY <2>1, <2>3, PartedNow
  <2> QED BY <2>1, <2>4 DEF IInv
<1> QED BY <1>1, <1>2

\* What the invariant is for.
LEMMA Counted ==
  ASSUME HeapConstants, IInv PROVE BlocksApart /\ NothingLost /\ Coalesced /\ RefusedRightly
<1>1. inited => Laid = list
  BY DEF Laid
<1>2. ~inited => held = {} /\ list = <<>>
  BY DEF IInv, Started
<1>3. BlocksApart
  BY <1>1, <1>2 DEF IInv, Parted, HeldOK, BlocksApart, Free, Arena
<1>4. NothingLost
  BY <1>1 DEF IInv, Parted, NothingLost, Free, Arena
<1>5. Coalesced
  <2>1. CASE inited
    <3>1. list \in Seq(Block) /\ Sorted(list)
      BY <1>1, <2>1 DEF IInv, Good
    <3>2. \A k \in 1..(Len(list) - 1) : k \in DOMAIN list /\ k + 1 \in DOMAIN list /\ k < k + 1
      BY <3>1
    <3> QED BY <3>1, <3>2 DEF Coalesced, Sorted
  <2>2. CASE ~inited
    BY <1>2, <2>2 DEF Coalesced
  <2> QED BY <2>1, <2>2
<1> QED BY <1>3, <1>4, <1>5 DEF IInv
==============================================================================
