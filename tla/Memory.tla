------------------------------- MODULE Memory -------------------------------
(* Frames and page tables of the kernel: the frame allocator (pmm.rs), the    *)
(* walk that maps a page (vmm.rs), the address spaces that spawning a program *)
(* fills (sched.rs) and the heap, the mappings and the screen of the Linux    *)
(* process (linux.rs).  Interrupts are off in these calls, so one runs at a   *)
(* time, and a step is one allocation, one level of a walk or one entry.      *)
(* A page is its number; Path gives the index it has at each level.           *)
EXTENDS Integers, Sequences, FiniteSets, FiniteSetsExt, FiniteSetTheorems, WellFoundedInduction, TLAPS

CONSTANTS Frames,      \* the physical frames, numbers
          Reserved,    \* frames that init takes out: the low megabyte, the kernel
          Boot,        \* the kernel's own top table, one of them
          Index,       \* places in a table
          Garbage,     \* what a frame that was never written reads as
          Depth,       \* levels of tables (4)
          KernelSlots, \* top entries 256 and 511
          LowSlots,    \* top entry 0
          BootTables,  \* the tables that these entries of Boot lead to
          Pages,       \* pages that programs map
          Path,        \* [Pages -> [1..Depth -> Index]]
          Layout,      \* [kind of program -> pages of its image and stack, in order]
          StackPages,  \* those that are stack
          HeapBase, HeapCap, MapBase, MapCap,  \* pages of brk and of mmap
          FixedRuns,   \* the <<first, last>> pages that programs name with MAP_FIXED
          ScreenPages, \* where the screen of a Linux program is mapped, a sequence
          PAGE         \* bytes in a page

None == -1
Kinds == {"elf", "linux", "dyn", "stub", "shared"}
LinuxKinds == {"linux", "dyn"}
HighSlots == KernelSlots \cup LowSlots
Copied(kind) == IF kind = "shared" THEN KernelSlots \cup LowSlots ELSE KernelSlots

ASSUME MemoryAssumption ==
    /\ Frames \subseteq Nat /\ IsFiniteSet(Frames) /\ Reserved \subseteq Frames
    /\ 0 \in Reserved /\ Boot \in Reserved \ {0}
    /\ Depth \in Nat /\ Depth >= 2 /\ IsFiniteSet(Index)
    /\ KernelSlots \subseteq Index /\ LowSlots \subseteq Index
    /\ BootTables \in [HighSlots -> Reserved \ {0, Boot}]
    /\ \A i, j \in HighSlots : BootTables[i] = BootTables[j] => i = j
    /\ Garbage \in [Index -> Frames \cup {None}]
    /\ Pages \subseteq Nat
    /\ Path \in [Pages -> [1..Depth -> Index]]
    /\ \A n \in Pages : Path[n][1] \notin KernelSlots
    /\ \A m, n \in Pages : Path[m] = Path[n] => m = n
    /\ Layout \in [Kinds -> Seq(Pages)]
    /\ \A k \in DOMAIN Layout["shared"] : Path[Layout["shared"][k]][1] \notin LowSlots
    /\ HeapBase \in Nat /\ HeapCap \in Nat /\ MapBase \in Nat /\ MapCap \in Nat
    /\ HeapBase..HeapCap \subseteq Pages /\ MapBase..MapCap \subseteq Pages
    /\ HeapBase <= HeapCap /\ MapBase <= MapCap
    /\ (HeapBase..HeapCap) \cap (MapBase..MapCap) = {}
    /\ FixedRuns \subseteq Pages \X Pages
    /\ \A r \in FixedRuns : r[1] <= r[2] /\ r[1]..r[2] \subseteq Pages
    /\ ScreenPages \in Seq(Pages) /\ PAGE \in Nat \ {0}
    /\ \A k \in DOMAIN ScreenPages : ScreenPages[k] \notin HeapBase..HeapCap

VARIABLES free,    \* BITMAP: frames that are free
          count,   \* FREE_FRAMES
          pt,      \* what each frame holds when it is read as a table
          level,   \* [Frames -> 0..Depth]: the level of a frame that is a table, else 0
          spaces,  \* [top tables of programs -> their kind]
          linux,   \* top table of the Linux process, None before it exists
          brk,     \* BRK_CUR, BRK_MAPPED (a page here, 0 for none) and what a call asked for
          mmap,    \* MMAP_CUR, a page
          surface, \* LFB_PHYS: the frames of the screen, a sequence
          call     \* the call under way: what it is, its space, the pages left,
                   \* the frame to map, the table reached and its level

vars == <<free, count, pt, level, spaces, linux, brk, mmap, surface, call>>
tables == <<free, count, pt, level>>

Idle == [op |-> "idle", root |-> Boot, todo |-> <<>>, frame |-> None, at |-> Boot, lev |-> 1]
Empty == [i \in Index |-> None]
Up(a) == (a + PAGE - 1) \div PAGE

(* After boot: the kernel's top entries are in place, and the frames that are *)
(* free hold what was in memory before.                                       *)
Init ==
    /\ free = Frames \ Reserved /\ count = Cardinality(free)
    /\ level = [f \in Frames |-> IF f = Boot THEN 1
                                 ELSE IF \E i \in HighSlots : BootTables[i] = f THEN 2 ELSE 0]
    /\ pt = [f \in Frames |->
               IF f = Boot THEN [i \in Index |-> IF i \in HighSlots THEN BootTables[i] ELSE None]
               ELSE IF level[f] = 2 THEN Empty ELSE Garbage]
    /\ spaces = << >> /\ linux = None
    /\ brk = [cur |-> HeapBase * PAGE, mapped |-> 0, want |-> 0]
    /\ mmap = MapBase /\ surface = << >> /\ call = Idle

------------------------------------------------------------------------------
(* The allocator.                                                             *)
\* alloc_frame: the lowest free frame.
Alloc(f) == /\ free # {} /\ f = Min(free)
            /\ free' = free \ {f}
            /\ count' = count - 1

\* alloc_frames: the lowest run of n free frames.
Run(s, n) == s..(s + n - 1)
\* Seeded fault: a run is counted as one frame.
AllocRunCountedOnce(n) ==
    IF \E s \in free : Run(s, n) \subseteq free
      THEN LET s == Min({t \in free : Run(t, n) \subseteq free}) IN
           /\ free' = free \ Run(s, n)
           /\ count' = count - 1
           /\ surface' = [i \in 1..n |-> s + i - 1]
      ELSE UNCHANGED <<free, count, surface>>

AllocRun(n) ==
    IF \E s \in free : Run(s, n) \subseteq free
      THEN LET s == Min({t \in free : Run(t, n) \subseteq free}) IN
           /\ free' = free \ Run(s, n)
           /\ count' = count - n
           /\ surface' = [i \in 1..n |-> s + i - 1]
      ELSE UNCHANGED <<free, count, surface>>

\* The kernel makes the screen of a Linux program before it spawns it.
MakeSurface ==
    /\ call.op = "idle" /\ surface = << >>
    /\ AllocRun(Len(ScreenPages))
    /\ UNCHANGED <<pt, level, spaces, linux, brk, mmap, call>>

(* A new address space, and the pages that its program needs.                 *)
NewSpace(kind) ==
    /\ call.op = "idle" /\ (kind \in LinuxKinds => linux = None)
    /\ \E f \in free :
         /\ Alloc(f)
         /\ pt' = [pt EXCEPT ![f] = [i \in Index |-> IF i \in Copied(kind) THEN pt[Boot][i]
                                                                           ELSE None]]
         /\ level' = [level EXCEPT ![f] = 1]
         /\ spaces' = [r \in DOMAIN spaces \cup {f} |-> IF r = f THEN kind ELSE spaces[r]]
         /\ call' = [op |-> kind, root |-> f, todo |-> Layout[kind], frame |-> None,
                     at |-> f, lev |-> 1]
    /\ UNCHANGED <<linux, brk, mmap, surface>>

\* The kernel's own stubs, the second with the low half of the kernel; native
\* programs; Linux programs, the second kind with their dynamic linker.
spawn_ring3 == NewSpace("stub")
spawn_ring3_low_with == NewSpace("shared")
spawn_ring3_elf_cfg == NewSpace("elf")
spawn_linux_static_elf == NewSpace("linux")
spawn_linux_dyn_elf == NewSpace("dyn")

\* brk of the Linux process: pages are backed up to the new end; a smaller end
\* gives nothing back.
Brk(a) ==
    LET from == IF brk.mapped = 0 THEN HeapBase ELSE brk.mapped
        n == Up(a) - from IN
    /\ call.op = "idle" /\ linux # None
    /\ a \in (HeapBase * PAGE)..(HeapCap * PAGE)
    /\ IF a > brk.cur
         THEN /\ brk' = [brk EXCEPT !.want = a]
              /\ call' = [Idle EXCEPT !.op = "brk", !.root = linux, !.at = linux,
                                      !.todo = [i \in 1..n |-> from + i - 1]]
         ELSE /\ brk' = [brk EXCEPT !.cur = a]
              /\ UNCHANGED call
    /\ UNCHANGED <<tables, spaces, linux, mmap, surface>>

\* mmap of len pages wherever the arena has got to, which moves on before there
\* are frames for it.
Mmap(len) ==
    /\ call.op = "idle" /\ linux # None
    /\ mmap + len <= MapCap /\ mmap' = mmap + len
    /\ call' = [Idle EXCEPT !.op = "mmap", !.root = linux, !.at = linux,
                            !.todo = [i \in 1..len |-> mmap + i - 1]]
    /\ UNCHANGED <<tables, spaces, linux, brk, surface>>

\* mmap with MAP_FIXED: at whatever address the program names, over its image,
\* its stack, its heap, its screen or another mapping.
MmapFixed(p, last) ==
    /\ call.op = "idle" /\ linux # None
    /\ call' = [Idle EXCEPT !.op = "fixed", !.root = linux, !.at = linux,
                            !.todo = [i \in 1..(last - p + 1) |-> p + i - 1]]
    /\ UNCHANGED <<tables, spaces, linux, brk, mmap, surface>>

\* mmap of the screen.
MapScreen ==
    /\ call.op = "idle" /\ linux # None /\ surface # << >>
    /\ call' = [Idle EXCEPT !.op = "screen", !.root = linux, !.at = linux,
                            !.todo = ScreenPages]
    /\ UNCHANGED <<tables, spaces, linux, brk, mmap, surface>>

------------------------------------------------------------------------------
(* The steps of a call.                                                       *)
\* A call ends: done, out of frames, or with a fault of the kernel itself.
End == call' = Idle /\ UNCHANGED <<tables, spaces, mmap, surface>>

\* The frame for the next page.  The stub programs take frame 0 if there is none.
BackPage ==
    /\ call.op # "idle" /\ call.todo # << >> /\ call.frame = None
    /\ UNCHANGED <<pt, level, spaces, linux, brk, mmap, surface>>
    /\ IF call.op = "screen"
         THEN /\ call' = [call EXCEPT !.frame =
                            surface[Len(ScreenPages) - Len(call.todo) + 1]]
              /\ UNCHANGED <<free, count>>
         ELSE \/ \E f \in free : Alloc(f) /\ call' = [call EXCEPT !.frame = f]
              \/ /\ free = {} /\ UNCHANGED <<free, count>>
                 /\ call' = (IF call.op \in {"stub", "shared"} THEN [call EXCEPT !.frame = 0]
                                                               ELSE Idle)

PageDone == [op |-> call.op, root |-> call.root, todo |-> Tail(call.todo), frame |-> None,
             at |-> call.root, lev |-> 1]

\* Seeded fault: a new table is not zeroed.
DescendUncleared ==
    LET i == Path[Head(call.todo)][call.lev] IN
    /\ call.frame # None /\ call.lev < Depth
    /\ UNCHANGED <<spaces, linux, brk, mmap, surface>>
    /\ \/ /\ pt[call.at][i] # None
          /\ call' = [call EXCEPT !.at = pt[call.at][i], !.lev = @ + 1]
          /\ UNCHANGED tables
       \/ /\ pt[call.at][i] = None
          /\ \E f \in free :
               /\ Alloc(f)
               /\ pt' = [pt EXCEPT ![call.at][i] = f]
               /\ level' = [level EXCEPT ![f] = call.lev + 1]
               /\ call' = [call EXCEPT !.at = f, !.lev = @ + 1]

\* descend: one level of the walk, with a new table where there is none.
Descend ==
    LET i == Path[Head(call.todo)][call.lev] IN
    /\ call.frame # None /\ call.lev < Depth
    /\ UNCHANGED <<spaces, linux, brk, mmap, surface>>
    /\ \/ /\ pt[call.at][i] # None
          /\ call' = [call EXCEPT !.at = pt[call.at][i], !.lev = @ + 1]
          /\ UNCHANGED tables
       \/ /\ pt[call.at][i] = None
          /\ \E f \in free :
               /\ Alloc(f)
               /\ pt' = [pt EXCEPT ![f] = Empty, ![call.at][i] = f]
               /\ level' = [level EXCEPT ![f] = call.lev + 1]
               /\ call' = [call EXCEPT !.at = f, !.lev = @ + 1]

\* No table: an image is given up.  A page of a stack, of a stub, of a mapping or
\* of the heap is left out and the call goes on, as nobody looks at what
\* map_page_in returns; if it was the last one of a call that then clears or
\* fills its pages, the kernel faults there and stops.
Given == call.op \in {"elf", "linux", "dyn"} /\ Head(call.todo) \notin StackPages
Cleared == call.op \in {"brk", "mmap", "fixed"} /\ Len(call.todo) = 1

NoTable ==
    /\ call.frame # None /\ call.lev < Depth /\ free = {}
    /\ pt[call.at][Path[Head(call.todo)][call.lev]] = None
    /\ \/ Given /\ call' = Idle
       \/ Cleared /\ call' = [call EXCEPT !.op = "fault", !.frame = None, !.todo = << >>]
       \/ ~Given /\ (call.op = "brk" => ~Cleared) /\ call' = PageDone
    /\ UNCHANGED <<tables, spaces, linux, brk, mmap, surface>>

\* The entry itself.
MapEntry ==
    /\ call.frame # None /\ call.lev = Depth
    /\ pt' = [pt EXCEPT ![call.at][Path[Head(call.todo)][Depth]] = call.frame]
    /\ call' = PageDone
    /\ UNCHANGED <<free, count, level, spaces, linux, brk, mmap, surface>>

\* All pages are there.
Finish ==
    /\ call.op \notin {"idle", "fault"} /\ call.todo = << >>
    /\ brk' = (IF call.op = "brk"
                 THEN [cur |-> brk.want, mapped |-> Up(brk.want), want |-> 0] ELSE brk)
    /\ linux' = (IF call.op \in LinuxKinds THEN call.root ELSE linux)
    /\ End

Call == \/ MakeSurface \/ MapScreen
        \/ spawn_ring3 \/ spawn_ring3_low_with \/ spawn_ring3_elf_cfg
        \/ spawn_linux_static_elf \/ spawn_linux_dyn_elf
        \/ \E a \in (HeapBase * PAGE)..(HeapCap * PAGE) : Brk(a)
        \/ \E len \in 1..(MapCap - MapBase) : Mmap(len)
        \/ \E r \in FixedRuns : MmapFixed(r[1], r[2])
Step == BackPage \/ Descend \/ NoTable \/ MapEntry \/ Finish
Next == Call \/ Step
Spec == Init /\ [][Next]_vars

------------------------------------------------------------------------------
Entries == Frames \cup {None}
TypeOK ==
    /\ free \subseteq Frames \ Reserved
    /\ pt \in [Frames -> [Index -> Entries]]
    /\ level \in [Frames -> 0..Depth]
    /\ DOMAIN spaces \subseteq Frames /\ \A r \in DOMAIN spaces : spaces[r] \in Kinds
    /\ linux \in DOMAIN spaces \cup {None}
    /\ brk \in [cur : (HeapBase * PAGE)..(HeapCap * PAGE), mapped : {0} \cup HeapBase..HeapCap,
                want : {0} \cup (HeapBase * PAGE)..(HeapCap * PAGE)]
    /\ mmap \in MapBase..MapCap
    /\ surface \in Seq(Frames \ Reserved)
    /\ call \in [op : Kinds \cup {"idle", "brk", "mmap", "fixed", "screen", "fault"}, root : Frames,
                todo : Seq(Pages), frame : Entries, at : Frames, lev : 1..Depth]

\* The count that is reported beside the bitmap is the number of free frames.
CountAgrees == count = Cardinality(free)

\* The tables form trees: an entry leads to a table of the next level, the last
\* one to a page, which is no table and not free.
TreesOK ==
    \A t \in Frames, i \in Index :
      level[t] # 0 /\ pt[t][i] # None =>
        /\ pt[t][i] \notin free
        /\ level[pt[t][i]] = (IF level[t] = Depth THEN 0 ELSE level[t] + 1)

\* Entries that a space takes over from the kernel.
Inherited(t, i) == t \in DOMAIN spaces /\ i \in Copied(spaces[t])
Shareable == {None, 0} \cup {surface[k] : k \in 1..Len(surface)}

\* No two entries lead to the same frame: no program reaches a page of another
\* one or a table, but for the kernel's own half, the screen, and frame 0.
Isolated ==
    \A t, u \in Frames, i, j \in Index :
      /\ level[t] # 0 /\ level[u] # 0 /\ ~Inherited(t, i) /\ ~Inherited(u, j)
      /\ pt[t][i] = pt[u][j] /\ pt[t][i] \notin Shareable
      => t = u /\ i = j

\* Whatever address space is active, the kernel is mapped the same, and no
\* program's page hangs below the kernel's entries.
KernelMapped ==
    /\ \A r \in DOMAIN spaces, i \in KernelSlots : pt[r][i] = pt[Boot][i]
    /\ \A i \in HighSlots : pt[BootTables[i]] = Empty

\* What the address spaces are for: programs cannot reach each other's pages,
\* a table, or a frame that may be given to somebody else, and never lose the
\* kernel.
Isolation == TreesOK /\ Isolated /\ KernelMapped

Translate(n) ==
    LET at[l \in 1..(Depth + 1)] ==
          IF l = 1 THEN linux
          ELSE IF at[l - 1] = None THEN None ELSE pt[at[l - 1]][Path[n][l - 1]]
    IN at[Depth + 1]

\* Every page of the heap below its end is there, and stays the frame it was
\* while the end does not move below it, unless the program itself asks for a
\* mapping at that very page: although brk maps pages again that a smaller end
\* had left behind, and whatever call runs out of frames half way.
MappedOver(n) == call.op = "fixed" /\ call.todo # << >> /\ Head(call.todo) = n
HeapKept ==
    linux # None /\ call.op # "fault" =>
      \A n \in HeapBase..(Up(brk.cur) - 1) :
          Translate(n) # None /\ (Translate(n)' = Translate(n) \/ MappedOver(n))

(***************************************************************************)
(* The proofs, for every machine: any set of frames, any depth and width of   *)
(* the tables, any layout of the programs.  The counter of free frames is     *)
(* right, programs never reach each other's pages or a table, all of them     *)
(* keep the kernel, and the pages of the heap stay where they are.            *)
(*                                                                           *)
(* None of this is inductive.  That a step of a walk leaves the trees apart  *)
(* rests on which table the walk has reached, on what the frame it is about  *)
(* to map is not yet, and on the kernel's tables having nothing below them   *)
(* (MInv).  That the heap stays needs more: the table a walk has reached     *)
(* lies on the way to its own page (WayOK), brk maps its pages in order      *)
(* (BrkOK), and all pages below the mapped end are backed (EndOK).           *)
(***************************************************************************)

(* A set of numbers has a least one.                                          *)
LEMMA LeastNatural ==
  ASSUME NEW S \in SUBSET Nat, S # {}
  PROVE  \E x \in S : \A y \in S : x <= y
<1> DEFINE I == {0 .. (n - 1) : n \in S}
<1>1. \A n \in S : 0 .. (n - 1) \in FiniteSubsetsOf(Nat)
  BY FS_Interval DEF FiniteSubsetsOf
<1>2. PICK t \in I : \A u \in I : ~(<<u, t>> \in StrictSubsetOrdering(Nat))
  <2>1. I \subseteq FiniteSubsetsOf(Nat) /\ I # {}
    BY <1>1
  <2> HIDE DEF I
  <2>2. QED
    BY <2>1, WFMin, FS_StrictSubsetOrderingWellFounded
<1>3. PICK x \in S : t = 0 .. (x - 1)
  OBVIOUS
<1>4. ASSUME NEW y \in S, y < x PROVE FALSE
  <2>1. (0 .. (y - 1)) \subseteq (0 .. (x - 1)) /\ y \in 0 .. (x - 1) /\ y \notin 0 .. (y - 1)
    BY <1>4
  <2>2. <<0 .. (y - 1), t>> \in StrictSubsetOrdering(Nat)
    BY <1>3, <2>1 DEF StrictSubsetOrdering
  <2>3. QED
    BY <1>2, <2>2
<1>5. QED
  BY <1>4

(* Induction, over the members of a set: the theorem for predicates is out of reach. *)
LEMMA NatSetInduction ==
  ASSUME NEW S \in SUBSET Nat, 0 \in S, \A n \in S : n + 1 \in S
  PROVE  S = Nat
<1> SUFFICES ASSUME Nat \ S # {} PROVE FALSE
  OBVIOUS
<1>1. PICK x \in Nat \ S : \A y \in Nat \ S : x <= y
  BY LeastNatural
<1>2. x - 1 \in Nat /\ x - 1 \notin Nat \ S
  BY <1>1
<1>3. QED
  BY <1>1, <1>2

(* Addresses and the pages they lie in. *)
LEMMA Monotone ==
  ASSUME NEW a \in Nat, NEW b \in Nat, NEW c \in Nat, a <= b
  PROVE  a * c \in Nat /\ b * c \in Nat /\ a * c <= b * c
OBVIOUS

Kernel == {Boot} \cup {BootTables[i] : i \in HighSlots}
LedTo(f) == \E t \in Frames, i \in Index : level[t] # 0 /\ pt[t][i] = f
LinuxCalls == {"brk", "mmap", "fixed", "screen", "fault"}

\* Levels: what is free is no table, and the top tables are those of the spaces.
LevelsOK ==
  /\ \A f \in free : level[f] = 0
  /\ level[0] = 0
  /\ \A f \in Frames : level[f] = 1 <=> f = Boot \/ f \in DOMAIN spaces
  /\ \A i \in HighSlots : level[BootTables[i]] = 2

\* The kernel's tables are those that it started with.
KernelOK ==
  /\ Boot \notin DOMAIN spaces
  /\ \A i \in Index : pt[Boot][i] = IF i \in HighSlots THEN BootTables[i] ELSE None
  /\ \A i \in HighSlots : pt[BootTables[i]] = Empty
  /\ \A r \in DOMAIN spaces : \A i \in Copied(spaces[r]) : pt[r][i] = pt[Boot][i]

SurfaceOK ==
  /\ surface = << >> \/ Len(surface) = Len(ScreenPages)
  /\ \A k \in 1..Len(surface) : surface[k] \notin free /\ level[surface[k]] = 0

\* The process and the space a call works on.
OwnerOK ==
  /\ linux # None => spaces[linux] \in LinuxKinds
  /\ call.op \in Kinds => call.root \in DOMAIN spaces /\ spaces[call.root] = call.op
  /\ call.op \in LinuxCalls => linux # None /\ call.root = linux
  /\ call.op = "shared" => \A k \in 1..Len(call.todo) : Path[call.todo[k]][1] \notin LowSlots
  /\ call.op = "screen" => surface # << >> /\ Len(call.todo) <= Len(ScreenPages)
  /\ call.op = "brk" => brk.want \in (HeapBase * PAGE) .. (HeapCap * PAGE)

\* The walk: the table it has reached, and the frame it is about to map.
WalkOK ==
  /\ call.op = "idle" => call = Idle
  /\ call.op = "fault" => call.todo = << >>
  /\ call.op # "idle" => /\ call.at \notin Kernel
                         /\ level[call.at] = call.lev
                         /\ call.lev = 1 => call.at = call.root
                         /\ call.lev > 1 => call.frame # None \/ call.op = "fault"
  /\ call.frame # None =>
       /\ call.op \notin {"idle", "fault"} /\ call.todo # << >>
       /\ call.frame \notin free /\ level[call.frame] = 0
       /\ call.frame \in Shareable \/ ~LedTo(call.frame)

MInv == TypeOK /\ LevelsOK /\ KernelOK /\ SurfaceOK /\ OwnerOK /\ WalkOK /\ TreesOK /\ Isolated

(* alloc_frame takes the least free frame.                                    *)
LEMMA MinIn ==
  ASSUME NEW S \in SUBSET Nat, S # {}
  PROVE  Min(S) \in S /\ \A x \in S : Min(S) <= x
BY LeastNatural DEF Min

(* The place of a page in a table. *)
LEMMA PathTyped == Path \in [Pages -> [1..Depth -> Index]] /\ Depth \in Nat
BY MemoryAssumption

(* What the invariant says of a free frame and of the kernel's own tables. *)
LEMMA FreeFrame ==
  ASSUME MInv, NEW f \in free
  PROVE  /\ f \in Frames /\ f \in Nat /\ f # None /\ f # 0 /\ f \notin Kernel
         /\ level[f] = 0 /\ f \notin DOMAIN spaces /\ f \notin Shareable
         /\ \A t \in Frames, i \in Index : level[t] # 0 => pt[t][i] # f
<1>1. f \in Frames \ Reserved /\ f \in Nat /\ level[f] = 0
  BY MemoryAssumption DEF MInv, TypeOK, LevelsOK
<1>2. f # None /\ f # 0 /\ f \notin Kernel
  BY <1>1, MemoryAssumption DEF None, Kernel
<1>3. f \notin DOMAIN spaces
  BY <1>1 DEF MInv, LevelsOK
<1>4. f \notin Shareable
  BY <1>2 DEF Shareable, MInv, SurfaceOK
<1>5. \A t \in Frames, i \in Index : level[t] # 0 => pt[t][i] # f
  BY <1>2 DEF MInv, TreesOK
<1>6. QED
  BY <1>1, <1>2, <1>3, <1>4, <1>5

(* The tables of the kernel are its own.                                      *)
LEMMA KernelTables ==
  ASSUME MInv
  PROVE  /\ Boot \in Frames /\ Boot # 0 /\ Boot \notin free /\ level[Boot] = 1
         /\ Boot \notin DOMAIN spaces
         /\ \A i \in HighSlots : /\ i \in Index /\ BootTables[i] \in Frames \ {0, Boot}
                                 /\ BootTables[i] \notin free
                                 /\ level[BootTables[i]] = 2 /\ pt[BootTables[i]] = Empty
                                 /\ pt[Boot][i] = BootTables[i]
         /\ 0 \in Frames /\ 0 \notin free /\ level[0] = 0
         /\ Depth \in Nat /\ Depth >= 2
         /\ \A k \in Kinds : Copied(k) \subseteq HighSlots
BY ZenonT(60), MemoryAssumption DEF MInv, TypeOK, LevelsOK, KernelOK, Kernel, HighSlots, Copied

(* The constants of the kernel itself. *)
LEMMA KernelConstants ==
  /\ Boot \in Reserved /\ Boot \in Frames /\ Boot # 0 /\ 0 \in Reserved /\ 0 \in Frames
  /\ HighSlots \subseteq Index
  /\ \A i \in HighSlots : BootTables[i] \in Reserved /\ BootTables[i] \in Frames
                             /\ BootTables[i] # 0 /\ BootTables[i] # Boot
  /\ Depth \in Nat /\ Depth >= 2
  /\ None \notin Frames
<1>1. Boot \in Reserved /\ Boot \in Frames /\ Boot # 0 /\ 0 \in Reserved /\ 0 \in Frames
  BY MemoryAssumption
<1>2. HighSlots \subseteq Index
  BY MemoryAssumption DEF HighSlots
<1>3. \A i \in HighSlots : BootTables[i] \in Reserved \ {0, Boot} /\ Reserved \subseteq Frames
  BY MemoryAssumption
<1>4. None \notin Frames
  BY MemoryAssumption DEF None
<1>5. Depth \in Nat /\ Depth >= 2
  BY MemoryAssumption
<1>6. QED
  BY <1>1, <1>2, <1>3, <1>4, <1>5

(* The state after boot.                                                      *)
LEMMA MemoryInit == Init => MInv
<1> SUFFICES ASSUME Init PROVE MInv
  OBVIOUS
<1> DEFINE top == [i \in Index |-> IF i \in HighSlots THEN BootTables[i] ELSE None]
<1>1. /\ Boot \in Reserved /\ Boot \in Frames /\ Boot # 0 /\ 0 \in Reserved /\ 0 \in Frames
      /\ HighSlots \subseteq Index
      /\ \A i \in HighSlots : BootTables[i] \in Reserved /\ BootTables[i] \in Frames
                                 /\ BootTables[i] # 0 /\ BootTables[i] # Boot
      /\ Depth \in Nat /\ Depth >= 2
      /\ None \notin Frames
  BY KernelConstants
<1>2. /\ level \in [Frames -> 0 .. Depth]
      /\ \A f \in Frames : level[f] = IF f = Boot THEN 1
                                      ELSE IF \E i \in HighSlots : BootTables[i] = f THEN 2 ELSE 0
  BY <1>1 DEF Init
<1>3. top \in [Index -> Entries] /\ Empty \in [Index -> Entries] /\ Garbage \in [Index -> Entries]
  BY <1>1, MemoryAssumption DEF Entries, Empty
<1>4. /\ pt \in [Frames -> [Index -> Entries]]
      /\ pt[Boot] = top
      /\ \A i \in HighSlots : pt[BootTables[i]] = Empty
      /\ \A f \in Frames : level[f] = 2 => pt[f] = Empty
  <2>1. pt = [f \in Frames |-> IF f = Boot THEN top ELSE IF level[f] = 2 THEN Empty ELSE Garbage]
    BY DEF Init
  <2> HIDE DEF top
  <2>2. \A f \in Frames : pt[f] = IF f = Boot THEN top ELSE IF level[f] = 2 THEN Empty ELSE Garbage
    BY <2>1
  <2>3. \A f \in Frames : pt[f] \in [Index -> Entries]
    BY <1>3, <2>2
  <2>4. pt \in [Frames -> [Index -> Entries]]
    BY <2>1, <2>3
  <2>5. pt[Boot] = top /\ level[Boot] = 1
    BY <1>1, <1>2, <2>2
  <2>6. \A i \in HighSlots : pt[BootTables[i]] = Empty
    BY <1>1, <1>2, <2>2
  <2>7. QED
    BY <2>2, <2>4, <2>5, <2>6
<1>5. /\ DOMAIN spaces = {} /\ linux = None /\ surface = << >> /\ call = Idle /\ mmap = MapBase
      /\ brk = [cur |-> HeapBase * PAGE, mapped |-> 0, want |-> 0] /\ free = Frames \ Reserved
  BY DEF Init
<1>6. HeapBase * PAGE \in (HeapBase * PAGE) .. (HeapCap * PAGE) /\ MapBase \in MapBase .. MapCap
  BY MemoryAssumption, Monotone
<1>7. Idle \in [op : Kinds \cup {"idle", "brk", "mmap", "fixed", "screen", "fault"}, root : Frames,
                todo : Seq(Pages), frame : Entries, at : Frames, lev : 1..Depth]
  BY <1>1 DEF Idle, Entries, Kinds
<1>8. TypeOK
  BY <1>2, <1>4, <1>5, <1>6, <1>7 DEF TypeOK
<1>9. LevelsOK /\ KernelOK
  BY <1>1, <1>2, <1>4, <1>5 DEF LevelsOK, KernelOK
<1>10. SurfaceOK /\ OwnerOK /\ WalkOK
  BY <1>5 DEF SurfaceOK, OwnerOK, WalkOK, Idle, LinuxCalls, Kinds, LinuxKinds
<1>11. \A t \in Frames, i \in Index :
          level[t] # 0 /\ pt[t][i] # None => t = Boot /\ i \in HighSlots /\ pt[t][i] = BootTables[i]
  BY <1>2, <1>4 DEF Empty
<1>12. TreesOK
  <2> SUFFICES ASSUME NEW t \in Frames, NEW i \in Index, level[t] # 0, pt[t][i] # None
               PROVE  pt[t][i] \notin free /\ level[pt[t][i]] = IF level[t] = Depth THEN 0 ELSE level[t] + 1
    BY DEF TreesOK
  <2>1. t = Boot /\ i \in HighSlots /\ pt[t][i] = BootTables[i]
    BY <1>11
  <2>2. level[t] = 1 /\ level[BootTables[i]] = 2 /\ BootTables[i] \notin free
    BY <1>1, <1>2, <1>5, <2>1
  <2>3. QED
    BY <1>1, <2>1, <2>2
<1>13. Isolated
  <2>1. \A i, j \in HighSlots : BootTables[i] = BootTables[j] => i = j
    BY MemoryAssumption
  <2>2. QED
    BY <1>11, <2>1 DEF Isolated, Shareable
<1>14. QED
  BY <1>8, <1>9, <1>10, <1>12, <1>13 DEF MInv

(* A call that begins touches no frame: its own data must be right.           *)
LEMMA StartKeeps ==
  ASSUME MInv, call.op = "idle", call' \in [op : {"brk", "mmap", "fixed", "screen"}, root : {linux},
            todo : Seq(Pages), frame : {None}, at : {linux}, lev : {1}],
         linux # None, UNCHANGED <<tables, spaces, linux, surface>>,
         brk' \in [cur : (HeapBase * PAGE) .. (HeapCap * PAGE), mapped : {0} \cup HeapBase .. HeapCap,
                   want : {0} \cup (HeapBase * PAGE) .. (HeapCap * PAGE)],
         mmap' \in MapBase .. MapCap,
         call'.op = "screen" => surface # << >> /\ Len(call'.todo) <= Len(ScreenPages),
         call'.op = "brk" => brk'.want \in (HeapBase * PAGE) .. (HeapCap * PAGE)
  PROVE  MInv'
<1>1. UNCHANGED <<free, count, pt, level>>
  BY DEF tables
<1>2. linux \in DOMAIN spaces /\ linux \in Frames /\ level[linux] = 1 /\ linux \notin Kernel
  <2>1. linux \in DOMAIN spaces /\ linux \in Frames
    BY DEF MInv, TypeOK
  <2>2. level[linux] = 1 /\ linux # Boot
    BY <2>1 DEF MInv, LevelsOK, KernelOK
  <2>3. QED
    BY <2>1, <2>2 DEF MInv, LevelsOK, Kernel
<1>3. TypeOK'
  BY SMTT(60), <1>1, <1>2, KernelConstants DEF MInv, TypeOK, Entries
<1>4. LevelsOK' /\ KernelOK' /\ SurfaceOK' /\ TreesOK' /\ Isolated'
  BY <1>1 DEF MInv, LevelsOK, KernelOK, SurfaceOK, TreesOK, Isolated, Inherited, Shareable
<1>5. OwnerOK'
  BY <1>1 DEF MInv, OwnerOK, LinuxCalls, Kinds
<1>6. WalkOK'
  BY <1>1, <1>2 DEF WalkOK, Kernel
<1>7. QED
  BY <1>3, <1>4, <1>5, <1>6 DEF MInv

(* The page behind an address of the heap. *)
LEMMA UpBounds ==
  ASSUME NEW a \in (HeapBase * PAGE) .. (HeapCap * PAGE)
  PROVE  Up(a) \in HeapBase .. HeapCap
<1>1. PAGE \in Nat /\ PAGE > 0 /\ HeapBase \in Nat /\ HeapCap \in Nat
  BY MemoryAssumption
<1> DEFINE q == (a + PAGE - 1) \div PAGE
<1>2. q \in Int /\ q * PAGE <= a + PAGE - 1 /\ a + PAGE - 1 < (q + 1) * PAGE
  BY <1>1
<1>3. a >= HeapBase * PAGE /\ a <= HeapCap * PAGE /\ (q + 1) * PAGE = q * PAGE + PAGE
  BY <1>1, <1>2
<1> HIDE DEF q
<1>4. q >= HeapBase
  <2>1. CASE q + 1 <= HeapBase
    <3>1. (q + 1) * PAGE <= HeapBase * PAGE
      BY <1>1, <1>2, <2>1
    <3>2. QED
      BY <1>1, <1>2, <1>3, <2>1, <3>1
  <2>2. QED
    BY <1>1, <1>2, <2>1
<1>5. q <= HeapCap
  <2>1. CASE HeapCap + 1 <= q
    <3>1. (HeapCap + 1) * PAGE <= q * PAGE
      BY <1>1, <1>2, <2>1
    <3>2. QED
      BY <1>1, <1>2, <1>3, <2>1, <3>1
  <2>2. QED
    BY <1>1, <1>2, <2>1
<1>6. QED
  BY <1>1, <1>2, <1>4, <1>5 DEF q, Up

(* brk: a call begins, or the end moves down.                                 *)
LEMMA BrkKeeps ==
  ASSUME MInv, NEW a \in (HeapBase * PAGE) .. (HeapCap * PAGE), Brk(a)
  PROVE  MInv'
<1> DEFINE from == IF brk.mapped = 0 THEN HeapBase ELSE brk.mapped
           n == Up(a) - from
           todo == [i \in 1 .. n |-> from + i - 1]
<1>1. linux # None /\ call.op = "idle" /\ UNCHANGED <<tables, spaces, linux, mmap, surface>>
  BY DEF Brk
<1>2. brk.mapped \in {0} \cup HeapBase .. HeapCap /\ mmap \in MapBase .. MapCap
  BY DEF MInv, TypeOK
<1>3. todo \in Seq(Pages)
  <2>1. Up(a) \in HeapBase .. HeapCap
    BY UpBounds
  <2>2. from \in HeapBase .. HeapCap /\ HeapBase \in Nat /\ HeapCap \in Nat /\ HeapBase .. HeapCap \subseteq Pages
    BY <1>2, MemoryAssumption
  <2>3. \A i \in 1 .. n : from + i - 1 \in HeapBase .. HeapCap
    BY <2>1, <2>2
  <2>4. n \in Int
    BY <2>1, <2>2
  <2> HIDE DEF from, n
  <2>5. CASE n >= 0
    <3>1. n \in Nat /\ \A i \in 1 .. n : from + i - 1 \in Pages
      BY <2>2, <2>3, <2>4, <2>5
    <3>2. QED
      BY <3>1
  <2>6. CASE n < 0
    <3>1. 1 .. n = {}
      BY <2>4, <2>6
    <3>2. todo = << >>
      BY <3>1
    <3> HIDE DEF todo
    <3>3. QED
      BY <3>2
  <2>7. QED
    BY <2>4, <2>5, <2>6
<1>4. CASE a > brk.cur
  <2>1. brk' = [brk EXCEPT !.want = a]
    BY <1>4 DEF Brk
  <2>2. call' = [Idle EXCEPT !.op = "brk", !.root = linux, !.at = linux, !.todo = todo]
    BY <1>4 DEF Brk
  <2> HIDE DEF todo
  <2>3. call' = [op |-> "brk", root |-> linux, todo |-> todo, frame |-> None, at |-> linux, lev |-> 1]
    BY <2>2 DEF Idle
  <2>4. /\ brk' \in [cur : (HeapBase * PAGE) .. (HeapCap * PAGE), mapped : {0} \cup HeapBase .. HeapCap,
                  want : {0} \cup (HeapBase * PAGE) .. (HeapCap * PAGE)]
        /\ brk'.want \in (HeapBase * PAGE) .. (HeapCap * PAGE)
    BY <2>1 DEF MInv, TypeOK
  <2>5. QED
    BY <1>1, <1>2, <1>3, <2>3, <2>4, StartKeeps
<1>5. CASE ~(a > brk.cur)
  <2>1. brk' = [brk EXCEPT !.cur = a] /\ UNCHANGED call
    BY <1>5 DEF Brk
  <2>2. TypeOK'
    BY <1>1, <2>1 DEF MInv, TypeOK, tables
  <2>3. (LevelsOK /\ KernelOK /\ SurfaceOK /\ TreesOK /\ Isolated)'
    BY <1>1 DEF MInv, LevelsOK, KernelOK, SurfaceOK, TreesOK, Isolated, Inherited, Shareable, tables
  <2>4. (OwnerOK /\ WalkOK)'
    BY <1>1, <2>1 DEF MInv, OwnerOK, WalkOK, LedTo, Shareable, tables
  <2>5. QED
    BY <2>2, <2>3, <2>4 DEF MInv
<1>6. QED
  BY <1>4, <1>5

(* mmap of memory.                                                            *)
LEMMA MmapKeeps ==
  ASSUME MInv, NEW len \in 1 .. (MapCap - MapBase), Mmap(len)
  PROVE  MInv'
<1> DEFINE todo == [i \in 1 .. len |-> mmap + i - 1]
<1>1. /\ linux # None /\ call.op = "idle" /\ UNCHANGED <<tables, spaces, linux, brk, surface>>
      /\ call' = [Idle EXCEPT !.op = "mmap", !.root = linux, !.at = linux, !.todo = todo]
      /\ mmap + len <= MapCap /\ mmap' = mmap + len
  BY DEF Mmap
<1>2. mmap \in MapBase .. MapCap /\ MapBase \in Nat /\ MapCap \in Nat /\ MapBase .. MapCap \subseteq Pages
  BY MemoryAssumption DEF MInv, TypeOK
<1>3. mmap' \in MapBase .. MapCap /\ \A i \in 1 .. len : mmap + i - 1 \in MapBase .. MapCap
  BY <1>1, <1>2
<1>4. todo \in Seq(Pages)
  BY <1>2, <1>3
<1> HIDE DEF todo
<1>5. call' = [op |-> "mmap", root |-> linux, todo |-> todo, frame |-> None, at |-> linux, lev |-> 1]
  BY <1>1 DEF Idle
<1>6. brk' \in [cur : (HeapBase * PAGE) .. (HeapCap * PAGE), mapped : {0} \cup HeapBase .. HeapCap,
                want : {0} \cup (HeapBase * PAGE) .. (HeapCap * PAGE)]
  BY <1>1 DEF MInv, TypeOK
<1>7. QED
  BY <1>1, <1>3, <1>4, <1>5, <1>6, StartKeeps

(* mmap of memory at pages that the program names.                            *)
LEMMA MmapFixedKeeps ==
  ASSUME MInv, NEW r \in FixedRuns, MmapFixed(r[1], r[2])
  PROVE  MInv'
<1> DEFINE todo == [i \in 1 .. (r[2] - r[1] + 1) |-> r[1] + i - 1]
<1>1. /\ linux # None /\ call.op = "idle" /\ UNCHANGED <<tables, spaces, linux, brk, mmap, surface>>
      /\ call' = [Idle EXCEPT !.op = "fixed", !.root = linux, !.at = linux, !.todo = todo]
  BY DEF MmapFixed
<1>2. /\ r[1] \in Nat /\ r[2] \in Nat /\ r[1] <= r[2] /\ r[1] .. r[2] \subseteq Pages
      /\ mmap \in MapBase .. MapCap
  BY MemoryAssumption DEF MInv, TypeOK
<1>3. r[2] - r[1] + 1 \in Nat /\ \A i \in 1 .. (r[2] - r[1] + 1) : r[1] + i - 1 \in Pages
  BY <1>2
<1>4. todo \in Seq(Pages)
  BY <1>3
<1> HIDE DEF todo
<1>5. call' = [op |-> "fixed", root |-> linux, todo |-> todo, frame |-> None, at |-> linux, lev |-> 1]
  BY <1>1 DEF Idle
<1>6. brk' \in [cur : (HeapBase * PAGE) .. (HeapCap * PAGE), mapped : {0} \cup HeapBase .. HeapCap,
                want : {0} \cup (HeapBase * PAGE) .. (HeapCap * PAGE)]
  BY <1>1 DEF MInv, TypeOK
<1>7. QED
  BY <1>1, <1>2, <1>4, <1>5, <1>6, StartKeeps

(* mmap of the screen.                                                        *)
LEMMA ScreenKeeps ==
  ASSUME MInv, MapScreen
  PROVE  MInv'
<1>1. call' = [op |-> "screen", root |-> linux, todo |-> ScreenPages, frame |-> None, at |-> linux, lev |-> 1]
  BY DEF MapScreen, Idle
<1>2. ScreenPages \in Seq(Pages) /\ Len(ScreenPages) \in Nat
  BY MemoryAssumption
<1>3. QED
  BY SMTT(60), <1>1, <1>2, StartKeeps DEF MapScreen, MInv, TypeOK

(* Nothing happens.                                                           *)
LEMMA StutterKeeps ==
  ASSUME MInv, UNCHANGED vars
  PROVE  MInv'
<1>1. TypeOK' /\ LevelsOK' /\ KernelOK' /\ SurfaceOK' /\ OwnerOK'
  BY DEF MInv, TypeOK, LevelsOK, KernelOK, SurfaceOK, OwnerOK, vars
<1>2. WalkOK' /\ TreesOK' /\ Isolated'
  BY DEF MInv, WalkOK, LedTo, TreesOK, Isolated, Inherited, Shareable, vars
<1>3. QED
  BY <1>1, <1>2 DEF MInv

(* alloc_frames for the screen.                                               *)
LEMMA SurfaceKeeps ==
  ASSUME MInv, MakeSurface
  PROVE  MInv'
<1> DEFINE n == Len(ScreenPages)
           s == Min({t \in free : Run(t, n) \subseteq free})
<1>1. /\ call.op = "idle" /\ surface = << >> /\ AllocRun(n)
      /\ UNCHANGED <<pt, level, spaces, linux, brk, mmap, call>>
  BY DEF MakeSurface
<1>2. n \in Nat /\ free \subseteq Frames \ Reserved /\ free \subseteq Nat
  BY MemoryAssumption DEF MInv, TypeOK
<1>3. CASE \E t \in free : Run(t, n) \subseteq free
  <2>1. free' = free \ Run(s, n) /\ surface' = [i \in 1 .. n |-> s + i - 1]
    BY <1>1, <1>3 DEF AllocRun
  <2>2. s \in free /\ Run(s, n) \subseteq free /\ s \in Nat
    <3> DEFINE S == {t \in free : Run(t, n) \subseteq free}
    <3>1. S \in SUBSET Nat /\ S # {}
      BY <1>2, <1>3
    <3> HIDE DEF S
    <3>2. Min(S) \in S
      BY <3>1, MinIn
    <3>3. QED
      BY <1>2, <3>2 DEF S
  <2> HIDE DEF s, n
  <2>3. \A i \in 1 .. n : s + i - 1 \in Run(s, n) /\ s + i - 1 \in free
    BY <1>2, <2>2 DEF Run
  <2>4. /\ surface' \in Seq(Frames \ Reserved) /\ Len(surface') = n
        /\ \A k \in 1 .. Len(surface') : surface'[k] \in Run(s, n) /\ surface'[k] \in free
    <3>1. \A i \in 1 .. n : s + i - 1 \in Frames \ Reserved
      BY <1>2, <2>3
    <3>2. QED
      BY <1>2, <2>1, <2>3, <3>1
  <2>5. TypeOK'
    BY <1>1, <1>2, <2>1, <2>4 DEF MInv, TypeOK
  <2>6. SurfaceOK'
    BY <1>1, <2>1, <2>4 DEF MInv, SurfaceOK, LevelsOK, n
  <2>7. LevelsOK' /\ KernelOK' /\ TreesOK'
    BY <1>1, <2>1 DEF MInv, LevelsOK, KernelOK, TreesOK
  <2>8. Isolated'
    BY <1>1 DEF MInv, Isolated, Inherited, Shareable
  <2>9. OwnerOK' /\ WalkOK'
    BY <1>1 DEF MInv, OwnerOK, WalkOK, Idle, Kinds, LinuxCalls
  <2>10. QED
    BY <2>5, <2>6, <2>7, <2>8, <2>9 DEF MInv
<1>4. CASE ~\E t \in free : Run(t, n) \subseteq free
  <2>1. UNCHANGED vars
    BY <1>1, <1>4 DEF AllocRun, vars
  <2>2. QED
    BY <2>1, StutterKeeps
<1>5. QED
  BY <1>3, <1>4

(* A program is spawned: new_address_space and new_address_space_private.     *)
LEMMA NewSpaceKeeps ==
  ASSUME MInv, NEW kind \in Kinds, NewSpace(kind)
  PROVE  MInv'
<1> PICK f \in free :
         /\ Alloc(f)
         /\ pt' = [pt EXCEPT ![f] = [i \in Index |-> IF i \in Copied(kind) THEN pt[Boot][i]
                                                                           ELSE None]]
         /\ level' = [level EXCEPT ![f] = 1]
         /\ spaces' = [r \in DOMAIN spaces \cup {f} |-> IF r = f THEN kind ELSE spaces[r]]
         /\ call' = [op |-> kind, root |-> f, todo |-> Layout[kind], frame |-> None,
                     at |-> f, lev |-> 1]
  BY DEF NewSpace
<1> DEFINE top == [i \in Index |-> IF i \in Copied(kind) THEN pt[Boot][i] ELSE None]
<1>1. UNCHANGED <<linux, brk, mmap, surface>> /\ free' = free \ {f} /\ call.op = "idle"
      /\ (kind \in LinuxKinds => linux = None)
  BY DEF NewSpace, Alloc
<1>2. /\ f \in Frames /\ f \in Nat /\ f # None /\ f # 0 /\ f \notin Kernel
      /\ level[f] = 0 /\ f \notin DOMAIN spaces /\ f \notin Shareable
      /\ \A t \in Frames, i \in Index : level[t] # 0 => pt[t][i] # f
  BY FreeFrame
<1>3. /\ \A i \in HighSlots : /\ i \in Index /\ BootTables[i] \in Frames \ {0, Boot}
                              /\ BootTables[i] \notin free
                              /\ level[BootTables[i]] = 2 /\ pt[BootTables[i]] = Empty
                              /\ pt[Boot][i] = BootTables[i]
      /\ Depth \in Nat /\ Depth >= 2 /\ Boot \in Frames
      /\ Copied(kind) \subseteq HighSlots
  BY KernelTables
<1>4. top \in [Index -> Entries] /\ \A i \in Index : top[i] = IF i \in Copied(kind) THEN BootTables[i] ELSE None
  BY <1>3 DEF Entries
<1>5. /\ pt' \in [Frames -> [Index -> Entries]] /\ pt'[f] = top
      /\ \A t \in Frames : t # f => pt'[t] = pt[t]
      /\ level' \in [Frames -> 0 .. Depth] /\ level'[f] = 1
      /\ \A t \in Frames : t # f => level'[t] = level[t]
  <2>1. pt \in [Frames -> [Index -> Entries]] /\ level \in [Frames -> 0 .. Depth]
    BY DEF MInv, TypeOK
  <2> HIDE DEF top
  <2>2. pt' = [pt EXCEPT ![f] = top]
    BY DEF top
  <2>3. QED
    BY <1>2, <1>3, <1>4, <2>1, <2>2
<1>6. /\ DOMAIN spaces' = DOMAIN spaces \cup {f} /\ spaces'[f] = kind
      /\ \A r \in DOMAIN spaces : spaces'[r] = spaces[r]
  BY <1>2
<1> HIDE DEF top
<1>7. TypeOK'
  <2>1. Layout[kind] \in Seq(Pages)
    BY MemoryAssumption
  <2>2. call' \in [op : Kinds \cup {"idle", "brk", "mmap", "fixed", "screen", "fault"}, root : Frames,
                todo : Seq(Pages), frame : Entries, at : Frames, lev : 1..Depth]
    BY <1>2, <1>3, <2>1 DEF Entries
  <2>3. QED
    BY <1>1, <1>2, <1>5, <1>6, <2>2 DEF MInv, TypeOK
<1>8. LevelsOK'
  BY <1>1, <1>2, <1>3, <1>5, <1>6, KernelConstants DEF MInv, LevelsOK, Kernel
<1>9. KernelOK'
  <2>1. /\ \A i \in Index : pt'[Boot][i] = IF i \in HighSlots THEN BootTables[i] ELSE None
        /\ \A i \in HighSlots : pt'[BootTables[i]] = Empty
    BY <1>2, <1>3, <1>5 DEF MInv, KernelOK, Kernel
  <2>2. ASSUME NEW r \in DOMAIN spaces', NEW i \in Copied(spaces'[r]) PROVE pt'[r][i] = pt'[Boot][i]
    <3>1. CASE r = f
      BY <1>3, <1>4, <1>5, <1>6, <2>1, <3>1
    <3>2. CASE r # f
      BY <1>2, <1>5, <1>6, <3>2 DEF MInv, KernelOK, TypeOK, Kernel
    <3>3. QED
      BY <3>1, <3>2
  <2>3. QED
    BY <1>2, <1>6, <2>1, <2>2 DEF KernelOK, Kernel, MInv
<1>10. SurfaceOK'
  BY <1>1, <1>2, <1>5 DEF MInv, SurfaceOK, TypeOK, Shareable
<1>11. OwnerOK'
  <2>1. linux' # None => spaces'[linux'] \in LinuxKinds
    BY <1>1, <1>6 DEF MInv, OwnerOK, TypeOK
  <2>2. kind = "shared" => \A k \in 1 .. Len(Layout[kind]) : Path[Layout[kind][k]][1] \notin LowSlots
    BY SMTT(60), MemoryAssumption DEF Kinds
  <2>3. QED
    BY <1>6, <2>1, <2>2 DEF OwnerOK, LinuxCalls, Kinds
<1>12. WalkOK'
  BY <1>2, <1>5 DEF WalkOK, Kernel, Kinds
<1>13. TreesOK'
  <2> SUFFICES ASSUME NEW t \in Frames, NEW i \in Index, level'[t] # 0, pt'[t][i] # None
               PROVE  pt'[t][i] \notin free' /\ level'[pt'[t][i]] = IF level'[t] = Depth THEN 0 ELSE level'[t] + 1
    BY DEF TreesOK
  <2>1. CASE t = f
    BY <1>1, <1>2, <1>3, <1>4, <1>5, <2>1 DEF Kernel
  <2>2. CASE t # f
    <3>1. level[t] # 0 /\ pt[t][i] # None /\ pt'[t][i] = pt[t][i] /\ pt[t][i] # f /\ pt[t][i] \in Frames
      BY <1>2, <1>5, <2>2 DEF MInv, TypeOK, Entries
    <3>2. QED
      BY <1>1, <1>5, <2>2, <3>1 DEF MInv, TreesOK
  <2>3. QED
    BY <2>1, <2>2
<1>14. Isolated'
  <2> SUFFICES ASSUME NEW t \in Frames, NEW u \in Frames, NEW i \in Index, NEW j \in Index,
                      level'[t] # 0, level'[u] # 0, ~Inherited(t, i)', ~Inherited(u, j)',
                      pt'[t][i] = pt'[u][j], pt'[t][i] \notin Shareable'
               PROVE  t = u /\ i = j
    BY DEF Isolated
  <2>1. \A k \in Index : Inherited(f, k)' \/ pt'[f][k] = None
    BY <1>4, <1>5, <1>6 DEF Inherited
  <2>2. t # f /\ u # f
    BY <2>1 DEF Shareable
  <2>3. ~Inherited(t, i) /\ ~Inherited(u, j) /\ pt[t][i] = pt[u][j] /\ pt[t][i] \notin Shareable
        /\ level[t] # 0 /\ level[u] # 0
    BY <1>1, <1>5, <1>6, <2>2 DEF Inherited, Shareable
  <2>4. QED
    BY <2>3 DEF MInv, Isolated
<1>15. QED
  BY <1>7, <1>8, <1>9, <1>10, <1>11, <1>12, <1>13, <1>14 DEF MInv

(* A step that changes the call only, and not where its walk stands.          *)
LEMMA WalkStepKeeps ==
  ASSUME MInv, call.op # "idle", UNCHANGED <<pt, level, spaces, linux, mmap, surface>>,
         free' \subseteq free, brk' = brk,
         call' \in [op : Kinds \cup {"brk", "mmap", "fixed", "screen", "fault"}, root : Frames,
                    todo : Seq(Pages), frame : Entries, at : Frames, lev : 1..Depth],
         call'.op = call.op \/ (call.op \in {"brk", "mmap", "fixed"} /\ call'.op = "fault"),
         call'.root = call.root, Len(call'.todo) <= Len(call.todo),
         call'.op = "shared" => \A k \in 1 .. Len(call'.todo) : Path[call'.todo[k]][1] \notin LowSlots,
         WalkOK'
  PROVE  MInv'
<1>1. TypeOK' /\ LevelsOK' /\ KernelOK' /\ SurfaceOK'
  BY DEF MInv, TypeOK, LevelsOK, KernelOK, SurfaceOK
<1>2. TreesOK' /\ Isolated'
  BY DEF MInv, TreesOK, Isolated, Inherited, Shareable
<1>3. Len(call.todo) \in Nat /\ Len(call'.todo) \in Nat /\ Len(ScreenPages) \in Nat
  BY MemoryAssumption DEF MInv, TypeOK
<1>4. OwnerOK'
  BY <1>3 DEF MInv, OwnerOK, LinuxCalls, Kinds
<1>5. QED
  BY <1>1, <1>2, <1>4 DEF MInv

(* A call that ends leaves no walk. *)
LEMMA EndKeeps ==
  ASSUME MInv, call' = Idle, UNCHANGED <<tables, spaces, mmap, surface>>,
         brk' \in [cur : (HeapBase * PAGE) .. (HeapCap * PAGE), mapped : {0} \cup HeapBase .. HeapCap,
                   want : {0} \cup (HeapBase * PAGE) .. (HeapCap * PAGE)],
         linux' = linux \/ (linux' \in DOMAIN spaces /\ spaces[linux'] \in LinuxKinds)
  PROVE  MInv'
<1>1. UNCHANGED <<free, count, pt, level>>
  BY DEF tables
<1>2. call' \in [op : {"idle"}, root : Frames, todo : Seq(Pages), frame : Entries, at : Frames, lev : 1..Depth]
  BY KernelConstants DEF Idle, Entries
<1>3. TypeOK'
  BY <1>1, <1>2 DEF MInv, TypeOK
<1>4. LevelsOK' /\ KernelOK' /\ SurfaceOK' /\ TreesOK' /\ Isolated'
  BY <1>1 DEF MInv, LevelsOK, KernelOK, SurfaceOK, TreesOK, Isolated, Inherited, Shareable
<1>5. OwnerOK' /\ WalkOK'
  BY <1>1 DEF MInv, OwnerOK, WalkOK, Idle, Kinds, LinuxCalls
<1>6. QED
  BY <1>3, <1>4, <1>5 DEF MInv

(* The types of a call under way, one by one.                                 *)
LEMMA CallTyped ==
  ASSUME MInv
  PROVE  /\ call \in [op : Kinds \cup {"idle", "brk", "mmap", "fixed", "screen", "fault"}, root : Frames,
                      todo : Seq(Pages), frame : Entries, at : Frames, lev : 1..Depth]
         /\ Len(call.todo) \in Nat
         /\ call.todo # << >> => Head(call.todo) \in Pages /\ Tail(call.todo) \in Seq(Pages)
                                 /\ Len(Tail(call.todo)) = Len(call.todo) - 1
                                 /\ \A k \in 1 .. Len(Tail(call.todo)) : Tail(call.todo)[k] = call.todo[k + 1]
BY DEF MInv, TypeOK

(* A call is its fields.                                                      *)
LEMMA CallRecord ==
  ASSUME MInv
  PROVE  call = [op |-> call.op, root |-> call.root, todo |-> call.todo, frame |-> call.frame,
                 at |-> call.at, lev |-> call.lev]
BY CallTyped

(* The frame for a page.                                                      *)
LEMMA BackPageKeeps ==
  ASSUME MInv, BackPage
  PROVE  MInv'
<1>1. /\ call.op # "idle" /\ call.todo # << >> /\ call.frame = None
      /\ UNCHANGED <<pt, level, spaces, linux, brk, mmap, surface>>
  BY DEF BackPage
<1>2. ASSUME NEW g \in Frames, call' = [call EXCEPT !.frame = g], free' \subseteq free, level[g] = 0, g \notin free',
             g \in Shareable \/ ~LedTo(g), call.op # "fault"
      PROVE  MInv'
  <2>1. /\ call' \in [op : Kinds \cup {"brk", "mmap", "fixed", "screen", "fault"}, root : Frames,
                      todo : Seq(Pages), frame : Entries, at : Frames, lev : 1..Depth]
        /\ call'.op = call.op /\ call'.root = call.root /\ call'.todo = call.todo /\ call'.frame = g
        /\ call'.at = call.at /\ call'.lev = call.lev
    BY <1>1, <1>2, CallTyped DEF Entries
  <2>2. g # None
    BY KernelConstants
  <2>3. WalkOK'
    BY <1>1, <1>2, <2>1, <2>2 DEF MInv, WalkOK, LedTo, Shareable
  <2>4. call'.op = "shared" => \A k \in 1 .. Len(call'.todo) : Path[call'.todo[k]][1] \notin LowSlots
    BY <2>1 DEF MInv, OwnerOK
  <2>5. Len(call'.todo) <= Len(call.todo)
    BY <2>1, CallTyped
  <2>6. QED
    BY <1>1, <1>2, <2>1, <2>3, <2>4, <2>5, WalkStepKeeps
<1>3. CASE call.op = "screen"
  <2> DEFINE k == Len(ScreenPages) - Len(call.todo) + 1
  <2>1. call' = [call EXCEPT !.frame = surface[k]] /\ UNCHANGED <<free, count>>
    BY <1>3 DEF BackPage
  <2>2. /\ surface # << >> /\ Len(surface) = Len(ScreenPages) /\ Len(call.todo) <= Len(ScreenPages)
        /\ \A n \in 1 .. Len(surface) : surface[n] \notin free /\ level[surface[n]] = 0
    BY <1>3 DEF MInv, OwnerOK, SurfaceOK
  <2>3. Len(call.todo) \in Nat /\ Len(call.todo) # 0 /\ Len(ScreenPages) \in Nat /\ surface \in Seq(Frames \ Reserved)
    BY <1>1, MemoryAssumption DEF MInv, TypeOK
  <2>4. k \in 1 .. Len(surface)
    BY <2>2, <2>3
  <2> HIDE DEF k
  <2>5. surface[k] \in Frames /\ surface[k] \in Shareable
    BY <2>3, <2>4 DEF Shareable
  <2>6. QED
    BY <1>2, <1>3, <2>1, <2>2, <2>4, <2>5
<1>4. ASSUME NEW f \in free, Alloc(f), call' = [call EXCEPT !.frame = f] PROVE MInv'
  <2>1. free' = free \ {f}
    BY <1>4 DEF Alloc
  <2>2. call.op # "fault"
    BY <1>1 DEF MInv, WalkOK
  <2>3. QED
    BY <1>2, <1>4, <2>1, <2>2, FreeFrame DEF LedTo
<1>5. CASE free = {} /\ UNCHANGED <<free, count>> /\ call.op \in {"stub", "shared"} /\ call' = [call EXCEPT !.frame = 0]
  BY <1>2, <1>5, KernelTables DEF Shareable
<1>6. CASE UNCHANGED <<free, count>> /\ call' = Idle
  BY <1>1, <1>6, EndKeeps DEF tables, MInv, TypeOK
<1>7. QED
  BY <1>3, <1>4, <1>5, <1>6 DEF BackPage

(* Where a walk goes on is in a table of its own space.                       *)
LEMMA WalkPlace ==
  ASSUME MInv, call.frame # None, NEW i, i = Path[Head(call.todo)][call.lev]
  PROVE  /\ call.op \notin {"idle", "fault"} /\ call.todo # << >>
         /\ call.at \in Frames /\ call.at \notin Kernel /\ i \in Index
         /\ call.lev \in 1 .. Depth /\ level[call.at] = call.lev /\ pt[call.at][i] \in Entries
         /\ ~Inherited(call.at, i)
         /\ call.frame \in Frames /\ level[call.frame] = 0 /\ call.frame \notin free
         /\ call.frame # call.at
<1>1. call.op \notin {"idle", "fault"} /\ call.todo # << >>
  BY DEF MInv, WalkOK
<1>2. /\ call.at \in Frames /\ call.at \notin Kernel /\ call.lev \in 1 .. Depth
      /\ level[call.at] = call.lev
      /\ call.frame \in Frames /\ level[call.frame] = 0 /\ call.frame \notin free
  BY <1>1, CallTyped DEF MInv, WalkOK, Entries
<1>3. i \in Index
  BY <1>1, <1>2, CallTyped, PathTyped
<1>4. ~Inherited(call.at, i)
  <2> SUFFICES ASSUME call.at \in DOMAIN spaces PROVE i \notin Copied(spaces[call.at])
    BY DEF Inherited
  <2>1. call.lev = 1 /\ call.at = call.root
    BY <1>1, <1>2 DEF MInv, LevelsOK, WalkOK
  <2>2. i \notin KernelSlots
    BY <1>1, <2>1, CallTyped, MemoryAssumption
  <2>3. CASE spaces[call.at] = "shared"
    <3>1. call.op = "shared"
      BY <1>1, <2>1, <2>3, CallTyped DEF MInv, OwnerOK, LinuxKinds, LinuxCalls, Kinds
    <3>2. 1 \in 1 .. Len(call.todo) /\ Head(call.todo) = call.todo[1]
      BY <1>1, CallTyped
    <3>3. i \notin LowSlots
      BY <2>1, <3>1, <3>2 DEF MInv, OwnerOK
    <3>4. QED
      BY <2>2, <2>3, <3>3 DEF Copied
  <2>4. CASE spaces[call.at] # "shared"
    BY <2>2, <2>4 DEF Copied
  <2>5. QED
    BY <2>3, <2>4
<1>5. pt[call.at][i] \in Entries /\ call.frame # call.at
  BY <1>2, <1>3 DEF MInv, TypeOK
<1>6. QED
  BY <1>1, <1>2, <1>3, <1>4, <1>5

(* descend: a level of the walk, with or without a new table.                 *)
LEMMA DescendKeeps ==
  ASSUME MInv, Descend
  PROVE  MInv'
<1> DEFINE i == Path[Head(call.todo)][call.lev]
           at == call.at
<1>1. /\ call.op \notin {"idle", "fault"} /\ call.todo # << >>
      /\ at \in Frames /\ at \notin Kernel /\ i \in Index
      /\ call.lev \in 1 .. Depth /\ level[at] = call.lev /\ pt[at][i] \in Entries
      /\ ~Inherited(at, i)
      /\ call.frame \in Frames /\ level[call.frame] = 0 /\ call.frame \notin free
      /\ call.frame # at /\ call.frame # None /\ call.lev < Depth
  BY WalkPlace DEF Descend
<1>2. Depth \in Nat
  BY MemoryAssumption
<1>3. UNCHANGED <<spaces, linux, brk, mmap, surface>>
  BY DEF Descend
<1>4. /\ call.op = "shared" => \A k \in 1 .. Len(call.todo) : Path[call.todo[k]][1] \notin LowSlots
      /\ Len(call.todo) \in Nat
  BY CallTyped DEF MInv, OwnerOK
<1> HIDE DEF i
<1>5. CASE pt[at][i] # None /\ call' = [call EXCEPT !.at = pt[at][i], !.lev = @ + 1] /\ UNCHANGED tables
  <2> DEFINE g == pt[at][i]
  <2>1. g \in Frames /\ g \notin free /\ level[g] = call.lev + 1
    BY <1>1, <1>2, <1>5 DEF MInv, TreesOK, Entries
  <2>2. g \notin Kernel
    <3>1. g # Boot
      BY <1>1, <2>1, KernelTables
    <3>2. ASSUME NEW j \in HighSlots, g = BootTables[j] PROVE FALSE
      <4>1. /\ pt[Boot][j] = g /\ j \in Index /\ Boot \in Frames /\ level[Boot] = 1
            /\ ~Inherited(Boot, j)
            /\ g # 0 /\ g # None
        BY <1>5, <3>2, KernelTables DEF Inherited
      <4>2. \A k \in 1 .. Len(surface) : surface[k] # g
        BY <1>1, <1>2, <2>1 DEF MInv, SurfaceOK
      <4>3. g \notin Shareable
        BY <4>1, <4>2 DEF Shareable
      <4>4. at = Boot
        BY <1>1, <1>2, <4>1, <4>3 DEF MInv, Isolated
      <4>5. QED
        BY <1>1, <4>4 DEF Kernel
    <3>3. QED
      BY <3>1, <3>2 DEF Kernel
  <2> HIDE DEF g, at
  <2>3. /\ call' \in [op : Kinds \cup {"brk", "mmap", "fixed", "screen", "fault"}, root : Frames,
                      todo : Seq(Pages), frame : Entries, at : Frames, lev : 1..Depth]
        /\ call'.op = call.op /\ call'.root = call.root /\ call'.todo = call.todo
        /\ call'.frame = call.frame
        /\ call'.at = g /\ call'.lev = call.lev + 1
    <3>1. call' = [op |-> call.op, root |-> call.root, todo |-> call.todo, frame |-> call.frame,
                   at |-> g, lev |-> call.lev + 1]
      BY <1>5, CallRecord DEF g
    <3>2. call.lev + 1 \in 1 .. Depth
      BY <1>1, <1>2
    <3>3. QED
      BY <1>1, <2>1, <3>1, <3>2, CallTyped
  <2>4. WalkOK'
    BY <1>1, <1>3, <1>5, <2>1, <2>2, <2>3 DEF MInv, WalkOK, LedTo, Shareable, tables, Kernel
  <2>5. QED
    BY <1>1, <1>3, <1>4, <1>5, <2>3, <2>4, WalkStepKeeps DEF tables
<1>6. ASSUME pt[at][i] = None, NEW f \in free, Alloc(f), pt' = [pt EXCEPT ![f] = Empty, ![at][i] = f],
             level' = [level EXCEPT ![f] = call.lev + 1],
             call' = [call EXCEPT !.at = f, !.lev = @ + 1]
      PROVE  MInv'
  <2>1. /\ f \in Frames /\ f \in Nat /\ f # None /\ f # 0 /\ f \notin Kernel
        /\ level[f] = 0 /\ f \notin DOMAIN spaces /\ f \notin Shareable
        /\ \A t \in Frames, j \in Index : level[t] # 0 => pt[t][j] # f
    BY FreeFrame
  <2>2. f # at /\ f # call.frame /\ free' = free \ {f}
    BY <1>1, <1>6, <2>1 DEF Alloc
  <2>3. /\ pt' \in [Frames -> [Index -> Entries]]
        /\ pt'[f] = Empty
        /\ \A t \in Frames : t # f /\ t # at => pt'[t] = pt[t]
        /\ \A j \in Index : pt'[at][j] = IF j = i THEN f ELSE pt[at][j]
    <3>1. pt \in [Frames -> [Index -> Entries]] /\ Empty \in [Index -> Entries]
      BY DEF MInv, TypeOK, Empty, Entries
    <3>2. f \in Entries
      BY <2>1 DEF Entries
    <3> HIDE DEF at
    <3>3. QED
      BY <1>1, <1>6, <2>1, <2>2, <3>1, <3>2
  <2>4. /\ level' \in [Frames -> 0 .. Depth] /\ level'[f] = call.lev + 1
        /\ \A t \in Frames : t # f => level'[t] = level[t]
    BY <1>1, <1>2, <1>6, <2>1 DEF MInv, TypeOK
  <2>5. /\ call' \in [op : Kinds \cup {"idle", "brk", "mmap", "fixed", "screen", "fault"}, root : Frames,
                      todo : Seq(Pages), frame : Entries, at : Frames, lev : 1..Depth]
        /\ call'.op = call.op /\ call'.root = call.root /\ call'.todo = call.todo
        /\ call'.frame = call.frame
        /\ call'.at = f /\ call'.lev = call.lev + 1
    <3>1. call' = [op |-> call.op, root |-> call.root, todo |-> call.todo, frame |-> call.frame,
                   at |-> f, lev |-> call.lev + 1]
      BY <1>6, CallRecord
    <3>2. call.lev + 1 \in 1 .. Depth
      BY <1>1, <1>2
    <3>3. QED
      BY <1>1, <2>1, <3>1, <3>2, CallTyped
  <2> HIDE DEF at
  <2>6. TypeOK'
    BY <1>3, <2>2, <2>3, <2>4, <2>5 DEF MInv, TypeOK
  <2>7. LevelsOK'
    <3>1. call.lev + 1 # 1
      BY <1>1
    <3>2. \A t \in Frames : level[t] = 1 <=> t = Boot \/ t \in DOMAIN spaces
      BY DEF MInv, LevelsOK
    <3>3. \A t \in Frames : level'[t] = 1 <=> t = Boot \/ t \in DOMAIN spaces'
      BY <1>3, <2>1, <2>4, <3>1, <3>2 DEF Kernel
    <3>4. \A t \in free' : level'[t] = 0
      BY <2>2, <2>4, FreeFrame
    <3>5. level'[0] = 0 /\ \A j \in HighSlots : level'[BootTables[j]] = 2
      BY ZenonT(60), <2>1, <2>4, KernelTables DEF Kernel
    <3>6. QED
      BY <3>3, <3>4, <3>5 DEF LevelsOK
  <2>8. KernelOK'
    <3>1. pt'[Boot] = pt[Boot] /\ \A j \in HighSlots : pt'[BootTables[j]] = pt[BootTables[j]]
      BY ZenonT(60), <1>1, <2>1, <2>3, KernelConstants DEF Kernel
    <3>2. ASSUME NEW r \in DOMAIN spaces, NEW j \in Copied(spaces[r]) PROVE pt'[r][j] = pt[r][j]
      <4>1. r \in Frames /\ j \in Index /\ r # f /\ Inherited(r, j)
        BY <2>1, MemoryAssumption DEF MInv, TypeOK, Inherited, Copied
      <4>2. ~(r = at /\ j = i)
        BY <1>1, <4>1
      <4>3. QED
        BY <2>3, <4>1, <4>2
    <3>3. QED
      BY <1>3, <3>1, <3>2 DEF MInv, KernelOK
  <2>9. SurfaceOK'
    <3>1. /\ surface = << >> \/ Len(surface) = Len(ScreenPages)
          /\ \A k \in 1 .. Len(surface) : surface[k] \notin free /\ level[surface[k]] = 0
      BY DEF MInv, SurfaceOK
    <3>2. \A k \in 1 .. Len(surface) : surface[k] \in Frames /\ surface[k] # f
      BY <2>1 DEF MInv, TypeOK, Shareable
    <3>3. QED
      BY <1>3, <2>2, <2>4, <3>1, <3>2 DEF SurfaceOK
  <2>10. OwnerOK'
    BY <1>3, <2>5 DEF MInv, OwnerOK
  <2>11. WalkOK'
    <3>1. call.frame \in Shareable \/ ~LedTo(call.frame)
      BY <1>1 DEF MInv, WalkOK
    <3>2. ~LedTo(call.frame) => \A t \in Frames, j \in Index : ~(level'[t] # 0 /\ pt'[t][j] = call.frame)
      <4> SUFFICES ASSUME ~LedTo(call.frame), NEW t \in Frames, NEW j \in Index, level'[t] # 0
                   PROVE  pt'[t][j] # call.frame
        OBVIOUS
      <4>1. CASE t = f
        BY <1>1, <2>3, <4>1 DEF Empty
      <4>2. CASE t # f
        <5>1. level[t] # 0 /\ pt[t][j] # call.frame
          BY <2>4, <4>2 DEF LedTo
        <5>2. pt'[t][j] \in {f, pt[t][j]}
          BY <2>3, <4>2
        <5>3. QED
          BY <2>2, <5>1, <5>2
      <4>3. QED
        BY <4>1, <4>2
    <3>3. Shareable' = Shareable
      BY <1>3 DEF Shareable
    <3>4. call'.frame \in Shareable' \/ ~\E t \in Frames, j \in Index : level'[t] # 0 /\ pt'[t][j] = call'.frame
      <4>1. call'.frame = call.frame
        BY <2>5
      <4>2. QED
        BY <3>1, <3>2, <3>3, <4>1
    <3>5. call'.frame \notin free' /\ level'[call'.frame] = 0
      BY <1>1, <2>2, <2>4, <2>5
    <3>6. QED
      BY <1>1, <2>1, <2>4, <2>5, <3>4, <3>5 DEF WalkOK, LedTo, Kernel
  <2>12. TreesOK'
    <3> SUFFICES ASSUME NEW t \in Frames, NEW j \in Index, level'[t] # 0, pt'[t][j] # None
                 PROVE  pt'[t][j] \notin free' /\ level'[pt'[t][j]] = IF level'[t] = Depth THEN 0 ELSE level'[t] + 1
      BY DEF TreesOK
    <3>1. t # f
      BY <2>3 DEF Empty
    <3>2. CASE t = at /\ j = i
      BY <1>1, <1>2, <2>1, <2>2, <2>3, <2>4, <3>2
    <3>3. CASE ~(t = at /\ j = i)
      <4>1. level[t] # 0 /\ pt[t][j] # None /\ pt'[t][j] = pt[t][j] /\ pt[t][j] # f /\ pt[t][j] \in Frames
        BY <2>1, <2>3, <2>4, <3>1, <3>3 DEF MInv, TypeOK, Entries
      <4>2. QED
        BY <2>2, <2>4, <3>1, <4>1 DEF MInv, TreesOK
    <3>4. QED
      BY <3>2, <3>3
  <2>13. Isolated'
    <3> SUFFICES ASSUME NEW t \in Frames, NEW u \in Frames, NEW j \in Index, NEW k \in Index,
                        level'[t] # 0, level'[u] # 0, ~Inherited(t, j)', ~Inherited(u, k)',
                        pt'[t][j] = pt'[u][k], pt'[t][j] \notin Shareable'
                 PROVE  t = u /\ j = k
      BY DEF Isolated
    <3>1. Shareable' = Shareable /\ ~Inherited(t, j) /\ ~Inherited(u, k)
      BY <1>3 DEF Shareable, Inherited
    <3>2. t # f /\ u # f
      BY <2>3, <3>1 DEF Empty, Shareable
    <3>3. level[t] # 0 /\ level[u] # 0
      BY <2>4, <3>2
    <3>4. \A v \in Frames, l \in Index : v # f /\ level[v] # 0 =>
             pt'[v][l] = IF v = at /\ l = i THEN f ELSE pt[v][l]
      BY <2>3
    <3>5. CASE t = at /\ j = i
      BY ZenonT(60), <2>1, <3>2, <3>3, <3>4, <3>5
    <3>6. CASE u = at /\ k = i
      BY ZenonT(60), <2>1, <3>2, <3>3, <3>4, <3>6
    <3>7. CASE ~(t = at /\ j = i) /\ ~(u = at /\ k = i)
      BY <3>1, <3>2, <3>3, <3>4, <3>7 DEF MInv, Isolated
    <3>8. QED
      BY <3>5, <3>6, <3>7
  <2>14. QED
    BY <2>6, <2>7, <2>8, <2>9, <2>10, <2>11, <2>12, <2>13 DEF MInv
<1>7. QED
  BY <1>5, <1>6 DEF Descend, i

(* With one page less to go.                                                  *)
LEMMA PageDoneFacts ==
  ASSUME MInv, call.frame # None
  PROVE  /\ PageDone \in [op : Kinds \cup {"brk", "mmap", "fixed", "screen", "fault"}, root : Frames,
                          todo : Seq(Pages), frame : Entries, at : Frames, lev : 1..Depth]
         /\ PageDone.op = call.op /\ PageDone.root = call.root /\ PageDone.frame = None
         /\ PageDone.at = call.root /\ PageDone.lev = 1
         /\ Len(PageDone.todo) <= Len(call.todo)
         /\ call.op = "shared" => \A k \in 1 .. Len(PageDone.todo) : Path[PageDone.todo[k]][1] \notin LowSlots
         /\ call.op \notin {"idle", "fault"} /\ level[call.root] = 1 /\ call.root \notin Kernel
<1>1. call.op \notin {"idle", "fault"} /\ call.todo # << >>
  BY DEF MInv, WalkOK
<1>2. /\ PageDone.op = call.op /\ PageDone.root = call.root /\ PageDone.frame = None
      /\ PageDone.at = call.root /\ PageDone.lev = 1 /\ PageDone.todo = Tail(call.todo)
      /\ PageDone \in [op : Kinds \cup {"brk", "mmap", "fixed", "screen", "fault"}, root : Frames,
                          todo : Seq(Pages), frame : Entries, at : Frames, lev : 1..Depth]
  <2>1. PageDone = [op |-> call.op, root |-> call.root, todo |-> Tail(call.todo), frame |-> None,
                    at |-> call.root, lev |-> 1]
    BY DEF PageDone
  <2>2. QED
    BY <1>1, <2>1, CallTyped, KernelConstants DEF Entries
<1>3. call.op = "shared" => \A k \in 1 .. Len(call.todo) : Path[call.todo[k]][1] \notin LowSlots
  BY DEF MInv, OwnerOK
<1>4. \A k \in 1 .. Len(Tail(call.todo)) : k + 1 \in 1 .. Len(call.todo)
  BY <1>1, CallTyped
<1>5. call.root \in DOMAIN spaces
  BY <1>1, CallTyped DEF MInv, OwnerOK, TypeOK, LinuxCalls
<1>6. level[call.root] = 1 /\ call.root \notin Kernel
  BY <1>5, CallTyped, KernelConstants DEF MInv, LevelsOK, KernelOK, Kernel
<1>7. QED
  BY <1>1, <1>2, <1>3, <1>4, <1>6, CallTyped

(* There is no frame for a table.                                             *)
LEMMA NoTableKeeps ==
  ASSUME MInv, NoTable
  PROVE  MInv'
<1>1. call.frame # None /\ UNCHANGED <<tables, spaces, linux, brk, mmap, surface>>
  BY DEF NoTable
<1>2. call.op \notin {"idle", "fault"}
  BY <1>1 DEF MInv, WalkOK
<1>3. CASE call' = Idle
  BY <1>1, <1>3, EndKeeps DEF MInv, TypeOK
<1>4. CASE Cleared /\ call' = [call EXCEPT !.op = "fault", !.frame = None, !.todo = << >>]
  <2>1. /\ call' \in [op : Kinds \cup {"brk", "mmap", "fixed", "screen", "fault"}, root : Frames,
                      todo : Seq(Pages), frame : Entries, at : Frames, lev : 1..Depth]
        /\ call'.op = "fault" /\ call'.root = call.root /\ call'.todo = << >> /\ call'.frame = None
        /\ call'.at = call.at /\ call'.lev = call.lev
    <3>1. call' = [op |-> "fault", root |-> call.root, todo |-> << >>, frame |-> None,
                   at |-> call.at, lev |-> call.lev]
      BY <1>4, CallRecord
    <3>2. QED
      BY <3>1, CallTyped DEF Entries
  <2>2. WalkOK'
    BY <1>1, <1>2, <2>1 DEF MInv, WalkOK, tables, Kernel
  <2>3. Len(call'.todo) <= Len(call.todo)
    BY <2>1, CallTyped
  <2>4. QED
    BY <1>1, <1>2, <1>4, <2>1, <2>2, <2>3, WalkStepKeeps DEF tables, Cleared
<1>5. CASE call' = PageDone
  <2>1. WalkOK'
    BY <1>1, <1>5, PageDoneFacts DEF WalkOK, tables, Kernel
  <2>2. QED
    BY <1>1, <1>2, <1>5, <2>1, WalkStepKeeps, PageDoneFacts DEF tables
<1>6. QED
  BY <1>3, <1>4, <1>5 DEF NoTable

(* map_page_in writes the entry.                                              *)
LEMMA MapEntryKeeps ==
  ASSUME MInv, MapEntry
  PROVE  MInv'
<1> DEFINE i == Path[Head(call.todo)][call.lev]
           at == call.at
           g == call.frame
<1>1. /\ call.op \notin {"idle", "fault"} /\ call.todo # << >>
      /\ at \in Frames /\ at \notin Kernel /\ i \in Index
      /\ level[at] = Depth
      /\ ~Inherited(at, i)
      /\ g \in Frames /\ level[g] = 0 /\ g \notin free /\ g # None
  BY WalkPlace DEF MapEntry
<1>2. UNCHANGED <<free, count, level, spaces, linux, brk, mmap, surface>> /\ call' = PageDone
      /\ pt' = [pt EXCEPT ![at][i] = g]
  BY DEF MapEntry
<1>3. g \in Shareable \/ ~LedTo(g)
  BY <1>1 DEF MInv, WalkOK
<1> HIDE DEF i, at, g
<1>4. /\ pt' \in [Frames -> [Index -> Entries]]
      /\ \A t \in Frames : t # at => pt'[t] = pt[t]
      /\ \A j \in Index : pt'[at][j] = IF j = i THEN g ELSE pt[at][j]
  <2>1. pt \in [Frames -> [Index -> Entries]] /\ g \in Entries
    BY <1>1 DEF MInv, TypeOK, Entries
  <2>2. QED
    BY <1>1, <1>2, <2>1
<1>5. Depth \in Nat /\ Depth >= 2
  BY MemoryAssumption
<1>6. TypeOK'
  BY <1>1, <1>2, <1>4, PageDoneFacts DEF MInv, TypeOK, g
<1>7. LevelsOK' /\ SurfaceOK'
  BY <1>2 DEF MInv, LevelsOK, SurfaceOK
<1>8. KernelOK'
  <2>1. pt'[Boot] = pt[Boot] /\ \A j \in HighSlots : pt'[BootTables[j]] = pt[BootTables[j]]
    BY <1>1, <1>4, KernelConstants DEF Kernel
  <2>2. ASSUME NEW r \in DOMAIN spaces, NEW j \in Copied(spaces[r]) PROVE pt'[r][j] = pt[r][j]
    <3>1. r \in Frames /\ j \in Index /\ Inherited(r, j)
      BY MemoryAssumption DEF MInv, TypeOK, Inherited, Copied
    <3>2. ~(r = at /\ j = i)
      BY <1>1, <3>1
    <3>3. QED
      BY <1>4, <3>1, <3>2
  <2>3. QED
    BY <1>2, <2>1, <2>2 DEF MInv, KernelOK
<1>9. OwnerOK'
  <2>1. Len(PageDone.todo) \in Nat /\ Len(call.todo) \in Nat /\ Len(ScreenPages) \in Nat
    BY <1>1, PageDoneFacts, CallTyped, MemoryAssumption DEF g
  <2>2. QED
    BY <1>1, <1>2, <2>1, PageDoneFacts DEF MInv, OwnerOK, g
<1>10. WalkOK'
  BY <1>1, <1>2, PageDoneFacts DEF WalkOK, Kernel, g
<1>11. TreesOK'
  BY <1>1, <1>2, <1>4 DEF MInv, TreesOK
<1>12. Isolated'
  <2> SUFFICES ASSUME NEW t \in Frames, NEW u \in Frames, NEW j \in Index, NEW k \in Index,
                      level[t] # 0, level[u] # 0, ~Inherited(t, j), ~Inherited(u, k),
                      pt'[t][j] = pt'[u][k], pt'[t][j] \notin Shareable
               PROVE  t = u /\ j = k
    BY <1>2 DEF Isolated, Inherited, Shareable
  <2>1. \A v \in Frames, l \in Index : pt'[v][l] = IF v = at /\ l = i THEN g ELSE pt[v][l]
    BY <1>4
  <2>2. CASE t = at /\ j = i
    BY <1>3, <2>1, <2>2 DEF LedTo
  <2>3. CASE u = at /\ k = i
    BY <1>3, <2>1, <2>3 DEF LedTo
  <2>4. CASE ~(t = at /\ j = i) /\ ~(u = at /\ k = i)
    BY <2>1, <2>4 DEF MInv, Isolated
  <2>5. QED
    BY <2>2, <2>3, <2>4
<1>13. QED
  BY <1>6, <1>7, <1>8, <1>9, <1>10, <1>11, <1>12 DEF MInv

(* A call ends.                                                               *)
LEMMA FinishKeeps ==
  ASSUME MInv, Finish
  PROVE  MInv'
<1>1. /\ call.op \notin {"idle", "fault"} /\ call' = Idle
      /\ UNCHANGED <<tables, spaces, mmap, surface>>
      /\ brk' = (IF call.op = "brk" THEN [cur |-> brk.want, mapped |-> Up(brk.want), want |-> 0] ELSE brk)
      /\ linux' = (IF call.op \in LinuxKinds THEN call.root ELSE linux)
  BY DEF Finish, End
<1>2. linux' = linux \/ (linux' \in DOMAIN spaces /\ spaces[linux'] \in LinuxKinds)
  BY <1>1 DEF MInv, OwnerOK, Kinds, LinuxKinds
<1>3. brk' \in [cur : (HeapBase * PAGE) .. (HeapCap * PAGE), mapped : {0} \cup HeapBase .. HeapCap,
                want : {0} \cup (HeapBase * PAGE) .. (HeapCap * PAGE)]
  <2>1. CASE call.op = "brk"
    <3>1. brk.want \in (HeapBase * PAGE) .. (HeapCap * PAGE)
      BY <2>1 DEF MInv, OwnerOK
    <3>2. Up(brk.want) \in HeapBase .. HeapCap
      BY <3>1, UpBounds
    <3>3. QED
      BY <1>1, <2>1, <3>1, <3>2
  <2>2. CASE call.op # "brk"
    BY <1>1, <2>2 DEF MInv, TypeOK
  <2>3. QED
    BY <2>1, <2>2
<1>4. QED
  BY <1>1, <1>2, <1>3, EndKeeps

(* Every step keeps the invariant.                                            *)
LEMMA MemoryStep == MInv /\ [Next]_vars => MInv'
<1> SUFFICES ASSUME MInv, [Next]_vars PROVE MInv'
  OBVIOUS
<1>1. CASE spawn_ring3 \/ spawn_ring3_low_with \/ spawn_ring3_elf_cfg
           \/ spawn_linux_static_elf \/ spawn_linux_dyn_elf
  <2>1. \E kind \in Kinds : NewSpace(kind)
    BY <1>1 DEF spawn_ring3, spawn_ring3_low_with, spawn_ring3_elf_cfg, spawn_linux_static_elf,
                spawn_linux_dyn_elf, Kinds
  <2>2. QED
    BY <2>1, NewSpaceKeeps
<1>2. CASE MakeSurface \/ MapScreen
  BY <1>2, SurfaceKeeps, ScreenKeeps
<1>3. ASSUME NEW a \in (HeapBase * PAGE) .. (HeapCap * PAGE), Brk(a) PROVE MInv'
  BY <1>3, BrkKeeps
<1>4. /\ \A len \in 1 .. (MapCap - MapBase) : Mmap(len) => MInv'
      /\ \A r \in FixedRuns : MmapFixed(r[1], r[2]) => MInv'
  BY MmapKeeps, MmapFixedKeeps
<1>5. CASE Step
  BY <1>5, BackPageKeeps, DescendKeeps, NoTableKeeps, MapEntryKeeps, FinishKeeps DEF Step
<1>6. CASE UNCHANGED vars
  BY <1>6, StutterKeeps
<1>7. QED
  BY <1>1, <1>2, <1>3, <1>4, <1>5, <1>6 DEF Next, Call

(* Every step that takes frames counts them.                                  *)
LEMMA CountStep ==
  ASSUME MInv, CountAgrees, [Next]_vars
  PROVE  CountAgrees'
<1>1. IsFiniteSet(free) /\ free \subseteq Nat /\ Cardinality(free) \in Nat
  BY MemoryAssumption, FS_Subset, FS_CardinalityType DEF MInv, TypeOK
<1>2. ASSUME NEW f, Alloc(f), f \in free PROVE CountAgrees'
  BY <1>1, <1>2, FS_RemoveElement DEF Alloc, CountAgrees
<1>3. ASSUME UNCHANGED <<free, count>> PROVE CountAgrees'
  BY <1>3 DEF CountAgrees
<1>4. ASSUME NEW n \in Nat, AllocRun(n) PROVE CountAgrees'
  <2> DEFINE S == {t \in free : Run(t, n) \subseteq free}
  <2>1. CASE S # {}
    <3>1. PICK s \in S : s = Min(S)
      BY <1>1, <2>1, MinIn
    <3>2. /\ s \in free /\ s \in Int /\ Run(s, n) \subseteq free
          /\ free' = free \ Run(s, n) /\ count' = count - n
      BY <1>1, <1>4, <2>1, <3>1 DEF AllocRun
    <3>3. Cardinality(Run(s, n)) = n /\ free \cap Run(s, n) = Run(s, n)
      BY <3>2, FS_Interval DEF Run
    <3>4. Cardinality(free \ Run(s, n)) = Cardinality(free) - Cardinality(free \cap Run(s, n))
      BY <1>1, FS_Difference
    <3>5. Cardinality(free') = Cardinality(free) - n
      BY <3>2, <3>3, <3>4
    <3>6. QED
      BY <3>2, <3>5 DEF CountAgrees
  <2>2. CASE S = {}
    BY <1>3, <1>4, <2>2 DEF AllocRun
  <2>3. QED
    BY <2>1, <2>2
<1>5. CASE spawn_ring3 \/ spawn_ring3_low_with \/ spawn_ring3_elf_cfg
           \/ spawn_linux_static_elf \/ spawn_linux_dyn_elf
  BY <1>2, <1>5 DEF spawn_ring3, spawn_ring3_low_with, spawn_ring3_elf_cfg, spawn_linux_static_elf,
                spawn_linux_dyn_elf, NewSpace
<1>6. CASE MakeSurface
  <2>1. Len(ScreenPages) \in Nat
    BY MemoryAssumption
  <2>2. QED
    BY <1>4, <1>6, <2>1 DEF MakeSurface
<1>7. CASE MapScreen
  BY <1>3, <1>7 DEF MapScreen, tables
<1>8. ASSUME NEW a, Brk(a) PROVE CountAgrees'
  BY <1>3, <1>8 DEF Brk, tables
<1>9. \A p, len : Mmap(len) \/ MmapFixed(p, len) => CountAgrees'
  BY <1>3 DEF Mmap, MmapFixed, tables
<1>10. CASE BackPage
  <2>1. CASE \E f \in free : Alloc(f)
    BY <1>2, <2>1
  <2>2. CASE UNCHANGED <<free, count>>
    BY <1>3, <2>2
  <2>3. QED
    BY <1>10, <2>1, <2>2 DEF BackPage, tables
<1>11. CASE Descend
  <2>1. CASE \E f \in free : Alloc(f)
    BY <1>2, <2>1
  <2>2. CASE UNCHANGED <<free, count>>
    BY <1>3, <2>2
  <2>3. QED
    BY <1>11, <2>1, <2>2 DEF Descend, tables
<1>12. CASE NoTable \/ MapEntry \/ Finish \/ UNCHANGED vars
  BY <1>3, <1>12 DEF NoTable, MapEntry, Finish, End, tables, vars
<1>13. QED
  BY <1>5, <1>6, <1>7, <1>8, <1>9, <1>10, <1>11, <1>12 DEF Next, Call, Step

(* The frames, tables and calls of pmm.rs, vmm.rs and linux.rs keep their types. *)
THEOREM MemoryTyped == Spec => []TypeOK
<1>1. MInv => TypeOK
  BY DEF MInv
<1>2. QED
  BY <1>1, MemoryInit, MemoryStep, PTL DEF Spec

(* FREE_FRAMES, which the kernel keeps beside its bitmap, is the number of free *)
(* frames, after every alloc_frame and alloc_frames.                          *)
THEOREM FramesCounted == Spec => []CountAgrees
<1>1. Init => CountAgrees
  BY DEF Init, CountAgrees
<1>2. MInv /\ CountAgrees /\ [Next]_vars => CountAgrees'
  BY CountStep
<1>3. QED
  BY <1>1, <1>2, MemoryInit, MemoryStep, PTL DEF Spec

LEMMA MInvIsolates == MInv => Isolation
<1> SUFFICES ASSUME MInv PROVE KernelMapped
  BY DEF MInv, Isolation
<1>1. \A r \in DOMAIN spaces : KernelSlots \subseteq Copied(spaces[r])
  BY DEF Copied
<1>2. QED
  BY <1>1 DEF MInv, KernelOK, KernelMapped

(* No program reaches a page of another one, a table, or a frame that may be given *)
(* away, and every address space keeps the kernel: the walk of map_page_in never writes *)
(* into a table that it shares.                                               *)
THEOREM SpacesStayApart == Spec => []Isolation
BY MInvIsolates, MemoryInit, MemoryStep, PTL DEF Spec

------------------------------------------------------------------------------
(* The tables from r down to level l on the way to page n. *)
Chain(w, r, n, l) ==
  /\ w \in [1..l -> Frames] /\ w[1] = r
  /\ \A k \in 1..(l - 1) : level[w[k]] = k /\ pt[w[k]][Path[n][k]] = w[k + 1]
Backed(n) == \E w : Chain(w, linux, n, Depth + 1)
BackedFrom(a, b) == \A n \in a .. b : Backed(n)

\* Where the end of the heap is, and what is mapped below it.
EndOK ==
  /\ linux = None => brk.mapped = 0
  /\ call.op \in LinuxKinds => linux = None
  /\ brk.mapped = 0 => brk.cur = HeapBase * PAGE
  /\ brk.mapped # 0 => Up(brk.cur) <= brk.mapped
  /\ linux # None => BackedFrom(HeapBase, brk.mapped - 1)
\* brk maps the pages up to its new end in order.  If it left one out there are
\* no frames, and it ends at the next one.
LeftOut == call.todo # << >> /\ call.frame = None /\ free = {}
BrkOK ==
  call.op = "brk" =>
    /\ brk.cur < brk.want
    /\ \A i \in DOMAIN call.todo : call.todo[i] = Up(brk.want) - Len(call.todo) - 1 + i
    /\ call.todo # << >> => /\ Up(brk.want) - Len(call.todo) >= HeapBase
                            /\ Up(brk.want) - Len(call.todo) >= brk.mapped
    /\ LeftOut \/ BackedFrom(HeapBase, Up(brk.want) - Len(call.todo) - 1)
\* The calls that do not name a page map pages outside of the heap.
ApartOK ==
  call.op \in {"mmap", "screen"} =>
    \A i \in DOMAIN call.todo : call.todo[i] \notin HeapBase .. HeapCap
\* The table a walk has reached lies on the way to its page.
WayOK ==
  call.op \notin {"idle", "fault"} /\ call.todo # << >> =>
    \E w : Chain(w, call.root, Head(call.todo), call.lev) /\ w[call.lev] = call.at
HeapOK == EndOK /\ BrkOK /\ ApartOK /\ WayOK

(* A step that only adds tables and entries. *)
TablesGrow ==
  \A t \in Frames : level[t] # 0 =>
    level'[t] = level[t] /\ \A i \in Index : pt[t][i] # None => pt'[t][i] = pt[t][i]

(* All steps but the entry itself only add tables.                            *)
LEMMA StepsGrow ==
  ASSUME MInv, [Next]_vars, ~MapEntry
  PROVE  TablesGrow
<1>1. CASE UNCHANGED <<pt, level>>
  BY <1>1 DEF TablesGrow
<1>2. ASSUME NEW kind, NewSpace(kind) PROVE TablesGrow
  <2>1. PICK f \in free : /\ pt' = [pt EXCEPT ![f] = [i \in Index |-> IF i \in Copied(kind) THEN pt[Boot][i]
                                                                           ELSE None]]
                          /\ level' = [level EXCEPT ![f] = 1]
    BY <1>2 DEF NewSpace
  <2>2. level[f] = 0 /\ f \in Frames /\ pt \in [Frames -> [Index -> Entries]] /\ level \in [Frames -> 0..Depth]
    BY FreeFrame DEF MInv, TypeOK
  <2>3. QED
    BY <2>1, <2>2 DEF TablesGrow
<1>3. CASE Descend
  <2> DEFINE i == Path[Head(call.todo)][call.lev]
  <2>1. CASE pt[call.at][i] = None
    <3>1. PICK f \in free : /\ pt' = [pt EXCEPT ![f] = Empty, ![call.at][i] = f]
                            /\ level' = [level EXCEPT ![f] = call.lev + 1]
      BY <1>3, <2>1 DEF Descend, tables
    <3>2. level[f] = 0 /\ f \in Frames /\ pt \in [Frames -> [Index -> Entries]] /\ level \in [Frames -> 0..Depth]
          /\ call.at \in Frames
      BY FreeFrame, CallTyped DEF MInv, TypeOK
    <3> HIDE DEF i
    <3>3. ASSUME NEW t \in Frames, level[t] # 0 PROVE t # f /\ level'[t] = level[t]
      BY <3>1, <3>2, <3>3
    <3>4. ASSUME NEW t \in Frames, level[t] # 0, NEW j \in Index, pt[t][j] # None PROVE pt'[t][j] = pt[t][j]
      <4>1. CASE t # call.at
        BY <3>1, <3>2, <3>3, <3>4, <4>1
      <4>2. CASE t = call.at
        <5>1. j # i /\ t # f
          BY <2>1, <3>3, <3>4, <4>2
        <5>2. QED
          BY <3>1, <3>2, <4>2, <5>1
      <4>3. QED
        BY <4>1, <4>2
    <3>5. QED
      BY <3>3, <3>4 DEF TablesGrow
  <2>2. CASE pt[call.at][i] # None
    BY <1>1, <1>3, <2>2 DEF Descend, tables
  <2>3. QED
    BY <2>1, <2>2
<1>4. CASE MakeSurface \/ MapScreen \/ BackPage \/ NoTable \/ Finish \/ UNCHANGED vars
  BY <1>1, <1>4 DEF MakeSurface, MapScreen, BackPage, NoTable, Finish, End, tables, vars
<1>5. ASSUME NEW a, Brk(a) PROVE TablesGrow
  BY <1>1, <1>5 DEF Brk, tables
<1>6. \A p, len : Mmap(len) \/ MmapFixed(p, len) => TablesGrow
  BY <1>1 DEF Mmap, MmapFixed, tables
<1>7. CASE spawn_ring3 \/ spawn_ring3_low_with \/ spawn_ring3_elf_cfg
           \/ spawn_linux_static_elf \/ spawn_linux_dyn_elf
  BY <1>2, <1>7 DEF spawn_ring3, spawn_ring3_low_with, spawn_ring3_elf_cfg, spawn_linux_static_elf,
                spawn_linux_dyn_elf
<1>8. QED
  BY <1>3, <1>4, <1>5, <1>6, <1>7 DEF Next, Call, Step

(* Ways stay while tables are added.                                          *)
LEMMA GrowthKeepsChains ==
  ASSUME MInv, TablesGrow, NEW l \in 1 .. (Depth + 1), NEW n \in Pages, NEW r, NEW w, Chain(w, r, n, l)
  PROVE  /\ w \in [1..l -> Frames] /\ w[1] = r
         /\ \A k \in 1..(l - 1) : level'[w[k]] = k /\ pt'[w[k]][Path[n][k]] = w[k + 1]
<1>1. Depth \in Nat /\ l \in Nat /\ l - 1 <= Depth /\ Path[n] \in [1..Depth -> Index] /\ None \notin Frames
  BY MemoryAssumption DEF None
<1>2. ASSUME NEW k \in 1..(l - 1) PROVE level'[w[k]] = k /\ pt'[w[k]][Path[n][k]] = w[k + 1]
  <2>1. k \in 1..l /\ k + 1 \in 1..l /\ k \in 1..Depth /\ k # 0
    BY <1>1
  <2>2. w[k] \in Frames /\ w[k + 1] \in Frames /\ level[w[k]] = k /\ pt[w[k]][Path[n][k]] = w[k + 1]
    BY <2>1 DEF Chain
  <2>3. Path[n][k] \in Index /\ w[k + 1] # None
    BY <1>1, <2>1, <2>2
  <2>4. QED
    BY <2>1, <2>2, <2>3 DEF TablesGrow
<1>3. QED
  BY <1>2 DEF Chain

(* Two ways that meet in a table of the last level come from the same top. *)
LEMMA WaysMeet ==
  ASSUME MInv, NEW m \in Pages, NEW n \in Pages, NEW r \in DOMAIN spaces, NEW q \in DOMAIN spaces,
         NEW w, NEW v, Chain(w, r, n, Depth), Chain(v, q, m, Depth),
         Path[n][1] \notin Copied(spaces[r]), Path[m][1] \notin Copied(spaces[q]),
         w[Depth] = v[Depth], level[w[Depth]] = Depth
  PROVE  r = q /\ \A k \in 1..(Depth - 1) : Path[n][k] = Path[m][k]
<1>1. Depth \in Nat /\ Depth >= 2 /\ Path[n] \in [1..Depth -> Index] /\ Path[m] \in [1..Depth -> Index]
  BY MemoryAssumption
<1>2. /\ \A k \in 1..Depth : w[k] \in Frames /\ level[w[k]] = k /\ v[k] \in Frames
      /\ \A k \in 1..(Depth - 1) : /\ level[v[k]] = k /\ pt[w[k]][Path[n][k]] = w[k + 1]
                                   /\ pt[v[k]][Path[m][k]] = v[k + 1]
      /\ w[1] = r /\ v[1] = q
  BY <1>1 DEF Chain
<1>3. ASSUME NEW k \in 1..(Depth - 1), w[k + 1] = v[k + 1] PROVE w[k] = v[k] /\ Path[n][k] = Path[m][k]
  <2>1. k \in 1..Depth /\ k + 1 \in 1..Depth /\ k # 0 /\ k + 1 # 0
    BY <1>1
  <2>2. w[k + 1] \notin Shareable
    <3>1. level[w[k + 1]] # 0 /\ w[k + 1] \in Frames
      BY <1>2, <2>1
    <3>2. None \notin Frames
      BY MemoryAssumption DEF None
    <3>3. QED
      BY <3>1, <3>2 DEF MInv, LevelsOK, SurfaceOK, Shareable
  <2>3. ASSUME NEW s \in DOMAIN spaces PROVE level[s] = 1
    BY DEF MInv, TypeOK, LevelsOK
  <2>4. ~Inherited(w[k], Path[n][k])
    BY <1>2, <2>1, <2>3 DEF Inherited
  <2>5. ~Inherited(v[k], Path[m][k])
    BY <1>2, <2>1, <2>3 DEF Inherited
  <2>6. /\ w[k] \in Frames /\ v[k] \in Frames /\ Path[n][k] \in Index /\ Path[m][k] \in Index
        /\ level[w[k]] # 0 /\ level[v[k]] # 0
        /\ pt[w[k]][Path[n][k]] = pt[v[k]][Path[m][k]] /\ pt[w[k]][Path[n][k]] \notin Shareable
    BY <1>1, <1>2, <1>3, <2>1, <2>2
  <2>7. QED
    BY <2>4, <2>5, <2>6 DEF MInv, Isolated
<1> DEFINE T == {j \in Nat : j < Depth => w[Depth - j] = v[Depth - j]}
<1>4. 0 \in T
  BY <1>1
<1>5. ASSUME NEW j \in T PROVE j + 1 \in T
  <2>1. SUFFICES ASSUME j + 1 < Depth PROVE w[Depth - (j + 1)] = v[Depth - (j + 1)]
    OBVIOUS
  <2>2. Depth - (j + 1) \in 1..(Depth - 1) /\ Depth - (j + 1) + 1 = Depth - j /\ j < Depth
    BY <1>1, <2>1
  <2>3. QED
    BY <1>3, <2>2
<1>6. T = Nat
  <2> HIDE DEF T
  <2>1. T \in SUBSET Nat
    BY DEF T
  <2>2. QED
    BY <1>4, <1>5, <2>1, NatSetInduction
<1>7. ASSUME NEW k \in 1..Depth PROVE w[k] = v[k]
  <2>1. Depth - k \in Nat /\ Depth - k < Depth /\ Depth - (Depth - k) = k
    BY <1>1
  <2>2. QED
    BY <1>6, <2>1
<1>8. r = q
  BY <1>1, <1>2, <1>7
<1>9. ASSUME NEW k \in 1..(Depth - 1) PROVE Path[n][k] = Path[m][k]
  <2>1. k + 1 \in 1..Depth
    BY <1>1
  <2>2. QED
    BY <1>3, <1>7, <2>1
<1>10. QED
  BY <1>8, <1>9

(* A call that is under way works on a space that its program owns. *)
LEMMA CallSpace ==
  ASSUME MInv, EndOK, call.op # "idle"
  PROVE  /\ call.root \in DOMAIN spaces /\ call.root \in Frames /\ level[call.root] = 1
         /\ linux # None /\ call.root = linux => call.op \in LinuxCalls
         /\ call.op \in LinuxCalls => linux # None /\ call.root = linux
<1>1. call.op \in Kinds \/ call.op \in LinuxCalls
  BY CallTyped DEF LinuxCalls
<1>2. call.root \in DOMAIN spaces /\ call.root \in Frames
  BY <1>1 DEF MInv, OwnerOK, TypeOK
<1>3. level[call.root] = 1
  BY <1>2 DEF MInv, LevelsOK
<1>4. ASSUME linux # None, call.root = linux, call.op \in Kinds PROVE FALSE
  BY <1>4 DEF MInv, OwnerOK, EndOK
<1>5. QED
  BY <1>1, <1>2, <1>3, <1>4 DEF MInv, OwnerOK

(* The address space of the Linux process.                                    *)
LEMMA LinuxSpace ==
  ASSUME MInv, linux # None
  PROVE  /\ linux \in DOMAIN spaces /\ linux \in Frames /\ Copied(spaces[linux]) = KernelSlots
         /\ \A n \in Pages : Path[n][1] \notin Copied(spaces[linux])
<1>1. linux \in DOMAIN spaces /\ linux \in Frames /\ spaces[linux] \in LinuxKinds
  BY DEF MInv, TypeOK, OwnerOK
<1>2. QED
  BY <1>1, MemoryAssumption DEF LinuxKinds, Copied

(* A whole way down: the tables of all levels and the page. *)
LEMMA WholeChain ==
  ASSUME NEW n, NEW r, NEW w
  PROVE  Chain(w, r, n, Depth + 1) <=>
           /\ w \in [1..(Depth + 1) -> Frames] /\ w[1] = r
           /\ \A k \in 1..Depth : level[w[k]] = k /\ pt[w[k]][Path[n][k]] = w[k + 1]
<1> DEFINE l == Depth + 1
<1>1. l - 1 = Depth
  BY MemoryAssumption
<1> HIDE DEF l
<1>2. Chain(w, r, n, l) <=>
           /\ w \in [1..l -> Frames] /\ w[1] = r
           /\ \A k \in 1..Depth : level[w[k]] = k /\ pt[w[k]][Path[n][k]] = w[k + 1]
  BY <1>1 DEF Chain
<1>3. QED
  BY <1>2 DEF l

(* Mapping a page leaves the ways to the other pages of the heap alone. *)
LEMMA MapEntryKeepsChains ==
  ASSUME MInv, HeapOK, MapEntry, linux # None, NEW n \in HeapBase .. HeapCap, NEW w, Chain(w, linux, n, Depth + 1),
         call.op = "brk" /\ call.todo # << >> => n < Up(brk.want) - Len(call.todo), ~MappedOver(n)
  PROVE  \A k \in 1..Depth : level'[w[k]] = k /\ pt'[w[k]][Path[n][k]] = w[k + 1]
<1> DEFINE m == Head(call.todo)
           w0 == [k \in 1..Depth |-> w[k]]
<1>1. Depth \in Nat /\ Depth >= 2 /\ n \in Pages /\ Path[n] \in [1..Depth -> Index] /\ HeapBase \in Nat /\ HeapCap \in Nat
  BY MemoryAssumption
<1>2. /\ call.frame # None /\ call.lev = Depth /\ level' = level
      /\ pt' = [pt EXCEPT ![call.at][Path[m][Depth]] = call.frame]
  BY DEF MapEntry
<1>3. call.op \notin {"idle", "fault"} /\ call.todo # << >> /\ m \in Pages /\ call.at \in Frames /\ level[call.at] = Depth
      /\ Len(call.todo) \in Nat /\ Len(call.todo) >= 1 /\ m = call.todo[1] /\ 1 \in DOMAIN call.todo
  BY <1>2, CallTyped DEF MInv, WalkOK
<1>4. Path[m] \in [1..Depth -> Index]
  BY <1>3, MemoryAssumption
<1>5. PICK v : Chain(v, call.root, m, Depth) /\ v[Depth] = call.at
  BY <1>2, <1>3 DEF HeapOK, WayOK
<1>6. /\ \A k \in 1..Depth : level[w[k]] = k /\ pt[w[k]][Path[n][k]] = w[k + 1] /\ w[k] \in Frames
      /\ w[1] = linux
  <2>1. Depth + 1 - 1 = Depth /\ \A k \in 1..Depth : k \in 1..(Depth + 1)
    BY <1>1
  <2>2. w \in [1..(Depth + 1) -> Frames] /\ w[1] = linux
    BY WholeChain
  <2>3. \A k \in 1..Depth : level[w[k]] = k /\ pt[w[k]][Path[n][k]] = w[k + 1]
    BY WholeChain
  <2>4. QED
    BY <2>1, <2>2, <2>3
<1>7. Chain(w0, linux, n, Depth)
  <2>1. w0 \in [1..Depth -> Frames] /\ w0[1] = linux
    BY <1>1, <1>6
  <2>2. ASSUME NEW k \in 1..(Depth - 1) PROVE level[w0[k]] = k /\ pt[w0[k]][Path[n][k]] = w0[k + 1]
    <3>1. k \in 1..Depth /\ k + 1 \in 1..Depth
      BY <1>1
    <3>2. w0[k] = w[k] /\ w0[k + 1] = w[k + 1]
      BY <3>1
    <3>3. QED
      BY <1>6, <3>1, <3>2
  <2>3. QED
    BY <2>1, <2>2 DEF Chain
<1>8. ASSUME w[Depth] = call.at, Path[n][Depth] = Path[m][Depth] PROVE FALSE
  <2>1. linux \in DOMAIN spaces /\ Path[n][1] \notin Copied(spaces[linux])
    BY <1>1, LinuxSpace
  <2>2. call.root \in DOMAIN spaces
    BY <1>3, CallSpace DEF HeapOK
  <2>3. Path[m][1] \notin Copied(spaces[call.root])
    <3>1. CASE call.op = "shared"
      <4>1. Path[m][1] \notin LowSlots
        BY <1>3, <3>1 DEF MInv, OwnerOK
      <4>2. QED
        BY <1>3, <4>1, MemoryAssumption DEF Copied
    <3>2. CASE call.op # "shared"
      <4>1. spaces[call.root] # "shared"
        BY <1>3, <3>2, CallTyped DEF MInv, OwnerOK, LinuxCalls, LinuxKinds
      <4>2. QED
        BY <1>3, <4>1, MemoryAssumption DEF Copied
    <3>3. QED
      BY <3>1, <3>2
  <2>4. w0[Depth] = v[Depth] /\ level[w0[Depth]] = Depth
    BY <1>1, <1>3, <1>5, <1>8
  <2> HIDE DEF w0, m
  <2>5. linux = call.root /\ \A k \in 1..(Depth - 1) : Path[n][k] = Path[m][k]
    BY <1>1, <1>3, <1>5, <1>7, <2>1, <2>2, <2>3, <2>4, WaysMeet
  <2>6. Path[n] = Path[m]
    <3>1. \A k \in 1..Depth : Path[n][k] = Path[m][k]
      BY <1>1, <1>8, <2>5
    <3>2. QED
      BY <1>1, <1>4, <3>1
  <2>7. n = m
    BY <1>1, <1>3, <2>6, MemoryAssumption
  <2>8. call.op \in {"brk", "mmap", "screen"}
    BY <1>3, <2>5, <2>7, CallSpace DEF HeapOK, LinuxCalls, MappedOver, m
  <2>9. CASE call.op = "brk"
    <3>1. m = Up(brk.want) - Len(call.todo)
      <4>1. call.todo[1] = Up(brk.want) - Len(call.todo) - 1 + 1
        BY <1>3, <2>9 DEF HeapOK, BrkOK
      <4>2. Up(brk.want) \in Int
        BY <2>9, UpBounds, <1>1 DEF MInv, OwnerOK
      <4>3. QED
        BY <1>3, <4>1, <4>2
    <3>2. QED
      BY <1>1, <1>3, <2>7, <2>9, <3>1
  <2>10. CASE call.op # "brk"
    BY <1>3, <2>7, <2>8, <2>10 DEF HeapOK, ApartOK
  <2>11. QED
    BY <2>9, <2>10
<1>9. ASSUME NEW k \in 1..Depth PROVE pt'[w[k]][Path[n][k]] = pt[w[k]][Path[n][k]]
  <2>1. w[k] # call.at \/ Path[n][k] # Path[m][Depth]
    <3>1. CASE k = Depth
      BY <1>8, <3>1
    <3>2. CASE k # Depth
      BY <1>3, <1>6, <3>2
    <3>3. QED
      BY <3>1, <3>2
  <2> HIDE DEF m
  <2>2. pt \in [Frames -> [Index -> Entries]] /\ w[k] \in Frames /\ Path[n][k] \in Index /\ Path[m][Depth] \in Index
    <3>1. Depth \in 1..Depth
      BY <1>1
    <3>2. pt \in [Frames -> [Index -> Entries]]
      BY DEF MInv, TypeOK
    <3>3. QED
      BY <1>1, <1>4, <1>6, <3>1, <3>2
  <2>3. QED
    BY <1>2, <1>3, <2>1, <2>2
<1>10. QED
  BY <1>2, <1>6, <1>9

(* No step moves a page of the heap that is not being mapped. *)
LEMMA ChainsStay ==
  ASSUME MInv, HeapOK, [Next]_vars, linux # None, NEW n \in HeapBase .. HeapCap, NEW w, Chain(w, linux, n, Depth + 1),
         call.op = "brk" /\ call.todo # << >> => n < Up(brk.want) - Len(call.todo),
         MapEntry => ~MappedOver(n)
  PROVE  /\ w \in [1..(Depth + 1) -> Frames] /\ w[1] = linux
         /\ \A k \in 1..Depth : level'[w[k]] = k /\ pt'[w[k]][Path[n][k]] = w[k + 1]
<1>1. Depth \in Nat /\ Depth + 1 \in 1 .. (Depth + 1) /\ Depth + 1 - 1 = Depth /\ n \in Pages
  BY MemoryAssumption
<1>2. CASE MapEntry
  <2>1. \A k \in 1..Depth : level'[w[k]] = k /\ pt'[w[k]][Path[n][k]] = w[k + 1]
    BY <1>2, MapEntryKeepsChains
  <2>2. w \in [1..(Depth + 1) -> Frames] /\ w[1] = linux
    BY WholeChain
  <2>3. QED
    BY <2>1, <2>2
<1>3. CASE ~MapEntry
  <2> DEFINE l == Depth + 1
  <2>1. TablesGrow
    BY <1>3, StepsGrow
  <2>2. l \in 1 .. (Depth + 1) /\ Chain(w, linux, n, l) /\ l - 1 = Depth
    BY <1>1
  <2> HIDE DEF l
  <2>3. \A k \in 1..(l - 1) : level'[w[k]] = k /\ pt'[w[k]][Path[n][k]] = w[k + 1]
    BY <1>1, <2>1, <2>2, GrowthKeepsChains
  <2>4. \A k \in 1..Depth : level'[w[k]] = k /\ pt'[w[k]][Path[n][k]] = w[k + 1]
    BY <2>2, <2>3
  <2>5. w \in [1..(Depth + 1) -> Frames] /\ w[1] = linux
    BY DEF Chain
  <2>6. QED
    BY <2>4, <2>5
<1>4. QED
  BY <1>2, <1>3

(* There is one Linux process, and it stays.                                  *)
LEMMA LinuxStays ==
  ASSUME HeapOK, [Next]_vars, linux # None
  PROVE  linux' = linux
<1>1. CASE Finish
  BY <1>1 DEF HeapOK, EndOK, Finish
<1>2. CASE ~Finish
  BY <1>2 DEF Next, Call, Step, MakeSurface, MapScreen, spawn_ring3, spawn_ring3_low_with,
     spawn_ring3_elf_cfg,
              spawn_linux_static_elf, spawn_linux_dyn_elf, NewSpace, Brk, Mmap, MmapFixed,
              BackPage, Descend, NoTable, MapEntry, vars
<1>3. QED
  BY <1>1, <1>2

(* The ranges of the numbers of a call of brk.                                *)
LEMMA HeapNumbers ==
  ASSUME MInv
  PROVE  /\ HeapBase \in Nat /\ HeapCap \in Nat /\ HeapBase .. HeapCap \subseteq Pages
         /\ Depth \in Nat
         /\ Len(call.todo) \in Nat /\ DOMAIN call.todo = 1 .. Len(call.todo)
         /\ brk.mapped \in {0} \cup HeapBase .. HeapCap
         /\ brk.cur \in (HeapBase * PAGE) .. (HeapCap * PAGE)
         /\ Up(brk.cur) \in HeapBase .. HeapCap /\ HeapBase * PAGE \in Nat
         /\ call.op = "brk" => brk.want \in (HeapBase * PAGE) .. (HeapCap * PAGE) /\ Up(brk.want) \in HeapBase .. HeapCap
<1>1. /\ HeapBase \in Nat /\ HeapCap \in Nat /\ HeapBase .. HeapCap \subseteq Pages
      /\ Depth \in Nat /\ PAGE \in Nat
  BY MemoryAssumption
<1>2. Len(call.todo) \in Nat /\ DOMAIN call.todo = 1 .. Len(call.todo)
  BY CallTyped
<1>3. brk.mapped \in {0} \cup HeapBase .. HeapCap /\ brk.cur \in (HeapBase * PAGE) .. (HeapCap * PAGE)
  BY DEF MInv, TypeOK
<1>4. call.op = "brk" => brk.want \in (HeapBase * PAGE) .. (HeapCap * PAGE)
  BY DEF MInv, OwnerOK
<1>5. QED
  BY <1>1, <1>2, <1>3, <1>4, UpBounds

(* The page that is mapped is backed from then on. *)
LEMMA PageMapped ==
  ASSUME MInv, HeapOK, MapEntry, call.root = linux, NEW n, n = Head(call.todo)
  PROVE  Backed(n)'
<1>1. /\ call.frame # None /\ call.lev = Depth /\ level' = level /\ linux' = linux
      /\ pt' = [pt EXCEPT ![call.at][Path[Head(call.todo)][Depth]] = call.frame]
  BY DEF MapEntry
<1>2. call.op \notin {"idle", "fault"} /\ call.todo # << >> /\ Head(call.todo) \in Pages /\ call.at \in Frames
      /\ level[call.at] = Depth /\ call.frame \in Frames
  BY <1>1, CallTyped DEF MInv, WalkOK, Entries
<1>3. PICK m \in Pages : m = Head(call.todo)
  BY <1>2
<1>4. Depth \in Nat /\ Depth >= 2 /\ Path[m] \in [1..Depth -> Index] /\ Depth \in 1..Depth
  BY MemoryAssumption
<1>5. PICK v : Chain(v, linux, m, Depth) /\ v[Depth] = call.at
  BY <1>1, <1>2, <1>3 DEF HeapOK, WayOK
<1>6. PICK f \in Frames : f = call.frame
  BY <1>2
<1>7. PICK w : w = [k \in 1..(Depth + 1) |-> IF k = Depth + 1 THEN f ELSE v[k]]
  OBVIOUS
<1>8. /\ v \in [1..Depth -> Frames] /\ v[1] = linux
      /\ \A k \in 1..(Depth - 1) : level[v[k]] = k /\ pt[v[k]][Path[m][k]] = v[k + 1]
  BY <1>5 DEF Chain
<1>9. w \in [1..(Depth + 1) -> Frames] /\ w[1] = linux
  BY <1>4, <1>7, <1>8
<1>10. pt \in [Frames -> [Index -> Entries]]
  BY DEF MInv, TypeOK
<1>11. ASSUME NEW k \in 1..Depth PROVE level'[w[k]] = k /\ pt'[w[k]][Path[m][k]] = w[k + 1]
  <2>1. CASE k = Depth
    <3>1. w[k] = call.at /\ w[k + 1] = f
      BY <1>4, <1>5, <1>7, <2>1
    <3>2. QED
      BY <1>1, <1>2, <1>3, <1>4, <1>6, <1>10, <2>1, <3>1
  <2>2. CASE k # Depth
    <3>1. k \in 1..(Depth - 1) /\ w[k] = v[k] /\ w[k + 1] = v[k + 1] /\ v[k] \in Frames /\ Path[m][k] \in Index
      BY <1>4, <1>7, <1>8, <2>2
    <3>2. level[v[k]] = k /\ pt[v[k]][Path[m][k]] = v[k + 1] /\ v[k] # call.at
      BY <1>2, <1>8, <2>2, <3>1
    <3>3. QED
      BY <1>1, <1>2, <1>4, <1>10, <3>1, <3>2
  <2>3. QED
    BY <2>1, <2>2
<1>12. Backed(m)'
  <2> DEFINE l == Depth + 1
  <2>1. l - 1 = Depth /\ w \in [1..l -> Frames]
    BY <1>4, <1>9
  <2> HIDE DEF l
  <2>2. Chain(w, linux, m, l)'
    BY <1>1, <1>9, <1>11, <2>1 DEF Chain
  <2>3. QED
    BY <2>2 DEF l, Backed
<1>13. QED
  BY <1>3, <1>12

(* A page of the heap stays backed.                                           *)
LEMMA BackedStays ==
  ASSUME MInv, HeapOK, [Next]_vars, linux # None, NEW n \in HeapBase .. HeapCap, Backed(n),
         call.op = "brk" /\ call.todo # << >> => n < Up(brk.want) - Len(call.todo)
  PROVE  Backed(n)'
<1>0. CASE MapEntry /\ MappedOver(n)
  <2>1. call.root = linux /\ n = Head(call.todo)
    BY <1>0 DEF MappedOver, MInv, OwnerOK, LinuxCalls
  <2>2. QED
    BY <1>0, <2>1, PageMapped
<1> SUFFICES ASSUME ~(MapEntry /\ MappedOver(n)) PROVE Backed(n)'
  BY <1>0
<1>1. PICK w : Chain(w, linux, n, Depth + 1)
  BY DEF Backed
<1>2. linux' = linux
  BY LinuxStays
<1>3. /\ w \in [1..(Depth + 1) -> Frames] /\ w[1] = linux'
      /\ \A k \in 1..Depth : level'[w[k]] = k /\ pt'[w[k]][Path[n][k]] = w[k + 1]
  BY <1>1, <1>2, ChainsStay
<1>4. Chain(w, linux, n, Depth + 1)'
  <2> DEFINE l == Depth + 1
  <2>1. l - 1 = Depth
    BY MemoryAssumption
  <2>2. w \in [1..l -> Frames]
    BY <1>3
  <2> HIDE DEF l
  <2>3. Chain(w, linux, n, l)'
    BY <1>3, <2>1, <2>2 DEF Chain
  <2>4. QED
    BY <2>3 DEF l
<1>5. QED
  BY <1>4 DEF Backed

(* What the heap consists of between its calls stays. *)
LEMMA EndStays ==
  ASSUME MInv, HeapOK, [Next]_vars, linux' = linux, brk'.mapped = brk.mapped, brk'.cur = brk.cur,
         call'.op \in LinuxKinds => linux = None
  PROVE  EndOK'
<1>1. ASSUME linux # None, NEW n \in HeapBase .. (brk.mapped - 1) PROVE Backed(n)'
  <2>1. n \in HeapBase .. HeapCap
    BY HeapNumbers
  <2>2. Backed(n)
    BY <1>1 DEF HeapOK, EndOK, BackedFrom
  <2>3. ASSUME call.op = "brk", call.todo # << >> PROVE n < Up(brk.want) - Len(call.todo)
    BY SMTT(60), <2>3, HeapNumbers DEF HeapOK, BrkOK
  <2>4. QED
    BY <1>1, <2>1, <2>2, <2>3, BackedStays
<1>2. QED
  BY <1>1 DEF HeapOK, EndOK, BackedFrom

(* A walk begins at the top table. *)
LEMMA FirstLevel ==
  ASSUME call'.lev = 1, call'.at = call'.root, call'.root \in Frames
  PROVE  WayOK'
<1>1. PICK w \in [1..1 -> Frames] : w[1] = call'.root
  <2>1. [k \in 1..1 |-> call'.root] \in [1..1 -> Frames] /\ [k \in 1..1 |-> call'.root][1] = call'.root
    OBVIOUS
  <2>2. QED
    BY <2>1
<1>2. 1..(1 - 1) = {}
  OBVIOUS
<1>3. w \in [1..call'.lev -> Frames] /\ w[1] = call'.root /\ w[call'.lev] = call'.at
  BY <1>1
<1>4. 1..(call'.lev - 1) = {}
  BY <1>2
<1>5. Chain(w, call.root, Head(call.todo), call.lev)'
  BY <1>3, <1>4 DEF Chain
<1>6. (\E u : Chain(u, call.root, Head(call.todo), call.lev) /\ u[call.lev] = call.at)'
  BY <1>3, <1>5
<1>7. QED
  BY <1>6 DEF WayOK

(* A call other than brk begins, or goes on with its next page.               *)
LEMMA StartOK ==
  ASSUME MInv, HeapOK, [Next]_vars, linux' = linux, brk'.mapped = brk.mapped, brk'.cur = brk.cur,
         call'.lev = 1, call'.at = call'.root, call'.root \in Frames, call'.op # "brk",
         call'.op \in LinuxKinds => linux = None,
         call'.op \in {"mmap", "screen"} =>
            \A i \in DOMAIN call'.todo : call'.todo[i] \notin HeapBase .. HeapCap
  PROVE  HeapOK'
BY EndStays, FirstLevel DEF HeapOK, BrkOK, ApartOK

(* A program is spawned.                                                      *)
LEMMA NewSpaceOK ==
  ASSUME MInv, HeapOK, NEW kind \in Kinds, NewSpace(kind)
  PROVE  HeapOK'
<1>1. PICK f \in free : call' = [op |-> kind, root |-> f, todo |-> Layout[kind], frame |-> None, at |-> f, lev |-> 1]
  BY DEF NewSpace
<1>2. f \in Frames
  BY FreeFrame
<1>3. [Next]_vars
  BY DEF Next, Call, Kinds, spawn_ring3, spawn_ring3_low_with, spawn_ring3_elf_cfg,
         spawn_linux_static_elf, spawn_linux_dyn_elf
<1>4. linux' = linux /\ brk' = brk /\ (kind \in LinuxKinds => linux = None)
  BY DEF NewSpace
<1>5. kind \notin {"brk", "mmap", "screen"}
  BY DEF Kinds
<1>6. QED
  BY <1>1, <1>2, <1>3, <1>4, <1>5, StartOK

(* Steps that touch neither tables nor the heap.                              *)
LEMMA StillOK ==
  ASSUME MInv, HeapOK, UNCHANGED <<pt, level, linux, brk, call>>,
         call.op = "idle" \/ UNCHANGED free
  PROVE  HeapOK'
BY DEF HeapOK, EndOK, BrkOK, LeftOut, ApartOK, WayOK, BackedFrom, Backed, Chain

(* A smaller end is on no later page.                                         *)
LEMMA UpMonotone ==
  ASSUME NEW a \in Nat, NEW b \in Nat, a <= b
  PROVE  Up(a) <= Up(b)
<1>1. PAGE \in Nat /\ PAGE > 0
  BY MemoryAssumption
<1> DEFINE q == (a + PAGE - 1) \div PAGE
           r == (b + PAGE - 1) \div PAGE
<1>2. /\ q \in Int /\ r \in Int /\ q * PAGE <= a + PAGE - 1 /\ b + PAGE - 1 < (r + 1) * PAGE
  BY <1>1
<1> HIDE DEF q, r
<1>3. CASE r + 1 <= q
  <2>1. (r + 1) * PAGE <= q * PAGE
    BY <1>1, <1>2, <1>3
  <2>2. q * PAGE \in Int /\ (r + 1) * PAGE \in Int
    BY <1>1, <1>2
  <2>3. QED
    BY <1>1, <1>2, <2>1, <2>2
<1>4. CASE ~(r + 1 <= q)
  BY <1>2, <1>4 DEF q, r, Up
<1>5. QED
  BY <1>3, <1>4

(* An end above a page is at least one page further.                          *)
LEMMA UpAbove ==
  ASSUME NEW a \in Nat, NEW n \in Nat, a > n * PAGE
  PROVE  Up(a) > n
<1>1. PAGE \in Nat /\ PAGE > 0 /\ n * PAGE \in Nat
  BY MemoryAssumption
<1> DEFINE q == (a + PAGE - 1) \div PAGE
<1>2. q \in Int /\ a + PAGE - 1 < (q + 1) * PAGE
  BY <1>1
<1>3. (n + 1) * PAGE = n * PAGE + PAGE /\ (q + 1) * PAGE \in Int
  BY <1>1, <1>2
<1> HIDE DEF q
<1>4. CASE q <= n
  <2>1. (q + 1) * PAGE <= (n + 1) * PAGE
    BY <1>1, <1>2, <1>4
  <2>2. QED
    BY <1>1, <1>2, <1>3, <2>1
<1>5. CASE q > n
  BY <1>5 DEF q, Up
<1>6. QED
  BY <1>2, <1>4, <1>5

(* brk: the end moves down, or pages are to be mapped from the mapped end on. *)
LEMMA BrkCallOK ==
  ASSUME MInv, HeapOK, NEW a \in (HeapBase * PAGE) .. (HeapCap * PAGE), Brk(a)
  PROVE  HeapOK'
<1> DEFINE from == IF brk.mapped = 0 THEN HeapBase ELSE brk.mapped
           n == Up(a) - from
           todo == [i \in 1 .. n |-> from + i - 1]
<1>1. [Next]_vars
  BY DEF Next, Call
<1>2. linux # None /\ UNCHANGED <<pt, level, linux>>
  BY DEF Brk, tables
<1>3. Up(a) \in HeapBase .. HeapCap /\ from \in HeapBase .. HeapCap
  BY UpBounds, HeapNumbers
<1>4. CASE a > brk.cur
  <2>1. brk' = [brk EXCEPT !.want = a]
    BY <1>4 DEF Brk
  <2>2. call' = [Idle EXCEPT !.op = "brk", !.root = linux, !.at = linux, !.todo = todo]
    BY <1>4 DEF Brk
  <2> HIDE DEF todo
  <2>3. call' = [op |-> "brk", root |-> linux, todo |-> todo, frame |-> None, at |-> linux, lev |-> 1]
    BY <2>2 DEF Idle
  <2>4. brk'.cur = brk.cur /\ brk'.mapped = brk.mapped /\ brk'.want = a
    BY <2>1 DEF MInv, TypeOK
  <2>5. EndOK'
    BY <1>1, <1>2, <2>3, <2>4, EndStays DEF LinuxKinds
  <2>6. WayOK'
    BY <2>3, <1>2, LinuxSpace, FirstLevel
  <2>7. ApartOK'
    BY <2>3 DEF ApartOK
  <2>8. BackedFrom(HeapBase, from - 1)
    <3>1. CASE brk.mapped = 0
      BY <3>1, HeapNumbers DEF BackedFrom
    <3>2. CASE brk.mapped # 0
      BY <1>2, <3>2 DEF HeapOK, EndOK
    <3>3. QED
      BY <3>1, <3>2
  <2>9. \A k \in HeapBase .. (from - 1) : Backed(k)'
    BY <1>2, <2>4, <2>8 DEF BackedFrom, Backed, Chain
  <2>10. DOMAIN todo = 1..n /\ \A i \in 1..n : todo[i] = from + i - 1
    BY DEF todo
  <2>11. Len(todo) \in Nat /\ DOMAIN todo = 1..Len(todo)
    <3>1. MInv'
      BY BrkKeeps
    <3>2. call'.todo \in Seq(Pages)
      BY <3>1 DEF MInv, TypeOK
    <3>3. todo \in Seq(Pages)
      BY <2>3, <3>2
    <3>4. QED
      BY <3>3
  <2>12. n \in Int /\ n = Up(a) - from
    BY <1>3, HeapNumbers
  <2> HIDE DEF n
  <2>13. IF n >= 0 THEN Len(todo) = n ELSE Len(todo) = 0
    <3>1. \A i \in Int : i \in 1..n <=> i \in 1..Len(todo)
      BY <2>10, <2>11
    <3>2. CASE n >= 1
      <4>1. n \in 1..Len(todo) /\ Len(todo) >= 1
        BY <2>12, <3>1, <3>2
      <4>2. Len(todo) \in 1..n
        BY <2>11, <3>1, <4>1
      <4>3. QED
        BY <2>11, <2>12, <4>1, <4>2
    <3>3. CASE n < 1
      <4>1. ~(1 \in 1..Len(todo))
        BY <2>12, <3>1, <3>3
      <4>2. QED
        BY <2>11, <2>12, <3>3, <4>1
    <3>4. QED
      BY <2>12, <3>2, <3>3
  <2> HIDE DEF from
  <2>14. \A i \in DOMAIN todo : todo[i] = Up(a) - Len(todo) - 1 + i
    BY SMTT(60), <1>3, <2>10, <2>11, <2>12, <2>13, HeapNumbers
  <2>15. todo # << >> => Up(a) - Len(todo) = from
    <3>1. todo # << >> => n >= 0
      BY <2>3, <2>11, <2>12, <2>13, CallTyped
    <3>2. QED
      BY <1>3, <2>12, <2>13, <3>1, HeapNumbers
  <2>16. from >= HeapBase /\ from >= brk.mapped
    BY <1>3, HeapNumbers DEF from
  <2>17. \A k \in HeapBase .. (Up(a) - Len(todo) - 1) : Backed(k)'
    <3>1. Up(a) - Len(todo) - 1 <= from - 1
      BY SMTT(60), <1>3, <2>12, <2>13, HeapNumbers
    <3>2. HeapBase .. (Up(a) - Len(todo) - 1) \subseteq HeapBase .. (from - 1)
      BY <1>3, <2>11, <3>1, HeapNumbers
    <3>3. QED
      BY <2>9, <3>2
  <2>18. BrkOK'
    <3>1. call'.todo = todo /\ brk'.want = a /\ brk'.cur < brk'.want /\ brk'.mapped = brk.mapped
      BY <1>4, <2>3, <2>4
    <3> HIDE DEF todo
    <3>2. BackedFrom(HeapBase, Up(brk.want) - Len(call.todo) - 1)'
      BY <2>17, <3>1 DEF BackedFrom
    <3>3. QED
      BY <2>14, <2>15, <2>16, <3>1, <3>2 DEF BrkOK
  <2>19. QED
    BY <2>5, <2>6, <2>7, <2>18 DEF HeapOK
<1>5. CASE ~(a > brk.cur)
  <2>1. brk' = [brk EXCEPT !.cur = a] /\ UNCHANGED call /\ call.op = "idle"
    BY <1>5 DEF Brk
  <2>2. brk'.cur = a /\ brk'.mapped = brk.mapped
    BY <2>1 DEF MInv, TypeOK
  <2>3. brk.mapped = 0 => a = brk.cur
    BY <1>5, HeapNumbers DEF HeapOK, EndOK
  <2>4. Up(a) <= Up(brk.cur) /\ Up(a) \in Int /\ Up(brk.cur) \in Int
    <3>1. a \in Nat /\ brk.cur \in Nat /\ a <= brk.cur
      BY <1>5, HeapNumbers
    <3>2. QED
      BY <1>3, <3>1, UpMonotone, HeapNumbers
  <2>5. EndOK'
    <3>1. brk.mapped # 0 => Up(a) <= brk.mapped
      BY <2>4, HeapNumbers DEF HeapOK, EndOK
    <3>2. BackedFrom(HeapBase, brk.mapped - 1)'
      BY <1>2, <2>2 DEF HeapOK, EndOK, BackedFrom, Backed, Chain
    <3>3. QED
      BY <1>2, <2>1, <2>2, <2>3, <3>1, <3>2 DEF HeapOK, EndOK
  <2>6. QED
    BY <2>1, <2>5 DEF HeapOK, BrkOK, ApartOK, WayOK
<1>6. QED
  BY <1>4, <1>5

(* mmap of memory: its arena lies apart from the heap.                        *)
LEMMA MmapOK ==
  ASSUME MInv, HeapOK, NEW len \in 1 .. (MapCap - MapBase), Mmap(len)
  PROVE  HeapOK'
<1> DEFINE todo == [i \in 1 .. len |-> mmap + i - 1]
<1>1. linux # None /\ call' = [Idle EXCEPT !.op = "mmap", !.root = linux, !.at = linux, !.todo = todo]
      /\ linux' = linux /\ brk' = brk /\ mmap + len <= MapCap
  BY DEF Mmap
<1>2. ASSUME NEW i \in DOMAIN todo PROVE todo[i] \notin HeapBase .. HeapCap
  <2>1. i \in 1 .. len /\ todo[i] = mmap + i - 1
    OBVIOUS
  <2>2. mmap \in MapBase .. MapCap /\ MapBase \in Nat /\ MapCap \in Nat
    BY MemoryAssumption DEF MInv, TypeOK
  <2>3. mmap + i - 1 \in MapBase .. MapCap
    BY <1>1, <2>1, <2>2
  <2>4. QED
    BY <2>1, <2>3, MemoryAssumption
<1>3. [Next]_vars
  BY DEF Next, Call
<1> HIDE DEF todo
<1>4. call' = [op |-> "mmap", root |-> linux, todo |-> todo, frame |-> None, at |-> linux, lev |-> 1]
  BY <1>1 DEF Idle
<1>5. /\ linux \in Frames /\ brk'.mapped = brk.mapped /\ brk'.cur = brk.cur /\ "mmap" \notin LinuxKinds
      /\ call'.lev = 1 /\ call'.at = linux /\ call'.root = linux /\ call'.op = "mmap" /\ call'.todo = todo
  <2>1. brk'.mapped = brk.mapped /\ brk'.cur = brk.cur
    BY <1>1
  <2>2. linux \in Frames
    BY <1>1, LinuxSpace
  <2>3. QED
    BY <1>4, <2>1, <2>2 DEF LinuxKinds
<1>6. QED
  BY <1>1, <1>2, <1>3, <1>4, <1>5, StartOK

(* mmap at pages that the program names.                                      *)
LEMMA MmapFixedOK ==
  ASSUME MInv, HeapOK, NEW r \in FixedRuns, MmapFixed(r[1], r[2])
  PROVE  HeapOK'
<1> DEFINE todo == [i \in 1 .. (r[2] - r[1] + 1) |-> r[1] + i - 1]
<1>1. linux # None /\ call' = [Idle EXCEPT !.op = "fixed", !.root = linux, !.at = linux, !.todo = todo]
      /\ linux' = linux /\ brk' = brk
  BY DEF MmapFixed
<1>2. [Next]_vars
  BY DEF Next, Call
<1> HIDE DEF todo
<1>3. call' = [op |-> "fixed", root |-> linux, todo |-> todo, frame |-> None, at |-> linux, lev |-> 1]
  BY <1>1 DEF Idle
<1>4. /\ linux \in Frames /\ brk'.mapped = brk.mapped /\ brk'.cur = brk.cur /\ "fixed" \notin LinuxKinds
      /\ call'.lev = 1 /\ call'.at = linux /\ call'.root = linux /\ call'.op = "fixed" /\ call'.todo = todo
  <2>1. brk'.mapped = brk.mapped /\ brk'.cur = brk.cur
    BY <1>1
  <2>2. linux \in Frames
    BY <1>1, LinuxSpace
  <2>3. QED
    BY <1>3, <2>1, <2>2 DEF LinuxKinds
<1>5. QED
  BY <1>1, <1>2, <1>3, <1>4, StartOK

(* mmap of the screen: it lies apart from the heap.                           *)
LEMMA ScreenOK ==
  ASSUME MInv, HeapOK, MapScreen
  PROVE  HeapOK'
<1>1. /\ linux # None /\ linux' = linux /\ brk' = brk
      /\ call' = [op |-> "screen", root |-> linux, todo |-> ScreenPages, frame |-> None, at |-> linux, lev |-> 1]
  BY DEF MapScreen, Idle
<1>2. [Next]_vars
  BY DEF Next, Call
<1>3. \A i \in DOMAIN ScreenPages : ScreenPages[i] \notin HeapBase .. HeapCap
  BY MemoryAssumption
<1>4. QED
  BY <1>1, <1>2, <1>3, LinuxSpace, StartOK DEF LinuxKinds

(* A step of a call that stays with its page. *)
LEMMA SamePageOK ==
  ASSUME MInv, HeapOK, [Next]_vars, brk' = brk, linux' = linux,
         call'.op = call.op, call'.todo = call.todo, WayOK', ~LeftOut
  PROVE  HeapOK'
<1>1. EndOK'
  BY EndStays DEF HeapOK, EndOK
<1>2. ApartOK'
  BY DEF HeapOK, ApartOK
<1>3. BrkOK'
  <2>1. SUFFICES ASSUME call.op = "brk" PROVE BrkOK'
    BY DEF BrkOK
  <2>2. linux # None
    BY <2>1 DEF MInv, OwnerOK, LinuxCalls
  <2>3. ASSUME NEW n \in HeapBase .. (Up(brk.want) - Len(call.todo) - 1) PROVE Backed(n)'
    <3>1. n \in HeapBase .. HeapCap /\ n < Up(brk.want) - Len(call.todo)
      BY <2>1, HeapNumbers
    <3>2. Backed(n)
      BY <2>1 DEF HeapOK, BrkOK, BackedFrom
    <3>3. QED
      BY <2>1, <2>2, <3>1, <3>2, BackedStays
  <2>4. BackedFrom(HeapBase, Up(brk.want) - Len(call.todo) - 1)'
    BY <2>3 DEF BackedFrom
  <2>5. QED
    BY <2>1, <2>4 DEF HeapOK, BrkOK
<1>4. QED
  BY <1>1, <1>2, <1>3 DEF HeapOK

(* The walk keeps its way while tables are added. *)
LEMMA WayStays ==
  ASSUME MInv, HeapOK, [Next]_vars, ~MapEntry, call.op \notin {"idle", "fault"}, call.todo # << >>
  PROVE  \E w \in [1..call.lev -> Frames] :
           /\ w[1] = call.root /\ w[call.lev] = call.at
           /\ \A k \in 1..(call.lev - 1) : level'[w[k]] = k /\ pt'[w[k]][Path[Head(call.todo)][k]] = w[k + 1]
<1>1. PICK w : Chain(w, call.root, Head(call.todo), call.lev) /\ w[call.lev] = call.at
  BY DEF HeapOK, WayOK
<1>2. call.lev \in 1 .. (Depth + 1) /\ Head(call.todo) \in Pages
  BY CallTyped, MemoryAssumption
<1>3. TablesGrow
  BY StepsGrow
<1>4. QED
  BY SMTT(60), <1>1, <1>2, <1>3, GrowthKeepsChains

(* Without a frame brk ends. *)
LEMMA BackPageLeft ==
  ASSUME MInv, BackPage, LeftOut, NEW f, call' = [call EXCEPT !.frame = f]
  PROVE  call.op # "brk"
<1> SUFFICES ASSUME call.op = "brk" PROVE FALSE
  OBVIOUS
<1>1. call' = Idle
  BY DEF BackPage, LeftOut
<1>2. call'.op = "brk"
  BY CallTyped
<1>3. QED
  BY <1>1, <1>2 DEF Idle

(* The frame for a page.                                                      *)
LEMMA BackPageOK ==
  ASSUME MInv, HeapOK, BackPage
  PROVE  HeapOK'
<1>1. call.op # "idle" /\ call.todo # << >> /\ UNCHANGED <<pt, level, linux, brk>> /\ [Next]_vars
  BY DEF BackPage, Next, Step
<1>2. CASE call' = Idle
  <2>1. Boot \in Frames
    BY MemoryAssumption
  <2>2. QED
    BY <1>1, <1>2, <2>1, StartOK DEF Idle, LinuxKinds
<1>3. CASE ~LeftOut /\ \E f : call' = [call EXCEPT !.frame = f]
  <2>1. call'.op = call.op /\ call'.todo = call.todo /\ call'.root = call.root /\ call'.at = call.at /\ call'.lev = call.lev
    BY <1>3, CallTyped
  <2>2. WayOK'
    BY <1>1, <2>1 DEF HeapOK, WayOK, Chain
  <2>3. QED
    BY <1>1, <1>3, <2>1, <2>2, SamePageOK
<1>4. CASE LeftOut /\ \E f : call' = [call EXCEPT !.frame = f]
  <2>1. call'.op = call.op /\ call'.todo = call.todo /\ call'.root = call.root /\ call'.at = call.at /\ call'.lev = call.lev
    BY <1>4, CallTyped
  <2>2. WayOK'
    BY <1>1, <2>1 DEF HeapOK, WayOK, Chain
  <2>3. call.op # "brk"
    BY <1>4, BackPageLeft
  <2>4. EndOK'
    BY <1>1, <2>1, EndStays DEF HeapOK, EndOK
  <2>5. QED
    BY <2>1, <2>2, <2>3, <2>4 DEF HeapOK, BrkOK, ApartOK
<1>5. QED
  BY <1>2, <1>3, <1>4 DEF BackPage

(* descend: the walk goes on along the way to its page.                       *)
LEMMA DescendOK ==
  ASSUME MInv, HeapOK, Descend
  PROVE  HeapOK'
<1> DEFINE m == Head(call.todo)
           l == call.lev
<1>1. /\ call.frame # None /\ l < Depth /\ brk' = brk /\ linux' = linux /\ [Next]_vars /\ ~MapEntry
  <2>1. call.frame # None /\ call.lev < Depth /\ brk' = brk /\ linux' = linux /\ [Next]_vars
    BY DEF Descend, Next, Step
  <2>2. call.lev \in Nat /\ Depth \in Nat
    BY CallTyped, MemoryAssumption
  <2>3. call.lev # Depth
    BY <2>1, <2>2
  <2>4. QED
    BY <2>1, <2>3 DEF MapEntry
<1>2. call.op \notin {"idle", "fault"} /\ call.todo # << >> /\ level[call.at] = l /\ call.at \in Frames
      /\ m \in Pages /\ l \in 1..Depth /\ l \in Nat /\ l # 0 /\ Path[m][l] \in Index
  BY <1>1, CallTyped, PathTyped DEF MInv, WalkOK
<1>3. /\ call' = [call EXCEPT !.at = call'.at, !.lev = l + 1]
      /\ pt'[call.at][Path[m][l]] = call'.at /\ call'.at \in Frames
  <2>1. CASE pt[call.at][Path[m][l]] = None
    <3>1. PICK f \in free : /\ pt' = [pt EXCEPT ![f] = Empty, ![call.at][Path[m][l]] = f]
                            /\ call' = [call EXCEPT !.at = f, !.lev = @ + 1]
      BY <2>1 DEF Descend
    <3>2. f \in Frames /\ call.at # f /\ pt \in [Frames -> [Index -> Entries]]
      BY <1>2, FreeFrame DEF MInv, TypeOK
    <3>3. pt'[call.at][Path[m][l]] = f
      BY <1>2, <3>1, <3>2
    <3>4. QED
      BY <3>1, <3>2, <3>3, CallTyped
  <2>2. CASE pt[call.at][Path[m][l]] # None
    <3>1. pt' = pt /\ call' = [call EXCEPT !.at = pt[call.at][Path[m][l]], !.lev = @ + 1]
      BY <2>2 DEF Descend, tables
    <3>2. pt[call.at][Path[m][l]] \in Frames
      BY <1>2, <2>2 DEF MInv, TypeOK, Entries
    <3>3. QED
      BY <3>1, <3>2, CallTyped
  <2>3. QED
    BY <2>1, <2>2
<1>4. level'[call.at] = l
  BY <1>1, <1>2, StepsGrow DEF TablesGrow
<1>5. /\ call'.op = call.op /\ call'.todo = call.todo /\ call'.root = call.root
      /\ call'.lev = l + 1 /\ Head(call'.todo) = m
  BY <1>3, CallTyped
<1>6. PICK w \in [1..l -> Frames] :
        /\ w[1] = call.root /\ w[l] = call.at
        /\ \A k \in 1..(l - 1) : level'[w[k]] = k /\ pt'[w[k]][Path[m][k]] = w[k + 1]
  BY <1>1, <1>2, WayStays
<1> HIDE DEF m, l
<1>7. PICK x \in Frames : x = call'.at
  BY <1>3
<1>8. PICK u : u = [k \in 1..(l + 1) |-> IF k = l + 1 THEN x ELSE w[k]]
  OBVIOUS
<1>9. u \in [1..(l + 1) -> Frames] /\ u[1] = call.root /\ u[l + 1] = x
  BY <1>2, <1>6, <1>8
<1>10. ASSUME NEW k \in 1..l PROVE level'[u[k]] = k /\ pt'[u[k]][Path[m][k]] = u[k + 1]
  <2>1. CASE k = l
    BY <1>2, <1>3, <1>4, <1>6, <1>7, <1>8, <2>1
  <2>2. CASE k # l
    <3>1. k \in 1..(l - 1) /\ u[k] = w[k] /\ u[k + 1] = w[k + 1]
      BY <1>2, <1>8, <2>2
    <3>2. QED
      BY <1>6, <3>1
  <2>3. QED
    BY <2>1, <2>2
<1>11. WayOK'
  <2>1. call'.lev - 1 = l
    BY <1>2, <1>5
  <2>2. u \in [1..call'.lev -> Frames] /\ u[1] = call'.root /\ u[call'.lev] = call'.at
    BY <1>5, <1>7, <1>9
  <2>3. \A k \in 1..(call'.lev - 1) : level'[u[k]] = k /\ pt'[u[k]][Path[Head(call'.todo)][k]] = u[k + 1]
    BY <1>5, <1>10, <2>1
  <2>4. Chain(u, call.root, Head(call.todo), call.lev)'
    BY <2>2, <2>3 DEF Chain
  <2>5. (\E v : Chain(v, call.root, Head(call.todo), call.lev) /\ v[call.lev] = call.at)'
    BY <2>2, <2>4
  <2>6. QED
    BY <2>5 DEF WayOK
<1>12. QED
  BY <1>1, <1>5, <1>11, SamePageOK DEF LeftOut

(* What is left of a call after a page.                                       *)
LEMMA PageDoneRecord ==
  ASSUME MInv, call.frame # None
  PROVE  /\ PageDone.op = call.op /\ PageDone.todo = Tail(call.todo) /\ PageDone.root = call.root
         /\ PageDone.at = call.root /\ PageDone.lev = 1 /\ call.root \in Frames
         /\ call.op \notin {"idle", "fault"} /\ call.todo # << >>
BY CallTyped DEF PageDone, MInv, WalkOK

(* The pages that are left lie apart from the heap, too.                      *)
LEMMA PagesApart ==
  ASSUME MInv, HeapOK, call.op \in {"mmap", "screen"}, call.todo # << >>
  PROVE  \A i \in DOMAIN Tail(call.todo) : Tail(call.todo)[i] \notin HeapBase .. HeapCap
<1>1. ASSUME NEW i \in DOMAIN Tail(call.todo) PROVE Tail(call.todo)[i] \notin HeapBase .. HeapCap
  <2>1. i \in 1 .. Len(Tail(call.todo)) /\ Len(Tail(call.todo)) = Len(call.todo) - 1 /\ Len(call.todo) \in Nat
    BY CallTyped
  <2>2. i + 1 \in DOMAIN call.todo /\ Tail(call.todo)[i] = call.todo[i + 1]
    BY <2>1, CallTyped, HeapNumbers
  <2>3. QED
    BY <2>2 DEF HeapOK, ApartOK
<1>2. QED
  BY <1>1

(* The pages that are left of a brk are in order, too. *)
LEMMA TailInOrder ==
  ASSUME MInv, HeapOK, call.op = "brk", call.todo # << >>
  PROVE  /\ brk.cur < brk.want
         /\ \A i \in DOMAIN Tail(call.todo) :
              Tail(call.todo)[i] = Up(brk.want) - Len(Tail(call.todo)) - 1 + i
         /\ Up(brk.want) - Len(Tail(call.todo)) >= HeapBase
         /\ Up(brk.want) - Len(Tail(call.todo)) >= brk.mapped
<1>1. /\ Len(call.todo) \in Nat /\ Len(call.todo) >= 1
      /\ Len(Tail(call.todo)) = Len(call.todo) - 1
      /\ Up(brk.want) \in HeapBase .. HeapCap /\ Up(brk.want) \in Int /\ HeapBase \in Nat
      /\ HeapCap \in Nat /\ brk.mapped \in Int
      /\ DOMAIN Tail(call.todo) = 1 .. (Len(call.todo) - 1)
  BY CallTyped, HeapNumbers
<1>2. ASSUME NEW i \in DOMAIN Tail(call.todo)
      PROVE  Tail(call.todo)[i] = Up(brk.want) - Len(Tail(call.todo)) - 1 + i
  <2>1. i \in 1 .. (Len(call.todo) - 1) /\ i \in Int /\ i + 1 \in DOMAIN call.todo
        /\ Tail(call.todo)[i] = call.todo[i + 1]
    BY <1>1, CallTyped, HeapNumbers
  <2>2. call.todo[i + 1] = Up(brk.want) - Len(call.todo) - 1 + (i + 1)
    BY <2>1 DEF HeapOK, BrkOK
  <2>3. \A u, l, k \in Int : u - (l - 1) - 1 + k = u - l - 1 + (k + 1)
    OBVIOUS
  <2>4. Up(brk.want) - (Len(call.todo) - 1) - 1 + i = Up(brk.want) - Len(call.todo) - 1 + (i + 1)
    BY <1>1, <2>1, <2>3
  <2>5. QED
    BY <1>1, <2>1, <2>2, <2>4
<1>3. Up(brk.want) - Len(Tail(call.todo)) >= HeapBase /\ Up(brk.want) - Len(Tail(call.todo)) >= brk.mapped
  BY <1>1 DEF HeapOK, BrkOK
<1>4. QED
  BY <1>2, <1>3 DEF HeapOK, BrkOK

(* There is no frame for a table.                                             *)
LEMMA NoTableOK ==
  ASSUME MInv, HeapOK, NoTable
  PROVE  HeapOK'
<1>1. call.frame # None /\ UNCHANGED <<free, pt, level, linux, brk>> /\ [Next]_vars /\ free = {}
  BY DEF NoTable, Next, Step, tables
<1>2. CASE call' = Idle
  <2>1. Boot \in Frames
    BY MemoryAssumption
  <2>2. QED
    BY <1>1, <1>2, <2>1, StartOK DEF Idle, LinuxKinds
<1>3. CASE call' = [call EXCEPT !.op = "fault", !.frame = None, !.todo = << >>]
  <2>1. call'.op = "fault"
    BY <1>3, CallTyped
  <2>2. EndOK'
    BY <1>1, <2>1, EndStays DEF LinuxKinds
  <2>3. QED
    BY <2>1, <2>2 DEF HeapOK, BrkOK, ApartOK, WayOK
<1>4. CASE call.op # "brk" /\ call' = PageDone
  <2>1. call'.op = call.op /\ call'.todo = Tail(call.todo) /\ call'.root = call.root /\ call'.at = call.root
        /\ call'.lev = 1 /\ call.root \in Frames /\ call.todo # << >>
    BY <1>1, <1>4, PageDoneRecord
  <2>2. call.op \in LinuxKinds => linux = None
    BY DEF HeapOK, EndOK
  <2>3. QED
    BY <1>1, <1>4, <2>1, <2>2, PagesApart, StartOK
<1>5. CASE call.op = "brk" /\ ~Cleared /\ call' = PageDone
  <2>1. /\ call'.op = "brk" /\ call'.todo = Tail(call.todo) /\ call'.root = call.root
        /\ call'.at = call.root /\ call'.lev = 1 /\ call.root \in Frames /\ call.todo # << >>
        /\ call'.frame = None
    BY <1>1, <1>5, PageDoneRecord DEF PageDone
  <2>2. Len(call.todo) \in Nat /\ Len(call.todo) # 1 /\ Len(call.todo) # 0
    BY <1>5, <2>1, CallTyped DEF Cleared
  <2>3. EndOK'
    BY <1>1, <2>1, EndStays DEF LinuxKinds
  <2>4. WayOK'
    BY <2>1, FirstLevel
  <2>5. LeftOut'
    <3>1. PICK t : t = Tail(call.todo)
      OBVIOUS
    <3>2. Len(t) # 0
      BY <2>1, <2>2, <3>1, CallTyped
    <3>3. t # << >>
      BY <3>2
    <3>4. free' = {} /\ call'.todo = t /\ call'.frame = None
      BY <1>1, <2>1, <3>1
    <3>5. QED
      BY <3>3, <3>4 DEF LeftOut
  <2>6. BrkOK'
    BY <1>1, <1>5, <2>1, <2>5, TailInOrder DEF BrkOK
  <2>7. QED
    BY <2>1, <2>3, <2>4, <2>6 DEF HeapOK, ApartOK
<1>6. QED
  BY <1>2, <1>3, <1>4, <1>5 DEF NoTable

(* The entry: one more page of the heap is backed.                            *)
LEMMA MapEntryOK ==
  ASSUME MInv, HeapOK, MapEntry
  PROVE  HeapOK'
<1>1. call.frame # None /\ UNCHANGED <<linux, brk>> /\ [Next]_vars /\ call' = PageDone
  BY DEF MapEntry, Next, Step
<1>2. /\ call'.op = call.op /\ call'.todo = Tail(call.todo) /\ call'.root = call.root
      /\ call'.at = call.root
      /\ call'.lev = 1 /\ call.root \in Frames /\ call.todo # << >>
  BY <1>1, PageDoneRecord
<1>3. call.op \in LinuxKinds => linux = None
  BY DEF HeapOK, EndOK
<1>4. CASE call.op # "brk"
  BY <1>1, <1>2, <1>3, <1>4, PagesApart, StartOK
<1>5. CASE call.op = "brk"
  <2>1. linux # None /\ call.root = linux
    BY <1>5 DEF MInv, OwnerOK, LinuxCalls
  <2>2. EndOK'
    BY <1>1, <1>2, <1>3, EndStays
  <2>3. WayOK'
    BY <1>2, FirstLevel
  <2>4. ApartOK'
    BY <1>2, <1>5 DEF ApartOK
  <2>5. /\ Len(call.todo) \in Nat /\ Len(call.todo) >= 1
        /\ Len(Tail(call.todo)) = Len(call.todo) - 1
        /\ Up(brk.want) \in HeapBase .. HeapCap /\ Up(brk.want) \in Int /\ HeapBase \in Nat
        /\ HeapCap \in Nat
        /\ brk.mapped \in Int /\ Head(call.todo) = call.todo[1] /\ 1 \in DOMAIN call.todo
        /\ DOMAIN Tail(call.todo) = 1 .. (Len(call.todo) - 1)
    BY <1>2, <1>5, CallTyped, HeapNumbers
  <2>6. Head(call.todo) = Up(brk.want) - Len(call.todo)
    BY <1>5, <2>5 DEF HeapOK, BrkOK
  <2>7. ASSUME NEW n \in HeapBase .. (Up(brk.want) - Len(Tail(call.todo)) - 1) PROVE Backed(n)'
    <3>1. CASE n = Head(call.todo)
      BY <2>1, <3>1, PageMapped
    <3>2. CASE n # Head(call.todo)
      <4>1. n \in HeapBase .. (Up(brk.want) - Len(call.todo) - 1) /\ n \in HeapBase .. HeapCap
            /\ n < Up(brk.want) - Len(call.todo)
        BY SMTT(60), <2>5, <2>6, <3>2
      <4>2. Backed(n)
        BY <1>1, <1>5, <4>1 DEF HeapOK, BrkOK, BackedFrom, LeftOut
      <4>3. QED
        BY <1>1, <2>1, <4>1, <4>2, BackedStays
    <3>3. QED
      BY <3>1, <3>2
  <2>8. BackedFrom(HeapBase, Up(brk.want) - Len(call.todo) - 1)'
    BY <1>1, <1>2, <2>7 DEF BackedFrom
  <2>11. BrkOK'
    BY <1>1, <1>2, <1>5, <2>8, TailInOrder DEF BrkOK
  <2>12. QED
    BY <2>2, <2>3, <2>4, <2>11 DEF HeapOK
<1>6. QED
  BY <1>4, <1>5

(* A call ends: brk moves the end over pages that are all backed.             *)
LEMMA FinishOK ==
  ASSUME MInv, HeapOK, Finish
  PROVE  HeapOK'
<1>1. /\ call.op \notin {"idle", "fault"} /\ call.todo = << >> /\ call' = Idle
      /\ UNCHANGED <<pt, level>> /\ [Next]_vars
      /\ linux' = (IF call.op \in LinuxKinds THEN call.root ELSE linux)
      /\ brk' = (IF call.op = "brk" THEN [cur |-> brk.want, mapped |-> Up(brk.want), want |-> 0] ELSE brk)
  BY DEF Finish, End, tables, Next, Step
<1>2. call'.op = "idle" /\ BrkOK' /\ ApartOK' /\ WayOK'
  BY <1>1 DEF Idle, BrkOK, ApartOK, WayOK
<1>3. Boot \in Frames /\ "idle" \notin LinuxKinds
  BY MemoryAssumption DEF LinuxKinds
<1>4. CASE call.op \notin LinuxKinds /\ call.op # "brk"
  <2>1. EndOK'
    BY <1>1, <1>2, <1>3, <1>4, EndStays
  <2>2. QED
    BY <1>2, <2>1 DEF HeapOK
<1>5. CASE call.op \in LinuxKinds
  <2>1. brk' = brk /\ brk.mapped = 0 /\ linux = None /\ linux' = call.root
    BY <1>1, <1>5 DEF HeapOK, EndOK, LinuxKinds
  <2>2. brk.cur = HeapBase * PAGE
    BY <2>1 DEF HeapOK, EndOK
  <2>3. HeapBase .. (0 - 1) = {} /\ call.root # None
    <3>1. HeapBase .. (0 - 1) = {}
      BY HeapNumbers
    <3>2. call.root \in Frames /\ Frames \subseteq Nat
      BY CallTyped, MemoryAssumption
    <3>3. QED
      BY <3>1, <3>2 DEF None
  <2>4. EndOK'
    BY <1>2, <1>3, <2>1, <2>2, <2>3 DEF EndOK, BackedFrom
  <2>5. QED
    BY <1>2, <2>4 DEF HeapOK
<1>6. CASE call.op = "brk"
  <2>1. brk'.cur = brk.want /\ brk'.mapped = Up(brk.want) /\ linux' = linux /\ linux # None
    BY <1>1, <1>6 DEF LinuxKinds, MInv, OwnerOK, LinuxCalls
  <2>2. Len(call.todo) = 0 /\ Up(brk.want) \in Int /\ Up(brk.want) - Len(call.todo) - 1 = Up(brk.want) - 1
    BY <1>1, <1>6, HeapNumbers
  <2>3. BackedFrom(HeapBase, Up(brk.want) - 1)
    <3>1. BackedFrom(HeapBase, Up(brk.want) - Len(call.todo) - 1)
      BY <1>1, <1>6 DEF HeapOK, BrkOK, LeftOut
    <3>2. QED
      BY <2>2, <3>1
  <2>4. BackedFrom(HeapBase, brk.mapped - 1)'
    <3>1. \A n \in HeapBase .. (Up(brk.want) - 1) : Backed(n)'
      BY <1>1, <2>1, <2>3 DEF BackedFrom, Backed, Chain
    <3>2. QED
      BY <2>1, <3>1 DEF BackedFrom
  <2>5. brk.want > HeapBase * PAGE
    BY <1>6, HeapNumbers DEF HeapOK, BrkOK
  <2>6. Up(brk.want) # 0
    <3>1. brk.want \in Nat
      BY <1>6, HeapNumbers
    <3>2. QED
      BY <2>5, <3>1, HeapNumbers, UpAbove
  <2>7. EndOK'
    BY <1>2, <1>3, <2>1, <2>2, <2>4, <2>6 DEF EndOK
  <2>8. QED
    BY <1>2, <2>7 DEF HeapOK
<1>7. QED
  BY <1>4, <1>5, <1>6

(* There is no heap after boot.                                               *)
LEMMA HeapInit == Init => HeapOK
<1> SUFFICES ASSUME Init PROVE HeapOK
  OBVIOUS
<1>1. linux = None /\ brk.cur = HeapBase * PAGE /\ brk.mapped = 0 /\ call.op = "idle"
  BY DEF Init, Idle
<1>2. QED
  BY <1>1 DEF HeapOK, EndOK, BrkOK, ApartOK, WayOK, LinuxKinds

(* Every step keeps the heap.                                                 *)
LEMMA HeapStep == MInv /\ HeapOK /\ [Next]_vars => HeapOK'
<1> SUFFICES ASSUME MInv, HeapOK, [Next]_vars PROVE HeapOK'
  OBVIOUS
<1>1. CASE spawn_ring3 \/ spawn_ring3_low_with \/ spawn_ring3_elf_cfg
           \/ spawn_linux_static_elf \/ spawn_linux_dyn_elf
  <2>1. \E kind \in Kinds : NewSpace(kind)
    BY <1>1 DEF spawn_ring3, spawn_ring3_low_with, spawn_ring3_elf_cfg, spawn_linux_static_elf,
                spawn_linux_dyn_elf, Kinds
  <2>2. QED
    BY <2>1, NewSpaceOK
<1>2. CASE MakeSurface \/ UNCHANGED vars
  BY <1>2, StillOK DEF MakeSurface, vars
<1>3. ASSUME NEW a \in (HeapBase * PAGE) .. (HeapCap * PAGE), Brk(a) PROVE HeapOK'
  BY <1>3, BrkCallOK
<1>4. /\ \A len \in 1 .. (MapCap - MapBase) : Mmap(len) => HeapOK'
      /\ \A r \in FixedRuns : MmapFixed(r[1], r[2]) => HeapOK'
  BY MmapOK, MmapFixedOK
<1>5. CASE MapScreen \/ Step
  BY <1>5, ScreenOK, BackPageOK, DescendOK, NoTableOK, MapEntryOK, FinishOK DEF Step
<1>6. QED
  BY <1>1, <1>2, <1>3, <1>4, <1>5 DEF Next, Call

(* The walk of the processor finds the page at the end of the way.            *)
LEMMA Translated ==
  ASSUME NEW n, NEW w \in [1..(Depth + 1) -> Frames], w[1] = linux,
         \A k \in 1..Depth : pt[w[k]][Path[n][k]] = w[k + 1]
  PROVE  Translate(n) = w[Depth + 1]
<1> DEFINE P(at) == at = [l \in 1..(Depth + 1) |->
                   IF l = 1 THEN linux ELSE IF at[l - 1] = None THEN None ELSE pt[at[l - 1]][Path[n][l - 1]]]
           at == CHOOSE at : P(at)
<1>1. Depth \in Nat /\ None \notin Frames
  BY MemoryAssumption DEF None
<1>2. P(w)
  <2>1. ASSUME NEW l \in 1..(Depth + 1), l # 1
        PROVE  w[l] = IF w[l - 1] = None THEN None ELSE pt[w[l - 1]][Path[n][l - 1]]
    <3>1. PICK k \in 1..Depth : l = k + 1 /\ l - 1 = k /\ k \in 1..(Depth + 1)
      BY <1>1, <2>1
    <3>2. w[k] # None
      BY <1>1, <3>1
    <3>3. QED
      BY <3>1, <3>2
  <2>2. QED
    BY <2>1
<1>3. Translate(n) = at[Depth + 1]
  BY DEF Translate
<1>4. P(at)
  <2> HIDE DEF P
  <2>1. QED
    BY <1>2
<1> HIDE DEF at
<1>5. \A l \in 1..(Depth + 1) : at[l] =
        IF l = 1 THEN linux ELSE IF at[l - 1] = None THEN None ELSE pt[at[l - 1]][Path[n][l - 1]]
  BY <1>4
<1> DEFINE T == {j \in Nat : j <= Depth => at[j + 1] = w[j + 1]}
<1>6. 0 \in T
  <2>1. at[1] = linux
    BY <1>1, <1>5
  <2>2. at[0 + 1] = w[0 + 1]
    BY <2>1
  <2>3. QED
    BY <2>2
<1>7. ASSUME NEW j \in T PROVE j + 1 \in T
  <2>1. SUFFICES ASSUME j + 1 <= Depth PROVE at[(j + 1) + 1] = w[(j + 1) + 1]
    OBVIOUS
  <2>2. PICK k \in 1..Depth : k = j + 1
    BY <1>1, <2>1
  <2>3. at[k] = w[k] /\ k \in 1..(Depth + 1) /\ k + 1 \in 1..(Depth + 1) /\ k + 1 # 1 /\ (k + 1) - 1 = k
    BY <1>1, <2>1, <2>2
  <2>4. at[k + 1] = IF at[k] = None THEN None ELSE pt[at[k]][Path[n][k]]
    BY <1>5, <2>3
  <2>5. w[k] # None
    BY <1>1, <2>3
  <2>6. QED
    BY <2>2, <2>3, <2>4, <2>5
<1>8. T = Nat
  <2> HIDE DEF T
  <2>1. T \in SUBSET Nat
    BY DEF T
  <2>2. QED
    BY <1>6, <1>7, <2>1, NatSetInduction
<1>9. Depth \in T
  BY <1>1, <1>8
<1>10. at[Depth + 1] = w[Depth + 1]
  BY <1>1, <1>9
<1>11. QED
  BY <1>3, <1>10

WaysFound ==
  \A n : \A w \in [1..(Depth + 1) -> Frames] :
    w[1] = linux /\ (\A k \in 1..Depth : pt[w[k]][Path[n][k]] = w[k + 1]) => Translate(n) = w[Depth + 1]

(* The same for all pages at once.                                            *)
LEMMA WholeWays == WaysFound
BY Translated DEF WaysFound

(* Below its end the heap is mapped. *)
LEMMA BelowEnd ==
  ASSUME MInv, HeapOK, linux # None, NEW n \in HeapBase .. (Up(brk.cur) - 1)
  PROVE  n \in HeapBase .. HeapCap /\ n < brk.mapped /\ Backed(n)
<1>1. CASE brk.mapped = 0
  <2>1. brk.cur = HeapBase * PAGE
    BY <1>1 DEF HeapOK, EndOK
  <2>2. ~(Up(brk.cur) > HeapBase)
    <3>1. PAGE \in Nat /\ PAGE > 0 /\ HeapBase \in Nat /\ HeapBase * PAGE \in Nat
      BY MemoryAssumption
    <3> DEFINE q == (HeapBase * PAGE + PAGE - 1) \div PAGE
    <3>2. q \in Int /\ q * PAGE <= HeapBase * PAGE + PAGE - 1
      BY <3>1
    <3>3. (HeapBase + 1) * PAGE = HeapBase * PAGE + PAGE /\ q * PAGE \in Int
      BY <3>1, <3>2
    <3> HIDE DEF q
    <3>4. ASSUME HeapBase + 1 <= q PROVE FALSE
      <4>1. (HeapBase + 1) * PAGE <= q * PAGE
        BY <3>1, <3>2, <3>4
      <4>2. QED
        BY <3>1, <3>2, <3>3, <4>1
    <3>5. Up(brk.cur) = q
      BY <2>1 DEF q, Up
    <3>6. QED
      BY <3>1, <3>2, <3>4, <3>5
  <2>3. QED
    BY <2>2, HeapNumbers
<1>2. CASE brk.mapped # 0
  <2>1. Up(brk.cur) <= brk.mapped
    BY <1>2 DEF HeapOK, EndOK
  <2>2. n \in HeapBase .. (brk.mapped - 1) /\ n \in HeapBase .. HeapCap /\ n < brk.mapped
    BY <2>1, HeapNumbers
  <2>3. QED
    BY <2>2 DEF HeapOK, EndOK, BackedFrom
<1>3. QED
  BY <1>1, <1>2

(* A step leaves the pages below the end where they are.                      *)
LEMMA HeapKeptStep == MInv /\ HeapOK /\ [Next]_vars => HeapKept
<1> SUFFICES ASSUME MInv, HeapOK, [Next]_vars, linux # None, NEW n \in HeapBase .. (Up(brk.cur) - 1)
             PROVE  Translate(n) # None /\ (Translate(n)' = Translate(n) \/ MappedOver(n))
  BY DEF HeapKept
<1>1. n \in HeapBase .. HeapCap /\ n < brk.mapped /\ Backed(n)
  BY BelowEnd
<1>2. PICK w : Chain(w, linux, n, Depth + 1)
  BY <1>1 DEF Backed
<1>3. ASSUME call.op = "brk", call.todo # << >> PROVE n < Up(brk.want) - Len(call.todo)
  BY SMTT(60), <1>1, <1>3, HeapNumbers DEF HeapOK, BrkOK
<1>4. /\ w \in [1..(Depth + 1) -> Frames] /\ w[1] = linux
      /\ \A k \in 1..Depth : pt[w[k]][Path[n][k]] = w[k + 1]
  BY <1>2, WholeChain
<1>5. Translate(n) = w[Depth + 1]
  BY <1>4, WholeWays DEF WaysFound
<1>6. ASSUME ~MappedOver(n) PROVE Translate(n)' = w[Depth + 1]
  <2>1. WaysFound'
    BY WholeWays, PTL
  <2>2. w[1] = linux'
    BY <1>4, LinuxStays
  <2>3. \A k \in 1..Depth : pt'[w[k]][Path[n][k]] = w[k + 1]
    BY <1>1, <1>2, <1>3, <1>6, ChainsStay
  <2>4. QED
    BY <1>4, <2>1, <2>2, <2>3 DEF WaysFound
<1>7. w[Depth + 1] # None
  <2>1. Depth + 1 \in 1..(Depth + 1)
    BY HeapNumbers
  <2>2. QED
    BY <1>4, <2>1, MemoryAssumption DEF None
<1>8. QED
  BY <1>5, <1>6, <1>7

(* Every page of the heap below its end is mapped, and to the same frame before and *)
(* after every step, unless the program asks for a mapping at that very page: although *)
(* brk maps pages again that a smaller end had left behind (linux.rs, BRK_MAPPED), *)
(* and calls end half way when there are no frames.                           *)
THEOREM HeapStays == Spec => [][HeapKept]_vars
<1>1. MInv /\ HeapOK /\ [Next]_vars => HeapKept
  BY HeapKeptStep
<1>2. QED
  BY <1>1, MemoryInit, MemoryStep, HeapInit, HeapStep, PTL DEF Spec
==============================================================================
