---------------------------- MODULE KernelParts ----------------------------
(***************************************************************************)
(* Parts of the kernel that have nothing to do with each other but the        *)
(* machine they run on, each with variables of its own, and the proofs of     *)
(* what each of them promises, for every value of its constants.              *)
(***************************************************************************)
EXTENDS Integers, Sequences, FiniteSets, FiniteSetTheorems, FunctionTheorems, SequenceTheorems, TLAPS

CONSTANTS Programs, Linker, PAGE, Top, INTERP_BASE, PROG_BASE,  \* of Elf
          Files, SizeOf, Absent, MAX_OPEN, FbSize, Lens, Seeks, MaxCalls,  \* of LinuxFiles
          Sectors, DATA_MAX, Values, Blank, Sig, SCRATCH_LBA,  \* of Ahci
          Archives, MAX_INODES, Descriptors, ROOM, CHUNK, BUF, MaxDepth,  \* of Files
          Sites, Honest, Search, NoHost, Paths, Typed, MaxRedir, MaxHistory,  \* of Web
          Chains, trust_anchors, Hosts, Times, Flight, Response, Space, GUARD, MaxExtra  \* of Tls

VARIABLES prog, seg, phase, mem, entry,                              \* of Elf
          FDS, fbOff, nextTid, rawKbd, abi, RESTART_DESKTOP, mode, held, broken,
          tids, ret, calls,                                          \* of LinuxFiles
          READY, disk, data, ct, PXCI, tfes, tfd, drive, halted, call, answer,
          test, before, overdue,                                     \* of Ahci
          inodes, deleted, fd_table, job, cwd, entries, selected, sort_mode,
          clipboard, open, fresh,                                    \* of Files
          link, trust, answers, fetch, bar, page, security, shown, history, fwd,
          edited,                                                    \* of Web
          host, now, chain, st, hsSent, apSent, sealed, extra, seq, hs_acc,
          transcript, guard, sentReq, out, cut                       \* of Tls

Exec == INSTANCE Elf WITH i <- seg
Linux == INSTANCE LinuxFiles
Sata == INSTANCE Ahci WITH dev <- drive, late <- overdue
Disk == INSTANCE Files WITH FDS <- Descriptors
Fetch == INSTANCE Web WITH Hosts <- Sites, late <- answers, call <- fetch, mode <- page
Ssl == INSTANCE Tls WITH ROOM <- Space, broken <- cut

(***************************************************************************)
(* The loader of Linux programs, for any files and any size of page.          *)
(***************************************************************************)
LEMMA ElfUpAbove ==
  ASSUME Exec!ElfConstants, NEW z \in Nat
  PROVE  Exec!Up(z) \in Nat /\ z <= Exec!Up(z)
<1> PICK q : q = (z + PAGE - 1) \div PAGE
  OBVIOUS
<1>1. PAGE \in Nat /\ PAGE >= 1
  BY DEF Exec!ElfConstants
<1>2. q \in Int /\ PAGE * q <= z + PAGE - 1 /\ z + PAGE - 1 < PAGE * q + PAGE
  BY <1>1
<1>3. q * PAGE = PAGE * q /\ q * PAGE \in Int
  BY <1>1, <1>2
<1> QED
  BY <1>1, <1>2, <1>3 DEF Exec!Up

\* A header is one, and a segment lies within the memory looked at.
LEMMA ElfHeaders ==
  ASSUME Exec!ElfConstants, prog \in Programs, NEW k \in DOMAIN prog.ph
  PROVE  /\ prog.ph[k] \in Exec!Header /\ Exec!Start(k) \in Nat /\ k \in 1..Len(prog.ph) /\ Len(prog.ph) \in Nat
         /\ Exec!Up(Exec!Start(k) + prog.ph[k].memsz) \in Nat
         /\ Exec!Start(k) + prog.ph[k].memsz <= Exec!Up(Exec!Start(k) + prog.ph[k].memsz)
         /\ Exec!Up(Exec!Start(k) + prog.ph[k].memsz) <= Top
<1>1. prog.ph \in Seq(Exec!Header)
  BY DEF Exec!ElfConstants
<1>2. prog.ph[k] \in Exec!Header /\ k \in 1..Len(prog.ph) /\ Len(prog.ph) \in Nat
  BY <1>1
<1>3. Exec!prog_bias \in {0, PROG_BASE} /\ Exec!prog_bias \in Nat /\ prog.ph[k].vaddr \in Nat /\ prog.ph[k].memsz \in Nat
  BY <1>2 DEF Exec!prog_bias, Exec!ElfConstants, Exec!Header
<1>4. Exec!Start(k) \in Nat /\ Exec!Start(k) + prog.ph[k].memsz \in Nat
  BY <1>3 DEF Exec!Start
<1>5. Exec!Up(Exec!Start(k) + prog.ph[k].memsz) <= Top
  BY <1>3 DEF Exec!Start, Exec!ElfConstants
<1> QED
  BY <1>2, <1>4, <1>5, ElfUpAbove

LEMMA ElfLinkerHeaders ==
  ASSUME Exec!ElfConstants, NEW k \in DOMAIN Linker.ph
  PROVE  /\ Linker.ph[k] \in Exec!Header /\ k \in 1..Len(Linker.ph) /\ Len(Linker.ph) \in Nat
         /\ Linker.ph[k].vaddr + INTERP_BASE + Linker.ph[k].memsz
              <= Exec!Up(Linker.ph[k].vaddr + INTERP_BASE + Linker.ph[k].memsz)
         /\ Exec!Up(Linker.ph[k].vaddr + INTERP_BASE + Linker.ph[k].memsz) \in Nat
<1>1. Linker.ph \in Seq(Exec!Header) /\ INTERP_BASE \in Nat
  BY DEF Exec!ElfConstants
<1>2. Linker.ph[k] \in Exec!Header /\ k \in 1..Len(Linker.ph) /\ Len(Linker.ph) \in Nat
  BY <1>1
<1>3. Linker.ph[k].vaddr \in Nat /\ Linker.ph[k].memsz \in Nat
  BY <1>2 DEF Exec!Header
<1>4. Linker.ph[k].vaddr + INTERP_BASE + Linker.ph[k].memsz \in Nat
  BY <1>1, <1>3
<1> QED
  BY <1>2, <1>4, ElfUpAbove

LEMMA ElfInitHolds == Exec!ElfConstants /\ Exec!Init => Exec!Inv
<1> SUFFICES ASSUME Exec!ElfConstants, Exec!Init PROVE Exec!Inv
  OBVIOUS
<1>1. prog \in Programs /\ phase = "program" /\ seg = 0 /\ mem = [a \in 0..(Top - 1) |-> Exec!Old]
  BY DEF Exec!Init
<1>2. Len(prog.ph) \in Nat
  BY <1>1 DEF Exec!ElfConstants
<1>3. Exec!Typed
  BY <1>1, <1>2 DEF Exec!Typed, Exec!TypeOK, Exec!File
<1>4. Exec!SoFar
  <2>1. \A k \in Exec!Loads(prog) : ~(k <= 0)
    BY <1>1, ElfHeaders DEF Exec!Loads
  <2> QED BY <1>1, <2>1 DEF Exec!SoFar, Exec!Count
<1> QED BY <1>3, <1>4 DEF Exec!Inv

LEMMA ElfWithin ==
  ASSUME NEW a \in Nat, NEW f \in Nat, NEW u \in Nat, NEW t \in Nat, NEW x \in 0..(f - 1), a + f <= u, u <= t
  PROVE  a + x \in a..(u - 1) /\ a + x \in 0..(t - 1) /\ a + x < a + f
OBVIOUS

\* A step that writes nothing below the end of a segment that is in place, or only
\* from where a later one starts, leaves it in place.
LEMMA ElfStaysInPlace ==
  ASSUME Exec!ElfConstants, prog \in Programs, prog' = prog, DOMAIN mem = 0..(Top - 1), DOMAIN mem' = DOMAIN mem,
         NEW k \in Exec!Loads(prog), NEW n, NEW m, Exec!InPlace(k, n), prog.ph[k].filesz <= prog.ph[k].memsz,
         \A j \in Exec!Loads(prog) : j <= n => j <= m,
         \A x \in DOMAIN mem : (/\ x \in Exec!Cleared(Exec!Start(k), prog.ph[k]) /\ prog.ph[k].memsz > 0
                                /\ \/ x < Exec!Start(k) + prog.ph[k].filesz
                                   \/ \A j \in Exec!Loads(prog) : k < j /\ j <= m => x < Exec!Start(j)) => mem'[x] = mem[x]
  PROVE  Exec!InPlace(k, m)'
<1>1. /\ prog.ph[k] \in Exec!Header /\ Exec!Start(k) \in Nat /\ Exec!Start(k) + prog.ph[k].memsz <= Exec!Up(Exec!Start(k) + prog.ph[k].memsz)
      /\ Exec!Up(Exec!Start(k) + prog.ph[k].memsz) <= Top /\ Exec!Up(Exec!Start(k) + prog.ph[k].memsz) \in Nat /\ Top \in Nat
  BY ElfHeaders DEF Exec!Loads, Exec!ElfConstants
<1>2. \A j : Exec!Start(j)' = Exec!Start(j)
  BY DEF Exec!Start, Exec!prog_bias
<1>3. prog.ph[k].filesz \in Nat /\ prog.ph[k].memsz \in Nat
  BY <1>1 DEF Exec!Header
<1>4. ASSUME NEW x \in 0..(prog.ph[k].filesz - 1) PROVE mem'[Exec!Start(k) + x] = <<"program", prog.ph[k].off + x>>
  <2>1. prog.ph[k].memsz > 0
    BY <1>3
  <2>2. /\ Exec!Start(k) + x \in Exec!Cleared(Exec!Start(k), prog.ph[k]) /\ Exec!Start(k) + x \in DOMAIN mem
        /\ Exec!Start(k) + x < Exec!Start(k) + prog.ph[k].filesz
    <3> PICK a, u, f, z : /\ a = Exec!Start(k) /\ u = Exec!Up(Exec!Start(k) + prog.ph[k].memsz)
                          /\ f = prog.ph[k].filesz /\ z = prog.ph[k].memsz
      OBVIOUS
    <3>1. f \in Nat /\ f <= z /\ z \in Nat
      BY <1>3
    <3>2. a \in Nat /\ a + z <= u /\ u <= Top /\ u \in Nat /\ Top \in Nat
      BY <1>1
    <3>3. a \in Nat /\ f \in Nat /\ u \in Nat /\ x \in 0..(f - 1) /\ a + f <= u /\ u <= Top /\ Top \in Nat
      BY SMTT(60), <3>1, <3>2
    <3>4. a + x \in a..(u - 1) /\ a + x \in 0..(Top - 1) /\ a + x < a + f
      BY <3>3, ElfWithin
    <3> QED BY <3>4 DEF Exec!Cleared
  <2>3. mem[Exec!Start(k) + x] = <<"program", prog.ph[k].off + x>>
    BY DEF Exec!InPlace
  <2> QED BY <2>1, <2>2, <2>3
<1>5. ASSUME prog.ph[k].memsz > 0, NEW x \in (Exec!Start(k) + prog.ph[k].filesz)..(Exec!Up(Exec!Start(k) + prog.ph[k].memsz) - 1),
             \A j \in Exec!Loads(prog) : k < j /\ j <= m => x < Exec!Start(j)
      PROVE  mem'[x] = Exec!Zero
  <2>1. x \in Exec!Cleared(Exec!Start(k), prog.ph[k]) /\ x \in DOMAIN mem
    BY <1>1, <1>3 DEF Exec!Cleared
  <2>2. mem'[x] = mem[x]
    BY <2>1, <1>5
  <2>3. \A j \in Exec!Loads(prog) : k < j /\ j <= n => x < Exec!Start(j)
    BY <1>5
  <2>4. mem[x] = Exec!Zero
    BY <1>5, <2>3 DEF Exec!InPlace
  <2> QED BY <2>2, <2>4
<1> QED
  BY <1>2, <1>4, <1>5 DEF Exec!InPlace, Exec!Loads

\* load_bias, one segment of the program.
LEMMA ElfLoadInPlace ==
  ASSUME Exec!ElfConstants, Exec!Typed, Exec!Typed', Exec!SoFar, phase = "program", phase' = "program", prog' = prog, Exec!Proper(prog),
         NEW s \in DOMAIN prog.ph, s = seg + 1, seg' = seg + 1, Exec!Load(prog.ph[s]),
         NEW k \in Exec!Loads(prog), k <= s
  PROVE  Exec!InPlace(k, s)'
<1> DEFINE ph == prog.ph[s]
<1>1. /\ prog \in Programs /\ DOMAIN mem = 0..(Top - 1) /\ DOMAIN mem' = DOMAIN mem /\ seg \in Nat
      /\ Top \in Nat /\ Exec!Bias = Exec!prog_bias
  BY DEF Exec!Typed, Exec!TypeOK, Exec!ElfConstants, Exec!Bias
<1>2. \A j \in DOMAIN prog.ph :
         /\ prog.ph[j] \in Exec!Header /\ Exec!Start(j) \in Nat /\ j \in Nat
         /\ Exec!Up(Exec!Start(j) + prog.ph[j].memsz) \in Nat
         /\ Exec!Start(j) + prog.ph[j].memsz <= Exec!Up(Exec!Start(j) + prog.ph[j].memsz)
         /\ Exec!Up(Exec!Start(j) + prog.ph[j].memsz) <= Top
  BY <1>1, ElfHeaders
<1>3. \A j \in DOMAIN prog.ph : prog.ph[j].filesz \in Nat /\ prog.ph[j].memsz \in Nat /\ prog.ph[j].off \in Nat
  BY <1>2 DEF Exec!Header
<1>4. \A j \in Exec!Loads(prog) : j \in DOMAIN prog.ph /\ prog.ph[j].filesz <= prog.ph[j].memsz
  BY DEF Exec!Proper, Exec!Loads
<1>5. CASE s \in Exec!Loads(prog) /\ ph.memsz # 0
  <2>1. mem' = [x \in DOMAIN mem |->
                  IF x \in Exec!Start(s)..(Exec!Start(s) + ph.filesz - 1) THEN <<"program", ph.off + x - Exec!Start(s)>>
                  ELSE IF x \in Exec!Cleared(Exec!Start(s), ph) THEN Exec!Zero ELSE mem[x]]
    BY <1>1, <1>5 DEF Exec!Load, Exec!Start, Exec!Loads
  <2>2. CASE k < s
    <3>1. k <= seg /\ Exec!InPlace(k, seg)
      BY <1>1, <1>2, <1>4, <2>2 DEF Exec!SoFar, Exec!Count
    <3>2. Exec!Start(k) + prog.ph[k].memsz <= Exec!Start(s)
      <4>1. prog.ph[k].vaddr + prog.ph[k].memsz <= ph.vaddr
        BY <1>5, <2>2 DEF Exec!Proper
      <4>2. Exec!prog_bias \in Nat /\ prog.ph[k].vaddr \in Nat /\ ph.vaddr \in Nat /\ prog.ph[k].memsz \in Nat
        BY <1>2, <1>4, <1>5 DEF Exec!prog_bias, Exec!ElfConstants, Exec!Header
      <4> QED BY <4>1, <4>2 DEF Exec!Start
    <3>3. ASSUME NEW x \in DOMAIN mem,
                 \/ x < Exec!Start(k) + prog.ph[k].filesz
                 \/ \A j \in Exec!Loads(prog) : k < j /\ j <= s => x < Exec!Start(j)
          PROVE  mem'[x] = mem[x]
      <4>1. x < Exec!Start(s)
        BY <1>1, <1>2, <1>3, <1>4, <1>5, <2>2, <3>2, <3>3
      <4>2. x \notin Exec!Start(s)..(Exec!Start(s) + ph.filesz - 1) /\ x \notin Exec!Cleared(Exec!Start(s), ph)
        BY <1>1, <1>2, <4>1 DEF Exec!Cleared
      <4> QED BY <2>1, <4>2
    <3>4. \A j \in Exec!Loads(prog) : j <= seg => j <= s
      BY <1>1, <1>2, <1>4
    <3> QED BY <1>1, <1>4, <3>1, <3>3, <3>4, ElfStaysInPlace
  <2>3. CASE k = s
    <3> PICK a, u, f : a = Exec!Start(s) /\ u = Exec!Up(Exec!Start(s) + ph.memsz) /\ f = ph.filesz
      OBVIOUS
    <3>1. f \in Nat /\ f <= ph.memsz /\ ph.memsz \in Nat /\ ph.off \in Nat
      BY <1>3, <1>4, <1>5
    <3>2. a \in Nat /\ f \in Nat /\ u \in Nat /\ a + f <= u /\ u <= Top /\ Top \in Nat /\ ph.off \in Nat
      BY <1>1, <1>2, <3>1
    <3>3. ASSUME NEW x \in 0..(f - 1) PROVE mem'[a + x] = <<"program", ph.off + x>>
      <4>1. a + x \in 0..(Top - 1) /\ a + x \in a..(a + f - 1) /\ ph.off + (a + x) - a = ph.off + x
        BY <3>2
      <4> QED BY <1>1, <2>1, <4>1
    <3>4. ASSUME NEW x \in (a + f)..(u - 1) PROVE mem'[x] = Exec!Zero
      <4>1. x \in 0..(Top - 1) /\ x \notin a..(a + f - 1) /\ x \in a..(u - 1)
        BY <3>2
      <4> QED BY <1>1, <2>1, <4>1 DEF Exec!Cleared
    <3>5. Exec!Start(s)' = a
      BY DEF Exec!Start, Exec!prog_bias
    <3> QED BY <2>3, <3>3, <3>4, <3>5 DEF Exec!InPlace
  <2> QED BY <1>2, <1>4, <2>2, <2>3
<1>6. CASE ~(s \in Exec!Loads(prog) /\ ph.memsz # 0)
  <2>1. mem' = mem
    BY <1>3, <1>6 DEF Exec!Load, Exec!Loads
  <2>2. CASE k < s
    <3>1. k <= seg /\ Exec!InPlace(k, seg)
      BY <1>1, <1>2, <1>4, <2>2 DEF Exec!SoFar, Exec!Count
    <3>2. \A j \in Exec!Loads(prog) : j <= seg => j <= s
      BY <1>1, <1>2, <1>4
    <3> QED BY <1>1, <1>4, <2>1, <3>1, <3>2, ElfStaysInPlace
  <2>3. CASE k = s
    <3>1. ph.memsz = 0 /\ ph.filesz = 0
      BY <1>3, <1>4, <1>6, <2>3
    <3> QED BY <2>3, <3>1 DEF Exec!InPlace
  <2> QED BY <1>2, <1>4, <2>2, <2>3
<1> QED BY <1>5, <1>6

\* load_bias, one segment of the linker: it lies apart from those of the program.
LEMMA ElfLinkerApart ==
  ASSUME Exec!ElfConstants, Exec!Typed, Exec!Typed', Exec!SoFar, phase = "linker", phase' = "linker", prog' = prog, Exec!Proper(prog), Exec!Apart,
         NEW s \in DOMAIN Linker.ph, Exec!Load(Linker.ph[s]), NEW k \in Exec!Loads(prog)
  PROVE  Exec!InPlace(k, Len(prog.ph))'
<1> DEFINE ph == Linker.ph[s]
           a == ph.vaddr + INTERP_BASE
<1>1. /\ prog \in Programs /\ DOMAIN mem = 0..(Top - 1) /\ DOMAIN mem' = DOMAIN mem
      /\ Exec!Bias = INTERP_BASE /\ Exec!interp_path(prog)
  BY DEF Exec!Typed, Exec!Bias
<1>2. k \in DOMAIN prog.ph /\ prog.ph[k].filesz <= prog.ph[k].memsz
  BY DEF Exec!Proper, Exec!Loads
<1>3. Exec!InPlace(k, Len(prog.ph))
  BY <1>1, <1>2, ElfHeaders DEF Exec!SoFar, Exec!Count
<1>4. ph.filesz \in Nat /\ ph.memsz \in Nat /\ a \in Nat /\ a + ph.memsz <= Exec!Up(a + ph.memsz) /\ Exec!Up(a + ph.memsz) \in Nat
  <2>1. ph \in Exec!Header /\ a + ph.memsz <= Exec!Up(a + ph.memsz) /\ Exec!Up(a + ph.memsz) \in Nat /\ INTERP_BASE \in Nat
    BY ElfLinkerHeaders DEF Exec!ElfConstants
  <2> QED BY <2>1 DEF Exec!Header
<1>5. CASE s \in Exec!Filled(Linker)
  <2>1. ph.filesz <= ph.memsz
    BY <1>1, <1>5 DEF Exec!Apart
  <2>2. mem' = [x \in DOMAIN mem |->
                  IF x \in a..(a + ph.filesz - 1) THEN <<"linker", ph.off + x - a>>
                  ELSE IF x \in Exec!Cleared(a, ph) THEN Exec!Zero ELSE mem[x]]
    BY <1>1, <1>4, <1>5 DEF Exec!Load, Exec!Filled, Exec!Loads
  <2>3. ASSUME NEW x \in DOMAIN mem, x \in Exec!Cleared(Exec!Start(k), prog.ph[k]), prog.ph[k].memsz > 0
        PROVE  mem'[x] = mem[x]
    <3>1. x \notin Exec!Cleared(a, ph)
      BY <1>1, <1>5, <2>3 DEF Exec!Apart, Exec!Filled
    <3>2. a..(a + ph.filesz - 1) \subseteq Exec!Cleared(a, ph)
      BY <1>4, <2>1 DEF Exec!Cleared
    <3> QED BY <2>2, <3>1, <3>2
  <2> QED BY <1>1, <1>2, <1>3, <2>3, ElfStaysInPlace
<1>6. CASE s \notin Exec!Filled(Linker)
  <2>1. mem' = mem
    BY <1>4, <1>6 DEF Exec!Load, Exec!Filled, Exec!Loads
  <2> QED BY <1>1, <1>2, <1>3, <2>1, ElfStaysInPlace
<1> QED BY <1>5, <1>6

LEMMA ElfTypedStep ==
  ASSUME Exec!ElfConstants, Exec!Typed, Exec!Next PROVE Exec!Typed'
<1>1. /\ prog \in Programs /\ prog' = prog /\ DOMAIN mem = 0..(Top - 1) /\ seg \in Nat
      /\ phase # "panic" => seg <= Len(Exec!File.ph)
      /\ phase \in {"program", "linker"} => Exec!Bias \in Nat
      /\ \A x \in DOMAIN mem : mem[x] \in {Exec!Zero, Exec!Old} \cup ({"program", "linker"} \X Nat)
      /\ \A f \in {prog, Linker} : f.ph \in Seq(Exec!Header)
  BY DEF Exec!Typed, Exec!TypeOK, Exec!Next, Exec!Segment, Exec!Refuse, Exec!Loaded, Exec!ElfConstants, Exec!Bias, Exec!prog_bias
<1>2. CASE Exec!Segment
  <2> PICK ph : ph = Exec!File.ph[seg + 1]
    OBVIOUS
  <2>1. /\ phase \in {"program", "linker"} /\ seg + 1 \in 1..Len(Exec!File.ph) /\ Exec!File.ph \in Seq(Exec!Header) /\ Exec!Load(ph)
    BY <1>1, <1>2 DEF Exec!Segment, Exec!Loading, Exec!File
  <2>2. ph \in Exec!Header
    BY <2>1
  <2>3. ph.off \in Nat /\ ph.vaddr + Exec!Bias \in Nat /\ ph.filesz \in Nat
    <3>1. ph.off \in Nat /\ ph.vaddr \in Nat /\ ph.filesz \in Nat
      BY <2>2 DEF Exec!Header
    <3>2. Exec!Bias \in Nat
      BY <1>1, <2>1
    <3> QED BY <3>1, <3>2
  <2>4. DOMAIN mem' = DOMAIN mem
    BY <2>1 DEF Exec!Load
  <2>5. ASSUME NEW x \in DOMAIN mem PROVE mem'[x] \in {Exec!Zero, Exec!Old} \cup ({"program", "linker"} \X Nat)
    <3> PICK a : a = ph.vaddr + Exec!Bias
      OBVIOUS
    <3>1. x \in Nat /\ a \in Nat
      BY <1>1, <2>3, <2>5 DEF Exec!Typed, Exec!ElfConstants
    <3>2. \/ mem'[x] = mem[x]
          \/ mem'[x] = Exec!Zero
          \/ x \in a..(a + ph.filesz - 1) /\ mem'[x] = <<phase, ph.off + x - a>>
      BY <2>1, <2>5 DEF Exec!Load
    <3> PICK y : y = ph.off + x - a
      OBVIOUS
    <3>3. CASE x \in a..(a + ph.filesz - 1) /\ mem'[x] = <<phase, y>>
      <4>1. y \in Nat
        BY <2>3, <3>1, <3>3
      <4> QED BY <2>1, <3>3, <4>1
    <3> QED BY <1>1, <3>2, <3>3
  <2>6. \/ phase' = phase /\ seg' = seg + 1
        \/ phase' = "panic" /\ seg' = seg
    BY <2>1 DEF Exec!Load
  <2>7. phase' = phase => Exec!File' = Exec!File
    BY <1>1 DEF Exec!File
  <2> QED
    BY <1>1, <2>1, <2>4, <2>5, <2>6, <2>7 DEF Exec!Typed, Exec!TypeOK, Exec!interp_path, Exec!Interps, Exec!Seen, Exec!Whole
<1>3. CASE Exec!Refuse
  BY <1>1, <1>3 DEF Exec!Refuse, Exec!Typed, Exec!TypeOK
<1>4. CASE Exec!Loaded
  <2>1. seg' = 0 /\ mem' = mem /\ phase' \in {"linker", "ready"} /\ (phase' = "linker" => Exec!interp_path(prog))
    BY <1>4 DEF Exec!Loaded
  <2>2. Len(Linker.ph) \in Nat
    BY <1>1
  <2> QED
    BY <1>1, <2>1, <2>2 DEF Exec!Typed, Exec!TypeOK, Exec!File, Exec!interp_path, Exec!Interps, Exec!Seen, Exec!Whole
<1> QED BY <1>2, <1>3, <1>4 DEF Exec!Next

\* What was asked of the files stays so.
LEMMA ElfSameFiles ==
  ASSUME prog' = prog
  PROVE  Exec!Proper(prog)' = Exec!Proper(prog) /\ Exec!Apart' = Exec!Apart /\ Exec!Loads(prog)' = Exec!Loads(prog)
BY DEF Exec!Proper, Exec!Covering, Exec!Seen, Exec!Whole, Exec!Loads, Exec!Apart, Exec!interp_path, Exec!Interps, Exec!Filled, Exec!Cleared, Exec!Up, Exec!Start, Exec!prog_bias, Exec!is_dyn

LEMMA ElfSoFarStep ==
  ASSUME Exec!ElfConstants, Exec!Inv, [Exec!Next]_(Exec!vars), Exec!Typed' PROVE Exec!SoFar'
<1>1. Exec!Typed /\ Exec!SoFar /\ prog' = prog /\ prog \in Programs
  BY DEF Exec!Inv, Exec!Next, Exec!Segment, Exec!Refuse, Exec!Loaded, Exec!Typed, Exec!vars
<1> PICK n : n = Exec!Count'
  OBVIOUS
<1>2. SUFFICES ASSUME phase' # "panic", Exec!Proper(prog), phase' = "program" \/ Exec!Apart, NEW k \in Exec!Loads(prog), k <= n
      PROVE  Exec!InPlace(k, n)'
  <2>1. \A k : Exec!InPlace(k, n)' => Exec!InPlace(k, Exec!Count)'
    BY DEF Exec!InPlace
  <2> QED BY <1>1, <2>1, ElfSameFiles DEF Exec!SoFar
<1>3. /\ k \in DOMAIN prog.ph /\ k \in 1..Len(prog.ph) /\ Len(prog.ph) \in Nat
      /\ prog.ph[k].filesz <= prog.ph[k].memsz
  BY <1>1, <1>2, ElfHeaders DEF Exec!Loads, Exec!Proper
<1>4. ASSUME phase # "panic", phase = "program" \/ Exec!Apart, mem' = mem, Exec!Count = n PROVE Exec!InPlace(k, n)'
  <2>1. Exec!InPlace(k, n)
    BY <1>1, <1>2, <1>4 DEF Exec!SoFar
  <2> QED BY <1>1, <1>2, <1>3, <1>4, <2>1, ElfStaysInPlace DEF Exec!Typed
<1>5. CASE Exec!Segment /\ phase = "program"
  <2>1. seg + 1 \in DOMAIN prog.ph /\ Exec!Load(prog.ph[seg + 1]) /\ phase' = "program" /\ seg' = seg + 1
    <3>1. seg \in Nat /\ seg < Len(prog.ph) /\ Exec!Load(prog.ph[seg + 1]) /\ prog.ph \in Seq(Exec!Header)
      BY <1>1, <1>5 DEF Exec!Segment, Exec!File, Exec!Typed, Exec!TypeOK, Exec!ElfConstants
    <3> QED BY <1>2, <1>5, <3>1 DEF Exec!Load
  <2>2. n = seg + 1
    BY <2>1 DEF Exec!Count
  <2> QED BY <1>1, <1>2, <1>5, <2>1, <2>2, ElfLoadInPlace
<1>6. CASE Exec!Segment /\ phase = "linker"
  <2>1. seg + 1 \in DOMAIN Linker.ph /\ Exec!Load(Linker.ph[seg + 1]) /\ phase' = "linker"
    <3>1. seg \in Nat /\ seg < Len(Linker.ph) /\ Exec!Load(Linker.ph[seg + 1]) /\ Linker.ph \in Seq(Exec!Header)
      BY <1>1, <1>6 DEF Exec!Segment, Exec!File, Exec!Typed, Exec!TypeOK, Exec!ElfConstants
    <3> QED BY <1>2, <1>6, <3>1 DEF Exec!Load
  <2>2. n = Len(prog.ph) /\ Exec!Apart
    BY <1>1, <1>2, <2>1 DEF Exec!Count
  <2> QED BY <1>1, <1>2, <1>6, <2>1, <2>2, ElfLinkerApart
<1>7. CASE Exec!Loaded
  <2>1. /\ phase \in {"program", "linker"} /\ phase' \in {"linker", "ready"} /\ mem' = mem
        /\ phase = "program" => seg = Len(prog.ph)
    BY <1>7 DEF Exec!Loaded, Exec!Loading, Exec!File
  <2> QED BY <1>1, <1>2, <1>4, <2>1 DEF Exec!Count
<1>8. CASE Exec!Refuse
  BY <1>2, <1>8 DEF Exec!Refuse
<1>9. CASE UNCHANGED Exec!vars
  BY <1>2, <1>4, <1>9 DEF Exec!vars, Exec!Count
<1> QED BY <1>5, <1>6, <1>7, <1>8, <1>9 DEF Exec!Next, Exec!Segment, Exec!Loading

LEMMA ElfStepHolds ==
  ASSUME Exec!ElfConstants, Exec!Inv, [Exec!Next]_(Exec!vars) PROVE Exec!Inv'
<1>1. Exec!Typed'
  <2>1. CASE UNCHANGED Exec!vars
    BY <2>1 DEF Exec!vars, Exec!Inv, Exec!Typed, Exec!TypeOK, Exec!File, Exec!interp_path, Exec!Interps, Exec!Seen, Exec!Whole
  <2> QED BY <2>1, ElfTypedStep DEF Exec!Inv
<1> QED BY <1>1, ElfSoFarStep DEF Exec!Inv

\* A table of headers within what the file has of a segment, in numbers.
Held(v, o, p, b, l, f) == {v, o, p, b, l, f} \subseteq Nat /\ p >= o /\ p + l <= o + f
Bytes(m, v, b, o, f) == \A y \in 0..(f - 1) : m[v + b + y] = <<"program", o + y>>
Table(m, v, b, o, p, l) == \A x \in 0..(l - 1) : m[v + p - o + b + x] = <<"program", p + x>>
LEMMA ElfTableThere ==
  ASSUME NEW v, NEW o, NEW p, NEW b, NEW l, NEW f, NEW m, Held(v, o, p, b, l, f), Bytes(m, v, b, o, f)
  PROVE  Table(m, v, b, o, p, l)
<1> USE DEF Held, Bytes, Table
<1> SUFFICES ASSUME NEW x \in 0..(l - 1) PROVE m[v + p - o + b + x] = <<"program", p + x>>
  OBVIOUS
<1>1. x \in Nat /\ x + 1 <= l
  OBVIOUS
<1>2. PICK y : y = p - o + x
  OBVIOUS
<1>3. y \in 0..(f - 1) /\ o + y = p + x
  BY <1>1, <1>2
<1>4. v + p - o + b + x = v + b + y
  BY <1>1, <1>2
<1> QED BY <1>3, <1>4

\* The headers are in the segment that covers them.
LEMMA ElfEnteredRight ==
  ASSUME Exec!ElfConstants, Exec!Inv, Exec!Covering(prog) # {} => Exec!Min(Exec!Covering(prog)) \in Exec!Covering(prog)
  PROVE  Exec!ImageRight
<1> SUFFICES ASSUME phase = "ready", Exec!Proper(prog), Exec!Apart
             PROVE  /\ \A k \in Exec!Loads(prog) : Exec!InPlace(k, Len(prog.ph))
                    /\ Exec!phdr_info(prog) # -1 =>
                         \A x \in 0..(Len(prog.ph) - 1) : mem[Exec!AT_PHDR + x] = <<"program", prog.phoff + x>>
  BY DEF Exec!ImageRight
<1>1. prog \in Programs /\ \A k \in Exec!Loads(prog) : k <= Len(prog.ph)
  BY ElfHeaders DEF Exec!Inv, Exec!Typed, Exec!Loads
<1>2. \A k \in Exec!Loads(prog) : Exec!InPlace(k, Len(prog.ph))
  BY <1>1 DEF Exec!Inv, Exec!SoFar, Exec!Count
<1>3. ASSUME Exec!phdr_info(prog) # -1
      PROVE  \A x \in 0..(Len(prog.ph) - 1) : mem[Exec!AT_PHDR + x] = <<"program", prog.phoff + x>>
  <2> PICK k : k = Exec!Min(Exec!Covering(prog))
    OBVIOUS
  <2> PICK ph : ph = prog.ph[k]
    OBVIOUS
  <2>1. k \in Exec!Covering(prog) /\ Exec!AT_PHDR = ph.vaddr + prog.phoff - ph.off + Exec!prog_bias
    BY <1>3 DEF Exec!phdr_info, Exec!AT_PHDR
  <2>2. k \in Exec!Loads(prog) /\ prog.phoff >= ph.off /\ prog.phoff + Len(prog.ph) <= ph.off + ph.filesz
    BY <2>1 DEF Exec!Covering, Exec!Loads, Exec!Seen, Exec!Proper
  <2>3. /\ ph.off \in Nat /\ ph.filesz \in Nat /\ ph.vaddr \in Nat /\ prog.phoff \in Nat /\ Exec!prog_bias \in Nat
        /\ Len(prog.ph) \in Nat
    <3>1. ph \in Exec!Header /\ Len(prog.ph) \in Nat
      BY <1>1, <2>2, ElfHeaders DEF Exec!Loads
    <3>2. prog.phoff \in Nat /\ Exec!prog_bias \in Nat
      BY <1>1 DEF Exec!ElfConstants, Exec!prog_bias
    <3> QED BY <3>1, <3>2 DEF Exec!Header
  <2>4. Bytes(mem, ph.vaddr, Exec!prog_bias, ph.off, ph.filesz)
    BY <1>2, <2>2 DEF Exec!InPlace, Exec!Start, Bytes
  <2>5. Held(ph.vaddr, ph.off, prog.phoff, Exec!prog_bias, Len(prog.ph), ph.filesz)
    BY <2>2, <2>3 DEF Held
  <2>6. Table(mem, ph.vaddr, Exec!prog_bias, ph.off, prog.phoff, Len(prog.ph))
    BY <2>4, <2>5, ElfTableThere
  <2> QED BY <2>1, <2>6 DEF Table
<1> QED BY <1>2, <1>3

(***************************************************************************)
(* The descriptors of a Linux program, for any files and any number of slots. *)
(***************************************************************************)
\* A set of numbers has a least one.
NatOrdered == \A S \in SUBSET Nat : S # {} => \E x \in S : \A y \in S : x <= y

LEMMA LinuxInit == Linux!LinuxConstants /\ Linux!Init => Linux!LinuxInv
<1> SUFFICES ASSUME Linux!LinuxConstants, Linux!Init PROVE Linux!LinuxInv
  OBVIOUS
<1> USE DEF Linux!Init, Linux!LinuxConstants
<1>1. Linux!Fds = {} /\ held \in [{} -> [file : Files, pos : Nat, names : Nat \ {0}]]
  BY DEF Linux!Fds
<1>2. Linux!TypeOK
  BY DEF Linux!TypeOK, Linux!Free
<1>3. Linux!DescriptorsKept
  BY <1>1 DEF Linux!DescriptorsKept, Linux!Free
<1> QED BY <1>1, <1>2, <1>3 DEF Linux!LinuxInv, Linux!SlotsWithin, Linux!HeldWithin, Linux!Free

\* The first free slot is free.
LEMMA LinuxFreeSlot ==
  ASSUME NatOrdered, Linux!LinuxConstants, NEW S \in SUBSET Linux!Slots, S # {}
  PROVE  Linux!Min(S) \in S
<1>1. S \in SUBSET Nat
  BY DEF Linux!Slots, Linux!LinuxConstants
<1>2. \E x \in S : \A y \in S : x <= y
  BY <1>1 DEF NatOrdered
<1> QED BY <1>2 DEF Linux!Min

\* What a call may do to the tables: to a slot, to a descriptor.
LinuxKept == /\ FDS \in [Linux!Slots -> [used : BOOLEAN, file : Files \cup {Absent}, off : Nat]]
             /\ Linux!SlotsWithin /\ Linux!HeldWithin
             /\ \A fd \in Linux!Fds \ broken : /\ Linux!Open(fd) /\ Linux!Slot(fd).file = held[fd].file
                                               /\ Linux!Slot(fd).off = Linux!Least(held[fd].pos, SizeOf[held[fd].file])
             /\ \A i \in Linux!Slots : FDS[i].used => Linux!FD_BASE + i \in Linux!Fds

LEMMA LinuxOpens ==
  ASSUME NatOrdered, Linux!LinuxConstants, LinuxKept, NEW path \in Files \cup {Absent}, Linux!openat(path)
  PROVE  LinuxKept'
<1> DEFINE free == {i \in Linux!Slots : ~FDS[i].used}
           n == Linux!Min(free)
           fd == Linux!FD_BASE + n
           new == [used |-> TRUE, file |-> path, off |-> 0]
           shape == [file |-> path, pos |-> 0, names |-> 1]
<1>1. CASE path = Absent \/ free = {}
  <2>1. UNCHANGED <<FDS, held, broken>>
    BY <1>1 DEF Linux!openat
  <2> QED BY <2>1 DEF LinuxKept, Linux!SlotsWithin, Linux!HeldWithin, Linux!Fds, Linux!Open, Linux!Slot, Linux!Slots
<1>2. CASE path # Absent /\ free # {}
  <2>1. n \in Linux!Slots /\ ~FDS[n].used
    BY <1>2, LinuxFreeSlot
  <2>2. /\ FDS' = [FDS EXCEPT ![n] = new]
        /\ held' = [d \in DOMAIN held \cup {fd} |-> IF d = fd THEN shape ELSE held[d]]
        /\ broken' = broken \ {fd}
    BY <1>2 DEF Linux!openat
  <2>3. path \in Files /\ new \in [used : BOOLEAN, file : Files \cup {Absent}, off : Nat]
        /\ shape \in [file : Files, pos : Nat, names : Nat \ {0}]
        /\ new.used /\ new.file = path /\ new.off = 0 /\ shape.file = path /\ shape.pos = 0
    BY <1>2
  <2>4. fd \in Int /\ fd - Linux!FD_BASE = n /\ Linux!Slots \subseteq Int
        /\ \A i \in Linux!Slots : Linux!FD_BASE + i = fd => i = n
    <3> HIDE DEF n, free
    <3> QED BY <2>1 DEF Linux!FD_BASE, Linux!Slots, Linux!LinuxConstants
  <2>5. SizeOf[path] \in Nat
    BY <2>3 DEF Linux!LinuxConstants
  <2>6. /\ FDS' \in [Linux!Slots -> [used : BOOLEAN, file : Files \cup {Absent}, off : Nat]]
        /\ FDS'[n] = new /\ \A i \in Linux!Slots \ {n} : FDS'[i] = FDS[i]
    BY <2>1, <2>2, <2>3 DEF LinuxKept
  <2>7. /\ DOMAIN held' = DOMAIN held \cup {fd} /\ held'[fd] = shape
        /\ \A d \in DOMAIN held \ {fd} : held'[d] = held[d]
    BY <2>2
  <2>8. held' \in [Linux!Fds' -> [file : Files, pos : Nat, names : Nat \ {0}]]
    <3> DEFINE R == [file : Files, pos : Nat, names : Nat \ {0}]
    <3>1. \A d \in DOMAIN held : held[d] \in R
      BY DEF LinuxKept, Linux!HeldWithin, Linux!Fds
    <3>2. shape \in R
      BY <2>3
    <3> HIDE DEF R, shape, fd
    <3>3. held' \in [DOMAIN held \cup {fd} -> R]
      BY <2>2, <3>1, <3>2
    <3> QED BY <2>7, <3>3 DEF R, Linux!Fds
  <2>9. Linux!Slots' = Linux!Slots /\ Linux!FD_BASE' = Linux!FD_BASE /\ Linux!Fds' = Linux!Fds \cup {fd}
    BY <2>7 DEF Linux!Slots, Linux!FD_BASE, Linux!Fds
  <2> HIDE DEF n, fd, new, shape, free
  <2>10. Linux!SlotsWithin'
    BY <2>3, <2>5, <2>6, <2>9 DEF LinuxKept, Linux!SlotsWithin
  <2>11. Linux!HeldWithin'
    BY <2>1, <2>4, <2>8, <2>9 DEF LinuxKept, Linux!HeldWithin
  <2>12. \A d \in Linux!Fds' \ broken' : /\ Linux!Open(d)' /\ Linux!Slot(d)'.file = held'[d].file
                                         /\ Linux!Slot(d)'.off = Linux!Least(held'[d].pos, SizeOf[held'[d].file])
    <3> SUFFICES ASSUME NEW d \in Linux!Fds' \ broken'
                 PROVE  /\ d - Linux!FD_BASE \in Linux!Slots /\ FDS'[d - Linux!FD_BASE].used
                        /\ FDS'[d - Linux!FD_BASE].file = held'[d].file
                        /\ FDS'[d - Linux!FD_BASE].off = Linux!Least(held'[d].pos, SizeOf[held'[d].file])
      BY <2>9 DEF Linux!Open, Linux!Slot
    <3>1. CASE d = fd
      <4>1. held'[d].pos = 0 /\ held'[d].file = path /\ Linux!Least(0, SizeOf[path]) = 0
        BY <2>3, <2>5, <2>7, <3>1 DEF Linux!Least
      <4> QED BY <2>1, <2>3, <2>4, <2>6, <3>1, <4>1
    <3>2. CASE d # fd
      <4>1. d \in Linux!Fds \ broken /\ held'[d] = held[d]
        BY <2>2, <2>7, <2>9, <3>2 DEF Linux!Fds
      <4>2. /\ d - Linux!FD_BASE \in Linux!Slots /\ FDS[d - Linux!FD_BASE].used
            /\ FDS[d - Linux!FD_BASE].file = held[d].file
            /\ FDS[d - Linux!FD_BASE].off = Linux!Least(held[d].pos, SizeOf[held[d].file])
        BY <4>1 DEF LinuxKept, Linux!Open, Linux!Slot
      <4>3. d - Linux!FD_BASE # n
        BY <2>1, <4>2
      <4> QED BY <2>6, <4>1, <4>2, <4>3
    <3> QED BY <3>1, <3>2
  <2>13. \A i \in Linux!Slots' : FDS'[i].used => Linux!FD_BASE' + i \in Linux!Fds'
    <3> TAKE i \in Linux!Slots'
    <3>1. CASE i = n
      BY <2>9, <3>1 DEF fd
    <3>2. CASE i # n
      BY <2>6, <2>9, <3>2 DEF LinuxKept
    <3> QED BY <3>1, <3>2
  <2> QED BY <2>6, <2>9, <2>10, <2>11, <2>12, <2>13 DEF LinuxKept
<1> QED BY <1>1, <1>2

\* A descriptor moves: the code's place in the file and the one that is promised.
LEMMA LinuxMoves ==
  ASSUME Linux!LinuxConstants, LinuxKept, NEW fd \in Linux!Fds, NEW o, NEW p \in Nat,
         IF Linux!Open(fd) THEN /\ FDS' = [FDS EXCEPT ![fd - Linux!FD_BASE].off = o]
                                /\ o \in Nat /\ o <= SizeOf[Linux!Slot(fd).file]
                           ELSE FDS' = FDS,
         held' = [held EXCEPT ![fd].pos = p],
         broken \subseteq broken', fd \notin broken' => o = Linux!Least(p, SizeOf[held[fd].file])
  PROVE  LinuxKept'
<1> DEFINE n == fd - Linux!FD_BASE
           shape == [held[fd] EXCEPT !.pos = p]
<1> PICK R : R = [used : BOOLEAN, file : Files \cup {Absent}, off : Nat]
  OBVIOUS
<1> PICK H : H = [file : Files, pos : Nat, names : Nat \ {0}]
  OBVIOUS
<1>1. n \in Linux!Slots /\ fd \in Int /\ held[fd] \in H /\ held \in [Linux!Fds -> H] /\ FDS \in [Linux!Slots -> R]
  BY DEF LinuxKept, Linux!HeldWithin
<1>2. shape \in H /\ shape.pos = p /\ shape.file = held[fd].file
  BY <1>1
<1>3. /\ held' \in [Linux!Fds -> H] /\ held'[fd] = shape /\ \A d \in Linux!Fds \ {fd} : held'[d] = held[d]
      /\ Linux!Fds' = Linux!Fds
  <2>1. held' = [held EXCEPT ![fd] = shape]
    OBVIOUS
  <2> HIDE DEF shape
  <2>2. held' \in [Linux!Fds -> H] /\ held'[fd] = shape /\ \A d \in Linux!Fds \ {fd} : held'[d] = held[d]
    BY <1>1, <1>2, <2>1
  <2> QED BY <2>2 DEF Linux!Fds
<1>4. /\ FDS' \in [Linux!Slots -> R]
      /\ \A i \in Linux!Slots : FDS'[i].used = FDS[i].used /\ FDS'[i].file = FDS[i].file
      /\ \A i \in Linux!Slots \ {n} : FDS'[i] = FDS[i]
      /\ FDS[n].used => FDS'[n].off = o /\ o \in Nat /\ o <= SizeOf[FDS[n].file]
      /\ ~FDS[n].used => FDS'[n] = FDS[n]
  <2>1. CASE Linux!Open(fd)
    <3>1. /\ FDS' = [FDS EXCEPT ![n] = [FDS[n] EXCEPT !.off = o]]
          /\ o \in Nat /\ o <= SizeOf[FDS[n].file] /\ FDS[n].used
      BY <2>1 DEF Linux!Open, Linux!Slot
    <3>2. [FDS[n] EXCEPT !.off = o] \in R
      BY <1>1, <3>1
    <3>3. /\ [FDS[n] EXCEPT !.off = o].used = FDS[n].used /\ [FDS[n] EXCEPT !.off = o].file = FDS[n].file
          /\ [FDS[n] EXCEPT !.off = o].off = o
      BY <1>1
    <3> HIDE DEF n
    <3> QED BY <1>1, <3>1, <3>2, <3>3
  <2>2. CASE ~Linux!Open(fd)
    <3>1. FDS' = FDS /\ ~FDS[n].used
      BY <1>1, <2>2 DEF Linux!Open
    <3> QED BY <1>1, <3>1
  <2> QED BY <2>1, <2>2
<1>5. Linux!Slots' = Linux!Slots /\ Linux!FD_BASE' = Linux!FD_BASE
  BY DEF Linux!Slots, Linux!FD_BASE
<1> HIDE DEF n, shape
<1>6. Linux!SlotsWithin'
  BY <1>4, <1>5 DEF LinuxKept, Linux!SlotsWithin
<1>7. Linux!HeldWithin'
  BY <1>3, <1>5 DEF LinuxKept, Linux!HeldWithin
<1>8. ASSUME NEW d \in Linux!Fds' \ broken'
      PROVE  Linux!Open(d)' /\ Linux!Slot(d)'.file = held'[d].file /\ Linux!Slot(d)'.off = Linux!Least(held'[d].pos, SizeOf[held'[d].file])
  <2> PICK k : k = d - Linux!FD_BASE
    OBVIOUS
  <2>1. /\ d \in Linux!Fds \ broken /\ k \in Linux!Slots /\ FDS[k].used
        /\ FDS[k].file = held[d].file /\ FDS[k].off = Linux!Least(held[d].pos, SizeOf[held[d].file])
    BY <1>3, <1>8 DEF LinuxKept, Linux!Open, Linux!Slot
  <2>2. /\ k \in Linux!Slots /\ FDS'[k].used /\ FDS'[k].file = held'[d].file
        /\ FDS'[k].off = Linux!Least(held'[d].pos, SizeOf[held'[d].file])
    <3>1. CASE d = fd
      BY <1>2, <1>3, <1>4, <1>8, <2>1, <3>1 DEF n
    <3>2. CASE d # fd
      <4>1. k # n
        <5>1. d \in Int /\ fd \in Int
          BY <1>1, <2>1 DEF LinuxKept, Linux!HeldWithin
        <5> QED BY <3>2, <5>1 DEF n, Linux!FD_BASE
      <4> QED BY <1>3, <1>4, <2>1, <3>2, <4>1
    <3> QED BY <3>1, <3>2
  <2> QED BY <1>5, <2>2 DEF Linux!Open, Linux!Slot
<1>9. \A i \in Linux!Slots' : FDS'[i].used => Linux!FD_BASE' + i \in Linux!Fds'
  BY <1>3, <1>4, <1>5 DEF LinuxKept
<1> QED BY <1>4, <1>5, <1>6, <1>7, <1>8, <1>9 DEF LinuxKept

LEMMA LinuxReads ==
  ASSUME Linux!LinuxConstants, LinuxKept, NEW fd \in Linux!Fds, NEW n \in Lens, Linux!read(fd, n)
  PROVE  LinuxKept'
<1> PICK k : k = fd - Linux!FD_BASE
  OBVIOUS
<1> PICK size : size = SizeOf[held[fd].file]
  OBVIOUS
<1> DEFINE p == held[fd].pos + Linux!Most(0, Linux!Least(n, size - held[fd].pos))
           o == FDS[k].off + Linux!Least(n, SizeOf[FDS[k].file] - FDS[k].off)
<1>1. k \in Linux!Slots /\ held[fd].pos \in Nat /\ size \in Nat /\ n \in Nat
  BY DEF LinuxKept, Linux!HeldWithin, Linux!LinuxConstants
<1>2. p \in Nat
  BY <1>1 DEF Linux!Most, Linux!Least
<1>3. /\ held' = [held EXCEPT ![fd].pos = p] /\ broken' = broken
      /\ IF Linux!Open(fd) THEN FDS' = [FDS EXCEPT ![k].off = o] ELSE FDS' = FDS
  BY DEF Linux!read, Linux!Slot
<1>4. FDS[k].used => /\ FDS[k].off \in Nat /\ SizeOf[FDS[k].file] \in Nat
                     /\ FDS[k].off <= SizeOf[FDS[k].file]
  BY <1>1 DEF LinuxKept, Linux!SlotsWithin, Linux!LinuxConstants
<1>5. FDS[k].used => o \in Nat /\ o <= SizeOf[FDS[k].file]
  BY <1>1, <1>4 DEF Linux!Least
<1>6. fd \notin broken => o = Linux!Least(p, size)
  <2>1. fd \notin broken => FDS[k].used /\ FDS[k].file = held[fd].file /\ FDS[k].off = Linux!Least(held[fd].pos, size)
    BY DEF LinuxKept, Linux!Open, Linux!Slot
  <2> PICK pos \in Nat : pos = held[fd].pos
    BY <1>1
  <2>2. p = pos + Linux!Most(0, Linux!Least(n, size - pos))
    OBVIOUS
  <2>3. fd \notin broken => o = Linux!Least(pos, size) + Linux!Least(n, size - Linux!Least(pos, size))
    BY <2>1
  <2> HIDE DEF o, p
  <2> QED BY <1>1, <2>2, <2>3 DEF Linux!Least, Linux!Most
<1> HIDE DEF o, p
<1> QED BY <1>2, <1>3, <1>5, <1>6, LinuxMoves DEF Linux!Open, Linux!Slot

LEMMA LinuxSeeks ==
  ASSUME Linux!LinuxConstants, LinuxKept, NEW fd \in Linux!Fds, NEW off \in Seeks, NEW whence \in {"set", "cur", "end"},
         Linux!lseek(fd, off, whence)
  PROVE  LinuxKept'
<1> PICK k : k = fd - Linux!FD_BASE
  OBVIOUS
<1> PICK size : size = SizeOf[FDS[k].file]
  OBVIOUS
<1> PICK sizeHeld : sizeHeld = SizeOf[held[fd].file]
  OBVIOUS
<1> DEFINE to == (CASE whence = "set" -> 0 [] whence = "cur" -> FDS[k].off [] whence = "end" -> size) + off
           posix == (CASE whence = "set" -> 0 [] whence = "cur" -> held[fd].pos [] whence = "end" -> sizeHeld) + off
           o == IF to < 0 THEN size ELSE Linux!Least(to, size)
           p == IF posix < 0 THEN held[fd].pos ELSE posix
<1>1. k \in Linux!Slots /\ held[fd].pos \in Nat /\ sizeHeld \in Nat /\ off \in Int
  BY DEF LinuxKept, Linux!HeldWithin, Linux!LinuxConstants
<1>2. posix \in Int /\ p \in Nat
  <2>1. posix \in Int
    BY <1>1
  <2> HIDE DEF posix
  <2> QED BY <1>1, <2>1 DEF Linux!Least
<1>3. /\ held' = [held EXCEPT ![fd].pos = p]
      /\ broken' = (IF posix < 0 \/ (whence = "cur" /\ held[fd].pos > sizeHeld) THEN broken \cup {fd} ELSE broken)
      /\ IF Linux!Open(fd) THEN FDS' = [FDS EXCEPT ![k].off = o] ELSE FDS' = FDS
  BY DEF Linux!lseek, Linux!Slot
<1>4. FDS[k].used => FDS[k].off \in Nat /\ size \in Nat
  BY <1>1 DEF LinuxKept, Linux!SlotsWithin, Linux!LinuxConstants
<1>5. FDS[k].used => o \in Nat /\ o <= size
  <2>1. FDS[k].used => to \in Int /\ size \in Nat
    BY <1>1, <1>4
  <2> HIDE DEF to
  <2> QED BY <2>1 DEF Linux!Least
<1>6. fd \notin broken' => o = Linux!Least(p, sizeHeld)
  <2> SUFFICES ASSUME fd \notin broken' PROVE o = Linux!Least(p, sizeHeld)
    OBVIOUS
  <2>1. fd \notin broken /\ ~(posix < 0) /\ ~(whence = "cur" /\ held[fd].pos > sizeHeld)
    BY <1>3
  <2>2. /\ FDS[k].used /\ FDS[k].file = held[fd].file
        /\ FDS[k].off = Linux!Least(held[fd].pos, SizeOf[held[fd].file])
    BY <2>1 DEF LinuxKept, Linux!Open, Linux!Slot
  <2>3. to = posix /\ size = sizeHeld
    <3>1. whence = "cur" => FDS[k].off = held[fd].pos
      BY <1>1, <2>1, <2>2 DEF Linux!Least
    <3> QED BY <2>2, <3>1
  <2> HIDE DEF to, posix
  <2> QED BY <2>1, <2>3
<1>7. broken \subseteq broken'
  BY <1>3
<1> HIDE DEF o, p, to, posix
<1> QED BY <1>2, <1>3, <1>5, <1>6, <1>7, LinuxMoves DEF Linux!Open, Linux!Slot

\* A copy is made of a descriptor, or one is closed.
LEMMA LinuxCopies ==
  ASSUME LinuxKept, NEW fd \in Linux!Fds, Linux!dup(fd)
  PROVE  LinuxKept'
<1> PICK H : H = [file : Files, pos : Nat, names : Nat \ {0}]
  OBVIOUS
<1> DEFINE shape == [held[fd] EXCEPT !.names = @ + 1]
<1>1. held[fd] \in H /\ held \in [Linux!Fds -> H]
  BY DEF LinuxKept, Linux!HeldWithin
<1>2. shape \in H /\ shape.pos = held[fd].pos /\ shape.file = held[fd].file
  <2>1. held[fd].names + 1 \in Nat \ {0}
    BY <1>1
  <2> QED BY <1>1, <2>1
<1>3. held' = [held EXCEPT ![fd] = shape] /\ FDS' = FDS /\ broken' = broken
  BY DEF Linux!dup
<1> HIDE DEF shape
<1>4. /\ held' \in [Linux!Fds -> H] /\ Linux!Fds' = Linux!Fds
      /\ \A d \in Linux!Fds : held'[d].pos = held[d].pos /\ held'[d].file = held[d].file
  BY <1>1, <1>2, <1>3 DEF Linux!Fds
<1>5. Linux!Slots' = Linux!Slots /\ Linux!FD_BASE' = Linux!FD_BASE
  BY DEF Linux!Slots, Linux!FD_BASE
<1>6. Linux!SlotsWithin' /\ Linux!HeldWithin'
  BY <1>3, <1>4, <1>5 DEF LinuxKept, Linux!SlotsWithin, Linux!HeldWithin
<1> QED BY <1>3, <1>4, <1>5, <1>6 DEF LinuxKept, Linux!Open, Linux!Slot

LEMMA LinuxCloses ==
  ASSUME Linux!LinuxConstants, LinuxKept, NEW fd \in Linux!Fds, Linux!close(fd)
  PROVE  LinuxKept'
<1> PICK R : R = [used : BOOLEAN, file : Files \cup {Absent}, off : Nat]
  OBVIOUS
<1> PICK H : H = [file : Files, pos : Nat, names : Nat \ {0}]
  OBVIOUS
<1> PICK n : n = fd - Linux!FD_BASE
  OBVIOUS
<1>1. n \in Linux!Slots /\ fd \in Int /\ held[fd] \in H /\ held \in [Linux!Fds -> H] /\ FDS \in [Linux!Slots -> R]
  BY DEF LinuxKept, Linux!HeldWithin
<1>2. /\ FDS' \in [Linux!Slots -> R] /\ \A i \in Linux!Slots \ {n} : FDS'[i] = FDS[i]
      /\ ~FDS'[n].used
  <2>1. CASE Linux!Open(fd)
    <3>1. FDS' = [FDS EXCEPT ![n] = [FDS[n] EXCEPT !.used = FALSE]]
      BY <2>1 DEF Linux!close
    <3>2. [FDS[n] EXCEPT !.used = FALSE] \in R /\ ~[FDS[n] EXCEPT !.used = FALSE].used
      BY <1>1
    <3> QED BY <1>1, <3>1, <3>2
  <2>2. CASE ~Linux!Open(fd)
    <3>1. FDS' = FDS /\ ~FDS[n].used
      BY <1>1, <2>2 DEF Linux!Open, Linux!close
    <3> QED BY <1>1, <3>1
  <2> QED BY <2>1, <2>2
<1>3. /\ \A d \in Linux!Fds \ {fd} : d \in Linux!Fds' /\ held'[d] = held[d] /\ (d \in broken' <=> d \in broken)
      /\ Linux!Fds' \subseteq Linux!Fds /\ (fd \in Linux!Fds' => fd \in broken')
      /\ held' \in [Linux!Fds' -> H]
  <2>1. CASE held[fd].names = 1
    <3>1. held' = [d \in DOMAIN held \ {fd} |-> held[d]] /\ broken' = broken \ {fd}
      BY <2>1 DEF Linux!close, Linux!Restrict
    <3> QED BY <1>1, <3>1 DEF Linux!Fds
  <2>2. CASE held[fd].names # 1
    <3> DEFINE shape == [held[fd] EXCEPT !.names = @ - 1]
    <3>1. held' = [held EXCEPT ![fd] = shape] /\ broken' = broken \cup {fd}
      BY <2>2 DEF Linux!close
    <3>2. held[fd].names - 1 \in Nat \ {0}
      BY <1>1, <2>2
    <3>3. shape \in H
      BY <1>1, <3>2
    <3> HIDE DEF shape
    <3> QED BY <1>1, <3>1, <3>3 DEF Linux!Fds
  <2> QED BY <2>1, <2>2
<1>4. Linux!Slots' = Linux!Slots /\ Linux!FD_BASE' = Linux!FD_BASE
  BY DEF Linux!Slots, Linux!FD_BASE
<1>5. Linux!SlotsWithin'
  BY <1>2, <1>4 DEF LinuxKept, Linux!SlotsWithin
<1>6. Linux!HeldWithin'
  BY <1>3, <1>4 DEF LinuxKept, Linux!HeldWithin
<1>7. ASSUME NEW d \in Linux!Fds' \ broken'
      PROVE  Linux!Open(d)' /\ Linux!Slot(d)'.file = held'[d].file /\ Linux!Slot(d)'.off = Linux!Least(held'[d].pos, SizeOf[held'[d].file])
  <2> PICK k : k = d - Linux!FD_BASE
    OBVIOUS
  <2>1. d # fd /\ d \in Linux!Fds \ broken /\ held'[d] = held[d]
    BY <1>3, <1>7
  <2>2. /\ k \in Linux!Slots /\ FDS[k].used /\ FDS[k].file = held[d].file
        /\ FDS[k].off = Linux!Least(held[d].pos, SizeOf[held[d].file])
    BY <2>1 DEF LinuxKept, Linux!Open, Linux!Slot
  <2>3. k # n
    <3>1. d \in Int
      BY <2>1 DEF LinuxKept, Linux!HeldWithin
    <3> QED BY <1>1, <2>1, <3>1 DEF Linux!FD_BASE
  <2>4. FDS'[k] = FDS[k]
    BY <1>2, <2>2, <2>3
  <2> QED BY <1>4, <2>1, <2>2, <2>4 DEF Linux!Open, Linux!Slot
<1>8. \A i \in Linux!Slots' : FDS'[i].used => Linux!FD_BASE' + i \in Linux!Fds'
  <2> SUFFICES ASSUME NEW i \in Linux!Slots, FDS'[i].used PROVE Linux!FD_BASE + i \in Linux!Fds'
    BY <1>4
  <2>1. i # n /\ FDS[i].used /\ i \in Int
    BY <1>2 DEF Linux!Slots
  <2>2. Linux!FD_BASE + i \in Linux!Fds /\ Linux!FD_BASE + i # fd
    BY <1>1, <2>1 DEF LinuxKept, Linux!FD_BASE
  <2> QED BY <1>3, <2>2
<1> QED BY <1>2, <1>4, <1>5, <1>6, <1>7, <1>8 DEF LinuxKept

\* The calls that keep to the tables; who runs, and what it leaves behind.
LEMMA LinuxStutters ==
  ASSUME LinuxKept, UNCHANGED <<FDS, held, broken>>
  PROVE  LinuxKept'
BY DEF LinuxKept, Linux!SlotsWithin, Linux!HeldWithin, Linux!Fds, Linux!Open, Linux!Slot, Linux!Slots

\* The tables without a descriptor.
LEMMA LinuxEmptied ==
  ASSUME FDS' \in [Linux!Slots -> [used : BOOLEAN, file : Files \cup {Absent}, off : Nat]],
         \A i \in Linux!Slots : ~FDS'[i].used, held' = <<>>
  PROVE  LinuxKept' /\ Linux!Fds' = {}
<1>1. Linux!Fds' = {} /\ held' \in [Linux!Fds' -> [file : Files, pos : Nat, names : Nat \ {0}]]
  BY DEF Linux!Fds
<1>2. Linux!Slots' = Linux!Slots /\ Linux!FD_BASE' = Linux!FD_BASE
  BY DEF Linux!Slots, Linux!FD_BASE
<1>3. Linux!SlotsWithin'
  BY <1>2 DEF Linux!SlotsWithin
<1>4. Linux!HeldWithin'
  BY <1>1 DEF Linux!HeldWithin
<1> QED BY <1>1, <1>2, <1>3, <1>4 DEF LinuxKept

\* The rest of the invariant: who runs, and the threads.
LinuxRun == /\ fbOff \in Nat /\ {rawKbd, abi, RESTART_DESKTOP} \subseteq BOOLEAN
            /\ mode \in {"desktop", "linux", "halted"}
            /\ nextTid \in Nat /\ nextTid >= 2 /\ \A t \in tids : t \in Nat /\ t < nextTid

LEMMA LinuxInvParts ==
  Linux!LinuxInv <=> /\ LinuxRun /\ (mode = "desktop" => Linux!Fds = {})
                     /\ (mode # "halted" => LinuxKept)
                     /\ FDS \in [Linux!Slots -> [used : BOOLEAN, file : Files \cup {Absent}, off : Nat]]
                     /\ Linux!SlotsWithin /\ Linux!HeldWithin
<1>1. LinuxRun => nextTid \notin tids
  BY DEF LinuxRun
<1>2. Linux!TypeOK /\ nextTid >= 2 /\ (\A t \in tids : t \in Nat /\ t < nextTid)
        <=> LinuxRun /\ FDS \in [Linux!Slots -> [used : BOOLEAN, file : Files \cup {Absent}, off : Nat]]
  BY <1>1 DEF Linux!TypeOK, LinuxRun
<1> QED BY <1>2 DEF Linux!LinuxInv, LinuxKept, Linux!DescriptorsKept

\* A call of the program that runs.
LEMMA LinuxCalls ==
  ASSUME NatOrdered, Linux!LinuxConstants, LinuxKept, LinuxRun,
         \/ \E p \in Files \cup {Absent} : Linux!openat(p) \/ Linux!access(p)
         \/ \E fd \in Linux!Fds : \/ Linux!dup(fd) \/ Linux!close(fd)
                                  \/ \E n \in Lens : Linux!read(fd, n)
                                  \/ \E n \in Lens, pos \in Lens : Linux!pread(fd, n, pos)
                                  \/ \E o \in Seeks, w \in {"set", "cur", "end"} : Linux!lseek(fd, o, w)
         \/ \E n \in Lens : Linux!fb_write(n)
         \/ \E o \in Seeks, w \in {"set", "cur", "end"} : Linux!fb_seek(o, w)
         \/ \E b \in BOOLEAN : Linux!KDSKBMODE(b)
         \/ Linux!clone
  PROVE  LinuxKept' /\ LinuxRun' /\ mode' = "linux"
<1>1. ASSUME NEW p \in Files \cup {Absent}, Linux!openat(p) PROVE LinuxKept' /\ LinuxRun' /\ mode' = "linux"
  BY <1>1, LinuxOpens DEF Linux!openat, Linux!Call, Linux!world, LinuxRun
<1>2. ASSUME NEW p, Linux!access(p) PROVE LinuxKept' /\ LinuxRun' /\ mode' = "linux"
  BY <1>2, LinuxStutters DEF Linux!access, Linux!Call, Linux!world, LinuxRun
<1>3. ASSUME NEW fd \in Linux!Fds, Linux!dup(fd) PROVE LinuxKept' /\ LinuxRun' /\ mode' = "linux"
  BY <1>3, LinuxCopies DEF Linux!dup, Linux!Call, Linux!world, LinuxRun
<1>4. ASSUME NEW fd \in Linux!Fds, Linux!close(fd) PROVE LinuxKept' /\ LinuxRun' /\ mode' = "linux"
  BY <1>4, LinuxCloses DEF Linux!close, Linux!Call, Linux!world, LinuxRun
<1>5. ASSUME NEW fd \in Linux!Fds, NEW n \in Lens, Linux!read(fd, n) PROVE LinuxKept' /\ LinuxRun' /\ mode' = "linux"
  BY <1>5, LinuxReads DEF Linux!read, Linux!Call, Linux!world, LinuxRun
<1>6. ASSUME NEW fd, NEW n, NEW pos, Linux!pread(fd, n, pos) PROVE LinuxKept' /\ LinuxRun' /\ mode' = "linux"
  BY <1>6, LinuxStutters DEF Linux!pread, Linux!Call, Linux!world, LinuxRun
<1>7. ASSUME NEW fd \in Linux!Fds, NEW o \in Seeks, NEW w \in {"set", "cur", "end"}, Linux!lseek(fd, o, w)
      PROVE  LinuxKept' /\ LinuxRun' /\ mode' = "linux"
  BY <1>7, LinuxSeeks DEF Linux!lseek, Linux!Call, Linux!world, LinuxRun
<1>8. ASSUME NEW n \in Lens, Linux!fb_write(n) PROVE LinuxKept' /\ LinuxRun' /\ mode' = "linux"
  <2>1. fbOff' \in Nat
    BY <1>8 DEF Linux!fb_write, Linux!Least, Linux!LinuxConstants, LinuxRun
  <2> QED BY <1>8, <2>1, LinuxStutters DEF Linux!fb_write, Linux!Call, Linux!world, LinuxRun
<1>9. ASSUME NEW o \in Seeks, NEW w, Linux!fb_seek(o, w) PROVE LinuxKept' /\ LinuxRun' /\ mode' = "linux"
  <2>1. fbOff' \in Nat
    <3>1. fbOff \in Int /\ o \in Int
      BY DEF LinuxRun, Linux!LinuxConstants
    <3>2. (fbOff + o) % Linux!WORD \in Nat /\ o % Linux!WORD \in Nat
      BY <3>1 DEF Linux!WORD
    <3> QED BY <1>9, <3>2 DEF Linux!fb_seek
  <2> QED BY <1>9, <2>1, LinuxStutters DEF Linux!fb_seek, Linux!Call, Linux!world, LinuxRun
<1>10. ASSUME NEW b \in BOOLEAN, Linux!KDSKBMODE(b) PROVE LinuxKept' /\ LinuxRun' /\ mode' = "linux"
  BY <1>10, LinuxStutters DEF Linux!KDSKBMODE, Linux!Call, LinuxRun
<1>11. CASE Linux!clone
  <2>1. /\ mode' = "linux" /\ nextTid' = nextTid + 1 /\ tids' = tids \cup {nextTid}
        /\ UNCHANGED <<FDS, fbOff, rawKbd, abi, RESTART_DESKTOP, held, broken>>
    BY <1>11 DEF Linux!clone, Linux!Call
  <2>2. LinuxRun'
    BY <2>1 DEF LinuxRun
  <2> QED BY <2>1, <2>2, LinuxStutters
<1> QED BY <1>1, <1>2, <1>3, <1>4, <1>5, <1>6, <1>7, <1>8, <1>9, <1>10, <1>11

LEMMA LinuxStep ==
  ASSUME NatOrdered, Linux!LinuxConstants, Linux!LinuxInv, [Linux!Next]_(Linux!vars)
  PROVE  Linux!LinuxInv'
<1>1. /\ LinuxRun /\ (mode = "desktop" => Linux!Fds = {}) /\ (mode # "halted" => LinuxKept)
      /\ FDS \in [Linux!Slots -> [used : BOOLEAN, file : Files \cup {Absent}, off : Nat]]
      /\ Linux!SlotsWithin /\ Linux!HeldWithin
  BY LinuxInvParts
<1> DEFINE Parts == /\ LinuxRun /\ (mode = "desktop" => Linux!Fds = {}) /\ (mode # "halted" => LinuxKept)
                    /\ FDS \in [Linux!Slots -> [used : BOOLEAN, file : Files \cup {Absent}, off : Nat]]
                    /\ Linux!SlotsWithin /\ Linux!HeldWithin
<1>2. Linux!LinuxInv' <=> Parts'
  BY LinuxInvParts, PTL
<1>3. LinuxRun' /\ LinuxKept' /\ (mode' = "desktop" => Linux!Fds' = {}) => Parts'
  BY DEF LinuxKept
<1>4. CASE mode = "linux" /\ ~Linux!exit /\ Linux!Next
  <2>1. LinuxKept
    BY <1>1, <1>4
  <2>2. ~\E boot \in BOOLEAN : Linux!Exec(boot)
    BY <1>4 DEF Linux!Exec
  <2> QED BY <1>1, <1>2, <1>3, <1>4, <2>1, <2>2, LinuxCalls DEF Linux!Next
<1>5. ASSUME NEW boot \in BOOLEAN, Linux!Exec(boot) PROVE Linux!LinuxInv'
  <2>1. /\ mode = "desktop" /\ mode' = "linux" /\ held' = <<>> /\ tids' = {1} /\ abi' = TRUE
        /\ RESTART_DESKTOP' \in BOOLEAN /\ UNCHANGED <<FDS, fbOff, nextTid, rawKbd>>
    BY <1>5 DEF Linux!Exec
  <2>2. \A n \in Linux!Slots : ~FDS'[n].used
    BY <1>1, <2>1 DEF LinuxKept
  <2>3. LinuxKept' /\ LinuxRun'
    BY <1>1, <2>1, <2>2, LinuxEmptied DEF LinuxRun
  <2> QED BY <1>2, <1>3, <2>1, <2>3
<1>6. CASE Linux!exit
  <2>1. held' = <<>> /\ tids' = {} /\ nextTid' = nextTid /\ mode = "linux"
    BY <1>6 DEF Linux!exit
  <2>2. CASE RESTART_DESKTOP
    <3>1. mode' = "desktop" /\ abi' = FALSE /\ rawKbd' = FALSE /\ fbOff' = 0 /\ RESTART_DESKTOP' = FALSE
          /\ FDS' = [n \in Linux!Slots |-> [FDS[n] EXCEPT !.used = FALSE]]
      BY <1>6, <2>2 DEF Linux!exit, Linux!reset
    <3>2. /\ FDS' \in [Linux!Slots -> [used : BOOLEAN, file : Files \cup {Absent}, off : Nat]]
          /\ \A n \in Linux!Slots : ~FDS'[n].used
      BY <1>1, <3>1
    <3>3. LinuxKept' /\ LinuxRun' /\ Linux!Fds' = {}
      BY <1>1, <2>1, <3>1, <3>2, LinuxEmptied DEF LinuxRun
    <3> QED BY <1>2, <1>3, <3>3
  <2>3. CASE ~RESTART_DESKTOP
    <3>1. mode' = "halted" /\ UNCHANGED <<FDS, fbOff, rawKbd, abi, RESTART_DESKTOP>>
      BY <1>6, <2>3 DEF Linux!exit
    <3>2. LinuxRun'
      BY <1>1, <2>1, <3>1 DEF LinuxRun
    <3>3. Linux!SlotsWithin'
      BY <1>1, <3>1 DEF Linux!SlotsWithin, Linux!Slots
    <3>4. Linux!HeldWithin'
      <4>1. Linux!Fds' = {} /\ held' \in [Linux!Fds' -> [file : Files, pos : Nat, names : Nat \ {0}]]
        BY <2>1 DEF Linux!Fds
      <4> QED BY <4>1 DEF Linux!HeldWithin
    <3> QED BY <1>1, <1>2, <3>1, <3>2, <3>3, <3>4 DEF Linux!Slots
  <2> QED BY <2>2, <2>3
<1>7. CASE UNCHANGED Linux!vars
  <2>1. UNCHANGED <<FDS, fbOff, nextTid, rawKbd, abi, RESTART_DESKTOP, mode, held, broken, tids>>
    BY <1>7 DEF Linux!vars
  <2>2. LinuxRun' /\ Linux!Fds' = Linux!Fds
    BY <1>1, <2>1 DEF LinuxRun, Linux!Fds
  <2>3. Linux!SlotsWithin' /\ Linux!HeldWithin'
    BY <1>1, <2>1 DEF Linux!SlotsWithin, Linux!HeldWithin, Linux!Fds, Linux!Slots
  <2>4. LinuxKept => LinuxKept'
    BY <2>1, LinuxStutters
  <2> QED BY <1>1, <1>2, <2>1, <2>2, <2>3, <2>4 DEF Linux!Slots
<1>8. Linux!Next => Linux!exit \/ (\E boot \in BOOLEAN : Linux!Exec(boot)) \/ mode = "linux"
  <2>1. \A q : Linux!openat(q) \/ Linux!access(q) => mode = "linux"
    BY DEF Linux!openat, Linux!access, Linux!Call
  <2>2. \A fd : Linux!dup(fd) \/ Linux!close(fd) => mode = "linux"
    BY DEF Linux!dup, Linux!close, Linux!Call
  <2>3. \A fd, n : Linux!read(fd, n) => mode = "linux"
    BY DEF Linux!read, Linux!Call
  <2>4. \A fd, n, pos : Linux!pread(fd, n, pos) => mode = "linux"
    BY DEF Linux!pread, Linux!Call
  <2>5. \A fd, o, w : Linux!lseek(fd, o, w) => mode = "linux"
    BY DEF Linux!lseek, Linux!Call
  <2>6. \A n, w : Linux!fb_write(n) \/ Linux!fb_seek(n, w) \/ Linux!KDSKBMODE(n) \/ Linux!clone => mode = "linux"
    BY DEF Linux!fb_write, Linux!fb_seek, Linux!KDSKBMODE, Linux!clone, Linux!Call
  <2> QED BY <2>1, <2>2, <2>3, <2>4, <2>5, <2>6 DEF Linux!Next
<1> QED BY <1>4, <1>5, <1>6, <1>7, <1>8

(***************************************************************************)
(* The driver of the disk, for disks and buffers of any size.                 *)
(***************************************************************************)
LEMMA SataInit == Sata!AhciConstants /\ Sata!Init => Sata!AhciInv
<1> SUFFICES ASSUME Sata!AhciConstants, Sata!Init PROVE Sata!AhciInv
  OBVIOUS
<1> USE DEF Sata!Init, Sata!AhciConstants
<1>1. Sata!Nothing \in Sata!Commands
  <2>1. 0 \in Sata!LBAs /\ 0 \in 0..DATA_MAX
    BY DEF Sata!LBAs
  <2> QED BY <2>1 DEF Sata!Nothing, Sata!Command, Sata!Commands
<1>2. <<>> \in Sata!Texts
  <2>1. <<>> \in [1..0 -> Values] /\ 0 \in 0..DATA_MAX
    OBVIOUS
  <2> QED BY <2>1 DEF Sata!Texts
<1>3. Sata!TypeOK
  <2>1. [cmd |-> Sata!Nothing, done |-> 0] \in [cmd : Sata!Commands, done : 0..DATA_MAX]
    BY <1>1
  <2>2. Sata!None \in [step : {"none", "idle", "built", "poll"}, cmd : Sata!Commands, bytes : Sata!Texts]
    BY <1>1, <1>2 DEF Sata!None
  <2> QED BY <1>1, <2>1, <2>2 DEF Sata!TypeOK
<1>4. Sata!PortSound
  BY DEF Sata!PortSound, Sata!Nothing, Sata!Command
<1>5. Sata!CallKept
  BY DEF Sata!CallKept, Sata!None
<1> QED BY <1>3, <1>4, <1>5 DEF Sata!AhciInv, Sata!None

\* The types of the device's state, and what it works on.
SataTyped == /\ READY \in BOOLEAN /\ PXCI \in BOOLEAN /\ tfes \in BOOLEAN /\ halted \in BOOLEAN /\ overdue \in BOOLEAN
             /\ tfd \in [busy : BOOLEAN, err : BOOLEAN]
             /\ disk \in [Sata!LBAs -> Values] /\ data \in [1..DATA_MAX -> Values]

LEMMA SataTypes == Sata!TypeOK => SataTyped
BY DEF Sata!TypeOK, SataTyped

\* A sector is transferred.
LEMMA SataTransfers ==
  ASSUME Sata!AhciConstants, Sata!TypeOK, Sata!PortSound, Sata!Transfer
  PROVE  /\ Sata!TypeOK' /\ Sata!PortSound'
         /\ \A ask, bytes : Sata!Progress(ask, bytes) => Sata!Progress(ask, bytes)'
<1> PICK n : n = drive.done
  OBVIOUS
<1> PICK at : at = drive.cmd.lba + drive.done
  OBVIOUS
<1>1. /\ tfd.busy /\ n < drive.cmd.count /\ at \in Sata!LBAs
      /\ drive' = [drive EXCEPT !.done = n + 1]
      /\ IF drive.cmd.write THEN disk' = [disk EXCEPT ![at] = data[n + 1]] /\ data' = data
                            ELSE data' = [data EXCEPT ![n + 1] = disk[at]] /\ disk' = disk
      /\ UNCHANGED <<READY, ct, call, answer, test, before, overdue, PXCI, tfes, tfd, halted>>
  BY DEF Sata!Transfer, Sata!hostVars, Sata!regVars
<1>2. /\ n \in 0..DATA_MAX /\ drive.cmd \in Sata!Commands /\ drive.cmd.count \in 0..DATA_MAX
      /\ drive.cmd.lba \in Int /\ drive.cmd.write \in BOOLEAN
  BY DEF Sata!TypeOK, Sata!Commands, Sata!LBAs
<1>3. n + 1 \in 1..DATA_MAX /\ n + 1 \in 0..DATA_MAX /\ n \in Nat /\ n + 1 <= drive.cmd.count
      /\ at = drive.cmd.lba + n /\ at \in Int
  BY <1>1, <1>2 DEF Sata!AhciConstants
<1>4. drive'.cmd = drive.cmd /\ drive'.done = n + 1
  <2>1. [drive EXCEPT !.done = n + 1].cmd = drive.cmd
    BY DEF Sata!TypeOK
  <2>2. [drive EXCEPT !.done = n + 1].done = n + 1
    BY DEF Sata!TypeOK
  <2> QED BY <1>1, <2>1, <2>2
<1>5. Sata!LBAs' = Sata!LBAs /\ Sata!Commands' = Sata!Commands /\ Sata!Texts' = Sata!Texts
  BY DEF Sata!LBAs, Sata!Commands, Sata!Texts
<1>6. SataTyped
  BY SataTypes
<1>7. disk' \in [Sata!LBAs -> Values] /\ data' \in [1..DATA_MAX -> Values]
  BY <1>1, <1>3, <1>6 DEF SataTyped
<1>8. Sata!TypeOK'
  BY <1>1, <1>2, <1>3, <1>4, <1>5, <1>7 DEF Sata!TypeOK
<1>9. Sata!PortSound'
  BY <1>1, <1>3, <1>4 DEF Sata!PortSound, Sata!Running
<1>10. ASSUME NEW ask, NEW bytes, Sata!Progress(ask, bytes) PROVE Sata!Progress(ask, bytes)'
  <2>1. /\ drive.cmd = ask /\ Sata!Running /\ ct = ask /\ Sata!Buffered(ask, bytes)
        /\ Sata!Partly(ask, bytes) /\ Sata!Upto(ask, bytes, n)
    BY <1>1, <1>10 DEF Sata!Progress, Sata!PortSound
  <2>2. at = ask.lba + n /\ ask.lba \in Int /\ n \in Nat /\ n + 1 <= ask.count /\ ask.count \in Int
        /\ at - ask.lba + 1 = n + 1
    BY <1>2, <1>3, <2>1
  <2>3. Sata!LBAs \subseteq Int
    BY DEF Sata!LBAs
  <2>4. \A x \in Sata!LBAs : x \in ask.lba..(ask.lba + (n + 1) - 1) <=> x = at \/ x \in ask.lba..(ask.lba + n - 1)
    BY <2>2, <2>3
  <2>5. CASE ask.write
    <3>1. disk' = [disk EXCEPT ![at] = data[n + 1]] /\ data' = data
      BY <1>1, <2>1, <2>5
    <3>2. data[n + 1] = bytes[n + 1]
      <4>1. n + 1 \in 1..ask.count
        BY <2>2
      <4> QED BY <2>1, <2>5, <4>1 DEF Sata!Buffered
    <3>3. disk'[at] = bytes[at - ask.lba + 1] /\ \A x \in Sata!LBAs \ {at} : disk'[x] = disk[x]
      BY <1>1, <1>6, <2>2, <3>1, <3>2 DEF SataTyped
    <3>4. Sata!Partly(ask, bytes)'
      <4>1. Sata!Covers(ask, at)
        BY <2>2 DEF Sata!Covers
      <4> QED BY <1>1, <1>5, <2>1, <2>5, <3>3, <4>1 DEF Sata!Partly, Sata!Covers
    <3>5. Sata!Upto(ask, bytes, n + 1)'
      BY <1>5, <2>1, <2>4, <2>5, <3>3 DEF Sata!Upto
    <3>6. Sata!Buffered(ask, bytes)'
      BY <2>1, <3>1 DEF Sata!Buffered
    <3> QED BY <1>1, <1>4, <2>1, <3>4, <3>5, <3>6 DEF Sata!Progress, Sata!Running, Sata!PortSound
  <2>6. CASE ~ask.write
    <3>1. data' = [data EXCEPT ![n + 1] = disk[at]] /\ disk' = disk
      BY <1>1, <2>1, <2>6
    <3>2. data'[n + 1] = disk[at] /\ \A k \in 1..DATA_MAX : k # n + 1 => data'[k] = data[k]
      BY <1>3, <1>6, <3>1 DEF SataTyped
    <3>3. Sata!Partly(ask, bytes)'
      BY <1>1, <1>5, <2>1, <3>1 DEF Sata!Partly, Sata!Covers
    <3>4. Sata!Upto(ask, bytes, n + 1)'
      <4> SUFFICES ASSUME NEW x \in Sata!LBAs, x \in ask.lba..(ask.lba + (n + 1) - 1)
                   PROVE  disk'[x] = data'[x - ask.lba + 1]
        BY <1>5, <2>6 DEF Sata!Upto
      <4>1. CASE x = at
        BY <2>2, <3>1, <3>2, <4>1
      <4>2. CASE x # at
        <5>1. x \in ask.lba..(ask.lba + n - 1) /\ x \in Int
          BY <2>3, <2>4, <4>2
        <5>2. x - ask.lba + 1 \in 1..DATA_MAX /\ x - ask.lba + 1 # n + 1
          BY <1>3, <2>2, <5>1 DEF Sata!AhciConstants
        <5>3. disk[x] = data[x - ask.lba + 1]
          BY <2>1, <2>6, <5>1 DEF Sata!Upto
        <5> QED BY <3>1, <3>2, <5>2, <5>3
      <4> QED BY <4>1, <4>2
    <3>5. Sata!Buffered(ask, bytes)'
      BY <2>6 DEF Sata!Buffered
    <3> QED BY <1>1, <1>4, <2>1, <3>3, <3>4, <3>5 DEF Sata!Progress, Sata!Running, Sata!PortSound
  <2> QED BY <2>5, <2>6
<1> QED BY <1>8, <1>9, <1>10

\* The device begins a command, ends it, or fails.
LEMMA SataDevice ==
  ASSUME Sata!AhciConstants, Sata!TypeOK, Sata!PortSound, Sata!Fetch \/ Sata!Transfer \/ Sata!Complete \/ Sata!Fail
  PROVE  /\ Sata!TypeOK' /\ Sata!PortSound' /\ Sata!Running
         /\ UNCHANGED <<call, answer, before, overdue, ct>>
         /\ \A ask, bytes : Sata!Progress(ask, bytes) => Sata!Progress(ask, bytes)'
<1>1. Sata!LBAs' = Sata!LBAs /\ Sata!Commands' = Sata!Commands /\ Sata!Texts' = Sata!Texts
  BY DEF Sata!LBAs, Sata!Commands, Sata!Texts
<1>2. [cmd |-> Sata!Nothing, done |-> 0] \in [cmd : Sata!Commands, done : 0..DATA_MAX] /\ Sata!Nothing.count = 0
  <2>1. 0 \in Sata!LBAs /\ 0 \in 0..DATA_MAX
    BY DEF Sata!LBAs, Sata!AhciConstants
  <2>2. Sata!Nothing \in Sata!Commands /\ Sata!Nothing.count = 0
    BY <2>1 DEF Sata!Nothing, Sata!Command, Sata!Commands
  <2> QED BY <2>1, <2>2
<1>3. ct \in Sata!Commands /\ ct.count \in 0..DATA_MAX /\ ct.lba \in Int
  BY DEF Sata!TypeOK, Sata!Commands, Sata!LBAs
<1>4. CASE Sata!Fetch
  <2>1. /\ PXCI /\ ~tfd.busy /\ ~halted /\ drive' = [cmd |-> ct, done |-> 0] /\ tfd' = [busy |-> TRUE, err |-> FALSE]
        /\ UNCHANGED <<READY, ct, call, answer, test, before, overdue, disk, data, halted, PXCI, tfes>>
    BY <1>4 DEF Sata!Fetch, Sata!hostVars
  <2>2. drive' \in [cmd : Sata!Commands, done : 0..DATA_MAX] /\ drive'.cmd = ct /\ drive'.done = 0 /\ tfd'.busy /\ ~tfd'.err
        /\ tfd' \in [busy : BOOLEAN, err : BOOLEAN]
    BY <1>3, <2>1 DEF Sata!AhciConstants
  <2>3. Sata!TypeOK'
    BY <1>1, <2>1, <2>2 DEF Sata!TypeOK
  <2>4. Sata!PortSound' /\ Sata!Running
    BY <1>3, <2>1, <2>2 DEF Sata!PortSound, Sata!Running
  <2>5. ASSUME NEW ask, NEW bytes, Sata!Progress(ask, bytes) PROVE Sata!Progress(ask, bytes)'
    <3>1. ct = ask /\ Sata!Partly(ask, bytes)' /\ Sata!Buffered(ask, bytes)'
      BY <1>1, <2>1, <2>4, <2>5 DEF Sata!Progress, Sata!Partly, Sata!Buffered, Sata!Covers
    <3>2. Sata!Upto(ask, bytes, 0)'
      <4>1. \A x \in Sata!LBAs : x \notin ask.lba..(ask.lba + 0 - 1)
        BY <1>3, <3>1 DEF Sata!LBAs
      <4> QED BY <1>1, <4>1 DEF Sata!Upto
    <3> QED BY <2>1, <2>2, <3>1, <3>2 DEF Sata!Progress
  <2> QED BY <2>1, <2>3, <2>4, <2>5
<1>5. CASE Sata!Transfer
  <2>1. tfd.busy /\ UNCHANGED <<call, answer, before, overdue, ct>>
    BY <1>5 DEF Sata!Transfer, Sata!hostVars
  <2> QED BY <1>5, <2>1, SataTransfers DEF Sata!PortSound
<1>6. CASE Sata!Complete
  <2>1. /\ tfd.busy /\ drive.done = drive.cmd.count /\ PXCI' = FALSE /\ tfd' = [busy |-> FALSE, err |-> FALSE]
        /\ drive' = [cmd |-> Sata!Nothing, done |-> 0]
        /\ UNCHANGED <<READY, ct, call, answer, test, before, overdue, disk, data, halted, tfes>>
    BY <1>6 DEF Sata!Complete, Sata!hostVars
  <2>2. /\ drive' \in [cmd : Sata!Commands, done : 0..DATA_MAX] /\ drive'.done <= drive'.cmd.count
        /\ ~tfd'.busy /\ tfd' \in [busy : BOOLEAN, err : BOOLEAN] /\ Sata!Running /\ ~halted
    BY <1>2, <2>1 DEF Sata!PortSound, Sata!Running
  <2>3. Sata!TypeOK'
    BY <1>1, <2>1, <2>2 DEF Sata!TypeOK
  <2>4. Sata!PortSound'
    BY <2>1, <2>2 DEF Sata!PortSound
  <2>5. ASSUME NEW ask, NEW bytes, Sata!Progress(ask, bytes) PROVE Sata!Progress(ask, bytes)'
    <3>1. Sata!Partly(ask, bytes)'
      BY <1>1, <2>1, <2>5 DEF Sata!Progress, Sata!Partly, Sata!Covers
    <3>2. Sata!Upto(ask, bytes, ask.count)'
      BY <1>1, <2>1, <2>5 DEF Sata!Progress, Sata!Upto
    <3> QED BY <2>1, <2>2, <3>1, <3>2 DEF Sata!Progress, Sata!Running
  <2> QED BY <2>1, <2>2, <2>3, <2>4, <2>5
<1>7. CASE Sata!Fail
  <2>1. /\ tfd.busy /\ tfd' = [busy |-> FALSE, err |-> TRUE] /\ tfes' = TRUE /\ PXCI' \in BOOLEAN /\ halted' = PXCI'
        /\ drive' = [cmd |-> Sata!Nothing, done |-> 0]
        /\ UNCHANGED <<READY, ct, call, answer, test, before, overdue, disk, data>>
    BY <1>7 DEF Sata!Fail, Sata!hostVars
  <2>2. /\ drive' \in [cmd : Sata!Commands, done : 0..DATA_MAX] /\ drive'.done <= drive'.cmd.count
        /\ ~tfd'.busy /\ tfd'.err /\ tfd' \in [busy : BOOLEAN, err : BOOLEAN] /\ Sata!Running
    BY <1>2, <2>1 DEF Sata!PortSound
  <2>3. Sata!TypeOK'
    BY <1>1, <2>1, <2>2 DEF Sata!TypeOK
  <2>4. Sata!PortSound' /\ ~Sata!Running'
    BY <2>1, <2>2 DEF Sata!PortSound, Sata!Running
  <2>5. ASSUME NEW ask, NEW bytes, Sata!Progress(ask, bytes) PROVE Sata!Progress(ask, bytes)'
    <3>1. Sata!Partly(ask, bytes)'
      BY <1>1, <2>1, <2>5 DEF Sata!Progress, Sata!Partly, Sata!Covers
    <3> QED BY <2>2, <2>4, <3>1 DEF Sata!Progress
  <2> QED BY <2>1, <2>2, <2>3, <2>4, <2>5
<1> QED BY <1>4, <1>5, <1>6, <1>7

LEMMA SataDeviceKeeps ==
  ASSUME Sata!AhciConstants, Sata!AhciInv, Sata!Fetch \/ Sata!Transfer \/ Sata!Complete \/ Sata!Fail
  PROVE  Sata!AhciInv'
<1>1. Sata!TypeOK /\ Sata!PortSound
  BY DEF Sata!AhciInv
<1>2. /\ Sata!TypeOK' /\ Sata!PortSound' /\ Sata!Running /\ UNCHANGED <<call, answer, before, overdue, ct>>
      /\ \A ask, bytes : Sata!Progress(ask, bytes) => Sata!Progress(ask, bytes)'
  BY <1>1, SataDevice
<1>3. Sata!CallKept => Sata!CallKept'
  <2> SUFFICES ASSUME Sata!CallKept PROVE Sata!CallKept'
    OBVIOUS
  <2>1. call.step \notin {"idle", "built"} /\ \A a \in answer : ~a.ok
    BY <1>2 DEF Sata!CallKept, Sata!Told, Sata!Running
  <2>2. call'.step = "poll" => Sata!Progress(call.cmd, call.bytes)'
    BY <1>2 DEF Sata!CallKept
  <2>3. \A a \in answer : Sata!Progress(a.cmd, a.bytes)'
    BY <1>2 DEF Sata!CallKept
  <2>4. call.step = call'.step /\ call.cmd = call'.cmd /\ call.bytes = call'.bytes /\ answer' = answer
    BY <1>2
  <2> QED BY <2>1, <2>2, <2>3, <2>4 DEF Sata!CallKept
<1> QED BY <1>2, <1>3 DEF Sata!AhciInv

\* A call begins: what an earlier one left is its business no more, unless it runs.
LEMMA SataStarts ==
  ASSUME Sata!AhciConstants, Sata!AhciInv, NEW ask \in Sata!Commands, NEW bytes \in Sata!Texts,
         Sata!Start(ask, bytes), test' \in {"write", "read", "compare", "passed", "failed"}
  PROVE  Sata!AhciInv'
<1>1. Sata!TypeOK /\ Sata!PortSound /\ SataTyped
  BY SataTypes DEF Sata!AhciInv
<1>2. /\ ask.count # 0 /\ ask.count <= DATA_MAX /\ ask.count <= Len(bytes)
      /\ call' = [step |-> "idle", cmd |-> ask, bytes |-> bytes]
      /\ data' = (IF ask.write THEN [k \in DOMAIN data |-> IF k <= ask.count THEN bytes[k] ELSE data[k]] ELSE data)
      /\ answer' = {} /\ before' = disk /\ overdue' = Sata!Running
      /\ UNCHANGED <<READY, disk, drive, halted, PXCI, tfes, tfd, ct>>
  BY DEF Sata!Start, Sata!Accepted, Sata!devVars, Sata!regVars, Sata!Running
<1>3. ask.count \in 0..DATA_MAX /\ DATA_MAX \in Nat
  BY DEF Sata!Commands, Sata!AhciConstants
<1>4. PICK n \in 0..DATA_MAX : bytes \in [1..n -> Values]
  BY DEF Sata!Texts
<1>5. Len(bytes) = n /\ DOMAIN bytes = 1..n
  BY <1>3, <1>4
<1>6. 1..ask.count \subseteq DOMAIN bytes
  BY <1>2, <1>3, <1>5
<1>7. data' \in [1..DATA_MAX -> Values] /\ (ask.write => \A k \in 1..ask.count : data'[k] = bytes[k])
  <2>1. CASE ask.write
    <3>1. data' = [k \in 1..DATA_MAX |-> IF k <= ask.count THEN bytes[k] ELSE data[k]]
      BY <1>1, <1>2, <2>1 DEF SataTyped
    <3>2. \A k \in 1..DATA_MAX : (IF k <= ask.count THEN bytes[k] ELSE data[k]) \in Values
      BY <1>1, <1>2, <1>3, <1>4, <1>5 DEF SataTyped
    <3>3. \A k \in 1..ask.count : k \in 1..DATA_MAX /\ k <= ask.count
      BY <1>3
    <3> QED BY <3>1, <3>2, <3>3
  <2>2. CASE ~ask.write
    BY <1>1, <1>2, <2>2 DEF SataTyped
  <2> QED BY <2>1, <2>2
<1>8. Sata!LBAs' = Sata!LBAs /\ Sata!Commands' = Sata!Commands /\ Sata!Texts' = Sata!Texts
  BY DEF Sata!LBAs, Sata!Commands, Sata!Texts
<1>9. /\ call' \in [step : {"none", "idle", "built", "poll"}, cmd : Sata!Commands, bytes : Sata!Texts]
      /\ call'.step = "idle" /\ call'.cmd = ask /\ call'.bytes = bytes
  BY <1>2
<1>10. Sata!Running \in BOOLEAN
  BY DEF Sata!Running
<1>11. Sata!TypeOK'
  BY <1>1, <1>2, <1>7, <1>8, <1>9, <1>10 DEF Sata!TypeOK
<1>12. Sata!PortSound' /\ Sata!Running' = Sata!Running
  BY <1>1, <1>2 DEF Sata!PortSound, Sata!Running
<1>13. ~overdue' => Sata!CallKept'
  BY <1>2, <1>7, <1>9, <1>12 DEF Sata!CallKept, Sata!Buffered
<1> QED BY <1>2, <1>6, <1>9, <1>11, <1>12, <1>13 DEF Sata!AhciInv

\* A call that is refused.
LEMMA SataRefuses ==
  ASSUME Sata!AhciConstants, Sata!AhciInv, Sata!Refuse
  PROVE  Sata!AhciInv'
<1> PICK a : a = [cmd |-> Sata!Nothing, ok |-> FALSE, bytes |-> <<>>]
  OBVIOUS
<1>1. Sata!TypeOK /\ Sata!PortSound
  BY DEF Sata!AhciInv
<1>2. /\ call.step = "none" /\ answer' = {a} /\ before' = disk /\ overdue' = Sata!Running
      /\ UNCHANGED <<READY, disk, drive, halted, PXCI, tfes, tfd, data, ct, call, test>>
  BY DEF Sata!Refuse, Sata!devVars, Sata!regVars, Sata!Running
<1>3. Sata!LBAs' = Sata!LBAs /\ Sata!Commands' = Sata!Commands /\ Sata!Texts' = Sata!Texts
  BY DEF Sata!LBAs, Sata!Commands, Sata!Texts
<1>4. <<>> \in Sata!Texts
  <2>1. <<>> \in [1..0 -> Values] /\ 0 \in 0..DATA_MAX
    BY DEF Sata!AhciConstants
  <2> QED BY <2>1 DEF Sata!Texts
<1>5. a.cmd = Sata!Nothing /\ ~a.ok /\ a.bytes = <<>> /\ a.ok \in BOOLEAN /\ ~Sata!Nothing.write
      /\ Sata!Nothing.count = 0 /\ Sata!Nothing.lba = 0
  BY DEF Sata!Nothing, Sata!Command
<1>6. Sata!TypeOK'
  <2>1. Sata!Running \in BOOLEAN
    BY DEF Sata!Running
  <2>2. \A b \in answer' : b.ok \in BOOLEAN /\ b.bytes \in Sata!Texts
    BY <1>2, <1>4, <1>5
  <2> QED BY <1>1, <1>2, <1>3, <2>1, <2>2 DEF Sata!TypeOK
<1>7. Sata!PortSound' /\ Sata!Running' = Sata!Running
  BY <1>1, <1>2 DEF Sata!PortSound, Sata!Running
<1>8. ~overdue' => Sata!CallKept'
  <2> SUFFICES ASSUME ~Sata!Running PROVE Sata!CallKept'
    BY <1>2
  <2>1. Sata!Partly(a.cmd, a.bytes)'
    BY <1>2, <1>3, <1>5 DEF Sata!Partly
  <2>2. Sata!Upto(a.cmd, a.bytes, a.cmd.count)'
    <3>1. \A x \in Sata!LBAs : x \notin 0..(0 + 0 - 1)
      BY DEF Sata!LBAs
    <3> QED BY <1>3, <1>5, <3>1 DEF Sata!Upto
  <2>3. Sata!Progress(a.cmd, a.bytes)'
    BY <1>7, <2>1, <2>2 DEF Sata!Progress, Sata!PortSound
  <2> QED BY <1>2, <1>5, <2>3 DEF Sata!CallKept
<1> QED BY <1>2, <1>6, <1>7, <1>8 DEF Sata!AhciInv

\* The command is written and issued.
LEMMA SataIssues ==
  ASSUME Sata!AhciConstants, Sata!AhciInv, Sata!Build \/ Sata!Issue
  PROVE  Sata!AhciInv'
<1>1. Sata!TypeOK /\ Sata!PortSound /\ SataTyped
  BY SataTypes DEF Sata!AhciInv
<1>2. call \in [step : {"none", "idle", "built", "poll"}, cmd : Sata!Commands, bytes : Sata!Texts]
  BY <1>1 DEF Sata!TypeOK
<1>3. Sata!LBAs' = Sata!LBAs /\ Sata!Commands' = Sata!Commands /\ Sata!Texts' = Sata!Texts
  BY DEF Sata!LBAs, Sata!Commands, Sata!Texts
<1>4. CASE Sata!Build
  <2>1. /\ call.step = "idle" /\ tfes' = FALSE /\ ct' = call.cmd /\ call' = [call EXCEPT !.step = "built"]
        /\ UNCHANGED <<READY, disk, drive, halted, PXCI, tfd, data, answer, test, before, overdue>>
    BY <1>4 DEF Sata!Build, Sata!devVars
  <2>2. call'.step = "built" /\ call'.cmd = call.cmd /\ call'.bytes = call.bytes
        /\ call' \in [step : {"none", "idle", "built", "poll"}, cmd : Sata!Commands, bytes : Sata!Texts]
    BY <1>2, <2>1
  <2>3. ct' \in Sata!Commands
    BY <1>2, <2>1
  <2>4. Sata!TypeOK'
    BY <1>1, <1>3, <2>1, <2>2, <2>3 DEF Sata!TypeOK
  <2>5. Sata!PortSound' /\ Sata!Running' = Sata!Running
    BY <1>1, <2>1 DEF Sata!PortSound, Sata!Running
  <2>6. answer = {}
    BY <2>1 DEF Sata!AhciInv
  <2>7. Sata!CallKept => Sata!CallKept'
    BY <2>1, <2>2, <2>5, <2>6 DEF Sata!CallKept, Sata!Buffered
  <2> QED BY <2>1, <2>2, <2>4, <2>5, <2>7 DEF Sata!AhciInv
<1>5. CASE Sata!Issue
  <2>1. /\ call.step = "built" /\ PXCI' = TRUE /\ call' = [call EXCEPT !.step = "poll"]
        /\ UNCHANGED <<READY, disk, drive, halted, tfes, tfd, data, ct, answer, test, before, overdue>>
    BY <1>5 DEF Sata!Issue, Sata!devVars
  <2>2. call'.step = "poll" /\ call'.cmd = call.cmd /\ call'.bytes = call.bytes
        /\ call' \in [step : {"none", "idle", "built", "poll"}, cmd : Sata!Commands, bytes : Sata!Texts]
    BY <1>2, <2>1
  <2>3. Sata!TypeOK'
    BY <1>1, <1>3, <2>1, <2>2 DEF Sata!TypeOK
  <2>4. Sata!PortSound'
    BY <1>1, <2>1 DEF Sata!PortSound, Sata!Running
  <2>5. answer = {}
    BY <2>1 DEF Sata!AhciInv
  <2>6. Sata!CallKept => Sata!CallKept'
    <3> SUFFICES ASSUME Sata!CallKept PROVE Sata!CallKept'
      OBVIOUS
    <3> PICK c : c = call.cmd
      OBVIOUS
    <3> PICK b : b = call.bytes
      OBVIOUS
    <3>1. ~Sata!Running /\ disk = before /\ Sata!Buffered(c, b) /\ ct = c
      BY <2>1 DEF Sata!CallKept
    <3>2. ~tfd.busy
      BY <1>1, <3>1 DEF Sata!PortSound
    <3>3. Sata!Partly(c, b)'
      BY <1>3, <2>1, <3>1 DEF Sata!Partly
    <3>4. Sata!Buffered(c, b)'
      BY <2>1, <3>1 DEF Sata!Buffered
    <3>5. Sata!Progress(c, b)'
      BY <2>1, <3>1, <3>2, <3>3, <3>4 DEF Sata!Progress
    <3> QED BY <2>1, <2>2, <2>5, <3>5 DEF Sata!CallKept
  <2> QED BY <2>1, <2>2, <2>3, <2>4, <2>6 DEF Sata!AhciInv
<1> QED BY <1>4, <1>5

\* A call returns, with a yes only if the device has done it all.
LEMMA SataReturns ==
  ASSUME Sata!AhciConstants, Sata!AhciInv, Sata!PollDone \/ Sata!PollError \/ Sata!PollTimeout
  PROVE  Sata!AhciInv'
<1>1. Sata!TypeOK /\ Sata!PortSound /\ SataTyped
  BY SataTypes DEF Sata!AhciInv
<1> PICK c : c = call.cmd
  OBVIOUS
<1> PICK b : b = call.bytes
  OBVIOUS
<1>2. c \in Sata!Commands /\ b \in Sata!Texts /\ c.count \in 0..DATA_MAX /\ c.write \in BOOLEAN /\ DATA_MAX \in Nat
  BY <1>1 DEF Sata!TypeOK, Sata!Commands, Sata!AhciConstants
<1>3. Sata!LBAs' = Sata!LBAs /\ Sata!Commands' = Sata!Commands /\ Sata!Texts' = Sata!Texts
  BY DEF Sata!LBAs, Sata!Commands, Sata!Texts
<1> DEFINE read == [k \in DOMAIN b |-> IF k <= c.count THEN data[k] ELSE b[k]]
<1> PICK ok : ok = (Sata!PollDone /\ ~tfd.err)
  OBVIOUS
<1> PICK told : told = IF ok /\ ~c.write THEN read ELSE b
  OBVIOUS
<1>4. /\ call.step = "poll" /\ answer' = {[cmd |-> c, ok |-> ok, bytes |-> told]} /\ call' = Sata!None
      /\ ok \in BOOLEAN /\ (ok => ~PXCI /\ ~tfd.err)
      /\ UNCHANGED <<READY, disk, drive, halted, PXCI, tfes, tfd, data, ct, test, before, overdue>>
  <2>1. CASE Sata!PollDone
    <3>1. answer' = {[cmd |-> c, ok |-> ~tfd.err, bytes |-> told]}
      BY <2>1 DEF Sata!PollDone, Sata!Return
    <3>2. ok = ~tfd.err
      BY <2>1
    <3> QED BY <2>1, <3>1, <3>2 DEF Sata!PollDone, Sata!Return, Sata!devVars, Sata!regVars
  <2>2. CASE ~Sata!PollDone
    <3>1. ok = FALSE /\ told = b
      BY <2>2
    <3>2. Sata!Return(FALSE, b) /\ call.step = "poll"
      BY <2>2 DEF Sata!PollError, Sata!PollTimeout
    <3>3. answer' = {[cmd |-> c, ok |-> FALSE, bytes |-> b]} /\ call' = Sata!None
      BY <3>2 DEF Sata!Return
    <3> QED BY <2>2, <3>1, <3>2, <3>3 DEF Sata!PollError, Sata!PollTimeout, Sata!devVars, Sata!regVars
  <2> QED BY <2>1, <2>2
<1>5. 1..c.count \subseteq DOMAIN b
  BY <1>4 DEF Sata!AhciInv
<1>6. told \in Sata!Texts
  <2>1. CASE ok /\ ~c.write
    <3>1. PICK n \in 0..DATA_MAX : b \in [1..n -> Values]
      BY <1>2 DEF Sata!Texts
    <3>2. told = [k \in 1..n |-> IF k <= c.count THEN data[k] ELSE b[k]]
      BY <2>1, <3>1
    <3>3. \A k \in 1..n : k \in 1..DATA_MAX
      BY <1>2, <3>1
    <3>4. \A k \in 1..n : (IF k <= c.count THEN data[k] ELSE b[k]) \in Values
      BY <1>1, <3>1, <3>3 DEF SataTyped
    <3>5. told \in [1..n -> Values]
      BY <3>2, <3>4
    <3> QED BY <3>5 DEF Sata!Texts
  <2>2. CASE ~(ok /\ ~c.write)
    BY <1>2, <2>2
  <2> QED BY <2>1, <2>2
<1>7. ok /\ ~c.write => \A k \in 1..c.count : told[k] = data[k]
  <2> SUFFICES ASSUME ok, ~c.write, NEW k \in 1..c.count PROVE told[k] = data[k]
    OBVIOUS
  <2>1. k \in DOMAIN b /\ k <= c.count
    BY <1>2, <1>5
  <2> QED BY <2>1
<1> PICK a : a = [cmd |-> c, ok |-> ok, bytes |-> told]
  OBVIOUS
<1>8. a.cmd = c /\ a.ok = ok /\ a.bytes = told /\ answer' = {a}
  BY <1>4
<1> HIDE DEF read
<1>9. Sata!TypeOK'
  <2>1. 0 \in Sata!LBAs /\ 0 \in 0..DATA_MAX
    BY DEF Sata!LBAs, Sata!AhciConstants
  <2>2. Sata!Nothing \in Sata!Commands
    BY <2>1 DEF Sata!Nothing, Sata!Command, Sata!Commands
  <2>3. <<>> \in [1..0 -> Values]
    OBVIOUS
  <2>4. <<>> \in Sata!Texts
    BY <2>1, <2>3 DEF Sata!Texts
  <2>5. call' \in [step : {"none", "idle", "built", "poll"}, cmd : Sata!Commands, bytes : Sata!Texts]
    BY <1>4, <2>2, <2>4 DEF Sata!None
  <2>6. \A z \in answer' : z.ok \in BOOLEAN /\ z.bytes \in Sata!Texts
    BY <1>4, <1>6, <1>8
  <2> QED BY <1>1, <1>3, <1>4, <2>5, <2>6 DEF Sata!TypeOK
<1>10. Sata!PortSound' /\ Sata!Running' = Sata!Running
  BY <1>1, <1>4 DEF Sata!PortSound, Sata!Running
<1>11. Sata!CallKept => Sata!CallKept'
  <2> SUFFICES ASSUME Sata!CallKept PROVE Sata!CallKept'
    OBVIOUS
  <2>1. Sata!Progress(c, b)
    BY <1>4 DEF Sata!CallKept
  <2>2. c.write => told = b
    OBVIOUS
  <2>3. Sata!Progress(c, told)'
    <3>1. Sata!Partly(c, told)' /\ Sata!Buffered(c, told)' = Sata!Buffered(c, b)
      BY <1>3, <1>4, <2>1, <2>2 DEF Sata!Progress, Sata!Partly, Sata!Buffered, Sata!Covers
    <3>2. \A n : Sata!Upto(c, b, n) => Sata!Upto(c, told, n)'
      BY <1>3, <1>4, <2>2 DEF Sata!Upto
    <3> QED BY <1>4, <1>10, <2>1, <3>1, <3>2 DEF Sata!Progress
  <2>4. ok => Sata!Told(a)'
    <3> SUFFICES ASSUME ok, NEW x \in Sata!LBAs, Sata!Covers(c, x)
                 PROVE  told[x - c.lba + 1] = disk[x]
      BY <1>3, <1>4, <1>8 DEF Sata!Told, Sata!Covers
    <3>1. Sata!Upto(c, b, c.count) /\ x \in c.lba..(c.lba + c.count - 1)
      BY <1>4, <2>1 DEF Sata!Progress, Sata!Covers
    <3>2. disk[x] = IF c.write THEN b[x - c.lba + 1] ELSE data[x - c.lba + 1]
      BY <3>1 DEF Sata!Upto
    <3>3. x - c.lba + 1 \in 1..c.count
      BY <1>2, <3>1 DEF Sata!LBAs, Sata!Commands
    <3> QED BY <1>7, <2>2, <3>2, <3>3
  <2>5. call'.step = "none"
    BY <1>4 DEF Sata!None
  <2> QED BY <1>8, <2>3, <2>4, <2>5 DEF Sata!CallKept
<1>12. call'.step = "none"
  BY <1>4 DEF Sata!None
<1> QED BY <1>4, <1>9, <1>10, <1>11, <1>12 DEF Sata!AhciInv

\* The buffers of the three callers.
LEMMA SataOffers ==
  ASSUME Sata!AhciConstants
  PROVE  /\ [k \in 1..DATA_MAX |-> Blank] \in Sata!Texts
         /\ Sata!Buffers \subseteq Sata!Texts
         /\ DATA_MAX # 0 => <<Sig>> \in Sata!Texts /\ <<Blank>> \in Sata!Texts
         /\ \A b \in Sata!Buffers : Len(b) \in 0..DATA_MAX
<1>1. DATA_MAX \in Nat /\ Blank \in Values /\ Sig \in Values
  BY DEF Sata!AhciConstants
<1>2. \A n \in 0..DATA_MAX : [1..n -> Values] \subseteq Sata!Texts
  BY DEF Sata!Texts
<1>3. [k \in 1..DATA_MAX |-> Blank] \in [1..DATA_MAX -> Values] /\ DATA_MAX \in 0..DATA_MAX
  BY <1>1
<1>4. <<Sig>> \in [1..1 -> Values] /\ <<Blank>> \in [1..1 -> Values]
  BY <1>1
<1>5. DATA_MAX # 0 => 1 \in 0..DATA_MAX
  BY <1>1
<1>6. \A b \in Sata!Buffers : b \in Sata!Texts /\ Len(b) \in 0..DATA_MAX
  <2> TAKE b \in Sata!Buffers
  <2>1. PICK n \in 1..DATA_MAX : b \in [1..n -> Values]
    BY DEF Sata!Buffers
  <2>2. n \in 0..DATA_MAX /\ Len(b) = n
    BY <1>1, <2>1
  <2> QED BY <1>2, <2>1, <2>2
<1> QED BY <1>2, <1>3, <1>4, <1>5, <1>6

\* A step of the self-test that starts no command, and a step of nobody.
LEMMA SataStays ==
  ASSUME Sata!AhciInv, test' \in {"write", "read", "compare", "passed", "failed"},
         UNCHANGED <<READY, disk, drive, halted, PXCI, tfes, tfd, data, ct, call, answer, before, overdue>>
  PROVE  Sata!AhciInv'
<1>1. Sata!LBAs' = Sata!LBAs /\ Sata!Commands' = Sata!Commands /\ Sata!Texts' = Sata!Texts
  BY DEF Sata!LBAs, Sata!Commands, Sata!Texts
<1>2. Sata!TypeOK'
  BY <1>1 DEF Sata!AhciInv, Sata!TypeOK
<1>3. Sata!PortSound' /\ Sata!Running' = Sata!Running
  BY DEF Sata!AhciInv, Sata!PortSound, Sata!Running
<1>4. \A c, b : /\ Sata!Partly(c, b)' = Sata!Partly(c, b)
                /\ Sata!Buffered(c, b)' = Sata!Buffered(c, b)
                /\ \A n : Sata!Upto(c, b, n)' = Sata!Upto(c, b, n)
  BY <1>1 DEF Sata!Partly, Sata!Buffered, Sata!Upto, Sata!Covers
<1>5. \A c, b : Sata!Progress(c, b)' = Sata!Progress(c, b)
  BY <1>3, <1>4 DEF Sata!Progress
<1>6. \A a : Sata!Told(a)' = Sata!Told(a)
  BY <1>1 DEF Sata!Told, Sata!Covers
<1>7. Sata!CallKept => Sata!CallKept'
  BY <1>3, <1>4, <1>5, <1>6 DEF Sata!CallKept
<1> QED BY <1>2, <1>3, <1>7 DEF Sata!AhciInv

LEMMA SataCalls ==
  ASSUME Sata!AhciConstants, Sata!AhciInv, Sata!ReadSectors \/ Sata!WriteSectors \/ Sata!Selftest
  PROVE  Sata!AhciInv'
<1>1. test \in {"write", "read", "compare", "passed", "failed"}
  BY DEF Sata!AhciInv, Sata!TypeOK
<1>2. DATA_MAX \in Nat /\ SCRATCH_LBA \in Sata!LBAs
  BY DEF Sata!AhciConstants
<1>3. CASE Sata!ReadSectors
  <2>1. PICK lba \in Sata!LBAs, count \in 1..DATA_MAX :
            Sata!Start(Sata!Command(FALSE, lba, count), [k \in 1..DATA_MAX |-> Blank])
    BY <1>3 DEF Sata!ReadSectors
  <2>2. Sata!Command(FALSE, lba, count) \in Sata!Commands
    BY <1>2 DEF Sata!Command, Sata!Commands
  <2>3. test' = test
    BY <1>3 DEF Sata!ReadSectors
  <2> QED BY <1>1, <2>1, <2>2, <2>3, SataOffers, SataStarts
<1>4. CASE Sata!WriteSectors
  <2>1. PICK lba \in Sata!LBAs, b \in Sata!Buffers : Sata!Start(Sata!Command(TRUE, lba, Len(b)), b)
    BY <1>4 DEF Sata!WriteSectors
  <2>2. Sata!Command(TRUE, lba, Len(b)) \in Sata!Commands
    BY <1>2, SataOffers DEF Sata!Command, Sata!Commands
  <2>3. test' = test
    BY <1>4 DEF Sata!WriteSectors
  <2> QED BY <1>1, <2>1, <2>2, <2>3, SataOffers, SataStarts
<1>5. CASE Sata!Selftest
  <2>1. test' \in {"write", "read", "compare", "passed", "failed"}
    BY <1>5 DEF Sata!Selftest
  <2>2. CASE UNCHANGED <<READY, Sata!devVars, Sata!regVars, data, ct, call, answer, before, overdue>>
    BY <2>1, <2>2, SataStays DEF Sata!devVars, Sata!regVars
  <2>3. CASE Sata!Start(Sata!Command(TRUE, SCRATCH_LBA, 1), <<Sig>>)
    <3>1. DATA_MAX # 0 /\ 1 \in 0..DATA_MAX
      BY <1>2, <2>3 DEF Sata!Start, Sata!Accepted, Sata!Command
    <3>2. Sata!Command(TRUE, SCRATCH_LBA, 1) \in Sata!Commands
      BY <1>2, <3>1 DEF Sata!Command, Sata!Commands
    <3> QED BY <2>1, <2>3, <3>1, <3>2, SataOffers, SataStarts
  <2>4. CASE Sata!Start(Sata!Command(FALSE, SCRATCH_LBA, 1), <<Blank>>)
    <3>1. DATA_MAX # 0 /\ 1 \in 0..DATA_MAX
      BY <1>2, <2>4 DEF Sata!Start, Sata!Accepted, Sata!Command
    <3>2. Sata!Command(FALSE, SCRATCH_LBA, 1) \in Sata!Commands
      BY <1>2, <3>1 DEF Sata!Command, Sata!Commands
    <3> QED BY <2>1, <2>4, <3>1, <3>2, SataOffers, SataStarts
  <2> QED BY <1>5, <2>2, <2>3, <2>4 DEF Sata!Selftest
<1> QED BY <1>3, <1>4, <1>5

\* Every step of the driver and of the device keeps it.
LEMMA SataStep ==
  ASSUME Sata!AhciConstants, Sata!AhciInv, [Sata!Next]_(Sata!vars)
  PROVE  Sata!AhciInv'
<1>1. CASE UNCHANGED Sata!vars
  <2>1. test \in {"write", "read", "compare", "passed", "failed"}
    BY DEF Sata!AhciInv, Sata!TypeOK
  <2> QED BY <1>1, <2>1, SataStays DEF Sata!vars, Sata!devVars, Sata!regVars
<1> QED BY <1>1, SataCalls, SataRefuses, SataIssues, SataReturns, SataDeviceKeeps DEF Sata!Next

\* The answer of a call is true unless a command of an earlier one was running.
LEMMA SataAnswers ==
  ASSUME Sata!AhciConstants, Sata!AhciInv
  PROVE  Sata!AnswersTrue
<1> SUFFICES ASSUME ~overdue, NEW a \in answer, NEW l \in Sata!LBAs
             PROVE  IF ~Sata!Covers(a.cmd, l) \/ ~a.cmd.write
                    THEN /\ disk[l] = before[l]
                         /\ (a.ok /\ Sata!Covers(a.cmd, l)) => a.bytes[l - a.cmd.lba + 1] = disk[l]
                    ELSE IF a.ok THEN disk[l] = a.bytes[l - a.cmd.lba + 1]
                         ELSE disk[l] \in {before[l], a.bytes[l - a.cmd.lba + 1]}
  BY DEF Sata!AnswersTrue
<1>1. Sata!Progress(a.cmd, a.bytes) /\ (a.ok => Sata!Told(a))
  BY DEF Sata!AhciInv, Sata!CallKept
<1>2. IF a.cmd.write /\ Sata!Covers(a.cmd, l) THEN disk[l] \in {before[l], a.bytes[l - a.cmd.lba + 1]}
      ELSE disk[l] = before[l]
  BY <1>1 DEF Sata!Progress, Sata!Partly
<1>3. a.ok /\ Sata!Covers(a.cmd, l) => a.bytes[l - a.cmd.lba + 1] = disk[l]
  BY <1>1 DEF Sata!Told
<1> QED BY <1>2, <1>3

(***************************************************************************)
(* The files of the RAM disk                                                *)
(***************************************************************************)
\* An order on a finite set, given by what lies before each member.
OrderOf(S, P) ==
    /\ \A i \in S : P[i] \subseteq S /\ i \notin P[i]
    /\ \A i, j \in S : i # j => i \in P[j] \/ j \in P[i]
    /\ \A i, j \in S : i \in P[j] => P[i] \subseteq P[j]

\* Counting what lies before numbers the members, each number once.
Ranked(S, P, n) ==
    /\ \A i \in S : Cardinality(P[i]) \in 0..(n - 1)
    /\ \A i, j \in S : i \in P[j] => Cardinality(P[i]) < Cardinality(P[j])
    /\ \A i, j \in S : Cardinality(P[i]) = Cardinality(P[j]) => i = j
    /\ \A k \in 0..(n - 1) : \E i \in S : Cardinality(P[i]) = k

LEMMA Ranks ==
  ASSUME NEW S, IsFiniteSet(S), NEW P, OrderOf(S, P)
  PROVE  Ranked(S, P, Cardinality(S))
<1>1. \A i \in S : IsFiniteSet(P[i]) /\ Cardinality(P[i]) \in Nat /\ Cardinality(S) \in Nat
  <2> TAKE i \in S
  <2>1. P[i] \in SUBSET S
    BY DEF OrderOf
  <2>2. IsFiniteSet(P[i])
    BY <2>1, FS_Subset
  <2> QED BY <2>2, FS_CardinalityType
<1>2. \A i \in S : Cardinality(P[i]) < Cardinality(S)
  <2> TAKE i \in S
  <2>1. P[i] \in SUBSET S /\ P[i] # S
    BY DEF OrderOf
  <2>2. Cardinality(P[i]) <= Cardinality(S) /\ (Cardinality(S) = Cardinality(P[i]) => S = P[i])
    BY <2>1, FS_Subset
  <2> QED BY <1>1, <2>1, <2>2
<1>3. \A i, j \in S : i \in P[j] => Cardinality(P[i]) < Cardinality(P[j])
  <2> SUFFICES ASSUME NEW i \in S, NEW j \in S, i \in P[j] PROVE Cardinality(P[i]) < Cardinality(P[j])
    OBVIOUS
  <2>1. P[i] \in SUBSET P[j] /\ P[i] # P[j]
    BY DEF OrderOf
  <2>2. IsFiniteSet(P[j])
    BY <1>1
  <2>3. Cardinality(P[i]) <= Cardinality(P[j]) /\ (Cardinality(P[j]) = Cardinality(P[i]) => P[j] = P[i])
    BY <2>1, <2>2, FS_Subset
  <2> QED BY <1>1, <2>1, <2>3
<1>4. \A i, j \in S : Cardinality(P[i]) = Cardinality(P[j]) => i = j
  <2> SUFFICES ASSUME NEW i \in S, NEW j \in S, Cardinality(P[i]) = Cardinality(P[j]), i # j PROVE FALSE
    OBVIOUS
  <2>1. i \in P[j] \/ j \in P[i]
    BY DEF OrderOf
  <2> QED BY <1>1, <1>3, <2>1
<1>5. \A i \in S : Cardinality(P[i]) \in 0..(Cardinality(S) - 1)
  BY <1>1, <1>2
<1>6. \A k \in 0..(Cardinality(S) - 1) : \E i \in S : Cardinality(P[i]) = k
  <2>1. CASE S = {}
    BY <2>1, FS_EmptySet
  <2>2. CASE S # {}
    <3> DEFINE T == 0..(Cardinality(S) - 1)
               f == [i \in S |-> Cardinality(P[i])]
    <3>1. Cardinality(S) \in Nat /\ Cardinality(S) # 0
      BY <2>2, FS_CardinalityType, FS_EmptySet
    <3>2. IsFiniteSet(T) /\ Cardinality(T) = Cardinality(S)
      BY <3>1, FS_Interval
    <3>3. f \in Injection(S, T)
      BY <1>4, <1>5, Fun_IsInj
    <3>4. f \in Surjection(S, T)
      <4> HIDE DEF f, T
      <4> QED BY <3>2, <3>3, FS_Injection
    <3> QED BY <3>4 DEF Surjection
  <2> QED BY <2>1, <2>2
<1> QED BY <1>3, <1>4, <1>5, <1>6 DEF Ranked

LEMMA DiskCardinality == \A S : Disk!Cardinality(S) = Cardinality(S)
BY DEF Disk!Cardinality, Cardinality

\* A finite set in its order: each member has one place, after what lies before it.
Placed(r, S, P, n) ==
    /\ r \in [1..n -> S]
    /\ \A k, l \in 1..n : r[k] = r[l] => k = l
    /\ \A i \in S : \E k \in 1..n : r[k] = i
    /\ \A k, l \in 1..n : k < l => r[l] \notin P[r[k]]

LEMMA DiskRanking ==
  ASSUME NEW S, IsFiniteSet(S), NEW P, DOMAIN P = S, OrderOf(S, P)
  PROVE  Placed(Disk!Ranking(P), S, P, Cardinality(S))
<1> PICK n : n = Cardinality(S)
  OBVIOUS
<1>0. n \in Nat
  BY FS_CardinalityType
<1>1. Ranked(S, P, n)
  BY Ranks
<1>2. \A k \in 0..(n - 1) : \E i \in S : Cardinality(P[i]) = k
  BY <1>1 DEF Ranked
<1> PICK r : r = Disk!Ranking(P)
  OBVIOUS
<1>3. r = [k \in 1..n |-> CHOOSE i \in S : Disk!Cardinality(P[i]) = k - 1]
  BY DiskCardinality DEF Disk!Ranking
<1>4. \A k \in 1..n : r[k] \in S /\ Cardinality(P[r[k]]) = k - 1
  <2> TAKE k \in 1..n
  <2>1. k - 1 \in 0..(n - 1)
    BY <1>0
  <2>2. \E i \in S : Disk!Cardinality(P[i]) = k - 1
    BY <1>2, <2>1, DiskCardinality
  <2>3. r[k] = CHOOSE i \in S : Disk!Cardinality(P[i]) = k - 1
    BY <1>3
  <2>4. r[k] \in S /\ Disk!Cardinality(P[r[k]]) = k - 1
    BY <2>2, <2>3
  <2> QED BY <2>4, DiskCardinality
<1>5. r \in [1..n -> S]
  BY <1>3, <1>4
<1>6. \A k, l \in 1..n : r[k] = r[l] => k = l
  <2> SUFFICES ASSUME NEW k \in 1..n, NEW l \in 1..n, r[k] = r[l] PROVE k = l
    OBVIOUS
  <2>1. k - 1 = l - 1
    BY <1>4
  <2> QED BY <1>0, <2>1
<1>7. \A i \in S : \E k \in 1..n : r[k] = i
  <2> TAKE i \in S
  <2> PICK c : c = Cardinality(P[i])
    OBVIOUS
  <2>1. c \in 0..(n - 1) /\ c + 1 \in 1..n
    BY <1>0, <1>1 DEF Ranked
  <2>2. Cardinality(P[r[c + 1]]) = Cardinality(P[i]) /\ r[c + 1] \in S
    BY <1>0, <1>4, <2>1
  <2>3. r[c + 1] = i
    BY <1>1, <2>2 DEF Ranked
  <2> QED BY <2>1, <2>3
<1>8. \A k, l \in 1..n : k < l => r[l] \notin P[r[k]]
  <2> SUFFICES ASSUME NEW k \in 1..n, NEW l \in 1..n, k < l, r[l] \in P[r[k]] PROVE FALSE
    OBVIOUS
  <2>1. r[l] \in S /\ r[k] \in S
    BY <1>5
  <2>2. Cardinality(P[r[l]]) < Cardinality(P[r[k]])
    BY <1>1, <2>1 DEF Ranked
  <2>3. Cardinality(P[r[l]]) = l - 1 /\ Cardinality(P[r[k]]) = k - 1
    BY <1>4
  <2> QED BY <1>0, <2>2, <2>3
<1> QED BY <1>5, <1>6, <1>7, <1>8 DEF Placed

\* A finite set of numbers in its order.
LEMMA DiskInOrder ==
  ASSUME NEW S \in SUBSET Nat, IsFiniteSet(S), NEW n \in Nat, n = Cardinality(S)
  PROVE  /\ Disk!InOrder(S) \in [1..n -> S] /\ Len(Disk!InOrder(S)) = n
         /\ \A k, l \in 1..n : Disk!InOrder(S)[k] = Disk!InOrder(S)[l] => k = l
<1> PICK P : P = [i \in S |-> {j \in S : j < i}]
  OBVIOUS
<1>1. DOMAIN P = S /\ Disk!InOrder(S) = Disk!Ranking(P)
  BY DEF Disk!InOrder
<1>2. \A i, j \in S : j \in P[i] <=> j < i
  OBVIOUS
<1>3. \A i \in S : P[i] \subseteq S
  OBVIOUS
<1>4. \A i \in S : i \in Int
  OBVIOUS
<1>5. OrderOf(S, P)
  <2>1. \A i, j \in S : i \in P[j] => P[i] \subseteq P[j]
    <3> SUFFICES ASSUME NEW i \in S, NEW j \in S, i \in P[j], NEW x \in P[i] PROVE x \in P[j]
      OBVIOUS
    <3>1. x \in S /\ x < i /\ i < j
      BY <1>2, <1>3
    <3>2. x < j
      BY <1>4, <3>1
    <3> QED BY <1>2, <3>1, <3>2
  <2>2. \A i, j \in S : i # j => i \in P[j] \/ j \in P[i]
    <3> TAKE i, j \in S
    <3>1. i # j => i < j \/ j < i
      BY <1>4
    <3> QED BY <1>2, <3>1
  <2>3. \A i \in S : i \notin P[i]
    <3> TAKE i \in S
    <3>1. ~(i < i)
      BY <1>4
    <3> QED BY <1>2, <3>1
  <2> QED BY <1>3, <2>1, <2>2, <2>3 DEF OrderOf
<1>6. Placed(Disk!InOrder(S), S, P, n)
  BY <1>1, <1>5, DiskRanking
<1> QED BY <1>6 DEF Placed

\* Two rows: one comes first, or they are the same row twice.
LEMMA DiskBefore ==
  ASSUME NEW sort \in 0..3, NEW a \in [name : Int, size : Nat], NEW b \in [name : Int, size : Nat],
         NEW c \in [name : Int, size : Nat]
  PROVE  /\ ~(Disk!Before(a, b, sort) /\ Disk!Before(b, a, sort))
         /\ Disk!Before(a, b, sort) /\ Disk!Before(b, c, sort) => Disk!Before(a, c, sort)
         /\ ~Disk!Before(a, b, sort) /\ ~Disk!Before(b, c, sort) => ~Disk!Before(a, c, sort)
<1>1. a.name \in Int /\ b.name \in Int /\ c.name \in Int /\ a.size \in Nat /\ b.size \in Nat /\ c.size \in Nat
  OBVIOUS
<1>2. sort = 0 \/ sort = 1 \/ sort = 2 \/ sort = 3
  OBVIOUS
<1>3. CASE sort = 0
  BY <1>1, <1>3 DEF Disk!Before
<1>4. CASE sort = 1
  BY <1>1, <1>4 DEF Disk!Before
<1>5. CASE sort = 2
  BY <1>1, <1>5 DEF Disk!Before
<1>6. CASE sort = 3
  BY <1>1, <1>6 DEF Disk!Before
<1> QED BY <1>2, <1>3, <1>4, <1>5, <1>6

LEMMA DiskAhead ==
  ASSUME NEW n \in Nat, NEW rows \in [1..n -> [name : Int, size : Nat]], NEW sort \in 0..3,
         NEW P, P = [i \in DOMAIN rows |-> Disk!Ahead(rows, i, sort)]
  PROVE  /\ DOMAIN P = 1..n /\ OrderOf(1..n, P)
         /\ \A i, j \in 1..n : j \notin P[i] => ~Disk!Before(rows[j], rows[i], sort)
<1>1. DOMAIN rows = 1..n /\ DOMAIN P = 1..n
  OBVIOUS
<1>2. \A i \in 1..n : P[i] \subseteq 1..n
  BY <1>1 DEF Disk!Ahead
<1>3. \A i \in 1..n, j \in 1..n : /\ Disk!Before(rows[j], rows[i], sort) => j \in P[i]
                                  /\ j < i /\ ~Disk!Before(rows[i], rows[j], sort) => j \in P[i]
                                  /\ j \in P[i] => \/ Disk!Before(rows[j], rows[i], sort)
                                                   \/ j < i /\ ~Disk!Before(rows[i], rows[j], sort)
  <2> TAKE i \in 1..n, j \in 1..n
  <2>1. P[i] = Disk!Ahead(rows, i, sort)
    BY <1>1
  <2>2. P[i] = {x \in 1..n : Disk!Before(rows[x], rows[i], sort) \/ (x < i /\ ~Disk!Before(rows[i], rows[x], sort))}
    BY <1>1, <2>1, Zenon DEF Disk!Ahead
  <2> QED BY <2>2, Zenon
<1>4. \A i \in 1..n : i \notin P[i]
  <2> TAKE i \in 1..n
  <2>1. ~Disk!Before(rows[i], rows[i], sort) /\ ~(i < i)
    BY DiskBefore
  <2> QED BY <1>3, <2>1
<1>5. \A i, j \in 1..n : i # j => i \in P[j] \/ j \in P[i]
  <2> SUFFICES ASSUME NEW i \in 1..n, NEW j \in 1..n, i # j PROVE i \in P[j] \/ j \in P[i]
    OBVIOUS
  <2>1. i < j \/ j < i
    OBVIOUS
  <2> QED BY <1>3, <2>1, Zenon
<1>6. \A i, j \in 1..n : i \in P[j] => P[i] \subseteq P[j]
  <2> SUFFICES ASSUME NEW i \in 1..n, NEW j \in 1..n, i \in P[j], NEW x \in P[i] PROVE x \in P[j]
    OBVIOUS
  <2>1. x \in 1..n
    BY <1>2
  <2> PICK a, b, c : a = rows[x] /\ b = rows[i] /\ c = rows[j]
    OBVIOUS
  <2>2. a \in [name : Int, size : Nat] /\ b \in [name : Int, size : Nat] /\ c \in [name : Int, size : Nat]
    BY <2>1
  <2>3. Disk!Before(a, b, sort) \/ (x < i /\ ~Disk!Before(b, a, sort))
    BY <1>3, <2>1, Zenon
  <2>4. Disk!Before(b, c, sort) \/ (i < j /\ ~Disk!Before(c, b, sort))
    BY <1>3, Zenon
  <2>5. x < i /\ i < j => x < j
    BY <2>1
  <2>6. /\ ~(Disk!Before(a, b, sort) /\ Disk!Before(b, a, sort))
        /\ ~(Disk!Before(b, c, sort) /\ Disk!Before(c, b, sort))
    BY <2>2, DiskBefore
  <2>7. /\ Disk!Before(a, b, sort) /\ Disk!Before(b, c, sort) => Disk!Before(a, c, sort)
        /\ ~Disk!Before(c, b, sort) /\ ~Disk!Before(b, a, sort) => ~Disk!Before(c, a, sort)
    BY <2>2, DiskBefore
  <2>8. /\ Disk!Before(c, a, sort) /\ Disk!Before(a, b, sort) => Disk!Before(c, b, sort)
        /\ Disk!Before(b, c, sort) /\ Disk!Before(c, a, sort) => Disk!Before(b, a, sort)
    BY <2>2, DiskBefore
  <2>9. /\ ~Disk!Before(a, c, sort) /\ ~Disk!Before(c, b, sort) => ~Disk!Before(a, b, sort)
        /\ ~Disk!Before(b, a, sort) /\ ~Disk!Before(a, c, sort) => ~Disk!Before(b, c, sort)
    BY <2>2, DiskBefore
  <2>10. Disk!Before(a, c, sort) \/ (x < j /\ ~Disk!Before(c, a, sort))
    BY <2>3, <2>4, <2>5, <2>6, <2>7, <2>8, <2>9, Zenon
  <2> QED BY <1>3, <2>1, <2>10, Zenon
<1>7. OrderOf(1..n, P)
  BY <1>2, <1>4, <1>5, <1>6 DEF OrderOf
<1> QED BY <1>1, <1>3, <1>7

\* Sorting gives every row one place, and no row before one that it follows.
LEMMA DiskSorts ==
  ASSUME NEW n \in Nat, NEW rows \in [1..n -> [name : Int, size : Nat]], NEW sort \in 0..3
  PROVE  \E p \in [1..n -> 1..n] :
            /\ \A k, l \in 1..n : p[k] = p[l] => k = l
            /\ \A i \in 1..n : \E k \in 1..n : p[k] = i
            /\ Disk!apply_sort(rows, sort) = [k \in 1..n |-> rows[p[k]]]
            /\ \A k, l \in 1..n : k < l => ~Disk!Before(rows[p[l]], rows[p[k]], sort)
<1> PICK P : P = [i \in DOMAIN rows |-> Disk!Ahead(rows, i, sort)]
  OBVIOUS
<1> PICK p : p = Disk!Ranking(P)
  OBVIOUS
<1>1. DOMAIN P = 1..n /\ OrderOf(1..n, P)
  BY DiskAhead
<1>2. IsFiniteSet(1..n) /\ Cardinality(1..n) = n
  BY FS_Interval
<1>3. /\ p \in [1..n -> 1..n]
      /\ \A k, l \in 1..n : p[k] = p[l] => k = l
      /\ \A i \in 1..n : \E k \in 1..n : p[k] = i
      /\ \A k, l \in 1..n : k < l => p[l] \notin P[p[k]]
  <2>1. Placed(p, 1..n, P, n)
    BY <1>1, <1>2, DiskRanking
  <2> QED BY <2>1 DEF Placed
<1>4. Disk!apply_sort(rows, sort) = [k \in 1..n |-> rows[p[k]]]
  BY DEF Disk!apply_sort
<1>5. \A k, l \in 1..n : k < l => ~Disk!Before(rows[p[l]], rows[p[k]], sort)
  <2> SUFFICES ASSUME NEW k \in 1..n, NEW l \in 1..n, k < l PROVE ~Disk!Before(rows[p[l]], rows[p[k]], sort)
    OBVIOUS
  <2>1. p[k] \in 1..n /\ p[l] \in 1..n /\ p[l] \notin P[p[k]]
    BY <1>3
  <2> QED BY <2>1, DiskAhead
<1> QED BY <1>3, <1>4, <1>5

\* The first of some inodes.
LEMMA DiskFirst ==
  ASSUME NatOrdered, NEW S \in SUBSET Nat, S # {}
  PROVE  Disk!FirstOf(S) \in S /\ \A j \in S : Disk!FirstOf(S) <= j
<1>1. \E i \in S : \A j \in S : i <= j
  BY DEF NatOrdered
<1>2. Disk!FirstOf(S) = CHOOSE i \in S : \A j \in S : i <= j
  BY DEF Disk!FirstOf
<1> QED BY <1>1, <1>2

LEMMA DiskAtMost ==
  ASSUME NEW n \in Nat, NEW most \in Nat
  PROVE  Disk!AtMost(n, most) \in 0..most /\ Disk!AtMost(n, most) <= n
BY DEF Disk!AtMost

LEMMA DiskInit == Disk!FilesConstants /\ Disk!Init => Disk!FilesInv
<1> SUFFICES ASSUME Disk!FilesConstants, Disk!Init PROVE Disk!FilesInv
  OBVIOUS
<1> USE DEF Disk!Init, Disk!FilesConstants
<1>1. inodes \in [1..0 -> [path : Disk!PathName, size : Nat \ {0}]] /\ 0 \in 0..MAX_INODES /\ Len(inodes) = 0
  OBVIOUS
<1>2. entries \in [1..0 -> [name : Int, size : Nat]] /\ 0 \in 0..ROOM /\ Len(entries) = 0
  OBVIOUS
<1>3. Disk!TypeOK
  <2>1. Disk!Closed \in [ino : 0..MAX_INODES, pos : Nat]
    BY DEF Disk!Closed
  <2>2. fd_table \in [Descriptors -> [ino : 0..MAX_INODES, pos : Nat]]
    BY <2>1
  <2>3. deleted \subseteq 1..Len(inodes) /\ Len(inodes) <= MAX_INODES
    BY <1>1
  <2>4. sort_mode \in 0..3 /\ selected \in 0..ROOM
    OBVIOUS
  <2>5. open \in BOOLEAN /\ fresh \in BOOLEAN
    BY Zenon
  <2> QED BY <2>2, <2>3, <2>4, <2>5 DEF Disk!TypeOK
<1>4. Disk!TableSound
  BY <1>1 DEF Disk!TableSound
<1>5. Disk!JobSound
  BY DEF Disk!JobSound
<1>6. Disk!RowsSound
  BY <1>2 DEF Disk!RowsSound
<1> QED BY <1>3, <1>4, <1>5, <1>6 DEF Disk!FilesInv

\* The table holds the entries of an archive that have data, as far as it goes.
LEMMA DiskLoaded ==
  ASSUME Disk!FilesConstants, NEW a \in Archives
  PROVE  \E m \in 0..MAX_INODES : Disk!Loaded(a) \in [1..m -> [path : Disk!PathName, size : Nat \ {0}]]
<1>0. a \in Seq([path : Disk!PathName, size : Nat])
  BY DEF Disk!FilesConstants
<1>1. PICK n \in Nat : a \in [1..n -> [path : Disk!PathName, size : Nat]]
  <2>1. ASSUME NEW S, a \in Seq(S) PROVE Len(a) \in Nat /\ a \in [1..Len(a) -> S]
    BY <2>1
  <2>2. Len(a) \in Nat /\ a \in [1..Len(a) -> [path : Disk!PathName, size : Nat]]
    BY <1>0, <2>1
  <2> QED BY <2>2
<1> PICK S : S = {i \in DOMAIN a : a[i].size > 0}
  OBVIOUS
<1>2. S \in SUBSET (1..n) /\ S \in SUBSET Nat
  BY <1>1
<1>3. IsFiniteSet(S) /\ Cardinality(S) \in Nat
  <2>0. 1 \in Int /\ n \in Int
    BY <1>1
  <2>1. IsFiniteSet(1..n)
    BY <2>0, FS_Interval
  <2>2. IsFiniteSet(S)
    BY <1>2, <2>1, FS_Subset
  <2> QED BY <2>2, FS_CardinalityType
<1> PICK c : c = Cardinality(S)
  OBVIOUS
<1> PICK files : files = Disk!InOrder(S)
  OBVIOUS
<1>4. files \in [1..c -> S] /\ Len(files) = c
  BY <1>2, <1>3, DiskInOrder
<1> PICK m : m = Disk!AtMost(c, MAX_INODES)
  OBVIOUS
<1>5. m \in 0..MAX_INODES /\ m <= c
  BY <1>3, DiskAtMost DEF Disk!FilesConstants
<1>6. Disk!Loaded(a) = [k \in 1..m |-> a[files[k]]]
  BY <1>4 DEF Disk!Loaded
<1>7. \A k \in 1..m : a[files[k]] \in [path : Disk!PathName, size : Nat \ {0}]
  <2> TAKE k \in 1..m
  <2>1. k \in 1..c
    BY <1>3, <1>5
  <2>2. files[k] \in 1..n /\ a[files[k]].size > 0
    BY <1>2, <1>4, <2>1
  <2>3. a[files[k]] \in [path : Disk!PathName, size : Nat]
    BY <1>1, <2>2
  <2> QED BY <2>2, <2>3
<1>8. Disk!Loaded(a) \in [1..m -> [path : Disk!PathName, size : Nat \ {0}]]
  BY <1>6, <1>7
<1> QED BY <1>5, <1>8

\* A directory's files are inodes, finitely many, each with a name.
LEMMA DiskInDir ==
  ASSUME Disk!TableSound, MAX_INODES \in Nat, NEW dir, NEW gone
  PROVE  /\ Disk!InDir(dir, gone) \in SUBSET Nat /\ Disk!InDir(dir, gone) \in SUBSET (1..Len(inodes))
         /\ IsFiniteSet(Disk!InDir(dir, gone))
         /\ \A i \in Disk!InDir(dir, gone) :
              [name |-> Disk!Last(inodes[i].path), size |-> inodes[i].size] \in [name : Int, size : Nat]
<1>1. PICK n \in 0..MAX_INODES : inodes \in [1..n -> [path : Disk!PathName, size : Nat \ {0}]]
  BY DEF Disk!TableSound
<1>2. Len(inodes) = n
  BY <1>1
<1>3. Disk!InDir(dir, gone) \in SUBSET (1..n)
  BY <1>2 DEF Disk!InDir
<1>4. IsFiniteSet(Disk!InDir(dir, gone))
  <2>0. 1 \in Int /\ n \in Int
    BY <1>1
  <2>1. IsFiniteSet(1..n)
    BY <2>0, FS_Interval
  <2> QED BY <1>3, <2>1, FS_Subset
<1>5. \A i \in 1..n : Disk!Last(inodes[i].path) \in Int /\ inodes[i].size \in Nat
  <2> TAKE i \in 1..n
  <2>1. inodes[i].path \in Seq(Int) /\ inodes[i].path # <<>> /\ inodes[i].size \in Nat
    BY <1>1 DEF Disk!PathName
  <2>2. Len(inodes[i].path) \in 1..Len(inodes[i].path)
    BY <2>1
  <2> QED BY <2>1, <2>2 DEF Disk!Last
<1> QED BY <1>2, <1>3, <1>4, <1>5

LEMMA DiskListing ==
  ASSUME Disk!FilesConstants, Disk!TableSound, NEW dir, NEW gone,
         NEW m, m = Disk!AtMost(Cardinality(Disk!InDir(dir, gone)), ROOM)
  PROVE  /\ m \in 0..ROOM
         /\ Disk!listdir(dir, gone) \in [1..m -> [name : Int, size : Nat]]
         /\ Disk!Shows(Disk!listdir(dir, gone), Disk!InDir(dir, gone))
<1> PICK S : S = Disk!InDir(dir, gone)
  OBVIOUS
<1> PICK c : c = Cardinality(S)
  OBVIOUS
<1> PICK r : r = Disk!InOrder(S)
  OBVIOUS
<1>1. MAX_INODES \in Nat /\ ROOM \in Nat
  BY DEF Disk!FilesConstants
<1>2. /\ S \in SUBSET Nat /\ IsFiniteSet(S) /\ c \in Nat
      /\ \A i \in S : [name |-> Disk!Last(inodes[i].path), size |-> inodes[i].size] \in [name : Int, size : Nat]
  BY <1>1, DiskInDir, FS_CardinalityType
<1>3. r \in [1..c -> S] /\ Len(r) = c /\ \A k, l \in 1..c : r[k] = r[l] => k = l
  BY <1>2, DiskInOrder
<1>4. m \in 0..ROOM /\ m <= c
  BY <1>1, <1>2, DiskAtMost
<1> PICK rows : rows = Disk!listdir(dir, gone)
  OBVIOUS
<1>5. rows = [k \in 1..m |-> [name |-> Disk!Last(inodes[r[k]].path), size |-> inodes[r[k]].size]]
  BY <1>3 DEF Disk!listdir
<1>6. \A k \in 1..m : k \in 1..c /\ r[k] \in S
  BY <1>2, <1>3, <1>4
<1>7. rows \in [1..m -> [name : Int, size : Nat]] /\ Len(rows) = m
  BY <1>2, <1>4, <1>5, <1>6
<1> PICK f : f = [k \in 1..m |-> r[k]]
  OBVIOUS
<1>8. f \in [1..m -> S] /\ \A k \in 1..m : f[k] = r[k]
  BY <1>6
<1>9. \A k, l \in 1..m : f[k] = f[l] => k = l
  BY <1>3, <1>6, <1>8
<1>10. Disk!Shows(rows, S)
    <2>1. Disk!Numbering(f, rows)
    BY <1>5, <1>8, <1>9 DEF Disk!Numbering
  <2> QED BY <1>7, <1>8, <2>1 DEF Disk!Shows
<1> QED BY <1>4, <1>7, <1>10

\* Sorted rows are in order and of the same files.
Resorted(rows, sorted, n, sort) ==
    /\ sorted \in [1..n -> [name : Int, size : Nat]] /\ Len(sorted) = n /\ Len(rows) = n
    /\ \A k, l \in 1..n : k < l => ~Disk!Before(sorted[l], sorted[k], sort)
    /\ \A i \in 1..n : \E k \in 1..n : sorted[k] = rows[i]
    /\ \A files : Disk!Shows(rows, files) => Disk!Shows(sorted, files)

LEMMA DiskResorts ==
  ASSUME NEW n \in Nat, NEW rows \in [1..n -> [name : Int, size : Nat]], NEW sort \in 0..3,
         NEW sorted, sorted = Disk!apply_sort(rows, sort)
  PROVE  Resorted(rows, sorted, n, sort)
<1>1. PICK p \in [1..n -> 1..n] :
            /\ \A k, l \in 1..n : p[k] = p[l] => k = l
            /\ \A i \in 1..n : \E k \in 1..n : p[k] = i
            /\ sorted = [k \in 1..n |-> rows[p[k]]]
            /\ \A k, l \in 1..n : k < l => ~Disk!Before(rows[p[l]], rows[p[k]], sort)
  BY DiskSorts
<1>2. \A k \in 1..n : sorted[k] = rows[p[k]] /\ p[k] \in 1..n
  BY <1>1
<1>3. sorted \in [1..n -> [name : Int, size : Nat]] /\ Len(sorted) = n /\ Len(rows) = n
  BY <1>1
<1>4. \A k, l \in 1..n : k < l => ~Disk!Before(sorted[l], sorted[k], sort)
  <2> SUFFICES ASSUME NEW k \in 1..n, NEW l \in 1..n, k < l PROVE ~Disk!Before(sorted[l], sorted[k], sort)
    OBVIOUS
  <2>1. ~Disk!Before(rows[p[l]], rows[p[k]], sort)
    BY <1>1
  <2>2. sorted[l] = rows[p[l]] /\ sorted[k] = rows[p[k]]
    BY <1>2
  <2> QED BY <2>1, <2>2
<1>5. \A i \in 1..n : \E k \in 1..n : sorted[k] = rows[i]
  BY <1>1, <1>2
<1>6. ASSUME NEW files, Disk!Shows(rows, files) PROVE Disk!Shows(sorted, files)
  <2>0. PICK f \in [1..n -> files] : Disk!Numbering(f, rows)
    BY <1>3, <1>6 DEF Disk!Shows
  <2>1. /\ DOMAIN f = 1..n
        /\ \A i, j \in 1..n : f[i] = f[j] => i = j
        /\ \A i \in 1..n : rows[i] = [name |-> Disk!Last(inodes[f[i]].path), size |-> inodes[f[i]].size]
    BY <2>0 DEF Disk!Numbering
  <2> PICK g : g = [k \in 1..n |-> f[p[k]]]
    OBVIOUS
  <2>2. g \in [1..n -> files] /\ \A k \in 1..n : g[k] = f[p[k]]
    BY <1>2, <2>1
  <2>3. \A k, l \in 1..n : g[k] = g[l] => k = l
    BY <1>1, <1>2, <2>1, <2>2
  <2>4. \A k \in 1..n : sorted[k] = [name |-> Disk!Last(inodes[g[k]].path), size |-> inodes[g[k]].size]
    BY <1>2, <2>1, <2>2
  <2>5. Disk!Numbering(g, sorted)
    BY <2>2, <2>3, <2>4 DEF Disk!Numbering
  <2> QED BY <1>3, <2>2, <2>5 DEF Disk!Shows
<1> QED BY <1>3, <1>4, <1>5, <1>6 DEF Resorted

\* What the listing says stays true while the table stays, and is not claimed of
\* one that somebody overtook.
LEMMA DiskRowsStay ==
  ASSUME Disk!RowsSound, UNCHANGED <<inodes, cwd, entries, selected, sort_mode, open>>,
         fresh' = FALSE \/ (fresh' = fresh /\ deleted' = deleted)
  PROVE  Disk!RowsSound'
<1>1. CASE fresh' = FALSE
  BY <1>1 DEF Disk!RowsSound
<1>2. CASE fresh' = fresh /\ deleted' = deleted
  <2>1. Disk!InDir(cwd, deleted)' = Disk!InDir(cwd, deleted)
    BY <1>2 DEF Disk!InDir
  <2>2. \A f, rows : Disk!Numbering(f, rows)' = Disk!Numbering(f, rows)
    BY DEF Disk!Numbering
  <2>3. \A files : Disk!Shows(entries, files)' <=> Disk!Shows(entries, files)
    BY <2>2 DEF Disk!Shows
  <2> QED BY <1>2, <2>1, <2>2 DEF Disk!RowsSound, Disk!Shows
<1> QED BY <1>1, <1>2

\* Types, the table and the command stay when the file manager moves.
LEMMA DiskJobStays ==
  ASSUME Disk!FilesInv, UNCHANGED <<inodes, fd_table, job>>, deleted' \subseteq 1..Len(inodes),
         sort_mode' \in 0..3, selected' \in 0..ROOM, open' \in BOOLEAN, fresh' \in BOOLEAN
  PROVE  Disk!TypeOK' /\ Disk!TableSound' /\ Disk!JobSound'
<1>1. Disk!TypeOK /\ Disk!TableSound /\ Disk!JobSound
  BY DEF Disk!FilesInv
<1>2. Disk!TypeOK'
  BY <1>1 DEF Disk!TypeOK
<1>3. Disk!TableSound'
  BY <1>1 DEF Disk!TableSound, Disk!PathName
<1>4. Disk!JobSound'
  BY <1>1 DEF Disk!JobSound, Disk!NoJob, Disk!Closed
<1> QED BY <1>2, <1>3, <1>4

\* Where the selection may be.
LEMMA DiskSelects ==
  ASSUME ROOM \in Nat, Disk!RowsSound
  PROVE  selected \in 0..ROOM /\ Len(entries) \in 0..ROOM
<1>1. PICK n \in 0..ROOM : entries \in [1..n -> [name : Int, size : Nat]]
  BY DEF Disk!RowsSound
<1>2. Len(entries) = n
  BY <1>1
<1> QED BY <1>1, <1>2 DEF Disk!RowsSound

\* The listing is read anew.
LEMMA DiskRefreshes ==
  ASSUME Disk!FilesConstants, Disk!TableSound, sort_mode \in 0..3, inodes # <<>>,
         NEW dir, NEW gone, Disk!Refreshed(dir, gone), deleted' = gone, UNCHANGED <<inodes, sort_mode>>
  PROVE  Disk!RowsSound' /\ selected' \in 0..ROOM /\ fresh' \in BOOLEAN
<1> PICK files : files = Disk!InDir(dir, gone)
  OBVIOUS
<1> PICK m : m = Disk!AtMost(Cardinality(files), ROOM)
  OBVIOUS
<1> PICK listed : listed = Disk!listdir(dir, gone)
  OBVIOUS
<1> PICK sorted : sorted = Disk!apply_sort(listed, sort_mode)
  OBVIOUS
<1>1. cwd' = dir /\ entries' = sorted /\ selected' = 0 /\ fresh' = TRUE
  BY DEF Disk!Refreshed
<1>2. m \in 0..ROOM /\ listed \in [1..m -> [name : Int, size : Nat]] /\ Disk!Shows(listed, files) /\ m \in Nat /\ ROOM \in Nat
  <2>1. ROOM \in Nat
    BY DEF Disk!FilesConstants
  <2>2. m \in 0..ROOM /\ listed \in [1..m -> [name : Int, size : Nat]] /\ Disk!Shows(listed, files)
    BY DiskListing
  <2> QED BY <2>1, <2>2
<1>3. /\ sorted \in [1..m -> [name : Int, size : Nat]] /\ Len(sorted) = m
      /\ \A k, l \in 1..m : k < l => ~Disk!Before(sorted[l], sorted[k], sort_mode)
      /\ Disk!Shows(sorted, files)
  <2>1. Resorted(listed, sorted, m, sort_mode)
    BY <1>2, DiskResorts
  <2> QED BY <1>2, <2>1 DEF Resorted
<1>4. Disk!InDir(cwd, deleted)' = files
  BY <1>1 DEF Disk!InDir
<1>5. Disk!Shows(entries, Disk!InDir(cwd, deleted))'
  <2>1. PICK f \in [1..Len(sorted) -> files] : Disk!Numbering(f, sorted)
    BY <1>3 DEF Disk!Shows
  <2>2. Disk!Numbering(f, entries)'
    BY <1>1, <2>1 DEF Disk!Numbering
  <2> QED BY <1>1, <1>4, <2>1, <2>2 DEF Disk!Shows
<1>6. Disk!AtMost(Cardinality(Disk!InDir(cwd, deleted)), ROOM)' = m
  BY <1>4
<1>7. Disk!AtMost(Disk!Cardinality(Disk!InDir(cwd, deleted)), ROOM)' = m
  BY <1>4, DiskCardinality
<1>8. \A k, l \in 1..Len(entries') : k < l => ~Disk!Before(entries'[l], entries'[k], sort_mode')
  BY <1>1, <1>3
<1>9. \E n \in 0..ROOM : entries' \in [1..n -> [name : Int, size : Nat]]
  BY <1>1, <1>2, <1>3
<1>10. Disk!RowsSound'
  BY <1>1, <1>3, <1>5, <1>7, <1>8, <1>9 DEF Disk!RowsSound
<1> QED BY <1>1, <1>2, <1>10

\* The rows take the next order; the first row of the selected name is selected.
LEMMA DiskSort ==
  ASSUME NatOrdered, Disk!FilesConstants, Disk!FilesInv, Disk!Sort
  PROVE  Disk!RowsSound' /\ selected' \in 0..ROOM /\ sort_mode' \in 0..3
<1> PICK sort : sort = (sort_mode + 1) % 4
  OBVIOUS
<1> PICK sorted : sorted = Disk!apply_sort(entries, sort)
  OBVIOUS
<1>1. sort_mode \in 0..3 /\ Disk!RowsSound /\ ROOM \in Nat
  BY DEF Disk!FilesInv, Disk!TypeOK, Disk!FilesConstants
<1>2. sort \in 0..3
  BY <1>1
<1>3. PICK n \in 0..ROOM : entries \in [1..n -> [name : Int, size : Nat]]
  BY <1>1 DEF Disk!RowsSound
<1>4. Len(entries) = n /\ n \in Nat
  BY <1>1, <1>3
<1>5. /\ sorted \in [1..n -> [name : Int, size : Nat]] /\ Len(sorted) = n
      /\ \A k, l \in 1..n : k < l => ~Disk!Before(sorted[l], sorted[k], sort)
      /\ \A i \in 1..n : \E k \in 1..n : sorted[k] = entries[i]
      /\ \A files : Disk!Shows(entries, files) => Disk!Shows(sorted, files)
  <2>1. Resorted(entries, sorted, n, sort)
    BY <1>2, <1>3, <1>4, DiskResorts
  <2> QED BY <2>1 DEF Resorted
<1>6. /\ open /\ sort_mode' = sort /\ entries' = sorted
      /\ selected' = (IF Disk!Chosen THEN Disk!FirstOf({i \in 1..Len(entries) : entries'[i].name = Disk!Row.name}) - 1
                      ELSE selected)
      /\ UNCHANGED <<inodes, deleted, cwd, open, fresh>>
  BY DEF Disk!Sort, Disk!fs
<1>7. selected \in Nat /\ (selected < n \/ selected = 0)
  BY <1>1, <1>4 DEF Disk!RowsSound
<1>8. selected' \in Nat /\ (selected' < n \/ selected' = 0)
  <2>1. CASE Disk!Chosen
    <3> PICK named : named = {i \in 1..n : sorted[i].name = Disk!Row.name}
      OBVIOUS
    <3>1. selected + 1 \in 1..n
      BY <1>4, <1>7, <2>1 DEF Disk!Chosen
    <3>2. PICK k \in 1..n : sorted[k] = entries[selected + 1]
      BY <1>5, <3>1
    <3>3. k \in named /\ named \in SUBSET Nat /\ named \subseteq 1..n
      BY <3>2 DEF Disk!Row
    <3>4. Disk!FirstOf(named) \in 1..n
      BY <3>3, DiskFirst
    <3>5. selected' = Disk!FirstOf(named) - 1
      BY <1>4, <1>6, <2>1
    <3> QED BY <1>4, <3>4, <3>5
  <2>2. CASE ~Disk!Chosen
    BY <1>6, <1>7, <2>2
  <2> QED BY <2>1, <2>2
<1>9. Disk!InDir(cwd, deleted)' = Disk!InDir(cwd, deleted)
  BY <1>6 DEF Disk!InDir
<1>10. open /\ fresh => /\ n = Disk!AtMost(Disk!Cardinality(Disk!InDir(cwd, deleted)), ROOM)
                        /\ Disk!Shows(entries, Disk!InDir(cwd, deleted))
  BY <1>1, <1>4 DEF Disk!RowsSound
<1>11. open' /\ fresh' => /\ n = Disk!AtMost(Disk!Cardinality(Disk!InDir(cwd, deleted)), ROOM)'
                          /\ Disk!Shows(entries, Disk!InDir(cwd, deleted))'
  <2> SUFFICES ASSUME open, fresh
               PROVE  /\ n = Disk!AtMost(Disk!Cardinality(Disk!InDir(cwd, deleted)), ROOM)'
                      /\ Disk!Shows(entries, Disk!InDir(cwd, deleted))'
    BY <1>6
  <2> PICK files : files = Disk!InDir(cwd, deleted)
    OBVIOUS
  <2>1. n = Disk!AtMost(Disk!Cardinality(files), ROOM) /\ Disk!Shows(sorted, files)
    BY <1>5, <1>10
  <2>2. PICK f \in [1..Len(sorted) -> files] : Disk!Numbering(f, sorted)
    BY <2>1 DEF Disk!Shows
  <2>3. Disk!Numbering(f, entries)'
    BY <1>6, <2>2 DEF Disk!Numbering
  <2>4. Disk!Shows(entries, Disk!InDir(cwd, deleted))'
    BY <1>6, <1>9, <2>2, <2>3 DEF Disk!Shows
  <2>5. n = Disk!AtMost(Disk!Cardinality(Disk!InDir(cwd, deleted)), ROOM)'
    BY <1>9, <2>1
  <2> QED BY <2>4, <2>5
<1>12. \A k, l \in 1..Len(entries') : k < l => ~Disk!Before(entries'[l], entries'[k], sort_mode')
  BY <1>5, <1>6
<1>13. open => inodes # <<>>
  BY <1>1 DEF Disk!RowsSound
<1>14. Disk!RowsSound'
  BY <1>3, <1>5, <1>6, <1>8, <1>11, <1>12, <1>13 DEF Disk!RowsSound
<1>15. selected' \in 0..ROOM
  BY <1>1, <1>3, <1>8
<1> QED BY <1>2, <1>6, <1>14, <1>15

\* The selection moves to a row.
LEMMA DiskMoves ==
  ASSUME Disk!FilesConstants, Disk!FilesInv,
         Disk!nav_up \/ Disk!nav_down \/ \E row \in 0..(ROOM - 1) : Disk!on_mouse(row)
  PROVE  Disk!FilesInv'
<1>1. Disk!TypeOK /\ Disk!RowsSound /\ ROOM \in Nat
  BY DEF Disk!FilesInv, Disk!FilesConstants
<1>2. selected \in 0..ROOM /\ Len(entries) \in 0..ROOM
  BY <1>1, DiskSelects
<1>3. /\ open /\ UNCHANGED <<inodes, deleted, fd_table, job, cwd, entries, sort_mode, open, fresh>>
      /\ selected' \in Nat /\ (selected' < Len(entries) \/ selected' = 0)
  <2>1. CASE Disk!nav_up
    BY <1>1, <1>2, <2>1 DEF Disk!nav_up, Disk!fs, Disk!RowsSound
  <2>2. CASE Disk!nav_down
    BY <1>1, <1>2, <2>2 DEF Disk!nav_down, Disk!fs, Disk!RowsSound
  <2>3. CASE \E row \in 0..(ROOM - 1) : Disk!on_mouse(row)
    BY <1>1, <1>2, <2>3 DEF Disk!on_mouse, Disk!fs, Disk!RowsSound
  <2> QED BY <2>1, <2>2, <2>3
<1>4. selected' \in 0..ROOM
  <2> PICK n : n = Len(entries)
    OBVIOUS
  <2>1. n \in 0..ROOM /\ selected' \in Nat /\ (selected' < n \/ selected' = 0)
    BY <1>2, <1>3
  <2> QED BY <1>1, <2>1
<1>5. Disk!TypeOK' /\ Disk!TableSound' /\ Disk!JobSound'
  BY <1>1, <1>3, <1>4, DiskJobStays DEF Disk!TypeOK
<1>6. Disk!InDir(cwd, deleted)' = Disk!InDir(cwd, deleted)
  BY <1>3 DEF Disk!InDir
<1>7. \A f, rows : Disk!Numbering(f, rows)' = Disk!Numbering(f, rows)
  BY <1>3 DEF Disk!Numbering
<1>8. Disk!RowsSound'
  BY <1>1, <1>3, <1>6, <1>7 DEF Disk!RowsSound, Disk!Shows
<1> QED BY <1>5, <1>8 DEF Disk!FilesInv

\* The file a path names is in the table and not deleted.
LEMMA DiskFinds ==
  ASSUME NatOrdered, NEW path, Disk!find(path) # 0
  PROVE  Disk!find(path) \in 1..Len(inodes) /\ Disk!find(path) \notin deleted /\ inodes[Disk!find(path)].path = path
<1> PICK S : S = {i \in Disk!Live : inodes[i].path = path}
  OBVIOUS
<1>1. S \in SUBSET Nat /\ \A i \in S : i \in 1..Len(inodes) /\ i \notin deleted /\ inodes[i].path = path
  BY DEF Disk!Live
<1>2. Disk!find(path) = Disk!FirstOf(S)
  BY DEF Disk!find
<1>3. S # {}
  BY <1>2 DEF Disk!FirstOf
<1> QED BY <1>1, <1>2, <1>3, DiskFirst

\* Deletions, here and in the shell, and the other steps that list a directory.
LEMMA DiskLists ==
  ASSUME NatOrdered, Disk!FilesConstants, Disk!FilesInv,
         Disk!Launch \/ Disk!Enter \/ Disk!Back \/ Disk!delete_selected \/ Disk!copy_selected \/ Disk!Sort
  PROVE  Disk!FilesInv'
<1>1. /\ Disk!TypeOK /\ Disk!TableSound /\ Disk!RowsSound /\ ROOM \in Nat /\ sort_mode \in 0..3
      /\ deleted \subseteq 1..Len(inodes) /\ open \in BOOLEAN /\ fresh \in BOOLEAN
  BY DEF Disk!FilesInv, Disk!FilesConstants, Disk!TypeOK
<1>2. selected \in 0..ROOM /\ (open => inodes # <<>>)
  BY <1>1, DiskSelects DEF Disk!RowsSound
<1>3. UNCHANGED <<inodes, fd_table, job>>
  BY DEF Disk!Launch, Disk!Enter, Disk!Back, Disk!delete_selected, Disk!copy_selected, Disk!Sort, Disk!fs
<1>4. ASSUME NEW dir, NEW gone, Disk!Refreshed(dir, gone), deleted' = gone, gone \subseteq 1..Len(inodes),
             sort_mode' = sort_mode, inodes # <<>>, open' \in BOOLEAN
      PROVE  Disk!FilesInv'
  <2>1. Disk!RowsSound' /\ selected' \in 0..ROOM /\ fresh' \in BOOLEAN
    BY <1>1, <1>3, <1>4, DiskRefreshes
  <2>2. Disk!TypeOK' /\ Disk!TableSound' /\ Disk!JobSound'
    BY <1>1, <1>3, <1>4, <2>1, DiskJobStays
  <2> QED BY <2>1, <2>2 DEF Disk!FilesInv
<1>5. CASE Disk!Launch
  <2>1. Disk!Refreshed(<<>>, deleted) /\ deleted' = deleted /\ sort_mode' = sort_mode /\ inodes # <<>> /\ open' = TRUE
    BY <1>5 DEF Disk!Launch, Disk!fs
  <2> QED BY <1>1, <1>4, <2>1
<1>6. CASE Disk!Enter
  <2>1. /\ Disk!Refreshed(Append(cwd, Disk!Row.name), deleted) /\ deleted' = deleted /\ sort_mode' = sort_mode
        /\ open /\ open' = open
    BY <1>6 DEF Disk!Enter, Disk!fs
  <2> QED BY <1>1, <1>2, <1>4, <2>1
<1>7. CASE Disk!Back
  <2>1. Disk!Refreshed(Disk!Front(cwd), deleted) /\ deleted' = deleted /\ sort_mode' = sort_mode /\ open /\ open' = open
    BY <1>7 DEF Disk!Back, Disk!fs
  <2> QED BY <1>1, <1>2, <1>4, <2>1
<1>8. CASE Disk!delete_selected
  <2> PICK path : path = Append(cwd, Disk!Row.name)
    OBVIOUS
  <2>1. /\ Disk!find(path) # 0 /\ deleted' = deleted \cup {Disk!find(path)} /\ Disk!Refreshed(cwd, deleted')
        /\ sort_mode' = sort_mode /\ open /\ open' = open
    BY <1>8 DEF Disk!delete_selected, Disk!sys_delete, Disk!delete
  <2>2. deleted' \subseteq 1..Len(inodes)
    BY <1>1, <2>1, DiskFinds
  <2> PICK gone : gone = deleted \cup {Disk!find(path)}
    OBVIOUS
  <2>3. Disk!Refreshed(cwd, gone) /\ deleted' = gone
    BY <2>1
  <2> QED BY <1>1, <1>2, <1>4, <2>1, <2>2, <2>3
<1>9. CASE Disk!copy_selected
  <2>1. UNCHANGED <<deleted, cwd, entries, selected, sort_mode, open, fresh>>
    BY <1>9 DEF Disk!copy_selected, Disk!fs
  <2>2. Disk!RowsSound'
    BY <1>1, <1>3, <2>1, DiskRowsStay
  <2>3. Disk!TypeOK' /\ Disk!TableSound' /\ Disk!JobSound'
    BY <1>1, <1>2, <1>3, <2>1, DiskJobStays
  <2> QED BY <2>2, <2>3 DEF Disk!FilesInv
<1>10. CASE Disk!Sort
  <2>1. Disk!RowsSound' /\ selected' \in 0..ROOM /\ sort_mode' \in 0..3
    BY <1>10, DiskSort
  <2>2. deleted' = deleted /\ open' = open /\ fresh' = fresh
    BY <1>10 DEF Disk!Sort, Disk!fs
  <2>3. Disk!TypeOK' /\ Disk!TableSound' /\ Disk!JobSound'
    BY <1>1, <1>3, <2>1, <2>2, DiskJobStays
  <2> QED BY <2>1, <2>3 DEF Disk!FilesInv
<1> QED BY <1>5, <1>6, <1>7, <1>8, <1>9, <1>10

\* What a read gives: never more than is left, and all that is left or a full buffer.
LEMMA DiskGot ==
  ASSUME NEW left \in Nat, NEW len \in Nat, NEW n, n = Disk!AtMost(left, len)
  PROVE  n \in Nat /\ n <= left /\ (n = left \/ (n = len /\ len < left))
BY DEF Disk!AtMost

\* A command's own record, by what it is about to do.
JobAs(act, fd, ino, yet) ==
    /\ act \in {"cat", "wc", "done"} /\ fd \in Descriptors /\ ino \in 1..Len(inodes)
    /\ yet \in Nat /\ yet <= inodes[ino].size
    /\ act = "wc" => yet = 0
    /\ act = "done" => \/ yet = inodes[ino].size
                       \/ yet = BUF /\ inodes[ino].size > BUF

LEMMA DiskJobAs ==
  ASSUME NEW act, NEW fd, NEW ino, NEW yet, JobAs(act, fd, ino, yet), inodes' = inodes,
         job' = [cmd |-> act, fd |-> fd, ino |-> ino, got |-> yet],
         \A d \in Descriptors : fd_table'[d] = IF d = fd THEN [ino |-> ino, pos |-> yet] ELSE Disk!Closed
  PROVE  Disk!JobSound'
<1>1. job'.cmd = act /\ job'.fd = fd /\ job'.ino = ino /\ job'.got = yet
  OBVIOUS
<1>2. job' \in [cmd : {"cat", "wc", "done"}, fd : Descriptors, ino : 1..Len(inodes'), got : Nat]
  BY DEF JobAs
<1> QED BY <1>1, <1>2 DEF JobAs, Disk!JobSound, Disk!Closed

LEMMA DiskReads ==
  ASSUME NatOrdered, Disk!FilesConstants, Disk!FilesInv,
         Disk!Read \/ Disk!ReadOnce \/ Disk!Close \/ \E act \in {"cat", "wc"} : \E path \in Disk!Paths : Disk!Open(act, path)
  PROVE  Disk!FilesInv'
<1>1. /\ Disk!TypeOK /\ Disk!TableSound /\ Disk!JobSound /\ Disk!RowsSound
      /\ Descriptors \subseteq Nat /\ CHUNK \in Nat \ {0} /\ BUF \in Nat /\ MAX_INODES \in Nat
  BY DEF Disk!FilesInv, Disk!FilesConstants
<1>2. PICK n \in 0..MAX_INODES : inodes \in [1..n -> [path : Disk!PathName, size : Nat \ {0}]]
  BY <1>1 DEF Disk!TableSound
<1>3. Len(inodes) = n /\ \A i \in 1..n : inodes[i].size \in Nat /\ inodes[i].size # 0
  BY <1>1, <1>2
<1>4. UNCHANGED <<inodes, deleted, cwd, entries, selected, sort_mode, open, fresh>>
  BY DEF Disk!Read, Disk!ReadOnce, Disk!Close, Disk!Open, Disk!fm
<1>5. Disk!RowsSound'
  BY <1>1, <1>4, DiskRowsStay
<1>6. Disk!TableSound'
  BY <1>1, <1>4 DEF Disk!TableSound, Disk!PathName
<1>7. fd_table \in [Descriptors -> [ino : 0..MAX_INODES, pos : Nat]]
  BY <1>1 DEF Disk!TypeOK
<1>8. ASSUME fd_table' \in [Descriptors -> [ino : 0..MAX_INODES, pos : Nat]] PROVE Disk!TypeOK'
  BY <1>1, <1>4, <1>8 DEF Disk!TypeOK
<1>9. CASE Disk!Read \/ Disk!ReadOnce
  <2> PICK fd, ino, yet : fd = job.fd /\ ino = job.ino /\ yet = job.got
    OBVIOUS
  <2> PICK len : len = IF Disk!Read THEN CHUNK ELSE BUF
    OBVIOUS
  <2> PICK more : more = Disk!Got(fd, len)
    OBVIOUS
  <2> PICK act : act = IF Disk!Read /\ more > 0 THEN "cat" ELSE "done"
    OBVIOUS
  <2>1. /\ job.cmd = (IF Disk!Read THEN "cat" ELSE "wc")
        /\ fd_table' = [fd_table EXCEPT ![fd].pos = @ + more]
    <3>1. CASE Disk!Read
      BY <3>1 DEF Disk!Read
    <3>2. CASE ~Disk!Read
      BY <1>9, <3>2 DEF Disk!ReadOnce
    <3> QED BY <3>1, <3>2
  <2>2. /\ fd \in Descriptors /\ ino \in 1..n /\ yet \in Nat /\ yet <= inodes[ino].size
        /\ \A d \in Descriptors : fd_table[d] = IF d = fd THEN [ino |-> ino, pos |-> yet] ELSE Disk!Closed
        /\ job.cmd = "wc" => yet = 0
    <3>1. job # Disk!NoJob
      BY <2>1 DEF Disk!NoJob
    <3> QED BY <1>1, <1>3, <3>1 DEF Disk!JobSound
  <2>3. fd_table[fd] = [ino |-> ino, pos |-> yet] /\ fd_table[fd].ino = ino /\ fd_table[fd].pos = yet
    BY <2>2
  <2> PICK left : left = inodes[ino].size - yet
    OBVIOUS
  <2>4. left \in Nat /\ len \in Nat
    BY <1>1, <1>3, <2>2
  <2>5. more = Disk!AtMost(left, len)
    BY <2>3 DEF Disk!Got
  <2>6. more \in Nat /\ more <= left /\ (more = left \/ (more = len /\ len < left))
    BY <2>4, <2>5, DiskGot
  <2>7. job' = [cmd |-> act, fd |-> fd, ino |-> ino, got |-> yet + more]
    <3>1. job \in [cmd : {"cat", "wc", "done"}, fd : Descriptors, ino : 1..n, got : Nat]
      BY <1>1, <1>3, <2>1 DEF Disk!JobSound, Disk!NoJob
    <3>2. CASE Disk!Read
      <4>1. job' = [job EXCEPT !.got = @ + more, !.cmd = IF more > 0 THEN "cat" ELSE "done"]
        BY <3>2 DEF Disk!Read
      <4> QED BY <3>1, <3>2, <4>1
    <3>3. CASE ~Disk!Read
      <4>1. job' = [job EXCEPT !.got = more, !.cmd = "done"]
        BY <1>9, <3>3 DEF Disk!ReadOnce
      <4>2. yet + more = more
        BY <2>1, <2>2, <2>6, <3>3
      <4> QED BY <3>1, <3>3, <4>1, <4>2
    <3> QED BY <3>2, <3>3
  <2>8. JobAs(act, fd, ino, yet + more)
    <3>1. yet + more \in Nat /\ yet + more <= inodes[ino].size
      BY <1>3, <2>2, <2>6
    <3>2. act = "done" => \/ yet + more = inodes[ino].size
                          \/ yet + more = BUF /\ inodes[ino].size > BUF
      <4>1. CASE Disk!Read
        <5>1. act = "done" => more = 0
          BY <2>6, <4>1
        <5>2. len # 0
          BY <1>1, <4>1
        <5> QED BY <1>3, <2>2, <2>6, <5>1, <5>2
      <4>2. CASE ~Disk!Read
        <5>1. yet = 0 /\ len = BUF
          BY <2>1, <2>2, <4>2
        <5> QED BY <1>3, <2>2, <2>4, <2>6, <5>1
      <4> QED BY <4>1, <4>2
    <3> QED BY <1>3, <2>2, <3>1, <3>2 DEF JobAs
  <2>9. fd_table' \in [Descriptors -> [ino : 0..MAX_INODES, pos : Nat]]
        /\ \A d \in Descriptors : fd_table'[d] = IF d = fd THEN [ino |-> ino, pos |-> yet + more] ELSE Disk!Closed
    <3>1. fd_table' = [fd_table EXCEPT ![fd] = [fd_table[fd] EXCEPT !.pos = @ + more]]
      BY <2>1
    <3>2. [fd_table[fd] EXCEPT !.pos = @ + more] = [ino |-> ino, pos |-> yet + more]
      BY <2>3
    <3>3. [ino |-> ino, pos |-> yet + more] \in [ino : 0..MAX_INODES, pos : Nat]
      BY <1>1, <2>2, <2>6
    <3>4. fd_table' = [fd_table EXCEPT ![fd] = [ino |-> ino, pos |-> yet + more]]
      BY <3>1, <3>2
    <3> QED BY <1>7, <2>2, <3>3, <3>4
  <2>10. Disk!JobSound'
    BY <1>4, <2>7, <2>8, <2>9, DiskJobAs
  <2> QED BY <1>5, <1>6, <1>8, <2>9, <2>10 DEF Disk!FilesInv
<1>10. CASE Disk!Close
  <2>1. /\ job.cmd = "done" /\ fd_table' = [fd_table EXCEPT ![job.fd] = Disk!Closed] /\ job' = Disk!NoJob
    BY <1>10 DEF Disk!Close
  <2>2. Disk!Closed \in [ino : 0..MAX_INODES, pos : Nat]
    BY <1>1 DEF Disk!Closed
  <2>3. fd_table' \in [Descriptors -> [ino : 0..MAX_INODES, pos : Nat]]
    BY <1>7, <2>1, <2>2
  <2>4. job # Disk!NoJob
    BY <2>1 DEF Disk!NoJob
  <2>5. \A d \in Descriptors : fd_table'[d] = Disk!Closed
    BY <1>1, <1>7, <2>1, <2>4 DEF Disk!JobSound
  <2>6. Disk!JobSound'
    BY <2>1, <2>5 DEF Disk!JobSound, Disk!NoJob, Disk!Closed
  <2> QED BY <1>5, <1>6, <1>8, <2>3, <2>6 DEF Disk!FilesInv
<1>11. ASSUME NEW act \in {"cat", "wc"}, NEW path \in Disk!Paths, Disk!Open(act, path) PROVE Disk!FilesInv'
  <2> PICK ino : ino = Disk!find(path)
    OBVIOUS
  <2> PICK spare : spare = {d \in Descriptors : fd_table[d] = Disk!Closed}
    OBVIOUS
  <2> PICK fd : fd = Disk!FirstOf(spare)
    OBVIOUS
  <2>1. /\ job = Disk!NoJob /\ ino # 0 /\ spare # {}
        /\ fd_table' = [fd_table EXCEPT ![fd] = [ino |-> ino, pos |-> 0]]
        /\ job' = [cmd |-> act, fd |-> fd, ino |-> ino, got |-> 0]
    BY <1>11 DEF Disk!Open
  <2>2. ino \in 1..n
    BY <1>3, <2>1, DiskFinds
  <2>3. spare \in SUBSET Nat
    BY <1>1
  <2>4. fd \in Descriptors
    BY <2>1, <2>3, DiskFirst
  <2>5. [ino |-> ino, pos |-> 0] \in [ino : 0..MAX_INODES, pos : Nat]
    BY <1>1, <2>2
  <2>6. fd_table' \in [Descriptors -> [ino : 0..MAX_INODES, pos : Nat]]
    BY <1>7, <2>1, <2>4, <2>5
  <2>7. \A d \in Descriptors : fd_table[d] = Disk!Closed
    BY <1>1, <2>1 DEF Disk!JobSound, Disk!NoJob
  <2>8. \A d \in Descriptors : fd_table'[d] = IF d = fd THEN [ino |-> ino, pos |-> 0] ELSE Disk!Closed
    BY <1>7, <2>1, <2>4, <2>7
  <2>9. JobAs(act, fd, ino, 0)
    BY <1>3, <2>2, <2>4 DEF JobAs
  <2>10. Disk!JobSound'
    BY <1>4, <2>1, <2>8, <2>9, DiskJobAs
  <2> QED BY <1>5, <1>6, <1>8, <2>6, <2>10 DEF Disk!FilesInv
<1> QED BY <1>9, <1>10, <1>11

\* The archive is loaded, and the shell removes a file.
LEMMA DiskChanges ==
  ASSUME NatOrdered, Disk!FilesConstants, Disk!FilesInv,
         (\E a \in Archives : Disk!init(a)) \/ \E path \in Disk!Paths : Disk!cmd_rm(path)
  PROVE  Disk!FilesInv'
<1>1. /\ Disk!TypeOK /\ Disk!TableSound /\ Disk!JobSound /\ Disk!RowsSound
      /\ MAX_INODES \in Nat /\ ROOM \in Nat
  BY DEF Disk!FilesInv, Disk!FilesConstants
<1>2. ASSUME NEW a \in Archives, Disk!init(a) PROVE Disk!FilesInv'
  <2>1. /\ inodes = <<>> /\ inodes' = Disk!Loaded(a)
        /\ UNCHANGED <<deleted, fd_table, job, cwd, entries, selected, sort_mode, open, fresh>>
    BY <1>2 DEF Disk!init, Disk!fm
  <2>2. PICK m \in 0..MAX_INODES : inodes' \in [1..m -> [path : Disk!PathName, size : Nat \ {0}]]
    BY <2>1, DiskLoaded
  <2>3. Len(inodes') = m /\ Len(inodes) = 0
    BY <1>1, <2>1, <2>2
  <2>4. Disk!TableSound'
    BY <2>2 DEF Disk!TableSound, Disk!PathName
  <2>5. Disk!TypeOK'
    <3>1. deleted = {}
      BY <1>1, <2>3 DEF Disk!TypeOK
    <3> QED BY <1>1, <2>1, <2>2, <2>3, <3>1 DEF Disk!TypeOK
  <2>6. ~open
    BY <1>1, <2>1 DEF Disk!RowsSound
  <2>7. Disk!RowsSound'
    BY <1>1, <2>1, <2>6 DEF Disk!RowsSound
  <2>8. Disk!JobSound'
    BY <1>1, <2>1, <2>3 DEF Disk!JobSound, Disk!NoJob, Disk!Closed
  <2> QED BY <2>4, <2>5, <2>7, <2>8 DEF Disk!FilesInv
<1>3. ASSUME NEW path \in Disk!Paths, Disk!cmd_rm(path) PROVE Disk!FilesInv'
  <2>1. /\ Disk!find(path) # 0 /\ deleted' = deleted \cup {Disk!find(path)} /\ fresh' = FALSE
        /\ UNCHANGED <<inodes, fd_table, job, cwd, entries, selected, sort_mode, open>>
    BY <1>3 DEF Disk!cmd_rm, Disk!sys_delete, Disk!delete, Disk!fm
  <2>2. deleted' \subseteq 1..Len(inodes)
    BY <1>1, <2>1, DiskFinds DEF Disk!TypeOK
  <2>3. Disk!RowsSound'
    BY <1>1, <2>1, DiskRowsStay
  <2>4. selected \in 0..ROOM /\ sort_mode \in 0..3 /\ open \in BOOLEAN
    BY <1>1 DEF Disk!TypeOK
  <2>5. Disk!TypeOK' /\ Disk!TableSound' /\ Disk!JobSound'
    BY <2>1, <2>2, <2>4, DiskJobStays
  <2> QED BY <2>3, <2>5 DEF Disk!FilesInv
<1> QED BY <1>2, <1>3

LEMMA DiskStep ==
  ASSUME NatOrdered, Disk!FilesConstants, Disk!FilesInv, [Disk!Next]_(Disk!vars)
  PROVE  Disk!FilesInv'
<1>1. CASE UNCHANGED Disk!vars
  <2>1. UNCHANGED <<inodes, deleted, fd_table, job, cwd, entries, selected, sort_mode, open, fresh>>
    BY <1>1 DEF Disk!vars, Disk!fs, Disk!fm
  <2>2. Disk!TypeOK /\ Disk!RowsSound
    BY DEF Disk!FilesInv
  <2>3. Disk!RowsSound'
    BY <2>1, <2>2, DiskRowsStay
  <2>4. Disk!TypeOK' /\ Disk!TableSound' /\ Disk!JobSound'
    BY <2>1, <2>2, DiskJobStays DEF Disk!TypeOK
  <2> QED BY <2>3, <2>4 DEF Disk!FilesInv
<1>2. CASE Disk!Next
  <2>1. CASE \E path \in Disk!Paths : Disk!Open("cat", path) \/ Disk!Open("wc", path)
    <3>1. \E act \in {"cat", "wc"} : \E path \in Disk!Paths : Disk!Open(act, path)
      BY <2>1
    <3> QED BY <3>1, DiskReads
  <2>2. CASE (\E a \in Archives : Disk!init(a)) \/ \E path \in Disk!Paths : Disk!cmd_rm(path)
    BY <2>2, DiskChanges
  <2>3. CASE Disk!Read \/ Disk!ReadOnce \/ Disk!Close
    BY <2>3, DiskReads
  <2>4. CASE Disk!Launch \/ Disk!Enter \/ Disk!Back \/ Disk!delete_selected \/ Disk!copy_selected \/ Disk!Sort
    BY <2>4, DiskLists
  <2>5. CASE Disk!nav_up \/ Disk!nav_down \/ \E row \in 0..(ROOM - 1) : Disk!on_mouse(row)
    BY <2>5, DiskMoves
  <2> QED BY <1>2, <2>1, <2>2, <2>3, <2>4, <2>5 DEF Disk!Next
<1> QED BY <1>1, <1>2

\* A command has read what its file holds.
LEMMA DiskRight == Disk!FilesInv => Disk!ReadsRight
<1> SUFFICES ASSUME Disk!FilesInv PROVE Disk!ReadsRight
  OBVIOUS
<1>1. Disk!JobSound
  BY DEF Disk!FilesInv
<1>2. job = Disk!NoJob => \A d \in Descriptors : fd_table[d] = Disk!Closed
  BY <1>1 DEF Disk!JobSound, Disk!NoJob
<1>3. job.cmd = "done" => \/ job.got = inodes[job.ino].size
                          \/ job.got = BUF /\ inodes[job.ino].size > BUF
  BY <1>1 DEF Disk!JobSound, Disk!NoJob
<1> QED BY <1>2, <1>3 DEF Disk!ReadsRight

\* A path with names is its directory and its last name.
LEMMA DiskPath ==
  ASSUME NEW path \in Disk!PathName
  PROVE  path = Append(Disk!Front(path), Disk!Last(path))
<1> PICK n : n = Len(path)
  OBVIOUS
<1>1. path \in [1..n -> Int] /\ n \in Nat /\ n # 0
  BY DEF Disk!PathName
<1>2. Disk!Front(path) = [i \in 1..(n - 1) |-> path[i]]
  BY <1>1 DEF Disk!Front
<1>3. Disk!Front(path) \in Seq(Int) /\ Len(Disk!Front(path)) = n - 1
  BY <1>1, <1>2
<1> QED BY <1>1, <1>2, <1>3 DEF Disk!Last

\* The rows that look alike are as many as the files that do, at most.
NoMore(rows, n, k, files) ==
    Cardinality({l \in 1..n : rows[l] = rows[k]})
      <= Cardinality({i \in files : Disk!Last(inodes[i].path) = rows[k].name /\ inodes[i].size = rows[k].size})

LEMMA DiskCounts ==
  ASSUME Disk!TableSound, MAX_INODES \in Nat, NEW dir, NEW gone, NEW rows, NEW n \in Nat, Len(rows) = n,
         Disk!Shows(rows, Disk!InDir(dir, gone)), NEW k \in 1..n
  PROVE  /\ \E i \in Disk!InDir(dir, gone) : Disk!Last(inodes[i].path) = rows[k].name
         /\ NoMore(rows, n, k, Disk!InDir(dir, gone))
<1> PICK files : files = Disk!InDir(dir, gone)
  OBVIOUS
<1> PICK alike : alike = {l \in 1..n : rows[l] = rows[k]}
  OBVIOUS
<1> PICK twins : twins = {i \in files : Disk!Last(inodes[i].path) = rows[k].name /\ inodes[i].size = rows[k].size}
  OBVIOUS
<1>1. PICK f \in [1..n -> files] : Disk!Numbering(f, rows)
  BY DEF Disk!Shows
<1>2. /\ \A i, j \in 1..n : f[i] = f[j] => i = j
      /\ \A i \in 1..n : rows[i] = [name |-> Disk!Last(inodes[f[i]].path), size |-> inodes[f[i]].size]
  BY <1>1 DEF Disk!Numbering
<1>3. IsFiniteSet(files)
  BY DiskInDir
<1>4. IsFiniteSet(twins)
  <2>1. twins \in SUBSET files
    OBVIOUS
  <2> QED BY <1>3, <2>1, FS_Subset
<1> PICK g : g = [l \in alike |-> f[l]]
  OBVIOUS
<1>5. \A l \in alike : l \in 1..n /\ g[l] = f[l] /\ f[l] \in twins
  <2> TAKE l \in alike
  <2>1. l \in 1..n /\ rows[l] = rows[k] /\ g[l] = f[l] /\ f[l] \in files
    OBVIOUS
  <2>2. rows[l].name = Disk!Last(inodes[f[l]].path) /\ rows[l].size = inodes[f[l]].size
    BY <1>2, <2>1
  <2> QED BY <2>1, <2>2
<1>6. g \in [alike -> twins]
  BY <1>5
<1>7. \A x, y \in alike : g[x] = g[y] => x = y
  BY <1>2, <1>5
<1>8. g \in Injection(alike, twins)
  BY <1>6, <1>7, Fun_IsInj
<1>9. Cardinality(alike) <= Cardinality(twins)
  BY <1>4, <1>8, FS_Injection
<1>10. f[k] \in files /\ Disk!Last(inodes[f[k]].path) = rows[k].name
  BY <1>2
<1>11. NoMore(rows, n, k, files)
  BY <1>9 DEF NoMore
<1> QED BY <1>10, <1>11

\* The file manager shows what is there.
LEMMA DiskShown ==
  ASSUME NatOrdered, Disk!FilesConstants, Disk!FilesInv
  PROVE  Disk!ListShown
<1>1. Disk!TableSound /\ Disk!RowsSound /\ MAX_INODES \in Nat /\ ROOM \in Nat
  BY DEF Disk!FilesInv, Disk!FilesConstants
<1> PICK files : files = Disk!InDir(cwd, deleted)
  OBVIOUS
<1>2. PICK n \in 0..ROOM : entries \in [1..n -> [name : Int, size : Nat]]
  BY <1>1 DEF Disk!RowsSound
<1>3. n \in Nat /\ Len(entries) = n
  BY <1>1, <1>2
<1>4. open => selected < Len(entries) \/ selected = 0
  BY <1>1 DEF Disk!RowsSound
<1>5. open => \A i, j \in 1..Len(entries) : i < j => ~Disk!Before(entries[j], entries[i], sort_mode)
  BY <1>1 DEF Disk!RowsSound
<1>6. ASSUME open, fresh
      PROVE  /\ Len(entries) = Disk!AtMost(Disk!Cardinality(files), ROOM)
             /\ Disk!Shows(entries, files)
  BY <1>1, <1>6 DEF Disk!RowsSound
<1>7. ASSUME open, fresh, NEW k \in 1..Len(entries)
      PROVE  /\ Disk!Cardinality({l \in 1..Len(entries) : entries[l] = entries[k]})
                  <= Disk!Cardinality({i \in files : /\ Disk!Last(inodes[i].path) = entries[k].name
                                                     /\ inodes[i].size = entries[k].size})
             /\ Disk!find(Append(cwd, entries[k].name)) # 0
  <2>1. Disk!Shows(entries, files) /\ k \in 1..n
    BY <1>3, <1>6, <1>7
  <2>2. NoMore(entries, n, k, files)
    BY <1>1, <1>3, <2>1, DiskCounts
  <2>3. PICK i \in files : Disk!Last(inodes[i].path) = entries[k].name
    BY <1>1, <1>3, <2>1, DiskCounts
  <2>4. i \in 1..Len(inodes) /\ i \notin deleted /\ Disk!Front(inodes[i].path) = cwd
    BY <2>3 DEF Disk!InDir
  <2>5. inodes[i].path \in Disk!PathName
    BY <1>1, <2>4 DEF Disk!TableSound
  <2>6. inodes[i].path = Append(cwd, entries[k].name)
    BY <2>3, <2>4, <2>5, DiskPath
  <2> PICK path : path = Append(cwd, entries[k].name)
    OBVIOUS
  <2> PICK S : S = {j \in Disk!Live : inodes[j].path = path}
    OBVIOUS
  <2>7. S \in SUBSET Nat /\ S # {} /\ 0 \notin S
    BY <2>4, <2>6 DEF Disk!Live
  <2>8. Disk!find(path) \in S
    BY <2>7, DiskFirst DEF Disk!find
  <2> QED BY <1>3, <2>2, <2>7, <2>8, DiskCardinality DEF NoMore
<1> QED BY <1>4, <1>5, <1>6, <1>7 DEF Disk!ListShown

(* Sequences laid end to end.                                                  *)
Joins(j, s, t) == /\ Len(j) = Len(s) + Len(t)
                  /\ \A i \in 1..Len(s) : j[i] = s[i]
                  /\ \A i \in 1..Len(t) : j[Len(s) + i] = t[i]

LEMMA Joined ==
  ASSUME NEW S, NEW s \in Seq(S), NEW t \in Seq(S)
  PROVE  s \o t \in Seq(S) /\ Joins(s \o t, s, t)
<1>1. s \o t \in Seq(S) /\ Len(s \o t) = Len(s) + Len(t)
  OBVIOUS
<1>2. \A i \in 1 .. Len(s) + Len(t) : (s \o t)[i] = IF i <= Len(s) THEN s[i] ELSE t[i - Len(s)]
  BY ConcatProperties
<1>5. Len(s) \in Nat /\ Len(t) \in Nat
  OBVIOUS
<1> PICK m : m = Len(s)
  OBVIOUS
<1> PICK n : n = Len(t)
  OBVIOUS
<1> PICK j : j = s \o t
  OBVIOUS
<1>6. \A i \in 1 .. m + n : j[i] = IF i <= m THEN s[i] ELSE t[i - m]
  BY <1>2
<1>3. \A i \in 1..m : j[i] = s[i]
  BY <1>5, <1>6
<1>4. ASSUME NEW i \in 1..n PROVE j[m + i] = t[i]
  <2>1. m + i \in 1..m + n /\ ~(m + i <= m) /\ (m + i) - m = i
    BY <1>5
  <2> QED BY <1>6, <2>1
<1> QED BY <1>1, <1>3, <1>4 DEF Joins

LEMMA Same ==
  ASSUME NEW S, NEW s \in Seq(S), NEW t \in Seq(S), NEW n, Len(s) = n, Len(t) = n,
         \A i \in 1..n : s[i] = t[i]
  PROVE  s = t
BY SeqEqual

(***************************************************************************)
(* The browser and its fetch, for any names, paths, addresses and redirects.  *)
(***************************************************************************)
\* The pages behind and ahead of the current one, for any two lists.
LineOf(h, f) == h \o [i \in 1..Len(f) |-> f[Len(f) - i + 1]]

\* The entries of b \o q, where q begins with the last of h and goes on as r.
TakesLast(b, q, h, r, m, n) ==
    /\ Len(h) = m /\ Len(r) = n /\ Len(b) = m - 1 /\ Len(q) = n + 1
    /\ \A i \in 1..(m - 1) : b[i] = h[i]
    /\ q[1] = h[m] /\ \A i \in 1..n : q[i + 1] = r[i]

\* Two pairs of lists that join to the same one.
Alike(b, q, h, r) == b \o q = h \o r

LEMMA LaidAlike ==
  ASSUME NEW A, NEW h \in Seq(A), NEW r \in Seq(A), NEW b \in Seq(A), NEW q \in Seq(A),
         NEW m \in Nat \ {0}, NEW n \in Nat, TakesLast(b, q, h, r, m, n)
  PROVE  Alike(b, q, h, r)
<1>a. PICK old : old = h \o r
  OBVIOUS
<1>b. PICK new : new = b \o q
  OBVIOUS
<1>0. /\ Len(h) = m /\ Len(r) = n /\ Len(b) = m - 1 /\ Len(q) = n + 1
      /\ \A i \in 1..(m - 1) : b[i] = h[i]
      /\ q[1] = h[m] /\ \A i \in 1..n : q[i + 1] = r[i]
  BY DEF TakesLast
<1>3. new \in Seq(A) /\ Len(new) = (m - 1) + (n + 1)
      /\ (\A i \in 1..(m - 1) : new[i] = b[i]) /\ (\A i \in 1..(n + 1) : new[(m - 1) + i] = q[i])
  <2>1. new \in Seq(A) /\ Joins(new, b, q)
    BY <1>b, Joined
  <2> QED BY <1>0, <2>1 DEF Joins
<1>4. old \in Seq(A) /\ Len(old) = m + n
      /\ (\A i \in 1..m : old[i] = h[i]) /\ (\A i \in 1..n : old[m + i] = r[i])
  <2>1. old \in Seq(A) /\ Joins(old, h, r)
    BY <1>a, Joined
  <2> QED BY <1>0, <2>1 DEF Joins
<1>5. ASSUME NEW i \in 1..(m + n) PROVE new[i] = old[i]
  <2>1. CASE i <= m - 1
    BY <1>0, <1>3, <1>4, <2>1
  <2>2. CASE i = m
    <3>1. 1 \in 1..(n + 1) /\ (m - 1) + 1 = m /\ m \in 1..m
      OBVIOUS
    <3> QED BY <1>0, <1>3, <1>4, <2>2, <3>1
  <2>3. CASE i > m
    <3>1. PICK k \in 1..n : i = m + k
      <4>1. i - m \in 1..n /\ i = m + (i - m)
        BY <2>3
      <4> QED BY <4>1
    <3>2. k + 1 \in 1..(n + 1) /\ i = (m - 1) + (k + 1)
      BY <3>1
    <3>3. new[i] = q[k + 1] /\ old[i] = r[k]
      BY <1>3, <1>4, <3>1, <3>2
    <3>4. q[k + 1] = r[k]
      BY <1>0, <3>1
    <3> QED BY <3>3, <3>4
  <2>4. i \in Int /\ m \in Int
    OBVIOUS
  <2> QED BY <2>1, <2>2, <2>3, <2>4
<1>6. Len(new) = m + n
  BY <1>3
<1>7. new = old
  BY <1>3, <1>4, <1>5, <1>6, Same
<1> QED BY <1>a, <1>b, <1>7 DEF Alike

LEMMA Reversed ==
  ASSUME NEW A, NEW f \in Seq(A), NEW n, n = Len(f), NEW r, r = [i \in 1..n |-> f[n - i + 1]]
  PROVE  r \in Seq(A) /\ Len(r) = n /\ \A i \in 1..n : r[i] = f[n - i + 1]
<1>0. n \in Nat /\ DOMAIN f = 1..n
  OBVIOUS
<1>1. \A i \in 1..n : n - i + 1 \in 1..n /\ f[n - i + 1] \in A
  BY <1>0
<1>2. r \in [1..n -> A]
  BY <1>1
<1> QED BY <1>0, <1>2

\* Back: the page that was last is the first to go forward to.
LEMMA LineBack ==
  ASSUME NEW A, NEW h \in Seq(A), NEW f \in Seq(A), Len(h) >= 1
  PROVE  LineOf(SubSeq(h, 1, Len(h) - 1), Append(f, h[Len(h)])) = LineOf(h, f)
<1>a. PICK m : m = Len(h)
  OBVIOUS
<1>b. PICK n : n = Len(f)
  OBVIOUS
<1>0. m \in Nat \ {0} /\ n \in Nat /\ h[m] \in A
  BY <1>a, <1>b
<1>c. PICK b : b = SubSeq(h, 1, m - 1)
  OBVIOUS
<1>d. PICK g : g = Append(f, h[m])
  OBVIOUS
<1>1. b \in Seq(A) /\ Len(b) = m - 1 /\ \A i \in 1..(m - 1) : b[i] = h[i]
  BY <1>0, <1>a, <1>c
<1>2. g \in Seq(A) /\ Len(g) = n + 1 /\ g[n + 1] = h[m] /\ \A i \in 1..n : g[i] = f[i]
  BY <1>0, <1>b, <1>d, AppendProperties
<1>e. PICK r : r = [i \in 1..n |-> f[n - i + 1]]
  OBVIOUS
<1>3. r \in Seq(A) /\ Len(r) = n /\ \A i \in 1..n : r[i] = f[n - i + 1]
  BY <1>b, <1>e, Reversed
<1>f. PICK l : l = Len(g)
  OBVIOUS
<1>g. PICK q : q = [i \in 1..l |-> g[l - i + 1]]
  OBVIOUS
<1>4. q \in Seq(A) /\ Len(q) = l /\ \A i \in 1..l : q[i] = g[l - i + 1]
  <2>1. g \in Seq(A)
    BY <1>2
  <2> QED BY <2>1, <1>f, <1>g, Reversed
<1>h. l = n + 1
  BY <1>2, <1>f
<1>5. q[1] = h[m]
  <2>1. 1 \in 1..l /\ l - 1 + 1 = n + 1
    BY <1>0, <1>h
  <2>2. q[1] = g[l - 1 + 1]
    BY <1>4, <2>1
  <2> QED BY <1>2, <2>1, <2>2
<1>6. ASSUME NEW i \in 1..n PROVE q[i + 1] = r[i]
  <2>1. i + 1 \in 1..l /\ l - (i + 1) + 1 = n - i + 1 /\ n - i + 1 \in 1..n
    BY <1>0, <1>h
  <2>2. q[i + 1] = g[l - (i + 1) + 1]
    BY <1>4, <2>1
  <2>3. r[i] = f[n - i + 1]
    BY <1>3
  <2>4. g[n - i + 1] = f[n - i + 1]
    BY <1>2, <2>1
  <2> QED BY <2>1, <2>2, <2>3, <2>4
<1>7. b \o q = h \o r
  <2>1. r \in Seq(A)
    BY <1>3
  <2>7. b \in Seq(A)
    BY <1>1
  <2>8. q \in Seq(A)
    BY <1>4
  <2>2. Len(h) = m /\ Len(r) = n /\ Len(b) = m - 1 /\ Len(q) = n + 1
    BY <1>a, <1>1, <1>3, <1>4, <1>h
  <2>3. \A i \in 1..(m - 1) : b[i] = h[i]
    BY <1>1
  <2>4. \A i \in 1..n : q[i + 1] = r[i]
    BY <1>6
  <2>5. TakesLast(b, q, h, r, m, n)
    BY <1>5, <2>2, <2>3, <2>4 DEF TakesLast
  <2>6. m \in Nat \ {0}
    BY <1>0
  <2>9. n \in Nat
    BY <1>0
  <2>10. Alike(b, q, h, r)
    BY <2>1, <2>7, <2>8, <2>5, <2>6, <2>9, LaidAlike
  <2> QED BY <2>10 DEF Alike
<1>8. LineOf(b, g) = b \o q
  BY <1>f, <1>g DEF LineOf
<1>9. LineOf(h, f) = h \o r
  BY <1>b, <1>e DEF LineOf
<1> QED BY <1>7, <1>8, <1>9, <1>a, <1>c, <1>d

\* Forward: the other way round.
LEMMA LineAhead ==
  ASSUME NEW A, NEW h \in Seq(A), NEW f \in Seq(A), f # <<>>
  PROVE  LineOf(Append(h, f[Len(f)]), SubSeq(f, 1, Len(f) - 1)) = LineOf(h, f)
<1>a. PICK n : n = Len(f)
  OBVIOUS
<1>0. n \in Nat \ {0} /\ f[n] \in A
  BY <1>a
<1>b. PICK b : b = Append(h, f[n])
  OBVIOUS
<1>c. PICK g : g = SubSeq(f, 1, n - 1)
  OBVIOUS
<1>1. b \in Seq(A) /\ Len(b) = Len(h) + 1 /\ b[Len(b)] = f[n] /\ SubSeq(b, 1, Len(b) - 1) = h
  <2>1. /\ b \in Seq(A) /\ Len(b) = Len(h) + 1 /\ b[Len(h) + 1] = f[n]
        /\ \A i \in 1..Len(h) : b[i] = h[i]
    BY <1>0, <1>b, AppendProperties
  <2>2. Len(h) \in Nat /\ Len(b) - 1 = Len(h)
    BY <2>1
  <2>3. SubSeq(b, 1, Len(h)) \in Seq(A) /\ Len(SubSeq(b, 1, Len(h))) = Len(h)
        /\ \A i \in 1..Len(h) : SubSeq(b, 1, Len(h))[i] = b[i]
    BY <2>1, <2>2
  <2>4. SubSeq(b, 1, Len(h)) = h
    BY <2>1, <2>3, Same
  <2> QED BY <2>1, <2>2, <2>4
<1>2. g \in Seq(A) /\ Append(g, f[n]) = f
  <2>1. g \in Seq(A) /\ Len(g) = n - 1 /\ \A i \in 1..(n - 1) : g[i] = f[i]
    BY <1>0, <1>a, <1>c
  <2>2. PICK e : e = Append(g, f[n])
    OBVIOUS
  <2>3. e \in Seq(A) /\ Len(e) = Len(g) + 1 /\ e[Len(g) + 1] = f[n] /\ \A i \in 1..Len(g) : e[i] = g[i]
    BY <1>0, <2>1, <2>2, AppendProperties
  <2>4. Len(e) = n /\ \A i \in 1..n : e[i] = f[i]
    BY <1>0, <2>1, <2>3
  <2>5. e = f
    BY <1>a, <2>3, <2>4, Same
  <2> QED BY <2>1, <2>2, <2>5
<1>3. Len(b) >= 1
  BY <1>1
<1>4. LineOf(SubSeq(b, 1, Len(b) - 1), Append(g, b[Len(b)])) = LineOf(b, g)
  BY <1>1, <1>2, <1>3, LineBack
<1> QED BY <1>1, <1>2, <1>4, <1>a, <1>b, <1>c

LEMMA LineLaid ==
  ASSUME NEW A, NEW h \in Seq(A), NEW f \in Seq(A)
  PROVE  /\ Len(LineOf(h, f)) = Len(h) + Len(f)
         /\ \A i \in 1..Len(h) : LineOf(h, f)[i] = h[i]
<1> PICK m : m = Len(h)
  OBVIOUS
<1> PICK n : n = Len(f)
  OBVIOUS
<1>0. m \in Nat /\ n \in Nat /\ DOMAIN h = 1..m /\ DOMAIN f = 1..n
  OBVIOUS
<1>1. PICK r : r = [i \in 1..n |-> f[n - i + 1]]
  OBVIOUS
<1>2. r \in Seq(A) /\ Len(r) = n
  BY <1>1, Reversed
<1>3. LineOf(h, f) = h \o r
  BY <1>1 DEF LineOf
<1>4. Joins(h \o r, h, r)
  BY <1>2, Joined
<1> QED BY <1>2, <1>3, <1>4 DEF Joins

\* A line where no page follows itself.
Moves(line) == \A i \in 1..(Len(line) - 1) : line[i] # line[i + 1]

LEMMA LineGrows ==
  ASSUME NEW A, NEW h \in Seq(A), NEW f \in Seq(A), Moves(LineOf(h, f)), NEW a \in A,
         h = <<>> \/ h[Len(h)] # a
  PROVE  LineOf(Append(h, a), <<>>) = Append(h, a) /\ Moves(LineOf(Append(h, a), <<>>))
<1> PICK m : m = Len(h)
  OBVIOUS
<1>0. m \in Nat /\ Len(f) \in Nat /\ DOMAIN h = 1..m
  OBVIOUS
<1> PICK b : b = Append(h, a)
  OBVIOUS
<1>1. b \in Seq(A) /\ Len(b) = m + 1 /\ b[m + 1] = a /\ \A i \in 1..m : b[i] = h[i]
  BY <1>0
<1>2. LineOf(b, <<>>) = b
  <2>1. [i \in 1..Len(<<>>) |-> <<>>[Len(<<>>) - i + 1]] = <<>>
    OBVIOUS
  <2>2. b \o <<>> = b
    BY <1>1
  <2> QED BY <2>1, <2>2 DEF LineOf
<1>3. ASSUME NEW i \in 1..(Len(b) - 1) PROVE b[i] # b[i + 1]
  <2>1. i \in 1..m /\ Len(h) + Len(f) >= m
    BY <1>0, <1>1
  <2>2. CASE i = m
    BY <1>1, <2>1, <2>2
  <2>3. CASE i < m
    <3>1. i \in 1..(Len(LineOf(h, f)) - 1) /\ i + 1 \in 1..m
      BY <1>0, <2>1, <2>3, LineLaid
    <3>2. LineOf(h, f)[i] = h[i] /\ LineOf(h, f)[i + 1] = h[i + 1]
      BY <2>1, <3>1, LineLaid
    <3> QED BY <1>1, <2>1, <3>1, <3>2 DEF Moves
  <2> QED BY <1>0, <2>1, <2>2, <2>3
<1> QED BY <1>2, <1>3 DEF Moves


\* A call of the kernel's type.
CallIn(c) == c \in [st : {"idle", "dns", "tcp", "hello", "flight", "read", "done", "failed"},
                    asked : Fetch!Names, path : Paths, ip : Fetch!Names, hop : 0..MaxRedir, tls : BOOLEAN,
                    cert : Fetch!Names, sent : BOOLEAN, got : BOOLEAN]

\* What CallSound says of a call c and the trust t, when no page is on screen.
CallAt(c, t) ==
    /\ c.sent => c.cert = c.asked /\ (c.ip \in Honest => c.ip = c.asked)
    /\ c.sent => c.st \in {"read", "done"}
    /\ c.st \in {"hello", "flight", "read"} => c.tls
    /\ c.tls => c.asked \in Sites
    /\ c.cert # NoHost => c.st \in {"flight", "read", "done"} /\ (c.ip \in Honest => c.cert = c.ip)
    /\ c.st = "read" => c.sent
    /\ c.st = "done" => IF c.sent THEN t = 1 ELSE t = 0

LEMMA WebCallAt == /\ Fetch!CallSound <=> CallAt(fetch, trust) /\ (page # "loading" => fetch = Fetch!Idle)
                   /\ Fetch!CallSound' <=> CallAt(fetch', trust') /\ (page' # "loading" => fetch' = Fetch!Idle)
BY DEF Fetch!CallSound, CallAt, Fetch!SentToNamed, Fetch!Idle

LEMMA WebIdle ==
  ASSUME Fetch!WebConstants
  PROVE  CallIn(Fetch!Idle) /\ Fetch!Idle.st = "idle" /\ \A t : CallAt(Fetch!Idle, t)
BY DEF Fetch!WebConstants, Fetch!Idle, CallIn, CallAt, Fetch!Names

LEMMA WebFails ==
  ASSUME Fetch!WebConstants, Fetch!Fail
  PROVE  CallIn(fetch') /\ \A t : CallAt(fetch', t)
<1> PICK c : c = [Fetch!Idle EXCEPT !.st = "failed"]
  OBVIOUS
<1>0. c = [st |-> "failed", asked |-> NoHost, path |-> "/", ip |-> NoHost, hop |-> 0,
           tls |-> FALSE, cert |-> NoHost, sent |-> FALSE, got |-> FALSE]
  BY DEF Fetch!Idle
<1>1. CallIn(c)
  <2>1. CallIn([st |-> "failed", asked |-> NoHost, path |-> "/", ip |-> NoHost, hop |-> 0,
                tls |-> FALSE, cert |-> NoHost, sent |-> FALSE, got |-> FALSE])
    BY DEF Fetch!WebConstants, CallIn, Fetch!Names
  <2> QED BY <1>0, <2>1
<1>2. c.st = "failed" /\ c.sent = FALSE /\ c.tls = FALSE /\ c.cert = NoHost
  BY <1>0
<1>3. \A t : CallAt(c, t)
  BY <1>2 DEF CallAt
<1> QED BY <1>1, <1>3 DEF Fetch!Fail

LEMMA WebAsks ==
  ASSUME Fetch!WebConstants, NEW h \in Fetch!Names, NEW p \in Paths, NEW n \in 0..MaxRedir, NEW tls \in BOOLEAN,
         tls => h \in Sites
  PROVE  CallIn(Fetch!Asking(h, p, n, tls)) /\ \A t : CallAt(Fetch!Asking(h, p, n, tls), t)
BY DEF Fetch!WebConstants, Fetch!Asking, Fetch!Idle, CallIn, CallAt, Fetch!Names

\* What links lead to, and what is asked for, has a name to be asked by.
LEMMA WebTargets ==
  ASSUME Fetch!WebConstants, NEW t \in Fetch!Targets
  PROVE  /\ t.host \in Fetch!Names /\ t.path \in Paths /\ (t.scheme = "https") \in BOOLEAN
         /\ t.scheme = "https" => t.host \in Sites
BY DEF Fetch!WebConstants, Fetch!Targets, Fetch!Absolute, Fetch!Address, Fetch!Relative, Fetch!Schemes, Fetch!Names

LEMMA WebWanted ==
  ASSUME Fetch!WebConstants, NEW a \in Fetch!Addresses, a.kind # "local", NEW t \in Fetch!FetchTargets(a)
  PROVE  /\ t.host \in Fetch!Names /\ t.path \in Paths /\ (t.scheme = "https") \in BOOLEAN
         /\ t.scheme = "https" => t.host \in Sites
<1>1. CASE a \in Fetch!Absolute
  <2>1. t = a
    BY <1>1 DEF Fetch!FetchTargets, Fetch!Absolute, Fetch!Address
  <2> QED BY <1>1, <2>1 DEF Fetch!WebConstants, Fetch!Absolute, Fetch!Address, Fetch!Schemes, Fetch!Names
<1>2. CASE a \notin Fetch!Absolute
  <2>3. a \in {Fetch!Words, Fetch!Broken, Fetch!Local, Fetch!Empty}
    BY <1>2 DEF Fetch!Addresses
  <2>1. a.kind = "words" \/ a.kind = "broken"
    <3>1. Fetch!Words.kind = "words" /\ Fetch!Broken.kind = "broken"
      BY DEF Fetch!Words, Fetch!Broken
    <3>2. Fetch!Local.kind = "local" /\ Fetch!Empty.kind = "local"
      BY DEF Fetch!Local, Fetch!Empty
    <3> QED BY <2>3, <3>1, <3>2
  <2>2. t \in {Fetch!Address("https", Search, "/"), Fetch!Address("none", NoHost, "/")}
    BY <2>1 DEF Fetch!FetchTargets
  <2> QED BY <2>2 DEF Fetch!WebConstants, Fetch!Address, Fetch!Names
<1> QED BY <1>1, <1>2

LEMMA WebInit == Fetch!WebConstants /\ Fetch!Init => Fetch!WebInv
<1> SUFFICES ASSUME Fetch!WebConstants, Fetch!Init PROVE Fetch!WebInv
  OBVIOUS
<1>1. CallIn(fetch) /\ CallAt(fetch, trust) /\ fetch = Fetch!Idle
  BY WebIdle DEF Fetch!Init
<1>2. Fetch!Home \in Fetch!Addresses
  BY DEF Fetch!Home, Fetch!Addresses, Fetch!Absolute, Fetch!Address, Fetch!Schemes, Fetch!WebConstants
<1>3. Fetch!TypeOK
  <2>1. Fetch!NoPage \in [asked : Fetch!Names, from : Fetch!Names, named : Fetch!Names, via : {"none", "plain", "tls"}]
    BY DEF Fetch!NoPage, Fetch!Names
  <2>2. history \in Seq(Fetch!Addresses) /\ fwd \in Seq(Fetch!Addresses)
    BY DEF Fetch!Init
  <2> QED BY <1>1, <1>2, <2>1, <2>2 DEF Fetch!Init, Fetch!TypeOK, CallIn
<1>4. Fetch!LockSound
  BY DEF Fetch!LockSound, Fetch!Init
<1>5. Fetch!LineSound
  <2>1. history = <<>>
    BY DEF Fetch!Init
  <2>5. Len(history) = 0 /\ Len(fwd) = 0
    BY DEF Fetch!Init
  <2>4. history \in Seq(Fetch!Addresses) /\ fwd \in Seq(Fetch!Addresses)
    BY <1>3 DEF Fetch!TypeOK
  <2>2. Fetch!Line = LineOf(history, fwd)
    BY DEF Fetch!Line, LineOf
  <2>3. Len(LineOf(history, fwd)) = 0
    <3> PICK A, h, f : A = Fetch!Addresses /\ h = history /\ f = fwd
      OBVIOUS
    <3>1. h \in Seq(A) /\ f \in Seq(A) /\ Len(h) = 0 /\ Len(f) = 0
      BY <2>4, <2>5
    <3>2. Len(LineOf(h, f)) = Len(h) + Len(f)
      BY <3>1, LineLaid
    <3> QED BY <3>1, <3>2
  <2> QED BY <2>1, <2>2, <2>3 DEF Fetch!LineSound
<1> QED BY <1>1, <1>3, <1>4, <1>5, WebCallAt DEF Fetch!WebInv

\* The kernel's part of a step: the browser waits while a call is under way.
CallKept == CallIn(fetch') /\ CallAt(fetch', trust') /\ answers' \subseteq Sites /\ trust' \in {-1, 0, 1}

LEMMA WebResolves ==
  ASSUME Fetch!WebConstants, CallIn(fetch), CallAt(fetch, trust), answers \subseteq Sites, trust \in {-1, 0, 1},
         Fetch!DnsAnswer \/ Fetch!DnsTimeout
  PROVE  CallKept
<1>0. fetch.asked \in Fetch!Names /\ Fetch!Names = Sites \cup {NoHost}
  BY DEF CallIn, Fetch!Names
<1>1. CASE Fetch!DnsAnswer
  <2> PICK h \in answers \cup ({fetch.asked} \ {NoHost}) :
        /\ fetch' = [fetch EXCEPT !.st = IF fetch.tls THEN "hello" ELSE "tcp", !.ip = h]
        /\ answers' = answers \ {h}
    BY <1>1 DEF Fetch!DnsAnswer
  <2>1. h \in Sites /\ fetch.st = "dns" /\ trust' = trust
    BY <1>0, <1>1 DEF Fetch!DnsAnswer
  <2> PICK s : s = IF fetch.tls THEN "hello" ELSE "tcp"
    OBVIOUS
  <2>2. s \in {"hello", "tcp"} /\ (s = "hello" => fetch.tls)
    BY DEF CallIn
  <2>3. fetch' = [fetch EXCEPT !.st = s, !.ip = h] /\ answers' \subseteq Sites
    OBVIOUS
  <2>4. CallIn(fetch')
    BY <1>0, <2>1, <2>2, <2>3 DEF CallIn
  <2>5. CallAt(fetch', trust)
    <3>1. fetch.sent = FALSE /\ fetch.cert = NoHost
      BY <2>1 DEF CallIn, CallAt
    <3>2. /\ fetch'.st = s /\ fetch'.sent = FALSE /\ fetch'.tls = fetch.tls /\ fetch'.asked = fetch.asked
          /\ fetch'.cert = fetch.cert
      BY <2>3, <3>1 DEF CallIn
    <3>3. fetch.tls \in BOOLEAN /\ (fetch.tls => fetch.asked \in Sites)
      BY DEF CallIn, CallAt
    <3> PICK c : c = fetch'
      OBVIOUS
    <3>4. /\ c.st = s /\ c.sent = FALSE /\ c.cert = NoHost /\ (s = "hello" => c.tls) /\ (c.tls => c.asked \in Sites)
      BY <2>2, <3>1, <3>2, <3>3
    <3>5. s # "read" /\ s # "flight" /\ s # "done"
      BY <2>2
    <3>6. CallAt(c, trust)
      BY <3>4, <3>5 DEF CallAt
    <3> QED BY <3>6
  <2> QED BY <2>1, <2>3, <2>4, <2>5 DEF CallKept
<1>2. CASE Fetch!DnsTimeout
  <2>1. answers' \subseteq Sites /\ trust' = trust /\ Fetch!Fail
    BY <1>0, <1>2 DEF Fetch!DnsTimeout
  <2> QED BY <2>1, WebFails DEF CallKept
<1> QED BY <1>1, <1>2

LEMMA WebReceives ==
  ASSUME Fetch!WebConstants, CallIn(fetch), CallAt(fetch, trust), answers \subseteq Sites, trust \in {-1, 0, 1},
         Fetch!TcpFails \/ Fetch!PageArrives \/ Fetch!Redirect
  PROVE  CallKept
<1>1. CASE Fetch!TcpFails
  BY <1>1, WebFails DEF CallKept, Fetch!TcpFails
<1>2. CASE Fetch!PageArrives
  BY <1>2 DEF CallKept, Fetch!PageArrives, CallIn, CallAt
<1>3. CASE Fetch!Redirect
  <2> PICK t \in Fetch!Targets : fetch' = Fetch!Asking(t.host, t.path, fetch.hop + 1, t.scheme = "https")
    BY <1>3 DEF Fetch!Redirect
  <2>1. fetch.hop + 1 \in 0..MaxRedir /\ answers' = answers /\ trust' = trust
    BY <1>3 DEF Fetch!Redirect, CallIn, Fetch!WebConstants
  <2> QED BY <2>1, WebTargets, WebAsks DEF CallKept
<1> QED BY <1>1, <1>2, <1>3

LEMMA WebHandshakes ==
  ASSUME Fetch!WebConstants, CallIn(fetch), CallAt(fetch, trust), answers \subseteq Sites, trust \in {-1, 0, 1},
         Fetch!ServerHello \/ Fetch!TlsFails \/ Fetch!Certificate \/ Fetch!Finished \/ Fetch!ReadRecord
  PROVE  CallKept
<1>1. CASE Fetch!ServerHello
  BY <1>1 DEF CallKept, Fetch!ServerHello, CallIn, CallAt
<1>2. CASE Fetch!TlsFails
  BY <1>2, WebFails DEF CallKept, Fetch!TlsFails
<1>3. CASE Fetch!Certificate
  <2>1. PICK name \in Fetch!Names : /\ fetch' = [fetch EXCEPT !.cert = name]
                                    /\ fetch.ip \in Honest => name = fetch.ip
    BY <1>3 DEF Fetch!Certificate, CallIn
  <2>2. trust' = trust /\ answers' = answers /\ fetch.st = "flight" /\ fetch.sent = FALSE
    BY <1>3 DEF Fetch!Certificate, CallIn, CallAt
  <2>3. CallIn(fetch')
    BY <2>1 DEF CallIn
  <2>4. CallAt(fetch', trust)
    BY <2>1, <2>2 DEF CallIn, CallAt
  <2> QED BY <2>2, <2>3, <2>4 DEF CallKept
<1>4. CASE Fetch!Finished
  <2>1. CASE fetch.cert = fetch.asked
    <3>1. /\ fetch.tls /\ fetch.asked \in Sites /\ NoHost \notin Sites
          /\ fetch.ip \in Honest => fetch.cert = fetch.ip
      BY <1>4, <2>1 DEF Fetch!Finished, CallAt, Fetch!WebConstants
    <3>2. fetch' = [fetch EXCEPT !.st = "read", !.sent = TRUE] /\ trust' = trust /\ answers' = answers
      BY <1>4, <2>1 DEF Fetch!Finished
    <3> QED BY <2>1, <3>1, <3>2 DEF CallKept, CallIn, CallAt
  <2>2. CASE fetch.cert # fetch.asked
    BY <1>4, <2>2, WebFails DEF CallKept, Fetch!Finished
  <2> QED BY <2>1, <2>2
<1>5. CASE Fetch!ReadRecord
  <2>1. CASE fetch' = [fetch EXCEPT !.got = TRUE] /\ trust' = trust
    BY <1>5, <2>1 DEF CallKept, Fetch!ReadRecord, CallIn, CallAt
  <2>2. CASE fetch' = [fetch EXCEPT !.st = "done"] /\ trust' = 1
    BY <1>5, <2>2 DEF CallKept, Fetch!ReadRecord, CallIn, CallAt
  <2>3. CASE Fetch!Fail /\ trust' = -1
    BY <1>5, <2>3, WebFails DEF CallKept, Fetch!ReadRecord
  <2> QED BY <1>5, <2>1, <2>2, <2>3 DEF Fetch!ReadRecord
<1> QED BY <1>1, <1>2, <1>3, <1>4, <1>5

\* The line, the lock and what is on screen, when the browser does nothing.
LEMMA WebLineStays ==
  ASSUME Fetch!LineSound, UNCHANGED <<bar, history, fwd, edited>>
  PROVE  Fetch!LineSound' /\ Fetch!Line' = Fetch!Line
<1>1. Fetch!Line' = Fetch!Line
  BY DEF Fetch!Line
<1> QED BY <1>1 DEF Fetch!LineSound

\* The browser's part of a step, but for its history.
ScreenKept ==
    /\ link' = link /\ CallIn(fetch') /\ answers' \subseteq Sites /\ trust' \in {-1, 0, 1}
    /\ bar' \in Fetch!Addresses /\ page' \in {"static", "loading", "live", "err"}
    /\ security' \in {"none", "insecure", "secure"}
    /\ shown' \in [asked : Fetch!Names, from : Fetch!Names, named : Fetch!Names, via : {"none", "plain", "tls"}]
    /\ Fetch!CallSound' /\ Fetch!LockSound'

LEMMA WebStarts ==
  ASSUME Fetch!WebConstants, NEW t, t.host \in Fetch!Names, t.path \in Paths, (t.scheme = "https") \in BOOLEAN,
         t.scheme = "https" => t.host \in Sites, Fetch!Fetch(t)
  PROVE  CallIn(fetch') /\ \A r : CallAt(fetch', r)
<1>1. CASE link = "dns"
  <2>1. 0 \in 0..MaxRedir /\ fetch' = Fetch!Asking(t.host, t.path, 0, t.scheme = "https")
    BY <1>1 DEF Fetch!Fetch, Fetch!WebConstants
  <2> QED BY <2>1, WebAsks
<1>2. CASE link # "dns"
  <2>1. Fetch!Fail
    BY <1>2 DEF Fetch!Fetch, Fetch!Fail
  <2> QED BY <2>1, WebFails
<1> QED BY <1>1, <1>2

LEMMA WebFetches ==
  ASSUME Fetch!WebConstants, Fetch!TypeOK, Fetch!CallSound, page # "loading", NEW a \in Fetch!Addresses, Fetch!DoFetch(a)
  PROVE  ScreenKept /\ bar' = a
<1>0. bar' = a
  BY DEF Fetch!DoFetch
<1>1. CASE a.kind = "local"
  <2>1. /\ page' = "static" /\ security' = "none" /\ shown' = Fetch!NoPage
        /\ link' = link /\ trust' = trust /\ answers' = answers /\ fetch' = fetch
    BY <1>1 DEF Fetch!DoFetch, Fetch!kernel
  <2>2. CallIn(fetch) /\ answers \subseteq Sites /\ trust \in {-1, 0, 1}
    BY DEF Fetch!TypeOK, CallIn
  <2>3. fetch = Fetch!Idle
    BY DEF Fetch!CallSound
  <2>4. Fetch!CallSound'
    BY <2>1, <2>3, WebCallAt
  <2>5. Fetch!LockSound'
    BY <2>1 DEF Fetch!LockSound
  <2>6. Fetch!NoPage \in [asked : Fetch!Names, from : Fetch!Names, named : Fetch!Names, via : {"none", "plain", "tls"}]
    BY DEF Fetch!NoPage, Fetch!Names
  <2> QED BY <1>0, <2>1, <2>2, <2>4, <2>5, <2>6 DEF ScreenKept
<1>2. CASE a.kind # "local"
  <2>1. /\ page' = "loading" /\ trust' = -1 /\ security' = security /\ shown' = shown /\ link' = link
        /\ answers' = answers
    BY <1>2 DEF Fetch!DoFetch
  <2>2. PICK t \in Fetch!FetchTargets(a) : Fetch!Fetch(t)
    BY <1>2 DEF Fetch!DoFetch
  <2>3. /\ t.host \in Fetch!Names /\ t.path \in Paths /\ (t.scheme = "https") \in BOOLEAN
        /\ t.scheme = "https" => t.host \in Sites
    BY <1>2, WebWanted
  <2>4. CallIn(fetch') /\ \A r : CallAt(fetch', r)
    BY <2>2, <2>3, WebStarts
  <2>5. Fetch!CallSound'
    BY <2>1, <2>4, WebCallAt
  <2>6. Fetch!LockSound'
    BY <2>1 DEF Fetch!LockSound
  <2>7. answers \subseteq Sites /\ security \in {"none", "insecure", "secure"}
        /\ shown \in [asked : Fetch!Names, from : Fetch!Names, named : Fetch!Names, via : {"none", "plain", "tls"}]
    BY DEF Fetch!TypeOK
  <2> QED BY <1>0, <2>1, <2>4, <2>5, <2>6, <2>7 DEF ScreenKept
<1> QED BY <1>0, <1>1, <1>2

\* The address bar changes and nothing else does.
LEMMA WebEdits ==
  ASSUME Fetch!TypeOK, Fetch!CallSound, Fetch!LockSound, bar' \in Fetch!Addresses,
         UNCHANGED <<link, trust, answers, fetch, page, security, shown>>
  PROVE  ScreenKept
<1>1. Fetch!CallSound' /\ Fetch!LockSound'
  BY WebCallAt DEF Fetch!LockSound
<1> QED BY <1>1 DEF ScreenKept, Fetch!TypeOK, CallIn

\* The call returns.
LEMMA WebReturns ==
  ASSUME Fetch!WebConstants, Fetch!TypeOK, Fetch!CallSound, Fetch!Returns
  PROVE  ScreenKept
<1>0. /\ fetch' = Fetch!Idle /\ link' = link /\ trust' = trust /\ answers' = answers /\ bar' = bar
      /\ page' \in {"live", "err"}
  BY DEF Fetch!Returns
<1>1. CallIn(fetch') /\ Fetch!CallSound'
  BY <1>0, WebIdle, WebCallAt
<1>2. fetch.asked \in Fetch!Names /\ fetch.ip \in Fetch!Names /\ fetch.cert \in Fetch!Names /\ fetch.sent \in BOOLEAN
  BY DEF Fetch!TypeOK
<1>3. answers \subseteq Sites /\ trust \in {-1, 0, 1} /\ bar \in Fetch!Addresses
  BY DEF Fetch!TypeOK
<1>4. CASE fetch.got /\ fetch.st = "done"
  <2>1. /\ page' = "live"
        /\ shown' = [asked |-> fetch.asked, from |-> fetch.ip, named |-> fetch.cert,
                     via |-> IF fetch.sent THEN "tls" ELSE "plain"]
        /\ security' = (CASE trust = 1 -> "secure" [] trust = 0 -> "insecure" [] OTHER -> "none")
    BY <1>4 DEF Fetch!Returns
  <2>2. CASE fetch.sent
    <3>1. trust = 1 /\ fetch.cert = fetch.asked /\ (fetch.ip \in Honest => fetch.ip = fetch.asked)
      BY <1>4, <2>2 DEF Fetch!CallSound, Fetch!SentToNamed
    <3>2. /\ security' = "secure"
          /\ shown' = [asked |-> fetch.asked, from |-> fetch.ip, named |-> fetch.cert, via |-> "tls"]
      BY <2>1, <2>2, <3>1
    <3>3. Fetch!LockSound'
      BY <2>1, <3>1, <3>2 DEF Fetch!LockSound
    <3> QED BY <1>0, <1>1, <1>2, <1>3, <3>2, <3>3 DEF ScreenKept
  <2>3. CASE ~fetch.sent
    <3>1. trust = 0
      BY <1>4, <2>3 DEF Fetch!CallSound
    <3>2. /\ security' = "insecure"
          /\ shown' = [asked |-> fetch.asked, from |-> fetch.ip, named |-> fetch.cert, via |-> "plain"]
      BY <2>1, <2>3, <3>1
    <3>3. Fetch!LockSound'
      BY <2>1, <3>2 DEF Fetch!LockSound
    <3> QED BY <1>0, <1>1, <1>2, <1>3, <3>2, <3>3 DEF ScreenKept
  <2> QED BY <2>2, <2>3
<1>5. CASE ~(fetch.got /\ fetch.st = "done")
  <2>1. page' = "err" /\ security' = "none" /\ shown' = Fetch!NoPage
    BY <1>5 DEF Fetch!Returns
  <2>2. Fetch!LockSound'
    BY <2>1 DEF Fetch!LockSound
  <2>3. Fetch!NoPage \in [asked : Fetch!Names, from : Fetch!Names, named : Fetch!Names, via : {"none", "plain", "tls"}]
    BY DEF Fetch!NoPage, Fetch!Names
  <2> QED BY <1>0, <1>1, <1>3, <2>1, <2>2, <2>3 DEF ScreenKept
<1> QED BY <1>4, <1>5

\* The browser's history.
HistoryKept == /\ history' \in Seq(Fetch!Addresses) /\ fwd' \in Seq(Fetch!Addresses) /\ edited' \in BOOLEAN
               /\ Fetch!LineSound' /\ Fetch!LineKept

LEMMA WebLine == /\ Fetch!Line = LineOf(history, fwd)
                 /\ Fetch!Line' = LineOf(history', fwd')
                 /\ Fetch!LineSound <=> /\ Moves(LineOf(history, fwd))
                                        /\ history # <<>> /\ ~edited => bar = history[Len(history)]
                 /\ Fetch!LineSound' <=> /\ Moves(LineOf(history', fwd'))
                                         /\ history' # <<>> /\ ~edited' => bar' = history'[Len(history')]
<1>1. Fetch!Line = LineOf(history, fwd) /\ Fetch!Line' = LineOf(history', fwd')
  BY DEF Fetch!Line, LineOf
<1> QED BY <1>1 DEF Fetch!LineSound, Moves

\* The list stays, and the bar shows its last page or has been changed.
LEMMA WebLineSame ==
  ASSUME Fetch!TypeOK, Fetch!LineSound, history' = history, fwd' = fwd, edited' \in BOOLEAN,
         history # <<>> /\ ~edited' => bar' = history[Len(history)]
  PROVE  HistoryKept
<1>1. Fetch!Line' = Fetch!Line
  BY WebLine
<1>2. history \in Seq(Fetch!Addresses) /\ fwd \in Seq(Fetch!Addresses)
  BY DEF Fetch!TypeOK
<1> QED BY <1>1, <1>2, WebLine DEF HistoryKept, Fetch!LineKept

LEMMA WebNavigates ==
  ASSUME Fetch!WebConstants, Fetch!TypeOK, Fetch!CallSound, Fetch!LineSound, page # "loading",
         NEW a \in Fetch!Addresses, Fetch!Navigate(a)
  PROVE  ScreenKept /\ HistoryKept
<1>1. ScreenKept /\ bar' = a
  BY WebFetches DEF Fetch!Navigate
<1>2. edited' = (a = Fetch!Empty) /\ edited' \in BOOLEAN
  BY DEF Fetch!Navigate
<1>3. CASE a = Fetch!Empty \/ (history # <<>> /\ history[Len(history)] = a)
  <2>1. history' = history /\ fwd' = fwd
    BY <1>3 DEF Fetch!Navigate
  <2> QED BY <1>1, <1>2, <1>3, <2>1, WebLineSame
<1>4. CASE ~(a = Fetch!Empty \/ (history # <<>> /\ history[Len(history)] = a))
  <2>1. history' = Append(history, a) /\ fwd' = <<>>
    BY <1>4 DEF Fetch!Navigate
  <2>2. history \in Seq(Fetch!Addresses) /\ fwd \in Seq(Fetch!Addresses)
    BY DEF Fetch!TypeOK
  <2>3. Moves(LineOf(history, fwd)) /\ (history = <<>> \/ history[Len(history)] # a)
    BY <1>4, WebLine
  <2>4. Moves(LineOf(Append(history, a), <<>>))
    BY <2>2, <2>3, LineGrows
  <2>5. history' \in Seq(Fetch!Addresses) /\ fwd' \in Seq(Fetch!Addresses) /\ history'[Len(history')] = a
    BY <2>1, <2>2
  <2>6. Fetch!LineSound'
    BY <1>1, <2>1, <2>4, <2>5, WebLine
  <2>7. Fetch!LineKept
    BY <1>1, <2>1 DEF Fetch!LineKept
  <2> QED BY <1>1, <1>2, <2>5, <2>6, <2>7 DEF HistoryKept
<1> QED BY <1>3, <1>4

LEMMA WebGoesBack ==
  ASSUME Fetch!WebConstants, Fetch!TypeOK, Fetch!CallSound, Fetch!LineSound, page # "loading", Fetch!GoBack
  PROVE  ScreenKept /\ HistoryKept
<1>0. history \in Seq(Fetch!Addresses) /\ fwd \in Seq(Fetch!Addresses) /\ Moves(LineOf(history, fwd))
  BY WebLine DEF Fetch!TypeOK
<1>1. CASE Len(history) >= 2
  <2> PICK n : n = Len(history)
    OBVIOUS
  <2>1. /\ history' = SubSeq(history, 1, n - 1) /\ fwd' = Append(fwd, history[n]) /\ edited' = FALSE
        /\ Fetch!DoFetch(history[n - 1])
    BY <1>1 DEF Fetch!GoBack
  <2>2. n \in Nat /\ n >= 2 /\ history[n - 1] \in Fetch!Addresses /\ history[n] \in Fetch!Addresses
    BY <1>0, <1>1
  <2>3. ScreenKept /\ bar' = history[n - 1]
    BY <2>1, <2>2, WebFetches
  <2>4. LineOf(history', fwd') = LineOf(history, fwd)
    BY <1>0, <2>1, <2>2, LineBack
  <2>5. history' \in Seq(Fetch!Addresses) /\ fwd' \in Seq(Fetch!Addresses) /\ Len(history') = n - 1
        /\ history'[n - 1] = history[n - 1]
    BY <1>0, <2>1, <2>2
  <2>6. Fetch!LineSound' /\ Fetch!LineKept
    BY <1>0, <2>3, <2>4, <2>5, WebLine DEF Fetch!LineKept
  <2> QED BY <2>1, <2>3, <2>5, <2>6 DEF HistoryKept
<1>2. CASE ~(Len(history) >= 2)
  <2>1. /\ page' = "static" /\ bar' = Fetch!Local /\ security' = "none" /\ shown' = Fetch!NoPage /\ edited' = TRUE
        /\ UNCHANGED <<link, trust, answers, fetch, history, fwd>>
    BY <1>2 DEF Fetch!GoBack, Fetch!kernel
  <2>2. fetch = Fetch!Idle /\ Fetch!CallSound'
    BY <2>1, WebCallAt
  <2>3. Fetch!LockSound' /\ HistoryKept
    BY <2>1, WebLineSame DEF Fetch!LockSound
  <2>4. Fetch!NoPage \in [asked : Fetch!Names, from : Fetch!Names, named : Fetch!Names, via : {"none", "plain", "tls"}]
    BY DEF Fetch!NoPage, Fetch!Names
  <2>5. Fetch!Local \in Fetch!Addresses
    BY DEF Fetch!Addresses
  <2> QED BY <2>1, <2>2, <2>3, <2>4, <2>5 DEF ScreenKept, Fetch!TypeOK, CallIn
<1> QED BY <1>1, <1>2

LEMMA WebGoesForward ==
  ASSUME Fetch!WebConstants, Fetch!TypeOK, Fetch!CallSound, Fetch!LineSound, page # "loading", Fetch!GoForward
  PROVE  ScreenKept /\ HistoryKept
<1>0. history \in Seq(Fetch!Addresses) /\ fwd \in Seq(Fetch!Addresses) /\ Moves(LineOf(history, fwd))
  BY WebLine DEF Fetch!TypeOK
<1> PICK n : n = Len(fwd)
  OBVIOUS
<1>1. /\ history' = Append(history, fwd[n]) /\ fwd' = SubSeq(fwd, 1, n - 1) /\ edited' = FALSE
      /\ Fetch!DoFetch(fwd[n]) /\ fwd # <<>>
  BY DEF Fetch!GoForward
<1>2. n \in Nat /\ n >= 1 /\ fwd[n] \in Fetch!Addresses
  BY <1>0, <1>1
<1>3. ScreenKept /\ bar' = fwd[n]
  BY <1>1, <1>2, WebFetches
<1>4. LineOf(history', fwd') = LineOf(history, fwd)
  BY <1>0, <1>1, LineAhead
<1>5. history' \in Seq(Fetch!Addresses) /\ fwd' \in Seq(Fetch!Addresses) /\ history'[Len(history')] = fwd[n]
  BY <1>0, <1>1, <1>2
<1>6. Fetch!LineSound' /\ Fetch!LineKept
  BY <1>0, <1>3, <1>4, <1>5, WebLine DEF Fetch!LineKept
<1> QED BY <1>1, <1>3, <1>5, <1>6 DEF HistoryKept

LEMMA WebResolvesHref ==
  ASSUME Fetch!WebConstants, bar \in Fetch!Addresses, NEW t \in Fetch!Targets
  PROVE  Fetch!ResolveHref(t) \in Fetch!Addresses
<1>1. CASE t.kind # "relative"
  <2>1. t \in Fetch!Absolute /\ Fetch!ResolveHref(t) = t
    BY <1>1 DEF Fetch!Targets, Fetch!Relative, Fetch!ResolveHref
  <2> QED BY <2>1 DEF Fetch!Addresses
<1>2. CASE t.kind = "relative" /\ bar.kind = "url" /\ bar.scheme = "none"
  <2>1. Fetch!ResolveHref(t) = Fetch!Address("none", bar.host, t.path)
    BY <1>2 DEF Fetch!ResolveHref
  <2>2. bar \in Fetch!Absolute
    <3>1. /\ Fetch!Words.kind # "url" /\ Fetch!Broken.kind # "url" /\ Fetch!Local.kind # "url"
          /\ Fetch!Empty.kind # "url"
      BY DEF Fetch!Words, Fetch!Broken, Fetch!Local, Fetch!Empty
    <3>2. bar \in Fetch!Absolute \/ bar \in {Fetch!Words, Fetch!Broken, Fetch!Local, Fetch!Empty}
      BY DEF Fetch!Addresses
    <3> QED BY <1>2, <3>1, <3>2
  <2>3. bar.host \in Sites
    BY <2>2 DEF Fetch!Absolute, Fetch!Address
  <2>4. t.path \in Paths
    BY WebTargets
  <2>5. Fetch!Address("none", bar.host, t.path) \in Fetch!Absolute
    BY <2>3, <2>4 DEF Fetch!Absolute, Fetch!Schemes
  <2> QED BY <2>1, <2>5 DEF Fetch!Addresses
<1>3. CASE t.kind = "relative" /\ ~(bar.kind = "url" /\ bar.scheme = "none")
  <2>1. Fetch!ResolveHref(t) \in {Fetch!Words, Fetch!Broken}
    BY <1>3 DEF Fetch!ResolveHref
  <2> QED BY <2>1 DEF Fetch!Addresses
<1> QED BY <1>1, <1>2, <1>3

LEMMA WebStep ==
  ASSUME Fetch!WebConstants, Fetch!WebInv, [Fetch!Next]_(Fetch!vars)
  PROVE  Fetch!WebInv' /\ (Fetch!LineKept \/ UNCHANGED Fetch!vars)
<1>0. Fetch!TypeOK /\ Fetch!CallSound /\ Fetch!LockSound /\ Fetch!LineSound
  BY DEF Fetch!WebInv
<1>1. ASSUME ScreenKept, HistoryKept PROVE Fetch!WebInv' /\ Fetch!LineKept
  BY <1>0, <1>1 DEF ScreenKept, HistoryKept, Fetch!WebInv, Fetch!TypeOK, CallIn
<1>a. CallIn(fetch) /\ CallAt(fetch, trust) /\ answers \subseteq Sites /\ trust \in {-1, 0, 1}
  BY <1>0, WebCallAt DEF Fetch!TypeOK, CallIn
<1>2. CASE UNCHANGED Fetch!vars
  <2>1. UNCHANGED <<link, trust, answers, fetch, bar, page, security, shown, history, fwd, edited>>
    BY <1>2 DEF Fetch!vars, Fetch!kernel, Fetch!browser
  <2>2. ScreenKept
    BY <1>0, <2>1, WebEdits DEF Fetch!TypeOK
  <2>3. HistoryKept
    BY <1>0, <2>1, WebLineSame, WebLine DEF Fetch!TypeOK
  <2> QED BY <1>1, <2>2, <2>3
<1>3. CASE Fetch!Kernel
  <2>1. UNCHANGED <<bar, page, security, shown, history, fwd, edited>>
    BY <1>3 DEF Fetch!Kernel, Fetch!ArpGateway, Fetch!Ping, Fetch!Dhcp, Fetch!ArpDns, Fetch!Step, Fetch!browser,
       Fetch!DnsAnswer, Fetch!DnsTimeout, Fetch!TcpFails, Fetch!PageArrives, Fetch!Redirect, Fetch!ServerHello,
       Fetch!TlsFails, Fetch!Certificate, Fetch!Finished, Fetch!ReadRecord
  <2>2. HistoryKept
    BY <1>0, <2>1, WebLineSame, WebLine DEF Fetch!TypeOK
  <2>3. CASE Fetch!ArpGateway \/ Fetch!Ping \/ Fetch!Dhcp \/ Fetch!ArpDns
    <3>1. /\ link' \in {"probed", "gateway", "pinged", "lease", "nolease", "dns", "nodns", "down"}
          /\ UNCHANGED <<trust, answers, fetch>>
      BY <2>3 DEF Fetch!ArpGateway, Fetch!Ping, Fetch!Dhcp, Fetch!ArpDns, Fetch!Step
    <3>2. Fetch!CallSound' /\ Fetch!LockSound'
      BY <1>0, <2>1, <3>1, WebCallAt DEF Fetch!LockSound
    <3>3. Fetch!TypeOK'
      BY <1>0, <2>1, <3>1 DEF Fetch!TypeOK
    <3> QED BY <2>2, <3>2, <3>3 DEF HistoryKept, Fetch!WebInv
  <2>4. CASE ~(Fetch!ArpGateway \/ Fetch!Ping \/ Fetch!Dhcp \/ Fetch!ArpDns)
    <3>1. CallKept
      BY <1>3, <1>a, <2>4, WebResolves, WebReceives, WebHandshakes DEF Fetch!Kernel
    <3>2. fetch.st # "idle" /\ link' = link
      BY <1>3, <2>4 DEF Fetch!Kernel, Fetch!DnsAnswer, Fetch!DnsTimeout, Fetch!TcpFails, Fetch!PageArrives,
         Fetch!Redirect, Fetch!ServerHello, Fetch!TlsFails, Fetch!Certificate, Fetch!Finished, Fetch!ReadRecord
    <3>3. page = "loading"
      BY <1>0, <3>2, WebCallAt DEF Fetch!Idle
    <3>4. Fetch!CallSound' /\ Fetch!LockSound'
      BY <2>1, <3>1, <3>3, WebCallAt DEF Fetch!LockSound, CallKept
    <3>5. ScreenKept
      BY <1>0, <2>1, <3>1, <3>2, <3>4 DEF ScreenKept, CallKept, Fetch!TypeOK
    <3> QED BY <1>1, <2>2, <3>5
  <2> QED BY <2>3, <2>4
<1>4. CASE Fetch!Browser
  <2>1. CASE Fetch!Returns
    <3>1. ScreenKept
      BY <1>0, <2>1, WebReturns
    <3>2. UNCHANGED <<bar, history, fwd, edited>>
      BY <2>1 DEF Fetch!Returns
    <3>3. HistoryKept
      BY <1>0, <3>2, WebLineSame, WebLine DEF Fetch!TypeOK
    <3> QED BY <1>1, <3>1, <3>3
  <2>2. CASE \E a \in Typed \cup {bar} : Fetch!Enter(a)
    <3> PICK a \in Typed \cup {bar} : Fetch!Enter(a)
      BY <2>2
    <3>1. a \in Fetch!Addresses
      BY <1>0 DEF Fetch!WebConstants, Fetch!TypeOK
    <3>2. page # "loading" /\ Fetch!Navigate(a)
      BY DEF Fetch!Enter, Fetch!Ready
    <3> QED BY <1>0, <1>1, <3>1, <3>2, WebNavigates
  <2>3. CASE \E a \in Typed \cup {bar} : Fetch!Edit(a)
    <3> PICK a \in Typed \cup {bar} : Fetch!Edit(a)
      BY <2>3
    <3>1. a \in Fetch!Addresses
      BY <1>0 DEF Fetch!WebConstants, Fetch!TypeOK
    <3>2. /\ UNCHANGED <<link, trust, answers, fetch, page, security, shown, history, fwd>>
          /\ bar' = a /\ edited' = TRUE
      BY DEF Fetch!Edit, Fetch!kernel
    <3>3. ScreenKept
      BY <1>0, <3>1, <3>2, WebEdits
    <3>4. HistoryKept
      BY <1>0, <3>2, WebLineSame
    <3> QED BY <1>1, <3>3, <3>4
  <2>4. CASE \E t \in Fetch!Targets : Fetch!ClickLink(t)
    <3> PICK t \in Fetch!Targets : Fetch!ClickLink(t)
      BY <2>4
    <3>1. Fetch!ResolveHref(t) \in Fetch!Addresses
      BY <1>0, WebResolvesHref DEF Fetch!TypeOK
    <3>2. page # "loading" /\ Fetch!Navigate(Fetch!ResolveHref(t))
      BY DEF Fetch!ClickLink, Fetch!Ready
    <3> QED BY <1>0, <1>1, <3>1, <3>2, WebNavigates
  <2>5. CASE Fetch!Reload
    <3>1. page # "loading" /\ Fetch!DoFetch(bar) /\ UNCHANGED <<history, fwd, edited>> /\ bar \in Fetch!Addresses
      BY <1>0, <2>5 DEF Fetch!Reload, Fetch!Ready, Fetch!TypeOK
    <3>2. ScreenKept /\ bar' = bar
      BY <1>0, <3>1, WebFetches
    <3>3. HistoryKept
      BY <1>0, <3>1, <3>2, WebLineSame, WebLine DEF Fetch!TypeOK
    <3> QED BY <1>1, <3>2, <3>3
  <2>6. CASE Fetch!ClickStatic
    <3>1. /\ UNCHANGED <<link, trust, answers, fetch, page, security, shown, history, fwd>>
          /\ bar' = Fetch!Local /\ edited' = TRUE
      BY <2>6 DEF Fetch!ClickStatic, Fetch!kernel
    <3>2. Fetch!Local \in Fetch!Addresses
      BY DEF Fetch!Addresses
    <3>3. ScreenKept
      BY <1>0, <3>1, <3>2, WebEdits
    <3>4. HistoryKept
      BY <1>0, <3>1, WebLineSame
    <3> QED BY <1>1, <3>3, <3>4
  <2>7. CASE Fetch!GoBack
    <3>1. page # "loading"
      BY <2>7 DEF Fetch!GoBack, Fetch!Ready
    <3> QED BY <1>0, <1>1, <2>7, <3>1, WebGoesBack
  <2>8. CASE Fetch!GoForward
    <3>1. page # "loading"
      BY <2>8 DEF Fetch!GoForward, Fetch!Ready
    <3> QED BY <1>0, <1>1, <2>8, <3>1, WebGoesForward
  <2> QED BY <1>4, <2>1, <2>2, <2>3, <2>4, <2>5, <2>6, <2>7, <2>8 DEF Fetch!Browser
<1> QED BY <1>2, <1>3, <1>4 DEF Fetch!Next

\* What the lock shows, from the invariant.
LEMMA WebTrusted == Fetch!WebInv => Fetch!LockIsTrue /\ Fetch!SentToNamed /\ Fetch!LineSound
BY DEF Fetch!WebInv, Fetch!CallSound, Fetch!LockSound, Fetch!LockIsTrue, Fetch!Ready

(***************************************************************************)
(* The TLS client, for any chains, flights and responses.                     *)
(***************************************************************************)
\* The place in a finite set of numbers, counted from one.
Nth(S, k) == CHOOSE i \in S : Cardinality({j \in S : j < i}) = k - 1
IsNth(S, k, i) == i \in S /\ Cardinality({j \in S : j < i}) = k - 1

LEMMA NthIs ==
  ASSUME NEW S \in SUBSET Nat, IsFiniteSet(S), NEW k \in 1..Cardinality(S)
  PROVE  IsNth(S, k, Nth(S, k)) /\ \A i : IsNth(S, k, i) => i = Nth(S, k)
<1> PICK P : P = [i \in S |-> {j \in S : j < i}]
  OBVIOUS
<1>2. \A i, j \in S : j \in P[i] <=> j < i
  OBVIOUS
<1>3. \A i \in S : P[i] \subseteq S /\ P[i] = {j \in S : j < i}
  OBVIOUS
<1>4. \A i \in S : i \in Int
  OBVIOUS
<1>5. OrderOf(S, P)
  <2>1. \A i, j \in S : i \in P[j] => P[i] \subseteq P[j]
    <3> SUFFICES ASSUME NEW i \in S, NEW j \in S, i \in P[j], NEW x \in P[i] PROVE x \in P[j]
      OBVIOUS
    <3>1. x \in S /\ x < i /\ i < j
      BY <1>2, <1>3
    <3>2. x < j
      BY <1>4, <3>1
    <3> QED BY <1>2, <3>1, <3>2
  <2>2. \A i, j \in S : i # j => i \in P[j] \/ j \in P[i]
    <3> TAKE i, j \in S
    <3>1. i # j => i < j \/ j < i
      BY <1>4
    <3> QED BY <1>2, <3>1
  <2>3. \A i \in S : i \notin P[i]
    <3> TAKE i \in S
    <3>1. ~(i < i)
      BY <1>4
    <3> QED BY <1>2, <3>1
  <2> QED BY <1>3, <2>1, <2>2, <2>3 DEF OrderOf
<1>6. Ranked(S, P, Cardinality(S))
  BY <1>5, Ranks
<1>7. Cardinality(S) \in Nat
  BY FS_CardinalityType
<1>8. k - 1 \in 0..(Cardinality(S) - 1)
  BY <1>7
<1>9. \E i \in S : Cardinality(P[i]) = k - 1
  BY <1>6, <1>8 DEF Ranked
<1>10. \E i \in S : Cardinality({j \in S : j < i}) = k - 1
  BY <1>3, <1>9
<1>11. IsNth(S, k, Nth(S, k))
  BY <1>10 DEF Nth, IsNth
<1>12. ASSUME NEW i, IsNth(S, k, i) PROVE i = Nth(S, k)
  <2> PICK n : n = Nth(S, k)
    OBVIOUS
  <2>1. i \in S /\ n \in S /\ Cardinality(P[i]) = k - 1 /\ Cardinality(P[n]) = k - 1
    BY <1>3, <1>11, <1>12 DEF IsNth
  <2>2. i = n
    BY <1>6, <2>1 DEF Ranked
  <2> QED BY <2>2
<1> QED BY <1>11, <1>12

\* Moving numbers up does not change how many they are.
Up(S, m) == {m + i : i \in S}

LEMMA UpCardinality ==
  ASSUME NEW S \in SUBSET Nat, IsFiniteSet(S), NEW m \in Nat
  PROVE  IsFiniteSet(Up(S, m)) /\ Cardinality(Up(S, m)) = Cardinality(S)
<1> PICK T : T = Up(S, m)
  OBVIOUS
<1> PICK f : f = [i \in S |-> m + i]
  OBVIOUS
<1>1. f \in [S -> T]
  BY DEF Up
<1>2. \A i, j \in S : f[i] = f[j] => i = j
  <2> TAKE i, j \in S
  <2>1. i \in Nat /\ j \in Nat /\ f[i] = m + i /\ f[j] = m + j
    OBVIOUS
  <2> QED BY <2>1
<1>3. \A y \in T : \E i \in S : f[i] = y
  BY DEF Up
<1>4. f \in Injection(S, T)
  BY <1>1, <1>2, Fun_IsInj
<1>5. f \in Surjection(S, T)
  BY <1>1, <1>3 DEF Surjection
<1>6. IsFiniteSet(T) /\ Cardinality(T) = Cardinality(S)
  BY <1>4, <1>5, FS_Surjection
<1> QED BY <1>6

\* What lies below and what is moved above it.
LEMMA Stacked ==
  ASSUME NEW m \in Nat, NEW S \in SUBSET (1..m), NEW T \in SUBSET (Nat \ {0}), IsFiniteSet(S), IsFiniteSet(T)
  PROVE  /\ IsFiniteSet(S \cup Up(T, m)) /\ Cardinality(S \cup Up(T, m)) = Cardinality(S) + Cardinality(T)
         /\ Cardinality(S) \in Nat /\ Cardinality(T) \in Nat
<1>1. IsFiniteSet(Up(T, m)) /\ Cardinality(Up(T, m)) = Cardinality(T)
  BY UpCardinality
<1>2. S \cap Up(T, m) = {}
  <2> SUFFICES ASSUME NEW x \in S, NEW i \in T, x = m + i PROVE FALSE
    BY DEF Up
  <2>1. x \in 1..m /\ i \in Nat \ {0}
    OBVIOUS
  <2> QED BY <2>1
<1>3. Cardinality(S \cap Up(T, m)) = 0
  BY <1>2, FS_EmptySet
<1>4. Cardinality(S) \in Nat /\ Cardinality(T) \in Nat
  BY FS_CardinalityType
<1>5. Cardinality(S \cup Up(T, m)) = Cardinality(S) + Cardinality(Up(T, m)) - Cardinality(S \cap Up(T, m))
      /\ IsFiniteSet(S \cup Up(T, m))
  BY <1>1, FS_Union
<1> QED BY <1>1, <1>3, <1>4, <1>5

LEMMA UpNat ==
  ASSUME NEW m \in Nat, NEW S \in SUBSET (1..m), NEW T \in SUBSET (Nat \ {0})
  PROVE  S \cup Up(T, m) \in SUBSET Nat
<1>1. ASSUME NEW x \in Up(T, m) PROVE x \in Nat
  <2>1. PICK i \in T : x = m + i
    BY DEF Up
  <2> QED BY <2>1
<1>2. \A x \in S : x \in Nat
  OBVIOUS
<1> QED BY <1>1, <1>2

LEMMA NthBelow ==
  ASSUME NEW m \in Nat, NEW S \in SUBSET (1..m), NEW T \in SUBSET (Nat \ {0}), IsFiniteSet(S), IsFiniteSet(T),
         NEW k \in 1..Cardinality(S)
  PROVE  Nth(S \cup Up(T, m), k) = Nth(S, k) /\ Nth(S, k) \in S
<1> PICK U : U = S \cup Up(T, m)
  OBVIOUS
<1> PICK i : i = Nth(S, k)
  OBVIOUS
<1>1. IsNth(S, k, i)
  BY NthIs
<1>2. i \in 1..m /\ i \in S
  BY <1>1 DEF IsNth
<1>3. {j \in U : j < i} = {j \in S : j < i}
  <2>1. ASSUME NEW j \in Up(T, m) PROVE ~(j < i)
    <3> PICK x \in T : j = m + x
      BY DEF Up
    <3>1. x \in Nat /\ i <= m
      BY <1>2
    <3> QED BY <1>2, <3>1
  <2> QED BY <2>1
<1>4. IsNth(U, k, i)
  BY <1>1, <1>2, <1>3 DEF IsNth
<1>5. IsFiniteSet(U) /\ Cardinality(U) = Cardinality(S) + Cardinality(T) /\ Cardinality(S) \in Nat /\ Cardinality(T) \in Nat
  BY Stacked
<1>6. k \in 1..Cardinality(U)
  BY <1>5
<1>7. U \in SUBSET Nat
  BY UpNat
<1> QED BY <1>2, <1>4, <1>5, <1>6, <1>7, NthIs

LEMMA NthAbove ==
  ASSUME NEW m \in Nat, NEW S \in SUBSET (1..m), NEW T \in SUBSET (Nat \ {0}), IsFiniteSet(S), IsFiniteSet(T),
         NEW k \in 1..Cardinality(T)
  PROVE  Nth(S \cup Up(T, m), Cardinality(S) + k) = m + Nth(T, k) /\ Nth(T, k) \in T
<1> PICK U : U = S \cup Up(T, m)
  OBVIOUS
<1> PICK i : i = Nth(T, k)
  OBVIOUS
<1>0. Cardinality(S) \in Nat /\ Cardinality(T) \in Nat
  BY Stacked
<1>1. IsNth(T, k, i)
  BY NthIs
<1> PICK R : R = {j \in T : j < i}
  OBVIOUS
<1>2. i \in T /\ i \in Nat \ {0} /\ Cardinality(R) = k - 1 /\ m + i \in U /\ R \in SUBSET (Nat \ {0})
  BY <1>1 DEF IsNth, Up
<1>3. {j \in U : j < m + i} = S \cup Up(R, m)
  <2>1. ASSUME NEW j \in S PROVE j < m + i
    <3>1. j \in 1..m
      OBVIOUS
    <3> QED BY <1>2, <3>1
  <2>2. ASSUME NEW j PROVE j \in Up(T, m) /\ j < m + i <=> j \in Up(R, m)
    <3>1. ASSUME NEW x \in T PROVE m + x < m + i <=> x \in R
      <4>1. x \in Nat
        OBVIOUS
      <4> QED BY <1>2, <4>1
    <3> QED BY <3>1 DEF Up
  <2> QED BY <2>1, <2>2
<1>4. IsFiniteSet(R)
  <2>1. R \in SUBSET T
    OBVIOUS
  <2> QED BY <2>1, FS_Subset
<1>5. Cardinality({j \in U : j < m + i}) = Cardinality(S) + (k - 1)
  BY <1>2, <1>3, <1>4, Stacked
<1>6. IsNth(U, Cardinality(S) + k, m + i)
  BY <1>0, <1>2, <1>5 DEF IsNth
<1>7. IsFiniteSet(U) /\ Cardinality(U) = Cardinality(S) + Cardinality(T)
  BY Stacked
<1>8. Cardinality(S) + k \in 1..Cardinality(U)
  <2> PICK a, b, u : a = Cardinality(S) /\ b = Cardinality(T) /\ u = Cardinality(U)
    OBVIOUS
  <2>1. a \in Nat /\ b \in Nat /\ u = a + b /\ k \in 1..b
    BY <1>0, <1>7
  <2>2. a + k \in 1..u
    BY <2>1
  <2> QED BY <2>2
<1>9. U \in SUBSET Nat
  BY UpNat
<1> QED BY <1>2, <1>6, <1>7, <1>8, <1>9, NthIs

LEMMA TlsCardinality == \A S : Ssl!Cardinality(S) = Cardinality(S)
BY DEF Ssl!Cardinality, Cardinality

\* The whole messages of some pieces: as many as the last pieces, in their order.
LEMMA WholeIs ==
  ASSUME NEW p \in Seq(Ssl!Pieces), NEW n, n = Cardinality(Ssl!Ends(p))
  PROVE  /\ Ssl!Ends(p) \in SUBSET (1..Len(p)) /\ IsFiniteSet(Ssl!Ends(p)) /\ n \in Nat
         /\ Ssl!Whole(p) = [k \in 1..n |-> p[Nth(Ssl!Ends(p), k)].msg]
         /\ \A k \in 1..n : Nth(Ssl!Ends(p), k) \in Ssl!Ends(p)
         /\ Ssl!Whole(p) \in Seq(Ssl!Message) /\ Len(Ssl!Whole(p)) = n
<1> PICK E : E = Ssl!Ends(p)
  OBVIOUS
<1>1. E \in SUBSET (1..Len(p)) /\ E \in SUBSET Nat /\ Len(p) \in Nat
  BY DEF Ssl!Ends
<1>2. IsFiniteSet(E)
  <2>1. 1 \in Int /\ Len(p) \in Int
    BY <1>1
  <2>2. IsFiniteSet(1..Len(p))
    BY <2>1, FS_Interval
  <2> QED BY <1>1, <2>2, FS_Subset
<1>3. n \in Nat /\ n = Cardinality(E)
  BY <1>2, FS_CardinalityType
<1>4. \A k \in 1..n : Nth(E, k) \in E
  BY <1>1, <1>2, <1>3, NthIs DEF IsNth
<1>5. Ssl!Whole(p) = [k \in 1..n |-> p[Nth(E, k)].msg]
  <2>1. Ssl!Whole(p) = [k \in 1..Ssl!Cardinality(E) |->
                          p[CHOOSE i \in E : Ssl!Cardinality({j \in E : j < i}) = k - 1].msg]
    BY DEF Ssl!Whole
  <2> QED BY <1>3, <2>1, TlsCardinality DEF Nth
<1> PICK w : w = Ssl!Whole(p)
  OBVIOUS
<1>6. \A i \in 1..Len(p) : p[i].msg \in Ssl!Message
  <2>1. \A i \in 1..Len(p) : p[i] \in Ssl!Pieces
    OBVIOUS
  <2> QED BY <2>1 DEF Ssl!Pieces
<1>7. \A k \in 1..n : p[Nth(E, k)].msg \in Ssl!Message
  BY <1>1, <1>4, <1>6
<1>8. w \in [1..n -> Ssl!Message]
  BY <1>5, <1>7
<1>9. w \in Seq(Ssl!Message) /\ Len(w) = n
  BY <1>3, <1>8
<1> QED BY <1>1, <1>2, <1>3, <1>4, <1>5, <1>9

LEMMA WholeNone ==
  ASSUME NEW p \in Seq(Ssl!Pieces), Ssl!Ends(p) = {}
  PROVE  Ssl!Whole(p) = <<>>
<1>1. Cardinality(Ssl!Ends(p)) = 0
  BY FS_EmptySet
<1>2. Ssl!Whole(p) \in Seq(Ssl!Message) /\ Len(Ssl!Whole(p)) = 0
  BY <1>1, WholeIs
<1> QED BY <1>2

\* A whole message is that of a last piece.
LEMMA WholeEnds ==
  ASSUME NEW p \in Seq(Ssl!Pieces), NEW i \in 1..Len(Ssl!Whole(p))
  PROVE  \E k \in 1..Len(p) : p[k].last /\ Ssl!Whole(p)[i] = p[k].msg
<1> PICK n : n = Cardinality(Ssl!Ends(p))
  OBVIOUS
<1>1. /\ n \in Nat /\ Len(Ssl!Whole(p)) = n /\ Ssl!Whole(p) = [k \in 1..n |-> p[Nth(Ssl!Ends(p), k)].msg]
      /\ \A k \in 1..n : Nth(Ssl!Ends(p), k) \in Ssl!Ends(p)
  BY WholeIs
<1>2. i \in 1..n /\ Nth(Ssl!Ends(p), i) \in Ssl!Ends(p) /\ Ssl!Whole(p)[i] = p[Nth(Ssl!Ends(p), i)].msg
  BY <1>1
<1> QED BY <1>2 DEF Ssl!Ends

\* Where pieces are put together, so are the messages.
LEMMA WholeJoins ==
  ASSUME NEW q \in Seq(Ssl!Pieces), NEW r \in Seq(Ssl!Pieces)
  PROVE  Ssl!Whole(q \o r) = Ssl!Whole(q) \o Ssl!Whole(r)
<1>xp. PICK p : p = q \o r
  OBVIOUS
<1>xm. PICK m : m = Len(q)
  OBVIOUS
<1>xl. PICK l : l = Len(r)
  OBVIOUS
<1>1. p \in Seq(Ssl!Pieces) /\ Joins(p, q, r)
  BY <1>xp, Joined
<1>2. m \in Nat /\ l \in Nat /\ Len(p) = m + l /\ (\A i \in 1..m : p[i] = q[i]) /\ (\A i \in 1..l : p[m + i] = r[i])
  BY <1>xm, <1>xl, <1>1 DEF Joins
<1>xS. PICK S : S = Ssl!Ends(q)
  OBVIOUS
<1>xT. PICK T : T = Ssl!Ends(r)
  OBVIOUS
<1>xa. PICK a : a = Cardinality(S)
  OBVIOUS
<1>xb. PICK b : b = Cardinality(T)
  OBVIOUS
<1>3. /\ S \in SUBSET (1..m) /\ IsFiniteSet(S) /\ a \in Nat /\ Ssl!Whole(q) = [k \in 1..a |-> q[Nth(S, k)].msg]
      /\ Ssl!Whole(q) \in Seq(Ssl!Message) /\ Len(Ssl!Whole(q)) = a
  BY <1>xm, <1>xl, <1>xS, <1>xT, <1>xa, <1>xb, WholeIs
<1>4. /\ T \in SUBSET (1..l) /\ IsFiniteSet(T) /\ b \in Nat /\ Ssl!Whole(r) = [k \in 1..b |-> r[Nth(T, k)].msg]
      /\ Ssl!Whole(r) \in Seq(Ssl!Message) /\ Len(Ssl!Whole(r)) = b
  BY <1>xm, <1>xl, <1>xS, <1>xT, <1>xa, <1>xb, WholeIs
<1>5. T \in SUBSET (Nat \ {0})
  BY <1>4
<1>6. Ssl!Ends(p) = S \cup Up(T, m)
  <2>1. \A i \in 1..m : i \in Ssl!Ends(p) <=> i \in S
    <3> TAKE i \in 1..m
    <3>1. i \in 1..(m + l)
      BY <1>2
    <3>2. i \in Ssl!Ends(p) <=> p[i].last
      BY <1>2, <3>1 DEF Ssl!Ends
    <3>3. i \in S <=> q[i].last
      BY <1>xm, <1>xS DEF Ssl!Ends
    <3> QED BY <1>2, <3>2, <3>3
  <2>2. \A i \in 1..l : m + i \in Ssl!Ends(p) <=> i \in T
    <3> TAKE i \in 1..l
    <3>1. m + i \in 1..(m + l)
      BY <1>2
    <3>2. m + i \in Ssl!Ends(p) <=> p[m + i].last
      BY <1>2, <3>1 DEF Ssl!Ends
    <3>3. i \in T <=> r[i].last
      BY <1>xl, <1>xT DEF Ssl!Ends
    <3> QED BY <1>2, <3>2, <3>3
  <2>3. ASSUME NEW x \in Ssl!Ends(p) PROVE x \in S \cup Up(T, m)
    <3>1. x \in 1..(m + l)
      BY <1>2 DEF Ssl!Ends
    <3>2. CASE x <= m
      BY <1>2, <2>1, <3>1, <3>2
    <3>3. CASE x > m
      <4>1. x - m \in 1..l /\ x = m + (x - m)
        BY <1>2, <3>1, <3>3
      <4>2. x - m \in T
        BY <2>2, <4>1
      <4> QED BY <4>1, <4>2 DEF Up
    <3> QED BY <1>2, <3>1, <3>2, <3>3
  <2>4. S \subseteq Ssl!Ends(p)
    BY <1>3, <2>1
  <2>5. Up(T, m) \subseteq Ssl!Ends(p)
    BY <1>4, <2>2 DEF Up
  <2> QED BY <2>3, <2>4, <2>5
<1>7. Cardinality(S \cup Up(T, m)) = a + b
  <2>1. m \in Nat /\ S \in SUBSET (1..m) /\ IsFiniteSet(S) /\ IsFiniteSet(T)
    BY <1>2, <1>3, <1>4
  <2>2. Cardinality(S \cup Up(T, m)) = Cardinality(S) + Cardinality(T)
    BY <1>5, <2>1, Stacked
  <2> QED BY <2>2, <1>xa, <1>xb
<1>xw. PICK w : w = Ssl!Whole(p)
  OBVIOUS
<1>8. w = [k \in 1..(a + b) |-> p[Nth(S \cup Up(T, m), k)].msg] /\ w \in Seq(Ssl!Message) /\ Len(w) = a + b
  <2>1. a + b = Cardinality(Ssl!Ends(p))
    BY <1>6, <1>7
  <2>2. /\ Ssl!Whole(p) = [k \in 1..(a + b) |-> p[Nth(Ssl!Ends(p), k)].msg]
        /\ Ssl!Whole(p) \in Seq(Ssl!Message) /\ Len(Ssl!Whole(p)) = a + b
    <3>1. p \in Seq(Ssl!Pieces)
      BY <1>1
    <3> QED BY <2>1, <3>1, WholeIs
  <2> QED BY <1>6, <1>xw, <2>2
<1>xv. PICK v : v = Ssl!Whole(q) \o Ssl!Whole(r)
  OBVIOUS
<1>9. v \in Seq(Ssl!Message) /\ Joins(v, Ssl!Whole(q), Ssl!Whole(r))
  BY <1>3, <1>4, <1>xv, Joined
<1>10. /\ Len(v) = a + b /\ (\A k \in 1..a : v[k] = q[Nth(S, k)].msg)
       /\ (\A k \in 1..b : v[a + k] = r[Nth(T, k)].msg)
  <2>1. Len(v) = a + b
    BY <1>3, <1>4, <1>9 DEF Joins
  <2>2. ASSUME NEW k \in 1..a PROVE v[k] = q[Nth(S, k)].msg
    <3>1. v[k] = Ssl!Whole(q)[k]
      BY <1>3, <1>9 DEF Joins
    <3> QED BY <1>3, <3>1
  <2>3. ASSUME NEW k \in 1..b PROVE v[a + k] = r[Nth(T, k)].msg
    <3>1. v[a + k] = Ssl!Whole(r)[k]
      BY <1>3, <1>4, <1>9 DEF Joins
    <3> QED BY <1>4, <3>1
  <2> QED BY <2>1, <2>2, <2>3
<1>11. ASSUME NEW k \in 1..a PROVE w[k] = v[k]
  <2>1. Nth(S \cup Up(T, m), k) = Nth(S, k) /\ Nth(S, k) \in S
    BY <1>2, <1>3, <1>4, <1>5, <1>xa, NthBelow
  <2>2. k \in 1..(a + b)
    BY <1>3, <1>4
  <2>3. w[k] = p[Nth(S, k)].msg /\ p[Nth(S, k)] = q[Nth(S, k)]
    <3>1. w[k] = p[Nth(S \cup Up(T, m), k)].msg
      BY <1>8, <2>2
    <3>2. Nth(S, k) \in 1..m
      BY <1>3, <2>1
    <3> QED BY <1>2, <2>1, <3>1, <3>2
  <2> QED BY <1>10, <2>3
<1>12. ASSUME NEW k \in 1..b PROVE w[a + k] = v[a + k]
  <2>1. Nth(S \cup Up(T, m), a + k) = m + Nth(T, k) /\ Nth(T, k) \in T
    <3>1. m \in Nat /\ S \in SUBSET (1..m) /\ IsFiniteSet(S) /\ IsFiniteSet(T) /\ k \in 1..Cardinality(T)
      BY <1>2, <1>3, <1>4, <1>xb
    <3>2. Nth(S \cup Up(T, m), Cardinality(S) + k) = m + Nth(T, k) /\ Nth(T, k) \in T
      BY <1>5, <3>1, NthAbove
    <3> QED BY <3>2, <1>xa
  <2>2. a + k \in 1..(a + b)
    BY <1>3, <1>4
  <2>3. w[a + k] = p[m + Nth(T, k)].msg /\ p[m + Nth(T, k)] = r[Nth(T, k)]
    <3>1. w[a + k] = p[Nth(S \cup Up(T, m), a + k)].msg
      BY <1>8, <2>2
    <3>2. Nth(T, k) \in 1..l
      BY <1>4, <2>1
    <3> QED BY <1>2, <2>1, <3>1, <3>2
  <2> QED BY <1>10, <2>3
<1>13. ASSUME NEW k \in 1..(a + b) PROVE w[k] = v[k]
  <2>1. CASE k <= a
    BY <1>3, <1>4, <1>11, <2>1
  <2>2. CASE k > a
    <3>1. k - a \in 1..b /\ k = a + (k - a)
      BY <1>3, <1>4, <2>2
    <3> QED BY <1>12, <3>1
  <2>3. k \in Int /\ a \in Int
    BY <1>3, <1>4
  <2> QED BY <2>1, <2>2, <2>3
<1>14. w = v
  BY <1>8, <1>9, <1>10, <1>13, Same
<1> QED BY <1>xp, <1>xv, <1>xw, <1>14

\* A stretch of a sequence.
Stretch(S, p, f, a, n) == p \in Seq(S) /\ Len(p) = n /\ \A i \in 1..n : p[i] = f[a + i]

LEMMA PartOf ==
  ASSUME NEW S, NEW f \in Seq(S), NEW n, n = Len(f), NEW b \in 0..n, NEW a \in 0..b, NEW p, p = SubSeq(f, a + 1, b)
  PROVE  Stretch(S, p, f, a, b - a)
<1>1. n \in Nat /\ \A i \in 1..n : f[i] \in S
  OBVIOUS
<1>2. b \in 0..n /\ a \in Int /\ b \in Int /\ a <= b
  BY <1>1
<1>3. \A i \in (a + 1)..b : f[i] \in S
  <2> TAKE i \in (a + 1)..b
  <2>1. i \in 1..n
    BY <1>1, <1>2
  <2> QED BY <1>1, <2>1
<1>4. a + 1 \in Int /\ b - (a + 1) + 1 = b - a
  BY <1>2
<1>5. /\ p \in Seq(S) /\ Len(p) = IF a + 1 <= b THEN b - (a + 1) + 1 ELSE 0
      /\ \A i \in 1..(b - (a + 1) + 1) : p[i] = f[(a + 1) + i - 1]
  BY <1>2, <1>3, <1>4, SubSeqProperties
<1>6. Len(p) = b - a
  BY <1>2, <1>5
<1>7. ASSUME NEW i \in 1..(b - a) PROVE p[i] = f[a + i]
  <2>1. (a + 1) + i - 1 = a + i
    BY <1>2
  <2> QED BY <1>4, <1>5, <2>1
<1> QED BY <1>5, <1>6, <1>7 DEF Stretch

LEMMA FlightPart ==
  ASSUME Ssl!TlsConstants, NEW b \in 0..Len(Flight), NEW a \in 0..b, NEW p, p = SubSeq(Flight, a + 1, b)
  PROVE  p \in Seq(Ssl!Pieces) /\ Len(p) = b - a /\ \A i \in 1..(b - a) : p[i] = Flight[a + i]
<1>1. Flight \in Seq(Ssl!Pieces)
  BY DEF Ssl!TlsConstants
<1>2. Stretch(Ssl!Pieces, p, Flight, a, b - a)
  BY <1>1, PartOf
<1> QED BY <1>2 DEF Stretch

LEMMA FlightJoins ==
  ASSUME Ssl!TlsConstants, NEW c \in 0..Len(Flight), NEW b \in 0..c, NEW a \in 0..b
  PROVE  SubSeq(Flight, a + 1, b) \o SubSeq(Flight, b + 1, c) = SubSeq(Flight, a + 1, c)
<1>1. Flight \in Seq(Ssl!Pieces) /\ Len(Flight) \in Nat
  BY DEF Ssl!TlsConstants
<1>2. a + 1 \in 1..(Len(Flight) + 1) /\ b \in (a + 1 - 1)..Len(Flight) /\ c \in b..Len(Flight)
  BY <1>1
<1> QED BY <1>1, <1>2, ConcatAdjacentSubSeq

\* Where the pieces behind the last whole message begin.
LEMMA RestIs ==
  ASSUME NatOrdered, NEW p \in Seq(Ssl!Pieces)
  PROVE  \E top \in 0..Len(p) : /\ Ssl!Rest(p) = SubSeq(p, top + 1, Len(p))
                                /\ \A k \in (top + 1)..Len(p) : ~p[k].last
<1>e. PICK E : E = Ssl!Ends(p)
  OBVIOUS
<1>n. PICK n : n = Len(p)
  OBVIOUS
<1>1. n \in Nat /\ E = {i \in 1..n : p[i].last}
  BY <1>e, <1>n DEF Ssl!Ends
<1>2. CASE E = {}
  <2>1. Ssl!Rest(p) = SubSeq(p, 0 + 1, Len(p))
    BY <1>2, <1>e DEF Ssl!Rest
  <2>2. \A k \in (0 + 1)..n : ~p[k].last
    BY <1>1, <1>2
  <2> QED BY <1>1, <1>n, <2>1, <2>2
<1>3. CASE E # {}
  <2>r. PICK R : R = {n - i : i \in E}
    OBVIOUS
  <2>1. R \in SUBSET Nat /\ R # {}
    <3>1. ASSUME NEW i \in E PROVE n - i \in Nat
      <4>1. i \in 1..n
        BY <1>1
      <4> QED BY <1>1, <4>1
    <3> QED BY <1>3, <2>r, <3>1
  <2>2. PICK x \in R : \A y \in R : x <= y
    BY <2>1 DEF NatOrdered
  <2>3. PICK m \in E : x = n - m
    BY <2>r, <2>2
  <2>4. ASSUME NEW j \in E PROVE j <= m
    <3>1. n - j \in R
      BY <2>r
    <3>2. n - m <= n - j
      BY <2>2, <2>3, <3>1
    <3>3. j \in Int /\ m \in Int /\ n \in Int
      BY <1>1
    <3> QED BY <3>2, <3>3
  <2>t. PICK top : top = CHOOSE i \in E : \A j \in E : j <= i
    OBVIOUS
  <2>5. top \in E /\ \A j \in E : j <= top
    BY <2>4, <2>t
  <2>6. Ssl!Rest(p) = SubSeq(p, top + 1, Len(p))
    BY <1>3, <1>e, <2>t DEF Ssl!Rest
  <2>7. top \in 0..n
    BY <1>1, <2>5
  <2>8. ASSUME NEW k \in (top + 1)..n PROVE ~p[k].last
    <3>1. k \in 1..n /\ ~(k <= top)
      BY <1>1, <2>7
    <3> QED BY <1>1, <2>5, <3>1
  <2> QED BY <1>n, <2>6, <2>7, <2>8
<1> QED BY <1>2, <1>3

\* What a record of the flight adds.
HeldAt(acc, e) == \E t \in 0..e : /\ acc = SubSeq(Flight, t + 1, e)
                                  /\ \A k \in (t + 1)..e : ~Flight[k].last

Grown(s, e, p) ==
    /\ (<<"SH">> \o Ssl!Whole(SubSeq(Flight, 1, s))) \o Ssl!Whole(p)
         = <<"SH">> \o Ssl!Whole(SubSeq(Flight, 1, e))
    /\ HeldAt(Ssl!Rest(p), e)
    /\ (\E i \in 1..Len(Ssl!Whole(p)) : Ssl!Whole(p)[i] = "FIN") => e = Len(Flight)

LEMMA FlightGrows ==
  ASSUME NatOrdered, Ssl!TlsConstants, NEW s \in 0..Len(Flight), NEW e \in s..Len(Flight),
         NEW acc, HeldAt(acc, s), NEW p, p = acc \o SubSeq(Flight, s + 1, e)
  PROVE  Grown(s, e, p)
<1>n. PICK n : n = Len(Flight)
  OBVIOUS
<1>0. n \in Nat /\ s \in 0..n /\ e \in s..n /\ s \in Int /\ e \in Int /\ e \in 0..n
  BY <1>n DEF Ssl!TlsConstants
<1>t. PICK t \in 0..s : acc = SubSeq(Flight, t + 1, s) /\ \A k \in (t + 1)..s : ~Flight[k].last
  BY DEF HeldAt
<1>1. t \in Int /\ t \in 0..n /\ t \in 0..e /\ t <= s
  BY <1>0
<1>2. p = SubSeq(Flight, t + 1, e)
  <2>1. e \in 0..Len(Flight) /\ s \in 0..e /\ t \in 0..s
    BY <1>0, <1>1, <1>n
  <2> QED BY <1>t, <2>1, FlightJoins
<1>3. p \in Seq(Ssl!Pieces) /\ Len(p) = e - t /\ \A i \in 1..(e - t) : p[i] = Flight[t + i]
  BY <1>0, <1>1, <1>2, <1>n, FlightPart
<1>4. acc \in Seq(Ssl!Pieces) /\ Len(acc) = s - t /\ \A i \in 1..(s - t) : acc[i] = Flight[t + i]
  BY <1>0, <1>1, <1>t, <1>n, FlightPart
<1>5. Ssl!Whole(acc) = <<>>
  <2>1. ASSUME NEW i \in Ssl!Ends(acc) PROVE FALSE
    <3>1. i \in 1..(s - t) /\ acc[i].last
      BY <1>4 DEF Ssl!Ends
    <3>2. t + i \in (t + 1)..s
      BY <1>0, <1>1, <3>1
    <3> QED BY <1>4, <1>t, <3>1, <3>2
  <2>2. Ssl!Ends(acc) = {}
    BY <2>1
  <2> QED BY <1>4, <2>2, WholeNone
<1>a. PICK A : A = SubSeq(Flight, 1, t)
  OBVIOUS
<1>b. PICK B : B = SubSeq(Flight, 1, s)
  OBVIOUS
<1>c. PICK C : C = SubSeq(Flight, 1, e)
  OBVIOUS
<1>6. A \in Seq(Ssl!Pieces)
  <2>1. 0 \in 0..t /\ t \in 0..Len(Flight) /\ 0 + 1 = 1
    BY <1>1, <1>n
  <2> QED BY <1>a, <2>1, FlightPart
<1>7. B = A \o acc
  <2>1. s \in 0..Len(Flight) /\ t \in 0..s /\ 0 \in 0..t /\ 0 + 1 = 1
    BY <1>0, <1>1, <1>n
  <2> QED BY <1>a, <1>b, <1>t, <2>1, FlightJoins
<1>8. C = A \o p
  <2>1. e \in 0..Len(Flight) /\ t \in 0..e /\ 0 \in 0..t /\ 0 + 1 = 1
    BY <1>0, <1>1, <1>n
  <2> QED BY <1>2, <1>a, <1>c, <2>1, FlightJoins
<1>w. PICK W : W = Ssl!Whole(A)
  OBVIOUS
<1>v. PICK V : V = Ssl!Whole(p)
  OBVIOUS
<1>9. W \in Seq(Ssl!Message) /\ V \in Seq(Ssl!Message)
  BY <1>3, <1>6, <1>v, <1>w, WholeIs
<1>10. Ssl!Whole(B) = W
  <2>1. Ssl!Whole(B) = W \o <<>>
    BY <1>4, <1>5, <1>6, <1>7, <1>w, WholeJoins
  <2> QED BY <1>9, <2>1, ConcatEmptySeq
<1>11. Ssl!Whole(C) = W \o V
  BY <1>3, <1>6, <1>8, <1>v, <1>w, WholeJoins
<1>12. (<<"SH">> \o W) \o V = <<"SH">> \o (W \o V)
  <2>1. <<"SH">> \in Seq(Ssl!Message)
    <3>1. <<>> \in Seq(Ssl!Message) /\ Append(<<>>, "SH") = <<"SH">>
      OBVIOUS
    <3>3. "SH" \in Ssl!Message
      BY DEF Ssl!Message
    <3>2. Append(<<>>, "SH") \in Seq(Ssl!Message)
      BY <3>1, <3>3, AppendProperties
    <3> QED BY <3>1, <3>2
  <2> QED BY <1>9, <2>1, ConcatAssociative
<1>13. (<<"SH">> \o Ssl!Whole(B)) \o Ssl!Whole(p) = <<"SH">> \o Ssl!Whole(C)
  BY <1>10, <1>11, <1>12, <1>v
<1>14. HeldAt(Ssl!Rest(p), e)
  <2>1. PICK top \in 0..Len(p) : /\ Ssl!Rest(p) = SubSeq(p, top + 1, Len(p))
                                 /\ \A k \in (top + 1)..Len(p) : ~p[k].last
    BY <1>3, RestIs
  <2>l. PICK l : l = e - t
    OBVIOUS
  <2>2. l \in Nat /\ top \in 0..l /\ Len(p) = l /\ t + top \in 0..e /\ t + top \in Int /\ e - (t + top) = l - top
    BY <1>0, <1>1, <1>3, <2>l
  <2>q. PICK q : q = SubSeq(Flight, (t + top) + 1, e)
    OBVIOUS
  <2>3. q \in Seq(Ssl!Pieces) /\ Len(q) = l - top /\ \A i \in 1..(l - top) : q[i] = Flight[(t + top) + i]
    <3>u. PICK u : u = t + top
      OBVIOUS
    <3>1. e \in 0..Len(Flight) /\ u \in 0..e
      BY <1>0, <1>n, <2>2, <3>u
    <3>2. q = SubSeq(Flight, u + 1, e)
      BY <2>q, <3>u
    <3>3. q \in Seq(Ssl!Pieces) /\ Len(q) = e - u /\ \A i \in 1..(e - u) : q[i] = Flight[u + i]
      BY <3>1, <3>2, FlightPart
    <3> QED BY <2>2, <3>3, <3>u
  <2>r. PICK r : r = SubSeq(p, top + 1, l)
    OBVIOUS
  <2>4. r \in Seq(Ssl!Pieces) /\ Len(r) = l - top /\ \A i \in 1..(l - top) : r[i] = p[top + i]
    <3>1. p \in Seq(Ssl!Pieces)
      BY <1>3
    <3>2. l = Len(p) /\ l \in 0..l /\ top \in 0..l
      BY <2>2
    <3>3. Stretch(Ssl!Pieces, r, p, top, l - top)
      BY <2>r, <3>1, <3>2, PartOf
    <3> QED BY <3>3 DEF Stretch
  <2>5. ASSUME NEW i \in 1..(l - top) PROVE r[i] = q[i]
    <3>1. top + i \in 1..l /\ t + (top + i) = (t + top) + i
      BY <1>1, <2>2
    <3> QED BY <1>3, <2>3, <2>4, <2>l, <3>1
  <2>6. r = q
    BY <2>3, <2>4, <2>5, Same
  <2>7. ASSUME NEW k \in ((t + top) + 1)..e PROVE ~Flight[k].last
    <3>1. k - t \in (top + 1)..l /\ t + (k - t) = k /\ k - t \in 1..l
      BY <1>0, <1>1, <2>2, <2>l
    <3>2. ~p[k - t].last
      BY <2>1, <2>2, <3>1
    <3> QED BY <1>3, <2>l, <3>1, <3>2
  <2>8. Ssl!Rest(p) = SubSeq(Flight, (t + top) + 1, e)
    BY <2>1, <2>2, <2>6, <2>q, <2>r
  <2> QED BY <2>2, <2>7, <2>8 DEF HeldAt
<1>15. ASSUME NEW i \in 1..Len(Ssl!Whole(p)), Ssl!Whole(p)[i] = "FIN" PROVE e = n
  <2>1. PICK k \in 1..Len(p) : p[k].last /\ Ssl!Whole(p)[i] = p[k].msg
    BY <1>3, WholeEnds
  <2>2. k \in 1..(e - t) /\ t + k \in 1..n /\ t + k <= e
    BY <1>0, <1>1, <1>3
  <2>3. Flight[t + k].last /\ Flight[t + k].msg = "FIN"
    BY <1>3, <1>15, <2>1, <2>2
  <2>4. Flight[t + k] \in Ssl!Pieces
    BY <1>n, <2>2 DEF Ssl!TlsConstants
  <2>5. Flight[t + k] = [msg |-> "FIN", last |-> TRUE]
    BY <2>3, <2>4 DEF Ssl!Pieces
  <2>6. t + k = n
    BY <1>n, <2>2, <2>5 DEF Ssl!TlsConstants
  <2> QED BY <1>0, <1>1, <2>2, <2>6
<1> QED BY <1>13, <1>14, <1>15, <1>b, <1>c, <1>n DEF Grown

\* The chain that is accepted is one that a root vouches for, and a proper one is accepted.
LEMMA ChainVouched ==
  ASSUME Ssl!TlsConstants, chain \in Chains, now \in Times, Ssl!validate_chain
  PROVE  chain # <<>> /\ Ssl!Vouched
<1>1. chain # <<>> /\ host \in chain[1].names /\ \A i \in 1..Len(chain) : chain[i].from <= now /\ now <= chain[i].to
  BY DEF Ssl!validate_chain, Ssl!hostname_ok, Ssl!check_validity
<1>2. ASSUME NEW i \in 1..Len(chain) PROVE now \in chain[i].from..chain[i].to
  <2>1. chain[i].from \in Int /\ chain[i].to \in Int /\ now \in Int
    BY <1>1 DEF Ssl!TlsConstants
  <2> QED BY <1>1, <2>1
<1>3. PICK n \in 1..Len(chain) :
        /\ Ssl!Anchored(chain[n]) \/ (n = Len(chain) /\ Ssl!TopHolds(chain[n]))
        /\ \A j \in 1..(n - 1) : ~Ssl!Anchored(chain[j]) /\ Ssl!LinkHolds(j)
  BY DEF Ssl!validate_chain
<1>4. chain[n].key \in Ssl!Roots \/ chain[n].by \in Ssl!Roots
  BY <1>3 DEF Ssl!Anchored, Ssl!TopHolds, Ssl!same_anchor, Ssl!verify_sig, Ssl!Roots
<1>5. \A j \in 1..(n - 1) : chain[j].by = chain[j + 1].key
  BY <1>3 DEF Ssl!LinkHolds, Ssl!verify_sig
<1> QED BY <1>1, <1>2, <1>4, <1>5 DEF Ssl!Vouched

LEMMA ProperAccepted ==
  ASSUME NatOrdered, Ssl!TlsConstants, chain \in Chains, now \in Times, chain # <<>>, Ssl!Proper
  PROVE  Ssl!validate_chain
<1>l. PICK l : l = Len(chain)
  OBVIOUS
<1>1. l \in Nat \ {0} /\ \A i \in 1..l : chain[i].from \in Int /\ chain[i].to \in Int
  BY <1>l DEF Ssl!TlsConstants
<1>2. ASSUME NEW i \in 1..l PROVE Ssl!check_validity(chain[i])
  <2>1. now \in chain[i].from..chain[i].to
    BY <1>l DEF Ssl!Proper
  <2> QED BY <2>1 DEF Ssl!check_validity
<1>3. host \in chain[1].names
  BY DEF Ssl!Proper
<1>4. \A i \in 1..(l - 1) : Ssl!LinkHolds(i)
  BY <1>l DEF Ssl!Proper, Ssl!LinkHolds, Ssl!verify_sig
<1>5. Ssl!Anchored(chain[l]) \/ Ssl!TopHolds(chain[l])
  <2>1. PICK k \in 1..Len(trust_anchors) :
          \/ chain[l] = trust_anchors[k]
          \/ chain[l].issuer = trust_anchors[k].subject /\ chain[l].by = trust_anchors[k].key
    BY <1>l DEF Ssl!Proper
  <2>2. CASE chain[l] = trust_anchors[k]
    BY <2>2 DEF Ssl!Anchored, Ssl!same_anchor
  <2>3. CASE chain[l].issuer = trust_anchors[k].subject /\ chain[l].by = trust_anchors[k].key
    <3>1. ASSUME NEW j \in 1..(k - 1) PROVE trust_anchors[j].subject # chain[l].issuer
      <4>1. j \in 1..Len(trust_anchors) /\ j # k
        BY <2>1
      <4> QED BY <2>3, <4>1 DEF Ssl!TlsConstants, Ssl!RootsNamed
    <3> QED BY <2>3, <3>1 DEF Ssl!TopHolds, Ssl!verify_sig
  <2> QED BY <2>1, <2>2, <2>3
<1>s. PICK S : S = {i \in 1..l : Ssl!Anchored(chain[i]) \/ (i = l /\ Ssl!TopHolds(chain[i]))}
  OBVIOUS
<1>6. S \in SUBSET Nat /\ S # {}
  <2>1. l \in 1..l
    BY <1>1
  <2>2. l \in S
    BY <1>5, <1>s, <2>1
  <2> QED BY <1>1, <1>s, <2>2
<1>7. PICK i \in S : \A j \in S : i <= j
  BY <1>6 DEF NatOrdered
<1>8. i \in 1..l /\ (Ssl!Anchored(chain[i]) \/ (i = l /\ Ssl!TopHolds(chain[i])))
  BY <1>s, <1>7
<1>9. ASSUME NEW j \in 1..(i - 1) PROVE ~Ssl!Anchored(chain[j]) /\ Ssl!LinkHolds(j)
  <2>1. j \in 1..(l - 1) /\ j \in 1..l /\ ~(i <= j)
    BY <1>1, <1>8
  <2>2. j \notin S
    BY <1>7, <2>1
  <2> QED BY <1>4, <1>s, <2>1, <2>2
<1>10. \E k \in 1..l : /\ Ssl!Anchored(chain[k]) \/ (k = l /\ Ssl!TopHolds(chain[k]))
                       /\ \A j \in 1..(k - 1) : ~Ssl!Anchored(chain[j]) /\ Ssl!LinkHolds(j)
  BY <1>8, <1>9
<1> QED BY <1>2, <1>3, <1>10, <1>l DEF Ssl!validate_chain, Ssl!hostname_ok

LEMMA TlsInit == Ssl!TlsConstants /\ Ssl!Init => Ssl!TlsInv
<1> SUFFICES ASSUME Ssl!TlsConstants, Ssl!Init PROVE Ssl!TlsInv
  OBVIOUS
<1> USE DEF Ssl!Init
<1>1. Len(Flight) \in Nat /\ Len(Response) \in Nat /\ MaxExtra \in Nat
  BY DEF Ssl!TlsConstants
<1>2. Ssl!TypeOK
  <2>1. 0 \in 0..Len(Flight) /\ 0 \in 0..Len(Response) /\ 0 \in 0..MaxExtra /\ 0 \in Nat
    BY <1>1
  <2> QED BY <2>1 DEF Ssl!TypeOK
<1>3. Ssl!Counted
  BY DEF Ssl!Counted
<1>4. Ssl!AsFarAs
  BY DEF Ssl!AsFarAs
<1>5. Ssl!ResponseInOrder
  <2>1. SubSeq(Response, 1, 0) = <<>> /\ Len(out) = 0
    BY SubSeqEmpty
  <2> QED BY <2>1 DEF Ssl!ResponseInOrder
<1> QED BY <1>2, <1>3, <1>4, <1>5 DEF Ssl!TlsInv

\* What is asked for and presented stays what it is.
SameChain == host' = host /\ now' = now /\ chain' = chain

LEMMA ChainStays == SameChain => (Ssl!validate_chain' <=> Ssl!validate_chain)
BY DEF SameChain, Ssl!validate_chain, Ssl!hostname_ok, Ssl!check_validity, Ssl!Anchored, Ssl!TopHolds, Ssl!LinkHolds,
   Ssl!same_anchor, Ssl!verify_sig

LEMMA TlsHeld == Ssl!FlightHeld <=> /\ transcript = <<"SH">> \o Ssl!Whole(SubSeq(Flight, 1, hsSent))
                                    /\ HeldAt(hs_acc, hsSent)
BY DEF Ssl!FlightHeld, HeldAt

LEMMA TlsHeldNext == Ssl!FlightHeld' <=> /\ transcript' = <<"SH">> \o Ssl!Whole(SubSeq(Flight, 1, hsSent'))
                                         /\ HeldAt(hs_acc', hsSent')
BY DEF Ssl!FlightHeld, HeldAt

\* Nothing happens but that the call may end.
LEMMA TlsEnds ==
  ASSUME Ssl!TlsConstants, Ssl!TlsInv, SameChain,
         UNCHANGED <<hsSent, apSent, sealed, extra, seq, hs_acc, transcript, guard, sentReq, out>>,
         \/ st' = st /\ cut' = cut
         \/ st \in {"hello", "flight", "app"} /\ cut' = TRUE /\ st' \in {"done", "failed"}
         \/ st = "app" /\ apSent = Len(Response) /\ st' = Ssl!Ended /\ cut' = cut
  PROVE  Ssl!TlsInv'
<1>0. Ssl!TypeOK /\ Ssl!Counted /\ Ssl!AsFarAs /\ Ssl!ResponseInOrder
  BY DEF Ssl!TlsInv
<1>1. st' \in {"hello", "flight", "app", "done", "failed"} /\ cut' \in BOOLEAN
  BY <1>0 DEF Ssl!TypeOK, Ssl!Ended
<1>2. Ssl!TypeOK'
  BY <1>0, <1>1 DEF Ssl!TypeOK
<1>3. Ssl!Counted'
  BY <1>0 DEF Ssl!Counted, SameChain
<1>4. Ssl!validate_chain' <=> Ssl!validate_chain
  BY ChainStays
<1>5. Ssl!FlightHeld' <=> Ssl!FlightHeld
  BY TlsHeld, TlsHeldNext
<1>6. CASE st' = st /\ cut' = cut
  <2>1. Ssl!AsFarAs'
    BY <1>0, <1>4, <1>5, <1>6 DEF Ssl!AsFarAs
  <2>2. Ssl!ResponseInOrder'
    BY <1>0, <1>6 DEF Ssl!ResponseInOrder
  <2> QED BY <1>2, <1>3, <2>1, <2>2 DEF Ssl!TlsInv
<1>7. CASE st \in {"hello", "flight", "app"} /\ cut' = TRUE /\ st' \in {"done", "failed"}
  <2>1. Ssl!AsFarAs'
    BY <1>0, <1>4, <1>7 DEF Ssl!AsFarAs
  <2>2. Ssl!ResponseInOrder'
    BY <1>0, <1>7 DEF Ssl!ResponseInOrder
  <2> QED BY <1>2, <1>3, <2>1, <2>2 DEF Ssl!TlsInv
<1>8. CASE st = "app" /\ apSent = Len(Response) /\ st' = Ssl!Ended /\ cut' = cut
  <2>1. Len(out) = Len(Response) /\ sentReq
    BY <1>0, <1>8 DEF Ssl!AsFarAs
  <2>2. st' = "failed" => Response = <<>>
    <3>1. ASSUME st' = "failed" PROVE Len(Response) = 0
      BY <1>8, <2>1, <3>1 DEF Ssl!Ended
    <3> QED BY <3>1 DEF Ssl!TlsConstants
  <2>3. st' \in {"done", "failed"}
    BY <1>8 DEF Ssl!Ended
  <2>4. Ssl!AsFarAs'
    BY <1>0, <1>4, <2>2, <2>3 DEF Ssl!AsFarAs
  <2>5. Ssl!ResponseInOrder'
    BY <1>0, <2>1 DEF Ssl!ResponseInOrder
  <2> QED BY <1>2, <1>3, <2>4, <2>5 DEF Ssl!TlsInv
<1> QED BY <1>6, <1>7, <1>8

LEMMA TlsSkips ==
  ASSUME Ssl!TlsConstants, Ssl!TlsInv, Ssl!ChangeCipherSpec
  PROVE  Ssl!TlsInv'
<1>0. Ssl!TypeOK /\ Ssl!Counted /\ Ssl!AsFarAs /\ Ssl!ResponseInOrder
  BY DEF Ssl!TlsInv
<1>1. /\ SameChain /\ UNCHANGED <<st, hsSent, apSent, sealed, seq, hs_acc, transcript, sentReq, out, cut>>
      /\ extra < MaxExtra /\ extra' = extra + 1 /\ guard' \in {guard, guard + 1}
  BY DEF Ssl!ChangeCipherSpec, SameChain
<1>2. Ssl!TypeOK' /\ Ssl!Counted'
  BY <1>0, <1>1 DEF Ssl!TypeOK, Ssl!Counted, Ssl!TlsConstants, SameChain
<1>3. Ssl!validate_chain' <=> Ssl!validate_chain
  BY <1>1, ChainStays
<1>4. Ssl!FlightHeld' <=> Ssl!FlightHeld
  BY <1>1, TlsHeld, TlsHeldNext
<1>5. Ssl!AsFarAs'
  BY <1>0, <1>1, <1>3, <1>4 DEF Ssl!AsFarAs
<1>6. Ssl!ResponseInOrder'
  BY <1>0, <1>1 DEF Ssl!ResponseInOrder
<1> QED BY <1>2, <1>5, <1>6 DEF Ssl!TlsInv

LEMMA TlsGreets ==
  ASSUME Ssl!TlsConstants, Ssl!TlsInv, Ssl!ServerHello
  PROVE  Ssl!TlsInv'
<1>0. Ssl!TypeOK /\ Ssl!Counted /\ Ssl!AsFarAs /\ Ssl!ResponseInOrder
  BY DEF Ssl!TlsInv
<1>1. /\ SameChain /\ UNCHANGED <<hsSent, apSent, sealed, extra, seq, hs_acc, guard, sentReq, out, cut>>
      /\ st = "hello" /\ st' = "flight" /\ transcript' = <<"SH">>
  BY DEF Ssl!ServerHello, SameChain
<1>2. Ssl!TypeOK' /\ Ssl!Counted'
  BY <1>0, <1>1 DEF Ssl!TypeOK, Ssl!Counted, SameChain
<1>3. hsSent' = 0 /\ hs_acc' = <<>> /\ apSent = 0 /\ out = <<>> /\ ~sentReq
  BY <1>0, <1>1 DEF Ssl!AsFarAs
<1>4. SubSeq(Flight, 1, 0) = <<>>
  BY SubSeqEmpty
<1>5. Ssl!Whole(<<>>) = <<>>
  <2>1. <<>> \in Seq(Ssl!Pieces) /\ Ssl!Ends(<<>>) = {}
    BY DEF Ssl!Ends
  <2> QED BY <2>1, WholeNone
<1>6. <<"SH">> \o <<>> = <<"SH">>
  OBVIOUS
<1>7. HeldAt(<<>>, 0)
  <2>1. 0 \in 0..0 /\ SubSeq(Flight, 0 + 1, 0) = <<>>
    BY <1>4
  <2>2. \A k \in (0 + 1)..0 : ~Flight[k].last
    OBVIOUS
  <2> QED BY <2>1, <2>2 DEF HeldAt
<1>8. Ssl!FlightHeld'
  BY <1>1, <1>3, <1>4, <1>5, <1>6, <1>7, TlsHeldNext
<1>9. Ssl!AsFarAs'
  BY <1>1, <1>3, <1>8 DEF Ssl!AsFarAs
<1>10. Ssl!ResponseInOrder'
  BY <1>0, <1>1 DEF Ssl!ResponseInOrder
<1> QED BY <1>2, <1>9, <1>10 DEF Ssl!TlsInv

LEMMA TlsTakesFlight ==
  ASSUME NatOrdered, Ssl!TlsConstants, Ssl!TlsInv, NEW n \in 1..Len(Flight), Ssl!FlightRecord(n)
  PROVE  Ssl!TlsInv'
<1>0. Ssl!TypeOK /\ Ssl!Counted /\ Ssl!AsFarAs /\ Ssl!ResponseInOrder
  BY DEF Ssl!TlsInv
<1>p. PICK p : p = hs_acc \o SubSeq(Flight, hsSent + 1, hsSent + n)
  OBVIOUS
<1>f. PICK finished \in BOOLEAN : finished <=> \E i \in 1..Len(Ssl!Whole(p)) : Ssl!Whole(p)[i] = "FIN"
  OBVIOUS
<1>1. /\ SameChain /\ UNCHANGED <<apSent, extra, out, cut>> /\ st = "flight" /\ hsSent + n <= Len(Flight)
      /\ hsSent' = hsSent + n /\ guard' = guard + 1
      /\ hs_acc' = Ssl!Rest(p) /\ transcript' = transcript \o Ssl!Whole(p)
  BY <1>p DEF Ssl!FlightRecord, SameChain
<1>2. IF guard' > GUARD \/ ~Ssl!Opens \/ (finished /\ ~Ssl!validate_chain)
        THEN st' = "failed" /\ UNCHANGED <<sealed, seq, sentReq>>
        ELSE /\ st' = IF finished THEN "app" ELSE "flight"
             /\ sealed' = IF finished THEN 0 ELSE sealed + 1
             /\ seq' = IF finished THEN 0 ELSE seq + 1
             /\ sentReq' = finished
  BY <1>f, <1>p DEF Ssl!FlightRecord
<1>3. /\ hsSent \in 0..Len(Flight) /\ hsSent' \in hsSent..Len(Flight) /\ hsSent' = hsSent + n /\ Len(Flight) \in Nat
      /\ hsSent' \in 0..Len(Flight)
  BY <1>0, <1>1 DEF Ssl!TypeOK, Ssl!TlsConstants
<1>4. apSent = 0 /\ out = <<>> /\ ~sentReq /\ Ssl!FlightHeld
  BY <1>0, <1>1 DEF Ssl!AsFarAs
<1>5. /\ transcript = <<"SH">> \o Ssl!Whole(SubSeq(Flight, 1, hsSent)) /\ HeldAt(hs_acc, hsSent)
  BY <1>4, TlsHeld
<1>e. PICK e : e = hsSent'
  OBVIOUS
<1>6. Grown(hsSent, e, p)
  <2>1. hsSent \in 0..Len(Flight) /\ e \in hsSent..Len(Flight) /\ p = hs_acc \o SubSeq(Flight, hsSent + 1, e)
    BY <1>3, <1>e, <1>p
  <2> QED BY <1>5, <2>1, FlightGrows
<1>7. transcript' = <<"SH">> \o Ssl!Whole(SubSeq(Flight, 1, e)) /\ Ssl!FlightHeld'
  BY <1>1, <1>5, <1>6, <1>e, TlsHeldNext DEF Grown
<1>8. guard' <= GUARD /\ guard' \in Nat /\ guard' <= hsSent' + extra' /\ sealed \in Nat /\ seq \in Nat
  BY <1>0, <1>1, <1>3 DEF Ssl!TypeOK, Ssl!Counted, Ssl!TlsConstants
<1>9. Ssl!Opens /\ ~(guard' > GUARD) /\ sealed = seq
  BY <1>0, <1>8 DEF Ssl!Opens, Ssl!Counted, Ssl!TlsConstants
<1>10. Ssl!validate_chain' <=> Ssl!validate_chain
  BY <1>1, ChainStays
<1>11. Ssl!ResponseInOrder /\ out' = out /\ st' # "done" => Ssl!ResponseInOrder'
  BY DEF Ssl!ResponseInOrder
<1>12. CASE finished /\ ~Ssl!validate_chain
  <2>1. st' = "failed" /\ UNCHANGED <<sealed, seq, sentReq>>
    BY <1>2, <1>12
  <2>2. Ssl!TypeOK' /\ Ssl!Counted'
    BY <1>0, <1>1, <1>3, <1>8, <2>1 DEF Ssl!TypeOK, Ssl!Counted, SameChain
  <2>3. Ssl!AsFarAs'
    BY <1>4, <1>10, <1>12, <2>1 DEF Ssl!AsFarAs
  <2> QED BY <1>0, <1>1, <1>11, <2>1, <2>2, <2>3 DEF Ssl!TlsInv
<1>13. CASE finished /\ Ssl!validate_chain
  <2>1. st' = "app" /\ sealed' = 0 /\ seq' = 0 /\ sentReq' = TRUE
    BY <1>2, <1>9, <1>13
  <2>2. Ssl!TypeOK' /\ Ssl!Counted'
    BY <1>0, <1>1, <1>3, <1>8, <2>1 DEF Ssl!TypeOK, Ssl!Counted, SameChain
  <2>3. transcript' = <<"SH">> \o Ssl!Whole(Flight)
    <3>1. e = Len(Flight)
      BY <1>6, <1>13, <1>f DEF Grown
    <3>2. SubSeq(Flight, 1, Len(Flight)) = Flight
      BY SubSeqFull DEF Ssl!TlsConstants
    <3> QED BY <1>7, <3>1, <3>2
  <2>4. 0 < Space /\ Len(out') = 0
    BY <1>1, <1>4 DEF Ssl!TlsConstants
  <2>5. Ssl!AsFarAs'
    BY <1>1, <1>4, <1>10, <1>13, <2>1, <2>3, <2>4 DEF Ssl!AsFarAs
  <2> QED BY <1>0, <1>1, <1>11, <2>1, <2>2, <2>5 DEF Ssl!TlsInv
<1>14. CASE ~finished
  <2>1. st' = "flight" /\ sealed' = sealed + 1 /\ seq' = seq + 1 /\ sentReq' = FALSE
    BY <1>2, <1>9, <1>14
  <2>4. sealed' \in Nat /\ seq' \in Nat /\ sealed' = seq'
    BY <1>8, <1>9, <2>1
  <2>2. Ssl!TypeOK' /\ Ssl!Counted'
    BY <1>0, <1>1, <1>3, <1>8, <2>1, <2>4 DEF Ssl!TypeOK, Ssl!Counted, SameChain
  <2>3. Ssl!AsFarAs'
    BY <1>1, <1>4, <1>7, <2>1 DEF Ssl!AsFarAs
  <2> QED BY <1>0, <1>1, <1>11, <2>1, <2>2, <2>3 DEF Ssl!TlsInv
<1> QED BY <1>12, <1>13, <1>14

LEMMA TlsTakesData ==
  ASSUME Ssl!TlsConstants, Ssl!TlsInv, NEW n \in 0..Len(Response), Ssl!AppRecord(n)
  PROVE  Ssl!TlsInv'
<1>0. Ssl!TypeOK /\ Ssl!Counted /\ Ssl!AsFarAs /\ Ssl!ResponseInOrder
  BY DEF Ssl!TlsInv
<1>l. PICK l : l = Len(Response)
  OBVIOUS
<1>a. PICK a : a = apSent
  OBVIOUS
<1>t. PICK take : take = IF n <= Space - Len(out) THEN n ELSE Space - Len(out)
  OBVIOUS
<1>1. /\ SameChain /\ UNCHANGED <<hsSent, hs_acc, transcript, guard, sentReq, cut>> /\ st = "app"
      /\ IF n = 0 THEN extra < MaxExtra /\ extra' = extra + 1 ELSE a + n <= l /\ extra' = extra
      /\ apSent' = a + n /\ sealed' = sealed + 1
  BY <1>a, <1>l DEF Ssl!AppRecord, SameChain
<1>2. Ssl!Opens /\ sealed = seq
  BY <1>0 DEF Ssl!Opens, Ssl!Counted
<1>3. /\ seq' = seq + 1 /\ out' = out \o SubSeq(Response, a + 1, a + take)
      /\ st' = IF n > 0 /\ Len(out') >= Space THEN "done" ELSE "app"
  BY <1>2, <1>a, <1>t DEF Ssl!AppRecord
<1>4. sentReq /\ Len(out) = a /\ a < Space /\ a \in 0..l /\ l \in Nat /\ Space \in Nat /\ Response \in Seq(Int)
  BY <1>0, <1>1, <1>a, <1>l DEF Ssl!AsFarAs, Ssl!TypeOK, Ssl!TlsConstants
<1>5. take \in 0..n /\ take <= Space - a /\ a + take \in a..l /\ a + n \in 0..l /\ (take = n \/ a + take = Space)
  BY <1>1, <1>4, <1>l, <1>t
<1>6. out = SubSeq(Response, 1, a)
  BY <1>0, <1>4 DEF Ssl!ResponseInOrder
<1>7. out' = SubSeq(Response, 1, a + take)
  <2>k. PICK k : k = a + take
    OBVIOUS
  <2>1. 1 \in 1..(Len(Response) + 1) /\ a \in (1 - 1)..Len(Response) /\ k \in a..Len(Response)
    BY <1>4, <1>5, <1>l, <2>k
  <2>2. SubSeq(Response, 1, a) \o SubSeq(Response, a + 1, k) = SubSeq(Response, 1, k)
    BY <1>4, <2>1, ConcatAdjacentSubSeq
  <2> QED BY <1>3, <1>6, <2>2, <2>k
<1>8. Len(out') = a + take
  <2>k. PICK k : k = a + take
    OBVIOUS
  <2>1. k \in 0..l /\ 0 \in 0..k /\ 0 + 1 = 1 /\ k - 0 = k
    BY <1>4, <1>5, <2>k
  <2>2. Stretch(Int, SubSeq(Response, 0 + 1, k), Response, 0, k - 0)
    BY <1>4, <1>l, <2>1, PartOf
  <2>3. Len(SubSeq(Response, 1, k)) = k
    BY <2>1, <2>2 DEF Stretch
  <2> QED BY <1>7, <2>3, <2>k
<1>9. st' \in {"app", "done"} /\ extra' \in 0..MaxExtra /\ extra <= extra'
  BY <1>0, <1>1, <1>3 DEF Ssl!TypeOK, Ssl!TlsConstants
<1>10. Ssl!TypeOK' /\ Ssl!Counted'
  <2>1. Ssl!TypeOK'
    <3>1. sealed' \in Nat /\ seq' \in Nat
      BY <1>0, <1>1, <1>3 DEF Ssl!TypeOK
    <3>2. apSent' \in 0..Len(Response)
      BY <1>1, <1>5, <1>l
    <3> QED BY <1>0, <1>1, <1>9, <3>1, <3>2 DEF Ssl!TypeOK
  <2>2. sealed' = seq'
    BY <1>1, <1>2, <1>3
  <2>3. guard' <= hsSent' + extra'
    <3>1. guard \in Nat /\ hsSent \in Int /\ extra \in Int /\ extra' \in Int /\ extra <= extra' /\ guard <= hsSent + extra
      BY <1>0, <1>9 DEF Ssl!TypeOK, Ssl!Counted, Ssl!TlsConstants
    <3>2. PICK e : e = extra'
      OBVIOUS
    <3>3. guard <= hsSent + e
      <4>1. e \in Int /\ extra <= e
        BY <3>1, <3>2
      <4> QED BY <3>1, <4>1
    <3>4. guard' = guard /\ hsSent' = hsSent
      BY <1>1
    <3> QED BY <3>2, <3>3, <3>4
  <2>4. Ssl!Counted'
    BY <1>0, <1>1, <2>2, <2>3 DEF Ssl!Counted, SameChain
  <2> QED BY <2>1, <2>4
<1>11. Ssl!validate_chain' <=> Ssl!validate_chain
  BY <1>1, ChainStays
<1>12. st' = "app" => Len(out') = apSent' /\ apSent' < Space
  <2>o. PICK o : o = Len(out')
    OBVIOUS
  <2>3. n \in Nat
    BY <1>4, <1>l
  <2>4. st' = "app" => ~(n > 0 /\ o >= Space)
    <3>1. ASSUME n > 0 /\ o >= Space PROVE st' = "done"
      BY <1>3, <2>o, <3>1
    <3> QED BY <3>1
  <2>1. o = a + take /\ (st' = "app" => ~(n > 0 /\ o >= Space)) /\ n \in Nat
    BY <1>8, <2>o, <2>3, <2>4
  <2>2. ASSUME ~(n > 0 /\ o >= Space) PROVE o = a + n /\ a + n < Space
    BY <1>4, <1>5, <2>1, <2>2
  <2> QED BY <1>1, <2>1, <2>2, <2>o
<1>13. st' = "done" => Len(out') = Space
  <2>o. PICK o : o = Len(out')
    OBVIOUS
  <2>1. o = a + take /\ (st' = "done" => o >= Space)
    BY <1>3, <1>8, <2>o
  <2>2. ASSUME o >= Space PROVE o = Space
    BY <1>4, <1>5, <2>1, <2>2
  <2> QED BY <2>1, <2>2, <2>o
<1>14. Ssl!AsFarAs'
  BY <1>0, <1>1, <1>4, <1>9, <1>11, <1>12 DEF Ssl!AsFarAs
<1>15. Ssl!ResponseInOrder'
  BY <1>7, <1>8, <1>13 DEF Ssl!ResponseInOrder
<1> QED BY <1>10, <1>14, <1>15 DEF Ssl!TlsInv

LEMMA TlsStep ==
  ASSUME NatOrdered, Ssl!TlsConstants, Ssl!TlsInv, [Ssl!Next]_(Ssl!vars)
  PROVE  Ssl!TlsInv'
<1>1. CASE UNCHANGED Ssl!vars
  BY <1>1, TlsEnds DEF Ssl!vars, SameChain
<1>2. CASE Ssl!ChangeCipherSpec
  BY <1>2, TlsSkips
<1>3. CASE Ssl!ServerHello
  BY <1>3, TlsGreets
<1>4. CASE Ssl!CloseNotify
  BY <1>4, TlsEnds DEF Ssl!CloseNotify, SameChain
<1>5. CASE Ssl!Break
  <2>1. st' \in {"done", "failed"}
    BY <1>5 DEF Ssl!Break, Ssl!Ended
  <2> QED BY <1>5, <2>1, TlsEnds DEF Ssl!Break, SameChain
<1>6. CASE \E n \in 1..Len(Flight) : Ssl!FlightRecord(n)
  BY <1>6, TlsTakesFlight
<1>7. CASE \E n \in 0..Len(Response) : Ssl!AppRecord(n)
  BY <1>7, TlsTakesData
<1> QED BY <1>1, <1>2, <1>3, <1>4, <1>5, <1>6, <1>7 DEF Ssl!Next

\* The request goes where it should, and a server that has a right to it gets it.
LEMMA TlsTrusted ==
  ASSUME NatOrdered, Ssl!TlsConstants, Ssl!TlsInv
  PROVE  Ssl!HandshakeIsRight /\ Ssl!ResponseInOrder
<1>1. chain \in Chains /\ now \in Times /\ Ssl!AsFarAs /\ Ssl!ResponseInOrder
  BY DEF Ssl!TlsInv, Ssl!Counted
<1>2. sentReq => chain # <<>> /\ Ssl!Vouched /\ transcript = <<"SH">> \o Ssl!Whole(Flight)
  BY <1>1, ChainVouched DEF Ssl!AsFarAs
<1>3. st = "failed" /\ ~cut /\ chain # <<>> => ~Ssl!Proper \/ Response = <<>>
  BY <1>1, ProperAccepted DEF Ssl!AsFarAs
<1> QED BY <1>1, <1>2, <1>3 DEF Ssl!HandshakeIsRight
=============================================================================
