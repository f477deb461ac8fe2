---------------------------- MODULE SchedProofs ----------------------------
(***************************************************************************)
(* Proofs about the scheduler, for any number of slots, of spawned tasks and  *)
(* of strikes.                                                                *)
(***************************************************************************)
EXTENDS Sched, TLAPS

\* How task i lies saved, given the saved pointers r and the memory m: on its own
\* stack, and over the frame of its system call if it was waiting in one.
SavedUser(i, r, m) ==
  /\ r[i] = At(i, 1)
  /\ m[At(i, 1)] = Frame(i, "user")
  /\ program[i] \in {"hung", "native", "linux"}
SavedKernel(i, r, m) ==
  /\ r[i] = At(i, 1)
  /\ m[At(i, 1)] = Frame(i, "kernel")
  /\ program[i] = "kernel"
SavedSyscall(i, r, m) ==
  /\ r[i] = At(i, 2)
  /\ m[At(i, 2)] = Frame(i, "syscall")
  /\ m[At(i, 1)] = Frame(i, "trap")
  /\ program[i] \in {"hung", "native", "linux"}
Saved(i, r, m) == SavedUser(i, r, m) \/ SavedKernel(i, r, m) \/ SavedSyscall(i, r, m)
SavedBoot(r, m) == r[0] = At(BootStack, 1) /\ m[At(BootStack, 1)] = Frame(0, "boot")

\* What the CPU executes is CUR_TASK's, on CUR_TASK's own stack.
BootRuns    == cpu = Cpu(0, "boot", BootStack, 0) /\ cur = 0
KernelRuns  == cur # 0 /\ cpu = Cpu(cur, "kernel", cur, 0) /\ program[cur] = "kernel"
UserRuns    == cur # 0 /\ cpu = InUser(cur) /\ program[cur] \in {"hung", "native", "linux"}
SyscallRuns == /\ cur # 0 /\ cpu = Cpu(cur, "syscall", cur, 1)
               /\ program[cur] \in {"hung", "native", "linux"}
               /\ mem[At(cur, 1)] = Frame(cur, "trap")
LeavingRuns == /\ cur # 0 /\ cpu = Cpu(cur, "leaving", EntryStack, 0)
               /\ program[cur] \in {"hung", "native", "linux"}
ExitedRuns  == cur # 0 /\ cpu = Cpu(cur, "exited", cur, 1) /\ ~alive[cur]
CpuStopped  == cpu \in {Stop("halted"), Stop("escaped")}

Contexts ==
  /\ \/ BootRuns \/ KernelRuns \/ UserRuns \/ SyscallRuns \/ LeavingRuns
     \/ ExitedRuns \/ CpuStopped
  /\ ~CpuStopped => \A i \in Slots \ {0, cur} : used[i] /\ alive[i] => Saved(i, rsp, mem)
  /\ ~CpuStopped /\ cur # 0 => SavedBoot(rsp, mem)

\* The CPU is set up for the task it executes.
SetUp ==
  cur # 0 =>
    /\ rsp0 = cur /\ sysStack = cur
    /\ cpuLinux = taskLinux[cur]
    /\ cr3[cur] # NoSpace => cpuSpace = cr3[cur]

\* The flags of a slot fit the program in it.
Flags ==
  \A i \in Slots \ {0} : used[i] =>
    /\ taskLinux[i] = (program[i] = "linux")
    /\ program[i] # "kernel" => cr3[i] = i
Clean == phase = "setup" =>
  /\ BootRuns /\ watch = 0 /\ stall = 0 /\ quiet = 0
  /\ \A i \in Slots : ~used[i] => ~taskLinux[i]

\* The current task's slot stays in use: only the boot thread kills.
CurUsed == cur # 0 => used[cur]

\* The strikes of the watchdog never exceed the checks since the last report.
StrikesQuiet ==
  /\ ~progress => stall <= quiet
  /\ watch # 0 /\ alive[watch] => stall < StallLimit

IInv == TypeOK /\ Contexts /\ SetUp /\ Flags /\ Clean /\ CurUsed /\ StrikesQuiet
-----------------------------------------------------------------------------
USE SchedAssumption

\* The slot that next_alive returns exists and may run.
LEMMA NextAliveRunnable ==
  ASSUME NEW c \in Slots
  PROVE  NextAlive(c) \in Slots /\ Runnable(NextAlive(c))
<1> DEFINE slot(off)  == (c + off) % MAX_TASKS
           First(off) == /\ Runnable(slot(off))
                         /\ \A o \in 1 .. off - 1 : ~Runnable(slot(o))
           pick == CHOOSE off \in 1 .. MAX_TASKS : First(off)
<1>1. NextAlive(c) = IF \E off \in 1 .. MAX_TASKS : First(off) THEN slot(pick) ELSE 0
  BY DEF NextAlive
<1>2. \A off \in 1 .. MAX_TASKS : slot(off) \in Slots
  <2> SUFFICES ASSUME NEW off \in 1 .. MAX_TASKS PROVE slot(off) \in Slots
    OBVIOUS
  <2>1. c + off \in Nat /\ MAX_TASKS \in Nat /\ MAX_TASKS > 0
    BY DEF Slots
  <2> QED BY <2>1 DEF Slots
<1>3. CASE \E off \in 1 .. MAX_TASKS : First(off)
  <2>1. pick \in 1 .. MAX_TASKS /\ First(pick)
    BY <1>3
  <2> QED BY <1>1, <1>2, <1>3, <2>1
<1>4. CASE ~ \E off \in 1 .. MAX_TASKS : First(off)
  BY <1>1, <1>4 DEF Slots, Runnable
<1> QED BY <1>3, <1>4

\* Frames lie in distinct places of distinct stacks.
LEMMA PlacesDiffer ==
  /\ \A i \in Slots : At(i, 1) \in Places /\ At(i, 2) \in Places
  /\ At(BootStack, 1) \in Places
  /\ \A s, t, d, e : At(s, d) = At(t, e) <=> s = t /\ d = e
  /\ BootStack \notin Slots /\ EntryStack \notin Slots /\ NoSpace \notin Slots
BY DEF Slots, Places, Stacks, At, BootStack, EntryStack, NoSpace

\* After the interrupt has stored the frame, every task that may run is saved.
LEMMA TickSaves ==
  ASSUME IInv, phase = "run", cpu.mode \in Preemptible,
         NEW saved, saved = [mem EXCEPT ![FramePlace] = Frame(cpu.task, cpu.mode)],
         NEW from, from = [rsp EXCEPT ![cur] = FramePlace]
  PROVE  /\ FramePlace \in Places
         /\ \A i \in Slots \ {0} : used[i] /\ alive[i] => Saved(i, from, saved)
         /\ SavedBoot(from, saved)
<1> USE PlacesDiffer DEF IInv, KStackTop
<1> DEFINE Goal ==
      /\ FramePlace \in Places
      /\ \A i \in Slots \ {0} : used[i] /\ alive[i] => Saved(i, from, saved)
      /\ SavedBoot(from, saved)
<1>t. /\ cur \in Slots /\ 0 \in Slots /\ rsp \in [Slots -> Places]
      /\ DOMAIN mem = Places
  BY DEF TypeOK, Slots
<1>n. ~CpuStopped
  BY DEF CpuStopped, Stop, Cpu, Preemptible
<1>o. \A i \in Slots \ {0, cur} : used[i] /\ alive[i] => Saved(i, rsp, mem)
  BY <1>n DEF Contexts
<1>b. cur # 0 => SavedBoot(rsp, mem)
  BY <1>n DEF Contexts
<1>1. CASE BootRuns
  <2>1. FramePlace = At(BootStack, 1) /\ Frame(cpu.task, cpu.mode) = Frame(0, "boot") /\ cur = 0
    BY <1>1 DEF BootRuns, FramePlace, Cpu
  <2>2. SavedBoot(from, saved)
    BY <1>t, <2>1 DEF SavedBoot
  <2>3. \A i \in Slots \ {0} : used[i] /\ alive[i] => Saved(i, from, saved)
    BY <1>t, <1>o, <2>1 DEF Saved, SavedUser, SavedKernel, SavedSyscall
  <2> QED BY <2>1, <2>2, <2>3
<1>2. ASSUME cur # 0, FramePlace \in {At(cur, 1), At(cur, 2)},
             used[cur] /\ alive[cur] => Saved(cur, from, saved)
      PROVE  Goal
  <2>1. SavedBoot(from, saved)
    BY <1>t, <1>b, <1>2 DEF SavedBoot
  <2>2. \A i \in Slots \ {0, cur} : used[i] /\ alive[i] => Saved(i, from, saved)
    BY <1>t, <1>o, <1>2 DEF Saved, SavedUser, SavedKernel, SavedSyscall
  <2>3. FramePlace \in Places
    BY <1>t, <1>2
  <2>4. \A i \in Slots \ {0} : used[i] /\ alive[i] => Saved(i, from, saved)
    <3> TAKE i \in Slots \ {0}
    <3> HIDE DEF IInv
    <3> QED BY ZenonT(60), <1>2, <2>2
  <2> QED BY <2>1, <2>3, <2>4
<1>3. CASE KernelRuns
  <2>1. FramePlace = At(cur, 1) /\ Frame(cpu.task, cpu.mode) = Frame(cur, "kernel")
    BY <1>3 DEF KernelRuns, FramePlace, Cpu
  <2>2. SavedKernel(cur, from, saved)
    BY <1>t, <1>3, <2>1 DEF SavedKernel, KernelRuns
  <2> QED BY <1>2, <1>3, <2>1, <2>2 DEF Saved, KernelRuns
<1>4. CASE UserRuns
  <2>1. FramePlace = At(cur, 1) /\ Frame(cpu.task, cpu.mode) = Frame(cur, "user")
    BY <1>4 DEF UserRuns, FramePlace, InUser, Cpu, SetUp
  <2>2. SavedUser(cur, from, saved)
    BY <1>t, <1>4, <2>1 DEF SavedUser, UserRuns
  <2> QED BY <1>2, <1>4, <2>1, <2>2 DEF Saved, UserRuns
<1>5. CASE SyscallRuns
  <2>1. FramePlace = At(cur, 2) /\ Frame(cpu.task, cpu.mode) = Frame(cur, "syscall")
    BY <1>5 DEF SyscallRuns, FramePlace, Cpu
  <2>2. SavedSyscall(cur, from, saved)
    BY <1>t, <1>5, <2>1 DEF SavedSyscall, SyscallRuns
  <2> QED BY <1>2, <1>5, <2>1, <2>2 DEF Saved, SyscallRuns
<1>6. CASE ExitedRuns
  <2>1. FramePlace = At(cur, 2)
    BY <1>6 DEF ExitedRuns, FramePlace, Cpu
  <2> QED BY <1>2, <1>6, <2>1 DEF ExitedRuns
<1>7. ~LeavingRuns
  BY DEF LeavingRuns, Cpu, Preemptible
<1> QED BY <1>1, <1>3, <1>4, <1>5, <1>6, <1>7, <1>n DEF Contexts

\* Resuming a saved task leaves the CPU running it on its own stack.
LEMMA ResumeSaved ==
  ASSUME NEW nxt \in Slots, NEW r \in [Slots -> Places], NEW m, DOMAIN m = Places,
         nxt # 0 => Saved(nxt, r, m), nxt = 0 => SavedBoot(r, m),
         NEW c, c = Resume(m[r[nxt]], r[nxt])
  PROVE  \/ nxt = 0 /\ r[nxt] = At(BootStack, 1) /\ c = Cpu(0, "boot", BootStack, 0)
         \/ /\ nxt # 0 /\ r[nxt] = At(nxt, 1)
            /\ program[nxt] \in {"hung", "native", "linux"} /\ c = InUser(nxt)
         \/ /\ nxt # 0 /\ r[nxt] = At(nxt, 1)
            /\ program[nxt] = "kernel" /\ c = Cpu(nxt, "kernel", nxt, 0)
         \/ /\ nxt # 0 /\ r[nxt] = At(nxt, 2)
            /\ program[nxt] \in {"hung", "native", "linux"}
            /\ m[At(nxt, 1)] = Frame(nxt, "trap") /\ c = Cpu(nxt, "syscall", nxt, 1)
<1>1. \A t, s, d : /\ Resume(Frame(t, "user"), At(s, d)) = InUser(t)
                  /\ Resume(Frame(t, "boot"), At(s, d)) = Cpu(t, "boot", s, d - 1)
                  /\ Resume(Frame(t, "kernel"), At(s, d)) = Cpu(t, "kernel", s, d - 1)
                  /\ Resume(Frame(t, "syscall"), At(s, d)) = Cpu(t, "syscall", s, d - 1)
  BY DEF Resume, Frame, At, Preemptible
<1>2. 1 - 1 = 0 /\ 2 - 1 = 1
  OBVIOUS
<1> QED BY <1>1, <1>2 DEF Saved, SavedUser, SavedKernel, SavedSyscall, SavedBoot
-----------------------------------------------------------------------------
LEMMA Initial == Init => IInv
<1> SUFFICES ASSUME Init PROVE IInv
  OBVIOUS
<1> USE PlacesDiffer DEF Init
<1>0. 0 \in Slots
  BY DEF Slots
<1>1. TypeOK
  <2>1. cpu \in [task : Slots, mode : Modes, stack : Stacks, depth : {0, 1}]
    BY <1>0 DEF Cpu, Modes, Preemptible, Stacks, BootStack
  <2>2. mem \in [Places -> [task : Slots, mode : Preemptible \cup {"trap", "none"}]]
    BY <1>0 DEF Places, NoFrame, Frame
  <2>3. program \in [Slots -> Programs] /\ rsp \in [Slots -> Places]
    BY DEF Programs
  <2>4. rsp0 \in Stacks /\ sysStack \in Stacks
    BY DEF Stacks, EntryStack
  <2>5. cr3 \in [Slots -> Slots \cup {NoSpace}]
    BY <1>0
  <2>6. used \in [Slots -> BOOLEAN] /\ alive \in [Slots -> BOOLEAN]
    OBVIOUS
  <2>7. /\ phase \in {"setup", "run"} /\ taskLinux \in [Slots -> BOOLEAN]
        /\ preemptiveLinux \in BOOLEAN /\ cpuLinux \in BOOLEAN /\ progress \in BOOLEAN
    OBVIOUS
  <2>8. cur \in Slots /\ cpuSpace \in Slots /\ watch \in Slots
    BY <1>0
  <2>9. stall \in 0 .. StallLimit /\ quiet \in 0 .. StallLimit + 1
    OBVIOUS
  <2> QED BY <2>1, <2>2, <2>3, <2>4, <2>5, <2>6, <2>7, <2>8, <2>9 DEF TypeOK
<1>2. BootRuns
  BY DEF BootRuns
<1>3. \A i \in Slots \ {0} : ~used[i]
  OBVIOUS
<1>4. Contexts /\ SetUp /\ Flags /\ Clean /\ CurUsed
  BY <1>2, <1>3 DEF Contexts, SetUp, Flags, Clean, CurUsed
<1>5. StrikesQuiet
  BY DEF StrikesQuiet
<1> QED BY <1>1, <1>4, <1>5 DEF IInv

\* What a spawn does to its slot keeps the invariant.
LEMMA PrimeKeeps ==
  ASSUME IInv, NEW i \in Slots \ {0}, NEW prog \in Programs \ {"none", "boot"}, NEW mode,
         mode = (IF prog = "kernel" THEN "kernel" ELSE "user"),
         NEW space \in {i, NoSpace}, prog # "kernel" => space = i,
         Prime(i, prog, mode, space),
         taskLinux' = [taskLinux EXCEPT ![i] = prog = "linux"],
         preemptiveLinux' \in BOOLEAN
  PROVE  IInv'
<1> USE PlacesDiffer DEF Prime, KStackTop, watchVars
<1>t. /\ 0 \in Slots /\ rsp \in [Slots -> Places] /\ DOMAIN mem = Places
      /\ used \in [Slots -> BOOLEAN] /\ alive \in [Slots -> BOOLEAN]
      /\ cr3 \in [Slots -> Slots \cup {NoSpace}] /\ taskLinux \in [Slots -> BOOLEAN]
      /\ program \in [Slots -> Programs]
  <2>1. TypeOK
    BY DEF IInv
  <2>2. 0 \in Slots
    BY DEF Slots
  <2> HIDE DEF Prime
  <2> QED BY <2>1, <2>2 DEF TypeOK
<1>b. BootRuns /\ cur = 0 /\ watch = 0 /\ stall = 0 /\ quiet = 0 /\ ~used[i]
  BY DEF IInv, Clean, BootRuns, FreeSlot
<1>n. ~CpuStopped
  BY <1>b DEF BootRuns, CpuStopped, Cpu, Stop
<1>1. TypeOK'
  <2>1. mem' \in [Places -> [task : Slots, mode : Preemptible \cup {"trap", "none"}]]
    BY DEF IInv, TypeOK, Frame, Preemptible
  <2>2. /\ used' \in [Slots -> BOOLEAN] /\ alive' \in [Slots -> BOOLEAN]
        /\ rsp' \in [Slots -> Places] /\ cr3' \in [Slots -> Slots \cup {NoSpace}]
        /\ taskLinux' \in [Slots -> BOOLEAN] /\ program' \in [Slots -> Programs]
    <3>1. taskLinux' \in [Slots -> BOOLEAN]
      BY <1>t, Zenon
    <3> QED BY <1>t, <3>1
  <2> QED BY <2>1, <2>2 DEF IInv, TypeOK
<1>2. Saved(i, rsp, mem)'
  <2>1. /\ rsp'[i] = At(i, 1) /\ mem'[At(i, 1)] = Frame(i, mode)
        /\ program'[i] = prog
    BY <1>t
  <2>2. CASE prog = "kernel"
    BY <2>1, <2>2 DEF Saved, SavedKernel
  <2>3. CASE prog # "kernel"
    BY <2>1, <2>3 DEF Saved, SavedUser, Programs
  <2> QED BY <2>2, <2>3
<1>3. Contexts'
  <2>1. \A j \in Slots \ {0} : used[j] /\ alive[j] => Saved(j, rsp, mem)
    BY <1>b, <1>n DEF IInv, Contexts
  <2>2. \A j \in Slots \ {0, i} : used'[j] /\ alive'[j] => Saved(j, rsp, mem)'
    <3> SUFFICES ASSUME NEW j \in Slots \ {0, i}, used'[j], alive'[j]
                 PROVE  Saved(j, rsp, mem)'
      OBVIOUS
    <3>1. used[j] /\ alive[j]
      BY <1>t
    <3>3. rsp'[j] = rsp[j] /\ program'[j] = program[j]
      BY <1>t
    <3>2. mem'[At(j, 1)] = mem[At(j, 1)] /\ mem'[At(j, 2)] = mem[At(j, 2)]
      BY <1>t
    <3> QED BY <2>1, <3>1, <3>2, <3>3 DEF Saved, SavedUser, SavedKernel, SavedSyscall
  <2>3. BootRuns'
    BY <1>b DEF BootRuns
  <2>4. cur' = 0
    BY <1>b
  <2>5. \A j \in Slots \ {0} : used'[j] /\ alive'[j] => Saved(j, rsp, mem)'
    <3> HIDE DEF Prime
    <3> QED BY <1>2, <2>2
  <2> HIDE DEF Prime
  <2> QED BY <2>3, <2>4, <2>5 DEF Contexts
<1>4. SetUp' /\ CurUsed'
  BY <1>b DEF SetUp, CurUsed
<1>5. Flags'
  <2> SUFFICES ASSUME NEW j \in Slots \ {0}, used'[j]
               PROVE  /\ taskLinux'[j] = (program'[j] = "linux")
                      /\ program'[j] # "kernel" => cr3'[j] = j
    BY DEF Flags
  <2>1. CASE j = i
    BY <1>t, <2>1
  <2>2. CASE j # i
    <3>1. used[j] /\ taskLinux'[j] = taskLinux[j] /\ program'[j] = program[j] /\ cr3'[j] = cr3[j]
      BY <1>t, <2>2
    <3> QED BY <3>1 DEF IInv, Flags
  <2> QED BY <2>1, <2>2
<1>6. Clean'
  <2>1. BootRuns'
    BY <1>b DEF BootRuns
  <2>2. \A j \in Slots : ~used'[j] => ~taskLinux'[j]
    <3> SUFFICES ASSUME NEW j \in Slots, ~used'[j] PROVE ~taskLinux'[j]
      OBVIOUS
    <3>1. j # i /\ ~used[j] /\ taskLinux'[j] = taskLinux[j]
      BY <1>t
    <3> QED BY <3>1 DEF IInv, Clean
  <2> QED BY <1>b, <2>1, <2>2 DEF Clean
<1>7. StrikesQuiet'
  BY <1>b DEF StrikesQuiet
<1> QED BY <1>1, <1>3, <1>4, <1>5, <1>6, <1>7 DEF IInv

LEMMA SpawnKeeps == ASSUME IInv, NEW i \in Slots \ {0}, Spawn(i) PROVE IInv'
<1>t. taskLinux \in [Slots -> BOOLEAN] /\ preemptiveLinux \in BOOLEAN
  BY DEF IInv, TypeOK
<1>u. ASSUME phase = "setup", ~used[i] PROVE taskLinux = [taskLinux EXCEPT ![i] = FALSE]
  BY <1>t, <1>u DEF IInv, Clean
<1>p. \A prog, mode, space : Prime(i, prog, mode, space) => phase = "setup" /\ ~used[i]
  BY DEF Prime, FreeSlot
<1>1. CASE SpawnPreempt(i)
  <2>1. taskLinux' = [taskLinux EXCEPT ![i] = "kernel" = "linux"]
    BY <1>1, <1>u, <1>p DEF SpawnPreempt
  <2> QED BY <1>1, <1>t, <2>1, PrimeKeeps DEF SpawnPreempt, Programs
<1>2. CASE SpawnPreemptAs(i)
  <2>1. PICK space \in {i, NoSpace} : Prime(i, "kernel", "kernel", space)
    BY <1>2 DEF SpawnPreemptAs
  <2>2. taskLinux' = [taskLinux EXCEPT ![i] = "kernel" = "linux"]
    BY <1>2, <1>u, <1>p, <2>1 DEF SpawnPreemptAs
  <2>3. preemptiveLinux' \in BOOLEAN
    BY <1>2, <1>t DEF SpawnPreemptAs
  <2>4. "kernel" \in Programs \ {"none", "boot"}
    BY DEF Programs
  <2> QED BY <2>1, <2>2, <2>3, <2>4, PrimeKeeps
<1>3. CASE SpawnRing3(i)
  <2>1. PICK prog \in {"hung", "native"} : Prime(i, prog, "user", i)
    BY <1>3 DEF SpawnRing3
  <2>2. taskLinux' = [taskLinux EXCEPT ![i] = prog = "linux"]
    <3>1. (prog = "linux") = FALSE
      BY <2>1
    <3> QED BY <1>3, <1>u, <1>p, <2>1, <3>1 DEF SpawnRing3
  <2> QED BY <1>3, <1>t, <2>1, <2>2, PrimeKeeps DEF SpawnRing3, Programs
<1>4. CASE SpawnRing3Elf(i)
  BY <1>4, <1>t, PrimeKeeps DEF SpawnRing3Elf, Programs
<1>5. CASE SpawnLinuxElf(i)
  <2>1. taskLinux' = [taskLinux EXCEPT ![i] = "linux" = "linux"]
    BY <1>5 DEF SpawnLinuxElf
  <2> QED BY <1>5, <1>t, <2>1, PrimeKeeps DEF SpawnLinuxElf, Programs
<1> QED BY <1>1, <1>2, <1>3, <1>4, <1>5 DEF Spawn
-----------------------------------------------------------------------------
LEMMA TickKeeps == ASSUME IInv, PreemptTick PROVE IInv'
<1> DEFINE nxt   == NextAlive(cur)
           saved == [mem EXCEPT ![FramePlace] = Frame(cpu.task, cpu.mode)]
           from  == [rsp EXCEPT ![cur] = FramePlace]
<1> USE PlacesDiffer
<1>t. TypeOK
  BY DEF IInv
<1>0. cur \in Slots /\ 0 \in Slots
  <2>1. 0 \in Slots
    BY DEF Slots
  <2> QED BY <1>t, <2>1 DEF TypeOK
<1>1. nxt \in Slots /\ (nxt = 0 \/ (used[nxt] /\ alive[nxt]))
  BY <1>0, NextAliveRunnable DEF Runnable
<1>2. phase = "run" /\ cpu.mode \in Preemptible
  BY DEF PreemptTick
<1>3. /\ FramePlace \in Places
      /\ \A i \in Slots \ {0} : used[i] /\ alive[i] => Saved(i, from, saved)
      /\ SavedBoot(from, saved)
  BY <1>2, TickSaves
<1>4. from \in [Slots -> Places] /\ DOMAIN saved = Places
  BY <1>0, <1>3, <1>t DEF TypeOK
<1>5. /\ rsp' = from /\ cur' = nxt
      /\ cpuSpace' = (IF cr3[nxt] = NoSpace THEN cpuSpace ELSE cr3[nxt])
      /\ rsp0' = nxt /\ sysStack' = nxt /\ cpuLinux' = taskLinux[nxt]
      /\ cpu' = Resume(saved[from[nxt]], from[nxt])
      /\ mem' = [saved EXCEPT ![from[nxt]] = NoFrame]
      /\ UNCHANGED <<phase, used, alive, cr3, taskLinux, preemptiveLinux, watch,
                     progress, stall, quiet, program>>
  BY DEF PreemptTick, SwitchSpace, RetargetRsp0, RetargetSyscallStack, RouteSyscalls,
         KStackTop, watchVars
<1> HIDE DEF nxt, saved, from
<1>6. \/ nxt = 0 /\ from[nxt] = At(BootStack, 1) /\ cpu' = Cpu(0, "boot", BootStack, 0)
      \/ /\ nxt # 0 /\ from[nxt] = At(nxt, 1)
         /\ program[nxt] \in {"hung", "native", "linux"} /\ cpu' = InUser(nxt)
      \/ /\ nxt # 0 /\ from[nxt] = At(nxt, 1)
         /\ program[nxt] = "kernel" /\ cpu' = Cpu(nxt, "kernel", nxt, 0)
      \/ /\ nxt # 0 /\ from[nxt] = At(nxt, 2)
         /\ program[nxt] \in {"hung", "native", "linux"}
         /\ saved[At(nxt, 1)] = Frame(nxt, "trap") /\ cpu' = Cpu(nxt, "syscall", nxt, 1)
  BY <1>1, <1>3, <1>4, <1>5, ResumeSaved
<1>7. Contexts'
  <2>1. BootRuns' \/ KernelRuns' \/ UserRuns' \/ SyscallRuns'
    <3>1. ASSUME nxt # 0, from[nxt] = At(nxt, 2) PROVE mem'[At(nxt, 1)] = saved[At(nxt, 1)]
      BY <1>1, <1>4, <1>5, <3>1
    <3> QED BY <1>5, <1>6, <3>1 DEF BootRuns, KernelRuns, UserRuns, SyscallRuns
  <2>2. \A i \in Slots \ {0, nxt} : used'[i] /\ alive'[i] => Saved(i, rsp, mem)'
    <3> SUFFICES ASSUME NEW i \in Slots \ {0, nxt}, used'[i], alive'[i]
                 PROVE  Saved(i, rsp, mem)'
      OBVIOUS
    <3>1. Saved(i, from, saved)
      BY <1>3, <1>5
    <3>2. from[nxt] \notin {At(i, 1), At(i, 2)}
      BY <1>6
    <3>3. mem'[At(i, 1)] = saved[At(i, 1)] /\ mem'[At(i, 2)] = saved[At(i, 2)]
      BY <1>4, <1>5, <3>2
    <3> QED BY <1>5, <3>1, <3>3 DEF Saved, SavedUser, SavedKernel, SavedSyscall
  <2>3. nxt # 0 => SavedBoot(rsp, mem)'
    <3> SUFFICES ASSUME nxt # 0 PROVE SavedBoot(rsp, mem)'
      OBVIOUS
    <3>1. from[nxt] # At(BootStack, 1)
      BY <1>1, <1>6
    <3>2. mem'[At(BootStack, 1)] = saved[At(BootStack, 1)]
      BY <1>4, <1>5, <3>1
    <3> QED BY <1>3, <1>5, <3>2 DEF SavedBoot
  <2> QED BY <1>5, <2>1, <2>2, <2>3 DEF Contexts
<1>8. SetUp' /\ CurUsed'
  BY <1>1, <1>5 DEF SetUp, CurUsed
<1>9. Flags' /\ Clean' /\ StrikesQuiet'
  BY <1>2, <1>5 DEF Flags, Clean, StrikesQuiet, IInv
<1>10. TypeOK'
  <2>1. cpu' \in [task : Slots, mode : Modes, stack : Stacks, depth : {0, 1}]
    BY <1>0, <1>1, <1>6 DEF Cpu, InUser, Modes, Preemptible, Stacks, Slots, BootStack, EntryStack
  <2>2. Frame(cpu.task, cpu.mode) \in [task : Slots, mode : Preemptible \cup {"trap", "none"}]
    BY <1>2, <1>t DEF TypeOK, Frame
  <2>3. NoFrame \in [task : Slots, mode : Preemptible \cup {"trap", "none"}]
    BY <1>0 DEF NoFrame, Frame
  <2>4. saved \in [Places -> [task : Slots, mode : Preemptible \cup {"trap", "none"}]]
    BY <1>t, <2>2 DEF TypeOK, saved
  <2>5. mem' \in [Places -> [task : Slots, mode : Preemptible \cup {"trap", "none"}]]
    BY <1>5, <2>3, <2>4
  <2>6. cpuSpace' \in Slots /\ rsp0' \in Stacks /\ sysStack' \in Stacks /\ cur' \in Slots
    <3>1. cr3[nxt] \in Slots \cup {NoSpace} /\ cpuSpace \in Slots
      BY <1>1, <1>t DEF TypeOK
    <3>2. Slots \subseteq Stacks
      BY DEF Slots, Stacks
    <3> QED BY <1>1, <1>5, <3>1, <3>2
  <2>7. cpuLinux' \in BOOLEAN
    BY <1>1, <1>5, <1>t DEF TypeOK
  <2> QED BY <1>4, <1>5, <1>t, <2>1, <2>5, <2>6, <2>7 DEF TypeOK
<1> QED BY <1>7, <1>8, <1>9, <1>10 DEF IInv

\* A step that only moves the CPU, and writes at most the current task's syscall
\* frame, leaves the other tasks saved where they were.
LEMMA OthersKeep ==
  ASSUME IInv, phase = "run", ~CpuStopped, cur # 0,
         \A p \in Places : p # At(cur, 1) => mem'[p] = mem[p],
         UNCHANGED <<rsp, program, cur, used>>,
         \A i \in Slots \ {cur} : alive'[i] = alive[i]
  PROVE  /\ \A i \in Slots \ {0, cur'} : used'[i] /\ alive'[i] => Saved(i, rsp, mem)'
         /\ SavedBoot(rsp, mem)'
<1> USE PlacesDiffer
<1>1. /\ \A i \in Slots \ {0, cur} : used[i] /\ alive[i] => Saved(i, rsp, mem)
      /\ SavedBoot(rsp, mem) /\ cur \in Slots
  BY DEF IInv, Contexts, TypeOK
<1>2. ASSUME NEW i \in Slots \ {0, cur'}, used'[i], alive'[i] PROVE Saved(i, rsp, mem)'
  <2>1. Saved(i, rsp, mem)
    BY <1>1, <1>2
  <2>2. mem'[At(i, 1)] = mem[At(i, 1)] /\ mem'[At(i, 2)] = mem[At(i, 2)]
    BY <1>1, <1>2
  <2> QED BY <2>1, <2>2 DEF Saved, SavedUser, SavedKernel, SavedSyscall
<1>3. SavedBoot(rsp, mem)'
  <2>1. mem'[At(BootStack, 1)] = mem[At(BootStack, 1)]
    BY <1>1
  <2> QED BY <1>1, <2>1 DEF SavedBoot
<1> QED BY <1>2, <1>3

\* A program that makes a system call is CUR_TASK's, and the CPU is set up for it.
LEMMA InProgramRuns == ASSUME IInv, InProgram PROVE UserRuns /\ ~CpuStopped
<1>1. cpu.mode = "user"
  BY DEF InProgram
<1> QED BY <1>1 DEF IInv, Contexts, BootRuns, KernelRuns, SyscallRuns, LeavingRuns,
                   ExitedRuns, CpuStopped, Stop, Cpu

\* Stopping the CPU keeps the invariant.
LEMMA StopKeeps ==
  ASSUME IInv, phase = "run", cpu' \in {Stop("halted"), Stop("escaped")},
         UNCHANGED <<phase, taskVars, cpuSpace, cpuLinux, rsp0, sysStack, mem,
                     watchVars, program>>
  PROVE  IInv'
<1> USE DEF taskVars, watchVars
<1>1. Contexts'
  BY DEF Contexts, CpuStopped, Stop, Cpu
<1>2. TypeOK'
  <2>1. cpu' \in [task : Slots, mode : Modes, stack : Stacks, depth : {0, 1}]
    <3>1. 0 \in Slots /\ EntryStack \in Stacks /\ "halted" \in Modes /\ "escaped" \in Modes
      BY DEF Slots, Stacks, EntryStack, Modes, Stopped
    <3> QED BY <3>1 DEF Stop, Cpu
  <2> QED BY <2>1 DEF IInv, TypeOK
<1>3. SetUp' /\ Flags' /\ Clean' /\ CurUsed' /\ StrikesQuiet'
  BY DEF IInv, SetUp, Flags, Clean, CurUsed, StrikesQuiet
<1> QED BY <1>1, <1>2, <1>3 DEF IInv

LEMMA WaitKeeps == ASSUME IInv, SyscallWait PROVE IInv'
<1> USE PlacesDiffer DEF taskVars, watchVars
<1>1. UserRuns /\ ~CpuStopped /\ phase = "run"
  BY InProgramRuns DEF SyscallWait, InProgram
<1>2. cur \in Slots \ {0} /\ sysStack = cur /\ cpu.task = cur /\ TypeOK
  BY <1>1 DEF UserRuns, InUser, Cpu, IInv, SetUp, TypeOK
<1>3. /\ mem' = [mem EXCEPT ![At(cur, 1)] = Frame(cur, "trap")]
      /\ cpu' = Cpu(cur, "syscall", cur, 1)
      /\ UNCHANGED <<phase, taskVars, cpuSpace, cpuLinux, rsp0, sysStack, watchVars, program>>
  BY <1>2 DEF SyscallWait
<1>4. mem'[At(cur, 1)] = Frame(cur, "trap") /\ \A p \in Places : p # At(cur, 1) => mem'[p] = mem[p]
  BY <1>2, <1>3 DEF TypeOK
<1>5. SyscallRuns'
  BY <1>1, <1>3, <1>4 DEF SyscallRuns, UserRuns
<1>6. Contexts'
  BY <1>1, <1>2, <1>3, <1>4, <1>5, OthersKeep DEF Contexts
<1>7. TypeOK'
  <2>1. cpu' \in [task : Slots, mode : Modes, stack : Stacks, depth : {0, 1}]
    <3>1. cur \in Stacks
      BY <1>2 DEF Slots, Stacks
    <3> QED BY <1>2, <1>3, <3>1 DEF Cpu, Modes, Preemptible
  <2>2. mem' \in [Places -> [task : Slots, mode : Preemptible \cup {"trap", "none"}]]
    BY <1>2, <1>3 DEF TypeOK, Frame
  <2> QED BY <1>2, <1>3, <2>1, <2>2 DEF TypeOK
<1>8. SetUp' /\ Flags' /\ Clean' /\ CurUsed' /\ StrikesQuiet'
  BY <1>1, <1>3 DEF IInv, SetUp, Flags, Clean, CurUsed, StrikesQuiet
<1> QED BY <1>6, <1>7, <1>8 DEF IInv

LEMMA LeaveKeeps == ASSUME IInv, SyscallLeave PROVE IInv'
<1> USE PlacesDiffer DEF taskVars, watchVars
<1>1. SyscallRuns /\ ~CpuStopped
  <2>1. cpu.mode = "syscall"
    BY DEF SyscallLeave
  <2>2. ~BootRuns /\ ~KernelRuns /\ ~UserRuns /\ ~LeavingRuns /\ ~ExitedRuns /\ ~CpuStopped
    BY <2>1 DEF BootRuns, KernelRuns, UserRuns, InUser, LeavingRuns, ExitedRuns, CpuStopped,
                Stop, Cpu
  <2> QED BY <2>2 DEF IInv, Contexts
<1>2. cur \in Slots \ {0} /\ At(cpu.stack, cpu.depth) = At(cur, 1) /\ TypeOK
  BY <1>1 DEF SyscallRuns, Cpu, IInv, TypeOK
<1>r. phase = "run"
  BY <1>2 DEF IInv, Clean, BootRuns, TypeOK
<1>3. /\ mem' = [mem EXCEPT ![At(cur, 1)] = NoFrame]
      /\ cpu' = Cpu(cur, "leaving", EntryStack, 0)
      /\ UNCHANGED <<phase, taskVars, cpuSpace, cpuLinux, rsp0, sysStack, watchVars, program>>
  <2>1. mem[At(cur, 1)].mode = "trap" /\ mem[At(cur, 1)].task = cur
    BY <1>1 DEF SyscallRuns, Frame
  <2>2. /\ cpu' = Cpu(cur, "leaving", EntryStack, 0)
        /\ mem' = [mem EXCEPT ![At(cur, 1)] = NoFrame]
    BY <1>2, <2>1 DEF SyscallLeave
  <2>3. UNCHANGED <<phase, taskVars, cpuSpace, cpuLinux, rsp0, sysStack, watchVars, program>>
    BY DEF SyscallLeave
  <2> QED BY <2>2, <2>3
<1>4. \A p \in Places : p # At(cur, 1) => mem'[p] = mem[p]
  BY <1>2, <1>3 DEF TypeOK
<1>5. LeavingRuns'
  BY <1>1, <1>3 DEF SyscallRuns, LeavingRuns
<1>6. Contexts'
  BY <1>1, <1>2, <1>r, <1>3, <1>4, <1>5, OthersKeep DEF Contexts
<1>7. TypeOK'
  <2>1. cpu' \in [task : Slots, mode : Modes, stack : Stacks, depth : {0, 1}]
    <3>1. EntryStack \in Stacks
      BY DEF EntryStack, Stacks
    <3> QED BY <1>2, <1>3, <3>1 DEF Cpu, Modes
  <2>2. mem' \in [Places -> [task : Slots, mode : Preemptible \cup {"trap", "none"}]]
    <3>1. 0 \in Slots
      BY DEF Slots
    <3> QED BY <1>2, <1>3, <3>1 DEF TypeOK, NoFrame, Frame
  <2> QED BY <1>2, <1>3, <2>1, <2>2 DEF TypeOK
<1>8. SetUp' /\ Flags' /\ Clean' /\ CurUsed' /\ StrikesQuiet'
  BY <1>r, <1>3 DEF IInv, SetUp, Flags, Clean, CurUsed, StrikesQuiet
<1> QED BY <1>6, <1>7, <1>8 DEF IInv

LEMMA ExitKeeps == ASSUME IInv, ExitSyscall PROVE IInv'
<1> USE PlacesDiffer DEF watchVars
<1>1. UserRuns /\ ~CpuStopped /\ phase = "run"
  BY InProgramRuns DEF ExitSyscall, InProgram
<1>2. cur \in Slots \ {0} /\ sysStack = cur /\ cpu.task = cur /\ TypeOK
  BY <1>1 DEF UserRuns, InUser, Cpu, IInv, SetUp, TypeOK
<1>3. CASE ~(cpuLinux /\ preemptiveLinux)
  BY <1>1, <1>3, StopKeeps DEF ExitSyscall, taskVars
<1>4. CASE cpuLinux /\ preemptiveLinux
  <2>1. /\ alive' = [alive EXCEPT ![cur] = FALSE]
        /\ mem' = [mem EXCEPT ![At(cur, 1)] = Frame(cur, "trap")]
        /\ cpu' = Cpu(cur, "exited", cur, 1)
        /\ UNCHANGED <<phase, used, rsp, cr3, taskLinux, cur, preemptiveLinux,
                       cpuSpace, cpuLinux, rsp0, sysStack, watchVars, program>>
    BY <1>2, <1>4 DEF ExitSyscall
  <2>2. /\ \A p \in Places : p # At(cur, 1) => mem'[p] = mem[p]
        /\ ~alive'[cur]
        /\ \A i \in Slots \ {cur} : alive'[i] = alive[i]
    <3>1. \A p \in Places : p # At(cur, 1) => mem'[p] = mem[p]
      BY <1>2, <2>1 DEF TypeOK
    <3>2. ~alive'[cur]
      BY <1>2, <2>1 DEF TypeOK
    <3>3. \A i \in Slots \ {cur} : alive'[i] = alive[i]
      BY <1>2, <2>1, Zenon DEF TypeOK
    <3> QED BY <3>1, <3>2, <3>3
  <2>3. ExitedRuns'
    BY <1>2, <2>1, <2>2 DEF ExitedRuns
  <2>4. Contexts'
    BY <1>1, <1>2, <2>1, <2>2, <2>3, OthersKeep DEF Contexts
  <2>5. TypeOK'
    <3>1. cpu' \in [task : Slots, mode : Modes, stack : Stacks, depth : {0, 1}]
      <4>1. cur \in Stacks
        BY <1>2 DEF Slots, Stacks
      <4> QED BY <1>2, <2>1, <4>1 DEF Cpu, Modes, Preemptible
    <3>2. mem' \in [Places -> [task : Slots, mode : Preemptible \cup {"trap", "none"}]]
      BY <1>2, <2>1 DEF TypeOK, Frame
    <3>3. alive' \in [Slots -> BOOLEAN]
      BY <1>2, <2>1 DEF TypeOK
    <3> QED BY <1>2, <2>1, <3>1, <3>2, <3>3 DEF TypeOK
  <2>6. SetUp' /\ Flags' /\ Clean' /\ CurUsed'
    BY <1>1, <2>1 DEF IInv, SetUp, Flags, Clean, CurUsed
  <2>7. StrikesQuiet'
    <3>1. watch' # 0 /\ alive'[watch'] => alive[watch]
      BY <1>2, <2>1, <2>2 DEF TypeOK
    <3> QED BY <2>1, <3>1 DEF IInv, StrikesQuiet
  <2> QED BY <2>4, <2>5, <2>6, <2>7 DEF IInv
<1> QED BY <1>3, <1>4

LEMMA CheckKeeps == ASSUME IInv, WatchdogCheck PROVE IInv'
<1> USE DEF WatchdogCheck, cpuVars
<1>1. BootRuns /\ ~CpuStopped /\ phase = "run"
  <2>1. cpu.mode = "boot"
    OBVIOUS
  <2>2. ~KernelRuns /\ ~UserRuns /\ ~SyscallRuns /\ ~LeavingRuns /\ ~ExitedRuns /\ ~CpuStopped
    BY <2>1 DEF KernelRuns, UserRuns, InUser, SyscallRuns, LeavingRuns, ExitedRuns, CpuStopped,
                Stop, Cpu
  <2> QED BY <2>2 DEF IInv, Contexts
<1>2. cur = 0 /\ watch \in Slots \ {0} /\ TypeOK
  BY <1>1 DEF BootRuns, IInv, TypeOK
<1>3. /\ used' \in [Slots -> BOOLEAN] /\ alive' \in [Slots -> BOOLEAN]
      /\ \A i \in Slots : used'[i] => used[i]
      /\ \A i \in Slots : alive'[i] => alive[i]
      /\ ~Wedged(Strikes) \/ ~alive'[watch]
  <2>1. CASE Wedged(Strikes)
    <3>1. used' = [used EXCEPT ![watch] = FALSE] /\ alive' = [alive EXCEPT ![watch] = FALSE]
      BY <2>1 DEF KillTask
    <3>2. used' \in [Slots -> BOOLEAN] /\ alive' \in [Slots -> BOOLEAN]
      BY <1>2, <3>1 DEF TypeOK
    <3>3. (\A i \in Slots : used'[i] => used[i]) /\ (\A i \in Slots : alive'[i] => alive[i])
      BY <1>2, <3>1 DEF TypeOK
    <3>4. ~alive'[watch]
      BY <1>2, <3>1 DEF TypeOK
    <3> QED BY <3>2, <3>3, <3>4
  <2>2. CASE ~Wedged(Strikes)
    BY <1>2, <2>2 DEF TypeOK
  <2> QED BY <2>1, <2>2
<1>4. /\ stall' \in 0 .. StallLimit /\ quiet' \in 0 .. StallLimit + 1
      /\ stall' <= quiet' /\ stall' = Strikes
      /\ ~Wedged(Strikes) => stall' < StallLimit
  BY <1>2 DEF IInv, StrikesQuiet, TypeOK, Strikes, Wedged
<1>5. TypeOK'
  BY <1>2, <1>3, <1>4 DEF TypeOK
<1>6. Contexts'
  <2>1. \A i \in Slots \ {0, cur'} : used'[i] /\ alive'[i] => Saved(i, rsp, mem)'
    <3> SUFFICES ASSUME NEW i \in Slots \ {0, cur'}, used'[i], alive'[i]
                 PROVE  Saved(i, rsp, mem)'
      OBVIOUS
    <3>1. Saved(i, rsp, mem)
      BY <1>1, <1>3 DEF IInv, Contexts
    <3> QED BY <3>1 DEF Saved, SavedUser, SavedKernel, SavedSyscall
  <2>2. BootRuns' /\ cur' = 0
    BY <1>1, <1>2 DEF BootRuns
  <2> QED BY <2>1, <2>2 DEF Contexts
<1>7. SetUp' /\ CurUsed'
  BY <1>2 DEF SetUp, CurUsed
<1>8. Flags' /\ Clean'
  BY <1>1, <1>3 DEF IInv, Flags, Clean
<1>9. StrikesQuiet'
  BY <1>3, <1>4 DEF StrikesQuiet
<1> QED BY <1>5, <1>6, <1>7, <1>8, <1>9 DEF IInv

LEMMA NoteKeeps == ASSUME IInv, NoteSyscall PROVE IInv'
<1> USE DEF NoteSyscall, taskVars, cpuVars
<1>1. TypeOK'
  BY DEF IInv, TypeOK
<1>2. Contexts'
  <2>1. UserRuns /\ ~CpuStopped /\ phase = "run" /\ cur # 0
    BY InProgramRuns DEF InProgram, UserRuns
  <2>2. UserRuns'
    BY <2>1 DEF UserRuns
  <2>3. \A i \in Slots \ {0, cur'} : used'[i] /\ alive'[i] => Saved(i, rsp, mem)'
    BY <2>1 DEF IInv, Contexts, Saved, SavedUser, SavedKernel, SavedSyscall
  <2>4. SavedBoot(rsp, mem)'
    BY <2>1 DEF IInv, Contexts, SavedBoot
  <2> QED BY <2>2, <2>3, <2>4 DEF Contexts
<1>3. SetUp' /\ CurUsed' /\ Flags' /\ Clean'
  BY DEF IInv, SetUp, CurUsed, Flags, Clean, InProgram
<1>4. StrikesQuiet'
  BY DEF IInv, StrikesQuiet
<1> QED BY <1>1, <1>2, <1>3, <1>4 DEF IInv

LEMMA SysretKeeps == ASSUME IInv, Sysret PROVE IInv'
<1> USE DEF Sysret, taskVars, watchVars
<1>1. LeavingRuns /\ ~CpuStopped
  <2>1. cpu.mode = "leaving"
    OBVIOUS
  <2>2. ~BootRuns /\ ~KernelRuns /\ ~UserRuns /\ ~SyscallRuns /\ ~ExitedRuns /\ ~CpuStopped
    BY <2>1 DEF BootRuns, KernelRuns, UserRuns, InUser, SyscallRuns, ExitedRuns, CpuStopped,
                Stop, Cpu
  <2> QED BY <2>2 DEF IInv, Contexts
<1>2. cur \in Slots \ {0} /\ cpu' = InUser(cur) /\ TypeOK /\ phase = "run"
  BY <1>1 DEF LeavingRuns, Cpu, IInv, TypeOK, Clean, BootRuns
<1>3. UserRuns'
  BY <1>1, <1>2 DEF LeavingRuns, UserRuns
<1>4. Contexts'
  <2>1. \A i \in Slots \ {0, cur'} : used'[i] /\ alive'[i] => Saved(i, rsp, mem)'
    BY <1>1 DEF IInv, Contexts, Saved, SavedUser, SavedKernel, SavedSyscall
  <2>2. SavedBoot(rsp, mem)'
    BY <1>1, <1>2 DEF IInv, Contexts, SavedBoot
  <2> QED BY <1>3, <2>1, <2>2 DEF Contexts
<1>5. TypeOK'
  <2>1. cpu' \in [task : Slots, mode : Modes, stack : Stacks, depth : {0, 1}]
    <3>1. EntryStack \in Stacks
      BY DEF EntryStack, Stacks
    <3> QED BY <1>2, <3>1 DEF InUser, Cpu, Modes, Preemptible
  <2> QED BY <1>2, <2>1 DEF TypeOK
<1>6. SetUp' /\ Flags' /\ Clean' /\ CurUsed' /\ StrikesQuiet'
  BY <1>2 DEF IInv, SetUp, Flags, Clean, CurUsed, StrikesQuiet
<1> QED BY <1>4, <1>5, <1>6 DEF IInv

LEMMA StiKeeps == ASSUME IInv, Sti PROVE IInv'
<1> USE DEF Sti, taskVars, cpuVars
<1>1. BootRuns /\ stall = 0 /\ quiet = 0 /\ ~CpuStopped /\ cur = 0
  BY DEF IInv, Clean, BootRuns, CpuStopped, Cpu, Stop
<1>2. watch' \in Slots
  BY DEF Spawned, Slots
<1>3. TypeOK'
  BY <1>2 DEF IInv, TypeOK
<1>4. BootRuns'
  BY <1>1 DEF BootRuns
<1>5. Contexts'
  <2>1. \A i \in Slots \ {0, cur'} : used'[i] /\ alive'[i] => Saved(i, rsp, mem)'
    BY <1>1 DEF IInv, Contexts, Saved, SavedUser, SavedKernel, SavedSyscall
  <2> QED BY <1>1, <1>4, <2>1 DEF Contexts
<1>6. SetUp' /\ Flags' /\ CurUsed' /\ Clean'
  BY <1>1 DEF IInv, SetUp, Flags, CurUsed, Clean
<1>7. StrikesQuiet'
  BY <1>1 DEF StrikesQuiet
<1> QED BY <1>3, <1>5, <1>6, <1>7 DEF IInv

LEMMA StutterKeeps == ASSUME IInv, UNCHANGED vars PROVE IInv'
<1> USE DEF vars, taskVars, cpuVars, watchVars
<1>1. TypeOK'
  BY DEF IInv, TypeOK
<1>2. BootRuns' = BootRuns /\ CpuStopped' = CpuStopped
  BY DEF BootRuns, CpuStopped
<1>3. Contexts'
  BY DEF IInv, Contexts, BootRuns, KernelRuns, UserRuns, SyscallRuns, LeavingRuns, ExitedRuns,
         CpuStopped, Saved, SavedUser, SavedKernel, SavedSyscall, SavedBoot
<1>4. SetUp' /\ Flags' /\ CurUsed' /\ Clean' /\ StrikesQuiet'
  BY DEF IInv, SetUp, Flags, CurUsed, Clean, StrikesQuiet, BootRuns
<1> QED BY <1>1, <1>3, <1>4 DEF IInv
-----------------------------------------------------------------------------
LEMMA Inductive == IInv /\ [Next]_vars => IInv'
<1> SUFFICES ASSUME IInv, [Next]_vars PROVE IInv'
  OBVIOUS
<1>1. CASE \E i \in Slots \ {0} : Spawn(i)
  BY <1>1, SpawnKeeps
<1>2. CASE Sti
  BY <1>2, StiKeeps
<1>3. CASE PreemptTick
  BY <1>3, TickKeeps
<1>4. CASE PreemptReturn
  BY <1>4, StopKeeps DEF PreemptReturn
<1>5. CASE NoteSyscall
  BY <1>5, NoteKeeps
<1>6. CASE SyscallWait
  BY <1>6, WaitKeeps
<1>7. CASE SyscallLeave
  BY <1>7, LeaveKeeps
<1>8. CASE Sysret
  BY <1>8, SysretKeeps
<1>9. CASE ExitSyscall
  BY <1>9, ExitKeeps
<1>10. CASE Fault
  BY <1>10, StopKeeps DEF Fault, InProgram
<1>11. CASE WatchdogCheck
  BY <1>11, CheckKeeps
<1>12. CASE UNCHANGED vars
  BY <1>12, StutterKeeps
<1> QED BY <1>1, <1>2, <1>3, <1>4, <1>5, <1>6, <1>7, <1>8, <1>9, <1>10, <1>11, <1>12
        DEF Next, Tick

LEMMA Invariance == Spec => []IInv
BY Initial, Inductive, PTL DEF Spec

\* Every variable keeps its type; the strikes stay within the limit (sched.rs 789-800).
THEOREM SchedTypeCorrect == Spec => []TypeOK
<1>1. IInv => TypeOK
  BY DEF IInv
<1> QED BY <1>1, Invariance, PTL

\* The stack of one task never overlaps what another has saved, however their calls,
\* waits, exits and kills interleave with the timer (sched.rs 359-399, syscall.rs
\* 136-206).
THEOREM TasksKeepFrames == Spec => []OwnFrames
<1>1. IInv => OwnFrames
  <2> SUFFICES ASSUME IInv PROVE OwnFrames
    OBVIOUS
  <2> USE PlacesDiffer
  <2>1. cpu.mode # "lost"
    BY DEF IInv, Contexts, BootRuns, KernelRuns, UserRuns, InUser, SyscallRuns, LeavingRuns,
           ExitedRuns, CpuStopped, Stop, Cpu
  <2>2. ASSUME Running PROVE cpu.task = cur /\ ~CpuStopped
    <3>1. ~CpuStopped
      BY <2>2 DEF Running, CpuStopped, Stop, Stopped, Cpu
    <3> QED BY <3>1 DEF IInv, Contexts, BootRuns, KernelRuns, UserRuns, InUser, SyscallRuns,
                        LeavingRuns, ExitedRuns, Cpu
  <2>3. ASSUME Running, NEW i \in Slots \ {cur}, Runnable(i)
        PROVE  mem[rsp[i]].task = i /\ mem[rsp[i]].mode \in Preemptible
    <3>1. CASE i = 0
      BY <2>2, <2>3, <3>1 DEF IInv, Contexts, SavedBoot, Frame, Preemptible
    <3>2. CASE i # 0
      <4>1. Saved(i, rsp, mem)
        BY <2>2, <2>3, <3>2 DEF IInv, Contexts, Runnable
      <4>2. mem[rsp[i]] \in {Frame(i, "user"), Frame(i, "kernel"), Frame(i, "syscall")}
        BY <4>1 DEF Saved, SavedUser, SavedKernel, SavedSyscall
      <4> QED BY <4>2 DEF Frame, Preemptible
    <3> QED BY <3>1, <3>2
  <2> QED BY <2>1, <2>2, <2>3 DEF OwnFrames
<1> QED BY <1>1, Invariance, PTL

\* A ring-3 program and its system calls run in its own address space and with its
\* own ABI's table (sched.rs 376-396).
THEOREM ProgramsKeepEnvironment == Spec => []OwnEnvironment
<1>1. IInv => OwnEnvironment
  <2> SUFFICES ASSUME IInv, Running, cpu.mode \in {"user", "syscall", "leaving"}
               PROVE  cpuSpace = cr3[cpu.task] /\ cpuLinux = (program[cpu.task] = "linux")
    BY DEF OwnEnvironment
  <2>1. UserRuns \/ SyscallRuns \/ LeavingRuns
    <3>1. ~BootRuns /\ ~KernelRuns /\ ~ExitedRuns /\ ~CpuStopped
      BY DEF BootRuns, KernelRuns, ExitedRuns, CpuStopped, Stop, Stopped, Running, Cpu
    <3> QED BY <3>1 DEF IInv, Contexts
  <2>2. /\ cpu.task = cur /\ cur # 0 /\ program[cur] # "kernel"
    BY <2>1 DEF UserRuns, InUser, SyscallRuns, LeavingRuns, Cpu
  <2>3. cur \in Slots \ {0} /\ used[cur]
    BY <2>2 DEF IInv, TypeOK, CurUsed
  <2>4. cr3[cur] = cur /\ taskLinux[cur] = (program[cur] = "linux")
    BY <2>2, <2>3 DEF IInv, Flags
  <2>5. cpuSpace = cr3[cur] /\ cpuLinux = taskLinux[cur]
    BY <2>2, <2>3, <2>4, PlacesDiffer DEF IInv, SetUp
  <2> QED BY <2>2, <2>4, <2>5
<1> QED BY <1>1, Invariance, PTL

\* A dead task is never switched to again (sched.rs 150-159, 187-194, 255-263).
THEOREM DeadNeverRuns == Spec => DeadStaysOff
<1>1. IInv /\ [Next]_vars =>
        [phase = "run" => \A i \in Slots \ {0, cur} : ~alive[i] => cur' # i]_vars
  <2> SUFFICES ASSUME IInv, Next, phase = "run", NEW i \in Slots \ {0, cur}, ~alive[i]
               PROVE  cur' # i
    OBVIOUS
  <2>1. CASE PreemptTick
    <3>1. cur' = NextAlive(cur)
      BY <2>1 DEF PreemptTick
    <3>2. Runnable(NextAlive(cur))
      BY NextAliveRunnable DEF IInv, TypeOK
    <3> QED BY <3>1, <3>2 DEF Runnable
  <2>2. CASE ~PreemptTick
    <3>1. cur' = cur
      <4>1. ASSUME NEW j \in Slots \ {0}, Spawn(j) PROVE cur' = cur
        BY <4>1 DEF Spawn, SpawnPreempt, SpawnPreemptAs, SpawnRing3, SpawnRing3Elf,
                    SpawnLinuxElf, Prime
      <4>2. CASE PreemptReturn \/ Sti \/ NoteSyscall \/ SyscallWait \/ SyscallLeave \/ Sysret
        BY <4>2 DEF PreemptReturn, Sti, NoteSyscall, SyscallWait, SyscallLeave, Sysret, taskVars
      <4>3. CASE ExitSyscall \/ Fault \/ WatchdogCheck
        BY <4>3 DEF ExitSyscall, Fault, WatchdogCheck, taskVars
      <4> QED BY <2>2, <4>1, <4>2, <4>3 DEF Next, Tick
    <3> QED BY <3>1
  <2> QED BY <2>1, <2>2
<1> QED BY <1>1, Invariance, PTL DEF Spec, DeadStaysOff

\* The watchdog spares a task that reported during its last StallLimit checks
\* (sched.rs 789-800).
THEOREM WatchdogSparesLive == Spec => KillOnlyQuiet
<1>1. IInv /\ [Next]_vars =>
        [\A i \in Slots : used[i] /\ ~used'[i] => i = watch /\ quiet + 1 >= StallLimit]_vars
  <2> SUFFICES ASSUME IInv, Next, NEW i \in Slots, used[i], ~used'[i]
               PROVE  i = watch /\ quiet + 1 >= StallLimit
    OBVIOUS
  <2>t. used \in [Slots -> BOOLEAN] /\ watch \in Slots
    BY DEF IInv, TypeOK
  <2>1. CASE WatchdogCheck
    <3>1. Wedged(Strikes)
      BY <2>1 DEF WatchdogCheck
    <3>2. used' = [used EXCEPT ![watch] = FALSE]
      BY <2>1, <3>1 DEF WatchdogCheck, KillTask
    <3>3. i = watch
      BY <2>t, <3>2
    <3>4. quiet + 1 >= StallLimit
      BY <3>1 DEF IInv, TypeOK, StrikesQuiet, Wedged, Strikes
    <3> QED BY <3>3, <3>4
  <2>2. CASE \E j \in Slots \ {0} : Spawn(j)
    <3>1. PICK j \in Slots \ {0} : used' = [used EXCEPT ![j] = TRUE]
      BY <2>2 DEF Spawn, SpawnPreempt, SpawnPreemptAs, SpawnRing3, SpawnRing3Elf,
                  SpawnLinuxElf, Prime
    <3> QED BY <2>t, <3>1
  <2>3. CASE UNCHANGED used
    BY <2>3
  <2>4. UNCHANGED used \/ WatchdogCheck \/ \E j \in Slots \ {0} : Spawn(j)
    BY DEF Next, Tick, Sti, PreemptTick, PreemptReturn, NoteSyscall, SyscallWait,
           SyscallLeave, Sysret, ExitSyscall, Fault, taskVars
  <2> QED BY <2>1, <2>2, <2>3, <2>4
<1> QED BY <1>1, Invariance, PTL DEF Spec, KillOnlyQuiet
=============================================================================
