------------------------------- MODULE Sched -------------------------------
(***************************************************************************)
(* The preemptive scheduler (kernel/src/sched.rs) with the parts of the       *)
(* kernel that run under it: the SYSCALL trampoline and the blocking and      *)
(* exiting system calls (syscall.rs, linux.rs), the stack the CPU switches    *)
(* to on an interrupt (gdt.rs), ring-3 faults (idt.rs) and the boot thread's  *)
(* watchdog.  One CPU; a step is a stretch that no timer interrupt can split. *)
(*                                                                           *)
(* Every flow of the kernel (the boot flags in main.rs) spawns its tasks with *)
(* interrupts off, installs the preemptive timer and then enables interrupts  *)
(* for good: "setup" and "run" below.  No scheduled task has a GS base or the *)
(* Wine flag: spawn_wine_thread and mark_task_wine have no caller.            *)
(***************************************************************************)
EXTENDS Integers, FiniteSets

CONSTANTS
  MAX_TASKS,        \* task slots, the boot thread's slot 0 included (4)
  MaxSpawned,       \* tasks a flow spawns (at most 2 in the code)
  StallLimit        \* checks without progress before the watchdog kills (3 or 4)

ASSUME SchedAssumption ==
  /\ MAX_TASKS \in Nat /\ MAX_TASKS > 1
  /\ MaxSpawned \in 1 .. MAX_TASKS - 1
  /\ StallLimit \in Nat \ {0}

VARIABLES
  phase,            \* "setup" (interrupts off) or "run"
  \* TASKS, CUR_TASK and the flags kept beside them
  used, alive,      \* slot -> BOOLEAN
  rsp,              \* slot -> where the task's frame was saved, <<stack, depth>>
  cr3,              \* slot -> its address space
  taskLinux,        \* slot -> TASK_LINUX
  cur,              \* CUR_TASK
  preemptiveLinux,  \* PREEMPTIVE_LINUX
  \* the CPU
  cpu,              \* whose context executes, where in the kernel or in ring 3, on which stack
  cpuSpace,         \* the address space in CR3
  cpuLinux,         \* LINUX_ABI, the table the next system call is routed to
  rsp0,             \* TSS.rsp0, the stack of an interrupt out of ring 3
  sysStack,         \* _cur_syscall_stack, the stack of the SYSCALL trampoline
  mem,              \* <<stack, depth>> -> the frame that lies there
  \* the boot thread's watchdog
  watch,            \* the task it watches, 0 for none
  progress,         \* TASK_SYSCALLS of the watched task differs from prev_b
  stall,
  \* what the code does not keep
  program,          \* slot -> what the program in the slot is
  quiet             \* checks since the watched task last reported, capped

taskVars  == <<used, alive, rsp, cr3, taskLinux, cur, preemptiveLinux>>
cpuVars   == <<cpu, cpuSpace, cpuLinux, rsp0, sysStack, mem>>
watchVars == <<watch, progress, stall, quiet>>
vars == <<phase, taskVars, cpuVars, watchVars, program>>
-----------------------------------------------------------------------------
Slots    == 0 .. MAX_TASKS - 1
NoSpace  == MAX_TASKS                \* cr3 == 0: run in whatever CR3 holds

\* KSTACKS has one stack per slot; besides them the stack the boot thread runs on
\* and the one that rsp0 and _cur_syscall_stack name before the first switch.
BootStack  == MAX_TASKS
EntryStack == MAX_TASKS + 1
Stacks     == 0 .. MAX_TASKS + 1
KStackTop(i) == i

\* What a context is doing.  Interrupts are enabled in all of Preemptible:
\* the boot thread and kernel tasks, ring 3, a system call that waited with
\* "sti; hlt" (they stay enabled until its sysretq), and the loop of an exited task.
Preemptible == {"boot", "kernel", "user", "syscall", "exited"}
Stopped     == {"halted", "escaped", "lost"}
Modes       == Preemptible \cup {"leaving"} \cup Stopped

Frame(t, m) == [task |-> t, mode |-> m]
NoFrame     == Frame(0, "none")
At(stack, depth) == <<stack, depth>>
Cpu(t, m, s, d)  == [task |-> t, mode |-> m, stack |-> s, depth |-> d]
InUser(t)   == Cpu(t, "user", EntryStack, 0)
Stop(m)     == Cpu(0, m, EntryStack, 0)

\* The context in frame f, which lies at place p: iretq drops the frame.
Resume(f, p) ==
  CASE f.mode = "user" -> InUser(f.task)
    [] f.mode \in Preemptible \ {"user"} -> Cpu(f.task, f.mode, p[1], p[2] - 1)
    [] OTHER -> Stop("lost")

Programs == {"none", "boot", "kernel", "hung", "native", "linux"}
-----------------------------------------------------------------------------
Init ==
  /\ phase = "setup"
  /\ used  = [i \in Slots |-> i = 0]
  /\ alive = [i \in Slots |-> i = 0]
  /\ rsp   = [i \in Slots |-> At(i, 1)]
  /\ \E c \in {0, NoSpace} : cr3 = [i \in Slots |-> IF i = 0 THEN c ELSE NoSpace]
  /\ taskLinux = [i \in Slots |-> FALSE]
  /\ cur = 0
  /\ preemptiveLinux = FALSE
  /\ cpu = Cpu(0, "boot", BootStack, 0)
  /\ cpuSpace = 0
  /\ cpuLinux = FALSE
  /\ rsp0 = EntryStack
  /\ sysStack = EntryStack
  /\ mem = [p \in Stacks \X {1, 2} |-> NoFrame]
  /\ watch = 0 /\ progress = FALSE /\ stall = 0 /\ quiet = 0
  /\ program = [i \in Slots |-> IF i = 0 THEN "boot" ELSE "none"]

FreeSlot(i) == i # 0 /\ ~used[i] /\ \A j \in 1 .. i - 1 : used[j]
Spawned     == {i \in Slots \ {0} : used[i]}

\* What every spawn does with its slot: a primed frame on the slot's own stack.
Prime(i, prog, mode, space) ==
  /\ phase = "setup"
  /\ Cardinality(Spawned) < MaxSpawned
  /\ FreeSlot(i)
  /\ used'  = [used EXCEPT ![i] = TRUE]
  /\ alive' = [alive EXCEPT ![i] = TRUE]
  /\ cr3'   = [cr3 EXCEPT ![i] = space]
  /\ rsp'   = [rsp EXCEPT ![i] = At(KStackTop(i), 1)]
  /\ mem'   = [mem EXCEPT ![At(KStackTop(i), 1)] = Frame(i, mode)]
  /\ program' = [program EXCEPT ![i] = prog]
  /\ UNCHANGED <<phase, cur, cpu, cpuSpace, cpuLinux, rsp0, sysStack, watchVars>>

\* A flow schedules kernel tasks or ring-3 tasks, never both.
KernelFlow == \A j \in Spawned : program[j] = "kernel"
Ring3Flow  == cr3[0] = 0 /\ \A j \in Spawned : program[j] # "kernel"

SpawnPreempt(i) ==
  /\ KernelFlow /\ cr3[0] = NoSpace
  /\ Prime(i, "kernel", "kernel", NoSpace)
  /\ UNCHANGED <<taskLinux, preemptiveLinux>>

\* Out of frames, the task keeps cr3 == 0.
SpawnPreemptAs(i) ==
  /\ KernelFlow /\ cr3[0] = 0
  /\ \E space \in {i, NoSpace} : Prime(i, "kernel", "kernel", space)
  /\ UNCHANGED <<taskLinux, preemptiveLinux>>

\* spawn_ring3 and spawn_ring3_low leave TASK_LINUX as they find it.
SpawnRing3(i) ==
  /\ Ring3Flow
  /\ \E prog \in {"hung", "native"} : Prime(i, prog, "user", i)
  /\ UNCHANGED <<taskLinux, preemptiveLinux>>

\* A native ELF, or (linuxroute) a Linux one that the caller then marks.
SpawnRing3Elf(i) ==
  /\ Ring3Flow
  /\ \E prog \in {"native", "linux"} :
       /\ Prime(i, prog, "user", i)
       /\ taskLinux' = [taskLinux EXCEPT ![i] = prog = "linux"]
  /\ UNCHANGED preemptiveLinux

SpawnLinuxElf(i) ==
  /\ Ring3Flow
  /\ Prime(i, "linux", "user", i)
  /\ taskLinux' = [taskLinux EXCEPT ![i] = TRUE]
  /\ preemptiveLinux' = TRUE

\* set_timer_vector, sti; the boot thread goes on as a watchdog or idles.
Sti ==
  /\ phase = "setup"
  /\ Spawned # {}
  /\ phase' = "run"
  /\ \E b \in {0} \cup {i \in Spawned : program[i] \in {"hung", "native"}} : watch' = b
  /\ UNCHANGED <<taskVars, cpuVars, progress, stall, quiet, program>>
-----------------------------------------------------------------------------
RunnableUsed(i) == i = 0 \/ used[i]                    \* mutant: forgets alive

Runnable(i) == i = 0 \/ (used[i] /\ alive[i])

LowestAlive(from) ==                                    \* mutant: scans from slot 1
  LET others == {i \in Slots \ {0, from} : Runnable(i)}
  IN  IF others = {} THEN 0 ELSE CHOOSE i \in others : \A j \in others : i <= j

BootLast(from) ==                                       \* mutant: boot thread only as a fallback
  LET others == {i \in Slots \ {0} : Runnable(i)}
      after  == {i \in others : i > from}
      pool   == IF after = {} THEN others ELSE after
  IN  IF pool = {} THEN 0 ELSE CHOOSE i \in pool : \A j \in pool : i <= j

\* The first runnable slot after `from`, round the table and back to `from`.
NextAlive(from) ==
  LET slot(off)  == (from + off) % MAX_TASKS
      First(off) == /\ Runnable(slot(off))
                    /\ \A o \in 1 .. off - 1 : ~Runnable(slot(o))
  IN  IF \E off \in 1 .. MAX_TASKS : First(off)
      THEN slot(CHOOSE off \in 1 .. MAX_TASKS : First(off))
      ELSE 0

SyscallStackKept(nxt) == sysStack' = sysStack           \* mutant: one stack for all
RouteKept(nxt) == cpuLinux' = cpuLinux                  \* mutant: set_linux not called

SwitchSpace(nxt)          == cpuSpace' = IF cr3[nxt] = NoSpace THEN cpuSpace ELSE cr3[nxt]
RetargetRsp0(nxt)         == rsp0' = KStackTop(nxt)
RetargetSyscallStack(nxt) == sysStack' = KStackTop(nxt)
RouteSyscalls(nxt)        == cpuLinux' = taskLinux[nxt]

\* Where the CPU and the stub put the interrupted context.
FramePlace == IF cpu.mode = "user" THEN At(rsp0, 1) ELSE At(cpu.stack, cpu.depth + 1)

\* The timer interrupt: irq_timer_preempt and preempt_tick, with interrupts off.
PreemptTick ==
  /\ phase = "run"
  /\ cpu.mode \in Preemptible
  /\ LET nxt   == NextAlive(cur)
         saved == [mem EXCEPT ![FramePlace] = Frame(cpu.task, cpu.mode)]
         from  == [rsp EXCEPT ![cur] = FramePlace]
     IN  /\ rsp' = from
         /\ cur' = nxt
         /\ SwitchSpace(nxt)
         /\ RetargetRsp0(nxt)
         /\ RetargetSyscallStack(nxt)
         /\ RouteSyscalls(nxt)
         /\ cpu' = Resume(saved[from[nxt]], from[nxt])
         /\ mem' = [saved EXCEPT ![from[nxt]] = NoFrame]
  /\ UNCHANGED <<phase, used, alive, cr3, taskLinux, preemptiveLinux, watchVars, program>>

\* The same interrupt between the trampoline's "pop rsp" and its sysretq: the CPU
\* is in ring 0 and pushes the frame on the USER stack, preempt_tick runs there and
\* loads the next task's CR3, and what it returns to is no longer mapped.  (Each task
\* of a flow with ring-3 tasks has an address space, and the next one is another task.)
PreemptReturn ==
  /\ phase = "run"
  /\ cpu.mode = "leaving"
  /\ cpu' = Stop("escaped")
  /\ UNCHANGED <<phase, taskVars, cpuSpace, cpuLinux, rsp0, sysStack, mem, watchVars, program>>

Tick == PreemptTick \/ PreemptReturn
-----------------------------------------------------------------------------
\* A ring-3 program that can make system calls or fault.
InProgram ==
  /\ phase = "run"
  /\ cpu.mode = "user"
  /\ program[cpu.task] \in {"native", "linux"}

\* System call 0x1337: note_syscall counts for CUR_TASK.  Interrupts stay off until
\* sysretq.  In the Linux table the number is ENOSYS.  Calls that neither block nor
\* count change nothing here.
NoteSyscall ==
  /\ InProgram
  /\ ~cpuLinux
  /\ cur = watch
  /\ progress' = TRUE
  /\ quiet' = 0
  /\ UNCHANGED <<phase, taskVars, cpuVars, watch, stall, program>>

\* sys_read, sys_input_wait and sys_yield (no Linux call waits): the trampoline saves
\* the caller on _cur_syscall_stack, the handler enables interrupts and halts.
SyscallWait ==
  /\ InProgram
  /\ ~cpuLinux
  /\ mem' = [mem EXCEPT ![At(sysStack, 1)] = Frame(cpu.task, "trap")]
  /\ cpu' = Cpu(cpu.task, "syscall", sysStack, 1)
  /\ UNCHANGED <<phase, taskVars, cpuSpace, cpuLinux, rsp0, sysStack, watchVars, program>>

\* An interrupt has ended the wait; the handler returns and the trampoline pops the
\* caller's registers and its stack pointer, interrupts still enabled.
SyscallLeave ==
  /\ cpu.mode = "syscall"
  /\ LET p == At(cpu.stack, cpu.depth)
         f == mem[p]
     IN  /\ cpu' = IF f.mode = "trap" THEN Cpu(f.task, "leaving", EntryStack, 0)
                                      ELSE Stop("lost")
         /\ mem' = [mem EXCEPT ![p] = NoFrame]
  /\ UNCHANGED <<phase, taskVars, cpuSpace, cpuLinux, rsp0, sysStack, watchVars, program>>

Sysret ==
  /\ cpu.mode = "leaving"
  /\ cpu' = InUser(cpu.task)
  /\ UNCHANGED <<phase, taskVars, cpuSpace, cpuLinux, rsp0, sysStack, mem, watchVars, program>>

\* Number 60 exits in both tables.  A Linux task of a preemptive flow is marked dead
\* and waits, interrupts on, to be preempted away; every other exit halts for good.
ExitSyscall ==
  /\ InProgram
  /\ IF cpuLinux /\ preemptiveLinux
     THEN /\ alive' = [alive EXCEPT ![cur] = FALSE]
          /\ mem' = [mem EXCEPT ![At(sysStack, 1)] = Frame(cpu.task, "trap")]
          /\ cpu' = Cpu(cpu.task, "exited", sysStack, 1)
     ELSE /\ cpu' = Stop("halted")
          /\ UNCHANGED <<alive, mem>>
  /\ UNCHANGED <<phase, used, rsp, cr3, taskLinux, cur, preemptiveLinux,
                 cpuSpace, cpuLinux, rsp0, sysStack, watchVars, program>>

\* A #GP or #PF of a scheduled program loops with interrupts off.
Fault ==
  /\ InProgram
  /\ cpu' = Stop("halted")
  /\ UNCHANGED <<phase, taskVars, cpuSpace, cpuLinux, rsp0, sysStack, mem, watchVars, program>>

StrikesKept == stall + 1                                \* mutant: no reset on progress
WedgedLate(strikes) == strikes > StallLimit             \* mutant: one check late

\* The new strike count, reset by any progress since the last check.
Strikes == IF progress THEN 0 ELSE stall + 1
Wedged(strikes) == strikes >= StallLimit

KillTask(i) ==
  /\ alive' = [alive EXCEPT ![i] = FALSE]
  /\ used'  = [used EXCEPT ![i] = FALSE]

\* One turn of the boot thread's watchdog loop.
WatchdogCheck ==
  /\ phase = "run"
  /\ cpu.mode = "boot"
  /\ watch # 0 /\ alive[watch]
  /\ stall' = Strikes
  /\ progress' = FALSE
  /\ quiet' = IF quiet > StallLimit THEN quiet ELSE quiet + 1
  /\ IF Wedged(Strikes) THEN KillTask(watch) ELSE UNCHANGED <<alive, used>>
  /\ UNCHANGED <<phase, rsp, cr3, taskLinux, cur, preemptiveLinux, cpuVars, watch, program>>
-----------------------------------------------------------------------------
Spawn(i) == \/ SpawnPreempt(i)
            \/ SpawnPreemptAs(i)
            \/ SpawnRing3(i)
            \/ SpawnRing3Elf(i)
            \/ SpawnLinuxElf(i)

Next == \/ \E i \in Slots \ {0} : Spawn(i)
        \/ Sti
        \/ Tick
        \/ NoteSyscall
        \/ SyscallWait
        \/ SyscallLeave
        \/ Sysret
        \/ ExitSyscall
        \/ Fault
        \/ WatchdogCheck

\* The timer never stops ticking and an unmasked interrupt is taken; a thread that
\* gets the CPU over and over gets through its loop (busy_spin is finite).
Fairness == /\ WF_vars(Tick)
            /\ SF_vars(WatchdogCheck)

Spec     == Init /\ [][Next]_vars
FairSpec == Spec /\ Fairness
-----------------------------------------------------------------------------
Places == Stacks \X {1, 2}

\* Every variable holds a value of its kind; the strike count never passes the limit
\* at which the watchdog (sched.rs:793-800) kills.
TypeOK ==
  /\ phase \in {"setup", "run"}
  /\ used \in [Slots -> BOOLEAN] /\ alive \in [Slots -> BOOLEAN]
  /\ rsp \in [Slots -> Places]
  /\ cr3 \in [Slots -> Slots \cup {NoSpace}]
  /\ taskLinux \in [Slots -> BOOLEAN]
  /\ cur \in Slots
  /\ preemptiveLinux \in BOOLEAN
  /\ cpu \in [task : Slots, mode : Modes, stack : Stacks, depth : {0, 1}]
  /\ cpuSpace \in Slots
  /\ cpuLinux \in BOOLEAN
  /\ rsp0 \in Stacks /\ sysStack \in Stacks
  /\ mem \in [Places -> [task : Slots, mode : Preemptible \cup {"trap", "none"}]]
  /\ watch \in Slots /\ progress \in BOOLEAN
  /\ stall \in 0 .. StallLimit /\ quiet \in 0 .. StallLimit + 1
  /\ program \in [Slots -> Programs]

Running == phase = "run" /\ cpu.mode \notin Stopped

\* Calls in progress on several tasks never clobber each other's frames (sched.rs
\* 389-393, syscall.rs 138-142, gdt.rs 63-66): the CPU never resumes anything but a
\* saved context, the context it executes is CUR_TASK's, and the place where any other
\* task that will run again was saved still holds that task's own context.
OwnFrames ==
  /\ cpu.mode # "lost"
  /\ Running =>
       /\ cpu.task = cur
       /\ \A i \in Slots \ {cur} : Runnable(i) =>
            /\ mem[rsp[i]].task = i
            /\ mem[rsp[i]].mode \in Preemptible

\* A program in ring 3, and a system call it made, run in the program's own address
\* space, and the system calls it makes go to the table of the ABI it was built for
\* (sched.rs 125-131, 376, 395), whatever switches happened since it was spawned.
OwnEnvironment ==
  Running /\ cpu.mode \in {"user", "syscall", "leaving"} =>
    /\ cpuSpace = cr3[cpu.task]
    /\ cpuLinux = (program[cpu.task] = "linux")

\* A task that exited or was killed is never given the CPU again (sched.rs 150-152,
\* 185-186), although an exited one keeps its slot marked used.
DeadStaysOff ==
  [][phase = "run" => \A i \in Slots \ {0, cur} : ~alive[i] => cur' # i]_vars

\* The watchdog only kills a task that has not reported during its last StallLimit
\* checks (sched.rs 166-169, 791-800).
KillOnlyQuiet ==
  [][\A i \in Slots : used[i] /\ ~used'[i] => i = watch /\ quiet + 1 >= StallLimit]_vars

\* Every task that stays alive gets the CPU over and over, hung tasks or not
\* (sched.rs 728-735), unless some task stops the whole CPU.
NoStarvation ==
  \A i \in Slots :
    (phase = "run" /\ Runnable(i)) ~> (cur = i \/ ~Runnable(i) \/ cpu.mode \in Stopped)

\* A watched task that hangs is force-quit (sched.rs 762-767), unless the CPU stops.
HungIsKilled ==
  (phase = "run" /\ watch # 0 /\ program[watch] = "hung")
    ~> (~alive[watch] \/ cpu.mode \in Stopped)

\* A system call survives being preempted (syscall.rs 138-142).
SyscallSurvives == cpu.mode # "escaped"
=============================================================================
