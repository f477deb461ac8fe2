------------------------------ MODULE LinuxFiles ------------------------------
(* The descriptors of a Linux program (kernel/src/linux.rs): the open-file    *)
(* table over the initrd, the framebuffer device, threads in name only, and   *)
(* the way in from the desktop and back (syscall 28, exit_group, a fault).    *)
EXTENDS Integers, FiniteSets, FiniteSetsExt, Functions

CONSTANTS Files,     \* paths in the initrd
          SizeOf,    \* their lengths
          Absent,    \* a path that is not there
          MAX_OPEN,
          FbSize,    \* bytes of the framebuffer
          Lens,      \* lengths that calls ask for
          Seeks,     \* offsets that lseek is given, negative ones too
          MaxCalls   \* bound: system calls in a run

VARIABLES FDS,       \* the slots: used, file, off
          fbOff,     \* LFB_WR_OFF
          nextTid,
          rawKbd, abi,
          RESTART_DESKTOP,
          mode,      \* who runs: "desktop", "linux" or nobody ("halted")
          held,      \* what POSIX promises: descriptor -> file, position, names
          broken,    \* closed in a copy, sought before the start or on from past the end
          tids,      \* thread ids handed out, main thread included
          ret,       \* result of the last call
          calls

vars == <<FDS, fbOff, nextTid, rawKbd, abi, RESTART_DESKTOP, mode, held, broken, tids, ret, calls>>

FD_BASE == 3
DEV_FB_FD == 200
EBADF == -9
ENOENT == -2
EMFILE == -24
WORD == 64           \* where the numbers of calls wrap: 2^64 in the code, here any bound above the sizes
Slots == 0..(MAX_OPEN - 1)
Free == [used |-> FALSE, file |-> Absent, off |-> 0]
Least(a, b) == IF a < b THEN a ELSE b
Most(a, b) == IF a > b THEN a ELSE b

\* fd_slot
Open(fd) == fd - FD_BASE \in Slots /\ FDS[fd - FD_BASE].used
Slot(fd) == FDS[fd - FD_BASE]

Init == /\ FDS = [i \in Slots |-> Free] /\ fbOff = 0 /\ nextTid = 2
        /\ rawKbd = FALSE /\ abi = FALSE /\ RESTART_DESKTOP = FALSE
        /\ mode = "desktop" /\ held = <<>> /\ broken = {} /\ tids = {} /\ ret = 0 /\ calls = 0

world == <<nextTid, rawKbd, abi, RESTART_DESKTOP, mode, tids>>
Call == mode = "linux" /\ calls < MaxCalls /\ calls' = calls + 1

\* sys_exec_linux and enter; or the boot mode that only runs one program.
Exec(boot) == /\ mode = "desktop" /\ calls < MaxCalls /\ (boot => calls = 0)
              /\ calls' = calls + 1 /\ mode' = "linux" /\ abi' = TRUE
              /\ RESTART_DESKTOP' = ~boot
              /\ held' = <<>> /\ broken' = {} /\ tids' = {1}
              /\ UNCHANGED <<FDS, fbOff, nextTid, rawKbd, ret>>

\* open_path: the first free slot; a device has a number of its own.
openat(path) ==
    /\ Call
    /\ LET free == {i \in Slots : ~FDS[i].used}
           i == Min(free) IN
       CASE path = Absent -> ret' = ENOENT /\ UNCHANGED <<FDS, held, broken>>
         [] path # Absent /\ free = {} -> ret' = EMFILE /\ UNCHANGED <<FDS, held, broken>>
         [] path # Absent /\ free # {} ->
              /\ FDS' = [FDS EXCEPT ![i] = [used |-> TRUE, file |-> path, off |-> 0]]
              /\ ret' = FD_BASE + i
              /\ held' = [fd \in DOMAIN held \cup {FD_BASE + i} |->
                            IF fd = FD_BASE + i THEN [file |-> path, pos |-> 0, names |-> 1]
                                                ELSE held[fd]]
              /\ broken' = broken \ {FD_BASE + i}
    /\ UNCHANGED <<fbOff, world>>

\* access and newfstatat by path.
access(path) == /\ Call /\ ret' = (IF path = Absent THEN ENOENT ELSE 0)
                /\ UNCHANGED <<FDS, fbOff, held, broken, world>>

Fds == DOMAIN held
read(fd, n) ==
    /\ Call
    /\ LET got == Least(n, SizeOf[Slot(fd).file] - Slot(fd).off) IN
       IF Open(fd) THEN ret' = got /\ FDS' = [FDS EXCEPT ![fd - FD_BASE].off = @ + got]
                   ELSE ret' = 0 /\ UNCHANGED FDS
    /\ held' = [held EXCEPT ![fd].pos = @ + Most(0, Least(n, SizeOf[held[fd].file] - @))]
    /\ UNCHANGED <<fbOff, broken, world>>

pread(fd, n, pos) ==
    /\ Call
    /\ ret' = IF Open(fd) THEN Most(0, Least(n, SizeOf[Slot(fd).file] - pos)) ELSE EBADF
    /\ UNCHANGED <<FDS, fbOff, held, broken, world>>

\* lseek: a negative result wraps to a huge one, and the end is the limit.  POSIX
\* refuses the one and lets the place be past the end, from where a seek goes on;
\* the code has forgotten that place.
lseek(fd, off, whence) ==
    /\ Call
    /\ LET base(size, cur) == CASE whence = "set" -> 0 [] whence = "cur" -> cur [] whence = "end" -> size
           size == SizeOf[Slot(fd).file]
           to == base(size, Slot(fd).off) + off
           posix == base(SizeOf[held[fd].file], held[fd].pos) + off IN
       /\ IF Open(fd)
          THEN LET clamped == IF to < 0 THEN size ELSE Least(to, size) IN
               FDS' = [FDS EXCEPT ![fd - FD_BASE].off = clamped] /\ ret' = clamped
          ELSE ret' = EBADF /\ UNCHANGED FDS
       /\ broken' = IF posix < 0 \/ (whence = "cur" /\ held[fd].pos > SizeOf[held[fd].file])
                    THEN broken \cup {fd} ELSE broken
       /\ held' = [held EXCEPT ![fd].pos = IF posix < 0 THEN @ ELSE posix]
    /\ UNCHANGED <<fbOff, world>>

\* dup gives the same number back, so close of the copy closes the original.
dup(fd) == /\ Call /\ ret' = fd
           /\ held' = [held EXCEPT ![fd].names = @ + 1]
           /\ UNCHANGED <<FDS, fbOff, broken, world>>

close(fd) ==
    /\ Call /\ ret' = 0
    /\ FDS' = IF Open(fd) THEN [FDS EXCEPT ![fd - FD_BASE].used = FALSE] ELSE FDS
    /\ IF held[fd].names = 1
       THEN held' = Restrict(held, DOMAIN held \ {fd}) /\ broken' = broken \ {fd}
       ELSE held' = [held EXCEPT ![fd].names = @ - 1] /\ broken' = broken \cup {fd}
    /\ UNCHANGED <<fbOff, world>>

\* write and lseek on the framebuffer device.
fb_write(n) ==
    /\ Call /\ ret' = n
    /\ fbOff' = Least(fbOff, FbSize) + Least(n, FbSize - Least(fbOff, FbSize))
    /\ UNCHANGED <<FDS, held, broken, world>>
fb_seek(to, whence) ==
    /\ Call /\ fbOff' = (IF whence = "cur" THEN fbOff + to ELSE to) % WORD /\ ret' = fbOff'
    /\ UNCHANGED <<FDS, held, broken, world>>

\* ioctl KDSKBMODE, and clone, which only names a thread.
KDSKBMODE(raw) == /\ Call /\ rawKbd' = raw /\ ret' = 0
                  /\ UNCHANGED <<FDS, fbOff, nextTid, abi, RESTART_DESKTOP, mode, held, broken, tids>>
clone == /\ Call /\ ret' = nextTid /\ nextTid' = nextTid + 1 /\ tids' = tids \cup {nextTid}
         /\ UNCHANGED <<FDS, fbOff, rawKbd, abi, RESTART_DESKTOP, mode, held, broken>>

\* exit_group, or a fault in ring 3: reset and the desktop again, or the end.
reset == /\ abi' = FALSE /\ rawKbd' = FALSE /\ fbOff' = 0 /\ RESTART_DESKTOP' = FALSE
         /\ FDS' = [i \in Slots |-> [FDS[i] EXCEPT !.used = FALSE]]
exit == /\ mode = "linux"
        /\ IF RESTART_DESKTOP THEN reset /\ mode' = "desktop"
           ELSE mode' = "halted" /\ UNCHANGED <<FDS, fbOff, rawKbd, abi, RESTART_DESKTOP>>
        /\ held' = <<>> /\ broken' = {} /\ tids' = {}
        /\ UNCHANGED <<nextTid, ret, calls>>

Next == \/ \E boot \in BOOLEAN : Exec(boot)
        \/ \E p \in Files \cup {Absent} : openat(p) \/ access(p)
        \/ \E fd \in Fds : \/ dup(fd) \/ close(fd)
                           \/ \E n \in Lens : read(fd, n)
                           \/ \E n \in Lens, pos \in Lens : pread(fd, n, pos)
                           \/ \E o \in Seeks, w \in {"set", "cur", "end"} : lseek(fd, o, w)
        \/ \E n \in Lens : fb_write(n)
        \/ \E o \in Seeks, w \in {"set", "cur", "end"} : fb_seek(o, w)
        \/ \E b \in BOOLEAN : KDSKBMODE(b)
        \/ clone \/ exit
Spec == Init /\ [][Next]_vars

------------------------------------------------------------------------------
TypeOK == /\ FDS \in [Slots -> [used : BOOLEAN, file : Files \cup {Absent}, off : Nat]]
          /\ fbOff \in Nat /\ nextTid \in Nat /\ {rawKbd, abi, RESTART_DESKTOP} \subseteq BOOLEAN
          /\ mode \in {"desktop", "linux", "halted"} /\ nextTid \notin tids

\* A read gives the bytes that POSIX says: the descriptor has the file that was
\* opened, and is at the byte after the last one read or sought, or at the end if
\* that is past the end (lseek's own answer is the end then, and not what POSIX
\* says), unless the program has closed a copy of the descriptor, has sought
\* before the start, or on from past the end; and nothing else is open, whatever
\* ran before.
DescriptorsKept ==
    mode # "halted" =>
      /\ \A fd \in Fds \ broken : /\ Open(fd) /\ Slot(fd).file = held[fd].file
                                  /\ Slot(fd).off = Least(held[fd].pos, SizeOf[held[fd].file])
      /\ \A i \in Slots : FDS[i].used => FD_BASE + i \in Fds

------------------------------------------------------------------------------
(* What is proved of it, in KernelParts.                                      *)
LinuxConstants == /\ SizeOf \in [Files -> Nat] /\ Absent \notin Files /\ MAX_OPEN \in Nat
                  /\ FbSize \in Nat /\ Lens \subseteq Nat /\ Seeks \subseteq Int

\* A slot is within its file, a descriptor has a slot of its own and a name, the
\* desktop has left none behind, and a thread's id is not given again.
SlotsWithin == \A i \in Slots : FDS[i].used => FDS[i].file \in Files /\ FDS[i].off <= SizeOf[FDS[i].file]
HeldWithin == /\ held \in [Fds -> [file : Files, pos : Nat, names : Nat \ {0}]]
              /\ \A fd \in Fds : fd \in Int /\ fd - FD_BASE \in Slots
LinuxInv == /\ TypeOK /\ DescriptorsKept /\ SlotsWithin /\ HeldWithin
            /\ mode = "desktop" => Fds = {}
            /\ nextTid >= 2 /\ \A t \in tids : t \in Nat /\ t < nextTid

==============================================================================
