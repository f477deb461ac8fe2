-------------------------------- MODULE Ahci ---------------------------------
(* The driver of the SATA disk (ahci.rs), on which Rpfs rests: one command    *)
(* slot, one bounce buffer, polling that gives up after a while.  A sector is *)
(* a value; the device works through a command sector by sector and may fail  *)
(* at any of them.                                                            *)
EXTENDS Integers, Sequences

CONSTANTS Sectors,   \* sectors of the disk: 0..Sectors - 1
          DATA_MAX,  \* sectors that the bounce buffer holds
          Values, Blank, Sig,  \* contents; those of a new disk, of the self-test
          SCRATCH_LBA

VARIABLES READY,
          disk,
          data,    \* the bounce buffer at DATA_PHYS
          ct,      \* command header and table of slot 0
          PXCI,    \* bit 0: the slot is issued
          tfes,    \* PXIS: task file error
          tfd,     \* PXTFD: BSY and ERR
          dev,     \* the command in the device, the sectors it has transferred
          halted,  \* the port has stopped on an error
          call,    \* the call in progress: its step and its arguments
          answer,  \* what the last call has returned, or {}
          test,    \* selftest
          before,  \* the disk when the call began
          late     \* the command of an earlier call was still running then

devVars == <<disk, dev, halted>>
regVars == <<PXCI, tfes, tfd>>
vars == <<READY, devVars, regVars, data, ct, call, answer, test, before, late>>

LBAs == 0..(Sectors - 1)
Command(w, lba, count) == [write |-> w, lba |-> lba, count |-> count]
Nothing == Command(FALSE, 0, 0)
None == [step |-> "none", cmd |-> Nothing, bytes |-> <<>>]

\* init: a device is found, its port stopped, pointed at empty lists, started;
\* or there is none.
Init ==
    /\ READY \in BOOLEAN
    /\ disk = [l \in LBAs |-> Blank]
    /\ data = [k \in 1..DATA_MAX |-> Blank]
    /\ ct = Nothing /\ PXCI = FALSE /\ tfes = FALSE
    /\ tfd = [busy |-> FALSE, err |-> FALSE]
    /\ dev = [cmd |-> Nothing, done |-> 0]
    /\ halted = FALSE /\ call = None /\ answer = {} /\ late = FALSE
    /\ test = "write" /\ before = disk

Return(ok, bytes) ==
    /\ answer' = {[cmd |-> call.cmd, ok |-> ok, bytes |-> bytes]}
    /\ call' = None

\* read_sectors, write_sectors: what is asked for must fit the bounce buffer and
\* the caller's; what is written goes to the bounce buffer at once.
Accepted(count, len) == READY /\ count # 0 /\ count <= DATA_MAX /\ count <= len

Start(cmd, bytes) ==
    /\ call.step = "none" /\ Accepted(cmd.count, Len(bytes))
    /\ call' = [step |-> "idle", cmd |-> cmd, bytes |-> bytes]
    /\ data' = IF cmd.write
               THEN [k \in DOMAIN data |-> IF k <= cmd.count THEN bytes[k] ELSE data[k]]
               ELSE data
    /\ answer' = {} /\ before' = disk /\ late' = (PXCI /\ ~halted)
    /\ UNCHANGED <<READY, devVars, regVars, ct>>

\* The file system calls once the self-test is over (AhciDev), with any content
\* and sometimes past the end of the disk.
Buffers == UNION {[1..n -> Values] : n \in 1..DATA_MAX}
ReadSectors ==
    /\ test \in {"passed", "failed"} /\ test' = test
    /\ \E lba \in LBAs, count \in 1..DATA_MAX :
          Start(Command(FALSE, lba, count), [k \in 1..DATA_MAX |-> Blank])
WriteSectors ==
    /\ test \in {"passed", "failed"} /\ test' = test
    /\ \E lba \in LBAs, b \in Buffers : Start(Command(TRUE, lba, Len(b)), b)

\* Without a disk, with no sector or with too many, the answer is no.
Refuse ==
    /\ test \in {"passed", "failed"} /\ call.step = "none"
    /\ \E count \in 0..(DATA_MAX + 1), len \in 0..DATA_MAX : ~Accepted(count, len)
    /\ answer' = {[cmd |-> Nothing, ok |-> FALSE, bytes |-> <<>>]} /\ before' = disk
    /\ late' = (PXCI /\ ~halted)
    /\ UNCHANGED <<READY, devVars, regVars, data, ct, call, test>>

\* selftest: a signature is written and read back.
Selftest ==
    \/ /\ test = "write" /\ call.step = "none" /\ test' = "read"
       /\ \/ Start(Command(TRUE, SCRATCH_LBA, 1), <<Sig>>)
          \/ ~READY /\ UNCHANGED <<READY, devVars, regVars, data, ct, call, answer, before, late>>
    \/ /\ test = "read" /\ \E a \in answer : a.ok
       /\ test' = "compare"
       /\ Start(Command(FALSE, SCRATCH_LBA, 1), <<Blank>>)
    \/ /\ test \in {"read", "compare"} /\ call.step = "none"
       /\ test' = IF test = "compare" /\ \E a \in answer : a.ok /\ a.bytes = <<Sig>>
                  THEN "passed" ELSE "failed"
       /\ test = "read" => ~\E a \in answer : a.ok
       /\ UNCHANGED <<READY, devVars, regVars, data, ct, call, answer, before, late>>

\* issue: a while is waited for the port, then header and table are written ...
Build ==
    /\ call.step = "idle"
    /\ tfes' = FALSE
    /\ ct' = call.cmd
    /\ call' = [call EXCEPT !.step = "built"]
    /\ UNCHANGED <<READY, devVars, PXCI, tfd, data, answer, test, before, late>>

\* ... and the slot is issued; a slot that is issued already stays so.
Issue ==
    /\ call.step = "built"
    /\ PXCI' = TRUE
    /\ call' = [call EXCEPT !.step = "poll"]
    /\ UNCHANGED <<READY, devVars, tfes, tfd, data, ct, answer, test, before, late>>

\* Seeded fault: the task file is not looked at.
PollDoneUnchecked ==
    /\ call.step = "poll" /\ ~PXCI
    /\ Return(TRUE, IF ~call.cmd.write
                    THEN [k \in DOMAIN call.bytes |-> IF k <= call.cmd.count THEN data[k] ELSE call.bytes[k]]
                    ELSE call.bytes)
    /\ UNCHANGED <<READY, devVars, regVars, data, ct, test, before, late>>

PollDone ==
    /\ call.step = "poll" /\ ~PXCI
    /\ LET ok == ~tfd.err
       IN Return(ok, IF ok /\ ~call.cmd.write
                     THEN [k \in DOMAIN call.bytes |-> IF k <= call.cmd.count THEN data[k] ELSE call.bytes[k]]
                     ELSE call.bytes)
    /\ UNCHANGED <<READY, devVars, regVars, data, ct, test, before, late>>

PollError ==
    /\ call.step = "poll" /\ PXCI /\ tfes
    /\ Return(FALSE, call.bytes)
    /\ UNCHANGED <<READY, devVars, regVars, data, ct, test, before, late>>

\* The loop ends after twenty million polls; the command is left where it is.
PollTimeout ==
    /\ call.step = "poll" /\ PXCI /\ ~tfes
    /\ Return(FALSE, call.bytes)
    /\ UNCHANGED <<READY, devVars, regVars, data, ct, test, before, late>>

\* The device: it takes the command that is issued, transfers, and completes or
\* fails; after a failure it may clear the slot, or halt with the slot set.
hostVars == <<READY, ct, call, answer, test, before, late>>

Fetch ==
    /\ PXCI /\ ~tfd.busy /\ ~halted
    /\ dev' = [cmd |-> ct, done |-> 0]
    /\ tfd' = [busy |-> TRUE, err |-> FALSE]
    /\ UNCHANGED <<hostVars, disk, data, halted, PXCI, tfes>>

Transfer ==
    LET l == dev.cmd.lba + dev.done
    IN /\ tfd.busy /\ dev.done < dev.cmd.count /\ l \in LBAs
       /\ dev' = [dev EXCEPT !.done = @ + 1]
       /\ IF dev.cmd.write
          THEN disk' = [disk EXCEPT ![l] = data[dev.done + 1]] /\ data' = data
          ELSE data' = [data EXCEPT ![dev.done + 1] = disk[l]] /\ disk' = disk
       /\ UNCHANGED <<hostVars, regVars, halted>>

Complete ==
    /\ tfd.busy /\ dev.done = dev.cmd.count
    /\ PXCI' = FALSE
    /\ tfd' = [busy |-> FALSE, err |-> FALSE]
    /\ dev' = [cmd |-> Nothing, done |-> 0]
    /\ UNCHANGED <<hostVars, disk, data, halted, tfes>>

Fail ==
    /\ tfd.busy
    /\ tfd' = [busy |-> FALSE, err |-> TRUE] /\ tfes' = TRUE
    /\ PXCI' \in BOOLEAN /\ halted' = PXCI'
    /\ dev' = [cmd |-> Nothing, done |-> 0]
    /\ UNCHANGED <<hostVars, disk, data>>

Next == \/ ReadSectors \/ WriteSectors \/ Refuse \/ Selftest
        \/ Build \/ Issue \/ PollDone \/ PollError \/ PollTimeout
        \/ Fetch \/ Transfer \/ Complete \/ Fail

Spec == Init /\ [][Next]_vars

------------------------------------------------------------------------------
Commands == [write : BOOLEAN, lba : LBAs, count : 0..DATA_MAX]
Texts == UNION {[1..n -> Values] : n \in 0..DATA_MAX}

TypeOK ==
    /\ {READY, PXCI, tfes, halted, late} \subseteq BOOLEAN
    /\ disk \in [LBAs -> Values] /\ before \in [LBAs -> Values]
    /\ data \in [1..DATA_MAX -> Values]
    /\ ct \in Commands /\ tfd \in [busy : BOOLEAN, err : BOOLEAN]
    /\ dev \in [cmd : Commands, done : 0..DATA_MAX]
    /\ call \in [step : {"none", "idle", "built", "poll"}, cmd : Commands, bytes : Texts]
    /\ \A a \in answer : a.ok \in BOOLEAN /\ a.bytes \in Texts
    /\ test \in {"write", "read", "compare", "passed", "failed"}

Covers(cmd, l) == l \in cmd.lba..(cmd.lba + cmd.count - 1)

\* Unless an earlier call had given up on a command that was still running, the
\* answer is true: a write that succeeded is on the disk, one that failed has
\* written a part of its sectors at most, a read that succeeded gives the disk's
\* sectors, and no other sector changes.  Rpfs rests on it (diskfs.rs:24-31).
AnswersTrue ==
    ~late => \A a \in answer, l \in LBAs :
        IF ~Covers(a.cmd, l) \/ ~a.cmd.write
        THEN /\ disk[l] = before[l]
             /\ (a.ok /\ Covers(a.cmd, l)) => a.bytes[l - a.cmd.lba + 1] = disk[l]
        ELSE LET new == a.bytes[l - a.cmd.lba + 1]
             IN IF a.ok THEN disk[l] = new ELSE disk[l] \in {before[l], new}

------------------------------------------------------------------------------
(* What is proved of it, in KernelParts.                                      *)
AhciConstants == /\ Sectors \in Nat /\ DATA_MAX \in Nat /\ SCRATCH_LBA \in LBAs
                 /\ Blank \in Values /\ Sig \in Values

\* A command may be in the device, and only one that is issued is.
Running == PXCI /\ ~halted
PortSound == /\ tfd.busy => Running
             /\ halted => PXCI
             /\ dev.done <= dev.cmd.count

\* The sectors it is about hold what they held or what it brings, the first of
\* them what it brings; and what it brings is in the bounce buffer.
Partly(cmd, bytes) ==
    \A l \in LBAs : IF cmd.write /\ Covers(cmd, l) THEN disk[l] \in {before[l], bytes[l - cmd.lba + 1]}
                                                  ELSE disk[l] = before[l]
Upto(cmd, bytes, n) ==
    \A l \in LBAs : l \in cmd.lba..(cmd.lba + n - 1) =>
        disk[l] = IF cmd.write THEN bytes[l - cmd.lba + 1] ELSE data[l - cmd.lba + 1]
Buffered(cmd, bytes) == cmd.write => \A k \in 1..cmd.count : data[k] = bytes[k]

\* A command from when it is issued to the next call, whether or not its own call
\* has waited for it.
Progress(cmd, bytes) ==
    /\ Partly(cmd, bytes)
    /\ Running => ct = cmd /\ Buffered(cmd, bytes)
    /\ tfd.busy => dev.cmd = cmd /\ Upto(cmd, bytes, dev.done)
    /\ ~PXCI /\ ~tfd.err => Upto(cmd, bytes, cmd.count)
Told(a) == ~PXCI /\ \A l \in LBAs : Covers(a.cmd, l) => a.bytes[l - a.cmd.lba + 1] = disk[l]

CallKept ==
    /\ call.step \in {"idle", "built"} => ~Running /\ disk = before /\ Buffered(call.cmd, call.bytes)
    /\ call.step = "built" => ct = call.cmd
    /\ call.step = "poll" => Progress(call.cmd, call.bytes)
    /\ \A a \in answer : Progress(a.cmd, a.bytes) /\ (a.ok => Told(a))
AhciInv == /\ TypeOK /\ PortSound
           /\ call.step # "none" => answer = {} /\ 1..call.cmd.count \subseteq DOMAIN call.bytes
           /\ ~late => CallKept

==============================================================================
