-------------------------------- MODULE Xhci --------------------------------
(* The USB controller's rings (usb.rs): the driver posts commands and reads,  *)
(* the controller answers with events, and a cycle bit in each entry says     *)
(* which lap of the ring it belongs to.  The driver enumerates the ports with *)
(* commands it waits for and then polls for the reports of the keyboards.     *)
EXTENDS Integers, Sequences, FiniteSets

CONSTANTS NPorts,     \* root ports with a device
          MAX_HID_DEVS, \* slots the controller is told of (4)
          CMD,        \* entries of the command ring, the last is a link (256)
          EVT,        \* entries of the event ring (256)
          EvtWrap,    \* the entry at which the driver begins a new lap (255)
          TR, TR0,    \* entries of a transfer ring (64), where reads begin in it (16)
          MaxReports, \* bound: reports of each keyboard
          MaxChanges  \* bound: port status changes

VARIABLES cmd, evt,   \* the rings: entries [cycle, and what they say]
          tr,         \* [slot -> cycle bits of its transfer ring]
          drv,        \* the driver's places and cycles in the command and event ring
          hw,         \* the controller's
          dev,        \* [slot -> the device: its state, its place in tr and ours,
                      \*  control transfers and reads that are outstanding, reports]
          pc,         \* port, step of its enumeration, slot
          hids,       \* HID_DEVS: slots, in order of registration
          late,       \* a wait has timed out
          changes

vars == <<cmd, evt, tr, drv, hw, dev, pc, hids, late, changes>>

Slots == 1..MAX_HID_DEVS
CmdSteps == {"enable", "address", "configure"}
NoEvent == [type |-> "none", slot |-> 0, ok |-> FALSE]
Flip(c) == 1 - c

Init ==
    /\ cmd = [i \in 0..(CMD - 1) |-> [cycle |-> IF i = CMD - 1 THEN 1 ELSE 0, trb |-> "none", slot |-> 0]]
    /\ evt = [i \in 0..(EVT - 1) |-> [cycle |-> 0, e |-> NoEvent]]
    /\ tr = [s \in Slots |-> [i \in 0..(TR - 1) |-> 0]]
    /\ drv = [cmd |-> 0, cmdCycle |-> 1, evt |-> 0, evtCycle |-> 1]
    /\ hw = drv
    /\ dev = [s \in Slots |-> [state |-> "off", enq |-> TR0, enqCycle |-> 1, at |-> TR0, atCycle |-> 1,
                               ctrl |-> FALSE, reads |-> 0, reports |-> 0]]
    /\ pc = [port |-> 1, step |-> "enable", wait |-> FALSE, slot |-> 0]
    /\ hids = <<>> /\ late = FALSE /\ changes = 0

------------------------------------------------------------------------------
(* The controller.                                                            *)
\* It writes an event unless the ring is full.
Write(e) ==
    /\ (hw.evt + 1) % EVT # drv.evt
    /\ evt' = [evt EXCEPT ![hw.evt] = [cycle |-> hw.evtCycle, e |-> e]]
    /\ hw' = [hw EXCEPT !.evt = (@ + 1) % EVT,
                        !.evtCycle = IF hw.evt = EVT - 1 THEN Flip(@) ELSE @]

FollowLink ==
    /\ hw.cmd = CMD - 1 /\ cmd[hw.cmd].cycle = hw.cmdCycle
    /\ hw' = [hw EXCEPT !.cmd = 0, !.cmdCycle = Flip(@)]
    /\ UNCHANGED <<cmd, evt, tr, drv, dev, pc, hids, late, changes>>

\* It executes a command if it can, or says that it cannot.
Needs(trb) == CASE trb = "enable" -> "off" [] trb = "address" -> "enabled" [] OTHER -> "addressed"
Gives(trb) == CASE trb = "enable" -> "enabled" [] trb = "address" -> "addressed" [] OTHER -> "configured"
Execute ==
    LET c == cmd[hw.cmd] IN
    /\ hw.cmd # CMD - 1 /\ c.cycle = hw.cmdCycle
    /\ (hw.evt + 1) % EVT # drv.evt
    /\ \/ \E s \in Slots :
            /\ c.trb = "enable" \/ s = c.slot
            /\ dev[s].state = Needs(c.trb)
            /\ dev' = [dev EXCEPT ![s].state = Gives(c.trb)]
            /\ evt' = [evt EXCEPT ![hw.evt] = [cycle |-> hw.evtCycle,
                         e |-> [type |-> "command", slot |-> s, ok |-> TRUE]]]
       \/ /\ evt' = [evt EXCEPT ![hw.evt] = [cycle |-> hw.evtCycle,
                         e |-> [type |-> "command", slot |-> c.slot, ok |-> FALSE]]]
          /\ UNCHANGED dev
    /\ hw' = [hw EXCEPT !.evt = (@ + 1) % EVT, !.cmd = @ + 1,
                        !.evtCycle = IF hw.evt = EVT - 1 THEN Flip(@) ELSE @]
    /\ UNCHANGED <<cmd, tr, drv, pc, hids, late, changes>>

PortChange ==
    /\ changes < MaxChanges /\ changes' = changes + 1
    /\ Write([type |-> "port", slot |-> 0, ok |-> TRUE])
    /\ UNCHANGED <<cmd, tr, drv, dev, pc, hids, late>>

CtrlDone(s) ==
    /\ dev[s].ctrl
    /\ \E ok \in BOOLEAN : Write([type |-> "transfer", slot |-> s, ok |-> ok])
    /\ dev' = [dev EXCEPT ![s].ctrl = FALSE]
    /\ UNCHANGED <<cmd, tr, drv, pc, hids, late, changes>>

\* The entry it looks at is of this lap.
Seen(s) == tr[s][dev[s].at] = dev[s].atCycle

\* A key goes down or up: the controller fills the next read of the ring.
Report(s) ==
    LET d == dev[s]
        last == d.at + 1 = TR - 1 IN
    /\ d.state = "configured" /\ d.reads # 0 /\ Seen(s)
    /\ d.reports < MaxReports
    /\ Write([type |-> "transfer", slot |-> s, ok |-> TRUE])
    /\ dev' = [dev EXCEPT ![s] =
                 [d EXCEPT !.reads = @ - 1, !.reports = @ + 1,
                           !.at = IF last THEN 0 ELSE @ + 1,
                           !.atCycle = IF last THEN Flip(@) ELSE @]]
    /\ UNCHANGED <<cmd, tr, drv, pc, hids, late, changes>>

\* It comes to an entry that was never written and bears this lap's bit: an
\* error, after which the endpoint is halted.
Stray(s) ==
    /\ dev[s].state = "configured" /\ dev[s].reads = 0 /\ Seen(s)
    /\ Write([type |-> "transfer", slot |-> s, ok |-> FALSE])
    /\ dev' = [dev EXCEPT ![s].state = "halted"]
    /\ UNCHANGED <<cmd, tr, drv, pc, hids, late, changes>>

------------------------------------------------------------------------------
(* The driver.                                                                *)
\* post_cmd: the entry, and at the end of the ring the link with this lap's bit.
post_cmd(trb, slot) ==
    LET last == drv.cmd + 1 >= CMD - 1 IN
    /\ cmd' = [i \in 0..(CMD - 1) |->
                 IF i = drv.cmd THEN [cycle |-> drv.cmdCycle, trb |-> trb, slot |-> slot]
                 ELSE IF i = CMD - 1 /\ last THEN [cmd[i] EXCEPT !.cycle = drv.cmdCycle]
                 ELSE cmd[i]]
    /\ drv' = [drv EXCEPT !.cmd = IF last THEN 0 ELSE @ + 1,
                          !.cmdCycle = IF last THEN Flip(@) ELSE @]

EventReady == evt[drv.evt].cycle = drv.evtCycle

\* Seeded fault: the cycle bit is not flipped at the wrap.
consume_eventOneCycle ==
    /\ EventReady
    /\ drv' = [drv EXCEPT !.evt = IF @ + 1 >= EvtWrap THEN 0 ELSE @ + 1,
                          !.evtCycle = @]

consume_event ==
    /\ EventReady
    /\ drv' = [drv EXCEPT !.evt = IF @ + 1 >= EvtWrap THEN 0 ELSE @ + 1,
                          !.evtCycle = IF drv.evt + 1 >= EvtWrap THEN Flip(@) ELSE @]

\* The ring of a device's reads ends one entry short, and goes on at its start.
queue_hid_read(s, d) ==
    LET last == d.enq + 1 >= TR - 1 IN
    /\ tr' = [tr EXCEPT ![s] = [i \in 0..(TR - 1) |->
                IF i = d.enq \/ (i = TR - 1 /\ last) THEN d.enqCycle ELSE @[i]]]
    /\ dev' = [dev EXCEPT ![s] = [d EXCEPT !.reads = @ + 1,
                                    !.enq = IF last THEN 0 ELSE @ + 1,
                                    !.enqCycle = IF last THEN Flip(@) ELSE @]]

NextPort == pc' = (IF pc.port < NPorts
                     THEN [port |-> pc.port + 1, step |-> "enable", wait |-> FALSE, slot |-> 0]
                     ELSE [pc EXCEPT !.step = "poll", !.wait = FALSE])

\* xhci_init, per port: a command, then the wait for its completion.
Post ==
    /\ pc.step \in CmdSteps /\ ~pc.wait
    /\ post_cmd(pc.step, pc.slot)
    /\ pc' = [pc EXCEPT !.wait = TRUE]
    /\ UNCHANGED <<evt, tr, hw, dev, hids, late, changes>>

\* register_hid, and the first read, if there is room in the table.
register_hid(s) ==
    IF Len(hids) >= MAX_HID_DEVS THEN UNCHANGED <<hids, tr, dev>>
    ELSE /\ hids' = Append(hids, s)
         /\ queue_hid_read(s, [dev[s] EXCEPT !.enq = TR0, !.enqCycle = 1])

\* wait_cmd_completion: other events are dropped; the first completion is taken
\* for the answer.
Completion ==
    LET e == evt[drv.evt].e IN
    /\ pc.step \in CmdSteps /\ pc.wait
    /\ consume_event
    /\ IF e.type # "command" THEN UNCHANGED <<pc, dev, tr, hids>>
       ELSE IF ~e.ok \/ (pc.step = "enable" /\ e.slot = 0)
         THEN NextPort /\ UNCHANGED <<dev, tr, hids>>
       ELSE IF pc.step = "configure" THEN NextPort /\ register_hid(pc.slot)
       ELSE /\ pc' = [pc EXCEPT !.wait = FALSE,
                                !.step = IF @ = "enable" THEN "address" ELSE "protocol",
                                !.slot = IF pc.step = "enable" THEN e.slot ELSE @]
            /\ UNCHANGED <<dev, tr, hids>>
    /\ UNCHANGED <<cmd, evt, hw, late, changes>>

\* ctrl_transfer (SET_PROTOCOL): two entries at the start of the ring.
Protocol ==
    /\ pc.step = "protocol" /\ ~pc.wait
    /\ tr' = [tr EXCEPT ![pc.slot][0] = 1, ![pc.slot][1] = 1]
    /\ dev' = [dev EXCEPT ![pc.slot].ctrl = TRUE]
    /\ pc' = [pc EXCEPT !.wait = TRUE]
    /\ UNCHANGED <<cmd, evt, drv, hw, hids, late, changes>>

\* wait_event: whatever event comes first ends it, and its result is ignored.
ProtocolAnswer ==
    /\ pc.step = "protocol" /\ pc.wait
    /\ consume_event
    /\ pc' = [pc EXCEPT !.step = "configure", !.wait = FALSE]
    /\ UNCHANGED <<cmd, evt, tr, hw, dev, hids, late, changes>>

\* A wait comes to its end without an event.
Timeout ==
    /\ pc.wait /\ ~EventReady
    /\ IF pc.step = "protocol" THEN pc' = [pc EXCEPT !.step = "configure", !.wait = FALSE]
                               ELSE NextPort
    /\ late' = TRUE
    /\ UNCHANGED <<cmd, evt, tr, drv, hw, dev, hids, changes>>

\* poll: a report of a registered keyboard is decoded and the read queued again.
poll ==
    LET e == evt[drv.evt].e IN
    /\ pc.step = "poll"
    /\ consume_event
    /\ IF e.type = "transfer" /\ e.ok /\ \E k \in 1..Len(hids) : hids[k] = e.slot
         THEN queue_hid_read(e.slot, dev[e.slot])
         ELSE UNCHANGED <<tr, dev>>
    /\ UNCHANGED <<cmd, evt, hw, pc, hids, late, changes>>

Controller == \/ FollowLink \/ Execute \/ PortChange
              \/ \E s \in Slots : CtrlDone(s) \/ Report(s) \/ Stray(s)
Driver == Post \/ Completion \/ Protocol \/ ProtocolAnswer \/ Timeout \/ poll
Next == Controller \/ Driver
Spec == Init /\ [][Next]_vars

------------------------------------------------------------------------------
Bit == {0, 1}
Event == [type : {"none", "command", "transfer", "port"}, slot : Slots \cup {0}, ok : BOOLEAN]
Device == [state : {"off", "enabled", "addressed", "configured", "halted"},
           enq : 0..(TR - 2), enqCycle : Bit, at : 0..(TR - 2), atCycle : Bit,
           ctrl : BOOLEAN, reads : Nat, reports : Nat]
TypeOK ==
    /\ cmd \in [0..(CMD - 1) -> [cycle : Bit, trb : CmdSteps \cup {"none"}, slot : Slots \cup {0}]]
    /\ evt \in [0..(EVT - 1) -> [cycle : Bit, e : Event]]
    /\ tr \in [Slots -> [0..(TR - 1) -> Bit]]
    /\ drv \in [cmd : 0..(CMD - 2), cmdCycle : Bit, evt : 0..(EvtWrap - 1), evtCycle : Bit]
    /\ hw \in [cmd : 0..(CMD - 1), cmdCycle : Bit, evt : 0..(EVT - 1), evtCycle : Bit]
    /\ dev \in [Slots -> Device]
    /\ pc \in [port : Nat, step : CmdSteps \cup {"protocol", "poll"}, wait : BOOLEAN, slot : Slots \cup {0}]
    /\ pc.step \in {"address", "protocol", "configure"} => pc.slot \in Slots
    /\ hids \in Seq(Slots) /\ late \in BOOLEAN /\ changes \in Nat

\* While no wait has timed out, a keyboard is registered once, and only if the
\* controller has configured it: every completion went to its own command.
RegisteredReady ==
    ~late => /\ \A k \in 1..Len(hids) : dev[hids[k]].state \in {"configured", "halted"}
             /\ \A k, l \in 1..Len(hids) : hids[k] = hids[l] => k = l

\* Every read that is queued is the controller's to fill, lap after lap, although
\* the laps begin at the control entries.
ReadsSeen == ~late => \A s \in Slots : dev[s].reads # 0 => Seen(s)

\* Without one the controller sees nothing to fill, unless it is at an entry that
\* no one has written: those between the control entries and the first read bear
\* the cycle bit of the second lap before the driver gets there (usb.rs:579 has all
\* zeroes be a valid initial state), and of these nothing is claimed.
Gap == 2..(TR0 - 1)
NoGhostReads ==
    ~late => \A s \in Slots :
               dev[s].state = "configured" /\ dev[s].reads = 0 /\ Seen(s) => dev[s].at \in Gap

\* Of the event ring it is claimed that a completion is that of the command waited
\* for (RegisteredReady), not that the controller's last entry is ever taken: the
\* driver ends its laps one entry early.
RingsFollow == RegisteredReady /\ ReadsSeen /\ NoGhostReads

------------------------------------------------------------------------------
(* What is proved of it, in KernelParts.                                      *)
XhciConstants ==
    /\ CMD \in Nat /\ CMD >= 3 /\ EVT \in Nat \ {0} /\ EvtWrap \in 1..EVT
    /\ TR \in Nat /\ TR0 \in 2..(TR - 2)
    /\ NPorts \in Nat /\ MAX_HID_DEVS \in Nat /\ MaxReports \in Nat /\ MaxChanges \in Nat

\* The event ring: the controller's laps, and where the driver is in them.  What
\* the controller writes behind the driver's end of the ring is lost.
SameLap == hw.evtCycle = drv.evtCycle
EventLaps ==
    /\ \A n \in 0..(EVT - 1) : evt[n].cycle = IF n < hw.evt THEN hw.evtCycle ELSE Flip(hw.evtCycle)
    /\ IF SameLap THEN drv.evt <= hw.evt ELSE hw.evt < drv.evt \/ (drv.evt = 0 /\ hw.evt >= EvtWrap)
Pending == {n \in 0..(EvtWrap - 1) : IF SameLap THEN drv.evt <= n /\ n < hw.evt
                                     ELSE hw.evt < drv.evt /\ (drv.evt <= n \/ n < hw.evt)}
Answers == {n \in Pending : evt[n].e.type = "command"}
Transfers(s) == {n \in Pending : evt[n].e.type = "transfer" /\ evt[n].e.slot = s /\ evt[n].e.ok}

\* The command ring: at most one command is outstanding, the last.
SameCmdLap == hw.cmdCycle = drv.cmdCycle
LastCmd == IF drv.cmd = 0 THEN CMD - 2 ELSE drv.cmd - 1
Idle == IF SameCmdLap THEN hw.cmd = drv.cmd ELSE hw.cmd = CMD - 1 /\ drv.cmd = 0
Outstanding == \/ hw.cmd = LastCmd /\ (SameCmdLap <=> drv.cmd # 0)
               \/ hw.cmd = CMD - 1 /\ drv.cmd = 1 /\ ~SameCmdLap
CommandLaps ==
    \A n \in 0..(CMD - 2) : cmd[n].cycle = IF n < drv.cmd THEN drv.cmdCycle ELSE Flip(drv.cmdCycle)

\* An answer is the one the driver waits for.
Registered == {hids[k] : k \in 1..Len(hids)}
Load(s) == Cardinality(Transfers(s)) + dev[s].reads + (IF dev[s].ctrl THEN 1 ELSE 0)
Right(e) == e.ok => /\ e.slot \in Slots \ Registered
                    /\ dev[e.slot].state = Gives(pc.step)
                    /\ pc.step # "enable" => e.slot = pc.slot
Waiting ==
    IF pc.step \in CmdSteps /\ pc.wait
      THEN \/ /\ Outstanding /\ Answers = {}
              /\ cmd[LastCmd].trb = pc.step /\ cmd[LastCmd].slot = pc.slot
           \/ Idle /\ \A n \in Answers : Right(evt[n].e) /\ Answers = {n}
      ELSE Idle /\ Answers = {}

\* The slot of the port that is enumerated, and the others without a keyboard.
SlotOK ==
    pc.step \in {"address", "protocol", "configure"} =>
      /\ pc.slot \in Slots \ Registered
      /\ dev[pc.slot].state # "off"
      /\ pc.step = "protocol" => dev[pc.slot].state = "addressed"
      /\ pc.step = "address" \/ (pc.step = "protocol" /\ ~pc.wait) => Load(pc.slot) = 0
      /\ pc.step = "configure" \/ (pc.step = "protocol" /\ pc.wait) =>
           tr[pc.slot][0] = 1 /\ tr[pc.slot][1] = 1
Fresh(s) ==
    /\ dev[s].reads = 0 /\ dev[s].enq = TR0 /\ dev[s].at = TR0
    /\ dev[s].enqCycle = 1 /\ dev[s].atCycle = 1
    /\ \A n \in 2..(TR - 2) : tr[s][n] = 0
    /\ Load(s) <= 1
    /\ dev[s].state \in {"off", "enabled"} => Load(s) = 0
    /\ dev[s].state # "halted"

\* The reads of a keyboard: as many as lie between the controller and the driver.
SameRead(s) == dev[s].atCycle = dev[s].enqCycle
Queued(s, n) == IF SameRead(s) THEN dev[s].at <= n /\ n < dev[s].enq ELSE dev[s].at <= n \/ n < dev[s].enq
Reading(s) ==
    /\ Load(s) <= 2
    /\ dev[s].enq + (IF SameRead(s) THEN 0 ELSE TR - 1) = dev[s].at + dev[s].reads
    /\ \A n \in 0..(TR - 2) :
         n \notin Gap \/ Queued(s, n) =>
           tr[s][n] = IF n < dev[s].enq THEN dev[s].enqCycle ELSE Flip(dev[s].enqCycle)

Table == /\ \A k \in 1..Len(hids) : dev[hids[k]].state \in {"configured", "halted"}
         /\ \A k, l \in 1..Len(hids) : hids[k] = hids[l] => k = l
         /\ \A s \in Slots : IF s \in Registered THEN Reading(s) ELSE Fresh(s)

Kept == CommandLaps /\ Waiting /\ SlotOK /\ Table
RingInv == TypeOK /\ EventLaps /\ (~late => Kept)
==============================================================================
