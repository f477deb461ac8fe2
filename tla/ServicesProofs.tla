--------------------------- MODULE ServicesProofs ---------------------------
(***************************************************************************)
(* The properties that the run of MCServices checks of a part, for every     *)
(* value of its constants.  A behaviour of Services is one of one part, so   *)
(* each invariant is one of that part, kept by the steps of that part.       *)
(***************************************************************************)
EXTENDS MCServices

(* Station and access point.                                                  *)
EapolInv == which = "eapol" => Wpa!Inv

\* Nothing is in the air yet.
LEMMA WpaInit == Wpa!Init => Wpa!Inv
BY DEF Wpa!Init, Wpa!Inv, Wpa!Traced, Wpa!KeysAgree

\* No step, of either side or of the air, breaks it.
LEMMA WpaStep == Wpa!Inv /\ [Wpa!Next]_(Wpa!vars) => Wpa!Inv'
<1> SUFFICES ASSUME Wpa!Inv, [Wpa!Next]_(Wpa!vars) PROVE Wpa!Inv' OBVIOUS
<1> USE DEF Wpa!Inv, Wpa!Traced, Wpa!KeysAgree, Wpa!ToSta, Wpa!ToAp, Wpa!Ptk, Wpa!Gtk
<1>1. CASE Wpa!SendM1 BY <1>1 DEF Wpa!SendM1
<1>2. CASE Wpa!SendM3 BY <1>2 DEF Wpa!SendM3
<1>3. CASE Wpa!TakeM2 BY <1>3 DEF Wpa!TakeM2
<1>4. CASE Wpa!TakeM4 BY <1>4 DEF Wpa!TakeM4
<1>5. CASE Wpa!Restart
  <2>1. pt' = [round |-> pt.round + 1, counter |-> pt.counter, state |-> "m1"]
    BY <1>5 DEF Wpa!Restart
  <2>2. pt.round + 1 \in Nat \ {0} /\ pt.counter \in Int OBVIOUS
  <2> QED BY <1>5, <2>1, <2>2 DEF Wpa!Restart
<1>6. CASE Wpa!Lose BY <1>6 DEF Wpa!Lose
<1>7. ASSUME NEW f \in level, Wpa!on_message1(f) PROVE Wpa!Inv' BY <1>7 DEF Wpa!on_message1
<1>8. ASSUME NEW f \in level, Wpa!on_message3(f) PROVE Wpa!Inv'
  <2>1. f \in [m : {3}, counter : Int, mic : Nat \ {0}, gtk : Nat]
    BY <1>8 DEF Wpa!on_message3
  <2>2. /\ count' = count \cup {[ptk |-> f.mic, gtk |-> f.gtk]}
        /\ spaces' = spaces \cup {[m |-> 4, counter |-> f.counter, mic |-> f.mic]}
        /\ UNCHANGED <<free, pt, level>>
    BY <1>8 DEF Wpa!on_message3, Wpa!verify_message3, Wpa!find_gtk_kde
  <2> DEFINE k == [ptk |-> f.mic, gtk |-> f.gtk]
             a == [m |-> 4, counter |-> f.counter, mic |-> f.mic]
  <2>3. k \in [ptk : Nat \ {0}, gtk : Nat] /\ k.ptk = f.mic /\ k.gtk = f.gtk
    BY <2>1
  <2>4. a \in Wpa!ToAp /\ a.mic = f.mic BY <2>1
  <2>5. count' = count \cup {k} /\ spaces' = spaces \cup {a} BY <2>2
  <2> HIDE DEF k, a
  <2>6. Wpa!Traced' BY <2>2, <2>3, <2>4, <2>5
  <2>7. Wpa!KeysAgree' BY <1>8, <2>1, <2>2, <2>3, <2>5 DEF Wpa!on_message3
  <2> QED BY <2>6, <2>7
<1>9. CASE UNCHANGED Wpa!vars BY <1>9 DEF Wpa!vars
<1> QED BY <1>1, <1>2, <1>3, <1>4, <1>5, <1>6, <1>7, <1>8, <1>9 DEF Wpa!Next, Wpa!Receive

LEMMA EapolInit == PartInit => EapolInv
BY WpaInit DEF PartInit, EapolInv

LEMMA EapolStep == EapolInv /\ [PartNext]_all => EapolInv'
<1> SUFFICES ASSUME EapolInv, [PartNext]_all, which' = "eapol" PROVE Wpa!Inv'
  BY DEF EapolInv
<1>1. CASE which = "eapol" /\ Wpa!Next /\ UNCHANGED <<which, Rest6>>
  BY <1>1, WpaStep DEF EapolInv
<1>2. CASE UNCHANGED all
  BY <1>2, WpaStep DEF all, EapolInv, Wpa!vars
<1>3. QED
  BY <1>1, <1>2 DEF PartNext

(* Whatever is repeated, late or lost, station and access point end a handshake of *)
(* 802.11 with the same keys, for any number of messages and handshakes       *)
(* (eapol.rs, on_message1 and on_message3).                                   *)
THEOREM HandshakesAgree == Services => []KeysAgree
<1>1. EapolInv => KeysAgree
  BY DEF EapolInv, KeysAgree, Wpa!Inv
<1>2. QED
  BY EapolInit, EapolStep, <1>1, PTL DEF Services

------------------------------------------------------------------------------
(* Memory.                                                                    *)
InMemory == which = "memory" => MInv /\ HeapOK /\ CountAgrees

LEMMA InMemoryInit == PartInit => InMemory
<1>1. Init => CountAgrees
  BY DEF Init, CountAgrees
<1>2. QED
  BY <1>1, MemoryInit, HeapInit DEF PartInit, InMemory

\* A step of the run is one of this part, or it is none.
LEMMA InMemorySteps ==
  ASSUME [PartNext]_all, which = "memory" \/ which' = "memory"
  PROVE  which = "memory" /\ [Next]_vars
<1>1. CASE which = "memory" /\ Next /\ UNCHANGED <<which, Rest10>>
  BY <1>1
<1>2. CASE UNCHANGED all
  BY <1>2 DEF all, vars
<1>3. QED
  BY <1>1, <1>2 DEF PartNext

LEMMA InMemoryStep == InMemory /\ [PartNext]_all => InMemory'
<1> SUFFICES ASSUME InMemory, [PartNext]_all, which' = "memory"
             PROVE  (MInv /\ HeapOK /\ CountAgrees)'
  BY DEF InMemory
<1>1. which = "memory" /\ [Next]_vars
  BY InMemorySteps
<1>2. QED
  BY <1>1, MemoryStep, HeapStep, CountStep DEF InMemory

(* The counter of free frames is right, no program reaches a page of another, a table *)
(* or a frame that may be given away, whatever fixed addresses it maps, and no step   *)
(* moves or drops a page of the heap of the Linux process unless that maps over the   *)
(* page itself: for every machine and layout (pmm.rs, vmm.rs, linux.rs).              *)
THEOREM MemoryIsolated == Services => SpacesIsolated
<1>1. InMemory => (which = "memory" => CountAgrees /\ Isolation)
  BY MInvIsolates DEF InMemory
<1>2. InMemory /\ [PartNext]_all => [which = "memory" => HeapKept]_all
  BY InMemorySteps, HeapKeptStep DEF InMemory
<1>3. QED
  BY <1>1, <1>2, InMemoryInit, InMemoryStep, PTL DEF Services, SpacesIsolated

------------------------------------------------------------------------------
(* The TCP client.  What WireProofs proves of the operators of Tcp is said of *)
(* those of its own instance, which are the same.                             *)
LEMMA StreamConstants == Wire!TcpConstants
BY TcpAssumption DEF Wire!TcpConstants

LEMMA NetInit == Net!Init => Wire!Init
BY DEF Net!Init, Wire!Init, Net!Servers, Wire!Servers

LEMMA NetClient == Net!Client => Wire!Client
<1>1. ASSUME NEW k, Net!Connect(k) PROVE Wire!Connect(k)
  BY <1>1 DEF Net!Connect, Wire!Connect, Net!ToServer, Wire!ToServer
<1>2. ASSUME NEW i, Net!SynAck(i) PROVE Wire!SynAck(i)
  BY <1>2 DEF Net!SynAck, Wire!SynAck, Net!Arrivals, Wire!Arrivals, Net!Without, Wire!Without,
     Net!Return, Wire!Return, Net!ToServer, Wire!ToServer, Net!Request, Wire!Request
<1>3. ASSUME NEW i, Net!Recv(i) PROVE Wire!Recv(i)
  BY <1>3 DEF Net!Recv, Wire!Recv, Net!Arrivals, Wire!Arrivals, Net!Without, Wire!Without,
     Net!Return, Wire!Return, Net!ToServer, Wire!ToServer, Net!InOrder, Wire!InOrder,
     Net!Payload, Wire!Payload, Net!Byte, Wire!Byte, Net!Isn, Wire!Isn
<1>4. ASSUME NEW i, Net!HttpRecv(i) PROVE Wire!HttpRecv(i)
  BY <1>4 DEF Net!HttpRecv, Wire!HttpRecv, Net!Arrivals, Wire!Arrivals, Net!Without, Wire!Without,
     Net!Return, Wire!Return, Net!ToServer, Wire!ToServer, Net!InOrder, Wire!InOrder,
     Net!Smaller, Wire!Smaller, Net!Payload, Wire!Payload, Net!Byte, Wire!Byte, Net!Isn, Wire!Isn
<1>5. Net!Send => Wire!Send
  BY DEF Net!Send, Wire!Send, Net!Request, Wire!Request, Net!ToServer, Wire!ToServer
<1>6. Net!RecvCall => Wire!RecvCall
  BY DEF Net!RecvCall, Wire!RecvCall, Net!Return, Wire!Return
<1>7. Net!Timeout => Wire!Timeout
  BY DEF Net!Timeout, Wire!Timeout, Net!Return, Wire!Return
<1>8. Net!Close => Wire!Close
  BY DEF Net!Close, Wire!Close, Net!Return, Wire!Return, Net!ToServer, Wire!ToServer
<1>9. Net!Kinds = Wire!Kinds
  BY DEF Net!Kinds, Wire!Kinds
<1> QED BY <1>1, <1>2, <1>3, <1>4, <1>5, <1>6, <1>7, <1>8, <1>9 DEF Net!Client, Wire!Client

LEMMA NetWorld == Net!World => Wire!World
<1>1. ASSUME NEW s, NEW fin, Net!SrvSend(s, fin) PROVE Wire!SrvSend(s, fin)
  BY <1>1 DEF Net!SrvSend, Wire!SrvSend, Net!Segment, Wire!Segment, Net!FromServer, Wire!FromServer,
     Net!SegEnd, Wire!SegEnd, Net!FinSeq, Wire!FinSeq, Net!Isn, Wire!Isn,
     Net!Smaller, Wire!Smaller, Net!client, Wire!client
<1>2. ASSUME NEW s, NEW fin, Net!Resend(s, fin) PROVE Wire!Resend(s, fin)
  BY <1>2 DEF Net!Resend, Wire!Resend, Net!Segment, Wire!Segment, Net!FromServer, Wire!FromServer,
     Net!SegEnd, Wire!SegEnd, Net!FinSeq, Wire!FinSeq, Net!Isn, Wire!Isn,
     Net!Smaller, Wire!Smaller, Net!Larger, Wire!Larger, Net!client, Wire!client
<1>3. Net!SrvTake => Wire!SrvTake
  BY DEF Net!SrvTake, Wire!SrvTake, Net!Isn, Wire!Isn, Net!FromServer, Wire!FromServer,
     Net!Larger, Wire!Larger, Net!client, Wire!client
<1>4. ASSUME NEW s, Net!Abort(s) PROVE Wire!Abort(s)
  BY <1>4 DEF Net!Abort, Wire!Abort, Net!FromServer, Wire!FromServer, Net!client, Wire!client
<1>5. Net!Lose => Wire!Lose
  BY DEF Net!Lose, Wire!Lose, Net!Without, Wire!Without, Net!client, Wire!client
<1>6. Net!Servers = Wire!Servers
  BY DEF Net!Servers, Wire!Servers
<1> QED BY <1>1, <1>2, <1>3, <1>4, <1>5, <1>6 DEF Net!World, Wire!World

InNet == which = "tcp" => Wire!TcpInv

LEMMA InNetInit == PartInit => InNet
BY StreamConstants, NetInit, Wire!InitHolds DEF PartInit, InNet

LEMMA InNetSteps ==
  ASSUME [PartNext]_all, which = "tcp" \/ which' = "tcp"
  PROVE  which = "tcp" /\ [Wire!Next]_(Wire!vars)
<1>1. CASE which = "tcp" /\ Net!Next /\ UNCHANGED <<which, Rest13>>
  <2>1. Wire!Next
    BY <1>1, NetClient, NetWorld DEF Net!Next, Wire!Next
  <2> QED BY <1>1, <2>1
<1>2. CASE UNCHANGED all
  BY <1>2 DEF all, Wire!vars, Wire!client
<1> QED BY <1>1, <1>2 DEF PartNext

LEMMA InNetStep == InNet /\ [PartNext]_all => InNet'
<1> SUFFICES ASSUME InNet, [PartNext]_all, which' = "tcp" PROVE Wire!TcpInv'
  BY DEF InNet
<1>1. Wire!TcpInv /\ [Wire!Next]_(Wire!vars)
  BY InNetSteps DEF InNet
<1> QED BY <1>1, StreamConstants, Wire!StepKeeps

(* What the client acknowledges it has handed to its caller, for any number of *)
(* connections, length of response and size of segment, over a network that    *)
(* loses, repeats and reorders (net.rs, tcp_http_get and TcpConn).             *)
THEOREM AckedBytesRead == Services => []AckedWasRead
<1>1. Wire!AckedWasRead => Net!AckedWasRead
  BY DEF Wire!AckedWasRead, Net!AckedWasRead, Wire!Servers, Net!Servers, Wire!Isn, Net!Isn,
     Wire!CleanStart, Net!CleanStart, Wire!Smaller, Net!Smaller
<1>2. InNet => AckedWasRead
  BY <1>1, StreamConstants, Wire!ReadFirst DEF InNet, AckedWasRead
<1> QED BY InNetInit, InNetStep, <1>2, PTL DEF Services

(* Its callers read a byte stream, the first bytes of what one server sent and all of *)
(* them when it says so: ByteStream (net.rs, tcp_http_get and TcpConn).       *)
THEOREM StreamsImplemented == Services => ImplementsStream
<1>1. PartInit => (which = "tcp" => Net!Stream!Init)
  <2> SUFFICES ASSUME Net!Init PROVE Net!Stream!Init
    BY DEF PartInit
  <2>1. count = 0 /\ pt = "http" /\ surface = <<>> /\ TcpRoom \in Nat
    BY TcpAssumption DEF Net!Init
  <2>2. Net!EndSeen = "none"
    BY <2>1 DEF Net!EndSeen
  <2> QED BY <2>1, <2>2 DEF Net!Stream!Init
<1>2. [Wire!Stream!Next]_(Wire!Stream!vars) => (Net!Stream!Next \/ UNCHANGED <<Net!Stream!vars>>)
  <2>1. Net!EndSeen = Wire!EndSeen
    BY DEF Net!EndSeen, Wire!EndSeen, Net!CleanStart, Wire!CleanStart, Net!Servers, Wire!Servers
  <2>2. Net!EndSeen' = Wire!EndSeen'
    BY DEF Net!EndSeen, Wire!EndSeen, Net!CleanStart, Wire!CleanStart, Net!Servers, Wire!Servers
  <2>3. Net!Servers = Wire!Servers
    BY DEF Net!Servers, Wire!Servers
  <2> QED
    BY <2>1, <2>2, <2>3 DEF Net!Stream!Next, Wire!Stream!Next, Net!Stream!vars, Wire!Stream!vars,
       Net!Stream!Open, Wire!Stream!Open, Net!Stream!Deliver, Wire!Stream!Deliver,
       Net!Stream!Complete, Wire!Stream!Complete, Net!Stream!Cut, Wire!Stream!Cut,
       Net!Stream!IsPrefixOf, Wire!Stream!IsPrefixOf, Net!Stream!Byte, Wire!Stream!Byte
<1>3. InNet /\ InNet' /\ [PartNext]_all
        => [which = "tcp" => Net!Stream!Next \/ UNCHANGED <<Net!Stream!vars>>]_all
  <2> SUFFICES ASSUME InNet, InNet', [PartNext]_all, which = "tcp"
               PROVE  Net!Stream!Next \/ UNCHANGED <<Net!Stream!vars>>
    OBVIOUS
  <2>1. [Wire!Next]_(Wire!vars)
    BY InNetSteps
  <2>2. which' = "tcp"
    BY DEF PartNext, all
  <2>3. Wire!TcpInv /\ Wire!TcpInv'
    BY <2>2 DEF InNet
  <2> QED BY <1>2, <2>1, <2>3, StreamConstants, Wire!StreamsNext
<1> QED BY <1>1, <1>3, InNetInit, InNetStep, PTL DEF Services, ImplementsStream
------------------------------------------------------------------------------
(* The loader of Linux programs.                                              *)
InElf == which = "elf" => Part!Exec!Inv

LEMMA LoaderConstants == Part!Exec!ElfConstants
BY ElfAssumption DEF Part!Exec!ElfConstants, Part!Exec!Header, Part!Exec!Up, ElfFile, ElfHeader

LEMMA InElfInit == PartInit => InElf
BY LoaderConstants, Part!ElfInitHolds DEF PartInit, InElf

LEMMA InElfStep == InElf /\ [PartNext]_all => InElf'
<1> SUFFICES ASSUME InElf, [PartNext]_all, which' = "elf" PROVE Part!Exec!Inv'
  BY DEF InElf
<1>1. which = "elf" /\ [Part!Exec!Next]_(Part!Exec!vars)
  <2>1. CASE which = "elf" /\ Part!Exec!Next /\ UNCHANGED <<which, Rest5>>
    BY <2>1
  <2>2. CASE UNCHANGED all
    BY <2>2 DEF all, Part!Exec!vars
  <2> QED BY <2>1, <2>2 DEF PartNext
<1> QED BY <1>1, LoaderConstants, Part!ElfStepHolds DEF InElf

(* A program is in memory as its file has it when it is entered: for all files whose   *)
(* segments go up and lie apart from those of the linker, and for any size of page     *)
(* (elf.rs, load_bias).                                                       *)
THEOREM ProgramsLoaded == Services => []ImageRight
<1>1. ASSUME which = "elf", Part!Exec!Inv PROVE Part!Exec!ImageRight
  <2> PICK S : S = Part!Exec!Covering(free)
    OBVIOUS
  <2>1. S \subseteq Nat
    BY <1>1, LoaderConstants DEF Part!Exec!Covering, Part!Exec!Seen, Part!Exec!Inv, Part!Exec!Typed, Part!Exec!ElfConstants
  <2>2. ASSUME S # {} PROVE Part!Exec!Min(S) \in S
    BY <2>1, <2>2, LeastNatural DEF Part!Exec!Min
  <2> QED BY <1>1, <2>2, LoaderConstants, Part!ElfEnteredRight
<1>2. InElf => ImageRight
  BY <1>1 DEF InElf, ImageRight
<1> QED BY InElfInit, InElfStep, <1>2, PTL DEF Services

------------------------------------------------------------------------------
(* The heap of the desktop.                                                   *)
InHeap == which = "heap" => Space!IInv

LEMMA HeapFits == Space!HeapConstants /\ Space!WellOrdered
<1>1. Space!WellOrdered
  BY LeastNatural DEF Space!WellOrdered
<1> QED BY <1>1, HeapAssumption DEF Space!HeapConstants

LEMMA InHeapInit == PartInit => InHeap
BY HeapFits, Space!LaidGood DEF PartInit, InHeap

LEMMA InHeapStep == InHeap /\ [PartNext]_all => InHeap'
<1> SUFFICES ASSUME InHeap, [PartNext]_all, which' = "heap" PROVE Space!IInv'
  BY DEF InHeap
<1>1. which = "heap" /\ [Space!Next]_(Space!vars)
  <2>1. CASE which = "heap" /\ Space!Next /\ UNCHANGED <<which, Rest5>>
    BY <2>1
  <2>2. CASE UNCHANGED all
    BY <2>2 DEF all, Space!vars
  <2> QED BY <2>1, <2>2 DEF PartNext
<1> QED BY <1>1, HeapFits, Space!StepHolds DEF InHeap

(* No byte of the heap is lost or given out twice, free blocks are joined, live is what is held, *)
(* and nothing is refused that fits: for an arena, an alignment and requests of any size         *)
(* (heap.rs, alloc and dealloc).                                                                 *)
THEOREM HeapSound == Services => []HeapCounted
<1>1. InHeap => HeapCounted
  BY HeapFits, Space!Counted DEF InHeap, HeapCounted
<1> QED BY InHeapInit, InHeapStep, <1>1, PTL DEF Services

------------------------------------------------------------------------------
(* The rings of the USB controller and of the network cards.                  *)
InRings == /\ which = "xhci" => Wire!Usb!RingInv
           /\ which = "nic" => Wire!Card!CardInv

LEMMA UsbConstants == Wire!Usb!XhciConstants
BY XhciAssumption DEF Wire!Usb!XhciConstants

LEMMA CardConstants == Wire!Card!NicConstants
BY NicAssumption DEF Wire!Card!NicConstants

LEMMA InRingsInit == PartInit => InRings
BY UsbConstants, CardConstants, Wire!UsbInvInit, Wire!CardInit DEF PartInit, InRings

LEMMA InUsbSteps ==
  ASSUME [PartNext]_all, which' = "xhci"
  PROVE  which = "xhci" /\ (Wire!Usb!Next \/ UNCHANGED Wire!Usb!vars)
<1>1. CASE which = "xhci" /\ Wire!Usb!Next /\ UNCHANGED <<which, Rest10>>
  BY <1>1
<1>2. CASE UNCHANGED all
  BY <1>2 DEF all, Wire!Usb!vars
<1> QED BY <1>1, <1>2 DEF PartNext

LEMMA InCardSteps ==
  ASSUME [PartNext]_all, which' = "nic"
  PROVE  which = "nic" /\ [Wire!Card!Next]_(Wire!Card!vars)
<1>1. CASE which = "nic" /\ Wire!Card!Next /\ UNCHANGED <<which, Rest15>>
  BY <1>1
<1>2. CASE UNCHANGED all
  BY <1>2 DEF all, Wire!Card!vars, Wire!Card!rxVars, Wire!Card!txVars
<1> QED BY <1>1, <1>2 DEF PartNext

LEMMA InRingsStep == InRings /\ [PartNext]_all => InRings'
<1> SUFFICES ASSUME InRings, [PartNext]_all PROVE InRings'
  OBVIOUS
<1>1. ASSUME which' = "xhci" PROVE Wire!Usb!RingInv'
  <2>1. Wire!Usb!RingInv /\ (Wire!Usb!Next \/ UNCHANGED Wire!Usb!vars)
    BY <1>1, InUsbSteps DEF InRings
  <2> QED BY <2>1, UsbConstants, Wire!UsbInvStep, Wire!UsbInvStutter
<1>2. ASSUME which' = "nic" PROVE Wire!Card!CardInv'
  <2>1. Wire!Card!CardInv /\ [Wire!Card!Next]_(Wire!Card!vars)
    BY <1>2, InCardSteps DEF InRings
  <2> QED BY <2>1, CardConstants, Wire!CardStep
<1> QED BY <1>1, <1>2 DEF InRings

(* As long as no wait of the driver has timed out, every answer of the USB controller goes to   *)
(* the command that asked, a keyboard is registered once and only when it is configured, and    *)
(* each read that the driver queues is one the controller sees; a network card hands over every *)
(* frame, in either direction, once and in order.  This is so for rings of any size and any     *)
(* number of ports, keyboards, reports and frames (usb.rs, queue_hid_read and poll; e1000.rs,   *)
(* r8169.rs).                                                                                 *)
THEOREM RingsFollowed == Services => []RingsAgree
<1>1. Wire!Card!CardInv => Wire!Card!RingsInOrder
  BY DEF Wire!Card!CardInv
<1>2. InRings => RingsAgree
  BY <1>1, UsbConstants, Wire!UsbRingsFollow DEF InRings, RingsAgree
<1> QED BY InRingsInit, InRingsStep, <1>2, PTL DEF Services
------------------------------------------------------------------------------
(* The files: descriptors of Linux programs, the kernel's files and their       *)
(* listing, the disk.                                                         *)
InFiles == /\ which = "linux" => Part!Linux!LinuxInv
           /\ which = "files" => Part!Disk!FilesInv
           /\ which = "ahci" => Part!Sata!AhciInv

LEMMA AbiConstants == Part!Linux!LinuxConstants
BY LinuxAssumption DEF Part!Linux!LinuxConstants

LEMMA DriveConstants == Part!Sata!AhciConstants
BY AhciAssumption DEF Part!Sata!AhciConstants, Part!Sata!LBAs

LEMMA VfsConstants == Part!Disk!FilesConstants
BY FilesAssumption DEF Part!Disk!FilesConstants, Part!Disk!PathName

LEMMA NumbersOrdered == Part!NatOrdered
BY LeastNatural DEF Part!NatOrdered

LEMMA InFilesInit == PartInit => InFiles
BY AbiConstants, DriveConstants, VfsConstants, Part!LinuxInit, Part!SataInit, Part!DiskInit DEF PartInit, InFiles

LEMMA InLinuxSteps ==
  ASSUME [PartNext]_all, which' = "linux"
  PROVE  which = "linux" /\ [Part!Linux!Next]_(Part!Linux!vars)
<1>1. CASE which = "linux" /\ Part!Linux!Next /\ UNCHANGED <<which, Rest12>>
  BY <1>1
<1>2. CASE UNCHANGED all
  BY <1>2 DEF all, Part!Linux!vars
<1> QED BY <1>1, <1>2 DEF PartNext

LEMMA InDiskSteps ==
  ASSUME [PartNext]_all, which' = "files"
  PROVE  which = "files" /\ [Part!Disk!Next]_(Part!Disk!vars)
<1>1. CASE which = "files" /\ Part!Disk!Next /\ UNCHANGED <<which, Rest11>>
  BY <1>1
<1>2. CASE UNCHANGED all
  BY <1>2 DEF all, Part!Disk!vars, Part!Disk!fs, Part!Disk!fm
<1> QED BY <1>1, <1>2 DEF PartNext

LEMMA InSataSteps ==
  ASSUME [PartNext]_all, which' = "ahci"
  PROVE  which = "ahci" /\ [Part!Sata!Next]_(Part!Sata!vars)
<1>1. CASE which = "ahci" /\ Part!Sata!Next /\ UNCHANGED <<which, Rest14>>
  BY <1>1
<1>2. CASE UNCHANGED all
  BY <1>2 DEF all, Part!Sata!vars, Part!Sata!devVars, Part!Sata!regVars
<1> QED BY <1>1, <1>2 DEF PartNext

LEMMA InFilesStep == InFiles /\ [PartNext]_all => InFiles'
<1> SUFFICES ASSUME InFiles, [PartNext]_all PROVE InFiles'
  OBVIOUS
<1>1. ASSUME which' = "linux" PROVE Part!Linux!LinuxInv'
  <2>1. Part!Linux!LinuxInv /\ [Part!Linux!Next]_(Part!Linux!vars)
    BY <1>1, InLinuxSteps DEF InFiles
  <2> QED BY <2>1, NumbersOrdered, AbiConstants, Part!LinuxStep
<1>2. ASSUME which' = "files" PROVE Part!Disk!FilesInv'
  <2>1. Part!Disk!FilesInv /\ [Part!Disk!Next]_(Part!Disk!vars)
    BY <1>2, InDiskSteps DEF InFiles
  <2> QED BY <2>1, NumbersOrdered, VfsConstants, Part!DiskStep
<1>3. ASSUME which' = "ahci" PROVE Part!Sata!AhciInv'
  <2>1. Part!Sata!AhciInv /\ [Part!Sata!Next]_(Part!Sata!vars)
    BY <1>3, InSataSteps DEF InFiles
  <2> QED BY <2>1, DriveConstants, Part!SataStep
<1> QED BY <1>1, <1>2, <1>3 DEF InFiles

(* A descriptor of a Linux program reads the file it was opened for, from where POSIX has its     *)
(* position, whatever is opened, copied, closed, sought or killed, unless the program closed a    *)
(* copy of it, sought before the start, or on from past the end; the shell reads a file's         *)
(* own bytes, in order and to their end, and the file manager lists what its directory holds,    *)
(* sorted, up to the rows it has; and what the disk driver answers is true of the disk, unless   *)
(* one of its waits has timed out.  This is so for files, archives, descriptors, sectors and     *)
(* buffers of any number and size (linux_abi.rs; vfs.rs; app.rs, apply_sort; ahci.rs, rw).       *)
THEOREM FilesHeld == Services => []FilesKept
<1>1. Part!Linux!LinuxInv => Part!Linux!DescriptorsKept
  BY DEF Part!Linux!LinuxInv
<1>2. Part!Disk!FilesInv => Part!Disk!ListShown /\ Part!Disk!ReadsRight
  BY NumbersOrdered, VfsConstants, Part!DiskShown, Part!DiskRight
<1>3. Part!Sata!AhciInv => Part!Sata!AnswersTrue
  BY DriveConstants, Part!SataAnswers
<1>4. InFiles => FilesKept
  BY <1>1, <1>2, <1>3 DEF InFiles, FilesKept
<1> QED BY InFilesInit, InFilesStep, <1>4, PTL DEF Services

------------------------------------------------------------------------------
(* What the padlock stands for: the browser with its fetch, and the TLS client. *)
InTrust == /\ which = "web" => Part!Fetch!WebInv
           /\ which = "tls" => Part!Ssl!TlsInv

LEMMA BrowserConstants == Part!Fetch!WebConstants
BY WebAssumption DEF Part!Fetch!WebConstants, Part!Fetch!Addresses, Part!Fetch!Absolute, Part!Fetch!Address,
   Part!Fetch!Schemes, Part!Fetch!Words

LEMMA ClientConstants == Part!Ssl!TlsConstants
BY TlsAssumption DEF Part!Ssl!TlsConstants, Part!Ssl!RootsNamed, Part!Ssl!Pieces, Part!Ssl!Message

LEMMA InTrustInit == PartInit => InTrust
BY BrowserConstants, ClientConstants, Part!WebInit, Part!TlsInit DEF PartInit, InTrust

LEMMA InWebSteps ==
  ASSUME [PartNext]_all, which = "web" \/ which' = "web"
  PROVE  which = "web" /\ [Part!Fetch!Next]_(Part!Fetch!vars)
<1>1. CASE which = "web" /\ Part!Fetch!Next /\ UNCHANGED <<which, Rest11>>
  BY <1>1
<1>2. CASE UNCHANGED all
  BY <1>2 DEF all, Part!Fetch!vars, Part!Fetch!kernel, Part!Fetch!browser
<1> QED BY <1>1, <1>2 DEF PartNext

LEMMA InTlsSteps ==
  ASSUME [PartNext]_all, which' = "tls"
  PROVE  which = "tls" /\ [Part!Ssl!Next]_(Part!Ssl!vars)
<1>1. CASE which = "tls" /\ Part!Ssl!Next /\ UNCHANGED <<which, Rest15>>
  BY <1>1
<1>2. CASE UNCHANGED all
  BY <1>2 DEF all, Part!Ssl!vars
<1> QED BY <1>1, <1>2 DEF PartNext

LEMMA InTrustStep == InTrust /\ [PartNext]_all => InTrust'
<1> SUFFICES ASSUME InTrust, [PartNext]_all PROVE InTrust'
  OBVIOUS
<1>1. ASSUME which' = "web" PROVE Part!Fetch!WebInv'
  <2>1. Part!Fetch!WebInv /\ [Part!Fetch!Next]_(Part!Fetch!vars)
    BY <1>1, InWebSteps DEF InTrust
  <2> QED BY <2>1, BrowserConstants, Part!WebStep
<1>2. ASSUME which' = "tls" PROVE Part!Ssl!TlsInv'
  <2>1. Part!Ssl!TlsInv /\ [Part!Ssl!Next]_(Part!Ssl!vars)
    BY <1>2, InTlsSteps DEF InTrust
  <2> QED BY <2>1, NumbersOrdered, ClientConstants, Part!TlsStep
<1> QED BY <1>1, <1>2 DEF InTrust

(* A page is shown with the padlock only if it came through TLS from a server that presented a  *)
(* chain good for the name that was asked for; no request leaves through TLS before a root      *)
(* vouches for the key of the chain presented (that the server holds it is not checked) and the *)
(* whole flight is taken; a proper server is refused only if the connection broke;              *)
(* the response is given out in order and whole; and back and forward move along one line of    *)
(* pages.  This is so for any names, paths, redirects, chains, flights, cuts into records and   *)
(* responses (app.rs; net.rs, http_get; tls.rs, https_request; x509.rs, validate_chain).        *)
THEOREM TrustHeld == Services => TrustEarned
<1>1. InTrust => (which = "web" => Part!Fetch!LockIsTrue /\ Part!Fetch!SentToNamed /\ Part!Fetch!LineSound)
  BY BrowserConstants, Part!WebTrusted DEF InTrust
<1>2. InTrust => (which = "tls" => Part!Ssl!HandshakeIsRight /\ Part!Ssl!ResponseInOrder)
  BY NumbersOrdered, ClientConstants, Part!TlsTrusted DEF InTrust
<1>3. InTrust /\ [PartNext]_all => [which = "web" => Part!Fetch!LineKept]_all
  <2> SUFFICES ASSUME InTrust, [PartNext]_all, which = "web" PROVE Part!Fetch!LineKept \/ UNCHANGED all
    OBVIOUS
  <2>1. CASE Part!Fetch!Next /\ UNCHANGED <<which, Rest11>>
    <3>1. Part!Fetch!LineKept \/ UNCHANGED Part!Fetch!vars
      BY <2>1, BrowserConstants, Part!WebStep DEF InTrust
    <3>2. UNCHANGED Part!Fetch!vars => UNCHANGED all
      BY <2>1 DEF all, Rest11, Part!Fetch!vars, Part!Fetch!kernel, Part!Fetch!browser
    <3> QED BY <3>1, <3>2
  <2> QED BY <2>1 DEF PartNext
<1> QED BY <1>1, <1>2, <1>3, InTrustInit, InTrustStep, PTL DEF Services, TrustEarned
=============================================================================
