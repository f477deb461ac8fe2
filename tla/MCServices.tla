----------------------------- MODULE MCServices -----------------------------
(* The parts of the kernel and of its network, each on a small machine.  A    *)
(* behaviour is one of one part, which is chosen at the start: what they have *)
(* to do with each other is in the modules themselves.  The variables are     *)
(* those of Memory, and some for the parts that have more; every part keeps   *)
(* its state in as many of them as it has variables.                          *)
EXTENDS Memory, TLC

\* Memory: eight pages under three levels of tables with three places each.
MCPath == [n \in 0..7 |-> <<n \div 4, (n \div 2) % 2, n % 2>>]
MCLayout == ("stub" :> <<0>>) @@ ("elf" :> <<0, 1>>) @@ ("linux" :> <<0>>) @@ ("dyn" :> <<0, 1>>) @@ ("shared" :> <<4>>)
MCBootTables == (0 :> 2) @@ (2 :> 3)
MCGarbage == [i \in 0..2 |-> 1]
MCScreen == <<6, 7>>
\* The pages named with MAP_FIXED: of the image, of the heap, of mappings or the screen.
MCFixed == {<<0, 0>>, <<2, 3>>, <<6, 6>>}

\* LinuxFiles: the sizes of its files, where it seeks to.  Web: what is typed into the address bar.
MCSizeOf == ("a" :> 3) @@ ("b" :> 1)
MCSeeks == {-1, 0, 2}
MCTyped == {[kind |-> "words", scheme |-> "none", host |-> "nohost", path |-> "/"],
            [kind |-> "url", scheme |-> "https", host |-> "bank", path |-> "/"]}

\* Files: what an initrd can hold: a directory, a name twice, more entries than
\* there is room for.
File(p, s) == [path |-> p, size |-> s]
MCArchives ==
    {<<File(<<3>>, 0), File(<<3, 1>>, 2), File(<<2>>, 5), File(<<1>>, 1), File(<<2>>, 3), File(<<4>>, 9)>>,
     <<File(<<1>>, 3), File(<<2>>, 3), File(<<3, 1>>, 1), File(<<3, 2>>, 4)>>}

\* Elf: segments that share a page, that are empty, that lie in disorder, that
\* hold more than they have room for or more than the file has.
Seg(t, o, v, f, m) == [type |-> t, off |-> o, vaddr |-> v, filesz |-> f, memsz |-> m]
Segments == {Seg("LOAD", 0, 2, 4, 4), Seg("LOAD", 0, 1, 5, 6), Seg("LOAD", 4, 6, 1, 1), Seg("LOAD", 4, 7, 2, 4),
             Seg("LOAD", 5, 3, 0, 2), Seg("LOAD", 5, 9, 2, 1), Seg("INTERP", 3, 0, 1, 1), Seg("INTERP", 5, 0, 3, 3)}
MCElfPrograms == {[magic |-> m, dyn |-> d, phoff |-> p, len |-> l, entry |-> 3, ph |-> h] :
               m \in BOOLEAN, d \in BOOLEAN, p \in {1, 2}, l \in {4, 6}, h \in UNION {[1..n -> Segments] : n \in 0..3}}
MCElfLinker == [magic |-> TRUE, dyn |-> TRUE, phoff |-> 1, len |-> 4, entry |-> 1,
           ph |-> <<Seg("LOAD", 0, 0, 2, 3), Seg("LOAD", 2, 4, 2, 2)>>]

\* Tls: a root that is embedded, one that only has its name, certificates that
\* they and others signed, one that has run out.
Cert(s, i, k, b, n, t) == [subject |-> s, issuer |-> i, key |-> k, by |-> b, names |-> n, from |-> 1, to |-> t]
Root == Cert("R", "R", "kR", "kR", {}, 2)
Cross == Cert("R", "X", "kR", "kX", {}, 2)
Fake == Cert("R", "R", "kF", "kF", {}, 2)
Inter == Cert("I", "R", "kI", "kR", {}, 2)
FakeInter == Cert("I", "R", "kJ", "kF", {}, 2)
Leaf == Cert("L", "I", "kL", "kI", {"a"}, 2)
BadLeaf == Cert("L", "I", "kL", "none", {"a"}, 2)
OldLeaf == Cert("L", "I", "kL", "kI", {"a"}, 1)
FakeLeaf == Cert("L", "I", "kL", "kJ", {"a"}, 2)
Certs == {Root, Cross, Fake, Inter, FakeInter, Leaf, BadLeaf, OldLeaf, FakeLeaf}
MCChains == {<<>>} \cup {<<l>> : l \in Certs} \cup {<<l, i>> : l \in Certs, i \in Certs}
          \cup {<<l, i, r>> : l \in {Leaf, BadLeaf, FakeLeaf}, i \in {Inter, FakeInter}, r \in {Root, Cross, Fake, Inter}}
Piece(m, l) == [msg |-> m, last |-> l]
MCAnchors == <<Cert("S", "S", "kS", "kS", {}, 2), Root>>
MCFlight == <<Piece("EE", TRUE), Piece("CERT", FALSE), Piece("CERT", TRUE), Piece("CV", TRUE),
              Piece("FIN", FALSE), Piece("FIN", TRUE)>>
MCResponse == <<1, 2, 3>>

CONSTANTS MaxTries, MaxRounds,  \* bounds of Eapol
          Conns, TcpSize, TcpGap, Mss, Window, ReqParts, TcpRoom, MaxFlight,  \* of Tcp
          NPorts, MAX_HID_DEVS, CMD, EVT, EvtWrap, TR, TR0, MaxReports, MaxChanges,  \* of Xhci
          N_DESC, MaxFrames,  \* of Nic
          ElfPrograms, ElfLinker, ElfPage, ElfTop, InterpBase, ProgBase,  \* of Elf
          BlockAlign, BlockHeader, ArenaBase, ArenaBytes, BlockSizes, BlockAligns,  \* of Heap
          LinuxPaths, SizeOf, Absent, MAX_OPEN, FbSize, Lens, Seeks, MaxCalls,  \* of LinuxFiles
          Sectors, DATA_MAX, SectorValues, Blank, Sig, SCRATCH_LBA,  \* of Ahci
          Archives, MAX_INODES, Descriptors, RowRoom, CHUNK, BUF, MaxDepth,  \* of Files
          Sites, Honest, Search, NoHost, WebPaths, TypedIn, MaxRedir, MaxHistory,  \* of Web
          TlsChains, Anchors, TlsHosts, TlsTimes, TlsFlight, TlsResponse, OutRoom, GUARD, MaxExtra  \* of Tls

\* A server's numbers do not run into those of the next.
ASSUME TcpAssumption ==
    /\ Conns \in Nat /\ TcpSize \in Nat /\ Mss \in Nat /\ ReqParts \in Nat /\ TcpRoom \in Nat
    /\ TcpGap \in Nat /\ TcpGap > TcpSize + 2

\* The rings of the USB controller have room for an entry and a link, and reads
\* begin behind the entries of control.  Those of a network card are not empty.
ASSUME XhciAssumption ==
    /\ CMD \in Nat /\ CMD >= 3 /\ EVT \in Nat \ {0} /\ EvtWrap \in 1..EVT
    /\ TR \in Nat /\ TR0 \in 2..(TR - 2)
    /\ NPorts \in Nat /\ MAX_HID_DEVS \in Nat /\ MaxReports \in Nat /\ MaxChanges \in Nat
ASSUME NicAssumption == N_DESC \in Nat \ {0} /\ MaxFrames \in Nat

\* Programs are files, and there is memory for the segments they ask for.
ElfHeader == [type : STRING, off : Nat, vaddr : Nat, filesz : Nat, memsz : Nat]
ElfFile == [magic : BOOLEAN, dyn : BOOLEAN, phoff : Nat, len : Nat, entry : Nat, ph : Seq(ElfHeader)]
ASSUME ElfAssumption ==
    /\ ElfPrograms \subseteq ElfFile /\ ElfLinker \in ElfFile
    /\ ElfPage \in Nat \ {0} /\ ElfTop \in Nat /\ InterpBase \in Nat /\ ProgBase \in Nat
    /\ \A f \in ElfPrograms : \A k \in DOMAIN f.ph : \A b \in {0, ProgBase} :
         ((f.ph[k].vaddr + b + f.ph[k].memsz + ElfPage - 1) \div ElfPage) * ElfPage <= ElfTop

\* The header of a free block fits into the smallest one, the arena is aligned and not
\* empty, and alignments divide each other.
ASSUME HeapAssumption ==
    /\ BlockAlign \in Nat \ {0} /\ BlockHeader \in 1..BlockAlign
    /\ ArenaBase \in Nat /\ ArenaBase % BlockAlign = 0 /\ ArenaBytes \in Nat /\ ArenaBytes >= BlockAlign
    /\ BlockSizes \subseteq Nat /\ BlockAligns \subseteq Nat \ {0}
    /\ \A a \in BlockAligns : IF a < BlockAlign THEN BlockAlign % a = 0 ELSE a % BlockAlign = 0

\* A file that is not there has a name of its own; the self-test's sector is on the disk.
ASSUME LinuxAssumption ==
    /\ SizeOf \in [LinuxPaths -> Nat] /\ Absent \notin LinuxPaths /\ MAX_OPEN \in Nat
    /\ FbSize \in Nat /\ Lens \subseteq Nat /\ Seeks \subseteq Int
ASSUME AhciAssumption ==
    /\ Sectors \in Nat /\ DATA_MAX \in Nat /\ SCRATCH_LBA \in 0..(Sectors - 1)
    /\ Blank \in SectorValues /\ Sig \in SectorValues

\* Archives are lists of entries that have a path and a size.
ASSUME FilesAssumption ==
    /\ Archives \subseteq Seq([path : Seq(Int) \ {<<>>}, size : Nat])
    /\ MAX_INODES \in Nat /\ Descriptors \subseteq Nat /\ RowRoom \in Nat /\ CHUNK \in Nat \ {0} /\ BUF \in Nat

\* The host of type-to-search resolves, "nohost" is no name, and what is typed is
\* an address or words.
ASSUME WebAssumption ==
    /\ Search \in Sites /\ Honest \subseteq Sites /\ NoHost \notin Sites /\ "/" \in WebPaths /\ MaxRedir \in Nat
    /\ TypedIn \subseteq [kind : {"url"}, scheme : {"none", "http", "https"}, host : Sites, path : WebPaths]
                        \cup [kind : {"words"}, scheme : {"none"}, host : {NoHost}, path : {"/"}]

\* Embedded roots have names of their own; the flight ends with the Finished
\* message and has no more records than the client reads (64), and there is room
\* for some of the response.
ASSUME TlsAssumption ==
    /\ \A j, k \in 1..Len(Anchors) : Anchors[j].subject = Anchors[k].subject => j = k
    /\ \A c \in TlsChains : \/ c = <<>>
                            \/ /\ Len(c) \in Nat \ {0}
                               /\ \A k \in 1..Len(c) : c[k].from \in Int /\ c[k].to \in Int
    /\ TlsTimes \subseteq Int
    /\ TlsFlight \in Seq([msg : {"SH", "EE", "CERT", "CV", "FIN"}, last : BOOLEAN])
    /\ \A k \in 1..Len(TlsFlight) : TlsFlight[k] = [msg |-> "FIN", last |-> TRUE] => k = Len(TlsFlight)
    /\ TlsResponse \in Seq(Int) /\ OutRoom \in Nat \ {0} /\ MaxExtra \in Nat
    /\ GUARD \in Nat /\ Len(TlsFlight) + MaxExtra <= GUARD

VARIABLES which,  \* the component whose steps this behaviour takes
          w1, w2, w3, w4, w5, w6, w7, w8, w9, w10, w11, w12, w13, w14

all == <<which, free, count, pt, level, spaces, linux, brk, mmap, surface,
                call, w1, w2, w3, w4, w5, w6, w7, w8, w9, w10, w11, w12, w13,
                w14>>

\* Keyboards: two Shift keys, the other modifiers, and the keys that are no letters,
\* with the interrupt and with USB reports.  Small rings and a small poll lose bytes.
Board(usb, keys) == [usb |-> usb, keys |-> {"q"} \cup keys]
Boards == {Board(FALSE, {"Back", "LShift", "RShift"}), Board(FALSE, {"Ctrl", "RCtrl", "Caps"}),
           Board(FALSE, {"Up", "Del", "AltGr"}), Board(TRUE, {"LShift", "Ctrl", "Caps"}),
           Board(TRUE, {"Up", "Home", "F1"})}
Keys == INSTANCE Input WITH Letters <- {"q"}, ThirdLevel <- {"q"}, Keyboards <- Boards,
                            Moves <- {-4, 1}, RING_SIZE <- 7, LKEYS_SZ <- 2, KBD_BUF_SIZE <- 2,
                            FRAME <- 4, WIDTH <- 4, MaxEvents <- 4,
                            wire <- free, keyboard <- count, held <- pt, lock <- level,
                            flags <- spaces, ring <- linux, kbd <- brk, lkeys <- mmap,
                            preempt <- surface, abi <- call, raw <- w1, parser <- w2,
                            got <- w3, pressed <- w4, mouse <- w5, pointer <- w6,
                            edge <- w7, lost <- w8, damaged <- w9, odd <- w10, events <- w11
Part == INSTANCE KernelParts WITH
          Programs <- ElfPrograms, Linker <- ElfLinker, PAGE <- ElfPage, Top <- ElfTop,
          INTERP_BASE <- InterpBase, PROG_BASE <- ProgBase,
          prog <- free, seg <- count, phase <- pt, mem <- level, entry <- spaces,
          Files <- LinuxPaths, FDS <- free, fbOff <- count, nextTid <- pt,
          rawKbd <- level, abi <- spaces, RESTART_DESKTOP <- linux, mode <- brk,
          held <- mmap, broken <- surface, tids <- call, ret <- w1, calls <- w2,
          Values <- SectorValues, READY <- free, disk <- count, data <- pt,
          ct <- level, PXCI <- spaces, tfes <- linux, tfd <- brk, drive <- mmap,
          halted <- surface, call <- call, answer <- w1, test <- w2,
          before <- w3, overdue <- w4,
          ROOM <- RowRoom, inodes <- free, deleted <- count, fd_table <- pt,
          job <- level, cwd <- spaces, entries <- linux, selected <- brk,
          sort_mode <- mmap, clipboard <- surface, open <- call, fresh <- w1,
          Paths <- WebPaths, Typed <- TypedIn, link <- free, trust <- count,
          answers <- pt, fetch <- level, bar <- spaces, page <- linux,
          security <- brk, shown <- mmap, history <- surface, fwd <- call,
          edited <- w1,
          Chains <- TlsChains, trust_anchors <- Anchors, Hosts <- TlsHosts,
          Times <- TlsTimes, Flight <- TlsFlight, Response <- TlsResponse,
          Space <- OutRoom, host <- free, now <- count, chain <- pt, st <- level,
          hsSent <- spaces, apSent <- linux, sealed <- brk, extra <- mmap,
          seq <- surface, hs_acc <- call, transcript <- w1, guard <- w2,
          sentReq <- w3, out <- w4, cut <- w5
Net == INSTANCE Tcp WITH Size <- TcpSize, Gap <- TcpGap, Room <- TcpRoom,
                         mode <- free, conn <- count,
                         kind <- pt, phase <- level, rcv <- spaces,
                         reqSent <- linux, pendingFin <- brk, closed <- mmap,
                         got <- surface, result <- call, srv <- w1, toC <- w2,
                         toS <- w3
Wire == INSTANCE WireProofs WITH
          Size <- TcpSize, Gap <- TcpGap, Room <- TcpRoom,
          mode <- free, conn <- count, kind <- pt, phase <- level, rcv <- spaces,
          reqSent <- linux, pendingFin <- brk, closed <- mmap, got <- surface,
          result <- call, srv <- w1, toC <- w2, toS <- w3,
          cmd <- free, evt <- count, tr <- pt, drv <- level, hw <- spaces,
          dev <- linux, pc <- brk, hids <- mmap, late <- surface, changes <- call,
          card <- free, rx <- count, head <- pt, tail <- level, RX_IDX <- spaces,
          taken <- linux, read <- brk, tx <- mmap, txHead <- surface, TDT <- call,
          TX_IDX <- w1, confirm <- w2, sent <- w3, wire <- w4, stuck <- w5
Wpa == INSTANCE Eapol WITH MaxTries <- MaxTries, MaxRounds <- MaxRounds, sup <- free,
                           keys <- count, ap <- pt, toSta <- level,
                           toAp <- spaces, tries <- linux
Field == INSTANCE P256 WITH W <- 1, N <- 197,
                            Operands <- {0, 1, 2, 77, 127, 128, 196, 198},
                            x <- free, m <- count, v <- pt, y <- level
\* Products as those of Curve's fields should be.
TimesModP(a, b) == (a * b) % 11
TimesModN(a, b) == (a * b) % 7
Points == INSTANCE Curve WITH P <- 11, B <- 10, N <- 7, G <- <<2, 1>>,
                              fp_mul <- TimesModP, fn_mul <- TimesModN,
                              Bits <- 4, Hashes <- {1, 3, 6, 7, 10, 15},
                              key <- free, sig <- count, accepted <- pt
Space == INSTANCE Heap WITH ALIGN <- BlockAlign, HDR <- BlockHeader, BASE <- ArenaBase, BYTES <- ArenaBytes,
                            Sizes <- BlockSizes, Aligns <- BlockAligns,
                            inited <- free, list <- count, live <- pt,
                            held <- level, refused <- spaces
Powers == INSTANCE Bignum WITH L <- 2, Moduli <- {3, 5, 7, 9, 13, 15},
                               Bases <- {0, 1, 2, 6, 11, 14, 15, 29},
                               Exponents <- {<<0, 0>>, <<0, 1, 1>>, <<1, 0, 1>>, <<1, 1, 0>>, <<1>>},
                               n <- free, base <- count, a_mont <- pt,
                               result <- level, started <- spaces,
                               left <- linux, e <- brk, out <- mmap

\* What a part with so many variables leaves alone, and how that begins.
Rest3 == <<level, spaces, linux, brk, mmap, surface, call, w1, w2, w3, w4, w5,
           w6, w7, w8, w9, w10, w11, w12, w13, w14>>
Rest4 == <<spaces, linux, brk, mmap, surface, call, w1, w2, w3, w4, w5, w6,
           w7, w8, w9, w10, w11, w12, w13, w14>>
Rest5 == <<linux, brk, mmap, surface, call, w1, w2, w3, w4, w5, w6, w7, w8,
           w9, w10, w11, w12, w13, w14>>
Rest6 == <<brk, mmap, surface, call, w1, w2, w3, w4, w5, w6, w7, w8, w9, w10,
           w11, w12, w13, w14>>
Rest8 == <<surface, call, w1, w2, w3, w4, w5, w6, w7, w8, w9, w10, w11, w12,
           w13, w14>>
Rest10 == <<w1, w2, w3, w4, w5, w6, w7, w8, w9, w10, w11, w12, w13, w14>>
Rest11 == <<w2, w3, w4, w5, w6, w7, w8, w9, w10, w11, w12, w13, w14>>
Rest12 == <<w3, w4, w5, w6, w7, w8, w9, w10, w11, w12, w13, w14>>
Rest13 == <<w4, w5, w6, w7, w8, w9, w10, w11, w12, w13, w14>>
Rest14 == <<w5, w6, w7, w8, w9, w10, w11, w12, w13, w14>>
Rest15 == <<w6, w7, w8, w9, w10, w11, w12, w13, w14>>
Rest21 == <<w12, w13, w14>>
Unused21 == w12 = 0 /\ w13 = 0 /\ w14 = 0
Unused15 == w6 = 0 /\ w7 = 0 /\ w8 = 0 /\ w9 = 0 /\ w10 = 0 /\ w11 = 0 /\ Unused21
Unused14 == w5 = 0 /\ Unused15
Unused13 == w4 = 0 /\ Unused14
Unused12 == w3 = 0 /\ Unused13
Unused11 == w2 = 0 /\ Unused12
Unused10 == w1 = 0 /\ Unused11
Unused8 == surface = 0 /\ call = 0 /\ Unused10
Unused6 == brk = 0 /\ mmap = 0 /\ Unused8
Unused5 == linux = 0 /\ Unused6
Unused4 == spaces = 0 /\ Unused5
Unused3 == level = 0 /\ Unused4

PartInit ==
    \/ which = "memory" /\ Init /\ Unused10
    \/ which = "xhci" /\ Wire!Usb!Init /\ Unused10
    \/ which = "input" /\ Keys!Init /\ Unused21
    \/ which = "linux" /\ Part!Linux!Init /\ Unused12
    \/ which = "files" /\ Part!Disk!Init /\ Unused11
    \/ which = "elf" /\ Part!Exec!Init /\ Unused5
    \/ which = "tcp" /\ Net!Init /\ Unused13
    \/ which = "web" /\ Part!Fetch!Init /\ Unused11
    \/ which = "tls" /\ Part!Ssl!Init /\ Unused15
    \/ which = "eapol" /\ Wpa!Init /\ Unused6
    \/ which = "nic" /\ Wire!Card!Init /\ Unused15
    \/ which = "p256" /\ Field!Init /\ Unused4
    \/ which = "curve" /\ Points!Init /\ Unused3
    \/ which = "heap" /\ Space!Init /\ Unused5
    \/ which = "ahci" /\ Part!Sata!Init /\ Unused14
    \/ which = "bignum" /\ Powers!Init /\ Unused8
PartNext ==
    \/ which = "memory" /\ Next /\ UNCHANGED <<which, Rest10>>
    \/ which = "xhci" /\ Wire!Usb!Next /\ UNCHANGED <<which, Rest10>>
    \/ which = "input" /\ Keys!Next /\ UNCHANGED <<which, Rest21>>
    \/ which = "linux" /\ Part!Linux!Next /\ UNCHANGED <<which, Rest12>>
    \/ which = "files" /\ Part!Disk!Next /\ UNCHANGED <<which, Rest11>>
    \/ which = "elf" /\ Part!Exec!Next /\ UNCHANGED <<which, Rest5>>
    \/ which = "tcp" /\ Net!Next /\ UNCHANGED <<which, Rest13>>
    \/ which = "web" /\ Part!Fetch!Next /\ UNCHANGED <<which, Rest11>>
    \/ which = "tls" /\ Part!Ssl!Next /\ UNCHANGED <<which, Rest15>>
    \/ which = "eapol" /\ Wpa!Next /\ UNCHANGED <<which, Rest6>>
    \/ which = "nic" /\ Wire!Card!Next /\ UNCHANGED <<which, Rest15>>
    \/ which = "p256" /\ Field!Next /\ UNCHANGED <<which, Rest4>>
    \/ which = "curve" /\ Points!Next /\ UNCHANGED <<which, Rest3>>
    \/ which = "heap" /\ Space!Next /\ UNCHANGED <<which, Rest5>>
    \/ which = "ahci" /\ Part!Sata!Next /\ UNCHANGED <<which, Rest14>>
    \/ which = "bignum" /\ Powers!Next /\ UNCHANGED <<which, Rest8>>

\* The fairness of the parts that promise something: see Tcp and Web.
Fair == /\ WF_all(which = "tcp" /\ Net!Poll /\ UNCHANGED <<which, Rest13>>)
        /\ WF_all(which = "tcp" /\ Net!Send /\ UNCHANGED <<which, Rest13>>)
        /\ WF_all(which = "tcp" /\ Net!RecvCall /\ UNCHANGED <<which, Rest13>>)
        /\ WF_all(which = "tcp" /\ Net!SrvTake /\ UNCHANGED <<which, Rest13>>)
        /\ \A s \in 1..Conns : WF_all(which = "tcp" /\ Net!SrvSends(s) /\ UNCHANGED <<which, Rest13>>)
        /\ WF_all(which = "web" /\ Part!Fetch!Kernel /\ UNCHANGED <<which, Rest11>>)
        /\ WF_all(which = "web" /\ Part!Fetch!Returns /\ UNCHANGED <<which, Rest11>>)

Services == PartInit /\ [][PartNext]_all /\ Fair

\* Bounds.  A network that loses and reorders holds few frames, and is followed no
\* further once the last call has returned; nothing is promised of the USB rings
\* after a wait that timed out.
Bounds == /\ which = "tcp" /\ free = "lossy" =>
                 Len(w2) + Len(w3) <= 2 /\ (count < Conns \/ level # "idle")
          /\ which = "xhci" => ~surface

------------------------------------------------------------------------------
\* The states of all parts have their types.
TypesOK ==
    CASE which = "memory" -> TypeOK
      [] which = "xhci" -> Wire!Usb!TypeOK
      [] which = "input" -> Keys!TypeOK
      [] which = "linux" -> Part!Linux!TypeOK
      [] which = "files" -> Part!Disk!TypeOK
      [] which = "elf" -> Part!Exec!TypeOK
      [] which = "tcp" -> Net!TypeOK
      [] which = "web" -> Part!Fetch!TypeOK
      [] which = "tls" -> Part!Ssl!TypeOK
      [] which = "eapol" -> Wpa!TypeOK
      [] which = "nic" -> Wire!Card!TypeOK
      [] which = "p256" -> Field!TypeOK
      [] which = "curve" -> Points!TypeOK
      [] which = "bignum" -> Powers!TypeOK
      [] which = "heap" -> Space!TypeOK
      [] which = "ahci" -> Part!Sata!TypeOK

\* The heap of the desktop neither loses nor doubles a byte, and refuses only what
\* does not fit: see Heap.
HeapCounted == which = "heap" => Space!BlocksApart /\ Space!NothingLost
                                 /\ Space!Coalesced /\ Space!RefusedRightly

\* The frame allocator's counter is the number of its free bits, and no frame is
\* free while it is part of a table or mapped.  A program reaches the kernel, its
\* own frames and nothing of another's, whatever addresses it asks for.  The heap
\* of the Linux process stays where it is, unless the program maps over it: see
\* Memory.
SpacesIsolated == /\ [](which = "memory" => CountAgrees /\ Isolation)
                  /\ [][which = "memory" => HeapKept]_all

\* xHCI, while no wait timed out: a completion goes to the command that waits for it,
\* a queued read is the controller's to fill, and no other entry is, but for those
\* that were never written: see Xhci.  The rings of the network card hand over every
\* frame once and in order.
RingsAgree == /\ which = "xhci" => Wire!Usb!RingsFollow
              /\ which = "nic" => Wire!Card!RingsInOrder

\* What is typed reaches the focused window once, in order and with its modifiers,
\* but for the keys that the code does not hear; bytes that find no room spoil at
\* most the next key.  A click between two frames is seen by the next.  See Input.
KeysArrive == /\ [](which = "input" => Keys!KeysArrive /\ Keys!LossIsLocal)
              /\ [][which = "input" => Keys!PressesSeen]_all

\* The reads of Linux programs give what POSIX says, with the exceptions that
\* LinuxFiles names; the file
\* manager lists what is there and a read of the shell gives the file's bytes.
\* What the disk driver answers is true of the disk.
FilesKept == /\ which = "linux" => Part!Linux!DescriptorsKept
             /\ which = "files" => Part!Disk!ListShown /\ Part!Disk!ReadsRight
             /\ which = "ahci" => Part!Sata!AnswersTrue

\* A program is in memory as its file has it when it is entered.
ImageRight == which = "elf" => Part!Exec!ImageRight

\* The server believes nothing read that the caller was not given.
AckedWasRead == which = "tcp" => Net!AckedWasRead

\* The client of TCP hands its callers a byte stream: ByteStream.
ImplementsStream ==
    /\ which = "tcp" => Net!Stream!Init
    /\ [][which = "tcp" => Net!Stream!Next \/ UNCHANGED <<Net!Stream!vars>>]_all

\* Every fetch over a network that keeps its frames, and every page that is
\* asked for, comes to an end.
FetchesEnd == /\ \A c \in 1..Conns :
                   (which = "tcp" /\ Net!Waits(c)) ~> (which # "tcp" \/ Net!Over(c))
              /\ (which = "web" /\ linux = "loading") ~> (which # "web" \/ Part!Fetch!Ready)

\* The padlock is shown for a page only if it came through TLS from a server that
\* presented a chain to an embedded root, good for the name that was asked for, and
\* a response is given out in order.  That the server holds the key of its chain is
\* not checked by the code and not claimed: see Web and Tls.
\* Back and forward move along one line of pages, the one that the bar shows.
TrustEarned == /\ [](which = "web" => Part!Fetch!LockIsTrue /\ Part!Fetch!SentToNamed /\ Part!Fetch!LineSound)
               /\ [](which = "tls" => Part!Ssl!HandshakeIsRight /\ Part!Ssl!ResponseInOrder)
               /\ [][which = "web" => Part!Fetch!LineKept]_all

\* Station and access point install the same key, whatever is repeated.
KeysAgree == which = "eapol" => Wpa!KeysAgree

\* The arithmetic below the certificates is that of numbers: sums and wide
\* products of the limbs of P-256, powers of the RSA numbers.  The formulas for
\* the points and signatures of P-256 would be right over products that are right;
\* those of the code are not (run p256_products), so nothing is said of what
\* its verify answers.
ArithmeticRight == /\ which = "p256" => Field!SumsRight
                   /\ which = "curve" => Points!FormulasRight
                   /\ which = "bignum" => Powers!PowersRight
==============================================================================
