----------------------------- MODULE WireProofs ------------------------------
(***************************************************************************)
(* What comes over wires: the kernel's TCP client, whose proofs are first,   *)
(* the rings of the USB controller and those of the network cards.           *)
(*                                                                           *)
(* The TCP client, over any number of connections, responses of any length   *)
(* and segments of any size: what it acknowledges it has handed to its       *)
(* caller, and it implements ByteStream.                                     *)
(*                                                                           *)
(* Neither is inductive.  Both rest on where rcv_nxt is (ReadOK): a frame    *)
(* that is late from an earlier connection may have set it to the numbers of *)
(* another server, so it is known only that it lies in the numbers of one of *)
(* them, and these are apart.  A FIN of the one-shot fetch, which is taken   *)
(* wherever it lies, needs that over a network that keeps its frames the     *)
(* segments on their way follow each other without a gap, and that nothing   *)
(* of an earlier connection is among them (InOrderOK).                       *)
(***************************************************************************)
EXTENDS Tcp, FiniteSetTheorems, FunctionTheorems, SequenceTheorems, TLAPS

CONSTANTS NPorts, MAX_HID_DEVS, CMD, EVT, EvtWrap, TR, TR0, MaxReports, MaxChanges,  \* of Xhci
          N_DESC, MaxFrames  \* of Nic

VARIABLES cmd, evt, tr, drv, hw, dev, pc, hids, late, changes,      \* of Xhci
          card, rx, head, tail, RX_IDX, taken, read, tx, txHead, TDT, TX_IDX,
          confirm, sent, wire, stuck                                \* of Nic

Usb == INSTANCE Xhci
Card == INSTANCE Nic WITH N <- N_DESC, got <- read

TcpConstants ==
  /\ Conns \in Nat /\ Size \in Nat /\ Mss \in Nat /\ ReqParts \in Nat /\ Room \in Nat
  /\ Gap \in Nat /\ Gap > Size + 2

TcpFrames == [src : Servers, syn : BOOLEAN, fin : BOOLEAN, rst : BOOLEAN, seq : Nat,
           ackOf : Kinds \cup {"none"}, len : Nat]
Asked == [dst : Servers, what : {"syn"}, ack : Kinds, part : Nat]
         \cup [dst : Servers, what : {"ack", "req", "fin"}, ack : Nat \ {0}, part : Nat]
Machines == [st : {"listen", "synrcvd", "established", "dead"}, k : Kinds, una : Nat,
             nxt : Nat, req : Nat, parts : Nat]

Typed ==
  /\ TypeOK
  /\ srv \in [Servers -> Machines]
  /\ toC \in Seq(TcpFrames) /\ toS \in Seq(Asked)

\* The call in progress and the results of those before.
CallOK ==
  /\ phase # "idle" => conn > 0 /\ result[conn] = "none"
  /\ phase = "syn" => rcv = 0
  /\ phase \in {"ready", "recv"} => rcv # 0
  /\ phase = "ready" => kind = "tls"
  /\ conn = 0 => rcv = 0
  /\ \A c \in Servers : c > conn => result[c] = "none"
  /\ conn > 0 /\ result[conn] = "refused" => rcv = 0
  /\ rcv = 0 => got = <<>> /\ ~pendingFin /\ (conn > 0 => result[conn] # "eof")
  /\ pendingFin => kind = "tls"

\* What a server has sent and what it believes was read.
ServerOK(s, t, c) ==
  /\ t.st = "listen" => t.una = 0 /\ t.nxt = 0
  /\ t.st # "listen" => /\ s <= c /\ Isn(s) <= t.una /\ t.una <= t.nxt
                        /\ Isn(s) + 1 <= t.nxt /\ t.nxt <= FinSeq(s) + 1
  /\ t.st = "synrcvd" => t.nxt = Isn(s) + 1
  /\ t.st = "established" => Isn(s) + 1 <= t.una
  /\ t.nxt > Isn(s) + 1 => Isn(s) + 1 <= t.una
ServersOK == \A s \in Servers : ServerOK(s, srv[s], conn)

\* A frame with bytes or with a FIN.
Data(f) == f.len > 0 \/ f.fin
FrameOK(f, c, t) ==
  /\ f.src <= c
  /\ f.syn => f.seq = Isn(f.src) /\ ~Data(f) /\ ~f.rst /\ t.st # "listen"
  /\ Data(f) => /\ ~f.syn /\ ~f.rst
                /\ Isn(f.src) + 1 <= f.seq /\ f.seq + f.len <= FinSeq(f.src)
                /\ f.fin => f.seq + f.len = FinSeq(f.src)
                /\ SegEnd(f) <= t.nxt
FramesOK == \A i \in 1..Len(toC) : FrameOK(toC[i], conn, srv[toC[i].src])

\* Acknowledgements on their way, and those that arrived.
AskedOK(g, c, r) == g.dst <= c /\ (g.dst = c /\ g.what # "syn" => g.ack <= r)
AcksOK == \A j \in 1..Len(toS) : AskedOK(toS[j], conn, rcv)
BelievedOK == conn > 0 => srv[conn].una <= Isn(conn) \/ srv[conn].una <= rcv

\* The numbers of server s that the client is at.
Counted(s, r) == Smaller(r - Isn(s) - 1, Size)
At(s) ==
  /\ Isn(s) + 1 <= rcv /\ rcv <= FinSeq(s) + 1
  /\ Len(got) <= Size /\ \A i \in 1..Len(got) : got[i] = Byte(s, i)
  /\ kind = "tls" => Len(got) = Counted(s, rcv) /\ (pendingFin => rcv = FinSeq(s) + 1)
  /\ kind = "http" => /\ result[conn] = "none" => rcv <= FinSeq(s)
                      /\ result[conn] # "eof" \/ CleanStart => Len(got) = Smaller(Counted(s, rcv), Room)
  /\ result[conn] = "eof" /\ (kind = "tls" \/ CleanStart) => rcv = FinSeq(s) + 1
ReadOK == rcv # 0 => \E s \in 1..conn : At(s)

\* Over a network that keeps its frames, after calls that ended well.
OnlyThis ==
  /\ \A i \in 1..Len(toC) : Data(toC[i]) => toC[i].src = conn
  /\ \A s \in 1..(conn - 1) :
       /\ srv[s].st = "established" => srv[s].nxt = FinSeq(s) + 1
       /\ srv[s].st \in {"listen", "synrcvd"} =>
            \A j \in 1..Len(toS) : toS[j].dst = s => toS[j].what = "syn"
NoGap ==
  conn > 0 /\ Isn(conn) + 1 <= rcv =>
    /\ rcv <= srv[conn].nxt
    /\ \A i \in 1..Len(toC) : Data(toC[i]) => rcv <= toC[i].seq
    /\ \A i, j \in 1..Len(toC) : i < j /\ Data(toC[i]) /\ Data(toC[j]) => SegEnd(toC[i]) <= toC[j].seq
    /\ \A q \in Nat : rcv <= q /\ q < srv[conn].nxt =>
         \E i \in 1..Len(toC) : Data(toC[i]) /\ toC[i].seq <= q /\ q < SegEnd(toC[i])
\* What ends a connection came from its own server.
OwnEnd == conn > 0 /\ rcv <= Isn(conn) => ~pendingFin /\ result[conn] # "eof"
InOrderOK == CleanStart => OnlyThis /\ NoGap /\ OwnEnd

TcpInv == /\ Typed /\ CallOK /\ ServersOK /\ FramesOK /\ AcksOK /\ BelievedOK /\ ReadOK
          /\ InOrderOK
------------------------------------------------------------------------------
(* Numbers and queues.                                                       *)

LEMMA IsnFacts ==
  ASSUME TcpConstants
  PROVE  /\ \A s \in Nat : Isn(s) \in Nat /\ FinSeq(s) = Isn(s) + Size + 1
         /\ \A s, t \in Nat : s < t => Isn(s) + Size + 2 < Isn(t)
         /\ \A s \in Nat : s > 0 => Isn(s) > Size + 2
<1>1. \A s \in Nat : Isn(s) \in Nat
  BY DEF TcpConstants, Isn
<1>2. \A s, t \in Nat : s < t => Isn(s) + Gap <= Isn(t)
  <2> SUFFICES ASSUME NEW s \in Nat, NEW t \in Nat, s < t
               PROVE  Isn(s) + Gap <= Isn(t)
    OBVIOUS
  <2> DEFINE k == t - s - 1
  <2>1. k \in Nat /\ t = s + 1 + k
    OBVIOUS
  <2> HIDE DEF k
  <2>2. k * Gap \in Nat
    BY <2>1 DEF TcpConstants
  <2>3. (s + 1 + k) * Gap = s * Gap + Gap + k * Gap
    BY <2>1 DEF TcpConstants
  <2>4. s * Gap \in Nat /\ Gap \in Nat
    BY DEF TcpConstants
  <2> QED BY <2>1, <2>2, <2>3, <2>4 DEF Isn
<1>3. Isn(0) = 0
  BY DEF TcpConstants, Isn
<1> QED BY <1>1, <1>2, <1>3 DEF TcpConstants, FinSeq

\* Taking an element out of a queue.
LEMMA WithoutFacts ==
  ASSUME NEW T, NEW q \in Seq(T), NEW i \in 1..Len(q)
  PROVE  /\ Without(q, i) \in Seq(T)
         /\ Len(Without(q, i)) = Len(q) - 1
         /\ \A j \in 1..(Len(q) - 1) : Without(q, i)[j] = q[IF j < i THEN j ELSE j + 1]
<1> DEFINE a == SubSeq(q, 1, i - 1)
           b == SubSeq(q, i + 1, Len(q))
<1>1. a \in Seq(T) /\ Len(a) = i - 1 /\ \A j \in 1..(i - 1) : a[j] = q[j]
  OBVIOUS
<1>2. b \in Seq(T) /\ Len(b) = Len(q) - i /\ \A j \in 1..(Len(q) - i) : b[j] = q[i + j]
  OBVIOUS
<1>3. Without(q, i) = a \o b
  BY DEF Without
<1> HIDE DEF a, b
<1>4. /\ a \o b \in Seq(T) /\ Len(a \o b) = Len(a) + Len(b)
      /\ \A j \in 1..(Len(a) + Len(b)) : (a \o b)[j] = IF j <= Len(a) THEN a[j] ELSE b[j - Len(a)]
  <2>1. a \in Seq(T) /\ b \in Seq(T)
    BY <1>1, <1>2
  <2> QED BY <2>1, ConcatProperties
<1>5. \A j \in 1..(Len(q) - 1) : (a \o b)[j] = q[IF j < i THEN j ELSE j + 1]
  <2> TAKE j \in 1..(Len(q) - 1)
  <2>1. CASE j < i
    BY <2>1, <1>1, <1>2, <1>4
  <2>2. CASE ~(j < i)
    <3>1. (a \o b)[j] = b[j - (i - 1)]
      BY <2>2, <1>1, <1>2, <1>4
    <3>2. j - (i - 1) \in 1..(Len(q) - i) /\ i + (j - (i - 1)) = j + 1
      BY <2>2
    <3> QED BY <3>1, <3>2, <1>2, <2>2
  <2> QED BY <2>1, <2>2
<1> QED BY <1>1, <1>2, <1>3, <1>4, <1>5


\* A frame that is taken or lost leaves the others as they are.
LEMMA Taken ==
  ASSUME toC \in Seq(TcpFrames), FramesOK, NEW i \in 1..Len(toC), toC' = Without(toC, i),
         UNCHANGED <<conn, srv>>
  PROVE  toC' \in Seq(TcpFrames) /\ FramesOK'
<1>2. /\ toC' \in Seq(TcpFrames) /\ Len(toC') = Len(toC) - 1
      /\ \A j \in 1..(Len(toC) - 1) : toC'[j] = toC[IF j < i THEN j ELSE j + 1]
  BY WithoutFacts
<1>3. ASSUME NEW j \in 1..Len(toC')
      PROVE  FrameOK(toC'[j], conn, srv[toC'[j].src])
  <2> DEFINE m == IF j < i THEN j ELSE j + 1
  <2>1. m \in 1..Len(toC) /\ toC'[j] = toC[m]
    BY <1>2
  <2> HIDE DEF m
  <2> QED BY <2>1 DEF FramesOK
<1> QED BY <1>2, <1>3 DEF FramesOK

\* A frame that is sent.
LEMMA Sent ==
  ASSUME toC \in Seq(TcpFrames), NEW f \in TcpFrames, toC' = Append(toC, f),
         \A j \in 1..Len(toC) : FrameOK(toC[j], conn', srv'[toC[j].src]),
         FrameOK(f, conn', srv'[f.src])
  PROVE  toC' \in Seq(TcpFrames) /\ FramesOK'
<1>2. /\ toC' \in Seq(TcpFrames) /\ Len(toC') = Len(toC) + 1
      /\ \A j \in 1..Len(toC) : toC'[j] = toC[j]
      /\ toC'[Len(toC) + 1] = f
  OBVIOUS
<1>3. ASSUME NEW j \in 1..Len(toC')
      PROVE  FrameOK(toC'[j], conn', srv'[toC'[j].src])
  <2>1. CASE j = Len(toC) + 1
    BY <2>1, <1>2
  <2>2. CASE j \in 1..Len(toC)
    BY <2>2, <1>2
  <2> QED BY <2>1, <2>2, <1>2
<1> QED BY <1>2, <1>3 DEF FramesOK

\* What the client sends on its connection.
LEMMA Answered ==
  ASSUME Typed, AcksOK, conn' = conn, rcv' \in Nat, rcv <= rcv', NEW new \in Seq(Asked),
         \A j \in 1..Len(new) : new[j].dst = conn /\ new[j].what # "syn" /\ new[j].ack <= rcv',
         toS' = toS \o new
  PROVE  /\ toS' \in Seq(Asked) /\ AcksOK'
         /\ \A j \in 1..Len(toS') : toS'[j].dst # conn => \E k \in 1..Len(toS) : toS'[j] = toS[k]
<1>1. toS \in Seq(Asked) /\ rcv \in Nat /\ conn \in Nat
  BY DEF Typed, TypeOK
<1>2. /\ toS' \in Seq(Asked) /\ Len(toS') = Len(toS) + Len(new)
      /\ \A j \in 1..(Len(toS) + Len(new)) :
           toS'[j] = IF j <= Len(toS) THEN toS[j] ELSE new[j - Len(toS)]
  BY <1>1
<1>3. ASSUME NEW j \in 1..Len(toS')
      PROVE  /\ AskedOK(toS'[j], conn, rcv')
             /\ toS'[j].dst # conn => \E k \in 1..Len(toS) : toS'[j] = toS[k]
  <2>1. CASE j <= Len(toS)
    <3>1. j \in 1..Len(toS) /\ toS'[j] = toS[j]
      BY <2>1, <1>1, <1>2
    <3>2. toS[j] \in Asked /\ AskedOK(toS[j], conn, rcv)
      BY <3>1, <1>1 DEF AcksOK
    <3>3. toS[j].what # "syn" => toS[j].ack \in Nat
      BY <3>2 DEF Asked
    <3> QED BY <3>1, <3>2, <3>3, <1>1 DEF AskedOK
  <2>2. CASE ~(j <= Len(toS))
    <3> DEFINE k == j - Len(toS)
    <3>1. k \in 1..Len(new) /\ toS'[j] = new[k]
      BY <2>2, <1>1, <1>2
    <3> HIDE DEF k
    <3> QED BY <3>1, <1>1 DEF AskedOK
  <2> QED BY <2>1, <2>2
<1> QED BY <1>2, <1>3 DEF AcksOK

------------------------------------------------------------------------------
(* Where the client is.                                                      *)

\* Numbers beyond the current server's SYN are the current server's.
LEMMA Here ==
  ASSUME TcpConstants, Typed, ReadOK, conn > 0, rcv > Isn(conn)
  PROVE  At(conn) /\ conn \in Servers
<1>1. /\ conn \in Nat /\ rcv \in Nat /\ conn \in Servers
      /\ Isn(conn) \in Nat
  BY IsnFacts DEF Typed, TypeOK, Servers, TcpConstants
<1>2. PICK s \in 1..conn : At(s)
  BY <1>1 DEF ReadOK
<1>3. CASE s = conn
  BY <1>1, <1>2, <1>3
<1>4. CASE s < conn
  <2>1. s \in Nat /\ Isn(s) \in Nat /\ Isn(s) + Size + 2 < Isn(conn) /\ FinSeq(s) = Isn(s) + Size + 1
    BY <1>1, <1>4, IsnFacts
  <2>2. rcv <= FinSeq(s) + 1 /\ Size \in Nat
    BY <1>2 DEF At, TcpConstants
  <2> QED BY <2>1, <2>2, <1>1
<1> QED BY <1>1, <1>3, <1>4

\* A frame of the queue, with what is known of its server.
LEMMA Frame ==
  ASSUME TcpConstants, Typed, FramesOK, NEW i \in 1..Len(toC)
  PROVE  /\ toC[i] \in TcpFrames /\ toC[i].src \in Servers /\ toC[i].src \in 1..conn
         /\ FrameOK(toC[i], conn, srv[toC[i].src])
         /\ Isn(toC[i].src) \in Nat /\ srv[toC[i].src] \in Machines
         /\ Data(toC[i]) => SegEnd(toC[i]) \in Nat /\ SegEnd(toC[i]) > toC[i].seq
<1>1. toC[i] \in TcpFrames /\ FrameOK(toC[i], conn, srv[toC[i].src]) /\ conn \in Nat
  BY DEF Typed, FramesOK, TypeOK
<1>2. toC[i].src \in Servers /\ toC[i].src \in Nat /\ toC[i].src \in 1..conn
  BY <1>1 DEF TcpFrames, FrameOK, Servers, TcpConstants
<1>3. Isn(toC[i].src) \in Nat /\ srv[toC[i].src] \in Machines
  BY <1>2, IsnFacts DEF Typed
<1>4. toC[i].len \in Nat /\ toC[i].seq \in Nat /\ toC[i].fin \in BOOLEAN
  BY <1>1 DEF TcpFrames
<1> QED BY <1>1, <1>2, <1>3, <1>4 DEF Data, SegEnd

\* As long as the client is not past the server's SYN, it sent no data.
LEMMA NoDataYet ==
  ASSUME TcpConstants, TcpInv, conn > 0, rcv <= Isn(conn)
  PROVE  /\ srv[conn].nxt <= Isn(conn) + 1
         /\ \A i \in 1..Len(toC) : Data(toC[i]) => toC[i].src # conn
<1>1. /\ conn \in Servers /\ conn \in Nat /\ rcv \in Nat /\ Isn(conn) \in Nat
      /\ srv[conn] \in Machines /\ srv[conn].una \in Nat /\ srv[conn].nxt \in Nat
  <2>1. Typed
    BY DEF TcpInv
  <2>2. conn \in Servers /\ conn \in Nat /\ rcv \in Nat
    BY <2>1 DEF Typed, TypeOK, Servers, TcpConstants
  <2>3. srv[conn] \in Machines
    BY <2>1, <2>2 DEF Typed
  <2> QED BY <2>2, <2>3, IsnFacts DEF Machines
<1>2. srv[conn].una <= Isn(conn)
  BY <1>1 DEF TcpInv, BelievedOK
<1>3. ServerOK(conn, srv[conn], conn)
  BY <1>1 DEF TcpInv, ServersOK
<1>4. srv[conn].nxt <= Isn(conn) + 1
  BY <1>1, <1>2, <1>3 DEF ServerOK
<1>5. ASSUME NEW i \in 1..Len(toC), Data(toC[i]), toC[i].src = conn
      PROVE  FALSE
  <2>1. /\ Isn(conn) + 1 <= toC[i].seq /\ SegEnd(toC[i]) <= srv[conn].nxt
        /\ SegEnd(toC[i]) \in Nat /\ SegEnd(toC[i]) > toC[i].seq
        /\ toC[i].seq \in Nat
    BY <1>5, Frame DEF TcpInv, FrameOK, TcpFrames
  <2> QED BY <2>1, <1>1, <1>4
<1> QED BY <1>4, <1>5

\* Over a network that keeps its frames the next data is the data that is due.
LEMMA HeadDue ==
  ASSUME TcpConstants, TcpInv, CleanStart, 1 \in 1..Len(toC), Data(toC[1])
  PROVE  conn > 0 /\ toC[1].src = conn /\ rcv > Isn(conn) /\ toC[1].seq = rcv
<1>1. /\ toC[1] \in TcpFrames /\ toC[1].src \in 1..conn /\ toC[1].src = conn
      /\ toC[1].seq \in Nat /\ SegEnd(toC[1]) \in Nat /\ SegEnd(toC[1]) > toC[1].seq
      /\ SegEnd(toC[1]) <= srv[toC[1].src].nxt
  BY Frame DEF TcpInv, InOrderOK, OnlyThis, FrameOK, TcpFrames
<1>2. conn > 0 /\ conn \in Servers /\ conn \in Nat /\ rcv \in Nat /\ Isn(conn) \in Nat
  BY <1>1, IsnFacts DEF TcpInv, Typed, TypeOK, Servers, TcpConstants
<1>3. rcv > Isn(conn)
  BY <1>1, <1>2, NoDataYet
<1>4. NoGap
  BY DEF TcpInv, InOrderOK
<1>5. /\ rcv <= toC[1].seq
      /\ \A j \in 1..Len(toC) : 1 < j /\ Data(toC[j]) => SegEnd(toC[1]) <= toC[j].seq
      /\ \A q \in Nat : rcv <= q /\ q < srv[conn].nxt =>
           \E i \in 1..Len(toC) : Data(toC[i]) /\ toC[i].seq <= q /\ q < SegEnd(toC[i])
  BY <1>1, <1>2, <1>3, <1>4 DEF NoGap
<1>6. ASSUME rcv < toC[1].seq PROVE FALSE
  <2>1. srv[conn].nxt \in Nat
    BY <1>2 DEF TcpInv, Typed, Machines
  <2>2. rcv < srv[conn].nxt
    BY <1>1, <1>2, <1>6, <2>1
  <2>3. PICK i \in 1..Len(toC) : Data(toC[i]) /\ toC[i].seq <= rcv /\ rcv < SegEnd(toC[i])
    BY <1>2, <1>5, <2>2
  <2>4. toC[i].seq \in Nat
    BY Frame DEF TcpInv, TcpFrames
  <2>5. i # 1
    BY <2>3, <1>6, <1>1, <1>2
  <2>6. SegEnd(toC[1]) <= toC[i].seq
    BY <2>3, <2>5, <1>5
  <2> QED BY <2>3, <2>4, <2>6, <1>1, <1>2, <1>6
<1> QED BY <1>1, <1>2, <1>3, <1>5, <1>6

\* The next frame, once looked at, leaves the data that is then due at the front.
LEMMA HeadGone ==
  ASSUME TcpConstants, TcpInv, CleanStart, 1 \in 1..Len(toC), toC' = Without(toC, 1),
         UNCHANGED <<conn, srv>>, rcv' \in Nat,
         rcv' = (IF Data(toC[1]) THEN SegEnd(toC[1]) ELSE rcv)
  PROVE  /\ \A i \in 1..Len(toC') : Data(toC'[i]) => toC'[i].src = conn
         /\ NoGap'
<1>1. /\ toC \in Seq(TcpFrames) /\ Len(toC') = Len(toC) - 1 /\ toC' \in Seq(TcpFrames)
      /\ \A j \in 1..Len(toC') : j + 1 \in 1..Len(toC) /\ toC'[j] = toC[j + 1]
  <2>1. toC \in Seq(TcpFrames)
    BY DEF TcpInv, Typed
  <2>2. /\ toC' \in Seq(TcpFrames) /\ Len(toC') = Len(toC) - 1
        /\ \A j \in 1..(Len(toC) - 1) : toC'[j] = toC[IF j < 1 THEN j ELSE j + 1]
    BY <2>1, WithoutFacts
  <2> QED BY <2>1, <2>2
<1>2. \A i \in 1..Len(toC') : Data(toC'[i]) => toC'[i].src = conn
  BY <1>1 DEF TcpInv, InOrderOK, OnlyThis
<1>3. /\ conn \in Nat /\ rcv \in Nat /\ (conn > 0 => Isn(conn) \in Nat /\ srv[conn].nxt \in Nat)
  <2>1. Typed
    BY DEF TcpInv
  <2>2. conn \in Nat /\ rcv \in Nat /\ (conn > 0 => conn \in Servers)
    BY <2>1 DEF Typed, TypeOK, Servers, TcpConstants
  <2>3. conn > 0 => srv[conn] \in Machines
    BY <2>1, <2>2 DEF Typed
  <2> QED BY <2>2, <2>3, IsnFacts DEF Machines
<1>4. ASSUME conn > 0, rcv' > Isn(conn), ~Data(toC[1])
      PROVE  NoGap'
  <2>1. /\ rcv <= srv[conn].nxt
        /\ \A i \in 1..Len(toC) : Data(toC[i]) => rcv <= toC[i].seq
        /\ \A i, j \in 1..Len(toC) :
             i < j /\ Data(toC[i]) /\ Data(toC[j]) => SegEnd(toC[i]) <= toC[j].seq
        /\ \A q \in Nat : rcv <= q /\ q < srv[conn].nxt =>
             \E i \in 1..Len(toC) : Data(toC[i]) /\ toC[i].seq <= q /\ q < SegEnd(toC[i])
    BY <1>3, <1>4 DEF TcpInv, InOrderOK, NoGap
  <2>2. \A i \in 1..Len(toC') : Data(toC'[i]) => rcv <= toC'[i].seq
    BY <1>1, <2>1
  <2>3. \A i, j \in 1..Len(toC') :
          i < j /\ Data(toC'[i]) /\ Data(toC'[j]) => SegEnd(toC'[i]) <= toC'[j].seq
    <3> SUFFICES ASSUME NEW i \in 1..Len(toC'), NEW j \in 1..Len(toC'), i < j,
                        Data(toC'[i]), Data(toC'[j])
                 PROVE  SegEnd(toC'[i]) <= toC'[j].seq
      OBVIOUS
    <3>1. i + 1 < j + 1 /\ i + 1 \in 1..Len(toC) /\ j + 1 \in 1..Len(toC)
      BY <1>1
    <3> QED BY <1>1, <2>1, <3>1
  <2>4. ASSUME NEW q \in Nat, rcv <= q, q < srv[conn].nxt
        PROVE  \E i \in 1..Len(toC') : Data(toC'[i]) /\ toC'[i].seq <= q /\ q < SegEnd(toC'[i])
    <3>1. PICK i \in 1..Len(toC) : Data(toC[i]) /\ toC[i].seq <= q /\ q < SegEnd(toC[i])
      BY <2>1, <2>4
    <3>2. i # 1
      BY <3>1, <1>4
    <3>3. i - 1 \in 1..Len(toC') /\ (i - 1) + 1 = i
      BY <3>2, <1>1
    <3>4. toC'[i - 1] = toC[i]
      BY <1>1, <3>3
    <3> QED BY <3>1, <3>3, <3>4
  <2> QED BY <2>1, <2>2, <2>3, <2>4, <1>4 DEF NoGap
<1>5. ASSUME Data(toC[1]) PROVE NoGap'
  <2>1. conn > 0 /\ toC[1].src = conn /\ rcv > Isn(conn) /\ toC[1].seq = rcv
    BY <1>5, HeadDue
  <2>2. /\ \A i, j \in 1..Len(toC) :
             i < j /\ Data(toC[i]) /\ Data(toC[j]) => SegEnd(toC[i]) <= toC[j].seq
        /\ \A q \in Nat : rcv <= q /\ q < srv[conn].nxt =>
             \E i \in 1..Len(toC) : Data(toC[i]) /\ toC[i].seq <= q /\ q < SegEnd(toC[i])
    BY <1>3, <2>1 DEF TcpInv, InOrderOK, NoGap
  <2>3. rcv' = SegEnd(toC[1]) /\ rcv < rcv' /\ rcv' <= srv[conn].nxt
    BY <1>5, <2>1, Frame DEF TcpInv, FrameOK
  <2>4. \A i \in 1..Len(toC') : Data(toC'[i]) => rcv' <= toC'[i].seq
    <3> SUFFICES ASSUME NEW i \in 1..Len(toC'), Data(toC'[i]) PROVE rcv' <= toC'[i].seq
      OBVIOUS
    <3>1. 1 < i + 1 /\ i + 1 \in 1..Len(toC) /\ toC'[i] = toC[i + 1]
      BY <1>1
    <3> QED BY <2>2, <2>3, <3>1, <1>5
  <2>5. \A i, j \in 1..Len(toC') :
          i < j /\ Data(toC'[i]) /\ Data(toC'[j]) => SegEnd(toC'[i]) <= toC'[j].seq
    <3> SUFFICES ASSUME NEW i \in 1..Len(toC'), NEW j \in 1..Len(toC'), i < j,
                        Data(toC'[i]), Data(toC'[j])
                 PROVE  SegEnd(toC'[i]) <= toC'[j].seq
      OBVIOUS
    <3>1. i + 1 < j + 1 /\ i + 1 \in 1..Len(toC) /\ j + 1 \in 1..Len(toC)
      BY <1>1
    <3> QED BY <1>1, <2>2, <3>1
  <2>6. ASSUME NEW q \in Nat, rcv' <= q, q < srv[conn].nxt
        PROVE  \E i \in 1..Len(toC') : Data(toC'[i]) /\ toC'[i].seq <= q /\ q < SegEnd(toC'[i])
    <3>0. rcv <= q
      BY <2>3, <2>6, <1>3
    <3>1. PICK i \in 1..Len(toC) : Data(toC[i]) /\ toC[i].seq <= q /\ q < SegEnd(toC[i])
      BY <2>2, <2>6, <3>0
    <3>2. i # 1
      BY <3>1, <2>3, <2>6
    <3>3. i - 1 \in 1..Len(toC') /\ (i - 1) + 1 = i
      BY <3>2, <1>1
    <3>4. toC'[i - 1] = toC[i]
      BY <1>1, <3>3
    <3> QED BY <3>1, <3>3, <3>4
  <2> QED BY <2>3, <2>4, <2>5, <2>6 DEF NoGap
<1>6. ASSUME ~Data(toC[1]), ~(conn > 0 /\ rcv' > Isn(conn))
      PROVE  NoGap'
  BY <1>3, <1>6 DEF NoGap
<1> QED BY <1>2, <1>4, <1>5, <1>6

------------------------------------------------------------------------------
(* Steps of the client.                                                      *)

\* The types of the variables a step of the client may change.
ClientTyped ==
  /\ mode \in {"inorder", "lossy"} /\ conn \in 0..Conns /\ kind \in Kinds
  /\ phase \in {"idle", "syn", "ready", "recv"}
  /\ rcv \in Nat /\ reqSent \in BOOLEAN /\ pendingFin \in BOOLEAN /\ closed \in BOOLEAN
  /\ got \in Seq(Servers \X (1..Size))

Results == {"none", "refused", "timeout", "eof", "reset", "closed"}

\* Every server but the one of the call is sent what it was sent.
OthersSame == \A j \in 1..Len(toS') : toS'[j].dst # conn => \E k \in 1..Len(toS) : toS'[j] = toS[k]

LEMMA Basics ==
  ASSUME TcpConstants, Typed
  PROVE  /\ conn \in Nat /\ conn <= Conns /\ rcv \in Nat /\ (conn > 0 => conn \in Servers)
         /\ Isn(conn) \in Nat /\ FinSeq(conn) = Isn(conn) + Size + 1
         /\ \A s \in Servers : /\ s \in Nat /\ s > 0 /\ Isn(s) \in Nat /\ Isn(s) > Size + 2
                               /\ FinSeq(s) = Isn(s) + Size + 1 /\ srv[s] \in Machines
                               /\ srv[s].una \in Nat /\ srv[s].nxt \in Nat
         /\ Size \in Nat /\ Room \in Nat /\ Mss \in Nat
<1>1. conn \in Nat /\ conn <= Conns /\ rcv \in Nat /\ (conn > 0 => conn \in Servers)
  BY DEF Typed, TypeOK, Servers, TcpConstants
<1>2. \A s \in Servers : s \in Nat /\ s > 0 /\ srv[s] \in Machines
  BY DEF Typed, Servers, TcpConstants
<1>3. \A s \in Servers : srv[s].una \in Nat /\ srv[s].nxt \in Nat
  BY <1>2 DEF Machines
<1>4. Size \in Nat /\ Room \in Nat /\ Mss \in Nat
  BY DEF TcpConstants
<1> QED BY <1>1, <1>2, <1>3, <1>4, IsnFacts

\* The result of the call is not among those CleanStart looks at.
LEMMA SameStart ==
  ASSUME TcpConstants, Typed, UNCHANGED <<mode, conn>>, NEW r \in Results,
         result' = result \/ result' = [result EXCEPT ![conn] = r]
  PROVE  /\ CleanStart' = CleanStart
         /\ result' \in [Servers -> Results]
         /\ \A c \in Servers : c # conn => result'[c] = result[c]
         /\ conn > 0 => result'[conn] \in {result[conn], r}
<1>1. result \in [Servers -> Results]
  BY DEF Typed, TypeOK, Results
<1>2. /\ result' \in [Servers -> Results]
      /\ \A c \in Servers : c # conn => result'[c] = result[c]
      /\ conn \in Servers => result'[conn] \in {result[conn], r}
  BY <1>1
<1>3. conn > 0 => conn \in Servers
  BY Basics
<1>4. \A c \in Servers : c < conn => result'[c] = result[c]
  BY <1>2, Basics
<1>5. CleanStart' = CleanStart
  <2>1. CleanStart <=> mode = "inorder" /\ \A c \in Servers : c < conn => result[c] \in {"refused", "eof"}
    BY DEF CleanStart
  <2>2. CleanStart' <=> mode = "inorder" /\ \A c \in Servers : c < conn => result'[c] \in {"refused", "eof"}
    BY DEF CleanStart
  <2>3. CleanStart <=> CleanStart'
    BY <1>4, <2>1, <2>2
  <2> QED BY <2>3 DEF CleanStart
<1> QED BY <1>2, <1>3, <1>5

\* A step that takes no frame: what was read stays as it is.
LEMMA CallKeeps ==
  ASSUME TcpConstants, TcpInv, conn > 0, result[conn] = "none",
         UNCHANGED <<mode, conn, kind, rcv, got, srv, toC>>,
         reqSent' \in BOOLEAN, closed' \in BOOLEAN, pendingFin' \in BOOLEAN,
         pendingFin' => pendingFin,
         NEW r \in {"timeout", "eof", "closed"},
         \/ result' = result /\ phase' \in {"ready", "recv"} /\ rcv # 0
            /\ (phase' = "ready" => kind = "tls")
         \/ result' = [result EXCEPT ![conn] = r] /\ phase' = "idle"
            /\ (r = "eof" => pendingFin),
         toS' \in Seq(Asked), AcksOK', OthersSame
  PROVE  TcpInv'
<1> USE DEF TcpInv
<1>1. Typed
  OBVIOUS
<1>2. /\ CleanStart' = CleanStart /\ result' \in [Servers -> Results]
      /\ \A c \in Servers : c # conn => result'[c] = result[c]
      /\ result'[conn] \in {result[conn], r} /\ conn \in Servers
  <2>1. r \in Results
    BY DEF Results
  <2> QED BY <1>1, <2>1, SameStart, Basics
<1>3. result'[conn] = "eof" => pendingFin
  BY <1>1, <1>2, Basics DEF Typed, TypeOK
<1>4. Typed'
  BY <1>1, <1>2 DEF Typed, TypeOK, Results
<1>5. CallOK'
  <2>1. \A c \in Servers : c > conn => result'[c] = "none"
    BY <1>1, <1>2, Basics DEF CallOK
  <2>2. /\ phase' \in {"ready", "recv"} => result'[conn] = "none"
        /\ result'[conn] # "refused"
    BY <1>2
  <2>3. phase' # "syn" /\ (phase' = "ready" => kind = "tls") /\ (phase' \in {"ready", "recv"} => rcv # 0)
        /\ phase' \in {"ready", "recv", "idle"}
    OBVIOUS
  <2> QED BY <1>3, <2>1, <2>2, <2>3 DEF CallOK
<1>6. ServersOK' /\ FramesOK' /\ BelievedOK'
  BY DEF ServersOK, FramesOK, BelievedOK
<1>7. ReadOK'
  <2> SUFFICES ASSUME rcv # 0 PROVE \E s \in 1..conn : At(s)'
    BY DEF ReadOK
  <2>1. PICK s \in 1..conn : At(s)
    BY DEF ReadOK
  <2>2. result'[conn] = "eof" => kind = "tls" /\ rcv = FinSeq(s) + 1
    BY <1>3, <2>1 DEF CallOK, At
  <2> QED BY <1>2, <2>1, <2>2 DEF At
<1>8. InOrderOK'
  <2> SUFFICES ASSUME CleanStart PROVE (OnlyThis /\ NoGap /\ OwnEnd)'
    BY <1>2 DEF InOrderOK
  <2>1. OnlyThis /\ NoGap /\ OwnEnd
    BY DEF InOrderOK
  <2>2. ASSUME NEW s \in 1..(conn - 1), srv[s].st \in {"listen", "synrcvd"},
               NEW j \in 1..Len(toS'), toS'[j].dst = s
        PROVE  toS'[j].what = "syn"
    <3>1. s # conn
      BY <1>1, Basics
    <3>2. PICK k \in 1..Len(toS) : toS'[j] = toS[k]
      BY <2>2, <3>1 DEF OthersSame
    <3> QED BY <2>1, <2>2, <3>2 DEF OnlyThis
  <2>3. OnlyThis'
    BY <2>1, <2>2 DEF OnlyThis
  <2>4. NoGap'
    BY <2>1 DEF NoGap
  <2>5. OwnEnd'
    BY <2>1, <1>3 DEF OwnEnd
  <2> QED BY <2>3, <2>4, <2>5
<1> QED BY <1>4, <1>5, <1>6, <1>7, <1>8

\* n segments of a request to c that acknowledge up to x.
Requested(q, c, x, n) ==
  /\ q \in Seq(Asked) /\ Len(q) = n
  /\ \A j \in 1..n : q[j].dst = c /\ q[j].what = "req" /\ q[j].ack = x

LEMMA Requests ==
  ASSUME NEW c \in Servers, NEW ack \in Nat \ {0}, NEW n \in Nat
  PROVE  Requested(Request(c, ack, n), c, ack, n)
<1>1. \A j \in 1..n : ToServer(c, "req", ack, j) \in Asked
  BY DEF ToServer, Asked
<1> QED BY <1>1 DEF Requested, Request, ToServer

LEMMA TimeoutKeeps == ASSUME TcpConstants, TcpInv, Timeout PROVE TcpInv'
<1>1. Typed /\ CallOK /\ AcksOK
  BY DEF TcpInv
<1>2. conn > 0 /\ result[conn] = "none"
  BY <1>1 DEF CallOK, Timeout
<1>3. toS' \in Seq(Asked) /\ AcksOK' /\ OthersSame
  BY <1>1 DEF Typed, AcksOK, OthersSame, Timeout
<1>4. /\ result' = [result EXCEPT ![conn] = "timeout"] /\ phase' = "idle"
      /\ UNCHANGED <<mode, conn, kind, rcv, reqSent, pendingFin, closed, got, srv, toC>>
  BY DEF Timeout, Return
<1>5. pendingFin' \in BOOLEAN /\ closed' \in BOOLEAN /\ reqSent' \in BOOLEAN
  BY <1>1, <1>4 DEF Typed, TypeOK
<1> QED BY <1>2, <1>3, <1>4, <1>5, CallKeeps

LEMMA SendKeeps == ASSUME TcpConstants, TcpInv, Send PROVE TcpInv'
<1>1. Typed /\ CallOK /\ AcksOK
  BY DEF TcpInv
<1>2. conn > 0 /\ conn \in Servers /\ result[conn] = "none" /\ rcv \in Nat \ {0} /\ kind = "tls"
  BY <1>1, Basics DEF CallOK, Send
<1>3. ReqParts \in Nat
  BY DEF TcpConstants
<1> DEFINE new == Request(conn, rcv, ReqParts)
<1>4. /\ new \in Seq(Asked)
      /\ \A j \in 1..Len(new) : new[j].dst = conn /\ new[j].what # "syn" /\ new[j].ack <= rcv
  <2>1. Requested(new, conn, rcv, ReqParts)
    BY <1>2, <1>3, Requests
  <2> HIDE DEF new
  <2> QED BY <2>1, <1>2, <1>3 DEF Requested
<1>5. rcv' = rcv /\ conn' = conn /\ toS' = toS \o new
  BY DEF Send
<1> HIDE DEF new
<1>6. toS' \in Seq(Asked) /\ AcksOK' /\ OthersSame
  BY <1>1, <1>2, <1>4, <1>5, Answered DEF OthersSame
<1>7. /\ UNCHANGED <<mode, conn, kind, rcv, got, srv, toC, closed, pendingFin, phase, result>>
      /\ reqSent' = TRUE /\ phase = "ready"
  BY DEF Send
<1>8. pendingFin' \in BOOLEAN /\ closed' \in BOOLEAN
  BY <1>1, <1>7 DEF Typed, TypeOK
<1>9. "timeout" \in {"timeout", "eof", "closed"}
  OBVIOUS
<1> QED BY <1>2, <1>6, <1>7, <1>8, <1>9, CallKeeps

LEMMA RecvCallKeeps == ASSUME TcpConstants, TcpInv, RecvCall PROVE TcpInv'
<1>1. Typed /\ CallOK /\ AcksOK
  BY DEF TcpInv
<1>2. conn > 0 /\ result[conn] = "none" /\ rcv # 0
  BY <1>1 DEF CallOK, RecvCall
<1>3. toS' \in Seq(Asked) /\ AcksOK' /\ OthersSame
  BY <1>1 DEF Typed, AcksOK, OthersSame, RecvCall
<1>4. /\ UNCHANGED <<mode, conn, kind, rcv, got, srv, toC>>
      /\ reqSent' \in BOOLEAN
  BY <1>1 DEF RecvCall, Typed, TypeOK
<1>5. CASE pendingFin
  <2>1. /\ pendingFin' = FALSE /\ closed' = TRUE
        /\ result' = [result EXCEPT ![conn] = "eof"] /\ phase' = "idle"
    BY <1>5 DEF RecvCall, Return
  <2> QED BY <2>1, <1>2, <1>3, <1>4, <1>5, CallKeeps
<1>6. CASE ~pendingFin
  <2>1. /\ pendingFin' = pendingFin /\ closed' \in BOOLEAN /\ pendingFin' \in BOOLEAN
        /\ result' = result /\ phase' = "recv"
    BY <1>6, <1>1 DEF RecvCall, Typed, TypeOK
  <2>2. "timeout" \in {"timeout", "eof", "closed"}
    OBVIOUS
  <2> QED BY <2>1, <2>2, <1>2, <1>3, <1>4, CallKeeps
<1> QED BY <1>5, <1>6

LEMMA CloseKeeps == ASSUME TcpConstants, TcpInv, Close PROVE TcpInv'
<1>1. Typed /\ CallOK /\ AcksOK
  BY DEF TcpInv
<1>2. conn > 0 /\ conn \in Servers /\ result[conn] = "none" /\ rcv \in Nat \ {0}
  BY <1>1, Basics DEF CallOK, Close
<1>3. toS' \in Seq(Asked) /\ AcksOK' /\ OthersSame
  <2>1. CASE closed
    BY <2>1, <1>1 DEF Typed, AcksOK, OthersSame, Close
  <2>2. CASE ~closed
    <3> DEFINE g == ToServer(conn, "fin", rcv, 1)
    <3>1. g \in Asked /\ g.dst = conn /\ g.what # "syn" /\ g.ack = rcv
      BY <1>2 DEF ToServer, Asked
    <3>2. toS' = Append(toS, g) /\ rcv' = rcv /\ conn' = conn
      BY <2>2 DEF Close
    <3> HIDE DEF g
    <3>3. /\ <<g>> \in Seq(Asked)
          /\ \A j \in 1..Len(<<g>>) :
               <<g>>[j].dst = conn /\ <<g>>[j].what # "syn" /\ <<g>>[j].ack <= rcv
      BY <3>1, <1>2
    <3>4. toS' = toS \o <<g>>
      BY <3>1, <3>2, <1>1 DEF Typed
    <3>5. rcv' \in Nat /\ rcv <= rcv' /\ \A a : a <= rcv => a <= rcv'
      BY <1>2, <3>2
    <3>6. \A j \in 1..Len(<<g>>) :
            <<g>>[j].dst = conn /\ <<g>>[j].what # "syn" /\ <<g>>[j].ack <= rcv'
      BY <3>3, <3>5
    <3> QED BY <1>1, <3>2, <3>3, <3>4, <3>5, <3>6, Answered DEF OthersSame
  <2> QED BY <2>1, <2>2
<1>4. /\ result' = [result EXCEPT ![conn] = "closed"] /\ phase' = "idle" /\ closed' = TRUE
      /\ UNCHANGED <<mode, conn, kind, rcv, reqSent, pendingFin, got, srv, toC>>
  BY DEF Close, Return
<1> QED BY <1>1, <1>2, <1>3, <1>4, CallKeeps DEF Typed, TypeOK

\* A call that ended well left nothing of its connection on its way.
LEMMA NothingLeft ==
  ASSUME TcpConstants, TcpInv, CleanStart, conn > 0, result[conn] \in {"refused", "eof"}
  PROVE  /\ \A i \in 1..Len(toC) : ~Data(toC[i])
         /\ srv[conn].st = "established" => srv[conn].nxt = FinSeq(conn) + 1
         /\ srv[conn].st \in {"listen", "synrcvd"} =>
              \A j \in 1..Len(toS) : toS[j].dst = conn => toS[j].what = "syn"
<1>1. /\ Typed /\ CallOK /\ ServersOK /\ FramesOK /\ AcksOK /\ BelievedOK /\ ReadOK
      /\ OnlyThis /\ NoGap /\ OwnEnd
  BY DEF TcpInv, InOrderOK
<1>2. /\ conn \in Servers /\ conn \in Nat /\ rcv \in Nat /\ Isn(conn) \in Nat /\ Size \in Nat
      /\ Isn(conn) > Size + 2 /\ FinSeq(conn) = Isn(conn) + Size + 1
      /\ srv[conn].una \in Nat /\ srv[conn].nxt \in Nat
  BY <1>1, Basics
<1>3. CASE rcv <= Isn(conn)
  <2>1. /\ srv[conn].nxt <= Isn(conn) + 1
        /\ \A i \in 1..Len(toC) : Data(toC[i]) => toC[i].src # conn
    BY <1>3, NoDataYet
  <2>2. result[conn] = "refused" /\ rcv = 0
    BY <1>1, <1>3 DEF OwnEnd, CallOK
  <2>3. srv[conn].st # "established"
    BY <1>1, <1>2, <2>2 DEF ServersOK, ServerOK, BelievedOK
  <2>4. ASSUME NEW j \in 1..Len(toS), toS[j].dst = conn, toS[j].what # "syn" PROVE FALSE
    <3>1. toS[j] \in Asked /\ AskedOK(toS[j], conn, rcv)
      BY <1>1 DEF Typed, AcksOK
    <3>2. toS[j].ack \in Nat \ {0} /\ toS[j].ack <= 0
      BY <2>2, <2>4, <3>1 DEF AskedOK, Asked
    <3> QED BY <3>2
  <2> QED BY <1>1, <2>1, <2>3, <2>4 DEF OnlyThis
<1>4. CASE rcv > Isn(conn)
  <2>1. At(conn)
    BY <1>1, <1>4, Here, <1>2
  <2>2. result[conn] = "eof"
    BY <1>1, <1>2, <1>4 DEF CallOK
  <2>3. rcv = FinSeq(conn) + 1
    BY <2>1, <2>2, <1>1 DEF At
  <2>4. rcv <= srv[conn].nxt /\ \A i \in 1..Len(toC) : Data(toC[i]) => rcv <= toC[i].seq
    BY <1>1, <1>2, <1>4 DEF NoGap
  <2>5. ServerOK(conn, srv[conn], conn)
    BY <1>1, <1>2 DEF ServersOK
  <2>6. srv[conn].nxt = FinSeq(conn) + 1 /\ srv[conn].st \notin {"listen", "synrcvd"}
    BY <2>3, <2>4, <2>5, <1>2 DEF ServerOK
  <2>7. ASSUME NEW i \in 1..Len(toC), Data(toC[i]) PROVE FALSE
    <3>1. toC[i].src = conn /\ rcv <= toC[i].seq /\ toC[i] \in TcpFrames
      BY <1>1, <2>4, <2>7, Frame DEF OnlyThis
    <3>2. toC[i].seq + toC[i].len <= FinSeq(conn)
      BY <1>1, <2>7, <3>1, Frame DEF FrameOK
    <3>3. toC[i].seq \in Nat /\ toC[i].len \in Nat
      BY <3>1 DEF TcpFrames
    <3> QED BY SMTT(60), <3>1, <3>2, <3>3, <2>3, <1>2
  <2> QED BY <2>6, <2>7
<1> QED BY <1>2, <1>3, <1>4

LEMMA ConnectKeeps ==
  ASSUME TcpConstants, TcpInv, NEW k \in Kinds, Connect(k)
  PROVE  TcpInv'
<1>1. /\ Typed /\ CallOK /\ ServersOK /\ FramesOK /\ AcksOK /\ BelievedOK /\ ReadOK
  BY DEF TcpInv
<1>2. /\ conn \in Nat /\ conn + 1 \in Servers /\ conn' = conn + 1 /\ conn < conn'
      /\ Conns \in Nat /\ conn + 1 <= Conns
      /\ UNCHANGED <<mode, result, srv, toC>>
  BY <1>1, Basics DEF Connect, Servers, TcpConstants
<1> DEFINE g == ToServer(conn + 1, "syn", k, 1)
<1>3. toS' = Append(toS, g) /\ g \in Asked /\ g.dst = conn' /\ g.what = "syn"
  BY <1>2 DEF Connect, ToServer, Asked
<1>4. /\ rcv' = 0 /\ kind' = k /\ phase' = "syn" /\ got' = <<>> /\ pendingFin' = FALSE
      /\ reqSent' = FALSE /\ closed' = FALSE /\ phase = "idle"
  BY DEF Connect
<1> HIDE DEF g
<1>5. /\ toS \in Seq(Asked) /\ toS' \in Seq(Asked) /\ Len(toS') = Len(toS) + 1
      /\ \A j \in 1..Len(toS) : toS'[j] = toS[j] /\ toS[j] \in Asked
      /\ toS'[Len(toS) + 1] = g
  BY <1>1, <1>3 DEF Typed
<1>6. Typed'
  <2>1. got' \in Seq(Servers \X (1..Size)) /\ conn' \in 0..Conns
    BY <1>2, <1>4
  <2>2. mode' \in {"inorder", "lossy"} /\ result' \in [Servers -> {"none", "refused", "timeout", "eof", "reset", "closed"}]
    BY <1>1, <1>2 DEF Typed, TypeOK
  <2>3. TypeOK'
    BY <1>4, <2>1, <2>2 DEF TypeOK
  <2> QED BY <1>1, <1>2, <1>5, <2>3 DEF Typed
<1>7. CallOK'
  <2>1. result[conn + 1] = "none" /\ \A c \in Servers : c > conn + 1 => result[c] = "none"
    BY <1>1, <1>2, Basics DEF CallOK
  <2> QED BY <1>2, <1>4, <2>1 DEF CallOK
<1>8. ServersOK'
  <2> SUFFICES ASSUME NEW s \in Servers PROVE ServerOK(s, srv[s], conn')
    BY <1>2 DEF ServersOK
  <2>1. ServerOK(s, srv[s], conn) /\ s \in Nat
    BY <1>1, Basics DEF ServersOK
  <2> QED BY <2>1, <1>2 DEF ServerOK
<1>9. FramesOK'
  <2> SUFFICES ASSUME NEW i \in 1..Len(toC) PROVE FrameOK(toC[i], conn', srv[toC[i].src])
    BY <1>2 DEF FramesOK
  <2>1. FrameOK(toC[i], conn, srv[toC[i].src]) /\ toC[i].src \in Nat
    BY <1>1, Frame, Basics
  <2>2. toC[i].src <= conn'
    BY <2>1, <1>2 DEF FrameOK
  <2> QED BY <2>1, <2>2 DEF FrameOK
<1>10. AcksOK'
  <2> SUFFICES ASSUME NEW j \in 1..Len(toS') PROVE AskedOK(toS'[j], conn', rcv')
    BY DEF AcksOK
  <2>1. CASE j = Len(toS) + 1
    BY <2>1, <1>2, <1>3, <1>5 DEF AskedOK
  <2>2. CASE j \in 1..Len(toS)
    <3>1. AskedOK(toS[j], conn, rcv) /\ toS'[j] = toS[j] /\ toS[j].dst \in Nat
      BY <1>1, <1>5, <2>2 DEF AcksOK, Asked, Servers
    <3> QED BY <3>1, <1>2 DEF AskedOK
  <2> QED BY <1>5, <2>1, <2>2
<1>11. BelievedOK'
  <2>1. ServerOK(conn + 1, srv[conn + 1], conn)
    BY <1>1, <1>2 DEF ServersOK
  <2>2. srv[conn + 1].una = 0 /\ Isn(conn + 1) \in Nat
    BY <2>1, <1>2, IsnFacts, <1>1, Basics DEF ServerOK, Machines
  <2> QED BY <2>2, <1>2 DEF BelievedOK
<1>12. ReadOK'
  BY <1>4 DEF ReadOK
<1>13. InOrderOK'
  <2> SUFFICES ASSUME CleanStart' PROVE (OnlyThis /\ NoGap /\ OwnEnd)'
    BY DEF InOrderOK
  <2>1. mode = "inorder" /\ \A c \in Servers : c < conn + 1 => result[c] \in {"refused", "eof"}
    BY <1>2 DEF CleanStart
  <2>2. CleanStart /\ (conn > 0 => result[conn] \in {"refused", "eof"})
    BY <2>1, <1>1, <1>2, Basics DEF CleanStart
  <2>3. \A i \in 1..Len(toC) : ~Data(toC[i])
    <3>1. CASE conn > 0
      BY <3>1, <2>2, NothingLeft
    <3>2. CASE ~(conn > 0)
      BY <3>2, <1>1, <1>2, Frame
    <3> QED BY <3>1, <3>2
  <2>4. ASSUME NEW s \in 1..conn
        PROVE  /\ srv[s].st = "established" => srv[s].nxt = FinSeq(s) + 1
               /\ srv[s].st \in {"listen", "synrcvd"} =>
                    \A j \in 1..Len(toS') : toS'[j].dst = s => toS'[j].what = "syn"
    <3>1. /\ srv[s].st = "established" => srv[s].nxt = FinSeq(s) + 1
          /\ srv[s].st \in {"listen", "synrcvd"} =>
               \A j \in 1..Len(toS) : toS[j].dst = s => toS[j].what = "syn"
      <4>1. CASE s = conn
        BY <4>1, <1>2, <2>2, NothingLeft
      <4>2. CASE s \in 1..(conn - 1)
        BY <4>2, <2>2 DEF TcpInv, InOrderOK, OnlyThis
      <4> QED BY <4>1, <4>2, <1>2
    <3> QED BY <3>1, <1>3, <1>5
  <2>5. OnlyThis'
    BY <2>3, <2>4, <1>2 DEF OnlyThis
  <2>6. NoGap' /\ OwnEnd'
    <3>1. Isn(conn + 1) \in Nat /\ result[conn + 1] = "none"
      BY <1>1, <1>2, IsnFacts DEF CallOK
    <3> QED BY <3>1, <1>2, <1>4 DEF NoGap, OwnEnd
  <2> QED BY <2>5, <2>6
<1> QED BY <1>6, <1>7, <1>8, <1>9, <1>10, <1>11, <1>12, <1>13 DEF TcpInv

\* A step that takes a frame, with what is particular to it left to show.
LEMMA TakeKeeps ==
  ASSUME TcpConstants, TcpInv, conn > 0, NEW i \in 1..Len(toC), toC' = Without(toC, i),
         UNCHANGED <<mode, conn, srv>>, ClientTyped',
         NEW r \in Results, result' = result \/ result' = [result EXCEPT ![conn] = r],
         rcv <= rcv', toS' \in Seq(Asked), AcksOK', OthersSame, CallOK', ReadOK',
         CleanStart => NoGap' /\ OwnEnd'
  PROVE  TcpInv'
<1>1. /\ Typed /\ ServersOK /\ FramesOK /\ BelievedOK /\ toC \in Seq(TcpFrames)
  BY DEF TcpInv, Typed
<1>2. CleanStart' = CleanStart /\ result' \in [Servers -> Results]
  BY <1>1, SameStart
<1>3. toC' \in Seq(TcpFrames) /\ FramesOK'
  BY <1>1, Taken
<1>4. Typed'
  BY <1>1, <1>2, <1>3 DEF Typed, TypeOK, ClientTyped, Results
<1>5. ServersOK'
  BY <1>1 DEF ServersOK
<1>6. BelievedOK'
  <2>1. conn \in Servers /\ srv[conn].una \in Nat /\ rcv \in Nat /\ rcv' \in Nat
    BY <1>1, Basics DEF ClientTyped
  <2> QED BY <1>1, <2>1 DEF BelievedOK
<1>7. InOrderOK'
  <2> SUFFICES ASSUME CleanStart PROVE (OnlyThis /\ NoGap /\ OwnEnd)'
    BY <1>2 DEF InOrderOK
  <2>1. OnlyThis
    BY DEF TcpInv, InOrderOK
  <2>2. \A j \in 1..Len(toC') : \E m \in 1..Len(toC) : toC'[j] = toC[m]
    <3>1. /\ Len(toC') = Len(toC) - 1
          /\ \A j \in 1..(Len(toC) - 1) : toC'[j] = toC[IF j < i THEN j ELSE j + 1]
      BY <1>1, WithoutFacts
    <3> SUFFICES ASSUME NEW j \in 1..Len(toC') PROVE \E m \in 1..Len(toC) : toC'[j] = toC[m]
      OBVIOUS
    <3> DEFINE k == IF j < i THEN j ELSE j + 1
    <3>2. k \in 1..Len(toC) /\ toC'[j] = toC[k]
      BY <1>1, <3>1
    <3> HIDE DEF k
    <3> QED BY <3>2
  <2>3. ASSUME NEW s \in 1..(conn - 1), srv[s].st \in {"listen", "synrcvd"},
               NEW j \in 1..Len(toS'), toS'[j].dst = s
        PROVE  toS'[j].what = "syn"
    <3>1. s # conn
      BY <1>1, Basics
    <3>2. PICK k \in 1..Len(toS) : toS'[j] = toS[k]
      BY <2>3, <3>1 DEF OthersSame
    <3> QED BY <2>1, <2>3, <3>2 DEF OnlyThis
  <2>4. OnlyThis'
    BY SMTT(60), <2>1, <2>2, <2>3 DEF OnlyThis
  <2> QED BY <2>4
<1> QED BY <1>4, <1>3, <1>5, <1>6, <1>7 DEF TcpInv

LEMMA SynAckKeeps ==
  ASSUME TcpConstants, TcpInv, NEW i \in 1..Len(toC), SynAck(i)
  PROVE  TcpInv'
<1>0. PICK f : f = toC[i]
  OBVIOUS
<1>1. /\ Typed /\ CallOK /\ ServersOK /\ FramesOK /\ AcksOK /\ BelievedOK /\ toC \in Seq(TcpFrames)
  BY DEF TcpInv, Typed
<1>2. /\ conn > 0 /\ conn \in Servers /\ result[conn] = "none" /\ rcv = 0 /\ conn \in Nat
      /\ got = <<>> /\ pendingFin = FALSE /\ Isn(conn) \in Nat /\ Size \in Nat /\ Room \in Nat
      /\ Isn(conn) > Size + 2 /\ FinSeq(conn) = Isn(conn) + Size + 1
      /\ srv[conn].nxt \in Nat
  BY <1>1, Basics DEF CallOK, SynAck, Typed, TypeOK
<1>3. /\ phase = "syn" /\ toC' = Without(toC, i)
      /\ UNCHANGED <<mode, conn, kind, pendingFin, closed, got, srv>>
  BY DEF SynAck
<1>4. /\ f \in TcpFrames /\ f.src \in Servers /\ f.src \in 1..conn
      /\ FrameOK(f, conn, srv[f.src]) /\ Isn(f.src) \in Nat
      /\ FinSeq(f.src) = Isn(f.src) + Size + 1
  BY <1>0, <1>1, Frame, Basics
<1>5. CASE ~(~f.rst /\ f.syn /\ f.ackOf = kind)
  <2>1. /\ UNCHANGED <<rcv, reqSent, toS>>
        /\ \/ result' = [result EXCEPT ![conn] = "refused"] /\ phase' = "idle"
           \/ result' = result /\ phase' = "syn"
    BY <1>0, <1>5 DEF SynAck, Return
  <2>2. "refused" \in Results
    BY DEF Results
  <2>3. ClientTyped'
    BY <1>1, <1>3, <2>1 DEF Typed, TypeOK, ClientTyped
  <2>4. toS' \in Seq(Asked) /\ AcksOK' /\ OthersSame /\ rcv <= rcv'
    BY <1>1, <1>2, <1>3, <2>1 DEF Typed, AcksOK, OthersSame
  <2>5. /\ \A c \in Servers : c > conn => result'[c] = "none"
        /\ phase' # "idle" => result'[conn] = "none"
        /\ result'[conn] # "eof"
    <3>1. result \in [Servers -> Results] /\ \A c \in Servers : c \in Nat
      BY <1>1, Basics DEF Typed, TypeOK, Results
    <3> QED BY <3>1, <1>1, <1>2, <2>1, <2>2 DEF CallOK
  <2>6. CallOK'
    BY <1>2, <1>3, <2>1, <2>5 DEF CallOK
  <2>7. ReadOK' /\ NoGap' /\ OwnEnd'
    BY <1>2, <1>3, <2>1, <2>5 DEF ReadOK, NoGap, OwnEnd
  <2> QED BY <1>2, <1>3, <2>1, <2>2, <2>3, <2>4, <2>6, <2>7, TakeKeeps
<1>6. CASE ~f.rst /\ f.syn /\ f.ackOf = kind
  <2>0. PICK n : n = IF kind = "http" THEN 1 ELSE 0
    OBVIOUS
  <2>16. PICK k : k = f.seq + 1
    OBVIOUS
  <2> DEFINE a == ToServer(conn, "ack", k, 1)
             q == Request(conn, k, n)
             new == <<a>> \o q
  <2>1. /\ rcv' = k /\ toS' = toS \o <<a>> \o q
        /\ reqSent' = (kind = "http") /\ result' = result
        /\ phase' = (IF kind = "http" THEN "recv" ELSE "ready")
    BY <1>0, <1>6, <2>0, <2>16 DEF SynAck
  <2>2. f.seq = Isn(f.src) /\ ~Data(f) /\ srv[f.src].st # "listen"
    BY <1>4, <1>6 DEF FrameOK
  <2>15. kind \in Kinds /\ (kind = "http") \in BOOLEAN
    BY <1>1 DEF Typed, TypeOK
  <2>3. k \in Nat \ {0} /\ k = Isn(f.src) + 1 /\ n \in Nat /\ rcv' \in Nat /\ rcv <= rcv' /\ rcv' # 0
    BY <2>0, <2>16, <1>2, <1>4, <2>1, <2>2
  <2>4. a \in Asked /\ a.dst = conn /\ a.what = "ack" /\ a.ack = k
    BY <1>2, <2>3 DEF Asked, ToServer
  <2>5. /\ q \in Seq(Asked) /\ Len(q) = n
        /\ \A j \in 1..n : q[j].dst = conn /\ q[j].what = "req" /\ q[j].ack = k
    <3>1. Requested(q, conn, k, n)
      BY <1>2, <2>3, Requests
    <3> HIDE DEF q
    <3> QED BY <3>1 DEF Requested
  <2> HIDE DEF a, q
  <2>6. /\ new \in Seq(Asked) /\ Len(new) = n + 1 /\ toS' = toS \o new
        /\ new[1] = a /\ \A j \in 1..n : new[j + 1] = q[j]
    <3>1. <<a>> \in Seq(Asked) /\ Len(<<a>>) = 1 /\ <<a>>[1] = a /\ toS \in Seq(Asked)
      BY <1>1, <2>4 DEF Typed
    <3>2. toS \o new = (toS \o <<a>>) \o q
      BY <3>1, <2>5, ConcatAssociative
    <3>3. /\ new \in Seq(Asked) /\ Len(new) = 1 + n
          /\ \A j \in 1..(1 + n) : new[j] = IF j <= 1 THEN <<a>>[j] ELSE q[j - 1]
      BY <3>1, <2>5, ConcatProperties
    <3> HIDE DEF new
    <3>4. new[1] = a
      BY <3>1, <3>3, <2>3
    <3>5. ASSUME NEW j \in 1..n PROVE new[j + 1] = q[j]
      <4>1. j + 1 \in 1..(1 + n) /\ ~(j + 1 <= 1) /\ (j + 1) - 1 = j
        BY <2>3
      <4>2. new[j + 1] = q[(j + 1) - 1]
        BY <3>3, <4>1
      <4> QED BY <4>1, <4>2
    <3> QED BY SMTT(60), <2>1, <2>3, <3>2, <3>3, <3>4, <3>5
  <2> HIDE DEF new
  <2>7. \A j \in 1..Len(new) : new[j].dst = conn /\ new[j].what # "syn" /\ new[j].ack <= rcv'
    <3> SUFFICES ASSUME NEW j \in 1..Len(new)
                 PROVE  new[j].dst = conn /\ new[j].what # "syn" /\ new[j].ack <= rcv'
      OBVIOUS
    <3>1. CASE j = 1
      BY <3>1, <2>1, <2>3, <2>4, <2>6
    <3>2. CASE j # 1
      <4>1. j - 1 \in 1..n /\ (j - 1) + 1 = j
        BY <3>2, <2>3, <2>6
      <4>2. new[j] = q[j - 1]
        BY <4>1, <2>6
      <4> QED BY <4>1, <4>2, <2>1, <2>3, <2>5
    <3> QED BY <3>1, <3>2
  <2>8. toS' \in Seq(Asked) /\ AcksOK' /\ OthersSame
    BY <1>1, <1>3, <2>3, <2>6, <2>7, Answered DEF OthersSame
  <2>9. ClientTyped'
    BY <1>1, <1>3, <2>1, <2>3 DEF Typed, TypeOK, ClientTyped, Kinds
  <2>10. CallOK'
    BY <1>1, <1>2, <1>3, <2>1, <2>3 DEF CallOK, Typed, TypeOK, Kinds
  <2>11. At(f.src)'
    <3>1. Counted(f.src, rcv') = 0
      <4>1. rcv' - Isn(f.src) - 1 = 0
        BY <1>4, <2>1, <2>3
      <4> QED BY <4>1, <1>2 DEF Counted, Smaller
    <3>2. /\ Isn(f.src) + 1 <= rcv' /\ rcv' <= FinSeq(f.src)
          /\ Len(got') = 0 /\ result'[conn'] = "none" /\ pendingFin' = FALSE
      BY <1>2, <1>3, <1>4, <2>1, <2>3
    <3>3. Smaller(0, Room) = 0
      BY <1>2 DEF Smaller
    <3>4. rcv' <= FinSeq(f.src) + 1 /\ 0 <= Size /\ \A j \in 1..Len(got') : FALSE
      BY <1>2, <1>4, <2>3, <3>2
    <3> QED BY <3>1, <3>2, <3>3, <3>4 DEF At
  <2>12. ReadOK'
    BY <1>3, <1>4, <2>11 DEF ReadOK
  <2>13. ASSUME CleanStart PROVE NoGap' /\ OwnEnd'
    <3>1. OnlyThis
      BY <2>13 DEF TcpInv, InOrderOK
    <3>2. /\ srv[conn].nxt <= Isn(conn) + 1
          /\ \A m \in 1..Len(toC) : Data(toC[m]) => toC[m].src # conn
      BY <1>2, NoDataYet
    <3>3. \A m \in 1..Len(toC) : ~Data(toC[m])
      BY <3>1, <3>2 DEF OnlyThis
    <3>4. \A j \in 1..Len(toC') : ~Data(toC'[j])
      <4>1. /\ Len(toC') = Len(toC) - 1
            /\ \A j \in 1..(Len(toC) - 1) : toC'[j] = toC[IF j < i THEN j ELSE j + 1]
        BY <1>1, <1>3, WithoutFacts
      <4>2. \A j \in 1..(Len(toC) - 1) : (IF j < i THEN j ELSE j + 1) \in 1..Len(toC)
        BY <1>1
      <4> QED BY <3>3, <4>1, <4>2
    <3>5. ASSUME rcv' > Isn(conn) PROVE rcv' = Isn(conn) + 1 /\ srv[conn].nxt = rcv'
      <4>1. f.src = conn
        <5> SUFFICES ASSUME f.src < conn PROVE FALSE
          BY <1>4, <1>2
        <5>0. f.src \in Nat
          BY <1>2, <1>4
        <5>1. f.src \in Nat /\ Isn(f.src) + Size + 2 < Isn(conn)
          BY <5>0, <1>2, IsnFacts
        <5> QED BY <5>1, <3>5, <2>1, <2>3, <1>2, <1>4
      <4>2. Isn(conn) + 1 <= srv[conn].nxt
        BY <4>1, <2>2, <1>1, <1>2 DEF ServersOK, ServerOK
      <4> QED BY <4>1, <4>2, <3>2, <2>1, <2>3, <1>2
    <3>6. NoGap'
      BY <3>4, <3>5, <1>2, <1>3, <2>3 DEF NoGap
    <3>7. OwnEnd'
      BY <1>2, <1>3, <2>1 DEF OwnEnd
    <3> QED BY <3>6, <3>7
  <2> QED BY <1>2, <1>3, <2>1, <2>3, <2>8, <2>9, <2>10, <2>12, <2>13, TakeKeeps DEF Results
<1> QED BY <1>5, <1>6

\* The numbers of two servers do not meet.
LEMMA OneServer ==
  ASSUME TcpConstants, NEW s \in Nat, NEW t \in Nat, NEW r \in Nat,
         Isn(s) + 1 <= r, r <= FinSeq(s) + 1, Isn(t) + 1 <= r, r <= FinSeq(t) + 1
  PROVE  s = t
<1>1. /\ Isn(s) \in Nat /\ Isn(t) \in Nat /\ Size \in Nat
      /\ FinSeq(s) = Isn(s) + Size + 1 /\ FinSeq(t) = Isn(t) + Size + 1
      /\ s < t => Isn(s) + Size + 2 < Isn(t)
      /\ t < s => Isn(t) + Size + 2 < Isn(s)
  BY IsnFacts DEF TcpConstants
<1> QED BY <1>1

\* The frame that is due is of the server whose numbers the client is at.
LEMMA Due ==
  ASSUME TcpConstants, TcpInv, NEW i \in 1..Len(toC), Data(toC[i]), toC[i].seq = rcv
  PROVE  /\ At(toC[i].src) /\ rcv + toC[i].len <= FinSeq(toC[i].src)
         /\ toC[i].fin => rcv + toC[i].len = FinSeq(toC[i].src)
         /\ toC[i].len \in Nat /\ rcv \in Nat /\ rcv # 0 /\ Isn(toC[i].src) + 1 <= rcv
<1>1. /\ Typed /\ FramesOK /\ ReadOK
  BY DEF TcpInv
<1>2. /\ toC[i] \in TcpFrames /\ toC[i].src \in 1..conn /\ toC[i].src \in Servers
      /\ FrameOK(toC[i], conn, srv[toC[i].src])
  BY <1>1, Frame
<1>3. /\ toC[i].len \in Nat /\ rcv \in Nat /\ toC[i].src \in Nat
      /\ Isn(toC[i].src) \in Nat /\ FinSeq(toC[i].src) = Isn(toC[i].src) + Size + 1
      /\ Size \in Nat /\ conn \in Nat
  BY <1>1, <1>2, Basics DEF TcpFrames
<1>4. /\ Isn(toC[i].src) + 1 <= rcv /\ rcv + toC[i].len <= FinSeq(toC[i].src)
      /\ toC[i].fin => rcv + toC[i].len = FinSeq(toC[i].src)
  BY <1>2 DEF FrameOK
<1>5. PICK s \in 1..conn : At(s)
  BY <1>1, <1>3, <1>4 DEF ReadOK
<1>6. s \in Nat /\ Isn(s) + 1 <= rcv /\ rcv <= FinSeq(s) + 1
  BY <1>3, <1>5 DEF At
<1>7. rcv <= FinSeq(toC[i].src) + 1
  BY <1>3, <1>4
<1>8. s = toC[i].src
  BY <1>3, <1>4, <1>6, <1>7, OneServer
<1> QED BY <1>3, <1>4, <1>5, <1>8

\* The first n bytes of server s, and what may be copied behind them.
Prefix(s, g, n) == /\ g \in Seq(Servers \X (1..Size)) /\ Len(g) = n
                   /\ \A j \in 1..n : g[j] = Byte(s, j)
Continues(s, g, q, n) ==
  /\ s \in Servers /\ Prefix(s, g, Len(g)) /\ q \in Nat /\ n \in Nat /\ Len(g) + n <= Size
  /\ n > 0 => q - Isn(s) - 1 = Len(g)

LEMMA Copied ==
  ASSUME TcpConstants, NEW s, NEW g, NEW q, NEW n, Continues(s, g, q, n)
  PROVE  Prefix(s, g \o Payload(s, q, n), Len(g) + n)
<1>0. /\ s \in Servers /\ g \in Seq(Servers \X (1..Size)) /\ \A j \in 1..Len(g) : g[j] = Byte(s, j)
      /\ q \in Nat /\ n \in Nat /\ Len(g) + n <= Size
      /\ n > 0 => q - Isn(s) - 1 = Len(g)
  BY DEF Continues, Prefix
<1>1. Isn(s) \in Nat /\ Size \in Nat /\ Len(g) \in Nat
  <2>1. s \in Nat /\ Size \in Nat
    BY <1>0 DEF TcpConstants, Servers
  <2>2. Len(g) \in Nat
    BY <1>0
  <2> QED BY <2>1, <2>2, IsnFacts
<1>2. ASSUME NEW j \in 1..n
      PROVE  q - Isn(s) + j - 1 = Len(g) + j /\ Len(g) + j \in 1..Size
  <2>1. q - Isn(s) - 1 = Len(g)
    BY <1>0
  <2>2. q - Isn(s) + j - 1 = (q - Isn(s) - 1) + j
    BY <1>0, <1>1
  <2>3. q - Isn(s) + j - 1 = Len(g) + j
    BY <2>1, <2>2, <1>0, <1>1
  <2>4. \A l, z \in Nat : l + n <= z => l + j \in 1..z
    BY <1>0
  <2> QED BY <1>0, <1>1, <2>3, <2>4
<1>3. \A j \in 1..n : Byte(s, q - Isn(s) + j - 1) \in Servers \X (1..Size)
  BY <1>0, <1>2 DEF Byte
<1>4. /\ Payload(s, q, n) \in Seq(Servers \X (1..Size)) /\ Len(Payload(s, q, n)) = n
      /\ \A j \in 1..n : Payload(s, q, n)[j] = Byte(s, Len(g) + j)
  BY <1>0, <1>2, <1>3 DEF Payload
<1> DEFINE p == Payload(s, q, n)
<1>8. p \in Seq(Servers \X (1..Size)) /\ Len(p) = n
  BY <1>4
<1> HIDE DEF p
<1>5. /\ g \o p \in Seq(Servers \X (1..Size)) /\ Len(g \o p) = Len(g) + n
      /\ \A j \in 1..(Len(g) + n) : (g \o p)[j] = IF j <= Len(g) THEN g[j] ELSE p[j - Len(g)]
  BY <1>0, <1>8, ConcatProperties
<1>6. ASSUME NEW j \in 1..(Len(g) + n) PROVE (g \o p)[j] = Byte(s, j)
  <2>1. CASE j <= Len(g)
    <3>1. j \in 1..Len(g)
      BY <2>1, <1>1
    <3> QED BY <2>1, <3>1, <1>0, <1>5
  <2>2. CASE ~(j <= Len(g))
    <3>1. j - Len(g) \in 1..n /\ Len(g) + (j - Len(g)) = j
      BY <2>2, <1>0, <1>1
    <3>2. p[j - Len(g)] = Byte(s, j)
      BY <3>1, <1>4 DEF p
    <3> QED BY <2>2, <3>2, <1>5
  <2> QED BY <2>1, <2>2
<1> QED BY <1>5, <1>6 DEF p, Prefix

\* What the client may send on connection c when it is at number r.
Own(c, r) == {g \in Asked : g.dst = c /\ g.what # "syn" /\ g.ack <= r}

LEMMA AnsweredOwn ==
  ASSUME Typed, AcksOK, conn' = conn, rcv' \in Nat, rcv <= rcv',
         NEW new \in Seq(Own(conn, rcv')), toS' = toS \o new
  PROVE  toS' \in Seq(Asked) /\ AcksOK' /\ OthersSame
<1>1. new \in Seq(Asked)
  BY DEF Own
<1>2. \A j \in 1..Len(new) : new[j] \in Own(conn, rcv')
  OBVIOUS
<1>3. \A j \in 1..Len(new) : new[j].dst = conn /\ new[j].what # "syn" /\ new[j].ack <= rcv'
  BY <1>2 DEF Own
<1> QED BY <1>1, <1>3, Answered DEF OthersSame

LEMMA OwnAnswer ==
  ASSUME TcpConstants, NEW c \in Servers, NEW r \in Nat, NEW a \in Nat \ {0}, a <= r,
         NEW w \in {"ack", "fin"}
  PROVE  ToServer(c, w, a, 1) \in Own(c, r)
BY DEF Own, Asked, ToServer

\* The end of the queue stays right when the oldest frame is looked at.
LEMMA HeadTaken ==
  ASSUME TcpConstants, TcpInv, CleanStart, NEW i \in 1..Len(toC), i \in Arrivals(toC),
         toC' = Without(toC, i), UNCHANGED <<conn, srv>>, rcv' \in Nat,
         rcv' = (IF Data(toC[i]) THEN SegEnd(toC[i]) ELSE rcv),
         conn > 0, ~Data(toC[i]) => (pendingFin' => pendingFin) /\ (result'[conn] = "eof" => result[conn] = "eof")
  PROVE  NoGap' /\ OwnEnd'
<1>1. i = 1
  BY DEF CleanStart, Arrivals
<1>2. NoGap'
  BY <1>1, HeadGone
<1>3. CASE Data(toC[i])
  <2>1. rcv > Isn(conn) /\ toC[1].seq = rcv
    BY <1>1, <1>3, HeadDue
  <2>2. rcv' > rcv /\ rcv \in Nat /\ Isn(conn) \in Nat
    BY <1>1, <1>3, <2>1, Frame, Basics DEF TcpInv
  <2> QED BY <1>2, <2>1, <2>2 DEF OwnEnd
<1>4. CASE ~Data(toC[i])
  <2>1. OwnEnd
    BY DEF TcpInv, InOrderOK
  <2> QED BY <1>2, <1>4, <2>1 DEF OwnEnd
<1> QED BY <1>3, <1>4

LEMMA RecvKeeps ==
  ASSUME TcpConstants, TcpInv, NEW i \in 1..Len(toC), Recv(i)
  PROVE  TcpInv'
<1>0. PICK f : f = toC[i]
  OBVIOUS
<1>1. /\ Typed /\ CallOK /\ FramesOK /\ AcksOK /\ ReadOK
  BY DEF TcpInv
<1>2. /\ conn > 0 /\ conn \in Servers /\ result[conn] = "none" /\ rcv \in Nat \ {0}
      /\ conn \in Nat /\ Size \in Nat /\ Room \in Nat /\ kind = "tls" /\ phase = "recv"
      /\ pendingFin \in BOOLEAN
  BY <1>1, Basics DEF CallOK, Recv, Typed, TypeOK
<1>3. /\ i \in Arrivals(toC) /\ toC' = Without(toC, i)
      /\ UNCHANGED <<mode, conn, kind, reqSent, srv>>
  BY DEF Recv
<1>4. /\ f \in TcpFrames /\ f.src \in Servers /\ f.src \in 1..conn /\ f.src \in Nat
      /\ FrameOK(f, conn, srv[f.src]) /\ Isn(f.src) \in Nat
      /\ FinSeq(f.src) = Isn(f.src) + Size + 1 /\ f.len \in Nat /\ f.seq \in Nat
      /\ f.fin \in BOOLEAN /\ f.rst \in BOOLEAN
  BY <1>0, <1>1, Frame, Basics DEF TcpFrames
<1>5. Data(f) => ~f.rst
  BY <1>4 DEF FrameOK
<1>6. \A c \in Servers : c > conn => result[c] = "none"
  BY <1>1 DEF CallOK
<1>7. PICK s \in 1..conn : At(s)
  BY <1>1, <1>2 DEF ReadOK
<1>8. result \in [Servers -> Results] /\ \A c \in Servers : c \in Nat
  BY <1>1, Basics DEF Typed, TypeOK, Results
<1>9. CASE ~(~f.rst /\ Data(f) /\ f.seq = rcv)
  <2>1. /\ UNCHANGED <<rcv, pendingFin, got, toS>>
        /\ \/ result' = [result EXCEPT ![conn] = "reset"] /\ phase' = "idle" /\ closed' = TRUE
           \/ result' = result /\ phase' = "recv" /\ closed' = closed
    <3>1. ~(~f.rst /\ f.len > 0 /\ f.seq = rcv) /\ ~(~f.rst /\ f.len = 0 /\ f.fin /\ f.seq = rcv)
      BY <1>9 DEF Data
    <3>2. CASE f.rst
      BY <1>0, <3>1, <3>2 DEF Recv, InOrder, Return
    <3>3. CASE ~f.rst
      BY <1>0, <1>2, <3>1, <3>3 DEF Recv, InOrder, Return
    <3> QED BY <3>2, <3>3
  <2>2. ClientTyped'
    BY <1>1, <1>3, <2>1 DEF Typed, TypeOK, ClientTyped
  <2>3. "reset" \in Results
    BY DEF Results
  <2>4. toS' \in Seq(Asked) /\ AcksOK' /\ OthersSame /\ rcv <= rcv'
    BY <1>1, <1>2, <1>3, <2>1 DEF Typed, AcksOK, OthersSame
  <2>5. /\ \A c \in Servers : c > conn => result'[c] = "none"
        /\ phase' # "idle" => result'[conn] = "none"
        /\ result'[conn] \in {"none", "reset"}
    BY <1>2, <1>6, <1>8, <2>1
  <2>6. CallOK'
    BY <1>1, <1>2, <1>3, <2>1, <2>5 DEF CallOK
  <2>7. At(s)'
    BY <1>2, <1>3, <1>7, <2>1, <2>5 DEF At
  <2>8. ReadOK'
    BY <1>3, <2>7 DEF ReadOK
  <2>9. ASSUME CleanStart PROVE NoGap' /\ OwnEnd'
    <3>1. ~Data(toC[i])
      <4> SUFFICES ASSUME Data(toC[i]) PROVE FALSE
        OBVIOUS
      <4>1. i = 1
        BY <1>3, <2>9 DEF CleanStart, Arrivals
      <4>2. f.seq = rcv
        BY <1>0, <2>9, <4>1, HeadDue
      <4> QED BY <4>2, <1>0, <1>5, <1>9
    <3> QED BY <1>2, <1>3, <2>1, <2>5, <2>9, <3>1, HeadTaken
  <2> QED BY <1>2, <1>3, <2>1, <2>2, <2>3, <2>4, <2>6, <2>8, <2>9, TakeKeeps
<1>10. CASE ~f.rst /\ Data(f) /\ f.seq = rcv
  <2>1. /\ At(f.src) /\ rcv + f.len <= FinSeq(f.src) /\ (f.fin => rcv + f.len = FinSeq(f.src))
        /\ Isn(f.src) + 1 <= rcv
    BY <1>0, <1>10, Due
  <2> DEFINE next == SegEnd(f)
             g == ToServer(conn, "ack", next, 1)
  <2>2. next = rcv + f.len + (IF f.fin THEN 1 ELSE 0)
    BY <1>10 DEF SegEnd
  <2>3. next \in Nat \ {0} /\ next > rcv /\ next <= FinSeq(f.src) + 1
    BY SMTT(60), <2>1, <2>2, <1>2, <1>4, <1>10 DEF Data
  <2>4. /\ rcv' = next /\ toS' = Append(toS, g)
        /\ IF f.len > 0
             THEN /\ got' = got \o Payload(f.src, rcv, f.len)
                  /\ pendingFin' = (pendingFin \/ f.fin) /\ phase' = "ready"
                  /\ UNCHANGED <<closed, result>>
             ELSE /\ closed' = TRUE /\ result' = [result EXCEPT ![conn] = "eof"] /\ phase' = "idle"
                  /\ UNCHANGED <<pendingFin, got>>
    <3>1. CASE f.len > 0
      BY <1>0, <1>10, <2>2, <3>1 DEF Recv, InOrder, Return
    <3>2. CASE ~(f.len > 0)
      <4>1. f.len = 0 /\ f.fin
        BY <3>2, <1>4, <1>10 DEF Data
      <4> QED BY <1>0, <1>10, <2>2, <4>1 DEF Recv, InOrder, Return
    <3> QED BY <3>1, <3>2
  <2> HIDE DEF next
  <2>6. toS' \in Seq(Asked) /\ AcksOK' /\ OthersSame
    <3>1. g \in Own(conn, rcv')
      BY <1>2, <2>3, <2>4, OwnAnswer
    <3> HIDE DEF g
    <3>2. <<g>> \in Seq(Own(conn, rcv')) /\ toS' = toS \o <<g>>
      BY <2>4, <3>1, <1>1 DEF Typed
    <3>3. rcv' \in Nat /\ rcv <= rcv' /\ conn' = conn
      BY <1>2, <1>3, <2>3, <2>4
    <3> QED BY <1>1, <3>2, <3>3, AnsweredOwn
  <2> HIDE DEF g
  <2>7. /\ Len(got) <= Size /\ got \in Seq(Servers \X (1..Size))
        /\ \A j \in 1..Len(got) : got[j] = Byte(f.src, j)
        /\ Len(got) = rcv - Isn(f.src) - 1 /\ ~pendingFin
    <3>1. /\ Len(got) = Counted(f.src, rcv) /\ (pendingFin => rcv = FinSeq(f.src) + 1)
          /\ Len(got) <= Size /\ \A j \in 1..Len(got) : got[j] = Byte(f.src, j)
      BY <1>2, <2>1 DEF At
    <3>2. rcv - Isn(f.src) - 1 <= Size /\ rcv # FinSeq(f.src) + 1
      BY SMTT(60), <2>1, <1>2, <1>4
    <3>3. Counted(f.src, rcv) = rcv - Isn(f.src) - 1
      BY <3>2, <1>2, <1>4 DEF Counted, Smaller
    <3> QED BY <3>1, <3>2, <3>3, <1>1 DEF Typed, TypeOK
  <2>8. /\ Len(got) \in Nat /\ Len(got) + f.len <= Size
        /\ Len(got) + f.len = rcv + f.len - Isn(f.src) - 1
    <3>1. Len(got) \in Nat /\ Len(got) = rcv - Isn(f.src) - 1
      BY <2>7
    <3>2. rcv + f.len <= Isn(f.src) + Size + 1
      BY <2>1, <1>4
    <3> QED BY SMTT(60), <3>1, <3>2, <1>2, <1>4
  <2>9. /\ got' \in Seq(Servers \X (1..Size)) /\ Len(got') = Len(got) + f.len
        /\ \A j \in 1..Len(got') : got'[j] = Byte(f.src, j)
    <3>1. CASE f.len > 0
      <4>1. got' = got \o Payload(f.src, rcv, f.len)
        BY <2>4, <3>1
      <4>2. /\ Len(got) + f.len <= Size /\ rcv \in Nat /\ f.len \in Nat /\ f.src \in Servers
            /\ got \in Seq(Servers \X (1..Size)) /\ (f.len > 0 => rcv - Isn(f.src) - 1 = Len(got))
            /\ \A j \in 1..Len(got) : got[j] = Byte(f.src, j)
        BY <1>2, <1>4, <2>7, <2>8
      <4>3. Continues(f.src, got, rcv, f.len)
        BY <4>2 DEF Continues, Prefix
      <4>4. Prefix(f.src, got \o Payload(f.src, rcv, f.len), Len(got) + f.len)
        BY <4>3, Copied
      <4> QED BY <4>1, <4>4 DEF Prefix
    <3>2. CASE f.len = 0
      BY <2>4, <2>7, <2>8, <3>2, <1>4
    <3> QED BY <3>1, <3>2, <1>4
  <2>10. Counted(f.src, next) = Len(got')
    <3>1. PICK l : l = Len(got')
      OBVIOUS
    <3>2. l = rcv + f.len - Isn(f.src) - 1 /\ l <= Size
      BY <3>1, <2>8, <2>9
    <3>3. CASE f.fin
      <4>0. rcv + f.len = Isn(f.src) + Size + 1 /\ next = rcv + f.len + 1
        BY <3>3, <2>1, <2>2, <1>4
      <4>1. l = Size /\ next - Isn(f.src) - 1 = Size + 1
        <5>1. \A r, m, b, z, x \in Int : r + m = b + z + 1 /\ x = r + m + 1 =>
                r + m - b - 1 = z /\ x - b - 1 = z + 1
          OBVIOUS
        <5>2. rcv \in Int /\ f.len \in Int /\ Isn(f.src) \in Int /\ Size \in Int /\ next \in Int
          BY <1>2, <1>4, <2>3
        <5> QED BY SMTT(60), <5>1, <5>2, <3>2, <4>0
      <4> QED BY <3>1, <4>1, <1>2 DEF Counted, Smaller
    <3>4. CASE ~f.fin
      <4>1. next - Isn(f.src) - 1 = l
        BY SMTT(60), <3>2, <3>4, <2>2, <1>2, <1>4
      <4> QED BY <3>1, <3>2, <4>1, <1>2 DEF Counted, Smaller
    <3> QED BY <3>3, <3>4
  <2>11. f.fin => next = FinSeq(f.src) + 1
    BY <2>1, <2>2, <1>2, <1>4
  <2>12. pendingFin' => f.fin /\ pendingFin' = TRUE
    BY <2>4, <2>7, <1>4
  <2>13. pendingFin' \in BOOLEAN /\ closed' \in BOOLEAN
    BY <2>4, <1>1 DEF Typed, TypeOK
  <2>14. ClientTyped'
    BY <1>1, <1>3, <2>3, <2>4, <2>9, <2>13 DEF Typed, TypeOK, ClientTyped
  <2>15. /\ \A c \in Servers : c > conn => result'[c] = "none"
         /\ phase' # "idle" => result'[conn] = "none"
         /\ result'[conn] \in {"none", "eof"} /\ (result'[conn] = "eof" => f.fin)
         /\ phase' \in {"ready", "idle"}
         /\ "eof" \in Results /\ (result' = result \/ result' = [result EXCEPT ![conn] = "eof"])
    <3>1. "eof" \in Results
      BY DEF Results
    <3>2. CASE f.len > 0
      BY <3>1, <3>2, <2>4, <1>2, <1>6
    <3>3. CASE ~(f.len > 0)
      <4>1. f.fin
        BY <3>3, <1>4, <1>10 DEF Data
      <4>2. result' = [result EXCEPT ![conn] = "eof"] /\ phase' = "idle"
        BY <2>4, <3>3
      <4> QED BY <3>1, <4>1, <4>2, <1>2, <1>6, <1>8
    <3> QED BY <3>2, <3>3
  <2>16. CallOK'
    BY <1>2, <1>3, <2>3, <2>4, <2>15 DEF CallOK
  <2>17. At(f.src)'
    <3>1. /\ Isn(f.src) + 1 <= rcv' /\ rcv' <= FinSeq(f.src) + 1 /\ Len(got') <= Size
      BY <2>1, <2>3, <2>4, <2>8, <2>9, <1>2, <1>4
    <3>2. kind' = "tls" /\ conn' = conn /\ Len(got') = Counted(f.src, rcv')
      BY <2>4, <2>10, <1>2, <1>3
    <3>3. (pendingFin' \/ result'[conn] = "eof") => rcv' = FinSeq(f.src) + 1
      BY <2>4, <2>11, <2>12, <2>15
    <3> QED BY <2>9, <3>1, <3>2, <3>3 DEF At
  <2>18. ReadOK'
    BY <1>3, <1>4, <2>17 DEF ReadOK
  <2>19. ASSUME CleanStart PROVE NoGap' /\ OwnEnd'
    <3>1. Data(toC[i]) /\ rcv' = SegEnd(toC[i]) /\ rcv' \in Nat
      BY <1>0, <1>10, <2>3, <2>4 DEF next
    <3> QED BY <1>2, <1>3, <2>19, <3>1, HeadTaken
  <2>20. rcv <= rcv'
    BY <2>3, <2>4, <1>2
  <2> QED BY <1>2, <1>3, <2>6, <2>14, <2>15, <2>16, <2>18, <2>19, <2>20, TakeKeeps
<1> QED BY <1>9, <1>10

\* What the one-shot fetch has read: as much as there was room for.
HttpAt(s) == /\ At(s) /\ rcv <= FinSeq(s) /\ Len(got) = Smaller(rcv - Isn(s) - 1, Room)
             /\ Len(got) <= rcv - Isn(s) - 1

LEMMA HttpReads ==
  ASSUME TcpConstants, Typed, kind = "http", conn > 0, result[conn] = "none",
         NEW s \in 1..conn, At(s)
  PROVE  HttpAt(s) /\ s \in Servers
<1>1. /\ s \in Servers /\ rcv \in Nat /\ Isn(s) \in Nat /\ Size \in Nat /\ Room \in Nat
      /\ FinSeq(s) = Isn(s) + Size + 1
  <2>1. s \in Servers
    BY Basics DEF Servers, TcpConstants
  <2> QED BY <2>1, Basics
<1>2. rcv <= FinSeq(s) /\ Len(got) = Smaller(Counted(s, rcv), Room) /\ Isn(s) + 1 <= rcv
  BY DEF At
<1>3. Counted(s, rcv) = rcv - Isn(s) - 1
  BY <1>1, <1>2 DEF Counted, Smaller
<1>4. Len(got) <= rcv - Isn(s) - 1
  BY <1>1, <1>2, <1>3 DEF Smaller
<1> QED BY <1>1, <1>2, <1>3, <1>4 DEF HttpAt

\* A frame of the receive loop of tcp_http_get, cut into its two decisions.
LEMMA HttpStep ==
  ASSUME TcpConstants, TcpInv, NEW i \in 1..Len(toC), HttpRecv(i), NEW f, f = toC[i],
         NEW d \in BOOLEAN, d = (f.len > 0 /\ f.seq = rcv)
  PROVE  /\ conn > 0 /\ conn \in Servers /\ kind = "http" /\ phase = "recv"
         /\ result[conn] = "none" /\ rcv \in Nat \ {0}
         /\ i \in Arrivals(toC) /\ toC' = Without(toC, i)
         /\ UNCHANGED <<mode, conn, kind, reqSent, pendingFin, closed, srv>>
         /\ rcv' = rcv + (IF d THEN f.len ELSE 0) + (IF f.fin THEN 1 ELSE 0)
         /\ rcv' \in Nat /\ rcv <= rcv'
         /\ IF f.fin THEN result' = [result EXCEPT ![conn] = "eof"] /\ phase' = "idle"
                     ELSE UNCHANGED <<result, phase>>
         /\ toS' \in Seq(Asked) /\ AcksOK' /\ OthersSame
         /\ got' = got \o Payload(f.src, f.seq, IF d THEN Smaller(f.len, Room - Len(got)) ELSE 0)
<1>1. /\ Typed /\ CallOK /\ FramesOK /\ AcksOK
  BY DEF TcpInv
<1>2. conn > 0 /\ conn \in Servers /\ result[conn] = "none" /\ rcv \in Nat \ {0}
  BY <1>1, Basics DEF CallOK, HttpRecv
<1>3. f.len \in Nat /\ f.fin \in BOOLEAN
  BY <1>1, Frame DEF TcpFrames
<1> DEFINE next == IF d THEN rcv + f.len ELSE rcv
           acks == (IF d THEN <<ToServer(conn, "ack", next, 1)>> ELSE <<>>)
                   \o (IF f.fin THEN <<ToServer(conn, "ack", next + 1, 1),
                                       ToServer(conn, "fin", next + 1, 1)>>
                                ELSE <<>>)
<1>4. /\ kind = "http" /\ phase = "recv" /\ i \in Arrivals(toC) /\ toC' = Without(toC, i)
      /\ UNCHANGED <<mode, conn, kind, reqSent, pendingFin, closed, srv>>
      /\ rcv' = next + (IF f.fin THEN 1 ELSE 0)
      /\ toS' = toS \o acks
      /\ IF f.fin THEN result' = [result EXCEPT ![conn] = "eof"] /\ phase' = "idle"
                  ELSE UNCHANGED <<result, phase>>
      /\ got' = got \o Payload(f.src, f.seq, IF d THEN Smaller(f.len, Room - Len(got)) ELSE 0)
  BY DEF HttpRecv, InOrder, Return
<1>5. /\ next \in Nat \ {0} /\ rcv <= next /\ next <= rcv' /\ rcv' \in Nat
      /\ f.fin => next + 1 <= rcv' /\ next + 1 \in Nat \ {0}
      /\ rcv' = rcv + (IF d THEN f.len ELSE 0) + (IF f.fin THEN 1 ELSE 0)
      /\ rcv <= rcv'
  BY SMTT(60), SMTT(60), <1>2, <1>3, <1>4
<1>6. acks \in Seq(Own(conn, rcv'))
  <2> DEFINE O == Own(conn, rcv')
             a == IF d THEN <<ToServer(conn, "ack", next, 1)>> ELSE <<>>
             b == IF f.fin THEN <<ToServer(conn, "ack", next + 1, 1),
                                  ToServer(conn, "fin", next + 1, 1)>>
                           ELSE <<>>
  <2>1. ToServer(conn, "ack", next, 1) \in O
    BY <1>2, <1>5, OwnAnswer
  <2>2. f.fin => ToServer(conn, "ack", next + 1, 1) \in O /\ ToServer(conn, "fin", next + 1, 1) \in O
    BY <1>2, <1>5, OwnAnswer
  <2> HIDE DEF next, O
  <2>3. a \in Seq(O)
    BY <2>1
  <2>4. b \in Seq(O)
    BY <2>2
  <2> HIDE DEF a, b
  <2>5. a \o b \in Seq(O)
    BY <2>3, <2>4
  <2> QED BY <2>5 DEF a, b, O
<1> HIDE DEF next, acks
<1>7. toS' \in Seq(Asked) /\ AcksOK' /\ OthersSame
  <2>1. rcv' \in Nat /\ rcv <= rcv' /\ conn' = conn
    BY <1>4, <1>5
  <2> QED BY <1>1, <1>4, <1>6, <2>1, AnsweredOwn
<1> QED BY <1>2, <1>4, <1>5, <1>7

\* Data in order, as far as there is room for it.
Offered(f) == f.len > 0 /\ f.seq = rcv

LEMMA HttpTakes ==
  ASSUME TcpConstants, TcpInv, NEW i \in 1..Len(toC), HttpRecv(i), NEW f,
         f = toC[i] /\ Offered(f)
  PROVE  /\ f.src \in 1..conn /\ f.src \in Servers
         /\ Isn(f.src) + 1 <= rcv' /\ rcv' <= FinSeq(f.src) + 1
         /\ f.fin => rcv' = FinSeq(f.src) + 1
         /\ ~f.fin => rcv' <= FinSeq(f.src)
         /\ got' \in Seq(Servers \X (1..Size)) /\ Len(got') <= Size /\ Len(got) <= Len(got')
         /\ Len(got') = Smaller(Counted(f.src, rcv'), Room)
         /\ \A j \in 1..Len(got) : got[j] = Byte(f.src, j)
         /\ \A j \in 1..Len(got') : got'[j] = Byte(f.src, j)
<1>1. Typed /\ FramesOK
  BY DEF TcpInv
<1>2. /\ conn > 0 /\ kind = "http" /\ result[conn] = "none" /\ rcv \in Nat \ {0}
      /\ rcv' = rcv + f.len + (IF f.fin THEN 1 ELSE 0)
      /\ got' = got \o Payload(f.src, f.seq, Smaller(f.len, Room - Len(got)))
  <2> f = toC[i] /\ f.len > 0 /\ f.seq = rcv
    BY DEF Offered
  <2> QED BY HttpStep
<1>3. /\ At(f.src) /\ rcv + f.len <= FinSeq(f.src) /\ (f.fin => rcv + f.len = FinSeq(f.src))
      /\ f.len \in Nat /\ Isn(f.src) + 1 <= rcv
  BY Due DEF Data, Offered
<1>4. f.src \in 1..conn /\ f.src \in Servers /\ f.fin \in BOOLEAN
  BY <1>1, Frame DEF TcpFrames
<1>5. /\ Isn(f.src) \in Nat /\ FinSeq(f.src) = Isn(f.src) + Size + 1 /\ Size \in Nat /\ Room \in Nat
  BY <1>1, <1>4, Basics
<1>6. HttpAt(f.src)
  BY <1>1, <1>2, <1>3, <1>4, HttpReads
<1>7. PICK r \in Nat, k \in Nat, b \in Nat, z \in Nat, w \in Nat, l \in Nat :
        r = rcv /\ k = f.len /\ b = Isn(f.src) /\ z = Size /\ w = Room /\ l = Len(got)
  <2>1. Len(got) \in Nat
    BY <1>1 DEF Typed, TypeOK
  <2> QED BY <2>1, <1>2, <1>3, <1>5
<1>8. PICK e \in {0, 1} : e = (IF f.fin THEN 1 ELSE 0) /\ rcv' = r + k + e
  BY <1>2, <1>7
<1>9. PICK m : m = r - b - 1
  OBVIOUS
<1>10. PICK t : t = Smaller(k, w - l)
  OBVIOUS
<1>11. /\ b + 1 <= r /\ r + k <= b + z + 1 /\ (e = 1 => r + k = b + z + 1)
       /\ l = Smaller(m, w)
  BY <1>3, <1>5, <1>6, <1>7, <1>8, <1>9 DEF HttpAt
<1>12. m \in Nat /\ m + k <= z
  BY <1>9, <1>11
<1>13. /\ t \in Nat /\ l + t = Smaller(m + k, w) /\ l + t <= z /\ l <= l + t
       /\ t > 0 => l = m
  BY <1>10, <1>11, <1>12 DEF Smaller
<1>14. \A j \in 1..Len(got) : got[j] = Byte(f.src, j)
  BY <1>3 DEF At
<1>15. /\ got' \in Seq(Servers \X (1..Size)) /\ Len(got') = l + t
       /\ \A j \in 1..(l + t) : got'[j] = Byte(f.src, j)
  <2>1. got \in Seq(Servers \X (1..Size))
    BY <1>1 DEF Typed, TypeOK
  <2>2. /\ t > 0 => rcv - Isn(f.src) - 1 = Len(got)
        /\ Len(got) + t <= Size /\ t \in Nat /\ rcv \in Nat /\ f.src \in Servers
    BY <1>2, <1>4, <1>7, <1>9, <1>13
  <2>3. got' = got \o Payload(f.src, rcv, t)
    BY <1>2, <1>7, <1>10 DEF Offered
  <2>4. /\ got \o Payload(f.src, rcv, t) \in Seq(Servers \X (1..Size))
        /\ Len(got \o Payload(f.src, rcv, t)) = Len(got) + t
        /\ \A j \in 1..(Len(got) + t) : (got \o Payload(f.src, rcv, t))[j] = Byte(f.src, j)
    <3>1. /\ Len(got) + t <= Size /\ rcv \in Nat /\ t \in Nat /\ f.src \in Servers
          /\ got \in Seq(Servers \X (1..Size)) /\ (t > 0 => rcv - Isn(f.src) - 1 = Len(got))
          /\ \A j \in 1..Len(got) : got[j] = Byte(f.src, j)
      BY <1>14, <2>1, <2>2
    <3>2. Continues(f.src, got, rcv, t)
      BY <3>1 DEF Continues, Prefix
    <3>3. Prefix(f.src, got \o Payload(f.src, rcv, t), Len(got) + t)
      BY <3>2, Copied
    <3> QED BY <3>3 DEF Prefix
  <2> QED BY <2>3, <2>4, <1>7
<1>16. Counted(f.src, rcv') = m + k
  <2>1. rcv' - Isn(f.src) - 1 = m + k + e
    <3>1. (r + k + e) - b - 1 = m + k + e
      BY <1>9
    <3> QED BY <3>1, <1>7, <1>8
  <2>2. e = 1 => m + k = z
    BY <1>9, <1>11
  <2>3. Smaller(m + k + e, z) = m + k
    BY <2>2, <1>12 DEF Smaller
  <2> QED BY <2>1, <2>3, <1>7 DEF Counted
<1>17. /\ Isn(f.src) + 1 <= rcv' /\ rcv' <= FinSeq(f.src) + 1
       /\ f.fin => rcv' = FinSeq(f.src) + 1
       /\ ~f.fin => rcv' <= FinSeq(f.src)
  <2>1. /\ b + 1 <= r + k + e /\ r + k + e <= (b + z + 1) + 1
        /\ e = 1 => r + k + e = (b + z + 1) + 1
        /\ e = 0 => r + k + e <= b + z + 1
    BY <1>11
  <2> QED BY <2>1, <1>5, <1>7, <1>8
<1>18. Len(got') = Smaller(Counted(f.src, rcv'), Room) /\ Len(got') <= Size /\ Len(got) <= Len(got')
  BY <1>7, <1>13, <1>15, <1>16
<1> QED BY <1>4, <1>14, <1>15, <1>17, <1>18

LEMMA HttpRecvKeeps ==
  ASSUME TcpConstants, TcpInv, NEW i \in 1..Len(toC), HttpRecv(i)
  PROVE  TcpInv'
<1>0. PICK f : f = toC[i]
  OBVIOUS
<1> DEFINE dd == f.len > 0 /\ f.seq = rcv
<1>1. /\ Typed /\ CallOK /\ FramesOK /\ AcksOK /\ ReadOK
  BY DEF TcpInv
<1>2. dd \in BOOLEAN
  OBVIOUS
<1>3. /\ conn > 0 /\ conn \in Servers /\ kind = "http" /\ phase = "recv"
      /\ result[conn] = "none" /\ rcv \in Nat \ {0}
      /\ i \in Arrivals(toC) /\ toC' = Without(toC, i)
      /\ UNCHANGED <<mode, conn, kind, reqSent, pendingFin, closed, srv>>
      /\ rcv' = rcv + (IF dd THEN f.len ELSE 0) + (IF f.fin THEN 1 ELSE 0)
      /\ rcv' \in Nat /\ rcv <= rcv'
      /\ IF f.fin THEN result' = [result EXCEPT ![conn] = "eof"] /\ phase' = "idle"
                  ELSE UNCHANGED <<result, phase>>
      /\ toS' \in Seq(Asked) /\ AcksOK' /\ OthersSame
      /\ got' = got \o Payload(f.src, f.seq, IF dd THEN Smaller(f.len, Room - Len(got)) ELSE 0)
  BY <1>0, <1>2, HttpStep
<1>4. /\ f \in TcpFrames /\ f.src \in Servers /\ f.src \in 1..conn /\ f.src \in Nat
      /\ FrameOK(f, conn, srv[f.src]) /\ Isn(f.src) \in Nat /\ Size \in Nat /\ Room \in Nat
      /\ FinSeq(f.src) = Isn(f.src) + Size + 1 /\ f.len \in Nat /\ f.seq \in Nat
      /\ f.fin \in BOOLEAN /\ conn \in Nat
  BY <1>0, <1>1, Frame, Basics DEF TcpFrames
<1>5. PICK s \in 1..conn : At(s)
  BY <1>1, <1>3 DEF ReadOK
<1>6. HttpAt(s) /\ s \in Servers /\ Isn(s) \in Nat /\ FinSeq(s) = Isn(s) + Size + 1 /\ s \in Nat
  <2>1. HttpAt(s) /\ s \in Servers
    BY <1>1, <1>3, <1>5, HttpReads
  <2> QED BY <2>1, <1>1, Basics
<1>7. /\ result \in [Servers -> Results] /\ \A c \in Servers : c \in Nat
      /\ \A c \in Servers : c > conn => result[c] = "none"
  BY <1>1, Basics DEF Typed, TypeOK, Results, CallOK
<1>8. /\ \A c \in Servers : c > conn => result'[c] = "none"
      /\ phase' # "idle" => result'[conn] = "none"
      /\ result'[conn] = (IF f.fin THEN "eof" ELSE "none")
      /\ "eof" \in Results /\ (result' = result \/ result' = [result EXCEPT ![conn] = "eof"])
      /\ CleanStart' = CleanStart
      /\ phase' \in {"recv", "idle"}
  <2>1. "eof" \in Results
    BY DEF Results
  <2>2. result' = result \/ result' = [result EXCEPT ![conn] = "eof"]
    BY <1>3
  <2>3. CleanStart' = CleanStart
    BY <1>1, <1>3, <2>1, <2>2, SameStart
  <2>4. CASE f.fin
    BY <2>1, <2>2, <2>3, <2>4, <1>3, <1>4, <1>7
  <2>5. CASE ~f.fin
    BY <2>1, <2>2, <2>3, <2>5, <1>3, <1>4, <1>7
  <2> QED BY <2>4, <2>5
<1>9. CleanStart /\ Data(f) => i = 1 /\ f.seq = rcv
  <2>1. CleanStart => i = 1
    BY <1>3 DEF CleanStart, Arrivals
  <2> QED BY <2>1, <1>0, HeadDue
<1>10. CallOK' /\ rcv' # 0
  BY <1>1, <1>3, <1>8 DEF CallOK
<1>11. ReadOK' /\ got' \in Seq(Servers \X (1..Size))
  <2>1. CASE dd
    <3>1. /\ Isn(f.src) + 1 <= rcv' /\ rcv' <= FinSeq(f.src) + 1
          /\ f.fin => rcv' = FinSeq(f.src) + 1
          /\ ~f.fin => rcv' <= FinSeq(f.src)
          /\ got' \in Seq(Servers \X (1..Size)) /\ Len(got') <= Size
          /\ Len(got') = Smaller(Counted(f.src, rcv'), Room)
          /\ \A j \in 1..Len(got') : got'[j] = Byte(f.src, j)
      BY <1>0, <2>1, HttpTakes DEF Offered
    <3>2. At(f.src)'
      BY <3>1, <1>3, <1>8 DEF At
    <3> QED BY <3>1, <3>2, <1>3, <1>4 DEF ReadOK
  <2>2. CASE ~dd
    <3>1. /\ got' = got /\ got \in Seq(Servers \X (1..Size))
          /\ rcv' = rcv + (IF f.fin THEN 1 ELSE 0)
      <4>1. got \in Seq(Servers \X (1..Size))
        BY <1>1 DEF Typed, TypeOK
      <4>2. Payload(f.src, f.seq, 0) = <<>>
        BY DEF Payload
      <4>3. got' = got \o Payload(f.src, f.seq, 0)
        BY <1>3, <2>2
      <4>4. rcv' = rcv + (IF f.fin THEN 1 ELSE 0)
        BY <1>3, <1>4, <2>2
      <4> QED BY <4>1, <4>2, <4>3, <4>4
    <3>2. /\ Isn(s) + 1 <= rcv /\ rcv <= FinSeq(s) /\ Len(got) <= Size
          /\ \A j \in 1..Len(got) : got[j] = Byte(s, j)
          /\ Len(got) = Smaller(rcv - Isn(s) - 1, Room)
      BY <1>5, <1>6 DEF At, HttpAt
    <3>6. PICK e \in {0, 1} : e = (IF f.fin THEN 1 ELSE 0) /\ rcv' = rcv + e
      BY <3>1
    <3>7. rcv \in Nat /\ Isn(s) \in Nat /\ FinSeq(s) \in Nat
      BY SMTT(60), <1>3, <1>4, <1>6
    <3>3. Isn(s) + 1 <= rcv' /\ rcv' <= FinSeq(s) + 1 /\ (~f.fin => rcv' = rcv)
      BY <3>2, <3>6, <3>7
    <3>4. CASE ~f.fin
      <4>1. At(s)'
        BY <3>1, <3>2, <3>3, <3>4, <1>3, <1>5, <1>8 DEF At
      <4> QED BY <4>1, <3>1, <1>3 DEF ReadOK
    <3>5. CASE f.fin
      <4>1. ASSUME CleanStart
            PROVE  rcv' = FinSeq(s) + 1 /\ Len(got) = Smaller(Counted(s, rcv'), Room)
        <5>1. f.seq = rcv /\ f.len = 0
          BY <4>1, <3>5, <2>2, <1>4, <1>9 DEF Data
        <5>2. Data(f) /\ ~(f.len > 0)
          BY <5>1, <3>5 DEF Data
        <5>3. /\ At(f.src) /\ rcv + f.len = FinSeq(f.src) /\ Isn(f.src) + 1 <= rcv
          BY <1>0, <3>5, <5>1, <5>2, Due
        <5>4. f.src = s
          <6>0. FinSeq(f.src) \in Nat /\ rcv = FinSeq(f.src)
            BY <3>7, <5>1, <5>3, <1>4
          <6>1. rcv <= FinSeq(f.src) + 1 /\ rcv <= FinSeq(s) + 1 /\ rcv \in Nat
            BY <3>2, <3>7, <6>0
          <6> QED BY <6>1, <3>2, <5>3, <1>4, <1>6, OneServer
        <5>5. rcv = FinSeq(s) /\ rcv' = rcv + 1
          BY <5>1, <5>3, <5>4, <3>1, <3>5, <3>7
        <5>6. rcv - Isn(s) - 1 = Size /\ rcv' - Isn(s) - 1 = Size + 1
          <6>1. \A b, z \in Nat : (b + z + 1) - b - 1 = z /\ (b + z + 1 + 1) - b - 1 = z + 1
            OBVIOUS
          <6>2. rcv = Isn(s) + Size + 1 /\ rcv' = Isn(s) + Size + 1 + 1
            BY <5>5, <1>6
          <6> QED BY <6>1, <6>2, <3>7, <1>4
        <5>7. Counted(s, rcv') = Size
          BY <5>6, <1>4 DEF Counted, Smaller
        <5> QED BY <5>5, <5>6, <5>7, <3>2
      <4>2. At(s)'
        BY <4>1, <3>1, <3>2, <3>3, <3>5, <1>3, <1>8 DEF At
      <4> QED BY <4>2, <3>1, <1>3 DEF ReadOK
    <3> QED BY <3>4, <3>5
  <2> QED BY <2>1, <2>2
<1>12. ClientTyped'
  BY <1>1, <1>3, <1>8, <1>11 DEF Typed, TypeOK, ClientTyped
<1>13. ASSUME CleanStart PROVE NoGap' /\ OwnEnd'
  <2>1. rcv' = IF Data(f) THEN SegEnd(f) ELSE rcv
    BY <1>3, <1>4, <1>9, <1>13 DEF Data, SegEnd
  <2>2. ~Data(f) => result'[conn] # "eof"
    BY <1>8 DEF Data
  <2> QED BY <1>0, <1>3, <1>13, <2>1, <2>2, HeadTaken
<1> HIDE DEF dd
<1> QED BY <1>3, <1>8, <1>10, <1>11, <1>12, <1>13, TakeKeeps

------------------------------------------------------------------------------
(* Steps of the servers and of the network.                                  *)

\* The client's own part of the invariant does not look at them.
LEMMA WorldKeeps ==
  ASSUME TcpConstants, TcpInv, UNCHANGED <<mode, client>>,
         srv' \in [Servers -> Machines], toC' \in Seq(TcpFrames), toS' \in Seq(Asked),
         ServersOK', FramesOK', AcksOK', BelievedOK',
         CleanStart => OnlyThis' /\ NoGap'
  PROVE  TcpInv'
<1>1. /\ Typed /\ CallOK /\ ReadOK
  BY DEF TcpInv
<1>2. UNCHANGED <<mode, conn, kind, phase, rcv, reqSent, pendingFin, closed, got, result>>
  BY DEF client
<1>3. Typed'
  BY <1>1, <1>2 DEF Typed, TypeOK
<1>4. CallOK'
  BY <1>1, <1>2 DEF CallOK
<1>5. ReadOK'
  <2>1. \A s \in 1..conn : At(s) => At(s)'
    BY <1>2 DEF At, CleanStart
  <2> QED BY <2>1, <1>1, <1>2 DEF ReadOK
<1>6. InOrderOK'
  <2> SUFFICES ASSUME CleanStart PROVE (OnlyThis /\ NoGap /\ OwnEnd)'
    BY <1>2 DEF InOrderOK, CleanStart
  <2>1. OwnEnd'
    BY <1>2 DEF TcpInv, InOrderOK, OwnEnd
  <2> QED BY <2>1
<1> QED BY <1>3, <1>4, <1>5, <1>6 DEF TcpInv

LEMMA Segments ==
  ASSUME TcpConstants, NEW s \in Servers, NEW q \in Nat, NEW fin \in BOOLEAN,
         Isn(s) + 1 <= q, q <= FinSeq(s), NEW f, f = Segment(s, q, fin)
  PROVE  /\ f \in TcpFrames /\ f.src = s /\ ~f.syn /\ ~f.rst /\ f.seq = q
         /\ f.len \in Nat /\ q + f.len <= FinSeq(s) /\ (f.fin => q + f.len = FinSeq(s))
         /\ SegEnd(f) \in Nat /\ q <= SegEnd(f) /\ SegEnd(f) <= FinSeq(s) + 1
<1>1. Isn(s) \in Nat /\ FinSeq(s) = Isn(s) + Size + 1 /\ Size \in Nat /\ Mss \in Nat
  <2>1. s \in Nat
    BY DEF Servers, TcpConstants
  <2> QED BY <2>1, IsnFacts DEF TcpConstants
<1>2. PICK n : n = Smaller(Mss, FinSeq(s) - q)
  OBVIOUS
<1>3. n \in Nat /\ q + n <= FinSeq(s)
  BY <1>1, <1>2 DEF Smaller
<1>4. f = [src |-> s, syn |-> FALSE, fin |-> fin /\ q + n = FinSeq(s), rst |-> FALSE,
           seq |-> q, ackOf |-> "none", len |-> n]
  BY <1>2 DEF Segment, FromServer
<1>5. /\ f.src = s /\ ~f.syn /\ ~f.rst /\ f.seq = q /\ f.len = n
      /\ f.fin = (fin /\ q + n = FinSeq(s)) /\ f \in TcpFrames
  BY <1>3, <1>4 DEF TcpFrames
<1>6. PICK e \in {0, 1} : e = (IF f.fin THEN 1 ELSE 0) /\ SegEnd(f) = q + n + e
  BY <1>5 DEF SegEnd
<1>7. f.fin => q + n = FinSeq(s)
  BY <1>5
<1>8. FinSeq(s) \in Nat
  BY <1>1
<1>9. q + n + e \in Nat /\ q <= q + n + e /\ q + n + e <= FinSeq(s) + 1
  BY <1>3, <1>6, <1>8
<1> QED BY <1>3, <1>5, <1>6, <1>7, <1>9

LEMMA SrvSendKeeps ==
  ASSUME TcpConstants, TcpInv, NEW s \in Servers, NEW fin \in BOOLEAN, SrvSend(s, fin)
  PROVE  TcpInv'
<1>1. /\ Typed /\ ServersOK /\ FramesOK /\ AcksOK /\ BelievedOK
      /\ toC \in Seq(TcpFrames) /\ toS \in Seq(Asked) /\ srv \in [Servers -> Machines]
  BY DEF TcpInv, Typed
<1>2. PICK f : f = Segment(s, srv[s].nxt, fin)
  OBVIOUS
<1>3. /\ srv[s].st = "established" /\ srv[s].nxt <= FinSeq(s) /\ Data(f)
      /\ toC' = Append(toC, f)
      /\ srv' = [srv EXCEPT ![s].nxt = SegEnd(f)]
      /\ UNCHANGED <<mode, client, toS>>
  BY <1>2 DEF SrvSend, Data
<1>4. /\ conn \in Nat /\ rcv \in Nat /\ s \in Nat /\ Isn(s) \in Nat
      /\ FinSeq(s) = Isn(s) + Size + 1 /\ Size \in Nat
      /\ srv[s] \in Machines /\ srv[s].una \in Nat /\ srv[s].nxt \in Nat
  BY <1>1, Basics
<1>5. /\ s <= conn /\ Isn(s) + 1 <= srv[s].una /\ srv[s].una <= srv[s].nxt
  BY <1>1, <1>3 DEF ServersOK, ServerOK
<1>6. /\ f \in TcpFrames /\ f.src = s /\ ~f.syn /\ ~f.rst /\ f.seq = srv[s].nxt
      /\ f.len \in Nat /\ f.seq + f.len <= FinSeq(s) /\ (f.fin => f.seq + f.len = FinSeq(s))
      /\ SegEnd(f) \in Nat /\ srv[s].nxt <= SegEnd(f) /\ SegEnd(f) <= FinSeq(s) + 1
  <2>1. Isn(s) + 1 <= srv[s].nxt
    BY <1>4, <1>5
  <2> QED BY SMTT(60), <1>2, <1>3, <1>4, <2>1, Segments
<1>7. UNCHANGED <<mode, conn, kind, phase, rcv, reqSent, pendingFin, closed, got, result, toS>>
  BY <1>3 DEF client
<1>8. /\ srv' \in [Servers -> Machines]
      /\ \A c \in Servers \ {s} : srv'[c] = srv[c]
      /\ srv'[s].nxt = SegEnd(f) /\ srv'[s].una = srv[s].una /\ srv'[s].st = srv[s].st
  BY <1>1, <1>3, <1>4, <1>6 DEF Machines
<1>9. ServersOK'
  <2> SUFFICES ASSUME NEW c \in Servers PROVE ServerOK(c, srv'[c], conn)
    BY <1>7 DEF ServersOK
  <2>1. ServerOK(c, srv[c], conn)
    BY <1>1 DEF ServersOK
  <2>2. CASE c # s
    BY <2>1, <2>2, <1>8
  <2>3. CASE c = s
    BY SMTT(60), <2>1, <2>3, <1>3, <1>4, <1>5, <1>6, <1>8 DEF ServerOK
  <2> QED BY <2>2, <2>3
<1>10. \A j \in 1..Len(toC) : FrameOK(toC[j], conn', srv'[toC[j].src])
  <2> SUFFICES ASSUME NEW j \in 1..Len(toC) PROVE FrameOK(toC[j], conn, srv'[toC[j].src])
    BY <1>7
  <2>1. /\ FrameOK(toC[j], conn, srv[toC[j].src]) /\ toC[j].src \in Servers
        /\ Data(toC[j]) => SegEnd(toC[j]) \in Nat
    BY <1>1, Frame
  <2>2. CASE toC[j].src # s
    BY <2>1, <2>2, <1>8
  <2>3. CASE toC[j].src = s
    BY <2>1, <2>3, <1>4, <1>6, <1>8 DEF FrameOK
  <2> QED BY <2>2, <2>3
<1>11. FrameOK(f, conn', srv'[f.src])
  <2>1. f.src <= conn' /\ SegEnd(f) <= srv'[s].nxt /\ Isn(s) + 1 <= f.seq
    BY <1>4, <1>5, <1>6, <1>7, <1>8
  <2> QED BY <2>1, <1>6 DEF FrameOK
<1>12. toC' \in Seq(TcpFrames) /\ FramesOK'
  BY <1>1, <1>3, <1>6, <1>10, <1>11, Sent
<1>13. AcksOK' /\ BelievedOK'
  <2>1. AcksOK'
    BY <1>1, <1>7 DEF AcksOK
  <2>2. conn > 0 => conn \in Servers
    BY <1>1, Basics
  <2>3. \A c \in Servers : srv'[c].una = srv[c].una
    BY <1>8
  <2> QED BY <2>1, <2>2, <2>3, <1>1, <1>7 DEF BelievedOK
<1>14. ASSUME CleanStart PROVE OnlyThis' /\ NoGap'
  <2>1. OnlyThis /\ NoGap
    BY <1>14 DEF TcpInv, InOrderOK
  <2>2. s = conn
    <3> SUFFICES ASSUME s # conn PROVE FALSE
      OBVIOUS
    <3>1. s \in 1..(conn - 1)
      BY <1>4, <1>5 DEF Servers
    <3>2. srv[s].nxt = FinSeq(s) + 1
      BY <2>1, <3>1, <1>3 DEF OnlyThis
    <3> QED BY <3>2, <1>3, <1>4
  <2>3. /\ Len(toC') = Len(toC) + 1 /\ Len(toC) \in Nat
        /\ \A j \in 1..Len(toC) : toC'[j] = toC[j]
        /\ toC'[Len(toC) + 1] = f
    BY <1>1, <1>3, <1>6
  <2>4. OnlyThis'
    <3>1. \A j \in 1..Len(toC') : Data(toC'[j]) => toC'[j].src = conn
      BY <2>1, <2>2, <2>3, <1>6 DEF OnlyThis
    <3>2. \A c \in 1..(conn - 1) : c # s /\ c \in Servers /\ srv'[c] = srv[c]
      <4> SUFFICES ASSUME NEW c \in 1..(conn - 1)
                   PROVE  c # s /\ c \in Servers /\ srv'[c] = srv[c]
        OBVIOUS
      <4>1. conn \in 1..Conns /\ Conns \in Nat
        BY <2>2 DEF Servers, TcpConstants
      <4>2. c \in Servers /\ c # s
        BY <4>1, <2>2 DEF Servers
      <4> QED BY <4>2, <1>8
    <3> QED BY <2>1, <3>1, <3>2, <1>7 DEF OnlyThis
  <2>5. NoGap'
    <3> SUFFICES ASSUME conn > 0, Isn(conn) + 1 <= rcv PROVE NoGap'
      BY <1>7 DEF NoGap
    <3>1. /\ rcv <= srv[conn].nxt
          /\ \A i \in 1..Len(toC) : Data(toC[i]) => rcv <= toC[i].seq
          /\ \A i, j \in 1..Len(toC) :
               i < j /\ Data(toC[i]) /\ Data(toC[j]) => SegEnd(toC[i]) <= toC[j].seq
          /\ \A q \in Nat : rcv <= q /\ q < srv[conn].nxt =>
               \E i \in 1..Len(toC) : Data(toC[i]) /\ toC[i].seq <= q /\ q < SegEnd(toC[i])
      BY <2>1 DEF NoGap
    <3>2. rcv <= srv'[conn].nxt /\ rcv <= f.seq
      BY <3>1, <2>2, <1>4, <1>6, <1>8
    <3>3. \A i \in 1..Len(toC') : Data(toC'[i]) => rcv <= toC'[i].seq
      BY <2>3, <3>1, <3>2
    <3>4. \A i \in 1..Len(toC) : Data(toC[i]) => SegEnd(toC[i]) <= f.seq
      <4> SUFFICES ASSUME NEW i \in 1..Len(toC), Data(toC[i]) PROVE SegEnd(toC[i]) <= f.seq
        OBVIOUS
      <4>1. toC[i].src = s
        BY <2>1, <2>2 DEF OnlyThis
      <4>2. FrameOK(toC[i], conn, srv[toC[i].src])
        BY <1>1 DEF FramesOK
      <4> QED BY <4>1, <4>2, <1>6 DEF FrameOK
    <3>5. \A i, j \in 1..Len(toC') :
            i < j /\ Data(toC'[i]) /\ Data(toC'[j]) => SegEnd(toC'[i]) <= toC'[j].seq
      <4> SUFFICES ASSUME NEW i \in 1..Len(toC'), NEW j \in 1..Len(toC'), i < j,
                          Data(toC'[i]), Data(toC'[j])
                   PROVE  SegEnd(toC'[i]) <= toC'[j].seq
        OBVIOUS
      <4>1. i \in 1..Len(toC) /\ toC'[i] = toC[i]
        BY <2>3
      <4>2. CASE j = Len(toC) + 1
        BY <4>1, <4>2, <2>3, <3>4
      <4>3. CASE j \in 1..Len(toC)
        BY <4>1, <4>3, <2>3, <3>1
      <4> QED BY <4>2, <4>3, <2>3
    <3>6. ASSUME NEW q \in Nat, rcv <= q, q < srv'[conn].nxt
          PROVE  \E i \in 1..Len(toC') : Data(toC'[i]) /\ toC'[i].seq <= q /\ q < SegEnd(toC'[i])
      <4>1. CASE q < srv[conn].nxt
        <5>1. PICK i \in 1..Len(toC) : Data(toC[i]) /\ toC[i].seq <= q /\ q < SegEnd(toC[i])
          BY <3>1, <3>6, <4>1
        <5> QED BY <5>1, <2>3
      <4>2. CASE ~(q < srv[conn].nxt)
        <5>1. Data(f) /\ f.seq <= q /\ q < SegEnd(f)
          BY <4>2, <3>6, <2>2, <1>3, <1>4, <1>6, <1>8
        <5>2. Len(toC) + 1 \in 1..Len(toC')
          BY <2>3
        <5> QED BY <5>1, <5>2, <2>3
      <4> QED BY <4>1, <4>2
    <3> QED BY <3>2, <3>3, <3>5, <3>6, <1>7 DEF NoGap
  <2> QED BY <2>4, <2>5
<1> QED BY <1>1, <1>3, <1>7, <1>8, <1>9, <1>12, <1>13, <1>14, WorldKeeps

\* A server changes: what its frames rest on only grows.
LEMMA MachineStep ==
  ASSUME TcpConstants, TcpInv, UNCHANGED <<mode, client>>, NEW s \in Servers, NEW t \in Machines,
         srv' = [srv EXCEPT ![s] = t], ServerOK(s, t, conn), srv[s].nxt <= t.nxt,
         srv[s].st # "listen" => t.st # "listen",
         s = conn => t.una <= Isn(conn) \/ t.una <= rcv
  PROVE  /\ srv' \in [Servers -> Machines] /\ srv'[s] = t
         /\ \A c \in Servers \ {s} : srv'[c] = srv[c]
         /\ ServersOK' /\ BelievedOK'
         /\ \A j \in 1..Len(toC) : FrameOK(toC[j], conn', srv'[toC[j].src])
<1>1. /\ Typed /\ ServersOK /\ FramesOK /\ BelievedOK /\ srv \in [Servers -> Machines]
  BY DEF TcpInv, Typed
<1>2. conn' = conn /\ rcv' = rcv /\ conn \in Nat /\ (conn > 0 => conn \in Servers)
  BY <1>1, Basics DEF client
<1>3. /\ srv' \in [Servers -> Machines] /\ srv'[s] = t
      /\ \A c \in Servers \ {s} : srv'[c] = srv[c]
  BY <1>1
<1>4. ServersOK'
  <2> SUFFICES ASSUME NEW c \in Servers PROVE ServerOK(c, srv'[c], conn)
    BY <1>2 DEF ServersOK
  <2>1. ServerOK(c, srv[c], conn)
    BY <1>1 DEF ServersOK
  <2> QED BY <2>1, <1>3
<1>5. BelievedOK'
  <2>1. CASE conn = s
    BY <2>1, <1>2, <1>3 DEF BelievedOK
  <2>2. CASE conn # s
    BY <2>2, <1>1, <1>2, <1>3 DEF BelievedOK
  <2> QED BY <2>1, <2>2
<1>6. ASSUME NEW j \in 1..Len(toC) PROVE FrameOK(toC[j], conn', srv'[toC[j].src])
  <2>1. /\ FrameOK(toC[j], conn, srv[toC[j].src]) /\ toC[j].src \in Servers
        /\ Data(toC[j]) => SegEnd(toC[j]) \in Nat
    BY <1>1, Frame
  <2>2. CASE toC[j].src # s
    BY <2>1, <2>2, <1>2, <1>3
  <2>3. CASE toC[j].src = s
    <3>1. srv[s].nxt \in Nat /\ t.nxt \in Nat
      BY <1>1 DEF Machines
    <3>2. Data(toC[j]) => SegEnd(toC[j]) <= t.nxt
      BY <2>1, <2>3, <3>1 DEF FrameOK
    <3> QED BY <2>1, <2>3, <3>2, <1>2, <1>3 DEF FrameOK
  <2> QED BY <2>2, <2>3
<1> QED BY <1>3, <1>4, <1>5, <1>6

LEMMA ResendKeeps ==
  ASSUME TcpConstants, TcpInv, NEW s \in Servers, NEW fin \in BOOLEAN, Resend(s, fin)
  PROVE  TcpInv'
<1>1. /\ Typed /\ ServersOK /\ FramesOK /\ AcksOK /\ BelievedOK
      /\ toC \in Seq(TcpFrames) /\ toS \in Seq(Asked) /\ srv \in [Servers -> Machines]
  BY DEF TcpInv, Typed
<1>2. PICK f : f = (IF srv[s].st = "synrcvd" THEN FromServer(s, TRUE, FALSE, FALSE, Isn(s), srv[s].k, 0)
                    ELSE Segment(s, srv[s].una, fin))
  OBVIOUS
<1>3. PICK t : t = [srv[s] EXCEPT !.nxt = Larger(srv[s].nxt, SegEnd(f))]
  OBVIOUS
<1>4. /\ mode = "lossy" /\ toC' = Append(toC, f) /\ srv' = [srv EXCEPT ![s] = t]
      /\ \/ srv[s].st = "synrcvd"
         \/ srv[s].st = "established" /\ srv[s].una < srv[s].nxt
      /\ UNCHANGED <<mode, client, toS>>
  <2>1. f = (CASE srv[s].st = "synrcvd" ->
                    FromServer(s, TRUE, FALSE, FALSE, Isn(s), srv[s].k, 0)
               [] OTHER -> Segment(s, srv[s].una, fin))
    BY <1>2
  <2>2. srv' = [srv EXCEPT ![s].nxt = Larger(@, SegEnd(f))]
    BY <2>1 DEF Resend
  <2>3. toC' = Append(toC, f)
    BY <2>1 DEF Resend
  <2> QED BY <1>3, <2>2, <2>3 DEF Resend
<1>5. /\ conn \in Nat /\ s \in Nat /\ Isn(s) \in Nat
      /\ FinSeq(s) = Isn(s) + Size + 1 /\ Size \in Nat
      /\ srv[s] \in Machines /\ srv[s].una \in Nat /\ srv[s].nxt \in Nat /\ srv[s].k \in Kinds
  BY <1>1, Basics DEF Machines
<1>6. ServerOK(s, srv[s], conn) /\ s <= conn /\ srv[s].nxt <= FinSeq(s) + 1 /\ Isn(s) + 1 <= srv[s].nxt
  BY <1>1, <1>4 DEF ServersOK, ServerOK
<1>7. /\ f \in TcpFrames /\ f.src = s /\ ~f.rst
      /\ f.syn => f.seq = Isn(s) /\ ~Data(f) /\ srv[s].st = "synrcvd"
      /\ Data(f) => /\ ~f.syn /\ Isn(s) + 1 <= f.seq /\ f.seq + f.len <= FinSeq(s)
                    /\ f.fin => f.seq + f.len = FinSeq(s)
      /\ SegEnd(f) \in Nat /\ SegEnd(f) <= FinSeq(s) + 1
      /\ srv[s].st = "synrcvd" => SegEnd(f) <= srv[s].nxt
  <2>1. CASE srv[s].st = "synrcvd"
    <3>1. f = [src |-> s, syn |-> TRUE, fin |-> FALSE, rst |-> FALSE, seq |-> Isn(s),
               ackOf |-> srv[s].k, len |-> 0]
      BY <1>2, <2>1 DEF FromServer
    <3>2. SegEnd(f) = Isn(s) /\ ~Data(f)
      BY <3>1, <1>5 DEF SegEnd, Data
    <3> QED BY <3>1, <3>2, <2>1, <1>5, <1>6 DEF TcpFrames
  <2>2. CASE srv[s].st # "synrcvd"
    <3>1. /\ Isn(s) + 1 <= srv[s].una /\ srv[s].una <= FinSeq(s) /\ f = Segment(s, srv[s].una, fin)
      BY <2>2, <1>2, <1>4, <1>5, <1>6 DEF ServerOK
    <3>2. /\ f \in TcpFrames /\ f.src = s /\ ~f.syn /\ ~f.rst /\ f.seq = srv[s].una
          /\ f.len \in Nat /\ srv[s].una + f.len <= FinSeq(s)
          /\ (f.fin => srv[s].una + f.len = FinSeq(s))
          /\ SegEnd(f) \in Nat /\ SegEnd(f) <= FinSeq(s) + 1
      BY <3>1, <1>5, Segments
    <3> QED BY <3>1, <3>2, <2>2
  <2> QED BY <2>1, <2>2
<1>8. /\ t \in Machines /\ t.nxt \in Nat /\ srv[s].nxt <= t.nxt /\ SegEnd(f) <= t.nxt
      /\ t.nxt <= FinSeq(s) + 1
      /\ t.st = srv[s].st /\ t.una = srv[s].una
      /\ srv[s].st = "synrcvd" => t.nxt = srv[s].nxt
  <2>1. PICK x : x = Larger(srv[s].nxt, SegEnd(f))
    OBVIOUS
  <2>2. /\ x \in Nat /\ srv[s].nxt <= x /\ SegEnd(f) <= x /\ x <= FinSeq(s) + 1
        /\ srv[s].st = "synrcvd" => x = srv[s].nxt
    BY <2>1, <1>5, <1>6, <1>7 DEF Larger
  <2>3. t = [srv[s] EXCEPT !.nxt = x]
    BY <1>3, <2>1
  <2>4. t \in Machines /\ t.nxt = x /\ t.st = srv[s].st /\ t.una = srv[s].una
    BY <2>2, <2>3, <1>5 DEF Machines
  <2> QED BY <2>2, <2>4
<1>9. ServerOK(s, t, conn)
  BY <1>4, <1>5, <1>6, <1>8 DEF ServerOK
<1>10. s = conn => t.una <= Isn(conn) \/ t.una <= rcv
  BY <1>1, <1>5, <1>6, <1>8, Basics DEF BelievedOK, Servers
<1>11. /\ srv' \in [Servers -> Machines] /\ srv'[s] = t
       /\ ServersOK' /\ BelievedOK'
       /\ \A j \in 1..Len(toC) : FrameOK(toC[j], conn', srv'[toC[j].src])
  BY <1>4, <1>8, <1>9, <1>10, MachineStep
<1>12. FrameOK(f, conn', srv'[f.src])
  BY <1>4, <1>6, <1>7, <1>8, <1>11 DEF FrameOK, client
<1>13. toC' \in Seq(TcpFrames) /\ FramesOK'
  BY <1>1, <1>4, <1>7, <1>11, <1>12, Sent
<1>14. AcksOK' /\ toS' \in Seq(Asked) /\ ~CleanStart
  BY <1>1, <1>4 DEF AcksOK, client, CleanStart
<1> QED BY <1>4, <1>11, <1>13, <1>14, WorldKeeps

\* TcpFrames without data leave the data on its way as it was.
LEMMA NoDataSent ==
  ASSUME TcpConstants, Typed, OnlyThis, NoGap, UNCHANGED client, NEW f \in TcpFrames, ~Data(f),
         toC' = toC \/ toC' = Append(toC, f),
         conn > 0 /\ Isn(conn) + 1 <= rcv => srv'[conn].nxt = srv[conn].nxt
  PROVE  (\A i \in 1..Len(toC') : Data(toC'[i]) => toC'[i].src = conn) /\ NoGap'
<1>1. toC \in Seq(TcpFrames) /\ UNCHANGED <<conn, rcv>>
  BY DEF Typed, client
<1>2. CASE toC' = toC
  BY <1>1, <1>2 DEF OnlyThis, NoGap
<1>3. CASE toC' = Append(toC, f)
  <2>1. /\ Len(toC') = Len(toC) + 1 /\ Len(toC) \in Nat
        /\ \A j \in 1..Len(toC) : toC'[j] = toC[j]
        /\ toC'[Len(toC) + 1] = f
    BY <1>1, <1>3
  <2>2. \A j \in 1..Len(toC') : Data(toC'[j]) => j \in 1..Len(toC) /\ toC'[j] = toC[j]
    BY <2>1
  <2>3. \A j \in 1..Len(toC) : j \in 1..Len(toC')
    BY <2>1
  <2>4. \A i \in 1..Len(toC') : Data(toC'[i]) => toC'[i].src = conn
    BY <2>2 DEF OnlyThis
  <2>5. NoGap'
    <3> SUFFICES ASSUME conn > 0, Isn(conn) + 1 <= rcv PROVE NoGap'
      BY <1>1 DEF NoGap
    <3>1. /\ rcv <= srv[conn].nxt
          /\ \A i \in 1..Len(toC) : Data(toC[i]) => rcv <= toC[i].seq
          /\ \A i, j \in 1..Len(toC) :
               i < j /\ Data(toC[i]) /\ Data(toC[j]) => SegEnd(toC[i]) <= toC[j].seq
          /\ \A q \in Nat : rcv <= q /\ q < srv[conn].nxt =>
               \E i \in 1..Len(toC) : Data(toC[i]) /\ toC[i].seq <= q /\ q < SegEnd(toC[i])
      BY DEF NoGap
    <3>2. \A i \in 1..Len(toC') : Data(toC'[i]) => rcv <= toC'[i].seq
      BY <2>2, <3>1
    <3>3. \A i, j \in 1..Len(toC') :
            i < j /\ Data(toC'[i]) /\ Data(toC'[j]) => SegEnd(toC'[i]) <= toC'[j].seq
      BY <2>2, <3>1
    <3>4. \A q \in Nat : rcv <= q /\ q < srv[conn].nxt =>
            \E i \in 1..Len(toC') : Data(toC'[i]) /\ toC'[i].seq <= q /\ q < SegEnd(toC'[i])
      <4> SUFFICES ASSUME NEW q \in Nat, rcv <= q, q < srv[conn].nxt
                   PROVE  \E i \in 1..Len(toC') :
                            Data(toC'[i]) /\ toC'[i].seq <= q /\ q < SegEnd(toC'[i])
        OBVIOUS
      <4>1. PICK i \in 1..Len(toC) : Data(toC[i]) /\ toC[i].seq <= q /\ q < SegEnd(toC[i])
        BY <3>1
      <4> QED BY <4>1, <2>1, <2>3
    <3> QED BY <3>1, <3>2, <3>3, <3>4, <1>1 DEF NoGap
  <2> QED BY <2>4, <2>5
<1> QED BY <1>2, <1>3

LEMMA AbortKeeps ==
  ASSUME TcpConstants, TcpInv, NEW s \in Servers, Abort(s)
  PROVE  TcpInv'
<1>1. /\ Typed /\ ServersOK /\ FramesOK /\ AcksOK /\ BelievedOK
      /\ toC \in Seq(TcpFrames) /\ toS \in Seq(Asked) /\ srv \in [Servers -> Machines]
  BY DEF TcpInv, Typed
<1>2. PICK f : f = FromServer(s, FALSE, FALSE, TRUE, srv[s].nxt, "none", 0)
  OBVIOUS
<1>3. PICK t : t = [srv[s] EXCEPT !.st = "dead"]
  OBVIOUS
<1>4. /\ srv[s].st \in {"synrcvd", "established"}
      /\ toC' = Append(toC, f) /\ srv' = [srv EXCEPT ![s] = t]
      /\ UNCHANGED <<mode, client, toS>>
  BY <1>2, <1>3 DEF Abort
<1>5. /\ conn \in Nat /\ s \in Nat /\ Isn(s) \in Nat
      /\ srv[s] \in Machines /\ srv[s].una \in Nat /\ srv[s].nxt \in Nat
  BY <1>1, Basics
<1>6. ServerOK(s, srv[s], conn) /\ s <= conn
  BY <1>1, <1>4 DEF ServersOK, ServerOK
<1>7. f \in TcpFrames /\ f.src = s /\ ~f.syn /\ ~Data(f)
  BY <1>2, <1>5 DEF FromServer, TcpFrames, Data
<1>8. t \in Machines /\ t.nxt = srv[s].nxt /\ t.una = srv[s].una /\ t.st = "dead"
  BY <1>3, <1>5 DEF Machines
<1>9. ServerOK(s, t, conn)
  BY <1>4, <1>5, <1>6, <1>8 DEF ServerOK
<1>10. s = conn => t.una <= Isn(conn) \/ t.una <= rcv
  BY <1>1, <1>5, <1>6, <1>8, Basics DEF BelievedOK, Servers
<1>11. /\ srv' \in [Servers -> Machines] /\ srv'[s] = t
       /\ \A c \in Servers \ {s} : srv'[c] = srv[c]
       /\ ServersOK' /\ BelievedOK'
       /\ \A j \in 1..Len(toC) : FrameOK(toC[j], conn', srv'[toC[j].src])
  <2>1. srv[s].nxt <= t.nxt /\ (srv[s].st # "listen" => t.st # "listen")
    BY <1>5, <1>8
  <2> QED BY <2>1, <1>4, <1>8, <1>9, <1>10, MachineStep
<1>12. FrameOK(f, conn', srv'[f.src])
  BY <1>4, <1>6, <1>7 DEF FrameOK, client
<1>13. toC' \in Seq(TcpFrames) /\ FramesOK'
  BY <1>1, <1>4, <1>7, <1>11, <1>12, Sent
<1>14. AcksOK' /\ toS' \in Seq(Asked)
  BY <1>1, <1>4 DEF AcksOK, client
<1>15. ASSUME CleanStart PROVE OnlyThis' /\ NoGap'
  <2>1. OnlyThis /\ NoGap
    BY <1>15 DEF TcpInv, InOrderOK
  <2>2. conn > 0 => srv'[conn].nxt = srv[conn].nxt
    BY <1>1, <1>8, <1>11, Basics
  <2>3. (\A i \in 1..Len(toC') : Data(toC'[i]) => toC'[i].src = conn) /\ NoGap'
    BY <1>1, <1>4, <1>7, <2>1, <2>2, NoDataSent
  <2>4. \A c \in 1..(conn - 1) : c \in Servers
    BY <1>1, <1>5, Basics DEF Servers, TcpConstants
  <2>5. \A c \in 1..(conn - 1) : srv'[c] = srv[c] \/ srv'[c].st = "dead"
    BY <2>4, <1>8, <1>11
  <2>6. UNCHANGED <<conn, toS>>
    BY <1>4 DEF client
  <2> QED BY <2>1, <2>3, <2>5, <2>6 DEF OnlyThis
<1> QED BY <1>4, <1>11, <1>13, <1>14, <1>15, WorldKeeps

LEMMA LoseKeeps == ASSUME TcpConstants, TcpInv, Lose PROVE TcpInv'
<1>1. /\ Typed /\ ServersOK /\ FramesOK /\ AcksOK /\ BelievedOK
      /\ toC \in Seq(TcpFrames) /\ toS \in Seq(Asked) /\ srv \in [Servers -> Machines]
  BY DEF TcpInv, Typed
<1>2. mode = "lossy" /\ UNCHANGED <<mode, client, srv>> /\ UNCHANGED <<conn, rcv>>
  BY DEF Lose, client
<1>3. ServersOK' /\ BelievedOK' /\ ~CleanStart /\ srv' \in [Servers -> Machines]
  BY <1>1, <1>2 DEF ServersOK, BelievedOK, CleanStart
<1>4. CASE \E i \in 1..Len(toC) : toC' = Without(toC, i) /\ UNCHANGED toS
  <2>1. PICK i \in 1..Len(toC) : toC' = Without(toC, i) /\ UNCHANGED toS
    BY <1>4
  <2>2. toC' \in Seq(TcpFrames) /\ FramesOK'
    BY <2>1, <1>1, <1>2, Taken
  <2>3. toS' \in Seq(Asked) /\ AcksOK'
    BY <2>1, <1>1, <1>2 DEF AcksOK
  <2> QED BY <2>2, <2>3, <1>2, <1>3, WorldKeeps
<1>5. CASE toS # <<>> /\ toS' = Tail(toS) /\ UNCHANGED toC
  <2>1. /\ toS' \in Seq(Asked) /\ Len(toS') = Len(toS) - 1
        /\ \A j \in 1..Len(toS') : toS'[j] = toS[j + 1] /\ j + 1 \in 1..Len(toS)
    BY <1>1, <1>5
  <2>2. AcksOK'
    BY <2>1, <1>1, <1>2 DEF AcksOK
  <2>3. toC' \in Seq(TcpFrames) /\ FramesOK'
    BY <1>1, <1>2, <1>5 DEF FramesOK
  <2> QED BY <2>1, <2>2, <2>3, <1>2, <1>3, WorldKeeps
<1> QED BY <1>4, <1>5 DEF Lose

\* A server takes the oldest frame of ours: it changes to t, and may send f.
TakenAs(s, t, f) ==
  /\ srv' = [srv EXCEPT ![s] = t] /\ ServerOK(s, t, conn) /\ srv[s].nxt <= t.nxt
  /\ srv[s].st # "listen" => t.st # "listen"
  /\ s = conn => t.una <= Isn(conn) \/ t.una <= rcv
  /\ toC' = toC \/ toC' = Append(toC, f)
  /\ f.src = s /\ ~Data(f) /\ (f.syn => f.seq = Isn(s) /\ ~f.rst /\ t.st # "listen")
TakenClean(s, t) ==
  /\ s = conn /\ Isn(conn) + 1 <= rcv => t.nxt = srv[s].nxt
  /\ s < conn /\ t.st = "established" => srv[s].st = "established" /\ t.nxt = srv[s].nxt
  /\ s < conn /\ t.st \in {"listen", "synrcvd"} => srv[s].st \in {"listen", "synrcvd"}

LEMMA ServerTakes ==
  ASSUME TcpConstants, TcpInv, UNCHANGED <<mode, client>>, toS # <<>>, toS' = Tail(toS),
         NEW s \in Servers, s <= conn, NEW t \in Machines, NEW f \in TcpFrames,
         TakenAs(s, t, f), CleanStart => TakenClean(s, t)
  PROVE  TcpInv'
<1>1. /\ Typed /\ ServersOK /\ FramesOK /\ AcksOK /\ BelievedOK
      /\ toC \in Seq(TcpFrames) /\ toS \in Seq(Asked) /\ srv \in [Servers -> Machines]
  BY DEF TcpInv, Typed
<1>2. /\ conn \in Nat /\ s \in Nat /\ UNCHANGED <<conn, rcv>>
  BY <1>1, Basics DEF client
<1>3. /\ srv' \in [Servers -> Machines] /\ srv'[s] = t
      /\ \A c \in Servers \ {s} : srv'[c] = srv[c]
      /\ ServersOK' /\ BelievedOK'
      /\ \A j \in 1..Len(toC) : FrameOK(toC[j], conn', srv'[toC[j].src])
  <2>1. /\ srv' = [srv EXCEPT ![s] = t] /\ ServerOK(s, t, conn) /\ srv[s].nxt <= t.nxt
        /\ srv[s].st # "listen" => t.st # "listen"
        /\ s = conn => t.una <= Isn(conn) \/ t.una <= rcv
    BY DEF TakenAs
  <2> QED BY <2>1, MachineStep
<1>4. toC' \in Seq(TcpFrames) /\ FramesOK'
  <2>1. CASE toC' = toC
    BY <2>1, <1>1, <1>3 DEF FramesOK
  <2>2. CASE toC' = Append(toC, f)
    <3>1. FrameOK(f, conn', srv'[f.src])
      BY <1>2, <1>3 DEF TakenAs, FrameOK
    <3> QED BY <2>2, <3>1, <1>1, <1>3, Sent
  <2> QED BY <2>1, <2>2 DEF TakenAs
<1>5. /\ toS' \in Seq(Asked) /\ Len(toS') = Len(toS) - 1
      /\ \A j \in 1..Len(toS') : toS'[j] = toS[j + 1] /\ j + 1 \in 1..Len(toS)
  BY <1>1
<1>6. AcksOK'
  BY <1>1, <1>2, <1>5 DEF AcksOK
<1>7. ASSUME CleanStart PROVE OnlyThis' /\ NoGap'
  <2>1. OnlyThis /\ NoGap /\ TakenClean(s, t)
    BY <1>7 DEF TcpInv, InOrderOK
  <2>2. conn > 0 /\ Isn(conn) + 1 <= rcv => srv'[conn].nxt = srv[conn].nxt
    BY <2>1, <1>1, <1>3, Basics DEF TakenClean
  <2>3. (\A i \in 1..Len(toC') : Data(toC'[i]) => toC'[i].src = conn) /\ NoGap'
    <3>1. ~Data(f) /\ (toC' = toC \/ toC' = Append(toC, f))
      BY DEF TakenAs
    <3> QED BY <3>1, <1>1, <2>1, <2>2, NoDataSent
  <2>4. \A c \in 1..(conn - 1) : c \in Servers /\ c < conn
    BY <1>1, <1>2, Basics DEF Servers, TcpConstants
  <2>5. ASSUME NEW c \in 1..(conn - 1)
        PROVE  /\ srv'[c].st = "established" => srv'[c].nxt = FinSeq(c) + 1
               /\ srv'[c].st \in {"listen", "synrcvd"} =>
                    \A j \in 1..Len(toS') : toS'[j].dst = c => toS'[j].what = "syn"
    <3>1. /\ srv[c].st = "established" => srv[c].nxt = FinSeq(c) + 1
          /\ srv[c].st \in {"listen", "synrcvd"} =>
               \A j \in 1..Len(toS) : toS[j].dst = c => toS[j].what = "syn"
      BY <2>1 DEF OnlyThis
    <3>2. /\ srv'[c].st = "established" => srv[c].st = "established" /\ srv'[c].nxt = srv[c].nxt
          /\ srv'[c].st \in {"listen", "synrcvd"} => srv[c].st \in {"listen", "synrcvd"}
      BY <2>1, <2>4, <1>3 DEF TakenClean
    <3> QED BY <3>1, <3>2, <1>5
  <2> QED BY <2>3, <2>5, <1>2 DEF OnlyThis
<1> QED BY <1>1, <1>3, <1>4, <1>5, <1>6, <1>7, WorldKeeps

LEMMA SrvTakeKeeps == ASSUME TcpConstants, TcpInv, SrvTake PROVE TcpInv'
<1>0. PICK g : g = Head(toS)
  OBVIOUS
<1>1. PICK s : s = g.dst
  OBVIOUS
<1>2. PICK m : m = srv[s]
  OBVIOUS
<1>3. PICK reset : reset = FromServer(s, FALSE, FALSE, TRUE, 0, "none", 0)
  OBVIOUS
<1>4. /\ Typed /\ toS \in Seq(Asked) /\ srv \in [Servers -> Machines] /\ toS # <<>>
      /\ toS' = Tail(toS) /\ UNCHANGED <<mode, client>>
  BY DEF TcpInv, Typed, SrvTake
<1>5. 1 \in 1..Len(toS) /\ g = toS[1] /\ g \in Asked
  BY <1>0, <1>4
<1>6. AskedOK(g, conn, rcv)
  BY <1>5 DEF TcpInv, AcksOK
<1>7. s \in Servers /\ s <= conn
  BY <1>1, <1>5, <1>6 DEF Asked, AskedOK
<1>8. /\ conn \in Nat /\ rcv \in Nat /\ s \in Nat /\ Isn(s) \in Nat
      /\ FinSeq(s) = Isn(s) + Size + 1 /\ Size \in Nat
      /\ m \in Machines /\ m.una \in Nat /\ m.nxt \in Nat
  BY <1>2, <1>4, <1>7, Basics
<1>9. ServerOK(s, m, conn) /\ (s = conn => m.una <= Isn(conn) \/ m.una <= rcv)
  BY <1>2, <1>7, <1>8 DEF TcpInv, ServersOK, BelievedOK, Servers
<1>10. reset \in TcpFrames /\ reset.src = s /\ ~Data(reset) /\ ~reset.syn
  BY <1>3, <1>7 DEF FromServer, TcpFrames, Data
<1>11. CASE g.what = "syn" /\ m.st = "listen"
  <2>1. PICK t : t = [st |-> "synrcvd", k |-> g.ack, una |-> Isn(s), nxt |-> Isn(s) + 1,
                      req |-> 0, parts |-> IF g.ack = "tls" THEN ReqParts ELSE 1]
    OBVIOUS
  <2>2. PICK f : f = FromServer(s, TRUE, FALSE, FALSE, Isn(s), g.ack, 0)
    OBVIOUS
  <2>3. srv' = [srv EXCEPT ![s] = t] /\ toC' = Append(toC, f)
    BY <1>0, <1>1, <1>2, <1>11, <2>1, <2>2 DEF SrvTake
  <2>4. g.ack \in Kinds
    BY <1>5, <1>11 DEF Asked
  <2>5. t \in Machines /\ t.st = "synrcvd" /\ t.una = Isn(s) /\ t.nxt = Isn(s) + 1
    BY <2>1, <2>4, <1>8 DEF Machines, TcpConstants
  <2>6. f \in TcpFrames /\ f.src = s /\ ~Data(f) /\ f.seq = Isn(s) /\ ~f.rst
    BY <2>2, <2>4, <1>7, <1>8 DEF FromServer, TcpFrames, Data
  <2>7. m.nxt = 0
    BY <1>9, <1>11 DEF ServerOK
  <2>8. ServerOK(s, t, conn)
    BY <2>5, <1>7, <1>8 DEF ServerOK
  <2>9. TakenAs(s, t, f)
    BY <2>3, <2>5, <2>6, <2>7, <2>8, <1>2, <1>8 DEF TakenAs
  <2>10. ASSUME CleanStart PROVE TakenClean(s, t)
    <3>1. NoGap
      BY <2>10 DEF TcpInv, InOrderOK
    <3>2. ~(s = conn /\ Isn(conn) + 1 <= rcv)
      BY <3>1, <2>7, <1>2, <1>7, <1>8 DEF NoGap, Servers
    <3> QED BY <3>2, <2>5, <1>2, <1>11 DEF TakenClean
  <2> QED BY <2>5, <2>6, <2>9, <2>10, <1>4, <1>7, ServerTakes
<1>12. CASE g.what # "syn" /\ m.st = "synrcvd" /\ g.ack # Isn(s) + 1
  <2>1. PICK t : t = [m EXCEPT !.st = "dead"]
    OBVIOUS
  <2>2. srv' = [srv EXCEPT ![s] = t] /\ toC' = Append(toC, reset)
    <3>1. srv' = [srv EXCEPT ![s].st = "dead"] /\ toC' = Append(toC, reset)
      BY <1>0, <1>1, <1>2, <1>3, <1>12 DEF SrvTake
    <3> QED BY <3>1, <2>1, <1>2
  <2>3. t \in Machines /\ t.st = "dead" /\ t.una = m.una /\ t.nxt = m.nxt
    BY <2>1, <1>8 DEF Machines
  <2>4. ServerOK(s, t, conn)
    BY <2>3, <1>9, <1>12 DEF ServerOK
  <2>5. TakenAs(s, t, reset)
    BY <2>2, <2>3, <2>4, <1>2, <1>8, <1>9, <1>10 DEF TakenAs
  <2>6. TakenClean(s, t)
    BY <2>3, <1>2 DEF TakenClean
  <2> QED BY <2>3, <2>5, <2>6, <1>4, <1>7, <1>10, ServerTakes
<1>13. CASE g.what # "syn" /\ (m.st = "established" \/ (m.st = "synrcvd" /\ g.ack = Isn(s) + 1))
  <2>1. PICK u : u = (IF g.ack <= m.nxt THEN Larger(m.una, g.ack) ELSE m.una)
    OBVIOUS
  <2>2. PICK r : r = (IF g.what = "req" /\ g.part = m.req + 1 THEN m.req + 1 ELSE m.req)
    OBVIOUS
  <2>3. PICK t : t = [m EXCEPT !.st = "established", !.una = u, !.req = r]
    OBVIOUS
  <2>4. g.ack \in Nat
    BY <1>5, <1>13 DEF Asked
  <2>5. m.una <= m.nxt
    BY <1>9, <1>13 DEF ServerOK
  <2>6. u \in Nat /\ u <= m.nxt /\ m.una <= u /\ (u = m.una \/ u = g.ack)
    BY <2>1, <2>4, <2>5, <1>8 DEF Larger
  <2>7. r \in Nat
    BY <2>2, <1>8 DEF Machines
  <2>8. t \in Machines /\ t.st = "established" /\ t.una = u /\ t.nxt = m.nxt
    BY <2>3, <2>6, <2>7, <1>8 DEF Machines
  <2>9. srv' = [srv EXCEPT ![s] = t] /\ toC' = toC
    <3>1. /\ srv' = [srv EXCEPT ![s].st = "established",
                       ![s].una = IF g.ack <= m.nxt THEN Larger(@, g.ack) ELSE @,
                       ![s].req = IF g.what = "req" /\ g.part = @ + 1 THEN @ + 1 ELSE @]
          /\ toC' = toC
      BY <1>0, <1>1, <1>2, <1>13 DEF SrvTake
    <3>2. srv' = [srv EXCEPT ![s] = [m EXCEPT !.st = "established",
                       !.una = IF g.ack <= m.nxt THEN Larger(@, g.ack) ELSE @,
                       !.req = IF g.what = "req" /\ g.part = @ + 1 THEN @ + 1 ELSE @]]
      BY <3>1, <1>2, <1>4, <1>7, Zenon
    <3> QED BY <3>1, <3>2, <2>1, <2>2, <2>3
  <2>10. Isn(s) + 1 <= u
    <3>1. CASE m.st = "established"
      BY <3>1, <2>6, <1>8, <1>9 DEF ServerOK
    <3>2. CASE m.st = "synrcvd" /\ g.ack = Isn(s) + 1
      BY <3>2, <2>1, <2>4, <1>8, <1>9 DEF ServerOK, Larger
    <3> QED BY <3>1, <3>2, <1>13
  <2>11. ServerOK(s, t, conn)
    <3>1. /\ s <= conn /\ m.una <= m.nxt /\ Isn(s) + 1 <= m.nxt /\ m.nxt <= FinSeq(s) + 1
      BY <1>9, <1>13 DEF ServerOK
    <3> QED BY <3>1, <2>6, <2>8, <2>10, <1>8 DEF ServerOK
  <2>12. s = conn => t.una <= Isn(conn) \/ t.una <= rcv
    BY <2>6, <2>8, <1>1, <1>6, <1>9, <1>13 DEF AskedOK
  <2>13. TakenAs(s, t, reset)
    BY <2>8, <2>9, <2>11, <2>12, <1>2, <1>8, <1>10 DEF TakenAs
  <2>14. ASSUME CleanStart PROVE TakenClean(s, t)
    <3>1. OnlyThis
      BY <2>14 DEF TcpInv, InOrderOK
    <3>2. ASSUME s < conn PROVE m.st = "established"
      <4>1. s \in 1..(conn - 1)
        BY <3>2, <1>7, <1>8 DEF Servers
      <4> QED BY <4>1, <3>1, <1>1, <1>2, <1>5, <1>13 DEF OnlyThis
    <3> QED BY <3>2, <2>8, <1>2 DEF TakenClean
  <2> QED BY <2>8, <2>13, <2>14, <1>4, <1>7, <1>10, ServerTakes
<1>14. CASE srv' = srv /\ toC' = toC
  <2>1. TakenAs(s, m, reset)
    BY <1>14, <1>2, <1>4, <1>7, <1>8, <1>9, <1>10 DEF TakenAs
  <2>2. TakenClean(s, m)
    BY <1>2 DEF TakenClean
  <2> QED BY <2>1, <2>2, <1>4, <1>7, <1>8, <1>10, ServerTakes
<1>15. CASE g.what = "syn" /\ m.st # "listen"
  <2>1. Head(toS).what = "syn" /\ srv[Head(toS).dst].st # "listen"
    BY <1>15, <1>0, <1>1, <1>2
  <2>2. srv' = srv /\ toC' = toC
    BY <2>1 DEF SrvTake
  <2> QED BY <2>2, <1>14
<1>16. CASE g.what # "syn" /\ m.st # "synrcvd" /\ m.st # "established"
  <2>1. Head(toS).what # "syn" /\ srv[Head(toS).dst].st # "synrcvd" /\ srv[Head(toS).dst].st # "established"
    BY <1>16, <1>0, <1>1, <1>2
  <2>2. srv' = srv /\ toC' = toC
    BY <2>1 DEF SrvTake
  <2> QED BY <2>2, <1>14
<1> QED BY <1>11, <1>12, <1>13, <1>15, <1>16

------------------------------------------------------------------------------
(* The invariant, and what it says of acknowledgements.                      *)

LEMMA InitHolds == ASSUME TcpConstants, Init PROVE TcpInv
<1>1. /\ mode \in {"inorder", "lossy"} /\ conn = 0 /\ kind = "http" /\ phase = "idle" /\ rcv = 0
      /\ reqSent = FALSE /\ pendingFin = FALSE /\ closed = FALSE /\ got = <<>>
      /\ result = [c \in Servers |-> "none"] /\ toC = <<>> /\ toS = <<>>
  BY DEF Init
<1>2. srv \in [Servers -> Machines]
        /\ \A s \in Servers : srv[s].st = "listen" /\ srv[s].una = 0 /\ srv[s].nxt = 0
  BY DEF Init, Machines, Kinds
<1>3. Typed
  <2>1. result \in [Servers -> {"none", "refused", "timeout", "eof", "reset", "closed"}]
    BY <1>1
  <2>2. got \in Seq(Servers \X (1..Size)) /\ toC \in Seq(TcpFrames) /\ toS \in Seq(Asked)
    BY <1>1
  <2>3. conn \in 0..Conns /\ rcv \in Nat
    BY <1>1 DEF TcpConstants
  <2> QED BY <2>1, <2>2, <2>3, <1>1, <1>2 DEF Typed, TypeOK, Kinds
<1>4. CallOK
  BY <1>1 DEF CallOK
<1>5. ServersOK
  <2> SUFFICES ASSUME NEW s \in Servers PROVE ServerOK(s, srv[s], conn)
    BY DEF ServersOK
  <2>1. Isn(s) \in Nat
    BY <1>3, Basics
  <2> QED BY <2>1, <1>2 DEF ServerOK
<1>6. FramesOK /\ AcksOK /\ BelievedOK /\ ReadOK
  BY <1>1 DEF FramesOK, AcksOK, BelievedOK, ReadOK
<1>7. InOrderOK
  BY <1>1 DEF InOrderOK, OnlyThis, NoGap, OwnEnd
<1> QED BY <1>3, <1>4, <1>5, <1>6, <1>7 DEF TcpInv

LEMMA StepKeeps == ASSUME TcpConstants, TcpInv, [Next]_vars PROVE TcpInv'
<1>1. CASE Client
  <2>1. ASSUME NEW k \in Kinds, Connect(k) PROVE TcpInv'
    BY <2>1, ConnectKeeps
  <2>2. ASSUME NEW i \in 1..Len(toC), SynAck(i) PROVE TcpInv'
    BY <2>2, SynAckKeeps
  <2>3. ASSUME NEW i \in 1..Len(toC), Recv(i) PROVE TcpInv'
    BY <2>3, RecvKeeps
  <2>4. ASSUME NEW i \in 1..Len(toC), HttpRecv(i) PROVE TcpInv'
    BY <2>4, HttpRecvKeeps
  <2> QED
    BY <1>1, <2>1, <2>2, <2>3, <2>4, SendKeeps, RecvCallKeeps, TimeoutKeeps, CloseKeeps DEF Client
<1>2. CASE World
  <2>1. ASSUME NEW s \in Servers, NEW fin \in BOOLEAN, SrvSend(s, fin) \/ Resend(s, fin)
        PROVE  TcpInv'
    BY <2>1, SrvSendKeeps, ResendKeeps
  <2>2. ASSUME NEW s \in Servers, Abort(s) PROVE TcpInv'
    BY <2>2, AbortKeeps
  <2> QED BY <1>2, <2>1, <2>2, SrvTakeKeeps, LoseKeeps DEF World
<1>3. CASE UNCHANGED vars
  <2>1. /\ Typed' /\ CallOK' /\ ServersOK' /\ FramesOK' /\ AcksOK' /\ BelievedOK'
    BY <1>3 DEF vars, client, TcpInv, Typed, TypeOK, CallOK, ServersOK, FramesOK, AcksOK, BelievedOK
  <2>2. ReadOK'
    BY <1>3 DEF vars, client, TcpInv, ReadOK, At, CleanStart
  <2>3. InOrderOK'
    BY <1>3 DEF vars, client, TcpInv, InOrderOK, OnlyThis, NoGap, OwnEnd, CleanStart
  <2> QED BY <2>1, <2>2, <2>3 DEF TcpInv
<1> QED BY <1>1, <1>2, <1>3 DEF Next

\* For any number of connections, and whatever is lost, repeated or late, the
\* client's state, the frames on their way and the servers' stay consistent.
THEOREM TcpInvariant == ASSUME TcpConstants PROVE Init /\ [][Next]_vars => []TcpInv
<1>1. Init => TcpInv
  BY InitHolds
<1>2. TcpInv /\ [Next]_vars => TcpInv'
  BY StepKeeps
<1> QED BY <1>1, <1>2, PTL

LEMMA ReadFirst == ASSUME TcpConstants, TcpInv PROVE AckedWasRead
<1> SUFFICES ASSUME NEW s \in Servers, conn = s, srv[s].una > Isn(s) + 1,
                    kind = "tls" \/ CleanStart,
                    NEW acked, acked = Smaller(srv[s].una - Isn(s) - 1, Size)
             PROVE  Len(got) >= (IF kind = "http" THEN Smaller(acked, Room) ELSE acked)
  BY DEF AckedWasRead
<1>1. /\ Typed /\ ReadOK /\ conn > 0 /\ rcv \in Nat /\ Isn(s) \in Nat /\ srv[s].una \in Nat
      /\ Size \in Nat /\ Room \in Nat
  BY Basics DEF TcpInv
<1>2. srv[s].una <= rcv /\ rcv > Isn(s)
  BY <1>1 DEF TcpInv, BelievedOK
<1>3. At(s)
  BY <1>1, <1>2, Here
<1>4. PICK u : u = srv[s].una - Isn(s) - 1
  OBVIOUS
<1>5. PICK r : r = rcv - Isn(s) - 1
  OBVIOUS
<1>6. u \in Nat /\ r \in Nat /\ u <= r
  BY <1>1, <1>2, <1>4, <1>5
<1>7. acked = Smaller(u, Size) /\ Counted(s, rcv) = Smaller(r, Size)
  BY <1>4, <1>5 DEF Counted
<1>8. kind \in {"http", "tls"} /\ Len(got) \in Nat
  BY <1>1 DEF Typed, TypeOK, Kinds
<1>9. CASE kind = "tls"
  <2>1. Len(got) = Smaller(r, Size)
    BY <1>3, <1>7, <1>9 DEF At
  <2> QED BY <2>1, <1>1, <1>6, <1>7, <1>9 DEF Smaller
<1>10. CASE kind = "http"
  <2>1. Len(got) = Smaller(Smaller(r, Size), Room)
    BY <1>3, <1>7, <1>10 DEF At
  <2> QED BY <2>1, <1>1, <1>6, <1>7, <1>10 DEF Smaller
<1> QED BY <1>8, <1>9, <1>10

\* What the client acknowledges it has handed over (net.rs, tcp_http_get and
\* TcpConn::recv).
THEOREM Acknowledged == ASSUME TcpConstants PROVE Init /\ [][Next]_vars => []AckedWasRead
<1>1. TcpInv => AckedWasRead
  BY ReadFirst
<1> QED BY <1>1, TcpInvariant, PTL

------------------------------------------------------------------------------
(* ByteStream: every step of the client is a step of the stream or none.      *)

RoomNow == IF kind = "http" THEN Room ELSE Size

\* What was handed over is the first bytes of one server.
Streamed == conn > 0 => \E s \in Servers : /\ Len(got) \in 0..Size
                                           /\ got = [i \in 1..Len(got) |-> Byte(s, i)]
\* What ended complete is.
Whole == conn > 0 /\ result[conn] = "eof" /\ (kind = "tls" \/ CleanStart) =>
           \E s \in Servers : /\ Len(got) = Smaller(Size, RoomNow)
                              /\ \A i \in 1..Len(got) : got[i] = Byte(s, i)
\* The end of the stream.
Ends == /\ conn = 0 => EndSeen = "none"
        /\ conn > 0 /\ result[conn] = "none" => EndSeen = "open"
        /\ conn > 0 /\ result[conn] # "none" =>
             EndSeen = IF result[conn] = "eof" /\ (kind = "tls" \/ CleanStart) THEN "complete" ELSE "cut"

LEMMA StreamedHolds == ASSUME TcpConstants PROVE TcpInv => Streamed
<1> SUFFICES ASSUME TcpInv, conn > 0
             PROVE  \E s \in Servers : Len(got) \in 0..Size /\ got = [i \in 1..Len(got) |-> Byte(s, i)]
  BY DEF Streamed
<1>1. /\ Typed /\ CallOK /\ ReadOK /\ conn \in Servers /\ conn \in Nat /\ Size \in Nat
      /\ got \in Seq(Servers \X (1..Size)) /\ \A s \in 1..conn : s \in Servers
  BY Basics DEF TcpInv, Typed, TypeOK, Servers, TcpConstants
<1>2. CASE rcv = 0
  <2>1. got = <<>>
    BY <1>1, <1>2 DEF CallOK
  <2>2. Len(got) = 0 /\ got = [i \in 1..Len(got) |-> Byte(conn, i)]
    BY <2>1
  <2> QED BY <1>1, <2>2
<1>3. CASE rcv # 0
  <2>1. PICK s \in 1..conn : At(s)
    BY <1>1, <1>3 DEF ReadOK
  <2>2. Len(got) \in Nat /\ Len(got) <= Size /\ \A i \in 1..Len(got) : got[i] = Byte(s, i)
    BY <1>1, <2>1 DEF At
  <2>3. DOMAIN got = 1..Len(got) /\ got = [i \in DOMAIN got |-> got[i]]
    BY <1>1
  <2>4. got = [i \in 1..Len(got) |-> Byte(s, i)]
    BY <2>2, <2>3
  <2> QED BY <1>1, <2>2, <2>4
<1> QED BY <1>2, <1>3

LEMMA WholeHolds == ASSUME TcpConstants PROVE TcpInv => Whole
<1> SUFFICES ASSUME TcpInv, conn > 0, result[conn] = "eof", kind = "tls" \/ CleanStart
             PROVE  \E s \in Servers : /\ Len(got) = Smaller(Size, RoomNow)
                                       /\ \A i \in 1..Len(got) : got[i] = Byte(s, i)
  BY DEF Whole
<1>1. /\ Typed /\ CallOK /\ ReadOK /\ conn \in Servers /\ conn \in Nat /\ Size \in Nat /\ rcv \in Nat
      /\ Room \in Nat /\ kind \in {"http", "tls"} /\ \A s \in 1..conn : s \in Servers
  BY Basics DEF TcpInv, Typed, TypeOK, Servers, TcpConstants, Kinds
<1>2. rcv # 0
  BY <1>1 DEF CallOK
<1>3. PICK s \in 1..conn : At(s)
  BY <1>1, <1>2 DEF ReadOK
<1>4. Isn(s) \in Nat /\ FinSeq(s) = Isn(s) + Size + 1 /\ rcv = FinSeq(s) + 1
  BY <1>1, <1>3, Basics DEF At
<1>5. rcv - Isn(s) - 1 = Size + 1
  BY <1>1, <1>4
<1>6. Counted(s, rcv) = Size
  BY <1>1, <1>5 DEF Counted, Smaller
<1>7. Len(got) = Smaller(Size, RoomNow)
  <2>1. CASE kind = "tls"
    BY <2>1, <1>1, <1>3, <1>6 DEF At, Smaller, RoomNow
  <2>2. CASE kind = "http"
    <3>1. Len(got) = Smaller(Counted(s, rcv), Room)
      BY <2>2, <1>3 DEF At
    <3> QED BY <3>1, <2>2, <1>6 DEF RoomNow
  <2> QED BY <1>1, <2>1, <2>2
<1> QED BY <1>1, <1>3, <1>7 DEF At

LEMMA EndsHolds == ASSUME TcpConstants PROVE TcpInv => Ends
<1> SUFFICES ASSUME TcpInv PROVE Ends
  OBVIOUS
<1>1. conn \in Nat
  BY Basics DEF TcpInv
<1>2. CASE conn = 0
  BY <1>2 DEF Ends, EndSeen
<1>3. CASE conn > 0
  <2>1. CASE result[conn] = "none"
    BY <1>3, <2>1 DEF Ends, EndSeen
  <2>2. CASE result[conn] # "none"
    <3>1. CASE result[conn] = "eof" /\ (kind = "tls" \/ CleanStart)
      BY <1>3, <2>2, <3>1 DEF Ends, EndSeen
    <3>2. CASE ~(result[conn] = "eof" /\ (kind = "tls" \/ CleanStart))
      BY <1>3, <2>2, <3>2 DEF Ends, EndSeen
    <3> QED BY <3>1, <3>2
  <2> QED BY <2>1, <2>2
<1> QED BY <1>1, <1>2, <1>3

\* A step during a call: more of the same server's bytes, an end, or neither.
LEMMA StreamStep ==
  ASSUME TcpConstants, TcpInv, TcpInv', conn > 0, result[conn] = "none",
         UNCHANGED <<mode, conn, kind>>,
         Len(got) <= Len(got'), \A i \in 1..Len(got) : got'[i] = got[i],
         NEW r \in Results \ {"none"},
         result' = result \/ result' = [result EXCEPT ![conn] = r]
  PROVE  [Stream!Next]_(Stream!vars)
<1>1. /\ Typed /\ conn \in Nat /\ conn \in Servers /\ Size \in Nat /\ Len(got) \in Nat
      /\ kind' = kind /\ conn' = conn /\ RoomNow' = RoomNow /\ got \in Seq(Servers \X (1..Size))
      /\ result \in [Servers -> Results]
  BY SMTT(60), Basics DEF TcpInv, Typed, TypeOK, RoomNow, Results
<1>2. Streamed' /\ Whole' /\ Ends'
  <2>1. (TcpInv => Streamed)' /\ (TcpInv => Whole)' /\ (TcpInv => Ends)'
    BY StreamedHolds, WholeHolds, EndsHolds, PTL
  <2> QED BY <2>1
<1>3. EndSeen = "open"
  BY <1>1, EndsHolds DEF Ends
<1>4. PICK s \in Servers : Len(got') \in 0..Size /\ got' = [i \in 1..Len(got') |-> Byte(s, i)]
  BY <1>1, <1>2 DEF Streamed
<1>5. \A i \in 1..Len(got) : got[i] = Byte(s, i)
  <2> SUFFICES ASSUME NEW i \in 1..Len(got) PROVE got[i] = Byte(s, i)
    OBVIOUS
  <2>1. i \in 1..Len(got') /\ got[i] = got'[i]
    BY <1>1, <1>4
  <2> QED BY <2>1, <1>4
<1>6. CASE result' = result
  <2>1. EndSeen' = "open"
    BY <1>1, <1>2, <1>6 DEF Ends
  <2>2. CASE Len(got) < Len(got')
    <3>1. /\ Len(got') \in 1..Size /\ Stream!IsPrefixOf(got, s)
          /\ got' = [i \in 1..Len(got') |-> Stream!Byte(s, i)]
      BY <1>1, <1>4, <1>5, <2>2 DEF Stream!IsPrefixOf, Stream!Byte, Byte
    <3>2. Stream!Deliver
      BY <3>1, <2>1, <2>2, <1>1, <1>3 DEF Stream!Deliver
    <3> QED BY <3>2 DEF Stream!Next
  <2>3. CASE ~(Len(got) < Len(got'))
    <3>1. Len(got') = Len(got)
      BY <2>3, <1>1, <1>4
    <3>2. got = [i \in 1..Len(got) |-> got[i]]
      BY <1>1
    <3>3. got' = got
      BY <3>1, <3>2, <1>4, <1>5
    <3> QED BY <3>3, <2>1, <1>1, <1>3 DEF Stream!vars, RoomNow
  <2> QED BY <2>2, <2>3
<1>7. CASE result' = [result EXCEPT ![conn] = r]
  <2>1. result'[conn] = r
    BY <1>1, <1>7
  <2>2. Len(got') \in Len(got)..Size
    BY <1>1, <1>4
  <2>3. CASE r = "eof" /\ (kind = "tls" \/ CleanStart)
    <3>1. CleanStart' = CleanStart
      BY <1>1, SameStart
    <3>2. EndSeen' = "complete"
      BY <1>1, <1>2, <2>1, <2>3, <3>1 DEF Ends
    <3>3. Len(got') = Smaller(Size, RoomNow)
      BY <1>1, <1>2, <2>1, <2>3, <3>1 DEF Whole, Smaller, RoomNow
    <3>4. Stream!IsPrefixOf(got, s) /\ Stream!IsPrefixOf(got', s)
      BY <1>4, <1>5 DEF Stream!IsPrefixOf, Stream!Byte, Byte
    <3>5. Stream!Complete
      BY <3>2, <3>3, <3>4, <1>1, <1>3 DEF Stream!Complete, Smaller, RoomNow
    <3> QED BY <3>5 DEF Stream!Next
  <2>4. CASE ~(r = "eof" /\ (kind = "tls" \/ CleanStart))
    <3>1. CleanStart' = CleanStart
      BY <1>1, SameStart
    <3>2. EndSeen' = "cut"
      BY <1>1, <1>2, <2>1, <2>4, <3>1 DEF Ends
    <3>3. /\ Stream!IsPrefixOf(got, s)
          /\ got' = [i \in 1..Len(got') |-> Stream!Byte(s, i)]
      BY <1>4, <1>5 DEF Stream!IsPrefixOf, Stream!Byte, Byte
    <3>4. Stream!Cut
      BY <3>2, <3>3, <2>2, <1>1, <1>3 DEF Stream!Cut
    <3> QED BY <3>4 DEF Stream!Next
  <2> QED BY <2>3, <2>4
<1> QED BY <1>6, <1>7

LEMMA Longer ==
  ASSUME TcpConstants, Typed, NEW s \in Nat, NEW q \in Nat, NEW n \in Nat,
         got' = got \o Payload(s, q, n)
  PROVE  Len(got) <= Len(got') /\ \A i \in 1..Len(got) : got'[i] = got[i]
<1>1. got \in Seq(Servers \X (1..Size))
  BY DEF Typed, TypeOK
<1>2. Isn(s) \in Nat
  BY IsnFacts
<1>3. PICK k \in Int : k = q - Isn(s)
  BY <1>2
<1>4. Payload(s, q, n) = [j \in 1..n |-> <<s, k + j - 1>>]
  BY <1>3 DEF Payload, Byte
<1>5. Payload(s, q, n) \in Seq(Nat \X Int) /\ Len(Payload(s, q, n)) = n
  BY <1>4
<1>6. got \in Seq(Nat \X Int)
  <2>1. \A i \in 1..Len(got) : got[i] \in Nat \X Int
    BY SMTT(60), <1>1 DEF Servers, TcpConstants
  <2>2. got = [i \in 1..Len(got) |-> got[i]] /\ Len(got) \in Nat
    BY <1>1
  <2> QED BY <2>1, <2>2
<1> QED BY <1>5, <1>6

LEMMA ClientStreams ==
  ASSUME TcpConstants, TcpInv, TcpInv', Client
  PROVE  [Stream!Next]_(Stream!vars)
<1>1. /\ Typed /\ CallOK /\ conn \in Nat /\ result \in [Servers -> Results]
      /\ Size \in Nat /\ Room \in Nat
  BY Basics DEF TcpInv, Typed, TypeOK, Results
<1>2. Ends'
  <2>1. (TcpInv => Ends)'
    BY EndsHolds, PTL
  <2> QED BY <2>1
<1>3. ASSUME NEW k \in Kinds, Connect(k) PROVE [Stream!Next]_(Stream!vars)
  <2>1. conn' = conn + 1 /\ conn < Conns /\ kind' = k /\ got' = <<>> /\ result' = result
    BY <1>3 DEF Connect
  <2>2. conn + 1 \in Servers /\ conn + 1 > conn
    BY <1>1, <2>1 DEF Servers, TcpConstants
  <2>3. result[conn + 1] = "none"
    BY <1>1, <2>2 DEF CallOK
  <2>4. EndSeen' = "open"
    <3>1. conn' > 0 /\ result'[conn'] = "none"
      BY <1>1, <2>1, <2>3
    <3> QED BY <3>1, <1>2 DEF Ends
  <2>5. (IF kind' = "http" THEN Room ELSE Size) \in Nat
    BY <1>1
  <2>6. Stream!Open
    BY <2>1, <2>4, <2>5 DEF Stream!Open
  <2> QED BY <2>6 DEF Stream!Next
<1>4. ASSUME phase # "idle", UNCHANGED <<mode, conn, kind, got>>, NEW r \in Results \ {"none"},
             result' = result \/ result' = [result EXCEPT ![conn] = r]
      PROVE  [Stream!Next]_(Stream!vars)
  <2>1. conn > 0 /\ result[conn] = "none"
    BY <1>1, <1>4 DEF CallOK
  <2>2. Len(got) <= Len(got') /\ \A i \in 1..Len(got) : got'[i] = got[i]
    BY <1>1, <1>4 DEF Typed, TypeOK
  <2> QED BY <2>1, <2>2, <1>4, StreamStep
<1>5. {"refused", "timeout", "eof", "reset", "closed"} \subseteq Results \ {"none"}
  BY DEF Results
<1>6. ASSUME NEW i \in 1..Len(toC), SynAck(i) PROVE [Stream!Next]_(Stream!vars)
  <2>1. /\ phase # "idle" /\ UNCHANGED <<mode, conn, kind, got>>
        /\ result' = result \/ result' = [result EXCEPT ![conn] = "refused"]
    BY <1>6 DEF SynAck, Return
  <2> QED BY <2>1, <1>4, <1>5
<1>7. ASSUME Timeout \/ Send \/ RecvCall \/ Close PROVE [Stream!Next]_(Stream!vars)
  <2>1. CASE Timeout
    <3>1. /\ phase # "idle" /\ UNCHANGED <<mode, conn, kind, got>>
          /\ result' = [result EXCEPT ![conn] = "timeout"]
      BY <2>1 DEF Timeout, Return
    <3> QED BY <3>1, <1>4, <1>5
  <2>2. CASE Send
    <3>1. phase # "idle" /\ UNCHANGED <<mode, conn, kind, got>> /\ result' = result
      BY <2>2 DEF Send
    <3> QED BY <3>1, <1>4, <1>5
  <2>3. CASE RecvCall
    <3>1. /\ phase # "idle" /\ UNCHANGED <<mode, conn, kind, got>>
          /\ result' = result \/ result' = [result EXCEPT ![conn] = "eof"]
      BY <2>3 DEF RecvCall, Return
    <3> QED BY <3>1, <1>4, <1>5
  <2>4. CASE Close
    <3>1. /\ phase # "idle" /\ UNCHANGED <<mode, conn, kind, got>>
          /\ result' = [result EXCEPT ![conn] = "closed"]
      BY <2>4 DEF Close, Return
    <3> QED BY <3>1, <1>4, <1>5
  <2> QED BY <1>7, <2>1, <2>2, <2>3, <2>4
<1>8. ASSUME NEW i \in 1..Len(toC), phase # "idle", NEW n \in Nat, UNCHANGED <<mode, conn, kind>>,
             got' = got \o Payload(toC[i].src, toC[i].seq, n), NEW r \in Results \ {"none"},
             result' = result \/ result' = [result EXCEPT ![conn] = r]
      PROVE  [Stream!Next]_(Stream!vars)
  <2>1. conn > 0 /\ result[conn] = "none"
    BY <1>1, <1>8 DEF CallOK
  <2>2. toC[i].src \in Nat /\ toC[i].seq \in Nat
    BY <1>1, Frame DEF TcpInv, Servers, TcpFrames, TcpConstants
  <2>3. Len(got) <= Len(got') /\ \A j \in 1..Len(got) : got'[j] = got[j]
    BY <1>1, <1>8, <2>2, Longer
  <2> QED BY <2>1, <2>3, <1>8, StreamStep
<1>9. ASSUME NEW i \in 1..Len(toC), Recv(i) PROVE [Stream!Next]_(Stream!vars)
  <2>1. phase # "idle" /\ UNCHANGED <<mode, conn, kind>>
    BY <1>9 DEF Recv
  <2>2. \/ UNCHANGED got
        \/ got' = got \o Payload(toC[i].src, toC[i].seq, toC[i].len) /\ result' = result
    BY <1>9 DEF Recv
  <2>3. \/ result' = result
        \/ result' = [result EXCEPT ![conn] = "reset"]
        \/ result' = [result EXCEPT ![conn] = "eof"]
    BY <1>9 DEF Recv, Return
  <2>4. toC[i].len \in Nat
    BY Frame DEF TcpInv, TcpFrames
  <2> QED BY <2>1, <2>2, <2>3, <2>4, <1>4, <1>5, <1>8
<1>10. ASSUME NEW i \in 1..Len(toC), HttpRecv(i) PROVE [Stream!Next]_(Stream!vars)
  <2>1. PICK n : n = (IF toC[i].len > 0 /\ InOrder(toC[i])
                      THEN Smaller(toC[i].len, Room - Len(got)) ELSE 0)
    OBVIOUS
  <2>2. /\ phase # "idle" /\ UNCHANGED <<mode, conn, kind>>
        /\ got' = got \o Payload(toC[i].src, toC[i].seq, n)
        /\ result' = result \/ result' = [result EXCEPT ![conn] = "eof"]
    BY <1>10, <2>1 DEF HttpRecv, Return
  <2>3. n \in Nat
    <3>1. /\ kind = "http" /\ conn > 0 /\ result[conn] = "none" /\ rcv # 0
      BY <1>10, <1>1 DEF HttpRecv, CallOK
    <3>2. PICK s \in 1..conn : At(s)
      BY <3>1 DEF TcpInv, ReadOK
    <3>3. Len(got) = Smaller(Counted(s, rcv), Room) /\ Isn(s) + 1 <= rcv
      BY <3>1, <3>2 DEF At
    <3>4. Len(got) \in Nat /\ toC[i].len \in Nat
      BY <1>1, Frame DEF TcpInv, Typed, TypeOK, TcpFrames
    <3>5. Counted(s, rcv) \in Nat
      <4>1. Isn(s) \in Nat /\ rcv \in Nat
        BY <1>1, <3>2, IsnFacts DEF Typed, TypeOK
      <4> QED BY <4>1, <3>3, <1>1 DEF Counted, Smaller
    <3>6. Len(got) <= Room
      BY <3>3, <3>5, <1>1 DEF Smaller
    <3> QED BY <3>4, <3>6, <1>1, <2>1 DEF Smaller
  <2> QED BY <2>1, <2>2, <2>3, <1>5, <1>8
<1> QED BY <1>3, <1>6, <1>7, <1>9, <1>10 DEF Client

LEMMA StreamsNext ==
  ASSUME TcpConstants, TcpInv, TcpInv', [Next]_vars
  PROVE  [Stream!Next]_(Stream!vars)
<1>1. CASE Client
  BY <1>1, ClientStreams
<1>2. ASSUME UNCHANGED <<mode, client>> PROVE [Stream!Next]_(Stream!vars)
  <2>1. UNCHANGED <<mode, conn, kind, result, got>>
    BY <1>2 DEF client
  <2>2. EndSeen' = EndSeen
    BY <2>1 DEF EndSeen, CleanStart
  <2> QED BY <2>1, <2>2 DEF Stream!vars
<1>3. CASE World
  <2>1. UNCHANGED <<mode, client>>
    BY <1>3 DEF World, SrvSend, Resend, SrvTake, Abort, Lose
  <2> QED BY <2>1, <1>2
<1>4. CASE UNCHANGED vars
  BY <1>2, <1>4 DEF vars
<1> QED BY <1>1, <1>3, <1>4 DEF Next

\* Whatever the network does, the callers of the client read a byte stream:
\* the first bytes of one server, and all of them when it says so.
THEOREM StreamImplemented ==
  ASSUME TcpConstants PROVE Init /\ [][Next]_vars => ImplementsStream
<1>1. Init => Stream!Init
  <2> SUFFICES ASSUME Init PROVE Stream!Init
    OBVIOUS
  <2>1. conn = 0 /\ kind = "http" /\ got = <<>> /\ Room \in Nat
    BY DEF Init, TcpConstants
  <2>2. EndSeen = "none"
    BY <2>1 DEF EndSeen
  <2> QED BY <2>1, <2>2 DEF Stream!Init
<1>2. TcpInv /\ TcpInv' /\ [Next]_vars => [Stream!Next]_(Stream!vars)
  BY StreamsNext
<1> QED BY <1>1, <1>2, TcpInvariant, PTL DEF ImplementsStream, Stream!Spec

(* A place in a ring and the next one.                                        *)
LEMMA NextInRing ==
  ASSUME NEW m \in Nat \ {0}, NEW x \in 0..(m - 1)
  PROVE  (x + 1) % m = IF x = m - 1 THEN 0 ELSE x + 1
OBVIOUS

(***************************************************************************)
(* The rings of the USB controller, of any size.  An entry of the event ring  *)
(* is the driver's if it lies between the two (EventLaps); the command ring   *)
(* holds at most one command and only its answer is on the way (Waiting); a   *)
(* keyboard that is registered has one read queued, or two if the answer to   *)
(* its control transfer was taken for a report (Load), and the bits of its    *)
(* ring are those of the lap, but for entries no one has written (Reading).   *)
(***************************************************************************)

\* The controller writes event e.
Wrote(e) ==
  /\ (hw.evt + 1) % EVT # drv.evt
  /\ evt' = [evt EXCEPT ![hw.evt] = [cycle |-> hw.evtCycle, e |-> e]]
  /\ hw'.evt = IF hw.evt = EVT - 1 THEN 0 ELSE hw.evt + 1
  /\ hw'.evtCycle = IF hw.evt = EVT - 1 THEN Usb!Flip(hw.evtCycle) ELSE hw.evtCycle
  /\ drv' = drv
HwPlace == [cmd : 0..(CMD - 1), cmdCycle : Usb!Bit, evt : 0..(EVT - 1), evtCycle : Usb!Bit]

LEMMA UsbInitTyped == Usb!XhciConstants /\ Usb!Init => Usb!TypeOK
<1> SUFFICES ASSUME Usb!XhciConstants, Usb!Init PROVE Usb!TypeOK OBVIOUS
<1> USE DEF Usb!XhciConstants, Usb!Init, Usb!Bit
<1>1. cmd \in [0..(CMD - 1) -> [cycle : Usb!Bit, trb : Usb!CmdSteps \cup {"none"}, slot : Usb!Slots \cup {0}]]
  OBVIOUS
<1>2. evt \in [0..(EVT - 1) -> [cycle : Usb!Bit, e : Usb!Event]]
  BY DEF Usb!Event, Usb!NoEvent
<1>3. hids \in Seq(Usb!Slots) /\ changes \in Nat
  OBVIOUS
<1>8. late \in BOOLEAN
  OBVIOUS
<1>4. dev \in [Usb!Slots -> Usb!Device]
  BY DEF Usb!Device
<1>5. tr \in [Usb!Slots -> [0..(TR - 1) -> Usb!Bit]]
  OBVIOUS
<1>6. /\ drv \in [cmd : 0..(CMD - 2), cmdCycle : Usb!Bit, evt : 0..(EvtWrap - 1), evtCycle : Usb!Bit]
      /\ hw \in [cmd : 0..(CMD - 1), cmdCycle : Usb!Bit, evt : 0..(EVT - 1), evtCycle : Usb!Bit]
  OBVIOUS
<1>7. /\ pc \in [port : Nat, step : Usb!CmdSteps \cup {"protocol", "poll"}, wait : BOOLEAN, slot : Usb!Slots \cup {0}]
      /\ pc.step = "enable"
  BY DEF Usb!CmdSteps
<1> QED BY <1>1, <1>2, <1>3, <1>4, <1>5, <1>6, <1>7, <1>8 DEF Usb!TypeOK

\* What the controller writes is an event, and a place of the ring follows.
LEMMA UsbWriteTyped ==
  ASSUME Usb!XhciConstants, Usb!TypeOK, NEW e \in Usb!Event, Usb!Write(e)
  PROVE  /\ (drv' = drv => Wrote(e))
         /\ hw' \in HwPlace
         /\ evt' \in [0..(EVT - 1) -> [cycle : Usb!Bit, e : Usb!Event]]
         /\ hw'.cmd = hw.cmd /\ hw'.cmdCycle = hw.cmdCycle
<1> DEFINE n == (hw.evt + 1) % EVT
           c == IF hw.evt = EVT - 1 THEN Usb!Flip(hw.evtCycle) ELSE hw.evtCycle
<1>1. n = IF hw.evt = EVT - 1 THEN 0 ELSE hw.evt + 1
  BY NextInRing DEF Usb!XhciConstants, Usb!TypeOK
<1>2. hw \in HwPlace /\ EVT \in Nat \ {0}
  BY DEF Usb!XhciConstants, Usb!TypeOK, HwPlace
<1>3. /\ evt' = [evt EXCEPT ![hw.evt] = [cycle |-> hw.evtCycle, e |-> e]] /\ n # drv.evt
      /\ hw' = [hw EXCEPT !.evt = n, !.evtCycle = c]
  BY <1>2 DEF Usb!Write, HwPlace
<1>5. c \in Usb!Bit /\ c = IF hw.evt = EVT - 1 THEN Usb!Flip(hw.evtCycle) ELSE hw.evtCycle
  BY <1>2 DEF Usb!Flip, Usb!Bit, HwPlace
<1>8. n \in 0..(EVT - 1)
  BY <1>1, <1>2 DEF HwPlace
<1> HIDE DEF n, c
<1>4. evt' = [evt EXCEPT ![hw.evt] = [cycle |-> hw.evtCycle, e |-> e]] /\ (hw.evt + 1) % EVT # drv.evt
  BY <1>3 DEF n
<1>6. hw' \in HwPlace /\ hw'.cmd = hw.cmd /\ hw'.cmdCycle = hw.cmdCycle /\ hw'.evt = n /\ hw'.evtCycle = c
  BY <1>2, <1>3, <1>5, <1>8 DEF HwPlace
<1>7. evt' \in [0..(EVT - 1) -> [cycle : Usb!Bit, e : Usb!Event]]
  <2>1. [cycle |-> hw.evtCycle, e |-> e] \in [cycle : Usb!Bit, e : Usb!Event]
    BY <1>2 DEF HwPlace
  <2> QED BY <1>3, <2>1 DEF Usb!TypeOK
<1> QED BY <1>1, <1>4, <1>5, <1>6, <1>7 DEF Wrote

\* The driver goes on to the next entry.
LEMMA UsbConsumeTyped ==
  ASSUME Usb!XhciConstants, Usb!TypeOK, Usb!consume_event
  PROVE  /\ drv' \in [cmd : 0..(CMD - 2), cmdCycle : Usb!Bit, evt : 0..(EvtWrap - 1), evtCycle : Usb!Bit]
         /\ drv'.cmd = drv.cmd /\ drv'.cmdCycle = drv.cmdCycle
         /\ drv'.evt = (IF drv.evt = EvtWrap - 1 THEN 0 ELSE drv.evt + 1)
         /\ drv'.evtCycle = (IF drv.evt = EvtWrap - 1 THEN Usb!Flip(drv.evtCycle) ELSE drv.evtCycle)
<1> DEFINE P == [cmd : 0..(CMD - 2), cmdCycle : Usb!Bit, evt : 0..(EvtWrap - 1), evtCycle : Usb!Bit]
<1>1. drv \in P /\ EvtWrap \in Nat \ {0}
  BY DEF Usb!XhciConstants, Usb!TypeOK
<1> DEFINE n == IF drv.evt = EvtWrap - 1 THEN 0 ELSE drv.evt + 1
           c == IF drv.evt = EvtWrap - 1 THEN Usb!Flip(drv.evtCycle) ELSE drv.evtCycle
<1>2. n \in 0..(EvtWrap - 1) /\ c \in Usb!Bit
  BY <1>1 DEF Usb!Flip, Usb!Bit
<1>3. (drv.evt + 1 >= EvtWrap) <=> drv.evt = EvtWrap - 1
  BY <1>1
<1>4. drv' = [drv EXCEPT !.evt = n, !.evtCycle = c]
  BY <1>1, <1>3 DEF Usb!consume_event
<1> HIDE DEF n, c
<1>5. drv' \in P /\ drv'.cmd = drv.cmd /\ drv'.cmdCycle = drv.cmdCycle /\ drv'.evt = n /\ drv'.evtCycle = c
  BY <1>1, <1>2, <1>4
<1> QED BY <1>5 DEF n, c

\* A read is queued at the driver's place of the ring.
Queue(d) == [d EXCEPT !.reads = d.reads + 1,
                      !.enq = IF d.enq = TR - 2 THEN 0 ELSE d.enq + 1,
                      !.enqCycle = IF d.enq = TR - 2 THEN Usb!Flip(d.enqCycle) ELSE d.enqCycle]

LEMMA UsbQueueFields ==
  ASSUME Usb!XhciConstants, NEW d \in Usb!Device
  PROVE  /\ Queue(d) \in Usb!Device
         /\ Queue(d).enq = (IF d.enq = TR - 2 THEN 0 ELSE d.enq + 1)
         /\ Queue(d).enqCycle = (IF d.enq = TR - 2 THEN Usb!Flip(d.enqCycle) ELSE d.enqCycle)
         /\ Queue(d).reads = d.reads + 1 /\ Queue(d).at = d.at /\ Queue(d).atCycle = d.atCycle
         /\ Queue(d).state = d.state /\ Queue(d).ctrl = d.ctrl
<1> DEFINE n == IF d.enq = TR - 2 THEN 0 ELSE d.enq + 1
           c == IF d.enq = TR - 2 THEN Usb!Flip(d.enqCycle) ELSE d.enqCycle
           r == d.reads + 1
<1>1. n \in 0..(TR - 2) /\ c \in Usb!Bit /\ r \in Nat
  BY DEF Usb!Flip, Usb!Bit, Usb!Device, Usb!XhciConstants
<1>2. Queue(d) = [d EXCEPT !.reads = r, !.enq = n, !.enqCycle = c]
  BY DEF Queue
<1> HIDE DEF n, c, r
<1>3. /\ Queue(d) \in Usb!Device /\ Queue(d).enq = n /\ Queue(d).enqCycle = c /\ Queue(d).reads = r
      /\ Queue(d).at = d.at /\ Queue(d).atCycle = d.atCycle /\ Queue(d).state = d.state /\ Queue(d).ctrl = d.ctrl
  BY <1>1, <1>2 DEF Usb!Device
<1> QED BY <1>3 DEF n, c, r

LEMMA UsbQueueTyped ==
  ASSUME Usb!XhciConstants, Usb!TypeOK, NEW s \in Usb!Slots, NEW d \in Usb!Device, Usb!queue_hid_read(s, d)
  PROVE  /\ tr' \in [Usb!Slots -> [0..(TR - 1) -> Usb!Bit]]
         /\ dev' \in [Usb!Slots -> Usb!Device]
         /\ dev' = [dev EXCEPT ![s] = Queue(d)]
         /\ \A n \in 0..(TR - 2) : tr'[s][n] = IF n = d.enq THEN d.enqCycle ELSE tr[s][n]
         /\ \A t \in Usb!Slots \ {s} : tr'[t] = tr[t] /\ dev'[t] = dev[t]
<1>1. d.enq \in 0..(TR - 2) /\ d.enqCycle \in Usb!Bit /\ TR \in Nat /\ TR >= 4 /\ d.reads \in Nat
  BY DEF Usb!Device, Usb!XhciConstants
<1>2. (d.enq + 1 >= TR - 1) <=> d.enq = TR - 2
  BY <1>1
<1>3. dev' = [dev EXCEPT ![s] = Queue(d)]
  <2>1. Queue(d) = [d EXCEPT !.reads = @ + 1, !.enq = IF d.enq + 1 >= TR - 1 THEN 0 ELSE @ + 1,
                             !.enqCycle = IF d.enq + 1 >= TR - 1 THEN Usb!Flip(@) ELSE @]
    BY <1>2 DEF Queue, Usb!Device
  <2> QED BY <2>1 DEF Usb!queue_hid_read
<1> DEFINE f == [n \in 0..(TR - 1) |-> IF n = d.enq \/ (n = TR - 1 /\ d.enq + 1 >= TR - 1) THEN d.enqCycle ELSE tr[s][n]]
<1>4. tr' = [tr EXCEPT ![s] = f]
  BY DEF Usb!queue_hid_read
<1>5. tr \in [Usb!Slots -> [0..(TR - 1) -> Usb!Bit]] /\ dev \in [Usb!Slots -> Usb!Device]
  BY DEF Usb!TypeOK
<1>6. f \in [0..(TR - 1) -> Usb!Bit] /\ \A n \in 0..(TR - 2) : f[n] = IF n = d.enq THEN d.enqCycle ELSE tr[s][n]
  BY <1>1, <1>5
<1> HIDE DEF f
<1>7. Queue(d) \in Usb!Device
  BY UsbQueueFields
<1> QED BY <1>3, <1>4, <1>5, <1>6, <1>7

LEMMA UsbInitLaps == Usb!XhciConstants /\ Usb!Init => Usb!EventLaps
BY DEF Usb!XhciConstants, Usb!Init, Usb!EventLaps, Usb!SameLap, Usb!Flip

\* An event that is written is the driver's to read, unless it is behind the end
\* of the driver's ring.
LEMMA UsbWriteLaps ==
  ASSUME Usb!XhciConstants, Usb!TypeOK, Usb!EventLaps, NEW e \in Usb!Event, Wrote(e)
  PROVE  /\ Usb!EventLaps'
         /\ hw.evt \notin Usb!Pending
         /\ Usb!Pending' = Usb!Pending \cup {n \in {hw.evt} : n < EvtWrap}
         /\ evt'[hw.evt].e = e
         /\ \A n \in Usb!Pending : evt'[n] = evt[n]
<1> DEFINE h == hw.evt
           d == drv.evt
           c == hw.evtCycle
           g == drv.evtCycle
           k == hw'.evt
           b == hw'.evtCycle
<1>1. /\ EVT \in Nat \ {0} /\ EvtWrap \in 1..EVT /\ h \in 0..(EVT - 1) /\ d \in 0..(EvtWrap - 1)
      /\ c \in {0, 1} /\ g \in {0, 1} /\ evt \in [0..(EVT - 1) -> [cycle : Usb!Bit, e : Usb!Event]]
  BY DEF Usb!XhciConstants, Usb!TypeOK, Usb!Bit
<1>2. /\ evt' = [evt EXCEPT ![h] = [cycle |-> c, e |-> e]] /\ drv'.evt = d /\ drv'.evtCycle = g
      /\ k = (IF h = EVT - 1 THEN 0 ELSE h + 1) /\ b = (IF h = EVT - 1 THEN 1 - c ELSE c)
      /\ (h + 1) % EVT # d
  BY DEF Wrote, Usb!Flip
<1>3. k # d
  BY <1>1, <1>2, NextInRing
<1>4. /\ \A n \in 0..(EVT - 1) : evt[n].cycle = IF n < h THEN c ELSE 1 - c
      /\ IF c = g THEN d <= h ELSE h < d \/ (d = 0 /\ h >= EvtWrap)
  BY DEF Usb!EventLaps, Usb!SameLap, Usb!Flip
<1>5. Usb!Pending = {n \in 0..(EvtWrap - 1) : IF c = g THEN d <= n /\ n < h ELSE h < d /\ (d <= n \/ n < h)}
  BY DEF Usb!Pending, Usb!SameLap
<1>6. Usb!Pending' = {n \in 0..(EvtWrap - 1) : IF b = g THEN d <= n /\ n < k ELSE k < d /\ (d <= n \/ n < k)}
  BY <1>2 DEF Usb!Pending, Usb!SameLap
<1>7. \A n \in 0..(EVT - 1) : evt'[n].cycle = IF n = h THEN c ELSE evt[n].cycle
  BY <1>1, <1>2
<1>8. evt'[h].e = e /\ \A n \in 0..(EVT - 1) : n # h => evt'[n] = evt[n]
  BY <1>1, <1>2
<1>9. Usb!EventLaps' <=> /\ \A n \in 0..(EVT - 1) : evt'[n].cycle = IF n < k THEN b ELSE 1 - b
                        /\ IF b = g THEN d <= k ELSE k < d \/ (d = 0 /\ k >= EvtWrap)
  BY <1>2 DEF Usb!EventLaps, Usb!SameLap, Usb!Flip
<1> HIDE DEF h, d, c, g, k, b
<1>10. \A n \in 0..(EVT - 1) : evt'[n].cycle = IF n < k THEN b ELSE 1 - b
  BY <1>1, <1>2, <1>4, <1>7
<1>11. IF b = g THEN d <= k ELSE k < d \/ (d = 0 /\ k >= EvtWrap)
  BY <1>1, <1>2, <1>3, <1>4
<1>12. h \notin Usb!Pending
  BY <1>1, <1>4, <1>5
<1>13. Usb!Pending' = Usb!Pending \cup {n \in {h} : n < EvtWrap}
  <2>1. ASSUME NEW n \in 0..(EvtWrap - 1)
        PROVE  (IF b = g THEN d <= n /\ n < k ELSE k < d /\ (d <= n \/ n < k))
               <=> (IF c = g THEN d <= n /\ n < h ELSE h < d /\ (d <= n \/ n < h)) \/ n = h
    BY <1>1, <1>2, <1>3, <1>4
  <2>2. \A n \in 0..(EvtWrap - 1) : n \in Usb!Pending' <=> n \in Usb!Pending \/ n = h
    BY <1>5, <1>6, <2>1
  <2>3. Usb!Pending \subseteq 0..(EvtWrap - 1) /\ Usb!Pending' \subseteq 0..(EvtWrap - 1)
    BY <1>5, <1>6
  <2>4. \A n : n \in {m \in {h} : m < EvtWrap} <=> n = h /\ n \in 0..(EvtWrap - 1)
    BY <1>1
  <2> QED BY <2>2, <2>3, <2>4
<1>14. \A n \in Usb!Pending : evt'[n] = evt[n]
  BY <1>1, <1>5, <1>8, <1>12
<1> QED BY <1>8, <1>9, <1>10, <1>11, <1>12, <1>13, <1>14 DEF h

\* What the driver finds is the event it has to read.
LEMMA UsbConsumeLaps ==
  ASSUME Usb!XhciConstants, Usb!TypeOK, Usb!EventLaps, Usb!consume_event, evt' = evt, hw' = hw
  PROVE  /\ Usb!EventLaps'
         /\ drv.evt \in Usb!Pending
         /\ Usb!Pending' = Usb!Pending \ {drv.evt}
<1> DEFINE h == hw.evt
           d == drv.evt
           c == hw.evtCycle
           g == drv.evtCycle
           k == drv'.evt
           b == drv'.evtCycle
<1>1. /\ EVT \in Nat \ {0} /\ EvtWrap \in 1..EVT /\ h \in 0..(EVT - 1) /\ d \in 0..(EvtWrap - 1)
      /\ c \in {0, 1} /\ g \in {0, 1}
  BY DEF Usb!XhciConstants, Usb!TypeOK, Usb!Bit
<1>2. /\ k = (IF d = EvtWrap - 1 THEN 0 ELSE d + 1) /\ b = (IF d = EvtWrap - 1 THEN 1 - g ELSE g)
  BY UsbConsumeTyped DEF Usb!Flip
<1>3. evt[d].cycle = g
  BY DEF Usb!consume_event, Usb!EventReady
<1>4. /\ \A n \in 0..(EVT - 1) : evt[n].cycle = IF n < h THEN c ELSE 1 - c
      /\ IF c = g THEN d <= h ELSE h < d \/ (d = 0 /\ h >= EvtWrap)
  BY DEF Usb!EventLaps, Usb!SameLap, Usb!Flip
<1>5. Usb!Pending = {n \in 0..(EvtWrap - 1) : IF c = g THEN d <= n /\ n < h ELSE h < d /\ (d <= n \/ n < h)}
  BY DEF Usb!Pending, Usb!SameLap
<1>6. Usb!Pending' = {n \in 0..(EvtWrap - 1) : IF c = b THEN k <= n /\ n < h ELSE h < k /\ (k <= n \/ n < h)}
  BY DEF Usb!Pending, Usb!SameLap
<1>7. Usb!EventLaps' <=> /\ \A n \in 0..(EVT - 1) : evt[n].cycle = IF n < h THEN c ELSE 1 - c
                        /\ IF c = b THEN k <= h ELSE h < k \/ (k = 0 /\ h >= EvtWrap)
  BY DEF Usb!EventLaps, Usb!SameLap, Usb!Flip
<1> HIDE DEF h, d, c, g, k, b
<1>8. IF c = g THEN d < h ELSE h < d
  BY <1>1, <1>3, <1>4
<1>9. IF c = b THEN k <= h ELSE h < k \/ (k = 0 /\ h >= EvtWrap)
  BY <1>1, <1>2, <1>8
<1>10. d \in Usb!Pending
  BY <1>1, <1>5, <1>8
<1>11. Usb!Pending' = Usb!Pending \ {d}
  <2>1. ASSUME NEW n \in 0..(EvtWrap - 1)
        PROVE  (IF c = b THEN k <= n /\ n < h ELSE h < k /\ (k <= n \/ n < h))
               <=> (IF c = g THEN d <= n /\ n < h ELSE h < d /\ (d <= n \/ n < h)) /\ n # d
    BY <1>1, <1>2, <1>8
  <2> QED BY <1>5, <1>6, <2>1
<1> QED BY <1>4, <1>7, <1>9, <1>10, <1>11 DEF d

\* How many events of a read are on the way to the driver.
Underway(s) == Cardinality(Usb!Transfers(s))

LEMMA UsbUnderway ==
  ASSUME Usb!XhciConstants, NEW s
  PROVE  IsFiniteSet(Usb!Transfers(s)) /\ Underway(s) \in Nat
<1>1. IsFiniteSet(0..(EvtWrap - 1))
  BY FS_Interval DEF Usb!XhciConstants
<1>2. Usb!Transfers(s) \subseteq 0..(EvtWrap - 1)
  BY DEF Usb!Transfers, Usb!Pending
<1>3. IsFiniteSet(Usb!Transfers(s))
  BY <1>1, <1>2, FS_Subset
<1> QED BY <1>3, FS_CardinalityType DEF Underway

LEMMA UsbWriteCounts ==
  ASSUME Usb!XhciConstants, Usb!TypeOK, Usb!EventLaps, NEW e \in Usb!Event, Wrote(e)
  PROVE  /\ e.type # "command" => Usb!Answers' = Usb!Answers /\ \A n \in Usb!Answers : evt'[n] = evt[n]
         /\ Usb!Answers = {} => \A n \in Usb!Answers' : n = hw.evt /\ evt'[n].e = e
         /\ \A s : Underway(s)' <= Underway(s) + (IF e.type = "transfer" /\ e.ok /\ e.slot = s THEN 1 ELSE 0)
<1>1. /\ hw.evt \notin Usb!Pending /\ Usb!Pending' = Usb!Pending \cup {n \in {hw.evt} : n < EvtWrap}
      /\ evt'[hw.evt].e = e /\ \A n \in Usb!Pending : evt'[n] = evt[n]
  BY UsbWriteLaps
<1>2. \A n : n \in Usb!Answers <=> n \in Usb!Pending /\ evt[n].e.type = "command"
  BY DEF Usb!Answers
<1>3. \A n : n \in Usb!Answers' <=> n \in Usb!Pending' /\ evt'[n].e.type = "command"
  BY DEF Usb!Answers
<1>4. ASSUME e.type # "command" PROVE Usb!Answers' = Usb!Answers /\ \A n \in Usb!Answers : evt'[n] = evt[n]
  <2>1. \A n \in Usb!Pending' : n \in Usb!Pending \/ n = hw.evt
    BY <1>1
  <2>2. \A n : n \in Usb!Answers' <=> n \in Usb!Answers
    BY <1>1, <1>2, <1>3, <1>4, <2>1
  <2> QED BY <1>1, <1>2, <2>2
<1>5. Usb!Answers = {} => \A n \in Usb!Answers' : n = hw.evt /\ evt'[n].e = e
  BY <1>1, <1>2, <1>3
<1>6. ASSUME NEW s
      PROVE  Underway(s)' <= Underway(s) + (IF e.type = "transfer" /\ e.ok /\ e.slot = s THEN 1 ELSE 0)
  <2> DEFINE T == Usb!Transfers(s)
             U == Usb!Transfers(s)'
  <2>1. IsFiniteSet(T) /\ Cardinality(T) \in Nat
    BY UsbUnderway DEF Underway
  <2>2. \A n : n \in T <=> n \in Usb!Pending /\ evt[n].e.type = "transfer" /\ evt[n].e.slot = s /\ evt[n].e.ok
    BY DEF Usb!Transfers
  <2>3. \A n : n \in U <=> n \in Usb!Pending' /\ evt'[n].e.type = "transfer" /\ evt'[n].e.slot = s /\ evt'[n].e.ok
    BY DEF Usb!Transfers
  <2>4. U \subseteq T \cup {hw.evt} /\ (~(e.type = "transfer" /\ e.ok /\ e.slot = s) => U \subseteq T)
    BY <1>1, <2>2, <2>3
  <2>5. Underway(s) = Cardinality(T) /\ Underway(s)' = Cardinality(U)
    BY DEF Underway
  <2> HIDE DEF T, U
  <2>6. IsFiniteSet(T \cup {hw.evt}) /\ Cardinality(T \cup {hw.evt}) <= Cardinality(T) + 1
    BY <2>1, FS_AddElement
  <2>7. Cardinality(U) \in Nat /\ Cardinality(U) <= Cardinality(T \cup {hw.evt})
    BY <2>4, <2>6, FS_Subset, FS_CardinalityType
  <2>8. ~(e.type = "transfer" /\ e.ok /\ e.slot = s) => Cardinality(U) <= Cardinality(T)
    BY <2>1, <2>4, FS_Subset
  <2>9. Cardinality(T \cup {hw.evt}) \in Nat
    BY <2>6, FS_CardinalityType
  <2> QED BY <2>1, <2>5, <2>6, <2>7, <2>8, <2>9
<1> QED BY <1>4, <1>5, <1>6

LEMMA UsbConsumeCounts ==
  ASSUME Usb!XhciConstants, Usb!TypeOK, Usb!EventLaps, Usb!consume_event, evt' = evt, hw' = hw
  PROVE  /\ Usb!Answers' = Usb!Answers \ {drv.evt}
         /\ evt[drv.evt].e.type = "command" => drv.evt \in Usb!Answers
         /\ \A s : LET e == evt[drv.evt].e IN
              Underway(s)' = Underway(s) - (IF e.type = "transfer" /\ e.ok /\ e.slot = s THEN 1 ELSE 0)
<1>1. drv.evt \in Usb!Pending /\ Usb!Pending' = Usb!Pending \ {drv.evt}
  BY UsbConsumeLaps
<1>2. Usb!Answers' = Usb!Answers \ {drv.evt} /\ (evt[drv.evt].e.type = "command" => drv.evt \in Usb!Answers)
  <2>1. \A n : n \in Usb!Answers <=> n \in Usb!Pending /\ evt[n].e.type = "command"
    BY DEF Usb!Answers
  <2>2. \A n : n \in Usb!Answers' <=> n \in Usb!Pending' /\ evt[n].e.type = "command"
    BY DEF Usb!Answers
  <2> QED BY <1>1, <2>1, <2>2
<1>3. ASSUME NEW s
      PROVE  LET e == evt[drv.evt].e IN
             Underway(s)' = Underway(s) - (IF e.type = "transfer" /\ e.ok /\ e.slot = s THEN 1 ELSE 0)
  <2> DEFINE T == Usb!Transfers(s)
             U == Usb!Transfers(s)'
             e == evt[drv.evt].e
             m == e.type = "transfer" /\ e.ok /\ e.slot = s
  <2>1. IsFiniteSet(T) /\ Cardinality(T) \in Nat
    BY UsbUnderway DEF Underway
  <2>2. \A n : n \in T <=> n \in Usb!Pending /\ evt[n].e.type = "transfer" /\ evt[n].e.slot = s /\ evt[n].e.ok
    BY DEF Usb!Transfers
  <2>3. \A n : n \in U <=> n \in Usb!Pending' /\ evt[n].e.type = "transfer" /\ evt[n].e.slot = s /\ evt[n].e.ok
    BY DEF Usb!Transfers
  <2>4. U = T \ {drv.evt} /\ (drv.evt \in T <=> m)
    BY <1>1, <2>2, <2>3
  <2>5. Underway(s) = Cardinality(T) /\ Underway(s)' = Cardinality(U)
    BY DEF Underway
  <2> HIDE DEF T, U, m
  <2>6. Cardinality(U) = IF m THEN Cardinality(T) - 1 ELSE Cardinality(T)
    BY <2>1, <2>4, FS_RemoveElement
  <2> QED BY <2>1, <2>5, <2>6 DEF m
<1> QED BY <1>2, <1>3

\* One field of one device changes.
LEMMA UsbDeviceTyped ==
  ASSUME Usb!TypeOK, NEW s \in Usb!Slots, NEW d \in Usb!Device, dev' = [dev EXCEPT ![s] = d]
  PROVE  dev' \in [Usb!Slots -> Usb!Device] /\ dev'[s] = d /\ \A t \in Usb!Slots \ {s} : dev'[t] = dev[t]
BY DEF Usb!TypeOK

\* A controller that fills a read goes on to the next.
Fill(d) == [d EXCEPT !.reads = d.reads - 1, !.reports = d.reports + 1,
                     !.at = IF d.at = TR - 2 THEN 0 ELSE d.at + 1,
                     !.atCycle = IF d.at = TR - 2 THEN Usb!Flip(d.atCycle) ELSE d.atCycle]

LEMMA UsbFillTyped ==
  ASSUME Usb!XhciConstants, NEW d \in Usb!Device, d.reads # 0
  PROVE  /\ Fill(d) \in Usb!Device
         /\ Fill(d).at = (IF d.at = TR - 2 THEN 0 ELSE d.at + 1)
         /\ Fill(d).atCycle = (IF d.at = TR - 2 THEN Usb!Flip(d.atCycle) ELSE d.atCycle)
         /\ Fill(d).reads = d.reads - 1 /\ Fill(d).enq = d.enq /\ Fill(d).enqCycle = d.enqCycle
         /\ Fill(d).state = d.state /\ Fill(d).ctrl = d.ctrl
<1> DEFINE n == IF d.at = TR - 2 THEN 0 ELSE d.at + 1
           c == IF d.at = TR - 2 THEN Usb!Flip(d.atCycle) ELSE d.atCycle
           r == d.reads - 1
           m == d.reports + 1
<1>1. n \in 0..(TR - 2) /\ c \in Usb!Bit /\ r \in Nat /\ m \in Nat
  BY DEF Usb!Flip, Usb!Bit, Usb!Device, Usb!XhciConstants
<1>2. Fill(d) = [d EXCEPT !.reads = r, !.reports = m, !.at = n, !.atCycle = c]
  BY DEF Fill
<1> HIDE DEF n, c, r, m
<1>3. /\ Fill(d) \in Usb!Device /\ Fill(d).at = n /\ Fill(d).atCycle = c /\ Fill(d).reads = r
      /\ Fill(d).enq = d.enq /\ Fill(d).enqCycle = d.enqCycle /\ Fill(d).state = d.state /\ Fill(d).ctrl = d.ctrl
  BY <1>1, <1>2 DEF Usb!Device
<1> QED BY <1>3 DEF n, c, r

LEMMA UsbReported ==
  ASSUME Usb!XhciConstants, Usb!TypeOK, NEW s \in Usb!Slots, Usb!Report(s)
  PROVE  /\ dev' = [dev EXCEPT ![s] = Fill(dev[s])]
         /\ dev[s].reads # 0 /\ dev[s].state = "configured" /\ Usb!Seen(s)
         /\ Usb!Write([type |-> "transfer", slot |-> s, ok |-> TRUE])
         /\ UNCHANGED <<cmd, tr, drv, pc, hids, late, changes>>
<1>1. dev[s] \in Usb!Device /\ TR \in Nat /\ dev[s].at \in 0..(TR - 2)
  BY DEF Usb!TypeOK, Usb!XhciConstants, Usb!Device
<1>2. (dev[s].at + 1 = TR - 1) <=> dev[s].at = TR - 2
  BY <1>1
<1>3. dev' = [dev EXCEPT ![s] = [dev[s] EXCEPT !.reads = @ - 1, !.reports = @ + 1,
                           !.at = IF dev[s].at + 1 = TR - 1 THEN 0 ELSE @ + 1,
                           !.atCycle = IF dev[s].at + 1 = TR - 1 THEN Usb!Flip(@) ELSE @]]
  BY DEF Usb!Report
<1>4. Fill(dev[s]) = [dev[s] EXCEPT !.reads = @ - 1, !.reports = @ + 1,
                           !.at = IF dev[s].at + 1 = TR - 1 THEN 0 ELSE @ + 1,
                           !.atCycle = IF dev[s].at + 1 = TR - 1 THEN Usb!Flip(@) ELSE @]
  BY <1>1, <1>2 DEF Fill, Usb!Device
<1> QED BY <1>3, <1>4 DEF Usb!Report

\* A command is executed, or refused.
Done(s) ==
  LET t == cmd[hw.cmd].trb IN
  /\ t = "enable" \/ s = cmd[hw.cmd].slot
  /\ dev[s].state = Usb!Needs(t)
  /\ dev' = [dev EXCEPT ![s] = [dev[s] EXCEPT !.state = Usb!Gives(t)]]
  /\ Wrote([type |-> "command", slot |-> s, ok |-> TRUE])
Refused == /\ dev' = dev
           /\ Wrote([type |-> "command", slot |-> cmd[hw.cmd].slot, ok |-> FALSE])

LEMMA UsbExecuted ==
  ASSUME Usb!XhciConstants, Usb!TypeOK, Usb!Execute
  PROVE  /\ hw.cmd \in 0..(CMD - 2) /\ cmd[hw.cmd].cycle = hw.cmdCycle
         /\ UNCHANGED <<cmd, tr, drv, pc, hids, late, changes>>
         /\ hw' \in HwPlace /\ hw'.cmd = hw.cmd + 1 /\ hw'.cmdCycle = hw.cmdCycle
         /\ evt' \in [0..(EVT - 1) -> [cycle : Usb!Bit, e : Usb!Event]]
         /\ Refused \/ \E s \in Usb!Slots : Done(s)
<1> DEFINE n == (hw.evt + 1) % EVT
           c == IF hw.evt = EVT - 1 THEN Usb!Flip(hw.evtCycle) ELSE hw.evtCycle
           k == hw.cmd + 1
<1>1. n = IF hw.evt = EVT - 1 THEN 0 ELSE hw.evt + 1
  BY NextInRing DEF Usb!XhciConstants, Usb!TypeOK
<1>2. hw \in HwPlace /\ EVT \in Nat \ {0} /\ CMD \in Nat /\ CMD >= 3
  BY DEF Usb!XhciConstants, Usb!TypeOK, HwPlace
<1>3. hw' = [hw EXCEPT !.evt = n, !.cmd = k, !.evtCycle = c]
  BY <1>2 DEF Usb!Execute, HwPlace
<1>4. c \in Usb!Bit /\ n \in 0..(EVT - 1)
  BY <1>1, <1>2 DEF Usb!Flip, Usb!Bit, HwPlace
<1>5. hw.cmd \in 0..(CMD - 2) /\ k \in 0..(CMD - 1)
  BY <1>2 DEF Usb!Execute, HwPlace
<1> HIDE DEF n, c, k
<1>6. hw' \in HwPlace /\ hw'.cmd = k /\ hw'.cmdCycle = hw.cmdCycle /\ hw'.evt = n /\ hw'.evtCycle = c
  BY <1>2, <1>3, <1>4, <1>5 DEF HwPlace
<1>7. n # drv.evt /\ drv' = drv /\ cmd[hw.cmd].cycle = hw.cmdCycle /\ UNCHANGED <<cmd, tr, drv, pc, hids, late, changes>>
  BY DEF Usb!Execute, n
<1>8. ASSUME NEW e, evt' = [evt EXCEPT ![hw.evt] = [cycle |-> hw.evtCycle, e |-> e]] PROVE Wrote(e)
  BY <1>1, <1>6, <1>7, <1>8 DEF Wrote, n, c
<1>9. ASSUME NEW e \in Usb!Event, Wrote(e) PROVE evt' \in [0..(EVT - 1) -> [cycle : Usb!Bit, e : Usb!Event]]
  <2>1. [cycle |-> hw.evtCycle, e |-> e] \in [cycle : Usb!Bit, e : Usb!Event]
    BY <1>2 DEF HwPlace
  <2> QED BY <1>9, <2>1 DEF Usb!TypeOK, Wrote
<1>10. \A s \in Usb!Slots \cup {0}, o \in BOOLEAN : [type |-> "command", slot |-> s, ok |-> o] \in Usb!Event
  BY DEF Usb!Event
<1>11. cmd[hw.cmd].slot \in Usb!Slots \cup {0}
  BY <1>2, <1>5 DEF Usb!TypeOK
<1>12. Refused \/ \E s \in Usb!Slots : Done(s)
  <2>1. CASE \E s \in Usb!Slots :
            /\ cmd[hw.cmd].trb = "enable" \/ s = cmd[hw.cmd].slot
            /\ dev[s].state = Usb!Needs(cmd[hw.cmd].trb)
            /\ dev' = [dev EXCEPT ![s].state = Usb!Gives(cmd[hw.cmd].trb)]
            /\ evt' = [evt EXCEPT ![hw.evt] = [cycle |-> hw.evtCycle,
                         e |-> [type |-> "command", slot |-> s, ok |-> TRUE]]]
    BY <1>8, <2>1 DEF Done
  <2>2. CASE /\ evt' = [evt EXCEPT ![hw.evt] = [cycle |-> hw.evtCycle,
                          e |-> [type |-> "command", slot |-> cmd[hw.cmd].slot, ok |-> FALSE]]]
             /\ UNCHANGED dev
    BY <1>8, <2>2 DEF Refused
  <2> QED BY <2>1, <2>2 DEF Usb!Execute
<1>13. evt' \in [0..(EVT - 1) -> [cycle : Usb!Bit, e : Usb!Event]]
  BY <1>9, <1>10, <1>11, <1>12 DEF Refused, Done
<1> QED BY <1>5, <1>6, <1>7, <1>12, <1>13 DEF k

\* Of the controller's steps, and of the driver's.
LEMMA UsbControllerTyped ==
  ASSUME Usb!XhciConstants, Usb!TypeOK, Usb!Controller
  PROVE  Usb!TypeOK'
<1>1. CASE Usb!FollowLink
  <2>2. hw \in HwPlace /\ CMD \in Nat /\ CMD >= 3
    BY DEF Usb!TypeOK, HwPlace, Usb!XhciConstants
  <2>3. Usb!Flip(hw.cmdCycle) \in Usb!Bit
    BY <2>2 DEF Usb!Flip, Usb!Bit, HwPlace
  <2>4. hw' = [hw EXCEPT !.cmd = 0, !.cmdCycle = Usb!Flip(hw.cmdCycle)]
    BY <1>1, <2>2 DEF Usb!FollowLink, HwPlace
  <2>5. 0 \in 0..(CMD - 1)
    BY <2>2
  <2>1. hw' \in HwPlace
    <3> DEFINE c == Usb!Flip(hw.cmdCycle)
    <3> HIDE DEF c
    <3>1. c \in Usb!Bit /\ hw' = [hw EXCEPT !.cmd = 0, !.cmdCycle = c]
      BY <2>3, <2>4 DEF c
    <3> QED BY <2>2, <2>5, <3>1 DEF HwPlace
  <2> QED BY <1>1, <2>1 DEF Usb!FollowLink, Usb!TypeOK, HwPlace
<1>2. CASE Usb!Execute
  <2>1. \A t : Usb!Gives(t) \in {"enabled", "addressed", "configured"}
    BY DEF Usb!Gives
  <2>2. ASSUME NEW s \in Usb!Slots, Done(s) PROVE dev' \in [Usb!Slots -> Usb!Device]
    <3>2. dev[s] \in Usb!Device
      BY DEF Usb!TypeOK
    <3>1. [dev[s] EXCEPT !.state = Usb!Gives(cmd[hw.cmd].trb)] \in Usb!Device
      BY <2>1, <3>2 DEF Usb!Device
    <3> QED BY <2>2, <3>1, UsbDeviceTyped DEF Done
  <2>3. dev' \in [Usb!Slots -> Usb!Device]
    BY <1>2, <2>2, UsbExecuted DEF Refused, Usb!TypeOK
  <2> QED BY <1>2, <2>3, UsbExecuted DEF Usb!TypeOK, HwPlace
<1>3. CASE Usb!PortChange
  <2>1. [type |-> "port", slot |-> 0, ok |-> TRUE] \in Usb!Event
    BY DEF Usb!Event
  <2> QED BY <1>3, <2>1, UsbWriteTyped DEF Usb!PortChange, Usb!TypeOK, HwPlace
<1>4. ASSUME NEW s \in Usb!Slots, Usb!CtrlDone(s) PROVE Usb!TypeOK'
  <2>1. \A o \in BOOLEAN : [type |-> "transfer", slot |-> s, ok |-> o] \in Usb!Event
    BY DEF Usb!Event
  <2>4. dev[s] \in Usb!Device
    BY DEF Usb!TypeOK
  <2>2. [dev[s] EXCEPT !.ctrl = FALSE] \in Usb!Device
    <3> PICK d \in Usb!Device : d = dev[s]
      BY <2>4
    <3>1. [d EXCEPT !.ctrl = FALSE] \in Usb!Device
      BY DEF Usb!Device
    <3> QED BY <3>1
  <2>3. dev' \in [Usb!Slots -> Usb!Device]
    BY <1>4, <2>2, UsbDeviceTyped DEF Usb!CtrlDone
  <2> QED BY <1>4, <2>1, <2>3, UsbWriteTyped DEF Usb!CtrlDone, Usb!TypeOK, HwPlace
<1>5. ASSUME NEW s \in Usb!Slots, Usb!Report(s) PROVE Usb!TypeOK'
  <2>1. [type |-> "transfer", slot |-> s, ok |-> TRUE] \in Usb!Event
    BY DEF Usb!Event
  <2>2. dev' \in [Usb!Slots -> Usb!Device]
    <3> PICK d : d = Fill(dev[s])
      OBVIOUS
    <3>1. dev' = [dev EXCEPT ![s] = d] /\ dev[s].reads # 0
      BY <1>5, UsbReported
    <3>2. dev[s] \in Usb!Device
      BY DEF Usb!TypeOK
    <3>3. d \in Usb!Device
      BY <3>1, <3>2, UsbFillTyped
    <3> QED BY <3>1, <3>3, UsbDeviceTyped
  <2> QED BY <1>5, <2>1, <2>2, UsbWriteTyped, UsbReported DEF Usb!TypeOK, HwPlace
<1>6. ASSUME NEW s \in Usb!Slots, Usb!Stray(s) PROVE Usb!TypeOK'
  <2>1. [type |-> "transfer", slot |-> s, ok |-> FALSE] \in Usb!Event
    BY DEF Usb!Event
  <2>4. dev[s] \in Usb!Device
    BY DEF Usb!TypeOK
  <2>2. [dev[s] EXCEPT !.state = "halted"] \in Usb!Device
    BY <2>4 DEF Usb!Device
  <2>3. dev' \in [Usb!Slots -> Usb!Device]
    BY <1>6, <2>2, UsbDeviceTyped DEF Usb!Stray
  <2> QED BY <1>6, <2>1, <2>3, UsbWriteTyped DEF Usb!Stray, Usb!TypeOK, HwPlace
<1> QED BY <1>1, <1>2, <1>3, <1>4, <1>5, <1>6 DEF Usb!Controller

PcPlace == [port : Nat, step : Usb!CmdSteps \cup {"protocol", "poll"}, wait : BOOLEAN, slot : Usb!Slots \cup {0}]

\* The enumeration goes on with the next port, or is over.
LEMMA UsbNextPort ==
  ASSUME Usb!XhciConstants, Usb!TypeOK, Usb!NextPort
  PROVE  pc' \in PcPlace /\ pc'.step \in {"enable", "poll"} /\ ~pc'.wait
<1>1. pc \in PcPlace /\ {"enable", "poll"} \subseteq Usb!CmdSteps \cup {"protocol", "poll"}
  BY DEF Usb!TypeOK, PcPlace, Usb!CmdSteps
<1>2. CASE pc.port < NPorts
  <2>1. pc' = [port |-> pc.port + 1, step |-> "enable", wait |-> FALSE, slot |-> 0]
    BY <1>2 DEF Usb!NextPort
  <2>2. pc.port + 1 \in Nat
    BY <1>1 DEF PcPlace
  <2> QED BY <1>1, <2>1, <2>2 DEF PcPlace
<1>3. CASE ~(pc.port < NPorts)
  <2>1. pc' = [pc EXCEPT !.step = "poll", !.wait = FALSE]
    BY <1>3 DEF Usb!NextPort
  <2> QED BY <1>1, <2>1 DEF PcPlace
<1> QED BY <1>2, <1>3

\* The driver posts the command of its step.
Posted ==
  /\ \A n \in 0..(CMD - 2) :
       cmd'[n] = IF n = drv.cmd THEN [cycle |-> drv.cmdCycle, trb |-> pc.step, slot |-> pc.slot] ELSE cmd[n]
  /\ drv'.cmd = (IF drv.cmd = CMD - 2 THEN 0 ELSE drv.cmd + 1)
  /\ drv'.cmdCycle = (IF drv.cmd = CMD - 2 THEN Usb!Flip(drv.cmdCycle) ELSE drv.cmdCycle)
  /\ drv'.evt = drv.evt /\ drv'.evtCycle = drv.evtCycle
  /\ pc' = [pc EXCEPT !.wait = TRUE]

LEMMA UsbPosted ==
  ASSUME Usb!XhciConstants, Usb!TypeOK, Usb!Post
  PROVE  Posted /\ Usb!TypeOK'
<1> DEFINE P == [cmd : 0..(CMD - 2), cmdCycle : Usb!Bit, evt : 0..(EvtWrap - 1), evtCycle : Usb!Bit]
           C == [cycle : Usb!Bit, trb : Usb!CmdSteps \cup {"none"}, slot : Usb!Slots \cup {0}]
           n == IF drv.cmd = CMD - 2 THEN 0 ELSE drv.cmd + 1
           c == IF drv.cmd = CMD - 2 THEN Usb!Flip(drv.cmdCycle) ELSE drv.cmdCycle
           new == [cycle |-> drv.cmdCycle, trb |-> pc.step, slot |-> pc.slot]
<1>1. drv \in P /\ CMD \in Nat /\ CMD >= 3 /\ pc \in PcPlace /\ cmd \in [0..(CMD - 1) -> C]
  BY DEF Usb!XhciConstants, Usb!TypeOK, PcPlace
<1>2. (drv.cmd + 1 >= CMD - 1) <=> drv.cmd = CMD - 2
  BY <1>1
<1>3. n \in 0..(CMD - 2) /\ c \in Usb!Bit
  BY <1>1 DEF Usb!Flip, Usb!Bit
<1>4. drv' = [drv EXCEPT !.cmd = n, !.cmdCycle = c]
  BY <1>1, <1>2 DEF Usb!Post, Usb!post_cmd
<1>5. pc.step \in Usb!CmdSteps /\ pc' = [pc EXCEPT !.wait = TRUE] /\ UNCHANGED <<evt, tr, hw, dev, hids, late, changes>>
  BY DEF Usb!Post
<1>6. new \in C
  BY <1>1, <1>5 DEF PcPlace
<1>7. cmd' = [i \in 0..(CMD - 1) |->
                 IF i = drv.cmd THEN new
                 ELSE IF i = CMD - 1 /\ drv.cmd = CMD - 2 THEN [cmd[i] EXCEPT !.cycle = drv.cmdCycle]
                 ELSE cmd[i]]
  BY <1>2 DEF Usb!Post, Usb!post_cmd
<1> HIDE DEF n, c, new
<1>8. drv' \in P /\ drv'.cmd = n /\ drv'.cmdCycle = c /\ drv'.evt = drv.evt /\ drv'.evtCycle = drv.evtCycle
  BY <1>1, <1>3, <1>4
<1>9. \A i \in 0..(CMD - 2) : cmd'[i] = IF i = drv.cmd THEN new ELSE cmd[i]
  BY <1>1, <1>7
<1>10. cmd' \in [0..(CMD - 1) -> C]
  <2>1. \A i \in 0..(CMD - 1) : [cmd[i] EXCEPT !.cycle = drv.cmdCycle] \in C
    BY <1>1
  <2> QED BY <1>1, <1>6, <1>7, <2>1
<1>11. pc' \in PcPlace /\ pc'.step = pc.step /\ pc'.slot = pc.slot
  BY <1>1, <1>5 DEF PcPlace
<1>12. Posted
  BY <1>5, <1>8, <1>9 DEF Posted, n, c, new
<1>13. Usb!TypeOK'
  BY <1>5, <1>8, <1>10, <1>11 DEF Usb!TypeOK, PcPlace
<1> QED BY <1>12, <1>13

\* A keyboard comes into the table, with its first read.
First(s) == Queue([dev[s] EXCEPT !.enq = TR0, !.enqCycle = 1])
Added(s) ==
  /\ hids' = Append(hids, s)
  /\ dev' = [dev EXCEPT ![s] = First(s)]
  /\ \A n \in 0..(TR - 2) : tr'[s][n] = IF n = TR0 THEN 1 ELSE tr[s][n]
  /\ \A t \in Usb!Slots \ {s} : tr'[t] = tr[t] /\ dev'[t] = dev[t]

LEMMA UsbRegistered ==
  ASSUME Usb!XhciConstants, Usb!TypeOK, NEW s \in Usb!Slots, Usb!register_hid(s)
  PROVE  /\ Added(s) \/ (Len(hids) >= MAX_HID_DEVS /\ UNCHANGED <<hids, tr, dev>>)
         /\ tr' \in [Usb!Slots -> [0..(TR - 1) -> Usb!Bit]] /\ dev' \in [Usb!Slots -> Usb!Device]
         /\ hids' \in Seq(Usb!Slots)
<1>1. CASE Len(hids) >= MAX_HID_DEVS
  BY <1>1 DEF Usb!register_hid, Usb!TypeOK
<1>2. CASE ~(Len(hids) >= MAX_HID_DEVS)
  <2> DEFINE d == [dev[s] EXCEPT !.enq = TR0, !.enqCycle = 1]
  <2>1. dev[s] \in Usb!Device /\ TR0 \in 0..(TR - 2) /\ 1 \in Usb!Bit
    BY DEF Usb!TypeOK, Usb!XhciConstants, Usb!Bit
  <2>2. d \in Usb!Device /\ d.enq = TR0 /\ d.enqCycle = 1
    BY <2>1 DEF Usb!Device
  <2>3. Usb!queue_hid_read(s, d) /\ hids' = Append(hids, s)
    BY <1>2 DEF Usb!register_hid
  <2>4. hids' \in Seq(Usb!Slots)
    BY <2>3 DEF Usb!TypeOK
  <2> HIDE DEF d
  <2>5. /\ tr' \in [Usb!Slots -> [0..(TR - 1) -> Usb!Bit]] /\ dev' \in [Usb!Slots -> Usb!Device]
        /\ dev' = [dev EXCEPT ![s] = Queue(d)]
        /\ \A n \in 0..(TR - 2) : tr'[s][n] = IF n = d.enq THEN d.enqCycle ELSE tr[s][n]
        /\ \A t \in Usb!Slots \ {s} : tr'[t] = tr[t] /\ dev'[t] = dev[t]
    BY <2>2, <2>3, UsbQueueTyped
  <2>6. Queue(d) = First(s)
    BY DEF First, d
  <2>7. \A n \in 0..(TR - 2) : tr'[s][n] = IF n = TR0 THEN 1 ELSE tr[s][n]
    BY <2>2, <2>5
  <2>8. Added(s)
    BY <2>3, <2>5, <2>6, <2>7 DEF Added
  <2> QED BY <2>4, <2>5, <2>8
<1> QED BY <1>1, <1>2

\* The ways an event ends or does not end the wait for a completion.
Dropped == evt[drv.evt].e.type # "command" /\ UNCHANGED <<pc, dev, tr, hids>>
GaveUp == evt[drv.evt].e.type = "command" /\ Usb!NextPort /\ UNCHANGED <<dev, tr, hids>>
Ready == /\ evt[drv.evt].e.type = "command" /\ evt[drv.evt].e.ok
         /\ pc.step = "configure" /\ Usb!NextPort /\ Usb!register_hid(pc.slot)
GoesOn == /\ evt[drv.evt].e.type = "command" /\ evt[drv.evt].e.ok
          /\ \/ /\ pc.step = "enable" /\ evt[drv.evt].e.slot # 0
                /\ pc' = [pc EXCEPT !.wait = FALSE, !.step = "address", !.slot = evt[drv.evt].e.slot]
             \/ /\ pc.step = "address"
                /\ pc' = [pc EXCEPT !.wait = FALSE, !.step = "protocol"]
          /\ UNCHANGED <<dev, tr, hids>>

LEMMA UsbCompleted ==
  ASSUME Usb!XhciConstants, Usb!TypeOK, Usb!Completion
  PROVE  /\ pc.step \in Usb!CmdSteps /\ pc.wait /\ Usb!consume_event
         /\ UNCHANGED <<cmd, evt, hw, late, changes>>
         /\ Dropped \/ GaveUp \/ Ready \/ GoesOn
         /\ Usb!TypeOK'
<1>1. pc.step \in Usb!CmdSteps /\ pc.wait /\ Usb!consume_event /\ UNCHANGED <<cmd, evt, hw, late, changes>>
  BY DEF Usb!Completion
<1>2. pc \in PcPlace /\ drv.evt \in 0..(EVT - 1) /\ evt[drv.evt].e \in Usb!Event
  BY DEF Usb!TypeOK, PcPlace, Usb!XhciConstants
<1>3. Dropped \/ GaveUp \/ Ready \/ GoesOn
  <2>1. CASE evt[drv.evt].e.type # "command"
    BY <2>1 DEF Usb!Completion, Dropped
  <2>2. CASE evt[drv.evt].e.type = "command" /\ (~evt[drv.evt].e.ok \/ (pc.step = "enable" /\ evt[drv.evt].e.slot = 0))
    BY <2>2 DEF Usb!Completion, GaveUp
  <2>3. CASE /\ evt[drv.evt].e.type = "command" /\ evt[drv.evt].e.ok /\ pc.step = "configure"
    BY <2>3 DEF Usb!Completion, Ready
  <2>4. CASE /\ evt[drv.evt].e.type = "command" /\ evt[drv.evt].e.ok /\ pc.step = "enable" /\ evt[drv.evt].e.slot # 0
    BY <2>4 DEF Usb!Completion, GoesOn
  <2>5. CASE /\ evt[drv.evt].e.type = "command" /\ evt[drv.evt].e.ok /\ pc.step = "address"
    <3>1. pc' = [pc EXCEPT !.wait = FALSE, !.step = "protocol", !.slot = pc.slot] /\ UNCHANGED <<dev, tr, hids>>
      BY <2>5 DEF Usb!Completion
    <3>2. [pc EXCEPT !.wait = FALSE, !.step = "protocol", !.slot = pc.slot] = [pc EXCEPT !.wait = FALSE, !.step = "protocol"]
      BY <1>2 DEF PcPlace
    <3> QED BY <2>5, <3>1, <3>2 DEF GoesOn
  <2>6. pc.step \in {"enable", "address", "configure"}
    BY <1>1 DEF Usb!CmdSteps
  <2> QED BY <1>2, <2>1, <2>2, <2>3, <2>4, <2>5, <2>6 DEF Usb!Event
<1>4. drv' \in [cmd : 0..(CMD - 2), cmdCycle : Usb!Bit, evt : 0..(EvtWrap - 1), evtCycle : Usb!Bit]
  BY <1>1, UsbConsumeTyped
<1>5. /\ pc' \in PcPlace
      /\ pc'.step \in {"address", "protocol", "configure"} => pc'.slot \in Usb!Slots
  <2>1. CASE Dropped
    BY <1>2, <2>1 DEF Dropped, Usb!TypeOK
  <2>2. CASE GaveUp \/ Ready
    BY <2>2, UsbNextPort DEF GaveUp, Ready
  <2>3. CASE GoesOn
    <3>1. evt[drv.evt].e.slot \in Usb!Slots \cup {0} /\ {"address", "protocol"} \subseteq Usb!CmdSteps \cup {"protocol", "poll"}
      BY <1>2 DEF Usb!Event, Usb!CmdSteps
    <3>2. pc.step = "address" => pc.slot \in Usb!Slots
      BY DEF Usb!TypeOK
    <3>3. CASE /\ pc.step = "enable" /\ evt[drv.evt].e.slot # 0
               /\ pc' = [pc EXCEPT !.wait = FALSE, !.step = "address", !.slot = evt[drv.evt].e.slot]
      BY <1>2, <3>1, <3>3 DEF PcPlace
    <3>4. CASE pc.step = "address" /\ pc' = [pc EXCEPT !.wait = FALSE, !.step = "protocol"]
      BY <1>2, <3>1, <3>2, <3>4 DEF PcPlace
    <3> QED BY <2>3, <3>3, <3>4 DEF GoesOn
  <2> QED BY <1>3, <2>1, <2>2, <2>3
<1>6. /\ tr' \in [Usb!Slots -> [0..(TR - 1) -> Usb!Bit]] /\ dev' \in [Usb!Slots -> Usb!Device]
      /\ hids' \in Seq(Usb!Slots)
  <2>1. CASE Dropped \/ GaveUp \/ GoesOn
    BY <2>1 DEF Dropped, GaveUp, GoesOn, Usb!TypeOK
  <2>2. CASE Ready
    <3>1. pc.slot \in Usb!Slots /\ Usb!register_hid(pc.slot)
      BY <2>2 DEF Ready, Usb!TypeOK
    <3> QED BY <3>1, UsbRegistered
  <2> QED BY <1>3, <2>1, <2>2
<1>7. Usb!TypeOK'
  BY <1>1, <1>4, <1>5, <1>6 DEF Usb!TypeOK, PcPlace
<1> QED BY <1>1, <1>3, <1>7

\* A keyboard's report is taken, and its read queued again.
Again(s) == /\ dev' = [dev EXCEPT ![s] = Queue(dev[s])]
            /\ \A n \in 0..(TR - 2) : tr'[s][n] = IF n = dev[s].enq THEN dev[s].enqCycle ELSE tr[s][n]
            /\ \A t \in Usb!Slots \ {s} : tr'[t] = tr[t] /\ dev'[t] = dev[t]

LEMMA UsbPolled ==
  ASSUME Usb!XhciConstants, Usb!TypeOK, Usb!poll
  PROVE  /\ pc.step = "poll" /\ Usb!consume_event /\ UNCHANGED <<cmd, evt, hw, pc, hids, late, changes>>
         /\ \/ UNCHANGED <<tr, dev>>
            \/ LET e == evt[drv.evt].e IN
               e.type = "transfer" /\ e.ok /\ e.slot \in Usb!Slots \cap Usb!Registered /\ Again(e.slot)
         /\ Usb!TypeOK'
<1> DEFINE e == evt[drv.evt].e
<1>1. pc.step = "poll" /\ Usb!consume_event /\ UNCHANGED <<cmd, evt, hw, pc, hids, late, changes>>
  BY DEF Usb!poll
<1>2. drv' \in [cmd : 0..(CMD - 2), cmdCycle : Usb!Bit, evt : 0..(EvtWrap - 1), evtCycle : Usb!Bit]
  BY <1>1, UsbConsumeTyped
<1>3. CASE e.type = "transfer" /\ e.ok /\ \E k \in 1..Len(hids) : hids[k] = e.slot
  <2>1. e.slot \in Usb!Slots \cap Usb!Registered
    BY <1>3 DEF Usb!TypeOK, Usb!Registered
  <2>2. Usb!queue_hid_read(e.slot, dev[e.slot])
    BY <1>3 DEF Usb!poll
  <2>3. dev[e.slot] \in Usb!Device
    BY <2>1 DEF Usb!TypeOK
  <2>4. /\ Again(e.slot)
        /\ tr' \in [Usb!Slots -> [0..(TR - 1) -> Usb!Bit]] /\ dev' \in [Usb!Slots -> Usb!Device]
    BY <2>1, <2>2, <2>3, UsbQueueTyped DEF Again
  <2>5. Usb!TypeOK'
    BY <1>1, <1>2, <2>4 DEF Usb!TypeOK
  <2> QED BY <1>1, <1>3, <2>1, <2>4, <2>5
<1>4. CASE ~(e.type = "transfer" /\ e.ok /\ \E k \in 1..Len(hids) : hids[k] = e.slot)
  <2>1. UNCHANGED <<tr, dev>>
    BY <1>4 DEF Usb!poll
  <2>2. Usb!TypeOK'
    BY <1>1, <1>2, <2>1 DEF Usb!TypeOK
  <2> QED BY <1>1, <2>1, <2>2
<1> QED BY <1>3, <1>4

LEMMA UsbDriverTyped ==
  ASSUME Usb!XhciConstants, Usb!TypeOK, Usb!Driver
  PROVE  Usb!TypeOK'
<1>0. pc \in PcPlace
  BY DEF Usb!TypeOK, PcPlace
<1>1. CASE Usb!Protocol
  <2>6. pc.step = "protocol" /\ pc.slot \in Usb!Slots
    BY <1>1 DEF Usb!Protocol, Usb!TypeOK
  <2>7. TR \in Nat /\ TR >= 4
    BY DEF Usb!XhciConstants
  <2>1. pc.slot \in Usb!Slots /\ dev[pc.slot] \in Usb!Device /\ TR \in Nat /\ TR >= 4
    BY <2>6, <2>7 DEF Usb!TypeOK
  <2>2. [dev[pc.slot] EXCEPT !.ctrl = TRUE] \in Usb!Device
    BY <2>1 DEF Usb!Device
  <2>3. dev' \in [Usb!Slots -> Usb!Device]
    BY <1>1, <2>1, <2>2, UsbDeviceTyped DEF Usb!Protocol
  <2>4. tr' \in [Usb!Slots -> [0..(TR - 1) -> Usb!Bit]]
    BY <1>1, <2>1 DEF Usb!Protocol, Usb!TypeOK, Usb!Bit
  <2>5. pc' \in PcPlace /\ pc'.step = pc.step /\ pc'.slot = pc.slot
    BY <1>0, <1>1 DEF PcPlace, Usb!Protocol
  <2> QED BY <1>1, <2>3, <2>4, <2>5 DEF Usb!TypeOK, Usb!Protocol, PcPlace
<1>2. CASE Usb!ProtocolAnswer
  <2>1. drv' \in [cmd : 0..(CMD - 2), cmdCycle : Usb!Bit, evt : 0..(EvtWrap - 1), evtCycle : Usb!Bit]
    BY <1>2, UsbConsumeTyped DEF Usb!ProtocolAnswer
  <2>2. pc' \in PcPlace /\ pc'.slot = pc.slot /\ pc.step = "protocol"
    BY <1>0, <1>2 DEF PcPlace, Usb!ProtocolAnswer, Usb!CmdSteps
  <2> QED BY <1>2, <2>1, <2>2 DEF Usb!TypeOK, Usb!ProtocolAnswer, PcPlace
<1>3. CASE Usb!Timeout
  <2>1. pc' \in PcPlace /\ (pc'.step \in {"address", "protocol", "configure"} => pc'.slot \in Usb!Slots)
    <3>1. CASE pc.step = "protocol" /\ pc' = [pc EXCEPT !.step = "configure", !.wait = FALSE]
      BY <1>0, <3>1 DEF PcPlace, Usb!CmdSteps, Usb!TypeOK
    <3>2. CASE Usb!NextPort
      BY <3>2, UsbNextPort
    <3> QED BY <1>3, <3>1, <3>2 DEF Usb!Timeout
  <2> QED BY <1>3, <2>1 DEF Usb!TypeOK, Usb!Timeout, PcPlace
<1> QED BY <1>1, <1>2, <1>3, UsbPosted, UsbCompleted, UsbPolled DEF Usb!Driver


\* The laps of the event ring, at every step.
LEMMA UsbLapsStep ==
  ASSUME Usb!XhciConstants, Usb!TypeOK, Usb!EventLaps, Usb!Next
  PROVE  Usb!EventLaps'
<1>1. ASSUME UNCHANGED <<evt, drv.evt, drv.evtCycle, hw.evt, hw.evtCycle>> PROVE Usb!EventLaps'
  BY <1>1 DEF Usb!EventLaps, Usb!SameLap
<1>2. ASSUME NEW e \in Usb!Event, Usb!Write(e), drv' = drv PROVE Usb!EventLaps'
  BY <1>2, UsbWriteTyped, UsbWriteLaps
<1>3. \A t \in {"none", "command", "transfer", "port"}, s \in Usb!Slots \cup {0}, o \in BOOLEAN :
        [type |-> t, slot |-> s, ok |-> o] \in Usb!Event
  BY DEF Usb!Event
<1>4. CASE Usb!FollowLink
  BY <1>1, <1>4 DEF Usb!FollowLink, Usb!TypeOK
<1>5. CASE Usb!Execute
  <2>1. \A e \in Usb!Event : Wrote(e) => Usb!EventLaps'
    BY UsbWriteLaps
  <2>2. CASE Refused
    <3>1. cmd[hw.cmd].slot \in Usb!Slots \cup {0}
      BY <1>5, UsbExecuted DEF Usb!TypeOK
    <3> QED BY <1>3, <2>1, <2>2, <3>1 DEF Refused
  <2>3. ASSUME NEW s \in Usb!Slots, Done(s) PROVE Usb!EventLaps'
    BY <1>3, <2>1, <2>3 DEF Done
  <2> QED BY <1>5, <2>2, <2>3, UsbExecuted
<1>6. CASE Usb!PortChange
  BY <1>2, <1>3, <1>6 DEF Usb!PortChange
<1>7. ASSUME NEW s \in Usb!Slots, Usb!CtrlDone(s) \/ Usb!Report(s) \/ Usb!Stray(s) PROVE Usb!EventLaps'
  <2>1. \E o \in BOOLEAN : Usb!Write([type |-> "transfer", slot |-> s, ok |-> o])
    BY <1>7 DEF Usb!CtrlDone, Usb!Report, Usb!Stray
  <2>2. drv' = drv
    BY <1>7 DEF Usb!CtrlDone, Usb!Report, Usb!Stray
  <2> QED BY <1>2, <1>3, <2>1, <2>2
<1>8. CASE Usb!Post
  BY <1>1, <1>8, UsbPosted DEF Usb!Post, Posted
<1>9. CASE Usb!Completion \/ Usb!ProtocolAnswer \/ Usb!poll
  BY <1>9, UsbConsumeLaps DEF Usb!Completion, Usb!ProtocolAnswer, Usb!poll
<1>10. CASE Usb!Protocol \/ Usb!Timeout
  BY <1>1, <1>10 DEF Usb!Protocol, Usb!Timeout
<1> QED BY <1>4, <1>5, <1>6, <1>7, <1>8, <1>9, <1>10 DEF Usb!Next, Usb!Controller, Usb!Driver

LEMMA UsbTypedStep ==
  ASSUME Usb!XhciConstants, Usb!TypeOK, Usb!Next PROVE Usb!TypeOK'
BY UsbControllerTyped, UsbDriverTyped DEF Usb!Next

LEMMA UsbCardinality == ASSUME NEW S PROVE Usb!Cardinality(S) = Cardinality(S)
BY DEF Usb!Cardinality, Cardinality

\* The reads, reports and control transfers of a slot that are outstanding.
LEMMA UsbLoad ==
  ASSUME Usb!XhciConstants, Usb!TypeOK, NEW s \in Usb!Slots
  PROVE  /\ Usb!Load(s) = Underway(s) + dev[s].reads + (IF dev[s].ctrl THEN 1 ELSE 0)
         /\ Usb!Load(s) \in Nat /\ Underway(s) \in Nat /\ dev[s].reads \in Nat
<1>1. Usb!Load(s) = Underway(s) + dev[s].reads + (IF dev[s].ctrl THEN 1 ELSE 0)
  BY UsbCardinality DEF Usb!Load, Underway
<1>2. Underway(s) \in Nat /\ dev[s].reads \in Nat
  BY UsbUnderway DEF Usb!TypeOK, Usb!Device
<1> QED BY <1>1, <1>2

LEMMA UsbUnderwayNext ==
  ASSUME Usb!XhciConstants, NEW s PROVE Underway(s)' \in Nat
<1>1. IsFiniteSet(0..(EvtWrap - 1))
  BY FS_Interval DEF Usb!XhciConstants
<1>2. Usb!Transfers(s)' \subseteq 0..(EvtWrap - 1)
  BY DEF Usb!Transfers, Usb!Pending
<1> QED BY <1>1, <1>2, FS_Subset, FS_CardinalityType DEF Underway

LEMMA UsbLoadNext ==
  ASSUME Usb!XhciConstants, Usb!TypeOK', NEW s \in Usb!Slots
  PROVE  /\ Usb!Load(s)' = Underway(s)' + dev'[s].reads + (IF dev'[s].ctrl THEN 1 ELSE 0)
         /\ Usb!Load(s)' \in Nat /\ Underway(s)' \in Nat /\ dev'[s].reads \in Nat
<1>1. Usb!Load(s)' = Underway(s)' + dev'[s].reads + (IF dev'[s].ctrl THEN 1 ELSE 0)
  BY UsbCardinality DEF Usb!Load, Underway
<1>4. Underway(s)' \in Nat
  BY UsbUnderwayNext
<1>2. dev'[s].reads \in Nat
  BY DEF Usb!TypeOK, Usb!Device
<1> QED BY <1>1, <1>2, <1>4

\* A slot whose ring and places are left alone, and whose load does not grow.
Still(s) ==
  /\ tr'[s] = tr[s]
  /\ dev'[s].enq = dev[s].enq /\ dev'[s].enqCycle = dev[s].enqCycle
  /\ dev'[s].at = dev[s].at /\ dev'[s].atCycle = dev[s].atCycle
  /\ dev'[s].reads = dev[s].reads
  /\ Usb!Load(s)' <= Usb!Load(s)
  /\ dev'[s].state \in {"off", "enabled"} => dev[s].state \in {"off", "enabled"}

LEMMA UsbStill ==
  ASSUME Usb!XhciConstants, Usb!TypeOK, Usb!TypeOK', NEW s \in Usb!Slots, Still(s)
  PROVE  /\ Usb!Reading(s) => Usb!Reading(s)'
         /\ Usb!Fresh(s) /\ dev'[s].state # "halted" => Usb!Fresh(s)'
<1>1. Usb!Load(s) \in Nat /\ Usb!Load(s)' \in Nat
  BY UsbLoad, UsbLoadNext
<1>2. ASSUME Usb!Reading(s) PROVE Usb!Reading(s)'
  <2>1. Usb!Load(s)' <= 2
    BY <1>1, <1>2 DEF Still, Usb!Reading
  <2> QED BY <1>2, <2>1 DEF Still, Usb!Reading, Usb!SameRead, Usb!Queued
<1>3. ASSUME Usb!Fresh(s), dev'[s].state # "halted" PROVE Usb!Fresh(s)'
  <2>1. Usb!Load(s)' <= 1 /\ (dev'[s].state \in {"off", "enabled"} => Usb!Load(s)' = 0)
    BY <1>1, <1>3 DEF Still, Usb!Fresh
  <2> QED BY <1>3, <2>1 DEF Still, Usb!Fresh
<1> QED BY <1>2, <1>3

LEMMA UsbUnmoved ==
  ASSUME Usb!XhciConstants, Usb!TypeOK, Usb!TypeOK', NEW s \in Usb!Slots,
         dev'[s] = dev[s], tr'[s] = tr[s], Underway(s)' <= Underway(s)
  PROVE  Still(s)
<1>1. Usb!Load(s)' <= Usb!Load(s)
  BY UsbLoad, UsbLoadNext
<1> QED BY <1>1 DEF Still

\* What a step that leaves slots alone keeps.
LEMMA UsbTableStill ==
  ASSUME Usb!XhciConstants, Usb!TypeOK, Usb!TypeOK', Usb!Table, hids' = hids,
         \A s \in Usb!Slots : Still(s),
         \A s \in Usb!Slots : IF s \in Usb!Registered THEN dev'[s].state \in {"configured", "halted"}
                                                    ELSE dev'[s].state # "halted"
  PROVE  Usb!Table'
<1>1. Usb!Registered' = Usb!Registered /\ Usb!Registered \subseteq Usb!Slots
  BY DEF Usb!Registered, Usb!TypeOK
<1>2. \A k \in 1..Len(hids) : hids[k] \in Usb!Registered
  BY DEF Usb!Registered
<1>3. \A k \in 1..Len(hids) : dev'[hids[k]].state \in {"configured", "halted"}
  BY <1>1, <1>2
<1>4. ASSUME NEW s \in Usb!Slots PROVE IF s \in Usb!Registered THEN Usb!Reading(s)' ELSE Usb!Fresh(s)'
  <2>1. IF s \in Usb!Registered THEN Usb!Reading(s) ELSE Usb!Fresh(s)
    BY DEF Usb!Table
  <2> QED BY <2>1, UsbStill
<1>5. \A k, l \in 1..Len(hids) : hids[k] = hids[l] => k = l
  BY DEF Usb!Table
<1>6. \A s \in Usb!Slots : IF s \in Usb!Registered' THEN Usb!Reading(s)' ELSE Usb!Fresh(s)'
  BY <1>1, <1>4
<1>7. Usb!Slots' = Usb!Slots
  BY DEF Usb!Slots
<1> QED BY <1>3, <1>5, <1>6, <1>7 DEF Usb!Table

LEMMA UsbWaitingStill ==
  ASSUME Usb!TypeOK, Usb!Waiting, UNCHANGED <<cmd, pc, hids>>,
         hw'.cmd = hw.cmd, hw'.cmdCycle = hw.cmdCycle, drv'.cmd = drv.cmd, drv'.cmdCycle = drv.cmdCycle,
         Usb!Answers' = Usb!Answers, \A n \in Usb!Answers : evt'[n] = evt[n],
         \A s \in Usb!Slots \ Usb!Registered : dev'[s].state = dev[s].state
  PROVE  Usb!Waiting'
<1>1. /\ Usb!Idle' <=> Usb!Idle
      /\ Usb!Outstanding' <=> Usb!Outstanding
      /\ Usb!LastCmd' = Usb!LastCmd
      /\ Usb!Registered' = Usb!Registered
  BY DEF Usb!Idle, Usb!Outstanding, Usb!LastCmd, Usb!SameCmdLap, Usb!Registered
<1>3. CASE ~(pc.step \in Usb!CmdSteps /\ pc.wait)
  BY <1>1, <1>3 DEF Usb!Waiting
<1>4. CASE pc.step \in Usb!CmdSteps /\ pc.wait
  <2>1. CASE /\ Usb!Outstanding /\ Usb!Answers = {}
             /\ cmd[Usb!LastCmd].trb = pc.step /\ cmd[Usb!LastCmd].slot = pc.slot
    BY <1>1, <1>4, <2>1 DEF Usb!Waiting
  <2>2. CASE Usb!Idle /\ \A n \in Usb!Answers : Usb!Right(evt[n].e) /\ Usb!Answers = {n}
    <3>1. ASSUME NEW n \in Usb!Answers PROVE Usb!Right(evt[n].e)'
      <4>1. Usb!Right(evt[n].e) /\ evt'[n] = evt[n]
        BY <2>2
      <4>2. Usb!Slots' = Usb!Slots /\ \A t : Usb!Gives(t)' = Usb!Gives(t)
        BY DEF Usb!Slots, Usb!Gives
      <4> QED BY <1>1, <4>1, <4>2 DEF Usb!Right
    <3>2. Usb!Idle' /\ \A n \in Usb!Answers' : Usb!Right(evt[n].e)' /\ Usb!Answers' = {n}
      BY <1>1, <2>2, <3>1
    <3> QED BY <1>4, <3>2 DEF Usb!Waiting
  <2> QED BY <1>4, <2>1, <2>2 DEF Usb!Waiting
<1> QED BY <1>3, <1>4

LEMMA UsbSlotStill ==
  ASSUME Usb!XhciConstants, Usb!TypeOK, Usb!TypeOK', Usb!SlotOK, UNCHANGED <<pc, hids>>,
         \A s \in Usb!Slots \ Usb!Registered : Still(s) /\ dev'[s].state = dev[s].state
  PROVE  Usb!SlotOK'
<1>1. Usb!Registered' = Usb!Registered
  BY DEF Usb!Registered
<1>2. SUFFICES ASSUME pc.step \in {"address", "protocol", "configure"}
               PROVE  Usb!SlotOK'
  BY DEF Usb!SlotOK
<1>3. pc.slot \in Usb!Slots \ Usb!Registered
  BY <1>2 DEF Usb!SlotOK
<1>4. Still(pc.slot) /\ dev'[pc.slot].state = dev[pc.slot].state
  BY <1>3
<1>5. Usb!Load(pc.slot) \in Nat /\ Usb!Load(pc.slot)' \in Nat
  BY <1>3, UsbLoad, UsbLoadNext
<1>6. pc.step = "address" \/ (pc.step = "protocol" /\ ~pc.wait) => Usb!Load(pc.slot)' = 0
  BY <1>2, <1>4, <1>5 DEF Usb!SlotOK, Still
<1>7. /\ dev'[pc.slot].state # "off"
      /\ pc.step = "protocol" => dev'[pc.slot].state = "addressed"
      /\ pc.step = "configure" \/ (pc.step = "protocol" /\ pc.wait) =>
           tr'[pc.slot][0] = 1 /\ tr'[pc.slot][1] = 1
  BY <1>2, <1>4 DEF Usb!SlotOK, Still
<1>8. pc.slot \in Usb!Slots \ Usb!Registered'
  BY <1>1, <1>3
<1> QED BY <1>6, <1>7, <1>8 DEF Usb!SlotOK

\* The controller's steps keep what is outstanding in order.
LEMMA UsbRegisteredSlots ==
  ASSUME Usb!TypeOK, Usb!Table
  PROVE  /\ Usb!Registered \subseteq Usb!Slots
         /\ \A s \in Usb!Registered : dev[s].state \in {"configured", "halted"} /\ Usb!Reading(s)
         /\ \A s \in Usb!Slots \ Usb!Registered : Usb!Fresh(s)
<1>1. Usb!Registered \subseteq Usb!Slots
  BY DEF Usb!Registered, Usb!TypeOK
<1>2. \A s \in Usb!Registered : dev[s].state \in {"configured", "halted"}
  BY DEF Usb!Registered, Usb!Table
<1> QED BY <1>1, <1>2 DEF Usb!Table

LEMMA UsbFollowed ==
  ASSUME Usb!XhciConstants, Usb!TypeOK, Usb!TypeOK', Usb!Kept, Usb!FollowLink
  PROVE  Usb!Kept'
<1>1. UNCHANGED <<cmd, evt, tr, drv, dev, pc, hids, late, changes>> /\ hw.cmd = CMD - 1
  BY DEF Usb!FollowLink
<1>2. /\ hw'.cmd = 0 /\ hw'.cmdCycle = 1 - hw.cmdCycle /\ hw'.evt = hw.evt /\ hw'.evtCycle = hw.evtCycle
  BY DEF Usb!FollowLink, Usb!TypeOK, Usb!Flip
<1>3. /\ hw.cmdCycle \in {0, 1} /\ drv.cmdCycle \in {0, 1} /\ drv.cmd \in 0..(CMD - 2)
      /\ CMD \in Nat /\ CMD >= 3
  BY DEF Usb!TypeOK, Usb!XhciConstants, Usb!Bit
<1>4. Usb!Answers' = Usb!Answers /\ \A s : Usb!Transfers(s)' = Usb!Transfers(s)
  BY <1>1, <1>2 DEF Usb!Answers, Usb!Transfers, Usb!Pending, Usb!SameLap
<1>5. \A s : Usb!Load(s)' = Usb!Load(s)
  BY <1>1, <1>4 DEF Usb!Load
<1>6. Usb!Idle => Usb!Idle'
  BY <1>1, <1>2, <1>3 DEF Usb!Idle, Usb!SameCmdLap
<1>7. Usb!Outstanding => Usb!Outstanding'
  BY <1>1, <1>2, <1>3 DEF Usb!Outstanding, Usb!SameCmdLap, Usb!LastCmd
<1>8. Usb!Waiting'
  <2>1. Usb!LastCmd' = Usb!LastCmd /\ Usb!Registered' = Usb!Registered
    BY <1>1 DEF Usb!LastCmd, Usb!Registered
  <2>4. \A n : Usb!Right(evt[n].e)' <=> Usb!Right(evt[n].e)
    BY <1>1, <2>1 DEF Usb!Right
  <2>3. Usb!Waiting
    BY DEF Usb!Kept
  <2> QED BY <1>1, <1>4, <1>6, <1>7, <2>1, <2>3, <2>4 DEF Usb!Waiting
<1>9. Usb!CommandLaps' /\ Usb!SlotOK' /\ Usb!Table'
  BY <1>1, <1>5 DEF Usb!Kept, Usb!CommandLaps, Usb!SlotOK, Usb!Table, Usb!Registered,
                    Usb!Reading, Usb!Fresh, Usb!SameRead, Usb!Queued
<1> QED BY <1>8, <1>9 DEF Usb!Kept

\* What it writes but is no answer.
LEMMA UsbTold ==
  ASSUME Usb!XhciConstants, Usb!TypeOK, Usb!TypeOK', Usb!EventLaps, Usb!Kept,
         NEW e \in Usb!Event, e.type # "command", Usb!Write(e),
         UNCHANGED <<cmd, drv, pc, hids>>,
         \A s \in Usb!Slots \ Usb!Registered : Still(s) /\ dev'[s].state = dev[s].state,
         Usb!Table'
  PROVE  Usb!Kept'
<1>1. Wrote(e) /\ hw'.cmd = hw.cmd /\ hw'.cmdCycle = hw.cmdCycle
  BY UsbWriteTyped
<1>2. Usb!Answers' = Usb!Answers /\ \A n \in Usb!Answers : evt'[n] = evt[n]
  BY <1>1, UsbWriteCounts
<1>3. Usb!Waiting'
  BY <1>1, <1>2, UsbWaitingStill DEF Usb!Kept
<1>4. Usb!SlotOK'
  BY UsbSlotStill DEF Usb!Kept
<1>5. Usb!CommandLaps'
  BY DEF Usb!Kept, Usb!CommandLaps
<1> QED BY <1>3, <1>4, <1>5 DEF Usb!Kept

LEMMA UsbChanged ==
  ASSUME Usb!XhciConstants, Usb!TypeOK, Usb!TypeOK', Usb!EventLaps, Usb!Kept, Usb!PortChange
  PROVE  Usb!Kept'
<1> DEFINE e == [type |-> "port", slot |-> 0, ok |-> TRUE]
<1>1. e \in Usb!Event /\ e.type = "port" /\ Usb!Write(e) /\ UNCHANGED <<cmd, tr, drv, dev, pc, hids, late>>
  BY DEF Usb!Event, Usb!PortChange
<1> HIDE DEF e
<1>2. \A s : Underway(s)' <= Underway(s)
  <2>1. Wrote(e)
    BY <1>1, UsbWriteTyped
  <2>2. \A s : Underway(s)' <= Underway(s) + 0
    BY <1>1, <2>1, UsbWriteCounts
  <2> QED BY <2>2, UsbUnderway
<1>3. \A s \in Usb!Slots : Still(s)
  BY <1>1, <1>2, UsbUnmoved
<1>4. Usb!Table'
  BY <1>1, <1>3, UsbTableStill, UsbRegisteredSlots DEF Usb!Kept, Usb!Fresh
<1> QED BY <1>1, <1>3, <1>4, UsbTold

\* The answer to a control transfer takes its place in what is outstanding.
LEMMA UsbControlled ==
  ASSUME Usb!XhciConstants, Usb!TypeOK, Usb!TypeOK', Usb!EventLaps, Usb!Kept,
         NEW s \in Usb!Slots, Usb!CtrlDone(s)
  PROVE  Usb!Kept'
<1> PICK o \in BOOLEAN : Usb!Write([type |-> "transfer", slot |-> s, ok |-> o])
  BY DEF Usb!CtrlDone
<1> DEFINE e == [type |-> "transfer", slot |-> s, ok |-> o]
<1>1. e \in Usb!Event /\ e.type = "transfer" /\ e.slot = s /\ Usb!Write(e)
  BY DEF Usb!Event
<1>2. UNCHANGED <<cmd, tr, drv, pc, hids, late, changes>> /\ dev[s].ctrl
  BY DEF Usb!CtrlDone
<1> HIDE DEF e
<1>3. \A t : Underway(t)' <= Underway(t) + (IF t = s THEN 1 ELSE 0)
  <2>1. Wrote(e)
    BY <1>1, <1>2, UsbWriteTyped
  <2>2. \A t : Underway(t)' <= Underway(t) + (IF e.type = "transfer" /\ e.ok /\ e.slot = t THEN 1 ELSE 0)
    BY <1>1, <2>1, UsbWriteCounts
  <2>4. ASSUME NEW t PROVE Underway(t)' <= Underway(t) + (IF t = s THEN 1 ELSE 0)
    <3>1. Underway(t) \in Nat
      BY UsbUnderway
    <3>3. CASE e.type = "transfer" /\ e.ok /\ e.slot = t
      BY <1>1, <2>2, <3>3
    <3>4. CASE ~(e.type = "transfer" /\ e.ok /\ e.slot = t)
      <4>1. Underway(t)' <= Underway(t) + 0
        BY <2>2, <3>4
      <4>2. Underway(t)' \in Nat
        BY UsbUnderwayNext
      <4> QED BY <3>1, <4>1, <4>2
    <3> QED BY <3>3, <3>4
  <2> QED BY <2>4
<1>4. dev[s] \in Usb!Device /\ dev' = [dev EXCEPT ![s] = [dev[s] EXCEPT !.ctrl = FALSE]]
  BY DEF Usb!TypeOK, Usb!CtrlDone
<1>5. dev'[s] = [dev[s] EXCEPT !.ctrl = FALSE] /\ \A t \in Usb!Slots \ {s} : dev'[t] = dev[t]
  BY <1>4 DEF Usb!TypeOK
<1>6. /\ dev'[s].enq = dev[s].enq /\ dev'[s].enqCycle = dev[s].enqCycle
      /\ dev'[s].at = dev[s].at /\ dev'[s].atCycle = dev[s].atCycle
      /\ dev'[s].reads = dev[s].reads /\ dev'[s].state = dev[s].state /\ ~dev'[s].ctrl
  BY <1>4, <1>5 DEF Usb!Device
<1>7. Usb!Load(s)' <= Usb!Load(s)
  <2>1. Usb!Load(s) = Underway(s) + dev[s].reads + 1
    BY <1>2, UsbLoad
  <2>2. Usb!Load(s)' = Underway(s)' + dev[s].reads + 0
    BY <1>6, UsbLoadNext
  <2>3. Underway(s)' <= Underway(s) + 1
    BY <1>3
  <2> QED BY <2>1, <2>2, <2>3, UsbLoad, UsbLoadNext
<1>8. ASSUME NEW t \in Usb!Slots PROVE Still(t) /\ dev'[t].state = dev[t].state
  <2>1. CASE t = s
    BY <1>2, <1>6, <1>7, <2>1 DEF Still
  <2>2. CASE t # s
    <3>1. Underway(t)' <= Underway(t)
      <4>1. Underway(t)' <= Underway(t) + 0
        BY <1>3, <2>2
      <4> QED BY <4>1, UsbLoad, UsbLoadNext
    <3> QED BY <1>2, <1>5, <2>2, <3>1, UsbUnmoved
  <2> QED BY <2>1, <2>2
<1>9. Usb!Table'
  BY <1>2, <1>8, UsbTableStill, UsbRegisteredSlots DEF Usb!Kept, Usb!Fresh
<1> QED BY <1>1, <1>2, <1>8, <1>9, UsbTold

\* A read that is filled leaves the reads of its ring.
LEMMA UsbFilled ==
  ASSUME Usb!XhciConstants, Usb!TypeOK, Usb!TypeOK', NEW s \in Usb!Slots, Usb!Reading(s),
         dev[s].reads # 0, dev' = [dev EXCEPT ![s] = Fill(dev[s])], tr'[s] = tr[s],
         Underway(s)' <= Underway(s) + 1
  PROVE  Usb!Reading(s)' /\ dev'[s].state = dev[s].state
<1>1. dev[s] \in Usb!Device /\ dev'[s] = Fill(dev[s])
  BY DEF Usb!TypeOK
<1> DEFINE a == dev[s].at
           b == dev'[s].at
           q == dev[s].enq
           r == dev[s].reads
           c == dev[s].atCycle
           k == dev'[s].atCycle
           g == dev[s].enqCycle
<1>2. /\ a \in 0..(TR - 2) /\ q \in 0..(TR - 2) /\ r \in Nat /\ c \in {0, 1} /\ g \in {0, 1}
      /\ TR \in Nat /\ TR0 \in 2..(TR - 2)
  BY <1>1 DEF Usb!Device, Usb!XhciConstants, Usb!Bit
<1>3. /\ dev'[s].enq = q /\ dev'[s].enqCycle = g /\ dev'[s].reads = r - 1
      /\ dev'[s].ctrl = dev[s].ctrl /\ dev'[s].state = dev[s].state
      /\ b = (IF a = TR - 2 THEN 0 ELSE a + 1) /\ k = (IF a = TR - 2 THEN 1 - c ELSE c)
  BY <1>1, UsbFillTyped DEF Usb!Flip
<1>4. q + (IF c = g THEN 0 ELSE TR - 1) = a + r
  BY DEF Usb!Reading, Usb!SameRead
<1>5. Usb!Load(s)' <= 2
  <2>1. Usb!Load(s) = Underway(s) + r + (IF dev[s].ctrl THEN 1 ELSE 0) /\ Underway(s) \in Nat
    BY UsbLoad
  <2>2. Usb!Load(s)' = Underway(s)' + (r - 1) + (IF dev[s].ctrl THEN 1 ELSE 0) /\ Underway(s)' \in Nat
    BY <1>3, UsbLoadNext
  <2>3. Usb!Load(s) <= 2
    BY DEF Usb!Reading
  <2> HIDE DEF r
  <2> QED BY <1>2, <2>1, <2>2, <2>3
<1>6. \A n \in 0..(TR - 2) : n \notin Usb!Gap \/ Usb!Queued(s, n) =>
           tr[s][n] = IF n < q THEN g ELSE Usb!Flip(g)
  BY DEF Usb!Reading
<1>7. \A n \in 0..(TR - 2) : Usb!Queued(s, n)' => Usb!Queued(s, n)
  <2>1. ASSUME NEW n \in 0..(TR - 2)
        PROVE  /\ Usb!Queued(s, n)' <=> IF k = g THEN b <= n /\ n < q ELSE b <= n \/ n < q
               /\ Usb!Queued(s, n) <=> IF c = g THEN a <= n /\ n < q ELSE a <= n \/ n < q
    BY <1>3 DEF Usb!Queued, Usb!SameRead
  <2>3. r # 0
    OBVIOUS
  <2> HIDE DEF a, b, q, r, c, k, g
  <2>2. ASSUME NEW n \in 0..(TR - 2), IF k = g THEN b <= n /\ n < q ELSE b <= n \/ n < q
        PROVE  IF c = g THEN a <= n /\ n < q ELSE a <= n \/ n < q
    BY <1>2, <1>3, <1>4, <2>2, <2>3
  <2> QED BY <2>1, <2>2
<1>8. q + (IF k = g THEN 0 ELSE TR - 1) = b + (r - 1)
  <2>1. r # 0
    OBVIOUS
  <2> HIDE DEF a, b, q, r, c, k, g
  <2> QED BY <1>2, <1>3, <1>4, <2>1
<1>9. Usb!Gap' = Usb!Gap
  BY DEF Usb!Gap
<1> QED BY <1>3, <1>5, <1>6, <1>7, <1>8, <1>9 DEF Usb!Reading, Usb!SameRead

LEMMA UsbReport ==
  ASSUME Usb!XhciConstants, Usb!TypeOK, Usb!TypeOK', Usb!EventLaps, Usb!Kept,
         NEW s \in Usb!Slots, Usb!Report(s)
  PROVE  Usb!Kept'
<1> DEFINE e == [type |-> "transfer", slot |-> s, ok |-> TRUE]
<1>1. e \in Usb!Event /\ e.type = "transfer" /\ e.slot = s /\ e.ok /\ Usb!Write(e)
  BY UsbReported DEF Usb!Event
<1>2. /\ UNCHANGED <<cmd, tr, drv, pc, hids, late, changes>>
      /\ dev' = [dev EXCEPT ![s] = Fill(dev[s])] /\ dev[s].reads # 0
  BY UsbReported
<1> HIDE DEF e
<1>3. \A t : Underway(t)' <= Underway(t) + (IF t = s THEN 1 ELSE 0)
  <2>1. Wrote(e)
    BY <1>1, <1>2, UsbWriteTyped
  <2> QED BY <1>1, <2>1, UsbWriteCounts
<1>4. s \in Usb!Registered /\ Usb!Reading(s)
  BY <1>2, UsbRegisteredSlots DEF Usb!Kept, Usb!Fresh
<1>5. Usb!Reading(s)' /\ dev'[s].state = dev[s].state
  <2>1. Underway(s)' <= Underway(s) + 1
    BY <1>3
  <2> QED BY <1>2, <1>4, <2>1, UsbFilled
<1>6. \A t \in Usb!Slots \ {s} : Still(t) /\ dev'[t] = dev[t]
  <2> TAKE t \in Usb!Slots \ {s}
  <2>1. Underway(t)' <= Underway(t) + 0
    BY <1>3
  <2>2. dev'[t] = dev[t]
    BY <1>2 DEF Usb!TypeOK
  <2> QED BY <1>2, <2>1, <2>2, UsbUnmoved, UsbLoad, UsbLoadNext
<1>7. Usb!Registered' = Usb!Registered
  BY <1>2 DEF Usb!Registered
<1>8. Usb!Table'
  <2>1. \A t \in Usb!Slots : dev'[t].state = dev[t].state
    BY <1>5, <1>6
  <2>2. \A t \in Usb!Slots : IF t \in Usb!Registered' THEN Usb!Reading(t)' ELSE Usb!Fresh(t)'
    <3> TAKE t \in Usb!Slots
    <3>1. CASE t = s
      BY <1>4, <1>5, <1>7, <3>1
    <3>2. CASE t # s
      <4>1. Still(t) /\ dev'[t].state = dev[t].state
        BY <1>6, <3>2
      <4>2. IF t \in Usb!Registered THEN Usb!Reading(t) ELSE Usb!Fresh(t)
        BY UsbRegisteredSlots DEF Usb!Kept
      <4> QED BY <1>7, <4>1, <4>2, UsbStill DEF Usb!Fresh
    <3> QED BY <3>1, <3>2
  <2>3. \A k \in 1..Len(hids) : hids[k] \in Usb!Slots
    BY DEF Usb!TypeOK
  <2>4. \A k \in 1..Len(hids') : dev'[hids'[k]].state \in {"configured", "halted"}
    BY <1>2, <2>1, <2>3 DEF Usb!Kept, Usb!Table
  <2>5. \A k, l \in 1..Len(hids') : hids'[k] = hids'[l] => k = l
    BY <1>2 DEF Usb!Kept, Usb!Table
  <2>6. Usb!Slots' = Usb!Slots
    BY DEF Usb!Slots
  <2> QED BY <2>2, <2>4, <2>5, <2>6 DEF Usb!Table
<1> QED BY <1>1, <1>2, <1>4, <1>6, <1>8, UsbTold

\* An entry that was never written and is of this lap is only seen between the
\* control entries and the first read of a keyboard that is registered.
LEMMA UsbStray ==
  ASSUME Usb!XhciConstants, Usb!TypeOK, Usb!TypeOK', Usb!EventLaps, Usb!Kept,
         NEW s \in Usb!Slots, Usb!Stray(s)
  PROVE  Usb!Kept'
<1> DEFINE e == [type |-> "transfer", slot |-> s, ok |-> FALSE]
<1>1. e \in Usb!Event /\ e.type = "transfer" /\ ~e.ok /\ Usb!Write(e)
  BY DEF Usb!Event, Usb!Stray
<1>2. /\ UNCHANGED <<cmd, tr, drv, pc, hids, late, changes>> /\ Usb!Seen(s)
      /\ dev' = [dev EXCEPT ![s] = [dev[s] EXCEPT !.state = "halted"]]
  BY DEF Usb!Stray
<1> HIDE DEF e
<1>3. s \in Usb!Registered
  <2>1. TR0 \in 2..(TR - 2)
    BY DEF Usb!XhciConstants
  <2>2. Usb!Fresh(s) => ~Usb!Seen(s)
    BY <2>1 DEF Usb!Fresh, Usb!Seen
  <2> QED BY <1>2, <2>2, UsbRegisteredSlots DEF Usb!Kept
<1>4. \A t : Underway(t)' <= Underway(t)
  <2>1. Wrote(e)
    BY <1>1, <1>2, UsbWriteTyped
  <2>2. \A t : Underway(t)' <= Underway(t) + 0
    BY <1>1, <2>1, UsbWriteCounts
  <2> QED BY <2>2, UsbUnderway
<1>5. dev[s] \in Usb!Device /\ dev'[s] = [dev[s] EXCEPT !.state = "halted"] /\ \A t \in Usb!Slots \ {s} : dev'[t] = dev[t]
  BY <1>2 DEF Usb!TypeOK
<1>6. /\ dev'[s].enq = dev[s].enq /\ dev'[s].enqCycle = dev[s].enqCycle
      /\ dev'[s].at = dev[s].at /\ dev'[s].atCycle = dev[s].atCycle
      /\ dev'[s].reads = dev[s].reads /\ dev'[s].state = "halted" /\ dev'[s].ctrl = dev[s].ctrl
  BY <1>5 DEF Usb!Device
<1>7. \A t \in Usb!Slots : Still(t)
  <2>1. \A t \in Usb!Slots \ {s} : Still(t)
    BY <1>2, <1>4, <1>5, UsbUnmoved
  <2>2. Usb!Load(s)' <= Usb!Load(s)
    <3>1. Underway(s)' <= Underway(s)
      BY <1>4
    <3> QED BY <1>6, <3>1, UsbLoad, UsbLoadNext
  <2>3. Still(s)
    BY <1>2, <1>6, <2>2 DEF Still
  <2> QED BY <2>1, <2>3
<1>8. Usb!Table'
  <2>1. Usb!Table
    BY DEF Usb!Kept
  <2>2. \A t \in Usb!Slots : IF t \in Usb!Registered THEN dev'[t].state \in {"configured", "halted"}
                                                    ELSE dev'[t].state # "halted"
    <3> TAKE t \in Usb!Slots
    <3>1. t \in Usb!Registered => dev[t].state \in {"configured", "halted"}
      BY <2>1, UsbRegisteredSlots
    <3>2. t \notin Usb!Registered => dev[t].state # "halted"
      BY <2>1, UsbRegisteredSlots DEF Usb!Fresh
    <3>3. t # s => dev'[t].state = dev[t].state
      BY <1>5
    <3> QED BY <1>3, <1>6, <3>1, <3>2, <3>3
  <2> QED BY <1>2, <1>7, <2>1, <2>2, UsbTableStill
<1> QED BY <1>1, <1>2, <1>3, <1>5, <1>7, <1>8, UsbTold

\* A command that is executed is the one the driver waits for, and its answer the
\* only one.
LEMMA UsbAnswered ==
  ASSUME Usb!XhciConstants, Usb!TypeOK, Usb!TypeOK', Usb!EventLaps, Usb!Kept, Usb!Execute
  PROVE  Usb!Kept'
<1> DEFINE C == cmd[hw.cmd]
<1>1. /\ hw.cmd \in 0..(CMD - 2) /\ C.cycle = hw.cmdCycle
      /\ UNCHANGED <<cmd, tr, drv, pc, hids, late, changes>>
      /\ hw'.cmd = hw.cmd + 1 /\ hw'.cmdCycle = hw.cmdCycle
  BY UsbExecuted
<1>2. /\ hw.cmdCycle \in {0, 1} /\ drv.cmdCycle \in {0, 1} /\ drv.cmd \in 0..(CMD - 2)
      /\ CMD \in Nat /\ CMD >= 3
  BY DEF Usb!TypeOK, Usb!XhciConstants, Usb!Bit
<1>3. ~Usb!Idle
  <2>1. cmd[hw.cmd].cycle = IF hw.cmd < drv.cmd THEN drv.cmdCycle ELSE 1 - drv.cmdCycle
    BY <1>1 DEF Usb!Kept, Usb!CommandLaps, Usb!Flip
  <2> QED BY <1>1, <1>2, <2>1 DEF Usb!Idle, Usb!SameCmdLap
<1>4. /\ pc.step \in Usb!CmdSteps /\ pc.wait /\ Usb!Outstanding /\ Usb!Answers = {}
      /\ cmd[Usb!LastCmd].trb = pc.step /\ cmd[Usb!LastCmd].slot = pc.slot
  BY <1>3 DEF Usb!Kept, Usb!Waiting
<1>5. hw.cmd = Usb!LastCmd /\ (Usb!SameCmdLap <=> drv.cmd # 0)
  BY <1>1, <1>2, <1>4 DEF Usb!Outstanding
<1>6. C.trb = pc.step /\ C.slot = pc.slot
  BY <1>4, <1>5
<1> HIDE DEF C
<1>7. Usb!Idle'
  BY <1>1, <1>2, <1>5 DEF Usb!Idle, Usb!SameCmdLap, Usb!LastCmd
<1>8. Usb!Registered' = Usb!Registered /\ Usb!Table /\ Usb!SlotOK
  BY <1>1 DEF Usb!Registered, Usb!Kept
<1>9. ASSUME NEW e \in Usb!Event, e.type = "command", Wrote(e)
      PROVE  /\ \A n \in Usb!Answers' : evt'[n].e = e /\ Usb!Answers' = {n}
             /\ \A s \in Usb!Slots : Underway(s)' <= Underway(s)
  <2>1. \A n \in Usb!Answers' : n = hw.evt /\ evt'[n].e = e
    BY <1>4, <1>9, UsbWriteCounts
  <2>2. \A s : Underway(s)' <= Underway(s) + 0
    BY <1>9, UsbWriteCounts
  <2> QED BY <2>1, <2>2, UsbLoad, UsbLoadNext
<1>10. CASE Refused
  <2> DEFINE e == [type |-> "command", slot |-> C.slot, ok |-> FALSE]
  <2>1. e \in Usb!Event /\ e.type = "command" /\ ~e.ok
    BY <1>6 DEF Usb!Event, Usb!TypeOK
  <2>2. Wrote(e) /\ dev' = dev
    BY <1>10 DEF Refused, C
  <2> HIDE DEF e
  <2>3. \A n \in Usb!Answers' : evt'[n].e = e /\ Usb!Answers' = {n}
    BY <1>9, <2>1, <2>2
  <2>4. \A s \in Usb!Slots : Still(s)
    BY <1>1, <1>9, <2>1, <2>2, UsbUnmoved
  <2>5. \A n \in Usb!Answers' : Usb!Right(evt[n].e)' /\ Usb!Answers' = {n}
    BY <2>1, <2>3 DEF Usb!Right
  <2>6. Usb!Waiting'
    BY <1>1, <1>4, <1>7, <2>5 DEF Usb!Waiting
  <2>7. Usb!Table'
    BY <1>1, <1>8, <2>2, <2>4, UsbTableStill, UsbRegisteredSlots DEF Usb!Fresh
  <2>8. Usb!SlotOK'
    BY <1>1, <1>8, <2>2, <2>4, UsbSlotStill
  <2> QED BY <1>1, <2>6, <2>7, <2>8 DEF Usb!Kept, Usb!CommandLaps
<1>11. ASSUME NEW s \in Usb!Slots, Done(s) PROVE Usb!Kept'
  <2> DEFINE e == [type |-> "command", slot |-> s, ok |-> TRUE]
  <2>1. e \in Usb!Event /\ e.type = "command" /\ e.ok /\ e.slot = s
    BY DEF Usb!Event
  <2>2. /\ Wrote(e) /\ dev' = [dev EXCEPT ![s] = [dev[s] EXCEPT !.state = Usb!Gives(pc.step)]]
        /\ dev[s].state = Usb!Needs(pc.step)
        /\ pc.step = "enable" \/ s = pc.slot
    BY <1>6, <1>11 DEF Done, C
  <2> HIDE DEF e
  <2>3. dev[s] \in Usb!Device /\ dev'[s] = [dev[s] EXCEPT !.state = Usb!Gives(pc.step)]
        /\ \A t \in Usb!Slots \ {s} : dev'[t] = dev[t]
    BY <2>2 DEF Usb!TypeOK
  <2>4. /\ dev'[s].enq = dev[s].enq /\ dev'[s].enqCycle = dev[s].enqCycle
        /\ dev'[s].at = dev[s].at /\ dev'[s].atCycle = dev[s].atCycle
        /\ dev'[s].reads = dev[s].reads /\ dev'[s].state = Usb!Gives(pc.step) /\ dev'[s].ctrl = dev[s].ctrl
    BY <2>3 DEF Usb!Device
  <2>5. pc.step \in {"enable", "address", "configure"}
    BY <1>4 DEF Usb!CmdSteps
  <2>6. s \notin Usb!Registered
    <3>1. pc.step = "enable" => dev[s].state = "off"
      BY <2>2 DEF Usb!Needs
    <3>2. pc.step # "enable" => s \notin Usb!Registered
      BY <1>8, <2>2, <2>5 DEF Usb!SlotOK
    <3> QED BY <1>8, <3>1, <3>2, UsbRegisteredSlots
  <2>7. /\ Usb!Gives(pc.step) \in {"enabled", "addressed", "configured"}
        /\ Usb!Gives(pc.step) = "enabled" => dev[s].state = "off"
    BY <2>2, <2>5 DEF Usb!Gives, Usb!Needs
  <2>8. \A t \in Usb!Slots : Still(t)
    <3>1. \A t \in Usb!Slots : Underway(t)' <= Underway(t)
      BY <1>9, <2>1, <2>2
    <3>2. \A t \in Usb!Slots \ {s} : Still(t)
      BY <1>1, <2>3, <3>1, UsbUnmoved
    <3>3. Usb!Load(s)' <= Usb!Load(s)
      BY <2>4, <3>1, UsbLoad, UsbLoadNext
    <3>4. Still(s)
      BY <1>1, <2>4, <2>7, <3>3 DEF Still
    <3> QED BY <3>2, <3>4
  <2>9. \A n \in Usb!Answers' : Usb!Right(evt[n].e)' /\ Usb!Answers' = {n}
    <3>1. \A n \in Usb!Answers' : evt'[n].e = e /\ Usb!Answers' = {n}
      BY <1>9, <2>1, <2>2
    <3> QED BY <1>1, <1>8, <2>1, <2>2, <2>4, <2>6, <3>1 DEF Usb!Right, Usb!Slots, Usb!Gives
  <2>10. Usb!Waiting'
    BY <1>1, <1>4, <1>7, <2>9 DEF Usb!Waiting
  <2>11. Usb!Table'
    <3>1. \A t \in Usb!Slots : IF t \in Usb!Registered THEN dev'[t].state \in {"configured", "halted"}
                                                      ELSE dev'[t].state # "halted"
      <4> TAKE t \in Usb!Slots
      <4>1. t \in Usb!Registered => dev[t].state \in {"configured", "halted"}
        BY <1>8, UsbRegisteredSlots
      <4>2. t \notin Usb!Registered => dev[t].state # "halted"
        BY <1>8, UsbRegisteredSlots DEF Usb!Fresh
      <4> QED BY <2>3, <2>4, <2>6, <2>7, <4>1, <4>2
    <3> QED BY <1>1, <1>8, <2>8, <3>1, UsbTableStill
  <2>12. Usb!SlotOK'
    <3> SUFFICES ASSUME pc.step \in {"address", "protocol", "configure"} PROVE Usb!SlotOK'
      BY <1>1 DEF Usb!SlotOK
    <3>1. pc.slot = s /\ pc.step \in {"address", "configure"}
      BY <2>2, <2>5
    <3>2. Usb!Load(s)' <= Usb!Load(s) /\ Usb!Load(s) \in Nat /\ Usb!Load(s)' \in Nat
      BY <2>8, UsbLoad, UsbLoadNext DEF Still
    <3>3. pc.step = "address" => Usb!Load(s)' = 0
      BY <1>8, <3>1, <3>2 DEF Usb!SlotOK
    <3>4. pc.step = "configure" => tr[s][0] = 1 /\ tr[s][1] = 1
      BY <1>8, <3>1 DEF Usb!SlotOK
    <3>5. pc.slot \in Usb!Slots \ Usb!Registered'
      BY <1>8, <2>6, <3>1
    <3>6. dev'[s].state # "off"
      BY <2>4, <2>7
    <3> QED BY <1>1, <3>1, <3>3, <3>4, <3>5, <3>6 DEF Usb!SlotOK
  <2> QED BY <1>1, <2>10, <2>11, <2>12 DEF Usb!Kept, Usb!CommandLaps
<1> QED BY <1>10, <1>11, UsbExecuted

\* The driver's steps.  It posts a command when none is outstanding.
LEMMA UsbPostKept ==
  ASSUME Usb!XhciConstants, Usb!TypeOK, Usb!TypeOK', Usb!Kept, Usb!Post
  PROVE  Usb!Kept'
<1>1. Posted /\ pc.step \in Usb!CmdSteps /\ ~pc.wait /\ UNCHANGED <<evt, tr, hw, dev, hids, late, changes>>
  BY UsbPosted DEF Usb!Post
<1>2. Usb!Idle /\ Usb!Answers = {}
  BY <1>1 DEF Usb!Kept, Usb!Waiting
<1>3. /\ hw.cmdCycle \in {0, 1} /\ drv.cmdCycle \in {0, 1} /\ drv.cmd \in 0..(CMD - 2)
      /\ CMD \in Nat /\ CMD >= 3
  BY DEF Usb!TypeOK, Usb!XhciConstants, Usb!Bit
<1>4. /\ drv'.cmd = (IF drv.cmd = CMD - 2 THEN 0 ELSE drv.cmd + 1)
      /\ drv'.cmdCycle = (IF drv.cmd = CMD - 2 THEN 1 - drv.cmdCycle ELSE drv.cmdCycle)
      /\ drv'.evt = drv.evt /\ drv'.evtCycle = drv.evtCycle
  BY <1>1 DEF Posted, Usb!Flip
<1>5. pc'.step = pc.step /\ pc'.slot = pc.slot /\ pc'.wait
  BY <1>1 DEF Posted, Usb!TypeOK
<1>6. \A n \in 0..(CMD - 2) :
        cmd'[n] = IF n = drv.cmd THEN [cycle |-> drv.cmdCycle, trb |-> pc.step, slot |-> pc.slot] ELSE cmd[n]
  BY <1>1 DEF Posted
<1>7. Usb!CommandLaps'
  <2>1. \A n \in 0..(CMD - 2) : cmd[n].cycle = IF n < drv.cmd THEN drv.cmdCycle ELSE 1 - drv.cmdCycle
    BY DEF Usb!Kept, Usb!CommandLaps, Usb!Flip
  <2>2. \A n \in 0..(CMD - 2) : cmd'[n].cycle = IF n = drv.cmd THEN drv.cmdCycle ELSE cmd[n].cycle
    BY <1>6
  <2>3. \A n \in 0..(CMD - 2) : cmd'[n].cycle = IF n < drv'.cmd THEN drv'.cmdCycle ELSE 1 - drv'.cmdCycle
    BY <1>3, <1>4, <2>1, <2>2
  <2> QED BY <2>3 DEF Usb!CommandLaps, Usb!Flip
<1>8. Usb!LastCmd' = drv.cmd
  BY <1>3, <1>4 DEF Usb!LastCmd
<1>9. Usb!Outstanding'
  BY <1>1, <1>2, <1>3, <1>4, <1>8 DEF Usb!Outstanding, Usb!Idle, Usb!SameCmdLap
<1>10. Usb!Answers' = {} /\ \A s : Usb!Load(s)' = Usb!Load(s)
  BY <1>1, <1>2, <1>4 DEF Usb!Answers, Usb!Load, Usb!Transfers, Usb!Pending, Usb!SameLap
<1>11. Usb!Waiting'
  <2>1. cmd'[drv.cmd].trb = pc.step /\ cmd'[drv.cmd].slot = pc.slot
    BY <1>3, <1>6
  <2>2. cmd'[Usb!LastCmd'].trb = pc'.step /\ cmd'[Usb!LastCmd'].slot = pc'.slot
    BY <1>5, <1>8, <2>1
  <2>3. Usb!CmdSteps' = Usb!CmdSteps
    BY DEF Usb!CmdSteps
  <2> QED BY <1>1, <1>5, <1>9, <1>10, <2>2, <2>3 DEF Usb!Waiting
<1>12. Usb!SlotOK'
  <2>1. pc.step # "protocol"
    BY <1>1 DEF Usb!CmdSteps
  <2>2. Usb!Registered' = Usb!Registered /\ Usb!Slots' = Usb!Slots
    BY <1>1 DEF Usb!Registered, Usb!Slots
  <2> QED BY <1>1, <1>5, <1>10, <2>1, <2>2 DEF Usb!SlotOK, Usb!Kept
<1>13. Usb!Table'
  BY <1>1, <1>10 DEF Usb!Kept, Usb!Table, Usb!Registered, Usb!Reading, Usb!Fresh, Usb!SameRead, Usb!Queued
<1> QED BY <1>7, <1>11, <1>12, <1>13 DEF Usb!Kept

\* It sets the protocol of the device it has addressed.
LEMMA UsbProtocolKept ==
  ASSUME Usb!XhciConstants, Usb!TypeOK, Usb!TypeOK', Usb!Kept, Usb!Protocol,
         NEW s \in Usb!Slots, s = pc.slot
  PROVE  Usb!Kept'
<1>1. /\ pc.step = "protocol" /\ ~pc.wait
      /\ UNCHANGED <<cmd, evt, drv, hw, hids, late, changes>>
  BY DEF Usb!Protocol, Usb!TypeOK
<1>2. /\ s \notin Usb!Registered /\ dev[s].state = "addressed" /\ Usb!Load(s) = 0 /\ Usb!Fresh(s)
      /\ Usb!Idle /\ Usb!Answers = {}
  <2>1. s \notin Usb!Registered /\ dev[s].state = "addressed" /\ Usb!Load(s) = 0
    BY <1>1 DEF Usb!Kept, Usb!SlotOK
  <2>2. Usb!Idle /\ Usb!Answers = {}
    BY <1>1 DEF Usb!Kept, Usb!Waiting, Usb!CmdSteps
  <2> QED BY <1>1, <2>1, <2>2, UsbRegisteredSlots DEF Usb!Kept
<1>3. pc'.step = "protocol" /\ pc'.slot = s /\ pc'.wait
  BY <1>1 DEF Usb!Protocol, Usb!TypeOK
<1>4. TR \in Nat /\ TR0 \in 2..(TR - 2)
  BY DEF Usb!XhciConstants
<1>5. /\ tr'[s][0] = 1 /\ tr'[s][1] = 1 /\ \A n \in 2..(TR - 2) : tr'[s][n] = tr[s][n]
      /\ \A t \in Usb!Slots \ {s} : tr'[t] = tr[t]
  <2>1. tr \in [Usb!Slots -> [0..(TR - 1) -> Usb!Bit]]
    BY DEF Usb!TypeOK
  <2>2. tr' = [tr EXCEPT ![s] = [tr[s] EXCEPT ![0] = 1, ![1] = 1]]
    BY <2>1 DEF Usb!Protocol
  <2>3. tr[s] \in [0..(TR - 1) -> Usb!Bit] /\ tr'[s] = [tr[s] EXCEPT ![0] = 1, ![1] = 1]
    BY <2>1, <2>2
  <2>4. \A t \in Usb!Slots \ {s} : tr'[t] = tr[t]
    BY <2>1, <2>2
  <2> QED BY <1>4, <2>3, <2>4
<1>6. dev[s] \in Usb!Device /\ dev'[s] = [dev[s] EXCEPT !.ctrl = TRUE] /\ \A t \in Usb!Slots \ {s} : dev'[t] = dev[t]
  BY <1>1 DEF Usb!Protocol, Usb!TypeOK
<1>7. /\ dev'[s].enq = dev[s].enq /\ dev'[s].enqCycle = dev[s].enqCycle
      /\ dev'[s].at = dev[s].at /\ dev'[s].atCycle = dev[s].atCycle
      /\ dev'[s].reads = dev[s].reads /\ dev'[s].state = dev[s].state /\ dev'[s].ctrl
  BY <1>6 DEF Usb!Device
<1>8. Usb!Answers' = {} /\ \A t : Usb!Transfers(t)' = Usb!Transfers(t)
  BY <1>1, <1>2 DEF Usb!Answers, Usb!Transfers, Usb!Pending, Usb!SameLap
<1>9. \A t : Underway(t)' = Underway(t)
  BY <1>8 DEF Underway
<1>10. Usb!Registered' = Usb!Registered /\ Usb!Slots' = Usb!Slots /\ Usb!CmdSteps' = Usb!CmdSteps
  BY <1>1 DEF Usb!Registered, Usb!Slots, Usb!CmdSteps
<1>11. Usb!Load(s)' = 1
  <2>1. Underway(s) = 0 /\ dev[s].reads = 0
    BY <1>1, <1>2, UsbLoad DEF Usb!Fresh
  <2> QED BY <1>1, <1>7, <1>9, <2>1, UsbLoadNext
<1>12. Usb!Fresh(s)'
  BY <1>2, <1>4, <1>5, <1>7, <1>11 DEF Usb!Fresh
<1>13. \A t \in Usb!Slots \ {s} : Still(t) /\ dev'[t] = dev[t]
  <2> TAKE t \in Usb!Slots \ {s}
  <2>1. Underway(t)' <= Underway(t)
    BY <1>9, UsbUnderway
  <2> QED BY <1>5, <1>6, <2>1, UsbUnmoved
<1>14. Usb!Table'
  <2>1. \A t \in Usb!Slots : IF t \in Usb!Registered THEN Usb!Reading(t)' ELSE Usb!Fresh(t)'
    <3> TAKE t \in Usb!Slots
    <3>1. CASE t = s
      BY <1>2, <1>12, <3>1
    <3>2. CASE t # s
      <4>1. Still(t) /\ dev'[t] = dev[t]
        BY <1>13, <3>2
      <4>2. IF t \in Usb!Registered THEN Usb!Reading(t) ELSE Usb!Fresh(t)
        BY UsbRegisteredSlots DEF Usb!Kept
      <4> QED BY <4>1, <4>2, UsbStill DEF Usb!Fresh
    <3> QED BY <3>1, <3>2
  <2>2. \A k \in 1..Len(hids) : hids[k] \in Usb!Registered /\ hids[k] \in Usb!Slots
    BY DEF Usb!Registered, Usb!TypeOK
  <2>3. \A k \in 1..Len(hids) : dev'[hids[k]] = dev[hids[k]]
    BY <1>2, <1>13, <2>2
  <2>4. \A k \in 1..Len(hids') : dev'[hids'[k]].state \in {"configured", "halted"}
    BY <1>1, <2>3 DEF Usb!Kept, Usb!Table
  <2>5. \A k, l \in 1..Len(hids') : hids'[k] = hids'[l] => k = l
    BY <1>1 DEF Usb!Kept, Usb!Table
  <2> QED BY <1>10, <2>1, <2>4, <2>5 DEF Usb!Table
<1>15. Usb!SlotOK'
  BY <1>1, <1>2, <1>3, <1>5, <1>7, <1>10 DEF Usb!SlotOK
<1>16. Usb!Waiting'
  <2>1. Usb!Idle'
    BY <1>1, <1>2 DEF Usb!Idle, Usb!SameCmdLap
  <2> QED BY <1>3, <1>8, <1>10, <2>1 DEF Usb!Waiting, Usb!CmdSteps
<1>17. Usb!CommandLaps'
  BY <1>1 DEF Usb!Kept, Usb!CommandLaps
<1> QED BY <1>14, <1>15, <1>16, <1>17 DEF Usb!Kept

\* What the driver takes is no longer on the way.
LEMMA UsbTakenLoad ==
  ASSUME Usb!XhciConstants, Usb!TypeOK, Usb!EventLaps, Usb!consume_event, UNCHANGED <<evt, hw>>
  PROVE  \A s \in Usb!Slots : Underway(s)' <= Underway(s)
<1> TAKE s \in Usb!Slots
<1> DEFINE m == IF evt[drv.evt].e.type = "transfer" /\ evt[drv.evt].e.ok /\ evt[drv.evt].e.slot = s THEN 1 ELSE 0
<1>1. Underway(s)' = Underway(s) - m
  BY UsbConsumeCounts
<1>2. m \in {0, 1}
  OBVIOUS
<1> HIDE DEF m
<1> QED BY <1>1, <1>2, UsbUnderway

\* An event is taken, and no slot changes.
LEMMA UsbTaken ==
  ASSUME Usb!XhciConstants, Usb!TypeOK, Usb!TypeOK', Usb!EventLaps, Usb!Kept, Usb!consume_event,
         UNCHANGED <<cmd, evt, hw>>
  PROVE  /\ Usb!Answers' = Usb!Answers \ {drv.evt}
         /\ evt[drv.evt].e.type = "command" <=> drv.evt \in Usb!Answers
         /\ Usb!Idle' <=> Usb!Idle
         /\ Usb!CommandLaps'
         /\ drv'.cmd = drv.cmd /\ drv'.cmdCycle = drv.cmdCycle
         /\ UNCHANGED <<tr, dev>> => \A s \in Usb!Slots : Still(s) /\ dev'[s] = dev[s]
         /\ UNCHANGED <<tr, dev, hids>> => Usb!Table'
<1>1. Usb!Answers' = Usb!Answers \ {drv.evt} /\ (evt[drv.evt].e.type = "command" <=> drv.evt \in Usb!Answers)
  BY UsbConsumeCounts DEF Usb!Answers
<1>2. drv'.cmd = drv.cmd /\ drv'.cmdCycle = drv.cmdCycle
  BY UsbConsumeTyped
<1>3. (Usb!Idle' <=> Usb!Idle) /\ Usb!CommandLaps'
  BY <1>2 DEF Usb!Idle, Usb!SameCmdLap, Usb!Kept, Usb!CommandLaps
<1>4. \A s \in Usb!Slots : Underway(s)' <= Underway(s)
  BY UsbTakenLoad
<1>5. ASSUME UNCHANGED <<tr, dev>> PROVE \A s \in Usb!Slots : Still(s) /\ dev'[s] = dev[s]
  BY <1>4, <1>5, UsbUnmoved
<1>6. ASSUME UNCHANGED <<tr, dev, hids>> PROVE Usb!Table'
  <2>1. \A s \in Usb!Slots : IF s \in Usb!Registered THEN dev'[s].state \in {"configured", "halted"}
                                                    ELSE dev'[s].state # "halted"
    BY <1>6, UsbRegisteredSlots DEF Usb!Kept, Usb!Fresh
  <2> QED BY <1>5, <1>6, <2>1, UsbTableStill DEF Usb!Kept
<1> QED BY <1>1, <1>2, <1>3, <1>5, <1>6

\* The enumeration goes on with the next port: nothing is outstanding.
LEMMA UsbNextKept ==
  ASSUME Usb!XhciConstants, Usb!TypeOK, Usb!NextPort, Usb!Idle', Usb!Answers' = {}, Usb!CommandLaps', Usb!Table'
  PROVE  Usb!Kept'
<1>1. pc'.step \in {"enable", "poll"} /\ ~pc'.wait
  BY UsbNextPort
<1>2. Usb!Waiting' /\ Usb!SlotOK'
  BY <1>1 DEF Usb!Waiting, Usb!SlotOK
<1> QED BY <1>2 DEF Usb!Kept

\* A keyboard that comes into the table has one read, the first of its ring.
LEMMA UsbAdded ==
  ASSUME Usb!XhciConstants, Usb!TypeOK, Usb!TypeOK', NEW s \in Usb!Slots, Usb!Fresh(s), Added(s),
         tr[s][0] = 1, tr[s][1] = 1, Underway(s)' <= Underway(s)
  PROVE  Usb!Reading(s)' /\ dev'[s].state = dev[s].state
<1>1. dev[s] \in Usb!Device /\ dev'[s] = Queue([dev[s] EXCEPT !.enq = TR0, !.enqCycle = 1])
  BY DEF Usb!TypeOK, Added, First
<1>2. TR \in Nat /\ TR0 \in 2..(TR - 2)
  BY DEF Usb!XhciConstants
<1> DEFINE d == [dev[s] EXCEPT !.enq = TR0, !.enqCycle = 1]
           q == dev'[s].enq
           g == dev'[s].enqCycle
<1>3. /\ d \in Usb!Device /\ d.enq = TR0 /\ d.enqCycle = 1 /\ d.reads = dev[s].reads
      /\ d.at = dev[s].at /\ d.atCycle = dev[s].atCycle /\ d.ctrl = dev[s].ctrl /\ d.state = dev[s].state
  <2>1. TR0 \in 0..(TR - 2) /\ 1 \in Usb!Bit
    BY <1>2 DEF Usb!Bit
  <2> QED BY <1>1, <2>1 DEF Usb!Device
<1>4. dev'[s] = Queue(d)
  BY <1>1
<1> HIDE DEF d
<1>5. /\ dev'[s].reads = d.reads + 1 /\ dev'[s].at = d.at /\ dev'[s].atCycle = d.atCycle
      /\ dev'[s].ctrl = d.ctrl /\ dev'[s].state = d.state
      /\ q = (IF d.enq = TR - 2 THEN 0 ELSE d.enq + 1)
      /\ g = (IF d.enq = TR - 2 THEN Usb!Flip(d.enqCycle) ELSE d.enqCycle)
  BY <1>3, <1>4, UsbQueueFields
<1>6. /\ dev[s].reads = 0 /\ dev[s].at = TR0 /\ dev[s].atCycle = 1
      /\ \A n \in 2..(TR - 2) : tr[s][n] = 0
  BY DEF Usb!Fresh
<1>7. q = (IF TR0 = TR - 2 THEN 0 ELSE TR0 + 1) /\ g = (IF TR0 = TR - 2 THEN 0 ELSE 1)
  BY <1>3, <1>5 DEF Usb!Flip
<1>8. \A n \in 0..(TR - 2) : tr'[s][n] = IF n = TR0 \/ n < 2 THEN 1 ELSE 0
  BY <1>2, <1>6 DEF Added
<1>9. \A n \in 0..(TR - 2) :
         n \notin Usb!Gap \/ Usb!Queued(s, n)' => tr'[s][n] = IF n < q THEN g ELSE 1 - g
  <2>1. \A n : Usb!Queued(s, n)' <=> IF 1 = g THEN TR0 <= n /\ n < q ELSE TR0 <= n \/ n < q
    BY <1>3, <1>5, <1>6 DEF Usb!Queued, Usb!SameRead
  <2>2. \A n : n \in Usb!Gap <=> n \in 2..(TR0 - 1)
    BY DEF Usb!Gap
  <2> HIDE DEF q, g
  <2> QED BY <1>2, <1>7, <1>8, <2>1, <2>2
<1>10. q + (IF 1 = g THEN 0 ELSE TR - 1) = TR0 + 1
  <2> HIDE DEF q, g
  <2> QED BY <1>2, <1>7
<1>11. Usb!Load(s)' <= 2
  <2>1. Usb!Load(s) <= 1 /\ Usb!Load(s) = Underway(s) + 0 + (IF dev[s].ctrl THEN 1 ELSE 0) /\ Underway(s) \in Nat
    BY <1>6, UsbLoad DEF Usb!Fresh
  <2>2. Usb!Load(s)' = Underway(s)' + 1 + (IF dev[s].ctrl THEN 1 ELSE 0) /\ Underway(s)' \in Nat
    BY <1>3, <1>5, <1>6, UsbLoadNext
  <2> QED BY <2>1, <2>2
<1>12. Usb!Gap' = Usb!Gap
  BY DEF Usb!Gap
<1> QED BY <1>3, <1>5, <1>6, <1>9, <1>10, <1>11, <1>12 DEF Usb!Reading, Usb!SameRead, Usb!Flip

\* The completion that is taken is the answer to the driver's command.
LEMMA UsbCompletionKept ==
  ASSUME Usb!XhciConstants, Usb!TypeOK, Usb!TypeOK', Usb!EventLaps, Usb!Kept, Usb!Completion
  PROVE  Usb!Kept'
<1> DEFINE e == evt[drv.evt].e
<1>1. /\ pc.step \in Usb!CmdSteps /\ pc.wait /\ Usb!consume_event /\ UNCHANGED <<cmd, evt, hw, late, changes>>
      /\ Dropped \/ GaveUp \/ Ready \/ GoesOn
  BY UsbCompleted
<1>2. /\ Usb!Answers' = Usb!Answers \ {drv.evt} /\ (e.type = "command" <=> drv.evt \in Usb!Answers)
      /\ (Usb!Idle' <=> Usb!Idle) /\ Usb!CommandLaps'
      /\ drv'.cmd = drv.cmd /\ drv'.cmdCycle = drv.cmdCycle
      /\ UNCHANGED <<tr, dev>> => \A s \in Usb!Slots : Still(s) /\ dev'[s] = dev[s]
      /\ UNCHANGED <<tr, dev, hids>> => Usb!Table'
  BY <1>1, UsbTaken
<1>3. CASE Dropped
  <2>1. UNCHANGED <<pc, dev, tr, hids>> /\ Usb!Answers' = Usb!Answers
    BY <1>2, <1>3 DEF Dropped
  <2>2. Usb!Waiting'
    BY <1>1, <1>2, <2>1, UsbWaitingStill DEF Usb!Kept
  <2>3. Usb!SlotOK'
    BY <1>2, <2>1, UsbSlotStill DEF Usb!Kept
  <2> QED BY <1>2, <2>1, <2>2, <2>3 DEF Usb!Kept
<1>4. ASSUME e.type = "command"
      PROVE  Usb!Idle' /\ Usb!Answers' = {} /\ Usb!Right(e)
  BY <1>1, <1>2, <1>4 DEF Usb!Kept, Usb!Waiting
<1>5. CASE GaveUp
  BY <1>2, <1>4, <1>5, UsbNextKept DEF GaveUp
<1>6. CASE Ready
  <2> DEFINE k == pc.slot
  <2>1. pc.step = "configure" /\ Usb!NextPort /\ k \in Usb!Slots /\ Usb!register_hid(k)
    BY <1>6 DEF Ready, Usb!TypeOK
  <2>2. /\ k \notin Usb!Registered /\ dev[k].state = "configured"
        /\ tr[k][0] = 1 /\ tr[k][1] = 1
    <3>1. e.slot = k /\ dev[k].state = "configured"
      BY <1>4, <1>6, <2>1 DEF Ready, Usb!Right, Usb!Gives
    <3> QED BY <2>1, <3>1 DEF Usb!Kept, Usb!SlotOK
  <2>3. Usb!Table'
    <3> SUFFICES ASSUME NEW s \in Usb!Slots, s = k PROVE Usb!Table'
      BY <2>1
    <3>1. CASE UNCHANGED <<hids, tr, dev>>
      BY <1>2, <3>1
    <3>2. CASE Added(s)
      <4>1. \A t \in Usb!Slots : Underway(t)' <= Underway(t)
        BY <1>1, UsbTakenLoad
      <4>2. Usb!Reading(s)' /\ dev'[s].state = "configured"
        BY <2>2, <3>2, <4>1, UsbAdded, UsbRegisteredSlots DEF Usb!Kept
      <4>3. \A t \in Usb!Slots \ {s} : dev'[t] = dev[t] /\ Still(t)
        BY <3>2, <4>1, UsbUnmoved DEF Added
      <4>4. hids \in Seq(Usb!Slots) /\ hids' = Append(hids, s)
        BY <3>2 DEF Added, Usb!TypeOK
      <4>5. Usb!Registered' = Usb!Registered \cup {s}
        BY <4>4 DEF Usb!Registered
      <4>6. \A t \in Usb!Slots : IF t \in Usb!Registered' THEN Usb!Reading(t)' ELSE Usb!Fresh(t)'
        <5> TAKE t \in Usb!Slots
        <5>1. CASE t = s
          BY <4>2, <4>5, <5>1
        <5>2. CASE t # s
          <6>1. Still(t) /\ dev'[t] = dev[t]
            BY <4>3, <5>2
          <6>2. IF t \in Usb!Registered THEN Usb!Reading(t) ELSE Usb!Fresh(t)
            BY UsbRegisteredSlots DEF Usb!Kept
          <6> QED BY <4>5, <5>2, <6>1, <6>2, UsbStill DEF Usb!Fresh
        <5> QED BY <5>1, <5>2
      <4>7. \A i \in 1..Len(hids) : hids[i] \in Usb!Slots /\ hids[i] # s
        BY <2>2, <4>4 DEF Usb!Registered
      <4>8. \A i \in 1..Len(hids') : dev'[hids'[i]].state \in {"configured", "halted"}
        <5> TAKE i \in 1..Len(hids')
        <5>1. CASE i \in 1..Len(hids)
          <6>1. hids'[i] = hids[i] /\ dev[hids[i]].state \in {"configured", "halted"}
            BY <4>4, <5>1 DEF Usb!Kept, Usb!Table
          <6> QED BY <4>3, <4>7, <5>1, <6>1
        <5>2. CASE i \notin 1..Len(hids)
          <6>1. hids'[i] = s
            BY <4>4, <5>2
          <6> QED BY <4>2, <6>1
        <5> QED BY <5>1, <5>2
      <4>9. \A i, j \in 1..Len(hids') : hids'[i] = hids'[j] => i = j
        BY <4>4, <4>7 DEF Usb!Kept, Usb!Table
      <4>10. Usb!Slots' = Usb!Slots
        BY DEF Usb!Slots
      <4> QED BY <4>6, <4>8, <4>9, <4>10 DEF Usb!Table
    <3> QED BY <2>1, <3>1, <3>2, UsbRegistered
  <2> QED BY <1>2, <1>4, <1>6, <2>1, <2>3, UsbNextKept DEF Ready
<1>7. CASE GoesOn
  <2> DEFINE k == IF pc.step = "enable" THEN e.slot ELSE pc.slot
  <2>1. /\ UNCHANGED <<dev, tr, hids>> /\ e.ok /\ pc.step \in {"enable", "address"} /\ Usb!Right(e)
        /\ Usb!Table /\ Usb!SlotOK
    BY <1>4, <1>7 DEF GoesOn, Usb!Kept
  <2>2. /\ pc'.step = (IF pc.step = "enable" THEN "address" ELSE "protocol")
        /\ pc'.slot = k /\ ~pc'.wait
    <3>1. pc \in [port : Nat, step : Usb!CmdSteps \cup {"protocol", "poll"}, wait : BOOLEAN, slot : Usb!Slots \cup {0}]
      BY DEF Usb!TypeOK
    <3> QED BY <1>7, <3>1 DEF GoesOn
  <2>3. /\ k \in Usb!Slots \ Usb!Registered /\ k = e.slot
        /\ dev[k].state = IF pc.step = "enable" THEN "enabled" ELSE "addressed"
    BY <2>1 DEF Usb!Right, Usb!Gives
  <2> SUFFICES ASSUME NEW s \in Usb!Slots, s = k PROVE Usb!Kept'
    BY <2>3
  <2>4. Usb!Load(s) = 0
    <3>1. Usb!Fresh(s)
      BY <2>1, <2>3, UsbRegisteredSlots
    <3> QED BY <2>1, <2>3, <3>1 DEF Usb!Fresh, Usb!SlotOK
  <2>5. Usb!Load(s)' = 0
    <3>1. Usb!Load(s)' <= Usb!Load(s)
      BY <1>2, <2>1 DEF Still
    <3> QED BY <2>4, <3>1, UsbLoadNext
  <2>6. Usb!Registered' = Usb!Registered /\ Usb!Slots' = Usb!Slots
    BY <2>1 DEF Usb!Registered, Usb!Slots
  <2>7. Usb!SlotOK'
    <3>1. pc'.slot = s /\ s \in Usb!Slots' \ Usb!Registered' /\ dev'[s].state # "off"
      BY <2>1, <2>2, <2>3, <2>6
    <3>2. pc'.step = "protocol" => dev'[s].state = "addressed"
      BY <2>1, <2>2, <2>3
    <3> QED BY <2>2, <2>5, <3>1, <3>2 DEF Usb!SlotOK
  <2>8. Usb!Waiting'
    BY <1>4, <1>7, <2>2 DEF GoesOn, Usb!Waiting
  <2> QED BY <1>2, <2>1, <2>7, <2>8 DEF Usb!Kept
<1> QED BY <1>1, <1>3, <1>5, <1>6, <1>7

\* Whatever event comes first ends the wait for the control transfer.
LEMMA UsbProtocolAnswered ==
  ASSUME Usb!XhciConstants, Usb!TypeOK, Usb!TypeOK', Usb!EventLaps, Usb!Kept, Usb!ProtocolAnswer
  PROVE  Usb!Kept'
<1>1. /\ pc.step = "protocol" /\ pc.wait /\ Usb!consume_event
      /\ UNCHANGED <<cmd, evt, tr, hw, dev, hids, late, changes>>
  BY DEF Usb!ProtocolAnswer
<1>2. pc'.step = "configure" /\ ~pc'.wait /\ pc'.slot = pc.slot
  BY DEF Usb!ProtocolAnswer, Usb!TypeOK
<1>3. /\ Usb!Answers' = Usb!Answers \ {drv.evt} /\ (Usb!Idle' <=> Usb!Idle) /\ Usb!CommandLaps' /\ Usb!Table'
  BY <1>1, UsbTaken
<1>4. Usb!Idle /\ Usb!Answers = {}
  BY <1>1 DEF Usb!Kept, Usb!Waiting, Usb!CmdSteps
<1>5. Usb!Waiting'
  BY <1>2, <1>3, <1>4 DEF Usb!Waiting
<1>6. Usb!SlotOK'
  <2>1. Usb!Registered' = Usb!Registered /\ Usb!Slots' = Usb!Slots
    BY <1>1 DEF Usb!Registered, Usb!Slots
  <2> QED BY <1>1, <1>2, <2>1 DEF Usb!Kept, Usb!SlotOK
<1> QED BY <1>3, <1>5, <1>6 DEF Usb!Kept

\* A report that is taken has its read queued again, behind the one before.
LEMMA UsbAgain ==
  ASSUME Usb!XhciConstants, Usb!TypeOK, Usb!TypeOK', NEW s \in Usb!Slots, Usb!Reading(s), Again(s),
         Underway(s)' = Underway(s) - 1
  PROVE  Usb!Reading(s)' /\ dev'[s].state = dev[s].state
<1>1. dev[s] \in Usb!Device /\ dev'[s] = Queue(dev[s])
  BY DEF Usb!TypeOK, Again
<1> DEFINE a == dev[s].at
           q == dev[s].enq
           p == dev'[s].enq
           r == dev[s].reads
           c == dev[s].atCycle
           g == dev[s].enqCycle
           k == dev'[s].enqCycle
<1>2. /\ a \in 0..(TR - 2) /\ q \in 0..(TR - 2) /\ r \in Nat /\ c \in {0, 1} /\ g \in {0, 1}
      /\ TR \in Nat /\ TR0 \in 2..(TR - 2)
  BY <1>1 DEF Usb!Device, Usb!XhciConstants, Usb!Bit
<1>3. /\ dev'[s].at = a /\ dev'[s].atCycle = c /\ dev'[s].reads = r + 1
      /\ dev'[s].ctrl = dev[s].ctrl /\ dev'[s].state = dev[s].state
      /\ p = (IF q = TR - 2 THEN 0 ELSE q + 1) /\ k = (IF q = TR - 2 THEN 1 - g ELSE g)
  BY <1>1, UsbQueueFields DEF Usb!Flip
<1>4. q + (IF c = g THEN 0 ELSE TR - 1) = a + r
  BY DEF Usb!Reading, Usb!SameRead
<1>5. Usb!Load(s)' <= 2 /\ r <= 1
  <2>1. Usb!Load(s) = Underway(s) + r + (IF dev[s].ctrl THEN 1 ELSE 0) /\ Underway(s) \in Nat
    BY UsbLoad
  <2>2. Usb!Load(s)' = Underway(s)' + (r + 1) + (IF dev[s].ctrl THEN 1 ELSE 0) /\ Underway(s)' \in Nat
    BY <1>3, UsbLoadNext
  <2>3. Usb!Load(s) <= 2
    BY DEF Usb!Reading
  <2> HIDE DEF r
  <2> QED BY <1>2, <2>1, <2>2, <2>3
<1>6. \A n \in 0..(TR - 2) : n \notin Usb!Gap \/ Usb!Queued(s, n) => tr[s][n] = IF n < q THEN g ELSE 1 - g
  BY DEF Usb!Reading, Usb!Flip
<1>7. \A n \in 0..(TR - 2) : tr'[s][n] = IF n = q THEN g ELSE tr[s][n]
  BY DEF Again
<1>8. \A n : /\ Usb!Queued(s, n)' <=> IF c = k THEN a <= n /\ n < p ELSE a <= n \/ n < p
             /\ Usb!Queued(s, n) <=> IF c = g THEN a <= n /\ n < q ELSE a <= n \/ n < q
  BY <1>3 DEF Usb!Queued, Usb!SameRead
<1>9. p + (IF c = k THEN 0 ELSE TR - 1) = a + (r + 1)
  <2> HIDE DEF a, q, p, r, c, g, k
  <2> QED BY <1>2, <1>3, <1>4, <1>5
<1>10. \A n \in 0..(TR - 2) : n \notin Usb!Gap \/ Usb!Queued(s, n)' => tr'[s][n] = IF n < p THEN k ELSE 1 - k
  <2> HIDE DEF a, q, p, r, c, g, k
  <2>1. ASSUME NEW n \in 0..(TR - 2), Usb!Queued(s, n)', n # q PROVE Usb!Queued(s, n)
    BY <1>2, <1>3, <1>4, <1>5, <1>8, <2>1
  <2>2. ASSUME NEW n \in 0..(TR - 2), n # q, n \notin Usb!Gap \/ Usb!Queued(s, n)'
        PROVE  tr'[s][n] = IF n < p THEN k ELSE 1 - k
    <3>1. tr'[s][n] = IF n < q THEN g ELSE 1 - g
      BY <1>6, <1>7, <2>1, <2>2
    <3>2. q = TR - 2 => n < q
      BY <1>2, <2>2
    <3> QED BY <1>2, <1>3, <2>2, <3>1, <3>2
  <2>3. tr'[s][q] = IF q < p THEN k ELSE 1 - k
    BY <1>2, <1>3, <1>7
  <2> QED BY <2>2, <2>3
<1>11. Usb!Gap' = Usb!Gap
  BY DEF Usb!Gap
<1> QED BY <1>3, <1>5, <1>9, <1>10, <1>11 DEF Usb!Reading, Usb!SameRead, Usb!Flip

LEMMA UsbPollKept ==
  ASSUME Usb!XhciConstants, Usb!TypeOK, Usb!TypeOK', Usb!EventLaps, Usb!Kept, Usb!poll
  PROVE  Usb!Kept'
<1> DEFINE e == evt[drv.evt].e
<1>1. /\ pc.step = "poll" /\ Usb!consume_event /\ UNCHANGED <<cmd, evt, hw, pc, hids, late, changes>>
      /\ \/ UNCHANGED <<tr, dev>>
         \/ e.type = "transfer" /\ e.ok /\ e.slot \in Usb!Slots \cap Usb!Registered /\ Again(e.slot)
  BY UsbPolled
<1>2. /\ Usb!Answers' = Usb!Answers \ {drv.evt} /\ (Usb!Idle' <=> Usb!Idle) /\ Usb!CommandLaps'
      /\ UNCHANGED <<tr, dev>> => Usb!Table'
  BY <1>1, UsbTaken
<1>3. Usb!Idle /\ Usb!Answers = {}
  BY <1>1 DEF Usb!Kept, Usb!Waiting, Usb!CmdSteps
<1>4. Usb!Waiting' /\ Usb!SlotOK'
  BY <1>1, <1>2, <1>3 DEF Usb!Waiting, Usb!SlotOK, Usb!CmdSteps
<1>5. CASE UNCHANGED <<tr, dev>>
  BY <1>2, <1>4, <1>5 DEF Usb!Kept
<1>6. ASSUME NEW s \in Usb!Slots \cap Usb!Registered, s = e.slot, e.type = "transfer", e.ok, Again(s)
      PROVE  Usb!Kept'
  <2>1. Underway(s)' = Underway(s) - 1
    BY <1>1, <1>6, UsbConsumeCounts
  <2>2. Usb!Reading(s) /\ Usb!Table
    BY <1>6, UsbRegisteredSlots DEF Usb!Kept
  <2>3. Usb!Reading(s)' /\ dev'[s].state = dev[s].state
    BY <1>6, <2>1, <2>2, UsbAgain
  <2>4. \A t \in Usb!Slots \ {s} : dev'[t] = dev[t] /\ Still(t)
    <3>1. \A t \in Usb!Slots : Underway(t)' <= Underway(t)
      BY <1>1, UsbTakenLoad
    <3> QED BY <1>6, <3>1, UsbUnmoved DEF Again
  <2>5. Usb!Registered' = Usb!Registered /\ Usb!Slots' = Usb!Slots
    BY <1>1 DEF Usb!Registered, Usb!Slots
  <2>6. \A t \in Usb!Slots : IF t \in Usb!Registered' THEN Usb!Reading(t)' ELSE Usb!Fresh(t)'
    <3> TAKE t \in Usb!Slots
    <3>1. CASE t = s
      BY <1>6, <2>3, <2>5, <3>1
    <3>2. CASE t # s
      <4>1. Still(t) /\ dev'[t] = dev[t]
        BY <2>4, <3>2
      <4>2. IF t \in Usb!Registered THEN Usb!Reading(t) ELSE Usb!Fresh(t)
        BY <2>2, UsbRegisteredSlots
      <4> QED BY <2>5, <4>1, <4>2, UsbStill DEF Usb!Fresh
    <3> QED BY <3>1, <3>2
  <2>7. \A t \in Usb!Slots : dev'[t].state = dev[t].state
    BY <2>3, <2>4
  <2>8. \A k \in 1..Len(hids) : hids[k] \in Usb!Slots
    BY DEF Usb!TypeOK
  <2>9. \A k \in 1..Len(hids') : dev'[hids'[k]].state \in {"configured", "halted"}
    BY <1>1, <2>2, <2>7, <2>8 DEF Usb!Table
  <2>10. \A k, l \in 1..Len(hids') : hids'[k] = hids'[l] => k = l
    BY <1>1, <2>2 DEF Usb!Table
  <2>11. Usb!Table'
    BY <2>5, <2>6, <2>9, <2>10 DEF Usb!Table
  <2> QED BY <1>2, <1>4, <2>11 DEF Usb!Kept
<1> QED BY <1>1, <1>5, <1>6

\* The invariant of the rings, and what it says of the keyboards.
LEMMA UsbInvInit == Usb!XhciConstants /\ Usb!Init => Usb!RingInv
<1> SUFFICES ASSUME Usb!XhciConstants, Usb!Init PROVE Usb!RingInv OBVIOUS
<1>1. Usb!TypeOK /\ Usb!EventLaps
  BY UsbInitTyped, UsbInitLaps
<1>2. /\ CMD \in Nat /\ CMD >= 3 /\ TR \in Nat /\ TR0 \in 2..(TR - 2) /\ EVT \in Nat \ {0} /\ EvtWrap \in 1..EVT
  BY DEF Usb!XhciConstants
<1>3. Usb!Pending = {}
  BY <1>2 DEF Usb!Pending, Usb!Init, Usb!SameLap
<1>4. Usb!CommandLaps
  BY <1>2 DEF Usb!CommandLaps, Usb!Init, Usb!Flip
<1>5. Usb!Waiting /\ Usb!SlotOK
  BY <1>3 DEF Usb!Waiting, Usb!SlotOK, Usb!Init, Usb!Idle, Usb!SameCmdLap, Usb!Answers
<1>6. \A s \in Usb!Slots : Usb!Fresh(s)
  <2> TAKE s \in Usb!Slots
  <2>1. Usb!Transfers(s) = {}
    BY <1>3 DEF Usb!Transfers
  <2>2. Underway(s) = 0
    BY <2>1, FS_EmptySet DEF Underway
  <2>3. dev[s] = [state |-> "off", enq |-> TR0, enqCycle |-> 1, at |-> TR0, atCycle |-> 1,
                  ctrl |-> FALSE, reads |-> 0, reports |-> 0]
    BY DEF Usb!Init
  <2>4. Usb!Load(s) = 0
    BY <1>1, <2>2, <2>3, UsbLoad
  <2>5. \A n \in 2..(TR - 2) : tr[s][n] = 0
    BY <1>2 DEF Usb!Init
  <2> QED BY <2>3, <2>4, <2>5 DEF Usb!Fresh
<1>7. Usb!Table
  BY <1>6 DEF Usb!Table, Usb!Registered, Usb!Init
<1> QED BY <1>1, <1>4, <1>5, <1>7 DEF Usb!RingInv, Usb!Kept

LEMMA UsbInvStep ==
  ASSUME Usb!XhciConstants, Usb!RingInv, Usb!Next
  PROVE  Usb!RingInv'
<1>1. Usb!TypeOK /\ Usb!EventLaps /\ (~late => Usb!Kept)
  BY DEF Usb!RingInv
<1>2. Usb!TypeOK' /\ Usb!EventLaps'
  BY <1>1, UsbTypedStep, UsbLapsStep
<1>3. ASSUME ~late' PROVE Usb!Kept'
  <2>1. ~Usb!Timeout
    BY <1>3 DEF Usb!Timeout
  <2>2. CASE Usb!FollowLink \/ Usb!Execute \/ Usb!PortChange
    <3>1. ~late
      BY <1>3, <2>2 DEF Usb!FollowLink, Usb!Execute, Usb!PortChange
    <3> QED BY <1>1, <1>2, <2>2, <3>1, UsbFollowed, UsbAnswered, UsbChanged
  <2>3. ASSUME NEW s \in Usb!Slots, Usb!CtrlDone(s) \/ Usb!Report(s) \/ Usb!Stray(s) PROVE Usb!Kept'
    <3>1. ~late
      BY <1>3, <2>3 DEF Usb!CtrlDone, Usb!Report, Usb!Stray
    <3> QED BY <1>1, <1>2, <2>3, <3>1, UsbControlled, UsbReport, UsbStray
  <2>4. CASE Usb!Post \/ Usb!Completion \/ Usb!Protocol \/ Usb!ProtocolAnswer \/ Usb!poll
    <3>1. ~late
      BY <1>3, <2>4 DEF Usb!Post, Usb!Completion, Usb!Protocol, Usb!ProtocolAnswer, Usb!poll
    <3>2. Usb!Protocol => pc.slot \in Usb!Slots
      BY <1>1 DEF Usb!Protocol, Usb!TypeOK
    <3>3. Usb!Protocol => Usb!Kept'
      BY <1>1, <1>2, <3>1, <3>2, UsbProtocolKept
    <3> QED BY <1>1, <1>2, <2>4, <3>1, <3>3, UsbPostKept, UsbCompletionKept, UsbProtocolAnswered, UsbPollKept
  <2> QED BY <2>1, <2>2, <2>3, <2>4 DEF Usb!Next, Usb!Controller, Usb!Driver
<1> QED BY <1>2, <1>3 DEF Usb!RingInv

LEMMA UsbRingsFollow == Usb!XhciConstants /\ Usb!RingInv => Usb!RingsFollow
<1> SUFFICES ASSUME Usb!XhciConstants, Usb!RingInv, ~late PROVE Usb!RingsFollow
  BY DEF Usb!RingsFollow, Usb!RegisteredReady, Usb!ReadsSeen, Usb!NoGhostReads
<1>1. Usb!TypeOK /\ Usb!Table
  BY DEF Usb!RingInv, Usb!Kept
<1>2. TR \in Nat /\ TR0 \in 2..(TR - 2)
  BY DEF Usb!XhciConstants
<1>3. ASSUME NEW s \in Usb!Slots
      PROVE  /\ dev[s].reads # 0 => Usb!Seen(s)
             /\ dev[s].reads = 0 /\ Usb!Seen(s) => dev[s].at \in Usb!Gap
  <2> DEFINE a == dev[s].at
             q == dev[s].enq
             r == dev[s].reads
             c == dev[s].atCycle
             g == dev[s].enqCycle
  <2>1. dev[s] \in Usb!Device
    BY <1>1 DEF Usb!TypeOK
  <2>2. a \in 0..(TR - 2) /\ q \in 0..(TR - 2) /\ r \in Nat /\ c \in {0, 1} /\ g \in {0, 1}
    BY <2>1 DEF Usb!Device, Usb!Bit
  <2>3. CASE Usb!Fresh(s)
    <3>1. r = 0 /\ a = TR0 /\ c = 1 /\ tr[s][TR0] = 0
      BY <1>2, <2>3 DEF Usb!Fresh
    <3> QED BY <3>1 DEF Usb!Seen
  <2>4. CASE Usb!Reading(s)
    <3>1. q + (IF c = g THEN 0 ELSE TR - 1) = a + r
      BY <2>4 DEF Usb!Reading, Usb!SameRead
    <3>2. a \notin Usb!Gap \/ Usb!Queued(s, a) => tr[s][a] = IF a < q THEN g ELSE 1 - g
      BY <2>2, <2>4 DEF Usb!Reading, Usb!Flip
    <3>3. Usb!Queued(s, a) <=> IF c = g THEN a <= a /\ a < q ELSE TRUE
      BY <2>2 DEF Usb!Queued, Usb!SameRead
    <3>4. Usb!Seen(s) <=> tr[s][a] = c
      BY DEF Usb!Seen
    <3>5. r # 0 => Usb!Queued(s, a) /\ (IF a < q THEN g ELSE 1 - g) = c
      <4> HIDE DEF a, q, r, c, g
      <4>3. r <= 2
        <5>1. Usb!Load(s) <= 2
          BY <2>4 DEF Usb!Reading
        <5> QED BY <1>1, <5>1, UsbLoad DEF r
      <4> QED BY <1>2, <2>2, <3>1, <3>3, <4>3
    <3>6. r = 0 => (IF a < q THEN g ELSE 1 - g) # c
      <4> HIDE DEF a, q, r, c, g
      <4> QED BY <1>2, <2>2, <3>1
    <3> HIDE DEF a, q, r, c, g
    <3>7. (r # 0 => Usb!Seen(s)) /\ (r = 0 /\ Usb!Seen(s) => a \in Usb!Gap)
      BY <3>2, <3>4, <3>5, <3>6
    <3> QED BY <3>7 DEF a, r
  <2> QED BY <1>1, <2>3, <2>4, UsbRegisteredSlots
<1> QED BY <1>1, <1>3 DEF Usb!Table, Usb!RingsFollow, Usb!RegisteredReady, Usb!ReadsSeen, Usb!NoGhostReads

\* Nothing of it changes by itself.
LEMMA UsbInvStutter == Usb!RingInv /\ UNCHANGED Usb!vars => Usb!RingInv'
<1> SUFFICES ASSUME Usb!RingInv, UNCHANGED Usb!vars PROVE Usb!RingInv'
  OBVIOUS
<1>1. UNCHANGED <<cmd, evt, tr, drv, hw, dev, pc, hids, late, changes>>
  BY DEF Usb!vars
<1>2. Usb!TypeOK'
  BY <1>1 DEF Usb!RingInv, Usb!TypeOK, Usb!Slots, Usb!Event, Usb!Device, Usb!Bit, Usb!CmdSteps
<1>3. Usb!EventLaps'
  BY <1>1 DEF Usb!RingInv, Usb!EventLaps, Usb!SameLap, Usb!Flip
<1>4. Usb!Pending' = Usb!Pending /\ Usb!Registered' = Usb!Registered
  BY <1>1 DEF Usb!Pending, Usb!SameLap, Usb!Registered
<1>5. Usb!Answers' = Usb!Answers
  BY <1>1, <1>4 DEF Usb!Answers
<1>6. ASSUME NEW s PROVE Usb!Load(s)' = Usb!Load(s)
  <2>1. Usb!Transfers(s)' = Usb!Transfers(s)
    BY <1>1, <1>4 DEF Usb!Transfers
  <2> QED BY <1>1, <2>1 DEF Usb!Load
<1>7. Usb!Kept => Usb!Kept'
  <2> SUFFICES ASSUME Usb!Kept PROVE Usb!Kept'
    OBVIOUS
  <2>1. Usb!CommandLaps'
    BY <1>1 DEF Usb!Kept, Usb!CommandLaps, Usb!Flip
  <2>2. Usb!Waiting'
    <3>1. Usb!Idle' <=> Usb!Idle
      BY <1>1 DEF Usb!Idle, Usb!SameCmdLap
    <3>2. (Usb!Outstanding' <=> Usb!Outstanding) /\ Usb!LastCmd' = Usb!LastCmd
      BY <1>1 DEF Usb!Outstanding, Usb!SameCmdLap, Usb!LastCmd
    <3>3. ASSUME NEW e PROVE Usb!Right(e)' <=> Usb!Right(e)
      BY <1>1, <1>4 DEF Usb!Right, Usb!Slots, Usb!Gives
    <3>4. \A n : Usb!Right(evt[n].e)' <=> Usb!Right(evt[n].e)
      BY <1>1, <3>3
    <3> QED BY <1>1, <1>5, <3>1, <3>2, <3>4 DEF Usb!Kept, Usb!Waiting, Usb!CmdSteps
  <2>3. Usb!SlotOK'
    BY <1>1, <1>4, <1>6 DEF Usb!Kept, Usb!SlotOK, Usb!Slots
  <2>4. Usb!Table'
    <3>1. ASSUME NEW s PROVE Usb!Fresh(s)' <=> Usb!Fresh(s)
      BY <1>1, <1>6 DEF Usb!Fresh
    <3>2. ASSUME NEW s PROVE Usb!Reading(s)' <=> Usb!Reading(s)
      BY <1>1, <1>6 DEF Usb!Reading, Usb!SameRead, Usb!Queued, Usb!Gap, Usb!Flip
    <3> QED BY <1>1, <1>4, <3>1, <3>2 DEF Usb!Kept, Usb!Table, Usb!Slots
  <2> QED BY <2>1, <2>2, <2>3, <2>4 DEF Usb!Kept
<1> QED BY <1>1, <1>2, <1>3, <1>7 DEF Usb!RingInv

(***************************************************************************)
(* The rings of a network card, of any size.                                 *)
(***************************************************************************)
LEMMA CardPlace ==
  ASSUME Card!NicConstants, NEW x \in Card!Slots, NEW k \in 0..N_DESC
  PROVE  /\ Card!Place(x, k) = IF x + k < N_DESC THEN x + k ELSE x + k - N_DESC
         /\ Card!Place(x, k) \in Card!Slots
         /\ Card!Slots = 0..(N_DESC - 1)
<1>1. N_DESC \in Nat \ {0} /\ x \in 0..(N_DESC - 1)
  BY DEF Card!NicConstants, Card!Slots
<1>2. (x + k) % N_DESC = IF x + k < N_DESC THEN x + k ELSE x + k - N_DESC
  BY <1>1
<1>3. Card!Place(x, k) = IF x + k < N_DESC THEN x + k ELSE x + k - N_DESC
  BY <1>2 DEF Card!Place
<1> QED BY <1>1, <1>3 DEF Card!Slots

\* The next descriptor is at place 1, and the places from it on follow.
LEMMA CardAfter ==
  ASSUME Card!NicConstants, NEW x \in Card!Slots
  PROVE  /\ Card!After(x) \in Card!Slots /\ Card!Place(x, 0) = x /\ Card!Place(x, N_DESC) = x
         /\ \A k \in 0..(N_DESC - 1) : Card!Place(Card!After(x), k) = IF k = N_DESC - 1 THEN x ELSE Card!Place(x, k + 1)
         /\ \A k \in 0..(N_DESC - 1) : Card!After(Card!Place(x, k)) = Card!Place(x, k + 1)
         /\ \A k, l \in 0..(N_DESC - 1) : Card!Place(x, k) = Card!Place(x, l) => k = l
<1>1. N_DESC \in Nat \ {0} /\ x \in 0..(N_DESC - 1) /\ Card!Slots = 0..(N_DESC - 1)
  BY DEF Card!NicConstants, Card!Slots
<1>2. ASSUME NEW y \in 0..(N_DESC - 1), NEW k \in 0..N_DESC
      PROVE  Card!Place(y, k) = IF y + k < N_DESC THEN y + k ELSE y + k - N_DESC
  BY <1>1, CardPlace
<1>3. ASSUME NEW y \in 0..(N_DESC - 1) PROVE Card!After(y) = IF y = N_DESC - 1 THEN 0 ELSE y + 1
  BY <1>1, NextInRing DEF Card!After
<1>8. 0 \in 0..N_DESC /\ N_DESC \in 0..N_DESC /\ ~(x + N_DESC < N_DESC) /\ x + N_DESC - N_DESC = x
  BY <1>1
<1>4. Card!After(x) \in 0..(N_DESC - 1) /\ Card!Place(x, 0) = x /\ Card!Place(x, N_DESC) = x
  BY <1>1, <1>2, <1>3, <1>8
<1>5. ASSUME NEW k \in 0..(N_DESC - 1)
      PROVE  Card!Place(Card!After(x), k) = IF k = N_DESC - 1 THEN x ELSE Card!Place(x, k + 1)
  <2> DEFINE y == Card!After(x)
  <2>1. y = IF x = N_DESC - 1 THEN 0 ELSE x + 1
    BY <1>1, <1>3
  <2>2. k \in 0..N_DESC /\ k + 1 \in 0..N_DESC /\ y \in 0..(N_DESC - 1)
    BY <1>1, <1>4
  <2> HIDE DEF y
  <2>3. Card!Place(y, k) = IF y + k < N_DESC THEN y + k ELSE y + k - N_DESC
    BY <1>2, <2>2
  <2>4. Card!Place(x, k + 1) = IF x + (k + 1) < N_DESC THEN x + (k + 1) ELSE x + (k + 1) - N_DESC
    BY <1>1, <1>2, <2>2
  <2>5. Card!Place(y, k) = IF k = N_DESC - 1 THEN x ELSE Card!Place(x, k + 1)
    BY <1>1, <2>1, <2>2, <2>3, <2>4
  <2> QED BY <2>5 DEF y
<1>6. ASSUME NEW k \in 0..(N_DESC - 1)
      PROVE  Card!After(Card!Place(x, k)) = Card!Place(x, k + 1)
  <2>1. k \in 0..N_DESC /\ k + 1 \in 0..N_DESC
    BY <1>1
  <2>2. Card!Place(x, k) = IF x + k < N_DESC THEN x + k ELSE x + k - N_DESC
    BY <1>1, <1>2, <2>1
  <2>3. Card!Place(x, k + 1) = IF x + (k + 1) < N_DESC THEN x + (k + 1) ELSE x + (k + 1) - N_DESC
    BY <1>1, <1>2, <2>1
  <2>4. Card!Place(x, k) \in 0..(N_DESC - 1)
    BY <1>1, <2>2
  <2>5. Card!After(Card!Place(x, k)) = IF Card!Place(x, k) = N_DESC - 1 THEN 0 ELSE Card!Place(x, k) + 1
    BY <1>3, <2>4
  <2> QED BY <1>1, <2>2, <2>3, <2>5
<1>7. ASSUME NEW k \in 0..(N_DESC - 1), NEW l \in 0..(N_DESC - 1), Card!Place(x, k) = Card!Place(x, l)
      PROVE  k = l
  <2>1. k \in 0..N_DESC /\ l \in 0..N_DESC
    BY <1>1
  <2>2. Card!Place(x, k) = IF x + k < N_DESC THEN x + k ELSE x + k - N_DESC
    BY <1>1, <1>2, <2>1
  <2>3. Card!Place(x, l) = IF x + l < N_DESC THEN x + l ELSE x + l - N_DESC
    BY <1>1, <1>2, <2>1
  <2> DEFINE p == Card!Place(x, k)
  <2>4. p = (IF x + k < N_DESC THEN x + k ELSE x + k - N_DESC) /\ p = (IF x + l < N_DESC THEN x + l ELSE x + l - N_DESC)
    BY <1>7, <2>2, <2>3
  <2> HIDE DEF p
  <2>5. N_DESC \in Int /\ x \in Int /\ k \in Int /\ l \in Int /\ 0 <= k /\ k < N_DESC /\ 0 <= l /\ l < N_DESC
    BY <1>1
  <2> QED BY <2>4, <2>5
<1> QED BY <1>1, <1>4, <1>5, <1>6, <1>7

LEMMA CardInit == Card!NicConstants /\ Card!Init => Card!CardInv
<1> SUFFICES ASSUME Card!NicConstants, Card!Init PROVE Card!CardInv OBVIOUS
<1>1. N_DESC \in Nat \ {0} /\ MaxFrames \in Nat /\ Card!Slots = 0..(N_DESC - 1)
  BY DEF Card!NicConstants, Card!Slots
<1>7. taken = <<>> /\ read = <<>> /\ wire = <<>> /\ sent = 0
  BY DEF Card!Init
<1>8. \A S : <<>> \in Seq(S) /\ Len(<<>>) = 0
  OBVIOUS
<1>2. Card!TypeOK
  <2>1. /\ card \in {"intel", "realtek"}
        /\ rx \in [Card!Slots -> [done : BOOLEAN, frame : 0..MaxFrames]]
        /\ tx \in [Card!Slots -> [own : BOOLEAN, frame : 0..MaxFrames]]
    BY <1>1 DEF Card!Init
  <2>2. /\ head \in Card!Slots /\ tail \in Card!Slots /\ RX_IDX \in Card!Slots
        /\ txHead \in Card!Slots /\ TDT \in Card!Slots /\ TX_IDX \in Card!Slots
    BY <1>1 DEF Card!Init
  <2>3. sent \in 0..MaxFrames /\ confirm = -1 /\ stuck = FALSE
    BY <1>1 DEF Card!Init
  <2> QED BY <1>7, <1>8, <2>1, <2>2, <2>3 DEF Card!TypeOK
<1>3. Len(taken) = 0 /\ Len(read) = 0 /\ Len(wire) = 0 /\ Card!Unread = 0 /\ Card!Unsent = 0
  <2>1. Len(taken) = 0 /\ Len(read) = 0 /\ Len(wire) = 0 /\ sent = 0
    BY <1>7, <1>8
  <2> QED BY <2>1 DEF Card!Unread, Card!Unsent
<1>4. 0 \in Card!Slots /\ \A k \in 0..(N_DESC - 1) : Card!Place(0, k) = k
  BY <1>1, CardPlace
<1>5. Card!PlacesApart
  BY <1>1, <1>3, <1>4 DEF Card!PlacesApart, Card!Init
<1>6. Card!RingsInOrder
  BY <1>1, <1>3, <1>4 DEF Card!RingsInOrder, Card!ReceivedInOrder, Card!SentInOrder, Card!Init
<1> QED BY <1>2, <1>5, <1>6 DEF Card!CardInv

\* A frame comes in, and one is handed over.
LEMMA CardReceives ==
  ASSUME Card!NicConstants, Card!CardInv, Card!Arrive \/ Card!PollIntel \/ Card!PollRealtek
  PROVE  Card!CardInv'
<1>1. Card!TypeOK /\ Card!PlacesApart /\ Card!ReceivedInOrder /\ Card!SentInOrder
  BY DEF Card!CardInv, Card!RingsInOrder
<1>2. N_DESC \in Nat \ {0} /\ MaxFrames \in Nat /\ Card!Slots = 0..(N_DESC - 1)
  BY DEF Card!NicConstants, Card!Slots
<1>3. taken \in Seq(0..MaxFrames) /\ read \in Seq(0..MaxFrames) /\ RX_IDX \in Card!Slots /\ head \in Card!Slots /\ tail \in Card!Slots
      /\ rx \in [Card!Slots -> [done : BOOLEAN, frame : 0..MaxFrames]] /\ card \in {"intel", "realtek"}
  BY <1>1 DEF Card!TypeOK
<1> DEFINE n == Card!Unread
           P(k) == Card!Place(RX_IDX, k)
<1>4. n = Len(taken) - Len(read) /\ Len(taken) \in Nat /\ Len(read) \in Nat /\ n \in 0..N_DESC
  BY <1>1, <1>3 DEF Card!Unread, Card!ReceivedInOrder
<1>5. /\ \A k \in 0..(N_DESC - 1) : rx[P(k)].done <=> k < n
      /\ \A k \in 1..Len(read) : read[k] = taken[k]
      /\ \A k \in 1..n : rx[P(k - 1)].frame = taken[Len(read) + k]
      /\ head = P(n) /\ (card = "intel" => tail = P(N_DESC - 1) /\ n < N_DESC)
  BY <1>1 DEF Card!ReceivedInOrder, Card!PlacesApart
<1>6. /\ P(0) = RX_IDX /\ P(N_DESC) = RX_IDX
      /\ \A k \in 0..(N_DESC - 1) : P(k) \in Card!Slots /\ Card!After(P(k)) = P(k + 1)
      /\ \A k, l \in 0..(N_DESC - 1) : P(k) = P(l) => k = l
  <2>1. \A k \in 0..(N_DESC - 1) : k \in 0..N_DESC
    BY <1>2
  <2> QED BY <1>3, <2>1, CardPlace, CardAfter
<1>7. ASSUME UNCHANGED <<card, tx, txHead, TDT, TX_IDX, confirm, sent, wire, stuck>>
      PROVE  /\ Card!SentInOrder'
             /\ ~stuck' => TX_IDX' = Card!Place(txHead, Card!Unsent)' /\ (card' = "intel" => TDT' = TX_IDX')
  BY <1>1, <1>7 DEF Card!SentInOrder, Card!PlacesApart, Card!Unsent, Card!Place
<1>8. CASE Card!Arrive
  <2>1. /\ IF card = "intel" THEN head # tail ELSE ~rx[head].done
        /\ rx' = [rx EXCEPT ![head] = [done |-> TRUE, frame |-> Len(taken) + 1]]
        /\ taken' = Append(taken, Len(taken) + 1) /\ head' = Card!After(head)
        /\ UNCHANGED <<card, tail, RX_IDX, read, tx, txHead, TDT, TX_IDX, confirm, sent, wire, stuck>>
        /\ Len(taken) < MaxFrames
    BY <1>8 DEF Card!Arrive, Card!txVars
  <2>2. n < N_DESC /\ (card = "intel" => n < N_DESC - 1)
    <3>1. CASE card = "intel"
      <4>1. n # N_DESC - 1
        BY <1>5, <2>1, <3>1
      <4>2. n < N_DESC
        BY <1>5, <3>1
      <4> HIDE DEF n
      <4> QED BY <1>2, <1>4, <4>1, <4>2
    <3>2. CASE card # "intel"
      <4>1. n = N_DESC => rx[P(0)].done /\ head = P(0)
        <5>1. 0 \in 0..(N_DESC - 1) /\ 0 < N_DESC
          BY <1>2
        <5>2. rx[P(0)].done <=> 0 < n
          BY <1>5, <5>1
        <5> HIDE DEF n, P
        <5> QED BY <1>5, <1>6, <5>1, <5>2
      <4>2. n # N_DESC
        BY <2>1, <3>2, <4>1 DEF Card!Arrive
      <4> HIDE DEF n
      <4> QED BY <1>2, <1>4, <3>2, <4>2
    <3> QED BY <3>1, <3>2
  <2>3. n \in 0..(N_DESC - 1) /\ n + 1 \in 0..N_DESC /\ Len(taken) + 1 \in 0..MaxFrames
    BY <1>2, <1>4, <2>1, <2>2
  <2>4. /\ taken' \in Seq(0..MaxFrames) /\ Len(taken') = Len(taken) + 1
        /\ \A k \in 1..Len(taken) : taken'[k] = taken[k]
        /\ taken'[Len(taken) + 1] = Len(taken) + 1
    BY <1>3, <2>1, <2>3
  <2>5. Card!Unread' = n + 1
    BY <1>4, <2>1, <2>4 DEF Card!Unread
  <2>6. head' = P(n + 1) /\ P(n + 1) \in Card!Slots
    BY <1>3, <1>5, <1>6, <2>1, <2>3, CardPlace
  <2>7. [done |-> TRUE, frame |-> Len(taken) + 1] \in [done : BOOLEAN, frame : 0..MaxFrames]
    BY <2>3
  <2>8. /\ rx' \in [Card!Slots -> [done : BOOLEAN, frame : 0..MaxFrames]]
        /\ rx'[P(n)].done /\ rx'[P(n)].frame = Len(taken) + 1
        /\ \A y \in Card!Slots \ {P(n)} : rx'[y] = rx[y]
    BY <1>3, <1>5, <1>6, <2>1, <2>3, <2>7
  <2>9. \A k \in 0..(N_DESC - 1) : rx'[P(k)].done <=> k < n + 1
    <3> TAKE k \in 0..(N_DESC - 1)
    <3>1. CASE k = n
      BY <1>2, <2>3, <2>8, <3>1
    <3>2. CASE k # n
      <4>1. rx'[P(k)] = rx[P(k)] /\ P(k) \in Card!Slots
        BY <1>6, <2>3, <2>8, <3>2
      <4>2. rx[P(k)].done <=> k < n
        BY <1>5
      <4>3. k < n + 1 <=> k < n
        BY <1>2, <2>3, <3>2
      <4> QED BY <4>1, <4>2, <4>3
    <3> QED BY <3>1, <3>2
  <2>10. \A k \in 1..(n + 1) : rx'[P(k - 1)].frame = taken'[Len(read) + k]
    <3> TAKE k \in 1..(n + 1)
    <3>1. CASE k = n + 1
      <4>1. k - 1 = n /\ Len(read) + k = Len(taken) + 1
        BY <1>4, <2>3, <3>1
      <4> QED BY <2>4, <2>8, <4>1
    <3>2. CASE k # n + 1
      <4>5. k \in Int /\ 1 <= k /\ k <= n /\ n < N_DESC /\ N_DESC \in Int
        BY <1>2, <2>3, <3>2
      <4>6. n = Len(taken) - Len(read) /\ Len(taken) \in Nat /\ Len(read) \in Nat
        BY <1>4
      <4> HIDE DEF n
      <4>1. k \in 1..n /\ k - 1 \in 0..(N_DESC - 1) /\ k - 1 # n /\ Len(read) + k \in 1..Len(taken)
        BY <4>5, <4>6
      <4>2. rx'[P(k - 1)] = rx[P(k - 1)]
        BY <1>6, <2>3, <2>8, <4>1
      <4>3. rx[P(k - 1)].frame = taken[Len(read) + k]
        BY <1>5, <4>1
      <4> QED BY <2>4, <4>1, <4>2, <4>3
    <3> QED BY <3>1, <3>2
  <2>11. \A k \in 1..Len(read) : read[k] = taken'[k]
    <3> TAKE k \in 1..Len(read)
    <3>1. k \in 1..Len(taken)
      BY <1>4, <2>3
    <3> QED BY <1>5, <2>4, <3>1
  <2>12. Card!TypeOK'
    <3>1. Card!Slots' = Card!Slots
      BY DEF Card!Slots
    <3> QED BY <1>1, <2>1, <2>4, <2>6, <2>8, <3>1 DEF Card!TypeOK
  <2>13. Card!ReceivedInOrder'
    <3>1. Card!Unread' \in 0..N_DESC
      BY <2>3, <2>5
    <3> HIDE DEF n
    <3> QED BY <2>1, <2>5, <2>9, <2>10, <2>11, <3>1 DEF Card!ReceivedInOrder, Card!Place
  <2>14. Card!PlacesApart'
    <3>1. head' = Card!Place(RX_IDX, Card!Unread)'
      BY <2>1, <2>5, <2>6 DEF Card!Place
    <3>2. card' = "intel" => tail' = Card!Place(RX_IDX, N_DESC - 1)' /\ Card!Unread' < N_DESC
      <4>1. card = "intel" => n + 1 < N_DESC
        BY <1>2, <2>2, <2>3
      <4> QED BY <1>5, <2>1, <2>5, <4>1 DEF Card!Place
    <3> QED BY <1>7, <2>1, <3>1, <3>2 DEF Card!PlacesApart
  <2> QED BY <1>7, <2>1, <2>12, <2>13, <2>14 DEF Card!CardInv, Card!RingsInOrder
<1>9. CASE Card!PollIntel \/ Card!PollRealtek
  <2>1. /\ rx[RX_IDX].done /\ read' = Append(read, rx[RX_IDX].frame)
        /\ rx' = [rx EXCEPT ![RX_IDX].done = FALSE] /\ RX_IDX' = Card!After(RX_IDX)
        /\ IF card = "intel" THEN tail' = RX_IDX ELSE tail' = tail
        /\ UNCHANGED <<card, head, taken, tx, txHead, TDT, TX_IDX, confirm, sent, wire, stuck>>
    BY <1>9 DEF Card!PollIntel, Card!PollRealtek, Card!txVars
  <2>2. n > 0 /\ n \in 1..N_DESC /\ n - 1 \in 0..(N_DESC - 1)
    <3>1. n > 0
      <4>1. 0 \in 0..(N_DESC - 1)
        BY <1>2
      <4>2. 0 < n
        BY <1>5, <1>6, <2>1, <4>1
      <4> QED BY <1>4, <4>2
    <3> QED BY <1>2, <1>4, <3>1
  <2>3. rx[RX_IDX] \in [done : BOOLEAN, frame : 0..MaxFrames] /\ rx' = [rx EXCEPT ![RX_IDX] = [rx[RX_IDX] EXCEPT !.done = FALSE]]
    BY <1>3, <2>1
  <2>4. [rx[RX_IDX] EXCEPT !.done = FALSE] \in [done : BOOLEAN, frame : 0..MaxFrames]
    BY <2>3
  <2>5. /\ rx' \in [Card!Slots -> [done : BOOLEAN, frame : 0..MaxFrames]]
        /\ ~rx'[RX_IDX].done /\ rx'[RX_IDX].frame = rx[RX_IDX].frame
        /\ \A y \in Card!Slots \ {RX_IDX} : rx'[y] = rx[y]
    BY <1>3, <2>3, <2>4
  <2>6. /\ read' \in Seq(0..MaxFrames) /\ Len(read') = Len(read) + 1
        /\ \A k \in 1..Len(read) : read'[k] = read[k]
        /\ read'[Len(read) + 1] = rx[RX_IDX].frame
    BY <1>3, <2>1, <2>3
  <2>7. Card!Unread' = n - 1
    BY <1>4, <2>1, <2>6 DEF Card!Unread
  <2> DEFINE Q(k) == Card!Place(Card!After(RX_IDX), k)
  <2>8. \A k \in 0..(N_DESC - 1) : Q(k) = IF k = N_DESC - 1 THEN P(0) ELSE P(k + 1)
    BY <1>3, <1>6, CardAfter
  <2>9. \A k \in 0..(N_DESC - 1) : rx'[Q(k)].done <=> k < n - 1
    <3> TAKE k \in 0..(N_DESC - 1)
    <3>1. CASE k = N_DESC - 1
      <4>1. Q(k) = RX_IDX /\ ~(k < n - 1)
        BY <1>2, <1>4, <1>6, <2>2, <2>8, <3>1
      <4> QED BY <2>5, <4>1
    <3>2. CASE k # N_DESC - 1
      <4>1. k + 1 \in 0..(N_DESC - 1) /\ k + 1 # 0 /\ 0 \in 0..(N_DESC - 1) /\ (k < n - 1 <=> k + 1 < n)
        BY <1>2, <1>4, <3>2
      <4>2. Q(k) = P(k + 1) /\ P(k + 1) \in Card!Slots
        BY <1>6, <2>8, <3>2, <4>1
      <4>3. P(k + 1) # RX_IDX
        BY <1>6, <4>1
      <4>4. rx[P(k + 1)].done <=> k + 1 < n
        BY <1>5, <4>1
      <4> QED BY <2>5, <4>1, <4>2, <4>3, <4>4
    <3> QED BY <3>1, <3>2
  <2>10. \A k \in 1..(n - 1) : rx'[Q(k - 1)].frame = taken[Len(read') + k]
    <3> TAKE k \in 1..(n - 1)
    <3>1. /\ k - 1 \in 0..(N_DESC - 1) /\ k - 1 # N_DESC - 1 /\ (k - 1) + 1 = k /\ (k + 1) - 1 = k
          /\ k + 1 \in 1..n /\ k \in 0..(N_DESC - 1)
          /\ Len(read') + k = Len(read) + (k + 1)
      <4>1. n \in Int /\ n <= N_DESC /\ N_DESC \in Int /\ k \in Int /\ 1 <= k /\ k <= n - 1
        BY <1>2, <2>2
      <4>2. Len(read) \in Int /\ Len(read') = Len(read) + 1
        BY <1>4, <2>6
      <4> HIDE DEF n
      <4> QED BY <4>1, <4>2
    <3>2. Q(k - 1) = P(k) /\ P(k) \in Card!Slots
      BY <1>6, <2>8, <3>1
    <3>3. rx[P(k)].frame = taken[Len(read) + (k + 1)]
      BY <1>5, <3>1
    <3>4. rx'[P(k)].frame = rx[P(k)].frame
      BY <2>5, <3>2
    <3> QED BY <3>1, <3>2, <3>3, <3>4
  <2>11. \A k \in 1..Len(read') : read'[k] = taken[k]
    <3> TAKE k \in 1..Len(read')
    <3>1. CASE k = Len(read) + 1
      <4>1. 1 \in 1..n /\ 1 - 1 = 0
        BY <2>2
      <4>2. rx[P(0)].frame = taken[Len(read) + 1]
        BY <1>5, <4>1
      <4> QED BY <1>6, <2>6, <3>1, <4>2
    <3>2. CASE k # Len(read) + 1
      <4>1. k \in 1..Len(read)
        BY <1>4, <2>6, <3>2
      <4> QED BY <1>5, <2>6, <4>1
    <3> QED BY <3>1, <3>2
  <2>12. RX_IDX' \in Card!Slots /\ tail' \in Card!Slots
    BY <1>3, <2>1, CardAfter
  <2>13. Card!TypeOK'
    <3>1. Card!Slots' = Card!Slots
      BY DEF Card!Slots
    <3> QED BY <1>1, <2>1, <2>5, <2>6, <2>12, <3>1 DEF Card!TypeOK
  <2>14. \A k : Card!Place(RX_IDX, k)' = Q(k)
    BY <2>1 DEF Card!Place
  <2>15. Card!ReceivedInOrder'
    <3>1. Card!Unread' \in 0..N_DESC
      BY <1>2, <2>2, <2>7
    <3> HIDE DEF n, Q
    <3> QED BY <2>1, <2>7, <2>9, <2>10, <2>11, <2>14, <3>1 DEF Card!ReceivedInOrder
  <2>16. Card!PlacesApart'
    <3>1. head' = Q(n - 1)
      <4>1. n - 1 = N_DESC - 1 => P(n) = P(0)
        BY <1>2, <1>4, <1>6
      <4>2. (n - 1) + 1 = n
        BY <1>4
      <4> QED BY <1>5, <2>1, <2>2, <2>8, <4>1, <4>2
    <3>2. card = "intel" => tail' = Q(N_DESC - 1) /\ n - 1 < N_DESC
      BY <1>2, <1>4, <1>6, <2>1, <2>8
    <3>3. head' = Card!Place(RX_IDX, Card!Unread)'
      BY <2>1, <2>7, <3>1 DEF Card!Place
    <3>4. card' = "intel" => tail' = Card!Place(RX_IDX, N_DESC - 1)' /\ Card!Unread' < N_DESC
      BY <2>1, <2>7, <3>2 DEF Card!Place
    <3> QED BY <1>7, <2>1, <3>3, <3>4 DEF Card!PlacesApart
  <2> QED BY <1>7, <2>1, <2>13, <2>15, <2>16 DEF Card!CardInv, Card!RingsInOrder
<1> QED BY <1>8, <1>9

\* A frame is given to send, the card sends one, or the driver stops waiting.
LEMMA CardSends ==
  ASSUME Card!NicConstants, Card!CardInv, Card!SendIntel \/ Card!SendRealtek \/ Card!Confirm \/ Card!Transmit
  PROVE  Card!CardInv'
<1>1. Card!TypeOK /\ Card!PlacesApart /\ Card!ReceivedInOrder /\ Card!SentInOrder
  BY DEF Card!CardInv, Card!RingsInOrder
<1>2. N_DESC \in Nat \ {0} /\ MaxFrames \in Nat /\ Card!Slots = 0..(N_DESC - 1)
  BY DEF Card!NicConstants, Card!Slots
<1>3. /\ wire \in Seq(0..MaxFrames) /\ sent \in 0..MaxFrames /\ txHead \in Card!Slots /\ TX_IDX \in Card!Slots /\ TDT \in Card!Slots
      /\ tx \in [Card!Slots -> [own : BOOLEAN, frame : 0..MaxFrames]] /\ card \in {"intel", "realtek"}
      /\ stuck \in BOOLEAN /\ Len(wire) \in Nat
  <2>1. wire \in Seq(0..MaxFrames)
    BY <1>1 DEF Card!TypeOK
  <2>2. Len(wire) \in Nat
    BY <2>1
  <2> QED BY <1>1, <2>1, <2>2 DEF Card!TypeOK
<1> DEFINE n == Card!Unsent
           P(k) == Card!Place(txHead, k)
<1>4. n = sent - Len(wire)
  BY DEF Card!Unsent
<1>5. ~stuck => /\ n \in 0..N_DESC /\ \A k \in 0..(N_DESC - 1) : tx[P(k)].own <=> k < n
                /\ \A k \in 1..Len(wire) : wire[k] = k
                /\ \A k \in 1..n : tx[P(k - 1)].frame = Len(wire) + k
                /\ TX_IDX = P(n) /\ (card = "intel" => TDT = TX_IDX)
  BY <1>1 DEF Card!SentInOrder, Card!PlacesApart
<1>6. /\ P(0) = txHead /\ P(N_DESC) = txHead
      /\ \A k \in 0..(N_DESC - 1) : P(k) \in Card!Slots /\ Card!After(P(k)) = P(k + 1)
      /\ \A k, l \in 0..(N_DESC - 1) : P(k) = P(l) => k = l
  <2>1. \A k \in 0..(N_DESC - 1) : k \in 0..N_DESC
    BY <1>2
  <2> QED BY <1>3, <2>1, CardPlace, CardAfter
<1>7. ASSUME UNCHANGED <<card, rx, head, tail, RX_IDX, taken, read>>
      PROVE  /\ Card!ReceivedInOrder' /\ head' = Card!Place(RX_IDX, Card!Unread)'
             /\ card' = "intel" => tail' = Card!Place(RX_IDX, N_DESC - 1)' /\ Card!Unread' < N_DESC
  BY <1>1, <1>7 DEF Card!ReceivedInOrder, Card!PlacesApart, Card!Unread, Card!Place
<1>8. CASE Card!SendIntel \/ Card!SendRealtek
  <2>1. /\ tx' = [tx EXCEPT ![TX_IDX] = [own |-> TRUE, frame |-> sent + 1]]
        /\ stuck' = (stuck \/ tx[TX_IDX].own) /\ sent' = sent + 1 /\ sent < MaxFrames
        /\ TX_IDX' = Card!After(TX_IDX) /\ (IF card = "intel" THEN TDT' = Card!After(TX_IDX) /\ confirm' = TX_IDX
                                           ELSE TDT' = TDT /\ confirm' = confirm)
        /\ UNCHANGED <<card, rx, head, tail, RX_IDX, taken, read, txHead, wire>>
    BY <1>8 DEF Card!SendIntel, Card!SendRealtek, Card!rxVars
  <2>2. [own |-> TRUE, frame |-> sent + 1] \in [own : BOOLEAN, frame : 0..MaxFrames]
    BY <1>2, <1>3, <2>1
  <2>3. /\ tx' \in [Card!Slots -> [own : BOOLEAN, frame : 0..MaxFrames]]
        /\ tx'[TX_IDX].own /\ tx'[TX_IDX].frame = sent + 1
        /\ \A y \in Card!Slots \ {TX_IDX} : tx'[y] = tx[y]
    BY <1>3, <2>1, <2>2
  <2>4. Card!Unsent' = n + 1
    BY <1>3, <1>4, <2>1 DEF Card!Unsent
  <2>5. Card!TypeOK'
    <3>1. Card!Slots' = Card!Slots
      BY DEF Card!Slots
    <3>2. TX_IDX' \in Card!Slots /\ TDT' \in Card!Slots
      BY <1>3, <2>1, CardAfter
    <3>3. confirm' \in Card!Slots \cup {-1} /\ stuck' \in BOOLEAN /\ sent' \in 0..MaxFrames
      <4>1. sent' \in 0..MaxFrames
        BY <1>2, <1>3, <2>1
      <4>2. confirm' \in Card!Slots \cup {-1}
        BY <1>1, <2>1 DEF Card!TypeOK
      <4> QED BY <2>1, <4>1, <4>2
    <3> QED BY <1>1, <2>1, <2>3, <3>1, <3>2, <3>3 DEF Card!TypeOK
  <2>6. ASSUME ~stuck'
        PROVE  /\ n \in 0..(N_DESC - 1) /\ n + 1 \in 0..N_DESC /\ ~stuck /\ TX_IDX = P(n)
               /\ TX_IDX' = P(n + 1) /\ (card = "intel" => TDT' = TX_IDX')
               /\ \A k \in 0..(N_DESC - 1) : tx'[P(k)].own <=> k < n + 1
               /\ \A k \in 1..(n + 1) : tx'[P(k - 1)].frame = Len(wire) + k
    <3>1. ~stuck /\ ~tx[TX_IDX].own /\ TX_IDX = P(n)
      BY <1>5, <2>1, <2>6
    <3>2. n # N_DESC
      <4>1. n = N_DESC => TX_IDX = P(0) /\ 0 \in 0..(N_DESC - 1) /\ 0 < n
        BY <1>2, <1>6, <3>1
      <4> QED BY <1>5, <3>1, <4>1
    <3>3. n \in 0..(N_DESC - 1) /\ n + 1 \in 0..N_DESC
      BY <1>2, <1>5, <3>1, <3>2
    <3>4. TX_IDX' = P(n + 1) /\ (card = "intel" => TDT' = TX_IDX')
      BY <1>6, <2>1, <3>1, <3>3
    <3>5. \A k \in 0..(N_DESC - 1) : tx'[P(k)].own <=> k < n + 1
      <4> TAKE k \in 0..(N_DESC - 1)
      <4>1. CASE k = n
        BY <1>2, <2>3, <3>1, <3>3, <4>1
      <4>2. CASE k # n
        <5>1. tx'[P(k)] = tx[P(k)]
          BY <1>6, <2>3, <3>1, <3>3, <4>2
        <5>2. tx[P(k)].own <=> k < n
          BY <1>5, <3>1
        <5>3. k < n + 1 <=> k < n
          BY <1>2, <3>3, <4>2
        <5> QED BY <5>1, <5>2, <5>3
      <4> QED BY <4>1, <4>2
    <3>6. \A k \in 1..(n + 1) : tx'[P(k - 1)].frame = Len(wire) + k
      <4> TAKE k \in 1..(n + 1)
      <4>1. CASE k = n + 1
        <5>1. k - 1 = n /\ Len(wire) + k = sent + 1
          BY <1>3, <1>4, <3>3, <4>1
        <5> QED BY <2>3, <3>1, <5>1
      <4>2. CASE k # n + 1
        <5>1. k \in 1..n /\ k - 1 \in 0..(N_DESC - 1) /\ k - 1 # n
          BY <1>2, <3>3, <4>2
        <5>2. tx'[P(k - 1)] = tx[P(k - 1)]
          BY <1>6, <2>3, <3>1, <3>3, <5>1
        <5>3. tx[P(k - 1)].frame = Len(wire) + k
          BY <1>5, <3>1, <5>1
        <5> QED BY <5>2, <5>3
      <4> QED BY <4>1, <4>2
    <3> QED BY <3>1, <3>3, <3>4, <3>5, <3>6
  <2>7. Card!SentInOrder'
    <3> SUFFICES ASSUME ~stuck' PROVE Card!SentInOrder'
      BY DEF Card!SentInOrder
    <3>1. Card!Unsent' \in 0..N_DESC /\ \A k \in 1..Len(wire') : wire'[k] = k
      BY <1>5, <2>1, <2>4, <2>6
    <3>2. \A k \in 0..(N_DESC - 1) : tx'[Card!Place(txHead, k)].own <=> k < Card!Unsent'
      BY <2>4, <2>6
    <3>3. \A k \in 1..Card!Unsent' : tx'[Card!Place(txHead, k - 1)].frame = Len(wire) + k
      BY <2>4, <2>6
    <3> QED BY <2>1, <3>1, <3>2, <3>3 DEF Card!SentInOrder, Card!Place
  <2>8. Card!PlacesApart'
    <3>1. ~stuck' => TX_IDX' = Card!Place(txHead, Card!Unsent)' /\ (card' = "intel" => TDT' = TX_IDX')
      BY <2>1, <2>4, <2>6 DEF Card!Place
    <3> QED BY <1>7, <2>1, <3>1 DEF Card!PlacesApart
  <2> QED BY <1>7, <2>1, <2>5, <2>7, <2>8 DEF Card!CardInv, Card!RingsInOrder
<1>9. CASE Card!Confirm
  <2>1. /\ confirm' = -1 /\ (~stuck' => ~stuck) /\ stuck' \in BOOLEAN
        /\ UNCHANGED <<card, rx, head, tail, RX_IDX, taken, read, tx, txHead, TDT, TX_IDX, sent, wire>>
    BY <1>9 DEF Card!Confirm, Card!rxVars
  <2>2. Card!TypeOK'
    BY <1>1, <2>1 DEF Card!TypeOK, Card!Slots
  <2>3. Card!SentInOrder' /\ Card!PlacesApart'
    BY <1>1, <1>7, <2>1 DEF Card!SentInOrder, Card!PlacesApart, Card!Unsent, Card!Place
  <2> QED BY <1>7, <2>1, <2>2, <2>3 DEF Card!CardInv, Card!RingsInOrder
<1>10. CASE Card!Transmit
  <2>1. /\ IF card = "intel" THEN txHead # TDT ELSE tx[txHead].own
        /\ wire' = Append(wire, tx[txHead].frame) /\ tx' = [tx EXCEPT ![txHead].own = FALSE]
        /\ txHead' = Card!After(txHead)
        /\ UNCHANGED <<card, rx, head, tail, RX_IDX, taken, read, TDT, TX_IDX, confirm, sent, stuck>>
    BY <1>10 DEF Card!Transmit, Card!rxVars
  <2>2. tx[txHead] \in [own : BOOLEAN, frame : 0..MaxFrames] /\ tx' = [tx EXCEPT ![txHead] = [tx[txHead] EXCEPT !.own = FALSE]]
    BY <1>3, <2>1
  <2>3. [tx[txHead] EXCEPT !.own = FALSE] \in [own : BOOLEAN, frame : 0..MaxFrames]
    BY <2>2
  <2>4. /\ tx' \in [Card!Slots -> [own : BOOLEAN, frame : 0..MaxFrames]]
        /\ ~tx'[txHead].own
        /\ \A y \in Card!Slots \ {txHead} : tx'[y] = tx[y]
    BY <1>3, <2>2, <2>3
  <2>5. /\ wire' \in Seq(0..MaxFrames) /\ Len(wire') = Len(wire) + 1
        /\ \A k \in 1..Len(wire) : wire'[k] = wire[k]
        /\ wire'[Len(wire) + 1] = tx[txHead].frame
    BY <1>3, <2>1, <2>2
  <2>6. Card!Unsent' = n - 1
    BY <1>3, <1>4, <2>1, <2>5 DEF Card!Unsent
  <2>7. txHead' \in Card!Slots
    BY <1>3, <2>1, CardAfter
  <2>8. Card!TypeOK'
    BY <1>1, <2>1, <2>4, <2>5, <2>7 DEF Card!TypeOK, Card!Slots
  <2> DEFINE Q(k) == Card!Place(Card!After(txHead), k)
  <2>9. \A k \in 0..(N_DESC - 1) : Q(k) = IF k = N_DESC - 1 THEN P(0) ELSE P(k + 1)
    BY <1>3, <1>6, CardAfter
  <2>10. \A k : Card!Place(txHead, k)' = Q(k)
    BY <2>1 DEF Card!Place
  <2>11. ASSUME ~stuck
         PROVE  /\ n - 1 \in 0..N_DESC /\ TX_IDX = Q(n - 1)
                /\ \A k \in 0..(N_DESC - 1) : tx'[Q(k)].own <=> k < n - 1
                /\ \A k \in 1..(n - 1) : tx'[Q(k - 1)].frame = Len(wire') + k
                /\ \A k \in 1..Len(wire') : wire'[k] = k
    <3>1. n > 0
      <4>1. CASE card = "intel"
        BY <1>5, <1>6, <2>1, <2>11, <4>1
      <4>2. CASE card # "intel"
        <5>1. tx[P(0)].own /\ 0 \in 0..(N_DESC - 1)
          BY <1>2, <1>6, <2>1, <4>2
        <5>2. 0 < n
          BY <1>5, <2>11, <5>1
        <5> QED BY <1>5, <2>11, <5>2
      <4> QED BY <4>1, <4>2
    <3>2. n \in 1..N_DESC /\ n - 1 \in 0..(N_DESC - 1) /\ n - 1 \in 0..N_DESC
      BY <1>2, <1>5, <2>11, <3>1
    <3>3. TX_IDX = Q(n - 1)
      <4>1. n - 1 = N_DESC - 1 => P(n) = P(0)
        BY <1>2, <1>6, <3>2
      <4>2. (n - 1) + 1 = n
        BY <3>2
      <4> QED BY <1>5, <2>9, <2>11, <3>2, <4>1, <4>2
    <3>4. \A k \in 0..(N_DESC - 1) : tx'[Q(k)].own <=> k < n - 1
      <4> TAKE k \in 0..(N_DESC - 1)
      <4>1. CASE k = N_DESC - 1
        <5>1. Q(k) = txHead /\ ~(k < n - 1)
          BY <1>2, <1>6, <2>9, <3>2, <4>1
        <5> QED BY <2>4, <5>1
      <4>2. CASE k # N_DESC - 1
        <5>1. k + 1 \in 0..(N_DESC - 1) /\ k + 1 # 0 /\ 0 \in 0..(N_DESC - 1) /\ (k < n - 1 <=> k + 1 < n)
          BY <1>2, <3>2, <4>2
        <5>2. Q(k) = P(k + 1) /\ P(k + 1) \in Card!Slots
          BY <1>6, <2>9, <4>2, <5>1
        <5>3. P(k + 1) # txHead
          BY <1>6, <5>1
        <5>4. tx[P(k + 1)].own <=> k + 1 < n
          BY <1>5, <2>11, <5>1
        <5> QED BY <2>4, <5>1, <5>2, <5>3, <5>4
      <4> QED BY <4>1, <4>2
    <3>5. \A k \in 1..(n - 1) : tx'[Q(k - 1)].frame = Len(wire') + k
      <4> TAKE k \in 1..(n - 1)
      <4>1. /\ k - 1 \in 0..(N_DESC - 1) /\ k - 1 # N_DESC - 1 /\ (k - 1) + 1 = k /\ (k + 1) - 1 = k
            /\ k + 1 \in 1..n /\ k \in 0..(N_DESC - 1) /\ k # 0 /\ 0 \in 0..(N_DESC - 1)
            /\ Len(wire') + k = Len(wire) + (k + 1)
        <5>1. n \in Int /\ n <= N_DESC /\ N_DESC \in Int /\ N_DESC >= 1 /\ k \in Int /\ 1 <= k /\ k <= n - 1
          BY <1>2, <3>2
        <5>2. Len(wire) \in Int /\ Len(wire') = Len(wire) + 1
          BY <1>3, <2>5
        <5> HIDE DEF n
        <5> QED BY <5>1, <5>2
      <4>2. Q(k - 1) = P(k) /\ P(k) \in Card!Slots /\ P(k) # txHead
        BY <1>6, <2>9, <4>1
      <4>3. tx[P(k)].frame = Len(wire) + (k + 1)
        BY <1>5, <2>11, <4>1
      <4>4. tx'[P(k)] = tx[P(k)]
        BY <2>4, <4>2
      <4> QED BY <4>1, <4>2, <4>3, <4>4
    <3>6. \A k \in 1..Len(wire') : wire'[k] = k
      <4> TAKE k \in 1..Len(wire')
      <4>1. CASE k = Len(wire) + 1
        <5>1. 1 \in 1..n /\ 1 - 1 = 0
          BY <3>2
        <5>2. tx[P(0)].frame = Len(wire) + 1
          BY <1>5, <2>11, <5>1
        <5> QED BY <1>6, <2>5, <4>1, <5>2
      <4>2. CASE k # Len(wire) + 1
        <5>1. k \in 1..Len(wire)
          BY <1>3, <2>5, <4>2
        <5> QED BY <1>5, <2>5, <2>11, <5>1
      <4> QED BY <4>1, <4>2
    <3> QED BY <3>2, <3>3, <3>4, <3>5, <3>6
  <2>12. Card!SentInOrder'
    <3> SUFFICES ASSUME ~stuck PROVE Card!SentInOrder'
      BY <2>1 DEF Card!SentInOrder
    <3> HIDE DEF n, Q
    <3> QED BY <2>1, <2>6, <2>10, <2>11 DEF Card!SentInOrder
  <2>13. Card!PlacesApart'
    <3>1. ~stuck' => TX_IDX' = Card!Place(txHead, Card!Unsent)' /\ (card' = "intel" => TDT' = TX_IDX')
      <4> SUFFICES ASSUME ~stuck PROVE TX_IDX' = Card!Place(txHead, Card!Unsent)' /\ (card' = "intel" => TDT' = TX_IDX')
        BY <2>1
      <4>1. TX_IDX' = Q(n - 1)
        BY <2>1, <2>11
      <4>2. Card!Place(txHead, Card!Unsent)' = Q(n - 1)
        BY <2>1, <2>6 DEF Card!Place
      <4> QED BY <1>5, <2>1, <4>1, <4>2
    <3> QED BY <1>7, <2>1, <3>1 DEF Card!PlacesApart
  <2> QED BY <1>7, <2>1, <2>8, <2>12, <2>13 DEF Card!CardInv, Card!RingsInOrder
<1> QED BY <1>8, <1>9, <1>10

LEMMA CardStep ==
  ASSUME Card!NicConstants, Card!CardInv, [Card!Next]_(Card!vars)
  PROVE  Card!CardInv'
<1>1. CASE UNCHANGED Card!vars
  BY <1>1 DEF Card!vars, Card!rxVars, Card!txVars, Card!CardInv, Card!TypeOK, Card!PlacesApart, Card!RingsInOrder,
     Card!ReceivedInOrder, Card!SentInOrder, Card!Unread, Card!Unsent, Card!Place, Card!Slots
<1> QED BY <1>1, CardReceives, CardSends DEF Card!Next, Card!Driver
==============================================================================
