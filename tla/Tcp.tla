--------------------------------- MODULE Tcp ---------------------------------
(* The kernel's TCP client (kernel/src/net.rs): the one-shot fetch           *)
(* tcp_http_get ("http") and the connection TcpConn under the TLS client     *)
(* ("tls"), with the servers and the network they talk through.  Calls are   *)
(* made one after another; the frames of an earlier call can still arrive    *)
(* during a later one, because parse_tcp checks only our own, fixed, port.   *)
EXTENDS Integers, Sequences, FiniteSets

CONSTANTS Conns,      \* connections are numbered 1..Conns, one server each
          Size,       \* bytes in every server's response
          Gap,        \* distance between the servers' initial sequence numbers,
                      \* more than Size + 2
          Mss,        \* bytes in a full segment
          Window,     \* bytes a server sends ahead of the acknowledgements
          ReqParts,   \* segments a request of TcpConn::send takes
          Room,       \* room in the buffer of the one-shot fetch
          MaxFlight   \* bound: frames a server or the network adds to the queue

Servers == 1..Conns
Kinds == {"http", "tls"}

VARIABLES mode,       \* "inorder": nothing lost or repeated (SLIRP); or "lossy"
          conn,       \* the current or last connection, 0 before the first
          kind,       \* which client runs it
          phase,      \* where the client's code is
          rcv,        \* rcv_nxt / TcpConn.rcv
          reqSent,    \* the request of this connection has been sent
          pendingFin, \* TcpConn.pending_fin
          closed,     \* TcpConn.closed
          got,        \* the bytes handed to the caller on this connection
          result,     \* result[c]: how connection c ended
          srv,        \* srv[c]: the server's side of connection c
          toC, toS    \* frames on their way to the client and to the servers

client == <<conn, kind, phase, rcv, reqSent, pendingFin, closed, got, result>>
vars == <<mode, client, srv, toC, toS>>

------------------------------------------------------------------------------
(* Sequence numbers.  A server's byte i has number Isn(s) + i, its SYN       *)
(* Isn(s), its FIN Isn(s) + Size + 1.  Our own numbers are the fixed ones of *)
(* the two clients, so an acknowledgement of our SYN names the kind only.    *)
Isn(s) == s * Gap
FinSeq(s) == Isn(s) + Size + 1
Byte(s, i) == <<s, i>>

\* Seeded fault: the last byte of a segment is not copied.
PayloadShort(s, q, n) == [j \in 1..(n - 1) |-> Byte(s, q - Isn(s) + j - 1)]

\* The payload of a segment of n bytes of server s that starts at number q.
Payload(s, q, n) == [j \in 1..n |-> Byte(s, q - Isn(s) + j - 1)]

FromServer(s, syn, fin, rst, seq, ackOf, len) ==
    [src |-> s, syn |-> syn, fin |-> fin, rst |-> rst, seq |-> seq,
     ackOf |-> ackOf, len |-> len]

\* build_tcp: what a frame of ours says to the server of connection c.
ToServer(c, what, ack, part) ==
    [dst |-> c, what |-> what, ack |-> ack, part |-> part]

\* Seeded fault: the last part is not sent.
RequestShort(c, ack, n) == [p \in 1..(n - 1) |-> ToServer(c, "req", ack, p)]

\* TcpConn::send: the request, cut into segments.
Request(c, ack, n) == [p \in 1..n |-> ToServer(c, "req", ack, p)]

Without(q, i) == SubSeq(q, 1, i - 1) \o SubSeq(q, i + 1, Len(q))

\* The frames that can reach the client next: the oldest, or any of those in
\* flight when the network does not keep their order.
Arrivals(q) == {i \in 1..Len(q) : mode = "lossy" \/ i = 1}

Smaller(a, b) == IF a < b THEN a ELSE b
Larger(a, b) == IF a < b THEN b ELSE a

------------------------------------------------------------------------------
Init ==
    /\ mode \in {"inorder", "lossy"}
    /\ conn = 0 /\ kind = "http" /\ phase = "idle"
    /\ rcv = 0 /\ reqSent = FALSE /\ pendingFin = FALSE /\ closed = FALSE
    /\ got = <<>>
    /\ result = [c \in Servers |-> "none"]
    /\ srv = [c \in Servers |-> [st |-> "listen", k |-> "http", una |-> 0,
                                 nxt |-> 0, req |-> 0, parts |-> 0]]
    /\ toC = <<>> /\ toS = <<>>

\* The client's call returns r.
Return(r) == /\ result' = [result EXCEPT ![conn] = r]
             /\ phase' = "idle"

(* SYN: the first segment of tcp_http_get and of TcpConn::connect.           *)
Connect(k) ==
    /\ phase = "idle" /\ conn < Conns
    /\ conn' = conn + 1 /\ kind' = k /\ phase' = "syn"
    /\ rcv' = 0 /\ reqSent' = FALSE /\ pendingFin' = FALSE /\ closed' = FALSE
    /\ got' = <<>>
    /\ toS' = Append(toS, ToServer(conn + 1, "syn", k, 1))
    /\ UNCHANGED <<mode, result, srv, toC>>

\* The loop that waits for the SYN-ACK looks at frame i.  Any RST refuses; a
\* SYN-ACK is taken when it acknowledges this kind's number, whoever sent it.
SynAck(i) ==
    LET f == toC[i] IN
    /\ phase = "syn" /\ i \in Arrivals(toC)
    /\ toC' = Without(toC, i)
    /\ IF f.rst THEN
         /\ Return("refused")
         /\ UNCHANGED <<rcv, reqSent, toS>>
       ELSE IF f.syn /\ f.ackOf = kind THEN
         /\ rcv' = f.seq + 1
         /\ toS' = toS \o <<ToServer(conn, "ack", f.seq + 1, 1)>>
                       \o Request(conn, f.seq + 1, IF kind = "http" THEN 1 ELSE 0)
         /\ reqSent' = (kind = "http")
         /\ phase' = (IF kind = "http" THEN "recv" ELSE "ready")
         /\ UNCHANGED result
       ELSE UNCHANGED <<rcv, reqSent, phase, result, toS>>
    /\ UNCHANGED <<mode, conn, kind, pendingFin, closed, got, srv>>

\* The poll budget of the handshake or of the receive loop runs out.  The
\* one-shot fetch returns what it has; recv answers None.
Timeout ==
    /\ phase \in {"syn", "recv"}
    /\ Return("timeout")
    /\ UNCHANGED <<mode, conn, kind, rcv, reqSent, pendingFin, closed, got, srv,
                   toC, toS>>

(* TcpConn::send, once per connection.                                       *)
Send ==
    /\ phase = "ready" /\ ~reqSent
    /\ reqSent' = TRUE
    /\ toS' = toS \o Request(conn, rcv, ReqParts)
    /\ UNCHANGED <<mode, conn, kind, phase, rcv, pendingFin, closed, got, result,
                   srv, toC>>

\* TcpConn::recv is called: a FIN that came with the last data ends the
\* connection at once, otherwise the call polls.
RecvCall ==
    /\ phase = "ready" /\ reqSent
    /\ IF pendingFin
         THEN pendingFin' = FALSE /\ closed' = TRUE /\ Return("eof")
         ELSE phase' = "recv" /\ UNCHANGED <<pendingFin, closed, result>>
    /\ UNCHANGED <<mode, conn, kind, rcv, reqSent, got, srv, toC, toS>>

\* Seeded fault: bytes beyond a gap are taken.
InOrderFrom(f) == f.seq >= rcv

\* The segment that is due.
InOrder(f) == f.seq = rcv

\* One frame seen by the polling loop of TcpConn::recv.
Recv(i) ==
    LET f == toC[i]
        inOrder == InOrder(f)
        next == rcv + f.len + (IF f.fin THEN 1 ELSE 0)
        answer == toS' = Append(toS, ToServer(conn, "ack", next, 1)) IN
    /\ phase = "recv" /\ kind = "tls" /\ i \in Arrivals(toC)
    /\ toC' = Without(toC, i)
    /\ CASE f.rst ->
              closed' = TRUE /\ Return("reset") /\ UNCHANGED <<rcv, pendingFin, got, toS>>
         [] ~f.rst /\ f.len > 0 /\ inOrder ->
              /\ got' = got \o Payload(f.src, f.seq, f.len)
              /\ rcv' = next /\ answer
              /\ pendingFin' = (pendingFin \/ f.fin)
              /\ phase' = "ready"
              /\ UNCHANGED <<closed, result>>
         [] ~f.rst /\ f.len = 0 /\ f.fin /\ inOrder ->
              /\ rcv' = next /\ answer
              /\ closed' = TRUE /\ Return("eof")
              /\ UNCHANGED <<pendingFin, got>>
         [] OTHER -> UNCHANGED <<rcv, pendingFin, closed, got, result, phase, toS>>
    /\ UNCHANGED <<mode, conn, kind, reqSent, srv>>

\* One frame seen by the receive loop of tcp_http_get: data in order is copied
\* while there is room and acknowledged; a FIN ends the call wherever it lies
\* in the sequence; a RST is not looked at.
HttpRecv(i) ==
    LET f == toC[i]
        data == f.len > 0 /\ InOrder(f)
        take == IF data THEN Smaller(f.len, Room - Len(got)) ELSE 0
        next == IF data THEN rcv + f.len ELSE rcv
        acks == (IF data THEN <<ToServer(conn, "ack", next, 1)>> ELSE <<>>)
                \o (IF f.fin THEN <<ToServer(conn, "ack", next + 1, 1),
                                    ToServer(conn, "fin", next + 1, 1)>>
                             ELSE <<>>) IN
    /\ phase = "recv" /\ kind = "http" /\ i \in Arrivals(toC)
    /\ toC' = Without(toC, i)
    /\ got' = got \o Payload(f.src, f.seq, take)
    /\ rcv' = next + (IF f.fin THEN 1 ELSE 0)
    /\ toS' = toS \o acks
    /\ IF f.fin THEN Return("eof") ELSE UNCHANGED <<result, phase>>
    /\ UNCHANGED <<mode, conn, kind, reqSent, pendingFin, closed, srv>>

\* TcpConn::close, called by https_request when it has read enough.
Close ==
    /\ phase = "ready"
    /\ closed' = TRUE /\ Return("closed")
    /\ toS' = (IF closed THEN toS ELSE Append(toS, ToServer(conn, "fin", rcv, 1)))
    /\ UNCHANGED <<mode, conn, kind, rcv, reqSent, pendingFin, got, srv, toC>>

Client == \/ \E k \in Kinds : Connect(k)
          \/ \E i \in 1..Len(toC) : SynAck(i) \/ Recv(i) \/ HttpRecv(i)
          \/ Send \/ RecvCall \/ Timeout \/ Close

------------------------------------------------------------------------------
(* The servers and the network, which are not code of the repository.        *)

\* A segment of server s from its next unsent byte; with the last bytes it may
\* send its FIN.
Segment(s, q, fin) ==
    LET n == Smaller(Mss, FinSeq(s) - q) IN
    FromServer(s, FALSE, fin /\ q + n = FinSeq(s), FALSE, q, "none", n)

SegEnd(f) == f.seq + f.len + (IF f.fin THEN 1 ELSE 0)

SrvSend(s, fin) ==
    LET f == Segment(s, srv[s].nxt, fin) IN
    /\ srv[s].st = "established" /\ srv[s].req = srv[s].parts
    /\ srv[s].nxt <= FinSeq(s)
    /\ srv[s].nxt < srv[s].una + Window
    /\ Len(toC) < MaxFlight
    /\ f.len > 0 \/ f.fin
    /\ toC' = Append(toC, f)
    /\ srv' = [srv EXCEPT ![s].nxt = SegEnd(f)]
    /\ UNCHANGED <<mode, client, toS>>

\* The retransmission timer of a server whose frames may be lost.
Resend(s, fin) ==
    LET old == srv[s].una
        f == CASE srv[s].st = "synrcvd" ->
                    FromServer(s, TRUE, FALSE, FALSE, Isn(s), srv[s].k, 0)
               [] OTHER -> Segment(s, old, fin) IN
    /\ mode = "lossy" /\ Len(toC) < MaxFlight
    /\ \/ srv[s].st = "synrcvd"
       \/ srv[s].st = "established" /\ old < srv[s].nxt /\ (f.len > 0 \/ f.fin)
    /\ toC' = Append(toC, f)
    /\ srv' = [srv EXCEPT ![s].nxt = Larger(@, SegEnd(f))]
    /\ UNCHANGED <<mode, client, toS>>

\* A server takes a frame of ours.  An acknowledgement of a number it did not
\* use is answered with a RST.
SrvTake ==
    LET g == Head(toS)
        s == g.dst
        t == srv[s]
        reset == FromServer(s, FALSE, FALSE, TRUE, 0, "none", 0) IN
    /\ toS # <<>>
    /\ toS' = Tail(toS)
    /\ CASE g.what = "syn" /\ t.st = "listen" ->
              /\ srv' = [srv EXCEPT ![s] = [st |-> "synrcvd", k |-> g.ack,
                           una |-> Isn(s), nxt |-> Isn(s) + 1, req |-> 0,
                           parts |-> IF g.ack = "tls" THEN ReqParts ELSE 1]]
              /\ toC' = Append(toC, FromServer(s, TRUE, FALSE, FALSE, Isn(s), g.ack, 0))
         [] g.what # "syn" /\ t.st = "synrcvd" /\ g.ack # Isn(s) + 1 ->
              /\ srv' = [srv EXCEPT ![s].st = "dead"]
              /\ toC' = Append(toC, reset)
         [] g.what # "syn" /\ (\/ t.st = "established"
                               \/ t.st = "synrcvd" /\ g.ack = Isn(s) + 1) ->
              /\ srv' = [srv EXCEPT ![s].st = "established",
                           ![s].una = IF g.ack <= t.nxt THEN Larger(@, g.ack) ELSE @,
                           ![s].req = IF g.what = "req" /\ g.part = @ + 1 THEN @ + 1 ELSE @]
              /\ UNCHANGED toC
         [] OTHER -> UNCHANGED <<srv, toC>>
    /\ UNCHANGED <<mode, client>>

\* A server gives up on a connection and resets it.
Abort(s) ==
    /\ srv[s].st \in {"synrcvd", "established"} /\ Len(toC) < MaxFlight
    /\ srv' = [srv EXCEPT ![s].st = "dead"]
    /\ toC' = Append(toC, FromServer(s, FALSE, FALSE, TRUE, srv[s].nxt, "none", 0))
    /\ UNCHANGED <<mode, client, toS>>

Lose == /\ mode = "lossy"
        /\ \/ \E i \in 1..Len(toC) : toC' = Without(toC, i) /\ UNCHANGED toS
           \/ toS # <<>> /\ toS' = Tail(toS) /\ UNCHANGED toC
        /\ UNCHANGED <<mode, client, srv>>

World == \/ \E s \in Servers, fin \in BOOLEAN : SrvSend(s, fin) \/ Resend(s, fin)
         \/ SrvTake
         \/ \E s \in Servers : Abort(s)
         \/ Lose

Next == Client \/ World

\* The client's loops run, frames arrive, and a server sends what it may; that
\* a poll budget runs out or a server aborts is never promised.
Poll == \E i \in 1..Len(toC) : SynAck(i) \/ Recv(i) \/ HttpRecv(i)
SrvSends(s) == \E fin \in BOOLEAN : SrvSend(s, fin)
Fairness ==
    /\ WF_vars(Poll) /\ WF_vars(Send) /\ WF_vars(RecvCall)
    /\ WF_vars(SrvTake)
    /\ \A s \in Servers : WF_vars(SrvSends(s))

Spec == Init /\ [][Next]_vars /\ Fairness

------------------------------------------------------------------------------
TypeOK ==
    /\ mode \in {"inorder", "lossy"} /\ conn \in 0..Conns /\ kind \in Kinds
    /\ phase \in {"idle", "syn", "ready", "recv"}
    /\ rcv \in Nat
    /\ reqSent \in BOOLEAN /\ pendingFin \in BOOLEAN /\ closed \in BOOLEAN
    /\ got \in Seq(Servers \X (1..Size))
    /\ result \in [Servers -> {"none", "refused", "timeout", "eof", "reset", "closed"}]

\* No earlier call can have left frames behind that this one could take.
CleanStart == /\ mode = "inorder"
              /\ \A c \in Servers : c < conn => result[c] \in {"refused", "eof"}

\* No byte is acknowledged that the caller was not given, except the ones the
\* one-shot fetch had no room for: what server s believes was read was read.
\* The one-shot fetch keeps this only where its comment places it: it takes a
\* FIN for the next byte wherever it lies.
AckedWasRead ==
    \A s \in Servers :
        conn = s /\ srv[s].una > Isn(s) + 1 /\ (kind = "tls" \/ CleanStart) =>
            LET acked == Smaller(srv[s].una - Isn(s) - 1, Size) IN
            Len(got) >= (IF kind = "http" THEN Smaller(acked, Room) ELSE acked)

\* How a connection that ended looks to the caller who trusts its result: the
\* end of a TcpConn at a FIN is the end of the response; that of the one-shot
\* fetch only where no frame is lost or left over, as its comment says.
EndSeen ==
    CASE conn = 0 -> "none"
      [] conn > 0 /\ result[conn] = "none" -> "open"
      [] conn > 0 /\ result[conn] = "eof" /\ (kind = "tls" \/ CleanStart) -> "complete"
      [] OTHER -> "cut"

\* The client hands its callers a byte stream: ByteStream!Spec.
Stream == INSTANCE ByteStream WITH
              out <- got, end <- EndSeen,
              room <- IF kind = "http" THEN Room ELSE Size
ImplementsStream == Stream!Spec

\* Over a network that loses nothing, after calls that read to the end, every
\* fetch comes to an end by itself, unless the server resets it: no
\* acknowledgement is missing that would keep the server waiting.
Waits(c) == conn = c /\ phase \in {"syn", "recv"} /\ CleanStart
Over(c) == result[c] # "none" \/ srv[c].st = "dead" \/ phase = "ready"
FetchEnds == \A c \in Servers : Waits(c) ~> Over(c)
==============================================================================
