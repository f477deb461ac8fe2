--------------------------------- MODULE Tls ---------------------------------
(* One HTTPS request of the kernel's TLS client (kernel/src/tls.rs,           *)
(* https_request) on a connection that delivers what the server sends in      *)
(* order (module Tcp), and the chain validation it relies on (x509.rs).  A    *)
(* step is one record: sent by the server, read and handled by the client.    *)
(* Handshake messages are cut into records anywhere, change-cipher-specs come *)
(* between them, tickets between the data; a record can be garbled on the     *)
(* way and the connection can be cut after any of them.                       *)
EXTENDS Integers, Sequences, FiniteSets

CONSTANTS Chains,      \* the certificate chains servers present, leaf first
          trust_anchors, \* the embedded roots, in order
          Hosts,       \* names that are asked for
          Times,       \* what the clock can show
          Flight,      \* the pieces of the server's flight: [msg, last]
          Response,    \* the pieces of its response
          ROOM,        \* length of out
          GUARD,       \* records the client reads of the flight
          MaxExtra     \* bound: change-cipher-specs and tickets

VARIABLES host, now, chain,  \* what is asked for, when, and what is presented
          st,       \* "hello", "flight", "app", "done" or "failed"
          hsSent,   \* server: pieces of Flight sent
          apSent,   \* server: pieces of Response sent
          sealed,   \* server: records sealed under its current key
          extra,    \* change-cipher-specs and tickets sent
          seq,      \* srv_seq, then rcv_seq
          hs_acc,   \* pieces not yet part of a whole message
          transcript, \* whole messages, as the client has them
          guard,    \* records read of the flight
          sentReq,  \* the request has been sent
          out,      \* what the caller gets
          broken    \* the connection was cut or a record garbled

vars == <<host, now, chain, st, hsSent, apSent, sealed, extra, seq, hs_acc,
          transcript, guard, sentReq, out, broken>>

------------------------------------------------------------------------------
(* x509.rs.  A certificate names its subject and issuer, carries a key, the   *)
(* key it was signed by, the hosts of its SAN and its validity window.        *)
(* Whether the server holds the leaf's key is not asked: CertificateVerify    *)
(* goes into the transcript and is not looked into.                           *)
verify_sig(c, issuer) == c.by = issuer.key
check_validity(c) == c.from <= now /\ now <= c.to
hostname_ok(c) == host \in c.names
same_anchor(a, c) == a.subject = c.subject /\ a.key = c.key

\* The walk from the leaf: the first certificate that is an anchor ends it; a
\* link that does not hold ends it; at the top the anchor that was not sent is
\* looked up by its name, and the first of that name is the only one tried.
Anchored(c) == \E k \in 1..Len(trust_anchors) : same_anchor(trust_anchors[k], c)
LinkHolds(i) == chain[i].issuer = chain[i + 1].subject /\ verify_sig(chain[i], chain[i + 1])
TopHolds(c) ==
    \E k \in 1..Len(trust_anchors) :
      /\ trust_anchors[k].subject = c.issuer /\ verify_sig(c, trust_anchors[k])
      /\ \A j \in 1..(k - 1) : trust_anchors[j].subject # c.issuer

\* Seeded fault: the link to the anchor is not verified.
validate_chainButTop ==
    /\ chain # <<>>
    /\ hostname_ok(chain[1])
    /\ \A i \in 1..Len(chain) : check_validity(chain[i])
    /\ \E i \in 1..Len(chain) :
         /\ Anchored(chain[i]) \/ (i = Len(chain) /\ TopHolds(chain[i]))
         /\ \A j \in 1..(i - 1) : ~Anchored(chain[j]) /\ (j = i - 1 \/ LinkHolds(j))

validate_chain ==
    /\ chain # <<>>
    /\ hostname_ok(chain[1])
    /\ \A i \in 1..Len(chain) : check_validity(chain[i])
    /\ \E i \in 1..Len(chain) :
         /\ Anchored(chain[i]) \/ (i = Len(chain) /\ TopHolds(chain[i]))
         /\ \A j \in 1..(i - 1) : ~Anchored(chain[j]) /\ LinkHolds(j)

------------------------------------------------------------------------------
Init ==
    /\ host \in Hosts /\ now \in Times /\ chain \in Chains
    /\ st = "hello" /\ hsSent = 0 /\ apSent = 0 /\ sealed = 0 /\ extra = 0
    /\ seq = 0 /\ hs_acc = <<>> /\ transcript = <<>> /\ guard = 0
    /\ sentReq = FALSE /\ out = <<>> /\ broken = FALSE

\* open_record: the record opens when both sides count alike.
Opens == seq = sealed

\* The connection is closed and the call returns: with what was written, or
\* with nothing.
Ended == IF out # <<>> THEN "done" ELSE "failed"

\* A record the client does not look into between the others.
ChangeCipherSpec ==
    /\ st \in {"hello", "flight", "app"} /\ extra < MaxExtra
    /\ extra' = extra + 1
    /\ guard' = IF st = "flight" THEN guard + 1 ELSE guard
    /\ UNCHANGED <<host, now, chain, st, hsSent, apSent, sealed, seq, hs_acc,
                   transcript, sentReq, out, broken>>

\* The ServerHello is one record by itself.
ServerHello ==
    /\ st = "hello"
    /\ st' = "flight" /\ transcript' = <<"SH">>
    /\ UNCHANGED <<host, now, chain, hsSent, apSent, sealed, extra, seq, hs_acc,
                   guard, sentReq, out, broken>>

\* The messages that are whole in pieces p, and the pieces left over.
Ends(p) == {i \in 1..Len(p) : p[i].last}
Whole(p) == LET ends == Ends(p) IN
            [k \in 1..Cardinality(ends) |->
               p[CHOOSE i \in ends : Cardinality({j \in ends : j < i}) = k - 1].msg]
Rest(p) == LET ends == Ends(p)
               top == IF ends = {} THEN 0 ELSE CHOOSE i \in ends : \A j \in ends : j <= i
           IN SubSeq(p, top + 1, Len(p))

\* A record of the flight with its next n pieces.  The Finished message must
\* match the transcript; then the chain is validated, the counter starts again
\* for the application keys and the request is sent.
FlightRecord(n) ==
    LET p == hs_acc \o SubSeq(Flight, hsSent + 1, hsSent + n)
        msgs == Whole(p)
        finished == \E i \in 1..Len(msgs) : msgs[i] = "FIN" IN
    /\ st = "flight" /\ hsSent + n <= Len(Flight)
    /\ hsSent' = hsSent + n /\ guard' = guard + 1
    /\ hs_acc' = Rest(p) /\ transcript' = transcript \o msgs
    /\ IF guard' > GUARD \/ ~Opens \/ (finished /\ ~validate_chain)
         THEN st' = "failed" /\ UNCHANGED <<sealed, seq, sentReq>>
         ELSE /\ st' = IF finished THEN "app" ELSE "flight"
              /\ sealed' = IF finished THEN 0 ELSE sealed + 1
              /\ seq' = IF finished THEN 0 ELSE seq + 1
              /\ sentReq' = finished
    /\ UNCHANGED <<host, now, chain, apSent, extra, out, broken>>

\* A record after the handshake: n pieces of the response, as much as there is
\* room for; or a ticket, which is counted and ignored.
AppRecord(n) ==
    LET take == IF n <= ROOM - Len(out) THEN n ELSE ROOM - Len(out) IN
    /\ st = "app"
    /\ IF n = 0 THEN extra < MaxExtra /\ extra' = extra + 1
                ELSE apSent + n <= Len(Response) /\ UNCHANGED extra
    /\ apSent' = apSent + n /\ sealed' = sealed + 1
    /\ IF ~Opens
         THEN st' = Ended /\ UNCHANGED <<seq, out>>
         ELSE /\ seq' = seq + 1
              /\ out' = out \o SubSeq(Response, apSent + 1, apSent + take)
              /\ st' = IF n > 0 /\ Len(out') >= ROOM THEN "done" ELSE "app"
    /\ UNCHANGED <<host, now, chain, hsSent, hs_acc, transcript, guard, sentReq,
                   broken>>

\* The close-notify alert after the whole response, or the end of the stream.
CloseNotify ==
    /\ st = "app" /\ apSent = Len(Response)
    /\ st' = Ended
    /\ UNCHANGED <<host, now, chain, hsSent, apSent, sealed, extra, seq, hs_acc,
                   transcript, guard, sentReq, out, broken>>

\* The connection is cut, times out or delivers a record that does not open, or
\* the server sends an alert: what was written so far is the result.
Break ==
    /\ st \in {"hello", "flight", "app"}
    /\ broken' = TRUE
    /\ st' = IF st = "app" THEN Ended ELSE "failed"
    /\ UNCHANGED <<host, now, chain, hsSent, apSent, sealed, extra, seq, hs_acc,
                   transcript, guard, sentReq, out>>

Next == \/ ChangeCipherSpec \/ ServerHello \/ CloseNotify \/ Break
        \/ \E n \in 1..Len(Flight) : FlightRecord(n)
        \/ \E n \in 0..Len(Response) : AppRecord(n)

Spec == Init /\ [][Next]_vars

------------------------------------------------------------------------------
TypeOK ==
    /\ st \in {"hello", "flight", "app", "done", "failed"}
    /\ hsSent \in 0..Len(Flight) /\ apSent \in 0..Len(Response)
    /\ sealed \in Nat /\ seq \in Nat /\ guard \in Nat /\ extra \in 0..MaxExtra
    /\ sentReq \in BOOLEAN /\ broken \in BOOLEAN

\* Reference: the key of the leaf is vouched for by signatures that begin at an
\* embedded root, all of them in certificates the server presented, none of
\* which is out of date, and the leaf names the host.
Roots == {trust_anchors[k].key : k \in 1..Len(trust_anchors)}
Vouched ==
    /\ \E n \in 1..Len(chain) :
         /\ chain[n].key \in Roots \/ chain[n].by \in Roots
         /\ \A i \in 1..(n - 1) : chain[i].by = chain[i + 1].key
    /\ host \in chain[1].names
    /\ \A i \in 1..Len(chain) : now \in chain[i].from..chain[i].to

\* The chain as a server is given it by its issuers, with or without the root.
Proper ==
    /\ \A i \in 1..(Len(chain) - 1) : /\ chain[i].issuer = chain[i + 1].subject
                                      /\ chain[i].by = chain[i + 1].key
    /\ LET top == chain[Len(chain)] IN
         \E k \in 1..Len(trust_anchors) :
           \/ top = trust_anchors[k]
           \/ top.issuer = trust_anchors[k].subject /\ top.by = trust_anchors[k].key
    /\ host \in chain[1].names
    /\ \A i \in 1..Len(chain) : now \in chain[i].from..chain[i].to

\* The request leaves only after the whole flight was taken, message by message
\* as the server sent it, from a server that presented a chain whose first key
\* a root vouches for (that it holds that key the code does not ask); and a
\* server with a proper chain is refused only when the connection broke,
\* however it cut its flight and its response into records.
HandshakeIsRight ==
    /\ sentReq => /\ chain # <<>> /\ Vouched
                  /\ transcript = <<"SH">> \o Whole(Flight)
    /\ st = "failed" /\ ~broken /\ chain # <<>> => ~Proper \/ Response = <<>>

\* What the caller gets is the beginning of the response, records in order,
\* and all of it that there is room for unless the connection broke.
ResponseInOrder ==
    /\ out = SubSeq(Response, 1, Len(out))
    /\ st = "done" /\ ~broken =>
         Len(out) = ROOM \/ Len(out) = Len(Response)

------------------------------------------------------------------------------
(* What is proved of it, in KernelParts.                                      *)
(* The flight ends with the Finished message and fits the records the client  *)
(* reads; there is room for some of the response.                             *)
Message == {"SH", "EE", "CERT", "CV", "FIN"}
Pieces == [msg : Message, last : BOOLEAN]
\* No two of the embedded roots have the same name.
RootsNamed == \A j, k \in 1..Len(trust_anchors) : trust_anchors[j].subject = trust_anchors[k].subject => j = k
TlsConstants ==
    /\ RootsNamed
    /\ \A c \in Chains : \/ c = <<>>
                         \/ /\ Len(c) \in Nat \ {0}
                            /\ \A k \in 1..Len(c) : c[k].from \in Int /\ c[k].to \in Int
    /\ Times \subseteq Int
    /\ Flight \in Seq(Pieces)
    /\ \A k \in 1..Len(Flight) : Flight[k] = [msg |-> "FIN", last |-> TRUE] => k = Len(Flight)
    /\ Response \in Seq(Int) /\ ROOM \in Nat \ {0} /\ MaxExtra \in Nat
    /\ GUARD \in Nat /\ Len(Flight) + MaxExtra <= GUARD

\* Both sides have counted alike, and the guard no more than there was to read.
Counted == /\ sealed = seq /\ guard <= hsSent + extra
           /\ chain \in Chains /\ now \in Times

\* The client has the messages that are whole, and holds back the pieces after
\* the last of them.
FlightHeld ==
    /\ transcript = <<"SH">> \o Whole(SubSeq(Flight, 1, hsSent))
    /\ \E t \in 0..hsSent : /\ hs_acc = SubSeq(Flight, t + 1, hsSent)
                            /\ \A k \in (t + 1)..hsSent : ~Flight[k].last

AsFarAs ==
    /\ st = "hello" => hsSent = 0 /\ hs_acc = <<>>
    /\ st \in {"hello", "flight"} => apSent = 0 /\ out = <<>> /\ ~sentReq
    /\ st = "flight" => FlightHeld
    /\ st = "app" => sentReq /\ Len(out) = apSent /\ apSent < ROOM
    /\ sentReq => validate_chain /\ transcript = <<"SH">> \o Whole(Flight)
    /\ st = "failed" /\ ~broken => ~validate_chain \/ Response = <<>>

TlsInv == TypeOK /\ Counted /\ AsFarAs /\ ResponseInOrder
==============================================================================
