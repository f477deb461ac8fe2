--------------------------------- MODULE Web ---------------------------------
(* A page, from the address bar of the browser to the wire: the browser       *)
(* (desktop-metal/src/app.rs), the fetch call of the kernel (net.rs http_get, *)
(* with name resolution and redirects) and the TLS client (tls.rs).  Each     *)
(* poll loop of the kernel is one step: it ends with the frame it waited for  *)
(* or with its timeout.  What TCP itself does is module Tcp.                  *)
EXTENDS Integers, Sequences, FiniteSets

CONSTANTS Hosts,     \* names that resolve, each to a server of its own
          Honest,    \* those whose server presents its own certificate and no other's
          Search,    \* the host of type-to-search, one of Hosts
          NoHost,    \* what a host name is when it resolves to nothing
          Paths,     \* paths that addresses are told apart by
          Typed,     \* addresses the user types
          MaxRedir,  \* MAX_REDIR
          MaxHistory \* bound on the history list

VARIABLES link,     \* how far net::init got: NET_UP and DNS_MAC at its end
          trust,    \* LAST_FETCH_TRUST
          late,     \* names whose answer arrives after its query gave up
          call,     \* the fetch in progress
          bar,      \* the address bar
          mode, security,   \* Browser.mode, Browser.security
          shown,    \* the page on screen: name asked for, server, the name of its
                    \* certificate, transport
          history, fwd,     \* Browser.history, Browser.fwd
          edited    \* the bar is not what history has last: typed, or a local page

kernel == <<link, trust, late, call>>
browser == <<bar, mode, security, shown, history, fwd, edited>>
vars == <<kernel, browser>>

------------------------------------------------------------------------------
(* Addresses.  "broken" stands for what resolve_href makes of a relative      *)
(* link when the bar holds a scheme: "https:/path", which names no host.      *)
Address(scheme, host, path) == [kind |-> "url", scheme |-> scheme, host |-> host,
                                path |-> path]
Words == [kind |-> "words", scheme |-> "none", host |-> NoHost, path |-> "/"]
Broken == [kind |-> "broken", scheme |-> "none", host |-> NoHost, path |-> "/"]
Local == [kind |-> "local", scheme |-> "none", host |-> NoHost, path |-> "/"]

Schemes == {"none", "http", "https"}
Absolute == {Address(s, h, p) : s \in Schemes, h \in Hosts, p \in Paths}
Empty == [kind |-> "local", scheme |-> "none", host |-> NoHost, path |-> ""]
Home == Address("none", Search, "/")
Addresses == Absolute \cup {Words, Broken, Local, Empty}

\* What the server's Location header or a link can be.
Relative(p) == [kind |-> "relative", scheme |-> "none", host |-> NoHost, path |-> p]
Targets == {a \in Absolute : a.scheme # "none"} \cup {Relative(p) : p \in Paths}

Names == Hosts \cup {NoHost}
NoPage == [asked |-> NoHost, from |-> NoHost, named |-> NoHost, via |-> "none"]

Idle == [st |-> "idle", asked |-> NoHost, path |-> "/", ip |-> NoHost, hop |-> 0,
         tls |-> FALSE, cert |-> NoHost, sent |-> FALSE, got |-> FALSE]

Init ==
    /\ link = "probed" /\ trust = -1 /\ late = {} /\ call = Idle
    /\ bar = Home /\ mode = "static" /\ security = "none" /\ shown = NoPage
    /\ history = <<>> /\ fwd = <<>> /\ edited = FALSE

------------------------------------------------------------------------------
(* net::init, at boot: the gateway is resolved, pinged and asked for a lease, *)
(* then the name server is resolved.  Each waits for its reply or gives up;   *)
(* only the gateway is needed to go on.                                       *)
Step(from, to) == /\ link = from /\ link' \in to
                  /\ UNCHANGED <<trust, late, call, browser>>

\* arp_resolve of the gateway: without it the network stays down.
ArpGateway == Step("probed", {"gateway", "down"})

\* icmp_ping: its result is only logged.
Ping == Step("gateway", {"pinged"})

\* DISCOVER, OFFER, REQUEST, ACK; the address leased is only logged.
Dhcp == Step("pinged", {"lease", "nolease"})

\* arp_resolve of the name server: without it no fetch ever starts.
ArpDns == \E from \in {"lease", "nolease"} : Step(from, {"dns", "nodns"})

Booted == link \in {"dns", "nodns", "down"}

(* The fetch call.  dns_resolve takes the first answer that arrives: the      *)
(* transaction number is fixed, so also the late one of an earlier query.     *)
Asking(host, path, hop, tls) ==
    [Idle EXCEPT !.st = "dns", !.asked = host, !.path = path, !.hop = hop, !.tls = tls]

\* http_get and https_get before the first frame: a host of the target, over
\* plain HTTP or TLS.  The trust of the last fetch is forgotten at once.
Fetch(target) ==
    IF link = "dns"
      THEN call' = Asking(target.host, target.path, 0, target.scheme = "https")
      ELSE call' = [Idle EXCEPT !.st = "failed"]

Fail == call' = [Idle EXCEPT !.st = "failed"]

DnsAnswer ==
    /\ call.st = "dns"
    /\ \E h \in late \cup ({call.asked} \ {NoHost}) :
         /\ call' = [call EXCEPT !.st = IF call.tls THEN "hello" ELSE "tcp", !.ip = h]
         /\ late' = late \ {h}
    /\ UNCHANGED <<link, trust, browser>>

\* The query times out; if the name exists its answer may still come.
DnsTimeout ==
    /\ call.st = "dns"
    /\ Fail
    /\ late' \in {late, late \cup ({call.asked} \ {NoHost})}
    /\ UNCHANGED <<link, trust, browser>>

\* tcp_http_get gives nothing: refused, timed out, or no byte received.
TcpFails == /\ call.st = "tcp" /\ Fail
            /\ UNCHANGED <<link, trust, late, browser>>

\* A response that is shown: anything that is not a redirect to follow.
PageArrives ==
    /\ call.st = "tcp"
    /\ trust' = 0
    /\ call' = [call EXCEPT !.st = "done", !.got = TRUE]
    /\ UNCHANGED <<link, late, browser>>

\* A 3xx with a Location while hops are left.  A relative Location empties the
\* host of a plain fetch; one that names https goes to the TLS client.
Redirect ==
    /\ call.st = "tcp" /\ call.hop < MaxRedir
    /\ \E t \in Targets :
         call' = Asking(t.host, t.path, call.hop + 1, t.scheme = "https")
    /\ UNCHANGED <<link, trust, late, browser>>

(* https_request.  A record that is no part of the expected flight, an alert  *)
(* or a bad MAC ends the call with nothing; a change-cipher-spec is skipped.  *)
ServerHello ==
    /\ call.st = "hello"
    /\ call' = [call EXCEPT !.st = "flight"]
    /\ UNCHANGED <<link, trust, late, browser>>

TlsFails ==
    /\ call.st \in {"hello", "flight"}
    /\ Fail /\ trust' = -1
    /\ UNCHANGED <<link, late, browser>>

\* The Certificate message: a chain that is good for a name, or for none.  Who
\* presents it need not hold its key: the CertificateVerify message that would
\* prove it is not looked into.  The certificates of several such messages make
\* one list, and nothing is sent between them: one stands for all.
Certificate ==
    /\ call.st = "flight" /\ call.cert = NoHost
    /\ \E name \in IF call.ip \in Honest THEN {call.ip} ELSE Names :
         call' = [call EXCEPT !.cert = name]
    /\ UNCHANGED <<link, trust, late, browser>>

\* The server's Finished, with the right MAC: the chain is validated against
\* the name asked for, and only then is the request sent.
Finished ==
    /\ call.st = "flight"
    /\ IF call.cert = call.asked
         THEN call' = [call EXCEPT !.st = "read", !.sent = TRUE] /\ UNCHANGED trust
         ELSE Fail /\ trust' = -1
    /\ UNCHANGED <<link, late, browser>>

\* One record of the response, until the stream ends, the room is used up, or
\* a record cannot be opened; a response without any byte is a failure.
ReadRecord ==
    /\ call.st = "read"
    /\ \/ call' = [call EXCEPT !.got = TRUE] /\ UNCHANGED trust
       \/ IF call.got THEN call' = [call EXCEPT !.st = "done"] /\ trust' = 1
                      ELSE Fail /\ trust' = -1
    /\ UNCHANGED <<link, late, browser>>

Kernel == \/ ArpGateway \/ Ping \/ Dhcp \/ ArpDns \/ DnsAnswer \/ DnsTimeout \/ TcpFails \/ PageArrives
          \/ Redirect \/ ServerHello \/ TlsFails \/ Certificate \/ Finished
          \/ ReadRecord

------------------------------------------------------------------------------
(* The browser.  do_fetch blocks in the fetch call: mode "loading".           *)
\* What do_fetch asks the kernel for: words and addresses without a dot are
\* searched for; a broken address is either searched for or asked for as it is.
FetchTargets(a) ==
    CASE a.kind = "words" -> {Address("https", Search, "/")}
      [] a.kind = "broken" -> {Address("https", Search, "/"), Address("none", NoHost, "/")}
      [] OTHER -> {a}

\* do_fetch with a in the address bar.
DoFetch(a) ==
    /\ bar' = a
    /\ IF a.kind = "local"
         THEN /\ mode' = "static" /\ security' = "none" /\ shown' = NoPage
              /\ UNCHANGED kernel
         ELSE /\ mode' = "loading"
              /\ trust' = -1
              /\ \E t \in FetchTargets(a) : Fetch(t)
              /\ UNCHANGED <<security, shown, link, late>>

\* navigate: a new history entry, and nothing to go forward to; the page that
\* is last already, and an empty bar, make none.
Navigate(a) ==
    /\ IF a = Empty \/ (history # <<>> /\ history[Len(history)] = a)
         THEN UNCHANGED <<history, fwd>>
         ELSE history' = Append(history, a) /\ fwd' = <<>>
    /\ edited' = (a = Empty)
    /\ DoFetch(a)

Ready == Booted /\ mode # "loading"

\* The address is typed and entered; a start of the program enters the home
\* address the same way.
Enter(a) == /\ Ready /\ Len(history) < MaxHistory
            /\ Navigate(a)

\* Typing changes the bar only: page, lock and history stay.
Edit(a) == /\ Ready /\ bar # a
           /\ bar' = a /\ edited' = TRUE
           /\ UNCHANGED <<kernel, mode, security, shown, history, fwd>>

\* The button fetches what the bar holds, which need not be the page on screen.
Reload == Ready /\ DoFetch(bar) /\ UNCHANGED <<history, fwd, edited>>

\* resolve_href: a relative link is put after what the bar holds up to its
\* first slash, which is the host only when there is no scheme.
ResolveHref(t) ==
    CASE t.kind # "relative" -> t
      [] t.kind = "relative" /\ bar.kind = "url" /\ bar.scheme = "none" ->
            Address("none", bar.host, t.path)
      [] t.kind = "relative" /\ bar.kind = "words" -> Words
      [] OTHER -> Broken

ClickLink(t) == /\ Ready /\ mode = "live" /\ Len(history) < MaxHistory
                /\ Navigate(ResolveHref(t))

\* A link of a built-in page: no fetch, no history.
ClickStatic == /\ Ready /\ mode = "static"
               /\ bar' = Local /\ edited' = TRUE
               /\ UNCHANGED <<kernel, mode, security, shown, history, fwd>>

GoBack ==
    /\ Ready
    /\ IF Len(history) >= 2
         THEN /\ history' = SubSeq(history, 1, Len(history) - 1)
              /\ fwd' = Append(fwd, history[Len(history)])
              /\ edited' = FALSE
              /\ DoFetch(history[Len(history) - 1])
         ELSE /\ mode' = "static" /\ bar' = Local /\ security' = "none"
              /\ shown' = NoPage /\ edited' = TRUE
              /\ UNCHANGED <<kernel, history, fwd>>

GoForward ==
    /\ Ready /\ fwd # <<>>
    /\ history' = Append(history, fwd[Len(fwd)])
    /\ fwd' = SubSeq(fwd, 1, Len(fwd) - 1)
    /\ edited' = FALSE
    /\ DoFetch(fwd[Len(fwd)])

\* The call returns: the page is parsed and the lock set from the kernel's
\* trust; nothing received shows the error page without a lock.
Returns ==
    /\ mode = "loading" /\ call.st \in {"done", "failed"}
    /\ IF call.got /\ call.st = "done"
         THEN /\ mode' = "live"
              /\ shown' = [asked |-> call.asked, from |-> call.ip, named |-> call.cert,
                           via |-> IF call.sent THEN "tls" ELSE "plain"]
              /\ security' = (CASE trust = 1 -> "secure" [] trust = 0 -> "insecure"
                                [] OTHER -> "none")
         ELSE mode' = "err" /\ security' = "none" /\ shown' = NoPage
    /\ call' = Idle
    /\ UNCHANGED <<link, trust, late, bar, history, fwd, edited>>

Browser == \/ \E a \in Typed \cup {bar} : Enter(a) \/ Edit(a)
           \/ \E t \in Targets : ClickLink(t)
           \/ Reload \/ ClickStatic \/ GoBack \/ GoForward \/ Returns

Next == Kernel \/ Browser

\* Every loop of the kernel is bounded, so a call in progress moves on; and the
\* browser takes its result.
Spec == Init /\ [][Next]_vars /\ WF_vars(Kernel) /\ WF_vars(Returns)

------------------------------------------------------------------------------
TypeOK ==
    /\ link \in {"probed", "gateway", "pinged", "lease", "nolease", "dns", "nodns", "down"}
    /\ trust \in {-1, 0, 1}
    /\ late \subseteq Hosts
    /\ call \in [st : {"idle", "dns", "tcp", "hello", "flight", "read", "done", "failed"},
                 asked : Names, path : Paths, ip : Names, hop : 0..MaxRedir, tls : BOOLEAN,
                 cert : Names, sent : BOOLEAN, got : BOOLEAN]
    /\ bar \in Addresses /\ mode \in {"static", "loading", "live", "err"}
    /\ security \in {"none", "insecure", "secure"}
    /\ shown \in [asked : Names, from : Names, named : Names, via : {"none", "plain", "tls"}]
    /\ history \in Seq(Addresses) /\ fwd \in Seq(Addresses) /\ edited \in BOOLEAN

\* The lock: it is closed only over a page that came through TLS from a server
\* that presented a certificate good for the name it was asked by, whatever was
\* redirected, timed out or answered late on the way; and open only over a page
\* that came without.  Only an honest server is thereby the one that was asked.
LockIsTrue ==
    Ready => /\ security = "secure" => /\ mode = "live" /\ shown.via = "tls"
                                       /\ shown.named = shown.asked
                                       /\ shown.from \in Honest => shown.from = shown.asked
             /\ security = "insecure" => mode = "live" /\ shown.via = "plain"
             /\ mode = "live" => security # "none"

\* No request leaves through TLS before the server at the other end has presented
\* a certificate good for the name that was asked for; an honest one that is not
\* the one asked for, because its address arrived late, is sent nothing.
SentToNamed == call.sent => call.cert = call.asked /\ (call.ip \in Honest => call.ip = call.asked)

\* The pages behind and ahead of the current one, in order.
Line == history \o [i \in 1..Len(fwd) |-> fwd[Len(fwd) - i + 1]]

\* Back and forward move along one line of pages: only a newly entered page
\* cuts it, behind the page it was entered on.
LineKept == Line' = Line \/ (fwd' = <<>> /\ history' = Append(history, bar'))

\* The line never shows a page twice in a row, and its current entry is the
\* address the bar shows unless the user changed that.
LineSound ==
    /\ \A i \in 1..(Len(Line) - 1) : Line[i] # Line[i + 1]
    /\ history # <<>> /\ ~edited => bar = history[Len(history)]

\* Every page that is asked for ends as a page or as an error, however the
\* servers redirect.
LoadEnds == mode = "loading" ~> Ready

------------------------------------------------------------------------------
(* What is proved of it, in KernelParts.                                      *)
WebConstants == /\ Search \in Hosts /\ NoHost \notin Hosts /\ "/" \in Paths /\ Honest \subseteq Hosts
                /\ MaxRedir \in Nat /\ Typed \subseteq Addresses

\* A call is as far as it says: a request has left through TLS only after the
\* certificate, and the kernel's trust is that of the call that has ended.
CallSound ==
    /\ SentToNamed
    /\ call.sent => call.st \in {"read", "done"}
    /\ call.st \in {"hello", "flight", "read"} => call.tls
    /\ call.tls => call.asked \in Hosts
    /\ call.cert # NoHost => call.st \in {"flight", "read", "done"} /\ (call.ip \in Honest => call.cert = call.ip)
    /\ call.st = "read" => call.sent
    /\ call.st = "done" => IF call.sent THEN trust = 1 ELSE trust = 0
    /\ mode # "loading" => call = Idle

\* LockIsTrue between two loads, before the network is up too.
LockSound ==
    mode # "loading" =>
      /\ security = "secure" => /\ mode = "live" /\ shown.via = "tls" /\ shown.named = shown.asked
                                /\ shown.from \in Honest => shown.from = shown.asked
      /\ security = "insecure" => mode = "live" /\ shown.via = "plain"
      /\ mode = "live" => security # "none"
WebInv == TypeOK /\ CallSound /\ LockSound /\ LineSound
==============================================================================
