------------------------------ MODULE GaimProxy ------------------------------
(***************************************************************************)
(* gaim_proxy_connect (gaimglue/proxy.c): the name is looked up by one of  *)
(* at most MAX_DNS_CHILDREN forked children, then a socket is connected,   *)
(* directly or by way of an HTTP, SOCKS 4 or SOCKS 5 proxy whose handshake *)
(* a chain of callbacks goes through; in the end the caller's func gets    *)
(* the socket, or -1.                                                      *)
(*                                                                         *)
(* A request is a struct PHB with the inputs and the timer that refer to   *)
(* it; phb[r].inpa is the handler of the input it remembers.  Children     *)
(* answer, fail, expire or die in any order, proxies answer in pieces, and *)
(* the account may sign off at any time.                                   *)
(***************************************************************************)
EXTENDS Integers, Sequences, FiniteSets, SequencesExt

CONSTANTS
  NReqs,              \* number of calls of gaim_proxy_connect
  Anonymous,          \* the requests whose account is NULL
  Settings,           \* the proxies that the requests may have, sequences of kinds
  HasUser,            \* is a user name for the proxy set?
  MAX_DNS_CHILDREN

Reqs == 1 .. NReqs
Kinds == {"none", "http", "socks4", "socks5"}      \* GAIM_PROXY_NONE, _HTTP, ...

ASSUME ProxyAssumption ==
  /\ NReqs \in Nat /\ Anonymous \subseteq Reqs /\ HasUser \in BOOLEAN
  /\ Settings \subseteq [Reqs -> Kinds]
  /\ MAX_DNS_CHILDREN \in Nat \ {0}

VARIABLES
  gc,       \* is the account signed on?
  phb,      \* phb[r]: request r
  dns,      \* the children, free_dns_children, queued_requests and their number
  odd,      \* requests whose connect has failed later, or whose proxy has not
            \* answered with the expected bytes, all at once
  left      \* requests that were under way while the account was signed off

vars == <<gc, phb, dns, odd, left>>

-----------------------------------------------------------------------------
(* The pool of children.  Child c was forked for request c.  D is a value  *)
(* of dns.  A child that is busy has an input for its pipe (host_resolved).*)

Usable(child) == child.alive /\ child.out     \* the outcome of send_dns_request_to_child

Busy(child, r) == [child EXCEPT !.at = "busy", !.req = r, !.said = "nothing"]

Child(at) == [at |-> at, req |-> 0, said |-> "nothing", alive |-> FALSE, out |-> FALSE]
Idle(child) == [child EXCEPT !.at = "free", !.req = 0, !.said = "nothing"]

(* req_free, for every child of a set. *)
Gone(child, S) == [c \in Reqs |-> IF c \in S THEN Child("gone") ELSE child[c]]
Mut_req_freeUncounted(D, S) == [D EXCEPT !.child = Gone(@, S)]
req_free(D, S) == [D EXCEPT !.child = Gone(@, S), !.number = @ - Cardinality(S)]

(* A request that the child does not take goes back to the queue. *)
Mut_releaseToFree(D, c) == [D EXCEPT !.child[c] = Idle(@), !.free = Append(@, c)]
release_dns_child(D, c) ==
  IF D.queue = <<>> THEN [D EXCEPT !.child[c] = Idle(@), !.free = Append(@, c)]
  ELSE IF Usable(D.child[c])
  THEN [D EXCEPT !.child[c] = Busy(@, Head(D.queue)), !.queue = Tail(@)]
  ELSE req_free(D, {c})

(* The free children that do not answer are freed, the first one that does *)
(* takes the request; else a new one is forked if there may be one more.   *)
gaim_gethostbyname_async(D, r) ==
  LET good == {i \in DOMAIN D.free : Usable(D.child[D.free[i]])}
      n    == IF good = {} THEN Len(D.free) ELSE (CHOOSE i \in good : \A j \in good : i <= j) - 1
      D1   == [req_free(D, {D.free[i] : i \in 1 .. n}) EXCEPT !.free = SubSeq(@, n + 1, Len(@))]
  IN  IF good # {} THEN [D1 EXCEPT !.child[Head(D1.free)] = Busy(@, r), !.free = Tail(@)]
      ELSE IF D1.number >= MAX_DNS_CHILDREN THEN [D1 EXCEPT !.queue = Append(@, r)]
      ELSE [D1 EXCEPT !.number = @ + 1,
                      !.child[r] = Busy([@ EXCEPT !.alive = TRUE, !.out = TRUE], r)]

-----------------------------------------------------------------------------
(* Requests.  p is a value of phb[r], on whether func is to be called:     *)
(* "phb->account == NULL || gaim_account_get_connection(phb->account)".    *)

gaim_input_add(p, handler) == [p EXCEPT !.inpa = handler, !.inputs = @ \cup {handler}]
gaim_input_remove(p) == [p EXCEPT !.inputs = @ \ {p.inpa}]

Tell(p, on, what) ==
  [p EXCEPT !.state = "freed", !.inpa = "none", !.told = IF on THEN Append(@, what) ELSE @]
NoSocket == [open |-> FALSE, up |-> FALSE, nonblock |-> FALSE, skew |-> "none"]
Closed(p) == [p EXCEPT !.sock = NoSocket]
Mut_FailUnclosed(p, on) == Tell(p, on, "failure")
Fail(p, on) == Tell(Closed(p), on, "failure")
Done(p, on) == Tell(p, on, "socket")

Blocking(p) == [p EXCEPT !.sock.nonblock = FALSE]

(* What the first n bytes are, to the caller, if a reply has len bytes. *)
Skew(n, len) == IF n < len THEN "left" ELSE IF n > len THEN "eaten" ELSE "none"
AtMost(n, m) == IF n < m THEN n ELSE m

(* The socket is writable.  sent: getsockopt, write and, for SOCKS 4, the  *)
(* lookup of the destination succeed.                                      *)
Mut_no_one_callsNonblocking(p, on, sent) ==
  IF sent THEN Done(gaim_input_remove(p), on) ELSE Fail(gaim_input_remove(p), on)
no_one_calls(p, on, sent) ==
  IF sent THEN Done(Blocking(gaim_input_remove(p)), on) ELSE Fail(gaim_input_remove(p), on)

Mut_http_canwriteForgets(p, on, sent) ==
  IF sent THEN gaim_input_add(gaim_input_remove(p), "http_canread")
  ELSE [Closed(gaim_input_remove(p)) EXCEPT !.state = "freed", !.inpa = "none"]
http_canwrite(p, on, sent) ==
  IF sent THEN gaim_input_add(gaim_input_remove(p), "http_canread")
  ELSE Fail(gaim_input_remove(p), on)

s4_canwrite(p, on, sent) ==
  IF sent THEN gaim_input_add(Blocking(gaim_input_remove(p)), "s4_canread")
  ELSE Fail(gaim_input_remove(p), on)

s5_canwrite(p, on, sent) ==
  IF sent THEN gaim_input_add(Blocking(gaim_input_remove(p)), "s5_canread")
  ELSE Fail(gaim_input_remove(p), on)

CanWrite(p, on, sent) ==
  CASE p.kind = "http" -> http_canwrite(p, on, sent)
    [] p.kind = "socks4" -> s4_canwrite(p, on, sent)
    [] p.kind = "socks5" -> s5_canwrite(p, on, sent)
    [] p.kind = "none" -> no_one_calls(p, on, sent)

(* phb->port = fd, for a connect that has succeeded at once. *)
clean_connect(p, on) == Done([p EXCEPT !.inputs = {}], on)

(* proxy_connect_none, _http, _socks4, _socks5, for the first address with *)
(* which socket and connect do not fail, how they end with it: "progress"  *)
(* or "now".                                                               *)
Socket(up) == [open |-> TRUE, up |-> up, nonblock |-> ~up, skew |-> "none"]
Handler == [none |-> "no_one_calls", http |-> "http_canwrite",
            socks4 |-> "s4_canwrite", socks5 |-> "s5_canwrite"]
proxy_connect(p, on, how, sent) ==
  IF how = "progress" THEN gaim_input_add([p EXCEPT !.sock = Socket(FALSE)], Handler[p.kind])
  ELSE LET q == [p EXCEPT !.sock = Socket(TRUE)]
       IN  IF p.kind = "none" THEN [q EXCEPT !.inputs = {"clean_connect"}]
           ELSE CanWrite(q, on, sent)

connection_host_resolved(p, on, how, sent) ==
  IF how = "refused" THEN Tell(p, on, "failure") ELSE proxy_connect(p, on, how, sent)

(* The socket is readable: n bytes of the answer and of what follows it    *)
(* have come, fine tells whether the answer grants the request.            *)

(* Lines are read until an empty one, or until read fails; a status line   *)
(* is enough.  Here 1 stands for less than the status line, 2 for that     *)
(* line, 3 for the head of the answer, 4 for more.  (The socket is non-    *)
(* blocking, unless the connect had succeeded at once: then read fails     *)
(* only at the end of the stream.)                                         *)
http_canread(p, on, n, fine) ==
  LET q == gaim_input_remove(p)
  IN  IF n >= 2 /\ fine THEN Done([q EXCEPT !.sock.skew = Skew(AtMost(n, 3), 3)], on) ELSE Fail(q, on)

(* read(source, packet, 9) >= 4; the answer has 8 bytes. *)
s4_canread(p, on, n, fine) ==
  LET q == gaim_input_remove(p)
  IN  IF n >= 4 /\ fine THEN Done([q EXCEPT !.sock.skew = Skew(AtMost(n, 9), 8)], on) ELSE Fail(q, on)

(* After a short read the socket is closed and handed over. *)
s5_canread_again(p, on, n, len, fine) ==
  LET q == gaim_input_remove(p)
  IN  CASE n < 10 -> Done(Closed(q), on)
        [] n >= 10 /\ ~fine -> Fail(q, on)
        [] OTHER -> Done([q EXCEPT !.sock.skew = Skew(10, len)], on)

s5_sendconnect(p, on, sent) ==
  IF sent THEN gaim_input_add(p, "s5_canread_again") ELSE Fail(p, on)

Mut_s5_readauthStaysWatched(p, on, n, fine, sent) ==
  IF n >= 2 /\ fine THEN s5_sendconnect(p, on, sent) ELSE Fail(p, on)
s5_readauth(p, on, n, fine, sent) ==
  LET q == gaim_input_remove(p)
  IN  IF n >= 2 /\ fine THEN s5_sendconnect(q, on, sent) ELSE Fail(q, on)

s5_canread(p, on, n, fine, auth, sent) ==
  LET q == gaim_input_remove(p)
  IN  CASE n < 2 -> Done(Closed(q), on)
        [] n >= 2 /\ ~fine -> Fail(q, on)
        [] n >= 2 /\ fine /\ auth ->
             IF sent THEN gaim_input_add(q, "s5_readauth") ELSE Fail(q, on)
        [] OTHER -> s5_sendconnect(q, on, sent)

-----------------------------------------------------------------------------
Init ==
  /\ gc = TRUE
  /\ \E kinds \in Settings :
       phb = [r \in Reqs |-> [kind |-> kinds[r], state |-> "unused", inpa |-> "none",
                              inputs |-> {}, sock |-> NoSocket, told |-> <<>>]]
  /\ dns = [child |-> [c \in Reqs |-> Child("none")], free |-> <<>>, queue |-> <<>>, number |-> 0]
  /\ odd = {} /\ left = {}

(* The calls are made in the order of their numbers. *)
gaim_proxy_connect(r) ==
  /\ phb[r].state = "unused" /\ \A q \in 1 .. r - 1 : phb[q].state # "unused"
  /\ gc \/ r \in Anonymous
  /\ phb' = [phb EXCEPT ![r].state = "live"]
  /\ dns' = gaim_gethostbyname_async(dns, r)
  /\ UNCHANGED <<gc, odd, left>>

(* pipe or fork fails: the call returns -1 and func is not called. *)
ForkFails(r) ==
  /\ phb[r].state = "unused" /\ \A q \in 1 .. r - 1 : phb[q].state # "unused"
  /\ gc \/ r \in Anonymous
  /\ LET D == gaim_gethostbyname_async(dns, r)
     IN  /\ D.child[r].at = "busy"
         /\ dns' = [D EXCEPT !.child[r] = Child("none"), !.number = @ - 1]
  /\ phb' = [phb EXCEPT ![r].state = "rejected"]
  /\ UNCHANGED <<gc, odd, left>>

(* The proxy has no host or no port: "Invalid proxy settings". *)
InvalidSettings(r) ==
  /\ phb[r].state = "unused" /\ \A q \in 1 .. r - 1 : phb[q].state # "unused"
  /\ gc \/ r \in Anonymous
  /\ phb[r].kind # "none"
  /\ phb' = [phb EXCEPT ![r].state = "rejected"]
  /\ UNCHANGED <<gc, dns, odd, left>>

(* The child's side.  After an error it closes its end of the pipe, and    *)
(* lives on.                                                               *)
Resolve(c) ==
  /\ dns.child[c].at = "busy" /\ dns.child[c].alive /\ dns.child[c].said = "nothing"
  /\ \E said \in {"error", "hosts"} :
       dns' = [dns EXCEPT !.child[c].said = said, !.child[c].out = said # "error"]
  /\ UNCHANGED <<gc, phb, odd, left>>

(* "nobody needs me... =(" *)
Expire(c) ==
  /\ dns.child[c].at = "free" /\ dns.child[c].alive
  /\ dns' = [dns EXCEPT !.child[c].alive = FALSE]
  /\ UNCHANGED <<gc, phb, odd, left>>

(* A child dies, perhaps in the middle of its answer. *)
Die(c) ==
  /\ dns.child[c].at = "busy" /\ dns.child[c].alive
  /\ \E said \in {dns.child[c].said}
                   \cup IF dns.child[c].said = "nothing" THEN {"empty", "hosts"} ELSE {} :
       dns' = [dns EXCEPT !.child[c].alive = FALSE, !.child[c].said = said]
  /\ UNCHANGED <<gc, phb, odd, left>>

Called(r) == gc \/ r \in Anonymous

(* The parent reads a child's answer: addresses, an error, or, if readable *)
(* is FALSE or there is nothing to read, the end of the pipe.              *)
host_resolved(c, readable, how, sent) ==
  LET child == dns.child[c]
      r == child.req
      got == readable /\ child.said # "nothing"
  IN  /\ child.at = "busy" /\ (child.said # "nothing" \/ ~child.alive)
      /\ how # "refused" => got /\ child.said = "hosts"
      /\ phb' = [phb EXCEPT ![r] = connection_host_resolved(@, Called(r), how, sent)]
      /\ dns' = IF got THEN release_dns_child(dns, c) ELSE req_free(dns, {c})
      /\ UNCHANGED <<gc, odd, left>>

(* The connect has ended, up: has it succeeded? *)
Writable(r, up, sent) ==
  LET p == [phb[r] EXCEPT !.sock.up = up]
  IN  /\ Handler[p.kind] \in phb[r].inputs
      /\ sent /\ p.kind # "none" => up
      /\ phb' = [phb EXCEPT ![r] = CanWrite(p, Called(r), sent)]
      /\ odd' = IF up THEN odd ELSE odd \cup {r}
      /\ UNCHANGED <<gc, dns, left>>

Timer(r) ==
  /\ "clean_connect" \in phb[r].inputs
  /\ phb' = [phb EXCEPT ![r] = clean_connect(@, Called(r))]
  /\ UNCHANGED <<gc, dns, odd, left>>

(* n bytes have come, and len is the length of the answer. *)
Read(r, handler, p, n, len) ==
  /\ handler \in phb[r].inputs
  /\ phb' = [phb EXCEPT ![r] = p]
  /\ odd' = IF n = len THEN odd ELSE odd \cup {r}
  /\ UNCHANGED <<gc, dns, left>>

(* As many bytes as a handler needs, or asks for, or the answer has, and   *)
(* one less or one more.  A proxy picks a method that it was offered.      *)
Readable(r) ==
  LET p == phb[r]
      on == Called(r)
  IN  \E fine \in BOOLEAN :
        \/ \E n \in 1 .. 4 : Read(r, "http_canread", http_canread(p, on, n, fine), AtMost(n, 3), 3)
        \/ \E n \in {3, 4, 8, 9} : Read(r, "s4_canread", s4_canread(p, on, n, fine), n, 8)
        \/ \E n \in {1, 2}, auth \in {FALSE, HasUser}, sent \in BOOLEAN :
             Read(r, "s5_canread", s5_canread(p, on, n, fine, auth, sent), n, 2)
        \/ \E n \in {1, 2}, sent \in BOOLEAN :
             Read(r, "s5_readauth", s5_readauth(p, on, n, fine, sent), n, 2)
        \/ \E n \in {9, 10}, len \in {10, 22} :
             Read(r, "s5_canread_again", s5_canread_again(p, on, n, len, fine), n, len)

UnderWay == {r \in Reqs \ Anonymous : phb[r].state = "live"}
SignOff ==
  /\ gc /\ gc' = FALSE
  /\ left' = left \cup UnderWay
  /\ UNCHANGED <<phb, dns, odd>>
SignOn ==
  /\ ~gc /\ gc' = TRUE
  /\ UNCHANGED <<phb, dns, odd, left>>

Resolved(c) ==
  \E readable, sent \in BOOLEAN, how \in {"refused", "progress", "now"} :
    host_resolved(c, readable, how, sent)
Wakes(r) == (\E up, sent \in BOOLEAN : Writable(r, up, sent)) \/ Readable(r) \/ Timer(r)

Next ==
  \/ \E r \in Reqs : gaim_proxy_connect(r) \/ InvalidSettings(r) \/ ForkFails(r) \/ Wakes(r)
  \/ \E c \in Reqs : Resolve(c) \/ Expire(c) \/ Die(c) \/ Resolved(c)
  \/ SignOff \/ SignOn

Spec == Init /\ [][Next]_vars

-----------------------------------------------------------------------------
At(where) == {c \in Reqs : dns.child[c].at = where}

(* Types; number_of_dns_children counts the children that are busy or      *)
(* free, and never more than MAX_DNS_CHILDREN.                             *)
TypeOK ==
  /\ gc \in BOOLEAN /\ left \subseteq Reqs
  /\ odd \subseteq Reqs
  /\ \A r \in Reqs : phb[r].state \in {"unused", "live", "freed", "rejected"}
  /\ ToSet(dns.free) = At("free") /\ IsInjective(dns.free)
  /\ dns.number = Cardinality(At("busy") \cup At("free"))
  /\ dns.number <= MAX_DNS_CHILDREN

(* A request that is under way waits for exactly one thing: one input or   *)
(* timer, one child, or one place in the queue; a request that has been    *)
(* freed is waited for by nothing, so that no callback gets a freed PHB.   *)
Waits(r) ==
  Cardinality(phb[r].inputs) + Cardinality({c \in At("busy") : dns.child[c].req = r})
    + Cardinality({i \in DOMAIN dns.queue : dns.queue[i] = r})
WaitsForOneThing == \A r \in Reqs : Waits(r) = IF phb[r].state = "live" THEN 1 ELSE 0

(* func is called once for every request that ends, in whichever of its    *)
(* callbacks, and not before; only an account that has signed off meanwhile*)
(* may go without.                                                         *)
ToldOnce ==
  \A r \in Reqs : CASE phb[r].state = "freed" ->
                         Len(phb[r].told) = 1 \/ (phb[r].told = <<>> /\ r \in left)
                    [] OTHER -> phb[r].told = <<>>

(* No socket is lost: once a request has ended its socket is closed or in  *)
(* the hands of func, unless the account has signed off meanwhile; and a   *)
(* socket that is watched is open.                                         *)
NoSocketLost ==
  \A r \in Reqs :
    /\ phb[r].state = "freed" /\ phb[r].sock.open => phb[r].told = <<"socket">> \/ r \in left
    /\ phb[r].inputs # {} => phb[r].sock.open

(* What func gets is an open, connected, blocking socket on which the      *)
(* first byte is the destination's: unless the connect has failed later    *)
(* (SO_ERROR is not looked at), or a proxy's answer came in pieces or with *)
(* the destination's first bytes; and the HTTP socket stays non-blocking.  *)
CleanHandover ==
  \A r \in Reqs : phb[r].told = <<"socket">> /\ r \notin odd =>
    phb[r].sock = [open |-> TRUE, up |-> TRUE, skew |-> "none",
                   nonblock |-> phb[r].kind = "http" /\ phb[r].sock.nonblock]

(* A lookup waits in the queue only while all children are busy or, after  *)
(* the loss of some of them, at least one is; it is stranded only when the *)
(* last child is lost (release_dns_child, host_resolved).                  *)
Stranded == dns.queue # <<>> /\ At("busy") = {}
QueueServed == Stranded => At("free") = {} /\ At("gone") # {}
==============================================================================
