-------------------------- MODULE GaimProxy_proofs --------------------------
(***************************************************************************)
(* Proofs about gaim_proxy_connect, for every number of requests, every    *)
(* proxy they may have and every bound on the children.                    *)
(***************************************************************************)
EXTENDS GaimProxy, Induction

Ats == {"none", "free", "busy", "gone"}
ChildRec == [at : Ats, req : 0 .. NReqs, said : {"nothing", "error", "hosts", "empty"},
             alive : BOOLEAN, out : BOOLEAN]
Dns == [child : [Reqs -> ChildRec], free : Seq(Reqs), queue : Seq(Reqs), number : Int]

Readers == {"http_canread", "s4_canread", "s5_canread", "s5_readauth", "s5_canread_again"}
Writers == {"no_one_calls", "http_canwrite", "s4_canwrite", "s5_canwrite"}
Handlers == Readers \cup Writers \cup {"clean_connect"}
SockRec == [open : BOOLEAN, up : BOOLEAN, nonblock : BOOLEAN, skew : {"none", "left", "eaten"}]
Phb == [kind : Kinds, state : {"unused", "live", "freed", "rejected"},
        inpa : Handlers \cup {"none"}, inputs : SUBSET Handlers, sock : SockRec,
        told : Seq({"failure", "socket"})]

-----------------------------------------------------------------------------
(* The pool.  Its children that are busy or free are the ones it counts;   *)
(* the free ones are listed once each; a lookup waits in the queue only if *)
(* no child is free and some child is busy or has been lost.               *)
Kept(D) == {c \in Reqs : D.child[c].at \in {"busy", "free"}}

FreeOK(D) ==
  /\ \A i \in 1 .. Len(D.free) : D.child[D.free[i]].at = "free"
  /\ \A c \in Reqs : D.child[c].at = "free" => \E i \in 1 .. Len(D.free) : D.free[i] = c
  /\ \A i, j \in 1 .. Len(D.free) : D.free[i] = D.free[j] => i = j

CountOK(D) == D.number = Cardinality(Kept(D)) /\ D.number <= MAX_DNS_CHILDREN

QueueOK(D) ==
  D.queue # <<>> => D.free = <<>> /\ \E c \in Reqs : D.child[c].at \in {"busy", "gone"}

ReqsOK(D) == \A c \in Reqs : D.child[c].at = "busy" => D.child[c].req \in Reqs

PoolOK(D) == D \in Dns /\ FreeOK(D) /\ CountOK(D) /\ QueueOK(D) /\ ReqsOK(D)

(* What waits in the pool for request q: nothing, one child, or one place  *)
(* in the queue.                                                           *)
Serves(D, c, q) == D.child[c].at = "busy" /\ D.child[c].req = q
NoChild(D, q) == \A c \in Reqs : ~Serves(D, c, q)
NoPlace(D, q) == \A i \in 1 .. Len(D.queue) : D.queue[i] # q
OneChild(D, q) == \E c \in Reqs : \A b \in Reqs : Serves(D, b, q) <=> b = c
OnePlace(D, q) ==
  \E i \in 1 .. Len(D.queue) : \A j \in 1 .. Len(D.queue) : D.queue[j] = q <=> j = i
Nothing(D, q) == NoChild(D, q) /\ NoPlace(D, q)
Once(D, q) == (OneChild(D, q) /\ NoPlace(D, q)) \/ (NoChild(D, q) /\ OnePlace(D, q))

(* A step of the pool from D to E leaves what waits for q alone.           *)
Keeps(D, E, q) == (Nothing(D, q) => Nothing(E, q)) /\ (Once(D, q) => Once(E, q))

-----------------------------------------------------------------------------
(* Requests.  An open socket that is watched by handler h, and nothing     *)
(* else: it is connected before an answer is awaited on it, and blocking   *)
(* but for HTTP.                                                           *)
Watched(p, h) ==
  /\ p.inputs = {h}
  /\ h # "clean_connect" => p.inpa = h
  /\ p.sock.open /\ p.sock.skew = "none"
  /\ h \in Readers \cup {"clean_connect"} =>
       p.sock.up /\ (p.sock.nonblock => p.kind = "http" /\ h = "http_canread")

Untouched(p) == p.inputs = {} /\ p.told = <<>> /\ p.sock = NoSocket

Ongoing(p) == p.state = "live" /\ p.told = <<>> /\ \E h \in Handlers : Watched(p, h)

Clean(p) ==
  p.sock.open /\ p.sock.up /\ p.sock.skew = "none" /\ (p.sock.nonblock => p.kind = "http")

(* o: is it odd?  l: was it under way while the account was signed off?    *)
Ended(p, o, l) ==
  /\ p.state = "freed" /\ p.inputs = {}
  /\ \/ p.told = <<"failure">> /\ ~p.sock.open
     \/ p.told = <<"socket">> /\ (o \/ Clean(p))
     \/ p.told = <<>> /\ l

(* What a handler makes of a request.                                      *)
Settled(p, o, l) == p \in Phb /\ (Ongoing(p) \/ Ended(p, o, l))

ReqOK(r) ==
  \/ /\ phb[r].state \in {"unused", "rejected"} /\ Untouched(phb[r])
     /\ dns.child[r].at = "none" /\ Nothing(dns, r)
  \/ phb[r].state = "live" /\ Untouched(phb[r]) /\ Once(dns, r)
  \/ (Ongoing(phb[r]) \/ Ended(phb[r], r \in odd, r \in left)) /\ Nothing(dns, r)

TypesOK ==
  gc \in BOOLEAN /\ odd \subseteq Reqs /\ left \subseteq Reqs /\ phb \in [Reqs -> Phb]

(* func is only withheld from requests that were under way at a sign-off.  *)
LeftOK == ~gc => \A r \in Reqs \ Anonymous : phb[r].state = "live" => r \in left

(* The inductive invariant.                                                *)
IInv == TypesOK /\ PoolOK(dns) /\ (\A r \in Reqs : ReqOK(r)) /\ LeftOK

-----------------------------------------------------------------------------
(* The handlers of a request.                                              *)

(* Every handler begins by removing its input. *)
LEMMA Removed ==
  ASSUME NEW p \in Phb, NEW h \in Handlers, Watched(p, h), h # "clean_connect"
  PROVE  gaim_input_remove(p) = [p EXCEPT !.inputs = {}]
  BY DEF Watched, gaim_input_remove, Phb

(* A handler that adds one input to a socket goes on. *)
LEMMA Goes ==
  ASSUME NEW p \in Phb, NEW h \in Handlers, p.state = "live", p.told = <<>>, Watched(p, h)
  PROVE  Ongoing(p)
  BY DEF Ongoing

(* So does one that adds an input to a socket without any. *)
LEMMA Added ==
  ASSUME NEW p \in Phb, NEW h \in Readers \cup Writers, p.state = "live", p.told = <<>>,
         p.inputs = {}, p.sock.open, p.sock.skew = "none",
         h \in Readers => p.sock.up /\ (p.sock.nonblock => p.kind = "http" /\ h = "http_canread")
  PROVE  \A o, l : Settled(gaim_input_add(p, h), o, l)
<1> DEFINE q == gaim_input_add(p, h)
<1>1. q = [p EXCEPT !.inpa = h, !.inputs = {h}]
  BY DEF gaim_input_add, Phb
<1>2. h \in Handlers
  BY DEF Handlers
<1>3. q \in Phb
  <2>1. h \in Handlers \cup {"none"} /\ {h} \in SUBSET Handlers
    BY <1>2
  <2> HIDE DEF q
  <2> QED
    BY <1>1, <2>1 DEF Phb
<1>4. q.state = "live" /\ q.told = <<>> /\ q.sock = p.sock /\ q.kind = p.kind
      /\ q.inputs = {h} /\ q.inpa = h
  BY <1>1 DEF Phb
<1>5. h # "clean_connect"
  BY DEF Readers, Writers
<1>6. Watched(q, h)
  BY <1>4, <1>5 DEF Watched
<1> QED
  BY <1>2, <1>3, <1>4, <1>6 DEF Settled, Ongoing

(* A handler that fails closes the socket and tells func. *)
LEMMA Failed ==
  ASSUME NEW p \in Phb, NEW on \in BOOLEAN, NEW o, NEW l, p.told = <<>>, p.inputs = {}, on \/ l
  PROVE  Settled(Fail(p, on), o, l)
<1> DEFINE q == Fail(p, on)
<1>1. NoSocket \in SockRec
  BY DEF NoSocket, SockRec
<1>2. q = [p EXCEPT !.sock = NoSocket, !.state = "freed", !.inpa = "none",
                    !.told = IF on THEN <<"failure">> ELSE <<>>]
  <2> DEFINE u == Closed(p)
  <2>1. u = [p EXCEPT !.sock = NoSocket] /\ u.told = <<>>
    BY DEF Closed, Phb
  <2>2. q = [u EXCEPT !.state = "freed", !.inpa = "none",
                      !.told = IF on THEN Append(u.told, "failure") ELSE u.told]
    BY DEF Fail, Tell
  <2>3. q = [u EXCEPT !.state = "freed", !.inpa = "none",
                      !.told = IF on THEN <<"failure">> ELSE <<>>]
    <3> HIDE DEF u, q
    <3> QED
      BY <2>1, <2>2
  <2> HIDE DEF u, q
  <2> QED
    BY <2>1, <2>3 DEF Phb
<1>3. q \in Phb
  <2>1. <<"failure">> \in Seq({"failure", "socket"}) /\ <<>> \in Seq({"failure", "socket"})
    OBVIOUS
  <2>2. (IF on THEN <<"failure">> ELSE <<>>) \in Seq({"failure", "socket"})
    BY <2>1
  <2> HIDE DEF q
  <2> QED
    BY <1>1, <1>2, <2>2 DEF Phb
<1>4. q.state = "freed" /\ q.inputs = {} /\ ~q.sock.open
      /\ q.told = IF on THEN <<"failure">> ELSE <<>>
  BY <1>2 DEF Phb, NoSocket
<1> QED
  BY <1>3, <1>4 DEF Settled, Ended

(* A handler that is done hands a clean socket to func, or the request is  *)
(* odd.                                                                    *)
LEMMA Handed ==
  ASSUME NEW p \in Phb, NEW on \in BOOLEAN, NEW o, NEW l, p.told = <<>>, p.inputs = {}, on \/ l,
         o \/ Clean(p)
  PROVE  Settled(Done(p, on), o, l)
<1> DEFINE q == Done(p, on)
<1>2. q = [p EXCEPT !.state = "freed", !.inpa = "none",
                    !.told = IF on THEN <<"socket">> ELSE <<>>]
  BY DEF Done, Tell, Phb
<1>3. q \in Phb
  <2>1. <<"socket">> \in Seq({"failure", "socket"}) /\ <<>> \in Seq({"failure", "socket"})
    OBVIOUS
  <2>2. (IF on THEN <<"socket">> ELSE <<>>) \in Seq({"failure", "socket"})
    BY <2>1
  <2> HIDE DEF q
  <2> QED
    BY <1>2, <2>2 DEF Phb
<1>4. q.state = "freed" /\ q.inputs = {} /\ q.sock = p.sock /\ q.kind = p.kind
      /\ q.told = IF on THEN <<"socket">> ELSE <<>>
  BY <1>2 DEF Phb
<1>5. Clean(p) => Clean(q)
  BY <1>4 DEF Clean
<1> QED
  BY <1>3, <1>4, <1>5 DEF Settled, Ended

(* The handlers that write, on a socket without inputs. *)
LEMMA WriteSettles ==
  ASSUME NEW p \in Phb, NEW on \in BOOLEAN, NEW o, NEW l, NEW sent \in BOOLEAN,
         p.state = "live", p.told = <<>>, on \/ l, gaim_input_remove(p) = [p EXCEPT !.inputs = {}],
         p.sock.open, p.sock.skew = "none",
         o \/ p.sock.up, sent /\ p.kind # "none" => p.sock.up
  PROVE  Settled(CanWrite(p, on, sent), o, l)
<1> DEFINE q == [p EXCEPT !.inputs = {}]
           b == Blocking(q)
<1>1. q \in Phb /\ q.told = <<>> /\ q.state = "live" /\ q.inputs = {}
      /\ q.sock = p.sock /\ q.kind = p.kind
  BY DEF Phb
<1>2. b = [q EXCEPT !.sock = [p.sock EXCEPT !.nonblock = FALSE]]
  BY <1>1 DEF Blocking, Phb, SockRec
<1>3. b \in Phb /\ b.told = <<>> /\ b.state = "live" /\ b.inputs = {} /\ b.kind = p.kind
      /\ b.sock.open /\ b.sock.up = p.sock.up /\ b.sock.skew = "none" /\ ~b.sock.nonblock
  <2> DEFINE s == [p.sock EXCEPT !.nonblock = FALSE]
  <2>1. s \in SockRec /\ s.open /\ s.up = p.sock.up /\ s.skew = "none" /\ ~s.nonblock
    BY DEF Phb, SockRec
  <2>2. b = [q EXCEPT !.sock = s]
    BY <1>2
  <2> HIDE DEF s, q, b
  <2>3. b \in Phb /\ b.told = <<>> /\ b.state = "live" /\ b.inputs = {} /\ b.kind = p.kind
        /\ b.sock = s
    BY <1>1, <2>1, <2>2 DEF Phb
  <2> QED
    BY <2>1, <2>3
<1>4. p.sock.up => Clean(b)
  BY <1>3 DEF Clean
<1>5. Settled(Fail(q, on), o, l)
  BY <1>1, Failed
<1>6. Settled(Done(b, on), o, l)
  BY <1>3, <1>4, Handed
<1>7. p.kind \in {"none", "http", "socks4", "socks5"}
  BY DEF Phb, Kinds
<1> HIDE DEF q, b
<1>8. CASE p.kind = "none"
  BY <1>5, <1>6, <1>8 DEF CanWrite, no_one_calls, q, b
<1>9. CASE p.kind = "http"
  <2>1. sent => Settled(gaim_input_add(q, "http_canread"), o, l)
    BY <1>1, <1>9, Added DEF Readers
  <2> QED
    BY <1>5, <1>9, <2>1 DEF CanWrite, http_canwrite, q
<1>10. CASE p.kind = "socks4"
  <2>1. sent => Settled(gaim_input_add(b, "s4_canread"), o, l)
    BY <1>3, <1>10, Added DEF Readers
  <2> QED
    BY <1>5, <1>10, <2>1 DEF CanWrite, s4_canwrite, q, b
<1>11. CASE p.kind = "socks5"
  <2>1. sent => Settled(gaim_input_add(b, "s5_canread"), o, l)
    BY <1>3, <1>11, Added DEF Readers
  <2> QED
    BY <1>5, <1>11, <2>1 DEF CanWrite, s5_canwrite, q, b
<1> QED
  BY <1>7, <1>8, <1>9, <1>10, <1>11

(* The lookup has ended, with or without addresses. *)
LEMMA ResolvedSettles ==
  ASSUME NEW p \in Phb, NEW on \in BOOLEAN, NEW o, NEW l, NEW sent \in BOOLEAN,
         NEW how \in {"refused", "progress", "now"},
         p.state = "live", Untouched(p), on \/ l
  PROVE  Settled(connection_host_resolved(p, on, how, sent), o, l)
<1>1. p.inputs = {} /\ p.told = <<>> /\ p.sock = NoSocket
  BY DEF Untouched
<1>2. CASE how = "refused"
  <2> DEFINE q == Tell(p, on, "failure")
  <2>1. q = [p EXCEPT !.state = "freed", !.inpa = "none",
                      !.told = IF on THEN <<"failure">> ELSE <<>>]
    BY <1>1 DEF Tell, Phb
  <2>2. q \in Phb
    <3>1. <<"failure">> \in Seq({"failure", "socket"}) /\ <<>> \in Seq({"failure", "socket"})
      OBVIOUS
    <3>2. (IF on THEN <<"failure">> ELSE <<>>) \in Seq({"failure", "socket"})
      BY <3>1
    <3> HIDE DEF q
    <3> QED
      BY <2>1, <3>2 DEF Phb
  <2>3. q.state = "freed" /\ q.inputs = {} /\ q.sock = NoSocket
        /\ q.told = IF on THEN <<"failure">> ELSE <<>>
    BY <1>1, <2>1 DEF Phb
  <2>4. ~q.sock.open
    BY <2>3 DEF NoSocket
  <2>5. Settled(q, o, l)
    BY <2>2, <2>3, <2>4 DEF Settled, Ended
  <2> QED
    BY <1>2, <2>5 DEF connection_host_resolved
<1>3. CASE how = "progress"
  <2> DEFINE q == [p EXCEPT !.sock = Socket(FALSE)]
  <2>1. Socket(FALSE) \in SockRec
    BY DEF Socket, SockRec
  <2>2. q \in Phb /\ q.state = "live" /\ q.told = <<>> /\ q.inputs = {} /\ q.sock = Socket(FALSE)
    BY <1>1, <2>1 DEF Phb
  <2>3. q.sock.open /\ q.sock.skew = "none"
    BY <2>2 DEF Socket
  <2>4. Handler[p.kind] \in Writers /\ Handler[p.kind] \notin Readers
    BY DEF Handler, Writers, Readers, Phb, Kinds
  <2> HIDE DEF q
  <2>5. Settled(gaim_input_add(q, Handler[p.kind]), o, l)
    BY <2>2, <2>3, <2>4, Added
  <2> QED
    BY <1>3, <2>5 DEF connection_host_resolved, proxy_connect, q
<1>4. CASE how = "now"
  <2> DEFINE q == [p EXCEPT !.sock = Socket(TRUE)]
  <2>1. Socket(TRUE) \in SockRec
    BY DEF Socket, SockRec
  <2>2. q \in Phb /\ q.state = "live" /\ q.told = <<>> /\ q.inputs = {} /\ q.sock = Socket(TRUE)
        /\ q.kind = p.kind
    BY <1>1, <2>1 DEF Phb
  <2>3. q.sock.open /\ q.sock.up /\ ~q.sock.nonblock /\ q.sock.skew = "none"
    <3> HIDE DEF q
    <3>1. q.sock = [open |-> TRUE, up |-> TRUE, nonblock |-> FALSE, skew |-> "none"]
      BY <2>2 DEF Socket
    <3> QED
      BY <3>1
  <2>4. gaim_input_remove(q) = [q EXCEPT !.inputs = {}]
    <3>1. q.inputs \ {q.inpa} = {}
      BY <2>2
    <3> HIDE DEF q
    <3> QED
      BY <3>1 DEF gaim_input_remove
  <2> HIDE DEF q
  <2>5. Settled(CanWrite(q, on, sent), o, l)
    BY <2>2, <2>3, <2>4, WriteSettles
  <2> DEFINE t == [q EXCEPT !.inputs = {"clean_connect"}]
  <2>6. "clean_connect" \in Handlers
    BY DEF Handlers
  <2>7. t \in Phb /\ t.state = "live" /\ t.told = <<>> /\ t.inputs = {"clean_connect"}
        /\ t.sock = q.sock
    BY <2>2, <2>6 DEF Phb
  <2>8. Settled(t, o, l)
    BY <2>3, <2>6, <2>7 DEF Settled, Ongoing, Watched
  <2> QED
    BY <1>4, <2>5, <2>8 DEF connection_host_resolved, proxy_connect, q
<1> QED
  BY <1>2, <1>3, <1>4

(* A request that awaits an answer, when its handler runs. *)
Awaiting(p, h) == p.state = "live" /\ p.told = <<>> /\ Watched(p, h) /\ h \in Readers

(* What a handler that reads may do with the request: fail, hand over the  *)
(* socket after some of the bytes, hand over a closed one, or go on.       *)
LEMMA ReadChoices ==
  ASSUME NEW p \in Phb, NEW h, Awaiting(p, h), NEW on \in BOOLEAN, NEW o, NEW l, on \/ l
  PROVE  LET q == gaim_input_remove(p)
         IN  /\ Settled(Fail(q, on), o, l)
             /\ \A s \in {"none", "left", "eaten"} :
                  o \/ s = "none" => Settled(Done([q EXCEPT !.sock.skew = s], on), o, l)
             /\ o => Settled(Done(Closed(q), on), o, l)
             /\ h # "http_canread" =>
                  \A k \in Readers : Settled(gaim_input_add(q, k), o, l)
<1> DEFINE q == gaim_input_remove(p)
<1>1. h \in Handlers /\ h # "clean_connect"
  BY DEF Awaiting, Handlers, Readers
<1>2. q = [p EXCEPT !.inputs = {}]
  BY <1>1, Removed DEF Awaiting
<1>3. q \in Phb /\ q.told = <<>> /\ q.state = "live" /\ q.inputs = {}
      /\ q.sock = p.sock /\ q.kind = p.kind
  <2> HIDE DEF q
  <2> QED
    BY <1>2 DEF Phb, Awaiting
<1>4. q.sock.open /\ q.sock.up /\ q.sock.skew = "none"
      /\ (q.sock.nonblock => q.kind = "http" /\ h = "http_canread")
  BY <1>3 DEF Awaiting, Watched
<1> HIDE DEF q
<1>5. Settled(Fail(q, on), o, l)
  BY <1>3, Failed
<1>6. ASSUME NEW s \in {"none", "left", "eaten"}, o \/ s = "none"
      PROVE  Settled(Done([q EXCEPT !.sock.skew = s], on), o, l)
  <2> DEFINE k == [q.sock EXCEPT !.skew = s]
             t == [q EXCEPT !.sock.skew = s]
  <2>1. k \in SockRec /\ k.open /\ k.up /\ k.skew = s /\ k.nonblock = q.sock.nonblock
    BY <1>3, <1>4 DEF Phb, SockRec
  <2>2. t = [q EXCEPT !.sock = k]
    BY <1>3 DEF Phb
  <2> HIDE DEF k, t
  <2>3. t \in Phb /\ t.told = <<>> /\ t.inputs = {} /\ t.sock = k /\ t.kind = q.kind
    BY <1>3, <2>1, <2>2 DEF Phb
  <2>4. o \/ Clean(t)
    BY <1>4, <1>6, <2>1, <2>3 DEF Clean
  <2>5. Settled(Done(t, on), o, l)
    BY <2>3, <2>4, Handed
  <2> QED
    BY <2>5 DEF t
<1>7. ASSUME o
      PROVE  Settled(Done(Closed(q), on), o, l)
  <2> DEFINE t == Closed(q)
  <2>1. NoSocket \in SockRec
    BY DEF NoSocket, SockRec
  <2>2. t \in Phb /\ t.told = <<>> /\ t.inputs = {}
    BY <1>3, <2>1 DEF Closed, Phb
  <2> HIDE DEF t
  <2>3. Settled(Done(t, on), o, l)
    BY <1>7, <2>2, Handed
  <2> QED
    BY <2>3 DEF t
<1>8. ASSUME h # "http_canread", NEW k \in Readers
      PROVE  Settled(gaim_input_add(q, k), o, l)
  BY <1>3, <1>4, <1>8, Added
<1> QED
  BY <1>5, <1>6, <1>7, <1>8 DEF q

(* The last of these, for a handler of a blocking socket. *)
LEMMA ReadGoesOn ==
  ASSUME NEW p \in Phb, NEW h, Awaiting(p, h), h # "http_canread", NEW k \in Readers,
         NEW on \in BOOLEAN, NEW o, NEW l, on \/ l
  PROVE  Settled(gaim_input_add(gaim_input_remove(p), k), o, l)
  BY ReadChoices

(* The answer of an HTTP proxy. *)
LEMMA HttpSettles ==
  ASSUME NEW p \in Phb, Awaiting(p, "http_canread"), NEW on \in BOOLEAN, NEW o, NEW l, on \/ l,
         NEW n \in 1 .. 4, NEW fine \in BOOLEAN, AtMost(n, 3) # 3 => o
  PROVE  Settled(http_canread(p, on, n, fine), o, l)
<1> DEFINE q == gaim_input_remove(p)
<1>1. Settled(Fail(q, on), o, l)
      /\ \A s \in {"none", "left", "eaten"} :
           o \/ s = "none" => Settled(Done([q EXCEPT !.sock.skew = s], on), o, l)
  BY ReadChoices
<1>2. Skew(AtMost(n, 3), 3) \in {"none", "left", "eaten"}
      /\ (o \/ Skew(AtMost(n, 3), 3) = "none")
  BY DEF Skew, AtMost
<1> HIDE DEF q
<1> QED
  BY <1>1, <1>2 DEF http_canread, q

(* The answer of a SOCKS 4 proxy. *)
LEMMA S4Settles ==
  ASSUME NEW p \in Phb, Awaiting(p, "s4_canread"), NEW on \in BOOLEAN, NEW o, NEW l, on \/ l,
         NEW n \in {3, 4, 8, 9}, NEW fine \in BOOLEAN, n # 8 => o
  PROVE  Settled(s4_canread(p, on, n, fine), o, l)
<1> DEFINE q == gaim_input_remove(p)
<1>1. Settled(Fail(q, on), o, l)
      /\ \A s \in {"none", "left", "eaten"} :
           o \/ s = "none" => Settled(Done([q EXCEPT !.sock.skew = s], on), o, l)
  BY ReadChoices
<1>2. Skew(AtMost(n, 9), 8) \in {"none", "left", "eaten"}
      /\ (o \/ Skew(AtMost(n, 9), 8) = "none")
  BY DEF Skew, AtMost
<1> HIDE DEF q
<1> QED
  BY <1>1, <1>2 DEF s4_canread, q

(* The three answers of a SOCKS 5 proxy. *)
LEMMA S5Settles ==
  ASSUME NEW p \in Phb, Awaiting(p, "s5_canread"), NEW on \in BOOLEAN, NEW o, NEW l, on \/ l,
         NEW n \in {1, 2}, NEW fine \in BOOLEAN, NEW auth \in BOOLEAN, NEW sent \in BOOLEAN,
         n # 2 => o
  PROVE  Settled(s5_canread(p, on, n, fine, auth, sent), o, l)
<1> DEFINE q == gaim_input_remove(p)
<1>1. /\ Settled(Fail(q, on), o, l)
      /\ o => Settled(Done(Closed(q), on), o, l)
      /\ Settled(gaim_input_add(q, "s5_readauth"), o, l)
      /\ Settled(gaim_input_add(q, "s5_canread_again"), o, l)
  <2>1. "s5_canread" # "http_canread" /\ "s5_readauth" \in Readers /\ "s5_canread_again" \in Readers
    BY DEF Readers
  <2>2. /\ Settled(Fail(q, on), o, l)
        /\ o => Settled(Done(Closed(q), on), o, l)
        /\ \A k \in Readers : Settled(gaim_input_add(q, k), o, l)
    <3>1. \A k \in Readers : Settled(gaim_input_add(q, k), o, l)
      BY <2>1, ReadGoesOn
    <3>2. Settled(Fail(q, on), o, l) /\ (o => Settled(Done(Closed(q), on), o, l))
      BY ReadChoices
    <3> QED
      BY <2>1, <3>1, <3>2
  <2> HIDE DEF q
  <2> QED
    BY <2>1, <2>2
<1> HIDE DEF q
<1>2. CASE n < 2
  BY <1>1, <1>2 DEF s5_canread, q
<1>3. CASE ~(n < 2)
  BY <1>1, <1>3 DEF s5_canread, s5_sendconnect, q
<1> QED
  BY <1>2, <1>3

(* The answer to the user name and the password ... *)
LEMMA AuthSettles ==
  ASSUME NEW p \in Phb, Awaiting(p, "s5_readauth"), NEW on \in BOOLEAN, NEW o, NEW l, on \/ l,
         NEW n \in {1, 2}, NEW fine \in BOOLEAN, NEW sent \in BOOLEAN
  PROVE  Settled(s5_readauth(p, on, n, fine, sent), o, l)
<1> DEFINE q == gaim_input_remove(p)
<1>1. Settled(Fail(q, on), o, l) /\ Settled(gaim_input_add(q, "s5_canread_again"), o, l)
  <2>1. "s5_readauth" # "http_canread" /\ "s5_readauth" \in Readers /\ "s5_canread_again" \in Readers
    BY DEF Readers
  <2>2. /\ Settled(Fail(q, on), o, l)
        /\ o => Settled(Done(Closed(q), on), o, l)
        /\ \A k \in Readers : Settled(gaim_input_add(q, k), o, l)
    <3>1. \A k \in Readers : Settled(gaim_input_add(q, k), o, l)
      BY <2>1, ReadGoesOn
    <3>2. Settled(Fail(q, on), o, l) /\ (o => Settled(Done(Closed(q), on), o, l))
      BY ReadChoices
    <3> QED
      BY <2>1, <3>1, <3>2
  <2> HIDE DEF q
  <2> QED
    BY <2>1, <2>2
<1> HIDE DEF q
<1> QED
  BY <1>1 DEF s5_readauth, s5_sendconnect, q

(* ... and the answer to the request for a connect. *)
LEMMA AgainSettles ==
  ASSUME NEW p \in Phb, Awaiting(p, "s5_canread_again"), NEW on \in BOOLEAN, NEW o, NEW l, on \/ l,
         NEW n \in {9, 10}, NEW len \in {10, 22}, NEW fine \in BOOLEAN, n # len => o
  PROVE  Settled(s5_canread_again(p, on, n, len, fine), o, l)
<1> DEFINE q == gaim_input_remove(p)
<1>1. /\ Settled(Fail(q, on), o, l)
      /\ \A s \in {"none", "left", "eaten"} :
           o \/ s = "none" => Settled(Done([q EXCEPT !.sock.skew = s], on), o, l)
      /\ o => Settled(Done(Closed(q), on), o, l)
  BY ReadChoices
<1>2. n = 10 => Skew(10, len) \in {"none", "left", "eaten"} /\ (o \/ Skew(10, len) = "none")
  BY DEF Skew
<1> HIDE DEF q
<1>3. CASE n = 9
  BY <1>1, <1>3 DEF s5_canread_again, q
<1>4. CASE n = 10
  BY <1>1, <1>2, <1>4 DEF s5_canread_again, q
<1> QED
  BY <1>3, <1>4

(* The timer of a connect that has succeeded at once. *)
LEMMA TimerSettles ==
  ASSUME NEW p \in Phb, p.told = <<>>, Watched(p, "clean_connect"), NEW on \in BOOLEAN, NEW o,
         NEW l, on \/ l
  PROVE  Settled(clean_connect(p, on), o, l)
<1> DEFINE q == [p EXCEPT !.inputs = {}]
<1>1. q \in Phb /\ q.told = <<>> /\ q.inputs = {} /\ q.sock = p.sock /\ q.kind = p.kind
  BY DEF Phb
<1>2. Clean(q)
  BY <1>1 DEF Clean, Watched
<1> HIDE DEF q
<1>3. Settled(Done(q, on), o, l)
  BY <1>1, <1>2, Handed
<1> QED
  BY <1>3 DEF clean_connect, q

(* The socket has become writable. *)
LEMMA WritableSettles ==
  ASSUME NEW p \in Phb, p.state = "live", p.told = <<>>, Watched(p, Handler[p.kind]),
         NEW up \in BOOLEAN, NEW sent \in BOOLEAN, NEW on \in BOOLEAN, NEW o, NEW l, on \/ l,
         ~up => o, sent /\ p.kind # "none" => up
  PROVE  Settled(CanWrite([p EXCEPT !.sock.up = up], on, sent), o, l)
<1> DEFINE k == [p.sock EXCEPT !.up = up]
           q == [p EXCEPT !.sock.up = up]
<1>1. Handler[p.kind] \in Writers /\ Handler[p.kind] # "clean_connect"
  BY DEF Handler, Writers, Phb, Kinds
<1>2. k \in SockRec /\ k.open /\ k.skew = "none" /\ k.up = up
  BY DEF Watched, Phb, SockRec
<1>3. q = [p EXCEPT !.sock = k]
  BY DEF Phb
<1> HIDE DEF k, q
<1>4. q \in Phb /\ q.state = "live" /\ q.told = <<>> /\ q.sock = k /\ q.kind = p.kind
      /\ q.inputs = p.inputs /\ q.inpa = p.inpa
  BY <1>2, <1>3 DEF Phb
<1>5. q.inputs \ {q.inpa} = {}
  BY <1>1, <1>4 DEF Watched
<1>6. gaim_input_remove(q) = [q EXCEPT !.inputs = {}]
  BY <1>5 DEF gaim_input_remove
<1>7. Settled(CanWrite(q, on, sent), o, l)
  BY <1>2, <1>4, <1>6, WriteSettles
<1> QED
  BY <1>7 DEF q

-----------------------------------------------------------------------------
(* What waits for a request, when the pool takes a step.                   *)

(* No child begins or ends to serve, the queue stays. *)
LEMMA SameKeeps ==
  ASSUME NEW D, NEW E, E.queue = D.queue,
         \A c \in Reqs, q \in Reqs : Serves(E, c, q) <=> Serves(D, c, q)
  PROVE  \A q \in Reqs : Keeps(D, E, q)
  BY DEF Keeps, Nothing, Once, NoChild, NoPlace, OneChild, OnePlace

(* Child c ends to serve r. *)
LEMMA LeaveKeeps ==
  ASSUME NEW D, NEW E, NEW c \in Reqs, NEW r \in Reqs, E.queue = D.queue, Serves(D, c, r),
         \A b \in Reqs, q \in Reqs : Serves(E, b, q) <=> Serves(D, b, q) /\ b # c
  PROVE  /\ Once(D, r) => Nothing(E, r)
         /\ \A q \in Reqs \ {r} : Keeps(D, E, q)
<1>1. \A q \in Reqs \ {r} : ~Serves(D, c, q)
  BY DEF Serves
<1>2. ASSUME NEW q \in Reqs \ {r}, NEW b \in Reqs
      PROVE  Serves(E, b, q) <=> Serves(D, b, q)
  BY <1>1
<1>3. \A q \in Reqs \ {r} : Keeps(D, E, q)
  BY <1>2 DEF Keeps, Nothing, Once, NoChild, NoPlace, OneChild, OnePlace
<1>4. Once(D, r) => Nothing(E, r)
  BY DEF Once, Nothing, NoChild, NoPlace, OneChild, OnePlace
<1> QED
  BY <1>3, <1>4

(* Child c begins to serve r. *)
LEMMA JoinKeeps ==
  ASSUME NEW D, NEW E, NEW c \in Reqs, NEW r \in Reqs, E.queue = D.queue,
         \A q \in Reqs : ~Serves(D, c, q),
         \A b \in Reqs, q \in Reqs : Serves(E, b, q) <=> Serves(D, b, q) \/ (b = c /\ q = r)
  PROVE  /\ Nothing(D, r) => Once(E, r)
         /\ \A q \in Reqs \ {r} : Keeps(D, E, q)
<1>1. \A q \in Reqs \ {r} : Keeps(D, E, q)
  BY DEF Keeps, Nothing, Once, NoChild, NoPlace, OneChild, OnePlace
<1>2. Nothing(D, r) => Once(E, r)
  BY DEF Once, Nothing, NoChild, NoPlace, OneChild, OnePlace
<1> QED
  BY <1>1, <1>2

(* r joins the queue. *)
LEMMA QueueKeeps ==
  ASSUME NEW D \in Dns, NEW E, NEW r \in Reqs, E.queue = Append(D.queue, r),
         \A b \in Reqs, q \in Reqs : Serves(E, b, q) <=> Serves(D, b, q)
  PROVE  /\ Nothing(D, r) => Once(E, r)
         /\ \A q \in Reqs \ {r} : Keeps(D, E, q)
<1> DEFINE n == Len(D.queue)
<1>1. D.queue \in Seq(Reqs) /\ n \in Nat
  BY DEF Dns
<1>2. 1 .. Len(E.queue) = 1 .. n + 1 /\ E.queue[n + 1] = r /\ \A i \in 1 .. n : E.queue[i] = D.queue[i]
  BY <1>1
<1>3. \A i \in 1 .. n + 1 : i \in 1 .. n \/ i = n + 1
  BY <1>1
<1>4. 1 .. n \subseteq 1 .. n + 1 /\ n + 1 \in 1 .. n + 1
  BY <1>1
<1> HIDE DEF n
<1>5. ASSUME NEW q \in Reqs \ {r}
      PROVE  Keeps(D, E, q)
  <2>1. NoPlace(D, q) <=> NoPlace(E, q)
    BY <1>2, <1>3, <1>4, n = Len(D.queue) DEF NoPlace, n
  <2>2. OnePlace(D, q) => OnePlace(E, q)
    <3> SUFFICES ASSUME OnePlace(D, q)
                 PROVE  OnePlace(E, q)
      OBVIOUS
    <3>1. PICK i \in 1 .. n : \A j \in 1 .. n : D.queue[j] = q <=> j = i
      BY DEF OnePlace, n
    <3>2. \A j \in 1 .. n + 1 : E.queue[j] = q <=> j = i
      BY <1>2, <1>3, <3>1, <1>1 DEF n
    <3>3. i \in 1 .. Len(E.queue)
      BY <1>2, <1>4
    <3> QED
      BY <1>2, <3>2, <3>3 DEF OnePlace
  <2> QED
    BY <2>1, <2>2 DEF Keeps, Nothing, Once, NoChild, OneChild
<1>6. ASSUME Nothing(D, r)
      PROVE  Once(E, r)
  <2>1. \A j \in 1 .. n + 1 : E.queue[j] = r <=> j = n + 1
    BY <1>1, <1>2, <1>3, <1>6 DEF Nothing, NoPlace, n
  <2>2. OnePlace(E, r)
    <3>1. n + 1 \in 1 .. Len(E.queue)
      BY <1>2, <1>4
    <3> QED
      BY <1>2, <2>1, <3>1 DEF OnePlace
  <2> QED
    BY <1>6, <2>2 DEF Nothing, Once, NoChild
<1> QED
  BY <1>5, <1>6

(* Child c turns from r to the first of the queue. *)
LEMMA TurnKeeps ==
  ASSUME NEW D \in Dns, NEW E, NEW c \in Reqs, NEW r \in Reqs, D.queue # <<>>,
         E.queue = Tail(D.queue), Serves(D, c, r),
         \A b \in Reqs, q \in Reqs :
           Serves(E, b, q) <=> (Serves(D, b, q) /\ b # c) \/ (b = c /\ q = Head(D.queue))
  PROVE  /\ Once(D, r) => Nothing(E, r)
         /\ \A q \in Reqs \ {r} : Keeps(D, E, q)
<1> DEFINE n == Len(D.queue)
           h == Head(D.queue)
<1>1. D.queue \in Seq(Reqs) /\ n \in Nat /\ n # 0 /\ h = D.queue[1] /\ h \in Reqs
  BY DEF Dns
<1>2. 1 .. Len(E.queue) = 1 .. n - 1 /\ \A i \in 1 .. n - 1 : E.queue[i] = D.queue[i + 1]
  BY <1>1
<1>3. /\ \A i \in 1 .. n : i = 1 \/ (i - 1 \in 1 .. n - 1 /\ i - 1 + 1 = i)
      /\ \A i \in 1 .. n - 1 : i + 1 \in 1 .. n /\ i + 1 # 1 /\ i + 1 - 1 = i
      /\ 1 \in 1 .. n
      /\ \A i \in 1 .. n - 1, j \in 1 .. n : i + 1 = j <=> i = j - 1
  BY <1>1
<1>4. \A q \in Reqs \ {r} : ~Serves(D, c, q)
  BY DEF Serves
<1> HIDE DEF n, h
<1>5. ASSUME NEW q \in Reqs \ {r}, q # h
      PROVE  Keeps(D, E, q)
  <2>1. \A b \in Reqs : Serves(E, b, q) <=> Serves(D, b, q)
    BY <1>4, <1>5 DEF h
  <2>2. NoPlace(D, q) => NoPlace(E, q)
    BY <1>2, <1>3 DEF NoPlace, n
  <2>3. OnePlace(D, q) => OnePlace(E, q)
    <3> SUFFICES ASSUME OnePlace(D, q)
                 PROVE  OnePlace(E, q)
      OBVIOUS
    <3>1. PICK i \in 1 .. n : \A j \in 1 .. n : D.queue[j] = q <=> j = i
      BY DEF OnePlace, n
    <3>2. i # 1
      BY <1>1, <1>5, <3>1
    <3>3. i - 1 \in 1 .. n - 1
      BY <1>3, <3>1, <3>2
    <3>4. ASSUME NEW j \in 1 .. n - 1
          PROVE  E.queue[j] = q <=> j = i - 1
      <4>1. j + 1 \in 1 .. n /\ E.queue[j] = D.queue[j + 1]
        BY <1>2, <1>3
      <4>2. D.queue[j + 1] = q <=> j + 1 = i
        BY <3>1, <4>1
      <4>3. j + 1 = i <=> j = i - 1
        BY <1>1
      <4> QED
        BY <4>1, <4>2, <4>3
    <3>5. i - 1 \in 1 .. Len(E.queue)
      BY <1>2, <3>3
    <3> QED
      BY <1>2, <3>4, <3>5 DEF OnePlace
  <2> QED
    BY <2>1, <2>2, <2>3 DEF Keeps, Nothing, Once, NoChild, OneChild
<1>6. ASSUME Once(D, r)
      PROVE  Nothing(E, r)
  <2>1. OneChild(D, r) /\ NoPlace(D, r)
    BY <1>6 DEF Once, NoChild
  <2>2. \A b \in Reqs : Serves(D, b, r) => b = c
    BY <2>1 DEF OneChild
  <2>3. h # r
    BY <1>1, <1>3, <2>1 DEF NoPlace, n
  <2>4. NoChild(E, r)
    BY <2>2, <2>3 DEF NoChild, h
  <2>5. NoPlace(E, r)
    BY <1>2, <1>3, <2>1 DEF NoPlace, n
  <2> QED
    BY <2>4, <2>5 DEF Nothing
<1>7. ASSUME h # r
      PROVE  Keeps(D, E, h)
  <2>1. ~NoPlace(D, h)
    BY <1>1, <1>3 DEF NoPlace, n
  <2>2. ASSUME NoChild(D, h), OnePlace(D, h)
        PROVE  Once(E, h)
    <3>1. PICK i \in 1 .. n : \A j \in 1 .. n : D.queue[j] = h <=> j = i
      BY <2>2 DEF OnePlace, n
    <3>2. i = 1
      BY <1>1, <1>3, <3>1
    <3>3. NoPlace(E, h)
      <4>1. \A k \in 1 .. n - 1 : D.queue[k + 1] # h
        BY <1>3, <3>1, <3>2
      <4> QED
        BY <1>2, <4>1 DEF NoPlace
    <3>4. \A b \in Reqs : Serves(E, b, h) <=> b = c
      BY <1>1, <2>2 DEF NoChild, h
    <3>5. OneChild(E, h)
      BY <3>4 DEF OneChild
    <3> QED
      BY <3>3, <3>5 DEF Once
  <2> QED
    BY <2>1, <2>2 DEF Keeps, Nothing, Once
<1> QED
  BY <1>1, <1>5, <1>6, <1>7

-----------------------------------------------------------------------------
(* The pool stays in order.                                                *)

(* There are finitely many requests; 0 is none. *)
LEMMA ReqsFinite == IsFiniteSet(Reqs) /\ 0 \notin Reqs /\ Reqs \subseteq 0 .. NReqs
<1>1. NReqs \in Nat
  BY ProxyAssumption
<1>2. IsFiniteSet(1 .. NReqs)
  BY <1>1, FS_Interval
<1> QED
  BY <1>1, <1>2 DEF Reqs

(* The children that are counted are finitely many. *)
LEMMA KeptFinite ==
  ASSUME NEW D
  PROVE  IsFiniteSet(Kept(D)) /\ Kept(D) \subseteq Reqs
<1>1. Kept(D) \subseteq Reqs
  BY DEF Kept
<1> QED
  BY <1>1, ReqsFinite, FS_Subset

(* The values of a child. *)
LEMMA Children ==
  /\ \A at \in {"none", "gone"} : Child(at) \in ChildRec /\ Child(at).at = at
  /\ \A k \in ChildRec : Idle(k) \in ChildRec /\ Idle(k).at = "free"
  /\ \A k \in ChildRec, r \in Reqs :
       Busy(k, r) \in ChildRec /\ Busy(k, r).at = "busy" /\ Busy(k, r).req = r
<1>1. NReqs \in Nat /\ 0 \in 0 .. NReqs
  BY ProxyAssumption
<1>2. \A at \in {"none", "gone"} : Child(at) \in ChildRec /\ Child(at).at = at
  BY <1>1 DEF Child, ChildRec, Ats
<1>3. \A k \in ChildRec : Idle(k) \in ChildRec /\ Idle(k).at = "free"
  BY <1>1 DEF Idle, ChildRec, Ats
<1>4. ASSUME NEW k \in ChildRec, NEW r \in Reqs
      PROVE  Busy(k, r) \in ChildRec /\ Busy(k, r).at = "busy" /\ Busy(k, r).req = r
  <2>1. r \in 0 .. NReqs
    BY ReqsFinite
  <2> QED
    BY <2>1 DEF Busy, ChildRec, Ats
<1> QED
  BY <1>2, <1>3, <1>4

(* req_free of one child. *)
LEMMA FreeOne ==
  ASSUME NEW D \in Dns, NEW c \in Reqs
  PROVE  req_free(D, {c}) = [D EXCEPT !.child = [@ EXCEPT ![c] = Child("gone")], !.number = @ - 1]
<1>1. Cardinality({c}) = 1
  BY FS_Singleton
<1>2. Gone(D.child, {c}) = [D.child EXCEPT ![c] = Child("gone")]
  BY DEF Gone, Dns
<1> QED
  BY <1>1, <1>2 DEF req_free

(* What is left of the children when child c is lost, ... *)
LEMMA LoseOne ==
  ASSUME NEW D, PoolOK(D), NEW c \in Reqs, D.child[c].at = "busy"
  PROVE  LET E == req_free(D, {c})
             r == D.child[c].req
         IN  /\ PoolOK(E)
             /\ Once(D, r) => Nothing(E, r)
             /\ \A q \in Reqs \ {r} : Keeps(D, E, q)
             /\ \A q \in Reqs : D.child[q].at = "none" => E.child[q].at = "none"
<1> DEFINE E == req_free(D, {c})
           r == D.child[c].req
<1>1. D \in Dns /\ r \in Reqs
  BY DEF PoolOK, ReqsOK
<1>2. E = [D EXCEPT !.child = [@ EXCEPT ![c] = Child("gone")], !.number = @ - 1]
  BY <1>1, FreeOne
<1>3. Child("gone") \in ChildRec /\ Child("gone").at = "gone"
  BY Children
<1> HIDE DEF E, r
<1>4. /\ E \in Dns /\ E.free = D.free /\ E.queue = D.queue /\ E.number = D.number - 1
      /\ E.child[c] = Child("gone")
      /\ \A b \in Reqs \ {c} : E.child[b] = D.child[b]
  <2> DEFINE X == [D.child EXCEPT ![c] = Child("gone")]
  <2>1. X \in [Reqs -> ChildRec] /\ X[c] = Child("gone") /\ \A b \in Reqs \ {c} : X[b] = D.child[b]
    BY <1>1, <1>3 DEF Dns
  <2>2. E = [D EXCEPT !.child = X, !.number = D.number - 1] /\ D.number - 1 \in Int
    BY <1>1, <1>2 DEF Dns
  <2> HIDE DEF X
  <2>3. E \in Dns /\ E.free = D.free /\ E.queue = D.queue /\ E.number = D.number - 1 /\ E.child = X
    BY <1>1, <2>1, <2>2 DEF Dns
  <2> QED
    BY <2>1, <2>3
<1>5. \A b \in Reqs, q \in Reqs : Serves(E, b, q) <=> Serves(D, b, q) /\ b # c
  BY <1>3, <1>4 DEF Serves
<1>6. Serves(D, c, r)
  BY DEF Serves, r
<1>7. FreeOK(E)
  <2>1. \A i \in 1 .. Len(D.free) : D.free[i] \in Reqs
    BY <1>1 DEF Dns
  <2>2. FreeOK(D)
    BY DEF PoolOK
  <2> QED
    BY <1>3, <1>4, <2>1, <2>2 DEF FreeOK
<1>8. CountOK(E)
  <2>1. Kept(E) = Kept(D) \ {c} /\ c \in Kept(D)
    BY <1>3, <1>4 DEF Kept
  <2>2. Cardinality(Kept(E)) = Cardinality(Kept(D)) - 1
    BY <2>1, KeptFinite, FS_RemoveElement
  <2>3. D.number \in Int /\ MAX_DNS_CHILDREN \in Nat
    BY <1>1, ProxyAssumption DEF Dns
  <2> QED
    BY <1>4, <2>2, <2>3 DEF PoolOK, CountOK
<1>9. QueueOK(E) /\ ReqsOK(E)
  BY <1>3, <1>4 DEF PoolOK, QueueOK, ReqsOK
<1>10. PoolOK(E)
  BY <1>4, <1>7, <1>8, <1>9 DEF PoolOK
<1>11. \A q \in Reqs : D.child[q].at = "none" => E.child[q].at = "none"
  BY <1>4
<1>12. (Once(D, r) => Nothing(E, r)) /\ \A q \in Reqs \ {r} : Keeps(D, E, q)
  BY <1>1, <1>4, <1>5, <1>6, LeaveKeeps
<1> QED
  BY <1>10, <1>11, <1>12 DEF E, r

(* ... and when it has answered. *)
LEMMA ReleaseOne ==
  ASSUME NEW D, PoolOK(D), NEW c \in Reqs, D.child[c].at = "busy"
  PROVE  LET E == release_dns_child(D, c)
             r == D.child[c].req
         IN  /\ PoolOK(E)
             /\ Once(D, r) => Nothing(E, r)
             /\ \A q \in Reqs \ {r} : Keeps(D, E, q)
             /\ \A q \in Reqs : D.child[q].at = "none" => E.child[q].at = "none"
<1> DEFINE E == release_dns_child(D, c)
           r == D.child[c].req
           k == D.child[c]
<1>1. D \in Dns /\ r \in Reqs /\ D.queue \in Seq(Reqs) /\ D.free \in Seq(Reqs) /\ k \in ChildRec
  BY DEF PoolOK, ReqsOK, Dns
<1>2. Serves(D, c, r)
  BY DEF Serves
<1>3. FreeOK(D) /\ CountOK(D) /\ QueueOK(D) /\ ReqsOK(D)
  BY DEF PoolOK
<1>4. k.at = "busy"
  OBVIOUS
<1>5. \A i \in 1 .. Len(D.free) : D.free[i] \in Reqs /\ D.free[i] # c
  BY <1>1, <1>3, <1>4 DEF FreeOK
<1> HIDE DEF E, r
<1>6. CASE D.queue = <<>>
  <2>1. E = [D EXCEPT !.child = [@ EXCEPT ![c] = Idle(k)], !.free = Append(@, c)]
    BY <1>6 DEF release_dns_child, E
  <2>2. Idle(k) \in ChildRec /\ Idle(k).at = "free"
    BY <1>1, Children
  <2>3. /\ E \in Dns /\ E.free = Append(D.free, c) /\ E.queue = D.queue /\ E.number = D.number
        /\ E.child[c] = Idle(k)
        /\ \A b \in Reqs \ {c} : E.child[b] = D.child[b]
    <3> HIDE DEF k
    <3> DEFINE X == [D.child EXCEPT ![c] = Idle(k)]
               F == Append(D.free, c)
    <3>1. X \in [Reqs -> ChildRec] /\ X[c] = Idle(k) /\ \A b \in Reqs \ {c} : X[b] = D.child[b]
      BY <1>1, <2>2 DEF Dns
    <3>2. E = [D EXCEPT !.child = X, !.free = F] /\ F \in Seq(Reqs)
      BY <1>1, <2>1 DEF Dns
    <3> HIDE DEF X, F
    <3>3. E \in Dns /\ E.free = F /\ E.queue = D.queue /\ E.number = D.number /\ E.child = X
      BY <1>1, <3>1, <3>2 DEF Dns
    <3> QED
      BY <3>1, <3>3 DEF F
  <2>4. \A b \in Reqs, q \in Reqs : Serves(E, b, q) <=> Serves(D, b, q) /\ b # c
    BY <2>2, <2>3 DEF Serves
  <2>5. FreeOK(E)
    <3> DEFINE n == Len(D.free)
    <3>1. n \in Nat /\ 1 .. Len(E.free) = 1 .. n + 1 /\ E.free[n + 1] = c
          /\ \A i \in 1 .. n : E.free[i] = D.free[i]
      BY <1>1, <2>3
    <3>2. \A i \in 1 .. n + 1 : i \in 1 .. n \/ i = n + 1
      BY <3>1
    <3>3. 1 .. n \subseteq 1 .. n + 1 /\ n + 1 \in 1 .. n + 1
      BY <3>1
    <3>4. \A i \in 1 .. n : D.child[D.free[i]].at = "free"
      BY <1>3 DEF FreeOK
    <3>5. \A b \in Reqs : D.child[b].at = "free" => \E i \in 1 .. n : D.free[i] = b
      BY <1>3 DEF FreeOK
    <3>6. \A i, j \in 1 .. n : D.free[i] = D.free[j] => i = j
      BY <1>3 DEF FreeOK
    <3>7. \A i \in 1 .. n : D.free[i] \in Reqs \ {c}
      BY <1>5
    <3> HIDE DEF n
    <3>8. \A i \in 1 .. n + 1 : E.child[E.free[i]].at = "free"
      BY <2>2, <2>3, <3>1, <3>2, <3>4, <3>7
    <3>9. \A b \in Reqs : E.child[b].at = "free" => \E i \in 1 .. n + 1 : E.free[i] = b
      BY <2>3, <3>1, <3>3, <3>5
    <3>10. \A i, j \in 1 .. n + 1 : E.free[i] = E.free[j] => i = j
      BY <3>1, <3>2, <3>6, <3>7
    <3> QED
      BY <3>1, <3>8, <3>9, <3>10 DEF FreeOK
  <2>6. Kept(E) = Kept(D)
    BY <1>4, <2>2, <2>3 DEF Kept
  <2>7. CountOK(E)
    BY <1>3, <2>3, <2>6 DEF CountOK
  <2>8. QueueOK(E) /\ ReqsOK(E)
    BY <1>3, <1>6, <2>2, <2>3 DEF QueueOK, ReqsOK
  <2>9. PoolOK(E)
    BY <2>3, <2>5, <2>7, <2>8 DEF PoolOK
  <2>10. (Once(D, r) => Nothing(E, r)) /\ \A q \in Reqs \ {r} : Keeps(D, E, q)
    BY <1>1, <1>2, <2>3, <2>4, LeaveKeeps
  <2>11. \A q \in Reqs : D.child[q].at = "none" => E.child[q].at = "none"
    BY <1>4, <2>3
  <2> QED
    BY <2>9, <2>10, <2>11 DEF E, r
<1>7. CASE D.queue # <<>> /\ Usable(k)
  <2> DEFINE h == Head(D.queue)
             x == Busy(k, h)
  <2>1. h \in Reqs /\ Tail(D.queue) \in Seq(Reqs)
    BY <1>1, <1>7
  <2>2. x \in ChildRec /\ x.at = "busy" /\ x.req = h
    BY <1>1, <2>1, Children
  <2>3. E = [D EXCEPT !.child = [@ EXCEPT ![c] = x], !.queue = Tail(@)]
    BY <1>7 DEF release_dns_child, E
  <2> HIDE DEF x
  <2>4. /\ E \in Dns /\ E.free = D.free /\ E.queue = Tail(D.queue) /\ E.number = D.number
        /\ E.child[c] = x
        /\ \A b \in Reqs \ {c} : E.child[b] = D.child[b]
    BY <1>1, <2>1, <2>2, <2>3 DEF Dns
  <2> HIDE DEF h
  <2>5. \A b \in Reqs, q \in Reqs :
          Serves(E, b, q) <=> (Serves(D, b, q) /\ b # c) \/ (b = c /\ q = h)
    BY <2>2, <2>4 DEF Serves
  <2>6. FreeOK(E)
    <3>1. \A i \in 1 .. Len(D.free) : E.child[D.free[i]] = D.child[D.free[i]]
      BY <1>5, <2>4
    <3>2. \A b \in Reqs : E.child[b].at = "free" => D.child[b].at = "free"
      BY <2>2, <2>4
    <3> QED
      BY <1>3, <2>4, <3>1, <3>2 DEF FreeOK
  <2>7. Kept(E) = Kept(D)
    BY <1>4, <2>2, <2>4 DEF Kept
  <2>8. CountOK(E)
    BY <1>3, <2>4, <2>7 DEF CountOK
  <2>9. QueueOK(E) /\ ReqsOK(E)
    BY <1>3, <1>7, <2>1, <2>2, <2>4 DEF QueueOK, ReqsOK
  <2>10. PoolOK(E)
    BY <2>4, <2>6, <2>8, <2>9 DEF PoolOK
  <2>11. (Once(D, r) => Nothing(E, r)) /\ \A q \in Reqs \ {r} : Keeps(D, E, q)
    BY <1>1, <1>2, <1>7, <2>4, <2>5, TurnKeeps DEF h
  <2>12. \A q \in Reqs : D.child[q].at = "none" => E.child[q].at = "none"
    BY <1>4, <2>4
  <2> QED
    BY <2>10, <2>11, <2>12 DEF E, r
<1>8. CASE D.queue # <<>> /\ ~Usable(k)
  <2>1. E = req_free(D, {c})
    BY <1>8 DEF release_dns_child, E
  <2> QED
    BY <2>1, LoseOne DEF E, r
<1> QED
  BY <1>6, <1>7, <1>8

(* The first n of the free children are freed. *)
Purged(D, n) ==
  [req_free(D, {D.free[i] : i \in 1 .. n}) EXCEPT !.free = SubSeq(@, n + 1, Len(@))]

(* The pool is in order without them, and serves whom it served. *)
LEMMA PurgeFree ==
  ASSUME NEW D, PoolOK(D), NEW n \in 0 .. Len(D.free)
  PROVE  LET E == Purged(D, n)
         IN  /\ PoolOK(E)
             /\ E.queue = D.queue
             /\ E.free = SubSeq(D.free, n + 1, Len(D.free))
             /\ \A b \in Reqs, q \in Reqs : Serves(E, b, q) <=> Serves(D, b, q)
             /\ \A b \in Reqs : D.child[b].at = "none" <=> E.child[b].at = "none"
<1> DEFINE E == Purged(D, n)
           S == {D.free[i] : i \in 1 .. n}
           X == Gone(D.child, S)
           F == SubSeq(D.free, n + 1, Len(D.free))
           k == Len(D.free)
<1>1. D \in Dns /\ D.queue \in Seq(Reqs) /\ D.free \in Seq(Reqs) /\ D.number \in Int
      /\ D.child \in [Reqs -> ChildRec] /\ k \in Nat
  BY DEF PoolOK, Dns
<1>2. FreeOK(D) /\ CountOK(D) /\ QueueOK(D) /\ ReqsOK(D)
  BY DEF PoolOK
<1>3. 1 .. n \subseteq 1 .. k
  BY <1>1
<1>4. \A i \in 1 .. k : D.free[i] \in Reqs /\ D.child[D.free[i]].at = "free"
  BY <1>1, <1>2 DEF FreeOK
<1>5. S \subseteq Reqs /\ \A b \in S : D.child[b].at = "free"
  BY <1>3, <1>4
<1>6. S \subseteq Kept(D) /\ IsFiniteSet(S) /\ Cardinality(S) \in Nat
  <2>1. S \subseteq Kept(D)
    BY <1>5 DEF Kept
  <2>2. IsFiniteSet(S)
    BY <1>5, ReqsFinite, FS_Subset
  <2> QED
    BY <2>1, <2>2, FS_CardinalityType
<1>7. Child("gone") \in ChildRec /\ Child("gone").at = "gone"
  BY Children
<1> HIDE DEF S
<1>8. /\ X \in [Reqs -> ChildRec]
      /\ \A b \in S : X[b] = Child("gone")
      /\ \A b \in Reqs \ S : X[b] = D.child[b]
  BY <1>1, <1>5, <1>7 DEF Gone
<1>9. F \in Seq(Reqs) /\ Len(F) = k - n /\ \A i \in 1 .. k - n : F[i] = D.free[n + i]
  BY <1>1
<1>10. req_free(D, S) = [D EXCEPT !.child = X, !.number = D.number - Cardinality(S)]
  BY <1>1 DEF req_free
<1> HIDE DEF X
<1>11. req_free(D, S).free = D.free
  BY <1>1, <1>10 DEF Dns
<1>12. E = [D EXCEPT !.child = X, !.number = D.number - Cardinality(S), !.free = F]
  <2>1. E = [req_free(D, S) EXCEPT !.free = F]
    BY <1>11 DEF Purged, S
  <2> HIDE DEF E, F
  <2> QED
    BY <1>10, <2>1
<1> HIDE DEF E, F
<1>13. /\ E \in Dns /\ E.free = F /\ E.queue = D.queue /\ E.child = X
       /\ E.number = D.number - Cardinality(S)
  <2> DEFINE N == D.number - Cardinality(S)
  <2>1. N \in Int /\ E = [D EXCEPT !.child = X, !.number = N, !.free = F]
    BY <1>1, <1>6, <1>12
  <2> HIDE DEF N
  <2>2. E \in Dns /\ E.free = F /\ E.queue = D.queue /\ E.child = X /\ E.number = N
    BY <1>1, <1>8, <1>9, <2>1 DEF Dns
  <2> QED
    BY <2>2 DEF N
<1>14. /\ \A i \in 1 .. k - n : n + i \in 1 .. k /\ n + i \notin 1 .. n
       /\ \A i \in 1 .. k : i \in 1 .. n \/ (i - n \in 1 .. k - n /\ n + (i - n) = i)
       /\ \A i, j \in 1 .. k - n : n + i = n + j => i = j
       /\ 1 .. Len(F) = 1 .. k - n
  BY <1>1, <1>9
<1>15. \A i, j \in 1 .. k : D.free[i] = D.free[j] => i = j
  BY <1>2 DEF FreeOK
<1>16. \A i \in 1 .. k - n : F[i] \in Reqs \ S
  <2> SUFFICES ASSUME NEW i \in 1 .. k - n
               PROVE  F[i] \in Reqs \ S
    OBVIOUS
  <2>1. F[i] = D.free[n + i] /\ n + i \in 1 .. k /\ n + i \notin 1 .. n
    BY <1>9, <1>14
  <2>2. D.free[n + i] \in Reqs
    BY <1>4, <2>1
  <2>3. \A j \in 1 .. n : D.free[j] # D.free[n + i]
    BY <1>3, <1>15, <2>1
  <2>4. D.free[n + i] \notin S
    BY <2>3 DEF S
  <2> QED
    BY <2>1, <2>2, <2>4
<1>17. FreeOK(E)
  <2>1. \A i \in 1 .. k - n : X[F[i]].at = "free"
    <3> SUFFICES ASSUME NEW i \in 1 .. k - n
                 PROVE  X[F[i]].at = "free"
      OBVIOUS
    <3>1. X[F[i]] = D.child[F[i]] /\ F[i] = D.free[n + i] /\ n + i \in 1 .. k
      BY <1>8, <1>9, <1>14, <1>16
    <3> QED
      BY <1>4, <3>1
  <2>2. ASSUME NEW b \in Reqs, X[b].at = "free"
        PROVE  \E i \in 1 .. k - n : F[i] = b
    <3>1. b \notin S
      BY <1>7, <1>8, <2>2
    <3>2. D.child[b].at = "free"
      BY <1>8, <2>2, <3>1
    <3>3. PICK i \in 1 .. k : D.free[i] = b
      BY <1>2, <3>2 DEF FreeOK
    <3>4. i \notin 1 .. n
      BY <3>1, <3>3 DEF S
    <3>5. i - n \in 1 .. k - n /\ n + (i - n) = i
      BY <1>14, <3>4
    <3>6. F[i - n] = b
      BY <1>9, <3>3, <3>5
    <3> QED
      BY <3>5, <3>6
  <2>3. \A i, j \in 1 .. k - n : F[i] = F[j] => i = j
    BY <1>9, <1>14, <1>15
  <2> QED
    BY <1>13, <1>14, <2>1, <2>2, <2>3 DEF FreeOK
<1>18. CountOK(E)
  <2>1. Kept(E) = Kept(D) \ S
    BY <1>5, <1>7, <1>8, <1>13 DEF Kept
  <2>2. Cardinality(Kept(E)) = Cardinality(Kept(D)) - Cardinality(Kept(D) \cap S)
    BY <2>1, KeptFinite, FS_Difference
  <2>3. Kept(D) \cap S = S
    BY <1>6
  <2>4. MAX_DNS_CHILDREN \in Nat
    BY ProxyAssumption
  <2>5. Cardinality(Kept(E)) = Cardinality(Kept(D)) - Cardinality(S)
    BY <2>2, <2>3
  <2> QED
    BY <1>1, <1>2, <1>6, <1>13, <2>4, <2>5 DEF CountOK
<1>19. QueueOK(E)
  <2> SUFFICES ASSUME D.queue # <<>>
               PROVE  F = <<>> /\ \E c \in Reqs : X[c].at \in {"busy", "gone"}
    BY <1>13 DEF QueueOK
  <2>1. D.free = <<>>
    BY <1>2 DEF QueueOK
  <2>2. PICK c \in Reqs : D.child[c].at \in {"busy", "gone"}
    BY <1>2 DEF QueueOK
  <2>3. k = 0 /\ n = 0 /\ Len(F) = 0
    BY <1>1, <1>9, <2>1
  <2>4. F = <<>>
    BY <1>9, <2>3
  <2>5. X[c] = D.child[c]
    BY <1>5, <1>8, <2>2
  <2> QED
    BY <2>2, <2>4, <2>5
<1>20. \A b \in Reqs, q \in Reqs : Serves(E, b, q) <=> Serves(D, b, q)
  <2> SUFFICES ASSUME NEW b \in Reqs
               PROVE  X[b] = D.child[b] \/ (X[b].at = "gone" /\ D.child[b].at = "free")
    BY <1>13 DEF Serves
  <2> QED
    BY <1>5, <1>7, <1>8
<1>21. ReqsOK(E)
  <2>1. \A b \in Reqs : X[b] = D.child[b] \/ X[b].at = "gone"
    BY <1>7, <1>8
  <2> QED
    BY <1>2, <1>13, <2>1 DEF ReqsOK
<1>22. \A b \in Reqs : D.child[b].at = "none" <=> E.child[b].at = "none"
  BY <1>5, <1>7, <1>8, <1>13
<1>23. PoolOK(E)
  BY <1>13, <1>17, <1>18, <1>19, <1>21 DEF PoolOK
<1> QED
  BY <1>13, <1>20, <1>22, <1>23 DEF E, F

(* The first free child takes r. *)
LEMMA TakeFree ==
  ASSUME NEW D, PoolOK(D), D.free # <<>>, NEW r \in Reqs
  PROVE  LET E == [D EXCEPT !.child[Head(D.free)] = Busy(@, r), !.free = Tail(@)]
         IN  /\ PoolOK(E)
             /\ Nothing(D, r) => Once(E, r)
             /\ \A q \in Reqs \ {r} : Keeps(D, E, q)
             /\ \A q \in Reqs : D.child[q].at = "none" => E.child[q].at = "none"
<1> DEFINE c == Head(D.free)
           x == Busy(D.child[c], r)
           X == [D.child EXCEPT ![c] = x]
           F == Tail(D.free)
           k == Len(D.free)
           E == [D EXCEPT !.child[Head(D.free)] = Busy(@, r), !.free = Tail(@)]
<1>1. D \in Dns /\ D.queue \in Seq(Reqs) /\ D.free \in Seq(Reqs) /\ D.number \in Int
      /\ D.child \in [Reqs -> ChildRec] /\ k \in Nat \ {0}
  BY DEF PoolOK, Dns
<1>2. FreeOK(D) /\ CountOK(D) /\ QueueOK(D) /\ ReqsOK(D)
  BY DEF PoolOK
<1>3. c \in Reqs /\ c = D.free[1] /\ 1 \in 1 .. k /\ D.child[c].at = "free"
  BY <1>1, <1>2 DEF FreeOK
<1>4. x \in ChildRec /\ x.at = "busy" /\ x.req = r
  BY <1>1, <1>3, Children
<1>5. F \in Seq(Reqs) /\ 1 .. Len(F) = 1 .. k - 1 /\ \A i \in 1 .. k - 1 : F[i] = D.free[i + 1]
  BY <1>1
<1>6. /\ \A i \in 1 .. k - 1 : i + 1 \in 1 .. k /\ i + 1 # 1
      /\ \A i \in 1 .. k : i = 1 \/ (i - 1 \in 1 .. k - 1 /\ i - 1 + 1 = i)
      /\ \A i, j \in 1 .. k - 1 : i + 1 = j + 1 => i = j
  BY <1>1
<1>7. /\ \A i \in 1 .. k : D.free[i] \in Reqs /\ D.child[D.free[i]].at = "free"
      /\ \A i, j \in 1 .. k : D.free[i] = D.free[j] => i = j
      /\ \A b \in Reqs : D.child[b].at = "free" => \E i \in 1 .. k : D.free[i] = b
  BY <1>1, <1>2 DEF FreeOK
<1>8. E = [D EXCEPT !.child = X, !.free = F]
  OBVIOUS
<1> HIDE DEF c, x, F, k, E
<1>9. X \in [Reqs -> ChildRec] /\ X[c] = x /\ \A b \in Reqs \ {c} : X[b] = D.child[b]
  BY <1>1, <1>3, <1>4
<1> HIDE DEF X
<1>10. E \in Dns /\ E.child = X /\ E.free = F /\ E.queue = D.queue /\ E.number = D.number
  BY <1>1, <1>5, <1>8, <1>9 DEF Dns
<1>11. \A i \in 1 .. k - 1 : F[i] \in Reqs \ {c}
  BY <1>3, <1>5, <1>6, <1>7
<1>12. FreeOK(E)
  <2>1. \A i \in 1 .. k - 1 : X[F[i]].at = "free"
    BY <1>5, <1>6, <1>7, <1>9, <1>11
  <2>2. ASSUME NEW b \in Reqs, X[b].at = "free"
        PROVE  \E i \in 1 .. k - 1 : F[i] = b
    <3>1. b # c /\ D.child[b].at = "free"
      BY <1>4, <1>9, <2>2
    <3>2. PICK i \in 1 .. k : D.free[i] = b
      BY <1>7, <3>1
    <3>3. i - 1 \in 1 .. k - 1 /\ i - 1 + 1 = i
      BY <1>3, <1>6, <3>1, <3>2
    <3> QED
      BY <1>5, <3>2, <3>3
  <2>3. \A i, j \in 1 .. k - 1 : F[i] = F[j] => i = j
    BY <1>5, <1>6, <1>7
  <2> QED
    BY <1>5, <1>10, <2>1, <2>2, <2>3 DEF FreeOK
<1>13. Kept(E) = Kept(D)
  BY <1>3, <1>4, <1>9, <1>10 DEF Kept
<1>14. CountOK(E)
  BY <1>2, <1>10, <1>13 DEF CountOK
<1>15. D.queue = <<>>
  BY <1>2 DEF QueueOK
<1>16. QueueOK(E) /\ ReqsOK(E)
  BY <1>2, <1>4, <1>9, <1>10, <1>15 DEF QueueOK, ReqsOK
<1>17. PoolOK(E)
  BY <1>10, <1>12, <1>14, <1>16 DEF PoolOK
<1>18. \A q \in Reqs : ~Serves(D, c, q)
  BY <1>3 DEF Serves
<1>19. \A b \in Reqs, q \in Reqs : Serves(E, b, q) <=> Serves(D, b, q) \/ (b = c /\ q = r)
  BY <1>4, <1>9, <1>10, <1>18 DEF Serves
<1>20. (Nothing(D, r) => Once(E, r)) /\ \A q \in Reqs \ {r} : Keeps(D, E, q)
  <2>1. c \in Reqs /\ E.queue = D.queue
    BY <1>3, <1>10
  <2> QED
    BY <1>18, <1>19, <2>1, JoinKeeps
<1>21. \A q \in Reqs : D.child[q].at = "none" => E.child[q].at = "none"
  BY <1>3, <1>9, <1>10
<1> QED
  BY <1>17, <1>20, <1>21 DEF E

(* No child is free and no more may be forked: r waits in the queue. *)
LEMMA JoinQueue ==
  ASSUME NEW D, PoolOK(D), D.free = <<>>, D.number >= MAX_DNS_CHILDREN, NEW r \in Reqs
  PROVE  LET E == [D EXCEPT !.queue = Append(@, r)]
         IN  /\ PoolOK(E)
             /\ Nothing(D, r) => Once(E, r)
             /\ \A q \in Reqs \ {r} : Keeps(D, E, q)
             /\ \A q \in Reqs : E.child[q] = D.child[q]
<1> DEFINE E == [D EXCEPT !.queue = Append(@, r)]
           Q == Append(D.queue, r)
<1>1. D \in Dns /\ D.queue \in Seq(Reqs) /\ D.number \in Int
  BY DEF PoolOK, Dns
<1>2. FreeOK(D) /\ CountOK(D) /\ QueueOK(D) /\ ReqsOK(D)
  BY DEF PoolOK
<1>3. Q \in Seq(Reqs) /\ E = [D EXCEPT !.queue = Q]
  BY <1>1
<1> HIDE DEF Q, E
<1>4. E \in Dns /\ E.child = D.child /\ E.free = D.free /\ E.queue = Q /\ E.number = D.number
  BY <1>1, <1>3 DEF Dns
<1>5. FreeOK(E) /\ CountOK(E) /\ ReqsOK(E)
  BY <1>2, <1>4 DEF FreeOK, CountOK, ReqsOK, Kept
<1>6. \E c \in Reqs : D.child[c].at \in {"busy", "gone"}
  <2>1. Cardinality(Kept(D)) # 0
    BY <1>1, <1>2, ProxyAssumption DEF CountOK
  <2>2. Kept(D) # {}
    BY <2>1, FS_EmptySet
  <2>3. PICK c \in Reqs : D.child[c].at \in {"busy", "free"}
    BY <2>2 DEF Kept
  <2>4. D.child[c].at # "free"
    BY <1>2 DEF FreeOK
  <2> QED
    BY <2>3, <2>4
<1>7. QueueOK(E)
  BY <1>4, <1>6 DEF QueueOK
<1>8. PoolOK(E)
  BY <1>4, <1>5, <1>7 DEF PoolOK
<1>9. \A b \in Reqs, q \in Reqs : Serves(E, b, q) <=> Serves(D, b, q)
  BY <1>4 DEF Serves
<1>10. (Nothing(D, r) => Once(E, r)) /\ \A q \in Reqs \ {r} : Keeps(D, E, q)
  BY <1>1, <1>4, <1>9, QueueKeeps DEF Q
<1> QED
  BY <1>4, <1>8, <1>10 DEF E

(* A child is forked for r. *)
LEMMA Fork ==
  ASSUME NEW D, PoolOK(D), D.number < MAX_DNS_CHILDREN, NEW r \in Reqs,
         D.child[r].at = "none"
  PROVE  LET E == [D EXCEPT !.number = @ + 1,
                            !.child[r] = Busy([@ EXCEPT !.alive = TRUE, !.out = TRUE], r)]
         IN  /\ PoolOK(E) /\ E.child[r].at = "busy"
             /\ Nothing(D, r) => Once(E, r)
             /\ \A q \in Reqs \ {r} : Keeps(D, E, q) /\ E.child[q] = D.child[q]
             /\ [E EXCEPT !.child[r] = Child("none"), !.number = @ - 1]
                  = [D EXCEPT !.child[r] = Child("none")]
<1> DEFINE a == [D.child[r] EXCEPT !.alive = TRUE, !.out = TRUE]
           x == Busy(a, r)
           X == [D.child EXCEPT ![r] = x]
           N == D.number + 1
           E == [D EXCEPT !.number = @ + 1,
                          !.child[r] = Busy([@ EXCEPT !.alive = TRUE, !.out = TRUE], r)]
           G == [E EXCEPT !.child[r] = Child("none"), !.number = @ - 1]
           H == [D EXCEPT !.child[r] = Child("none")]
<1>1. D \in Dns /\ D.queue \in Seq(Reqs) /\ D.free \in Seq(Reqs) /\ D.number \in Int
      /\ D.child \in [Reqs -> ChildRec] /\ N \in Int
  BY DEF PoolOK, Dns
<1>2. FreeOK(D) /\ CountOK(D) /\ QueueOK(D) /\ ReqsOK(D)
  BY DEF PoolOK
<1>3. a \in ChildRec
  BY <1>1 DEF ChildRec
<1>4. E = [D EXCEPT !.number = N, !.child = X]
  OBVIOUS
<1> HIDE DEF a, N, E
<1>5. x \in ChildRec /\ x.at = "busy" /\ x.req = r
  BY <1>3, Children
<1> HIDE DEF x
<1>6. X \in [Reqs -> ChildRec] /\ X[r] = x /\ \A b \in Reqs \ {r} : X[b] = D.child[b]
  BY <1>1, <1>5
<1>7. [X EXCEPT ![r] = Child("none")] = [D.child EXCEPT ![r] = Child("none")]
  BY <1>1
<1> HIDE DEF X
<1>8. E \in Dns /\ E.child = X /\ E.free = D.free /\ E.queue = D.queue /\ E.number = N
  BY <1>1, <1>4, <1>6 DEF Dns
<1>9. G = H
  <2>1. N - 1 = D.number
    BY <1>1 DEF N
  <2>2. G = [E EXCEPT !.child = [X EXCEPT ![r] = Child("none")], !.number = D.number]
    BY <1>8, <2>1
  <2>3. H = [D EXCEPT !.child = [D.child EXCEPT ![r] = Child("none")]]
    OBVIOUS
  <2> HIDE DEF G, H
  <2> QED
    BY <1>1, <1>4, <1>7, <2>2, <2>3 DEF Dns
<1> HIDE DEF G, H
<1>10. \A i \in 1 .. Len(D.free) : D.free[i] \in Reqs \ {r}
  BY <1>1, <1>2 DEF FreeOK
<1>11. FreeOK(E)
  <2>1. \A i \in 1 .. Len(D.free) : E.child[D.free[i]] = D.child[D.free[i]]
    BY <1>6, <1>8, <1>10
  <2>2. \A b \in Reqs : E.child[b].at = "free" => D.child[b].at = "free"
    BY <1>5, <1>6, <1>8
  <2> QED
    BY <1>2, <1>8, <2>1, <2>2 DEF FreeOK
<1>12. CountOK(E)
  <2>1. Kept(E) = Kept(D) \cup {r} /\ r \notin Kept(D)
    BY <1>5, <1>6, <1>8 DEF Kept
  <2>2. Cardinality(Kept(E)) = Cardinality(Kept(D)) + 1
    BY <2>1, KeptFinite, FS_AddElement
  <2> QED
    BY <1>1, <1>2, <1>8, <2>2, ProxyAssumption DEF CountOK, N
<1>13. QueueOK(E) /\ ReqsOK(E)
  BY <1>2, <1>5, <1>6, <1>8 DEF QueueOK, ReqsOK
<1>14. PoolOK(E)
  BY <1>8, <1>11, <1>12, <1>13 DEF PoolOK
<1>15. \A q \in Reqs : ~Serves(D, r, q)
  BY DEF Serves
<1>16. \A b \in Reqs, q \in Reqs : Serves(E, b, q) <=> Serves(D, b, q) \/ (b = r /\ q = r)
  BY <1>5, <1>6, <1>8, <1>15 DEF Serves
<1>17. (Nothing(D, r) => Once(E, r)) /\ \A q \in Reqs \ {r} : Keeps(D, E, q)
  BY <1>8, <1>15, <1>16, JoinKeeps
<1> QED
  BY <1>5, <1>6, <1>8, <1>9, <1>14, <1>17 DEF E, G, H

(* The lookup of a request for which nothing waits yet ... *)
LEMMA Ask ==
  ASSUME NEW D, PoolOK(D), NEW r \in Reqs, D.child[r].at = "none"
  PROVE  LET E == gaim_gethostbyname_async(D, r)
             G == [E EXCEPT !.child[r] = Child("none"), !.number = @ - 1]
         IN  /\ PoolOK(E)
             /\ Nothing(D, r) => Once(E, r)
             /\ \A q \in Reqs \ {r} :
                  Keeps(D, E, q) /\ (D.child[q].at = "none" => E.child[q].at = "none")
             /\ E.child[r].at = "busy" =>
                  /\ PoolOK(G)
                  /\ \A q \in Reqs :
                       Keeps(D, G, q) /\ (D.child[q].at = "none" => G.child[q].at = "none")
<1> DEFINE good == {i \in DOMAIN D.free : Usable(D.child[D.free[i]])}
           n == IF good = {} THEN Len(D.free)
                ELSE (CHOOSE i \in good : \A j \in good : i <= j) - 1
           P == Purged(D, n)
           E == gaim_gethostbyname_async(D, r)
           G == [E EXCEPT !.child[r] = Child("none"), !.number = @ - 1]
<1>1. D.free \in Seq(Reqs) /\ Len(D.free) \in Nat /\ DOMAIN D.free = 1 .. Len(D.free)
  BY DEF PoolOK, Dns
<1>2. n \in 0 .. Len(D.free) /\ (good # {} => n < Len(D.free))
  <2>1. good \subseteq 1 .. Len(D.free)
    BY <1>1
  <2>2. CASE good = {}
    BY <1>1, <2>2
  <2>3. CASE good # {}
    <3> DEFINE i == CHOOSE i \in good : \A j \in good : i <= j
    <3>1. good \subseteq Nat
      BY <1>1, <2>1
    <3> HIDE DEF good
    <3>2. \E j \in good : \A y \in good : j <= y
      BY <2>3, <3>1, LeastElement
    <3>3. i \in good
      BY <3>2
    <3>4. i \in 1 .. Len(D.free) /\ n = i - 1
      BY <2>1, <2>3, <3>3
    <3> HIDE DEF i, n
    <3> QED
      BY <1>1, <3>4
  <2> QED
    BY <2>2, <2>3
<1>3. E = IF good # {} THEN [P EXCEPT !.child[Head(P.free)] = Busy(@, r), !.free = Tail(@)]
          ELSE IF P.number >= MAX_DNS_CHILDREN THEN [P EXCEPT !.queue = Append(@, r)]
          ELSE [P EXCEPT !.number = @ + 1,
                         !.child[r] = Busy([@ EXCEPT !.alive = TRUE, !.out = TRUE], r)]
  BY DEF gaim_gethostbyname_async, Purged
<1> HIDE DEF n, good
<1>4. /\ PoolOK(P) /\ P.queue = D.queue /\ P.free = SubSeq(D.free, n + 1, Len(D.free))
      /\ \A b \in Reqs, q \in Reqs : Serves(P, b, q) <=> Serves(D, b, q)
      /\ \A b \in Reqs : D.child[b].at = "none" <=> P.child[b].at = "none"
  BY <1>2, PurgeFree
<1> HIDE DEF P
<1>5. \A q \in Reqs : Keeps(D, P, q)
  BY <1>4, SameKeeps
<1>6. P.child[r].at = "none" /\ P \in Dns
  BY <1>4 DEF PoolOK
<1>7. P.free = <<>> <=> good = {}
  <2>1. good = {} => n = Len(D.free)
    BY DEF n
  <2>2. Len(P.free) = Len(D.free) - n
    BY <1>1, <1>2, <1>4
  <2>3. P.free \in Seq(Reqs)
    BY <1>6 DEF Dns
  <2>4. P.free = <<>> <=> Len(P.free) = 0
    BY <2>3
  <2> QED
    BY <1>1, <1>2, <2>1, <2>2, <2>4
<1> HIDE DEF E
<1>8. CASE good # {}
  <2>1. E = [P EXCEPT !.child[Head(P.free)] = Busy(@, r), !.free = Tail(@)]
    BY <1>3, <1>8
  <2>2. P.free # <<>>
    BY <1>7, <1>8
  <2>3. /\ PoolOK(E)
        /\ Nothing(P, r) => Once(E, r)
        /\ \A q \in Reqs \ {r} : Keeps(P, E, q)
        /\ \A q \in Reqs : P.child[q].at = "none" => E.child[q].at = "none"
    BY <1>4, <2>1, <2>2, TakeFree
  <2>4. E.child[r].at = "none"
    BY <1>6, <2>3
  <2> QED
    BY <1>4, <1>5, <2>3, <2>4 DEF Keeps, E
<1>9. CASE good = {} /\ P.number >= MAX_DNS_CHILDREN
  <2>1. E = [P EXCEPT !.queue = Append(@, r)]
    BY <1>3, <1>9
  <2>2. P.free = <<>>
    BY <1>7, <1>9
  <2>3. /\ PoolOK(E)
        /\ Nothing(P, r) => Once(E, r)
        /\ \A q \in Reqs \ {r} : Keeps(P, E, q)
        /\ \A q \in Reqs : E.child[q] = P.child[q]
    BY <1>4, <1>9, <2>1, <2>2, JoinQueue
  <2>4. E.child[r].at = "none"
    BY <1>6, <2>3
  <2> QED
    BY <1>4, <1>5, <2>3, <2>4 DEF Keeps, E
<1>10. CASE good = {} /\ ~(P.number >= MAX_DNS_CHILDREN)
  <2>1. E = [P EXCEPT !.number = @ + 1,
                      !.child[r] = Busy([@ EXCEPT !.alive = TRUE, !.out = TRUE], r)]
    BY <1>3, <1>10
  <2>2. P.number < MAX_DNS_CHILDREN
    BY <1>6, <1>10, ProxyAssumption DEF Dns
  <2> DEFINE C == [P EXCEPT !.child[r] = Child("none")]
  <2>3. /\ PoolOK(E) /\ E.child[r].at = "busy"
        /\ Nothing(P, r) => Once(E, r)
        /\ \A q \in Reqs \ {r} : Keeps(P, E, q) /\ E.child[q] = P.child[q]
        /\ G = C
    <3> DEFINE F == [P EXCEPT !.number = @ + 1,
                          !.child[r] = Busy([@ EXCEPT !.alive = TRUE, !.out = TRUE], r)]
    <3>1. /\ PoolOK(F) /\ F.child[r].at = "busy"
          /\ Nothing(P, r) => Once(F, r)
          /\ \A q \in Reqs \ {r} : Keeps(P, F, q) /\ F.child[q] = P.child[q]
          /\ [F EXCEPT !.child[r] = Child("none"), !.number = @ - 1] = C
      BY <1>4, <1>6, <2>2, Fork
    <3>2. E = F
      BY <2>1
    <3> HIDE DEF F, C
    <3> QED
      BY <3>1, <3>2
  <2>4. Child("none") \in ChildRec /\ Child("none").at = "none"
    BY Children
  <2>5. /\ C \in Dns /\ C.free = P.free /\ C.queue = P.queue /\ C.number = P.number
        /\ C.child[r].at = "none"
        /\ \A b \in Reqs \ {r} : C.child[b] = P.child[b]
    <3> DEFINE X == [P.child EXCEPT ![r] = Child("none")]
    <3>1. X \in [Reqs -> ChildRec] /\ X[r] = Child("none")
          /\ \A b \in Reqs \ {r} : X[b] = P.child[b]
      BY <1>6, <2>4 DEF Dns
    <3>2. C = [P EXCEPT !.child = X]
      OBVIOUS
    <3> HIDE DEF X
    <3>3. C \in Dns /\ C.free = P.free /\ C.queue = P.queue /\ C.number = P.number /\ C.child = X
      BY <1>6, <3>1, <3>2 DEF Dns
    <3> QED
      BY <2>4, <3>1, <3>3
  <2> HIDE DEF C, G
  <2>6. \A b \in Reqs : C.child[b].at = P.child[b].at
    BY <1>6, <2>5
  <2>7. \A b \in Reqs, q \in Reqs : Serves(C, b, q) <=> Serves(P, b, q)
    BY <1>6, <2>5 DEF Serves
  <2>8. \A q \in Reqs : Keeps(P, C, q)
    BY <2>5, <2>7, SameKeeps
  <2>9. PoolOK(C)
    <3>1. FreeOK(P) /\ CountOK(P) /\ QueueOK(P) /\ ReqsOK(P)
      BY <1>4 DEF PoolOK
    <3>2. FreeOK(C)
      <4>1. \A i \in 1 .. Len(P.free) : P.free[i] \in Reqs
        BY <1>6 DEF Dns
      <4> QED
        BY <2>5, <2>6, <3>1, <4>1 DEF FreeOK
    <3>3. Kept(C) = Kept(P)
      BY <2>6 DEF Kept
    <3>4. CountOK(C)
      BY <2>5, <3>1, <3>3 DEF CountOK
    <3>5. QueueOK(C)
      BY <2>5, <2>6, <3>1 DEF QueueOK
    <3>6. ReqsOK(C)
      BY <2>5, <3>1 DEF ReqsOK
    <3> QED
      BY <2>5, <3>2, <3>4, <3>5, <3>6 DEF PoolOK
  <2>10. \A q \in Reqs :
           Keeps(D, G, q) /\ (D.child[q].at = "none" => G.child[q].at = "none")
    BY <1>4, <1>5, <2>3, <2>6, <2>8 DEF Keeps
  <2> QED
    BY <1>4, <1>5, <2>3, <2>9, <2>10 DEF Keeps, E, G
<1> QED
  BY <1>8, <1>9, <1>10 DEF E

(* ... and a step of a child, which goes on to serve whom it serves. *)
LEMMA ChildStep ==
  ASSUME NEW D, PoolOK(D), NEW c \in Reqs, NEW k \in ChildRec,
         k.at = D.child[c].at, k.req = D.child[c].req
  PROVE  LET E == [D EXCEPT !.child = [@ EXCEPT ![c] = k]]
         IN  /\ PoolOK(E)
             /\ \A q \in Reqs : Keeps(D, E, q)
             /\ \A q \in Reqs : D.child[q].at = "none" => E.child[q].at = "none"
<1> DEFINE X == [D.child EXCEPT ![c] = k]
           E == [D EXCEPT !.child = [@ EXCEPT ![c] = k]]
<1>1. D \in Dns /\ D.child \in [Reqs -> ChildRec]
  BY DEF PoolOK, Dns
<1>2. FreeOK(D) /\ CountOK(D) /\ QueueOK(D) /\ ReqsOK(D)
  BY DEF PoolOK
<1>3. X \in [Reqs -> ChildRec] /\ \A b \in Reqs : X[b].at = D.child[b].at /\ X[b].req = D.child[b].req
  BY <1>1
<1>4. E = [D EXCEPT !.child = X]
  OBVIOUS
<1> HIDE DEF X, E
<1>5. E \in Dns /\ E.child = X /\ E.free = D.free /\ E.queue = D.queue /\ E.number = D.number
  BY <1>1, <1>3, <1>4 DEF Dns
<1>6. \A i \in 1 .. Len(D.free) : D.free[i] \in Reqs
  BY <1>1 DEF Dns
<1>7. FreeOK(E)
  BY <1>2, <1>3, <1>5, <1>6 DEF FreeOK
<1>8. Kept(E) = Kept(D)
  BY <1>3, <1>5 DEF Kept
<1>9. CountOK(E) /\ QueueOK(E) /\ ReqsOK(E)
  BY <1>2, <1>3, <1>5, <1>8 DEF CountOK, QueueOK, ReqsOK
<1>10. PoolOK(E)
  BY <1>5, <1>7, <1>9 DEF PoolOK
<1>11. \A b \in Reqs, q \in Reqs : Serves(E, b, q) <=> Serves(D, b, q)
  BY <1>3, <1>5 DEF Serves
<1>12. \A q \in Reqs : Keeps(D, E, q)
  BY <1>5, <1>11, SameKeeps
<1>13. \A q \in Reqs : D.child[q].at = "none" => E.child[q].at = "none"
  BY <1>3, <1>5
<1> QED
  BY <1>10, <1>12, <1>13 DEF E

-----------------------------------------------------------------------------
(* The invariant.                                                          *)

(* The invariant holds initially. *)
LEMMA InitIInv == Init => IInv
<1> SUFFICES ASSUME Init
             PROVE  IInv
  OBVIOUS
<1>1. PICK kinds \in Settings :
        phb = [r \in Reqs |-> [kind |-> kinds[r], state |-> "unused", inpa |-> "none",
                               inputs |-> {}, sock |-> NoSocket, told |-> <<>>]]
  BY DEF Init
<1>2. \A r \in Reqs : kinds[r] \in Kinds
  BY <1>1, ProxyAssumption
<1>3. /\ dns = [child |-> [c \in Reqs |-> Child("none")], free |-> <<>>, queue |-> <<>>,
                number |-> 0]
      /\ gc = TRUE /\ odd = {} /\ left = {}
  BY DEF Init
<1>4. NoSocket \in SockRec
  BY DEF NoSocket, SockRec
<1>5. \A r \in Reqs : phb[r] \in Phb /\ phb[r].state = "unused" /\ Untouched(phb[r])
  <2> SUFFICES ASSUME NEW r \in Reqs
               PROVE  phb[r] \in Phb /\ phb[r].state = "unused" /\ Untouched(phb[r])
    OBVIOUS
  <2>1. phb[r] = [kind |-> kinds[r], state |-> "unused", inpa |-> "none",
                  inputs |-> {}, sock |-> NoSocket, told |-> <<>>]
    BY <1>1
  <2>2. <<>> \in Seq({"failure", "socket"}) /\ {} \in SUBSET Handlers
    OBVIOUS
  <2>3. phb[r] \in Phb
    BY <1>2, <1>4, <2>1, <2>2 DEF Phb
  <2>4. phb[r].state = "unused" /\ Untouched(phb[r])
    BY <2>1 DEF Untouched
  <2> QED
    BY <2>3, <2>4
<1>6. phb \in [Reqs -> Phb]
  BY <1>1, <1>5
<1>7. Child("none") \in ChildRec /\ Child("none").at = "none"
  BY Children
<1>8. /\ dns.free = <<>> /\ dns.queue = <<>> /\ dns.number = 0
      /\ \A c \in Reqs : dns.child[c] = Child("none")
  BY <1>3
<1>9. dns \in Dns
  <2>1. <<>> \in Seq(Reqs)
    OBVIOUS
  <2> QED
    BY <1>3, <1>7, <2>1 DEF Dns
<1>10. Kept(dns) = {}
  BY <1>7, <1>8 DEF Kept
<1>11. CountOK(dns)
  BY <1>8, <1>10, FS_EmptySet, ProxyAssumption DEF CountOK
<1>12. FreeOK(dns) /\ QueueOK(dns) /\ ReqsOK(dns)
  BY <1>7, <1>8 DEF FreeOK, QueueOK, ReqsOK
<1>13. \A r \in Reqs : Nothing(dns, r)
  BY <1>7, <1>8 DEF Nothing, NoChild, NoPlace, Serves
<1>14. \A r \in Reqs : ReqOK(r)
  BY <1>5, <1>7, <1>8, <1>13 DEF ReqOK
<1> QED
  BY <1>3, <1>6, <1>9, <1>11, <1>12, <1>14 DEF IInv, TypesOK, PoolOK, LeftOK

(* A request that has an input is watched by it, and by nothing else. *)
LEMMA InputOf ==
  ASSUME IInv, NEW r \in Reqs, NEW h \in phb[r].inputs
  PROVE  /\ phb[r] \in Phb /\ phb[r].state = "live" /\ phb[r].told = <<>>
         /\ Watched(phb[r], h) /\ h \in Handlers
         /\ Nothing(dns, r)
         /\ Called(r) \in BOOLEAN /\ (Called(r) \/ r \in left)
<1>1. phb[r] \in Phb
  BY DEF IInv, TypesOK
<1>2. Ongoing(phb[r]) /\ Nothing(dns, r)
  BY DEF IInv, ReqOK, Untouched, Ended
<1>3. PICK k \in Handlers : Watched(phb[r], k)
  BY <1>2 DEF Ongoing
<1>4. h = k
  BY <1>3 DEF Watched
<1>5. Called(r) \in BOOLEAN
  BY DEF Called, IInv, TypesOK
<1>6. Called(r) \/ r \in left
  BY <1>2 DEF Called, IInv, LeftOK, Ongoing
<1> QED
  BY <1>1, <1>2, <1>3, <1>4, <1>5, <1>6 DEF Ongoing

(* A request that a child serves waits for nothing else. *)
LEMMA ServedBy ==
  ASSUME IInv, NEW c \in Reqs, dns.child[c].at = "busy", NEW r, r = dns.child[c].req
  PROVE  /\ r \in Reqs
         /\ phb[r] \in Phb /\ phb[r].state = "live" /\ Untouched(phb[r])
         /\ Once(dns, r)
         /\ Called(r) \in BOOLEAN /\ (Called(r) \/ r \in left)
<1>1. r \in Reqs
  BY DEF IInv, PoolOK, ReqsOK
<1>2. phb[r] \in Phb
  BY <1>1 DEF IInv, TypesOK
<1>3. ~Nothing(dns, r)
  BY DEF Nothing, NoChild, Serves
<1>4. phb[r].state = "live" /\ Untouched(phb[r]) /\ Once(dns, r)
  BY <1>1, <1>3 DEF IInv, ReqOK
<1>5. Called(r) \in BOOLEAN
  BY DEF Called, IInv, TypesOK
<1>6. Called(r) \/ r \in left
  BY <1>1, <1>4 DEF Called, IInv, LeftOK
<1> QED
  BY <1>1, <1>2, <1>4, <1>5, <1>6

(* A handler of request r runs: the others are left alone. *)
LEMMA OneSettles ==
  ASSUME IInv, NEW r \in Reqs, NEW p, phb[r].state = "live",
         phb' = [phb EXCEPT ![r] = p], odd' \in {odd, odd \cup {r}}, gc' = gc, left' = left,
         Settled(p, r \in odd', r \in left),
         PoolOK(dns'), Nothing(dns', r),
         \A q \in Reqs \ {r} :
           Keeps(dns, dns', q) /\ (dns.child[q].at = "none" => dns'.child[q].at = "none")
  PROVE  IInv'
<1>1. phb \in [Reqs -> Phb] /\ p \in Phb
  BY DEF IInv, TypesOK, Settled
<1>2. phb'[r] = p /\ \A q \in Reqs \ {r} : phb'[q] = phb[q] /\ (q \in odd' <=> q \in odd)
  BY <1>1
<1>3. TypesOK'
  BY <1>1 DEF IInv, TypesOK
<1>4. ReqOK(r)'
  BY <1>2 DEF ReqOK, Settled
<1>5. ASSUME NEW q \in Reqs \ {r}
      PROVE  ReqOK(q)'
  <2>1. ReqOK(q)
    BY DEF IInv
  <2>2. Keeps(dns, dns', q) /\ (dns.child[q].at = "none" => dns'.child[q].at = "none")
    OBVIOUS
  <2>3. phb'[q] = phb[q] /\ (q \in odd' <=> q \in odd) /\ (q \in left' <=> q \in left)
    BY <1>2
  <2> QED
    BY <2>1, <2>2, <2>3 DEF ReqOK, Keeps, Ended
<1>6. LeftOK'
  BY <1>2 DEF IInv, LeftOK
<1> QED
  BY <1>3, <1>4, <1>5, <1>6 DEF IInv

(* The same for a handler that leaves the pool alone. *)
LEMMA HandlerStep ==
  ASSUME IInv, NEW r \in Reqs, NEW h \in phb[r].inputs, NEW p,
         phb' = [phb EXCEPT ![r] = p], odd' \in {odd, odd \cup {r}},
         UNCHANGED <<gc, dns, left>>,
         Settled(p, r \in odd', r \in left)
  PROVE  IInv'
<1>1. phb[r].state = "live" /\ Nothing(dns, r)
  BY InputOf
<1>2. PoolOK(dns)
  BY DEF IInv
<1>3. \A q \in Reqs : Keeps(dns, dns, q)
  BY DEF Keeps
<1> QED
  BY <1>1, <1>2, <1>3, OneSettles

(* It holds after a call of gaim_proxy_connect, ... *)
LEMMA Connects ==
  ASSUME IInv, NEW r \in Reqs, gaim_proxy_connect(r)
  PROVE  IInv'
<1> DEFINE p == [phb[r] EXCEPT !.state = "live"]
<1>1. /\ phb[r].state = "unused" /\ (gc \/ r \in Anonymous)
      /\ phb' = [phb EXCEPT ![r] = p]
      /\ dns' = gaim_gethostbyname_async(dns, r)
      /\ gc' = gc /\ odd' = odd /\ left' = left
  BY DEF gaim_proxy_connect
<1>2. phb \in [Reqs -> Phb] /\ phb[r] \in Phb
  BY DEF IInv, TypesOK
<1>3. Untouched(phb[r]) /\ dns.child[r].at = "none" /\ Nothing(dns, r)
  BY <1>1 DEF IInv, ReqOK, Ongoing, Ended
<1>4. p \in Phb /\ p.state = "live" /\ Untouched(p)
  BY <1>2, <1>3 DEF Phb, Untouched
<1> HIDE DEF p
<1>5. phb' \in [Reqs -> Phb] /\ phb'[r] = p /\ \A q \in Reqs \ {r} : phb'[q] = phb[q]
  BY <1>1, <1>2, <1>4
<1>6. PoolOK(dns)
  BY DEF IInv
<1>7. /\ PoolOK(dns') /\ Once(dns', r)
      /\ \A q \in Reqs \ {r} :
           Keeps(dns, dns', q) /\ (dns.child[q].at = "none" => dns'.child[q].at = "none")
  BY <1>1, <1>3, <1>6, Ask
<1>8. ReqOK(r)'
  BY <1>4, <1>5, <1>7 DEF ReqOK
<1>9. \A q \in Reqs \ {r} : ReqOK(q)'
  BY <1>1, <1>5, <1>7 DEF IInv, ReqOK, Keeps
<1>10. TypesOK'
  BY <1>1, <1>5 DEF IInv, TypesOK
<1>11. LeftOK'
  BY <1>1, <1>5 DEF IInv, LeftOK
<1> QED
  BY <1>7, <1>8, <1>9, <1>10, <1>11 DEF IInv

(* A call that returns -1, with no more than some change of the pool. *)
LEMMA Rejects ==
  ASSUME IInv, NEW r \in Reqs, phb[r].state = "unused",
         phb' = [phb EXCEPT ![r].state = "rejected"], UNCHANGED <<gc, odd, left>>,
         PoolOK(dns'),
         \A q \in Reqs :
           Keeps(dns, dns', q) /\ (dns.child[q].at = "none" => dns'.child[q].at = "none")
  PROVE  IInv'
<1> DEFINE p == [phb[r] EXCEPT !.state = "rejected"]
<1>1. phb \in [Reqs -> Phb] /\ phb[r] \in Phb /\ phb' = [phb EXCEPT ![r] = p]
  BY DEF IInv, TypesOK
<1>2. Untouched(phb[r]) /\ dns.child[r].at = "none" /\ Nothing(dns, r)
  BY DEF IInv, ReqOK, Ongoing, Ended
<1>3. p \in Phb /\ p.state = "rejected" /\ Untouched(p)
  BY <1>1, <1>2 DEF Phb, Untouched
<1> HIDE DEF p
<1>4. phb' \in [Reqs -> Phb] /\ phb'[r] = p /\ \A q \in Reqs \ {r} : phb'[q] = phb[q]
  BY <1>1, <1>3
<1>5. ReqOK(r)'
  BY <1>2, <1>3, <1>4 DEF ReqOK, Keeps
<1>6. \A q \in Reqs \ {r} : ReqOK(q)'
  BY <1>4 DEF IInv, ReqOK, Keeps
<1>7. TypesOK'
  BY <1>4 DEF IInv, TypesOK
<1>8. LeftOK'
  BY <1>3, <1>4 DEF IInv, LeftOK
<1> QED
  BY <1>5, <1>6, <1>7, <1>8 DEF IInv

(* ... also when the fork fails ... *)
LEMMA ForkFailed ==
  ASSUME IInv, NEW r \in Reqs, ForkFails(r)
  PROVE  IInv'
<1> DEFINE D == gaim_gethostbyname_async(dns, r)
<1>1. /\ phb[r].state = "unused" /\ phb' = [phb EXCEPT ![r].state = "rejected"]
      /\ UNCHANGED <<gc, odd, left>>
      /\ D.child[r].at = "busy"
      /\ dns' = [D EXCEPT !.child[r] = Child("none"), !.number = @ - 1]
  BY DEF ForkFails
<1>2. PoolOK(dns) /\ dns.child[r].at = "none"
  BY <1>1 DEF IInv, ReqOK, Ongoing, Ended
<1>3. /\ PoolOK(dns')
      /\ \A q \in Reqs :
           Keeps(dns, dns', q) /\ (dns.child[q].at = "none" => dns'.child[q].at = "none")
  <2> DEFINE G == [D EXCEPT !.child[r] = Child("none"), !.number = @ - 1]
  <2>1. D.child[r].at = "busy" =>
          /\ PoolOK(G)
          /\ \A q \in Reqs :
               Keeps(dns, G, q) /\ (dns.child[q].at = "none" => G.child[q].at = "none")
    BY <1>2, Ask
  <2>2. dns' = G
    BY <1>1
  <2> HIDE DEF G, D
  <2> QED
    BY <1>1, <2>1, <2>2
<1> HIDE DEF D
<1> QED
  BY <1>1, <1>3, Rejects

(* ... or the settings are invalid, ... *)
LEMMA SettingsInvalid ==
  ASSUME IInv, NEW r \in Reqs, InvalidSettings(r)
  PROVE  IInv'
<1>1. phb[r].state = "unused" /\ phb' = [phb EXCEPT ![r].state = "rejected"]
      /\ UNCHANGED <<gc, odd, left>> /\ dns' = dns
  BY DEF InvalidSettings
<1>2. PoolOK(dns')
  BY <1>1 DEF IInv
<1>3. \A q \in Reqs :
        Keeps(dns, dns', q) /\ (dns.child[q].at = "none" => dns'.child[q].at = "none")
  BY <1>1 DEF Keeps
<1> QED
  BY <1>1, <1>2, <1>3, Rejects

(* A step that changes nothing but the child c of the pool. *)
LEMMA ChildMoves ==
  ASSUME IInv, NEW c \in Reqs, NEW k \in ChildRec,
         k.at = dns.child[c].at, k.req = dns.child[c].req,
         dns' = [dns EXCEPT !.child = [@ EXCEPT ![c] = k]], UNCHANGED <<gc, phb, odd, left>>
  PROVE  IInv'
<1>1. PoolOK(dns)
  BY DEF IInv
<1>2. /\ PoolOK(dns')
      /\ \A q \in Reqs : Keeps(dns, dns', q)
      /\ \A q \in Reqs : dns.child[q].at = "none" => dns'.child[q].at = "none"
  BY <1>1, ChildStep
<1>3. \A q \in Reqs : ReqOK(q)'
  BY <1>2 DEF IInv, ReqOK, Keeps
<1> QED
  BY <1>2, <1>3 DEF IInv, TypesOK, LeftOK

(* ... when a child answers, expires or dies, ... *)
LEMMA ChildrenMove ==
  ASSUME IInv, NEW c \in Reqs, Resolve(c) \/ Expire(c) \/ Die(c)
  PROVE  IInv'
<1> DEFINE k == dns.child[c]
<1>1. k \in ChildRec
  BY DEF IInv, PoolOK, Dns
<1>2. CASE Resolve(c)
  <2>1. PICK said \in {"error", "hosts"} :
          dns' = [dns EXCEPT !.child[c].said = said, !.child[c].out = said # "error"]
    BY <1>2 DEF Resolve
  <2>2. UNCHANGED <<gc, phb, odd, left>>
    BY <1>2 DEF Resolve
  <2> DEFINE x == [k EXCEPT !.said = said, !.out = said # "error"]
  <2>3. dns' = [dns EXCEPT !.child = [@ EXCEPT ![c] = x]]
    <3>1. dns \in Dns
      BY DEF IInv, PoolOK
    <3> QED
      BY <2>1, <3>1 DEF Dns
  <2>4. x \in ChildRec /\ x.at = k.at /\ x.req = k.req
    BY <1>1 DEF ChildRec
  <2> QED
    BY <2>2, <2>3, <2>4, ChildMoves
<1>3. CASE Expire(c)
  <2>1. dns' = [dns EXCEPT !.child[c].alive = FALSE] /\ UNCHANGED <<gc, phb, odd, left>>
    BY <1>3 DEF Expire
  <2> DEFINE x == [k EXCEPT !.alive = FALSE]
  <2>2. dns' = [dns EXCEPT !.child = [@ EXCEPT ![c] = x]]
    BY <2>1
  <2>3. x \in ChildRec /\ x.at = k.at /\ x.req = k.req
    BY <1>1 DEF ChildRec
  <2> QED
    BY <2>1, <2>2, <2>3, ChildMoves
<1>4. CASE Die(c)
  <2>1. PICK said \in {k.said} \cup IF k.said = "nothing" THEN {"empty", "hosts"} ELSE {} :
          dns' = [dns EXCEPT !.child[c].alive = FALSE, !.child[c].said = said]
    BY <1>4 DEF Die
  <2>2. UNCHANGED <<gc, phb, odd, left>>
    BY <1>4 DEF Die
  <2> DEFINE x == [k EXCEPT !.alive = FALSE, !.said = said]
  <2>3. dns' = [dns EXCEPT !.child = [@ EXCEPT ![c] = x]]
    <3>1. dns \in Dns
      BY DEF IInv, PoolOK
    <3> QED
      BY <2>1, <3>1 DEF Dns
  <2>4. said \in {"nothing", "error", "hosts", "empty"}
    BY <1>1 DEF ChildRec
  <2>5. x \in ChildRec /\ x.at = k.at /\ x.req = k.req
    BY <1>1, <2>4 DEF ChildRec
  <2> QED
    BY <2>2, <2>3, <2>5, ChildMoves
<1> QED
  BY <1>2, <1>3, <1>4

(* ... when the answer of a child, or its end, is read, ... *)
LEMMA HostResolved ==
  ASSUME IInv, NEW c \in Reqs, Resolved(c)
  PROVE  IInv'
<1> DEFINE r == dns.child[c].req
<1>1. PICK readable \in BOOLEAN, sent \in BOOLEAN, how \in {"refused", "progress", "now"} :
        host_resolved(c, readable, how, sent)
  BY DEF Resolved
<1> DEFINE p == connection_host_resolved(phb[r], Called(r), how, sent)
<1>2. /\ dns.child[c].at = "busy"
      /\ phb' = [phb EXCEPT ![r] = p]
      /\ dns' = release_dns_child(dns, c) \/ dns' = req_free(dns, {c})
      /\ UNCHANGED <<gc, odd, left>>
  BY <1>1 DEF host_resolved
<1>3. /\ r \in Reqs
      /\ phb[r] \in Phb /\ phb[r].state = "live" /\ Untouched(phb[r])
      /\ Once(dns, r)
      /\ Called(r) \in BOOLEAN /\ (Called(r) \/ r \in left)
  BY <1>2, ServedBy
<1>4. Settled(p, r \in odd, r \in left)
  BY <1>3, ResolvedSettles
<1>5. PoolOK(dns)
  BY DEF IInv
<1>6. /\ PoolOK(dns')
      /\ Once(dns, r) => Nothing(dns', r)
      /\ \A q \in Reqs \ {r} : Keeps(dns, dns', q)
      /\ \A q \in Reqs : dns.child[q].at = "none" => dns'.child[q].at = "none"
  BY <1>2, <1>5, ReleaseOne, LoseOne
<1> HIDE DEF r, p
<1> QED
  BY <1>2, <1>3, <1>4, <1>6, OneSettles

(* ... when a socket is writable ... *)
LEMMA SocketWritable ==
  ASSUME IInv, NEW r \in Reqs, NEW up \in BOOLEAN, NEW sent \in BOOLEAN, Writable(r, up, sent)
  PROVE  IInv'
<1> DEFINE h == Handler[phb[r].kind]
           p == [phb[r] EXCEPT !.sock.up = up]
           t == CanWrite(p, Called(r), sent)
<1>1. phb[r] \in Phb
  BY DEF IInv, TypesOK
<1>2. p.kind = phb[r].kind
  BY <1>1 DEF Phb
<1>3. /\ h \in phb[r].inputs
      /\ sent /\ phb[r].kind # "none" => up
      /\ phb' = [phb EXCEPT ![r] = t]
      /\ odd' = IF up THEN odd ELSE odd \cup {r}
      /\ UNCHANGED <<gc, dns, left>>
  BY <1>2 DEF Writable
<1>4. /\ phb[r].state = "live" /\ phb[r].told = <<>>
      /\ Watched(phb[r], h)
      /\ Called(r) \in BOOLEAN /\ (Called(r) \/ r \in left)
  BY <1>3, InputOf
<1>5. Settled(t, r \in odd', r \in left)
  <2>1. ~up => r \in odd'
    BY <1>3
  <2> QED
    BY <1>1, <1>3, <1>4, <2>1, WritableSettles
<1>6. odd' \in {odd, odd \cup {r}}
  BY <1>3
<1> HIDE DEF h, t
<1> QED
  BY <1>3, <1>5, <1>6, HandlerStep

(* ... or the timer of a socket that is connected runs, ... *)
LEMMA TimerRuns ==
  ASSUME IInv, NEW r \in Reqs, Timer(r)
  PROVE  IInv'
<1> DEFINE p == clean_connect(phb[r], Called(r))
<1>1. /\ "clean_connect" \in phb[r].inputs
      /\ phb' = [phb EXCEPT ![r] = p]
      /\ UNCHANGED <<gc, dns, odd, left>>
  BY DEF Timer
<1>2. /\ phb[r] \in Phb /\ phb[r].told = <<>>
      /\ Watched(phb[r], "clean_connect")
      /\ Called(r) \in BOOLEAN /\ (Called(r) \/ r \in left)
  BY <1>1, InputOf
<1>3. Settled(p, r \in odd, r \in left)
  BY <1>2, TimerSettles
<1> HIDE DEF p
<1> QED
  BY <1>1, <1>3, HandlerStep

(* A handler that reads has a request that awaits an answer, which is odd  *)
(* unless its bytes have come all at once; what it makes of it is all      *)
(* there is to show.                                                       *)
LEMMA ReadFacts ==
  ASSUME IInv, NEW r \in Reqs, NEW h \in Readers, NEW p, NEW n, NEW len, Read(r, h, p, n, len)
  PROVE  /\ phb[r] \in Phb /\ Awaiting(phb[r], h)
         /\ Called(r) \in BOOLEAN /\ (Called(r) \/ r \in left)
         /\ n # len => r \in odd'
  BY InputOf DEF Awaiting, Read

(* A handler that settles its request keeps the invariant. *)
LEMMA ReadStep ==
  ASSUME IInv, NEW r \in Reqs, NEW h \in Readers, NEW p, NEW n, NEW len, Read(r, h, p, n, len),
         Settled(p, r \in odd', r \in left)
  PROVE  IInv'
<1>1. /\ h \in phb[r].inputs
      /\ phb' = [phb EXCEPT ![r] = p]
      /\ odd' = IF n = len THEN odd ELSE odd \cup {r}
      /\ UNCHANGED <<gc, dns, left>>
  BY DEF Read
<1> QED
  BY <1>1, HandlerStep

(* ... when a socket is readable, ... *)
LEMMA SocketReadable ==
  ASSUME IInv, NEW r \in Reqs, Readable(r)
  PROVE  IInv'
<1> DEFINE p == phb[r]
           on == Called(r)
<1>1. PICK fine \in BOOLEAN :
        \/ \E n \in 1 .. 4 : Read(r, "http_canread", http_canread(p, on, n, fine), AtMost(n, 3), 3)
        \/ \E n \in {3, 4, 8, 9} : Read(r, "s4_canread", s4_canread(p, on, n, fine), n, 8)
        \/ \E n \in {1, 2}, auth \in {FALSE, HasUser}, sent \in BOOLEAN :
             Read(r, "s5_canread", s5_canread(p, on, n, fine, auth, sent), n, 2)
        \/ \E n \in {1, 2}, sent \in BOOLEAN :
             Read(r, "s5_readauth", s5_readauth(p, on, n, fine, sent), n, 2)
        \/ \E n \in {9, 10}, len \in {10, 22} :
             Read(r, "s5_canread_again", s5_canread_again(p, on, n, len, fine), n, len)
  BY DEF Readable
<1> HIDE DEF p, on
<1>2. ASSUME NEW n \in 1 .. 4,
             Read(r, "http_canread", http_canread(p, on, n, fine), AtMost(n, 3), 3)
      PROVE  IInv'
  <2>1. "http_canread" \in Readers
    BY DEF Readers
  <2> DEFINE t == http_canread(phb[r], Called(r), n, fine)
  <2> HIDE DEF t
  <2>4. Read(r, "http_canread", t, AtMost(n, 3), 3)
    BY <1>2 DEF p, on, t
  <2>5. /\ phb[r] \in Phb /\ Awaiting(phb[r], "http_canread")
        /\ Called(r) \in BOOLEAN /\ (Called(r) \/ r \in left)
        /\ (AtMost(n, 3) # 3 => r \in odd')
    BY <2>1, <2>4, ReadFacts
  <2>6. Settled(t, r \in odd', r \in left)
    BY <2>5, HttpSettles DEF t
  <2> QED
    BY <2>1, <2>4, <2>6, ReadStep
<1>3. ASSUME NEW n \in {3, 4, 8, 9}, Read(r, "s4_canread", s4_canread(p, on, n, fine), n, 8)
      PROVE  IInv'
  <2>1. "s4_canread" \in Readers
    BY DEF Readers
  <2> DEFINE t == s4_canread(phb[r], Called(r), n, fine)
  <2> HIDE DEF t
  <2>4. Read(r, "s4_canread", t, n, 8)
    BY <1>3 DEF p, on, t
  <2>5. /\ phb[r] \in Phb /\ Awaiting(phb[r], "s4_canread")
        /\ Called(r) \in BOOLEAN /\ (Called(r) \/ r \in left)
        /\ (n # 8 => r \in odd')
    BY <2>1, <2>4, ReadFacts
  <2>6. Settled(t, r \in odd', r \in left)
    BY <2>5, S4Settles DEF t
  <2> QED
    BY <2>1, <2>4, <2>6, ReadStep
<1>4. ASSUME NEW n \in {1, 2}, NEW auth \in {FALSE, HasUser}, NEW sent \in BOOLEAN,
             Read(r, "s5_canread", s5_canread(p, on, n, fine, auth, sent), n, 2)
      PROVE  IInv'
  <2>1. "s5_canread" \in Readers
    BY DEF Readers
  <2>2. auth \in BOOLEAN
    BY ProxyAssumption
  <2> DEFINE t == s5_canread(phb[r], Called(r), n, fine, auth, sent)
  <2> HIDE DEF t
  <2>4. Read(r, "s5_canread", t, n, 2)
    BY <1>4 DEF p, on, t
  <2>5. /\ phb[r] \in Phb /\ Awaiting(phb[r], "s5_canread")
        /\ Called(r) \in BOOLEAN /\ (Called(r) \/ r \in left)
        /\ (n # 2 => r \in odd')
    BY <2>1, <2>4, ReadFacts
  <2>6. Settled(t, r \in odd', r \in left)
    BY <2>5, <2>2, S5Settles DEF t
  <2> QED
    BY <2>1, <2>4, <2>6, ReadStep
<1>5. ASSUME NEW n \in {1, 2}, NEW sent \in BOOLEAN,
             Read(r, "s5_readauth", s5_readauth(p, on, n, fine, sent), n, 2)
      PROVE  IInv'
  <2>1. "s5_readauth" \in Readers
    BY DEF Readers
  <2> DEFINE t == s5_readauth(phb[r], Called(r), n, fine, sent)
  <2> HIDE DEF t
  <2>4. Read(r, "s5_readauth", t, n, 2)
    BY <1>5 DEF p, on, t
  <2>5. /\ phb[r] \in Phb /\ Awaiting(phb[r], "s5_readauth")
        /\ Called(r) \in BOOLEAN /\ (Called(r) \/ r \in left)
        /\ (n # 2 => r \in odd')
    BY <2>1, <2>4, ReadFacts
  <2>6. Settled(t, r \in odd', r \in left)
    BY <2>5, AuthSettles DEF t
  <2> QED
    BY <2>1, <2>4, <2>6, ReadStep
<1>6. ASSUME NEW n \in {9, 10}, NEW len \in {10, 22},
             Read(r, "s5_canread_again", s5_canread_again(p, on, n, len, fine), n, len)
      PROVE  IInv'
  <2>1. "s5_canread_again" \in Readers
    BY DEF Readers
  <2> DEFINE t == s5_canread_again(phb[r], Called(r), n, len, fine)
  <2> HIDE DEF t
  <2>4. Read(r, "s5_canread_again", t, n, len)
    BY <1>6 DEF p, on, t
  <2>5. /\ phb[r] \in Phb /\ Awaiting(phb[r], "s5_canread_again")
        /\ Called(r) \in BOOLEAN /\ (Called(r) \/ r \in left)
        /\ (n # len => r \in odd')
    BY <2>1, <2>4, ReadFacts
  <2>6. Settled(t, r \in odd', r \in left)
    BY <2>5, AgainSettles DEF t
  <2> QED
    BY <2>1, <2>4, <2>6, ReadStep
<1> QED
  BY <1>1, <1>2, <1>3, <1>4, <1>5, <1>6

(* ... and when the account signs on or off. *)
LEMMA Account ==
  ASSUME IInv, SignOff \/ SignOn
  PROVE  IInv'
<1>1. /\ phb' = phb /\ dns' = dns /\ odd' = odd /\ gc' \in BOOLEAN
      /\ left \subseteq left' /\ left' \subseteq Reqs
  BY DEF SignOff, SignOn, UnderWay, IInv, TypesOK
<1>2. \A q \in Reqs : ReqOK(q)'
  BY <1>1 DEF IInv, ReqOK, Ended
<1>3. LeftOK'
  BY <1>1 DEF SignOff, SignOn, UnderWay, LeftOK
<1> QED
  BY <1>1, <1>2, <1>3 DEF IInv, TypesOK

(* IInv is inductive, action by action. *)
LEMMA Inductive == IInv /\ [Next]_vars => IInv'
<1> SUFFICES ASSUME IInv, [Next]_vars
             PROVE  IInv'
  OBVIOUS
<1>1. CASE UNCHANGED vars
  BY <1>1 DEF IInv, TypesOK, ReqOK, LeftOK, vars
<1>2. ASSUME NEW r \in Reqs, gaim_proxy_connect(r)
      PROVE  IInv'
  BY <1>2, Connects
<1>3. ASSUME NEW r \in Reqs, InvalidSettings(r)
      PROVE  IInv'
  BY <1>3, SettingsInvalid
<1>4. ASSUME NEW r \in Reqs, ForkFails(r)
      PROVE  IInv'
  BY <1>4, ForkFailed
<1>5. ASSUME NEW r \in Reqs, Wakes(r)
      PROVE  IInv'
  BY <1>5, SocketWritable, SocketReadable, TimerRuns DEF Wakes
<1>6. ASSUME NEW c \in Reqs, Resolve(c) \/ Expire(c) \/ Die(c)
      PROVE  IInv'
  BY <1>6, ChildrenMove
<1>7. ASSUME NEW c \in Reqs, Resolved(c)
      PROVE  IInv'
  BY <1>7, HostResolved
<1>8. CASE SignOff \/ SignOn
  BY <1>8, Account
<1> QED
  BY <1>1, <1>2, <1>3, <1>4, <1>5, <1>6, <1>7, <1>8 DEF Next

(* IInv is an invariant. *)
LEMMA AlwaysIInv == Spec => []IInv
  BY InitIInv, Inductive, PTL DEF Spec

-----------------------------------------------------------------------------
(* The theorems.                                                           *)

(* TypeOK, and with it the accounting of the children: the free ones are   *)
(* listed once each, number_of_dns_children is the number of those that    *)
(* are busy or free and stays within MAX_DNS_CHILDREN.                     *)
THEOREM ProxyTypeOK == Spec => []TypeOK
<1>1. IInv => TypeOK
  <2> SUFFICES ASSUME IInv
               PROVE  TypeOK
    OBVIOUS
  <2>1. gc \in BOOLEAN /\ left \subseteq Reqs /\ odd \subseteq Reqs /\ phb \in [Reqs -> Phb]
    BY DEF IInv, TypesOK
  <2>2. \A r \in Reqs : phb[r].state \in {"unused", "live", "freed", "rejected"}
    BY <2>1 DEF Phb
  <2>3. dns \in Dns /\ FreeOK(dns) /\ CountOK(dns)
    BY DEF IInv, PoolOK
  <2>4. DOMAIN dns.free = 1 .. Len(dns.free) /\ \A i \in 1 .. Len(dns.free) : dns.free[i] \in Reqs
    BY <2>3 DEF Dns
  <2>5. IsInjective(dns.free)
    BY <2>3, <2>4 DEF FreeOK, IsInjective
  <2>6. ToSet(dns.free) \subseteq At("free")
    BY <2>3, <2>4 DEF FreeOK, ToSet, At
  <2>7. At("free") \subseteq ToSet(dns.free)
    BY <2>3, <2>4 DEF FreeOK, ToSet, At
  <2>8. At("busy") \cup At("free") = Kept(dns)
    BY DEF At, Kept
  <2>9. dns.number = Cardinality(At("busy") \cup At("free")) /\ dns.number <= MAX_DNS_CHILDREN
    BY <2>3, <2>8 DEF CountOK
  <2> QED
    BY <2>1, <2>2, <2>5, <2>6, <2>7, <2>9 DEF TypeOK
<1> QED
  BY <1>1, AlwaysIInv, PTL

(* What the three terms of Waits count. *)
LEMMA WaitCounts ==
  ASSUME dns \in Dns, NEW r \in Reqs
  PROVE  LET C == {c \in At("busy") : dns.child[c].req = r}
             Q == {i \in DOMAIN dns.queue : dns.queue[i] = r}
         IN  /\ Nothing(dns, r) => Cardinality(C) = 0 /\ Cardinality(Q) = 0
             /\ Once(dns, r) => \/ Cardinality(C) = 1 /\ Cardinality(Q) = 0
                                \/ Cardinality(C) = 0 /\ Cardinality(Q) = 1
<1> DEFINE C == {c \in At("busy") : dns.child[c].req = r}
           Q == {i \in DOMAIN dns.queue : dns.queue[i] = r}
<1>1. DOMAIN dns.queue = 1 .. Len(dns.queue)
  BY DEF Dns
<1>2. \A c : c \in C <=> c \in Reqs /\ Serves(dns, c, r)
  BY DEF At, Serves
<1>3. \A i : i \in Q <=> i \in 1 .. Len(dns.queue) /\ dns.queue[i] = r
  BY <1>1
<1> HIDE DEF C, Q
<1>4. NoChild(dns, r) => Cardinality(C) = 0
  <2>1. NoChild(dns, r) => C = {}
    BY <1>2 DEF NoChild
  <2> QED
    BY <2>1, FS_EmptySet
<1>5. NoPlace(dns, r) => Cardinality(Q) = 0
  <2>1. NoPlace(dns, r) => Q = {}
    BY <1>3 DEF NoPlace
  <2> QED
    BY <2>1, FS_EmptySet
<1>6. OneChild(dns, r) => Cardinality(C) = 1
  <2> SUFFICES ASSUME OneChild(dns, r)
               PROVE  Cardinality(C) = 1
    OBVIOUS
  <2>1. PICK c \in Reqs : \A b \in Reqs : Serves(dns, b, r) <=> b = c
    BY DEF OneChild
  <2>2. C = {c}
    BY <1>2, <2>1
  <2> QED
    BY <2>2, FS_Singleton
<1>7. OnePlace(dns, r) => Cardinality(Q) = 1
  <2> SUFFICES ASSUME OnePlace(dns, r)
               PROVE  Cardinality(Q) = 1
    OBVIOUS
  <2>1. PICK i \in 1 .. Len(dns.queue) : \A j \in 1 .. Len(dns.queue) : dns.queue[j] = r <=> j = i
    BY DEF OnePlace
  <2>2. Q = {i}
    BY <1>3, <2>1
  <2> QED
    BY <2>2, FS_Singleton
<1> QED
  BY <1>4, <1>5, <1>6, <1>7 DEF Nothing, Once, C, Q

(* WaitsForOneThing: a request that is under way is waited for by exactly  *)
(* one input, timer, child or place in the queue, any other by nothing: no *)
(* callback gets a PHB that has been freed, and none is forgotten.         *)
THEOREM AlwaysWaitsForOneThing == Spec => []WaitsForOneThing
<1>1. IInv => WaitsForOneThing
  <2> SUFFICES ASSUME IInv, NEW r \in Reqs
               PROVE  Waits(r) = IF phb[r].state = "live" THEN 1 ELSE 0
    BY DEF WaitsForOneThing
  <2>1. ReqOK(r) /\ dns \in Dns
    BY DEF IInv, PoolOK
  <2> DEFINE I == Cardinality(phb[r].inputs)
             C == Cardinality({c \in At("busy") : dns.child[c].req = r})
             Q == Cardinality({i \in DOMAIN dns.queue : dns.queue[i] = r})
  <2>2. Waits(r) = I + C + Q
    BY DEF Waits
  <2>3. Nothing(dns, r) => C = 0 /\ Q = 0
    BY <2>1, WaitCounts
  <2>4. Once(dns, r) => (C = 1 /\ Q = 0) \/ (C = 0 /\ Q = 1)
    BY <2>1, WaitCounts
  <2>5. phb[r].inputs = {} => I = 0
    BY FS_EmptySet
  <2>6. Ongoing(phb[r]) => I = 1
    <3> SUFFICES ASSUME Ongoing(phb[r])
                 PROVE  I = 1
      OBVIOUS
    <3>1. PICK h \in Handlers : phb[r].inputs = {h}
      BY DEF Ongoing, Watched
    <3> QED
      BY <3>1, FS_Singleton
  <2> HIDE DEF I, C, Q
  <2>7. CASE phb[r].state \in {"unused", "rejected"} /\ Untouched(phb[r]) /\ Nothing(dns, r)
    BY <2>2, <2>3, <2>5, <2>7 DEF Untouched
  <2>8. CASE phb[r].state = "live" /\ Untouched(phb[r]) /\ Once(dns, r)
    BY <2>2, <2>4, <2>5, <2>8 DEF Untouched
  <2>9. CASE Ongoing(phb[r]) /\ Nothing(dns, r)
    BY <2>2, <2>3, <2>6, <2>9 DEF Ongoing
  <2>10. CASE Ended(phb[r], r \in odd, r \in left) /\ Nothing(dns, r)
    BY <2>2, <2>3, <2>5, <2>10 DEF Ended
  <2> QED
    BY <2>1, <2>7, <2>8, <2>9, <2>10 DEF ReqOK
<1> QED
  BY <1>1, AlwaysIInv, PTL

(* ToldOnce: func is called exactly once for every request that ends, or   *)
(* not at all if the account has signed off meanwhile, and never before.   *)
THEOREM AlwaysToldOnce == Spec => []ToldOnce
<1>1. IInv => ToldOnce
  <2> SUFFICES ASSUME IInv, NEW r \in Reqs
               PROVE  CASE phb[r].state = "freed" ->
                             Len(phb[r].told) = 1 \/ (phb[r].told = <<>> /\ r \in left)
                        [] OTHER -> phb[r].told = <<>>
    BY DEF ToldOnce
  <2>1. ReqOK(r)
    BY DEF IInv
  <2>2. Len(<<"failure">>) = 1 /\ Len(<<"socket">>) = 1
    OBVIOUS
  <2>3. phb[r].state # "freed" => phb[r].told = <<>>
    BY <2>1 DEF ReqOK, Untouched, Ongoing, Ended
  <2>4. phb[r].state = "freed" => Len(phb[r].told) = 1 \/ (phb[r].told = <<>> /\ r \in left)
    BY <2>1, <2>2 DEF ReqOK, Ongoing, Ended
  <2> QED
    BY <2>3, <2>4
<1> QED
  BY <1>1, AlwaysIInv, PTL

(* NoSocketLost: once a request has ended its socket is closed or with     *)
(* func, unless the account has signed off; a watched socket is open.      *)
THEOREM AlwaysNoSocketLost == Spec => []NoSocketLost
<1>1. IInv => NoSocketLost
  <2> SUFFICES ASSUME IInv, NEW r \in Reqs
               PROVE  /\ phb[r].state = "freed" /\ phb[r].sock.open =>
                           phb[r].told = <<"socket">> \/ r \in left
                      /\ phb[r].inputs # {} => phb[r].sock.open
    BY DEF NoSocketLost
  <2>1. ReqOK(r)
    BY DEF IInv
  <2>2. phb[r].inputs # {} => phb[r].sock.open
    BY <2>1 DEF ReqOK, Untouched, Ongoing, Ended, Watched
  <2>3. phb[r].state = "freed" => Ended(phb[r], r \in odd, r \in left)
    BY <2>1 DEF ReqOK, Ongoing
  <2> QED
    BY <2>2, <2>3 DEF Ended
<1> QED
  BY <1>1, AlwaysIInv, PTL

(* CleanHandover: what func gets is an open, connected socket, blocking    *)
(* but for HTTP, with nothing of the proxy's answer left on it and nothing *)
(* of the destination's taken, unless the request is odd.                  *)
THEOREM AlwaysCleanHandover == Spec => []CleanHandover
<1>1. IInv => CleanHandover
  <2> SUFFICES ASSUME IInv, NEW r \in Reqs, phb[r].told = <<"socket">>, r \notin odd
               PROVE  phb[r].sock = [open |-> TRUE, up |-> TRUE, skew |-> "none",
                                     nonblock |-> phb[r].kind = "http" /\ phb[r].sock.nonblock]
    BY DEF CleanHandover
  <2>1. ReqOK(r) /\ phb[r] \in Phb
    BY DEF IInv, TypesOK
  <2>2. <<"socket">> # <<>> /\ <<"socket">> # <<"failure">>
    <3>1. Len(<<"socket">>) # Len(<<>>) /\ <<"socket">>[1] # <<"failure">>[1]
      OBVIOUS
    <3> QED
      BY <3>1
  <2>3. Clean(phb[r])
    BY <2>1, <2>2 DEF ReqOK, Untouched, Ongoing, Ended
  <2>4. phb[r].sock \in SockRec
    BY <2>1 DEF Phb
  <2> DEFINE s == phb[r].sock
             http == phb[r].kind = "http"
  <2>5. s \in SockRec /\ s.open = TRUE /\ s.up = TRUE /\ s.skew = "none"
        /\ s.nonblock = (http /\ s.nonblock)
    BY <2>3, <2>4 DEF Clean, SockRec
  <2>6. s = [open |-> s.open, up |-> s.up, nonblock |-> s.nonblock, skew |-> s.skew]
    BY <2>4 DEF SockRec
  <2> HIDE DEF s, http
  <2>7. s = [open |-> TRUE, up |-> TRUE, skew |-> "none", nonblock |-> http /\ s.nonblock]
    BY <2>5, <2>6
  <2> QED
    BY <2>7 DEF s, http
<1> QED
  BY <1>1, AlwaysIInv, PTL

(* QueueServed: a lookup is stranded in the queue only if no child is free *)
(* and one has been lost.                                                  *)
THEOREM AlwaysQueueServed == Spec => []QueueServed
<1>1. IInv => QueueServed
  <2> SUFFICES ASSUME IInv, dns.queue # <<>>, At("busy") = {}
               PROVE  At("free") = {} /\ At("gone") # {}
    BY DEF QueueServed, Stranded
  <2>1. FreeOK(dns) /\ QueueOK(dns)
    BY DEF IInv, PoolOK
  <2>2. dns.free = <<>>
    BY <2>1 DEF QueueOK
  <2>3. PICK c \in Reqs : dns.child[c].at \in {"busy", "gone"}
    BY <2>1 DEF QueueOK
  <2>4. At("free") = {}
    BY <2>1, <2>2 DEF FreeOK, At
  <2>5. c \in At("gone")
    BY <2>3 DEF At
  <2> QED
    BY <2>4, <2>5
<1> QED
  BY <1>1, AlwaysIInv, PTL
=============================================================================
