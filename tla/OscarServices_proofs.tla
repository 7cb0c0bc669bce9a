------------------------ MODULE OscarServices_proofs ------------------------
(***************************************************************************)
(* Proofs about the service connections: type correctness and the safety   *)
(* invariants of OscarServices, for every number of connections and        *)
(* failures, every set of buddies and sequence of account requests.        *)
(***************************************************************************)
EXTENDS OscarServices, Induction

ConnLists == UNION {[I -> Conns] : I \in SUBSET Socks}
Queues == [Socks -> Seq(Frames)]
Sessions == [connlist : ConnLists, queue : Queues, wire : Queues, closed : SUBSET Socks,
             types : Seq(Types), asked : [Types -> Nat], doubled : SUBSET Slots]
Rooms == [conn : 0 .. MaxConns, inpa : 0 .. MaxConns, joined : BOOLEAN]
Data == [wishes : SUBSET ToSet(Wishes), create_rooms : 0 .. MaxActs, iconconnecting : BOOLEAN,
         requesticon : Seq(Buddies), set_icon : BOOLEAN, icontimer : BOOLEAN,
         slot : [Slots -> 0 .. MaxConns], chats : SUBSET Rooms]
Inputs == [sock : Socks, conn : Socks, type : Types]
Connects == [sock : Socks, type : Types]

TypesInv ==
  /\ faim \in Sessions /\ od \in Data /\ IsInjective(od.requesticon)
  /\ watches \subseteq Inputs /\ dials \subseteq Connects
  /\ served \in [Socks -> Nat \cup {Dead}] /\ DOMAIN inbox = Socks
  /\ status \in {"on", "off", "freed", "hung"} /\ lost \subseteq Types
  /\ acts \in Nat /\ od.create_rooms <= acts

(* The type that the connection and the socket s were made for. *)
TypeAt(f, s) == IF s \in 1 .. Len(f.types) THEN f.types[s] ELSE "none"

(* The frames are numbered from 1, and only the first is the cookie. *)
Numbers(q, s) ==
  \A k \in DOMAIN q : q[k].conn = s /\ q[k].seqnum = k /\ ((k = 1) = (q[k].what = "cookie"))

(* A connection is given only sockets, and a socket only connections, of   *)
(* its type.                                                               *)
Placed(f, D, W, slot) ==
  /\ \A i \in DOMAIN f.connlist :
       /\ TypeAt(f, i) = Conn(f, i).type
       /\ Conn(f, i).fd # 0 => TypeAt(f, Conn(f, i).fd) = Conn(f, i).type
  /\ \A s \in Socks : TypeAt(f, s) = "none" => f.wire[s] = <<>>
  /\ \A d \in D : TypeAt(f, d.sock) = d.type
  /\ \A w \in W : TypeAt(f, w.sock) = w.type /\ TypeAt(f, w.conn) = w.type
  /\ \A t \in Slots : slot[t] # 0 => TypeAt(f, slot[t]) = t

(* Frames wait only for a connection in progress. *)
Awaiting(f) ==
  \A i \in Socks : f.queue[i] # <<>> => Known(f, i) /\ Conn(f, i).inprogress

(* A service that is not asked for twice has a request or a connection. *)
Single(f) ==
  \A t \in Slots \ f.doubled :
    /\ f.asked[t] <= 1
    /\ \A i \in OfType(f, t) : f.asked[t] = 0 /\ OfType(f, t) = {i}

(* Connection i before its connect has ended ... *)
Pending(f, D, i) ==
  LET c == Conn(f, i)
  IN  /\ c.inprogress /\ c.fd = 0 /\ [sock |-> i, type |-> c.type] \in D
      /\ c.seqnum >= 1 /\ Len(f.queue[i]) = c.seqnum /\ Numbers(f.queue[i], i)
      /\ f.wire[i] = <<>>

(* ... and after it. *)
Working(f, W, slot, chats, i) ==
  LET c == Conn(f, i)
  IN  /\ ~c.inprogress /\ c.fd = i /\ [sock |-> i, conn |-> i, type |-> c.type] \in W
      /\ c.seqnum >= 1 /\ Len(f.wire[i]) = c.seqnum
      /\ IF c.type = "chat" THEN \E n \in chats : n.conn = i ELSE slot[c.type] = i

ConnsOK(f, D, W, slot, chats) ==
  \A i \in DOMAIN f.connlist : Conn(f, i).type \notin f.doubled =>
    Pending(f, D, i) \/ Working(f, W, slot, chats, i)

WiresOK(f) == \A s \in Socks : TypeAt(f, s) \notin f.doubled => Numbers(f.wire[s], s)

WatchesOK(f, W) ==
  \A w \in W : /\ Known(f, w.conn) => ~Conn(f, w.conn).inprogress
               /\ w.type \notin f.doubled => Known(f, w.conn) /\ w.sock = w.conn

(* Of every service at least as many connections are in progress as there  *)
(* are connects under way.                                                 *)
DialSocks(D, t) == {s \in Socks : [sock |-> s, type |-> t] \in D}
Busy(f, t) == {i \in OfType(f, t) : Conn(f, i).inprogress}
DialsOK(f, D) ==
  /\ \A d \in D : d.type \notin f.doubled => Known(f, d.sock) /\ Conn(f, d.sock).inprogress
  /\ \A t \in Slots : Cardinality(DialSocks(D, t)) <= Cardinality(Busy(f, t))

RoomsOK(f, chats) ==
  /\ \A n \in chats : n.inpa = n.conn
  /\ \A n \in chats : n.conn # 0 => /\ Known(f, n.conn) /\ ~Conn(f, n.conn).inprogress
                                    /\ Conn(f, n.conn).type = "chat"
  /\ \A n, m \in chats : n.conn = m.conn /\ n.conn # 0 => n = m

Live(f, D, W, slot, chats) ==
  /\ Placed(f, D, W, slot) /\ Awaiting(f) /\ Single(f) /\ WiresOK(f)
  /\ ConnsOK(f, D, W, slot, chats) /\ WatchesOK(f, W) /\ DialsOK(f, D) /\ RoomsOK(f, chats)

(* After signing off. *)
AtEnd ==
  /\ DOMAIN faim.connlist = {} /\ faim.queue = NoFrames /\ faim.wire = NoFrames
  /\ \A w \in watches : w.type \in faim.doubled

IInv ==
  /\ TypesInv
  /\ IF status = "off" THEN AtEnd ELSE Live(faim, dials, watches, od.slot, od.chats)

-----------------------------------------------------------------------------
(* Operators.                                                              *)

(* Newest yields a member of a set of connections, and 0 if it is empty. *)
LEMMA NewestIn ==
  ASSUME NEW ids \in SUBSET Socks
  PROVE  /\ ids = {} => Newest(ids) = 0
         /\ ids # {} => Newest(ids) \in ids
<1>1. ASSUME ids # {}
      PROVE  Max(ids) \in ids
  <2> DEFINE T == {MaxConns - x : x \in ids}
  <2>1. T \subseteq Nat /\ T # {}
    <3>1. \A x \in ids : x \in Int /\ x <= MaxConns
      BY BoundsAssumption DEF Socks
    <3>2. \A x \in ids : MaxConns - x \in Nat
      BY <3>1, BoundsAssumption
    <3> QED
      BY <1>1, <3>2
  <2>2. PICK y \in T : \A z \in T : y <= z
    <3> HIDE DEF T
    <3> QED
      BY <2>1, LeastElement
  <2>3. PICK x \in ids : y = MaxConns - x
    BY <2>2
  <2>4. \A z \in ids : x >= z
    <3> TAKE z \in ids
    <3>1. MaxConns - x <= MaxConns - z
      BY <2>2, <2>3
    <3> QED
      BY <3>1, BoundsAssumption DEF Socks
  <2> QED
    BY <2>4 DEF Max
<1> QED
  BY <1>1 DEF Newest

(* One step of the recursion by which Only is defined. *)
OnlyStep(list, S, n, l) == IF list[n] \in S THEN Append(l, list[n]) ELSE l

(* Only is the last value of that recursion. *)
OnlyRun(kept, list, S) ==
  /\ kept[0] = <<>>
  /\ \A n \in 1 .. Len(list) : kept[n] = OnlyStep(list, S, n, kept[n - 1])
  /\ Only(list, S) = kept[Len(list)]

(* That recursion has values. *)
LEMMA OnlySteps ==
  ASSUME NEW X, NEW S, NEW list \in Seq(X)
  PROVE  \E kept \in [0 .. Len(list) -> Seq(X)] : OnlyRun(kept, list, S)
<1> DEFINE N == Len(list)
           G == [n \in 1 .. N |-> [l \in Seq(X) |-> OnlyStep(list, S, n, l)]]
           Body(h) == [i \in 0 .. N |->
                         IF i = 0 THEN <<>>
                         ELSE IF list[i] \in S THEN Append(h[i - 1], list[i]) ELSE h[i - 1]]
           kept == CHOOSE h : h = Body(h)
<1>1. \A n \in 1 .. N, l \in Seq(X) : OnlyStep(list, S, n, l) \in Seq(X)
  BY DEF OnlyStep
<1>2. G \in [1 .. N -> [Seq(X) -> Seq(X)]]
  BY <1>1
<1>3. PICK g \in [0 .. N -> Seq(X)] : Follows(g, N, <<>>, G)
  <2> HIDE DEF G
  <2>1. N \in Nat /\ <<>> \in Seq(X)
    OBVIOUS
  <2> QED
    BY <1>2, <2>1, Recursion
<1>n. N \in Nat /\ 0 \in 0 .. N
  OBVIOUS
<1>z. <<>> \in Seq(X) /\ \A n \in 1 .. N : n \in 0 .. N /\ n # 0
  OBVIOUS
<1>4. g = Body(g)
  <2>1. g[0] = <<>>
    BY <1>3 DEF Follows
  <2>2. ASSUME NEW n \in 1 .. N
        PROVE  g[n] = OnlyStep(list, S, n, g[n - 1])
    <3>1. g[n] = G[n][g[n - 1]] /\ n - 1 \in 0 .. N
      BY <1>3 DEF Follows
    <3>2. g[n - 1] \in Seq(X)
      BY <1>3, <3>1
    <3> QED
      BY <3>1, <3>2
  <2> HIDE DEF N
  <2>3. \A n \in 0 .. N : n = 0 \/ n \in 1 .. N
    BY <1>n
  <2>4. \A n \in 0 .. N : g[n] = Body(g)[n]
    BY <2>1, <2>2, <2>3, Zenon DEF OnlyStep
  <2> QED
    BY <1>3, <2>4
<1>5. kept = Body(kept)
  <2> HIDE DEF Body
  <2> QED
    BY <1>4
<1>6. kept[0] = <<>> /\ \A n \in 1 .. N : kept[n] = OnlyStep(list, S, n, kept[n - 1])
  <2> HIDE DEF kept, N
  <2>1. \A n \in 0 .. N : kept[n] = Body(kept)[n]
    BY <1>5
  <2> QED
    BY <2>1, <1>n, <1>z, Zenon DEF OnlyStep
<1>7. 0 .. N \subseteq {n \in 0 .. N : kept[n] \in Seq(X)}
  <2> DEFINE T == {n \in 0 .. N : kept[n] \in Seq(X)}
  <2> HIDE DEF kept, N
  <2>1. 0 \in T
    BY <1>6, <1>n, <1>z, Zenon
  <2>2. \A n \in 0 .. N - 1 : n \in T => n + 1 \in T
    BY <1>1, <1>6, <1>n
  <2> HIDE DEF T
  <2>3. 0 .. N \subseteq T
    BY <2>1, <2>2, <1>n, UpTo
  <2> QED
    BY <2>3 DEF T
<1>8. kept \in [0 .. N -> Seq(X)]
  <2> HIDE DEF kept
  <2> QED
    BY <1>5, <1>7
<1>9. Only(list, S) = kept[N]
  BY DEF Only
<1> QED
  <2> HIDE DEF kept
  <2>1. OnlyRun(kept, list, S)
    BY <1>6, <1>9 DEF OnlyRun
  <2> QED
    BY <2>1, <1>8

(* l has elements of S alone, all of them among the first n of list, and   *)
(* repeats none that list does not.                                        *)
Kept(l, list, S, n) ==
  /\ \A i \in 1 .. Len(l) : \E j \in 1 .. n : list[j] \in S /\ l[i] = list[j]
  /\ IsInjective(list) => IsInjective(l)

(* A step keeps to that. *)
LEMMA OnlyStepKept ==
  ASSUME NEW X, NEW list \in Seq(X), NEW S, NEW n \in 1 .. Len(list), NEW l \in Seq(X),
         Kept(l, list, S, n - 1)
  PROVE  Kept(OnlyStep(list, S, n, l), list, S, n)
<1> DEFINE m == OnlyStep(list, S, n, l)
<1>1. \A j \in 1 .. n - 1 : j \in 1 .. n /\ j \in 1 .. Len(list) /\ j # n
  OBVIOUS
<1>2. CASE list[n] \notin S
  BY <1>1, <1>2 DEF OnlyStep, Kept
<1>3. CASE list[n] \in S
  <2>1. /\ m = Append(l, list[n]) /\ Len(m) = Len(l) + 1 /\ m[Len(l) + 1] = list[n]
        /\ \A i \in 1 .. Len(l) : m[i] = l[i]
    BY <1>3 DEF OnlyStep
  <2>2. \A i \in 1 .. Len(m) : i \in 1 .. Len(l) \/ i = Len(l) + 1
    BY <2>1
  <2>3. \A i \in 1 .. Len(l) : \E j \in 1 .. n - 1 : list[j] \in S /\ l[i] = list[j]
    BY DEF Kept
  <2> HIDE DEF m
  <2>4. ASSUME NEW i \in 1 .. Len(m)
        PROVE  \E j \in 1 .. n : list[j] \in S /\ m[i] = list[j]
    <3>1. CASE i \in 1 .. Len(l)
      BY <3>1, <1>1, <2>1, <2>3
    <3>2. CASE i = Len(l) + 1
      BY <3>2, <1>3, <2>1
    <3> QED
      BY <3>1, <3>2, <2>2
  <2>5. ASSUME IsInjective(list)
        PROVE  IsInjective(m)
    <3>1. IsInjective(l) /\ DOMAIN l = 1 .. Len(l) /\ DOMAIN list = 1 .. Len(list)
      BY <2>5 DEF Kept
    <3>2. DOMAIN m = 1 .. Len(m)
      BY <2>1
    <3>3. \A i \in 1 .. Len(l) : l[i] # list[n]
      BY <1>1, <2>3, <2>5, <3>1 DEF IsInjective
    <3>4. ASSUME NEW a \in DOMAIN m, NEW b \in DOMAIN m, m[a] = m[b]
          PROVE  a = b
      <4>1. CASE a \in 1 .. Len(l) /\ b \in 1 .. Len(l)
        BY <4>1, <3>4, <3>1, <2>1 DEF IsInjective
      <4>2. CASE a = Len(l) + 1 /\ b \in 1 .. Len(l)
        BY <4>2, <3>4, <3>3, <2>1
      <4>3. CASE a \in 1 .. Len(l) /\ b = Len(l) + 1
        BY <4>3, <3>4, <3>3, <2>1
      <4> QED
        BY <4>1, <4>2, <4>3, <3>2, <2>2
    <3> QED
      BY <3>4 DEF IsInjective
  <2> QED
    BY <2>4, <2>5 DEF Kept, m
<1> QED
  BY <1>2, <1>3

(* Only yields elements of the list that are in S, and repeats none that   *)
(* the list does not.                                                      *)
LEMMA OnlyType ==
  ASSUME NEW X, NEW S, NEW list \in Seq(X)
  PROVE  /\ Only(list, S) \in Seq(X \cap S)
         /\ IsInjective(list) => IsInjective(Only(list, S))
<1>1. PICK kept \in [0 .. Len(list) -> Seq(X)] : OnlyRun(kept, list, S)
  BY OnlySteps
<1> DEFINE N == Len(list)
<1>r. /\ kept[0] = <<>>
      /\ \A n \in 1 .. N : kept[n] = OnlyStep(list, S, n, kept[n - 1])
      /\ Only(list, S) = kept[N]
  BY <1>1 DEF OnlyRun
<1> DEFINE T == {n \in 0 .. N : Kept(kept[n], list, S, n)}
<1>2. 0 \in T
  BY <1>r DEF Kept, IsInjective
<1>3. ASSUME NEW n \in 0 .. N - 1, n \in T
      PROVE  n + 1 \in T
  <2>1. n + 1 \in 1 .. N /\ n + 1 - 1 = n /\ n \in 0 .. N /\ n + 1 \in 0 .. N
    OBVIOUS
  <2>2. kept[n] \in Seq(X) /\ Kept(kept[n], list, S, n)
    BY <1>1, <1>3, <2>1
  <2>3. Kept(OnlyStep(list, S, n + 1, kept[n]), list, S, n + 1)
    BY <2>1, <2>2, OnlyStepKept
  <2> QED
    BY <1>r, <2>1, <2>3
<1>4. N \in T
  <2>1. N \in Nat
    OBVIOUS
  <2> HIDE DEF T, N
  <2>2. 0 .. N \subseteq T
    BY <1>2, <1>3, <2>1, UpTo
  <2> QED
    BY <2>1, <2>2
<1>5. Kept(Only(list, S), list, S, N) /\ Only(list, S) \in Seq(X)
  BY <1>1, <1>r, <1>4
<1>6. \A i \in 1 .. Len(Only(list, S)) : Only(list, S)[i] \in X \cap S
  BY <1>5 DEF Kept
<1> QED
  <2> DEFINE q == Only(list, S)
  <2>1. q \in Seq(X) /\ \A i \in 1 .. Len(q) : q[i] \in X \cap S
    BY <1>5, <1>6
  <2>2. IsInjective(list) => IsInjective(q)
    BY <1>5 DEF Kept
  <2> HIDE DEF q
  <2>3. q \in Seq(X \cap S)
    BY <2>1
  <2> QED
    BY <2>2, <2>3 DEF q

-----------------------------------------------------------------------------
(* What the operations of libfaim do to a session, field by field.         *)

(* The list of connections as a function. *)
LEMMA ConnListType ==
  /\ \A L \in ConnLists : DOMAIN L \subseteq Socks /\ L \in [DOMAIN L -> Conns]
  /\ \A I \in SUBSET Socks : [I -> Conns] \subseteq ConnLists
BY DEF ConnLists

(* A session's fields. *)
LEMMA SessionFields ==
  ASSUME NEW f \in Sessions
  PROVE  /\ f.connlist \in ConnLists /\ f.queue \in Queues /\ f.wire \in Queues
         /\ f.closed \subseteq Socks /\ f.types \in Seq(Types) /\ f.asked \in [Types -> Nat]
         /\ f.doubled \subseteq Slots
         /\ DOMAIN f.connlist \subseteq Socks
         /\ f.connlist \in [DOMAIN f.connlist -> Conns]
         /\ \A i \in DOMAIN f.connlist : i \in Socks /\ Conn(f, i) \in Conns
BY ConnListType DEF Sessions, Conn

(* A connection's fields. *)
LEMMA ConnFields ==
  ASSUME NEW c \in Conns
  PROVE  /\ c.type \in Types /\ c.fd \in 0 .. MaxConns /\ c.inprogress \in BOOLEAN
         /\ c.seqnum \in Nat /\ c.groups \subseteq Types
         /\ c.fd # 0 => c.fd \in Socks
BY BoundsAssumption DEF Conns, Socks

(* The frames that are made carry their connection, consecutive numbers,   *)
(* and what was asked for.                                                 *)
LEMMA NextFramesType ==
  ASSUME NEW f \in Sessions, NEW id, Known(f, id), NEW whats \in Seq(Whats)
  PROVE  /\ NextFrames(f, id, whats) \in Seq(Frames)
         /\ Len(NextFrames(f, id, whats)) = Len(whats)
         /\ \A k \in 1 .. Len(whats) :
              /\ NextFrames(f, id, whats)[k].conn = id
              /\ NextFrames(f, id, whats)[k].seqnum = Conn(f, id).seqnum + k
              /\ NextFrames(f, id, whats)[k].what = whats[k]
<1> DEFINE n == Len(whats)
           new == NextFrames(f, id, whats)
<1>1. n \in Nat /\ \A k \in 1 .. n : whats[k] \in Whats
  OBVIOUS
<1>2. id \in Socks /\ Conn(f, id).seqnum \in Nat
  BY SessionFields, ConnFields DEF Known
<1>3. ASSUME NEW k \in 1 .. n
      PROVE  [conn |-> id, seqnum |-> Conn(f, id).seqnum + k, what |-> whats[k]] \in Frames
  BY <1>1, <1>2 DEF Frames
<1>4. new = [k \in 1 .. n |-> [conn |-> id, seqnum |-> Conn(f, id).seqnum + k, what |-> whats[k]]]
  BY DEF NextFrames
<1>5. new \in [1 .. n -> Frames]
  BY <1>3, <1>4
<1>6. new \in Seq(Frames) /\ Len(new) = n
  <2> HIDE DEF new, n
  <2> QED
    BY <1>1, <1>5
<1> QED
  BY <1>4, <1>6

(* The change that sending frames makes to the fields of f. *)
Sent(f, g, id, whats) ==
  LET c == Conn(f, id)
      new == NextFrames(f, id, whats)
  IN  /\ g.closed = f.closed /\ g.types = f.types /\ g.asked = f.asked /\ g.doubled = f.doubled
      /\ g.connlist = [f.connlist EXCEPT ![id] = [c EXCEPT !.seqnum = c.seqnum + Len(whats)]]
      /\ g.queue = IF c.inprogress THEN [f.queue EXCEPT ![id] = f.queue[id] \o new] ELSE f.queue
      /\ g.wire = IF ~c.inprogress /\ c.fd # 0 THEN [f.wire EXCEPT ![c.fd] = f.wire[c.fd] \o new]
                  ELSE f.wire

(* aim_tx_enqueue does that. *)
LEMMA EnqueueIs ==
  ASSUME NEW f \in Sessions, NEW id, Known(f, id), NEW whats \in Seq(Whats)
  PROVE  /\ aim_tx_enqueue(f, id, whats) \in Sessions
         /\ Sent(f, aim_tx_enqueue(f, id, whats), id, whats)
<1> DEFINE c == Conn(f, id)
           new == NextFrames(f, id, whats)
           c2 == [c EXCEPT !.seqnum = c.seqnum + Len(whats)]
           L == [f.connlist EXCEPT ![id] = c2]
           g == aim_tx_enqueue(f, id, whats)
<1>1. new \in Seq(Frames)
  BY NextFramesType
<1>2. c \in Conns /\ id \in DOMAIN f.connlist /\ id \in Socks /\ Len(whats) \in Nat
  BY SessionFields DEF Known
<1>3. c2 \in Conns
  <2> HIDE DEF c
  <2> QED
    BY <1>2 DEF Conns
<1>4. L \in ConnLists
  <2>1. L \in [DOMAIN f.connlist -> Conns]
    <3> HIDE DEF c2
    <3> QED
      BY <1>2, <1>3, SessionFields
  <2> QED
    BY <2>1, SessionFields, ConnListType
<1>5. Numbered(f, id, whats) = [f EXCEPT !.connlist = L]
  BY <1>2 DEF Numbered, Conn, Sessions
<1>6. CASE c.inprogress
  <2> DEFINE q == [f.queue EXCEPT ![id] = f.queue[id] \o new]
  <2>1. g = [f EXCEPT !.connlist = L, !.queue = q]
    <3> HIDE DEF new, L
    <3> QED
      BY <1>5, <1>6 DEF aim_tx_enqueue, Sessions, new
  <2>2. q \in Queues
    <3> HIDE DEF new
    <3>1. f.queue \in [Socks -> Seq(Frames)]
      BY SessionFields DEF Queues
    <3>2. f.queue[id] \o new \in Seq(Frames)
      BY <3>1, <1>1, <1>2
    <3> QED
      BY <3>1, <3>2 DEF Queues
  <2>3. g \in Sessions /\ g.connlist = L /\ g.queue = q /\ g.wire = f.wire /\ g.closed = f.closed
        /\ g.types = f.types /\ g.asked = f.asked /\ g.doubled = f.doubled
    <3> HIDE DEF q, L, g
    <3> QED
      BY <2>1, <2>2, <1>4 DEF Sessions
  <2> QED
    BY <2>3, <1>6 DEF Sent
<1>7. CASE ~c.inprogress /\ c.fd = 0
  <2>1. Conn(Numbered(f, id, whats), id) = c2
    BY <1>5, <1>2 DEF Conn, Sessions
  <2>2. c2.fd = 0
    BY <1>7, <1>2 DEF Conns
  <2>3. g = [f EXCEPT !.connlist = L]
    <3> HIDE DEF new, L, c2
    <3> QED
      BY <1>5, <1>7, <2>1, <2>2 DEF aim_tx_enqueue, aim_tx_sendframe
  <2>4. g \in Sessions /\ g.connlist = L /\ g.queue = f.queue /\ g.wire = f.wire
        /\ g.closed = f.closed /\ g.types = f.types /\ g.asked = f.asked /\ g.doubled = f.doubled
    <3> HIDE DEF L, g
    <3> QED
      BY <2>3, <1>4 DEF Sessions
  <2> QED
    BY <2>4, <1>7 DEF Sent
<1>8. CASE ~c.inprogress /\ c.fd # 0
  <2> DEFINE q == [f.wire EXCEPT ![c.fd] = f.wire[c.fd] \o new]
  <2>1. Conn(Numbered(f, id, whats), id) = c2
    BY <1>5, <1>2 DEF Conn, Sessions
  <2>2. c2.fd = c.fd /\ c.fd # 0 /\ c.fd \in Socks
    BY <1>8, <1>2, ConnFields DEF Conns
  <2>3. g = [f EXCEPT !.connlist = L, !.wire = q]
    <3> DEFINE h == [f EXCEPT !.connlist = L]
    <3>1. g = [h EXCEPT !.wire[c.fd] = h.wire[c.fd] \o new]
      <4> HIDE DEF L, c2
      <4> QED
        BY <1>5, <1>8, <2>1, <2>2 DEF aim_tx_enqueue, aim_tx_sendframe
    <3> HIDE DEF new, L, c, g
    <3> QED
      BY <3>1 DEF Sessions
  <2>4. q \in Queues
    <3> HIDE DEF new, c
    <3>1. f.wire \in [Socks -> Seq(Frames)]
      BY SessionFields DEF Queues
    <3>2. f.wire[c.fd] \o new \in Seq(Frames)
      BY <3>1, <1>1, <2>2
    <3> QED
      BY <3>1, <3>2 DEF Queues
  <2>5. g \in Sessions /\ g.connlist = L /\ g.queue = f.queue /\ g.wire = q /\ g.closed = f.closed
        /\ g.types = f.types /\ g.asked = f.asked /\ g.doubled = f.doubled
    <3> HIDE DEF q, L, g
    <3> QED
      BY <2>3, <2>4, <1>4 DEF Sessions
  <2> QED
    BY <2>5, <1>8 DEF Sent
<1> QED
  BY <1>6, <1>7, <1>8

-----------------------------------------------------------------------------
(* Sending frames keeps what holds while signed on.                        *)

(* Frames numbered on are numbered. *)
LEMMA NumbersAppend ==
  ASSUME NEW q \in Seq(Frames), NEW new \in Seq(Frames), NEW s, Numbers(q, s), Len(q) >= 1,
         \A k \in 1 .. Len(new) : /\ new[k].conn = s /\ new[k].seqnum = Len(q) + k
                                  /\ new[k].what # "cookie"
  PROVE  Numbers(q \o new, s) /\ Len(q \o new) = Len(q) + Len(new)
<1> DEFINE r == q \o new
<1>1. Len(r) = Len(q) + Len(new) /\ DOMAIN r = 1 .. Len(r)
  OBVIOUS
<1>2. \A k \in 1 .. Len(q) : r[k] = q[k]
  OBVIOUS
<1>3. \A k \in 1 .. Len(new) : r[Len(q) + k] = new[k]
  OBVIOUS
<1>4. ASSUME NEW k \in DOMAIN r
      PROVE  r[k].conn = s /\ r[k].seqnum = k /\ ((k = 1) = (r[k].what = "cookie"))
  <2>1. CASE k \in 1 .. Len(q)
    BY <2>1, <1>2 DEF Numbers
  <2>2. CASE k \notin 1 .. Len(q)
    <3> DEFINE j == k - Len(q)
    <3>1. j \in 1 .. Len(new) /\ k = Len(q) + j /\ k # 1
      BY <2>2, <1>1
    <3> HIDE DEF r, j
    <3> QED
      BY <3>1, <1>3
  <2> QED
    BY <2>1, <2>2
<1> QED
  BY <1>1, <1>4 DEF Numbers

(* g has the connections of f, with the same types, sockets and progress. *)
Alike(f, g) ==
  /\ g.types = f.types /\ g.asked = f.asked /\ g.doubled = f.doubled
  /\ DOMAIN g.connlist = DOMAIN f.connlist
  /\ \A i \in DOMAIN f.connlist :
       /\ Conn(g, i).type = Conn(f, i).type /\ Conn(g, i).fd = Conn(f, i).fd
       /\ Conn(g, i).inprogress = Conn(f, i).inprogress

(* What depends on that alone is the same of both. *)
LEMMA AlikeSame ==
  ASSUME NEW f, NEW g, Alike(f, g), NEW D, NEW W, NEW chats
  PROVE  /\ \A s : TypeAt(g, s) = TypeAt(f, s) /\ Known(g, s) = Known(f, s)
         /\ \A t : OfType(g, t) = OfType(f, t) /\ Busy(g, t) = Busy(f, t)
         /\ Single(f) => Single(g)
         /\ WatchesOK(f, W) => WatchesOK(g, W)
         /\ DialsOK(f, D) => DialsOK(g, D)
         /\ RoomsOK(f, chats) => RoomsOK(g, chats)
<1>1. \A s : TypeAt(g, s) = TypeAt(f, s) /\ Known(g, s) = Known(f, s)
  BY DEF Alike, TypeAt, Known
<1>2. \A t : OfType(g, t) = OfType(f, t)
  BY DEF Alike, OfType
<1>3. \A t : Busy(g, t) = Busy(f, t)
  BY <1>2 DEF Alike, Busy, OfType
<1>4. Single(f) => Single(g)
  BY <1>2 DEF Alike, Single
<1>5. WatchesOK(f, W) => WatchesOK(g, W)
  BY <1>1 DEF Alike, WatchesOK, Known
<1>6. DialsOK(f, D) => DialsOK(g, D)
  BY <1>1, <1>3 DEF Alike, DialsOK, Known
<1>7. RoomsOK(f, chats) => RoomsOK(g, chats)
  BY <1>1 DEF Alike, RoomsOK, Known
<1> QED
  BY <1>1, <1>2, <1>3, <1>4, <1>5, <1>6, <1>7

(* Frames other than the cookie, on a connection in the list. *)
LEMMA EnqueueKeeps ==
  ASSUME NEW f \in Sessions, NEW id, Known(f, id), NEW whats \in Seq(Whats \ {"cookie"}),
         NEW D, NEW W, NEW slot, NEW chats, Live(f, D, W, slot, chats)
  PROVE  /\ aim_tx_enqueue(f, id, whats) \in Sessions
         /\ Live(aim_tx_enqueue(f, id, whats), D, W, slot, chats)
         /\ Alike(f, aim_tx_enqueue(f, id, whats))
<1> DEFINE g == aim_tx_enqueue(f, id, whats)
           c == Conn(f, id)
           new == NextFrames(f, id, whats)
           n == Len(whats)
<1>1. whats \in Seq(Whats) /\ n \in Nat /\ \A k \in 1 .. n : whats[k] # "cookie"
  OBVIOUS
<1>2. g \in Sessions /\ Sent(f, g, id, whats)
  BY <1>1, EnqueueIs
<1>3. /\ new \in Seq(Frames) /\ Len(new) = n
      /\ \A k \in 1 .. n : /\ new[k].conn = id /\ new[k].seqnum = c.seqnum + k
                           /\ new[k].what # "cookie"
  BY <1>1, NextFramesType
<1> HIDE DEF g
<1>4. id \in DOMAIN f.connlist /\ id \in Socks /\ c \in Conns /\ c.seqnum \in Nat
      /\ c.type \in Types /\ c.inprogress \in BOOLEAN
  BY SessionFields, ConnFields DEF Known
<1>5. /\ g.types = f.types /\ g.asked = f.asked /\ g.doubled = f.doubled
      /\ DOMAIN g.connlist = DOMAIN f.connlist
      /\ Conn(g, id) = [c EXCEPT !.seqnum = c.seqnum + n]
      /\ \A i \in DOMAIN f.connlist : i # id => Conn(g, i) = Conn(f, i)
  BY <1>2, <1>4, SessionFields DEF Sent, Conn
<1>6. /\ Conn(g, id).type = c.type /\ Conn(g, id).fd = c.fd
      /\ Conn(g, id).inprogress = c.inprogress /\ Conn(g, id).seqnum = c.seqnum + n
  <2> HIDE DEF c
  <2> QED
    BY <1>4, <1>5 DEF Conns
<1>7. Alike(f, g)
  BY <1>5, <1>6 DEF Alike
<1>8. \A s \in Socks : f.queue[s] \in Seq(Frames) /\ f.wire[s] \in Seq(Frames)
  BY SessionFields DEF Queues
<1>9. \A s \in Socks :
        /\ g.queue[s] = IF c.inprogress /\ s = id THEN f.queue[s] \o new ELSE f.queue[s]
        /\ g.wire[s] = IF ~c.inprogress /\ s = c.fd THEN f.wire[s] \o new ELSE f.wire[s]
  <2> TAKE s \in Socks
  <2> HIDE DEF c, new
  <2>1. s # 0 /\ f.queue \in [Socks -> Seq(Frames)] /\ f.wire \in [Socks -> Seq(Frames)]
    BY SessionFields DEF Queues, Socks
  <2>2. g.queue[s] = IF c.inprogress /\ s = id THEN f.queue[s] \o new ELSE f.queue[s]
    BY <1>2, <2>1 DEF Sent, c, new
  <2>3. g.wire[s] = IF ~c.inprogress /\ s = c.fd THEN f.wire[s] \o new ELSE f.wire[s]
    BY <1>2, <2>1 DEF Sent, c, new
  <2> QED
    BY <2>2, <2>3
<1>10. \A s : TypeAt(g, s) = TypeAt(f, s) /\ Known(g, s) = Known(f, s)
  BY <1>7, AlikeSame
<1>p. Placed(f, D, W, slot) /\ Awaiting(f) /\ Single(f) /\ WiresOK(f)
      /\ ConnsOK(f, D, W, slot, chats) /\ WatchesOK(f, W) /\ DialsOK(f, D) /\ RoomsOK(f, chats)
  BY DEF Live
<1> HIDE DEF c, new
<1>a. ASSUME NEW q \in Seq(Frames), Numbers(q, id), Len(q) = c.seqnum, c.seqnum >= 1
      PROVE  Numbers(q \o new, id) /\ Len(q \o new) = c.seqnum + n
  <2>1. Len(q) >= 1 /\ new \in Seq(Frames) /\ Len(new) = n
    BY <1>3, <1>a
  <2>2. \A k \in 1 .. Len(new) : /\ new[k].conn = id /\ new[k].seqnum = Len(q) + k
                                 /\ new[k].what # "cookie"
    BY <1>3, <1>a
  <2>3. Numbers(q \o new, id) /\ Len(q \o new) = Len(q) + Len(new)
    BY <1>a, <2>1, <2>2, NumbersAppend
  <2> QED
    BY <1>a, <2>1, <2>3
<1>11. \A s : c.fd = s /\ s # 0 => TypeAt(f, s) = c.type
  BY <1>p, <1>4 DEF Placed, c
<1>12. c.type # "none" /\ 0 \notin Socks
  BY <1>4 DEF Types, Socks
<1>13. Placed(g, D, W, slot)
  <2>1. \A i \in DOMAIN g.connlist :
          /\ TypeAt(g, i) = Conn(g, i).type
          /\ Conn(g, i).fd # 0 => TypeAt(g, Conn(g, i).fd) = Conn(g, i).type
    BY <1>p, <1>7, <1>10 DEF Placed, Alike
  <2>2. \A s \in Socks : TypeAt(g, s) = "none" => g.wire[s] = <<>>
    BY <1>p, <1>9, <1>10, <1>11, <1>12 DEF Placed
  <2> QED
    BY <2>1, <2>2, <1>p, <1>10 DEF Placed
<1>14. Awaiting(g)
  <2> SUFFICES ASSUME NEW i \in Socks, g.queue[i] # <<>>
               PROVE  Known(g, i) /\ Conn(g, i).inprogress
    BY DEF Awaiting
  <2>1. CASE i = id
    BY <2>1, <1>p, <1>4, <1>6, <1>9, <1>10 DEF Awaiting, Known, c
  <2>2. CASE i # id
    BY <2>2, <1>p, <1>5, <1>9, <1>10 DEF Awaiting, Known
  <2> QED
    BY <2>1, <2>2
<1>15. ConnsOK(g, D, W, slot, chats)
  <2> SUFFICES ASSUME NEW i \in DOMAIN g.connlist, Conn(g, i).type \notin g.doubled
               PROVE  Pending(g, D, i) \/ Working(g, W, slot, chats, i)
    BY DEF ConnsOK
  <2>1. i \in DOMAIN f.connlist /\ i \in Socks /\ Conn(f, i).type \notin f.doubled
    BY <1>7, SessionFields DEF Alike
  <2>2. CASE i # id
    <3>1. Conn(g, i) = Conn(f, i) /\ g.queue[i] = f.queue[i]
      BY <2>1, <2>2, <1>5, <1>9
    <3>2. CASE Pending(f, D, i)
      <4>1. f.wire[i] = <<>> /\ TypeAt(f, i) = Conn(f, i).type
        BY <3>2, <2>1, <1>p DEF Pending, Placed
      <4>2. ASSUME ~c.inprogress, i = c.fd
            PROVE  FALSE
        <5>1. TypeAt(f, i) = c.type
          BY <1>11, <4>2, <2>1, <1>12
        <5>2. Working(f, W, slot, chats, id)
          BY <5>1, <4>1, <4>2, <2>1, <1>4, <1>p DEF ConnsOK, Pending, c
        <5> QED
          BY <5>2, <4>2, <2>2 DEF Working, c
      <4>3. g.wire[i] = f.wire[i]
        BY <4>2, <1>9, <2>1
      <4> QED
        BY <3>1, <3>2, <4>3 DEF Pending
    <3>3. CASE Working(f, W, slot, chats, i)
      <4>1. ASSUME ~c.inprogress, i = c.fd
            PROVE  FALSE
        <5>1. TypeAt(f, i) = c.type /\ TypeAt(f, i) = Conn(f, i).type
          BY <1>11, <4>1, <2>1, <1>12, <1>p DEF Placed
        <5>2. Working(f, W, slot, chats, id)
          BY <5>1, <4>1, <2>1, <1>4, <1>p DEF ConnsOK, Pending, c
        <5> QED
          BY <5>2, <4>1, <2>2 DEF Working, c
      <4>2. g.wire[i] = f.wire[i]
        BY <4>1, <1>9, <2>1
      <4> QED
        BY <3>1, <3>3, <4>2 DEF Working
    <3> QED
      BY <3>2, <3>3, <2>1, <1>p DEF ConnsOK
  <2>3. CASE i = id
    <3>1. CASE Pending(f, D, id)
      <4>1. /\ c.inprogress /\ c.fd = 0 /\ [sock |-> id, type |-> c.type] \in D
            /\ c.seqnum >= 1 /\ Len(f.queue[id]) = c.seqnum /\ Numbers(f.queue[id], id)
            /\ f.wire[id] = <<>>
        BY <3>1 DEF Pending, c
      <4>2. Numbers(f.queue[id] \o new, id) /\ Len(f.queue[id] \o new) = c.seqnum + n
        BY <4>1, <1>4, <1>8, <1>a
      <4>3. g.queue[id] = f.queue[id] \o new /\ g.wire[id] = f.wire[id]
        BY <4>1, <1>4, <1>9
      <4>4. Conn(g, id).inprogress /\ Conn(g, id).fd = 0 /\ Conn(g, id).seqnum >= 1
        BY <4>1, <1>1, <1>4, <1>6
      <4>5. Pending(g, D, id)
        BY <4>1, <4>2, <4>3, <4>4, <1>6 DEF Pending
      <4> QED
        BY <4>5, <2>3
    <3>2. CASE Working(f, W, slot, chats, id)
      <4>1. /\ ~c.inprogress /\ c.fd = id /\ [sock |-> id, conn |-> id, type |-> c.type] \in W
            /\ c.seqnum >= 1 /\ Len(f.wire[id]) = c.seqnum
            /\ IF c.type = "chat" THEN \E m \in chats : m.conn = id ELSE slot[c.type] = id
        BY <3>2 DEF Working, c
      <4>2. TypeAt(f, id) \notin f.doubled
        BY <2>1, <2>3, <1>4, <1>p DEF Placed
      <4>3. Numbers(f.wire[id], id)
        BY <4>2, <1>4, <1>p DEF WiresOK
      <4>4. Len(f.wire[id] \o new) = c.seqnum + n
        BY <4>1, <4>3, <1>4, <1>8, <1>a
      <4>5. g.wire[id] = f.wire[id] \o new
        BY <4>1, <1>4, <1>9
      <4>6. ~Conn(g, id).inprogress /\ Conn(g, id).fd = id /\ Conn(g, id).seqnum >= 1
        BY <4>1, <1>1, <1>4, <1>6
      <4>7. Working(g, W, slot, chats, id)
        BY <4>1, <4>4, <4>5, <4>6, <1>6 DEF Working
      <4> QED
        BY <4>7, <2>3
    <3> QED
      BY <3>1, <3>2, <2>1, <2>3, <1>p DEF ConnsOK
  <2> QED
    BY <2>2, <2>3
<1>16. WiresOK(g)
  <2> SUFFICES ASSUME NEW s \in Socks, TypeAt(g, s) \notin g.doubled
               PROVE  Numbers(g.wire[s], s)
    BY DEF WiresOK
  <2>1. Numbers(f.wire[s], s) /\ TypeAt(f, s) \notin f.doubled
    BY <1>p, <1>5, <1>10 DEF WiresOK
  <2>2. CASE ~c.inprogress /\ s = c.fd
    <3>1. c.type \notin f.doubled
      BY <2>1, <2>2, <1>11, <1>12
    <3>2. Working(f, W, slot, chats, id)
      BY <3>1, <2>2, <1>4, <1>p DEF ConnsOK, Pending, c
    <3>3. s = id /\ Len(f.wire[s]) = c.seqnum /\ c.seqnum >= 1
      BY <3>2, <2>2 DEF Working, c
    <3>4. Numbers(f.wire[s] \o new, s)
      BY <3>3, <2>1, <1>8, <1>a
    <3> QED
      BY <3>4, <2>2, <1>9
  <2>3. CASE ~(~c.inprogress /\ s = c.fd)
    BY <2>3, <2>1, <1>9
  <2> QED
    BY <2>2, <2>3
<1>17. Single(g) /\ WatchesOK(g, W) /\ DialsOK(g, D) /\ RoomsOK(g, chats)
  BY <1>7, <1>p, AlikeSame
<1>18. Live(g, D, W, slot, chats)
  BY <1>13, <1>14, <1>15, <1>16, <1>17 DEF Live
<1> QED
  BY <1>2, <1>7, <1>18 DEF g

-----------------------------------------------------------------------------
(* Asking for a service.                                                   *)

(* A type is sought when it is asked for or has a connection. *)
LEMMA SoughtIf ==
  ASSUME NEW f \in Sessions, NEW t \in Types
  PROVE  ~Sought(f, t) => f.asked[t] = 0 /\ OfType(f, t) = {}
<1>1. f.asked[t] \in Nat /\ OfType(f, t) \in SUBSET Socks
  BY SessionFields DEF OfType
<1>2. OfType(f, t) # {} => Newest(OfType(f, t)) \in Socks
  BY <1>1, NewestIn
<1>3. 0 \notin Socks
  BY DEF Socks
<1> QED
  BY <1>1, <1>2, <1>3 DEF Sought, aim_getconn_type_all

(* The change that a request makes. *)
LEMMA ReqserviceIs ==
  ASSUME NEW f \in Sessions, NEW t \in Types
  PROVE  LET g == aim_reqservice(f, t) IN
         /\ g \in Sessions
         /\ g.connlist = f.connlist /\ g.queue = f.queue /\ g.wire = f.wire
         /\ g.closed = f.closed /\ g.types = f.types
         /\ g.asked = [f.asked EXCEPT ![t] = f.asked[t] + 1]
         /\ f.doubled \subseteq g.doubled
         /\ t \in Slots \ g.doubled => ~Sought(f, t)
<1> DEFINE A == [f.asked EXCEPT ![t] = f.asked[t] + 1]
           B == IF t # "chat" /\ Sought(f, t) THEN f.doubled \cup {t} ELSE f.doubled
           g == [f EXCEPT !.asked = A, !.doubled = B]
<1>1. A \in [Types -> Nat]
  <2>1. f.asked \in [Types -> Nat] /\ f.asked[t] + 1 \in Nat
    BY SessionFields
  <2> QED
    BY <2>1
<1>2. B \subseteq Slots /\ f.doubled \subseteq B
  BY SessionFields DEF Slots
<1>3. aim_reqservice(f, t) = g
  BY DEF aim_reqservice, Sessions
<1>4. t \in Slots \ B => ~Sought(f, t)
  BY DEF Slots
<1>5. /\ g \in Sessions
      /\ g.connlist = f.connlist /\ g.queue = f.queue /\ g.wire = f.wire
      /\ g.closed = f.closed /\ g.types = f.types /\ g.asked = A /\ g.doubled = B
  <2> HIDE DEF A, B
  <2> QED
    BY <1>1, <1>2 DEF Sessions
<1> HIDE DEF g, B
<1> QED
  BY <1>2, <1>3, <1>4, <1>5

(* A request keeps what holds while signed on: a type that is now asked    *)
(* for twice is claimed nothing of any more.                               *)
LEMMA ReqserviceKeeps ==
  ASSUME NEW f \in Sessions, NEW t \in Types,
         NEW D, NEW W, NEW slot, NEW chats, Live(f, D, W, slot, chats)
  PROVE  aim_reqservice(f, t) \in Sessions /\ Live(aim_reqservice(f, t), D, W, slot, chats)
<1> DEFINE g == aim_reqservice(f, t)
<1>1. /\ g \in Sessions
      /\ g.connlist = f.connlist /\ g.queue = f.queue /\ g.wire = f.wire
      /\ g.closed = f.closed /\ g.types = f.types
      /\ g.asked = [f.asked EXCEPT ![t] = f.asked[t] + 1]
      /\ f.doubled \subseteq g.doubled
      /\ t \in Slots \ g.doubled => ~Sought(f, t)
  BY ReqserviceIs
<1> HIDE DEF g
<1>2. /\ \A i : Conn(g, i) = Conn(f, i) /\ Known(g, i) = Known(f, i)
      /\ \A s : TypeAt(g, s) = TypeAt(f, s)
      /\ \A u : OfType(g, u) = OfType(f, u)
  BY <1>1 DEF Conn, Known, TypeAt, OfType
<1>3. \A u : Busy(g, u) = Busy(f, u)
  BY <1>2 DEF Busy
<1>p. Placed(f, D, W, slot) /\ Awaiting(f) /\ Single(f) /\ WiresOK(f)
      /\ ConnsOK(f, D, W, slot, chats) /\ WatchesOK(f, W) /\ DialsOK(f, D) /\ RoomsOK(f, chats)
  BY DEF Live
<1>4. Placed(g, D, W, slot)
  BY <1>1, <1>2, <1>p DEF Placed
<1>5. Awaiting(g)
  BY <1>1, <1>2, <1>p DEF Awaiting
<1>6. Single(g)
  <2> SUFFICES ASSUME NEW u \in Slots \ g.doubled
               PROVE  /\ g.asked[u] <= 1
                      /\ \A i \in OfType(g, u) : g.asked[u] = 0 /\ OfType(g, u) = {i}
    BY DEF Single
  <2>1. u \in Types /\ f.asked \in [Types -> Nat] /\ u \in Slots \ f.doubled
    BY <1>1, SessionFields DEF Slots
  <2>2. CASE u = t
    <3>1. f.asked[t] = 0 /\ OfType(f, t) = {}
      BY <2>2, <1>1, SoughtIf
    <3> QED
      BY <3>1, <2>1, <2>2, <1>1, <1>2
  <2>3. CASE u # t
    <3>1. g.asked[u] = f.asked[u]
      BY <2>1, <2>3, <1>1
    <3> QED
      BY <3>1, <2>1, <1>2, <1>p DEF Single
  <2> QED
    BY <2>2, <2>3
<1>7. WiresOK(g)
  BY <1>1, <1>2, <1>p DEF WiresOK
<1>8. ConnsOK(g, D, W, slot, chats)
  <2> SUFFICES ASSUME NEW i \in DOMAIN g.connlist, Conn(g, i).type \notin g.doubled
               PROVE  Pending(g, D, i) \/ Working(g, W, slot, chats, i)
    BY DEF ConnsOK
  <2>1. Pending(f, D, i) \/ Working(f, W, slot, chats, i)
    BY <1>1, <1>2, <1>p DEF ConnsOK
  <2>2. Pending(f, D, i) => Pending(g, D, i)
    BY <1>1, <1>2 DEF Pending
  <2>3. Working(f, W, slot, chats, i) => Working(g, W, slot, chats, i)
    BY <1>1, <1>2 DEF Working
  <2> QED
    BY <2>1, <2>2, <2>3
<1>9. WatchesOK(g, W)
  BY <1>1, <1>2, <1>p DEF WatchesOK
<1>10. DialsOK(g, D)
  BY <1>1, <1>2, <1>3, <1>p DEF DialsOK
<1>11. RoomsOK(g, chats)
  BY <1>1, <1>2, <1>p DEF RoomsOK
<1>12. Live(g, D, W, slot, chats)
  BY <1>4, <1>5, <1>6, <1>7, <1>8, <1>9, <1>10, <1>11 DEF Live
<1> QED
  BY <1>1, <1>12 DEF g

-----------------------------------------------------------------------------
(* Killing a connection.                                                   *)

(* The change to all that matters here. *)
Removed(f, g, id) ==
  /\ g.types = f.types /\ g.asked = f.asked /\ g.doubled = f.doubled /\ g.wire = f.wire
  /\ g.connlist = [i \in DOMAIN f.connlist \ {id} |-> f.connlist[i]]
  /\ g.queue = [f.queue EXCEPT ![id] = <<>>]

(* aim_conn_kill makes it. *)
LEMMA KillIs ==
  ASSUME NEW f \in Sessions, NEW id, Known(f, id)
  PROVE  aim_conn_kill(f, id) \in Sessions /\ Removed(f, aim_conn_kill(f, id), id)
<1> DEFINE L == [i \in DOMAIN f.connlist \ {id} |-> f.connlist[i]]
           q == [f.queue EXCEPT ![id] = <<>>]
           cl == f.closed \cup ({Conn(f, id).fd} \ {0})
           g == [f EXCEPT !.queue = q, !.connlist = L, !.closed = cl]
<1>1. L \in ConnLists
  <2>1. DOMAIN f.connlist \ {id} \in SUBSET Socks
        /\ L \in [DOMAIN f.connlist \ {id} -> Conns]
    BY SessionFields
  <2> QED
    BY <2>1, ConnListType
<1>2. q \in Queues
  <2>1. f.queue \in [Socks -> Seq(Frames)] /\ <<>> \in Seq(Frames)
    BY SessionFields DEF Queues
  <2> QED
    BY <2>1 DEF Queues
<1>3. cl \subseteq Socks
  <2>1. Conn(f, id) \in Conns /\ f.closed \subseteq Socks
    BY SessionFields DEF Known
  <2> QED
    BY <2>1, ConnFields
<1>4. aim_conn_kill(f, id) = g
  BY DEF aim_conn_kill, aim_tx_cleanqueue, Restrict, Sessions, Known
<1>5. /\ g \in Sessions
      /\ g.connlist = L /\ g.queue = q /\ g.types = f.types /\ g.asked = f.asked
      /\ g.doubled = f.doubled /\ g.wire = f.wire
  <2> HIDE DEF L, q, cl
  <2> QED
    BY <1>1, <1>2, <1>3 DEF Sessions
<1> HIDE DEF g
<1> QED
  BY <1>4, <1>5 DEF Removed

(* The connects, inputs, slots and rooms of the connections other than id  *)
(* are spared, ...                                                         *)
Spared(f, id, D, D2, W, W2, slot, slot2, chats, chats2) ==
  /\ D2 \subseteq D /\ W2 \subseteq W
  /\ \A t \in Slots : slot2[t] \in {slot[t], 0}
  /\ \A i \in DOMAIN f.connlist \ {id} : LET t == Conn(f, i).type IN
       t \notin f.doubled =>
         /\ [sock |-> i, type |-> t] \in D => [sock |-> i, type |-> t] \in D2
         /\ [sock |-> i, conn |-> i, type |-> t] \in W => [sock |-> i, conn |-> i, type |-> t] \in W2
         /\ IF t = "chat" THEN (\E n \in chats : n.conn = i) => \E n \in chats2 : n.conn = i
            ELSE slot[t] = i => slot2[t] = i

(* ... and id's own are gone. *)
Unused(f, id, D2, W2) ==
  /\ \A w \in W2 : w.conn = id => w.type \in f.doubled
  /\ \A d \in D2 : d.sock = id => d.type \in f.doubled
  /\ \A t \in Slots : Cardinality(DialSocks(D2, t)) <= Cardinality(Busy(f, t) \ {id})

(* So killing connection id keeps what holds while signed on. *)
LEMMA RemoveKeeps ==
  ASSUME NEW f \in Sessions, NEW g \in Sessions, NEW id, Removed(f, g, id),
         NEW D, NEW W, NEW slot, NEW chats, Live(f, D, W, slot, chats),
         NEW D2, NEW W2, NEW slot2, NEW chats2,
         Spared(f, id, D, D2, W, W2, slot, slot2, chats, chats2), Unused(f, id, D2, W2),
         RoomsOK(g, chats2)
  PROVE  Live(g, D2, W2, slot2, chats2)
<1>s. /\ D2 \subseteq D /\ W2 \subseteq W
      /\ \A t \in Slots : slot2[t] \in {slot[t], 0}
      /\ \A i \in DOMAIN f.connlist \ {id} : LET t == Conn(f, i).type IN
           t \notin f.doubled =>
             /\ [sock |-> i, type |-> t] \in D => [sock |-> i, type |-> t] \in D2
             /\ [sock |-> i, conn |-> i, type |-> t] \in W
                  => [sock |-> i, conn |-> i, type |-> t] \in W2
             /\ IF t = "chat" THEN (\E n \in chats : n.conn = i) => \E n \in chats2 : n.conn = i
                ELSE slot[t] = i => slot2[t] = i
  BY DEF Spared
<1>u. /\ \A w \in W2 : w.conn = id => w.type \in f.doubled
      /\ \A d \in D2 : d.sock = id => d.type \in f.doubled
      /\ \A t \in Slots : Cardinality(DialSocks(D2, t)) <= Cardinality(Busy(f, t) \ {id})
  BY DEF Unused
<1>1. /\ g.types = f.types /\ g.asked = f.asked /\ g.doubled = f.doubled /\ g.wire = f.wire
      /\ DOMAIN g.connlist = DOMAIN f.connlist \ {id}
      /\ \A i \in DOMAIN f.connlist \ {id} : Conn(g, i) = Conn(f, i)
      /\ \A i \in Socks : g.queue[i] = IF i = id THEN <<>> ELSE f.queue[i]
  <2>1. f.queue \in [Socks -> Seq(Frames)]
    BY SessionFields DEF Queues
  <2> QED
    BY <2>1 DEF Removed, Conn
<1>2. /\ \A s : TypeAt(g, s) = TypeAt(f, s)
      /\ \A i : Known(g, i) = (Known(f, i) /\ i # id)
      /\ \A t : OfType(g, t) = OfType(f, t) \ {id}
  BY <1>1 DEF TypeAt, Known, OfType
<1>3. \A t : Busy(g, t) = Busy(f, t) \ {id}
  BY <1>1, <1>2 DEF Busy, OfType
<1>p. Placed(f, D, W, slot) /\ Awaiting(f) /\ Single(f) /\ WiresOK(f)
      /\ ConnsOK(f, D, W, slot, chats) /\ WatchesOK(f, W) /\ DialsOK(f, D) /\ RoomsOK(f, chats)
  BY DEF Live
<1>4. Placed(g, D2, W2, slot2)
  <2>1. \A i \in DOMAIN g.connlist :
          /\ TypeAt(g, i) = Conn(g, i).type
          /\ Conn(g, i).fd # 0 => TypeAt(g, Conn(g, i).fd) = Conn(g, i).type
    BY <1>1, <1>2, <1>p DEF Placed
  <2>2. \A t \in Slots : slot2[t] # 0 => TypeAt(g, slot2[t]) = t
    BY <1>2, <1>p, <1>s DEF Placed
  <2> QED
    BY <2>1, <2>2, <1>1, <1>2, <1>p, <1>s DEF Placed
<1>5. Awaiting(g)
  <2> SUFFICES ASSUME NEW i \in Socks, g.queue[i] # <<>>
               PROVE  Known(g, i) /\ Conn(g, i).inprogress
    BY DEF Awaiting
  <2>1. i # id /\ f.queue[i] # <<>>
    BY <1>1
  <2>2. Known(f, i) /\ Conn(f, i).inprogress
    BY <2>1, <1>p DEF Awaiting
  <2> QED
    BY <2>1, <2>2, <1>1, <1>2 DEF Known
<1>6. Single(g)
  BY <1>1, <1>2, <1>p DEF Single
<1>7. WiresOK(g)
  BY <1>1, <1>2, <1>p DEF WiresOK
<1>8. ConnsOK(g, D2, W2, slot2, chats2)
  <2> SUFFICES ASSUME NEW i \in DOMAIN g.connlist, Conn(g, i).type \notin g.doubled
               PROVE  Pending(g, D2, i) \/ Working(g, W2, slot2, chats2, i)
    BY DEF ConnsOK
  <2>1. /\ i \in DOMAIN f.connlist \ {id} /\ i \in Socks /\ Conn(g, i) = Conn(f, i)
        /\ Conn(f, i).type \notin f.doubled /\ g.queue[i] = f.queue[i] /\ g.wire[i] = f.wire[i]
    BY <1>1, SessionFields
  <2>2. Pending(f, D, i) => Pending(g, D2, i)
    BY <2>1, <1>s DEF Pending
  <2>3. Working(f, W, slot, chats, i) => Working(g, W2, slot2, chats2, i)
    BY <2>1, <1>s DEF Working
  <2> QED
    BY <2>1, <2>2, <2>3, <1>p DEF ConnsOK
<1>9. WatchesOK(g, W2)
  <2> SUFFICES ASSUME NEW w \in W2
               PROVE  /\ Known(g, w.conn) => ~Conn(g, w.conn).inprogress
                      /\ w.type \notin g.doubled => Known(g, w.conn) /\ w.sock = w.conn
    BY DEF WatchesOK
  <2>1. /\ Known(f, w.conn) => ~Conn(f, w.conn).inprogress
        /\ w.type \notin f.doubled => Known(f, w.conn) /\ w.sock = w.conn
    BY <1>p, <1>s DEF WatchesOK
  <2>2. w.conn = id => w.type \in f.doubled
    BY <1>u
  <2> QED
    BY <2>1, <2>2, <1>1, <1>2 DEF Known
<1>10. DialsOK(g, D2)
  <2>1. ASSUME NEW d \in D2, d.type \notin g.doubled
        PROVE  Known(g, d.sock) /\ Conn(g, d.sock).inprogress
    <3>1. Known(f, d.sock) /\ Conn(f, d.sock).inprogress /\ d.sock # id
      BY <2>1, <1>1, <1>p, <1>s, <1>u DEF DialsOK
    <3> QED
      BY <3>1, <1>1, <1>2 DEF Known
  <2> QED
    BY <2>1, <1>3, <1>u DEF DialsOK
<1> QED
  BY <1>4, <1>5, <1>6, <1>7, <1>8, <1>9, <1>10 DEF Live

-----------------------------------------------------------------------------
(* A redirect.                                                             *)

(* The session after aim_newconn. *)
NewSession(e, t) == aim_newconn([e EXCEPT !.asked[t] = @ - 1], t)

(* Its fields. *)
LEMMA NewconnIs ==
  ASSUME NEW e \in Sessions, NEW t \in Types, e.asked[t] > 0, Len(e.types) + 1 \in Socks
  PROVE  LET f == NewSession(e, t)
             id == Len(e.types) + 1
             c == [type |-> t, fd |-> 0, inprogress |-> TRUE, seqnum |-> 0, groups |-> {}]
         IN
         /\ f \in Sessions /\ Len(f.types) = id
         /\ f.connlist = [i \in DOMAIN e.connlist \cup {id} |-> IF i = id THEN c ELSE e.connlist[i]]
         /\ f.queue = e.queue /\ f.wire = e.wire /\ f.closed = e.closed
         /\ f.types = Append(e.types, t)
         /\ f.asked = [e.asked EXCEPT ![t] = e.asked[t] - 1]
         /\ f.doubled = e.doubled
<1> DEFINE id == Len(e.types) + 1
           c == [type |-> t, fd |-> 0, inprogress |-> TRUE, seqnum |-> 0, groups |-> {}]
           L == [i \in DOMAIN e.connlist \cup {id} |-> IF i = id THEN c ELSE e.connlist[i]]
           A == [e.asked EXCEPT ![t] = e.asked[t] - 1]
           T == Append(e.types, t)
           f == [e EXCEPT !.asked = A, !.types = T, !.connlist = L]
<1>1. c \in Conns
  BY BoundsAssumption DEF Conns
<1>2. L \in ConnLists
  <2>1. DOMAIN e.connlist \cup {id} \in SUBSET Socks
        /\ \A i \in DOMAIN e.connlist : e.connlist[i] \in Conns
    BY SessionFields
  <2>2. L \in [DOMAIN e.connlist \cup {id} -> Conns]
    <3> HIDE DEF c, id
    <3> QED
      BY <1>1, <2>1
  <2> QED
    BY <2>1, <2>2, ConnListType
<1>3. A \in [Types -> Nat]
  <2>1. e.asked \in [Types -> Nat] /\ e.asked[t] - 1 \in Nat
    BY SessionFields
  <2> QED
    BY <2>1
<1>4. T \in Seq(Types) /\ Len(T) = id /\ e.types \in Seq(Types)
  BY SessionFields
<1>5. NewSession(e, t) = f
  <2> DEFINE h == [e EXCEPT !.asked = A]
  <2>1. h.types = e.types /\ h.connlist = e.connlist
    BY DEF Sessions
  <2>2. [e EXCEPT !.asked[t] = @ - 1] = h
    OBVIOUS
  <2>3. aim_newconn(h, t) = [h EXCEPT !.types = T, !.connlist = L]
    <3> HIDE DEF h, A
    <3> QED
      BY <2>1 DEF aim_newconn
  <2>4. [h EXCEPT !.types = T, !.connlist = L] = f
    <3> HIDE DEF A, T, L
    <3> QED
      BY DEF Sessions
  <2> HIDE DEF f, h, A, T, L
  <2> QED
    BY <2>2, <2>3, <2>4 DEF NewSession
<1>6. /\ f \in Sessions
      /\ f.connlist = L /\ f.queue = e.queue /\ f.wire = e.wire /\ f.closed = e.closed
      /\ f.types = T /\ f.asked = A /\ f.doubled = e.doubled
  <2> HIDE DEF A, T, L
  <2> QED
    BY <1>2, <1>3, <1>4 DEF Sessions
<1> HIDE DEF f
<1> QED
  BY <1>4, <1>5, <1>6

(* The new number gets the new type, the others keep theirs. *)
LEMMA TypeAtNew ==
  ASSUME NEW e \in Sessions, NEW g, NEW t, g.types = Append(e.types, t)
  PROVE  \A s : TypeAt(g, s) = IF s = Len(e.types) + 1 THEN t ELSE TypeAt(e, s)
<1>1. e.types \in Seq(Types)
  BY SessionFields
<1> DEFINE n == Len(e.types)
<1>2. /\ n \in Nat /\ Len(g.types) = n + 1 /\ g.types[n + 1] = t
      /\ \A s \in 1 .. n : g.types[s] = e.types[s]
  BY <1>1
<1>3. \A s : s \in 1 .. n + 1 <=> s \in 1 .. n \/ s = n + 1
  BY <1>2
<1>4. n + 1 \notin 1 .. n
  BY <1>2
<1> HIDE DEF n
<1>5. \A s : TypeAt(g, s) = IF s = n + 1 THEN t ELSE TypeAt(e, s)
  BY <1>2, <1>3, <1>4 DEF TypeAt, n
<1> QED
  BY <1>5 DEF n

(* A number that has not been given away is nobody's. *)
LEMMA NumberFree ==
  ASSUME NEW e \in Sessions, NEW D, D \subseteq Connects, NEW W, W \subseteq Inputs,
         NEW slot, NEW chats, Live(e, D, W, slot, chats), Len(e.types) + 1 \in Socks
  PROVE  LET id == Len(e.types) + 1 IN
         /\ ~Known(e, id) /\ e.queue[id] = <<>> /\ e.wire[id] = <<>> /\ TypeAt(e, id) = "none"
         /\ \A d \in D : d.sock # id
         /\ \A w \in W : w.sock # id /\ w.conn # id
<1> DEFINE id == Len(e.types) + 1
<1>1. id \notin 1 .. Len(e.types) /\ id \in Socks
  <2>1. e.types \in Seq(Types)
    BY SessionFields
  <2> QED
    BY <2>1
<1>2. TypeAt(e, id) = "none" /\ "none" \notin Types
  BY <1>1 DEF TypeAt, Types
<1>p. Placed(e, D, W, slot) /\ Awaiting(e)
  BY DEF Live
<1> HIDE DEF id
<1>3. ~Known(e, id)
  <2>1. \A i \in DOMAIN e.connlist : TypeAt(e, i) \in Types
    BY <1>p, SessionFields, ConnFields DEF Placed
  <2> QED
    BY <2>1, <1>2 DEF Known
<1>4. e.queue[id] = <<>> /\ e.wire[id] = <<>>
  BY <1>1, <1>2, <1>3, <1>p DEF Awaiting, Placed
<1>5. \A d \in D : d.sock # id
  BY <1>2, <1>p DEF Placed, Connects
<1>6. \A w \in W : w.sock # id /\ w.conn # id
  BY <1>2, <1>p DEF Placed, Inputs
<1> QED
  BY <1>2, <1>3, <1>4, <1>5, <1>6 DEF id

(* A connect that cannot be started leaves no trace but its number. *)
LEMMA NotStartedKeeps ==
  ASSUME NEW e \in Sessions, NEW t \in Types, e.asked[t] > 0, Len(e.types) + 1 \in Socks,
         NEW D, D \subseteq Connects, NEW W, W \subseteq Inputs, NEW slot, NEW chats,
         Live(e, D, W, slot, chats)
  PROVE  LET g == aim_conn_kill(NewSession(e, t), Len(e.types) + 1)
         IN  g \in Sessions /\ Live(g, D, W, slot, chats)
<1> DEFINE id == Len(e.types) + 1
           f == NewSession(e, t)
           g == aim_conn_kill(f, id)
<1>1. /\ f \in Sessions /\ Known(f, id)
      /\ DOMAIN f.connlist = DOMAIN e.connlist \cup {id}
      /\ \A i \in DOMAIN e.connlist : i # id => f.connlist[i] = e.connlist[i]
      /\ f.queue = e.queue /\ f.wire = e.wire /\ f.types = Append(e.types, t)
      /\ f.asked = [e.asked EXCEPT ![t] = e.asked[t] - 1] /\ f.doubled = e.doubled
  <2>1. /\ f \in Sessions
        /\ f.connlist = [i \in DOMAIN e.connlist \cup {id} |->
             IF i = id THEN [type |-> t, fd |-> 0, inprogress |-> TRUE, seqnum |-> 0, groups |-> {}]
             ELSE e.connlist[i]]
        /\ f.queue = e.queue /\ f.wire = e.wire /\ f.types = Append(e.types, t)
        /\ f.asked = [e.asked EXCEPT ![t] = e.asked[t] - 1] /\ f.doubled = e.doubled
    BY NewconnIs
  <2> HIDE DEF f, id
  <2> QED
    BY <2>1 DEF Known
<1>2. g \in Sessions /\ Removed(f, g, id)
  <2> HIDE DEF f, id
  <2> QED
    BY <1>1, KillIs
<1>3. /\ ~Known(e, id) /\ e.queue[id] = <<>> /\ e.wire[id] = <<>> /\ TypeAt(e, id) = "none"
      /\ \A d \in D : d.sock # id
      /\ \A w \in W : w.sock # id /\ w.conn # id
  BY NumberFree
<1> HIDE DEF f, g
<1>4. \A s : TypeAt(g, s) = IF s = id THEN t ELSE TypeAt(e, s)
  <2>1. g.types = Append(e.types, t)
    BY <1>1, <1>2 DEF Removed
  <2> QED
    BY <2>1, TypeAtNew
<1> HIDE DEF id
<1>5. /\ DOMAIN g.connlist = DOMAIN e.connlist
      /\ \A i \in DOMAIN e.connlist : Conn(g, i) = Conn(e, i) /\ i # id
      /\ g.wire = e.wire /\ g.doubled = e.doubled
      /\ g.asked = [e.asked EXCEPT ![t] = e.asked[t] - 1]
  BY <1>1, <1>2, <1>3 DEF Removed, Known, Conn
<1>6. \A s \in Socks : g.queue[s] = e.queue[s]
  <2>1. e.queue \in [Socks -> Seq(Frames)]
    BY SessionFields DEF Queues
  <2> QED
    BY <2>1, <1>1, <1>2, <1>3 DEF Removed
<1>7. /\ \A i : Known(g, i) = Known(e, i)
      /\ \A u : OfType(g, u) = OfType(e, u)
  BY <1>5 DEF Known, OfType
<1>8. \A u : Busy(g, u) = Busy(e, u)
  BY <1>5, <1>7 DEF Busy, OfType
<1>p. Placed(e, D, W, slot) /\ Awaiting(e) /\ Single(e) /\ WiresOK(e)
      /\ ConnsOK(e, D, W, slot, chats) /\ WatchesOK(e, W) /\ DialsOK(e, D) /\ RoomsOK(e, chats)
  BY DEF Live
<1>9. "none" \notin Types /\ \A s : TypeAt(e, s) \in Types => s # id
  BY <1>3 DEF Types
<1>10. Placed(g, D, W, slot)
  <2>1. ASSUME NEW i \in DOMAIN g.connlist
        PROVE  /\ TypeAt(g, i) = Conn(g, i).type
               /\ Conn(g, i).fd # 0 => TypeAt(g, Conn(g, i).fd) = Conn(g, i).type
    <3>1. Conn(e, i).type \in Types /\ Conn(g, i) = Conn(e, i) /\ i \in DOMAIN e.connlist
      BY <1>5, SessionFields, ConnFields
    <3> QED
      BY <3>1, <1>4, <1>9, <1>p DEF Placed
  <2>2. \A s \in Socks : TypeAt(g, s) = "none" => g.wire[s] = <<>>
    BY <1>3, <1>4, <1>5, <1>p DEF Placed
  <2>3. \A d \in D : TypeAt(g, d.sock) = d.type
    BY <1>3, <1>4, <1>p DEF Placed
  <2>4. \A w \in W : TypeAt(g, w.sock) = w.type /\ TypeAt(g, w.conn) = w.type
    BY <1>3, <1>4, <1>p DEF Placed
  <2>5. \A u \in Slots : slot[u] # 0 => TypeAt(g, slot[u]) = u
    BY <1>4, <1>9, <1>p DEF Placed, Slots
  <2> QED
    BY <2>1, <2>2, <2>3, <2>4, <2>5 DEF Placed
<1>11. Awaiting(g)
  <2> SUFFICES ASSUME NEW i \in Socks, g.queue[i] # <<>>
               PROVE  Known(g, i) /\ Conn(g, i).inprogress
    BY DEF Awaiting
  <2>1. Known(e, i) /\ Conn(e, i).inprogress
    BY <1>6, <1>p DEF Awaiting
  <2> QED
    BY <2>1, <1>5, <1>7 DEF Known
<1>12. Single(g)
  <2> SUFFICES ASSUME NEW u \in Slots \ g.doubled
               PROVE  /\ g.asked[u] <= 1
                      /\ \A i \in OfType(g, u) : g.asked[u] = 0 /\ OfType(g, u) = {i}
    BY DEF Single
  <2>1. u \in Types /\ e.asked \in [Types -> Nat] /\ u \in Slots \ e.doubled
    BY <1>5, SessionFields DEF Slots
  <2>2. /\ e.asked[u] <= 1
        /\ \A i \in OfType(e, u) : e.asked[u] = 0 /\ OfType(e, u) = {i}
    BY <2>1, <1>p DEF Single
  <2>3. CASE u = t
    BY <2>1, <2>2, <2>3, <1>5, <1>7
  <2>4. CASE u # t
    BY <2>1, <2>2, <2>4, <1>5, <1>7
  <2> QED
    BY <2>3, <2>4
<1>13. WiresOK(g)
  <2> SUFFICES ASSUME NEW s \in Socks, TypeAt(g, s) \notin g.doubled
               PROVE  Numbers(g.wire[s], s)
    BY DEF WiresOK
  <2>1. CASE s = id
    BY <2>1, <1>3, <1>5 DEF Numbers
  <2>2. CASE s # id
    BY <2>2, <1>4, <1>5, <1>p DEF WiresOK
  <2> QED
    BY <2>1, <2>2
<1>14. ConnsOK(g, D, W, slot, chats)
  <2> SUFFICES ASSUME NEW i \in DOMAIN g.connlist, Conn(g, i).type \notin g.doubled
               PROVE  Pending(g, D, i) \/ Working(g, W, slot, chats, i)
    BY DEF ConnsOK
  <2>1. /\ i \in DOMAIN e.connlist /\ i \in Socks /\ Conn(g, i) = Conn(e, i)
        /\ Conn(e, i).type \notin e.doubled /\ g.queue[i] = e.queue[i] /\ g.wire[i] = e.wire[i]
    BY <1>5, <1>6, SessionFields
  <2>2. Pending(e, D, i) => Pending(g, D, i)
    BY <2>1 DEF Pending
  <2>3. Working(e, W, slot, chats, i) => Working(g, W, slot, chats, i)
    BY <2>1 DEF Working
  <2> QED
    BY <2>1, <2>2, <2>3, <1>p DEF ConnsOK
<1>15. WatchesOK(g, W)
  BY <1>5, <1>7, <1>p DEF WatchesOK, Known
<1>16. DialsOK(g, D)
  BY <1>5, <1>7, <1>8, <1>p DEF DialsOK, Known
<1>17. RoomsOK(g, chats)
  BY <1>5, <1>7, <1>p DEF RoomsOK, Known
<1>18. Live(g, D, W, slot, chats)
  BY <1>10, <1>11, <1>12, <1>13, <1>14, <1>15, <1>16, <1>17 DEF Live
<1> QED
  BY <1>2, <1>18 DEF g, f, id

(* Sets of sockets are finite. *)
LEMMA SocksFinite ==
  ASSUME NEW S, S \subseteq Socks
  PROVE  IsFiniteSet(S) /\ Cardinality(S) \in Nat
<1>1. IsFiniteSet(Socks)
  BY FS_Interval, BoundsAssumption DEF Socks
<1>2. IsFiniteSet(S)
  BY <1>1, FS_Subset
<1> QED
  BY <1>2, FS_CardinalityType

(* A connect that is started: the cookie waits for it. *)
LEMMA StartedKeeps ==
  ASSUME NEW e \in Sessions, NEW t \in Types, e.asked[t] > 0, Len(e.types) + 1 \in Socks,
         NEW D, D \subseteq Connects, NEW W, W \subseteq Inputs, NEW slot, NEW chats,
         Live(e, D, W, slot, chats)
  PROVE  LET id == Len(e.types) + 1
             g == aim_tx_enqueue(NewSession(e, t), id, <<"cookie">>)
         IN  g \in Sessions /\ Live(g, D \cup {[sock |-> id, type |-> t]}, W, slot, chats)
<1> DEFINE id == Len(e.types) + 1
           f == NewSession(e, t)
           c == [type |-> t, fd |-> 0, inprogress |-> TRUE, seqnum |-> 0, groups |-> {}]
           new == NextFrames(f, id, <<"cookie">>)
           g == aim_tx_enqueue(f, id, <<"cookie">>)
           D2 == D \cup {[sock |-> id, type |-> t]}
<1>1. /\ f \in Sessions
      /\ f.connlist = [i \in DOMAIN e.connlist \cup {id} |-> IF i = id THEN c ELSE e.connlist[i]]
      /\ f.queue = e.queue /\ f.wire = e.wire /\ f.types = Append(e.types, t)
      /\ f.asked = [e.asked EXCEPT ![t] = e.asked[t] - 1] /\ f.doubled = e.doubled
  BY NewconnIs
<1>2. Known(f, id) /\ Conn(f, id) = c
  <2> HIDE DEF f, id, c
  <2> QED
    BY <1>1 DEF Known, Conn
<1>3. <<"cookie">> \in Seq(Whats) /\ Len(<<"cookie">>) = 1 /\ <<"cookie">>[1] = "cookie"
  BY DEF Whats
<1>4. g \in Sessions /\ Sent(f, g, id, <<"cookie">>)
  <2> HIDE DEF f, id
  <2> QED
    BY <1>1, <1>2, <1>3, EnqueueIs
<1>5. /\ new \in Seq(Frames) /\ Len(new) = 1
      /\ new[1].conn = id /\ new[1].seqnum = 1 /\ new[1].what = "cookie"
  <2> HIDE DEF f, id, c
  <2>1. /\ new \in Seq(Frames) /\ Len(new) = 1
        /\ new[1].conn = id /\ new[1].seqnum = Conn(f, id).seqnum + 1 /\ new[1].what = "cookie"
    <3> DEFINE whats == <<"cookie">>
    <3>1. whats \in Seq(Whats) /\ Len(whats) = 1 /\ whats[1] = "cookie"
      BY <1>3
    <3> HIDE DEF whats
    <3>2. /\ NextFrames(f, id, whats) \in Seq(Frames)
          /\ Len(NextFrames(f, id, whats)) = Len(whats)
          /\ \A k \in 1 .. Len(whats) :
               /\ NextFrames(f, id, whats)[k].conn = id
               /\ NextFrames(f, id, whats)[k].seqnum = Conn(f, id).seqnum + k
               /\ NextFrames(f, id, whats)[k].what = whats[k]
      BY <1>1, <1>2, <3>1, NextFramesType
    <3>3. 1 \in 1 .. Len(whats)
      BY <3>1
    <3>4. new = NextFrames(f, id, whats)
      BY DEF whats
    <3> HIDE DEF new
    <3> QED
      BY <3>1, <3>2, <3>3, <3>4
  <2> QED
    BY <2>1, <1>2 DEF c
<1>6. /\ ~Known(e, id) /\ e.queue[id] = <<>> /\ e.wire[id] = <<>> /\ TypeAt(e, id) = "none"
      /\ \A d \in D : d.sock # id
      /\ \A w \in W : w.sock # id /\ w.conn # id
  BY NumberFree
<1> HIDE DEF f, g, new
<1>7. \A s : TypeAt(g, s) = IF s = id THEN t ELSE TypeAt(e, s)
  <2>1. g.types = Append(e.types, t)
    BY <1>1, <1>4 DEF Sent
  <2> QED
    BY <2>1, TypeAtNew
<1> HIDE DEF id
<1>8. /\ DOMAIN g.connlist = DOMAIN e.connlist \cup {id}
      /\ Conn(g, id) = [c EXCEPT !.seqnum = 1]
      /\ \A i \in DOMAIN e.connlist : Conn(g, i) = Conn(e, i) /\ i # id
      /\ g.wire = e.wire /\ g.doubled = e.doubled
      /\ g.asked = [e.asked EXCEPT ![t] = e.asked[t] - 1]
  <2>1. g.connlist = [f.connlist EXCEPT ![id] = [c EXCEPT !.seqnum = c.seqnum + 1]]
    BY <1>2, <1>3, <1>4 DEF Sent
  <2>2. g.wire = f.wire /\ g.doubled = f.doubled /\ g.asked = f.asked
    BY <1>2, <1>4 DEF Sent
  <2>3. c.seqnum + 1 = 1
    OBVIOUS
  <2> HIDE DEF c
  <2> QED
    BY <2>1, <2>2, <2>3, <1>1, <1>6 DEF Known, Conn
<1>9. /\ Conn(g, id).type = t /\ Conn(g, id).fd = 0 /\ Conn(g, id).inprogress
      /\ Conn(g, id).seqnum = 1
  BY <1>8
<1>10. g.queue[id] = new /\ \A s \in Socks : s # id => g.queue[s] = e.queue[s]
  <2>1. e.queue \in [Socks -> Seq(Frames)] /\ id \in Socks
    BY SessionFields DEF Queues, id
  <2>2. g.queue = [e.queue EXCEPT ![id] = e.queue[id] \o new]
    BY <1>1, <1>2, <1>4 DEF Sent, new
  <2>3. e.queue[id] \o new = new
    BY <1>5, <1>6
  <2> QED
    BY <2>1, <2>2, <2>3
<1> HIDE DEF c
<1>11. /\ \A i : Known(g, i) = (Known(e, i) \/ i = id)
       /\ \A u : u # t => OfType(g, u) = OfType(e, u)
       /\ OfType(g, t) = OfType(e, t) \cup {id} /\ id \notin OfType(e, t)
  <2>1. \A i : Known(g, i) = (Known(e, i) \/ i = id)
    BY <1>6, <1>8 DEF Known
  <2>2. ASSUME NEW u, u # t
        PROVE  OfType(g, u) = OfType(e, u)
    <3>1. \A i : i \in OfType(g, u) <=> i \in OfType(e, u)
      BY <2>2, <1>8, <1>9 DEF OfType
    <3> QED
      BY <3>1 DEF OfType
  <2>3. OfType(g, t) = OfType(e, t) \cup {id} /\ id \notin OfType(e, t)
    BY <1>6, <1>8, <1>9 DEF OfType, Known
  <2> QED
    BY <2>1, <2>2, <2>3
<1>12. /\ \A u : u # t => Busy(g, u) = Busy(e, u)
       /\ Busy(g, t) = Busy(e, t) \cup {id} /\ id \notin Busy(e, t)
  BY <1>8, <1>9, <1>11 DEF Busy, OfType
<1>p. Placed(e, D, W, slot) /\ Awaiting(e) /\ Single(e) /\ WiresOK(e)
      /\ ConnsOK(e, D, W, slot, chats) /\ WatchesOK(e, W) /\ DialsOK(e, D) /\ RoomsOK(e, chats)
  BY DEF Live
<1>13. "none" \notin Types /\ \A s : TypeAt(e, s) \in Types => s # id
  BY <1>6 DEF Types
<1>14. Placed(g, D2, W, slot)
  <2>1. ASSUME NEW i \in DOMAIN g.connlist
        PROVE  /\ TypeAt(g, i) = Conn(g, i).type
               /\ Conn(g, i).fd # 0 => TypeAt(g, Conn(g, i).fd) = Conn(g, i).type
    <3>1. CASE i = id
      BY <3>1, <1>7, <1>9
    <3>2. CASE i # id
      <4>1. Conn(e, i).type \in Types /\ Conn(g, i) = Conn(e, i) /\ i \in DOMAIN e.connlist
        BY <3>2, <1>8, SessionFields, ConnFields
      <4> QED
        BY <4>1, <1>7, <1>13, <1>p DEF Placed
    <3> QED
      BY <3>1, <3>2
  <2>2. \A s \in Socks : TypeAt(g, s) = "none" => g.wire[s] = <<>>
    BY <1>6, <1>7, <1>8, <1>p DEF Placed
  <2>3. \A d \in D2 : TypeAt(g, d.sock) = d.type
    BY <1>6, <1>7, <1>p DEF Placed
  <2>4. \A w \in W : TypeAt(g, w.sock) = w.type /\ TypeAt(g, w.conn) = w.type
    BY <1>6, <1>7, <1>p DEF Placed
  <2>5. \A u \in Slots : slot[u] # 0 => TypeAt(g, slot[u]) = u
    BY <1>7, <1>13, <1>p DEF Placed, Slots
  <2> QED
    BY <2>1, <2>2, <2>3, <2>4, <2>5 DEF Placed
<1>15. Awaiting(g)
  <2> SUFFICES ASSUME NEW i \in Socks, g.queue[i] # <<>>
               PROVE  Known(g, i) /\ Conn(g, i).inprogress
    BY DEF Awaiting
  <2>1. CASE i = id
    BY <2>1, <1>9, <1>11
  <2>2. CASE i # id
    <3>1. Known(e, i) /\ Conn(e, i).inprogress
      BY <2>2, <1>10, <1>p DEF Awaiting
    <3> QED
      BY <3>1, <1>8, <1>11 DEF Known
  <2> QED
    BY <2>1, <2>2
<1>16. Single(g)
  <2> SUFFICES ASSUME NEW u \in Slots \ g.doubled
               PROVE  /\ g.asked[u] <= 1
                      /\ \A i \in OfType(g, u) : g.asked[u] = 0 /\ OfType(g, u) = {i}
    BY DEF Single
  <2>1. u \in Types /\ e.asked \in [Types -> Nat] /\ u \in Slots \ e.doubled
    BY <1>8, SessionFields DEF Slots
  <2>2. /\ e.asked[u] <= 1
        /\ \A i \in OfType(e, u) : e.asked[u] = 0 /\ OfType(e, u) = {i}
    BY <2>1, <1>p DEF Single
  <2>3. CASE u = t
    <3>1. e.asked[t] = 1 /\ g.asked[t] = 0
      BY <2>1, <2>2, <2>3, <1>8
    <3>2. OfType(e, t) = {}
      BY <3>1, <2>2, <2>3
    <3> QED
      BY <3>1, <3>2, <2>3, <1>11
  <2>4. CASE u # t
    BY <2>1, <2>2, <2>4, <1>8, <1>11
  <2> QED
    BY <2>3, <2>4
<1>17. WiresOK(g)
  <2> SUFFICES ASSUME NEW s \in Socks, TypeAt(g, s) \notin g.doubled
               PROVE  Numbers(g.wire[s], s)
    BY DEF WiresOK
  <2>1. CASE s = id
    BY <2>1, <1>6, <1>8 DEF Numbers
  <2>2. CASE s # id
    BY <2>2, <1>7, <1>8, <1>p DEF WiresOK
  <2> QED
    BY <2>1, <2>2
<1>18. ConnsOK(g, D2, W, slot, chats)
  <2> SUFFICES ASSUME NEW i \in DOMAIN g.connlist, Conn(g, i).type \notin g.doubled
               PROVE  Pending(g, D2, i) \/ Working(g, W, slot, chats, i)
    BY DEF ConnsOK
  <2>1. CASE i = id
    <3>1. Numbers(new, id)
      <4>1. \A k \in DOMAIN new : k = 1
        BY <1>5
      <4> QED
        BY <4>1, <1>5 DEF Numbers
    <3>2. Pending(g, D2, id)
      BY <3>1, <1>5, <1>6, <1>8, <1>9, <1>10 DEF Pending
    <3> QED
      BY <2>1, <3>2
  <2>2. CASE i # id
    <3>1. /\ i \in DOMAIN e.connlist /\ i \in Socks /\ Conn(g, i) = Conn(e, i)
          /\ Conn(e, i).type \notin e.doubled /\ g.queue[i] = e.queue[i] /\ g.wire[i] = e.wire[i]
      BY <2>2, <1>8, <1>10, SessionFields
    <3>2. Pending(e, D, i) => Pending(g, D2, i)
      BY <3>1 DEF Pending
    <3>3. Working(e, W, slot, chats, i) => Working(g, W, slot, chats, i)
      BY <3>1 DEF Working
    <3> QED
      BY <3>1, <3>2, <3>3, <1>p DEF ConnsOK
  <2> QED
    BY <2>1, <2>2
<1>19. WatchesOK(g, W)
  BY <1>6, <1>8, <1>11, <1>p DEF WatchesOK, Known
<1>20. DialsOK(g, D2)
  <2>1. ASSUME NEW d \in D2, d.type \notin g.doubled
        PROVE  Known(g, d.sock) /\ Conn(g, d.sock).inprogress
    <3>1. CASE d.sock = id
      BY <3>1, <1>9, <1>11
    <3>2. CASE d.sock # id
      <4>1. d \in D
        BY <3>2
      <4> QED
        BY <4>1, <2>1, <1>8, <1>11, <1>p DEF DialsOK, Known
    <3> QED
      BY <3>1, <3>2
  <2>2. ASSUME NEW u \in Slots
        PROVE  Cardinality(DialSocks(D2, u)) <= Cardinality(Busy(g, u))
    <3>1. Cardinality(DialSocks(D, u)) <= Cardinality(Busy(e, u))
      BY <1>p DEF DialsOK
    <3>2. CASE u = t
      <4>1. DialSocks(D2, t) = DialSocks(D, t) \cup {id} /\ id \notin DialSocks(D, t)
        BY <1>6 DEF DialSocks, id
      <4>2. IsFiniteSet(DialSocks(D, t)) /\ IsFiniteSet(Busy(e, t))
            /\ Cardinality(DialSocks(D, t)) \in Nat /\ Cardinality(Busy(e, t)) \in Nat
        <5>1. DialSocks(D, t) \subseteq Socks /\ Busy(e, t) \subseteq Socks
          BY SessionFields DEF DialSocks, Busy, OfType
        <5> QED
          BY <5>1, SocksFinite
      <4>3. Cardinality(DialSocks(D2, t)) = Cardinality(DialSocks(D, t)) + 1
        BY <4>1, <4>2, FS_AddElement
      <4>4. Cardinality(Busy(g, t)) = Cardinality(Busy(e, t)) + 1
        BY <4>2, <1>12, FS_AddElement
      <4> QED
        BY <4>2, <4>3, <4>4, <3>1, <3>2
    <3>3. CASE u # t
      <4>1. DialSocks(D2, u) = DialSocks(D, u)
        BY <3>3 DEF DialSocks
      <4> QED
        BY <4>1, <3>1, <3>3, <1>12
    <3> QED
      BY <3>2, <3>3
  <2> QED
    BY <2>1, <2>2 DEF DialsOK
<1>21. RoomsOK(g, chats)
  BY <1>8, <1>11, <1>p DEF RoomsOK, Known
<1>22. Live(g, D2, W, slot, chats)
  BY <1>14, <1>15, <1>16, <1>17, <1>18, <1>19, <1>20, <1>21 DEF Live
<1> QED
  BY <1>4, <1>22 DEF g, f, id

-----------------------------------------------------------------------------
(* The end of a connect.                                                   *)

(* The connection that the callback of connect d takes. *)
TakenFrom(f, d) == IF d.type = "chat" THEN d.sock ELSE aim_getconn_type_all(f, d.type)

(* It exists and has the type of the connect; for a service that was never *)
(* asked for twice at a time it is the one the connect was started for.    *)
LEMMA TakenIs ==
  ASSUME NEW f \in Sessions, NEW D, D \subseteq Connects, NEW W, NEW slot, NEW chats,
         Live(f, D, W, slot, chats), NEW d \in D
  PROVE  LET id == TakenFrom(f, d) IN
         /\ Known(f, id) /\ Conn(f, id).type = d.type
         /\ d.type \notin f.doubled => id = d.sock /\ Conn(f, id).inprogress
         /\ d.type = "chat" => id = d.sock
<1> DEFINE id == TakenFrom(f, d)
<1>p. Placed(f, D, W, slot) /\ Single(f) /\ DialsOK(f, D)
  BY DEF Live
<1>1. d.type \in Types /\ d.sock \in Socks /\ d = [sock |-> d.sock, type |-> d.type]
  BY DEF Connects
<1>2. f.doubled \subseteq Slots
  BY SessionFields
<1>3. ASSUME Known(f, d.sock)
      PROVE  Conn(f, d.sock).type = d.type
  BY <1>3, <1>p DEF Placed, Known
<1>4. CASE d.type = "chat"
  <2>1. Known(f, d.sock) /\ Conn(f, d.sock).inprogress
    BY <1>2, <1>4, <1>p DEF DialsOK, Slots
  <2>2. id = d.sock
    BY <1>4 DEF TakenFrom
  <2> QED
    BY <2>1, <2>2, <1>3
<1>5. CASE d.type # "chat"
  <2> DEFINE t == d.type
  <2>1. t \in Slots /\ id = Newest(OfType(f, t))
    BY <1>1, <1>5 DEF Slots, TakenFrom, aim_getconn_type_all
  <2>2. DialSocks(D, t) # {} /\ DialSocks(D, t) \subseteq Socks /\ Busy(f, t) \subseteq Socks
        /\ OfType(f, t) \in SUBSET Socks
    BY <1>1, SessionFields DEF DialSocks, Busy, OfType
  <2>3. Busy(f, t) # {}
    <3>1. /\ IsFiniteSet(DialSocks(D, t)) /\ Cardinality(DialSocks(D, t)) \in Nat
          /\ IsFiniteSet(Busy(f, t)) /\ Cardinality(Busy(f, t)) \in Nat
      BY <2>2, SocksFinite
    <3>2. Cardinality(DialSocks(D, t)) # 0
      BY <2>2, <3>1, FS_EmptySet
    <3>3. Cardinality(DialSocks(D, t)) <= Cardinality(Busy(f, t))
      BY <2>1, <1>p DEF DialsOK
    <3>4. Cardinality(Busy(f, t)) # 0
      BY <3>1, <3>2, <3>3
    <3> QED
      BY <3>1, <3>4, FS_EmptySet
  <2>4. id \in OfType(f, t)
    <3>1. OfType(f, t) # {}
      BY <2>3 DEF Busy
    <3> QED
      BY <2>1, <2>2, <3>1, NewestIn
  <2>5. Known(f, id) /\ Conn(f, id).type = t
    BY <2>4 DEF OfType, Known
  <2>6. ASSUME t \notin f.doubled
        PROVE  id = d.sock /\ Conn(f, id).inprogress
    <3>1. Known(f, d.sock) /\ Conn(f, d.sock).inprogress
      BY <2>6, <1>p DEF DialsOK
    <3>2. d.sock \in OfType(f, t)
      BY <3>1, <1>3 DEF OfType, Known
    <3>3. OfType(f, t) = {id}
      BY <2>1, <2>4, <2>6, <1>p DEF Single
    <3> QED
      BY <3>1, <3>2, <3>3
  <2> QED
    BY <2>5, <2>6, <1>5
<1> QED
  BY <1>4, <1>5

(* The change when connection id gets a socket: on the sockets that matter *)
(* here, what has been waiting is sent.                                    *)
Completed(f, g, id, sock) ==
  /\ g.types = f.types /\ g.asked = f.asked /\ g.doubled = f.doubled
  /\ DOMAIN g.connlist = DOMAIN f.connlist
  /\ Conn(g, id).type = Conn(f, id).type /\ Conn(g, id).fd = sock
  /\ ~Conn(g, id).inprogress /\ Conn(g, id).seqnum = Conn(f, id).seqnum
  /\ \A i \in DOMAIN f.connlist : i # id => Conn(g, i) = Conn(f, i)
  /\ \A i \in Socks : g.queue[i] = IF i = id THEN <<>> ELSE f.queue[i]
  /\ \A s \in Socks : TypeAt(f, s) = "none" => g.wire[s] = f.wire[s]
  /\ \A s \in Socks : TypeAt(f, s) \notin f.doubled =>
       g.wire[s] = IF s = sock THEN f.wire[s] \o f.queue[s] ELSE f.wire[s]

(* The sessions that aim_tx_flushqueue makes. *)
LEMMA FlushIs ==
  ASSUME NEW f \in Sessions
  PROVE  LET g == aim_tx_flushqueue(f) IN
         /\ g \in Sessions /\ g.connlist = f.connlist /\ g.types = f.types /\ g.asked = f.asked
         /\ g.doubled = f.doubled
         /\ \A i \in Socks : g.queue[i] = IF i \in Flushable(f) THEN <<>> ELSE f.queue[i]
         /\ \A s \in Socks : g.wire[s] = IF Writers(f, s) = {} THEN f.wire[s]
                                         ELSE f.wire[s] \o f.queue[Newest(Writers(f, s))]
<1> DEFINE w == [s \in Socks |-> IF Writers(f, s) = {} THEN f.wire[s]
                                 ELSE f.wire[s] \o f.queue[Newest(Writers(f, s))]]
           q == [i \in Socks |-> IF i \in Flushable(f) THEN <<>> ELSE f.queue[i]]
           g == [f EXCEPT !.wire = w, !.queue = q]
<1>1. f.wire \in [Socks -> Seq(Frames)] /\ f.queue \in [Socks -> Seq(Frames)]
  BY SessionFields DEF Queues
<1>2. w \in Queues
  <2>1. ASSUME NEW s \in Socks, Writers(f, s) # {}
        PROVE  f.wire[s] \o f.queue[Newest(Writers(f, s))] \in Seq(Frames)
    <3>1. Writers(f, s) \in SUBSET Socks
      BY SessionFields DEF Writers, Flushable
    <3>2. Newest(Writers(f, s)) \in Socks
      BY <2>1, <3>1, NewestIn
    <3> QED
      BY <3>2, <1>1
  <2> QED
    BY <2>1, <1>1 DEF Queues
<1>3. q \in Queues
  <2>1. <<>> \in Seq(Frames)
    OBVIOUS
  <2> QED
    BY <2>1, <1>1 DEF Queues
<1>4. aim_tx_flushqueue(f) = g
  BY DEF aim_tx_flushqueue, Sessions
<1>5. /\ g \in Sessions /\ g.connlist = f.connlist /\ g.types = f.types /\ g.asked = f.asked
      /\ g.doubled = f.doubled /\ g.wire = w /\ g.queue = q
  <2> HIDE DEF w, q
  <2> QED
    BY <1>2, <1>3 DEF Sessions
<1>6. /\ \A i \in Socks : q[i] = IF i \in Flushable(f) THEN <<>> ELSE f.queue[i]
      /\ \A s \in Socks : w[s] = IF Writers(f, s) = {} THEN f.wire[s]
                                 ELSE f.wire[s] \o f.queue[Newest(Writers(f, s))]
  OBVIOUS
<1> HIDE DEF g, w, q
<1> QED
  BY <1>4, <1>5, <1>6

(* Connection id has become c2. *)
Replaced(f, g, id, c2) ==
  /\ g.queue = f.queue /\ g.wire = f.wire /\ g.closed = f.closed /\ g.types = f.types
  /\ g.asked = f.asked /\ g.doubled = f.doubled
  /\ DOMAIN g.connlist = DOMAIN f.connlist /\ Conn(g, id) = c2
  /\ \A i \in DOMAIN f.connlist : i # id => Conn(g, i) = Conn(f, i)

(* The assignments that make it. *)
LEMMA ReplacedIs ==
  ASSUME NEW f \in Sessions, NEW id, Known(f, id), NEW c2 \in Conns
  PROVE  LET g == [f EXCEPT !.connlist = [f.connlist EXCEPT ![id] = c2]]
         IN  g \in Sessions /\ Replaced(f, g, id, c2)
<1> DEFINE L == [f.connlist EXCEPT ![id] = c2]
           g == [f EXCEPT !.connlist = L]
<1>1. L \in [DOMAIN f.connlist -> Conns]
  BY SessionFields
<1>2. L \in ConnLists
  BY <1>1, SessionFields, ConnListType
<1>3. /\ g \in Sessions /\ g.connlist = L
      /\ g.queue = f.queue /\ g.wire = f.wire /\ g.closed = f.closed /\ g.types = f.types
      /\ g.asked = f.asked /\ g.doubled = f.doubled
  <2> HIDE DEF L
  <2> QED
    BY <1>2 DEF Sessions
<1>4. /\ DOMAIN L = DOMAIN f.connlist /\ L[id] = c2
      /\ \A i \in DOMAIN f.connlist : i # id => L[i] = f.connlist[i]
  BY SessionFields DEF Known
<1> HIDE DEF g, L
<1>5. g \in Sessions /\ Replaced(f, g, id, c2)
  BY <1>3, <1>4 DEF Conn, Replaced
<1> QED
  BY <1>5 DEF g, L

(* A connection gets a socket. *)
LEMMA WithSocket ==
  ASSUME NEW f \in Sessions, NEW id, Known(f, id), NEW sock \in 0 .. MaxConns
  PROVE  LET g == [f EXCEPT !.connlist[id].fd = sock]
         IN  g \in Sessions /\ Replaced(f, g, id, [Conn(f, id) EXCEPT !.fd = sock])
<1> DEFINE c2 == [Conn(f, id) EXCEPT !.fd = sock]
<1>1. Conn(f, id) \in Conns /\ id \in DOMAIN f.connlist
  BY SessionFields DEF Known
<1>2. c2 \in Conns
  BY <1>1 DEF Conns
<1>3. [f EXCEPT !.connlist[id].fd = sock] = [f EXCEPT !.connlist = [f.connlist EXCEPT ![id] = c2]]
  BY <1>1 DEF Conn, Sessions
<1> HIDE DEF c2
<1> QED
  BY <1>2, <1>3, ReplacedIs DEF c2

(* A connection is no longer in progress. *)
LEMMA WithProgress ==
  ASSUME NEW f \in Sessions, NEW id, Known(f, id)
  PROVE  LET g == [f EXCEPT !.connlist[id].inprogress = FALSE]
         IN  g \in Sessions /\ Replaced(f, g, id, [Conn(f, id) EXCEPT !.inprogress = FALSE])
<1> DEFINE c2 == [Conn(f, id) EXCEPT !.inprogress = FALSE]
<1>1. Conn(f, id) \in Conns /\ id \in DOMAIN f.connlist
  BY SessionFields DEF Known
<1>2. c2 \in Conns
  BY <1>1 DEF Conns
<1>3. [f EXCEPT !.connlist[id].inprogress = FALSE]
      = [f EXCEPT !.connlist = [f.connlist EXCEPT ![id] = c2]]
  BY <1>1 DEF Conn, Sessions
<1> HIDE DEF c2
<1> QED
  BY <1>2, <1>3, ReplacedIs DEF c2

(* A connection's server has told its family of services. *)
LEMMA WithGroups ==
  ASSUME NEW f \in Sessions, NEW id, Known(f, id), NEW G \in SUBSET Types
  PROVE  LET g == [f EXCEPT !.connlist[id].groups = G]
         IN  g \in Sessions /\ Replaced(f, g, id, [Conn(f, id) EXCEPT !.groups = G])
<1> DEFINE c2 == [Conn(f, id) EXCEPT !.groups = G]
<1>1. Conn(f, id) \in Conns /\ id \in DOMAIN f.connlist
  BY SessionFields DEF Known
<1>2. c2 \in Conns
  BY <1>1 DEF Conns
<1>3. [f EXCEPT !.connlist[id].groups = G]
      = [f EXCEPT !.connlist = [f.connlist EXCEPT ![id] = c2]]
  BY <1>1 DEF Conn, Sessions
<1> HIDE DEF c2
<1> QED
  BY <1>2, <1>3, ReplacedIs DEF c2

(* Telling the families keeps what holds while signed on. *)
LEMMA GroupsKeep ==
  ASSUME NEW f \in Sessions, NEW id, Known(f, id), NEW G \in SUBSET Types,
         NEW D, NEW W, NEW slot, NEW chats, Live(f, D, W, slot, chats)
  PROVE  LET g == [f EXCEPT !.connlist[id].groups = G]
         IN  g \in Sessions /\ Known(g, id) /\ Live(g, D, W, slot, chats)
<1> DEFINE g == [f EXCEPT !.connlist[id].groups = G]
<1>1. g \in Sessions /\ Replaced(f, g, id, [Conn(f, id) EXCEPT !.groups = G])
  BY WithGroups
<1> HIDE DEF g
<1>2. Conn(f, id) \in Conns /\ id \in DOMAIN f.connlist
  BY SessionFields DEF Known
<1>3. /\ g.queue = f.queue /\ g.wire = f.wire /\ Alike(f, g)
      /\ \A i \in DOMAIN f.connlist : Conn(g, i).seqnum = Conn(f, i).seqnum
  BY <1>1, <1>2 DEF Replaced, Alike, Conns
<1>4. \A s : TypeAt(g, s) = TypeAt(f, s) /\ Known(g, s) = Known(f, s)
  BY <1>3, AlikeSame
<1>p. Placed(f, D, W, slot) /\ Awaiting(f) /\ Single(f) /\ WiresOK(f)
      /\ ConnsOK(f, D, W, slot, chats) /\ WatchesOK(f, W) /\ DialsOK(f, D) /\ RoomsOK(f, chats)
  BY DEF Live
<1>5. Placed(g, D, W, slot)
  BY <1>3, <1>4, <1>p DEF Placed, Alike
<1>6. Awaiting(g)
  BY <1>3, <1>4, <1>p DEF Awaiting, Alike, Known
<1>7. WiresOK(g)
  BY <1>3, <1>4, <1>p DEF WiresOK, Alike
<1>8. ConnsOK(g, D, W, slot, chats)
  <2> SUFFICES ASSUME NEW i \in DOMAIN g.connlist, Conn(g, i).type \notin g.doubled
               PROVE  Pending(g, D, i) \/ Working(g, W, slot, chats, i)
    BY DEF ConnsOK
  <2>1. /\ i \in DOMAIN f.connlist /\ Conn(f, i).type \notin f.doubled
        /\ Conn(g, i).type = Conn(f, i).type /\ Conn(g, i).fd = Conn(f, i).fd
        /\ Conn(g, i).inprogress = Conn(f, i).inprogress /\ Conn(g, i).seqnum = Conn(f, i).seqnum
    BY <1>3 DEF Alike
  <2>2. Pending(f, D, i) => Pending(g, D, i)
    BY <2>1, <1>3 DEF Pending
  <2>3. Working(f, W, slot, chats, i) => Working(g, W, slot, chats, i)
    BY <2>1, <1>3 DEF Working
  <2> QED
    BY <2>1, <2>2, <2>3, <1>p DEF ConnsOK
<1>9. Single(g) /\ WatchesOK(g, W) /\ DialsOK(g, D) /\ RoomsOK(g, chats)
  BY <1>3, <1>p, AlikeSame
<1>10. Live(g, D, W, slot, chats)
  BY <1>5, <1>6, <1>7, <1>8, <1>9 DEF Live
<1>11. Known(g, id)
  BY <1>4
<1> QED
  BY <1>1, <1>10, <1>11 DEF g

(* What the callback of a successful connect does to connection id. *)
LEMMA CompleteIs ==
  ASSUME NEW f \in Sessions, NEW D, NEW W, NEW slot, NEW chats, Live(f, D, W, slot, chats),
         NEW id, Known(f, id), NEW sock \in Socks, TypeAt(f, sock) = Conn(f, id).type,
         Conn(f, id).type \notin f.doubled => id = sock /\ Conn(f, id).inprogress
  PROVE  LET g == aim_conn_completeconnect([f EXCEPT !.connlist[id].fd = sock], id)
         IN  g \in Sessions /\ Completed(f, g, id, sock)
<1> DEFINE h == [f EXCEPT !.connlist[id].fd = sock]
           c == Conn(f, id)
           g == aim_conn_completeconnect(h, id)
<1>p. Placed(f, D, W, slot) /\ Awaiting(f) /\ ConnsOK(f, D, W, slot, chats)
  BY DEF Live
<1>1. h \in Sessions /\ Replaced(f, h, id, [c EXCEPT !.fd = sock])
  <2>1. sock \in 0 .. MaxConns
    BY BoundsAssumption DEF Socks
  <2> QED
    BY <2>1, WithSocket
<1>2. /\ c \in Conns /\ id \in DOMAIN f.connlist /\ id \in Socks /\ sock # 0
      /\ c.inprogress \in BOOLEAN /\ c.type \in Types
  BY SessionFields, ConnFields DEF Known, Socks
<1> HIDE DEF h
<1>3. /\ Conn(h, id).fd = sock /\ Conn(h, id).type = c.type
      /\ Conn(h, id).inprogress = c.inprogress /\ Conn(h, id).seqnum = c.seqnum
      /\ Known(h, id)
  <2> HIDE DEF c
  <2> QED
    BY <1>1, <1>2 DEF Replaced, Conns, Known
<1>4. \A i \in DOMAIN f.connlist : i # id => Conn(h, i) = Conn(f, i)
  BY <1>1 DEF Replaced
<1>5. \A s \in Socks : f.wire[s] \in Seq(Frames) /\ f.queue[s] \in Seq(Frames)
  BY SessionFields DEF Queues
<1>6. TypeAt(f, sock) = c.type /\ TypeAt(f, id) = c.type
  BY <1>2, <1>p DEF Placed
<1>7. c.type \notin f.doubled => id = sock /\ c.inprogress
  OBVIOUS
<1> HIDE DEF c
<1>8. ASSUME ~c.inprogress
      PROVE  g \in Sessions /\ Completed(f, g, id, sock)
  <2>1. g = h
    BY <1>3, <1>8 DEF aim_conn_completeconnect
  <2>2. f.queue[id] = <<>>
    BY <1>2, <1>8, <1>p DEF Awaiting, c
  <2>3. \A s \in Socks : TypeAt(f, s) \notin f.doubled => s # sock
    BY <1>6, <1>7, <1>8
  <2> HIDE DEF g
  <2>4. Completed(f, g, id, sock)
    BY <2>1, <2>2, <2>3, <1>1, <1>2, <1>3, <1>4, <1>8 DEF Completed, Replaced, c
  <2> QED
    BY <2>1, <2>4, <1>1
<1>9. ASSUME c.inprogress
      PROVE  g \in Sessions /\ Completed(f, g, id, sock)
  <2> DEFINE k == [h EXCEPT !.connlist[id].inprogress = FALSE]
             F == aim_tx_flushqueue(k)
  <2>1. g = F
    BY <1>2, <1>3, <1>9 DEF aim_conn_completeconnect
  <2>2. k \in Sessions /\ Replaced(h, k, id, [Conn(h, id) EXCEPT !.inprogress = FALSE])
    BY <1>1, <1>3, WithProgress
  <2>3. Conn(h, id) \in Conns
    BY <1>1, <1>3, SessionFields DEF Known
  <2> HIDE DEF k
  <2>4. /\ Conn(k, id).fd = sock /\ Conn(k, id).type = c.type
        /\ ~Conn(k, id).inprogress /\ Conn(k, id).seqnum = c.seqnum
        /\ \A i \in DOMAIN f.connlist : i # id => Conn(k, i) = Conn(f, i)
        /\ DOMAIN k.connlist = DOMAIN f.connlist
        /\ k.queue = f.queue /\ k.wire = f.wire /\ k.types = f.types /\ k.asked = f.asked
        /\ k.doubled = f.doubled
    BY <2>2, <2>3, <1>1, <1>3, <1>4 DEF Replaced, Conns
  <2>5. /\ F \in Sessions /\ F.connlist = k.connlist /\ F.types = k.types /\ F.asked = k.asked
        /\ F.doubled = k.doubled
        /\ \A i \in Socks : F.queue[i] = IF i \in Flushable(k) THEN <<>> ELSE k.queue[i]
        /\ \A s \in Socks : F.wire[s] = IF Writers(k, s) = {} THEN k.wire[s]
                                        ELSE k.wire[s] \o k.queue[Newest(Writers(k, s))]
    BY <2>2, FlushIs
  <2> HIDE DEF F
  <2>6. \A i \in DOMAIN f.connlist : Conn(F, i) = Conn(k, i)
    BY <2>5 DEF Conn
  <2>7. /\ \A i : i \in Flushable(k) <=> i \in DOMAIN f.connlist /\ (i = id \/ ~Conn(f, i).inprogress)
    BY <2>4, <1>2 DEF Flushable
  <2>8. \A i \in Socks : F.queue[i] = IF i = id THEN <<>> ELSE f.queue[i]
    <3> TAKE i \in Socks
    <3>1. CASE i = id
      BY <3>1, <2>5, <2>7, <1>2
    <3>2. CASE i # id /\ i \in Flushable(k)
      <4>1. f.queue[i] = <<>>
        BY <3>2, <2>7, <1>p DEF Awaiting
      <4> QED
        BY <4>1, <3>2, <2>5
    <3>3. CASE i # id /\ i \notin Flushable(k)
      BY <3>3, <2>4, <2>5
    <3> QED
      BY <3>1, <3>2, <3>3
  <2>9. ASSUME NEW s \in Socks, NEW i \in Writers(k, s)
        PROVE  TypeAt(f, s) = TypeAt(f, i) /\ TypeAt(f, i) = Conn(f, i).type /\ i \in Flushable(k)
               /\ i \in DOMAIN f.connlist
    <3>1. i \in Flushable(k) /\ Conn(k, i).fd = s /\ i \in DOMAIN f.connlist
      BY <2>7, <2>9 DEF Writers
    <3>2. s # 0
      BY DEF Socks
    <3>3. CASE i = id
      BY <3>1, <3>3, <2>4, <1>6 DEF c
    <3>4. CASE i # id
      <4>1. Conn(f, i).fd = s
        BY <3>1, <3>4, <2>4
      <4> QED
        BY <4>1, <3>1, <3>2, <1>p DEF Placed
    <3> QED
      BY <3>1, <3>3, <3>4
  <2>10. \A s \in Socks : TypeAt(f, s) = "none" => F.wire[s] = f.wire[s]
    <3> SUFFICES ASSUME NEW s \in Socks, TypeAt(f, s) = "none"
                 PROVE  F.wire[s] = f.wire[s]
      OBVIOUS
    <3>1. ASSUME NEW i \in Writers(k, s)
          PROVE  FALSE
      <4>1. TypeAt(f, s) = Conn(f, i).type /\ i \in DOMAIN f.connlist
        BY <2>9
      <4>2. Conn(f, i).type \in Types
        BY <4>1, SessionFields, ConnFields
      <4> QED
        BY <4>1, <4>2 DEF Types
    <3>2. Writers(k, s) = {}
      BY <3>1
    <3> QED
      BY <3>2, <2>4, <2>5
  <2>11. \A s \in Socks : TypeAt(f, s) \notin f.doubled =>
           F.wire[s] = IF s = sock THEN f.wire[s] \o f.queue[s] ELSE f.wire[s]
    <3> SUFFICES ASSUME NEW s \in Socks, TypeAt(f, s) \notin f.doubled
                 PROVE  F.wire[s] = IF s = sock THEN f.wire[s] \o f.queue[s] ELSE f.wire[s]
      OBVIOUS
    <3>1. ASSUME NEW i \in Writers(k, s)
          PROVE  i = s
      <4>1. i \in Flushable(k) /\ i \in DOMAIN f.connlist /\ Conn(f, i).type \notin f.doubled
        BY <2>9
      <4>2. CASE i = id
        BY <4>1, <4>2, <1>7, <3>1, <2>4 DEF Writers, c
      <4>3. CASE i # id
        <5>1. Working(f, W, slot, chats, i)
          BY <4>1, <4>3, <2>7, <1>p DEF ConnsOK, Pending
        <5>2. Conn(k, i).fd = i
          BY <5>1, <4>1, <4>3, <2>4 DEF Working
        <5> QED
          BY <5>2, <3>1 DEF Writers
      <4> QED
        BY <4>2, <4>3
    <3>2. CASE s = sock
      <4>1. id = s
        BY <3>2, <1>6, <1>7
      <4>2. id \in Writers(k, s)
        BY <4>1, <3>2, <2>4, <2>7, <1>2 DEF Writers
      <4>3. Writers(k, s) = {s} /\ {s} \in SUBSET Socks
        BY <4>1, <4>2, <3>1
      <4>4. Newest(Writers(k, s)) = s
        BY <4>3, NewestIn
      <4> QED
        BY <4>3, <4>4, <3>2, <2>4, <2>5
    <3>3. CASE s # sock /\ Writers(k, s) = {}
      BY <3>3, <2>4, <2>5
    <3>4. CASE s # sock /\ Writers(k, s) # {}
      <4>1. Writers(k, s) = {s} /\ {s} \in SUBSET Socks
        BY <3>1, <3>4
      <4>2. Newest(Writers(k, s)) = s
        BY <4>1, NewestIn
      <4>3. s # id
        BY <3>4, <4>1, <2>4 DEF Writers
      <4>4. f.queue[s] = <<>>
        BY <4>1, <4>3, <2>7, <1>p DEF Writers, Awaiting
      <4>5. F.wire[s] = f.wire[s] \o <<>>
        BY <4>1, <4>2, <4>4, <2>4, <2>5
      <4> QED
        BY <4>5, <3>4, <1>5
    <3> QED
      BY <3>2, <3>3, <3>4
  <2>12. Completed(f, F, id, sock)
    BY <2>4, <2>5, <2>6, <2>8, <2>10, <2>11, <1>2 DEF Completed, c
  <2> HIDE DEF g
  <2> QED
    BY <2>1, <2>5, <2>12
<1>10. g \in Sessions /\ Completed(f, g, id, sock)
  <2> HIDE DEF g
  <2> QED
    BY <1>2, <1>8, <1>9
<1> QED
  BY <1>10 DEF h

(* The rooms that a connected chat adds, and the slots that other types    *)
(* fill.                                                                   *)
RoomsAfter(chats, d, id) ==
  IF d.type = "chat" THEN chats \cup {[conn |-> id, inpa |-> d.sock, joined |-> FALSE]} ELSE chats
SlotsAfter(slot, d) == IF d.type = "chat" THEN slot ELSE [slot EXCEPT ![d.type] = d.sock]

(* Taking connect d off the list leaves one less of its type. *)
LEMMA DialSocksWithout ==
  ASSUME NEW D, D \subseteq Connects, NEW d \in D
  PROVE  /\ \A t : t # d.type => DialSocks(D \ {d}, t) = DialSocks(D, t)
         /\ DialSocks(D \ {d}, d.type) = DialSocks(D, d.type) \ {d.sock}
         /\ d.sock \in DialSocks(D, d.type)
<1>1. d = [sock |-> d.sock, type |-> d.type] /\ d.sock \in Socks
  BY DEF Connects
<1>2. \A t, s : [sock |-> s, type |-> t] = d <=> s = d.sock /\ t = d.type
  BY <1>1
<1> QED
  BY <1>1, <1>2 DEF DialSocks

(* With one connect less and at most one connection in progress less there *)
(* are still enough.                                                       *)
LEMMA EnoughLeft ==
  ASSUME NEW f \in Sessions, NEW D, D \subseteq Connects, DialsOK(f, D), NEW d \in D, NEW id,
         Known(f, id) => Conn(f, id).type = d.type, NEW t \in Slots
  PROVE  Cardinality(DialSocks(D \ {d}, t)) <= Cardinality(Busy(f, t) \ {id})
<1>1. Cardinality(DialSocks(D, t)) <= Cardinality(Busy(f, t))
  BY DEF DialsOK
<1>2. DialSocks(D, t) \subseteq Socks /\ Busy(f, t) \subseteq Socks
  BY SessionFields DEF DialSocks, Busy, OfType
<1>3. /\ IsFiniteSet(DialSocks(D, t)) /\ Cardinality(DialSocks(D, t)) \in Nat
      /\ IsFiniteSet(Busy(f, t)) /\ Cardinality(Busy(f, t)) \in Nat
  BY <1>2, SocksFinite
<1>4. CASE t = d.type
  <2>1. Cardinality(DialSocks(D \ {d}, t)) = Cardinality(DialSocks(D, t)) - 1
    <3> DEFINE S == DialSocks(D, t)
    <3>1. DialSocks(D \ {d}, t) = S \ {d.sock} /\ d.sock \in S
      BY <1>4, DialSocksWithout
    <3>2. IsFiniteSet(S)
      BY <1>3
    <3> HIDE DEF S
    <3>3. Cardinality(S \ {d.sock}) = Cardinality(S) - 1
      BY <3>1, <3>2, FS_RemoveElement
    <3> QED
      BY <3>1, <3>3 DEF S
  <2>2. Cardinality(Busy(f, t) \ {id}) \in {Cardinality(Busy(f, t)), Cardinality(Busy(f, t)) - 1}
    BY <1>3, FS_RemoveElement
  <2> QED
    BY <1>1, <1>3, <2>1, <2>2
<1>5. CASE t # d.type
  <2>1. DialSocks(D \ {d}, t) = DialSocks(D, t)
    BY <1>5, DialSocksWithout
  <2>2. Busy(f, t) \ {id} = Busy(f, t)
    BY <1>5 DEF Busy, OfType, Known
  <2> QED
    BY <1>1, <2>1, <2>2
<1> QED
  BY <1>4, <1>5

(* A connect that succeeds keeps what holds while signed on. *)
LEMMA CompleteKeeps ==
  ASSUME NEW f \in Sessions, NEW g, NEW D, D \subseteq Connects, NEW W, W \subseteq Inputs,
         NEW slot \in [Slots -> 0 .. MaxConns], NEW chats, Live(f, D, W, slot, chats), NEW d \in D,
         Completed(f, g, TakenFrom(f, d), d.sock)
  PROVE  LET id == TakenFrom(f, d)
         IN  Live(g, D \ {d}, W \cup {[sock |-> d.sock, conn |-> id, type |-> d.type]},
                  SlotsAfter(slot, d), RoomsAfter(chats, d, id))
<1> DEFINE id == TakenFrom(f, d)
           sock == d.sock
           new == [sock |-> sock, conn |-> id, type |-> d.type]
           D2 == D \ {d}
           W2 == W \cup {new}
           slot2 == SlotsAfter(slot, d)
           chats2 == RoomsAfter(chats, d, id)
<1>p. Placed(f, D, W, slot) /\ Awaiting(f) /\ Single(f) /\ WiresOK(f)
      /\ ConnsOK(f, D, W, slot, chats) /\ WatchesOK(f, W) /\ DialsOK(f, D) /\ RoomsOK(f, chats)
  BY DEF Live
<1>1. /\ Known(f, id) /\ Conn(f, id).type = d.type
      /\ d.type \notin f.doubled => id = sock /\ Conn(f, id).inprogress
      /\ d.type = "chat" => id = sock
  BY TakenIs
<1>2. Completed(f, g, id, sock)
  OBVIOUS
<1>3. /\ d.type \in Types /\ sock \in Socks /\ d = [sock |-> sock, type |-> d.type]
      /\ sock # 0 /\ f.doubled \subseteq Slots
  BY SessionFields DEF Connects, Socks
<1> HIDE DEF id
<1>4. id \in DOMAIN f.connlist /\ id \in Socks /\ "none" \notin Types /\ 0 \notin Socks
  BY <1>1, SessionFields DEF Known, Types, Socks
<1>5. /\ g.types = f.types /\ g.asked = f.asked /\ g.doubled = f.doubled
      /\ DOMAIN g.connlist = DOMAIN f.connlist
      /\ Conn(g, id).type = d.type /\ Conn(g, id).fd = sock
      /\ ~Conn(g, id).inprogress /\ Conn(g, id).seqnum = Conn(f, id).seqnum
      /\ \A i \in DOMAIN f.connlist : i # id => Conn(g, i) = Conn(f, i)
  BY <1>1, <1>2 DEF Completed
<1>6. /\ \A i \in Socks : g.queue[i] = IF i = id THEN <<>> ELSE f.queue[i]
      /\ \A s \in Socks : TypeAt(f, s) = "none" => g.wire[s] = f.wire[s]
      /\ \A s \in Socks : TypeAt(f, s) \notin f.doubled =>
           g.wire[s] = IF s = sock THEN f.wire[s] \o f.queue[s] ELSE f.wire[s]
  BY <1>2 DEF Completed
<1>7. /\ \A s : TypeAt(g, s) = TypeAt(f, s)
      /\ \A i : Known(g, i) = Known(f, i)
  BY <1>5 DEF TypeAt, Known
<1>8. \A t : OfType(g, t) = OfType(f, t)
  <2> SUFFICES ASSUME NEW t
               PROVE  OfType(g, t) = OfType(f, t)
    OBVIOUS
  <2>1. \A i \in DOMAIN f.connlist : Conn(g, i).type = Conn(f, i).type
    BY <1>1, <1>5
  <2> QED
    BY <2>1, <1>5 DEF OfType
<1>9. \A t : Busy(g, t) = Busy(f, t) \ {id}
  <2> SUFFICES ASSUME NEW t
               PROVE  Busy(g, t) = Busy(f, t) \ {id}
    OBVIOUS
  <2>1. \A i : i \in OfType(f, t) => i \in DOMAIN f.connlist
    BY DEF OfType
  <2> QED
    BY <2>1, <1>5, <1>8 DEF Busy
<1>10. TypeAt(f, sock) = d.type /\ TypeAt(f, id) = d.type
  BY <1>1, <1>4, <1>p DEF Placed
<1>11. \A t \in Slots : slot2[t] = IF t = d.type THEN sock ELSE slot[t]
  BY <1>3 DEF SlotsAfter, Slots
<1>12. \A n \in chats2 : n \in chats \/ (d.type = "chat" /\ n.conn = id /\ n.inpa = id)
  BY <1>1 DEF RoomsAfter
<1>13. chats \subseteq chats2
  BY DEF RoomsAfter
<1> HIDE DEF slot2, chats2, sock
<1>14. Placed(g, D2, W2, slot2)
  <2>1. ASSUME NEW i \in DOMAIN g.connlist
        PROVE  /\ TypeAt(g, i) = Conn(g, i).type
               /\ Conn(g, i).fd # 0 => TypeAt(g, Conn(g, i).fd) = Conn(g, i).type
    <3>1. CASE i = id
      BY <3>1, <1>5, <1>7, <1>10
    <3>2. CASE i # id
      BY <3>2, <1>5, <1>7, <1>p DEF Placed
    <3> QED
      BY <3>1, <3>2
  <2>2. \A s \in Socks : TypeAt(g, s) = "none" => g.wire[s] = <<>>
    BY <1>6, <1>7, <1>p DEF Placed
  <2>3. \A e \in D2 : TypeAt(g, e.sock) = e.type
    BY <1>7, <1>p DEF Placed
  <2>4. \A w \in W2 : TypeAt(g, w.sock) = w.type /\ TypeAt(g, w.conn) = w.type
    BY <1>7, <1>10, <1>p DEF Placed
  <2>5. \A t \in Slots : slot2[t] # 0 => TypeAt(g, slot2[t]) = t
    BY <1>7, <1>10, <1>11, <1>p DEF Placed
  <2> QED
    BY <2>1, <2>2, <2>3, <2>4, <2>5 DEF Placed
<1>15. Awaiting(g)
  <2> SUFFICES ASSUME NEW i \in Socks, g.queue[i] # <<>>
               PROVE  Known(g, i) /\ Conn(g, i).inprogress
    BY DEF Awaiting
  <2>1. i # id /\ f.queue[i] # <<>>
    BY <1>6
  <2>2. Known(f, i) /\ Conn(f, i).inprogress
    BY <2>1, <1>p DEF Awaiting
  <2> QED
    BY <2>1, <2>2, <1>5, <1>7 DEF Known
<1>16. Single(g)
  BY <1>5, <1>8, <1>p DEF Single
<1>17. \A s \in Socks : f.wire[s] \in Seq(Frames) /\ f.queue[s] \in Seq(Frames)
  BY SessionFields DEF Queues
<1>18. ASSUME d.type \notin f.doubled
       PROVE  id = sock /\ Pending(f, D, id)
  <2>1. id = sock /\ Conn(f, id).inprogress
    BY <1>1, <1>18
  <2>2. Pending(f, D, id)
    BY <2>1, <1>1, <1>4, <1>18, <1>p DEF ConnsOK, Working
  <2> QED
    BY <2>1, <2>2
<1>19. ASSUME d.type \notin f.doubled
       PROVE  g.wire[id] = f.queue[id]
  <2>1. f.wire[id] = <<>> /\ id = sock /\ TypeAt(f, id) \notin f.doubled
    BY <1>10, <1>18, <1>19 DEF Pending
  <2>2. g.wire[id] = f.wire[id] \o f.queue[id]
    BY <2>1, <1>4, <1>6
  <2>3. f.queue[id] \in Seq(Frames)
    BY <1>4, <1>17
  <2>4. <<>> \o f.queue[id] = f.queue[id]
    BY <2>3
  <2> QED
    BY <2>1, <2>2, <2>4
<1>20. WiresOK(g)
  <2> SUFFICES ASSUME NEW s \in Socks, TypeAt(g, s) \notin g.doubled
               PROVE  Numbers(g.wire[s], s)
    BY DEF WiresOK
  <2>1. CASE s = sock
    <3>1. d.type \notin f.doubled
      BY <2>1, <1>5, <1>7, <1>10
    <3>2. g.wire[s] = f.queue[s] /\ Numbers(f.queue[s], s)
      BY <2>1, <3>1, <1>18, <1>19 DEF Pending
    <3> QED
      BY <3>2
  <2>2. CASE s # sock
    BY <2>2, <1>5, <1>6, <1>7, <1>p DEF WiresOK
  <2> QED
    BY <2>1, <2>2
<1>21. ConnsOK(g, D2, W2, slot2, chats2)
  <2> SUFFICES ASSUME NEW i \in DOMAIN g.connlist, Conn(g, i).type \notin g.doubled
               PROVE  Pending(g, D2, i) \/ Working(g, W2, slot2, chats2, i)
    BY DEF ConnsOK
  <2>1. CASE i = id
    <3>1. d.type \notin f.doubled
      BY <2>1, <1>5
    <3>2. Len(g.wire[id]) = Conn(g, id).seqnum /\ Conn(g, id).seqnum >= 1
      BY <3>1, <1>5, <1>18, <1>19 DEF Pending
    <3>3. IF d.type = "chat" THEN \E n \in chats2 : n.conn = id ELSE slot2[d.type] = id
      <4>1. CASE d.type = "chat"
        <5> DEFINE n == [conn |-> id, inpa |-> d.sock, joined |-> FALSE]
        <5>1. n \in chats2
          BY <4>1 DEF chats2, RoomsAfter
        <5>2. n.conn = id
          OBVIOUS
        <5> HIDE DEF n
        <5> QED
          BY <4>1, <5>1, <5>2
      <4>2. CASE d.type # "chat"
        BY <4>2, <3>1, <1>3, <1>11, <1>18 DEF Slots
      <4> QED
        BY <4>1, <4>2
    <3>4. [sock |-> id, conn |-> id, type |-> Conn(g, id).type] \in W2
      BY <3>1, <1>5, <1>18
    <3>5. Conn(g, id).fd = id /\ ~Conn(g, id).inprogress /\ Conn(g, id).type = d.type
      BY <3>1, <1>5, <1>18
    <3>6. Working(g, W2, slot2, chats2, id)
      BY <3>2, <3>3, <3>4, <3>5 DEF Working
    <3> QED
      BY <2>1, <3>6
  <2>2. CASE i # id
    <3>1. /\ i \in DOMAIN f.connlist /\ i \in Socks /\ Conn(g, i) = Conn(f, i)
          /\ Conn(f, i).type \notin f.doubled /\ g.queue[i] = f.queue[i]
      BY <2>2, <1>5, <1>6, SessionFields
    <3>2. i # sock
      BY <2>2, <3>1, <1>10, <1>18, <1>p DEF Placed
    <3>3. g.wire[i] = f.wire[i]
      BY <3>1, <3>2, <1>6, <1>p DEF Placed
    <3>4. Pending(f, D, i) => Pending(g, D2, i)
      <4>1. [sock |-> i, type |-> Conn(f, i).type] # d
        BY <3>2 DEF sock
      <4> QED
        BY <4>1, <3>1, <3>3 DEF Pending
    <3>5. Working(f, W, slot, chats, i) => Working(g, W2, slot2, chats2, i)
      <4>1. Conn(f, i).type \in Types
        BY <3>1, SessionFields, ConnFields
      <4>2. ASSUME Conn(f, i).type # "chat"
            PROVE  slot2[Conn(f, i).type] = slot[Conn(f, i).type]
        <5>1. Conn(f, i).type \in Slots \ f.doubled
          BY <4>1, <4>2, <3>1 DEF Slots
        <5>2. Conn(f, i).type # d.type
          BY <5>1, <2>2, <3>1, <1>1, <1>4, <1>p DEF Single, OfType
        <5> QED
          BY <5>1, <5>2, <1>11
      <4> QED
        BY <4>2, <3>1, <3>3, <1>13 DEF Working
    <3> QED
      BY <3>1, <3>4, <3>5, <1>p DEF ConnsOK
  <2> QED
    BY <2>1, <2>2
<1>22. WatchesOK(g, W2)
  <2> SUFFICES ASSUME NEW w \in W2
               PROVE  /\ Known(g, w.conn) => ~Conn(g, w.conn).inprogress
                      /\ w.type \notin g.doubled => Known(g, w.conn) /\ w.sock = w.conn
    BY DEF WatchesOK
  <2>1. CASE w = new
    BY <2>1, <1>1, <1>5, <1>7
  <2>2. CASE w \in W
    <3>1. /\ Known(f, w.conn) => ~Conn(f, w.conn).inprogress
          /\ w.type \notin f.doubled => Known(f, w.conn) /\ w.sock = w.conn
      BY <2>2, <1>p DEF WatchesOK
    <3> QED
      BY <3>1, <1>5, <1>7 DEF Known
  <2> QED
    BY <2>1, <2>2
<1>23. DialsOK(g, D2)
  <2>1. ASSUME NEW e \in D2, e.type \notin g.doubled
        PROVE  Known(g, e.sock) /\ Conn(g, e.sock).inprogress
    <3>1. Known(f, e.sock) /\ Conn(f, e.sock).inprogress /\ TypeAt(f, e.sock) = e.type
      BY <2>1, <1>5, <1>p DEF DialsOK, Placed
    <3>2. e.sock # id
      <4>1. SUFFICES ASSUME e.sock = id
                     PROVE  FALSE
        OBVIOUS
      <4>2. e.type = d.type
        BY <4>1, <3>1, <1>10
      <4>3. id = sock
        BY <4>2, <2>1, <1>5, <1>18
      <4>4. e = [sock |-> e.sock, type |-> e.type]
        BY DEF Connects
      <4>5. e = d
        BY <4>1, <4>2, <4>3, <4>4, <1>3
      <4> QED
        BY <4>5
    <3> QED
      BY <3>1, <3>2, <1>5, <1>7 DEF Known
  <2>2. ASSUME NEW t \in Slots
        PROVE  Cardinality(DialSocks(D2, t)) <= Cardinality(Busy(g, t))
    BY <1>1, <1>9, <1>p, EnoughLeft
  <2> QED
    BY <2>1, <2>2 DEF DialsOK
<1>24. RoomsOK(g, chats2)
  <2>1. ASSUME NEW n \in chats2, n.conn # 0
        PROVE  /\ n.inpa = n.conn /\ Known(g, n.conn) /\ ~Conn(g, n.conn).inprogress
               /\ Conn(g, n.conn).type = "chat" /\ (n.conn = id => d.type = "chat" /\ n \notin chats)
    <3>1. CASE n \in chats
      <4>1. /\ n.inpa = n.conn /\ Known(f, n.conn) /\ ~Conn(f, n.conn).inprogress
            /\ Conn(f, n.conn).type = "chat"
        BY <3>1, <2>1, <1>p DEF RoomsOK
      <4>2. n.conn # id
        BY <4>1, <1>1, <1>3 DEF Slots
      <4> QED
        BY <4>1, <4>2, <1>5, <1>7 DEF Known
    <3>2. CASE n \notin chats
      BY <3>2, <1>1, <1>5, <1>7, <1>12
    <3> QED
      BY <3>1, <3>2
  <2>2. \A n \in chats2 : n.inpa = n.conn
    BY <1>12, <1>p DEF RoomsOK
  <2>3. ASSUME NEW n \in chats2, NEW m \in chats2, n.conn = m.conn, n.conn # 0
        PROVE  n = m
    <3>1. CASE n.conn = id
      <4>1. d.type = "chat" /\ n \notin chats /\ m \notin chats
        BY <3>1, <2>1, <2>3
      <4> QED
        BY <4>1 DEF chats2, RoomsAfter
    <3>2. CASE n.conn # id
      BY <3>2, <2>3, <1>12, <1>p DEF RoomsOK
    <3> QED
      BY <3>1, <3>2
  <2> QED
    BY <2>1, <2>2, <2>3 DEF RoomsOK
<1>25. Live(g, D2, W2, slot2, chats2)
  BY <1>14, <1>15, <1>16, <1>20, <1>21, <1>22, <1>23, <1>24 DEF Live
<1> QED
  BY <1>25 DEF id, slot2, chats2, sock

(* A connect that fails keeps what holds while signed on. *)
LEMMA FailKeeps ==
  ASSUME NEW f \in Sessions, NEW D, D \subseteq Connects, NEW W, W \subseteq Inputs,
         NEW slot, NEW chats, Live(f, D, W, slot, chats), NEW d \in D
  PROVE  LET id == TakenFrom(f, d)
             g == aim_conn_kill([f EXCEPT !.connlist[id].fd = 0], id)
         IN  g \in Sessions /\ Live(g, D \ {d}, W, slot, chats)
<1> DEFINE id == TakenFrom(f, d)
           h == [f EXCEPT !.connlist[id].fd = 0]
           g == aim_conn_kill(h, id)
<1>p. Placed(f, D, W, slot) /\ ConnsOK(f, D, W, slot, chats) /\ WatchesOK(f, W)
      /\ DialsOK(f, D) /\ RoomsOK(f, chats)
  BY DEF Live
<1>1. /\ Known(f, id) /\ Conn(f, id).type = d.type
      /\ d.type \notin f.doubled => id = d.sock /\ Conn(f, id).inprogress
  BY TakenIs
<1> HIDE DEF id
<1>2. h \in Sessions /\ Replaced(f, h, id, [Conn(f, id) EXCEPT !.fd = 0])
  <2>1. 0 \in 0 .. MaxConns
    BY BoundsAssumption
  <2> QED
    BY <2>1, <1>1, WithSocket
<1> HIDE DEF h
<1>3. Known(h, id)
  BY <1>1, <1>2 DEF Replaced, Known
<1>4. g \in Sessions /\ Removed(h, g, id)
  BY <1>2, <1>3, KillIs
<1> HIDE DEF g
<1>5. Removed(f, g, id)
  <2>1. /\ g.types = f.types /\ g.asked = f.asked /\ g.doubled = f.doubled /\ g.wire = f.wire
        /\ g.queue = [f.queue EXCEPT ![id] = <<>>]
    BY <1>2, <1>4 DEF Removed, Replaced
  <2>2. DOMAIN h.connlist = DOMAIN f.connlist
        /\ \A i \in DOMAIN f.connlist : i # id => h.connlist[i] = f.connlist[i]
    BY <1>2 DEF Replaced, Conn
  <2>3. g.connlist = [i \in DOMAIN h.connlist \ {id} |-> h.connlist[i]]
    BY <1>4 DEF Removed
  <2>4. g.connlist = [i \in DOMAIN f.connlist \ {id} |-> f.connlist[i]]
    BY <2>2, <2>3
  <2> QED
    BY <2>1, <2>4 DEF Removed
<1>6. TypeAt(f, id) = d.type
  BY <1>1, <1>p DEF Placed, Known
<1>7. \A w \in W : w.conn = id => w.type \in f.doubled
  <2> SUFFICES ASSUME NEW w \in W, w.conn = id, w.type \notin f.doubled
               PROVE  FALSE
    OBVIOUS
  <2>1. w.type = d.type
    BY <1>6, <1>p DEF Placed
  <2>2. ~Conn(f, id).inprogress
    BY <1>1, <1>p DEF WatchesOK
  <2> QED
    BY <2>1, <2>2, <1>1
<1>8. \A e \in D \ {d} : e.sock = id => e.type \in f.doubled
  <2> SUFFICES ASSUME NEW e \in D \ {d}, e.sock = id, e.type \notin f.doubled
               PROVE  FALSE
    OBVIOUS
  <2>1. e.type = d.type
    BY <1>6, <1>p DEF Placed
  <2>2. e.sock = d.sock
    BY <2>1, <1>1
  <2>3. e = [sock |-> e.sock, type |-> e.type] /\ d = [sock |-> d.sock, type |-> d.type]
    BY DEF Connects
  <2> QED
    BY <2>1, <2>2, <2>3
<1>9. \A i \in DOMAIN f.connlist \ {id} : LET t == Conn(f, i).type IN
        t \notin f.doubled =>
          ([sock |-> i, type |-> t] \in D => [sock |-> i, type |-> t] \in D \ {d})
  <2> SUFFICES ASSUME NEW i \in DOMAIN f.connlist \ {id}, Conn(f, i).type \notin f.doubled,
                      [sock |-> i, type |-> Conn(f, i).type] = d
               PROVE  FALSE
    BY Zenon
  <2>1. i = d.sock /\ Conn(f, i).type = d.type
    OBVIOUS
  <2> QED
    BY <2>1, <1>1
<1>10. \A t \in Slots : Cardinality(DialSocks(D \ {d}, t)) <= Cardinality(Busy(f, t) \ {id})
  BY <1>1, <1>p, EnoughLeft
<1>11. RoomsOK(g, chats)
  <2>1. /\ DOMAIN g.connlist = DOMAIN f.connlist \ {id}
        /\ \A i \in DOMAIN f.connlist \ {id} : Conn(g, i) = Conn(f, i)
    BY <1>5 DEF Removed, Conn
  <2>2. ASSUME NEW n \in chats, n.conn # 0
        PROVE  /\ Known(g, n.conn) /\ ~Conn(g, n.conn).inprogress
               /\ Conn(g, n.conn).type = "chat"
    <3>1. Known(f, n.conn) /\ ~Conn(f, n.conn).inprogress /\ Conn(f, n.conn).type = "chat"
      BY <2>2, <1>p DEF RoomsOK
    <3>2. "chat" \notin f.doubled
      BY SessionFields DEF Slots
    <3>3. n.conn # id
      BY <3>1, <3>2, <1>1
    <3> QED
      BY <3>1, <3>3, <2>1 DEF Known
  <2> QED
    BY <2>2, <1>p DEF RoomsOK
<1>12. Spared(f, id, D, D \ {d}, W, W, slot, slot, chats, chats)
  <2>1. D \ {d} \subseteq D /\ \A t \in Slots : slot[t] \in {slot[t], 0}
    OBVIOUS
  <2> QED
    BY <2>1, <1>9 DEF Spared
<1>13. Unused(f, id, D \ {d}, W)
  BY <1>7, <1>8, <1>10 DEF Unused
<1>14. Live(g, D \ {d}, W, slot, chats)
  BY <1>4, <1>5, <1>11, <1>12, <1>13, RemoveKeeps
<1> QED
  BY <1>4, <1>14 DEF g, h, id

-----------------------------------------------------------------------------
(* Connections that break, and chat rooms.                                 *)

(* The inputs, slots and rooms after connection id, of type t, broke. *)
InputsWithout(W, slot, chats, id, t) ==
  IF t = "chat" THEN {w \in W : \A n \in chats : n.conn = id => w.sock # n.inpa}
  ELSE {w \in W : w.sock # slot[t]}
SlotsWithout(slot, t) == IF t = "chat" THEN slot ELSE [slot EXCEPT ![t] = 0]
RoomsWithout(chats, id, t) ==
  IF t = "chat" THEN {IF n.conn = id THEN [n EXCEPT !.conn = 0, !.inpa = 0] ELSE n : n \in chats}
  ELSE chats

(* What is known of a connection with an input. *)
LEMMA Watched ==
  ASSUME NEW f \in Sessions, NEW D, NEW W, NEW slot, NEW chats, Live(f, D, W, slot, chats),
         NEW w \in W, Known(f, w.conn)
  PROVE  LET id == w.conn
             t == Conn(f, id).type
         IN  /\ id \in Socks /\ id \in DOMAIN f.connlist /\ ~Conn(f, id).inprogress
             /\ t \in Types /\ t = w.type
             /\ TypeAt(f, id) = t /\ id \notin Busy(f, t)
             /\ \A d \in D : d.sock = id => d.type \in f.doubled
             /\ \A x \in W : x.conn = id => x.type = t /\ (t \notin f.doubled => x.sock = id)
             /\ t \notin f.doubled => Working(f, W, slot, chats, id)
<1> DEFINE id == w.conn
           t == Conn(f, id).type
<1>p. Placed(f, D, W, slot) /\ ConnsOK(f, D, W, slot, chats) /\ WatchesOK(f, W) /\ DialsOK(f, D)
  BY DEF Live
<1>1. id \in DOMAIN f.connlist /\ id \in Socks /\ t \in Types
  BY SessionFields, ConnFields DEF Known
<1> HIDE DEF t, id
<1>2. TypeAt(f, id) = t
  BY <1>1, <1>p DEF Placed, t
<1>3. ~Conn(f, id).inprogress
  BY <1>p DEF WatchesOK, id
<1>4. t = w.type /\ \A x \in W : x.conn = id => x.type = t
  BY <1>2, <1>p DEF Placed, id
<1>5. \A x \in W : x.conn = id => (t \notin f.doubled => x.sock = id)
  BY <1>4, <1>p DEF WatchesOK
<1>6. \A d \in D : d.sock = id => d.type \in f.doubled
  BY <1>3, <1>p DEF DialsOK
<1>7. t \notin f.doubled => Working(f, W, slot, chats, id)
  BY <1>1, <1>3, <1>p DEF ConnsOK, Pending, t
<1>8. id \notin Busy(f, t)
  BY <1>3 DEF Busy
<1> QED
  BY <1>1, <1>2, <1>3, <1>4, <1>5, <1>6, <1>7, <1>8 DEF t, id

(* A room's connection. *)
LEMMA Joined ==
  ASSUME NEW f \in Sessions, NEW D, NEW W, NEW slot, NEW chats, Live(f, D, W, slot, chats),
         NEW c \in chats, c.conn # 0
  PROVE  LET id == c.conn
         IN  /\ Known(f, id) /\ id \in Socks /\ ~Conn(f, id).inprogress /\ c.inpa = id
             /\ Conn(f, id).type = "chat" /\ "chat" \notin f.doubled
             /\ [sock |-> id, conn |-> id, type |-> "chat"] \in W
<1> DEFINE id == c.conn
<1>p. ConnsOK(f, D, W, slot, chats) /\ RoomsOK(f, chats)
  BY DEF Live
<1>1. Known(f, id) /\ ~Conn(f, id).inprogress /\ c.inpa = id /\ Conn(f, id).type = "chat"
  BY <1>p DEF RoomsOK
<1>2. id \in DOMAIN f.connlist /\ id \in Socks /\ "chat" \notin f.doubled
  BY <1>1, SessionFields DEF Known, Slots
<1>3. Working(f, W, slot, chats, id)
  BY <1>1, <1>2, <1>p DEF ConnsOK, Pending
<1>4. [sock |-> id, conn |-> id, type |-> "chat"] \in W
  BY <1>1, <1>3 DEF Working
<1> QED
  BY <1>1, <1>2, <1>4

(* The numbers of busy connections when a connection not in progress goes. *)
LEMMA BusyWithout ==
  ASSUME NEW f, NEW id, ~Conn(f, id).inprogress, NEW t
  PROVE  Busy(f, t) \ {id} = Busy(f, t)
BY DEF Busy

(* A connection that breaks keeps what holds while signed on. *)
LEMMA BreakKeeps ==
  ASSUME NEW f \in Sessions, NEW D, NEW W, NEW slot \in [Slots -> 0 .. MaxConns], NEW chats,
         Live(f, D, W, slot, chats), chats \subseteq Rooms, NEW w \in W, Known(f, w.conn)
  PROVE  LET id == w.conn
             t == Conn(f, id).type
             g == aim_conn_kill(f, id)
         IN  g \in Sessions /\ Live(g, D, InputsWithout(W, slot, chats, id, t),
                                    SlotsWithout(slot, t), RoomsWithout(chats, id, t))
<1> DEFINE id == w.conn
           t == Conn(f, id).type
           g == aim_conn_kill(f, id)
           W2 == InputsWithout(W, slot, chats, id, t)
           slot2 == SlotsWithout(slot, t)
           chats2 == RoomsWithout(chats, id, t)
<1>p. Placed(f, D, W, slot) /\ Single(f) /\ DialsOK(f, D) /\ RoomsOK(f, chats)
  BY DEF Live
<1>1. /\ id \in Socks /\ id \in DOMAIN f.connlist /\ ~Conn(f, id).inprogress
      /\ t \in Types /\ t = w.type
      /\ TypeAt(f, id) = t /\ id \notin Busy(f, t)
      /\ \A d \in D : d.sock = id => d.type \in f.doubled
      /\ \A x \in W : x.conn = id => x.type = t /\ (t \notin f.doubled => x.sock = id)
      /\ t \notin f.doubled => Working(f, W, slot, chats, id)
  BY Watched
<1>2. g \in Sessions /\ Removed(f, g, id)
  BY KillIs
<1>3. "chat" \notin f.doubled /\ f.doubled \subseteq Slots /\ id # 0
  BY <1>1, SessionFields DEF Slots, Socks
<1> HIDE DEF g, t, id
<1>4. \A u \in Slots : slot2[u] = IF u = t THEN 0 ELSE slot[u]
  BY DEF SlotsWithout, Slots
<1>5. W2 \subseteq W
  BY DEF InputsWithout
<1>6. ASSUME NEW x \in W2, x.conn = id
      PROVE  x.type \in f.doubled
  <2> SUFFICES ASSUME t \notin f.doubled
               PROVE  FALSE
    BY <1>1, <1>5, <1>6
  <2>1. x.sock = id /\ Working(f, W, slot, chats, id)
    BY <1>1, <1>5, <1>6
  <2>2. CASE t = "chat"
    <3>1. PICK n \in chats : n.conn = id
      BY <2>1, <2>2 DEF Working, t
    <3>2. n.inpa = id
      BY <3>1, <1>p DEF RoomsOK
    <3> QED
      BY <3>1, <3>2, <2>1, <2>2 DEF InputsWithout
  <2>3. CASE t # "chat"
    <3>1. slot[t] = id
      BY <2>1, <2>3 DEF Working, t
    <3> QED
      BY <3>1, <2>1, <2>3 DEF InputsWithout
  <2> QED
    BY <2>2, <2>3
<1>7. Unused(f, id, D, W2)
  <2>1. \A u \in Slots : Cardinality(DialSocks(D, u)) <= Cardinality(Busy(f, u) \ {id})
    BY <1>1, <1>p, BusyWithout DEF DialsOK
  <2> QED
    BY <2>1, <1>1, <1>6 DEF Unused
<1>8. ASSUME NEW i \in DOMAIN f.connlist \ {id}, Conn(f, i).type \notin f.doubled,
             Conn(f, i).type = t
      PROVE  t = "chat"
  <2> SUFFICES ASSUME t # "chat"
               PROVE  FALSE
    OBVIOUS
  <2>1. t \in Slots \ f.doubled
    BY <1>1, <1>8 DEF Slots
  <2>2. i \in OfType(f, t) /\ id \in OfType(f, t)
    BY <1>1, <1>8 DEF OfType, t
  <2> QED
    BY <2>1, <2>2, <1>8, <1>p DEF Single
<1>9. ASSUME NEW i \in DOMAIN f.connlist \ {id}, Conn(f, i).type \notin f.doubled,
             [sock |-> i, conn |-> i, type |-> Conn(f, i).type] \in W
      PROVE  [sock |-> i, conn |-> i, type |-> Conn(f, i).type] \in W2
  <2>1. CASE t = "chat"
    <3>1. \A n \in chats : n.conn = id => n.inpa = id
      BY <1>p DEF RoomsOK
    <3> QED
      BY <3>1, <2>1, <1>9 DEF InputsWithout
  <2>2. CASE t # "chat"
    <3>1. t \in Slots /\ i # 0 /\ TypeAt(f, i) = Conn(f, i).type
      BY <2>2, <1>1, <1>p, SessionFields DEF Slots, Socks, Placed
    <3>2. i # slot[t]
      BY <3>1, <2>2, <1>8, <1>9, <1>p DEF Placed
    <3> QED
      BY <3>2, <2>2, <1>9 DEF InputsWithout
  <2> QED
    BY <2>1, <2>2
<1>10. ASSUME NEW i \in DOMAIN f.connlist \ {id}, NEW n \in chats, n.conn = i
       PROVE  n \in chats2
  BY <1>10 DEF RoomsWithout
<1>11. Spared(f, id, D, D, W, W2, slot, slot2, chats, chats2)
  <2> HIDE DEF W2, slot2, chats2
  <2>1. \A u \in Slots : slot2[u] \in {slot[u], 0}
    BY <1>4
  <2>2. ASSUME NEW i \in DOMAIN f.connlist \ {id}, Conn(f, i).type \notin f.doubled
        PROVE  IF Conn(f, i).type = "chat"
               THEN (\E n \in chats : n.conn = i) => \E n \in chats2 : n.conn = i
               ELSE slot[Conn(f, i).type] = i => slot2[Conn(f, i).type] = i
    <3>1. CASE Conn(f, i).type = "chat"
      BY <3>1, <1>10
    <3>2. CASE Conn(f, i).type # "chat"
      <4>1. Conn(f, i).type \in Slots /\ Conn(f, i).type # t
        BY <3>2, <2>2, <1>8, SessionFields, ConnFields DEF Slots
      <4> QED
        BY <4>1, <3>2, <1>4
    <3> QED
      BY <3>1, <3>2
  <2> QED
    BY <2>1, <2>2, <1>5, <1>9 DEF Spared
<1>12. RoomsOK(g, chats2)
  <2>1. /\ DOMAIN g.connlist = DOMAIN f.connlist \ {id}
        /\ \A i \in DOMAIN f.connlist \ {id} : Conn(g, i) = Conn(f, i)
    BY <1>2 DEF Removed, Conn
  <2>2. ASSUME NEW n \in chats2
        PROVE  /\ n.inpa = n.conn
               /\ n.conn # 0 => n \in chats /\ n.conn # id
    <3>1. CASE t = "chat"
      <4>1. PICK m \in chats : n = IF m.conn = id THEN [m EXCEPT !.conn = 0, !.inpa = 0] ELSE m
        BY <3>1 DEF RoomsWithout
      <4>2. CASE m.conn = id
        <5>1. m \in Rooms /\ n = [m EXCEPT !.conn = 0, !.inpa = 0]
          BY <4>1, <4>2
        <5>2. n.conn = 0 /\ n.inpa = 0
          BY <5>1 DEF Rooms
        <5> QED
          BY <5>2
      <4>3. CASE m.conn # id
        BY <4>1, <4>3, <1>p DEF RoomsOK
      <4> QED
        BY <4>2, <4>3
    <3>2. CASE t # "chat"
      <4>1. n \in chats
        BY <3>2 DEF RoomsWithout
      <4>2. n.conn # 0 => Conn(f, n.conn).type = "chat"
        BY <4>1, <1>p DEF RoomsOK
      <4> QED
        BY <4>1, <4>2, <3>2, <1>p DEF RoomsOK, t
    <3> QED
      BY <3>1, <3>2
  <2> HIDE DEF chats2
  <2>3. ASSUME NEW n \in chats2, n.conn # 0
        PROVE  /\ Known(g, n.conn) /\ ~Conn(g, n.conn).inprogress
               /\ Conn(g, n.conn).type = "chat"
    <3>1. Known(f, n.conn) /\ ~Conn(f, n.conn).inprogress /\ Conn(f, n.conn).type = "chat"
      BY <2>2, <2>3, <1>p DEF RoomsOK
    <3> QED
      BY <3>1, <2>1, <2>2, <2>3 DEF Known
  <2>4. \A n, m \in chats2 : n.conn = m.conn /\ n.conn # 0 => n = m
    BY <2>2, <1>p DEF RoomsOK
  <2> QED
    BY <2>2, <2>3, <2>4 DEF RoomsOK
<1>13. Live(g, D, W2, slot2, chats2)
  <2> HIDE DEF W2, slot2, chats2
  <2> QED
    BY <1>2, <1>7, <1>11, <1>12, RemoveKeeps
<1> QED
  BY <1>2, <1>13 DEF g, t, id

(* Rooms with the same connections may replace the rooms. *)
LEMMA RoomsReplaced ==
  ASSUME NEW f \in Sessions, NEW D, NEW W, NEW slot, NEW chats, Live(f, D, W, slot, chats),
         NEW chats2, RoomsOK(f, chats2),
         \A i \in Socks : (\E n \in chats : n.conn = i) => \E n \in chats2 : n.conn = i
  PROVE  Live(f, D, W, slot, chats2)
<1>1. ConnsOK(f, D, W, slot, chats2)
  <2> SUFFICES ASSUME NEW i \in DOMAIN f.connlist, Conn(f, i).type \notin f.doubled
               PROVE  Pending(f, D, i) \/ Working(f, W, slot, chats2, i)
    BY DEF ConnsOK
  <2>1. Pending(f, D, i) \/ Working(f, W, slot, chats, i)
    BY DEF Live, ConnsOK
  <2>2. i \in Socks
    BY SessionFields
  <2>3. Working(f, W, slot, chats, i) => Working(f, W, slot, chats2, i)
    BY <2>2 DEF Working
  <2> QED
    BY <2>1, <2>3
<1> QED
  BY <1>1 DEF Live

(* The user leaves a chat room. *)
LEMMA LeaveKeeps ==
  ASSUME NEW f \in Sessions, NEW D, NEW W, W \subseteq Inputs, NEW slot, NEW chats,
         Live(f, D, W, slot, chats), NEW c \in chats
  PROVE  LET g == aim_conn_kill(f, c.conn)
         IN  g \in Sessions /\ Live(g, D, {w \in W : w.sock # c.inpa}, slot, chats \ {c})
<1> DEFINE id == c.conn
           g == aim_conn_kill(f, id)
           W2 == {w \in W : w.sock # c.inpa}
           chats2 == chats \ {c}
<1>p. Placed(f, D, W, slot) /\ DialsOK(f, D) /\ RoomsOK(f, chats) /\ WatchesOK(f, W)
  BY DEF Live
<1>1. \A n \in chats2 : n \in chats /\ (n.conn # 0 => n.conn # id)
  BY <1>p DEF RoomsOK
<1>2. CASE id = 0
  <2>1. ~Known(f, id) /\ g = f
    BY <1>2, SessionFields DEF Known, Socks, aim_conn_kill
  <2>2. c.inpa = 0 /\ \A w \in W : w.sock # 0
    BY <1>2, <1>p DEF RoomsOK, Inputs, Socks
  <2>3. W2 = W
    BY <2>2
  <2>4. RoomsOK(f, chats2)
    BY <1>p DEF RoomsOK
  <2>5. \A i \in Socks : (\E n \in chats : n.conn = i) => \E n \in chats2 : n.conn = i
    BY <1>2 DEF Socks
  <2>6. Live(f, D, W, slot, chats2)
    <3> HIDE DEF chats2
    <3> QED
      BY <2>4, <2>5, RoomsReplaced
  <2> QED
    BY <2>1, <2>3, <2>6
<1>3. CASE id # 0
  <2>1. /\ Known(f, id) /\ id \in Socks /\ ~Conn(f, id).inprogress /\ c.inpa = id
        /\ Conn(f, id).type = "chat" /\ "chat" \notin f.doubled
        /\ [sock |-> id, conn |-> id, type |-> "chat"] \in W
    BY <1>3, Joined
  <2>2. g \in Sessions /\ Removed(f, g, id)
    BY <2>1, KillIs
  <2>3. /\ DOMAIN g.connlist = DOMAIN f.connlist \ {id}
        /\ \A i \in DOMAIN f.connlist \ {id} : Conn(g, i) = Conn(f, i)
    BY <2>2 DEF Removed, Conn
  <2>4. W2 \subseteq W /\ \A w \in W2 : w.sock # id
    BY <2>1
  <2> HIDE DEF id, g, W2, chats2
  <2>5. ASSUME NEW w \in W2, w.conn = id, w.type \notin f.doubled
        PROVE  FALSE
    BY <2>4, <2>5, <1>p DEF WatchesOK
  <2>6. ASSUME NEW d \in D, d.sock = id, d.type \notin f.doubled
        PROVE  FALSE
    BY <2>1, <2>6, <1>p DEF DialsOK
  <2>7. \A t \in Slots : Cardinality(DialSocks(D, t)) <= Cardinality(Busy(f, t) \ {id})
    BY <2>1, <1>p, BusyWithout DEF DialsOK
  <2>8. Unused(f, id, D, W2)
    BY <2>5, <2>6, <2>7 DEF Unused
  <2>9. \A i \in DOMAIN f.connlist \ {id}, t \in Types :
          [sock |-> i, conn |-> i, type |-> t] \in W => [sock |-> i, conn |-> i, type |-> t] \in W2
    BY <2>1 DEF W2
  <2>10. \A i \in DOMAIN f.connlist \ {id} :
           (\E n \in chats : n.conn = i) => \E n \in chats2 : n.conn = i
    BY DEF chats2, id
  <2>11. \A i \in DOMAIN f.connlist : Conn(f, i).type \in Types
    BY SessionFields, ConnFields
  <2>12. Spared(f, id, D, D, W, W2, slot, slot, chats, chats2)
    BY <2>4, <2>9, <2>10, <2>11 DEF Spared
  <2>13. RoomsOK(g, chats2)
    <3>1. \A n \in chats2 : n.conn # 0 => /\ Known(g, n.conn) /\ ~Conn(g, n.conn).inprogress
                                          /\ Conn(g, n.conn).type = "chat"
      BY <1>1, <1>p, <2>3 DEF RoomsOK, Known
    <3> QED
      BY <3>1, <1>1, <1>p DEF RoomsOK
  <2>14. Live(g, D, W2, slot, chats2)
    BY <2>2, <2>8, <2>12, <2>13, RemoveKeeps
  <2> QED
    BY <2>2, <2>14 DEF id, g, W2, chats2
<1> QED
  BY <1>2, <1>3

(* The rooms after connection id has been joined. *)
RoomsJoined(chats, id) == {[c EXCEPT !.joined = @ \/ c.conn = id] : c \in chats}

(* conninitdone_chat keeps what holds while signed on. *)
LEMMA JoinKeeps ==
  ASSUME NEW f \in Sessions, NEW D, NEW W, NEW slot, NEW chats, Live(f, D, W, slot, chats),
         chats \subseteq Rooms, NEW id
  PROVE  /\ RoomsJoined(chats, id) \subseteq Rooms
         /\ Live(f, D, W, slot, RoomsJoined(chats, id))
<1> DEFINE chats2 == RoomsJoined(chats, id)
           J(c) == [c EXCEPT !.joined = c.joined \/ c.conn = id]
<1>1. \A c \in chats : J(c) \in Rooms /\ J(c).conn = c.conn /\ J(c).inpa = c.inpa
  BY DEF Rooms
<1>2. chats2 = {J(c) : c \in chats}
  BY DEF RoomsJoined
<1> HIDE DEF J, chats2
<1>3. chats2 \subseteq Rooms
  BY <1>1, <1>2
<1>4. RoomsOK(f, chats)
  BY DEF Live
<1>5. \A n \in chats2 : \E c \in chats : n = J(c) /\ n.conn = c.conn /\ n.inpa = c.inpa
  BY <1>1, <1>2
<1>6. RoomsOK(f, chats2)
  <2>1. \A n \in chats2 : n.inpa = n.conn
    BY <1>4, <1>5 DEF RoomsOK
  <2>2. \A n \in chats2 : n.conn # 0 => /\ Known(f, n.conn) /\ ~Conn(f, n.conn).inprogress
                                        /\ Conn(f, n.conn).type = "chat"
    BY <1>4, <1>5 DEF RoomsOK
  <2>3. \A n, m \in chats2 : n.conn = m.conn /\ n.conn # 0 => n = m
    BY <1>4, <1>5 DEF RoomsOK
  <2> QED
    BY <2>1, <2>2, <2>3 DEF RoomsOK
<1>7. \A i \in Socks : (\E n \in chats : n.conn = i) => \E n \in chats2 : n.conn = i
  BY <1>1, <1>2
<1>8. Live(f, D, W, slot, chats2)
  BY <1>6, <1>7, RoomsReplaced
<1> QED
  BY <1>3, <1>8 DEF chats2

(* aim_bart_upload and aim_bart_request. *)
LEMMA BartKeeps ==
  ASSUME NEW f \in Sessions, NEW what \in Whats \ {"cookie"},
         NEW D, NEW W, NEW slot, NEW chats, Live(f, D, W, slot, chats)
  PROVE  Bart(f, what) \in Sessions /\ Live(Bart(f, what), D, W, slot, chats)
<1> DEFINE S == {i \in DOMAIN f.connlist : Conn(f, i).groups = {"icon"}}
           id == Newest(S)
<1>1. S \subseteq Socks /\ S \subseteq DOMAIN f.connlist
  BY SessionFields
<1>2. Bart(f, what) = IF id = 0 THEN f ELSE aim_tx_enqueue(f, id, <<what>>)
  BY DEF Bart, aim_conn_findbygroup
<1> HIDE DEF S
<1>3. id = 0 \/ Known(f, id)
  BY <1>1, NewestIn DEF Known
<1>4. <<what>> \in Seq(Whats \ {"cookie"})
  OBVIOUS
<1> HIDE DEF id
<1>5. CASE id = 0
  BY <1>5, <1>2
<1>6. CASE Known(f, id) /\ id # 0
  BY <1>6, <1>2, <1>4, EnqueueKeeps
<1> QED
  BY <1>3, <1>5, <1>6

-----------------------------------------------------------------------------
(* Signing off.                                                            *)

(* aim_connrst leaves no connection and no frame. *)
LEMMA ResetIs ==
  ASSUME NEW f \in Sessions
  PROVE  LET g == aim_connrst(f)
         IN  /\ g \in Sessions /\ DOMAIN g.connlist = {} /\ g.queue = NoFrames /\ g.wire = NoFrames
             /\ g.doubled = f.doubled
<1> DEFINE cl == f.closed \cup ({Conn(f, i).fd : i \in DOMAIN f.connlist} \ {0})
           L == <<>>
           g == [f EXCEPT !.closed = cl, !.connlist = L, !.asked = NoneAsked,
                          !.wire = NoFrames, !.queue = NoFrames]
<1>1. cl \subseteq Socks
  <2>1. \A i \in DOMAIN f.connlist : Conn(f, i).fd = 0 \/ Conn(f, i).fd \in Socks
    BY SessionFields, ConnFields
  <2> QED
    BY <2>1, SessionFields
<1>2. L \in ConnLists /\ DOMAIN L = {}
  <2>1. {} \in SUBSET Socks /\ L \in [{} -> Conns]
    OBVIOUS
  <2> QED
    BY <2>1, ConnListType
<1>3. NoneAsked \in [Types -> Nat]
  BY DEF NoneAsked
<1>4. NoFrames \in Queues
  <2>1. <<>> \in Seq(Frames)
    OBVIOUS
  <2> QED
    BY <2>1 DEF NoFrames, Queues
<1>5. aim_connrst(f) = g
  BY DEF aim_connrst, Sessions
<1>6. /\ g \in Sessions /\ g.connlist = L /\ g.queue = NoFrames /\ g.wire = NoFrames
      /\ g.doubled = f.doubled
  <2> HIDE DEF cl, L
  <2> QED
    BY <1>1, <1>2, <1>3, <1>4 DEF Sessions
<1> HIDE DEF g, L
<1> QED
  BY <1>2, <1>5, <1>6

(* oscar_close removes the input of every service connection that was      *)
(* never asked for twice: it is in the slot of its type, or of its room.   *)
LEMMA Registered ==
  ASSUME NEW f \in Sessions, NEW D, NEW W, NEW slot, NEW chats, Live(f, D, W, slot, chats),
         NEW w \in W, w.type \notin f.doubled, w.type \in Types
  PROVE  (\E t \in Slots : w.sock = slot[t]) \/ \E n \in chats : w.sock = n.inpa
<1>p. WatchesOK(f, W) /\ RoomsOK(f, chats)
  BY DEF Live
<1>1. Known(f, w.conn) /\ w.sock = w.conn
  BY <1>p DEF WatchesOK
<1>2. Conn(f, w.conn).type = w.type /\ Working(f, W, slot, chats, w.conn)
  BY <1>1, Watched
<1>3. CASE w.type = "chat"
  <2>1. PICK n \in chats : n.conn = w.conn
    BY <1>2, <1>3 DEF Working
  <2> QED
    BY <2>1, <1>1, <1>p DEF RoomsOK
<1>4. CASE w.type # "chat"
  BY <1>4, <1>1, <1>2 DEF Working, Slots
<1> QED
  BY <1>3, <1>4

-----------------------------------------------------------------------------
(* The inductive invariant holds initially.                                *)

(* What the plugin sends besides the cookie. *)
LEMMA OtherWhats ==
  /\ {"versions", "clientready", "reqrights", "createroom", "cookies", "activate", "upload"}
       \subseteq Whats \ {"cookie"}
  /\ ToSet(Wishes) \subseteq Whats \ {"cookie"} /\ Buddies \subseteq Whats \ {"cookie"}
BY NamesAssumption DEF Whats

(* The plugin's data just after logging in. *)
LEMMA NewOdType == NewOd \in Data /\ IsInjective(NewOd.requesticon) /\ NewOd.create_rooms = 0
<1> DEFINE none == [t \in Slots |-> 0]
<1>1. none \in [Slots -> 0 .. MaxConns] /\ 0 \in 0 .. MaxActs /\ <<>> \in Seq(Buddies)
  BY BoundsAssumption
<1>2. {} \in SUBSET ToSet(Wishes) /\ {} \in SUBSET Rooms
  OBVIOUS
<1>3. IsInjective(<<>>)
  BY DEF IsInjective
<1> HIDE DEF none
<1>4. NewOd = [wishes |-> {}, create_rooms |-> 0, iconconnecting |-> FALSE, requesticon |-> <<>>,
               set_icon |-> FALSE, icontimer |-> FALSE, slot |-> none, chats |-> {}]
  BY DEF NewOd, none
<1>5. NewOd \in Data
  BY <1>1, <1>2, <1>4 DEF Data
<1> QED
  BY <1>3, <1>4, <1>5

(* A session without connections, with the services asked for once. *)
LEMMA InitIInv == Init => IInv
<1> SUFFICES ASSUME Init
             PROVE  IInv
  OBVIOUS
<1>1. PICK email \in Email :
        /\ acts = IF email THEN 1 ELSE 0
        /\ faim = [connlist |-> <<>>, queue |-> NoFrames, wire |-> NoFrames, closed |-> {},
                   types |-> <<>>, doubled |-> {},
                   asked |-> [NoneAsked EXCEPT !.chatnav = 1, !.email = IF email THEN 1 ELSE 0]]
  BY DEF Init
<1> DEFINE A == [NoneAsked EXCEPT !.chatnav = 1, !.email = IF email THEN 1 ELSE 0]
           L == <<>>
           T == <<>>
<1>2. A \in [Types -> Nat] /\ \A t \in Types : A[t] <= 1
  <2> DEFINE n == IF email THEN 1 ELSE 0
             B == [NoneAsked EXCEPT !["chatnav"] = 1]
  <2>1. NoneAsked \in [Types -> Nat] /\ \A t \in Types : NoneAsked[t] = 0
    BY DEF NoneAsked
  <2>2. B \in [Types -> Nat] /\ \A t \in Types : B[t] <= 1
    <3>1. 0 <= 1 /\ 1 <= 1 /\ 1 \in Nat
      OBVIOUS
    <3>2. B \in [Types -> Nat]
      BY <2>1, <3>1
    <3>3. \A t \in Types : B[t] = 1 \/ B[t] = 0
      BY <2>1
    <3> QED
      BY <3>1, <3>2, <3>3
  <2>3. n \in Nat /\ n <= 1
    OBVIOUS
  <2>4. A = [B EXCEPT !["email"] = n]
    OBVIOUS
  <2> HIDE DEF A, B, n
  <2> QED
    BY <2>2, <2>3, <2>4
<1>3. L \in ConnLists /\ DOMAIN L = {}
  <2>1. {} \in SUBSET Socks /\ L \in [{} -> Conns]
    OBVIOUS
  <2> QED
    BY <2>1, ConnListType
<1>4. NoFrames \in Queues /\ \A s \in Socks : NoFrames[s] = <<>>
  <2>1. <<>> \in Seq(Frames)
    OBVIOUS
  <2> QED
    BY <2>1 DEF NoFrames, Queues
<1>5. T \in Seq(Types) /\ Len(T) = 0
  OBVIOUS
<1> HIDE DEF A, L, T
<1>6. faim = [connlist |-> L, queue |-> NoFrames, wire |-> NoFrames, closed |-> {},
              types |-> T, doubled |-> {}, asked |-> A]
  BY <1>1 DEF A, L, T
<1>7. faim \in Sessions
  BY <1>2, <1>3, <1>4, <1>5, <1>6 DEF Sessions
<1>8. /\ DOMAIN faim.connlist = {} /\ faim.queue = NoFrames /\ faim.wire = NoFrames
      /\ faim.types = T /\ faim.doubled = {} /\ faim.asked = A
  BY <1>3, <1>6
<1>9. /\ od = NewOd /\ watches = {} /\ dials = {} /\ lost = {}
      /\ inbox = NoMail /\ served = NoneServed /\ status = "on"
  BY DEF Init
<1>10. od \in Data /\ IsInjective(od.requesticon) /\ od.create_rooms = 0
  BY <1>9, NewOdType
<1>11. TypesInv
  <2>1. served \in [Socks -> Nat \cup {Dead}] /\ DOMAIN inbox = Socks
    BY <1>9 DEF NoneServed, NoMail
  <2>2. acts \in Nat
    BY <1>1
  <2> QED
    BY <1>7, <1>9, <1>10, <2>1, <2>2 DEF TypesInv
<1>12. od.chats = {} /\ \A t \in Slots : od.slot[t] = 0
  BY <1>9 DEF NewOd
<1>13. \A t : OfType(faim, t) = {} /\ Busy(faim, t) = {} /\ DialSocks({}, t) = {}
  BY <1>8 DEF OfType, Busy, DialSocks
<1>14. Placed(faim, {}, {}, od.slot)
  BY <1>4, <1>8, <1>12 DEF Placed
<1>15. Awaiting(faim)
  BY <1>4, <1>8 DEF Awaiting
<1>16. Single(faim)
  BY <1>2, <1>8, <1>13 DEF Single, Slots
<1>17. WiresOK(faim)
  BY <1>4, <1>8 DEF WiresOK, Numbers
<1>18. ConnsOK(faim, {}, {}, od.slot, od.chats)
  BY <1>8 DEF ConnsOK
<1>19. WatchesOK(faim, {}) /\ RoomsOK(faim, od.chats)
  BY <1>12 DEF WatchesOK, RoomsOK
<1>20. DialsOK(faim, {})
  <2>1. Cardinality({}) = 0
    BY FS_EmptySet
  <2> QED
    BY <2>1, <1>13 DEF DialsOK
<1>21. Live(faim, dials, watches, od.slot, od.chats)
  BY <1>9, <1>14, <1>15, <1>16, <1>17, <1>18, <1>19, <1>20 DEF Live
<1> QED
  BY <1>9, <1>11, <1>21 DEF IInv

-----------------------------------------------------------------------------
(* Every step of the user and of the other users keeps the inductive       *)
(* invariant.                                                              *)

(* What it says while signed on. *)
LEMMA WhileOn ==
  ASSUME IInv, On
  PROVE  /\ faim \in Sessions /\ od \in Data /\ watches \subseteq Inputs /\ dials \subseteq Connects
         /\ TypesInv /\ Live(faim, dials, watches, od.slot, od.chats)
BY DEF IInv, TypesInv, On

(* What is to be shown of a step after which the user is still signed on. *)
LEMMA StillOn ==
  ASSUME On, status' = status, TypesInv', Live(faim', dials', watches', od'.slot, od'.chats)
  PROVE  IInv'
BY DEF IInv, On

(* The fields of the plugin's data. *)
LEMMA DataFields ==
  ASSUME NEW o \in Data
  PROVE  /\ o.wishes \subseteq ToSet(Wishes) /\ o.create_rooms \in 0 .. MaxActs
         /\ o.iconconnecting \in BOOLEAN /\ o.requesticon \in Seq(Buddies)
         /\ o.set_icon \in BOOLEAN /\ o.icontimer \in BOOLEAN
         /\ o.slot \in [Slots -> 0 .. MaxConns] /\ o.chats \subseteq Rooms
BY DEF Data

(* A step that sends something on a connection of type t, if there is one, *)
(* and asks for one otherwise.                                             *)
LEMMA SendOrAsk ==
  ASSUME NEW f \in Sessions, NEW t \in Types, NEW what \in Whats \ {"cookie"},
         NEW D, NEW W, NEW slot, NEW chats, Live(f, D, W, slot, chats)
  PROVE  LET id == aim_getconn_type(f, t)
         IN  /\ id # 0 => /\ aim_tx_enqueue(f, id, <<what>>) \in Sessions
                          /\ Live(aim_tx_enqueue(f, id, <<what>>), D, W, slot, chats)
             /\ aim_reqservice(f, t) \in Sessions
             /\ Live(aim_reqservice(f, t), D, W, slot, chats)
<1> DEFINE S == {i \in OfType(f, t) : ~Conn(f, i).inprogress}
           id == Newest(S)
<1>1. S \subseteq Socks /\ S \subseteq DOMAIN f.connlist
  BY SessionFields DEF OfType
<1>2. aim_getconn_type(f, t) = id
  BY DEF aim_getconn_type
<1> HIDE DEF S
<1>3. id = 0 \/ Known(f, id)
  BY <1>1, NewestIn DEF Known
<1>4. <<what>> \in Seq(Whats \ {"cookie"})
  OBVIOUS
<1> HIDE DEF id
<1>5. id # 0 => /\ aim_tx_enqueue(f, id, <<what>>) \in Sessions
                /\ Live(aim_tx_enqueue(f, id, <<what>>), D, W, slot, chats)
  BY <1>3, <1>4, EnqueueKeeps
<1> QED
  BY <1>2, <1>5, ReqserviceKeeps

(* An account request. *)
LEMMA AccountRequestStep ==
  ASSUME IInv, NEW w \in ToSet(Wishes), AccountRequest(w)
  PROVE  IInv'
<1> DEFINE id == aim_getconn_type(faim, "auth")
<1>1. /\ On /\ acts' = acts + 1 /\ acts < MaxActs
      /\ \/ id # 0 /\ faim' = aim_tx_enqueue(faim, id, <<w>>) /\ od' = od
         \/ faim' = aim_reqservice(faim, "auth") /\ od' = [od EXCEPT !.wishes = @ \cup {w}]
      /\ UNCHANGED <<watches, dials, inbox, served, status, fails, lost>>
  BY DEF AccountRequest, Act
<1>2. /\ faim \in Sessions /\ od \in Data /\ TypesInv
      /\ Live(faim, dials, watches, od.slot, od.chats)
  BY <1>1, WhileOn
<1>3. w \in Whats \ {"cookie"} /\ "auth" \in Types
  BY OtherWhats DEF Types
<1>4. faim' \in Sessions /\ Live(faim', dials, watches, od.slot, od.chats)
  BY <1>1, <1>2, <1>3, SendOrAsk
<1>5. /\ od' \in Data /\ od'.slot = od.slot /\ od'.chats = od.chats
      /\ od'.requesticon = od.requesticon /\ od'.create_rooms = od.create_rooms
  <2> DEFINE ws == od.wishes \cup {w}
  <2>1. ws \in SUBSET ToSet(Wishes)
    BY <1>2, DataFields
  <2>2. CASE od' = od
    BY <2>2, <1>2
  <2>3. CASE od' = [od EXCEPT !.wishes = ws]
    <3> HIDE DEF ws
    <3> QED
      BY <2>1, <2>3, <1>2 DEF Data
  <2> QED
    BY <2>2, <2>3, <1>1
<1>6. acts' \in Nat /\ od'.create_rooms <= acts'
  BY <1>1, <1>2, <1>5, DataFields DEF TypesInv
<1>7. TypesInv'
  BY <1>1, <1>2, <1>4, <1>5, <1>6 DEF TypesInv
<1>8. Live(faim', dials', watches', od'.slot, od'.chats)
  BY <1>1, <1>4, <1>5
<1> QED
  BY <1>1, <1>7, <1>8, StillOn

(* A chat room to create. *)
LEMMA JoinChatStep ==
  ASSUME IInv, oscar_join_chat
  PROVE  IInv'
<1> DEFINE id == aim_getconn_type(faim, "chatnav")
<1>1. /\ On /\ acts' = acts + 1 /\ acts < MaxActs
      /\ \/ id # 0 /\ faim' = aim_tx_enqueue(faim, id, <<"createroom">>) /\ od' = od
         \/ /\ faim' = aim_reqservice(faim, "chatnav")
            /\ od' = [od EXCEPT !.create_rooms = @ + 1]
      /\ UNCHANGED <<watches, dials, inbox, served, status, fails, lost>>
  BY DEF oscar_join_chat, Act
<1>2. /\ faim \in Sessions /\ od \in Data /\ TypesInv
      /\ Live(faim, dials, watches, od.slot, od.chats)
  BY <1>1, WhileOn
<1>3. "createroom" \in Whats \ {"cookie"} /\ "chatnav" \in Types
  BY OtherWhats DEF Types
<1>4. faim' \in Sessions /\ Live(faim', dials, watches, od.slot, od.chats)
  <2> DEFINE what == "createroom"
  <2>1. \/ id # 0 /\ faim' = aim_tx_enqueue(faim, id, <<what>>)
        \/ faim' = aim_reqservice(faim, "chatnav")
    BY <1>1
  <2>2. what \in Whats \ {"cookie"}
    BY <1>3
  <2> HIDE DEF what
  <2> QED
    BY <1>2, <1>3, <2>1, <2>2, SendOrAsk
<1>5. /\ od' \in Data /\ od'.slot = od.slot /\ od'.chats = od.chats
      /\ od'.requesticon = od.requesticon
      /\ od'.create_rooms \in {od.create_rooms, od.create_rooms + 1}
  <2> DEFINE n == od.create_rooms + 1
  <2>1. n \in 0 .. MaxActs
    BY <1>1, <1>2, BoundsAssumption, DataFields DEF TypesInv
  <2>2. CASE od' = od
    BY <2>2, <1>2
  <2>3. CASE od' = [od EXCEPT !.create_rooms = n]
    <3>1. od'.create_rooms = n
      BY <2>3, <1>2 DEF Data
    <3> HIDE DEF n
    <3>2. /\ od' \in Data /\ od'.slot = od.slot /\ od'.chats = od.chats
          /\ od'.requesticon = od.requesticon
      BY <2>1, <2>3, <1>2 DEF Data
    <3> QED
      BY <3>1, <3>2 DEF n
  <2> QED
    BY <2>2, <2>3, <1>1
<1>6. acts' \in Nat /\ od'.create_rooms <= acts'
  BY <1>1, <1>2, <1>5, DataFields DEF TypesInv
<1>7. TypesInv'
  BY <1>1, <1>2, <1>4, <1>5, <1>6 DEF TypesInv
<1>8. Live(faim', dials', watches', od'.slot, od'.chats)
  BY <1>1, <1>4, <1>5
<1> QED
  BY <1>1, <1>7, <1>8, StillOn

(* A chat room to leave. *)
LEMMA LeaveChatStep ==
  ASSUME IInv, NEW c \in od.chats, oscar_chat_leave(c)
  PROVE  IInv'
<1> DEFINE W2 == {w \in watches : w.sock # c.inpa}
           chats2 == od.chats \ {c}
<1>1. /\ On /\ acts' = acts + 1
      /\ od' = [od EXCEPT !.chats = chats2]
      /\ watches' = W2
      /\ faim' = aim_conn_kill(faim, c.conn)
      /\ UNCHANGED <<dials, inbox, served, status, fails, lost>>
  BY DEF oscar_chat_leave, Act
<1>2. /\ faim \in Sessions /\ od \in Data /\ watches \subseteq Inputs /\ TypesInv
      /\ Live(faim, dials, watches, od.slot, od.chats)
  BY <1>1, WhileOn
<1>3. faim' \in Sessions /\ Live(faim', dials, W2, od.slot, chats2)
  BY <1>1, <1>2, LeaveKeeps
<1>4. chats2 \in SUBSET Rooms /\ W2 \subseteq Inputs
  BY <1>2, DataFields
<1> HIDE DEF W2, chats2
<1>5. /\ od' \in Data /\ od'.slot = od.slot /\ od'.chats = chats2
      /\ od'.requesticon = od.requesticon /\ od'.create_rooms = od.create_rooms
  BY <1>1, <1>2, <1>4 DEF Data
<1>6. acts' \in Nat /\ od'.create_rooms <= acts'
  BY <1>1, <1>2, <1>5, DataFields DEF TypesInv
<1>7. TypesInv'
  BY <1>1, <1>2, <1>3, <1>4, <1>5, <1>6 DEF TypesInv
<1>8. Live(faim', dials', watches', od'.slot, od'.chats)
  BY <1>1, <1>3, <1>5
<1> QED
  BY <1>1, <1>7, <1>8, StillOn

(* Appending a new element to a list, and dropping the first, repeat none. *)
LEMMA NoneTwice ==
  ASSUME NEW X, NEW q \in Seq(X), IsInjective(q)
  PROVE  /\ \A x \in X \ ToSet(q) : IsInjective(Append(q, x))
         /\ q # <<>> => IsInjective(Tail(q))
<1>1. \A i, j \in 1 .. Len(q) : q[i] = q[j] => i = j
  BY DEF IsInjective
<1>2. ASSUME NEW x \in X \ ToSet(q)
      PROVE  IsInjective(Append(q, x))
  <2> DEFINE r == Append(q, x)
  <2>1. \A i \in 1 .. Len(q) : q[i] # x
    BY DEF ToSet
  <2>2. /\ DOMAIN r = 1 .. Len(q) + 1 /\ r[Len(q) + 1] = x
        /\ \A i \in 1 .. Len(q) : r[i] = q[i]
    OBVIOUS
  <2>3. \A i \in 1 .. Len(q) + 1 : i \in 1 .. Len(q) \/ i = Len(q) + 1
    OBVIOUS
  <2> HIDE DEF r
  <2>4. IsInjective(r)
    BY <1>1, <2>1, <2>2, <2>3 DEF IsInjective
  <2> QED
    BY <2>4 DEF r
<1>3. ASSUME q # <<>>
      PROVE  IsInjective(Tail(q))
  <2> DEFINE r == Tail(q)
  <2>1. /\ DOMAIN r = 1 .. Len(q) - 1
        /\ \A i \in 1 .. Len(q) - 1 : r[i] = q[i + 1] /\ i + 1 \in 1 .. Len(q)
    BY <1>3
  <2> HIDE DEF r
  <2>2. \A i, j \in DOMAIN r : r[i] = r[j] => i = j
    <3> SUFFICES ASSUME NEW i \in DOMAIN r, NEW j \in DOMAIN r, r[i] = r[j]
                 PROVE  i = j
      OBVIOUS
    <3>1. i + 1 = j + 1
      BY <1>1, <2>1
    <3> QED
      BY <3>1, <2>1
  <2>3. IsInjective(r)
    BY <2>2 DEF IsInjective
  <2> QED
    BY <2>3 DEF r
<1> QED
  BY <1>2, <1>3

(* A buddy whose icon is new. *)
LEMMA OncomingStep ==
  ASSUME IInv, NEW b \in Buddies, gaim_parse_oncoming(b)
  PROVE  IInv'
<1> DEFINE q == Append(od.requesticon, b)
<1>1. /\ On /\ acts' = acts + 1
      /\ \/ od' = od
         \/ b \notin ToSet(od.requesticon)
            /\ od' = [od EXCEPT !.requesticon = q, !.icontimer = TRUE]
      /\ UNCHANGED <<faim, watches, dials, inbox, served, status, fails, lost>>
  BY DEF gaim_parse_oncoming, Act
<1>2. /\ od \in Data /\ TypesInv /\ Live(faim, dials, watches, od.slot, od.chats)
  BY <1>1, WhileOn
<1>3. b \notin ToSet(od.requesticon) => q \in Seq(Buddies) /\ IsInjective(q)
  BY <1>2, NoneTwice, DataFields DEF TypesInv
<1> HIDE DEF q
<1>4. /\ od' \in Data /\ od'.slot = od.slot /\ od'.chats = od.chats
      /\ IsInjective(od'.requesticon) /\ od'.create_rooms = od.create_rooms
  <2>1. CASE od' = od
    BY <2>1, <1>2 DEF TypesInv
  <2>2. CASE /\ b \notin ToSet(od.requesticon)
             /\ od' = [od EXCEPT !.requesticon = q, !.icontimer = TRUE]
    <3>1. /\ od' \in Data /\ od'.slot = od.slot /\ od'.chats = od.chats
          /\ od'.requesticon = q /\ od'.create_rooms = od.create_rooms
      BY <2>2, <1>2, <1>3 DEF Data
    <3> QED
      BY <3>1, <2>2, <1>3
  <2> QED
    BY <2>1, <2>2, <1>1
<1>5. acts' \in Nat /\ od'.create_rooms <= acts'
  BY <1>1, <1>2, <1>4, DataFields DEF TypesInv
<1>6. TypesInv'
  BY <1>1, <1>2, <1>4, <1>5 DEF TypesInv
<1>7. Live(faim', dials', watches', od'.slot, od'.chats)
  BY <1>1, <1>2, <1>4
<1> QED
  BY <1>1, <1>6, <1>7, StillOn

(* The server asks for the icon. *)
LEMMA IconReqStep ==
  ASSUME IInv, oscar_icon_req
  PROVE  IInv'
<1>1. /\ On /\ acts' = acts + 1
      /\ \/ /\ od' = [od EXCEPT !.iconconnecting = TRUE, !.set_icon = TRUE]
            /\ faim' = aim_reqservice(faim, "icon")
         \/ od' = od /\ faim' = Bart(faim, "upload")
      /\ UNCHANGED <<watches, dials, inbox, served, status, fails, lost>>
  BY DEF oscar_icon_req, Act
<1>2. /\ faim \in Sessions /\ od \in Data /\ TypesInv
      /\ Live(faim, dials, watches, od.slot, od.chats)
  BY <1>1, WhileOn
<1>3. "upload" \in Whats \ {"cookie"} /\ "icon" \in Types
  BY OtherWhats DEF Types
<1>4. faim' \in Sessions /\ Live(faim', dials, watches, od.slot, od.chats)
  <2> DEFINE what == "upload"
  <2>1. faim' = aim_reqservice(faim, "icon") \/ faim' = Bart(faim, what)
    BY <1>1
  <2>2. what \in Whats \ {"cookie"}
    BY <1>3
  <2> HIDE DEF what
  <2> QED
    BY <1>2, <1>3, <2>1, <2>2, ReqserviceKeeps, BartKeeps
<1>5. /\ od' \in Data /\ od'.slot = od.slot /\ od'.chats = od.chats
      /\ od'.requesticon = od.requesticon /\ od'.create_rooms = od.create_rooms
  BY <1>1, <1>2 DEF Data
<1>6. acts' \in Nat /\ od'.create_rooms <= acts'
  BY <1>1, <1>2, <1>5, DataFields DEF TypesInv
<1>7. TypesInv'
  BY <1>1, <1>2, <1>4, <1>5, <1>6 DEF TypesInv
<1>8. Live(faim', dials', watches', od'.slot, od'.chats)
  BY <1>1, <1>4, <1>5
<1> QED
  BY <1>1, <1>7, <1>8, StillOn

(* The icon timer. *)
LEMMA IconTimerStep ==
  ASSUME IInv, gaim_icon_timerfunc
  PROVE  IInv'
<1> DEFINE f == IF od.set_icon THEN Bart(faim, "upload") ELSE faim
           g == IF od.requesticon = <<>> THEN f ELSE Bart(f, Head(od.requesticon))
<1>1. /\ On
      /\ \/ /\ faim' = IF od.iconconnecting THEN faim ELSE aim_reqservice(faim, "icon")
            /\ od' = [od EXCEPT !.icontimer = FALSE, !.iconconnecting = TRUE]
         \/ faim' = g /\ od' = [od EXCEPT !.icontimer = FALSE, !.set_icon = FALSE]
      /\ UNCHANGED <<watches, dials, inbox, served, status, acts, fails, lost>>
  BY DEF gaim_icon_timerfunc
<1>2. /\ faim \in Sessions /\ od \in Data /\ TypesInv
      /\ Live(faim, dials, watches, od.slot, od.chats)
  BY <1>1, WhileOn
<1>3. f \in Sessions /\ Live(f, dials, watches, od.slot, od.chats)
  <2> DEFINE what == "upload"
  <2>1. f = faim \/ f = Bart(faim, what)
    OBVIOUS
  <2>2. what \in Whats \ {"cookie"}
    BY OtherWhats
  <2> HIDE DEF what, f
  <2> QED
    BY <1>2, <2>1, <2>2, BartKeeps
<1> HIDE DEF f
<1>4. g \in Sessions /\ Live(g, dials, watches, od.slot, od.chats)
  <2> DEFINE b == Head(od.requesticon)
  <2>1. od.requesticon # <<>> => b \in Whats \ {"cookie"}
    BY <1>2, OtherWhats, DataFields
  <2>2. CASE od.requesticon = <<>>
    BY <2>2, <1>3
  <2>3. CASE od.requesticon # <<>>
    <3> HIDE DEF b
    <3>1. Bart(f, b) \in Sessions /\ Live(Bart(f, b), dials, watches, od.slot, od.chats)
      BY <1>3, <2>1, <2>3, BartKeeps
    <3> QED
      BY <3>1, <2>3 DEF b
  <2> QED
    BY <2>2, <2>3
<1> HIDE DEF g
<1>5. faim' \in Sessions /\ Live(faim', dials, watches, od.slot, od.chats)
  <2>1. "icon" \in Types
    BY DEF Types
  <2> QED
    BY <1>1, <1>2, <1>4, <2>1, ReqserviceKeeps
<1>6. /\ od' \in Data /\ od'.slot = od.slot /\ od'.chats = od.chats
      /\ od'.requesticon = od.requesticon /\ od'.create_rooms = od.create_rooms
  BY <1>1, <1>2 DEF Data
<1>7. TypesInv'
  BY <1>1, <1>2, <1>5, <1>6 DEF TypesInv
<1>8. Live(faim', dials', watches', od'.slot, od'.chats)
  BY <1>1, <1>5, <1>6
<1> QED
  BY <1>1, <1>7, <1>8, StillOn

-----------------------------------------------------------------------------
(* Every redirect and every end of a connect keeps it.                     *)

(* A redirect. *)
LEMMA RedirectStep ==
  ASSUME IInv, NEW t \in Types, NEW started \in BOOLEAN, gaim_handle_redirect(t, started)
  PROVE  IInv'
<1> DEFINE f == NewSession(faim, t)
           id == Len(faim.types) + 1
           D2 == dials \cup {[sock |-> id, type |-> t]}
<1>a. On
  BY DEF gaim_handle_redirect
<1>1. /\ faim \in Sessions /\ od \in Data /\ watches \subseteq Inputs /\ dials \subseteq Connects
      /\ TypesInv /\ Live(faim, dials, watches, od.slot, od.chats)
  BY <1>a, WhileOn
<1>2. Len(f.types) = id
  <2>1. f.types = Append(faim.types, t) /\ faim.types \in Seq(Types)
    BY <1>1 DEF NewSession, aim_newconn, Sessions
  <2> QED
    BY <2>1
<1>3. /\ faim.asked[t] > 0 /\ id \in Socks
      /\ \/ /\ faim' = aim_tx_enqueue(f, id, <<"cookie">>)
            /\ dials' = D2 /\ lost' = lost
         \/ /\ faim' = aim_conn_kill(f, id)
            /\ lost' = lost \cup {t} /\ dials' = dials
      /\ UNCHANGED <<od, watches, inbox, served, status, acts>>
  BY <1>2 DEF gaim_handle_redirect, NewSession
<1>4. /\ faim' \in Sessions /\ dials' \subseteq Connects /\ lost' \subseteq Types
      /\ Live(faim', dials', watches, od.slot, od.chats)
  <2>1. CASE /\ faim' = aim_tx_enqueue(f, id, <<"cookie">>)
             /\ dials' = D2 /\ lost' = lost
    <3>1. D2 \subseteq Connects
      BY <1>1, <1>3 DEF Connects
    <3>2. /\ aim_tx_enqueue(f, id, <<"cookie">>) \in Sessions
          /\ Live(aim_tx_enqueue(f, id, <<"cookie">>), D2, watches, od.slot, od.chats)
      BY <1>1, <1>3, StartedKeeps
    <3> QED
      BY <2>1, <3>1, <3>2, <1>1 DEF TypesInv
  <2>2. CASE /\ faim' = aim_conn_kill(f, id)
             /\ lost' = lost \cup {t} /\ dials' = dials
    <3>1. /\ aim_conn_kill(f, id) \in Sessions
          /\ Live(aim_conn_kill(f, id), dials, watches, od.slot, od.chats)
      BY <1>1, <1>3, NotStartedKeeps
    <3> QED
      BY <2>2, <3>1, <1>1 DEF TypesInv
  <2> QED
    BY <2>1, <2>2, <1>3
<1>5. TypesInv'
  BY <1>1, <1>3, <1>4 DEF TypesInv
<1>6. Live(faim', dials', watches', od'.slot, od'.chats)
  BY <1>3, <1>4
<1> QED
  BY <1>a, <1>3, <1>5, <1>6, StillOn

(* A connect that succeeds. *)
LEMMA ConnectedStep ==
  ASSUME IInv, NEW d \in dials, Connected(d)
  PROVE  IInv'
<1> DEFINE id == TakenFrom(faim, d)
           W2 == watches \cup {[sock |-> d.sock, conn |-> id, type |-> d.type]}
           slot2 == SlotsAfter(od.slot, d)
           chats2 == RoomsAfter(od.chats, d, id)
<1>1. /\ On
      /\ faim' = aim_conn_completeconnect([faim EXCEPT !.connlist[id].fd = d.sock], id)
      /\ watches' = W2
      /\ od' = IF d.type = "chat"
               THEN [od EXCEPT !.chats = @ \cup {[conn |-> id, inpa |-> d.sock, joined |-> FALSE]}]
               ELSE [od EXCEPT !.slot[d.type] = d.sock]
      /\ dials' = dials \ {d}
      /\ UNCHANGED <<inbox, served, status, acts, fails, lost>>
  BY DEF Connected, Taken, TakenFrom
<1>2. /\ faim \in Sessions /\ od \in Data /\ watches \subseteq Inputs /\ dials \subseteq Connects
      /\ TypesInv /\ Live(faim, dials, watches, od.slot, od.chats)
  BY <1>1, WhileOn
<1>3. /\ Known(faim, id) /\ Conn(faim, id).type = d.type
      /\ d.type \notin faim.doubled => id = d.sock /\ Conn(faim, id).inprogress
  BY <1>2, TakenIs
<1>4. d.sock \in Socks /\ d.type \in Types /\ id \in Socks
  BY <1>2, <1>3, SessionFields DEF Connects, Known
<1>5. TypeAt(faim, d.sock) = Conn(faim, id).type
  BY <1>2, <1>3 DEF Live, Placed
<1>6. faim' \in Sessions /\ Completed(faim, faim', id, d.sock)
  BY <1>1, <1>2, <1>3, <1>4, <1>5, CompleteIs
<1>7. Live(faim', dials \ {d}, W2, slot2, chats2)
  <2>1. od.slot \in [Slots -> 0 .. MaxConns]
    BY <1>2, DataFields
  <2> DEFINE g == faim'
  <2>2. Completed(faim, g, id, d.sock)
    BY <1>6
  <2> HIDE DEF g
  <2>3. Live(g, dials \ {d}, W2, slot2, chats2)
    BY <1>2, <2>1, <2>2, CompleteKeeps
  <2> QED
    BY <2>3 DEF g
<1>8. W2 \subseteq Inputs
  BY <1>2, <1>4 DEF Inputs
<1>9. /\ od' \in Data /\ od'.slot = slot2 /\ od'.chats = chats2
      /\ od'.requesticon = od.requesticon /\ od'.create_rooms = od.create_rooms
  <2>0. od.slot \in [Slots -> 0 .. MaxConns] /\ od.chats \subseteq Rooms
    BY <1>2, DataFields
  <2>1. CASE d.type = "chat"
    <3> DEFINE r == [conn |-> id, inpa |-> d.sock, joined |-> FALSE]
               cs == od.chats \cup {r}
    <3>1. r \in Rooms
      BY <1>4 DEF Rooms, Socks
    <3>2. cs \in SUBSET Rooms
      BY <2>0, <3>1
    <3>3. slot2 = od.slot /\ chats2 = cs
      BY <2>1 DEF SlotsAfter, RoomsAfter
    <3>4. od' = [od EXCEPT !.chats = cs]
      BY <1>1, <2>1
    <3> HIDE DEF cs, slot2, chats2
    <3> QED
      BY <1>2, <3>2, <3>3, <3>4 DEF Data
  <2>2. CASE d.type # "chat"
    <3> DEFINE sl == [od.slot EXCEPT ![d.type] = d.sock]
    <3>1. d.sock \in 0 .. MaxConns
      BY <1>4 DEF Socks
    <3>2. sl \in [Slots -> 0 .. MaxConns]
      BY <2>0, <3>1
    <3>3. slot2 = sl /\ chats2 = od.chats
      BY <2>2 DEF SlotsAfter, RoomsAfter
    <3>4. od' = [od EXCEPT !.slot = sl]
      BY <1>1, <1>2, <2>2 DEF Data
    <3> HIDE DEF sl, slot2, chats2
    <3> QED
      BY <1>2, <3>2, <3>3, <3>4 DEF Data
  <2> QED
    BY <2>1, <2>2
<1> HIDE DEF W2, slot2, chats2
<1>10. TypesInv'
  BY <1>1, <1>2, <1>6, <1>8, <1>9 DEF TypesInv
<1>11. Live(faim', dials', watches', od'.slot, od'.chats)
  BY <1>1, <1>7, <1>9
<1> QED
  BY <1>1, <1>10, <1>11, StillOn

(* A connect that fails. *)
LEMMA ConnectFailedStep ==
  ASSUME IInv, NEW d \in dials, ConnectFailed(d)
  PROVE  IInv'
<1> DEFINE id == TakenFrom(faim, d)
<1>1. /\ On
      /\ faim' = aim_conn_kill([faim EXCEPT !.connlist[id].fd = 0], id)
      /\ lost' = lost \cup {d.type}
      /\ dials' = dials \ {d}
      /\ UNCHANGED <<od, watches, inbox, served, status, acts>>
  BY DEF ConnectFailed, Taken, TakenFrom
<1>2. /\ faim \in Sessions /\ od \in Data /\ watches \subseteq Inputs /\ dials \subseteq Connects
      /\ TypesInv /\ Live(faim, dials, watches, od.slot, od.chats)
  BY <1>1, WhileOn
<1>3. faim' \in Sessions /\ Live(faim', dials \ {d}, watches, od.slot, od.chats)
  BY <1>1, <1>2, FailKeeps
<1>4. d.type \in Types
  BY <1>2 DEF Connects
<1>5. TypesInv'
  BY <1>1, <1>2, <1>3, <1>4 DEF TypesInv
<1>6. Live(faim', dials', watches', od'.slot, od'.chats)
  BY <1>1, <1>3
<1> QED
  BY <1>1, <1>5, <1>6, StillOn

(* A connect that ends after signing off. *)
LEMMA ConnectTooLateStep ==
  ASSUME IInv, NEW d \in dials, ConnectTooLate(d)
  PROVE  IInv'
<1> DEFINE cl == faim.closed \cup {d.sock}
<1>1. /\ status = "off" /\ dials' = dials \ {d}
      /\ faim' = faim \/ faim' = [faim EXCEPT !.closed = cl]
      /\ UNCHANGED <<od, watches, inbox, served, status, acts, fails, lost>>
  BY DEF ConnectTooLate
<1>2. TypesInv /\ AtEnd
  BY <1>1 DEF IInv
<1>3. cl \subseteq Socks
  BY <1>2 DEF TypesInv, Sessions, Connects
<1> HIDE DEF cl
<1>4. /\ faim' \in Sessions /\ faim'.connlist = faim.connlist /\ faim'.queue = faim.queue
      /\ faim'.wire = faim.wire /\ faim'.doubled = faim.doubled
  BY <1>1, <1>2, <1>3 DEF TypesInv, Sessions
<1>5. TypesInv'
  BY <1>1, <1>2, <1>4 DEF TypesInv
<1>6. AtEnd'
  BY <1>1, <1>2, <1>4 DEF AtEnd
<1> QED
  BY <1>1, <1>5, <1>6 DEF IInv

-----------------------------------------------------------------------------
(* Every callback keeps it.                                                *)

(* What is to be shown of a handler. *)
Handled ==
  /\ faim' \in Sessions /\ od' \in Data /\ IsInjective(od'.requesticon)
  /\ od'.create_rooms <= acts
  /\ Live(faim', dials, watches, od'.slot, od'.chats)

(* Frames sent, and data changed that has no part in Live. *)
LEMMA SentHandled ==
  ASSUME TypesInv, Live(faim, dials, watches, od.slot, od.chats), NEW id, Known(faim, id),
         NEW whats \in Seq(Whats \ {"cookie"}), faim' = aim_tx_enqueue(faim, id, whats),
         od' \in Data, od'.slot = od.slot, od'.chats = od.chats,
         od'.requesticon = od.requesticon, od'.create_rooms <= acts
  PROVE  Handled
<1>1. faim \in Sessions /\ IsInjective(od.requesticon)
  BY DEF TypesInv
<1>2. faim' \in Sessions /\ Live(faim', dials, watches, od.slot, od.chats)
  BY <1>1, EnqueueKeeps
<1> QED
  BY <1>1, <1>2 DEF Handled

(* hostonline *)
LEMMA HostonlineHandled ==
  ASSUME TypesInv, Live(faim, dials, watches, od.slot, od.chats), NEW id, Known(faim, id),
         hostonline(id)
  PROVE  Handled
<1> DEFINE G == {Conn(faim, id).type}
           f == [faim EXCEPT !.connlist[id].groups = G]
           whats == <<"versions">>
<1>1. faim \in Sessions /\ G \in SUBSET Types
  BY SessionFields, ConnFields DEF TypesInv, Known
<1>2. faim' = aim_tx_enqueue(f, id, whats) /\ od' = od
  BY DEF hostonline
<1>3. whats \in Seq(Whats \ {"cookie"})
  <2> DEFINE what == "versions"
  <2>1. what \in Whats \ {"cookie"}
    BY OtherWhats
  <2> HIDE DEF what
  <2>2. <<what>> \in Seq(Whats \ {"cookie"})
    BY <2>1
  <2> QED
    BY <2>2 DEF what
<1> HIDE DEF G, whats
<1>4. f \in Sessions /\ Known(f, id) /\ Live(f, dials, watches, od.slot, od.chats)
  BY <1>1, GroupsKeep
<1> HIDE DEF f
<1>5. faim' \in Sessions /\ Live(faim', dials, watches, od.slot, od.chats)
  BY <1>2, <1>3, <1>4, EnqueueKeeps
<1> QED
  BY <1>2, <1>5 DEF Handled, TypesInv

(* conninitdone_admin, with the account requests that wait. *)
LEMMA AdminHandled ==
  ASSUME TypesInv, Live(faim, dials, watches, od.slot, od.chats), NEW id, Known(faim, id),
         conninitdone_admin(id)
  PROVE  Handled
<1> DEFINE q == Only(Wishes, od.wishes)
           ready == <<"clientready">>
           whats == ready \o q
<1>1. faim' = aim_tx_enqueue(faim, id, whats) /\ od' = [od EXCEPT !.wishes = {}]
  BY DEF conninitdone_admin
<1>2. ready \in Seq(Whats \ {"cookie"})
  <2> DEFINE what == "clientready"
  <2>1. what \in Whats \ {"cookie"}
    BY OtherWhats
  <2> HIDE DEF what
  <2>2. <<what>> \in Seq(Whats \ {"cookie"})
    BY <2>1
  <2> QED
    BY <2>2 DEF what
<1>3. q \in Seq(Whats \ {"cookie"})
  <2>1. q \in Seq(ToSet(Wishes) \cap od.wishes)
    BY NamesAssumption, OnlyType
  <2>2. ToSet(Wishes) \cap od.wishes \subseteq Whats \ {"cookie"}
    BY OtherWhats
  <2> HIDE DEF q
  <2> QED
    BY <2>1, <2>2
<1> HIDE DEF q, ready
<1>4. whats \in Seq(Whats \ {"cookie"})
  BY <1>2, <1>3
<1> HIDE DEF whats
<1>5. /\ od' \in Data /\ od'.slot = od.slot /\ od'.chats = od.chats
      /\ od'.requesticon = od.requesticon /\ od'.create_rooms = od.create_rooms
  <2>1. od \in Data /\ {} \in SUBSET ToSet(Wishes)
    BY DEF TypesInv
  <2> QED
    BY <1>1, <2>1 DEF Data
<1>6. od'.create_rooms <= acts
  BY <1>5 DEF TypesInv
<1> QED
  BY <1>1, <1>4, <1>5, <1>6, SentHandled

(* conninitdone_chatnav and conninitdone_email *)
LEMMA ChatnavEmailHandled ==
  ASSUME TypesInv, Live(faim, dials, watches, od.slot, od.chats), NEW id, Known(faim, id),
         conninitdone_chatnav(id) \/ conninitdone_email(id)
  PROVE  Handled
<1>1. od' = od
  BY DEF conninitdone_chatnav, conninitdone_email
<1>2. /\ od' \in Data /\ od'.slot = od.slot /\ od'.chats = od.chats
      /\ od'.requesticon = od.requesticon /\ od'.create_rooms <= acts
  BY <1>1 DEF TypesInv
<1>3. CASE conninitdone_chatnav(id)
  <2> DEFINE a == "clientready"
             b == "reqrights"
             whats == <<a, b>>
  <2>1. a \in Whats \ {"cookie"} /\ b \in Whats \ {"cookie"}
    BY OtherWhats
  <2>2. faim' = aim_tx_enqueue(faim, id, whats)
    BY <1>3 DEF conninitdone_chatnav
  <2> HIDE DEF a, b
  <2>3. whats \in Seq(Whats \ {"cookie"})
    BY <2>1
  <2> HIDE DEF whats
  <2> QED
    BY <1>2, <2>2, <2>3, SentHandled
<1>4. CASE conninitdone_email(id)
  <2> DEFINE a == "cookies"
             b == "activate"
             c == "clientready"
             whats == <<a, b, c>>
  <2>1. a \in Whats \ {"cookie"} /\ b \in Whats \ {"cookie"} /\ c \in Whats \ {"cookie"}
    BY OtherWhats
  <2>2. faim' = aim_tx_enqueue(faim, id, whats)
    BY <1>4 DEF conninitdone_email
  <2> HIDE DEF a, b, c
  <2>3. whats \in Seq(Whats \ {"cookie"})
    BY <2>1
  <2> HIDE DEF whats
  <2> QED
    BY <1>2, <2>2, <2>3, SentHandled
<1> QED
  BY <1>3, <1>4

(* conninitdone_icon and conninitdone_chat *)
LEMMA IconChatHandled ==
  ASSUME TypesInv, Live(faim, dials, watches, od.slot, od.chats), NEW id, Known(faim, id),
         conninitdone_icon(id) \/ conninitdone_chat(id)
  PROVE  Handled
<1> DEFINE whats == <<"clientready">>
<1>1. faim' = aim_tx_enqueue(faim, id, whats)
  BY DEF conninitdone_icon, conninitdone_chat
<1>2. whats \in Seq(Whats \ {"cookie"})
  <2> DEFINE what == "clientready"
  <2>1. what \in Whats \ {"cookie"}
    BY OtherWhats
  <2> HIDE DEF what
  <2>2. <<what>> \in Seq(Whats \ {"cookie"})
    BY <2>1
  <2> QED
    BY <2>2 DEF what
<1> HIDE DEF whats
<1>3. faim \in Sessions /\ od \in Data /\ IsInjective(od.requesticon) /\ od.create_rooms <= acts
  BY DEF TypesInv
<1>4. CASE conninitdone_icon(id)
  <2>1. /\ od' \in Data /\ od'.slot = od.slot /\ od'.chats = od.chats
        /\ od'.requesticon = od.requesticon /\ od'.create_rooms = od.create_rooms
    BY <1>3, <1>4 DEF conninitdone_icon, Data
  <2>2. od'.create_rooms <= acts
    BY <2>1, <1>3
  <2> QED
    BY <1>1, <1>2, <2>1, <2>2, SentHandled
<1>5. CASE conninitdone_chat(id)
  <2> DEFINE chats2 == RoomsJoined(od.chats, id)
  <2>1. od' = [od EXCEPT !.chats = chats2]
    BY <1>5, <1>3 DEF conninitdone_chat, RoomsJoined
  <2>2. faim' \in Sessions /\ Live(faim', dials, watches, od.slot, od.chats)
    BY <1>1, <1>2, <1>3, EnqueueKeeps
  <2>3. od.chats \subseteq Rooms
    BY <1>3, DataFields
  <2> DEFINE g == faim'
  <2>4. g \in Sessions /\ Live(g, dials, watches, od.slot, od.chats)
    BY <2>2
  <2> HIDE DEF g
  <2>5. chats2 \subseteq Rooms /\ Live(g, dials, watches, od.slot, chats2)
    BY <2>3, <2>4, JoinKeeps
  <2>6. chats2 \subseteq Rooms /\ Live(faim', dials, watches, od.slot, chats2)
    BY <2>5 DEF g
  <2> HIDE DEF chats2
  <2>7. /\ od' \in Data /\ od'.slot = od.slot /\ od'.chats = chats2
        /\ od'.requesticon = od.requesticon /\ od'.create_rooms = od.create_rooms
    BY <1>3, <2>1, <2>6 DEF Data
  <2> QED
    BY <1>3, <2>2, <2>6, <2>7 DEF Handled
<1> QED
  BY <1>4, <1>5

(* gaim_chatnav_info *)
LEMMA ChatnavInfoHandled ==
  ASSUME TypesInv, Live(faim, dials, watches, od.slot, od.chats), NEW id, Known(faim, id),
         NEW msg, gaim_chatnav_info(id, msg)
  PROVE  Handled
<1>1. /\ faim \in Sessions /\ od \in Data /\ IsInjective(od.requesticon)
      /\ od.create_rooms <= acts /\ acts \in Nat
  BY DEF TypesInv
<1>2. CASE faim' = aim_reqservice(faim, "chat") /\ od' = od
  <2>1. "chat" \in Types
    BY DEF Types
  <2>2. faim' \in Sessions /\ Live(faim', dials, watches, od.slot, od.chats)
    BY <1>1, <1>2, <2>1, ReqserviceKeeps
  <2> QED
    BY <1>1, <1>2, <2>2 DEF Handled
<1>3. CASE /\ faim' = aim_tx_enqueue(faim, id, [i \in 1 .. od.create_rooms |-> "createroom"])
           /\ od' = [od EXCEPT !.create_rooms = 0]
  <2> DEFINE n == od.create_rooms
             what == "createroom"
             whats == [i \in 1 .. n |-> what]
  <2>1. n \in Nat /\ 0 \in 0 .. MaxActs
    BY <1>1, BoundsAssumption, DataFields
  <2>2. what \in Whats \ {"cookie"}
    BY OtherWhats
  <2>3. faim' = aim_tx_enqueue(faim, id, whats)
    BY <1>3
  <2> HIDE DEF what, n
  <2>4. whats \in Seq(Whats \ {"cookie"})
    BY <2>1, <2>2
  <2> HIDE DEF whats
  <2>5. /\ od' \in Data /\ od'.slot = od.slot /\ od'.chats = od.chats
        /\ od'.requesticon = od.requesticon /\ od'.create_rooms = 0
    BY <1>1, <1>3, <2>1 DEF Data
  <2>6. od'.create_rooms <= acts
    BY <1>1, <2>5
  <2> QED
    BY <2>3, <2>4, <2>5, <2>6, SentHandled
<1> QED
  BY <1>2, <1>3 DEF gaim_chatnav_info

(* gaim_icon_parseicon and gaim_icon_error *)
LEMMA IconHandled ==
  ASSUME TypesInv, Live(faim, dials, watches, od.slot, od.chats), NEW b,
         gaim_icon_parseicon(b) \/ (od.requesticon # <<>> /\ gaim_icon_error)
  PROVE  Handled
<1>1. /\ faim \in Sessions /\ od \in Data /\ IsInjective(od.requesticon)
      /\ od.requesticon \in Seq(Buddies) /\ od.create_rooms <= acts
  BY DataFields DEF TypesInv
<1>2. PICK q \in Seq(Buddies) :
        IsInjective(q) /\ od' = [od EXCEPT !.requesticon = q, !.icontimer = TRUE]
  <2>1. CASE gaim_icon_parseicon(b)
    <3> DEFINE q == Only(od.requesticon, Buddies \ {b})
    <3>1. q \in Seq(Buddies \cap (Buddies \ {b})) /\ IsInjective(q)
      BY <1>1, OnlyType
    <3>2. od' = [od EXCEPT !.requesticon = q, !.icontimer = TRUE]
      BY <2>1 DEF gaim_icon_parseicon
    <3> HIDE DEF q
    <3>3. q \in Seq(Buddies)
      BY <3>1
    <3> QED
      BY <3>1, <3>2, <3>3
  <2>2. CASE od.requesticon # <<>> /\ gaim_icon_error
    <3> DEFINE q == Tail(od.requesticon)
    <3>1. q \in Seq(Buddies) /\ IsInjective(q)
      BY <1>1, <2>2, NoneTwice
    <3>2. od' = [od EXCEPT !.requesticon = q, !.icontimer = TRUE]
      BY <2>2 DEF gaim_icon_error
    <3> HIDE DEF q
    <3> QED
      BY <3>1, <3>2
  <2> QED
    BY <2>1, <2>2
<1>3. /\ od' \in Data /\ od'.slot = od.slot /\ od'.chats = od.chats
      /\ od'.requesticon = q /\ od'.create_rooms = od.create_rooms
  BY <1>1, <1>2 DEF Data
<1>4. faim' = faim
  BY DEF gaim_icon_parseicon, gaim_icon_error
<1> QED
  BY <1>1, <1>2, <1>3, <1>4 DEF Handled

(* Whatever has come on a connection. *)
LEMMA DispatchHandled ==
  ASSUME TypesInv, Live(faim, dials, watches, od.slot, od.chats), NEW id, Known(faim, id),
         NEW msg, Dispatch(id, msg)
  PROVE  Handled
<1>1. CASE hostonline(id)
  BY <1>1, HostonlineHandled
<1>2. CASE ConnInitDone(id)
  BY <1>2, AdminHandled, ChatnavEmailHandled, IconChatHandled DEF ConnInitDone
<1>3. CASE gaim_chatnav_info(id, msg)
  BY <1>3, ChatnavInfoHandled
<1>i. ASSUME NEW b
      PROVE  gaim_icon_parseicon(b) \/ (od.requesticon # <<>> /\ gaim_icon_error) => Handled
  BY IconHandled
<1>4. CASE gaim_icon_parseicon(msg)
  BY <1>4, <1>i
<1>5. CASE od.requesticon # <<>> /\ gaim_icon_error
  BY <1>5, <1>i
<1> QED
  BY <1>1, <1>2, <1>3, <1>4, <1>5 DEF Dispatch

(* An input of the main loop. *)
LEMMA CallbackStep ==
  ASSUME IInv, NEW w \in watches, oscar_callback(w)
  PROVE  IInv'
<1> DEFINE id == w.conn
           t == Conn(faim, id).type
<1>1. /\ On /\ Known(faim, id)
      /\ \/ Disconnected(id)
         \/ Dispatch(id, Head(inbox[Conn(faim, id).fd])) /\ UNCHANGED <<watches, lost>>
      /\ inbox' = [inbox EXCEPT ![Conn(faim, id).fd] = Tail(@)]
      /\ UNCHANGED <<dials, served, status, acts, fails>>
  BY DEF oscar_callback
<1>2. /\ faim \in Sessions /\ od \in Data /\ watches \subseteq Inputs /\ TypesInv
      /\ Live(faim, dials, watches, od.slot, od.chats)
  BY <1>1, WhileOn
<1>3. DOMAIN inbox' = Socks
  BY <1>1, <1>2 DEF TypesInv
<1>4. CASE Disconnected(id)
  <2> DEFINE W2 == InputsWithout(watches, od.slot, od.chats, id, t)
             slot2 == SlotsWithout(od.slot, t)
             chats2 == RoomsWithout(od.chats, id, t)
  <2>1. t \in Types
    BY <1>1, <1>2, SessionFields, ConnFields DEF Known
  <2>2. od.slot \in [Slots -> 0 .. MaxConns] /\ od.chats \subseteq Rooms /\ 0 \in 0 .. MaxConns
        /\ od.create_rooms \in 0 .. MaxActs /\ 0 \in 0 .. MaxActs
    BY <1>2, BoundsAssumption, DataFields
  <2>3. faim' = aim_conn_kill(faim, id) /\ lost' = lost \cup {t} /\ watches' = W2
    BY <1>4 DEF Disconnected, InputsWithout
  <2>4. faim' \in Sessions /\ Live(faim', dials, W2, slot2, chats2)
    BY <1>1, <1>2, <2>2, <2>3, BreakKeeps
  <2>5. W2 \subseteq Inputs
    BY <1>2 DEF InputsWithout
  <2>6. /\ od' \in Data /\ od'.slot = slot2 /\ od'.chats = chats2
        /\ od'.requesticon = od.requesticon
        /\ od'.create_rooms \in {od.create_rooms, 0}
    <3>1. CASE t = "chat"
      <4>1. od' = [od EXCEPT !.chats = chats2] /\ slot2 = od.slot
        BY <1>4, <3>1, <1>2 DEF Disconnected, RoomsWithout, SlotsWithout, Data
      <4>2. chats2 \in SUBSET Rooms
        <5>1. \A n \in od.chats : n \in Rooms /\ [n EXCEPT !.conn = 0, !.inpa = 0] \in Rooms
          BY <2>2 DEF Rooms
        <5> QED
          BY <3>1, <5>1 DEF RoomsWithout
      <4> HIDE DEF chats2, slot2
      <4> QED
        BY <1>2, <4>1, <4>2 DEF Data
    <3>2. CASE t # "chat"
      <4> DEFINE n == IF t = "chatnav" THEN 0 ELSE od.create_rooms
                 sl == [od.slot EXCEPT ![t] = 0]
      <4>1. od' = [od EXCEPT !.slot = sl, !.create_rooms = n]
        BY <1>4, <3>2, <1>2 DEF Disconnected, Data
      <4>2. slot2 = sl /\ chats2 = od.chats
        BY <3>2 DEF SlotsWithout, RoomsWithout
      <4>3. sl \in [Slots -> 0 .. MaxConns]
        BY <2>2
      <4>4. n \in 0 .. MaxActs /\ (n = od.create_rooms \/ n = 0)
        BY <2>2
      <4> HIDE DEF n, sl, chats2, slot2
      <4> QED
        BY <1>2, <4>1, <4>2, <4>3, <4>4 DEF Data
    <3> QED
      BY <3>1, <3>2
  <2> HIDE DEF W2, chats2, slot2
  <2>7. od'.create_rooms <= acts
    BY <1>2, <2>6 DEF TypesInv
  <2>8. TypesInv'
    BY <1>1, <1>2, <1>3, <2>1, <2>3, <2>4, <2>5, <2>6, <2>7 DEF TypesInv
  <2>9. Live(faim', dials', watches', od'.slot, od'.chats)
    BY <1>1, <2>3, <2>4, <2>6
  <2> QED
    BY <1>1, <2>8, <2>9, StillOn
<1>5. CASE Dispatch(id, Head(inbox[Conn(faim, id).fd])) /\ UNCHANGED <<watches, lost>>
  <2>1. Handled
    BY <1>1, <1>2, <1>5, DispatchHandled
  <2>2. TypesInv'
    BY <1>1, <1>2, <1>3, <1>5, <2>1 DEF TypesInv, Handled
  <2>3. Live(faim', dials', watches', od'.slot, od'.chats)
    BY <1>1, <1>5, <2>1 DEF Handled
  <2> QED
    BY <1>1, <2>2, <2>3, StillOn
<1> QED
  BY <1>1, <1>4, <1>5

(* An input that ends the program. *)
LEMMA CallbackFailsStep ==
  ASSUME IInv, NEW w \in watches, CallbackFails(w)
  PROVE  IInv'
<1>1. /\ On /\ status' \in {"freed", "hung"}
      /\ UNCHANGED <<faim, od, watches, dials, inbox, served, acts, fails, lost>>
  BY DEF CallbackFails
<1>2. TypesInv /\ Live(faim, dials, watches, od.slot, od.chats)
  BY <1>1, WhileOn
<1>3. TypesInv'
  BY <1>1, <1>2 DEF TypesInv
<1>4. Live(faim', dials', watches', od'.slot, od'.chats)
  BY <1>1, <1>2
<1> QED
  BY <1>1, <1>3, <1>4 DEF IInv

-----------------------------------------------------------------------------
(* Signing off and the servers.                                            *)

(* Signing off. *)
LEMMA CloseStep ==
  ASSUME IInv, oscar_close
  PROVE  IInv'
<1>1. /\ On /\ status' = "off"
      /\ watches' = {w \in watches : /\ \A t \in Slots : w.sock # od.slot[t]
                                     /\ \A n \in od.chats : w.sock # n.inpa}
      /\ faim' = aim_connrst(faim)
      /\ od' = NewOd
      /\ inbox' = NoMail /\ served' = NoneServed
      /\ UNCHANGED <<dials, acts, fails, lost>>
  BY DEF oscar_close
<1>2. /\ faim \in Sessions /\ watches \subseteq Inputs /\ TypesInv
      /\ Live(faim, dials, watches, od.slot, od.chats)
  BY <1>1, WhileOn
<1>3. /\ faim' \in Sessions /\ DOMAIN faim'.connlist = {} /\ faim'.queue = NoFrames
      /\ faim'.wire = NoFrames /\ faim'.doubled = faim.doubled
  BY <1>1, <1>2, ResetIs
<1>4. od' \in Data /\ IsInjective(od'.requesticon) /\ od'.create_rooms = 0
  BY <1>1, NewOdType
<1>5. DOMAIN inbox' = Socks /\ served' \in [Socks -> Nat \cup {Dead}]
  BY <1>1 DEF NoMail, NoneServed
<1>6. watches' \subseteq watches
  BY <1>1
<1>7. ASSUME NEW w \in watches'
      PROVE  w.type \in faim'.doubled
  <2>1. /\ w \in watches /\ w.type \in Types
        /\ \A t \in Slots : w.sock # od.slot[t]
        /\ \A n \in od.chats : w.sock # n.inpa
    BY <1>1, <1>2, <1>7 DEF Inputs
  <2> QED
    BY <1>2, <1>3, <2>1, Registered
<1>8. TypesInv'
  BY <1>1, <1>2, <1>3, <1>4, <1>5, <1>6 DEF TypesInv
<1>9. AtEnd'
  BY <1>3, <1>7 DEF AtEnd
<1> QED
  BY <1>1, <1>8, <1>9 DEF IInv

(* A step of a server touches neither the session nor the plugin. *)
LEMMA ServersApart ==
  ASSUME IInv, NEW s \in Socks, ServerCloses(s) \/ \E icon \in BOOLEAN : Server(s, icon)
  PROVE  /\ On /\ UNCHANGED <<faim, od, watches, dials, status, acts, lost>>
         /\ served' \in [Socks -> Nat \cup {Dead}] /\ DOMAIN inbox' = Socks
<1>1. served \in [Socks -> Nat \cup {Dead}] /\ DOMAIN inbox = Socks /\ faim \in Sessions
  BY DEF IInv, TypesInv
<1>2. CASE ServerCloses(s)
  <2>1. Dead \in Nat \cup {Dead}
    OBVIOUS
  <2> QED
    BY <1>1, <1>2, <2>1 DEF ServerCloses
<1>3. ASSUME NEW icon \in BOOLEAN, Server(s, icon)
      PROVE  /\ On /\ UNCHANGED <<faim, od, watches, dials, status, acts, lost>>
             /\ served' \in [Socks -> Nat \cup {Dead}] /\ DOMAIN inbox' = Socks
  <2> DEFINE todo == served[s] + 1 .. Len(faim.wire[s])
             replies == FlattenSeq([k \in 1 .. Cardinality(todo) |-> Reply(s, served[s] + k, icon)])
             n == IF "eof" \in ToSet(replies) THEN Dead ELSE Len(faim.wire[s])
             m == inbox[s] \o replies
  <2>1. /\ On /\ UNCHANGED <<faim, od, watches, dials, status, acts, lost>>
        /\ inbox' = [inbox EXCEPT ![s] = m] /\ served' = [served EXCEPT ![s] = n]
    BY <1>3 DEF Server
  <2>2. n \in Nat \cup {Dead}
    <3>1. faim.wire[s] \in Seq(Frames)
      BY <1>1, SessionFields DEF Queues
    <3> HIDE DEF replies
    <3> QED
      BY <3>1
  <2> HIDE DEF n, m
  <2> QED
    BY <1>1, <2>1, <2>2
<1> QED
  BY <1>2, <1>3

(* So it keeps the inductive invariant. *)
LEMMA ServerStep ==
  ASSUME IInv, NEW s \in Socks, ServerCloses(s) \/ \E icon \in BOOLEAN : Server(s, icon)
  PROVE  IInv'
<1>1. /\ On /\ UNCHANGED <<faim, od, watches, dials, status, acts, lost>>
      /\ served' \in [Socks -> Nat \cup {Dead}] /\ DOMAIN inbox' = Socks
  BY ServersApart
<1>2. TypesInv /\ Live(faim, dials, watches, od.slot, od.chats)
  BY <1>1, WhileOn
<1>3. TypesInv'
  BY <1>1, <1>2 DEF TypesInv
<1>4. Live(faim', dials', watches', od'.slot, od'.chats)
  BY <1>1, <1>2
<1> QED
  BY <1>1, <1>3, <1>4, StillOn

-----------------------------------------------------------------------------
(* The theorems.                                                           *)

(* Every step keeps the inductive invariant. *)
LEMMA NextIInv == IInv /\ [Next]_vars => IInv'
<1> SUFFICES ASSUME IInv, [Next]_vars
             PROVE  IInv'
  OBVIOUS
<1>1. ASSUME NEW w \in ToSet(Wishes), AccountRequest(w)
      PROVE  IInv'
  BY <1>1, AccountRequestStep
<1>2. CASE oscar_join_chat
  BY <1>2, JoinChatStep
<1>3. ASSUME NEW c \in od.chats, oscar_chat_leave(c)
      PROVE  IInv'
  BY <1>3, LeaveChatStep
<1>4. ASSUME NEW b \in Buddies, gaim_parse_oncoming(b)
      PROVE  IInv'
  BY <1>4, OncomingStep
<1>5. CASE oscar_icon_req
  BY <1>5, IconReqStep
<1>6. CASE gaim_icon_timerfunc
  BY <1>6, IconTimerStep
<1>7. ASSUME NEW t \in Types, NEW started \in BOOLEAN, gaim_handle_redirect(t, started)
      PROVE  IInv'
  BY <1>7, RedirectStep
<1>8. ASSUME NEW d \in dials, Connected(d) \/ ConnectFailed(d) \/ ConnectTooLate(d)
      PROVE  IInv'
  BY <1>8, ConnectedStep, ConnectFailedStep, ConnectTooLateStep
<1>9. ASSUME NEW w \in watches, oscar_callback(w) \/ CallbackFails(w)
      PROVE  IInv'
  BY <1>9, CallbackStep, CallbackFailsStep
<1>10. CASE oscar_close
  BY <1>10, CloseStep
<1>11. ASSUME NEW s \in Socks, ServerCloses(s) \/ \E icon \in BOOLEAN : Server(s, icon)
       PROVE  IInv'
  BY <1>11, ServerStep
<1>12. CASE UNCHANGED vars
  BY <1>12 DEF vars, IInv, TypesInv, AtEnd
<1> QED
  BY <1>1, <1>2, <1>3, <1>4, <1>5, <1>6, <1>7, <1>8, <1>9, <1>10, <1>11, <1>12 DEF Next

(* So it always holds. *)
THEOREM ServicesInvariant == Spec => []IInv
<1> QED
  BY InitIInv, NextIInv, PTL DEF Spec

(* Every field holds a value of its type, and no icon is asked for twice.  *)
THEOREM ServicesTypeOK == Spec => []TypeOK
<1>1. IInv => TypeOK
  <2> SUFFICES ASSUME IInv
               PROVE  TypeOK
    OBVIOUS
  <2>1. TypesInv
    BY DEF IInv
  <2>2. /\ faim \in Sessions /\ od \in Data
        /\ DOMAIN faim.connlist \subseteq Socks
        /\ \A i \in DOMAIN faim.connlist : Conn(faim, i) \in Conns
    BY <2>1, SessionFields DEF TypesInv
  <2>3. /\ faim.queue \in [Socks -> Seq(Frames)] /\ faim.wire \in [Socks -> Seq(Frames)]
        /\ faim.closed \subseteq Socks
        /\ faim.types \in Seq(Types) /\ faim.asked \in [Types -> Nat] /\ faim.doubled \subseteq Slots
    BY <2>2, SessionFields DEF Queues
  <2>4. /\ od.wishes \subseteq ToSet(Wishes) /\ od.create_rooms \in 0 .. MaxActs
        /\ od.requesticon \in Seq(Buddies)
        /\ {od.iconconnecting, od.set_icon, od.icontimer} \subseteq BOOLEAN
        /\ od.slot \in [Slots -> 0 .. MaxConns] /\ od.chats \subseteq Rooms
    BY <2>2, DataFields
  <2> QED
    BY <2>1, <2>2, <2>3, <2>4 DEF TypesInv, TypeOK, Rooms, Inputs, Connects
<1> QED
  BY <1>1, ServicesInvariant, PTL

(* The main loop watches the socket of every established connection for    *)
(* that connection, and no input refers to a freed connection or to one    *)
(* that reads another socket, for every service that was never asked for   *)
(* twice at a time (gaim_input_add and gaim_input_remove).                 *)
THEOREM AlwaysWatchesLive == Spec => []WatchesLive
<1>1. IInv => WatchesLive
  <2> SUFFICES ASSUME IInv
               PROVE  WatchesLive
    OBVIOUS
  <2>1. CASE status = "off"
    <3>1. AtEnd
      BY <2>1 DEF IInv
    <3> QED
      BY <3>1 DEF AtEnd, WatchesLive, Clear
  <2>2. CASE status # "off"
    <3>1. faim \in Sessions /\ Live(faim, dials, watches, od.slot, od.chats)
      BY <2>2 DEF IInv, TypesInv
    <3>2. ASSUME NEW w \in watches, Clear(w.type)
          PROVE  Known(faim, w.conn) /\ Conn(faim, w.conn).fd = w.sock
      <4>1. Known(faim, w.conn) /\ w.sock = w.conn
        BY <3>1, <3>2 DEF Live, WatchesOK, Clear
      <4>2. Working(faim, watches, od.slot, od.chats, w.conn)
        BY <3>1, <3>2, <4>1, Watched DEF Clear
      <4> QED
        BY <4>1, <4>2 DEF Working
    <3>3. ASSUME NEW i \in DOMAIN faim.connlist, Clear(Conn(faim, i).type),
                 ~Conn(faim, i).inprogress
          PROVE  \E w \in watches : w.conn = i /\ w.sock = Conn(faim, i).fd
      <4>1. Working(faim, watches, od.slot, od.chats, i)
        BY <3>1, <3>3 DEF Live, ConnsOK, Pending, Clear
      <4> QED
        BY <4>1 DEF Working
    <3> QED
      BY <3>2, <3>3 DEF WatchesLive
  <2> QED
    BY <2>1, <2>2
<1> QED
  BY <1>1, ServicesInvariant, PTL

(* Every server gets the cookie of the redirect first, and then the frames *)
(* of its own connection in order, of such a service (aim_tx_enqueue,      *)
(* aim_conn_completeconnect).                                              *)
THEOREM AlwaysOwnCookieFirst == Spec => []OwnCookieFirst
<1>1. IInv => OwnCookieFirst
  <2> SUFFICES ASSUME IInv, NEW s \in Socks, NEW i \in DOMAIN faim.wire[s], Clear(TypeOf(s))
               PROVE  LET fr == faim.wire[s][i]
                      IN  fr.conn = s /\ fr.seqnum = i /\ (i = 1) = (fr.what = "cookie")
    BY DEF OwnCookieFirst
  <2>1. faim \in Sessions
    BY DEF IInv, TypesInv
  <2>2. TypeAt(faim, s) = TypeOf(s)
    <3>1. faim.types \in Seq(Types) /\ s \in Nat /\ s >= 1
      BY <2>1, SessionFields DEF Socks
    <3> QED
      BY <3>1 DEF TypeAt, TypeOf
  <2>3. CASE status = "off"
    <3>1. DOMAIN faim.wire[s] = {}
      BY <2>3 DEF IInv, AtEnd, NoFrames
    <3> QED
      BY <3>1
  <2>4. CASE status # "off"
    <3>1. WiresOK(faim)
      BY <2>4 DEF IInv, Live
    <3>2. Numbers(faim.wire[s], s)
      BY <2>2, <3>1 DEF WiresOK, Clear
    <3> QED
      BY <3>2 DEF Numbers
  <2> QED
    BY <2>3, <2>4
<1> QED
  BY <1>1, ServicesInvariant, PTL

(* The callback of a connect finds a connection that is in the list, of    *)
(* whatever service, also when it is not its own (oscar_*_connect).        *)
THEOREM AlwaysFindsConn == Spec => []ConnectFindsConn
<1>1. IInv => ConnectFindsConn
  <2> SUFFICES ASSUME IInv, On, NEW d \in dials
               PROVE  Known(faim, Taken(d))
    BY DEF ConnectFindsConn
  <2>1. /\ faim \in Sessions /\ dials \subseteq Connects
        /\ Live(faim, dials, watches, od.slot, od.chats)
    BY WhileOn
  <2>2. Known(faim, TakenFrom(faim, d))
    BY <2>1, TakenIs
  <2> QED
    BY <2>2 DEF Taken, TakenFrom
<1> QED
  BY <1>1, ServicesInvariant, PTL

(* A frame waits in the queue only for a connection that exists and is in  *)
(* progress, and, of such a service, whose connect is under way            *)
(* (aim_tx_cleanqueue).                                                    *)
THEOREM AlwaysFramesAwaitConnect == Spec => []FramesAwaitConnect
<1>1. IInv => FramesAwaitConnect
  <2> SUFFICES ASSUME IInv, NEW i \in Socks, faim.queue[i] # <<>>
               PROVE  /\ Known(faim, i) /\ Conn(faim, i).inprogress
                      /\ Clear(Conn(faim, i).type) => \E d \in dials : d.sock = i
    BY DEF FramesAwaitConnect
  <2>1. CASE status = "off"
    BY <2>1 DEF IInv, AtEnd, NoFrames
  <2>2. CASE status # "off"
    <3>1. Awaiting(faim) /\ ConnsOK(faim, dials, watches, od.slot, od.chats)
      BY <2>2 DEF IInv, Live
    <3>2. Known(faim, i) /\ Conn(faim, i).inprogress
      BY <3>1 DEF Awaiting
    <3>3. Clear(Conn(faim, i).type) => [sock |-> i, type |-> Conn(faim, i).type] \in dials
      BY <3>1, <3>2 DEF ConnsOK, Pending, Working, Clear, Known
    <3> QED
      BY <3>2, <3>3
  <2> QED
    BY <2>1, <2>2
<1> QED
  BY <1>1, ServicesInvariant, PTL

=============================================================================
