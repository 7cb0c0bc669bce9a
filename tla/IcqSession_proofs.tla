------------------------- MODULE IcqSession_proofs -------------------------
(***************************************************************************)
(* Proofs about the session, for every set of contacts and connections and *)
(* every width of the sequence number.                                     *)
(***************************************************************************)
EXTENDS IcqSession, FiniteSetTheorems, TLAPS

(* The record's handle is open and watched ... *)
Wired == handle # NULL /\ open = {handle} /\ watches = {handle} /\ readtag = handle

(* ... or the connection was dropped by a redirect that failed. *)
Dropped == handle # NULL /\ open = {} /\ watches = {} /\ "redirect" \in failed

(* Until icq_login has sent the login, the server has only greeted. *)
Greeting ==
  /\ role = "login" /\ heard = {} /\ said \subseteq {"hello"}
  /\ net \in Seq({"hello"}) /\ todo \in Seq({"hello"}) /\ job = <<>>

ControlOK ==
  /\ sock \in {"none", "connecting", "up"}
  /\ pc \in {"idle", "loginread", "loginparse", "loginsend", "parse"}
  /\ sock = "connecting" => pc = "idle"

(* Where the connection stands in each phase of a live record, and what    *)
(* must have failed for a handler to run without one.                      *)
NoneInv == sock # "up" => handle = NULL /\ open = {} /\ watches = {} /\ readtag = 0
LoopInv == sock = "up" /\ pc \in {"idle", "parse"} => Wired \/ Dropped
LoginInv ==
  sock = "up" /\ pc \in {"loginread", "loginparse", "loginsend"} =>
    handle # NULL /\ open = {handle} /\ watches = {} /\ readtag = 0
GreetInv == sock = "up" /\ pc \in {"loginread", "loginparse"} => Greeting
FreedInv == sock = "none" /\ pc # "idle" => failed # {}

(* A handler leaves nothing behind. *)
IdleInv ==
  /\ pc = "idle" => todo = <<>> /\ job = <<>>
  /\ pc = "loginsend" => todo = <<>>

Parts ==
  ControlOK /\ NoneInv /\ LoopInv /\ LoginInv /\ GreetInv /\ FreedInv /\ IdleInv

(* The inductive invariant; once freed memory was used nothing but the     *)
(* cause is known.                                                         *)
IInv == (~stale => Parts) /\ (stale => failed # {})

-----------------------------------------------------------------------------
(* IInv holds initially ... *)
LEMMA InitIInv == Init => IInv
  BY DEF Init, IInv, Parts, ControlOK, NoneInv, LoopInv, LoginInv, GreetInv, FreedInv,
         IdleInv, NULL

(* What server_disconnect leaves behind: nothing, or it destroys a handle  *)
(* for the second time, which takes a failed redirect.                     *)
LEMMA ReleaseLemma ==
  ASSUME Parts, sock = "up", Release
  PROVE  /\ sock' = "none"
         /\ stale' => "redirect" \in failed
         /\ ~stale' => handle' = NULL /\ open' = {} /\ watches' = {} /\ readtag' = 0
  BY DEF Release, Parts, NoneInv, LoopInv, LoginInv, ControlOK, Wired, Dropped, NULL

(* A step that leaves the record, its connection and the control alone.    *)
LEMMA QuietStep ==
  ASSUME Parts, ~stale, GreetInv', IdleInv',
         UNCHANGED <<sock, handle, readtag, watches, open, pc, failed, stale>>
  PROVE  IInv'
  BY DEF IInv, Parts, ControlOK, NoneInv, LoopInv, LoginInv, FreedInv, Wired, Dropped

(* A packet handler runs outside icq_login, which finds only greetings. *)
LEMMA ParsingLemma ==
  ASSUME Parts, NEW kind, kind # "hello", Parsing(kind)
  PROVE  pc = "parse" /\ sock = "up" /\ ~stale
<1>1. ~stale /\ pc \in {"parse", "loginparse"} /\ sock = "up" /\ todo # <<>> /\ Head(todo) = kind
  BY DEF Parsing
<1>2. ASSUME pc = "loginparse"
      PROVE  FALSE
  <2>1. todo \in Seq({"hello"})
    BY <1>1, <1>2 DEF Parts, GreetInv, Greeting
  <2>2. Head(todo) = "hello"
    BY <1>1, <2>1
  <2> QED
    BY <1>1, <2>2
<1> QED
  BY <1>1, <1>2

(* xwrite from any place keeps the invariant, given what the caller does   *)
(* with the rest of the state.                                             *)
LEMMA WriteStep ==
  ASSUME Parts, ~stale, sock = "up", NEW p, xwrite(p), pc' = pc,
         pc \notin {"loginread", "loginparse"}, IdleInv',
         failed \subseteq failed',
         pc # "idle" /\ sock' = "none" => failed' # {}
  PROVE  IInv'
<1>1. CASE handle \in open /\ Deliver(p) /\ UNCHANGED <<recVars, loopVars, stale>>
  BY <1>1 DEF IInv, Parts, ControlOK, NoneInv, LoopInv, LoginInv, GreetInv, FreedInv, Wired,
     Dropped, recVars, loopVars
<1>2. CASE handle \in open /\ Release
  <2>1. /\ sock' = "none"
        /\ stale' => "redirect" \in failed
        /\ ~stale' => handle' = NULL /\ open' = {} /\ watches' = {} /\ readtag' = 0
    BY <1>2, ReleaseLemma
  <2> QED
    BY <2>1 DEF IInv, Parts, ControlOK, NoneInv, LoopInv, LoginInv, GreetInv, FreedInv
<1>3. CASE handle \notin open /\ stale' = TRUE
  <2>1. "redirect" \in failed
    BY <1>3 DEF Parts, ControlOK, LoopInv, LoginInv, Wired, Dropped
  <2> QED
    BY <1>3, <2>1 DEF IInv
<1> QED
  BY <1>1, <1>2, <1>3 DEF xwrite

(* IInv is inductive, action by action. *)
LEMMA Inductive == IInv /\ [Next]_vars => IInv'
<1> SUFFICES ASSUME IInv, [Next]_vars
             PROVE  IInv'
  OBVIOUS
<1>0. CASE stale
  <2>1. failed' = failed /\ stale' = stale
    BY <1>0 DEF Next, Handler, Connect, ConnectFailed, Connected, LoginRead, LoginReadError,
       LoginSend, LoginWatch, ReadPackets, ReadError, Parsing, Redirect, RedirectFailed,
       Ignored, ServerReady, HashRequest, MyStatus, LoginAccepted, SendNext, ParseDone,
       UseFreedRecord, Command, cmd_addbuddy, send_message, Away, Reread, Disconnect,
       PeerSend, PeerClose, vars
  <2> QED
    BY <1>0, <2>1 DEF IInv
<1> SUFFICES ASSUME ~stale
             PROVE  IInv'
  BY <1>0
<1>p. Parts
  BY DEF IInv
<1>a. CASE Connect \/ ConnectFailed
  BY <1>a, <1>p DEF Connect, ConnectFailed, IInv, Parts, ControlOK, NoneInv, LoopInv, LoginInv,
     GreetInv, FreedInv, IdleInv, handlerVars, loopVars
<1>b. CASE Connected
  <2>1. PICK c \in NewConns : handle' = c /\ open' = open \cup {c}
    BY <1>b DEF Connected
  <2>2. c # NULL
    BY <2>1, SessionAssumption DEF NewConns
  <2>3. /\ sock' = "up" /\ pc' = "loginread"
        /\ UNCHANGED <<readtag, todo, job, watches, failed, stale>>
        /\ open' = {c} /\ watches = {} /\ readtag = 0 /\ todo = <<>> /\ job = <<>>
    BY <1>b, <1>p, <2>1 DEF Connected, Parts, NoneInv, IdleInv
  <2>4. Greeting'
    BY <1>b, <2>3 DEF Connected, OpenAs, Greeting
  <2> QED
    BY <2>1, <2>2, <2>3, <2>4 DEF IInv, Parts, ControlOK, NoneInv, LoopInv, LoginInv, GreetInv,
       FreedInv, IdleInv
<1>c. CASE LoginRead
  <2>1. PICK n \in 0 .. Len(net) : todo' = SubSeq(net, 1, n) /\ net' = SubSeq(net, n + 1, Len(net))
    BY <1>c DEF LoginRead
  <2>2. Greeting /\ net \in Seq({"hello"})
    BY <1>c, <1>p DEF LoginRead, Parts, GreetInv, Greeting
  <2>3. todo' \in Seq({"hello"}) /\ net' \in Seq({"hello"})
    BY <2>1, <2>2
  <2>4. Greeting'
    BY <1>c, <2>2, <2>3 DEF LoginRead, Greeting, wireVars
  <2> QED
    BY <1>c, <1>p, <2>4 DEF LoginRead, IInv, Parts, ControlOK, NoneInv, LoopInv, LoginInv,
       GreetInv, FreedInv, IdleInv, recVars, loopVars
<1>d. CASE LoginReadError
  <2>1. /\ sock' = "none"
        /\ ~stale' => handle' = NULL /\ open' = {} /\ watches' = {} /\ readtag' = 0
    BY <1>d, <1>p, ReleaseLemma DEF LoginReadError
  <2> QED
    BY <1>d, <1>p, <2>1 DEF LoginReadError, IInv, Parts, ControlOK, NoneInv, LoopInv, LoginInv,
       GreetInv, FreedInv, IdleInv
<1>e. CASE LoginSend
  BY <1>e, <1>p DEF LoginSend, IInv, Parts, ControlOK, NoneInv, LoopInv, LoginInv, GreetInv,
     FreedInv, IdleInv, recVars, loopVars
<1>f. CASE LoginWatch
  BY <1>f, <1>p DEF LoginWatch, IInv, Parts, ControlOK, NoneInv, LoopInv, LoginInv, GreetInv,
     FreedInv, IdleInv, Wired
<1>g. CASE ReadPackets
  BY <1>g, <1>p DEF ReadPackets, IInv, Parts, ControlOK, NoneInv, LoopInv, LoginInv, GreetInv,
     FreedInv, IdleInv, Wired, Dropped, recVars, loopVars
<1>h. CASE ReadError \/ Disconnect
  <2>1. /\ sock' = "none"
        /\ stale' => "redirect" \in failed
        /\ ~stale' => handle' = NULL /\ open' = {} /\ watches' = {} /\ readtag' = 0
    BY <1>h, <1>p, ReleaseLemma DEF ReadError, Disconnect
  <2> QED
    BY <1>h, <1>p, <2>1 DEF ReadError, Disconnect, IInv, Parts, ControlOK, NoneInv, LoopInv,
       LoginInv, GreetInv, FreedInv, IdleInv, handlerVars
<1>i. CASE Redirect
  <2>1. pc = "parse" /\ sock = "up"
    BY <1>i, <1>p, ParsingLemma DEF Redirect
  <2>2. PICK c \in NewConns : /\ handle' = c /\ readtag' = c
                              /\ open' = (open \ {handle}) \cup {c}
                              /\ watches' = (watches \ {readtag}) \cup {c}
    BY <1>i DEF Redirect
  <2>3. c # NULL
    BY <2>2, SessionAssumption DEF NewConns
  <2>4. Wired'
    BY <1>p, <2>1, <2>2, <2>3 DEF Parts, LoopInv, Wired, Dropped
  <2> QED
    BY <1>i, <2>1, <2>4 DEF Redirect, IInv, Parts, ControlOK, NoneInv, LoopInv, LoginInv,
       GreetInv, FreedInv, IdleInv
<1>j. CASE RedirectFailed
  <2>1. pc = "parse" /\ sock = "up"
    BY <1>j, <1>p, ParsingLemma DEF RedirectFailed
  <2>2. Dropped'
    BY <1>j, <1>p, <2>1 DEF RedirectFailed, Parts, LoopInv, Wired, Dropped, recVars
  <2> QED
    BY <1>j, <2>1, <2>2 DEF RedirectFailed, IInv, Parts, ControlOK, NoneInv, LoopInv, LoginInv,
       GreetInv, FreedInv, IdleInv, recVars
<1>k. CASE Ignored
  <2>1. PICK kind \in {"refuse", "hello", "event"} : Parsing(kind)
    BY <1>k DEF Ignored
  <2>2. /\ UNCHANGED <<sock, handle, readtag, watches, open, pc, failed, stale>>
        /\ UNCHANGED <<role, heard, said, net, job>>
    BY <1>k DEF Ignored, recVars, loopVars, peerVars, wireVars
  <2>3. pc \in {"parse", "loginparse"} /\ todo # <<>> /\ todo' = Tail(todo)
    BY <2>1 DEF Parsing
  <2>4. todo \in Seq({"hello"}) => todo' \in Seq({"hello"})
    BY <2>3
  <2>5. GreetInv' /\ IdleInv'
    BY <1>p, <2>2, <2>3, <2>4 DEF Parts, GreetInv, Greeting, IdleInv
  <2> QED
    BY <1>p, <2>2, <2>5, QuietStep
<1>l. CASE ServerReady \/ HashRequest
  <2>1. pc = "parse"
    BY <1>l, <1>p, ParsingLemma DEF ServerReady, HashRequest
  <2>2. UNCHANGED <<sock, handle, readtag, watches, open, pc, failed, stale>>
    BY <1>l DEF ServerReady, HashRequest, recVars, loopVars
  <2> QED
    BY <1>p, <2>1, <2>2, QuietStep DEF GreetInv, IdleInv
<1>m. CASE MyStatus \/ LoginAccepted
  <2>1. pc = "parse"
    BY <1>m, <1>p, ParsingLemma DEF MyStatus, LoginAccepted
  <2>2. UNCHANGED <<sock, handle, readtag, watches, open, pc, failed, stale>>
    BY <1>m DEF MyStatus, LoginAccepted, loopVars
  <2> QED
    BY <1>p, <2>1, <2>2, QuietStep DEF GreetInv, IdleInv
<1>n. CASE SendNext
  <2>1. pc \notin {"loginread", "loginparse"}
    BY <1>n, <1>p DEF SendNext, Parts, GreetInv, Greeting
  <2>2. sock = "up" /\ pc # "idle" /\ pc' = pc /\ todo' = todo /\ xwrite(Head(job))
    BY <1>n DEF SendNext
  <2>3. IdleInv'
    BY <1>p, <2>2 DEF Parts, IdleInv
  <2>4. failed \subseteq failed' /\ (sock' = "none" => failed' # {})
    BY <1>n DEF SendNext
  <2> QED
    BY <1>p, <2>1, <2>2, <2>3, <2>4, WriteStep
<1>o. CASE ParseDone
  BY <1>o, <1>p DEF ParseDone, IInv, Parts, ControlOK, NoneInv, LoopInv, LoginInv, GreetInv,
     FreedInv, IdleInv, Wired, Dropped, recVars, loopVars
<1>q. CASE UseFreedRecord
  BY <1>q, <1>p DEF UseFreedRecord, IInv, Parts, FreedInv
<1>r. CASE (\E b \in Buddies : cmd_addbuddy(b)) \/ send_message
  <2>1. PICK p : xwrite(p)
    BY <1>r DEF cmd_addbuddy, send_message
  <2>2. /\ pc = "idle" /\ sock = "up" /\ failed' = failed
        /\ UNCHANGED <<pc, todo, job>>
    BY <1>r DEF cmd_addbuddy, send_message, Command, handlerVars
  <2>3. IdleInv'
    BY <1>p, <2>2 DEF Parts, IdleInv
  <2> QED
    BY <1>p, <2>1, <2>2, <2>3, WriteStep
<1>s. CASE (\E s \in Statuses : Away(s)) \/ (\E new \in SUBSET Buddies : Reread(new)) \/ PeerClose
  <2>1. /\ UNCHANGED <<sock, handle, readtag, watches, open, pc, failed, stale>>
        /\ UNCHANGED <<role, heard, said, net, todo, job>>
    BY <1>s DEF Away, Reread, PeerClose, recVars, handlerVars, loopVars, peerVars, wireVars
  <2> QED
    BY <1>p, <2>1, QuietStep DEF Parts, GreetInv, Greeting, IdleInv
<1>t. CASE \E kind \in Answers \cup Unsolicited : PeerSend(kind)
  <2>1. PICK kind \in Answers \cup Unsolicited : PeerSend(kind)
    BY <1>t
  <2>2. /\ UNCHANGED <<sock, handle, readtag, watches, open, pc, failed, stale>>
        /\ UNCHANGED <<role, heard, todo, job>>
        /\ net' = Append(net, kind) /\ said' = said \cup {kind} /\ May(kind)
    BY <2>1 DEF PeerSend, recVars, handlerVars, loopVars, wireVars
  <2>3. Greeting => kind = "hello"
    BY <2>2 DEF May, Greeting, Answers, Unsolicited
  <2>4. net \in Seq({"hello"}) /\ kind = "hello" => net' \in Seq({"hello"})
    BY <2>2
  <2>5. GreetInv' /\ IdleInv'
    BY <1>p, <2>2, <2>3, <2>4 DEF Parts, GreetInv, Greeting, IdleInv
  <2> QED
    BY <1>p, <2>2, <2>5, QuietStep
<1>u. CASE UNCHANGED vars
  <2>1. /\ UNCHANGED <<sock, handle, readtag, watches, open, pc, failed, stale>>
        /\ UNCHANGED <<role, heard, said, net, todo, job>>
    BY <1>u DEF vars, recVars, handlerVars, loopVars, peerVars, wireVars
  <2> QED
    BY <1>p, <2>1, QuietStep DEF Parts, GreetInv, Greeting, IdleInv
<1> QED
  BY <1>a, <1>b, <1>c, <1>d, <1>e, <1>f, <1>g, <1>h, <1>i, <1>j, <1>k, <1>l, <1>m, <1>n, <1>o,
     <1>q, <1>r, <1>s, <1>t, <1>u DEF Next, Handler

(* IInv is an invariant. *)
LEMMA Invariance == Spec => []IInv
  BY InitIInv, Inductive, PTL DEF Spec

(* Between handlers the event loop watches exactly the connection of the   *)
(* record, whatever was read, redirected, sent or lost before.             *)
THEOREM WatchedAlways == Spec => []WatchedWhileUp
<1>1. IInv => WatchedWhileUp
  BY DEF IInv, Parts, ControlOK, NoneInv, LoopInv, Wired, Dropped, WatchedWhileUp
<1> QED
  BY <1>1, Invariance, PTL

(* Freed memory is used only after a write in a handler, the read of       *)
(* icq_login or the net_connect of icq_reconnect has failed.               *)
THEOREM StaleUseExplained == Spec => []StaleUseNeedsFailure
<1>1. IInv => StaleUseNeedsFailure
  BY DEF IInv, StaleUseNeedsFailure
<1> QED
  BY <1>1, Invariance, PTL

-----------------------------------------------------------------------------
(* Types. *)

Kinds == Answers \cup Unsolicited
Packets == Sendable \cup Buddies

RecType ==
  /\ sock \in {"none", "connecting", "up"}
  /\ handle \in Conns \cup {NULL} /\ readtag \in Conns \cup {0}
  /\ connected \in BOOLEAN /\ usermode_away \in BOOLEAN
LoopType == watches \subseteq Conns /\ open \subseteq Conns
HandlerType ==
  /\ pc \in {"idle", "loginread", "loginparse", "loginsend", "parse"}
  /\ todo \in Seq(Kinds) /\ job \in Seq(Packets)
PeerType ==
  role \in {"login", "bos"} /\ net \in Seq(Kinds) /\ said \subseteq Kinds /\ eof \in BOOLEAN
WireType ==
  seq \in 0 .. SeqSpace - 1 /\ heard \subseteq Packets /\ lastseq \in -1 .. SeqSpace - 1
UserType ==
  /\ my_status \in Statuses /\ listed \subseteq Buddies /\ skipped \subseteq Buddies
  /\ wanted \in Statuses
HistoryType == failed \subseteq {"loginread", "redirect", "write"} /\ stale \in BOOLEAN
Types ==
  RecType /\ LoopType /\ HandlerType /\ PeerType /\ WireType /\ UserType /\ HistoryType

(* TypeOK in parts, one for each tuple of variables. *)
LEMMA TypeParts == (TypeOK <=> Types) /\ (TypeOK' <=> Types')
  BY DEF TypeOK, Types, RecType, LoopType, HandlerType, PeerType, WireType, UserType,
         HistoryType, Kinds, Packets

(* A step that leaves a tuple alone leaves its types alone. *)
LEMMA SameTypes ==
  /\ RecType /\ UNCHANGED recVars => RecType'
  /\ LoopType /\ UNCHANGED loopVars => LoopType'
  /\ HandlerType /\ UNCHANGED handlerVars => HandlerType'
  /\ PeerType /\ UNCHANGED peerVars => PeerType'
  /\ WireType /\ UNCHANGED wireVars => WireType'
  /\ UserType /\ UNCHANGED userVars => UserType'
  /\ HistoryType /\ UNCHANGED <<failed, stale>> => HistoryType'
  BY DEF RecType, LoopType, HandlerType, PeerType, WireType, UserType, HistoryType,
         recVars, loopVars, handlerVars, peerVars, wireVars, userVars

(* The next sequence number is one. *)
LEMMA NextSeq ==
  ASSUME WireType
  PROVE  (seq + 1) % SeqSpace \in 0 .. SeqSpace - 1
  BY SessionAssumption DEF WireType

(* server_disconnect yields well-typed states ... *)
LEMMA ReleaseType ==
  ASSUME LoopType, Release
  PROVE  RecType' /\ LoopType' /\ stale' \in BOOLEAN
  BY DEF Release, RecType, LoopType

(* ... so does xwrite, ... *)
LEMMA WriteType ==
  ASSUME Types, NEW p \in Packets, xwrite(p)
  PROVE  RecType' /\ LoopType' /\ WireType' /\ stale' \in BOOLEAN
<1> USE DEF Types
<1>1. CASE Deliver(p) /\ UNCHANGED <<recVars, loopVars, stale>>
  <2>1. WireType'
    BY <1>1, NextSeq DEF Deliver, WireType
  <2> QED
    BY <1>1, <2>1, SameTypes DEF HistoryType
<1>2. CASE Release /\ seq' = (seq + 1) % SeqSpace /\ UNCHANGED <<heard, lastseq>>
  <2>1. WireType'
    BY <1>2, NextSeq DEF WireType
  <2> QED
    BY <1>2, <2>1, ReleaseType
<1>3. CASE stale' = TRUE /\ UNCHANGED <<recVars, loopVars, wireVars>>
  BY <1>3, SameTypes
<1> QED
  BY <1>1, <1>2, <1>3 DEF xwrite

(* ... so does a new connection. *)
LEMMA OpenAsType ==
  ASSUME NEW r \in {"login", "bos"}, OpenAs(r)
  PROVE  PeerType' /\ heard' \subseteq Packets /\ lastseq' = -1
<1>1. <<>> \in Seq(Kinds)
  OBVIOUS
<1> QED
  BY <1>1 DEF OpenAs, PeerType

(* The packets behind the one that is handled are packets. *)
LEMMA ParsingType ==
  ASSUME HandlerType, NEW kind, Parsing(kind)
  PROVE  todo' \in Seq(Kinds)
<1>1. todo \in Seq(Kinds) /\ todo # <<>> /\ todo' = Tail(todo)
  BY DEF HandlerType, Parsing
<1> QED
  BY <1>1

(* What is read, and what is left to read, are packets. *)
LEMMA SplitType ==
  ASSUME PeerType, NEW n \in 0 .. Len(net)
  PROVE  SubSeq(net, 1, n) \in Seq(Kinds) /\ SubSeq(net, n + 1, Len(net)) \in Seq(Kinds)
<1>1. net \in Seq(Kinds)
  BY DEF PeerType
<1> QED
  BY <1>1

(* buddy_forall: every contact, in some order. *)
LEMMA ForallLemma ==
  ASSUME NEW S, IsFiniteSet(S)
  PROVE  /\ buddy_forall(S) \in Seq(S)
         /\ \A s \in S : \E i \in 1 .. Len(buddy_forall(S)) : buddy_forall(S)[i] = s
<1> DEFINE n == Cardinality(S)
           f == buddy_forall(S)
<1>1. n \in Nat /\ \E g \in [1 .. n -> S] : IsInjective(g)
  BY FS_CardinalityType DEF ExistsBijection, Bijection, Injection
<1>2. f \in [1 .. n -> S] /\ IsInjective(f)
  BY <1>1 DEF buddy_forall, SetToSeq
<1> HIDE DEF f
<1>3. f \in Seq(S) /\ Len(f) = n
  BY <1>1, <1>2
<1>4. ASSUME NEW s \in S, \A i \in 1 .. n : f[i] # s
      PROVE  FALSE
  <2>1. f \in [1 .. n -> S \ {s}]
    BY <1>2, <1>4
  <2>2. IsFiniteSet(S \ {s}) /\ Cardinality(S \ {s}) = n - 1
    BY FS_RemoveElement
  <2>3. IsFiniteSet(1 .. n) /\ Cardinality(1 .. n) = n
    BY <1>1, FS_Interval
  <2> QED
    BY <1>1, <1>2, <2>1, <2>2, <2>3, FS_PigeonHole DEF IsInjective
<1> QED
  BY <1>3, <1>4 DEF f

(* TypeOK is inductive, given IInv. *)
LEMMA TypeStep == TypeOK /\ IInv /\ [Next]_vars => TypeOK'
<1> SUFFICES ASSUME Types, IInv, [Next]_vars
             PROVE  Types'
  BY TypeParts
<1>0. /\ RecType /\ LoopType /\ HandlerType /\ PeerType /\ WireType /\ UserType /\ HistoryType
  BY DEF Types
<1>e. <<>> \in Seq(Packets) /\ <<>> \in Seq(Kinds)
  OBVIOUS
<1>a. CASE Connect \/ ConnectFailed
  <2>1. RecType' /\ HistoryType'
    BY <1>0, <1>a DEF Connect, ConnectFailed, RecType, HistoryType
  <2> QED
    BY <1>0, <1>a, <2>1, SameTypes DEF Connect, ConnectFailed, Types
<1>b. CASE Connected
  <2>1. PICK c \in NewConns : handle' = c /\ open' = open \cup {c}
    BY <1>b DEF Connected
  <2>2. RecType' /\ LoopType'
    BY <1>0, <1>b, <2>1 DEF Connected, RecType, LoopType, NewConns
  <2>3. PeerType' /\ heard' \subseteq Packets /\ lastseq' = -1
    BY <1>b, OpenAsType DEF Connected
  <2>4. WireType'
    BY <1>0, <1>b, <2>3, SessionAssumption DEF Connected, WireType
  <2>5. HandlerType'
    BY <1>0, <1>b DEF Connected, HandlerType
  <2> QED
    BY <1>0, <1>b, <2>2, <2>3, <2>4, <2>5, SameTypes DEF Connected, Types
<1>c. CASE LoginRead \/ ReadPackets
  <2>1. PICK n \in 0 .. Len(net) : todo' = SubSeq(net, 1, n) /\ net' = SubSeq(net, n + 1, Len(net))
    BY <1>c DEF LoginRead, ReadPackets
  <2>2. todo' \in Seq(Kinds) /\ net' \in Seq(Kinds)
    BY <1>0, <2>1, SplitType
  <2>3. HandlerType' /\ PeerType'
    BY <1>0, <1>c, <2>2 DEF LoginRead, ReadPackets, HandlerType, PeerType
  <2> QED
    BY <1>0, <1>c, <2>3, SameTypes DEF LoginRead, ReadPackets, Types
<1>d. CASE LoginReadError \/ ReadError \/ Disconnect
  <2>1. RecType' /\ LoopType' /\ stale' \in BOOLEAN
    BY <1>0, <1>d, ReleaseType DEF LoginReadError, ReadError, Disconnect
  <2>2. HandlerType' /\ HistoryType'
    BY <1>0, <1>d, <2>1 DEF LoginReadError, ReadError, Disconnect, HandlerType, HistoryType,
       handlerVars
  <2> QED
    BY <1>0, <1>d, <2>1, <2>2, SameTypes DEF LoginReadError, ReadError, Disconnect, Types
<1>f. CASE LoginSend
  <2>1. <<"login">> \in Seq(Packets)
    BY DEF Packets, Sendable
  <2>2. HandlerType'
    BY <1>0, <1>f, <1>e, <2>1 DEF LoginSend, HandlerType
  <2> QED
    BY <1>0, <1>f, <2>2, SameTypes DEF LoginSend, Types
<1>g. CASE LoginWatch
  <2>1. handle \in Conns
    BY <1>g DEF LoginWatch, IInv, Parts, LoginInv, RecType, Types
  <2>2. RecType' /\ LoopType' /\ HandlerType'
    BY <1>0, <1>g, <2>1 DEF LoginWatch, RecType, LoopType, HandlerType
  <2> QED
    BY <1>0, <1>g, <2>2, SameTypes DEF LoginWatch, Types
<1>i. CASE Redirect
  <2>1. PICK c \in NewConns : /\ handle' = c /\ readtag' = c
                              /\ open' = (open \ {handle}) \cup {c}
                              /\ watches' = (watches \ {readtag}) \cup {c}
    BY <1>i DEF Redirect
  <2>2. RecType' /\ LoopType'
    BY <1>0, <1>i, <2>1 DEF Redirect, RecType, LoopType, NewConns
  <2>3. PeerType' /\ heard' \subseteq Packets /\ lastseq' = -1
    BY <1>i, OpenAsType DEF Redirect
  <2>4. WireType'
    BY <1>0, <1>i, <2>3, SessionAssumption DEF Redirect, WireType
  <2>5. todo' \in Seq(Kinds)
    BY <1>0, <1>i, ParsingType DEF Redirect
  <2>6. <<"cookie">> \in Seq(Packets)
    BY DEF Packets, Sendable
  <2>7. HandlerType'
    BY <1>0, <1>i, <2>5, <2>6 DEF Redirect, HandlerType
  <2> QED
    BY <1>0, <1>i, <2>2, <2>3, <2>4, <2>7, SameTypes DEF Redirect, Types
<1>j. CASE RedirectFailed
  <2>1. todo' \in Seq(Kinds)
    BY <1>0, <1>j, ParsingType DEF RedirectFailed
  <2>2. LoopType' /\ HandlerType' /\ HistoryType'
    BY <1>0, <1>j, <2>1 DEF RedirectFailed, LoopType, HandlerType, HistoryType
  <2> QED
    BY <1>0, <1>j, <2>2, SameTypes DEF RedirectFailed, Types
<1>k. CASE Ignored
  <2>1. todo' \in Seq(Kinds)
    BY <1>0, <1>k, ParsingType DEF Ignored
  <2>2. HandlerType'
    BY <1>0, <1>k, <2>1 DEF Ignored, HandlerType
  <2> QED
    BY <1>0, <1>k, <2>2, SameTypes DEF Ignored, Types
<1>l. CASE ServerReady \/ HashRequest
  <2>1. todo' \in Seq(Kinds)
    BY <1>0, <1>l, ParsingType DEF ServerReady, HashRequest
  <2>2. <<"data23", "clientready">> \in Seq(Packets) /\ <<"hashreply">> \in Seq(Packets)
    BY DEF Packets, Sendable
  <2>3. HandlerType'
    BY <1>0, <1>l, <2>1, <2>2 DEF ServerReady, HashRequest, HandlerType
  <2> QED
    BY <1>0, <1>l, <2>3, SameTypes DEF ServerReady, HashRequest, Types
<1>m. CASE MyStatus
  <2>1. todo' \in Seq(Kinds)
    BY <1>0, <1>m, ParsingType DEF MyStatus
  <2>2. HandlerType' /\ RecType'
    BY <1>0, <1>m, <2>1 DEF MyStatus, HandlerType, RecType
  <2> QED
    BY <1>0, <1>m, <2>2, SameTypes DEF MyStatus, Types
<1>n. CASE LoginAccepted
  <2>1. todo' \in Seq(Kinds)
    BY <1>0, <1>n, ParsingType DEF LoginAccepted
  <2>2. job' \in Seq(Packets)
    <3>1. listed \subseteq Buddies /\ IsFiniteSet(listed)
      BY <1>0, SessionAssumption, FS_Subset DEF UserType
    <3>2. buddy_forall(listed) \in Seq(listed)
      BY <3>1, ForallLemma
    <3>3. buddy_forall(listed) \in Seq(Packets) /\ <<"setstatus">> \in Seq(Packets)
      BY <3>1, <3>2 DEF Packets, Sendable
    <3>4. job' = buddy_forall(listed) \o <<"setstatus">>
      BY <1>n DEF LoginAccepted
    <3> QED
      BY <3>3, <3>4
  <2>3. HandlerType' /\ RecType' /\ UserType'
    BY <1>0, <1>n, <2>1, <2>2 DEF LoginAccepted, HandlerType, RecType, UserType
  <2> QED
    BY <1>0, <1>n, <2>3, SameTypes DEF LoginAccepted, Types
<1>o. CASE SendNext
  <2>1. Head(job) \in Packets /\ Tail(job) \in Seq(Packets)
    BY <1>0, <1>o DEF SendNext, HandlerType
  <2>2. RecType' /\ LoopType' /\ WireType' /\ stale' \in BOOLEAN
    BY <1>o, <2>1, WriteType DEF SendNext
  <2>3. HandlerType' /\ HistoryType'
    BY <1>0, <1>o, <2>1, <2>2 DEF SendNext, HandlerType, HistoryType
  <2> QED
    BY <1>0, <1>o, <2>2, <2>3, SameTypes DEF SendNext, Types
<1>p. CASE ParseDone
  <2>1. HandlerType'
    BY <1>0, <1>p DEF ParseDone, HandlerType
  <2> QED
    BY <1>0, <1>p, <2>1, SameTypes DEF ParseDone, Types
<1>q. CASE UseFreedRecord
  <2>1. HistoryType'
    BY <1>0, <1>q DEF UseFreedRecord, HistoryType
  <2> QED
    BY <1>0, <1>q, <2>1, SameTypes DEF UseFreedRecord, Types
<1>r. ASSUME NEW b \in Buddies, cmd_addbuddy(b)
      PROVE  Types'
  <2>1. b \in Packets
    BY DEF Packets
  <2>2. RecType' /\ LoopType' /\ WireType' /\ stale' \in BOOLEAN
    BY <1>r, <2>1, WriteType DEF cmd_addbuddy
  <2>3. UserType' /\ HistoryType'
    BY <1>0, <1>r, <2>2 DEF cmd_addbuddy, UserType, HistoryType
  <2> QED
    BY <1>0, <1>r, <2>2, <2>3, SameTypes DEF cmd_addbuddy, Types
<1>s. CASE send_message
  <2>1. "msg" \in Packets
    BY DEF Packets, Sendable
  <2>2. RecType' /\ LoopType' /\ WireType' /\ stale' \in BOOLEAN
    BY <1>s, <2>1, WriteType DEF send_message
  <2>3. HistoryType'
    BY <1>0, <1>s, <2>2 DEF send_message, HistoryType
  <2> QED
    BY <1>0, <1>s, <2>2, <2>3, SameTypes DEF send_message, Types
<1>t. CASE (\E s \in Statuses : Away(s)) \/ (\E new \in SUBSET Buddies : Reread(new))
  <2>1. UserType'
    BY <1>0, <1>t DEF Away, Reread, UserType
  <2>2. UNCHANGED <<recVars, handlerVars, loopVars, peerVars, wireVars, failed, stale>>
    BY <1>t DEF Away, Reread
  <2> QED
    BY <1>0, <2>1, <2>2, SameTypes DEF Types
<1>u. CASE PeerClose \/ (\E kind \in Answers \cup Unsolicited : PeerSend(kind))
  <2>1. net' \in Seq(Kinds)
    BY <1>0, <1>u DEF PeerClose, PeerSend, PeerType, Kinds
  <2>2. PeerType'
    BY <1>0, <1>u, <2>1 DEF PeerClose, PeerSend, PeerType, Kinds
  <2>3. UNCHANGED <<recVars, handlerVars, loopVars, wireVars, userVars, failed, stale>>
    BY <1>u DEF PeerClose, PeerSend
  <2> QED
    BY <1>0, <2>2, <2>3, SameTypes DEF Types
<1>v. CASE UNCHANGED vars
  BY <1>0, <1>v, SameTypes DEF vars, Types
<1> QED
  BY <1>a, <1>b, <1>c, <1>d, <1>f, <1>g, <1>i, <1>j, <1>k, <1>l, <1>m, <1>n, <1>o, <1>p, <1>q,
     <1>r, <1>s, <1>t, <1>u, <1>v DEF Next, Handler

(* The initial states are well-typed. *)
LEMMA InitType == Init => TypeOK
<1> SUFFICES ASSUME Init
             PROVE  Types
  BY TypeParts
<1>1. <<>> \in Seq(Packets) /\ <<>> \in Seq(Kinds)
  OBVIOUS
<1>2. RecType /\ LoopType /\ HistoryType
  BY DEF Init, RecType, LoopType, HistoryType, NULL
<1>3. HandlerType
  BY <1>1 DEF Init, HandlerType
<1>4. PeerType
  BY <1>1 DEF Init, PeerType
<1>5. WireType
  <2>1. 0 \in 0 .. SeqSpace - 1 /\ -1 \in -1 .. SeqSpace - 1
    BY SessionAssumption
  <2> QED
    BY <2>1 DEF Init, WireType
<1>6. UserType
  BY SessionAssumption DEF Init, UserType
<1> QED
  BY <1>2, <1>3, <1>4, <1>5, <1>6 DEF Types

(* Every variable of the session keeps its type, for every number of       *)
(* contacts and every width of the sequence number.                        *)
THEOREM SessionTypeOK == Spec => []TypeOK
  BY InitType, TypeStep, Invariance, PTL DEF Spec

-----------------------------------------------------------------------------
(* Sequence numbers. *)

(* The server of the open connection has seen the last number used. *)
SeqInv == lastseq # -1 /\ handle \in open => lastseq = seq

SeqStepOK == lastseq # -1 => lastseq' \in {lastseq, -1, (lastseq + 1) % SeqSpace}

(* xwrite keeps the numbering. *)
LEMMA WriteSeq ==
  ASSUME TypeOK, SeqInv, NEW p, xwrite(p)
  PROVE  SeqInv' /\ SeqStepOK
<1>1. NULL \notin open
  BY SessionAssumption DEF TypeOK
<1> QED
  BY <1>1 DEF xwrite, Deliver, Release, SeqInv, SeqStepOK, recVars, loopVars, wireVars

(* SeqInv is inductive, and every step under it numbers consecutively. *)
LEMMA SeqStep == TypeOK /\ SeqInv /\ [Next]_vars => SeqInv' /\ SeqStepOK
<1> SUFFICES ASSUME TypeOK, SeqInv, [Next]_vars
             PROVE  SeqInv' /\ SeqStepOK
  OBVIOUS
<1>0. NULL \notin open
  BY SessionAssumption DEF TypeOK
<1>1. ASSUME UNCHANGED <<handle, open, wireVars>>
      PROVE  SeqInv' /\ SeqStepOK
  BY <1>1 DEF SeqInv, SeqStepOK, wireVars
<1>2. CASE Connected \/ Redirect
  <2>1. lastseq' = -1
    BY <1>2 DEF Connected, Redirect, OpenAs
  <2> QED
    BY <2>1 DEF SeqInv, SeqStepOK
<1>3. CASE LoginReadError \/ ReadError \/ Disconnect
  BY <1>0, <1>3 DEF LoginReadError, ReadError, Disconnect, Release, SeqInv, SeqStepOK, wireVars
<1>4. CASE RedirectFailed
  BY <1>4 DEF RedirectFailed, SeqInv, SeqStepOK, recVars, wireVars
<1>5. CASE SendNext \/ (\E b \in Buddies : cmd_addbuddy(b)) \/ send_message
  BY <1>5, WriteSeq DEF SendNext, cmd_addbuddy, send_message
<1>6. CASE \/ Connect \/ ConnectFailed \/ LoginRead \/ LoginSend \/ LoginWatch \/ ReadPackets
           \/ Ignored \/ ServerReady \/ HashRequest \/ MyStatus \/ LoginAccepted \/ ParseDone
           \/ UseFreedRecord \/ PeerClose
  BY <1>1, <1>6 DEF Connect, ConnectFailed, LoginRead, LoginSend, LoginWatch, ReadPackets, Ignored,
     ServerReady, HashRequest, MyStatus, LoginAccepted, ParseDone, UseFreedRecord, PeerClose,
     recVars, loopVars
<1>7. CASE \/ \E s \in Statuses : Away(s)
           \/ \E new \in SUBSET Buddies : Reread(new)
           \/ \E kind \in Answers \cup Unsolicited : PeerSend(kind)
           \/ UNCHANGED vars
  BY <1>1, <1>7 DEF Away, Reread, PeerSend, vars, recVars, loopVars
<1> QED
  BY <1>2, <1>3, <1>4, <1>5, <1>6, <1>7 DEF Next, Handler

(* The numbers that a server receives are consecutive modulo the width of  *)
(* the field, whatever the counter was when the connection was opened and  *)
(* however often it wraps.                                                 *)
THEOREM AlwaysConsecutive == Spec => SeqConsecutive
<1>1. Init => SeqInv
  BY DEF Init, SeqInv
<1>2. TypeOK /\ SeqInv /\ [Next]_vars => SeqStepOK
  BY SeqStep
<1>3. TypeOK /\ SeqInv /\ [Next]_vars => SeqInv'
  BY SeqStep
<1>4. SeqStepOK => (lastseq # -1 => lastseq' \in {lastseq, -1, (lastseq + 1) % SeqSpace})
  BY DEF SeqStepOK
<1> QED
  BY <1>1, <1>2, <1>3, <1>4, SessionTypeOK, PTL DEF Spec, SeqConsecutive

-----------------------------------------------------------------------------
(* The dialogue with the servers: OnlyAfterLogin. *)

Elems(s) == {s[i] : i \in 1 .. Len(s)}

(* Everything under way was said, and nothing follows a redirect. *)
StreamInv ==
  /\ Elems(todo) \subseteq said /\ Elems(net) \subseteq said
  /\ \A i \in 1 .. Len(todo) : todo[i] = "redirect" => i = Len(todo) /\ net = <<>>
  /\ \A i \in 1 .. Len(net) : net[i] = "redirect" => i = Len(net)

(* What the servers say shows what they have heard before. *)
AnswerInv ==
  /\ "redirect" \in said => role = "login"
  /\ "ready" \in said => "cookie" \in heard
  /\ "accepted" \in said => role = "bos" /\ "clientready" \in heard

(* What the client has sent, is sending and believes shows what was said.  *)
ClientInv ==
  /\ "clientready" \in heard \cup Elems(job) => "cookie" \in heard
  /\ "msg" \in heard \cup Elems(job) => "accepted" \in said
  /\ (heard \cup Elems(job)) \cap Buddies # {} => "accepted" \in said
  /\ connected => sock = "up" /\ "accepted" \in said

DialogueInv == StreamInv /\ AnswerInv /\ ClientInv

(* The elements of a sequence that is divided ... *)
LEMMA ElemsSplit ==
  ASSUME NEW S, NEW s \in Seq(S), NEW n \in 0 .. Len(s)
  PROVE  LET a == SubSeq(s, 1, n)
             b == SubSeq(s, n + 1, Len(s))
         IN  /\ Len(a) = n /\ Len(b) = Len(s) - n
             /\ \A i \in 1 .. n : a[i] = s[i]
             /\ \A i \in 1 .. Len(s) - n : b[i] = s[n + i]
             /\ Elems(a) \subseteq Elems(s) /\ Elems(b) \subseteq Elems(s)
<1> DEFINE a == SubSeq(s, 1, n)
           b == SubSeq(s, n + 1, Len(s))
<1>1. Len(a) = n /\ \A i \in 1 .. n : a[i] = s[i]
  OBVIOUS
<1>2. Len(b) = Len(s) - n /\ \A i \in 1 .. Len(s) - n : b[i] = s[n + i]
  OBVIOUS
<1>3. n \in Nat /\ Len(s) \in Nat /\ n <= Len(s)
  OBVIOUS
<1> HIDE DEF a, b
<1>4. \A i \in 1 .. n : i \in 1 .. Len(s)
  BY <1>3
<1>5. \A i \in 1 .. Len(s) - n : n + i \in 1 .. Len(s)
  BY <1>3
<1>6. Elems(a) \subseteq Elems(s) /\ Elems(b) \subseteq Elems(s)
  BY <1>1, <1>2, <1>4, <1>5 DEF Elems
<1> QED
  BY <1>1, <1>2, <1>6 DEF a, b

(* ... of its tail, ... *)
LEMMA ElemsTail ==
  ASSUME NEW S, NEW s \in Seq(S), s # <<>>
  PROVE  /\ Elems(s) = {Head(s)} \cup Elems(Tail(s))
         /\ Len(Tail(s)) = Len(s) - 1 /\ Head(s) = s[1]
         /\ \A i \in 1 .. Len(s) - 1 : Tail(s)[i] = s[i + 1]
<1> DEFINE t == Tail(s)
<1>1. Len(s) \in Nat /\ Len(s) # 0 /\ Head(s) = s[1]
  OBVIOUS
<1>2. Len(t) = Len(s) - 1 /\ \A i \in 1 .. Len(s) - 1 : t[i] = s[i + 1]
  OBVIOUS
<1> HIDE DEF t
<1>3. ASSUME NEW i \in 1 .. Len(s)
      PROVE  s[i] = s[1] \/ (i - 1 \in 1 .. Len(t) /\ t[i - 1] = s[i])
  BY <1>1, <1>2
<1>4. ASSUME NEW i \in 1 .. Len(t)
      PROVE  i + 1 \in 1 .. Len(s) /\ s[i + 1] = t[i]
  BY <1>1, <1>2
<1>5. 1 \in 1 .. Len(s)
  BY <1>1
<1>6. Elems(s) = {s[1]} \cup Elems(t)
  <2>1. Elems(s) \subseteq {s[1]} \cup Elems(t)
    BY <1>3 DEF Elems
  <2>2. Elems(t) \subseteq Elems(s) /\ s[1] \in Elems(s)
    BY <1>4, <1>5 DEF Elems
  <2> QED
    BY <2>1, <2>2
<1> QED
  BY <1>1, <1>2, <1>6 DEF t

(* ... of one that grows, ... *)
LEMMA ElemsAppend ==
  ASSUME NEW S, NEW s \in Seq(S), NEW e
  PROVE  /\ Elems(Append(s, e)) = Elems(s) \cup {e}
         /\ Len(Append(s, e)) = Len(s) + 1
         /\ \A i \in 1 .. Len(s) : Append(s, e)[i] = s[i]
         /\ Append(s, e)[Len(s) + 1] = e
<1> DEFINE t == Append(s, e)
<1>1. Len(t) = Len(s) + 1 /\ t[Len(s) + 1] = e /\ \A i \in 1 .. Len(s) : t[i] = s[i]
  OBVIOUS
<1>2. Len(s) \in Nat
  OBVIOUS
<1> HIDE DEF t
<1>3. \A i \in 1 .. Len(t) : i \in 1 .. Len(s) \/ i = Len(s) + 1
  BY <1>1, <1>2
<1>4. \A i \in 1 .. Len(s) : i \in 1 .. Len(t)
  BY <1>1, <1>2
<1>5. Len(s) + 1 \in 1 .. Len(t)
  BY <1>1, <1>2
<1>6. Elems(t) = Elems(s) \cup {e}
  BY <1>1, <1>3, <1>4, <1>5 DEF Elems
<1> QED
  BY <1>1, <1>6 DEF t

(* ... and of the empty one. *)
LEMMA ElemsEmpty == Elems(<<>>) = {}
  BY DEF Elems

(* The first packet of the buffer is processed. *)
LEMMA ParsingStream ==
  ASSUME TypeOK, StreamInv, NEW kind, Parsing(kind)
  PROVE  /\ kind \in said /\ job = <<>>
         /\ net' = net /\ said' = said => StreamInv'
         /\ kind = "redirect" => todo' = <<>> /\ net = <<>>
<1>1. todo \in Seq(Kinds) /\ todo # <<>> /\ todo' = Tail(todo) /\ Head(todo) = kind /\ job = <<>>
  BY TypeParts DEF Types, HandlerType, Parsing
<1>2. /\ Elems(todo) = {kind} \cup Elems(todo')
      /\ Len(todo') = Len(todo) - 1 /\ kind = todo[1]
      /\ \A i \in 1 .. Len(todo) - 1 : todo'[i] = todo[i + 1]
  BY <1>1, ElemsTail
<1>3. Len(todo) \in Nat /\ Len(todo) # 0 /\ 1 \in 1 .. Len(todo)
  BY <1>1
<1>4. \A i \in 1 .. Len(todo') : i \in 1 .. Len(todo) - 1 /\ i + 1 \in 1 .. Len(todo)
  BY <1>2, <1>3
<1>5. ASSUME net' = net, said' = said
      PROVE  StreamInv'
  <2>1. ASSUME NEW i \in 1 .. Len(todo'), todo'[i] = "redirect"
        PROVE  i = Len(todo') /\ net' = <<>>
    <3>1. i + 1 = Len(todo) /\ net = <<>>
      BY <1>2, <1>4, <2>1 DEF StreamInv
    <3>2. i \in Int
      OBVIOUS
    <3> QED
      BY <1>2, <1>3, <1>5, <3>1, <3>2
  <2> QED
    BY <1>2, <1>5, <2>1 DEF StreamInv
<1>6. ASSUME kind = "redirect"
      PROVE  todo' = <<>> /\ net = <<>>
  <2>1. Len(todo) = 1 /\ net = <<>>
    BY <1>2, <1>3, <1>6 DEF StreamInv
  <2>2. todo' \in Seq(Kinds) /\ Len(todo') = 0
    BY <1>1, <1>2, <2>1
  <2> QED
    BY <2>1, <2>2
<1> QED
  BY <1>1, <1>2, <1>5, <1>6 DEF StreamInv

(* A step that neither says, reads nor sends anything. *)
LEMMA QuietDialogue ==
  ASSUME DialogueInv, UNCHANGED <<role, net, said, heard, todo, job>>,
         connected' => sock' = "up" /\ connected
  PROVE  DialogueInv'
BY DEF DialogueInv, StreamInv, AnswerInv, ClientInv, Elems

(* A handler has decided what to send next. *)
LEMMA JobDialogue ==
  ASSUME TypeOK, DialogueInv, NEW kind, Parsing(kind), UNCHANGED <<role, net, said, heard>>,
         connected' => sock' = "up" /\ (connected \/ "accepted" \in said),
         Elems(job') \subseteq {"data23", "clientready", "hashreply", "setstatus"} \cup Buddies,
         "clientready" \in Elems(job') => "cookie" \in heard,
         Elems(job') \cap Buddies # {} => "accepted" \in said
  PROVE  DialogueInv'
<1>1. StreamInv'
  BY ParsingStream DEF DialogueInv
<1>2. AnswerInv'
  BY DEF DialogueInv, AnswerInv
<1>3. "msg" \notin Elems(job')
  BY SessionAssumption DEF Sendable
<1>4. ClientInv'
  BY <1>3 DEF DialogueInv, ClientInv
<1> QED
  BY <1>1, <1>2, <1>4 DEF DialogueInv

(* xwrite keeps the dialogue in order, whatever comes of it. *)
LEMMA WriteDialogue ==
  ASSUME TypeOK, DialogueInv, NEW p, xwrite(p), UNCHANGED <<role, net, said, todo>>,
         Elems(job') \cup {p} \subseteq Elems(job) \cup Buddies \cup {"msg"},
         p \in Elems(job) \/ "accepted" \in said,
         Elems(job') \subseteq Elems(job)
  PROVE  DialogueInv'
<1>1. heard' \subseteq heard \cup {p} /\ heard \subseteq heard'
      /\ (connected' => connected /\ sock' = sock)
  BY DEF xwrite, Deliver, Release, recVars, wireVars
<1>2. StreamInv' /\ AnswerInv'
  BY <1>1 DEF DialogueInv, StreamInv, AnswerInv, Elems
<1>3. "clientready" \notin Buddies /\ "clientready" # "msg"
  BY SessionAssumption DEF Sendable
<1>4. ClientInv'
  BY <1>1, <1>3 DEF DialogueInv, ClientInv
<1> QED
  BY <1>2, <1>4 DEF DialogueInv

(* DialogueInv is inductive, given IInv ... *)
LEMMA DialogueStep == TypeOK /\ IInv /\ DialogueInv /\ [Next]_vars => DialogueInv'
<1> SUFFICES ASSUME TypeOK, IInv, DialogueInv, [Next]_vars
             PROVE  DialogueInv'
  OBVIOUS
<1>t. /\ todo \in Seq(Kinds) /\ net \in Seq(Kinds) /\ job \in Seq(Packets)
  BY TypeParts DEF Types, HandlerType, PeerType
<1>i. ~stale /\ pc = "idle" => todo = <<>> /\ job = <<>>
  BY DEF IInv, Parts, IdleInv
<1>a. CASE \/ Connect \/ ConnectFailed \/ LoginWatch \/ ParseDone \/ UseFreedRecord \/ PeerClose
           \/ UNCHANGED vars
  BY <1>a, QuietDialogue DEF Connect, ConnectFailed, LoginWatch, ParseDone, UseFreedRecord, PeerClose,
     vars, recVars, handlerVars, peerVars, wireVars, DialogueInv, ClientInv
<1>b. CASE Connected
  <2>1. todo' = <<>> /\ job' = <<>> /\ net' = <<>> /\ said' = {} /\ heard' = {} /\ ~connected'
    BY <1>b, <1>i DEF Connected, OpenAs, DialogueInv, ClientInv
  <2> QED
    BY <2>1, ElemsEmpty DEF DialogueInv, StreamInv, AnswerInv, ClientInv
<1>c. CASE LoginRead \/ ReadPackets
  <2>1. PICK n \in 0 .. Len(net) : todo' = SubSeq(net, 1, n) /\ net' = SubSeq(net, n + 1, Len(net))
    BY <1>c DEF LoginRead, ReadPackets
  <2>2. /\ Len(todo') = n /\ Len(net') = Len(net) - n
        /\ \A i \in 1 .. n : todo'[i] = net[i]
        /\ \A i \in 1 .. Len(net) - n : net'[i] = net[n + i]
        /\ Elems(todo') \subseteq Elems(net) /\ Elems(net') \subseteq Elems(net)
    BY <1>t, <2>1, ElemsSplit
  <2>3. Len(net) \in Nat /\ n \in Nat /\ n <= Len(net) /\ net' \in Seq(Kinds)
    BY <1>t, <2>1
  <2>4. UNCHANGED <<role, said, heard, job, connected, sock>>
    BY <1>c DEF LoginRead, ReadPackets, recVars, wireVars
  <2>5. ASSUME NEW i \in 1 .. Len(todo'), todo'[i] = "redirect"
        PROVE  i = Len(todo') /\ net' = <<>>
    <3>1. i \in 1 .. Len(net) /\ net[i] = "redirect"
      BY <2>2, <2>3, <2>5
    <3>2. i = Len(net)
      BY <3>1 DEF DialogueInv, StreamInv
    <3>3. n = Len(net)
      BY <2>2, <2>3, <3>2
    <3> QED
      BY <2>2, <2>3, <3>2, <3>3
  <2>6. ASSUME NEW i \in 1 .. Len(net'), net'[i] = "redirect"
        PROVE  i = Len(net')
    <3>1. n + i \in 1 .. Len(net) /\ net[n + i] = "redirect"
      BY <2>2, <2>3, <2>6
    <3>2. n + i = Len(net)
      BY <3>1 DEF DialogueInv, StreamInv
    <3> QED
      BY <2>2, <2>3, <3>2
  <2>7. StreamInv'
    BY <2>2, <2>4, <2>5, <2>6 DEF DialogueInv, StreamInv
  <2> QED
    BY <2>4, <2>7 DEF DialogueInv, AnswerInv, ClientInv, Elems
<1>d. CASE LoginReadError \/ ReadError \/ Disconnect
  BY <1>d, QuietDialogue DEF LoginReadError, ReadError, Disconnect, Release, handlerVars, peerVars, wireVars
<1>e. CASE LoginSend
  <2>1. Elems(job') \subseteq {"login"} /\ UNCHANGED <<role, net, said, heard, todo, connected, sock>>
    BY <1>e DEF LoginSend, Elems, recVars, peerVars, wireVars
  <2>2. "login" \notin Buddies
    BY SessionAssumption DEF Sendable
  <2>3. StreamInv' /\ AnswerInv'
    BY <2>1 DEF DialogueInv, StreamInv, AnswerInv, Elems
  <2>4. ClientInv'
    BY <2>1, <2>2 DEF DialogueInv, ClientInv
  <2> QED
    BY <2>3, <2>4 DEF DialogueInv
<1>f. CASE Redirect
  <2>1. todo' = <<>> /\ "redirect" \in said
    BY <1>f, ParsingStream DEF Redirect, DialogueInv
  <2>2. ~connected
    BY <2>1 DEF DialogueInv, AnswerInv, ClientInv
  <2>3. net' = <<>> /\ said' = {} /\ heard' = {} /\ ~connected' /\ Elems(job') \subseteq {"cookie"}
    BY <1>f, <2>2 DEF Redirect, OpenAs, Elems
  <2>4. "cookie" \notin Buddies
    BY SessionAssumption DEF Sendable
  <2> QED
    BY <2>1, <2>3, <2>4, ElemsEmpty DEF DialogueInv, StreamInv, AnswerInv, ClientInv
<1>g. CASE \/ RedirectFailed \/ Ignored \/ MyStatus
  <2>1. PICK kind : Parsing(kind)
    BY <1>g DEF RedirectFailed, Ignored, MyStatus
  <2>2. job' = <<>> /\ UNCHANGED <<role, net, said, heard, sock, connected>>
    BY <1>g, <2>1, ParsingStream DEF RedirectFailed, Ignored, MyStatus, recVars, peerVars, wireVars,
       DialogueInv
  <2> QED
    BY <2>1, <2>2, JobDialogue, ElemsEmpty DEF DialogueInv, ClientInv
<1>h. CASE ServerReady
  <2>1. "ready" \in said /\ Parsing("ready") /\ UNCHANGED <<role, net, said, heard, sock, connected>>
    BY <1>h, ParsingStream DEF ServerReady, recVars, peerVars, wireVars, DialogueInv
  <2>2. Elems(job') \subseteq {"data23", "clientready"}
    BY <1>h DEF ServerReady, Elems
  <2>3. {"data23", "clientready"} \cap Buddies = {}
    BY SessionAssumption DEF Sendable
  <2>4. "cookie" \in heard
    BY <2>1 DEF DialogueInv, AnswerInv
  <2>5. connected' => sock' = "up" /\ (connected \/ "accepted" \in said)
    BY <2>1 DEF DialogueInv, ClientInv
  <2>6. /\ Elems(job') \subseteq {"data23", "clientready", "hashreply", "setstatus"} \cup Buddies
        /\ Elems(job') \cap Buddies = {}
    BY <2>2, <2>3
  <2> QED
    BY <2>1, <2>4, <2>5, <2>6, JobDialogue
<1>j. CASE HashRequest
  <2>1. Parsing("hash") /\ UNCHANGED <<role, net, said, heard, sock, connected>>
    BY <1>j DEF HashRequest, recVars, peerVars, wireVars
  <2>2. Elems(job') \subseteq {"hashreply"}
    BY <1>j DEF HashRequest, Elems
  <2>3. "hashreply" \notin Buddies
    BY SessionAssumption DEF Sendable
  <2>5. connected' => sock' = "up" /\ (connected \/ "accepted" \in said)
    BY <2>1 DEF DialogueInv, ClientInv
  <2>6. /\ Elems(job') \subseteq {"data23", "clientready", "hashreply", "setstatus"} \cup Buddies
        /\ Elems(job') \cap Buddies = {} /\ "clientready" \notin Elems(job')
    BY <2>2, <2>3
  <2> QED
    BY <2>1, <2>5, <2>6, JobDialogue
<1>k. CASE LoginAccepted
  <2>1. "accepted" \in said /\ Parsing("accepted") /\ UNCHANGED <<role, net, said, heard, sock>>
        /\ sock = "up"
    BY <1>k, ParsingStream DEF LoginAccepted, Parsing, peerVars, wireVars, DialogueInv
  <2>2. listed \subseteq Buddies /\ IsFiniteSet(listed)
    BY TypeParts, SessionAssumption, FS_Subset DEF Types, UserType
  <2>3. Elems(job') \subseteq Buddies \cup {"setstatus"}
    <3> DEFINE b == buddy_forall(listed)
    <3>1. b \in Seq(listed)
      BY <2>2, ForallLemma
    <3>2. b \in Seq(Packets)
      BY <2>2, <3>1 DEF Packets
    <3>3. job' = b \o <<"setstatus">>
      BY <1>k DEF LoginAccepted
    <3> HIDE DEF b
    <3>4. \A i \in 1 .. Len(job') : job'[i] \in listed \/ job'[i] = "setstatus"
      BY <3>1, <3>3
    <3> QED
      BY <2>2, <3>4 DEF Elems
  <2>4. "clientready" \notin Buddies
    BY SessionAssumption DEF Sendable
  <2>5. /\ Elems(job') \subseteq {"data23", "clientready", "hashreply", "setstatus"} \cup Buddies
        /\ "clientready" \notin Elems(job')
    BY <2>3, <2>4
  <2> QED
    BY <2>1, <2>5, JobDialogue
<1>l. CASE SendNext
  <2>1. /\ Elems(job) = {Head(job)} \cup Elems(job')
    BY <1>l, <1>t, ElemsTail DEF SendNext
  <2>2. xwrite(Head(job)) /\ UNCHANGED <<role, net, said, todo>>
    BY <1>l DEF SendNext, peerVars
  <2> QED
    BY <2>1, <2>2, WriteDialogue
<1>m. CASE (\E b \in Buddies : cmd_addbuddy(b)) \/ send_message
  <2>1. PICK p \in Buddies \cup {"msg"} : xwrite(p)
    BY <1>m DEF cmd_addbuddy, send_message
  <2>2. connected /\ UNCHANGED <<role, net, said, todo, job>>
    BY <1>m DEF cmd_addbuddy, send_message, Command, handlerVars, peerVars
  <2>3. "accepted" \in said
    BY <2>2 DEF DialogueInv, ClientInv
  <2>4. Elems(job') = Elems(job)
    BY <2>2
  <2> QED
    BY <2>1, <2>2, <2>3, <2>4, WriteDialogue
<1>n. CASE (\E s \in Statuses : Away(s)) \/ (\E new \in SUBSET Buddies : Reread(new))
  BY <1>n, QuietDialogue DEF Away, Reread, recVars, handlerVars, peerVars, wireVars, DialogueInv,
     ClientInv
<1>o. ASSUME NEW kind \in Answers \cup Unsolicited, PeerSend(kind)
      PROVE  DialogueInv'
  <2>1. /\ "redirect" \notin said /\ May(kind) /\ net' = Append(net, kind) /\ said' = said \cup {kind}
        /\ UNCHANGED <<role, heard, todo, job, connected, sock>>
    BY <1>o DEF PeerSend, recVars, handlerVars, wireVars
  <2>2. /\ Elems(net') = Elems(net) \cup {kind} /\ Len(net') = Len(net) + 1
        /\ \A i \in 1 .. Len(net) : net'[i] = net[i]
    BY <1>t, <2>1, ElemsAppend
  <2>3. /\ \A i \in 1 .. Len(todo) : todo[i] # "redirect"
        /\ \A i \in 1 .. Len(net) : net[i] # "redirect"
    BY <2>1 DEF DialogueInv, StreamInv, Elems
  <2>4. \A i \in 1 .. Len(net') : i \in 1 .. Len(net) \/ i = Len(net')
    BY <1>t, <2>2
  <2>5. StreamInv'
    BY <2>1, <2>2, <2>3, <2>4 DEF DialogueInv, StreamInv
  <2>6. AnswerInv'
    BY <2>1 DEF DialogueInv, AnswerInv, May
  <2>7. ClientInv'
    BY <2>1 DEF DialogueInv, ClientInv
  <2> QED
    BY <2>5, <2>6, <2>7 DEF DialogueInv
<1> QED
  BY <1>a, <1>b, <1>c, <1>d, <1>e, <1>f, <1>g, <1>h, <1>j, <1>k, <1>l, <1>m, <1>n, <1>o DEF Next, Handler

(* ... and so an invariant. *)
LEMMA AlwaysDialogue == Spec => []DialogueInv
<1>1. Init => DialogueInv
  BY ElemsEmpty DEF Init, DialogueInv, StreamInv, AnswerInv, ClientInv
<1> QED
  BY <1>1, DialogueStep, SessionTypeOK, Invariance, PTL DEF Spec

(* No message and no contact reaches a server that has not accepted the    *)
(* cookie and the login, whatever fails on the way.                        *)
THEOREM AlwaysAfterLogin == Spec => []OnlyAfterLogin
<1>1. DialogueInv => OnlyAfterLogin
  BY DEF DialogueInv, AnswerInv, ClientInv, OnlyAfterLogin
<1> QED
  BY <1>1, AlwaysDialogue, PTL

-----------------------------------------------------------------------------
(* Announced *)

(* Contacts not yet announced are those the handler is about to send.      *)
AnnounceInv == ~stale /\ connected => listed \subseteq heard \cup skipped \cup Elems(job)

(* AnnounceInv is inductive, given the others. *)
LEMMA AnnounceStep == TypeOK /\ IInv /\ DialogueInv /\ AnnounceInv /\ [Next]_vars => AnnounceInv'
<1> SUFFICES ASSUME TypeOK, IInv, DialogueInv, AnnounceInv, [Next]_vars
             PROVE  AnnounceInv'
  OBVIOUS
<1>1. ASSUME UNCHANGED <<listed, heard, skipped, connected, stale>>,
             Elems(job) \subseteq Elems(job')
      PROVE  AnnounceInv'
  BY <1>1 DEF AnnounceInv
<1>2. ASSUME ~connected'
      PROVE  AnnounceInv'
  BY <1>2 DEF AnnounceInv
<1>a. CASE \/ Connect \/ ConnectFailed \/ LoginWatch \/ ParseDone \/ PeerClose \/ LoginRead
           \/ ReadPackets \/ UNCHANGED vars
  BY <1>a, <1>1 DEF Connect, ConnectFailed, LoginWatch, ParseDone, PeerClose, LoginRead, ReadPackets,
     vars, recVars, handlerVars, wireVars, userVars
<1>b. CASE UseFreedRecord
  BY <1>b DEF UseFreedRecord, AnnounceInv
<1>c. CASE Connected
  BY <1>2, <1>c DEF Connected, DialogueInv, ClientInv
<1>d. CASE LoginReadError \/ ReadError \/ Disconnect
  BY <1>2, <1>d DEF LoginReadError, ReadError, Disconnect, Release
<1>e. CASE LoginSend \/ ServerReady \/ HashRequest \/ RedirectFailed \/ Ignored \/ MyStatus
  <2>1. job = <<>> /\ UNCHANGED <<listed, heard, skipped, connected, stale>>
    BY <1>e DEF LoginSend, ServerReady, HashRequest, RedirectFailed, Ignored, MyStatus, Parsing, recVars,
       wireVars, userVars
  <2> QED
    BY <1>1, <2>1, ElemsEmpty
<1>f. CASE Redirect
  <2>1. "redirect" \in said
    BY <1>f, ParsingStream DEF Redirect, DialogueInv
  <2>2. ~connected
    BY <2>1 DEF DialogueInv, AnswerInv, ClientInv
  <2> QED
    BY <1>2, <1>f, <2>2 DEF Redirect
<1>g. CASE LoginAccepted
  <2>1. listed \subseteq Buddies /\ IsFiniteSet(listed)
    BY TypeParts, SessionAssumption, FS_Subset DEF Types, UserType
  <2> DEFINE b == buddy_forall(listed)
  <2>2. b \in Seq(listed) /\ \A s \in listed : \E i \in 1 .. Len(b) : b[i] = s
    BY <2>1, ForallLemma
  <2>3. job' = b \o <<"setstatus">> /\ listed' = listed
    BY <1>g DEF LoginAccepted
  <2> HIDE DEF b
  <2>4. b \in Seq(Packets)
    BY <2>1, <2>2 DEF Packets
  <2>5. \A i \in 1 .. Len(b) : i \in 1 .. Len(job') /\ job'[i] = b[i]
    <3>1. <<"setstatus">> \in Seq(Packets)
      BY DEF Packets, Sendable
    <3> QED
      BY <2>3, <2>4, <3>1
  <2>6. listed' \subseteq Elems(job')
    BY <2>2, <2>3, <2>5 DEF Elems
  <2> QED
    BY <2>6 DEF AnnounceInv
<1>h. CASE SendNext
  <2>1. job \in Seq(Packets) /\ job # <<>> /\ xwrite(Head(job)) /\ job' = Tail(job)
        /\ UNCHANGED <<listed, skipped>> /\ ~stale
    BY <1>h, TypeParts DEF SendNext, Types, HandlerType, userVars
  <2>2. Elems(job) = {Head(job)} \cup Elems(job')
    BY <2>1, ElemsTail
  <2>3. \/ heard' = heard \cup {Head(job)} /\ connected' = connected
        \/ ~connected' \/ stale'
    BY <2>1 DEF xwrite, Deliver, Release, recVars
  <2> QED
    BY <2>1, <2>2, <2>3 DEF AnnounceInv
<1>j. ASSUME NEW c \in Buddies, cmd_addbuddy(c)
      PROVE  AnnounceInv'
  <2>1. xwrite(c) /\ listed' = listed \cup {c} /\ skipped' = skipped \ {c} /\ job' = job
        /\ ~stale /\ connected
    BY <1>j DEF cmd_addbuddy, Command, handlerVars
  <2>2. \/ heard' = heard \cup {c} \/ ~connected' \/ stale'
    BY <2>1 DEF xwrite, Deliver, Release
  <2>3. Elems(job') = Elems(job)
    BY <2>1
  <2> QED
    BY <2>1, <2>2, <2>3 DEF AnnounceInv
<1>k. CASE send_message
  <2>1. xwrite("msg") /\ UNCHANGED <<listed, skipped, job>> /\ ~stale /\ connected
    BY <1>k DEF send_message, Command, handlerVars, userVars
  <2>2. \/ heard \subseteq heard' \/ ~connected' \/ stale'
    BY <2>1 DEF xwrite, Deliver, Release
  <2> QED
    BY <2>1, <2>2 DEF AnnounceInv
<1>l. CASE (\E s \in Statuses : Away(s)) \/ (\E kind \in Answers \cup Unsolicited : PeerSend(kind))
  BY <1>1, <1>l DEF Away, PeerSend, recVars, handlerVars, wireVars, userVars
<1>m. CASE \E new \in SUBSET Buddies : Reread(new)
  BY <1>m DEF Reread, AnnounceInv
<1> QED
  BY <1>a, <1>b, <1>c, <1>d, <1>e, <1>f, <1>g, <1>h, <1>j, <1>k, <1>l, <1>m DEF Next, Handler

(* Once commands are accepted, every contact was announced on the present  *)
(* connection or came with a reload, in whatever order the login, /ADDBUDDY*)
(* and /RELOAD happened.                                                   *)
THEOREM AlwaysAnnounced == Spec => []Announced
<1>1. Init => AnnounceInv
  BY DEF Init, AnnounceInv
<1>2. ASSUME IInv, AnnounceInv
      PROVE  Announced
  <2> SUFFICES ASSUME Command
               PROVE  listed \subseteq heard \cup skipped
    BY DEF Announced
  <2>1. job = <<>>
    BY <1>2 DEF Command, IInv, Parts, IdleInv
  <2> QED
    BY <1>2, <2>1, ElemsEmpty DEF Command, AnnounceInv
<1> QED
  BY <1>1, <1>2, AnnounceStep, AlwaysDialogue, SessionTypeOK, Invariance, PTL DEF Spec
=============================================================================
