----------------------------- MODULE IcqSession -----------------------------
(***************************************************************************)
(* The life of a server record: irssi opens a connection to the login      *)
(* server, icq_login answers its greeting, a channel 4 packet redirects    *)
(* the client to a second server (icq_reconnect replaces the connection    *)
(* inside the packet handler), SNACs complete the login there and every    *)
(* contact is announced.  core/icq-protocol.c, icq-servers.c and           *)
(* icq-commands.c.                                                         *)
(*                                                                         *)
(* irssi is single-threaded: a handler runs to its end before the event    *)
(* loop goes on, but each read and write inside it may fail, and then      *)
(* xread and xwrite free the server record under the feet of the handler.  *)
(* So a handler is a sequence of steps here, one per write.  Packets are   *)
(* whole (FlapReceiver is about that) and the login server writes nothing  *)
(* behind its redirect.                                                    *)
(***************************************************************************)
EXTENDS Integers, Sequences, FiniteSets, SequencesExt

CONSTANTS
  Buddies,     \* contacts
  HasPassword, \* the user gave a password
  Statuses,    \* what the user may pass to /AWAY, 0 being "online"
  SeqSpace,    \* 2^16 in the code: the FLAP sequence number is a 16-bit field
  Conns,       \* names for connections, reused when nothing refers to them
  MaxNet       \* bound: packets under way when the server sends unasked

NULL == 0

(* Packets of the client besides the announcement of a contact. *)
Sendable == {"login", "cookie", "data23", "clientready", "hashreply", "setstatus", "msg"}

ASSUME SessionAssumption ==
  /\ HasPassword \in BOOLEAN
  /\ Statuses \subseteq Nat /\ 0 \in Statuses
  /\ SeqSpace \in Nat \ {0} /\ MaxNet \in Nat
  /\ NULL \notin Conns
  /\ IsFiniteSet(Buddies) /\ Buddies \cap Sendable = {}

VARIABLES
  sock,        \* the ICQ_SERVER_REC: "none", "connecting" or "up"
  handle,      \* sock->handle: a connection, NULL being 0
  readtag,     \* sock->readtag, as the connection whose watch it names; 0: none
  connected,   \* sock->connected
  usermode_away,
  seq,         \* static int seq of flap_begin, modulo SeqSpace
  my_status,   \* static int my_status
  listed,      \* the contacts in the list
  pc,          \* where the running handler is
  todo,        \* packets of the buffer that the handler has not reached
  job,         \* packets that the handler has still to send
  (* The event loop and the network. *)
  watches,     \* connections that the event loop watches for icq_parse_incoming
  open,        \* connections whose send buffer exists
  (* The connection that was opened last, as its server sees it. *)
  role,        \* "login" server or "bos" server
  net,         \* packets written by the server and not yet read
  said,        \* kinds of packets the server has written
  eof,         \* the server has closed the connection
  heard,       \* packets the server has received
  lastseq,     \* sequence number of the last of them, -1: none
  (* History. *)
  failed,      \* what failed inside a handler since the record was created
  skipped,     \* contacts that came with a reload of the buddy file
  wanted,      \* the status of the last /AWAY
  stale        \* freed memory was used: nothing is known from here on

recVars == <<sock, handle, readtag, connected, usermode_away>>
handlerVars == <<pc, todo, job>>
loopVars == <<watches, open>>
peerVars == <<role, net, said, eof>>
wireVars == <<seq, heard, lastseq>>
userVars == <<my_status, listed, skipped, wanted>>
vars == <<recVars, handlerVars, loopVars, peerVars, wireVars, userVars, failed, stale>>

(* Packets of the server; hello stands for all that process_packet ignores *)
(* on channel 1, event for the SNACs that do not touch the session.        *)
Unsolicited == {"hash", "mystatus", "event"}
Answers == {"hello", "redirect", "refuse", "ready", "accepted"}

(* A new connection gets a name that nothing refers to. *)
NewConns == Conns \ (open \cup watches \cup {handle, readtag})
OpenAs(r) ==
  /\ role' = r /\ net' = <<>> /\ said' = {} /\ eof' = FALSE
  /\ heard' = {} /\ lastseq' = -1

-----------------------------------------------------------------------------
Init ==
  /\ sock = "none" /\ handle = NULL /\ readtag = 0
  /\ connected = FALSE /\ usermode_away = FALSE
  /\ seq = 0 /\ my_status = 0 /\ listed \in SUBSET Buddies
  /\ pc = "idle" /\ todo = <<>> /\ job = <<>>
  /\ watches = {} /\ open = {}
  /\ role = "login" /\ net = <<>> /\ said = {} /\ eof = FALSE
  /\ heard = {} /\ lastseq = -1
  /\ failed = {} /\ skipped = {} /\ wanted = 0 /\ stale = FALSE

-----------------------------------------------------------------------------
(* server_disconnect (external) with sig_server_disconnected: the handle   *)
(* is destroyed, the watch named by readtag removed, the record freed.  A  *)
(* handle that was destroyed before is used after it was freed.            *)
Mut_ReleaseKeepsWatch ==
  /\ stale' = (handle # NULL /\ handle \notin open)
  /\ open' = open \ {handle}
  /\ watches' = watches
  /\ sock' = "none" /\ handle' = NULL /\ readtag' = 0
  /\ connected' = FALSE /\ usermode_away' = FALSE
Release ==
  /\ stale' = (handle # NULL /\ handle \notin open)
  /\ open' = open \ {handle}
  /\ watches' = watches \ {readtag}
  /\ sock' = "none" /\ handle' = NULL /\ readtag' = 0
  /\ connected' = FALSE /\ usermode_away' = FALSE

(* A packet with the next sequence number reaches the server. *)
Mut_DeliverNoWrap(p) == seq' = seq + 1 /\ heard' = heard \cup {p} /\ lastseq' = seq'
Mut_DeliverOldSeq(p) ==
  /\ seq' = (seq + 1) % SeqSpace
  /\ heard' = heard \cup {p}
  /\ lastseq' = IF p \in Buddies THEN seq ELSE seq'
Deliver(p) ==
  /\ seq' = (seq + 1) % SeqSpace
  /\ heard' = heard \cup {p}
  /\ lastseq' = seq'

(* xwrite, after the packet was encoded: it is sent, or the connection is  *)
(* lost and the record freed, or the handle is one that no longer exists.  *)
xwrite(p) ==
  \/ /\ handle \in open
     /\ Deliver(p)
     /\ UNCHANGED <<recVars, loopVars, stale>>
  \/ /\ handle \in open
     /\ Release
     /\ seq' = (seq + 1) % SeqSpace
     /\ UNCHANGED <<heard, lastseq>>
  \/ /\ handle \notin open
     /\ stale' = TRUE
     /\ UNCHANGED <<recVars, loopVars, wireVars>>

-----------------------------------------------------------------------------
(* Connecting. *)

(* irssi's /CONNECT or its reconnection timer: icq_server_init_connect and *)
(* icq_server_connect create a zeroed record and start to connect.         *)
Connect ==
  /\ ~stale /\ pc = "idle" /\ sock = "none"
  /\ sock' = "connecting" /\ failed' = {}
  /\ UNCHANGED <<handle, readtag, connected, usermode_away, handlerVars, loopVars, peerVars,
                 wireVars, userVars, stale>>

ConnectFailed ==
  /\ ~stale /\ pc = "idle" /\ sock = "connecting"
  /\ sock' = "none"
  /\ UNCHANGED <<handle, readtag, connected, usermode_away, handlerVars, loopVars, peerVars,
                 wireVars, userVars, failed, stale>>

(* irssi emits "server connected": sig_server_connected calls icq_login,   *)
(* which first tries to read.                                              *)
Connected ==
  /\ ~stale /\ pc = "idle" /\ sock = "connecting"
  /\ sock' = "up"
  /\ \E c \in NewConns : handle' = c /\ open' = open \cup {c}
  /\ OpenAs("login")
  /\ pc' = "loginread"
  /\ UNCHANGED <<readtag, connected, usermode_away, todo, job, watches, seq, userVars, failed, stale>>

(* xread inside icq_login: some packets, or none yet ... *)
LoginRead ==
  /\ ~stale /\ pc = "loginread" /\ sock = "up"
  /\ \E n \in 0 .. Len(net) :
       /\ todo' = SubSeq(net, 1, n)
       /\ net' = SubSeq(net, n + 1, Len(net))
  /\ pc' = "loginparse"
  /\ UNCHANGED <<recVars, job, loopVars, role, said, eof, wireVars, userVars,
                 failed, stale>>

(* ... or an error, after which icq_login goes on with the freed record.   *)
LoginReadError ==
  /\ ~stale /\ pc = "loginread" /\ sock = "up"
  /\ Release
  /\ failed' = failed \cup {"loginread"} /\ pc' = "loginparse"
  /\ UNCHANGED <<todo, job, peerVars, wireVars, userVars>>

(* The packets are processed: icq_send_login, unless there is no password. *)
LoginSend ==
  /\ ~stale /\ pc = "loginparse" /\ sock = "up" /\ todo = <<>> /\ job = <<>>
  /\ job' = IF HasPassword THEN <<"login">> ELSE <<>>
  /\ pc' = "loginsend"
  /\ UNCHANGED <<recVars, todo, loopVars, peerVars, wireVars, userVars, failed, stale>>

(* The end of sig_server_connected: the event loop watches the connection. *)
LoginWatch ==
  /\ ~stale /\ pc = "loginsend" /\ sock = "up" /\ job = <<>>
  /\ readtag' = handle /\ watches' = watches \cup {handle}
  /\ pc' = "idle"
  /\ UNCHANGED <<sock, handle, connected, usermode_away, todo, job, open, peerVars,
                 wireVars, userVars, failed, stale>>

-----------------------------------------------------------------------------
(* icq_parse_incoming, called by the event loop. *)

ReadPackets ==
  /\ ~stale /\ pc = "idle" /\ sock = "up" /\ handle \in watches
  /\ \E n \in 1 .. Len(net) :
       /\ todo' = SubSeq(net, 1, n)
       /\ net' = SubSeq(net, n + 1, Len(net))
  /\ pc' = "parse"
  /\ UNCHANGED <<recVars, job, loopVars, role, said, eof, wireVars, userVars,
                 failed, stale>>

(* The end of the stream or an error: the handler returns at once. *)
Mut_ReadErrorGoesOn ==
  /\ ~stale /\ pc = "idle" /\ sock = "up" /\ handle \in watches
  /\ Release
  /\ pc' = "parse"
  /\ UNCHANGED <<todo, job, peerVars, wireVars, userVars, failed>>
ReadError ==
  /\ ~stale /\ pc = "idle" /\ sock = "up" /\ handle \in watches
  /\ Release
  /\ UNCHANGED <<handlerVars, peerVars, wireVars, userVars, failed>>

Parsing(kind) ==
  /\ ~stale /\ pc \in {"parse", "loginparse"} /\ sock = "up"
  /\ job = <<>> /\ todo # <<>> /\ Head(todo) = kind
  /\ todo' = Tail(todo)

(* Channel 4 with a cookie and an address, icq_reconnect: the old watch    *)
(* and handle are dropped, a blocking net_connect opens the new one.       *)
Mut_RedirectNoWatch ==
  /\ Parsing("redirect")
  /\ \E c \in NewConns :
       /\ handle' = c /\ readtag' = c
       /\ open' = (open \ {handle}) \cup {c}
       /\ watches' = watches \ {readtag}
  /\ OpenAs("bos")
  /\ job' = <<"cookie">>
  /\ UNCHANGED <<sock, connected, usermode_away, pc, seq, userVars, failed, stale>>
Redirect ==
  /\ Parsing("redirect")
  /\ \E c \in NewConns :
       /\ handle' = c /\ readtag' = c
       /\ open' = (open \ {handle}) \cup {c}
       /\ watches' = (watches \ {readtag}) \cup {c}
  /\ OpenAs("bos")
  /\ job' = <<"cookie">>
  /\ UNCHANGED <<sock, connected, usermode_away, pc, seq, userVars, failed, stale>>

(* net_connect fails: the record keeps the destroyed handle and the tag.   *)
RedirectFailed ==
  /\ Parsing("redirect")
  /\ open' = open \ {handle} /\ watches' = watches \ {readtag}
  /\ failed' = failed \cup {"redirect"}
  /\ UNCHANGED <<recVars, pc, job, peerVars, wireVars, userVars, stale>>

(* Channel 4 without a cookie ("Got no cookie!"), and packets that are     *)
(* ignored or concern only the contact list.                               *)
Ignored ==
  /\ \E kind \in {"refuse", "hello", "event"} : Parsing(kind)
  /\ UNCHANGED <<recVars, pc, job, loopVars, peerVars, wireVars, userVars, failed, stale>>

ServerReady ==
  /\ Parsing("ready")
  /\ job' = <<"data23", "clientready">>
  /\ UNCHANGED <<recVars, pc, loopVars, peerVars, wireVars, userVars, failed, stale>>

HashRequest ==
  /\ Parsing("hash")
  /\ job' = <<"hashreply">>
  /\ UNCHANGED <<recVars, pc, loopVars, peerVars, wireVars, userVars, failed, stale>>

(* SNAC 1/f: the away state is stored and "away mode changed" emitted with *)
(* one argument.  cmd_away receives it with a NULL server and returns with *)
(* the error "not connected": my_status is not touched.                    *)
MyStatus ==
  /\ Parsing("mystatus")
  /\ usermode_away' \in BOOLEAN
  /\ UNCHANGED <<sock, handle, readtag, connected, pc, job, loopVars, peerVars,
                 wireVars, userVars, failed, stale>>

(* SNAC b/2: login accepted. *)
Mut_ForgetFirst(S) == IF S = {} THEN <<>> ELSE Tail(SetToSeq(S))
buddy_forall(S) == SetToSeq(S)
LoginAccepted ==
  /\ Parsing("accepted")
  /\ connected' = TRUE
  /\ job' = buddy_forall(listed) \o <<"setstatus">>
  /\ skipped' = {}
  /\ UNCHANGED <<sock, handle, readtag, usermode_away, pc, loopVars, peerVars, wireVars,
                 my_status, listed, wanted, failed, stale>>

(* The handler sends its next packet. *)
SendNext ==
  /\ ~stale /\ pc # "idle" /\ sock = "up" /\ job # <<>>
  /\ xwrite(Head(job))
  /\ job' = Tail(job)
  /\ failed' = IF sock' = "none" THEN failed \cup {"write"} ELSE failed
  /\ UNCHANGED <<pc, todo, peerVars, userVars>>

ParseDone ==
  /\ ~stale /\ pc = "parse" /\ sock = "up" /\ todo = <<>> /\ job = <<>>
  /\ pc' = "idle"
  /\ UNCHANGED <<recVars, todo, job, loopVars, peerVars, wireVars, userVars, failed, stale>>

(* A handler goes on after the record was freed: the rest of icq_login or  *)
(* sig_server_connected, the next packet, or sock->inbufp = buf.           *)
UseFreedRecord ==
  /\ ~stale /\ pc # "idle" /\ sock = "none"
  /\ stale' = TRUE
  /\ UNCHANGED <<recVars, handlerVars, loopVars, peerVars, wireVars, userVars, failed>>

-----------------------------------------------------------------------------
(* Commands of the user, between handlers. *)
Command == ~stale /\ pc = "idle" /\ sock = "up" /\ connected

cmd_addbuddy(b) ==
  /\ Command
  /\ listed' = listed \cup {b} /\ skipped' = skipped \ {b}
  /\ xwrite(b)
  /\ UNCHANGED <<handlerVars, peerVars, my_status, wanted, failed>>

Mut_send_message ==
  /\ ~stale /\ pc = "idle" /\ sock = "up"
  /\ xwrite("msg")
  /\ UNCHANGED <<handlerVars, peerVars, userVars, failed>>
send_message ==
  /\ Command
  /\ xwrite("msg")
  /\ UNCHANGED <<handlerVars, peerVars, userVars, failed>>

(* /AWAY: the plugin binds no command of that name, so nothing happens. *)
Away(status) ==
  /\ Command
  /\ wanted' = status
  /\ UNCHANGED <<recVars, handlerVars, loopVars, peerVars, wireVars, my_status, listed,
                 skipped, failed, stale>>

(* /RELOAD: the list is replaced; the server is not told. *)
Reread(new) ==
  /\ ~stale /\ pc = "idle"
  /\ listed' = new /\ skipped' = new
  /\ UNCHANGED <<recVars, handlerVars, loopVars, peerVars, wireVars, my_status, wanted,
                 failed, stale>>

Disconnect ==
  /\ ~stale /\ pc = "idle" /\ sock = "up"
  /\ Release
  /\ UNCHANGED <<handlerVars, peerVars, wireVars, userVars, failed>>

-----------------------------------------------------------------------------
(* The servers (external): each answer is given once and in its turn. *)
May(kind) ==
  CASE kind = "hello" -> TRUE
    [] kind = "redirect" -> role = "login" /\ "login" \in heard /\ "refuse" \notin said
    [] kind = "refuse" -> role = "login" /\ "login" \in heard /\ "redirect" \notin said
    [] kind = "ready" -> role = "bos" /\ "cookie" \in heard
    [] kind = "accepted" -> role = "bos" /\ "clientready" \in heard
    [] OTHER -> "accepted" \in said /\ Len(net) < MaxNet

PeerSend(kind) ==
  /\ ~stale /\ handle \in open /\ ~eof /\ May(kind)
  /\ kind \in Answers => kind \notin said
  /\ "redirect" \notin said
  /\ net' = Append(net, kind)
  /\ said' = said \cup {kind}
  /\ UNCHANGED <<recVars, handlerVars, loopVars, role, eof, wireVars, userVars, failed, stale>>

PeerClose ==
  /\ ~stale /\ handle \in open /\ ~eof
  /\ eof' = TRUE
  /\ UNCHANGED <<recVars, handlerVars, loopVars, role, net, said, wireVars, userVars,
                 failed, stale>>

-----------------------------------------------------------------------------
Handler ==
  \/ LoginRead \/ LoginSend \/ LoginWatch
  \/ Redirect \/ RedirectFailed \/ Ignored \/ ServerReady \/ HashRequest \/ MyStatus
  \/ LoginAccepted \/ SendNext \/ ParseDone \/ UseFreedRecord

Next ==
  \/ Connect \/ ConnectFailed \/ Connected
  \/ LoginReadError \/ Handler \/ ReadPackets \/ ReadError
  \/ \E b \in Buddies : cmd_addbuddy(b)
  \/ send_message
  \/ \E s \in Statuses : Away(s)
  \/ \E new \in SUBSET Buddies : Reread(new)
  \/ Disconnect
  \/ PeerClose
  \/ \E kind \in Answers \cup Unsolicited : PeerSend(kind)

Spec == Init /\ [][Next]_vars

(* The event loop runs every handler to its end and calls                  *)
(* icq_parse_incoming whenever the connection is readable or at its end;   *)
(* the servers answer what they are asked, or close the connection.        *)
Fairness ==
  /\ WF_vars(Handler)
  /\ WF_vars(ReadPackets)
  /\ WF_vars(eof /\ net = <<>> /\ ReadError)
  /\ WF_vars(PeerSend("redirect") \/ PeerSend("refuse"))
  /\ WF_vars(PeerSend("ready"))
  /\ WF_vars(PeerSend("accepted"))

FairSpec == Spec /\ Fairness

-----------------------------------------------------------------------------
(* Type invariant. *)
TypeOK ==
  /\ sock \in {"none", "connecting", "up"}
  /\ handle \in Conns \cup {NULL} /\ readtag \in Conns \cup {0}
  /\ connected \in BOOLEAN /\ usermode_away \in BOOLEAN
  /\ seq \in 0 .. SeqSpace - 1 /\ my_status \in Statuses /\ listed \subseteq Buddies
  /\ pc \in {"idle", "loginread", "loginparse", "loginsend", "parse"}
  /\ todo \in Seq(Answers \cup Unsolicited) /\ job \in Seq(Sendable \cup Buddies)
  /\ watches \subseteq Conns /\ open \subseteq Conns
  /\ role \in {"login", "bos"} /\ net \in Seq(Answers \cup Unsolicited)
  /\ said \subseteq Answers \cup Unsolicited /\ eof \in BOOLEAN
  /\ heard \subseteq Sendable \cup Buddies /\ lastseq \in -1 .. SeqSpace - 1
  /\ failed \subseteq {"loginread", "redirect", "write"}
  /\ skipped \subseteq Buddies /\ wanted \in Statuses /\ stale \in BOOLEAN

(* Between handlers the event loop watches exactly the connection in       *)
(* sock->handle, readtag names that watch, and nothing else is open: a     *)
(* redirect, an error or a disconnect neither leaks a connection or a      *)
(* watch nor leaves the session deaf.  A redirect whose net_connect failed *)
(* is the exception.                                                       *)
WatchedWhileUp ==
  pc = "idle" /\ ~stale =>
    /\ sock = "up" /\ "redirect" \notin failed =>
         handle # NULL /\ open = {handle} /\ watches = {handle} /\ readtag = handle
    /\ sock = "none" => handle = NULL /\ open = {} /\ watches = {}

(* The freed record or handle is used only if, since the record was made,  *)
(* a write failed inside a handler, the read of icq_login failed, or       *)
(* net_connect failed in icq_reconnect.  An error or end of stream that    *)
(* the event loop reports, a failing write of a command and a disconnect   *)
(* by the user are safe at any time.                                       *)
StaleUseNeedsFailure == stale => failed # {}

(* Once the login is accepted, every contact in the list was announced on  *)
(* the present connection, except those that a reload has brought since.   *)
Announced == Command => listed \subseteq heard \cup skipped

(* Messages and contacts are sent only to the server that has accepted the *)
(* cookie and the login: no command reaches the login server or a          *)
(* connection that is still being set up.                                  *)
OnlyAfterLogin ==
  "msg" \in heard \/ heard \cap Buddies # {} =>
    "accepted" \in said /\ {"cookie", "clientready"} \subseteq heard

(* The sequence numbers that a server receives are consecutive modulo the  *)
(* width of the field, although the counter is shared by all connections.  *)
SeqConsecutive ==
  [][lastseq # -1 => lastseq' \in {lastseq, -1, (lastseq + 1) % SeqSpace}]_vars

(* A login that is begun with a password is accepted, refused or ended by  *)
(* an error.                                                               *)
EventuallyLoggedIn ==
  sock = "up" /\ HasPassword ~>
    connected \/ sock = "none" \/ stale \/ "refuse" \in said \/ "redirect" \in failed

(* README: "/AWAY {na|away|ffc|occ|dnd} set your status". *)
AwaySetsStatus == Command => my_status = wanted
=============================================================================
