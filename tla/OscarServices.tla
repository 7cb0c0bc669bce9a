---------------------------- MODULE OscarServices ----------------------------
(***************************************************************************)
(* The service connections of gaim's oscar plugin (oscar.c) on libfaim's   *)
(* list of connections and queue of outgoing frames (conn.c, txqueue.c,    *)
(* rxqueue.c).  Beside the connection to the BOS server, a session opens   *)
(* others as it needs them: to the authorizer (account settings), the      *)
(* chat navigator, chat rooms, the icon server and the mail server.        *)
(*                                                                         *)
(* A service is asked for on the BOS connection; the server answers with a *)
(* redirect; a connection structure is made and a connect is started; the  *)
(* callback of that connect, except for a chat room, looks for "the"       *)
(* connection of its type.  What the user wanted waits in flags meanwhile. *)
(*                                                                         *)
(* The k-th redirect makes connection k and starts the connect that yields *)
(* socket k; 0 stands for fd -1 and for NULL.                              *)
(***************************************************************************)
EXTENDS Integers, Sequences, FiniteSets, SequencesExt

CONSTANTS
  Wishes,      \* the sequence of account requests, as conninitdone_admin sees
               \* them: chpass, setnick, conf, reqemail, setemail
  Buddies,     \* screen names with an icon
  Email,       \* set of Booleans: does the account have an email address?
  MaxActs,     \* number of requests of the user and of new icons
  MaxFails,    \* number of connects that fail and connections that break
  MaxConns     \* bound on the connections made

ASSUME BoundsAssumption == MaxActs \in Nat /\ MaxFails \in Nat /\ MaxConns \in Nat
ASSUME NamesAssumption ==
  Wishes \in Seq(ToSet(Wishes)) /\ "cookie" \notin ToSet(Wishes) \cup Buddies

VARIABLES
  faim,      \* the libfaim session
  od,        \* struct oscar_data
  watches,   \* inputs of the main loop, [sock, conn, type]
  dials,     \* connects under way, [sock, type]
  inbox,     \* inbox[s]: what the server has sent on socket s, not yet read
  served,    \* served[s]: number of frames on socket s that the server has
             \* processed; Dead once it has closed
  status,    \* "on", signed "off", or what ended the program: a pointer that
             \* is "freed", a read that "hung"
  acts,      \* number of requests so far
  fails,     \* number of failures so far
  lost       \* services of which a connect has failed or a connection broken

vars == <<faim, od, watches, dials, inbox, served, status, acts, fails, lost>>

Types == {"auth", "chatnav", "chat", "icon", "email"}
Slots == Types \ {"chat"}        \* paspa, cnpa, icopa, emlpa
Socks == 1 .. MaxConns
Dead == -1

(* The elements of list that are in S, in their order. *)
Only(list, S) ==
  LET kept[i \in 0 .. Len(list)] ==
        IF i = 0 THEN <<>>
        ELSE IF list[i] \in S THEN Append(kept[i - 1], list[i]) ELSE kept[i - 1]
  IN  kept[Len(list)]

-----------------------------------------------------------------------------
(* libfaim.  f is a session: connlist and queue_outgoing, both by the      *)
(* number of the connection (the list has the newest one first; frames of  *)
(* different connections go to different sockets, so only the order of the *)
(* frames of one matters), the frames written to each socket, the sockets  *)
(* closed, the services asked for and not yet answered, those asked for    *)
(* while there was already a request or a connection of that type, and the *)
(* types of the connections made so far.                                   *)

Known(f, id) == id \in DOMAIN f.connlist
Conn(f, id) == f.connlist[id]

Newest(ids) == IF ids = {} THEN 0 ELSE Max(ids)
OfType(f, t) == {i \in DOMAIN f.connlist : Conn(f, i).type = t}
aim_getconn_type(f, t) == Newest({i \in OfType(f, t) : ~Conn(f, i).inprogress})
aim_getconn_type_all(f, t) == Newest(OfType(f, t))
aim_conn_findbygroup(f, t) == Newest({i \in DOMAIN f.connlist : Conn(f, i).groups = {t}})

(* Frames are sent on the fd of their connection; on fd -1 they go         *)
(* nowhere, and nobody is told.                                            *)
aim_tx_sendframe(f, id, frames) ==
  IF Conn(f, id).fd = 0 THEN f ELSE [f EXCEPT !.wire[Conn(f, id).fd] = @ \o frames]

NextFrames(f, id, whats) ==
  [k \in 1 .. Len(whats) |-> [conn |-> id, seqnum |-> Conn(f, id).seqnum + k, what |-> whats[k]]]
Numbered(f, id, whats) == [f EXCEPT !.connlist[id].seqnum = @ + Len(whats)]

(* The plugin asks for AIM_TX_IMMEDIATE; a connection in progress forces   *)
(* the queue.                                                              *)
Mut_enqueueAlwaysNow(f, id, whats) ==
  aim_tx_sendframe(Numbered(f, id, whats), id, NextFrames(f, id, whats))
aim_tx_enqueue(f, id, whats) ==
  IF Conn(f, id).inprogress
  THEN [Numbered(f, id, whats) EXCEPT !.queue[id] = @ \o NextFrames(f, id, whats)]
  ELSE aim_tx_sendframe(Numbered(f, id, whats), id, NextFrames(f, id, whats))

(* Of every connection that is not in progress the frames are sent, and    *)
(* what is sent is purged.  A socket is the fd of one connection at most:  *)
(* the callback of its connect is the only one to hand it out.             *)
Flushable(f) == {i \in DOMAIN f.connlist : ~Conn(f, i).inprogress}
Writers(f, s) == {i \in Flushable(f) : Conn(f, i).fd = s}
aim_tx_flushqueue(f) ==
  [f EXCEPT !.wire = [s \in Socks |-> IF Writers(f, s) = {} THEN @[s]
                                      ELSE @[s] \o f.queue[Newest(Writers(f, s))]],
            !.queue = [i \in Socks |-> IF i \in Flushable(f) THEN <<>> ELSE @[i]]]

(* They are marked as handled: never sent, and purged with the next flush. *)
aim_tx_cleanqueue(f, id) == [f EXCEPT !.queue[id] = <<>>]

aim_newconn(f, t) ==
  LET id == Len(f.types) + 1
      c  == [type |-> t, fd |-> 0, inprogress |-> TRUE, seqnum |-> 0, groups |-> {}]
  IN  [f EXCEPT !.types = Append(@, t),
                !.connlist = [i \in DOMAIN @ \cup {id} |-> IF i = id THEN c ELSE @[i]]]

Mut_killKeepsFrames(f, id) ==
  IF ~Known(f, id) THEN f
  ELSE [f EXCEPT !.connlist = Restrict(@, DOMAIN @ \ {id}),
                 !.closed = @ \cup ({Conn(f, id).fd} \ {0})]
Mut_killDropsTail(f, id) ==
  IF ~Known(f, id) THEN f
  ELSE [aim_tx_cleanqueue(f, id) EXCEPT
          !.connlist = Restrict(@, {i \in DOMAIN @ : i > id}),
          !.closed = @ \cup ({Conn(f, id).fd} \ {0})]
aim_conn_kill(f, id) ==
  IF ~Known(f, id) THEN f
  ELSE [aim_tx_cleanqueue(f, id) EXCEPT
          !.connlist = Restrict(@, DOMAIN @ \ {id}),
          !.closed = @ \cup ({Conn(f, id).fd} \ {0})]

aim_conn_completeconnect(f, id) ==
  IF Conn(f, id).fd = 0 \/ ~Conn(f, id).inprogress THEN f
  ELSE aim_tx_flushqueue([f EXCEPT !.connlist[id].inprogress = FALSE])

NoneAsked == [t \in Types |-> 0]
NoFrames == [s \in Socks |-> <<>>]
NoMail == [s \in Socks |-> <<>>]
NoneServed == [s \in Socks |-> 0]

(* With the connections goes all that was under way on them. *)
aim_connrst(f) ==
  [f EXCEPT !.closed = @ \cup ({Conn(f, i).fd : i \in DOMAIN f.connlist} \ {0}),
            !.connlist = <<>>, !.asked = NoneAsked, !.wire = NoFrames, !.queue = NoFrames]

Sought(f, t) == f.asked[t] > 0 \/ aim_getconn_type_all(f, t) # 0
aim_reqservice(f, t) ==
  [f EXCEPT !.asked[t] = @ + 1,
            !.doubled = IF t # "chat" /\ Sought(f, t) THEN @ \cup {t} ELSE @]

(* aim_bart_upload, aim_bart_request *)
Bart(f, what) ==
  LET id == aim_conn_findbygroup(f, "icon") IN IF id = 0 THEN f ELSE aim_tx_enqueue(f, id, <<what>>)

-----------------------------------------------------------------------------
(* What the user and the other users do.                                   *)

On == status = "on"
Act == On /\ acts < MaxActs /\ acts' = acts + 1

(* oscar_change_passwd, oscar_format_screenname, oscar_confirm_account,    *)
(* oscar_show_email, oscar_change_email                                    *)
AccountRequest(w) ==
  LET id == aim_getconn_type(faim, "auth")
  IN  /\ Act
      /\ IF id # 0 THEN /\ faim' = aim_tx_enqueue(faim, id, <<w>>)
                        /\ UNCHANGED od
         ELSE /\ faim' = aim_reqservice(faim, "auth")
              /\ od' = [od EXCEPT !.wishes = @ \cup {w}]
      /\ UNCHANGED <<watches, dials, inbox, served, status, fails, lost>>

oscar_join_chat ==
  LET id == aim_getconn_type(faim, "chatnav")
  IN  /\ Act
      /\ IF id # 0 THEN /\ faim' = aim_tx_enqueue(faim, id, <<"createroom">>)
                        /\ UNCHANGED od
         ELSE /\ faim' = aim_reqservice(faim, "chatnav")
              /\ od' = [od EXCEPT !.create_rooms = @ + 1]
      /\ UNCHANGED <<watches, dials, inbox, served, status, fails, lost>>

oscar_chat_leave(c) ==
  /\ Act /\ c.joined
  /\ od' = [od EXCEPT !.chats = @ \ {c}]
  /\ watches' = {w \in watches : w.sock # c.inpa}
  /\ faim' = aim_conn_kill(faim, c.conn)
  /\ UNCHANGED <<dials, inbox, served, status, fails, lost>>

(* The part of gaim_parse_oncoming that is about icons. *)
Mut_gaim_parse_oncomingTwice(b) ==
  /\ Act
  /\ od' = [od EXCEPT !.requesticon = Append(@, b), !.icontimer = TRUE]
  /\ UNCHANGED <<faim, watches, dials, inbox, served, status, fails, lost>>
gaim_parse_oncoming(b) ==
  /\ Act
  /\ IF b \in ToSet(od.requesticon) THEN UNCHANGED od
     ELSE od' = [od EXCEPT !.requesticon = Append(@, b), !.icontimer = TRUE]
  /\ UNCHANGED <<faim, watches, dials, inbox, served, status, fails, lost>>

(* The server asks for our icon (flags 0x41). *)
oscar_icon_req ==
  /\ Act
  /\ IF aim_getconn_type(faim, "icon") = 0 /\ ~od.iconconnecting
     THEN /\ od' = [od EXCEPT !.iconconnecting = TRUE, !.set_icon = TRUE]
          /\ faim' = aim_reqservice(faim, "icon")
     ELSE /\ faim' = Bart(faim, "upload")
          /\ UNCHANGED od
  /\ UNCHANGED <<watches, dials, inbox, served, status, fails, lost>>

(* It returns TRUE, and so is called again, only if it has dropped a name  *)
(* without a checksum; the names in requesticon have one.                  *)
gaim_icon_timerfunc ==
  /\ On /\ od.icontimer
  /\ IF aim_getconn_type(faim, "icon") = 0
     THEN /\ faim' = IF od.iconconnecting THEN faim ELSE aim_reqservice(faim, "icon")
          /\ od' = [od EXCEPT !.icontimer = FALSE, !.iconconnecting = TRUE]
     ELSE LET f == IF od.set_icon THEN Bart(faim, "upload") ELSE faim
          IN  /\ faim' = IF od.requesticon = <<>> THEN f ELSE Bart(f, Head(od.requesticon))
              /\ od' = [od EXCEPT !.icontimer = FALSE, !.set_icon = FALSE]
  /\ UNCHANGED <<watches, dials, inbox, served, status, acts, fails, lost>>

-----------------------------------------------------------------------------
(* Redirects and connects.                                                 *)

Fail == fails < MaxFails /\ fails' = fails + 1

(* started: did gaim_proxy_connect succeed in starting the connect?        *)
gaim_handle_redirect(t, started) ==
  LET f  == aim_newconn([faim EXCEPT !.asked[t] = @ - 1], t)
      id == Len(f.types)
  IN  /\ On /\ faim.asked[t] > 0 /\ id \in Socks
      /\ IF started THEN /\ faim' = aim_tx_enqueue(f, id, <<"cookie">>)
                         /\ dials' = dials \cup {[sock |-> id, type |-> t]}
                         /\ UNCHANGED <<lost, fails>>
         ELSE /\ Fail
              /\ faim' = aim_conn_kill(f, id)
              /\ lost' = lost \cup {t}
              /\ UNCHANGED dials
      /\ UNCHANGED <<od, watches, inbox, served, status, acts>>

(* The connection that the callback of a connect takes for its own:        *)
(* ccon->conn for a chat room, else the newest of that type.  The code     *)
(* does not test for NULL: see ConnectFindsConn.                           *)
Taken(d) == IF d.type = "chat" THEN d.sock ELSE aim_getconn_type_all(faim, d.type)

(* oscar_auth_connect, oscar_chatnav_connect, oscar_chat_connect,          *)
(* oscar_email_connect, oscar_icon_connect                                 *)
Connected(d) ==
  LET id == Taken(d)
  IN  /\ On
      /\ faim' = aim_conn_completeconnect([faim EXCEPT !.connlist[id].fd = d.sock], id)
      /\ watches' = watches \cup {[sock |-> d.sock, conn |-> id, type |-> d.type]}
      /\ od' = IF d.type = "chat"
               THEN [od EXCEPT !.chats = @ \cup {[conn |-> id, inpa |-> d.sock, joined |-> FALSE]}]
               ELSE [od EXCEPT !.slot[d.type] = d.sock]
      /\ dials' = dials \ {d}
      /\ UNCHANGED <<inbox, served, status, acts, fails, lost>>

ConnectFailed(d) ==
  /\ On /\ Fail
  /\ faim' = aim_conn_kill([faim EXCEPT !.connlist[Taken(d)].fd = 0], Taken(d))
  /\ lost' = lost \cup {d.type}
  /\ dials' = dials \ {d}
  /\ UNCHANGED <<od, watches, inbox, served, status, acts>>

(* The account has signed off meanwhile: "close(source)" if it has signed  *)
(* on again; else proxy.c calls nobody, and the socket stays open (module  *)
(* GaimProxy).  What else the new session does is not modelled.            *)
ConnectTooLate(d) ==
  /\ status = "off"
  /\ dials' = dials \ {d}
  /\ faim' \in {faim, [faim EXCEPT !.closed = @ \cup {d.sock}]}
  /\ UNCHANGED <<od, watches, inbox, served, status, acts, fails, lost>>

-----------------------------------------------------------------------------
(* What arrives on a service connection.                                   *)

(* id's server has told its families; it gets our versions. *)
hostonline(id) ==
  /\ faim' = aim_tx_enqueue([faim EXCEPT !.connlist[id].groups = {Conn(faim, id).type}],
                            id, <<"versions">>)
  /\ UNCHANGED od

conninitdone_admin(id) ==
  /\ faim' = aim_tx_enqueue(faim, id, <<"clientready">> \o Only(Wishes, od.wishes))
  /\ od' = [od EXCEPT !.wishes = {}]

conninitdone_chatnav(id) ==
  faim' = aim_tx_enqueue(faim, id, <<"clientready", "reqrights">>) /\ UNCHANGED od

conninitdone_email(id) ==
  faim' = aim_tx_enqueue(faim, id, <<"cookies", "activate", "clientready">>) /\ UNCHANGED od

Mut_conninitdone_iconNoTimer(id) ==
  /\ faim' = aim_tx_enqueue(faim, id, <<"clientready">>)
  /\ od' = [od EXCEPT !.iconconnecting = FALSE]
conninitdone_icon(id) ==
  /\ faim' = aim_tx_enqueue(faim, id, <<"clientready">>)
  /\ od' = [od EXCEPT !.iconconnecting = FALSE, !.icontimer = TRUE]

conninitdone_chat(id) ==
  /\ faim' = aim_tx_enqueue(faim, id, <<"clientready">>)
  /\ od' = [od EXCEPT !.chats = {[c EXCEPT !.joined = @ \/ c.conn = id] : c \in @}]

(* The rates have come: "Finally, tell the client it's ready to go..." *)
ConnInitDone(id) ==
  LET t == Conn(faim, id).type
  IN  \/ t = "auth" /\ conninitdone_admin(id)
      \/ t = "chatnav" /\ conninitdone_chatnav(id)
      \/ t = "email" /\ conninitdone_email(id)
      \/ t = "icon" /\ conninitdone_icon(id)
      \/ t = "chat" /\ conninitdone_chat(id)

(* The rights of the chat navigator, and a room that has been created. *)
gaim_chatnav_info(id, msg) ==
  \/ /\ msg = "rights"
     /\ faim' = aim_tx_enqueue(faim, id, [i \in 1 .. od.create_rooms |-> "createroom"])
     /\ od' = [od EXCEPT !.create_rooms = 0]
  \/ /\ msg = "room"
     /\ faim' = aim_reqservice(faim, "chat")
     /\ UNCHANGED od

gaim_icon_parseicon(b) ==
  /\ od' = [od EXCEPT !.requesticon = Only(@, Buddies \ {b}), !.icontimer = TRUE]
  /\ UNCHANGED faim

gaim_icon_error ==
  /\ od' = [od EXCEPT !.requesticon = Tail(@), !.icontimer = TRUE]
  /\ UNCHANGED faim

Dispatch(id, msg) ==
  \/ msg = "host" /\ hostonline(id)
  \/ msg = "rates" /\ ConnInitDone(id)
  \/ gaim_chatnav_info(id, msg)
  \/ msg \in Buddies /\ gaim_icon_parseicon(msg)
  \/ msg = "iconerror" /\ od.requesticon # <<>> /\ gaim_icon_error

(* A connection whose read fails.  Its input is the one in the slot of its *)
(* type, or of its chat room.                                              *)
Mut_DisconnectedStaysWatched(id) ==
  /\ faim' = aim_conn_kill(faim, id)
  /\ lost' = lost \cup {Conn(faim, id).type}
  /\ od' = IF Conn(faim, id).type = "chat" THEN od
           ELSE [od EXCEPT !.slot[Conn(faim, id).type] = 0]
  /\ UNCHANGED watches
Disconnected(id) ==
  LET t == Conn(faim, id).type
  IN  /\ faim' = aim_conn_kill(faim, id)
      /\ lost' = lost \cup {t}
      /\ IF t = "chat"
         THEN /\ watches' = {w \in watches : \A n \in od.chats : n.conn = id => w.sock # n.inpa}
              /\ od' = [od EXCEPT !.chats =
                          {IF n.conn = id THEN [n EXCEPT !.conn = 0, !.inpa = 0] ELSE n : n \in @}]
         ELSE /\ watches' = {w \in watches : w.sock # od.slot[t]}
              /\ od' = [od EXCEPT !.slot[t] = 0,
                                  !.create_rooms = IF t = "chatnav" THEN 0 ELSE @]

Readable(w) == inbox[w.sock] # <<>> /\ w.sock \notin faim.closed

(* The input of socket w.sock fires; it is the fd of its connection that   *)
(* is read.                                                                *)
oscar_callback(w) ==
  LET c == Conn(faim, w.conn)
  IN  /\ On /\ Readable(w) /\ Known(faim, w.conn) /\ inbox[c.fd] # <<>>
      /\ IF Head(inbox[c.fd]) = "eof" THEN Disconnected(w.conn)
         ELSE Dispatch(w.conn, Head(inbox[c.fd])) /\ UNCHANGED <<watches, lost>>
      /\ inbox' = [inbox EXCEPT ![c.fd] = Tail(@)]
      /\ UNCHANGED <<dials, served, status, acts, fails>>

(* The connection has been freed; or recv waits on another socket than the *)
(* one that is readable; or an icon error comes with no icon requested.    *)
CallbackFails(w) ==
  /\ On /\ Readable(w)
  /\ \/ ~Known(faim, w.conn) /\ status' = "freed"
     \/ Known(faim, w.conn) /\ inbox[Conn(faim, w.conn).fd] = <<>> /\ status' = "hung"
     \/ /\ Known(faim, w.conn) /\ inbox[Conn(faim, w.conn).fd] # <<>>
        /\ Head(inbox[Conn(faim, w.conn).fd]) = "iconerror" /\ od.requesticon = <<>>
        /\ status' = "freed"
  /\ UNCHANGED <<faim, od, watches, dials, inbox, served, acts, fails, lost>>

-----------------------------------------------------------------------------
(* Signing off.                                                            *)

NewOd == [wishes |-> {}, create_rooms |-> 0, iconconnecting |-> FALSE, requesticon |-> <<>>,
          set_icon |-> FALSE, icontimer |-> FALSE, slot |-> [t \in Slots |-> 0], chats |-> {}]

oscar_close ==
  /\ On
  /\ status' = "off"
  /\ watches' = {w \in watches : /\ \A t \in Slots : w.sock # od.slot[t]
                                 /\ \A n \in od.chats : w.sock # n.inpa}
  /\ faim' = aim_connrst(faim)
  /\ od' = NewOd
  /\ inbox' = NoMail /\ served' = NoneServed
  /\ UNCHANGED <<dials, acts, fails, lost>>

-----------------------------------------------------------------------------
(* The servers.                                                            *)

(* What the server of socket s answers to the i-th frame; icon is what it  *)
(* answers to a request for an icon.                                       *)
Reply(s, i, icon) ==
  LET fr == faim.wire[s][i]
  IN  CASE i = 1 -> IF fr.what = "cookie" /\ fr.conn = s THEN <<"host">> ELSE <<"eof">>
        [] fr.what = "versions" -> <<"rates">>
        [] fr.what = "reqrights" -> <<"rights">>
        [] fr.what = "createroom" -> <<"room">>
        [] fr.what \in Buddies -> <<IF icon THEN fr.what ELSE "iconerror">>
        [] OTHER -> <<>>

Server(s, icon) ==
  LET todo    == served[s] + 1 .. Len(faim.wire[s])
      replies == FlattenSeq([k \in 1 .. Cardinality(todo) |-> Reply(s, served[s] + k, icon)])
  IN  /\ On /\ served[s] # Dead /\ todo # {} /\ s \notin faim.closed
      /\ IF icon THEN UNCHANGED fails
         ELSE Fail /\ \E i \in todo : faim.wire[s][i].what \in Buddies
      /\ inbox' = [inbox EXCEPT ![s] = @ \o replies]
      /\ served' = [served EXCEPT ![s] = IF "eof" \in ToSet(replies) THEN Dead ELSE Len(faim.wire[s])]
      /\ UNCHANGED <<faim, od, watches, dials, status, acts, lost>>

ServerCloses(s) ==
  /\ On /\ served[s] > 0 /\ s \notin faim.closed /\ Fail
  /\ inbox' = [inbox EXCEPT ![s] = Append(@, "eof")]
  /\ served' = [served EXCEPT ![s] = Dead]
  /\ UNCHANGED <<faim, od, watches, dials, status, acts, lost>>

-----------------------------------------------------------------------------
(* After gaim_bosrights, which asks for the chat navigator and, if the     *)
(* account has an address, for the mail server; that counts as a request.  *)
Init ==
  /\ \E email \in Email :
       /\ acts = IF email THEN 1 ELSE 0
       /\ faim = [connlist |-> <<>>, queue |-> NoFrames, wire |-> NoFrames, closed |-> {},
                  types |-> <<>>, doubled |-> {},
                  asked |-> [NoneAsked EXCEPT !.chatnav = 1, !.email = IF email THEN 1 ELSE 0]]
  /\ od = NewOd
  /\ watches = {} /\ dials = {} /\ lost = {}
  /\ inbox = NoMail /\ served = NoneServed
  /\ status = "on" /\ fails = 0

Next ==
  \/ \E w \in ToSet(Wishes) : AccountRequest(w)
  \/ oscar_join_chat
  \/ \E c \in od.chats : oscar_chat_leave(c)
  \/ \E b \in Buddies : gaim_parse_oncoming(b)
  \/ oscar_icon_req
  \/ gaim_icon_timerfunc
  \/ \E t \in Types, started \in BOOLEAN : gaim_handle_redirect(t, started)
  \/ \E d \in dials : Connected(d) \/ ConnectFailed(d) \/ ConnectTooLate(d)
  \/ \E w \in watches : oscar_callback(w) \/ CallbackFails(w)
  \/ oscar_close
  \/ \E s \in Socks : ServerCloses(s) \/ \E icon \in BOOLEAN : Server(s, icon)

Spec == Init /\ [][Next]_vars

-----------------------------------------------------------------------------
Whats == {"cookie", "versions", "clientready", "reqrights", "createroom", "cookies",
          "activate", "upload"} \cup ToSet(Wishes) \cup Buddies
Frames == [conn : Socks, seqnum : Nat, what : Whats]
Conns == [type : Types, fd : 0 .. MaxConns, inprogress : BOOLEAN, seqnum : Nat,
          groups : SUBSET Types]

(* Every field holds a value of its type, and an icon is asked for once    *)
(* (gaim_parse_oncoming).                                                  *)
TypeOK ==
  /\ DOMAIN faim.connlist \subseteq Socks /\ \A i \in DOMAIN faim.connlist : Conn(faim, i) \in Conns
  /\ faim.queue \in [Socks -> Seq(Frames)]
  /\ faim.wire \in [Socks -> Seq(Frames)] /\ faim.closed \subseteq Socks
  /\ faim.types \in Seq(Types) /\ faim.asked \in [Types -> Nat] /\ faim.doubled \subseteq Slots
  /\ od.wishes \subseteq ToSet(Wishes) /\ od.create_rooms \in 0 .. MaxActs
  /\ od.requesticon \in Seq(Buddies) /\ IsInjective(od.requesticon)
  /\ {od.iconconnecting, od.set_icon, od.icontimer} \subseteq BOOLEAN
  /\ od.slot \in [Slots -> 0 .. MaxConns]
  /\ od.chats \subseteq [conn : 0 .. MaxConns, inpa : 0 .. MaxConns, joined : BOOLEAN]
  /\ watches \subseteq [sock : Socks, conn : Socks, type : Types]
  /\ dials \subseteq [sock : Socks, type : Types]
  /\ served \in [Socks -> Nat \cup {Dead}] /\ DOMAIN inbox = Socks
  /\ status \in {"on", "off", "freed", "hung"} /\ lost \subseteq Types

TypeOf(s) == IF s > Len(faim.types) THEN "none" ELSE faim.types[s]
Clear(t) == t \notin faim.doubled

(* The main loop watches the socket of every established connection for    *)
(* that connection, and nothing else: no input refers to a freed           *)
(* connection, or to one that reads another socket.  So it is for every    *)
(* service that was never asked for twice at a time, whatever fails, and   *)
(* after signing off (gaim_input_add and gaim_input_remove in              *)
(* oscar_*_connect, oscar_callback, oscar_chat_leave, oscar_close).        *)
WatchesLive ==
  /\ \A w \in watches : Clear(w.type) => /\ Known(faim, w.conn)
                                         /\ Conn(faim, w.conn).fd = w.sock
  /\ \A i \in DOMAIN faim.connlist : LET c == Conn(faim, i) IN
       Clear(c.type) /\ ~c.inprogress => \E w \in watches : w.conn = i /\ w.sock = c.fd

(* On every socket the server first gets the cookie of the redirect the    *)
(* socket was opened for, and then frames of the same connection with      *)
(* consecutive numbers, although the cookie waits in the queue and later   *)
(* frames are sent at once (aim_tx_enqueue, aim_conn_completeconnect).     *)
OwnCookieFirst ==
  \A s \in Socks : \A i \in DOMAIN faim.wire[s] : LET fr == faim.wire[s][i] IN
    Clear(TypeOf(s)) => fr.conn = s /\ fr.seqnum = i /\ (i = 1) = (fr.what = "cookie")

(* The callback of a connect finds a connection that is still in the list, *)
(* also when it is not the one it was started for: tstconn is never NULL   *)
(* and ccon->conn never freed (oscar_*_connect).                           *)
ConnectFindsConn == On => \A d \in dials : Known(faim, Taken(d))

(* A frame waits in queue_outgoing only for a connection that exists and   *)
(* whose connect is under way: none is left for a freed connection         *)
(* (aim_tx_cleanqueue) or for one that will never be completed.            *)
FramesAwaitConnect ==
  \A i \in Socks : faim.queue[i] # <<>> =>
    /\ Known(faim, i) /\ Conn(faim, i).inprogress
    /\ Clear(Conn(faim, i).type) => \E d \in dials : d.sock = i

(* The system is at rest: no answer, no connect, no input and no timer is  *)
(* to come, unless the user or another user does something.                *)
AtRest ==
  /\ On /\ faim.asked = NoneAsked /\ dials = {} /\ ~od.icontimer
  /\ \A w \in watches : ~Readable(w)
  /\ \A s \in Socks : \/ served[s] = Dead \/ s \in faim.closed
                       \/ served[s] = Len(faim.wire[s])

(* Nothing waits for a service for ever: when the system comes to rest,    *)
(* the account requests have been sent, the rooms created, the icons       *)
(* fetched, and the next icon may ask for its service again; unless a      *)
(* connection for the service failed or it was asked for twice at a time   *)
(* (od->chpass etc., create_rooms, requesticon, iconconnecting).           *)
Undisturbed(t) == t \notin lost /\ Clear(t)
NothingStranded ==
  AtRest => /\ Undisturbed("auth") => od.wishes = {}
            /\ Undisturbed("chatnav") => od.create_rooms = 0
            /\ Undisturbed("icon") => od.requesticon = <<>> /\ ~od.iconconnecting
=============================================================================
