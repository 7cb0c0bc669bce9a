------------------------------ MODULE IcqBuddy ------------------------------
(***************************************************************************)
(* The contact list of the plugin (core/icq-buddy.c), the query windows    *)
(* that depend on it (core/icq-queries.c) and the handlers that write to   *)
(* them: /ADDBUDDY, incoming messages, mode changes, "login accepted",     *)
(* /SAVE, /RELOAD and the loading of the buddy file.                       *)
(*                                                                         *)
(* The list is searched front to back and is only ever prepended to, so a  *)
(* contact that is added again shadows its older entries.                  *)
(***************************************************************************)
EXTENDS Integers, Sequences, SequencesExt

CONSTANTS
  Uins,        \* strings used as user numbers
  Digits,      \* those of them that consist of digits only
  Aliases,     \* strings used as nicknames
  Fold,        \* Fold[s]: the lower-case form of a string (strcasecmp, query_find)
  Clip,        \* Clip[a]: what fgets(line, 80) leaves of an alias
  Modes,       \* the status codes the server reports
  OFFLINE,     \* the code of "offline"
  Reporters,   \* the users the server sends messages and mode changes about
  Pairs,       \* the <<user, alias>> pairs that /ADDBUDDY is given
  Files,       \* the buddy files the user may start with
  MaxBuddies, MaxQueries   \* bounds of the model

Names == Uins \cup Aliases
Entry == [uin : Uins, alias : Aliases]      \* a line of the buddy file

ASSUME NameAssumption ==
  /\ Digits \subseteq Uins /\ Reporters \subseteq Uins
  /\ Fold \in [Names -> Names] /\ \A s \in Names : Fold[Fold[s]] = Fold[s]
  /\ Clip \in [Aliases -> Aliases] /\ \A a \in Aliases : Clip[Clip[a]] = Clip[a]
  /\ OFFLINE \in Modes /\ Pairs \subseteq Uins \X Aliases
  /\ Files \subseteq Seq(Entry)
  /\ MaxBuddies \in Nat /\ MaxQueries \in Nat

VARIABLES
  buddies,     \* the list, front first
  queries,     \* the open query windows, oldest first
  file,        \* the lines of the buddy file
  saving,      \* lines still to be written by icq_save_buddy_file
  pc,          \* "idle" or "save"
  (* History, to state the properties with. *)
  told,        \* told[u]: the mode of u that the user was last told
  silent,      \* users whose stored mode was last written without telling
  kept,        \* numeric users in the list when the last save was completed
  torn,        \* a save was interrupted or lost lines
  unread       \* the list was last read when the file could not be opened

history == <<told, silent, kept, torn, unread>>
vars == <<buddies, queries, file, saving, pc, told, silent, kept, torn, unread>>

(* An address is the user whose packet carried it; g_new leaves Junk. *)
NoIp == "noip"                \* 0 or -1
Junk == "junk"
NoAddress == [uin |-> "none", ip |-> "none"]       \* query->address is NULL
NoMode == -1                  \* the mode of somebody who is not in the list

-----------------------------------------------------------------------------
(* Searching the list. *)

First(S) == CHOOSE i \in S : \A j \in S : i <= j

(* get_buddy: the positions of a user's entries; the first one counts. *)
Entries(l, u) == {i \in 1 .. Len(l) : l[i].uin = u}
Listed(l) == {l[i].uin : i \in 1 .. Len(l)}

buddy_getalias(l, u) == IF Entries(l, u) = {} THEN u ELSE l[First(Entries(l, u))].alias

AliasEntries(l, a) == {i \in 1 .. Len(l) : Fold[l[i].alias] = Fold[a]}
buddy_getuin(l, a) ==
  IF AliasEntries(l, a) = {} THEN a ELSE l[First(AliasEntries(l, a))].uin

(* buddy_setmode and buddy_setip write to the first entry of the user. *)
Mut_SetLast(l, u, m) ==
  IF Entries(l, u) = {} THEN l
  ELSE [l EXCEPT ![CHOOSE i \in Entries(l, u) : \A j \in Entries(l, u) : j <= i].mode = m]
buddy_setmode(l, u, m) ==
  IF Entries(l, u) = {} THEN l ELSE [l EXCEPT ![First(Entries(l, u))].mode = m]
buddy_setip(l, u, ip) ==
  IF Entries(l, u) = {} THEN l ELSE [l EXCEPT ![First(Entries(l, u))].ip = ip]
buddy_getip(l, u) == IF Entries(l, u) = {} THEN NoIp ELSE l[First(Entries(l, u))].ip
buddy_getmode(l, u) ==
  IF Entries(l, u) = {} THEN NoMode ELSE l[First(Entries(l, u))].mode

-----------------------------------------------------------------------------
(* Query windows. *)

QueryNamed(qs, n) == {i \in 1 .. Len(qs) : Fold[qs[i].name] = Fold[n]}

(* add_buddy renames the first query that bears the number as its name. *)
Mut_RenameQuery(qs, u, a) ==
  IF qs = <<>> THEN qs ELSE [qs EXCEPT ![1].name = a]
RenameQuery(qs, u, a) ==
  IF QueryNamed(qs, u) = {} THEN qs ELSE [qs EXCEPT ![First(QueryNamed(qs, u))].name = a]

(* query_update_topic: the addresses the query may have afterwards.  An    *)
(* uninitialised ip may or may not look like an address.                   *)
Topics(old, u, ip) ==
  LET plain == IF old = NoAddress THEN [uin |-> u, ip |-> NoIp] ELSE old
      real == [uin |-> u, ip |-> ip]
  IN  CASE ip = NoIp -> {plain}
        [] ip = Junk -> {plain, real}
        [] OTHER -> {real}

(* query_updateip: the list and the queries after a packet from user u     *)
(* with address ip.  The packet's number is looked up as an alias first.   *)
Mut_UpdatedFront(l, u, ip) == IF l = <<>> THEN l ELSE [l EXCEPT ![1].ip = ip]
UpdatedList(l, u, ip) == buddy_setip(l, buddy_getuin(l, u), ip)
Mut_UpdatedQueries(l, qs, u, ip) ==
  {[i \in 1 .. Len(qs) |-> [qs[i] EXCEPT !.addr = t]]
     : t \in Topics(NoAddress, buddy_getuin(l, u), ip)}
UpdatedQueries(l, qs, u, ip) ==
  LET hit == QueryNamed(qs, buddy_getalias(l, u))
  IN  IF hit = {} THEN {qs}
      ELSE {[qs EXCEPT ![First(hit)].addr = t]
              : t \in Topics(qs[First(hit)].addr, buddy_getuin(l, u), ip)}

(* icq_query_create: a new query window for a name. *)
Created(l, n) ==
  LET u == buddy_getuin(l, n)
  IN  {[name |-> n, addr |-> t, peer |-> u] : t \in Topics(NoAddress, u, buddy_getip(l, u))}

-----------------------------------------------------------------------------
(* The buddy file. *)

(* icq_savebuddy writes, for every entry, the alias that buddy_getalias    *)
(* finds: shadowed aliases are replaced by the current one.                *)
Mut_OwnAliases(l) == [i \in 1 .. Len(l) |-> [uin |-> l[i].uin, alias |-> l[i].alias]]
Mut_AllButLast(l) ==
  [i \in 1 .. Len(l) - 1 |-> [uin |-> l[i].uin, alias |-> buddy_getalias(l, l[i].uin)]]
Saved(l) == [i \in 1 .. Len(l) |-> [uin |-> l[i].uin, alias |-> buddy_getalias(l, l[i].uin)]]

(* read_buddy_file: lines whose first word is not a number are skipped,    *)
(* overlong lines are cut, and every line is prepended to the list.        *)
Cut(line) == [line EXCEPT !.alias = Clip[@]]
Loaded(f) ==
  LET list[n \in 0 .. Len(f)] ==
        IF n = 0 THEN <<>>
        ELSE IF f[n].uin \in Digits THEN <<Cut(f[n])>> \o list[n - 1]
        ELSE list[n - 1]
  IN  list[Len(f)]

(* ... through add_buddy, which leaves mode and ip uninitialised ... *)
Mut_FreshUnset(names) ==
  {[i \in 1 .. Len(names) |-> [uin |-> names[i].uin, alias |-> names[i].alias,
                               mode |-> NoMode, ip |-> Junk]]}
Fresh(names) ==
  {[i \in 1 .. Len(names) |-> [uin |-> names[i].uin, alias |-> names[i].alias,
                               mode |-> m[i], ip |-> Junk]]
     : m \in [1 .. Len(names) -> Modes]}

(* ... and renames a query for every line. *)
Renamed(qs, f) ==
  LET windows[n \in 0 .. Len(f)] ==
        IF n = 0 THEN qs
        ELSE IF f[n].uin \in Digits
        THEN RenameQuery(windows[n - 1], f[n].uin, Cut(f[n]).alias)
        ELSE windows[n - 1]
  IN  windows[Len(f)]

-----------------------------------------------------------------------------
(* What read_buddy_file finds: the lines of the file or, when fopen fails  *)
(* and it returns early, none.                                             *)
Reads == {file, <<>>}

(* icq_core_init reads the buddy file. *)
Init ==
  /\ file \in Files
  /\ \E f \in Reads : buddies \in Fresh(Loaded(f)) /\ unread = (f # file)
  /\ queries = <<>> /\ saving = <<>> /\ pc = "idle"
  /\ told = [u \in Uins |-> NoMode] /\ silent = Uins
  /\ kept = {} /\ torn = FALSE

(* /ADDBUDDY uin nick: cmd_addbuddy, icq_addbuddy, add_buddy and           *)
(* icq_add_buddy, which stores OFFLINE without telling anyone.             *)
AddBuddy(u, a) ==
  /\ pc = "idle" /\ Len(buddies) < MaxBuddies
  /\ buddies' = <<[uin |-> u, alias |-> a, mode |-> OFFLINE, ip |-> Junk]>> \o buddies
  /\ queries' = RenameQuery(queries, u, a)
  /\ silent' = silent \cup {u}
  /\ UNCHANGED <<file, saving, pc, told, kept, torn, unread>>

(* "login accepted": every contact is announced to the server, and its     *)
(* mode set to OFFLINE, through buddy_forall.                              *)
AnnounceAll ==
  /\ pc = "idle"
  /\ buddies' = [i \in 1 .. Len(buddies) |->
                   IF i = First(Entries(buddies, buddies[i].uin))
                   THEN [buddies[i] EXCEPT !.mode = OFFLINE] ELSE buddies[i]]
  /\ silent' = silent \cup Listed(buddies)
  /\ UNCHANGED <<queries, file, saving, pc, told, kept, torn, unread>>

(* What extract_user_info and decode_msg leave in the caller's ip: the     *)
(* address in the packet; without one, a mode change has an uninitialised  *)
(* variable and a message -1.                                              *)
ModeIps(u) == {u, Junk}
MessageIps(u) == {u, NoIp}

(* SNAC 3/b and 3/c: user u changes to mode m. *)
IsNews(l, u, m) == buddy_getmode(l, u) # m

ModeChange(u, m, ip) ==
  /\ pc = "idle"
  /\ queries' \in UpdatedQueries(buddies, queries, u, ip)
  /\ LET l == UpdatedList(buddies, u, ip) IN
       IF IsNews(l, u, m)
       THEN /\ buddies' = buddy_setmode(l, u, m)
            /\ told' = [told EXCEPT ![u] = m]
            /\ silent' = silent \ {u}
       ELSE /\ buddies' = l
            /\ UNCHANGED <<told, silent>>
  /\ UNCHANGED <<file, saving, pc, kept, torn, unread>>

(* SNAC 4/7: a message from user u; the address, even -1, overwrites the   *)
(* stored one.  irssi shows the message in the query named by the alias    *)
(* and may open that query first (external).                               *)
Message(u, ip) ==
  /\ pc = "idle"
  /\ buddies' = UpdatedList(buddies, u, ip)
  /\ LET n == buddy_getalias(buddies, u) IN
     \E qs \in UpdatedQueries(buddies, queries, u, ip) :
       \/ queries' = qs
       \/ /\ QueryNamed(qs, n) = {} /\ Len(qs) < MaxQueries
          /\ \E q \in Created(buddies', n) : queries' = Append(qs, [q EXCEPT !.peer = u])
  /\ UNCHANGED <<file, saving, pc, told, silent, kept, torn, unread>>

(* /QUERY nick: irssi opens a window unless there is one (external). *)
OpenQuery(n) ==
  /\ pc = "idle" /\ QueryNamed(queries, n) = {} /\ Len(queries) < MaxQueries
  /\ \E q \in Created(buddies, n) : queries' = Append(queries, q)
  /\ UNCHANGED <<buddies, file, saving, pc, history>>

CloseQuery(i) ==
  /\ pc = "idle" /\ i \in 1 .. Len(queries)
  /\ queries' = RemoveAt(queries, i)
  /\ UNCHANGED <<buddies, file, saving, pc, history>>

(* /SAVE emits "setup saved": icq_save_buddy_file truncates the file (when *)
(* fopen fails it returns and nothing has changed) ...                     *)
SaveOpen ==
  /\ pc = "idle"
  /\ file' = <<>> /\ saving' = Saved(buddies) /\ pc' = "save"
  /\ UNCHANGED <<buddies, queries, history>>

(* ... and writes it line by line; nobody looks at errors. *)
SaveLine ==
  /\ pc = "save" /\ saving # <<>>
  /\ file' = Append(file, Head(saving)) /\ saving' = Tail(saving)
  /\ UNCHANGED <<buddies, queries, pc, history>>

SaveClose ==
  /\ pc = "save" /\ saving = <<>>
  /\ pc' = "idle"
  /\ kept' = Listed(buddies) \cap Digits
  /\ torn' = FALSE /\ unread' = FALSE
  /\ UNCHANGED <<buddies, queries, file, saving, told, silent>>

(* The disk is full: the remaining lines are lost, and the handler reports *)
(* success all the same.                                                   *)
SaveLost ==
  /\ pc = "save" /\ saving # <<>>
  /\ saving' = <<>> /\ pc' = "idle" /\ torn' = TRUE
  /\ UNCHANGED <<buddies, queries, file, told, silent, kept, unread>>

(* /RELOAD emits "setup reread": icq_reread_buddy_file drops the list      *)
(* before it tries to open the file.                                       *)
Reread ==
  /\ pc = "idle"
  /\ \E f \in Reads :
       /\ buddies' \in Fresh(Loaded(f))
       /\ queries' = Renamed(queries, f)
       /\ unread' = (f # file)
  /\ silent' = Uins
  /\ UNCHANGED <<file, saving, pc, told, kept, torn>>

(* irssi dies, possibly inside a save, and is started again. *)
Restart ==
  /\ \E f \in Reads : buddies' \in Fresh(Loaded(f)) /\ unread' = (f # file)
  /\ queries' = <<>> /\ saving' = <<>> /\ pc' = "idle"
  /\ told' = [u \in Uins |-> NoMode] /\ silent' = Uins
  /\ torn' = (torn \/ pc = "save")
  /\ UNCHANGED <<file, kept>>

Next ==
  \/ \E p \in Pairs : AddBuddy(p[1], p[2])
  \/ AnnounceAll
  \/ \E u \in Reporters, m \in Modes : \E ip \in ModeIps(u) : ModeChange(u, m, ip)
  \/ \E u \in Reporters : \E ip \in MessageIps(u) : Message(u, ip)
  \/ \E n \in Names : OpenQuery(n)
  \/ \E i \in 1 .. MaxQueries : CloseQuery(i)
  \/ SaveOpen \/ SaveLine \/ SaveClose \/ SaveLost
  \/ Reread
  \/ Restart

Spec == Init /\ [][Next]_vars

-----------------------------------------------------------------------------
(* Type invariant. *)
Ips == Uins \cup {NoIp, Junk}
TypeOK ==
  /\ buddies \in Seq([uin : Uins, alias : Aliases, mode : Modes, ip : Ips])
  /\ queries \in Seq([name : Names, peer : Names,
                      addr : [uin : Names, ip : Ips] \cup {NoAddress}])
  /\ file \in Seq(Entry) /\ saving \in Seq(Entry) /\ pc \in {"idle", "save"}
  /\ told \in [Uins -> Modes \cup {NoMode}] /\ silent \subseteq Uins
  /\ kept \subseteq Digits /\ torn \in BOOLEAN /\ unread \in BOOLEAN

(* No alias, cut or not, that the user ever gives is the number of another *)
(* user, or stands for two users; and no two numbers differ only in case.  *)
Given == {[uin |-> p[1], alias |-> p[2]] : p \in Pairs}
         \cup UNION {{f[i] : i \in 1 .. Len(f)} : f \in Files}
Bound == {<<Fold[e.alias], e.uin>> : e \in Given}
         \cup {<<Fold[Clip[e.alias]], e.uin>> : e \in Given}
NoNumberTaken == \A b \in Bound : \A u \in Uins : b[1] = Fold[u] => b[2] = u
Unambiguous ==
  /\ NoNumberTaken
  /\ \A b, c \in Bound : b[1] = c[1] => b[2] = c[2]
  /\ \A u, v \in Uins : Fold[u] = Fold[v] => u = v

(* Saving and reloading keep both directions of the mapping: every numeric *)
(* contact has the alias it had before, cut to the line length, and that   *)
(* alias leads back to the contact unless another contact had it as well.  *)
Shared(l, u) == \E i \in 1 .. Len(l) :
  /\ l[i].uin # u /\ l[i].uin \in Digits
  /\ Fold[Clip[buddy_getalias(l, l[i].uin)]] = Fold[Clip[buddy_getalias(l, u)]]
RoundTrip ==
  LET after == Loaded(Saved(buddies)) IN
  \A u \in Listed(buddies) \cap Digits :
    /\ buddy_getalias(after, u) = Clip[buddy_getalias(buddies, u)]
    /\ ~Shared(buddies, u) => buddy_getuin(after, buddy_getalias(after, u)) = u

(* A numeric contact that was listed at the last completed save is listed  *)
(* after any number of reloads, crashes and restarts, unless a save was    *)
(* interrupted or lost lines, or the file could not be opened when it was  *)
(* read: icq_save_buddy_file and read_buddy_file themselves forget nobody. *)
NothingForgotten == ~torn /\ ~unread => kept \subseteq Listed(buddies)

(* What is typed into an open query window goes to the user it was opened  *)
(* for or, after the alias was forgotten by a reload, to nobody (the name  *)
(* itself is taken for a number); never to somebody else.                  *)
NeverMisdelivered ==
  Unambiguous => \A i \in 1 .. Len(queries) :
    queries[i].peer \in Uins =>
      buddy_getuin(buddies, queries[i].name) \in {queries[i].peer, queries[i].name}

(* The address shown for a query window names the user it was opened for.  *)
TopicNamesPeer ==
  Unambiguous => \A i \in 1 .. Len(queries) :
    queries[i].peer \in Uins => queries[i].addr.uin = queries[i].peer

(* The address stored with a contact came in a packet about that contact,  *)
(* even if users share aliases, unless an alias is somebody else's number: *)
(* query_updateip looks the number of the packet up as an alias.           *)
IpOfItsOwner ==
  NoNumberTaken => \A i \in 1 .. Len(buddies) :
    buddies[i].ip \in {NoIp, Junk, buddies[i].uin}

(* The user was told the mode that is stored for a contact, unless it was  *)
(* last overwritten silently (at login, /ADDBUDDY, reload).                *)
ToldTheStoredMode ==
  \A u \in Listed(buddies) \ silent : told[u] = buddy_getmode(buddies, u)
=============================================================================
