-------------------------------- MODULE Ssi --------------------------------
(***************************************************************************)
(* The server-stored contact list of libfaim (protocols/oscar/ssi.c) and   *)
(* the calls of gaim's oscar plugin that edit it (oscar.c).                *)
(*                                                                         *)
(* The session keeps two copies of the list: official, meant to be what    *)
(* the server has, and local, which the user edits.  aim_ssi_sync sends    *)
(* the difference, one kind of change at a time, and waits for the ack.    *)
(* While it waits the user goes on editing, the items that are in the      *)
(* request may change or be freed, and the server may announce what        *)
(* another client of the same account has done.                            *)
(*                                                                         *)
(* A pending change refers to its item by address.  An item's ref is the   *)
(* position of the pending change that points to it, 0 if none does; a     *)
(* change whose item was freed points nowhere, until malloc hands its      *)
(* address out again.                                                      *)
(***************************************************************************)
EXTENDS Integers, Sequences, FiniteSets, SequencesExt, FiniteSetsExt

CONSTANTS
  Names,        \* screen names and group names
  Fold,         \* Fold[n]: n without case and blanks, as aim_sncmp sees it
  Buddies,      \* screen names the user adds to his list
  Groups,       \* names of groups
  Aliases,      \* aliases of buddies
  Private,      \* pairs of AIM_SSI_TYPE_PERMIT or _DENY and a screen name
  PermDenies,   \* permit/deny settings
  Icons,        \* checksums of icons
  Orphans,      \* the group "orphans"
  IconName,     \* "1"
  IconBid,      \* 0x51F4
  Starts,       \* what there may be at login: [server, buddies, private], the
                \* list on the server and gaim's own list, a sequence of
                \* [name, group, alias] and one of pairs as in Private
  Foreign,      \* items another client of the account may add or change
  Refusable,    \* actions the server may refuse
  Splits,       \* where it may cut an answer in two
  MaxRefused,   \* number of items of a request that it may refuse
  MaxTurns      \* number of edits of the user and of another client, and of
                \* requests that the server answers with an error

NULL == "NULL"

ASSUME NamesAssumption ==
  /\ Buddies \cup Groups \cup {Orphans, IconName} \subseteq Names /\ NULL \notin Names
  /\ Fold \in [Names -> Names]
  /\ Private \subseteq {"permit", "deny"} \X Names
  /\ Refusable \subseteq {"add", "mod", "del"}
  /\ IconBid \in Nat /\ MaxTurns \in Nat

VARIABLES
  ssi,        \* sess->ssi; out, the requests on their way; asked, the contacts
              \* gaim asks the user about (gaim_auth_request); own, gaim's
              \* own list; reuse, see Become
  server,     \* the list on the server
  inbox,      \* what the server has sent and the client has not processed
  timer,      \* number of timeouts set for gaim_ssi_rerequestdata
  turns,      \* number of edits and errors so far
  troubles    \* what has gone wrong so far

vars == <<ssi, server, inbox, timer, turns, troubles>>

Pick == -1                                  \* 0xFFFF: "we should pick something"
Same(a, b) == a # NULL /\ b # NULL /\ Fold[a] = Fold[b]

Item(name, gid, bid, type, data) ==
  [name |-> name, gid |-> gid, bid |-> bid, type |-> type, data |-> data]
Content(it) == Item(it.name, it.gid, it.bid, it.type, it.data)
Contents(list) == {Content(list[i]) : i \in DOMAIN list}

(* What the server has, and what another client may send to it.  No two    *)
(* items on the server have the same ids.                                  *)
Valid(it) ==
  it = Content(it) /\ it.name \in Names \cup {NULL} /\ it.gid \in Nat /\ it.bid \in Nat
ASSUME ListsAssumption ==
  /\ \A start \in Starts :
       /\ IsFiniteSet(start.server) /\ \A it \in start.server : Valid(it)
       /\ \A it, x \in start.server : it.gid = x.gid /\ it.bid = x.bid => it = x
       /\ start.buddies \in Seq([name : Names, group : Names, alias : Aliases \cup {NULL}])
       /\ start.private \in Seq({"permit", "deny"} \X Names)
  /\ \A it \in Foreign : Valid(it)

Tlv(type, value) == <<type, value>>
AliasData(alias) == IF alias = NULL THEN {} ELSE {Tlv("alias", alias)}
AuthTlv == Tlv("auth", "")
Members(data) == {t \in data : t[1] = "member"}

-----------------------------------------------------------------------------
(* The positions at of a list, in order, and what stands there. *)

Rank(at, k) == Cardinality({m \in at : m <= k})
Ascending(at) == [n \in 1 .. Cardinality(at) |-> CHOOSE k \in at : Rank(at, k) = n]
Chosen(list, at) == [n \in 1 .. Cardinality(at) |-> list[Ascending(at)[n]]]

-----------------------------------------------------------------------------
(* Finding items; the result is a position, 0 if there is none. *)

FirstOf(set) == IF set = {} THEN 0 ELSE Min(set)

aim_ssi_itemlist_find(list, gid, bid) ==
  FirstOf({i \in DOMAIN list : list[i].gid = gid /\ list[i].bid = bid})

aim_ssi_itemlist_finditem(list, gn, sn, type) ==
  FirstOf({i \in DOMAIN list :
    /\ list[i].type = type
    /\ CASE gn # NULL /\ sn # NULL ->
              /\ Same(list[i].name, sn)
              /\ \E j \in DOMAIN list : /\ list[j].type = "group" /\ list[j].gid = list[i].gid
                                        /\ Same(list[j].name, gn)
         [] gn # NULL /\ sn = NULL -> list[i].bid = 0 /\ Same(list[i].name, gn)
         [] gn = NULL /\ sn # NULL -> Same(list[i].name, sn)
         [] OTHER -> list[i].name = NULL})

aim_ssi_itemlist_exists(list, sn) ==
  FirstOf({i \in DOMAIN list : list[i].type = "buddy" /\ Same(list[i].name, sn)})

aim_ssi_itemlist_findparentname(list, sn) ==
  LET i == aim_ssi_itemlist_exists(list, sn)
      g == IF i = 0 THEN 0 ELSE aim_ssi_itemlist_find(list, list[i].gid, 0)
  IN  IF g = 0 THEN NULL ELSE list[g].name

aim_ssi_getalias(list, gn, sn) ==
  LET i == aim_ssi_itemlist_finditem(list, gn, sn, "buddy")
  IN  IF i = 0 THEN {} ELSE {t \in list[i].data : t[1] = "alias"}

aim_ssi_waitingforauth(list, gn, sn) ==
  LET i == aim_ssi_itemlist_finditem(list, gn, sn, "buddy")
  IN  IF i = 0 THEN {} ELSE list[i].data \cap {AuthTlv}

-----------------------------------------------------------------------------
(* Changing a list.  S is a value of sess->ssi, which the name of a list.  *)

Home(action) == IF action = "del" THEN "official" ELSE "local"
Dangling(S, which) ==
  {i \in DOMAIN S.pending :
     Home(S.pending[i].action) = which /\ \A k \in DOMAIN S[which] : S[which][k].ref # i}

Above(a, b) == a.gid > b.gid \/ (a.gid = b.gid /\ a.bid > b.bid)
Below(a, b) == Above(b, a)

(* "Add the item to the list in the correct numerical position." *)
Inserted(list, it) ==
  IF list = <<>> \/ Below(it, list[1]) THEN <<it>> \o list
  ELSE LET stops == {k \in 2 .. Len(list) : ~Above(it, list[k])}
       IN  InsertAt(list, IF stops = {} THEN Len(list) + 1 ELSE Min(stops), it)

NewGid(list) ==
  Min(0 .. Len(list) \ {list[i].gid : i \in {j \in DOMAIN list : list[j].type = "group"}})
Mut_NewBidAmongBuddies(list, gid) ==
  Min(0 .. Len(list) \ {list[i].bid : i \in {j \in DOMAIN list :
                           list[j].gid = gid /\ list[j].type = "buddy"}})
NewBid(list, gid) ==
  Min(0 .. Len(list) \ {list[i].bid : i \in {j \in DOMAIN list : list[j].gid = gid}})

aim_ssi_itemlist_add(S, which, name, gid, bid, type, data) ==
  LET list == S[which]
      g == IF type = "group" /\ gid = Pick /\ name # NULL THEN NewGid(list) ELSE gid
      b == IF type # "group" /\ bid = Pick THEN NewBid(list, g) ELSE bid
      free == Dangling(S, which)
      new == [name |-> name, gid |-> g, bid |-> b, type |-> type, data |-> data,
              ref |-> IF S.reuse /\ free # {} THEN Min(free) ELSE 0]
  IN  [S EXCEPT ![which] = Inserted(list, new)]

AddItem(S, which, it) ==
  aim_ssi_itemlist_add(S, which, it.name, it.gid, it.bid, it.type, it.data)

aim_ssi_itemlist_del(S, which, i) == [S EXCEPT ![which] = RemoveAt(@, i)]

(* Rebuild the list of members in a group; without a name, in the master   *)
(* group.                                                                  *)
aim_ssi_itemlist_rebuildgroup(S, name) ==
  LET l == S.local
      i == aim_ssi_itemlist_finditem(l, name, NULL, "group")
      ids == IF l[i].gid = 0
             THEN {l[k].gid : k \in {j \in DOMAIN l : l[j].type = "group" /\ l[j].gid # 0}}
             ELSE {l[k].bid : k \in {j \in DOMAIN l : l[j].type = "buddy" /\ l[j].gid = l[i].gid}}
  IN  IF i = 0 THEN S
      ELSE [S EXCEPT !.local[i].data = {Tlv("member", id) : id \in ids}]

-----------------------------------------------------------------------------
(* aim_ssi_itemlist_cmp: names are compared by aim_sncmp. *)
Differ(a, b) ==
  \/ a.data # b.data \/ a.type # b.type
  \/ ~(Same(a.name, b.name) \/ (a.name = NULL /\ b.name = NULL))

Missing(from, in) ==
  {i \in DOMAIN from : aim_ssi_itemlist_find(in, from[i].gid, from[i].bid) = 0}
Changed(from, in) ==
  {i \in DOMAIN from : LET j == aim_ssi_itemlist_find(in, from[i].gid, from[i].bid)
                       IN  j # 0 /\ Differ(from[i], in[j])}

(* aim_ssi_addmoddel: the items at the positions at become pending and are *)
(* sent.                                                                   *)
aim_ssi_addmoddel(S, action, at) ==
  LET which == Home(action)
      list == S[which]
      order == Ascending(at)
  IN  [S EXCEPT
        !.pending = [i \in DOMAIN order |-> [action |-> action, sent |-> Content(list[order[i]])]],
        ![which] = [k \in DOMAIN list |->
                      IF k \in at THEN [list[k] EXCEPT !.ref = Rank(at, k)]
                      ELSE list[k]],
        !.waiting = TRUE,
        !.out = Append(@, [kind |-> "change", action |-> action,
                           items |-> [i \in DOMAIN order |-> Content(list[order[i]])]])]

(* Additions, then deletions, then modifications, and never two kinds at   *)
(* once.  (aim_ssi_modend, sent when there is nothing to do, changes no    *)
(* list.)                                                                  *)
Mut_syncNoMods(S) ==
  LET adds == Missing(S.local, S.official)
      dels == Missing(S.official, S.local)
  IN  IF S.waiting THEN S
      ELSE IF adds # {} THEN aim_ssi_addmoddel(S, "add", adds)
      ELSE IF dels # {} THEN aim_ssi_addmoddel(S, "del", dels)
      ELSE S
Mut_syncWaitsForNothing(S) ==
  LET adds == Missing(S.local, S.official)
      mods == Changed(S.local, S.official)
  IN  IF S.waiting THEN S
      ELSE IF adds # {} THEN aim_ssi_addmoddel(S, "add", adds)
      ELSE IF mods # {} THEN aim_ssi_addmoddel(S, "mod", mods)
      ELSE [S EXCEPT !.waiting = TRUE]
aim_ssi_sync(S) ==
  LET adds == Missing(S.local, S.official)
      dels == Missing(S.official, S.local)
      mods == Changed(S.local, S.official)
  IN  IF S.waiting THEN S
      ELSE IF adds # {} THEN aim_ssi_addmoddel(S, "add", adds)
      ELSE IF dels # {} THEN aim_ssi_addmoddel(S, "del", dels)
      ELSE IF mods # {} THEN aim_ssi_addmoddel(S, "mod", mods)
      ELSE S

-----------------------------------------------------------------------------
(* The edits of ssi.c.  Each ends in aim_ssi_sync. *)

WithMaster(S) ==
  IF aim_ssi_itemlist_find(S.local, 0, 0) # 0 THEN S
  ELSE aim_ssi_itemlist_add(S, "local", NULL, 0, 0, "group", {})
WithGroup(S, group) ==
  IF aim_ssi_itemlist_finditem(S.local, group, NULL, "group") # 0 THEN S
  ELSE aim_ssi_itemlist_rebuildgroup(
         aim_ssi_itemlist_add(WithMaster(S), "local", group, Pick, 0, "group", {}), NULL)
WithBuddy(S, name, group, data) ==
  aim_ssi_itemlist_add(S, "local", name,
    S.local[aim_ssi_itemlist_finditem(S.local, group, NULL, "group")].gid, Pick, "buddy", data)

Mut_addbuddyUnlisted(S, name, group, data) ==
  aim_ssi_sync(WithBuddy(WithGroup(S, group), name, group, data))
aim_ssi_addbuddy(S, name, group, data) ==
  aim_ssi_sync(aim_ssi_itemlist_rebuildgroup(WithBuddy(WithGroup(S, group), name, group, data), group))

(* aim_ssi_addpermit and aim_ssi_adddeny *)
AddPrivate(S, type, name) ==
  aim_ssi_sync(aim_ssi_itemlist_add(S, "local", name, 0, Pick, type, {}))

(* A group that has lost its last data goes, and after it the master group. *)
DropIfEmpty(S, i) ==
  IF i # 0 /\ S.local[i].data = {} THEN aim_ssi_itemlist_del(S, "local", i) ELSE S
DropMaster(S) == DropIfEmpty(S, aim_ssi_itemlist_find(S.local, 0, 0))
DropGroup(S, group) ==
  LET i == aim_ssi_itemlist_finditem(S.local, group, NULL, "group")
  IN  IF i # 0 /\ S.local[i].data = {}
      THEN DropMaster(aim_ssi_itemlist_rebuildgroup(aim_ssi_itemlist_del(S, "local", i), NULL))
      ELSE S

aim_ssi_delbuddy(S, name, group) ==
  LET i == aim_ssi_itemlist_finditem(S.local, group, name, "buddy")
  IN  IF i = 0 THEN S
      ELSE aim_ssi_sync(DropGroup(
             aim_ssi_itemlist_rebuildgroup(aim_ssi_itemlist_del(S, "local", i), group), group))

(* aim_ssi_delpermit and aim_ssi_deldeny *)
DelPrivate(S, type, name) ==
  LET i == aim_ssi_itemlist_finditem(S.local, NULL, name, type)
  IN  IF i = 0 THEN S ELSE aim_ssi_sync(aim_ssi_itemlist_del(S, "local", i))

aim_ssi_movebuddy(S, oldgn, newgn, sn) ==
  LET data == aim_ssi_getalias(S.local, oldgn, sn) \cup aim_ssi_waitingforauth(S.local, oldgn, sn)
  IN  aim_ssi_delbuddy(aim_ssi_addbuddy(S, sn, newgn, data), sn, oldgn)

aim_ssi_aliasbuddy(S, gn, sn, alias) ==
  LET i == aim_ssi_itemlist_finditem(S.local, gn, sn, "buddy")
  IN  IF i = 0 THEN S ELSE aim_ssi_sync([S EXCEPT !.local[i].data = AliasData(alias)])

aim_ssi_rename_group(S, oldgn, newgn) ==
  LET i == aim_ssi_itemlist_finditem(S.local, oldgn, NULL, "group")
  IN  IF i = 0 THEN S ELSE aim_ssi_sync([S EXCEPT !.local[i].name = newgn])

(* aim_ssi_setpermdeny and aim_ssi_setpresence *)
SetOption(S, type, value) ==
  LET i == aim_ssi_itemlist_finditem(S.local, NULL, NULL, type)
      data == {Tlv(type, value)}
  IN  aim_ssi_sync(IF i # 0 THEN [S EXCEPT !.local[i].data = data]
                   ELSE aim_ssi_itemlist_add(S, "local", NULL, 0, Pick, type, data))

aim_ssi_seticon(S, sum) ==
  LET i == aim_ssi_itemlist_finditem(S.local, NULL, IconName, "icon")
      data == {Tlv("csum", sum), Tlv("cache", "")}
  IN  CASE i = 0 -> aim_ssi_sync(aim_ssi_itemlist_add(S, "local", IconName, 0, IconBid, "icon", data))
        [] i # 0 /\ S.local[i].data = data -> S
        [] OTHER -> aim_ssi_sync([S EXCEPT !.local[i].data = data])

(* The first loop of aim_ssi_cleanlist, for one item that the loop comes to. *)
CleanItem(S, it) ==
  IF it \notin Contents(S.local) THEN S
  ELSE CASE it.name = NULL /\ it.type = "buddy" -> aim_ssi_delbuddy(S, NULL, NULL)
         [] it.name = NULL /\ it.type \in {"permit", "deny"} -> DelPrivate(S, it.type, NULL)
         [] /\ it.name # NULL /\ it.type = "buddy"
            /\ it.gid = 0 \/ aim_ssi_itemlist_find(S.local, it.gid, 0) = 0 ->
              aim_ssi_delbuddy(aim_ssi_addbuddy(S, it.name, Orphans, {}), it.name, NULL)
         [] OTHER -> S

(* Nameless entries and orphans, then empty groups, then what is in the    *)
(* place of the master group; nothing is sent for the last two.            *)
WithoutEmptyGroups(S) ==
  [S EXCEPT !.local = Chosen(@, {k \in DOMAIN @ : @[k].type = "group" => Members(@[k].data) # {}})]
aim_ssi_cleanlist(S) ==
  DropMaster(WithoutEmptyGroups(
    FoldLeft(CleanItem, S, [i \in DOMAIN S.local |-> Content(S.local[i])])))

-----------------------------------------------------------------------------
(* What arrives. *)

aim_ssi_freelist(S) == [S EXCEPT !.official = <<>>, !.local = <<>>, !.pending = <<>>]
aim_ssi_reqdata(S) == [aim_ssi_freelist(S) EXCEPT !.out = Append(@, [kind |-> "reqdata"])]

(* gaim's own list: its buddies, in the order in which they came, and the  *)
(* pairs of Private that the account has.                                  *)
Own(name, group, alias) == [name |-> name, group |-> group, alias |-> alias]
gaim_find_buddy(S, name) == FirstOf({i \in DOMAIN S.own.buddies : Same(S.own.buddies[i].name, name)})

(* gaim_ssi_parselist: clean the list, take over into gaim's own list what *)
(* the server's has, then store on the server what only gaim's has.        *)
StoreTheirs(S, it) ==
  LET i == gaim_find_buddy(S, it.name)
      gname == aim_ssi_itemlist_findparentname(S.local, it.name)
      alias == aim_ssi_getalias(S.local, gname, it.name)
      text == IF alias = {} THEN NULL ELSE (CHOOSE t \in alias : TRUE)[2]
  IN  CASE it.type = "buddy" /\ it.name # NULL /\ i = 0 ->
             [S EXCEPT !.own.buddies =
                Append(@, Own(it.name, IF gname = NULL THEN Orphans ELSE gname, text))]
        [] it.type = "buddy" /\ it.name # NULL /\ i # 0 /\ alias # {} ->
             [S EXCEPT !.own.buddies[i].alias = text]
        [] it.type \in {"permit", "deny"} /\ it.name # NULL
             /\ ~\E p \in ToSet(S.own.private) : p[1] = it.type /\ Same(p[2], it.name) ->
             [S EXCEPT !.own.private = Append(@, <<it.type, it.name>>)]
        [] OTHER -> S
StoreMine(S, b) ==
  IF aim_ssi_itemlist_exists(S.local, b.name) = 0
  THEN aim_ssi_addbuddy(S, b.name, b.group, AliasData(b.alias))
  ELSE IF aim_ssi_getalias(S.local, b.group, b.name) = {} /\ b.alias # NULL
  THEN aim_ssi_aliasbuddy(S, b.group, b.name, b.alias)
  ELSE S
StorePrivate(S, p) ==
  IF aim_ssi_itemlist_finditem(S.local, NULL, p[2], p[1]) # 0 THEN S ELSE AddPrivate(S, p[1], p[2])
ShowIdle(S) ==
  LET i == aim_ssi_itemlist_finditem(S.local, NULL, NULL, "presence")
  IN  IF i # 0 /\ Tlv("presence", "hidden") \in S.local[i].data
      THEN SetOption(S, "presence", "shown") ELSE S
TakenOver(S) == FoldLeft(StoreTheirs, S, S.local)
BuddiesStored(S) == FoldLeft(StoreMine, S, S.own.buddies)
PrivateStored(S) == FoldLeft(StorePrivate, S, S.own.private)
gaim_ssi_parselist(S) ==
  ShowIdle(PrivateStored(BuddiesStored(TakenOver(aim_ssi_cleanlist(S)))))

AddAll(S, which, items) == FoldLeft(LAMBDA T, it : AddItem(T, which, it), S, items)

Activated(S) == [AddAll(S, "local", S.official) EXCEPT !.received = TRUE]
parsedata(S, msg) ==
  IF msg.more THEN AddAll(S, "official", msg.items)
  ELSE gaim_ssi_parselist(Activated(AddAll(S, "official", msg.items)))

parseadd(S, it) == AddItem(AddItem(S, "local", it), "official", it)

Replace(S, which, it) ==
  LET i == aim_ssi_itemlist_find(S[which], it.gid, it.bid)
  IN  IF i = 0 THEN S
      ELSE [S EXCEPT ![which][i].type = it.type, ![which][i].name = it.name,
                     ![which][i].data = it.data]
parsemod(S, it) == Replace(Replace(S, "local", it), "official", it)

Without(S, which, it) ==
  LET i == aim_ssi_itemlist_find(S[which], it.gid, it.bid)
  IN  IF i = 0 THEN S ELSE aim_ssi_itemlist_del(S, which, i)
parsedel(S, it) == Without(Without(S, "local", it), "official", it)

(* The outcome of the i-th pending change, whose item is at position k of  *)
(* its list, if it is still there (aim_ssi_itemlist_valid).  A success is  *)
(* copied to the official list from the item as it is now, a failure is    *)
(* undone in the local list.                                               *)
NameAndData(S, which, from) ==
  LET j == aim_ssi_itemlist_find(S[which], from.gid, from.bid)
  IN  IF j = 0 THEN S ELSE [S EXCEPT ![which][j].name = from.name, ![which][j].data = from.data]
RestoreAt(S, k) ==
  LET j == aim_ssi_itemlist_find(S.official, S.local[k].gid, S.local[k].bid)
  IN  IF j = 0 THEN S
      ELSE [S EXCEPT !.local[k].name = S.official[j].name, !.local[k].data = S.official[j].data]
Prompt(S, it) == IF it.name = NULL THEN S ELSE [S EXCEPT !.asked = @ \cup {it.name}]

Mut_AckOneIgnoresOutcome(S, i, ok) ==
  LET action == S.pending[i].action
      list == S[Home(action)]
      k == FirstOf({n \in DOMAIN list : list[n].ref = i})
  IN  IF k = 0 THEN S ELSE
      CASE action = "add" -> AddItem(S, "official", list[k])
        [] action = "mod" -> NameAndData(S, "official", list[k])
        [] action = "del" -> aim_ssi_itemlist_del(S, "official", k)
AckOne(S, i, ok) ==
  LET action == S.pending[i].action
      list == S[Home(action)]
      k == FirstOf({n \in DOMAIN list : list[n].ref = i})
  IN  CASE k = 0 -> S
        [] k # 0 /\ ok /\ action = "add" -> AddItem(S, "official", list[k])
        [] k # 0 /\ ok /\ action = "mod" -> NameAndData(S, "official", list[k])
        [] k # 0 /\ ok /\ action = "del" -> aim_ssi_itemlist_del(S, "official", k)
        [] k # 0 /\ ~ok /\ action = "add" -> aim_ssi_itemlist_del(Prompt(S, list[k]), "local", k)
        [] k # 0 /\ ~ok /\ action = "mod" -> RestoreAt(S, k)
        [] k # 0 /\ ~ok /\ action = "del" -> AddItem(S, "local", list[k])

(* Only as many changes are settled as the ack has outcomes for. *)
Unref(list, n) == [k \in DOMAIN list |-> [list[k] EXCEPT !.ref = IF @ > n THEN @ - n ELSE 0]]
Outcomes(S, oks) == IF Len(oks) < Len(S.pending) THEN Len(oks) ELSE Len(S.pending)
Forget(S, n) == [S EXCEPT !.pending = SubSeq(@, n + 1, Len(@)),
                          !.local = Unref(@, n), !.official = Unref(@, n)]
AckAll(S, oks, n) == Forget(FoldLeft(LAMBDA T, i : AckOne(T, i, oks[i]), S, [i \in 1 .. n |-> i]), n)
SyncUnlessPending(S) == IF S.pending # <<>> THEN S ELSE aim_ssi_sync([S EXCEPT !.waiting = FALSE])

Mut_parseackStopsWaiting(S, oks) == [AckAll(S, oks, Outcomes(S, oks)) EXCEPT !.waiting = FALSE]
Mut_parseackKeepsWaiting(S, oks) == aim_ssi_sync(AckAll(S, oks, Outcomes(S, oks)))
parseack(S, oks) == SyncUnlessPending(AckAll(S, oks, Outcomes(S, oks)))

-----------------------------------------------------------------------------
(* The server, as far as the client relies on it: it answers the requests  *)
(* in order, checks that an item to add is new and that one to change or   *)
(* delete exists, and may refuse what Refusable allows (the item limit, a  *)
(* contact that wants to be asked first).                                  *)

At(set, it) == {x \in set : x.gid = it.gid /\ x.bid = it.bid}

Serve(set, action, it) ==
  CASE action = "add" -> set \cup {it}
    [] action = "mod" -> (set \ At(set, it)) \cup {it}
    [] action = "del" -> set \ At(set, it)

(* The list and the outcomes after a request of which the server refuses,  *)
(* of its own will, the items at no.                                       *)
Served(set, req, no) ==
  FoldLeft(LAMBDA acc, i :
             LET ok == i \notin no /\ (req.action = "add") = (At(acc.set, req.items[i]) = {})
             IN  [set |-> IF ok THEN Serve(acc.set, req.action, req.items[i]) ELSE acc.set,
                  oks |-> Append(acc.oks, ok)],
           [set |-> set, oks |-> <<>>], [i \in DOMAIN req.items |-> i])

(* An answer in one or two messages. *)
Split(seq, k) == <<SubSeq(seq, 1, k), SubSeq(seq, k + 1, Len(seq))>>
Parts(seq) == {<<seq>>} \cup {Split(seq, k) : k \in Splits \cap 1 .. Len(seq) - 1}

-----------------------------------------------------------------------------
Init ==
  /\ \E own \in Starts :
       /\ ssi = [local |-> <<>>, official |-> <<>>, pending |-> <<>>, waiting |-> FALSE,
                 received |-> FALSE, out |-> <<[kind |-> "reqdata"]>>, asked |-> {},
                 own |-> [buddies |-> own.buddies, private |-> own.private], reuse |-> FALSE]
       /\ server = own.server
  /\ inbox = <<>> /\ timer = 0 /\ turns = 0 /\ troubles = {}

(* An item of the request that awaits its ack is gone or has changed. *)
Disturbed(S) ==
  \E i \in DOMAIN S.pending :
    LET list == S[Home(S.pending[i].action)]
    IN  \A k \in DOMAIN list : list[k].ref = i => Content(list[k]) # S.pending[i].sent

(* A request gives the ids of an item to an item of another type, which    *)
(* parseack does not copy to the official list.                            *)
Retyped(S) ==
  \E i \in DOMAIN S.pending :
    LET sent == S.pending[i].sent
        old == aim_ssi_itemlist_find(S.official, sent.gid, sent.bid)
    IN  old # 0 /\ S.official[old].type # sent.type

(* Two items of the local list have the same ids, by which aim_ssi_sync    *)
(* and parseack look an item up in the other list.                         *)
Doubled(S) == \E i, j \in DOMAIN S.local :
  i # j /\ S.local[i].gid = S.local[j].gid /\ S.local[i].bid = S.local[j].bid

(* reuse: whether malloc returns the address of a freed item. *)
Become(F(_)) ==
  \E r \in {FALSE, ssi.waiting} :
    LET S == F([ssi EXCEPT !.reuse = r])
    IN  /\ ssi' = [S EXCEPT !.reuse = FALSE]
        /\ troubles' = troubles \cup (IF Disturbed(S) THEN {"disturbed"} ELSE {})
                                \cup (IF Retyped(S) THEN {"retyped"} ELSE {})
                                \cup (IF Doubled(S) THEN {"doubled"} ELSE {})

UserEdit(F(_)) ==
  /\ ssi.received /\ turns < MaxTurns
  /\ Become(F) /\ turns' = IF ssi' = ssi THEN turns ELSE turns + 1
  /\ UNCHANGED <<server, inbox, timer>>

(* What the user does to his list.  gaim changes its own list first, and   *)
(* then calls oscar.c.  b is an entry of the own list, i its position.     *)
oscar_add_buddy(name, group, alias) ==
  /\ gaim_find_buddy(ssi, name) = 0
  /\ UserEdit(LAMBDA S :
       LET T == [S EXCEPT !.own.buddies = Append(@, Own(name, group, alias))]
       IN  IF aim_ssi_itemlist_exists(T.local, name) # 0 THEN T
           ELSE aim_ssi_addbuddy(T, name, group, AliasData(alias)))

oscar_remove_buddy(i, b) ==
  UserEdit(LAMBDA S : aim_ssi_delbuddy([S EXCEPT !.own.buddies = RemoveAt(@, i)], b.name, b.group))

Move(S, i, b, new_group) ==
  aim_ssi_movebuddy([S EXCEPT !.own.buddies[i].group = new_group], b.group, new_group, b.name)
oscar_move_buddy(i, b, new_group) ==
  /\ b.group # new_group
  /\ UserEdit(LAMBDA S : Move(S, i, b, new_group))

oscar_alias_buddy(i, b, alias) ==
  UserEdit(LAMBDA S :
    LET T == [S EXCEPT !.own.buddies[i].alias = alias]
        gname == aim_ssi_itemlist_findparentname(T.local, b.name)
    IN  IF gname = NULL THEN T ELSE aim_ssi_aliasbuddy(T, gname, b.name, alias))

(* If the server's list has the new group, and gaim's has not, the members *)
(* are removed and added again: to the old group, for gaim's list changes  *)
(* its name afterwards.                                                    *)
oscar_rename_group(S, old_group, new_group, members) ==
  IF aim_ssi_itemlist_finditem(S.local, new_group, NULL, "group") = 0
  THEN aim_ssi_rename_group(S, old_group, new_group)
  ELSE FoldLeft(LAMBDA T, b : aim_ssi_addbuddy(T, b.name, b.group, AliasData(b.alias)),
                FoldLeft(LAMBDA T, b : aim_ssi_delbuddy(T, b.name, old_group), S, members),
                members)

(* merge: gaim has a group of the new name, perhaps an empty one; then the *)
(* members are moved one by one.                                           *)
gaim_blist_rename_group(old_group, new_group, merge) ==
  LET own == ssi.own.buddies
      at(group) == {i \in DOMAIN own : own[i].group = group}
      members == Chosen(own, at(old_group))
      renamed == [i \in DOMAIN own |->
                    IF own[i].group = old_group THEN [own[i] EXCEPT !.group = new_group] ELSE own[i]]
  IN  /\ old_group # new_group /\ members # <<>>
      /\ merge \/ at(new_group) = {}
      /\ UserEdit(LAMBDA S :
           IF merge THEN FoldLeft(LAMBDA T, i : Move(T, i, own[i], new_group), S, Ascending(at(old_group)))
           ELSE [oscar_rename_group(S, old_group, new_group, members) EXCEPT !.own.buddies = renamed])

oscar_add_private(type, name) ==
  /\ <<type, name>> \notin ToSet(ssi.own.private)
  /\ UserEdit(LAMBDA S : AddPrivate([S EXCEPT !.own.private = Append(@, <<type, name>>)], type, name))
oscar_rem_private(type, name) ==
  /\ <<type, name>> \in ToSet(ssi.own.private)
  /\ UserEdit(LAMBDA S :
       DelPrivate([S EXCEPT !.own.private = Chosen(@, {i \in DOMAIN @ : @[i] # <<type, name>>})],
                  type, name))
oscar_set_permit_deny(value) == UserEdit(LAMBDA S : SetOption(S, "pdinfo", value))
oscar_icon_stored(sum) == UserEdit(LAMBDA S : aim_ssi_seticon(S, sum))

(* The user agrees to ask a contact who refused to be added. *)
gaim_auth_request(name) ==
  /\ name \in ssi.asked
  /\ UserEdit(LAMBDA S :
       LET T == [S EXCEPT !.asked = @ \ {name}]
           i == gaim_find_buddy(T, name)
           b == T.own.buddies[i]
       IN  IF i = 0 \/ aim_ssi_itemlist_finditem(T.local, b.group, b.name, "buddy") # 0 THEN T
           ELSE aim_ssi_addbuddy(T, b.name, b.group, {AuthTlv} \cup AliasData(b.alias)))

User ==
  \/ \E b \in Buddies, g \in Groups, a \in Aliases \cup {NULL} : oscar_add_buddy(b, g, a)
  \/ \E i \in DOMAIN ssi.own.buddies :
       \/ oscar_remove_buddy(i, ssi.own.buddies[i])
       \/ \E g \in Groups : oscar_move_buddy(i, ssi.own.buddies[i], g)
       \/ \E a \in Aliases \cup {NULL} : oscar_alias_buddy(i, ssi.own.buddies[i], a)
  \/ \E g, h \in Groups, merge \in BOOLEAN : gaim_blist_rename_group(g, h, merge)
  \/ \E p \in Private : oscar_add_private(p[1], p[2])
  \/ \E p \in Private : oscar_rem_private(p[1], p[2])
  \/ \E v \in PermDenies : oscar_set_permit_deny(v)
  \/ \E c \in Icons : oscar_icon_stored(c)
  \/ \E n \in ssi.asked : gaim_auth_request(n)

(* The server takes the next request. *)
Answering == ssi.out # <<>> /\ ssi' = [ssi EXCEPT !.out = Tail(@)]
Answer(messages) ==
  /\ Answering
  /\ inbox' = inbox \o messages
  /\ UNCHANGED timer

SendList ==
  /\ ssi.out # <<>> /\ Head(ssi.out).kind = "reqdata"
  /\ \E parts \in Parts(FoldSet(LAMBDA it, seq : Append(seq, it), <<>>, server)) :
       Answer([i \in DOMAIN parts |->
                 [kind |-> "list", items |-> parts[i], more |-> i < Len(parts)]])
  /\ UNCHANGED <<server, turns, troubles>>

Carry ==
  /\ ssi.out # <<>> /\ Head(ssi.out).kind = "change"
  /\ LET req == Head(ssi.out)
     IN  \E no \in SUBSET DOMAIN req.items :
           /\ Cardinality(no) <= IF req.action \in Refusable THEN MaxRefused ELSE 0
           /\ LET done == Served(server, req, no)
              IN  /\ \E parts \in Parts(done.oks) :
                       Answer([i \in DOMAIN parts |-> [kind |-> "ack", oks |-> parts[i]]])
                  /\ server' = done.set
                  /\ troubles' = troubles \cup (IF FALSE \in Range(done.oks) THEN {"refused"} ELSE {})
  /\ UNCHANGED turns

Fail ==
  /\ turns < MaxTurns /\ turns' = turns + 1 /\ ssi.out # <<>>
  /\ \E busy \in BOOLEAN : Answer(<<[kind |-> "error", busy |-> busy]>>)
  /\ troubles' = troubles \cup {"error"}
  /\ UNCHANGED server

(* Another client of the same account.  The server announces its changes   *)
(* once this one has activated the list (aim_ssi_enable).                  *)
Announce(action, it) ==
  /\ ssi.received /\ turns < MaxTurns /\ turns' = turns + 1
  /\ server' = Serve(server, action, it)
  /\ inbox' = Append(inbox, [kind |-> action, item |-> it])
  /\ troubles' = troubles \cup {"foreign"}
  /\ UNCHANGED <<ssi, timer>>
OtherClient ==
  \E it \in Foreign :
    \/ At(server, it) = {} /\ Announce("add", it)
    \/ At(server, it) \notin {{}, {it}} /\ Announce("mod", it)
    \/ At(server, it) # {} /\ Announce("del", it)

(* The client takes the next message. *)
Reading == inbox # <<>> /\ inbox' = Tail(inbox)
Received(S, msg) ==
  CASE msg.kind = "list" -> parsedata(S, msg)
    [] msg.kind = "ack" -> parseack(S, msg.oks)
    [] msg.kind = "add" -> parseadd(S, msg.item)
    [] msg.kind = "mod" -> parsemod(S, msg.item)
    [] msg.kind = "del" -> parsedel(S, msg.item)
    [] msg.kind = "error" -> S

Process ==
  /\ Reading
  /\ Become(LAMBDA S : Received(S, Head(inbox)))
  /\ timer' = IF Head(inbox).kind = "error" /\ Head(inbox).busy THEN timer + 1 ELSE timer
  /\ UNCHANGED <<server, turns>>

(* gaim_ssi_rerequestdata, five minutes after the error. *)
gaim_ssi_rerequestdata ==
  /\ timer > 0 /\ timer' = timer - 1
  /\ ssi' = aim_ssi_reqdata(ssi)
  /\ UNCHANGED <<server, inbox, turns, troubles>>

Server == SendList \/ Carry \/ Fail
Next == User \/ Server \/ OtherClient \/ Process \/ gaim_ssi_rerequestdata

Spec == Init /\ [][Next]_vars

(* The server answers every request and the client's main loop reads every *)
(* message: Answering and Reading are steps of Server and of Process only. *)
FairSpec == Spec /\ WF_ssi(Answering) /\ WF_inbox(Reading)

-----------------------------------------------------------------------------
Items(list) ==
  \A i \in DOMAIN list :
    /\ list[i].name \in Names \cup {NULL} /\ list[i].gid \in Nat /\ list[i].bid \in Nat
    /\ list[i].ref \in 0 .. Len(ssi.pending)

(* Types; a list is in ascending order of its ids; a change is pending     *)
(* only while aim_ssi_sync may send no other.                              *)
TypeOK ==
  /\ Items(ssi.local) /\ Items(ssi.official)
  /\ ssi.pending # <<>> => ssi.waiting
  /\ turns \in 0 .. MaxTurns /\ timer \in 0 .. turns
  /\ troubles \subseteq {"disturbed", "retyped", "doubled", "refused", "error", "foreign"}

(* Nothing is on its way between the client and the server. *)
Quiet == ssi.out = <<>> /\ inbox = <<>> /\ ssi.received

(* "An exact copy of what is stored on the AIM servers" (ssi.c, the        *)
(* comment at the head of the file): whenever nothing is on its way, the   *)
(* official list is the server's.                                          *)
ExactCopy == Quiet => Contents(ssi.official) = server

(* It is, whatever the server refuses and whatever another client does, as *)
(* long as no item of a request changes between the request and its ack    *)
(* (parseack copies the item as it is then) or changes its type (which     *)
(* parseack does not copy).                                                *)
ExactUnlessDisturbed == troubles \cap {"disturbed", "retyped", "error"} = {} => ExactCopy

(* waiting_for_ack is set only while the request or its ack is on its way, *)
(* unless the server answered with an error: nothing else would ever clear *)
(* it, and aim_ssi_sync would never send anything again.                   *)
InFlight(kind) ==
  (\E i \in DOMAIN ssi.out : ssi.out[i].kind = kind) \/ (\E i \in DOMAIN inbox : inbox[i].kind = kind)
AckAwaited == ssi.waiting /\ "error" \notin troubles => InFlight("change") \/ InFlight("ack")

(* An item other than a group has taken the ids 0, 0 of the master group:  *)
(* the first permit, deny or setting on an empty list gets them.           *)
MasterTaken == \E i \in DOMAIN ssi.local :
  ssi.local[i].gid = 0 /\ ssi.local[i].bid = 0 /\ ssi.local[i].type # "group"

(* The ids that aim_ssi_itemlist_add picks are new, unless an item has     *)
(* taken those of the master group (the next group gets them as well).     *)
UniqueIds == ~MasterTaken => ~Doubled(ssi)

(* The master group lists every group and a group lists its buddies, no    *)
(* more (aim_ssi_cleanlist drops empty groups without telling the master   *)
(* group) and no less.                                                     *)
MembersListed ==
  LET l == ssi.local
      ids(type, id(_)) == {Tlv("member", id(l[k])) : k \in {j \in DOMAIN l : l[j].type = type}}
                            \ {Tlv("member", 0)}
  IN  \A i \in {k \in DOMAIN l : l[k].type = "group"} :
        IF l[i].gid = 0 THEN ids("group", LAMBDA it : it.gid) \subseteq Members(l[i].data)
        ELSE ids("buddy", LAMBDA it : IF it.gid = l[i].gid THEN it.bid ELSE 0) = Members(l[i].data)

(* A list that the user alone edits stays well-formed, through any sequence*)
(* of additions, removals, moves and renamings.                            *)
LocalWellFormed ==
  troubles \cap {"refused", "foreign", "error"} = {} => UniqueIds /\ MembersListed

(* While no ack is awaited the two lists agree: every edit was sent, also  *)
(* one that was made while an earlier one was on its way.  Only what       *)
(* aim_ssi_cleanlist drops (an item without data) waits for the next edit, *)
(* and once two items have had the same ids, of which the second one is    *)
(* never compared, parsedel may leave it alone in the local list.          *)
NothingUnsent ==
  ssi.received /\ ~ssi.waiting /\ troubles \cap {"error", "doubled"} = {} =>
    /\ Missing(ssi.local, ssi.official) = {} /\ Changed(ssi.local, ssi.official) = {}
    /\ \A i \in Missing(ssi.official, ssi.local) : ssi.official[i].data = {}

(* aim_ssi_cleanlist "makes sure that all buddies are in a group that      *)
(* exist" (its comment): so they are once the list has been received.      *)
NoOrphans ==
  ssi.received /\ troubles \subseteq {"disturbed"} =>
    \A i \in DOMAIN ssi.local : ssi.local[i].type = "buddy" =>
      ssi.local[i].gid # 0 /\ aim_ssi_itemlist_find(ssi.local, ssi.local[i].gid, 0) # 0

(* Every edit is settled in the end: the acks keep coming and aim_ssi_sync *)
(* runs out of differences.  Not so if the server answers a change with an *)
(* error, nor once an item has had the ids of another, local or official.  *)
Settles ==
  <>[]((Quiet /\ ~ssi.waiting) \/ troubles \cap {"error", "retyped", "doubled"} # {})
============================================================================
