# A TLA+ model of irssi-icq

irssi-icq is a plugin that lets the chat client irssi talk to the ICQ network
over the OSCAR protocol. This directory keeps its specification: TLA+ modules
translated from `src/irssi-icq/src/core` and `src/irssi-icq/src/fe-common`,
and from the parts with state of the OSCAR library and of the gaim code beside
them (`src/irssi-icq/src/protocols/oscar`, `src/irssi-icq/src/gaimglue`), TLC configurations that check them on small instances, and proofs that TLAPS
checks. `PROJECT.json` maps every definition to the lines it models.

File names without a directory are in `src/irssi-icq/src/core`.

## 1. Inventory

The program of the repository is the plugin, about 1800 lines of C. The rest
(100 000 lines) was copied from gaim "to replace our own stuff" (README): of
it only `protocols/oscar` and `gaimglue` are built, and the plugin calls
nothing of them yet but `gaim_init_oscar_plugin` at start. What it is to move
onto is modelled where it keeps state that outlives a call: the server-stored
contact list, the service connections, and the way to a server through a proxy.

| component | state | operations | modelled by |
|---|---|---|---|
| FLAP receive buffer (`icq-protocol.c`: `xread`, `icq_parse_incoming`, `decode_flap`) | `inbuf`, `inbufp`, locals `pos`, `end` | read, decode a packet, keep a partial one, give up on bad magic | `PacketStream`, `FlapReceiver` |
| Session (`icq-protocol.c`, `icq-servers.c`, `icq-commands.c`) | the server record (`handle`, `readtag`, `connected`, `usermode_away`), the static `seq` and `my_status` | connect, log in, redirect, dispatch SNACs, send, lose the connection | `IcqSession` |
| Contact list and buddy file (`icq-buddy.c`) | a linked list of `{uin, alias, mode, ip}`, a text file | add, search both ways, set mode and address, save, load, reload | `IcqBuddy` |
| Query windows (`icq-queries.c`) | name and address of each window | create, rename, update address | `IcqBuddy` |
| Commands (`icq-commands.c`) | none | `/ADDBUDDY`, `/MSG`, `/AWAY`, `/SAVE`, `/RELOAD` | `IcqBuddy`, `IcqSession` |
| `/WHOIS` and status codes (`fe-common/fe-icq.c`, `icq-buddy.c`) | none | `parse_away_mode`, `modestring`, `printinfo`, `cmd_whois` | `IcqWhois` |
| Packet encoding and TLV decoding (`icq-protocol.c`) | static 2 KB buffers | `flap_begin` ... `flap_end`, `read_tlv`, `decode_msg` | results only; see section 5 |
| Module set-up (`icq-core.c`, `icq-session.c`) | registration of callbacks | load, unload, upgrade | the loading of the buddy file |
| Server-stored list (`protocols/oscar/ssi.c`, its callers in `oscar.c`) | two lists of items, official and local; the pending changes; `waiting_for_ack`; gaim's own list | edit, sync, ack, announcement, clean, request again | `Ssi` |
| Service connections (`oscar.c` on `conn.c`, `txqueue.c`, `rxqueue.c`, `service.c`) | list of connections, outgoing queue, inputs, the wishes that wait for a service | ask, redirect, connect, host online, break, sign off | `OscarServices` |
| Connecting (`gaimglue/proxy.c`) | DNS children, queue of lookups, `struct PHB` with its input | look up, connect, HTTP and SOCKS handshakes | `GaimProxy` |
| the rest of libfaim, of `oscar.c` and of gaimglue; other protocols | – | – | not modelled, see section 5 |

How they interact. Everything runs in irssi's single-threaded event loop. A
readable socket calls `icq_parse_incoming`, which reads into the server record
and calls `process_packet` for each complete FLAP packet. Its SNAC handlers
send answers with `xwrite`, emit irssi signals, and write modes and addresses
to the contact list; the list in turn renames query windows. Both `xread` and
`xwrite` call `server_disconnect`, which frees the server record, when the
connection fails: so every read and write inside a handler is a place where the
ground may go away. The user's commands run between handlers.

What is hard about it:

* TCP divides the stream of packets anywhere; a packet may fill the buffer to
  the last byte or be too long for it.
* The redirect replaces the connection and its watch inside a handler that was
  called for the old ones.
* A failure may hit any of the writes of a handler, the read that `icq_login`
  makes before the connection is watched, and the `net_connect` of a redirect.
* The sequence counter is shared by all connections and wraps.
* The contact list is searched in two directions, only ever prepended to,
  reversed by every load, and rewritten with the current aliases by every save.
  Fields of new entries are uninitialised.
* Query windows outlive the alias they were opened with.
* The buddy file is truncated before it is written; nobody looks at errors.
* The server-stored list goes on changing while a request awaits its ack. The
  pending changes refer to items by address; those may be edited, freed, or
  freed and their address used again, and another client edits the same list.
* A service is asked for, redirected and connected to in three separate steps,
  and the last one looks for "the" connection of its type.
* A proxy handshake is a chain of callbacks that share one `inpa`; each has four
  ways out, and every one must remove the input, tell the caller, and free.

`PROJECT.json` lists these as hazards with the properties that watch them. No
property watches the following, because the models leave out what they are about
or the code promises nothing: a message without an address stores -1 over the
one known so far (`icq-protocol.c:595`); `parseadd` frees a name twice
(`ssi.c:1343`); an icon is uploaded, or an account request made, on a connection
that is established but not ready (`oscar.c:3587`, `6228`); `gaim_icon_error`
takes the head of a list that may be empty (`oscar.c:3498`); -1 is stored in an
unsigned length (`rxqueue.c:193`); the proxy settings change between the call and
the answer of the child (`proxy.c:1583`); the pipe of a dead child is closed twice
(`proxy.c:420`); a silent proxy is waited for without a timeout; a request whose
fork failed is never freed (`proxy.c:652`).

## 2. Modules

### PacketStream and FlapReceiver

`PacketStream` is the promise: packets reach `process_packet` whole, each at
most once and in order, until the connection or its framing is lost; after
that nothing is promised.

`FlapReceiver` is the code, byte by byte. A byte is represented by its offset
in the peer's stream, so a lost, repeated or misplaced byte shows as a wrong
number. The content of a header is a function of the packet that starts there
(`Readings`); bytes that are not a header may look like anything, which is how
the model behaves once the framing is lost. `Recv` is `xread` and the entry of
the loop; `DecodeBad`, `DecodePartial` and `DecodePacket` are the three results
of `decode_flap` with everything `icq_parse_incoming` does about each of them.
`RecvError` is `xread` losing the connection, as it also does when the buffer
is full and `net_receive` is asked for no bytes. Parameters: `HdrLen` (6 in the code),
`BufSize` (2024), and the stream (`NPackets`, `PayLen`, `Start`, `Malformed`).
`process_packet` is a step that records the packet; what it does with it is
the subject of the other modules, but for one thing: the packet `Redir` makes it
call `icq_reconnect`, which replaces the connection and leaves the buffer
alone. The old server may have written packets behind the redirect, up to
`LoginLast`; the ones already read are still processed, as if they came from the
new server. If some of its bytes are unread by then, what is in the buffer may be
joined with the first bytes of the new connection: `cut` records it, and from
there on nothing is promised (`Intact`).

### IcqSession

The variables of the server record and the two statics are those of the code.
`handle` and `readtag` hold names of connections; `watches` and `open` are what
irssi's event loop and network layer really hold, so the record may be wrong
about them. A handler is a sequence of steps: `todo` holds the packets of the
buffer it has not reached, `job` the packets it has still to send, and `pc`
says which handler it is. `SendNext` performs one `xwrite`, which sends, or
fails and frees the record, or uses a handle that no longer exists. The last
two set the scene for `UseFreedRecord`: a handler that continues after its
record was freed sets `stale`. From there nothing is known of the
program, so a stale state has no successor and the runs do not look for
deadlock.

* `Connect`, `ConnectFailed`, `Connected`: `icq_server_connect` and irssi's
  connection machinery (external), then `sig_server_connected`.
* `LoginRead`, `LoginReadError`, `LoginSend`, `LoginWatch`: the steps of
  `icq_login` and the `g_input_add` behind it.
* `ReadPackets`, `ReadError`, `ParseDone`: `icq_parse_incoming`.
* `Redirect`, `RedirectFailed`: channel 4 and `icq_reconnect`.
* `ServerReady`, `HashRequest`, `MyStatus`, `LoginAccepted`, `Ignored`: the
  SNACs of `process_snac`. Those that only concern the contact list are
  `Ignored` here and are the actions `ModeChange` and `Message` of `IcqBuddy`.
* `cmd_addbuddy`, `send_message`, `Away`, `Reread`, `Disconnect`: the user.
* `PeerSend`, `PeerClose`: the servers (external). They write each answer once
  and in its turn, whatever else they write, and may close at any time.

`cmd_away` is bound to no command. It hangs on the signal "away mode changed",
which `process_snac` emits with one argument; it therefore finds no server and
returns with an error, and `my_status` never changes.

### IcqBuddy

The list is a sequence, front first, as `get_buddy` searches it. `Entries`,
`buddy_getalias`, `buddy_getuin`, `buddy_setmode` and their relatives are the
functions of the same names. `Fold` is the case folding of `strcasecmp`, `Clip`
is what `fgets` with 80 bytes leaves of an alias; both are parameters. The rest
of an overlong line is read as a line of its own and is taken not to begin with
a number. An address is represented by the user whose packet carried it, `Junk`
is what `g_new` left, and a mode that nobody initialised is any mode.

`Saved` writes every entry with the *current* alias of its number; `Loaded`
reads line by line, skips lines that do not begin with a number and reverses the
order, since every line is prepended. It and `Renamed` are recursive functions and
not folds, so that the proofs can go through their steps. A save is `SaveOpen` (truncate), `SaveLine`, `SaveClose`;
`SaveLost` is a full disk, `Restart` a crash at any point, also inside a save.
Every read may find that the file cannot be opened (`Reads`): a reload has then
already dropped the list. The setting `buddy_file` is taken to be given.
`Message` and `OpenQuery` contain irssi's part of opening a window (external).
Commands that need a connection are enabled always: whether there is one is the
business of `IcqSession`, and the list behaves the same.

Five history variables serve the properties: `told` (what the user was last
told about somebody's mode), `silent` (whose mode was stored without telling),
`kept` (who was listed at the last completed save), `torn` (a save was cut short)
and `unread` (the file could not be opened when the list was last read).

### IcqWhois

Extends `IcqBuddy`. `/WHOIS` changes nothing, so it is an operator from the list
and the argument to the set of lines printed. Status words and the text of a
status (low byte and the invisible bit) are those of the code. `Numerals` are the strings
that `strtol` reads to their end in base 0, whether users' numbers, aliases
("42", "0x10", "+3") or neither; `Number` is the `int` that comes of one, which
may be negative for a value beyond `int`: then the string is looked up as a nick.

### Ssi

`ssi` is `sess->ssi`: the lists `local` and `official`, in the order of their ids,
`pending` and `waiting` (`waiting_for_ack`). The edits of `ssi.c` are operators
from one value of it to the next, named as in the code; each ends in
`aim_ssi_sync`. A user's action (`oscar_*`) is gaim's change of its own list
followed by the plugin's call. The TLVs of an item are a set; of the two kinds the
code looks into, the members of a group are numbers and an alias is a value.

A pending change points to its item by address. `ref` is the inverse: the pending
change that points to an item, 0 if none does. Freeing an item leaves the change
dangling; with `reuse` the next item gets the freed address, and the change with
it, as `malloc` may decide (`Become` chooses).

The server (external) checks that an item to add is new and an item to change or
delete is there, and may refuse. `Carry` answers a request in one message or two;
`Fail` answers with an error; `OtherClient` changes the list and announces it.
`troubles` remembers what has happened: `disturbed`, an item of a
request changed before its ack; `retyped`, a request gave the ids of one item
to one of another type; `doubled`, two items with the same ids; `refused`,
`error`, `foreign`.

### OscarServices

`faim` is the libfaim session: the list of connections and `queue_outgoing`, both
as functions of the number of the connection (the code's list has the newest
first, so that a search for the first one is for the highest number, `Newest`; of the
queue only the order of the frames of one connection matters, because different
connections write to different sockets); `od` the plugin's data. The k-th redirect
makes connection k and starts the connect that will yield socket k, so that a crossed
connection shows as two different numbers. `watches` is what the main loop polls, `dials`
the connects under way, `inbox` and `served` the servers' side. Actions are the
user's requests (`AccountRequest`, `oscar_join_chat`, ...), the callbacks of a
connect (`Connected`, `ConnectFailed`, `ConnectTooLate`) and `oscar_callback`,
which reads one frame and dispatches it to the handlers of its family, or
finds the connection broken. `status` becomes `freed` or `hung` when the code
follows a dangling pointer or reads a socket that has nothing to say; the model
ends there. Services for which a second request was made while there was already
one are in `faim.doubled`.

### GaimProxy

A request is a `struct PHB`; `inputs` are the inputs and timers of the main
loop that carry it, `inpa` the one it remembers. `dns` is the pool: each child is
gone, free or busy, the number of children, the list of free ones and the queue are the
code's. Children answer, fail, expire after their 40 seconds, or die; proxies
answer with as many bytes as a handler needs, asks for, or the answer has, and one
less or more (`Readable`). `sock` says of the socket whether it is open,
connected, non-blocking, and whether its first unread byte is the caller's.

## 3. Runs

| run | configuration | checks |
|---|---|---|
| `flap_fit` | `MCFlapFit.cfg` | header 2, buffer 6, packets of 0 (a redirect), 4 (fills the buffer), 1 and 5 bytes (one too many): `TypeOK`, `Aligned` (nothing lost, repeated or misplaced), `OversizedNeverDelivered`, `EventuallyDelivered` |
| `flap_broken` | `MCFlapBroken.cfg` | a redirect with a packet behind it, then a malformed packet in front of an oversized one: `OutOfSyncOnlyIfMalformed` and the refinement `ImplementsPacketStream` |
| `session` | `MCSession.cfg` | every failure at every write, any number of connections: `TypeOK`, `WatchedWhileUp`, `StaleUseNeedsFailure`, `Announced`, `OnlyAfterLogin`, `SeqConsecutive`; and `EventuallyLoggedIn`: a login comes to an end |
| `session_away` | `MCSessionAway.cfg` | *violated*: `AwaySetsStatus` |
| `buddy_names` | `MCBuddyNames.cfg` | shared, shadowed, misspelt, overlong aliases: `RoundTrip`, `NothingForgotten` |
| `buddy_queries` | `MCBuddyQueries.cfg` | windows across new aliases, reloads, messages: `NeverMisdelivered`, `TopicNamesPeer` |
| `buddy_presence` | `MCPresence.cfg` | modes and addresses: `TypeOK`, `IpOfItsOwner`, `ToldTheStoredMode`; and of every list reached, `/WHOIS` alone and with every status: `WhoisListsEveryone`, `WhoisAgreesWithTold` (those who were last reported to have it, whoever is nicknamed so) |
| `ssi` | `MCSsi.cfg` | `TypeOK`, `ExactUnlessDisturbed` (the official list is the server's), `AckAwaited`, `LocalWellFormed` (ids are unique, groups list their members), `NothingUnsent` (no edit is forgotten), `Settles` (the exchange comes to rest) |
| `ssi_exact` | `MCSsiExact.cfg` | *violated*: `ExactCopy` |
| `ssi_clean` | `MCSsiClean.cfg` | *violated*: `NoOrphans` |
| `oscar_services` | `MCOscarServices.cfg` | `TypeOK`, `WatchesLive` (inputs and connections agree), `OwnCookieFirst` (frames in order on the right socket), `ConnectFindsConn`, `FramesAwaitConnect`, `NothingStranded` (no wish waits for ever) |
| `gaim_proxy` | `MCGaimProxy.cfg` | `TypeOK`, `WaitsForOneThing`, `ToldOnce`, `NoSocketLost`, `CleanHandover`, `QueueServed` |

The violated runs are disagreements between what the repository says and what
the code does:

* `/AWAY` does not set the status, because no command of that name is bound
  (`icq-commands.c:76`), though the README lists it.
* The official list is not "an exact copy of what is stored on the AIM servers"
  (`ssi.c:9`) after an edit between a request and its ack: `parseack` copies the
  item as it is by then (`ssi.c:1512`), finds no difference to send, and the
  server keeps the old one.
* `aim_ssi_cleanlist` does not make sure "that all buddies are in a group that
  exist" (`ssi.c:626`): it removes the first buddy of the name, which may be the
  copy it has just made (`ssi.c:656`).

Smaller ones, met on the way and not made runs of:

* `/WHOIS uin`, which the README lists, takes the number for a status code and
  prints the contacts with that status, most often none (`fe-common/fe-icq.c:87`);
  so does `/WHOIS nick` for a nick that is a status word or reads as a number, as
  "42" or "0x10" (`icq-buddy.c:279`). `/WHOIS dnd` leaves out contacts with status 2,
  though `/WHOIS` shows them as "do not disturb" (line 69).
* Two sentences of the README are out of date: that the buddy file
  is loaded only once, and that an added buddy is saved in no file. Since the
  handlers of "setup reread" and "setup saved" exist, neither is true; its own
  section "New Features" says so.
* The comment in `aim_ssi_sync` says that it does deletions first (`ssi.c:466`);
  it does additions first.
* `gaimglue/proxy.h` says that `gaim_proxy_connect` returns the socket handle; it
  returns 0 or -1.

What the passing runs say where the code is less than one might wish. A malformed
header makes `icq_parse_incoming` drop all that was read, well-formed packets
too; an oversized packet is never delivered, nor anything behind it
until the connection is lost. A redirect with more bytes behind it may join
bytes of two servers. A failed write inside a handler, a failed first
read and a failed `net_connect` in a redirect do lead to a freed record being
used; `StaleUseNeedsFailure` shows that nothing else does. A crash or a full disk
during a save loses contacts, and so does a reload that cannot open the file when
a save follows; `NothingForgotten` shows that nothing else does. A
reload leaves new contacts unannounced (`Announced` allows them).

Each property of `Ssi`, `OscarServices` and `GaimProxy` says in its comment what
it excepts. In short: an error in answer to a change stops the exchange for good; ids of an
empty list collide with the master group's; a refused deletion may double
an item; a service asked for twice at a time gets two connections whose sockets
may cross over, which leaves inputs for freed connections; a failed connect keeps the
wishes waiting and, for icons, keeps the service from being asked for again;
`SO_ERROR` is not looked at; SOCKS answers that come in pieces or are longer than
usual, and an HTTP head in pieces, put the caller's bytes out of place; a short SOCKS 5
answer hands over a closed descriptor; lookups in the queue are stranded when the last child is lost.

### Bounds

* Receiver: a buffer of three headers holds the cases that differ: several
  packets in a read, a packet over several reads, a header divided, a packet
  that fills the buffer, one that is a byte too long. The proofs cover every
  size.
* Session: two contacts, so that a handler may fail between two announcements;
  two names for connections, because at a redirect the old and the new one are
  alive together (names are reused, so the number of connections is not bounded);
  `SeqSpace` 3, so that the counter wraps within a login; `MaxNet` bounds only
  what the server sends unasked.
* Contacts: `MaxBuddies` 3 in the run about names (three entries are needed for
  a user's shadowed entry between two others), 2 elsewhere; `MaxQueries` 2, the
  least with which an address may reach the wrong window. The number of saves,
  reloads and restarts is not bounded. The run with query windows uses names
  that are unambiguous, because with shared aliases the code makes no
  promise; names shared between users are the subject of `buddy_names` and
  `buddy_presence`.
* Server-stored list: `MaxTurns` 2 edits, announcements or errors beside what
  the login itself makes of the list, which is already a request of several
  rounds: so an edit may fall before, between or after the acks of another, and
  an item may be deleted and its ids given away. Four lists at login: none, where
  ids start at 0; one with an empty group, which is dropped without a sync, and an
  alias only gaim has; one with a buddy in the master group; one with a deny and
  a hidden idle time, while gaim denies somebody else. One refusal per request,
  answers cut behind the first outcome, two groups, because a move needs them,
  and names that differ only in case.
* Services: two requests, one failure, six connections (the bound is not reached
  within these), two account wishes with different answers, with and without
  a mail address. Two requests are the least with which a service is asked for
  twice at a time.
* Proxy: three requests on two children, so that one waits in the queue; the
  first may have any proxy and no account, the others connect directly.

### Fairness

`FlapReceiver` and `IcqSession` assume weak fairness of what the event loop
does: it calls the handler of a readable socket, and irssi being
single-threaded a handler, once begun, runs to its end. Of the peer, only that
it completes the packets it began (receiver), and that it answers or closes
(session): ICQ servers are outside the program, and without an answer no login
ends, there being no timeout in the plugin. No fairness is assumed of failures,
of the user, or of unsolicited packets. `EventuallyLoggedIn` lists the exceptions:
no password, a refusal, a lost connection, a failed redirect.

`Ssi` assumes that the server answers every request and that the main loop reads
what arrives. `OscarServices` and `GaimProxy` assume no fairness. What must happen
in the end is said of the states in which nothing more can come:
`NothingStranded` of the system at rest, `WaitsForOneThing` (a request under way
always waits for something the main loop knows) and `QueueServed` of every
state. A proxy that stays silent is waited for without a timeout, so no
stronger promise would hold.

## 4. Proofs

Every theorem holds for all values of the constants that satisfy the named
assumptions of its module, which TLC evaluates on every run. Each rests on an
inductive invariant (`IInv` or a named one) that TLC checked on the run's instance
before it was proved. A proof has one step, or one lemma, for each action.

`Induction` is not about the system. Induction theorems of the library take the
predicate as an operator, which the provers cannot instantiate; here it is a set
(`UpTo`: a set that contains 0 and is closed under successor contains 0 .. N, by
`LeastElement`, by the well-foundedness of finite sets under inclusion), and the
step of a recursion is a function (`Recursion`). That is enough for recursive
functions over the naturals, like those of `IcqBuddy`.

### FlapReceiver_proofs: every header length, buffer size and stream

* `TypeCorrect`: `Spec => []TypeOK`. It is inductive together with
  `LoopInv`, which says that the loop is entered and continued only with
  unprocessed data (`pos < end`).
* `AlignedAlways`, `FramingKept`, `OversizedStuck`: `Aligned`,
  `OutOfSyncOnlyIfMalformed` and `OversizedNeverDelivered`. `Aligned` is what
  makes the others inductive: it says that the cursor stands at the header of
  the next packet, so `decode_flap` reads that packet's own length (lemma: the
  header at the cursor is unique, because offsets are), and what it delivers is
  that packet.
* `Refinement`: `Spec => Stream!StreamSpec`.

Assumptions: `SizeAssumption` and `LayoutAssumption` (the packets follow each
other without gaps; that starts increase is stated because it needs an induction)
and `RedirectAssumption` (the login server's packets end at or behind the
redirect). The redirect is why `Aligned` and what rests on it are stated under
`Intact`: `ReconnectKeeps` shows that a redirect which cuts nothing off keeps the
buffer a stretch of the joined stream.

### IcqSession_proofs: every set of contacts and connections, every width of the sequence number

* `WatchedAlways`, `StaleUseExplained`: `WatchedWhileUp`, `StaleUseNeedsFailure`.
  Neither is inductive: both speak of the time between handlers, or of its
  outcome, while the record changes inside them. The inductive invariant is
  `(~stale => Parts) /\ (stale => failed # {})`. `Parts` says for each phase what
  the record, `watches` and `open` are: without a record there is nothing open or
  watched; while `icq_login` runs the connection is open and not yet watched; in
  `icq_parse_incoming` the watched, open connection is `handle`, unless a redirect
  failed; and a record that was freed under a handler implies a recorded failure.
  `LoginInv` and `GreetInv` carry the reason why no redirect can be handled before
  `LoginWatch`: the login server redirects only after it received the login, which
  is sent after the packets of `LoginRead` were processed. This rests on the
  external assumption about the servers' order of answers.
* `SessionTypeOK`: `TypeOK`, with `Parts` for the handle that is written to.
* `AlwaysConsecutive`: the action property `SeqConsecutive`. `SeqInv`: the server of
  the open connection has last seen the value of the shared counter. It is what a
  reconnect must not break.
* `AlwaysAfterLogin`: `OnlyAfterLogin`, from `DialogueInv`: what was read or is in
  the network was said, nothing follows a redirect (`StreamInv`); what was said
  shows what had been heard (`AnswerInv`); what is sent, about to be sent in
  `job`, or believed in `connected` shows what was said (`ClientInv`).
* `AlwaysAnnounced`: `Announced`, from `AnnounceInv`: contacts not yet announced
  are among the packets the running handler still has to send.

`SessionAssumption` says that the contacts are finitely many and are no names of
other packets.

### IcqBuddy_proofs and IcqWhois_proofs: all names, aliases, files and packets

* `BuddyTypeOK`: `TypeOK`; `AlwaysTold`: `ToldTheStoredMode`, inductive by itself.
* `AlwaysRoundTrip`: `RoundTrip`. By induction over the lines, the list read so far
  holds the lines read so far in reverse (`Holds`, `LoadStepHolds`), so the first
  entry with a number after loading is the last line with it, and all of its lines
  have the alias that was current when they were saved.
* `NeverForgotten`: `NothingForgotten`, from `FileInv`: while nothing has gone wrong
  the file names everybody who was saved, and inside a save what is written and
  what is still to be written name everybody in the list.
* `AlwaysOwnIp`, `AlwaysTopicOfPeer`, `AlwaysDelivered`: `IpOfItsOwner`,
  `TopicNamesPeer`, `NeverMisdelivered`, from `NamesInv`: every alias in the list,
  in the file and in what is being saved was given to its user by the user
  (`Known`), stored addresses are their owners', and a window's name stands for its
  peer. The proof needed a condition that no instance had shown to be missing: two
  numbers that differ must differ after case folding (third conjunct of
  `Unambiguous`, true of strings of digits).
* `AlwaysListsEveryone`: `WhoisListsEveryone`, over the lists that `BuddyTypeOK` admits.
* `AlwaysAgreesWithTold`: `WhoisAgreesWithTold`, from `BuddyTypeOK` and `AlwaysTold`:
  every status argument is taken for its code (`StatusCode`, for all strings and
  values of `strtol`), the loop over the list prints the contacts whose current
  mode is that code (`WhoisOfStatus`), and that mode is the one told. What a
  nick that is no status is looked up as holds by definition, and is not stated.

### GaimProxy_proofs: every number of requests and children, every assignment of proxies

All six properties follow from one inductive invariant, because each needs the
others: a handler finds the socket it expects only if nothing else waits for
its request, and the pool serves a request once only if it is asked once.

* `PoolOK` is about the children alone: which are listed as free, their number,
  and that a lookup waits in the queue only if no child is free and some child is
  busy or lost. `Ask`, `ReleaseOne` and `LoseOne` show that
  `gaim_gethostbyname_async`, `release_dns_child` and `req_free` keep it, and how
  they move *what waits* for a request: from nothing (`Nothing`) to one child or one
  place in the queue (`Once`) and back, all other requests being left alone
  (`Keeps`).
* `ReqOK` says of a request that it is untouched, or looked up, or watched by the one
  handler that fits its socket (`Watched`), or ended in one of three ways (`Ended`).
  For each handler a lemma (`HttpSettles`, `S5Settles`, ...) shows that from
  `Watched` it goes on or ends so (`Settled`).
* `LeftOK` justifies that `func` may be withheld.

`ProxyTypeOK` includes the accounting of the children, which takes the theorems
about cardinalities of the library.

### OscarServices_proofs: every number of connections and failures, every sequence of account requests

Five of the six properties follow from one inductive invariant, `IInv`: while the
user is signed on it is `Live`, afterwards `AtEnd`. `Live` is a conjunction of named
parts, each a predicate of the session, the connects, the inputs and the slots, so
that a lemma can state what one operation of libfaim does to all of them:

* `ConnsOK`: every connection of a service that was never asked for twice at a time
  is either `Pending` (its own connect is under way; the frames, with the cookie first,
  wait in the queue; nothing is on its socket) or `Working` (it has its own socket, an
  input, and a slot or a room). `Single` is why there is but one of it: a service
  asked for once has a request or a connection, not both. `WiresOK`, `WatchesOK`
  and `RoomsOK` say the same from the side of the sockets, inputs and chat rooms.
* `DialsOK` is what makes `AlwaysFindsConn` true of *every* service, also one asked for
  twice, whose callbacks take each other's connections: of each type at least as
  many connections are in progress as connects are under way (by cardinality, since no
  one of them need be the right one).
* `Awaiting`: frames wait only for a connection in the list that is in progress.
  `Placed`: a socket, slot or input of one type never ends up with a connection
  of another.

Operations have lemmas of two kinds: what it assigns (`EnqueueIs`, `KillIs`,
`NewconnIs`, `FlushIs`, `CompleteIs`), and that it keeps `Live` (`EnqueueKeeps`,
`ReqserviceKeeps`, `StartedKeeps`, `NotStartedKeeps`, `CompleteKeeps`, `FailKeeps`,
`BreakKeeps`, `LeaveKeeps`, `BartKeeps`); the action lemmas combine them. The theorems are
`ServicesTypeOK`, `AlwaysWatchesLive`, `AlwaysOwnCookieFirst`, `AlwaysFindsConn` and
`AlwaysFramesAwaitConnect`.

`NamesAssumption` says that `Wishes` is a sequence and that neither an account request
nor a buddy is written like the cookie's frame.

### Ssi_proofs: every list, name and answer, every sequence of edits

An edit of `ssi.c` is a composition of a dozen operators, some of them folds over
a whole list, so the proof goes by what *any* of them may do to a session
(`Sessions`: the types of `sess->ssi`) rather than by what each one does. Three
relations are enough, and composing them costs nothing:

* `Kept`: nothing was sent, nothing that awaits its ack was changed. `Edited`:
  the same, and the official list is as it was. So are all steps of an edit
  before its `aim_ssi_sync`.
* `Sent`: one request with the changes that are now pending (`SyncLemma`).
* `From(S)`: what can be reached from `S` by edits that end in `aim_ssi_sync`,
  which is `Edited`, or `Edited` and then `Sent`, never twice (the second one finds
  `waiting_for_ack` set). A user's action, `aim_ssi_cleanlist` and
  `gaim_ssi_parselist` with their loops all end in `From(S)`; a loop is a fold
  whose runs are functions over its steps (`FoldToRun`), so that it needs no
  induction principle but `Induction`.

For each action there is one predicate of what it does (`UserDone`, `ListSent`,
`Carried`, `Failed`, `Announced`, `Processed`, `Rerequested`) and a lemma that it does it.

* `Typed`: `TypeOK`. `TInv` adds that every message in the inbox and every
  request has its type, the items of all lists are of those that the server, the
  user and another client can write, and `timer` never exceeds the number of errors
  (`Delays` counts the errors still in the inbox).
* `AcksAwaited`: `AckAwaited`. `AckInv`, while no error has been answered: the
  messages in the inbox hold exactly as many outcomes as there are pending changes
  whose request is no longer in `out` (`Exchange`, a running count through the
  inbox), a request awaits its answer only with nothing ahead of it, and before the
  list was received nothing is pending. So a split answer clears
  `waiting_for_ack` with its last part and not before.
* `ExactCopied`: `ExactUnlessDisturbed`, the sentence of `ssi.c` about the official
  list. `ExactInv`, while no item of a request was disturbed or retyped and no
  request was answered with an error:
  - the official list has the items of some set, each once, with no two of
    the same ids (`Mirrors`);
  - a *view* is such a set and the changes that still await their outcome.
    Reading the inbox message by message takes the view of the client to that of
    the server (`Path`, by `Moves`): a part of the list joins its items, an ack applies
    the outcomes it has to that many changes, each as the server applied it
    (`Chain`), an announcement edits one item. Together this is `Copying`; with an
    empty inbox it says that both views are the same;
  - all pending changes are of one kind (`OneKind`), the item of each is in the
    list as it was sent, and the item it will replace in the other list has its
    type, which `parseack` does not copy (`Ready`, from `~Disturbed` and
    `~Retyped`). Otherwise an ack carries over something else than what the
    server has stored;
  - while the list is only asked for (`Asks`), the official list is empty and the ids
    of the server's items are their own.

  The steps: the server's answer (`AckMessage`, whole or in two parts) appends to
  the path what it does to its list, in the same order; `ListSent` does so
  for the parts of the list; another client's edit appends one move; reading a message
  drops the first move and does the same to the official list; an edit by the
  user leaves the official list alone. The three excluded troubles are those
  in which the code can lose the copy: an item changed between request and
  ack is carried over as it is by then, of a retyped item the old type stays, and
  after an error the pending changes wait for an ack that belongs to none of them.

The inbox is a sequence of any length. What is read from it one message at a
time is described by a *view* per message (`Linked`: view i and message i give
view i + 1), with three lemmas for a message that is appended, read, or left while the
views are mapped.

`NamesAssumption` says how the sets of names relate; `ListsAssumption` that the
server's list at login and the items of another client are items, that no two
items of the server's list have the same ids, and that gaim's own list is one.

### What is only model-checked

Liveness (`EventuallyDelivered`, `EventuallyLoggedIn`, `Settles`) is outside the
reach of TLAPS here: it needs ENABLED and the rules for fairness. `NothingStranded`
of `OscarServices` speaks of the states in which the whole exchange has come to rest:
an inductive invariant would have to follow every request through the frames, the
server's answers (flattened into one sequence, a fold) and the handlers.

Of `Ssi`, `LocalWellFormed` and `NothingUnsent` are checked and not proved. The first
needs what every edit does to every group's members, through the folds of
`aim_ssi_cleanlist` and `gaim_ssi_parselist`. The second rests on the same facts and on
what another client may send: for arbitrary `Foreign` items it would need
assumptions that the code does not make (another client that changes an empty
group, which `aim_ssi_cleanlist` has dropped here, changes the official
copy only, and the two lists differ until the next edit).

## 5. Not modelled

Nine tenths of the repository's C code cannot be modelled with any meaning:

* Jabber (with a copy of expat), MSN, Yahoo, TOC, Gadu-Gadu and Zephyr, about
  48 000 lines, are not built: `protocols/Makefile.am` descends into `oscar` only.
* Buddy list, conversations, accounts, file transfers and the rest of gaimglue
  are built and cannot run: gaim calls its user interface through tables of
  functions which this port never installs (`gaim_set_blist_ui_ops` and its
  relatives are not called; adding an account returns early, removing a buddy would
  dereference NULL), and `serv_got_update`, the only source of presence, is
  commented out. Of `blist.c` only what the edits of the server-stored list
  need is part of `Ssi`.
* Most of libfaim and of `oscar.c` translates one packet to a call or a call to
  one packet and keeps nothing: `im.c`, `icq.c`, `auth.c`, `tlv.c`, `locate.c`,
  and the message handlers. A model of them would restate the layout of packets.
  Direct connections (`ft.c`) need a user interface for file transfers.

Of the modelled parts are left out:

* The bytes inside a packet: `flap_*`, `write_*`, `read_tlv`, `scan_tlv`,
  `crypt_pass`. The models take what `extract_user_info` and `decode_msg` hand
  to their callers, with the uninitialised values that they leave.
* In the session, packets behind a redirect: `FlapReceiver` has them, while
  `IcqSession` assumes that the login server writes nothing after it.
* Of the server-stored list, what only sends packets (`aim_ssi_sendauth*`, the rights
  request) and the checksums of icons; of the connects, addresses after
  the first that can be tried, descriptors that are closed twice, and a SOCKS 5
  proxy that picks a method it was not offered (`s5_canread` does not look, and
  would take the length of a user name that is NULL, `proxy.c:1427`).
* Of the service connections, what happens after the account has signed on again: a
  connect left over from the session before closes its socket then
  (`ConnectTooLate`), but the properties are about one session. The rounds of
  versions and rates between host online and `conninitdone` are one frame and its answer.
* Failures of `net_sendbuffer_create` and `g_input_add` (neither reports one),
  and the upgrade path `session_reconnect`, which needs a second irssi process.
* Formatting of what is printed, `cmd_version` (empty), `read_conf_option`
  and `icq_check_buddies` (never called), `event_login` (its signal is never
  emitted), and irssi's own handlers of "event connected".

## 6. Running

    tlc -workers 2 -config MCSession.cfg MCIcqSession
    tlapm FlapReceiver_proofs.tla

Every configuration belongs to the MC module of its component.

## 7. Plan

Done first, because a fault there would break everything above it: the
receiver, the session, the contact list; then what the plugin is to move onto.
Next, in this order:

1. Proofs: of `Ssi`, what its edits do to the members of groups
   (`LocalWellFormed`).
2. `Tlv`: `read_tlv`, `scan_tlv`, `extract_user_info`, `decode_msg` and the
   channel 4 scan over sequences of small TLVs, against a reference definition
   (the value of the first TLV with a type); 16-bit lengths that run
   over the packet.
3. Session and contact list together: announcement, presence and `connected` in
   one state space, so that `Announced` speaks of the real list.
4. An abstract specification of the contact list (a map from numbers to aliases
   and back) that `IcqBuddy` implements while aliases are unambiguous.
5. Direct connections (`ft.c`), once the port has a user interface for them.
