---------------------------- MODULE FlapReceiver ----------------------------
(***************************************************************************)
(* The receive buffer of an ICQ connection: icq_parse_incoming, xread and  *)
(* decode_flap of core/icq-protocol.c.  TCP hands the bytes of the stream  *)
(* over in arbitrary pieces; the buffer inbuf[SOCK_BUFSIZE] of the server  *)
(* record has to put the FLAP packets together again.                      *)
(*                                                                         *)
(* A byte is represented by its offset in the stream the peer writes, so   *)
(* that a misplaced, lost or repeated byte shows.  NoByte is the zero byte *)
(* that g_new0 left in the buffer.                                         *)
(***************************************************************************)
EXTENDS Integers, Sequences

CONSTANTS
  HdrLen,      \* length of a FLAP header (6 in the code)
  BufSize,     \* SOCK_BUFSIZE (2024 in the code)
  NPackets,    \* number of packets the peer writes on this connection
  PayLen,      \* PayLen[k]: length field of packet k
  Start,       \* Start[k]: offset of the first header byte of packet k
  Malformed,   \* packets that do not begin with the magic number 0x2A
  Redir,       \* the packet that redirects to another server, 0 if none does
  LoginLast    \* the last packet of the server that the session begins with

ASSUME SizeAssumption ==
  HdrLen \in Nat \ {0} /\ BufSize \in Nat /\ HdrLen <= BufSize

(* The layout of the stream: packets follow each other without gaps.  The  *)
(* conjunct on j and k is a consequence of the one before it, stated       *)
(* because the proofs cannot do the induction.                             *)
ASSUME LayoutAssumption ==
  /\ NPackets \in Nat
  /\ PayLen \in [1 .. NPackets -> Nat]
  /\ Start \in [1 .. NPackets + 1 -> Nat]
  /\ Start[1] = 0
  /\ \A k \in 1 .. NPackets : Start[k + 1] = Start[k] + HdrLen + PayLen[k]
  /\ \A j, k \in 1 .. NPackets + 1 : j < k => Start[j] < Start[k]
  /\ Malformed \subseteq 1 .. NPackets

(* Behind its redirect the login server may still write packets.  The      *)
(* stream is what the two servers write, one behind the other.             *)
ASSUME RedirectAssumption ==
  \/ Redir = 0 /\ LoginLast = NPackets
  \/ Redir \in 1 .. NPackets /\ LoginLast \in Redir .. NPackets

VARIABLES
  written,     \* number of bytes the peer has written so far
  taken,       \* number of bytes net_receive has returned so far
  inbuf,       \* sock->inbuf
  used,        \* sock->inbufp - sock->inbuf
  pc,          \* "idle", or "decode" inside the for (;;) of icq_parse_incoming
  pos, end,    \* the locals pos and end of icq_parse_incoming
  delivered,   \* packets given to process_packet, oldest first
  insync,      \* "Out of sync, discarding packet" was never printed
  reconnected, \* icq_reconnect has replaced the connection
  cut,         \* it did so before all that the login server wrote was read
  up           \* ~sock->connection_lost

bufVars == <<inbuf, used>>
loopVars == <<pc, pos, end>>
connVars == <<reconnected, cut>>
vars == <<written, taken, inbuf, used, pc, pos, end, delivered, insync,
          reconnected, cut, up>>

NoByte == -1
Garbled == 0           \* a delivered packet that the peer never wrote
BadMagic == -1
Total == Start[NPackets + 1]
Cells == 0 .. BufSize - 1
LoginTotal == Start[LoginLast + 1]
Limit == IF reconnected THEN Total ELSE LoginTotal
Intact == insync /\ ~cut

-----------------------------------------------------------------------------
(* Reading the buffer. *)

(* Cells p .. p+n-1 hold the stream bytes that start at offset o. *)
Holds(p, n, o) ==
  p + n <= BufSize /\ \A j \in 0 .. n - 1 : inbuf[p + j] = o + j

HeaderOf(p) == {k \in 1 .. NPackets : Holds(p, HdrLen, Start[k])}

(* What decode_flap finds in the header at cell p: the length field, or a  *)
(* wrong magic number.  Bytes that are not the header of a packet may look *)
(* like anything.                                                          *)
Mut_ReadingsClamped(p) ==
  {IF k \in Malformed THEN BadMagic
   ELSE IF HdrLen + PayLen[k] > BufSize THEN BufSize - HdrLen ELSE PayLen[k] : k \in HeaderOf(p)}
Readings(p) ==
  IF HeaderOf(p) # {}
  THEN {IF k \in Malformed THEN BadMagic ELSE PayLen[k] : k \in HeaderOf(p)}
  ELSE {BadMagic, 0} \cup {PayLen[k] : k \in 1 .. NPackets}

(* The packet that process_packet sees when it is given the len bytes      *)
(* behind the header at cell p.                                            *)
PacketAt(p, len) ==
  LET whole == {k \in HeaderOf(p) : Holds(p, HdrLen + len, Start[k]) /\ len = PayLen[k]}
  IN  IF whole = {} THEN Garbled ELSE CHOOSE k \in whole : TRUE

(* The whole packet is there: decode_flap does not ask for more. *)
Mut_CompleteWithoutHeader(p, len) == len <= end - p
Complete(p, len) == len <= end - p - HdrLen

(* The room behind sock->inbufp that xread may fill. *)
Mut_RoomOneShort == BufSize - used - 1
Room == BufSize - used

(* The buffer after n bytes were read to sock->inbufp. *)
Mut_StoredAtStart(n) == [i \in Cells |-> IF i < n THEN taken + i ELSE inbuf[i]]
Stored(n) ==
  [i \in Cells |-> IF i \in used .. used + n - 1 THEN taken + (i - used) ELSE inbuf[i]]

(* The buffer after memmove(buf, pos, end - pos). *)
Mut_NotMoved == inbuf
Moved == [i \in Cells |-> IF i < end - pos THEN inbuf[pos + i] ELSE inbuf[i]]

-----------------------------------------------------------------------------
Init ==
  /\ written = 0 /\ taken = 0
  /\ inbuf = [i \in Cells |-> NoByte] /\ used = 0
  /\ pc = "idle" /\ pos = 0 /\ end = 0
  /\ delivered = <<>> /\ insync = TRUE /\ up = TRUE
  /\ reconnected = FALSE /\ cut = FALSE

(* The server that the socket is connected to writes some more bytes; TCP  *)
(* makes them readable in pieces.                                          *)
PeerWrite ==
  /\ \E n \in 1 .. Limit - written : written' = written + n
  /\ UNCHANGED <<taken, bufVars, loopVars, delivered, insync, connVars, up>>

(* xread returns n > 0 bytes; the loop over the packets in the buffer      *)
(* starts at its front.  (When n = 0 the handler returns and nothing has   *)
(* changed.)                                                               *)
Recv(n) ==
  /\ up /\ pc = "idle"
  /\ n <= Room /\ n <= written - taken
  /\ inbuf' = Stored(n)
  /\ taken' = taken + n
  /\ end' = used + n /\ pos' = 0 /\ pc' = "decode"
  /\ UNCHANGED <<written, used, delivered, insync, connVars, up>>

(* net_receive reports an error or the end of the stream, as it does when  *)
(* it is asked for no bytes because the buffer is full: connection_lost is *)
(* set and the server is disconnected.                                     *)
RecvError ==
  /\ up /\ pc = "idle"
  /\ up' = FALSE
  /\ UNCHANGED <<written, taken, bufVars, loopVars, delivered, insync, connVars>>

(* decode_flap returns NULL: everything in the buffer is thrown away. *)
DecodeBad ==
  /\ pc = "decode" /\ end - pos >= HdrLen
  /\ BadMagic \in Readings(pos)
  /\ used' = 0 /\ insync' = FALSE /\ pc' = "idle"
  /\ UNCHANGED <<written, taken, inbuf, pos, end, delivered, connVars, up>>

(* decode_flap returns its argument: less than a header, or less than the  *)
(* packet, is there.  The rest moves to the front of the buffer.           *)
DecodePartial ==
  /\ pc = "decode"
  /\ \/ end - pos < HdrLen
     \/ \E len \in Readings(pos) \ {BadMagic} : ~Complete(pos, len)
  /\ inbuf' = Moved
  /\ used' = end - pos /\ pc' = "idle"
  /\ UNCHANGED <<written, taken, pos, end, delivered, insync, connVars, up>>

(* decode_flap calls process_packet and returns the end of the packet; the *)
(* loop stops when that is the end of the data.                            *)
Take(len) ==
  /\ Complete(pos, len)
  /\ delivered' = Append(delivered, PacketAt(pos, len))
  /\ LET newpos == pos + HdrLen + len IN
       IF newpos = end
       THEN used' = 0 /\ pc' = "idle" /\ pos' = pos
       ELSE used' = used /\ pc' = "decode" /\ pos' = newpos

(* What process_packet does to the connection.  icq_reconnect closes it    *)
(* and opens another one: the rest of what the old server wrote is never   *)
(* read, but inbuf, inbufp and the locals of the loop stay as they are.    *)
(* (That the new connection cannot be opened is the matter of IcqSession.) *)
Reconnect(k) ==
  IF Redir # 0 /\ k = Redir /\ ~reconnected
  THEN /\ reconnected' = TRUE
       /\ cut' = (cut \/ taken # LoginTotal)
       /\ written' = LoginTotal /\ taken' = LoginTotal
  ELSE UNCHANGED <<written, taken, reconnected, cut>>

DecodePacket ==
  /\ pc = "decode" /\ end - pos >= HdrLen
  /\ \E len \in Readings(pos) \ {BadMagic} :
       Take(len) /\ Reconnect(PacketAt(pos, len))
  /\ UNCHANGED <<inbuf, end, insync, up>>

Parse == DecodeBad \/ DecodePartial \/ DecodePacket

Next == PeerWrite \/ (\E n \in 1 .. BufSize : Recv(n)) \/ RecvError \/ Parse

Spec == Init /\ [][Next]_vars

(* The event loop calls icq_parse_incoming whenever the socket is readable *)
(* and the call runs to its end; the peer finishes the packets it began.   *)
Fairness ==
  /\ WF_vars(PeerWrite)
  /\ WF_vars(\E n \in 1 .. BufSize : Recv(n))
  /\ WF_vars(Parse)

FairSpec == Spec /\ Fairness

-----------------------------------------------------------------------------
(* Type invariant of the receive buffer and of the locals of               *)
(* icq_parse_incoming.                                                     *)
TypeOK ==
  /\ written \in 0 .. Limit /\ taken \in 0 .. written
  /\ reconnected \in BOOLEAN /\ cut \in BOOLEAN
  /\ inbuf \in [Cells -> Nat \cup {NoByte}]
  /\ used \in 0 .. BufSize
  /\ pc \in {"idle", "decode"}
  /\ pos \in 0 .. BufSize /\ end \in 0 .. BufSize
  /\ delivered \in Seq(0 .. NPackets)
  /\ insync \in BOOLEAN /\ up \in BOOLEAN

(* As long as the framing holds, the packets delivered so far are the      *)
(* first ones of the stream, and the unprocessed part of the buffer is     *)
(* exactly the stretch of the stream that follows them: icq_parse_incoming *)
(* loses, repeats and misplaces no byte, whatever the pieces in which TCP  *)
(* delivers the stream, also when icq_reconnect replaces the connection in *)
(* the middle of the loop, unless that cuts off bytes that the login       *)
(* server wrote behind its redirect.                                       *)
Aligned ==
  Intact =>
    LET next == Start[Len(delivered) + 1] IN
    /\ Len(delivered) <= NPackets
    /\ \A i \in 1 .. Len(delivered) : delivered[i] = i
    /\ pc = "idle" => taken = next + used /\ Holds(0, used, next)
    /\ pc = "decode" => /\ pos < end
                        /\ taken = next + (end - pos)
                        /\ Holds(pos, end - pos, next)

(* icq_parse_incoming prints "Out of sync, discarding packet" only after   *)
(* it has received a header that really is malformed: on a well-formed     *)
(* stream the framing is never lost, except that a redirect which cuts off *)
(* the old stream may join its last bytes with the first of the new one.   *)
OutOfSyncOnlyIfMalformed ==
  insync \/ cut \/ \E k \in Malformed : Start[k] < taken

(* A packet that does not fit into sock->inbuf, header included, is never  *)
(* handed to process_packet, and as long as the framing holds neither is   *)
(* any packet behind it.                                                   *)
OversizedNeverDelivered ==
  \A k \in 1 .. NPackets : HdrLen + PayLen[k] > BufSize =>
    /\ \A i \in 1 .. Len(delivered) : delivered[i] # k
    /\ Intact => Len(delivered) < k

(* The receive path implements the packet stream: packets reach            *)
(* process_packet whole, once and in order, until the connection or the    *)
(* framing is lost or a redirect cuts the stream off.                      *)
Stream == INSTANCE PacketStream WITH up <- up /\ Intact
ImplementsPacketStream == Stream!StreamSpec

(* Every packet that neither is too long for the buffer nor follows one    *)
(* that is gets delivered, unless the connection or the framing is lost:   *)
(* icq_parse_incoming never waits for bytes it has no room for.            *)
Fitting == {n \in 1 .. NPackets : \A k \in 1 .. n : HdrLen + PayLen[k] <= BufSize}
EventuallyDelivered ==
  <>(~up \/ ~Intact \/ \A n \in Fitting : Len(delivered) >= n)
=============================================================================
