------------------------ MODULE FlapReceiver_proofs ------------------------
(***************************************************************************)
(* Proofs about the receive buffer, for every header length, buffer size   *)
(* and stream.                                                             *)
(***************************************************************************)
EXTENDS FlapReceiver, SequenceTheorems, TLAPS

(* Inside the loop of icq_parse_incoming there is unprocessed data. *)
LoopInv == pc = "decode" => pos < end

(* The inductive invariant. *)
IInv == TypeOK /\ LoopInv /\ Aligned

next == Len(delivered) + 1

-----------------------------------------------------------------------------
(* The locals and the buffer stay within their bounds: the type invariant  *)
(* needs only that the loop is entered and continued with data left.       *)
LEMMA PacketAtType ==
  ASSUME NEW p, NEW len
  PROVE  PacketAt(p, len) \in 0 .. NPackets
<1> DEFINE whole == {k \in HeaderOf(p) : /\ Holds(p, HdrLen + len, Start[k])
                                        /\ len = PayLen[k]}
<1>1. CASE whole = {}
  BY <1>1, LayoutAssumption DEF PacketAt, Garbled
<1>2. CASE whole # {}
  <2>1. PacketAt(p, len) \in whole
    BY <1>2 DEF PacketAt
  <2> QED
    BY <2>1, LayoutAssumption DEF HeaderOf
<1> QED
  BY <1>1, <1>2

(* What a header may say is a packet of the stream or anything. *)
LEMMA ReadingsType ==
  ASSUME NEW p, NEW len \in Readings(p) \ {BadMagic}
  PROVE  len \in Nat
  BY LayoutAssumption DEF Readings, HeaderOf, BadMagic

(* What the servers have to write is a part of the stream. *)
LEMMA LimitType ==
  /\ Total \in Nat /\ LoginTotal \in 0 .. Total
  /\ Limit \in 0 .. Total
  /\ ~reconnected => Limit = LoginTotal
<1>1. LoginLast \in 0 .. NPackets
  BY LayoutAssumption, RedirectAssumption
<1>2. Total \in Nat /\ LoginTotal \in Nat
  BY <1>1, LayoutAssumption DEF Total, LoginTotal
<1>3. LoginTotal <= Total
  <2>1. CASE LoginLast = NPackets
    BY <2>1, <1>2 DEF Total, LoginTotal
  <2>2. CASE LoginLast # NPackets
    BY <1>1, <2>2, LayoutAssumption DEF Total, LoginTotal
  <2> QED
    BY <2>1, <2>2
<1> QED
  BY <1>2, <1>3 DEF Limit

(* A redirect only ever skips bytes. *)
LEMMA ReconnectType ==
  ASSUME TypeOK, NEW k, Reconnect(k)
  PROVE  /\ written' \in 0 .. Limit' /\ taken' \in 0 .. written'
         /\ reconnected' \in BOOLEAN /\ cut' \in BOOLEAN
         /\ taken <= taken'
<1>1. CASE Redir # 0 /\ k = Redir /\ ~reconnected
  <2>1. /\ reconnected' = TRUE /\ written' = LoginTotal /\ taken' = LoginTotal
        /\ cut' = (cut \/ taken # LoginTotal)
    BY <1>1 DEF Reconnect
  <2>2. Limit' = Total
    BY <2>1 DEF Limit
  <2>3. Limit = LoginTotal
    BY <1>1 DEF Limit
  <2>4. cut' \in BOOLEAN
    BY <2>1
  <2> QED
    BY <2>1, <2>2, <2>3, <2>4, LimitType DEF TypeOK
<1>2. CASE ~(Redir # 0 /\ k = Redir /\ ~reconnected)
  <2>1. UNCHANGED <<written, taken, reconnected, cut>>
    BY <1>2 DEF Reconnect
  <2>2. Limit' = Limit
    BY <2>1 DEF Limit
  <2> QED
    BY <2>1, <2>2, LimitType DEF TypeOK
<1> QED
  BY <1>1, <1>2

(* A redirect that leaves the stream whole changes nothing. *)
LEMMA ReconnectKeeps ==
  ASSUME TypeOK, NEW k, Reconnect(k), ~cut'
  PROVE  UNCHANGED <<written, taken, cut>>
<1>1. CASE Redir # 0 /\ k = Redir /\ ~reconnected
  <2>1. /\ written' = LoginTotal /\ taken' = LoginTotal
        /\ cut' = (cut \/ taken # LoginTotal)
    BY <1>1 DEF Reconnect
  <2>2. taken = LoginTotal /\ ~cut
    BY <2>1
  <2>3. Limit = LoginTotal
    BY <1>1 DEF Limit
  <2>4. written = LoginTotal
    BY <2>2, <2>3, LimitType DEF TypeOK
  <2>5. cut = FALSE
    BY <2>2 DEF TypeOK
  <2>6. cut' = FALSE
    BY <2>1, <2>2
  <2> QED
    BY <2>1, <2>2, <2>4, <2>5, <2>6
<1>2. CASE ~(Redir # 0 /\ k = Redir /\ ~reconnected)
  BY <1>2 DEF Reconnect
<1> QED
  BY <1>1, <1>2

(* TypeOK is inductive together with LoopInv. *)
LEMMA TypeInductive == TypeOK /\ LoopInv /\ [Next]_vars => TypeOK' /\ LoopInv'
<1> SUFFICES ASSUME TypeOK, LoopInv, [Next]_vars
             PROVE  TypeOK' /\ LoopInv'
  OBVIOUS
<1> USE SizeAssumption, LayoutAssumption DEF TypeOK, LoopInv, Cells, NoByte
<1>0. Limit \in Nat
  BY LimitType
<1>1. CASE PeerWrite
  <2>1. Limit' = Limit
    BY <1>1 DEF PeerWrite, connVars, Limit
  <2> QED
    BY <1>0, <1>1, <2>1 DEF PeerWrite, bufVars, loopVars, connVars
<1>2. ASSUME NEW n \in 1 .. BufSize, Recv(n)
      PROVE  TypeOK' /\ LoopInv'
  <2>1. inbuf' \in [Cells -> Nat \cup {NoByte}]
    BY <1>0, <1>2 DEF Recv, Stored
  <2>2. Limit' = Limit
    BY <1>2 DEF Recv, connVars, Limit
  <2> QED
    BY <1>0, <1>2, <2>1, <2>2 DEF Recv, Room, connVars
<1>3. CASE RecvError
  BY <1>3 DEF RecvError, bufVars, loopVars, connVars, Limit
<1>4. CASE DecodeBad
  <2>1. used' = 0 /\ pc' = "idle"
    BY <1>4 DEF DecodeBad
  <2>2. insync' \in BOOLEAN
    BY <1>4, Zenon DEF DecodeBad
  <2>3. UNCHANGED <<written, taken, inbuf, pos, end, delivered, up, reconnected, cut>>
    BY <1>4 DEF DecodeBad, connVars
  <2> QED
    BY <2>1, <2>2, <2>3 DEF Limit
<1>5. CASE DecodePartial
  <2>1. inbuf' \in [Cells -> Nat \cup {NoByte}]
    BY <1>5 DEF DecodePartial, Moved
  <2> QED
    BY <1>5, <2>1 DEF DecodePartial, connVars, Limit
<1>6. CASE DecodePacket
  <2>1. PICK len \in Readings(pos) \ {BadMagic} :
               Take(len) /\ Reconnect(PacketAt(pos, len))
    BY <1>6 DEF DecodePacket
  <2>2. len \in Nat
    BY ReadingsType
  <2>3. delivered' \in Seq(0 .. NPackets)
    BY <2>1, PacketAtType DEF Take
  <2>4. /\ written' \in 0 .. Limit' /\ taken' \in 0 .. written'
        /\ reconnected' \in BOOLEAN /\ cut' \in BOOLEAN
    BY <2>1, ReconnectType
  <2>5. inbuf' = inbuf /\ end' = end /\ insync' = insync /\ up' = up
    BY <1>6 DEF DecodePacket
  <2>6. used' \in 0 .. BufSize /\ pos' \in 0 .. BufSize /\ pc' \in {"idle", "decode"}
        /\ (pc' = "decode" => pos' < end')
    BY <1>6, <2>1, <2>2, <2>5 DEF Take, Complete
  <2> QED
    BY <2>3, <2>4, <2>5, <2>6
<1>7. CASE UNCHANGED vars
  BY <1>7 DEF vars, Limit
<1> QED
  BY <1>1, <1>2, <1>3, <1>4, <1>5, <1>6, <1>7 DEF Next, Parse

-----------------------------------------------------------------------------
(* A part of a stretch of the stream is a stretch of the stream. *)
LEMMA HoldsPrefix ==
  ASSUME NEW p \in Nat, NEW n \in Nat, NEW m \in 0 .. n, NEW o \in Nat, Holds(p, n, o)
  PROVE  Holds(p, m, o)
  BY SizeAssumption DEF Holds

(* What is left in the buffer behind a packet is a stretch of the stream. *)
LEMMA HoldsSuffix ==
  ASSUME NEW p \in Nat, NEW n \in Nat, NEW m \in 0 .. n, NEW o \in Nat, Holds(p, n, o)
  PROVE  Holds(p + m, n - m, o + m)
<1>1. p + m + (n - m) <= BufSize
  BY SizeAssumption DEF Holds
<1>2. ASSUME NEW j \in 0 .. (n - m) - 1
      PROVE  inbuf[p + m + j] = o + m + j
  <2>1. m + j \in 0 .. n - 1
    OBVIOUS
  <2>2. inbuf[p + (m + j)] = o + (m + j)
    BY <2>1 DEF Holds
  <2>3. p + m + j = p + (m + j) /\ o + m + j = o + (m + j)
    OBVIOUS
  <2> QED
    BY <2>2, <2>3
<1> QED
  BY <1>1, <1>2 DEF Holds

(* In sync and with a header's worth of data, the header at the cursor is  *)
(* the header of the next packet of the stream and of no other.            *)
LEMMA HeaderIsNext ==
  ASSUME TypeOK, Aligned, Intact, pc = "decode", end - pos >= HdrLen
  PROVE  next \in 1 .. NPackets /\ HeaderOf(pos) = {next}
<1> USE SizeAssumption, LayoutAssumption DEF TypeOK, Cells
<1>1. /\ next \in 1 .. NPackets + 1
      /\ taken = Start[next] + (end - pos)
      /\ Holds(pos, end - pos, Start[next])
  BY DEF Aligned, next
<1>2. next # NPackets + 1
  BY <1>1, LimitType DEF Total
<1>3. next \in 1 .. NPackets
  BY <1>1, <1>2
<1>4. Holds(pos, HdrLen, Start[next])
  BY <1>1 DEF Holds
<1>5. ASSUME NEW k \in 1 .. NPackets, Holds(pos, HdrLen, Start[k])
      PROVE  k = next
  <2>1. inbuf[pos + 0] = Start[k] + 0 /\ inbuf[pos + 0] = Start[next] + 0
    BY <1>4, <1>5 DEF Holds
  <2>2. Start[k] = Start[next]
    BY <1>3, <2>1
  <2>3. k \in 1 .. NPackets + 1 /\ Start[k] \in Nat
    OBVIOUS
  <2>4. ~(k < next)
    BY <1>1, <2>2, <2>3
  <2>5. ~(next < k)
    BY <1>1, <2>2, <2>3
  <2> QED
    BY <1>1, <2>3, <2>4, <2>5
<1> QED
  BY <1>3, <1>4, <1>5 DEF HeaderOf

(* If moreover the packet is complete, it is what process_packet sees. *)
LEMMA PacketIsNext ==
  ASSUME TypeOK, Aligned, Intact, pc = "decode", end - pos >= HdrLen,
         NEW len \in Readings(pos) \ {BadMagic}, Complete(pos, len)
  PROVE  next \in 1 .. NPackets /\ len = PayLen[next] /\ PacketAt(pos, len) = next
<1> USE SizeAssumption, LayoutAssumption
<1>1. next \in 1 .. NPackets /\ HeaderOf(pos) = {next}
  BY HeaderIsNext
<1>2. len = PayLen[next]
  BY <1>1 DEF Readings
<1>3. Holds(pos, end - pos, Start[next])
  BY DEF Aligned, next
<1>4. Holds(pos, HdrLen + len, Start[next])
  <2>1. HdrLen + len \in 0 .. end - pos
    <3>1. len \in Nat
      BY ReadingsType
    <3> QED
      BY <3>1 DEF Complete, TypeOK
  <2>2. pos \in Nat /\ end - pos \in Nat /\ Start[next] \in Nat
    BY <1>1 DEF TypeOK
  <2> QED
    BY <1>3, <2>1, <2>2, HoldsPrefix
<1>5. {k \in HeaderOf(pos) : Holds(pos, HdrLen + len, Start[k]) /\ len = PayLen[k]} = {next}
  BY <1>1, <1>2, <1>4
<1> QED
  BY <1>1, <1>2, <1>5 DEF PacketAt

(* Arithmetic of the step over a packet of m bytes behind a header. *)
LEMMA SumLemma ==
  ASSUME NEW t, NEW s \in Nat, NEW r, NEW e \in Nat, NEW p \in Nat, NEW m \in Nat,
         t = s + (e - p), r = s + HdrLen + m
  PROVE  r + (e - (p + HdrLen + m)) = t
  BY SizeAssumption

(* Aligned is inductive. *)
LEMMA AlignedInductive == IInv /\ [Next]_vars => Aligned'
<1> SUFFICES ASSUME IInv, [Next]_vars, Intact'
             PROVE  Aligned'
  BY DEF Aligned
<1> USE SizeAssumption, LayoutAssumption DEF IInv
<1> DEFINE Good == /\ Len(delivered) <= NPackets
                   /\ \A i \in 1 .. Len(delivered) : delivered[i] = i
<1>1. CASE PeerWrite
  BY <1>1 DEF PeerWrite, bufVars, loopVars, connVars, Intact, Aligned, Holds
<1>2. ASSUME NEW n \in 1 .. BufSize, Recv(n)
      PROVE  Aligned'
  <2>1. /\ Intact /\ Good
        /\ taken = Start[next] + used /\ Holds(0, used, Start[next])
    BY <1>2 DEF Recv, connVars, Intact, Aligned, next
  <2>2. used + n <= BufSize /\ Start[next] \in Nat /\ used \in Nat
    BY <1>2, <2>1 DEF Recv, Room, TypeOK, next
  <2>3. ASSUME NEW j \in 0 .. used + n - 1
        PROVE  inbuf'[j] = Start[next] + j
    <3>1. inbuf'[j] = IF j < used THEN inbuf[j] ELSE taken + (j - used)
      BY <1>2, <2>2 DEF Recv, Stored, Cells
    <3>2. ASSUME j < used
          PROVE  inbuf[j] = Start[next] + j
      <4>1. j \in 0 .. used - 1 /\ 0 + j = j
        BY <2>2, <3>2
      <4>2. inbuf[0 + j] = Start[next] + j
        BY <2>1, <4>1 DEF Holds
      <4> QED
        BY <4>1, <4>2
    <3> QED
      BY <2>1, <2>2, <3>1, <3>2
  <2>4. delivered' = delivered /\ pc' = "decode" /\ pos' = 0 /\ end' = used + n
        /\ taken' = taken + n
    BY <1>2 DEF Recv
  <2>5. Holds(pos, end - pos, Start[next])'
    BY <2>2, <2>3, <2>4 DEF Holds, next
  <2>6. taken' = Start[next]' + (end' - pos')
    BY <2>1, <2>2, <2>4 DEF next
  <2> QED
    BY <2>1, <2>2, <2>4, <2>5, <2>6 DEF Aligned, next
<1>3. CASE RecvError
  BY <1>3 DEF RecvError, bufVars, loopVars, connVars, Intact, Aligned, Holds
<1>4. CASE DecodeBad
  BY <1>4 DEF DecodeBad, Intact
<1>5. CASE DecodePartial
  <2>1. /\ Intact /\ Good
        /\ taken = Start[next] + (end - pos)
        /\ Holds(pos, end - pos, Start[next])
    BY <1>5 DEF DecodePartial, connVars, Intact, Aligned, next
  <2>2. Holds(0, end - pos, Start[next])'
    BY <1>5, <2>1 DEF DecodePartial, Moved, Holds, Cells, TypeOK, LoopInv, next
  <2> QED
    BY <1>5, <2>1, <2>2 DEF DecodePartial, Aligned, next
<1>6. CASE DecodePacket
  <2>1. PICK len \in Readings(pos) \ {BadMagic} :
               Take(len) /\ Reconnect(PacketAt(pos, len))
    BY <1>6 DEF DecodePacket
  <2>c. UNCHANGED <<taken, cut, insync>>
    BY <1>6, <2>1, ReconnectKeeps DEF DecodePacket, Intact
  <2>2. /\ Intact /\ Good
        /\ taken = Start[next] + (end - pos)
        /\ Holds(pos, end - pos, Start[next])
    BY <1>6, <2>c DEF DecodePacket, Intact, Aligned, next
  <2>3. /\ next \in 1 .. NPackets
        /\ len = PayLen[next]
        /\ delivered' = Append(delivered, next)
    BY <1>6, <2>1, <2>2, PacketIsNext DEF DecodePacket, Take
  <2>4. Len(delivered') = next /\ next' = next + 1 /\ Good'
    <3>1. delivered \in Seq(0 .. NPackets) /\ next \in Nat /\ Len(delivered) + 1 = next
      BY <2>3 DEF TypeOK, next
    <3>2. Len(delivered') = Len(delivered) + 1
      BY <2>3, <3>1
    <3>3. ASSUME NEW i \in 1 .. next
          PROVE  delivered'[i] = i
      <4>1. CASE i = next
        BY <2>3, <3>1, <4>1
      <4>2. CASE i # next
        <5>1. i \in 1 .. Len(delivered)
          BY <3>1, <4>2
        <5>2. delivered[i] = i
          BY <2>2, <5>1
        <5> QED
          BY <2>3, <3>1, <5>1, <5>2
      <4> QED
        BY <4>1, <4>2
    <3>4. Len(delivered') = next /\ next' = next + 1
      BY <3>1, <3>2 DEF next
    <3>5. Len(delivered') <= NPackets
      BY <2>3, <3>4
    <3>6. \A i \in 1 .. Len(delivered') : delivered'[i] = i
      BY <3>3, <3>4
    <3> QED
      BY <3>4, <3>5, <3>6
  <2>5. /\ Start[next'] = Start[next] + HdrLen + len
        /\ Start[next] \in Nat /\ len \in Nat
        /\ HdrLen + len \in 0 .. end - pos
    <3>1. Start[next + 1] = Start[next] + HdrLen + PayLen[next]
      BY <2>3
    <3>2. Start[next] \in Nat /\ len \in Nat
      BY <2>3, ReadingsType
    <3>3. HdrLen + len \in 0 .. end - pos
      BY <2>1, <3>2 DEF Take, Complete, TypeOK
    <3> QED
      BY <2>3, <2>4, <3>1, <3>2, <3>3
  <2>a. taken \in Nat /\ pos \in Nat /\ end \in Nat /\ taken' = taken /\ end' = end
    BY <1>6, <2>c, LimitType DEF DecodePacket, TypeOK
  <2>b. Start[next'] + (end - (pos + HdrLen + len)) = taken
    BY <2>2, <2>5, <2>a, SumLemma
  <2>6. CASE pos + HdrLen + len = end
    <3>1. used' = 0 /\ pc' = "idle"
      BY <2>1, <2>6 DEF Take
    <3>a. taken' = Start[next'] + used'
      BY <2>5, <2>6, <2>a, <2>b, <3>1
    <3>2. Holds(0, used, Start[next])'
      BY <3>1 DEF Holds
    <3> QED
      BY <2>4, <3>1, <3>a, <3>2 DEF Aligned, next
  <2>7. CASE pos + HdrLen + len # end
    <3>1. pc' = "decode" /\ pos' = pos + HdrLen + len /\ end' = end
          /\ taken' = taken /\ inbuf' = inbuf
      BY <1>6, <2>1, <2>7, <2>c DEF DecodePacket, Take
    <3>2. pos' < end' /\ taken' = Start[next'] + (end' - pos')
      BY <2>5, <2>7, <2>a, <2>b, <3>1
    <3>3. pos \in Nat /\ end - pos \in Nat
      BY <2>5 DEF TypeOK
    <3>4. Holds(pos + (HdrLen + len), (end - pos) - (HdrLen + len), Start[next] + (HdrLen + len))
      BY <2>2, <2>5, <3>3, HoldsSuffix
    <3>5. Holds(pos', end' - pos', Start[next'])
      <4>1. /\ pos + (HdrLen + len) = pos'
            /\ (end - pos) - (HdrLen + len) = end' - pos'
            /\ Start[next] + (HdrLen + len) = Start[next']
        BY <2>5, <3>1, <3>3 DEF TypeOK
      <4> QED
        BY <3>4, <4>1
    <3>6. Holds(pos, end - pos, Start[next])'
      BY <3>1, <3>5 DEF Holds
    <3> QED
      BY <2>4, <3>1, <3>2, <3>6 DEF Aligned, next
  <2> QED
    BY <2>6, <2>7
<1>7. CASE UNCHANGED vars
  BY <1>7 DEF vars, Intact, Aligned, Holds
<1> QED
  BY <1>1, <1>2, <1>3, <1>4, <1>5, <1>6, <1>7 DEF Next, Parse

(* The inductive invariant holds initially ... *)
LEMMA InitIInv == Init => IInv
<1> SUFFICES ASSUME Init
             PROVE  IInv
  OBVIOUS
<1> USE SizeAssumption, LayoutAssumption DEF Init
<1>1. TypeOK
  <2>1. written \in 0 .. Limit /\ taken \in 0 .. written
    BY LimitType
  <2>2. inbuf \in [Cells -> Nat \cup {NoByte}]
    OBVIOUS
  <2>3. delivered \in Seq(0 .. NPackets)
    OBVIOUS
  <2>4. reconnected \in BOOLEAN /\ cut \in BOOLEAN /\ insync \in BOOLEAN /\ up \in BOOLEAN
    BY Zenon
  <2>5. used \in 0 .. BufSize /\ pos \in 0 .. BufSize /\ end \in 0 .. BufSize
        /\ pc \in {"idle", "decode"}
    OBVIOUS
  <2> HIDE DEF Init
  <2> QED
    BY <2>1, <2>2, <2>3, <2>4, <2>5, Zenon DEF TypeOK
<1>2. LoopInv
  BY DEF LoopInv
<1>3. Aligned
  BY DEF Aligned, Holds
<1> QED
  BY <1>1, <1>2, <1>3 DEF IInv

(* ... and always. *)
LEMMA Invariance == Spec => []IInv
  BY InitIInv, TypeInductive, AlignedInductive, PTL DEF Spec, IInv

(* The buffer, the cursor and the counters keep their types in every       *)
(* reachable state: sock->inbufp never leaves sock->inbuf.                 *)
THEOREM TypeCorrect == Spec => []TypeOK
  BY Invariance, PTL DEF IInv

(* As long as the framing holds, the packets handed to process_packet are  *)
(* the first ones of the stream and the buffer continues exactly there.    *)
THEOREM AlignedAlways == Spec => []Aligned
  BY Invariance, PTL DEF IInv

-----------------------------------------------------------------------------
(* The framing is lost only by a header that is malformed in the stream    *)
(* itself: icq_parse_incoming never finds a wrong magic number because it  *)
(* looks at the wrong place.                                               *)
THEOREM FramingKept == Spec => []OutOfSyncOnlyIfMalformed
<1>1. Init => OutOfSyncOnlyIfMalformed
  BY DEF Init, OutOfSyncOnlyIfMalformed
<1>2. ASSUME IInv, OutOfSyncOnlyIfMalformed, [Next]_vars
      PROVE  OutOfSyncOnlyIfMalformed'
  <2> USE SizeAssumption, LayoutAssumption DEF IInv
  <2>1. CASE DecodeBad /\ Intact
    <3>1. next \in 1 .. NPackets /\ HeaderOf(pos) = {next}
      BY <1>2, <2>1, HeaderIsNext DEF DecodeBad
    <3>2. next \in Malformed
      BY <2>1, <3>1 DEF DecodeBad, Readings, BadMagic
    <3>3. taken = Start[next] + (end - pos) /\ pos < end
      BY <1>2, <2>1 DEF DecodeBad, Aligned, next, LoopInv
    <3>4. Start[next] < taken
      <4>1. Start[next] \in Nat
        BY <3>1
      <4>2. pos \in Int /\ end \in Int
        BY <1>2 DEF TypeOK
      <4> QED
        BY <3>3, <4>1, <4>2
    <3>5. taken' = taken
      BY <2>1 DEF DecodeBad, connVars
    <3> QED
      BY <3>2, <3>4, <3>5 DEF OutOfSyncOnlyIfMalformed
  <2>2. ASSUME insync' = insync, cut => cut', taken <= taken'
        PROVE  OutOfSyncOnlyIfMalformed'
    <3>1. CASE insync
      BY <2>2, <3>1, Zenon DEF OutOfSyncOnlyIfMalformed
    <3>2. CASE cut
      BY <2>2, <3>2, Zenon DEF OutOfSyncOnlyIfMalformed
    <3>3. CASE ~insync /\ ~cut
      <4>1. PICK k \in Malformed : Start[k] < taken
        BY <1>2, <3>3 DEF OutOfSyncOnlyIfMalformed
      <4>2. TypeOK /\ TypeOK'
        BY <1>2, TypeInductive
      <4>3. taken \in Nat /\ taken' \in Nat
        <5>1. Limit \in Nat /\ Limit' \in Nat
          BY LimitType DEF Limit
        <5> QED
          BY <4>2, <5>1 DEF TypeOK
      <4>4. Start[k] < taken'
        <5>1. Start[k] \in Nat
          OBVIOUS
        <5> QED
          BY <2>2, <4>1, <4>3, <5>1
      <4> QED
        BY <4>4 DEF OutOfSyncOnlyIfMalformed
    <3> QED
      BY <3>1, <3>2, <3>3
  <2>3. CASE DecodeBad /\ ~Intact
    <3>1. UNCHANGED <<taken, cut>>
      BY <2>3 DEF DecodeBad, connVars
    <3>2. CASE cut
      BY <3>1, <3>2, Zenon DEF OutOfSyncOnlyIfMalformed
    <3>3. CASE ~insync
      BY <1>2, <3>1, <3>3 DEF OutOfSyncOnlyIfMalformed
    <3> QED
      BY <2>3, <3>2, <3>3 DEF Intact
  <2>4. ASSUME NEW n \in 1 .. BufSize, Recv(n)
        PROVE  OutOfSyncOnlyIfMalformed'
    <3>1. insync' = insync /\ cut' = cut /\ taken <= taken'
      BY <1>2, <2>4, LimitType DEF Recv, connVars, TypeOK
    <3> QED
      BY <2>2, <3>1
  <2>5. ASSUME PeerWrite \/ RecvError \/ DecodePartial \/ UNCHANGED vars
        PROVE  OutOfSyncOnlyIfMalformed'
    <3>1. insync' = insync /\ cut' = cut /\ taken' = taken
      BY <2>5 DEF PeerWrite, RecvError, DecodePartial, connVars, vars
    <3> QED
      BY <1>2, <3>1 DEF OutOfSyncOnlyIfMalformed
  <2>6. CASE DecodePacket
    <3>1. PICK len \in Readings(pos) \ {BadMagic} :
                 Take(len) /\ Reconnect(PacketAt(pos, len))
      BY <2>6 DEF DecodePacket
    <3>2. taken <= taken'
      BY <1>2, <3>1, ReconnectType
    <3>3. cut => cut'
      BY <3>1 DEF Reconnect
    <3>4. insync' = insync
      BY <2>6 DEF DecodePacket
    <3> QED
      BY <2>2, <3>2, <3>3, <3>4
  <2> QED
    BY <1>2, <2>1, <2>3, <2>4, <2>5, <2>6 DEF Next, Parse
<1> QED
  BY <1>1, <1>2, Invariance, PTL DEF Spec

(* A packet longer than the buffer is never handed to process_packet, in   *)
(* sync or not, and in sync nothing behind it is.                          *)
THEOREM OversizedStuck == Spec => []OversizedNeverDelivered
<1> DEFINE NoneTooLong == \A i \in 1 .. Len(delivered) :
             delivered[i] \in 1 .. NPackets => HdrLen + PayLen[delivered[i]] <= BufSize
<1> USE SizeAssumption, LayoutAssumption
<1>1. Init => NoneTooLong
  BY DEF Init
<1>2. ASSUME IInv, NoneTooLong, [Next]_vars
      PROVE  NoneTooLong'
  <2>1. CASE DecodePacket
    <3>1. PICK len \in Readings(pos) \ {BadMagic} : Take(len)
      BY <2>1 DEF DecodePacket
    <3> DEFINE k == PacketAt(pos, len)
    <3>2. k \in 1 .. NPackets => HdrLen + PayLen[k] <= BufSize
      <4> DEFINE whole == {j \in HeaderOf(pos) : /\ Holds(pos, HdrLen + len, Start[j])
                                               /\ len = PayLen[j]}
      <4>1. CASE whole = {}
        <5>1. k = 0
          BY <4>1 DEF PacketAt, Garbled
        <5>2. 0 \notin 1 .. NPackets
          OBVIOUS
        <5> QED
          BY <5>1, <5>2
      <4>2. CASE whole # {}
        <5>1. k \in whole
          BY <4>2 DEF PacketAt
        <5>2. len = PayLen[k] /\ pos + (HdrLen + len) <= BufSize
          BY <5>1 DEF Holds
        <5>3. len \in Nat
          BY ReadingsType
        <5>4. pos \in Nat
          BY <1>2 DEF IInv, TypeOK
        <5> QED
          BY <5>2, <5>3, <5>4
      <4> QED
        BY <4>1, <4>2
    <3>3. delivered' = Append(delivered, k) /\ delivered \in Seq(0 .. NPackets)
      BY <1>2, <3>1 DEF Take, IInv, TypeOK
    <3>4. k \in 0 .. NPackets
      BY PacketAtType
    <3> HIDE DEF k
    <3>5. ASSUME NEW i \in 1 .. Len(delivered'), delivered'[i] \in 1 .. NPackets
          PROVE  HdrLen + PayLen[delivered'[i]] <= BufSize
      <4>1. CASE i = Len(delivered) + 1
        BY <3>2, <3>3, <3>4, <3>5, <4>1
      <4>2. CASE i # Len(delivered) + 1
        <5>1. i \in 1 .. Len(delivered) /\ delivered'[i] = delivered[i]
          BY <3>3, <3>4, <4>2
        <5> QED
          BY <1>2, <3>5, <5>1
      <4> QED
        BY <4>1, <4>2
    <3> QED
      BY <3>5
  <2>2. ASSUME delivered' = delivered
        PROVE  NoneTooLong'
    BY <1>2, <2>2
  <2>3. ASSUME ~DecodePacket
        PROVE  delivered' = delivered
    BY <1>2, <2>3
       DEF Next, Parse, PeerWrite, Recv, RecvError, DecodeBad, DecodePartial, vars
  <2> QED
    BY <2>1, <2>2, <2>3
<1>3. ASSUME IInv, NoneTooLong
      PROVE  OversizedNeverDelivered
  <2> SUFFICES ASSUME NEW k \in 1 .. NPackets, HdrLen + PayLen[k] > BufSize
               PROVE  /\ \A i \in 1 .. Len(delivered) : delivered[i] # k
                      /\ Intact => Len(delivered) < k
    BY DEF OversizedNeverDelivered
  <2>1. ASSUME NEW i \in 1 .. Len(delivered), delivered[i] = k
        PROVE  FALSE
    <3>1. HdrLen + PayLen[k] <= BufSize
      BY <1>3, <2>1
    <3>2. PayLen[k] \in Nat
      OBVIOUS
    <3> QED
      BY <3>1, <3>2
  <2>2. ASSUME Intact, ~(Len(delivered) < k)
        PROVE  FALSE
    <3>1. delivered \in Seq(0 .. NPackets)
      BY <1>3 DEF IInv, TypeOK
    <3>2. k \in 1 .. Len(delivered)
      BY <2>2, <3>1
    <3>3. delivered[k] = k
      BY <1>3, <2>2, <3>2 DEF IInv, Aligned
    <3> QED
      BY <2>1, <3>2, <3>3
  <2> QED
    BY <2>1, <2>2
<1> QED
  BY <1>1, <1>2, <1>3, Invariance, PTL DEF Spec

-----------------------------------------------------------------------------
(* Every step of the receive path is a step of the packet stream or leaves it alone. *)
LEMMA StreamStep ==
  ASSUME IInv, IInv', [Next]_vars
  PROVE  [Stream!StreamNext]_(Stream!streamVars)
<1> USE SizeAssumption, LayoutAssumption
    DEF Stream!StreamNext, Stream!streamVars
<1>1. up \in BOOLEAN /\ Intact \in BOOLEAN
  BY DEF IInv, TypeOK, Intact
<1>a. up' \in BOOLEAN /\ Intact' \in BOOLEAN
  BY DEF IInv, TypeOK, Intact
<1>2. CASE DecodePacket
  <2>1. PICK len \in Readings(pos) \ {BadMagic} :
               Take(len) /\ Reconnect(PacketAt(pos, len))
    BY <1>2 DEF DecodePacket
  <2>2. up' = up /\ (Intact' => Intact)
    <3>1. cut => cut'
      BY <2>1 DEF Reconnect
    <3> QED
      BY <1>2, <3>1 DEF DecodePacket, Intact
  <2>3. CASE up /\ Intact
    <3>2. next \in 1 .. NPackets /\ PacketAt(pos, len) = next
      BY <1>2, <2>1, <2>3, PacketIsNext DEF IInv, DecodePacket, Take
    <3>3. delivered' = Append(delivered, Len(delivered) + 1)
      BY <2>1, <3>2 DEF Take, next
    <3>4. Len(delivered) < NPackets
      <4>1. Len(delivered) \in Nat
        BY DEF IInv, TypeOK
      <4> QED
        BY <3>2, <4>1 DEF next
    <3> QED
      BY <1>a, <2>3, <3>3, <3>4 DEF Stream!Deliver
  <2>4. CASE ~(up /\ Intact)
    <3>1. delivered' \in Seq(Nat)
      <4>1. delivered' \in Seq(0 .. NPackets)
        BY DEF IInv, TypeOK
      <4> QED
        BY <4>1
    <3> QED
      BY <2>2, <2>4, <3>1 DEF Stream!Afterwards
  <2> QED
    BY <2>3, <2>4
<1>3. ASSUME delivered' = delivered, up' => up, Intact' => Intact
      PROVE  [Stream!StreamNext]_(Stream!streamVars)
  <2>2. CASE (up /\ Intact) /\ ~(up /\ Intact)'
    BY <1>3, <1>a, <2>2 DEF Stream!GiveUp
  <2>3. CASE ~((up /\ Intact) /\ ~(up /\ Intact)')
    BY <1>1, <1>3, <1>a, <2>3
  <2> QED
    BY <2>2, <2>3
<1>4. ASSUME ~DecodePacket
      PROVE  delivered' = delivered /\ (up' => up) /\ (Intact' => Intact)
  BY <1>4
     DEF Next, Parse, PeerWrite, Recv, RecvError, DecodeBad, DecodePartial, vars, connVars, Intact
<1> QED
  BY <1>2, <1>3, <1>4

(* The receive path implements the packet stream: whatever the pieces in   *)
(* which TCP delivers the bytes, process_packet is called for the packets  *)
(* of the stream, whole, once each and in order, until the connection or   *)
(* its framing is lost.                                                    *)
THEOREM Refinement == Spec => ImplementsPacketStream
<1>1. Init => Stream!StreamInit
  BY DEF Init, Stream!StreamInit, Intact
<1>2. IInv /\ IInv' /\ [Next]_vars => [Stream!StreamNext]_(Stream!streamVars)
  BY StreamStep
<1> QED
  BY <1>1, <1>2, Invariance, PTL DEF Spec, ImplementsPacketStream, Stream!StreamSpec
=============================================================================
