---------------------------- MODULE PacketStream ----------------------------
(***************************************************************************)
(* What the receive path of an ICQ connection promises to the protocol     *)
(* code: the packets 1..NPackets that the peer wrote reach process_packet  *)
(* whole, each at most once and in the order in which they were written,   *)
(* until the connection or its framing is lost.                            *)
(***************************************************************************)
EXTENDS Integers, Sequences

CONSTANT NPackets    \* number of packets the peer writes

VARIABLES delivered, \* packets handed to process_packet, oldest first
          up         \* the connection and its framing are intact

streamVars == <<delivered, up>>

StreamInit == delivered = <<>> /\ up = TRUE

(* The next packet of the stream, and no other, is handed over.  What the  *)
(* protocol code does with it may end the stream.                          *)
Deliver ==
  /\ up
  /\ Len(delivered) < NPackets
  /\ delivered' = Append(delivered, Len(delivered) + 1)
  /\ up' \in BOOLEAN

(* The connection or the framing is lost ... *)
GiveUp == up /\ up' = FALSE /\ delivered' = delivered

(* ... and from then on nothing is promised. *)
Afterwards == ~up /\ ~up' /\ delivered' \in Seq(Nat)

StreamNext == Deliver \/ GiveUp \/ Afterwards

StreamSpec == StreamInit /\ [][StreamNext]_streamVars
=============================================================================
