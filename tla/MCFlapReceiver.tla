--------------------------- MODULE MCFlapReceiver ---------------------------
(* Small streams for FlapReceiver, with a header of 2 and a buffer of 6    *)
(* bytes.                                                                  *)
EXTENDS FlapReceiver

(* An empty packet, one that fills the buffer to the last byte, a short    *)
(* one and one that is a byte too long.                                    *)
MCExactFit == <<0, 4, 1, 5>>
MCExactFitStart == <<0, 2, 8, 11, 18>>

(* Short packets: the first one redirects while the login server goes on   *)
(* with the second, the third is malformed, and one is a byte too long.    *)
MCOversized == <<1, 0, 0, 5, 0>>
MCOversizedStart == <<0, 3, 5, 7, 14, 16>>
=============================================================================
