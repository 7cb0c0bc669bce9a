---------------------------- MODULE MCGaimProxy ----------------------------
(* An instance of GaimProxy for TLC: the first request may have any proxy, *)
(* the others have none.                                                   *)
EXTENDS GaimProxy

MCSettings == {<<k, "none", "none">> : k \in Kinds}
============================================================================
