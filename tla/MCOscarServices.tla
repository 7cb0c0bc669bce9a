--------------------------- MODULE MCOscarServices ---------------------------
(* An instance of OscarServices for TLC. *)
EXTENDS OscarServices

MCWishes == <<"chpass", "conf">>
==============================================================================
