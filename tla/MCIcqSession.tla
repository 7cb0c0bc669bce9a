---------------------------- MODULE MCIcqSession ----------------------------
(* Small sessions for IcqSession: the spare connection name is the one a   *)
(* redirect takes while the old connection is still referred to.           *)
EXTENDS IcqSession
=============================================================================
