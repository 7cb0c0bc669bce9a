----------------------------- MODULE MCIcqBuddy -----------------------------
(* Small contact lists for IcqBuddy. *)
EXTENDS IcqBuddy

L(u, a) == [uin |-> u, alias |-> a]

(* Two numeric users and one whose name is not a number; an alias in two   *)
(* spellings, and one that fgets cuts down to another.                     *)
MCUins == {"1", "2", "x"}
MCAliases == {"bob", "BOB", "bobby", "ann", "2"}
MCFold == [s \in MCUins \cup MCAliases |-> IF s = "BOB" THEN "bob" ELSE s]
MCClip == [a \in MCAliases |-> IF a = "bobby" THEN "bob" ELSE a]

(* Users share aliases. *)
MCShared == {<<"1", "bob">>, <<"1", "bobby">>, <<"2", "BOB">>, <<"2", "ann">>, <<"x", "bob">>}
MCSharedFiles == {<<>>, <<L("1", "bob"), L("x", "BOB"), L("1", "bobby")>>}

(* Fewer names for the run with query windows. *)
MCFewUins == {"1", "2"}
MCFewAliases == {"bob", "BOB", "ann"}
MCFewFold == [s \in MCFewUins \cup MCFewAliases |-> IF s = "BOB" THEN "bob" ELSE s]
MCFewClip == [a \in MCFewAliases |-> a]
MCFewPairs == {<<"1", "BOB">>, <<"1", "ann">>}
MCFewFiles == {<<L("1", "bob")>>}
=============================================================================
