----------------------------- MODULE MCIcqWhois -----------------------------
(* Small contact lists for IcqWhois, with aliases that are a word and a    *)
(* number of the status 19, and numbers that are no name.                  *)
EXTENDS IcqWhois

L(u, a) == [uin |-> u, alias |-> a]

MCUins == {"1001", "1002"}
MCAliases == {"dnd", "DND", "0x13"}
MCFold == [s \in MCUins \cup MCAliases |-> IF s = "DND" THEN "dnd" ELSE s]
MCClip == [a \in MCAliases |-> a]
MCPairs == {<<"1001", "dnd">>, <<"1001", "0x13">>}
MCFiles == {<<L("1002", "DND")>>, <<>>}
MCNumerals == MCUins \cup {"0x13", "256", "4294967277"}
MCNumber == [s \in MCNumerals |-> CASE s = "1001" -> 1001 [] s = "1002" -> 1002
                                     [] s = "0x13" -> 19 [] s = "256" -> 256
                                     [] s = "4294967277" -> -19]
=============================================================================
