------------------------------- MODULE MCSsi -------------------------------
(* Instances of Ssi for TLC: "A" is "a" in capitals. *)
EXTENDS Ssi

MCNames == {"a", "A", "b", "G", "H", "orphans", "1"}
MCFold == [n \in MCNames |-> IF n = "A" THEN "a" ELSE n]

Group(name, gid, members) == Item(name, gid, 0, "group", {Tlv("member", m) : m \in members})

(* Nothing; a buddy and an empty group; a buddy in the master group; a deny *)
(* and a hidden idle time.                                                 *)
Empty == {}
OneBuddy == {Group(NULL, 0, {1, 2}), Group("G", 1, {1}), Item("a", 1, 1, "buddy", {}),
             Group("H", 2, {})}
Broken == {Item("b", 0, 2, "buddy", {})}
Hidden == {Item("a", 0, 1, "deny", {}),
           Item(NULL, 0, 3, "presence", {Tlv("presence", "hidden")})}

Start(list, buddies, private) == [server |-> list, buddies |-> buddies, private |-> private]
MCStarts == {Start(Empty, <<Own("b", "G", NULL)>>, <<>>),
             Start(OneBuddy, <<Own("a", "G", "x")>>, <<>>),
             Start(Broken, <<>>, <<>>),
             Start(Hidden, <<>>, <<<<"deny", "b">>>>)}

(* A buddy in a group that does not exist. *)
Stray == {Group(NULL, 0, {1}), Group("G", 1, {1}), Item("a", 1, 1, "buddy", {}),
          Item("b", 7, 1, "buddy", {})}
MCStray == {Start(Stray, <<>>, <<>>)}

MCPrivate == {<<"deny", "b">>}
MCForeign == {Item("b", 1, 1, "buddy", {}), Item("a", 1, 1, "buddy", {Tlv("alias", "y")})}
============================================================================
