-------------------------- MODULE IcqWhois_proofs --------------------------
(***************************************************************************)
(* Proofs about what /WHOIS prints, over every reachable contact list.     *)
(***************************************************************************)
EXTENDS IcqWhois, IcqBuddy_proofs

(* Without a restriction printinfo prints one line. *)
LEMMA PrintInfo ==
  ASSUME NEW nick, NEW restrict \in {-1, -2}
  PROVE  LET u == buddy_getuin(buddies, nick)
         IN  printinfo(nick, restrict) =
               {[nick |-> buddy_getalias(buddies, u), uin |-> u,
                 mode |-> modestring(buddy_getmode(buddies, u))]}
<1>1. ~(restrict >= 0)
  OBVIOUS
<1> QED
  BY <1>1 DEF printinfo

(* When no alias is another contact's number, a number is not taken for an *)
(* alias.                                                                  *)
LEMMA PlainNumber ==
  ASSUME NumbersPlain, buddies \in Seq(Contact), NEW u \in Uins
  PROVE  buddy_getuin(buddies, u) = u
<1>1. CASE AliasEntries(buddies, u) = {}
  BY <1>1 DEF buddy_getuin
<1>2. CASE AliasEntries(buddies, u) # {}
  <2> DEFINE f == First(AliasEntries(buddies, u))
  <2>1. f \in 1 .. Len(buddies) /\ Fold[buddies[f].alias] = Fold[u]
    BY <1>2, AliasEntriesLemma
  <2>2. buddy_getuin(buddies, u) = buddies[f].uin
    BY <1>2 DEF buddy_getuin
  <2> HIDE DEF f
  <2> QED
    BY <2>1, <2>2 DEF NumbersPlain
<1> QED
  BY <1>1, <1>2

(* /WHOIS without an argument shows every contact of every reachable list, *)
(* and nobody else, each with its current alias and status.                *)
THEOREM AlwaysListsEveryone == Spec => []WhoisListsEveryone
<1>1. ASSUME TypeOK, NumbersPlain
      PROVE  WhoisAll = {[nick |-> buddy_getalias(buddies, u), uin |-> u,
                          mode |-> modestring(buddy_getmode(buddies, u))] : u \in Listed(buddies)}
  <2> DEFINE Line(u) == [nick |-> buddy_getalias(buddies, u), uin |-> u,
                         mode |-> modestring(buddy_getmode(buddies, u))]
  <2>1. buddies \in Seq(Contact) /\ Listed(buddies) \subseteq Uins
    BY <1>1, TypeParts, ListedType DEF Lists
  <2>2. ASSUME NEW u \in Listed(buddies)
        PROVE  printinfo(u, -2) = {Line(u)}
    <3>1. buddy_getuin(buddies, u) = u
      BY <1>1, <2>1, PlainNumber
    <3> QED
      BY <3>1, PrintInfo
  <2>3. WhoisAll = UNION {printinfo(u, -2) : u \in Listed(buddies)}
    BY DEF WhoisAll, PrintAll
  <2> HIDE DEF Line
  <2>4. WhoisAll = {Line(u) : u \in Listed(buddies)}
    BY <2>2, <2>3
  <2> QED
    BY <2>4 DEF Line
<1>2. TypeOK => WhoisListsEveryone
  BY <1>1 DEF WhoisListsEveryone
<1> QED
  BY <1>2, BuddyTypeOK, PTL

(* What a status is taken for. *)
LEMMA StatusCode ==
  ASSUME NEW s \in Statuses
  PROVE  parse_away_mode(s[1]) = s[2] /\ s[2] \in Nat
<1>1. \A w \in Words : Codes[w] \in Nat
  BY NumberAssumption DEF Words, Codes
<1>2. \A n \in Numerals : Number[n] \in Int
  BY NumberAssumption
<1>3. CASE s \in {<<w, Codes[w]>> : w \in Words}
  BY <1>1, <1>3 DEF parse_away_mode
<1>4. CASE s \in {<<n, Number[n]>> : n \in {m \in Numerals \ Words : Number[m] >= 0}}
  BY <1>2, <1>4 DEF parse_away_mode
<1> QED
  BY <1>3, <1>4 DEF Statuses

(* With a restriction printinfo prints the line of a contact with that     *)
(* mode, and no other.                                                     *)
LEMMA PrintRestricted ==
  ASSUME NumbersPlain, buddies \in Seq(Contact), NEW u \in Uins, NEW code \in Nat
  PROVE  {line.uin : line \in printinfo(u, code)} =
           IF buddy_getmode(buddies, u) = code THEN {u} ELSE {}
<1>1. buddy_getuin(buddies, u) = u
  BY PlainNumber
<1>2. CASE buddy_getmode(buddies, u) # code
  <2>1. printinfo(u, code) = {}
    BY <1>1, <1>2 DEF printinfo
  <2> QED
    BY <1>2, <2>1
<1>3. CASE buddy_getmode(buddies, u) = code
  <2> DEFINE line == [nick |-> buddy_getalias(buddies, u), uin |-> u, mode |-> modestring(code)]
  <2>1. printinfo(u, code) = {line} /\ line.uin = u
    BY <1>1, <1>3 DEF printinfo
  <2> HIDE DEF line
  <2>2. {x.uin : x \in {line}} = {u}
    BY <2>1
  <2> QED
    BY <1>3, <2>1, <2>2
<1> QED
  BY <1>2, <1>3

(* /WHOIS status shows the contacts that have it. *)
LEMMA WhoisOfStatus ==
  ASSUME NumbersPlain, TypeOK, NEW s \in Statuses
  PROVE  {line.uin : line \in Whois(s[1])} =
           {u \in Listed(buddies) : buddy_getmode(buddies, u) = s[2]}
<1> DEFINE code == s[2]
           Uin(u) == {line.uin : line \in printinfo(u, code)}
<1>1. buddies \in Seq(Contact) /\ Listed(buddies) \subseteq Uins
  BY TypeParts, ListedType DEF Lists
<1>2. Whois(s[1]) = UNION {printinfo(u, code) : u \in Listed(buddies)}
  BY StatusCode DEF Whois, PrintAll
<1>3. ASSUME NEW u \in Listed(buddies)
      PROVE  Uin(u) = IF buddy_getmode(buddies, u) = code THEN {u} ELSE {}
  BY <1>1, PrintRestricted, StatusCode
<1>4. {line.uin : line \in Whois(s[1])} = UNION {Uin(u) : u \in Listed(buddies)}
  BY <1>2
<1> HIDE DEF code, Uin
<1>5. UNION {Uin(u) : u \in Listed(buddies)} =
        {u \in Listed(buddies) : buddy_getmode(buddies, u) = code}
  BY <1>3
<1> QED
  BY <1>4, <1>5 DEF code

(* /WHOIS status shows exactly the contacts that the user was last told    *)
(* have it, in every reachable list, for every word and number.            *)
THEOREM AlwaysAgreesWithTold == Spec => []WhoisAgreesWithTold
<1>1. ASSUME TypeOK, ToldTheStoredMode
      PROVE  WhoisAgreesWithTold
  <2> SUFFICES ASSUME NumbersPlain, NEW s \in Statuses
               PROVE  {line.uin : line \in Whois(s[1])} \ silent =
                        {u \in Listed(buddies) \ silent : told[u] = s[2]}
    BY DEF WhoisAgreesWithTold
  <2>1. {line.uin : line \in Whois(s[1])} =
          {u \in Listed(buddies) : buddy_getmode(buddies, u) = s[2]}
    BY <1>1, WhoisOfStatus
  <2>2. \A u \in Listed(buddies) \ silent : told[u] = buddy_getmode(buddies, u)
    BY <1>1 DEF ToldTheStoredMode
  <2> QED
    BY <2>1, <2>2
<1> QED
  BY <1>1, BuddyTypeOK, AlwaysTold, PTL
=============================================================================
