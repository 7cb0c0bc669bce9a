-------------------------- MODULE IcqBuddy_proofs --------------------------
(***************************************************************************)
(* Proofs about the contact list, the query windows and the buddy file,    *)
(* for all sets of users and names, files and lengths of the lists.        *)
(***************************************************************************)
EXTENDS IcqBuddy, Induction

-----------------------------------------------------------------------------
(* Searching and updating the list. *)

(* First is the least element. *)
LEMMA FirstLemma ==
  ASSUME NEW S, S \subseteq Nat, S # {}
  PROVE  First(S) \in S /\ \A j \in S : First(S) <= j
<1>1. \E i \in S : \A j \in S : i <= j
  BY LeastElement
<1> QED
  BY <1>1 DEF First

(* What read_buddy_file does to the list, line by line. *)
LoadStep(f, n, l) == IF f[n].uin \in Digits THEN <<Cut(f[n])>> \o l ELSE l

(* An entry that is read keeps its number; of the alias, what fgets        *)
(* leaves.                                                                 *)
LEMMA CutType ==
  ASSUME NEW e \in Entry
  PROVE  /\ Cut(e) \in Entry
         /\ Cut(e).uin = e.uin /\ Cut(e).alias = Clip[e.alias]
  BY NameAssumption DEF Cut, Entry

(* Loaded is the last value of the recursion by which the model defines    *)
(* it.                                                                     *)
LEMMA LoadedSteps ==
  ASSUME NEW f \in Seq(Entry)
  PROVE  \E list \in [0 .. Len(f) -> Seq(Entry)] :
           /\ list[0] = <<>>
           /\ \A n \in 1 .. Len(f) : list[n] = LoadStep(f, n, list[n - 1])
           /\ Loaded(f) = list[Len(f)]
<1> DEFINE N == Len(f)
           G == [n \in 1 .. N |-> [l \in Seq(Entry) |-> LoadStep(f, n, l)]]
           Body(h) == [n \in 0 .. N |-> IF n = 0 THEN <<>>
                         ELSE IF f[n].uin \in Digits THEN <<Cut(f[n])>> \o h[n - 1]
                         ELSE h[n - 1]]
           list == CHOOSE h : h = Body(h)
<1>1. \A n \in 1 .. N, l \in Seq(Entry) : LoadStep(f, n, l) \in Seq(Entry)
  BY CutType DEF LoadStep
<1>2. G \in [1 .. N -> [Seq(Entry) -> Seq(Entry)]]
  BY <1>1
<1>3. PICK g \in [0 .. N -> Seq(Entry)] : Follows(g, N, <<>>, G)
  <2> HIDE DEF G
  <2>1. N \in Nat /\ <<>> \in Seq(Entry)
    OBVIOUS
  <2> QED
    BY <1>2, <2>1, Recursion
<1>n. N \in Nat /\ 0 \in 0 .. N
  OBVIOUS
<1>z. <<>> \in Seq(Entry) /\ \A n \in 1 .. N : n \in 0 .. N /\ n # 0
  OBVIOUS
<1>4. g = Body(g)
  <2>1. g[0] = <<>>
    BY <1>3 DEF Follows
  <2>2. ASSUME NEW n \in 1 .. N
        PROVE  g[n] = LoadStep(f, n, g[n - 1])
    <3>1. g[n] = G[n][g[n - 1]] /\ n - 1 \in 0 .. N
      BY <1>3 DEF Follows
    <3>2. g[n - 1] \in Seq(Entry)
      BY <1>3, <3>1
    <3> QED
      BY <3>1, <3>2
  <2> HIDE DEF N
  <2>3. \A n \in 0 .. N : n = 0 \/ n \in 1 .. N
    BY <1>n
  <2>4. \A n \in 0 .. N : g[n] = Body(g)[n]
    BY <2>1, <2>2, <2>3, Zenon DEF LoadStep
  <2> QED
    BY <1>3, <2>4
<1>5. list = Body(list)
  <2> HIDE DEF Body
  <2> QED
    BY <1>4
<1>6. list[0] = <<>> /\ \A n \in 1 .. N : list[n] = LoadStep(f, n, list[n - 1])
  <2> HIDE DEF list, N
  <2>1. \A n \in 0 .. N : list[n] = Body(list)[n]
    BY <1>5
  <2> QED
    BY <2>1, <1>n, <1>z, Zenon DEF LoadStep
<1>7. 0 .. N \subseteq {n \in 0 .. N : list[n] \in Seq(Entry)}
  <2> DEFINE T == {n \in 0 .. N : list[n] \in Seq(Entry)}
  <2> HIDE DEF list, N
  <2>1. 0 \in T
    BY <1>6, <1>n, <1>z, Zenon
  <2>2. \A n \in 0 .. N - 1 : n \in T => n + 1 \in T
    BY <1>1, <1>6, <1>n
  <2> HIDE DEF T
  <2>3. 0 .. N \subseteq T
    BY <2>1, <2>2, <1>n, UpTo
  <2> QED
    BY <2>3 DEF T
<1>8. list \in [0 .. N -> Seq(Entry)]
  <2> HIDE DEF list
  <2> QED
    BY <1>5, <1>7
<1>9. Loaded(f) = list[N]
  BY DEF Loaded
<1> QED
  BY <1>6, <1>8, <1>9

(* l holds what the first n lines of f say, and nothing else. *)
Holds(l, f, n) ==
  /\ \A i \in 1 .. Len(l) : \E j \in 1 .. n : f[j].uin \in Digits /\ l[i] = Cut(f[j])
  /\ \A j \in 1 .. n : f[j].uin \in Digits => \E i \in 1 .. Len(l) : l[i] = Cut(f[j])

(* A line that is read keeps the list true to the part of the file read so *)
(* far.                                                                    *)
LEMMA LoadStepHolds ==
  ASSUME NEW f \in Seq(Entry), NEW n \in 1 .. Len(f), NEW l \in Seq(Entry), Holds(l, f, n - 1)
  PROVE  Holds(LoadStep(f, n, l), f, n)
<1>0. \A j \in 1 .. n : j \in 1 .. n - 1 \/ j = n
  OBVIOUS
<1>p. 1 .. n - 1 \subseteq 1 .. n /\ n \in 1 .. n
  OBVIOUS
<1>1. CASE f[n].uin \notin Digits
  BY <1>0, <1>p, <1>1 DEF Holds, LoadStep
<1>2. CASE f[n].uin \in Digits
  <2> DEFINE k == LoadStep(f, n, l)
  <2>1. Cut(f[n]) \in Entry
    BY CutType
  <2>2. k = <<Cut(f[n])>> \o l
    BY <1>2 DEF LoadStep
  <2>3. Len(k) = Len(l) + 1 /\ k[1] = Cut(f[n]) /\ \A i \in 1 .. Len(l) : k[i + 1] = l[i]
    BY <2>1, <2>2
  <2>4. Len(l) \in Nat
    OBVIOUS
  <2> HIDE DEF k
  <2>5. ASSUME NEW i \in 1 .. Len(k)
        PROVE  \E j \in 1 .. n : f[j].uin \in Digits /\ k[i] = Cut(f[j])
    <3>1. CASE i = 1
      BY <3>1, <1>2, <1>p, <2>3
    <3>2. CASE i # 1
      <4>1. i - 1 \in 1 .. Len(l) /\ k[i - 1 + 1] = l[i - 1] /\ i - 1 + 1 = i
        BY <3>2, <2>3, <2>4
      <4>2. PICK j \in 1 .. n - 1 : f[j].uin \in Digits /\ l[i - 1] = Cut(f[j])
        BY <4>1 DEF Holds
      <4> QED
        BY <4>1, <4>2, <1>p
    <3> QED
      BY <3>1, <3>2
  <2>6. ASSUME NEW j \in 1 .. n, f[j].uin \in Digits
        PROVE  \E i \in 1 .. Len(k) : k[i] = Cut(f[j])
    <3>1. CASE j = n
      BY <3>1, <2>3, <2>4
    <3>2. CASE j \in 1 .. n - 1
      <4>1. PICK i \in 1 .. Len(l) : l[i] = Cut(f[j])
        BY <3>2, <2>6 DEF Holds
      <4>2. i + 1 \in 1 .. Len(k) /\ k[i + 1] = Cut(f[j])
        BY <4>1, <2>3, <2>4
      <4> QED
        BY <4>2
    <3> QED
      BY <3>1, <3>2, <1>0
  <2>7. Holds(k, f, n)
    BY <2>5, <2>6 DEF Holds
  <2> QED
    BY <2>7 DEF k
<1> QED
  BY <1>1, <1>2

(* Loading a file: its numeric lines, cut, and nothing else. *)
LEMMA LoadedLemma ==
  ASSUME NEW f \in Seq(Entry)
  PROVE  Loaded(f) \in Seq(Entry) /\ Holds(Loaded(f), f, Len(f))
<1>1. PICK list \in [0 .. Len(f) -> Seq(Entry)] :
           /\ list[0] = <<>>
           /\ \A n \in 1 .. Len(f) : list[n] = LoadStep(f, n, list[n - 1])
           /\ Loaded(f) = list[Len(f)]
  BY LoadedSteps
<1> DEFINE T == {n \in 0 .. Len(f) : Holds(list[n], f, n)}
<1>2. 0 \in T
  BY <1>1 DEF Holds
<1>3. ASSUME NEW n \in 0 .. Len(f) - 1, n \in T
      PROVE  n + 1 \in T
  <2>1. n + 1 \in 1 .. Len(f) /\ n + 1 - 1 = n /\ n + 1 \in 0 .. Len(f)
    OBVIOUS
  <2>2. list[n] \in Seq(Entry) /\ list[n + 1] = LoadStep(f, n + 1, list[n])
    BY <1>1, <2>1
  <2>3. Holds(list[n], f, n + 1 - 1)
    BY <1>3, <2>1
  <2>4. Holds(list[n + 1], f, n + 1)
    BY <2>1, <2>2, <2>3, LoadStepHolds
  <2> QED
    BY <2>1, <2>4
<1>4. Len(f) \in Nat /\ Len(f) \in 0 .. Len(f)
  OBVIOUS
<1>5. 0 .. Len(f) \subseteq T
  <2> HIDE DEF T
  <2> QED
    BY <1>2, <1>3, <1>4, UpTo
<1> QED
  BY <1>1, <1>4, <1>5

-----------------------------------------------------------------------------
(* Types. *)

Contact == [uin : Uins, alias : Aliases, mode : Modes, ip : Ips]
Address == [uin : Names, ip : Ips] \cup {NoAddress}
Window == [name : Names, peer : Names, addr : Address]

(* The entry that a search by number finds is the first one with the       *)
(* number.                                                                 *)
LEMMA EntriesLemma ==
  ASSUME NEW l \in Seq(Contact), NEW u, Entries(l, u) # {}
  PROVE  /\ First(Entries(l, u)) \in 1 .. Len(l)
         /\ l[First(Entries(l, u))].uin = u
         /\ \A j \in 1 .. Len(l) : l[j].uin = u => First(Entries(l, u)) <= j
<1>1. Entries(l, u) \subseteq Nat
  BY DEF Entries
<1>2. First(Entries(l, u)) \in Entries(l, u) /\ \A j \in Entries(l, u) : First(Entries(l, u)) <= j
  BY <1>1, FirstLemma
<1> QED
  BY <1>2 DEF Entries

(* The entry that a search by alias finds has an alias of the same folded  *)
(* name.                                                                   *)
LEMMA AliasEntriesLemma ==
  ASSUME NEW l \in Seq(Contact), NEW a, AliasEntries(l, a) # {}
  PROVE  /\ First(AliasEntries(l, a)) \in 1 .. Len(l)
         /\ Fold[l[First(AliasEntries(l, a))].alias] = Fold[a]
<1>1. AliasEntries(l, a) \subseteq Nat
  BY DEF AliasEntries
<1>2. First(AliasEntries(l, a)) \in AliasEntries(l, a)
  BY <1>1, FirstLemma
<1> QED
  BY <1>2 DEF AliasEntries

(* The window that a search by name finds has the name, but for its case. *)
LEMMA QueryNamedLemma ==
  ASSUME NEW qs \in Seq(Window), NEW n, QueryNamed(qs, n) # {}
  PROVE  /\ First(QueryNamed(qs, n)) \in 1 .. Len(qs)
         /\ Fold[qs[First(QueryNamed(qs, n))].name] = Fold[n]
<1>1. QueryNamed(qs, n) \subseteq Nat
  BY DEF QueryNamed
<1>2. First(QueryNamed(qs, n)) \in QueryNamed(qs, n)
  BY <1>1, FirstLemma
<1> QED
  BY <1>2 DEF QueryNamed

(* Lookups return values of their types. *)
LEMMA LookupType ==
  ASSUME NEW l \in Seq(Contact), NEW n \in Names
  PROVE  /\ buddy_getalias(l, n) \in Names
         /\ buddy_getuin(l, n) \in Names
         /\ buddy_getip(l, n) \in Ips
<1>1. buddy_getalias(l, n) \in Names
  <2>1. CASE Entries(l, n) = {}
    BY <2>1 DEF buddy_getalias
  <2>2. CASE Entries(l, n) # {}
    <3>1. l[First(Entries(l, n))] \in Contact
      BY <2>2, EntriesLemma
    <3>2. l[First(Entries(l, n))].alias \in Aliases
      BY <3>1 DEF Contact
    <3> QED
      BY <2>2, <3>2 DEF buddy_getalias, Names
  <2> QED
    BY <2>1, <2>2
<1>2. buddy_getuin(l, n) \in Names
  <2>1. CASE AliasEntries(l, n) = {}
    BY <2>1 DEF buddy_getuin
  <2>2. CASE AliasEntries(l, n) # {}
    <3>1. l[First(AliasEntries(l, n))] \in Contact
      BY <2>2, AliasEntriesLemma
    <3>2. l[First(AliasEntries(l, n))].uin \in Uins
      BY <3>1 DEF Contact
    <3> QED
      BY <2>2, <3>2 DEF buddy_getuin, Names
  <2> QED
    BY <2>1, <2>2
<1>3. buddy_getip(l, n) \in Ips
  <2>1. CASE Entries(l, n) = {}
    BY <2>1 DEF buddy_getip, Ips
  <2>2. CASE Entries(l, n) # {}
    <3>1. l[First(Entries(l, n))] \in Contact
      BY <2>2, EntriesLemma
    <3>2. l[First(Entries(l, n))].ip \in Ips
      BY <3>1 DEF Contact
    <3> QED
      BY <2>2, <3>2 DEF buddy_getip
  <2> QED
    BY <2>1, <2>2
<1> QED
  BY <1>1, <1>2, <1>3

(* buddy_setmode and buddy_setip change one member of one entry. *)
LEMMA SetMode ==
  ASSUME NEW l \in Seq(Contact), NEW u, NEW m \in Modes
  PROVE  LET k == buddy_setmode(l, u, m)
         IN  /\ k \in Seq(Contact) /\ Len(k) = Len(l)
             /\ \A i \in 1 .. Len(l) :
                  /\ k[i].uin = l[i].uin /\ k[i].alias = l[i].alias /\ k[i].ip = l[i].ip
                  /\ k[i].mode = IF Entries(l, u) # {} /\ i = First(Entries(l, u)) THEN m
                                 ELSE l[i].mode
<1> DEFINE k == buddy_setmode(l, u, m)
<1>1. CASE Entries(l, u) = {}
  BY <1>1 DEF buddy_setmode
<1>2. CASE Entries(l, u) # {}
  <2> DEFINE f == First(Entries(l, u))
             e == [l[f] EXCEPT !.mode = m]
  <2>1. f \in 1 .. Len(l)
    BY <1>2, EntriesLemma
  <2>2. l[f] \in Contact
    BY <2>1
  <2>3. e \in Contact /\ e.uin = l[f].uin /\ e.alias = l[f].alias /\ e.ip = l[f].ip /\ e.mode = m
    BY <2>2 DEF Contact
  <2>4. k = [l EXCEPT ![f] = e]
    BY <1>2 DEF buddy_setmode
  <2> HIDE DEF f, e, k
  <2>5. k \in Seq(Contact) /\ Len(k) = Len(l)
        /\ \A i \in 1 .. Len(l) : k[i] = IF i = f THEN e ELSE l[i]
    BY <2>1, <2>3, <2>4
  <2> QED
    BY <1>2, <2>3, <2>5 DEF k, f
<1> QED
  BY <1>1, <1>2

(* buddy_setip touches the addresses of the entries with the number,       *)
(* nothing else.                                                           *)
LEMMA SetIp ==
  ASSUME NEW l \in Seq(Contact), NEW u, NEW ip \in Ips
  PROVE  LET k == buddy_setip(l, u, ip)
         IN  /\ k \in Seq(Contact) /\ Len(k) = Len(l)
             /\ \A i \in 1 .. Len(l) :
                  /\ k[i].uin = l[i].uin /\ k[i].alias = l[i].alias /\ k[i].mode = l[i].mode
                  /\ k[i].ip = l[i].ip \/ (l[i].uin = u /\ k[i].ip = ip)
<1> DEFINE k == buddy_setip(l, u, ip)
<1>1. CASE Entries(l, u) = {}
  BY <1>1 DEF buddy_setip
<1>2. CASE Entries(l, u) # {}
  <2> DEFINE f == First(Entries(l, u))
             e == [l[f] EXCEPT !.ip = ip]
  <2>1. f \in 1 .. Len(l) /\ l[f].uin = u
    BY <1>2, EntriesLemma
  <2>2. l[f] \in Contact
    BY <2>1
  <2>3. e \in Contact /\ e.uin = l[f].uin /\ e.alias = l[f].alias /\ e.ip = ip /\ e.mode = l[f].mode
    BY <2>2 DEF Contact
  <2>4. k = [l EXCEPT ![f] = e]
    BY <1>2 DEF buddy_setip
  <2> HIDE DEF f, e, k
  <2>5. k \in Seq(Contact) /\ Len(k) = Len(l)
        /\ \A i \in 1 .. Len(l) : k[i] = IF i = f THEN e ELSE l[i]
    BY <2>1, <2>3, <2>4
  <2> QED
    BY <2>1, <2>3, <2>5 DEF k
<1> QED
  BY <1>1, <1>2

(* An entry that no earlier entry shadows is the first of its user. *)
LEMMA IsFirst ==
  ASSUME NEW l \in Seq(Contact), NEW i \in 1 .. Len(l),
         \A j \in 1 .. Len(l) : l[j].uin = l[i].uin => i <= j
  PROVE  Entries(l, l[i].uin) # {} /\ First(Entries(l, l[i].uin)) = i
<1>1. i \in Entries(l, l[i].uin)
  BY DEF Entries
<1>2. LET f == First(Entries(l, l[i].uin))
      IN  f \in 1 .. Len(l) /\ l[f].uin = l[i].uin /\ f <= i
  BY <1>1, EntriesLemma
<1> QED
  BY <1>1, <1>2

(* A list that Fresh returns: the names, each with some mode and no ip. *)
LEMMA FreshLemma ==
  ASSUME NEW names \in Seq(Entry), NEW b \in Fresh(names)
  PROVE  /\ b \in Seq(Contact) /\ Len(b) = Len(names)
         /\ \A i \in 1 .. Len(names) :
              b[i].uin = names[i].uin /\ b[i].alias = names[i].alias /\ b[i].ip = Junk
<1>1. PICK m \in [1 .. Len(names) -> Modes] :
        b = [i \in 1 .. Len(names) |-> [uin |-> names[i].uin, alias |-> names[i].alias,
                                        mode |-> m[i], ip |-> Junk]]
  BY DEF Fresh
<1>2. ASSUME NEW i \in 1 .. Len(names)
      PROVE  b[i] \in Contact
  <2>1. names[i] \in Entry /\ m[i] \in Modes
    BY <1>1
  <2>2. names[i].uin \in Uins /\ names[i].alias \in Aliases /\ Junk \in Ips
    BY <2>1 DEF Entry, Ips
  <2>3. b[i] = [uin |-> names[i].uin, alias |-> names[i].alias, mode |-> m[i], ip |-> Junk]
    BY <1>1
  <2> QED
    BY <2>1, <2>2, <2>3 DEF Contact
<1>3. Len(names) \in Nat /\ b \in [1 .. Len(names) -> Contact]
  BY <1>1, <1>2
<1>4. b \in Seq(Contact) /\ Len(b) = Len(names)
  BY <1>3
<1> QED
  BY <1>1, <1>4

(* The lines that icq_savebuddy writes. *)
LEMMA SavedLemma ==
  ASSUME NEW l \in Seq(Contact)
  PROVE  /\ Saved(l) \in Seq(Entry) /\ Len(Saved(l)) = Len(l)
         /\ \A i \in 1 .. Len(l) :
              /\ Saved(l)[i].uin = l[i].uin
              /\ Saved(l)[i].alias = buddy_getalias(l, l[i].uin)
              /\ \E j \in 1 .. Len(l) :
                   l[j].uin = l[i].uin /\ Saved(l)[i].alias = l[j].alias
<1>1. ASSUME NEW i \in 1 .. Len(l)
      PROVE  /\ Saved(l)[i] \in Entry
             /\ Saved(l)[i].uin = l[i].uin
             /\ Saved(l)[i].alias = buddy_getalias(l, l[i].uin)
             /\ \E j \in 1 .. Len(l) :
                  l[j].uin = l[i].uin /\ Saved(l)[i].alias = l[j].alias
  <2> DEFINE f == First(Entries(l, l[i].uin))
  <2>1. Entries(l, l[i].uin) # {}
    BY DEF Entries
  <2>2. f \in 1 .. Len(l) /\ l[f].uin = l[i].uin
    BY <2>1, EntriesLemma
  <2>3. l[f] \in Contact /\ l[i] \in Contact
    BY <2>2
  <2>4. buddy_getalias(l, l[i].uin) = l[f].alias
    BY <2>1 DEF buddy_getalias
  <2>5. Saved(l)[i] = [uin |-> l[i].uin, alias |-> buddy_getalias(l, l[i].uin)]
    BY DEF Saved
  <2>6. l[i].uin \in Uins /\ l[f].alias \in Aliases
    BY <2>3 DEF Contact
  <2> HIDE DEF f
  <2> QED
    BY <2>2, <2>4, <2>5, <2>6 DEF Entry
<1>2. Len(l) \in Nat /\ Saved(l) \in [1 .. Len(l) -> Entry]
  BY <1>1 DEF Saved
<1>3. Saved(l) \in Seq(Entry) /\ Len(Saved(l)) = Len(l)
  BY <1>2
<1> QED
  BY <1>1, <1>3

-----------------------------------------------------------------------------
(* Query windows. *)

(* The address a window gets is of the user given, or still of the one it  *)
(* had.                                                                    *)
LEMMA TopicsLemma ==
  ASSUME NEW old \in Address, NEW u \in Names, NEW ip \in Ips, NEW t \in Topics(old, u, ip)
  PROVE  t \in Address /\ t.uin \in {u, old.uin} /\ (old = NoAddress => t.uin = u)
<1> DEFINE plain == IF old = NoAddress THEN [uin |-> u, ip |-> NoIp] ELSE old
           real == [uin |-> u, ip |-> ip]
<1>1. NoIp \in Ips
  BY DEF Ips
<1>2. real \in Address /\ real.uin = u
  BY DEF Address
<1>3. plain \in Address /\ plain.uin \in {u, old.uin} /\ (old = NoAddress => plain.uin = u)
  BY <1>1 DEF Address
<1>4. t = plain \/ t = real
  BY DEF Topics
<1> HIDE DEF plain, real
<1> QED
  BY <1>2, <1>3, <1>4

(* A new query window. *)
LEMMA CreatedLemma ==
  ASSUME NEW l \in Seq(Contact), NEW n \in Names, NEW q \in Created(l, n)
  PROVE  /\ q \in Window
         /\ q.name = n /\ q.peer = buddy_getuin(l, n) /\ q.addr.uin = buddy_getuin(l, n)
<1> DEFINE u == buddy_getuin(l, n)
<1>1. PICK t \in Topics(NoAddress, u, buddy_getip(l, u)) : q = [name |-> n, addr |-> t, peer |-> u]
  BY DEF Created
<1>2. u \in Names /\ NoAddress \in Address
  BY LookupType DEF Address
<1> HIDE DEF u
<1>3. t \in Address /\ t.uin = u
  <2>1. buddy_getip(l, u) \in Ips
    BY <1>2, LookupType
  <2> QED
    BY <1>2, <2>1, TopicsLemma
<1> QED
  BY <1>1, <1>2, <1>3 DEF Window, u

(* add_buddy renames at most one window, one that bears the number. *)
LEMMA RenameQueryLemma ==
  ASSUME NEW qs \in Seq(Window), NEW u, NEW a \in Names
  PROVE  LET ps == RenameQuery(qs, u, a)
         IN  /\ ps \in Seq(Window) /\ Len(ps) = Len(qs)
             /\ \A i \in 1 .. Len(qs) :
                  /\ ps[i].peer = qs[i].peer /\ ps[i].addr = qs[i].addr
                  /\ ps[i].name = qs[i].name \/ (Fold[qs[i].name] = Fold[u] /\ ps[i].name = a)
<1> DEFINE ps == RenameQuery(qs, u, a)
<1>1. CASE QueryNamed(qs, u) = {}
  BY <1>1 DEF RenameQuery
<1>2. CASE QueryNamed(qs, u) # {}
  <2> DEFINE f == First(QueryNamed(qs, u))
             q == [qs[f] EXCEPT !.name = a]
  <2>1. f \in 1 .. Len(qs) /\ Fold[qs[f].name] = Fold[u]
    BY <1>2, QueryNamedLemma
  <2>2. qs[f] \in Window
    BY <2>1
  <2>3. q \in Window /\ q.name = a /\ q.peer = qs[f].peer /\ q.addr = qs[f].addr
    BY <2>2 DEF Window
  <2>4. ps = [qs EXCEPT ![f] = q]
    BY <1>2 DEF RenameQuery
  <2> HIDE DEF f, q, ps
  <2>5. ps \in Seq(Window) /\ Len(ps) = Len(qs)
        /\ \A i \in 1 .. Len(qs) : ps[i] = IF i = f THEN q ELSE qs[i]
    BY <2>1, <2>3, <2>4
  <2> QED
    BY <2>1, <2>3, <2>5 DEF ps
<1> QED
  BY <1>1, <1>2

(* query_updateip changes the address of at most one window, one that      *)
(* bears the name under which the user is known.                           *)
LEMMA UpdatedQueriesLemma ==
  ASSUME NEW l \in Seq(Contact), NEW qs \in Seq(Window), NEW u \in Names, NEW ip \in Ips,
         NEW ps \in UpdatedQueries(l, qs, u, ip)
  PROVE  /\ ps \in Seq(Window) /\ Len(ps) = Len(qs)
         /\ \A i \in 1 .. Len(qs) :
              /\ ps[i].peer = qs[i].peer /\ ps[i].name = qs[i].name
              /\ \/ ps[i].addr = qs[i].addr
                 \/ /\ Fold[qs[i].name] = Fold[buddy_getalias(l, u)]
                    /\ ps[i].addr.uin \in {buddy_getuin(l, u), qs[i].addr.uin}
<1> DEFINE n == buddy_getalias(l, u)
<1>1. CASE QueryNamed(qs, n) = {}
  BY <1>1 DEF UpdatedQueries
<1>2. CASE QueryNamed(qs, n) # {}
  <2> DEFINE f == First(QueryNamed(qs, n))
  <2>1. f \in 1 .. Len(qs) /\ Fold[qs[f].name] = Fold[n]
    BY <1>2, QueryNamedLemma
  <2>2. qs[f] \in Window
    BY <2>1
  <2>3. PICK t \in Topics(qs[f].addr, buddy_getuin(l, u), ip) : ps = [qs EXCEPT ![f].addr = t]
    BY <1>2 DEF UpdatedQueries
  <2>4. t \in Address /\ t.uin \in {buddy_getuin(l, u), qs[f].addr.uin}
    <3>1. qs[f].addr \in Address /\ buddy_getuin(l, u) \in Names
      BY <2>2, LookupType DEF Window
    <3> HIDE DEF f
    <3> QED
      BY <2>3, <3>1, TopicsLemma
  <2> DEFINE q == [qs[f] EXCEPT !.addr = t]
  <2>5. q \in Window /\ q.name = qs[f].name /\ q.peer = qs[f].peer /\ q.addr = t
    BY <2>2, <2>4 DEF Window
  <2>6. ps = [qs EXCEPT ![f] = q]
    BY <2>3
  <2> HIDE DEF f, q
  <2>7. ps \in Seq(Window) /\ Len(ps) = Len(qs)
        /\ \A i \in 1 .. Len(qs) : ps[i] = IF i = f THEN q ELSE qs[i]
    BY <2>1, <2>5, <2>6
  <2> QED
    BY <2>1, <2>4, <2>5, <2>7
<1> QED
  BY <1>1, <1>2

(* The windows after the renaming that reading a file causes. *)
RenameStep(f, n, qs) ==
  IF f[n].uin \in Digits THEN RenameQuery(qs, f[n].uin, Cut(f[n]).alias) ELSE qs

(* Renaming the windows of one entry yields windows. *)
LEMMA RenameStepType ==
  ASSUME NEW f \in Seq(Entry), NEW n \in 1 .. Len(f), NEW qs \in Seq(Window)
  PROVE  RenameStep(f, n, qs) \in Seq(Window)
<1>1. Cut(f[n]) \in Entry
  BY CutType
<1>2. Cut(f[n]).alias \in Names
  BY <1>1 DEF Entry, Names
<1> QED
  BY <1>2, RenameQueryLemma DEF RenameStep

(* Renamed is the last value of the recursion by which the model defines   *)
(* it.                                                                     *)
LEMMA RenamedSteps ==
  ASSUME NEW f \in Seq(Entry), NEW qs \in Seq(Window)
  PROVE  \E windows \in [0 .. Len(f) -> Seq(Window)] :
           /\ windows[0] = qs
           /\ \A n \in 1 .. Len(f) : windows[n] = RenameStep(f, n, windows[n - 1])
           /\ Renamed(qs, f) = windows[Len(f)]
<1> DEFINE N == Len(f)
           G == [n \in 1 .. N |-> [ps \in Seq(Window) |-> RenameStep(f, n, ps)]]
           Body(h) == [n \in 0 .. N |-> IF n = 0 THEN qs
                         ELSE IF f[n].uin \in Digits
                         THEN RenameQuery(h[n - 1], f[n].uin, Cut(f[n]).alias)
                         ELSE h[n - 1]]
           windows == CHOOSE h : h = Body(h)
<1>1. \A n \in 1 .. N, ps \in Seq(Window) : RenameStep(f, n, ps) \in Seq(Window)
  BY RenameStepType
<1>2. G \in [1 .. N -> [Seq(Window) -> Seq(Window)]]
  BY <1>1
<1>3. PICK g \in [0 .. N -> Seq(Window)] : Follows(g, N, qs, G)
  <2> HIDE DEF G
  <2>1. N \in Nat
    OBVIOUS
  <2> QED
    BY <1>2, <2>1, Recursion
<1>n. N \in Nat /\ 0 \in 0 .. N
  OBVIOUS
<1>z. \A n \in 1 .. N : n \in 0 .. N /\ n # 0
  OBVIOUS
<1>4. g = Body(g)
  <2>1. g[0] = qs
    BY <1>3 DEF Follows
  <2>2. ASSUME NEW n \in 1 .. N
        PROVE  g[n] = RenameStep(f, n, g[n - 1])
    <3>1. g[n] = G[n][g[n - 1]] /\ n - 1 \in 0 .. N
      BY <1>3 DEF Follows
    <3>2. g[n - 1] \in Seq(Window)
      BY <1>3, <3>1
    <3> QED
      BY <3>1, <3>2
  <2> HIDE DEF N
  <2>3. \A n \in 0 .. N : n = 0 \/ n \in 1 .. N
    BY <1>n
  <2>4. \A n \in 0 .. N : g[n] = Body(g)[n]
    BY <2>1, <2>2, <2>3, Zenon DEF RenameStep
  <2> QED
    BY <1>3, <2>4
<1>5. windows = Body(windows)
  <2> HIDE DEF Body
  <2> QED
    BY <1>4
<1>6. windows[0] = qs /\ \A n \in 1 .. N : windows[n] = RenameStep(f, n, windows[n - 1])
  <2> HIDE DEF windows, N
  <2>1. \A n \in 0 .. N : windows[n] = Body(windows)[n]
    BY <1>5
  <2> QED
    BY <2>1, <1>n, <1>z, Zenon DEF RenameStep
<1>7. 0 .. N \subseteq {n \in 0 .. N : windows[n] \in Seq(Window)}
  <2> DEFINE T == {n \in 0 .. N : windows[n] \in Seq(Window)}
  <2> HIDE DEF windows, N
  <2>1. 0 \in T
    BY <1>6, <1>n
  <2>2. \A n \in 0 .. N - 1 : n \in T => n + 1 \in T
    BY <1>1, <1>6, <1>n
  <2> HIDE DEF T
  <2>3. 0 .. N \subseteq T
    BY <2>1, <2>2, <1>n, UpTo
  <2> QED
    BY <2>3 DEF T
<1>8. windows \in [0 .. N -> Seq(Window)]
  <2> HIDE DEF windows
  <2> QED
    BY <1>5, <1>7
<1>9. Renamed(qs, f) = windows[N]
  BY DEF Renamed
<1> QED
  BY <1>6, <1>8, <1>9

(* What every renaming keeps, reading a file keeps. *)
LEMMA RenamedInduct ==
  ASSUME NEW f \in Seq(Entry), NEW T \in SUBSET Seq(Window), NEW qs \in T,
         \A n \in 1 .. Len(f), ps \in T : RenameStep(f, n, ps) \in T
  PROVE  Renamed(qs, f) \in T
<1>1. PICK windows \in [0 .. Len(f) -> Seq(Window)] :
           /\ windows[0] = qs
           /\ \A n \in 1 .. Len(f) : windows[n] = RenameStep(f, n, windows[n - 1])
           /\ Renamed(qs, f) = windows[Len(f)]
  BY RenamedSteps
<1> DEFINE U == {n \in 0 .. Len(f) : windows[n] \in T}
<1>2. 0 \in U
  BY <1>1
<1>3. ASSUME NEW n \in 0 .. Len(f) - 1, n \in U
      PROVE  n + 1 \in U
  <2>1. n + 1 \in 1 .. Len(f) /\ n + 1 - 1 = n /\ n + 1 \in 0 .. Len(f)
    OBVIOUS
  <2> QED
    BY <1>1, <1>3, <2>1
<1>4. Len(f) \in Nat /\ Len(f) \in 0 .. Len(f)
  OBVIOUS
<1>5. 0 .. Len(f) \subseteq U
  <2> HIDE DEF U
  <2> QED
    BY <1>2, <1>3, <1>4, UpTo
<1> QED
  BY <1>1, <1>4, <1>5

(* Closing a window leaves the others. *)
LEMMA RemoveLemma ==
  ASSUME NEW qs \in Seq(Window), NEW i \in 1 .. Len(qs)
  PROVE  /\ RemoveAt(qs, i) \in Seq(Window)
         /\ \A j \in 1 .. Len(RemoveAt(qs, i)) :
              \E k \in 1 .. Len(qs) : RemoveAt(qs, i)[j] = qs[k]
<1> DEFINE a == SubSeq(qs, 1, i - 1)
           b == SubSeq(qs, i + 1, Len(qs))
<1>1. a \in Seq(Window) /\ Len(a) = i - 1 /\ \A j \in 1 .. i - 1 : a[j] = qs[j]
  OBVIOUS
<1>2. b \in Seq(Window) /\ Len(b) = Len(qs) - i
      /\ \A j \in 1 .. Len(qs) - i : b[j] = qs[i + j]
  OBVIOUS
<1>3. RemoveAt(qs, i) = a \o b
  BY DEF RemoveAt
<1> HIDE DEF a, b
<1>4. a \o b \in Seq(Window) /\ Len(a \o b) = Len(qs) - 1
  <2>1. a \o b \in Seq(Window) /\ Len(a \o b) = Len(a) + Len(b)
    <3>1. a \in Seq(Window) /\ b \in Seq(Window)
      BY <1>1, <1>2
    <3> QED
      BY <3>1
  <2>2. Len(qs) \in Nat /\ i \in Int
    OBVIOUS
  <2> QED
    BY <1>1, <1>2, <2>1, <2>2
<1>5. ASSUME NEW j \in 1 .. Len(a \o b)
      PROVE  \E k \in 1 .. Len(qs) : (a \o b)[j] = qs[k]
  <2>1. CASE j \in 1 .. i - 1
    BY <1>1, <1>2, <1>4, <2>1
  <2>2. CASE j \notin 1 .. i - 1
    <3>1. j - (i - 1) \in 1 .. Len(qs) - i /\ j + 1 \in 1 .. Len(qs)
      BY <1>4, <2>2
    <3>2. (a \o b)[j] = b[j - (i - 1)]
      BY <1>1, <1>2, <1>4, <2>2
    <3>3. b[j - (i - 1)] = qs[j + 1]
      BY <1>2, <3>1
    <3> QED
      BY <3>1, <3>2, <3>3
  <2> QED
    BY <2>1, <2>2
<1> QED
  BY <1>3, <1>4, <1>5

-----------------------------------------------------------------------------
(* The steps of the specification, as the invariants see them. *)

(* Every list a step may leave. *)
LEMMA UpdatedListLemma ==
  ASSUME NEW l \in Seq(Contact), NEW u \in Names, NEW ip \in Ips
  PROVE  LET k == UpdatedList(l, u, ip)
         IN  /\ k \in Seq(Contact) /\ Len(k) = Len(l)
             /\ \A i \in 1 .. Len(l) :
                  /\ k[i].uin = l[i].uin /\ k[i].alias = l[i].alias /\ k[i].mode = l[i].mode
                  /\ k[i].ip = l[i].ip \/ (l[i].uin = buddy_getuin(l, u) /\ k[i].ip = ip)
  BY SetIp DEF UpdatedList

Announced(l) ==
  [i \in 1 .. Len(l) |-> IF i = First(Entries(l, l[i].uin))
                         THEN [l[i] EXCEPT !.mode = OFFLINE] ELSE l[i]]

(* An announcement touches the modes only. *)
LEMMA AnnouncedLemma ==
  ASSUME NEW l \in Seq(Contact)
  PROVE  /\ Announced(l) \in Seq(Contact) /\ Len(Announced(l)) = Len(l)
         /\ \A i \in 1 .. Len(l) :
              /\ Announced(l)[i].uin = l[i].uin /\ Announced(l)[i].alias = l[i].alias
              /\ Announced(l)[i].ip = l[i].ip
<1>1. ASSUME NEW i \in 1 .. Len(l)
      PROVE  LET k == Announced(l)
             IN  k[i] \in Contact /\ k[i].uin = l[i].uin /\ k[i].alias = l[i].alias
                 /\ k[i].ip = l[i].ip
  <2> DEFINE e == [l[i] EXCEPT !.mode = OFFLINE]
  <2>1. l[i] \in Contact
    OBVIOUS
  <2>2. e \in Contact /\ e.uin = l[i].uin /\ e.alias = l[i].alias /\ e.ip = l[i].ip
    BY <2>1, NameAssumption DEF Contact
  <2>3. Announced(l)[i] = e \/ Announced(l)[i] = l[i]
    BY DEF Announced
  <2> HIDE DEF e
  <2> QED
    BY <2>1, <2>2, <2>3
<1>2. Len(l) \in Nat /\ Announced(l) \in [1 .. Len(l) -> Contact]
  BY <1>1 DEF Announced
<1>3. Announced(l) \in Seq(Contact) /\ Len(Announced(l)) = Len(l)
  BY <1>2
<1> QED
  BY <1>1, <1>3

(* What is read of the file is a list of entries. *)
LEMMA ReadsLemma ==
  ASSUME TypeOK, NEW f \in Reads
  PROVE  f \in Seq(Entry) /\ Loaded(f) \in Seq(Entry)
<1>1. f \in Seq(Entry)
  <2>1. file \in Seq(Entry) /\ <<>> \in Seq(Entry)
    BY DEF TypeOK
  <2> QED
    BY <2>1 DEF Reads
<1> QED
  BY <1>1, LoadedLemma

(* A list freshly read contains the numeric lines of the file. *)
LEMMA ReadLemma ==
  ASSUME NEW f \in Seq(Entry), NEW b \in Fresh(Loaded(f))
  PROVE  /\ b \in Seq(Contact)
         /\ \A i \in 1 .. Len(b) : b[i].ip = Junk /\ \E j \in 1 .. Len(f) :
              b[i].uin = f[j].uin /\ b[i].alias = Clip[f[j].alias]
         /\ \A j \in 1 .. Len(f) : f[j].uin \in Digits => f[j].uin \in Listed(b)
<1> DEFINE l == Loaded(f)
<1>1. l \in Seq(Entry) /\ Holds(l, f, Len(f))
  BY LoadedLemma
<1>2. /\ b \in Seq(Contact) /\ Len(b) = Len(l)
      /\ \A i \in 1 .. Len(l) : b[i].uin = l[i].uin /\ b[i].alias = l[i].alias /\ b[i].ip = Junk
  <2> HIDE DEF l
  <2>1. b \in Fresh(l)
    BY DEF l
  <2> QED
    BY <1>1, <2>1, FreshLemma
<1> HIDE DEF l
<1>3. \A j \in 1 .. Len(f) : f[j] \in Entry
  OBVIOUS
<1>4. ASSUME NEW i \in 1 .. Len(b)
      PROVE  b[i].ip = Junk /\ \E j \in 1 .. Len(f) :
               b[i].uin = f[j].uin /\ b[i].alias = Clip[f[j].alias]
  <2>1. PICK j \in 1 .. Len(f) : l[i] = Cut(f[j])
    BY <1>1, <1>2 DEF Holds
  <2>2. l[i].uin = f[j].uin /\ l[i].alias = Clip[f[j].alias]
    BY <1>3, <2>1, CutType
  <2> QED
    BY <1>2, <2>2
<1>5. ASSUME NEW j \in 1 .. Len(f), f[j].uin \in Digits
      PROVE  f[j].uin \in Listed(b)
  <2>1. PICK i \in 1 .. Len(l) : l[i] = Cut(f[j])
    BY <1>1, <1>5 DEF Holds
  <2>2. b[i].uin = f[j].uin
    BY <1>2, <1>3, <2>1, CutType
  <2> QED
    BY <1>2, <2>2 DEF Listed
<1> QED
  BY <1>2, <1>4, <1>5

-----------------------------------------------------------------------------
(* TypeOK *)

(* What is left of TypeOK when a step touches the list and the windows. *)
Lists == buddies \in Seq(Contact) /\ queries \in Seq(Window)
Rest ==
  /\ file \in Seq(Entry) /\ saving \in Seq(Entry) /\ pc \in {"idle", "save"}
  /\ told \in [Uins -> Modes \cup {NoMode}] /\ silent \subseteq Uins
  /\ kept \subseteq Digits /\ torn \in BOOLEAN /\ unread \in BOOLEAN

(* TypeOK in two parts: the list with the windows, and the rest. *)
LEMMA TypeParts == (TypeOK <=> Lists /\ Rest) /\ (TypeOK' <=> Lists' /\ Rest')
  BY DEF TypeOK, Lists, Rest, Contact, Window, Address

(* The initial states are well-typed. *)
LEMMA InitType == Init => TypeOK
<1> SUFFICES ASSUME Init
             PROVE  TypeOK
  OBVIOUS
<1>1. file \in Seq(Entry)
  BY NameAssumption DEF Init
<1>2. PICK f \in Reads : buddies \in Fresh(Loaded(f)) /\ unread = (f # file)
  BY DEF Init
<1>3. f \in Seq(Entry)
  <2>1. f \in {file, <<>>} /\ <<>> \in Seq(Entry)
    BY <1>2 DEF Reads
  <2> QED
    BY <1>1, <2>1
<1>4. buddies \in Seq(Contact)
  BY <1>2, <1>3, ReadLemma
<1>5. NoMode \in Modes \cup {NoMode} /\ unread \in BOOLEAN
  BY <1>2
<1>6. Lists
  BY <1>4 DEF Init, Lists
<1>7. Rest
  <2>1. told \in [Uins -> Modes \cup {NoMode}] /\ <<>> \in Seq(Entry)
    BY <1>5 DEF Init
  <2> QED
    BY <1>1, <1>5, <2>1 DEF Init, Rest
<1> QED
  BY <1>6, <1>7, TypeParts

(* The numbers in a list are numbers of users. *)
LEMMA ListedType ==
  ASSUME NEW l \in Seq(Contact)
  PROVE  Listed(l) \subseteq Uins
<1>1. \A i \in 1 .. Len(l) : l[i] \in Contact
  OBVIOUS
<1> QED
  BY <1>1 DEF Listed, Contact

(* Well-typed after AddBuddy ... *)
LEMMA AddBuddyType ==
  ASSUME TypeOK, NEW p \in Pairs, AddBuddy(p[1], p[2])
  PROVE  TypeOK'
<1> USE TypeParts
<1>1. p[1] \in Uins /\ p[2] \in Aliases /\ p[2] \in Names
  BY NameAssumption DEF Names
<1> DEFINE e == [uin |-> p[1], alias |-> p[2], mode |-> OFFLINE, ip |-> Junk]
<1>2. e \in Contact
  BY <1>1, NameAssumption DEF Contact, Ips
<1>3. buddies' \in Seq(Contact)
  <2>1. buddies' = <<e>> \o buddies /\ buddies \in Seq(Contact)
    BY DEF AddBuddy, Lists
  <2> HIDE DEF e
  <2> QED
    BY <1>2, <2>1
<1>4. queries' \in Seq(Window)
  BY <1>1, RenameQueryLemma DEF AddBuddy, Lists
<1>5. Rest'
  BY <1>1 DEF AddBuddy, Rest
<1> QED
  BY <1>3, <1>4, <1>5, TypeParts DEF Lists

(* ... after the announcement of the whole list, ... *)
LEMMA AnnounceAllType ==
  ASSUME TypeOK, AnnounceAll
  PROVE  TypeOK'
<1>1. Lists /\ Rest
  BY TypeParts
<1>2. buddies' = Announced(buddies)
  BY DEF AnnounceAll, Announced
<1>3. Lists'
  BY <1>1, <1>2, AnnouncedLemma DEF AnnounceAll, Lists
<1>4. Listed(buddies) \subseteq Uins
  BY <1>1, ListedType DEF Lists
<1>5. Rest'
  BY <1>1, <1>4 DEF AnnounceAll, Rest
<1> QED
  BY <1>3, <1>5, TypeParts

(* ... after a packet about a mode, ... *)
LEMMA ModeChangeType ==
  ASSUME TypeOK, NEW u \in Reporters, NEW m \in Modes, NEW ip \in ModeIps(u),
         ModeChange(u, m, ip)
  PROVE  TypeOK'
<1>1. Lists /\ Rest
  BY TypeParts
<1>2. u \in Uins /\ u \in Names /\ ip \in Ips
  BY NameAssumption DEF Names, ModeIps, Ips
<1>3. UpdatedList(buddies, u, ip) \in Seq(Contact)
  BY <1>1, <1>2, UpdatedListLemma DEF Lists
<1>4. buddies' \in Seq(Contact)
  <2>1. buddies' = UpdatedList(buddies, u, ip) \/ buddies' = buddy_setmode(UpdatedList(buddies, u, ip), u, m)
    BY DEF ModeChange
  <2> QED
    BY <1>3, <2>1, SetMode
<1>5. queries' \in Seq(Window)
  <2>1. queries' \in UpdatedQueries(buddies, queries, u, ip)
    BY DEF ModeChange
  <2> QED
    BY <1>1, <1>2, <2>1, UpdatedQueriesLemma DEF Lists
<1>6. told' \in [Uins -> Modes \cup {NoMode}] /\ silent' \subseteq Uins
  <2>1. CASE IsNews(UpdatedList(buddies, u, ip), u, m)
    BY <1>1, <2>1 DEF ModeChange, Rest
  <2>2. CASE ~IsNews(UpdatedList(buddies, u, ip), u, m)
    BY <1>1, <2>2 DEF ModeChange, Rest
  <2> QED
    BY <2>1, <2>2
<1>7. Rest'
  BY <1>1, <1>6 DEF ModeChange, Rest
<1> QED
  BY <1>4, <1>5, <1>7, TypeParts DEF Lists

(* ... after a message, ... *)
LEMMA MessageType ==
  ASSUME TypeOK, NEW u \in Reporters, NEW ip \in MessageIps(u), Message(u, ip)
  PROVE  TypeOK'
<1>1. Lists /\ Rest
  BY TypeParts
<1>2. u \in Uins /\ u \in Names /\ ip \in Ips
  BY NameAssumption DEF Names, MessageIps, Ips
<1>3. buddies' \in Seq(Contact)
  BY <1>1, <1>2, UpdatedListLemma DEF Lists, Message
<1> DEFINE n == buddy_getalias(buddies, u)
<1>4. PICK qs \in UpdatedQueries(buddies, queries, u, ip) :
        \/ queries' = qs
        \/ \E q \in Created(buddies', n) : queries' = Append(qs, [q EXCEPT !.peer = u])
  BY DEF Message
<1>5. n \in Names
  BY <1>1, <1>2, LookupType DEF Lists
<1>6. qs \in Seq(Window)
  BY <1>1, <1>2, UpdatedQueriesLemma DEF Lists
<1>7. queries' \in Seq(Window)
  <2> HIDE DEF n
  <2>1. ASSUME NEW q \in Created(buddies', n), queries' = Append(qs, [q EXCEPT !.peer = u])
        PROVE  queries' \in Seq(Window)
    <3>1. q \in Window
      BY <1>3, <1>5, CreatedLemma
    <3>2. [q EXCEPT !.peer = u] \in Window
      BY <1>2, <3>1 DEF Window
    <3> QED
      BY <1>6, <2>1, <3>2
  <2> QED
    BY <1>4, <1>6, <2>1
<1>8. Rest'
  BY <1>1 DEF Message, Rest
<1> QED
  BY <1>3, <1>7, <1>8, TypeParts DEF Lists

(* ... when the user opens or closes a window, ... *)
LEMMA WindowsType ==
  ASSUME TypeOK,
         (\E n \in Names : OpenQuery(n)) \/ (\E i \in 1 .. MaxQueries : CloseQuery(i))
  PROVE  TypeOK'
<1>1. Lists /\ Rest
  BY TypeParts
<1>2. ASSUME NEW n \in Names, OpenQuery(n)
      PROVE  TypeOK'
  <2>1. PICK q \in Created(buddies, n) : queries' = Append(queries, q)
    BY <1>2 DEF OpenQuery
  <2>2. q \in Window
    BY <1>1, CreatedLemma DEF Lists
  <2>3. Lists'
    BY <1>1, <1>2, <2>1, <2>2 DEF OpenQuery, Lists
  <2>4. Rest'
    BY <1>1, <1>2 DEF OpenQuery, Rest, history
  <2> QED
    BY <2>3, <2>4, TypeParts
<1>3. ASSUME NEW i \in 1 .. MaxQueries, CloseQuery(i)
      PROVE  TypeOK'
  <2>1. Lists'
    BY <1>1, <1>3, RemoveLemma DEF CloseQuery, Lists
  <2>2. Rest'
    BY <1>1, <1>3 DEF CloseQuery, Rest, history
  <2> QED
    BY <2>1, <2>2, TypeParts
<1> QED
  BY <1>2, <1>3

(* ... during a save, ... *)
LEMMA SaveType ==
  ASSUME TypeOK, SaveOpen \/ SaveLine \/ SaveClose \/ SaveLost
  PROVE  TypeOK'
<1>1. Lists /\ Rest
  BY TypeParts
<1>e. <<>> \in Seq(Entry)
  OBVIOUS
<1>2. CASE SaveOpen
  <2>1. Saved(buddies) \in Seq(Entry)
    BY <1>1, SavedLemma DEF Lists
  <2>2. Lists'
    BY <1>1, <1>2 DEF SaveOpen, Lists
  <2>3. Rest'
    BY <1>1, <1>2, <1>e, <2>1 DEF SaveOpen, Rest, history
  <2> QED
    BY <2>2, <2>3, TypeParts
<1>3. CASE SaveLine
  <2>1. Head(saving) \in Entry /\ Tail(saving) \in Seq(Entry)
    BY <1>1, <1>3 DEF SaveLine, Rest
  <2>2. file' \in Seq(Entry) /\ saving' \in Seq(Entry)
    BY <1>1, <1>3, <2>1 DEF SaveLine, Rest
  <2>3. Lists'
    BY <1>1, <1>3 DEF SaveLine, Lists
  <2>4. Rest'
    BY <1>1, <1>3, <2>2 DEF SaveLine, Rest, history
  <2> QED
    BY <2>3, <2>4, TypeParts
<1>4. CASE SaveClose
  <2>1. Lists'
    BY <1>1, <1>4 DEF SaveClose, Lists
  <2>2. Rest'
    BY <1>1, <1>4 DEF SaveClose, Rest
  <2> QED
    BY <2>1, <2>2, TypeParts
<1>5. CASE SaveLost
  <2>1. Lists'
    BY <1>1, <1>5 DEF SaveLost, Lists
  <2>2. Rest'
    BY <1>1, <1>5, <1>e DEF SaveLost, Rest
  <2> QED
    BY <2>1, <2>2, TypeParts
<1> QED
  BY <1>2, <1>3, <1>4, <1>5

(* ... and when the file is read. *)
LEMMA ReadType ==
  ASSUME TypeOK, Reread \/ Restart
  PROVE  TypeOK'
<1>1. Lists /\ Rest
  BY TypeParts
<1>2. CASE Reread
  <2>1. PICK f \in Reads : /\ buddies' \in Fresh(Loaded(f)) /\ queries' = Renamed(queries, f)
                           /\ unread' = (f # file)
    BY <1>2 DEF Reread
  <2>2. f \in Seq(Entry)
    BY ReadsLemma
  <2>3. buddies' \in Seq(Contact)
    BY <2>1, <2>2, ReadLemma
  <2>4. queries' \in Seq(Window)
    <3> DEFINE T == Seq(Window)
    <3>1. queries \in T /\ T \in SUBSET Seq(Window)
          /\ \A n \in 1 .. Len(f), ps \in T : RenameStep(f, n, ps) \in T
      BY <1>1, <2>2, RenameStepType DEF Lists
    <3> HIDE DEF T
    <3>2. Renamed(queries, f) \in T
      BY <2>2, <3>1, RenamedInduct
    <3> QED
      BY <2>1, <3>1, <3>2
  <2>5. Rest'
    BY <1>1, <1>2, <2>1 DEF Reread, Rest
  <2> QED
    BY <2>3, <2>4, <2>5, TypeParts DEF Lists
<1>3. CASE Restart
  <2>1. PICK f \in Reads : buddies' \in Fresh(Loaded(f)) /\ unread' = (f # file)
    BY <1>3 DEF Restart
  <2>2. f \in Seq(Entry)
    BY ReadsLemma
  <2>3. buddies' \in Seq(Contact)
    BY <2>1, <2>2, ReadLemma
  <2>4. Lists'
    BY <1>3, <2>3 DEF Restart, Lists
  <2>5. told' \in [Uins -> Modes \cup {NoMode}] /\ <<>> \in Seq(Entry)
    BY <1>3 DEF Restart
  <2>6. Rest'
    BY <1>1, <1>3, <2>1, <2>5 DEF Restart, Rest
  <2> QED
    BY <2>4, <2>6, TypeParts
<1> QED
  BY <1>2, <1>3

(* TypeOK is inductive. *)
LEMMA TypeStep == TypeOK /\ [Next]_vars => TypeOK'
<1> SUFFICES ASSUME TypeOK, [Next]_vars
             PROVE  TypeOK'
  OBVIOUS
<1>1. CASE UNCHANGED vars
  BY <1>1 DEF TypeOK, vars
<1>2. CASE Next
  BY <1>2, AddBuddyType, AnnounceAllType, ModeChangeType, MessageType, WindowsType,
     SaveType, ReadType DEF Next
<1> QED
  BY <1>1, <1>2

(* The list, the windows and the file always hold names of users and modes *)
(* that the plugin can have learnt.                                        *)
THEOREM BuddyTypeOK == Spec => []TypeOK
  BY InitType, TypeStep, PTL DEF Spec

-----------------------------------------------------------------------------
(* ToldTheStoredMode *)

(* Lists with the same users in the same places are searched alike. *)
LEMMA SameUsers ==
  ASSUME NEW l \in Seq(Contact), NEW k \in Seq(Contact), Len(k) = Len(l),
         \A i \in 1 .. Len(l) : k[i].uin = l[i].uin
  PROVE  Listed(k) = Listed(l) /\ \A u : Entries(k, u) = Entries(l, u)
BY DEF Listed, Entries

(* buddy_setmode changes the mode of the number it is given, and no other. *)
LEMMA ModeOfSetMode ==
  ASSUME NEW l \in Seq(Contact), NEW u, NEW m \in Modes, NEW v, v \in Listed(l)
  PROVE  buddy_getmode(buddy_setmode(l, u, m), v) = IF v = u THEN m ELSE buddy_getmode(l, v)
<1> DEFINE k == buddy_setmode(l, u, m)
           f == First(Entries(l, v))
<1>1. /\ k \in Seq(Contact) /\ Len(k) = Len(l)
      /\ \A i \in 1 .. Len(l) :
           /\ k[i].uin = l[i].uin
           /\ k[i].mode = IF Entries(l, u) # {} /\ i = First(Entries(l, u)) THEN m ELSE l[i].mode
  BY SetMode
<1> HIDE DEF k
<1>2. Entries(l, v) # {}
  BY DEF Listed, Entries
<1>3. Entries(k, v) = Entries(l, v)
  BY <1>1, SameUsers
<1>4. f \in 1 .. Len(l) /\ l[f].uin = v
  BY <1>2, EntriesLemma
<1>5. buddy_getmode(k, v) = k[f].mode /\ buddy_getmode(l, v) = l[f].mode
  BY <1>2, <1>3 DEF buddy_getmode
<1>6. CASE v = u
  BY <1>1, <1>2, <1>4, <1>5, <1>6 DEF k
<1>7. CASE v # u
  <2>1. Entries(l, u) # {} => l[First(Entries(l, u))].uin = u
    BY EntriesLemma
  <2>2. ~(Entries(l, u) # {} /\ f = First(Entries(l, u)))
    BY <1>4, <1>7, <2>1
  <2> HIDE DEF f
  <2> QED
    BY <1>1, <1>4, <1>5, <1>7, <2>2 DEF k
<1> QED
  BY <1>6, <1>7

(* New addresses and aliases leave the modes alone. *)
LEMMA ModeOfUpdated ==
  ASSUME NEW l \in Seq(Contact), NEW u \in Names, NEW ip \in Ips, NEW v, v \in Listed(l)
  PROVE  buddy_getmode(UpdatedList(l, u, ip), v) = buddy_getmode(l, v)
<1> DEFINE k == UpdatedList(l, u, ip)
           f == First(Entries(l, v))
<1>1. /\ k \in Seq(Contact) /\ Len(k) = Len(l)
      /\ \A i \in 1 .. Len(l) : k[i].uin = l[i].uin /\ k[i].mode = l[i].mode
  BY UpdatedListLemma
<1> HIDE DEF k
<1>2. Entries(l, v) # {} /\ Entries(k, v) = Entries(l, v)
  BY <1>1, SameUsers DEF Listed, Entries
<1>3. f \in 1 .. Len(l)
  BY <1>2, EntriesLemma
<1> QED
  BY <1>1, <1>2, <1>3 DEF buddy_getmode, k

(* A new entry in front does not hide the entries of others. *)
LEMMA ModeAfterAdd ==
  ASSUME NEW l \in Seq(Contact), NEW e \in Contact,
         NEW v, v \in Listed(<<e>> \o l), v # e.uin
  PROVE  v \in Listed(l) /\ buddy_getmode(<<e>> \o l, v) = buddy_getmode(l, v)
<1> DEFINE k == <<e>> \o l
           f == First(Entries(l, v))
<1>1. k \in Seq(Contact) /\ Len(k) = Len(l) + 1 /\ k[1] = e
      /\ \A i \in 1 .. Len(l) : k[i + 1] = l[i]
  OBVIOUS
<1> HIDE DEF k
<1>n. Len(l) \in Nat
  OBVIOUS
<1>2. \A i \in 1 .. Len(k) : i = 1 \/ (i - 1 \in 1 .. Len(l) /\ k[i] = l[i - 1])
  <2> SUFFICES ASSUME NEW i \in 1 .. Len(k), i # 1
               PROVE  i - 1 \in 1 .. Len(l) /\ k[i] = l[i - 1]
    OBVIOUS
  <2>1. i - 1 \in 1 .. Len(l) /\ i - 1 + 1 = i
    BY <1>1, <1>n
  <2> QED
    BY <1>1, <2>1
<1>3. PICK i \in 1 .. Len(k) : k[i].uin = v
  BY DEF Listed, k
<1>4. Entries(l, v) # {} /\ v \in Listed(l)
  <2>1. i - 1 \in 1 .. Len(l) /\ l[i - 1].uin = v
    BY <1>1, <1>2, <1>3
  <2> QED
    BY <2>1 DEF Entries, Listed
<1>5. f \in 1 .. Len(l) /\ l[f].uin = v /\ \A j \in 1 .. Len(l) : l[j].uin = v => f <= j
  BY <1>4, EntriesLemma
<1>6. f + 1 \in 1 .. Len(k) /\ k[f + 1] = l[f]
  BY <1>1, <1>5, <1>n
<1>7. ASSUME NEW j \in 1 .. Len(k), k[j].uin = v
      PROVE  f + 1 <= j
  <2>1. j - 1 \in 1 .. Len(l) /\ l[j - 1].uin = v
    BY <1>1, <1>2, <1>7
  <2>2. f \in Int /\ f <= j - 1
    BY <1>5, <2>1
  <2> QED
    BY <2>2
<1>8. Entries(k, v) # {} /\ First(Entries(k, v)) = f + 1
  <2>1. k[f + 1].uin = v
    BY <1>5, <1>6
  <2> HIDE DEF f
  <2> QED
    BY <1>1, <1>6, <1>7, <2>1, IsFirst
<1>9. buddy_getmode(k, v) = k[f + 1].mode /\ buddy_getmode(l, v) = l[f].mode
  BY <1>4, <1>8 DEF buddy_getmode
<1> QED
  BY <1>4, <1>6, <1>9 DEF k

(* ToldTheStoredMode is inductive. *)
LEMMA ToldStep == TypeOK /\ ToldTheStoredMode /\ [Next]_vars => ToldTheStoredMode'
<1> SUFFICES ASSUME TypeOK, ToldTheStoredMode, [Next]_vars
             PROVE  ToldTheStoredMode'
  OBVIOUS
<1>1. buddies \in Seq(Contact) /\ buddies' \in Seq(Contact)
  BY TypeStep, TypeParts DEF Lists
<1>2. \A v \in Listed(buddies) \ silent : told[v] = buddy_getmode(buddies, v)
  BY DEF ToldTheStoredMode
<1>3. Listed(buddies') \subseteq Uins
  BY <1>1, ListedType
<1>u. CASE UNCHANGED <<buddies, told, silent>>
  BY <1>2, <1>u DEF ToldTheStoredMode
<1>4. ASSUME NEW p \in Pairs, AddBuddy(p[1], p[2])
      PROVE  ToldTheStoredMode'
  <2> DEFINE e == [uin |-> p[1], alias |-> p[2], mode |-> OFFLINE, ip |-> Junk]
  <2>1. e \in Contact /\ e.uin = p[1]
    BY NameAssumption DEF Contact, Ips
  <2>2. buddies' = <<e>> \o buddies /\ silent' = silent \cup {p[1]} /\ told' = told
    BY <1>4 DEF AddBuddy
  <2> HIDE DEF e
  <2>3. ASSUME NEW v \in Listed(buddies') \ silent'
        PROVE  told'[v] = buddy_getmode(buddies', v)
    <3>1. v \notin silent /\ v # e.uin /\ v \in Listed(<<e>> \o buddies)
      BY <2>1, <2>2, <2>3
    <3>2. v \in Listed(buddies) /\ buddy_getmode(buddies', v) = buddy_getmode(buddies, v)
      BY <1>1, <2>1, <2>2, <3>1, ModeAfterAdd
    <3> QED
      BY <1>2, <2>2, <3>1, <3>2
  <2> QED
    BY <2>3 DEF ToldTheStoredMode
<1>5. CASE AnnounceAll
  <2>1. Listed(buddies') = Listed(buddies)
    <3>1. buddies' = Announced(buddies)
      BY <1>5 DEF AnnounceAll, Announced
    <3> QED
      BY <1>1, <3>1, AnnouncedLemma, SameUsers
  <2> QED
    BY <1>5, <2>1 DEF AnnounceAll, ToldTheStoredMode
<1>6. ASSUME NEW u \in Reporters, NEW m \in Modes, NEW ip \in ModeIps(u), ModeChange(u, m, ip)
      PROVE  ToldTheStoredMode'
  <2> DEFINE l == UpdatedList(buddies, u, ip)
  <2>1. u \in Uins /\ u \in Names /\ ip \in Ips
    BY NameAssumption DEF Names, ModeIps, Ips
  <2>2. l \in Seq(Contact) /\ Listed(l) = Listed(buddies)
    BY <1>1, <2>1, UpdatedListLemma, SameUsers
  <2>3. \A v \in Listed(buddies) : buddy_getmode(l, v) = buddy_getmode(buddies, v)
    BY <1>1, <2>1, ModeOfUpdated
  <2>4. CASE IsNews(l, u, m)
    <3>1. buddies' = buddy_setmode(l, u, m) /\ told' = [told EXCEPT ![u] = m]
          /\ silent' = silent \ {u}
      BY <1>6, <2>4 DEF ModeChange
    <3> HIDE DEF l
    <3>2. Listed(buddies') = Listed(l)
      BY <2>2, <3>1, SetMode, SameUsers
    <3>3. \A v \in Listed(l) :
            buddy_getmode(buddies', v) = IF v = u THEN m ELSE buddy_getmode(l, v)
      BY <2>2, <3>1, ModeOfSetMode
    <3>4. \A v \in Uins : told'[v] = IF v = u THEN m ELSE told[v]
      BY <3>1, <2>1 DEF TypeOK
    <3>5. \A v \in Listed(buddies') \ silent' : told'[v] = buddy_getmode(buddies', v)
      BY <1>2, <1>3, <2>2, <2>3, <3>1, <3>2, <3>3, <3>4
    <3> QED
      BY <3>5 DEF ToldTheStoredMode
  <2>5. CASE ~IsNews(l, u, m)
    <3>1. buddies' = l /\ told' = told /\ silent' = silent
      BY <1>6, <2>5 DEF ModeChange
    <3> HIDE DEF l
    <3> QED
      BY <1>2, <2>2, <2>3, <3>1 DEF ToldTheStoredMode
  <2> QED
    BY <2>4, <2>5
<1>7. ASSUME NEW u \in Reporters, NEW ip \in MessageIps(u), Message(u, ip)
      PROVE  ToldTheStoredMode'
  <2> DEFINE l == UpdatedList(buddies, u, ip)
  <2>1. u \in Names /\ ip \in Ips
    BY NameAssumption DEF Names, MessageIps, Ips
  <2>2. Listed(l) = Listed(buddies)
    BY <1>1, <2>1, UpdatedListLemma, SameUsers
  <2>3. \A v \in Listed(buddies) : buddy_getmode(l, v) = buddy_getmode(buddies, v)
    BY <1>1, <2>1, ModeOfUpdated
  <2>4. buddies' = l /\ told' = told /\ silent' = silent
    BY <1>7 DEF Message
  <2> HIDE DEF l
  <2> QED
    BY <1>2, <2>2, <2>3, <2>4 DEF ToldTheStoredMode
<1>8. CASE Reread \/ Restart
  <2>1. silent' = Uins
    BY <1>8 DEF Reread, Restart
  <2> QED
    BY <1>3, <2>1 DEF ToldTheStoredMode
<1>9. ASSUME \/ \E n \in Names : OpenQuery(n)
             \/ \E i \in 1 .. MaxQueries : CloseQuery(i)
             \/ SaveOpen \/ SaveLine \/ SaveClose \/ SaveLost
             \/ UNCHANGED vars
      PROVE  UNCHANGED <<buddies, told, silent>>
  BY <1>9 DEF OpenQuery, CloseQuery, SaveOpen, SaveLine, SaveClose, SaveLost, history, vars
<1> QED
  BY <1>u, <1>4, <1>5, <1>6, <1>7, <1>8, <1>9 DEF Next

(* Whatever the user was told last about a contact is what the list says,  *)
(* unless the list was overwritten without telling: shadowed entries and   *)
(* ips never disturb it.                                                   *)
THEOREM AlwaysTold == Spec => []ToldTheStoredMode
<1>1. Init => ToldTheStoredMode
  <2> SUFFICES ASSUME Init
               PROVE  ToldTheStoredMode
    OBVIOUS
  <2>1. buddies \in Seq(Contact)
    BY InitType, TypeParts DEF Lists
  <2> QED
    BY <2>1, ListedType DEF Init, ToldTheStoredMode
<1> QED
  BY <1>1, ToldStep, BuddyTypeOK, PTL DEF Spec

-----------------------------------------------------------------------------
(* RoundTrip *)

(* A list that is saved and loaded finds the same aliases and numbers. *)
LEMMA RoundTripLemma ==
  ASSUME NEW l \in Seq(Contact), NEW u, u \in Listed(l) \cap Digits
  PROVE  LET after == Loaded(Saved(l)) IN
         /\ buddy_getalias(after, u) = Clip[buddy_getalias(l, u)]
         /\ ~Shared(l, u) => buddy_getuin(after, buddy_getalias(after, u)) = u
<1> DEFINE s == Saved(l)
           after == Loaded(s)
<1>1. /\ s \in Seq(Entry) /\ Len(s) = Len(l)
      /\ \A i \in 1 .. Len(l) : s[i].uin = l[i].uin /\ s[i].alias = buddy_getalias(l, l[i].uin)
  BY SavedLemma
<1> HIDE DEF s
<1>2. after \in Seq(Entry) /\ Holds(after, s, Len(s))
  BY <1>1, LoadedLemma
<1> HIDE DEF after
(* Every line that is read back: a numeric contact with its first alias. *)
<1>3. ASSUME NEW i \in 1 .. Len(after)
      PROVE  \E j \in 1 .. Len(l) : /\ l[j].uin = after[i].uin /\ l[j].uin \in Digits
                                    /\ after[i].alias = Clip[buddy_getalias(l, l[j].uin)]
  <2>1. PICK j \in 1 .. Len(s) : s[j].uin \in Digits /\ after[i] = Cut(s[j])
    BY <1>2 DEF Holds
  <2>2. s[j] \in Entry
    BY <1>1
  <2>3. after[i].uin = s[j].uin /\ after[i].alias = Clip[s[j].alias]
    BY <2>1, <2>2, CutType
  <2> QED
    BY <1>1, <2>1, <2>3
<1>4. Entries(after, u) # {}
  <2>1. PICK j \in 1 .. Len(l) : l[j].uin = u
    BY DEF Listed
  <2>2. j \in 1 .. Len(s) /\ s[j].uin = u /\ s[j] \in Entry
    BY <1>1, <2>1
  <2>3. PICK i \in 1 .. Len(after) : after[i] = Cut(s[j])
    BY <1>2, <2>2 DEF Holds
  <2>4. after[i].uin = u
    BY <2>2, <2>3, CutType
  <2> QED
    BY <2>4 DEF Entries
<1> DEFINE f == First(Entries(after, u))
<1>5. f \in 1 .. Len(after) /\ after[f].uin = u /\ buddy_getalias(after, u) = after[f].alias
  <2>1. Entries(after, u) \subseteq Nat
    BY DEF Entries
  <2>2. f \in Entries(after, u)
    BY <1>4, <2>1, FirstLemma
  <2> QED
    BY <1>4, <2>2 DEF Entries, buddy_getalias
<1> HIDE DEF f
<1>6. after[f].alias = Clip[buddy_getalias(l, u)]
  BY <1>3, <1>5
<1>7. ASSUME ~Shared(l, u)
      PROVE  buddy_getuin(after, after[f].alias) = u
  <2> DEFINE A == AliasEntries(after, after[f].alias)
             g == First(A)
  <2>1. f \in A /\ A \subseteq Nat
    BY <1>5 DEF AliasEntries
  <2>2. g \in A
    <3> HIDE DEF A
    <3> QED
      BY <2>1, FirstLemma
  <2>3. g \in 1 .. Len(after) /\ Fold[after[g].alias] = Fold[after[f].alias]
    BY <2>2 DEF AliasEntries
  <2>4. buddy_getuin(after, after[f].alias) = after[g].uin
    BY <2>1 DEF buddy_getuin
  <2> HIDE DEF g
  <2>5. PICK j \in 1 .. Len(l) : /\ l[j].uin = after[g].uin /\ l[j].uin \in Digits
                                /\ after[g].alias = Clip[buddy_getalias(l, l[j].uin)]
    BY <1>3, <2>3
  <2>6. Fold[Clip[buddy_getalias(l, l[j].uin)]] = Fold[Clip[buddy_getalias(l, u)]]
    BY <1>6, <2>3, <2>5
  <2>7. l[j].uin = u
    BY <1>7, <2>5, <2>6 DEF Shared
  <2> QED
    BY <2>4, <2>5, <2>7
<1> QED
  BY <1>5, <1>6, <1>7 DEF after, s

(* Whatever the list holds, writing it and reading it again gives every    *)
(* numeric contact back under its current alias, cut to the line length.   *)
THEOREM AlwaysRoundTrip == Spec => []RoundTrip
<1>1. TypeOK => RoundTrip
  <2> SUFFICES ASSUME TypeOK
               PROVE  RoundTrip
    OBVIOUS
  <2>1. buddies \in Seq(Contact)
    BY TypeParts DEF Lists
  <2> QED
    BY <2>1, RoundTripLemma DEF RoundTrip
<1> QED
  BY <1>1, BuddyTypeOK, PTL

-----------------------------------------------------------------------------
(* NothingForgotten *)

(* The numeric users that the lines of a file name. *)
Numbers(s) == {s[i].uin : i \in 1 .. Len(s)} \cap Digits

(* While nothing has gone wrong the file names everybody who was saved;    *)
(* inside a save, what is written and what is still to be written name     *)
(* everybody in the list.                                                  *)
FileInv ==
  /\ pc = "idle" /\ ~torn => kept \subseteq Numbers(file)
  /\ pc = "save" => Listed(buddies) \cap Digits \subseteq Numbers(file) \cup Numbers(saving)
  /\ NothingForgotten

(* Every number in the file is in the list that is read from it. *)
LEMMA NumbersRead ==
  ASSUME NEW f \in Seq(Entry), NEW b \in Fresh(Loaded(f))
  PROVE  Numbers(f) \subseteq Listed(b)
BY ReadLemma DEF Numbers

(* A save writes the numbers in the list. *)
LEMMA NumbersSaved ==
  ASSUME NEW l \in Seq(Contact)
  PROVE  Numbers(Saved(l)) = Listed(l) \cap Digits
<1>1. Len(Saved(l)) = Len(l) /\ \A i \in 1 .. Len(l) : Saved(l)[i].uin = l[i].uin
  BY SavedLemma
<1> QED
  BY <1>1 DEF Numbers, Listed

(* Writing one line moves its number to the file. *)
LEMMA NumbersMoved ==
  ASSUME NEW f \in Seq(Entry), NEW s \in Seq(Entry), s # <<>>
  PROVE  Numbers(f) \cup Numbers(s) = Numbers(Append(f, Head(s))) \cup Numbers(Tail(s))
<1> DEFINE g == Append(f, Head(s))
           t == Tail(s)
<1>1. Len(s) \in Nat /\ Len(f) \in Nat /\ Len(s) # 0 /\ Head(s) = s[1] /\ s[1] \in Entry
  OBVIOUS
<1>2. Len(g) = Len(f) + 1 /\ g[Len(f) + 1] = s[1] /\ \A i \in 1 .. Len(f) : g[i] = f[i]
  BY <1>1
<1>3. Len(t) = Len(s) - 1 /\ \A i \in 1 .. Len(t) : t[i] = s[i + 1]
  OBVIOUS
<1> HIDE DEF g, t
<1>4. ASSUME NEW i \in 1 .. Len(f)
      PROVE  i \in 1 .. Len(g) /\ g[i] = f[i]
  BY <1>1, <1>2
<1>5. ASSUME NEW i \in 1 .. Len(s)
      PROVE  \/ Len(f) + 1 \in 1 .. Len(g) /\ g[Len(f) + 1] = s[i]
             \/ i - 1 \in 1 .. Len(t) /\ t[i - 1] = s[i]
  BY <1>1, <1>2, <1>3
<1>6. ASSUME NEW i \in 1 .. Len(g)
      PROVE  \/ i \in 1 .. Len(f) /\ f[i] = g[i]
             \/ 1 \in 1 .. Len(s) /\ s[1] = g[i]
  BY <1>1, <1>2
<1>7. ASSUME NEW i \in 1 .. Len(t)
      PROVE  i + 1 \in 1 .. Len(s) /\ s[i + 1] = t[i]
  BY <1>1, <1>3
<1>8. Numbers(f) \cup Numbers(s) \subseteq Numbers(g) \cup Numbers(t)
  BY <1>4, <1>5 DEF Numbers
<1>9. Numbers(g) \subseteq Numbers(f) \cup Numbers(s)
  BY <1>6 DEF Numbers
<1>10. Numbers(t) \subseteq Numbers(s)
  BY <1>7 DEF Numbers
<1> QED
  BY <1>8, <1>9, <1>10 DEF g, t

(* FileInv is inductive. *)
LEMMA FileStep == TypeOK /\ FileInv /\ [Next]_vars => FileInv'
<1> SUFFICES ASSUME TypeOK, FileInv, [Next]_vars
             PROVE  FileInv'
  OBVIOUS
<1>1. /\ buddies \in Seq(Contact) /\ buddies' \in Seq(Contact)
      /\ file \in Seq(Entry) /\ saving \in Seq(Entry) /\ pc \in {"idle", "save"}
      /\ kept \subseteq Digits /\ torn \in BOOLEAN
  BY TypeStep, TypeParts DEF Lists, Rest
(* Steps that leave the file alone and forget nobody. *)
<1>2. ASSUME UNCHANGED <<file, saving, pc, kept, torn, unread>>,
             Listed(buddies) \subseteq Listed(buddies'),
             pc = "save" => Listed(buddies') = Listed(buddies)
      PROVE  FileInv'
  BY <1>2 DEF FileInv, NothingForgotten, Numbers
<1>3. ASSUME NEW p \in Pairs, AddBuddy(p[1], p[2])
      PROVE  FileInv'
  <2> DEFINE e == [uin |-> p[1], alias |-> p[2], mode |-> OFFLINE, ip |-> Junk]
  <2>1. e \in Contact
    BY NameAssumption DEF Contact, Ips
  <2>2. buddies' = <<e>> \o buddies
    BY <1>3 DEF AddBuddy
  <2> HIDE DEF e
  <2>3. \A i \in 1 .. Len(buddies) : i + 1 \in 1 .. Len(buddies') /\ buddies'[i + 1] = buddies[i]
    BY <1>1, <2>1, <2>2
  <2>4. Listed(buddies) \subseteq Listed(buddies')
    BY <2>3 DEF Listed
  <2> QED
    BY <1>2, <1>3, <2>4 DEF AddBuddy
<1>4. CASE AnnounceAll
  <2>1. buddies' = Announced(buddies)
    BY <1>4 DEF AnnounceAll, Announced
  <2>2. Listed(buddies') = Listed(buddies)
    BY <1>1, <2>1, AnnouncedLemma, SameUsers
  <2> QED
    BY <1>2, <1>4, <2>2 DEF AnnounceAll
<1>5. ASSUME NEW u \in Reporters, NEW m \in Modes, NEW ip \in ModeIps(u), ModeChange(u, m, ip)
      PROVE  FileInv'
  <2> DEFINE l == UpdatedList(buddies, u, ip)
  <2>1. u \in Names /\ ip \in Ips
    BY NameAssumption DEF Names, ModeIps, Ips
  <2>2. l \in Seq(Contact) /\ Listed(l) = Listed(buddies)
    BY <1>1, <2>1, UpdatedListLemma, SameUsers
  <2>3. buddies' = l \/ buddies' = buddy_setmode(l, u, m)
    BY <1>5 DEF ModeChange
  <2> HIDE DEF l
  <2>4. Listed(buddies') = Listed(buddies)
    BY <2>2, <2>3, SetMode, SameUsers
  <2> QED
    BY <1>2, <1>5, <2>4 DEF ModeChange
<1>6. ASSUME NEW u \in Reporters, NEW ip \in MessageIps(u), Message(u, ip)
      PROVE  FileInv'
  <2>1. u \in Names /\ ip \in Ips
    BY NameAssumption DEF Names, MessageIps, Ips
  <2>2. Listed(buddies') = Listed(buddies)
    BY <1>1, <1>6, <2>1, UpdatedListLemma, SameUsers DEF Message
  <2> QED
    BY <1>2, <1>6, <2>2 DEF Message
<1>7. CASE SaveOpen
  <2>1. Numbers(saving') = Listed(buddies') \cap Digits
    BY <1>1, <1>7, NumbersSaved DEF SaveOpen
  <2> QED
    BY <1>7, <2>1 DEF SaveOpen, FileInv, NothingForgotten, history
<1>8. CASE SaveLine
  <2>1. Numbers(file) \cup Numbers(saving) = Numbers(file') \cup Numbers(saving')
    BY <1>1, <1>8, NumbersMoved DEF SaveLine
  <2> QED
    BY <1>8, <2>1 DEF SaveLine, FileInv, NothingForgotten, history
<1>9. CASE SaveClose
  <2>1. Numbers(saving) = {}
    BY <1>9 DEF SaveClose, Numbers
  <2>2. kept' \subseteq Numbers(file')
    BY <1>9, <2>1 DEF SaveClose, FileInv, Numbers
  <2> QED
    BY <1>9, <2>2 DEF SaveClose, FileInv, NothingForgotten
<1>10. CASE SaveLost
  BY <1>10 DEF SaveLost, FileInv, NothingForgotten
<1>11. CASE Reread \/ Restart
  <2>1. PICK f \in Reads : buddies' \in Fresh(Loaded(f)) /\ unread' = (f # file)
    BY <1>11 DEF Reread, Restart
  <2>2. ~unread' => Numbers(file) \subseteq Listed(buddies')
    <3> SUFFICES ASSUME f = file
                 PROVE  Numbers(file) \subseteq Listed(buddies')
      BY <2>1
    <3>1. buddies' \in Fresh(Loaded(file))
      BY <2>1
    <3> QED
      BY <1>1, <3>1, NumbersRead
  <2>3. pc' = "idle" /\ file' = file /\ kept' = kept /\ (~torn' => ~torn /\ pc = "idle")
    BY <1>1, <1>11 DEF Reread, Restart
  <2>4. ~torn' => kept' \subseteq Numbers(file')
    BY <2>3 DEF FileInv, Numbers
  <2>5. NothingForgotten'
    BY <2>2, <2>3, <2>4 DEF NothingForgotten
  <2> QED
    BY <2>3, <2>4, <2>5 DEF FileInv
<1>12. ASSUME \/ \E n \in Names : OpenQuery(n)
              \/ \E i \in 1 .. MaxQueries : CloseQuery(i)
              \/ UNCHANGED vars
       PROVE  UNCHANGED <<buddies, file, saving, pc, kept, torn, unread>>
  BY <1>12 DEF OpenQuery, CloseQuery, history, vars
<1>13. ASSUME UNCHANGED <<buddies, file, saving, pc, kept, torn, unread>>
       PROVE  FileInv'
  BY <1>2, <1>13
<1> QED
  BY <1>3, <1>4, <1>5, <1>6, <1>7, <1>8, <1>9, <1>10, <1>11, <1>12, <1>13 DEF Next

(* No numeric contact is lost by saving, crashing and reading the file     *)
(* again in any order, as long as the file could be written and read.      *)
THEOREM NeverForgotten == Spec => []NothingForgotten
<1>1. Init => FileInv
  BY DEF Init, FileInv, NothingForgotten
<1>2. FileInv => NothingForgotten
  BY DEF FileInv
<1> QED
  BY <1>1, <1>2, FileStep, BuddyTypeOK, PTL DEF Spec

-----------------------------------------------------------------------------
(* Where names and addresses come from: IpOfItsOwner, NeverMisdelivered    *)
(* and TopicNamesPeer.                                                     *)

(* The user gave u the alias a, or one that the line length cut to a. *)
Known(u, a) == \E e \in Given : u = e.uin /\ a \in {e.alias, Clip[e.alias]}
AllKnown(l) == \A i \in 1 .. Len(l) : Known(l[i].uin, l[i].alias)

(* What is given as names are entries. *)
LEMMA GivenType == Given \subseteq Entry
<1> SUFFICES ASSUME NEW e \in Given
             PROVE  e \in Entry
  OBVIOUS
<1>1. ASSUME NEW p \in Pairs, e = [uin |-> p[1], alias |-> p[2]]
      PROVE  e \in Entry
  BY <1>1, NameAssumption DEF Entry
<1>2. ASSUME NEW f \in Files, NEW i \in 1 .. Len(f), e = f[i]
      PROVE  e \in Entry
  <2>1. f \in Seq(Entry)
    BY NameAssumption
  <2> QED
    BY <1>2, <2>1
<1> QED
  BY <1>1, <1>2 DEF Given

(* Names are bound to users. *)
LEMMA BoundUsers ==
  ASSUME NEW n, NEW u, <<n, u>> \in Bound
  PROVE  u \in Uins
BY GivenType DEF Bound, Entry

(* What is known of an alias is known of what fgets leaves of it. *)
LEMMA KnownLemma ==
  ASSUME NEW u, NEW a, Known(u, a)
  PROVE  <<Fold[a], u>> \in Bound /\ Known(u, Clip[a])
<1>1. PICK e \in Given : u = e.uin /\ a \in {e.alias, Clip[e.alias]}
  BY DEF Known
<1>2. e.alias \in Aliases
  BY GivenType DEF Entry
<1>3. Clip[a] = Clip[e.alias]
  BY <1>1, <1>2, NameAssumption
<1> QED
  BY <1>1, <1>3 DEF Known, Bound

(* The aliases that are given are known. *)
LEMMA KnownGiven ==
  /\ \A p \in Pairs : Known(p[1], p[2])
  /\ \A f \in Files : AllKnown(f)
<1>1. ASSUME NEW p \in Pairs
      PROVE  Known(p[1], p[2])
  <2> DEFINE e == [uin |-> p[1], alias |-> p[2]]
  <2>1. e \in Given /\ e.uin = p[1] /\ e.alias = p[2]
    BY DEF Given
  <2> HIDE DEF e
  <2> QED
    BY <2>1 DEF Known
<1>2. ASSUME NEW f \in Files, NEW i \in 1 .. Len(f)
      PROVE  Known(f[i].uin, f[i].alias)
  <2>1. f[i] \in Given
    BY DEF Given
  <2> QED
    BY <2>1 DEF Known
<1> QED
  BY <1>1, <1>2 DEF AllKnown

(* Reading the file brings no unknown alias ... *)
LEMMA KnownRead ==
  ASSUME NEW f \in Seq(Entry), AllKnown(f), NEW b \in Fresh(Loaded(f))
  PROVE  AllKnown(b)
<1> SUFFICES ASSUME NEW i \in 1 .. Len(b)
             PROVE  Known(b[i].uin, b[i].alias)
  BY DEF AllKnown
<1>1. PICK j \in 1 .. Len(f) : b[i].uin = f[j].uin /\ b[i].alias = Clip[f[j].alias]
  BY ReadLemma
<1> QED
  BY <1>1, KnownLemma DEF AllKnown

(* ... nor does a save, ... *)
LEMMA KnownSaved ==
  ASSUME NEW l \in Seq(Contact), AllKnown(l)
  PROVE  AllKnown(Saved(l))
BY SavedLemma DEF AllKnown

(* ... nor writing one line of it, ... *)
LEMMA KnownMoved ==
  ASSUME NEW f \in Seq(Entry), NEW s \in Seq(Entry), s # <<>>, AllKnown(f), AllKnown(s)
  PROVE  AllKnown(Append(f, Head(s))) /\ AllKnown(Tail(s))
<1> DEFINE g == Append(f, Head(s))
           t == Tail(s)
<1>1. Len(s) \in Nat /\ Len(f) \in Nat /\ Len(s) # 0 /\ Head(s) = s[1] /\ s[1] \in Entry
  OBVIOUS
<1>2. Len(g) = Len(f) + 1 /\ g[Len(f) + 1] = s[1] /\ \A i \in 1 .. Len(f) : g[i] = f[i]
  BY <1>1
<1>3. Len(t) = Len(s) - 1 /\ \A i \in 1 .. Len(t) : t[i] = s[i + 1]
  OBVIOUS
<1> HIDE DEF g, t
<1>4. ASSUME NEW i \in 1 .. Len(g)
      PROVE  \/ i \in 1 .. Len(f) /\ f[i] = g[i]
             \/ 1 \in 1 .. Len(s) /\ s[1] = g[i]
  BY <1>1, <1>2
<1>5. ASSUME NEW i \in 1 .. Len(t)
      PROVE  i + 1 \in 1 .. Len(s) /\ s[i + 1] = t[i]
  BY <1>1, <1>3
<1>6. AllKnown(g)
  BY <1>4 DEF AllKnown
<1>7. AllKnown(t)
  BY <1>5 DEF AllKnown
<1> QED
  BY <1>6, <1>7 DEF g, t

(* ... nor a change of modes and addresses. *)
LEMMA KnownSame ==
  ASSUME NEW l, NEW k, AllKnown(l), Len(k) = Len(l),
         \A i \in 1 .. Len(l) : k[i].uin = l[i].uin /\ k[i].alias = l[i].alias
  PROVE  AllKnown(k)
BY DEF AllKnown

(* A number is never taken for somebody else's alias ... *)
LEMMA NumberIsItself ==
  ASSUME NoNumberTaken, NEW l \in Seq(Contact), AllKnown(l), NEW u \in Uins
  PROVE  buddy_getuin(l, u) = u
<1>1. CASE AliasEntries(l, u) = {}
  BY <1>1 DEF buddy_getuin
<1>2. CASE AliasEntries(l, u) # {}
  <2> DEFINE e == l[First(AliasEntries(l, u))]
  <2>1. First(AliasEntries(l, u)) \in 1 .. Len(l) /\ Fold[e.alias] = Fold[u]
    BY <1>2, AliasEntriesLemma
  <2>2. buddy_getuin(l, u) = e.uin
    BY <1>2 DEF buddy_getuin
  <2>3. <<Fold[e.alias], e.uin>> \in Bound
    BY <2>1, KnownLemma DEF AllKnown
  <2> HIDE DEF e
  <2> QED
    BY <2>1, <2>2, <2>3 DEF NoNumberTaken
<1> QED
  BY <1>1, <1>2

(* ... and the name n stands for the user u: u's alias, or u itself. *)
StandsFor(n, u) == <<Fold[n], u>> \in Bound \/ n = u

(* A search by alias finds a user for whom the name stands ... *)
LEMMA GetuinNamed ==
  ASSUME NEW l \in Seq(Contact), AllKnown(l), NEW n
  PROVE  StandsFor(n, buddy_getuin(l, n))
<1>1. CASE AliasEntries(l, n) = {}
  BY <1>1 DEF buddy_getuin, StandsFor
<1>2. CASE AliasEntries(l, n) # {}
  <2> DEFINE e == l[First(AliasEntries(l, n))]
  <2>1. First(AliasEntries(l, n)) \in 1 .. Len(l) /\ Fold[e.alias] = Fold[n]
    BY <1>2, AliasEntriesLemma
  <2>2. buddy_getuin(l, n) = e.uin
    BY <1>2 DEF buddy_getuin
  <2>3. <<Fold[e.alias], e.uin>> \in Bound
    BY <2>1, KnownLemma DEF AllKnown
  <2> HIDE DEF e
  <2> QED
    BY <2>1, <2>2, <2>3 DEF StandsFor
<1> QED
  BY <1>1, <1>2

(* ... and a search by number a name that stands for the user. *)
LEMMA GetaliasNamed ==
  ASSUME NEW l \in Seq(Contact), AllKnown(l), NEW u
  PROVE  StandsFor(buddy_getalias(l, u), u)
<1>1. CASE Entries(l, u) = {}
  BY <1>1 DEF buddy_getalias, StandsFor
<1>2. CASE Entries(l, u) # {}
  <2> DEFINE e == l[First(Entries(l, u))]
  <2>1. First(Entries(l, u)) \in 1 .. Len(l) /\ e.uin = u
    BY <1>2, EntriesLemma
  <2>2. buddy_getalias(l, u) = e.alias
    BY <1>2 DEF buddy_getalias
  <2>3. <<Fold[e.alias], e.uin>> \in Bound
    BY <2>1, KnownLemma DEF AllKnown
  <2> HIDE DEF e
  <2> QED
    BY <2>1, <2>2, <2>3 DEF StandsFor
<1> QED
  BY <1>1, <1>2

(* Names that are equal up to case stand for one user. *)
LEMMA OneUser ==
  ASSUME Unambiguous, NEW m, NEW n, NEW u \in Uins, NEW v \in Uins,
         StandsFor(m, u), StandsFor(n, v), Fold[m] = Fold[n]
  PROVE  u = v
<1>1. CASE <<Fold[m], u>> \in Bound /\ <<Fold[n], v>> \in Bound
  BY <1>1 DEF Unambiguous
<1>2. CASE <<Fold[m], u>> \in Bound /\ n = v
  BY <1>2 DEF Unambiguous, NoNumberTaken
<1>3. CASE m = u /\ <<Fold[n], v>> \in Bound
  BY <1>3 DEF Unambiguous, NoNumberTaken
<1>4. CASE m = u /\ n = v
  BY <1>4 DEF Unambiguous
<1> QED
  BY <1>1, <1>2, <1>3, <1>4 DEF StandsFor

(* What holds of every open window: its name stands for the user it was    *)
(* opened for, and its address is that user's.                             *)
WindowOK(q) == q.peer \in Uins => StandsFor(q.name, q.peer) /\ q.addr.uin = q.peer
WindowsOK(qs) == \A i \in 1 .. Len(qs) : WindowOK(qs[i])

(* A window that is renamed names the user it belongs to. *)
LEMMA RenamedOK ==
  ASSUME Unambiguous, NEW qs \in Seq(Window), WindowsOK(qs),
         NEW u \in Uins, NEW a \in Names, Known(u, a)
  PROVE  WindowsOK(RenameQuery(qs, u, a))
<1> DEFINE ps == RenameQuery(qs, u, a)
<1>1. /\ ps \in Seq(Window) /\ Len(ps) = Len(qs)
      /\ \A i \in 1 .. Len(qs) :
           /\ ps[i].peer = qs[i].peer /\ ps[i].addr = qs[i].addr
           /\ ps[i].name = qs[i].name \/ (Fold[qs[i].name] = Fold[u] /\ ps[i].name = a)
  BY RenameQueryLemma
<1> HIDE DEF ps
<1>2. ASSUME NEW i \in 1 .. Len(ps), ps[i].peer \in Uins
      PROVE  StandsFor(ps[i].name, ps[i].peer) /\ ps[i].addr.uin = ps[i].peer
  <2>1. StandsFor(qs[i].name, qs[i].peer) /\ qs[i].addr.uin = qs[i].peer
    BY <1>1, <1>2 DEF WindowsOK, WindowOK
  <2>2. CASE ps[i].name = qs[i].name
    BY <1>1, <2>1, <2>2
  <2>3. CASE Fold[qs[i].name] = Fold[u] /\ ps[i].name = a
    <3>1. StandsFor(u, u) /\ qs[i].peer \in Uins
      BY <1>1, <1>2 DEF StandsFor
    <3>2. qs[i].peer = u
      BY <2>1, <2>3, <3>1, OneUser
    <3> QED
      BY <1>1, <2>1, <2>3, <3>2, KnownLemma DEF StandsFor
  <2> QED
    BY <1>1, <2>2, <2>3
<1> QED
  BY <1>2 DEF WindowsOK, WindowOK, ps

(* So do the windows after an update of the addresses ... *)
LEMMA UpdatedOK ==
  ASSUME Unambiguous, NEW l \in Seq(Contact), AllKnown(l), NEW qs \in Seq(Window),
         WindowsOK(qs), NEW u \in Uins, NEW ip \in Ips, NEW ps \in UpdatedQueries(l, qs, u, ip)
  PROVE  WindowsOK(ps)
<1>1. /\ ps \in Seq(Window) /\ Len(ps) = Len(qs)
      /\ \A i \in 1 .. Len(qs) :
           /\ ps[i].peer = qs[i].peer /\ ps[i].name = qs[i].name
           /\ \/ ps[i].addr = qs[i].addr
              \/ /\ Fold[qs[i].name] = Fold[buddy_getalias(l, u)]
                 /\ ps[i].addr.uin \in {buddy_getuin(l, u), qs[i].addr.uin}
  <2>1. u \in Names
    BY DEF Names
  <2> QED
    BY <2>1, UpdatedQueriesLemma
<1>2. ASSUME NEW i \in 1 .. Len(ps), ps[i].peer \in Uins
      PROVE  StandsFor(ps[i].name, ps[i].peer) /\ ps[i].addr.uin = ps[i].peer
  <2>1. StandsFor(qs[i].name, qs[i].peer) /\ qs[i].addr.uin = qs[i].peer
    BY <1>1, <1>2 DEF WindowsOK, WindowOK
  <2>2. CASE ps[i].addr = qs[i].addr
    BY <1>1, <2>1, <2>2
  <2>3. CASE /\ Fold[qs[i].name] = Fold[buddy_getalias(l, u)]
             /\ ps[i].addr.uin \in {buddy_getuin(l, u), qs[i].addr.uin}
    <3>1. buddy_getuin(l, u) = u
      BY NumberIsItself DEF Unambiguous
    <3>2. StandsFor(buddy_getalias(l, u), u) /\ qs[i].peer \in Uins
      BY <1>1, <1>2, GetaliasNamed
    <3>3. qs[i].peer = u
      BY <2>1, <2>3, <3>2, OneUser
    <3> QED
      BY <1>1, <2>1, <2>3, <3>1, <3>3
  <2> QED
    BY <1>1, <2>2, <2>3
<1> QED
  BY <1>2 DEF WindowsOK, WindowOK

(* ... and a window that is created. *)
LEMMA CreatedOK ==
  ASSUME NEW l \in Seq(Contact), AllKnown(l), NEW n \in Names, NEW q \in Created(l, n)
  PROVE  WindowOK(q)
<1>1. q.name = n /\ q.peer = buddy_getuin(l, n) /\ q.addr.uin = buddy_getuin(l, n)
  BY CreatedLemma
<1>2. StandsFor(n, buddy_getuin(l, n))
  BY GetuinNamed
<1> QED
  BY <1>1, <1>2 DEF WindowOK

(* The window that an incoming message opens. *)
LEMMA MessageOK ==
  ASSUME Unambiguous, NEW l \in Seq(Contact), AllKnown(l), NEW k \in Seq(Contact),
         Len(k) = Len(l),
         \A i \in 1 .. Len(l) : k[i].uin = l[i].uin /\ k[i].alias = l[i].alias,
         NEW u \in Uins, NEW q \in Created(k, buddy_getalias(l, u))
  PROVE  WindowOK([q EXCEPT !.peer = u])
<1> DEFINE n == buddy_getalias(l, u)
           v == buddy_getuin(k, n)
<1>0. u \in Names
  BY DEF Names
<1>1. n \in Names
  BY <1>0, LookupType
<1>2. q \in Window /\ q.name = n /\ q.addr.uin = v
  BY <1>1, CreatedLemma
<1>3. StandsFor(n, u)
  BY GetaliasNamed
<1>4. AllKnown(k)
  BY KnownSame
<1>5. StandsFor(n, v)
  BY <1>4, GetuinNamed
<1>6. v = u
  <2>1. CASE <<Fold[n], v>> \in Bound
    <3> HIDE DEF n, v
    <3> QED
      BY <1>3, <1>5, <2>1, BoundUsers, OneUser
  <2>2. CASE n = u
    BY <1>4, <2>2, NumberIsItself DEF Unambiguous
  <2>3. CASE n = v /\ n # u
    <3>1. Entries(l, u) # {}
      BY <2>3 DEF buddy_getalias
    <3> DEFINE f == First(Entries(l, u))
    <3>2. f \in 1 .. Len(l) /\ n = l[f].alias
      BY <3>1, EntriesLemma DEF buddy_getalias
    <3>3. AliasEntries(k, n) # {}
      BY <3>2 DEF AliasEntries
    <3> DEFINE g == First(AliasEntries(k, n))
    <3>4. g \in 1 .. Len(k) /\ Fold[k[g].alias] = Fold[n] /\ v = k[g].uin
      BY <3>3, AliasEntriesLemma DEF buddy_getuin
    <3>5. <<Fold[n], v>> \in Bound
      <4> HIDE DEF g, n, v
      <4>1. Known(k[g].uin, k[g].alias)
        BY <1>4, <3>4 DEF AllKnown
      <4>2. <<Fold[k[g].alias], k[g].uin>> \in Bound
        BY <4>1, KnownLemma
      <4> QED
        BY <3>4, <4>2
    <3> QED
      BY <2>1, <3>5
  <2> QED
    BY <1>5, <2>1, <2>2, <2>3 DEF StandsFor
<1> DEFINE w == [q EXCEPT !.peer = u]
<1>7. w.name = q.name /\ w.addr = q.addr /\ w.peer = u
  BY <1>2 DEF Window
<1> HIDE DEF w, n, v
<1>8. WindowOK(w)
  BY <1>2, <1>3, <1>6, <1>7 DEF WindowOK
<1> QED
  BY <1>8 DEF w

(* One more window that is in order leaves the windows in order. *)
LEMMA AppendedOK ==
  ASSUME NEW qs \in Seq(Window), WindowsOK(qs), NEW q \in Window, WindowOK(q)
  PROVE  WindowsOK(Append(qs, q))
<1> DEFINE ps == Append(qs, q)
<1>1. Len(ps) = Len(qs) + 1 /\ ps[Len(qs) + 1] = q /\ \A i \in 1 .. Len(qs) : ps[i] = qs[i]
  OBVIOUS
<1>2. \A i \in 1 .. Len(ps) : i \in 1 .. Len(qs) \/ i = Len(qs) + 1
  BY <1>1
<1> HIDE DEF ps
<1>3. WindowsOK(ps)
  BY <1>1, <1>2 DEF WindowsOK
<1> QED
  BY <1>3 DEF ps

IpsOwned(l) == \A i \in 1 .. Len(l) : l[i].ip \in {NoIp, Junk, l[i].uin}

(* An update stores the address with its owner. *)
LEMMA OwnedUpdated ==
  ASSUME NoNumberTaken, NEW l \in Seq(Contact), AllKnown(l), IpsOwned(l),
         NEW u \in Uins, NEW ip \in Ips, ip \in {u, Junk, NoIp}
  PROVE  IpsOwned(UpdatedList(l, u, ip))
<1>1. u \in Names
  BY DEF Names
<1>2. buddy_getuin(l, u) = u
  BY NumberIsItself
<1>3. LET k == UpdatedList(l, u, ip)
      IN  /\ Len(k) = Len(l)
          /\ \A i \in 1 .. Len(l) :
               /\ k[i].uin = l[i].uin
               /\ k[i].ip = l[i].ip \/ (l[i].uin = u /\ k[i].ip = ip)
  BY <1>1, <1>2, UpdatedListLemma
<1> QED
  BY <1>3 DEF IpsOwned

(* All names in the list and in the file are names the user gave; under    *)
(* the assumptions about them, addresses and windows are their users'.     *)
NamesInv ==
  /\ AllKnown(buddies) /\ AllKnown(file) /\ AllKnown(saving)
  /\ NoNumberTaken => IpsOwned(buddies)
  /\ Unambiguous => WindowsOK(queries)

(* NamesInv holds initially ... *)
LEMMA NamesInit == Init => NamesInv
<1> SUFFICES ASSUME Init
             PROVE  NamesInv
  OBVIOUS
<1>1. file \in Seq(Entry) /\ AllKnown(file)
  BY NameAssumption, KnownGiven DEF Init
<1>2. PICK f \in Reads : buddies \in Fresh(Loaded(f))
  BY DEF Init
<1>3. f \in {file, <<>>} /\ <<>> \in Seq(Entry) /\ AllKnown(<<>>)
  BY <1>2 DEF Reads, AllKnown
<1>4. f \in Seq(Entry) /\ AllKnown(f)
  BY <1>1, <1>3
<1>5. AllKnown(buddies) /\ IpsOwned(buddies)
  BY <1>2, <1>4, KnownRead, ReadLemma DEF IpsOwned
<1>6. saving = <<>> /\ queries = <<>>
  BY DEF Init
<1> QED
  BY <1>1, <1>3, <1>5, <1>6 DEF NamesInv, WindowsOK

(* ... is inductive ... *)
LEMMA NamesStep == TypeOK /\ NamesInv /\ [Next]_vars => NamesInv'
<1> SUFFICES ASSUME TypeOK, NamesInv, [Next]_vars
             PROVE  NamesInv'
  OBVIOUS
<1>1. /\ buddies \in Seq(Contact) /\ buddies' \in Seq(Contact) /\ queries \in Seq(Window)
      /\ file \in Seq(Entry) /\ saving \in Seq(Entry)
  BY TypeStep, TypeParts DEF Lists, Rest
<1>2. /\ AllKnown(buddies) /\ AllKnown(file) /\ AllKnown(saving)
      /\ NoNumberTaken => IpsOwned(buddies)
      /\ Unambiguous => WindowsOK(queries)
  BY DEF NamesInv
<1>n. Unambiguous => NoNumberTaken
  BY DEF Unambiguous
<1>3. ASSUME NEW p \in Pairs, AddBuddy(p[1], p[2])
      PROVE  NamesInv'
  <2> DEFINE e == [uin |-> p[1], alias |-> p[2], mode |-> OFFLINE, ip |-> Junk]
  <2>1. e \in Contact /\ e.uin = p[1] /\ e.alias = p[2] /\ e.ip = Junk
    BY NameAssumption DEF Contact, Ips
  <2>2. p[1] \in Uins /\ p[2] \in Names /\ Known(p[1], p[2])
    BY NameAssumption, KnownGiven DEF Names
  <2>3. buddies' = <<e>> \o buddies
    BY <1>3 DEF AddBuddy
  <2> HIDE DEF e
  <2>4. ASSUME NEW i \in 1 .. Len(buddies')
        PROVE  buddies'[i] = e \/ (i - 1 \in 1 .. Len(buddies) /\ buddies'[i] = buddies[i - 1])
    BY <1>1, <2>1, <2>3
  <2>5. AllKnown(buddies')
    BY <1>2, <2>1, <2>2, <2>4 DEF AllKnown
  <2>6. IpsOwned(buddies) => IpsOwned(buddies')
    BY <2>1, <2>4 DEF IpsOwned
  <2>7. Unambiguous => WindowsOK(queries')
    BY <1>1, <1>2, <1>3, <2>2, RenamedOK DEF AddBuddy
  <2> QED
    BY <1>2, <1>3, <2>5, <2>6, <2>7 DEF AddBuddy, NamesInv
<1>4. CASE AnnounceAll
  <2>1. buddies' = Announced(buddies)
    BY <1>4 DEF AnnounceAll, Announced
  <2>2. AllKnown(buddies') /\ (IpsOwned(buddies) => IpsOwned(buddies'))
    BY <1>1, <1>2, <2>1, AnnouncedLemma, KnownSame DEF IpsOwned
  <2> QED
    BY <1>2, <1>4, <2>2 DEF AnnounceAll, NamesInv
<1>5. ASSUME NEW u \in Reporters, NEW m \in Modes, NEW ip \in ModeIps(u), ModeChange(u, m, ip)
      PROVE  NamesInv'
  <2> DEFINE l == UpdatedList(buddies, u, ip)
  <2>1. u \in Uins /\ u \in Names /\ ip \in Ips /\ ip \in {u, Junk, NoIp}
    BY NameAssumption DEF Names, ModeIps, Ips
  <2>2. l \in Seq(Contact) /\ AllKnown(l)
    BY <1>1, <1>2, <2>1, UpdatedListLemma, KnownSame
  <2>3. NoNumberTaken => IpsOwned(l)
    BY <1>1, <1>2, <2>1, OwnedUpdated
  <2>4. buddies' = l \/ buddies' = buddy_setmode(l, u, m)
    BY <1>5 DEF ModeChange
  <2> HIDE DEF l
  <2>5. AllKnown(buddies') /\ (IpsOwned(l) => IpsOwned(buddies'))
    BY <2>2, <2>4, SetMode, KnownSame DEF IpsOwned
  <2>6. Unambiguous => WindowsOK(queries')
    <3>1. queries' \in UpdatedQueries(buddies, queries, u, ip)
      BY <1>5 DEF ModeChange
    <3> QED
      BY <1>1, <1>2, <2>1, <3>1, UpdatedOK
  <2>7. file' = file /\ saving' = saving
    BY <1>5 DEF ModeChange
  <2> QED
    BY <1>2, <2>3, <2>5, <2>6, <2>7 DEF NamesInv
<1>6. ASSUME NEW u \in Reporters, NEW ip \in MessageIps(u), Message(u, ip)
      PROVE  NamesInv'
  <2> DEFINE n == buddy_getalias(buddies, u)
  <2>1. u \in Uins /\ u \in Names /\ ip \in Ips /\ ip \in {u, Junk, NoIp}
    BY NameAssumption DEF Names, MessageIps, Ips
  <2>2. /\ Len(buddies') = Len(buddies) /\ AllKnown(buddies')
        /\ \A i \in 1 .. Len(buddies) : buddies'[i].uin = buddies[i].uin
                                        /\ buddies'[i].alias = buddies[i].alias
    BY <1>1, <1>2, <1>6, <2>1, UpdatedListLemma, KnownSame DEF Message
  <2>3. NoNumberTaken => IpsOwned(buddies')
    BY <1>1, <1>2, <1>6, <2>1, OwnedUpdated DEF Message
  <2>4. PICK qs \in UpdatedQueries(buddies, queries, u, ip) :
          \/ queries' = qs
          \/ \E q \in Created(buddies', n) : queries' = Append(qs, [q EXCEPT !.peer = u])
    BY <1>6 DEF Message
  <2>5. qs \in Seq(Window) /\ n \in Names
    BY <1>1, <2>1, UpdatedQueriesLemma, LookupType
  <2>6. ASSUME Unambiguous
        PROVE  WindowsOK(queries')
    <3>1. WindowsOK(qs)
      BY <1>1, <1>2, <2>1, <2>6, UpdatedOK
    <3>2. ASSUME NEW q \in Created(buddies', n), queries' = Append(qs, [q EXCEPT !.peer = u])
          PROVE  WindowsOK(queries')
      <4> DEFINE w == [q EXCEPT !.peer = u]
      <4>1. WindowOK(w)
        BY <1>1, <1>2, <2>1, <2>2, <2>6, MessageOK
      <4>2. q \in Window
        <5> HIDE DEF n
        <5> QED
          BY <1>1, <2>5, CreatedLemma
      <4>3. w \in Window
        BY <2>1, <4>2 DEF Window
      <4> HIDE DEF w, n
      <4>4. WindowsOK(Append(qs, w))
        BY <2>5, <3>1, <4>1, <4>3, AppendedOK
      <4> QED
        BY <3>2, <4>4 DEF w
    <3> QED
      BY <2>4, <3>1, <3>2
  <2>7. file' = file /\ saving' = saving
    BY <1>6 DEF Message
  <2> QED
    BY <1>2, <2>2, <2>3, <2>6, <2>7 DEF NamesInv
<1>7. ASSUME NEW n \in Names, OpenQuery(n)
      PROVE  NamesInv'
  <2>1. PICK q \in Created(buddies, n) : queries' = Append(queries, q)
    BY <1>7 DEF OpenQuery
  <2>2. q \in Window /\ WindowOK(q)
    BY <1>1, <1>2, CreatedLemma, CreatedOK
  <2>3. Unambiguous => WindowsOK(queries')
    BY <1>1, <1>2, <2>1, <2>2, AppendedOK
  <2> QED
    BY <1>2, <1>7, <2>3 DEF OpenQuery, NamesInv
<1>8. ASSUME NEW i \in 1 .. MaxQueries, CloseQuery(i)
      PROVE  NamesInv'
  <2>1. WindowsOK(queries) => WindowsOK(queries')
    BY <1>1, <1>8, RemoveLemma DEF CloseQuery, WindowsOK
  <2> QED
    BY <1>2, <1>8, <2>1 DEF CloseQuery, NamesInv
<1>9. CASE SaveOpen
  <2>1. AllKnown(saving') /\ AllKnown(file')
    BY <1>1, <1>2, <1>9, KnownSaved DEF SaveOpen, AllKnown
  <2> QED
    BY <1>2, <1>9, <2>1 DEF SaveOpen, NamesInv
<1>10. CASE SaveLine
  <2>1. AllKnown(saving') /\ AllKnown(file')
    BY <1>1, <1>2, <1>10, KnownMoved DEF SaveLine
  <2> QED
    BY <1>2, <1>10, <2>1 DEF SaveLine, NamesInv
<1>11. CASE SaveClose
  BY <1>2, <1>11 DEF SaveClose, NamesInv
<1>12. CASE SaveLost
  BY <1>2, <1>12 DEF SaveLost, NamesInv, AllKnown
<1>13. CASE Reread \/ Restart
  <2>1. PICK f \in Reads : /\ buddies' \in Fresh(Loaded(f))
                           /\ queries' = Renamed(queries, f) \/ queries' = <<>>
    BY <1>13 DEF Reread, Restart
  <2>2. f \in {file, <<>>} /\ <<>> \in Seq(Entry) /\ AllKnown(<<>>)
    BY <2>1 DEF Reads, AllKnown
  <2>3. f \in Seq(Entry) /\ AllKnown(f)
    BY <1>1, <1>2, <2>2
  <2>4. AllKnown(buddies') /\ IpsOwned(buddies')
    <3>0. f \in Seq(Entry) /\ AllKnown(f) /\ buddies' \in Fresh(Loaded(f))
      BY <2>1, <2>3
    <3>1. AllKnown(buddies')
      BY <3>0, KnownRead
    <3>2. \A i \in 1 .. Len(buddies') : buddies'[i].ip = Junk
      BY <3>0, ReadLemma
    <3> QED
      BY <3>1, <3>2 DEF IpsOwned
  <2>5. ASSUME Unambiguous
        PROVE  WindowsOK(queries')
    <3> DEFINE T == {qs \in Seq(Window) : WindowsOK(qs)}
    <3>1. queries \in T /\ T \in SUBSET Seq(Window)
      BY <1>1, <1>2, <2>5
    <3>2. ASSUME NEW n \in 1 .. Len(f), NEW qs \in T
          PROVE  RenameStep(f, n, qs) \in T
      <4>1. f[n] \in Entry /\ Cut(f[n]) \in Entry
        BY <2>3, CutType
      <4>2. f[n].uin \in Uins /\ Cut(f[n]).alias \in Names
        BY <4>1 DEF Entry, Names
      <4>3. Known(f[n].uin, Cut(f[n]).alias)
        BY <2>3, <4>1, CutType, KnownLemma DEF AllKnown
      <4>4. RenameStep(f, n, qs) \in Seq(Window)
        BY <2>3, RenameStepType
      <4>5. WindowsOK(RenameStep(f, n, qs))
        BY <2>5, <4>2, <4>3, RenamedOK DEF RenameStep
      <4> QED
        BY <4>4, <4>5
    <3> HIDE DEF T
    <3>3. Renamed(queries, f) \in T
      BY <2>3, <3>1, <3>2, RenamedInduct
    <3>4. WindowsOK(Renamed(queries, f))
      BY <3>3 DEF T
    <3>5. WindowsOK(<<>>)
      BY DEF WindowsOK
    <3> QED
      BY <2>1, <3>4, <3>5
  <2>6. file' = file /\ (saving' = saving \/ saving' = <<>>)
    BY <1>13 DEF Reread, Restart
  <2> QED
    BY <1>2, <2>2, <2>4, <2>5, <2>6 DEF NamesInv
<1>14. CASE UNCHANGED vars
  BY <1>2, <1>14 DEF vars, NamesInv
<1> QED
  BY <1>3, <1>4, <1>5, <1>6, <1>7, <1>8, <1>9, <1>10, <1>11, <1>12, <1>13, <1>14 DEF Next

(* ... and so an invariant. *)
LEMMA AlwaysNames == Spec => []NamesInv
  BY NamesInit, NamesStep, BuddyTypeOK, PTL DEF Spec

(* Addresses are never mixed up between contacts, whatever aliases they    *)
(* share.                                                                  *)
THEOREM AlwaysOwnIp == Spec => []IpOfItsOwner
<1>1. NamesInv => IpOfItsOwner
  BY DEF NamesInv, IpsOwned, IpOfItsOwner
<1> QED
  BY <1>1, AlwaysNames, PTL

(* A window's topic never shows the address of a third user.               *)
THEOREM AlwaysTopicOfPeer == Spec => []TopicNamesPeer
<1>1. NamesInv => TopicNamesPeer
  BY DEF NamesInv, WindowsOK, WindowOK, TopicNamesPeer
<1> QED
  BY <1>1, AlwaysNames, PTL

(* Nothing typed into a window is ever delivered to a third user.          *)
THEOREM AlwaysDelivered == Spec => []NeverMisdelivered
<1>1. ASSUME TypeOK, NamesInv
      PROVE  NeverMisdelivered
  <2> SUFFICES ASSUME Unambiguous, NEW i \in 1 .. Len(queries), queries[i].peer \in Uins
               PROVE  buddy_getuin(buddies, queries[i].name) \in {queries[i].peer, queries[i].name}
    BY DEF NeverMisdelivered
  <2> DEFINE n == queries[i].name
             v == buddy_getuin(buddies, n)
  <2>1. StandsFor(n, queries[i].peer)
    BY <1>1 DEF NamesInv, WindowsOK, WindowOK
  <2>2. StandsFor(n, v)
    BY <1>1, GetuinNamed, TypeParts DEF NamesInv, Lists
  <2>3. CASE <<Fold[n], v>> \in Bound
    <3>1. v \in Uins
      BY <2>3, BoundUsers
    <3> HIDE DEF n, v
    <3>2. queries[i].peer = v
      BY <2>1, <2>2, <3>1, OneUser
    <3> QED
      BY <3>2 DEF n, v
  <2> QED
    BY <2>2, <2>3 DEF StandsFor
<1> QED
  BY <1>1, AlwaysNames, BuddyTypeOK, PTL
=============================================================================
