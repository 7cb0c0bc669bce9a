----------------------------- MODULE Ssi_proofs -----------------------------
(***************************************************************************)
(* Proofs about the server-stored contact list, for all names, lists at    *)
(* login, items of another client and bounds: the types, that an awaited   *)
(* ack is on its way, and that the official list is the server's.          *)
(***************************************************************************)
EXTENDS Ssi, Induction

-----------------------------------------------------------------------------
(* Positions in a list. *)

(* FirstOf is a member of the set, and 0 if there is none. *)
LEMMA FirstOfLemma ==
  ASSUME NEW set, set \subseteq Nat \ {0}
  PROVE  /\ FirstOf(set) \in set \cup {0}
         /\ FirstOf(set) = 0 <=> set = {}
         /\ \A k \in set : FirstOf(set) <= k
<1>1. CASE set = {}
  BY <1>1 DEF FirstOf
<1>2. CASE set # {}
  <2>1. \E x \in set : \A y \in set : x <= y
    BY <1>2, LeastElement
  <2>2. Min(set) \in set /\ \A y \in set : Min(set) <= y
    BY <2>1 DEF Min
  <2> QED
    BY <1>2, <2>2 DEF FirstOf
<1> QED
  BY <1>1, <1>2

(* Rank counts the positions up to k: it maps at one to one to             *)
(* 1 .. Cardinality(at), in ascending order.                               *)
LEMMA RankLemma ==
  ASSUME NEW at, at \subseteq Nat, IsFiniteSet(at)
  PROVE  /\ Cardinality(at) \in Nat
         /\ \A k \in at : Rank(at, k) \in 1 .. Cardinality(at)
         /\ \A k, m \in at : k < m => Rank(at, k) < Rank(at, m)
         /\ \A n \in 1 .. Cardinality(at) : \E k \in at : Rank(at, k) = n
<1> DEFINE Upto(k) == {m \in at : m <= k}
<1>1. Cardinality(at) \in Nat
  BY FS_CardinalityType
<1>2. \A k \in at : Upto(k) \subseteq at /\ k \in Upto(k)
  OBVIOUS
<1>3. \A k \in at : IsFiniteSet(Upto(k)) /\ Cardinality(Upto(k)) \in 1 .. Cardinality(at)
  <2> SUFFICES ASSUME NEW k \in at
               PROVE  IsFiniteSet(Upto(k)) /\ Cardinality(Upto(k)) \in 1 .. Cardinality(at)
    OBVIOUS
  <2> HIDE DEF Upto
  <2>1. IsFiniteSet(Upto(k)) /\ Cardinality(Upto(k)) <= Cardinality(at)
    BY <1>2, FS_Subset
  <2>2. Cardinality(Upto(k)) \in Nat /\ Cardinality(Upto(k)) # 0
    BY <1>2, <2>1, FS_CardinalityType, FS_EmptySet
  <2> QED
    BY <1>1, <2>1, <2>2
<1>4. \A k, m \in at : k < m => Cardinality(Upto(k)) < Cardinality(Upto(m))
  <2> SUFFICES ASSUME NEW k \in at, NEW m \in at, k < m
               PROVE  Cardinality(Upto(k)) < Cardinality(Upto(m))
    OBVIOUS
  <2>a. k \in Nat /\ m \in Nat /\ \A x \in at : x \in Nat /\ (x <= k => x <= m)
    OBVIOUS
  <2>b. ~(m <= k) /\ m <= m
    BY <2>a
  <2>1. Upto(k) \subseteq Upto(m) /\ m \notin Upto(k) /\ m \in Upto(m)
    BY <2>a, <2>b, Zenon
  <2> HIDE DEF Upto
  <2>2. /\ Cardinality(Upto(k)) <= Cardinality(Upto(m))
        /\ Cardinality(Upto(k)) # Cardinality(Upto(m))
    BY <1>3, <2>1, FS_Subset
  <2>3. Cardinality(Upto(k)) \in Nat /\ Cardinality(Upto(m)) \in Nat
    BY <1>1, <1>3
  <2> QED
    BY <2>2, <2>3
<1>5. \A k \in at : Rank(at, k) = Cardinality(Upto(k))
  BY DEF Rank
<1> HIDE DEF Upto
<1>6. /\ \A k \in at : Rank(at, k) \in 1 .. Cardinality(at)
      /\ \A k, m \in at : k < m => Rank(at, k) < Rank(at, m)
  BY <1>3, <1>4, <1>5
<1>7. \A n \in 1 .. Cardinality(at) : \E k \in at : Rank(at, k) = n
  <2> DEFINE N == Cardinality(at)
             f == [k \in at |-> Rank(at, k)]
  <2>1. IsFiniteSet(1 .. N) /\ Cardinality(1 .. N) = N
    BY <1>1, FS_Interval
  <2>2. f \in Injection(at, 1 .. N)
    <3>1. f \in [at -> 1 .. N]
      BY <1>6
    <3>2. \A k, m \in at : f[k] = f[m] => k = m
      <4> SUFFICES ASSUME NEW k \in at, NEW m \in at, Rank(at, k) = Rank(at, m), k # m
                   PROVE  FALSE
        OBVIOUS
      <4>1. k < m \/ m < k
        OBVIOUS
      <4>2. Rank(at, k) \in Int /\ Rank(at, m) \in Int
        BY <1>1, <1>6
      <4> QED
        BY <1>6, <4>1, <4>2
    <3> QED
      BY <3>1, <3>2 DEF Injection, IsInjective
  <2>3. f \in Surjection(at, 1 .. N)
    <3> HIDE DEF f, N
    <3> QED
      BY <2>1, <2>2, FS_Injection DEF N
  <2> QED
    BY <2>3 DEF Surjection
<1> QED
  BY <1>1, <1>6, <1>7

(* Ascending lists the positions at, each once, in ascending order. *)
LEMMA AscendingLemma ==
  ASSUME NEW at, at \subseteq Nat, IsFiniteSet(at)
  PROVE  /\ Cardinality(at) \in Nat
         /\ Ascending(at) \in [1 .. Cardinality(at) -> at]
         /\ \A n \in 1 .. Cardinality(at) : Rank(at, Ascending(at)[n]) = n
         /\ \A k \in at : Rank(at, k) \in 1 .. Cardinality(at) /\ Ascending(at)[Rank(at, k)] = k
<1> DEFINE N == Cardinality(at)
<1>1. /\ N \in Nat
      /\ \A k \in at : Rank(at, k) \in 1 .. N
      /\ \A k, m \in at : k < m => Rank(at, k) < Rank(at, m)
      /\ \A n \in 1 .. N : \E k \in at : Rank(at, k) = n
  BY RankLemma
<1>2. DOMAIN Ascending(at) = 1 .. N
      /\ \A n \in 1 .. N : Ascending(at)[n] = CHOOSE k \in at : Rank(at, k) = n
  BY DEF Ascending
<1> HIDE DEF N
<1>3. \A n \in 1 .. N : Ascending(at)[n] \in at /\ Rank(at, Ascending(at)[n]) = n
  BY <1>1, <1>2
<1>4. Ascending(at) \in [1 .. N -> at]
  <2>1. Ascending(at) = [n \in 1 .. N |-> Ascending(at)[n]]
    BY DEF Ascending, N
  <2> QED
    BY <1>3, <2>1
<1>5. \A k, m \in at : Rank(at, k) = Rank(at, m) => k = m
  <2> SUFFICES ASSUME NEW k \in at, NEW m \in at, Rank(at, k) = Rank(at, m), k # m
               PROVE  FALSE
    OBVIOUS
  <2>1. k \in Nat /\ m \in Nat
    OBVIOUS
  <2>2. k < m \/ m < k
    BY <2>1
  <2>3. Rank(at, k) \in Int /\ Rank(at, m) \in Int
    BY <1>1
  <2> QED
    BY <1>1, <2>2, <2>3
<1>6. \A k \in at : Rank(at, k) \in 1 .. N /\ Ascending(at)[Rank(at, k)] = k
  BY <1>1, <1>3, <1>5
<1> QED
  BY <1>1, <1>3, <1>4, <1>6 DEF N

(* Chosen keeps what stands at the positions: each once, nothing else. *)
LEMMA ChosenLemma ==
  ASSUME NEW X, NEW list \in Seq(X), NEW at, at \subseteq DOMAIN list
  PROVE  /\ Chosen(list, at) \in Seq(X)
         /\ Len(Chosen(list, at)) = Cardinality(at)
         /\ Ascending(at) \in [1 .. Len(Chosen(list, at)) -> at]
         /\ \A n \in 1 .. Len(Chosen(list, at)) : Chosen(list, at)[n] = list[Ascending(at)[n]]
         /\ \A n, m \in 1 .. Len(Chosen(list, at)) :
              Ascending(at)[n] = Ascending(at)[m] => n = m
         /\ \A k \in at : \E n \in 1 .. Len(Chosen(list, at)) : Ascending(at)[n] = k
<1> DEFINE N == Cardinality(at)
           A == Ascending(at)
<1>1. at \subseteq Nat /\ IsFiniteSet(at)
  <2>1. DOMAIN list = 1 .. Len(list) /\ Len(list) \in Nat
    OBVIOUS
  <2>2. IsFiniteSet(1 .. Len(list))
    BY <2>1, FS_Interval
  <2> QED
    BY <2>1, <2>2, FS_Subset
<1>2. /\ N \in Nat /\ A \in [1 .. N -> at]
      /\ \A n \in 1 .. N : Rank(at, A[n]) = n
      /\ \A k \in at : Rank(at, k) \in 1 .. N /\ A[Rank(at, k)] = k
  BY <1>1, AscendingLemma
<1>3. Chosen(list, at) = [n \in 1 .. N |-> list[A[n]]]
  BY DEF Chosen
<1> HIDE DEF N, A
<1>4. \A n \in 1 .. N : list[A[n]] \in X
  BY <1>2
<1>5. Chosen(list, at) \in Seq(X) /\ Len(Chosen(list, at)) = N
  BY <1>2, <1>3, <1>4
<1>6. \A n \in 1 .. N : Chosen(list, at)[n] = list[A[n]]
  BY <1>3
<1>7. \A n, m \in 1 .. N : A[n] = A[m] => n = m
  BY <1>2
<1> QED
  BY <1>2, <1>5, <1>6, <1>7 DEF N, A

-----------------------------------------------------------------------------
(* Inserting into a list and removing from it. *)

(* new is list with it inserted at position p. *)
InsertedAt(new, list, it, p) ==
  /\ Len(new) = Len(list) + 1 /\ p \in 1 .. Len(list) + 1
  /\ \A k \in 1 .. Len(list) + 1 :
       new[k] = IF k < p THEN list[k] ELSE IF k = p THEN it ELSE list[k - 1]

(* InsertAt does that. *)
LEMMA InsertAtLemma ==
  ASSUME NEW X, NEW list \in Seq(X), NEW it \in X, NEW p \in 1 .. Len(list) + 1
  PROVE  InsertAt(list, p, it) \in Seq(X) /\ InsertedAt(InsertAt(list, p, it), list, it, p)
<1> DEFINE a == SubSeq(list, 1, p - 1)
           c == SubSeq(list, p, Len(list))
           b == a \o <<it>>
<1>1. a \in Seq(X) /\ Len(a) = p - 1 /\ \A k \in 1 .. p - 1 : a[k] = list[k]
  OBVIOUS
<1>2. /\ c \in Seq(X) /\ Len(c) = Len(list) + 1 - p
      /\ \A k \in 1 .. Len(list) + 1 - p : c[k] = list[p + k - 1]
  OBVIOUS
<1> HIDE DEF a, c
<1>3. /\ b \in Seq(X) /\ Len(b) = p /\ b[p] = it
      /\ \A k \in 1 .. p - 1 : b[k] = list[k]
  BY <1>1
<1> HIDE DEF b
<1> DEFINE new == b \o c
<1>4. /\ new \in Seq(X) /\ Len(new) = Len(list) + 1
      /\ \A k \in 1 .. p : new[k] = b[k]
      /\ \A k \in p + 1 .. Len(list) + 1 : new[k] = c[k - p]
  BY <1>2, <1>3
<1>5. \A k \in p + 1 .. Len(list) + 1 : new[k] = list[k - 1]
  <2> SUFFICES ASSUME NEW k \in p + 1 .. Len(list) + 1
               PROVE  new[k] = list[k - 1]
    OBVIOUS
  <2>1. k - p \in 1 .. Len(list) + 1 - p /\ p + (k - p) - 1 = k - 1
    OBVIOUS
  <2> HIDE DEF new
  <2> QED
    BY <1>2, <1>4, <2>1
<1>6. InsertAt(list, p, it) = new
  BY DEF InsertAt, a, b, c
<1> HIDE DEF new
<1>7. InsertedAt(new, list, it, p)
  <2>1. \A k \in 1 .. Len(list) + 1 :
          (k < p => k \in 1 .. p - 1 /\ k \in 1 .. p) /\ (k = p => k \in 1 .. p)
          /\ (k < p \/ k = p \/ k \in p + 1 .. Len(list) + 1)
          /\ (k \in p + 1 .. Len(list) + 1 => ~(k < p) /\ k # p)
    OBVIOUS
  <2> QED
    BY <1>3, <1>4, <1>5, <2>1 DEF InsertedAt
<1> QED
  BY <1>4, <1>6, <1>7

(* Inserted finds a place for the item. *)
LEMMA InsertedLemma ==
  ASSUME NEW X, NEW list \in Seq(X), NEW it \in X
  PROVE  /\ Inserted(list, it) \in Seq(X)
         /\ \E p \in 1 .. Len(list) + 1 : InsertedAt(Inserted(list, it), list, it, p)
<1>1. CASE list = <<>> \/ Below(it, list[1])
  <2> DEFINE new == <<it>> \o list
  <2>1. Inserted(list, it) = new
    BY <1>1 DEF Inserted
  <2>2. new \in Seq(X) /\ Len(new) = Len(list) + 1 /\ new[1] = it
        /\ \A k \in 2 .. Len(list) + 1 : new[k] = list[k - 1]
    OBVIOUS
  <2> HIDE DEF new
  <2>3. InsertedAt(new, list, it, 1)
    <3>1. \A k \in 1 .. Len(list) + 1 : ~(k < 1) /\ (k = 1 \/ k \in 2 .. Len(list) + 1)
      OBVIOUS
    <3> QED
      BY <2>2, <3>1 DEF InsertedAt
  <2> QED
    BY <2>1, <2>2, <2>3
<1>2. CASE ~(list = <<>> \/ Below(it, list[1]))
  <2> DEFINE stops == {k \in 2 .. Len(list) : ~Above(it, list[k])}
             p == IF stops = {} THEN Len(list) + 1 ELSE Min(stops)
  <2>1. p \in 1 .. Len(list) + 1
    <3>1. CASE stops = {}
      BY <3>1
    <3>2. CASE stops # {}
      <4>1. stops \subseteq 2 .. Len(list) /\ stops \subseteq Nat
        OBVIOUS
      <4> HIDE DEF stops
      <4>2. \E x \in stops : \A y \in stops : x <= y
        BY <3>2, <4>1, LeastElement
      <4>3. Min(stops) \in stops
        BY <4>2 DEF Min
      <4>4. p = Min(stops) /\ Min(stops) \in 2 .. Len(list)
        BY <3>2, <4>1, <4>3
      <4> HIDE DEF p
      <4> QED
        BY <4>4
    <3> HIDE DEF p
    <3> QED
      BY <3>1, <3>2
  <2>2. Inserted(list, it) = InsertAt(list, p, it)
    BY <1>2 DEF Inserted
  <2> HIDE DEF p
  <2> QED
    BY <2>1, <2>2, InsertAtLemma
<1> QED
  BY <1>1, <1>2

(* RemoveAt closes the gap. *)
LEMMA RemoveAtLemma ==
  ASSUME NEW X, NEW list \in Seq(X), NEW p \in 1 .. Len(list)
  PROVE  /\ RemoveAt(list, p) \in Seq(X) /\ Len(RemoveAt(list, p)) = Len(list) - 1
         /\ \A k \in 1 .. Len(list) - 1 :
              RemoveAt(list, p)[k] = IF k < p THEN list[k] ELSE list[k + 1]
<1> DEFINE a == SubSeq(list, 1, p - 1)
           c == SubSeq(list, p + 1, Len(list))
           new == a \o c
<1>1. a \in Seq(X) /\ Len(a) = p - 1 /\ \A k \in 1 .. p - 1 : a[k] = list[k]
  OBVIOUS
<1>2. /\ c \in Seq(X) /\ Len(c) = Len(list) - p
      /\ \A k \in 1 .. Len(list) - p : c[k] = list[p + k]
  OBVIOUS
<1> HIDE DEF a, c
<1>3. /\ new \in Seq(X) /\ Len(new) = Len(list) - 1
      /\ \A k \in 1 .. p - 1 : new[k] = list[k]
      /\ \A k \in p .. Len(list) - 1 : new[k] = c[k - p + 1]
  <2>1. p - 1 \in Nat /\ Len(list) - p \in Nat /\ (p - 1) + (Len(list) - p) = Len(list) - 1
    OBVIOUS
  <2>0. a \in Seq(X) /\ c \in Seq(X)
    BY <1>1, <1>2
  <2>2. new \in Seq(X) /\ Len(new) = Len(a) + Len(c)
    BY ONLY <2>0
  <2>3. \A k \in 1 .. p - 1 : new[k] = a[k]
    BY <1>1, <1>2
  <2>4. \A k \in p .. Len(list) - 1 : new[k] = c[k - p + 1]
    <3> SUFFICES ASSUME NEW k \in p .. Len(list) - 1
                 PROVE  new[k] = c[k - p + 1]
      OBVIOUS
    <3>1. k \in Len(a) + 1 .. Len(a) + Len(c) /\ k - Len(a) = k - p + 1
      BY <1>1, <1>2
    <3>2. new[k] = c[k - Len(a)]
      BY <1>1, <1>2, <3>1
    <3> QED
      BY <3>1, <3>2
  <2>5. Len(new) = Len(list) - 1
    BY <1>1, <1>2, <2>1, <2>2
  <2> HIDE DEF new
  <2> QED
    BY <1>1, <2>2, <2>3, <2>4, <2>5
<1>4. \A k \in p .. Len(list) - 1 : new[k] = list[k + 1]
  <2> SUFFICES ASSUME NEW k \in p .. Len(list) - 1
               PROVE  new[k] = list[k + 1]
    OBVIOUS
  <2>1. k - p + 1 \in 1 .. Len(list) - p /\ p + (k - p + 1) = k + 1
    OBVIOUS
  <2> HIDE DEF new
  <2> QED
    BY <1>2, <1>3, <2>1
<1>5. RemoveAt(list, p) = new
  BY DEF RemoveAt, a, c
<1> HIDE DEF new
<1>6. \A k \in 1 .. Len(list) - 1 : (k < p => k \in 1 .. p - 1) /\ (~(k < p) => k \in p .. Len(list) - 1)
  OBVIOUS
<1> QED
  BY <1>3, <1>4, <1>5, <1>6

-----------------------------------------------------------------------------
(* The ids that aim_ssi_itemlist_add picks. *)

(* n items leave one of 0 .. n free. *)
LEMMA FreeId ==
  ASSUME NEW n \in Nat, NEW f \in [1 .. n -> Nat], NEW J, J \subseteq 1 .. n
  PROVE  Min(0 .. n \ {f[i] : i \in J}) \in Nat
<1> DEFINE g == [i \in J |-> f[i]]
           used == {f[i] : i \in J}
           free == 0 .. n \ used
<1>1. IsFiniteSet(1 .. n) /\ Cardinality(1 .. n) = n
  BY FS_Interval
<1>2. IsFiniteSet(J) /\ Cardinality(J) <= n
  <2>1. J \in SUBSET (1 .. n)
    OBVIOUS
  <2>2. IsFiniteSet(J) /\ Cardinality(J) <= Cardinality(1 .. n)
    BY <1>1, <2>1, FS_Subset
  <2> QED
    BY <1>1, <2>2
<1>3. g \in Surjection(J, used)
  BY DEF Surjection
<1>4. IsFiniteSet(used) /\ Cardinality(used) <= Cardinality(J)
  <2> HIDE DEF g, used
  <2> QED
    BY <1>2, <1>3, FS_Surjection
<1>5. IsFiniteSet(0 .. n) /\ Cardinality(0 .. n) = n + 1
  BY FS_Interval
<1> HIDE DEF g, used
<1>6. Cardinality(J) \in Nat /\ Cardinality(used) \in Nat
  BY <1>2, <1>4, FS_CardinalityType
<1>7. ~(0 .. n \subseteq used)
  <2>1. 0 .. n \subseteq used => Cardinality(0 .. n) <= Cardinality(used)
    BY <1>4, FS_Subset
  <2> QED
    BY <1>2, <1>4, <1>5, <1>6, <2>1
<1>8. free # {} /\ free \subseteq Nat
  BY <1>7
<1>9. Min(free) \in free
  <2> HIDE DEF free
  <2>1. \E x \in free : \A y \in free : x <= y
    BY <1>8, LeastElement
  <2> QED
    BY <2>1 DEF Min
<1> QED
  BY <1>8, <1>9 DEF used

-----------------------------------------------------------------------------
(* Sessions.  Data is made of what the client writes and of what it may    *)
(* read from the server.                                                   *)

Given == Foreign \cup UNION {start.server : start \in Starts}
Kinds == {"alias", "auth", "member", "csum", "cache", "pdinfo", "presence"}
Values == Aliases \cup PermDenies \cup Icons \cup Nat \cup {"", "hidden", "shown"}
            \cup {t[2] : t \in UNION {it.data : it \in Given}}
Tlvs == (Kinds \X Values) \cup UNION {it.data : it \in Given}
Types == {"group", "buddy", "permit", "deny", "pdinfo", "presence", "icon"}
           \cup {it.type : it \in Given}
Called == Names \cup {NULL}
PrivateTypes == {"permit", "deny"}
Actions == {"add", "mod", "del"}

ContentType == [name : Called, gid : Nat, bid : Nat, type : Types, data : SUBSET Tlvs]
ItemType == [name : Called, gid : Nat, bid : Nat, type : Types, data : SUBSET Tlvs, ref : Nat]
ChangeType == [action : Actions, sent : ContentType]
RequestType == [kind : {"reqdata"}]
                 \cup [kind : {"change"}, action : Actions, items : Seq(ContentType)]
EntryType == [name : Names, group : Names, alias : Values \cup {NULL}]
OwnType == [buddies : Seq(EntryType), private : Seq(PrivateTypes \X Names)]
SessionType ==
  [local : Seq(ItemType), official : Seq(ItemType), pending : Seq(ChangeType),
   waiting : BOOLEAN, received : BOOLEAN, out : Seq(RequestType), asked : SUBSET Names,
   own : OwnType, reuse : BOOLEAN]

(* No pending change of n points to two items of the list. *)
Fits(list, n) ==
  /\ list \in Seq(ItemType)
  /\ \A k \in 1 .. Len(list) : list[k].ref <= n
  /\ \A j, k \in 1 .. Len(list) : j # k /\ list[j].ref = list[k].ref => list[k].ref = 0

Sessions ==
  {S \in SessionType :
     /\ Fits(S.local, Len(S.pending)) /\ Fits(S.official, Len(S.pending))
     /\ S.pending # <<>> => S.waiting}

(* A change of the lists, and an edit of the local list, that leave the    *)
(* exchange with the server alone.                                         *)
Kept(S, T) ==
  /\ T \in Sessions
  /\ T.pending = S.pending /\ T.waiting = S.waiting
  /\ T.received = S.received /\ T.out = S.out /\ T.reuse = S.reuse
Edited(S, T) == Kept(S, T) /\ T.official = S.official

(* What aim_ssi_sync has put on its way; the official list keeps what it   *)
(* has.                                                                    *)
SameContent(list, new) ==
  Len(new) = Len(list) /\ \A k \in 1 .. Len(list) : Content(new[k]) = Content(list[k])
Sent(S, T) ==
  /\ ~S.waiting /\ T.waiting /\ T.pending # <<>> /\ SameContent(S.official, T.official)
  /\ \E action \in Actions :
       /\ \A i \in 1 .. Len(T.pending) : T.pending[i].action = action
       /\ T.out = Append(S.out, [kind |-> "change", action |-> action,
                                 items |-> [i \in 1 .. Len(T.pending) |-> T.pending[i].sent]])

(* What an edit may do to the exchange with the server: nothing, or one    *)
(* request more if none awaits its ack.                                    *)
From(S) ==
  {T \in Sessions :
     /\ T.received = S.received /\ T.reuse = S.reuse
     /\ \/ Edited(S, T)
        \/ Sent(S, T)}

(* A session is ahead of itself, and being ahead is transitive. *)
LEMMA FromRefl ==
  ASSUME NEW S \in Sessions
  PROVE  Edited(S, S) /\ S \in From(S)
BY DEF From, Edited, Kept

(* Two changes of one list. *)
LEMMA SameContentTrans ==
  ASSUME NEW a, NEW b, NEW c, SameContent(a, b), SameContent(b, c)
  PROVE  SameContent(a, c)
BY DEF SameContent

(* So is being ahead. *)
LEMMA FromTrans ==
  ASSUME NEW S \in Sessions, NEW T \in From(S), NEW U \in From(T)
  PROVE  U \in From(S)
<1>1. T \in Sessions /\ U \in Sessions /\ U.received = S.received /\ U.reuse = S.reuse
  BY DEF From
<1>2. CASE Edited(S, T)
  <2>1. CASE Edited(T, U)
    BY <1>1, <1>2, <2>1 DEF From, Edited, Kept
  <2>2. CASE Sent(T, U)
    BY <1>1, <1>2, <2>2 DEF From, Edited, Kept, Sent
  <2> QED
    BY <2>1, <2>2 DEF From
<1>3. CASE Sent(S, T)
  <2>1. Edited(T, U)
    BY <1>3 DEF From, Sent
  <2> QED
    BY <1>1, <1>3, <2>1 DEF From, Edited, Kept, Sent
<1> QED
  BY <1>2, <1>3 DEF From

(* Further changes of a list. *)
LEMMA EditedTrans ==
  ASSUME NEW S, NEW T, NEW U, Edited(S, T), Edited(T, U)
  PROVE  Edited(S, U)
BY DEF Edited, Kept

(* Further changes of either. *)
LEMMA KeptTrans ==
  ASSUME NEW S, NEW T, NEW U, Kept(S, T), Kept(T, U)
  PROVE  Kept(S, U)
BY DEF Kept

-----------------------------------------------------------------------------
(* Lists that fit the pending changes. *)

(* A list whose items keep their refs. *)
LEMMA FitsChanged ==
  ASSUME NEW n \in Nat, NEW list, Fits(list, n), NEW new \in Seq(ItemType),
         Len(new) = Len(list), \A k \in 1 .. Len(list) : new[k].ref = list[k].ref
  PROVE  Fits(new, n)
BY DEF Fits

(* A list with one more item, to which no pending change points. *)
LEMMA FitsInserted ==
  ASSUME NEW n \in Nat, NEW list, Fits(list, n), NEW it \in ItemType, it.ref <= n,
         it.ref = 0 \/ \A k \in 1 .. Len(list) : list[k].ref # it.ref
  PROVE  Fits(Inserted(list, it), n)
<1> DEFINE new == Inserted(list, it)
<1>1. list \in Seq(ItemType)
  BY DEF Fits
<1>2. /\ new \in Seq(ItemType)
      /\ \E p \in 1 .. Len(list) + 1 : InsertedAt(new, list, it, p)
  BY <1>1, InsertedLemma
<1> HIDE DEF new
<1>3. PICK p \in 1 .. Len(list) + 1 : InsertedAt(new, list, it, p)
  BY <1>2
<1> DEFINE old(k) == IF k < p THEN k ELSE k - 1
<1>4. \A k \in 1 .. Len(new) : k # p => old(k) \in 1 .. Len(list) /\ new[k] = list[old(k)]
  BY <1>1, <1>3 DEF InsertedAt
<1>5. \A j, k \in 1 .. Len(new) : j # k /\ j # p /\ k # p => old(j) # old(k)
  BY <1>1, <1>3 DEF InsertedAt
<1>6. new[p] = it /\ p \in 1 .. Len(new)
  BY <1>1, <1>3 DEF InsertedAt
<1> HIDE DEF old
<1>7. \A k \in 1 .. Len(new) : new[k].ref <= n
  <2> SUFFICES ASSUME NEW k \in 1 .. Len(new)
               PROVE  new[k].ref <= n
    OBVIOUS
  <2>1. CASE k = p
    BY <1>6, <2>1
  <2>2. CASE k # p
    BY <1>4, <2>2 DEF Fits
  <2> QED
    BY <2>1, <2>2
<1>8. \A j, k \in 1 .. Len(new) : j # k /\ new[j].ref = new[k].ref => new[k].ref = 0
  <2> SUFFICES ASSUME NEW j \in 1 .. Len(new), NEW k \in 1 .. Len(new), j # k,
                      new[j].ref = new[k].ref
               PROVE  new[k].ref = 0
    OBVIOUS
  <2>1. CASE j # p /\ k # p
    BY <1>4, <1>5, <2>1 DEF Fits
  <2>2. CASE j = p
    BY <1>4, <1>6, <2>2
  <2>3. CASE k = p
    BY <1>4, <1>6, <2>3
  <2> QED
    BY <2>1, <2>2, <2>3
<1> QED
  BY <1>2, <1>7, <1>8 DEF Fits, new

(* A list without one of its items. *)
LEMMA FitsRemoved ==
  ASSUME NEW n \in Nat, NEW list, Fits(list, n), NEW p \in 1 .. Len(list)
  PROVE  Fits(RemoveAt(list, p), n)
<1> DEFINE new == RemoveAt(list, p)
           old(k) == IF k < p THEN k ELSE k + 1
<1>1. list \in Seq(ItemType)
  BY DEF Fits
<1>2. /\ new \in Seq(ItemType) /\ Len(new) = Len(list) - 1
      /\ \A k \in 1 .. Len(list) - 1 : new[k] = IF k < p THEN list[k] ELSE list[k + 1]
  BY <1>1, RemoveAtLemma
<1> HIDE DEF new
<1>3. \A k \in 1 .. Len(new) : old(k) \in 1 .. Len(list) /\ new[k] = list[old(k)]
  BY <1>1, <1>2
<1>4. \A j, k \in 1 .. Len(new) : j # k => old(j) # old(k)
  BY <1>1, <1>2
<1> HIDE DEF old
<1>5. Fits(new, n)
  <2>1. \A k \in 1 .. Len(new) : new[k].ref <= n
    BY <1>3 DEF Fits
  <2>2. ASSUME NEW j \in 1 .. Len(new), NEW k \in 1 .. Len(new),
               j # k, new[j].ref = new[k].ref
        PROVE  new[k].ref = 0
    <3>1. old(j) \in 1 .. Len(list) /\ old(k) \in 1 .. Len(list) /\ old(j) # old(k)
      BY <1>3, <1>4, <2>2
    <3>2. list[old(j)].ref = list[old(k)].ref
      BY <1>3, <2>2
    <3>3. list[old(k)].ref = 0
      BY <3>1, <3>2 DEF Fits
    <3> QED
      BY <1>3, <3>3
  <2> QED
    BY <1>2, <2>1, <2>2 DEF Fits
<1> QED
  BY <1>5 DEF new

(* A list of some of its items. *)
LEMMA FitsChosen ==
  ASSUME NEW n \in Nat, NEW list, Fits(list, n), NEW at, at \subseteq DOMAIN list
  PROVE  Fits(Chosen(list, at), n)
<1> DEFINE new == Chosen(list, at)
<1>1. list \in Seq(ItemType) /\ at \subseteq 1 .. Len(list)
  BY DEF Fits
<1>2. /\ new \in Seq(ItemType)
      /\ Ascending(at) \in [1 .. Len(new) -> at]
      /\ \A k \in 1 .. Len(new) : new[k] = list[Ascending(at)[k]]
      /\ \A j, k \in 1 .. Len(new) : Ascending(at)[j] = Ascending(at)[k] => j = k
  BY <1>1, ChosenLemma
<1> HIDE DEF new
<1> DEFINE A == Ascending(at)
<1>a. /\ \A k \in 1 .. Len(new) : A[k] \in at /\ new[k] = list[A[k]]
      /\ \A j, k \in 1 .. Len(new) : A[j] = A[k] => j = k
  BY <1>2
<1> HIDE DEF A
<1>3. \A k \in 1 .. Len(new) : A[k] \in 1 .. Len(list)
  BY <1>1, <1>a
<1>4. Fits(new, n)
  <2>1. \A k \in 1 .. Len(new) : new[k].ref <= n
    BY <1>a, <1>3 DEF Fits
  <2>2. ASSUME NEW j \in 1 .. Len(new), NEW k \in 1 .. Len(new),
               j # k, new[j].ref = new[k].ref
        PROVE  new[k].ref = 0
    <3>1. A[j] \in 1 .. Len(list) /\ A[k] \in 1 .. Len(list) /\ A[j] # A[k]
      BY <1>a, <1>3, <2>2
    <3>2. list[A[j]].ref = list[A[k]].ref
      BY <1>a, <2>2
    <3>3. list[A[k]].ref = 0
      BY <3>1, <3>2 DEF Fits
    <3> QED
      BY <1>a, <3>3
  <2> QED
    BY <1>2, <2>1, <2>2 DEF Fits
<1> QED
  BY <1>4 DEF new

(* What the fields of a session are. *)
LEMMA SessionFields ==
  ASSUME NEW S \in Sessions
  PROVE  /\ S \in SessionType
         /\ S.local \in Seq(ItemType) /\ S.official \in Seq(ItemType)
         /\ S.pending \in Seq(ChangeType) /\ S.out \in Seq(RequestType)
         /\ Len(S.pending) \in Nat /\ S.asked \in SUBSET Names /\ S.own \in OwnType
         /\ S.own.buddies \in Seq(EntryType) /\ S.own.private \in Seq(PrivateTypes \X Names)
         /\ S.waiting \in BOOLEAN /\ S.received \in BOOLEAN /\ S.reuse \in BOOLEAN
         /\ Fits(S.local, Len(S.pending)) /\ Fits(S.official, Len(S.pending))
         /\ S.pending # <<>> => S.waiting
BY DEF Sessions, SessionType, OwnType

(* Another local list. *)
LEMMA LocalChanged ==
  ASSUME NEW S \in Sessions, NEW l, Fits(l, Len(S.pending))
  PROVE  /\ Edited(S, [S EXCEPT !.local = l])
         /\ [S EXCEPT !.local = l].local = l /\ [S EXCEPT !.local = l].own = S.own
<1> DEFINE T == [S EXCEPT !.local = l]
<1>1. l \in Seq(ItemType)
  BY DEF Fits
<1>2. T \in SessionType
  BY <1>1 DEF Sessions, SessionType
<1>3. /\ T.local = l /\ T.official = S.official /\ T.pending = S.pending
      /\ T.waiting = S.waiting /\ T.received = S.received /\ T.out = S.out
      /\ T.asked = S.asked /\ T.own = S.own /\ T.reuse = S.reuse
  BY DEF Sessions, SessionType
<1> HIDE DEF T
<1>4. T \in Sessions
  BY <1>2, <1>3 DEF Sessions
<1>5. Edited(S, T) /\ T.local = l /\ T.own = S.own
  BY <1>3, <1>4 DEF Edited, Kept
<1> QED
  BY <1>5 DEF T

(* Another official list. *)
LEMMA OfficialChanged ==
  ASSUME NEW S \in Sessions, NEW l, Fits(l, Len(S.pending))
  PROVE  LET T == [S EXCEPT !.official = l]
         IN  Kept(S, T) /\ T.official = l /\ T.local = S.local /\ T.own = S.own
<1> DEFINE T == [S EXCEPT !.official = l]
<1>1. l \in Seq(ItemType)
  BY DEF Fits
<1>2. T \in SessionType
  BY <1>1 DEF Sessions, SessionType
<1>3. /\ T.official = l /\ T.local = S.local /\ T.pending = S.pending
      /\ T.waiting = S.waiting /\ T.received = S.received /\ T.out = S.out
      /\ T.asked = S.asked /\ T.own = S.own /\ T.reuse = S.reuse
  BY DEF Sessions, SessionType
<1> HIDE DEF T
<1>4. T \in Sessions
  BY <1>2, <1>3 DEF Sessions
<1>5. Kept(S, T) /\ T.official = l /\ T.local = S.local /\ T.own = S.own
  BY <1>3, <1>4 DEF Kept
<1> QED
  BY <1>5 DEF T

-----------------------------------------------------------------------------
(* Finding items. *)

LEMMA FoundAt ==
  ASSUME NEW X, NEW list \in Seq(X)
  PROVE  /\ \A gid, bid : aim_ssi_itemlist_find(list, gid, bid) \in 0 .. Len(list)
         /\ \A gn, sn, type : aim_ssi_itemlist_finditem(list, gn, sn, type) \in 0 .. Len(list)
         /\ \A sn : aim_ssi_itemlist_exists(list, sn) \in 0 .. Len(list)
<1>1. \A set : set \subseteq DOMAIN list => FirstOf(set) \in 0 .. Len(list)
  <2> SUFFICES ASSUME NEW set, set \subseteq DOMAIN list
               PROVE  FirstOf(set) \in 0 .. Len(list)
    OBVIOUS
  <2>1. set \subseteq 1 .. Len(list) /\ set \subseteq Nat \ {0} /\ Len(list) \in Nat
    OBVIOUS
  <2>2. FirstOf(set) \in set \cup {0}
    BY <2>1, FirstOfLemma
  <2> QED
    BY <2>1, <2>2
<1>2. ASSUME NEW gid, NEW bid
      PROVE  aim_ssi_itemlist_find(list, gid, bid) \in 0 .. Len(list)
  <2> DEFINE set == {i \in DOMAIN list : list[i].gid = gid /\ list[i].bid = bid}
  <2>1. set \subseteq DOMAIN list
    OBVIOUS
  <2>2. aim_ssi_itemlist_find(list, gid, bid) = FirstOf(set)
    BY DEF aim_ssi_itemlist_find
  <2> HIDE DEF set
  <2> QED
    BY <1>1, <2>1, <2>2
<1>3. ASSUME NEW gn, NEW sn, NEW type
      PROVE  aim_ssi_itemlist_finditem(list, gn, sn, type) \in 0 .. Len(list)
  <2> DEFINE Good(i) ==
               /\ list[i].type = type
               /\ CASE gn # NULL /\ sn # NULL ->
                       /\ Same(list[i].name, sn)
                       /\ \E j \in DOMAIN list : /\ list[j].type = "group" /\ list[j].gid = list[i].gid
                                                 /\ Same(list[j].name, gn)
                    [] gn # NULL /\ sn = NULL -> list[i].bid = 0 /\ Same(list[i].name, gn)
                    [] gn = NULL /\ sn # NULL -> Same(list[i].name, sn)
                    [] OTHER -> list[i].name = NULL
             set == {i \in DOMAIN list : Good(i)}
  <2>1. aim_ssi_itemlist_finditem(list, gn, sn, type) = FirstOf(set)
    BY DEF aim_ssi_itemlist_finditem
  <2> HIDE DEF Good
  <2>2. set \subseteq DOMAIN list
    OBVIOUS
  <2> HIDE DEF set
  <2> QED
    BY <1>1, <2>1, <2>2
<1>4. ASSUME NEW sn
      PROVE  aim_ssi_itemlist_exists(list, sn) \in 0 .. Len(list)
  <2> DEFINE set == {i \in DOMAIN list : list[i].type = "buddy" /\ Same(list[i].name, sn)}
  <2>1. set \subseteq DOMAIN list
    OBVIOUS
  <2>2. aim_ssi_itemlist_exists(list, sn) = FirstOf(set)
    BY DEF aim_ssi_itemlist_exists
  <2> HIDE DEF set
  <2> QED
    BY <1>1, <2>1, <2>2
<1> QED
  BY <1>2, <1>3, <1>4

(* A group of a given name is found, if there is one. *)
LEMMA GroupFound ==
  ASSUME NEW list \in Seq(ItemType), NEW name \in Names, NEW k \in 1 .. Len(list),
         list[k].type = "group" /\ list[k].bid = 0 /\ Same(list[k].name, name)
  PROVE  aim_ssi_itemlist_finditem(list, name, NULL, "group") \in 1 .. Len(list)
<1> DEFINE set == {i \in DOMAIN list : list[i].type = "group" /\ list[i].bid = 0
                                         /\ Same(list[i].name, name)}
<1>1. set \subseteq Nat \ {0} /\ set \subseteq 1 .. Len(list) /\ k \in set
  OBVIOUS
<1>2. aim_ssi_itemlist_finditem(list, name, NULL, "group") = FirstOf(set)
  <2>1. name # NULL
    BY NamesAssumption
  <2>2. \A i \in DOMAIN list :
          (CASE name # NULL /\ NULL # NULL ->
                  /\ Same(list[i].name, NULL)
                  /\ \E j \in DOMAIN list : /\ list[j].type = "group" /\ list[j].gid = list[i].gid
                                            /\ Same(list[j].name, name)
             [] name # NULL /\ NULL = NULL -> list[i].bid = 0 /\ Same(list[i].name, name)
             [] name = NULL /\ NULL # NULL -> Same(list[i].name, NULL)
             [] OTHER -> list[i].name = NULL) <=> list[i].bid = 0 /\ Same(list[i].name, name)
    BY <2>1
  <2>3. set = {i \in DOMAIN list :
          /\ list[i].type = "group"
          /\ CASE name # NULL /\ NULL # NULL ->
                  /\ Same(list[i].name, NULL)
                  /\ \E j \in DOMAIN list : /\ list[j].type = "group" /\ list[j].gid = list[i].gid
                                            /\ Same(list[j].name, name)
             [] name # NULL /\ NULL = NULL -> list[i].bid = 0 /\ Same(list[i].name, name)
             [] name = NULL /\ NULL # NULL -> Same(list[i].name, NULL)
             [] OTHER -> list[i].name = NULL}
    BY <2>2
  <2> QED
    BY <2>3 DEF aim_ssi_itemlist_finditem
<1> HIDE DEF set
<1> QED
  BY <1>1, <1>2, FirstOfLemma

-----------------------------------------------------------------------------
(* Adding an item, which: "local" or "official". *)

(* The item that aim_ssi_itemlist_add makes. *)
NewItem(S, which, name, gid, bid, type, data) ==
  LET g == IF type = "group" /\ gid = Pick /\ name # NULL THEN NewGid(S[which]) ELSE gid
  IN  [name |-> name, gid |-> g,
       bid |-> IF type # "group" /\ bid = Pick THEN NewBid(S[which], g) ELSE bid,
       type |-> type, data |-> data,
       ref |-> IF S.reuse /\ Dangling(S, which) # {} THEN Min(Dangling(S, which)) ELSE 0]
LEMMA AddIs ==
  ASSUME NEW S, NEW which, NEW name, NEW gid, NEW bid, NEW type, NEW data
  PROVE  aim_ssi_itemlist_add(S, which, name, gid, bid, type, data)
           = [S EXCEPT ![which] = Inserted(S[which], NewItem(S, which, name, gid, bid, type, data))]
BY DEF aim_ssi_itemlist_add, NewItem

(* What it may be asked to add: an id is picked for a named group, or for  *)
(* an item that is not a group.                                            *)
Addable(name, gid, bid, type, data) ==
  /\ name \in Called /\ type \in Types /\ data \subseteq Tlvs
  /\ gid \in Nat \/ (gid = Pick /\ type = "group" /\ name # NULL)
  /\ bid \in Nat \/ (bid = Pick /\ type # "group")

(* The ids that aim_ssi_itemlist_add picks are numbers. *)
LEMMA NewIds ==
  ASSUME NEW list \in Seq(ItemType), NEW g
  PROVE  NewGid(list) \in Nat /\ NewBid(list, g) \in Nat
<1> DEFINE n == Len(list)
           fg == [i \in 1 .. n |-> list[i].gid]
           fb == [i \in 1 .. n |-> list[i].bid]
           Jg == {j \in DOMAIN list : list[j].type = "group"}
           Jb == {j \in DOMAIN list : list[j].gid = g}
<1>1. n \in Nat /\ Jg \subseteq 1 .. n /\ Jb \subseteq 1 .. n
  OBVIOUS
<1>2. /\ fg \in [1 .. n -> Nat] /\ \A i \in 1 .. n : fg[i] = list[i].gid
      /\ fb \in [1 .. n -> Nat] /\ \A i \in 1 .. n : fb[i] = list[i].bid
  <2>1. \A i \in 1 .. n : list[i] \in ItemType
    OBVIOUS
  <2>2. \A i \in 1 .. n : list[i].gid \in Nat /\ list[i].bid \in Nat
    BY <2>1 DEF ItemType
  <2> HIDE DEF n
  <2> QED
    BY <2>2
<1>3. NewGid(list) = Min(0 .. n \ {fg[i] : i \in Jg})
  <2>1. {list[i].gid : i \in Jg} = {fg[i] : i \in Jg}
    <3> HIDE DEF fg, n, Jg
    <3> QED
      BY <1>1, <1>2
  <2> QED
    BY <2>1 DEF NewGid
<1>4. NewBid(list, g) = Min(0 .. n \ {fb[i] : i \in Jb})
  <2>1. {list[i].bid : i \in Jb} = {fb[i] : i \in Jb}
    <3> HIDE DEF fb, n, Jb
    <3> QED
      BY <1>1, <1>2
  <2> QED
    BY <2>1 DEF NewBid
<1> HIDE DEF n, fg, fb, Jg, Jb
<1> QED
  BY <1>1, <1>2, <1>3, <1>4, FreeId

(* The new item; it takes the ref of a dangling change only if malloc      *)
(* returns its address.                                                    *)
LEMMA NewItemType ==
  ASSUME NEW S \in Sessions, NEW which \in {"local", "official"},
         NEW name, NEW gid, NEW bid, NEW type, NEW data, Addable(name, gid, bid, type, data)
  PROVE  LET new == NewItem(S, which, name, gid, bid, type, data)
         IN  /\ new \in ItemType /\ new.name = name /\ new.type = type /\ new.data = data
             /\ gid \in Nat => new.gid = gid
             /\ bid \in Nat => new.bid = bid
             /\ new.ref <= Len(S.pending)
             /\ new.ref = 0 \/ \A k \in 1 .. Len(S[which]) : S[which][k].ref # new.ref
             /\ new.ref = 0 \/ (Home(S.pending[new.ref].action) = which /\ S.reuse)
<1> DEFINE g == IF type = "group" /\ gid = Pick /\ name # NULL THEN NewGid(S[which]) ELSE gid
           b == IF type # "group" /\ bid = Pick THEN NewBid(S[which], g) ELSE bid
           free == Dangling(S, which)
           r == IF S.reuse /\ free # {} THEN Min(free) ELSE 0
           new == [name |-> name, gid |-> g, bid |-> b, type |-> type, data |-> data, ref |-> r]
<1>1. S[which] \in Seq(ItemType)
  BY SessionFields
<1>2. Pick \notin Nat
  BY DEF Pick
<1>3. g \in Nat /\ (gid \in Nat => g = gid)
  BY <1>1, <1>2, NewIds DEF Addable
<1> HIDE DEF g
<1>4. b \in Nat /\ (bid \in Nat => b = bid)
  BY <1>1, <1>2, NewIds DEF Addable
<1> HIDE DEF b
<1>5. /\ r \in Nat /\ r <= Len(S.pending)
      /\ r = 0 \/ (r \in free /\ S.reuse)
  <2>1. CASE S.reuse /\ free # {}
    <3>1. free \subseteq 1 .. Len(S.pending)
      BY SessionFields DEF Dangling
    <3>2. Len(S.pending) \in Nat
      BY SessionFields
    <3>3. Min(free) \in free
      <4>0. free \subseteq Nat
        BY <3>1, <3>2
      <4> HIDE DEF free
      <4>1. \E x \in free : \A y \in free : x <= y
        BY <2>1, <4>0, LeastElement
      <4> QED
        BY <4>1 DEF Min
    <3>4. r = Min(free)
      BY <2>1
    <3>5. Min(free) \in Nat /\ Min(free) <= Len(S.pending)
      <4> HIDE DEF free
      <4>1. Min(free) \in 1 .. Len(S.pending)
        BY <3>1, <3>3
      <4> QED
        BY <3>2, <4>1
    <3> HIDE DEF r, free
    <3> QED
      BY <2>1, <3>3, <3>4, <3>5
  <2>2. CASE ~(S.reuse /\ free # {})
    <3>1. r = 0
      BY <2>2
    <3> HIDE DEF r, free
    <3> QED
      BY <3>1, SessionFields
  <2> QED
    BY <2>1, <2>2
<1> HIDE DEF r
<1>6. r = 0 \/ \A k \in 1 .. Len(S[which]) : S[which][k].ref # r
  BY <1>1, <1>5 DEF Dangling
<1>7. r = 0 \/ Home(S.pending[r].action) = which
  BY <1>1, <1>5 DEF Dangling
<1>8. name \in Called /\ type \in Types /\ data \subseteq Tlvs
  BY DEF Addable
<1>9. new \in ItemType
  BY <1>3, <1>4, <1>5, <1>8 DEF ItemType
<1>10. NewItem(S, which, name, gid, bid, type, data) = new
  BY DEF NewItem, g, b, r
<1>11. /\ new.name = name /\ new.type = type /\ new.data = data /\ new.gid = g /\ new.bid = b
       /\ new.ref = r
  OBVIOUS
<1> HIDE DEF new
<1> QED
  BY <1>3, <1>4, <1>5, <1>6, <1>7, <1>9, <1>10, <1>11

(* Adding to the local list is an edit. *)
LEMMA AddLocal ==
  ASSUME NEW S \in Sessions, NEW name, NEW gid, NEW bid, NEW type, NEW data,
         Addable(name, gid, bid, type, data)
  PROVE  LET T == aim_ssi_itemlist_add(S, "local", name, gid, bid, type, data)
         IN  /\ Edited(S, T) /\ T.own = S.own
             /\ \E p \in 1 .. Len(S.local) + 1 :
                  InsertedAt(T.local, S.local, NewItem(S, "local", name, gid, bid, type, data), p)
<1> DEFINE new == NewItem(S, "local", name, gid, bid, type, data)
           l == Inserted(S.local, new)
           T == aim_ssi_itemlist_add(S, "local", name, gid, bid, type, data)
<1>1. S["local"] = S.local
  OBVIOUS
<1>2. T = [S EXCEPT !.local = l]
  BY <1>1, AddIs
<1>3. /\ new \in ItemType /\ new.ref <= Len(S.pending)
      /\ new.ref = 0 \/ \A k \in 1 .. Len(S.local) : S.local[k].ref # new.ref
  BY <1>1, NewItemType
<1> HIDE DEF new
<1>4. /\ S.local \in Seq(ItemType) /\ Len(S.pending) \in Nat
      /\ Fits(S.local, Len(S.pending))
  BY SessionFields
<1>5. Fits(l, Len(S.pending))
  BY <1>3, <1>4, FitsInserted
<1>6. \E p \in 1 .. Len(S.local) + 1 : InsertedAt(l, S.local, new, p)
  BY <1>3, <1>4, InsertedLemma
<1> HIDE DEF l
<1> HIDE DEF T
<1>7. Edited(S, T) /\ T.own = S.own /\ T.local = l
  BY <1>2, <1>5, LocalChanged
<1> QED
  BY <1>6, <1>7 DEF T, new

(* Adding to the official list. *)
LEMMA AddOfficial ==
  ASSUME NEW S \in Sessions, NEW name, NEW gid, NEW bid, NEW type, NEW data,
         Addable(name, gid, bid, type, data)
  PROVE  LET T == aim_ssi_itemlist_add(S, "official", name, gid, bid, type, data)
         IN  /\ Kept(S, T) /\ T.own = S.own /\ T.local = S.local
             /\ \E p \in 1 .. Len(S.official) + 1 :
                  InsertedAt(T.official, S.official,
                             NewItem(S, "official", name, gid, bid, type, data), p)
<1> DEFINE new == NewItem(S, "official", name, gid, bid, type, data)
           l == Inserted(S.official, new)
           T == aim_ssi_itemlist_add(S, "official", name, gid, bid, type, data)
<1>1. S["official"] = S.official
  OBVIOUS
<1>2. T = [S EXCEPT !.official = l]
  BY <1>1, AddIs
<1>3. /\ new \in ItemType /\ new.ref <= Len(S.pending)
      /\ new.ref = 0 \/ \A k \in 1 .. Len(S.official) : S.official[k].ref # new.ref
  BY <1>1, NewItemType
<1> HIDE DEF new
<1>4. /\ S.official \in Seq(ItemType) /\ Len(S.pending) \in Nat
      /\ Fits(S.official, Len(S.pending))
  BY SessionFields
<1>5. Fits(l, Len(S.pending))
  BY <1>3, <1>4, FitsInserted
<1>6. \E p \in 1 .. Len(S.official) + 1 : InsertedAt(l, S.official, new, p)
  BY <1>3, <1>4, InsertedLemma
<1> HIDE DEF l
<1> HIDE DEF T
<1>7. Kept(S, T) /\ T.own = S.own /\ T.local = S.local /\ T.official = l
  BY <1>2, <1>5, OfficialChanged
<1> QED
  BY <1>6, <1>7 DEF T, new

-----------------------------------------------------------------------------
(* Changing an item of the local list. *)

(* Its name, its data. *)
LEMMA ItemChanged ==
  ASSUME NEW n \in Nat, NEW list, Fits(list, n), NEW i \in 1 .. Len(list),
         NEW name \in Called, NEW data, data \subseteq Tlvs, NEW type \in Types
  PROVE  /\ Fits([list EXCEPT ![i].data = data], n)
         /\ Fits([list EXCEPT ![i].name = name], n)
         /\ Fits([list EXCEPT ![i].name = name, ![i].data = data], n)
         /\ Fits([list EXCEPT ![i].type = type, ![i].name = name, ![i].data = data], n)
<1> DEFINE a == [list[i] EXCEPT !.data = data]
           b == [list[i] EXCEPT !.name = name]
           c == [list[i] EXCEPT !.name = name, !.data = data]
           d == [list[i] EXCEPT !.type = type, !.name = name, !.data = data]
<1>1. list \in Seq(ItemType)
  BY DEF Fits
<1>2. list[i] \in ItemType
  BY <1>1
<1>3. /\ a \in ItemType /\ a.ref = list[i].ref
      /\ b \in ItemType /\ b.ref = list[i].ref
      /\ c \in ItemType /\ c.ref = list[i].ref
      /\ d \in ItemType /\ d.ref = list[i].ref
  BY <1>2 DEF ItemType
<1>4. /\ [list EXCEPT ![i].data = data] = [list EXCEPT ![i] = a]
      /\ [list EXCEPT ![i].name = name] = [list EXCEPT ![i] = b]
      /\ [list EXCEPT ![i].name = name, ![i].data = data] = [list EXCEPT ![i] = c]
      /\ [list EXCEPT ![i].type = type, ![i].name = name, ![i].data = data] = [list EXCEPT ![i] = d]
  BY <1>1
<1>5. ASSUME NEW x \in ItemType, x.ref = list[i].ref
      PROVE  Fits([list EXCEPT ![i] = x], n)
  <2> DEFINE new == [list EXCEPT ![i] = x]
  <2>1. new \in Seq(ItemType) /\ Len(new) = Len(list)
    BY <1>1
  <2>2. \A k \in 1 .. Len(list) : new[k].ref = list[k].ref
    BY <1>1, <1>5
  <2> HIDE DEF new
  <2>3. Fits(new, n)
    BY <2>1, <2>2, FitsChanged
  <2> QED
    BY <2>3 DEF new
<1> HIDE DEF a, b, c, d
<1> QED
  BY <1>3, <1>4, <1>5

-----------------------------------------------------------------------------
(* aim_ssi_sync. *)

(* The items at some positions of a list become pending. *)
Referred(list, at) ==
  [k \in DOMAIN list |-> IF k \in at THEN [list[k] EXCEPT !.ref = Rank(at, k)] ELSE list[k]]

(* The items that have just become pending point to their changes. *)
LEMMA ReferredFits ==
  ASSUME NEW list, Fits(list, 0), NEW at, at \subseteq DOMAIN list
  PROVE  /\ Cardinality(at) \in Nat
         /\ Fits(Referred(list, at), Cardinality(at)) /\ SameContent(list, Referred(list, at))
         /\ \A k \in at : Rank(at, k) \in 1 .. Cardinality(at) /\ Referred(list, at)[k].ref = Rank(at, k)
<1> DEFINE N == Cardinality(at)
           L == Len(list)
           new == Referred(list, at)
           x(k) == [list[k] EXCEPT !.ref = Rank(at, k)]
<1>1. list \in Seq(ItemType) /\ L \in Nat /\ DOMAIN list = 1 .. L
  BY DEF Fits
<1>2. at \subseteq Nat /\ IsFiniteSet(at)
  <2>1. IsFiniteSet(1 .. L)
    BY <1>1, FS_Interval
  <2>2. at \in SUBSET (1 .. L)
    BY <1>1
  <2> HIDE DEF L
  <2> QED
    BY <1>1, <2>1, <2>2, FS_Subset
<1>3. /\ N \in Nat
      /\ \A k \in at : Rank(at, k) \in 1 .. N /\ Ascending(at)[Rank(at, k)] = k
  BY <1>2, AscendingLemma
<1> HIDE DEF N
<1>4. \A k \in 1 .. L : list[k] \in ItemType /\ list[k].ref = 0
  <2>1. \A k \in 1 .. L : list[k] \in ItemType
    BY <1>1
  <2>2. \A k \in 1 .. L : list[k].ref <= 0
    BY DEF Fits
  <2>3. \A k \in 1 .. L : list[k].ref \in Nat
    BY <2>1 DEF ItemType
  <2> HIDE DEF L
  <2> QED
    BY <2>1, <2>2, <2>3
<1>5. \A k \in at : /\ x(k) \in ItemType /\ x(k).ref = Rank(at, k)
                    /\ Content(x(k)) = Content(list[k])
  <2> SUFFICES ASSUME NEW k \in at
               PROVE  /\ x(k) \in ItemType /\ x(k).ref = Rank(at, k)
                      /\ Content(x(k)) = Content(list[k])
    OBVIOUS
  <2>1. list[k] \in ItemType /\ Rank(at, k) \in Nat
    BY <1>1, <1>3, <1>4
  <2>2. x(k) \in ItemType /\ x(k).ref = Rank(at, k)
    BY <2>1 DEF ItemType
  <2>3. Content(x(k)) = Content(list[k])
    BY <2>1 DEF ItemType, Content, Item
  <2> QED
    BY <2>2, <2>3
<1>6. /\ DOMAIN new = 1 .. L
      /\ \A k \in 1 .. L : new[k] = IF k \in at THEN x(k) ELSE list[k]
  BY <1>1 DEF Referred
<1>a. new = [k \in 1 .. L |-> new[k]]
  BY <1>1 DEF Referred
<1> HIDE DEF new, x
<1>7. new \in Seq(ItemType) /\ Len(new) = L
  <2>1. \A k \in 1 .. L : new[k] \in ItemType
    BY <1>4, <1>5, <1>6
  <2> HIDE DEF L
  <2> QED
    BY <1>1, <1>a, <2>1
<1>8. \A k \in 1 .. L : /\ k \in at => new[k].ref = Rank(at, k)
                        /\ k \notin at => new[k].ref = 0
                        /\ Content(new[k]) = Content(list[k])
  BY <1>4, <1>5, <1>6
<1> HIDE DEF L
<1>9. SameContent(list, new)
  BY <1>7, <1>8 DEF SameContent, L
<1>10. Fits(new, N)
  <2>1. \A k \in 1 .. Len(new) : new[k].ref <= N
    BY <1>3, <1>7, <1>8
  <2>2. \A j, k \in 1 .. Len(new) : j # k /\ new[j].ref = new[k].ref => new[k].ref = 0
    <3> SUFFICES ASSUME NEW j \in 1 .. L, NEW k \in 1 .. L, j # k, new[j].ref = new[k].ref
                 PROVE  new[k].ref = 0
      BY <1>7
    <3>1. CASE k \notin at
      BY <1>8, <3>1
    <3>2. CASE k \in at /\ j \notin at
      BY <1>8, <3>2
    <3>3. CASE k \in at /\ j \in at
      BY <1>3, <1>8, <3>3
    <3> QED
      BY <3>1, <3>2, <3>3
  <2> QED
    BY <1>7, <2>1, <2>2 DEF Fits
<1>11. \A k \in at : new[k].ref = Rank(at, k)
  BY <1>1, <1>8
<1> QED
  BY <1>3, <1>9, <1>10, <1>11 DEF N, new

(* A list that fits no pending change fits more. *)
LEMMA FitsMore ==
  ASSUME NEW n \in Nat, NEW list, Fits(list, 0)
  PROVE  Fits(list, n)
<1>1. list \in Seq(ItemType)
  BY DEF Fits
<1>0. \A k \in 1 .. Len(list) : list[k] \in ItemType
  BY <1>1
<1>2. \A k \in 1 .. Len(list) : list[k].ref \in Nat
  BY <1>0 DEF ItemType
<1>3. \A k \in 1 .. Len(list) : list[k].ref <= n
  BY <1>2 DEF Fits
<1> QED
  BY <1>1, <1>3 DEF Fits

(* The session once the changes P are sent, and the lists refer to them. *)
Sending(S, action, P, l, o) ==
  [S EXCEPT !.pending = P, !.local = l, !.official = o, !.waiting = TRUE,
            !.out = Append(@, [kind |-> "change", action |-> action,
                               items |-> [i \in 1 .. Len(P) |-> P[i].sent]])]

(* A session that has put a request on its way. *)
LEMMA SentLemma ==
  ASSUME NEW S \in Sessions, ~S.waiting,
         NEW l, NEW o, NEW P \in Seq(ChangeType), P # <<>>, NEW action \in Actions,
         \A i \in 1 .. Len(P) : P[i].action = action,
         Fits(l, Len(P)), Fits(o, Len(P)), SameContent(S.official, o)
  PROVE  LET T == Sending(S, action, P, l, o)
         IN  /\ T \in Sessions /\ Sent(S, T)
             /\ T.received = S.received /\ T.reuse = S.reuse /\ T.own = S.own
             /\ T.pending = P /\ T.local = l /\ T.official = o
<1> DEFINE T == Sending(S, action, P, l, o)
           items == [i \in 1 .. Len(P) |-> P[i].sent]
           req == [kind |-> "change", action |-> action, items |-> items]
           out == Append(S.out, req)
<1>1. items \in Seq(ContentType)
  <2>1. \A i \in 1 .. Len(P) : P[i] \in ChangeType
    OBVIOUS
  <2>2. \A i \in 1 .. Len(P) : P[i].sent \in ContentType
    BY <2>1 DEF ChangeType
  <2> QED
    BY <2>2
<1> HIDE DEF items
<1>2. req \in RequestType
  BY <1>1 DEF RequestType
<1> HIDE DEF req
<1>3. out \in Seq(RequestType)
  BY <1>2, SessionFields
<1>4. T = [S EXCEPT !.pending = P, !.local = l, !.official = o, !.waiting = TRUE, !.out = out]
  BY DEF req, items, Sending
<1> HIDE DEF out, T
<1>5. l \in Seq(ItemType) /\ o \in Seq(ItemType) /\ S \in SessionType
  BY DEF Fits, Sessions
<1>6. T \in SessionType
  BY <1>3, <1>4, <1>5 DEF SessionType
<1>7. /\ T.pending = P /\ T.local = l /\ T.official = o /\ T.waiting = TRUE
      /\ T.received = S.received /\ T.reuse = S.reuse /\ T.own = S.own /\ T.out = out
  BY <1>4, <1>5 DEF SessionType
<1>8. T \in Sessions
  BY <1>6, <1>7 DEF Sessions
<1>9. Sent(S, T)
  <2>1. T.out = Append(S.out, [kind |-> "change", action |-> action,
                               items |-> [i \in 1 .. Len(T.pending) |-> T.pending[i].sent]])
    BY <1>7 DEF out, req, items
  <2> QED
    BY <1>7, <2>1 DEF Sent
<1> QED
  BY <1>7, <1>8, <1>9 DEF T

(* aim_ssi_addmoddel makes the items at some positions pending, each once, *)
(* and asks the server for them.                                           *)
LEMMA AddModDelLemma ==
  ASSUME NEW S \in Sessions, ~S.waiting, NEW action \in Actions,
         NEW at, at \subseteq DOMAIN S[Home(action)], at # {}
  PROVE  LET T == aim_ssi_addmoddel(S, action, at)
         IN  /\ T \in Sessions /\ Sent(S, T)
             /\ T.received = S.received /\ T.reuse = S.reuse /\ T.own = S.own
             /\ T.local = IF action = "del" THEN S.local ELSE Referred(S.local, at)
             /\ T.official = IF action = "del" THEN Referred(S.official, at) ELSE S.official
             /\ Len(T.pending) = Cardinality(at)
             /\ \A i \in 1 .. Len(T.pending) :
                  T.pending[i] = [action |-> action, sent |-> Content(S[Home(action)][Ascending(at)[i]])]
<1> DEFINE list == S[Home(action)]
           N == Cardinality(at)
           order == Ascending(at)
           P == [i \in 1 .. N |-> [action |-> action, sent |-> Content(list[order[i]])]]
           req == [kind |-> "change", action |-> action, items |-> [i \in 1 .. Len(P) |-> P[i].sent]]
           l == IF action = "del" THEN S.local ELSE Referred(S.local, at)
           o == IF action = "del" THEN Referred(S.official, at) ELSE S.official
           T == aim_ssi_addmoddel(S, action, at)
<1>1. list \in Seq(ItemType) /\ at \subseteq DOMAIN list /\ Fits(S.local, 0) /\ Fits(S.official, 0)
      /\ S.pending = <<>>
  <2>1. S.pending = <<>>
    BY SessionFields
  <2>2. Fits(S.local, 0) /\ Fits(S.official, 0)
    BY <2>1, SessionFields
  <2>3. list = S.local \/ list = S.official
    BY DEF Home, Actions
  <2> QED
    BY <2>1, <2>2, <2>3, SessionFields
<1>2. at \subseteq Nat /\ IsFiniteSet(at)
  <2>1. DOMAIN list = 1 .. Len(list) /\ Len(list) \in Nat
    BY <1>1
  <2>2. IsFiniteSet(1 .. Len(list)) /\ at \in SUBSET (1 .. Len(list))
    BY <1>1, <2>1, FS_Interval
  <2> HIDE DEF list
  <2> QED
    BY <2>1, <2>2, FS_Subset
<1>3. N \in Nat /\ order \in [1 .. N -> at] /\ N # 0
  BY <1>2, AscendingLemma, FS_EmptySet
<1>4. DOMAIN order = 1 .. N
  BY DEF Ascending
<1> HIDE DEF N, order
<1>5. \A i \in 1 .. N : list[order[i]] \in ItemType
  BY <1>1, <1>3
<1>6. \A i \in 1 .. N : [action |-> action, sent |-> Content(list[order[i]])] \in ChangeType
  BY <1>5 DEF ChangeType, ContentType, ItemType, Content, Item
<1>7. P \in Seq(ChangeType) /\ Len(P) = N /\ P # <<>>
  BY <1>3, <1>6
<1>8. \A i \in 1 .. N : P[i] = [action |-> action, sent |-> Content(list[order[i]])]
  OBVIOUS
<1>9. /\ l \in Seq(ItemType) /\ Fits(l, N) /\ Fits(o, N) /\ SameContent(S.official, o)
  <2>1. CASE action = "del"
    <3>1. l = S.local /\ o = Referred(S.official, at) /\ list = S.official
      BY <2>1 DEF Home
    <3>2. Fits(o, N) /\ SameContent(S.official, o)
      BY <1>1, <3>1, ReferredFits DEF N
    <3>3. Fits(l, N)
      BY <1>1, <1>3, <3>1, FitsMore
    <3> QED
      BY <3>2, <3>3 DEF Fits
  <2>2. CASE action # "del"
    <3>1. l = Referred(S.local, at) /\ o = S.official /\ list = S.local
      BY <2>2 DEF Home
    <3>2. Fits(l, N)
      BY <1>1, <3>1, ReferredFits DEF N
    <3>3. Fits(o, N)
      BY <1>1, <1>3, <3>1, FitsMore
    <3>4. SameContent(S.official, o)
      BY <3>1 DEF SameContent
    <3> QED
      BY <3>2, <3>3, <3>4 DEF Fits
  <2> QED
    BY <2>1, <2>2
<1>10. T = [S EXCEPT !.pending = P, !.local = l, !.official = o, !.waiting = TRUE, !.out = Append(@, req)]
  <2>0. [i \in 1 .. Len(P) |-> P[i].sent] = [i \in 1 .. N |-> Content(list[order[i]])]
    BY <1>7
  <2>1. CASE action = "del"
    <3>1. l = S.local /\ o = Referred(S.official, at)
      BY <2>1
    <3>2. T = [S EXCEPT !.pending = P, !.official = o, !.waiting = TRUE, !.out = Append(@, req)]
      BY <1>4, <2>0, <2>1, <3>1 DEF aim_ssi_addmoddel, Home, Referred, order
    <3> HIDE DEF T, P, l, o, req
    <3> QED
      BY <3>1, <3>2 DEF Sessions, SessionType
  <2>2. CASE action # "del"
    <3>1. l = Referred(S.local, at) /\ o = S.official
      BY <2>2
    <3>2. T = [S EXCEPT !.pending = P, !.local = l, !.waiting = TRUE, !.out = Append(@, req)]
      BY <1>4, <2>0, <2>2, <3>1 DEF aim_ssi_addmoddel, Home, Referred, order
    <3> HIDE DEF T, P, l, o, req
    <3> QED
      BY <3>1, <3>2 DEF Sessions, SessionType
  <2> QED
    BY <2>1, <2>2
<1>11. \A i \in 1 .. Len(P) : P[i].action = action
  BY <1>7
<1>13. T = Sending(S, action, P, l, o)
  BY <1>10 DEF Sending
<1> HIDE DEF T, P, l, o
<1>12. /\ T \in Sessions /\ Sent(S, T)
       /\ T.received = S.received /\ T.reuse = S.reuse /\ T.own = S.own
       /\ T.pending = P /\ T.local = l /\ T.official = o
  BY <1>7, <1>9, <1>11, <1>13, SentLemma
<1> QED
  BY <1>7, <1>8, <1>12 DEF T, l, o, list, order, N

(* aim_ssi_sync sends one request, or nothing. *)
LEMMA SyncLemma ==
  ASSUME NEW S \in Sessions
  PROVE  /\ aim_ssi_sync(S) \in From(S) /\ aim_ssi_sync(S).own = S.own
         /\ aim_ssi_sync(S) # S => Sent(S, aim_ssi_sync(S))
<1> DEFINE adds == Missing(S.local, S.official)
           dels == Missing(S.official, S.local)
           mods == Changed(S.local, S.official)
           T == aim_ssi_sync(S)
<1>1. adds \subseteq DOMAIN S.local /\ dels \subseteq DOMAIN S.official /\ mods \subseteq DOMAIN S.local
  BY DEF Missing, Changed
<1>2. S["local"] = S.local /\ S["official"] = S.official
  OBVIOUS
<1>3. T = S \/ \E action \in Actions : \E at \in SUBSET DOMAIN S[Home(action)] :
        ~S.waiting /\ at # {} /\ T = aim_ssi_addmoddel(S, action, at)
  <2>1. CASE S.waiting
    BY <2>1 DEF aim_ssi_sync
  <2>2. CASE ~S.waiting /\ adds # {}
    <3>1. T = aim_ssi_addmoddel(S, "add", adds)
      BY <2>2 DEF aim_ssi_sync
    <3> HIDE DEF T, adds, dels, mods
    <3> QED
      BY <1>1, <1>2, <2>2, <3>1 DEF Home, Actions
  <2>3. CASE ~S.waiting /\ adds = {} /\ dels # {}
    <3>1. T = aim_ssi_addmoddel(S, "del", dels)
      BY <2>3 DEF aim_ssi_sync
    <3> HIDE DEF T, adds, dels, mods
    <3> QED
      BY <1>1, <1>2, <2>3, <3>1 DEF Home, Actions
  <2>4. CASE ~S.waiting /\ adds = {} /\ dels = {} /\ mods # {}
    <3>1. T = aim_ssi_addmoddel(S, "mod", mods)
      BY <2>4 DEF aim_ssi_sync
    <3> HIDE DEF T, adds, dels, mods
    <3> QED
      BY <1>1, <1>2, <2>4, <3>1 DEF Home, Actions
  <2>5. CASE ~S.waiting /\ adds = {} /\ dels = {} /\ mods = {}
    BY <2>5 DEF aim_ssi_sync
  <2> QED
    BY <2>1, <2>2, <2>3, <2>4, <2>5
<1> HIDE DEF T, adds, dels, mods
<1>4. CASE T = S
  BY <1>4, FromRefl DEF T
<1>5. CASE T # S
  <2>1. PICK action \in Actions : \E at \in SUBSET DOMAIN S[Home(action)] :
          ~S.waiting /\ at # {} /\ T = aim_ssi_addmoddel(S, action, at)
    BY <1>3, <1>5
  <2>2. PICK at \in SUBSET DOMAIN S[Home(action)] :
          ~S.waiting /\ at # {} /\ T = aim_ssi_addmoddel(S, action, at)
    BY <2>1
  <2>3. T \in Sessions /\ Sent(S, T) /\ T.received = S.received /\ T.reuse = S.reuse /\ T.own = S.own
    BY <2>2, AddModDelLemma
  <2> QED
    BY <2>3 DEF From, T
<1> QED
  BY <1>4, <1>5

(* An edit that ends in aim_ssi_sync. *)
LEMMA EditThenSync ==
  ASSUME NEW S \in Sessions, NEW T, Edited(S, T)
  PROVE  aim_ssi_sync(T) \in From(S)
<1>1. T \in Sessions /\ T \in From(S)
  BY DEF Edited, Kept, From
<1>2. aim_ssi_sync(T) \in From(T)
  BY <1>1, SyncLemma
<1> QED
  BY <1>1, <1>2, FromTrans

-----------------------------------------------------------------------------
(* The edits of ssi.c. *)

(* Rebuilding the list of members changes the data of one item. *)
SameItems(list, new) ==
  /\ Len(new) = Len(list)
  /\ \A k \in 1 .. Len(list) : /\ new[k].name = list[k].name /\ new[k].gid = list[k].gid
                               /\ new[k].bid = list[k].bid /\ new[k].type = list[k].type

(* aim_ssi_itemlist_rebuildgroup changes the data of an item. *)
LEMMA RebuildLemma ==
  ASSUME NEW S \in Sessions, NEW name
  PROVE  LET T == aim_ssi_itemlist_rebuildgroup(S, name)
         IN  Edited(S, T) /\ SameItems(S.local, T.local)
<1> DEFINE l == S.local
           i == aim_ssi_itemlist_finditem(l, name, NULL, "group")
           ids == IF l[i].gid = 0
                  THEN {l[k].gid : k \in {j \in DOMAIN l : l[j].type = "group" /\ l[j].gid # 0}}
                  ELSE {l[k].bid : k \in {j \in DOMAIN l : l[j].type = "buddy" /\ l[j].gid = l[i].gid}}
           data == {Tlv("member", id) : id \in ids}
           new == [l EXCEPT ![i].data = data]
           T == aim_ssi_itemlist_rebuildgroup(S, name)
<1>1. l \in Seq(ItemType) /\ i \in 0 .. Len(l) /\ Len(S.pending) \in Nat /\ Fits(l, Len(S.pending))
  BY SessionFields, FoundAt
<1>2. CASE i = 0
  <2>1. T = S
    BY <1>2 DEF aim_ssi_itemlist_rebuildgroup
  <2> QED
    BY <2>1, FromRefl DEF SameItems
<1>3. CASE i # 0
  <2>1. data \subseteq Tlvs
    <3>1. \A k \in DOMAIN l : l[k] \in ItemType
      BY <1>1
    <3>2. \A k \in DOMAIN l : l[k].gid \in Nat /\ l[k].bid \in Nat
      BY <3>1 DEF ItemType
    <3>3. ids \subseteq Nat
      BY <3>2
    <3> HIDE DEF ids
    <3>4. \A id \in Nat : Tlv("member", id) \in Tlvs
      <4>1. "member" \in Kinds /\ \A id \in Nat : id \in Values
        BY DEF Kinds, Values
      <4> QED
        BY <4>1 DEF Tlvs, Tlv
    <3> QED
      BY <3>3, <3>4
  <2>2. T = [S EXCEPT !.local = new]
    <3>1. T = [S EXCEPT !.local[i].data = data]
      BY <1>3 DEF aim_ssi_itemlist_rebuildgroup
    <3> HIDE DEF T, data, i
    <3> QED
      BY <3>1
  <2> HIDE DEF data
  <2>3. i \in 1 .. Len(l)
    BY <1>1, <1>3
  <2> HIDE DEF i
  <2>a. NULL \in Called /\ "group" \in Types
    BY DEF Called, Types
  <2>4. Fits(new, Len(S.pending))
    BY <1>1, <2>1, <2>3, <2>a, ItemChanged
  <2>5. SameItems(l, new)
    <3>1. \A k \in 1 .. Len(l) : l[k] \in ItemType
      BY <1>1
    <3>2. Len(new) = Len(l) /\ \A k \in 1 .. Len(l) : k # i => new[k] = l[k]
      BY <1>1
    <3>3. new[i] = [l[i] EXCEPT !.data = data]
      BY <1>1, <2>3
    <3>4. /\ new[i].name = l[i].name /\ new[i].gid = l[i].gid
          /\ new[i].bid = l[i].bid /\ new[i].type = l[i].type
      BY <2>3, <3>1, <3>3 DEF ItemType
    <3> HIDE DEF new, l
    <3> QED
      BY <3>2, <3>4 DEF SameItems
  <2> HIDE DEF new, T
  <2>6. Edited(S, T) /\ T.local = new
    BY <2>2, <2>4, LocalChanged
  <2> QED
    BY <2>5, <2>6 DEF T
<1> QED
  BY <1>2, <1>3

(* The master group is there, or is added. *)
LEMMA WithMasterLemma ==
  ASSUME NEW S \in Sessions
  PROVE  Edited(S, WithMaster(S))
<1>1. Addable(NULL, 0, 0, "group", {})
  BY DEF Addable, Called, Types
<1>2. Edited(S, aim_ssi_itemlist_add(S, "local", NULL, 0, 0, "group", {}))
  BY <1>1, AddLocal
<1> QED
  BY <1>2, FromRefl DEF WithMaster

(* So is the group, which is found afterwards. *)
LEMMA WithGroupLemma ==
  ASSUME NEW S \in Sessions, NEW group \in Names
  PROVE  LET T == WithGroup(S, group)
         IN  /\ Edited(S, T)
             /\ aim_ssi_itemlist_finditem(T.local, group, NULL, "group") \in 1 .. Len(T.local)
<1> DEFINE M == WithMaster(S)
           A == aim_ssi_itemlist_add(M, "local", group, Pick, 0, "group", {})
           R == aim_ssi_itemlist_rebuildgroup(A, NULL)
           T == WithGroup(S, group)
           i == aim_ssi_itemlist_finditem(S.local, group, NULL, "group")
<1>1. i \in 0 .. Len(S.local) /\ S.local \in Seq(ItemType)
  BY SessionFields, FoundAt
<1>2. CASE i # 0
  <2>1. T = S
    BY <1>2 DEF WithGroup
  <2>2. i \in 1 .. Len(S.local)
    BY <1>1, <1>2
  <2> QED
    BY <2>1, <2>2, FromRefl
<1>3. CASE i = 0
  <2>1. T = R
    BY <1>3 DEF WithGroup
  <2>2. Edited(S, M)
    BY WithMasterLemma
  <2>3. M \in Sessions
    BY <2>2 DEF Edited, Kept
  <2> HIDE DEF M, T, i
  <2> DEFINE new == NewItem(M, "local", group, Pick, 0, "group", {})
  <2>4. group # NULL /\ Addable(group, Pick, 0, "group", {})
    BY NamesAssumption DEF Addable, Called, Types
  <2>5. Edited(M, A) /\ \E p \in 1 .. Len(M.local) + 1 : InsertedAt(A.local, M.local, new, p)
    BY <2>3, <2>4, AddLocal
  <2>6. new.name = group /\ new.type = "group" /\ new.bid = 0
    BY <2>3, <2>4, NewItemType
  <2> HIDE DEF new, A
  <2>7. PICK p \in 1 .. Len(M.local) + 1 : InsertedAt(A.local, M.local, new, p)
    BY <2>5
  <2>8. A \in Sessions /\ M.local \in Seq(ItemType)
    BY <2>3, <2>5, SessionFields DEF Edited, Kept
  <2>9. p \in 1 .. Len(A.local) /\ A.local[p] = new
    BY <2>7, <2>8 DEF InsertedAt
  <2>10. Edited(A, R) /\ SameItems(A.local, R.local)
    BY <2>8, RebuildLemma
  <2> HIDE DEF R
  <2>11. R.local \in Seq(ItemType)
    BY <2>10, SessionFields DEF Edited, Kept
  <2>12. p \in 1 .. Len(R.local) /\ R.local[p].type = "group" /\ R.local[p].bid = 0
         /\ Same(R.local[p].name, group)
    BY <2>4, <2>6, <2>9, <2>10 DEF SameItems, Same
  <2>13. aim_ssi_itemlist_finditem(R.local, group, NULL, "group") \in 1 .. Len(R.local)
    BY <2>11, <2>12, GroupFound
  <2>14. Edited(S, R)
    BY <2>2, <2>5, <2>10, EditedTrans
  <2> QED
    BY <2>1, <2>13, <2>14 DEF T
<1> QED
  BY <1>2, <1>3

(* A buddy is added to a group that is there. *)
LEMMA WithBuddyLemma ==
  ASSUME NEW S \in Sessions, NEW name \in Names, NEW group, NEW data, data \subseteq Tlvs,
         aim_ssi_itemlist_finditem(S.local, group, NULL, "group") \in 1 .. Len(S.local)
  PROVE  Edited(S, WithBuddy(S, name, group, data))
<1> DEFINE i == aim_ssi_itemlist_finditem(S.local, group, NULL, "group")
           gid == S.local[i].gid
<1>1. S.local \in Seq(ItemType) /\ i \in 1 .. Len(S.local)
  BY SessionFields
<1> HIDE DEF i
<1>2. S.local[i] \in ItemType
  BY <1>1
<1>3. gid \in Nat
  BY <1>2 DEF ItemType
<1> HIDE DEF gid
<1>4. Addable(name, gid, Pick, "buddy", data)
  BY <1>3 DEF Addable, Called, Types
<1>5. Edited(S, aim_ssi_itemlist_add(S, "local", name, gid, Pick, "buddy", data))
  BY <1>4, AddLocal
<1> QED
  BY <1>5 DEF WithBuddy, gid, i

(* aim_ssi_addbuddy *)
LEMMA AddBuddyLemma ==
  ASSUME NEW S \in Sessions, NEW name \in Names, NEW group \in Names, NEW data, data \subseteq Tlvs
  PROVE  aim_ssi_addbuddy(S, name, group, data) \in From(S)
<1> DEFINE G == WithGroup(S, group)
           B == WithBuddy(G, name, group, data)
           R == aim_ssi_itemlist_rebuildgroup(B, group)
<1>1. Edited(S, G) /\ aim_ssi_itemlist_finditem(G.local, group, NULL, "group") \in 1 .. Len(G.local)
  BY WithGroupLemma
<1>2. G \in Sessions
  BY <1>1 DEF Edited, Kept
<1> HIDE DEF G
<1>3. Edited(G, B)
  BY <1>1, <1>2, WithBuddyLemma
<1>4. B \in Sessions
  BY <1>3 DEF Edited, Kept
<1> HIDE DEF B
<1>5. Edited(B, R)
  BY <1>4, RebuildLemma
<1> HIDE DEF R
<1>6. Edited(S, R)
  BY <1>1, <1>3, <1>5, EditedTrans
<1> QED
  BY <1>6, EditThenSync DEF aim_ssi_addbuddy, G, B, R

(* aim_ssi_addpermit and aim_ssi_adddeny *)
LEMMA AddPrivateLemma ==
  ASSUME NEW S \in Sessions, NEW type \in PrivateTypes, NEW name \in Names
  PROVE  AddPrivate(S, type, name) \in From(S)
<1>1. Addable(name, 0, Pick, type, {})
  BY DEF Addable, Called, Types, PrivateTypes
<1>2. Edited(S, aim_ssi_itemlist_add(S, "local", name, 0, Pick, type, {}))
  BY <1>1, AddLocal
<1> QED
  BY <1>2, EditThenSync DEF AddPrivate

(* Removing an item of the local list. *)
LEMMA DelLocal ==
  ASSUME NEW S \in Sessions, NEW i \in 1 .. Len(S.local)
  PROVE  LET T == aim_ssi_itemlist_del(S, "local", i)
         IN  Edited(S, T) /\ T.local = RemoveAt(S.local, i) /\ T.own = S.own
<1> DEFINE l == RemoveAt(S.local, i)
           T == aim_ssi_itemlist_del(S, "local", i)
<1>1. Fits(l, Len(S.pending))
  BY SessionFields, FitsRemoved
<1>2. T = [S EXCEPT !.local = l]
  BY DEF aim_ssi_itemlist_del
<1> HIDE DEF l, T
<1>3. Edited(S, T) /\ T.local = l /\ T.own = S.own
  BY <1>1, <1>2, LocalChanged
<1> QED
  BY <1>3 DEF T, l

(* Removing an item of the official list. *)
LEMMA DelOfficial ==
  ASSUME NEW S \in Sessions, NEW i \in 1 .. Len(S.official)
  PROVE  LET T == aim_ssi_itemlist_del(S, "official", i)
         IN  Kept(S, T) /\ T.official = RemoveAt(S.official, i) /\ T.local = S.local
<1> DEFINE l == RemoveAt(S.official, i)
           T == aim_ssi_itemlist_del(S, "official", i)
<1>1. Fits(l, Len(S.pending))
  BY SessionFields, FitsRemoved
<1>2. T = [S EXCEPT !.official = l]
  BY DEF aim_ssi_itemlist_del
<1> HIDE DEF l, T
<1>3. Kept(S, T) /\ T.official = l /\ T.local = S.local
  BY <1>1, <1>2, OfficialChanged
<1> QED
  BY <1>3 DEF T, l

(* Groups that have lost their last member. *)
LEMMA DropMasterLemma ==
  ASSUME NEW S \in Sessions
  PROVE  Edited(S, DropMaster(S))
<1> DEFINE i == aim_ssi_itemlist_find(S.local, 0, 0)
<1>1. i \in 0 .. Len(S.local)
  BY SessionFields, FoundAt
<1> HIDE DEF i
<1>2. Edited(S, DropIfEmpty(S, i))
  <2>1. CASE i # 0 /\ S.local[i].data = {}
    <3>1. i \in 1 .. Len(S.local)
      BY <1>1, <2>1
    <3>2. Edited(S, aim_ssi_itemlist_del(S, "local", i))
      BY <3>1, DelLocal
    <3> QED
      BY <2>1, <3>2 DEF DropIfEmpty
  <2>2. CASE ~(i # 0 /\ S.local[i].data = {})
    BY <2>2, FromRefl DEF DropIfEmpty
  <2> QED
    BY <2>1, <2>2
<1> QED
  BY <1>2 DEF DropMaster, i

(* A group that has become empty goes, or stays. *)
LEMMA DropGroupLemma ==
  ASSUME NEW S \in Sessions, NEW group
  PROVE  Edited(S, DropGroup(S, group))
<1> DEFINE i == aim_ssi_itemlist_finditem(S.local, group, NULL, "group")
           D == aim_ssi_itemlist_del(S, "local", i)
           R == aim_ssi_itemlist_rebuildgroup(D, NULL)
<1>1. i \in 0 .. Len(S.local)
  BY SessionFields, FoundAt
<1>2. CASE i # 0 /\ S.local[i].data = {}
  <2>1. i \in 1 .. Len(S.local)
    BY <1>1, <1>2
  <2>2. DropGroup(S, group) = DropMaster(R)
    BY <1>2 DEF DropGroup
  <2> HIDE DEF i
  <2>3. Edited(S, D)
    BY <2>1, DelLocal
  <2>4. D \in Sessions
    BY <2>3 DEF Edited, Kept
  <2> HIDE DEF D
  <2>5. Edited(D, R)
    BY <2>4, RebuildLemma
  <2>6. R \in Sessions
    BY <2>5 DEF Edited, Kept
  <2> HIDE DEF R
  <2>7. Edited(R, DropMaster(R))
    BY <2>6, DropMasterLemma
  <2> QED
    BY <2>2, <2>3, <2>5, <2>7, EditedTrans
<1>3. CASE ~(i # 0 /\ S.local[i].data = {})
  BY <1>3, FromRefl DEF DropGroup
<1> QED
  BY <1>2, <1>3

(* aim_ssi_delbuddy *)
LEMMA DelBuddyLemma ==
  ASSUME NEW S \in Sessions, NEW name, NEW group
  PROVE  aim_ssi_delbuddy(S, name, group) \in From(S)
<1> DEFINE i == aim_ssi_itemlist_finditem(S.local, group, name, "buddy")
           D == aim_ssi_itemlist_del(S, "local", i)
           R == aim_ssi_itemlist_rebuildgroup(D, group)
           G == DropGroup(R, group)
<1>1. i \in 0 .. Len(S.local)
  BY SessionFields, FoundAt
<1>2. CASE i # 0
  <2>1. i \in 1 .. Len(S.local)
    BY <1>1, <1>2
  <2>2. aim_ssi_delbuddy(S, name, group) = aim_ssi_sync(G)
    BY <1>2 DEF aim_ssi_delbuddy
  <2> HIDE DEF i
  <2>3. Edited(S, D)
    BY <2>1, DelLocal
  <2>4. D \in Sessions
    BY <2>3 DEF Edited, Kept
  <2> HIDE DEF D
  <2>5. Edited(D, R)
    BY <2>4, RebuildLemma
  <2>6. R \in Sessions
    BY <2>5 DEF Edited, Kept
  <2> HIDE DEF R
  <2>7. Edited(R, G)
    BY <2>6, DropGroupLemma
  <2> HIDE DEF G
  <2>8. Edited(S, G)
    BY <2>3, <2>5, <2>7, EditedTrans
  <2> QED
    BY <2>2, <2>8, EditThenSync
<1>3. CASE i = 0
  BY <1>3, FromRefl DEF aim_ssi_delbuddy
<1> QED
  BY <1>2, <1>3

(* aim_ssi_delpermit and aim_ssi_deldeny *)
LEMMA DelPrivateLemma ==
  ASSUME NEW S \in Sessions, NEW type, NEW name
  PROVE  DelPrivate(S, type, name) \in From(S)
<1> DEFINE i == aim_ssi_itemlist_finditem(S.local, NULL, name, type)
           D == aim_ssi_itemlist_del(S, "local", i)
<1>1. i \in 0 .. Len(S.local)
  BY SessionFields, FoundAt
<1>2. CASE i # 0
  <2>1. i \in 1 .. Len(S.local)
    BY <1>1, <1>2
  <2>2. DelPrivate(S, type, name) = aim_ssi_sync(D)
    BY <1>2 DEF DelPrivate
  <2> HIDE DEF i
  <2>3. Edited(S, D)
    BY <2>1, DelLocal
  <2> HIDE DEF D
  <2> QED
    BY <2>2, <2>3, EditThenSync
<1>3. CASE i = 0
  BY <1>3, FromRefl DEF DelPrivate
<1> QED
  BY <1>2, <1>3

(* What a buddy keeps when he is moved is data. *)
LEMMA DataOfBuddy ==
  ASSUME NEW S \in Sessions, NEW gn, NEW sn
  PROVE  /\ aim_ssi_getalias(S.local, gn, sn) \subseteq Tlvs
         /\ aim_ssi_waitingforauth(S.local, gn, sn) \subseteq Tlvs
<1> DEFINE i == aim_ssi_itemlist_finditem(S.local, gn, sn, "buddy")
<1>1. i \in 0 .. Len(S.local) /\ S.local \in Seq(ItemType)
  BY SessionFields, FoundAt
<1>2. i # 0 => S.local[i].data \subseteq Tlvs
  <2> HIDE DEF i
  <2> SUFFICES ASSUME i # 0
               PROVE  S.local[i].data \subseteq Tlvs
    OBVIOUS
  <2>1. S.local[i] \in ItemType
    BY <1>1
  <2> QED
    BY <2>1 DEF ItemType
<1> QED
  BY <1>2 DEF aim_ssi_getalias, aim_ssi_waitingforauth

(* aim_ssi_movebuddy *)
LEMMA MoveBuddyLemma ==
  ASSUME NEW S \in Sessions, NEW oldgn, NEW newgn \in Names, NEW sn \in Names
  PROVE  aim_ssi_movebuddy(S, oldgn, newgn, sn) \in From(S)
<1> DEFINE data == aim_ssi_getalias(S.local, oldgn, sn) \cup aim_ssi_waitingforauth(S.local, oldgn, sn)
           A == aim_ssi_addbuddy(S, sn, newgn, data)
<1>1. data \subseteq Tlvs
  BY DataOfBuddy
<1>2. aim_ssi_movebuddy(S, oldgn, newgn, sn) = aim_ssi_delbuddy(A, sn, oldgn)
  BY DEF aim_ssi_movebuddy
<1> HIDE DEF data
<1>3. A \in From(S)
  BY <1>1, AddBuddyLemma
<1> HIDE DEF A
<1>4. A \in Sessions
  BY <1>3 DEF From
<1> QED
  BY <1>2, <1>3, <1>4, DelBuddyLemma, FromTrans

(* Changing the data, or the name, of an item of the local list. *)
LEMMA ChangeLocal ==
  ASSUME NEW S \in Sessions, NEW i \in 1 .. Len(S.local)
  PROVE  /\ \A data : data \subseteq Tlvs => Edited(S, [S EXCEPT !.local[i].data = data])
         /\ \A name \in Called : Edited(S, [S EXCEPT !.local[i].name = name])
<1> DEFINE l == S.local
<1>1. l \in Seq(ItemType) /\ Fits(l, Len(S.pending)) /\ Len(S.pending) \in Nat
  BY SessionFields
<1>0. NULL \in Called /\ "group" \in Types /\ {} \subseteq Tlvs
  BY DEF Called, Types
<1>2. ASSUME NEW data, data \subseteq Tlvs
      PROVE  Edited(S, [S EXCEPT !.local[i].data = data])
  <2> DEFINE new == [l EXCEPT ![i].data = data]
  <2>1. Fits(new, Len(S.pending))
    BY <1>0, <1>1, <1>2, ItemChanged
  <2>2. [S EXCEPT !.local[i].data = data] = [S EXCEPT !.local = new]
    OBVIOUS
  <2> HIDE DEF new
  <2> QED
    BY <2>1, <2>2, LocalChanged
<1>3. ASSUME NEW name \in Called
      PROVE  Edited(S, [S EXCEPT !.local[i].name = name])
  <2> DEFINE new == [l EXCEPT ![i].name = name]
  <2>1. Fits(new, Len(S.pending))
    BY <1>0, <1>1, ItemChanged
  <2>2. [S EXCEPT !.local[i].name = name] = [S EXCEPT !.local = new]
    OBVIOUS
  <2> HIDE DEF new
  <2> QED
    BY <2>1, <2>2, LocalChanged
<1> QED
  BY <1>2, <1>3

(* The data of an alias. *)
LEMMA AliasDataType ==
  ASSUME NEW alias \in Values \cup {NULL}
  PROVE  AliasData(alias) \subseteq Tlvs
<1>1. "alias" \in Kinds
  BY DEF Kinds
<1> QED
  BY <1>1 DEF AliasData, Tlv, Tlvs

(* aim_ssi_aliasbuddy *)
LEMMA AliasBuddyLemma ==
  ASSUME NEW S \in Sessions, NEW gn, NEW sn, NEW alias \in Values \cup {NULL}
  PROVE  aim_ssi_aliasbuddy(S, gn, sn, alias) \in From(S)
<1> DEFINE i == aim_ssi_itemlist_finditem(S.local, gn, sn, "buddy")
           T == [S EXCEPT !.local[i].data = AliasData(alias)]
<1>1. i \in 0 .. Len(S.local)
  BY SessionFields, FoundAt
<1>2. CASE i # 0
  <2>1. i \in 1 .. Len(S.local)
    BY <1>1, <1>2
  <2>2. aim_ssi_aliasbuddy(S, gn, sn, alias) = aim_ssi_sync(T)
    BY <1>2 DEF aim_ssi_aliasbuddy
  <2> HIDE DEF i
  <2>3. Edited(S, T)
    BY <2>1, AliasDataType, ChangeLocal
  <2> HIDE DEF T
  <2> QED
    BY <2>2, <2>3, EditThenSync
<1>3. CASE i = 0
  BY <1>3, FromRefl DEF aim_ssi_aliasbuddy
<1> QED
  BY <1>2, <1>3

(* aim_ssi_rename_group *)
LEMMA RenameGroupLemma ==
  ASSUME NEW S \in Sessions, NEW oldgn, NEW newgn \in Names
  PROVE  aim_ssi_rename_group(S, oldgn, newgn) \in From(S)
<1> DEFINE i == aim_ssi_itemlist_finditem(S.local, oldgn, NULL, "group")
           T == [S EXCEPT !.local[i].name = newgn]
<1>1. i \in 0 .. Len(S.local)
  BY SessionFields, FoundAt
<1>2. CASE i # 0
  <2>1. i \in 1 .. Len(S.local)
    BY <1>1, <1>2
  <2>2. aim_ssi_rename_group(S, oldgn, newgn) = aim_ssi_sync(T)
    BY <1>2 DEF aim_ssi_rename_group
  <2> HIDE DEF i
  <2>3. Edited(S, T)
    BY <2>1, ChangeLocal DEF Called
  <2> HIDE DEF T
  <2> QED
    BY <2>2, <2>3, EditThenSync
<1>3. CASE i = 0
  BY <1>3, FromRefl DEF aim_ssi_rename_group
<1> QED
  BY <1>2, <1>3

(* aim_ssi_setpermdeny and aim_ssi_setpresence *)
LEMMA SetOptionLemma ==
  ASSUME NEW S \in Sessions, NEW type \in {"pdinfo", "presence"}, NEW value \in Values
  PROVE  SetOption(S, type, value) \in From(S)
<1> DEFINE i == aim_ssi_itemlist_finditem(S.local, NULL, NULL, type)
           data == {Tlv(type, value)}
           T == IF i # 0 THEN [S EXCEPT !.local[i].data = data]
                ELSE aim_ssi_itemlist_add(S, "local", NULL, 0, Pick, type, data)
<1>1. i \in 0 .. Len(S.local)
  BY SessionFields, FoundAt
<1>2. data \subseteq Tlvs
  BY DEF Kinds, Tlv, Tlvs
<1>3. SetOption(S, type, value) = aim_ssi_sync(T)
  BY DEF SetOption
<1> HIDE DEF i, data
<1>4. Edited(S, T)
  <2>1. CASE i # 0
    <3>1. i \in 1 .. Len(S.local)
      BY <1>1, <2>1
    <3>2. Edited(S, [S EXCEPT !.local[i].data = data])
      BY <1>2, <3>1, ChangeLocal
    <3> QED
      BY <2>1, <3>2
  <2>2. CASE i = 0
    <3>1. Addable(NULL, 0, Pick, type, data)
      BY <1>2 DEF Addable, Called, Types
    <3>2. Edited(S, aim_ssi_itemlist_add(S, "local", NULL, 0, Pick, type, data))
      BY <3>1, AddLocal
    <3> QED
      BY <2>2, <3>2
  <2> QED
    BY <2>1, <2>2
<1> HIDE DEF T
<1> QED
  BY <1>3, <1>4, EditThenSync

(* aim_ssi_seticon *)
LEMMA SetIconLemma ==
  ASSUME NEW S \in Sessions, NEW sum \in Icons
  PROVE  aim_ssi_seticon(S, sum) \in From(S)
<1> DEFINE i == aim_ssi_itemlist_finditem(S.local, NULL, IconName, "icon")
           data == {Tlv("csum", sum), Tlv("cache", "")}
           C == [S EXCEPT !.local[i].data = data]
           A == aim_ssi_itemlist_add(S, "local", IconName, 0, IconBid, "icon", data)
<1>1. i \in 0 .. Len(S.local)
  BY SessionFields, FoundAt
<1>2. data \subseteq Tlvs
  <2>1. "csum" \in Kinds /\ "cache" \in Kinds /\ sum \in Values /\ "" \in Values
    BY DEF Kinds, Values
  <2>2. <<"csum", sum>> \in Kinds \X Values
    BY <2>1
  <2>3. <<"cache", "">> \in Kinds \X Values
    BY <2>1
  <2> QED
    BY <2>2, <2>3 DEF Tlv, Tlvs
<1>a. i # 0 => i \in 1 .. Len(S.local)
  <2> HIDE DEF i
  <2> QED
    BY <1>1
<1>3. CASE i = 0
  <2>1. aim_ssi_seticon(S, sum) = aim_ssi_sync(A)
    BY <1>3 DEF aim_ssi_seticon
  <2> HIDE DEF data, i
  <2>2. Addable(IconName, 0, IconBid, "icon", data)
    BY <1>2, NamesAssumption DEF Addable, Called, Types
  <2>3. Edited(S, A)
    BY <2>2, AddLocal
  <2> HIDE DEF A
  <2> QED
    BY <2>1, <2>3, EditThenSync
<1>4. CASE i # 0 /\ S.local[i].data = data
  BY <1>4, FromRefl DEF aim_ssi_seticon
<1>5. CASE i # 0 /\ S.local[i].data # data
  <2>1. aim_ssi_seticon(S, sum) = aim_ssi_sync(C)
    BY <1>5 DEF aim_ssi_seticon
  <2>2. i \in 1 .. Len(S.local)
    BY <1>a, <1>5
  <2> HIDE DEF data, i
  <2>3. Edited(S, C)
    BY <1>2, <2>2, ChangeLocal
  <2> HIDE DEF C
  <2> QED
    BY <2>1, <2>3, EditThenSync
<1> QED
  BY <1>3, <1>4, <1>5

-----------------------------------------------------------------------------
(* Folds.  A fold over the finite set D takes the elements that c chooses; *)
(* G[x] is what it does with x, and stays in X.                            *)

Chooses(c, D) == \A s \in SUBSET D : s # {} => c[s] \in s
FoldOf(h, D, a, G, c) ==
  h[{}] = a /\ \A s \in SUBSET D : s # {} => h[s] = G[c[s]][h[s \ {c[s]}]]

(* The function by which a fold is defined exists. *)
LEMMA FoldExists ==
  ASSUME NEW D, IsFiniteSet(D), NEW X, NEW a \in X, NEW G \in [D -> [X -> X]],
         NEW c, Chooses(c, D)
  PROVE  \E h \in [SUBSET D -> X] : FoldOf(h, D, a, G, c)
<1> DEFINE N == Cardinality(D)
           Upto(h, m) == /\ h[{}] = a
                         /\ \A s \in SUBSET D : s # {} /\ Cardinality(s) <= m =>
                              h[s] = G[c[s]][h[s \ {c[s]}]]
           T == {m \in 0 .. N : \E h \in [SUBSET D -> X] : Upto(h, m)}
<1>1. /\ N \in Nat
      /\ \A s \in SUBSET D : IsFiniteSet(s) /\ Cardinality(s) \in Nat /\ Cardinality(s) <= N
  BY FS_CardinalityType, FS_Subset
<1>2. \A s \in SUBSET D : s # {} =>
        /\ Cardinality(s) # 0 /\ s \ {c[s]} \in SUBSET D
        /\ Cardinality(s \ {c[s]}) = Cardinality(s) - 1
  <2> SUFFICES ASSUME NEW s \in SUBSET D, s # {}
               PROVE  /\ Cardinality(s) # 0 /\ s \ {c[s]} \in SUBSET D
                      /\ Cardinality(s \ {c[s]}) = Cardinality(s) - 1
    OBVIOUS
  <2>1. c[s] \in s
    BY DEF Chooses
  <2> QED
    BY <1>1, <2>1, FS_EmptySet, FS_RemoveElement
<1> HIDE DEF N
<1>3. 0 \in T
  <2> DEFINE h == [s \in SUBSET D |-> a]
  <2>1. h \in [SUBSET D -> X] /\ h[{}] = a
    OBVIOUS
  <2>2. \A s \in SUBSET D : s # {} => ~(Cardinality(s) <= 0)
    <3> SUFFICES ASSUME NEW s \in SUBSET D, s # {}
                 PROVE  ~(Cardinality(s) <= 0)
      OBVIOUS
    <3>1. Cardinality(s) \in Nat /\ Cardinality(s) # 0
      BY <1>1, <1>2
    <3> QED
      BY <3>1
  <2> HIDE DEF h
  <2>3. Upto(h, 0)
    BY <2>1, <2>2
  <2>4. 0 \in 0 .. N
    BY <1>1
  <2> HIDE DEF Upto
  <2> QED
    BY <2>1, <2>3, <2>4
<1>4. ASSUME NEW m \in 0 .. N - 1, m \in T
      PROVE  m + 1 \in T
  <2>1. PICK h \in [SUBSET D -> X] : Upto(h, m)
    BY <1>4
  <2> DEFINE x(s) == G[c[s]][h[s \ {c[s]}]]
             g == [s \in SUBSET D |-> IF s # {} /\ Cardinality(s) = m + 1 THEN x(s) ELSE h[s]]
  <2>2. \A s \in SUBSET D : s # {} => x(s) \in X
    <3> SUFFICES ASSUME NEW s \in SUBSET D, s # {}
                 PROVE  x(s) \in X
      OBVIOUS
    <3>1. c[s] \in D /\ s \ {c[s]} \in SUBSET D
      BY <1>2 DEF Chooses
    <3>2. G[c[s]] \in [X -> X] /\ h[s \ {c[s]}] \in X
      BY <3>1
    <3> QED
      BY <3>2
  <2>3. g \in [SUBSET D -> X]
    <3> HIDE DEF x
    <3> QED
      BY <2>2
  <2>4. g[{}] = a
    BY <2>1
  <2>5. ASSUME NEW s \in SUBSET D, s # {}, Cardinality(s) <= m + 1
        PROVE  g[s] = G[c[s]][g[s \ {c[s]}]]
    <3>1. g[s] = x(s)
      <4>1. CASE Cardinality(s) = m + 1
        BY <2>5, <4>1
      <4>2. CASE Cardinality(s) # m + 1
        <5>1. Cardinality(s) <= m
          BY <1>1, <2>5, <4>2
        <5>2. h[s] = x(s)
          BY <2>1, <2>5, <5>1
        <5> QED
          BY <4>2, <5>2
      <4> QED
        BY <4>1, <4>2
    <3>2. g[s \ {c[s]}] = h[s \ {c[s]}]
      <4>1. Cardinality(s \ {c[s]}) # m + 1 /\ s \ {c[s]} \in SUBSET D
        BY <1>1, <1>2, <2>5
      <4> QED
        BY <4>1
    <3> QED
      BY <3>1, <3>2
  <2> HIDE DEF g, x
  <2>6. Upto(g, m + 1)
    BY <2>4, <2>5
  <2>7. m + 1 \in 0 .. N
    BY <1>1
  <2> HIDE DEF Upto
  <2> QED
    BY <2>3, <2>6, <2>7
<1>5. N \in T
  <2> HIDE DEF T
  <2>1. 0 .. N \subseteq T
    BY <1>1, <1>3, <1>4, UpTo
  <2> QED
    BY <1>1, <2>1
<1>6. PICK h \in [SUBSET D -> X] : Upto(h, N)
  BY <1>5
<1>7. FoldOf(h, D, a, G, c)
  BY <1>1, <1>6 DEF FoldOf
<1> QED
  BY <1>7

(* FoldLeft takes the greatest position last. *)
LEMMA MaxOfPositions ==
  ASSUME NEW N \in Nat
  PROVE  /\ \A s \in SUBSET (1 .. N) : s # {} => Max(s) \in s
         /\ \A n \in 1 .. N : Max(1 .. n) = n /\ (1 .. n) \ {n} = 1 .. n - 1 /\ 1 .. n # {}
<1>1. ASSUME NEW s \in SUBSET (1 .. N), s # {}
      PROVE  Max(s) \in s
  <2> DEFINE t == {N - x : x \in s}
  <2>1. t \subseteq Nat /\ t # {}
    <3>1. ASSUME NEW x \in s PROVE N - x \in Nat
      <4>1. x \in 1 .. N
        BY <1>1
      <4> QED
        BY <4>1
    <3>2. PICK x \in s : TRUE
      BY <1>1
    <3> QED
      BY <3>1, <3>2
  <2>2. PICK y \in t : \A z \in t : y <= z
    <3> HIDE DEF t
    <3> QED
      BY <2>1, LeastElement
  <2>3. PICK x \in s : y = N - x
    BY <2>2
  <2>4. \A z \in s : x >= z
    BY <2>2, <2>3
  <2> QED
    BY <2>4 DEF Max
<1>2. ASSUME NEW n \in 1 .. N
      PROVE  Max(1 .. n) = n /\ (1 .. n) \ {n} = 1 .. n - 1 /\ 1 .. n # {}
  <2>1. n \in 1 .. n /\ \A x \in 1 .. n : n >= x
    OBVIOUS
  <2>2. \A x \in 1 .. n : (\A y \in 1 .. n : x >= y) => x = n
    BY <2>1
  <2> QED
    BY <2>1, <2>2 DEF Max
<1> QED
  BY <1>1, <1>2

LeftFoldOf(h, N, X, a, G) ==
  /\ h[{}] = a
  /\ \A s \in SUBSET (1 .. N) : s # {} /\ h[s \ {Max(s)}] \in X =>
       h[s] = G[Max(s)][h[s \ {Max(s)}]]

(* So does the one of FoldLeft. *)
LEMMA LeftFoldExists ==
  ASSUME NEW N \in Nat, NEW X, NEW a \in X, NEW G \in [1 .. N -> [X -> X]]
  PROVE  \E h \in [SUBSET (1 .. N) -> X] : LeftFoldOf(h, N, X, a, G)
<1> DEFINE D == 1 .. N
           c == [s \in SUBSET D |-> Max(s)]
<1>1. \A s \in SUBSET D : c[s] = Max(s)
  OBVIOUS
<1>2. Chooses(c, D)
  BY <1>1, MaxOfPositions DEF Chooses
<1>3. IsFiniteSet(D) /\ G \in [D -> [X -> X]]
  BY FS_Interval
<1> HIDE DEF c, D
<1>4. PICK h \in [SUBSET D -> X] : FoldOf(h, D, a, G, c)
  BY <1>2, <1>3, FoldExists
<1>5. \A s \in SUBSET D : s # {} => h[s] = G[Max(s)][h[s \ {Max(s)}]]
  <2> SUFFICES ASSUME NEW s \in SUBSET D, s # {}
               PROVE  h[s] = G[Max(s)][h[s \ {Max(s)}]]
    OBVIOUS
  <2>1. c[s] = Max(s)
    BY <1>1
  <2>2. h[s] = G[c[s]][h[s \ {c[s]}]]
    BY <1>4 DEF FoldOf
  <2> QED
    BY <2>1, <2>2
<1>6. LeftFoldOf(h, N, X, a, G)
  BY <1>4, <1>5 DEF D, FoldOf, LeftFoldOf
<1> QED
  BY <1>6 DEF D

IsFold(h, N, X, a, G) ==
  N \in Nat /\ a \in X /\ G \in [1 .. N -> [X -> X]] /\ LeftFoldOf(h, N, X, a, G)

(* The values of a fold from left to right are a run of its steps. *)
LEMMA FoldToRun ==
  ASSUME NEW N, NEW X, NEW a, NEW G, NEW h, IsFold(h, N, X, a, G)
  PROVE  \E r \in [0 .. N -> X] : Follows(r, N, a, G) /\ r[N] = h[1 .. N]
<1>a. N \in Nat /\ a \in X /\ G \in [1 .. N -> [X -> X]] /\ LeftFoldOf(h, N, X, a, G)
  BY DEF IsFold
<1> USE <1>a
<1> DEFINE T == {n \in 0 .. N : h[1 .. n] \in X}
           r == [n \in 0 .. N |-> h[1 .. n]]
<1>1. 1 .. 0 = {}
  OBVIOUS
<1>2. \A n \in 1 .. N : h[1 .. n - 1] \in X =>
        h[1 .. n] = G[n][h[1 .. n - 1]] /\ h[1 .. n] \in X
  <2> SUFFICES ASSUME NEW n \in 1 .. N, h[1 .. n - 1] \in X
               PROVE  h[1 .. n] = G[n][h[1 .. n - 1]] /\ h[1 .. n] \in X
    OBVIOUS
  <2>1. Max(1 .. n) = n /\ (1 .. n) \ {n} = 1 .. n - 1 /\ 1 .. n # {} /\ 1 .. n \in SUBSET (1 .. N)
    <3>1. Max(1 .. n) = n /\ (1 .. n) \ {n} = 1 .. n - 1 /\ 1 .. n # {}
      BY MaxOfPositions
    <3>2. 1 .. n \in SUBSET (1 .. N)
      OBVIOUS
    <3> QED
      BY <3>1, <3>2
  <2>2. h[1 .. n] = G[n][h[1 .. n - 1]]
    BY <2>1 DEF LeftFoldOf
  <2>3. G[n] \in [X -> X]
    OBVIOUS
  <2> QED
    BY <2>2, <2>3
<1>3. 0 \in T
  BY <1>1 DEF LeftFoldOf
<1>4. ASSUME NEW n \in 0 .. N - 1, n \in T
      PROVE  n + 1 \in T
  <2>1. n + 1 \in 1 .. N /\ n + 1 \in 0 .. N /\ n + 1 - 1 = n
    OBVIOUS
  <2>2. h[1 .. n] \in X
    BY <1>4
  <2> QED
    BY <1>2, <2>1, <2>2
<1>5. 0 .. N \subseteq T
  <2> HIDE DEF T
  <2> QED
    BY <1>3, <1>4, UpTo
<1>6. \A n \in 0 .. N : h[1 .. n] \in X
  BY <1>5
<1>7. r \in [0 .. N -> X]
  BY <1>6
<1>8. Follows(r, N, a, G)
  <2>1. r[0] = a
    BY <1>1 DEF LeftFoldOf
  <2>2. ASSUME NEW n \in 1 .. N
        PROVE  r[n] = G[n][r[n - 1]]
    <3>1. n - 1 \in 0 .. N /\ n \in 0 .. N
      OBVIOUS
    <3>2. r[n] = h[1 .. n] /\ r[n - 1] = h[1 .. n - 1] /\ h[1 .. n - 1] \in X
      BY <1>6, <3>1
    <3> HIDE DEF r
    <3> QED
      BY <1>2, <3>2
  <2> HIDE DEF r
  <2> QED
    BY <2>1, <2>2 DEF Follows
<1>9. r[N] = h[1 .. N]
  OBVIOUS
<1> HIDE DEF r
<1> QED
  BY <1>7, <1>8, <1>9

(* gaim's own buddies are stored on the server. *)
LEMMA StoreMineLemma ==
  ASSUME NEW S \in Sessions, NEW b \in EntryType
  PROVE  StoreMine(S, b) \in From(S)
<1>1. b.name \in Names /\ b.group \in Names /\ b.alias \in Values \cup {NULL}
  BY DEF EntryType
<1>2. AliasData(b.alias) \subseteq Tlvs
  BY <1>1, AliasDataType
<1>3. /\ aim_ssi_addbuddy(S, b.name, b.group, AliasData(b.alias)) \in From(S)
      /\ aim_ssi_aliasbuddy(S, b.group, b.name, b.alias) \in From(S)
  BY <1>1, <1>2, AddBuddyLemma, AliasBuddyLemma
<1> QED
  BY <1>3, FromRefl DEF StoreMine

(* One after the other. *)
LEMMA StoreMineRun ==
  ASSUME NEW S \in Sessions, NEW seq \in Seq(EntryType)
  PROVE  \E r \in [0 .. Len(seq) -> From(S)] :
           /\ r[0] = S /\ r[Len(seq)] = FoldLeft(StoreMine, S, seq)
           /\ \A n \in 1 .. Len(seq) : r[n] = StoreMine(r[n - 1], seq[n])
<1> DEFINE N == Len(seq)
           X == From(S)
           Step(T, n) == StoreMine(T, seq[n])
           G == [n \in 1 .. N |-> [T \in X |-> Step(T, n)]]
           Body(h) == [s \in SUBSET (1 .. N) |->
                         IF s = {} THEN S ELSE Step(h[s \ {Max(s)}], Max(s))]
           h == CHOOSE f : f = Body(f)
<1>1. S \in X /\ N \in Nat
  BY FromRefl
<1>2. ASSUME NEW n \in 1 .. N, NEW T \in X
      PROVE  Step(T, n) \in X
  <2>1. T \in Sessions /\ seq[n] \in EntryType
    BY DEF From
  <2>2. StoreMine(T, seq[n]) \in From(T)
    BY <2>1, StoreMineLemma
  <2> QED
    BY <2>2, FromTrans
<1>3. FoldLeft(StoreMine, S, seq) = h[1 .. N]
  <2>1. DOMAIN seq = 1 .. N
    OBVIOUS
  <2> QED
    BY <2>1 DEF FoldLeft, MapThenFoldSet
<1> HIDE DEF Step
<1>4. G \in [1 .. N -> [X -> X]]
  BY <1>2
<1>5. PICK g \in [SUBSET (1 .. N) -> X] : LeftFoldOf(g, N, X, S, G)
  <2> HIDE DEF X, G, N
  <2> QED
    BY <1>1, <1>4, LeftFoldExists
<1>m. \A s \in SUBSET (1 .. N) : s # {} => Max(s) \in 1 .. N /\ s \ {Max(s)} \in SUBSET (1 .. N)
  <2> HIDE DEF N
  <2> QED
    BY <1>1, MaxOfPositions
<1> HIDE DEF N, X
<1>6. g = Body(g)
  <2>1. \A s \in SUBSET (1 .. N) :
          g[s] = IF s = {} THEN S ELSE Step(g[s \ {Max(s)}], Max(s))
    BY <1>5, <1>m DEF LeftFoldOf
  <2> QED
    BY <2>1
<1>7. h = Body(h)
  <2> HIDE DEF Body
  <2> QED
    BY <1>6
<1>8. /\ h[{}] = S
      /\ \A s \in SUBSET (1 .. N) : s # {} => h[s] = Step(h[s \ {Max(s)}], Max(s))
  <2> HIDE DEF h
  <2> QED
    BY <1>7
<1> HIDE DEF h
<1>9. IsFold(h, N, X, S, G)
  BY <1>1, <1>4, <1>8, <1>m DEF IsFold, LeftFoldOf
<1>10. \A n \in 1 .. N, T \in X : G[n][T] = Step(T, n)
  OBVIOUS
<1> HIDE DEF G
<1>11. PICK r \in [0 .. N -> X] : Follows(r, N, S, G) /\ r[N] = h[1 .. N]
  BY <1>9, FoldToRun
<1>12. \A n \in 1 .. N : r[n] = Step(r[n - 1], n)
  <2> SUFFICES ASSUME NEW n \in 1 .. N
               PROVE  r[n] = Step(r[n - 1], n)
    OBVIOUS
  <2>1. r[n] = G[n][r[n - 1]] /\ n - 1 \in 0 .. N
    BY <1>1, <1>11 DEF Follows
  <2>2. r[n - 1] \in X
    BY <2>1
  <2> QED
    BY <1>10, <2>1, <2>2
<1>13. r[0] = S
  BY <1>11 DEF Follows
<1> QED
  BY <1>3, <1>11, <1>12, <1>13 DEF N, X, Step

(* An edit puts the session ahead. *)
LEMMA EditedFrom ==
  ASSUME NEW S \in Sessions, NEW T, Edited(S, T)
  PROVE  T \in From(S) /\ T \in Sessions
BY DEF Edited, Kept, From

(* Nameless entries and orphans. *)
LEMMA CleanItemLemma ==
  ASSUME NEW S \in Sessions, NEW it \in ContentType
  PROVE  CleanItem(S, it) \in From(S)
<1>1. it.name \in Called /\ Orphans \in Names
  BY NamesAssumption DEF ContentType
<1>2. aim_ssi_delbuddy(S, NULL, NULL) \in From(S) /\ DelPrivate(S, it.type, NULL) \in From(S)
  BY DelBuddyLemma, DelPrivateLemma
<1>3. it.name # NULL =>
        aim_ssi_delbuddy(aim_ssi_addbuddy(S, it.name, Orphans, {}), it.name, NULL) \in From(S)
  <2> SUFFICES ASSUME it.name # NULL
               PROVE  aim_ssi_delbuddy(aim_ssi_addbuddy(S, it.name, Orphans, {}), it.name, NULL)
                        \in From(S)
    OBVIOUS
  <2> DEFINE T == aim_ssi_addbuddy(S, it.name, Orphans, {})
  <2>1. it.name \in Names
    BY <1>1 DEF Called
  <2>2. T \in From(S)
    BY <1>1, <2>1, AddBuddyLemma
  <2> HIDE DEF T
  <2>3. T \in Sessions
    BY <2>2 DEF From
  <2>4. aim_ssi_delbuddy(T, it.name, NULL) \in From(T)
    BY <2>3, DelBuddyLemma
  <2>5. aim_ssi_delbuddy(T, it.name, NULL) \in From(S)
    BY <2>2, <2>4, FromTrans
  <2> QED
    BY <2>5 DEF T
<1>4. S \in From(S)
  BY FromRefl
<1> QED
  BY <1>2, <1>3, <1>4 DEF CleanItem

(* One after the other. *)
LEMMA CleanItemRun ==
  ASSUME NEW S \in Sessions, NEW seq \in Seq(ContentType)
  PROVE  \E r \in [0 .. Len(seq) -> From(S)] :
           /\ r[0] = S /\ r[Len(seq)] = FoldLeft(CleanItem, S, seq)
           /\ \A n \in 1 .. Len(seq) : r[n] = CleanItem(r[n - 1], seq[n])
<1> DEFINE N == Len(seq)
           X == From(S)
           Step(T, n) == CleanItem(T, seq[n])
           G == [n \in 1 .. N |-> [T \in X |-> Step(T, n)]]
           Body(h) == [s \in SUBSET (1 .. N) |->
                         IF s = {} THEN S ELSE Step(h[s \ {Max(s)}], Max(s))]
           h == CHOOSE f : f = Body(f)
<1>1. S \in X /\ N \in Nat
  BY FromRefl
<1>2. ASSUME NEW n \in 1 .. N, NEW T \in X
      PROVE  Step(T, n) \in X
  <2>1. T \in Sessions /\ seq[n] \in ContentType
    BY DEF From
  <2>2. CleanItem(T, seq[n]) \in From(T)
    BY <2>1, CleanItemLemma
  <2> QED
    BY <2>2, FromTrans
<1>3. FoldLeft(CleanItem, S, seq) = h[1 .. N]
  <2>1. DOMAIN seq = 1 .. N
    OBVIOUS
  <2> QED
    BY <2>1 DEF FoldLeft, MapThenFoldSet
<1> HIDE DEF Step
<1>4. G \in [1 .. N -> [X -> X]]
  BY <1>2
<1>5. PICK g \in [SUBSET (1 .. N) -> X] : LeftFoldOf(g, N, X, S, G)
  <2> HIDE DEF X, G, N
  <2> QED
    BY <1>1, <1>4, LeftFoldExists
<1>m. \A s \in SUBSET (1 .. N) : s # {} => Max(s) \in 1 .. N /\ s \ {Max(s)} \in SUBSET (1 .. N)
  <2> HIDE DEF N
  <2> QED
    BY <1>1, MaxOfPositions
<1> HIDE DEF N, X
<1>6. g = Body(g)
  <2>1. \A s \in SUBSET (1 .. N) :
          g[s] = IF s = {} THEN S ELSE Step(g[s \ {Max(s)}], Max(s))
    BY <1>5, <1>m DEF LeftFoldOf
  <2> QED
    BY <2>1
<1>7. h = Body(h)
  <2> HIDE DEF Body
  <2> QED
    BY <1>6
<1>8. /\ h[{}] = S
      /\ \A s \in SUBSET (1 .. N) : s # {} => h[s] = Step(h[s \ {Max(s)}], Max(s))
  <2> HIDE DEF h
  <2> QED
    BY <1>7
<1> HIDE DEF h
<1>9. IsFold(h, N, X, S, G)
  BY <1>1, <1>4, <1>8, <1>m DEF IsFold, LeftFoldOf
<1>10. \A n \in 1 .. N, T \in X : G[n][T] = Step(T, n)
  OBVIOUS
<1> HIDE DEF G
<1>11. PICK r \in [0 .. N -> X] : Follows(r, N, S, G) /\ r[N] = h[1 .. N]
  BY <1>9, FoldToRun
<1>12. \A n \in 1 .. N : r[n] = Step(r[n - 1], n)
  <2> SUFFICES ASSUME NEW n \in 1 .. N
               PROVE  r[n] = Step(r[n - 1], n)
    OBVIOUS
  <2>1. r[n] = G[n][r[n - 1]] /\ n - 1 \in 0 .. N
    BY <1>1, <1>11 DEF Follows
  <2>2. r[n - 1] \in X
    BY <2>1
  <2> QED
    BY <1>10, <2>1, <2>2
<1>13. r[0] = S
  BY <1>11 DEF Follows
<1> QED
  BY <1>3, <1>11, <1>12, <1>13 DEF N, X, Step

(* What an item is apart from its ref. *)
LEMMA ContentIn ==
  ASSUME NEW it \in ItemType
  PROVE  /\ Content(it) \in ContentType
         /\ Content(it).name = it.name /\ Content(it).gid = it.gid /\ Content(it).bid = it.bid
         /\ Content(it).type = it.type /\ Content(it).data = it.data
BY DEF Content, Item, ItemType, ContentType

(* aim_ssi_cleanlist *)
LEMMA CleanListLemma ==
  ASSUME NEW S \in Sessions
  PROVE  aim_ssi_cleanlist(S) \in From(S)
<1> DEFINE seq == [i \in DOMAIN S.local |-> Content(S.local[i])]
           T == FoldLeft(CleanItem, S, seq)
           at == {k \in DOMAIN T.local : T.local[k].type = "group" => Members(T.local[k].data) # {}}
           U == WithoutEmptyGroups(T)
<1>1. seq \in Seq(ContentType)
  <2>1. S.local \in Seq(ItemType) /\ DOMAIN S.local = 1 .. Len(S.local)
    BY SessionFields
  <2>2. \A i \in 1 .. Len(S.local) : Content(S.local[i]) \in ContentType
    BY <2>1, ContentIn
  <2> QED
    BY <2>1, <2>2
<1>2. T \in From(S)
  <2> HIDE DEF seq, T
  <2>1. \E r \in [0 .. Len(seq) -> From(S)] : r[Len(seq)] = FoldLeft(CleanItem, S, seq)
    BY <1>1, CleanItemRun
  <2>2. Len(seq) \in 0 .. Len(seq)
    BY <1>1
  <2> QED
    BY <2>1, <2>2 DEF T
<1> HIDE DEF T
<1>3. T \in Sessions
  BY <1>2 DEF From
<1>4. Edited(T, U)
  <2>1. Fits(T.local, Len(T.pending)) /\ Len(T.pending) \in Nat
    BY <1>3, SessionFields
  <2>2. at \subseteq DOMAIN T.local
    OBVIOUS
  <2>3. U = [T EXCEPT !.local = Chosen(T.local, at)]
    BY DEF WithoutEmptyGroups
  <2> HIDE DEF at, U
  <2>4. Fits(Chosen(T.local, at), Len(T.pending))
    BY <2>1, <2>2, FitsChosen
  <2> QED
    BY <1>3, <2>3, <2>4, LocalChanged
<1> HIDE DEF U
<1>5. U \in From(S) /\ U \in Sessions
  BY <1>2, <1>3, <1>4, EditedFrom, FromTrans
<1>6. DropMaster(U) \in From(U)
  BY <1>5, DropMasterLemma, EditedFrom
<1>7. DropMaster(U) \in From(S)
  BY <1>5, <1>6, FromTrans
<1> QED
  BY <1>7 DEF aim_ssi_cleanlist, U, T

(* Another own list. *)
LEMMA OwnChanged ==
  ASSUME NEW S \in Sessions, NEW buddies \in Seq(EntryType),
         NEW private \in Seq(PrivateTypes \X Names)
  PROVE  /\ Edited(S, [S EXCEPT !.own.buddies = buddies])
         /\ [S EXCEPT !.own.buddies = buddies].local = S.local
         /\ Edited(S, [S EXCEPT !.own.private = private])
         /\ [S EXCEPT !.own.private = private].local = S.local
<1> DEFINE o == [S.own EXCEPT !.buddies = buddies]
           q == [S.own EXCEPT !.private = private]
<1>1. o \in OwnType /\ q \in OwnType
  BY DEF Sessions, SessionType, OwnType
<1>2. [S EXCEPT !.own.buddies = buddies] = [S EXCEPT !.own = o]
      /\ [S EXCEPT !.own.private = private] = [S EXCEPT !.own = q]
  OBVIOUS
<1> HIDE DEF o, q
<1>3. ASSUME NEW w \in OwnType
      PROVE  Edited(S, [S EXCEPT !.own = w]) /\ [S EXCEPT !.own = w].local = S.local
  <2> DEFINE T == [S EXCEPT !.own = w]
  <2>1. T \in SessionType
    BY DEF Sessions, SessionType
  <2>2. /\ T.local = S.local /\ T.official = S.official /\ T.pending = S.pending
        /\ T.waiting = S.waiting /\ T.received = S.received /\ T.out = S.out
        /\ T.asked = S.asked /\ T.reuse = S.reuse
    BY DEF Sessions, SessionType
  <2> HIDE DEF T
  <2>3. T \in Sessions
    BY <2>1, <2>2 DEF Sessions
  <2>4. Edited(S, T) /\ T.local = S.local
    BY <2>2, <2>3 DEF Edited, Kept
  <2> QED
    BY <2>4 DEF T
<1>4. Edited(S, [S EXCEPT !.own = o]) /\ [S EXCEPT !.own = o].local = S.local
  BY <1>1, <1>3
<1>5. Edited(S, [S EXCEPT !.own = q]) /\ [S EXCEPT !.own = q].local = S.local
  BY <1>1, <1>3
<1> QED
  BY <1>2, <1>4, <1>5

(* One item of the server's list is taken over into gaim's. *)
LEMMA StoreTheirsLemma ==
  ASSUME NEW S \in Sessions, NEW it \in ItemType
  PROVE  Edited(S, StoreTheirs(S, it))
<1> DEFINE i == gaim_find_buddy(S, it.name)
           gname == aim_ssi_itemlist_findparentname(S.local, it.name)
           alias == aim_ssi_getalias(S.local, gname, it.name)
           text == IF alias = {} THEN NULL ELSE (CHOOSE t \in alias : TRUE)[2]
           group == IF gname = NULL THEN Orphans ELSE gname
           l == S.own.buddies
           p == S.own.private
<1>1. /\ S.local \in Seq(ItemType) /\ l \in Seq(EntryType)
      /\ p \in Seq(PrivateTypes \X Names)
  BY SessionFields
<1>2. i \in 0 .. Len(l)
  <2> DEFINE set == {k \in DOMAIN l : Same(l[k].name, it.name)}
  <2>1. set \subseteq 1 .. Len(l) /\ set \subseteq Nat \ {0} /\ Len(l) \in Nat
    BY <1>1
  <2>2. i = FirstOf(set)
    BY DEF gaim_find_buddy
  <2> HIDE DEF set, i, l
  <2>3. FirstOf(set) \in set \cup {0}
    BY <2>1, FirstOfLemma
  <2>4. 0 \in 0 .. Len(l) /\ \A k \in set : k \in 0 .. Len(l)
    BY <2>1
  <2> QED
    BY <2>2, <2>3, <2>4
<1>3. gname \in Called
  <2> DEFINE b == aim_ssi_itemlist_exists(S.local, it.name)
             g == aim_ssi_itemlist_find(S.local, S.local[b].gid, 0)
  <2>1. gname = IF b = 0 THEN NULL ELSE IF g = 0 THEN NULL ELSE S.local[g].name
    BY DEF aim_ssi_itemlist_findparentname
  <2>2. g \in 0 .. Len(S.local)
    BY <1>1, FoundAt
  <2> HIDE DEF b, g, gname
  <2>3. g # 0 => S.local[g] \in ItemType
    BY <1>1, <2>2
  <2> QED
    BY <2>1, <2>3 DEF ItemType, Called
<1>4. group \in Names
  BY <1>3, NamesAssumption DEF Called
<1>5. text \in Values \cup {NULL}
  <2>1. alias \subseteq Tlvs
    BY DataOfBuddy
  <2>2. \A t \in Tlvs : t[2] \in Values
    <3>1. \A t \in Kinds \X Values : t[2] \in Values
      OBVIOUS
    <3>2. \A t \in UNION {x.data : x \in Given} : t[2] \in Values
      BY DEF Values
    <3> QED
      BY <3>1, <3>2 DEF Tlvs
  <2>3. alias # {} => (CHOOSE t \in alias : TRUE) \in alias
    OBVIOUS
  <2> HIDE DEF alias
  <2> QED
    BY <2>1, <2>2, <2>3
<1> DEFINE A == [S EXCEPT !.own.buddies = Append(l, Own(it.name, group, text))]
           B == [S EXCEPT !.own.buddies[i].alias = text]
           C == [S EXCEPT !.own.private = Append(p, <<it.type, it.name>>)]
<1>6. it.name # NULL => Edited(S, A)
  <2> HIDE DEF l, p, i, gname, alias, text, group
  <2> SUFFICES ASSUME it.name # NULL
               PROVE  Edited(S, A)
    OBVIOUS
  <2>1. it.name \in Names
    BY DEF ItemType, Called
  <2>2. Own(it.name, group, text) \in EntryType
    BY <1>4, <1>5, <2>1 DEF Own, EntryType
  <2>3. Append(l, Own(it.name, group, text)) \in Seq(EntryType)
    BY <1>1, <2>2
  <2> QED
    BY <1>1, <2>3, OwnChanged
<1>7. i # 0 => Edited(S, B)
  <2> DEFINE l2 == [l EXCEPT ![i].alias = text]
  <2>1. B = [S EXCEPT !.own.buddies = l2]
    OBVIOUS
  <2> HIDE DEF i, gname, alias, text, group
  <2>2. i # 0 => l2 \in Seq(EntryType)
    <3> SUFFICES ASSUME i # 0
                 PROVE  l2 \in Seq(EntryType)
      OBVIOUS
    <3>1. i \in 1 .. Len(l)
      BY <1>2
    <3> HIDE DEF l
    <3>a. l[i] \in EntryType
      BY <1>1, <3>1
    <3>2. [l[i] EXCEPT !.alias = text] \in EntryType
      BY <1>5, <3>a DEF EntryType
    <3> QED
      BY <1>1, <3>1, <3>2
  <2> HIDE DEF l2, B
  <2> QED
    BY <1>1, <2>1, <2>2, OwnChanged
<1>8. it.name # NULL /\ it.type \in {"permit", "deny"} => Edited(S, C)
  <2> SUFFICES ASSUME it.name # NULL, it.type \in {"permit", "deny"}
               PROVE  Edited(S, C)
    OBVIOUS
  <2> HIDE DEF l, p
  <2>1. <<it.type, it.name>> \in PrivateTypes \X Names
    BY DEF ItemType, Called, PrivateTypes
  <2>2. Append(p, <<it.type, it.name>>) \in Seq(PrivateTypes \X Names)
    BY <1>1, <2>1
  <2> QED
    BY <1>1, <2>2, OwnChanged
<1>9. Edited(S, S)
  BY FromRefl
<1>10. StoreTheirs(S, it) =
         CASE it.type = "buddy" /\ it.name # NULL /\ i = 0 -> A
           [] it.type = "buddy" /\ it.name # NULL /\ i # 0 /\ alias # {} -> B
           [] it.type \in {"permit", "deny"} /\ it.name # NULL
              /\ ~\E x \in ToSet(p) : x[1] = it.type /\ Same(x[2], it.name) -> C
           [] OTHER -> S
  BY DEF StoreTheirs
<1> HIDE DEF A, B, C, i, alias, p
<1> QED
  BY <1>6, <1>7, <1>8, <1>9, <1>10

(* One after the other. *)
LEMMA StoreTheirsRun ==
  ASSUME NEW S \in Sessions, NEW seq \in Seq(ItemType)
  PROVE  \E r \in [0 .. Len(seq) -> {U \in Sessions : Edited(S, U)}] :
           /\ r[0] = S /\ r[Len(seq)] = FoldLeft(StoreTheirs, S, seq)
           /\ \A n \in 1 .. Len(seq) : r[n] = StoreTheirs(r[n - 1], seq[n])
<1> DEFINE N == Len(seq)
           X == {U \in Sessions : Edited(S, U)}
           Step(T, n) == StoreTheirs(T, seq[n])
           G == [n \in 1 .. N |-> [T \in X |-> Step(T, n)]]
           Body(h) == [s \in SUBSET (1 .. N) |->
                         IF s = {} THEN S ELSE Step(h[s \ {Max(s)}], Max(s))]
           h == CHOOSE f : f = Body(f)
<1>1. S \in X /\ N \in Nat
  BY FromRefl
<1>2. ASSUME NEW n \in 1 .. N, NEW T \in X
      PROVE  Step(T, n) \in X
  <2>1. T \in Sessions /\ Edited(S, T) /\ seq[n] \in ItemType
    OBVIOUS
  <2>2. Edited(T, StoreTheirs(T, seq[n]))
    BY <2>1, StoreTheirsLemma
  <2>3. Edited(S, StoreTheirs(T, seq[n])) /\ StoreTheirs(T, seq[n]) \in Sessions
    BY <2>1, <2>2, EditedTrans, EditedFrom
  <2> QED
    BY <2>3
<1>3. FoldLeft(StoreTheirs, S, seq) = h[1 .. N]
  <2>1. DOMAIN seq = 1 .. N
    OBVIOUS
  <2> QED
    BY <2>1 DEF FoldLeft, MapThenFoldSet
<1> HIDE DEF Step
<1>4. G \in [1 .. N -> [X -> X]]
  BY <1>2
<1>5. PICK g \in [SUBSET (1 .. N) -> X] : LeftFoldOf(g, N, X, S, G)
  <2> HIDE DEF X, G, N
  <2> QED
    BY <1>1, <1>4, LeftFoldExists
<1>m. \A s \in SUBSET (1 .. N) : s # {} => Max(s) \in 1 .. N /\ s \ {Max(s)} \in SUBSET (1 .. N)
  <2> HIDE DEF N
  <2> QED
    BY <1>1, MaxOfPositions
<1> HIDE DEF N, X
<1>6. g = Body(g)
  <2>1. \A s \in SUBSET (1 .. N) :
          g[s] = IF s = {} THEN S ELSE Step(g[s \ {Max(s)}], Max(s))
    BY <1>5, <1>m DEF LeftFoldOf
  <2> QED
    BY <2>1
<1>7. h = Body(h)
  <2> HIDE DEF Body
  <2> QED
    BY <1>6
<1>8. /\ h[{}] = S
      /\ \A s \in SUBSET (1 .. N) : s # {} => h[s] = Step(h[s \ {Max(s)}], Max(s))
  <2> HIDE DEF h
  <2> QED
    BY <1>7
<1> HIDE DEF h
<1>9. IsFold(h, N, X, S, G)
  BY <1>1, <1>4, <1>8, <1>m DEF IsFold, LeftFoldOf
<1>10. \A n \in 1 .. N, T \in X : G[n][T] = Step(T, n)
  OBVIOUS
<1> HIDE DEF G
<1>11. PICK r \in [0 .. N -> X] : Follows(r, N, S, G) /\ r[N] = h[1 .. N]
  BY <1>9, FoldToRun
<1>12. \A n \in 1 .. N : r[n] = Step(r[n - 1], n)
  <2> SUFFICES ASSUME NEW n \in 1 .. N
               PROVE  r[n] = Step(r[n - 1], n)
    OBVIOUS
  <2>1. r[n] = G[n][r[n - 1]] /\ n - 1 \in 0 .. N
    BY <1>1, <1>11 DEF Follows
  <2>2. r[n - 1] \in X
    BY <2>1
  <2> QED
    BY <1>10, <2>1, <2>2
<1>13. r[0] = S
  BY <1>11 DEF Follows
<1> QED
  BY <1>3, <1>11, <1>12, <1>13 DEF N, X, Step

-----------------------------------------------------------------------------
(* gaim_ssi_parselist *)

(* A contact of the permit or deny list is stored on the server. *)
LEMMA StorePrivateLemma ==
  ASSUME NEW S \in Sessions, NEW p \in PrivateTypes \X Names
  PROVE  StorePrivate(S, p) \in From(S)
<1>1. p[1] \in PrivateTypes /\ p[2] \in Names
  OBVIOUS
<1>2. AddPrivate(S, p[1], p[2]) \in From(S)
  BY <1>1, AddPrivateLemma
<1> QED
  BY <1>2, FromRefl DEF StorePrivate

(* One after the other. *)
LEMMA StorePrivateRun ==
  ASSUME NEW S \in Sessions, NEW seq \in Seq(PrivateTypes \X Names)
  PROVE  \E r \in [0 .. Len(seq) -> From(S)] :
           /\ r[0] = S /\ r[Len(seq)] = FoldLeft(StorePrivate, S, seq)
           /\ \A n \in 1 .. Len(seq) : r[n] = StorePrivate(r[n - 1], seq[n])
<1> DEFINE N == Len(seq)
           X == From(S)
           Step(T, n) == StorePrivate(T, seq[n])
           G == [n \in 1 .. N |-> [T \in X |-> Step(T, n)]]
           Body(h) == [s \in SUBSET (1 .. N) |->
                         IF s = {} THEN S ELSE Step(h[s \ {Max(s)}], Max(s))]
           h == CHOOSE f : f = Body(f)
<1>1. S \in X /\ N \in Nat
  BY FromRefl
<1>2. ASSUME NEW n \in 1 .. N, NEW T \in X
      PROVE  Step(T, n) \in X
  <2>1. T \in Sessions /\ seq[n] \in PrivateTypes \X Names
    BY DEF From
  <2>2. StorePrivate(T, seq[n]) \in From(T)
    BY <2>1, StorePrivateLemma
  <2> QED
    BY <2>2, FromTrans
<1>3. FoldLeft(StorePrivate, S, seq) = h[1 .. N]
  <2>1. DOMAIN seq = 1 .. N
    OBVIOUS
  <2> QED
    BY <2>1 DEF FoldLeft, MapThenFoldSet
<1> HIDE DEF Step
<1>4. G \in [1 .. N -> [X -> X]]
  BY <1>2
<1>5. PICK g \in [SUBSET (1 .. N) -> X] : LeftFoldOf(g, N, X, S, G)
  <2> HIDE DEF X, G, N
  <2> QED
    BY <1>1, <1>4, LeftFoldExists
<1>m. \A s \in SUBSET (1 .. N) : s # {} => Max(s) \in 1 .. N /\ s \ {Max(s)} \in SUBSET (1 .. N)
  <2> HIDE DEF N
  <2> QED
    BY <1>1, MaxOfPositions
<1> HIDE DEF N, X
<1>6. g = Body(g)
  <2>1. \A s \in SUBSET (1 .. N) :
          g[s] = IF s = {} THEN S ELSE Step(g[s \ {Max(s)}], Max(s))
    BY <1>5, <1>m DEF LeftFoldOf
  <2> QED
    BY <2>1
<1>7. h = Body(h)
  <2> HIDE DEF Body
  <2> QED
    BY <1>6
<1>8. /\ h[{}] = S
      /\ \A s \in SUBSET (1 .. N) : s # {} => h[s] = Step(h[s \ {Max(s)}], Max(s))
  <2> HIDE DEF h
  <2> QED
    BY <1>7
<1> HIDE DEF h
<1>9. IsFold(h, N, X, S, G)
  BY <1>1, <1>4, <1>8, <1>m DEF IsFold, LeftFoldOf
<1>10. \A n \in 1 .. N, T \in X : G[n][T] = Step(T, n)
  OBVIOUS
<1> HIDE DEF G
<1>11. PICK r \in [0 .. N -> X] : Follows(r, N, S, G) /\ r[N] = h[1 .. N]
  BY <1>9, FoldToRun
<1>12. \A n \in 1 .. N : r[n] = Step(r[n - 1], n)
  <2> SUFFICES ASSUME NEW n \in 1 .. N
               PROVE  r[n] = Step(r[n - 1], n)
    OBVIOUS
  <2>1. r[n] = G[n][r[n - 1]] /\ n - 1 \in 0 .. N
    BY <1>1, <1>11 DEF Follows
  <2>2. r[n - 1] \in X
    BY <2>1
  <2> QED
    BY <1>10, <2>1, <2>2
<1>13. r[0] = S
  BY <1>11 DEF Follows
<1> QED
  BY <1>3, <1>11, <1>12, <1>13 DEF N, X, Step

(* A user who was hidden is shown. *)
LEMMA ShowIdleLemma ==
  ASSUME NEW S \in Sessions
  PROVE  ShowIdle(S) \in From(S)
<1>1. "presence" \in {"pdinfo", "presence"} /\ "shown" \in Values
  BY DEF Values
<1>2. SetOption(S, "presence", "shown") \in From(S)
  BY <1>1, SetOptionLemma
<1> QED
  BY <1>2, FromRefl DEF ShowIdle

(* The whole of gaim_ssi_parselist is edits. *)
LEMMA ParseListLemma ==
  ASSUME NEW S \in Sessions
  PROVE  gaim_ssi_parselist(S) \in From(S)
<1> DEFINE T == aim_ssi_cleanlist(S)
           U == TakenOver(T)
           V == BuddiesStored(U)
           W == PrivateStored(V)
<1>1. T \in From(S) /\ T \in Sessions
  BY CleanListLemma DEF From
<1> HIDE DEF T
<1>2. U \in From(T) /\ U \in Sessions
  <2>1. T.local \in Seq(ItemType)
    BY <1>1, SessionFields
  <2>2. \E r \in [0 .. Len(T.local) -> {Z \in Sessions : Edited(T, Z)}] :
          r[Len(T.local)] = FoldLeft(StoreTheirs, T, T.local)
    BY <1>1, <2>1, StoreTheirsRun
  <2>3. Len(T.local) \in 0 .. Len(T.local)
    BY <2>1
  <2>4. Edited(T, U)
    BY <2>2, <2>3 DEF TakenOver
  <2> HIDE DEF U
  <2> QED
    BY <1>1, <2>4, EditedFrom
<1> HIDE DEF U
<1>3. V \in From(U) /\ V \in Sessions
  <2>1. U.own.buddies \in Seq(EntryType)
    BY <1>2, SessionFields
  <2>2. \E r \in [0 .. Len(U.own.buddies) -> From(U)] :
          r[Len(U.own.buddies)] = FoldLeft(StoreMine, U, U.own.buddies)
    <3> DEFINE seq == U.own.buddies
    <3>1. seq \in Seq(EntryType) /\ U \in Sessions
      BY <1>2, <2>1
    <3> HIDE DEF seq
    <3>2. \E r \in [0 .. Len(seq) -> From(U)] : r[Len(seq)] = FoldLeft(StoreMine, U, seq)
      BY <3>1, StoreMineRun
    <3> QED
      BY <3>2 DEF seq
  <2>3. Len(U.own.buddies) \in 0 .. Len(U.own.buddies)
    BY <2>1
  <2>4. V \in From(U)
    BY <2>2, <2>3 DEF BuddiesStored
  <2> QED
    BY <2>4 DEF From
<1> HIDE DEF V
<1>4. W \in From(V) /\ W \in Sessions
  <2>1. V.own.private \in Seq(PrivateTypes \X Names)
    BY <1>3, SessionFields
  <2>2. \E r \in [0 .. Len(V.own.private) -> From(V)] :
          r[Len(V.own.private)] = FoldLeft(StorePrivate, V, V.own.private)
    <3> DEFINE seq == V.own.private
    <3>1. seq \in Seq(PrivateTypes \X Names) /\ V \in Sessions
      BY <1>3, <2>1
    <3> HIDE DEF seq
    <3>2. \E r \in [0 .. Len(seq) -> From(V)] : r[Len(seq)] = FoldLeft(StorePrivate, V, seq)
      BY <3>1, StorePrivateRun
    <3> QED
      BY <3>2 DEF seq
  <2>3. Len(V.own.private) \in 0 .. Len(V.own.private)
    BY <2>1
  <2>4. W \in From(V)
    BY <2>2, <2>3 DEF PrivateStored
  <2> QED
    BY <2>4 DEF From
<1> HIDE DEF W
<1>5. ShowIdle(W) \in From(W)
  BY <1>4, ShowIdleLemma
<1>6. U \in From(S)
  BY <1>1, <1>2, FromTrans
<1>7. V \in From(S)
  BY <1>1, <1>3, <1>6, FromTrans
<1>8. W \in From(S)
  BY <1>4, <1>7, FromTrans
<1>9. ShowIdle(W) \in From(S)
  BY <1>5, <1>8, FromTrans
<1> QED
  BY <1>9 DEF gaim_ssi_parselist, W, V, U, T

-----------------------------------------------------------------------------
(* What the server sends. *)

Addables(Y) == \A it \in Y : Addable(it.name, it.gid, it.bid, it.type, it.data)

(* Items of either kind can be added. *)
LEMMA ItemsAddable == Addables(ItemType) /\ Addables(ContentType)
BY DEF Addables, Addable, ItemType, ContentType

(* One more item in either list. *)
LEMMA AddItemKept ==
  ASSUME NEW S \in Sessions, NEW which \in {"local", "official"}, NEW it,
         Addable(it.name, it.gid, it.bid, it.type, it.data)
  PROVE  Kept(S, AddItem(S, which, it))
<1>1. CASE which = "local"
  BY <1>1, AddLocal DEF AddItem, Edited
<1>2. CASE which = "official"
  BY <1>2, AddOfficial DEF AddItem
<1> QED
  BY <1>1, <1>2

(* Many more items. *)
LEMMA AddAllRun ==
  ASSUME NEW S \in Sessions, NEW which \in {"local", "official"}, NEW Y, Addables(Y), NEW seq \in Seq(Y)
  PROVE  \E r \in [0 .. Len(seq) -> {U \in Sessions : Kept(S, U)}] :
           /\ r[0] = S /\ r[Len(seq)] = AddAll(S, which, seq)
           /\ \A n \in 1 .. Len(seq) : r[n] = AddItem(r[n - 1], which, seq[n])
<1> DEFINE N == Len(seq)
           X == {U \in Sessions : Kept(S, U)}
           Step(T, n) == AddItem(T, which, seq[n])
           G == [n \in 1 .. N |-> [T \in X |-> Step(T, n)]]
           Body(h) == [s \in SUBSET (1 .. N) |->
                         IF s = {} THEN S ELSE Step(h[s \ {Max(s)}], Max(s))]
           h == CHOOSE f : f = Body(f)
<1>1. S \in X /\ N \in Nat
  BY FromRefl DEF Edited
<1>2. ASSUME NEW n \in 1 .. N, NEW T \in X
      PROVE  Step(T, n) \in X
  <2>1. T \in Sessions /\ Kept(S, T) /\ seq[n] \in Y
    OBVIOUS
  <2>2. Addable(seq[n].name, seq[n].gid, seq[n].bid, seq[n].type, seq[n].data)
    BY <2>1 DEF Addables
  <2>3. Kept(T, AddItem(T, which, seq[n]))
    BY <2>1, <2>2, AddItemKept
  <2>4. Kept(S, AddItem(T, which, seq[n])) /\ AddItem(T, which, seq[n]) \in Sessions
    BY <2>1, <2>3, KeptTrans DEF Kept
  <2> QED
    BY <2>4
<1>3. AddAll(S, which, seq) = h[1 .. N]
  <2>1. DOMAIN seq = 1 .. N
    OBVIOUS
  <2> QED
    BY <2>1 DEF FoldLeft, MapThenFoldSet, AddAll
<1> HIDE DEF Step
<1>4. G \in [1 .. N -> [X -> X]]
  BY <1>2
<1>5. PICK g \in [SUBSET (1 .. N) -> X] : LeftFoldOf(g, N, X, S, G)
  <2> HIDE DEF X, G, N
  <2> QED
    BY <1>1, <1>4, LeftFoldExists
<1>m. \A s \in SUBSET (1 .. N) : s # {} => Max(s) \in 1 .. N /\ s \ {Max(s)} \in SUBSET (1 .. N)
  <2> HIDE DEF N
  <2> QED
    BY <1>1, MaxOfPositions
<1> HIDE DEF N, X
<1>6. g = Body(g)
  <2>1. \A s \in SUBSET (1 .. N) :
          g[s] = IF s = {} THEN S ELSE Step(g[s \ {Max(s)}], Max(s))
    BY <1>5, <1>m DEF LeftFoldOf
  <2> QED
    BY <2>1
<1>7. h = Body(h)
  <2> HIDE DEF Body
  <2> QED
    BY <1>6
<1>8. /\ h[{}] = S
      /\ \A s \in SUBSET (1 .. N) : s # {} => h[s] = Step(h[s \ {Max(s)}], Max(s))
  <2> HIDE DEF h
  <2> QED
    BY <1>7
<1> HIDE DEF h
<1>9. IsFold(h, N, X, S, G)
  BY <1>1, <1>4, <1>8, <1>m DEF IsFold, LeftFoldOf
<1>10. \A n \in 1 .. N, T \in X : G[n][T] = Step(T, n)
  OBVIOUS
<1> HIDE DEF G
<1>11. PICK r \in [0 .. N -> X] : Follows(r, N, S, G) /\ r[N] = h[1 .. N]
  BY <1>9, FoldToRun
<1>12. \A n \in 1 .. N : r[n] = Step(r[n - 1], n)
  <2> SUFFICES ASSUME NEW n \in 1 .. N
               PROVE  r[n] = Step(r[n - 1], n)
    OBVIOUS
  <2>1. r[n] = G[n][r[n - 1]] /\ n - 1 \in 0 .. N
    BY <1>1, <1>11 DEF Follows
  <2>2. r[n - 1] \in X
    BY <2>1
  <2> QED
    BY <1>10, <2>1, <2>2
<1>13. r[0] = S
  BY <1>11 DEF Follows
<1> QED
  BY <1>3, <1>11, <1>12, <1>13 DEF N, X, Step

Both == {"local", "official"}

Put(S, which, l) == [S EXCEPT ![which] = l]
OnlyHas(S, which, l, T) ==
  Kept(S, T) /\ T[which] = l /\ \A w \in Both : w # which => T[w] = S[w]

(* Another value of one of the two lists. *)
LEMMA ListChanged ==
  ASSUME NEW S \in Sessions, NEW which \in Both, NEW l, Fits(l, Len(S.pending))
  PROVE  OnlyHas(S, which, l, Put(S, which, l))
<1> DEFINE T == Put(S, which, l)
<1>1. CASE which = "local"
  <2> DEFINE U == [S EXCEPT !.local = l]
  <2>1. Edited(S, U) /\ U.local = l
    BY LocalChanged
  <2>2. T = U
    BY <1>1 DEF Put
  <2> HIDE DEF T, U
  <2>3. OnlyHas(S, which, l, T)
    BY <1>1, <2>1, <2>2 DEF Edited, Both, OnlyHas
  <2> QED
    BY <2>3 DEF T
<1>2. CASE which = "official"
  <2> DEFINE U == [S EXCEPT !.official = l]
  <2>1. Kept(S, U) /\ U.official = l /\ U.local = S.local
    BY OfficialChanged
  <2>2. T = U
    BY <1>2 DEF Put
  <2> HIDE DEF T, U
  <2>3. OnlyHas(S, which, l, T)
    BY <1>2, <2>1, <2>2 DEF Both, OnlyHas
  <2> QED
    BY <2>3 DEF T
<1> QED
  BY <1>1, <1>2 DEF Both

(* One of the two lists. *)
LEMMA ListOf ==
  ASSUME NEW S \in Sessions, NEW which \in Both
  PROVE  S[which] \in Seq(ItemType) /\ Fits(S[which], Len(S.pending)) /\ Len(S.pending) \in Nat
BY SessionFields DEF Both

(* An item is added; the new item is where aim_ssi_itemlist_add puts it. *)
LEMMA AddedTo ==
  ASSUME NEW S \in Sessions, NEW which \in Both, NEW it,
         Addable(it.name, it.gid, it.bid, it.type, it.data)
  PROVE  OnlyHas(S, which,
                 Inserted(S[which], NewItem(S, which, it.name, it.gid, it.bid, it.type, it.data)),
                 AddItem(S, which, it))
<1> DEFINE T == AddItem(S, which, it)
           new == NewItem(S, which, it.name, it.gid, it.bid, it.type, it.data)
<1>1. T = [S EXCEPT ![which] = Inserted(S[which], new)]
  BY AddIs DEF AddItem
<1>2. new \in ItemType /\ new.ref <= Len(S.pending)
      /\ (new.ref = 0 \/ \A k \in 1 .. Len(S[which]) : S[which][k].ref # new.ref)
  BY NewItemType DEF Both
<1> HIDE DEF new, T
<1>3. Fits(Inserted(S[which], new), Len(S.pending))
  BY <1>2, ListOf, FitsInserted
<1> DEFINE l == Inserted(S[which], new)
<1>4. Fits(l, Len(S.pending)) /\ T = Put(S, which, l)
  BY <1>1, <1>3 DEF Put
<1> HIDE DEF l
<1>5. OnlyHas(S, which, l, T)
  BY <1>4, ListChanged
<1> QED
  BY <1>5 DEF T, l, new

(* An item is removed. *)
LEMMA RemovedFrom ==
  ASSUME NEW S \in Sessions, NEW which \in Both, NEW i \in 1 .. Len(S[which])
  PROVE  OnlyHas(S, which, RemoveAt(S[which], i), aim_ssi_itemlist_del(S, which, i))
<1> DEFINE l == RemoveAt(S[which], i)
           T == aim_ssi_itemlist_del(S, which, i)
<1>1. Fits(l, Len(S.pending))
  BY ListOf, FitsRemoved
<1>2. T = Put(S, which, l)
  BY DEF aim_ssi_itemlist_del, Put
<1> HIDE DEF l, T
<1>3. OnlyHas(S, which, l, T)
  BY <1>1, <1>2, ListChanged
<1> QED
  BY <1>3 DEF T, l

(* An item gets what parsemod and parseack copy. *)
LEMMA ReplacedIn ==
  ASSUME NEW S \in Sessions, NEW which \in Both, NEW i \in 1 .. Len(S[which]),
         NEW type \in Types, NEW name \in Called, NEW data \in SUBSET Tlvs
  PROVE  /\ OnlyHas(S, which,
                    [S[which] EXCEPT ![i].type = type, ![i].name = name, ![i].data = data],
                    [S EXCEPT ![which][i].type = type, ![which][i].name = name,
                              ![which][i].data = data])
         /\ OnlyHas(S, which, [S[which] EXCEPT ![i].name = name, ![i].data = data],
                    [S EXCEPT ![which][i].name = name, ![which][i].data = data])
<1> DEFINE l == S[which]
           a == [l EXCEPT ![i].type = type, ![i].name = name, ![i].data = data]
           b == [l EXCEPT ![i].name = name, ![i].data = data]
           A == [S EXCEPT ![which][i].type = type, ![which][i].name = name, ![which][i].data = data]
           B == [S EXCEPT ![which][i].name = name, ![which][i].data = data]
<1>1. Fits(l, Len(S.pending)) /\ Len(S.pending) \in Nat
  BY ListOf
<1>2. Fits(a, Len(S.pending)) /\ Fits(b, Len(S.pending))
  <2> HIDE DEF l
  <2>1. i \in 1 .. Len(l) /\ data \subseteq Tlvs
    BY DEF l
  <2> QED
    BY <1>1, <2>1, ItemChanged
<1>3. A = Put(S, which, a) /\ B = Put(S, which, b)
  <2>1. CASE which = "local"
    BY <2>1 DEF Put
  <2>2. CASE which = "official"
    BY <2>2 DEF Put
  <2> QED
    BY <2>1, <2>2 DEF Both
<1> HIDE DEF a, b, A, B
<1>4. OnlyHas(S, which, a, A)
  BY <1>2, <1>3, ListChanged
<1>5. OnlyHas(S, which, b, B)
  BY <1>2, <1>3, ListChanged
<1> QED
  BY <1>4, <1>5 DEF A, B, a, b, l

(* What another client has done is done to both lists. *)
LEMMA ForeignLemma ==
  ASSUME NEW S \in Sessions, NEW it \in ContentType
  PROVE  Kept(S, parseadd(S, it)) /\ Kept(S, parsemod(S, it)) /\ Kept(S, parsedel(S, it))
<1>1. ASSUME NEW T \in Sessions, NEW which \in Both
      PROVE  /\ Kept(T, AddItem(T, which, it)) /\ Kept(T, Replace(T, which, it))
             /\ Kept(T, Without(T, which, it))
  <2> DEFINE i == aim_ssi_itemlist_find(T[which], it.gid, it.bid)
  <2>1. i \in 0 .. Len(T[which])
    BY ListOf, FoundAt
  <2>2. Kept(T, AddItem(T, which, it))
    BY AddedTo, ItemsAddable DEF Addables, OnlyHas
  <2>3. Kept(T, T)
    BY FromRefl DEF Edited
  <2> HIDE DEF i
  <2>4. i # 0 => Kept(T, [T EXCEPT ![which][i].type = it.type, ![which][i].name = it.name,
                                   ![which][i].data = it.data])
    <3>1. i # 0 => i \in 1 .. Len(T[which])
      BY <2>1
    <3>2. it.type \in Types /\ it.name \in Called /\ it.data \in SUBSET Tlvs
      BY DEF ContentType
    <3> QED
      BY <3>1, <3>2, ReplacedIn DEF OnlyHas
  <2>5. i # 0 => Kept(T, aim_ssi_itemlist_del(T, which, i))
    <3>1. i # 0 => i \in 1 .. Len(T[which])
      BY <2>1
    <3> QED
      BY <3>1, RemovedFrom DEF OnlyHas
  <2>6. Kept(T, Replace(T, which, it))
    BY <2>3, <2>4 DEF Replace, i
  <2>7. Kept(T, Without(T, which, it))
    BY <2>3, <2>5 DEF Without, i
  <2> QED
    BY <2>2, <2>6, <2>7
<1>2. Kept(S, parseadd(S, it))
  <2>1. Kept(S, AddItem(S, "local", it)) /\ AddItem(S, "local", it) \in Sessions
    BY <1>1 DEF Kept, Both
  <2>2. Kept(AddItem(S, "local", it), AddItem(AddItem(S, "local", it), "official", it))
    BY <1>1, <2>1 DEF Both
  <2> QED
    BY <2>1, <2>2, KeptTrans DEF parseadd
<1>3. Kept(S, parsemod(S, it))
  <2>1. Kept(S, Replace(S, "local", it)) /\ Replace(S, "local", it) \in Sessions
    BY <1>1 DEF Kept, Both
  <2>2. Kept(Replace(S, "local", it), Replace(Replace(S, "local", it), "official", it))
    BY <1>1, <2>1 DEF Both
  <2> QED
    BY <2>1, <2>2, KeptTrans DEF parsemod
<1>4. Kept(S, parsedel(S, it))
  <2>1. Kept(S, Without(S, "local", it)) /\ Without(S, "local", it) \in Sessions
    BY <1>1 DEF Kept, Both
  <2>2. Kept(Without(S, "local", it), Without(Without(S, "local", it), "official", it))
    BY <1>1, <2>1 DEF Both
  <2> QED
    BY <2>1, <2>2, KeptTrans DEF parsedel
<1> QED
  BY <1>2, <1>3, <1>4

-----------------------------------------------------------------------------
(* parseack *)

(* The item of a pending change. *)
ItemOf(S, i) == LET list == S[Home(S.pending[i].action)]
                IN  FirstOf({n \in DOMAIN list : list[n].ref = i})

(* It is in the list where the change was made. *)
LEMMA ItemOfLemma ==
  ASSUME NEW S \in Sessions, NEW i \in 1 .. Len(S.pending)
  PROVE  LET which == Home(S.pending[i].action)
             list == S[which]
             k == ItemOf(S, i)
         IN  /\ which \in Both /\ S.pending[i] \in ChangeType /\ S.pending[i].action \in Actions
             /\ k \in 0 .. Len(list)
             /\ k = 0 => \A n \in 1 .. Len(list) : list[n].ref # i
             /\ k # 0 => k \in 1 .. Len(list) /\ list[k] \in ItemType /\ list[k].ref = i
<1> DEFINE which == Home(S.pending[i].action)
           list == S[which]
           set == {n \in DOMAIN list : list[n].ref = i}
           k == ItemOf(S, i)
<1>1. S.pending[i] \in ChangeType /\ S.pending[i].action \in Actions
  <2>1. S.pending \in Seq(ChangeType)
    BY SessionFields
  <2>2. S.pending[i] \in ChangeType
    BY <2>1
  <2> QED
    BY <2>2 DEF ChangeType
<1>2. which \in Both
  BY <1>1 DEF Home, Both
<1>3. k = FirstOf(set)
  BY DEF ItemOf
<1> HIDE DEF which, k
<1>4. list \in Seq(ItemType)
  BY <1>2, ListOf
<1> HIDE DEF list
<1>5. set \subseteq Nat \ {0} /\ set \subseteq 1 .. Len(list) /\ Len(list) \in Nat
      /\ \A n \in 1 .. Len(list) : n \in set <=> list[n].ref = i
  BY <1>4
<1> HIDE DEF set
<1>6. k \in set \cup {0} /\ (k = 0 <=> set = {})
  BY <1>3, <1>5, FirstOfLemma
<1>7. k \in 0 .. Len(list)
  BY <1>5, <1>6
<1>8. k = 0 => \A n \in 1 .. Len(list) : list[n].ref # i
  BY <1>5, <1>6
<1>9. k # 0 => k \in 1 .. Len(list) /\ list[k] \in ItemType /\ list[k].ref = i
  BY <1>4, <1>5, <1>6
<1> QED
  BY <1>1, <1>2, <1>7, <1>8, <1>9 DEF list, which, k

(* The contact who refused is asked. *)
LEMMA PromptLemma ==
  ASSUME NEW S \in Sessions, NEW it \in ItemType
  PROVE  /\ Edited(S, Prompt(S, it)) /\ Prompt(S, it).local = S.local
<1>1. CASE it.name = NULL
  BY <1>1, FromRefl DEF Prompt
<1>2. CASE it.name # NULL
  <2> DEFINE T == [S EXCEPT !.asked = @ \cup {it.name}]
  <2>1. it.name \in Names /\ S.asked \subseteq Names
    BY <1>2, SessionFields DEF ItemType, Called
  <2>2. T \in SessionType
    BY <2>1 DEF Sessions, SessionType
  <2>3. /\ T.local = S.local /\ T.official = S.official /\ T.pending = S.pending
        /\ T.waiting = S.waiting /\ T.received = S.received /\ T.out = S.out /\ T.reuse = S.reuse
    BY DEF Sessions, SessionType
  <2>4. Prompt(S, it) = T
    BY <1>2 DEF Prompt
  <2> HIDE DEF T
  <2>5. T \in Sessions
    BY <2>2, <2>3 DEF Sessions
  <2> QED
    BY <2>3, <2>4, <2>5 DEF Edited, Kept
<1> QED
  BY <1>1, <1>2

(* One outcome leaves the exchange with the server alone. *)
LEMMA AckOneLemma ==
  ASSUME NEW S \in Sessions, NEW i \in 1 .. Len(S.pending), NEW ok \in BOOLEAN
  PROVE  Kept(S, AckOne(S, i, ok))
<1> DEFINE action == S.pending[i].action
           list == S[Home(action)]
           k == ItemOf(S, i)
           it == list[k]
<1>1. /\ action \in Actions /\ Home(action) \in Both
      /\ k # 0 => k \in 1 .. Len(list) /\ it \in ItemType
  BY ItemOfLemma
<1>2. Kept(S, S)
  BY FromRefl DEF Edited
<1> DEFINE A == AddItem(S, "official", it)
           B == NameAndData(S, "official", it)
           C == aim_ssi_itemlist_del(S, "official", k)
           D == aim_ssi_itemlist_del(Prompt(S, it), "local", k)
           E == RestoreAt(S, k)
           F == AddItem(S, "local", it)
<1>3. AckOne(S, i, ok) =
        CASE k = 0 -> S
          [] k # 0 /\ ok /\ action = "add" -> A
          [] k # 0 /\ ok /\ action = "mod" -> B
          [] k # 0 /\ ok /\ action = "del" -> C
          [] k # 0 /\ ~ok /\ action = "add" -> D
          [] k # 0 /\ ~ok /\ action = "mod" -> E
          [] k # 0 /\ ~ok /\ action = "del" -> F
  BY DEF AckOne, ItemOf
<1>a. "local" \in Both /\ "official" \in Both
  BY DEF Both
<1>4. k # 0 => Kept(S, A) /\ Kept(S, F)
  <2> HIDE DEF it, k, list, action
  <2> SUFFICES ASSUME k # 0
               PROVE  Kept(S, A) /\ Kept(S, F)
    OBVIOUS
  <2>1. Addable(it.name, it.gid, it.bid, it.type, it.data)
    BY <1>1, ItemsAddable DEF Addables
  <2> QED
    BY <1>a, <2>1, AddedTo DEF OnlyHas
<1>5. k # 0 => Kept(S, B)
  <2> DEFINE j == aim_ssi_itemlist_find(S.official, it.gid, it.bid)
  <2>1. j \in 0 .. Len(S.official) /\ Len(S.official) \in Nat
    BY SessionFields, FoundAt
  <2>2. B = IF j = 0 THEN S
            ELSE [S EXCEPT !["official"][j].name = it.name, !["official"][j].data = it.data]
    BY DEF NameAndData
  <2> HIDE DEF j, it, k, B, list, action
  <2> SUFFICES ASSUME k # 0, j # 0
               PROVE  Kept(S, B)
    BY <1>2, <2>2
  <2>3. j \in 1 .. Len(S["official"])
    BY <2>1
  <2>4. it.name \in Called /\ it.data \in SUBSET Tlvs /\ it.type \in Types
    BY <1>1 DEF ItemType
  <2>5. Kept(S, [S EXCEPT !["official"][j].name = it.name, !["official"][j].data = it.data])
    BY <1>a, <2>3, <2>4, ReplacedIn DEF OnlyHas
  <2> QED
    BY <2>2, <2>5
<1>6. k # 0 /\ action = "del" => Kept(S, C)
  <2> SUFFICES ASSUME k # 0, action = "del"
               PROVE  Kept(S, C)
    OBVIOUS
  <2>1. list = S["official"]
    BY DEF Home
  <2>2. k \in 1 .. Len(S["official"])
    BY <1>1, <2>1
  <2> HIDE DEF k
  <2> QED
    BY <1>a, <2>2, RemovedFrom DEF OnlyHas
<1>7. k # 0 /\ action = "add" => Kept(S, D)
  <2> SUFFICES ASSUME k # 0, action = "add"
               PROVE  Kept(S, D)
    OBVIOUS
  <2> DEFINE P == Prompt(S, it)
  <2>1. list = S.local
    BY DEF Home
  <2>2. k \in 1 .. Len(S.local) /\ it \in ItemType
    BY <1>1, <2>1
  <2> HIDE DEF k, it
  <2>3. Edited(S, P) /\ P.local = S.local
    BY <2>2, PromptLemma
  <2> HIDE DEF P
  <2>4. P \in Sessions /\ k \in 1 .. Len(P["local"])
    BY <2>2, <2>3 DEF Edited, Kept
  <2>5. Kept(P, aim_ssi_itemlist_del(P, "local", k))
    BY <1>a, <2>4, RemovedFrom DEF OnlyHas
  <2>6. Kept(S, aim_ssi_itemlist_del(P, "local", k))
    BY <2>3, <2>5, KeptTrans DEF Edited
  <2> QED
    BY <2>6 DEF P
<1>8. k # 0 /\ action = "mod" => Kept(S, E)
  <2> SUFFICES ASSUME k # 0, action = "mod"
               PROVE  Kept(S, E)
    OBVIOUS
  <2> DEFINE j == aim_ssi_itemlist_find(S.official, S.local[k].gid, S.local[k].bid)
             x == S.official[j]
  <2>1. j \in 0 .. Len(S.official) /\ S.official \in Seq(ItemType)
    BY SessionFields, FoundAt
  <2>2. E = IF j = 0 THEN S
            ELSE [S EXCEPT !["local"][k].name = x.name, !["local"][k].data = x.data]
    BY DEF RestoreAt
  <2>3. list = S.local
    BY DEF Home
  <2>4. k \in 1 .. Len(S["local"])
    BY <1>1, <2>3
  <2> HIDE DEF j, k, E
  <2> SUFFICES ASSUME j # 0
               PROVE  Kept(S, E)
    BY <1>2, <2>2
  <2>5. x \in ItemType
    BY <2>1
  <2> HIDE DEF x
  <2>6. x.name \in Called /\ x.data \in SUBSET Tlvs /\ x.type \in Types
    BY <2>5 DEF ItemType
  <2>7. Kept(S, [S EXCEPT !["local"][k].name = x.name, !["local"][k].data = x.data])
    BY <1>a, <2>4, <2>6, ReplacedIn DEF OnlyHas
  <2> QED
    BY <2>2, <2>7
<1> HIDE DEF A, B, C, D, E, F, k, action
<1> QED
  BY <1>1, <1>2, <1>3, <1>4, <1>5, <1>6, <1>7, <1>8 DEF Actions

AckedBy(S, oks, seq) == FoldLeft(LAMBDA T, i : AckOne(T, i, oks[i]), S, seq)

Acking(S, oks, seq) ==
  \E r \in [0 .. Len(seq) -> {U \in Sessions : Kept(S, U)}] :
    /\ r[0] = S /\ r[Len(seq)] = AckedBy(S, oks, seq)
    /\ \A n \in 1 .. Len(seq) : r[n] = AckOne(r[n - 1], seq[n], oks[seq[n]])

(* One outcome after the other. *)
LEMMA AckOneRun ==
  ASSUME NEW S \in Sessions, NEW oks \in Seq(BOOLEAN), NEW seq \in Seq(Nat),
         Len(seq) <= Len(S.pending), Len(seq) <= Len(oks),
         \A n \in 1 .. Len(seq) : seq[n] = n
  PROVE  Acking(S, oks, seq)
<1> DEFINE N == Len(seq)
           X == {U \in Sessions : Kept(S, U)}
           Step(T, n) == AckOne(T, seq[n], oks[seq[n]])
           G == [n \in 1 .. N |-> [T \in X |-> Step(T, n)]]
           Body(h) == [s \in SUBSET (1 .. N) |->
                         IF s = {} THEN S ELSE Step(h[s \ {Max(s)}], Max(s))]
           h == CHOOSE f : f = Body(f)
<1>1. S \in X /\ N \in Nat
  BY FromRefl DEF Edited
<1>2. ASSUME NEW n \in 1 .. N, NEW T \in X
      PROVE  Step(T, n) \in X
  <2>1. T \in Sessions /\ Kept(S, T) /\ Len(S.pending) \in Nat
    BY SessionFields
  <2>2. seq[n] = n /\ n \in 1 .. Len(T.pending) /\ n \in 1 .. Len(oks)
    BY <2>1 DEF Kept
  <2>3. Kept(T, AckOne(T, seq[n], oks[seq[n]]))
    BY <2>1, <2>2, AckOneLemma
  <2>4. /\ Kept(S, AckOne(T, seq[n], oks[seq[n]]))
        /\ AckOne(T, seq[n], oks[seq[n]]) \in Sessions
    BY <2>1, <2>3, KeptTrans DEF Kept
  <2> QED
    BY <2>4
<1>3. AckedBy(S, oks, seq) = h[1 .. N]
  <2>1. DOMAIN seq = 1 .. N
    OBVIOUS
  <2> QED
    BY <2>1 DEF AckedBy, FoldLeft, MapThenFoldSet
<1> HIDE DEF Step
<1>4. G \in [1 .. N -> [X -> X]]
  BY <1>2
<1>5. PICK g \in [SUBSET (1 .. N) -> X] : LeftFoldOf(g, N, X, S, G)
  <2> HIDE DEF X, G, N
  <2> QED
    BY <1>1, <1>4, LeftFoldExists
<1>m. \A s \in SUBSET (1 .. N) : s # {} => Max(s) \in 1 .. N /\ s \ {Max(s)} \in SUBSET (1 .. N)
  <2> HIDE DEF N
  <2> QED
    BY <1>1, MaxOfPositions
<1> HIDE DEF N, X
<1>6. g = Body(g)
  <2>1. \A s \in SUBSET (1 .. N) :
          g[s] = IF s = {} THEN S ELSE Step(g[s \ {Max(s)}], Max(s))
    BY <1>5, <1>m DEF LeftFoldOf
  <2> QED
    BY <2>1
<1>7. h = Body(h)
  <2> HIDE DEF Body
  <2> QED
    BY <1>6
<1>8. /\ h[{}] = S
      /\ \A s \in SUBSET (1 .. N) : s # {} => h[s] = Step(h[s \ {Max(s)}], Max(s))
  <2> HIDE DEF h
  <2> QED
    BY <1>7
<1> HIDE DEF h
<1>9. IsFold(h, N, X, S, G)
  BY <1>1, <1>4, <1>8, <1>m DEF IsFold, LeftFoldOf
<1>10. \A n \in 1 .. N, T \in X : G[n][T] = Step(T, n)
  OBVIOUS
<1> HIDE DEF G
<1>11. PICK r \in [0 .. N -> X] : Follows(r, N, S, G) /\ r[N] = h[1 .. N]
  BY <1>9, FoldToRun
<1>12. \A n \in 1 .. N : r[n] = Step(r[n - 1], n)
  <2> SUFFICES ASSUME NEW n \in 1 .. N
               PROVE  r[n] = Step(r[n - 1], n)
    OBVIOUS
  <2>1. r[n] = G[n][r[n - 1]] /\ n - 1 \in 0 .. N
    BY <1>1, <1>11 DEF Follows
  <2>2. r[n - 1] \in X
    BY <2>1
  <2> QED
    BY <1>10, <2>1, <2>2
<1>13. r[0] = S
  BY <1>11 DEF Follows
<1> QED
  BY <1>3, <1>11, <1>12, <1>13 DEF N, X, Step, Acking

(* The pending changes that an ack has settled are forgotten. *)
LEMMA UnrefFits ==
  ASSUME NEW m \in Nat, NEW n \in 0 .. m, NEW list, Fits(list, m)
  PROVE  /\ Fits(Unref(list, n), m - n) /\ SameContent(list, Unref(list, n))
         /\ \A k \in 1 .. Len(list) :
              Unref(list, n)[k].ref = IF list[k].ref > n THEN list[k].ref - n ELSE 0
<1> DEFINE new == Unref(list, n)
<1>1. list \in Seq(ItemType) /\ DOMAIN list = 1 .. Len(list) /\ Len(list) \in Nat
  BY DEF Fits
<1>2. new = [k \in 1 .. Len(list) |->
               [list[k] EXCEPT !.ref = IF list[k].ref > n THEN list[k].ref - n ELSE 0]]
  BY <1>1 DEF Unref
<1>3. ASSUME NEW k \in 1 .. Len(list)
      PROVE  /\ new[k] \in ItemType /\ Content(new[k]) = Content(list[k])
             /\ new[k].ref = IF list[k].ref > n THEN list[k].ref - n ELSE 0
             /\ new[k].ref <= m - n
  <2> DEFINE r == IF list[k].ref > n THEN list[k].ref - n ELSE 0
             x == [list[k] EXCEPT !.ref = r]
  <2>1. list[k] \in ItemType /\ list[k].ref \in Nat /\ list[k].ref <= m
    <3>1. list[k] \in ItemType
      BY <1>1
    <3> QED
      BY <3>1 DEF ItemType, Fits
  <2>2. r \in Nat /\ r <= m - n
    BY <2>1
  <2>3. new[k] = x
    BY <1>2
  <2> HIDE DEF r
  <2>4. x \in ItemType /\ x.ref = r /\ Content(x) = Content(list[k])
    BY <2>1, <2>2 DEF ItemType, Content, Item
  <2> HIDE DEF x, new
  <2> QED
    BY <2>2, <2>3, <2>4 DEF r
<1> HIDE DEF new
<1>4. new \in Seq(ItemType) /\ Len(new) = Len(list)
  <2>1. new = [k \in 1 .. Len(list) |-> new[k]]
    BY <1>2
  <2>2. \A k \in 1 .. Len(list) : new[k] \in ItemType
    BY <1>3
  <2> QED
    BY <1>1, <2>1, <2>2
<1>5. \A k \in 1 .. Len(list) : list[k].ref \in Nat
  <2> SUFFICES ASSUME NEW k \in 1 .. Len(list)
               PROVE  list[k].ref \in Nat
    OBVIOUS
  <2>1. list[k] \in ItemType
    BY <1>1
  <2> QED
    BY <2>1 DEF ItemType
<1>6. \A j, k \in 1 .. Len(new) : j # k /\ new[j].ref = new[k].ref => new[k].ref = 0
  <2> SUFFICES ASSUME NEW j \in 1 .. Len(new), NEW k \in 1 .. Len(new), j # k,
                      new[j].ref = new[k].ref, new[k].ref # 0
               PROVE  FALSE
    OBVIOUS
  <2>1. list[j].ref > n /\ list[k].ref > n /\ list[j].ref = list[k].ref
    BY <1>3, <1>4, <1>5
  <2> QED
    BY <1>4, <2>1 DEF Fits
<1>7. Fits(new, m - n)
  BY <1>3, <1>4, <1>6 DEF Fits
<1>8. SameContent(list, new)
  BY <1>3, <1>4 DEF SameContent
<1> QED
  BY <1>3, <1>7, <1>8 DEF new

(* T is S with its first n pending changes settled. *)
Settled(S, T, n) ==
  /\ T \in Sessions /\ T.pending = SubSeq(S.pending, n + 1, Len(S.pending))
  /\ T.waiting = S.waiting /\ T.received = S.received /\ T.out = S.out /\ T.reuse = S.reuse

(* Forget does that. *)
LEMMA ForgetLemma ==
  ASSUME NEW S \in Sessions, NEW n \in 0 .. Len(S.pending)
  PROVE  /\ Settled(S, Forget(S, n), n)
         /\ Forget(S, n).local = Unref(S.local, n)
         /\ Forget(S, n).official = Unref(S.official, n)
<1> DEFINE T == Forget(S, n)
           P == SubSeq(S.pending, n + 1, Len(S.pending))
           l == Unref(S.local, n)
           o == Unref(S.official, n)
<1>1. /\ S.pending \in Seq(ChangeType) /\ Len(S.pending) \in Nat
      /\ Fits(S.local, Len(S.pending)) /\ Fits(S.official, Len(S.pending))
      /\ S.pending # <<>> => S.waiting
  BY SessionFields
<1>2. P \in Seq(ChangeType) /\ Len(P) = Len(S.pending) - n
  BY <1>1
<1>3. Fits(l, Len(P)) /\ Fits(o, Len(P))
  BY <1>1, <1>2, UnrefFits
<1>4. T = [S EXCEPT !.pending = P, !.local = l, !.official = o]
  BY DEF Forget
<1> HIDE DEF P, l, o, T
<1>5. T \in SessionType
  BY <1>2, <1>3, <1>4 DEF Sessions, SessionType, Fits
<1>6. /\ T.pending = P /\ T.local = l /\ T.official = o /\ T.waiting = S.waiting
      /\ T.received = S.received /\ T.out = S.out /\ T.reuse = S.reuse
  BY <1>4 DEF Sessions, SessionType
<1>7. P # <<>> => S.waiting
  BY <1>1, <1>2
<1>8. T \in Sessions
  BY <1>3, <1>5, <1>6, <1>7 DEF Sessions
<1> QED
  BY <1>6, <1>8 DEF Settled, T, P, l, o

(* As many changes are settled as the ack has outcomes for. *)
LEMMA AckAllLemma ==
  ASSUME NEW S \in Sessions, NEW oks \in Seq(BOOLEAN), NEW n \in 0 .. Len(S.pending), n <= Len(oks)
  PROVE  Settled(S, AckAll(S, oks, n), n)
<1> DEFINE seq == [i \in 1 .. n |-> i]
           T == AckedBy(S, oks, seq)
<1>1. seq \in Seq(Nat) /\ Len(seq) = n /\ \A i \in 1 .. n : seq[i] = i
  OBVIOUS
<1>2. AckAll(S, oks, n) = Forget(T, n)
  BY DEF AckAll, AckedBy
<1> HIDE DEF seq
<1>3. Kept(S, T)
  <2>0. Len(seq) <= Len(S.pending) /\ Len(seq) <= Len(oks) /\ \A i \in 1 .. Len(seq) : seq[i] = i
    BY <1>1, SessionFields
  <2>1. \E r \in [0 .. Len(seq) -> {U \in Sessions : Kept(S, U)}] : r[Len(seq)] = T
    BY <1>1, <2>0, AckOneRun DEF Acking
  <2>2. n \in 0 .. n
    OBVIOUS
  <2> HIDE DEF T
  <2> QED
    BY <1>1, <2>1, <2>2
<1> HIDE DEF T
<1>4. T \in Sessions /\ n \in 0 .. Len(T.pending)
  BY <1>3 DEF Kept
<1>5. Settled(T, Forget(T, n), n)
  BY <1>4, ForgetLemma
<1>6. Settled(S, Forget(T, n), n)
  BY <1>3, <1>5 DEF Kept, Settled
<1> QED
  BY <1>2, <1>6

(* The last ack of a request ends the waiting. *)
LEMMA NotWaiting ==
  ASSUME NEW S \in Sessions, S.pending = <<>>
  PROVE  LET T == [S EXCEPT !.waiting = FALSE]
         IN  /\ T \in Sessions /\ T.local = S.local /\ T.official = S.official
             /\ T.pending = <<>> /\ ~T.waiting /\ T.received = S.received /\ T.out = S.out
             /\ T.reuse = S.reuse
<1> DEFINE T == [S EXCEPT !.waiting = FALSE]
<1>1. T \in SessionType
  BY DEF Sessions, SessionType
<1>2. /\ T.local = S.local /\ T.official = S.official /\ T.pending = <<>> /\ ~T.waiting
      /\ T.received = S.received /\ T.out = S.out /\ T.reuse = S.reuse
  BY DEF Sessions, SessionType
<1> HIDE DEF T
<1>3. T \in Sessions
  BY <1>1, <1>2 DEF Sessions
<1> QED
  BY <1>2, <1>3 DEF T

(* Either some changes are still pending, or the next request may go.      *)
Acked(S, T, n) ==
  \E U \in Sessions :
    /\ Settled(S, U, n)
    /\ IF n < Len(S.pending) THEN T = U
       ELSE LET V == [U EXCEPT !.waiting = FALSE]
            IN  V \in Sessions /\ ~V.waiting /\ V.pending = <<>> /\ T \in From(V)

(* parseack *)
LEMMA ParseAckLemma ==
  ASSUME NEW S \in Sessions, NEW oks \in Seq(BOOLEAN)
  PROVE  LET n == Outcomes(S, oks)
         IN  n \in 0 .. Len(S.pending) /\ Acked(S, parseack(S, oks), n)
<1> DEFINE n == Outcomes(S, oks)
           T == AckAll(S, oks, n)
           V == [T EXCEPT !.waiting = FALSE]
<1>1. n \in 0 .. Len(S.pending) /\ n <= Len(oks)
  BY SessionFields DEF Outcomes
<1> HIDE DEF n
<1>2. Settled(S, T, n) /\ T \in Sessions
  BY <1>1, AckAllLemma DEF Settled
<1>3. parseack(S, oks) = IF T.pending # <<>> THEN T ELSE aim_ssi_sync(V)
  BY DEF parseack, SyncUnlessPending, n
<1> HIDE DEF T
<1>4. T.pending # <<>> <=> n < Len(S.pending)
  <2> DEFINE P == S.pending
  <2>1. P \in Seq(ChangeType) /\ Len(P) \in Nat
    BY SessionFields
  <2>2. T.pending = SubSeq(P, n + 1, Len(P)) /\ n \in 0 .. Len(P)
    BY <1>1, <1>2 DEF Settled
  <2> HIDE DEF P
  <2>3. T.pending \in Seq(ChangeType) /\ Len(T.pending) = Len(P) - n
    BY <2>1, <2>2
  <2>a. \A q \in Seq(ChangeType) : q # <<>> <=> Len(q) # 0
    OBVIOUS
  <2>b. T.pending # <<>> <=> Len(P) - n # 0
    BY <2>3, <2>a
  <2>c. Len(P) - n # 0 <=> n < Len(P)
    BY <2>1, <2>2
  <2>4. T.pending # <<>> <=> n < Len(P)
    BY <2>b, <2>c
  <2> QED
    BY <2>4 DEF P
<1>5. CASE n < Len(S.pending)
  BY <1>1, <1>2, <1>3, <1>4, <1>5 DEF Acked, n
<1>6. CASE ~(n < Len(S.pending))
  <2>1. T.pending = <<>> /\ parseack(S, oks) = aim_ssi_sync(V)
    BY <1>3, <1>4, <1>6
  <2>2. V \in Sessions /\ ~V.waiting /\ V.pending = <<>>
    BY <1>2, <2>1, NotWaiting
  <2> HIDE DEF V
  <2>3. parseack(S, oks) \in From(V)
    BY <2>1, <2>2, SyncLemma
  <2>4. Acked(S, parseack(S, oks), n)
    BY <1>2, <1>6, <2>2, <2>3 DEF Acked, V
  <2> QED
    BY <1>1, <2>4 DEF n
<1> QED
  BY <1>5, <1>6

-----------------------------------------------------------------------------
(* parsedata *)

(* The exchange is left alone; whether the list has come may change.       *)
Steady(S, T) ==
  /\ T \in Sessions /\ T.pending = S.pending /\ T.waiting = S.waiting
  /\ T.out = S.out /\ T.reuse = S.reuse

(* The list has come. *)
LEMMA ReceivedLemma ==
  ASSUME NEW S \in Sessions
  PROVE  Steady(S, [S EXCEPT !.received = TRUE])
         /\ [S EXCEPT !.received = TRUE].official = S.official
<1> DEFINE T == [S EXCEPT !.received = TRUE]
<1>1. T \in SessionType
  BY DEF Sessions, SessionType
<1>2. /\ T.local = S.local /\ T.official = S.official /\ T.pending = S.pending
      /\ T.waiting = S.waiting /\ T.out = S.out /\ T.reuse = S.reuse
  BY DEF Sessions, SessionType
<1> HIDE DEF T
<1>3. T \in Sessions
  BY <1>1, <1>2 DEF Sessions
<1>4. Steady(S, T) /\ T.official = S.official
  BY <1>2, <1>3 DEF Steady
<1> QED
  BY <1>4 DEF T

(* Items are added to one of the lists. *)
LEMMA AddAllLemma ==
  ASSUME NEW S \in Sessions, NEW which \in Both, NEW Y, Addables(Y), NEW seq \in Seq(Y)
  PROVE  /\ Kept(S, AddAll(S, which, seq))
         /\ \A w \in Both : w # which => AddAll(S, which, seq)[w] = S[w]
<1> DEFINE N == Len(seq)
<1>1. PICK r \in [0 .. N -> {U \in Sessions : Kept(S, U)}] :
        /\ r[0] = S /\ r[N] = AddAll(S, which, seq)
        /\ \A n \in 1 .. N : r[n] = AddItem(r[n - 1], which, seq[n])
  BY AddAllRun DEF Both
<1>2. N \in Nat
  OBVIOUS
<1> DEFINE T == {n \in 0 .. N : \A w \in Both : w # which => r[n][w] = S[w]}
<1>3. 0 \in T
  BY <1>1, <1>2
<1>4. ASSUME NEW n \in 0 .. N - 1, n \in T
      PROVE  n + 1 \in T
  <2>1. n + 1 \in 1 .. N /\ n + 1 \in 0 .. N /\ n + 1 - 1 = n /\ n \in 0 .. N
    BY <1>2
  <2>2. r[n + 1] = AddItem(r[n], which, seq[n + 1]) /\ seq[n + 1] \in Y /\ r[n] \in Sessions
    BY <1>1, <2>1
  <2>3. Addable(seq[n + 1].name, seq[n + 1].gid, seq[n + 1].bid, seq[n + 1].type, seq[n + 1].data)
    BY <2>2 DEF Addables
  <2>4. \A w \in Both : w # which => AddItem(r[n], which, seq[n + 1])[w] = r[n][w]
    BY <2>2, <2>3, AddedTo DEF OnlyHas
  <2> QED
    BY <1>4, <2>1, <2>2, <2>4
<1>5. 0 .. N \subseteq T
  <2> HIDE DEF T, N
  <2> QED
    BY <1>2, <1>3, <1>4, UpTo
<1>6. N \in T /\ N \in 0 .. N
  BY <1>2, <1>5
<1> QED
  BY <1>1, <1>6

(* The official list is copied to the local one. *)
LEMMA ActivatedLemma ==
  ASSUME NEW S \in Sessions
  PROVE  Steady(S, Activated(S)) /\ Activated(S).official = S.official
<1> DEFINE T == AddAll(S, "local", S.official)
<1>1. S.official \in Seq(ItemType) /\ Addables(ItemType)
  BY SessionFields, ItemsAddable
<1>2. Kept(S, T) /\ T["official"] = S["official"]
  BY <1>1, AddAllLemma DEF Both
<1>3. Activated(S) = [T EXCEPT !.received = TRUE]
  BY DEF Activated
<1> HIDE DEF T
<1>4. T \in Sessions
  BY <1>2 DEF Kept
<1>5. Steady(T, Activated(S)) /\ Activated(S).official = T.official
  BY <1>3, <1>4, ReceivedLemma
<1> QED
  BY <1>2, <1>5 DEF Kept, Steady

(* One of the messages that bring the list; the last one of them. *)
LEMMA ParseDataLemma ==
  ASSUME NEW S \in Sessions, NEW msg, msg.items \in Seq(ContentType)
  PROVE  LET T == AddAll(S, "official", msg.items)
         IN  /\ Kept(S, T)
             /\ msg.more => parsedata(S, msg) = T
             /\ ~msg.more => \E U \in Sessions : /\ Steady(S, U) /\ U.official = T.official
                                                 /\ parsedata(S, msg) \in From(U)
<1> DEFINE T == AddAll(S, "official", msg.items)
           U == Activated(T)
<1>1. Kept(S, T) /\ T \in Sessions
  BY ItemsAddable, AddAllLemma DEF Both, Kept
<1>2. parsedata(S, msg) = IF msg.more THEN T ELSE gaim_ssi_parselist(U)
  BY DEF parsedata
<1> HIDE DEF T
<1>3. Steady(T, U) /\ U.official = T.official /\ U \in Sessions
  BY <1>1, ActivatedLemma DEF Steady
<1> HIDE DEF U
<1>4. gaim_ssi_parselist(U) \in From(U)
  BY <1>3, ParseListLemma
<1>5. Steady(S, U)
  BY <1>1, <1>3 DEF Steady, Kept
<1>6. ~msg.more => \E V \in Sessions : /\ Steady(S, V) /\ V.official = T.official
                                       /\ parsedata(S, msg) \in From(V)
  BY <1>2, <1>3, <1>4, <1>5
<1> QED
  BY <1>1, <1>2, <1>6 DEF T

(* aim_ssi_reqdata starts from nothing. *)
LEMMA ReqDataLemma ==
  ASSUME NEW S \in Sessions
  PROVE  LET T == aim_ssi_reqdata(S)
         IN  /\ T \in Sessions /\ T.pending = <<>> /\ T.official = <<>> /\ T.reuse = S.reuse
             /\ T.waiting = S.waiting /\ T.received = S.received
             /\ T.out = Append(S.out, [kind |-> "reqdata"])
<1> DEFINE T == aim_ssi_reqdata(S)
           o == Append(S.out, [kind |-> "reqdata"])
<1>1. o \in Seq(RequestType)
  <2>1. S.out \in Seq(RequestType)
    BY SessionFields
  <2>2. [kind |-> "reqdata"] \in RequestType
    BY DEF RequestType
  <2> QED
    BY <2>1, <2>2
<1>2. T = [S EXCEPT !.official = <<>>, !.local = <<>>, !.pending = <<>>, !.out = o]
  BY DEF aim_ssi_reqdata, aim_ssi_freelist, Sessions, SessionType
<1> HIDE DEF T, o
<1>3. <<>> \in Seq(ItemType) /\ <<>> \in Seq(ChangeType)
  OBVIOUS
<1>4. T \in SessionType
  BY <1>1, <1>2, <1>3 DEF Sessions, SessionType
<1>5. /\ T.local = <<>> /\ T.official = <<>> /\ T.pending = <<>> /\ T.waiting = S.waiting
      /\ T.received = S.received /\ T.out = o /\ T.reuse = S.reuse
  BY <1>2 DEF Sessions, SessionType
<1>6. Fits(<<>>, Len(T.pending))
  BY <1>3, <1>5 DEF Fits
<1>7. T \in Sessions
  BY <1>4, <1>5, <1>6 DEF Sessions
<1> QED
  BY <1>5, <1>7 DEF T, o

-----------------------------------------------------------------------------
(* What the user does: what gaim and oscar.c do to the session S. *)

AddingBuddy(S, name, group, alias) ==
  LET T == [S EXCEPT !.own.buddies = Append(@, Own(name, group, alias))]
  IN  IF aim_ssi_itemlist_exists(T.local, name) # 0 THEN T
      ELSE aim_ssi_addbuddy(T, name, group, AliasData(alias))
RemovingBuddy(S, i, b) ==
  aim_ssi_delbuddy([S EXCEPT !.own.buddies = RemoveAt(@, i)], b.name, b.group)
AliasingBuddy(S, i, b, alias) ==
  LET T == [S EXCEPT !.own.buddies[i].alias = alias]
      gname == aim_ssi_itemlist_findparentname(T.local, b.name)
  IN  IF gname = NULL THEN T ELSE aim_ssi_aliasbuddy(T, gname, b.name, alias)
AddingPrivate(S, type, name) ==
  AddPrivate([S EXCEPT !.own.private = Append(@, <<type, name>>)], type, name)
RemovingPrivate(S, type, name) ==
  DelPrivate([S EXCEPT !.own.private = Chosen(@, {i \in DOMAIN @ : @[i] # <<type, name>>})],
             type, name)
AskingAgain(S, name) ==
  LET T == [S EXCEPT !.asked = @ \ {name}]
      i == gaim_find_buddy(T, name)
      b == T.own.buddies[i]
  IN  IF i = 0 \/ aim_ssi_itemlist_finditem(T.local, b.group, b.name, "buddy") # 0 THEN T
      ELSE aim_ssi_addbuddy(T, b.name, b.group, {AuthTlv} \cup AliasData(b.alias))

(* Whether or not the edit that follows is sent. *)
LEMMA EditThen ==
  ASSUME NEW S \in Sessions, NEW T, Edited(S, T), NEW U \in From(T)
  PROVE  U \in From(S)
BY EditedFrom, FromTrans

(* A buddy of gaim's own list gets another alias or group. *)
LEMMA EntryChanged ==
  ASSUME NEW S \in Sessions, NEW i \in Nat,
         NEW alias \in Values \cup {NULL}, NEW group \in Names
  PROVE  /\ Edited(S, [S EXCEPT !.own.buddies[i].alias = alias])
         /\ Edited(S, [S EXCEPT !.own.buddies[i].group = group])
<1> DEFINE l == S.own.buddies
           p == S.own.private
           a == [l EXCEPT ![i].alias = alias]
           g == [l EXCEPT ![i].group = group]
<1>1. l \in Seq(EntryType) /\ p \in Seq(PrivateTypes \X Names)
  BY SessionFields
<1>2. a \in Seq(EntryType) /\ g \in Seq(EntryType)
  <2> HIDE DEF l
  <2>1. CASE i \in 1 .. Len(l)
    <3>1. l[i] \in EntryType
      BY <1>1, <2>1
    <3>2. [l[i] EXCEPT !.alias = alias] \in EntryType /\ [l[i] EXCEPT !.group = group] \in EntryType
      BY <3>1 DEF EntryType
    <3> QED
      BY <1>1, <2>1, <3>2
  <2>2. CASE i \notin 1 .. Len(l)
    <3>1. a = l /\ g = l
      BY <1>1, <2>2
    <3> QED
      BY <1>1, <3>1
  <2> QED
    BY <2>1, <2>2
<1>3. /\ [S EXCEPT !.own.buddies[i].alias = alias] = [S EXCEPT !.own.buddies = a]
      /\ [S EXCEPT !.own.buddies[i].group = group] = [S EXCEPT !.own.buddies = g]
  OBVIOUS
<1> HIDE DEF a, g, l, p
<1>4. Edited(S, [S EXCEPT !.own.buddies = a]) /\ Edited(S, [S EXCEPT !.own.buddies = g])
  BY <1>1, <1>2, OwnChanged
<1> QED
  BY <1>3, <1>4

(* oscar_add_buddy *)
LEMMA AddingBuddyLemma ==
  ASSUME NEW S \in Sessions, NEW name \in Names, NEW group \in Names,
         NEW alias \in Aliases \cup {NULL}
  PROVE  AddingBuddy(S, name, group, alias) \in From(S)
<1> DEFINE l == S.own.buddies
           new == Append(l, Own(name, group, alias))
           T == [S EXCEPT !.own.buddies = new]
<1>1. alias \in Values \cup {NULL}
  BY DEF Values
<1>2. AliasData(alias) \subseteq Tlvs
  BY <1>1, AliasDataType
<1>3. new \in Seq(EntryType)
  <2>1. l \in Seq(EntryType)
    BY SessionFields
  <2>2. Own(name, group, alias) \in EntryType
    BY <1>1 DEF Own, EntryType
  <2> HIDE DEF l
  <2> QED
    BY <2>1, <2>2
<1>4. AddingBuddy(S, name, group, alias) =
        IF aim_ssi_itemlist_exists(T.local, name) # 0 THEN T
        ELSE aim_ssi_addbuddy(T, name, group, AliasData(alias))
  BY DEF AddingBuddy
<1> HIDE DEF new
<1>5. S.own.private \in Seq(PrivateTypes \X Names)
  BY SessionFields
<1>6. Edited(S, T)
  BY <1>3, <1>5, OwnChanged
<1> HIDE DEF T
<1>7. T \in Sessions /\ T \in From(S)
  BY <1>6, EditedFrom
<1>8. aim_ssi_addbuddy(T, name, group, AliasData(alias)) \in From(T)
  BY <1>2, <1>7, AddBuddyLemma
<1> QED
  BY <1>4, <1>6, <1>7, <1>8, EditThen

(* oscar_remove_buddy *)
LEMMA RemovingBuddyLemma ==
  ASSUME NEW S \in Sessions, NEW i \in 1 .. Len(S.own.buddies), NEW b
  PROVE  RemovingBuddy(S, i, b) \in From(S)
<1> DEFINE l == S.own.buddies
           new == RemoveAt(l, i)
           T == [S EXCEPT !.own.buddies = new]
<1>1. l \in Seq(EntryType) /\ S.own.private \in Seq(PrivateTypes \X Names)
  BY SessionFields
<1>2. new \in Seq(EntryType)
  BY <1>1, RemoveAtLemma
<1>3. RemovingBuddy(S, i, b) = aim_ssi_delbuddy(T, b.name, b.group)
  BY DEF RemovingBuddy
<1> HIDE DEF new
<1>4. Edited(S, T)
  BY <1>1, <1>2, OwnChanged
<1> HIDE DEF T
<1>5. aim_ssi_delbuddy(T, b.name, b.group) \in From(T)
  BY <1>4, EditedFrom, DelBuddyLemma
<1> QED
  BY <1>3, <1>4, <1>5, EditThen

(* oscar_move_buddy *)
LEMMA MoveLemma ==
  ASSUME NEW S \in Sessions, NEW i \in Nat, NEW b \in EntryType, NEW new_group \in Names
  PROVE  Move(S, i, b, new_group) \in From(S)
<1> DEFINE T == [S EXCEPT !.own.buddies[i].group = new_group]
<1>1. Edited(S, T)
  BY EntryChanged
<1>2. Move(S, i, b, new_group) = aim_ssi_movebuddy(T, b.group, new_group, b.name)
  BY DEF Move
<1> HIDE DEF T
<1>3. b.name \in Names /\ T \in Sessions
  BY <1>1, EditedFrom DEF EntryType
<1>4. aim_ssi_movebuddy(T, b.group, new_group, b.name) \in From(T)
  BY <1>3, MoveBuddyLemma
<1> QED
  BY <1>1, <1>2, <1>4, EditThen

(* oscar_alias_buddy *)
LEMMA AliasingBuddyLemma ==
  ASSUME NEW S \in Sessions, NEW i \in Nat, NEW b, NEW alias \in Aliases \cup {NULL}
  PROVE  AliasingBuddy(S, i, b, alias) \in From(S)
<1> DEFINE T == [S EXCEPT !.own.buddies[i].alias = alias]
           gname == aim_ssi_itemlist_findparentname(T.local, b.name)
<1>0. alias \in Values \cup {NULL} /\ Orphans \in Names
  BY NamesAssumption DEF Values
<1>1. Edited(S, T)
  BY <1>0, EntryChanged
<1>2. AliasingBuddy(S, i, b, alias) =
        IF gname = NULL THEN T ELSE aim_ssi_aliasbuddy(T, gname, b.name, alias)
  BY DEF AliasingBuddy
<1> HIDE DEF T, gname
<1>3. T \in Sessions /\ T \in From(S)
  BY <1>1, EditedFrom
<1>4. aim_ssi_aliasbuddy(T, gname, b.name, alias) \in From(T)
  BY <1>0, <1>3, AliasBuddyLemma
<1> QED
  BY <1>1, <1>2, <1>3, <1>4, EditThen

(* oscar_add_permit and oscar_add_deny *)
LEMMA AddingPrivateLemma ==
  ASSUME NEW S \in Sessions, NEW type \in PrivateTypes, NEW name \in Names
  PROVE  AddingPrivate(S, type, name) \in From(S)
<1> DEFINE p == S.own.private
           new == Append(p, <<type, name>>)
           T == [S EXCEPT !.own.private = new]
<1>1. p \in Seq(PrivateTypes \X Names) /\ S.own.buddies \in Seq(EntryType)
  BY SessionFields
<1>2. new \in Seq(PrivateTypes \X Names)
  <2> HIDE DEF p
  <2> QED
    BY <1>1
<1>3. AddingPrivate(S, type, name) = AddPrivate(T, type, name)
  BY DEF AddingPrivate
<1> HIDE DEF new
<1>4. Edited(S, T)
  BY <1>1, <1>2, OwnChanged
<1> HIDE DEF T
<1>5. AddPrivate(T, type, name) \in From(T)
  BY <1>4, EditedFrom, AddPrivateLemma
<1> QED
  BY <1>3, <1>4, <1>5, EditThen

(* oscar_rem_permit and oscar_rem_deny *)
LEMMA RemovingPrivateLemma ==
  ASSUME NEW S \in Sessions, NEW type, NEW name
  PROVE  RemovingPrivate(S, type, name) \in From(S)
<1> DEFINE p == S.own.private
           at == {i \in DOMAIN p : p[i] # <<type, name>>}
           new == Chosen(p, at)
           T == [S EXCEPT !.own.private = new]
<1>1. p \in Seq(PrivateTypes \X Names) /\ S.own.buddies \in Seq(EntryType)
  BY SessionFields
<1>2. new \in Seq(PrivateTypes \X Names)
  <2>1. at \subseteq DOMAIN p
    OBVIOUS
  <2> HIDE DEF at, p
  <2> QED
    BY <1>1, <2>1, ChosenLemma
<1>3. RemovingPrivate(S, type, name) = DelPrivate(T, type, name)
  BY DEF RemovingPrivate
<1> HIDE DEF new
<1>4. Edited(S, T)
  BY <1>1, <1>2, OwnChanged
<1> HIDE DEF T
<1>5. DelPrivate(T, type, name) \in From(T)
  BY <1>4, EditedFrom, DelPrivateLemma
<1> QED
  BY <1>3, <1>4, <1>5, EditThen

(* gaim_auth_request *)
LEMMA AskingAgainLemma ==
  ASSUME NEW S \in Sessions, NEW name
  PROVE  AskingAgain(S, name) \in From(S)
<1> DEFINE T == [S EXCEPT !.asked = @ \ {name}]
           i == gaim_find_buddy(T, name)
           b == T.own.buddies[i]
           data == {AuthTlv} \cup AliasData(b.alias)
<1>1. Edited(S, T)
  <2>1. S.asked \ {name} \in SUBSET Names
    BY SessionFields
  <2>2. T \in SessionType
    BY <2>1 DEF Sessions, SessionType
  <2>3. /\ T.local = S.local /\ T.official = S.official /\ T.pending = S.pending
        /\ T.waiting = S.waiting /\ T.received = S.received /\ T.out = S.out /\ T.reuse = S.reuse
    BY DEF Sessions, SessionType
  <2> HIDE DEF T
  <2>4. T \in Sessions
    BY <2>2, <2>3 DEF Sessions
  <2> QED
    BY <2>3, <2>4 DEF Edited, Kept
<1>2. AskingAgain(S, name) =
        IF i = 0 \/ aim_ssi_itemlist_finditem(T.local, b.group, b.name, "buddy") # 0 THEN T
        ELSE aim_ssi_addbuddy(T, b.name, b.group, data)
  BY DEF AskingAgain
<1> HIDE DEF T
<1>3. T \in Sessions /\ T \in From(S)
  BY <1>1, EditedFrom
<1>4. i # 0 => b \in EntryType
  <2> DEFINE l == T.own.buddies
             set == {k \in DOMAIN l : Same(l[k].name, name)}
  <2>1. l \in Seq(EntryType)
    BY <1>3, SessionFields
  <2>2. set \subseteq 1 .. Len(l) /\ set \subseteq Nat \ {0}
    BY <2>1
  <2>3. i = FirstOf(set)
    BY DEF gaim_find_buddy
  <2> HIDE DEF set, i
  <2>4. FirstOf(set) \in set \cup {0}
    BY <2>2, FirstOfLemma
  <2>5. i # 0 => i \in 1 .. Len(l)
    BY <2>2, <2>3, <2>4
  <2> QED
    BY <2>1, <2>5
<1> HIDE DEF i, b
<1>5. i # 0 => aim_ssi_addbuddy(T, b.name, b.group, data) \in From(T)
  <2> SUFFICES ASSUME i # 0
               PROVE  aim_ssi_addbuddy(T, b.name, b.group, data) \in From(T)
    OBVIOUS
  <2>1. b.name \in Names /\ b.group \in Names /\ b.alias \in Values \cup {NULL}
    BY <1>4 DEF EntryType
  <2>2. AliasData(b.alias) \subseteq Tlvs
    BY <2>1, AliasDataType
  <2>3. AuthTlv \in Tlvs
    BY DEF AuthTlv, Tlv, Tlvs, Kinds, Values
  <2>4. data \subseteq Tlvs
    BY <2>2, <2>3
  <2> HIDE DEF data
  <2> QED
    BY <1>3, <2>1, <2>4, AddBuddyLemma
<1> HIDE DEF data
<1> QED
  BY <1>1, <1>2, <1>3, <1>5, EditThen

(* gaim_blist_rename_group: the members of the group are moved one by one, *)
(* or removed and added again.                                             *)
MovedAll(S, seq, own, new_group) == FoldLeft(LAMBDA T, i : Move(T, i, own[i], new_group), S, seq)
RemovedAll(S, seq, group) == FoldLeft(LAMBDA T, b : aim_ssi_delbuddy(T, b.name, group), S, seq)
AddedAll(S, seq) ==
  FoldLeft(LAMBDA T, b : aim_ssi_addbuddy(T, b.name, b.group, AliasData(b.alias)), S, seq)

(* The moves. *)
LEMMA MovedAllRun ==
  ASSUME NEW S \in Sessions, NEW own \in Seq(EntryType), NEW new_group \in Names,
         NEW seq \in Seq(DOMAIN own)
  PROVE  \E r \in [0 .. Len(seq) -> From(S)] :
           /\ r[0] = S /\ r[Len(seq)] = MovedAll(S, seq, own, new_group)
           /\ \A n \in 1 .. Len(seq) : r[n] = Move(r[n - 1], seq[n], own[seq[n]], new_group)
<1> DEFINE N == Len(seq)
           X == From(S)
           Step(T, n) == Move(T, seq[n], own[seq[n]], new_group)
           G == [n \in 1 .. N |-> [T \in X |-> Step(T, n)]]
           Body(h) == [s \in SUBSET (1 .. N) |->
                         IF s = {} THEN S ELSE Step(h[s \ {Max(s)}], Max(s))]
           h == CHOOSE f : f = Body(f)
<1>1. S \in X /\ N \in Nat
  BY FromRefl
<1>2. ASSUME NEW n \in 1 .. N, NEW T \in X
      PROVE  Step(T, n) \in X
  <2>1. T \in Sessions /\ seq[n] \in DOMAIN own
    BY DEF From
  <2>2. seq[n] \in Nat /\ own[seq[n]] \in EntryType
    BY <2>1
  <2>3. Move(T, seq[n], own[seq[n]], new_group) \in From(T)
    BY <2>1, <2>2, MoveLemma
  <2> QED
    BY <2>3, FromTrans
<1>3. MovedAll(S, seq, own, new_group) = h[1 .. N]
  <2>1. DOMAIN seq = 1 .. N
    OBVIOUS
  <2> QED
    BY <2>1 DEF FoldLeft, MapThenFoldSet, MovedAll
<1> HIDE DEF Step
<1>4. G \in [1 .. N -> [X -> X]]
  BY <1>2
<1>5. PICK g \in [SUBSET (1 .. N) -> X] : LeftFoldOf(g, N, X, S, G)
  <2> HIDE DEF X, G, N
  <2> QED
    BY <1>1, <1>4, LeftFoldExists
<1>m. \A s \in SUBSET (1 .. N) : s # {} => Max(s) \in 1 .. N /\ s \ {Max(s)} \in SUBSET (1 .. N)
  <2> HIDE DEF N
  <2> QED
    BY <1>1, MaxOfPositions
<1> HIDE DEF N, X
<1>6. g = Body(g)
  <2>1. \A s \in SUBSET (1 .. N) :
          g[s] = IF s = {} THEN S ELSE Step(g[s \ {Max(s)}], Max(s))
    BY <1>5, <1>m DEF LeftFoldOf
  <2> QED
    BY <2>1
<1>7. h = Body(h)
  <2> HIDE DEF Body
  <2> QED
    BY <1>6
<1>8. /\ h[{}] = S
      /\ \A s \in SUBSET (1 .. N) : s # {} => h[s] = Step(h[s \ {Max(s)}], Max(s))
  <2> HIDE DEF h
  <2> QED
    BY <1>7
<1> HIDE DEF h
<1>9. IsFold(h, N, X, S, G)
  BY <1>1, <1>4, <1>8, <1>m DEF IsFold, LeftFoldOf
<1>10. \A n \in 1 .. N, T \in X : G[n][T] = Step(T, n)
  OBVIOUS
<1> HIDE DEF G
<1>11. PICK r \in [0 .. N -> X] : Follows(r, N, S, G) /\ r[N] = h[1 .. N]
  BY <1>9, FoldToRun
<1>12. \A n \in 1 .. N : r[n] = Step(r[n - 1], n)
  <2> SUFFICES ASSUME NEW n \in 1 .. N
               PROVE  r[n] = Step(r[n - 1], n)
    OBVIOUS
  <2>1. r[n] = G[n][r[n - 1]] /\ n - 1 \in 0 .. N
    BY <1>1, <1>11 DEF Follows
  <2>2. r[n - 1] \in X
    BY <2>1
  <2> QED
    BY <1>10, <2>1, <2>2
<1>13. r[0] = S
  BY <1>11 DEF Follows
<1> QED
  BY <1>3, <1>11, <1>12, <1>13 DEF N, X, Step

(* The removals. *)
LEMMA RemovedAllRun ==
  ASSUME NEW S \in Sessions, NEW seq \in Seq(EntryType), NEW group
  PROVE  \E r \in [0 .. Len(seq) -> From(S)] :
           /\ r[0] = S /\ r[Len(seq)] = RemovedAll(S, seq, group)
           /\ \A n \in 1 .. Len(seq) : r[n] = aim_ssi_delbuddy(r[n - 1], seq[n].name, group)
<1> DEFINE N == Len(seq)
           X == From(S)
           Step(T, n) == aim_ssi_delbuddy(T, seq[n].name, group)
           G == [n \in 1 .. N |-> [T \in X |-> Step(T, n)]]
           Body(h) == [s \in SUBSET (1 .. N) |->
                         IF s = {} THEN S ELSE Step(h[s \ {Max(s)}], Max(s))]
           h == CHOOSE f : f = Body(f)
<1>1. S \in X /\ N \in Nat
  BY FromRefl
<1>2. ASSUME NEW n \in 1 .. N, NEW T \in X
      PROVE  Step(T, n) \in X
  <2>1. T \in Sessions
    BY DEF From
  <2>2. aim_ssi_delbuddy(T, seq[n].name, group) \in From(T)
    BY <2>1, DelBuddyLemma
  <2> QED
    BY <2>2, FromTrans
<1>3. RemovedAll(S, seq, group) = h[1 .. N]
  <2>1. DOMAIN seq = 1 .. N
    OBVIOUS
  <2> QED
    BY <2>1 DEF FoldLeft, MapThenFoldSet, RemovedAll
<1> HIDE DEF Step
<1>4. G \in [1 .. N -> [X -> X]]
  BY <1>2
<1>5. PICK g \in [SUBSET (1 .. N) -> X] : LeftFoldOf(g, N, X, S, G)
  <2> HIDE DEF X, G, N
  <2> QED
    BY <1>1, <1>4, LeftFoldExists
<1>m. \A s \in SUBSET (1 .. N) : s # {} => Max(s) \in 1 .. N /\ s \ {Max(s)} \in SUBSET (1 .. N)
  <2> HIDE DEF N
  <2> QED
    BY <1>1, MaxOfPositions
<1> HIDE DEF N, X
<1>6. g = Body(g)
  <2>1. \A s \in SUBSET (1 .. N) :
          g[s] = IF s = {} THEN S ELSE Step(g[s \ {Max(s)}], Max(s))
    BY <1>5, <1>m DEF LeftFoldOf
  <2> QED
    BY <2>1
<1>7. h = Body(h)
  <2> HIDE DEF Body
  <2> QED
    BY <1>6
<1>8. /\ h[{}] = S
      /\ \A s \in SUBSET (1 .. N) : s # {} => h[s] = Step(h[s \ {Max(s)}], Max(s))
  <2> HIDE DEF h
  <2> QED
    BY <1>7
<1> HIDE DEF h
<1>9. IsFold(h, N, X, S, G)
  BY <1>1, <1>4, <1>8, <1>m DEF IsFold, LeftFoldOf
<1>10. \A n \in 1 .. N, T \in X : G[n][T] = Step(T, n)
  OBVIOUS
<1> HIDE DEF G
<1>11. PICK r \in [0 .. N -> X] : Follows(r, N, S, G) /\ r[N] = h[1 .. N]
  BY <1>9, FoldToRun
<1>12. \A n \in 1 .. N : r[n] = Step(r[n - 1], n)
  <2> SUFFICES ASSUME NEW n \in 1 .. N
               PROVE  r[n] = Step(r[n - 1], n)
    OBVIOUS
  <2>1. r[n] = G[n][r[n - 1]] /\ n - 1 \in 0 .. N
    BY <1>1, <1>11 DEF Follows
  <2>2. r[n - 1] \in X
    BY <2>1
  <2> QED
    BY <1>10, <2>1, <2>2
<1>13. r[0] = S
  BY <1>11 DEF Follows
<1> QED
  BY <1>3, <1>11, <1>12, <1>13 DEF N, X, Step

(* The additions. *)
LEMMA AddedAllRun ==
  ASSUME NEW S \in Sessions, NEW seq \in Seq(EntryType)
  PROVE  \E r \in [0 .. Len(seq) -> From(S)] :
           /\ r[0] = S /\ r[Len(seq)] = AddedAll(S, seq)
           /\ \A n \in 1 .. Len(seq) : r[n] = aim_ssi_addbuddy(r[n - 1], seq[n].name, seq[n].group, AliasData(seq[n].alias))
<1> DEFINE N == Len(seq)
           X == From(S)
           Step(T, n) == aim_ssi_addbuddy(T, seq[n].name, seq[n].group, AliasData(seq[n].alias))
           G == [n \in 1 .. N |-> [T \in X |-> Step(T, n)]]
           Body(h) == [s \in SUBSET (1 .. N) |->
                         IF s = {} THEN S ELSE Step(h[s \ {Max(s)}], Max(s))]
           h == CHOOSE f : f = Body(f)
<1>1. S \in X /\ N \in Nat
  BY FromRefl
<1>2. ASSUME NEW n \in 1 .. N, NEW T \in X
      PROVE  Step(T, n) \in X
  <2>1. T \in Sessions /\ seq[n] \in EntryType
    BY DEF From
  <2>2. /\ seq[n].name \in Names /\ seq[n].group \in Names
        /\ seq[n].alias \in Values \cup {NULL}
    BY <2>1 DEF EntryType
  <2>3. AliasData(seq[n].alias) \subseteq Tlvs
    BY <2>2, AliasDataType
  <2>4. aim_ssi_addbuddy(T, seq[n].name, seq[n].group, AliasData(seq[n].alias)) \in From(T)
    BY <2>1, <2>2, <2>3, AddBuddyLemma
  <2> QED
    BY <2>4, FromTrans
<1>3. AddedAll(S, seq) = h[1 .. N]
  <2>1. DOMAIN seq = 1 .. N
    OBVIOUS
  <2> QED
    BY <2>1 DEF FoldLeft, MapThenFoldSet, AddedAll
<1> HIDE DEF Step
<1>4. G \in [1 .. N -> [X -> X]]
  BY <1>2
<1>5. PICK g \in [SUBSET (1 .. N) -> X] : LeftFoldOf(g, N, X, S, G)
  <2> HIDE DEF X, G, N
  <2> QED
    BY <1>1, <1>4, LeftFoldExists
<1>m. \A s \in SUBSET (1 .. N) : s # {} => Max(s) \in 1 .. N /\ s \ {Max(s)} \in SUBSET (1 .. N)
  <2> HIDE DEF N
  <2> QED
    BY <1>1, MaxOfPositions
<1> HIDE DEF N, X
<1>6. g = Body(g)
  <2>1. \A s \in SUBSET (1 .. N) :
          g[s] = IF s = {} THEN S ELSE Step(g[s \ {Max(s)}], Max(s))
    BY <1>5, <1>m DEF LeftFoldOf
  <2> QED
    BY <2>1
<1>7. h = Body(h)
  <2> HIDE DEF Body
  <2> QED
    BY <1>6
<1>8. /\ h[{}] = S
      /\ \A s \in SUBSET (1 .. N) : s # {} => h[s] = Step(h[s \ {Max(s)}], Max(s))
  <2> HIDE DEF h
  <2> QED
    BY <1>7
<1> HIDE DEF h
<1>9. IsFold(h, N, X, S, G)
  BY <1>1, <1>4, <1>8, <1>m DEF IsFold, LeftFoldOf
<1>10. \A n \in 1 .. N, T \in X : G[n][T] = Step(T, n)
  OBVIOUS
<1> HIDE DEF G
<1>11. PICK r \in [0 .. N -> X] : Follows(r, N, S, G) /\ r[N] = h[1 .. N]
  BY <1>9, FoldToRun
<1>12. \A n \in 1 .. N : r[n] = Step(r[n - 1], n)
  <2> SUFFICES ASSUME NEW n \in 1 .. N
               PROVE  r[n] = Step(r[n - 1], n)
    OBVIOUS
  <2>1. r[n] = G[n][r[n - 1]] /\ n - 1 \in 0 .. N
    BY <1>1, <1>11 DEF Follows
  <2>2. r[n - 1] \in X
    BY <2>1
  <2> QED
    BY <1>10, <2>1, <2>2
<1>13. r[0] = S
  BY <1>11 DEF Follows
<1> QED
  BY <1>3, <1>11, <1>12, <1>13 DEF N, X, Step

(* oscar_rename_group *)
LEMMA RenamingLemma ==
  ASSUME NEW S \in Sessions, NEW old_group, NEW new_group \in Names, NEW members \in Seq(EntryType)
  PROVE  oscar_rename_group(S, old_group, new_group, members) \in From(S)
<1> DEFINE T == RemovedAll(S, members, old_group)
           U == AddedAll(T, members)
<1>1. oscar_rename_group(S, old_group, new_group, members) =
        IF aim_ssi_itemlist_finditem(S.local, new_group, NULL, "group") = 0
        THEN aim_ssi_rename_group(S, old_group, new_group) ELSE U
  BY DEF oscar_rename_group, RemovedAll, AddedAll
<1>2. Len(members) \in 0 .. Len(members)
  OBVIOUS
<1>3. T \in From(S) /\ T \in Sessions
  <2>1. \E r \in [0 .. Len(members) -> From(S)] : r[Len(members)] = T
    BY RemovedAllRun
  <2> HIDE DEF T
  <2> QED
    BY <1>2, <2>1 DEF From
<1> HIDE DEF T
<1>4. U \in From(T)
  <2>1. \E r \in [0 .. Len(members) -> From(T)] : r[Len(members)] = U
    BY <1>3, AddedAllRun
  <2> HIDE DEF U
  <2> QED
    BY <1>2, <2>1
<1> HIDE DEF U
<1>5. U \in From(S)
  BY <1>3, <1>4, FromTrans
<1> QED
  BY <1>1, <1>5, RenameGroupLemma

RenamingGroup(S, old_group, new_group, members, renamed) ==
  [oscar_rename_group(S, old_group, new_group, members) EXCEPT !.own.buddies = renamed]

(* Gaim's own list changes its names afterwards. *)
LEMMA RenamingGroupLemma ==
  ASSUME NEW S \in Sessions, NEW old_group, NEW new_group \in Names,
         NEW members \in Seq(EntryType), NEW renamed \in Seq(EntryType)
  PROVE  RenamingGroup(S, old_group, new_group, members, renamed) \in From(S)
<1> DEFINE T == oscar_rename_group(S, old_group, new_group, members)
           U == [T EXCEPT !.own.buddies = renamed]
<1>1. T \in From(S) /\ T \in Sessions
  BY RenamingLemma DEF From
<1>2. RenamingGroup(S, old_group, new_group, members, renamed) = U
  BY DEF RenamingGroup
<1> HIDE DEF T
<1>3. T.own.private \in Seq(PrivateTypes \X Names)
  BY <1>1, SessionFields
<1>4. Edited(T, U)
  BY <1>1, <1>3, OwnChanged
<1> HIDE DEF U
<1>5. U \in From(S)
  BY <1>1, <1>4, EditedFrom, FromTrans
<1> QED
  BY <1>2, <1>5

-----------------------------------------------------------------------------
(* The steps. *)

(* After an edit that made T of the session, malloc may do as it likes     *)
(* again.                                                                  *)
Noted ==
  troubles' = troubles \cup (IF Disturbed(ssi') THEN {"disturbed"} ELSE {})
                       \cup (IF Retyped(ssi') THEN {"retyped"} ELSE {})
                       \cup (IF Doubled(ssi') THEN {"doubled"} ELSE {})
Made(T) ==
  /\ ssi' = [T EXCEPT !.reuse = FALSE]
  /\ troubles' = troubles \cup (IF Disturbed(T) THEN {"disturbed"} ELSE {})
                          \cup (IF Retyped(T) THEN {"retyped"} ELSE {})
                          \cup (IF Doubled(T) THEN {"doubled"} ELSE {})
With(r) == [ssi EXCEPT !.reuse = r]

(* Two sessions that differ in nothing else. *)
SameButReuse(S, T) ==
  /\ S \in Sessions /\ T \in Sessions
  /\ T.local = S.local /\ T.official = S.official /\ T.pending = S.pending
  /\ T.waiting = S.waiting /\ T.received = S.received /\ T.out = S.out
  /\ T.asked = S.asked /\ T.own = S.own

(* malloc's choice. *)
LEMMA ReuseLemma ==
  ASSUME NEW S \in Sessions, NEW r \in BOOLEAN
  PROVE  SameButReuse(S, [S EXCEPT !.reuse = r]) /\ [S EXCEPT !.reuse = r].reuse = r
<1> DEFINE T == [S EXCEPT !.reuse = r]
<1>1. T \in SessionType /\ T.reuse = r
  BY DEF Sessions, SessionType
<1>2. /\ T.local = S.local /\ T.official = S.official /\ T.pending = S.pending
      /\ T.waiting = S.waiting /\ T.received = S.received /\ T.out = S.out
      /\ T.asked = S.asked /\ T.own = S.own
  BY DEF Sessions, SessionType
<1> HIDE DEF T
<1>3. T \in Sessions
  BY <1>1, <1>2 DEF Sessions
<1>4. SameButReuse(S, T) /\ T.reuse = r
  BY <1>1, <1>2, <1>3 DEF SameButReuse
<1> QED
  BY <1>4 DEF T

(* What has gone wrong is the same in either. *)
LEMMA MadeLemma ==
  ASSUME NEW T \in Sessions, Made(T)
  PROVE  SameButReuse(T, ssi') /\ ssi'.reuse = FALSE /\ Noted
<1>1. SameButReuse(T, ssi') /\ ssi'.reuse = FALSE
  BY ReuseLemma DEF Made
<1>2. Disturbed(T) <=> Disturbed(ssi')
  <2>1. T["local"] = ssi'["local"] /\ T["official"] = ssi'["official"] /\ T.pending = ssi'.pending
    BY <1>1 DEF SameButReuse
  <2>2. \A action : T[Home(action)] = ssi'[Home(action)]
    BY <2>1 DEF Home
  <2> QED
    BY <2>1, <2>2 DEF Disturbed
<1>3. (Retyped(T) <=> Retyped(ssi')) /\ (Doubled(T) <=> Doubled(ssi'))
  BY <1>1 DEF SameButReuse, Retyped, Doubled
<1> QED
  BY <1>1, <1>2, <1>3 DEF Made, Noted

(* An edit is made of the session as it is. *)
LEMMA MadeFrom ==
  ASSUME ssi \in Sessions, ssi.reuse = FALSE, NEW r \in BOOLEAN,
         NEW T \in From(With(r)), Made(T)
  PROVE  ssi' \in From(ssi) /\ ssi'.reuse = FALSE /\ Noted
<1>1. SameButReuse(ssi, With(r))
  BY ReuseLemma DEF With
<1>2. T \in Sessions
  BY DEF From
<1>3. SameButReuse(T, ssi') /\ ssi'.reuse = FALSE /\ Noted
  BY <1>2, MadeLemma
<1> DEFINE R == With(r)
<1> HIDE DEF R
<1>4. T \in From(R) /\ SameButReuse(ssi, R)
  BY <1>1 DEF R
<1>5. T.received = R.received /\ (Edited(R, T) \/ Sent(R, T))
  BY <1>4 DEF From
<1>6. CASE Edited(R, T)
  <2>1. Edited(ssi, ssi')
    BY <1>3, <1>4, <1>6 DEF Edited, Kept, SameButReuse
  <2> QED
    BY <1>3, <2>1, EditedFrom
<1>7. CASE Sent(R, T)
  <2>1. Sent(ssi, ssi')
    BY <1>3, <1>4, <1>7 DEF Sent, SameButReuse
  <2> QED
    BY <1>3, <1>4, <1>5, <2>1 DEF From, SameButReuse
<1> QED
  BY <1>5, <1>6, <1>7

-----------------------------------------------------------------------------
(* Messages on their way.  f follows the messages of seq: R relates what   *)
(* is the case before a message to what is the case after it.              *)

Linked(f, seq, X, R) ==
  /\ f \in [0 .. Len(seq) -> X]
  /\ \A m \in 1 .. Len(seq) : <<f[m - 1], seq[m], f[m]>> \in R

(* No message. *)
LEMMA LinkedNone ==
  ASSUME NEW X, NEW R, NEW x \in X
  PROVE  Linked([n \in 0 .. 0 |-> x], <<>>, X, R)
BY DEF Linked

Extended(f, seq, msg, x, X, R) ==
  \E g : Linked(g, Append(seq, msg), X, R) /\ g[0] = f[0] /\ g[Len(Append(seq, msg))] = x

(* One more message. *)
LEMMA LinkedAppend ==
  ASSUME NEW M, NEW X, NEW R, NEW seq \in Seq(M), NEW f, Linked(f, seq, X, R),
         NEW msg \in M, NEW x \in X, <<f[Len(seq)], msg, x>> \in R
  PROVE  Extended(f, seq, msg, x, X, R)
<1> DEFINE N == Len(seq)
           new == Append(seq, msg)
           g == [n \in 0 .. N + 1 |-> IF n = N + 1 THEN x ELSE f[n]]
<1>1. N \in Nat /\ Len(new) = N + 1 /\ new[N + 1] = msg /\ \A m \in 1 .. N : new[m] = seq[m]
  OBVIOUS
<1>2. f \in [0 .. N -> X] /\ \A m \in 1 .. N : <<f[m - 1], seq[m], f[m]>> \in R
  BY DEF Linked
<1>3. <<f[N], msg, x>> \in R
  OBVIOUS
<1> HIDE DEF N, new
<1>4. g \in [0 .. N + 1 -> X]
  <2>1. \A n \in 0 .. N + 1 : n # N + 1 => n \in 0 .. N
    BY <1>1
  <2> QED
    BY <1>2, <2>1
<1>5. g[N + 1] = x /\ \A n \in 0 .. N : g[n] = f[n]
  BY <1>1
<1> HIDE DEF g
<1>6. ASSUME NEW m \in 1 .. N + 1
      PROVE  <<g[m - 1], new[m], g[m]>> \in R
  <2>1. CASE m = N + 1
    <3>1. m - 1 = N /\ N \in 0 .. N
      BY <1>1, <2>1
    <3> QED
      BY <1>1, <1>3, <1>5, <2>1, <3>1
  <2>2. CASE m # N + 1
    <3>1. m \in 1 .. N /\ m - 1 \in 0 .. N /\ m \in 0 .. N
      BY <1>1, <2>2
    <3> QED
      BY <1>1, <1>2, <1>5, <3>1
  <2> QED
    BY <2>1, <2>2
<1>7. Linked(g, new, X, R)
  BY <1>1, <1>4, <1>6 DEF Linked
<1>8. g[0] = f[0]
  BY <1>1, <1>5
<1> QED
  BY <1>1, <1>5, <1>7, <1>8 DEF new, Extended

Unread(f, seq, M, X, R) ==
  /\ Head(seq) \in M /\ Tail(seq) \in Seq(M)
  /\ f[0] \in X /\ f[1] \in X /\ <<f[0], Head(seq), f[1]>> \in R
  /\ \E g : Linked(g, Tail(seq), X, R) /\ g[0] = f[1] /\ g[Len(Tail(seq))] = f[Len(seq)]

(* The first message has been read. *)
LEMMA LinkedTail ==
  ASSUME NEW M, NEW X, NEW R, NEW seq \in Seq(M), seq # <<>>, NEW f, Linked(f, seq, X, R)
  PROVE  Unread(f, seq, M, X, R)
<1> DEFINE N == Len(seq)
           new == Tail(seq)
           g == [n \in 0 .. N - 1 |-> f[n + 1]]
<1>1. /\ N \in Nat \ {0} /\ new \in Seq(M) /\ Len(new) = N - 1 /\ Head(seq) = seq[1] /\ seq[1] \in M
      /\ \A m \in 1 .. N - 1 : new[m] = seq[m + 1]
  OBVIOUS
<1>2. f \in [0 .. N -> X] /\ \A m \in 1 .. N : <<f[m - 1], seq[m], f[m]>> \in R
  BY DEF Linked
<1> HIDE DEF N, new
<1>3. \A n \in 0 .. N - 1 : n + 1 \in 0 .. N /\ n + 1 \in 1 .. N /\ (n + 1) - 1 = n
  BY <1>1
<1>4. g \in [0 .. N - 1 -> X]
  BY <1>2, <1>3
<1>5. \A n \in 0 .. N - 1 : g[n] = f[n + 1]
  OBVIOUS
<1> HIDE DEF g
<1>6. ASSUME NEW m \in 1 .. N - 1
      PROVE  <<g[m - 1], new[m], g[m]>> \in R
  <2>1. m \in 0 .. N - 1 /\ m - 1 \in 0 .. N - 1 /\ (m - 1) + 1 = m /\ m + 1 \in 1 .. N /\ (m + 1) - 1 = m
    BY <1>1
  <2>2. <<f[m], seq[m + 1], f[m + 1]>> \in R
    BY <1>2, <2>1
  <2>3. g[m - 1] = f[m] /\ g[m] = f[m + 1] /\ new[m] = seq[m + 1]
    BY <1>1, <1>5, <2>1
  <2> QED
    BY <2>2, <2>3
<1>7. Linked(g, new, X, R)
  BY <1>1, <1>4, <1>6 DEF Linked
<1>8. g[0] = f[1] /\ g[Len(new)] = f[N]
  BY <1>1, <1>5
<1>9. 0 \in 0 .. N /\ 1 \in 0 .. N /\ 1 \in 1 .. N /\ 1 - 1 = 0
  BY <1>1
<1>10. f[0] \in X /\ f[1] \in X /\ <<f[0], seq[1], f[1]>> \in R
  BY <1>2, <1>9
<1> QED
  BY <1>1, <1>7, <1>8, <1>10 DEF N, new, Unread

(* What every message keeps is the same in the end. *)
LEMMA LinkedKeeps ==
  ASSUME NEW M, NEW X, NEW R, NEW seq \in Seq(M), NEW f, Linked(f, seq, X, R),
         NEW Q, f[0] \in Q, \A a, b \in X, msg \in M : a \in Q /\ <<a, msg, b>> \in R => b \in Q
  PROVE  \A n \in 0 .. Len(seq) : f[n] \in Q
<1> DEFINE N == Len(seq)
           T == {n \in 0 .. N : f[n] \in Q}
<1>1. N \in Nat /\ f \in [0 .. N -> X] /\ \A m \in 1 .. N : <<f[m - 1], seq[m], f[m]>> \in R
  BY DEF Linked
<1>2. \A m \in 1 .. N : seq[m] \in M
  OBVIOUS
<1> HIDE DEF N
<1>3. 0 \in T
  BY <1>1
<1>4. ASSUME NEW n \in 0 .. N - 1, n \in T
      PROVE  n + 1 \in T
  <2>1. n + 1 \in 1 .. N /\ n + 1 \in 0 .. N /\ n \in 0 .. N /\ (n + 1) - 1 = n
    BY <1>1
  <2>2. <<f[n], seq[n + 1], f[n + 1]>> \in R /\ f[n] \in X /\ f[n + 1] \in X /\ seq[n + 1] \in M
    BY <1>1, <1>2, <2>1
  <2> QED
    BY <1>4, <2>1, <2>2
<1>5. 0 .. N \subseteq T
  <2> HIDE DEF T
  <2> QED
    BY <1>1, <1>3, <1>4, UpTo
<1> QED
  BY <1>5 DEF N

-----------------------------------------------------------------------------
(* The server. *)

ServedType == [set : SUBSET ContentType, oks : Seq(BOOLEAN)]
ServeOne(acc, req, no, i) ==
  LET ok == i \notin no /\ (req.action = "add") = (At(acc.set, req.items[i]) = {})
  IN  [set |-> IF ok THEN Serve(acc.set, req.action, req.items[i]) ELSE acc.set,
       oks |-> Append(acc.oks, ok)]
ServedBy(S, req, no, seq) ==
  FoldLeft(LAMBDA acc, i :
             LET ok == i \notin no /\ (req.action = "add") = (At(acc.set, req.items[i]) = {})
             IN  [set |-> IF ok THEN Serve(acc.set, req.action, req.items[i]) ELSE acc.set,
                  oks |-> Append(acc.oks, ok)], S, seq)

(* The server's list, and what it becomes, is made of items. *)
LEMMA ServeType ==
  ASSUME NEW set \in SUBSET ContentType, NEW action \in Actions, NEW it \in ContentType
  PROVE  /\ Serve(set, action, it) \in SUBSET ContentType
         /\ IsFiniteSet(set) => IsFiniteSet(Serve(set, action, it))
<1> DEFINE old == At(set, it)
           rest == set \ old
<1>1. CASE action = "add"
  <2>1. Serve(set, action, it) = set \cup {it}
    BY <1>1 DEF Serve
  <2> QED
    BY <2>1, FS_AddElement
<1>2. CASE action = "mod"
  <2>1. Serve(set, action, it) = rest \cup {it} /\ rest \subseteq set
    BY <1>2 DEF Serve
  <2> HIDE DEF rest
  <2> QED
    BY <2>1, FS_AddElement, FS_Subset
<1>3. CASE action = "del"
  <2>1. Serve(set, action, it) = rest /\ rest \subseteq set
    BY <1>3 DEF Serve
  <2> HIDE DEF rest
  <2> QED
    BY <2>1, FS_Subset
<1> QED
  BY <1>1, <1>2, <1>3 DEF Actions

Accepted(S, req, no, i) ==
  i \notin no /\ (req.action = "add") = (At(S.set, req.items[i]) = {})
OneServed(S, T, req, no, i) ==
  /\ S \in ServedType /\ T \in ServedType
  /\ T.oks = Append(S.oks, Accepted(S, req, no, i))
  /\ T.set = IF Accepted(S, req, no, i) THEN Serve(S.set, req.action, req.items[i]) ELSE S.set
  /\ IsFiniteSet(S.set) => IsFiniteSet(T.set)

(* One item of a request. *)
LEMMA ServeOneLemma ==
  ASSUME NEW S \in ServedType, NEW req, req.items \in Seq(ContentType), req.action \in Actions,
         NEW no, NEW i \in 1 .. Len(req.items)
  PROVE  OneServed(S, ServeOne(S, req, no, i), req, no, i)
<1> DEFINE T == ServeOne(S, req, no, i)
           ok == Accepted(S, req, no, i)
           new == IF ok THEN Serve(S.set, req.action, req.items[i]) ELSE S.set
<1>1. T = [set |-> new, oks |-> Append(S.oks, ok)]
  BY DEF ServeOne, Accepted
<1>2. ok \in BOOLEAN /\ S.oks \in Seq(BOOLEAN) /\ S.set \in SUBSET ContentType
      /\ req.items[i] \in ContentType
  BY DEF ServedType, Accepted
<1>3. /\ Serve(S.set, req.action, req.items[i]) \in SUBSET ContentType
      /\ IsFiniteSet(S.set) => IsFiniteSet(Serve(S.set, req.action, req.items[i]))
  BY <1>2, ServeType
<1>4. new \in SUBSET ContentType /\ (IsFiniteSet(S.set) => IsFiniteSet(new))
  <2> HIDE DEF ok
  <2> QED
    BY <1>2, <1>3
<1> HIDE DEF T, ok, new
<1>5. Append(S.oks, ok) \in Seq(BOOLEAN)
  BY <1>2
<1>6. T \in ServedType /\ T.oks = Append(S.oks, ok) /\ T.set = new
  BY <1>1, <1>4, <1>5 DEF ServedType
<1> QED
  BY <1>4, <1>6 DEF T, ok, new, OneServed

Serving(S, req, no, seq) ==
  \E r \in [0 .. Len(seq) -> ServedType] :
    /\ r[0] = S /\ r[Len(seq)] = ServedBy(S, req, no, seq)
    /\ \A n \in 1 .. Len(seq) : r[n] = ServeOne(r[n - 1], req, no, seq[n])

(* One item after the other. *)
LEMMA ServedRun ==
  ASSUME NEW S \in ServedType, NEW req, req.items \in Seq(ContentType), req.action \in Actions,
         NEW no, NEW seq \in Seq(1 .. Len(req.items))
  PROVE  Serving(S, req, no, seq)
<1> DEFINE N == Len(seq)
           X == ServedType
           Step(T, n) == ServeOne(T, req, no, seq[n])
           G == [n \in 1 .. N |-> [T \in X |-> Step(T, n)]]
           Body(h) == [s \in SUBSET (1 .. N) |->
                         IF s = {} THEN S ELSE Step(h[s \ {Max(s)}], Max(s))]
           h == CHOOSE f : f = Body(f)
<1>1. S \in X /\ N \in Nat
  OBVIOUS
<1>2. ASSUME NEW n \in 1 .. N, NEW T \in X
      PROVE  Step(T, n) \in X
  <2>1. seq[n] \in 1 .. Len(req.items)
    OBVIOUS
  <2> QED
    BY <2>1, ServeOneLemma DEF OneServed
<1>3. ServedBy(S, req, no, seq) = h[1 .. N]
  <2>1. DOMAIN seq = 1 .. N
    OBVIOUS
  <2> QED
    BY <2>1 DEF FoldLeft, MapThenFoldSet, ServedBy, ServeOne
<1> HIDE DEF Step
<1>4. G \in [1 .. N -> [X -> X]]
  BY <1>2
<1>5. PICK g \in [SUBSET (1 .. N) -> X] : LeftFoldOf(g, N, X, S, G)
  <2> HIDE DEF X, G, N
  <2> QED
    BY <1>1, <1>4, LeftFoldExists
<1>m. \A s \in SUBSET (1 .. N) : s # {} => Max(s) \in 1 .. N /\ s \ {Max(s)} \in SUBSET (1 .. N)
  <2> HIDE DEF N
  <2> QED
    BY <1>1, MaxOfPositions
<1> HIDE DEF N, X
<1>6. g = Body(g)
  <2>1. \A s \in SUBSET (1 .. N) :
          g[s] = IF s = {} THEN S ELSE Step(g[s \ {Max(s)}], Max(s))
    BY <1>5, <1>m DEF LeftFoldOf
  <2> QED
    BY <2>1
<1>7. h = Body(h)
  <2> HIDE DEF Body
  <2> QED
    BY <1>6
<1>8. /\ h[{}] = S
      /\ \A s \in SUBSET (1 .. N) : s # {} => h[s] = Step(h[s \ {Max(s)}], Max(s))
  <2> HIDE DEF h
  <2> QED
    BY <1>7
<1> HIDE DEF h
<1>9. IsFold(h, N, X, S, G)
  BY <1>1, <1>4, <1>8, <1>m DEF IsFold, LeftFoldOf
<1>10. \A n \in 1 .. N, T \in X : G[n][T] = Step(T, n)
  OBVIOUS
<1> HIDE DEF G
<1>11. PICK r \in [0 .. N -> X] : Follows(r, N, S, G) /\ r[N] = h[1 .. N]
  BY <1>9, FoldToRun
<1>12. \A n \in 1 .. N : r[n] = Step(r[n - 1], n)
  <2> SUFFICES ASSUME NEW n \in 1 .. N
               PROVE  r[n] = Step(r[n - 1], n)
    OBVIOUS
  <2>1. r[n] = G[n][r[n - 1]] /\ n - 1 \in 0 .. N
    BY <1>1, <1>11 DEF Follows
  <2>2. r[n - 1] \in X
    BY <2>1
  <2> QED
    BY <1>10, <2>1, <2>2
<1>13. r[0] = S
  BY <1>11 DEF Follows
<1> QED
  BY <1>3, <1>11, <1>12, <1>13 DEF N, X, Step, Serving

(* What the server does with a request: g is its list after each item. *)
Outcome(a, b, action, sent, ok) ==
  IF ok THEN (action = "add") = (At(a, sent) = {}) /\ b = Serve(a, action, sent) ELSE b = a
LEMMA ServedLemma ==
  ASSUME NEW set \in SUBSET ContentType, IsFiniteSet(set), NEW req,
         req.items \in Seq(ContentType), req.action \in Actions, NEW no
  PROVE  LET done == Served(set, req, no)
             N == Len(req.items)
         IN  /\ done.set \in SUBSET ContentType /\ IsFiniteSet(done.set)
             /\ done.oks \in Seq(BOOLEAN) /\ Len(done.oks) = N
             /\ \E g \in [0 .. N -> SUBSET ContentType] :
                  /\ g[0] = set /\ g[N] = done.set
                  /\ \A i \in 1 .. N : Outcome(g[i - 1], g[i], req.action, req.items[i], done.oks[i])
<1> DEFINE N == Len(req.items)
           seq == [i \in DOMAIN req.items |-> i]
           S == [set |-> set, oks |-> <<>>]
           done == Served(set, req, no)
<1>1. done = ServedBy(S, req, no, seq)
  BY DEF Served, ServedBy
<1>2. N \in Nat /\ seq \in Seq(1 .. N) /\ Len(seq) = N /\ \A i \in 1 .. N : seq[i] = i
  OBVIOUS
<1>3. S \in ServedType /\ S.set = set /\ S.oks = <<>>
  BY DEF ServedType
<1> HIDE DEF seq, done, S
<1>4. PICK r \in [0 .. N -> ServedType] :
        /\ r[0] = S /\ r[N] = done
        /\ \A n \in 1 .. N : r[n] = ServeOne(r[n - 1], req, no, seq[n])
  <2>1. Serving(S, req, no, seq)
    BY <1>2, <1>3, ServedRun
  <2> HIDE DEF N
  <2>2. Len(seq) = N
    BY <1>2
  <2> QED
    BY <1>1, <2>1, <2>2 DEF Serving
<1> DEFINE ok(n) == Accepted(r[n - 1], req, no, n)
<1>5. ASSUME NEW n \in 1 .. N
      PROVE  /\ r[n] \in ServedType /\ r[n - 1] \in ServedType /\ r[n].oks = Append(r[n - 1].oks, ok(n))
             /\ r[n].set = IF ok(n) THEN Serve(r[n - 1].set, req.action, req.items[n])
                           ELSE r[n - 1].set
             /\ IsFiniteSet(r[n - 1].set) => IsFiniteSet(r[n].set)
  <2>1. n - 1 \in 0 .. N /\ n \in 0 .. N
    BY <1>2
  <2>2. r[n - 1] \in ServedType /\ r[n] = ServeOne(r[n - 1], req, no, n)
    BY <1>2, <1>4, <2>1
  <2>3. OneServed(r[n - 1], r[n], req, no, n)
    BY <2>2, ServeOneLemma
  <2> QED
    BY <2>3 DEF OneServed
<1> DEFINE Good(n) == /\ Len(r[n].oks) = n /\ IsFiniteSet(r[n].set)
                      /\ \A m \in 1 .. n : r[n].oks[m] = ok(m)
           T == {n \in 0 .. N : Good(n)}
<1>6. \A n \in 0 .. N : r[n].oks \in Seq(BOOLEAN) /\ r[n].set \in SUBSET ContentType
  BY <1>4 DEF ServedType
<1>7. 0 \in T
  BY <1>2, <1>3, <1>4
<1>8. ASSUME NEW n \in 0 .. N - 1, n \in T
      PROVE  n + 1 \in T
  <2>1. n + 1 \in 1 .. N /\ n + 1 \in 0 .. N /\ (n + 1) - 1 = n /\ n \in 0 .. N
    BY <1>2
  <2>2. Good(n)
    BY <1>8
  <2>3. r[n + 1].oks = Append(r[n].oks, ok(n + 1)) /\ IsFiniteSet(r[n + 1].set)
    BY <1>5, <2>1, <2>2
  <2> DEFINE q == r[n].oks
  <2>4. q \in Seq(BOOLEAN) /\ Len(q) = n /\ \A m \in 1 .. n : q[m] = ok(m)
    BY <1>6, <2>1, <2>2
  <2> HIDE DEF q, ok
  <2>5. ok(n + 1) \in BOOLEAN
    BY DEF ok, Accepted
  <2>6. /\ Len(Append(q, ok(n + 1))) = n + 1
        /\ \A m \in 1 .. n + 1 : Append(q, ok(n + 1))[m] = IF m = n + 1 THEN ok(n + 1) ELSE q[m]
    BY <2>4, <2>5
  <2>7. \A m \in 1 .. n + 1 : m # n + 1 => m \in 1 .. n
    OBVIOUS
  <2>8. Good(n + 1)
    BY <2>3, <2>4, <2>6, <2>7 DEF q
  <2> QED
    BY <2>1, <2>8
<1>9. 0 .. N \subseteq T
  <2> HIDE DEF T
  <2> QED
    BY <1>2, <1>7, <1>8, UpTo
<1>10. N \in 0 .. N /\ Good(N)
  <2>1. N \in 0 .. N
    BY <1>2
  <2> HIDE DEF Good
  <2> QED
    BY <1>9, <2>1
<1> DEFINE g == [n \in 0 .. N |-> r[n].set]
<1>11. g \in [0 .. N -> SUBSET ContentType] /\ g[0] = set /\ g[N] = done.set
  <2>1. 0 \in 0 .. N /\ \A n \in 0 .. N : r[n].set \in SUBSET ContentType
    <3>1. 0 \in 0 .. N
      BY <1>2
    <3>2. ASSUME NEW n \in 0 .. N PROVE r[n].set \in SUBSET ContentType
      <4>1. r[n] \in ServedType
        BY <1>4
      <4> QED
        BY <4>1 DEF ServedType
    <3> QED
      BY <3>1, <3>2
  <2> QED
    BY <1>3, <1>4, <1>10, <2>1
<1>12. ASSUME NEW i \in 1 .. N
       PROVE  Outcome(g[i - 1], g[i], req.action, req.items[i], done.oks[i])
  <2>1. i - 1 \in 0 .. N /\ i \in 0 .. N
    BY <1>2
  <2>2. g[i - 1] = r[i - 1].set /\ g[i] = r[i].set
    BY <2>1
  <2>3. done.oks[i] = ok(i)
    BY <1>4, <1>10
  <2>4. r[i].set = IF ok(i) THEN Serve(r[i - 1].set, req.action, req.items[i]) ELSE r[i - 1].set
    BY <1>5
  <2> QED
    BY <2>2, <2>3, <2>4 DEF Outcome, Accepted
<1> HIDE DEF g
<1>13. done.set \in SUBSET ContentType /\ IsFiniteSet(done.set) /\ done.oks \in Seq(BOOLEAN)
       /\ Len(done.oks) = N
  BY <1>4, <1>6, <1>10
<1> QED
  BY <1>11, <1>12, <1>13 DEF done, N

Sequenced(D) == FoldSet(LAMBDA it, seq : Append(seq, it), <<>>, D)
Lists(seq, s) ==
  /\ \A i \in 1 .. Len(seq) : seq[i] \in s
  /\ \A x \in s : \E i \in 1 .. Len(seq) : seq[i] = x
  /\ \A i, j \in 1 .. Len(seq) : seq[i] = seq[j] => i = j

(* The server sends each item of its list once. *)
LEMMA ListOfLemma ==
  ASSUME NEW M, NEW D \in SUBSET M, IsFiniteSet(D)
  PROVE  Sequenced(D) \in Seq(M) /\ Lists(Sequenced(D), D)
<1> DEFINE X == Seq(M)
           c == [s \in SUBSET D |-> CHOOSE x \in s : TRUE]
           G == [x \in D |-> [seq \in X |-> Append(seq, x)]]
           Body(h) == [s \in SUBSET D |->
                         IF s = {} THEN <<>>
                         ELSE Append(h[s \ {CHOOSE x \in s : TRUE}], CHOOSE x \in s : TRUE)]
           h == CHOOSE f : f = Body(f)
           N == Cardinality(D)
<1>1. Sequenced(D) = h[D]
  BY DEF Sequenced, FoldSet, MapThenFoldSet
<1>2. \A s \in SUBSET D : c[s] = CHOOSE x \in s : TRUE
  OBVIOUS
<1>3. \A s \in SUBSET D : s # {} => (CHOOSE x \in s : TRUE) \in s
  OBVIOUS
<1>4. Chooses(c, D)
  BY <1>2, <1>3 DEF Chooses
<1>5. G \in [D -> [X -> X]] /\ <<>> \in X /\ \A x \in D, seq \in X : G[x][seq] = Append(seq, x)
  OBVIOUS
<1> HIDE DEF G, X, c
<1>6. PICK g \in [SUBSET D -> X] : FoldOf(g, D, <<>>, G, c)
  BY <1>4, <1>5, FoldExists
<1>7. /\ g[{}] = <<>>
      /\ \A s \in SUBSET D : s # {} => g[s] = Append(g[s \ {c[s]}], c[s]) /\ c[s] \in s
  <2>1. g[{}] = <<>> /\ \A s \in SUBSET D : s # {} => g[s] = G[c[s]][g[s \ {c[s]}]]
    BY <1>6 DEF FoldOf
  <2>2. \A s \in SUBSET D : s # {} => c[s] \in s /\ c[s] \in D /\ g[s \ {c[s]}] \in X
    BY <1>4, <1>6 DEF Chooses
  <2> QED
    BY <1>5, <2>1, <2>2
<1>8. g = Body(g)
  <2>1. \A s \in SUBSET D :
          g[s] = IF s = {} THEN <<>>
                 ELSE Append(g[s \ {CHOOSE x \in s : TRUE}], CHOOSE x \in s : TRUE)
    BY <1>2, <1>7
  <2> QED
    BY <1>6, <2>1
<1>9. h = Body(h)
  <2> HIDE DEF Body
  <2> QED
    BY <1>8
<1>10. /\ h[{}] = <<>>
       /\ \A s \in SUBSET D : s # {} => h[s] = Append(h[s \ {c[s]}], c[s]) /\ c[s] \in s
  <2>1. \A s \in SUBSET D :
          h[s] = IF s = {} THEN <<>>
                 ELSE Append(h[s \ {CHOOSE x \in s : TRUE}], CHOOSE x \in s : TRUE)
    <3> HIDE DEF h
    <3> QED
      BY <1>9
  <2> HIDE DEF h, Body
  <2> QED
    BY <1>2, <1>7, <2>1
<1> HIDE DEF h, N
<1> DEFINE T == {n \in 0 .. N : \A s \in SUBSET D : Cardinality(s) = n => h[s] \in X /\ Lists(h[s], s)}
<1>11. /\ N \in Nat
       /\ \A s \in SUBSET D : IsFiniteSet(s) /\ Cardinality(s) \in Nat /\ Cardinality(s) <= N
       /\ Cardinality({}) = 0
  BY FS_CardinalityType, FS_Subset, FS_EmptySet DEF N
<1>12. 0 \in T
  <2>1. \A s \in SUBSET D : Cardinality(s) = 0 => s = {}
    BY <1>11, FS_EmptySet
  <2>2. h[{}] \in X /\ Lists(h[{}], {})
    BY <1>5, <1>10 DEF Lists
  <2>3. \A s \in SUBSET D : Cardinality(s) = 0 => h[s] \in X /\ Lists(h[s], s)
    <3> SUFFICES ASSUME NEW s \in SUBSET D, Cardinality(s) = 0
                 PROVE  h[s] \in X /\ Lists(h[s], s)
      OBVIOUS
    <3>1. s = {}
      BY <2>1
    <3> QED
      BY <2>2, <3>1
  <2> QED
    BY <1>11, <2>3
<1>13. ASSUME NEW n \in 0 .. N - 1, n \in T
       PROVE  n + 1 \in T
  <2>1. n + 1 \in 0 .. N
    BY <1>11
  <2>2. ASSUME NEW s \in SUBSET D, Cardinality(s) = n + 1
        PROVE  h[s] \in X /\ Lists(h[s], s)
    <3> DEFINE x == c[s]
               r == s \ {x}
    <3>0. n \in Nat /\ n + 1 # 0 /\ (n + 1) - 1 = n
      BY <1>11
    <3>1. s # {}
      <4>1. Cardinality(s) # Cardinality({})
        BY <1>11, <2>2, <3>0
      <4> QED
        BY <4>1
    <3>2. x \in s /\ r \in SUBSET D /\ h[s] = Append(h[r], x)
      BY <1>10, <3>1
    <3>3. Cardinality(r) = n
      <4>1. IsFiniteSet(s) /\ x \in s
        BY <1>11, <3>2
      <4> HIDE DEF x
      <4>2. Cardinality(s \ {x}) = Cardinality(s) - 1
        BY <4>1, FS_RemoveElement
      <4> QED
        BY <2>2, <3>0, <4>2
    <3>4. h[r] \in Seq(M) /\ Lists(h[r], r)
      BY <1>13, <3>2, <3>3 DEF X
    <3>5. x \in M /\ s = r \cup {x} /\ x \notin r
      BY <3>2
    <3> HIDE DEF x, r
    <3> DEFINE seq == h[r]
               new == Append(seq, x)
    <3>6. seq \in Seq(M) /\ Lists(seq, r)
      BY <3>4
    <3> HIDE DEF seq
    <3>7. /\ new \in Seq(M) /\ Len(new) = Len(seq) + 1 /\ Len(seq) \in Nat /\ new[Len(seq) + 1] = x
          /\ \A i \in 1 .. Len(seq) : new[i] = seq[i]
      BY <3>5, <3>6
    <3> HIDE DEF new
    <3>8. \A i \in 1 .. Len(new) : i = Len(new) \/ i \in 1 .. Len(seq)
      BY <3>7
    <3>9. Lists(new, s)
      <4>1. \A i \in 1 .. Len(new) : new[i] \in s
        BY <3>5, <3>6, <3>7, <3>8 DEF Lists
      <4>2. \A y \in s : \E i \in 1 .. Len(new) : new[i] = y
        <5> SUFFICES ASSUME NEW y \in s
                     PROVE  \E i \in 1 .. Len(new) : new[i] = y
          OBVIOUS
        <5>1. CASE y = x
          BY <3>7, <5>1
        <5>2. CASE y # x
          <6>1. PICK i \in 1 .. Len(seq) : seq[i] = y
            BY <3>5, <3>6, <5>2 DEF Lists
          <6>2. i \in 1 .. Len(new) /\ new[i] = y
            BY <3>7, <6>1
          <6> QED
            BY <6>2
        <5> QED
          BY <5>1, <5>2
      <4>3. \A i, j \in 1 .. Len(new) : new[i] = new[j] => i = j
        BY <3>5, <3>6, <3>7, <3>8 DEF Lists
      <4> QED
        BY <4>1, <4>2, <4>3 DEF Lists
    <3> QED
      BY <3>2, <3>7, <3>9 DEF X, seq, new
  <2> QED
    BY <2>1, <2>2
<1>14. 0 .. N \subseteq T
  <2> HIDE DEF T
  <2> QED
    BY <1>11, <1>12, <1>13, UpTo
<1>15. h[D] \in X /\ Lists(h[D], D)
  <2>1. N \in T /\ D \in SUBSET D
    BY <1>11, <1>14
  <2> QED
    BY <2>1 DEF N
<1> QED
  BY <1>1, <1>15 DEF X

(* An answer comes in one message or in two. *)
LEMMA PartsLemma ==
  ASSUME NEW M, NEW seq \in Seq(M), NEW parts \in Parts(seq)
  PROVE  \/ parts = <<seq>>
         \/ \E k \in 1 .. Len(seq) - 1 :
              /\ parts = <<SubSeq(seq, 1, k), SubSeq(seq, k + 1, Len(seq))>>
              /\ SubSeq(seq, 1, k) \in Seq(M) /\ Len(SubSeq(seq, 1, k)) = k
              /\ \A i \in 1 .. k : SubSeq(seq, 1, k)[i] = seq[i]
              /\ SubSeq(seq, k + 1, Len(seq)) \in Seq(M)
              /\ Len(SubSeq(seq, k + 1, Len(seq))) = Len(seq) - k
              /\ \A i \in 1 .. Len(seq) - k : SubSeq(seq, k + 1, Len(seq))[i] = seq[k + i]
<1>1. CASE parts = <<seq>>
  BY <1>1
<1>2. CASE parts # <<seq>>
  <2>1. PICK k \in Splits \cap 1 .. Len(seq) - 1 : parts = Split(seq, k)
    BY <1>2 DEF Parts
  <2>2. k \in 1 .. Len(seq) - 1 /\ parts = <<SubSeq(seq, 1, k), SubSeq(seq, k + 1, Len(seq))>>
    BY <2>1 DEF Split
  <2>3. /\ SubSeq(seq, 1, k) \in Seq(M) /\ Len(SubSeq(seq, 1, k)) = k
        /\ \A i \in 1 .. k : SubSeq(seq, 1, k)[i] = seq[i]
    BY <2>2
  <2>4. /\ SubSeq(seq, k + 1, Len(seq)) \in Seq(M)
        /\ Len(SubSeq(seq, k + 1, Len(seq))) = Len(seq) - k
        /\ \A i \in 1 .. Len(seq) - k : SubSeq(seq, k + 1, Len(seq))[i] = seq[k + i]
    BY <2>2
  <2> QED
    BY <2>2, <2>3, <2>4
<1> QED
  BY <1>1, <1>2

-----------------------------------------------------------------------------
(* What a step of each process does. *)

UserDone ==
  /\ ssi.received /\ turns < MaxTurns /\ turns' \in {turns, turns + 1}
  /\ ssi' \in From(ssi) /\ ssi'.reuse = FALSE /\ Noted
  /\ UNCHANGED <<server, inbox, timer>>

(* An edit that can be made whatever malloc does. *)
LEMMA EditDone ==
  ASSUME ssi \in Sessions, ssi.reuse = FALSE, NEW r \in BOOLEAN, NEW T \in From(With(r)),
         Made(T), turns \in Nat,
         ssi.received /\ turns < MaxTurns, turns' = IF ssi' = ssi THEN turns ELSE turns + 1,
         UNCHANGED <<server, inbox, timer>>
  PROVE  UserDone
BY MadeFrom DEF UserDone

(* The session before an edit. *)
LEMMA WithLemma ==
  ASSUME ssi \in Sessions, NEW r \in {FALSE, ssi.waiting}
  PROVE  r \in BOOLEAN /\ With(r) \in Sessions /\ With(r).own = ssi.own
<1>1. r \in BOOLEAN
  BY SessionFields
<1>2. SameButReuse(ssi, With(r))
  BY <1>1, ReuseLemma DEF With
<1> QED
  BY <1>1, <1>2 DEF SameButReuse

(* The user edits his list. *)
LEMMA UserLemma ==
  ASSUME ssi \in Sessions, ssi.reuse = FALSE, turns \in Nat, User
  PROVE  UserDone
<1> DEFINE Turn == /\ ssi.received /\ turns < MaxTurns
                   /\ turns' = IF ssi' = ssi THEN turns ELSE turns + 1
                   /\ UNCHANGED <<server, inbox, timer>>
           l == ssi.own.buddies
           Reuses == {FALSE, ssi.waiting}
<1>0. /\ Buddies \subseteq Names /\ Groups \subseteq Names
      /\ Private \subseteq {"permit", "deny"} \X Names
  BY NamesAssumption
<1>l. l \in Seq(EntryType) /\ \A i \in DOMAIN l : i \in Nat /\ i \in 1 .. Len(l) /\ l[i] \in EntryType
  BY SessionFields
<1>d. ASSUME NEW r \in Reuses, NEW T \in From(With(r)), Made(T), Turn
      PROVE  UserDone
  BY <1>d, WithLemma, EditDone
<1>1. ASSUME NEW b \in Buddies, NEW g \in Groups, NEW a \in Aliases \cup {NULL},
             oscar_add_buddy(b, g, a)
      PROVE  UserDone
  <2>1. PICK r \in Reuses : Made(AddingBuddy(With(r), b, g, a)) /\ Turn
    BY <1>1 DEF oscar_add_buddy, UserEdit, Become, Made, With, AddingBuddy
  <2>2. AddingBuddy(With(r), b, g, a) \in From(With(r))
    BY <1>0, WithLemma, AddingBuddyLemma
  <2> QED
    BY <1>d, <2>1, <2>2
<1>2. ASSUME NEW i \in DOMAIN l, oscar_remove_buddy(i, l[i])
      PROVE  UserDone
  <2>1. PICK r \in Reuses : Made(RemovingBuddy(With(r), i, l[i])) /\ Turn
    BY <1>2 DEF oscar_remove_buddy, UserEdit, Become, Made, With, RemovingBuddy
  <2>2. i \in 1 .. Len(With(r).own.buddies)
    BY <1>l, WithLemma
  <2>3. RemovingBuddy(With(r), i, l[i]) \in From(With(r))
    BY <2>2, WithLemma, RemovingBuddyLemma
  <2> QED
    BY <1>d, <2>1, <2>3
<1>3. ASSUME NEW i \in DOMAIN l, NEW g \in Groups, oscar_move_buddy(i, l[i], g)
      PROVE  UserDone
  <2>1. PICK r \in Reuses : Made(Move(With(r), i, l[i], g)) /\ Turn
    BY <1>3 DEF oscar_move_buddy, UserEdit, Become, Made, With
  <2>2. Move(With(r), i, l[i], g) \in From(With(r))
    BY <1>0, <1>l, WithLemma, MoveLemma
  <2> QED
    BY <1>d, <2>1, <2>2
<1>4. ASSUME NEW i \in DOMAIN l, NEW a \in Aliases \cup {NULL}, oscar_alias_buddy(i, l[i], a)
      PROVE  UserDone
  <2>0. UserEdit(LAMBDA S : AliasingBuddy(S, i, l[i], a))
    BY <1>4, Zenon DEF oscar_alias_buddy, AliasingBuddy
  <2>1. PICK r \in Reuses : Made(AliasingBuddy(With(r), i, l[i], a)) /\ Turn
    BY <2>0 DEF UserEdit, Become, Made, With
  <2>2. AliasingBuddy(With(r), i, l[i], a) \in From(With(r))
    BY <1>l, WithLemma, AliasingBuddyLemma
  <2> QED
    BY <1>d, <2>1, <2>2
<1>5. ASSUME NEW g \in Groups, NEW h \in Groups, NEW merge \in BOOLEAN,
             gaim_blist_rename_group(g, h, merge)
      PROVE  UserDone
  <2> DEFINE at == {i \in DOMAIN l : l[i].group = g}
             members == Chosen(l, at)
             renamed == [i \in DOMAIN l |-> IF l[i].group = g THEN [l[i] EXCEPT !.group = h] ELSE l[i]]
  <2>1. at \subseteq DOMAIN l
    OBVIOUS
  <2>2. members \in Seq(EntryType) /\ Ascending(at) \in Seq(DOMAIN l)
    <3> HIDE DEF at, l
    <3>1. /\ members \in Seq(EntryType) /\ Len(members) \in Nat
          /\ Ascending(at) \in [1 .. Len(members) -> at]
      BY <1>l, <2>1, ChosenLemma
    <3> HIDE DEF members
    <3>2. \A n \in 1 .. Len(members) : Ascending(at)[n] \in DOMAIN l
      BY <2>1, <3>1
    <3>3. Ascending(at) \in [1 .. Len(members) -> DOMAIN l]
      BY <3>1, <3>2
    <3> QED
      BY <3>1, <3>3
  <2>3. renamed \in Seq(EntryType)
    <3> HIDE DEF l
    <3>1. ASSUME NEW i \in 1 .. Len(l)
          PROVE  (IF l[i].group = g THEN [l[i] EXCEPT !.group = h] ELSE l[i]) \in EntryType
      <4>1. l[i] \in EntryType /\ h \in Names
        BY <1>0, <1>l
      <4>2. [l[i] EXCEPT !.group = h] \in EntryType
        BY <4>1 DEF EntryType
      <4> QED
        BY <4>1, <4>2
    <3>2. DOMAIN l = 1 .. Len(l) /\ Len(l) \in Nat
      BY <1>l
    <3> QED
      BY <3>1, <3>2
  <2>4. PICK r \in Reuses :
          Turn /\ Made(IF merge THEN MovedAll(With(r), Ascending(at), l, h)
                       ELSE RenamingGroup(With(r), g, h, members, renamed))
    BY <1>5 DEF gaim_blist_rename_group, UserEdit, Become, Made, With, MovedAll, RenamingGroup
  <2> HIDE DEF at, members, renamed
  <2>5. With(r) \in Sessions /\ h \in Names
    BY <1>0, WithLemma
  <2>6. MovedAll(With(r), Ascending(at), l, h) \in From(With(r))
    <3> DEFINE seq == Ascending(at)
    <3>1. seq \in Seq(DOMAIN l)
      BY <2>2
    <3> HIDE DEF seq, l
    <3>2. \E q \in [0 .. Len(seq) -> From(With(r))] : q[Len(seq)] = MovedAll(With(r), seq, l, h)
      BY <1>l, <2>5, <3>1, MovedAllRun
    <3>3. Len(seq) \in 0 .. Len(seq)
      BY <3>1
    <3> QED
      BY <3>2, <3>3 DEF seq
  <2>7. RenamingGroup(With(r), g, h, members, renamed) \in From(With(r))
    BY <2>2, <2>3, <2>5, RenamingGroupLemma
  <2> QED
    BY <1>d, <2>4, <2>6, <2>7
<1>6. ASSUME NEW p \in Private, oscar_add_private(p[1], p[2])
      PROVE  UserDone
  <2>1. PICK r \in Reuses : Made(AddingPrivate(With(r), p[1], p[2])) /\ Turn
    BY <1>6 DEF oscar_add_private, UserEdit, Become, Made, With, AddingPrivate
  <2>2. p[1] \in PrivateTypes /\ p[2] \in Names
    BY <1>0 DEF PrivateTypes
  <2>3. AddingPrivate(With(r), p[1], p[2]) \in From(With(r))
    BY <2>2, WithLemma, AddingPrivateLemma
  <2> QED
    BY <1>d, <2>1, <2>3
<1>7. ASSUME NEW p \in Private, oscar_rem_private(p[1], p[2])
      PROVE  UserDone
  <2>1. PICK r \in Reuses : Made(RemovingPrivate(With(r), p[1], p[2])) /\ Turn
    BY <1>7 DEF oscar_rem_private, UserEdit, Become, Made, With, RemovingPrivate
  <2>2. RemovingPrivate(With(r), p[1], p[2]) \in From(With(r))
    BY WithLemma, RemovingPrivateLemma
  <2> QED
    BY <1>d, <2>1, <2>2
<1>8. ASSUME NEW v \in PermDenies, oscar_set_permit_deny(v)
      PROVE  UserDone
  <2>1. PICK r \in Reuses : Made(SetOption(With(r), "pdinfo", v)) /\ Turn
    BY <1>8 DEF oscar_set_permit_deny, UserEdit, Become, Made, With
  <2>2. v \in Values /\ "pdinfo" \in {"pdinfo", "presence"}
    BY DEF Values
  <2>3. SetOption(With(r), "pdinfo", v) \in From(With(r))
    BY <2>2, WithLemma, SetOptionLemma
  <2> QED
    BY <1>d, <2>1, <2>3
<1>9. ASSUME NEW c \in Icons, oscar_icon_stored(c)
      PROVE  UserDone
  <2>1. PICK r \in Reuses : Made(aim_ssi_seticon(With(r), c)) /\ Turn
    BY <1>9 DEF oscar_icon_stored, UserEdit, Become, Made, With
  <2>2. aim_ssi_seticon(With(r), c) \in From(With(r))
    BY WithLemma, SetIconLemma
  <2> QED
    BY <1>d, <2>1, <2>2
<1>10. ASSUME NEW n \in ssi.asked, gaim_auth_request(n)
       PROVE  UserDone
  <2>0. UserEdit(LAMBDA S : AskingAgain(S, n))
    BY <1>10, Zenon DEF gaim_auth_request, AskingAgain
  <2>1. PICK r \in Reuses : Made(AskingAgain(With(r), n)) /\ Turn
    BY <2>0 DEF UserEdit, Become, Made, With
  <2>2. AskingAgain(With(r), n) \in From(With(r))
    BY WithLemma, AskingAgainLemma
  <2> QED
    BY <1>d, <2>1, <2>2
<1> QED
  BY <1>1, <1>2, <1>3, <1>4, <1>5, <1>6, <1>7, <1>8, <1>9, <1>10 DEF User

-----------------------------------------------------------------------------
(* The messages of the server. *)

MessageType ==
  [kind : {"list"}, items : Seq(ContentType), more : BOOLEAN]
    \cup [kind : {"ack"}, oks : Seq(BOOLEAN)]
    \cup [kind : Actions, item : ContentType]
    \cup [kind : {"error"}, busy : BOOLEAN]
ListMessage(seq, more) == [kind |-> "list", items |-> seq, more |-> more]
AckMessage(oks) == [kind |-> "ack", oks |-> oks]
First(seq, k) == SubSeq(seq, 1, k)
Rest(seq, k) == SubSeq(seq, k + 1, Len(seq))
InTwo(seq, k) ==
  /\ k \in 1 .. Len(seq) - 1
  /\ Len(First(seq, k)) = k /\ \A i \in 1 .. k : First(seq, k)[i] = seq[i]
  /\ Len(Rest(seq, k)) = Len(seq) - k /\ \A i \in 1 .. Len(seq) - k : Rest(seq, k)[i] = seq[k + i]

(* One message, or two of them, behind what is there. *)
LEMMA Behind ==
  ASSUME NEW M, NEW seq \in Seq(M), NEW a \in M, NEW b \in M
  PROVE  /\ seq \o <<a>> = Append(seq, a) /\ seq \o <<a, b>> = Append(Append(seq, a), b)
         /\ Append(seq, a) \in Seq(M) /\ Append(Append(seq, a), b) \in Seq(M)
OBVIOUS

(* What the server sends for the sequence seq: it, or two parts of it. *)
LEMMA TwoParts ==
  ASSUME NEW M, NEW seq \in Seq(M), NEW parts \in Parts(seq)
  PROVE  \/ parts = <<seq>>
         \/ \E k \in 1 .. Len(seq) - 1 :
              /\ InTwo(seq, k) /\ parts = <<First(seq, k), Rest(seq, k)>>
              /\ First(seq, k) \in Seq(M) /\ Rest(seq, k) \in Seq(M)
BY PartsLemma DEF InTwo, First, Rest

Replied ==
  /\ ssi.out # <<>> /\ ssi' \in Sessions /\ ssi'.out = Tail(ssi.out)
  /\ ssi'.local = ssi.local /\ ssi'.official = ssi.official /\ ssi'.pending = ssi.pending
  /\ ssi'.waiting = ssi.waiting /\ ssi'.received = ssi.received /\ ssi'.reuse = ssi.reuse

(* The server takes a request. *)
LEMMA RepliedLemma ==
  ASSUME ssi \in Sessions, Answering
  PROVE  Replied /\ Head(ssi.out) \in RequestType
<1>1. ssi.out # <<>> /\ ssi' = [ssi EXCEPT !.out = Tail(@)]
  BY DEF Answering
<1>2. ssi.out \in Seq(RequestType)
  BY SessionFields
<1>3. Tail(ssi.out) \in Seq(RequestType) /\ Head(ssi.out) \in RequestType
  BY <1>1, <1>2
<1>4. /\ ssi'.out = Tail(ssi.out)
      /\ ssi'.local = ssi.local /\ ssi'.official = ssi.official /\ ssi'.pending = ssi.pending
      /\ ssi'.waiting = ssi.waiting /\ ssi'.received = ssi.received /\ ssi'.reuse = ssi.reuse
  BY <1>1 DEF Sessions, SessionType
<1>5. ssi' \in SessionType
  BY <1>1, <1>3 DEF Sessions, SessionType
<1>6. ssi' \in Sessions
  BY <1>4, <1>5 DEF Sessions
<1> QED
  BY <1>1, <1>3, <1>4, <1>6 DEF Replied

ListSent ==
  /\ Replied /\ Head(ssi.out).kind = "reqdata"
  /\ \E seq \in Seq(ContentType) :
       /\ Lists(seq, server)
       /\ \/ inbox' = Append(inbox, ListMessage(seq, FALSE))
          \/ \E k \in 1 .. Len(seq) - 1 :
               /\ InTwo(seq, k)
               /\ First(seq, k) \in Seq(ContentType) /\ Rest(seq, k) \in Seq(ContentType)
               /\ inbox' = Append(Append(inbox, ListMessage(First(seq, k), TRUE)),
                                  ListMessage(Rest(seq, k), FALSE))
  /\ UNCHANGED <<server, timer, turns, troubles>>

(* The server sends its list. *)
LEMMA SendListLemma ==
  ASSUME ssi \in Sessions, server \in SUBSET ContentType, IsFiniteSet(server),
         inbox \in Seq(MessageType), SendList
  PROVE  ListSent /\ inbox' \in Seq(MessageType)
<1> DEFINE seq == Sequenced(server)
<1>1. PICK parts \in Parts(seq) :
        Answer([i \in DOMAIN parts |->
                  [kind |-> "list", items |-> parts[i], more |-> i < Len(parts)]])
  BY DEF SendList, Sequenced
<1> DEFINE ms == [i \in DOMAIN parts |->
                    [kind |-> "list", items |-> parts[i], more |-> i < Len(parts)]]
<1>2. Answering /\ inbox' = inbox \o ms /\ timer' = timer
  BY <1>1 DEF Answer
<1>3. Head(ssi.out).kind = "reqdata" /\ UNCHANGED <<server, turns, troubles>>
  BY DEF SendList
<1>4. Replied
  BY <1>2, RepliedLemma
<1>5. seq \in Seq(ContentType) /\ Lists(seq, server)
  BY ListOfLemma
<1> HIDE DEF seq
<1>6. CASE parts = <<seq>>
  <2> DEFINE m == ListMessage(seq, FALSE)
  <2>1. ms = <<m>>
    <3>1. DOMAIN parts = 1 .. 1 /\ Len(parts) = 1 /\ parts[1] = seq
      BY <1>6
    <3>2. DOMAIN ms = 1 .. 1 /\ ms[1] = ListMessage(seq, 1 < 1)
      BY <3>1 DEF ListMessage
    <3>3. (1 < 1) = FALSE
      OBVIOUS
    <3>4. ms[1] = m
      BY <3>2, <3>3
    <3>5. ms = [i \in 1 .. 1 |-> ms[i]]
      BY <3>1
    <3> HIDE DEF ms, m
    <3> QED
      BY <3>4, <3>5
  <2>2. m \in MessageType
    BY <1>5 DEF ListMessage, MessageType
  <2> HIDE DEF ms, m
  <2>3. inbox' = Append(inbox, m) /\ inbox' \in Seq(MessageType)
    BY <1>2, <2>1, <2>2, Behind
  <2>4. inbox' = Append(inbox, ListMessage(seq, FALSE))
    BY <2>3 DEF m
  <2> QED
    BY <1>2, <1>3, <1>4, <1>5, <2>3, <2>4 DEF ListSent
<1>7. CASE \E k \in 1 .. Len(seq) - 1 :
              /\ InTwo(seq, k) /\ parts = <<First(seq, k), Rest(seq, k)>>
              /\ First(seq, k) \in Seq(ContentType) /\ Rest(seq, k) \in Seq(ContentType)
  <2>1. PICK k \in 1 .. Len(seq) - 1 :
              /\ InTwo(seq, k) /\ parts = <<First(seq, k), Rest(seq, k)>>
              /\ First(seq, k) \in Seq(ContentType) /\ Rest(seq, k) \in Seq(ContentType)
    BY <1>7
  <2> DEFINE a == First(seq, k)
             b == Rest(seq, k)
             m == ListMessage(a, TRUE)
             n == ListMessage(b, FALSE)
  <2> HIDE DEF a, b
  <2>2. parts = <<a, b>> /\ a \in Seq(ContentType) /\ b \in Seq(ContentType)
    BY <2>1 DEF a, b
  <2>3. ms = <<m, n>>
    <3>1. DOMAIN parts = 1 .. 2 /\ Len(parts) = 2 /\ parts[1] = a /\ parts[2] = b
      BY <2>2
    <3>2. /\ DOMAIN ms = 1 .. 2 /\ ms[1] = ListMessage(a, 1 < 2) /\ ms[2] = ListMessage(b, 2 < 2)
      BY <3>1 DEF ListMessage
    <3>3. (1 < 2) = TRUE /\ (2 < 2) = FALSE
      OBVIOUS
    <3>4. ms[1] = m /\ ms[2] = n
      BY <3>2, <3>3
    <3>5. ms = [i \in 1 .. 2 |-> ms[i]]
      BY <3>1
    <3> HIDE DEF ms, m, n
    <3> QED
      BY <3>4, <3>5
  <2>4. m \in MessageType /\ n \in MessageType
    BY <2>2 DEF ListMessage, MessageType
  <2> HIDE DEF ms, m, n
  <2>5. inbox' = Append(Append(inbox, m), n) /\ inbox' \in Seq(MessageType)
    BY <1>2, <2>3, <2>4, Behind
  <2>6. inbox' = Append(Append(inbox, ListMessage(First(seq, k), TRUE)),
                        ListMessage(Rest(seq, k), FALSE))
    BY <2>5 DEF m, n, a, b
  <2> QED
    BY <1>2, <1>3, <1>4, <1>5, <2>1, <2>5, <2>6 DEF ListSent
<1> QED
  BY <1>5, <1>6, <1>7, TwoParts

Carried ==
  LET req == Head(ssi.out)
      N == Len(req.items)
  IN  /\ Replied /\ req.kind = "change" /\ req.action \in Actions
      /\ req.items \in Seq(ContentType)
      /\ server' \in SUBSET ContentType /\ IsFiniteSet(server')
      /\ \E oks \in Seq(BOOLEAN), g \in [0 .. N -> SUBSET ContentType] :
           /\ Len(oks) = N
           /\ g[0] = server /\ g[N] = server'
           /\ \A i \in 1 .. N : Outcome(g[i - 1], g[i], req.action, req.items[i], oks[i])
           /\ troubles' = troubles \cup (IF FALSE \in Range(oks) THEN {"refused"} ELSE {})
           /\ \/ inbox' = Append(inbox, AckMessage(oks))
              \/ \E k \in 1 .. Len(oks) - 1 :
                   /\ InTwo(oks, k) /\ First(oks, k) \in Seq(BOOLEAN) /\ Rest(oks, k) \in Seq(BOOLEAN)
                   /\ inbox' = Append(Append(inbox, AckMessage(First(oks, k))),
                                      AckMessage(Rest(oks, k)))
      /\ UNCHANGED <<timer, turns>>

(* The server carries out a request. *)
LEMMA CarryLemma ==
  ASSUME ssi \in Sessions, server \in SUBSET ContentType, IsFiniteSet(server),
         inbox \in Seq(MessageType), Carry
  PROVE  Carried /\ inbox' \in Seq(MessageType)
<1> DEFINE req == Head(ssi.out)
           N == Len(req.items)
<1>0. ssi.out # <<>> /\ req.kind = "change" /\ turns' = turns
  BY DEF Carry
<1>1. PICK no \in SUBSET DOMAIN req.items :
        LET done == Served(server, req, no)
        IN  /\ \E parts \in Parts(done.oks) :
                 Answer([i \in DOMAIN parts |-> [kind |-> "ack", oks |-> parts[i]]])
            /\ server' = done.set
            /\ troubles' = troubles \cup (IF FALSE \in Range(done.oks) THEN {"refused"} ELSE {})
  BY DEF Carry
<1> DEFINE done == Served(server, req, no)
           oks == done.oks
<1>2. PICK parts \in Parts(oks) :
        Answer([i \in DOMAIN parts |-> [kind |-> "ack", oks |-> parts[i]]])
  BY <1>1
<1>3. /\ server' = done.set
      /\ troubles' = troubles \cup (IF FALSE \in Range(oks) THEN {"refused"} ELSE {})
  BY <1>1
<1> DEFINE ms == [i \in DOMAIN parts |-> [kind |-> "ack", oks |-> parts[i]]]
<1>4. Answering /\ inbox' = inbox \o ms /\ timer' = timer
  BY <1>2 DEF Answer
<1>5. Replied /\ req \in RequestType
  BY <1>4, RepliedLemma
<1>6. req.items \in Seq(ContentType) /\ req.action \in Actions
  BY <1>0, <1>5 DEF RequestType
<1> HIDE DEF req
<1>7. /\ done.set \in SUBSET ContentType /\ IsFiniteSet(done.set)
      /\ oks \in Seq(BOOLEAN) /\ Len(oks) = N
      /\ \E g \in [0 .. N -> SUBSET ContentType] :
           /\ g[0] = server /\ g[N] = done.set
           /\ \A i \in 1 .. N : Outcome(g[i - 1], g[i], req.action, req.items[i], oks[i])
  BY <1>6, ServedLemma
<1> HIDE DEF done, oks
<1>8. PICK g \in [0 .. N -> SUBSET ContentType] :
           /\ g[0] = server /\ g[N] = server'
           /\ \A i \in 1 .. N : Outcome(g[i - 1], g[i], req.action, req.items[i], oks[i])
  BY <1>3, <1>7
<1> DEFINE Arrived ==
             \/ inbox' = Append(inbox, AckMessage(oks))
             \/ \E k \in 1 .. Len(oks) - 1 :
                  /\ InTwo(oks, k) /\ First(oks, k) \in Seq(BOOLEAN) /\ Rest(oks, k) \in Seq(BOOLEAN)
                  /\ inbox' = Append(Append(inbox, AckMessage(First(oks, k))),
                                     AckMessage(Rest(oks, k)))
<1>9. Arrived /\ inbox' \in Seq(MessageType)
  <2>1. CASE parts = <<oks>>
    <3>1. ms = <<AckMessage(oks)>>
      BY <2>1 DEF AckMessage
    <3>2. AckMessage(oks) \in MessageType
      BY <1>7 DEF AckMessage, MessageType
    <3> HIDE DEF ms
    <3> QED
      BY <1>4, <3>1, <3>2, Behind
  <2>2. CASE \E k \in 1 .. Len(oks) - 1 :
               /\ InTwo(oks, k) /\ parts = <<First(oks, k), Rest(oks, k)>>
               /\ First(oks, k) \in Seq(BOOLEAN) /\ Rest(oks, k) \in Seq(BOOLEAN)
    <3>1. PICK k \in 1 .. Len(oks) - 1 :
               /\ InTwo(oks, k) /\ parts = <<First(oks, k), Rest(oks, k)>>
               /\ First(oks, k) \in Seq(BOOLEAN) /\ Rest(oks, k) \in Seq(BOOLEAN)
      BY <2>2
    <3> DEFINE a == First(oks, k)
               b == Rest(oks, k)
               m == AckMessage(a)
               n == AckMessage(b)
    <3> HIDE DEF a, b
    <3>2. parts = <<a, b>> /\ a \in Seq(BOOLEAN) /\ b \in Seq(BOOLEAN)
      BY <3>1 DEF a, b
    <3>3. ms = <<m, n>>
      BY <3>2 DEF AckMessage
    <3>4. m \in MessageType /\ n \in MessageType
      BY <3>2 DEF AckMessage, MessageType
    <3> HIDE DEF ms, m, n
    <3>5. inbox' = Append(Append(inbox, m), n) /\ inbox' \in Seq(MessageType)
      BY <1>4, <3>3, <3>4, Behind
    <3> QED
      BY <3>1, <3>5 DEF m, n, a, b
  <2> QED
    BY <1>7, <2>1, <2>2, TwoParts
<1>10. \E q \in Seq(BOOLEAN), h \in [0 .. N -> SUBSET ContentType] :
           /\ Len(q) = N
           /\ h[0] = server /\ h[N] = server'
           /\ \A i \in 1 .. N : Outcome(h[i - 1], h[i], req.action, req.items[i], q[i])
           /\ troubles' = troubles \cup (IF FALSE \in Range(q) THEN {"refused"} ELSE {})
           /\ \/ inbox' = Append(inbox, AckMessage(q))
              \/ \E k \in 1 .. Len(q) - 1 :
                   /\ InTwo(q, k) /\ First(q, k) \in Seq(BOOLEAN) /\ Rest(q, k) \in Seq(BOOLEAN)
                   /\ inbox' = Append(Append(inbox, AckMessage(First(q, k))), AckMessage(Rest(q, k)))
  <2> oks \in Seq(BOOLEAN)
    BY <1>7
  <2> WITNESS oks \in Seq(BOOLEAN), g \in [0 .. N -> SUBSET ContentType]
  <2> QED
    BY <1>3, <1>7, <1>8, <1>9
<1>11. server' \in SUBSET ContentType /\ IsFiniteSet(server')
  BY <1>3, <1>7
<1> QED
  BY <1>0, <1>4, <1>5, <1>6, <1>9, <1>10, <1>11 DEF Carried, req

(* What another client may send, and what the server starts with. *)
LEMMA GivenType ==
  /\ Foreign \subseteq ContentType
  /\ \A start \in Starts : start.server \in SUBSET ContentType /\ IsFiniteSet(start.server)
<1>1. ASSUME NEW it \in Given, Valid(it)
      PROVE  it \in ContentType
  <2>1. it.type \in Types /\ it.data \subseteq Tlvs
    BY <1>1 DEF Types, Tlvs
  <2>2. Content(it) \in ContentType
    BY <1>1, <2>1 DEF Valid, Content, Item, ContentType, Called
  <2> QED
    BY <1>1, <2>2 DEF Valid
<1>2. ASSUME NEW it \in Foreign
      PROVE  it \in ContentType
  BY <1>1, ListsAssumption DEF Given
<1>3. ASSUME NEW start \in Starts
      PROVE  start.server \in SUBSET ContentType /\ IsFiniteSet(start.server)
  <2>1. \A it \in start.server : it \in Given /\ Valid(it)
    BY <1>3, ListsAssumption DEF Given
  <2> QED
    BY <1>1, <1>3, <2>1, ListsAssumption
<1> QED
  BY <1>2, <1>3

Failed ==
  /\ Replied /\ turns < MaxTurns /\ turns' = turns + 1
  /\ \E busy \in BOOLEAN : inbox' = Append(inbox, [kind |-> "error", busy |-> busy])
  /\ troubles' = troubles \cup {"error"}
  /\ UNCHANGED <<server, timer>>

(* The server answers with an error. *)
LEMMA FailLemma ==
  ASSUME ssi \in Sessions, inbox \in Seq(MessageType), Fail
  PROVE  Failed /\ inbox' \in Seq(MessageType)
<1>1. PICK busy \in BOOLEAN : Answer(<<[kind |-> "error", busy |-> busy]>>)
  BY DEF Fail
<1> DEFINE m == [kind |-> "error", busy |-> busy]
<1>2. Answering /\ inbox' = inbox \o <<m>> /\ timer' = timer
  BY <1>1 DEF Answer
<1>3. m \in MessageType
  BY DEF MessageType
<1>4. Replied
  BY <1>2, RepliedLemma
<1> HIDE DEF m
<1>5. inbox' = Append(inbox, m) /\ inbox' \in Seq(MessageType)
  BY <1>2, <1>3, Behind
<1>6. inbox' = Append(inbox, [kind |-> "error", busy |-> busy])
  BY <1>5 DEF m
<1> QED
  BY <1>2, <1>4, <1>5, <1>6 DEF Fail, Failed

Announced ==
  \E action \in Actions, it \in ContentType :
    /\ action = "add" => At(server, it) = {}
    /\ action # "add" => At(server, it) # {}
    /\ server' = Serve(server, action, it)
    /\ inbox' = Append(inbox, [kind |-> action, item |-> it])
    /\ ssi.received /\ turns < MaxTurns /\ turns' = turns + 1
    /\ troubles' = troubles \cup {"foreign"}
    /\ UNCHANGED <<ssi, timer>>

(* Another client edits the list. *)
LEMMA OtherClientLemma ==
  ASSUME server \in SUBSET ContentType, IsFiniteSet(server), inbox \in Seq(MessageType), OtherClient
  PROVE  /\ Announced /\ inbox' \in Seq(MessageType)
         /\ server' \in SUBSET ContentType /\ IsFiniteSet(server')
<1>1. PICK it \in Foreign, action \in Actions :
        /\ action = "add" => At(server, it) = {}
        /\ action # "add" => At(server, it) # {}
        /\ Announce(action, it)
  <2>1. PICK it \in Foreign :
          \/ At(server, it) = {} /\ Announce("add", it)
          \/ At(server, it) \notin {{}, {it}} /\ Announce("mod", it)
          \/ At(server, it) # {} /\ Announce("del", it)
    BY DEF OtherClient
  <2>2. "add" \in Actions /\ "mod" \in Actions /\ "del" \in Actions
    BY DEF Actions
  <2>3. CASE At(server, it) = {} /\ Announce("add", it)
    BY <2>2, <2>3
  <2>4. CASE At(server, it) \notin {{}, {it}} /\ Announce("mod", it)
    <3>1. At(server, it) # {} /\ "mod" # "add"
      BY <2>4
    <3> QED
      BY <2>2, <2>4, <3>1
  <2>5. CASE At(server, it) # {} /\ Announce("del", it)
    <3>1. "del" # "add"
      OBVIOUS
    <3> QED
      BY <2>2, <2>5, <3>1
  <2> QED
    BY <2>1, <2>3, <2>4, <2>5
<1>2. it \in ContentType
  BY GivenType
<1>3. [kind |-> action, item |-> it] \in MessageType
  BY <1>2 DEF MessageType
<1>4. inbox' = Append(inbox, [kind |-> action, item |-> it]) /\ server' = Serve(server, action, it)
  BY <1>1 DEF Announce
<1>5. inbox' \in Seq(MessageType)
  BY <1>3, <1>4
<1>6. server' \in SUBSET ContentType /\ IsFiniteSet(server')
  BY <1>2, <1>4, ServeType
<1> QED
  BY <1>1, <1>2, <1>5, <1>6 DEF Announced, Announce

(* What the client does with a message. *)
Handled(S, T, msg) ==
  /\ T \in Sessions /\ T.reuse = S.reuse
  /\ msg.kind = "list" => /\ msg \in [kind : {"list"}, items : Seq(ContentType), more : BOOLEAN]
                          /\ T = parsedata(S, msg)
                          /\ \E U \in Sessions : Steady(S, U) /\ T \in From(U)
  /\ msg.kind = "ack" => /\ msg \in [kind : {"ack"}, oks : Seq(BOOLEAN)]
                         /\ T = parseack(S, msg.oks)
                         /\ Outcomes(S, msg.oks) \in 0 .. Len(S.pending)
                         /\ Acked(S, T, Outcomes(S, msg.oks))
  /\ msg.kind \in Actions => msg.item \in ContentType /\ Kept(S, T) /\ T = Received(S, msg)
  /\ msg.kind = "error" => T = S
  /\ msg.kind \in {"list", "ack", "error"} \cup Actions

(* A message is handled by its kind. *)
LEMMA HandledLemma ==
  ASSUME NEW S \in Sessions, NEW msg \in MessageType
  PROVE  Handled(S, Received(S, msg), msg)
<1> DEFINE T == Received(S, msg)
           L == [kind : {"list"}, items : Seq(ContentType), more : BOOLEAN]
           A == [kind : {"ack"}, oks : Seq(BOOLEAN)]
           C == [kind : Actions, item : ContentType]
<1>1. "list" \notin Actions /\ "ack" \notin Actions /\ "error" \notin Actions
  BY DEF Actions
<1>2. CASE msg \in L
  <2>1. msg.kind = "list" /\ msg.items \in Seq(ContentType) /\ msg.more \in BOOLEAN
    BY <1>2
  <2>2. T = parsedata(S, msg)
    BY <2>1 DEF Received
  <2> DEFINE V == AddAll(S, "official", msg.items)
  <2>3. /\ Kept(S, V)
        /\ msg.more => parsedata(S, msg) = V
        /\ ~msg.more => \E U \in Sessions : /\ Steady(S, U) /\ U.official = V.official
                                            /\ parsedata(S, msg) \in From(U)
    BY <2>1, ParseDataLemma
  <2> HIDE DEF T, V
  <2>4. \E U \in Sessions : Steady(S, U) /\ T \in From(U)
    <3>1. CASE msg.more
      <4>1. Steady(S, V) /\ V \in Sessions
        BY <2>3 DEF Kept, Steady
      <4>2. T \in From(V)
        BY <2>2, <2>3, <3>1, <4>1, FromRefl
      <4> QED
        BY <4>1, <4>2
    <3>2. CASE ~msg.more
      BY <2>2, <2>3, <3>2
    <3> QED
      BY <3>1, <3>2
  <2>5. T \in Sessions /\ T.reuse = S.reuse
    BY <2>4 DEF From, Steady
  <2>6. Handled(S, T, msg)
    BY <1>1, <1>2, <2>1, <2>2, <2>4, <2>5 DEF Handled
  <2> QED
    BY <2>6 DEF T
<1>3. CASE msg \in A
  <2>1. msg.kind = "ack" /\ msg.oks \in Seq(BOOLEAN)
    BY <1>3
  <2>2. T = parseack(S, msg.oks)
    BY <2>1 DEF Received
  <2> DEFINE n == Outcomes(S, msg.oks)
  <2>3. n \in 0 .. Len(S.pending) /\ Acked(S, parseack(S, msg.oks), n)
    BY <2>1, ParseAckLemma
  <2> HIDE DEF T, n
  <2>4. T \in Sessions /\ T.reuse = S.reuse
    <3>1. PICK U \in Sessions :
            /\ Settled(S, U, n)
            /\ IF n < Len(S.pending) THEN T = U
               ELSE LET V == [U EXCEPT !.waiting = FALSE]
                    IN  V \in Sessions /\ ~V.waiting /\ V.pending = <<>> /\ T \in From(V)
      BY <2>2, <2>3 DEF Acked
    <3>2. U.reuse = S.reuse
      BY <3>1 DEF Settled
    <3>3. CASE n < Len(S.pending)
      BY <3>1, <3>2, <3>3
    <3>4. CASE ~(n < Len(S.pending))
      <4>1. T \in From([U EXCEPT !.waiting = FALSE])
        BY <3>1, <3>4
      <4>2. [U EXCEPT !.waiting = FALSE].reuse = U.reuse
        BY DEF Sessions, SessionType
      <4> DEFINE V == [U EXCEPT !.waiting = FALSE]
      <4> HIDE DEF V
      <4>3. T \in From(V) /\ V.reuse = U.reuse
        BY <4>1, <4>2 DEF V
      <4> QED
        BY <3>2, <4>3 DEF From
    <3> QED
      BY <3>3, <3>4
  <2>5. Acked(S, T, Outcomes(S, msg.oks)) /\ Outcomes(S, msg.oks) \in 0 .. Len(S.pending)
    BY <2>2, <2>3 DEF n
  <2>6. Handled(S, T, msg)
    BY <1>1, <1>3, <2>1, <2>2, <2>4, <2>5 DEF Handled
  <2> QED
    BY <2>6 DEF T
<1>4. CASE msg \in C
  <2>1. msg.kind \in Actions /\ msg.item \in ContentType
    BY <1>4
  <2>2. Kept(S, T)
    BY <2>1, ForeignLemma DEF Received, Actions
  <2> HIDE DEF T
  <2>3. T \in Sessions /\ T.reuse = S.reuse
    BY <2>2 DEF Kept
  <2>4. Handled(S, T, msg)
    <3>1. T = Received(S, msg)
      BY DEF T
    <3> QED
      BY <1>1, <2>1, <2>2, <2>3, <3>1 DEF Handled
  <2> QED
    BY <2>4 DEF T
<1>5. CASE msg \in [kind : {"error"}, busy : BOOLEAN]
  <2>1. msg.kind = "error"
    BY <1>5
  <2>2. T = S
    BY <2>1 DEF Received
  <2> HIDE DEF T
  <2>3. Handled(S, T, msg)
    BY <1>1, <2>1, <2>2 DEF Handled
  <2> QED
    BY <2>3 DEF T
<1> QED
  BY <1>2, <1>3, <1>4, <1>5 DEF MessageType

(* The client, as malloc may have it, has handled the message. *)
Processed ==
  /\ inbox # <<>> /\ inbox' = Tail(inbox)
  /\ \E S, T \in Sessions :
       /\ SameButReuse(ssi, S) /\ Handled(S, T, Head(inbox)) /\ SameButReuse(T, ssi')
  /\ ssi'.reuse = FALSE /\ Noted
  /\ timer' = IF Head(inbox).kind = "error" /\ Head(inbox).busy THEN timer + 1 ELSE timer
  /\ UNCHANGED <<server, turns>>

(* The client reads a message. *)
LEMMA ProcessLemma ==
  ASSUME ssi \in Sessions, inbox \in Seq(MessageType), Process
  PROVE  Processed /\ inbox' \in Seq(MessageType)
<1>1. inbox # <<>> /\ inbox' = Tail(inbox) /\ Head(inbox) \in MessageType /\ Tail(inbox) \in Seq(MessageType)
  BY DEF Process, Reading
<1>2. PICK r \in {FALSE, ssi.waiting} : Made(Received(With(r), Head(inbox)))
  BY DEF Process, Become, Made, With
<1> DEFINE S == With(r)
           T == Received(S, Head(inbox))
<1>3. SameButReuse(ssi, S)
  <2>1. r \in BOOLEAN
    BY SessionFields
  <2> QED
    BY <2>1, ReuseLemma DEF With
<1> HIDE DEF S
<1>4. Handled(S, T, Head(inbox)) /\ S \in Sessions
  BY <1>1, <1>3, HandledLemma DEF SameButReuse
<1>5. Made(T)
  BY <1>2 DEF S
<1> HIDE DEF T
<1>6. T \in Sessions
  BY <1>4 DEF Handled
<1>7. SameButReuse(T, ssi') /\ ssi'.reuse = FALSE /\ Noted
  BY <1>5, <1>6, MadeLemma
<1>8. /\ timer' = IF Head(inbox).kind = "error" /\ Head(inbox).busy THEN timer + 1 ELSE timer
      /\ UNCHANGED <<server, turns>>
  BY DEF Process
<1> QED
  BY <1>1, <1>3, <1>4, <1>6, <1>7, <1>8 DEF Processed

Rerequested ==
  /\ timer > 0 /\ timer' = timer - 1
  /\ ssi' \in Sessions /\ ssi'.pending = <<>> /\ ssi'.official = <<>> /\ ssi'.reuse = ssi.reuse
  /\ ssi'.waiting = ssi.waiting /\ ssi'.received = ssi.received
  /\ ssi'.out = Append(ssi.out, [kind |-> "reqdata"])
  /\ UNCHANGED <<server, inbox, turns, troubles>>

(* The list is requested again. *)
LEMMA RerequestLemma ==
  ASSUME ssi \in Sessions, gaim_ssi_rerequestdata
  PROVE  Rerequested
<1>1. ssi' = aim_ssi_reqdata(ssi)
  BY DEF gaim_ssi_rerequestdata
<1>2. /\ ssi' \in Sessions /\ ssi'.pending = <<>> /\ ssi'.official = <<>> /\ ssi'.reuse = ssi.reuse
      /\ ssi'.waiting = ssi.waiting /\ ssi'.received = ssi.received
      /\ ssi'.out = Append(ssi.out, [kind |-> "reqdata"])
  BY <1>1, ReqDataLemma
<1> QED
  BY <1>2 DEF gaim_ssi_rerequestdata, Rerequested

-----------------------------------------------------------------------------
(* Types.  A timeout is set when an error is read, and each error has been *)
(* counted as a turn when it was sent: f[n] bounds the timeouts there may  *)
(* be after n more messages.                                               *)

Busy(msg) == msg.kind = "error" /\ msg.busy
Delays == {t \in Nat \X MessageType \X Nat : t[3] = IF Busy(t[2]) THEN t[1] + 1 ELSE t[1]}
Delayed ==
  \E f : Linked(f, inbox, Nat, Delays) /\ timer <= f[0] /\ f[Len(inbox)] <= turns
Troubles == {"disturbed", "retyped", "doubled", "refused", "error", "foreign"}

TInv ==
  /\ ssi \in Sessions /\ ssi.reuse = FALSE
  /\ server \in SUBSET ContentType /\ IsFiniteSet(server)
  /\ inbox \in Seq(MessageType)
  /\ turns \in 0 .. MaxTurns /\ timer \in Nat
  /\ troubles \subseteq Troubles
  /\ Delayed

(* One step of Delays. *)
LEMMA DelaysIs ==
  ASSUME NEW a \in Nat, NEW b \in Nat, NEW msg \in MessageType
  PROVE  <<a, msg, b>> \in Delays <=> b = IF Busy(msg) THEN a + 1 ELSE a
BY DEF Delays

(* The server has sent a message. *)
LEMMA DelayedMore ==
  ASSUME NEW seq \in Seq(MessageType), NEW msg \in MessageType, NEW b \in Nat, NEW t \in Nat,
         NEW f, Linked(f, seq, Nat, Delays), t <= f[0], f[Len(seq)] <= b
  PROVE  \E g : /\ Linked(g, Append(seq, msg), Nat, Delays) /\ t <= g[0]
                /\ g[Len(Append(seq, msg))] <= IF Busy(msg) THEN b + 1 ELSE b
<1> DEFINE N == Len(seq)
           x == IF Busy(msg) THEN f[N] + 1 ELSE f[N]
<1>1. f[N] \in Nat
  BY DEF Linked
<1>2. x \in Nat
  BY <1>1
<1>3. <<f[N], msg, x>> \in Delays
  BY <1>1, <1>2, DelaysIs
<1>4. x <= IF Busy(msg) THEN b + 1 ELSE b
  BY <1>1
<1> HIDE DEF x
<1>5. \E g : /\ Linked(g, Append(seq, msg), Nat, Delays)
             /\ g[0] = f[0] /\ g[Len(Append(seq, msg))] = x
  BY <1>2, <1>3, LinkedAppend DEF Extended
<1> QED
  BY <1>4, <1>5

(* It sent one that is no error. *)
LEMMA DelayedQuietly ==
  ASSUME NEW seq \in Seq(MessageType), NEW msg \in MessageType, NEW b \in Nat, NEW t \in Nat,
         msg.kind # "error",
         \E f : Linked(f, seq, Nat, Delays) /\ t <= f[0] /\ f[Len(seq)] <= b
  PROVE  /\ Append(seq, msg) \in Seq(MessageType)
         /\ \E f : /\ Linked(f, Append(seq, msg), Nat, Delays) /\ t <= f[0]
                   /\ f[Len(Append(seq, msg))] <= b
<1>1. ~Busy(msg)
  BY DEF Busy
<1> QED
  BY <1>1, DelayedMore

(* What the messages are. *)
LEMMA MessageKinds ==
  /\ \A seq \in Seq(ContentType), more \in BOOLEAN :
       /\ ListMessage(seq, more) \in MessageType /\ ListMessage(seq, more).kind = "list"
       /\ ListMessage(seq, more).items = seq /\ ListMessage(seq, more).more = more
  /\ \A oks \in Seq(BOOLEAN) :
       /\ AckMessage(oks) \in MessageType /\ AckMessage(oks).kind = "ack"
       /\ AckMessage(oks).oks = oks
  /\ \A action \in Actions, it \in ContentType :
       LET msg == [kind |-> action, item |-> it]
       IN  msg \in MessageType /\ msg.kind = action /\ msg.item = it /\ action # "error"
<1>1. ASSUME NEW seq \in Seq(ContentType), NEW more \in BOOLEAN
      PROVE  /\ ListMessage(seq, more) \in MessageType /\ ListMessage(seq, more).kind = "list"
             /\ ListMessage(seq, more).items = seq /\ ListMessage(seq, more).more = more
  BY DEF ListMessage, MessageType
<1>2. ASSUME NEW oks \in Seq(BOOLEAN)
      PROVE  /\ AckMessage(oks) \in MessageType /\ AckMessage(oks).kind = "ack"
             /\ AckMessage(oks).oks = oks
  BY DEF AckMessage, MessageType
<1>3. ASSUME NEW action \in Actions, NEW it \in ContentType
      PROVE  LET msg == [kind |-> action, item |-> it]
             IN  msg \in MessageType /\ msg.kind = action /\ msg.item = it /\ action # "error"
  BY DEF MessageType, Actions
<1> QED
  BY <1>1, <1>2, <1>3

(* What the user has changed on the way is typed, and so are the troubles. *)
LEMMA NotedType ==
  ASSUME troubles \subseteq Troubles, Noted
  PROVE  troubles' \subseteq Troubles /\ troubles \subseteq troubles'
BY DEF Noted, Troubles

(* At login. *)
LEMMA TInvInit ==
  ASSUME Init
  PROVE  TInv
<1>1. PICK own \in Starts :
        /\ ssi = [local |-> <<>>, official |-> <<>>, pending |-> <<>>, waiting |-> FALSE,
                  received |-> FALSE, out |-> <<[kind |-> "reqdata"]>>, asked |-> {},
                  own |-> [buddies |-> own.buddies, private |-> own.private], reuse |-> FALSE]
        /\ server = own.server
  BY DEF Init
<1>2. server \in SUBSET ContentType /\ IsFiniteSet(server)
  BY <1>1, GivenType
<1>3. own.buddies \in Seq(EntryType) /\ own.private \in Seq(PrivateTypes \X Names)
  <2>1. /\ own.buddies \in Seq([name : Names, group : Names, alias : Aliases \cup {NULL}])
        /\ own.private \in Seq(PrivateTypes \X Names)
    BY ListsAssumption DEF PrivateTypes
  <2>2. [name : Names, group : Names, alias : Aliases \cup {NULL}] \subseteq EntryType
    BY DEF EntryType, Values
  <2> QED
    <3>1. DOMAIN own.buddies = 1 .. Len(own.buddies) /\ Len(own.buddies) \in Nat
      BY <2>1
    <3> DEFINE E == [name : Names, group : Names, alias : Aliases \cup {NULL}]
    <3> HIDE DEF E
    <3>0. own.buddies \in Seq(E) /\ E \subseteq EntryType
      BY <2>1, <2>2 DEF E
    <3>2. \A i \in 1 .. Len(own.buddies) : own.buddies[i] \in EntryType
      BY <3>0
    <3>3. own.buddies = [i \in 1 .. Len(own.buddies) |-> own.buddies[i]]
      BY <2>1
    <3> QED
      BY <2>1, <3>1, <3>2, <3>3
<1>4. ssi \in SessionType
  <2>1. [kind |-> "reqdata"] \in RequestType
    BY DEF RequestType
  <2>2. <<[kind |-> "reqdata"]>> \in Seq(RequestType)
    BY <2>1
  <2>3. [buddies |-> own.buddies, private |-> own.private] \in OwnType
    BY <1>3 DEF OwnType
  <2> QED
    BY <1>1, <2>2, <2>3 DEF SessionType
<1>5. ssi.local = <<>> /\ ssi.official = <<>> /\ ssi.pending = <<>> /\ ssi.reuse = FALSE
  BY <1>1
<1>6. ssi \in Sessions
  <2>1. Fits(<<>>, Len(ssi.pending))
    BY DEF Fits
  <2> QED
    BY <1>4, <1>5, <2>1 DEF Sessions
<1>7. inbox = <<>> /\ timer = 0 /\ turns = 0 /\ troubles = {}
  BY DEF Init
<1>8. Delayed
  <2> DEFINE f == [n \in 0 .. 0 |-> 0]
  <2>1. Linked(f, <<>>, Nat, Delays)
    BY LinkedNone
  <2>2. f[0] = 0 /\ Len(<<>>) = 0
    OBVIOUS
  <2> HIDE DEF f
  <2> QED
    BY <1>7, <2>1, <2>2 DEF Delayed
<1> QED
  BY <1>2, <1>5, <1>6, <1>7, <1>8, NamesAssumption DEF TInv

(* What the server sends is typed. *)
LEMMA TInvServer ==
  ASSUME TInv, ListSent \/ Carried \/ Failed, inbox' \in Seq(MessageType),
         ListSent \/ Failed => UNCHANGED server
  PROVE  TInv'
<1>0. /\ ssi \in Sessions /\ ssi.reuse = FALSE /\ server \in SUBSET ContentType
      /\ IsFiniteSet(server) /\ inbox \in Seq(MessageType)
      /\ turns \in 0 .. MaxTurns /\ timer \in Nat /\ troubles \subseteq Troubles /\ Delayed
      /\ MaxTurns \in Nat /\ turns \in Nat
  BY NamesAssumption DEF TInv
<1>1. CASE ListSent
  <2>1. PICK seq \in Seq(ContentType) :
          \/ inbox' = Append(inbox, ListMessage(seq, FALSE))
          \/ \E k \in 1 .. Len(seq) - 1 :
               /\ First(seq, k) \in Seq(ContentType) /\ Rest(seq, k) \in Seq(ContentType)
               /\ inbox' = Append(Append(inbox, ListMessage(First(seq, k), TRUE)),
                                  ListMessage(Rest(seq, k), FALSE))
    BY <1>1 DEF ListSent
  <2>2. /\ ssi' \in Sessions /\ ssi'.reuse = FALSE /\ timer' = timer /\ turns' = turns
        /\ server' = server /\ troubles' = troubles
    BY <1>0, <1>1 DEF ListSent, Replied
  <2>3. Delayed'
    <3>1. CASE inbox' = Append(inbox, ListMessage(seq, FALSE))
      <4>1. ListMessage(seq, FALSE) \in MessageType /\ ListMessage(seq, FALSE).kind # "error"
        BY MessageKinds
      <4> QED
        BY <1>0, <2>2, <3>1, <4>1, DelayedQuietly DEF Delayed
    <3>2. ASSUME NEW k \in 1 .. Len(seq) - 1,
                 First(seq, k) \in Seq(ContentType), Rest(seq, k) \in Seq(ContentType),
                 inbox' = Append(Append(inbox, ListMessage(First(seq, k), TRUE)),
                                 ListMessage(Rest(seq, k), FALSE))
          PROVE  Delayed'
      <4> DEFINE m == ListMessage(First(seq, k), TRUE)
                 n == ListMessage(Rest(seq, k), FALSE)
      <4>1. m \in MessageType /\ m.kind # "error" /\ n \in MessageType /\ n.kind # "error"
        BY <3>2, MessageKinds
      <4>2. inbox' = Append(Append(inbox, m), n)
        BY <3>2
      <4> HIDE DEF m, n
      <4> QED
        BY <1>0, <2>2, <4>1, <4>2, DelayedQuietly DEF Delayed
    <3> QED
      BY <2>1, <3>1, <3>2
  <2> QED
    BY <1>0, <2>2, <2>3 DEF TInv
<1>2. CASE Carried
  <2>1. PICK oks \in Seq(BOOLEAN) :
          /\ troubles' = troubles \cup (IF FALSE \in Range(oks) THEN {"refused"} ELSE {})
          /\ \/ inbox' = Append(inbox, AckMessage(oks))
             \/ \E k \in 1 .. Len(oks) - 1 :
                  /\ First(oks, k) \in Seq(BOOLEAN) /\ Rest(oks, k) \in Seq(BOOLEAN)
                  /\ inbox' = Append(Append(inbox, AckMessage(First(oks, k))),
                                     AckMessage(Rest(oks, k)))
    BY <1>2 DEF Carried
  <2>2. /\ ssi' \in Sessions /\ ssi'.reuse = FALSE /\ timer' = timer /\ turns' = turns
        /\ server' \in SUBSET ContentType /\ IsFiniteSet(server')
    BY <1>0, <1>2 DEF Carried, Replied
  <2>3. Delayed'
    <3>1. CASE inbox' = Append(inbox, AckMessage(oks))
      <4>1. AckMessage(oks) \in MessageType /\ AckMessage(oks).kind # "error"
        BY MessageKinds
      <4> QED
        BY <1>0, <2>2, <3>1, <4>1, DelayedQuietly DEF Delayed
    <3>2. ASSUME NEW k \in 1 .. Len(oks) - 1,
                 First(oks, k) \in Seq(BOOLEAN), Rest(oks, k) \in Seq(BOOLEAN),
                 inbox' = Append(Append(inbox, AckMessage(First(oks, k))), AckMessage(Rest(oks, k)))
          PROVE  Delayed'
      <4> DEFINE m == AckMessage(First(oks, k))
                 n == AckMessage(Rest(oks, k))
      <4>1. m \in MessageType /\ m.kind # "error" /\ n \in MessageType /\ n.kind # "error"
        BY <3>2, MessageKinds
      <4>2. inbox' = Append(Append(inbox, m), n)
        BY <3>2
      <4> HIDE DEF m, n
      <4> QED
        BY <1>0, <2>2, <4>1, <4>2, DelayedQuietly DEF Delayed
    <3> QED
      BY <2>1, <3>1, <3>2
  <2>4. troubles' \subseteq Troubles
    BY <1>0, <2>1 DEF Troubles
  <2> QED
    BY <1>0, <2>2, <2>3, <2>4 DEF TInv
<1>3. CASE Failed
  <2>1. PICK busy \in BOOLEAN : inbox' = Append(inbox, [kind |-> "error", busy |-> busy])
    BY <1>3 DEF Failed
  <2> DEFINE m == [kind |-> "error", busy |-> busy]
  <2>2. m \in MessageType
    BY DEF MessageType
  <2>3. inbox' = Append(inbox, m)
    BY <2>1
  <2> HIDE DEF m
  <2>4. /\ ssi' \in Sessions /\ ssi'.reuse = FALSE /\ timer' = timer /\ turns' = turns + 1
        /\ turns < MaxTurns /\ server' = server /\ troubles' = troubles \cup {"error"}
    BY <1>0, <1>3 DEF Failed, Replied
  <2>5. Delayed'
    <3>1. PICK f : Linked(f, inbox, Nat, Delays) /\ timer <= f[0] /\ f[Len(inbox)] <= turns
      BY <1>0 DEF Delayed
    <3>2. PICK g : /\ Linked(g, Append(inbox, m), Nat, Delays) /\ timer <= g[0]
                   /\ g[Len(Append(inbox, m))] <= IF Busy(m) THEN turns + 1 ELSE turns
      BY <1>0, <2>2, <3>1, DelayedMore
    <3>3. g[Len(inbox')] \in Nat
      <4>1. Len(inbox') \in 0 .. Len(inbox')
        OBVIOUS
      <4> QED
        BY <2>3, <3>2, <4>1 DEF Linked
    <3>4. g[Len(inbox')] <= turns + 1
      BY <1>0, <2>3, <3>2, <3>3
    <3> QED
      BY <2>3, <2>4, <3>2, <3>4 DEF Delayed
  <2>6. turns' \in 0 .. MaxTurns
    BY <1>0, <2>4
  <2>7. troubles' \subseteq Troubles
    BY <1>0, <2>4 DEF Troubles
  <2> QED
    BY <1>0, <2>4, <2>5, <2>6, <2>7 DEF TInv
<1> QED
  BY <1>1, <1>2, <1>3

(* Every step keeps the types. *)
LEMMA TInvStep ==
  ASSUME TInv, [Next]_vars
  PROVE  TInv'
<1>0. /\ ssi \in Sessions /\ ssi.reuse = FALSE /\ server \in SUBSET ContentType
      /\ IsFiniteSet(server) /\ inbox \in Seq(MessageType)
      /\ turns \in 0 .. MaxTurns /\ timer \in Nat /\ troubles \subseteq Troubles /\ Delayed
      /\ MaxTurns \in Nat /\ turns \in Nat
  BY NamesAssumption DEF TInv
<1>1. CASE User
  <2>1. UserDone
    BY <1>0, <1>1, UserLemma
  <2>2. /\ ssi' \in Sessions /\ ssi'.reuse = FALSE /\ server' = server /\ inbox' = inbox
        /\ timer' = timer /\ turns' \in {turns, turns + 1} /\ turns < MaxTurns
    BY <2>1 DEF UserDone, From
  <2>3. turns' \in 0 .. MaxTurns /\ turns <= turns' /\ turns' \in Nat
    BY <1>0, <2>2
  <2>4. troubles' \subseteq Troubles
    BY <1>0, <2>1, NotedType DEF UserDone
  <2>5. Delayed'
    <3>1. PICK f : Linked(f, inbox, Nat, Delays) /\ timer <= f[0] /\ f[Len(inbox)] <= turns
      BY <1>0 DEF Delayed
    <3>2. f[Len(inbox)] \in Nat
      BY <1>0, <3>1 DEF Linked
    <3>3. f[Len(inbox)] <= turns'
      BY <1>0, <2>3, <3>1, <3>2
    <3> QED
      BY <2>2, <3>1, <3>3 DEF Delayed
  <2> QED
    BY <1>0, <2>2, <2>3, <2>4, <2>5 DEF TInv
<1>2. CASE Server
  <2>1. CASE SendList
    BY <1>0, <2>1, SendListLemma, TInvServer DEF ListSent
  <2>2. CASE Carry
    <3>1. Carried /\ inbox' \in Seq(MessageType)
      BY <1>0, <2>2, CarryLemma
    <3>2. ListSent => server' = server
      BY DEF ListSent
    <3>3. Failed => server' = server
      BY DEF Failed
    <3> QED
      BY <3>1, <3>2, <3>3, TInvServer
  <2>3. CASE Fail
    <3>1. Failed /\ inbox' \in Seq(MessageType)
      BY <1>0, <2>3, FailLemma
    <3>2. server' = server
      BY <3>1 DEF Failed
    <3> QED
      BY <3>1, <3>2, TInvServer
  <2> QED
    BY <1>2, <2>1, <2>2, <2>3 DEF Server
<1>3. CASE OtherClient
  <2>1. /\ Announced /\ inbox' \in Seq(MessageType)
        /\ server' \in SUBSET ContentType /\ IsFiniteSet(server')
    BY <1>0, <1>3, OtherClientLemma
  <2>2. PICK action \in Actions, it \in ContentType :
          /\ inbox' = Append(inbox, [kind |-> action, item |-> it])
          /\ turns < MaxTurns /\ turns' = turns + 1
          /\ troubles' = troubles \cup {"foreign"}
          /\ ssi' = ssi /\ timer' = timer
    BY <2>1 DEF Announced
  <2> DEFINE m == [kind |-> action, item |-> it]
  <2>3. m \in MessageType /\ m.kind # "error"
    BY MessageKinds
  <2>4. inbox' = Append(inbox, m)
    BY <2>2
  <2> HIDE DEF m
  <2>5. turns' \in 0 .. MaxTurns /\ turns <= turns' /\ turns' \in Nat
    BY <1>0, <2>2
  <2>6. Delayed'
    <3>1. PICK f : Linked(f, Append(inbox, m), Nat, Delays) /\ timer <= f[0]
                   /\ f[Len(Append(inbox, m))] <= turns
      BY <1>0, <2>3, DelayedQuietly DEF Delayed
    <3>2. f[Len(inbox')] \in Nat
      <4>1. Len(inbox') \in 0 .. Len(inbox')
        BY <2>1
      <4> QED
        BY <2>4, <3>1, <4>1 DEF Linked
    <3>3. f[Len(inbox')] <= turns'
      BY <1>0, <2>4, <2>5, <3>1, <3>2
    <3> QED
      BY <2>2, <2>4, <3>1, <3>3 DEF Delayed
  <2>7. troubles' \subseteq Troubles
    BY <1>0, <2>2 DEF Troubles
  <2> QED
    BY <1>0, <2>1, <2>2, <2>5, <2>6, <2>7 DEF TInv
<1>4. CASE Process
  <2>1. Processed /\ inbox' \in Seq(MessageType)
    BY <1>0, <1>4, ProcessLemma
  <2>2. /\ inbox # <<>> /\ inbox' = Tail(inbox) /\ ssi' \in Sessions /\ ssi'.reuse = FALSE
        /\ timer' = (IF Busy(Head(inbox)) THEN timer + 1 ELSE timer)
        /\ server' = server /\ turns' = turns
    BY <2>1 DEF Processed, SameButReuse, Busy
  <2>3. troubles' \subseteq Troubles
    BY <1>0, <2>1, NotedType DEF Processed
  <2>4. Delayed'
    <3>1. PICK f : Linked(f, inbox, Nat, Delays) /\ timer <= f[0] /\ f[Len(inbox)] <= turns
      BY <1>0 DEF Delayed
    <3>0. inbox \in Seq(MessageType) /\ inbox # <<>>
      BY <1>0, <2>2
    <3>6. Unread(f, inbox, MessageType, Nat, Delays)
      BY <3>0, <3>1, LinkedTail
    <3>2. /\ Head(inbox) \in MessageType
          /\ f[0] \in Nat /\ f[1] \in Nat /\ <<f[0], Head(inbox), f[1]>> \in Delays
          /\ \E g : /\ Linked(g, Tail(inbox), Nat, Delays) /\ g[0] = f[1]
                    /\ g[Len(Tail(inbox))] = f[Len(inbox)]
      BY <3>6 DEF Unread
    <3>3. f[1] = IF Busy(Head(inbox)) THEN f[0] + 1 ELSE f[0]
      BY <3>2, DelaysIs
    <3>4. timer' <= f[1]
      BY <1>0, <2>2, <3>1, <3>2, <3>3
    <3> QED
      BY <2>2, <3>1, <3>2, <3>4 DEF Delayed
  <2>5. timer' \in Nat
    BY <1>0, <2>2
  <2> QED
    BY <1>0, <2>1, <2>2, <2>3, <2>4, <2>5 DEF TInv
<1>5. CASE gaim_ssi_rerequestdata
  <2>1. Rerequested
    BY <1>0, <1>5, RerequestLemma
  <2>2. /\ ssi' \in Sessions /\ ssi'.reuse = FALSE /\ server' = server /\ inbox' = inbox
        /\ turns' = turns /\ troubles' = troubles /\ timer > 0 /\ timer' = timer - 1
    BY <1>0, <2>1 DEF Rerequested
  <2>3. timer' \in Nat /\ timer' <= timer
    BY <1>0, <2>2
  <2>4. Delayed'
    <3>1. PICK f : Linked(f, inbox, Nat, Delays) /\ timer <= f[0] /\ f[Len(inbox)] <= turns
      BY <1>0 DEF Delayed
    <3>2. f[0] \in Nat
      <4>1. 0 \in 0 .. Len(inbox)
        BY <1>0
      <4> QED
        BY <3>1, <4>1 DEF Linked
    <3>3. timer' <= f[0]
      BY <1>0, <2>3, <3>1, <3>2
    <3> QED
      BY <2>2, <3>1, <3>3 DEF Delayed
  <2> QED
    BY <1>0, <2>2, <2>3, <2>4 DEF TInv
<1>6. CASE UNCHANGED vars
  BY <1>6 DEF vars, TInv, Delayed
<1> QED
  BY <1>1, <1>2, <1>3, <1>4, <1>5, <1>6 DEF Next

(* The types of Ssi. *)
LEMMA TypeOKLemma ==
  ASSUME TInv
  PROVE  TypeOK
<1>0. /\ ssi \in Sessions /\ inbox \in Seq(MessageType) /\ Len(inbox) \in Nat
      /\ turns \in 0 .. MaxTurns /\ timer \in Nat /\ troubles \subseteq Troubles /\ Delayed
      /\ turns \in Nat
  BY NamesAssumption DEF TInv
<1>1. ASSUME NEW list, Fits(list, Len(ssi.pending))
      PROVE  Items(list)
  <2>1. list \in Seq(ItemType) /\ \A k \in 1 .. Len(list) : list[k].ref <= Len(ssi.pending)
    BY <1>1 DEF Fits
  <2>2. ASSUME NEW i \in DOMAIN list
        PROVE  /\ list[i].name \in Names \cup {NULL} /\ list[i].gid \in Nat /\ list[i].bid \in Nat
               /\ list[i].ref \in 0 .. Len(ssi.pending)
    <3>1. list[i] \in ItemType /\ i \in 1 .. Len(list) /\ Len(ssi.pending) \in Nat
      BY <1>0, <2>1, SessionFields
    <3>2. list[i].ref \in Nat /\ list[i].ref <= Len(ssi.pending)
      BY <2>1, <3>1 DEF ItemType
    <3> QED
      BY <3>1, <3>2 DEF ItemType, Called
  <2> QED
    BY <2>2 DEF Items
<1>2. Items(ssi.local) /\ Items(ssi.official) /\ (ssi.pending # <<>> => ssi.waiting)
  BY <1>0, <1>1, SessionFields
<1>3. timer <= turns
  <2>1. PICK f : Linked(f, inbox, Nat, Delays) /\ timer <= f[0] /\ f[Len(inbox)] <= turns
    BY <1>0 DEF Delayed
  <2> DEFINE Q == {n \in Nat : timer <= n}
  <2>2. f[0] \in Q
    <3>1. 0 \in 0 .. Len(inbox)
      BY <1>0
    <3> QED
      BY <2>1, <3>1 DEF Linked
  <2>3. ASSUME NEW a \in Nat, NEW b \in Nat, NEW msg \in MessageType,
               a \in Q, <<a, msg, b>> \in Delays
        PROVE  b \in Q
    BY <1>0, <2>3, DelaysIs
  <2>4. \A n \in 0 .. Len(inbox) : f[n] \in Q
    <3> HIDE DEF Q
    <3> QED
      BY <1>0, <2>1, <2>2, <2>3, LinkedKeeps
  <2>5. f[Len(inbox)] \in Q
    BY <1>0, <2>4
  <2> QED
    BY <1>0, <2>1, <2>5
<1>4. timer \in 0 .. turns
  BY <1>0, <1>3
<1> QED
  BY <1>0, <1>2, <1>4 DEF TypeOK, Troubles

(* Whatever the user, another client, the server and malloc do, the lists  *)
(* and the changes that are pending stay what the code takes them for.     *)
THEOREM Typed == Spec => []TypeOK
<1>1. Init => TInv
  BY TInvInit
<1>2. TInv /\ [Next]_vars => TInv'
  BY TInvStep
<1>3. TInv => TypeOK
  BY TypeOKLemma
<1> QED
  BY <1>1, <1>2, <1>3, PTL DEF Spec

-----------------------------------------------------------------------------
(* The exchange with the server, as long as it answers no request with an  *)
(* error.  f[n] is the number of changes that still await their outcome    *)
(* after n more messages; in the end those that are on their way.          *)

Acks == {t \in Nat \X MessageType \X Nat :
           IF t[2].kind = "ack" THEN /\ Len(t[2].oks) \in 1 .. t[1]
                                     /\ t[3] = t[1] - Len(t[2].oks)
           ELSE t[2].kind # "error" /\ t[3] = t[1]}
Asks(S) ==
  /\ S.out = <<[kind |-> "reqdata"]>>
  /\ ~S.received /\ ~S.waiting /\ S.pending = <<>>
Changing(S) ==
  /\ S.waiting /\ S.pending # <<>>
  /\ \E action \in Actions :
       /\ \A i \in 1 .. Len(S.pending) : S.pending[i].action = action
       /\ S.out = <<[kind |-> "change", action |-> action,
                     items |-> [i \in 1 .. Len(S.pending) |-> S.pending[i].sent]]>>
Owed(S) == IF Changing(S) THEN Len(S.pending) ELSE 0
Owing(S, box) ==
  \E f : Linked(f, box, Nat, Acks) /\ f[0] = Len(S.pending) /\ f[Len(box)] = Owed(S)
Exchange(S, box) ==
  /\ (Asks(S) /\ box = <<>>) \/ Changing(S) \/ S.out = <<>>
  /\ S.waiting => S.pending # <<>>
  /\ Owing(S, box)

AckInv == "error" \notin troubles => timer = 0 /\ Exchange(ssi, inbox)

(* One step of Acks. *)
LEMMA AcksIs ==
  ASSUME NEW a \in Nat, NEW b \in Nat, NEW msg \in MessageType
  PROVE  /\ msg.kind = "ack" =>
              (<<a, msg, b>> \in Acks <=> Len(msg.oks) \in 1 .. a /\ b = a - Len(msg.oks))
         /\ msg.kind # "ack" => (<<a, msg, b>> \in Acks <=> msg.kind # "error" /\ b = a)
BY DEF Acks

(* Two sessions that differ in the lists and gaim's own state only. *)
LEMMA ExchangeSame ==
  ASSUME NEW S, NEW T, NEW box, Exchange(S, box),
         T.pending = S.pending, T.waiting = S.waiting, T.out = S.out,
         T.received = S.received \/ ~Asks(S)
  PROVE  Exchange(T, box)
<1>1. Changing(T) <=> Changing(S)
  BY DEF Changing
<1>2. Asks(S) => Asks(T)
  BY DEF Asks
<1>3. Owed(T) = Owed(S)
  BY <1>1 DEF Owed
<1> QED
  BY <1>1, <1>2, <1>3 DEF Exchange, Owing

(* Nothing is owed while no change is pending. *)
LEMMA NothingOwed ==
  ASSUME NEW box \in Seq(MessageType), NEW f, Linked(f, box, Nat, Acks), f[0] = 0, NEW n \in Nat
  PROVE  \E g : Linked(g, box, Nat, Acks) /\ g[0] = n /\ g[Len(box)] = n
<1> DEFINE N == Len(box)
           g == [m \in 0 .. N |-> n]
           Q == {0}
<1>1. N \in Nat /\ f \in [0 .. N -> Nat] /\ \A m \in 1 .. N : <<f[m - 1], box[m], f[m]>> \in Acks
  BY DEF Linked
<1>2. ASSUME NEW a \in Nat, NEW b \in Nat, NEW msg \in MessageType,
             a \in Q, <<a, msg, b>> \in Acks
      PROVE  b \in Q /\ msg.kind # "ack" /\ msg.kind # "error"
  BY <1>2, AcksIs
<1>3. f[0] \in Q
  OBVIOUS
<1>4. \A m \in 0 .. N : f[m] \in Q
  <2> HIDE DEF Q
  <2> QED
    BY <1>2, <1>3, LinkedKeeps
<1>5. ASSUME NEW m \in 1 .. N
      PROVE  <<g[m - 1], box[m], g[m]>> \in Acks
  <2>1. m - 1 \in 0 .. N /\ m \in 0 .. N /\ box[m] \in MessageType
    BY <1>1
  <2>2. f[m - 1] \in Nat /\ f[m] \in Nat /\ <<f[m - 1], box[m], f[m]>> \in Acks /\ f[m - 1] \in Q
    BY <1>1, <1>4, <2>1
  <2>3. box[m].kind # "ack" /\ box[m].kind # "error"
    <3> HIDE DEF Q
    <3> QED
      BY <1>2, <2>1, <2>2
  <2>4. g[m - 1] = n /\ g[m] = n
    BY <2>1
  <2> QED
    BY <2>1, <2>3, <2>4, AcksIs
<1>6. g \in [0 .. N -> Nat] /\ g[0] = n /\ g[N] = n
  BY <1>1
<1> HIDE DEF g
<1>7. Linked(g, box, Nat, Acks)
  BY <1>5, <1>6 DEF Linked
<1> QED
  BY <1>6, <1>7

(* The next request is sent. *)
LEMMA ExchangeSent ==
  ASSUME NEW S \in Sessions, NEW T \in Sessions, NEW box \in Seq(MessageType),
         Exchange(S, box), S.out = <<>>, Sent(S, T)
  PROVE  Exchange(T, box)
<1>1. S.pending = <<>> /\ ~Changing(S)
  BY SessionFields DEF Sent, Changing
<1>2. \E f : Linked(f, box, Nat, Acks) /\ f[0] = 0
  <2>1. Len(S.pending) = 0
    BY <1>1
  <2> QED
    BY <2>1 DEF Exchange, Owing
<1>3. Changing(T)
  <2>1. T.waiting /\ T.pending # <<>>
    BY DEF Sent
  <2>2. PICK action \in Actions :
          /\ \A i \in 1 .. Len(T.pending) : T.pending[i].action = action
          /\ T.out = Append(S.out, [kind |-> "change", action |-> action,
                                    items |-> [i \in 1 .. Len(T.pending) |-> T.pending[i].sent]])
    BY DEF Sent
  <2>3. \A m : Append(<<>>, m) = <<m>>
    OBVIOUS
  <2>4. T.out = <<[kind |-> "change", action |-> action,
                   items |-> [i \in 1 .. Len(T.pending) |-> T.pending[i].sent]]>>
    BY <2>2, <2>3
  <2> QED
    BY <2>1, <2>2, <2>4 DEF Changing
<1>4. Len(T.pending) \in Nat
  BY SessionFields
<1>5. Owing(T, box)
  BY <1>2, <1>3, <1>4, NothingOwed DEF Owing, Owed
<1> QED
  BY <1>3, <1>5 DEF Exchange, Changing

(* An edit, once the list has been requested. *)
LEMMA ExchangeFrom ==
  ASSUME NEW S \in Sessions, NEW T \in From(S), NEW box \in Seq(MessageType),
         Exchange(S, box), ~Asks(S)
  PROVE  Exchange(T, box)
<1>1. T \in Sessions /\ (Edited(S, T) \/ Sent(S, T))
  BY DEF From
<1>2. CASE Edited(S, T)
  <2>1. T.pending = S.pending /\ T.waiting = S.waiting /\ T.out = S.out
    BY <1>2 DEF Edited, Kept
  <2> QED
    BY <2>1, ExchangeSame
<1>3. CASE Sent(S, T)
  <2>1. ~S.waiting
    BY <1>3 DEF Sent
  <2>2. S.out = <<>>
    BY <2>1 DEF Exchange, Changing
  <2> QED
    BY <1>1, <1>3, <2>2, ExchangeSent
<1> QED
  BY <1>1, <1>2, <1>3

(* The server has sent a message that is no ack. *)
LEMMA ExchangeMore ==
  ASSUME NEW S, NEW box \in Seq(MessageType), Owing(S, box),
         NEW msg \in MessageType, msg.kind # "ack", msg.kind # "error"
  PROVE  Owing(S, Append(box, msg))
<1>1. PICK f : Linked(f, box, Nat, Acks) /\ f[0] = Len(S.pending) /\ f[Len(box)] = Owed(S)
  BY DEF Owing
<1>2. f[Len(box)] \in Nat
  BY <1>1 DEF Linked
<1>3. <<f[Len(box)], msg, f[Len(box)]>> \in Acks
  BY <1>2, AcksIs
<1>4. \E g : /\ Linked(g, Append(box, msg), Nat, Acks)
             /\ g[0] = f[0] /\ g[Len(Append(box, msg))] = f[Len(box)]
  BY <1>1, <1>2, <1>3, LinkedAppend DEF Extended
<1> QED
  BY <1>1, <1>4 DEF Owing

(* The client has read a message that is no ack. *)
LEMMA ExchangeRead ==
  ASSUME NEW S, NEW box \in Seq(MessageType), box # <<>>, Owing(S, box), Head(box).kind # "ack"
  PROVE  Owing(S, Tail(box)) /\ Head(box).kind # "error"
<1>1. PICK f : Linked(f, box, Nat, Acks) /\ f[0] = Len(S.pending) /\ f[Len(box)] = Owed(S)
  BY DEF Owing
<1>2. Unread(f, box, MessageType, Nat, Acks)
  BY <1>1, LinkedTail
<1>3. /\ Head(box) \in MessageType /\ f[0] \in Nat /\ f[1] \in Nat
      /\ <<f[0], Head(box), f[1]>> \in Acks
  BY <1>2 DEF Unread
<1>4. \E g : Linked(g, Tail(box), Nat, Acks) /\ g[0] = f[1] /\ g[Len(Tail(box))] = f[Len(box)]
  BY <1>2 DEF Unread
<1>5. f[1] = f[0] /\ Head(box).kind # "error"
  BY <1>3, AcksIs
<1> QED
  BY <1>1, <1>4, <1>5 DEF Owing

(* It has read an ack.  The request has reached the server before, so none *)
(* is on its way.                                                          *)
LEMMA ExchangeAcked ==
  ASSUME NEW S \in Sessions, NEW T, NEW box \in Seq(MessageType), box # <<>>, Exchange(S, box),
         Head(box).kind = "ack", Acked(S, T, Outcomes(S, Head(box).oks))
  PROVE  /\ Exchange(T, Tail(box)) /\ S.out = <<>>
         /\ Len(Head(box).oks) \in 1 .. Len(S.pending)
         /\ Outcomes(S, Head(box).oks) = Len(Head(box).oks)
<1> DEFINE P == Len(S.pending)
           n == Outcomes(S, Head(box).oks)
           new == Tail(box)
<1>1. PICK f : Linked(f, box, Nat, Acks) /\ f[0] = Len(S.pending) /\ f[Len(box)] = Owed(S)
  BY DEF Exchange, Owing
<1>2. Unread(f, box, MessageType, Nat, Acks)
  BY <1>1, LinkedTail
<1>3. /\ Head(box) \in MessageType /\ f[0] \in Nat /\ f[1] \in Nat
      /\ <<f[0], Head(box), f[1]>> \in Acks /\ new \in Seq(MessageType)
  BY <1>2 DEF Unread
<1>4. PICK g : Linked(g, new, Nat, Acks) /\ g[0] = f[1] /\ g[Len(new)] = f[Len(box)]
  BY <1>2 DEF Unread
<1>5. Len(Head(box).oks) \in 1 .. P /\ f[1] = P - Len(Head(box).oks) /\ P \in Nat
  <2>1. Len(Head(box).oks) \in 1 .. f[0] /\ f[1] = f[0] - Len(Head(box).oks)
    BY <1>3, AcksIs
  <2>2. P \in Nat
    BY SessionFields
  <2> HIDE DEF P
  <2>3. f[0] = P
    BY <1>1 DEF P
  <2> QED
    BY <2>1, <2>2, <2>3
<1>6. n = Len(Head(box).oks) /\ n \in 1 .. P /\ f[1] = P - n
  <2> DEFINE k == Len(Head(box).oks)
  <2>1. n = IF k < P THEN k ELSE P
    BY DEF Outcomes
  <2>2. k \in 1 .. P /\ f[1] = P - k /\ P \in Nat
    BY <1>5
  <2> HIDE DEF k, n, P
  <2>3. n = k
    BY <2>1, <2>2
  <2> QED
    BY <2>2, <2>3 DEF k
<1> HIDE DEF n, new
<1>7. ~Changing(S)
  <2>1. SUFFICES ASSUME Changing(S) PROVE FALSE
    OBVIOUS
  <2>2. g[Len(new)] = P
    BY <1>1, <1>4, <2>1 DEF Owed
  <2> DEFINE Q == 0 .. f[1]
  <2>3. g[0] \in Q
    BY <1>3, <1>4
  <2>4. ASSUME NEW a \in Nat, NEW b \in Nat, NEW msg \in MessageType,
               a \in Q, <<a, msg, b>> \in Acks
        PROVE  b \in Q
    <3>1. CASE msg.kind = "ack"
      <4>1. Len(msg.oks) \in 1 .. a /\ b = a - Len(msg.oks)
        BY <2>4, <3>1, AcksIs
      <4> QED
        BY <1>3, <2>4, <4>1
    <3>2. CASE msg.kind # "ack"
      BY <2>4, <3>2, AcksIs
    <3> QED
      BY <3>1, <3>2
  <2>5. \A m \in 0 .. Len(new) : g[m] \in Q
    <3> HIDE DEF Q
    <3> QED
      BY <1>3, <1>4, <2>3, <2>4, LinkedKeeps
  <2>6. Len(new) \in 0 .. Len(new)
    BY <1>3
  <2>7. P \in 0 .. f[1]
    BY <2>2, <2>5, <2>6
  <2>8. P \in Nat /\ n \in 1 .. P /\ f[1] = P - n
    BY <1>5, <1>6
  <2> HIDE DEF P
  <2> QED
    BY <2>7, <2>8
<1>8. S.out = <<>>
  BY <1>7 DEF Exchange
<1>9. g[Len(new)] = 0
  BY <1>1, <1>4, <1>7 DEF Owed
<1>10. PICK U \in Sessions :
         /\ Settled(S, U, n)
         /\ IF n < Len(S.pending) THEN T = U
            ELSE LET V == [U EXCEPT !.waiting = FALSE]
                 IN  V \in Sessions /\ ~V.waiting /\ V.pending = <<>> /\ T \in From(V)
  BY DEF Acked, n
<1>11. /\ U.pending = SubSeq(S.pending, n + 1, Len(S.pending)) /\ U.out = <<>>
       /\ Len(U.pending) = P - n
  <2>1. U.pending = SubSeq(S.pending, n + 1, Len(S.pending)) /\ U.out = <<>>
    BY <1>8, <1>10 DEF Settled
  <2>2. S.pending \in Seq(ChangeType)
    BY SessionFields
  <2>3. n \in 1 .. Len(S.pending) /\ Len(S.pending) \in Nat
    BY <1>5, <1>6
  <2>4. Len(SubSeq(S.pending, n + 1, Len(S.pending))) = Len(S.pending) - n
    BY <2>2, <2>3
  <2> QED
    BY <2>1, <2>4
<1>12. \A R : R.out = <<>> => ~Changing(R) /\ ~Asks(R)
  BY DEF Changing, Asks
<1>13. ASSUME NEW R, R.out = <<>>, Len(R.pending) = P - n, R.waiting => R.pending # <<>>
       PROVE  Exchange(R, new)
  <2>1. Owed(R) = 0 /\ ~Asks(R)
    BY <1>12, <1>13 DEF Owed
  <2>2. Owing(R, new)
    BY <1>4, <1>6, <1>9, <1>13, <2>1 DEF Owing
  <2> QED
    BY <1>13, <2>2 DEF Exchange
<1>14. Exchange(T, new)
  <2>1. CASE n < P
    <3>1. U.pending # <<>>
      <4>1. Len(U.pending) # 0
        BY <1>5, <1>6, <1>11, <2>1
      <4> QED
        BY <4>1
    <3> QED
      BY <1>10, <1>11, <1>13, <2>1, <3>1
  <2>2. CASE ~(n < P)
    <3> DEFINE V == [U EXCEPT !.waiting = FALSE]
    <3>1. V \in Sessions /\ ~V.waiting /\ V.pending = <<>> /\ T \in From(V)
      BY <1>10, <2>2
    <3>2. P - n = 0 /\ U.pending = <<>>
      <4>1. P - n = 0
        BY <1>5, <1>6, <2>2
      <4>2. U.pending \in Seq(ChangeType)
        BY <1>10, SessionFields
      <4> QED
        BY <1>11, <4>1, <4>2
    <3>3. V.out = <<>>
      BY <1>11, <3>2, NotWaiting
    <3> HIDE DEF V
    <3>4. Len(V.pending) = P - n
      BY <3>1, <3>2
    <3>5. Exchange(V, new) /\ ~Asks(V)
      BY <1>12, <1>13, <3>1, <3>3, <3>4
    <3> QED
      BY <1>3, <3>1, <3>5, ExchangeFrom
  <2> QED
    BY <2>1, <2>2
<1> QED
  BY <1>5, <1>6, <1>8, <1>14 DEF n, new

(* The server has carried out the request: all its outcomes are on their   *)
(* way, in one ack or two.                                                 *)
LEMMA ExchangeCarried ==
  ASSUME NEW S \in Sessions, NEW T \in Sessions, NEW box \in Seq(MessageType), Exchange(S, box),
         S.out # <<>>, Head(S.out).kind = "change", T.out = Tail(S.out),
         T.pending = S.pending, T.waiting = S.waiting,
         NEW oks \in Seq(BOOLEAN), Len(oks) = Len(Head(S.out).items), NEW new,
         \/ new = Append(box, AckMessage(oks))
         \/ \E k \in 1 .. Len(oks) - 1 :
              /\ InTwo(oks, k) /\ First(oks, k) \in Seq(BOOLEAN) /\ Rest(oks, k) \in Seq(BOOLEAN)
              /\ new = Append(Append(box, AckMessage(First(oks, k))), AckMessage(Rest(oks, k)))
  PROVE  Exchange(T, new)
<1> DEFINE P == Len(S.pending)
<1>1. Changing(S)
  <2>1. ~Asks(S)
    <3>1. S.out = <<[kind |-> "reqdata"]>> => Head(S.out) = [kind |-> "reqdata"]
      OBVIOUS
    <3>2. [kind |-> "reqdata"].kind # "change"
      OBVIOUS
    <3> QED
      BY <3>1, <3>2 DEF Asks
  <2> QED
    BY <2>1 DEF Exchange
<1>2. P \in Nat /\ Len(oks) = P /\ T.out = <<>>
  <2>1. PICK action \in Actions :
          S.out = <<[kind |-> "change", action |-> action,
                     items |-> [i \in 1 .. Len(S.pending) |-> S.pending[i].sent]]>>
    BY <1>1 DEF Changing
  <2>2. Head(S.out).items = [i \in 1 .. P |-> S.pending[i].sent] /\ Tail(S.out) = <<>>
    BY <2>1
  <2>3. P \in Nat
    BY SessionFields
  <2> HIDE DEF P
  <2>4. Len([i \in 1 .. P |-> S.pending[i].sent]) = P
    BY <2>3
  <2> QED
    BY <2>2, <2>3, <2>4
<1>3. P # 0
  <2>1. S.pending # <<>> /\ S.pending \in Seq(ChangeType)
    BY <1>1, SessionFields DEF Changing
  <2> QED
    BY <2>1
<1>4. PICK f : Linked(f, box, Nat, Acks) /\ f[0] = P /\ f[Len(box)] = P
  BY <1>1 DEF Exchange, Owing, Owed
<1> HIDE DEF P
<1> DEFINE Left(b, n) == \E g : Linked(g, b, Nat, Acks) /\ g[0] = P /\ g[Len(b)] = n
<1>5. ASSUME NEW b \in Seq(MessageType), NEW n \in Nat, NEW q \in Seq(BOOLEAN),
             Len(q) \in 1 .. n, Left(b, n)
      PROVE  /\ Append(b, AckMessage(q)) \in Seq(MessageType) /\ n - Len(q) \in Nat
             /\ Left(Append(b, AckMessage(q)), n - Len(q))
  <2> DEFINE m == AckMessage(q)
             x == n - Len(q)
  <2>1. m \in MessageType /\ m.kind = "ack" /\ m.oks = q
    BY MessageKinds
  <2>2. x \in Nat
    BY <1>5
  <2> HIDE DEF m
  <2>3. <<n, m, x>> \in Acks
    BY <1>5, <2>1, <2>2, AcksIs
  <2> HIDE DEF x
  <2>4. Append(b, m) \in Seq(MessageType)
    BY <2>1
  <2>5. \E g : Linked(g, Append(b, m), Nat, Acks) /\ g[0] = P /\ g[Len(Append(b, m))] = x
    <3>1. PICK h : Linked(h, b, Nat, Acks) /\ h[0] = P /\ h[Len(b)] = n
      BY <1>5
    <3>2. <<h[Len(b)], m, x>> \in Acks
      BY <2>3, <3>1
    <3>3. \E g : /\ Linked(g, Append(b, m), Nat, Acks)
                 /\ g[0] = h[0] /\ g[Len(Append(b, m))] = x
      <4>1. Extended(h, b, m, x, Nat, Acks)
        BY ONLY <1>5, <2>1, <2>2, <3>1, <3>2, LinkedAppend
      <4> QED
        BY <4>1 DEF Extended
    <3> QED
      BY <3>1, <3>3
  <2> QED
    BY <2>2, <2>4, <2>5 DEF m, x
<1>9. Left(box, P)
  BY <1>4
<1> HIDE DEF Left
<1>6. Left(new, 0)
  <2>1. CASE new = Append(box, AckMessage(oks))
    <3>1. Len(oks) \in 1 .. P /\ P - Len(oks) = 0
      BY <1>2, <1>3
    <3> QED
      BY <1>2, <1>5, <1>9, <2>1, <3>1
  <2>2. ASSUME NEW k \in 1 .. Len(oks) - 1, InTwo(oks, k),
               First(oks, k) \in Seq(BOOLEAN), Rest(oks, k) \in Seq(BOOLEAN),
               new = Append(Append(box, AckMessage(First(oks, k))), AckMessage(Rest(oks, k)))
        PROVE  Left(new, 0)
    <3> DEFINE a == First(oks, k)
               b == Rest(oks, k)
               mid == Append(box, AckMessage(a))
    <3>1. Len(a) = k /\ Len(b) = P - k /\ k \in 1 .. P - 1 /\ k \in Nat
      BY <1>2, <2>2 DEF InTwo
    <3>2. a \in Seq(BOOLEAN) /\ b \in Seq(BOOLEAN) /\ new = Append(mid, AckMessage(b))
      BY <2>2
    <3> HIDE DEF a, b, mid
    <3>3. Len(a) \in 1 .. P /\ Len(b) \in 1 .. (P - Len(a)) /\ (P - Len(a)) - Len(b) = 0
      BY <1>2, <3>1
    <3>4. mid \in Seq(MessageType) /\ P - Len(a) \in Nat /\ Left(mid, P - Len(a))
      BY <1>2, <1>5, <1>9, <3>2, <3>3 DEF mid
    <3>5. Left(new, (P - Len(a)) - Len(b))
      BY <1>5, <3>2, <3>3, <3>4
    <3> QED
      BY <3>3, <3>5
  <2> QED
    BY <2>1, <2>2
<1>7. ~Changing(T)
  <2>1. \A m : <<m>> # <<>>
    OBVIOUS
  <2> QED
    BY <1>2, <2>1 DEF Changing
<1>8. Owing(T, new)
  BY <1>6, <1>7 DEF Owing, Owed, P, Left
<1> QED
  BY <1>2, <1>8 DEF Exchange

(* Nothing is owed at login. *)
LEMMA AckInvInit ==
  ASSUME Init
  PROVE  AckInv
<1>1. PICK own \in Starts :
        ssi = [local |-> <<>>, official |-> <<>>, pending |-> <<>>, waiting |-> FALSE,
               received |-> FALSE, out |-> <<[kind |-> "reqdata"]>>, asked |-> {},
               own |-> [buddies |-> own.buddies, private |-> own.private], reuse |-> FALSE]
  BY DEF Init
<1>2. /\ ssi.out = <<[kind |-> "reqdata"]>> /\ ~ssi.received /\ ~ssi.waiting /\ ssi.pending = <<>>
  BY <1>1
<1>3. inbox = <<>> /\ timer = 0
  BY DEF Init
<1>4. Owing(ssi, <<>>)
  <2> DEFINE f == [n \in 0 .. 0 |-> 0]
  <2>1. Linked(f, <<>>, Nat, Acks)
    BY LinkedNone
  <2>2. f[0] = 0 /\ Len(<<>>) = 0
    OBVIOUS
  <2>3. Owed(ssi) = 0
    BY <1>2 DEF Owed, Changing
  <2>4. Len(ssi.pending) = 0
    BY <1>2
  <2> HIDE DEF f
  <2> QED
    BY <2>1, <2>2, <2>3, <2>4 DEF Owing
<1> QED
  BY <1>2, <1>3, <1>4 DEF AckInv, Exchange, Asks

(* The client has read a message. *)
LEMMA ExchangeProcessed ==
  ASSUME ssi \in Sessions, inbox \in Seq(MessageType), Processed, Exchange(ssi, inbox)
  PROVE  Exchange(ssi', Tail(inbox)) /\ Head(inbox).kind # "error"
<1> DEFINE m == Head(inbox)
           new == Tail(inbox)
<1>1. inbox # <<>>
  BY DEF Processed
<1>2. PICK S \in Sessions, T \in Sessions :
        SameButReuse(ssi, S) /\ Handled(S, T, m) /\ SameButReuse(T, ssi')
  BY DEF Processed
<1>3. ~Asks(ssi) /\ new \in Seq(MessageType)
  <2>1. Changing(ssi) \/ ssi.out = <<>>
    BY <1>1 DEF Exchange
  <2>2. Changing(ssi) => ~Asks(ssi)
    BY DEF Changing, Asks
  <2>3. \A m1 : <<m1>> # <<>>
    OBVIOUS
  <2>4. ~Asks(ssi)
    BY <2>1, <2>2, <2>3 DEF Asks
  <2>5. new \in Seq(MessageType)
    BY <1>1
  <2> QED
    BY <2>4, <2>5
<1> HIDE DEF m, new
<1>4. Exchange(S, inbox) /\ ~Asks(S)
  <2>1. /\ S.pending = ssi.pending /\ S.waiting = ssi.waiting /\ S.out = ssi.out
        /\ S.received = ssi.received
    BY <1>2 DEF SameButReuse
  <2>2. ~Asks(S)
    BY <1>3, <2>1 DEF Asks
  <2> QED
    BY <2>1, <2>2, ExchangeSame
<1>5. CASE m.kind = "ack"
  <2>1. Acked(S, T, Outcomes(S, m.oks))
    BY <1>2, <1>5 DEF Handled
  <2>2. Exchange(T, new)
    BY <1>1, <1>4, <1>5, <2>1, ExchangeAcked DEF m, new
  <2>3. Exchange(ssi', new)
    BY <1>2, <2>2, ExchangeSame DEF SameButReuse
  <2> QED
    BY <1>5, <2>3 DEF m, new
<1>6. CASE m.kind # "ack"
  <2>1. Owing(S, new) /\ m.kind # "error"
    BY <1>1, <1>4, <1>6, ExchangeRead DEF Exchange, m, new
  <2>2. Exchange(S, new)
    BY <1>4, <2>1 DEF Exchange
  <2>3. Exchange(T, new)
    <3>1. CASE m.kind = "list"
      <4>1. PICK U \in Sessions : Steady(S, U) /\ T \in From(U)
        BY <1>2, <3>1 DEF Handled
      <4>2. U.pending = S.pending /\ U.waiting = S.waiting /\ U.out = S.out
        BY <4>1 DEF Steady
      <4>3. Exchange(U, new)
        BY <1>4, <2>2, <4>2, ExchangeSame
      <4>4. ~Asks(U)
        <5>1. Asks(U) => S.out # <<>> /\ ~Changing(S)
          BY <4>2 DEF Asks, Changing
        <5> QED
          BY <1>4, <5>1 DEF Exchange
      <4> QED
        BY <1>3, <4>1, <4>3, <4>4, ExchangeFrom
    <3>2. CASE m.kind \in Actions
      <4>1. Kept(S, T)
        BY <1>2, <3>2 DEF Handled
      <4> QED
        BY <2>2, <4>1, ExchangeSame DEF Kept
    <3> QED
      BY <1>2, <1>6, <2>1, <3>1, <3>2 DEF Handled
  <2>4. Exchange(ssi', new)
    BY <1>2, <2>3, ExchangeSame DEF SameButReuse
  <2> QED
    BY <2>1, <2>4 DEF m, new
<1> QED
  BY <1>5, <1>6

(* Every step keeps the account of the outcomes that are owed. *)
LEMMA AckInvStep ==
  ASSUME TInv, AckInv, [Next]_vars
  PROVE  AckInv'
<1>0. /\ ssi \in Sessions /\ ssi.reuse = FALSE /\ server \in SUBSET ContentType
      /\ IsFiniteSet(server) /\ inbox \in Seq(MessageType) /\ turns \in Nat /\ timer \in Nat
  BY NamesAssumption DEF TInv
<1>1. CASE User
  <2>1. UserDone
    BY <1>0, <1>1, UserLemma
  <2>2. ssi.received /\ ssi' \in From(ssi) /\ Noted /\ inbox' = inbox /\ timer' = timer
    BY <2>1 DEF UserDone
  <2>3. ASSUME "error" \notin troubles' PROVE Exchange(ssi', inbox') /\ timer' = 0
    <3>1. "error" \notin troubles
      BY <2>2, <2>3 DEF Noted
    <3>2. Exchange(ssi, inbox) /\ timer = 0
      BY <3>1 DEF AckInv
    <3>3. ~Asks(ssi)
      BY <2>2 DEF Asks
    <3> QED
      BY <1>0, <2>2, <3>2, <3>3, ExchangeFrom
  <2> QED
    BY <2>3 DEF AckInv
<1>2. CASE SendList
  <2>1. ListSent
    BY <1>0, <1>2, SendListLemma
  <2>2. /\ ssi.out # <<>> /\ Head(ssi.out).kind = "reqdata"
        /\ troubles' = troubles /\ timer' = timer /\ ssi'.out = Tail(ssi.out)
        /\ ssi'.pending = ssi.pending /\ ssi'.waiting = ssi.waiting /\ ssi'.received = ssi.received
    BY <2>1 DEF ListSent, Replied
  <2>3. ASSUME "error" \notin troubles' PROVE Exchange(ssi', inbox') /\ timer' = 0
    <3>1. Exchange(ssi, inbox) /\ timer = 0
      BY <2>2, <2>3 DEF AckInv
    <3>2. ~Changing(ssi)
      <4>1. SUFFICES ASSUME Changing(ssi) PROVE FALSE
        OBVIOUS
      <4>2. PICK action \in Actions :
              ssi.out = <<[kind |-> "change", action |-> action,
                           items |-> [i \in 1 .. Len(ssi.pending) |-> ssi.pending[i].sent]]>>
        BY <4>1 DEF Changing
      <4>3. Head(ssi.out).kind = "change"
        BY <4>2
      <4> QED
        BY <2>2, <4>3
    <3>3. Asks(ssi) /\ inbox = <<>>
      BY <2>2, <3>1, <3>2 DEF Exchange
    <3>4. ssi'.out = <<>>
      BY <2>2, <3>3 DEF Asks
    <3>5. \A m : <<m>> # <<>>
      OBVIOUS
    <3>6. ~Changing(ssi')
      BY <3>4, <3>5 DEF Changing
    <3>7. Owing(ssi', inbox)
      BY <2>2, <3>1, <3>2, <3>6 DEF Exchange, Owing, Owed
    <3>8. PICK seq \in Seq(ContentType) :
            \/ inbox' = Append(inbox, ListMessage(seq, FALSE))
            \/ \E k \in 1 .. Len(seq) - 1 :
                 /\ First(seq, k) \in Seq(ContentType) /\ Rest(seq, k) \in Seq(ContentType)
                 /\ inbox' = Append(Append(inbox, ListMessage(First(seq, k), TRUE)),
                                    ListMessage(Rest(seq, k), FALSE))
      BY <2>1 DEF ListSent
    <3>9. ASSUME NEW box \in Seq(MessageType), Owing(ssi', box),
                 NEW q \in Seq(ContentType), NEW more \in BOOLEAN
          PROVE  /\ Append(box, ListMessage(q, more)) \in Seq(MessageType)
                 /\ Owing(ssi', Append(box, ListMessage(q, more)))
      <4> DEFINE m == ListMessage(q, more)
      <4>1. m \in MessageType /\ m.kind = "list"
        BY MessageKinds
      <4> HIDE DEF m
      <4>2. Append(box, m) \in Seq(MessageType) /\ Owing(ssi', Append(box, m))
        BY <3>9, <4>1, ExchangeMore
      <4> QED
        BY <4>2 DEF m
    <3>10. Owing(ssi', inbox')
      BY <1>0, <3>7, <3>8, <3>9
    <3>11. ~ssi'.waiting
      BY <2>2, <3>3 DEF Asks
    <3> QED
      BY <2>2, <3>1, <3>4, <3>10, <3>11 DEF Exchange
  <2> QED
    BY <2>3 DEF AckInv
<1>3. CASE Carry
  <2>1. Carried
    BY <1>0, <1>3, CarryLemma
  <2>2. /\ Head(ssi.out).kind = "change" /\ Replied /\ timer' = timer
        /\ ssi.out # <<>> /\ ssi' \in Sessions /\ ssi'.out = Tail(ssi.out)
        /\ ssi'.pending = ssi.pending /\ ssi'.waiting = ssi.waiting
    BY <2>1 DEF Carried, Replied
  <2>3. PICK oks \in Seq(BOOLEAN) :
          /\ Len(oks) = Len(Head(ssi.out).items)
          /\ troubles' = troubles \cup (IF FALSE \in Range(oks) THEN {"refused"} ELSE {})
          /\ \/ inbox' = Append(inbox, AckMessage(oks))
             \/ \E k \in 1 .. Len(oks) - 1 :
                  /\ InTwo(oks, k) /\ First(oks, k) \in Seq(BOOLEAN) /\ Rest(oks, k) \in Seq(BOOLEAN)
                  /\ inbox' = Append(Append(inbox, AckMessage(First(oks, k))),
                                     AckMessage(Rest(oks, k)))
    BY <2>1 DEF Carried
  <2>4. ASSUME "error" \notin troubles' PROVE Exchange(ssi', inbox') /\ timer' = 0
    <3>1. Exchange(ssi, inbox) /\ timer = 0
      BY <2>3, <2>4 DEF AckInv
    <3> QED
      BY <1>0, <2>2, <2>3, <3>1, ExchangeCarried
  <2> QED
    BY <2>4 DEF AckInv
<1>4. CASE Fail
  BY <1>0, <1>4, FailLemma DEF Failed, AckInv
<1>5. CASE OtherClient
  <2>1. Announced
    BY <1>0, <1>5, OtherClientLemma
  <2>2. PICK action \in Actions, it \in ContentType :
          /\ inbox' = Append(inbox, [kind |-> action, item |-> it])
          /\ ssi.received /\ troubles' = troubles \cup {"foreign"} /\ ssi' = ssi /\ timer' = timer
    BY <2>1 DEF Announced
  <2> DEFINE m == [kind |-> action, item |-> it]
  <2>3. m \in MessageType /\ m.kind = action
    BY MessageKinds
  <2>4. inbox' = Append(inbox, m)
    BY <2>2
  <2> HIDE DEF m
  <2>5. m.kind # "ack" /\ m.kind # "error"
    BY <2>3 DEF Actions
  <2>6. ASSUME "error" \notin troubles' PROVE Exchange(ssi', inbox') /\ timer' = 0
    <3>1. Exchange(ssi, inbox) /\ timer = 0
      BY <2>2, <2>6 DEF AckInv
    <3>2. Owing(ssi, Append(inbox, m))
      BY <1>0, <2>3, <2>5, <3>1, ExchangeMore DEF Exchange
    <3>3. ~Asks(ssi)
      BY <2>2 DEF Asks
    <3> QED
      BY <2>2, <2>4, <3>1, <3>2, <3>3 DEF Exchange
  <2> QED
    BY <2>6 DEF AckInv
<1>6. CASE Process
  <2>1. Processed
    BY <1>0, <1>6, ProcessLemma
  <2>2. /\ Noted /\ inbox' = Tail(inbox)
        /\ timer' = IF Head(inbox).kind = "error" /\ Head(inbox).busy THEN timer + 1 ELSE timer
    BY <2>1 DEF Processed
  <2>3. ASSUME "error" \notin troubles' PROVE Exchange(ssi', inbox') /\ timer' = 0
    <3>1. "error" \notin troubles
      BY <2>2, <2>3 DEF Noted
    <3>2. Exchange(ssi, inbox) /\ timer = 0
      BY <3>1 DEF AckInv
    <3> QED
      BY <1>0, <2>1, <2>2, <3>2, ExchangeProcessed
  <2> QED
    BY <2>3 DEF AckInv
<1>7. CASE gaim_ssi_rerequestdata
  <2>1. timer > 0 /\ troubles' = troubles
    BY <1>7 DEF gaim_ssi_rerequestdata
  <2> QED
    BY <1>0, <2>1 DEF AckInv
<1>8. CASE UNCHANGED vars
  BY <1>8 DEF vars, AckInv, Exchange, Owing, Owed, Asks, Changing
<1> QED
  BY <1>1, <1>2, <1>3, <1>4, <1>5, <1>6, <1>7, <1>8 DEF Next, Server

(* What is owed is on its way. *)
LEMMA AckAwaitedLemma ==
  ASSUME TInv, AckInv
  PROVE  AckAwaited
<1>1. SUFFICES ASSUME ssi.waiting, "error" \notin troubles, ~InFlight("change"), ~InFlight("ack")
               PROVE  FALSE
  BY DEF AckAwaited
<1>2. Exchange(ssi, inbox) /\ ssi \in Sessions /\ inbox \in Seq(MessageType) /\ Len(inbox) \in Nat
  BY <1>1 DEF AckInv, TInv
<1>3. ~Changing(ssi)
  <2>1. SUFFICES ASSUME Changing(ssi) PROVE FALSE
    OBVIOUS
  <2>2. PICK action \in Actions :
          ssi.out = <<[kind |-> "change", action |-> action,
                       items |-> [i \in 1 .. Len(ssi.pending) |-> ssi.pending[i].sent]]>>
    BY <2>1 DEF Changing
  <2>3. 1 \in DOMAIN ssi.out /\ ssi.out[1].kind = "change"
    BY <2>2
  <2> QED
    BY <1>1, <2>3 DEF InFlight
<1>4. PICK f : Linked(f, inbox, Nat, Acks) /\ f[0] = Len(ssi.pending) /\ f[Len(inbox)] = 0
  BY <1>2, <1>3 DEF Exchange, Owing, Owed
<1> DEFINE Q == {f[0]}
           M == {m \in MessageType : m.kind # "ack"}
<1>5. inbox \in Seq(M)
  <2>1. \A i \in 1 .. Len(inbox) : inbox[i] \in M
    BY <1>1, <1>2 DEF InFlight
  <2>2. inbox = [i \in 1 .. Len(inbox) |-> inbox[i]]
    BY <1>2
  <2> HIDE DEF M
  <2> QED
    BY <1>2, <2>1, <2>2
<1>6. ASSUME NEW a \in Nat, NEW b \in Nat, NEW msg \in M, a \in Q, <<a, msg, b>> \in Acks
      PROVE  b \in Q
  BY <1>6, AcksIs
<1>7. f[0] \in Q
  OBVIOUS
<1>8. \A n \in 0 .. Len(inbox) : f[n] \in Q
  <2> HIDE DEF Q, M
  <2> QED
    BY <1>4, <1>5, <1>6, <1>7, LinkedKeeps
<1>9. Len(ssi.pending) = 0
  BY <1>2, <1>4, <1>8
<1>10. ssi.pending = <<>>
  BY <1>2, <1>9, SessionFields
<1> QED
  BY <1>1, <1>2, <1>10 DEF Exchange

(* waiting_for_ack is set only while the request or its ack is on its way: *)
(* whatever the user and another client do meanwhile, and however the      *)
(* server cuts its answer, an ack that ends the waiting will be read.      *)
THEOREM AcksAwaited == Spec => []AckAwaited
<1>1. Init => TInv /\ AckInv
  BY TInvInit, AckInvInit
<1>2. TInv /\ AckInv /\ [Next]_vars => TInv' /\ AckInv'
  BY TInvStep, AckInvStep
<1>3. TInv /\ AckInv => AckAwaited
  BY AckAwaitedLemma
<1> QED
  BY <1>1, <1>2, <1>3, PTL DEF Spec

-----------------------------------------------------------------------------
(* A copy of the server's list: the official list has the items of a set,  *)
(* each once, and no two with the same ids.                                *)

SameIds(a, b) == a.gid = b.gid /\ a.bid = b.bid
Distinct(list) == \A i, j \in 1 .. Len(list) : SameIds(list[i], list[j]) => i = j
Mirrors(list, set) ==
  /\ Distinct(list)
  /\ \A k \in 1 .. Len(list) : Content(list[k]) \in set
  /\ \A x \in set : \E k \in 1 .. Len(list) : Content(list[k]) = x

(* What an item has and its ids. *)
LEMMA ContentIs ==
  /\ \A it \in ItemType : /\ Content(it) \in ContentType /\ SameIds(Content(it), it)
                          /\ Content(it).name = it.name /\ Content(it).type = it.type
                          /\ Content(it).data = it.data
  /\ \A it \in ContentType : Content(it) = it
  /\ \A a, b : Content(a) = Content(b) => SameIds(a, b) /\ a.type = b.type
<1>1. ASSUME NEW it \in ItemType
      PROVE  /\ Content(it) \in ContentType /\ SameIds(Content(it), it)
             /\ Content(it).name = it.name /\ Content(it).type = it.type
             /\ Content(it).data = it.data
  BY DEF Content, Item, ItemType, ContentType, SameIds
<1>2. ASSUME NEW it \in ContentType
      PROVE  Content(it) = it
  BY DEF Content, Item, ContentType
<1>3. ASSUME NEW a, NEW b, Content(a) = Content(b)
      PROVE  SameIds(a, b) /\ a.type = b.type
  <2>1. /\ Content(a).gid = a.gid /\ Content(a).bid = a.bid /\ Content(a).type = a.type
        /\ Content(b).gid = b.gid /\ Content(b).bid = b.bid /\ Content(b).type = b.type
    BY DEF Content, Item
  <2> QED
    BY <1>3, <2>1 DEF SameIds
<1> QED
  BY <1>1, <1>2, <1>3

(* Which items of a set have the ids of an item. *)
LEMMA AtIs ==
  ASSUME NEW set, NEW it
  PROVE  At(set, it) = {x \in set : SameIds(x, it)}
BY DEF At, SameIds

(* Only what an item has matters. *)
LEMMA MirrorSame ==
  ASSUME NEW list, NEW new, NEW set, SameContent(list, new), Mirrors(list, set)
  PROVE  Mirrors(new, set)
<1>1. Len(new) = Len(list) /\ \A k \in 1 .. Len(list) : Content(new[k]) = Content(list[k])
  BY DEF SameContent
<1>2. \A k \in 1 .. Len(list) : SameIds(new[k], list[k])
  BY <1>1, ContentIs
<1>3. Distinct(new)
  BY <1>1, <1>2 DEF Distinct, Mirrors, SameIds
<1>4. /\ \A k \in 1 .. Len(new) : Content(new[k]) \in set
      /\ \A x \in set : \E k \in 1 .. Len(new) : Content(new[k]) = x
  BY <1>1 DEF Mirrors
<1> QED
  BY <1>3, <1>4 DEF Mirrors

(* Nothing. *)
LEMMA MirrorNone == Mirrors(<<>>, {})
BY DEF Mirrors, Distinct

(* An item is added whose ids are new. *)
LEMMA MirrorAdded ==
  ASSUME NEW list \in Seq(ItemType), NEW new \in Seq(ItemType), NEW it, NEW p,
         InsertedAt(new, list, it, p),
         NEW set, Mirrors(list, set), At(set, Content(it)) = {}, it \in ItemType
  PROVE  Mirrors(new, set \cup {Content(it)})
<1> DEFINE N == Len(list)
           Old(k) == IF k < p THEN k ELSE k - 1
           New(k) == IF k < p THEN k ELSE k + 1
<1>1. /\ N \in Nat /\ Len(new) = N + 1 /\ p \in 1 .. N + 1 /\ new[p] = it
      /\ \A k \in 1 .. N + 1 : k # p => Old(k) \in 1 .. N /\ new[k] = list[Old(k)]
      /\ \A k \in 1 .. N : New(k) \in 1 .. N + 1 /\ New(k) # p /\ new[New(k)] = list[k]
      /\ \A j, k \in 1 .. N + 1 : j # p /\ k # p /\ Old(j) = Old(k) => j = k
  <2>1. N \in Nat /\ Len(new) = N + 1 /\ p \in 1 .. N + 1
    BY DEF InsertedAt
  <2>2. \A k \in 1 .. N + 1 :
          new[k] = IF k < p THEN list[k] ELSE IF k = p THEN it ELSE list[k - 1]
    BY DEF InsertedAt
  <2> HIDE DEF N
  <2>3. new[p] = it
    BY <2>1, <2>2
  <2>4. ASSUME NEW k \in 1 .. N + 1, k # p
        PROVE  Old(k) \in 1 .. N /\ new[k] = list[Old(k)]
    BY <2>1, <2>2, <2>4
  <2>5. ASSUME NEW k \in 1 .. N
        PROVE  New(k) \in 1 .. N + 1 /\ New(k) # p /\ new[New(k)] = list[k]
    <3>1. CASE k < p
      BY <2>1, <2>2, <3>1
    <3>2. CASE ~(k < p)
      <4>1. k + 1 \in 1 .. N + 1 /\ k + 1 # p /\ ~(k + 1 < p) /\ k + 1 - 1 = k
        BY <2>1, <3>2
      <4>2. new[k + 1] = list[k]
        BY <2>2, <4>1
      <4> QED
        BY <3>2, <4>1, <4>2
    <3> QED
      BY <3>1, <3>2
  <2>6. ASSUME NEW j \in 1 .. N + 1, NEW k \in 1 .. N + 1, j # p, k # p, Old(j) = Old(k)
        PROVE  j = k
    BY <2>1, <2>6
  <2> QED
    BY <2>1, <2>3, <2>4, <2>5, <2>6
<1> HIDE DEF N, Old, New
<1>2. ASSUME NEW k \in 1 .. N
      PROVE  ~SameIds(list[k], it)
  <2>1. Content(list[k]) \in set /\ list[k] \in ItemType
    BY DEF Mirrors, N
  <2>2. ~SameIds(Content(list[k]), Content(it))
    BY <2>1, AtIs
  <2> QED
    BY <2>1, <2>2, ContentIs DEF SameIds
<1>3. Distinct(new)
  <2> SUFFICES ASSUME NEW j \in 1 .. N + 1, NEW k \in 1 .. N + 1, SameIds(new[j], new[k])
               PROVE  j = k
    BY <1>1 DEF Distinct
  <2>1. CASE j = p
    BY <1>1, <1>2, <2>1 DEF SameIds
  <2>2. CASE k = p
    BY <1>1, <1>2, <2>2 DEF SameIds
  <2>3. CASE j # p /\ k # p
    <3>1. Old(j) = Old(k)
      <4>1. \A m, n \in 1 .. N : SameIds(list[m], list[n]) => m = n
        BY DEF Mirrors, Distinct, N
      <4> QED
        BY <1>1, <2>3, <4>1
    <3> QED
      BY <1>1, <2>3, <3>1
  <2> QED
    BY <2>1, <2>2, <2>3
<1>4. ASSUME NEW k \in 1 .. N + 1
      PROVE  Content(new[k]) \in set \cup {Content(it)}
  <2>1. \A m \in 1 .. N : Content(list[m]) \in set
    BY DEF Mirrors, N
  <2> QED
    BY <1>1, <2>1
<1>5. ASSUME NEW x \in set \cup {Content(it)}
      PROVE  \E k \in 1 .. N + 1 : Content(new[k]) = x
  <2>1. \A y \in set : \E k \in 1 .. N : Content(list[k]) = y
    BY DEF Mirrors, N
  <2>2. CASE x \in set
    BY <1>1, <2>1, <2>2
  <2>3. CASE x = Content(it)
    BY <1>1, <2>3
  <2> QED
    BY <2>2, <2>3
<1> QED
  BY <1>1, <1>3, <1>4, <1>5 DEF Mirrors

(* An item is removed. *)
LEMMA MirrorRemoved ==
  ASSUME NEW list \in Seq(ItemType), NEW p \in 1 .. Len(list), NEW set, Mirrors(list, set),
         NEW x, SameIds(x, list[p])
  PROVE  Mirrors(RemoveAt(list, p), Serve(set, "del", x))
<1> DEFINE N == Len(list)
           new == RemoveAt(list, p)
           Old(k) == IF k < p THEN k ELSE k + 1
           New(k) == IF k < p THEN k ELSE k - 1
<1>1. /\ N \in Nat /\ Len(new) = N - 1
      /\ \A k \in 1 .. N - 1 : new[k] = list[Old(k)]
  <2>1. /\ Len(new) = N - 1
        /\ \A k \in 1 .. N - 1 : new[k] = IF k < p THEN list[k] ELSE list[k + 1]
    BY RemoveAtLemma
  <2>2. N \in Nat
    OBVIOUS
  <2> HIDE DEF new, N
  <2>3. \A k \in 1 .. N - 1 : new[k] = list[Old(k)]
    BY <2>1
  <2> QED
    BY <2>1, <2>2, <2>3
<1>2. /\ \A k \in 1 .. N - 1 : Old(k) \in 1 .. N /\ Old(k) # p
      /\ \A k \in 1 .. N : k # p => New(k) \in 1 .. N - 1 /\ Old(New(k)) = k
      /\ \A j, k \in 1 .. N - 1 : Old(j) = Old(k) => j = k
  <2> HIDE DEF new
  <2>1. N \in Nat /\ p \in 1 .. N
    BY <1>1
  <2> HIDE DEF N
  <2>2. \A k \in 1 .. N - 1 : Old(k) \in 1 .. N /\ Old(k) # p
    BY <2>1
  <2>3. \A k \in 1 .. N : k # p => New(k) \in 1 .. N - 1 /\ Old(New(k)) = k
    BY <2>1
  <2>4. \A j, k \in 1 .. N - 1 : Old(j) = Old(k) => j = k
    BY <2>1
  <2> QED
    BY <2>2, <2>3, <2>4
<1>3. p \in 1 .. N /\ DOMAIN list = 1 .. N
  OBVIOUS
<1> HIDE DEF new, Old, New, N
<1>4. /\ \A j, k \in 1 .. N : SameIds(list[j], list[k]) => j = k
      /\ \A k \in 1 .. N : Content(list[k]) \in set
      /\ \A y \in set : \E k \in 1 .. N : Content(list[k]) = y
  BY DEF Mirrors, Distinct, N
<1>5. Serve(set, "del", x) = set \ At(set, x)
  BY DEF Serve
<1>6. \A k \in 1 .. N : Content(list[k]) \in At(set, x) <=> k = p
  <2> SUFFICES ASSUME NEW k \in 1 .. N
               PROVE  Content(list[k]) \in At(set, x) <=> k = p
    OBVIOUS
  <2>1. list[k] \in ItemType
    BY DEF N
  <2>2. SameIds(Content(list[k]), list[k])
    BY <2>1, ContentIs
  <2>3. Content(list[k]) \in At(set, x) <=> SameIds(list[k], x)
    BY <1>4, <2>2, AtIs DEF SameIds
  <2> QED
    BY <1>3, <1>4, <2>3 DEF SameIds
<1>7. Distinct(new)
  <2> SUFFICES ASSUME NEW j \in 1 .. N - 1, NEW k \in 1 .. N - 1, SameIds(new[j], new[k])
               PROVE  j = k
    BY <1>1 DEF Distinct
  <2>1. SameIds(list[Old(j)], list[Old(k)])
    BY <1>1
  <2>2. Old(j) = Old(k)
    BY <1>2, <1>4, <2>1
  <2> QED
    BY <1>2, <2>2
<1>8. ASSUME NEW k \in 1 .. N - 1
      PROVE  Content(new[k]) \in set \ At(set, x)
  BY <1>1, <1>2, <1>4, <1>6
<1>9. ASSUME NEW y \in set \ At(set, x)
      PROVE  \E k \in 1 .. N - 1 : Content(new[k]) = y
  <2>1. PICK k \in 1 .. N : Content(list[k]) = y
    BY <1>4
  <2>2. k # p
    BY <1>6, <2>1
  <2> QED
    BY <1>1, <1>2, <2>1, <2>2
<1>10. Mirrors(new, set \ At(set, x))
  BY <1>1, <1>7, <1>8, <1>9 DEF Mirrors
<1> QED
  BY <1>5, <1>10 DEF new

(* What one item has changes, and not its ids. *)
LEMMA MirrorChanged ==
  ASSUME NEW list \in Seq(ItemType), NEW new \in Seq(ItemType), NEW p \in 1 .. Len(list),
         NEW set, Mirrors(list, set), NEW x, SameIds(x, list[p]), Content(new[p]) = x,
         Len(new) = Len(list), \A k \in 1 .. Len(list) : k # p => new[k] = list[k]
  PROVE  Mirrors(new, Serve(set, "mod", x))
<1> DEFINE N == Len(list)
<1>1. /\ \A j, k \in 1 .. N : SameIds(list[j], list[k]) => j = k
      /\ \A k \in 1 .. N : Content(list[k]) \in set
      /\ \A y \in set : \E k \in 1 .. N : Content(list[k]) = y
  BY DEF Mirrors, Distinct
<1>2. /\ N \in Nat /\ p \in 1 .. N /\ Len(new) = N /\ \A k \in 1 .. N : k # p => new[k] = list[k]
      /\ \A k \in 1 .. N : list[k] \in ItemType /\ new[k] \in ItemType
  OBVIOUS
<1> HIDE DEF N
<1>3. \A k \in 1 .. N : SameIds(new[k], list[k])
  <2>1. SameIds(new[p], x)
    BY <1>2, ContentIs DEF SameIds
  <2> QED
    BY <1>2, <2>1 DEF SameIds
<1>4. Distinct(new)
  BY <1>1, <1>2, <1>3 DEF Distinct, SameIds
<1>5. \A k \in 1 .. N : Content(list[k]) \in At(set, x) <=> k = p
  <2> SUFFICES ASSUME NEW k \in 1 .. N
               PROVE  Content(list[k]) \in At(set, x) <=> k = p
    OBVIOUS
  <2>1. SameIds(Content(list[k]), list[k])
    BY <1>2, ContentIs
  <2>2. Content(list[k]) \in At(set, x) <=> SameIds(list[k], x)
    BY <1>1, <2>1, AtIs DEF SameIds
  <2> QED
    BY <1>1, <1>2, <2>2 DEF SameIds
<1>6. Serve(set, "mod", x) = (set \ At(set, x)) \cup {x}
  BY DEF Serve
<1>7. ASSUME NEW k \in 1 .. N
      PROVE  Content(new[k]) \in (set \ At(set, x)) \cup {x}
  BY <1>1, <1>2, <1>5
<1>8. ASSUME NEW y \in (set \ At(set, x)) \cup {x}
      PROVE  \E k \in 1 .. N : Content(new[k]) = y
  <2>1. CASE y = x
    BY <1>2, <2>1
  <2>2. CASE y # x
    <3>1. y \in set /\ y \notin At(set, x)
      BY <2>2
    <3>2. PICK k \in 1 .. N : Content(list[k]) = y
      BY <1>1, <3>1
    <3>3. k # p
      BY <1>5, <3>1, <3>2
    <3> QED
      BY <1>2, <3>2, <3>3
  <2> QED
    BY <2>1, <2>2
<1> QED
  BY <1>2, <1>4, <1>6, <1>7, <1>8 DEF Mirrors

(* An item with given ids is found if there is one. *)
LEMMA FoundByIds ==
  ASSUME NEW list \in Seq(ItemType), NEW x, NEW set, Mirrors(list, set)
  PROVE  LET j == aim_ssi_itemlist_find(list, x.gid, x.bid)
         IN  /\ j \in 0 .. Len(list)
             /\ j = 0 => At(set, x) = {}
             /\ j # 0 => j \in 1 .. Len(list) /\ SameIds(x, list[j]) /\ At(set, x) # {}
<1> DEFINE at == {i \in DOMAIN list : list[i].gid = x.gid /\ list[i].bid = x.bid}
           j == aim_ssi_itemlist_find(list, x.gid, x.bid)
<1>1. at \subseteq Nat \ {0} /\ at \subseteq 1 .. Len(list) /\ Len(list) \in Nat
      /\ \A i \in 1 .. Len(list) : i \in at <=> SameIds(x, list[i])
  BY DEF SameIds
<1>2. j = FirstOf(at)
  BY DEF aim_ssi_itemlist_find
<1> HIDE DEF at, j
<1>3. j \in at \cup {0} /\ (j = 0 <=> at = {})
  BY <1>1, <1>2, FirstOfLemma
<1>4. \A i \in 1 .. Len(list) : /\ Content(list[i]) \in set
                                /\ SameIds(Content(list[i]), list[i])
  <2>1. \A i \in 1 .. Len(list) : list[i] \in ItemType
    OBVIOUS
  <2> QED
    BY <2>1, ContentIs DEF Mirrors
<1>5. j \in 0 .. Len(list) /\ (j # 0 => j \in 1 .. Len(list) /\ SameIds(x, list[j]))
  BY <1>1, <1>3
<1>6. j # 0 => At(set, x) # {}
  BY <1>4, <1>5, AtIs DEF SameIds
<1>7. j = 0 => At(set, x) = {}
  <2> SUFFICES ASSUME j = 0, NEW y \in At(set, x)
               PROVE  FALSE
    OBVIOUS
  <2>1. y \in set /\ SameIds(y, x)
    BY AtIs
  <2>2. PICK k \in 1 .. Len(list) : Content(list[k]) = y
    BY <2>1 DEF Mirrors
  <2>3. SameIds(x, list[k])
    BY <1>4, <2>1, <2>2 DEF SameIds
  <2> QED
    BY <1>1, <1>3, <2>3
<1> QED
  BY <1>5, <1>6, <1>7 DEF j

(* An item is added to the official list. *)
LEMMA OfficialAdded ==
  ASSUME NEW S \in Sessions, NEW it \in ItemType \cup ContentType,
         NEW set, Mirrors(S.official, set), At(set, it) = {}
  PROVE  LET T == AddItem(S, "official", it)
         IN  /\ Kept(S, T) /\ T.local = S.local
             /\ Mirrors(T.official, Serve(set, "add", Content(it)))
<1> DEFINE T == AddItem(S, "official", it)
           new == NewItem(S, "official", it.name, it.gid, it.bid, it.type, it.data)
           l == Inserted(S["official"], new)
<1>1. /\ Addable(it.name, it.gid, it.bid, it.type, it.data) /\ it.gid \in Nat /\ it.bid \in Nat
      /\ "official" \in Both /\ "local" \in Both
  BY ItemsAddable DEF Addables, ItemType, ContentType, Both
<1>2. OnlyHas(S, "official", l, T)
  BY <1>1, AddedTo
<1>3. /\ new \in ItemType /\ new.name = it.name /\ new.type = it.type /\ new.data = it.data
      /\ new.gid = it.gid /\ new.bid = it.bid
  BY <1>1, NewItemType DEF Both
<1>4. Content(new) = Content(it) /\ SameIds(Content(new), it)
  <2>1. Content(new) = Content(it)
    BY <1>3 DEF Content
  <2> HIDE DEF new
  <2>2. SameIds(Content(new), new) /\ SameIds(new, it)
    BY <1>3, ContentIs DEF SameIds
  <2> QED
    BY <2>1, <2>2 DEF SameIds
<1> HIDE DEF T, new
<1>5. S["official"] \in Seq(ItemType) /\ S["official"] = S.official
  BY SessionFields
<1>6. PICK p \in 1 .. Len(S.official) + 1 : l \in Seq(ItemType) /\ InsertedAt(l, S.official, new, p)
  BY <1>3, <1>5, InsertedLemma
<1> HIDE DEF l
<1>7. At(set, Content(new)) = {}
  BY <1>4, AtIs DEF SameIds
<1>8. Mirrors(l, set \cup {Content(new)})
  BY <1>3, <1>5, <1>6, <1>7, MirrorAdded
<1>9. Serve(set, "add", Content(it)) = set \cup {Content(new)}
  BY <1>4 DEF Serve
<1>10. T.official = l /\ T.local = S.local /\ Kept(S, T)
  BY <1>1, <1>2 DEF OnlyHas
<1> QED
  BY <1>8, <1>9, <1>10 DEF T

(* An item is removed from it. *)
LEMMA OfficialRemoved ==
  ASSUME NEW S \in Sessions, NEW k \in 1 .. Len(S.official), NEW set, Mirrors(S.official, set),
         NEW x, SameIds(x, S.official[k])
  PROVE  LET T == aim_ssi_itemlist_del(S, "official", k)
         IN  /\ Kept(S, T) /\ T.local = S.local /\ T.official = RemoveAt(S.official, k)
             /\ Mirrors(T.official, Serve(set, "del", x))
<1> DEFINE T == aim_ssi_itemlist_del(S, "official", k)
           l == RemoveAt(S["official"], k)
<1>1. "official" \in Both /\ "local" \in Both /\ k \in 1 .. Len(S["official"])
      /\ S.official \in Seq(ItemType) /\ S["official"] = S.official
  BY SessionFields DEF Both
<1>2. OnlyHas(S, "official", l, T)
  BY <1>1, RemovedFrom
<1>3. Mirrors(l, Serve(set, "del", x))
  BY <1>1, MirrorRemoved
<1>4. l = RemoveAt(S.official, k)
  OBVIOUS
<1> HIDE DEF T, l
<1>5. T.official = l /\ T.local = S.local /\ Kept(S, T)
  BY <1>1, <1>2 DEF OnlyHas
<1> QED
  BY <1>3, <1>4, <1>5 DEF T

(* Two lists with the same ids and types. *)
SameKinds(list, new) ==
  Len(new) = Len(list)
    /\ \A k \in 1 .. Len(list) : SameIds(new[k], list[k]) /\ new[k].type = list[k].type

(* parseack copies a name and data to it, parsemod all of an item. *)
LEMMA OfficialReplaced ==
  ASSUME NEW S \in Sessions, NEW it \in ItemType \cup ContentType,
         NEW j \in 1 .. Len(S.official), NEW set, Mirrors(S.official, set),
         SameIds(it, S.official[j])
  PROVE  /\ LET T == [S EXCEPT !["official"][j].type = it.type, !["official"][j].name = it.name,
                               !["official"][j].data = it.data]
            IN  Kept(S, T) /\ Mirrors(T.official, Serve(set, "mod", Content(it)))
         /\ it.type = S.official[j].type =>
              LET T == [S EXCEPT !["official"][j].name = it.name, !["official"][j].data = it.data]
              IN  /\ Kept(S, T) /\ T.local = S.local /\ SameKinds(S.official, T.official)
                  /\ Mirrors(T.official, Serve(set, "mod", Content(it)))
<1> DEFINE L == S.official
           a == [L EXCEPT ![j].type = it.type, ![j].name = it.name, ![j].data = it.data]
           b == [L EXCEPT ![j].name = it.name, ![j].data = it.data]
           A == [S EXCEPT !["official"][j].type = it.type, !["official"][j].name = it.name,
                          !["official"][j].data = it.data]
           B == [S EXCEPT !["official"][j].name = it.name, !["official"][j].data = it.data]
<1>1. /\ "official" \in Both /\ "local" \in Both /\ L \in Seq(ItemType) /\ S["official"] = L
      /\ it.type \in Types /\ it.name \in Called /\ it.data \in SUBSET Tlvs
      /\ j \in 1 .. Len(S["official"])
  BY SessionFields DEF Both, ItemType, ContentType
<1>2. OnlyHas(S, "official", a, A) /\ OnlyHas(S, "official", b, B)
  BY <1>1, ReplacedIn
<1>3. L[j] \in ItemType
  BY <1>1
<1> HIDE DEF A, B
<1> DEFINE x == [L[j] EXCEPT !.type = it.type, !.name = it.name, !.data = it.data]
           y == [L[j] EXCEPT !.name = it.name, !.data = it.data]
<1>4. a = [L EXCEPT ![j] = x] /\ b = [L EXCEPT ![j] = y]
  BY <1>1
<1>5. /\ x \in ItemType /\ Content(x) = Content(it)
      /\ y \in ItemType /\ SameIds(y, L[j]) /\ y.type = L[j].type
      /\ it.type = L[j].type => Content(y) = Content(it)
  <2>1. it.gid = L[j].gid /\ it.bid = L[j].bid
    BY DEF SameIds
  <2>2. /\ x.name = it.name /\ x.type = it.type /\ x.data = it.data /\ x.gid = it.gid
        /\ x.bid = it.bid /\ x \in ItemType
        /\ y.name = it.name /\ y.type = L[j].type /\ y.data = it.data /\ y.gid = it.gid
        /\ y.bid = it.bid /\ y \in ItemType
    BY <1>1, <1>3, <2>1 DEF ItemType
  <2> HIDE DEF x, y, L
  <2> QED
    BY <2>1, <2>2 DEF Content, SameIds
<1> HIDE DEF x, y
<1>6. /\ a \in Seq(ItemType) /\ Len(a) = Len(L) /\ a[j] = x /\ \A k \in 1 .. Len(L) : k # j => a[k] = L[k]
      /\ b \in Seq(ItemType) /\ Len(b) = Len(L) /\ b[j] = y /\ \A k \in 1 .. Len(L) : k # j => b[k] = L[k]
  <2> HIDE DEF a, b
  <2>1. L \in Seq(ItemType) /\ j \in 1 .. Len(L) /\ x \in ItemType /\ y \in ItemType
    BY <1>1, <1>5
  <2> HIDE DEF L
  <2> QED
    BY <1>4, <2>1
<1> HIDE DEF a, b
<1>7. SameIds(Content(it), L[j])
  BY <1>5, ContentIs DEF SameIds
<1>8. /\ Mirrors(a, Serve(set, "mod", Content(it)))
      /\ it.type = L[j].type => Mirrors(b, Serve(set, "mod", Content(it)))
  <2>0. L \in Seq(ItemType) /\ j \in 1 .. Len(L) /\ Mirrors(L, set)
    BY <1>1
  <2> DEFINE z == Content(it)
  <2>1. SameIds(z, L[j]) /\ Content(a[j]) = z
    BY <1>5, <1>6, <1>7
  <2>2. it.type = L[j].type => Content(b[j]) = z
    BY <1>5, <1>6
  <2> HIDE DEF z, L
  <2>3. Mirrors(a, Serve(set, "mod", z))
    BY <1>6, <2>0, <2>1, MirrorChanged
  <2>4. it.type = L[j].type => Mirrors(b, Serve(set, "mod", z))
    BY <1>6, <2>0, <2>1, <2>2, MirrorChanged
  <2> QED
    BY <2>3, <2>4 DEF z
<1>9. SameKinds(L, b)
  <2> HIDE DEF L
  <2> QED
    BY <1>5, <1>6 DEF SameKinds, SameIds
<1>10. /\ A.official = a /\ Kept(S, A)
       /\ B.official = b /\ B.local = S.local /\ Kept(S, B)
  BY <1>1, <1>2 DEF OnlyHas
<1> QED
  BY <1>8, <1>9, <1>10 DEF A, B, L

(* What another client has done to the server's list is done to it. *)
LEMMA ForeignMirrored ==
  ASSUME NEW S \in Sessions, NEW msg \in MessageType, msg.kind \in Actions,
         NEW set, Mirrors(S.official, set),
         msg.kind = "add" => At(set, msg.item) = {}, msg.kind = "mod" => At(set, msg.item) # {}
  PROVE  Mirrors(Received(S, msg).official, Serve(set, msg.kind, msg.item))
<1> DEFINE it == msg.item
           j(T) == aim_ssi_itemlist_find(T["official"], it.gid, it.bid)
<1>1. it \in ContentType /\ "local" \in Both /\ "official" \in Both
  BY DEF MessageType, Actions, Both
<1> HIDE DEF it
<1>2. /\ Addable(it.name, it.gid, it.bid, it.type, it.data) /\ Content(it) = it
      /\ it.type \in Types /\ it.name \in Called /\ it.data \in SUBSET Tlvs
  BY <1>1, ItemsAddable, ContentIs DEF Addables, ContentType
<1>3. ASSUME NEW T \in Sessions, T["official"] = S["official"]
      PROVE  /\ Mirrors(T.official, set) /\ T.official \in Seq(ItemType)
             /\ j(T) \in 0 .. Len(T.official)
             /\ j(T) = 0 => At(set, it) = {}
             /\ j(T) # 0 => j(T) \in 1 .. Len(T.official) /\ SameIds(it, T.official[j(T)])
                            /\ At(set, it) # {}
  BY <1>3, SessionFields, FoundByIds
<1> DEFINE l == aim_ssi_itemlist_find(S["local"], it.gid, it.bid)
<1>l. l \in 0 .. Len(S["local"]) /\ Len(S["local"]) \in Nat
  <2>1. S["local"] \in Seq(ItemType)
    BY SessionFields
  <2> QED
    BY <2>1, FoundAt
<1> HIDE DEF j, l
<1>4. CASE msg.kind = "add"
  <2> DEFINE T == AddItem(S, "local", it)
  <2>1. OnlyHas(S, "local", Inserted(S["local"], NewItem(S, "local", it.name, it.gid, it.bid, it.type, it.data)), T)
    BY <1>1, <1>2, AddedTo
  <2> HIDE DEF T
  <2>2. T \in Sessions /\ T["official"] = S["official"]
    BY <1>1, <2>1 DEF OnlyHas, Kept
  <2>3. Mirrors(T.official, set)
    BY <1>3, <2>2
  <2>4. Mirrors(AddItem(T, "official", it).official, Serve(set, "add", Content(it)))
    BY <1>1, <1>4, <2>2, <2>3, OfficialAdded DEF it
  <2>5. Received(S, msg) = AddItem(T, "official", it)
    BY <1>4 DEF Received, parseadd, T, it
  <2> QED
    BY <1>2, <1>4, <2>4, <2>5 DEF it
<1>5. CASE msg.kind = "mod"
  <2> DEFINE T == Replace(S, "local", it)
             i == j(T)
  <2>1. T \in Sessions /\ T["official"] = S["official"]
    <3>1. T = IF l = 0 THEN S
              ELSE [S EXCEPT !["local"][l].type = it.type, !["local"][l].name = it.name,
                             !["local"][l].data = it.data]
      BY DEF Replace, l
    <3>2. CASE l = 0
      BY <3>1, <3>2
    <3>3. CASE l # 0
      <4>1. l \in 1 .. Len(S["local"])
        BY <1>l, <3>3
      <4> DEFINE U == [S EXCEPT !["local"][l].type = it.type, !["local"][l].name = it.name,
                                !["local"][l].data = it.data]
      <4>2. OnlyHas(S, "local", [S["local"] EXCEPT ![l].type = it.type, ![l].name = it.name,
                                                  ![l].data = it.data], U)
        BY <1>1, <1>2, <4>1, ReplacedIn
      <4> HIDE DEF U
      <4>3. U \in Sessions /\ U["official"] = S["official"]
        BY <1>1, <4>2 DEF OnlyHas, Kept
      <4> QED
        BY <3>1, <3>3, <4>3 DEF U
    <3> QED
      BY <3>2, <3>3
  <2> HIDE DEF T
  <2>2. /\ Mirrors(T.official, set) /\ i \in 1 .. Len(T.official) /\ SameIds(it, T.official[i])
        /\ i # 0
    BY <1>3, <1>5, <2>1 DEF it
  <2>3. Received(S, msg) = [T EXCEPT !["official"][i].type = it.type, !["official"][i].name = it.name,
                                     !["official"][i].data = it.data]
    BY <1>5, <2>2 DEF Received, parsemod, Replace, T, it, j
  <2> HIDE DEF i
  <2>4. Mirrors([T EXCEPT !["official"][i].type = it.type, !["official"][i].name = it.name,
                          !["official"][i].data = it.data].official, Serve(set, "mod", Content(it)))
    BY <1>1, <2>1, <2>2, OfficialReplaced
  <2> QED
    BY <1>2, <1>5, <2>3, <2>4 DEF it
<1>6. CASE msg.kind = "del"
  <2> DEFINE T == Without(S, "local", it)
             i == j(T)
  <2>1. T \in Sessions /\ T["official"] = S["official"]
    <3>1. T = IF l = 0 THEN S ELSE aim_ssi_itemlist_del(S, "local", l)
      BY DEF Without, l
    <3>2. CASE l = 0
      BY <3>1, <3>2
    <3>3. CASE l # 0
      <4>1. l \in 1 .. Len(S["local"])
        BY <1>l, <3>3
      <4> DEFINE U == aim_ssi_itemlist_del(S, "local", l)
      <4>2. OnlyHas(S, "local", RemoveAt(S["local"], l), U)
        BY <1>1, <4>1, RemovedFrom
      <4> HIDE DEF U
      <4>3. U \in Sessions /\ U["official"] = S["official"]
        BY <1>1, <4>2 DEF OnlyHas, Kept
      <4> QED
        BY <3>1, <3>3, <4>3 DEF U
    <3> QED
      BY <3>2, <3>3
  <2> HIDE DEF T
  <2>2. Received(S, msg) = IF i = 0 THEN T ELSE aim_ssi_itemlist_del(T, "official", i)
    BY <1>6 DEF Received, parsedel, Without, T, it, j
  <2>3. CASE i = 0
    <3>1. Mirrors(T.official, set) /\ At(set, it) = {}
      BY <1>3, <2>1, <2>3
    <3>2. Serve(set, "del", it) = set
      BY <3>1 DEF Serve
    <3> QED
      BY <1>6, <2>2, <2>3, <3>1, <3>2 DEF it
  <2>4. CASE i # 0
    <3>1. Mirrors(T.official, set) /\ i \in 1 .. Len(T.official) /\ SameIds(it, T.official[i])
      BY <1>3, <2>1, <2>4
    <3> HIDE DEF i
    <3>2. Mirrors(aim_ssi_itemlist_del(T, "official", i).official, Serve(set, "del", it))
      BY <2>1, <3>1, OfficialRemoved
    <3> QED
      BY <1>6, <2>2, <2>4, <3>2 DEF it
  <2> QED
    BY <2>3, <2>4
<1> QED
  BY <1>4, <1>5, <1>6 DEF Actions

-----------------------------------------------------------------------------
(* Outcomes are applied to the copy as the server applied the changes to   *)
(* its list, if the items of the request are as they were when it was sent.*)

(* All pending changes are of one kind. *)
OneKind(S) ==
  \E action \in Actions : \A i \in 1 .. Len(S.pending) : S.pending[i].action = action

(* The item of a pending change is there as it was sent, and parseack will *)
(* find its type in the copy.                                              *)
Ready(S, i) ==
  LET list == S[Home(S.pending[i].action)]
      sent == S.pending[i].sent
  IN  /\ \E k \in 1 .. Len(list) : list[k].ref = i /\ Content(list[k]) = sent
      /\ S.pending[i].action = "mod" =>
           \A k \in 1 .. Len(S.official) :
             SameIds(S.official[k], sent) => S.official[k].type = sent.type

(* While nothing is disturbed or retyped, all pending changes are ready. *)
LEMMA AllReady ==
  ASSUME NEW S \in Sessions, ~Disturbed(S), ~Retyped(S), Distinct(S.official),
         NEW i \in 1 .. Len(S.pending)
  PROVE  Ready(S, i)
<1> DEFINE which == Home(S.pending[i].action)
           list == S[which]
           sent == S.pending[i].sent
<1>1. DOMAIN S.pending = 1 .. Len(S.pending) /\ S.official \in Seq(ItemType)
  BY SessionFields
<1>2. which \in Both
  BY ItemOfLemma
<1>3. DOMAIN list = 1 .. Len(list)
  BY <1>2, ListOf
<1>4. \E k \in 1 .. Len(list) : list[k].ref = i /\ Content(list[k]) = sent
  BY <1>1, <1>3 DEF Disturbed
<1>5. ASSUME NEW k \in 1 .. Len(S.official), SameIds(S.official[k], sent)
      PROVE  S.official[k].type = sent.type
  <2> DEFINE old == aim_ssi_itemlist_find(S.official, sent.gid, sent.bid)
             at == {n \in DOMAIN S.official : S.official[n].gid = sent.gid /\ S.official[n].bid = sent.bid}
  <2>1. old = FirstOf(at)
    BY DEF aim_ssi_itemlist_find
  <2>2. at \subseteq Nat \ {0} /\ k \in at
        /\ \A n \in at : n \in 1 .. Len(S.official) /\ SameIds(S.official[n], sent)
    BY <1>1, <1>5 DEF SameIds
  <2>3. old # 0 => S.official[old].type = sent.type
    BY <1>1 DEF Retyped
  <2> HIDE DEF old, at
  <2>4. old \in at \cup {0} /\ old # 0
    BY <2>1, <2>2, FirstOfLemma
  <2>5. old = k
    BY <1>5, <2>2, <2>4 DEF Distinct, SameIds
  <2> QED
    BY <2>3, <2>4, <2>5
<1> QED
  BY <1>4, <1>5 DEF Ready

(* Items other than the one at a position stay when it is removed. *)
LEMMA OthersStay ==
  ASSUME NEW list \in Seq(ItemType), NEW p \in 1 .. Len(list), NEW k \in 1 .. Len(list), k # p
  PROVE  \E m \in 1 .. Len(RemoveAt(list, p)) : RemoveAt(list, p)[m] = list[k]
<1> DEFINE new == RemoveAt(list, p)
           N == Len(list)
<1>1. Len(new) = N - 1
      /\ \A m \in 1 .. N - 1 : new[m] = IF m < p THEN list[m] ELSE list[m + 1]
  BY RemoveAtLemma
<1>2. N \in Nat /\ p \in 1 .. N /\ k \in 1 .. N
  OBVIOUS
<1> HIDE DEF new, N
<1>3. CASE k < p
  <2>1. k \in 1 .. N - 1 /\ new[k] = list[k]
    BY <1>1, <1>2, <1>3
  <2> QED
    BY <1>1, <2>1 DEF new
<1>4. CASE ~(k < p)
  <2>1. k - 1 \in 1 .. N - 1 /\ ~(k - 1 < p) /\ k - 1 + 1 = k
    BY <1>2, <1>4
  <2>2. new[k - 1] = list[k]
    BY <1>1, <2>1
  <2> QED
    BY <1>1, <2>1, <2>2 DEF new
<1> QED
  BY <1>3, <1>4

(* One outcome: a is the server's list before the change, b after it. *)
AckedRight(S, T, i, b) ==
  /\ Mirrors(T.official, b)
  /\ \A j \in 1 .. Len(S.pending) : j # i /\ Ready(S, j) => Ready(T, j)
LEMMA AckOneRight ==
  ASSUME NEW S \in Sessions, OneKind(S), NEW i \in 1 .. Len(S.pending), Ready(S, i), NEW ok \in BOOLEAN,
         NEW a, NEW b, Mirrors(S.official, a),
         Outcome(a, b, S.pending[i].action, S.pending[i].sent, ok)
  PROVE  AckedRight(S, AckOne(S, i, ok), i, b)
<1> DEFINE action == S.pending[i].action
           sent == S.pending[i].sent
           list == S[Home(action)]
           k == ItemOf(S, i)
           it == list[k]
           T == AckOne(S, i, ok)
<1>1. /\ action \in Actions /\ Home(action) \in Both /\ S.pending[i] \in ChangeType
      /\ k \in 0 .. Len(list)
      /\ k = 0 => \A n \in 1 .. Len(list) : list[n].ref # i
      /\ k # 0 => k \in 1 .. Len(list) /\ it \in ItemType /\ it.ref = i
  BY ItemOfLemma
<1>2. Fits(list, Len(S.pending)) /\ list \in Seq(ItemType) /\ S.official \in Seq(ItemType)
      /\ Len(S.pending) \in Nat
  BY <1>1, ListOf, SessionFields
<1>3. k # 0 /\ Content(it) = sent /\ sent \in ContentType
  <2>1. PICK n \in 1 .. Len(list) : list[n].ref = i /\ Content(list[n]) = sent
    BY DEF Ready
  <2>2. k # 0 /\ k \in 1 .. Len(list) /\ it.ref = i
    BY <1>1, <2>1
  <2> HIDE DEF list, k
  <2>3. n = k
    BY <1>2, <2>1, <2>2 DEF Fits
  <2> QED
    BY <1>1, <2>1, <2>2, <2>3 DEF ChangeType
<1>4. /\ ok /\ action = "add" => T = AddItem(S, "official", it)
      /\ ok /\ action = "mod" => T = NameAndData(S, "official", it)
      /\ ok /\ action = "del" => T = aim_ssi_itemlist_del(S, "official", k)
      /\ ~ok /\ action = "add" => T = aim_ssi_itemlist_del(Prompt(S, it), "local", k)
      /\ ~ok /\ action = "mod" => T = RestoreAt(S, k)
      /\ ~ok /\ action = "del" => T = AddItem(S, "local", it)
  <2> DEFINE A == AddItem(S, "official", it)
             B == NameAndData(S, "official", it)
             C == aim_ssi_itemlist_del(S, "official", k)
             D == aim_ssi_itemlist_del(Prompt(S, it), "local", k)
             E == RestoreAt(S, k)
             F == AddItem(S, "local", it)
  <2>1. T =
          CASE k = 0 -> S
            [] k # 0 /\ ok /\ action = "add" -> A
            [] k # 0 /\ ok /\ action = "mod" -> B
            [] k # 0 /\ ok /\ action = "del" -> C
            [] k # 0 /\ ~ok /\ action = "add" -> D
            [] k # 0 /\ ~ok /\ action = "mod" -> E
            [] k # 0 /\ ~ok /\ action = "del" -> F
    BY DEF AckOne, ItemOf
  <2>2. k # 0
    BY <1>3
  <2> HIDE DEF A, B, C, D, E, F, k, action, T
  <2>3. ok /\ action = "add" => T = A
    BY <2>1, <2>2
  <2>4. ok /\ action = "mod" => T = B
    BY <2>1, <2>2
  <2>5. ok /\ action = "del" => T = C
    BY <2>1, <2>2
  <2>6. ~ok /\ action = "add" => T = D
    BY <2>1, <2>2
  <2>7. ~ok /\ action = "mod" => T = E
    BY <2>1, <2>2
  <2>8. ~ok /\ action = "del" => T = F
    BY <2>1, <2>2
  <2> QED
    BY <2>3, <2>4, <2>5, <2>6, <2>7, <2>8 DEF A, B, C, D, E, F
<1>5. /\ ok => (action = "add") = (At(a, sent) = {}) /\ b = Serve(a, action, sent)
      /\ ~ok => b = a
  BY DEF Outcome
<1>6. \A j \in 1 .. Len(S.pending) : S.pending[j].action = action
  BY DEF OneKind
<1>7. T \in Sessions /\ T.pending = S.pending
  BY AckOneLemma DEF Kept
<1>8. SameIds(it, sent) /\ it.type = sent.type
  <2> HIDE DEF it, sent
  <2>1. Content(sent) = sent
    BY <1>3, ContentIs
  <2> QED
    BY <1>3, <2>1, ContentIs
<1> HIDE DEF T, k
(* Whatever becomes of the official list, changes are ready if their items *)
(* are still there.                                                        *)
<1>9. ASSUME NEW j \in 1 .. Len(S.pending), Ready(S, j),
             \A x \in ItemType : x.ref = j /\ (\E n \in 1 .. Len(list) : list[n] = x) =>
                 \E n \in 1 .. Len(T[Home(action)]) : T[Home(action)][n] = x,
             action = "mod" => SameKinds(S.official, T.official)
      PROVE  Ready(T, j)
  <2> DEFINE mine == S.pending[j].sent
             new == T[Home(action)]
  <2>1. S.pending[j].action = action /\ T.pending[j] = S.pending[j]
    BY <1>6, <1>7
  <2>2. PICK n \in 1 .. Len(list) : list[n].ref = j /\ Content(list[n]) = mine
    BY <1>9, <2>1 DEF Ready
  <2>3. list[n] \in ItemType
    BY <1>2
  <2>4. \E m \in 1 .. Len(new) : new[m] = list[n]
    BY <1>9, <2>2, <2>3
  <2>5. \E m \in 1 .. Len(new) : new[m].ref = j /\ Content(new[m]) = mine
    BY <2>2, <2>4
  <2>6. action = "mod" => \A m \in 1 .. Len(T.official) :
          SameIds(T.official[m], mine) => T.official[m].type = mine.type
    BY <1>9, <2>1 DEF Ready, SameKinds, SameIds
  <2> QED
    BY <2>1, <2>5, <2>6 DEF Ready
<1>10. CASE ok /\ action = "add"
  <2>1. T = AddItem(S, "official", it) /\ Home(action) = "local" /\ At(a, sent) = {}
    BY <1>4, <1>5, <1>10 DEF Home
  <2>2. At(a, it) = {}
    BY <1>8, <2>1, AtIs DEF SameIds
  <2>3. it \in ItemType
    BY <1>1, <1>3
  <2> HIDE DEF it
  <2>4. T.local = S.local /\ Mirrors(T.official, Serve(a, "add", Content(it)))
    BY <2>1, <2>2, <2>3, OfficialAdded
  <2>5. Mirrors(T.official, b)
    BY <1>3, <1>5, <1>10, <2>4 DEF it
  <2>6. T[Home(action)] = list
    BY <2>1, <2>4
  <2> QED
    BY <1>9, <1>10, <2>5, <2>6 DEF AckedRight, T
<1>11. CASE ok /\ action = "mod"
  <2> DEFINE m == aim_ssi_itemlist_find(S.official, it.gid, it.bid)
  <2>1. T = NameAndData(S, "official", it) /\ Home(action) = "local" /\ At(a, sent) # {}
    BY <1>4, <1>5, <1>11 DEF Home
  <2>2. At(a, it) # {}
    BY <1>8, <2>1, AtIs DEF SameIds
  <2>3. it \in ItemType
    BY <1>1, <1>3
  <2> HIDE DEF it
  <2>4. m # 0 /\ m \in 1 .. Len(S.official) /\ SameIds(it, S.official[m])
    BY <1>2, <2>2, FoundByIds
  <2>5. it.type = S.official[m].type
    <3>1. SameIds(S.official[m], sent)
      BY <1>8, <2>4 DEF SameIds
    <3> QED
      BY <1>8, <1>11, <2>4, <3>1 DEF Ready
  <2>6. T = [S EXCEPT !["official"][m].name = it.name, !["official"][m].data = it.data]
    BY <2>1, <2>4 DEF NameAndData
  <2> HIDE DEF m
  <2>7. /\ T.local = S.local /\ SameKinds(S.official, T.official)
        /\ Mirrors(T.official, Serve(a, "mod", Content(it)))
    BY <2>3, <2>4, <2>5, <2>6, OfficialReplaced
  <2>8. Mirrors(T.official, b)
    BY <1>3, <1>5, <1>11, <2>7 DEF it
  <2>9. T[Home(action)] = list
    BY <2>1, <2>7
  <2> QED
    BY <1>9, <2>7, <2>8, <2>9 DEF AckedRight, T
<1>12. CASE ok /\ action = "del"
  <2>1. T = aim_ssi_itemlist_del(S, "official", k) /\ Home(action) = "official"
    BY <1>4, <1>12 DEF Home
  <2>2. list = S.official
    BY <2>1
  <2>3. k \in 1 .. Len(S.official) /\ SameIds(sent, S.official[k]) /\ S.official[k].ref = i
    BY <1>1, <1>3, <1>8, <2>2 DEF SameIds
  <2>4. Mirrors(T.official, Serve(a, "del", sent)) /\ T.official = RemoveAt(S.official, k)
    BY <2>1, <2>3, OfficialRemoved
  <2>5. Mirrors(T.official, b)
    BY <1>5, <1>12, <2>4
  <2>6. T[Home(action)] = RemoveAt(list, k)
    BY <2>1, <2>2, <2>4
  <2>7. ASSUME NEW j \in 1 .. Len(S.pending), j # i,
               NEW x \in ItemType, x.ref = j, \E n \in 1 .. Len(list) : list[n] = x
        PROVE  \E n \in 1 .. Len(T[Home(action)]) : T[Home(action)][n] = x
    <3>1. PICK n \in 1 .. Len(list) : list[n] = x
      BY <2>7
    <3>2. n # k
      BY <2>2, <2>3, <2>7, <3>1
    <3> QED
      BY <1>2, <2>2, <2>3, <2>6, <3>1, <3>2, OthersStay
  <2> QED
    BY <1>9, <1>12, <2>5, <2>7 DEF AckedRight, T
<1>13. CASE ~ok /\ action = "add"
  <2> DEFINE P == Prompt(S, it)
  <2>1. T = aim_ssi_itemlist_del(P, "local", k) /\ Home(action) = "local"
    BY <1>4, <1>13 DEF Home
  <2>2. list = S.local /\ it \in ItemType /\ k \in 1 .. Len(list) /\ it.ref = i
    BY <1>1, <1>3, <2>1
  <2>3. P \in Sessions /\ P.official = S.official /\ P.local = S.local
    BY <2>2, PromptLemma DEF Edited, Kept
  <2> HIDE DEF P
  <2>4. k \in 1 .. Len(P["local"]) /\ "local" \in Both /\ "official" \in Both
    BY <2>2, <2>3 DEF Both
  <2>5. OnlyHas(P, "local", RemoveAt(P["local"], k), T)
    BY <2>1, <2>3, <2>4, RemovedFrom
  <2>6. T.official = S.official /\ T[Home(action)] = RemoveAt(list, k)
    BY <2>1, <2>2, <2>3, <2>4, <2>5 DEF OnlyHas
  <2>7. ASSUME NEW j \in 1 .. Len(S.pending), j # i,
               NEW x \in ItemType, x.ref = j, \E n \in 1 .. Len(list) : list[n] = x
        PROVE  \E n \in 1 .. Len(T[Home(action)]) : T[Home(action)][n] = x
    <3>1. PICK n \in 1 .. Len(list) : list[n] = x
      BY <2>7
    <3>2. n # k
      BY <2>2, <2>7, <3>1
    <3> QED
      BY <1>2, <2>2, <2>6, <3>1, <3>2, OthersStay
  <2> QED
    BY <1>5, <1>9, <1>13, <2>6, <2>7 DEF AckedRight, T
<1>14. CASE ~ok /\ action = "mod"
  <2> DEFINE m == aim_ssi_itemlist_find(S.official, S.local[k].gid, S.local[k].bid)
             x == S.official[m]
  <2>1. T = RestoreAt(S, k) /\ Home(action) = "local"
    BY <1>4, <1>14 DEF Home
  <2>2. list = S.local /\ k \in 1 .. Len(S["local"]) /\ S["local"] = S.local
        /\ "local" \in Both /\ "official" \in Both
    BY <1>1, <1>3, <2>1 DEF Both
  <2>3. m \in 0 .. Len(S.official) /\ Len(S.official) \in Nat
    BY <1>2, FoundAt
  <2>4. T = IF m = 0 THEN S
            ELSE [S EXCEPT !["local"][k].name = x.name, !["local"][k].data = x.data]
    BY <2>1 DEF RestoreAt
  <2> HIDE DEF m
  <2>5. /\ T.official = S.official
        /\ \A n \in 1 .. Len(list) : n # k => n \in 1 .. Len(T.local) /\ T.local[n] = list[n]
    <3>1. CASE m = 0
      BY <2>2, <2>4, <3>1
    <3>2. CASE m # 0
      <4>1. x \in ItemType
        BY <1>2, <2>3, <3>2
      <4> HIDE DEF x
      <4>2. x.name \in Called /\ x.data \in SUBSET Tlvs /\ x.type \in Types
        BY <4>1 DEF ItemType
      <4> DEFINE l == [S["local"] EXCEPT ![k].name = x.name, ![k].data = x.data]
      <4> DEFINE U == [S EXCEPT !["local"][k].name = x.name, !["local"][k].data = x.data]
      <4>u. OnlyHas(S, "local", l, U)
        BY <2>2, <4>2, ReplacedIn
      <4>v. T = U
        BY <2>4, <3>2 DEF x
      <4> HIDE DEF U
      <4>3. OnlyHas(S, "local", l, T)
        BY <4>u, <4>v
      <4>4. Len(l) = Len(list) /\ \A n \in 1 .. Len(list) : n # k => l[n] = list[n]
        BY <1>2, <2>2
      <4> HIDE DEF l
      <4>5. T.official = S.official /\ T.local = l
        BY <2>2, <4>3 DEF OnlyHas
      <4> QED
        BY <4>4, <4>5
    <3> QED
      BY <3>1, <3>2
  <2>6. ASSUME NEW j \in 1 .. Len(S.pending), j # i,
               NEW y \in ItemType, y.ref = j, \E n \in 1 .. Len(list) : list[n] = y
        PROVE  \E n \in 1 .. Len(T[Home(action)]) : T[Home(action)][n] = y
    <3>1. PICK n \in 1 .. Len(list) : list[n] = y
      BY <2>6
    <3>2. n # k
      BY <1>1, <1>3, <2>6, <3>1
    <3>3. T[Home(action)] = T.local
      BY <2>1
    <3> QED
      BY <2>5, <3>1, <3>2, <3>3
  <2>7. SameKinds(S.official, T.official)
    BY <2>5 DEF SameKinds, SameIds
  <2> QED
    BY <1>5, <1>9, <1>14, <2>5, <2>6, <2>7 DEF AckedRight, T
<1>15. CASE ~ok /\ action = "del"
  <2>1. T = AddItem(S, "local", it) /\ Home(action) = "official"
    BY <1>4, <1>15 DEF Home
  <2>2. it \in ItemType
    BY <1>1, <1>3
  <2> HIDE DEF it
  <2>3. Addable(it.name, it.gid, it.bid, it.type, it.data) /\ "local" \in Both /\ "official" \in Both
    BY <2>2, ItemsAddable DEF Addables, Both
  <2> DEFINE l == Inserted(S["local"], NewItem(S, "local", it.name, it.gid, it.bid, it.type, it.data))
  <2>4. OnlyHas(S, "local", l, T)
    BY <2>1, <2>3, AddedTo
  <2> HIDE DEF l
  <2>5. T["official"] = S["official"]
    BY <2>3, <2>4 DEF OnlyHas
  <2>6. T.official = S.official /\ T[Home(action)] = list
    BY <2>1, <2>5
  <2> QED
    BY <1>5, <1>9, <1>15, <2>6 DEF AckedRight, T
<1> QED
  BY <1>1, <1>10, <1>11, <1>12, <1>13, <1>14, <1>15 DEF Actions, T

(* Each outcome of a request in turn: g is the server's list, before the   *)
(* request and after each change of it.                                    *)
Chain(g, rest, oks, n) ==
  \A i \in 1 .. n : Outcome(g[i - 1], g[i], rest[i].action, rest[i].sent, oks[i])
LEMMA AckAllRight ==
  ASSUME NEW S \in Sessions, OneKind(S), \A j \in 1 .. Len(S.pending) : Ready(S, j),
         NEW oks \in Seq(BOOLEAN), NEW n \in 0 .. Len(S.pending), n <= Len(oks),
         NEW g, Chain(g, S.pending, oks, n), Mirrors(S.official, g[0])
  PROVE  Mirrors(AckAll(S, oks, n).official, g[n])
<1> DEFINE seq == [i \in 1 .. n |-> i]
           T == AckedBy(S, oks, seq)
           P == Len(S.pending)
<1>1. seq \in Seq(Nat) /\ Len(seq) = n /\ \A i \in 1 .. n : seq[i] = i
  OBVIOUS
<1>2. AckAll(S, oks, n) = Forget(T, n)
  BY DEF AckAll, AckedBy
<1>3. P \in Nat /\ n \in 0 .. P /\ n \in Nat
  BY SessionFields
<1> HIDE DEF seq, T
<1>4. PICK r \in [0 .. n -> {U \in Sessions : Kept(S, U)}] :
        r[0] = S /\ r[n] = T /\ \A m \in 1 .. n : r[m] = AckOne(r[m - 1], m, oks[m])
  <2>1. Len(seq) <= Len(S.pending) /\ Len(seq) <= Len(oks) /\ \A i \in 1 .. Len(seq) : seq[i] = i
    BY <1>1
  <2>2. \E r \in [0 .. Len(seq) -> {U \in Sessions : Kept(S, U)}] :
          /\ r[0] = S /\ r[Len(seq)] = AckedBy(S, oks, seq)
          /\ \A m \in 1 .. Len(seq) : r[m] = AckOne(r[m - 1], seq[m], oks[seq[m]])
    <3>1. Acking(S, oks, seq)
      BY <1>1, <2>1, AckOneRun
    <3> QED
      BY <3>1 DEF Acking
  <2> QED
    BY <1>1, <2>2 DEF T
<1> DEFINE Good(m) == /\ Mirrors(r[m].official, g[m])
                      /\ \A j \in 1 .. P : j > m => Ready(r[m], j)
           X == {m \in 0 .. n : Good(m)}
<1>5. 0 \in X
  BY <1>3, <1>4
<1>6. ASSUME NEW m \in 0 .. n - 1, m \in X
      PROVE  m + 1 \in X
  <2> DEFINE U == r[m]
             i == m + 1
  <2>1. i \in 1 .. n /\ i \in 0 .. n /\ i - 1 = m /\ m \in 0 .. n /\ i \in 1 .. P /\ i > m
    BY <1>3
  <2>2. Good(m)
    BY <1>6
  <2>3. U \in Sessions /\ Kept(S, U)
    BY <1>4, <2>1
  <2>4. U.pending = S.pending
    BY <2>3 DEF Kept
  <2>5. Mirrors(U.official, g[m]) /\ \A j \in 1 .. P : j > m => Ready(U, j)
    BY <2>2
  <2>6. r[i] = AckOne(U, i, oks[i])
    BY <1>4, <2>1
  <2>7. Outcome(g[m], g[i], U.pending[i].action, U.pending[i].sent, oks[i])
    BY <2>1, <2>4 DEF Chain
  <2>8. oks[i] \in BOOLEAN
    BY <1>3, <2>1
  <2>9. OneKind(U) /\ i \in 1 .. Len(U.pending) /\ Ready(U, i)
    BY <2>1, <2>4, <2>5 DEF OneKind
  <2> HIDE DEF U, i
  <2>10. AckedRight(U, r[i], i, g[i])
    BY <2>3, <2>5, <2>6, <2>7, <2>8, <2>9, AckOneRight
  <2>11. ASSUME NEW j \in 1 .. P, j > i
         PROVE  Ready(r[i], j)
    <3>1. j > m /\ j # i
      BY <1>3, <2>1, <2>11
    <3> QED
      BY <2>4, <2>5, <2>10, <3>1 DEF AckedRight
  <2>12. Good(i)
    BY <2>10, <2>11 DEF AckedRight
  <2> QED
    BY <2>1, <2>12 DEF i
<1>7. 0 .. n \subseteq X
  <2> HIDE DEF X
  <2> QED
    BY <1>3, <1>5, <1>6, UpTo
<1>8. Good(n)
  <2>1. n \in 0 .. n
    BY <1>3
  <2> HIDE DEF Good
  <2> QED
    BY <1>7, <2>1
<1>9. T \in Sessions /\ Kept(S, T) /\ Mirrors(T.official, g[n])
  BY <1>3, <1>4, <1>8
<1> HIDE DEF Good, X
<1>10. n \in 0 .. Len(T.pending)
  BY <1>9 DEF Kept
<1>11. Forget(T, n).official = Unref(T.official, n)
  BY <1>9, <1>10, ForgetLemma
<1>12. SameContent(T.official, Unref(T.official, n))
  <2>1. Fits(T.official, Len(T.pending)) /\ Len(T.pending) \in Nat
    BY <1>9, SessionFields
  <2> QED
    BY <1>10, <2>1, UnrefFits
<1> QED
  BY <1>2, <1>9, <1>11, <1>12, MirrorSame

(* An edit of the user, with the request that follows it, changes nothing  *)
(* of the copy.                                                            *)
LEMMA FromMirrors ==
  ASSUME NEW S \in Sessions, NEW T \in From(S), NEW set, Mirrors(S.official, set)
  PROVE  Mirrors(T.official, set)
<1>1. Edited(S, T) \/ Sent(S, T)
  BY DEF From
<1>2. CASE Edited(S, T)
  BY <1>2 DEF Edited
<1>3. CASE Sent(S, T)
  BY <1>3, MirrorSame DEF Sent
<1> QED
  BY <1>1, <1>2, <1>3

(* parseack does what the outcomes say. *)
LEMMA ParseAckRight ==
  ASSUME NEW S \in Sessions, OneKind(S), \A j \in 1 .. Len(S.pending) : Ready(S, j),
         NEW oks \in Seq(BOOLEAN), Len(oks) \in 1 .. Len(S.pending), NEW g,
         Chain(g, S.pending, oks, Len(oks)), Mirrors(S.official, g[0])
  PROVE  Mirrors(parseack(S, oks).official, g[Len(oks)])
<1> DEFINE n == Outcomes(S, oks)
           T == AckAll(S, oks, n)
           V == [T EXCEPT !.waiting = FALSE]
<1>1. n = Len(oks) /\ n \in 0 .. Len(S.pending) /\ n <= Len(oks)
  <2> DEFINE p == Len(S.pending)
             k == Len(oks)
  <2>1. n = IF k < p THEN k ELSE p
    BY DEF Outcomes
  <2>2. p \in Nat /\ k \in 1 .. p
    BY SessionFields
  <2> HIDE DEF p, k, n
  <2>3. n = k /\ n \in 0 .. p /\ n <= k
    BY <2>1, <2>2
  <2> QED
    BY <2>3 DEF p, k
<1> HIDE DEF n
<1>2. T \in Sessions /\ Mirrors(T.official, g[Len(oks)])
  BY <1>1, AckAllLemma, AckAllRight DEF Settled
<1>3. parseack(S, oks) = IF T.pending # <<>> THEN T ELSE aim_ssi_sync(V)
  BY DEF parseack, SyncUnlessPending, n
<1> HIDE DEF T
<1>4. CASE T.pending # <<>>
  BY <1>2, <1>3, <1>4
<1>5. CASE T.pending = <<>>
  <2>1. V \in Sessions /\ V.official = T.official
    BY <1>2, <1>5, NotWaiting
  <2> HIDE DEF V
  <2>2. aim_ssi_sync(V) \in From(V)
    BY <2>1, SyncLemma
  <2> QED
    BY <1>2, <1>3, <1>5, <2>1, <2>2, FromMirrors
<1> QED
  BY <1>4, <1>5

(* Items with ids of their own. *)
NewTo(set, items) ==
  /\ \A i, j \in 1 .. Len(items) : SameIds(items[i], items[j]) => i = j
  /\ \A i \in 1 .. Len(items) : At(set, items[i]) = {}
Joined(set, items, n) == set \cup {items[i] : i \in 1 .. n}

(* The items of a list message are added. *)
LEMMA AddAllRight ==
  ASSUME NEW S \in Sessions, NEW items \in Seq(ContentType), NEW set, Mirrors(S.official, set),
         NewTo(set, items)
  PROVE  Mirrors(AddAll(S, "official", items).official, Joined(set, items, Len(items)))
<1> DEFINE N == Len(items)
           T == AddAll(S, "official", items)
<1>1. PICK r \in [0 .. N -> {U \in Sessions : Kept(S, U)}] :
        /\ r[0] = S /\ r[N] = T
        /\ \A n \in 1 .. N : r[n] = AddItem(r[n - 1], "official", items[n])
  BY AddAllRun, ItemsAddable DEF Both
<1>2. N \in Nat
  OBVIOUS
<1> HIDE DEF T
<1> DEFINE X == {n \in 0 .. N : Mirrors(r[n].official, Joined(set, items, n))}
<1>3. 0 \in X
  <2>1. Joined(set, items, 0) = set
    BY DEF Joined
  <2> QED
    BY <1>1, <1>2, <2>1
<1>4. ASSUME NEW n \in 0 .. N - 1, n \in X
      PROVE  n + 1 \in X
  <2> DEFINE i == n + 1
             it == items[i]
             a == Joined(set, items, n)
  <2>1. i \in 1 .. N /\ i \in 0 .. N /\ i - 1 = n /\ n \in 0 .. N /\ i \notin 1 .. n
    BY <1>2
  <2>2. r[n] \in Sessions /\ r[i] = AddItem(r[n], "official", it) /\ it \in ContentType
        /\ Mirrors(r[n].official, a)
    BY <1>1, <1>4, <2>1
  <2>3. \A x \in a : ~SameIds(x, it)
    <3>1. \A x \in set : ~SameIds(x, it)
      BY <2>1, AtIs DEF NewTo
    <3>2. \A k \in 1 .. n : k \in 1 .. N /\ k # i
      BY <1>2, <2>1
    <3>3. \A k \in 1 .. n : ~SameIds(items[k], it)
      BY <2>1, <3>2 DEF NewTo
    <3> QED
      BY <3>1, <3>3 DEF Joined
  <2>4. At(a, it) = {}
    BY <2>3, AtIs
  <2>5. Serve(a, "add", Content(it)) = Joined(set, items, i)
    <3>1. Content(it) = it
      BY <2>2, ContentIs
    <3>2. 1 .. i = 1 .. n \cup {i}
      BY <1>2
    <3> HIDE DEF i
    <3> QED
      BY <3>1, <3>2 DEF Serve, Joined
  <2> HIDE DEF it, a
  <2>6. Mirrors(r[i].official, Joined(set, items, i))
    BY <2>2, <2>4, <2>5, OfficialAdded
  <2> QED
    BY <2>1, <2>6
<1>5. 0 .. N \subseteq X
  <2> HIDE DEF X, N
  <2> QED
    BY <1>2, <1>3, <1>4, UpTo
<1>6. N \in X
  BY <1>2, <1>5
<1> QED
  BY <1>1, <1>6 DEF T

(* parsedata does what the server sends. *)
LEMMA ParseDataRight ==
  ASSUME NEW S \in Sessions, NEW msg, msg.items \in Seq(ContentType), msg.more \in BOOLEAN,
         NEW set, Mirrors(S.official, set), NewTo(set, msg.items)
  PROVE  Mirrors(parsedata(S, msg).official, Joined(set, msg.items, Len(msg.items)))
<1> DEFINE T == AddAll(S, "official", msg.items)
           new == Joined(set, msg.items, Len(msg.items))
<1>1. /\ msg.more => parsedata(S, msg) = T
      /\ ~msg.more => \E U \in Sessions : /\ Steady(S, U) /\ U.official = T.official
                                          /\ parsedata(S, msg) \in From(U)
  BY ParseDataLemma
<1>2. Mirrors(T.official, new)
  BY AddAllRight
<1> HIDE DEF T, new
<1>3. CASE msg.more
  BY <1>1, <1>2, <1>3 DEF new
<1>4. CASE ~msg.more
  <2>1. PICK U \in Sessions : U.official = T.official /\ parsedata(S, msg) \in From(U)
    BY <1>1, <1>4
  <2>2. Mirrors(U.official, new)
    BY <1>2, <2>1
  <2> QED
    BY <2>1, <2>2, FromMirrors DEF new
<1> QED
  BY <1>3, <1>4

-----------------------------------------------------------------------------
(* The server's list as the client will see it after each message that is  *)
(* on its way: what it will have put into its copy, and which of the       *)
(* pending changes will still await their outcome.                         *)

ViewType == [list : SUBSET ContentType, rest : Seq(ChangeType)]
View(list, rest) == [list |-> list, rest |-> rest]
Answered(a, b, oks) ==
  LET n == Len(oks)
  IN  /\ n \in 1 .. Len(a.rest) /\ b.rest = SubSeq(a.rest, n + 1, Len(a.rest))
      /\ \E g \in [0 .. n -> SUBSET ContentType] :
           g[0] = a.list /\ g[n] = b.list /\ Chain(g, a.rest, oks, n)
Listed(a, b, items) ==
  NewTo(a.list, items) /\ b.list = Joined(a.list, items, Len(items)) /\ b.rest = a.rest
Edits(a, b, action, it) ==
  /\ action = "add" => At(a.list, it) = {}
  /\ action = "mod" => At(a.list, it) # {}
  /\ b.list = Serve(a.list, action, it) /\ b.rest = a.rest
Moves ==
  {t \in ViewType \X MessageType \X ViewType :
     \/ t[2].kind = "list" /\ Listed(t[1], t[3], t[2].items)
     \/ t[2].kind = "ack" /\ Answered(t[1], t[3], t[2].oks)
     \/ t[2].kind \in Actions /\ Edits(t[1], t[3], t[2].kind, t[2].item)}

(* From a to b along the messages of box. *)
Path(a, box, b) ==
  \E f : Linked(f, box, ViewType, Moves) /\ f[0] = a /\ f[Len(box)] = b

(* The changes whose request has not reached the server. *)
Awaited(S) == IF Changing(S) THEN S.pending ELSE <<>>

(* The official list will be the server's, set, when all of box is read.   *)
Copying(S, box, set) ==
  \E list : /\ Mirrors(S.official, list)
            /\ Path(View(list, S.pending), box, View(set, Awaited(S)))

(* One step of Moves. *)
LEMMA MovesIs ==
  ASSUME NEW a \in ViewType, NEW b \in ViewType, NEW msg \in MessageType
  PROVE  /\ msg.kind = "list" => (<<a, msg, b>> \in Moves <=> Listed(a, b, msg.items))
         /\ msg.kind = "ack" => (<<a, msg, b>> \in Moves <=> Answered(a, b, msg.oks))
         /\ msg.kind \in Actions => (<<a, msg, b>> \in Moves <=> Edits(a, b, msg.kind, msg.item))
         /\ <<a, msg, b>> \in Moves => msg.kind # "error"
<1>1. <<a, msg, b>> \in Moves <=>
        \/ msg.kind = "list" /\ Listed(a, b, msg.items)
        \/ msg.kind = "ack" /\ Answered(a, b, msg.oks)
        \/ msg.kind \in Actions /\ Edits(a, b, msg.kind, msg.item)
  BY DEF Moves
<1>2. "list" \notin Actions /\ "ack" \notin Actions /\ "error" \notin Actions
  BY DEF Actions
<1> QED
  BY <1>1, <1>2

(* What a view is. *)
LEMMA ViewIs ==
  /\ \A l, q : View(l, q).list = l /\ View(l, q).rest = q
  /\ \A l, q : View(l, q) \in ViewType <=> l \in SUBSET ContentType /\ q \in Seq(ChangeType)
  /\ \A v \in ViewType : v = View(v.list, v.rest) /\ v.list \in SUBSET ContentType
                         /\ v.rest \in Seq(ChangeType)
<1>1. ASSUME NEW l, NEW q
      PROVE  /\ View(l, q).list = l /\ View(l, q).rest = q
             /\ View(l, q) \in ViewType <=> l \in SUBSET ContentType /\ q \in Seq(ChangeType)
  BY DEF View, ViewType
<1>2. ASSUME NEW v \in ViewType
      PROVE  v = View(v.list, v.rest) /\ v.list \in SUBSET ContentType /\ v.rest \in Seq(ChangeType)
  BY DEF View, ViewType
<1> QED
  BY <1>1, <1>2

(* No message. *)
LEMMA PathNone ==
  /\ \A a \in ViewType : Path(a, <<>>, a)
  /\ \A a, b : Path(a, <<>>, b) => a = b
<1>1. ASSUME NEW a \in ViewType
      PROVE  Path(a, <<>>, a)
  <2> DEFINE f == [n \in 0 .. 0 |-> a]
  <2>1. Linked(f, <<>>, ViewType, Moves)
    BY LinkedNone
  <2>2. f[0] = a /\ Len(<<>>) = 0
    OBVIOUS
  <2> HIDE DEF f
  <2> QED
    BY <2>1, <2>2 DEF Path
<1>2. ASSUME NEW a, NEW b, Path(a, <<>>, b)
      PROVE  a = b
  <2>1. Len(<<>>) = 0
    OBVIOUS
  <2> QED
    BY <1>2, <2>1 DEF Path
<1> QED
  BY <1>1, <1>2

(* One message more. *)
LEMMA PathMore ==
  ASSUME NEW a, NEW box \in Seq(MessageType), NEW b, Path(a, box, b),
         NEW msg \in MessageType, NEW c \in ViewType, <<b, msg, c>> \in Moves
  PROVE  Append(box, msg) \in Seq(MessageType) /\ Path(a, Append(box, msg), c)
<1>1. PICK f : Linked(f, box, ViewType, Moves) /\ f[0] = a /\ f[Len(box)] = b
  BY DEF Path
<1>2. Extended(f, box, msg, c, ViewType, Moves)
  BY <1>1, LinkedAppend
<1> QED
  BY <1>1, <1>2 DEF Extended, Path

(* One message read. *)
LEMMA PathRead ==
  ASSUME NEW a, NEW box \in Seq(MessageType), box # <<>>, NEW b, Path(a, box, b)
  PROVE  /\ Head(box) \in MessageType /\ Tail(box) \in Seq(MessageType) /\ a \in ViewType
         /\ \E c \in ViewType : <<a, Head(box), c>> \in Moves /\ Path(c, Tail(box), b)
<1>1. PICK f : Linked(f, box, ViewType, Moves) /\ f[0] = a /\ f[Len(box)] = b
  BY DEF Path
<1>2. Unread(f, box, MessageType, ViewType, Moves)
  BY <1>1, LinkedTail
<1>3. Path(f[1], Tail(box), b)
  BY <1>1, <1>2 DEF Unread, Path
<1> QED
  BY <1>1, <1>2, <1>3 DEF Unread

(* Both ends of a path are views. *)
LEMMA PathEnds ==
  ASSUME NEW a, NEW box \in Seq(MessageType), NEW b, Path(a, box, b)
  PROVE  a \in ViewType /\ b \in ViewType
<1>1. PICK f : Linked(f, box, ViewType, Moves) /\ f[0] = a /\ f[Len(box)] = b
  BY DEF Path
<1>2. Len(box) \in Nat
  OBVIOUS
<1> QED
  BY <1>1, <1>2 DEF Linked

(* New changes become pending behind messages that are about none.         *)
LEMMA PathSent ==
  ASSUME NEW l, NEW box \in Seq(MessageType), NEW set, Path(View(l, <<>>), box, View(set, <<>>)),
         NEW q \in Seq(ChangeType)
  PROVE  Path(View(l, q), box, View(set, q))
<1> DEFINE N == Len(box)
           Q == {v \in ViewType : v.rest = <<>>}
<1>1. PICK f : Linked(f, box, ViewType, Moves) /\ f[0] = View(l, <<>>) /\ f[N] = View(set, <<>>)
  BY DEF Path
<1>2. N \in Nat /\ f \in [0 .. N -> ViewType] /\ \A m \in 1 .. N : <<f[m - 1], box[m], f[m]>> \in Moves
  BY <1>1 DEF Linked
<1>3. \A m \in 1 .. N : box[m] \in MessageType
  OBVIOUS
<1> HIDE DEF N
<1>4. ASSUME NEW a \in ViewType, NEW b \in ViewType, NEW msg \in MessageType,
             a \in Q, <<a, msg, b>> \in Moves
      PROVE  b \in Q /\ <<View(a.list, q), msg, View(b.list, q)>> \in Moves
  <2>1. msg.kind # "ack"
    <3> SUFFICES ASSUME msg.kind = "ack"
                 PROVE  FALSE
      OBVIOUS
    <3>1. Answered(a, b, msg.oks)
      BY <1>4, MovesIs
    <3>2. Len(msg.oks) \in 1 .. Len(a.rest) /\ Len(a.rest) = 0
      BY <1>4, <3>1 DEF Answered
    <3> QED
      BY <3>2
  <2>2. View(a.list, q) \in ViewType /\ View(b.list, q) \in ViewType
        /\ View(a.list, q).list = a.list /\ View(b.list, q).list = b.list
        /\ View(a.list, q).rest = q /\ View(b.list, q).rest = q
    BY ViewIs
  <2>3. msg.kind = "list" \/ msg.kind \in Actions
    BY <1>4, <2>1 DEF Moves
  <2>4. CASE msg.kind = "list"
    <3>1. Listed(a, b, msg.items)
      BY <1>4, <2>4, MovesIs
    <3>2. Listed(View(a.list, q), View(b.list, q), msg.items)
      BY <2>2, <3>1 DEF Listed
    <3> QED
      BY <1>4, <2>2, <2>4, <3>1, <3>2, MovesIs DEF Listed
  <2>5. CASE msg.kind \in Actions
    <3>1. Edits(a, b, msg.kind, msg.item)
      BY <1>4, <2>5, MovesIs
    <3>2. Edits(View(a.list, q), View(b.list, q), msg.kind, msg.item)
      BY <2>2, <3>1 DEF Edits
    <3> QED
      BY <1>4, <2>2, <2>5, <3>1, <3>2, MovesIs DEF Edits
  <2> QED
    BY <2>3, <2>4, <2>5
<1>5. f[0] \in Q
  BY <1>1, <1>2, ViewIs
<1>6. \A m \in 0 .. N : f[m] \in Q
  <2> HIDE DEF Q
  <2> QED
    BY <1>1, <1>4, <1>5, LinkedKeeps DEF N
<1> DEFINE g == [m \in 0 .. N |-> View(f[m].list, q)]
<1>7. g \in [0 .. N -> ViewType]
  <2>1. \A m \in 0 .. N : View(f[m].list, q) \in ViewType
    BY <1>2, ViewIs
  <2> QED
    BY <2>1
<1>8. ASSUME NEW m \in 1 .. N
      PROVE  <<g[m - 1], box[m], g[m]>> \in Moves
  <2>1. m - 1 \in 0 .. N /\ m \in 0 .. N
    BY <1>2
  <2>2. /\ f[m - 1] \in ViewType /\ f[m] \in ViewType /\ box[m] \in MessageType
        /\ f[m - 1] \in Q /\ <<f[m - 1], box[m], f[m]>> \in Moves
    BY <1>2, <1>3, <1>6, <2>1
  <2>3. g[m - 1] = View(f[m - 1].list, q) /\ g[m] = View(f[m].list, q)
    BY <2>1
  <2> HIDE DEF g, Q
  <2> QED
    BY <1>4, <2>2, <2>3
<1>9. g[0] = View(l, q) /\ g[N] = View(set, q)
  BY <1>1, <1>2, ViewIs
<1> HIDE DEF g
<1>10. Linked(g, box, ViewType, Moves)
  BY <1>7, <1>8 DEF Linked, N
<1> QED
  BY <1>9, <1>10 DEF Path, N

(* After an edit and the request that it may send, the official list is    *)
(* still the copy that it was.                                             *)
LEMMA CopyFrom ==
  ASSUME NEW S \in Sessions, NEW T \in From(S), S.out = <<>> \/ Changing(S),
         NEW list, Mirrors(T.official, list), NEW box \in Seq(MessageType), NEW set,
         Path(View(list, S.pending), box, View(set, Awaited(S))), OneKind(S)
  PROVE  Copying(T, box, set) /\ OneKind(T) /\ (T.out = <<>> \/ Changing(T))
<1>1. T \in Sessions /\ (Edited(S, T) \/ Sent(S, T))
  BY DEF From
<1>2. CASE Edited(S, T)
  <2>1. T.pending = S.pending /\ T.waiting = S.waiting /\ T.out = S.out
    BY <1>2 DEF Edited, Kept
  <2>2. Awaited(T) = Awaited(S) /\ (Changing(T) <=> Changing(S))
    BY <2>1 DEF Awaited, Changing
  <2> QED
    BY <2>1, <2>2 DEF Copying, OneKind
<1>3. CASE Sent(S, T)
  <2>1. ~S.waiting /\ ~Changing(S) /\ S.out = <<>> /\ S.pending = <<>> /\ Awaited(S) = <<>>
    BY <1>3, SessionFields DEF Sent, Changing, Awaited
  <2>2. PICK action \in Actions :
          /\ \A i \in 1 .. Len(T.pending) : T.pending[i].action = action
          /\ T.out = Append(S.out, [kind |-> "change", action |-> action,
                                    items |-> [i \in 1 .. Len(T.pending) |-> T.pending[i].sent]])
    BY <1>3 DEF Sent
  <2>3. \A m : Append(<<>>, m) = <<m>>
    OBVIOUS
  <2>4. T.out = <<[kind |-> "change", action |-> action,
                   items |-> [i \in 1 .. Len(T.pending) |-> T.pending[i].sent]]>>
    BY <2>1, <2>2, <2>3
  <2>5. Changing(T)
    BY <1>3, <2>2, <2>4 DEF Changing, Sent
  <2>6. T.pending \in Seq(ChangeType) /\ Awaited(T) = T.pending
    BY <1>1, <2>5, SessionFields DEF Awaited
  <2>7. Path(View(list, T.pending), box, View(set, T.pending))
    BY <2>1, <2>6, PathSent
  <2> QED
    BY <2>2, <2>5, <2>6, <2>7 DEF Copying, OneKind
<1> QED
  BY <1>1, <1>2, <1>3

(* Nothing is wrong with what is pending. *)
Sound(S) == OneKind(S) /\ ~Disturbed(S) /\ ~Retyped(S)

(* Two sessions with the same lists and changes. *)
LEMMA SoundSame ==
  ASSUME NEW S, NEW T, T.local = S.local, T.official = S.official, T.pending = S.pending
  PROVE  /\ (Disturbed(T) <=> Disturbed(S)) /\ (Retyped(T) <=> Retyped(S))
         /\ (OneKind(T) <=> OneKind(S))
<1>1. \A action : T[Home(action)] = S[Home(action)]
  <2>1. T["local"] = S["local"] /\ T["official"] = S["official"]
    OBVIOUS
  <2> QED
    BY <2>1 DEF Home
<1>2. Disturbed(T) <=> Disturbed(S)
  BY <1>1 DEF Disturbed
<1> QED
  BY <1>2 DEF Retyped, OneKind

(* With the same request on its way. *)
LEMMA CopySame ==
  ASSUME NEW S, NEW T, T.official = S.official, T.pending = S.pending, T.waiting = S.waiting,
         T.out = S.out, NEW box, NEW set, Copying(S, box, set)
  PROVE  Copying(T, box, set)
<1>1. Awaited(T) = Awaited(S)
  BY DEF Awaited, Changing
<1> QED
  BY <1>1 DEF Copying

(* What is left of a request is of one kind. *)
LEMMA OneKindRest ==
  ASSUME NEW S \in Sessions, OneKind(S), NEW n \in 0 .. Len(S.pending), NEW T,
         T.pending = SubSeq(S.pending, n + 1, Len(S.pending))
  PROVE  OneKind(T)
<1> DEFINE P == S.pending
           q == SubSeq(P, n + 1, Len(P))
<1>1. P \in Seq(ChangeType)
  BY SessionFields
<1>2. PICK action \in Actions : \A i \in 1 .. Len(P) : P[i].action = action
  BY DEF OneKind
<1>3. n \in 0 .. Len(P) /\ T.pending = q
  OBVIOUS
<1> HIDE DEF P
<1>4. Len(q) = Len(P) - n /\ \A i \in 1 .. Len(P) - n : q[i] = P[n + i]
  BY <1>1, <1>3
<1> HIDE DEF q
<1>5. ASSUME NEW i \in 1 .. Len(q)
      PROVE  q[i].action = action
  <2>1. n + i \in 1 .. Len(P) /\ i \in 1 .. Len(P) - n
    BY <1>1, <1>3, <1>4
  <2> QED
    BY <1>2, <1>4, <2>1
<1> QED
  BY <1>2, <1>3, <1>5 DEF OneKind

(* The client reads a message: what it does to the official list is what   *)
(* the message says of the server's.                                       *)
LEMMA CopyRead ==
  ASSUME NEW S \in Sessions, NEW T, NEW box \in Seq(MessageType), box # <<>>,
         Exchange(S, box), NEW set, Copying(S, box, set), Sound(S), Handled(S, T, Head(box))
  PROVE  Copying(T, Tail(box), set) /\ OneKind(T) /\ (T.out = <<>> \/ Changing(T))
<1> DEFINE m == Head(box)
           new == Tail(box)
<1>1. PICK list : /\ Mirrors(S.official, list)
                  /\ Path(View(list, S.pending), box, View(set, Awaited(S)))
  BY DEF Copying
<1> DEFINE a == View(list, S.pending)
<1>2. /\ m \in MessageType /\ new \in Seq(MessageType) /\ a \in ViewType
      /\ \E c \in ViewType : <<a, m, c>> \in Moves /\ Path(c, new, View(set, Awaited(S)))
  BY <1>1, PathRead
<1>3. PICK b \in ViewType : <<a, m, b>> \in Moves /\ Path(b, new, View(set, Awaited(S)))
  BY <1>2
<1>4. S.out = <<>> \/ Changing(S)
  BY DEF Exchange
<1>5. a.list = list /\ a.rest = S.pending /\ b = View(b.list, b.rest) /\ OneKind(S)
  BY ViewIs DEF Sound
<1>6. Handled(S, T, m)
  OBVIOUS
<1> HIDE DEF a, m, new
<1>7. CASE m.kind = "list"
  <2>1. Listed(a, b, m.items)
    BY <1>2, <1>3, <1>7, MovesIs
  <2>2. m.items \in Seq(ContentType) /\ m.more \in BOOLEAN /\ T = parsedata(S, m)
    BY <1>6, <1>7 DEF Handled
  <2>3. Mirrors(T.official, b.list) /\ b = View(b.list, S.pending)
    BY <1>1, <1>5, <2>1, <2>2, ParseDataRight DEF Listed
  <2>4. PICK U \in Sessions : Steady(S, U) /\ T \in From(U)
    BY <1>6, <1>7 DEF Handled
  <2>5. /\ U.pending = S.pending /\ U.out = S.out /\ U.waiting = S.waiting
        /\ U.out = <<>> \/ Changing(U)
        /\ Awaited(U) = Awaited(S) /\ OneKind(U)
    BY <1>4, <1>5, <2>4 DEF Steady, Changing, Awaited, OneKind
  <2>6. Path(View(b.list, U.pending), new, View(set, Awaited(U)))
    BY <1>3, <2>3, <2>5
  <2>7. Copying(T, new, set) /\ OneKind(T) /\ (T.out = <<>> \/ Changing(T))
    BY <1>2, <2>3, <2>4, <2>5, <2>6, CopyFrom
  <2> QED
    BY <2>7 DEF new
<1>8. CASE m.kind \in Actions
  <2>1. Edits(a, b, m.kind, m.item)
    BY <1>2, <1>3, <1>8, MovesIs
  <2>2. Kept(S, T) /\ T = Received(S, m)
    BY <1>6, <1>8 DEF Handled
  <2>3. Mirrors(T.official, Serve(list, m.kind, m.item))
    BY <1>1, <1>2, <1>5, <1>8, <2>1, <2>2, ForeignMirrored DEF Edits
  <2>4. Mirrors(T.official, b.list) /\ b = View(b.list, S.pending)
    BY <1>5, <2>1, <2>3 DEF Edits
  <2>5. /\ T.pending = S.pending /\ Awaited(T) = Awaited(S) /\ OneKind(T)
        /\ T.out = <<>> \/ Changing(T)
    <3>1. T.pending = S.pending /\ T.waiting = S.waiting /\ T.out = S.out
      BY <2>2 DEF Kept
    <3>2. (Changing(T) <=> Changing(S)) /\ (OneKind(T) <=> OneKind(S))
      BY <3>1 DEF Changing, OneKind
    <3> QED
      BY <1>4, <1>5, <3>1, <3>2 DEF Awaited
  <2>6. Copying(T, new, set)
    BY <1>3, <2>4, <2>5 DEF Copying
  <2> QED
    BY <2>5, <2>6 DEF new
<1>9. CASE m.kind = "ack"
  <2> DEFINE oks == m.oks
             n == Len(oks)
             P == S.pending
  <2>1. Answered(a, b, oks)
    BY <1>2, <1>3, <1>9, MovesIs
  <2>2. oks \in Seq(BOOLEAN) /\ T = parseack(S, oks) /\ Acked(S, T, Outcomes(S, oks))
    BY <1>6, <1>9 DEF Handled
  <2>3. /\ S.out = <<>> /\ n \in 1 .. Len(P) /\ Outcomes(S, oks) = n
    BY <1>9, <2>2, ExchangeAcked DEF m
  <2>4. PICK g \in [0 .. n -> SUBSET ContentType] :
          g[0] = a.list /\ g[n] = b.list /\ Chain(g, a.rest, oks, n)
    BY <2>1 DEF Answered
  <2>5. \A j \in 1 .. Len(S.pending) : Ready(S, j)
    BY <1>1, AllReady DEF Sound, Mirrors
  <2>6. Mirrors(T.official, b.list)
    <3>1. Mirrors(S.official, g[0]) /\ Chain(g, S.pending, oks, Len(oks))
      BY <1>1, <1>5, <2>4
    <3>2. Mirrors(parseack(S, oks).official, g[Len(oks)])
      BY <1>5, <2>2, <2>3, <2>5, <3>1, ParseAckRight
    <3> QED
      BY <2>2, <2>4, <3>2
  <2>7. b = View(b.list, SubSeq(P, n + 1, Len(P)))
    BY <1>5, <2>1 DEF Answered
  <2>8. \A R : R.out = <<>> => ~Changing(R) /\ Awaited(R) = <<>>
    BY DEF Changing, Awaited
  <2>9. PICK U \in Sessions :
          /\ Settled(S, U, n)
          /\ IF n < Len(S.pending) THEN T = U
             ELSE LET V == [U EXCEPT !.waiting = FALSE]
                  IN  V \in Sessions /\ ~V.waiting /\ V.pending = <<>> /\ T \in From(V)
    BY <2>2, <2>3 DEF Acked
  <2>10. U.pending = SubSeq(P, n + 1, Len(P)) /\ U.out = <<>>
    BY <2>3, <2>9 DEF Settled
  <2>11. Len(P) \in Nat /\ P \in Seq(ChangeType) /\ n \in 0 .. Len(P)
    BY <2>3, SessionFields
  <2>12. OneKind(U)
    BY <1>5, <2>10, <2>11, OneKindRest
  <2> HIDE DEF oks, n, P
  <2>13. CASE n < Len(P)
    <3>1. T = U
      BY <2>9, <2>13 DEF P
    <3>2. Copying(T, new, set)
      BY <1>3, <2>3, <2>6, <2>7, <2>8, <2>10, <3>1 DEF Copying
    <3> QED
      BY <2>10, <2>12, <3>1, <3>2 DEF new
  <2>14. CASE ~(n < Len(P))
    <3> DEFINE V == [U EXCEPT !.waiting = FALSE]
    <3>1. V \in Sessions /\ ~V.waiting /\ V.pending = <<>> /\ T \in From(V)
      BY <2>9, <2>14 DEF P
    <3>2. SubSeq(P, n + 1, Len(P)) = <<>>
      BY <2>11, <2>14
    <3>3. V.out = <<>>
      BY <2>10, <3>2, NotWaiting
    <3> HIDE DEF V
    <3>4. Path(View(b.list, V.pending), new, View(set, Awaited(V)))
      BY <1>3, <2>3, <2>7, <2>8, <3>1, <3>2, <3>3
    <3>5. OneKind(V)
      BY <2>10, <2>12, <3>1, <3>2 DEF OneKind
    <3>6. Copying(T, new, set) /\ OneKind(T) /\ (T.out = <<>> \/ Changing(T))
      BY <1>2, <2>6, <3>1, <3>3, <3>4, <3>5, CopyFrom
    <3> QED
      BY <3>6 DEF new
  <2> QED
    BY <2>13, <2>14
<1>10. m.kind # "error"
  BY <1>2, <1>3, MovesIs
<1> QED
  BY <1>6, <1>7, <1>8, <1>9, <1>10 DEF Handled

(* No two items of a set have the same ids. *)
OwnIds(set) == \A x, y \in set : SameIds(x, y) => x = y

(* The list that the server sends, in one message or two. *)
LEMMA ListPath ==
  ASSUME NEW set \in SUBSET ContentType, OwnIds(set), NEW seq \in Seq(ContentType), Lists(seq, set),
         NEW box,
         \/ box = Append(<<>>, ListMessage(seq, FALSE))
         \/ \E k \in 1 .. Len(seq) - 1 :
              /\ InTwo(seq, k) /\ First(seq, k) \in Seq(ContentType) /\ Rest(seq, k) \in Seq(ContentType)
              /\ box = Append(Append(<<>>, ListMessage(First(seq, k), TRUE)),
                              ListMessage(Rest(seq, k), FALSE))
  PROVE  Path(View({}, <<>>), box, View(set, <<>>))
<1> DEFINE N == Len(seq)
           To(k) == Joined({}, seq, k)
           At0(k) == View(To(k), <<>>)
<1>1. N \in Nat /\ \A i \in 1 .. N : seq[i] \in ContentType
  OBVIOUS
<1>2. \A i, j \in 1 .. N : SameIds(seq[i], seq[j]) => i = j
  BY DEF OwnIds, Lists
<1>3. To(N) = set /\ To(0) = {}
  <2>1. To(N) = set
    BY DEF Joined, Lists
  <2>2. To(0) = {}
    BY DEF Joined
  <2> QED
    BY <2>1, <2>2
<1>4. \A k \in 0 .. N : At0(k) \in ViewType /\ At0(k).list = To(k) /\ At0(k).rest = <<>>
  <2> SUFFICES ASSUME NEW k \in 0 .. N
               PROVE  At0(k) \in ViewType /\ At0(k).list = To(k) /\ At0(k).rest = <<>>
    OBVIOUS
  <2>1. \A i \in 1 .. k : i \in 1 .. N
    BY <1>1
  <2>2. To(k) \in SUBSET ContentType
    BY <1>1, <2>1 DEF Joined
  <2>3. <<>> \in Seq(ChangeType)
    OBVIOUS
  <2> HIDE DEF To
  <2> QED
    BY <2>2, <2>3, ViewIs
(* The part of seq between two positions. *)
<1>5. ASSUME NEW b \in Seq(MessageType), NEW j \in 0 .. N, NEW k \in 0 .. N, j <= k,
             NEW q \in Seq(ContentType), NEW more \in BOOLEAN, Len(q) = k - j,
             \A i \in 1 .. k - j : q[i] = seq[j + i],
             Path(At0(0), b, At0(j))
      PROVE  /\ Append(b, ListMessage(q, more)) \in Seq(MessageType)
             /\ Path(At0(0), Append(b, ListMessage(q, more)), At0(k))
  <2>1. \A i \in 1 .. k - j : j + i \in 1 .. N /\ j + i \notin 1 .. j
    BY <1>1
  <2>2. NewTo(To(j), q)
    <3>1. ASSUME NEW x \in 1 .. Len(q), NEW y \in 1 .. Len(q), SameIds(q[x], q[y])
          PROVE  x = y
      <4>1. j + x = j + y
        BY <1>2, <1>5, <2>1, <3>1
      <4> QED
        BY <1>1, <4>1
    <3>2. ASSUME NEW x \in 1 .. Len(q), NEW y \in To(j)
          PROVE  ~SameIds(y, q[x])
      <4>1. PICK z \in 1 .. j : y = seq[z]
        BY DEF Joined
      <4>2. z \in 1 .. N /\ z # j + x /\ j + x \in 1 .. N /\ q[x] = seq[j + x]
        BY <1>1, <1>5, <2>1
      <4> QED
        BY <1>2, <4>1, <4>2
    <3>3. \A x \in 1 .. Len(q) : At(To(j), q[x]) = {}
      BY <3>2, AtIs
    <3> QED
      BY <3>1, <3>3 DEF NewTo
  <2>3. To(k) = Joined(To(j), q, Len(q))
    <3>1. ASSUME NEW x \in To(k)
          PROVE  x \in Joined(To(j), q, Len(q))
      <4>1. PICK z \in 1 .. k : x = seq[z]
        BY DEF Joined
      <4>2. CASE z <= j
        <5>1. z \in 1 .. j
          BY <4>2
        <5> QED
          BY <4>1, <5>1 DEF Joined
      <4>3. CASE ~(z <= j)
        <5>1. z - j \in 1 .. k - j /\ j + (z - j) = z
          BY <1>1, <4>3
        <5>2. q[z - j] = x /\ z - j \in 1 .. Len(q)
          BY <1>5, <4>1, <5>1
        <5> QED
          BY <5>2 DEF Joined
      <4> QED
        BY <4>2, <4>3
    <3>2. ASSUME NEW x \in Joined(To(j), q, Len(q))
          PROVE  x \in To(k)
      <4>1. CASE x \in To(j)
        <5>1. PICK z \in 1 .. j : x = seq[z]
          BY <4>1 DEF Joined
        <5>2. z \in 1 .. k
          BY <1>1, <1>5
        <5> QED
          BY <5>1, <5>2 DEF Joined
      <4>2. CASE \E z \in 1 .. Len(q) : x = q[z]
        <5>1. PICK z \in 1 .. k - j : x = q[z]
          BY <1>5, <4>2
        <5>2. j + z \in 1 .. k /\ x = seq[j + z]
          BY <1>1, <1>5, <5>1
        <5> QED
          BY <5>2 DEF Joined
      <4> QED
        BY <3>2, <4>1, <4>2 DEF Joined
    <3> QED
      BY <3>1, <3>2
  <2> DEFINE m == ListMessage(q, more)
  <2>4. m \in MessageType /\ m.kind = "list" /\ m.items = q
    BY MessageKinds
  <2> HIDE DEF m, To
  <2>5. Listed(At0(j), At0(k), q)
    <3> HIDE DEF At0
    <3> QED
      BY <1>4, <2>2, <2>3 DEF Listed
  <2>6. At0(j) \in ViewType /\ At0(k) \in ViewType
    BY <1>4
  <2> HIDE DEF At0
  <2>7. <<At0(j), m, At0(k)>> \in Moves
    BY <2>4, <2>5, <2>6, MovesIs
  <2>8. Append(b, m) \in Seq(MessageType) /\ Path(At0(0), Append(b, m), At0(k))
    BY <1>5, <2>4, <2>6, <2>7, PathMore
  <2> QED
    BY <2>8 DEF m
<1> HIDE DEF To
<1>6. Path(At0(0), <<>>, At0(0)) /\ <<>> \in Seq(MessageType) /\ 0 \in 0 .. N /\ N \in 0 .. N
  <2>1. At0(0) \in ViewType
    BY <1>1, <1>4
  <2> HIDE DEF At0
  <2> QED
    BY <1>1, <2>1, PathNone
<1>7. At0(0) = View({}, <<>>) /\ At0(N) = View(set, <<>>)
  BY <1>3
<1> HIDE DEF At0
<1>8. CASE box = Append(<<>>, ListMessage(seq, FALSE))
  <2>1. Len(seq) = N - 0 /\ 0 <= N /\ \A i \in 1 .. N - 0 : seq[i] = seq[0 + i]
    BY <1>1
  <2> HIDE DEF N
  <2> QED
    BY <1>5, <1>6, <1>7, <1>8, <2>1
<1>9. ASSUME NEW k \in 1 .. Len(seq) - 1, InTwo(seq, k),
             First(seq, k) \in Seq(ContentType), Rest(seq, k) \in Seq(ContentType),
             box = Append(Append(<<>>, ListMessage(First(seq, k), TRUE)),
                          ListMessage(Rest(seq, k), FALSE))
      PROVE  Path(At0(0), box, At0(N))
  <2> DEFINE a == First(seq, k)
             b == Rest(seq, k)
             mid == Append(<<>>, ListMessage(a, TRUE))
  <2>1. k \in 0 .. N /\ 0 <= k /\ k <= N /\ k - 0 = k
    BY <1>1
  <2>2. /\ Len(a) = k /\ \A i \in 1 .. k : a[i] = seq[i]
        /\ Len(b) = N - k /\ \A i \in 1 .. N - k : b[i] = seq[k + i]
    BY <1>9 DEF InTwo
  <2>3. \A i \in 1 .. k - 0 : a[i] = seq[0 + i]
    BY <2>1, <2>2
  <2>4. a \in Seq(ContentType) /\ b \in Seq(ContentType) /\ box = Append(mid, ListMessage(b, FALSE))
    BY <1>9
  <2> HIDE DEF a, b, N, mid
  <2>5. mid \in Seq(MessageType) /\ Path(At0(0), mid, At0(k))
    BY <1>5, <1>6, <2>1, <2>2, <2>3, <2>4 DEF mid
  <2>6. Path(At0(0), Append(mid, ListMessage(b, FALSE)), At0(N))
    BY <1>5, <1>6, <2>1, <2>2, <2>4, <2>5
  <2> QED
    BY <2>4, <2>6
<1> QED
  BY <1>7, <1>8, <1>9

(* The outcomes from one position of the request to another.               *)
LEMMA PartAnswered ==
  ASSUME NEW P \in Seq(ChangeType), NEW oks \in Seq(BOOLEAN), Len(oks) = Len(P),
         NEW g \in [0 .. Len(P) -> SUBSET ContentType], Chain(g, P, oks, Len(P)),
         NEW j \in 0 .. Len(P), NEW k \in 0 .. Len(P), j < k,
         NEW q \in Seq(BOOLEAN), Len(q) = k - j, \A i \in 1 .. k - j : q[i] = oks[j + i]
  PROVE  /\ View(g[j], Rest(P, j)) \in ViewType /\ View(g[k], Rest(P, k)) \in ViewType
         /\ Answered(View(g[j], Rest(P, j)), View(g[k], Rest(P, k)), q)
<1> DEFINE N == Len(P)
           a == Rest(P, j)
           b == Rest(P, k)
           h == [i \in 0 .. k - j |-> g[j + i]]
<1>1. N \in Nat /\ j \in 0 .. N /\ k \in 0 .. N /\ j < k
  OBVIOUS
<1>2. /\ a \in Seq(ChangeType) /\ Len(a) = N - j /\ \A i \in 1 .. N - j : a[i] = P[j + i]
      /\ b \in Seq(ChangeType) /\ Len(b) = N - k /\ \A i \in 1 .. N - k : b[i] = P[k + i]
  BY DEF Rest
<1>3. b = SubSeq(a, Len(q) + 1, Len(a))
  <2> DEFINE c == SubSeq(a, Len(q) + 1, Len(a))
  <2>1. Len(q) = k - j /\ k - j \in 0 .. Len(a) /\ Len(a) - (k - j) = N - k
    BY <1>1, <1>2
  <2> HIDE DEF a, b
  <2>2. c \in Seq(ChangeType) /\ Len(c) = N - k /\ \A i \in 1 .. N - k : c[i] = a[(k - j) + i]
    BY <1>1, <1>2, <2>1
  <2> HIDE DEF c
  <2>3. ASSUME NEW i \in 1 .. N - k
        PROVE  c[i] = b[i]
    <3>1. (k - j) + i \in 1 .. N - j /\ j + ((k - j) + i) = k + i
      <4> HIDE DEF N
      <4>1. k \in Nat /\ j \in Nat /\ i \in Nat /\ 1 <= i /\ i <= N - k /\ j < k
        BY <1>1
      <4> QED
        BY <1>1, <4>1
    <3> QED
      BY <1>2, <2>2, <3>1
  <2>4. c = b
    <3>1. \A s \in Seq(ChangeType) : s = [i \in 1 .. Len(s) |-> s[i]]
      OBVIOUS
    <3>2. c = [i \in 1 .. N - k |-> c[i]] /\ b = [i \in 1 .. N - k |-> b[i]]
      BY <1>2, <2>2, <3>1
    <3>3. [i \in 1 .. N - k |-> c[i]] = [i \in 1 .. N - k |-> b[i]]
      BY <2>3
    <3> QED
      BY <3>2, <3>3
  <2> QED
    BY <2>4 DEF c
<1>4. Len(q) \in 1 .. Len(a)
  BY <1>1, <1>2
<1>5. h \in [0 .. Len(q) -> SUBSET ContentType] /\ h[0] = g[j] /\ h[Len(q)] = g[k]
  <2>1. \A i \in 0 .. k - j : j + i \in 0 .. N
    BY <1>1
  <2>2. 0 \in 0 .. k - j /\ k - j \in 0 .. k - j /\ j + 0 = j /\ j + (k - j) = k
    BY <1>1
  <2> QED
    BY <2>1, <2>2
<1>6. Chain(h, a, q, Len(q))
  <2> SUFFICES ASSUME NEW i \in 1 .. k - j
               PROVE  Outcome(h[i - 1], h[i], a[i].action, a[i].sent, q[i])
    BY DEF Chain
  <2>1. /\ i - 1 \in 0 .. k - j /\ i \in 0 .. k - j /\ j + (i - 1) = (j + i) - 1
        /\ j + i \in 1 .. N /\ i \in 1 .. N - j
    BY <1>1
  <2>2. Outcome(g[(j + i) - 1], g[j + i], P[j + i].action, P[j + i].sent, oks[j + i])
    BY <2>1 DEF Chain
  <2>3. h[i - 1] = g[(j + i) - 1] /\ h[i] = g[j + i]
    BY <2>1
  <2>4. q[i] = oks[j + i] /\ a[i] = P[j + i]
    BY <1>2, <2>1
  <2> HIDE DEF h, a
  <2> QED
    BY <2>2, <2>3, <2>4
<1> HIDE DEF a, b, h
<1>7. /\ View(g[j], a) \in ViewType /\ View(g[k], b) \in ViewType
      /\ View(g[j], a).list = g[j] /\ View(g[j], a).rest = a
      /\ View(g[k], b).list = g[k] /\ View(g[k], b).rest = b
  BY <1>2, ViewIs
<1>8. Answered(View(g[j], a), View(g[k], b), q)
  BY <1>3, <1>4, <1>5, <1>6, <1>7 DEF Answered
<1> QED
  BY <1>7, <1>8 DEF a, b

(* All of them, in one ack or two. *)
LEMMA AckPath ==
  ASSUME NEW P \in Seq(ChangeType), P # <<>>, NEW oks \in Seq(BOOLEAN), Len(oks) = Len(P),
         NEW g \in [0 .. Len(P) -> SUBSET ContentType], Chain(g, P, oks, Len(P)),
         NEW from, NEW box \in Seq(MessageType), Path(from, box, View(g[0], P)), NEW new,
         \/ new = Append(box, AckMessage(oks))
         \/ \E k \in 1 .. Len(oks) - 1 :
              /\ InTwo(oks, k) /\ First(oks, k) \in Seq(BOOLEAN) /\ Rest(oks, k) \in Seq(BOOLEAN)
              /\ new = Append(Append(box, AckMessage(First(oks, k))), AckMessage(Rest(oks, k)))
  PROVE  Path(from, new, View(g[Len(P)], <<>>))
<1> DEFINE N == Len(P)
           To(k) == View(g[k], Rest(P, k))
<1>1. N \in Nat \ {0} /\ Rest(P, 0) = P /\ Rest(P, N) = <<>>
  <2>1. N \in Nat \ {0}
    OBVIOUS
  <2>2. \A s \in Seq(ChangeType) : SubSeq(s, 0 + 1, Len(s)) = s /\ SubSeq(s, Len(s) + 1, Len(s)) = <<>>
    OBVIOUS
  <2> QED
    BY <2>1, <2>2 DEF Rest
<1>2. ASSUME NEW b \in Seq(MessageType), NEW j \in 0 .. N, NEW k \in 0 .. N, j < k,
             NEW q \in Seq(BOOLEAN), Len(q) = k - j, \A i \in 1 .. k - j : q[i] = oks[j + i],
             Path(from, b, To(j))
      PROVE  /\ Append(b, AckMessage(q)) \in Seq(MessageType)
             /\ Path(from, Append(b, AckMessage(q)), To(k))
  <2> DEFINE m == AckMessage(q)
  <2>1. m \in MessageType /\ m.kind = "ack" /\ m.oks = q
    BY MessageKinds
  <2>2. To(j) \in ViewType /\ To(k) \in ViewType /\ Answered(To(j), To(k), q)
    BY <1>2, PartAnswered
  <2> HIDE DEF m, To
  <2>3. <<To(j), m, To(k)>> \in Moves
    BY <2>1, <2>2, MovesIs
  <2>4. Append(b, m) \in Seq(MessageType) /\ Path(from, Append(b, m), To(k))
    BY <1>2, <2>1, <2>2, <2>3, PathMore
  <2> QED
    BY <2>4 DEF m
<1>3. To(0) = View(g[0], P) /\ To(N) = View(g[N], <<>>) /\ 0 \in 0 .. N /\ N \in 0 .. N
  BY <1>1
<1>4. Len(oks) = N
  OBVIOUS
<1> HIDE DEF To, N
<1>5. CASE new = Append(box, AckMessage(oks))
  <2>1. Len(oks) = N - 0 /\ 0 < N /\ \A i \in 1 .. N - 0 : oks[i] = oks[0 + i]
    BY <1>1, <1>4
  <2> QED
    BY <1>2, <1>3, <1>5, <2>1 DEF N
<1>6. ASSUME NEW k \in 1 .. Len(oks) - 1, InTwo(oks, k),
             First(oks, k) \in Seq(BOOLEAN), Rest(oks, k) \in Seq(BOOLEAN),
             new = Append(Append(box, AckMessage(First(oks, k))), AckMessage(Rest(oks, k)))
      PROVE  Path(from, new, To(N))
  <2> DEFINE a == First(oks, k)
             b == Rest(oks, k)
             mid == Append(box, AckMessage(a))
  <2>1. k \in 0 .. N /\ 0 < k /\ k < N /\ k - 0 = k
    BY <1>1, <1>4
  <2>2. /\ Len(a) = k /\ \A i \in 1 .. k : a[i] = oks[i]
        /\ Len(b) = N - k /\ \A i \in 1 .. N - k : b[i] = oks[k + i]
    BY <1>4, <1>6 DEF InTwo
  <2>3. \A i \in 1 .. k - 0 : a[i] = oks[0 + i]
    BY <2>1, <2>2
  <2>4. a \in Seq(BOOLEAN) /\ b \in Seq(BOOLEAN) /\ new = Append(mid, AckMessage(b))
    BY <1>6
  <2> HIDE DEF a, b, mid
  <2>5. mid \in Seq(MessageType) /\ Path(from, mid, To(k))
    BY <1>2, <1>3, <2>1, <2>2, <2>3, <2>4 DEF mid
  <2>6. Path(from, Append(mid, AckMessage(b)), To(N))
    BY <1>2, <1>3, <2>1, <2>2, <2>4, <2>5
  <2> QED
    BY <2>4, <2>6
<1> QED
  BY <1>3, <1>5, <1>6 DEF N

(* While no item of a request is disturbed or retyped and no request is    *)
(* answered with an error, the official list is on its way to what the     *)
(* server has, from the moment that the list is sent.                      *)
ExactInv ==
  troubles \cap {"disturbed", "retyped", "error"} = {} =>
    /\ Sound(ssi)
    /\ IF Asks(ssi) THEN ssi.official = <<>> /\ OwnIds(server)
       ELSE Copying(ssi, inbox, server)

(* At login there is nothing. *)
LEMMA ExactInvInit ==
  ASSUME Init
  PROVE  ExactInv
<1>1. PICK own \in Starts :
        /\ ssi = [local |-> <<>>, official |-> <<>>, pending |-> <<>>, waiting |-> FALSE,
                  received |-> FALSE, out |-> <<[kind |-> "reqdata"]>>, asked |-> {},
                  own |-> [buddies |-> own.buddies, private |-> own.private], reuse |-> FALSE]
        /\ server = own.server
  BY DEF Init
<1>2. /\ ssi.out = <<[kind |-> "reqdata"]>> /\ ~ssi.received /\ ~ssi.waiting
      /\ ssi.pending = <<>> /\ ssi.official = <<>>
  BY <1>1
<1>3. Asks(ssi)
  BY <1>2 DEF Asks
<1>4. DOMAIN ssi.pending = {} /\ \A i : i \notin 1 .. Len(ssi.pending)
  BY <1>2
<1>5. ~Disturbed(ssi) /\ ~Retyped(ssi)
  BY <1>4 DEF Disturbed, Retyped
<1>6. OneKind(ssi)
  BY <1>4 DEF OneKind, Actions
<1>7. OwnIds(server)
  BY <1>1, ListsAssumption DEF OwnIds, SameIds
<1> QED
  BY <1>2, <1>3, <1>5, <1>6, <1>7 DEF ExactInv, Sound

(* A list that is on its way is no longer asked for. *)
LEMMA NotAsking ==
  ASSUME NEW S, S.out = <<>> \/ Changing(S) \/ S.received
  PROVE  ~Asks(S)
<1>1. <<[kind |-> "reqdata"]>> # <<>>
  OBVIOUS
<1> QED
  BY <1>1 DEF Asks, Changing

(* What the server does. *)
LEMMA ExactInvServer ==
  ASSUME TInv, AckInv, ExactInv, SendList \/ Carry \/ OtherClient,
         troubles' \cap {"disturbed", "retyped", "error"} = {}
  PROVE  Sound(ssi') /\ ~Asks(ssi') /\ Copying(ssi', inbox', server')
<1>0. /\ ssi \in Sessions /\ server \in SUBSET ContentType
      /\ IsFiniteSet(server) /\ inbox \in Seq(MessageType)
  BY DEF TInv
<1>1. CASE SendList
  <2>1. ListSent
    BY <1>0, <1>1, SendListLemma
  <2>2. Replied /\ Head(ssi.out).kind = "reqdata" /\ server' = server /\ troubles' = troubles
    BY <2>1 DEF ListSent
  <2>3. /\ ssi.out # <<>> /\ ssi' \in Sessions /\ ssi'.out = Tail(ssi.out)
        /\ ssi'.local = ssi.local /\ ssi'.official = ssi.official /\ ssi'.pending = ssi.pending
    BY <2>2 DEF Replied
  <2>4. Exchange(ssi, inbox) /\ Sound(ssi)
    BY <2>2 DEF AckInv, ExactInv
  <2>5. ~Changing(ssi)
    <3>1. SUFFICES ASSUME Changing(ssi) PROVE FALSE
      OBVIOUS
    <3>2. PICK action \in Actions :
            ssi.out = <<[kind |-> "change", action |-> action,
                         items |-> [i \in 1 .. Len(ssi.pending) |-> ssi.pending[i].sent]]>>
      BY <3>1 DEF Changing
    <3>3. Head(ssi.out).kind = "change"
      BY <3>2
    <3> QED
      BY <2>2, <3>3
  <2>6. Asks(ssi) /\ inbox = <<>>
    BY <2>3, <2>4, <2>5 DEF Exchange
  <2>7. ssi.pending = <<>> /\ ssi'.out = <<>> /\ ssi.official = <<>> /\ OwnIds(server)
    BY <2>2, <2>3, <2>6 DEF Asks, ExactInv
  <2>8. PICK seq \in Seq(ContentType) :
          /\ Lists(seq, server)
          /\ \/ inbox' = Append(inbox, ListMessage(seq, FALSE))
             \/ \E k \in 1 .. Len(seq) - 1 :
                  /\ InTwo(seq, k)
                  /\ First(seq, k) \in Seq(ContentType) /\ Rest(seq, k) \in Seq(ContentType)
                  /\ inbox' = Append(Append(inbox, ListMessage(First(seq, k), TRUE)),
                                     ListMessage(Rest(seq, k), FALSE))
    BY <2>1 DEF ListSent
  <2>9. Path(View({}, <<>>), inbox', View(server, <<>>))
    BY <1>0, <2>6, <2>7, <2>8, ListPath
  <2>10. ~Asks(ssi')
    BY <2>7, NotAsking
  <2>11. Awaited(ssi') = <<>>
    <3>1. \A x : <<x>> # <<>>
      OBVIOUS
    <3> QED
      BY <2>7, <3>1 DEF Awaited, Changing
  <2>12. Copying(ssi', inbox', server')
    BY <2>2, <2>3, <2>7, <2>9, <2>11, MirrorNone DEF Copying
  <2> QED
    BY <2>3, <2>4, <2>10, <2>12, SoundSame DEF Sound
<1>2. CASE Carry
  <2>1. Carried
    BY <1>0, <1>2, CarryLemma
  <2> DEFINE req == Head(ssi.out)
             P == ssi.pending
  <2>2. Replied /\ req.kind = "change"
    BY <2>1 DEF Carried
  <2>3. /\ ssi.out # <<>> /\ ssi' \in Sessions /\ ssi'.out = Tail(ssi.out)
        /\ ssi'.local = ssi.local /\ ssi'.official = ssi.official /\ ssi'.pending = ssi.pending
    BY <2>2 DEF Replied
  <2>4. PICK oks \in Seq(BOOLEAN), g \in [0 .. Len(req.items) -> SUBSET ContentType] :
          /\ Len(oks) = Len(req.items)
          /\ g[0] = server /\ g[Len(req.items)] = server'
          /\ \A i \in 1 .. Len(req.items) :
               Outcome(g[i - 1], g[i], req.action, req.items[i], oks[i])
          /\ troubles' = troubles \cup (IF FALSE \in Range(oks) THEN {"refused"} ELSE {})
          /\ \/ inbox' = Append(inbox, AckMessage(oks))
             \/ \E k \in 1 .. Len(oks) - 1 :
                  /\ InTwo(oks, k) /\ First(oks, k) \in Seq(BOOLEAN) /\ Rest(oks, k) \in Seq(BOOLEAN)
                  /\ inbox' = Append(Append(inbox, AckMessage(First(oks, k))),
                                     AckMessage(Rest(oks, k)))
    BY <2>1 DEF Carried
  <2>5. troubles \cap {"disturbed", "retyped", "error"} = {}
    BY <2>4
  <2>6. Exchange(ssi, inbox) /\ Sound(ssi)
    BY <2>5 DEF AckInv, ExactInv
  <2>7. Changing(ssi) /\ ~Asks(ssi)
    <3>1. ~Asks(ssi)
      <4>1. ssi.out = <<[kind |-> "reqdata"]>> => Head(ssi.out) = [kind |-> "reqdata"]
        OBVIOUS
      <4>2. [kind |-> "reqdata"].kind # "change"
        OBVIOUS
      <4> QED
        BY <2>2, <4>1, <4>2 DEF Asks
    <3> QED
      BY <2>3, <2>6, <3>1 DEF Exchange
  <2>8. Copying(ssi, inbox, server) /\ Awaited(ssi) = P
    BY <2>5, <2>7 DEF ExactInv, Awaited
  <2>9. /\ ssi'.out = <<>> /\ P # <<>> /\ P \in Seq(ChangeType) /\ Len(req.items) = Len(P)
        /\ \A i \in 1 .. Len(P) : P[i].action = req.action /\ req.items[i] = P[i].sent
    <3>1. PICK action \in Actions :
            /\ \A i \in 1 .. Len(P) : P[i].action = action
            /\ ssi.out = <<[kind |-> "change", action |-> action,
                            items |-> [i \in 1 .. Len(P) |-> P[i].sent]]>>
      BY <2>7 DEF Changing
    <3>2. P # <<>> /\ P \in Seq(ChangeType)
      BY <1>0, <2>7, SessionFields DEF Changing
    <3>3. /\ req.action = action /\ req.items = [i \in 1 .. Len(P) |-> P[i].sent]
          /\ ssi'.out = <<>>
      BY <2>3, <3>1
    <3> HIDE DEF P, req
    <3>4. Len(req.items) = Len(P) /\ \A i \in 1 .. Len(P) : req.items[i] = P[i].sent
      BY <3>2, <3>3
    <3> QED
      BY <3>1, <3>2, <3>3, <3>4
  <2>10. PICK list : Mirrors(ssi.official, list) /\ Path(View(list, P), inbox, View(server, P))
    BY <2>8 DEF Copying
  <2> HIDE DEF P, req
  <2>11. Chain(g, P, oks, Len(P))
    BY <2>4, <2>9 DEF Chain
  <2>12. Path(View(list, P), inbox', View(server', <<>>))
    <3>1. /\ g \in [0 .. Len(P) -> SUBSET ContentType] /\ Len(oks) = Len(P)
          /\ g[0] = server /\ g[Len(P)] = server'
      BY <2>4, <2>9
    <3>2. Path(View(list, P), inbox, View(g[0], P))
      BY <2>10, <3>1
    <3>3. Path(View(list, P), inbox', View(g[Len(P)], <<>>))
      BY <1>0, <2>4, <2>9, <2>11, <3>1, <3>2, AckPath
    <3> QED
      BY <3>1, <3>3
  <2>13. Awaited(ssi') = <<>>
    <3>1. \A x : <<x>> # <<>>
      OBVIOUS
    <3> QED
      BY <2>9, <3>1 DEF Awaited, Changing
  <2>14. Copying(ssi', inbox', server')
    BY <2>3, <2>10, <2>12, <2>13 DEF Copying, P
  <2>15. ~Asks(ssi')
    BY <2>9, NotAsking
  <2> QED
    BY <2>3, <2>6, <2>14, <2>15, SoundSame DEF Sound
<1>3. CASE OtherClient
  <2>1. Announced /\ server' \in SUBSET ContentType
    BY <1>0, <1>3, OtherClientLemma
  <2>2. PICK action \in Actions, it \in ContentType :
          /\ action = "add" => At(server, it) = {}
          /\ action # "add" => At(server, it) # {}
          /\ server' = Serve(server, action, it)
          /\ inbox' = Append(inbox, [kind |-> action, item |-> it])
          /\ ssi.received /\ troubles' = troubles \cup {"foreign"} /\ ssi' = ssi
    BY <2>1 DEF Announced
  <2> DEFINE m == [kind |-> action, item |-> it]
             a == View(server, Awaited(ssi))
             b == View(server', Awaited(ssi))
  <2>3. m \in MessageType /\ m.kind = action /\ m.item = it
    BY MessageKinds
  <2>4. ~Asks(ssi) /\ Sound(ssi) /\ Copying(ssi, inbox, server)
    BY <2>2, NotAsking DEF ExactInv
  <2>5. PICK list : /\ Mirrors(ssi.official, list)
                    /\ Path(View(list, ssi.pending), inbox, a)
    BY <2>4 DEF Copying
  <2>6. /\ a \in ViewType /\ b \in ViewType
        /\ a.list = server /\ b.list = server' /\ a.rest = b.rest
    <3>1. a \in ViewType
      <4> HIDE DEF a
      <4> QED
        BY <1>0, <2>5, PathEnds
    <3> QED
      BY <2>1, <3>1, ViewIs
  <2> HIDE DEF m, a, b
  <2>7. Edits(a, b, m.kind, m.item)
    BY <2>2, <2>3, <2>6 DEF Edits
  <2>8. <<a, m, b>> \in Moves
    BY <2>3, <2>6, <2>7, MovesIs
  <2>9. Path(View(list, ssi.pending), inbox', b)
    <3>1. inbox' = Append(inbox, m)
      BY <2>2 DEF m
    <3> QED
      BY <1>0, <2>3, <2>5, <2>6, <2>8, <3>1, PathMore
  <2>10. Copying(ssi, inbox', server')
    BY <2>5, <2>9 DEF Copying, b
  <2> QED
    BY <2>2, <2>4, <2>10
<1> QED
  BY <1>1, <1>2, <1>3

(* Every step keeps the copy on its way. *)
LEMMA ExactInvStep ==
  ASSUME TInv, AckInv, ExactInv, [Next]_vars
  PROVE  ExactInv'
<1>0. /\ ssi \in Sessions /\ ssi.reuse = FALSE /\ server \in SUBSET ContentType
      /\ IsFiniteSet(server) /\ inbox \in Seq(MessageType) /\ turns \in Nat
  BY NamesAssumption DEF TInv
<1> SUFFICES ASSUME troubles' \cap {"disturbed", "retyped", "error"} = {}
             PROVE  /\ Sound(ssi')
                    /\ IF Asks(ssi') THEN ssi'.official = <<>> /\ OwnIds(server')
                       ELSE Copying(ssi', inbox', server')
  BY DEF ExactInv
<1>1. CASE User
  <2>1. UserDone
    BY <1>0, <1>1, UserLemma
  <2>2. /\ ssi.received /\ ssi' \in From(ssi) /\ Noted /\ inbox' = inbox /\ server' = server
    BY <2>1 DEF UserDone
  <2>3. troubles \cap {"disturbed", "retyped", "error"} = {} /\ ~Disturbed(ssi') /\ ~Retyped(ssi')
    BY <2>2 DEF Noted
  <2>4. ~Asks(ssi) /\ Exchange(ssi, inbox) /\ Sound(ssi) /\ Copying(ssi, inbox, server)
    BY <2>2, <2>3, NotAsking DEF AckInv, ExactInv
  <2>5. ssi.out = <<>> \/ Changing(ssi)
    BY <2>4 DEF Exchange
  <2>6. PICK list : /\ Mirrors(ssi.official, list)
                    /\ Path(View(list, ssi.pending), inbox, View(server, Awaited(ssi)))
    BY <2>4 DEF Copying
  <2>7. Mirrors(ssi'.official, list)
    BY <1>0, <2>2, <2>6, FromMirrors
  <2>8. Copying(ssi', inbox, server) /\ OneKind(ssi') /\ (ssi'.out = <<>> \/ Changing(ssi'))
    BY <1>0, <2>2, <2>4, <2>5, <2>6, <2>7, CopyFrom DEF Sound
  <2> QED
    BY <2>2, <2>3, <2>8, NotAsking DEF Sound
<1>2. CASE SendList \/ Carry \/ OtherClient
  BY <1>2, ExactInvServer
<1>3. CASE Fail
  <2>1. troubles' = troubles \cup {"error"}
    BY <1>0, <1>3, FailLemma DEF Failed
  <2> QED
    BY <2>1
<1>4. CASE Process
  <2>1. Processed
    BY <1>0, <1>4, ProcessLemma
  <2>2. inbox # <<>> /\ inbox' = Tail(inbox) /\ Noted /\ server' = server
    BY <2>1 DEF Processed
  <2>3. PICK S \in Sessions, T \in Sessions :
          SameButReuse(ssi, S) /\ Handled(S, T, Head(inbox)) /\ SameButReuse(T, ssi')
    BY <2>1 DEF Processed
  <2>4. troubles \cap {"disturbed", "retyped", "error"} = {} /\ ~Disturbed(ssi') /\ ~Retyped(ssi')
    BY <2>2 DEF Noted
  <2>5. Exchange(ssi, inbox) /\ ~Asks(ssi)
    <3>1. Exchange(ssi, inbox)
      BY <2>4 DEF AckInv
    <3>2. ssi.out = <<>> \/ Changing(ssi)
      BY <2>2, <3>1 DEF Exchange
    <3> QED
      BY <3>1, <3>2, NotAsking
  <2>6. Sound(ssi) /\ Copying(ssi, inbox, server)
    BY <2>4, <2>5 DEF ExactInv
  <2>7. /\ S.local = ssi.local /\ S.official = ssi.official /\ S.pending = ssi.pending
        /\ S.waiting = ssi.waiting /\ S.received = ssi.received /\ S.out = ssi.out
    BY <2>3 DEF SameButReuse
  <2>8. Exchange(S, inbox) /\ Sound(S) /\ Copying(S, inbox, server)
    BY <2>5, <2>6, <2>7, ExchangeSame, SoundSame, CopySame DEF Sound
  <2>9. Copying(T, Tail(inbox), server) /\ OneKind(T) /\ (T.out = <<>> \/ Changing(T))
    BY <1>0, <2>2, <2>3, <2>8, CopyRead
  <2>10. /\ ssi'.local = T.local /\ ssi'.official = T.official /\ ssi'.pending = T.pending
         /\ ssi'.waiting = T.waiting /\ ssi'.received = T.received /\ ssi'.out = T.out
    BY <2>3 DEF SameButReuse
  <2>11. Copying(ssi', inbox', server') /\ OneKind(ssi')
    BY <2>2, <2>9, <2>10, SoundSame, CopySame
  <2>12. ~Asks(ssi')
    <3>1. ssi'.out = <<>> \/ Changing(ssi')
      BY <2>9, <2>10 DEF Changing
    <3> QED
      BY <3>1, NotAsking
  <2> QED
    BY <2>4, <2>11, <2>12 DEF Sound
<1>5. CASE gaim_ssi_rerequestdata
  <2>1. timer > 0 /\ troubles' = troubles
    BY <1>5 DEF gaim_ssi_rerequestdata
  <2> QED
    BY <2>1 DEF AckInv
<1>6. CASE UNCHANGED vars
  BY <1>6 DEF vars, ExactInv
<1> QED
  BY <1>1, <1>2, <1>3, <1>4, <1>5, <1>6 DEF Next, Server

(* When all is read, the copy has arrived. *)
LEMMA ExactLemma ==
  ASSUME ExactInv
  PROVE  ExactUnlessDisturbed
<1> SUFFICES ASSUME troubles \cap {"disturbed", "retyped", "error"} = {}, Quiet
             PROVE  Contents(ssi.official) = server
  BY DEF ExactUnlessDisturbed, ExactCopy
<1>1. ssi.out = <<>> /\ inbox = <<>>
  BY DEF Quiet
<1>2. Copying(ssi, <<>>, server)
  BY <1>1, NotAsking DEF ExactInv
<1>3. PICK list : /\ Mirrors(ssi.official, list)
                  /\ Path(View(list, ssi.pending), <<>>, View(server, Awaited(ssi)))
  BY <1>2 DEF Copying
<1>4. View(list, ssi.pending) = View(server, Awaited(ssi))
  BY <1>3, PathNone
<1>5. list = server
  BY <1>4, ViewIs
<1> QED
  BY <1>3, <1>5 DEF Mirrors, Contents

(* The official list is "an exact copy of what is stored on the AIM        *)
(* servers" whenever nothing is on its way: for every list, whatever the   *)
(* server refuses, however it cuts its answers and whatever another client *)
(* does between, as long as no item of a request changes on the way.       *)
THEOREM ExactCopied == Spec => []ExactUnlessDisturbed
<1>1. Init => TInv /\ AckInv /\ ExactInv
  BY TInvInit, AckInvInit, ExactInvInit
<1>2. TInv /\ AckInv /\ ExactInv /\ [Next]_vars => TInv' /\ AckInv' /\ ExactInv'
  BY TInvStep, AckInvStep, ExactInvStep
<1>3. ExactInv => ExactUnlessDisturbed
  BY ExactLemma
<1> QED
  BY <1>1, <1>2, <1>3, PTL DEF Spec
=============================================================================
