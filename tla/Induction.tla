----------------------------- MODULE Induction -----------------------------
(***************************************************************************)
(* Induction and recursion over the naturals in a first-order form.  The   *)
(* induction theorems of the library take the predicate as an operator;    *)
(* here it is a set, and the step of a recursion is a function, so that    *)
(* SMT and Zenon can instantiate them.                                     *)
(***************************************************************************)
EXTENDS Integers, Sequences, FiniteSetTheorems, TLAPS

(* A non-empty set of naturals has a least element: the intervals 1 .. x   *)
(* are well-founded under the subset relation.                             *)
LEMMA LeastElement ==
  ASSUME NEW T, T \subseteq Nat, T # {}
  PROVE  \E x \in T : \A y \in T : x <= y
<1> DEFINE Intervals == {1 .. x : x \in T}
           R == StrictSubsetOrdering(Nat)
<1>1. IsWellFoundedOn(R, FiniteSubsetsOf(Nat))
  BY FS_StrictSubsetOrderingWellFounded
<1>2. \A x \in T : 1 .. x \in SUBSET Nat /\ IsFiniteSet(1 .. x)
  BY FS_Interval
<1>3. Intervals \subseteq FiniteSubsetsOf(Nat) /\ Intervals # {}
  BY <1>2 DEF FiniteSubsetsOf
<1>4. \E X \in Intervals : \A Y \in Intervals : <<Y, X>> \notin R
  <2> HIDE DEF Intervals, R
  <2> QED
    BY <1>1, <1>3, WFMin
<1>5. PICK x \in T : \A y \in T : <<1 .. y, 1 .. x>> \notin R
  BY <1>4
<1>6. ASSUME NEW y \in T, y < x
      PROVE  FALSE
  <2>1. 1 .. y \subseteq 1 .. x /\ x \in 1 .. x /\ x \notin 1 .. y
    BY <1>6
  <2>2. 1 .. y \in SUBSET Nat /\ 1 .. x \in SUBSET Nat /\ 1 .. y # 1 .. x
    BY <2>1
  <2>3. <<1 .. y, 1 .. x>> \in R
    BY <2>1, <2>2 DEF StrictSubsetOrdering
  <2> QED
    BY <2>3, <1>5
<1> QED
  BY <1>5, <1>6

(* Induction from 0 to N. *)
LEMMA UpTo ==
  ASSUME NEW N \in Nat, NEW T, 0 \in T,
         \A n \in 0 .. N - 1 : n \in T => n + 1 \in T
  PROVE  0 .. N \subseteq T
<1> DEFINE Bad == (0 .. N) \ T
<1> SUFFICES ASSUME Bad # {}
             PROVE  FALSE
  OBVIOUS
<1>1. Bad \subseteq Nat
  OBVIOUS
<1>2. PICK x \in Bad : \A y \in Bad : x <= y
  <2> HIDE DEF Bad
  <2> QED
    BY <1>1, LeastElement
<1>3. x # 0 /\ x - 1 \in 0 .. N - 1
  BY <1>2
<1>4. x - 1 \notin Bad
  BY <1>2, <1>3
<1>5. x - 1 \in T
  BY <1>3, <1>4
<1> QED
  BY <1>2, <1>3, <1>5

(* f begins with a and goes on by the steps G[1], ..., G[m].               *)
Follows(f, m, a, G) == f[0] = a /\ \A n \in 1 .. m : f[n] = G[n][f[n - 1]]

(* A function that is defined by recursion from 0 to N exists. *)
LEMMA Recursion ==
  ASSUME NEW N \in Nat, NEW S, NEW a \in S, NEW G \in [1 .. N -> [S -> S]]
  PROVE  \E f \in [0 .. N -> S] : Follows(f, N, a, G)
<1> DEFINE T == {m \in 0 .. N : \E f \in [0 .. m -> S] : Follows(f, m, a, G)}
<1>1. 0 \in T
  <2> DEFINE f == [n \in 0 .. 0 |-> a]
  <2>1. f \in [0 .. 0 -> S] /\ Follows(f, 0, a, G)
    BY DEF Follows
  <2> QED
    BY <2>1
<1>2. ASSUME NEW m \in 0 .. N - 1, m \in T
      PROVE  m + 1 \in T
  <2>1. PICK f \in [0 .. m -> S] : Follows(f, m, a, G)
    BY <1>2
  <2> DEFINE x == G[m + 1][f[m]]
             g == [n \in 0 .. m + 1 |-> IF n = m + 1 THEN x ELSE f[n]]
  <2>2. x \in S
    <3>1. m + 1 \in 1 .. N /\ m \in 0 .. m
      OBVIOUS
    <3>2. G[m + 1] \in [S -> S] /\ f[m] \in S
      BY <3>1
    <3> QED
      BY <3>2
  <2>3. g \in [0 .. m + 1 -> S]
    <3> HIDE DEF x
    <3> QED
      BY <2>2
  <2>4. Follows(g, m + 1, a, G)
    <3>1. g[0] = a
      BY <2>1 DEF Follows
    <3>2. \A n \in 1 .. m : g[n] = G[n][g[n - 1]]
      BY <2>1 DEF Follows
    <3>3. g[m + 1] = G[m + 1][g[m]]
      OBVIOUS
    <3>4. \A n \in 1 .. m + 1 : n \in 1 .. m \/ n = m + 1
      OBVIOUS
    <3>5. m + 1 - 1 = m
      OBVIOUS
    <3> HIDE DEF g, x
    <3> QED
      BY <3>1, <3>2, <3>3, <3>4, <3>5 DEF Follows
  <2>5. m + 1 \in 0 .. N
    OBVIOUS
  <2> HIDE DEF g, x
  <2> QED
    BY <2>3, <2>4, <2>5
<1>3. 0 .. N \subseteq T
  <2> HIDE DEF T
  <2> QED
    BY <1>1, <1>2, UpTo
<1>4. N \in T
  <2> HIDE DEF T
  <2> QED
    BY <1>3
<1> QED
  BY <1>4
============================================================================
