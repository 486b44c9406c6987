------------------------------ MODULE Inductions ------------------------------
(***************************************************************************)
(* Induction over the numbers, and what it shows of recursive functions    *)
(* and of folds.  The theorems of the library that take a predicate as a   *)
(* parameter cannot be used for it; the least element of a set of numbers  *)
(* can.                                                                    *)
(***************************************************************************)
EXTENDS Integers, Sequences, SequencesExt, WellFoundedInduction, TLAPS

\* Every set of numbers has a least one.
LEMMA LeastNatural ==
  ASSUME NEW S \in SUBSET Nat, S # {} PROVE \E n \in S : \A m \in S : n <= m
<1> DEFINE R == {p \in Nat \X Nat : p[1] < p[2]}
<1>1. IsWellFoundedOn(R, Nat)
  BY NatLessThanWellFounded DEF OpToRel
<1>2. \A m, n \in Nat : <<m, n>> \in R <=> m < n
  OBVIOUS
<1> HIDE DEF R
<1>3. PICK n \in S : \A m \in S : ~ (<<m, n>> \in R)
  BY <1>1, WFMin
<1>4. \A m \in S : ~ (m < n)
  BY <1>2, <1>3
<1> QED
  BY <1>4

LEMMA NumbersInduct ==
  ASSUME NEW S, 0 \in S, \A n \in Nat : n \in S => n + 1 \in S
  PROVE  Nat \subseteq S
<1> SUFFICES ASSUME Nat \ S # {} PROVE FALSE
  OBVIOUS
<1>1. PICK n \in Nat \ S : \A m \in Nat \ S : n <= m
  BY LeastNatural
<1>2. n - 1 \in Nat /\ n - 1 \notin Nat \ S
  BY <1>1
<1> QED
  BY <1>1, <1>2

\* A function may be defined by recursion up to a number.
LEMMA Iterates ==
  ASSUME NEW S, NEW a \in S, NEW F \in [S -> S], NEW N \in Nat
  PROVE  \E g \in [0..N -> S] : \A n \in 0..N : g[n] = IF n = 0 THEN a ELSE F[g[n - 1]]
<1> DEFINE Upto == {k \in Nat : \E g \in [0..k -> S] :
                                  \A n \in 0..k : g[n] = IF n = 0 THEN a ELSE F[g[n - 1]]}
<1>1. 0 \in Upto
  <2>1. \A n \in 0..0 : [k \in 0..0 |-> a][n] = IF n = 0 THEN a ELSE F[[k \in 0..0 |-> a][n - 1]]
    OBVIOUS
  <2> QED
    BY <2>1
<1>2. ASSUME NEW k \in Nat, k \in Upto PROVE k + 1 \in Upto
  <2>1. PICK g \in [0..k -> S] : \A n \in 0..k : g[n] = IF n = 0 THEN a ELSE F[g[n - 1]]
    BY <1>2
  <2> DEFINE h == [n \in 0..k + 1 |-> IF n = k + 1 THEN F[g[k]] ELSE g[n]]
  <2>2. h \in [0..k + 1 -> S]
    BY <2>1
  <2>3. ASSUME NEW n \in 0..k + 1 PROVE h[n] = IF n = 0 THEN a ELSE F[h[n - 1]]
    BY <2>1, <2>3
  <2> HIDE DEF h
  <2> QED
    BY <2>2, <2>3
<1> HIDE DEF Upto
<1>3. N \in Upto
  BY <1>1, <1>2, NumbersInduct
<1> QED
  BY <1>3 DEF Upto

LEMMA MaxOfSome ==
  ASSUME NEW n \in Nat, NEW t \in SUBSET (1..n), t # {}
  PROVE  Max(t) \in t /\ \A x \in t : x <= Max(t)
<1> DEFINE S == {n - x : x \in t}
<1>1. \A x \in t : x \in Int /\ n - x \in Nat
  OBVIOUS
<1>2. S \in SUBSET Nat /\ S # {}
  BY <1>1
<1>3. PICK d \in S : \A e \in S : d <= e
  <2> HIDE DEF S
  <2> QED
    BY <1>2, LeastNatural
<1>4. PICK x \in t : \A y \in t : n - x <= n - y
  BY <1>3
<1>5. \A y \in t : x >= y
  BY <1>1, <1>4
<1>6. Max(t) \in t /\ \A y \in t : Max(t) >= y
  BY <1>5 DEF Max
<1> QED
  BY <1>1, <1>6

\* The function a fold over a sequence of length n is defined by.
FoldsOver(iter, V, op, base, n, s) ==
  /\ iter \in [SUBSET (1..n) -> V]
  /\ \A t \in SUBSET (1..n) :
       iter[t] = IF t = {} THEN base ELSE op[<<iter[t \ {Max(t)}], s[Max(t)]>>]

LEMMA FoldExists ==
  ASSUME NEW V, NEW E, NEW op \in [V \X E -> V], NEW base \in V, NEW n \in Nat,
         NEW s \in [1..n -> E]
  PROVE  \E iter : FoldsOver(iter, V, op, base, n, s)
<1> DEFINE Holds(k, iter) ==
             \A t \in SUBSET (1..k) :
               iter[t] = IF t = {} THEN base ELSE op[<<iter[t \ {Max(t)}], s[Max(t)]>>]
           Exist(k) == \E iter \in [SUBSET (1..k) -> V] : Holds(k, iter)
           S == {k \in Nat : k <= n => Exist(k)}
<1>1. Exist(0)
  <2> DEFINE none == [t \in SUBSET (1..0) |-> base]
  <2>1. none \in [SUBSET (1..0) -> V] /\ \A t \in SUBSET (1..0) : none[t] = base /\ t = {}
    OBVIOUS
  <2> HIDE DEF none
  <2> QED
    BY <2>1
<1>2. ASSUME NEW k \in Nat, k + 1 <= n, Exist(k) PROVE Exist(k + 1)
  <2>1. PICK iter \in [SUBSET (1..k) -> V] : Holds(k, iter)
    BY <1>2
  <2> DEFINE next == [t \in SUBSET (1..k + 1) |->
                        IF k + 1 \in t THEN op[<<iter[t \ {k + 1}], s[k + 1]>>] ELSE iter[t]]
  <2>2. s[k + 1] \in E
    BY <1>2
  <2>3. \A t \in SUBSET (1..k + 1) : (k + 1 \notin t => t \in SUBSET (1..k))
                                     /\ t \ {k + 1} \in SUBSET (1..k)
    OBVIOUS
  <2>4. /\ next \in [SUBSET (1..k + 1) -> V]
        /\ \A t \in SUBSET (1..k + 1) :
             next[t] = IF k + 1 \in t THEN op[<<iter[t \ {k + 1}], s[k + 1]>>] ELSE iter[t]
    BY <2>1, <2>2, <2>3
  <2> HIDE DEF next
  <2>5. ASSUME NEW t \in SUBSET (1..k + 1)
        PROVE  next[t] = IF t = {} THEN base ELSE op[<<next[t \ {Max(t)}], s[Max(t)]>>]
    <3>1. CASE k + 1 \in t
      <4>1. Max(t) = k + 1
        <5>1. k + 1 \in Nat /\ t # {}
          BY <3>1
        <5>2. Max(t) \in t /\ \A x \in t : x <= Max(t)
          BY <5>1, MaxOfSome
        <5>3. Max(t) \in 1..k + 1 /\ k + 1 <= Max(t)
          BY <3>1, <5>2
        <5> QED
          BY <5>3
      <4>2. next[t \ {k + 1}] = iter[t \ {k + 1}]
        <5>1. t \ {k + 1} \in SUBSET (1..k + 1) /\ k + 1 \notin t \ {k + 1}
          OBVIOUS
        <5> QED
          BY <2>4, <5>1
      <4> QED
        BY <2>4, <3>1, <4>1, <4>2
    <3>2. CASE k + 1 \notin t
      <4>1. t \in SUBSET (1..k) /\ next[t] = iter[t]
        BY <2>3, <2>4, <3>2
      <4>2. CASE t = {}
        BY <2>1, <4>1, <4>2
      <4>3. CASE t # {}
        <5>1. /\ t \ {Max(t)} \in SUBSET (1..k + 1) /\ k + 1 \notin t \ {Max(t)}
          BY <3>2
        <5>2. next[t \ {Max(t)}] = iter[t \ {Max(t)}]
          BY <2>4, <5>1
        <5> QED
          BY <2>1, <4>1, <4>3, <5>2
      <4> QED
        BY <4>2, <4>3
    <3> QED
      BY <3>1, <3>2
  <2> QED
    BY <2>4, <2>5
<1> HIDE DEF Exist
<1>3. 0 \in S /\ \A k \in Nat : k \in S => k + 1 \in S
  BY <1>1, <1>2
<1>4. n \in S
  <2> HIDE DEF S
  <2> QED
    BY <1>3, NumbersInduct
<1>5. Exist(n)
  BY <1>4
<1> QED
  BY <1>5 DEF Exist, FoldsOver

\* Such a function goes through a sequence from its first element to its last.
LEMMA FoldSteps ==
  ASSUME NEW n \in Nat, NEW k \in 1..n
  PROVE  /\ 1..k \in SUBSET (1..n) /\ 1..k # {} /\ Max(1..k) = k
         /\ (1..k) \ {Max(1..k)} = 1..k - 1
<1>1. k \in Nat /\ 1..k \in SUBSET (1..k) /\ k \in 1..k /\ 1..k # {}
  OBVIOUS
<1>2. Max(1..k) = k
  <2>1. Max(1..k) \in 1..k /\ \A x \in 1..k : x <= Max(1..k)
    BY <1>1, MaxOfSome
  <2> QED
    BY <1>1, <2>1
<1> QED
  BY <1>2

=============================================================================
