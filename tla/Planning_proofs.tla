--------------------------- MODULE Planning_proofs ----------------------------
(***************************************************************************)
(* Which units may be at work together, who may review them, and what the  *)
(* reviewers said of a unit that reached the merge queue, for every plan,  *)
(* policy, number of commands and order of their steps.                    *)
(***************************************************************************)
EXTENDS Dispatch, TeamReview, Inductions, FiniteSetTheorems, SequenceTheorems

(****************************** The ancestors ******************************)

Followed(known, id, N) ==
  CHOOSE grow : grow = [n \in 0..N |-> IF n = 0 THEN known[id] \cap Ids
                         ELSE grow[n - 1] \cup UNION {known[j] \cap Ids : j \in grow[n - 1]}]

LEMMA AncestorsFollowed ==
  ASSUME NEW known, NEW id, NEW N \in Nat, N = Cardinality(Ids)
  PROVE  AncestorsIn(known, id) = Followed(known, id, N)[N]
  BY DEF AncestorsIn, Followed

LEMMA AncestorsGrow ==
  ASSUME IsFiniteSet(Ids), NEW id
  PROVE  /\ Cardinality(Ids) \in Nat
         /\ \E grow \in [0..Cardinality(Ids) -> SUBSET Ids] :
              /\ Ancestors(id) = grow[Cardinality(Ids)]
              /\ grow[0] = deps[id] \cap Ids
              /\ \A n \in 0..Cardinality(Ids) - 1 :
                   grow[n + 1] = grow[n] \cup UNION {deps[j] \cap Ids : j \in grow[n]}
<1> DEFINE N == Cardinality(Ids)
           F == [X \in SUBSET Ids |-> X \cup UNION {deps[j] \cap Ids : j \in X}]
           first == deps[id] \cap Ids
<1>1. N \in Nat
  BY FS_CardinalityType
<1>2. F \in [SUBSET Ids -> SUBSET Ids] /\ first \in SUBSET Ids
  OBVIOUS
<1> HIDE DEF N
<1>3. PICK g \in [0..N -> SUBSET Ids] : \A n \in 0..N : g[n] = IF n = 0 THEN first ELSE F[g[n - 1]]
  <2> DEFINE S == SUBSET Ids
  <2>1. F \in [S -> S] /\ first \in S
    BY <1>2
  <2> HIDE DEF F, first, S
  <2>2. \E g \in [0..N -> S] : \A n \in 0..N : g[n] = IF n = 0 THEN first ELSE F[g[n - 1]]
    BY <1>1, <2>1, Iterates
  <2> QED
    BY <2>2 DEF S
<1>4. g = [n \in 0..N |-> IF n = 0 THEN deps[id] \cap Ids
                          ELSE g[n - 1] \cup UNION {deps[j] \cap Ids : j \in g[n - 1]}]
  <2>1. ASSUME NEW n \in 0..N
        PROVE g[n] = IF n = 0 THEN deps[id] \cap Ids
                     ELSE g[n - 1] \cup UNION {deps[j] \cap Ids : j \in g[n - 1]}
    <3>1. CASE n = 0
      BY <1>3, <3>1
    <3>2. CASE n # 0
      <4>1. n - 1 \in 0..N /\ g[n - 1] \in SUBSET Ids
        BY <1>1, <1>3, <3>2
      <4>2. g[n] = F[g[n - 1]]
        BY <1>3, <3>2
      <4> QED
        BY <3>2, <4>1, <4>2
    <3> QED
      BY <3>1, <3>2
  <2> QED
    BY <1>3, <2>1
<1> DEFINE G == Followed(deps, id, N)
<1>5. G = [n \in 0..N |-> IF n = 0 THEN deps[id] \cap Ids
                          ELSE G[n - 1] \cup UNION {deps[j] \cap Ids : j \in G[n - 1]}]
  BY <1>4 DEF Followed
<1> HIDE DEF G
<1>6. \A n \in 0..N : G[n] = IF n = 0 THEN deps[id] \cap Ids
                             ELSE G[n - 1] \cup UNION {deps[j] \cap Ids : j \in G[n - 1]}
  BY <1>5
<1>7. ASSUME NEW n \in Nat, n \in {k \in Nat : k \in 0..N => G[k] \in SUBSET Ids}
      PROVE  n + 1 \in {k \in Nat : k \in 0..N => G[k] \in SUBSET Ids}
  <2> SUFFICES ASSUME n + 1 \in 0..N PROVE G[n + 1] \in SUBSET Ids
    OBVIOUS
  <2>1. G[n] \in SUBSET Ids
    BY <1>1, <1>7
  <2>2. G[n + 1] = G[n] \cup UNION {deps[j] \cap Ids : j \in G[n]}
    <3>1. n + 1 \in 0..N /\ n + 1 # 0 /\ (n + 1) - 1 = n
      BY <1>1
    <3> QED
      BY <1>6, <3>1
  <2> QED
    BY <2>1, <2>2
<1>8. 0 \in {k \in Nat : k \in 0..N => G[k] \in SUBSET Ids}
  BY <1>1, <1>6
<1>9. \A n \in 0..N : G[n] \in SUBSET Ids
  <2> DEFINE S == {k \in Nat : k \in 0..N => G[k] \in SUBSET Ids}
  <2>1. Nat \subseteq S
    <3> HIDE DEF S
    <3>1. 0 \in S /\ \A n \in Nat : n \in S => n + 1 \in S
      BY <1>7, <1>8 DEF S
    <3> QED
      BY <3>1, NumbersInduct
  <2> QED
    BY <2>1
<1>10. G \in [0..N -> SUBSET Ids]
  BY <1>5, <1>9
<1>11. Ancestors(id) = G[N]
  BY <1>1, AncestorsFollowed DEF Ancestors, N, G
<1>12. \A n \in 0..N - 1 : G[n + 1] = G[n] \cup UNION {deps[j] \cap Ids : j \in G[n]}
  <2> TAKE n \in 0..N - 1
  <2>1. n + 1 \in 0..N /\ n + 1 # 0 /\ (n + 1) - 1 = n
    BY <1>1
  <2> QED
    BY <1>6, <2>1
<1> QED
  BY <1>1, <1>6, <1>10, <1>11, <1>12 DEF N

\* Dependencies are among the ancestors, and nothing else is that need not be.
LEMMA AncestorsLeast ==
  ASSUME IsFiniteSet(Ids), NEW id, NEW X, deps[id] \cap Ids \subseteq X,
         \A j \in X \cap Ids : deps[j] \cap Ids \subseteq X
  PROVE  Ancestors(id) \subseteq X
<1> DEFINE N == Cardinality(Ids)
<1>1. PICK grow \in [0..N -> SUBSET Ids] :
              /\ Ancestors(id) = grow[N]
              /\ grow[0] = deps[id] \cap Ids
              /\ \A n \in 0..N - 1 :
                   grow[n + 1] = grow[n] \cup UNION {deps[j] \cap Ids : j \in grow[n]}
  BY AncestorsGrow
<1>2. N \in Nat
  BY AncestorsGrow
<1> HIDE DEF N
<1> DEFINE S == {n \in Nat : n \in 0..N => grow[n] \subseteq X}
<1>3. 0 \in S
  BY <1>1
<1>4. ASSUME NEW n \in Nat, n \in S PROVE n + 1 \in S
  <2> SUFFICES ASSUME n + 1 \in 0..N PROVE grow[n + 1] \subseteq X
    OBVIOUS
  <2>1. n \in 0..N - 1 /\ n \in 0..N
    BY <1>2
  <2>2. grow[n] \subseteq X \cap Ids
    BY <1>1, <1>4, <2>1
  <2> QED
    BY <1>1, <2>1, <2>2
<1> HIDE DEF S
<1>5. N \in S
  BY <1>2, <1>3, <1>4, NumbersInduct
<1> QED
  BY <1>1, <1>2, <1>5 DEF S

\* Each step finds an ancestor that was not known, until none is left: as many
\* steps as there are units are enough.
LEMMA AncestorsClosed ==
  ASSUME IsFiniteSet(Ids), NEW id
  PROVE  /\ Ancestors(id) \subseteq Ids /\ deps[id] \cap Ids \subseteq Ancestors(id)
         /\ \A j \in Ancestors(id) : deps[j] \cap Ids \subseteq Ancestors(id)
<1> DEFINE N == Cardinality(Ids)
<1>1. PICK grow \in [0..N -> SUBSET Ids] :
              /\ Ancestors(id) = grow[N]
              /\ grow[0] = deps[id] \cap Ids
              /\ \A n \in 0..N - 1 :
                   grow[n + 1] = grow[n] \cup UNION {deps[j] \cap Ids : j \in grow[n]}
  BY AncestorsGrow
<1>2. N \in Nat
  BY AncestorsGrow
<1>3. \A X \in SUBSET Ids : /\ IsFiniteSet(X) /\ Cardinality(X) \in Nat
                            /\ Cardinality(X) <= N /\ (Cardinality(X) = N => X = Ids)
  BY FS_Subset, FS_CardinalityType
<1> HIDE DEF N
<1> DEFINE Closed(X) == \A j \in X : deps[j] \cap Ids \subseteq X
           S == {n \in Nat : n \in 0..N =>
                   /\ deps[id] \cap Ids \subseteq grow[n]
                   /\ Closed(grow[n]) \/ Cardinality(grow[n]) >= n}
<1>4. 0 \in S
  BY <1>1, <1>2, <1>3
<1>5. ASSUME NEW n \in Nat, n \in S PROVE n + 1 \in S
  <2> SUFFICES ASSUME n + 1 \in 0..N
               PROVE  /\ deps[id] \cap Ids \subseteq grow[n + 1]
                      /\ Closed(grow[n + 1]) \/ Cardinality(grow[n + 1]) >= n + 1
    OBVIOUS
  <2>1. n \in 0..N - 1 /\ n \in 0..N
    BY <1>2
  <2>2. /\ grow[n] \in SUBSET Ids /\ grow[n + 1] \in SUBSET Ids
        /\ grow[n + 1] = grow[n] \cup UNION {deps[j] \cap Ids : j \in grow[n]}
        /\ deps[id] \cap Ids \subseteq grow[n]
        /\ Closed(grow[n]) \/ Cardinality(grow[n]) >= n
    BY <1>1, <1>5, <2>1
  <2>3. CASE Closed(grow[n])
    <3>1. grow[n + 1] = grow[n]
      BY <2>2, <2>3
    <3> QED
      BY <2>2, <2>3, <3>1
  <2>4. CASE ~Closed(grow[n])
    <3>1. grow[n] \subseteq grow[n + 1] /\ grow[n] # grow[n + 1]
      BY <2>2, <2>4
    <3>2. Cardinality(grow[n]) < Cardinality(grow[n + 1])
      <4>1. /\ Cardinality(grow[n]) <= Cardinality(grow[n + 1])
            /\ Cardinality(grow[n + 1]) = Cardinality(grow[n]) => grow[n] = grow[n + 1]
        BY <1>3, <2>2, <3>1, FS_Subset
      <4> QED
        BY <1>3, <2>2, <3>1, <4>1
    <3>3. Cardinality(grow[n + 1]) >= n + 1
      BY <1>3, <2>2, <2>4, <3>2
    <3> QED
      BY <2>2, <3>1, <3>3
  <2> QED
    BY <2>3, <2>4
<1> HIDE DEF S
<1>6. N \in S
  BY <1>2, <1>4, <1>5, NumbersInduct
<1>7. /\ grow[N] \in SUBSET Ids /\ deps[id] \cap Ids \subseteq grow[N]
      /\ Closed(grow[N]) \/ Cardinality(grow[N]) >= N
  BY <1>1, <1>2, <1>6 DEF S
<1>8. Closed(grow[N])
  <2>1. CASE Cardinality(grow[N]) >= N
    <3>1. grow[N] = Ids
      BY <1>2, <1>3, <1>7, <2>1
    <3> QED
      BY <3>1
  <2> QED
    BY <1>7, <2>1
<1> QED
  BY <1>1, <1>7, <1>8

(****************************** The search *********************************)

LEMMA LeastIsOne == ASSUME NEW S \in SUBSET Nat, S # {} PROVE LeastOf(S) \in S
  BY LeastNatural DEF LeastOf

\* Who can be reached along a path of dependencies is an ancestor.
LEMMA PathReaches ==
  ASSUME IsFiniteSet(Ids), NEW p \in Seq(Ids), Len(p) > 1,
         \A i \in 1..Len(p) - 1 : p[i + 1] \in deps[p[i]]
  PROVE  p[Len(p)] \in Ancestors(p[1])
<1> DEFINE S == {n \in Nat : n + 2 \in 1..Len(p) => p[n + 2] \in Ancestors(p[1])}
<1>1. Len(p) \in Nat /\ \A i \in 1..Len(p) : p[i] \in Ids
  OBVIOUS
<1>2. 0 \in S
  <2>1. p[2] \in deps[p[1]] \cap Ids
    BY <1>1
  <2>2. p[2] \in Ancestors(p[1])
    BY <1>1, <2>1, AncestorsClosed
  <2> QED
    BY <2>2
<1>3. ASSUME NEW n \in Nat, n \in S PROVE n + 1 \in S
  <2> SUFFICES ASSUME (n + 1) + 2 \in 1..Len(p) PROVE p[(n + 1) + 2] \in Ancestors(p[1])
    OBVIOUS
  <2>1. n + 2 \in 1..Len(p) - 1 /\ (n + 2) + 1 = (n + 1) + 2 /\ n + 2 \in 1..Len(p)
    BY <1>1
  <2>2. p[n + 2] \in Ancestors(p[1]) /\ p[(n + 1) + 2] \in deps[p[n + 2]] \cap Ids
    BY <1>1, <1>3, <2>1
  <2> QED
    BY <2>2, AncestorsClosed
<1> HIDE DEF S
<1>4. Len(p) - 2 \in Nat /\ Len(p) - 2 \in S
  BY <1>1, <1>2, <1>3, NumbersInduct
<1> QED
  BY <1>1, <1>4 DEF S

\* Without a cycle some unit waits for none of the units that remain.
LEMMA SomeUnitFirst ==
  ASSUME IsFiniteSet(Ids), \A i \in Ids : i \notin Ancestors(i),
         NEW R \in SUBSET Ids, R # {}
  PROVE  \E i \in R : deps[i] \cap R = {}
<1> DEFINE Count(i) == Cardinality(Ancestors(i))
<1>1. \A i \in Ids : /\ Ancestors(i) \subseteq Ids /\ IsFiniteSet(Ancestors(i)) /\ Count(i) \in Nat
                     /\ deps[i] \cap Ids \subseteq Ancestors(i)
                     /\ \A j \in Ancestors(i) : deps[j] \cap Ids \subseteq Ancestors(i)
  <2> TAKE i \in Ids
  <2>1. /\ Ancestors(i) \subseteq Ids /\ deps[i] \cap Ids \subseteq Ancestors(i)
        /\ \A j \in Ancestors(i) : deps[j] \cap Ids \subseteq Ancestors(i)
    BY AncestorsClosed
  <2>2. IsFiniteSet(Ancestors(i)) /\ Count(i) \in Nat
    BY <2>1, FS_Subset, FS_CardinalityType
  <2> QED
    BY <2>1, <2>2
<1> DEFINE Counts == {Count(i) : i \in R}
<1>2. Counts \in SUBSET Nat /\ Counts # {}
  BY <1>1
<1>3. PICK n \in Counts : \A m \in Counts : n <= m
  <2> HIDE DEF Counts
  <2> QED
    BY <1>2, LeastNatural
<1>4. PICK i \in R : \A k \in R : Count(i) <= Count(k)
  BY <1>3
<1>5. ASSUME NEW j \in deps[i] \cap R PROVE FALSE
  <2>1. /\ j \in Ids /\ i \in Ids /\ j \in Ancestors(i) /\ j \notin Ancestors(j)
    BY <1>1, <1>5
  <2>2. Ancestors(j) \subseteq Ancestors(i)
    <3>1. deps[j] \cap Ids \subseteq Ancestors(i)
          /\ \A k \in Ancestors(i) \cap Ids : deps[k] \cap Ids \subseteq Ancestors(i)
      BY <1>1, <2>1
    <3> QED
      BY <3>1, AncestorsLeast
  <2>3. /\ Count(j) <= Count(i)
        /\ Count(i) = Count(j) => Ancestors(i) = Ancestors(j)
    BY <1>1, <2>1, <2>2, FS_Subset
  <2>4. Count(i) <= Count(j)
    BY <1>4
  <2> QED
    BY <1>1, <2>1, <2>3, <2>4
<1> QED
  BY <1>5

OnStack(i) == \E k \in DOMAIN stack : stack[k] = i

SearchTyped ==
  /\ IsFiniteSet(Ids) /\ Ids \subseteq Nat
  /\ color \in [Ids -> {"white", "grey", "black"}]
  /\ stack \in Seq(Ids) /\ cycle \in Seq(Ids)
  /\ tried \in [Ids -> SUBSET Ids]
  /\ stage \in {"search", "layer", "over"}

\* The stack is a path of distinct units, the grey ones.
StackInv ==
  /\ \A i \in Ids : color[i] = "grey" <=> OnStack(i)
  /\ \A k, m \in DOMAIN stack : stack[k] = stack[m] => k = m
  /\ \A k \in 1..Len(stack) - 1 : stack[k + 1] \in deps[stack[k]]

\* A dependency that was looked at is done, or is the next on the stack.
TriedInv ==
  /\ \A i \in Ids : color[i] = "white" => tried[i] = {}
  /\ cycle = << >> =>
       \A k \in DOMAIN stack : \A d \in tried[stack[k]] :
         color[d] = "black" \/ (k < Len(stack) /\ d = stack[k + 1])

\* What the search has left is on no cycle, and so are its dependencies.
BlackInv ==
  \A i \in Ids : color[i] = "black" =>
    /\ i \notin Ancestors(i)
    /\ \A d \in deps[i] \cap Ids : color[d] = "black"

CycleInv ==
  IF cycle = << >>
  THEN stage # "search" => \A i \in Ids : color[i] = "black"
  ELSE /\ stage = "over" /\ Len(cycle) > 1 /\ cycle[1] = cycle[Len(cycle)]
       /\ \A i \in 1..Len(cycle) - 1 : cycle[i + 1] \in deps[cycle[i]]

SearchInv == SearchTyped /\ StackInv /\ TriedInv /\ BlackInv /\ CycleInv

LEMMA SamePlan ==
  ASSUME deps' = deps PROVE Ids' = Ids /\ \A i \in Ids : Ancestors(i)' = Ancestors(i)
<1>1. Ids' = Ids
  BY DEF Ids
<1>2. ASSUME NEW i \in Ids PROVE Ancestors(i)' = Ancestors(i)
  BY <1>1 DEF Ancestors, AncestorsIn
<1> QED
  BY <1>1, <1>2

LEMMA SearchInitially == AnalysisInit => SearchInv
<1> SUFFICES ASSUME AnalysisInit PROVE SearchInv
  OBVIOUS
<1>1. IsFiniteSet(Ids) /\ Ids \subseteq Nat
  BY PlansAssumption DEF AnalysisInit, Ids
<1>2. SearchTyped
  BY <1>1 DEF AnalysisInit, SearchTyped
<1> QED
  BY <1>2 DEF SearchInv, StackInv, OnStack, TriedInv, BlackInv, CycleInv, AnalysisInit

LEMMA VisitKeepsSearch == ASSUME SearchInv, VisitNext PROVE SearchInv'
<1> DEFINE node == LeastOf({i \in Ids : color[i] = "white"})
<1>1. /\ UNCHANGED <<deps, tried, cycle, layers, stage>> /\ stage = "search" /\ stack = << >>
      /\ stack' = <<node>> /\ color' = [color EXCEPT ![node] = "grey"]
      /\ {i \in Ids : color[i] = "white"} # {}
  BY DEF VisitNext, planVars, Grey
<1>2. node \in {i \in Ids : color[i] = "white"}
  <2>1. {i \in Ids : color[i] = "white"} \in SUBSET Nat
    BY DEF SearchInv, SearchTyped
  <2> QED
    BY <1>1, <2>1, LeastIsOne
<1>3. Ids' = Ids /\ \A i \in Ids : Ancestors(i)' = Ancestors(i)
  BY <1>1, SamePlan
<1> HIDE DEF node
<1>4. /\ node \in Ids /\ color[node] = "white" /\ color'[node] = "grey"
      /\ \A i \in Ids : i # node => color'[i] = color[i]
      /\ DOMAIN stack' = {1} /\ stack'[1] = node /\ Len(stack') = 1 /\ DOMAIN stack = {}
  BY <1>1, <1>2 DEF SearchInv, SearchTyped
<1>5. SearchTyped'
  BY <1>1, <1>3, <1>4 DEF SearchInv, SearchTyped
<1>6. StackInv'
  BY <1>1, <1>3, <1>4 DEF SearchInv, StackInv, OnStack
<1>7. TriedInv'
  BY <1>1, <1>3, <1>4 DEF SearchInv, TriedInv
<1>8. BlackInv'
  BY <1>1, <1>3, <1>4 DEF SearchInv, BlackInv
<1>9. CycleInv'
  BY <1>1, <1>3, <1>4 DEF SearchInv, CycleInv
<1> QED
  BY <1>5, <1>6, <1>7, <1>8, <1>9 DEF SearchInv

LEMMA LeaveKeepsSearch == ASSUME SearchInv, LeaveNode PROVE SearchInv'
<1> DEFINE node == stack[Len(stack)]
<1>1. /\ UNCHANGED <<deps, tried, cycle, layers, stage>> /\ stage = "search" /\ stack # << >>
      /\ stack' = SubSeq(stack, 1, Len(stack) - 1) /\ color' = [color EXCEPT ![node] = "black"]
      /\ Untried(node) = {} /\ cycle = << >>
  BY DEF LeaveNode, planVars, Blacken, Last, Front, SearchInv, CycleInv
<1>2. Ids' = Ids /\ \A i \in Ids : Ancestors(i)' = Ancestors(i)
  BY <1>1, SamePlan
<1>3. /\ stack \in Seq(Ids) /\ Len(stack) \in Nat /\ Len(stack) \in DOMAIN stack /\ node \in Ids
      /\ DOMAIN stack = 1..Len(stack)
      /\ stack' \in Seq(Ids) /\ Len(stack') = Len(stack) - 1 /\ DOMAIN stack' = 1..Len(stack) - 1
      /\ \A k \in 1..Len(stack) - 1 : stack'[k] = stack[k] /\ k \in DOMAIN stack
  <2>1. stack \in Seq(Ids) /\ Len(stack) \in Nat /\ Len(stack) > 0 /\ DOMAIN stack = 1..Len(stack)
    BY <1>1 DEF SearchInv, SearchTyped
  <2>2. node \in Ids
    BY <2>1
  <2>3. /\ stack' \in Seq(Ids) /\ Len(stack') = Len(stack) - 1
        /\ \A k \in 1..Len(stack) - 1 : stack'[k] = stack[k]
    BY <1>1, <2>1
  <2> QED
    BY <2>1, <2>2, <2>3
<1> HIDE DEF node
<1>4. /\ color'[node] = "black" /\ \A i \in Ids : i # node => color'[i] = color[i]
      /\ color' \in [Ids -> {"white", "grey", "black"}]
  BY <1>1, <1>3 DEF SearchInv, SearchTyped
<1>5. SearchTyped'
  BY <1>1, <1>2, <1>3, <1>4 DEF SearchInv, SearchTyped
<1>6. \A k \in 1..Len(stack) - 1 : stack'[k] # node
  BY <1>3 DEF SearchInv, StackInv, node
<1>7. StackInv'
  <2>1. ASSUME NEW i \in Ids PROVE color'[i] = "grey" <=> OnStack(i)'
    <3>1. CASE i = node
      BY <1>3, <1>4, <1>6, <3>1 DEF OnStack
    <3>2. CASE i # node
      <4>1. OnStack(i) <=> OnStack(i)'
        <5>1. \A k \in DOMAIN stack : stack[k] = i => k \in 1..Len(stack) - 1
          BY <1>3, <3>2 DEF node
        <5>2. \A k \in DOMAIN stack' : stack'[k] = stack[k] /\ k \in DOMAIN stack
          BY <1>3
        <5> QED
          BY <1>3, <5>1, <5>2 DEF OnStack
      <4> QED
        BY <1>4, <3>2, <4>1 DEF SearchInv, StackInv
    <3> QED
      BY <3>1, <3>2
  <2>2. \A k, m \in DOMAIN stack' : stack'[k] = stack'[m] => k = m
    BY <1>3 DEF SearchInv, StackInv
  <2>3. \A k \in 1..Len(stack') - 1 : stack'[k + 1] \in deps[stack'[k]]
    <3> TAKE k \in 1..Len(stack') - 1
    <3>1. k \in 1..Len(stack) - 1 /\ k + 1 \in 1..Len(stack) - 1
      BY <1>3
    <3> QED
      BY <1>3, <3>1 DEF SearchInv, StackInv
  <2> QED
    BY <1>1, <1>2, <2>1, <2>2, <2>3 DEF StackInv
<1>8. \A d \in deps[node] \cap Ids : color[d] = "black"
  <2> TAKE d \in deps[node] \cap Ids
  <2>1. d \in tried[node]
    BY <1>1 DEF Untried
  <2> QED
    BY <1>1, <1>3, <2>1 DEF SearchInv, TriedInv, node
<1>9. color[node] = "grey"
  BY <1>3 DEF SearchInv, StackInv, OnStack, node
<1>10. TriedInv'
  <2>1. \A i \in Ids : color'[i] = "white" => tried'[i] = {}
    BY <1>1, <1>4 DEF SearchInv, TriedInv
  <2>2. ASSUME NEW k \in DOMAIN stack', NEW d \in tried'[stack'[k]]
        PROVE  color'[d] = "black" \/ (k < Len(stack') /\ d = stack'[k + 1])
    <3>1. k \in DOMAIN stack /\ k < Len(stack) /\ d \in tried[stack[k]] /\ stack[k] \in Ids
      BY <1>1, <1>3, <2>2
    <3>2. color[d] = "black" \/ d = stack[k + 1]
      BY <1>1, <3>1 DEF SearchInv, TriedInv
    <3>3. d \in Ids
      BY <3>1 DEF SearchInv, SearchTyped
    <3>4. CASE k + 1 = Len(stack)
      BY <1>4, <3>2, <3>3, <3>4 DEF node
    <3>5. CASE k + 1 # Len(stack)
      BY <1>3, <1>4, <3>1, <3>2, <3>3, <3>5
    <3> QED
      BY <3>4, <3>5
  <2> QED
    BY <1>1, <1>2, <2>1, <2>2 DEF TriedInv
<1>11. BlackInv'
  <2>1. Ancestors(node) \subseteq {i \in Ids : color[i] = "black"}
    <3> DEFINE X == {i \in Ids : color[i] = "black"}
    <3>1. deps[node] \cap Ids \subseteq X
      BY <1>8
    <3>2. \A j \in X \cap Ids : deps[j] \cap Ids \subseteq X
      BY DEF SearchInv, BlackInv
    <3> HIDE DEF X
    <3>3. Ancestors(node) \subseteq X
      BY <3>1, <3>2, AncestorsLeast DEF SearchInv, SearchTyped
    <3> QED
      BY <3>3 DEF X
  <2>2. node \notin Ancestors(node)
    BY <1>9, <2>1
  <2>3. ASSUME NEW i \in Ids, color'[i] = "black"
        PROVE  i \notin Ancestors(i) /\ \A d \in deps[i] \cap Ids : color'[d] = "black"
    <3>1. CASE i = node
      BY <1>4, <1>8, <2>2, <3>1
    <3>2. CASE i # node
      BY <1>4, <2>3, <3>2 DEF SearchInv, BlackInv
    <3> QED
      BY <3>1, <3>2
  <2> QED
    BY <1>1, <1>2, <2>3 DEF BlackInv
<1>12. CycleInv'
  BY <1>1 DEF CycleInv
<1> QED
  BY <1>5, <1>7, <1>10, <1>11, <1>12 DEF SearchInv

\* The search is over when a cycle is found.
LEMMA LookKeepsSearch ==
  ASSUME SearchInv, LookAtDependency
  PROVE  SearchInv' /\ stage' # "layer" /\ (stage' = "over" => cycle' # << >>)
<1> DEFINE node == stack[Len(stack)]
           dep == LeastOf(Untried(node))
<1>1. /\ UNCHANGED <<deps, layers>> /\ stage = "search" /\ stack # << >>
      /\ Untried(node) # {} /\ tried' = [tried EXCEPT ![node] = @ \cup {dep}]
      /\ cycle = << >>
  BY DEF LookAtDependency, planVars, Last, SearchInv, CycleInv
<1>2. Ids' = Ids /\ \A i \in Ids : Ancestors(i)' = Ancestors(i)
  BY <1>1, SamePlan
<1>3. /\ stack \in Seq(Ids) /\ Len(stack) \in Nat /\ Len(stack) \in DOMAIN stack /\ node \in Ids
      /\ DOMAIN stack = 1..Len(stack) /\ \A k \in DOMAIN stack : stack[k] \in Ids
  BY <1>1 DEF SearchInv, SearchTyped
<1>4. dep \in deps[node] \cap Ids /\ dep \notin tried[node]
  <2>1. Untried(node) \in SUBSET Nat
    BY DEF Untried, SearchInv, SearchTyped
  <2>2. dep \in Untried(node)
    BY <1>1, <2>1, LeastIsOne
  <2> QED
    BY <2>2 DEF Untried
<1>5. \/ /\ color[dep] = "grey"
         /\ cycle' = CycleFrom(dep) /\ stage' = "over" /\ UNCHANGED <<stack, color>>
      \/ /\ color[dep] = "white"
         /\ stack' = Append(stack, dep) /\ color' = [color EXCEPT ![dep] = "grey"]
         /\ UNCHANGED <<cycle, stage>>
      \/ color[dep] = "black" /\ UNCHANGED <<stack, color, cycle, stage>>
  <2>1. color[dep] \in {"white", "grey", "black"}
    BY <1>4 DEF SearchInv, SearchTyped
  <2> QED
    BY <2>1 DEF LookAtDependency, Last, Grey
<1> HIDE DEF dep
<1>6. /\ tried' \in [Ids -> SUBSET Ids] /\ tried'[node] = tried[node] \cup {dep}
      /\ \A i \in Ids : i # node => tried'[i] = tried[i]
  <2> HIDE DEF node
  <2> QED
    BY <1>1, <1>3, <1>4 DEF SearchInv, SearchTyped
<1>7. color[node] = "grey"
  BY <1>3 DEF SearchInv, StackInv, OnStack
<1>8. CASE color[dep] = "black" /\ UNCHANGED <<stack, color, cycle, stage>>
  <2>1. SearchTyped'
    BY <1>1, <1>2, <1>6, <1>8 DEF SearchInv, SearchTyped
  <2>2. StackInv' /\ BlackInv' /\ CycleInv'
    BY <1>1, <1>2, <1>8 DEF SearchInv, StackInv, OnStack, BlackInv, CycleInv
  <2>3. TriedInv'
    <3>1. ASSUME NEW k \in DOMAIN stack, NEW d \in tried'[stack[k]]
          PROVE  color[d] = "black" \/ (k < Len(stack) /\ d = stack[k + 1])
      <4>1. CASE d = dep
        BY <1>8, <4>1
      <4>2. CASE d # dep
        <5>1. d \in tried[stack[k]]
          BY <1>3, <1>6, <3>1, <4>2
        <5> QED
          BY <1>1, <5>1 DEF SearchInv, TriedInv
      <4> QED
        BY <4>1, <4>2
    <3>2. \A i \in Ids : color[i] = "white" => tried'[i] = {}
      BY <1>6, <1>7 DEF SearchInv, TriedInv
    <3> QED
      BY <1>2, <1>8, <3>1, <3>2 DEF TriedInv
  <2> QED
    BY <1>1, <1>8, <2>1, <2>2, <2>3 DEF SearchInv
<1>9. CASE /\ color[dep] = "white"
           /\ stack' = Append(stack, dep) /\ color' = [color EXCEPT ![dep] = "grey"]
           /\ UNCHANGED <<cycle, stage>>
  <2>1. /\ stack' \in Seq(Ids) /\ Len(stack') = Len(stack) + 1 /\ DOMAIN stack' = 1..Len(stack) + 1
        /\ \A k \in DOMAIN stack : stack'[k] = stack[k] /\ k \in DOMAIN stack'
        /\ stack'[Len(stack) + 1] = dep
    <3> HIDE DEF node
    <3>1. dep \in Ids
      BY <1>4
    <3> QED
      BY <1>3, <1>9, <3>1
  <2>2. /\ color' \in [Ids -> {"white", "grey", "black"}] /\ color'[dep] = "grey"
        /\ \A i \in Ids : i # dep => color'[i] = color[i]
    BY <1>4, <1>9 DEF SearchInv, SearchTyped
  <2>3. SearchTyped'
    BY <1>1, <1>2, <1>6, <1>9, <2>1, <2>2 DEF SearchInv, SearchTyped
  <2>4. \A k \in DOMAIN stack : stack[k] # dep
    BY <1>3, <1>9 DEF SearchInv, StackInv, OnStack
  <2>5. StackInv'
    <3>1. ASSUME NEW i \in Ids PROVE color'[i] = "grey" <=> OnStack(i)'
      <4>1. CASE i = dep
        BY <1>3, <2>1, <2>2, <4>1 DEF OnStack
      <4>2. CASE i # dep
        <5>1. OnStack(i)' <=> OnStack(i)
          BY <1>3, <2>1, <4>2 DEF OnStack
        <5> QED
          BY <2>2, <4>2, <5>1 DEF SearchInv, StackInv
      <4> QED
        BY <4>1, <4>2
    <3>2. \A k, m \in DOMAIN stack' : stack'[k] = stack'[m] => k = m
      BY <1>3, <2>1, <2>4 DEF SearchInv, StackInv
    <3>3. \A k \in 1..Len(stack') - 1 : stack'[k + 1] \in deps[stack'[k]]
      <4> TAKE k \in 1..Len(stack') - 1
      <4>1. k \in 1..Len(stack) /\ stack'[k] = stack[k]
        BY <1>3, <2>1
      <4>2. CASE k = Len(stack)
        BY <1>4, <2>1, <4>1, <4>2
      <4>3. CASE k # Len(stack)
        <5> DEFINE n == Len(stack)
        <5>1. n \in Nat /\ k \in 1..n /\ k # n /\ DOMAIN stack = 1..n
          BY <1>3, <4>1, <4>3
        <5> HIDE DEF n
        <5>2. k \in 1..n - 1 /\ k + 1 \in DOMAIN stack
          BY <5>1
        <5>3. k \in 1..Len(stack) - 1 /\ k + 1 \in DOMAIN stack
          BY <5>2 DEF n
        <5> QED
          BY <2>1, <4>1, <5>3 DEF SearchInv, StackInv
      <4> QED
        BY <4>2, <4>3
    <3> QED
      BY <1>1, <1>2, <3>1, <3>2, <3>3 DEF StackInv
  <2>6. TriedInv'
    <3>1. ASSUME NEW k \in DOMAIN stack', NEW d \in tried'[stack'[k]]
          PROVE  color'[d] = "black" \/ (k < Len(stack') /\ d = stack'[k + 1])
      <4>1. CASE k = Len(stack) + 1
        <5>1. tried'[stack'[k]] = {}
          BY <1>4, <1>6, <1>7, <1>9, <2>1, <4>1 DEF SearchInv, TriedInv
        <5> QED
          BY <3>1, <5>1
      <4>2. CASE k # Len(stack) + 1
        <5>1. k \in DOMAIN stack /\ stack'[k] = stack[k] /\ k < Len(stack')
          BY <1>3, <2>1, <4>2
        <5>2. CASE d \in tried[stack[k]]
          <6>1. color[d] = "black" \/ (k < Len(stack) /\ d = stack[k + 1])
            BY <1>1, <5>1, <5>2 DEF SearchInv, TriedInv
          <6>2. d \in Ids
            BY <1>3, <5>1, <5>2 DEF SearchInv, SearchTyped
          <6>3. CASE color[d] = "black"
            BY <1>9, <2>2, <6>2, <6>3
          <6>4. CASE k < Len(stack) /\ d = stack[k + 1]
            <7>1. k + 1 \in DOMAIN stack
              BY <1>3, <5>1, <6>4
            <7> QED
              BY <2>1, <5>1, <6>4, <7>1
          <6> QED
            BY <6>1, <6>3, <6>4
        <5>3. CASE d \notin tried[stack[k]]
          <6>1. stack[k] = node /\ d = dep
            BY <1>3, <1>6, <3>1, <5>1, <5>3
          <6>2. k = Len(stack)
            BY <1>3, <5>1, <6>1 DEF SearchInv, StackInv
          <6> QED
            BY <2>1, <5>1, <6>1, <6>2
        <5> QED
          BY <5>2, <5>3
      <4> QED
        BY <4>1, <4>2
    <3>2. \A i \in Ids : color'[i] = "white" => tried'[i] = {}
      <4> TAKE i \in Ids
      <4>1. color'[i] = "white" => color[i] = "white" /\ i # node
        BY <1>7, <2>2
      <4> QED
        BY <1>6, <4>1 DEF SearchInv, TriedInv
    <3> QED
      BY <1>2, <3>1, <3>2 DEF TriedInv
  <2>7. BlackInv'
    BY <1>1, <1>2, <1>9, <2>2 DEF SearchInv, BlackInv
  <2>8. CycleInv'
    BY <1>1, <1>9 DEF CycleInv
  <2> QED
    BY <1>1, <1>9, <2>3, <2>5, <2>6, <2>7, <2>8 DEF SearchInv
<1>10. CASE /\ color[dep] = "grey"
            /\ cycle' = CycleFrom(dep) /\ stage' = "over" /\ UNCHANGED <<stack, color>>
  <2> DEFINE start == CHOOSE i \in 1..Len(stack) : stack[i] = dep
             part == SubSeq(stack, start, Len(stack))
  <2>1. start \in 1..Len(stack) /\ stack[start] = dep
    BY <1>3, <1>4, <1>10 DEF SearchInv, StackInv, OnStack
  <2>2. cycle' = Append(part, dep)
    BY <1>10 DEF CycleFrom
  <2> HIDE DEF start
  <2>3. /\ part \in Seq(Ids) /\ Len(part) = Len(stack) - start + 1
        /\ \A k \in 1..Len(stack) - start + 1 : part[k] = stack[start + k - 1]
    BY <1>3, <2>1
  <2> HIDE DEF part, node
  <2>4. /\ cycle' \in Seq(Ids) /\ Len(cycle') = Len(stack) - start + 2
        /\ \A k \in 1..Len(stack) - start + 1 : cycle'[k] = stack[start + k - 1]
        /\ cycle'[Len(cycle')] = dep
    BY <1>3, <1>4, <2>1, <2>2, <2>3
  <2>5. Len(cycle') > 1 /\ cycle'[1] = cycle'[Len(cycle')] /\ cycle' # << >>
    BY <1>3, <2>1, <2>4
  <2>6. ASSUME NEW k \in 1..Len(cycle') - 1 PROVE cycle'[k + 1] \in deps[cycle'[k]]
    <3>1. k \in 1..Len(stack) - start + 1 /\ cycle'[k] = stack[start + k - 1]
      BY <1>3, <2>1, <2>4
    <3>2. CASE k = Len(stack) - start + 1
      <4>1. cycle'[k] = node /\ cycle'[k + 1] = dep
        BY <1>3, <2>1, <2>4, <3>1, <3>2 DEF node
      <4> QED
        BY <1>4, <4>1
    <3>3. CASE k # Len(stack) - start + 1
      <4>1. /\ k + 1 \in 1..Len(stack) - start + 1 /\ start + k - 1 \in 1..Len(stack) - 1
            /\ start + (k + 1) - 1 = (start + k - 1) + 1
        BY <1>3, <2>1, <3>1, <3>3
      <4>2. cycle'[k + 1] = stack[(start + k - 1) + 1]
        BY <2>4, <4>1
      <4> QED
        BY <3>1, <4>1, <4>2 DEF SearchInv, StackInv
    <3> QED
      BY <3>2, <3>3
  <2>7. CycleInv'
    BY <1>1, <1>10, <2>5, <2>6 DEF CycleInv
  <2>8. SearchTyped'
    BY <1>1, <1>2, <1>6, <1>10, <2>4 DEF SearchInv, SearchTyped
  <2>9. StackInv' /\ BlackInv'
    BY <1>1, <1>2, <1>10 DEF SearchInv, StackInv, OnStack, BlackInv
  <2>10. TriedInv'
    BY <1>2, <1>6, <1>7, <1>10, <2>5 DEF SearchInv, TriedInv
  <2> QED
    BY <1>10, <2>5, <2>7, <2>8, <2>9, <2>10 DEF SearchInv
<1> QED
  BY <1>5, <1>8, <1>9, <1>10

LEMMA FinishKeepsSearch == ASSUME SearchInv, FinishSearch PROVE SearchInv'
<1>1. /\ UNCHANGED <<deps, tried, cycle, stack, color>> /\ stage = "search" /\ stack = << >>
      /\ stage' \in {"over", "layer"} /\ cycle = << >>
      /\ \A i \in Ids : color[i] # "white"
  BY DEF FinishSearch, planVars, SearchInv, CycleInv
<1>2. Ids' = Ids /\ \A i \in Ids : Ancestors(i)' = Ancestors(i)
  BY <1>1, SamePlan
<1>3. \A i \in Ids : color[i] = "black"
  BY <1>1 DEF SearchInv, SearchTyped, StackInv, OnStack
<1>4. SearchTyped'
  BY <1>1, <1>2 DEF SearchInv, SearchTyped
<1> QED
  BY <1>1, <1>2, <1>3, <1>4 DEF SearchInv, StackInv, OnStack, TriedInv, BlackInv, CycleInv

LEMMA LayersKeepSearch ==
  ASSUME SearchInv, AddLayer \/ FinishLayers PROVE SearchInv'
<1>1. /\ UNCHANGED <<deps, tried, cycle, stack, color>> /\ stage = "layer" /\ cycle = << >>
      /\ stage' \in {"layer", "over"}
  BY DEF AddLayer, FinishLayers, planVars, SearchInv, CycleInv
<1>2. Ids' = Ids /\ \A i \in Ids : Ancestors(i)' = Ancestors(i)
  BY <1>1, SamePlan
<1> QED
  BY <1>1, <1>2 DEF SearchInv, SearchTyped, StackInv, OnStack, TriedInv, BlackInv, CycleInv

(******************************* The layers ********************************)

\* The units of the first layers.
DoneBy(n) == UNION {layers[m] : m \in 1..n}

LayersInv ==
  /\ layers \in Seq(SUBSET Ids)
  /\ \A n \in DOMAIN layers :
       layers[n] = {i \in Ids \ DoneBy(n - 1) : deps[i] \subseteq DoneBy(n - 1)}
  /\ stage = "layer" => ~MissingDependency
  /\ PlanOK => Ids \subseteq DoneBy(Len(layers))

LEMMA DoneIsAll == ASSUME layers \in Seq(SUBSET Ids) PROVE Done = DoneBy(Len(layers))
<1>1. DOMAIN layers = 1..Len(layers)
  OBVIOUS
<1> QED
  BY <1>1 DEF Done, DoneBy, Range

LEMMA LayersInitially == AnalysisInit => LayersInv
  BY DEF AnalysisInit, LayersInv, PlanOK

LEMMA OthersKeepLayers ==
  ASSUME LayersInv, UNCHANGED <<deps, layers, cycle, stage>> PROVE LayersInv'
<1>1. Ids' = Ids
  BY DEF Ids
<1> QED
  BY <1>1 DEF LayersInv, DoneBy, PlanOK, MissingDependency

LEMMA SearchKeepsLayers ==
  ASSUME SearchInv, LayersInv, LookAtDependency \/ FinishSearch PROVE LayersInv'
<1>1. UNCHANGED <<deps, layers>>
  BY DEF LookAtDependency, FinishSearch, planVars
<1>2. Ids' = Ids
  BY <1>1 DEF Ids
<1>3. stage' = "layer" => ~MissingDependency
  BY LookKeepsSearch DEF FinishSearch
<1>4. ~PlanOK'
  <2>1. CASE FinishSearch
    BY <1>1, <1>2, <2>1 DEF FinishSearch, PlanOK, MissingDependency
  <2>2. CASE LookAtDependency
    BY <2>2, LookKeepsSearch DEF PlanOK
  <2> QED
    BY <2>1, <2>2
<1> QED
  BY <1>1, <1>2, <1>3, <1>4 DEF LayersInv, DoneBy, MissingDependency

LEMMA LayerAdded == ASSUME SearchInv, LayersInv, AddLayer PROVE LayersInv'
<1>1. /\ UNCHANGED <<deps, stage>> /\ stage = "layer" /\ layers' = Append(layers, Layer)
  BY DEF AddLayer, planVars
<1>2. Ids' = Ids /\ layers \in Seq(SUBSET Ids) /\ Layer \in SUBSET Ids
  BY <1>1 DEF Ids, Layer, LayersInv
<1>3. /\ layers' \in Seq(SUBSET Ids) /\ Len(layers) \in Nat /\ Len(layers') = Len(layers) + 1
      /\ \A n \in 1..Len(layers) : layers'[n] = layers[n]
      /\ layers'[Len(layers) + 1] = Layer
      /\ DOMAIN layers = 1..Len(layers) /\ DOMAIN layers' = 1..Len(layers) + 1
  BY <1>1, <1>2
<1>4. ASSUME NEW n \in 0..Len(layers) PROVE DoneBy(n)' = DoneBy(n)
  <2>1. \A m \in 1..n : m \in 1..Len(layers)
    BY <1>3
  <2> QED
    BY <1>3, <2>1 DEF DoneBy
<1>5. \A n \in DOMAIN layers' :
        layers'[n] = {i \in Ids \ DoneBy(n - 1)' : deps[i] \subseteq DoneBy(n - 1)'}
  <2> TAKE n \in DOMAIN layers'
  <2>1. n - 1 \in 0..Len(layers) /\ DoneBy(n - 1)' = DoneBy(n - 1)
    BY <1>3, <1>4
  <2>2. CASE n = Len(layers) + 1
    BY <1>2, <1>3, <2>1, <2>2, DoneIsAll DEF Layer
  <2>3. CASE n # Len(layers) + 1
    <3>1. n \in DOMAIN layers /\ layers'[n] = layers[n]
      BY <1>3, <2>3
    <3> QED
      BY <2>1, <3>1 DEF LayersInv
  <2> QED
    BY <2>2, <2>3
<1> QED
  BY <1>1, <1>2, <1>3, <1>5 DEF LayersInv, PlanOK, MissingDependency

\* As no unit is on a cycle, the layers end when every unit is in one.
LEMMA LayersDone == ASSUME SearchInv, LayersInv, FinishLayers PROVE LayersInv'
<1>1. UNCHANGED <<deps, layers, cycle>> /\ stage = "layer" /\ stage' = "over" /\ cycle = << >>
      /\ ~MissingDependency
  BY DEF FinishLayers, planVars, SearchInv, CycleInv, LayersInv
<1>2. Ids' = Ids
  BY <1>1 DEF Ids
<1>3. Ids \ Done = {}
  <2> SUFFICES ASSUME Ids \ Done # {} PROVE FALSE
    OBVIOUS
  <2>1. \A i \in Ids : i \notin Ancestors(i)
    BY <1>1 DEF SearchInv, CycleInv, BlackInv
  <2>2. IsFiniteSet(Ids)
    BY DEF SearchInv, SearchTyped
  <2> DEFINE R == Ids \ Done
  <2>3. R \in SUBSET Ids /\ R # {}
    OBVIOUS
  <2> HIDE DEF R
  <2>4. PICK i \in R : deps[i] \cap R = {}
    BY <2>1, <2>2, <2>3, SomeUnitFirst
  <2>5. i \in Ids \ Done /\ deps[i] \subseteq Ids
    BY <1>1, <2>3 DEF R, MissingDependency
  <2>6. i \in Layer
    BY <2>4, <2>5 DEF R, Layer
  <2> QED
    BY <2>3, <2>6 DEF FinishLayers, R
<1>4. Ids \subseteq DoneBy(Len(layers))
  BY <1>3, DoneIsAll DEF LayersInv
<1> QED
  BY <1>1, <1>2, <1>4 DEF LayersInv, DoneBy, MissingDependency

AnalysisInv == SearchInv /\ LayersInv

LEMMA AnalysisInductive == AnalysisInv /\ [AnalysisNext]_analysisVars => AnalysisInv'
<1> SUFFICES ASSUME AnalysisInv, [AnalysisNext]_analysisVars PROVE AnalysisInv'
  OBVIOUS
<1>1. CASE UNCHANGED analysisVars
  <2>1. UNCHANGED <<deps, color, stack, tried, cycle, layers, stage>>
    BY <1>1 DEF analysisVars
  <2>2. Ids' = Ids /\ \A i \in Ids : Ancestors(i)' = Ancestors(i)
    BY <2>1, SamePlan
  <2>3. SearchInv'
    BY <2>1, <2>2 DEF AnalysisInv, SearchInv, SearchTyped, StackInv, OnStack, TriedInv, BlackInv,
         CycleInv
  <2> QED
    BY <2>1, <2>3, OthersKeepLayers DEF AnalysisInv
<1>2. CASE VisitNext \/ LeaveNode
  <2>1. UNCHANGED <<deps, layers, cycle, stage>>
    BY <1>2 DEF VisitNext, LeaveNode, planVars
  <2> QED
    BY <1>2, <2>1, VisitKeepsSearch, LeaveKeepsSearch, OthersKeepLayers DEF AnalysisInv
<1>3. CASE LookAtDependency \/ FinishSearch
  BY <1>3, LookKeepsSearch, FinishKeepsSearch, SearchKeepsLayers DEF AnalysisInv
<1>4. CASE AddLayer \/ FinishLayers
  BY <1>4, LayersKeepSearch, LayerAdded, LayersDone DEF AnalysisInv
<1> QED
  BY <1>1, <1>2, <1>3, <1>4 DEF AnalysisNext

\* A unit in an earlier layer is in no later one.
LEMMA LayersApart ==
  ASSUME LayersInv, NEW n \in 1..Len(layers), NEW m \in 1..n - 1
  PROVE  layers[n] \cap layers[m] = {}
<1>1. n \in DOMAIN layers /\ m \in 1..n - 1
  BY DEF LayersInv
<1>2. layers[m] \subseteq DoneBy(n - 1)
  BY <1>1 DEF DoneBy
<1> QED
  BY <1>1, <1>2 DEF LayersInv

LEMMA AnalysisRight == AnalysisInv => AnalysisIsRight
<1> SUFFICES ASSUME AnalysisInv, stage = "over" PROVE AnalysisIsRight
  BY DEF AnalysisIsRight
<1>1. /\ IsFiniteSet(Ids) /\ cycle \in Seq(Ids) /\ layers \in Seq(SUBSET Ids)
      /\ Len(layers) \in Nat /\ DOMAIN layers = 1..Len(layers)
  BY DEF AnalysisInv, SearchInv, SearchTyped, LayersInv
<1>2. CASE cycle # << >>
  <2>1. /\ Len(cycle) > 1 /\ cycle[1] = cycle[Len(cycle)] /\ cycle[1] \in Ids
        /\ \A i \in 1..Len(cycle) - 1 : cycle[i + 1] \in deps[cycle[i]]
    BY <1>1, <1>2 DEF AnalysisInv, SearchInv, CycleInv
  <2>2. cycle[1] \in Ancestors(cycle[1])
    BY <1>1, <2>1, PathReaches
  <2>3. OnCycle(Ids) /\ cycle[1] = Last(cycle)
    BY <2>1, <2>2 DEF OnCycle, Last
  <2> QED
    BY <1>2, <2>1, <2>3 DEF AnalysisIsRight, PlanOK
<1>3. CASE cycle = << >>
  <2>1. ~OnCycle(Ids)
    BY <1>3 DEF AnalysisInv, SearchInv, CycleInv, BlackInv, OnCycle
  <2>2. ASSUME PlanOK, NEW i \in Ids
        PROVE  Cardinality({n \in 1..Len(layers) : i \in layers[n]}) = 1
    <3>1. PICK n \in 1..Len(layers) : i \in layers[n]
      BY <2>2 DEF AnalysisInv, LayersInv, DoneBy
    <3>2. ASSUME NEW m \in 1..Len(layers), i \in layers[m] PROVE m = n
      <4>1. ~(m < n) /\ ~(n < m)
        <5>1. m < n => m \in 1..n - 1
          BY <1>1, <3>1
        <5>2. n < m => n \in 1..m - 1
          BY <1>1, <3>1
        <5> QED
          BY <3>1, <3>2, <5>1, <5>2, LayersApart DEF AnalysisInv
      <4> QED
        BY <1>1, <4>1
    <3>3. {k \in 1..Len(layers) : i \in layers[k]} = {n}
      BY <3>1, <3>2
    <3> QED
      BY <3>3, FS_Singleton
  <2>3. ASSUME NEW n \in 1..Len(layers), NEW i \in layers[n]
        PROVE  /\ deps[i] \subseteq UNION {layers[m] : m \in 1..(n - 1)}
               /\ n > 1 => deps[i] \cap layers[n - 1] # {}
    <3>1. /\ i \in Ids \ DoneBy(n - 1) /\ deps[i] \subseteq DoneBy(n - 1)
      BY <1>1, <2>3 DEF AnalysisInv, LayersInv
    <3>2. ASSUME n > 1 PROVE deps[i] \cap layers[n - 1] # {}
      <4>1. n - 1 \in 1..Len(layers)
        BY <1>1, <3>2
      <4>2. DoneBy(n - 1) = DoneBy((n - 1) - 1) \cup layers[n - 1]
        <5>1. 1..n - 1 = (1..(n - 1) - 1) \cup {n - 1}
          BY <1>1, <4>1
        <5> QED
          BY <5>1 DEF DoneBy
      <4>3. layers[n - 1] = {j \in Ids \ DoneBy((n - 1) - 1) : deps[j] \subseteq DoneBy((n - 1) - 1)}
        BY <1>1, <4>1 DEF AnalysisInv, LayersInv
      <4>4. i \notin layers[n - 1] /\ i \notin DoneBy((n - 1) - 1)
        BY <3>1, <4>2
      <4>5. ~(deps[i] \subseteq DoneBy((n - 1) - 1))
        BY <3>1, <4>3, <4>4
      <4> QED
        BY <3>1, <4>2, <4>5
    <3> QED
      BY <3>1, <3>2 DEF DoneBy
  <2> QED
    BY <1>3, <2>1, <2>2, <2>3 DEF AnalysisIsRight
<1> QED
  BY <1>2, <1>3

\* What analyze_plan answers is right, for every plan (runs/dag.py:63): the loop
\* reports a cycle exactly when some unit depends on itself, what it reports is
\* one, and without it every unit is in one layer, right after its dependencies.
THEOREM AnalysisTrue == AnalysisSpec => []AnalysisIsRight
<1>1. AnalysisInit => AnalysisInv
  BY SearchInitially, LayersInitially DEF AnalysisInv
<1> QED
  BY <1>1, AnalysisInductive, AnalysisRight, PTL DEF AnalysisSpec

(******************************** Dispatch *********************************)

\* There is no run yet, or each unit of the plan has a state.
RunTyped == unitState \in [{} -> State] \cup [Ids -> State]

ApartInv == RunTyped /\ OverlapsOnlyAround

\* The overlap tests of merge_queue/conflicts.py do not depend on the order of
\* their arguments: the dispatcher asks for one order only.
LEMMA PatternsOverlapSymmetric ==
  ASSUME NEW a, NEW b PROVE PatternsOverlap(a, b) => PatternsOverlap(b, a)
<1> SUFFICES ASSUME PatternsOverlap(a, b) PROVE PatternsOverlap(b, a)
  OBVIOUS
<1>1. IsGlob(a) \in BOOLEAN /\ IsGlob(b) \in BOOLEAN
  BY DEF IsGlob
<1>2. CASE a = b
  BY <1>2
<1>3. CASE IsGlob(a) = IsGlob(b)
  BY <1>1, <1>3 DEF PatternsOverlap
<1>4. CASE IsGlob(a) /\ ~IsGlob(b)
  BY <1>4 DEF PatternsOverlap
<1>5. CASE ~IsGlob(a) /\ IsGlob(b)
  BY <1>5 DEF PatternsOverlap
<1> QED
  BY <1>1, <1>3, <1>4, <1>5

LEMMA ScopesOverlapSymmetric ==
  ASSUME NEW s, NEW t, ScopesOverlap(s, t) PROVE ScopesOverlap(t, s)
  BY PatternsOverlapSymmetric DEF ScopesOverlap

LEMMA NoneAtWork == unitState = << >> => ActiveUnits = {}
  BY DEF ActiveUnits

LEMMA ApartInitially == DispatchInit => ApartInv
  BY NoneAtWork DEF DispatchInit, ApartInv, RunTyped, OverlapsOnlyAround

\* Where no unit begins to work and no unit is forgotten to have come around,
\* nothing overlaps that did not.
LEMMA StaysApart ==
  ASSUME OverlapsOnlyAround, ActiveUnits' \subseteq ActiveUnits, around \subseteq around',
         unitScope' = unitScope
  PROVE  OverlapsOnlyAround'
  BY DEF OverlapsOnlyAround

LEMMA AssignKeepsApart ==
  ASSUME ApartInv, NEW d \in Dispatchers, AssignSelected(d) PROVE ApartInv'
<1> DEFINE u == Head(chosen[d])
<1>1. UNCHANGED <<deps, unitScope>>
  BY DEF AssignSelected, analysisVars
<1>2. CASE unitState[u] = "ready" /\ Guard(u)
  <2>1. unitState' = [unitState EXCEPT ![u] = "assigned"] /\ around' = around \ {u}
    BY <1>2 DEF AssignSelected, SetState
  <2>2. RunTyped'
    BY <1>1, <2>1 DEF ApartInv, RunTyped, Ids, State
  <2>3. ActiveUnits' \subseteq ActiveUnits \cup {u}
    BY <2>1 DEF ActiveUnits
  <2>4. \A v \in ActiveUnits : v # u => ~ScopesOverlap(unitScope[u], unitScope[v])
                                        /\ ~ScopesOverlap(unitScope[v], unitScope[u])
    BY <1>2, ScopesOverlapSymmetric DEF Guard, Conflicts
  <2>5. OverlapsOnlyAround'
    <3> SUFFICES ASSUME NEW v \in ActiveUnits', NEW w \in ActiveUnits', v # w,
                        ScopesOverlap(unitScope[v], unitScope[w])
                 PROVE  v \in around' \/ w \in around'
      BY <1>1 DEF OverlapsOnlyAround
    <3>1. v # u /\ w # u
      BY <2>3, <2>4
    <3> QED
      BY <2>1, <2>3, <3>1 DEF ApartInv, OverlapsOnlyAround
  <2> QED
    BY <2>2, <2>5 DEF ApartInv
<1>3. CASE ~(unitState[u] = "ready" /\ Guard(u))
  <2>1. UNCHANGED <<unitState, around>>
    BY <1>3 DEF AssignSelected
  <2> QED
    BY <1>1, <2>1 DEF ApartInv, RunTyped, Ids, OverlapsOnlyAround, ActiveUnits
<1> QED
  BY <1>2, <1>3

\* A state that the conductor takes a unit to is one of work only from work.
LEMMA WorkFromWork ==
  ASSUME NEW x \in State, NEW s \in Targets(x) \ {"assigned"}, s \in ACTIVE,
         ~(x = "needs_user" /\ s = "reviewing")
  PROVE  x \in ACTIVE /\ s \in State
  BY DEF Targets, State, ACTIVE, TERMINAL

LEMMA TargetsAreStates == ASSUME NEW x \in State PROVE Targets(x) \subseteq State
  BY DEF Targets, State, TERMINAL

LEMMA MoveKeepsApart ==
  ASSUME ApartInv, NEW u \in DOMAIN unitState, NEW s \in State, MoveUnit(u, s) PROVE ApartInv'
<1>1. UNCHANGED <<deps, unitScope, around>> /\ unitState \in [Ids -> State] /\ u \in Ids
  BY DEF MoveUnit, analysisVars, ApartInv, RunTyped, RunExists
<1> DEFINE next(v) ==
      CASE v = u -> s
        [] v # u /\ s = "merged" /\ unitState[v] = "pending"
             /\ \A d \in deps[v] : d = u \/ unitState[d] = "merged" -> "ready"
        [] OTHER -> unitState[v]
<1>2. unitState' = [v \in Ids |-> next(v)]
  BY DEF MoveUnit
<1>3. \A v \in Ids : next(v) = unitState[v] \/ next(v) = "ready" \/ (v = u /\ next(v) = s)
  OBVIOUS
<1> HIDE DEF next
<1>4. RunTyped'
  BY <1>1, <1>2, <1>3 DEF RunTyped, Ids, State
<1>5. s \in ACTIVE => unitState[u] \in ACTIVE
  BY <1>1, WorkFromWork DEF MoveUnit
<1>6. ActiveUnits' \subseteq ActiveUnits
  BY <1>1, <1>2, <1>3, <1>5 DEF ActiveUnits, ACTIVE
<1> QED
  BY <1>1, <1>4, <1>6, StaysApart DEF ApartInv

\* A unit that comes back without the dispatcher is known to have done so.
LEMMA AroundKeepsApart ==
  ASSUME ApartInv, NEW u, NEW s \in State,
         unitState' = [unitState EXCEPT ![u] = s], around' = around \cup {u},
         UNCHANGED <<deps, unitScope>>
  PROVE  ApartInv'
<1>1. RunTyped'
  BY DEF ApartInv, RunTyped, Ids
<1>2. ActiveUnits' \subseteq ActiveUnits \cup {u}
  BY DEF ActiveUnits
<1> QED
  BY <1>1, <1>2 DEF ApartInv, OverlapsOnlyAround

LEMMA AnalysisKeepsPlan == AnalysisNext => UNCHANGED <<deps, unitScope>>
  BY DEF AnalysisNext, VisitNext, LookAtDependency, LeaveNode, FinishSearch, AddLayer, FinishLayers,
         planVars

LEMMA ApartInductive == ApartInv /\ [DispatchNext]_dispatchVars => ApartInv'
<1> SUFFICES ASSUME ApartInv, [DispatchNext]_dispatchVars PROVE ApartInv'
  OBVIOUS
<1>1. ASSUME UNCHANGED <<deps, unitScope, unitState, around>> PROVE ApartInv'
  BY <1>1 DEF ApartInv, RunTyped, Ids, OverlapsOnlyAround, ActiveUnits
<1>2. CASE AnalysisNext /\ UNCHANGED <<unitState, chosen, around>>
  BY <1>1, <1>2, AnalysisKeepsPlan
<1>3. ASSUME NEW override \in BOOLEAN, CreateRun(override) PROVE ApartInv'
  <2>1. /\ unitState' = [u \in Ids |-> IF deps[u] = {} THEN "ready" ELSE "pending"]
        /\ UNCHANGED <<deps, unitScope, around>>
    BY <1>3 DEF CreateRun, analysisVars
  <2>2. RunTyped' /\ ActiveUnits' = {}
    BY <2>1 DEF RunTyped, Ids, State, ActiveUnits, ACTIVE
  <2> QED
    BY <2>1, <2>2, StaysApart DEF ApartInv
<1>4. ASSUME NEW d \in Dispatchers, NEW limit, SelectUnits(d, limit) PROVE ApartInv'
  BY <1>1, <1>4 DEF SelectUnits, analysisVars
<1>5. ASSUME NEW d \in Dispatchers, NEW u, SelectUnit(d, u) PROVE ApartInv'
  BY <1>1, <1>5 DEF SelectUnit, analysisVars
<1>6. ASSUME NEW d \in Dispatchers, AssignSelected(d) PROVE ApartInv'
  BY <1>6, AssignKeepsApart
<1>7. ASSUME NEW u \in DOMAIN unitState, NEW s \in State, MoveUnit(u, s) PROVE ApartInv'
  BY <1>7, MoveKeepsApart
<1>8. ASSUME NEW u \in DOMAIN unitState, ReopenUnit(u) \/ ReassignUnit(u) PROVE ApartInv'
  <2>1. PICK s \in {"reviewing", "assigned"} : unitState' = [unitState EXCEPT ![u] = s]
    BY <1>8 DEF ReopenUnit, ReassignUnit, SetState
  <2>2. around' = around \cup {u} /\ UNCHANGED <<deps, unitScope>>
    BY <1>8 DEF ReopenUnit, ReassignUnit, analysisVars
  <2> QED
    BY <2>1, <2>2, AroundKeepsApart DEF State
<1>9. CASE UNCHANGED dispatchVars
  BY <1>1, <1>9 DEF dispatchVars, analysisVars
<1> QED
  BY <1>2, <1>3, <1>4, <1>5, <1>6, <1>7, <1>8, <1>9 DEF DispatchNext

\* Two units whose scopes overlap are at work together only when one of them
\* came back without the dispatcher, whatever the plan and however many commands
\* look for a conflict, and assign, at the same time.
THEOREM WorkApart == DispatchSpec => []OverlapsOnlyAround
<1>1. ApartInv => OverlapsOnlyAround
  BY DEF ApartInv
<1> QED
  BY <1>1, ApartInitially, ApartInductive, PTL DEF DispatchSpec

(********************************* Routing *********************************)

\* Fewer exclusions leave more candidates.
LEMMA CandidatesGrow ==
  ASSUME NEW tier, NEW role, NEW risk, NEW policy, NEW usable,
         NEW R, NEW S, R \subseteq S, NEW F, NEW G, F \subseteq G
  PROVE  Candidates(tier, role, risk, policy, usable, S, G)
           \subseteq Candidates(tier, role, risk, policy, usable, R, F)
  BY DEF Candidates

LEMMA RequiredTier ==
  ASSUME NEW author, NEW cls, cls.review \in RoutingTier
  PROVE  /\ RequiredReview(author, cls).tier \in Int
         /\ RequiredReview(author, cls).strict \in BOOLEAN
  BY DEF RequiredReview, RoutingTier

\* The merge queue asks of a review what "`routing.classify` and `select_reviewer`
\* require" (merge_queue/queue.py:11-12), and asks review_satisfies: whoever
\* select_reviewer chooses is accepted by it, if they review at the required tier.
THEOREM ChosenReviewerSatisfies ==
  ASSUME NEW author, NEW cls, cls.review \in RoutingTier, cls.mustDiffer \in BOOLEAN,
         NEW policy, NEW usable,
         NEW r \in ReviewerChoices(author, cls, policy, usable)
  PROVE  ReviewSatisfies([runner |-> r, tier |-> RequiredReview(author, cls).tier],
                         author, cls, policy, usable)
<1> DEFINE required == RequiredReview(author, cls)
           apart == (required.strict \/ cls.mustDiffer) /\ ~ByPersona(policy)
           runners == IF apart THEN {author.runner} ELSE {}
           families == IF apart /\ required.strict THEN {Profiles[author.runner].family} ELSE {}
           from(R, F) == Candidates(required.tier, "review", cls.risk, policy, usable, R, F)
<1>1. cls.ok
  BY DEF ReviewerChoices
<1>2. required.tier >= required.tier
  BY RequiredTier
<1>3. r \in from(runners, families)
  <2>1. CASE ByPersona(policy)
    BY <1>1, <2>1 DEF ReviewerChoices
  <2>2. CASE ~ByPersona(policy)
    <3> DEFINE others == IF required.strict \/ cls.mustDiffer THEN {author.runner} ELSE {}
               family == {Profiles[author.runner].family}
    <3>1. runners = others
      BY <2>2
    <3>2. CASE required.strict
      <4>1. r \in from(others, family)
        BY <1>1, <2>2, <3>2 DEF ReviewerChoices
      <4>2. families = family
        BY <2>2, <3>2
      <4> QED  BY <3>1, <4>1, <4>2
    <3>3. CASE ~required.strict
      <4>1. r \in from(others, family) \/ r \in from(others, {})
        BY <1>1, <2>2, <3>3 DEF ReviewerChoices
      <4>2. from(others, family) \subseteq from(others, {})
        BY CandidatesGrow
      <4>3. families = {}
        BY <3>3
      <4> QED  BY <3>1, <4>1, <4>2, <4>3
    <3> QED  BY <3>2, <3>3
  <2> QED  BY <2>1, <2>2
<1> QED
  BY <1>1, <1>2, <1>3 DEF ReviewSatisfies

(**************************** Reviews by agents ****************************)

Reviewing == {"pr_reviewer", "security_reviewer", "architect", "designer"}
Asked == Reviewing \cup {"verifier"}

Verdict ==
  [role : Asked, provider : Runners \cup {"none"},
   says : ReviewVerdicts \cup VerifyVerdicts \cup {"none"}]

\* The verifier is asked last.
VerifierLast(todo) ==
  todo # << >> /\ \A i \in DOMAIN todo : todo[i] = "verifier" <=> i = Len(todo)

AskedSoFar == {session.verdicts[i].role : i \in DOMAIN session.verdicts}

\* Every verdict so far, but perhaps the last one, let the review go on.
WentOn(n) == \A i \in 1..n : session.verdicts[i].role # "verifier" /\ session.verdicts[i].says = "approved"

\* The last verdict is one its role may give.
LastVerdict ==
  LET v == session.verdicts[Len(session.verdicts)]
  IN  /\ session.verdicts # << >> /\ v.role = Role
      /\ IF v.role = "verifier" THEN v.says \in VerifyVerdicts \cup {"none"}
         ELSE v.says \in ReviewVerdicts \cup {"none"}

\* All roles gave a verdict, and the unit may go on to the merge queue.
AllAccepted ==
  /\ AskedSoFar = Range(RolesAt(session.head))
  /\ session.verdicts # << >>
  /\ \A i \in DOMAIN session.verdicts :
       LET v == session.verdicts[i]
       IN  IF v.role = "verifier"
           THEN v.says \in {"pass"} \cup (IF IsHigh(session.head) THEN {} ELSE {"inconclusive"})
           ELSE v.says = "approved"

SessionInv ==
  /\ DOMAIN session = {"at", "head", "todo", "round", "tried", "verdicts"}
  /\ session.todo \in Seq(Asked) /\ session.verdicts \in Seq(Verdict)
  /\ session.at \in {"play", "judge"} =>
       /\ VerifierLast(session.todo)
       /\ AskedSoFar \cup Range(session.todo) = Range(RolesAt(session.head))
  /\ session.at = "play" => WentOn(Len(session.verdicts))
  /\ session.at = "judge" => WentOn(Len(session.verdicts) - 1) /\ LastVerdict
  /\ session.at \in {"record", "approve", "queue"} => AllAccepted

\* The review that is approved and queued is the one this session recorded.
RecordedInv ==
  /\ DOMAIN subject = {"state", "verified", "tip", "review"}
  /\ session.at \in {"approve", "queue"} =>
       /\ DOMAIN subject.review = {"runner", "tier", "head", "approved", "used"}
       /\ subject.review.head = session.head
       /\ subject.review.runner = session.verdicts[1].provider

ReviewedInv == SessionInv /\ RecordedInv /\ QueuedIsReviewed

\* What RolesAt returns.
LEMMA RolesLast ==
  ASSUME NEW head
  PROVE  RolesAt(head) \in Seq(Asked) /\ VerifierLast(RolesAt(head))
<1>1. PICK b \in Seq(Reviewing), d \in Seq(Reviewing), e \in Seq(Reviewing) :
        RolesAt(head) = <<"pr_reviewer">> \o b \o d \o e \o <<"verifier">>
  <2>1. /\ (IF IsHigh(head) THEN <<"security_reviewer">> ELSE << >>) \in Seq(Reviewing)
        /\ (IF \E p \in job.changes[head].files : p.contract THEN <<"architect">> ELSE << >>) \in Seq(Reviewing)
        /\ (IF \E p \in job.changes[head].files : p.design THEN <<"designer">> ELSE << >>) \in Seq(Reviewing)
    <3>1. /\ <<"security_reviewer">> \in Seq(Reviewing) /\ <<"architect">> \in Seq(Reviewing)
          /\ <<"designer">> \in Seq(Reviewing) /\ << >> \in Seq(Reviewing)
      BY DEF Reviewing
    <3> QED
      BY <3>1
  <2> QED
    BY <2>1 DEF RolesAt
<1>2. PICK s : s = <<"pr_reviewer">> \o b \o d \o e
  OBVIOUS
<1>3. s \in Seq(Reviewing)
  <2>1. <<"pr_reviewer">> \in Seq(Reviewing)
    BY DEF Reviewing
  <2>2. <<"pr_reviewer">> \o b \in Seq(Reviewing)
    BY <2>1, ConcatProperties
  <2>3. (<<"pr_reviewer">> \o b) \o d \in Seq(Reviewing)
    BY <2>2, ConcatProperties
  <2> QED
    BY <1>2, <2>3, ConcatProperties
<1>4. RolesAt(head) = s \o <<"verifier">>
  BY <1>1, <1>2
<1>5. Len(s) \in Nat /\ \A i \in 1..Len(s) : s[i] \in Reviewing
  BY <1>3
<1>6. /\ s \o <<"verifier">> \in Seq(Asked) /\ Len(s \o <<"verifier">>) = Len(s) + 1
      /\ \A i \in 1..Len(s) : (s \o <<"verifier">>)[i] = s[i]
      /\ (s \o <<"verifier">>)[Len(s) + 1] = "verifier"
  BY <1>3 DEF Asked
<1>7. \A i \in 1..Len(s) : s[i] # "verifier"
  BY <1>5 DEF Reviewing
<1> QED
  BY <1>4, <1>5, <1>6, <1>7 DEF VerifierLast

\* Nothing that a session or a queued review rests on changes.
LEMMA OthersKeep ==
  ASSUME ReviewedInv, UNCHANGED <<job, class, queued>>, SessionInv', RecordedInv'
  PROVE  ReviewedInv'
BY DEF ReviewedInv, QueuedIsReviewed, IsHigh, RolesAt

LEMMA SessionStays ==
  ASSUME ReviewedInv, UNCHANGED <<job, class, session, queued>>,
         DOMAIN subject' = {"state", "verified", "tip", "review"}, subject'.review = subject.review
  PROVE  ReviewedInv'
<1>1. SessionInv'
  BY DEF ReviewedInv, SessionInv, AskedSoFar, WentOn, LastVerdict, AllAccepted, IsHigh, RolesAt, Role
<1>2. RecordedInv'
  BY DEF ReviewedInv, RecordedInv
<1> QED
  BY <1>1, <1>2, OthersKeep

LEMMA SessionOver ==
  ASSUME ReviewedInv, UNCHANGED <<job, class, queued>>, session' = NoSession,
         DOMAIN subject' = {"state", "verified", "tip", "review"}
  PROVE  ReviewedInv'
BY OthersKeep DEF SessionInv, NoSession, RecordedInv

LEMMA SameNeeds ==
  ASSUME UNCHANGED <<job, class>>
  PROVE  \A head : (IsHigh(head) <=> IsHigh(head)') /\ RolesAt(head)' = RolesAt(head)
BY DEF IsHigh, RolesAt

LEMMA StartKeeps == ASSUME ReviewedInv, StartReview PROVE ReviewedInv'
<1>1. /\ session' = [NoSession EXCEPT !.at = "play", !.head = subject.verified,
                                      !.todo = RolesAt(subject.verified)]
      /\ UNCHANGED <<job, class, subject, queued>>
  BY DEF StartReview
<1>2. /\ session'.at = "play" /\ session'.head = subject.verified
      /\ session'.todo = RolesAt(subject.verified) /\ session'.verdicts = << >>
      /\ DOMAIN session' = {"at", "head", "todo", "round", "tried", "verdicts"}
  BY <1>1 DEF NoSession
<1>3. RolesAt(subject.verified)' = RolesAt(subject.verified)
  BY <1>1 DEF RolesAt, IsHigh
<1>4. AskedSoFar' = {} /\ WentOn(Len(session.verdicts))' /\ << >> \in Seq(Verdict)
  BY <1>2 DEF AskedSoFar, WentOn
<1>5. SessionInv'
  BY <1>1, <1>2, <1>3, <1>4, RolesLast DEF SessionInv
<1>6. RecordedInv'
  BY <1>1, <1>2 DEF ReviewedInv, RecordedInv
<1> QED
  BY <1>1, <1>5, <1>6, OthersKeep

\* A provider is passed over, or a second round begins.
LEMMA PassedOver ==
  ASSUME ReviewedInv, session.at = "play", UNCHANGED <<job, class, subject, queued>>,
         NEW round, NEW was, session' = [session EXCEPT !.round = round, !.tried = was]
  PROVE  ReviewedInv'
<1>1. /\ session'.at = "play" /\ session'.head = session.head /\ session'.todo = session.todo
      /\ session'.verdicts = session.verdicts
      /\ DOMAIN session' = {"at", "head", "todo", "round", "tried", "verdicts"}
  BY DEF ReviewedInv, SessionInv
<1>2. RolesAt(session.head)' = RolesAt(session.head)
  BY <1>1 DEF RolesAt, IsHigh
<1>3. SessionInv'
  BY <1>1, <1>2 DEF ReviewedInv, SessionInv, AskedSoFar, WentOn
<1> QED
  BY <1>1, <1>3, OthersKeep DEF ReviewedInv, RecordedInv

LEMMA VerdictGiven ==
  ASSUME ReviewedInv, session.at = "play", UNCHANGED <<job, class, subject, queued>>,
         NEW p \in Runners \cup {"none"}, NEW outcome, GiveVerdict(p, outcome),
         outcome \in (IF Role = "verifier" THEN VerifyVerdicts ELSE ReviewVerdicts) \cup {"none"}
  PROVE  ReviewedInv'
<1> DEFINE old == session.verdicts
           v == [role |-> Role, provider |-> p, says |-> outcome]
<1>1. /\ old \in Seq(Verdict) /\ session.todo \in Seq(Asked) /\ VerifierLast(session.todo)
      /\ AskedSoFar \cup Range(session.todo) = Range(RolesAt(session.head))
      /\ WentOn(Len(old))
      /\ DOMAIN session = {"at", "head", "todo", "round", "tried", "verdicts"}
  BY DEF ReviewedInv, SessionInv
<1>2. Role \in Asked /\ Role = session.todo[1] /\ session.todo # << >>
  BY <1>1 DEF Role, VerifierLast
<1>3. v \in Verdict
  BY <1>2 DEF Verdict
<1>4. /\ session' = [session EXCEPT !.at = "judge", !.verdicts = Append(old, v)]
      /\ session'.at = "judge" /\ session'.head = session.head /\ session'.todo = session.todo
      /\ session'.verdicts = Append(old, v)
      /\ DOMAIN session' = {"at", "head", "todo", "round", "tried", "verdicts"}
  BY <1>1 DEF GiveVerdict
<1>5. /\ Append(old, v) \in Seq(Verdict) /\ Len(Append(old, v)) = Len(old) + 1 /\ Len(old) \in Nat
      /\ \A i \in 1..Len(old) : Append(old, v)[i] = old[i]
      /\ Append(old, v)[Len(old) + 1] = v
  BY <1>1, <1>3
<1>6. AskedSoFar' = AskedSoFar \cup {Role}
  <2>1. DOMAIN old = 1..Len(old) /\ DOMAIN Append(old, v) = 1..Len(old) + 1
    BY <1>1, <1>5
  <2>2. \A i \in 1..Len(old) + 1 : i \in 1..Len(old) \/ i = Len(old) + 1
    BY <1>5
  <2> QED
    BY <1>4, <1>5, <2>1, <2>2 DEF AskedSoFar
<1>7. Role \in Range(session.todo)
  BY <1>1, <1>2 DEF Range
<1>8. RolesAt(session.head)' = RolesAt(session.head)
  BY <1>4 DEF RolesAt, IsHigh
<1>9. WentOn(Len(session.verdicts) - 1)'
  BY <1>1, <1>4, <1>5 DEF WentOn
<1>10. LastVerdict'
  BY <1>4, <1>5 DEF LastVerdict, Role
<1>11. SessionInv'
  BY <1>1, <1>4, <1>5, <1>6, <1>7, <1>8, <1>9, <1>10 DEF SessionInv
<1>12. RecordedInv'
  BY <1>4 DEF ReviewedInv, RecordedInv
<1> QED
  BY <1>11, <1>12, OthersKeep

LEMMA PlayKeeps ==
  ASSUME ReviewedInv, (\E p \in Runners : ProviderFails(p) \/ PlayTurn(p)) \/ NobodyLeft
  PROVE  ReviewedInv'
<1>1. session.at = "play" /\ UNCHANGED <<job, class, subject, queued>>
  BY DEF ProviderFails, PlayTurn, NobodyLeft
<1>0. DOMAIN session = {"at", "head", "todo", "round", "tried", "verdicts"}
  BY DEF ReviewedInv, SessionInv
<1>2. ASSUME NEW p \in Runners, ProviderFails(p) PROVE ReviewedInv'
  <2>1. PICK was : session' = [session EXCEPT !.tried = was]
    BY <1>2 DEF ProviderFails
  <2>2. session' = [session EXCEPT !.round = session.round, !.tried = was]
    BY <1>0, <2>1
  <2> QED
    BY <1>1, <2>2, PassedOver
<1>3. ASSUME NEW p \in Runners, PlayTurn(p) PROVE ReviewedInv'
  <2>1. PICK outcome \in Outcomes : GiveVerdict(p, outcome)
    BY <1>3 DEF PlayTurn
  <2>2. outcome \in IF Role = "verifier" THEN VerifyVerdicts ELSE ReviewVerdicts
    <3>1. CASE Role = "verifier"
      <4>1. \A r \in VerifyReplies : ParsedVerification(r) \in VerifyVerdicts
        BY DEF VerifyReplies, ParsedVerification, VerifyVerdicts
      <4> QED
        BY <3>1, <4>1 DEF Outcomes, VerifyVerdicts
    <3>2. CASE Role # "verifier"
      <4>1. \A r \in ReviewReplies : ParsedReview(r) \in ReviewVerdicts
        BY DEF ReviewReplies, ParsedReview, ReviewVerdicts
      <4> QED
        BY <3>2, <4>1 DEF Outcomes, ReviewVerdicts
    <3> QED
      BY <3>1, <3>2
  <2> QED
    BY <1>1, <2>1, <2>2, VerdictGiven
<1>4. CASE NobodyLeft
  <2>1. CASE session.round = "others"
    <3>1. session' = [session EXCEPT !.round = "any", !.tried = {}]
      BY <1>4, <2>1 DEF NobodyLeft
    <3> QED
      BY <1>1, <3>1, PassedOver
  <2>2. CASE session.round # "others"
    BY <1>1, <1>4, <2>2, VerdictGiven DEF NobodyLeft
  <2> QED
    BY <2>1, <2>2
<1> QED
  BY <1>2, <1>3, <1>4

LEMMA JudgeKeeps == ASSUME ReviewedInv, Judge PROVE ReviewedInv'
<1> DEFINE all == session.verdicts
<1>1. /\ session.at = "judge" /\ UNCHANGED <<job, class, queued>>
      /\ DOMAIN session = {"at", "head", "todo", "round", "tried", "verdicts"}
      /\ all \in Seq(Verdict) /\ session.todo \in Seq(Asked) /\ VerifierLast(session.todo)
      /\ AskedSoFar \cup Range(session.todo) = Range(RolesAt(session.head))
      /\ WentOn(Len(all) - 1) /\ LastVerdict
      /\ DOMAIN subject = {"state", "verified", "tip", "review"}
  BY DEF Judge, ReviewedInv, SessionInv, RecordedInv
<1>2. /\ Len(all) \in Nat /\ Len(all) >= 1 /\ DOMAIN all = 1..Len(all)
      /\ all[Len(all)].role = Role /\ Says = all[Len(all)].says
      /\ IF Role = "verifier" THEN Says \in VerifyVerdicts \cup {"none"}
         ELSE Says \in ReviewVerdicts \cup {"none"}
  <2>1. all # << >> /\ all[Len(all)].role = Role
    BY <1>1 DEF LastVerdict
  <2>2. Len(all) \in Nat /\ Len(all) >= 1 /\ DOMAIN all = 1..Len(all)
    BY <1>1, <2>1
  <2> QED
    BY <1>1, <2>1, <2>2 DEF LastVerdict, Says
<1>3. Role \in AskedSoFar
  BY <1>2 DEF AskedSoFar
<1>4. /\ Len(session.todo) \in Nat /\ Len(session.todo) >= 1 /\ DOMAIN session.todo = 1..Len(session.todo)
      /\ Role = session.todo[1] /\ Role \in Asked
  BY <1>1 DEF VerifierLast, Role
<1>5. CASE NeedsUser \/ ReturnedForChanges
  BY <1>1, <1>5, SessionOver DEF NeedsUser, ReturnedForChanges, MoveTo
<1>6. CASE Says = "approved" /\ NextRole
  <2>1. Role # "verifier"
    BY <1>2, <1>6 DEF VerifyVerdicts
  <2>2. Len(session.todo) > 1
    BY <1>1, <1>4, <2>1 DEF VerifierLast
  <2>3. PICK rest : rest = Tail(session.todo)
    OBVIOUS
  <2>4. /\ rest \in Seq(Asked) /\ Len(rest) = Len(session.todo) - 1 /\ DOMAIN rest = 1..Len(session.todo) - 1
        /\ \A i \in 1..Len(session.todo) - 1 : rest[i] = session.todo[i + 1]
    BY <1>1, <1>4, <2>2, <2>3
  <2>5. VerifierLast(rest)
    <3>1. rest # << >> /\ Len(rest) \in Nat
      BY <1>4, <2>2, <2>4
    <3>2. ASSUME NEW i \in DOMAIN rest PROVE rest[i] = "verifier" <=> i = Len(rest)
      <4>1. i + 1 \in DOMAIN session.todo /\ rest[i] = session.todo[i + 1] /\ i \in Nat
        BY <1>4, <2>4
      <4>2. session.todo[i + 1] = "verifier" <=> i + 1 = Len(session.todo)
        BY <1>1, <4>1 DEF VerifierLast
      <4> QED
        BY <1>4, <2>4, <4>1, <4>2
    <3> QED
      BY <3>1, <3>2 DEF VerifierLast
  <2>6. Range(session.todo) = Range(rest) \cup {Role}
    <3>1. ASSUME NEW x \in Range(session.todo) PROVE x \in Range(rest) \cup {Role}
      <4>1. PICK i \in 1..Len(session.todo) : x = session.todo[i]
        BY <1>4, <3>1 DEF Range
      <4>2. CASE i = 1
        BY <1>4, <4>1, <4>2
      <4>3. CASE i # 1
        <5>1. i - 1 \in 1..Len(session.todo) - 1 /\ (i - 1) + 1 = i
          BY <1>4, <4>3
        <5>2. rest[i - 1] = x
          BY <2>4, <4>1, <5>1
        <5> QED
          BY <2>4, <5>1, <5>2 DEF Range
      <4> QED
        BY <4>2, <4>3
    <3>2. ASSUME NEW x \in Range(rest) PROVE x \in Range(session.todo)
      <4>1. PICK i \in 1..Len(session.todo) - 1 : x = rest[i]
        BY <2>4, <3>2 DEF Range
      <4>2. i + 1 \in 1..Len(session.todo)
        BY <1>4
      <4> QED
        BY <1>4, <2>4, <4>1, <4>2 DEF Range
    <3>3. Role \in Range(session.todo)
      BY <1>4 DEF Range
    <3> QED
      BY <3>1, <3>2, <3>3
  <2>7. /\ session'.at = "play" /\ session'.todo = rest /\ session'.verdicts = all
        /\ session'.head = session.head /\ UNCHANGED subject
        /\ DOMAIN session' = {"at", "head", "todo", "round", "tried", "verdicts"}
    BY <1>1, <1>6, <2>3 DEF NextRole
  <2>8. RolesAt(session.head)' = RolesAt(session.head) /\ AskedSoFar' = AskedSoFar
    BY <1>1, <2>7 DEF RolesAt, IsHigh, AskedSoFar
  <2>9. WentOn(Len(session.verdicts))'
    <3>1. \A i \in 1..Len(all) : i \in 1..Len(all) - 1 \/ i = Len(all)
      BY <1>2
    <3> QED
      BY <1>1, <1>2, <1>6, <2>1, <2>7, <3>1 DEF WentOn
  <2>10. SessionInv'
    BY <1>1, <1>3, <2>4, <2>5, <2>6, <2>7, <2>8, <2>9 DEF SessionInv
  <2>11. RecordedInv'
    BY <2>7 DEF ReviewedInv, RecordedInv
  <2> QED
    BY <1>1, <2>10, <2>11, OthersKeep
<1>7. CASE (Says = "pass" \/ (Says = "inconclusive" /\ ~IsHigh(session.head))) /\ Accepted
  <2>1. Role = "verifier"
    BY <1>2, <1>7 DEF ReviewVerdicts
  <2>2. Range(session.todo) = {Role}
    <3>1. Len(session.todo) = 1
      <4>1. 1 \in DOMAIN session.todo /\ session.todo[1] = "verifier"
        BY <1>4, <2>1
      <4> QED
        BY <1>1, <4>1 DEF VerifierLast
    <3>2. DOMAIN session.todo = {1}
      BY <1>4, <3>1
    <3> QED
      BY <1>4, <3>2 DEF Range
  <2>3. /\ session'.at = "record" /\ session'.todo = session.todo /\ session'.verdicts = all
        /\ session'.head = session.head /\ UNCHANGED subject
        /\ DOMAIN session' = {"at", "head", "todo", "round", "tried", "verdicts"}
    BY <1>1, <1>7 DEF Accepted
  <2>4. RolesAt(session.head)' = RolesAt(session.head) /\ AskedSoFar' = AskedSoFar
        /\ (IsHigh(session.head) <=> IsHigh(session.head)')
    BY <1>1, <2>3 DEF RolesAt, IsHigh, AskedSoFar
  <2>5. \A i \in 1..Len(all) :
          IF all[i].role = "verifier"
          THEN all[i].says \in {"pass"} \cup (IF IsHigh(session.head) THEN {} ELSE {"inconclusive"})
          ELSE all[i].says = "approved"
    <3>1. \A i \in 1..Len(all) : i \in 1..Len(all) - 1 \/ i = Len(all)
      BY <1>2
    <3> QED
      BY <1>1, <1>2, <1>7, <2>1, <3>1 DEF WentOn
  <2>6. AllAccepted'
    <3>1. AskedSoFar = Range(RolesAt(session.head))
      BY <1>1, <1>3, <2>2
    <3>2. all # << >>
      BY <1>2
    <3>3. CASE IsHigh(session.head)
      BY <1>2, <2>3, <2>4, <2>5, <3>1, <3>2, <3>3 DEF AllAccepted
    <3>4. CASE ~IsHigh(session.head)
      BY <1>2, <2>3, <2>4, <2>5, <3>1, <3>2, <3>4 DEF AllAccepted
    <3> QED
      BY <3>3, <3>4
  <2>7. SessionInv'
    BY <1>1, <2>3, <2>6 DEF SessionInv
  <2>8. RecordedInv'
    BY <2>3 DEF ReviewedInv, RecordedInv
  <2> QED
    BY <1>1, <2>7, <2>8, OthersKeep
<1> QED
  BY <1>5, <1>6, <1>7 DEF Judge

\* The steps from the last verdict to the merge queue leave the verdicts alone.
LEMMA AcceptedGoesOn ==
  ASSUME ReviewedInv, session.at \in {"record", "approve"}, NEW at \in {"approve", "queue"},
         session' = [session EXCEPT !.at = at], UNCHANGED <<job, class, queued>>, RecordedInv'
  PROVE  ReviewedInv'
<1>1. /\ session'.at = at /\ session'.head = session.head /\ session'.todo = session.todo
      /\ session'.verdicts = session.verdicts
      /\ DOMAIN session' = {"at", "head", "todo", "round", "tried", "verdicts"}
      /\ session.todo \in Seq(Asked) /\ session.verdicts \in Seq(Verdict) /\ AllAccepted
  BY DEF ReviewedInv, SessionInv
<1>2. /\ RolesAt(session.head)' = RolesAt(session.head) /\ AskedSoFar' = AskedSoFar
      /\ (IsHigh(session.head) <=> IsHigh(session.head)')
  BY <1>1 DEF RolesAt, IsHigh, AskedSoFar
<1>3. AllAccepted'
  <2>1. CASE IsHigh(session.head)
    BY <1>1, <1>2, <2>1 DEF AllAccepted
  <2>2. CASE ~IsHigh(session.head)
    BY <1>1, <1>2, <2>2 DEF AllAccepted
  <2> QED
    BY <2>1, <2>2
<1>4. SessionInv'
  BY <1>1, <1>3 DEF SessionInv
<1> QED
  BY <1>4, OthersKeep

LEMMA RecordKeeps == ASSUME ReviewedInv, RecordReview PROVE ReviewedInv'
<1>1. /\ session.at = "record" /\ UNCHANGED <<job, class, queued>>
      /\ DOMAIN subject = {"state", "verified", "tip", "review"}
      /\ DOMAIN session = {"at", "head", "todo", "round", "tried", "verdicts"}
  BY DEF RecordReview, ReviewedInv, RecordedInv, SessionInv
<1>2. PICK review :
        /\ review = [runner |-> session.verdicts[1].provider, tier |-> TierFor("pr_reviewer"),
                     head |-> session.head, approved |-> FALSE, used |-> FALSE]
        /\ \/ /\ subject' = [subject EXCEPT !.review = review]
              /\ session' = [session EXCEPT !.at = "approve"] \/ session' = NoSession
           \/ session' = NoSession /\ UNCHANGED subject
  BY DEF RecordReview
<1>3. DOMAIN subject' = {"state", "verified", "tip", "review"}
  BY <1>1, <1>2
<1>4. CASE session' = NoSession
  BY <1>1, <1>3, <1>4, SessionOver
<1>5. CASE session' = [session EXCEPT !.at = "approve"] /\ subject' = [subject EXCEPT !.review = review]
  <2>1. subject'.review = review /\ session'.head = session.head /\ session'.verdicts = session.verdicts
    BY <1>1, <1>5
  <2>2. RecordedInv'
    BY <1>2, <1>3, <2>1 DEF RecordedInv
  <2> QED
    BY <1>1, <1>5, <2>2, AcceptedGoesOn
<1> QED
  BY <1>2, <1>4, <1>5

LEMMA ApproveKeeps == ASSUME ReviewedInv, ApproveMerge PROVE ReviewedInv'
<1>1. /\ session.at = "approve" /\ session' = [session EXCEPT !.at = "queue"]
      /\ UNCHANGED <<job, class, queued>>
      /\ subject' = [subject EXCEPT !.review.approved = TRUE] \/ subject' = subject
  BY DEF ApproveMerge
<1>2. /\ DOMAIN subject = {"state", "verified", "tip", "review"}
      /\ DOMAIN session = {"at", "head", "todo", "round", "tried", "verdicts"}
      /\ DOMAIN subject.review = {"runner", "tier", "head", "approved", "used"}
      /\ subject.review.head = session.head
      /\ subject.review.runner = session.verdicts[1].provider
  BY <1>1 DEF ReviewedInv, SessionInv, RecordedInv
<1>3. /\ DOMAIN subject' = {"state", "verified", "tip", "review"}
      /\ DOMAIN subject'.review = {"runner", "tier", "head", "approved", "used"}
      /\ subject'.review.head = subject.review.head /\ subject'.review.runner = subject.review.runner
  BY <1>1, <1>2
<1>4. session'.head = session.head /\ session'.verdicts = session.verdicts
  BY <1>1, <1>2
<1>5. RecordedInv'
  BY <1>2, <1>3, <1>4 DEF RecordedInv
<1> QED
  BY <1>1, <1>5, AcceptedGoesOn

\* What enters the queue is what the session's verdicts are about.
LEMMA EnqueueKeeps == ASSUME ReviewedInv, Enqueue PROVE ReviewedInv'
<1>1. /\ session.at = "queue" /\ session' = NoSession /\ UNCHANGED <<job, class>>
      /\ DOMAIN subject = {"state", "verified", "tip", "review"}
      /\ DOMAIN subject.review = {"runner", "tier", "head", "approved", "used"}
      /\ subject.review.head = session.head
      /\ subject.review.runner = session.verdicts[1].provider
      /\ AllAccepted
  BY DEF Enqueue, ReviewedInv, SessionInv, RecordedInv
<1>2. CASE ~MayQueue
  BY <1>1, <1>2, SessionOver DEF Enqueue
<1>3. CASE MayQueue
  <2> DEFINE q == [head |-> subject.verified, reviewedAt |-> session.head, verdicts |-> session.verdicts]
  <2>1. queued' = queued \cup {q} /\ DOMAIN subject' = {"state", "verified", "tip", "review"}
    BY <1>1, <1>3 DEF Enqueue
  <2>2. subject.verified = session.head
    BY <1>1, <1>3 DEF MayQueue
  <2>3. /\ AskedSoFar = Range(RolesAt(session.head))
        /\ \A i \in DOMAIN session.verdicts :
             LET v == session.verdicts[i]
             IN  IF v.role = "verifier"
                 THEN v.says \in {"pass"} \cup (IF IsHigh(session.head) THEN {} ELSE {"inconclusive"})
                 ELSE v.says = "approved"
    BY <1>1 DEF AllAccepted
  <2>4. (class[session.head].review = 2 \/ class[session.head].risk = "high") /\ ~ByPersona(job.policy)
          => Profiles[session.verdicts[1].provider].family # Profiles[job.author.runner].family
    <3>1. ReviewSatisfies(subject.review, job.author, class[session.head], job.policy, job.usable)
      BY <1>3, <2>2 DEF MayQueue, Satisfies
    <3>2. ASSUME class[session.head].review = 2 \/ class[session.head].risk = "high"
          PROVE  RequiredReview(job.author, class[session.head]).strict = TRUE
      BY <3>2 DEF RequiredReview
    <3>3. ASSUME class[session.head].review = 2 \/ class[session.head].risk = "high", ~ByPersona(job.policy)
          PROVE  Profiles[subject.review.runner].family \notin {Profiles[job.author.runner].family}
      BY <3>1, <3>2, <3>3, Zenon DEF ReviewSatisfies, Candidates
    <3> QED
      BY <1>1, <3>3
  <2>5. \A role \in {q.verdicts[i].role : i \in DOMAIN q.verdicts} \ {"verifier"} :
          {q.verdicts[i].says : i \in {j \in DOMAIN q.verdicts : q.verdicts[j].role = role}} = {"approved"}
    BY <2>3
  <2>6. {q.verdicts[i].says : i \in {j \in DOMAIN q.verdicts : q.verdicts[j].role = "verifier"}}
          \subseteq {"pass"} \cup (IF IsHigh(q.head) THEN {} ELSE {"inconclusive"})
    <3>1. CASE IsHigh(session.head)
      BY <2>2, <2>3, <3>1
    <3>2. CASE ~IsHigh(session.head)
      BY <2>2, <2>3, <3>2
    <3> QED
      BY <3>1, <3>2
  <2>7. {q.verdicts[i].role : i \in DOMAIN q.verdicts} = Range(RolesAt(q.head))
    BY <2>2, <2>3 DEF AskedSoFar
  <2>8. ASSUME NEW p \in queued' PROVE p \in queued \/ p = q
    BY <2>1, <2>8
  <2>9. QueuedIsReviewed /\ UNCHANGED <<job, class>>
    BY <1>1 DEF ReviewedInv
  <2>10. \A head : RolesAt(head)' = RolesAt(head) /\ (IsHigh(head)' <=> IsHigh(head))
    BY <1>1 DEF IsHigh, RolesAt
  <2>11. QueuedIsReviewed'
    <3>1. ASSUME NEW p \in queued'
          PROVE  LET now == class[p.head]
                     asked == {p.verdicts[i].role : i \in DOMAIN p.verdicts}
                     said(role) == {p.verdicts[i].says : i \in {j \in DOMAIN p.verdicts : p.verdicts[j].role = role}}
                 IN  /\ p.head = p.reviewedAt
                     /\ asked = Range(RolesAt(p.head))
                     /\ \A role \in asked \ {"verifier"} : said(role) = {"approved"}
                     /\ said("verifier") \subseteq {"pass"} \cup (IF IsHigh(p.head) THEN {} ELSE {"inconclusive"})
                     /\ (now.review = 2 \/ now.risk = "high") /\ ~ByPersona(job.policy) =>
                          Profiles[p.verdicts[1].provider].family # Profiles[job.author.runner].family
      <4>1. CASE p \in queued
        BY <2>9, <4>1 DEF QueuedIsReviewed
      <4>2. CASE p = q
        <5>1. p.head = session.head /\ p.reviewedAt = session.head /\ p.verdicts = session.verdicts
          BY <2>2, <4>2
        <5>2. q.head = session.head /\ q.verdicts = session.verdicts
          BY <2>2
        <5> HIDE DEF q
        <5> QED
          BY <2>4, <2>5, <2>6, <2>7, <5>1, <5>2
      <4> QED
        BY <2>8, <4>1, <4>2
    <3> QED
      BY <2>9, <2>10, <3>1 DEF QueuedIsReviewed
  <2>12. SessionInv' /\ RecordedInv'
    BY <1>1, <2>1 DEF SessionInv, NoSession, RecordedInv
  <2> QED
    BY <2>11, <2>12 DEF ReviewedInv
<1> QED
  BY <1>2, <1>3

LEMMA ReviewedInductive == ReviewedInv /\ [ReviewNext]_reviewVars => ReviewedInv'
<1> SUFFICES ASSUME ReviewedInv, [ReviewNext]_reviewVars PROVE ReviewedInv'
  OBVIOUS
<1>1. DOMAIN subject = {"state", "verified", "tip", "review"}
  BY DEF ReviewedInv, RecordedInv
<1>2. CASE BranchMoves \/ WorkedAgain \/ Reopened \/ \E s \in State : Taken(s)
  BY <1>1, <1>2, SessionStays DEF BranchMoves, WorkedAgain, Reopened, Taken
<1>3. CASE SessionDies
  BY <1>1, <1>3, SessionOver DEF SessionDies
<1>4. CASE UNCHANGED reviewVars
  BY <1>1, <1>4, SessionStays DEF reviewVars
<1> QED
  BY <1>2, <1>3, <1>4, StartKeeps, PlayKeeps, JudgeKeeps, RecordKeeps, ApproveKeeps, EnqueueKeeps
  DEF ReviewNext

LEMMA ReviewedInitially == ReviewInit => ReviewedInv
<1>1. << >> \in Seq(Asked) /\ << >> \in Seq(Verdict)
  OBVIOUS
<1> QED
  BY <1>1 DEF ReviewInit, NoSession, ReviewedInv, SessionInv, RecordedInv, QueuedIsReviewed

\* What agents queue for a merge was reviewed at that head by every role its
\* changes call for, and by another family where that is required, whichever
\* providers failed, answered or died, and whatever happened to the unit meanwhile.
THEOREM QueuedWasReviewed == ReviewSpec => []QueuedIsReviewed
<1>1. ReviewedInv => QueuedIsReviewed
  BY DEF ReviewedInv
<1> QED
  BY <1>1, ReviewedInitially, ReviewedInductive, PTL DEF ReviewSpec

(************************** What a larger change scores *********************)

SignalNames ==
  {"mechanical_small", "fixture_generation", "many_files", "many_modules", "large_diff",
   "database", "security", "concurrency", "architecture", "no_acceptance_test",
   "previous_attempt_failed"}

\* What one signal adds to the score of a set of them, and the score, as a sum.
Worth(s, t) == IF s \in t THEN SignalPoints[s] ELSE 0

Total(t) ==
  Worth("mechanical_small", t) + Worth("fixture_generation", t) + Worth("many_files", t)
  + Worth("many_modules", t) + Worth("large_diff", t) + Worth("database", t)
  + Worth("security", t) + Worth("concurrency", t) + Worth("architecture", t)
  + Worth("no_acceptance_test", t) + Worth("previous_attempt_failed", t)

LEMMA PointsAre ==
  /\ SignalPoints["mechanical_small"] = -2 /\ SignalPoints["fixture_generation"] = -2
  /\ SignalPoints["many_files"] = 1 /\ SignalPoints["many_modules"] = 2
  /\ SignalPoints["large_diff"] = 1 /\ SignalPoints["database"] = 3
  /\ SignalPoints["security"] = 4 /\ SignalPoints["concurrency"] = 3
  /\ SignalPoints["architecture"] = 3 /\ SignalPoints["no_acceptance_test"] = 2
  /\ SignalPoints["previous_attempt_failed"] = 2
BY DEF SignalPoints

LEMMA WorthTyped ==
  /\ \A s \in SignalNames : SignalPoints[s] \in Int
  /\ \A s \in SignalNames : \A t : Worth(s, t) \in Int
<1>1. \A s \in SignalNames : SignalPoints[s] \in Int
  BY PointsAre DEF SignalNames
<1> QED
  BY <1>1 DEF Worth

LEMMA TotalTyped == \A t : Total(t) \in Int
<1> SUFFICES ASSUME NEW t PROVE Total(t) \in Int
  OBVIOUS
<1>1. /\ Worth("mechanical_small", t) \in Int /\ Worth("fixture_generation", t) \in Int
      /\ Worth("many_files", t) \in Int /\ Worth("many_modules", t) \in Int
      /\ Worth("large_diff", t) \in Int /\ Worth("database", t) \in Int
      /\ Worth("security", t) \in Int /\ Worth("concurrency", t) \in Int
      /\ Worth("architecture", t) \in Int /\ Worth("no_acceptance_test", t) \in Int
      /\ Worth("previous_attempt_failed", t) \in Int
  BY WorthTyped DEF SignalNames
<1> QED
  BY <1>1 DEF Total

\* Without one of its signals a set scores as much less.
LEMMA TotalWithout ==
  ASSUME NEW t, NEW x \in t, x \in SignalNames
  PROVE  Total(t) = SignalPoints[x] + Total(t \ {x})
<1>1. \A s \in SignalNames : Worth(s, t \ {x}) = IF s = x THEN 0 ELSE Worth(s, t)
  BY DEF Worth
<1>2. Worth(x, t) = SignalPoints[x]
  BY DEF Worth
<1> DEFINE w(s) == Worth(s, t)
           v(s) == Worth(s, t \ {x})
<1>3. \A s \in SignalNames : w(s) \in Int /\ v(s) = (IF s = x THEN 0 ELSE w(s))
  BY <1>1, WorthTyped
<1>4. w(x) = SignalPoints[x]
  BY <1>2
<1>5. /\ Total(t) = w("mechanical_small") + w("fixture_generation") + w("many_files")
                    + w("many_modules") + w("large_diff") + w("database") + w("security")
                    + w("concurrency") + w("architecture") + w("no_acceptance_test")
                    + w("previous_attempt_failed")
      /\ Total(t \ {x}) = v("mechanical_small") + v("fixture_generation") + v("many_files")
                    + v("many_modules") + v("large_diff") + v("database") + v("security")
                    + v("concurrency") + v("architecture") + v("no_acceptance_test")
                    + v("previous_attempt_failed")
  BY DEF Total
<1> HIDE DEF w, v
<1>6. /\ w("mechanical_small") \in Int /\ v("mechanical_small") = (IF x = "mechanical_small" THEN 0 ELSE w("mechanical_small"))
      /\ w("fixture_generation") \in Int /\ v("fixture_generation") = (IF x = "fixture_generation" THEN 0 ELSE w("fixture_generation"))
      /\ w("many_files") \in Int /\ v("many_files") = (IF x = "many_files" THEN 0 ELSE w("many_files"))
      /\ w("many_modules") \in Int /\ v("many_modules") = (IF x = "many_modules" THEN 0 ELSE w("many_modules"))
      /\ w("large_diff") \in Int /\ v("large_diff") = (IF x = "large_diff" THEN 0 ELSE w("large_diff"))
      /\ w("database") \in Int /\ v("database") = (IF x = "database" THEN 0 ELSE w("database"))
      /\ w("security") \in Int /\ v("security") = (IF x = "security" THEN 0 ELSE w("security"))
      /\ w("concurrency") \in Int /\ v("concurrency") = (IF x = "concurrency" THEN 0 ELSE w("concurrency"))
      /\ w("architecture") \in Int /\ v("architecture") = (IF x = "architecture" THEN 0 ELSE w("architecture"))
      /\ w("no_acceptance_test") \in Int /\ v("no_acceptance_test") = (IF x = "no_acceptance_test" THEN 0 ELSE w("no_acceptance_test"))
      /\ w("previous_attempt_failed") \in Int /\ v("previous_attempt_failed") = (IF x = "previous_attempt_failed" THEN 0 ELSE w("previous_attempt_failed"))
  BY <1>3 DEF SignalNames
<1>7. CASE x = "mechanical_small"
  BY <1>4, <1>5, <1>6, <1>7
<1>8. CASE x = "fixture_generation"
  BY <1>4, <1>5, <1>6, <1>8
<1>9. CASE x = "many_files"
  BY <1>4, <1>5, <1>6, <1>9
<1>10. CASE x = "many_modules"
  BY <1>4, <1>5, <1>6, <1>10
<1>11. CASE x = "large_diff"
  BY <1>4, <1>5, <1>6, <1>11
<1>12. CASE x = "database"
  BY <1>4, <1>5, <1>6, <1>12
<1>13. CASE x = "security"
  BY <1>4, <1>5, <1>6, <1>13
<1>14. CASE x = "concurrency"
  BY <1>4, <1>5, <1>6, <1>14
<1>15. CASE x = "architecture"
  BY <1>4, <1>5, <1>6, <1>15
<1>16. CASE x = "no_acceptance_test"
  BY <1>4, <1>5, <1>6, <1>16
<1>17. CASE x = "previous_attempt_failed"
  BY <1>4, <1>5, <1>6, <1>17
<1> QED
  BY <1>7, <1>8, <1>9, <1>10, <1>11, <1>12, <1>13, <1>14, <1>15, <1>16, <1>17 DEF SignalNames

\* ScoreTier adds up what it is given.
LEMMA ScoreIs ==
  ASSUME NEW S \in SUBSET SignalNames
  PROVE  MapThenSumSet(LAMBDA s : SignalPoints[s], S) = Total(S)
<1> DEFINE Sums(f) == f = [t \in SUBSET S |->
                             IF t = {} THEN 0
                             ELSE SignalPoints[CHOOSE x \in t : TRUE] + f[t \ {CHOOSE x \in t : TRUE}]]
           total == [t \in SUBSET S |-> Total(t)]
<1>1. Sums(total)
  <2>1. ASSUME NEW t \in SUBSET S, t # {}
        PROVE  Total(t) = SignalPoints[CHOOSE x \in t : TRUE] + Total(t \ {CHOOSE x \in t : TRUE})
    <3> DEFINE x == CHOOSE y \in t : TRUE
    <3>1. x \in t /\ x \in SignalNames
      BY <2>1
    <3> HIDE DEF x
    <3>2. Total(t) = SignalPoints[x] + Total(t \ {x})
      BY <3>1, TotalWithout
    <3> QED
      BY <3>2 DEF x
  <2>2. Total({}) = 0
    BY DEF Total, Worth
  <2>3. \A t \in SUBSET S : t \ {CHOOSE x \in t : TRUE} \in SUBSET S
    OBVIOUS
  <2> QED
    BY <2>1, <2>2, <2>3
<1> DEFINE sum == CHOOSE f : Sums(f)
<1>2. Sums(sum)
  BY <1>1
<1>3. MapThenSumSet(LAMBDA s : SignalPoints[s], S) = sum[S]
  BY DEF MapThenSumSet, MapThenFoldSet
<1> HIDE DEF sum
<1>4. IsFiniteSet(S)
  <2>1. IsFiniteSet(SignalNames)
    <3>3. ASSUME NEW a, NEW b, NEW c PROVE IsFiniteSet({a, b, c})
      <4>1. IsFiniteSet({a} \cup {b} \cup {c})
        BY FS_Singleton, FS_Union
      <4>2. {a} \cup {b} \cup {c} = {a, b, c}
        OBVIOUS
      <4> QED
        BY <4>1, <4>2
    <3> DEFINE A == {"mechanical_small", "fixture_generation", "many_files"}
               B == {"many_modules", "large_diff", "database"}
               C == {"security", "concurrency", "architecture"}
               D == {"no_acceptance_test", "previous_attempt_failed", "many_files"}
    <3>4. IsFiniteSet(A) /\ IsFiniteSet(B) /\ IsFiniteSet(C) /\ IsFiniteSet(D)
      BY <3>3
    <3>5. SignalNames = A \cup B \cup C \cup D
      BY DEF SignalNames
    <3> HIDE DEF A, B, C, D
    <3> QED
      BY <3>4, <3>5, FS_Union
  <2> QED
    BY <2>1, FS_Subset
<1> DEFINE Wrong == {t \in SUBSET S : sum[t] # Total(t)}
           Sizes == {Cardinality(t) : t \in Wrong}
<1>5. SUFFICES ASSUME Wrong # {} PROVE FALSE
  BY <1>3
<1>6. \A t \in SUBSET S : IsFiniteSet(t) /\ Cardinality(t) \in Nat
  BY <1>4, FS_Subset, FS_CardinalityType
<1>7. Sizes \in SUBSET Nat /\ Sizes # {}
  BY <1>5, <1>6
<1>8. PICK n \in Sizes : \A m \in Sizes : n <= m
  <2> HIDE DEF Sizes
  <2> QED
    BY <1>7, LeastNatural
<1>9. PICK t \in SUBSET S : sum[t] # Total(t) /\ n = Cardinality(t)
  BY <1>8
<1> DEFINE x == CHOOSE y \in t : TRUE
<1>10. sum[t] = IF t = {} THEN 0 ELSE SignalPoints[x] + sum[t \ {x}]
  BY <1>2
<1>11. Total({}) = 0
  BY DEF Total, Worth
<1>12. t # {}
  BY <1>9, <1>10, <1>11
<1>13. x \in t
  BY <1>12
<1> HIDE DEF x
<1>14. t \ {x} \in SUBSET S /\ Cardinality(t \ {x}) = n - 1 /\ n \in Nat
  BY <1>6, <1>9, <1>13, FS_RemoveElement
<1>15. sum[t \ {x}] = Total(t \ {x})
  <2>1. t \ {x} \notin Wrong
    BY <1>8, <1>14
  <2> QED
    BY <1>14, <2>1
<1>16. Total(t) = SignalPoints[x] + Total(t \ {x})
  BY <1>13, TotalWithout
<1> QED
  BY <1>9, <1>10, <1>12, <1>15, <1>16

Counted(unit, diff) == Cardinality(CountBasis(unit, diff))
Modules(unit, diff) == {p.dir : p \in CountBasis(unit, diff)}

LEMMA SignalsAre ==
  ASSUME NEW unit, NEW diff
  PROVE  /\ SignalsOf(unit, diff) \in SUBSET SignalNames
         /\ "mechanical_small" \in SignalsOf(unit, diff)
              <=> MechanicalSmall(unit, Counted(unit, diff))
         /\ "fixture_generation" \in SignalsOf(unit, diff) <=> "fixture_generation" \in unit.traits
         /\ "many_files" \in SignalsOf(unit, diff) <=> Counted(unit, diff) > 3
         /\ "many_modules" \in SignalsOf(unit, diff) <=> Cardinality(Modules(unit, diff)) >= 3
         /\ "large_diff" \in SignalsOf(unit, diff) <=> diff.lines > LargeDiff
         /\ "no_acceptance_test" \in SignalsOf(unit, diff) <=> ~unit.acceptance
         /\ "previous_attempt_failed" \in SignalsOf(unit, diff)
              <=> "previous_attempt_failed" \in unit.traits
         /\ \A s \in WordSignals :
              s \in SignalsOf(unit, diff)
                <=> \/ s \in unit.traits \/ \E p \in Touched(unit, diff) : s \in p.signals
                    \/ s = "security" /\ unit.secrets
<1> DEFINE words == {s \in WordSignals : s \in unit.traits \/ \E p \in Touched(unit, diff) : s \in p.signals}
           if(holds, signal) == IF holds THEN {signal} ELSE {}
<1>1. SignalsOf(unit, diff) =
        UNION {if(MechanicalSmall(unit, Counted(unit, diff)), "mechanical_small"),
               if("fixture_generation" \in unit.traits, "fixture_generation"),
               if(Counted(unit, diff) > 3, "many_files"),
               if(Cardinality(Modules(unit, diff)) >= 3, "many_modules"),
               if(diff.lines > LargeDiff, "large_diff"),
               if(unit.secrets, "security"),
               if(~unit.acceptance, "no_acceptance_test"),
               if("previous_attempt_failed" \in unit.traits, "previous_attempt_failed"),
               words}
  BY DEF SignalsOf, Counted, Modules
<1> HIDE DEF if
<1>2. \A x : x \in SignalsOf(unit, diff) <=>
        \/ x \in if(MechanicalSmall(unit, Counted(unit, diff)), "mechanical_small")
        \/ x \in if("fixture_generation" \in unit.traits, "fixture_generation")
        \/ x \in if(Counted(unit, diff) > 3, "many_files")
        \/ x \in if(Cardinality(Modules(unit, diff)) >= 3, "many_modules")
        \/ x \in if(diff.lines > LargeDiff, "large_diff")
        \/ x \in if(unit.secrets, "security")
        \/ x \in if(~unit.acceptance, "no_acceptance_test")
        \/ x \in if("previous_attempt_failed" \in unit.traits, "previous_attempt_failed")
        \/ x \in words
  <2> HIDE DEF words
  <2> QED
    BY <1>1
<1>3. \A x : x \in SignalsOf(unit, diff) <=>
        \/ x = "mechanical_small" /\ MechanicalSmall(unit, Counted(unit, diff))
        \/ x = "fixture_generation" /\ "fixture_generation" \in unit.traits
        \/ x = "many_files" /\ Counted(unit, diff) > 3
        \/ x = "many_modules" /\ Cardinality(Modules(unit, diff)) >= 3
        \/ x = "large_diff" /\ diff.lines > LargeDiff
        \/ x = "security" /\ unit.secrets
        \/ x = "no_acceptance_test" /\ ~unit.acceptance
        \/ x = "previous_attempt_failed" /\ "previous_attempt_failed" \in unit.traits
        \/ x \in WordSignals /\ (x \in unit.traits \/ \E p \in Touched(unit, diff) : x \in p.signals)
  BY <1>2 DEF if
<1> HIDE DEF words
<1>4. SignalsOf(unit, diff) \in SUBSET SignalNames
  BY <1>3 DEF SignalNames, WordSignals, ReviewSensitive
<1>5. /\ "mechanical_small" \notin WordSignals /\ "fixture_generation" \notin WordSignals
      /\ "many_files" \notin WordSignals /\ "many_modules" \notin WordSignals
      /\ "large_diff" \notin WordSignals /\ "no_acceptance_test" \notin WordSignals
      /\ "previous_attempt_failed" \notin WordSignals
  BY DEF WordSignals, ReviewSensitive
<1>6. ASSUME NEW s \in WordSignals
      PROVE  s \in SignalsOf(unit, diff)
               <=> \/ s \in unit.traits \/ \E p \in Touched(unit, diff) : s \in p.signals
                   \/ s = "security" /\ unit.secrets
  BY <1>3, <1>5
<1> QED
  BY <1>3, <1>4, <1>5, <1>6

\* A part of the changes, and their whole.
Grows(part, whole) ==
  /\ part.files \subseteq whole.files /\ part.files # {} /\ IsFiniteSet(whole.files)
  /\ part.lines \in Nat /\ whole.lines \in Nat /\ part.lines <= whole.lines

LEMMA CountsGrow ==
  ASSUME NEW unit, NEW part, NEW whole, Grows(part, whole)
  PROVE  /\ Counted(unit, part) \in Nat /\ Counted(unit, whole) \in Nat
         /\ Counted(unit, part) <= Counted(unit, whole)
         /\ Cardinality(Modules(unit, part)) \in Nat /\ Cardinality(Modules(unit, whole)) \in Nat
         /\ Cardinality(Modules(unit, part)) <= Cardinality(Modules(unit, whole))
         /\ Touched(unit, part) \subseteq Touched(unit, whole)
<1>1. CountBasis(unit, part) = part.files /\ CountBasis(unit, whole) = whole.files
  BY DEF Grows, CountBasis
<1>2. part.files \subseteq whole.files /\ IsFiniteSet(whole.files)
  BY DEF Grows
<1>3. /\ Cardinality(part.files) \in Nat /\ Cardinality(whole.files) \in Nat
      /\ Cardinality(part.files) <= Cardinality(whole.files)
  BY <1>2, FS_Subset, FS_CardinalityType
<1> DEFINE dirs(files) == {p.dir : p \in files}
<1>4. IsFiniteSet(dirs(whole.files)) /\ dirs(part.files) \subseteq dirs(whole.files)
  <2> DEFINE f == [p \in whole.files |-> p.dir]
  <2>1. f \in Surjection(whole.files, dirs(whole.files))
    BY DEF Surjection
  <2>2. IsFiniteSet(dirs(whole.files))
    BY <1>2, <2>1, FS_Surjection
  <2> QED
    BY <1>2, <2>2
<1>5. /\ Cardinality(dirs(part.files)) \in Nat /\ Cardinality(dirs(whole.files)) \in Nat
      /\ Cardinality(dirs(part.files)) <= Cardinality(dirs(whole.files))
  <2> HIDE DEF dirs
  <2> QED
    BY <1>4, FS_Subset, FS_CardinalityType
<1>6. Modules(unit, part) = dirs(part.files) /\ Modules(unit, whole) = dirs(whole.files)
  BY <1>1 DEF Modules
<1>7. Touched(unit, part) \subseteq Touched(unit, whole)
  BY <1>2 DEF Touched
<1> QED
  BY <1>1, <1>3, <1>5, <1>6, <1>7 DEF Counted

LEMMA SignalsGrow ==
  ASSUME NEW unit, NEW part, NEW whole, Grows(part, whole)
  PROVE  /\ "mechanical_small" \in SignalsOf(unit, whole) => "mechanical_small" \in SignalsOf(unit, part)
         /\ "fixture_generation" \in SignalsOf(unit, whole) <=> "fixture_generation" \in SignalsOf(unit, part)
         /\ \A s \in SignalNames \ {"mechanical_small", "fixture_generation"} :
              s \in SignalsOf(unit, part) => s \in SignalsOf(unit, whole)
<1>1. "mechanical_small" \in SignalsOf(unit, whole) => "mechanical_small" \in SignalsOf(unit, part)
  BY CountsGrow, SignalsAre DEF MechanicalSmall
<1>2. "fixture_generation" \in SignalsOf(unit, whole) <=> "fixture_generation" \in SignalsOf(unit, part)
  BY SignalsAre
<1>3. ASSUME NEW s \in WordSignals, s \in SignalsOf(unit, part) PROVE s \in SignalsOf(unit, whole)
  <2>1. s \in unit.traits \/ (\E p \in Touched(unit, part) : s \in p.signals) \/ (s = "security" /\ unit.secrets)
    BY <1>3, SignalsAre
  <2>2. Touched(unit, part) \subseteq Touched(unit, whole)
    BY CountsGrow
  <2>3. s \in unit.traits \/ (\E p \in Touched(unit, whole) : s \in p.signals) \/ (s = "security" /\ unit.secrets)
    BY <2>1, <2>2
  <2> QED
    BY <2>3, SignalsAre
<1>4. "many_files" \in SignalsOf(unit, part) => "many_files" \in SignalsOf(unit, whole)
  BY CountsGrow, SignalsAre
<1>5. "many_modules" \in SignalsOf(unit, part) => "many_modules" \in SignalsOf(unit, whole)
  BY CountsGrow, SignalsAre
<1>6. "large_diff" \in SignalsOf(unit, part) => "large_diff" \in SignalsOf(unit, whole)
  BY SignalsAre DEF Grows, LargeDiff
<1>7. /\ "no_acceptance_test" \in SignalsOf(unit, part) => "no_acceptance_test" \in SignalsOf(unit, whole)
      /\ "previous_attempt_failed" \in SignalsOf(unit, part)
           => "previous_attempt_failed" \in SignalsOf(unit, whole)
  BY SignalsAre
<1> QED
  BY <1>1, <1>2, <1>3, <1>4, <1>5, <1>6, <1>7 DEF SignalNames, WordSignals, ReviewSensitive

\* A larger change scores no less.
LEMMA ScoreGrows ==
  ASSUME NEW unit, NEW part, NEW whole, Grows(part, whole)
  PROVE  Total(SignalsOf(unit, part)) <= Total(SignalsOf(unit, whole))
<1> DEFINE less == SignalsOf(unit, part)
           more == SignalsOf(unit, whole)
<1>1. /\ "mechanical_small" \in more => "mechanical_small" \in less
      /\ "fixture_generation" \in more <=> "fixture_generation" \in less
      /\ \A s \in SignalNames \ {"mechanical_small", "fixture_generation"} : s \in less => s \in more
  BY SignalsGrow
<1> HIDE DEF less, more
<1>2. /\ Worth("mechanical_small", less) <= Worth("mechanical_small", more)
      /\ Worth("fixture_generation", less) <= Worth("fixture_generation", more)
  BY <1>1, PointsAre DEF Worth
<1>3. \A s \in SignalNames \ {"mechanical_small", "fixture_generation"} :
        SignalPoints[s] \in Int /\ SignalPoints[s] >= 0
  BY PointsAre DEF SignalNames
<1>4. \A s \in SignalNames \ {"mechanical_small", "fixture_generation"} :
        Worth(s, less) <= Worth(s, more)
  BY <1>1, <1>3 DEF Worth
<1> DEFINE v(s) == Worth(s, less)
           w(s) == Worth(s, more)
<1>5. \A s \in SignalNames : v(s) \in Int /\ w(s) \in Int /\ v(s) <= w(s)
  BY <1>2, <1>4, WorthTyped
<1>6. /\ Total(less) = v("mechanical_small") + v("fixture_generation") + v("many_files")
                    + v("many_modules") + v("large_diff") + v("database") + v("security")
                    + v("concurrency") + v("architecture") + v("no_acceptance_test")
                    + v("previous_attempt_failed")
      /\ Total(more) = w("mechanical_small") + w("fixture_generation") + w("many_files")
                    + w("many_modules") + w("large_diff") + w("database") + w("security")
                    + w("concurrency") + w("architecture") + w("no_acceptance_test")
                    + w("previous_attempt_failed")
  BY DEF Total
<1> HIDE DEF v, w
<1>7. Total(less) <= Total(more)
  BY <1>5, <1>6 DEF SignalNames
<1> QED
  BY <1>7 DEF less, more

\* What validate_work_unit lets through.
Routed(unit) ==
  unit.risk \in DOMAIN RiskFloor /\ unit.initial \in RoutingTier /\ unit.maximum \in RoutingTier

LEMMA FloorsAre ==
  /\ DOMAIN RiskFloor = {"low", "medium", "high"}
  /\ RiskFloor["low"] = 0 /\ RiskFloor["medium"] = 1 /\ RiskFloor["high"] = 2
BY DEF RiskFloor

LEMMA RiskGrows ==
  ASSUME NEW unit, Routed(unit), NEW part, NEW whole, Grows(part, whole)
  PROVE  /\ RiskOf(unit, part) \in DOMAIN RiskFloor /\ RiskOf(unit, whole) \in DOMAIN RiskFloor
         /\ RiskFloor[RiskOf(unit, part)] \in RoutingTier
         /\ RiskFloor[RiskOf(unit, whole)] \in RoutingTier
         /\ RiskFloor[RiskOf(unit, part)] <= RiskFloor[RiskOf(unit, whole)]
         /\ RiskOf(unit, part) = "high" => RiskOf(unit, whole) = "high"
         /\ RiskOf(unit, whole) = "low" => RiskOf(unit, part) = "low"
<1>1. Touched(unit, part) \subseteq Touched(unit, whole)
  BY CountsGrow
<1>2. \/ RiskOf(unit, part) = RiskOf(unit, whole)
      \/ RiskOf(unit, whole) = "high" /\ RiskOf(unit, part) = unit.risk
  BY <1>1 DEF RiskOf
<1>3. RiskOf(unit, part) \in DOMAIN RiskFloor /\ RiskOf(unit, whole) \in DOMAIN RiskFloor
  BY FloorsAre DEF RiskOf, Routed
<1> QED
  BY <1>2, <1>3, FloorsAre DEF RoutingTier, Routed

LEMMA TierGrows ==
  ASSUME NEW unit, NEW part, NEW whole, Grows(part, whole)
  PROVE  /\ ScoreTier(SignalsOf(unit, part)) \in RoutingTier
         /\ ScoreTier(SignalsOf(unit, whole)) \in RoutingTier
         /\ ScoreTier(SignalsOf(unit, part)) <= ScoreTier(SignalsOf(unit, whole))
<1> DEFINE less == SignalsOf(unit, part)
           more == SignalsOf(unit, whole)
<1>1. less \in SUBSET SignalNames /\ more \in SUBSET SignalNames
  BY SignalsAre
<1>2. Total(less) <= Total(more)
  BY ScoreGrows
<1> HIDE DEF less, more
<1>3. \A S \in SUBSET SignalNames :
        ScoreTier(S) = IF Total(S) <= 0 THEN 0 ELSE IF Total(S) <= 5 THEN 1 ELSE 2
  <2> SUFFICES ASSUME NEW S \in SUBSET SignalNames
               PROVE  ScoreTier(S) = IF Total(S) <= 0 THEN 0 ELSE IF Total(S) <= 5 THEN 1 ELSE 2
    OBVIOUS
  <2>1. MapThenSumSet(LAMBDA s : SignalPoints[s], S) = Total(S)
    BY ScoreIs
  <2> QED
    BY <2>1 DEF ScoreTier
<1>4. /\ ScoreTier(less) \in RoutingTier /\ ScoreTier(more) \in RoutingTier
      /\ ScoreTier(less) <= ScoreTier(more)
  BY <1>1, <1>2, <1>3, TotalTyped DEF RoutingTier
<1> QED
  BY <1>4 DEF less, more

LEMMA SmallShrinks ==
  ASSUME NEW unit, Routed(unit), NEW part, NEW whole, Grows(part, whole),
         SmallDeterministic(unit, whole)
  PROVE  SmallDeterministic(unit, part)
<1>1. RiskOf(unit, part) = "low" /\ unit.acceptance
  BY RiskGrows DEF SmallDeterministic
<1>2. Cardinality(CountBasis(unit, part)) <= 3
  BY CountsGrow DEF SmallDeterministic, Counted
<1>3. \/ part.lines <= SmallDiff /\ part.files # {}
      \/ unit.traits \cap {"mechanical", "fixture_generation"} # {}
  BY DEF SmallDeterministic, Grows, SmallDiff
<1>4. SignalsOf(unit, part) \cap ReviewSensitive = {}
  BY SignalsGrow DEF SmallDeterministic, ReviewSensitive, SignalNames
<1> QED
  BY <1>1, <1>2, <1>3, <1>4 DEF SmallDeterministic

\* classify() is monotone in the changes.
LEMMA ClassGrows ==
  ASSUME NEW unit, Routed(unit), NEW part, NEW whole, Grows(part, whole)
  PROVE  LET less == Classify(unit, part)
             now == Classify(unit, whole)
         IN  /\ now.ok => less.ok
             /\ less.review <= now.review
             /\ less.mustDiffer => now.mustDiffer
             /\ RiskFloor[less.risk] <= RiskFloor[now.risk]
<1> DEFINE risk(d) == RiskOf(unit, d)
           wanted(d) == Larger(ScoreTier(SignalsOf(unit, d)), Larger(RiskFloor[risk(d)], unit.initial))
           reached(d) == IF wanted(d) > unit.maximum THEN unit.maximum ELSE wanted(d)
           sensitive(d) == SignalsOf(unit, d) \cap ReviewSensitive # {}
           review(d) == IF sensitive(d) \/ risk(d) = "high" \/ reached(d) = 2 THEN 2
                        ELSE IF SmallDeterministic(unit, d) THEN 0 ELSE 1
<1>1. \A d : /\ Classify(unit, d).ok = (RiskFloor[risk(d)] <= unit.maximum)
             /\ Classify(unit, d).review = review(d)
             /\ Classify(unit, d).mustDiffer = (review(d) = 2 \/ unit.mustDiffer)
             /\ Classify(unit, d).risk = risk(d)
  BY DEF Classify
<1>2. /\ RiskFloor[risk(part)] \in RoutingTier /\ RiskFloor[risk(whole)] \in RoutingTier
      /\ RiskFloor[risk(part)] <= RiskFloor[risk(whole)]
      /\ risk(part) = "high" => risk(whole) = "high"
  BY RiskGrows
<1>3. /\ ScoreTier(SignalsOf(unit, part)) \in RoutingTier
      /\ ScoreTier(SignalsOf(unit, whole)) \in RoutingTier
      /\ ScoreTier(SignalsOf(unit, part)) <= ScoreTier(SignalsOf(unit, whole))
  BY TierGrows
<1>4. unit.initial \in RoutingTier /\ unit.maximum \in RoutingTier
  BY DEF Routed
<1>5. sensitive(part) => sensitive(whole)
  BY SignalsGrow DEF ReviewSensitive, SignalNames
<1>6. SmallDeterministic(unit, whole) => SmallDeterministic(unit, part)
  BY SmallShrinks
<1> HIDE DEF risk, sensitive
<1>7. /\ reached(part) \in RoutingTier /\ reached(whole) \in RoutingTier
      /\ reached(part) <= reached(whole)
  BY <1>2, <1>3, <1>4 DEF Larger, RoutingTier
<1> HIDE DEF reached
<1>8. reached(part) = 2 => reached(whole) = 2
  BY <1>7 DEF RoutingTier
<1>9. review(part) <= review(whole) /\ (review(part) = 2 => review(whole) = 2)
  BY <1>2, <1>5, <1>6, <1>8
<1> HIDE DEF review
<1>10. /\ Classify(unit, whole).ok => Classify(unit, part).ok
       /\ RiskFloor[Classify(unit, part).risk] <= RiskFloor[Classify(unit, whole).risk]
  <2>1. RiskFloor[risk(whole)] <= unit.maximum => RiskFloor[risk(part)] <= unit.maximum
    BY <1>2, <1>4 DEF RoutingTier
  <2>2. RiskFloor[risk(part)] <= RiskFloor[risk(whole)]
    BY <1>2
  <2> QED
    BY <1>1, <2>1, <2>2, Zenon
<1>11. /\ Classify(unit, part).review <= Classify(unit, whole).review
       /\ Classify(unit, part).mustDiffer => Classify(unit, whole).mustDiffer
  BY <1>1, <1>9
<1> QED
  BY <1>10, <1>11

(********************* A larger change is reviewed no less ******************)

\* A review looks at a head that was verified, classified by its changes.
ClassedInv ==
  /\ job \in Jobs /\ class = [head \in DOMAIN job.changes |-> Classify(job.unit, job.changes[head])]
  /\ ReviewTypeOK
  /\ subject.review = Unreviewed \/ subject.review.head \in 1..subject.verified
  /\ session.at # "idle" => session.head \in DOMAIN job.changes /\ session.head <= subject.verified

LEMMA ChangesTyped ==
  ASSUME job \in Jobs
  PROVE  /\ Len(job.changes) \in Nat \ {0} /\ DOMAIN job.changes = 1..Len(job.changes)
         /\ Routed(job.unit)
         /\ \A head \in DOMAIN job.changes :
              IsFiniteSet(job.changes[head].files) /\ job.changes[head].lines \in Nat
<1> DEFINE s == job.changes
           R == Range(s)
<1>1. s \in Seq(R) /\ s # << >> /\ Routed(job.unit)
  BY JobsAssumption DEF Routed
<1>2. \A diff \in R : IsFiniteSet(diff.files) /\ diff.lines \in Nat
  BY JobsAssumption
<1>3. \A head \in DOMAIN s : s[head] \in R
  BY DEF Range
<1> HIDE DEF R, s
<1>4. Len(s) \in Nat \ {0} /\ DOMAIN s = 1..Len(s)
  BY <1>1
<1> QED
  BY <1>1, <1>2, <1>3, <1>4 DEF s

LEMMA ClassedInitially == ReviewInit => ClassedInv
<1> SUFFICES ASSUME ReviewInit PROVE ClassedInv
  OBVIOUS
<1>1. /\ job \in Jobs /\ class = [head \in DOMAIN job.changes |-> Classify(job.unit, job.changes[head])]
      /\ subject = [state |-> "reviewing", verified |-> 1, tip |-> 1, review |-> Unreviewed]
      /\ session = NoSession
  BY DEF ReviewInit
<1>2. Len(job.changes) \in Nat \ {0} /\ DOMAIN job.changes = 1..Len(job.changes)
  BY <1>1, ChangesTyped
<1> QED
  BY <1>1, <1>2 DEF ClassedInv, ReviewTypeOK, NoSession, State

\* The part of the invariant a step has to show.
LEMMA ClassedStays ==
  ASSUME ClassedInv, UNCHANGED <<job, class>>,
         subject'.state \in State,
         subject'.verified \in subject.verified..Len(job.changes),
         subject'.tip \in subject'.verified..Len(job.changes) + 1,
         \/ subject'.review = subject.review
         \/ subject'.review.head \in 1..subject.verified,
         \/ session'.at = "idle" /\ session'.head = 0 /\ session'.tried = {}
         \/ /\ session'.at \in {"play", "judge", "record", "approve", "queue"}
            /\ session'.head \in {session.head, subject.verified}
            /\ session.at = "idle" => session'.head = subject.verified
            /\ session'.tried \subseteq Runners
  PROVE  ClassedInv'
<1>1. Len(job.changes) \in Nat \ {0} /\ DOMAIN job.changes = 1..Len(job.changes)
  BY ChangesTyped DEF ClassedInv
<1>2. subject.verified \in 1..Len(job.changes)
  BY <1>1 DEF ClassedInv, ReviewTypeOK
<1> QED
  BY <1>1, <1>2 DEF ClassedInv, ReviewTypeOK

\* Session and subject have the fields their updates expect.
LEMMA FieldsAre ==
  ASSUME ReviewedInv, ClassedInv
  PROVE  /\ DOMAIN session = {"at", "head", "todo", "round", "tried", "verdicts"}
         /\ DOMAIN subject = {"state", "verified", "tip", "review"}
         /\ Len(job.changes) \in Nat \ {0} /\ DOMAIN job.changes = 1..Len(job.changes)
         /\ subject.verified \in 1..Len(job.changes)
         /\ subject.tip \in subject.verified..Len(job.changes) + 1
         /\ subject.state \in State
         /\ session.at \in {"idle", "play", "judge", "record", "approve", "queue"}
         /\ session.tried \subseteq Runners
         /\ session.at # "idle" => session.head \in 1..subject.verified
BY ChangesTyped DEF ReviewedInv, SessionInv, RecordedInv, ClassedInv, ReviewTypeOK

LEMMA MovedSubject ==
  ASSUME ReviewedInv, ClassedInv, NEW s \in State
  PROVE  /\ MoveTo(s).state \in State /\ MoveTo(s).verified = subject.verified
         /\ MoveTo(s).tip = subject.tip /\ MoveTo(s).review = subject.review
BY FieldsAre DEF MoveTo

LEMMA ClassedStep ==
  ASSUME ReviewedInv, ClassedInv, [ReviewNext]_reviewVars
  PROVE  ClassedInv'
<1>1. /\ DOMAIN session = {"at", "head", "todo", "round", "tried", "verdicts"}
      /\ DOMAIN subject = {"state", "verified", "tip", "review"}
      /\ Len(job.changes) \in Nat \ {0} /\ DOMAIN job.changes = 1..Len(job.changes)
      /\ subject.verified \in 1..Len(job.changes)
      /\ subject.tip \in subject.verified..Len(job.changes) + 1
      /\ subject.state \in State
      /\ session.at \in {"idle", "play", "judge", "record", "approve", "queue"}
      /\ session.tried \subseteq Runners
      /\ session.at # "idle" => session.head \in 1..subject.verified
  BY FieldsAre
<1>2. CASE UNCHANGED reviewVars
  BY <1>2 DEF reviewVars, ClassedInv, ReviewTypeOK
<1>3. ASSUME UNCHANGED <<job, class, subject>>,
             \/ session' = NoSession
             \/ /\ session'.at \in {"play", "judge", "record", "approve", "queue"}
                /\ session'.head \in {session.head, subject.verified}
                /\ session.at = "idle" => session'.head = subject.verified
                /\ session'.tried \subseteq Runners
      PROVE  ClassedInv'
  <2>1. /\ subject'.state \in State /\ subject'.verified \in subject.verified..Len(job.changes)
        /\ subject'.tip \in subject'.verified..Len(job.changes) + 1
        /\ subject'.review = subject.review
    BY <1>1, <1>3
  <2>2. session' = NoSession =>
          session'.at = "idle" /\ session'.head = 0 /\ session'.tried = {}
    BY DEF NoSession
  <2> QED
    BY <1>3, <2>1, <2>2, ClassedStays
<1>4. ASSUME UNCHANGED <<job, class>>, session' = session \/ session' = NoSession,
             subject'.state \in State, subject'.verified \in subject.verified..Len(job.changes),
             subject'.tip \in subject'.verified..Len(job.changes) + 1,
             subject'.review = subject.review
      PROVE  ClassedInv'
  <2>1. /\ session.at = "idle" => session.head <= Len(job.changes)
        /\ session' = NoSession =>
             session'.at = "idle" /\ session'.head = 0 /\ session'.tried = {}
    BY DEF NoSession, ClassedInv, ReviewTypeOK
  <2>2. CASE session' = NoSession
    BY <1>4, <2>1, <2>2, ClassedStays
  <2>3. CASE session' = session
    BY <1>1, <1>4, <2>1, <2>3 DEF ClassedInv, ReviewTypeOK
  <2> QED
    BY <1>4, <2>2, <2>3
<1>5. CASE StartReview
  <2>1. /\ session' = [NoSession EXCEPT !.at = "play", !.head = subject.verified,
                                        !.todo = RolesAt(subject.verified)]
        /\ UNCHANGED <<job, class, subject>>
    BY <1>5 DEF StartReview
  <2>2. session'.at = "play" /\ session'.head = subject.verified /\ session'.tried = {}
    BY <2>1 DEF NoSession
  <2> QED
    BY <1>3, <2>1, <2>2
<1>6. ASSUME NEW provider, NEW outcome, GiveVerdict(provider, outcome), session.at = "play",
             UNCHANGED <<job, class, subject>>
      PROVE  ClassedInv'
  <2>1. session'.at = "judge" /\ session'.head = session.head /\ session'.tried = session.tried
    BY <1>1, <1>6 DEF GiveVerdict
  <2> QED
    BY <1>1, <1>3, <1>6, <2>1
<1>7. ASSUME NEW p \in Runners, ProviderFails(p) PROVE ClassedInv'
  <2>1. /\ session.at = "play" /\ UNCHANGED <<job, class, subject>>
        /\ session' = [session EXCEPT !.tried = @ \cup {p}]
    BY <1>7 DEF ProviderFails
  <2>2. /\ session'.at = "play" /\ session'.head = session.head
        /\ session'.tried = session.tried \cup {p}
    BY <1>1, <2>1
  <2> QED
    BY <1>1, <1>3, <2>1, <2>2
<1>8. ASSUME NEW p \in Runners, PlayTurn(p) PROVE ClassedInv'
  BY <1>6, <1>8 DEF PlayTurn
<1>9. CASE NobodyLeft
  <2>1. session.at = "play" /\ UNCHANGED <<job, class, subject>>
    BY <1>9 DEF NobodyLeft
  <2>2. CASE session' = [session EXCEPT !.round = "any", !.tried = {}]
    <3>1. session'.at = "play" /\ session'.head = session.head /\ session'.tried = {}
      BY <1>1, <2>1, <2>2
    <3> QED
      BY <1>1, <1>3, <2>1, <3>1
  <2>3. CASE GiveVerdict("none", "none")
    BY <1>6, <2>1, <2>3
  <2> QED
    BY <1>9, <2>2, <2>3 DEF NobodyLeft
<1>10. CASE Judge
  <2>1. session.at = "judge" /\ UNCHANGED <<job, class>>
    BY <1>10 DEF Judge
  <2>2. ASSUME NEW s \in State, subject' = MoveTo(s), session' = NoSession PROVE ClassedInv'
    <3>1. /\ subject'.state \in State /\ subject'.verified = subject.verified
          /\ subject'.tip = subject.tip /\ subject'.review = subject.review
      BY <2>2, MovedSubject
    <3> QED
      BY <1>1, <1>4, <2>1, <2>2, <3>1
  <2>3. CASE NeedsUser \/ ReturnedForChanges
    BY <2>2, <2>3 DEF NeedsUser, ReturnedForChanges, State
  <2>4. CASE NextRole
    <3>1. /\ session'.at = "play" /\ session'.head = session.head /\ session'.tried = {}
          /\ UNCHANGED subject
      BY <1>1, <2>4 DEF NextRole
    <3> QED
      BY <1>1, <1>3, <2>1, <3>1
  <2>5. CASE Accepted
    <3>1. /\ session'.at = "record" /\ session'.head = session.head
          /\ session'.tried = session.tried /\ UNCHANGED subject
      BY <1>1, <2>5 DEF Accepted
    <3> QED
      BY <1>1, <1>3, <2>1, <3>1
  <2> QED
    BY <1>10, <2>3, <2>4, <2>5 DEF Judge
<1>11. CASE RecordReview
  <2> DEFINE review == [runner |-> session.verdicts[1].provider, tier |-> TierFor("pr_reviewer"),
                        head |-> session.head, approved |-> FALSE, used |-> FALSE]
  <2>1. session.at = "record" /\ UNCHANGED <<job, class>>
    BY <1>11 DEF RecordReview
  <2>2. CASE session' = NoSession /\ UNCHANGED subject
    BY <1>3, <2>1, <2>2
  <2>3. CASE /\ subject' = [subject EXCEPT !.review = review]
             /\ session' = IF job.merging = "agents" THEN [session EXCEPT !.at = "approve"]
                           ELSE NoSession
    <3>1. /\ subject'.state = subject.state /\ subject'.verified = subject.verified
          /\ subject'.tip = subject.tip /\ subject'.review.head = session.head
      BY <1>1, <2>3
    <3>2. CASE session' = NoSession
      <4>1. session'.at = "idle" /\ session'.head = 0 /\ session'.tried = {}
        BY <3>2 DEF NoSession
      <4> QED
        BY <1>1, <2>1, <3>1, <4>1, ClassedStays
    <3>3. CASE session' = [session EXCEPT !.at = "approve"]
      <4>1. session'.at = "approve" /\ session'.head = session.head /\ session'.tried = session.tried
        BY <1>1, <3>3
      <4> QED
        BY <1>1, <2>1, <3>1, <4>1, ClassedStays
    <3> QED
      BY <2>3, <3>2, <3>3
  <2> QED
    BY <1>11, <2>2, <2>3 DEF RecordReview
<1>12. CASE ApproveMerge
  <2>1. /\ session.at = "approve" /\ UNCHANGED <<job, class>>
        /\ session'.at = "queue" /\ session'.head = session.head /\ session'.tried = session.tried
    BY <1>1, <1>12 DEF ApproveMerge
  <2>2. DOMAIN subject.review = {"runner", "tier", "head", "approved", "used"}
        /\ subject.review.head = session.head
    BY <2>1 DEF ReviewedInv, RecordedInv
  <2>3. CASE subject' = subject
    BY <1>1, <2>1, <2>3, <1>3
  <2>4. CASE subject' = [subject EXCEPT !.review.approved = TRUE]
    <3>1. /\ subject'.state = subject.state /\ subject'.verified = subject.verified
          /\ subject'.tip = subject.tip /\ subject'.review.head = session.head
      BY <1>1, <2>2, <2>4
    <3> QED
      BY <1>1, <2>1, <3>1, ClassedStays
  <2> QED
    BY <1>12, <2>3, <2>4 DEF ApproveMerge
<1>13. CASE Enqueue
  <2>1. session.at = "queue" /\ session' = NoSession /\ UNCHANGED <<job, class>>
    BY <1>13 DEF Enqueue
  <2>2. session'.at = "idle" /\ session'.head = 0 /\ session'.tried = {}
    BY <2>1 DEF NoSession
  <2>3. DOMAIN subject.review = {"runner", "tier", "head", "approved", "used"}
        /\ subject.review.head = session.head
    BY <2>1 DEF ReviewedInv, RecordedInv
  <2>4. CASE subject' = subject
    BY <1>3, <2>1, <2>4
  <2>5. CASE subject' = [subject EXCEPT !.state = "queued_for_merge", !.review.used = TRUE]
    <3>1. /\ subject'.state = "queued_for_merge" /\ subject'.verified = subject.verified
          /\ subject'.tip = subject.tip /\ subject'.review.head = session.head
      BY <1>1, <2>3, <2>5
    <3>2. "queued_for_merge" \in State
      BY DEF State
    <3> QED
      BY <1>1, <2>1, <2>2, <3>1, <3>2, ClassedStays
  <2> QED
    BY <1>13, <2>4, <2>5 DEF Enqueue
<1>14. CASE BranchMoves
  <2>1. /\ subject.tip = subject.verified /\ subject' = [subject EXCEPT !.tip = @ + 1]
        /\ UNCHANGED <<job, class, session>>
    BY <1>14 DEF BranchMoves
  <2> QED
    BY <1>1, <1>4, <2>1
<1>15. CASE WorkedAgain
  <2>1. /\ subject.verified < Len(job.changes) /\ UNCHANGED <<job, class, session>>
        /\ subject' = [subject EXCEPT !.state = "reviewing", !.verified = @ + 1,
                                      !.tip = subject.verified + 1]
    BY <1>15 DEF WorkedAgain
  <2>2. /\ subject'.state = "reviewing" /\ subject'.verified = subject.verified + 1
        /\ subject'.tip = subject.verified + 1 /\ subject'.review = subject.review
    BY <1>1, <2>1
  <2>3. "reviewing" \in State
    BY DEF State
  <2> QED
    BY <1>1, <1>4, <2>1, <2>2, <2>3
<1>16. ASSUME NEW s \in State, subject' = [subject EXCEPT !.state = s],
              UNCHANGED <<job, class, session>>
       PROVE  ClassedInv'
  BY <1>1, <1>4, <1>16
<1>17. CASE Reopened
  BY <1>16, <1>17 DEF Reopened, State
<1>18. ASSUME NEW s \in State, Taken(s) PROVE ClassedInv'
  BY <1>16, <1>18 DEF Taken
<1>19. CASE SessionDies
  BY <1>3, <1>19 DEF SessionDies
<1> QED
  BY <1>2, <1>5, <1>7, <1>8, <1>9, <1>10, <1>11, <1>12, <1>13, <1>14, <1>15, <1>17, <1>18, <1>19
  DEF ReviewNext

\* Job, unit and session of a review stay well formed (team/review.py).
THEOREM ReviewTypeCorrect == ReviewSpec => []ReviewTypeOK
<1>1. ClassedInv => ReviewTypeOK
  BY DEF ClassedInv
<1>2. ReviewedInv /\ ClassedInv /\ [ReviewNext]_reviewVars => ClassedInv'
  BY ClassedStep
<1> QED
  BY <1>1, <1>2, ClassedInitially, ReviewedInitially, ReviewedInductive, PTL DEF ReviewSpec

\* What holds of a review at every head that may be reviewed.
LEMMA NeverLighter ==
  ASSUME ClassedInv, NEW head \in DOMAIN job.changes
  PROVE  ~LighterThanAPart(head)
<1> DEFINE whole == job.changes[head]
<1>1. /\ Routed(job.unit) /\ IsFiniteSet(whole.files) /\ whole.lines \in Nat
      /\ class[head] = Classify(job.unit, whole)
  BY ChangesTyped DEF ClassedInv
<1> HIDE DEF whole
<1>2. ASSUME NEW part \in (SUBSET whole.files) \ {{}}, NEW lines \in {1, SmallDiff, whole.lines},
             lines <= whole.lines
      PROVE  LET less == Classify(job.unit, [files |-> part, lines |-> lines])
                 now == Classify(job.unit, whole)
             IN  /\ now.ok => less.ok
                 /\ ~(less.review > now.review)
                 /\ less.mustDiffer => now.mustDiffer
                 /\ ~(RiskFloor[less.risk] > RiskFloor[now.risk])
  <2> DEFINE d == [files |-> part, lines |-> lines]
  <2>1. lines \in Nat
    BY <1>1 DEF SmallDiff
  <2>2. Grows(d, whole)
    <3>1. d.files = part /\ d.lines = lines /\ part \subseteq whole.files /\ part # {}
      OBVIOUS
    <3> HIDE DEF d
    <3> QED
      BY <1>1, <1>2, <2>1, <3>1 DEF Grows
  <2>3. \A x \in Int, y \in Int : x <= y => ~(x > y)
    OBVIOUS
  <2> HIDE DEF d
  <2>4. /\ Classify(job.unit, whole).ok => Classify(job.unit, d).ok
        /\ Classify(job.unit, d).review <= Classify(job.unit, whole).review
        /\ Classify(job.unit, d).mustDiffer => Classify(job.unit, whole).mustDiffer
        /\ RiskFloor[Classify(job.unit, d).risk] <= RiskFloor[Classify(job.unit, whole).risk]
    BY <1>1, <2>2, ClassGrows
  <2>5. /\ Classify(job.unit, d).review \in Int /\ Classify(job.unit, whole).review \in Int
        /\ RiskFloor[Classify(job.unit, d).risk] \in Int
        /\ RiskFloor[Classify(job.unit, whole).risk] \in Int
    BY <1>1, <2>2, RiskGrows DEF Classify, RoutingTier
  <2> QED
    BY <2>3, <2>4, <2>5 DEF d
<1> QED
  BY <1>1, <1>2 DEF LighterThanAPart, whole

\* No change is recorded for a lighter review than a part of it alone would get
\* (routing/classify.py, team/review.py), for every unit, set of files and number
\* of lines.
THEOREM ReviewsGrow == ReviewSpec => []TierGrowsWithDiff
<1>1. ClassedInv => TierGrowsWithDiff
  <2> SUFFICES ASSUME ClassedInv, session.at = "record" PROVE ~LighterThanAPart(session.head)
    BY DEF TierGrowsWithDiff
  <2>1. session.head \in DOMAIN job.changes
    BY DEF ClassedInv
  <2> QED
    BY <2>1, NeverLighter
<1>2. ReviewedInv /\ ClassedInv /\ [ReviewNext]_reviewVars => ClassedInv'
  BY ClassedStep
<1> QED
  BY <1>1, <1>2, ClassedInitially, ReviewedInitially, ReviewedInductive, PTL DEF ReviewSpec

==============================================================================
