---------------------------- MODULE Operator_proofs ----------------------------
(***************************************************************************)
(* What concerns the operator, for every number of requests, calls, grants *)
(* and events.  The notification plugin's view follows the event log and   *)
(* agrees with the broker; a review record authorizes one execution each   *)
(* time it is approved, and while the lease keeps the calls apart the      *)
(* grants on a unit add up.                                                *)
(***************************************************************************)
EXTENDS GatedCommands, Notifications, Inductions, FiniteSetTheorems, SequenceTheorems, TLAPS

(*************************** The log and the view **************************)

Event == [seq : 1..MaxSeq, kind : {"requested", "progress"} \cup Decisions, ask : Asks]

Line == Event \cup {Fragment}

LEMMA NewFolded ==
  ASSUME NEW last \in Nat, NEW w \in Seq(Line)
  PROVE  \E got \in [0..Len(w) -> Seq(Event)] :
           /\ NewOf(last, w) = got[Len(w)]
           /\ got[0] = << >>
           /\ \A k \in 1..Len(w) : got[k] = Accept(last, got[k - 1], w[k])
<1> DEFINE n == Len(w)
           V == Seq(Event)
           op == [p \in V \X Line |-> Accept(last, p[1], p[2])]
<1>1. n \in Nat /\ w \in [1..n -> Line] /\ DOMAIN w = 1..n
  OBVIOUS
<1>2. op \in [V \X Line -> V]
  <2>1. ASSUME NEW got \in V, NEW e \in Line PROVE Accept(last, got, e) \in V
    BY DEF Accept, Line
  <2> QED
    BY <2>1
<1>3. \A got \in V, e \in Line : op[<<got, e>>] = Accept(last, got, e)
  OBVIOUS
<1> DEFINE none == << >>
<1>4. none \in V
  OBVIOUS
<1> HIDE DEF V, op, n, none
<1>5. PICK iter : FoldsOver(iter, V, op, none, n, w)
  BY <1>1, <1>2, <1>4, FoldExists
<1>6. /\ iter \in [SUBSET (1..n) -> V]
      /\ \A t \in SUBSET (1..n) :
           iter[t] = IF t = {} THEN none ELSE op[<<iter[t \ {Max(t)}], w[Max(t)]>>]
  BY <1>5 DEF FoldsOver
<1> DEFINE Folds(f) ==
             f = [t \in SUBSET (1..n) |-> IF t = {} THEN none
                                          ELSE Accept(last, f[t \ {Max(t)}], w[Max(t)])]
<1>7. Folds(iter)
  <2>1. ASSUME NEW t \in SUBSET (1..n)
        PROVE  iter[t] = IF t = {} THEN none ELSE Accept(last, iter[t \ {Max(t)}], w[Max(t)])
    <3>1. CASE t = {}
      BY <1>6, <3>1
    <3>2. CASE t # {}
      <4>1. Max(t) \in 1..n
        BY <1>1, <3>2, MaxOfSome
      <4>2. t \ {Max(t)} \in SUBSET (1..n) /\ iter[t \ {Max(t)}] \in V /\ w[Max(t)] \in Line
        BY <1>1, <1>6, <4>1
      <4> QED
        BY <1>3, <1>6, <3>2, <4>2
    <3> QED
      BY <3>1, <3>2
  <2> QED
    BY <1>6, <2>1
<1> DEFINE F == CHOOSE f : Folds(f)
<1>8. Folds(F)
  BY <1>7
<1>9. NewOf(last, w) = F[1..n]
  BY <1>1 DEF NewOf, FoldLeft, MapThenFoldSet, none
<1> HIDE DEF F
<1>10. \A t \in SUBSET (1..n) :
        F[t] = IF t = {} THEN none ELSE Accept(last, F[t \ {Max(t)}], w[Max(t)])
  BY <1>8
<1> DEFINE got == [k \in 0..n |-> F[1..k]]
<1>11. 1..0 = {} /\ F[{}] = none
  <2>1. {} \in SUBSET (1..n)
    OBVIOUS
  <2>2. F[{}] = none
    BY <1>10, <2>1
  <2> QED
    BY <2>2
<1>12. got[0] = << >>
  BY <1>1, <1>11 DEF none
<1>13. ASSUME NEW k \in 1..n PROVE got[k] = Accept(last, got[k - 1], w[k])
  <2>1. /\ 1..k \in SUBSET (1..n) /\ 1..k # {} /\ Max(1..k) = k
        /\ (1..k) \ {Max(1..k)} = 1..k - 1
    BY <1>1, FoldSteps
  <2>2. F[1..k] = Accept(last, F[1..k - 1], w[k])
    BY <1>10, <2>1
  <2>3. k \in 0..n /\ k - 1 \in 0..n
    BY <1>1
  <2> QED
    BY <2>2, <2>3
<1> HIDE DEF got
<1>14. ASSUME NEW k \in Nat, k \in {i \in Nat : i <= n => got[i] \in V}
       PROVE  k + 1 \in {i \in Nat : i <= n => got[i] \in V}
  <2> SUFFICES ASSUME k + 1 <= n PROVE got[k + 1] \in V
    OBVIOUS
  <2>1. k + 1 \in 1..n /\ (k + 1) - 1 = k /\ got[k] \in V /\ w[k + 1] \in Line
    BY <1>1, <1>14
  <2>2. got[k + 1] = Accept(last, got[k], w[k + 1])
    BY <1>13, <2>1
  <2> QED
    BY <2>1, <2>2 DEF Accept, V, Line
<1>15. \A k \in 0..n : got[k] \in V
  <2> DEFINE S == {i \in Nat : i <= n => got[i] \in V}
  <2>1. 0 \in S
    BY <1>4, <1>12 DEF none
  <2>2. Nat \subseteq S
    <3> HIDE DEF S
    <3>1. \A k \in Nat : k \in S => k + 1 \in S
      BY <1>14 DEF S
    <3> QED
      BY <2>1, <3>1, NumbersInduct
  <2> QED
    BY <1>1, <2>2
<1>16. got \in [0..n -> V] /\ got[n] = F[1..n]
  BY <1>1, <1>15 DEF got
<1> QED
  BY <1>9, <1>12, <1>13, <1>16 DEF V, n

LEMMA ShortenedTyped ==
  ASSUME NEW S, NEW f \in Seq(S), f # << >> PROVE Shortened(f) \in Seq(S)
<1>1. Len(f) \in Nat /\ Len(f) >= 1 /\ \A i \in 1..Len(f) : f[i] \in S
  OBVIOUS
<1>2. ASSUME NEW k \in {1, 2} PROVE SubSeq(f, k, Len(f)) \in Seq(S)
  <2>1. k \in Int /\ Len(f) \in Int /\ \A i \in k..Len(f) : f[i] \in S
    BY <1>1
  <2> QED
    BY <2>1, SubSeqProperties
<1>3. Shortened(f) \in {SubSeq(f, 1, Len(f)), SubSeq(f, 2, Len(f))}
  BY DEF Shortened
<1> QED
  BY <1>2, <1>3

\* The numbers of what a view reflects.
LEMMA AppliedNumbers ==
  ASSUME NEW v \in View PROVE v.applied \in Seq(Nat) /\ Len(v.applied) \in Nat
<1>1. PICK s \in Seq(1..MaxSeq) : s = v.applied
  BY DEF View
<1>2. Len(s) \in Nat /\ s \in [1..Len(s) -> 1..MaxSeq]
  BY LenProperties
<1>3. s \in [1..Len(s) -> Nat]
  BY <1>2
<1>4. s \in Seq(Nat)
  BY <1>2, <1>3
<1> QED
  BY <1>1, <1>2, <1>4

LEMMA ApplyTyped ==
  ASSUME NEW v \in View, NEW e \in Event
  PROVE  /\ ApplyEvent(v, e) \in View
         /\ ApplyEvent(v, e).applied = Append(v.applied, e.seq)
         /\ ApplyEvent(v, e).asks = [v.asks EXCEPT ![e.ask] = StatusAfter(@, e)]
<1>1. /\ v.asks \in [Asks -> {"unknown", "pending"} \cup Decisions] /\ v.feed \in Seq(1..MaxSeq)
      /\ v.applied \in Seq(1..MaxSeq) /\ e.seq \in 1..MaxSeq /\ e.ask \in Asks
      /\ e.kind \in {"requested", "progress"} \cup Decisions
  BY DEF View, Event
<1>2. StatusAfter(v.asks[e.ask], e) \in {"unknown", "pending"} \cup Decisions
  BY <1>1 DEF StatusAfter
<1>3. Shortened(Append(v.feed, e.seq)) \in Seq(1..MaxSeq)
  <2>1. Append(v.feed, e.seq) \in Seq(1..MaxSeq) /\ Append(v.feed, e.seq) # << >>
    BY <1>1
  <2> QED
    BY <2>1, ShortenedTyped
<1>4. [v.asks EXCEPT ![e.ask] = StatusAfter(@, e)] \in [Asks -> {"unknown", "pending"} \cup Decisions]
  BY <1>1, <1>2
<1>5. Append(v.applied, e.seq) \in Seq(1..MaxSeq)
  BY <1>1
<1> QED
  BY <1>1, <1>3, <1>4, <1>5 DEF ApplyEvent, View

LEMMA ViewFolded ==
  ASSUME NEW view \in View, NEW w \in Seq(Event)
  PROVE  \E got \in [0..Len(w) -> View] :
           /\ FoldLeft(ApplyEvent, view, w) = got[Len(w)]
           /\ got[0] = view
           /\ \A k \in 1..Len(w) : got[k] = ApplyEvent(got[k - 1], w[k])
<1> DEFINE n == Len(w)
           V == View
           op == [p \in V \X Event |-> ApplyEvent(p[1], p[2])]
<1>1. n \in Nat /\ w \in [1..n -> Event] /\ DOMAIN w = 1..n
  OBVIOUS
<1>2. op \in [V \X Event -> V]
  <2>1. ASSUME NEW got \in V, NEW e \in Event PROVE ApplyEvent(got, e) \in V
    BY ApplyTyped
  <2> QED
    BY <2>1
<1>3. \A got \in V, e \in Event : op[<<got, e>>] = ApplyEvent(got, e)
  OBVIOUS
<1> DEFINE none == view
<1>4. none \in V
  OBVIOUS
<1> HIDE DEF V, op, n, none
<1>5. PICK iter : FoldsOver(iter, V, op, none, n, w)
  BY <1>1, <1>2, <1>4, FoldExists
<1>6. /\ iter \in [SUBSET (1..n) -> V]
      /\ \A t \in SUBSET (1..n) :
           iter[t] = IF t = {} THEN none ELSE op[<<iter[t \ {Max(t)}], w[Max(t)]>>]
  BY <1>5 DEF FoldsOver
<1> DEFINE Folds(f) ==
             f = [t \in SUBSET (1..n) |-> IF t = {} THEN none
                                          ELSE ApplyEvent(f[t \ {Max(t)}], w[Max(t)])]
<1>7. Folds(iter)
  <2>1. ASSUME NEW t \in SUBSET (1..n)
        PROVE  iter[t] = IF t = {} THEN none ELSE ApplyEvent(iter[t \ {Max(t)}], w[Max(t)])
    <3>1. CASE t = {}
      BY <1>6, <3>1
    <3>2. CASE t # {}
      <4>1. Max(t) \in 1..n
        BY <1>1, <3>2, MaxOfSome
      <4>2. t \ {Max(t)} \in SUBSET (1..n) /\ iter[t \ {Max(t)}] \in V /\ w[Max(t)] \in Event
        BY <1>1, <1>6, <4>1
      <4> QED
        BY <1>3, <1>6, <3>2, <4>2
    <3> QED
      BY <3>1, <3>2
  <2> QED
    BY <1>6, <2>1
<1> DEFINE F == CHOOSE f : Folds(f)
<1>8. Folds(F)
  BY <1>7
<1>9. FoldLeft(ApplyEvent, view, w) = F[1..n]
  BY <1>1 DEF FoldLeft, MapThenFoldSet, none
<1> HIDE DEF F
<1>10. \A t \in SUBSET (1..n) :
        F[t] = IF t = {} THEN none ELSE ApplyEvent(F[t \ {Max(t)}], w[Max(t)])
  BY <1>8
<1> DEFINE got == [k \in 0..n |-> F[1..k]]
<1>11. 1..0 = {} /\ F[{}] = none
  <2>1. {} \in SUBSET (1..n)
    OBVIOUS
  <2>2. F[{}] = none
    BY <1>10, <2>1
  <2> QED
    BY <2>2
<1>12. got[0] = view
  BY <1>1, <1>11 DEF none
<1>13. ASSUME NEW k \in 1..n PROVE got[k] = ApplyEvent(got[k - 1], w[k])
  <2>1. /\ 1..k \in SUBSET (1..n) /\ 1..k # {} /\ Max(1..k) = k
        /\ (1..k) \ {Max(1..k)} = 1..k - 1
    BY <1>1, FoldSteps
  <2>2. F[1..k] = ApplyEvent(F[1..k - 1], w[k])
    BY <1>10, <2>1
  <2>3. k \in 0..n /\ k - 1 \in 0..n
    BY <1>1
  <2> QED
    BY <2>2, <2>3
<1> HIDE DEF got
<1>14. ASSUME NEW k \in Nat, k \in {i \in Nat : i <= n => got[i] \in V}
       PROVE  k + 1 \in {i \in Nat : i <= n => got[i] \in V}
  <2> SUFFICES ASSUME k + 1 <= n PROVE got[k + 1] \in V
    OBVIOUS
  <2>1. k + 1 \in 1..n /\ (k + 1) - 1 = k /\ got[k] \in V /\ w[k + 1] \in Event
    BY <1>1, <1>14
  <2>2. got[k + 1] = ApplyEvent(got[k], w[k + 1])
    BY <1>13, <2>1
  <2>3. ApplyEvent(got[k], w[k + 1]) \in View
    BY <2>1, ApplyTyped DEF V
  <2> QED
    BY <2>2, <2>3 DEF V
<1>15. \A k \in 0..n : got[k] \in V
  <2> DEFINE S == {i \in Nat : i <= n => got[i] \in V}
  <2>1. 0 \in S
    BY <1>4, <1>12 DEF none
  <2>2. Nat \subseteq S
    <3> HIDE DEF S
    <3>1. \A k \in Nat : k \in S => k + 1 \in S
      BY <1>14 DEF S
    <3> QED
      BY <2>1, <3>1, NumbersInduct
  <2> QED
    BY <1>1, <2>2
<1>16. got \in [0..n -> V] /\ got[n] = F[1..n]
  BY <1>1, <1>15 DEF got
<1> QED
  BY <1>9, <1>12, <1>13, <1>16 DEF V, n

LEMMA NotFragment == ASSUME NEW e \in Event PROVE e # Fragment /\ e.seq \in Nat /\ e.seq > 0
  BY DEF Event, Fragment

\* What a poll takes of the first k lines it reads.
Selected(news, last, w, k) ==
  /\ news \in Seq(Event)
  /\ \A a, b \in 1..Len(news) : a < b => news[a].seq < news[b].seq
  /\ \A a \in 1..Len(news) :
       /\ news[a].seq > last
       /\ \E i \in 1..k : w[i] = news[a]
  /\ \A i \in 1..k : w[i] # Fragment /\ w[i].seq > last => \E a \in 1..Len(news) : news[a] = w[i]

LEMMA NewSelected ==
  ASSUME NEW last \in Nat, NEW w \in Seq(Line),
         \A i, j \in 1..Len(w) : i < j /\ w[i] # Fragment /\ w[j] # Fragment => w[i].seq < w[j].seq
  PROVE  Selected(NewOf(last, w), last, w, Len(w))
<1>1. PICK got \in [0..Len(w) -> Seq(Event)] :
           /\ NewOf(last, w) = got[Len(w)]
           /\ got[0] = << >>
           /\ \A k \in 1..Len(w) : got[k] = Accept(last, got[k - 1], w[k])
  BY NewFolded
<1> DEFINE S == {k \in Nat : k <= Len(w) => Selected(got[k], last, w, k)}
<1>2. 0 \in S
  BY <1>1 DEF Selected
<1>3. ASSUME NEW k \in Nat, k \in S PROVE k + 1 \in S
  <2> SUFFICES ASSUME k + 1 <= Len(w) PROVE Selected(got[k + 1], last, w, k + 1)
    OBVIOUS
  <2>1. /\ k + 1 \in 1..Len(w) /\ (k + 1) - 1 = k /\ k \in 0..Len(w) /\ Len(w) \in Nat
        /\ w[k + 1] \in Line
    OBVIOUS
  <2>2. /\ Selected(got[k], last, w, k) /\ got[k] \in Seq(Event)
        /\ got[k + 1] = Accept(last, got[k], w[k + 1])
    BY <1>1, <1>3, <2>1
  <2> DEFINE new == w[k + 1] # Fragment /\ w[k + 1].seq > last
  <2>3. CASE ~new
    <3>1. got[k + 1] = got[k]
      BY <2>2, <2>3 DEF Accept
    <3>2. \A i \in 1..k + 1 : i \in 1..k \/ i = k + 1
      BY <2>1
    <3>3. \A i \in 1..k : i \in 1..k + 1
      BY <2>1
    <3> QED
      BY <2>2, <2>3, <3>1, <3>2, <3>3 DEF Selected
  <2>4. CASE new
    <3> DEFINE old == got[k]
               n == Len(old)
    <3>1. got[k + 1] = Append(old, w[k + 1]) /\ w[k + 1] \in Event
      BY <2>1, <2>2, <2>4 DEF Accept, Line
    <3>2. /\ got[k + 1] \in Seq(Event) /\ Len(got[k + 1]) = n + 1 /\ n \in Nat
          /\ \A a \in 1..n : got[k + 1][a] = old[a] /\ a \in 1..n + 1
          /\ got[k + 1][n + 1] = w[k + 1]
          /\ \A a \in 1..n + 1 : a \in 1..n \/ a = n + 1
      BY <2>2, <3>1
    <3>3. \A a \in 1..n : \E i \in 1..k : w[i] = old[a]
      BY <2>2 DEF Selected
    <3>4. \A a \in 1..n : old[a].seq < w[k + 1].seq
      <4> TAKE a \in 1..n
      <4>1. PICK i \in 1..k : w[i] = old[a]
        BY <3>3
      <4>2. old[a] \in Event /\ old[a] # Fragment
        BY <2>2, NotFragment
      <4>3. i \in 1..Len(w) /\ i < k + 1
        BY <2>1
      <4> QED
        BY <2>1, <2>4, <4>1, <4>2, <4>3
    <3>5. \A i \in 1..k + 1 : i \in 1..k \/ i = k + 1
      BY <2>1
    <3>6. (\A i \in 1..k : i \in 1..k + 1) /\ k + 1 \in 1..k + 1
      BY <2>1
    <3> HIDE DEF old, n
    <3>7. \A a, b \in 1..n + 1 : a < b => got[k + 1][a].seq < got[k + 1][b].seq
      <4> TAKE a, b \in 1..n + 1
      <4> SUFFICES ASSUME a < b PROVE got[k + 1][a].seq < got[k + 1][b].seq
        OBVIOUS
      <4>1. a \in 1..n
        BY <3>2
      <4>2. CASE b = n + 1
        BY <3>2, <3>4, <4>1, <4>2
      <4>3. CASE b \in 1..n
        BY <2>2, <3>2, <4>1, <4>3 DEF Selected, old, n
      <4> QED
        BY <3>2, <4>2, <4>3
    <3>8. \A a \in 1..n + 1 : got[k + 1][a].seq > last /\ \E i \in 1..k + 1 : w[i] = got[k + 1][a]
      <4> TAKE a \in 1..n + 1
      <4>1. CASE a = n + 1
        BY <2>4, <3>2, <3>6, <4>1
      <4>2. CASE a \in 1..n
        BY <2>2, <3>2, <3>3, <3>6, <4>2 DEF Selected, old, n
      <4> QED
        BY <3>2, <4>1, <4>2
    <3>9. \A i \in 1..k + 1 : w[i] # Fragment /\ w[i].seq > last
                              => \E a \in 1..n + 1 : got[k + 1][a] = w[i]
      <4> TAKE i \in 1..k + 1
      <4>1. CASE i = k + 1
        BY <3>2, <4>1
      <4>2. CASE i \in 1..k
        BY <2>2, <3>2, <4>2 DEF Selected, old, n
      <4> QED
        BY <3>5, <4>1, <4>2
    <3> QED
      BY <3>2, <3>7, <3>8, <3>9 DEF Selected
  <2> QED
    BY <2>3, <2>4
<1> HIDE DEF S
<1>4. Len(w) \in S
  BY <1>2, <1>3, NumbersInduct
<1> QED
  BY <1>1, <1>4 DEF S

(***************************************************************************)
(* Why the view follows the log.  Numbers increase along the log, and each *)
(* that was reached is a line's or was rotated away.  What a cursor has    *)
(* passed in the file it is for is numbered no higher than its last event, *)
(* so an event that is above it is still ahead; and the view reflects all  *)
(* up to it.                                                               *)
(***************************************************************************)

Read(ls) == {i \in 1..Len(ls) : ls[i] # Fragment}

\* The log has come to number q.
Reached(q, ls) == q = 0 \/ \E i \in Read(ls) : q <= ls[i].seq

LogOk(ls, half, f, rot) ==
  /\ ls \in Seq(Line) /\ half \in BOOLEAN /\ f \in Nat /\ rot \in SUBSET Nat
  /\ half => Len(ls) > 0
  /\ \A i, j \in Read(ls) : i < j => ls[i].seq < ls[j].seq
  /\ \A q \in Nat \ {0} : Reached(q, ls) => q \in rot \/ \E i \in Read(ls) : ls[i].seq = q

CompleteOf(ls, half) == IF half THEN Len(ls) - 1 ELSE Len(ls)

CursorOk(c, ls, half, f) ==
  /\ c \in [offset : Nat, lastSeq : Nat, file : Nat]
  /\ c.file <= f
  /\ Reached(c.lastSeq, ls)
  /\ c.file = f => /\ c.offset <= CompleteOf(ls, half)
                   /\ \A i \in Read(ls) : i <= c.offset => ls[i].seq <= c.lastSeq

ViewOk(v, last, rot) ==
  /\ v \in View
  /\ \A i \in 1..Len(v.applied) : v.applied[i] <= last
  /\ \A i, j \in 1..Len(v.applied) : i < j => v.applied[i] < v.applied[j]
  /\ \A q \in 1..last : q \in rot \/ \E i \in 1..Len(v.applied) : v.applied[i] = q

(***************************************************************************)
(* Why the view agrees.  An event about a request says what the broker     *)
(* holds of it; a request has its events, in the log or still to be logged,*)
(* unless one was lost or the log was rotated; and the view shows what the *)
(* events up to its cursor say, and no more.                               *)
(***************************************************************************)

Tells(e, st) ==
  /\ e.kind = "requested" => st[e.ask] # "none"
  /\ e.kind \in Decisions => st[e.ask] = e.kind

Announced(a, kind, uns, ls, rot) ==
  \/ rot # {}
  \/ \E n \in uns : n.ask = a /\ n.kind = kind
  \/ \E i \in Read(ls) : ls[i].ask = a /\ ls[i].kind = kind

StatusOk(st, uns, mis, ls, rot) ==
  /\ st \in [Asks -> {"none", "pending"} \cup Decisions]
  /\ uns \subseteq News
  /\ \A n \in uns : Tells(n, st)
  /\ \A i \in Read(ls) : Tells(ls[i], st)
  /\ \A a \in Asks : a \notin mis =>
       /\ st[a] # "none" => Announced(a, "requested", uns, ls, rot)
       /\ st[a] \in Decisions => Announced(a, st[a], uns, ls, rot)

Shows(v, e) ==
  /\ e.kind = "requested" => v.asks[e.ask] # "unknown"
  /\ e.kind \in Decisions => v.asks[e.ask] \in Decisions

\* No more than the broker holds.
Honest(v, st) ==
  \A a \in Asks : /\ v.asks[a] # "unknown" => st[a] # "none"
                  /\ v.asks[a] \in Decisions => st[a] = v.asks[a]

Honours(v, last, ls) == \A i \in Read(ls) : ls[i].seq <= last => Shows(v, ls[i])

SideOk(c, v, ls, half, f, rot, st) ==
  /\ CursorOk(c, ls, half, f)
  /\ ViewOk(v, c.lastSeq, rot)
  /\ Honest(v, st)
  /\ Honours(v, c.lastSeq, ls)

PluginOk(p) ==
  /\ p \in [at : {"down", "idle", "saving", "deciding", "submitting"},
            cursor : [offset : Nat, lastSeq : Nat, file : Nat], view : View,
            job : Asks \cup {NoAsk}]
  /\ p.at = "deciding" => p.job \in Asks

NotificationsInv ==
  /\ LogOk(lines, halfLine, file, rotated)
  /\ StatusOk(status, unsent, missed, lines, rotated)
  /\ PluginOk(plugin)
  /\ kept \in [cursor : [offset : Nat, lastSeq : Nat, file : Nat], view : View]
  /\ SideOk(plugin.cursor, plugin.view, lines, halfLine, file, rotated, status)
  /\ SideOk(kept.cursor, kept.view, lines, halfLine, file, rotated, status)
  /\ EmptyCursor \in [offset : Nat, lastSeq : Nat, file : Nat]
  /\ EmptyView \in View
  /\ SideOk(EmptyCursor, EmptyView, lines, halfLine, file, rotated, status)

(******************************** The runtime ******************************)

LEMMA Numbering ==
  ASSUME LogOk(lines, halfLine, file, rotated)
  PROVE  /\ NextSeq \in Nat \ {0}
         /\ \A i \in Read(lines) : lines[i].seq < NextSeq
         /\ NextSeq = 1 \/ \E i \in Read(lines) : lines[i].seq + 1 = NextSeq
<1>1. lines \in Seq(Line) /\ Readable = Read(lines) /\ Len(lines) \in Nat
  BY DEF LogOk, Readable, Read
<1>2. CASE Readable = {}
  BY <1>1, <1>2 DEF NextSeq
<1>3. CASE Readable # {}
  <2> DEFINE last == Max(Readable)
             numbers == {lines[i].seq : i \in Readable}
  <2>1. last \in Readable /\ \A i \in Readable : i <= last
    BY <1>1, <1>3, MaxOfSome DEF Read
  <2>2. ASSUME NEW i \in Readable PROVE lines[i].seq \in Nat
    BY <1>1, <2>2, NotFragment DEF Read, Line
  <2>3. ASSUME NEW i \in Readable PROVE lines[i].seq <= lines[last].seq
    <3>1. i \in 1..Len(lines) /\ last \in 1..Len(lines) /\ i <= last
      BY <1>1, <2>1 DEF Read
    <3>2. CASE i = last
      BY <2>1, <2>2, <3>2
    <3>3. CASE i < last
      BY <1>1, <2>1, <2>2, <3>3 DEF LogOk
    <3> QED
      BY <3>1, <3>2, <3>3
  <2> HIDE DEF last
  <2>4. Max(numbers) = lines[last].seq
    <3>1. lines[last].seq \in numbers /\ \A y \in numbers : lines[last].seq >= y
      BY <2>1, <2>2, <2>3
    <3>2. ASSUME NEW x \in numbers, \A y \in numbers : x >= y PROVE x = lines[last].seq
      <4>1. PICK i \in Readable : x = lines[i].seq
        OBVIOUS
      <4>2. x >= lines[last].seq /\ x <= lines[last].seq /\ x \in Nat /\ lines[last].seq \in Nat
        BY <2>1, <2>2, <2>3, <3>1, <3>2, <4>1
      <4> QED
        BY <4>2
    <3> HIDE DEF numbers
    <3>3. Max(numbers) \in numbers /\ \A y \in numbers : Max(numbers) >= y
      BY <3>1 DEF Max
    <3> QED
      BY <3>2, <3>3
  <2>5. NextSeq = 1 + lines[last].seq
    BY <1>3, <2>4 DEF NextSeq
  <2> QED
    BY <1>1, <2>1, <2>2, <2>3, <2>5
<1> QED
  BY <1>2, <1>3

\* The next line is numbered after the last one.
FitsAfter(x, ls) ==
  x # Fragment => /\ \A i \in Read(ls) : ls[i].seq < x.seq
                  /\ x.seq = 1 \/ \E i \in Read(ls) : ls[i].seq + 1 = x.seq

\* The log ls2 is ls and the line x.
Grown(ls, x, ls2) ==
  /\ ls2 # ls
  /\ Read(ls2) = Read(ls) \cup (IF x = Fragment THEN {} ELSE {Len(ls) + 1})
  /\ \A i \in Read(ls) : ls2[i] = ls[i]
  /\ ls2[Len(ls) + 1] = x

\* A line is added, whole or not: what was passed stays passed.
LEMMA LineAdded ==
  ASSUME NEW ls, NEW half, NEW f, NEW rot, LogOk(ls, half, f, rot),
         NEW x \in Line, NEW half2 \in BOOLEAN,
         FitsAfter(x, ls)
  PROVE  /\ LogOk(Append(ls, x), half2, f, rot)
         /\ Grown(ls, x, Append(ls, x))
         /\ \A c, v, st : SideOk(c, v, ls, half, f, rot, st)
                            => SideOk(c, v, Append(ls, x), half2, f, rot, st)
<1> DEFINE new == Append(ls, x)
           n == Len(ls)
<1>1. /\ ls \in Seq(Line) /\ n \in Nat /\ new \in Seq(Line) /\ Len(new) = n + 1
      /\ new[n + 1] = x
      /\ \A i \in 1..n : new[i] = ls[i]
      /\ \A i \in 1..n + 1 : i \in 1..n \/ i = n + 1
      /\ \A i \in 1..n : i \in 1..n + 1
  BY DEF LogOk
<1> HIDE DEF new, n
<1>2. Read(ls) = {i \in 1..n : ls[i] # Fragment} /\ Read(new) = {i \in 1..n + 1 : new[i] # Fragment}
  BY <1>1 DEF Read, n
<1>3. Read(new) = Read(ls) \cup (IF x = Fragment THEN {} ELSE {n + 1})
  BY <1>1, <1>2
<1>4. /\ Read(ls) \subseteq Read(new)
      /\ \A i \in Read(ls) : new[i] = ls[i] /\ i \in 1..n /\ ls[i].seq \in Nat /\ ls[i].seq > 0
      /\ \A i \in Read(new) : i \in Read(ls) \/ (i = n + 1 /\ x # Fragment)
  <2>1. ASSUME NEW i \in Read(ls) PROVE ls[i].seq \in Nat /\ ls[i].seq > 0
    BY <1>1, <1>2, NotFragment DEF Line
  <2> QED
    BY <1>1, <1>2, <1>3, <2>1
<1>5. x # Fragment => x.seq \in Nat /\ x.seq > 0
  BY NotFragment DEF Line
<1>6. \A q \in Nat : Reached(q, ls) => Reached(q, new)
  BY <1>4 DEF Reached
<1>7. LogOk(new, half2, f, rot)
  <2>1. ASSUME NEW i \in Read(new), NEW j \in Read(new), i < j PROVE new[i].seq < new[j].seq
    <3>1. i \in Read(ls)
      BY <1>1, <1>4, <2>1
    <3>2. CASE j \in Read(ls)
      BY <1>4, <2>1, <3>1, <3>2 DEF LogOk
    <3>3. CASE j = n + 1 /\ x # Fragment
      BY <1>1, <1>4, <3>1, <3>3 DEF FitsAfter
    <3> QED
      BY <1>4, <3>2, <3>3
  <2>2. ASSUME NEW q \in Nat \ {0}, Reached(q, new)
        PROVE  q \in rot \/ \E i \in Read(new) : new[i].seq = q
    <3>1. CASE Reached(q, ls)
      BY <1>4, <3>1 DEF LogOk
    <3>2. CASE ~Reached(q, ls)
      <4>1. x # Fragment /\ n + 1 \in Read(new) /\ q <= x.seq
        BY <1>1, <1>3, <1>4, <2>2, <3>2 DEF Reached
      <4>2. x.seq = q
        <5> SUFFICES ASSUME q < x.seq PROVE FALSE
          BY <1>5, <4>1
        <5>1. PICK i \in Read(ls) : ls[i].seq + 1 = x.seq
          BY <1>5, <4>1 DEF FitsAfter
        <5>2. q <= ls[i].seq
          BY <1>4, <5>1
        <5> QED
          BY <3>2, <5>2 DEF Reached
      <4> QED
        BY <1>1, <4>1, <4>2
    <3> QED
      BY <3>1, <3>2
  <2> QED
    BY <1>1, <2>1, <2>2 DEF LogOk
<1>8. CompleteOf(ls, half) <= CompleteOf(new, half2) /\ CompleteOf(ls, half) <= n
      /\ CompleteOf(ls, half) \in Int
  BY <1>1 DEF CompleteOf, LogOk, n
<1>9. ASSUME NEW c, NEW v, NEW st, SideOk(c, v, ls, half, f, rot, st)
      PROVE  SideOk(c, v, new, half2, f, rot, st)
  <2>1. CursorOk(c, ls, half, f) /\ c.offset \in Nat /\ c.lastSeq \in Nat
    BY <1>9 DEF SideOk, CursorOk
  <2>2. x # Fragment => c.lastSeq < x.seq
    <3> SUFFICES ASSUME x # Fragment PROVE c.lastSeq < x.seq
      OBVIOUS
    <3>1. CASE c.lastSeq = 0
      BY <1>5, <3>1
    <3>2. CASE c.lastSeq # 0
      <4>1. PICK i \in Read(ls) : c.lastSeq <= ls[i].seq
        BY <2>1, <3>2 DEF CursorOk, Reached
      <4> QED
        BY <1>4, <1>5, <2>1, <4>1 DEF FitsAfter
    <3> QED
      BY <3>1, <3>2
  <2>3. CursorOk(c, new, half2, f)
    <3>1. CompleteOf(new, half2) \in Int
      BY <1>1 DEF CompleteOf
    <3>2. c.file = f => c.offset <= CompleteOf(new, half2) /\ c.offset <= n
      BY <1>1, <1>8, <2>1, <3>1 DEF CursorOk
    <3>3. ASSUME c.file = f, NEW i \in Read(new), i <= c.offset PROVE new[i].seq <= c.lastSeq
      <4>1. i \in Read(ls)
        BY <1>1, <1>4, <2>1, <3>2, <3>3
      <4> QED
        BY <1>4, <2>1, <3>3, <4>1 DEF CursorOk
    <3> QED
      BY <1>6, <2>1, <3>2, <3>3 DEF CursorOk
  <2>4. Honours(v, c.lastSeq, new)
    <3> SUFFICES ASSUME NEW i \in Read(new), new[i].seq <= c.lastSeq PROVE Shows(v, new[i])
      BY DEF Honours
    <3>1. i \in Read(ls)
      <4>1. CASE i = n + 1 /\ x # Fragment
        BY <1>1, <1>5, <2>1, <2>2, <4>1
      <4> QED
        BY <1>4, <4>1
    <3> QED
      BY <1>4, <1>9, <3>1 DEF SideOk, Honours
  <2> QED
    BY <1>9, <2>3, <2>4 DEF SideOk
<1>10. Grown(ls, x, new)
  <2>1. new # ls
    BY <1>1 DEF n
  <2> QED
    BY <1>1, <1>3, <1>4, <2>1 DEF Grown, n
<1> QED
  BY <1>7, <1>9, <1>10 DEF new

\* The log is replaced by its later lines: a cursor of the old file says no more
\* of the new one than what its number says.
LEMMA LogRotated ==
  ASSUME NEW ls, NEW f, NEW rot, LogOk(ls, FALSE, f, rot),
         NEW n \in 1..Len(ls), \E i \in Read(ls) : i > n,
         NEW rot2, rot2 = rot \cup {ls[i].seq : i \in Read(ls) \cap 1..n}
  PROVE  /\ LogOk(SubSeq(ls, n + 1, Len(ls)), FALSE, f + 1, rot2)
         /\ \A i \in Read(SubSeq(ls, n + 1, Len(ls))) :
              i + n \in Read(ls) /\ SubSeq(ls, n + 1, Len(ls))[i] = ls[i + n]
         /\ \A i \in Read(ls) : i > n => /\ i - n \in Read(SubSeq(ls, n + 1, Len(ls)))
                                         /\ SubSeq(ls, n + 1, Len(ls))[i - n] = ls[i]
         /\ \A c, v, st : SideOk(c, v, ls, FALSE, f, rot, st)
                            => SideOk(c, v, SubSeq(ls, n + 1, Len(ls)), FALSE, f + 1, rot2, st)
<1> DEFINE new == SubSeq(ls, n + 1, Len(ls))
           m == Len(ls)
<1>1. /\ ls \in Seq(Line) /\ m \in Nat /\ n \in Nat /\ n <= m /\ f \in Nat /\ rot \in SUBSET Nat
      /\ new \in Seq(Line) /\ Len(new) = m - n
      /\ \A i \in 1..m - n : new[i] = ls[i + n]
  BY DEF LogOk
<1> HIDE DEF new, m
<1>2. Read(ls) = {i \in 1..m : ls[i] # Fragment} /\ Read(new) = {i \in 1..m - n : new[i] # Fragment}
  BY <1>1 DEF Read, m
<1>3. ASSUME NEW i \in Read(new) PROVE i + n \in Read(ls) /\ new[i] = ls[i + n] /\ i \in Nat
  BY <1>1, <1>2
<1>4. ASSUME NEW i \in Read(ls) PROVE i \in Nat /\ ls[i].seq \in Nat /\ ls[i].seq > 0
  <2>1. i \in 1..m /\ ls[i] \in Line /\ ls[i] # Fragment
    BY <1>1, <1>2 DEF m
  <2> QED
    BY <1>1, <2>1, NotFragment DEF Line
<1>5. ASSUME NEW i \in Read(ls), i > n PROVE i - n \in Read(new) /\ new[i - n] = ls[i]
  <2>1. i - n \in 1..m - n /\ (i - n) + n = i
    BY <1>1, <1>2, <1>5
  <2> QED
    BY <1>1, <1>2, <2>1
<1>6. \A i, j \in Read(ls) : i < j => ls[i].seq < ls[j].seq
  BY DEF LogOk
<1>7. PICK last \in Read(ls) : last > n
  OBVIOUS
<1>8. ASSUME NEW q \in Nat, Reached(q, ls) PROVE Reached(q, new)
  <2>1. CASE q = 0
    BY <2>1 DEF Reached
  <2>2. CASE q # 0
    <3>1. PICK i \in Read(ls) : q <= ls[i].seq
      BY <1>8, <2>2 DEF Reached
    <3>2. CASE i > n
      BY <1>5, <3>1, <3>2 DEF Reached
    <3>3. CASE i <= n
      <4>1. i < last
        BY <1>1, <1>4, <1>7, <3>3
      <4>2. q <= ls[last].seq
        BY <1>4, <1>6, <3>1, <4>1
      <4> QED
        BY <1>5, <1>7, <4>2 DEF Reached
    <3> QED
      BY <1>1, <1>4, <3>2, <3>3
  <2> QED
    BY <2>1, <2>2
<1>9. LogOk(new, FALSE, f + 1, rot2)
  <2>1. ASSUME NEW i \in Read(new), NEW j \in Read(new), i < j PROVE new[i].seq < new[j].seq
    <3>1. i + n \in Read(ls) /\ j + n \in Read(ls) /\ new[i] = ls[i + n] /\ new[j] = ls[j + n]
      BY <1>3
    <3>2. i + n < j + n
      BY <1>1, <1>3, <2>1
    <3> QED
      BY <1>6, <3>1, <3>2
  <2>2. ASSUME NEW q \in Nat \ {0}, Reached(q, new)
        PROVE  q \in rot2 \/ \E i \in Read(new) : new[i].seq = q
    <3>1. Reached(q, ls)
      BY <1>3, <2>2 DEF Reached
    <3>2. CASE q \in rot
      BY <3>2
    <3>3. CASE \E i \in Read(ls) : ls[i].seq = q
      <4>1. PICK i \in Read(ls) : ls[i].seq = q
        BY <3>3
      <4>2. CASE i > n
        BY <1>5, <4>1, <4>2
      <4>3. CASE i <= n
        <5>1. i \in 1..n
          BY <1>1, <1>2, <4>3
        <5> QED
          BY <4>1, <5>1
      <4> QED
        BY <1>1, <1>4, <4>2, <4>3
    <3> QED
      BY <3>1, <3>2, <3>3 DEF LogOk
  <2>3. rot2 \in SUBSET Nat
    BY <1>1, <1>4
  <2> QED
    BY <1>1, <2>1, <2>2, <2>3 DEF LogOk
<1>10. ASSUME NEW c, NEW v, NEW st, SideOk(c, v, ls, FALSE, f, rot, st)
       PROVE  SideOk(c, v, new, FALSE, f + 1, rot2, st)
  <2>1. CursorOk(c, ls, FALSE, f) /\ c.file \in Nat /\ c.file <= f /\ c.lastSeq \in Nat
    BY <1>10 DEF SideOk, CursorOk
  <2>2. CursorOk(c, new, FALSE, f + 1)
    <3>1. c.file <= f + 1 /\ c.file # f + 1 /\ Reached(c.lastSeq, new)
      BY <1>1, <1>8, <2>1 DEF CursorOk
    <3> QED
      BY <2>1, <3>1 DEF CursorOk
  <2>3. ViewOk(v, c.lastSeq, rot2)
    BY <1>10 DEF SideOk, ViewOk
  <2>4. Honours(v, c.lastSeq, new)
    BY <1>3, <1>10 DEF SideOk, Honours
  <2> QED
    BY <1>10, <2>2, <2>3, <2>4 DEF SideOk
<1> QED
  BY <1>3, <1>5, <1>9, <1>10 DEF new

\* What the broker holds changes: it is announced, or it is answered.
LEMMA SideStays ==
  ASSUME NEW c, NEW v, NEW ls, NEW half, NEW f, NEW rot, NEW st, NEW st2,
         SideOk(c, v, ls, half, f, rot, st),
         \A a \in Asks : /\ st[a] # "none" => st2[a] # "none"
                         /\ st[a] \in Decisions => st2[a] = st[a]
  PROVE  SideOk(c, v, ls, half, f, rot, st2)
  BY DEF SideOk, Honest

LEMMA Held ==
  ASSUME NEW st, NEW uns, NEW mis, NEW ls, NEW half, NEW f, NEW rot,
         LogOk(ls, half, f, rot), StatusOk(st, uns, mis, ls, rot),
         NEW a \in Asks, NEW say,
         \/ st[a] = "none" /\ say = "pending"
         \/ st[a] = "pending" /\ say \in Decisions,
         NEW kind, kind = IF say = "pending" THEN "requested" ELSE say
  PROVE  /\ StatusOk([st EXCEPT ![a] = say], uns \cup {[kind |-> kind, ask |-> a]}, mis, ls, rot)
         /\ \A b \in Asks : /\ st[b] # "none" => [st EXCEPT ![a] = say][b] # "none"
                            /\ st[b] \in Decisions => [st EXCEPT ![a] = say][b] = st[b]
<1> DEFINE st2 == [st EXCEPT ![a] = say]
           n == [kind |-> kind, ask |-> a]
           uns2 == uns \cup {n}
<1>1. /\ st \in [Asks -> {"none", "pending"} \cup Decisions] /\ uns \subseteq News
      /\ Decisions \subseteq {"approved", "rejected"}
  BY NotificationAssumption DEF StatusOk
<1>2. /\ st2 \in [Asks -> {"none", "pending"} \cup Decisions] /\ st2[a] = say
      /\ \A b \in Asks : b # a => st2[b] = st[b]
  BY <1>1
<1>3. n.kind = kind /\ n.ask = a /\ n \in News /\ kind \in {"requested"} \cup Decisions
  BY <1>1 DEF News
<1> HIDE DEF st2, n
<1>4. \A b \in Asks : /\ st[b] # "none" => st2[b] # "none"
                      /\ st[b] \in Decisions => st2[b] = st[b]
  BY <1>1, <1>2
<1>5. ASSUME NEW e, e.ask \in Asks, Tells(e, st) PROVE Tells(e, st2)
  BY <1>4, <1>5 DEF Tells
<1>6. Tells(n, st2)
  BY <1>1, <1>2, <1>3 DEF Tells
<1>7. \A i \in Read(ls) : ls[i].ask \in Asks
  BY DEF LogOk, Read, Line, Event
<1>8. \A i \in Read(ls) : Tells(ls[i], st2)
  BY <1>5, <1>7 DEF StatusOk
<1>9. \A m \in uns2 : Tells(m, st2)
  BY <1>1, <1>5, <1>6 DEF StatusOk, News
<1>10. ASSUME NEW b \in Asks, NEW k, Announced(b, k, uns, ls, rot) PROVE Announced(b, k, uns2, ls, rot)
  BY <1>10 DEF Announced
<1>11. Announced(a, kind, uns2, ls, rot)
  BY <1>3 DEF Announced
<1>12. ASSUME NEW b \in Asks, b \notin mis
       PROVE  /\ st2[b] # "none" => Announced(b, "requested", uns2, ls, rot)
              /\ st2[b] \in Decisions => Announced(b, st2[b], uns2, ls, rot)
  <2>1. CASE b # a
    BY <1>2, <1>10, <1>12, <2>1 DEF StatusOk
  <2>2. CASE b = a
    <3>1. CASE say = "pending"
      BY <1>1, <1>2, <1>11, <2>2, <3>1
    <3>2. CASE st[a] = "pending" /\ say \in Decisions
      <4>1. Announced(a, "requested", uns2, ls, rot)
        BY <1>10, <1>12, <2>2, <3>2 DEF StatusOk
      <4> QED
        BY <1>1, <1>2, <1>11, <2>2, <3>2, <4>1
    <3> QED
      BY <3>1, <3>2
  <2> QED
    BY <2>1, <2>2
<1>13. StatusOk(st2, uns2, mis, ls, rot)
  BY <1>1, <1>2, <1>3, <1>8, <1>9, <1>12 DEF StatusOk
<1> QED
  BY <1>4, <1>13 DEF st2, n

\* An event is logged: it may be taken from those that are to be logged.
LEMMA Logged ==
  ASSUME NEW st, NEW uns, NEW mis, NEW ls, NEW rot,
         StatusOk(st, uns, mis, ls, rot),
         NEW n \in uns, NEW x, NEW mis2, NEW ls2,
         ls2 = ls \/ Grown(ls, x, ls2),
         x # Fragment => x.ask = n.ask /\ x.kind = n.kind,
         mis2 = mis \cup {n.ask} \/ (mis2 = mis /\ ls2 # ls /\ x # Fragment)
  PROVE  StatusOk(st, uns \ {n}, mis2, ls2, rot)
<1> DEFINE uns2 == uns \ {n}
<1>1. /\ st \in [Asks -> {"none", "pending"} \cup Decisions] /\ uns \subseteq News /\ Tells(n, st)
      /\ \A i \in Read(ls) : Tells(ls[i], st)
  BY DEF StatusOk
<1>2. /\ Read(ls) \subseteq Read(ls2)
      /\ \A i \in Read(ls) : ls2[i] = ls[i]
  BY DEF Grown
<1>3. \A i \in Read(ls2) : Tells(ls2[i], st)
  <2>1. ls2 # ls /\ x # Fragment => Tells(x, st)
    BY <1>1 DEF Tells
  <2> QED
    BY <1>1, <1>2, <2>1 DEF Grown
<1>4. ASSUME NEW b \in Asks, b \notin mis2, NEW k, Announced(b, k, uns, ls, rot)
      PROVE  Announced(b, k, uns2, ls2, rot)
  <2>1. CASE rot # {}
    BY <2>1 DEF Announced
  <2>2. CASE \E i \in Read(ls) : ls[i].ask = b /\ ls[i].kind = k
    BY <1>2, <2>2 DEF Announced
  <2>3. CASE \E m \in uns : m.ask = b /\ m.kind = k
    <3>1. PICK m \in uns : m.ask = b /\ m.kind = k
      BY <2>3
    <3>2. CASE m # n
      BY <3>1, <3>2 DEF Announced
    <3>3. CASE m = n
      <4>1. ls2 # ls /\ x # Fragment
        BY <1>4, <3>1, <3>3
      <4> QED
        BY <3>1, <3>3, <4>1 DEF Announced, Grown
    <3> QED
      BY <3>2, <3>3
  <2> QED
    BY <1>4, <2>1, <2>2, <2>3 DEF Announced
<1>5. \A b \in Asks : b \notin mis2 => b \notin mis
  OBVIOUS
<1> QED
  BY <1>1, <1>3, <1>4, <1>5 DEF StatusOk

LEMMA RotatedStatus ==
  ASSUME NEW st, NEW uns, NEW mis, NEW ls, NEW rot, NEW ls2, NEW rot2, NEW n \in Nat,
         StatusOk(st, uns, mis, ls, rot), rot \subseteq rot2,
         \A i \in Read(ls) : i \in Nat,
         \A i \in Read(ls2) : i + n \in Read(ls) /\ ls2[i] = ls[i + n],
         \A i \in Read(ls) : i > n => i - n \in Read(ls2) /\ ls2[i - n] = ls[i],
         \A i \in Read(ls) : i <= n => rot2 # {}
  PROVE  StatusOk(st, uns, mis, ls2, rot2)
<1>1. \A i \in Read(ls2) : Tells(ls2[i], st)
  BY DEF StatusOk
<1>2. ASSUME NEW b \in Asks, NEW k, Announced(b, k, uns, ls, rot)
      PROVE  Announced(b, k, uns, ls2, rot2)
  <2>1. CASE \E i \in Read(ls) : ls[i].ask = b /\ ls[i].kind = k
    <3>1. PICK i \in Read(ls) : ls[i].ask = b /\ ls[i].kind = k
      BY <2>1
    <3> QED
      BY <3>1 DEF Announced
  <2> QED
    BY <1>2, <2>1 DEF Announced
<1> QED
  BY <1>1, <1>2 DEF StatusOk

(********************************* The poll ********************************)

\* The view v after k of the new events w.
Followed(v, r, w, k, st) ==
  /\ r \in View
  /\ Len(r.applied) = Len(v.applied) + k
  /\ \A i \in 1..Len(v.applied) : r.applied[i] = v.applied[i]
  /\ \A i \in 1..k : r.applied[Len(v.applied) + i] = w[i].seq
  /\ Honest(r, st)
  /\ \A a \in Asks : /\ v.asks[a] # "unknown" => r.asks[a] # "unknown"
                     /\ v.asks[a] \in Decisions => r.asks[a] \in Decisions
  /\ \A i \in 1..k : Shows(r, w[i])

LEMMA OneApplied ==
  ASSUME NEW v \in View, NEW e \in Event, NEW st, Honest(v, st), Tells(e, st)
  PROVE  /\ Honest(ApplyEvent(v, e), st)
         /\ Shows(ApplyEvent(v, e), e)
         /\ \A a \in Asks : /\ v.asks[a] # "unknown" => ApplyEvent(v, e).asks[a] # "unknown"
                            /\ v.asks[a] \in Decisions => ApplyEvent(v, e).asks[a] \in Decisions
<1> DEFINE r == ApplyEvent(v, e)
<1>1. /\ r \in View /\ r.asks = [v.asks EXCEPT ![e.ask] = StatusAfter(@, e)]
      /\ v.asks \in [Asks -> {"unknown", "pending"} \cup Decisions]
      /\ e.ask \in Asks /\ e.kind \in {"requested", "progress"} \cup Decisions
      /\ Decisions \subseteq {"approved", "rejected"}
  BY ApplyTyped, NotificationAssumption DEF Event, View
<1> HIDE DEF r
<1>2. r.asks[e.ask] = StatusAfter(v.asks[e.ask], e) /\ \A a \in Asks : a # e.ask => r.asks[a] = v.asks[a]
  BY <1>1
<1>3. CASE e.kind = "progress"
  BY <1>1, <1>2, <1>3 DEF StatusAfter, Honest, Shows, r
<1>4. CASE e.kind = "requested"
  <2>1. r.asks[e.ask] = IF v.asks[e.ask] = "unknown" THEN "pending" ELSE v.asks[e.ask]
    BY <1>2, <1>4 DEF StatusAfter
  <2>2. st[e.ask] # "none" /\ "pending" \notin Decisions /\ "requested" \notin Decisions
    BY <1>1, <1>4 DEF Tells
  <2> QED
    BY <1>1, <1>2, <1>4, <2>1, <2>2 DEF Honest, Shows, r
<1>5. CASE e.kind \in Decisions
  <2>1. r.asks[e.ask] = e.kind
    BY <1>1, <1>2, <1>5 DEF StatusAfter
  <2>2. st[e.ask] = e.kind /\ e.kind # "none" /\ e.kind # "unknown" /\ e.kind # "requested"
    BY <1>1, <1>5 DEF Tells
  <2> QED
    BY <1>1, <1>2, <1>5, <2>1, <2>2 DEF Honest, Shows, r
<1> QED
  BY <1>1, <1>3, <1>4, <1>5

LEMMA AllApplied ==
  ASSUME NEW v \in View, NEW w \in Seq(Event), NEW st, Honest(v, st),
         \A i \in 1..Len(w) : Tells(w[i], st)
  PROVE  Followed(v, FoldLeft(ApplyEvent, v, w), w, Len(w), st)
<1>1. PICK got \in [0..Len(w) -> View] :
           /\ FoldLeft(ApplyEvent, v, w) = got[Len(w)]
           /\ got[0] = v
           /\ \A k \in 1..Len(w) : got[k] = ApplyEvent(got[k - 1], w[k])
  BY ViewFolded
<1>2. v.applied \in Seq(Nat) /\ Len(v.applied) \in Nat /\ Len(w) \in Nat
  BY AppliedNumbers
<1> DEFINE S == {k \in Nat : k <= Len(w) => Followed(v, got[k], w, k, st)}
<1>3. 0 \in S
  BY <1>1, <1>2 DEF Followed
<1>4. ASSUME NEW k \in Nat, k \in S PROVE k + 1 \in S
  <2> SUFFICES ASSUME k + 1 <= Len(w) PROVE Followed(v, got[k + 1], w, k + 1, st)
    OBVIOUS
  <2>1. k + 1 \in 1..Len(w) /\ (k + 1) - 1 = k /\ w[k + 1] \in Event /\ Tells(w[k + 1], st)
    OBVIOUS
  <2> DEFINE e == w[k + 1]
             r == got[k]
             s == ApplyEvent(r, e)
             n == Len(v.applied)
  <2>2. Followed(v, r, w, k, st) /\ got[k + 1] = s
    BY <1>1, <1>2, <1>4, <2>1
  <2>3. /\ s \in View /\ s.applied = Append(r.applied, e.seq)
        /\ Honest(s, st) /\ Shows(s, e)
        /\ \A a \in Asks : /\ r.asks[a] # "unknown" => s.asks[a] # "unknown"
                           /\ r.asks[a] \in Decisions => s.asks[a] \in Decisions
    BY <2>1, <2>2, ApplyTyped, OneApplied DEF Followed
  <2>4. /\ r.applied \in Seq(Nat) /\ Len(r.applied) = n + k /\ n \in Nat
        /\ \A i \in 1..n : r.applied[i] = v.applied[i]
        /\ \A i \in 1..k : r.applied[n + i] = w[i].seq
        /\ \A i \in 1..k : Shows(r, w[i])
    BY <1>2, <2>2, AppliedNumbers DEF Followed
  <2>5. e.seq \in Nat /\ \A i \in 1..k : w[i] \in Event /\ w[i].ask \in Asks
    <3>1. \A i \in 1..k : i \in 1..Len(w)
      BY <1>2
    <3>2. \A i \in 1..Len(w) : w[i] \in Event
      OBVIOUS
    <3>3. \A x \in Event : x.seq \in Nat /\ x.ask \in Asks
      BY DEF Event
    <3> QED
      BY <2>1, <3>1, <3>2, <3>3
  <2> HIDE DEF s, r, n, e
  <2>6. /\ Len(s.applied) = n + k + 1 /\ s.applied[n + k + 1] = e.seq
        /\ \A i \in 1..n + k : s.applied[i] = r.applied[i]
    <3>1. r.applied \in Seq(Nat) /\ e.seq \in Nat /\ Len(r.applied) = n + k
      BY <2>4, <2>5
    <3>2. /\ Len(Append(r.applied, e.seq)) = Len(r.applied) + 1
          /\ \A i \in 1..Len(r.applied) : Append(r.applied, e.seq)[i] = r.applied[i]
          /\ Append(r.applied, e.seq)[Len(r.applied) + 1] = e.seq
      BY <3>1
    <3> QED
      BY <2>3, <3>1, <3>2
  <2>7. \A i \in 1..n : s.applied[i] = v.applied[i]
    <3>1. \A i \in 1..n : i \in 1..n + k
      BY <2>4
    <3> QED
      BY <2>4, <2>6, <3>1
  <2>8. \A i \in 1..k : n + i \in 1..n + k
    BY <2>4
  <2>9. \A i \in 1..k + 1 : i \in 1..k \/ i = k + 1
    OBVIOUS
  <2>10. \A i \in 1..k + 1 : s.applied[n + i] = w[i].seq
    BY <2>4, <2>6, <2>8, <2>9 DEF e
  <2>11. \A i \in 1..k : Shows(s, w[i])
    BY <2>3, <2>4, <2>5 DEF Shows
  <2>12. \A i \in 1..k + 1 : Shows(s, w[i])
    BY <2>3, <2>9, <2>11 DEF e
  <2>13. Len(s.applied) = n + (k + 1)
    BY <2>4, <2>6
  <2>14. \A a \in Asks : /\ v.asks[a] # "unknown" => s.asks[a] # "unknown"
                         /\ v.asks[a] \in Decisions => s.asks[a] \in Decisions
    BY <2>2, <2>3 DEF Followed
  <2> QED
    BY <2>2, <2>3, <2>7, <2>10, <2>12, <2>13, <2>14 DEF Followed, n
<1> HIDE DEF S
<1>5. Len(w) \in S
  BY <1>2, <1>3, <1>4, NumbersInduct
<1> QED
  BY <1>1, <1>2, <1>5 DEF S

\* A poll of the next n lines.
LEMMA Polled ==
  ASSUME LogOk(lines, halfLine, file, rotated), StatusOk(status, unsent, missed, lines, rotated),
         NEW c, NEW v, SideOk(c, v, lines, halfLine, file, rotated, status),
         NEW n \in 0..(Complete - StartOffset(c))
  PROVE  /\ CursorAfter(c, n) \in [offset : Nat, lastSeq : Nat, file : Nat]
         /\ SideOk(CursorAfter(c, n), FoldLeft(ApplyEvent, v, NewAmong(c, n)),
                   lines, halfLine, file, rotated, status)
<1> DEFINE start == StartOffset(c)
           w == SubSeq(lines, start + 1, start + n)
           news == NewAmong(c, n)
           c2 == CursorAfter(c, n)
           v2 == FoldLeft(ApplyEvent, v, news)
           old == c.lastSeq
           new == c2.lastSeq
<1>1. /\ lines \in Seq(Line) /\ file \in Nat /\ Len(lines) \in Nat
      /\ Complete = CompleteOf(lines, halfLine) /\ Complete <= Len(lines) /\ Complete \in Nat
      /\ \A i, j \in Read(lines) : i < j => lines[i].seq < lines[j].seq
      /\ \A i \in Read(lines) : i \in Nat /\ i >= 1 /\ i <= Len(lines) /\ lines[i] # Fragment
                                 /\ lines[i] \in Event /\ lines[i].seq \in Nat /\ lines[i].seq > 0
  <2>1. lines \in Seq(Line) /\ Len(lines) \in Nat /\ file \in Nat /\ halfLine \in BOOLEAN
        /\ (halfLine => Len(lines) > 0)
        /\ \A i, j \in Read(lines) : i < j => lines[i].seq < lines[j].seq
    BY DEF LogOk
  <2>2. ASSUME NEW i \in Read(lines) PROVE lines[i] \in Event
    BY <2>1 DEF Read, Line
  <2> QED
    BY <2>1, <2>2, NotFragment DEF Complete, CompleteOf, Read
<1>2. c \in [offset : Nat, lastSeq : Nat, file : Nat] /\ c.offset \in Nat /\ old \in Nat
  BY DEF SideOk, CursorOk
<1>3. start \in Nat /\ n \in Nat /\ start + n <= Complete
  BY <1>1, <1>2 DEF StartOffset
<1>4. \A i \in Read(lines) : i <= start => lines[i].seq <= old
  <2>1. CASE start = 0
    BY <1>1, <2>1
  <2>2. CASE start # 0
    BY <2>2 DEF StartOffset, SideOk, CursorOk
  <2> QED
    BY <2>1, <2>2
<1> HIDE DEF start
<1>5. /\ w \in Seq(Line) /\ Len(w) = n
      /\ \A i \in 1..n : start + i \in 1..Len(lines) /\ w[i] = lines[start + i]
  <2>1. \A i \in start + 1..start + n : lines[i] \in Line
    BY <1>1, <1>3
  <2>2. start + 1 \in Int /\ start + n \in Int
    BY <1>3
  <2>3. (start + n) - (start + 1) + 1 = n /\ (n > 0 => start + 1 <= start + n)
    BY <1>3
  <2>4. w \in Seq(Line) /\ Len(w) = (IF start + 1 <= start + n THEN (start + n) - (start + 1) + 1 ELSE 0)
        /\ \A i \in 1..((start + n) - (start + 1) + 1) : w[i] = lines[start + 1 + i - 1]
    BY <2>1, <2>2, SubSeqProperties
  <2>5. \A i \in 1..n : start + i \in 1..Len(lines) /\ start + 1 + i - 1 = start + i
    BY <1>1, <1>3
  <2>6. Len(w) = n
    BY <1>3, <2>3, <2>4
  <2>7. \A i \in 1..n : w[i] = lines[start + i]
    BY <2>3, <2>4, <2>5
  <2> QED
    BY <2>4, <2>5, <2>6, <2>7
<1> HIDE DEF w
<1>6. \A i \in 1..n : w[i] # Fragment => start + i \in Read(lines) /\ w[i] \in Event
  BY <1>1, <1>5 DEF Read
<1>7. \A i, j \in 1..n : i < j /\ w[i] # Fragment /\ w[j] # Fragment => w[i].seq < w[j].seq
  <2> SUFFICES ASSUME NEW i \in 1..n, NEW j \in 1..n, i < j, w[i] # Fragment, w[j] # Fragment
               PROVE  w[i].seq < w[j].seq
    OBVIOUS
  <2>1. start + i < start + j
    BY <1>3
  <2> QED
    BY <1>1, <1>5, <1>6, <2>1
<1>8. Selected(news, old, w, n)
  <2>1. Selected(NewOf(old, w), old, w, Len(w))
    BY <1>2, <1>5, <1>7, NewSelected
  <2> QED
    BY <1>5, <2>1 DEF NewAmong, w, start
<1>9. /\ news \in Seq(Event) /\ Len(news) \in Nat
      /\ \A a, b \in 1..Len(news) : a < b => news[a].seq < news[b].seq
      /\ \A a \in 1..Len(news) : /\ news[a].seq > old /\ news[a].seq \in Nat
                                 /\ \E i \in 1..n : w[i] = news[a]
  <2>1. news \in Seq(Event) /\ Len(news) \in Nat
    BY <1>8 DEF Selected
  <2>2. \A a \in 1..Len(news) : news[a].seq \in Nat
    BY <2>1, NotFragment
  <2> QED
    BY <1>8, <2>1, <2>2 DEF Selected
<1> HIDE DEF news
<1>10. /\ c2.offset = start + n /\ c2.file = file
       /\ new = IF news = << >> THEN old ELSE news[Len(news)].seq
  BY DEF CursorAfter, Last, start, news
<1>11. /\ new \in Nat /\ new >= old
       /\ \A a \in 1..Len(news) : news[a].seq <= new
       /\ news # << >> => \E a \in 1..Len(news) : news[a].seq = new
  <2>1. CASE news = << >>
    BY <1>2, <1>10, <2>1
  <2>2. CASE news # << >>
    <3>1. Len(news) \in 1..Len(news)
      BY <1>9, <2>2
    <3>2. new = news[Len(news)].seq
      BY <1>10, <2>2
    <3>3. ASSUME NEW a \in 1..Len(news) PROVE news[a].seq <= new
      <4>1. CASE a = Len(news)
        BY <1>9, <3>1, <3>2, <4>1
      <4>2. CASE a < Len(news)
        BY <1>9, <3>1, <3>2, <4>2
      <4> QED
        BY <1>9, <4>1, <4>2
    <3> QED
      BY <1>2, <1>9, <3>1, <3>2, <3>3
  <2> QED
    BY <2>1, <2>2
<1>12. c2 \in [offset : Nat, lastSeq : Nat, file : Nat]
  BY <1>1, <1>3, <1>10, <1>11 DEF CursorAfter, start, new, c2, news
<1> HIDE DEF c2, new, v2
\* A line that the window has and that is above the old number is taken.
<1>13. ASSUME NEW i \in Read(lines), i <= start + n, lines[i].seq > old
       PROVE  \E a \in 1..Len(news) : news[a] = lines[i]
  <2>1. i > start
    BY <1>1, <1>2, <1>3, <1>4, <1>13
  <2>2. i - start \in 1..n /\ start + (i - start) = i
    BY <1>1, <1>3, <1>13, <2>1
  <2>3. w[i - start] = lines[i] /\ lines[i] # Fragment
    BY <1>1, <1>5, <2>2
  <2> QED
    BY <1>8, <1>13, <2>2, <2>3 DEF Selected
\* A line up to the new number is not past the window, if it is above the old one.
<1>14. ASSUME NEW i \in Read(lines), lines[i].seq <= new, lines[i].seq > old
       PROVE  \E a \in 1..Len(news) : news[a] = lines[i]
  <2>1. news # << >>
    BY <1>1, <1>2, <1>10, <1>14
  <2>2. PICK a \in 1..Len(news) : news[a].seq = new
    BY <1>11, <2>1
  <2>3. PICK j \in 1..n : w[j] = news[a]
    BY <1>9
  <2>4. start + j \in Read(lines) /\ lines[start + j].seq = new
    <3>1. news[a] \in Event
      BY <1>9
    <3> QED
      BY <1>5, <1>6, <2>2, <2>3, <3>1, NotFragment
  <2>5. i <= start + j
    <3> SUFFICES ASSUME start + j < i PROVE FALSE
      BY <1>1, <1>3
    <3>1. lines[start + j].seq < lines[i].seq
      BY <1>1, <2>4
    <3> QED
      BY <1>1, <1>11, <1>14, <2>4, <3>1
  <2>6. i <= start + n
    BY <1>1, <1>3, <2>5
  <2> QED
    BY <1>13, <1>14, <2>6
<1>15. Reached(new, lines)
  <2>1. CASE news = << >>
    BY <1>10, <2>1 DEF SideOk, CursorOk
  <2>2. CASE news # << >>
    <3>1. PICK a \in 1..Len(news) : news[a].seq = new
      BY <1>11, <2>2
    <3>2. PICK j \in 1..n : w[j] = news[a]
      BY <1>9
    <3>3. news[a] \in Event /\ news[a] # Fragment
      BY <1>9, NotFragment
    <3>4. start + j \in Read(lines) /\ lines[start + j].seq = new
      BY <1>5, <1>6, <3>1, <3>2, <3>3
    <3> QED
      BY <1>11, <3>4 DEF Reached
  <2> QED
    BY <2>1, <2>2
<1>16. CursorOk(c2, lines, halfLine, file)
  <2>1. ASSUME NEW i \in Read(lines), i <= c2.offset PROVE lines[i].seq <= new
    <3>1. CASE lines[i].seq <= old
      BY <1>1, <1>2, <1>11, <3>1
    <3>2. CASE lines[i].seq > old
      <4>1. \E a \in 1..Len(news) : news[a] = lines[i]
        BY <1>10, <1>13, <2>1, <3>2
      <4> QED
        BY <1>11, <4>1
    <3> QED
      BY <1>1, <1>2, <3>1, <3>2
  <2> QED
    BY <1>1, <1>3, <1>10, <1>12, <1>15, <2>1 DEF CursorOk, new
<1>17. \A a \in 1..Len(news) : Tells(news[a], status)
  <2> TAKE a \in 1..Len(news)
  <2>1. PICK j \in 1..n : w[j] = news[a]
    BY <1>9
  <2>2. news[a] \in Event /\ news[a] # Fragment
    BY <1>9, NotFragment
  <2>3. start + j \in Read(lines) /\ lines[start + j] = news[a]
    BY <1>5, <1>6, <2>1, <2>2
  <2> QED
    BY <2>3 DEF StatusOk
<1>18. ViewOk(v, old, rotated) /\ Honest(v, status) /\ Honours(v, old, lines)
  BY DEF SideOk
<1>19. Followed(v, v2, news, Len(news), status)
  BY <1>9, <1>17, <1>18, AllApplied DEF ViewOk, v2
<1> DEFINE before == v.applied
           after == v2.applied
           m == Len(before)
           k == Len(news)
<1>20. /\ before \in Seq(Nat) /\ m \in Nat /\ k \in Nat /\ Len(after) = m + k
       /\ \A i \in 1..m : after[i] = before[i] /\ before[i] <= old /\ before[i] \in Nat
       /\ \A i \in 1..k : after[m + i] = news[i].seq
       /\ \A i, j \in 1..m : i < j => before[i] < before[j]
       /\ \A q \in 1..old : q \in rotated \/ \E i \in 1..m : before[i] = q
  BY <1>9, <1>18, <1>19, AppliedNumbers DEF Followed, ViewOk
<1> HIDE DEF before, after, m, k
<1>21. \A i \in 1..m + k : i \in 1..m \/ (i - m \in 1..k /\ m + (i - m) = i)
  BY <1>20
<1>22. (\A i \in 1..m : i \in 1..m + k) /\ \A i \in 1..k : m + i \in 1..m + k
  BY <1>20
<1>23. ASSUME NEW i \in 1..m + k PROVE after[i] <= new
  <2>1. CASE i \in 1..m
    BY <1>2, <1>11, <1>20, <2>1
  <2>2. CASE i - m \in 1..k /\ m + (i - m) = i
    BY <1>11, <1>20, <2>2 DEF k
  <2> QED
    BY <1>21, <2>1, <2>2
<1>24. ASSUME NEW i \in 1..m + k, NEW j \in 1..m + k, i < j PROVE after[i] < after[j]
  <2>1. CASE i \in 1..m /\ j \in 1..m
    BY <1>20, <1>24, <2>1
  <2>2. CASE i \in 1..m /\ j - m \in 1..k /\ m + (j - m) = j
    <3>1. after[j] = news[j - m].seq /\ news[j - m].seq > old /\ news[j - m].seq \in Nat
      BY <1>9, <1>20, <2>2 DEF k
    <3>2. after[i] <= old /\ after[i] \in Nat
      BY <1>20, <2>2
    <3> QED
      BY <1>2, <3>1, <3>2
  <2>3. CASE i - m \in 1..k /\ m + (i - m) = i /\ j - m \in 1..k /\ m + (j - m) = j
    <3>1. i - m < j - m
      BY <1>20, <1>24
    <3>2. after[i] = news[i - m].seq /\ after[j] = news[j - m].seq
      BY <1>20, <2>3
    <3> QED
      BY <1>9, <2>3, <3>1, <3>2 DEF k
  <2>4. CASE i - m \in 1..k /\ j \in 1..m
    BY <1>20, <1>24, <2>4
  <2> QED
    BY <1>21, <2>1, <2>2, <2>3, <2>4
<1>25. ASSUME NEW q \in 1..new PROVE q \in rotated \/ \E i \in 1..m + k : after[i] = q
  <2>1. CASE q <= old
    <3>1. q \in 1..old
      BY <1>2, <1>11, <2>1
    <3> QED
      BY <1>20, <1>22, <3>1
  <2>2. CASE q > old
    <3>1. Reached(q, lines) /\ q \in Nat \ {0}
      <4>1. PICK i \in Read(lines) : new <= lines[i].seq
        BY <1>11, <1>15 DEF Reached
      <4> QED
        BY <1>1, <1>11, <4>1 DEF Reached
    <3>2. CASE q \in rotated
      BY <3>2
    <3>3. CASE \E i \in Read(lines) : lines[i].seq = q
      <4>1. PICK i \in Read(lines) : lines[i].seq = q
        BY <3>3
      <4>2. PICK a \in 1..Len(news) : news[a] = lines[i]
        BY <1>11, <1>14, <2>2, <4>1
      <4> QED
        BY <1>20, <1>22, <4>1, <4>2 DEF k
    <3> QED
      BY <3>1, <3>2, <3>3 DEF LogOk
  <2> QED
    BY <1>2, <1>11, <2>1, <2>2
<1>26. ViewOk(v2, new, rotated)
  BY <1>19, <1>20, <1>23, <1>24, <1>25 DEF ViewOk, Followed, after
<1>27. Honours(v2, new, lines)
  <2> SUFFICES ASSUME NEW i \in Read(lines), lines[i].seq <= new PROVE Shows(v2, lines[i])
    BY DEF Honours
  <2>1. CASE lines[i].seq <= old
    <3>1. Shows(v, lines[i]) /\ lines[i].ask \in Asks
      BY <1>1, <1>18, <2>1 DEF Honours, Event
    <3> QED
      BY <1>19, <3>1 DEF Followed, Shows
  <2>2. CASE lines[i].seq > old
    <3>1. PICK a \in 1..Len(news) : news[a] = lines[i]
      BY <1>14, <2>2
    <3> QED
      BY <1>19, <3>1 DEF Followed
  <2> QED
    BY <1>1, <1>2, <2>1, <2>2
<1>28. SideOk(c2, v2, lines, halfLine, file, rotated, status)
  BY <1>16, <1>19, <1>26, <1>27 DEF SideOk, Followed, new
<1> QED
  BY <1>12, <1>28 DEF c2, v2, news

(******************************** The theorem ******************************)

LEMMA FreshOk == NotificationInit => NotificationsInv
<1> SUFFICES ASSUME NotificationInit PROVE NotificationsInv
  OBVIOUS
<1> DEFINE shown == [a \in Asks |-> "unknown"]
           c0 == EmptyCursor
           v0 == EmptyView
<1>1. /\ c0.offset = 0 /\ c0.lastSeq = 0 /\ c0.file = 0
      /\ c0 \in [offset : Nat, lastSeq : Nat, file : Nat]
  BY DEF EmptyCursor
<1>2. v0.asks = shown /\ v0.applied = << >> /\ v0 \in View
  BY DEF EmptyView, View
<1>3. lines = << >> /\ halfLine = FALSE /\ file = 0 /\ rotated = {} /\ unsent = {} /\ missed = {}
      /\ status = [a \in Asks |-> "none"]
  BY DEF NotificationInit
<1>4. Read(lines) = {} /\ Len(lines) = 0 /\ lines \in Seq(Line)
  BY <1>3 DEF Read
<1>5. LogOk(lines, halfLine, file, rotated)
  BY <1>3, <1>4 DEF LogOk, Reached
<1>6. StatusOk(status, unsent, missed, lines, rotated)
  BY <1>3, <1>4, NotificationAssumption DEF StatusOk
<1> HIDE DEF c0, v0, shown
<1>7. SideOk(c0, v0, lines, halfLine, file, rotated, status)
  <2>1. CursorOk(c0, lines, halfLine, file)
    BY <1>1, <1>3, <1>4 DEF CursorOk, CompleteOf, Reached
  <2>2. ViewOk(v0, c0.lastSeq, rotated)
    BY <1>1, <1>2 DEF ViewOk
  <2>3. "unknown" \notin Decisions
    BY NotificationAssumption
  <2>4. Honest(v0, status)
    BY <1>2, <2>3 DEF Honest, shown
  <2> QED
    BY <1>4, <2>1, <2>2, <2>4 DEF SideOk, Honours
<1>8. /\ plugin.cursor = c0 /\ plugin.view = v0 /\ plugin.at = "down" /\ plugin.job = NoAsk
      /\ plugin = [at |-> "down", cursor |-> c0, view |-> v0, job |-> NoAsk]
      /\ kept = [cursor |-> c0, view |-> v0]
      /\ kept.cursor = c0 /\ kept.view = v0
  BY DEF NotificationInit, Down, Fresh, c0, v0
<1>9. PluginOk(plugin)
  BY <1>1, <1>2, <1>8 DEF PluginOk
<1>10. kept \in [cursor : [offset : Nat, lastSeq : Nat, file : Nat], view : View]
  BY <1>1, <1>2, <1>8
<1> QED
  BY <1>1, <1>2, <1>5, <1>6, <1>7, <1>8, <1>9, <1>10 DEF NotificationsInv, c0, v0

\* The log and what the broker holds change, and the plugin does not.
LEMMA RuntimeMoves ==
  ASSUME NotificationsInv,
         UNCHANGED <<plugin, kept>>,
         LogOk(lines', halfLine', file', rotated'),
         StatusOk(status', unsent', missed', lines', rotated'),
         \A c, v : SideOk(c, v, lines, halfLine, file, rotated, status)
                     => SideOk(c, v, lines', halfLine', file', rotated', status')
  PROVE  NotificationsInv'
<1>1. /\ SideOk(plugin.cursor, plugin.view, lines', halfLine', file', rotated', status')
      /\ SideOk(kept.cursor, kept.view, lines', halfLine', file', rotated', status')
      /\ SideOk(EmptyCursor, EmptyView, lines', halfLine', file', rotated', status')
  BY DEF NotificationsInv
<1>2. EmptyCursor' = EmptyCursor /\ EmptyView' = EmptyView
  BY DEF EmptyCursor, EmptyView
<1> QED
  BY <1>1, <1>2 DEF NotificationsInv

\* The plugin moves: it keeps the cursor and the view of one of the three sides,
\* or takes one that follows the log as well.
LEMMA PluginMoves ==
  ASSUME NotificationsInv,
         UNCHANGED <<status, unsent, missed, lines, halfLine, file, rotated>>,
         NEW p, PluginOk(p), plugin' = p,
         NEW k, k \in [cursor : [offset : Nat, lastSeq : Nat, file : Nat], view : View],
         kept' = k,
         SideOk(p.cursor, p.view, lines, halfLine, file, rotated, status),
         SideOk(k.cursor, k.view, lines, halfLine, file, rotated, status)
  PROVE  NotificationsInv'
<1>1. EmptyCursor' = EmptyCursor /\ EmptyView' = EmptyView
  BY DEF EmptyCursor, EmptyView
<1> QED
  BY <1>1 DEF NotificationsInv

LEMMA RuntimeFollows ==
  ASSUME NotificationsInv, RuntimeStep PROVE NotificationsInv'
<1>1. /\ LogOk(lines, halfLine, file, rotated)
      /\ StatusOk(status, unsent, missed, lines, rotated)
  BY DEF NotificationsInv
<1>2. ASSUME NEW a \in Asks, NEW say, NEW kind, kind = IF say = "pending" THEN "requested" ELSE say,
             \/ status[a] = "none" /\ say = "pending"
             \/ status[a] = "pending" /\ say \in Decisions,
             status' = [status EXCEPT ![a] = say],
             unsent' = unsent \cup {[kind |-> kind, ask |-> a]},
             UNCHANGED <<missed, logVars, plugin, kept>>
      PROVE  NotificationsInv'
  <2>1. /\ StatusOk(status', unsent', missed, lines, rotated)
        /\ \A b \in Asks : /\ status[b] # "none" => status'[b] # "none"
                           /\ status[b] \in Decisions => status'[b] = status[b]
    <3>1. /\ StatusOk([status EXCEPT ![a] = say], unsent \cup {[kind |-> kind, ask |-> a]},
                      missed, lines, rotated)
          /\ \A b \in Asks : /\ status[b] # "none" => [status EXCEPT ![a] = say][b] # "none"
                             /\ status[b] \in Decisions
                                  => [status EXCEPT ![a] = say][b] = status[b]
      <4>1. LogOk(lines, halfLine, file, rotated) /\ StatusOk(status, unsent, missed, lines, rotated)
        BY <1>1
      <4>2. kind = IF say = "pending" THEN "requested" ELSE say
        BY <1>2
      <4>3. \/ status[a] = "none" /\ say = "pending"
            \/ status[a] = "pending" /\ say \in Decisions
        BY <1>2
      <4> QED
        BY <4>1, <4>2, <4>3, Held
    <3> QED
      BY <1>2, <3>1
  <2>2. \A c, v : SideOk(c, v, lines, halfLine, file, rotated, status)
                    => SideOk(c, v, lines, halfLine, file, rotated, status')
    BY <2>1, SideStays
  <2>3. UNCHANGED <<lines, halfLine, file, rotated, missed, plugin, kept>>
    BY <1>2 DEF logVars
  <2> QED
    BY <1>1, <2>1, <2>2, <2>3, RuntimeMoves
<1>3. ASSUME NEW a \in Asks, AskApproval(a) PROVE NotificationsInv'
  <2>1. status[a] = "none" /\ UNCHANGED <<missed, logVars, plugin, kept>>
    BY <1>3 DEF AskApproval, pluginVars
  <2> QED
    BY <1>2, <1>3, <2>1 DEF AskApproval
<1>4. ASSUME NEW a \in Asks, NEW say \in Decisions,
             status[a] = "pending", status' = [status EXCEPT ![a] = say],
             unsent' = unsent \cup {[kind |-> say, ask |-> a]},
             UNCHANGED <<missed, logVars, plugin, kept>>
      PROVE  NotificationsInv'
  <2>1. say # "pending"
    BY NotificationAssumption
  <2>2. say = IF say = "pending" THEN "requested" ELSE say
    BY <2>1
  <2> QED
    BY <1>2, <1>4, <2>2
<1>5. ASSUME NEW a \in Asks, NEW say \in Decisions, Answer(a, say) PROVE NotificationsInv'
  <2>1. UNCHANGED <<missed, logVars, plugin, kept>>
    BY <1>5 DEF Answer, pluginVars
  <2> QED
    BY <1>4, <1>5, <2>1 DEF Answer
<1>6. ASSUME NEW a \in Asks, NEW say \in Decisions, AnswerFile(a, say) PROVE NotificationsInv'
  <2>1. CASE status[a] = "pending"
    <3>1. UNCHANGED <<missed, logVars, plugin, kept>>
      BY <1>6 DEF AnswerFile
    <3> QED
      BY <1>4, <1>6, <2>1, <3>1 DEF AnswerFile
  <2>2. CASE status[a] # "pending"
    <3>1. UNCHANGED <<status, unsent, missed, lines, halfLine, file, rotated, plugin, kept>>
      BY <1>6, <2>2 DEF AnswerFile, logVars
    <3> QED
      BY <1>1, <3>1, RuntimeMoves
  <2> QED
    BY <2>1, <2>2
<1>7. ASSUME NEW a \in Asks, ReportProgress(a) PROVE NotificationsInv'
  <2> DEFINE n == [kind |-> "progress", ask |-> a]
  <2>1. /\ unsent' = unsent \cup {n}
        /\ UNCHANGED <<status, missed, lines, halfLine, file, rotated, plugin, kept>>
    BY <1>7 DEF ReportProgress, logVars, pluginVars
  <2>2. n \in News /\ n.kind = "progress" /\ "progress" \notin Decisions
    BY NotificationAssumption DEF News
  <2> HIDE DEF n
  <2>3. Tells(n, status)
    BY <2>2 DEF Tells
  <2>4. StatusOk(status, unsent', missed, lines, rotated)
    BY <1>1, <2>1, <2>2, <2>3 DEF StatusOk, Announced
  <2> QED
    BY <1>1, <2>1, <2>4, RuntimeMoves
<1>8. ASSUME NEW n \in unsent, NextSeq <= MaxSeq
      PROVE  /\ Numbered(n) \in Event /\ Numbered(n) # Fragment
             /\ Numbered(n).seq = NextSeq /\ Numbered(n).ask = n.ask /\ Numbered(n).kind = n.kind
  <2>1. NextSeq \in 1..MaxSeq /\ n \in News
    BY <1>1, <1>8, Numbering, NotificationAssumption DEF StatusOk
  <2>2. n.kind \in {"requested", "progress"} \cup Decisions /\ n.ask \in Asks
    BY <2>1 DEF News
  <2> QED
    BY <2>1, <2>2, NotFragment DEF Numbered, Event
<1>9. ASSUME NEW n \in unsent, NextSeq <= MaxSeq,
             NEW x \in {Numbered(n), Fragment}, NEW half \in BOOLEAN,
             lines' = Append(lines, x), halfLine' = half, unsent' = unsent \ {n},
             missed' = missed \cup {n.ask} \/ (missed' = missed /\ x # Fragment),
             UNCHANGED <<status, file, rotated, plugin, kept>>
      PROVE  NotificationsInv'
  <2>1. x \in Line /\ (x # Fragment => x = Numbered(n))
    BY <1>8, <1>9 DEF Line
  <2>2. FitsAfter(x, lines)
    BY <1>1, <1>8, <1>9, <2>1, Numbering DEF FitsAfter
  <2>3. /\ LogOk(Append(lines, x), half, file, rotated)
        /\ Grown(lines, x, Append(lines, x))
        /\ \A c, v, st : SideOk(c, v, lines, halfLine, file, rotated, st)
                           => SideOk(c, v, Append(lines, x), half, file, rotated, st)
    BY <1>1, <2>1, <2>2, LineAdded
  <2>4. Grown(lines, x, lines') /\ lines' # lines
    BY <1>9, <2>3 DEF Grown
  <2>5. x # Fragment => x.ask = n.ask /\ x.kind = n.kind
    BY <1>8, <1>9, <2>1
  <2>6. StatusOk(status, unsent \ {n}, missed', lines', rotated)
    <3>1. missed' = missed \cup {n.ask} \/ (missed' = missed /\ lines' # lines /\ x # Fragment)
      BY <1>9, <2>4
    <3> QED
      BY <1>1, <2>4, <2>5, <3>1, Logged
  <2> QED
    BY <1>9, <2>3, <2>6, RuntimeMoves
<1>10. ASSUME NEW n \in unsent, Emit(n) PROVE NotificationsInv'
  <2>1. UNCHANGED <<plugin, kept>>
    BY <1>10 DEF Emit, pluginVars
  <2> QED
    BY <1>8, <1>9, <1>10, <2>1 DEF Emit
<1>11. ASSUME NEW n \in unsent, EmitFails(n) PROVE NotificationsInv'
  <2>1. UNCHANGED <<status, file, rotated, plugin, kept>>
        /\ unsent' = unsent \ {n} /\ missed' = missed \cup {n.ask}
    BY <1>11 DEF EmitFails, pluginVars
  <2>2. CASE UNCHANGED <<lines, halfLine>>
    <3>1. StatusOk(status, unsent \ {n}, missed', lines, rotated)
      BY <1>1, <1>8, <1>11, <2>1, Logged DEF EmitFails
    <3> QED
      BY <1>1, <2>1, <2>2, <3>1, RuntimeMoves
  <2>3. CASE ~UNCHANGED <<lines, halfLine>>
    <3>1. PICK x \in {Numbered(n), Fragment} : lines' = Append(lines, x) /\ halfLine' = TRUE
      BY <1>11, <2>3 DEF EmitFails
    <3> QED
      BY <1>9, <1>11, <2>1, <3>1 DEF EmitFails
  <2> QED
    BY <2>2, <2>3
<1>12. ASSUME NEW n \in 1..Len(lines), RotateLog(n) PROVE NotificationsInv'
  <2>1. Readable = Read(lines) /\ \A i \in Read(lines) : i \in Nat /\ i >= 1
    BY <1>1 DEF Readable, Read, LogOk
  <2>2. /\ halfLine = FALSE /\ halfLine' = FALSE /\ file' = file + 1
        /\ lines' = SubSeq(lines, n + 1, Len(lines))
        /\ rotated' = rotated \cup {lines[i].seq : i \in Read(lines) \cap 1..n}
        /\ \E i \in Read(lines) : i > n
        /\ UNCHANGED <<status, unsent, missed, plugin, kept>>
    BY <1>1, <1>12, <2>1 DEF RotateLog, runtimeVars, pluginVars, LogOk
  <2>3. /\ LogOk(lines', FALSE, file', rotated')
        /\ \A i \in Read(lines') : i + n \in Read(lines) /\ lines'[i] = lines[i + n]
        /\ \A i \in Read(lines) : i > n => i - n \in Read(lines') /\ lines'[i - n] = lines[i]
        /\ \A c, v, st : SideOk(c, v, lines, FALSE, file, rotated, st)
                           => SideOk(c, v, lines', FALSE, file', rotated', st)
    BY <1>1, <2>2, LogRotated
  <2>4. \A i \in Read(lines) : i <= n => lines[i].seq \in rotated'
    <3> SUFFICES ASSUME NEW i \in Read(lines), i <= n PROVE i \in Read(lines) \cap 1..n
      BY <2>2
    <3> QED
      BY <2>1
  <2>5. StatusOk(status, unsent, missed, lines', rotated')
    <3>1. StatusOk(status, unsent, missed, lines, rotated) /\ rotated \subseteq rotated' /\ n \in Nat
      BY <1>1, <2>2
    <3>2. \A i \in Read(lines) : i \in Nat
      BY <2>1
    <3>3. \A i \in Read(lines) : i <= n => rotated' # {}
      BY <2>4
    <3>4. \A i \in Read(lines') : i + n \in Read(lines) /\ lines'[i] = lines[i + n]
      BY <2>3
    <3>5. \A i \in Read(lines) : i > n => i - n \in Read(lines') /\ lines'[i - n] = lines[i]
      BY <2>3
    <3> QED
      BY <3>1, <3>2, <3>3, <3>4, <3>5, RotatedStatus
  <2> QED
    BY <2>2, <2>3, <2>5, RuntimeMoves
<1> QED
  BY <1>3, <1>5, <1>6, <1>7, <1>10, <1>11, <1>12 DEF RuntimeStep

LEMMA EngineFollows ==
  ASSUME NotificationsInv,
         EngineStep \/ StartPlugin \/ ForgetState \/ PersistFails \/ PluginDies
  PROVE  NotificationsInv'
<1> DEFINE CursorType == [offset : Nat, lastSeq : Nat, file : Nat]
           Side(c, v) == SideOk(c, v, lines, halfLine, file, rotated, status)
<1>1. /\ LogOk(lines, halfLine, file, rotated)
      /\ StatusOk(status, unsent, missed, lines, rotated)
      /\ PluginOk(plugin)
      /\ kept \in [cursor : CursorType, view : View]
      /\ Side(plugin.cursor, plugin.view) /\ Side(kept.cursor, kept.view)
      /\ Side(EmptyCursor, EmptyView)
      /\ EmptyCursor \in CursorType /\ EmptyView \in View
      /\ plugin.cursor \in CursorType /\ plugin.view \in View
      /\ plugin.job \in Asks \cup {NoAsk}
  BY DEF NotificationsInv, PluginOk
<1>2. ASSUME UNCHANGED <<runtimeVars, logVars>>
      PROVE  UNCHANGED <<status, unsent, missed, lines, halfLine, file, rotated>>
  BY <1>2 DEF runtimeVars, logVars
\* What the view has besides does not matter to it.
<1>3. ASSUME NEW v \in View, NEW r \in View, NEW c, Side(c, v),
             r.asks = v.asks, r.applied = v.applied
      PROVE  Side(c, r)
  BY <1>3 DEF SideOk, ViewOk, Honest, Honours, Shows
<1> HIDE DEF Side
<1>4. CASE StartPlugin
  <2>1. PICK q : q = [at |-> "idle", cursor |-> kept.cursor, view |-> kept.view, job |-> NoAsk]
    OBVIOUS
  <2>2. q.at = "idle" /\ q.cursor = kept.cursor /\ q.view = kept.view /\ PluginOk(q)
    BY <1>1, <2>1 DEF PluginOk
  <2> QED
    BY <1>1, <1>2, <1>4, <2>1, <2>2, PluginMoves DEF StartPlugin, Side
<1>5. CASE ForgetState
  <2>1. PICK k : k = Fresh
    OBVIOUS
  <2>2. k.cursor = EmptyCursor /\ k.view = EmptyView /\ k \in [cursor : CursorType, view : View]
    BY <1>1, <2>1 DEF Fresh
  <2> QED
    BY <1>1, <1>2, <1>5, <2>1, <2>2, PluginMoves DEF ForgetState, Side
<1>6. CASE PluginDies
  <2>1. PICK p : p = Down
    OBVIOUS
  <2>2. p.cursor = EmptyCursor /\ p.view = EmptyView /\ PluginOk(p)
    BY <1>1, <2>1 DEF Down, PluginOk
  <2> QED
    BY <1>1, <1>2, <1>6, <2>1, <2>2, PluginMoves DEF PluginDies, Side
<1>7. ASSUME NEW p, PluginOk(p), p.cursor = plugin.cursor, p.view = plugin.view,
             plugin' = p, kept' = kept \/ kept' = [cursor |-> plugin.cursor, view |-> plugin.view],
             UNCHANGED <<status, unsent, missed, lines, halfLine, file, rotated>>
      PROVE  NotificationsInv'
  <2>1. PICK k : k = kept'
    OBVIOUS
  <2>2. k \in [cursor : CursorType, view : View] /\ Side(k.cursor, k.view)
    <3>1. CASE kept' = kept
      BY <1>1, <2>1, <3>1
    <3>2. CASE kept' = [cursor |-> plugin.cursor, view |-> plugin.view]
      <4>1. k.cursor = plugin.cursor /\ k.view = plugin.view /\ k \in [cursor : CursorType, view : View]
        BY <1>1, <2>1, <3>2
      <4> QED
        BY <1>1, <4>1
    <3> QED
      BY <1>7, <3>1, <3>2
  <2>3. Side(p.cursor, p.view)
    BY <1>1, <1>7
  <2> QED
    BY <1>7, <2>1, <2>2, <2>3, PluginMoves DEF Side
<1>8. ASSUME NEW at, NEW job,
             \/ at \in {"idle", "saving", "submitting"} /\ job \in Asks \cup {NoAsk}
             \/ at = "deciding" /\ job \in Asks,
             plugin' = [at |-> at, cursor |-> plugin.cursor, view |-> plugin.view, job |-> job],
             kept' = kept \/ kept' = [cursor |-> plugin.cursor, view |-> plugin.view],
             UNCHANGED <<runtimeVars, logVars>>
      PROVE  NotificationsInv'
  <2>1. PICK q : q = [at |-> at, cursor |-> plugin.cursor, view |-> plugin.view, job |-> job]
    OBVIOUS
  <2>2. q \in [at : {"down", "idle", "saving", "deciding", "submitting"},
            cursor : CursorType, view : View, job : Asks \cup {NoAsk}]
    BY <1>1, <1>8, <2>1
  <2>3. q.at = at /\ q.job = job /\ q.cursor = plugin.cursor /\ q.view = plugin.view
    BY <2>1
  <2>4. PluginOk(q)
    BY <1>8, <2>2, <2>3 DEF PluginOk
  <2> QED
    BY <1>2, <1>7, <1>8, <2>1, <2>3, <2>4
<1>9. CASE Persist
  <2>1. UNCHANGED <<runtimeVars, logVars>> /\ kept' = [cursor |-> plugin.cursor, view |-> plugin.view]
    BY <1>9 DEF Persist
  <2>2. CASE plugin.at = "saving"
    <3>2. plugin' = [at |-> AfterPoll(plugin.job), cursor |-> plugin.cursor,
                     view |-> plugin.view, job |-> plugin.job]
      BY <1>9, <2>2 DEF Persist, GoesOn
    <3>3. \/ AfterPoll(plugin.job) = "idle"
          \/ AfterPoll(plugin.job) = "deciding" /\ plugin.job \in Asks
      BY <1>1 DEF AfterPoll
    <3> QED
      BY <1>1, <1>8, <2>1, <3>2, <3>3
  <2>3. CASE plugin.at # "saving"
    <3>2. plugin' = [at |-> "idle", cursor |-> plugin.cursor, view |-> plugin.view, job |-> NoAsk]
      BY <1>9, <2>3 DEF Persist, GoesOn
    <3> QED
      BY <1>8, <2>1, <3>2
  <2> QED
    BY <2>2, <2>3
<1>10. CASE Refuse \/ PersistFails
  <2>1. /\ plugin' = [at |-> "idle", cursor |-> plugin.cursor, view |-> plugin.view, job |-> NoAsk]
        /\ kept' = kept /\ UNCHANGED <<runtimeVars, logVars>>
    BY <1>10 DEF Refuse, PersistFails, GoesOn
  <2> QED
    BY <1>8, <2>1
<1>11. ASSUME NEW p, p \in [at : {"down", "idle", "saving", "deciding", "submitting"},
                            cursor : CursorType, view : View, job : Asks \cup {NoAsk}],
              p.at = "deciding" => p.job \in Asks, Side(p.cursor, p.view),
              plugin' = p, kept' = kept,
              UNCHANGED <<status, unsent, missed, lines, halfLine, file, rotated>>
       PROVE  NotificationsInv'
  <2>1. PluginOk(p)
    BY <1>11 DEF PluginOk
  <2> QED
    BY <1>1, <1>11, <2>1, PluginMoves DEF Side
<1>12. CASE Submit
  <2>1. PICK a : a = plugin.job
    OBVIOUS
  <2>2. a \in Asks /\ plugin.at = "deciding"
    BY <1>1, <1>12, <2>1 DEF Submit, PluginOk
  <2>3. PICK v : v = [plugin.view EXCEPT !.submitted = @ \cup {a}]
    OBVIOUS
  <2>4. v \in View /\ v.asks = plugin.view.asks /\ v.applied = plugin.view.applied
    BY <1>1, <2>2, <2>3 DEF View
  <2>5. PICK p : p = [at |-> "submitting", cursor |-> plugin.cursor, view |-> v,
                    job |-> a]
    OBVIOUS
  <2>6. plugin' = p
    BY <1>12, <2>1, <2>3, <2>5 DEF Submit
  <2>7. p \in [at : {"down", "idle", "saving", "deciding", "submitting"},
               cursor : CursorType, view : View, job : Asks \cup {NoAsk}]
        /\ p.at = "submitting" /\ p.cursor = plugin.cursor /\ p.view = v
    BY <1>1, <2>2, <2>4, <2>5
  <2>8. Side(p.cursor, p.view)
    BY <1>1, <1>3, <2>4, <2>7 DEF Side
  <2>9. kept' = kept /\ UNCHANGED <<runtimeVars, logVars>>
    BY <1>12 DEF Submit
  <2> QED
    BY <1>2, <1>11, <2>6, <2>7, <2>8, <2>9
<1>13. ASSUME NEW job \in Asks \cup {NoAsk}, PollFor(job) PROVE NotificationsInv'
  <2>1. PICK n \in 0..(Complete - StartOffset(plugin.cursor)) :
          \E at \in {"saving", AfterPoll(job)} :
            plugin' = [at |-> at, cursor |-> CursorAfter(plugin.cursor, n),
                       view |-> WithResults(FoldLeft(ApplyEvent, plugin.view,
                                                     NewAmong(plugin.cursor, n))), job |-> job]
    BY <1>13, Zenon DEF PollFor
  <2>2. PICK c : c = CursorAfter(plugin.cursor, n)
    OBVIOUS
  <2>3. PICK v : v = FoldLeft(ApplyEvent, plugin.view, NewAmong(plugin.cursor, n))
    OBVIOUS
  <2>4. c \in CursorType /\ Side(c, v)
    BY <1>1, <2>2, <2>3, Polled DEF Side
  <2>5. v \in View
    BY <2>4 DEF Side, SideOk, ViewOk
  <2>6. PICK r : r = WithResults(v)
    OBVIOUS
  <2>7. r \in View /\ r.asks = v.asks /\ r.applied = v.applied
    BY <2>5, <2>6 DEF WithResults, View
  <2>8. PICK at \in {"saving", AfterPoll(job)} :
          plugin' = [at |-> at, cursor |-> c, view |-> r, job |-> job]
    BY <2>1, <2>2, <2>3, <2>6
  <2>9. PICK p : p = [at |-> at, cursor |-> c, view |-> r, job |-> job]
    OBVIOUS
  <2>10. at \in {"saving", "idle", "deciding"} /\ (at = "deciding" => job \in Asks)
    BY DEF AfterPoll
  <2>11. /\ p \in [at : {"down", "idle", "saving", "deciding", "submitting"},
                   cursor : CursorType, view : View, job : Asks \cup {NoAsk}]
         /\ p.at = at /\ p.cursor = c /\ p.view = r /\ p.job = job
    BY <2>4, <2>7, <2>9, <2>10
  <2>12. Side(p.cursor, p.view)
    BY <1>3, <2>4, <2>5, <2>7, <2>11 DEF Side
  <2>13. kept' = kept /\ UNCHANGED <<runtimeVars, logVars>>
    BY <1>13 DEF PollFor
  <2> QED
    BY <1>2, <1>11, <2>8, <2>9, <2>10, <2>11, <2>12, <2>13
<1> QED
  BY <1>4, <1>5, <1>6, <1>9, <1>10, <1>12, <1>13 DEF EngineStep, Poll, TakeDecision

LEMMA NotificationsAlways == NotificationSpec => []NotificationsInv
<1>1. ASSUME NotificationsInv, [NotificationNext]_notificationVars PROVE NotificationsInv'
  <2>1. CASE UNCHANGED notificationVars
    <3>1. UNCHANGED <<status, unsent, missed, lines, halfLine, file, rotated, plugin, kept>>
      BY <2>1 DEF notificationVars
    <3> QED
      BY <1>1, <3>1, RuntimeMoves DEF NotificationsInv
  <2> QED
    BY <1>1, <2>1, RuntimeFollows, EngineFollows DEF NotificationNext
<1> QED
  BY <1>1, FreshOk, PTL DEF NotificationSpec

(***************************************************************************)
(* The types, with their bounds.  The log has no more lines than were      *)
(* numbered and fragments were left, and a cursor was at some time within  *)
(* the log, whatever was rotated since.                                    *)
(***************************************************************************)

LEMMA NumbersReached ==
  LogOk(lines, halfLine, file, rotated) =>
    /\ NextSeq \in 1..MaxSeq + 1
    /\ \A q \in Nat : Reached(q, lines) <=> q < NextSeq
<1> SUFFICES ASSUME LogOk(lines, halfLine, file, rotated)
             PROVE  /\ NextSeq \in 1..MaxSeq + 1
                    /\ \A q \in Nat : Reached(q, lines) <=> q < NextSeq
  OBVIOUS
<1>1. /\ NextSeq \in Nat \ {0}
      /\ \A i \in Read(lines) : lines[i].seq < NextSeq
      /\ NextSeq = 1 \/ \E i \in Read(lines) : lines[i].seq + 1 = NextSeq
  BY Numbering
<1>2. MaxSeq \in Nat /\ \A i \in Read(lines) : lines[i].seq \in 1..MaxSeq
  BY NotificationAssumption DEF LogOk, Read, Line, Event
<1>3. NextSeq \in 1..MaxSeq + 1
  BY <1>1, <1>2
<1>4. ASSUME NEW q \in Nat PROVE Reached(q, lines) <=> q < NextSeq
  BY <1>1, <1>2 DEF Reached
<1> QED
  BY <1>3, <1>4

LEMMA NumbersReachedNext ==
  (LogOk(lines, halfLine, file, rotated) =>
    /\ NextSeq \in 1..MaxSeq + 1
    /\ \A q \in Nat : Reached(q, lines) <=> q < NextSeq)'
  BY NumbersReached, PTL

LogShort == missed \subseteq Asks /\ Len(lines) < NextSeq + Cardinality(missed)

LEMMA MissedCounted ==
  ASSUME missed \subseteq Asks
  PROVE  /\ Cardinality(missed) \in Nat /\ Cardinality(Asks) \in Nat
         /\ Cardinality(missed) <= Cardinality(Asks)
         /\ \A a \in Asks \ missed : Cardinality(missed \cup {a}) = Cardinality(missed) + 1
<1>1. IsFiniteSet(Asks) /\ IsFiniteSet(missed)
  BY NotificationAssumption, FS_Subset
<1>2. Cardinality(missed) \in Nat /\ Cardinality(Asks) \in Nat
  BY <1>1, FS_CardinalityType
<1>3. Cardinality(missed) <= Cardinality(Asks)
  BY <1>1, FS_Subset
<1>4. \A a \in Asks \ missed : Cardinality(missed \cup {a}) = Cardinality(missed) + 1
  BY <1>1, FS_AddElement
<1> QED
  BY <1>2, <1>3, <1>4

LEMMA LogStaysShort ==
  ASSUME NotificationsInv, NotificationsInv', LogShort, [NotificationNext]_notificationVars
  PROVE  LogShort'
<1> DEFINE last == NextSeq - 1
           m == Cardinality(missed)
<1>1. /\ lines \in Seq(Line) /\ Len(lines) \in Nat /\ unsent \subseteq News
      /\ LogOk(lines, halfLine, file, rotated) /\ LogOk(lines', halfLine', file', rotated')
  BY DEF NotificationsInv, LogOk, StatusOk
<1>2. /\ NextSeq \in Nat \ {0} /\ NextSeq' \in Nat \ {0} /\ Reached(last, lines) /\ last \in Nat
      /\ \A q \in Nat : Reached(q, lines') => q < NextSeq'
  BY <1>1, NumbersReached, NumbersReachedNext, NotificationAssumption
<1>3. /\ m \in Nat /\ missed \subseteq Asks
      /\ \A a \in Asks \ missed : Cardinality(missed \cup {a}) = m + 1
      /\ Len(lines) < NextSeq + m
  BY MissedCounted DEF LogShort
<1>4. CASE UNCHANGED <<lines, missed>>
  BY <1>4 DEF LogShort, NextSeq, Readable
<1>5. ASSUME NEW x, lines' = Append(lines, x)
      PROVE  /\ Len(lines') = Len(lines) + 1
             /\ \A q \in Nat : Reached(q, lines) => Reached(q, lines')
             /\ x # Fragment => Reached(x.seq, lines')
  <2>1. /\ Len(lines') = Len(lines) + 1 /\ lines'[Len(lines) + 1] = x
        /\ \A i \in 1..Len(lines) : lines'[i] = lines[i]
    BY <1>1, <1>5
  <2>2. \A i \in Read(lines) : i \in Read(lines') /\ lines'[i] = lines[i]
    BY <1>1, <2>1 DEF Read
  <2>3. x # Fragment => Len(lines) + 1 \in Read(lines')
    BY <1>1, <2>1 DEF Read
  <2>4. x # Fragment => x.seq \in Nat
    <3>1. Len(lines) + 1 \in 1..Len(lines') /\ lines' \in Seq(Line)
      BY <1>1, <2>1 DEF LogOk
    <3>2. x \in Line
      BY <2>1, <3>1
    <3> QED
      BY <3>2, NotFragment DEF Line
  <2> QED
    BY <2>1, <2>2, <2>3, <2>4 DEF Reached
<1>6. ASSUME NEW n \in unsent, Numbered(n) = Fragment PROVE FALSE
  BY <1>2, <1>6 DEF Numbered, Fragment
<1>7. ASSUME NEW n \in unsent, lines' = Append(lines, Numbered(n)), missed \subseteq missed',
             missed' = missed \/ (n.ask \notin missed /\ missed' = missed \cup {n.ask})
      PROVE  LogShort'
  <2>1. NextSeq < NextSeq'
    <3>1. Numbered(n) # Fragment /\ Numbered(n).seq = NextSeq
      BY <1>6 DEF Numbered
    <3>2. Reached(NextSeq, lines')
      BY <1>5, <1>7, <3>1
    <3> QED
      BY <1>2, <3>2
  <2>2. Len(lines') = Len(lines) + 1 /\ n.ask \in Asks
    BY <1>1, <1>5, <1>7 DEF News
  <2>3. missed' \subseteq Asks /\ Cardinality(missed') \in {m, m + 1}
    BY <1>3, <1>7, <2>2
  <2> QED
    BY <1>1, <1>2, <1>3, <2>1, <2>2, <2>3 DEF LogShort
<1>8. ASSUME NEW n \in unsent, Emit(n) PROVE LogShort'
  BY <1>7, <1>8 DEF Emit
<1>9. ASSUME NEW n \in unsent, EmitFails(n) PROVE LogShort'
  <2>1. n.ask \in Asks /\ n.ask \notin missed /\ missed' = missed \cup {n.ask}
    BY <1>1, <1>9 DEF EmitFails, News
  <2>2. missed' \subseteq Asks /\ Cardinality(missed') = m + 1
    BY <1>3, <2>1
  <2>3. CASE lines' = Append(lines, Numbered(n))
    BY <1>7, <2>1, <2>3
  <2>4. CASE lines' = Append(lines, Fragment)
    <3>1. Reached(last, lines') /\ Len(lines') = Len(lines) + 1
      BY <1>2, <1>5, <2>4
    <3>2. last < NextSeq'
      BY <1>2, <3>1
    <3> QED
      BY <1>1, <1>2, <1>3, <2>2, <3>1, <3>2 DEF LogShort
  <2>5. CASE lines' = lines
    <3>1. Reached(last, lines') /\ last < NextSeq'
      BY <1>2, <2>5
    <3> QED
      BY <1>1, <1>2, <1>3, <2>2, <2>5, <3>1 DEF LogShort
  <2> QED
    BY <1>9, <2>3, <2>4, <2>5 DEF EmitFails
<1>10. ASSUME NEW n \in 1..Len(lines), RotateLog(n) PROVE LogShort'
  <2>1. /\ Readable = Read(lines) /\ missed' = missed
        /\ lines' = SubSeq(lines, n + 1, Len(lines))
        /\ \E i \in Read(lines) : i > n
    BY <1>10 DEF RotateLog, Readable, Read, runtimeVars
  <2>2. /\ Len(lines') <= Len(lines)
        /\ \A i \in Read(lines) : i > n => i - n \in Read(lines') /\ lines'[i - n] = lines[i]
    <3>1. /\ n + 1 \in Int /\ Len(lines) \in Int /\ n \in Nat /\ n >= 1 /\ n <= Len(lines)
          /\ \A i \in n + 1..Len(lines) : lines[i] \in Line
      BY <1>1
    <3>2. /\ Len(lines') = IF n + 1 <= Len(lines) THEN Len(lines) - (n + 1) + 1 ELSE 0
          /\ \A i \in 1..Len(lines) - (n + 1) + 1 : lines'[i] = lines[n + 1 + i - 1]
      BY <2>1, <3>1, SubSeqProperties
    <3>3. Len(lines') = Len(lines) - n /\ \A i \in 1..Len(lines) - n : lines'[i] = lines[i + n]
      <4>1. Len(lines) - (n + 1) + 1 = Len(lines) - n
        BY <3>1
      <4>2. Len(lines') = Len(lines) - n
        <5>1. CASE n + 1 <= Len(lines)
          BY <3>2, <4>1, <5>1
        <5>2. CASE n = Len(lines)
          <6>1. ~(n + 1 <= Len(lines)) /\ Len(lines) - n = 0
            BY <3>1, <5>2
          <6> QED
            BY <3>2, <6>1
        <5> QED
          BY <3>1, <5>1, <5>2
      <4>3. ASSUME NEW i \in 1..Len(lines) - n PROVE lines'[i] = lines[i + n]
        <5>1. n + 1 + i - 1 = i + n
          BY <3>1, <4>3
        <5>2. lines'[i] = lines[n + 1 + i - 1]
          BY <3>2, <4>1, <4>3
        <5> QED
          BY <5>1, <5>2
      <4> QED
        BY <4>2, <4>3
    <3>4. ASSUME NEW i \in Read(lines), i > n
          PROVE  i - n \in Read(lines') /\ lines'[i - n] = lines[i]
      <4>1. i \in 1..Len(lines) /\ lines[i] # Fragment /\ i - n \in 1..Len(lines) - n /\ (i - n) + n = i
        BY <3>1, <3>4 DEF Read
      <4>2. lines'[i - n] = lines[i]
        BY <3>3, <4>1
      <4> QED
        BY <3>3, <4>1, <4>2 DEF Read
    <3> QED
      BY <3>1, <3>3, <3>4
  <2>3. Reached(last, lines')
    <3>1. PICK i \in Read(lines) : i > n
      BY <2>1
    <3>2. CASE last = 0
      BY <3>2 DEF Reached
    <3>3. CASE last # 0
      <4>1. PICK j \in Read(lines) : last <= lines[j].seq
        BY <1>2, <3>3 DEF Reached
      <4>2. /\ i \in Nat /\ j \in Nat /\ lines[i] \in Event /\ lines[j] \in Event
            /\ lines[i].seq \in Nat /\ lines[j].seq \in Nat
        BY <1>1, NotFragment DEF Read, Line
      <4>3. CASE j > n
        BY <2>2, <4>1, <4>3 DEF Reached
      <4>4. CASE ~(j > n)
        <5>1. j < i
          BY <3>1, <4>2, <4>4
        <5>2. lines[j].seq < lines[i].seq
          BY <1>1, <5>1 DEF LogOk
        <5>3. last <= lines[i].seq
          BY <1>2, <4>1, <4>2, <5>2
        <5> QED
          BY <2>2, <3>1, <5>3 DEF Reached
      <4> QED
        BY <4>3, <4>4
    <3> QED
      BY <3>2, <3>3
  <2>4. last < NextSeq'
    BY <1>2, <2>3
  <2>5. Len(lines') \in Nat
    BY <1>1 DEF LogOk
  <2> QED
    BY <1>1, <1>2, <1>3, <2>1, <2>2, <2>4, <2>5 DEF LogShort
<1> QED
  <2>1. CASE UNCHANGED notificationVars
    BY <1>4, <2>1 DEF notificationVars
  <2>2. CASE RuntimeStep
    <3>1. CASE \E a \in Asks : \/ AskApproval(a) \/ ReportProgress(a)
                               \/ \E say \in Decisions : Answer(a, say) \/ AnswerFile(a, say)
      BY <1>4, <3>1 DEF AskApproval, ReportProgress, Answer, AnswerFile, logVars
    <3> QED
      BY <1>8, <1>9, <1>10, <2>2, <3>1 DEF RuntimeStep
  <2>3. CASE EngineStep \/ StartPlugin \/ ForgetState \/ PersistFails \/ PluginDies
    BY <1>4, <2>3 DEF EngineStep, Poll, TakeDecision, PollFor, Persist, Submit, Refuse,
       StartPlugin, ForgetState, PersistFails, PluginDies, logVars, runtimeVars
  <2> QED
    BY <2>1, <2>2, <2>3 DEF NotificationNext

LEMMA LogAlwaysShort == NotificationSpec => []LogShort
<1>1. NotificationInit => LogShort
  <2> SUFFICES ASSUME NotificationInit PROVE LogShort
    OBVIOUS
  <2>1. lines = << >> /\ missed = {} /\ Len(lines) = 0 /\ Readable = {}
    BY DEF NotificationInit, Readable
  <2>2. NextSeq = 1 /\ Cardinality(missed) = 0
    BY <2>1, FS_EmptySet DEF NextSeq
  <2> QED
    BY <2>1, <2>2 DEF LogShort
<1> QED
  BY <1>1, LogStaysShort, NotificationsAlways, PTL DEF NotificationSpec

\* The plugin, its file, and what is counted stay within their bounds.
SidesBounded ==
  /\ {plugin.cursor.offset, kept.cursor.offset} \subseteq 0..MaxLines
  /\ file \in 0..MaxRotations /\ rotated \subseteq 1..MaxSeq
  /\ answered \subseteq Asks /\ written \in [Asks -> Nat] /\ outages \in 0..MaxOutages

LEMMA LogFits ==
  ASSUME NotificationsInv, LogShort PROVE Len(lines) \in 0..MaxLines
<1>1. NextSeq \in 1..MaxSeq + 1 /\ Len(lines) \in Nat
  BY NumbersReached DEF NotificationsInv, LogOk
<1>2. /\ Cardinality(missed) \in Nat /\ Cardinality(Asks) \in Nat
      /\ Cardinality(missed) <= Cardinality(Asks)
  BY MissedCounted DEF LogShort
<1> QED
  BY <1>1, <1>2, NotificationAssumption DEF LogShort, MaxLines

LEMMA RuntimeBounded ==
  ASSUME NotificationsInv, SidesBounded, RuntimeStep PROVE SidesBounded'
<1>1. CASE \E a \in Asks : AskApproval(a) \/ ReportProgress(a) \/ \E say \in Decisions : Answer(a, say)
  BY <1>1 DEF AskApproval, ReportProgress, Answer, logVars, pluginVars, SidesBounded
<1>2. CASE \E a \in Asks, say \in Decisions : AnswerFile(a, say)
  BY <1>2 DEF AnswerFile, logVars, SidesBounded
<1>3. CASE \E n \in unsent : Emit(n) \/ EmitFails(n)
  BY <1>3 DEF Emit, EmitFails, pluginVars, SidesBounded
<1>4. CASE \E n \in 1..Len(lines) : RotateLog(n)
  <2>1. \A i \in Readable : lines[i].seq \in 1..MaxSeq
    BY DEF NotificationsInv, LogOk, Readable, Line, Event
  <2>2. /\ file < MaxRotations /\ file' = file + 1 /\ MaxRotations \in Nat
        /\ rotated' \subseteq 1..MaxSeq /\ UNCHANGED pluginVars
    BY <1>4, <2>1, NotificationAssumption DEF RotateLog, SidesBounded
  <2> QED
    BY <2>2 DEF SidesBounded, pluginVars
<1> QED
  BY <1>1, <1>2, <1>3, <1>4 DEF RuntimeStep

LEMMA EngineBounded ==
  ASSUME NotificationsInv, LogShort, SidesBounded,
         EngineStep \/ StartPlugin \/ ForgetState \/ PersistFails \/ PluginDies
  PROVE  SidesBounded'
<1>1. UNCHANGED <<file, rotated>>
  BY DEF EngineStep, Poll, TakeDecision, PollFor, Persist, Submit, Refuse, StartPlugin,
     ForgetState, PersistFails, PluginDies, logVars
<1>2. answered' \subseteq Asks /\ outages' \in 0..MaxOutages
  <2>1. CASE outages' = outages
    BY <2>1 DEF EngineStep, Poll, TakeDecision, PollFor, Persist, Submit, Refuse, StartPlugin,
       ForgetState, PersistFails, PluginDies, SidesBounded
  <2>2. CASE outages < MaxOutages /\ outages' = outages + 1
    BY <2>2, NotificationAssumption
       DEF EngineStep, Poll, TakeDecision, PollFor, Persist, Submit, Refuse, StartPlugin,
           ForgetState, PersistFails, PluginDies, SidesBounded
  <2> QED
    BY <2>1, <2>2 DEF EngineStep, Poll, TakeDecision, PollFor, Persist, Submit, Refuse,
       StartPlugin, ForgetState, PersistFails, PluginDies
<1>3. written' \in [Asks -> Nat]
  <2>1. CASE Submit
    <3>1. PICK a : a = plugin.job
      OBVIOUS
    <3>2. written' = [written EXCEPT ![a] = @ + 1] /\ a \in Asks
      BY <2>1, <3>1 DEF Submit, NotificationsInv, PluginOk
    <3> QED
      BY <3>2 DEF SidesBounded
  <2>2. CASE written' = written
    BY <2>2 DEF SidesBounded
  <2> QED
    BY <2>1, <2>2 DEF EngineStep, Poll, TakeDecision, PollFor, Persist, Refuse, StartPlugin,
       ForgetState, PersistFails, PluginDies
<1>4. EmptyCursor.offset \in 0..MaxLines /\ MaxLines \in Nat
  BY NotificationAssumption, FS_CardinalityType DEF EmptyCursor, MaxLines
<1>5. kept'.cursor.offset \in 0..MaxLines
  <2>1. kept'.cursor \in {kept.cursor, plugin.cursor, EmptyCursor}
    BY DEF EngineStep, Poll, TakeDecision, PollFor, Persist, Submit, Refuse, StartPlugin,
       ForgetState, PersistFails, PluginDies, Fresh
  <2> QED
    BY <1>4, <2>1 DEF SidesBounded
<1>6. plugin'.cursor.offset \in 0..MaxLines
  <2>1. ASSUME NEW job, PollFor(job) PROVE plugin'.cursor.offset \in 0..MaxLines
    <3>1. PICK n \in 0..(Complete - StartOffset(plugin.cursor)) :
            plugin'.cursor = CursorAfter(plugin.cursor, n)
      BY <2>1 DEF PollFor
    <3>2. Complete \in Int /\ Complete <= Len(lines) /\ Len(lines) \in 0..MaxLines
      BY LogFits DEF Complete, NotificationsInv, LogOk
    <3>3. StartOffset(plugin.cursor) \in Nat
      BY DEF StartOffset, NotificationsInv, PluginOk
    <3>4. plugin'.cursor.offset = StartOffset(plugin.cursor) + n
      BY <3>1 DEF CursorAfter
    <3>5. /\ StartOffset(plugin.cursor) + n \in Nat
          /\ StartOffset(plugin.cursor) + n <= Complete
      BY <3>2, <3>3
    <3> QED
      BY <1>4, <3>2, <3>4, <3>5
  <2>2. CASE \E job : PollFor(job)
    BY <2>1, <2>2
  <2>3. CASE ~\E job : PollFor(job)
    <3>1. plugin'.cursor \in {kept.cursor, plugin.cursor, EmptyCursor}
      BY <2>3 DEF EngineStep, Poll, TakeDecision, Persist, Submit, Refuse, StartPlugin,
         ForgetState, PersistFails, PluginDies, GoesOn, Down
    <3> QED
      BY <1>4, <3>1 DEF SidesBounded
  <2> QED
    BY <2>2, <2>3
<1> QED
  BY <1>1, <1>2, <1>3, <1>5, <1>6 DEF SidesBounded

\* The broker, the log and the plugin's cursor and view are within their bounds in
\* memory and on disk: a cursor never points past the longest log there can be.
THEOREM NotificationTypeCorrect == NotificationSpec => []NotificationTypeOK
<1>1. NotificationInit => SidesBounded
  <2> SUFFICES ASSUME NotificationInit PROVE SidesBounded
    OBVIOUS
  <2>1. plugin.cursor.offset = 0 /\ kept.cursor.offset = 0 /\ 0 \in 0..MaxLines
    BY NotificationAssumption, FS_CardinalityType
       DEF NotificationInit, Down, Fresh, EmptyCursor, MaxLines
  <2> QED
    BY <2>1, NotificationAssumption DEF NotificationInit, SidesBounded
<1>2. NotificationsInv /\ LogShort /\ SidesBounded /\ [NotificationNext]_notificationVars
        => SidesBounded'
  <2>1. CASE UNCHANGED notificationVars
    BY <2>1 DEF notificationVars, SidesBounded
  <2> QED
    BY <2>1, RuntimeBounded, EngineBounded DEF NotificationNext
<1>3. NotificationsInv /\ LogShort /\ SidesBounded => NotificationTypeOK
  <2> SUFFICES ASSUME NotificationsInv, LogShort, SidesBounded PROVE NotificationTypeOK
    OBVIOUS
  <2>1. ASSUME NEW c, NEW v, SideOk(c, v, lines, halfLine, file, rotated, status),
               c.offset \in 0..MaxLines
        PROVE  c \in Cursor
    <3>1. /\ c \in [offset : Nat, lastSeq : Nat, file : Nat]
          /\ c.file <= file /\ Reached(c.lastSeq, lines)
      BY <2>1 DEF SideOk, CursorOk
    <3>2. c.lastSeq < NextSeq /\ NextSeq \in 1..MaxSeq + 1 /\ MaxSeq \in Nat
      BY <3>1, NumbersReached, NotificationAssumption DEF NotificationsInv
    <3>3. c.lastSeq \in 0..MaxSeq /\ c.file \in 0..MaxRotations
      BY <3>1, <3>2, NotificationAssumption DEF SidesBounded
    <3> QED
      BY <2>1, <3>1, <3>3 DEF Cursor
  <2>2. plugin.cursor \in Cursor /\ kept.cursor \in Cursor
    BY <2>1 DEF NotificationsInv, SidesBounded
  <2>3. /\ plugin \in [at : {"down", "idle", "saving", "deciding", "submitting"},
                       cursor : Cursor, view : View, job : Asks \cup {NoAsk}]
        /\ kept \in [cursor : Cursor, view : View]
    BY <2>2 DEF NotificationsInv, PluginOk
  <2>4. lines \in Seq([seq : 1..MaxSeq, kind : {"requested", "progress"} \cup Decisions,
                       ask : Asks] \cup {Fragment})
        /\ halfLine \in BOOLEAN
    BY DEF NotificationsInv, LogOk, Line, Event
  <2> QED
    BY <2>3, <2>4 DEF NotificationsInv, StatusOk, SidesBounded, LogShort, NotificationTypeOK
<1> QED
  BY <1>1, <1>2, <1>3, LogAlwaysShort, NotificationsAlways, PTL DEF NotificationSpec

\* In memory and on disk the view reflects each event up to its cursor once and in
\* order, save what rotation took first.
THEOREM ViewKeepsUp == NotificationSpec => []ViewFollowsLog
<1>1. NotificationsInv => ViewFollowsLog
  <2> SUFFICES ASSUME NotificationsInv, NEW s \in {plugin, kept}
               PROVE  /\ IncreasingSeqs(s.view.applied)
                      /\ \A q \in 1..s.cursor.lastSeq : q \in Range(s.view.applied) \cup rotated
    BY DEF ViewFollowsLog
  <2>1. ViewOk(s.view, s.cursor.lastSeq, rotated)
    BY DEF NotificationsInv, SideOk
  <2>2. s.view.applied \in Seq(Nat) /\ DOMAIN s.view.applied = 1..Len(s.view.applied)
    BY <2>1, AppliedNumbers DEF ViewOk
  <2> QED
    BY <2>1, <2>2 DEF ViewOk, IncreasingSeqs, Range
<1> QED
  BY <1>1, NotificationsAlways, PTL

\* What the operator is shown of a request, once the plugin has caught up and
\* nothing about it was lost, is what the broker holds of it.
THEOREM ViewTellsTruth == NotificationSpec => []ViewAgrees
<1>1. NotificationsInv => ViewAgrees
  <2> SUFFICES ASSUME NotificationsInv, NEW a \in Asks, CaughtUp(a)
               PROVE  plugin.view.asks[a] = IF status[a] = "none" THEN "unknown" ELSE status[a]
    BY DEF ViewAgrees
  <2> DEFINE c == plugin.cursor
             v == plugin.view
  <2>1. /\ LogOk(lines, halfLine, file, rotated)
        /\ StatusOk(status, unsent, missed, lines, rotated)
        /\ SideOk(c, v, lines, halfLine, file, rotated, status)
        /\ v.asks[a] \in {"unknown", "pending"} \cup Decisions
        /\ Decisions \subseteq {"approved", "rejected"}
    BY NotificationAssumption DEF NotificationsInv, SideOk, ViewOk, View
  <2>2. /\ c.file = file /\ c.offset = Len(lines) /\ a \notin missed /\ rotated = {}
        /\ \A n \in unsent : n.ask # a
    BY DEF CaughtUp, Complete
  <2> HIDE DEF c, v
  <2>3. \A i \in Read(lines) : i <= c.offset
    BY <2>1, <2>2 DEF Read, LogOk
  <2>4. \A i \in Read(lines) : Shows(v, lines[i])
    BY <2>1, <2>2, <2>3 DEF SideOk, CursorOk, Honours
  <2>5. \A kind : Announced(a, kind, unsent, lines, rotated)
                    => \E i \in Read(lines) : lines[i].ask = a /\ lines[i].kind = kind
    BY <2>2 DEF Announced
  <2>6. Honest(v, status)
    BY <2>1 DEF SideOk
  <2>7. status[a] # "none" => v.asks[a] # "unknown"
    BY <2>1, <2>2, <2>4, <2>5 DEF StatusOk, Shows
  <2>8. status[a] \in Decisions => v.asks[a] \in Decisions
    BY <2>1, <2>2, <2>4, <2>5 DEF StatusOk, Shows
  <2>9. status[a] \in {"none", "pending"} \cup Decisions
    BY <2>1 DEF StatusOk
  <2> QED
    BY <2>1, <2>6, <2>7, <2>8, <2>9 DEF Honest, v
<1> QED
  BY <1>1, NotificationsAlways, PTL

(****************************** Gated commands *****************************)

USE GatedAssumption

\* The calls that used a record up and have not executed yet.
Admitted(r) == {c \in Calls : calls[c].at = "admitted" /\ calls[c].record = r}

CallsTyped ==
  /\ DOMAIN calls = Calls
  /\ \A c \in Calls :
       /\ "at" \in DOMAIN calls[c]
       /\ calls[c].at \notin {"new", "over"} => "record" \in DOMAIN calls[c]

\* Executions, those about to begin and the record that is open add up to no
\* more than what was approved.
UseInv ==
  /\ CallsTyped
  /\ DOMAIN reviewed = Records
  /\ writes \in [Records -> Nat] /\ uses \in [Records -> Nat]
  /\ \A r \in Records :
       uses[r] + Cardinality(Admitted(r)) + (IF reviewed[r].open THEN 1 ELSE 0) <= writes[r]

\* Only call c changes, if any.
OnlyCall(c) == DOMAIN calls' = Calls /\ \A d \in Calls \ {c} : calls'[d] = calls[d]

LEMMA AdmittedFinite ==
  \A r : IsFiniteSet(Admitted(r)) /\ Cardinality(Admitted(r)) \in Nat
<1> SUFFICES ASSUME NEW r PROVE IsFiniteSet(Admitted(r)) /\ Cardinality(Admitted(r)) \in Nat
  OBVIOUS
<1>1. Admitted(r) \subseteq Calls
  BY DEF Admitted
<1> QED
  BY <1>1, FS_Subset, FS_CardinalityType

LEMMA FewerAdmitted ==
  ASSUME NEW r, Admitted(r)' \subseteq Admitted(r)
  PROVE  Cardinality(Admitted(r)') \in Nat /\ Cardinality(Admitted(r)') <= Cardinality(Admitted(r))
  BY AdmittedFinite, FS_Subset, FS_CardinalityType

LEMMA OneFewerAdmitted ==
  ASSUME NEW r, NEW c \in Admitted(r), Admitted(r)' \subseteq Admitted(r) \ {c}
  PROVE  Cardinality(Admitted(r)') \in Nat /\ Cardinality(Admitted(r)') + 1 <= Cardinality(Admitted(r))
<1>1. IsFiniteSet(Admitted(r) \ {c}) /\ Cardinality(Admitted(r) \ {c}) = Cardinality(Admitted(r)) - 1
  BY AdmittedFinite, FS_RemoveElement
<1>2. Cardinality(Admitted(r)') \in Nat /\ Cardinality(Admitted(r)') <= Cardinality(Admitted(r) \ {c})
  BY <1>1, FS_Subset, FS_CardinalityType
<1> QED
  BY <1>1, <1>2, AdmittedFinite

LEMMA OneMoreAdmitted ==
  ASSUME NEW r, NEW c, Admitted(r)' \subseteq Admitted(r) \cup {c}
  PROVE  Cardinality(Admitted(r)') \in Nat /\ Cardinality(Admitted(r)') <= Cardinality(Admitted(r)) + 1
<1>1. IsFiniteSet(Admitted(r) \cup {c}) /\ Cardinality(Admitted(r) \cup {c}) <= Cardinality(Admitted(r)) + 1
  BY AdmittedFinite, FS_AddElement
<1>2. /\ Cardinality(Admitted(r)') \in Nat /\ Cardinality(Admitted(r) \cup {c}) \in Nat
      /\ Cardinality(Admitted(r)') <= Cardinality(Admitted(r) \cup {c})
  BY <1>1, FS_Subset, FS_CardinalityType
<1> QED
  BY <1>1, <1>2, AdmittedFinite

LEMMA UseInitially == GatedInit => UseInv
<1> SUFFICES ASSUME GatedInit PROVE UseInv
  OBVIOUS
<1>1. \A r \in Records : Admitted(r) = {}
  BY DEF GatedInit, Admitted
<1>2. CallsTyped
  BY DEF GatedInit, CallsTyped
<1>3. DOMAIN reviewed = Records /\ writes \in [Records -> Nat] /\ uses \in [Records -> Nat]
  BY DEF GatedInit
<1> QED
  <2> SUFFICES ASSUME NEW r \in Records
               PROVE  uses[r] + Cardinality(Admitted(r)) + (IF reviewed[r].open THEN 1 ELSE 0) <= writes[r]
    BY <1>2, <1>3 DEF UseInv
  <2>1. Cardinality(Admitted(r)) = 0
    BY <1>1, FS_EmptySet
  <2>2. uses[r] = 0 /\ writes[r] = IF reviewed[r].open THEN 1 ELSE 0
    BY DEF GatedInit
  <2> QED
    BY <2>1, <2>2

(******************************* Kinds of steps *****************************)

\* Nothing is approved, used up or used, and nobody is admitted by a record.
LEMMA QuietKeeps ==
  ASSUME UseInv, CallsTyped', UNCHANGED <<reviewed, writes, uses>>,
         \A r \in Records : Admitted(r)' \subseteq Admitted(r)
  PROVE  UseInv'
<1> SUFFICES ASSUME NEW r \in Records
             PROVE  uses[r] + Cardinality(Admitted(r)') + (IF reviewed[r].open THEN 1 ELSE 0) <= writes[r]
  BY DEF UseInv
<1>1. Cardinality(Admitted(r)') \in Nat /\ Cardinality(Admitted(r)') <= Cardinality(Admitted(r))
  BY FewerAdmitted
<1>2. uses[r] \in Nat /\ writes[r] \in Nat /\ Cardinality(Admitted(r)) \in Nat
  BY AdmittedFinite DEF UseInv
<1> QED
  BY <1>1, <1>2 DEF UseInv

\* A call that is not admitted afterwards.
LEMMA LeavesAdmitted ==
  ASSUME NEW c \in Calls, OnlyCall(c), calls'[c].at # "admitted", NEW r
  PROVE  Admitted(r)' \subseteq Admitted(r) \ {c}
  BY DEF OnlyCall, Admitted

\* An admitted call executes.
LEMMA UseKeeps ==
  ASSUME UseInv, CallsTyped', NEW c \in Calls, OnlyCall(c), UNCHANGED <<reviewed, writes>>,
         calls[c].at = "admitted", calls'[c].at # "admitted", Used(c)
  PROVE  UseInv'
<1>1. uses' \in [Records -> Nat]
  BY DEF Used, UseInv
<1> SUFFICES ASSUME NEW r \in Records
             PROVE  uses'[r] + Cardinality(Admitted(r)') + (IF reviewed[r].open THEN 1 ELSE 0) <= writes[r]
  BY <1>1 DEF UseInv
<1>2. uses[r] \in Nat /\ writes[r] \in Nat /\ Cardinality(Admitted(r)) \in Nat
  BY AdmittedFinite DEF UseInv
<1>3. Admitted(r)' \subseteq Admitted(r) \ {c}
  BY LeavesAdmitted
<1>4. CASE calls[c].record = r
  <2>1. c \in Admitted(r) /\ uses'[r] = uses[r] + 1
    BY <1>4 DEF Admitted, Used
  <2>2. Cardinality(Admitted(r)') \in Nat /\ Cardinality(Admitted(r)') + 1 <= Cardinality(Admitted(r))
    BY <1>3, <2>1, OneFewerAdmitted
  <2> QED
    BY <1>2, <2>1, <2>2 DEF UseInv
<1>5. CASE calls[c].record # r
  <2>1. uses'[r] = uses[r]
    BY <1>5 DEF Used
  <2>2. Cardinality(Admitted(r)') \in Nat /\ Cardinality(Admitted(r)') <= Cardinality(Admitted(r))
    BY <1>3, FewerAdmitted
  <2> QED
    BY <1>2, <2>1, <2>2 DEF UseInv
<1> QED
  BY <1>4, <1>5

LEMMA StageTyped ==
  ASSUME CallsTyped, NEW c \in Calls, NEW s, Stage(c, s), calls[c].at \notin {"new", "over"}
  PROVE  /\ CallsTyped' /\ OnlyCall(c)
         /\ calls'[c].at = s /\ calls'[c].record = calls[c].record
  BY DEF CallsTyped, Stage, OnlyCall

LEMMA OverTyped ==
  ASSUME CallsTyped, NEW c \in Calls, Over(c)
  PROVE  CallsTyped' /\ OnlyCall(c) /\ calls'[c].at = "over"
  BY DEF CallsTyped, Over, OnlyCall

LEMMA ConsumeKeeps == ASSUME UseInv, NEW c \in Calls, Consume(c) PROVE UseInv'
<1> DEFINE p == calls[c].record
<1>1. /\ calls[c].at = "unused" /\ reviewed[p].open /\ Stage(c, "admitted") /\ UNCHANGED <<writes, uses>>
      /\ reviewed' = [reviewed EXCEPT ![p] = [open |-> FALSE, consumed |-> TRUE]]
  BY DEF Consume, At, outcomeVars
<1>2. CallsTyped' /\ OnlyCall(c) /\ calls'[c].record = p
  BY <1>1, StageTyped DEF UseInv
<1>3. DOMAIN reviewed' = Records
  BY <1>1 DEF UseInv
<1> SUFFICES ASSUME NEW r \in Records
             PROVE  uses[r] + Cardinality(Admitted(r)') + (IF reviewed'[r].open THEN 1 ELSE 0) <= writes[r]
  BY <1>1, <1>2, <1>3 DEF UseInv
<1>4. uses[r] \in Nat /\ writes[r] \in Nat /\ Cardinality(Admitted(r)) \in Nat
  BY AdmittedFinite DEF UseInv
<1>5. CASE r = p
  <2>1. Admitted(r)' \subseteq Admitted(r) \cup {c}
    BY <1>2 DEF OnlyCall, Admitted
  <2>2. Cardinality(Admitted(r)') \in Nat /\ Cardinality(Admitted(r)') <= Cardinality(Admitted(r)) + 1
    BY <2>1, OneMoreAdmitted
  <2>3. ~reviewed'[r].open
    BY <1>1, <1>5 DEF UseInv
  <2> QED
    BY <1>1, <1>4, <1>5, <2>2, <2>3 DEF UseInv
<1>6. CASE r # p
  <2>1. Admitted(r)' \subseteq Admitted(r)
    BY <1>2, <1>6 DEF OnlyCall, Admitted
  <2>2. Cardinality(Admitted(r)') \in Nat /\ Cardinality(Admitted(r)') <= Cardinality(Admitted(r))
    BY <2>1, FewerAdmitted
  <2>3. reviewed'[r] = reviewed[r]
    BY <1>1, <1>6 DEF UseInv
  <2> QED
    BY <1>4, <2>2, <2>3 DEF UseInv
<1> QED
  BY <1>5, <1>6

LEMMA WriteKeeps == ASSUME UseInv, NEW c \in Calls, WriteRecord(c) PROVE UseInv'
<1> DEFINE p == calls[c].record
<1>1. /\ Over(c) /\ UNCHANGED uses /\ writes' = [writes EXCEPT ![p] = writes[p] + 1]
      /\ \E x : reviewed' = [reviewed EXCEPT ![p] = x]
  BY DEF WriteRecord
<1>2. CallsTyped' /\ OnlyCall(c) /\ calls'[c].at # "admitted"
  BY <1>1, OverTyped DEF UseInv
<1>3. DOMAIN reviewed' = Records /\ writes' \in [Records -> Nat]
  <2>1. \A r \in Records : writes[r] + 1 \in Nat
    BY DEF UseInv
  <2>2. writes' \in [Records -> Nat]
    BY <1>1, <2>1 DEF UseInv
  <2> QED
    BY <1>1, <2>2 DEF UseInv
<1> SUFFICES ASSUME NEW r \in Records
             PROVE  uses[r] + Cardinality(Admitted(r)') + (IF reviewed'[r].open THEN 1 ELSE 0) <= writes'[r]
  BY <1>1, <1>2, <1>3 DEF UseInv
<1>4. uses[r] \in Nat /\ writes[r] \in Nat /\ Cardinality(Admitted(r)) \in Nat
  BY AdmittedFinite DEF UseInv
<1>5. Cardinality(Admitted(r)') \in Nat /\ Cardinality(Admitted(r)') <= Cardinality(Admitted(r))
  BY <1>2, LeavesAdmitted, FewerAdmitted
<1>6. CASE r = p
  <2>1. writes'[r] = writes[r] + 1
    BY <1>1, <1>6 DEF UseInv
  <2>2. uses[r] + Cardinality(Admitted(r)) <= writes[r]
    BY <1>4 DEF UseInv
  <2> QED
    BY <1>4, <1>5, <2>1, <2>2
<1>7. CASE r # p
  <2>1. reviewed'[r] = reviewed[r] /\ writes'[r] = writes[r]
    BY <1>1, <1>7 DEF UseInv
  <2> QED
    BY <1>4, <1>5, <2>1 DEF UseInv
<1> QED
  BY <1>6, <1>7

\* The steps that lead to an admission or away from one, but use nothing.
LEMMA OthersQuiet ==
  ASSUME UseInv, NEW c \in Calls,
         \/ \E cmd \in Command, id \in ConductorIds : BuildPlan(c, cmd, id)
         \/ \E r \in Records : NewRecord(c, r) \/ ApproveByRecord(c, r)
         \/ Confirm(c) \/ TakeLease(c) \/ Rebuild(c) \/ LookForConsumed(c)
         \/ \E s \in {"reviewing", "ready", "stopped"} : EndAttempt(c, s)
         \/ LookAround(c) \/ HealRefused(c) \/ KeepLease(c) \/ GiveUp(c)
  PROVE  UseInv'
<1>0. CallsTyped
  BY DEF UseInv
<1>1. ASSUME CallsTyped', OnlyCall(c), calls'[c].at # "admitted", UNCHANGED <<reviewed, writes, uses>>
      PROVE  UseInv'
  <2>1. \A r \in Records : Admitted(r)' \subseteq Admitted(r)
    BY <1>1, LeavesAdmitted
  <2> QED
    BY <1>1, <2>1, QuietKeeps
<1>2. ASSUME NEW s, Stage(c, s), s # "admitted", calls[c].at \notin {"new", "over"},
             UNCHANGED <<reviewed, writes, uses>>
      PROVE  UseInv'
  BY <1>0, <1>1, <1>2, StageTyped
<1>3. ASSUME Over(c), UNCHANGED <<reviewed, writes, uses>> PROVE UseInv'
  BY <1>0, <1>1, <1>3, OverTyped
<1>4. ASSUME NEW cmd, NEW id, BuildPlan(c, cmd, id) PROVE UseInv'
  <2>1. PICK p : calls' = [calls EXCEPT ![c] = [at |-> "planned", id |-> id, plan |-> p, record |-> NoRecord]]
    BY <1>4 DEF BuildPlan
  <2> QED
    BY <1>0, <1>1, <1>4, <2>1 DEF BuildPlan, CallsTyped, OnlyCall, outcomeVars
<1>5. ASSUME NEW r \in Records, NewRecord(c, r) \/ ApproveByRecord(c, r) PROVE UseInv'
  <2>1. PICK s \in {"writing", "approved"} : calls' = [calls EXCEPT ![c].at = s, ![c].record = r]
    BY <1>5 DEF NewRecord, ApproveByRecord
  <2>2. calls[c].at = "planned" /\ UNCHANGED <<reviewed, writes, uses>>
    BY <1>5 DEF NewRecord, ApproveByRecord, At, outcomeVars
  <2>3. CallsTyped' /\ OnlyCall(c) /\ calls'[c].at = s
    BY <1>0, <2>1, <2>2 DEF CallsTyped, OnlyCall
  <2> QED
    BY <1>1, <2>2, <2>3
<1>6. CASE Confirm(c) \/ TakeLease(c) \/ LookForConsumed(c) \/ HealRefused(c)
  BY <1>2, <1>6 DEF Confirm, TakeLease, LookForConsumed, HealRefused, Healing, At, outcomeVars
<1>7. CASE \E s \in {"reviewing", "ready", "stopped"} : EndAttempt(c, s)
  BY <1>2, <1>3, <1>7 DEF EndAttempt, Continue, At, outcomeVars
<1>8. CASE GiveUp(c)
  BY <1>3, <1>8 DEF GiveUp, outcomeVars
<1>9. CASE LookAround(c)
  <2>1. PICK remedy \in Remedies :
          calls' = [calls EXCEPT ![c].at = "looked", ![c].plan.unit = unit,
                                 ![c].plan.target = remedy[1], ![c].plan.grant = remedy[2]]
    BY <1>9 DEF LookAround
  <2>2. calls[c].at = "driving" /\ UNCHANGED <<reviewed, writes, uses>>
    BY <1>9 DEF LookAround, At, outcomeVars
  <2>3. CallsTyped' /\ OnlyCall(c) /\ calls'[c].at = "looked"
    BY <1>0, <2>1, <2>2 DEF CallsTyped, OnlyCall
  <2> QED
    BY <1>1, <2>2, <2>3
<1>10. CASE KeepLease(c)
  BY <1>0, <1>10, QuietKeeps DEF KeepLease, outcomeVars, CallsTyped, Admitted
<1>11. CASE Rebuild(c)
  <2>1. CASE calls[c].record # NoRecord
    BY <1>2, <1>11, <2>1 DEF Rebuild, At, outcomeVars
  <2>2. CASE calls[c].record = NoRecord
    <3>1. CallsTyped' /\ OnlyCall(c) /\ calls'[c].record = NoRecord /\ UNCHANGED <<reviewed, writes, uses>>
      BY <1>0, <1>11, <2>2, StageTyped DEF Rebuild, At, outcomeVars
    <3>2. \A r \in Records : Admitted(r)' \subseteq Admitted(r)
      BY <3>1 DEF OnlyCall, Admitted
    <3> QED
      BY <3>1, <3>2, QuietKeeps
  <2> QED
    BY <2>1, <2>2
<1> QED
  BY <1>4, <1>5, <1>6, <1>7, <1>8, <1>9, <1>10, <1>11

\* The steps that execute, or go on with an execution.
LEMMA ExecutionsKeep ==
  ASSUME UseInv, NEW c \in Calls,
         \/ Grant(c) \/ Restart(c) \/ Dispatch(c)
         \/ \E s \in {"closed", "ready", "stopped"}, b \in BOOLEAN : TeamReview(c, s, b)
         \/ Cleanup(c) \/ BeginDrive(c)
  PROVE  UseInv'
<1> DEFINE Uses == \/ calls[c].at = "admitted" /\ Used(c)
                   \/ calls[c].at \in {"granted", "looked"} /\ UNCHANGED uses
           Moves == Over(c) \/ \E s \in {"granted", "driving", "running"} : Stage(c, s)
<1>0. ASSUME Continue(c) PROVE Moves
  BY <1>0 DEF Continue
<1>1. UNCHANGED <<reviewed, writes>> /\ Uses /\ Moves
  <2>1. CASE Grant(c)
    BY <2>1, Zenon DEF Grant, Healing, At
  <2>2. CASE Restart(c)
    BY <1>0, <2>2, Zenon DEF Restart, Healing, At
  <2>3. CASE Dispatch(c)
    BY <2>3, Zenon DEF Dispatch, ActsOn, At
  <2>4. CASE \E s \in {"closed", "ready", "stopped"}, b \in BOOLEAN : TeamReview(c, s, b)
    BY <1>0, <2>4, Zenon DEF TeamReview, ActsOn, At
  <2>5. CASE Cleanup(c) \/ BeginDrive(c)
    BY <2>5, Zenon DEF Cleanup, BeginDrive, At
  <2> QED
    BY <2>1, <2>2, <2>3, <2>4, <2>5
<1>2. CallsTyped' /\ OnlyCall(c) /\ calls'[c].at # "admitted"
  <2>1. CallsTyped /\ calls[c].at \in {"admitted", "granted", "looked"}
    BY <1>1 DEF UseInv
  <2> QED
    BY <1>1, <2>1, StageTyped, OverTyped
<1>3. CASE calls[c].at = "admitted" /\ Used(c)
  BY <1>1, <1>2, <1>3, UseKeeps
<1>4. CASE UNCHANGED uses
  <2>1. \A r \in Records : Admitted(r)' \subseteq Admitted(r)
    BY <1>2, LeavesAdmitted
  <2> QED
    BY <1>1, <1>2, <1>4, <2>1, QuietKeeps
<1> QED
  BY <1>1, <1>3, <1>4

LEMMA UseInductive == UseInv /\ [GatedNext]_gatedVars => UseInv'
<1> SUFFICES ASSUME UseInv, [GatedNext]_gatedVars PROVE UseInv'
  OBVIOUS
<1>1. ASSUME UNCHANGED <<calls, reviewed, writes, uses>> PROVE UseInv'
  BY <1>1, QuietKeeps DEF UseInv, CallsTyped, Admitted
<1>2. CASE LeaseRunsOut \/ Recovered
  BY <1>1, <1>2 DEF LeaseRunsOut, Recovered, outcomeVars
<1>3. ASSUME NEW c \in Calls, Execute(c) PROVE UseInv'
  BY <1>3, OthersQuiet, ExecutionsKeep DEF Execute
<1>4. ASSUME NEW c \in Calls, WriteRecord(c) \/ Consume(c) PROVE UseInv'
  BY <1>4, WriteKeeps, ConsumeKeeps
<1>5. CASE UNCHANGED gatedVars
  BY <1>1, <1>5 DEF gatedVars
<1> QED
  BY <1>2, <1>3, <1>4, <1>5, OthersQuiet DEF GatedNext

\* A review record is good for one execution each time it is approved, however
\* many calls compete for it and wherever they die.
THEOREM OneUsePerApproval == GatedSpec => []RecordsUsedOnce
<1>1. UseInv => RecordsUsedOnce
  <2> SUFFICES ASSUME UseInv, NEW r \in Records PROVE uses[r] <= writes[r]
    BY DEF RecordsUsedOnce
  <2>1. uses[r] \in Nat /\ writes[r] \in Nat /\ Cardinality(Admitted(r)) \in Nat
    BY AdmittedFinite DEF UseInv
  <2> QED
    BY <2>1 DEF UseInv
<1> QED
  BY <1>1, UseInitially, UseInductive, PTL DEF GatedSpec

(************************** What was granted *******************************)

\* Between its lease and its end, with a command that takes one.
Keeps(k) == k.at \in Leased /\ k.plan.cmd.op # "cleanup"

\* Only calls with a lease move a unit, and of the commands only resume grants.
Planned(k) ==
  k.at \notin {"new", "over"} =>
    IF k.at \in {"granted", "running", "driving", "looked"} THEN k.plan.cmd.op # "cleanup"
    ELSE k.plan.grant > 0 => k.plan.cmd.op = "resume"

\* The total a call is about to write is `granted` and what the call adds.
Current(k, granted) ==
  k.plan.grant > 0 =>
    /\ k.at \in {"stable", "unused", "admitted"} =>
         k.plan.grant = granted + k.plan.cmd.extra
    /\ k.at = "looked" /\ k.plan.unit.state = "stopped" => k.plan.grant = granted + 1

\* Conductor ids tell the calls apart that keep a lease.
IdsDiffer ==
  \A c, d \in Calls : c # d /\ Keeps(calls[c]) /\ Keeps(calls[d]) => calls[c].id # calls[d].id

\* Whoever has the lease would write the unit's present total and its addition.
TotalsCurrent ==
  \A c \in Calls : Keeps(calls[c]) /\ HoldsLease(c) => Current(calls[c], unit.granted)

GrantInv ==
  /\ GatedTypeOK
  /\ \A c \in Calls : Planned(calls[c])
  /\ ~unguarded => IdsDiffer /\ TotalsCurrent /\ unit.granted = given

LEMMA CommandTyped ==
  ASSUME NEW cmd \in Command
  PROVE  /\ cmd.extra \in Nat
         /\ cmd.op \in {"dispatch", "team-review", "resume", "drive", "cleanup"}
<1>1. CASE cmd \in [op : {"dispatch", "team-review", "resume", "drive", "cleanup"}, extra : {0}]
  <2>1. cmd.extra = 0
    BY <1>1
  <2> QED
    BY <1>1, <2>1
<1>2. CASE cmd \in [op : {"resume"}, extra : Extras]
  <2>1. cmd.extra \in Extras
    BY <1>2
  <2>2. cmd.extra \in Nat
    BY <2>1
  <2> QED
    BY <1>2, <2>2
<1> QED
  BY <1>1, <1>2 DEF Command

\* A plan is one of the command and the unit as it is (plan_resume adds up).
LEMMA PlansTyped ==
  ASSUME unit \in UnitNow, NEW cmd \in Command, NEW p \in Plans(cmd)
  PROVE  /\ p \in PlanDoc /\ p.cmd = cmd
         /\ p.grant > 0 => cmd.op = "resume" /\ p.grant = unit.granted + cmd.extra
<1> DEFINE doc == [cmd |-> cmd, unit |-> unit, target |-> "none", grant |-> 0]
<1>1. /\ unit.granted \in 0..MaxGranted /\ cmd.extra \in Nat /\ 0 \in 0..MaxGranted
      /\ cmd.op \in {"dispatch", "team-review", "resume", "drive", "cleanup"}
  BY CommandTyped DEF UnitNow
<1>2. doc \in PlanDoc /\ doc.cmd = cmd /\ doc.grant = 0
  BY <1>1 DEF PlanDoc
<1>3. CASE cmd.op = "resume"
  <2>1. p \in ResumePlans(cmd) /\ p.grant <= MaxGranted
    BY <1>3 DEF Plans
  <2>2. \E target \in {"none", "ready", "reviewing"}, grant \in {0, unit.granted + cmd.extra} :
          p = [cmd |-> cmd, unit |-> unit, target |-> target, grant |-> grant]
    BY <2>1 DEF ResumePlans
  <2>3. PICK target \in {"none", "ready", "reviewing"}, grant \in {0, unit.granted + cmd.extra} :
          p = [cmd |-> cmd, unit |-> unit, target |-> target, grant |-> grant]
    BY <2>2
  <2>4. grant \in 0..MaxGranted
    BY <1>1, <2>1, <2>3
  <2> QED
    BY <1>3, <2>3, <2>4 DEF PlanDoc
<1>4. CASE cmd.op = "drive"
  <2>1. p = [doc EXCEPT !.unit = UnitStates]
    BY <1>4 DEF Plans
  <2>2. UnitStates \in UnitNow
    BY DEF UnitStates, UnitNow
  <2> QED
    BY <1>2, <2>1, <2>2 DEF PlanDoc
<1>5. CASE cmd.op \in {"dispatch", "team-review", "cleanup"}
  <2>1. p = doc
    BY <1>5 DEF Plans
  <2> QED
    BY <1>2, <2>1
<1> QED
  BY <1>1, <1>3, <1>4, <1>5

\* A step of one call keeps the invariant, if the call is entitled to it.
LEMMA CallKeeps ==
  ASSUME GrantInv, NEW c \in Calls, NEW k \in CallRecord, calls' = [calls EXCEPT ![c] = k],
         unit' \in UnitNow, leaseHolder' \in ConductorIds \cup {NoConductor},
         reviewed' \in [Records -> ReviewFile], given' \in Nat,
         writes' \in [Records -> Nat], uses' \in [Records -> Nat],
         unguarded' \in BOOLEAN, unguarded => unguarded', Planned(k),
         ~unguarded' =>
           /\ unit'.granted = given'
           /\ \A d \in Calls \ {c} : Keeps(calls[d]) =>
                /\ Keeps(k) => calls[d].id # k.id
                /\ leaseHolder' = calls[d].id =>
                     leaseHolder = calls[d].id /\ unit'.granted = unit.granted
           /\ Keeps(k) /\ leaseHolder' = k.id => Current(k, unit'.granted)
  PROVE  GrantInv'
<1> USE DEF GrantInv
<1>1. calls' \in [Calls -> CallRecord] /\ calls'[c] = k
      /\ \A d \in Calls \ {c} : calls'[d] = calls[d]
  BY DEF GatedTypeOK
<1>2. GatedTypeOK'
  BY <1>1 DEF GatedTypeOK
<1>3. \A d \in Calls : Planned(calls'[d])
  BY <1>1
<1>4. ASSUME ~unguarded' PROVE IdsDiffer' /\ TotalsCurrent' /\ unit'.granted = given'
  <2>1. ~unguarded /\ IdsDiffer /\ TotalsCurrent
    BY <1>4 DEF GatedTypeOK
  <2>2. IdsDiffer'
    BY <1>1, <1>4, <2>1 DEF IdsDiffer
  <2>3. ASSUME NEW d \in Calls, Keeps(calls'[d]), leaseHolder' = calls'[d].id
        PROVE  Current(calls'[d], unit'.granted)
    <3>1. CASE d = c
      BY <1>1, <1>4, <2>3, <3>1
    <3>2. CASE d # c
      <4>1. calls'[d] = calls[d] /\ leaseHolder = calls[d].id /\ unit'.granted = unit.granted
        BY <1>1, <1>4, <2>3, <3>2
      <4>2. Current(calls[d], unit.granted)
        BY <2>1, <2>3, <4>1 DEF TotalsCurrent, HoldsLease
      <4> QED
        BY <4>1, <4>2
    <3> QED
      BY <3>1, <3>2
  <2>4. TotalsCurrent'
    BY <2>3 DEF TotalsCurrent, HoldsLease
  <2> QED
    BY <1>4, <2>2, <2>4
<1> QED
  BY <1>2, <1>3, <1>4

\* Only the call moves on: not to a lease, and to no other total.
LEMMA QuietCallKeeps ==
  ASSUME GrantInv, NEW c \in Calls, NEW k \in CallRecord, calls' = [calls EXCEPT ![c] = k],
         unit' \in UnitNow, unit'.granted = unit.granted,
         reviewed' \in [Records -> ReviewFile],
         writes' \in [Records -> Nat], uses' \in [Records -> Nat],
         UNCHANGED <<leaseHolder, given, unguarded>>, Planned(k),
         Keeps(k) => Keeps(calls[c]) /\ k.id = calls[c].id,
         ~unguarded /\ Keeps(k) /\ leaseHolder = k.id => Current(k, unit.granted)
  PROVE  GrantInv'
<1>1. GatedTypeOK /\ (~unguarded => IdsDiffer /\ unit.granted = given)
  BY DEF GrantInv
<1>2. /\ leaseHolder' \in ConductorIds \cup {NoConductor} /\ given' \in Nat
      /\ unguarded' \in BOOLEAN /\ (unguarded => unguarded')
  BY <1>1 DEF GatedTypeOK
<1>3. ASSUME ~unguarded'
      PROVE  /\ unit'.granted = given'
             /\ \A d \in Calls \ {c} : Keeps(calls[d]) =>
                  /\ Keeps(k) => calls[d].id # k.id
                  /\ leaseHolder' = calls[d].id =>
                       leaseHolder = calls[d].id /\ unit'.granted = unit.granted
             /\ Keeps(k) /\ leaseHolder' = k.id => Current(k, unit'.granted)
  BY <1>1, <1>3 DEF IdsDiffer
<1> QED
  BY <1>2, <1>3, CallKeeps

\* Where a call goes on to.
LEMMA StageRecord ==
  ASSUME GatedTypeOK, NEW c \in Calls, calls[c].at \notin {"new", "over"},
         NEW s \in {"planned", "approved", "writing"} \cup Leased, Stage(c, s)
  PROVE  \E k \in Working :
           /\ calls' = [calls EXCEPT ![c] = k] /\ k.at = s
           /\ k.id = calls[c].id /\ k.plan = calls[c].plan /\ k.record = calls[c].record
<1> DEFINE k == [calls[c] EXCEPT !.at = s]
<1>1. calls[c] \in Working
  BY DEF GatedTypeOK, CallRecord
<1>2. k \in Working /\ k.at = s
      /\ k.id = calls[c].id /\ k.plan = calls[c].plan /\ k.record = calls[c].record
  BY <1>1 DEF Working
<1>3. calls' = [calls EXCEPT ![c] = k]
  BY Zenon DEF Stage
<1> QED
  BY <1>2, <1>3

LEMMA OverRecord ==
  /\ [at |-> "over"] \in CallRecord /\ Planned([at |-> "over"]) /\ ~Keeps([at |-> "over"])
  /\ Working \subseteq CallRecord
BY DEF CallRecord, Planned, Keeps, Leased

\* A call that ends, having moved the unit or written a file, or not.
LEMMA OverKeeps ==
  ASSUME GrantInv, NEW c \in Calls, Over(c),
         unit' \in UnitNow, unit'.granted = unit.granted,
         reviewed' \in [Records -> ReviewFile],
         writes' \in [Records -> Nat], uses' \in [Records -> Nat],
         UNCHANGED <<leaseHolder, given, unguarded>>
  PROVE  GrantInv'
BY OverRecord, QuietCallKeeps DEF Over

\* A call that goes on to where no total matters, or none but its own.
LEMMA StageKeeps ==
  ASSUME GrantInv, NEW c \in Calls, calls[c].at \notin {"new", "over"},
         NEW s \in {"planned", "approved", "writing"} \cup Leased, Stage(c, s),
         unit' \in UnitNow, unit'.granted = unit.granted,
         reviewed' \in [Records -> ReviewFile],
         writes' \in [Records -> Nat], uses' \in [Records -> Nat],
         UNCHANGED <<leaseHolder, given, unguarded>>,
         s \in Leased => calls[c].at \in Leased \/ calls[c].plan.cmd.op = "cleanup",
         s \in {"granted", "running", "driving", "looked"} => calls[c].plan.cmd.op # "cleanup",
         s \notin {"granted", "running", "driving", "looked"} =>
           calls[c].at \notin {"granted", "running", "driving", "looked"},
         s # "looked",
         s \in {"stable", "unused", "admitted"} =>
           \/ calls[c].at \in {"stable", "unused", "admitted"}
           \/ calls[c].plan.grant > 0 =>
                calls[c].plan.grant = unit.granted + calls[c].plan.cmd.extra
  PROVE  GrantInv'
<1>1. GatedTypeOK /\ Planned(calls[c]) /\ (~unguarded => TotalsCurrent)
  BY DEF GrantInv
<1>2. PICK k \in Working :
        /\ calls' = [calls EXCEPT ![c] = k] /\ k.at = s
        /\ k.id = calls[c].id /\ k.plan = calls[c].plan /\ k.record = calls[c].record
  BY <1>1, StageRecord
<1>3. Planned(k)
  BY <1>1, <1>2 DEF Planned
<1>4. Keeps(k) => Keeps(calls[c]) /\ k.id = calls[c].id
  BY <1>2 DEF Keeps
<1>5. ASSUME ~unguarded, Keeps(k), leaseHolder = k.id PROVE Current(k, unit.granted)
  <2>1. Current(calls[c], unit.granted)
    BY <1>1, <1>2, <1>4, <1>5 DEF TotalsCurrent, HoldsLease
  <2> QED
    BY <1>2, <2>1 DEF Current
<1> QED
  BY <1>2, <1>3, <1>4, <1>5, OverRecord, QuietCallKeeps

(***************************** The actions *********************************)

LEMMA AtWork ==
  ASSUME GatedTypeOK, NEW c \in Calls, calls[c].at \notin {"new", "over"}
  PROVE  /\ calls[c] \in Working
         /\ calls[c].plan \in PlanDoc /\ calls[c].plan.cmd \in Command
         /\ calls[c].plan.grant \in 0..MaxGranted /\ calls[c].plan.cmd.extra \in Nat
         /\ calls[c].plan.target \in {"none", "ready", "reviewing"}
         /\ calls[c].id \in ConductorIds /\ calls[c].record \in Records \cup {NoRecord}
<1>1. calls[c] \in Working
  BY DEF GatedTypeOK, CallRecord
<1>2. /\ calls[c].plan \in PlanDoc
      /\ calls[c].id \in ConductorIds /\ calls[c].record \in Records \cup {NoRecord}
  BY <1>1 DEF Working
<1>3. /\ calls[c].plan.cmd \in Command /\ calls[c].plan.grant \in 0..MaxGranted
      /\ calls[c].plan.target \in {"none", "ready", "reviewing"}
  BY <1>2 DEF PlanDoc
<1>4. calls[c].plan.cmd.extra \in Nat
  BY <1>3, CommandTyped
<1> QED
  BY <1>1, <1>2, <1>3, <1>4

LEMMA UsedTyped == ASSUME GatedTypeOK, NEW c \in Calls, Used(c) PROVE uses' \in [Records -> Nat]
BY DEF GatedTypeOK, Used

LEMMA BuildPlanKeeps ==
  ASSUME GrantInv, NEW c \in Calls, NEW cmd \in Command, NEW id \in ConductorIds,
         BuildPlan(c, cmd, id)
  PROVE  GrantInv'
<1>1. GatedTypeOK
  BY DEF GrantInv
<1>2. PICK p \in Plans(cmd) :
        calls' = [calls EXCEPT ![c] = [at |-> "planned", id |-> id, plan |-> p, record |-> NoRecord]]
  BY DEF BuildPlan
<1>3. PICK k : k = [at |-> "planned", id |-> id, plan |-> p, record |-> NoRecord]
  OBVIOUS
<1>4. p \in PlanDoc /\ p.cmd = cmd /\ (p.grant > 0 => cmd.op = "resume")
  BY <1>1, PlansTyped DEF GatedTypeOK
<1>5. k \in CallRecord /\ Planned(k) /\ ~Keeps(k)
  BY <1>3, <1>4 DEF CallRecord, Working, Planned, Keeps, Leased
<1>6. UNCHANGED <<unit, leaseHolder, reviewed, given, writes, uses, unguarded>>
  BY DEF BuildPlan, outcomeVars
<1> QED
  BY <1>1, <1>2, <1>3, <1>5, <1>6, QuietCallKeeps DEF GatedTypeOK

LEMMA ApprovalKeeps ==
  ASSUME GrantInv, NEW c \in Calls, NEW r \in Records, NewRecord(c, r) \/ ApproveByRecord(c, r)
  PROVE  GrantInv'
<1>1. GatedTypeOK /\ Planned(calls[c])
  BY DEF GrantInv
<1>2. calls[c].at = "planned"
      /\ UNCHANGED <<unit, leaseHolder, reviewed, given, writes, uses, unguarded>>
  BY DEF NewRecord, ApproveByRecord, At, outcomeVars
<1>3. PICK s \in {"writing", "approved"} : calls' = [calls EXCEPT ![c].at = s, ![c].record = r]
  BY DEF NewRecord, ApproveByRecord
<1>4. PICK k : k = [calls[c] EXCEPT !.at = s, !.record = r]
  OBVIOUS
<1>5. calls[c] \in Working
  BY <1>1, <1>2, AtWork
<1>6. k \in Working /\ k.at = s /\ k.plan = calls[c].plan
  BY <1>4, <1>5 DEF Working
<1>7. k \in CallRecord /\ Planned(k) /\ ~Keeps(k)
  BY <1>1, <1>2, <1>6, OverRecord DEF Planned, Keeps, Leased
<1>8. calls' = [calls EXCEPT ![c] = k]
  BY <1>1, <1>3, <1>4 DEF GatedTypeOK
<1> QED
  BY <1>1, <1>2, <1>7, <1>8, QuietCallKeeps DEF GatedTypeOK

LEMMA WriteRecordKeeps == ASSUME GrantInv, NEW c \in Calls, WriteRecord(c) PROVE GrantInv'
<1> DEFINE r == calls[c].record
<1>1. GatedTypeOK
  BY DEF GrantInv
<1>2. /\ Over(c) /\ UNCHANGED <<unit, leaseHolder, given, uses, unguarded>>
      /\ calls[c].at = "writing"
      /\ writes' = [writes EXCEPT ![r] = @ + 1]
      /\ reviewed' = [reviewed EXCEPT ![r] =
           [open |-> TRUE, consumed |-> reviewed[r].consumed, plan |-> calls[c].plan]]
  BY DEF WriteRecord, At
<1>3. writes' \in [Records -> Nat]
  <2>1. \A i \in Records : writes[i] + 1 \in Nat
    BY <1>1 DEF GatedTypeOK
  <2> QED
    BY <1>1, <1>2, <2>1 DEF GatedTypeOK
<1>4. calls[c].plan \in PlanDoc
  BY <1>1, <1>2, AtWork
<1>5. reviewed' \in [Records -> ReviewFile]
  <2>1. ASSUME r \in Records PROVE reviewed[r].consumed \in BOOLEAN
    BY <1>1, <2>1 DEF GatedTypeOK, ReviewFile
  <2>2. ASSUME r \in Records
        PROVE  [open |-> TRUE, consumed |-> reviewed[r].consumed, plan |-> calls[c].plan] \in ReviewFile
    BY <1>4, <2>1, <2>2 DEF ReviewFile
  <2> QED
    BY <1>1, <1>2, <2>2 DEF GatedTypeOK
<1> QED
  BY <1>1, <1>2, <1>3, <1>5, OverKeeps DEF GatedTypeOK

LEMMA ConsumeKeepsTotals == ASSUME GrantInv, NEW c \in Calls, Consume(c) PROVE GrantInv'
<1>1. GatedTypeOK /\ Planned(calls[c])
  BY DEF GrantInv
<1>2. /\ Stage(c, "admitted") /\ UNCHANGED <<unit, leaseHolder, given, writes, uses, unguarded>>
      /\ calls[c].at = "unused"
      /\ reviewed' = [reviewed EXCEPT ![calls[c].record] = [open |-> FALSE, consumed |-> TRUE]]
  BY DEF Consume, At, outcomeVars
<1>3. reviewed' \in [Records -> ReviewFile]
  <2>1. [open |-> FALSE, consumed |-> TRUE] \in ReviewFile
    BY DEF ReviewFile
  <2> QED
    BY <1>1, <1>2, <2>1 DEF GatedTypeOK
<1> QED
  BY <1>1, <1>2, <1>3, StageKeeps DEF GatedTypeOK, Leased

\* The call goes on without touching anything else.
LEMMA PassesOn ==
  ASSUME GrantInv, NEW c \in Calls,
         Confirm(c) \/ LookForConsumed(c) \/ HealRefused(c) \/ Rebuild(c)
  PROVE  GrantInv'
<1>1. GatedTypeOK /\ Planned(calls[c])
  BY DEF GrantInv
<1>2. UNCHANGED <<unit, leaseHolder, reviewed, given, writes, uses, unguarded>>
  BY DEF Confirm, LookForConsumed, HealRefused, Rebuild, outcomeVars
<1>3. /\ unit \in UnitNow /\ reviewed \in [Records -> ReviewFile]
      /\ writes \in [Records -> Nat] /\ uses \in [Records -> Nat]
  BY <1>1 DEF GatedTypeOK
<1>4. CASE Confirm(c)
  <2>1. calls[c].at = "planned" /\ Stage(c, "approved")
    BY <1>4 DEF Confirm, At
  <2> QED
    BY <1>2, <1>3, <2>1, StageKeeps DEF Leased
<1>5. CASE LookForConsumed(c)
  <2>1. calls[c].at = "stable" /\ Stage(c, "unused")
    BY <1>5 DEF LookForConsumed, At
  <2> QED
    BY <1>2, <1>3, <2>1, StageKeeps DEF Leased
<1>6. CASE HealRefused(c)
  <2>1. calls[c].at \in {"looked", "granted"} /\ Stage(c, "driving")
    BY <1>6 DEF HealRefused, Healing, At
  <2>2. calls[c].plan.cmd.op # "cleanup"
    BY <1>1, <2>1 DEF Planned
  <2> QED
    BY <1>2, <1>3, <2>1, <2>2, StageKeeps DEF Leased
<1>7. CASE Rebuild(c)
  <2>1. /\ calls[c].at \in {"leased", "approved"}
        /\ calls[c].at = "approved" => calls[c].plan.cmd.op = "cleanup"
        /\ calls[c].plan \in Plans(calls[c].plan.cmd)
    BY <1>7 DEF Rebuild, At, TakesLease
  <2>2. PICK s \in {"admitted", "stable"} : Stage(c, s)
    BY <1>7 DEF Rebuild
  <2>3. calls[c].plan.cmd \in Command
    BY <1>1, <2>1, AtWork
  <2>4. calls[c].plan.grant > 0 => calls[c].plan.grant = unit.granted + calls[c].plan.cmd.extra
    BY <1>3, <2>1, <2>3, PlansTyped
  <2> QED
    BY <1>2, <1>3, <2>1, <2>2, <2>4, StageKeeps DEF Leased
<1> QED
  BY <1>4, <1>5, <1>6, <1>7

\* The lease is taken: another call of the same id makes it worthless.
LEMMA TakeLeaseKeeps == ASSUME GrantInv, NEW c \in Calls, TakeLease(c) PROVE GrantInv'
<1>1. GatedTypeOK /\ Planned(calls[c])
  BY DEF GrantInv
<1>2. /\ calls[c].at = "approved" /\ calls[c].plan.cmd.op # "cleanup"
      /\ leaseHolder \in {calls[c].id, NoConductor} /\ leaseHolder' = calls[c].id
      /\ Stage(c, "leased") /\ unguarded' = (unguarded \/ Shares(c))
      /\ UNCHANGED <<unit, reviewed, given, writes, uses>>
  BY DEF TakeLease, At, TakesLease, outcomeVars
<1>3. PICK k \in Working :
        /\ calls' = [calls EXCEPT ![c] = k] /\ k.at = "leased"
        /\ k.id = calls[c].id /\ k.plan = calls[c].plan /\ k.record = calls[c].record
  BY <1>1, <1>2, StageRecord DEF Leased
<1>4. k \in CallRecord /\ Planned(k) /\ Current(k, unit'.granted)
  BY <1>1, <1>2, <1>3, OverRecord DEF Planned, Current
<1>5. leaseHolder' \in ConductorIds \cup {NoConductor}
  BY <1>1, <1>2, AtWork
<1>6. /\ unit' \in UnitNow /\ reviewed' \in [Records -> ReviewFile] /\ given' \in Nat
      /\ writes' \in [Records -> Nat] /\ uses' \in [Records -> Nat]
  BY <1>1, <1>2 DEF GatedTypeOK
<1>7. unguarded' \in BOOLEAN /\ (unguarded => unguarded')
  BY <1>1, <1>2, Zenon DEF GatedTypeOK
<1>8. ASSUME ~unguarded'
      PROVE  /\ unit'.granted = given'
             /\ \A d \in Calls \ {c} : Keeps(calls[d]) => calls[d].id # k.id
  <2>1. ~unguarded /\ ~Shares(c)
    BY <1>2, <1>8, Zenon
  <2> QED
    BY <1>2, <1>3, <2>1 DEF Shares, Keeps, TakesLease, GrantInv
<1> QED
  BY <1>2, <1>3, <1>4, <1>5, <1>6, <1>7, <1>8, CallKeeps

\* A grant writes the total that was planned: it is current, or nothing kept the
\* call from others.
LEMMA GrantKeeps == ASSUME GrantInv, NEW c \in Calls, Grant(c) PROVE GrantInv'
<1> DEFINE g == calls[c].plan.grant
           x == calls[c].plan.cmd.extra
<1>1. GatedTypeOK /\ Planned(calls[c])
  BY DEF GrantInv
<1>2. /\ \/ calls[c].at = "admitted" /\ Used(c) /\ given' = given + x
         \/ /\ calls[c].at = "looked" /\ calls[c].plan.unit.state = "stopped"
            /\ UNCHANGED uses /\ given' = given + 1
      /\ g > 0 /\ leaseHolder = calls[c].id
      /\ unit' = [unit EXCEPT !.granted = g]
      /\ UNCHANGED <<leaseHolder, reviewed, writes, unguarded>>
  BY DEF Grant, Healing, At, HoldsLease
<1>3. calls[c] \in Working /\ g \in 0..MaxGranted /\ x \in Nat
  BY <1>1, <1>2, AtWork
<1>4. unit' \in UnitNow /\ unit'.granted = g
  BY <1>1, <1>2, <1>3 DEF GatedTypeOK, UnitNow
<1>5. given \in Nat /\ given' \in Nat
  <2>1. given \in Nat
    BY <1>1 DEF GatedTypeOK
  <2> QED
    BY <1>2, <1>3, <2>1
<1>6. uses' \in [Records -> Nat]
  BY <1>1, <1>2, UsedTyped DEF GatedTypeOK
<1>7. Keeps(calls[c]) /\ calls[c].plan.cmd.op # "cleanup"
  BY <1>1, <1>2 DEF Planned, Keeps, Leased
<1>8. \E k \in CallRecord :
        /\ calls' = [calls EXCEPT ![c] = k] /\ Planned(k)
        /\ Keeps(k) => k.id = calls[c].id
        /\ \A n : Current(k, n)
  <2>1. CASE Over(c)
    <3>1. PICK k : k = [at |-> "over"]
      OBVIOUS
    <3>2. calls' = [calls EXCEPT ![c] = k]
      BY <2>1, <3>1 DEF Over
    <3>3. k \in CallRecord /\ Planned(k) /\ ~Keeps(k) /\ k.at = "over"
      BY <3>1, OverRecord
    <3> QED
      BY <3>2, <3>3 DEF Current
  <2>2. CASE Stage(c, "granted")
    <3>1. PICK k \in Working :
            /\ calls' = [calls EXCEPT ![c] = k] /\ k.at = "granted"
            /\ k.id = calls[c].id /\ k.plan = calls[c].plan /\ k.record = calls[c].record
      BY <1>1, <1>2, <2>2, StageRecord DEF Leased
    <3>2. Planned(k) /\ \A n : Current(k, n)
      BY <1>7, <3>1 DEF Planned, Current
    <3> QED
      BY <3>1, <3>2, OverRecord
  <2> QED
    BY <2>1, <2>2 DEF Grant
<1>9. PICK k \in CallRecord :
        /\ calls' = [calls EXCEPT ![c] = k] /\ Planned(k)
        /\ Keeps(k) => k.id = calls[c].id
        /\ \A n : Current(k, n)
  BY <1>8
<1>10. ASSUME ~unguarded'
       PROVE  /\ unit'.granted = given'
              /\ \A d \in Calls \ {c} : Keeps(calls[d]) =>
                   /\ Keeps(k) => calls[d].id # k.id
                   /\ leaseHolder' = calls[d].id =>
                        leaseHolder = calls[d].id /\ unit'.granted = unit.granted
  <2>1. IdsDiffer /\ TotalsCurrent /\ unit.granted = given
    BY <1>2, <1>10 DEF GrantInv
  <2>2. Current(calls[c], given)
    BY <1>2, <1>7, <2>1 DEF TotalsCurrent, HoldsLease
  <2>3. unit'.granted = given'
    BY <1>2, <1>4, <2>2 DEF Current
  <2>4. \A d \in Calls \ {c} : Keeps(calls[d]) => calls[d].id # calls[c].id
    BY <1>7, <2>1 DEF IdsDiffer
  <2> QED
    BY <1>2, <1>9, <2>3, <2>4
<1>11. /\ leaseHolder' \in ConductorIds \cup {NoConductor} /\ reviewed' \in [Records -> ReviewFile]
       /\ writes' \in [Records -> Nat] /\ unguarded' \in BOOLEAN
  BY <1>1, <1>2 DEF GatedTypeOK
<1> QED
  BY <1>2, <1>4, <1>5, <1>6, <1>9, <1>10, <1>11, CallKeeps

\* A call that moves the unit and goes on.
LEMMA MoveKeeps ==
  ASSUME GrantInv, NEW c \in Calls,
         NEW state \in {"ready", "running", "reviewing", "stopped", "closed"},
         NEW attempts \in 0..AttemptsPerUnit + MaxGranted, NEW stalled \in BOOLEAN,
         unit' = [unit EXCEPT !.state = state, !.attempts = attempts, !.stalled = stalled],
         uses' = uses \/ Used(c), UNCHANGED <<leaseHolder, reviewed, given, writes, unguarded>>,
         calls[c].at \in {"admitted", "granted", "looked", "running"},
         Continue(c) \/ (Stage(c, "running") /\ calls[c].plan.cmd.op # "cleanup")
  PROVE  GrantInv'
<1>1. GatedTypeOK /\ Planned(calls[c])
  BY DEF GrantInv
<1>2. unit' \in UnitNow /\ unit'.granted = unit.granted
  BY <1>1 DEF GatedTypeOK, UnitNow
<1>3. uses' \in [Records -> Nat]
  BY <1>1, UsedTyped DEF GatedTypeOK
<1>4. reviewed' \in [Records -> ReviewFile] /\ writes' \in [Records -> Nat]
  BY <1>1 DEF GatedTypeOK
<1>5. CASE Over(c)
  BY <1>2, <1>3, <1>4, <1>5, OverKeeps
<1>6. ASSUME NEW s \in {"driving", "running"}, Stage(c, s), calls[c].plan.cmd.op # "cleanup"
      PROVE  GrantInv'
  <2>1. s \in Leased /\ calls[c].at \in Leased /\ calls[c].at \notin {"new", "over"}
    BY <1>6 DEF Leased
  <2> QED
    BY <1>2, <1>3, <1>4, <1>6, <2>1, StageKeeps
<1>7. CASE Continue(c)
  BY <1>5, <1>6, <1>7 DEF Continue, Drives
<1> QED
  BY <1>6, <1>7

LEMMA RestartKeeps == ASSUME GrantInv, NEW c \in Calls, Restart(c) PROVE GrantInv'
<1>1. GatedTypeOK
  BY DEF GrantInv
<1>2. /\ calls[c].at \in {"granted", "admitted", "looked"} /\ (uses' = uses \/ Used(c))
      /\ calls[c].plan.target # "none"
      /\ unit' = [unit EXCEPT !.state = calls[c].plan.target, !.stalled = FALSE]
      /\ Continue(c) /\ UNCHANGED <<leaseHolder, reviewed, given, writes, unguarded>>
  BY DEF Restart, Healing, At
<1>3. calls[c].plan.target \in {"ready", "reviewing"}
  BY <1>1, <1>2, AtWork
<1>4. unit' = [unit EXCEPT !.state = calls[c].plan.target, !.attempts = unit.attempts, !.stalled = FALSE]
      /\ unit.attempts \in 0..AttemptsPerUnit + MaxGranted
  BY <1>1, <1>2 DEF GatedTypeOK, UnitNow
<1> QED
  BY <1>2, <1>3, <1>4, MoveKeeps

LEMMA DispatchKeeps == ASSUME GrantInv, NEW c \in Calls, Dispatch(c) PROVE GrantInv'
<1>1. GatedTypeOK /\ Planned(calls[c])
  BY DEF GrantInv
<1>2. /\ \/ calls[c].at = "admitted" /\ calls[c].plan.cmd.op = "dispatch" /\ Used(c)
         \/ calls[c].at = "looked" /\ uses' = uses
      /\ AttemptsLeft(unit)
      /\ unit' = [unit EXCEPT !.state = "running", !.attempts = @ + 1]
      /\ Stage(c, "running") /\ UNCHANGED <<leaseHolder, reviewed, given, writes, unguarded>>
  BY DEF Dispatch, ActsOn, At
<1>3. calls[c].plan.cmd.op # "cleanup"
  BY <1>1, <1>2 DEF Planned
<1>4. unit \in UnitNow
  BY <1>1 DEF GatedTypeOK
<1>5. unit.attempts + 1 \in 0..AttemptsPerUnit + MaxGranted
  <2>1. unit.attempts \in Nat /\ unit.granted \in 0..MaxGranted
    BY <1>4 DEF UnitNow
  <2> QED
    BY <1>2, <2>1 DEF AttemptsLeft
<1>6. unit' = [unit EXCEPT !.state = "running", !.attempts = unit.attempts + 1, !.stalled = unit.stalled]
      /\ unit.stalled \in BOOLEAN
  BY <1>2, <1>4 DEF UnitNow
<1> QED
  BY <1>2, <1>3, <1>5, <1>6, MoveKeeps

LEMMA EndAttemptKeeps ==
  ASSUME GrantInv, NEW c \in Calls, NEW s \in {"reviewing", "ready", "stopped"}, EndAttempt(c, s)
  PROVE  GrantInv'
<1>1. GatedTypeOK
  BY DEF GrantInv
<1>2. /\ calls[c].at = "running" /\ uses' = uses /\ unit' = [unit EXCEPT !.state = s]
      /\ Continue(c) /\ UNCHANGED <<leaseHolder, reviewed, given, writes, unguarded>>
  BY DEF EndAttempt, At, outcomeVars
<1>3. unit' = [unit EXCEPT !.state = s, !.attempts = unit.attempts, !.stalled = unit.stalled]
      /\ unit.attempts \in 0..AttemptsPerUnit + MaxGranted /\ unit.stalled \in BOOLEAN
  BY <1>1, <1>2 DEF GatedTypeOK, UnitNow
<1> QED
  BY <1>2, <1>3, MoveKeeps

LEMMA TeamReviewKeeps ==
  ASSUME GrantInv, NEW c \in Calls, NEW s \in {"closed", "ready", "stopped"}, NEW b \in BOOLEAN,
         TeamReview(c, s, b)
  PROVE  GrantInv'
<1>1. GatedTypeOK
  BY DEF GrantInv
<1>2. /\ calls[c].at \in {"admitted", "looked"} /\ (uses' = uses \/ Used(c))
      /\ unit' = [unit EXCEPT !.state = s, !.stalled = b]
      /\ Continue(c) /\ UNCHANGED <<leaseHolder, reviewed, given, writes, unguarded>>
  BY DEF TeamReview, ActsOn, At
<1>3. unit' = [unit EXCEPT !.state = s, !.attempts = unit.attempts, !.stalled = b]
      /\ unit.attempts \in 0..AttemptsPerUnit + MaxGranted
  BY <1>1, <1>2 DEF GatedTypeOK, UnitNow
<1> QED
  BY <1>2, <1>3, MoveKeeps

LEMMA EndsKeep ==
  ASSUME GrantInv, NEW c \in Calls, Cleanup(c) \/ BeginDrive(c) \/ GiveUp(c)
  PROVE  GrantInv'
<1>1. GatedTypeOK
  BY DEF GrantInv
<1>2. /\ UNCHANGED <<unit, leaseHolder, reviewed, given, writes, unguarded>>
      /\ uses' = uses \/ Used(c)
  BY DEF Cleanup, BeginDrive, GiveUp, outcomeVars
<1>3. /\ unit' \in UnitNow /\ unit'.granted = unit.granted
      /\ reviewed' \in [Records -> ReviewFile]
      /\ writes' \in [Records -> Nat] /\ uses' \in [Records -> Nat]
  BY <1>1, <1>2, UsedTyped DEF GatedTypeOK
<1>4. CASE Cleanup(c) \/ GiveUp(c)
  <2>1. Over(c)
    BY <1>4 DEF Cleanup, GiveUp
  <2> QED
    BY <1>2, <1>3, <2>1, OverKeeps
<1>5. CASE BeginDrive(c)
  <2>1. calls[c].at = "admitted" /\ calls[c].plan.cmd.op = "drive" /\ Stage(c, "driving")
    BY <1>5 DEF BeginDrive, At, Drives
  <2> QED
    BY <1>2, <1>3, <2>1, StageKeeps DEF Leased
<1> QED
  BY <1>4, <1>5

\* A drive takes its lease back if nobody has it, and adds one to what it reads.
LEMMA LookAroundKeeps == ASSUME GrantInv, NEW c \in Calls, LookAround(c) PROVE GrantInv'
<1>1. GatedTypeOK /\ Planned(calls[c])
  BY DEF GrantInv
<1>2. /\ calls[c].at = "driving" /\ leaseHolder' = LeaseKept(c)
      /\ UNCHANGED <<unit, reviewed, given, writes, uses, unguarded>>
  BY DEF LookAround, At, outcomeVars
<1>3. PICK remedy \in Remedies :
        calls' = [calls EXCEPT ![c].at = "looked", ![c].plan.unit = unit,
                               ![c].plan.target = remedy[1], ![c].plan.grant = remedy[2]]
  BY DEF LookAround
<1>4. /\ unit \in UnitNow /\ reviewed' \in [Records -> ReviewFile]
      /\ given' \in Nat /\ writes' \in [Records -> Nat] /\ uses' \in [Records -> Nat]
      /\ unguarded \in BOOLEAN
  BY <1>1, <1>2 DEF GatedTypeOK
<1>5. /\ remedy[1] \in {"none", "ready", "reviewing"} /\ remedy[2] \in 0..MaxGranted
      /\ remedy[2] > 0 => unit.state = "stopped" /\ remedy[2] = unit.granted + 1
  <2>1. \/ remedy \in {<<"none", 0>>, <<"reviewing", 0>>, <<"ready", 0>>}
        \/ \E g \in {unit.granted + 1} \cap 1..MaxGranted :
             unit.state = "stopped" /\ remedy = <<"ready", g>>
    BY DEF Remedies
  <2>2. ASSUME NEW t \in {"none", "ready", "reviewing"}, NEW g \in 0..MaxGranted, remedy = <<t, g>>,
               g > 0 => unit.state = "stopped" /\ g = unit.granted + 1
        PROVE  /\ remedy[1] \in {"none", "ready", "reviewing"} /\ remedy[2] \in 0..MaxGranted
               /\ remedy[2] > 0 => unit.state = "stopped" /\ remedy[2] = unit.granted + 1
    BY <2>2
  <2>3. 0 \in 0..MaxGranted
    OBVIOUS
  <2> QED
    BY <2>1, <2>2, <2>3
<1>6. PICK k : k = [calls[c] EXCEPT !.at = "looked", !.plan.unit = unit,
                                    !.plan.target = remedy[1], !.plan.grant = remedy[2]]
  OBVIOUS
<1>7. calls[c] \in Working /\ calls[c].plan \in PlanDoc /\ calls[c].id \in ConductorIds
  BY <1>1, <1>2, AtWork
<1>8. /\ k.at = "looked" /\ k.id = calls[c].id /\ k.plan.cmd = calls[c].plan.cmd
      /\ k.plan.grant = remedy[2] /\ k.plan.unit = unit
  BY <1>6, <1>7 DEF Working, PlanDoc
<1>9. k \in CallRecord
  <2>1. [calls[c].plan EXCEPT !.unit = unit, !.target = remedy[1], !.grant = remedy[2]] \in PlanDoc
    BY <1>4, <1>5, <1>7 DEF PlanDoc
  <2>2. k = [calls[c] EXCEPT !.at = "looked",
               !.plan = [calls[c].plan EXCEPT !.unit = unit, !.target = remedy[1], !.grant = remedy[2]]]
    BY <1>6, <1>7 DEF Working, PlanDoc
  <2> QED
    BY <1>7, <2>1, <2>2, OverRecord DEF Working, Leased
<1>10. calls' = [calls EXCEPT ![c] = k]
  BY <1>3, <1>6, Zenon
<1>11. Keeps(calls[c]) /\ Planned(k)
  BY <1>1, <1>2, <1>8 DEF Planned, Keeps, Leased
<1>12. Current(k, unit'.granted)
  BY <1>2, <1>5, <1>8 DEF Current
<1>13. leaseHolder' \in ConductorIds \cup {NoConductor}
  BY <1>1, <1>2, <1>7 DEF LeaseKept, GatedTypeOK
<1>14. ASSUME ~unguarded'
       PROVE  /\ unit'.granted = given'
              /\ \A d \in Calls \ {c} : Keeps(calls[d]) =>
                   /\ Keeps(k) => calls[d].id # k.id
                   /\ leaseHolder' = calls[d].id =>
                        leaseHolder = calls[d].id /\ unit'.granted = unit.granted
  <2>1. IdsDiffer /\ unit.granted = given
    BY <1>2, <1>14 DEF GrantInv
  <2>2. \A d \in Calls \ {c} : Keeps(calls[d]) => calls[d].id # calls[c].id
    BY <1>11, <2>1 DEF IdsDiffer
  <2> QED
    BY <1>2, <1>8, <2>1, <2>2 DEF LeaseKept
<1> QED
  BY <1>2, <1>4, <1>9, <1>10, <1>11, <1>12, <1>13, <1>14, CallKeeps

\* A runner's call takes back a lease that ran out.
LEMMA KeepLeaseKeeps == ASSUME GrantInv, NEW c \in Calls, KeepLease(c) PROVE GrantInv'
<1>1. GatedTypeOK /\ Planned(calls[c])
  BY DEF GrantInv
<1>2. /\ calls[c].at \in {"running", "looked"}
      /\ leaseHolder = NoConductor /\ leaseHolder' = calls[c].id
      /\ unguarded' = (unguarded \/ calls[c].at = "looked")
      /\ UNCHANGED <<unit, reviewed, calls, given, writes, uses>>
  BY DEF KeepLease, LeaseKept, At, outcomeVars
<1>3. calls[c] \in CallRecord /\ calls' = [calls EXCEPT ![c] = calls[c]]
  BY <1>1, <1>2 DEF GatedTypeOK
<1>4. Keeps(calls[c])
  BY <1>1, <1>2 DEF Planned, Keeps, Leased
<1>5. /\ unit' \in UnitNow /\ leaseHolder' \in ConductorIds \cup {NoConductor}
      /\ reviewed' \in [Records -> ReviewFile] /\ given' \in Nat
      /\ writes' \in [Records -> Nat] /\ uses' \in [Records -> Nat]
  BY <1>1, <1>2, AtWork DEF GatedTypeOK
<1>6. unguarded' \in BOOLEAN /\ (unguarded => unguarded')
  BY <1>1, <1>2, Zenon DEF GatedTypeOK
<1>7. ASSUME ~unguarded'
      PROVE  /\ unit'.granted = given'
             /\ \A d \in Calls \ {c} : Keeps(calls[d]) => calls[d].id # calls[c].id
             /\ Current(calls[c], unit'.granted)
  <2>1. ~unguarded /\ calls[c].at = "running"
    BY <1>2, <1>7, Zenon
  <2>2. IdsDiffer /\ unit.granted = given
    BY <2>1 DEF GrantInv
  <2> QED
    BY <1>2, <1>4, <2>1, <2>2 DEF IdsDiffer, Current
<1> QED
  BY <1>1, <1>2, <1>3, <1>5, <1>6, <1>7, CallKeeps

\* The lease runs out, or a run is resumed whose dispatch died: no call moves.
LEMMA NoCallKeeps ==
  ASSUME GrantInv, UNCHANGED <<reviewed, calls, given, writes, uses, unguarded>>,
         unit' \in UnitNow, unit'.granted = unit.granted,
         leaseHolder' \in {leaseHolder, NoConductor}
  PROVE  GrantInv'
<1>1. GatedTypeOK'
  BY DEF GrantInv, GatedTypeOK
<1>2. \A c \in Calls : Planned(calls'[c])
  BY DEF GrantInv
<1>3. ASSUME ~unguarded PROVE IdsDiffer' /\ TotalsCurrent' /\ unit'.granted = given'
  <2>1. IdsDiffer /\ TotalsCurrent /\ unit.granted = given
    BY <1>3 DEF GrantInv
  <2>2. IdsDiffer'
    BY <2>1 DEF IdsDiffer
  <2>3. ASSUME NEW c \in Calls, Keeps(calls[c]), leaseHolder' = calls[c].id
        PROVE  Current(calls[c], unit.granted)
    <3>1. calls[c].id \in ConductorIds
      BY <2>3, AtWork DEF GrantInv, Keeps, Leased
    <3>2. leaseHolder = calls[c].id
      BY <2>3, <3>1
    <3> QED
      BY <2>1, <2>3, <3>2 DEF TotalsCurrent, HoldsLease
  <2>4. TotalsCurrent'
    BY <2>3 DEF TotalsCurrent, HoldsLease
  <2> QED
    BY <2>1, <2>2, <2>4
<1> QED
  BY <1>1, <1>2, <1>3 DEF GrantInv

LEMMA GrantInitially == GatedInit => GrantInv
<1> SUFFICES ASSUME GatedInit PROVE GrantInv
  OBVIOUS
<1>1. /\ unit = [state |-> "ready", attempts |-> 0, granted |-> 0, stalled |-> FALSE]
      /\ leaseHolder = NoConductor /\ calls = [c \in Calls |-> [at |-> "new"]]
      /\ given = 0 /\ uses = [r \in Records |-> 0] /\ unguarded = FALSE
  BY DEF GatedInit
<1>2. unit \in UnitNow
  <2>1. 0 \in 0..AttemptsPerUnit + MaxGranted /\ 0 \in 0..MaxGranted
    OBVIOUS
  <2> QED
    BY <1>1, <2>1 DEF UnitNow
<1>3. reviewed \in [Records -> ReviewFile]
  <2>1. NoReview \in ReviewFile
    BY DEF NoReview, ReviewFile
  <2>2. ASSUME NEW cmd \in Command, NEW f \in OpenRecords(cmd) PROVE f \in ReviewFile
    <3>1. PICK p \in Plans(cmd) : f = [open |-> TRUE, consumed |-> FALSE, plan |-> p]
      BY <2>2 DEF OpenRecords
    <3> QED
      BY <1>2, <3>1, PlansTyped DEF ReviewFile
  <2> QED
    BY <2>1, <2>2 DEF GatedInit
<1>4. writes \in [Records -> Nat]
  BY DEF GatedInit
<1>5. \A c \in Calls : Planned(calls[c]) /\ ~Keeps(calls[c])
  BY <1>1 DEF Planned, Keeps, Leased
<1>6. GatedTypeOK
  BY <1>1, <1>2, <1>3, <1>4 DEF GatedTypeOK, CallRecord
<1>7. IdsDiffer /\ TotalsCurrent /\ unit.granted = given
  BY <1>1, <1>5 DEF IdsDiffer, TotalsCurrent
<1> QED
  BY <1>5, <1>6, <1>7 DEF GrantInv

LEMMA GrantInductive == GrantInv /\ [GatedNext]_gatedVars => GrantInv'
<1> SUFFICES ASSUME GrantInv, [GatedNext]_gatedVars PROVE GrantInv'
  OBVIOUS
<1>1. GatedTypeOK
  BY DEF GrantInv
<1>2. CASE LeaseRunsOut \/ UNCHANGED gatedVars
  BY <1>1, <1>2, NoCallKeeps DEF LeaseRunsOut, gatedVars, outcomeVars, GatedTypeOK
<1>3. CASE Recovered
  <2>1. unit' \in UnitNow /\ unit'.granted = unit.granted
    BY <1>1, <1>3 DEF Recovered, GatedTypeOK, UnitNow
  <2> QED
    BY <1>3, <2>1, NoCallKeeps DEF Recovered, outcomeVars
<1>4. ASSUME NEW c \in Calls, Execute(c) PROVE GrantInv'
  BY <1>4, GrantKeeps, RestartKeeps, DispatchKeeps, EndAttemptKeeps, TeamReviewKeeps, EndsKeep,
     LookAroundKeeps, PassesOn, KeepLeaseKeeps DEF Execute
<1>5. ASSUME NEW c \in Calls,
             \/ \E cmd \in Command, id \in ConductorIds : BuildPlan(c, cmd, id)
             \/ \E r \in Records : NewRecord(c, r) \/ ApproveByRecord(c, r)
             \/ WriteRecord(c) \/ Confirm(c)
             \/ TakeLease(c) \/ Rebuild(c) \/ LookForConsumed(c) \/ Consume(c) \/ GiveUp(c)
      PROVE  GrantInv'
  BY <1>5, BuildPlanKeeps, ApprovalKeeps, WriteRecordKeeps, PassesOn, TakeLeaseKeeps,
     ConsumeKeepsTotals, EndsKeep
<1> QED
  BY <1>2, <1>3, <1>4, <1>5 DEF GatedNext

\* The unit, the records and the calls keep their types: a plan that is executed
\* is one that could be built, and a total stays within what may be granted.
THEOREM GatedTypeCorrect == GatedSpec => []GatedTypeOK
<1>1. GrantInv => GatedTypeOK
  BY DEF GrantInv
<1> QED
  BY <1>1, GrantInitially, GrantInductive, PTL DEF GatedSpec

\* While the lease keeps the calls apart, the attempts granted to the unit are
\* the sum of the grants that were executed.
THEOREM GrantsAdd == GatedSpec => []GrantsAddUp
<1>1. GrantInv => GrantsAddUp
  BY DEF GrantInv, GrantsAddUp
<1> QED
  BY <1>1, GrantInitially, GrantInductive, PTL DEF GatedSpec

=============================================================================
