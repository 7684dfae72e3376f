-------------------------- MODULE SafetyEngineProofs --------------------------
(***************************************************************************)
(* Proofs about RoutePlanner and SafetyEngine, for any map, zones,          *)
(* obstacles, journey and wait-for graph.                                   *)
(* While it searches, every place a hop leads to from an expanded node is   *)
(* expanded already or waits in the heap, no farther than that hop makes    *)
(* it; and nothing in the heap is nearer than what is expanded.             *)
(***************************************************************************)
EXTENDS SafetyEngine, FiniteSetTheorems, SequenceTheorems, WellFoundedInduction, TLAPS

Entry == [distance : Nat, path : Seq(Node)]

\* Node v is expanded, or waits to be, at distance d or less.
Covered(v, d) ==
    \/ v \in DOMAIN best /\ best[v] <= d
    \/ \E e \in queue : NodeOf(e) = v /\ e.distance <= d

\* A path starts at the origin, avoids what it must, and passes expanded nodes only.
PathOK(e) ==
    /\ Len(e.path) > 0
    /\ e.path[1] = origin
    /\ \A i \in 2 .. Len(e.path) : e.path[i] \notin Avoided
    /\ \A i \in 1 .. Len(e.path) - 1 :
          e.path[i] \in DOMAIN best /\ best[e.path[i]] <= e.distance

SettledFirst == \A n \in DOMAIN best : \A e \in queue : best[n] <= e.distance

Frontier ==
    \A u \in DOMAIN best : \A h \in Hops(u) :
        h.to \notin Avoided => Covered(h.to, best[u] + h.length)

Searching ==
    /\ \A e \in queue : PathOK(e)
    /\ SettledFirst
    /\ Frontier
    /\ Covered(origin, 0)
    /\ destination \notin DOMAIN best

RouteIsClear == Arrived => \A i \in 2 .. Len(route) : route[i] \notin Avoided

Inv ==
    /\ SearchTypeOK
    /\ phase = "searching" => Searching
    /\ RouteIsClear
    /\ RouteIsShortest
    /\ NoRouteIsCertain

\* A hop leads to a node and has a length.
LEMMA HopType ==
    ASSUME SearchTypeOK, NEW u \in Node, NEW h \in Hops(u)
    PROVE  h.to \in Node /\ h.length \in Nat \ {0}
BY DEF SearchTypeOK, Hops, Edge

LEMMA NodeOfType ==
    ASSUME NEW e \in Entry, Len(e.path) > 0
    PROVE  NodeOf(e) \in Node /\ e.distance \in Nat /\ e.path \in Seq(Node)
BY DEF Entry, NodeOf

\* What the step that takes entry e off the heap may rely on.
LEMMA Popped ==
    ASSUME Inv, NEW e \in queue, Pop(e)
    PROVE  /\ Searching
           /\ e \in Entry /\ PathOK(e)
           /\ NodeOf(e) \in Node /\ e.distance \in Nat /\ e.path \in Seq(Node)
           /\ \A f \in queue : f \in Entry /\ f.distance \in Nat /\ e.distance <= f.distance
           /\ \A n \in DOMAIN best : best[n] \in Nat /\ best[n] <= e.distance
           /\ Settled(e) <=> NodeOf(e) \in DOMAIN best
<1>1. Searching /\ SearchTypeOK
  BY DEF Inv, Pop
<1>2. e \in Entry /\ PathOK(e)
  BY <1>1 DEF SearchTypeOK, Entry, Searching
<1>3. NodeOf(e) \in Node /\ e.distance \in Nat /\ e.path \in Seq(Node)
  BY <1>2, NodeOfType DEF PathOK
<1>4. ASSUME NEW f \in queue
      PROVE  f \in Entry /\ f.distance \in Nat /\ e.distance <= f.distance
  <2>1. f \in Entry /\ f.distance \in Nat
    BY <1>1 DEF SearchTypeOK, Entry
  <2>2. Precedes(e, f)
    BY DEF Pop
  <2>3. QED
    BY <2>1, <2>2, <1>3 DEF Precedes
<1>5. \A n \in DOMAIN best : best[n] \in Nat /\ best[n] <= e.distance
  BY <1>1 DEF SearchTypeOK, Searching, SettledFirst
<1>6. QED
  BY <1>1, <1>2, <1>3, <1>4, <1>5 DEF Settled

\* The snapshot never changes, and with it what is avoided and where hops lead.
LEMMA SnapshotFixed ==
    ASSUME UNCHANGED snapshot
    PROVE  /\ Avoided' = Avoided
           /\ \A u : Hops(u)' = Hops(u)
           /\ origin' = origin /\ destination' = destination
           /\ forbidden' = forbidden /\ ActiveObstacles' = ActiveObstacles
BY DEF snapshot, Avoided, Blocked, Hops, ActiveObstacles

LEMMA SnapshotType ==
    ASSUME SearchTypeOK, UNCHANGED snapshot
    PROVE  /\ edges' \subseteq Edge /\ forbidden' \subseteq Node
           /\ obstacles' \subseteq Obstacle
           /\ origin' \in Node /\ destination' \in Node
BY DEF snapshot, SearchTypeOK

LEMMA SettleFacts ==
    ASSUME Inv, NEW e \in queue, Pop(e), ~Settled(e), Settle(e)
    PROVE  /\ NodeOf(e) \notin DOMAIN best
           /\ DOMAIN best' = DOMAIN best \cup {NodeOf(e)}
           /\ best'[NodeOf(e)] = e.distance
           /\ \A n \in DOMAIN best : best'[n] = best[n]
           /\ DOMAIN best' \subseteq Node
           /\ \A n \in DOMAIN best' : best'[n] \in Nat /\ best'[n] <= e.distance
<1>1. NodeOf(e) \notin DOMAIN best
  BY Popped
<1>2. /\ DOMAIN best' = DOMAIN best \cup {NodeOf(e)}
      /\ best'[NodeOf(e)] = e.distance
      /\ \A n \in DOMAIN best : best'[n] = best[n]
  BY <1>1 DEF Settle
<1>3. DOMAIN best' \subseteq Node
  BY <1>2, Popped DEF Inv, SearchTypeOK
<1>4. \A n \in DOMAIN best' : best'[n] \in Nat /\ best'[n] <= e.distance
  BY <1>2, Popped
<1>5. QED
  BY <1>1, <1>2, <1>3, <1>4

-----------------------------------------------------------------------------
(* Induction, and the lengths of ways.                                      *)

\* A set of natural numbers has a least one.
LEMMA LeastExists ==
    ASSUME NEW S, S \subseteq Nat, S # {}
    PROVE  Least(S) \in S /\ Least(S) \in Nat /\ \A n \in S : Least(S) <= n
<1> DEFINE R == OpToRel(<, Nat)
<1>1. IsWellFoundedOn(R, Nat)
  BY NatLessThanWellFounded
<1> HIDE DEF R
<1>2. PICK m \in S : \A n \in S : <<n, m>> \notin R
  BY <1>1, WFMin
<1>3. ASSUME NEW n \in S, n < m
      PROVE  <<n, m>> \in R
  BY <1>3 DEF R, OpToRel
<1>4. \A n \in S : ~ (n < m)
  BY <1>2, <1>3
<1>5. \A n \in S : n \in Nat /\ m \in Nat
  OBVIOUS
<1>6. \E l \in S : \A n \in S : l <= n
  BY <1>4, <1>5
<1>7. QED
  BY <1>6 DEF Least

\* What holds of 0, and of a number's successor if of the number, holds of all.
LEMMA Induct ==
    ASSUME NEW S, 0 \in S, \A n \in Nat : n \in S => n + 1 \in S
    PROVE  Nat \subseteq S
<1> SUFFICES ASSUME Nat \ S # {} PROVE FALSE
  OBVIOUS
<1>1. PICK m \in Nat \ S : \A n \in Nat \ S : m <= n
  BY LeastExists
<1>2. m - 1 \in Nat /\ m - 1 < m /\ (m - 1) + 1 = m
  BY <1>1
<1>3. QED
  BY <1>1, <1>2

\* The sums of a sequence exist.
LEMMA SumsDef ==
    ASSUME NEW c, Len(c) \in Nat
    PROVE  Sums(c) = [i \in 0 .. Len(c) |-> IF i = 0 THEN 0 ELSE Sums(c)[i - 1] + c[i]]
<1> DEFINE Good(n) == \E f : f = [i \in 0 .. n |-> IF i = 0 THEN 0 ELSE f[i - 1] + c[i]]
           S == {n \in Nat : Good(n)}
<1>1. 0 \in S
  <2> DEFINE f == [i \in 0 .. 0 |-> 0]
  <2>1. f = [i \in 0 .. 0 |-> IF i = 0 THEN 0 ELSE f[i - 1] + c[i]]
    OBVIOUS
  <2>2. QED
    BY <2>1
<1>2. ASSUME NEW n \in Nat, Good(n)
      PROVE  Good(n + 1)
  <2>1. PICK f : f = [i \in 0 .. n |-> IF i = 0 THEN 0 ELSE f[i - 1] + c[i]]
    BY <1>2
  <2> DEFINE g == [i \in 0 .. n + 1 |-> IF i = n + 1 THEN f[n] + c[n + 1] ELSE f[i]]
  <2>2. ASSUME NEW i \in 0 .. n + 1
        PROVE  g[i] = IF i = 0 THEN 0 ELSE g[i - 1] + c[i]
    <3>1. CASE i = 0
      BY <2>1, <3>1
    <3>2. CASE i = n + 1
      BY <3>2
    <3>3. CASE i # 0 /\ i # n + 1
      <4>1. i \in 0 .. n /\ i - 1 \in 0 .. n + 1 /\ i - 1 # n + 1
        BY <3>3
      <4>2. f[i] = f[i - 1] + c[i]
        BY <2>1, <3>3, <4>1
      <4>3. QED
        BY <3>3, <4>1, <4>2
    <3>4. QED
      BY <3>1, <3>2, <3>3
  <2> HIDE DEF g
  <2>3. g = [i \in 0 .. n + 1 |-> g[i]]
    BY DEF g
  <2>4. g = [i \in 0 .. n + 1 |-> IF i = 0 THEN 0 ELSE g[i - 1] + c[i]]
    BY <2>2, <2>3
  <2>5. QED
    BY <2>4
<1>3. \A n \in Nat : n \in S => n + 1 \in S
  BY <1>2
<1>4. Nat \subseteq S
  <2> HIDE DEF S
  <2>1. QED
    BY <1>1, <1>3, Induct
<1>5. \E f : f = [i \in 0 .. Len(c) |-> IF i = 0 THEN 0 ELSE f[i - 1] + c[i]]
  BY <1>4
<1>6. Sums(c) = CHOOSE f : f = [i \in 0 .. Len(c) |-> IF i = 0 THEN 0 ELSE f[i - 1] + c[i]]
  BY DEF Sums
<1>7. QED
  BY <1>5, <1>6

\* One sum after the other.
LEMMA SumsStep ==
    ASSUME NEW c \in Seq(Nat)
    PROVE  /\ Sums(c)[0] = 0
           /\ \A i \in 0 .. Len(c) - 1 : Sums(c)[i + 1] = Sums(c)[i] + c[i + 1]
           /\ \A i \in 0 .. Len(c) : Sums(c)[i] \in Nat
<1>1. Len(c) \in Nat /\ \A i \in 1 .. Len(c) : c[i] \in Nat
  OBVIOUS
<1>2. \A i \in 0 .. Len(c) : Sums(c)[i] = IF i = 0 THEN 0 ELSE Sums(c)[i - 1] + c[i]
  BY <1>1, SumsDef
<1>3. Sums(c)[0] = 0
  BY <1>1, <1>2
<1>4. ASSUME NEW i \in 0 .. Len(c) - 1
      PROVE  Sums(c)[i + 1] = Sums(c)[i] + c[i + 1]
  <2>1. i + 1 \in 0 .. Len(c) /\ i + 1 # 0 /\ (i + 1) - 1 = i
    BY <1>1
  <2>2. QED
    BY <1>2, <2>1
<1> DEFINE S == {n \in Nat : n <= Len(c) => Sums(c)[n] \in Nat}
<1>5. 0 \in S
  BY <1>3
<1>6. ASSUME NEW n \in Nat, n \in S
      PROVE  n + 1 \in S
  <2> SUFFICES ASSUME n + 1 <= Len(c) PROVE Sums(c)[n + 1] \in Nat
    OBVIOUS
  <2>1. n \in 0 .. Len(c) - 1 /\ n + 1 \in 1 .. Len(c) /\ n <= Len(c)
    BY <1>1
  <2>2. Sums(c)[n] \in Nat /\ c[n + 1] \in Nat
    BY <1>1, <1>6, <2>1
  <2>3. QED
    BY <1>4, <2>1, <2>2
<1>7. Nat \subseteq S
  BY <1>5, <1>6, Induct
<1>8. QED
  BY <1>1, <1>3, <1>4, <1>7

\* A longer sequence has the same sums, and one more.
LEMMA SumsAppend ==
    ASSUME NEW c \in Seq(Nat), NEW x \in Nat
    PROVE  Sums(Append(c, x))[Len(c) + 1] = Sums(c)[Len(c)] + x
<1> DEFINE d == Append(c, x)
<1>1. /\ d \in Seq(Nat) /\ Len(d) = Len(c) + 1 /\ d[Len(c) + 1] = x /\ Len(c) \in Nat
      /\ \A i \in 1 .. Len(c) : d[i] = c[i]
  OBVIOUS
<1> HIDE DEF d
<1> DEFINE S == {n \in Nat : n <= Len(c) => Sums(d)[n] = Sums(c)[n]}
<1>2. 0 \in S
  BY <1>1, SumsStep
<1>3. ASSUME NEW n \in Nat, n \in S
      PROVE  n + 1 \in S
  <2> SUFFICES ASSUME n + 1 <= Len(c) PROVE Sums(d)[n + 1] = Sums(c)[n + 1]
    OBVIOUS
  <2>1. n \in 0 .. Len(c) - 1 /\ n \in 0 .. Len(d) - 1 /\ n + 1 \in 1 .. Len(c) /\ n <= Len(c)
    BY <1>1
  <2>2. Sums(c)[n + 1] = Sums(c)[n] + c[n + 1] /\ Sums(d)[n + 1] = Sums(d)[n] + d[n + 1]
    BY <1>1, <2>1, SumsStep
  <2>3. QED
    BY <1>1, <1>3, <2>1, <2>2
<1>4. Nat \subseteq S
  BY <1>2, <1>3, Induct
<1>5. Sums(d)[Len(c)] = Sums(c)[Len(c)]
  BY <1>1, <1>4
<1>6. Len(c) \in 0 .. Len(d) - 1
  BY <1>1
<1>7. Sums(d)[Len(c) + 1] = Sums(d)[Len(c)] + d[Len(c) + 1]
  BY <1>1, <1>6, SumsStep
<1>8. QED
  BY <1>1, <1>5, <1>7 DEF d

-----------------------------------------------------------------------------
(* While the search goes on.                                                *)

LEMMA DiscardKeepsInv ==
    ASSUME Inv, NEW e \in queue, Discard(e)
    PROVE  Inv'
<1>1. /\ Pop(e) /\ Settled(e) /\ queue' = queue \ {e} /\ UNCHANGED snapshot
      /\ best' = best /\ route' = route /\ phase' = phase /\ phase = "searching"
  BY DEF Discard, Pop
<1>2. Searching /\ NodeOf(e) \in DOMAIN best /\ best[NodeOf(e)] <= e.distance
  BY <1>1, Popped
<1>3. SearchTypeOK'
  BY <1>1, SnapshotType DEF Inv, SearchTypeOK
<1>4. ASSUME NEW v, NEW d \in Nat, Covered(v, d)
      PROVE  Covered(v, d)'
  <2>1. CASE v \in DOMAIN best /\ best[v] <= d
    BY <1>1, <2>1 DEF Covered
  <2>2. CASE \E f \in queue : NodeOf(f) = v /\ f.distance <= d
    <3>1. PICK f \in queue : NodeOf(f) = v /\ f.distance <= d
      BY <2>2
    <3>2. CASE f = e
      <4>1. e.distance \in Nat /\ best[v] \in Nat
        BY <1>1, <1>2, <3>1, <3>2, Popped
      <4>2. QED
        BY <1>1, <1>2, <3>1, <3>2, <4>1 DEF Covered
    <3>3. CASE f # e
      BY <1>1, <3>1, <3>3 DEF Covered, NodeOf
    <3>4. QED
      BY <3>2, <3>3
  <2>3. QED
    BY <1>4, <2>1, <2>2 DEF Covered
<1>5. \A f \in queue' : PathOK(f)'
  <2>1. Avoided' = Avoided /\ origin' = origin
    BY <1>1, SnapshotFixed
  <2>2. QED
    BY <1>1, <1>2, <2>1 DEF Searching, PathOK
<1>6. SettledFirst'
  BY <1>1, <1>2 DEF Searching, SettledFirst
<1>7. Frontier'
  <2> SUFFICES ASSUME NEW u \in DOMAIN best, NEW h \in Hops(u), h.to \notin Avoided
               PROVE  Covered(h.to, best[u] + h.length)'
    BY <1>1, SnapshotFixed DEF Frontier
  <2>1. PICK far \in Nat : far = best[u] + h.length
    BY HopType DEF Inv, SearchTypeOK
  <2>2. Covered(h.to, far)
    BY <1>2, <2>1 DEF Searching, Frontier
  <2>3. Covered(h.to, far)'
    BY <1>4, <2>2
  <2>4. QED
    BY <1>1, <2>1, <2>3 DEF Covered
<1>8. Covered(origin, 0)'
  BY <1>1, <1>2, <1>4, SnapshotFixed DEF Searching
<1>9. Searching'
  BY <1>1, <1>2, <1>5, <1>6, <1>7, <1>8, SnapshotFixed DEF Searching
<1>10. (RouteIsClear /\ RouteIsShortest /\ NoRouteIsCertain)'
  BY <1>1 DEF RouteIsClear, RouteIsShortest, NoRouteIsCertain, Arrived
<1>11. QED
  BY <1>3, <1>9, <1>10 DEF Inv

\* An extension of e is a longer path to a neighbour of e's node.
LEMMA ExtensionFacts ==
    ASSUME Inv, NEW e \in queue, Pop(e), NEW f \in Extensions(e)
    PROVE  /\ f \in Entry /\ f.distance \in Nat /\ e.distance <= f.distance
           /\ \E h \in Hops(NodeOf(e)) :
                 /\ f = [distance |-> e.distance + h.length, path |-> Append(e.path, h.to)]
                 /\ h.to \notin Avoided /\ h.to \in Node
<1>1. PICK h \in Hops(NodeOf(e)) :
          /\ f = [distance |-> e.distance + h.length, path |-> Append(e.path, h.to)]
          /\ h.to \notin Avoided \cup Nodes(e.path)
  BY DEF Extensions
<1>2. h.to \in Node /\ h.length \in Nat \ {0}
  BY HopType, Popped DEF Inv
<1>3. e.distance \in Nat /\ e.path \in Seq(Node)
  BY Popped
<1>4. Append(e.path, h.to) \in Seq(Node)
  BY <1>2, <1>3
<1>5. e.distance + h.length \in Nat /\ e.distance <= e.distance + h.length
  BY <1>2, <1>3
<1>6. QED
  BY <1>1, <1>2, <1>4, <1>5 DEF Entry

LEMMA ExpandKeepsPaths ==
    ASSUME Inv, NEW e \in queue, Expand(e), NEW f \in queue'
    PROVE  PathOK(f)' /\ f \in Entry
<1>1. Pop(e) /\ ~Settled(e) /\ Settle(e) /\ UNCHANGED snapshot
  BY DEF Expand, Pop
<1>2. Avoided' = Avoided /\ origin' = origin
  BY <1>1, SnapshotFixed
<1>3. Searching /\ PathOK(e) /\ e.distance \in Nat /\ e.path \in Seq(Node)
  BY <1>1, Popped
<1>4. /\ DOMAIN best' = DOMAIN best \cup {NodeOf(e)}
      /\ \A n \in DOMAIN best : best'[n] = best[n]
      /\ \A n \in DOMAIN best' : best'[n] \in Nat /\ best'[n] <= e.distance
  BY <1>1, SettleFacts
<1>5. CASE f \in queue
  <2>1. PathOK(f) /\ f \in Entry
    BY <1>1, <1>3, <1>5, Popped DEF Searching
  <2>2. QED
    BY <1>2, <1>4, <2>1 DEF PathOK
<1>6. CASE f \in Extensions(e)
  <2>1. PICK h \in Hops(NodeOf(e)) :
            /\ f = [distance |-> e.distance + h.length, path |-> Append(e.path, h.to)]
            /\ h.to \notin Avoided /\ h.to \in Node
    BY <1>1, <1>6, ExtensionFacts
  <2>2. f \in Entry /\ f.distance \in Nat /\ e.distance <= f.distance
    BY <1>1, <1>6, ExtensionFacts
  <2>3. /\ f.path \in Seq(Node) /\ Len(f.path) = Len(e.path) + 1
        /\ \A i \in 1 .. Len(e.path) : f.path[i] = e.path[i]
        /\ f.path[Len(f.path)] = h.to
    BY <1>3, <2>1
  <2>4. Len(e.path) \in Nat /\ Len(e.path) > 0
    BY <1>3 DEF PathOK
  <2>5. Len(f.path) > 0 /\ f.path[1] = origin
    BY <1>3, <2>3, <2>4 DEF PathOK
  <2>6. ASSUME NEW i \in 2 .. Len(f.path)
        PROVE  f.path[i] \notin Avoided
    <3>1. CASE i = Len(f.path)
      BY <2>1, <2>3, <3>1
    <3>2. CASE i # Len(f.path)
      <4>1. i \in 2 .. Len(e.path) /\ i \in 1 .. Len(e.path)
        BY <2>3, <2>4, <3>2
      <4>2. QED
        BY <1>3, <2>3, <4>1 DEF PathOK
    <3>3. QED
      BY <3>1, <3>2
  <2>7. ASSUME NEW i \in 1 .. Len(f.path) - 1
        PROVE  f.path[i] \in DOMAIN best' /\ best'[f.path[i]] <= f.distance
    <3>1. i \in 1 .. Len(e.path) /\ f.path[i] = e.path[i]
      BY <2>3, <2>4
    <3>2. e.path[i] \in DOMAIN best'
      <4>1. CASE i = Len(e.path)
        BY <1>4, <4>1 DEF NodeOf
      <4>2. CASE i # Len(e.path)
        <5>1. i \in 1 .. Len(e.path) - 1
          BY <2>4, <3>1, <4>2
        <5>2. QED
          BY <1>3, <1>4, <5>1 DEF PathOK
      <4>3. QED
        BY <4>1, <4>2
    <3>3. QED
      BY <1>3, <1>4, <2>2, <3>1, <3>2
  <2>8. QED
    BY <1>2, <2>2, <2>5, <2>6, <2>7 DEF PathOK
<1>7. f \in queue \/ f \in Extensions(e)
  BY DEF Expand
<1>8. QED
  BY <1>5, <1>6, <1>7

\* Whatever was covered stays so, and the hops of the expanded node are covered now.
LEMMA ExpandCovers ==
    ASSUME Inv, NEW e \in queue, Expand(e), NEW v, NEW d \in Nat,
           \/ Covered(v, d)
           \/ \E h \in Hops(NodeOf(e)) :
                 h.to = v /\ v \notin Avoided /\ d = e.distance + h.length
    PROVE  Covered(v, d)'
<1>1. Pop(e) /\ ~Settled(e) /\ Settle(e) /\ queue' = (queue \ {e}) \cup Extensions(e)
  BY DEF Expand
<1>2. Searching /\ PathOK(e) /\ e.distance \in Nat /\ e.path \in Seq(Node) /\ NodeOf(e) \in Node
  BY <1>1, Popped
<1>3. /\ DOMAIN best' = DOMAIN best \cup {NodeOf(e)}
      /\ best'[NodeOf(e)] = e.distance
      /\ \A n \in DOMAIN best : best'[n] = best[n]
      /\ \A n \in DOMAIN best' : best'[n] \in Nat /\ best'[n] <= e.distance
  BY <1>1, SettleFacts
<1>4. CASE Covered(v, d)
  <2>1. CASE v \in DOMAIN best /\ best[v] <= d
    BY <1>3, <2>1 DEF Covered
  <2>2. CASE \E f \in queue : NodeOf(f) = v /\ f.distance <= d
    <3>1. PICK f \in queue : NodeOf(f) = v /\ f.distance <= d
      BY <2>2
    <3>2. CASE f = e
      BY <1>3, <3>1, <3>2 DEF Covered
    <3>3. CASE f # e
      BY <1>1, <3>1, <3>3 DEF Covered, NodeOf
    <3>4. QED
      BY <3>2, <3>3
  <2>3. QED
    BY <1>4, <2>1, <2>2 DEF Covered
<1>5. ASSUME NEW h \in Hops(NodeOf(e)), h.to = v, v \notin Avoided, d = e.distance + h.length
      PROVE  Covered(v, d)'
  <2>1. h.to \in Node /\ h.length \in Nat \ {0}
    BY <1>2, HopType DEF Inv
  <2>2. CASE v \in Nodes(e.path)
    <3>1. PICK i \in 1 .. Len(e.path) : v = e.path[i]
      BY <2>2 DEF Nodes
    <3>2. v \in DOMAIN best'
      <4>1. CASE i = Len(e.path)
        BY <1>3, <3>1, <4>1 DEF NodeOf
      <4>2. CASE i # Len(e.path)
        <5>1. i \in 1 .. Len(e.path) - 1
          BY <1>2, <3>1, <4>2
        <5>2. QED
          BY <1>2, <1>3, <3>1, <5>1 DEF PathOK
      <4>3. QED
        BY <4>1, <4>2
    <3>3. best'[v] <= d
      BY <1>2, <1>3, <1>5, <2>1, <3>2
    <3>4. QED
      BY <3>2, <3>3 DEF Covered
  <2>3. CASE v \notin Nodes(e.path)
    <3>1. PICK f \in Extensions(e) :
              f = [distance |-> e.distance + h.length, path |-> Append(e.path, h.to)]
      BY <1>5, <2>3 DEF Extensions
    <3>2. f.path[Len(f.path)] = v /\ f.distance = d
      BY <1>2, <1>5, <2>1, <3>1
    <3>3. QED
      BY <1>1, <3>2 DEF Covered, NodeOf
  <2>4. QED
    BY <2>2, <2>3
<1>6. QED
  BY <1>4, <1>5

LEMMA ExpandKeepsInv ==
    ASSUME Inv, NEW e \in queue, Expand(e)
    PROVE  Inv'
<1>1. /\ Pop(e) /\ ~Settled(e) /\ Settle(e) /\ queue' = (queue \ {e}) \cup Extensions(e)
      /\ UNCHANGED snapshot /\ route' = route /\ phase' = phase /\ phase = "searching"
      /\ NodeOf(e) # destination
  BY DEF Expand, Pop
<1>2. /\ Searching /\ NodeOf(e) \in Node /\ e.distance \in Nat
      /\ \A f \in queue : f.distance \in Nat /\ e.distance <= f.distance
  BY <1>1, Popped
<1>3. /\ DOMAIN best' = DOMAIN best \cup {NodeOf(e)} /\ DOMAIN best' \subseteq Node
      /\ best'[NodeOf(e)] = e.distance
      /\ \A n \in DOMAIN best : best'[n] = best[n]
      /\ \A n \in DOMAIN best' : best'[n] \in Nat /\ best'[n] <= e.distance
  BY <1>1, SettleFacts
<1>4. /\ origin' = origin /\ destination' = destination /\ Avoided' = Avoided
      /\ \A u : Hops(u)' = Hops(u)
  BY <1>1, SnapshotFixed
<1>5. \A f \in queue' : PathOK(f)' /\ f \in Entry
  BY ExpandKeepsPaths
<1>6. SearchTypeOK'
  <2>1. queue' \subseteq [distance : Nat, path : Seq(Node)]
    BY <1>5 DEF Entry
  <2>2. QED
    BY <1>1, <1>3, <2>1, SnapshotType DEF Inv, SearchTypeOK
<1>7. SettledFirst'
  <2> SUFFICES ASSUME NEW n \in DOMAIN best', NEW f \in queue'
               PROVE  best'[n] <= f.distance
    BY DEF SettledFirst
  <2>1. f.distance \in Nat /\ e.distance <= f.distance
    BY <1>1, <1>2, ExtensionFacts
  <2>2. QED
    BY <1>2, <1>3, <2>1
<1>8. Frontier'
  <2> SUFFICES ASSUME NEW u \in DOMAIN best', NEW h \in Hops(u), h.to \notin Avoided
               PROVE  Covered(h.to, best[u] + h.length)'
    BY <1>4 DEF Frontier
  <2>1. h.to \in Node /\ h.length \in Nat \ {0}
    BY <1>3, HopType DEF Inv
  <2>2. PICK far \in Nat : far = best'[u] + h.length
    BY <1>3, <2>1
  <2>3. \/ Covered(h.to, far)
        \/ u = NodeOf(e) /\ far = e.distance + h.length
    <3>1. CASE u \in DOMAIN best
      BY <1>2, <1>3, <2>2, <3>1 DEF Searching, Frontier
    <3>2. CASE u \notin DOMAIN best
      BY <1>3, <2>2, <3>2
    <3>3. QED
      BY <3>1, <3>2
  <2>4. Covered(h.to, far)'
    BY <2>3, ExpandCovers
  <2>5. QED
    BY <2>2, <2>4 DEF Covered
<1>9. Covered(origin, 0)'
  <2>1. PICK o : o = origin
    OBVIOUS
  <2>2. Covered(o, 0)'
    BY <1>2, <2>1, ExpandCovers DEF Searching
  <2>3. QED
    BY <1>4, <2>1, <2>2 DEF Covered
<1>10. Searching'
  <2>1. destination' \notin DOMAIN best'
    BY <1>1, <1>2, <1>3, <1>4 DEF Searching
  <2>2. QED
    BY <1>5, <1>7, <1>8, <1>9, <2>1 DEF Searching
<1>11. (RouteIsClear /\ RouteIsShortest /\ NoRouteIsCertain)'
  BY <1>1 DEF RouteIsClear, RouteIsShortest, NoRouteIsCertain, Arrived
<1>12. QED
  BY <1>6, <1>10, <1>11 DEF Inv

-----------------------------------------------------------------------------
(* At the end of the search.                                                *)

\* The nearest entry is at the destination: the heights prove that nothing is shorter.
LEMMA ArriveKeepsInv ==
    ASSUME Inv, NEW e \in queue, Arrive(e)
    PROVE  Inv'
<1>1. /\ Pop(e) /\ ~Settled(e) /\ Settle(e) /\ queue' = queue \ {e} /\ UNCHANGED snapshot
      /\ route' = e.path /\ phase' = "found" /\ NodeOf(e) = destination
  BY DEF Arrive, Pop
<1>2. /\ Searching /\ PathOK(e) /\ e.distance \in Nat /\ e.path \in Seq(Node)
      /\ \A f \in queue : f.distance \in Nat /\ e.distance <= f.distance
  BY <1>1, Popped
<1>3. /\ DOMAIN best' = DOMAIN best \cup {destination} /\ DOMAIN best' \subseteq Node
      /\ best'[destination] = e.distance
      /\ \A n \in DOMAIN best : best'[n] = best[n]
      /\ \A n \in DOMAIN best' : best'[n] \in Nat /\ best'[n] <= e.distance
      /\ destination \notin DOMAIN best
  BY <1>1, SettleFacts
<1>4. /\ origin' = origin /\ destination' = destination /\ Avoided' = Avoided
      /\ \A u : Hops(u)' = Hops(u)
  BY <1>1, SnapshotFixed
<1>5. SearchTypeOK'
  BY <1>1, <1>2, <1>3, SnapshotType DEF Inv, SearchTypeOK
<1>6. /\ route' # <<>> /\ route'[1] = origin' /\ route'[Len(route')] = destination'
      /\ destination' \in DOMAIN best'
  BY <1>1, <1>2, <1>3, <1>4 DEF PathOK, NodeOf
<1>7. DEFINE height(n) == IF n \in DOMAIN best' THEN best'[n] ELSE e.distance
<1>8. \A n : Height(n)' = height(n)
  BY <1>3, <1>4 DEF Height
<1>9. \A n : height(n) \in Nat /\ height(n) <= e.distance
  BY <1>2, <1>3
<1>10. height(origin) = 0
  <2>1. CASE origin \in DOMAIN best /\ best[origin] <= 0
    BY <1>3, <2>1
  <2>2. CASE \E f \in queue : NodeOf(f) = origin /\ f.distance <= 0
    <3>1. e.distance = 0
      BY <1>2, <2>2
    <3>2. QED
      BY <1>9, <3>1
  <2>3. QED
    BY <1>2, <2>1, <2>2 DEF Searching, Covered
<1>11. ASSUME NEW u \in Node, NEW h \in Hops(u), h.to \notin Avoided
       PROVE  height(h.to) <= height(u) + h.length
  <2>1. h.length \in Nat
    BY HopType DEF Inv
  <2>2. CASE u \in DOMAIN best
    <3>1. best[u] \in Nat /\ height(u) = best[u]
      BY <1>3, <2>2
    <3>2. Covered(h.to, best[u] + h.length)
      BY <1>2, <1>11, <2>2 DEF Searching, Frontier
    <3>3. CASE h.to \in DOMAIN best /\ best[h.to] <= best[u] + h.length
      BY <1>3, <3>1, <3>3
    <3>4. CASE \E f \in queue : NodeOf(f) = h.to /\ f.distance <= best[u] + h.length
      <4>1. e.distance <= best[u] + h.length
        BY <1>2, <2>1, <3>1, <3>4
      <4>2. height(h.to) \in Nat /\ height(h.to) <= e.distance
        BY <1>9
      <4> HIDE DEF height
      <4>3. QED
        BY <1>2, <2>1, <3>1, <4>1, <4>2
    <3>5. QED
      BY <3>2, <3>3, <3>4 DEF Covered
  <2>3. CASE u \notin DOMAIN best
    <3>1. height(u) = e.distance
      BY <1>3, <2>3
    <3>2. height(h.to) \in Nat /\ height(h.to) <= e.distance
      BY <1>9
    <3> HIDE DEF height
    <3>3. QED
      BY <1>2, <2>1, <3>1, <3>2
  <2>4. QED
    BY <2>2, <2>3
<1> HIDE DEF height
<1>12. RouteIsShortest'
  BY <1>4, <1>6, <1>8, <1>10, <1>11 DEF RouteIsShortest
<1>13. RouteIsClear'
  BY <1>1, <1>2, <1>4 DEF RouteIsClear, PathOK
<1>14. NoRouteIsCertain' /\ phase' # "searching"
  BY <1>1 DEF NoRouteIsCertain
<1>15. QED
  BY <1>5, <1>12, <1>13, <1>14 DEF Inv

\* The heap is empty: only expanded nodes are covered any more.
LEMMA ExhaustKeepsInv ==
    ASSUME Inv, Exhaust
    PROVE  Inv'
<1>1. /\ phase = "searching" /\ queue = {} /\ phase' = "no_route" /\ UNCHANGED snapshot
      /\ queue' = queue /\ best' = best /\ route' = route
  BY DEF Exhaust
<1>2. Searching
  BY <1>1 DEF Inv
<1>3. SearchTypeOK'
  BY <1>1, SnapshotType DEF Inv, SearchTypeOK
<1>4. origin \in DOMAIN best /\ destination \notin DOMAIN best
  BY <1>1, <1>2 DEF Searching, Covered
<1>5. \A u \in DOMAIN best : \A h \in Hops(u) : h.to \in DOMAIN best \cup Avoided
  BY <1>1, <1>2 DEF Searching, Frontier, Covered
<1>6. NoRouteIsCertain'
  BY <1>1, <1>4, <1>5, SnapshotFixed DEF NoRouteIsCertain
<1>7. (RouteIsClear /\ RouteIsShortest)' /\ phase' # "searching"
  BY <1>1 DEF RouteIsClear, RouteIsShortest, Arrived
<1>8. QED
  BY <1>3, <1>6, <1>7 DEF Inv

\* The verdict, and a step that changes nothing of the search, leave everything else alone.
LEMMA VerifyKeepsInv ==
    ASSUME Inv, Verify
    PROVE  Inv'
<1>1. /\ phase = "found" /\ phase' \in {"safe", "unsafe"} /\ UNCHANGED snapshot
      /\ queue' = queue /\ best' = best /\ route' = route
  BY DEF Verify
<1>2. SearchTypeOK'
  BY <1>1, SnapshotType DEF Inv, SearchTypeOK
<1>3. Arrived /\ Arrived' /\ phase' # "searching" /\ phase' # "no_route"
  BY <1>1 DEF Arrived
<1>4. /\ origin' = origin /\ destination' = destination /\ Avoided' = Avoided
      /\ \A u : Hops(u)' = Hops(u)
  BY <1>1, SnapshotFixed
<1>5. \A n : Height(n)' = Height(n)
  BY <1>1, <1>4 DEF Height
<1>6. RouteIsShortest' /\ RouteIsClear'
  BY <1>1, <1>3, <1>4, <1>5 DEF Inv, RouteIsShortest, RouteIsClear
<1>7. QED
  BY <1>2, <1>3, <1>6 DEF Inv, NoRouteIsCertain

LEMMA StutterKeepsInv ==
    ASSUME Inv, UNCHANGED searchVars
    PROVE  Inv'
BY DEF Inv, searchVars, snapshot, SearchTypeOK, Searching, PathOK, SettledFirst, Frontier,
       Covered, Hops, Avoided, Blocked, NodeOf, RouteIsClear, RouteIsShortest, NoRouteIsCertain,
       Arrived, Height

LEMMA SearchInitInv == SearchInit => Inv
<1> SUFFICES ASSUME SearchInit PROVE Inv
  OBVIOUS
<1> DEFINE e0 == [distance |-> 0, path |-> <<origin>>]
<1>1. /\ queue = {e0} /\ best = [n \in {} |-> 0] /\ route = <<>> /\ phase = "searching"
      /\ origin \in Node /\ destination \in Node
  BY DEF SearchInit
<1>2. /\ e0 \in [distance : Nat, path : Seq(Node)] /\ e0.distance = 0 /\ e0.path = <<origin>>
      /\ Len(e0.path) = 1 /\ e0.path[1] = origin
  BY <1>1
<1>3. DOMAIN best = {}
  BY <1>1
<1> HIDE DEF e0
<1>4. SearchTypeOK
  <2>1. queue \subseteq [distance : Nat, path : Seq(Node)]
    BY <1>1, <1>2
  <2>2. QED
    BY <1>1, <1>3, <2>1 DEF SearchInit, SearchTypeOK
<1>5. PathOK(e0)
  BY <1>2 DEF PathOK
<1>6. Covered(origin, 0)
  <2>1. NodeOf(e0) = origin
    BY <1>2 DEF NodeOf
  <2>2. e0 \in queue /\ e0.distance <= 0
    BY <1>1, <1>2
  <2>3. QED
    BY <2>1, <2>2 DEF Covered
<1>7. Searching
  BY <1>1, <1>3, <1>5, <1>6 DEF Searching, SettledFirst, Frontier
<1>8. RouteIsClear /\ RouteIsShortest /\ NoRouteIsCertain
  BY <1>1 DEF RouteIsClear, RouteIsShortest, NoRouteIsCertain, Arrived
<1>9. QED
  BY <1>4, <1>7, <1>8 DEF Inv

-----------------------------------------------------------------------------
(* The reference.                                                           *)

Linked(p) == \A i \in 1 .. Len(p) - 1 : Roads(p[i], p[i + 1]) # {}

Simple(p) == \A i, j \in 1 .. Len(p) : p[i] = p[j] => i = j

\* A path on the heap goes along edges, meets no node twice, and costs what its entry says
\* at most: of two edges between its nodes it may have taken the longer one.
Passable(p, d) == Linked(p) /\ Simple(p) /\ WayLength(p) <= d

WaysInv ==
    /\ phase = "searching" => \A e \in queue : Passable(e.path, e.distance)
    /\ Arrived => Passable(route, best[destination])

LEMMA RoadsType ==
    ASSUME SearchTypeOK, NEW u \in Node, NEW v, Roads(u, v) # {}
    PROVE  /\ Least(Roads(u, v)) \in Nat
           /\ \E h \in Hops(u) : h.to = v /\ h.length = Least(Roads(u, v))
           /\ \A h \in Hops(u) : h.to = v => Least(Roads(u, v)) <= h.length
<1>1. Roads(u, v) \subseteq Nat
  BY HopType DEF Roads
<1>2. /\ Least(Roads(u, v)) \in Roads(u, v) /\ Least(Roads(u, v)) \in Nat
      /\ \A n \in Roads(u, v) : Least(Roads(u, v)) <= n
  BY <1>1, LeastExists
<1>3. QED
  BY <1>2 DEF Roads

\* What the lengths of the hops of a way are.
LEMMA HopLengthsType ==
    ASSUME SearchTypeOK, NEW p \in Seq(Node), Len(p) > 0, Linked(p)
    PROVE  /\ HopLengths(p) \in Seq(Nat) /\ Len(HopLengths(p)) = Len(p) - 1
           /\ \A i \in 1 .. Len(p) - 1 : HopLengths(p)[i] = Least(Roads(p[i], p[i + 1]))
<1>1. Len(p) \in Nat /\ Len(p) - 1 \in Nat
  OBVIOUS
<1>2. ASSUME NEW i \in 1 .. Len(p) - 1
      PROVE  Least(Roads(p[i], p[i + 1])) \in Nat
  <2>1. p[i] \in Node
    BY <1>1
  <2>2. QED
    BY <2>1, RoadsType DEF Linked
<1> DEFINE n == Len(p) - 1
           c == [i \in 1 .. n |-> Least(Roads(p[i], p[i + 1]))]
<1>3. c = HopLengths(p)
  BY DEF HopLengths
<1>4. \A i \in 1 .. n : c[i] = Least(Roads(p[i], p[i + 1])) /\ c[i] \in Nat
  BY <1>2
<1>5. c = [i \in 1 .. n |-> c[i]] /\ n \in Nat
  BY <1>1
<1> HIDE DEF c, n
<1>6. c \in Seq(Nat) /\ Len(c) = n
  BY <1>4, <1>5
<1>7. QED
  BY <1>3, <1>4, <1>6 DEF n

\* A way grows by the length of one more hop.
LEMMA WayGrows ==
    ASSUME SearchTypeOK, NEW p \in Seq(Node), Len(p) > 0, Linked(p), NEW v \in Node,
           Roads(p[Len(p)], v) # {}
    PROVE  /\ Linked(Append(p, v))
           /\ WayLength(p) \in Nat
           /\ WayLength(Append(p, v)) = WayLength(p) + Least(Roads(p[Len(p)], v))
<1> DEFINE q == Append(p, v)
           x == Least(Roads(p[Len(p)], v))
           c == HopLengths(p)
<1>1. /\ q \in Seq(Node) /\ Len(q) = Len(p) + 1 /\ Len(p) \in Nat /\ q[Len(p) + 1] = v
      /\ \A i \in 1 .. Len(p) : q[i] = p[i]
      /\ p[Len(p)] \in Node
  OBVIOUS
<1> HIDE DEF q
<1>2. ASSUME NEW i \in 1 .. Len(q) - 1
      PROVE  \/ i = Len(p) /\ q[i] = p[Len(p)] /\ q[i + 1] = v
             \/ i \in 1 .. Len(p) - 1 /\ q[i] = p[i] /\ q[i + 1] = p[i + 1]
  BY <1>1
<1>3. Linked(q)
  BY <1>2 DEF Linked
<1>4. x \in Nat
  BY <1>1, RoadsType
<1>5. /\ c \in Seq(Nat) /\ Len(c) = Len(p) - 1
      /\ \A i \in 1 .. Len(p) - 1 : c[i] = Least(Roads(p[i], p[i + 1]))
  BY HopLengthsType
<1>6. /\ HopLengths(q) \in Seq(Nat) /\ Len(HopLengths(q)) = Len(p)
      /\ \A i \in 1 .. Len(p) : HopLengths(q)[i] = Least(Roads(q[i], q[i + 1]))
  <2>1. Len(q) > 0 /\ Len(q) - 1 = Len(p)
    BY <1>1
  <2>2. /\ HopLengths(q) \in Seq(Nat) /\ Len(HopLengths(q)) = Len(q) - 1
        /\ \A i \in 1 .. Len(q) - 1 : HopLengths(q)[i] = Least(Roads(q[i], q[i + 1]))
    BY <1>1, <1>3, <2>1, HopLengthsType
  <2>3. QED
    BY <2>1, <2>2
<1> HIDE DEF c, x
<1>7. HopLengths(q) = Append(c, x)
  <2> DEFINE d == Append(c, x)
             g == HopLengths(q)
  <2>1. d \in Seq(Nat) /\ Len(d) = Len(p) /\ d[Len(p)] = x /\ \A i \in 1 .. Len(p) - 1 : d[i] = c[i]
    BY <1>1, <1>4, <1>5
  <2>2. ASSUME NEW i \in 1 .. Len(p)
        PROVE  g[i] = d[i]
    <3>1. i \in 1 .. Len(q) - 1
      BY <1>1
    <3>2. CASE i = Len(p)
      BY <1>1, <1>6, <2>1, <3>2 DEF x
    <3>3. CASE i # Len(p)
      <4>1. i \in 1 .. Len(p) - 1 /\ q[i] = p[i] /\ q[i + 1] = p[i + 1]
        BY <1>1, <1>2, <3>1, <3>3
      <4>2. QED
        BY <1>5, <1>6, <2>1, <4>1
    <3>4. QED
      BY <3>2, <3>3
  <2>3. g \in Seq(Nat) /\ Len(g) = Len(d)
    BY <1>6, <2>1
  <2> HIDE DEF d, g
  <2>4. g = d
    BY <2>1, <2>2, <2>3, SeqEqual
  <2>5. QED
    BY <2>4 DEF d, g
<1>8. Sums(Append(c, x))[Len(c) + 1] = Sums(c)[Len(c)] + x
  BY <1>4, <1>5, SumsAppend
<1>9. Sums(c)[Len(c)] \in Nat
  BY <1>5, SumsStep
<1>10. WayLength(q) = Sums(Append(c, x))[Len(c) + 1] /\ WayLength(p) = Sums(c)[Len(c)]
  <2>1. Len(q) - 1 = Len(c) + 1 /\ Len(p) - 1 = Len(c)
    BY <1>1, <1>5
  <2>2. QED
    BY <1>7, <2>1 DEF WayLength, c
<1>11. QED
  BY <1>3, <1>8, <1>9, <1>10 DEF q, x

\* How far a way is does not change while the snapshot stays.
LEMMA WaysFixed ==
    ASSUME UNCHANGED snapshot
    PROVE  /\ \A u, v : Roads(u, v)' = Roads(u, v)
           /\ \A p : HopLengths(p)' = HopLengths(p)
           /\ \A p, d : Passable(p, d)' <=> Passable(p, d)
           /\ \A p : IsWay(p)' <=> IsWay(p)
<1>1. \A u : Hops(u)' = Hops(u)
  BY SnapshotFixed
<1>2. \A u, v : Roads(u, v)' = Roads(u, v)
  BY <1>1 DEF Roads
<1>3. \A p : HopLengths(p)' = HopLengths(p)
  BY <1>2 DEF HopLengths
<1>4. ASSUME NEW CONSTANT p PROVE WayLength(p)' = WayLength(p)
  BY <1>3 DEF WayLength
<1>5. ASSUME NEW CONSTANT p, NEW CONSTANT d PROVE Passable(p, d)' <=> Passable(p, d)
  BY <1>2, <1>4 DEF Passable, Linked, Simple
<1>6. ASSUME NEW CONSTANT p PROVE IsWay(p)' <=> IsWay(p)
  BY <1>2, SnapshotFixed DEF IsWay
<1>7. QED
  BY <1>2, <1>3, <1>5, <1>6

\* The heap starts with the way from the origin to itself.
LEMMA InitWays == SearchInit => WaysInv
<1> SUFFICES ASSUME SearchInit PROVE WaysInv
  OBVIOUS
<1> DEFINE p0 == <<origin>>
<1>1. p0 \in Seq(Node) /\ Len(p0) = 1 /\ SearchTypeOK
  BY SearchInitInv DEF SearchInit, Inv
<1> HIDE DEF p0
<1>2. Linked(p0) /\ Simple(p0)
  BY <1>1 DEF Linked, Simple
<1>3. Len(p0) > 0 /\ Len(p0) - 1 = 0
  BY <1>1
<1>4. HopLengths(p0) \in Seq(Nat)
  BY <1>1, <1>2, <1>3, HopLengthsType
<1>5. WayLength(p0) = 0
  BY <1>3, <1>4, SumsStep DEF WayLength
<1>6. QED
  BY <1>2, <1>5 DEF SearchInit, WaysInv, Passable, Arrived, p0

\* An entry that is put on the heap continues the one taken off by one hop.
LEMMA ExtensionPassable ==
    ASSUME Inv, WaysInv, NEW e \in queue, Pop(e), NEW f \in Extensions(e)
    PROVE  Passable(f.path, f.distance)
<1>1. PICK h \in Hops(NodeOf(e)) :
          /\ f = [distance |-> e.distance + h.length, path |-> Append(e.path, h.to)]
          /\ h.to \notin Avoided \cup Nodes(e.path)
  BY DEF Extensions
<1>2. /\ SearchTypeOK /\ e.path \in Seq(Node) /\ Len(e.path) > 0 /\ e.distance \in Nat
      /\ NodeOf(e) \in Node
  BY Popped DEF Inv, PathOK
<1>3. h.to \in Node /\ h.length \in Nat
  BY <1>2, HopType
<1>4. Passable(e.path, e.distance)
  BY DEF WaysInv, Pop
<1>5. Roads(NodeOf(e), h.to) # {}
  BY DEF Roads
<1>6. Least(Roads(NodeOf(e), h.to)) <= h.length /\ Least(Roads(NodeOf(e), h.to)) \in Nat
  BY <1>2, <1>5, RoadsType
<1>7. /\ Linked(f.path)
      /\ WayLength(e.path) \in Nat
      /\ WayLength(f.path) = WayLength(e.path) + Least(Roads(NodeOf(e), h.to))
  BY <1>1, <1>2, <1>3, <1>4, <1>5, WayGrows DEF NodeOf, Passable
<1>8. WayLength(f.path) <= f.distance
  BY <1>1, <1>2, <1>3, <1>4, <1>6, <1>7 DEF Passable
<1>9. Simple(f.path)
  <2>1. /\ Len(f.path) = Len(e.path) + 1 /\ f.path[Len(e.path) + 1] = h.to
        /\ \A i \in 1 .. Len(e.path) : f.path[i] = e.path[i] /\ f.path[i] # h.to
    BY <1>1, <1>2, <1>3 DEF Nodes
  <2>2. QED
    BY <1>2, <1>4, <2>1 DEF Passable, Simple
<1>10. QED
  BY <1>7, <1>8, <1>9 DEF Passable

LEMMA SearchKeepsWays ==
    ASSUME Inv, WaysInv, SearchNext
    PROVE  WaysInv'
<1>1. ASSUME NEW e \in queue, Discard(e)
      PROVE  WaysInv'
  <2>1. /\ queue' = queue \ {e} /\ phase' = phase /\ phase = "searching" /\ UNCHANGED snapshot
    BY <1>1 DEF Discard, Pop
  <2>2. QED
    BY <2>1, WaysFixed DEF WaysInv, Arrived
<1>2. ASSUME NEW e \in queue, Arrive(e)
      PROVE  WaysInv'
  <2>1. /\ Pop(e) /\ ~Settled(e) /\ Settle(e) /\ route' = e.path /\ phase' = "found"
        /\ phase = "searching" /\ UNCHANGED snapshot /\ NodeOf(e) = destination
    BY <1>2 DEF Arrive, Pop
  <2>2. best'[destination'] = e.distance
    BY <2>1, SettleFacts, SnapshotFixed
  <2>3. Passable(e.path, e.distance)'
    BY <2>1, WaysFixed DEF WaysInv
  <2>4. QED
    BY <2>1, <2>2, <2>3 DEF WaysInv, Arrived, Passable, Linked, Simple, WayLength, HopLengths
<1>3. ASSUME NEW e \in queue, Expand(e)
      PROVE  WaysInv'
  <2>1. /\ Pop(e) /\ queue' = (queue \ {e}) \cup Extensions(e)
        /\ phase' = phase /\ phase = "searching" /\ UNCHANGED snapshot
    BY <1>3 DEF Expand, Pop
  <2>2. \A f \in queue' : Passable(f.path, f.distance)
    BY <2>1, ExtensionPassable DEF WaysInv
  <2>3. QED
    BY <2>1, <2>2, WaysFixed DEF WaysInv, Arrived
<1>4. CASE Exhaust
  BY <1>4 DEF Exhaust, WaysInv, Arrived
<1>5. QED
  BY <1>1, <1>2, <1>3, <1>4 DEF SearchNext

\* The verdict and the walk change no way.
LEMMA RestKeepsWays ==
    ASSUME WaysInv, UNCHANGED <<snapshot, queue, best, route>>,
           Verify \/ UNCHANGED phase
    PROVE  WaysInv'
<1>1. (phase' = "searching" <=> phase = "searching") /\ (Arrived' <=> Arrived)
  BY DEF Verify, Arrived
<1>2. \A p, d : Passable(p, d)' <=> Passable(p, d)
  BY WaysFixed
<1>3. CASE phase = "searching"
  BY <1>1, <1>2, <1>3 DEF WaysInv, Arrived
<1>4. CASE Arrived
  <2>1. best'[destination'] = best[destination] /\ route' = route
    BY DEF snapshot
  <2>2. Passable(route, best[destination])
    BY <1>4 DEF WaysInv
  <2>3. QED
    BY <1>1, <1>2, <1>4, <2>1, <2>2 DEF WaysInv, Arrived, Passable, Linked, Simple, WayLength,
       HopLengths
<1>5. QED
  BY <1>1, <1>3, <1>4 DEF WaysInv

\* No way climbs faster than it is long: the heights of the nodes bound the sums.
LEMMA NoWayIsShorterLemma ==
    ASSUME Inv, Arrived, NEW p \in Seq(Node), Len(p) > 0, IsWay(p)
    PROVE  best[destination] <= WayLength(p) /\ WayLength(p) \in Nat
<1> DEFINE c == HopLengths(p)
<1>1. /\ SearchTypeOK /\ RouteIsShortest /\ Linked(p) /\ Len(p) \in Nat
      /\ best[destination] \in Nat
  <2>1. SearchTypeOK /\ RouteIsShortest
    BY DEF Inv
  <2>2. best[destination] \in Nat
    BY <2>1 DEF SearchTypeOK, RouteIsShortest
  <2>3. Linked(p)
    BY DEF IsWay, Linked
  <2>4. QED
    BY <2>1, <2>2, <2>3
<1>2. /\ c \in Seq(Nat) /\ Len(c) = Len(p) - 1
      /\ \A i \in 1 .. Len(p) - 1 : c[i] = Least(Roads(p[i], p[i + 1]))
  BY <1>1, HopLengthsType
<1> HIDE DEF c
<1>3. /\ Sums(c)[0] = 0
      /\ \A i \in 0 .. Len(c) - 1 : Sums(c)[i + 1] = Sums(c)[i] + c[i + 1]
      /\ \A i \in 0 .. Len(c) : Sums(c)[i] \in Nat
  BY <1>2, SumsStep
<1>4. \A n \in Node : Height(n) \in Nat
  BY <1>1 DEF Height, SearchTypeOK
<1> DEFINE S == {n \in Nat : n < Len(p) => Height(p[n + 1]) <= Sums(c)[n]}
<1>5. 0 \in S
  BY <1>1, <1>3 DEF IsWay, RouteIsShortest
<1>6. ASSUME NEW n \in Nat, n \in S
      PROVE  n + 1 \in S
  <2> SUFFICES ASSUME n + 1 < Len(p) PROVE Height(p[n + 2]) <= Sums(c)[n + 1]
    BY <1>1
  <2>1. n + 1 \in 1 .. Len(p) - 1 /\ n \in 0 .. Len(c) - 1 /\ n + 2 \in 2 .. Len(p) /\ n < Len(p)
        /\ n \in 0 .. Len(c) /\ (n + 1) + 1 = n + 2
    BY <1>1, <1>2
  <2>2. p[n + 1] \in Node /\ p[n + 2] \in Node /\ p[n + 2] \notin Avoided
    BY <1>1, <2>1 DEF IsWay
  <2>3. Roads(p[n + 1], p[n + 2]) # {}
    BY <1>1, <2>1 DEF Linked
  <2>4. PICK h \in Hops(p[n + 1]) : h.to = p[n + 2] /\ h.length = c[n + 1]
    BY <1>1, <1>2, <2>1, <2>2, <2>3, RoadsType
  <2>5. Height(p[n + 2]) <= Height(p[n + 1]) + c[n + 1]
    BY <1>1, <2>2, <2>4 DEF RouteIsShortest
  <2>6. Height(p[n + 1]) <= Sums(c)[n]
    BY <1>6, <2>1
  <2>7. Sums(c)[n + 1] = Sums(c)[n] + c[n + 1] /\ Sums(c)[n] \in Nat /\ c[n + 1] \in Nat
    BY <1>2, <1>3, <2>1
  <2>8. Height(p[n + 1]) \in Nat /\ Height(p[n + 2]) \in Nat
    BY <1>4, <2>2
  <2>9. QED
    BY <2>5, <2>6, <2>7, <2>8
<1>7. Nat \subseteq S
  <2> HIDE DEF S
  <2>1. QED
    BY <1>5, <1>6, Induct
<1>8. Len(p) - 1 \in S /\ Len(p) - 1 < Len(p) /\ (Len(p) - 1) + 1 = Len(p)
  <2>1. Len(p) - 1 \in Nat
    BY <1>1
  <2>2. QED
    BY <1>1, <1>7, <2>1
<1>9. Height(p[Len(p)]) <= Sums(c)[Len(p) - 1]
  BY <1>8
<1>10. Height(p[Len(p)]) = best[destination]
  BY <1>1 DEF IsWay, Height, RouteIsShortest
<1>11. WayLength(p) = Sums(c)[Len(p) - 1] /\ Sums(c)[Len(p) - 1] \in Nat
  BY <1>1, <1>2, <1>3 DEF WayLength, c
<1>12. QED
  BY <1>9, <1>10, <1>11

\* No way leaves the region that a failed search has expanded.
LEMMA NoWayLeaves ==
    ASSUME Inv, phase = "no_route", NEW p \in Seq(Node), Len(p) > 0
    PROVE  ~IsWay(p)
<1> SUFFICES ASSUME IsWay(p) PROVE FALSE
  OBVIOUS
<1>1. /\ NoRouteIsCertain /\ SearchTypeOK /\ Len(p) \in Nat
      /\ p[Len(p)] = destination /\ p[1] = origin
  BY DEF Inv, IsWay
<1> DEFINE S == {n \in Nat : n < Len(p) => p[n + 1] \in DOMAIN best}
<1>2. 0 \in S
  BY <1>1 DEF NoRouteIsCertain
<1>3. ASSUME NEW n \in Nat, n \in S
      PROVE  n + 1 \in S
  <2> SUFFICES ASSUME n + 1 < Len(p) PROVE p[n + 2] \in DOMAIN best
    BY <1>1
  <2>1. n + 1 \in 1 .. Len(p) - 1 /\ n + 2 \in 2 .. Len(p) /\ n < Len(p) /\ (n + 1) + 1 = n + 2
    BY <1>1
  <2>2. p[n + 2] \notin Avoided /\ Roads(p[n + 1], p[n + 2]) # {}
    BY <2>1 DEF IsWay
  <2>3. PICK h \in Hops(p[n + 1]) : h.to = p[n + 2]
    BY <2>2 DEF Roads
  <2>4. p[n + 1] \in DOMAIN best
    BY <1>3, <2>1
  <2>5. QED
    BY <1>1, <2>2, <2>3, <2>4 DEF NoRouteIsCertain
<1>4. Nat \subseteq S
  <2> HIDE DEF S
  <2>1. QED
    BY <1>2, <1>3, Induct
<1>5. Len(p) - 1 \in Nat /\ Len(p) - 1 < Len(p) /\ (Len(p) - 1) + 1 = Len(p)
  BY <1>1
<1>6. p[Len(p)] \in DOMAIN best
  BY <1>4, <1>5
<1>7. QED
  BY <1>1, <1>6 DEF NoRouteIsCertain

\* A path that meets no node twice has no more nodes than the map.
LEMMA SimpleIsShort ==
    ASSUME NEW p \in Seq(Node), Simple(p)
    PROVE  Len(p) <= Cardinality(Node) /\ Cardinality(Node) \in Nat
<1>1. /\ Len(p) \in Nat /\ p \in [1 .. Len(p) -> Node]
      /\ IsFiniteSet(1 .. Len(p)) /\ Cardinality(1 .. Len(p)) = Len(p)
  <2>1. Len(p) \in Nat /\ p \in [1 .. Len(p) -> Node]
    OBVIOUS
  <2>2. IsFiniteSet(1 .. Len(p)) /\ Cardinality(1 .. Len(p)) = Len(p)
    <3> DEFINE n == Len(p)
    <3>1. n \in Nat
      BY <2>1
    <3> HIDE DEF n
    <3>2. IsFiniteSet(1 .. n) /\ Cardinality(1 .. n) = IF 1 > n THEN 0 ELSE n - 1 + 1
      BY <3>1, FS_Interval
    <3>3. Cardinality(1 .. n) = n
      BY <3>1, <3>2
    <3>4. QED
      BY <3>2, <3>3 DEF n
  <2>3. QED
    BY <2>1, <2>2
<1>2. IsFiniteSet(Node) /\ Cardinality(Node) \in Nat
  BY NodeAssumption, FS_CardinalityType
<1>3. IsInjective(p)
  BY <1>1 DEF Simple, IsInjective
<1>4. p \in Injection(1 .. Len(p), Node)
  BY <1>1, <1>3 DEF Injection
<1>5. QED
  BY <1>1, <1>2, <1>4, FS_Injection

-----------------------------------------------------------------------------
(* The walk.                                                                *)

WalkTypeOK ==
    /\ waitFor \in [Waiting -> Vehicle]
    /\ Waiting \subseteq Vehicle
    /\ selected \in Vehicle
    /\ current \in Vehicle
    /\ visited \subseteq Waiting
    /\ answer \in {"walking", "circular", "free"}

\* The vehicles met wait for one another or for the current one, and the walk never leaves a
\* stuck group it started in.
WalkInv ==
    /\ WalkTypeOK
    /\ selected \in visited \cup {current}
    /\ \A v \in visited : waitFor[v] \in visited \cup {current}
    /\ \A S \in SUBSET Vehicle : Stuck(S) /\ selected \in S => current \in S
    /\ answer = "circular" => current \in visited
    /\ answer = "free" => current \notin Waiting

LEMMA FollowKeepsWalk ==
    ASSUME WalkInv, Follow
    PROVE  WalkInv'
<1>1. /\ current \in Waiting /\ visited' = visited \cup {current}
      /\ current' = waitFor[current] /\ answer' = answer /\ answer = "walking"
      /\ waitFor' = waitFor /\ selected' = selected
  BY DEF Follow, Walking
<1>2. Waiting' = Waiting /\ waitFor[current] \in Vehicle
  BY <1>1 DEF WalkInv, WalkTypeOK, Waiting
<1>3. WalkTypeOK'
  BY <1>1, <1>2 DEF WalkInv, WalkTypeOK
<1>4. /\ selected' \in visited' \cup {current'}
      /\ \A v \in visited' : waitFor'[v] \in visited' \cup {current'}
  BY <1>1 DEF WalkInv
<1>5. ASSUME NEW S \in SUBSET Vehicle, Stuck(S), selected \in S
      PROVE  waitFor[current] \in S
  BY <1>5 DEF WalkInv, Stuck
<1>6. \A S : Stuck(S)' <=> Stuck(S)
  BY <1>1, <1>2 DEF Stuck
<1>7. QED
  BY <1>1, <1>3, <1>4, <1>5, <1>6 DEF WalkInv

LEMMA AnswerKeepsWalk ==
    ASSUME WalkInv, MeetAgain \/ Finish
    PROVE  WalkInv'
<1>1. /\ waitFor' = waitFor /\ selected' = selected /\ current' = current
      /\ visited' = visited /\ Waiting' = Waiting
  BY DEF MeetAgain, Finish, Walking, Waiting
<1>2. /\ answer' \in {"circular", "free"}
      /\ answer' = "circular" => current \in visited
      /\ answer' = "free" => current \notin Waiting
  BY DEF MeetAgain, Finish
<1>3. \A S : Stuck(S)' <=> Stuck(S)
  BY <1>1 DEF Stuck
<1>4. WalkTypeOK'
  BY <1>1, <1>2 DEF WalkInv, WalkTypeOK
<1>5. QED
  BY <1>1, <1>2, <1>3, <1>4 DEF WalkInv

LEMMA RestKeepsWalk ==
    ASSUME WalkInv, UNCHANGED engineVars
    PROVE  WalkInv'
BY DEF WalkInv, WalkTypeOK, engineVars, walk, Waiting, Stuck

-----------------------------------------------------------------------------
(* Both together.                                                           *)

LEMMA InitInv == Init => Inv /\ WalkInv
<1> SUFFICES ASSUME Init PROVE Inv /\ WalkInv
  OBVIOUS
<1>1. Inv
  BY SearchInitInv DEF Init
<1>2. PICK W \in SUBSET Vehicle : waitFor \in [W -> Vehicle]
  BY DEF Init
<1>3. Waiting = W
  BY <1>2 DEF Waiting
<1>4. WalkInv
  BY <1>2, <1>3 DEF Init, WalkInv, WalkTypeOK
<1>5. QED
  BY <1>1, <1>4

LEMMA SearchKeepsInv ==
    ASSUME Inv, SearchNext
    PROVE  Inv'
<1>1. ASSUME NEW e \in queue, Discard(e) PROVE Inv'
  BY <1>1, DiscardKeepsInv
<1>2. ASSUME NEW e \in queue, Arrive(e) PROVE Inv'
  BY <1>2, ArriveKeepsInv
<1>3. ASSUME NEW e \in queue, Expand(e) PROVE Inv'
  BY <1>3, ExpandKeepsInv
<1>4. QED
  BY <1>1, <1>2, <1>3, ExhaustKeepsInv DEF SearchNext

LEMMA StepInv == Inv /\ WalkInv /\ [Next]_vars => Inv' /\ WalkInv'
<1> SUFFICES ASSUME Inv, WalkInv, [Next]_vars PROVE Inv' /\ WalkInv'
  OBVIOUS
<1>1. CASE Plan
  BY <1>1, SearchKeepsInv, RestKeepsWalk DEF Plan
<1>2. CASE Follow \/ MeetAgain \/ Finish
  <2>1. UNCHANGED searchVars
    BY <1>2 DEF Follow, MeetAgain, Finish, Walking
  <2>2. QED
    BY <1>2, <2>1, StutterKeepsInv, FollowKeepsWalk, AnswerKeepsWalk
<1>3. CASE Verify
  <2>1. UNCHANGED engineVars
    BY <1>3 DEF Verify
  <2>2. QED
    BY <1>3, <2>1, VerifyKeepsInv, RestKeepsWalk
<1>4. CASE UNCHANGED vars
  <2>1. UNCHANGED searchVars /\ UNCHANGED engineVars
    BY <1>4 DEF vars
  <2>2. QED
    BY <2>1, StutterKeepsInv, RestKeepsWalk
<1>5. QED
  BY <1>1, <1>2, <1>3, <1>4 DEF Next

THEOREM Invariant == Spec => [](Inv /\ WalkInv)
BY InitInv, StepInv, PTL DEF Spec

\* No step of the planner or of the safety engine leaves the states the code can be in.
THEOREM TypeCorrect == Spec => []TypeOK
<1>1. Inv /\ WalkInv => TypeOK
  BY DEF Inv, WalkInv, WalkTypeOK, TypeOK
<1>2. QED
  BY <1>1, Invariant, PTL

\* On any map, whatever the planner returns is a way from the origin to the destination as
\* short as any that avoids the same nodes.
THEOREM PlannedRouteIsShortest == Spec => []RouteIsShortest
<1>1. Inv => RouteIsShortest
  BY DEF Inv
<1>2. QED
  BY <1>1, Invariant, PTL

\* On any map, the planner refuses only a destination that is cut off.
THEOREM RefusalIsCertain == Spec => []NoRouteIsCertain
<1>1. Inv => NoRouteIsCertain
  BY DEF Inv
<1>2. QED
  BY <1>1, Invariant, PTL

\* A step of the search keeps the ways; any other step leaves them alone.
LEMMA StepWays ==
    ASSUME Inv, WaysInv, [Next]_vars
    PROVE  WaysInv'
<1>1. CASE Plan
  BY <1>1, SearchKeepsWays DEF Plan
<1>2. CASE Verify
  BY <1>2, RestKeepsWays DEF Verify
<1>3. CASE Follow \/ MeetAgain \/ Finish \/ UNCHANGED vars
  <2>1. UNCHANGED searchVars
    BY <1>3 DEF Follow, MeetAgain, Finish, Walking, vars
  <2>2. QED
    BY <2>1, RestKeepsWays DEF searchVars
<1>4. QED
  BY <1>1, <1>2, <1>3 DEF Next

THEOREM WaysInvariant == Spec => [](Inv /\ WaysInv)
<1>1. Init => Inv /\ WaysInv
  BY InitInv, InitWays DEF Init
<1>2. Inv /\ WalkInv /\ WaysInv /\ [Next]_vars => WaysInv'
  BY StepWays
<1>3. QED
  BY <1>1, <1>2, Invariant, PTL DEF Spec

\* On any map, of all the ways there are, whatever detours they take and however often they
\* meet a node, none is shorter than the length found, and there is none if none is found.
NoWayIsShorter ==
    \A p \in Seq(Node) :
        Len(p) > 0 /\ IsWay(p) =>
            /\ phase # "no_route"
            /\ Arrived => best[destination] <= WayLength(p)

THEOREM EveryWayIsAsLong == Spec => []NoWayIsShorter
<1>1. Inv => NoWayIsShorter
  BY NoWayIsShorterLemma, NoWayLeaves DEF NoWayIsShorter
<1>2. QED
  BY <1>1, Invariant, PTL

\* On any map, the planner's answer is the one that comparing all ways gives: a route that is
\* one of them, of the length it is entered with, as short as any; or none if there are none.
THEOREM SearchAgreesWithReference == Spec => []AgreesWithReference
<1>1. ASSUME Inv, WaysInv
      PROVE  AgreesWithReference
  <2>1. ASSUME NEW p \in Ways
        PROVE  p \in Seq(Node) /\ Len(p) > 0 /\ IsWay(p)
    <3>1. PICK k \in 1 .. Cardinality(Node) : p \in [1 .. k -> Node]
      BY DEF Ways
    <3>2. Cardinality(Node) \in Nat
      BY NodeAssumption, FS_CardinalityType
    <3>3. k \in Nat /\ k > 0
      BY <3>1, <3>2
    <3>4. p \in Seq(Node) /\ Len(p) = k
      BY <3>1, <3>3
    <3>5. QED
      BY <3>3, <3>4 DEF Ways
  <2>2. ASSUME Arrived
        PROVE  /\ route \in Ways
               /\ best[destination] = WayLength(route)
               /\ \A p \in Ways : WayLength(route) <= WayLength(p)
    <3>1. /\ route \in Seq(Node) /\ route # <<>> /\ route[1] = origin
          /\ route[Len(route)] = destination
          /\ destination \in DOMAIN best /\ best[destination] \in Nat
          /\ \A i \in 2 .. Len(route) : route[i] \notin Avoided
      BY <1>1, <2>2 DEF Inv, SearchTypeOK, RouteIsShortest, RouteIsClear
    <3>2. Passable(route, best[destination])
      BY <1>1, <2>2 DEF WaysInv
    <3>3. Len(route) > 0 /\ Len(route) \in Nat
      BY <3>1
    <3>4. IsWay(route)
      BY <3>1, <3>2 DEF IsWay, Passable, Linked
    <3>5. best[destination] <= WayLength(route) /\ WayLength(route) \in Nat
      BY <1>1, <2>2, <3>1, <3>3, <3>4, NoWayIsShorterLemma
    <3>6. best[destination] = WayLength(route)
      BY <3>1, <3>2, <3>5 DEF Passable
    <3>7. route \in Ways
      <4>1. Len(route) <= Cardinality(Node) /\ Cardinality(Node) \in Nat
        BY <3>1, <3>2, SimpleIsShort DEF Passable
      <4>2. Len(route) \in 1 .. Cardinality(Node) /\ route \in [1 .. Len(route) -> Node]
        BY <3>1, <3>3, <4>1
      <4>3. QED
        BY <3>4, <4>2 DEF Ways
    <3>8. \A p \in Ways : WayLength(route) <= WayLength(p)
      BY <1>1, <2>1, <2>2, <3>6, NoWayIsShorterLemma
    <3>9. QED
      BY <3>6, <3>7, <3>8
  <2>3. ASSUME phase = "no_route"
        PROVE  Ways = {}
    BY <1>1, <2>1, <2>3, NoWayLeaves
  <2>4. QED
    BY <2>2, <2>3 DEF AgreesWithReference
<1>2. QED
  BY <1>1, WaysInvariant, PTL

\* On any map, with any obstacles, a planned route meets no forbidden zone and no obstacle
\* that the safety engine counts, but where it starts and where one ends just then.
THEOREM PlannedRouteIsClear == Spec => []UnsafeOnlyAtOrigin
<1>1. Inv => UnsafeOnlyAtOrigin
  <2> SUFFICES ASSUME Inv, Arrived, NEW n \in Hits, n \notin Expiring
               PROVE  n = origin
    BY DEF UnsafeOnlyAtOrigin
  <2>1. n \in Avoided
    <3>1. CASE n \in forbidden
      BY <3>1 DEF Avoided
    <3>2. CASE n \in ActiveObstacles
      <4>1. PICK o \in obstacles : /\ o.node = n /\ "engine" \in o.fresh
                                   /\ o.confidence = "high" \/ o.repeated
        BY <3>2 DEF ActiveObstacles
      <4>2. o.fresh \subseteq {"planner", "engine"} /\ o.fresh # {"engine"}
        BY <4>1 DEF Inv, SearchTypeOK, Obstacle, Expiring
      <4>3. QED
        BY <4>1, <4>2 DEF Avoided, Blocked
    <3>3. QED
      BY <3>1, <3>2 DEF Hits
  <2>2. PICK i \in 1 .. Len(route) : n = route[i]
    BY DEF Hits, Nodes
  <2>3. route \in Seq(Node) /\ route[1] = origin
    BY DEF Inv, SearchTypeOK, RouteIsShortest
  <2>4. i \notin 2 .. Len(route)
    BY <2>1, <2>2 DEF Inv, RouteIsClear
  <2>5. i = 1
    BY <2>2, <2>3, <2>4
  <2>6. QED
    BY <2>2, <2>3, <2>5
<1>2. QED
  BY <1>1, Invariant, PTL

\* For any vehicles and any wait-for graph, the deadlock check refuses every vehicle of a
\* cycle, and nobody but those that wait for ever.
THEOREM DeadlocksAreRefused == Spec => []DeadlockIsRefused
<1>1. WalkInv => DeadlockIsRefused
  <2> SUFFICES ASSUME WalkInv PROVE DeadlockIsRefused
    OBVIOUS
  <2>1. ASSUME answer = "circular"
        PROVE  \E S \in SUBSET Vehicle : Stuck(S) /\ selected \in S
    <3>1. visited \subseteq Waiting /\ visited \subseteq Vehicle /\ current \in visited
      BY <2>1 DEF WalkInv, WalkTypeOK
    <3>2. Stuck(visited) /\ selected \in visited
      BY <3>1 DEF WalkInv, Stuck
    <3>3. QED
      BY <3>1, <3>2
  <2>2. ASSUME answer = "free", NEW S \in SUBSET Vehicle, Cycle(S)
        PROVE  selected \notin S
    BY <2>2 DEF WalkInv, Stuck, Cycle
  <2>3. QED
    BY <2>1, <2>2 DEF DeadlockIsRefused
<1>2. QED
  BY <1>1, Invariant, PTL
=============================================================================
