----------------------------- MODULE RoutePlanner -----------------------------
(***************************************************************************)
(* DeterministicPlanner._shortest_path (simulator.py), one pop of its heap  *)
(* at a time, over the map, zones and obstacles of a snapshot.              *)
(* Nodes are numbered in the order of their names, by which the heap breaks *)
(* ties.  No two edges between two nodes have one length (the heap cannot   *)
(* compare them), so an entry is known by its distance and path.            *)
(***************************************************************************)
EXTENDS Naturals, Sequences, FiniteSets

CONSTANT Node

ASSUME NodeAssumption == Node \subseteq Nat /\ IsFiniteSet(Node)

Edge == [from : Node, to : Node, length : Nat \ {0}, both : BOOLEAN]

\* Confidence is below 0.5, below 0.9 or above.  fresh says who takes it to be within
\* its ttl_seconds: the planner adds floats and the safety engine adds datetimes, so
\* when it ends as the snapshot is taken one of them may and the other may not.
Obstacle ==
    [node : Node, confidence : {"low", "medium", "high"},
     repeated : BOOLEAN, fresh : SUBSET {"planner", "engine"}]

VARIABLES
    edges, forbidden, obstacles,    \* the snapshot: map, zones, what was seen
    origin, destination,
    queue,      \* the heap
    best,       \* distance of every node expanded so far
    route,
    phase       \* "searching", "found" or "no_route"; a verdict comes later

snapshot == <<edges, forbidden, obstacles, origin, destination>>
searchVars == <<snapshot, queue, best, route, phase>>

-----------------------------------------------------------------------------
\* A slip: an obstacle seen twice does not count unless it is certain.
Blocked_CertainOnly ==
    {o.node : o \in {x \in obstacles : "planner" \in x.fresh /\ x.confidence = "high"}}

\* The obstacles the planner drives around.
Blocked ==
    {o.node : o \in {x \in obstacles :
        "planner" \in x.fresh /\ (x.confidence = "high" \/ x.repeated)}}

Avoided == Blocked \cup forbidden

\* Where an edge leads from node u.
Hops(u) ==
    {[to |-> e.to, length |-> e.length] : e \in {x \in edges : x.from = u}}
        \cup {[to |-> e.from, length |-> e.length] : e \in {x \in edges : x.both /\ x.to = u}}

Nodes(path) == {path[i] : i \in 1 .. Len(path)}

NodeOf(entry) == entry.path[Len(entry.path)]

\* Order of paths as Python compares lists.
NotAfter(p, q) ==
    \/ Len(p) <= Len(q) /\ SubSeq(q, 1, Len(p)) = p
    \/ \E i \in 1 .. Len(p) :
          /\ i <= Len(q)
          /\ SubSeq(p, 1, i - 1) = SubSeq(q, 1, i - 1)
          /\ p[i] < q[i]

\* A slip: the heap is ordered by the number of nodes.
Precedes_Hops(e, f) == Len(e.path) <= Len(f.path)

\* Order of heap entries: distance, node, path.
Precedes(e, f) ==
    \/ e.distance < f.distance
    \/ e.distance = f.distance /\ NodeOf(e) < NodeOf(f)
    \/ e.distance = f.distance /\ NodeOf(e) = NodeOf(f) /\ NotAfter(e.path, f.path)

Settled(e) == NodeOf(e) \in DOMAIN best /\ best[NodeOf(e)] <= e.distance

Settle(e) ==
    best' = [n \in DOMAIN best \cup {NodeOf(e)} |->
                IF n = NodeOf(e) THEN e.distance ELSE best[n]]

Extensions(e) ==
    {[distance |-> e.distance + h.length, path |-> Append(e.path, h.to)] :
        h \in {x \in Hops(NodeOf(e)) : x.to \notin Avoided \cup Nodes(e.path)}}

-----------------------------------------------------------------------------
SearchInit ==
    /\ edges \in SUBSET Edge
    /\ forbidden \in SUBSET Node
    /\ obstacles \in SUBSET Obstacle
    /\ origin \in Node
    /\ destination \in Node
    /\ queue = {[distance |-> 0, path |-> <<origin>>]}
    /\ best = [n \in {} |-> 0]
    /\ route = <<>>
    /\ phase = "searching"

Pop(e) ==
    /\ phase = "searching"
    /\ e \in queue
    /\ \A f \in queue : Precedes(e, f)
    /\ UNCHANGED snapshot

Discard(e) ==
    /\ Pop(e)
    /\ Settled(e)
    /\ queue' = queue \ {e}
    /\ UNCHANGED <<best, route, phase>>

Arrive(e) ==
    /\ Pop(e)
    /\ ~Settled(e)
    /\ NodeOf(e) = destination
    /\ Settle(e)
    /\ queue' = queue \ {e}
    /\ route' = e.path
    /\ phase' = "found"

Expand(e) ==
    /\ Pop(e)
    /\ ~Settled(e)
    /\ NodeOf(e) # destination
    /\ Settle(e)
    /\ queue' = (queue \ {e}) \cup Extensions(e)
    /\ UNCHANGED <<route, phase>>

\* A slip: the search stops with one entry left.
Exhaust_Early ==
    /\ phase = "searching"
    /\ best # [n \in {} |-> 0]
    /\ \A e, f \in queue : e = f
    /\ phase' = "no_route"
    /\ UNCHANGED <<snapshot, queue, best, route>>

\* The heap is empty: NoFeasiblePlan.
Exhaust ==
    /\ phase = "searching"
    /\ queue = {}
    /\ phase' = "no_route"
    /\ UNCHANGED <<snapshot, queue, best, route>>

SearchNext == (\E e \in queue : Discard(e) \/ Arrive(e) \/ Expand(e)) \/ Exhaust

-----------------------------------------------------------------------------
Arrived == phase \in {"found", "safe", "unsafe"}

SearchTypeOK ==
    /\ edges \subseteq Edge
    /\ forbidden \subseteq Node
    /\ obstacles \subseteq Obstacle
    /\ origin \in Node
    /\ destination \in Node
    /\ queue \subseteq [distance : Nat, path : Seq(Node)]
    /\ DOMAIN best \subseteq Node
    /\ \A n \in DOMAIN best : best[n] \in Nat
    /\ route \in Seq(Node)
    /\ phase \in {"searching", "found", "no_route", "safe", "unsafe"}

\* No way from the origin is shorter than the planned one (simulator.py 251-279): each node
\* gets a height, the destination's being the length found, that no hop to a node that need
\* not be avoided climbs faster than its length.
Height(n) == IF n \in DOMAIN best THEN best[n] ELSE best[destination]

RouteIsShortest ==
    Arrived =>
        /\ route # <<>> /\ route[1] = origin /\ route[Len(route)] = destination
        /\ destination \in DOMAIN best
        /\ Height(origin) = 0
        /\ \A u \in Node : \A h \in Hops(u) :
              h.to \notin Avoided => Height(h.to) <= Height(u) + h.length

\* A search that ends without a route (simulator.py 279) has expanded a region around the
\* origin that no hop leaves but to an avoided node, and the destination lies outside it.
NoRouteIsCertain ==
    phase = "no_route" =>
        /\ origin \in DOMAIN best
        /\ destination \notin DOMAIN best
        /\ \A u \in DOMAIN best : \A h \in Hops(u) : h.to \in DOMAIN best \cup Avoided

-----------------------------------------------------------------------------
(* The reference: all the ways there are.                                   *)

Roads(u, v) == {h.length : h \in {x \in Hops(u) : x.to = v}}

Least(S) == CHOOSE n \in S : \A m \in S : n <= m

\* The shortest edge at every hop of p, and how far it is in all.
HopLengths(p) == [i \in 1 .. Len(p) - 1 |-> Least(Roads(p[i], p[i + 1]))]

Sums(c) ==
    LET sum[i \in 0 .. Len(c)] == IF i = 0 THEN 0 ELSE sum[i - 1] + c[i]
    IN  sum

WayLength(p) == Sums(HopLengths(p))[Len(p) - 1]

IsWay(p) ==
    /\ p[1] = origin
    /\ p[Len(p)] = destination
    /\ \A i \in 2 .. Len(p) : p[i] \notin Avoided
    /\ \A i \in 1 .. Len(p) - 1 : Roads(p[i], p[i + 1]) # {}

Ways == {p \in UNION {[1 .. k -> Node] : k \in 1 .. Cardinality(Node)} : IsWay(p)}

\* _shortest_path (simulator.py 251-279) returns a way that is as short as any, and gives up
\* only if there is none.
AgreesWithReference ==
    /\ Arrived =>
          /\ route \in Ways
          /\ best[destination] = WayLength(route)
          /\ \A p \in Ways : WayLength(route) <= WayLength(p)
    /\ phase = "no_route" => Ways = {}
=============================================================================
