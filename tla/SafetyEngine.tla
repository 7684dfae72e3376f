----------------------------- MODULE SafetyEngine -----------------------------
(***************************************************************************)
(* SafetyEngine.verify (safety.py) on the route that RoutePlanner finds:    *)
(* the checks of the route's nodes, which filter obstacles by a rule of     *)
(* their own, and the walk of _has_circular_wait, one turn of its loop a    *)
(* step.  The other checks compare single fields and are left out.          *)
(***************************************************************************)
EXTENDS RoutePlanner

CONSTANT Vehicle

VARIABLES
    waitFor,    \* the snapshot's wait_for: a function on the vehicles that wait
    selected,   \* the planned vehicle
    current, visited,
    answer      \* of the walk: "walking", "circular" or "free"

walk == <<current, visited, answer>>
engineVars == <<waitFor, selected, walk>>
vars == <<searchVars, engineVars>>

Waiting == DOMAIN waitFor

\* The obstacles the safety engine counts as collisions.
ActiveObstacles ==
    {o.node : o \in {x \in obstacles :
        /\ "engine" \in x.fresh
        /\ x.confidence = "high" \/ (x.confidence = "medium" /\ x.repeated)}}

\* Nodes of obstacles that end for the planner before they end for the engine.
Expiring == {o.node : o \in {x \in obstacles : x.fresh = {"engine"}}}

\* Nodes of the route that fail forbidden_zone or the obstacle half of collision.
Hits == Nodes(route) \cap (forbidden \cup ActiveObstacles)

-----------------------------------------------------------------------------
Init ==
    /\ SearchInit
    /\ waitFor \in UNION {[W -> Vehicle] : W \in SUBSET Vehicle}
    /\ selected \in Vehicle
    /\ current = selected
    /\ visited = {}
    /\ answer = "walking"

Plan == SearchNext /\ UNCHANGED engineVars

Walking ==
    /\ phase = "found"
    /\ answer = "walking"
    /\ UNCHANGED <<searchVars, waitFor, selected>>

\* A slip: who was met is not remembered.
Follow_Forgets ==
    /\ Walking
    /\ current \in Waiting \ visited
    /\ current' = waitFor[current]
    /\ UNCHANGED <<visited, answer>>

\* A slip: the next vehicle is remembered instead of this one.
Follow_Ahead ==
    /\ Walking
    /\ current \in Waiting \ visited
    /\ visited' = visited \cup {waitFor[current]}
    /\ current' = waitFor[current]
    /\ UNCHANGED answer

Follow ==
    /\ Walking
    /\ current \in Waiting \ visited
    /\ visited' = visited \cup {current}
    /\ current' = waitFor[current]
    /\ UNCHANGED answer

\* Someone is met again, whether or not it is the planned vehicle.
MeetAgain ==
    /\ Walking
    /\ current \in Waiting \cap visited
    /\ answer' = "circular"
    /\ UNCHANGED <<current, visited>>

\* The last line of the function looks current up once more.
Finish ==
    /\ Walking
    /\ current \notin Waiting
    /\ answer' = IF current \in visited THEN "circular" ELSE "free"
    /\ UNCHANGED <<current, visited>>

Verify ==
    /\ phase = "found"
    /\ answer # "walking"
    /\ phase' = IF Hits = {} /\ answer = "free" THEN "safe" ELSE "unsafe"
    /\ UNCHANGED <<snapshot, queue, best, route, engineVars>>

Next == Plan \/ Follow \/ MeetAgain \/ Finish \/ Verify

Spec == Init /\ [][Next]_vars

\* Both loops run on.
FairSpec == Spec /\ WF_vars(Next)

-----------------------------------------------------------------------------
TypeOK ==
    /\ SearchTypeOK
    /\ waitFor \in [Waiting -> Vehicle]
    /\ Waiting \subseteq Vehicle
    /\ selected \in Vehicle
    /\ current \in Vehicle
    /\ visited \subseteq Waiting
    /\ answer \in {"walking", "circular", "free"}

\* The planner and the safety engine filter obstacles by rules of their own (simulator.py
\* 191-197, safety.py 64-76); a planned route may still fail the engine's check of its nodes,
\* but only at the node where the vehicle stands, or at an obstacle that ends while they look.
UnsafeOnlyAtOrigin == Arrived => Hits \subseteq {origin} \cup Expiring

\* Vehicles that all wait, and only for one another.
Stuck(S) == S \subseteq Waiting /\ \A v \in S : waitFor[v] \in S

\* A cycle of the wait-for graph: no fewer of them wait for one another.
Cycle(S) ==
    /\ Stuck(S) /\ S # {}
    /\ \A T \in SUBSET S : Stuck(T) /\ T # {} => T = S

\* The engine's deadlock check lets no vehicle of a cycle through ("not part of a cycle in
\* the live wait-for graph", docs/SAFETY_RULES.md:12), and refuses nobody who may yet move:
\* whom it refuses waits for ever, on a chain that leads into a cycle if not in one.
DeadlockIsRefused ==
    /\ answer = "free" => \A S \in SUBSET Vehicle : Cycle(S) => selected \notin S
    /\ answer = "circular" => \E S \in SUBSET Vehicle : Stuck(S) /\ selected \in S

\* Every journey is refused or judged: the search ends on every map, and the walk in every
\* ring, one that never comes back to the planned vehicle too (simulator.py 265-279,
\* safety.py 212-217).
PlanIsJudged == <>(phase \in {"no_route", "safe", "unsafe"})
=============================================================================
