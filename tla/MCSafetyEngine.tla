---------------------------- MODULE MCSafetyEngine ----------------------------
(* Small maps and wait-for graphs for TLC.                                  *)
EXTENDS SafetyEngine

CONSTANT Length     \* lengths of a two-way edge; one-way edges have length 1

Pairs == {p \in Node \X Node : p[1] < p[2]}

\* Between two nodes: no edge, a two-way edge, or a one-way edge upwards.
Road == {<<0, TRUE>>, <<1, FALSE>>} \cup (Length \X {TRUE})

Maps ==
    {{[from |-> p[1], to |-> p[2], length |-> f[p][1], both |-> f[p][2]] :
        p \in {q \in Pairs : f[q][1] > 0}} : f \in [Pairs -> Road]}

\* Two ways from node 1 to node 4, as on the map of scenarios/hero.json.
Diamond ==
    {[from |-> a, to |-> b, length |-> IF a + b = 6 THEN 2 ELSE 1, both |-> TRUE] :
        a \in {1}, b \in {2, 3}}
    \cup {[from |-> b, to |-> 4, length |-> 4 - b, both |-> TRUE] : b \in {2, 3}}

\* Every map, from its first to its last node.
AnyMap ==
    /\ edges \in Maps
    /\ obstacles = {}
    /\ forbidden \in SUBSET {2}
    /\ origin = 1
    /\ destination = 4
    /\ waitFor = [v \in {} |-> v]

\* Up to two obstacles of every kind, and the journeys from and to node 4.
AnyObstacles ==
    /\ edges = Diamond
    /\ obstacles \in {{}} \cup {{o, p} : o, p \in Obstacle}
    /\ forbidden \in SUBSET {2}
    /\ origin \in {1, 4}
    /\ destination = 4
    /\ waitFor = [v \in {} |-> v]

\* Every wait-for graph.
AnyWait ==
    /\ edges = Diamond
    /\ obstacles = {}
    /\ forbidden = {}
    /\ origin = 1
    /\ destination = 4

\* Which vehicle is planned makes no difference: the wait-for graphs are all there.
PlanningInit ==
    /\ AnyMap \/ AnyObstacles \/ AnyWait
    /\ selected = CHOOSE v \in Vehicle : TRUE
    /\ Init

PlanningSpec == PlanningInit /\ [][Next]_vars /\ WF_vars(Next)
=============================================================================
