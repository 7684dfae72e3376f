--------------------------- MODULE SimulatorAdapter ---------------------------
(***************************************************************************)
(* SimulatorAdapter (adapters.py) and the part of ReferenceWorld it acts    *)
(* on: the selected vehicle and the pallet.  A session owns one adapter and *)
(* one world.  Its methods are operators from an adapter record to the next.*)
(*                                                                          *)
(* A route is abstracted to its number of nodes, the vehicle's place to an  *)
(* index into it.  Every mission of a session carries the same idempotency  *)
(* key ("dispatch:" and the hash of the session's one proposal), so         *)
(* _idempotency_index is one mission id, 0 while it is empty.               *)
(***************************************************************************)
EXTENDS Naturals

CONSTANT MaxMission     \* bound: how many missions a session may be given

ASSUME MaxMissionAssumption == MaxMission \in Nat

MissionId == 1..MaxMission

\* A mission id that _missions does not hold.
NoMission == [status |-> "NONE", node |-> 0, route |-> 0]

\* A RoutePlan has at least two nodes.
Route == Nat \ {0, 1}

AdapterMission ==
    {NoMission} \cup
    [status : {"EXECUTING", "SAFE_STOP", "COMPLETED"}, node : Nat, route : Route]

Adapter ==
    [missions   : [MissionId -> AdapterMission],
     dispatched : MissionId \cup {0},
     agv        : {"IDLE", "EXECUTING", "STOPPED"},
     delivered  : BOOLEAN]

NewAdapter ==
    [missions   |-> [m \in MissionId |-> NoMission],
     dispatched |-> 0,
     agv        |-> "IDLE",
     delivered  |-> FALSE]

\* Mutant of start: every dispatch stores, whatever the idempotency index says.
StartMission_NoIndex(a, m, route) ==
    [a EXCEPT !.missions[m] = [status |-> "EXECUTING", node |-> 0, route |-> route],
              !.dispatched = m, !.agv = "EXECUTING"]

\* start: a second dispatch under the same key returns the mission that the
\* first one stored, whatever id the caller's mission has, and does nothing.
StartMission(a, m, route) ==
    IF a.dispatched # 0
    THEN a
    ELSE [a EXCEPT !.missions[m] = [status |-> "EXECUTING", node |-> 0,
                                    route |-> route],
                   !.dispatched = m,
                   !.agv = "EXECUTING"]

\* One node further, as far as the route goes.
NextNode(mission) ==
    IF mission.node + 1 < mission.route THEN mission.node + 1
                                        ELSE mission.route - 1

\* Mission m is at a node of its route: at the last one it has completed, the
\* vehicle is idle and the pallet is at its destination.
Reach(a, m, node) ==
    LET last == node = a.missions[m].route - 1
        status == IF last THEN "COMPLETED" ELSE "EXECUTING"
    IN  [a EXCEPT !.missions[m] = [@ EXCEPT !.node = node, !.status = status],
                  !.agv = IF last THEN "IDLE" ELSE @,
                  !.delivered = @ \/ last]

\* advance of an EXECUTING mission.
Advance(a, m) == Reach(a, m, NextNode(a.missions[m]))

\* Mutants of local_stop: the vehicle is left as it is; the mission is.
LocalStop_MissionOnly(a, m) == [a EXCEPT !.missions[m].status = "SAFE_STOP"]

LocalStop_VehicleOnly(a, m) == [a EXCEPT !.agv = "STOPPED"]

\* local_stop looks at no status: it also turns a COMPLETED mission into a
\* SAFE_STOP one.
LocalStop(a, m) ==
    [a EXCEPT !.missions[m].status = "SAFE_STOP", !.agv = "STOPPED"]

\* replace_route of a SAFE_STOP mission.
ReplaceRoute(a, m, route) ==
    [a EXCEPT !.missions[m] = [status |-> "EXECUTING", node |-> 0,
                               route |-> route],
              !.agv = "EXECUTING"]

\* Mutant of the loop: it leaves before the last node is reached.
RunToEnd_OneShort(a, m) ==
    [a EXCEPT !.missions[m].node = a.missions[m].route - 2,
              !.missions[m].status = "COMPLETED",
              !.agv = "IDLE"]

\* The effect of calling advance until the mission is no longer EXECUTING.
RunToEnd(a, m) == Reach(a, m, a.missions[m].route - 1)
=============================================================================
