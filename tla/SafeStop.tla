------------------------------- MODULE SafeStop -------------------------------
(***************************************************************************)
(* What a rehearsal of a local safe stop promises to whoever watches it:    *)
(* the vehicle drives up to the obstacle, stands there while the stop is    *)
(* confirmed and a new route is accepted, and only then goes round it.  The *)
(* confirmed stop and the replanning are always seen; the short time        *)
(* between detection and standstill may fall between two pictures.          *)
(***************************************************************************)
EXTENDS Naturals

VARIABLES
    phase,      \* what the screen calls the phase
    vehicle     \* where the vehicle is drawn

vars == <<phase, vehicle>>

Depot == [route |-> "A", done |-> 0]
Obstacle == [route |-> "A", done |-> 3000]
Destination == [route |-> "B", done |-> 2950]

Init ==
    /\ phase = "READY"
    /\ vehicle = Depot

Farther(route) == vehicle'.route = route /\ vehicle'.done > vehicle.done

-----------------------------------------------------------------------------
Depart ==
    /\ phase = "READY"
    /\ phase' = "EXECUTING"
    /\ UNCHANGED vehicle

Drive ==
    /\ phase \in {"EXECUTING", "RESUMED"}
    /\ UNCHANGED phase
    /\ \/ phase = "EXECUTING" /\ Farther("A")
       \/ phase = "RESUMED" /\ vehicle = Obstacle /\ vehicle'.route = "B"
       \/ phase = "RESUMED" /\ vehicle.route = "B" /\ Farther("B")

\* The obstacle is met, or put in the vehicle's way before it has set off.
Detect ==
    /\ phase \in {"READY", "EXECUTING"}
    /\ phase' \in {"SENSOR_DETECTED", "SAFE_STOP"}
    /\ vehicle' = Obstacle

Stand ==
    /\ phase = "SENSOR_DETECTED"
    /\ phase' = "SAFE_STOP"
    /\ UNCHANGED vehicle

Replan ==
    /\ phase = "SAFE_STOP"
    /\ phase' = "REPLANNING"
    /\ UNCHANGED vehicle

Resume ==
    /\ phase = "REPLANNING"
    /\ phase' = "RESUMED"
    /\ vehicle = Obstacle
    /\ vehicle' = Obstacle \/ vehicle'.route = "B"

Complete ==
    /\ phase = "RESUMED"
    /\ phase' = "COMPLETED"
    /\ vehicle' = Destination

StartOver ==
    /\ phase' = "READY"
    /\ vehicle' = Depot

Next == Depart \/ Drive \/ Detect \/ Stand \/ Replan \/ Resume \/ Complete \/ StartOver

Spec == Init /\ [][Next]_vars
=============================================================================
