--------------------------- MODULE MotionAuthority ---------------------------
(***************************************************************************)
(* What the mission service promises about motion, with no workflow, no     *)
(* adapter and no keys in it: a vehicle sets off only while an approval     *)
(* holds that an approving role gave and only from rest, it delivers once,  *)
(* and a mission that is closed neither moves nor is approved again, unless *)
(* the service has lost track of the vehicle.                               *)
(***************************************************************************)
CONSTANTS Session, Approver

VARIABLES
    motion,     \* "parked", "moving", "halted" or "delivered"
    approval,   \* "NONE", "VALID" or "EXPIRED"
    approver,   \* the role that gave the approval
    closed,     \* the sessions whose workflow is over
    adrift      \* the sessions whose vehicle the service has lost track of

vars == <<motion, approval, approver, closed, adrift>>

Init ==
    /\ motion = [s \in Session |-> "parked"]
    /\ approval = [s \in Session |-> "NONE"]
    /\ approver = [s \in Session |-> "NONE"]
    /\ closed = {}
    /\ adrift = {}

\* An approving role grants motion, to a vehicle known to stand still.
Authorize(s) ==
    /\ s \notin closed
    /\ motion[s] \in {"parked", "halted"} \/ s \in adrift
    /\ \E role \in Approver : approver' = [approver EXCEPT ![s] = role]
    /\ approval' = [approval EXCEPT ![s] = "VALID"]
    /\ UNCHANGED <<motion, closed, adrift>>

Lapse(s) ==
    /\ approval[s] = "VALID"
    /\ approval' = [approval EXCEPT ![s] = "EXPIRED"]
    /\ UNCHANGED <<motion, approver, closed, adrift>>

\* The vehicle sets off, or sets off again, and may be lost in the same step.
SetOff(s) ==
    /\ s \notin closed
    /\ approval[s] = "VALID"
    /\ motion[s] \in {"parked", "halted"}
    /\ \E to \in {"moving", "delivered"} : motion' = [motion EXCEPT ![s] = to]
    /\ adrift' \in {adrift, adrift \cup {s}}
    /\ UNCHANGED <<approval, approver, closed>>

Halt(s) ==
    /\ motion[s] = "moving"
    /\ motion' = [motion EXCEPT ![s] = "halted"]
    /\ UNCHANGED <<approval, approver, closed, adrift>>

\* A resumed vehicle drives to its destination, which ends the mission.
Complete(s) ==
    /\ s \notin closed
    /\ approval[s] = "VALID"
    /\ motion[s] = "halted"
    /\ motion' = [motion EXCEPT ![s] = "delivered"]
    /\ closed' = closed \cup {s}
    /\ UNCHANGED <<approval, approver, adrift>>

\* Where the vehicle is stays unknown to an open workflow from here on.
LoseTrack(s) ==
    /\ s \notin closed
    /\ adrift' = adrift \cup {s}
    /\ UNCHANGED <<motion, approval, approver, closed>>

\* A vehicle that was lost while it drove may be driven on, to its destination.
Arrive(s) ==
    /\ s \in adrift \ closed
    /\ approval[s] = "VALID"
    /\ motion[s] = "moving"
    /\ motion' = [motion EXCEPT ![s] = "delivered"]
    /\ UNCHANGED <<approval, approver, closed, adrift>>

\* The workflow ends without motion, and may withdraw the approval.
Close(s) ==
    /\ s \notin closed
    /\ motion[s] # "moving" \/ s \in adrift
    /\ closed' = closed \cup {s}
    /\ \/ UNCHANGED <<approval, approver>>
       \/ /\ approval' = [approval EXCEPT ![s] = "NONE"]
          /\ approver' = [approver EXCEPT ![s] = "NONE"]
    /\ UNCHANGED <<motion, adrift>>

Next ==
    \E s \in Session :
        \/ Authorize(s) \/ Lapse(s) \/ SetOff(s)
        \/ Halt(s) \/ Complete(s) \/ LoseTrack(s) \/ Arrive(s) \/ Close(s)

Spec == Init /\ [][Next]_vars
=============================================================================
