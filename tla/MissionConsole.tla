---------------------------- MODULE MissionConsole ----------------------------
(***************************************************************************)
(* The console (mission-console.tsx): the replay and the evidence on one    *)
(* page.  The fetches start when the page mounts the console and answer     *)
(* while the replay runs; what is shown of a mission needs both.            *)
(***************************************************************************)
EXTENDS HeroReplay, EvidenceBoard

console == <<replay, board>>

\* What the view's lower half draws.
missionParts ==
    [map |-> WarehouseMap,
     checks |-> SafetyChecks,
     card |-> SafetyCard,
     rail |-> TraceRail,
     brief |-> MissionBrief]

\* The mission view: the headline knows of the decision, the tile below it does not.  The
\* pose and the stop latency need the hero summary only, the tiles its optional parts too.
MissionView ==
    [headline |-> IF decision = "rejected" THEN "REJECTED" ELSE active.state,
     tile |-> active.state,
     tiles |-> heroTiles,
     stopLatency |-> IF ~blocked THEN "-" ELSE IF Arrived("heroSummary") THEN "shown"
                     ELSE "loading measured trace",
     pose |-> complete /\ Arrived("heroSummary")]

ConsoleInit == Init /\ Mounted

Respond == \E r \in Reports : mounted /\ Arrive(r) /\ UNCHANGED replay

Next ==
    \/ Respond
    \/ Enter /\ Remounted
    \/ OnPage /\ UNCHANGED board

Spec == ConsoleInit /\ [][Next]_console
FairSpec == Spec /\ WF_console(Render /\ UNCHANGED board)
                 /\ \A i \in Run : WF_console(Tick(i) /\ UNCHANGED board)

-----------------------------------------------------------------------------
(* What is checked.                                                         *)

\* While the page stays, answers add claims and never take one away; only the trace is
\* called valid until another file fails, and then never again.
ClaimsStand ==
    [][mounted /\ mounted' =>
        /\ claims \subseteq claims'
        /\ tracePill' = "TRACE CHAIN VALID" => tracePill # "EVIDENCE LOAD ERROR"]_console

\* The mission view's parts work the step out by literals and by search; whatever was
\* clicked they tell one mission.  A rejection shows no approval, a stop no way on; the
\* way on comes after the stop, its seal with it and both by the time of the second proof;
\* and the outcome is verified only with every check passed and the pallet at its rack,
\* its measured pose and stop printed together.  (Seal and detour in fact appear one step
\* before the second proof, which docs/JUDGE_MODE_RUNBOOK.md:26-27 has the other way
\* round; that is not demanded here.)
MissionScreenAgrees ==
    LET seen(event) == event \in missionParts.rail.visible
        says(claim) == claim \in missionParts.card
    IN /\ missionParts.checks.routeAndPolicy <=> seen("safety.proof")
       /\ missionParts.checks.approval_integrity <=> seen("approval.granted")
       /\ seen("mission.started") => missionParts.checks.approval_integrity
       /\ says("LOCAL STOP ASSERTED") <=> seen("sensor.aisle_blocked")
       /\ seen("safety.replan_proof") => says("REPLAN PROOF SEALED")
       /\ says("REPLAN PROOF SEALED") <=> vehicle \in {"DETOUR", "RACK-A12"}
       /\ says("OUTCOME VERIFIED") <=> seen("outcome.completed")
       /\ says("OUTCOME VERIFIED") <=> vehicle = "RACK-A12"
       /\ missionParts.rail.current = {missionParts.brief.event}
       /\ MissionView.headline # MissionView.tile => ~seen("approval.granted") /\ vehicle = "ROUTE"
       /\ decision = "approved" => MissionView.headline = "APPROVED" /\ ~says("LOCAL STOP ASSERTED")
       /\ decision = "stopped" => MissionView.headline = "SAFE_STOP" /\ vehicle = "OBSTACLE"
       /\ vehicle \in {"DETOUR", "RACK-A12"} => seen("execution.local_stop")
       /\ MissionView.pose => says("OUTCOME VERIFIED") /\ MissionView.stopLatency = "shown"
       /\ MissionView.stopLatency = "shown" => says("LOCAL STOP ASSERTED") /\ evidenceStamp = "shown"
=============================================================================
