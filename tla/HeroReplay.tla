------------------------------ MODULE HeroReplay ------------------------------
(***************************************************************************)
(* Judge Mode's replay of the recorded hero mission (mission-console.tsx):  *)
(* an interval walks a fixed timeline; buttons restart it, cut it short     *)
(* with a decision, or show another view while it goes on.                  *)
(*                                                                          *)
(* What an interval sets waits in React's queue until the next render; a    *)
(* click first renders what waits, then its own updates.  The interval to   *)
(* clear is the one timerRef holds; each interval counts for itself.        *)
(***************************************************************************)
EXTENDS Integers, Sequences

CONSTANT MaxRuns        \* the replay is started at most so often

ASSUME ReplayAssumption == MaxRuns \in Nat \ {0}

View == {"mission", "architecture", "evidence", "field-test", "source"}
views == View \ {"field-test"}
ReplayDecision == {"approved", "rejected", "stopped"}

\* The recorded mission; the code counts its entries from 0.
timeline == <<
    [state |-> "INTENT", event |-> "intent.received"],
    [state |-> "OBSERVED", event |-> "get_operational_snapshot"],
    [state |-> "PLANNED", event |-> "plan_transport"],
    [state |-> "PROPOSED", event |-> "propose_transport"],
    [state |-> "VERIFIED", event |-> "safety.proof"],
    [state |-> "APPROVED", event |-> "approval.granted"],
    [state |-> "EXECUTING", event |-> "mission.started"],
    [state |-> "EXECUTING", event |-> "get_mission_status"],
    [state |-> "BLOCKED", event |-> "sensor.aisle_blocked"],
    [state |-> "SAFE_STOP", event |-> "execution.local_stop"],
    [state |-> "SAFE_STOP", event |-> "recovery.intent"],
    [state |-> "REPLANNING", event |-> "replan_mission"],
    [state |-> "VERIFIED", event |-> "safety.replan_proof"],
    [state |-> "EXECUTING", event |-> "execution.resumed"],
    [state |-> "COMPLETED", event |-> "outcome.completed"]>>

Last == Len(timeline) - 1
Steps == 0..Last
Run == 1..MaxRuns
None == -1

findIndex(field, value) ==
    CHOOSE i \in Steps :
        /\ timeline[i + 1][field] = value
        /\ \A j \in Steps : j < i => timeline[j + 1][field] # value

VARIABLES
    mounted,        \* the console is on the page
    view,
    runStep,
    running,
    decision,       \* or "null"
    timerRef,       \* the interval the component remembers, or 0
    next,           \* the intervals that fire, each with the counter it closes over
    started,        \* how many intervals were set
    setStep,        \* the step an interval has asked for since the last render, or None
    setStopped      \* an interval has asked to stop since then

live == DOMAIN next
queue == <<setStep, setStopped>>
replay == <<mounted, view, runStep, running, decision, timerRef, next, started, queue>>

-----------------------------------------------------------------------------
(* What the step says of the mission, and what the mission view's parts      *)
(* that depend on it alone show.                                             *)

active == timeline[(IF runStep < Last THEN runStep ELSE Last) + 1]
blocked == runStep >= findIndex("state", "BLOCKED")
replanned == runStep >= findIndex("event", "replan_mission")
complete == runStep >= Last

\* The vehicle stands on the route, at the obstacle, on the detour or at the rack.
vehicle ==
    IF complete THEN "RACK-A12" ELSE IF replanned THEN "DETOUR"
    ELSE IF blocked THEN "OBSTACLE" ELSE "ROUTE"

WarehouseMap ==
    [vehicle |-> vehicle,
     detour |-> replanned,
     blockage |-> blocked]

\* A slip: the approval check is listed with those of the proposal.
SafetyChecks_AllAtFour ==
    [routeAndPolicy |-> runStep >= 4, approval_integrity |-> runStep >= 4]

\* The ten checks of route and policy appear together, the approval's check on its own.
SafetyChecks ==
    [routeAndPolicy |-> runStep >= 4, approval_integrity |-> runStep >= 5]

SafetyCard ==
    {claim \in {"LOCAL STOP ASSERTED", "REPLAN PROOF SEALED", "OUTCOME VERIFIED"} :
        \/ claim = "LOCAL STOP ASSERTED" /\ blocked
        \/ claim = "REPLAN PROOF SEALED" /\ replanned
        \/ claim = "OUTCOME VERIFIED" /\ complete}

TraceRail ==
    [visible |-> {timeline[i + 1].event : i \in {j \in Steps : j <= runStep}},
     current |-> {timeline[i + 1].event : i \in {j \in Steps : j = runStep}}]

MissionBrief == [event |-> active.event, outcome |-> IF complete THEN "VERIFIED" ELSE "PENDING"]

runButton ==
    [label |-> IF running THEN "MISSION RUNNING" ELSE IF complete THEN "REPLAY HERO" ELSE "RUN HERO",
     enabled |-> ~running]

-----------------------------------------------------------------------------
\* The page shows the whole mission until somebody runs it.
Init ==
    /\ mounted = TRUE
    /\ view = "mission"
    /\ runStep = Last
    /\ running = FALSE
    /\ decision = "null"
    /\ timerRef = 0
    /\ setStep = None
    /\ setStopped = FALSE
    /\ next = [i \in {} |-> 0]
    /\ started = 0

\* What the queue comes to when it is rendered.
RenderedStep == IF setStep = None THEN runStep ELSE setStep
RenderedRunning == running /\ ~setStopped
EmptyQueue == setStep' = None /\ setStopped' = FALSE

Render ==
    /\ mounted
    /\ setStep # None \/ setStopped
    /\ runStep' = RenderedStep
    /\ running' = RenderedRunning
    /\ EmptyQueue
    /\ UNCHANGED <<mounted, view, decision, timerRef, next, started>>

clearInterval(counters, i) == [j \in DOMAIN counters \ {i} |-> counters[j]]

\* A slip: the last tick clears the interval and leaves the replay running.
Tick_StaysRunning(i) ==
    /\ i \in live
    /\ setStep' = next[i] + 1
    /\ LET counted == [next EXCEPT ![i] = @ + 1]
       IN IF next[i] + 1 >= Last
          THEN next' = clearInterval(counted, timerRef) /\ UNCHANGED setStopped
          ELSE next' = counted /\ UNCHANGED setStopped
    /\ UNCHANGED <<mounted, view, runStep, running, decision, timerRef, started>>

\* An interval fires.  At the end it clears the interval timerRef holds.
Tick(i) ==
    /\ i \in live
    /\ setStep' = next[i] + 1
    /\ LET counted == [next EXCEPT ![i] = @ + 1]
       IN IF next[i] + 1 >= Last
          THEN next' = clearInterval(counted, timerRef) /\ setStopped' = TRUE
          ELSE next' = counted /\ UNCHANGED setStopped
    /\ UNCHANGED <<mounted, view, runStep, running, decision, timerRef, started>>

\* The buttons of the header and of the mission view are disabled while the replay runs;
\* the architecture view's is not.
CanRun == mounted /\ (runButton.enabled \/ view = "architecture")

\* A slip: the running interval is not cleared.
RunHero_KeepsInterval ==
    /\ CanRun
    /\ started < MaxRuns
    /\ started' = started + 1
    /\ timerRef' = started'
    /\ next' = [j \in live \union {started'} |-> IF j = started' THEN 0 ELSE next[j]]
    /\ view' = "mission" /\ runStep' = 0 /\ running' = TRUE /\ decision' = "null"
    /\ EmptyQueue
    /\ UNCHANGED mounted

RunHero ==
    /\ CanRun
    /\ started < MaxRuns
    /\ started' = started + 1
    /\ timerRef' = started'
    /\ next' = [j \in (live \ {timerRef}) \union {started'} |-> IF j = started' THEN 0 ELSE next[j]]
    /\ view' = "mission" /\ runStep' = 0 /\ running' = TRUE /\ decision' = "null"
    /\ EmptyQueue
    /\ UNCHANGED mounted

\* The three controls are never disabled.
controlsOffered == mounted /\ view = "mission"

decisionStep(d) ==
    IF d = "approved" THEN findIndex("state", "APPROVED")
    ELSE IF d = "stopped" THEN findIndex("event", "execution.local_stop")
    ELSE findIndex("state", "VERIFIED")

ReplayControl(d) ==
    /\ controlsOffered
    /\ next' = clearInterval(next, timerRef)
    /\ running' = FALSE
    /\ decision' = d
    /\ runStep' = decisionStep(d)
    /\ EmptyQueue
    /\ UNCHANGED <<mounted, view, timerRef, started>>

\* The lab is opened from the evidence view.
labOffered == view = "evidence"

\* The header and the navigation lead to four views, the lab back to the evidence.
SetView(v) ==
    /\ mounted
    /\ v \in views \/ labOffered
    /\ view' = v
    /\ runStep' = RenderedStep
    /\ running' = RenderedRunning
    /\ EmptyQueue
    /\ UNCHANGED <<mounted, decision, timerRef, next, started>>

\* The console leaves the page: its effect clears timerRef's interval, its state is gone.
Leave ==
    /\ mounted
    /\ mounted' = FALSE
    /\ next' = clearInterval(next, timerRef)
    /\ view' = "mission" /\ runStep' = Last /\ running' = FALSE /\ decision' = "null"
    /\ timerRef' = 0
    /\ EmptyQueue
    /\ UNCHANGED started

\* The page is loaded again.
Enter ==
    /\ ~mounted
    /\ mounted' = TRUE
    /\ UNCHANGED <<view, runStep, running, decision, timerRef, next, started, queue>>

OnPage ==
    \/ Render \/ RunHero \/ Leave
    \/ \E i \in Run : Tick(i)
    \/ \E d \in ReplayDecision : ReplayControl(d)
    \/ \E v \in View : SetView(v)

ReplayNext == OnPage \/ Enter

-----------------------------------------------------------------------------
(* What is checked.                                                         *)

\* Restarts, decisions, views and reloads never leave a second interval firing: the one
\* that fires is the one timerRef can clear, it fires exactly while the replay is on,
\* it has shown or asked for its own step, and none survives a decision or the page.
ReplayInvariant ==
    /\ mounted \in BOOLEAN /\ view \in View /\ runStep \in Steps /\ running \in BOOLEAN
    /\ decision \in ReplayDecision \union {"null"}
    /\ started \in 0..MaxRuns /\ timerRef \in 0..started
    /\ \A i \in live : next[i] \in Steps
    /\ setStep \in {None} \union Steps /\ setStopped \in BOOLEAN
    /\ live \subseteq {timerRef} \ {0}
    /\ mounted => (live # {} <=> running /\ ~setStopped)
    /\ ~mounted => live = {} /\ ~running /\ setStep = None /\ ~setStopped
    /\ live # {} => next[timerRef] = RenderedStep /\ next[timerRef] < Last /\ decision = "null"
    /\ setStopped => running /\ setStep = Last
    /\ setStep # None => running /\ decision = "null" /\ setStep > runStep
    /\ ~running => runStep = IF decision = "null" THEN Last ELSE decisionStep(decision)

\* The mission on the screen never runs backwards: a step is taken back only by a new
\* run from the beginning, or by a decision, which ends the run.
ReplayGoesForward ==
    [][runStep' < runStep =>
        \/ runStep' = 0 /\ running' /\ decision' = "null" /\ started' = started + 1
        \/ ~running' /\ decision' # "null" /\ runStep' = decisionStep(decision')]_replay

\* A run ends, whatever view is shown meanwhile, unless another is started.
ReplayEnds == \A i \in Run : (running /\ started = i) ~> (~running \/ started > i)
=============================================================================
