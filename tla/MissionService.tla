---------------------------- MODULE MissionService ----------------------------
(***************************************************************************)
(* MissionService (mission_service.py): the in-memory mission sessions and  *)
(* the operations that move them from a typed intent to a delivered pallet. *)
(* Every mutating operation holds one re-entrant lock from its first line   *)
(* to its last, so each is one action here, with a disjunct for each way it *)
(* can leave the session: committed, or raised half way through.  Besides   *)
(* the tools, every call of the evidence recorder may raise (EvidenceTrace):*)
(* a disjunct for each record that comes after a change.                    *)
(*                                                                          *)
(* A call that raises before it changes a session (unknown id, wrong role,  *)
(* reused key, stale version, wrong status) is a stuttering step.  So is a  *)
(* replay: a key that has committed returns the session as it is.  The      *)
(* fingerprint only decides between replay and conflict, neither of which   *)
(* changes anything, and _pending_operations hands the entry that           *)
(* _begin_operation writes to _finish_operation in the same locked call;    *)
(* both are left out.                                                       *)
(***************************************************************************)
EXTENDS WorkflowState, SimulatorAdapter

CONSTANTS
    Session,        \* intent sessions
    Key,            \* idempotency keys
    Role,           \* roles the callers hold
    RouteLength,    \* node counts of the routes the scenario's map offers
    MaxVersion,     \* bound: the highest version a request expects
    MaxHistory      \* bound: no operation begins on a longer history

ASSUME RouteAssumption == RouteLength \subseteq Route
ASSUME VersionAssumption == MaxVersion \in Nat
ASSUME HistoryAssumption == MaxHistory \in Nat

VARIABLES
    session,        \* _sessions: MissionSession records, with their indexes
    adapter,        \* MissionSession.adapter and .world
    operations,     \* _operations: committed (name, key) pairs
    adrift          \* history: the sessions whose workflow has lost the vehicle

vars == <<session, adapter, operations, adrift>>

Operation == {"prepare", "approve", "reject", "start", "stop", "replan",
              "resume", "override"}

Version == 1..MaxVersion

Absent == "ABSENT"      \* the status of a session that was not yet created

ASSUME SessionAssumption == Absent \notin Session

\* The committed operation's session, and the version its request expected
\* (the api.operation.accepted span records it).
NoOperation == [session |-> Absent, expected |-> 0]

NoApproval == [status |-> "NONE", role |-> "NONE"]

\* plan and replan are route lengths, 0 for None; issued counts the missions
\* of the session in _mission_index, whose ids are 1..issued; indexed says the
\* proposal is in _proposal_index; mission is the session's own copy.
NewSession ==
    [state |-> Absent, history |-> << >>, version |-> 1,
     plan |-> 0, proposal |-> FALSE, indexed |-> FALSE, proof |-> "NONE",
     approval |-> NoApproval, issued |-> 0,
     mission |-> [id |-> 0, status |-> "NONE"],
     replan |-> 0, replanProof |-> "NONE"]

ApprovalToken ==
    [status : {"NONE", "VALID", "EXPIRED"}, role : Role \cup {"NONE"}]

MissionSession ==
    [state : MissionStatus \cup {Absent}, history : Seq(MissionStatus),
     version : Nat, plan : RouteLength \cup {0}, proposal : BOOLEAN, indexed : BOOLEAN,
     proof : {"NONE", "PASSED", "FAILED"}, approval : ApprovalToken,
     issued : MissionId \cup {0},
     mission : [id : MissionId \cup {0}, status : MissionStatus \cup {"NONE"}],
     replan : RouteLength \cup {0}, replanProof : {"NONE", "PASSED", "FAILED"}]

Init ==
    /\ session = [s \in Session |-> NewSession]
    /\ adapter = [s \in Session |-> NewAdapter]
    /\ operations = [op \in Operation \X Key |-> NoOperation]
    /\ adrift = {}

-----------------------------------------------------------------------------
(* The parts the operations share.                                          *)

\* WorkflowState.transition along path.
Through(r, path) ==
    [r EXCEPT !.state = path[Len(path)], !.history = @ \o path]

\* Mutant: a key that has committed is let in again.
Begin_NoReplay(s, name, k, v) ==
    /\ session[s].state # Absent
    /\ v = session[s].version
    /\ Len(session[s].history) <= MaxHistory

\* _begin_operation lets the call in: the key is new to the operation and the
\* request expects the session's current version.
Begin(s, name, k, v) ==
    /\ session[s].state # Absent
    /\ operations[<<name, k>>] = NoOperation
    /\ v = session[s].version
    /\ Len(session[s].history) <= MaxHistory

\* _finish_operation: r becomes the session, one version on.
Finish(s, name, k, v, r) ==
    /\ session' = [session EXCEPT ![s] = [r EXCEPT !.version = @ + 1]]
    /\ operations' = [operations EXCEPT
                        ![<<name, k>>] = [session |-> s, expected |-> v]]
    /\ UNCHANGED adrift

\* The operation raised after it had turned the session into r.
Raise(s, r) ==
    /\ session' = [session EXCEPT ![s] = r]
    /\ UNCHANGED <<operations, adrift>>

\* It raised between a status and the command to the vehicle that belongs to
\* it: the workflow no longer tells what the vehicle does.
LoseTrack(s, r) ==
    /\ session' = [session EXCEPT ![s] = r]
    /\ adrift' = adrift \cup {s}
    /\ UNCHANGED operations

\* _by_mission: m is in _mission_index.
Indexed(s, m) == m \in 1..session[s].issued

\* Mutant: the token's time is not looked at.
ValidApproval_NoExpiry(s) == session[s].approval # NoApproval

\* ApprovalToken.valid_for: hashes agree by construction, time may run out.
ValidApproval(s) == session[s].approval.status = "VALID"

-----------------------------------------------------------------------------
\* create_intent, when the provider parses the text.
CreateIntent(s) ==
    /\ session[s].state = Absent
    /\ Raise(s, [session[s] EXCEPT !.state = "INTENT", !.history = <<"INTENT">>])
    /\ UNCHANGED adapter

\* prepare_proposal.  The plan, the provider or a record may raise in the
\* middle, as far as PROPOSED with its proof, or VERIFIED and not yet in the
\* index; a failed proof rejects it.
Prepare(s, k, v) ==
    /\ Begin(s, "prepare", k, v)
    /\ session[s].state = "INTENT"
    /\ \/ Raise(s, Through(session[s], <<"OBSERVED", "FAILED_SAFE">>))
       \/ Raise(s, Through(session[s], <<"OBSERVED">>))
       \/ \E n \in RouteLength :
            LET planned == [session[s] EXCEPT !.plan = n]
                proposed == [planned EXCEPT !.proposal = TRUE]
                proven(outcome) == [proposed EXCEPT !.proof = outcome]
            IN  \/ \E r \in {planned, proposed} :
                     Raise(s, Through(r, <<"OBSERVED", "PLANNED">>))
                \/ \E r \in {proposed, proven("PASSED"), proven("FAILED")} :
                     Raise(s, Through(r, <<"OBSERVED", "PLANNED", "PROPOSED">>))
                \/ Raise(s, Through(proven("FAILED"),
                            <<"OBSERVED", "PLANNED", "PROPOSED", "REJECTED">>))
                \/ Raise(s, Through(proven("PASSED"),
                            <<"OBSERVED", "PLANNED", "PROPOSED", "VERIFIED">>))
                \/ Finish(s, "prepare", k, v,
                     Through([proven("PASSED") EXCEPT !.indexed = TRUE],
                            <<"OBSERVED", "PLANNED", "PROPOSED", "VERIFIED">>))
    /\ UNCHANGED adapter

\* approve.  VERIFIED is also the status of a stopped mission whose replan
\* passed: approving there issues a second token and a second mission.  The
\* proof binds a token issued an instant ago, so it passes if the route does.
\* A record that raises leaves the token without the status, or the status
\* without the mission.
Approve(s, k, v, role) ==
    /\ session[s].indexed
    /\ role \in {"approver", "admin"}
    /\ Begin(s, "approve", k, v)
    /\ session[s].state = "VERIFIED"
    /\ session[s].proposal
    /\ session[s].proof = "PASSED"
    /\ session[s].plan # 0
    /\ session[s].issued < MaxMission
    /\ LET m == session[s].issued + 1
           granted == [session[s] EXCEPT
                         !.approval = [status |-> "VALID", role |-> role]]
       IN  \/ Raise(s, granted)
           \/ Raise(s, Through(granted, <<"APPROVED">>))
           \/ Finish(s, "approve", k, v,
                Through([granted EXCEPT
                           !.mission = [id |-> m, status |-> "APPROVED"],
                           !.issued = m],
                        <<"APPROVED">>))
    /\ UNCHANGED adapter

\* reject
Reject(s, k, v, role) ==
    /\ session[s].indexed
    /\ role \in {"approver", "admin"}
    /\ Begin(s, "reject", k, v)
    /\ session[s].state = "VERIFIED"
    /\ LET rejected == Through(session[s], <<"REJECTED">>)
       IN  Raise(s, rejected) \/ Finish(s, "reject", k, v, rejected)
    /\ UNCHANGED adapter

\* start.  A token that has run out fails the session safe.  Otherwise the
\* adapter starts the session's mission and advances the requested one: when an
\* earlier dispatch of the proposal made the adapter return that mission, there
\* may be nothing executing to advance, and the call raises in status EXECUTING.
\* The record of the adapter's start comes after it and before the status.
Start(s, m, k, v, role) ==
    /\ Indexed(s, m)
    /\ role \in {"executor", "admin"}
    /\ Begin(s, "start", k, v)
    /\ session[s].mission.id # 0
    /\ session[s].approval # NoApproval
    /\ session[s].proposal
    /\ session[s].state = "APPROVED"
    /\ LET started == StartMission(adapter[s], session[s].mission.id,
                                   session[s].plan)
           advanced == Advance(started, m)
           executing(a, id) == Through([session[s] EXCEPT
                !.mission = [id |-> id, status |-> a.missions[id].status]],
                <<"EXECUTING">>)
       IN  \/ /\ ~ValidApproval(s)
              /\ Raise(s, Through(session[s], <<"FAILED_SAFE">>))
              /\ UNCHANGED adapter
           \/ /\ ValidApproval(s)
              /\ adapter[s].dispatched = 0
              /\ adapter' = [adapter EXCEPT ![s] = started]
              /\ LoseTrack(s, session[s])
           \/ /\ ValidApproval(s)
              /\ adapter' = [adapter EXCEPT ![s] = started]
              /\ Raise(s, executing(started, started.dispatched))
           \/ /\ ValidApproval(s)
              /\ started.missions[m].status = "EXECUTING"
              /\ adapter' = [adapter EXCEPT ![s] = advanced]
              /\ \/ Raise(s, executing(advanced, m))
                 \/ Finish(s, "start", k, v, executing(advanced, m))

\* stop: the blockage blocks the workflow, then the adapter stops the vehicle.
\* Between the two the status is recorded, and an id the adapter never stored
\* raises: either leaves the vehicle as it was.
Stop(s, m, k, v, role) ==
    /\ Indexed(s, m)
    /\ role \in {"safety", "executor", "admin"}
    /\ Begin(s, "stop", k, v)
    /\ session[s].state = "EXECUTING"
    /\ LET stopped == LocalStop(adapter[s], m)
           id == session[s].mission.id
           shown == [session[s] EXCEPT
                        !.mission.status = stopped.missions[id].status]
       IN  \/ /\ LoseTrack(s, Through(session[s], <<"BLOCKED">>))
              /\ UNCHANGED adapter
           \/ /\ adapter[s].missions[m] # NoMission
              /\ adapter' = [adapter EXCEPT ![s] = stopped]
              /\ \/ \E r \in {session[s], shown} :
                       Raise(s, Through(r, <<"BLOCKED">>))
                 \/ Raise(s, Through(shown, <<"BLOCKED", "SAFE_STOP">>))
                 \/ Finish(s, "stop", k, v,
                           Through(shown, <<"BLOCKED", "SAFE_STOP">>))

\* replan.  A provider that raises leaves the session as it is, to be retried;
\* a recovery that changes the goal fails it safe; a planner without a route
\* leaves it REPLANNING (always once the vehicle is at the destination: a
\* RoutePlan has at least two nodes), and so does the record of the proof; a
\* failed proof fails it safe.
Replan(s, m, k, v, role) ==
    /\ Indexed(s, m)
    /\ role \in {"operator", "executor", "admin"}
    /\ Begin(s, "replan", k, v)
    /\ session[s].state = "SAFE_STOP"
    /\ session[s].mission.id # 0
    /\ session[s].proposal
    /\ session[s].approval # NoApproval
    /\ \/ Raise(s, Through(session[s], <<"FAILED_SAFE">>))
       \/ Raise(s, Through(session[s], <<"REPLANNING">>))
       \/ \E n \in RouteLength, outcome \in {"PASSED", "FAILED"} :
            LET replanned == [session[s] EXCEPT !.replan = n,
                                                !.replanProof = outcome]
            IN  /\ ~adapter[s].delivered
                /\ outcome = "PASSED" => ValidApproval(s)
                /\ \/ Raise(s, Through(replanned, <<"REPLANNING">>))
                   \/ /\ outcome = "FAILED"
                      /\ Raise(s, Through(replanned,
                                          <<"REPLANNING", "FAILED_SAFE">>))
                   \/ /\ outcome = "PASSED"
                      /\ LET verified == Through(replanned,
                                                 <<"REPLANNING", "VERIFIED">>)
                         IN  \/ Raise(s, verified)
                             \/ Finish(s, "replan", k, v, verified)
    /\ UNCHANGED adapter

\* resume_and_complete: the new route, and advance until the mission completes.
\* replace_route raises before any change unless mission m is at SAFE_STOP; its
\* record comes before the status, and each node reached is recorded.
Resume(s, m, k, v, role) ==
    /\ Indexed(s, m)
    /\ role \in {"executor", "admin"}
    /\ Begin(s, "resume", k, v)
    /\ session[s].state = "VERIFIED"
    /\ session[s].mission.id # 0
    /\ session[s].replan # 0
    /\ session[s].replanProof = "PASSED"
    /\ session[s].proposal
    /\ ValidApproval(s)
    /\ adapter[s].missions[m].status = "SAFE_STOP"
    /\ LET replaced == ReplaceRoute(adapter[s], m, session[s].replan)
           run == RunToEnd(replaced, m)
           shown(a) == [session[s] EXCEPT
                            !.mission = [id |-> m, status |-> a.missions[m].status]]
           completed == Through(shown(run), <<"EXECUTING", "COMPLETED">>)
       IN  \/ /\ adapter' = [adapter EXCEPT ![s] = replaced]
              /\ LoseTrack(s, session[s])
           \/ \E node \in 0..(session[s].replan - 1) :
                LET reached == Reach(replaced, m, node)
                IN  /\ adapter' = [adapter EXCEPT ![s] = reached]
                    /\ Raise(s, Through(shown(reached), <<"EXECUTING">>))
           \/ /\ adapter' = [adapter EXCEPT ![s] = run]
              /\ Raise(s, completed) \/ Finish(s, "resume", k, v, completed)

\* Mutant: an override also takes in a mission that has completed.
Overridable_Completed == {"SAFE_STOP", "VERIFIED", "COMPLETED"}

\* The statuses override accepts.
Overridable == {"SAFE_STOP", "VERIFIED"}

\* override_to_failed_safe: the approval is gone and the workflow is over.
Override(s, m, k, v, role) ==
    /\ Indexed(s, m)
    /\ role \in {"safety", "admin"}
    /\ Begin(s, "override", k, v)
    /\ session[s].state \in Overridable
    /\ LET closed == Through([session[s] EXCEPT !.approval = NoApproval],
                             <<"FAILED_SAFE">>)
       IN  Raise(s, closed) \/ Finish(s, "override", k, v, closed)
    /\ UNCHANGED adapter

\* Fifteen minutes pass: the token's expires_at is reached.
ApprovalExpires(s) ==
    /\ ValidApproval(s)
    /\ Raise(s, [session[s] EXCEPT !.approval.status = "EXPIRED"])
    /\ UNCHANGED adapter

ProposalRequest(s, k, v, role) ==
    Approve(s, k, v, role) \/ Reject(s, k, v, role)

MissionRequest(s, m, k, v, role) ==
    \/ Start(s, m, k, v, role)
    \/ Stop(s, m, k, v, role)
    \/ Replan(s, m, k, v, role)
    \/ Resume(s, m, k, v, role)
    \/ Override(s, m, k, v, role)

Next ==
    \E s \in Session :
        \/ CreateIntent(s)
        \/ ApprovalExpires(s)
        \/ \E k \in Key, v \in Version :
            \/ Prepare(s, k, v)
            \/ \E role \in Role : ProposalRequest(s, k, v, role)
            \/ \E role \in Role, m \in MissionId :
                    MissionRequest(s, m, k, v, role)

Spec == Init /\ [][Next]_vars

-----------------------------------------------------------------------------
(* Properties.                                                              *)

\* Every session, adapter and operation record has its type.
TypeOK ==
    /\ session \in [Session -> MissionSession]
    /\ adapter \in [Session -> Adapter]
    /\ operations \in [Operation \X Key ->
            [session : Session \cup {Absent}, expected : Version \cup {0}]]
    /\ adrift \in SUBSET Session

\* A vehicle is in motion only while the adapter's one dispatched mission is
\* executing, its workflow is EXECUTING and an approver's token was granted: no
\* way out of start, stop, replan, resume or override leaves a vehicle driving
\* unattended but the three that raise between a status and its command.
MotionIsAttended ==
    \A s \in Session :
        adapter[s].agv = "EXECUTING" =>
            /\ adapter[s].dispatched # 0
            /\ adapter[s].missions[adapter[s].dispatched].status = "EXECUTING"
            /\ s \notin adrift =>
                 /\ session[s].state = "EXECUTING"
                 /\ session[s].approval.role \in {"approver", "admin"}

\* From the local stop to the resumption (SAFE_STOP, REPLANNING, and VERIFIED or
\* APPROVED after a replan) the adapter holds a stopped mission and the vehicle
\* stands: what replan and resume read from the adapter is what stop left there.
\* Only a resumption whose record failed has moved it while VERIFIED.
StoppedUntilResumed ==
    \A s \in Session :
        (\/ session[s].state \in {"SAFE_STOP", "REPLANNING"}
         \/ /\ session[s].state \in {"VERIFIED", "APPROVED"}
            /\ session[s].replan # 0
            /\ s \notin adrift)
        => /\ adapter[s].dispatched # 0
           /\ adapter[s].missions[adapter[s].dispatched].status = "SAFE_STOP"
           /\ adapter[s].agv = "STOPPED"

\* The one proposal of a session puts at most one mission on the adapter, the
\* one its idempotency index names, however often it is approved and started
\* (tests/test_adapters.py test_duplicate_dispatch_creates_one_mission).
OneDispatchPerProposal ==
    \A s \in Session : \A m \in MissionId :
        adapter[s].missions[m] # NoMission => adapter[s].dispatched = m

\* A COMPLETED workflow has delivered: the adapter's mission is at the end of its
\* route, the vehicle is idle, and the session shows that same mission.
CompletedMeansDelivered ==
    \A s \in Session :
        session[s].state = "COMPLETED" =>
            LET m == session[s].mission.id
            IN  /\ adapter[s].delivered
                /\ adapter[s].agv = "IDLE"
                /\ m = adapter[s].dispatched
                /\ adapter[s].missions[m].status = "COMPLETED"
                /\ adapter[s].missions[m].node = adapter[s].missions[m].route - 1

\* The operations a session has committed expected the versions 1, 2, ... up to
\* the one before its current version, each of them once: no two requests of
\* one version both commit, and no replay of a key commits again.
CommitsAreSerial ==
    \A s \in Session :
        LET committed == {op \in Operation \X Key : operations[op].session = s}
        IN  /\ \A a, b \in committed :
                   operations[a].expected = operations[b].expected => a = b
            /\ {operations[op].expected : op \in committed} = 1..(session[s].version - 1)

\* Every session's history walks along ALLOWED_TRANSITIONS and ends in its
\* current status: no operation is stopped half way by InvalidTransition.
HistoryIsLegal ==
    \A s \in Session :
        session[s].state # Absent =>
            /\ LegalHistory(session[s].history)
            /\ session[s].history # << >>
            /\ session[s].state = session[s].history[Len(session[s].history)]

\* Once a workflow is terminal, nothing an operation does reaches its session,
\* its adapter or its vehicle again; only the token's time runs out.
TerminalIsFinal ==
    [][\A s \in Session :
        session[s].state \in Terminal =>
            /\ adapter'[s] = adapter[s]
            /\ session'[s] \in
                 {session[s], [session[s] EXCEPT !.approval.status = "EXPIRED"]}]_vars

\* The service implements MotionAuthority: its steps only ever move a vehicle
\* under an approval in force, from rest, towards one delivery.  adrift is the
\* abstract specification's own variable.
MotionOf(s) ==
    CASE adapter[s].delivered -> "delivered"
      [] ~adapter[s].delivered /\ adapter[s].agv = "IDLE" -> "parked"
      [] ~adapter[s].delivered /\ adapter[s].agv = "EXECUTING" -> "moving"
      [] ~adapter[s].delivered /\ adapter[s].agv = "STOPPED" -> "halted"

Authority == INSTANCE MotionAuthority WITH
    Approver <- Role \cap {"approver", "admin"},
    motion   <- [s \in Session |-> MotionOf(s)],
    approval <- [s \in Session |-> session[s].approval.status],
    approver <- [s \in Session |-> session[s].approval.role],
    closed   <- {s \in Session : session[s].state \in Terminal}

ImplementsMotionAuthority == Authority!Spec

-----------------------------------------------------------------------------
(* The inductive invariant of the proofs, as a predicate of one session's    *)
(* record r and its adapter a.                                              *)

\* The adapter holds the mission it dispatched and no other, and the vehicle
\* does what that mission's status says.
AdapterOK(a) ==
    /\ \A m \in MissionId : a.missions[m] # NoMission <=> a.dispatched = m
    /\ a.dispatched = 0 => a.agv = "IDLE" /\ ~a.delivered
    /\ a.dispatched # 0 =>
         LET status == a.missions[a.dispatched].status
         IN  /\ status = "EXECUTING" => a.agv = "EXECUTING" /\ ~a.delivered
             /\ status = "SAFE_STOP" => a.agv = "STOPPED"
             /\ status = "COMPLETED" => a.agv = "IDLE" /\ a.delivered

\* The adapter's mission is stopped short of its destination.
Stopped(a) ==
    a.dispatched # 0 /\ a.missions[a.dispatched].status = "SAFE_STOP"

\* How far the workflow is tells what the adapter has seen of it, unless it has
\* lost the vehicle.  No operation leaves a session in NEEDS_INPUT or FAILED.
PhaseOK(r, a, lost) ==
    /\ r.state \notin {"NEEDS_INPUT", "FAILED"}
    /\ lost => a.dispatched # 0
    /\ r.state \in {Absent, "INTENT", "OBSERVED", "PLANNED", "PROPOSED"} =>
         r.replan = 0 /\ ~lost
    /\ r.replan = 0 /\ ~lost /\ r.state \in {Absent, "INTENT", "OBSERVED", "PLANNED",
         "PROPOSED", "VERIFIED", "APPROVED"} => a.dispatched = 0
    /\ r.state \in {"SAFE_STOP", "REPLANNING"} => Stopped(a)
    /\ r.state \in {"VERIFIED", "APPROVED"} => ~a.delivered
    /\ r.state \in {"VERIFIED", "APPROVED"} /\ r.replan # 0 /\ ~lost => Stopped(a)
    /\ r.state \in {"REJECTED", "FAILED_SAFE", "BLOCKED"} /\ ~lost => a.agv # "EXECUTING"
    /\ r.state \in {"EXECUTING", "COMPLETED"} => a.dispatched # 0
    /\ r.state = "COMPLETED" =>
         /\ r.mission.id = a.dispatched
         /\ a.missions[a.dispatched].status = "COMPLETED"
         /\ a.missions[a.dispatched].node = a.missions[a.dispatched].route - 1

\* Before a replan there is one mission, number 1, from the approval on.
MissionsOK(r, a) ==
    /\ r.replan = 0 => r.issued \in {0, 1}
    /\ r.replan = 0 /\ r.state \in {Absent, "INTENT", "OBSERVED", "PLANNED",
                                   "PROPOSED", "VERIFIED"} => r.issued = 0
    /\ r.mission.id \in 0..r.issued
    /\ r.state = "EXECUTING" => r.mission.id # 0
    /\ r.state = "APPROVED" => r.plan # 0
    /\ a.dispatched # 0 => a.dispatched = 1

\* Who approved, and that an approval lasts from the grant to the end.
ApprovalOK(r) ==
    /\ r.approval.status # "NONE" => r.approval.role \in {"approver", "admin"}
    /\ r.approval.status = "NONE" => r.approval = NoApproval
    /\ r.state \in {"APPROVED", "EXECUTING", "BLOCKED", "SAFE_STOP", "REPLANNING",
                    "COMPLETED"} => r.approval.status # "NONE"

\* The parts together hold of every session in every reachable state.
SessionInvariant ==
    \A s \in Session :
        /\ AdapterOK(adapter[s])
        /\ PhaseOK(session[s], adapter[s], s \in adrift)
        /\ MissionsOK(session[s], adapter[s])
        /\ ApprovalOK(session[s])

-----------------------------------------------------------------------------
(* Statements of the documentation that the code does not keep.             *)

\* "a separate executor-authorized Resume operation continues motion under the
\* existing mission authorization" (docs/ARCHITECTURE.md): a replanned session
\* gets no second approval and no second mission.
ResumesUnderExistingApproval ==
    [][\A s \in Session :
        session[s].replan # 0 => session'[s].issued = session[s].issued]_vars

\* "A blockage always causes a local stop first" (docs/ARCHITECTURE.md): a
\* workflow that a blockage has BLOCKED has no vehicle driving under it.
BlockageAlwaysStops ==
    \A s \in Session :
        session[s].state = "BLOCKED" => adapter[s].agv # "EXECUTING"
=============================================================================
