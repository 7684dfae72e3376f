------------------------ MODULE MissionServiceProofs ------------------------
(***************************************************************************)
(* Proofs about MissionService: its types, that a vehicle in motion is      *)
(* attended, and the promises about its steps, for any number of sessions,  *)
(* keys, roles, routes and missions.                                        *)
(* A step changes one session and its adapter, so each action lemma (Kept)  *)
(* shows, for that session alone, the four parts of SessionInvariant and    *)
(* that the change is one MotionAuthority allows; KeptInvariant and         *)
(* KeptAuthority carry both to all sessions.                                *)
(***************************************************************************)
EXTENDS MissionService, SequenceTheorems, TLAPS

\* The invariant of one session: its record, its adapter, and whether the
\* workflow has lost the vehicle.
Good(r, a, lost) ==
    AdapterOK(a) /\ PhaseOK(r, a, lost) /\ MissionsOK(r, a) /\ ApprovalOK(r)

Operations ==
    [Operation \X Key ->
        [session : Session \cup {Absent}, expected : Version \cup {0}]]

Inv == TypeOK /\ SessionInvariant

\* Through changes the status and the history of a session, nothing else.
LEMMA ThroughFacts ==
    ASSUME NEW r \in MissionSession, NEW path \in Seq(MissionStatus),
           path # << >>
    PROVE  /\ Through(r, path) \in MissionSession
           /\ Through(r, path).state = path[Len(path)]
           /\ Through(r, path).plan = r.plan
           /\ Through(r, path).version = r.version
           /\ Through(r, path).approval = r.approval
           /\ Through(r, path).issued = r.issued
           /\ Through(r, path).mission = r.mission
           /\ Through(r, path).replan = r.replan
<1>1. path[Len(path)] \in MissionStatus
  <2>1. Len(path) \in 1..Len(path)
    BY DEF MissionStatus
  <2>2. QED
    BY <2>1, ElementOfSeq
<1>2. r.history \o path \in Seq(MissionStatus)
  BY ConcatProperties DEF MissionSession
<1>3. QED
  BY <1>1, <1>2 DEF Through, MissionSession

-----------------------------------------------------------------------------
(* What a step does to its session.                                         *)

\* What MotionAuthority sees of an adapter and of a session's record.
Motion(a) ==
    IF a.delivered THEN "delivered"
    ELSE IF a.agv = "IDLE" THEN "parked"
    ELSE IF a.agv = "EXECUTING" THEN "moving" ELSE "halted"

Closed(r) == r.state \in Terminal

Resting(a) == Motion(a) \in {"parked", "halted"}

\* The changes from record o with adapter a to record r with adapter b that
\* MotionAuthority knows of, in the order of its actions.  was and lost say
\* whether the session is adrift before and after.
Authorized(o, a, r, b, was, lost) ==
    /\ ~Closed(o) /\ ~Closed(r) /\ (lost <=> was)
    /\ Resting(a) \/ was
    /\ Motion(b) = Motion(a)
    /\ r.approval.status = "VALID" /\ r.approval.role \in Role \cap {"approver", "admin"}

Lapsed(o, a, r, b, was, lost) ==
    /\ o.approval.status = "VALID" /\ r.approval.status = "EXPIRED"
    /\ r.approval.role = o.approval.role
    /\ Motion(b) = Motion(a) /\ (Closed(r) <=> Closed(o)) /\ (lost <=> was)

HasSetOff(o, a, r, b, was, lost) ==
    /\ ~Closed(o) /\ ~Closed(r) /\ (was => lost)
    /\ o.approval.status = "VALID" /\ r.approval = o.approval
    /\ Resting(a) /\ Motion(b) \in {"moving", "delivered"}

Halted(o, a, r, b, was, lost) ==
    /\ Motion(a) = "moving" /\ Motion(b) = "halted"
    /\ r.approval = o.approval /\ (Closed(r) <=> Closed(o)) /\ (lost <=> was)

Completed(o, a, r, b, was, lost) ==
    /\ ~Closed(o) /\ Closed(r) /\ (lost <=> was)
    /\ o.approval.status = "VALID" /\ r.approval = o.approval
    /\ Motion(a) = "halted" /\ Motion(b) = "delivered"

WasLost(o, a, r, b, was, lost) ==
    /\ ~Closed(o) /\ ~Closed(r) /\ lost
    /\ Motion(b) = Motion(a) /\ r.approval = o.approval

Arrived(o, a, r, b, was, lost) ==
    /\ ~Closed(o) /\ ~Closed(r) /\ was /\ lost
    /\ o.approval.status = "VALID" /\ r.approval = o.approval
    /\ Motion(a) = "moving" /\ Motion(b) = "delivered"

WasClosed(o, a, r, b, was, lost) ==
    /\ ~Closed(o) /\ Closed(r) /\ (lost <=> was)
    /\ Motion(a) # "moving" \/ was
    /\ Motion(b) = Motion(a)
    /\ r.approval \in {o.approval, NoApproval}

Unseen(o, a, r, b, was, lost) ==
    /\ Motion(b) = Motion(a) /\ r.approval = o.approval
    /\ (Closed(r) <=> Closed(o)) /\ (lost <=> was)

Promised(o, a, r, b, was, lost) ==
    \/ Authorized(o, a, r, b, was, lost) \/ Lapsed(o, a, r, b, was, lost)
    \/ HasSetOff(o, a, r, b, was, lost) \/ Halted(o, a, r, b, was, lost)
    \/ Completed(o, a, r, b, was, lost) \/ WasLost(o, a, r, b, was, lost)
    \/ Arrived(o, a, r, b, was, lost) \/ WasClosed(o, a, r, b, was, lost)
    \/ Unseen(o, a, r, b, was, lost)

\* Session s gets the record r and its adapter becomes b.
Becomes(s, r, b) ==
    /\ session' = [session EXCEPT ![s] = r]
    /\ adapter' = [adapter EXCEPT ![s] = b]
    /\ operations' \in Operations

\* A typed and good change of session s that MotionAuthority allows, after
\* which the workflow is as adrift as before, or is.
Kept(s) ==
    \E r \in MissionSession, b \in Adapter :
        /\ Becomes(s, r, b)
        /\ \/ /\ adrift' = adrift
              /\ Good(r, b, s \in adrift)
              /\ Promised(session[s], adapter[s], r, b, s \in adrift, s \in adrift)
           \/ /\ adrift' = adrift \cup {s}
              /\ Good(r, b, TRUE)
              /\ Promised(session[s], adapter[s], r, b, s \in adrift, TRUE)

\* A kept step preserves the invariant.
LEMMA KeptInvariant ==
    ASSUME Inv, NEW s \in Session, Kept(s)
    PROVE  Inv'
<1>1. PICK r \in MissionSession, b \in Adapter :
        /\ Becomes(s, r, b)
        /\ \/ adrift' = adrift /\ Good(r, b, s \in adrift)
           \/ adrift' = adrift \cup {s} /\ Good(r, b, TRUE)
  BY DEF Kept
<1>2. TypeOK'
  BY <1>1 DEF Inv, TypeOK, Operations, Becomes
<1>3. ASSUME NEW t \in Session
      PROVE  Good(session'[t], adapter'[t], t \in adrift')
  <2>1. CASE t = s
    <3>1. session'[t] = r /\ adapter'[t] = b
      BY <1>1, <2>1 DEF Inv, TypeOK, Becomes
    <3>2. CASE adrift' = adrift /\ Good(r, b, s \in adrift)
      BY <2>1, <3>1, <3>2
    <3>3. CASE adrift' = adrift \cup {s} /\ Good(r, b, TRUE)
      <4>1. t \in adrift'
        BY <2>1, <3>3
      <4>2. QED
        BY <3>1, <3>3, <4>1 DEF Good, PhaseOK
    <3>4. QED
      BY <1>1, <3>2, <3>3
  <2>2. CASE t # s
    <3>1. /\ session'[t] = session[t] /\ adapter'[t] = adapter[t]
          /\ t \in adrift' <=> t \in adrift
      BY <1>1, <2>2 DEF Inv, TypeOK, Becomes
    <3>2. Good(session[t], adapter[t], t \in adrift)
      BY DEF Inv, SessionInvariant, Good
    <3>3. QED
      BY <3>1, <3>2 DEF Good, PhaseOK
  <2>3. QED
    BY <2>1, <2>2
<1>4. SessionInvariant'
  BY <1>3 DEF SessionInvariant, Good, AdapterOK, PhaseOK, MissionsOK, ApprovalOK, Stopped
<1>5. QED
  BY <1>2, <1>4 DEF Inv

\* A commit and a raise are both kept; the version does not show.
LEMMA FinishKept ==
    ASSUME Inv, NEW s \in Session, NEW k \in Key, NEW v \in Version,
           NEW name \in Operation, NEW r \in MissionSession, NEW b \in Adapter,
           Finish(s, name, k, v, r), adapter' = [adapter EXCEPT ![s] = b],
           Good(r, b, s \in adrift),
           Promised(session[s], adapter[s], r, b, s \in adrift, s \in adrift)
    PROVE  Kept(s)
<1> DEFINE q == [r EXCEPT !.version = @ + 1]
<1>1. /\ q \in MissionSession /\ q.state = r.state /\ q.approval = r.approval
      /\ q.mission = r.mission /\ q.replan = r.replan /\ q.issued = r.issued
      /\ q.plan = r.plan
  BY DEF MissionSession
<1>2. operations' \in Operations
  BY DEF Finish, Inv, TypeOK, Operations
<1>3. Becomes(s, q, b) /\ adrift' = adrift
  BY <1>2 DEF Finish, Becomes
<1> HIDE DEF q
<1>4. Good(q, b, s \in adrift)
  BY <1>1 DEF Good, PhaseOK, MissionsOK, ApprovalOK
<1>5. Promised(session[s], adapter[s], q, b, s \in adrift, s \in adrift)
  BY <1>1 DEF Promised, Authorized, Lapsed, HasSetOff, Halted, Completed, WasLost,
              Arrived, WasClosed, Unseen, Closed
<1>6. QED
  BY <1>1, <1>3, <1>4, <1>5 DEF Kept

LEMMA RaiseKept ==
    ASSUME Inv, NEW s \in Session, NEW r \in MissionSession, NEW b \in Adapter,
           Raise(s, r), adapter' = [adapter EXCEPT ![s] = b],
           Good(r, b, s \in adrift),
           Promised(session[s], adapter[s], r, b, s \in adrift, s \in adrift)
    PROVE  Kept(s)
<1>1. Becomes(s, r, b) /\ adrift' = adrift
  BY DEF Raise, Becomes, Inv, TypeOK, Operations
<1>2. QED
  BY <1>1 DEF Kept

LEMMA LostKept ==
    ASSUME Inv, NEW s \in Session, NEW r \in MissionSession, NEW b \in Adapter,
           LoseTrack(s, r), adapter' = [adapter EXCEPT ![s] = b],
           Good(r, b, TRUE),
           Promised(session[s], adapter[s], r, b, s \in adrift, TRUE)
    PROVE  Kept(s)
<1>1. Becomes(s, r, b) /\ adrift' = adrift \cup {s}
  BY DEF LoseTrack, Becomes, Inv, TypeOK, Operations
<1>2. QED
  BY <1>1 DEF Kept

\* What the invariant says of one session.
LEMMA OfSession ==
    ASSUME Inv, NEW s \in Session
    PROVE  /\ session[s] \in MissionSession
           /\ adapter[s] \in Adapter
           /\ Good(session[s], adapter[s], s \in adrift)
           /\ adapter = [adapter EXCEPT ![s] = adapter[s]]
  BY DEF Inv, TypeOK, SessionInvariant, Good

\* What the invariant says of motion.
LEMMA Attended == Inv => MotionIsAttended
<1> SUFFICES ASSUME Inv, NEW s \in Session, adapter[s].agv = "EXECUTING"
             PROVE  /\ adapter[s].dispatched # 0
                    /\ adapter[s].missions[adapter[s].dispatched].status = "EXECUTING"
                    /\ s \notin adrift =>
                         /\ session[s].state = "EXECUTING"
                         /\ session[s].approval.role \in {"approver", "admin"}
  BY DEF MotionIsAttended
<1> DEFINE r == session[s]
           a == adapter[s]
<1>1. r \in MissionSession /\ a \in Adapter /\ Good(r, a, s \in adrift)
  BY OfSession
<1>2. a.agv = "EXECUTING"
  OBVIOUS
<1> HIDE DEF r, a
<1>3. /\ a.dispatched \in MissionId
      /\ a.missions[a.dispatched].status = "EXECUTING"
  BY <1>1, <1>2 DEF Good, AdapterOK, Adapter, AdapterMission
<1>4. a.dispatched # 0
  BY <1>3, MaxMissionAssumption DEF MissionId
<1>5. s \notin adrift => r.state = "EXECUTING"
  BY <1>1, <1>2, <1>3, <1>4
     DEF Good, PhaseOK, Stopped, Terminal, MissionSession, MissionStatus
<1>6. r.state = "EXECUTING" => r.approval.role \in {"approver", "admin"}
  BY <1>1 DEF Good, ApprovalOK
<1>7. QED
  BY <1>3, <1>4, <1>5, <1>6 DEF r, a

\* What an operation may do that moves nothing, of a session that is not executing.
LEMMA QuietPromise ==
    ASSUME Inv, NEW s \in Session, NEW r,
           session[s].state \notin Terminal \cup {"EXECUTING"},
           \/ r.approval = session[s].approval
           \/ r.approval = NoApproval /\ Closed(r)
    PROVE  Promised(session[s], adapter[s], r, adapter[s], s \in adrift, s \in adrift)
<1>1. Motion(adapter[s]) # "moving" \/ s \in adrift
  BY Attended DEF MotionIsAttended, Motion
<1>2. ~Closed(session[s])
  BY DEF Closed
<1>3. CASE Closed(r)
  BY <1>1, <1>2, <1>3 DEF Promised, WasClosed
<1>4. CASE ~Closed(r)
  BY <1>2, <1>4 DEF Promised, Unseen
<1>5. QED
  BY <1>3, <1>4

\* Such a change of a session is kept when it leaves the session good.
LEMMA QuietKept ==
    ASSUME Inv, NEW s \in Session, NEW r \in MissionSession,
           session[s].state \notin Terminal \cup {"EXECUTING"},
           \/ r.approval = session[s].approval
           \/ r.approval = NoApproval /\ Closed(r),
           Good(r, adapter[s], s \in adrift),
           adapter' = adapter,
           \/ Raise(s, r)
           \/ \E name \in Operation, k \in Key, v \in Version : Finish(s, name, k, v, r)
    PROVE  Kept(s)
<1>1. Promised(session[s], adapter[s], r, adapter[s], s \in adrift, s \in adrift)
  BY QuietPromise
<1>2. adapter[s] \in Adapter /\ adapter' = [adapter EXCEPT ![s] = adapter[s]]
  BY OfSession
<1>3. QED
  BY <1>1, <1>2, RaiseKept, FinishKept

-----------------------------------------------------------------------------
(* What the adapter's methods give.                                         *)

LEMMA StartFacts ==
    ASSUME NEW a \in Adapter, AdapterOK(a), a.dispatched = 0,
           NEW m \in MissionId, NEW route \in Route
    PROVE  /\ StartMission(a, m, route) \in Adapter
           /\ AdapterOK(StartMission(a, m, route))
           /\ StartMission(a, m, route).dispatched = m
           /\ StartMission(a, m, route).missions[m].status = "EXECUTING"
<1> DEFINE b == StartMission(a, m, route)
           stored == [status |-> "EXECUTING", node |-> 0, route |-> route]
<1>1. /\ b.missions = [a.missions EXCEPT ![m] = stored]
      /\ b.dispatched = m /\ b.agv = "EXECUTING" /\ b.delivered = a.delivered
  BY DEF StartMission, Adapter
<1>2. stored \in AdapterMission /\ stored # NoMission
  BY DEF AdapterMission, NoMission
<1>3. b \in Adapter
  BY <1>2 DEF StartMission, Adapter
<1>4. m # 0
  BY MaxMissionAssumption DEF MissionId
<1>5. b.missions[m] = stored /\ \A i \in MissionId \ {m} : b.missions[i] = a.missions[i]
  BY <1>1 DEF Adapter
<1>6. ~a.delivered /\ \A i \in MissionId : a.missions[i] = NoMission
  BY <1>4, MaxMissionAssumption DEF AdapterOK, MissionId
<1>7. AdapterOK(b)
  <2> HIDE DEF b
  <2>1. \A i \in MissionId : b.missions[i] # NoMission <=> b.dispatched = i
    BY <1>1, <1>2, <1>5, <1>6
  <2>2. QED
    BY <1>1, <1>4, <1>5, <1>6, <2>1 DEF AdapterOK
<1>8. QED
  BY <1>1, <1>3, <1>5, <1>7

\* Any node the executing mission reaches; advance and the loop are such steps.
LEMMA ReachFacts ==
    ASSUME NEW a \in Adapter, AdapterOK(a), NEW m \in MissionId,
           a.missions[m].status = "EXECUTING", NEW node \in Nat,
           NEW b, b = Reach(a, m, node)
    PROVE  /\ b \in Adapter /\ AdapterOK(b)
           /\ a.dispatched = m /\ b.dispatched = m
           /\ a.agv = "EXECUTING" /\ ~a.delivered
           /\ b.missions[m].node = node
           /\ b.missions[m].route = a.missions[m].route
           /\ IF node = a.missions[m].route - 1
              THEN b.missions[m].status = "COMPLETED" /\ b.delivered
              ELSE b.missions[m].status = "EXECUTING" /\ ~b.delivered /\ b.agv = "EXECUTING"
<1> DEFINE old == a.missions[m]
           last == node = old.route - 1
           status == IF last THEN "COMPLETED" ELSE "EXECUTING"
           new == [old EXCEPT !.node = node, !.status = status]
<1>1. m # 0 /\ old # NoMission /\ a.dispatched = m
  BY MaxMissionAssumption DEF MissionId, AdapterOK, NoMission
<1>2. old \in [status : {"EXECUTING", "SAFE_STOP", "COMPLETED"}, node : Nat, route : Route]
  BY <1>1 DEF Adapter, AdapterMission
<1>3. a.agv = "EXECUTING" /\ ~a.delivered
  BY <1>1 DEF AdapterOK
<1>4. /\ b.missions = [a.missions EXCEPT ![m] = new]
      /\ b.dispatched = m
      /\ b.agv = IF last THEN "IDLE" ELSE a.agv
      /\ b.delivered = (a.delivered \/ last)
  BY <1>1, <1>2 DEF Reach, Adapter
<1>5. /\ new \in AdapterMission /\ new # NoMission /\ new.node = node
      /\ new.route = old.route /\ new.status = IF last THEN "COMPLETED" ELSE "EXECUTING"
  BY <1>2 DEF AdapterMission, NoMission
<1>6. b \in Adapter
  <2>1. [a.missions EXCEPT ![m] = new] \in [MissionId -> AdapterMission]
    BY <1>5 DEF Adapter
  <2>2. b = [a EXCEPT !.missions = [a.missions EXCEPT ![m] = new],
                      !.agv = IF last THEN "IDLE" ELSE @,
                      !.delivered = @ \/ last]
    BY DEF Reach
  <2>3. QED
    BY <2>1, <2>2 DEF Adapter
<1>7. b.missions[m] = new /\ \A i \in MissionId \ {m} : b.missions[i] = a.missions[i]
  BY <1>4 DEF Adapter
<1>8. AdapterOK(b)
  <2> HIDE DEF new, last
  <2>1. \A i \in MissionId : b.missions[i] # NoMission <=> b.dispatched = i
    BY <1>1, <1>4, <1>5, <1>7 DEF AdapterOK
  <2>2. QED
    BY <1>1, <1>3, <1>4, <1>5, <1>7, <2>1 DEF AdapterOK
<1>9. QED
  BY <1>1, <1>3, <1>4, <1>5, <1>6, <1>7, <1>8

LEMMA AdvanceFacts ==
    ASSUME NEW a \in Adapter, AdapterOK(a), NEW m \in MissionId,
           a.missions[m].status = "EXECUTING",
           NEW b, b = Advance(a, m)
    PROVE  /\ b \in Adapter /\ AdapterOK(b)
           /\ a.dispatched = m /\ b.dispatched = m
           /\ b.missions[m].status \in {"EXECUTING", "COMPLETED"}
           /\ Motion(a) = "moving" /\ Motion(b) \in {"moving", "delivered"}
<1>1. a.missions[m].node \in Nat /\ a.missions[m].route \in Route
  BY DEF Adapter, AdapterMission, NoMission
<1>2. NextNode(a.missions[m]) \in Nat /\ b = Reach(a, m, NextNode(a.missions[m]))
  BY <1>1 DEF NextNode, Route, Advance
<1>3. QED
  BY <1>2, ReachFacts DEF Motion

LEMMA LocalStopFacts ==
    ASSUME NEW a \in Adapter, AdapterOK(a), NEW m \in MissionId,
           a.missions[m] # NoMission, NEW b, b = LocalStop(a, m)
    PROVE  /\ b \in Adapter /\ AdapterOK(b) /\ Stopped(b)
           /\ a.dispatched = m /\ b.dispatched = m
           /\ b.agv = "STOPPED" /\ b.delivered = a.delivered
           /\ a.delivered \/ a.agv \in {"EXECUTING", "STOPPED"}
<1> DEFINE old == a.missions[m]
           new == [old EXCEPT !.status = "SAFE_STOP"]
<1>1. m # 0 /\ a.dispatched = m
  BY MaxMissionAssumption DEF MissionId, AdapterOK
<1>2. old \in [status : {"EXECUTING", "SAFE_STOP", "COMPLETED"}, node : Nat, route : Route]
  BY DEF Adapter, AdapterMission
<1>3. /\ b.missions = [a.missions EXCEPT ![m] = new]
      /\ b.dispatched = m /\ b.agv = "STOPPED" /\ b.delivered = a.delivered
  BY <1>1, <1>2 DEF LocalStop, Adapter
<1>4. new \in AdapterMission /\ new # NoMission /\ new.status = "SAFE_STOP"
  BY <1>2 DEF AdapterMission, NoMission
<1>5. b \in Adapter
  BY <1>2, <1>4 DEF LocalStop, Adapter
<1>6. AdapterOK(b) /\ Stopped(b)
  BY <1>1, <1>3, <1>4 DEF AdapterOK, Adapter, Stopped
<1>7. a.delivered \/ a.agv \in {"EXECUTING", "STOPPED"}
  BY <1>1, <1>2 DEF AdapterOK
<1>8. QED
  BY <1>1, <1>3, <1>5, <1>6, <1>7

LEMMA ReplaceFacts ==
    ASSUME NEW a \in Adapter, AdapterOK(a), ~a.delivered, NEW m \in MissionId,
           a.missions[m].status = "SAFE_STOP", NEW route \in Route,
           NEW b, b = ReplaceRoute(a, m, route)
    PROVE  /\ b \in Adapter /\ AdapterOK(b)
           /\ a.dispatched = m /\ b.dispatched = m
           /\ Motion(a) = "halted" /\ Motion(b) = "moving" /\ ~b.delivered
           /\ b.missions[m] = [status |-> "EXECUTING", node |-> 0, route |-> route]
<1> DEFINE new == [status |-> "EXECUTING", node |-> 0, route |-> route]
<1>1. m # 0 /\ a.missions[m] # NoMission /\ a.dispatched = m
  BY MaxMissionAssumption DEF MissionId, AdapterOK, NoMission
<1>2. /\ b.missions = [a.missions EXCEPT ![m] = new]
      /\ b.dispatched = m /\ b.agv = "EXECUTING" /\ b.delivered = a.delivered
  BY <1>1 DEF ReplaceRoute, Adapter
<1>3. new \in AdapterMission /\ new # NoMission
  BY DEF AdapterMission, NoMission
<1>4. b \in Adapter
  BY <1>3 DEF ReplaceRoute, Adapter
<1>5. b.missions[m] = new /\ \A i \in MissionId \ {m} : b.missions[i] = a.missions[i]
  BY <1>2 DEF Adapter
<1>6. AdapterOK(b)
  <2> HIDE DEF new
  <2>1. \A i \in MissionId : b.missions[i] # NoMission <=> b.dispatched = i
    BY <1>1, <1>2, <1>3, <1>5 DEF AdapterOK
  <2>2. b.missions[m].status = "EXECUTING"
    BY <1>5 DEF new
  <2>3. QED
    BY <1>1, <1>2, <2>1, <2>2 DEF AdapterOK
<1>7. a.agv = "STOPPED"
  BY <1>1 DEF AdapterOK
<1>8. QED
  BY <1>1, <1>2, <1>4, <1>5, <1>6, <1>7 DEF Motion

-----------------------------------------------------------------------------
(* The operations that leave the adapter alone.                             *)

\* create_intent is kept.
LEMMA CreateIntentKept ==
    ASSUME Inv, NEW s \in Session, CreateIntent(s)
    PROVE  Kept(s)
<1> DEFINE o == session[s]
           r == [o EXCEPT !.state = "INTENT", !.history = <<"INTENT">>]
<1>1. o \in MissionSession /\ Good(o, adapter[s], s \in adrift)
  BY OfSession
<1>2. o.state = Absent /\ Raise(s, r) /\ adapter' = adapter
  BY DEF CreateIntent
<1>3. /\ r \in MissionSession /\ r.state = "INTENT" /\ r.replan = o.replan
      /\ r.issued = o.issued /\ r.mission = o.mission /\ r.approval = o.approval
  <2>1. "INTENT" \in MissionStatus /\ <<"INTENT">> \in Seq(MissionStatus)
    BY DEF MissionStatus
  <2>2. QED
    BY <1>1, <2>1 DEF MissionSession
<1> HIDE DEF r
<1>4. Good(r, adapter[s], s \in adrift)
  BY <1>1, <1>2, <1>3 DEF Good, PhaseOK, MissionsOK, ApprovalOK, Absent
<1>5. QED
  BY <1>2, <1>3, <1>4, QuietKept DEF Terminal, Absent

\* The token running out is kept.
LEMMA ApprovalExpiresKept ==
    ASSUME Inv, NEW s \in Session, ApprovalExpires(s)
    PROVE  Kept(s)
<1> DEFINE o == session[s]
           r == [o EXCEPT !.approval.status = "EXPIRED"]
<1>1. /\ o \in MissionSession /\ adapter[s] \in Adapter
      /\ Good(o, adapter[s], s \in adrift)
      /\ adapter = [adapter EXCEPT ![s] = adapter[s]]
  BY OfSession
<1>2. o.approval.status = "VALID" /\ Raise(s, r) /\ adapter' = adapter
  BY DEF ApprovalExpires, ValidApproval
<1>3. /\ r \in MissionSession /\ r.state = o.state /\ r.replan = o.replan
      /\ r.issued = o.issued /\ r.mission = o.mission /\ r.plan = o.plan
      /\ r.approval.status = "EXPIRED" /\ r.approval.role = o.approval.role
  BY <1>1 DEF MissionSession, ApprovalToken
<1> HIDE DEF r, o
<1>4. Good(r, adapter[s], s \in adrift)
  BY <1>1, <1>2, <1>3 DEF Good, PhaseOK, MissionsOK, ApprovalOK
<1>5. Promised(o, adapter[s], r, adapter[s], s \in adrift, s \in adrift)
  BY <1>2, <1>3 DEF Promised, Lapsed, Closed
<1>6. QED
  BY <1>1, <1>2, <1>3, <1>4, <1>5, RaiseKept DEF o

\* prepare is kept, however far it gets.
LEMMA PrepareKept ==
    ASSUME Inv, NEW s \in Session, NEW k \in Key, NEW v \in Version, Prepare(s, k, v)
    PROVE  Kept(s)
<1> DEFINE o == session[s]
           planned(n) == [o EXCEPT !.plan = n]
           proposed(n) == [planned(n) EXCEPT !.proposal = TRUE]
           proven(n, outcome) == [proposed(n) EXCEPT !.proof = outcome]
           indexed(n) == [proven(n, "PASSED") EXCEPT !.indexed = TRUE]
           Shape(q) == /\ q \in MissionSession /\ q.replan = o.replan /\ q.issued = o.issued
                       /\ q.mission = o.mission /\ q.approval = o.approval
           Goes(q, path) == \/ Raise(s, Through(q, path))
                            \/ Finish(s, "prepare", k, v, Through(q, path))
           Way(path) == /\ path \in Seq(MissionStatus) /\ path # << >>
                        /\ path[Len(path)] \in {"OBSERVED", "PLANNED", "PROPOSED", "VERIFIED",
                                                "REJECTED", "FAILED_SAFE"}
<1>1. o \in MissionSession /\ Good(o, adapter[s], s \in adrift)
  BY OfSession
<1>2. o.state = "INTENT" /\ adapter' = adapter
  BY DEF Prepare
<1>3. ASSUME NEW q, Shape(q), NEW path, Way(path), Goes(q, path)
      PROVE  Kept(s)
  <2> DEFINE r == Through(q, path)
  <2>1. /\ r \in MissionSession /\ r.state = path[Len(path)] /\ r.replan = o.replan
        /\ r.issued = o.issued /\ r.mission = o.mission /\ r.approval = o.approval
    BY <1>3, ThroughFacts
  <2>2. Raise(s, r) \/ Finish(s, "prepare", k, v, r)
    BY <1>3
  <2> HIDE DEF r
  <2>3. Good(r, adapter[s], s \in adrift)
    BY <1>1, <1>2, <1>3, <2>1
       DEF Good, PhaseOK, MissionsOK, ApprovalOK, AdapterOK, Absent
  <2>4. "prepare" \in Operation
    BY DEF Operation
  <2>5. QED
    BY <1>2, <2>1, <2>2, <2>3, <2>4, QuietKept DEF Terminal
<1>4. Shape(o)
  BY <1>1
<1>5. ASSUME NEW n \in RouteLength
      PROVE  Shape(planned(n))
  BY <1>1 DEF MissionSession
<1>6. ASSUME NEW n \in RouteLength
      PROVE  Shape(proposed(n))
  <2> HIDE DEF planned
  <2>1. QED
    BY <1>5 DEF MissionSession
<1>7. ASSUME NEW n \in RouteLength, NEW outcome \in {"PASSED", "FAILED"}
      PROVE  Shape(proven(n, outcome))
  <2> HIDE DEF proposed
  <2>1. QED
    BY <1>6 DEF MissionSession
<1>8. ASSUME NEW n \in RouteLength
      PROVE  Shape(indexed(n))
  <2>1. PICK q : q = proven(n, "PASSED")
    OBVIOUS
  <2>2. Shape(q) /\ indexed(n) = [q EXCEPT !.indexed = TRUE]
    <3> HIDE DEF proven
    <3>1. QED
      BY <1>7, <2>1
  <2> HIDE DEF indexed
  <2>3. QED
    BY <2>2 DEF MissionSession
<1>9. /\ Way(<<"OBSERVED", "FAILED_SAFE">>) /\ Way(<<"OBSERVED">>)
      /\ Way(<<"OBSERVED", "PLANNED">>)
  BY DEF MissionStatus
<1>10. /\ Way(<<"OBSERVED", "PLANNED", "PROPOSED">>)
       /\ Way(<<"OBSERVED", "PLANNED", "PROPOSED", "REJECTED">>)
       /\ Way(<<"OBSERVED", "PLANNED", "PROPOSED", "VERIFIED">>)
  BY DEF MissionStatus
<1>11. \/ Goes(o, <<"OBSERVED", "FAILED_SAFE">>) \/ Goes(o, <<"OBSERVED">>)
       \/ \E n \in RouteLength :
            \/ Goes(planned(n), <<"OBSERVED", "PLANNED">>)
            \/ Goes(proposed(n), <<"OBSERVED", "PLANNED">>)
            \/ \E q \in {proposed(n), proven(n, "PASSED"), proven(n, "FAILED")} :
                 Goes(q, <<"OBSERVED", "PLANNED", "PROPOSED">>)
            \/ Goes(proven(n, "FAILED"), <<"OBSERVED", "PLANNED", "PROPOSED", "REJECTED">>)
            \/ Goes(proven(n, "PASSED"), <<"OBSERVED", "PLANNED", "PROPOSED", "VERIFIED">>)
            \/ Goes(indexed(n), <<"OBSERVED", "PLANNED", "PROPOSED", "VERIFIED">>)
  BY Zenon DEF Prepare
<1> HIDE DEF o, planned, proposed, proven, indexed, Shape, Goes, Way
<1>12. QED
  BY <1>3, <1>4, <1>5, <1>6, <1>7, <1>8, <1>9, <1>10, <1>11

\* reject is kept.
LEMMA RejectKept ==
    ASSUME Inv, NEW s \in Session, NEW k \in Key, NEW v \in Version, NEW role,
           Reject(s, k, v, role)
    PROVE  Kept(s)
<1> DEFINE o == session[s]
           r == Through(o, <<"REJECTED">>)
<1>1. o \in MissionSession /\ Good(o, adapter[s], s \in adrift)
  BY OfSession
<1>2. /\ o.state = "VERIFIED" /\ adapter' = adapter
      /\ Raise(s, r) \/ Finish(s, "reject", k, v, r)
  BY DEF Reject
<1>3. <<"REJECTED">> \in Seq(MissionStatus)
  BY DEF MissionStatus
<1>4. /\ r \in MissionSession /\ r.state = "REJECTED" /\ r.issued = o.issued
      /\ r.approval = o.approval /\ r.replan = o.replan /\ r.mission = o.mission
  BY <1>1, <1>3, ThroughFacts
<1> HIDE DEF r
<1>5. Good(r, adapter[s], s \in adrift)
  BY <1>1, <1>2, <1>4 DEF Good, PhaseOK, MissionsOK, ApprovalOK, AdapterOK, Stopped, Absent
<1>6. "reject" \in Operation
  BY DEF Operation
<1>7. QED
  BY <1>2, <1>4, <1>5, <1>6, QuietKept DEF Terminal

\* override is kept: it is accepted only where the vehicle stands, before the
\* first dispatch or after a stop, or where the workflow has lost it.
LEMMA OverrideKept ==
    ASSUME Inv, NEW s \in Session, NEW m, NEW k \in Key, NEW v \in Version, NEW role,
           Override(s, m, k, v, role)
    PROVE  Kept(s)
<1> DEFINE o == session[s]
           q == [o EXCEPT !.approval = NoApproval]
           r == Through(q, <<"FAILED_SAFE">>)
<1>1. o \in MissionSession /\ Good(o, adapter[s], s \in adrift)
  BY OfSession
<1>2. /\ o.state \in {"SAFE_STOP", "VERIFIED"} /\ adapter' = adapter
      /\ Raise(s, r) \/ Finish(s, "override", k, v, r)
  BY DEF Override, Overridable
<1>3. /\ q \in MissionSession /\ q.issued = o.issued /\ q.mission = o.mission
      /\ q.approval = NoApproval /\ q.replan = o.replan
  BY <1>1 DEF MissionSession, ApprovalToken, NoApproval
<1> HIDE DEF q
<1>4. <<"FAILED_SAFE">> \in Seq(MissionStatus)
  BY DEF MissionStatus
<1>5. /\ r \in MissionSession /\ r.state = "FAILED_SAFE" /\ r.issued = o.issued
      /\ r.approval = NoApproval /\ r.replan = o.replan /\ r.mission = o.mission
  BY <1>3, <1>4, ThroughFacts
<1> HIDE DEF r
<1>6. Good(r, adapter[s], s \in adrift)
  BY <1>1, <1>2, <1>5
     DEF Good, PhaseOK, MissionsOK, ApprovalOK, AdapterOK, Stopped, NoApproval, Absent
<1>7. "override" \in Operation
  BY DEF Operation
<1>8. QED
  BY <1>2, <1>5, <1>6, <1>7, QuietKept DEF Terminal, Closed

\* approve is kept: the vehicle it authorizes stands, or was lost before.
LEMMA ApproveKept ==
    ASSUME Inv, NEW s \in Session, NEW k \in Key, NEW v \in Version, NEW role \in Role,
           Approve(s, k, v, role)
    PROVE  Kept(s)
<1> DEFINE o == session[s]
           a == adapter[s]
           m == o.issued + 1
           token == [status |-> "VALID", role |-> role]
           granted == [o EXCEPT !.approval = token]
           given == [granted EXCEPT !.mission = [id |-> m, status |-> "APPROVED"],
                                    !.issued = m]
           Fits(q) == /\ q \in MissionSession /\ q.state \in {"VERIFIED", "APPROVED"}
                      /\ q.approval = token /\ q.replan = o.replan /\ q.plan = o.plan
                      /\ \/ q.issued = o.issued /\ q.mission = o.mission
                         \/ q.issued = m /\ q.mission.id = m /\ q.state = "APPROVED"
<1>1. /\ o \in MissionSession /\ a \in Adapter /\ Good(o, a, s \in adrift)
      /\ adapter = [adapter EXCEPT ![s] = a]
  BY OfSession
<1>2. /\ o.state = "VERIFIED" /\ o.plan # 0 /\ role \in {"approver", "admin"}
      /\ m \in MissionId /\ adapter' = adapter
      /\ \/ Raise(s, granted) \/ Raise(s, Through(granted, <<"APPROVED">>))
         \/ Finish(s, "approve", k, v, Through(given, <<"APPROVED">>))
  BY <1>1, MaxMissionAssumption DEF Approve, MissionSession, MissionId
<1>3. token \in ApprovalToken
  BY DEF ApprovalToken
<1>4. Fits(granted)
  BY <1>1, <1>2, <1>3 DEF MissionSession
<1>5. <<"APPROVED">> \in Seq(MissionStatus) /\ "APPROVED" \in MissionStatus
  BY DEF MissionStatus
<1>6. Fits(Through(granted, <<"APPROVED">>))
  <2> HIDE DEF granted, token
  <2>1. QED
    BY <1>4, <1>5, ThroughFacts
<1>7. Fits(Through(given, <<"APPROVED">>))
  <2>1. /\ given \in MissionSession /\ given.approval = token /\ given.replan = o.replan
        /\ given.plan = o.plan /\ given.issued = m /\ given.mission.id = m
    <3> HIDE DEF granted, token, m
    <3>1. QED
      BY <1>2, <1>4, <1>5 DEF MissionSession
  <2> HIDE DEF given, token, m
  <2>2. QED
    BY <1>5, <2>1, ThroughFacts
<1>8. ASSUME NEW q, Fits(q)
      PROVE  /\ q \in MissionSession /\ Good(q, a, s \in adrift)
             /\ Promised(o, a, q, a, s \in adrift, s \in adrift)
  <2> HIDE DEF o, a
  <2>1. Good(q, a, s \in adrift)
    BY <1>1, <1>2, <1>8
       DEF Good, PhaseOK, MissionsOK, ApprovalOK, MissionSession, MissionId, Absent
  <2>2. a.agv # "EXECUTING" \/ s \in adrift
    BY <1>2, Attended DEF MotionIsAttended, o, a
  <2>3. Resting(a) \/ s \in adrift
    BY <1>1, <1>2, <2>2 DEF Resting, Motion, Good, PhaseOK, Adapter
  <2>4. q.approval.status = "VALID" /\ q.approval.role \in Role \cap {"approver", "admin"}
    BY <1>2, <1>8
  <2>5. ~Closed(o) /\ ~Closed(q)
    BY <1>2, <1>8 DEF Closed, Terminal
  <2>6. QED
    BY <1>8, <2>1, <2>3, <2>4, <2>5 DEF Promised, Authorized
<1> HIDE DEF o, a, m, token, granted, given, Fits
<1>9. "approve" \in Operation
  BY DEF Operation
<1>10. QED
  BY <1>1, <1>2, <1>4, <1>6, <1>7, <1>8, <1>9, RaiseKept, FinishKept DEF o, a

\* replan is kept: only the session changes, and only its status and replan.
LEMMA ReplanKept ==
    ASSUME Inv, NEW s \in Session, NEW m, NEW k \in Key, NEW v \in Version, NEW role,
           Replan(s, m, k, v, role)
    PROVE  Kept(s)
<1> DEFINE o == session[s]
           a == adapter[s]
           q(n, outcome) == [o EXCEPT !.replan = n, !.replanProof = outcome]
           Goes(x, path) == Raise(s, Through(x, path)) \/ Finish(s, "replan", k, v, Through(x, path))
           Shape(x) == /\ x \in MissionSession /\ x.issued = o.issued
                       /\ x.mission = o.mission /\ x.approval = o.approval
                       /\ x.replan = 0 => o.replan = 0
<1>1. o \in MissionSession /\ a \in Adapter /\ Good(o, a, s \in adrift)
  BY OfSession
<1>2. o.state = "SAFE_STOP" /\ adapter' = adapter
  BY DEF Replan
<1>3. ASSUME NEW x, Shape(x), NEW path \in Seq(MissionStatus), path # << >>,
             \/ path[Len(path)] \in {"REPLANNING", "FAILED_SAFE"}
             \/ path[Len(path)] = "VERIFIED" /\ ~a.delivered /\ x.replan # 0,
             Goes(x, path)
      PROVE  Kept(s)
  <2> DEFINE r == Through(x, path)
  <2>1. /\ r \in MissionSession /\ r.state = path[Len(path)] /\ r.replan = x.replan
        /\ r.issued = o.issued /\ r.mission = o.mission /\ r.approval = o.approval
    BY <1>3, ThroughFacts
  <2>2. Raise(s, r) \/ Finish(s, "replan", k, v, r)
    BY <1>3
  <2> HIDE DEF r
  <2>3. Good(r, a, s \in adrift)
    BY <1>1, <1>2, <1>3, <2>1
       DEF Good, PhaseOK, MissionsOK, ApprovalOK, AdapterOK, Stopped, Absent
  <2>4. "replan" \in Operation
    BY DEF Operation
  <2>5. QED
    BY <1>2, <2>1, <2>2, <2>3, <2>4, QuietKept DEF Terminal
<1>4. Shape(o)
  BY <1>1
<1>5. ASSUME NEW n \in RouteLength, NEW outcome \in {"PASSED", "FAILED"}
      PROVE  Shape(q(n, outcome)) /\ q(n, outcome).replan # 0
  BY <1>1, RouteAssumption DEF MissionSession, Route
<1>6. /\ <<"FAILED_SAFE">> \in Seq(MissionStatus) /\ <<"REPLANNING">> \in Seq(MissionStatus)
      /\ <<"REPLANNING", "FAILED_SAFE">> \in Seq(MissionStatus)
      /\ <<"REPLANNING", "VERIFIED">> \in Seq(MissionStatus)
  BY DEF MissionStatus
<1>7. \/ Goes(o, <<"FAILED_SAFE">>) \/ Goes(o, <<"REPLANNING">>)
      \/ \E n \in RouteLength, outcome \in {"PASSED", "FAILED"} :
           /\ ~a.delivered
           /\ \/ Goes(q(n, outcome), <<"REPLANNING">>)
              \/ Goes(q(n, outcome), <<"REPLANNING", "FAILED_SAFE">>)
              \/ Goes(q(n, outcome), <<"REPLANNING", "VERIFIED">>)
  BY Zenon DEF Replan
<1>8. ASSUME NEW x, Shape(x), Goes(x, <<"FAILED_SAFE">>) \/ Goes(x, <<"REPLANNING">>)
      PROVE  Kept(s)
  <2> HIDE DEF Goes, Shape
  <2>1. QED
    BY <1>3, <1>6, <1>8
<1>9. ASSUME NEW x, Shape(x), ~a.delivered, x.replan # 0,
             Goes(x, <<"REPLANNING", "FAILED_SAFE">>) \/ Goes(x, <<"REPLANNING", "VERIFIED">>)
      PROVE  Kept(s)
  <2> HIDE DEF Goes, Shape
  <2>1. QED
    BY <1>3, <1>6, <1>9
<1> HIDE DEF o, a, q, Goes, Shape
<1>10. QED
  BY <1>4, <1>5, <1>7, <1>8, <1>9

\* resume is kept, wherever a record stops it: a stopped vehicle sets off, is
\* lost as it does, or drives to its destination.
LEMMA ResumeKept ==
    ASSUME Inv, NEW s \in Session, NEW m \in MissionId, NEW k \in Key, NEW v \in Version,
           NEW role, Resume(s, m, k, v, role)
    PROVE  Kept(s)
<1> DEFINE o == session[s]
           a == adapter[s]
           replaced == ReplaceRoute(a, m, o.replan)
           run == RunToEnd(replaced, m)
           shown(b) == [o EXCEPT !.mission = [id |-> m, status |-> b.missions[m].status]]
           Shape(q) == /\ q \in MissionSession /\ q.issued = o.issued /\ q.replan = o.replan
                       /\ q.mission.id = m /\ q.approval = o.approval
<1>1. /\ o \in MissionSession /\ a \in Adapter /\ Good(o, a, s \in adrift)
  BY OfSession
<1>2. /\ m \in 1..o.issued /\ o.state = "VERIFIED" /\ o.replan # 0
      /\ o.approval.status = "VALID" /\ a.missions[m].status = "SAFE_STOP"
      /\ o.replan \in Route
  BY <1>1, RouteAssumption DEF Resume, Indexed, ValidApproval, MissionSession
<1>3. AdapterOK(a) /\ ~a.delivered
  BY <1>1, <1>2 DEF Good, PhaseOK
<1>4. /\ replaced \in Adapter /\ AdapterOK(replaced)
      /\ a.dispatched = m /\ replaced.dispatched = m
      /\ Motion(a) = "halted" /\ Motion(replaced) = "moving" /\ ~replaced.delivered
      /\ replaced.missions[m] = [status |-> "EXECUTING", node |-> 0, route |-> o.replan]
  BY <1>1, <1>2, <1>3, ReplaceFacts
<1>5. ~Closed(o)
  BY <1>2 DEF Closed, Terminal
<1>6. m # 0
  BY MaxMissionAssumption DEF MissionId
<1>7. ASSUME NEW b \in Adapter, b.missions[m].status \in {"EXECUTING", "COMPLETED"}
      PROVE  Shape(shown(b))
  BY <1>1, <1>7 DEF MissionSession, MissionStatus
<1>8. \/ LoseTrack(s, o) /\ adapter' = [adapter EXCEPT ![s] = replaced]
      \/ \E node \in 0..(o.replan - 1) :
           /\ adapter' = [adapter EXCEPT ![s] = Reach(replaced, m, node)]
           /\ Raise(s, Through(shown(Reach(replaced, m, node)), <<"EXECUTING">>))
      \/ /\ adapter' = [adapter EXCEPT ![s] = run]
         /\ \/ Raise(s, Through(shown(run), <<"EXECUTING", "COMPLETED">>))
            \/ Finish(s, "resume", k, v, Through(shown(run), <<"EXECUTING", "COMPLETED">>))
  BY DEF Resume
<1>9. <<"EXECUTING">> \in Seq(MissionStatus) /\ <<"EXECUTING", "COMPLETED">> \in Seq(MissionStatus)
  BY DEF MissionStatus
<1>10. CASE LoseTrack(s, o) /\ adapter' = [adapter EXCEPT ![s] = replaced]
  <2> HIDE DEF replaced
  <2>1. Good(o, replaced, TRUE)
    BY <1>1, <1>2, <1>4, <1>6 DEF Good, PhaseOK, MissionsOK, Absent
  <2>2. Promised(o, a, o, replaced, s \in adrift, TRUE)
    BY <1>2, <1>4, <1>5 DEF Promised, HasSetOff, Resting
  <2>3. QED
    BY <1>1, <1>4, <1>10, <2>1, <2>2, LostKept
<1>11. ASSUME NEW node \in 0..(o.replan - 1), NEW b, b = Reach(replaced, m, node),
              adapter' = [adapter EXCEPT ![s] = b],
              Raise(s, Through(shown(b), <<"EXECUTING">>))
       PROVE  Kept(s)
  <2> HIDE DEF replaced
  <2>1. node \in Nat
    BY <1>2 DEF Route
  <2>2. /\ b \in Adapter /\ AdapterOK(b) /\ b.dispatched = m
        /\ b.missions[m].status \in {"EXECUTING", "COMPLETED"}
        /\ Motion(b) \in {"moving", "delivered"}
    BY <1>4, <1>11, <2>1, ReachFacts DEF Motion
  <2>3. Shape(shown(b))
    BY <1>7, <2>2
  <2>4. PICK r : r = Through(shown(b), <<"EXECUTING">>)
    OBVIOUS
  <2> HIDE DEF shown
  <2>5. Shape(r) /\ r.state = "EXECUTING" /\ Raise(s, r)
    BY <1>9, <1>11, <2>3, <2>4, ThroughFacts
  <2>6. Good(r, b, s \in adrift)
    BY <1>1, <1>2, <1>4, <1>6, <2>2, <2>5 DEF Good, PhaseOK, MissionsOK, ApprovalOK, Absent
  <2>7. Promised(o, a, r, b, s \in adrift, s \in adrift)
    BY <1>2, <1>4, <1>5, <2>2, <2>5 DEF Promised, HasSetOff, Resting, Closed, Terminal
  <2>8. QED
    BY <1>11, <2>2, <2>5, <2>6, <2>7, RaiseKept
<1>12. ASSUME NEW b, b = run, adapter' = [adapter EXCEPT ![s] = b],
              \/ Raise(s, Through(shown(b), <<"EXECUTING", "COMPLETED">>))
              \/ Finish(s, "resume", k, v, Through(shown(b), <<"EXECUTING", "COMPLETED">>))
       PROVE  Kept(s)
  <2>1. b = Reach(replaced, m, o.replan - 1)
    <3> HIDE DEF replaced
    <3>1. QED
      BY <1>4, <1>12 DEF RunToEnd
  <2> HIDE DEF replaced, run
  <2>2. o.replan - 1 \in Nat
    BY <1>2 DEF Route
  <2>3. /\ b \in Adapter /\ AdapterOK(b) /\ b.dispatched = m
        /\ b.missions[m].status = "COMPLETED"
        /\ b.missions[m].node = b.missions[m].route - 1
        /\ Motion(b) = "delivered"
    BY <1>4, <2>1, <2>2, ReachFacts DEF Motion
  <2>4. Shape(shown(b))
    BY <1>7, <2>3
  <2>5. PICK r : r = Through(shown(b), <<"EXECUTING", "COMPLETED">>)
    OBVIOUS
  <2> HIDE DEF shown
  <2>6. Shape(r) /\ r.state = "COMPLETED" /\ (Raise(s, r) \/ Finish(s, "resume", k, v, r))
    BY <1>9, <1>12, <2>4, <2>5, ThroughFacts
  <2>7. Good(r, b, s \in adrift)
    BY <1>1, <1>2, <1>4, <1>6, <2>3, <2>6 DEF Good, PhaseOK, MissionsOK, ApprovalOK, Absent
  <2>8. Promised(o, a, r, b, s \in adrift, s \in adrift)
    BY <1>2, <1>4, <1>5, <2>3, <2>6 DEF Promised, Completed, Closed, Terminal
  <2>9. "resume" \in Operation
    BY DEF Operation
  <2>10. QED
    BY <1>12, <2>3, <2>6, <2>7, <2>8, <2>9, RaiseKept, FinishKept
<1> HIDE DEF shown, replaced, run
<1>13. QED
  BY <1>8, <1>10, <1>11, <1>12

\* stop is kept: the vehicle halts, or the workflow is blocked and has lost it.
LEMMA StopKept ==
    ASSUME Inv, NEW s \in Session, NEW m \in MissionId, NEW k \in Key, NEW v \in Version,
           NEW role, Stop(s, m, k, v, role)
    PROVE  Kept(s)
<1> DEFINE o == session[s]
           a == adapter[s]
           stopped == LocalStop(a, m)
           shown == [o EXCEPT !.mission.status = stopped.missions[o.mission.id].status]
           Shape(q) == /\ q \in MissionSession /\ q.issued = o.issued /\ q.replan = o.replan
                       /\ q.mission.id = o.mission.id /\ q.approval = o.approval
<1>1. o \in MissionSession /\ a \in Adapter /\ Good(o, a, s \in adrift)
      /\ adapter = [adapter EXCEPT ![s] = a]
  BY OfSession
<1>2. o.state = "EXECUTING"
  BY DEF Stop
<1>3. \/ LoseTrack(s, Through(o, <<"BLOCKED">>)) /\ adapter' = adapter
      \/ /\ a.missions[m] # NoMission
         /\ adapter' = [adapter EXCEPT ![s] = stopped]
         /\ \E q \in {o, shown} :
              \/ Raise(s, Through(q, <<"BLOCKED">>))
              \/ Raise(s, Through(q, <<"BLOCKED", "SAFE_STOP">>))
              \/ Finish(s, "stop", k, v, Through(q, <<"BLOCKED", "SAFE_STOP">>))
  BY DEF Stop
<1>4. <<"BLOCKED">> \in Seq(MissionStatus) /\ <<"BLOCKED", "SAFE_STOP">> \in Seq(MissionStatus)
  BY DEF MissionStatus
<1>5. Shape(o)
  BY <1>1
<1>6. CASE LoseTrack(s, Through(o, <<"BLOCKED">>)) /\ adapter' = adapter
  <2> DEFINE r == Through(o, <<"BLOCKED">>)
  <2>1. Shape(r) /\ r.state = "BLOCKED"
    BY <1>1, <1>4, ThroughFacts
  <2> HIDE DEF r
  <2>2. Good(r, a, TRUE)
    BY <1>1, <1>2, <2>1 DEF Good, PhaseOK, MissionsOK, ApprovalOK, Absent
  <2>3. Promised(o, a, r, a, s \in adrift, TRUE)
    BY <1>2, <2>1 DEF Promised, WasLost, Closed, Terminal
  <2>4. QED
    BY <1>1, <1>6, <2>1, <2>2, <2>3, LostKept DEF r
<1>7. ASSUME a.missions[m] # NoMission, adapter' = [adapter EXCEPT ![s] = stopped],
             NEW q \in {o, shown},
             \/ Raise(s, Through(q, <<"BLOCKED">>))
             \/ Raise(s, Through(q, <<"BLOCKED", "SAFE_STOP">>))
             \/ Finish(s, "stop", k, v, Through(q, <<"BLOCKED", "SAFE_STOP">>))
      PROVE  Kept(s)
  <2>1. AdapterOK(a)
    BY <1>1 DEF Good
  <2>2. /\ stopped \in Adapter /\ AdapterOK(stopped) /\ Stopped(stopped)
        /\ a.dispatched = m /\ stopped.dispatched = m
        /\ stopped.agv = "STOPPED" /\ stopped.delivered = a.delivered
        /\ a.delivered \/ a.agv \in {"EXECUTING", "STOPPED"}
    BY <1>1, <1>7, <2>1, LocalStopFacts
  <2> HIDE DEF stopped
  <2>3. Shape(q)
    <3>1. o.mission.id \in MissionId
      BY <1>1, <1>2 DEF Good, MissionsOK, MissionSession
    <3>2. stopped.missions[o.mission.id].status \in MissionStatus \cup {"NONE"}
      BY <2>2, <3>1 DEF Adapter, AdapterMission, NoMission, MissionStatus
    <3>3. Shape(shown)
      BY <1>1, <3>2 DEF MissionSession
    <3>4. QED
      BY <1>5, <1>7, <3>3
  <2>4. PICK r : /\ r \in {Through(q, <<"BLOCKED">>), Through(q, <<"BLOCKED", "SAFE_STOP">>)}
                 /\ Raise(s, r) \/ Finish(s, "stop", k, v, r)
    BY <1>7
  <2> HIDE DEF shown
  <2>5. Shape(r) /\ r.state \in {"BLOCKED", "SAFE_STOP"}
    <3>1. CASE r = Through(q, <<"BLOCKED">>)
      BY <1>4, <2>3, <3>1, ThroughFacts
    <3>2. CASE r = Through(q, <<"BLOCKED", "SAFE_STOP">>)
      BY <1>4, <2>3, <3>2, ThroughFacts
    <3>3. QED
      BY <2>4, <3>1, <3>2
  <2>6. Good(r, stopped, s \in adrift)
    BY <1>1, <1>2, <2>2, <2>5 DEF Good, PhaseOK, MissionsOK, ApprovalOK, Absent
  <2>7. Promised(o, a, r, stopped, s \in adrift, s \in adrift)
    <3>1. ~Closed(o) /\ ~Closed(r)
      BY <1>2, <2>5 DEF Closed, Terminal
    <3>2. r.approval = o.approval
      BY <2>5
    <3>3. \/ Motion(stopped) = Motion(a)
          \/ Motion(a) = "moving" /\ Motion(stopped) = "halted"
      BY <2>2 DEF Motion
    <3>4. QED
      BY <3>1, <3>2, <3>3 DEF Promised, Halted, Unseen
  <2>8. "stop" \in Operation
    BY DEF Operation
  <2>9. QED
    BY <1>7, <2>2, <2>4, <2>5, <2>6, <2>7, <2>8, RaiseKept, FinishKept
<1> HIDE DEF shown, stopped
<1>8. QED
  BY <1>3, <1>6, <1>7

\* start is kept, however the token, the adapter and the records answer.
LEMMA StartKept ==
    ASSUME Inv, NEW s \in Session, NEW m \in MissionId, NEW k \in Key, NEW v \in Version,
           NEW role, Start(s, m, k, v, role)
    PROVE  Kept(s)
<1> DEFINE o == session[s]
           a == adapter[s]
           started == StartMission(a, o.mission.id, o.plan)
           advanced == Advance(started, m)
           shown(b, id) == [o EXCEPT !.mission = [id |-> id, status |-> b.missions[id].status]]
           Shape(q) == /\ q \in MissionSession /\ q.issued = o.issued /\ q.replan = o.replan
                       /\ q.mission.id \in 1..o.issued /\ q.approval = o.approval
<1>1. o \in MissionSession /\ a \in Adapter /\ Good(o, a, s \in adrift)
  BY OfSession
<1>2. /\ o.state = "APPROVED" /\ o.mission.id # 0 /\ m \in 1..o.issued
      /\ o.plan # 0 /\ o.plan \in Route /\ o.issued \in Nat
      /\ o.mission.id \in MissionId /\ o.mission.id \in 1..o.issued
  BY <1>1, RouteAssumption, MaxMissionAssumption
     DEF Start, Indexed, Good, MissionsOK, MissionSession, MissionId
<1>3. AdapterOK(a) /\ ~a.delivered /\ ~Closed(o)
  BY <1>1, <1>2 DEF Good, PhaseOK, Closed, Terminal
<1>4. \/ /\ Raise(s, Through(o, <<"FAILED_SAFE">>)) /\ adapter' = adapter
      \/ /\ o.approval.status = "VALID"
         /\ \/ /\ a.dispatched = 0 /\ adapter' = [adapter EXCEPT ![s] = started]
               /\ LoseTrack(s, o)
            \/ /\ adapter' = [adapter EXCEPT ![s] = started]
               /\ Raise(s, Through(shown(started, started.dispatched), <<"EXECUTING">>))
            \/ /\ started.missions[m].status = "EXECUTING"
               /\ adapter' = [adapter EXCEPT ![s] = advanced]
               /\ \/ Raise(s, Through(shown(advanced, m), <<"EXECUTING">>))
                  \/ Finish(s, "start", k, v, Through(shown(advanced, m), <<"EXECUTING">>))
  BY DEF Start, ValidApproval
<1>5. <<"EXECUTING">> \in Seq(MissionStatus) /\ <<"FAILED_SAFE">> \in Seq(MissionStatus)
  BY DEF MissionStatus
<1>6. CASE Raise(s, Through(o, <<"FAILED_SAFE">>)) /\ adapter' = adapter
  <2>1. PICK r : r = Through(o, <<"FAILED_SAFE">>)
    OBVIOUS
  <2>2. /\ r \in MissionSession /\ r.state = "FAILED_SAFE" /\ r.replan = o.replan
        /\ r.issued = o.issued /\ r.mission = o.mission /\ r.approval = o.approval
    BY <1>1, <1>5, <2>1, ThroughFacts
  <2>3. Good(r, a, s \in adrift)
    BY <1>1, <1>2, <2>2
       DEF Good, PhaseOK, MissionsOK, ApprovalOK, AdapterOK, Stopped, Absent
  <2>4. QED
    BY <1>2, <1>6, <2>1, <2>2, <2>3, QuietKept DEF Terminal
<1>7. ASSUME a.dispatched = 0
      PROVE  /\ started \in Adapter /\ AdapterOK(started) /\ started.dispatched = 1
             /\ Motion(a) = "parked" /\ Motion(started) = "moving"
             /\ started.missions[1].status = "EXECUTING" /\ o.replan = 0
             /\ 1 \in MissionId
  <2>1. s \notin adrift /\ o.replan = 0
    BY <1>1, <1>2, <1>7 DEF Good, PhaseOK, Stopped
  <2>2. o.issued \in {0, 1}
    BY <1>1, <2>1 DEF Good, MissionsOK
  <2>3. o.mission.id = 1
    BY <1>2, <2>2
  <2>4. /\ started \in Adapter /\ AdapterOK(started) /\ started.dispatched = 1
        /\ started.missions[1].status = "EXECUTING"
    BY <1>1, <1>2, <1>3, <1>7, <2>3, StartFacts
  <2>5. a.agv = "IDLE"
    BY <1>3, <1>7 DEF AdapterOK
  <2> HIDE DEF started
  <2>6. started.agv = "EXECUTING" /\ ~started.delivered
    BY <2>4 DEF AdapterOK
  <2>7. QED
    BY <1>2, <1>3, <2>1, <2>3, <2>4, <2>5, <2>6 DEF Motion
<1>8. a.dispatched # 0 => started = a /\ a.dispatched = 1 /\ 1 \in MissionId
  BY <1>1, <1>2, MaxMissionAssumption DEF StartMission, Good, MissionsOK, MissionId
<1>9. /\ started \in Adapter /\ AdapterOK(started) /\ started.dispatched = 1
      /\ 1 \in MissionId
  BY <1>1, <1>3, <1>7, <1>8
<1>10. ASSUME NEW b \in Adapter, b.dispatched = 1, AdapterOK(b), NEW q, Shape(q),
              q.state = "EXECUTING"
       PROVE  Good(q, b, s \in adrift)
  BY <1>1, <1>2, <1>10 DEF Good, PhaseOK, MissionsOK, ApprovalOK, MissionSession, Absent
<1>11. ASSUME NEW b \in Adapter, NEW id \in 1..o.issued, id \in MissionId, NEW r,
              r = Through(shown(b, id), <<"EXECUTING">>)
       PROVE  Shape(r) /\ r.state = "EXECUTING" /\ ~Closed(r)
  <2>1. b.missions[id].status \in MissionStatus \cup {"NONE"}
    BY <1>11 DEF Adapter, AdapterMission, NoMission, MissionStatus
  <2>2. Shape(shown(b, id))
    BY <1>1, <1>11, <2>1 DEF MissionSession
  <2> HIDE DEF shown
  <2>3. Shape(r) /\ r.state = "EXECUTING"
    BY <1>5, <1>11, <2>2, ThroughFacts
  <2>4. QED
    BY <2>3 DEF Closed, Terminal
<1>12. CASE /\ a.dispatched = 0 /\ o.approval.status = "VALID"
            /\ adapter' = [adapter EXCEPT ![s] = started] /\ LoseTrack(s, o)
  <2> HIDE DEF started
  <2>1. Good(o, started, TRUE)
    BY <1>1, <1>2, <1>7, <1>12 DEF Good, PhaseOK, MissionsOK, Motion, Absent
  <2>2. Promised(o, a, o, started, s \in adrift, TRUE)
    BY <1>3, <1>7, <1>12 DEF Promised, HasSetOff, Resting
  <2>3. QED
    BY <1>1, <1>9, <1>12, <2>1, <2>2, LostKept
<1>13. CASE /\ o.approval.status = "VALID" /\ adapter' = [adapter EXCEPT ![s] = started]
            /\ Raise(s, Through(shown(started, started.dispatched), <<"EXECUTING">>))
  <2>1. PICK r : r = Through(shown(started, started.dispatched), <<"EXECUTING">>)
    OBVIOUS
  <2> HIDE DEF started
  <2>2. Shape(r) /\ r.state = "EXECUTING" /\ ~Closed(r) /\ Raise(s, r)
    BY <1>2, <1>9, <1>11, <1>13, <2>1
  <2>3. Good(r, started, s \in adrift)
    BY <1>9, <1>10, <2>2
  <2>4. Promised(o, a, r, started, s \in adrift, s \in adrift)
    BY <1>3, <1>7, <1>8, <1>13, <2>2 DEF Promised, HasSetOff, Resting, Unseen
  <2>5. QED
    BY <1>9, <1>13, <2>2, <2>3, <2>4, RaiseKept
<1>14. ASSUME o.approval.status = "VALID", started.missions[m].status = "EXECUTING",
              NEW b, b = advanced, adapter' = [adapter EXCEPT ![s] = b],
              \/ Raise(s, Through(shown(b, m), <<"EXECUTING">>))
              \/ Finish(s, "start", k, v, Through(shown(b, m), <<"EXECUTING">>))
       PROVE  Kept(s)
  <2>1. b = Advance(started, m)
    BY <1>14
  <2> HIDE DEF started, advanced
  <2>2. /\ b \in Adapter /\ AdapterOK(b) /\ b.dispatched = 1
        /\ Motion(started) = "moving" /\ Motion(b) \in {"moving", "delivered"}
    BY <1>9, <1>14, <2>1, AdvanceFacts
  <2>3. PICK r : r = Through(shown(b, m), <<"EXECUTING">>)
    OBVIOUS
  <2>4. /\ Shape(r) /\ r.state = "EXECUTING" /\ ~Closed(r)
        /\ Raise(s, r) \/ Finish(s, "start", k, v, r)
    BY <1>2, <1>11, <1>14, <2>2, <2>3
  <2>5. Good(r, b, s \in adrift)
    BY <1>10, <2>2, <2>4
  <2>6. Promised(o, a, r, b, s \in adrift, s \in adrift)
    <3>1. CASE a.dispatched = 0
      BY <1>3, <1>7, <1>14, <2>2, <2>4, <3>1 DEF Promised, HasSetOff, Resting
    <3>2. CASE a.dispatched # 0
      <4>1. Motion(a) = "moving"
        BY <1>8, <2>2, <3>2
      <4>2. s \in adrift
        BY <1>2, <4>1, Attended DEF MotionIsAttended, Motion
      <4>3. QED
        BY <1>3, <1>14, <2>2, <2>4, <4>1, <4>2 DEF Promised, Arrived, Unseen
    <3>3. QED
      BY <3>1, <3>2
  <2>7. "start" \in Operation
    BY DEF Operation
  <2>8. QED
    BY <1>14, <2>2, <2>4, <2>5, <2>6, <2>7, RaiseKept, FinishKept
<1> HIDE DEF shown, started, advanced
<1>15. QED
  BY <1>4, <1>6, <1>12, <1>13, <1>14

-----------------------------------------------------------------------------
(* The invariant, and what it says.                                         *)

\* Whatever step is taken, it changes one session, and that change is kept.
LEMMA StepKept ==
    ASSUME Inv, Next
    PROVE  \E s \in Session : Kept(s)
<1>1. ASSUME NEW s \in Session, CreateIntent(s) \/ ApprovalExpires(s)
      PROVE  Kept(s)
  BY <1>1, CreateIntentKept, ApprovalExpiresKept
<1>2. ASSUME NEW s \in Session, NEW k \in Key, NEW v \in Version, Prepare(s, k, v)
      PROVE  Kept(s)
  BY <1>2, PrepareKept
<1>3. ASSUME NEW s \in Session, NEW k \in Key, NEW v \in Version, NEW role \in Role,
             ProposalRequest(s, k, v, role)
      PROVE  Kept(s)
  BY <1>3, ApproveKept, RejectKept DEF ProposalRequest
<1>4. ASSUME NEW s \in Session, NEW k \in Key, NEW v \in Version, NEW role \in Role,
             NEW m \in MissionId, MissionRequest(s, m, k, v, role)
      PROVE  Kept(s)
  BY <1>4, StartKept, StopKept, ReplanKept, ResumeKept, OverrideKept DEF MissionRequest
<1>5. QED
  BY <1>1, <1>2, <1>3, <1>4 DEF Next

LEMMA StepInvariant == Inv /\ [Next]_vars => Inv'
<1> SUFFICES ASSUME Inv, [Next]_vars PROVE Inv'
  OBVIOUS
<1>1. CASE UNCHANGED vars
  BY <1>1 DEF vars, Inv, TypeOK, SessionInvariant, AdapterOK, PhaseOK, MissionsOK,
              ApprovalOK, Stopped
<1>2. CASE Next
  BY <1>2, StepKept, KeptInvariant
<1>3. QED
  BY <1>1, <1>2

\* The initial state satisfies the invariant.
LEMMA InitInvariant == Init => Inv
<1> SUFFICES ASSUME Init PROVE Inv
  OBVIOUS
<1>1. NewSession \in MissionSession
  BY DEF NewSession, MissionSession, ApprovalToken, NoApproval
<1>2. NewAdapter \in Adapter
  BY DEF NewAdapter, Adapter, AdapterMission
<1>3. Good(NewSession, NewAdapter, FALSE)
  BY MaxMissionAssumption
     DEF Good, AdapterOK, PhaseOK, MissionsOK, ApprovalOK, NewSession, NewAdapter,
         NoApproval, Absent, MissionId, Stopped, Terminal
<1>4. operations \in Operations
  BY DEF Init, Operations, NoOperation
<1>5. QED
  BY <1>1, <1>2, <1>3, <1>4
     DEF Init, Inv, TypeOK, SessionInvariant, Good, PhaseOK, Operations

\* The invariant holds in every state the service reaches.
THEOREM Invariant == Spec => []Inv
  BY InitInvariant, StepInvariant, PTL DEF Spec

\* Every session, adapter and operation record has its type, always: no failed
\* operation leaves one half built.
THEOREM TypeCorrect == Spec => []TypeOK
<1>1. Inv => TypeOK
  BY DEF Inv
<1>2. QED
  BY <1>1, Invariant, PTL

\* The parts of SessionInvariant hold of every session, always.
THEOREM SessionCorrect == Spec => []SessionInvariant
<1>1. Inv => SessionInvariant
  BY DEF Inv
<1>2. QED
  BY <1>1, Invariant, PTL

\* A vehicle in motion is one whose adapter executes its one mission, under a workflow
\* that is EXECUTING with a token from an approving role, unless it was lost.
THEOREM MotionAttended == Spec => []MotionIsAttended
  BY Attended, Invariant, PTL

\* Between the stop and the resumption, a second approval included, the adapter
\* holds a stopped mission and the vehicle stands.
THEOREM StoppedTillResumed == Spec => []StoppedUntilResumed
<1>1. Inv => StoppedUntilResumed
  BY DEF Inv, SessionInvariant, StoppedUntilResumed, PhaseOK, AdapterOK, Stopped
<1>2. QED
  BY <1>1, Invariant, PTL

\* One proposal puts at most one mission on the adapter, however often it is
\* approved and started.
THEOREM OneDispatch == Spec => []OneDispatchPerProposal
<1>1. Inv => OneDispatchPerProposal
  BY DEF Inv, SessionInvariant, OneDispatchPerProposal, AdapterOK
<1>2. QED
  BY <1>1, Invariant, PTL

\* A COMPLETED workflow has delivered its pallet.
THEOREM CompletedDelivered == Spec => []CompletedMeansDelivered
<1>1. Inv => CompletedMeansDelivered
  BY DEF Inv, SessionInvariant, CompletedMeansDelivered, PhaseOK, AdapterOK
<1>2. QED
  BY <1>1, Invariant, PTL

-----------------------------------------------------------------------------
(* The service implements MotionAuthority: what that sees of a session is a *)
(* function of its record and its adapter, and of adrift.                   *)

LEMMA MotionFacts ==
    ASSUME TypeOK, NEW s \in Session
    PROVE  MotionOf(s) = Motion(adapter[s])
BY DEF TypeOK, Adapter, MotionOf, Motion

LEMMA MotionFactsPrime ==
    ASSUME TypeOK', NEW s \in Session
    PROVE  MotionOf(s)' = Motion(adapter'[s])
BY DEF TypeOK, Adapter, MotionOf, Motion

\* A step that changes session s as promised is a step of MotionAuthority.
LEMMA PromisedStep ==
    ASSUME TypeOK, TypeOK', NEW s \in Session, NEW r, NEW b, NEW lost \in BOOLEAN,
           session' = [session EXCEPT ![s] = r],
           adapter' = [adapter EXCEPT ![s] = b],
           adrift' = IF lost THEN adrift \cup {s} ELSE adrift,
           Promised(session[s], adapter[s], r, b, s \in adrift, lost)
    PROVE  [Authority!Next]_Authority!vars
<1> DEFINE o == session[s]
           a == adapter[s]
           was == s \in adrift
           motion == [t \in Session |-> MotionOf(t)]
           approval == [t \in Session |-> session[t].approval.status]
           approver == [t \in Session |-> session[t].approval.role]
           closed == {t \in Session : session[t].state \in Terminal}
<1>1. /\ session'[s] = r /\ adapter'[s] = b
      /\ \A t \in Session \ {s} : session'[t] = session[t] /\ adapter'[t] = adapter[t]
  BY DEF TypeOK
<1>2. motion' = [motion EXCEPT ![s] = Motion(b)] /\ motion[s] = Motion(a)
  <2>1. MotionOf(s)' = Motion(b)
    BY <1>1, MotionFactsPrime
  <2>2. \A t \in Session \ {s} : MotionOf(t)' = MotionOf(t)
    BY <1>1 DEF MotionOf
  <2>3. motion' = [t \in Session |-> IF t = s THEN Motion(b) ELSE MotionOf(t)]
    BY <2>1, <2>2
  <2>4. QED
    BY <2>3, MotionFacts
<1>3. /\ approval' = [approval EXCEPT ![s] = r.approval.status]
      /\ approval[s] = o.approval.status
  <2>1. approval' = [t \in Session |-> IF t = s THEN r.approval.status
                                       ELSE session[t].approval.status]
    BY <1>1
  <2>2. QED
    BY <2>1
<1>4. /\ approver' = [approver EXCEPT ![s] = r.approval.role]
      /\ approver[s] = o.approval.role
  <2>1. approver' = [t \in Session |-> IF t = s THEN r.approval.role
                                       ELSE session[t].approval.role]
    BY <1>1
  <2>2. QED
    BY <2>1
<1>5. /\ s \in closed <=> Closed(o)
      /\ closed' = IF Closed(r) THEN closed \cup {s} ELSE closed \ {s}
  BY <1>1 DEF Closed
<1>6. /\ motion = [motion EXCEPT ![s] = motion[s]]
      /\ approval = [approval EXCEPT ![s] = approval[s]]
      /\ approver = [approver EXCEPT ![s] = approver[s]]
  OBVIOUS
<1>7. (lost <=> was) => adrift' = adrift
  OBVIOUS
<1>8. adrift' \in {adrift, adrift \cup {s}} /\ (lost => adrift' = adrift \cup {s})
  OBVIOUS
<1> HIDE DEF o, a, motion, approval, approver, closed
<1>9. CASE Authorized(o, a, r, b, was, lost)
  <2>1. Authority!Authorize(s)
    BY <1>2, <1>3, <1>4, <1>5, <1>6, <1>7, <1>9
       DEF Authorized, Resting, Authority!Authorize, motion, approval, approver, closed
  <2>2. QED
    BY <2>1 DEF Authority!Next
<1>10. CASE Lapsed(o, a, r, b, was, lost)
  <2>1. Authority!Lapse(s)
    BY <1>2, <1>3, <1>4, <1>5, <1>6, <1>7, <1>10
       DEF Lapsed, Authority!Lapse, motion, approval, approver, closed
  <2>2. QED
    BY <2>1 DEF Authority!Next
<1>11. CASE HasSetOff(o, a, r, b, was, lost)
  <2>1. s \notin closed /\ approval[s] = "VALID" /\ motion[s] \in {"parked", "halted"}
    BY <1>2, <1>3, <1>5, <1>11 DEF HasSetOff, Resting
  <2>2. \E to \in {"moving", "delivered"} : motion' = [motion EXCEPT ![s] = to]
    BY <1>2, <1>11 DEF HasSetOff
  <2>3. UNCHANGED <<approval, approver, closed>>
    BY <1>3, <1>4, <1>5, <1>6, <1>11 DEF HasSetOff, closed
  <2>4. Authority!SetOff(s)
    BY <1>8, <2>1, <2>2, <2>3 DEF Authority!SetOff, motion, approval, approver, closed
  <2>5. QED
    BY <2>4 DEF Authority!Next
<1>12. CASE Halted(o, a, r, b, was, lost)
  <2>1. Authority!Halt(s)
    BY <1>2, <1>3, <1>4, <1>5, <1>6, <1>7, <1>12
       DEF Halted, Authority!Halt, motion, approval, approver, closed
  <2>2. QED
    BY <2>1 DEF Authority!Next
<1>13. CASE Completed(o, a, r, b, was, lost)
  <2>1. Authority!Complete(s)
    BY <1>2, <1>3, <1>4, <1>5, <1>6, <1>7, <1>13
       DEF Completed, Authority!Complete, motion, approval, approver, closed
  <2>2. QED
    BY <2>1 DEF Authority!Next
<1>14. CASE WasLost(o, a, r, b, was, lost)
  <2>1. Authority!LoseTrack(s)
    BY <1>2, <1>3, <1>4, <1>5, <1>6, <1>8, <1>14
       DEF WasLost, Authority!LoseTrack, motion, approval, approver, closed
  <2>2. QED
    BY <2>1 DEF Authority!Next
<1>15. CASE Arrived(o, a, r, b, was, lost)
  <2>1. Authority!Arrive(s)
    BY <1>2, <1>3, <1>4, <1>5, <1>6, <1>7, <1>15
       DEF Arrived, Authority!Arrive, motion, approval, approver, closed
  <2>2. QED
    BY <2>1 DEF Authority!Next
<1>16. CASE WasClosed(o, a, r, b, was, lost)
  <2>1. \/ r.approval = o.approval
        \/ r.approval.status = "NONE" /\ r.approval.role = "NONE"
    BY <1>16 DEF WasClosed, NoApproval
  <2>2. Authority!Close(s)
    BY <1>2, <1>3, <1>4, <1>5, <1>6, <1>7, <1>16, <2>1
       DEF WasClosed, Authority!Close, motion, approval, approver, closed
  <2>3. QED
    BY <2>2 DEF Authority!Next
<1>17. CASE Unseen(o, a, r, b, was, lost)
  BY <1>2, <1>3, <1>4, <1>5, <1>6, <1>7, <1>17
     DEF Unseen, Authority!vars, motion, approval, approver, closed
<1>18. Promised(o, a, r, b, was, lost)
  BY DEF o, a
<1>19. QED
  BY <1>9, <1>10, <1>11, <1>12, <1>13, <1>14, <1>15, <1>16, <1>17, <1>18 DEF Promised

\* Every step of the service is a step of MotionAuthority, or none.
LEMMA StepAuthority == Inv /\ [Next]_vars => [Authority!Next]_Authority!vars
<1> SUFFICES ASSUME Inv, [Next]_vars PROVE [Authority!Next]_Authority!vars
  OBVIOUS
<1>1. TypeOK /\ TypeOK'
  BY StepInvariant DEF Inv
<1>2. CASE UNCHANGED vars
  BY <1>2 DEF vars, Authority!vars, MotionOf
<1>3. CASE Next
  <2>1. PICK s \in Session : Kept(s)
    BY <1>3, StepKept
  <2>2. PICK r \in MissionSession, b \in Adapter, lost \in BOOLEAN :
            /\ session' = [session EXCEPT ![s] = r]
            /\ adapter' = [adapter EXCEPT ![s] = b]
            /\ adrift' = IF lost THEN adrift \cup {s} ELSE adrift
            /\ Promised(session[s], adapter[s], r, b, s \in adrift, lost)
    <3>1. PICK r \in MissionSession, b \in Adapter :
            /\ Becomes(s, r, b)
            /\ \/ /\ adrift' = adrift
                  /\ Promised(session[s], adapter[s], r, b, s \in adrift, s \in adrift)
               \/ /\ adrift' = adrift \cup {s}
                  /\ Promised(session[s], adapter[s], r, b, s \in adrift, TRUE)
      BY <2>1 DEF Kept
    <3>2. CASE /\ adrift' = adrift
               /\ Promised(session[s], adapter[s], r, b, s \in adrift, s \in adrift)
      <4>1. adrift' = IF s \in adrift THEN adrift \cup {s} ELSE adrift
        BY <3>2
      <4>2. (s \in adrift) \in BOOLEAN
        OBVIOUS
      <4>3. QED
        BY <3>1, <3>2, <4>1, <4>2 DEF Becomes
    <3>3. CASE /\ adrift' = adrift \cup {s}
               /\ Promised(session[s], adapter[s], r, b, s \in adrift, TRUE)
      BY <3>1, <3>3 DEF Becomes
    <3>4. QED
      BY <3>1, <3>2, <3>3
  <2>3. QED
    BY <1>1, <2>2, PromisedStep
<1>4. QED
  BY <1>2, <1>3

LEMMA InitAuthority == Init => Authority!Init
BY DEF Init, Authority!Init, NewSession, NewAdapter, NoApproval, MotionOf, Absent, Terminal

\* For any sessions, keys, roles, routes and missions, the service keeps MotionAuthority's
\* promises: no motion but under an approval in force, from rest, towards one delivery.
THEOREM Implements == Spec => ImplementsMotionAuthority
<1>1. Init => Authority!Init
  BY InitAuthority
<1>2. Inv /\ [Next]_vars => [Authority!Next]_Authority!vars
  BY StepAuthority
<1>3. Spec => Authority!Init /\ [][Authority!Next]_Authority!vars
  BY <1>1, <1>2, Invariant, PTL DEF Spec
<1>4. QED
  BY <1>3 DEF ImplementsMotionAuthority, Authority!Spec

\* A step touches one session, and if that is terminal, its token has run out.
LEMMA TouchesOpenSession ==
    ASSUME Inv, Next
    PROVE  \E s \in Session :
              /\ session[s].state \notin Terminal \/ ApprovalExpires(s)
              /\ \A t \in Session \ {s} : session'[t] = session[t] /\ adapter'[t] = adapter[t]
<1> DEFINE Touched(s) ==
              /\ session[s].state \notin Terminal \/ ApprovalExpires(s)
              /\ \A t \in Session \ {s} : session'[t] = session[t] /\ adapter'[t] = adapter[t]
<1>1. ASSUME NEW s \in Session, NEW r, NEW b,
             session[s].state \notin Terminal \/ ApprovalExpires(s),
             session' = [session EXCEPT ![s] = r],
             adapter' = [adapter EXCEPT ![s] = b] \/ adapter' = adapter
      PROVE  Touched(s)
  BY <1>1 DEF Inv, TypeOK
<1> HIDE DEF Touched
<1>2. ASSUME NEW s \in Session, CreateIntent(s) \/ ApprovalExpires(s)
      PROVE  Touched(s)
  BY <1>1, <1>2 DEF CreateIntent, ApprovalExpires, Raise, Terminal, Absent
<1>3. ASSUME NEW s \in Session, NEW k, NEW v, Prepare(s, k, v)
      PROVE  Touched(s)
  BY <1>1, <1>3 DEF Prepare, Raise, Finish, Terminal
<1>4. ASSUME NEW s \in Session, NEW k, NEW v, NEW role, ProposalRequest(s, k, v, role)
      PROVE  Touched(s)
  BY <1>1, <1>4 DEF ProposalRequest, Approve, Reject, Raise, Finish, Terminal
<1>5. ASSUME NEW s \in Session, NEW k, NEW v, NEW role, NEW m, Start(s, m, k, v, role)
      PROVE  Touched(s)
  BY <1>1, <1>5 DEF Start, Raise, LoseTrack, Finish, Terminal
<1>6. ASSUME NEW s \in Session, NEW k, NEW v, NEW role, NEW m,
             Stop(s, m, k, v, role) \/ Resume(s, m, k, v, role)
      PROVE  Touched(s)
  BY <1>1, <1>6 DEF Stop, Resume, Raise, LoseTrack, Finish, Terminal
<1>7. ASSUME NEW s \in Session, NEW k, NEW v, NEW role, NEW m,
             Replan(s, m, k, v, role) \/ Override(s, m, k, v, role)
      PROVE  Touched(s)
  BY <1>1, <1>7 DEF Replan, Override, Overridable, Raise, Finish, Terminal
<1>8. \E s \in Session : Touched(s)
  BY <1>2, <1>3, <1>4, <1>5, <1>6, <1>7 DEF Next, MissionRequest
<1>9. QED
  BY <1>8 DEF Touched

\* Whatever is asked of a terminal session, it and its adapter stay; only its token runs out.
THEOREM TerminalStays == Spec => TerminalIsFinal
<1> DEFINE Stays(s) ==
        session[s].state \in Terminal =>
            /\ adapter'[s] = adapter[s]
            /\ session'[s] \in
                 {session[s], [session[s] EXCEPT !.approval.status = "EXPIRED"]}
<1>1. ASSUME Inv, [Next]_vars
      PROVE  [\A s \in Session : Stays(s)]_vars
  <2> SUFFICES ASSUME Next, NEW t \in Session, session[t].state \in Terminal
               PROVE  /\ adapter'[t] = adapter[t]
                      /\ session'[t] \in
                           {session[t], [session[t] EXCEPT !.approval.status = "EXPIRED"]}
    BY <1>1
  <2>1. PICK s \in Session :
            /\ session[s].state \notin Terminal \/ ApprovalExpires(s)
            /\ \A u \in Session \ {s} : session'[u] = session[u] /\ adapter'[u] = adapter[u]
    BY <1>1, TouchesOpenSession
  <2>2. CASE t # s
    BY <2>1, <2>2
  <2>3. CASE t = s
    BY <1>1, <2>1, <2>3 DEF ApprovalExpires, Raise, Inv, TypeOK
  <2>4. QED
    BY <2>2, <2>3
<1>2. QED
  BY <1>1, Invariant, PTL DEF Spec, TerminalIsFinal

-----------------------------------------------------------------------------
(* Histories and versions.                                                  *)

\* A path that goes on from status x along the table.
Onward(x, path) ==
    /\ path \in Seq(MissionStatus) /\ path # << >>
    /\ LegalHistory(path)
    /\ <<x, path[1]>> \in AllowedTransitions

\* Record r is o at the same version, gone further or not at all.
Keeps(o, r) ==
    DOMAIN r = DOMAIN o /\ r.version = o.version /\ r.history = o.history

Walks(o, r) ==
    /\ DOMAIN r = DOMAIN o /\ r.version = o.version
    /\ \/ r.history = o.history /\ r.state = o.state
       \/ o.state = Absent /\ r.history = <<"INTENT">> /\ r.state = "INTENT"
       \/ \E path :
             /\ Onward(o.state, path)
             /\ r.history = o.history \o path /\ r.state = path[Len(path)]

\* A step walks one session on, and commits or raises.
Commits(s) ==
    \E name \in Operation, k \in Key, v \in Version : \E r :
        /\ Walks(session[s], r)
        /\ Begin(s, name, k, v) /\ Finish(s, name, k, v, r)

Raises(s) == \E r : Walks(session[s], r) /\ (Raise(s, r) \/ LoseTrack(s, r))

\* The ways of the operations, from the status each of them asks for.
LEMMA OnwardPaths ==
    /\ Onward("INTENT", <<"OBSERVED", "FAILED_SAFE">>)
    /\ Onward("INTENT", <<"OBSERVED">>)
    /\ Onward("INTENT", <<"OBSERVED", "PLANNED">>)
    /\ Onward("INTENT", <<"OBSERVED", "PLANNED", "PROPOSED">>)
    /\ Onward("INTENT", <<"OBSERVED", "PLANNED", "PROPOSED", "REJECTED">>)
    /\ Onward("INTENT", <<"OBSERVED", "PLANNED", "PROPOSED", "VERIFIED">>)
    /\ Onward("VERIFIED", <<"APPROVED">>)
    /\ Onward("VERIFIED", <<"REJECTED">>)
    /\ Onward("VERIFIED", <<"EXECUTING">>)
    /\ Onward("VERIFIED", <<"EXECUTING", "COMPLETED">>)
    /\ Onward("VERIFIED", <<"FAILED_SAFE">>)
    /\ Onward("APPROVED", <<"EXECUTING">>)
    /\ Onward("APPROVED", <<"FAILED_SAFE">>)
    /\ Onward("EXECUTING", <<"BLOCKED", "SAFE_STOP">>)
    /\ Onward("EXECUTING", <<"BLOCKED">>)
    /\ Onward("SAFE_STOP", <<"FAILED_SAFE">>)
    /\ Onward("SAFE_STOP", <<"REPLANNING">>)
    /\ Onward("SAFE_STOP", <<"REPLANNING", "FAILED_SAFE">>)
    /\ Onward("SAFE_STOP", <<"REPLANNING", "VERIFIED">>)
BY DEF Onward, LegalHistory, AllowedTransitions, MissionStatus

LEMMA ThroughWalks ==
    ASSUME NEW o \in MissionSession, NEW q, NEW path, Keeps(o, q), Onward(o.state, path)
    PROVE  Walks(o, Through(q, path))
<1>1. /\ DOMAIN Through(q, path) = DOMAIN o
      /\ Through(q, path).version = o.version
      /\ Through(q, path).history = o.history \o path
      /\ Through(q, path).state = path[Len(path)]
  BY DEF Through, MissionSession, Keeps
<1>2. QED
  BY <1>1 DEF Walks

LEMMA Committing ==
    ASSUME Inv, NEW s \in Session, NEW q, NEW path, NEW name \in Operation,
           NEW k \in Key, NEW v \in Version,
           Keeps(session[s], q), Onward(session[s].state, path),
           Begin(s, name, k, v), Finish(s, name, k, v, Through(q, path))
    PROVE  Commits(s)
BY OfSession, ThroughWalks DEF Commits

LEMMA Raising ==
    ASSUME Inv, NEW s \in Session, NEW q, NEW path,
           Keeps(session[s], q), Onward(session[s].state, path),
           Raise(s, Through(q, path)) \/ LoseTrack(s, Through(q, path))
    PROVE  Raises(s)
BY OfSession, ThroughWalks DEF Raises

\* An operation may also raise in the status it found.
LEMMA Staying ==
    ASSUME NEW s, NEW q, Keeps(session[s], q), q.state = session[s].state,
           Raise(s, q) \/ LoseTrack(s, q)
    PROVE  Raises(s)
BY DEF Raises, Walks, Keeps

LEMMA CreateIntentWalks ==
    ASSUME Inv, NEW s \in Session, CreateIntent(s) \/ ApprovalExpires(s)
    PROVE  Raises(s)
<1>1. session[s] \in MissionSession
  BY OfSession
<1>2. CASE CreateIntent(s)
  <2> DEFINE r == [session[s] EXCEPT !.state = "INTENT", !.history = <<"INTENT">>]
  <2>1. Raise(s, r) /\ session[s].state = Absent
    BY <1>2 DEF CreateIntent
  <2>2. Walks(session[s], r)
    BY <1>1, <2>1 DEF Walks, MissionSession
  <2>3. QED
    BY <2>1, <2>2 DEF Raises
<1>3. CASE ApprovalExpires(s)
  <2> DEFINE r == [session[s] EXCEPT !.approval.status = "EXPIRED"]
  <2>1. Raise(s, r)
    BY <1>3 DEF ApprovalExpires
  <2>2. Walks(session[s], r)
    BY <1>1 DEF Walks, MissionSession
  <2>3. QED
    BY <2>1, <2>2 DEF Raises
<1>4. QED
  BY <1>2, <1>3

LEMMA PrepareWalks ==
    ASSUME Inv, NEW s \in Session, NEW k \in Key, NEW v \in Version, Prepare(s, k, v)
    PROVE  Commits(s) \/ Raises(s)
<1> DEFINE o == session[s]
           planned(n) == [o EXCEPT !.plan = n]
           proposed(n) == [planned(n) EXCEPT !.proposal = TRUE]
           proven(n, outcome) == [proposed(n) EXCEPT !.proof = outcome]
           indexed(n) == [proven(n, "PASSED") EXCEPT !.indexed = TRUE]
<1>1. o \in MissionSession /\ o.state = "INTENT" /\ Begin(s, "prepare", k, v)
  BY OfSession DEF Prepare
<1>2. /\ Keeps(o, o)
      /\ \A n : /\ Keeps(o, planned(n)) /\ Keeps(o, proposed(n)) /\ Keeps(o, indexed(n))
                /\ \A outcome : Keeps(o, proven(n, outcome))
  BY <1>1 DEF Keeps, MissionSession
<1>3. \/ Raise(s, Through(o, <<"OBSERVED", "FAILED_SAFE">>))
      \/ Raise(s, Through(o, <<"OBSERVED">>))
      \/ \E n \in RouteLength :
            \/ Raise(s, Through(planned(n), <<"OBSERVED", "PLANNED">>))
            \/ Raise(s, Through(proposed(n), <<"OBSERVED", "PLANNED">>))
            \/ \E q \in {proposed(n), proven(n, "PASSED"), proven(n, "FAILED")} :
                 Raise(s, Through(q, <<"OBSERVED", "PLANNED", "PROPOSED">>))
            \/ Raise(s, Through(proven(n, "FAILED"),
                                <<"OBSERVED", "PLANNED", "PROPOSED", "REJECTED">>))
            \/ Raise(s, Through(proven(n, "PASSED"),
                                <<"OBSERVED", "PLANNED", "PROPOSED", "VERIFIED">>))
            \/ Finish(s, "prepare", k, v,
                      Through(indexed(n), <<"OBSERVED", "PLANNED", "PROPOSED", "VERIFIED">>))
  BY Zenon DEF Prepare
<1> HIDE DEF o, planned, proposed, proven, indexed
<1>4. QED
  BY <1>1, <1>2, <1>3, OnwardPaths, Committing, Raising DEF Operation, o

LEMMA ApproveWalks ==
    ASSUME Inv, NEW s \in Session, NEW k \in Key, NEW v \in Version, NEW role,
           Approve(s, k, v, role)
    PROVE  Commits(s) \/ Raises(s)
<1> DEFINE o == session[s]
           m == o.issued + 1
           granted == [o EXCEPT !.approval = [status |-> "VALID", role |-> role]]
           given == [granted EXCEPT !.mission = [id |-> m, status |-> "APPROVED"],
                                    !.issued = m]
<1>1. /\ o \in MissionSession /\ o.state = "VERIFIED" /\ Begin(s, "approve", k, v)
      /\ \/ Raise(s, granted) \/ Raise(s, Through(granted, <<"APPROVED">>))
         \/ Finish(s, "approve", k, v, Through(given, <<"APPROVED">>))
  BY OfSession DEF Approve
<1>2. Keeps(o, granted) /\ granted.state = o.state /\ Keeps(o, given)
  BY <1>1 DEF Keeps, MissionSession
<1> HIDE DEF o, granted, given
<1>3. QED
  BY <1>1, <1>2, OnwardPaths, Committing, Raising, Staying DEF Operation, o

LEMMA RejectWalks ==
    ASSUME Inv, NEW s \in Session, NEW k \in Key, NEW v \in Version, NEW role,
           Reject(s, k, v, role)
    PROVE  Commits(s) \/ Raises(s)
<1>1. /\ session[s].state = "VERIFIED" /\ Begin(s, "reject", k, v)
      /\ \/ Raise(s, Through(session[s], <<"REJECTED">>))
         \/ Finish(s, "reject", k, v, Through(session[s], <<"REJECTED">>))
  BY DEF Reject
<1>2. Keeps(session[s], session[s])
  BY DEF Keeps
<1>3. QED
  BY <1>1, <1>2, OnwardPaths, Committing, Raising DEF Operation

LEMMA OverrideWalks ==
    ASSUME Inv, NEW s \in Session, NEW k \in Key, NEW v \in Version, NEW role, NEW m,
           Override(s, m, k, v, role)
    PROVE  Commits(s) \/ Raises(s)
<1> DEFINE o == session[s]
           q == [o EXCEPT !.approval = NoApproval]
<1>1. /\ o \in MissionSession /\ o.state \in {"SAFE_STOP", "VERIFIED"}
      /\ Begin(s, "override", k, v)
      /\ \/ Raise(s, Through(q, <<"FAILED_SAFE">>))
         \/ Finish(s, "override", k, v, Through(q, <<"FAILED_SAFE">>))
  BY OfSession DEF Override, Overridable
<1>2. Keeps(o, q)
  BY <1>1 DEF Keeps, MissionSession
<1> HIDE DEF o, q
<1>3. QED
  BY <1>1, <1>2, OnwardPaths, Committing, Raising DEF Operation, o

LEMMA StartWalks ==
    ASSUME Inv, NEW s \in Session, NEW k \in Key, NEW v \in Version, NEW role, NEW m,
           Start(s, m, k, v, role)
    PROVE  Commits(s) \/ Raises(s)
<1> DEFINE o == session[s]
           shown(d, id) == [o EXCEPT !.mission = [id |-> id, status |-> d.missions[id].status]]
<1>1. /\ o \in MissionSession /\ o.state = "APPROVED" /\ Begin(s, "start", k, v)
      /\ \/ Raise(s, Through(o, <<"FAILED_SAFE">>)) \/ LoseTrack(s, o)
         \/ \E d, id : \/ Raise(s, Through(shown(d, id), <<"EXECUTING">>))
                       \/ Finish(s, "start", k, v, Through(shown(d, id), <<"EXECUTING">>))
  BY OfSession DEF Start
<1>2. Keeps(o, o) /\ \A d, id : Keeps(o, shown(d, id))
  BY <1>1 DEF Keeps, MissionSession
<1> HIDE DEF o, shown
<1>3. QED
  BY <1>1, <1>2, OnwardPaths, Committing, Raising, Staying DEF Operation, o

LEMMA StopWalks ==
    ASSUME Inv, NEW s \in Session, NEW k \in Key, NEW v \in Version, NEW role, NEW m,
           Stop(s, m, k, v, role)
    PROVE  Commits(s) \/ Raises(s)
<1> DEFINE o == session[s]
           shown(status) == [o EXCEPT !.mission.status = status]
<1>1. /\ o \in MissionSession /\ o.state = "EXECUTING" /\ Begin(s, "stop", k, v)
      /\ \/ LoseTrack(s, Through(o, <<"BLOCKED">>)) \/ Raise(s, Through(o, <<"BLOCKED">>))
         \/ \E status :
              \/ Raise(s, Through(shown(status), <<"BLOCKED">>))
              \/ Raise(s, Through(shown(status), <<"BLOCKED", "SAFE_STOP">>))
              \/ Finish(s, "stop", k, v, Through(shown(status), <<"BLOCKED", "SAFE_STOP">>))
  BY OfSession DEF Stop
<1>2. Keeps(o, o) /\ \A status : Keeps(o, shown(status))
  BY <1>1 DEF Keeps, MissionSession
<1> HIDE DEF o, shown
<1>3. QED
  BY <1>1, <1>2, OnwardPaths, Committing, Raising DEF Operation, o

LEMMA ReplanWalks ==
    ASSUME Inv, NEW s \in Session, NEW k \in Key, NEW v \in Version, NEW role, NEW m,
           Replan(s, m, k, v, role)
    PROVE  Commits(s) \/ Raises(s)
<1> DEFINE o == session[s]
           q(n, outcome) == [o EXCEPT !.replan = n, !.replanProof = outcome]
<1>1. /\ o \in MissionSession /\ o.state = "SAFE_STOP" /\ Begin(s, "replan", k, v)
      /\ \/ Raise(s, Through(o, <<"FAILED_SAFE">>))
         \/ Raise(s, Through(o, <<"REPLANNING">>))
         \/ \E n, outcome :
              \/ Raise(s, Through(q(n, outcome), <<"REPLANNING">>))
              \/ Raise(s, Through(q(n, outcome), <<"REPLANNING", "FAILED_SAFE">>))
              \/ Raise(s, Through(q(n, outcome), <<"REPLANNING", "VERIFIED">>))
              \/ Finish(s, "replan", k, v, Through(q(n, outcome), <<"REPLANNING", "VERIFIED">>))
  BY OfSession DEF Replan
<1>2. Keeps(o, o) /\ \A n, outcome : Keeps(o, q(n, outcome))
  BY <1>1 DEF Keeps, MissionSession
<1> HIDE DEF o, q
<1>3. QED
  BY <1>1, <1>2, OnwardPaths, Committing, Raising DEF Operation, o

LEMMA ResumeWalks ==
    ASSUME Inv, NEW s \in Session, NEW k \in Key, NEW v \in Version, NEW role, NEW m,
           Resume(s, m, k, v, role)
    PROVE  Commits(s) \/ Raises(s)
<1> DEFINE o == session[s]
           shown(b) == [o EXCEPT !.mission = [id |-> m, status |-> b.missions[m].status]]
<1>1. /\ o \in MissionSession /\ o.state = "VERIFIED" /\ Begin(s, "resume", k, v)
      /\ \/ LoseTrack(s, o)
         \/ \E b : \/ Raise(s, Through(shown(b), <<"EXECUTING">>))
                   \/ Raise(s, Through(shown(b), <<"EXECUTING", "COMPLETED">>))
                   \/ Finish(s, "resume", k, v,
                             Through(shown(b), <<"EXECUTING", "COMPLETED">>))
  BY OfSession DEF Resume
<1>2. Keeps(o, o) /\ \A b : Keeps(o, shown(b))
  BY <1>1 DEF Keeps, MissionSession
<1> HIDE DEF o, shown
<1>3. QED
  BY <1>1, <1>2, OnwardPaths, Committing, Raising, Staying DEF Operation, o

LEMMA StepWalks ==
    ASSUME Inv, Next
    PROVE  \E s \in Session : Commits(s) \/ Raises(s)
BY CreateIntentWalks, PrepareWalks, ApproveWalks, RejectWalks, StartWalks, StopWalks,
   ReplanWalks, ResumeWalks, OverrideWalks DEF Next, ProposalRequest, MissionRequest

\* Going on from the end of a legal history makes a longer one.
LEMMA LegalConcat ==
    ASSUME NEW h \in Seq(MissionStatus), h # << >>, LegalHistory(h),
           NEW path, Onward(h[Len(h)], path)
    PROVE  /\ LegalHistory(h \o path) /\ h \o path # << >>
           /\ (h \o path)[Len(h \o path)] = path[Len(path)]
<1>1. /\ path \in Seq(MissionStatus) /\ path # << >>
      /\ Len(h) \in Nat /\ Len(path) \in Nat /\ Len(h) >= 1 /\ Len(path) >= 1
  BY DEF Onward
<1>2. /\ Len(h \o path) = Len(h) + Len(path)
      /\ \A i \in 1..Len(h) : (h \o path)[i] = h[i]
      /\ \A i \in 1..Len(path) : (h \o path)[Len(h) + i] = path[i]
  BY <1>1
<1>3. ASSUME NEW i \in Nat, 1 <= i, i < Len(h) + Len(path)
      PROVE  <<(h \o path)[i], (h \o path)[i + 1]>> \in AllowedTransitions
  <2>1. CASE i < Len(h)
    BY <1>1, <1>2, <1>3, <2>1 DEF LegalHistory
  <2>2. CASE i = Len(h)
    <3>1. (h \o path)[i] = h[Len(h)] /\ (h \o path)[i + 1] = path[1]
      BY <1>1, <1>2, <2>2
    <3>2. QED
      BY <3>1 DEF Onward
  <2>3. CASE i > Len(h)
    <3> DEFINE j == i - Len(h)
    <3>1. j \in 1..(Len(path) - 1) /\ j + 1 \in 1..Len(path) /\ i = Len(h) + j
      BY <1>1, <1>3, <2>3
    <3> HIDE DEF j
    <3>2. (h \o path)[i] = path[j] /\ (h \o path)[i + 1] = path[j + 1]
      BY <1>1, <1>2, <3>1
    <3>3. QED
      BY <1>1, <3>1, <3>2 DEF Onward, LegalHistory
  <2>4. i < Len(h) \/ i = Len(h) \/ i > Len(h)
    BY <1>1, <1>3
  <2>5. QED
    BY <2>1, <2>2, <2>3, <2>4, Zenon
<1>4. (h \o path)[Len(h \o path)] = path[Len(path)] /\ h \o path # << >>
  BY <1>1, <1>2
<1>5. QED
  BY <1>1, <1>2, <1>3, <1>4 DEF LegalHistory

LegalRecord(r) ==
    r.state # Absent =>
        /\ LegalHistory(r.history)
        /\ r.history # << >>
        /\ r.state = r.history[Len(r.history)]

LEMMA WalksAreLegal ==
    ASSUME NEW o \in MissionSession, NEW r, LegalRecord(o), Walks(o, r)
    PROVE  LegalRecord(r)
<1>1. CASE r.history = o.history /\ r.state = o.state
  BY <1>1 DEF LegalRecord
<1>2. CASE r.history = <<"INTENT">> /\ r.state = "INTENT"
  BY <1>2 DEF LegalRecord, LegalHistory
<1>3. ASSUME NEW path, Onward(o.state, path),
             r.history = o.history \o path, r.state = path[Len(path)]
      PROVE  LegalRecord(r)
  <2>1. o.state # Absent
    BY <1>3 DEF Onward, AllowedTransitions, Absent
  <2>2. o.history \in Seq(MissionStatus)
    BY DEF MissionSession
  <2>3. QED
    BY <1>3, <2>1, <2>2, LegalConcat DEF LegalRecord
<1>4. QED
  BY <1>1, <1>2, <1>3 DEF Walks

\* No session's history ever leaves the transition table, whatever is asked of it.
THEOREM HistoriesAreLegal == Spec => []HistoryIsLegal
<1>1. Init => HistoryIsLegal
  BY DEF Init, HistoryIsLegal, NewSession
<1>2. Inv /\ HistoryIsLegal /\ [Next]_vars => HistoryIsLegal'
  <2> SUFFICES ASSUME Inv, HistoryIsLegal, [Next]_vars
               PROVE  HistoryIsLegal'
    OBVIOUS
  <2>1. CASE UNCHANGED vars
    BY <2>1 DEF HistoryIsLegal, vars
  <2>2. CASE Next
    <3>1. PICK s \in Session : Commits(s) \/ Raises(s)
      BY <2>2, StepWalks
    <3>2. PICK r : /\ Walks(session[s], r)
                   /\ \/ session' = [session EXCEPT ![s] = r]
                      \/ session' = [session EXCEPT ![s] = [r EXCEPT !.version = @ + 1]]
      BY <3>1 DEF Commits, Raises, Finish, Raise, LoseTrack
    <3>3. LegalRecord(session[s]) /\ session[s] \in MissionSession
      BY OfSession DEF HistoryIsLegal, LegalRecord
    <3>4. LegalRecord(r) /\ LegalRecord([r EXCEPT !.version = @ + 1])
      <4>1. LegalRecord(r)
        BY <3>2, <3>3, WalksAreLegal
      <4>2. DOMAIN r = DOMAIN session[s]
        BY <3>2 DEF Walks
      <4>3. /\ [r EXCEPT !.version = @ + 1].state = r.state
            /\ [r EXCEPT !.version = @ + 1].history = r.history
        BY <3>3, <4>2 DEF MissionSession
      <4>4. QED
        BY <4>1, <4>3 DEF LegalRecord
    <3>5. LegalRecord(session'[s])
      BY <3>2, <3>4 DEF Inv, TypeOK
    <3>6. \A t \in Session \ {s} : session'[t] = session[t]
      BY <3>2 DEF Inv, TypeOK
    <3>7. QED
      BY <3>5, <3>6 DEF HistoryIsLegal, LegalRecord
  <2>3. QED
    BY <2>1, <2>2
<1>3. QED
  BY <1>1, <1>2, Invariant, PTL DEF Spec

\* The committed operations of session t, and what CommitsAreSerial asks of t.
Committed(t) == {op \in Operation \X Key : operations[op].session = t}

Serial(t) ==
    /\ session[t].version \in Nat \ {0}
    /\ \A a, b \in Committed(t) : operations[a].expected = operations[b].expected => a = b
    /\ {operations[op].expected : op \in Committed(t)} = 1..(session[t].version - 1)

\* Neither a session's version nor its committed operations change.
LEMMA SerialStays ==
    ASSUME NEW t \in Session, Serial(t), session'[t].version = session[t].version,
           Committed(t)' = Committed(t),
           \A op \in Committed(t) : operations'[op] = operations[op]
    PROVE  Serial(t)'
BY DEF Serial

\* The new commit of s expected the version that it raises.
LEMMA CommitIsSerial ==
    ASSUME Inv, NEW s \in Session, \A t \in Session : Serial(t), Commits(s)
    PROVE  \A t \in Session : Serial(t)'
<1>0. PICK name \in Operation, k \in Key, v \in Version :
        \E r : /\ Walks(session[s], r)
               /\ Begin(s, name, k, v) /\ Finish(s, name, k, v, r)
  BY DEF Commits
<1>1. PICK r : /\ Walks(session[s], r)
               /\ Begin(s, name, k, v) /\ Finish(s, name, k, v, r)
  BY <1>0
<1> DEFINE e == <<name, k>>
<1>2. /\ e \in Operation \X Key /\ operations[e] = NoOperation
      /\ v = session[s].version
      /\ operations' = [operations EXCEPT ![e] = [session |-> s, expected |-> v]]
      /\ session' = [session EXCEPT ![s] = [r EXCEPT !.version = @ + 1]]
  BY <1>1 DEF Begin, Finish
<1> HIDE DEF e
<1>3. /\ operations'[e].session = s /\ operations'[e].expected = v
      /\ \A op \in (Operation \X Key) \ {e} : operations'[op] = operations[op]
  BY <1>2 DEF Inv, TypeOK
<1>4. \A t \in Session : e \notin Committed(t)
  BY <1>2, SessionAssumption DEF Committed, NoOperation
<1>5. session'[s].version = session[s].version + 1
  <2>1. session[s] \in MissionSession /\ DOMAIN r = DOMAIN session[s]
        /\ r.version = session[s].version
    BY <1>1, OfSession DEF Walks
  <2>2. [r EXCEPT !.version = @ + 1].version = r.version + 1
    BY <2>1 DEF MissionSession
  <2>3. session'[s] = [r EXCEPT !.version = @ + 1]
    BY <1>2 DEF Inv, TypeOK
  <2>4. QED
    BY <2>1, <2>2, <2>3
<1>6. ASSUME NEW t \in Session, t # s
      PROVE  Serial(t)'
  <2>1. session'[t] = session[t]
    BY <1>2, <1>6 DEF Inv, TypeOK
  <2>2. Committed(t)' = Committed(t)
    BY <1>3, <1>4, <1>6 DEF Committed
  <2>3. \A op \in Committed(t) : operations'[op] = operations[op]
    BY <1>3, <1>4 DEF Committed
  <2>4. QED
    BY <2>1, <2>2, <2>3, SerialStays
<1>7. Serial(s)'
  <2>1. Committed(s)' = Committed(s) \cup {e}
    BY <1>2, <1>3, <1>4 DEF Committed
  <2>2. \A op \in Committed(s) : operations'[op] = operations[op]
    BY <1>3, <1>4 DEF Committed
  <2>3. /\ v \in Nat \ {0} /\ session'[s].version = v + 1
        /\ \A a, b \in Committed(s) : operations[a].expected = operations[b].expected => a = b
        /\ {operations[op].expected : op \in Committed(s)} = 1..(v - 1)
    BY <1>2, <1>5 DEF Serial
  <2>4. \A op \in Committed(s) : operations[op].expected # v
    <3>1. \A op \in Committed(s) : operations[op].expected \in 1..(v - 1)
      BY <2>3
    <3>2. v \notin 1..(v - 1)
      BY <2>3
    <3>3. QED
      BY <3>1, <3>2
  <2>5. \A a, b \in Committed(s)' : operations'[a].expected = operations'[b].expected => a = b
    BY <1>3, <2>1, <2>2, <2>3, <2>4
  <2>6. {operations'[op].expected : op \in Committed(s)'} = 1..v
    <3>1. {operations'[op].expected : op \in Committed(s)'}
            = {operations[op].expected : op \in Committed(s)} \cup {v}
      BY <1>3, <2>1, <2>2
    <3>2. 1..v = (1..(v - 1)) \cup {v}
      BY <2>3
    <3>3. QED
      BY <2>3, <3>1, <3>2
  <2>7. session'[s].version \in Nat \ {0} /\ session'[s].version - 1 = v
    BY <2>3
  <2>8. QED
    BY <2>5, <2>6, <2>7 DEF Serial
<1>8. QED
  BY <1>6, <1>7

LEMMA RaiseIsSerial ==
    ASSUME Inv, NEW s \in Session, \A t \in Session : Serial(t), Raises(s)
    PROVE  \A t \in Session : Serial(t)'
<1>1. PICK r : Walks(session[s], r) /\ session' = [session EXCEPT ![s] = r]
               /\ operations' = operations
  BY DEF Raises, Raise, LoseTrack
<1>2. \A t \in Session : session'[t].version = session[t].version
  BY <1>1 DEF Walks, Inv, TypeOK
<1>3. \A t \in Session : Committed(t)' = Committed(t)
  BY <1>1 DEF Committed
<1>4. QED
  BY <1>1, <1>2, <1>3, SerialStays

\* No two requests of one version both commit, and no key commits twice, however calls interleave.
THEOREM CommitsStaySerial == Spec => []CommitsAreSerial
<1> DEFINE AllSerial == \A t \in Session : Serial(t)
<1>1. Init => AllSerial
  <2> SUFFICES ASSUME Init, NEW t \in Session PROVE Serial(t)
    OBVIOUS
  <2>1. session[t].version = 1
    BY DEF Init, NewSession
  <2>2. Committed(t) = {}
    BY SessionAssumption DEF Init, Committed, NoOperation
  <2>3. QED
    BY <2>1, <2>2 DEF Serial
<1>2. Inv /\ AllSerial /\ [Next]_vars => AllSerial'
  <2> SUFFICES ASSUME Inv, AllSerial, [Next]_vars PROVE AllSerial'
    OBVIOUS
  <2>1. CASE UNCHANGED vars
    BY <2>1 DEF vars, Serial, Committed
  <2>2. CASE Next
    BY <2>2, StepWalks, CommitIsSerial, RaiseIsSerial
  <2>3. QED
    BY <2>1, <2>2
<1>3. AllSerial => CommitsAreSerial
  BY DEF Serial, Committed, CommitsAreSerial
<1> HIDE DEF AllSerial
<1>4. QED
  BY <1>1, <1>2, <1>3, Invariant, PTL DEF Spec

=============================================================================
