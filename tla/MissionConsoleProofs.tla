------------------------- MODULE MissionConsoleProofs -------------------------
(***************************************************************************)
(* Proofs about MissionConsole, for any number of restarts of the replay    *)
(* and any answers of the fetches: there is never a second interval, the    *)
(* replay never runs backwards, its screen tells one mission, and no failed *)
(* fetch is hidden.                                                         *)
(***************************************************************************)
EXTENDS MissionConsole, TLAPS

-----------------------------------------------------------------------------
(* The timeline, entry by entry.                                            *)

LEMMA TimelineLength == Last = 14 /\ Steps = 0..14
BY DEF Last, Steps, timeline

LEMMA TimelineEvents ==
    /\ timeline[1].event = "intent.received"
    /\ timeline[2].event = "get_operational_snapshot"
    /\ timeline[3].event = "plan_transport"
    /\ timeline[4].event = "propose_transport"
    /\ timeline[5].event = "safety.proof"
    /\ timeline[6].event = "approval.granted"
    /\ timeline[7].event = "mission.started"
    /\ timeline[8].event = "get_mission_status"
    /\ timeline[9].event = "sensor.aisle_blocked"
    /\ timeline[10].event = "execution.local_stop"
    /\ timeline[11].event = "recovery.intent"
    /\ timeline[12].event = "replan_mission"
    /\ timeline[13].event = "safety.replan_proof"
    /\ timeline[14].event = "execution.resumed"
    /\ timeline[15].event = "outcome.completed"
BY DEF timeline

LEMMA TimelineStates ==
    /\ timeline[5].state = "VERIFIED"
    /\ timeline[6].state = "APPROVED"
    /\ timeline[9].state = "BLOCKED"
    /\ timeline[10].state = "SAFE_STOP"
BY DEF timeline

LEMMA BlockedAt == findIndex("state", "BLOCKED") = 8
<1>1. timeline[8 + 1]["state"] = "BLOCKED" /\ \A j \in 0..14 : j < 8 => timeline[j + 1]["state"] # "BLOCKED"
  BY DEF timeline
<1>2. \A j \in 0..14 : (\A k \in 0..14 : k < j => timeline[k + 1]["state"] # "BLOCKED") => j <= 8
  BY <1>1
<1>3. QED
  BY <1>1, <1>2, TimelineLength DEF findIndex

LEMMA ReplanAt == findIndex("event", "replan_mission") = 11
<1>1. timeline[11 + 1]["event"] = "replan_mission" /\ \A j \in 0..14 : j < 11 => timeline[j + 1]["event"] # "replan_mission"
  BY DEF timeline
<1>2. \A j \in 0..14 : (\A k \in 0..14 : k < j => timeline[k + 1]["event"] # "replan_mission") => j <= 11
  BY <1>1
<1>3. QED
  BY <1>1, <1>2, TimelineLength DEF findIndex

LEMMA ApprovedAt == findIndex("state", "APPROVED") = 5
<1>1. timeline[5 + 1]["state"] = "APPROVED" /\ \A j \in 0..14 : j < 5 => timeline[j + 1]["state"] # "APPROVED"
  BY DEF timeline
<1>2. \A j \in 0..14 : (\A k \in 0..14 : k < j => timeline[k + 1]["state"] # "APPROVED") => j <= 5
  BY <1>1
<1>3. QED
  BY <1>1, <1>2, TimelineLength DEF findIndex

LEMMA StoppedAt == findIndex("event", "execution.local_stop") = 9
<1>1. timeline[9 + 1]["event"] = "execution.local_stop" /\ \A j \in 0..14 : j < 9 => timeline[j + 1]["event"] # "execution.local_stop"
  BY DEF timeline
<1>2. \A j \in 0..14 : (\A k \in 0..14 : k < j => timeline[k + 1]["event"] # "execution.local_stop") => j <= 9
  BY <1>1
<1>3. QED
  BY <1>1, <1>2, TimelineLength DEF findIndex

LEMMA VerifiedAt == findIndex("state", "VERIFIED") = 4
<1>1. timeline[4 + 1]["state"] = "VERIFIED" /\ \A j \in 0..14 : j < 4 => timeline[j + 1]["state"] # "VERIFIED"
  BY DEF timeline
<1>2. \A j \in 0..14 : (\A k \in 0..14 : k < j => timeline[k + 1]["state"] # "VERIFIED") => j <= 4
  BY <1>1
<1>3. QED
  BY <1>1, <1>2, TimelineLength DEF findIndex

LEMMA DecisionSteps ==
    /\ decisionStep("approved") = 5
    /\ decisionStep("stopped") = 9
    /\ decisionStep("rejected") = 4
    /\ \A d \in ReplayDecision : decisionStep(d) \in 0..14
<1>1. decisionStep("approved") = 5 /\ decisionStep("stopped") = 9 /\ decisionStep("rejected") = 4
  BY ApprovedAt, StoppedAt, VerifiedAt DEF decisionStep
<1>2. QED
  BY <1>1 DEF ReplayDecision

-----------------------------------------------------------------------------
(* One interval.                                                            *)

LEMMA ReplayStart == Init => ReplayInvariant
<1> SUFFICES ASSUME Init PROVE ReplayInvariant
  OBVIOUS
<1>1. live = {}
  BY DEF Init, live
<1>2. /\ view \in View /\ runStep \in Steps /\ decision = "null"
      /\ started \in 0..MaxRuns /\ timerRef \in 0..started
      /\ setStep = None /\ runStep = Last
  BY TimelineLength, ReplayAssumption DEF Init, View
<1>3. mounted = TRUE /\ running = FALSE /\ setStopped = FALSE
  BY DEF Init
<1>4. QED
  BY <1>1, <1>2, <1>3 DEF ReplayInvariant

\* What an interval that fires finds.
LEMMA OneInterval ==
    ASSUME ReplayInvariant, NEW i \in live
    PROVE  /\ i = timerRef /\ i # 0 /\ live = {i} /\ mounted /\ running /\ ~setStopped
           /\ next[i] = RenderedStep /\ next[i] < Last /\ next[i] \in Steps /\ decision = "null"
<1>1. i = timerRef /\ i # 0 /\ live = {i}
  BY DEF ReplayInvariant
<1>2. mounted /\ running /\ ~setStopped
  BY <1>1 DEF ReplayInvariant
<1>3. QED
  BY <1>1, <1>2 DEF ReplayInvariant

\* The rendering of the queue, by itself or by a click that changes neither the step
\* nor the interval.
LEMMA QueueRendered ==
    ASSUME ReplayInvariant, mounted, runStep' = RenderedStep, running' = RenderedRunning, EmptyQueue,
           view' \in View, UNCHANGED <<mounted, decision, timerRef, next, started>>
    PROVE  ReplayInvariant'
<1>1. /\ runStep \in 0..14 /\ setStep \in {-1} \union 0..14 /\ Last = 14 /\ Steps = 0..14
      /\ running \in BOOLEAN /\ setStopped \in BOOLEAN /\ mounted = TRUE
  BY TimelineLength DEF ReplayInvariant, None
<1>2. /\ runStep' = (IF setStep = -1 THEN runStep ELSE setStep) /\ runStep' \in 0..14
      /\ RenderedStep' = runStep' /\ setStep' = -1 /\ setStopped' = FALSE
      /\ running' = (running /\ ~setStopped)
  BY <1>1 DEF RenderedStep, RenderedRunning, EmptyQueue, None
<1>3. live' = live
  BY DEF live
<1>4. live # {} <=> running' /\ ~setStopped'
  BY <1>1, <1>2 DEF ReplayInvariant
<1>5. live # {} => next[timerRef] = runStep' /\ next[timerRef] < Last /\ decision = "null"
  BY <1>2 DEF ReplayInvariant
<1>6. ~running' => runStep' = IF decision = "null" THEN Last ELSE decisionStep(decision)
  <2>1. CASE running
    <3>1. ~running' => setStopped
      BY <1>2, <2>1
    <3>2. setStopped => setStep = 14
      BY <1>1 DEF ReplayInvariant
    <3>3. setStep = 14 => decision = "null" /\ runStep' = 14
      BY <1>2 DEF ReplayInvariant, None
    <3>4. QED
      BY <1>1, <3>1, <3>2, <3>3
  <2>2. CASE ~running
    BY <1>1, <1>2, <2>2 DEF ReplayInvariant, None
  <2>3. QED
    BY <2>1, <2>2
<1>7. decisionStep(decision)' = decisionStep(decision)
  BY DEF decisionStep
<1>8. running' \in BOOLEAN
  BY <1>2
<1>9. QED
  BY <1>1, <1>2, <1>3, <1>4, <1>5, <1>6, <1>7, <1>8 DEF ReplayInvariant, None

LEMMA TickKeeps ==
    ASSUME ReplayInvariant, NEW i \in Run, Tick(i)
    PROVE  ReplayInvariant' /\ runStep' = runStep
<1>1. i \in live
  BY DEF Tick
<1>2. /\ i = timerRef /\ i # 0 /\ live = {i} /\ mounted /\ running /\ ~setStopped
      /\ next[i] = RenderedStep /\ next[i] < Last /\ next[i] \in Steps /\ decision = "null"
  BY <1>1, OneInterval
<1>3. /\ Last = 14 /\ Steps = 0..14 /\ next[i] \in 0..13
      /\ runStep \in 0..14 /\ setStep \in {-1} \union 0..14
  BY <1>2, TimelineLength DEF ReplayInvariant, None
<1>4. runStep <= next[i]
  BY <1>2, <1>3 DEF RenderedStep, ReplayInvariant, None
<1>5. /\ setStep' = next[i] + 1
      /\ UNCHANGED <<mounted, view, runStep, running, decision, timerRef, started>>
  BY DEF Tick
<1>6. setStep' \in 1..14 /\ setStep' > runStep /\ setStep' # None /\ RenderedStep' = setStep'
  BY <1>3, <1>4, <1>5 DEF RenderedStep, None
<1> DEFINE counted == [next EXCEPT ![i] = @ + 1]
<1>7. CASE next[i] + 1 >= Last
  <2>1. next' = clearInterval(counted, timerRef) /\ setStopped' = TRUE
    BY <1>7 DEF Tick
  <2>2. live' = {}
    BY <1>2, <2>1 DEF clearInterval, live
  <2>3. setStep' = Last
    BY <1>3, <1>5, <1>7
  <2>4. QED
    BY <1>2, <1>3, <1>5, <1>6, <2>1, <2>2, <2>3 DEF ReplayInvariant, None
<1>8. CASE ~(next[i] + 1 >= Last)
  <2>1. next' = counted /\ setStopped' = setStopped
    BY <1>8 DEF Tick
  <2>2. live' = live /\ next'[i] = next[i] + 1
    BY <1>1, <2>1 DEF live
  <2>3. next'[timerRef'] = RenderedStep' /\ next'[timerRef'] < Last /\ next'[timerRef'] \in Steps
    BY <1>2, <1>3, <1>5, <1>6, <1>8, <2>2
  <2>4. QED
    BY <1>2, <1>3, <1>5, <1>6, <2>1, <2>2, <2>3 DEF ReplayInvariant, None
<1>9. QED
  BY <1>5, <1>7, <1>8

LEMMA RunHeroKeeps ==
    ASSUME ReplayInvariant, RunHero
    PROVE  ReplayInvariant' /\ runStep' = 0 /\ running' /\ decision' = "null" /\ started' = started + 1
<1>1. started \in 0..MaxRuns /\ started < MaxRuns /\ MaxRuns \in Nat /\ live \subseteq {timerRef} \ {0}
      /\ mounted /\ mounted \in BOOLEAN
  BY ReplayAssumption DEF RunHero, ReplayInvariant, CanRun
<1>2. /\ started' = started + 1 /\ timerRef' = started'
      /\ next' = [j \in (live \ {timerRef}) \union {started'} |-> IF j = started' THEN 0 ELSE next[j]]
      /\ view' = "mission" /\ runStep' = 0 /\ running' = TRUE /\ decision' = "null"
      /\ setStep' = None /\ setStopped' = FALSE /\ mounted' = mounted
  BY DEF RunHero, EmptyQueue
<1>3. live' = {started'} /\ next'[started'] = 0
  BY <1>1, <1>2 DEF live
<1>4. started' \in 1..MaxRuns
  BY <1>1, <1>2
<1>5. RenderedStep' = 0
  BY <1>2 DEF RenderedStep
<1>6. view' \in View
  BY <1>2 DEF View
<1>7. ReplayInvariant'
  <2>1. /\ timerRef' \in 0..started' /\ timerRef' # 0 /\ live' = {timerRef'}
        /\ next'[timerRef'] = 0 /\ runStep' \in Steps /\ 0 < Last /\ 0 \in Steps
    BY <1>1, <1>2, <1>3, <1>4, TimelineLength
  <2>2. \A i \in live' : next'[i] \in Steps
    BY <2>1
  <2>3. started' \in 0..MaxRuns /\ mounted' \in BOOLEAN
    BY <1>1, <1>2, <1>4
  <2>4. (mounted \in BOOLEAN /\ view \in View /\ runStep \in Steps /\ running \in BOOLEAN)'
    BY <1>2, <1>6, <2>1, <2>3
  <2>5. (decision \in ReplayDecision \union {"null"} /\ started \in 0..MaxRuns /\ timerRef \in 0..started)'
    BY <1>2, <2>1, <2>3
  <2>6. (setStep \in {None} \union Steps)' /\ (setStopped \in BOOLEAN)'
    BY <1>2 DEF None
  <2>7. (live \subseteq {timerRef} \ {0})' /\ (mounted => (live # {} <=> running /\ ~setStopped))'
    BY <1>2, <2>1
  <2>8. mounted'
    BY <1>1, <1>2
  <2>9. (live # {} => next[timerRef] = RenderedStep /\ next[timerRef] < Last /\ decision = "null")'
    BY <1>2, <1>5, <2>1
  <2>10. (~mounted => live = {} /\ ~running /\ setStep = None /\ ~setStopped)'
    BY <2>8
  <2>11. ~setStopped' /\ setStep' = None /\ running'
    BY <1>2
  <2>12. (\A i \in live : next[i] \in Steps)'
    BY <2>2
  <2>13. (setStopped => running /\ setStep = Last)'
    BY <2>11
  <2>14. (setStep # None => running /\ decision = "null" /\ setStep > runStep)'
    BY <2>11
  <2>15. (~running => runStep = IF decision = "null" THEN Last ELSE decisionStep(decision))'
    BY <2>11
  <2>16. QED
    BY <2>4, <2>5, <2>6, <2>7, <2>9, <2>10, <2>12, <2>13, <2>14, <2>15 DEF ReplayInvariant
<1>8. QED
  BY <1>2, <1>7

LEMMA ControlKeeps ==
    ASSUME ReplayInvariant, NEW d \in ReplayDecision, ReplayControl(d)
    PROVE  ReplayInvariant' /\ ~running' /\ decision' # "null" /\ runStep' = decisionStep(decision')
<1>1. mounted /\ live \subseteq {timerRef} \ {0} /\ d # "null"
  BY DEF ReplayControl, controlsOffered, ReplayInvariant, ReplayDecision
<1>2. /\ next' = clearInterval(next, timerRef) /\ running' = FALSE /\ decision' = d
      /\ runStep' = decisionStep(d) /\ setStep' = None /\ setStopped' = FALSE
      /\ UNCHANGED <<mounted, view, timerRef, started>>
  BY DEF ReplayControl, EmptyQueue
<1>3. live' = {}
  BY <1>1, <1>2 DEF clearInterval, live
<1>4. runStep' \in Steps
  BY <1>2, DecisionSteps, TimelineLength
<1>5. decisionStep(decision') = decisionStep(d) /\ decisionStep(decision)' = decisionStep(d)
  BY <1>2 DEF decisionStep
<1>6. ReplayInvariant'
  BY <1>1, <1>2, <1>3, <1>4, <1>5 DEF ReplayInvariant
<1>7. QED
  BY <1>1, <1>2, <1>5, <1>6

LEMMA LeaveKeeps ==
    ASSUME ReplayInvariant, Leave
    PROVE  ReplayInvariant' /\ runStep' = Last
<1>1. live \subseteq {timerRef} \ {0} /\ started \in Nat /\ started \in 0..MaxRuns
  BY ReplayAssumption DEF ReplayInvariant
<1>2. /\ mounted' = FALSE /\ next' = clearInterval(next, timerRef)
      /\ view' = "mission" /\ runStep' = Last /\ running' = FALSE /\ decision' = "null"
      /\ timerRef' = 0 /\ setStep' = None /\ setStopped' = FALSE /\ started' = started
  BY DEF Leave, EmptyQueue
<1>3. live' = {}
  BY <1>1, <1>2 DEF clearInterval, live
<1>4. view' \in View /\ runStep' \in Steps /\ timerRef' \in 0..started'
  BY <1>1, <1>2, TimelineLength DEF View
<1>5. ReplayInvariant'
  BY <1>1, <1>2, <1>3, <1>4 DEF ReplayInvariant
<1>6. QED
  BY <1>2, <1>5

LEMMA EnterKeeps ==
    ASSUME ReplayInvariant, Enter
    PROVE  ReplayInvariant' /\ runStep' = runStep
<1>1. /\ ~mounted /\ mounted' = TRUE
      /\ UNCHANGED <<view, runStep, running, decision, timerRef, next, started, setStep, setStopped>>
  BY DEF Enter, queue
<1>2. live' = live /\ RenderedStep' = RenderedStep /\ decisionStep(decision)' = decisionStep(decision)
  BY <1>1 DEF live, RenderedStep, decisionStep
<1>3. QED
  BY <1>1, <1>2 DEF ReplayInvariant

LEMMA ReplayStandsStill == ReplayInvariant /\ UNCHANGED replay => ReplayInvariant' /\ runStep' = runStep
<1> SUFFICES ASSUME ReplayInvariant, UNCHANGED replay PROVE ReplayInvariant' /\ runStep' = runStep
  OBVIOUS
<1>1. UNCHANGED <<mounted, view, runStep, running, decision, timerRef, next, started, setStep, setStopped>>
  BY DEF replay, queue
<1>2. live' = live /\ RenderedStep' = RenderedStep /\ decisionStep(decision)' = decisionStep(decision)
  BY <1>1 DEF live, RenderedStep, decisionStep
<1>3. QED
  BY <1>1, <1>2 DEF ReplayInvariant

\* What is rendered is never behind what was on the screen.
LEMMA QueueIsAhead == ReplayInvariant => RenderedStep >= runStep
BY TimelineLength DEF ReplayInvariant, RenderedStep, None

GoesForward ==
    runStep' < runStep =>
        \/ runStep' = 0 /\ running' /\ decision' = "null" /\ started' = started + 1
        \/ ~running' /\ decision' # "null" /\ runStep' = decisionStep(decision')

LEMMA ReplayStep == ReplayInvariant /\ [ReplayNext]_replay => ReplayInvariant' /\ GoesForward
<1> SUFFICES ASSUME ReplayInvariant, [ReplayNext]_replay PROVE ReplayInvariant' /\ GoesForward
  OBVIOUS
<1>0. runStep \in 0..14 /\ Last = 14 /\ RenderedStep >= runStep
  BY TimelineLength, QueueIsAhead DEF ReplayInvariant
<1>1. CASE Render
  <2>1. ReplayInvariant'
    BY <1>1, QueueRendered DEF Render, ReplayInvariant
  <2>2. runStep' = RenderedStep
    BY <1>1 DEF Render
  <2>3. RenderedStep \in Int
    BY DEF RenderedStep, ReplayInvariant, None, Steps, Last, timeline
  <2>4. QED
    BY <1>0, <2>1, <2>2, <2>3 DEF GoesForward
<1>2. CASE RunHero
  BY <1>2, RunHeroKeeps DEF GoesForward
<1>3. CASE Leave
  BY <1>0, <1>3, LeaveKeeps DEF GoesForward
<1>4. ASSUME NEW i \in Run, Tick(i) PROVE ReplayInvariant' /\ GoesForward
  BY <1>0, <1>4, TickKeeps DEF GoesForward
<1>5. ASSUME NEW d \in ReplayDecision, ReplayControl(d) PROVE ReplayInvariant' /\ GoesForward
  BY <1>5, ControlKeeps DEF GoesForward
<1>6. ASSUME NEW v \in View, SetView(v) PROVE ReplayInvariant' /\ GoesForward
  <2>1. ReplayInvariant'
    BY <1>6, QueueRendered DEF SetView
  <2>2. runStep' = RenderedStep
    BY <1>6 DEF SetView
  <2>3. RenderedStep \in Int
    BY DEF RenderedStep, ReplayInvariant, None, Steps, Last, timeline
  <2>4. QED
    BY <1>0, <2>1, <2>2, <2>3 DEF GoesForward
<1>7. CASE Enter
  BY <1>0, <1>7, EnterKeeps DEF GoesForward
<1>8. CASE UNCHANGED replay
  BY <1>0, <1>8, ReplayStandsStill DEF GoesForward
<1>9. QED
  BY <1>1, <1>2, <1>3, <1>4, <1>5, <1>6, <1>7, <1>8 DEF ReplayNext, OnPage

\* A step of the console is a step of the replay, or leaves it alone.
LEMMA ConsoleReplays == [Next]_console => [ReplayNext]_replay
BY DEF Next, Respond, ReplayNext, console

\* However often the replay is restarted, cut short or left, there is never a second
\* interval, and the one that fires can be cleared.
THEOREM OneIntervalOnly == Spec => []ReplayInvariant
<1>1. ConsoleInit => ReplayInvariant
  BY ReplayStart DEF ConsoleInit
<1>2. ReplayInvariant /\ [Next]_console => ReplayInvariant'
  BY ReplayStep, ConsoleReplays
<1>3. QED
  BY <1>1, <1>2, PTL DEF Spec

\* The screen never takes a step of the mission back by itself.
THEOREM NeverBackwards == Spec => ReplayGoesForward
<1>1. ReplayInvariant /\ [Next]_console => [GoesForward]_replay
  BY ReplayStep, ConsoleReplays
<1>2. QED
  BY <1>1, OneIntervalOnly, PTL DEF Spec, ReplayGoesForward, GoesForward

-----------------------------------------------------------------------------
(* The fetches.                                                             *)

\* A fetch has brought nothing yet, a failure, or its own file; the error is remembered.
BoardOK ==
    /\ DOMAIN report = Reports
    /\ \A r \in Reports :
        \/ report[r] = Loading
        \/ report[r] = Failed
        \/ report[r].of = r
    /\ evidenceError \in BOOLEAN
    /\ evidenceError <=> \E r \in Reports : report[r] = Failed

LEMMA OnlyFilesArrive == \A r \in Reports : Loading.of # r /\ Failed.of # r /\ Loading # Failed
BY DEF Loading, Failed, Reports

LEMMA BoardStart == Mounted => BoardOK
BY OnlyFilesArrive DEF Mounted, BoardOK, Reports

LEMMA ArriveKeeps ==
    ASSUME BoardOK, NEW r \in Reports, Arrive(r)
    PROVE  BoardOK' /\ (evidenceError => evidenceError')
<1>1. PICK c \in Answers[r] : report' = [report EXCEPT ![r] = c] /\ evidenceError' = (evidenceError \/ c = Failed)
  BY DEF Arrive
<1>2. c = Failed \/ c.of = r
  BY BoardAssumption
<1>3. DOMAIN report' = Reports /\ report'[r] = c /\ \A q \in Reports \ {r} : report'[q] = report[q]
  BY <1>1 DEF BoardOK
<1>4. report[r] # Failed
  BY OnlyFilesArrive DEF Arrive
<1>5. evidenceError' \in BOOLEAN /\ (evidenceError' <=> evidenceError \/ c = Failed)
  BY <1>1
<1>6. \A q \in Reports : report'[q] = Loading \/ report'[q] = Failed \/ report'[q].of = q
  BY <1>2, <1>3 DEF BoardOK
<1>7. evidenceError' <=> \E q \in Reports : report'[q] = Failed
  BY <1>3, <1>4, <1>5 DEF BoardOK
<1>8. BoardOK'
  BY <1>3, <1>5, <1>6, <1>7 DEF BoardOK
<1>9. QED
  BY <1>5, <1>8

LEMMA BoardStep == BoardOK /\ [Next]_console => BoardOK'
<1> SUFFICES ASSUME BoardOK, [Next]_console PROVE BoardOK'
  OBVIOUS
<1>1. CASE Respond
  BY <1>1, ArriveKeeps DEF Respond
<1>2. CASE Remounted
  BY <1>2, OnlyFilesArrive DEF Remounted, BoardOK, Reports
<1>3. CASE UNCHANGED board
  BY <1>3 DEF board, BoardOK
<1>4. QED
  BY <1>1, <1>2, <1>3 DEF Next, console

LEMMA BoardAlways == Spec => []BoardOK
<1>1. ConsoleInit => BoardOK
  BY BoardStart DEF ConsoleInit
<1>2. QED
  BY <1>1, BoardStep, PTL DEF Spec

-----------------------------------------------------------------------------
(* What the cards claim.                                                    *)

\* Every claim on the screen, and the field it rests on.
ClaimGrounds ==
    /\ "LIVE GATE PASSED" \in claims <=> Holds("liveGate", "official_gate_passed")
    /\ "OFFICIAL GATE PASS" \in claims <=> Holds("liveGate", "official_gate_passed")
    /\ "LIVE PASS" \in claims <=> Holds("liveGate", "official_gate_passed")
    /\ "PASS" \in claims <=> Holds("judgeLoad", "acceptance_passed")
    /\ "CLOUD DEPLOYED" \in claims <=> Holds("serverless", "cloud_deployed")
    /\ "READY" \in claims <=> Holds("serverless", "artifact_ready")
    /\ "100/100 PASS" \in claims <=> Holds("serverless", "smoke_test_passed")
    /\ "FINAL LIVE EVIDENCE" \in claims <=> Holds("screenshotEvidence", "final_submission_eligible")
    /\ "TYPED RESULT PASS" \in claims <=> Metrics("completed")
    /\ claims \subseteq {"LIVE GATE PASSED", "OFFICIAL GATE PASS", "LIVE PASS", "PASS", "CLOUD DEPLOYED",
                         "READY", "100/100 PASS", "FINAL LIVE EVIDENCE", "TYPED RESULT PASS"}

LEMMA ClaimsRest == ClaimGrounds
<1>1. /\ gateBadge = IF Holds("liveGate", "official_gate_passed") THEN "LIVE GATE PASSED" ELSE "LIVE GATE VERIFYING"
      /\ gateCard.badge = IF Holds("liveGate", "official_gate_passed") THEN "OFFICIAL GATE PASS" ELSE "VERIFYING"
      /\ boundaryRow = IF Holds("liveGate", "official_gate_passed") THEN "LIVE PASS" ELSE "VERIFYING"
      /\ judgeCard.badge = IF Holds("judgeLoad", "acceptance_passed") THEN "PASS" ELSE "VERIFYING"
      /\ serverlessCard.badge = IF Holds("serverless", "cloud_deployed") THEN "CLOUD DEPLOYED" ELSE "ACCOUNT-GATED"
      /\ serverlessCard.artifact = IF Holds("serverless", "artifact_ready") THEN "READY" ELSE "VERIFYING"
      /\ serverlessCard.smoke = IF Holds("serverless", "smoke_test_passed") THEN "100/100 PASS" ELSE "-"
      /\ finalGate.badge = IF Holds("screenshotEvidence", "final_submission_eligible") THEN "FINAL LIVE EVIDENCE"
                           ELSE "RECAPTURE REQUIRED"
  BY DEF gateBadge, gateCard, boundaryRow, judgeCard, serverlessCard, finalGate
<1>2. toolSpans.result = IF Metrics("completed") THEN "TYPED RESULT PASS"
                         ELSE IF Metrics("incomplete") THEN "INCOMPLETE" ELSE "-"
  BY DEF toolSpans
<1>3. QED
  BY <1>1, <1>2 DEF claims, ClaimGrounds

LEMMA ClaimsAlwaysRest == TRUE => ClaimGrounds'
BY ClaimsRest, PTL

\* What still says that it loads has no file yet, or lacks a part of the hero summary.
LEMMA AwaitedBeforeOrOmitted ==
    ASSUME BoardOK, NEW r \in awaited
    PROVE  report[r] \in {Loading, Failed} \/ (r = "heroSummary" /\ omitted # {})
<1>1. r \in Reports
  BY DEF awaited
<1>2. CASE ~Arrived(r)
  BY <1>1, <1>2 DEF BoardOK, Arrived
<1>3. CASE Arrived(r)
  <2>1. r = "heroSummary"
    BY <1>3 DEF awaited, figures, judgeCard, impactCard, gateCard, receipts, serverlessCard, releaseCard
  <2>2. {evidenceStamp, toolSpans.calls, heroTiles.latency, heroTiles.cost, heroTiles.safety} # {"shown"}
    BY <2>1 DEF awaited
  <2>3. evidenceStamp = "shown" /\ heroTiles.safety = "shown"
    BY <1>3, <2>1 DEF evidenceStamp, heroTiles
  <2>4. /\ Holds("heroSummary", "model_calls") => toolSpans.calls = "shown" /\ heroTiles.latency = "shown"
        /\ Holds("heroSummary", "estimated_model_cost_usd") => heroTiles.cost = "shown"
    BY DEF toolSpans, heroTiles
  <2>5. ~Holds("heroSummary", "model_calls") \/ ~Holds("heroSummary", "estimated_model_cost_usd")
    BY <2>2, <2>3, <2>4
  <2>6. "model_calls" \in omitted \/ "estimated_model_cost_usd" \in omitted
    BY <1>3, <2>1, <2>5 DEF omitted
  <2>7. QED
    BY <2>1, <2>6
<1>4. QED
  BY <1>2, <1>3

LEMMA HiddenNowhere == BoardOK => FailureIsNeverHidden
<1> SUFFICES ASSUME BoardOK PROVE FailureIsNeverHidden
  OBVIOUS
<1> DEFINE gate == {"LIVE GATE PASSED", "OFFICIAL GATE PASS", "LIVE PASS"}
<1>1. tracePill = "EVIDENCE LOAD ERROR" <=> evidenceError
  BY DEF tracePill
<1>2. heroTraceRow = "LOAD ERROR" <=> evidenceError
  BY DEF heroTraceRow
<1>3. tracePill = "TRACE CHAIN VALID" <=> heroTraceRow = "VALID"
  BY DEF tracePill, heroTraceRow
<1>4. (\E r \in Reports : report[r] = Failed) <=> evidenceError
  BY DEF BoardOK
<1>5. \A r \in awaited :
        \/ report[r] = Loading \/ tracePill = "EVIDENCE LOAD ERROR"
        \/ r = "heroSummary" /\ omitted # {}
  <2> SUFFICES ASSUME NEW r \in awaited, report[r] = Failed PROVE tracePill = "EVIDENCE LOAD ERROR"
    BY AwaitedBeforeOrOmitted
  <2>1. r \in Reports
    BY DEF awaited
  <2>2. QED
    BY <1>1, <1>4, <2>1
<1>6. gate \subseteq claims \/ gate \intersect claims = {}
  BY ClaimsRest DEF ClaimGrounds
<1>7. toolSpans.calls = "shown" <=> heroTiles.latency = "shown"
  BY DEF toolSpans, heroTiles
<1>8. QED
  BY <1>1, <1>2, <1>3, <1>4, <1>5, <1>6, <1>7 DEF FailureIsNeverHidden

\* In any order of the answers, the optional parts there or not, a failed fetch shows in
\* the header and in the manifest, and nothing waits in silence but for a part that the
\* hero summary came without.
THEOREM FailuresAlwaysShow == Spec => []FailureIsNeverHidden
BY BoardAlways, HiddenNowhere, PTL

StandsStep ==
    mounted /\ mounted' =>
        /\ claims \subseteq claims'
        /\ tracePill' = "TRACE CHAIN VALID" => tracePill # "EVIDENCE LOAD ERROR"

LEMMA StandStep == BoardOK /\ [Next]_console => [StandsStep]_console
<1> SUFFICES ASSUME BoardOK, Next PROVE StandsStep
  BY DEF console
<1>1. CASE Enter
  BY <1>1 DEF Enter, StandsStep
<1>2. ASSUME UNCHANGED board PROVE StandsStep
  <2>1. claims' = claims /\ tracePill' = tracePill
    BY <1>2 DEF board, claims, tracePill, gateBadge, gateCard, boundaryRow, judgeCard, serverlessCard,
                finalGate, toolSpans, Holds, Metrics, Arrived
  <2>2. tracePill = "TRACE CHAIN VALID" => tracePill # "EVIDENCE LOAD ERROR"
    OBVIOUS
  <2>3. QED
    BY <2>1, <2>2 DEF StandsStep
<1>3. ASSUME NEW r \in Reports, Arrive(r) PROVE StandsStep
  <2>1. evidenceError => evidenceError'
    BY <1>3, ArriveKeeps
  <2>2. ASSUME NEW q \in Reports, Arrived(q) PROVE report'[q] = report[q]
    <3>1. q # r
      BY <1>3, <2>2, OnlyFilesArrive DEF Arrive, Arrived
    <3>2. QED
      BY <1>3, <3>1 DEF Arrive, BoardOK
  <2>3. /\ Holds("liveGate", "official_gate_passed") => Holds("liveGate", "official_gate_passed")'
        /\ Holds("judgeLoad", "acceptance_passed") => Holds("judgeLoad", "acceptance_passed")'
        /\ Holds("serverless", "cloud_deployed") => Holds("serverless", "cloud_deployed")'
        /\ Holds("serverless", "artifact_ready") => Holds("serverless", "artifact_ready")'
        /\ Holds("serverless", "smoke_test_passed") => Holds("serverless", "smoke_test_passed")'
        /\ Holds("screenshotEvidence", "final_submission_eligible") => Holds("screenshotEvidence", "final_submission_eligible")'
        /\ Metrics("completed") => Metrics("completed")'
    BY <2>2 DEF Holds, Metrics, Arrived, Reports
  <2>4. claims \subseteq claims'
    BY <2>3, ClaimsRest, ClaimsAlwaysRest DEF ClaimGrounds
  <2>5. tracePill' = "TRACE CHAIN VALID" => tracePill # "EVIDENCE LOAD ERROR"
    BY <2>1 DEF tracePill
  <2>6. QED
    BY <2>4, <2>5 DEF StandsStep
<1>4. QED
  BY <1>1, <1>2, <1>3 DEF Next, Respond

\* While the page stays a claim that was made is not withdrawn.
THEOREM ClaimsAlwaysStand == Spec => ClaimsStand
BY BoardAlways, StandStep, PTL DEF Spec, ClaimsStand, StandsStep

-----------------------------------------------------------------------------
(* The mission view.                                                        *)

seen(event) == event \in TraceRail.visible

\* The rail shows an event from its own step on.
LEMMA SeenFrom ==
    ASSUME runStep \in Steps, NEW k \in Steps, NEW event,
           \A j \in Steps : timeline[j + 1].event = event <=> j = k
    PROVE  seen(event) <=> runStep >= k
<1>1. seen(event) <=> \E j \in Steps : j <= runStep /\ timeline[j + 1].event = event
  BY DEF seen, TraceRail
<1>2. QED
  BY <1>1, TimelineLength

LEMMA AtSafetyProof == \A j \in Steps : timeline[j + 1].event = "safety.proof" <=> j = 4
<1>1. \A j \in 0..14 : timeline[j + 1]["event"] = "safety.proof" <=> j = 4
  BY DEF timeline
<1>2. QED
  BY <1>1, TimelineLength

LEMMA AtApprovalGranted == \A j \in Steps : timeline[j + 1].event = "approval.granted" <=> j = 5
<1>1. \A j \in 0..14 : timeline[j + 1]["event"] = "approval.granted" <=> j = 5
  BY DEF timeline
<1>2. QED
  BY <1>1, TimelineLength

LEMMA AtMissionStarted == \A j \in Steps : timeline[j + 1].event = "mission.started" <=> j = 6
<1>1. \A j \in 0..14 : timeline[j + 1]["event"] = "mission.started" <=> j = 6
  BY DEF timeline
<1>2. QED
  BY <1>1, TimelineLength

LEMMA AtSensorAisleBlocked == \A j \in Steps : timeline[j + 1].event = "sensor.aisle_blocked" <=> j = 8
<1>1. \A j \in 0..14 : timeline[j + 1]["event"] = "sensor.aisle_blocked" <=> j = 8
  BY DEF timeline
<1>2. QED
  BY <1>1, TimelineLength

LEMMA AtExecutionLocalStop == \A j \in Steps : timeline[j + 1].event = "execution.local_stop" <=> j = 9
<1>1. \A j \in 0..14 : timeline[j + 1]["event"] = "execution.local_stop" <=> j = 9
  BY DEF timeline
<1>2. QED
  BY <1>1, TimelineLength

LEMMA AtReplanProof == \A j \in Steps : timeline[j + 1].event = "safety.replan_proof" <=> j = 12
<1>1. \A j \in 0..14 : timeline[j + 1]["event"] = "safety.replan_proof" <=> j = 12
  BY DEF timeline
<1>2. QED
  BY <1>1, TimelineLength

LEMMA AtOutcomeCompleted == \A j \in Steps : timeline[j + 1].event = "outcome.completed" <=> j = 14
<1>1. \A j \in 0..14 : timeline[j + 1]["event"] = "outcome.completed" <=> j = 14
  BY DEF timeline
<1>2. QED
  BY <1>1, TimelineLength

LEMMA RailBySteps ==
    ASSUME runStep \in Steps
    PROVE  /\ seen("safety.proof") <=> runStep >= 4
           /\ seen("approval.granted") <=> runStep >= 5
           /\ seen("mission.started") <=> runStep >= 6
           /\ seen("sensor.aisle_blocked") <=> runStep >= 8
           /\ seen("execution.local_stop") <=> runStep >= 9
           /\ seen("safety.replan_proof") <=> runStep >= 12
           /\ seen("outcome.completed") <=> runStep >= 14
<1>1. seen("safety.proof") <=> runStep >= 4
  BY SeenFrom, AtSafetyProof, TimelineLength
<1>2. seen("approval.granted") <=> runStep >= 5
  BY SeenFrom, AtApprovalGranted, TimelineLength
<1>3. seen("mission.started") <=> runStep >= 6
  BY SeenFrom, AtMissionStarted, TimelineLength
<1>4. seen("sensor.aisle_blocked") <=> runStep >= 8
  BY SeenFrom, AtSensorAisleBlocked, TimelineLength
<1>5. seen("execution.local_stop") <=> runStep >= 9
  BY SeenFrom, AtExecutionLocalStop, TimelineLength
<1>6. seen("safety.replan_proof") <=> runStep >= 12
  BY SeenFrom, AtReplanProof, TimelineLength
<1>7. seen("outcome.completed") <=> runStep >= 14
  BY SeenFrom, AtOutcomeCompleted, TimelineLength
<1>8. QED
  BY <1>1, <1>2, <1>3, <1>4, <1>5, <1>6, <1>7

LEMMA ScreenBySteps ==
    ASSUME runStep \in Steps
    PROVE  /\ blocked <=> runStep >= 8
           /\ replanned <=> runStep >= 11
           /\ complete <=> runStep >= 14
           /\ runStep \in 0..14
           /\ active = timeline[runStep + 1]
           /\ TraceRail.current = {timeline[runStep + 1].event}
<1>1. Last = 14 /\ Steps = 0..14 /\ runStep \in 0..14
  BY TimelineLength
<1>2. (blocked <=> runStep >= 8) /\ (replanned <=> runStep >= 11) /\ (complete <=> runStep >= 14)
  BY <1>1, BlockedAt, ReplanAt DEF blocked, replanned, complete
<1>3. active = timeline[runStep + 1]
  BY <1>1 DEF active
<1>4. {j \in Steps : j = runStep} = {runStep}
  OBVIOUS
<1>5. TraceRail.current = {timeline[runStep + 1].event}
  BY <1>4 DEF TraceRail
<1>6. QED
  BY <1>1, <1>2, <1>3, <1>5

\* After a decision the step is the decision's.
LEMMA DecisionHolds ==
    ASSUME ReplayInvariant, decision # "null"
    PROVE  runStep = decisionStep(decision)
<1>1. live = {}
  BY DEF ReplayInvariant
<1>2. ~setStopped
  <2>1. setStopped => setStep # None
    BY TimelineLength DEF ReplayInvariant, None
  <2>2. setStep = None
    BY DEF ReplayInvariant
  <2>3. QED
    BY <2>1, <2>2
<1>3. mounted => ~running
  BY <1>1, <1>2 DEF ReplayInvariant
<1>4. ~mounted => ~running
  BY DEF ReplayInvariant
<1>5. ~running => runStep = IF decision = "null" THEN Last ELSE decisionStep(decision)
  BY DEF ReplayInvariant
<1>6. QED
  BY <1>3, <1>4, <1>5

LEMMA OneMission == ReplayInvariant => MissionScreenAgrees
<1> SUFFICES ASSUME ReplayInvariant PROVE MissionScreenAgrees
  OBVIOUS
<1>0. runStep \in Steps
  BY DEF ReplayInvariant
<1> DEFINE says(claim) == claim \in missionParts.card
<1>1. missionParts.rail = TraceRail /\ missionParts.checks = SafetyChecks /\ missionParts.card = SafetyCard
      /\ missionParts.brief = MissionBrief
  BY DEF missionParts
<1>2. /\ missionParts.checks.routeAndPolicy <=> runStep >= 4
      /\ missionParts.checks.approval_integrity <=> runStep >= 5
  <2>1. SafetyChecks.routeAndPolicy = (runStep >= 4) /\ SafetyChecks.approval_integrity = (runStep >= 5)
    BY DEF SafetyChecks
  <2>2. QED
    BY <1>1, <2>1
<1>3. /\ says("LOCAL STOP ASSERTED") <=> runStep >= 8
      /\ says("REPLAN PROOF SEALED") <=> runStep >= 11
      /\ says("OUTCOME VERIFIED") <=> runStep >= 14
  BY <1>0, <1>1, ScreenBySteps DEF SafetyCard
<1>4. /\ vehicle = "RACK-A12" <=> runStep >= 14
      /\ vehicle \in {"DETOUR", "RACK-A12"} <=> runStep >= 11
      /\ vehicle = "OBSTACLE" <=> runStep \in 8..10
      /\ vehicle = "ROUTE" <=> runStep < 8
  BY <1>0, ScreenBySteps DEF vehicle
<1>5. missionParts.rail.current = {missionParts.brief.event}
  BY <1>0, <1>1, ScreenBySteps DEF MissionBrief
<1>6. /\ MissionView.headline = IF decision = "rejected" THEN "REJECTED" ELSE timeline[runStep + 1].state
      /\ MissionView.tile = timeline[runStep + 1].state
      /\ MissionView.pose <=> complete /\ Arrived("heroSummary")
      /\ MissionView.stopLatency = "shown" <=> blocked /\ Arrived("heroSummary")
  <2>1. /\ MissionView.headline = IF decision = "rejected" THEN "REJECTED" ELSE active.state
        /\ MissionView.tile = active.state
        /\ MissionView.pose = (complete /\ Arrived("heroSummary"))
        /\ MissionView.stopLatency = IF ~blocked THEN "-" ELSE IF Arrived("heroSummary") THEN "shown"
                                     ELSE "loading measured trace"
    BY DEF MissionView
  <2>2. active = timeline[runStep + 1]
    BY <1>0, ScreenBySteps
  <2>3. /\ MissionView.pose <=> complete /\ Arrived("heroSummary")
        /\ MissionView.stopLatency = "shown" <=> blocked /\ Arrived("heroSummary")
    BY <2>1
  <2>4. QED
    BY <2>1, <2>2, <2>3
<1>7. ASSUME MissionView.headline # MissionView.tile
      PROVE  ~seen("approval.granted") /\ vehicle = "ROUTE"
  <2>1. decision = "rejected"
    BY <1>6, <1>7
  <2>2. runStep = 4
    BY <2>1, DecisionHolds, VerifiedAt DEF decisionStep
  <2>3. QED
    BY <1>0, <1>4, <2>2, RailBySteps
<1>8. ASSUME decision = "approved"
      PROVE  MissionView.headline = "APPROVED" /\ ~says("LOCAL STOP ASSERTED")
  <2>1. runStep = 5
    BY <1>8, DecisionHolds, ApprovedAt DEF decisionStep
  <2>2. 5 + 1 = 6 /\ ~(5 >= 8)
    OBVIOUS
  <2>3. MissionView.headline = timeline[6].state
    BY <1>6, <1>8, <2>1, <2>2
  <2>4. QED
    BY <1>3, <2>1, <2>2, <2>3, TimelineStates
<1>9. ASSUME decision = "stopped"
      PROVE  MissionView.headline = "SAFE_STOP" /\ vehicle = "OBSTACLE"
  <2>1. runStep = 9
    BY <1>9, DecisionHolds, StoppedAt DEF decisionStep
  <2>2. MissionView.headline = timeline[9 + 1].state
    BY <1>6, <1>9, <2>1
  <2>3. QED
    BY <1>4, <2>1, <2>2, TimelineStates
<1>10. runStep \in 0..14 /\ (blocked <=> runStep >= 8) /\ (complete <=> runStep >= 14)
  BY <1>0, ScreenBySteps
<1>11. /\ missionParts.checks.routeAndPolicy <=> seen("safety.proof")
       /\ missionParts.checks.approval_integrity <=> seen("approval.granted")
       /\ seen("mission.started") => missionParts.checks.approval_integrity
       /\ says("LOCAL STOP ASSERTED") <=> seen("sensor.aisle_blocked")
       /\ seen("safety.replan_proof") => says("REPLAN PROOF SEALED")
       /\ says("REPLAN PROOF SEALED") <=> vehicle \in {"DETOUR", "RACK-A12"}
       /\ says("OUTCOME VERIFIED") <=> seen("outcome.completed")
       /\ says("OUTCOME VERIFIED") <=> vehicle = "RACK-A12"
       /\ vehicle \in {"DETOUR", "RACK-A12"} => seen("execution.local_stop")
  <2>1. /\ missionParts.checks.routeAndPolicy <=> seen("safety.proof")
        /\ missionParts.checks.approval_integrity <=> seen("approval.granted")
    BY <1>0, <1>2, RailBySteps
  <2>2. seen("mission.started") => missionParts.checks.approval_integrity
    <3>1. runStep >= 6 => runStep >= 5
      BY <1>10
    <3>2. QED
      BY <1>0, <1>2, <3>1, RailBySteps
  <2>3. /\ says("LOCAL STOP ASSERTED") <=> seen("sensor.aisle_blocked")
        /\ says("REPLAN PROOF SEALED") <=> vehicle \in {"DETOUR", "RACK-A12"}
        /\ says("OUTCOME VERIFIED") <=> seen("outcome.completed")
        /\ says("OUTCOME VERIFIED") <=> vehicle = "RACK-A12"
    BY <1>0, <1>3, <1>4, RailBySteps
  <2>4. vehicle \in {"DETOUR", "RACK-A12"} => seen("execution.local_stop")
    <3>1. runStep >= 11 => runStep >= 9
      BY <1>10
    <3>2. QED
      BY <1>0, <1>4, <3>1, RailBySteps
  <2>5. seen("safety.replan_proof") => says("REPLAN PROOF SEALED")
    <3>1. runStep >= 12 => runStep >= 11
      BY <1>10
    <3>2. QED
      BY <1>0, <1>3, <3>1, RailBySteps
  <2>6. QED
    BY <2>1, <2>2, <2>3, <2>4, <2>5
<1>12. /\ MissionView.pose => says("OUTCOME VERIFIED") /\ MissionView.stopLatency = "shown"
       /\ MissionView.stopLatency = "shown" => says("LOCAL STOP ASSERTED") /\ evidenceStamp = "shown"
  <2>1. runStep >= 14 => runStep >= 8
    BY <1>10
  <2>2. Arrived("heroSummary") => evidenceStamp = "shown"
    BY DEF evidenceStamp
  <2>3. QED
    BY <1>3, <1>6, <1>10, <2>1, <2>2
<1>13. QED
  BY <1>1, <1>5, <1>7, <1>8, <1>9, <1>11, <1>12 DEF MissionScreenAgrees, seen

\* Whatever was clicked, the parts of the mission view tell one mission.
THEOREM ScreenTellsOneMission == Spec => []MissionScreenAgrees
BY OneIntervalOnly, OneMission, PTL
=============================================================================
