---------------------------- MODULE FieldTestProofs ----------------------------
(***************************************************************************)
(* Proofs about FieldTest, for every set of speeds and latencies on offer   *)
(* and every delay of the renders that MaxTicks allows: the shape of the    *)
(* state, the agreement of the screen, the honesty of the export, and that  *)
(* whoever watches sees a safe stop.                                        *)
(***************************************************************************)
EXTENDS FieldTest, TLAPS

\* What the queued ticks come to: time never runs back, nor far, nor past the end.
LEMMA ElapsedFacts ==
    ASSUME FieldTestOK
    PROVE  /\ Elapsed \in 0 .. completeAtMs
           /\ elapsedMs <= Elapsed /\ Elapsed <= elapsedMs + 800
           /\ ticks = 0 => Elapsed = elapsedMs
<1>1. /\ stopLatencyMs \in {84, 150, 240}
      /\ ticks \in 0 .. 4
      /\ elapsedMs \in 0 .. completeAtMs
      /\ speed \in {1, 2, 4}
  BY LabAssumption DEF FieldTestOK
<1>2. completeAtMs \in Nat
  BY <1>1 DEF completeAtMs, DETECT_AT_MS
<1>3. 50 * speed * ticks \in 0 .. 800 /\ (ticks = 0 => 50 * speed * ticks = 0)
  <2>1. CASE speed = 1
    BY <1>1, <2>1
  <2>2. CASE speed = 2
    BY <1>1, <2>2
  <2>3. CASE speed = 4
    BY <1>1, <2>3
  <2>4. QED
    BY <1>1, <2>1, <2>2, <2>3
<1>4. QED
  <2> DEFINE gone == 50 * speed * ticks
  <2>1. gone \in 0 .. 800 /\ (ticks = 0 => gone = 0)
    BY <1>3
  <2>2. Elapsed = IF elapsedMs + gone < completeAtMs THEN elapsedMs + gone ELSE completeAtMs
    BY DEF Elapsed
  <2> HIDE DEF gone
  <2>3. QED
    BY <1>1, <1>2, <2>1, <2>2

LEMMA FieldTestInit == Init => FieldTestOK
<1> SUFFICES ASSUME Init PROVE FieldTestOK
  OBVIOUS
<1>1. /\ {open, started, running, sessionStartedAt, timer, eager} \subseteq BOOLEAN
      /\ ~eager /\ ~started /\ ~sessionStartedAt /\ ~running /\ ~timer /\ open
  BY DEF Init
<1>2. elapsedMs \in 0 .. completeAtMs /\ ticks \in 0 .. MaxTicks
  BY LabAssumption DEF Init, completeAtMs, DETECT_AT_MS
<1>3. /\ speed \in Speeds /\ stopLatencyMs \in Latencies
      /\ cloudMode \in CloudMode /\ mapMode \in {"2D", "3D"}
      /\ elapsedMs = 0 /\ ticks = 0 /\ run = NoRun
  BY LabAssumption DEF Init, CloudMode
<1>4. QED
  BY <1>1, <1>2, <1>3 DEF FieldTestOK

\* A click renders the queue, and the effect runs at once.
LEMMA ClickFacts ==
    ASSUME FieldTestOK, NEW on \in BOOLEAN, NEW at, Clicked(on, at)
    PROVE  /\ {running', timer', eager'} \subseteq BOOLEAN
           /\ elapsedMs' = at
           /\ ticks' = 0 /\ ticks' \in 0 .. MaxTicks /\ ~eager'
           /\ timer' = running'
           /\ ~on => ~running'
<1>1. Settled(on) \in BOOLEAN /\ (~on => ~Settled(on))
  BY DEF Settled
<1>2. /\ running' = Settled(on) /\ elapsedMs' = at /\ ticks' = 0 /\ eager' = FALSE
      /\ timer' = running'
  BY DEF Clicked, Rendered
<1>3. 0 \in 0 .. MaxTicks
  BY LabAssumption
<1>4. QED
  BY <1>1, <1>2, <1>3

LEMMA RunningFacts ==
    ASSUME FieldTestOK
    PROVE  /\ Running \in BOOLEAN /\ (~Running) \in BOOLEAN
           /\ started \in BOOLEAN
           /\ ~started => ~Running
<1>1. running \in BOOLEAN /\ started \in BOOLEAN /\ (~started => ~running)
  BY DEF FieldTestOK
<1>2. Running \in BOOLEAN
  BY DEF Running
<1>5. (~Running) \in BOOLEAN
  OBVIOUS
<1>3. ~running => ~Running
  BY Zenon DEF Running
<1>4. QED
  BY <1>1, <1>2, <1>3, <1>5

\* The end of a click that leaves open, the settings and the run as they were.
LEMMA RunGoesOn ==
    ASSUME FieldTestOK, open, open' = open,
           speed' \in Speeds, stopLatencyMs' = stopLatencyMs, cloudMode' = cloudMode,
           mapMode' \in {"2D", "3D"},
           NEW on \in BOOLEAN, NEW at \in 0 .. completeAtMs, Clicked(on, at),
           run' = [about |-> "run", latency |-> stopLatencyMs, cloud |-> cloudMode],
           started' = TRUE, sessionStartedAt' = TRUE
    PROVE  FieldTestOK'
<1>1. /\ {running', timer', eager'} \subseteq BOOLEAN
      /\ elapsedMs' = at
      /\ ticks' = 0 /\ ticks' \in 0 .. MaxTicks /\ ~eager'
  BY ClickFacts
<1>2. completeAtMs' = completeAtMs
  BY DEF completeAtMs
<1>3. {open', started', running', sessionStartedAt', timer', eager'} \subseteq BOOLEAN
  BY <1>1 DEF FieldTestOK
<1>4. QED
  BY <1>1, <1>2, <1>3 DEF FieldTestOK

LEMMA CompletesLater ==
    ASSUME NEW latency \in Latencies
    PROVE  0 \in 0 .. DETECT_AT_MS + latency + 4700
<1>1. latency \in {84, 150, 240}
  BY LabAssumption
<1>2. QED
  BY <1>1 DEF DETECT_AT_MS

\* A lab without a rehearsal stands at its beginning.
LEMMA NothingRuns ==
    ASSUME open' \in BOOLEAN, started' = FALSE, sessionStartedAt' = FALSE,
           running' = FALSE, timer' = FALSE, eager' = FALSE, ticks' = 0, elapsedMs' = 0,
           run' = NoRun, speed' \in Speeds, stopLatencyMs' \in Latencies,
           cloudMode' \in CloudMode, mapMode' \in {"2D", "3D"}
    PROVE  FieldTestOK'
<1>1. 0 \in 0 .. completeAtMs' /\ 0 \in 0 .. MaxTicks
  <2>1. completeAtMs' = DETECT_AT_MS + stopLatencyMs' + 4700
    BY DEF completeAtMs
  <2>2. QED
    BY <2>1, CompletesLater, LabAssumption
<1>2. {open', started', running', sessionStartedAt', timer', eager'} \subseteq BOOLEAN
  OBVIOUS
<1>3. QED
  BY <1>1, <1>2 DEF FieldTestOK

\* The same click before and during a rehearsal.
LEMMA SettingClick ==
    ASSUME FieldTestOK, open, Clicked(Running, Elapsed),
           UNCHANGED <<open, started, sessionStartedAt, run>>,
           speed' \in Speeds, mapMode' \in {"2D", "3D"},
           stopLatencyMs' \in Latencies, cloudMode' \in CloudMode,
           started => UNCHANGED <<stopLatencyMs, cloudMode>>
    PROVE  FieldTestOK'
<1>1. /\ Running \in BOOLEAN
      /\ Elapsed \in 0 .. completeAtMs
      /\ ~started => Elapsed = 0 /\ ~Running
  BY ElapsedFacts, RunningFacts DEF FieldTestOK
<1>2. CASE started
  <2>1. started = TRUE /\ sessionStartedAt = TRUE
    BY <1>2 DEF FieldTestOK
  <2>2. run = [about |-> "run", latency |-> stopLatencyMs, cloud |-> cloudMode]
    BY <1>2 DEF FieldTestOK
  <2>3. QED
    BY <1>1, <1>2, <2>1, <2>2, RunGoesOn
<1>3. CASE ~started
  <2>1. started = FALSE /\ sessionStartedAt = FALSE /\ run = NoRun /\ open \in BOOLEAN
    BY <1>3 DEF FieldTestOK
  <2>2. /\ ~running' /\ running' \in BOOLEAN /\ timer' = running' /\ eager' = FALSE
        /\ ticks' = 0 /\ elapsedMs' = Elapsed
    BY <1>1, <1>3, ClickFacts DEF Clicked, Rendered
  <2>3. QED
    BY <1>1, <1>3, <2>1, <2>2, NothingRuns
<1>4. QED
  BY <1>2, <1>3

LEMMA FieldTestStep == FieldTestOK /\ [Next]_vars => FieldTestOK'
<1> SUFFICES ASSUME FieldTestOK, [Next]_vars PROVE FieldTestOK'
  OBVIOUS
<1>0. /\ {open, started, running, sessionStartedAt, timer, eager} \subseteq BOOLEAN
      /\ speed \in Speeds /\ stopLatencyMs \in Latencies
      /\ cloudMode \in CloudMode /\ mapMode \in {"2D", "3D"}
      /\ elapsedMs \in 0 .. completeAtMs /\ ticks \in 0 .. MaxTicks
  BY DEF FieldTestOK
<1>1. CASE Tick
  <2>1. timer /\ started /\ completeAtMs' = completeAtMs
    BY <1>1 DEF Tick, FieldTestOK, settings, completeAtMs
  <2>2. ticks' \in 0 .. MaxTicks /\ ticks' > 0
    BY <1>0, <1>1, LabAssumption DEF Tick
  <2>3. eager' \in BOOLEAN
    BY <1>0, <1>1 DEF Tick
  <2>4. QED
    BY <1>1, <2>1, <2>2, <2>3 DEF Tick, FieldTestOK, settings
<1>2. CASE Render
  <2>1. started /\ completeAtMs' = completeAtMs
    BY <1>2 DEF Render, FieldTestOK, settings, completeAtMs
  <2>2. elapsedMs' \in 0 .. completeAtMs /\ ticks' \in 0 .. MaxTicks /\ ~eager'
    BY <1>2, ElapsedFacts, LabAssumption DEF Render, Rendered
  <2>3. running' \in BOOLEAN /\ eager' \in BOOLEAN
    BY <1>2 DEF Render, Rendered, Settled, Running
  <2>4. QED
    BY <1>2, <2>1, <2>2, <2>3 DEF Render, FieldTestOK, settings
<1>3. CASE RunEffect
  <2>1. completeAtMs' = completeAtMs
    BY <1>3 DEF RunEffect, settings, completeAtMs
  <2>2. QED
    BY <1>3, <2>1 DEF RunEffect, FieldTestOK, settings
<1>4. CASE StartOrPause
  <2>1. /\ (~Running) \in BOOLEAN /\ Elapsed \in 0 .. completeAtMs /\ open
        /\ open' = open /\ UNCHANGED settings /\ Clicked(~Running, Elapsed)
    BY <1>4, RunningFacts, ElapsedFacts DEF StartOrPause
  <2>2. /\ started' = TRUE /\ sessionStartedAt' = TRUE
        /\ run' = [about |-> "run", latency |-> stopLatencyMs, cloud |-> cloudMode]
    BY <1>4 DEF StartOrPause, Begun, FieldTestOK
  <2>3. QED
    BY <1>0, <2>1, <2>2, RunGoesOn DEF settings
<1>5. CASE Reset
  <2>1. running' \in BOOLEAN /\ ~running' /\ timer' = running'
    BY <1>5, ClickFacts DEF Reset
  <2>2. QED
    BY <1>0, <1>5, <2>1, NothingRuns DEF Reset, Fresh, Clicked, Rendered, settings
<1>6. CASE InjectBlockage
  <2> DEFINE at == IF elapsedMs < DETECT_AT_MS THEN DETECT_AT_MS ELSE Elapsed
  <2>1. at \in 0 .. completeAtMs
    <3>1. stopLatencyMs \in {84, 150, 240}
      BY <1>0, LabAssumption
    <3>2. completeAtMs \in Nat /\ completeAtMs >= 3000
      BY <3>1 DEF completeAtMs, DETECT_AT_MS
    <3>3. Elapsed \in 0 .. completeAtMs
      BY ElapsedFacts
    <3>4. QED
      BY <3>2, <3>3 DEF DETECT_AT_MS
  <2>2. /\ open /\ open' = open /\ UNCHANGED settings /\ Clicked(TRUE, at)
    BY <1>6 DEF InjectBlockage
  <2>3. /\ started' = TRUE /\ sessionStartedAt' = TRUE
        /\ run' = [about |-> "run", latency |-> stopLatencyMs, cloud |-> cloudMode]
    BY <1>6 DEF InjectBlockage, Begun, FieldTestOK
  <2> HIDE DEF at
  <2>4. QED
    BY <1>0, <2>1, <2>2, <2>3, RunGoesOn DEF settings
<1>7. CASE SetSpeed
  BY <1>0, <1>7, SettingClick DEF SetSpeed
<1>8. CASE SetMapMode
  BY <1>0, <1>8, SettingClick DEF SetMapMode
<1>9. CASE SetStopLatency
  BY <1>0, <1>9, SettingClick DEF SetStopLatency
<1>10. CASE SetCloudMode
  BY <1>0, <1>10, SettingClick DEF SetCloudMode
<1>11. CASE ExportRehearsal
  <2>1. completeAtMs' = completeAtMs
    BY <1>11 DEF ExportRehearsal, settings, completeAtMs
  <2>2. QED
    BY <1>11, <2>1 DEF ExportRehearsal, FieldTestOK, settings, clock
<1>12. CASE Back
  BY <1>12, LabAssumption, NothingRuns DEF Back, Fresh, CloudMode
<1>13. CASE Open
  <2>1. completeAtMs' = completeAtMs
    BY <1>13 DEF Open, settings, completeAtMs
  <2>2. QED
    BY <1>13, <2>1 DEF Open, FieldTestOK, settings, clock
<1>14. CASE UNCHANGED vars
  <2>1. completeAtMs' = completeAtMs
    BY <1>14 DEF vars, settings, completeAtMs
  <2>2. QED
    BY <1>14, <2>1 DEF vars, FieldTestOK, settings, clock
<1>15. QED
  BY <1>1, <1>2, <1>3, <1>4, <1>5, <1>6, <1>7, <1>8, <1>9, <1>10, <1>11, <1>12, <1>13, <1>14
     DEF Next, Machinery, Operator

\* Whatever is clicked between whichever ticks, the state keeps its shape: no time
\* without a session, none beyond the end, no setting changed under a run.
THEOREM RehearsalKeepsShape == Spec => []FieldTestOK
BY FieldTestInit, FieldTestStep, PTL DEF Spec
-----------------------------------------------------------------------------
(* The screen: every part of it in terms of the time alone.                 *)

LEMMA Times ==
    ASSUME FieldTestOK
    PROVE  /\ stopLatencyMs \in 84 .. 240
           /\ completeAtMs = stopLatencyMs + 7700
           /\ elapsedMs \in 0 .. stopLatencyMs + 7700
           /\ started \in BOOLEAN
           /\ ~started => elapsedMs = 0
<1>1. stopLatencyMs \in {84, 150, 240}
  BY LabAssumption DEF FieldTestOK
<1>2. completeAtMs = stopLatencyMs + 7700
  BY <1>1 DEF completeAtMs, DETECT_AT_MS
<1>3. elapsedMs \in 0 .. completeAtMs /\ (~started => elapsedMs = 0)
  BY DEF FieldTestOK
<1>4. started \in BOOLEAN
  BY DEF FieldTestOK
<1>5. QED
  BY <1>1, <1>2, <1>3, <1>4

\* The phases follow one another in time.
PhaseByTime ==
    /\ ~started => phase = "READY"
    /\ started /\ elapsedMs < 3000 => phase = "EXECUTING"
    /\ started /\ elapsedMs >= 3000 /\ elapsedMs < 3000 + stopLatencyMs => phase = "SENSOR_DETECTED"
    /\ started /\ elapsedMs >= 3000 + stopLatencyMs /\ elapsedMs < 3850 + stopLatencyMs
         => phase = "SAFE_STOP"
    /\ started /\ elapsedMs >= 3850 + stopLatencyMs /\ elapsedMs < 4750 + stopLatencyMs
         => phase = "REPLANNING"
    /\ started /\ elapsedMs >= 4750 + stopLatencyMs /\ elapsedMs < 7700 + stopLatencyMs
         => phase = "RESUMED"
    /\ started /\ elapsedMs = 7700 + stopLatencyMs => phase = "COMPLETED"

\* So does the vehicle.
HeroByTime ==
    /\ elapsedMs <= 3000 => heroPosition = [route |-> "A", done |-> elapsedMs]
    /\ elapsedMs >= 3000 /\ elapsedMs <= 4750 + stopLatencyMs
         => heroPosition = [route |-> "A", done |-> 3000]
    /\ elapsedMs > 4750 + stopLatencyMs
         => heroPosition = [route |-> "B", done |-> elapsedMs - (4750 + stopLatencyMs)]

LEMMA PhaseFacts == FieldTestOK => PhaseByTime
<1> SUFFICES ASSUME FieldTestOK PROVE PhaseByTime
  OBVIOUS
<1>1. stopLatencyMs \in Nat /\ elapsedMs \in Nat
  BY Times
<1>2. QED
  BY <1>1 DEF PhaseByTime, phase, phaseAt, DETECT_AT_MS

LEMMA HeroFacts == FieldTestOK => HeroByTime
<1> SUFFICES ASSUME FieldTestOK PROVE HeroByTime
  OBVIOUS
<1>1. stopLatencyMs \in Nat /\ elapsedMs \in Nat /\ elapsedMs <= completeAtMs
      /\ completeAtMs = stopLatencyMs + 7700
  BY Times
<1>2. ASSUME elapsedMs <= 3000 PROVE heroPosition = [route |-> "A", done |-> elapsedMs]
  BY <1>1, <1>2 DEF heroPosition, pointAlong, DETECT_AT_MS
<1>3. ASSUME elapsedMs > 3000, elapsedMs <= 4750 + stopLatencyMs
      PROVE  heroPosition = [route |-> "A", done |-> 3000]
  BY <1>1, <1>3 DEF heroPosition, pointAlong, DETECT_AT_MS
<1>4. ASSUME elapsedMs > 4750 + stopLatencyMs
      PROVE  heroPosition = [route |-> "B", done |-> elapsedMs - (4750 + stopLatencyMs)]
  BY <1>1, <1>4 DEF heroPosition, pointAlong, DETECT_AT_MS
<1>5. QED
  BY <1>1, <1>2, <1>3, <1>4 DEF HeroByTime

\* An entry is listed when its time has come.
LEMMA EntryListed ==
    ASSUME NEW kind, NEW due, <<kind, due>> \in events,
           \A e \in events : e[1] = kind => e[2] = due,
           kind # "Run the rehearsal to emit synthetic events."
    PROVE  kind \in timelineShown <=> started /\ due <= elapsedMs
<1>1. kind \in visibleEvents <=> started /\ due <= elapsedMs
  <2> DEFINE entry == <<kind, due>>
             past == {d \in events : started /\ d[2] <= elapsedMs}
  <2>1. entry \in events /\ entry[1] = kind /\ entry[2] = due
    OBVIOUS
  <2>2. visibleEvents = {e[1] : e \in past}
    BY DEF visibleEvents
  <2> HIDE DEF entry
  <2>3. ASSUME started, due <= elapsedMs PROVE kind \in visibleEvents
    <3>1. entry \in past
      BY <2>1, <2>3
    <3>2. QED
      BY <2>1, <2>2, <3>1
  <2>4. ASSUME kind \in visibleEvents PROVE started /\ due <= elapsedMs
    <3>1. PICK e \in past : e[1] = kind
      BY <2>2, <2>4
    <3>2. QED
      BY <3>1
  <2>5. QED
    BY <2>3, <2>4
<1>2. kind \in timelineShown <=> kind \in visibleEvents
  BY DEF timelineShown
<1>3. QED
  BY <1>1, <1>2

LEMMA TimelineFacts ==
    ASSUME FieldTestOK
    PROVE  /\ "mission.started" \in timelineShown <=> started
           /\ "sensor.filtered_obstacle" \in timelineShown <=> started /\ 3000 <= elapsedMs
           /\ "agv.stationary_confirmed" \in timelineShown <=> started /\ 3000 + stopLatencyMs <= elapsedMs
           /\ "replan.accepted" \in timelineShown <=> started /\ 3850 + stopLatencyMs <= elapsedMs
           /\ "mission.resumed" \in timelineShown <=> started /\ 4750 + stopLatencyMs <= elapsedMs
           /\ "mission.completed" \in timelineShown <=> started /\ 7700 + stopLatencyMs <= elapsedMs
           /\ "network.cloud_disconnected" \in timelineShown => cloudMode = "DISCONNECTED_BEFORE_OBSTACLE"
<1>0. stopLatencyMs \in Nat /\ elapsedMs \in Nat
  BY Times
<1>1. events = {<<"mission.started", 0>>,
                <<IF cloudMode = "DISCONNECTED_BEFORE_OBSTACLE" THEN "network.cloud_disconnected"
                  ELSE "network.cloud_retained", 2600>>,
                <<"sensor.raw_detected", 2900>>,
                <<"sensor.filtered_obstacle", 3000>>,
                <<"edge.stop_issued", 3012>>,
                <<"agv.stationary_confirmed", 3000 + stopLatencyMs>>,
                <<"replan.accepted", 3850 + stopLatencyMs>>,
                <<"mission.resumed", 4750 + stopLatencyMs>>,
                <<"mission.completed", 7700 + stopLatencyMs>>}
  <2>1. /\ DETECT_AT_MS = 3000 /\ DETECT_AT_MS + 12 = 3012
        /\ DETECT_AT_MS + stopLatencyMs = 3000 + stopLatencyMs
        /\ (DETECT_AT_MS + stopLatencyMs) + 850 = 3850 + stopLatencyMs
        /\ (DETECT_AT_MS + stopLatencyMs) + 1750 = 4750 + stopLatencyMs
        /\ (DETECT_AT_MS + stopLatencyMs) + 4700 = 7700 + stopLatencyMs
    BY <1>0 DEF DETECT_AT_MS
  <2>2. QED
    BY <2>1 DEF events, schedule
<1>2. "mission.started" \in timelineShown <=> started /\ 0 <= elapsedMs
  <2>1. <<"mission.started", 0>> \in events
    BY <1>1
  <2>2. \A e \in events : e[1] = "mission.started" => e[2] = 0
    BY <1>1
  <2>3. "mission.started" # "Run the rehearsal to emit synthetic events."
    OBVIOUS
  <2>4. QED
    BY <2>1, <2>2, <2>3, EntryListed
<1>3. "sensor.filtered_obstacle" \in timelineShown <=> started /\ 3000 <= elapsedMs
  <2> DEFINE due == 3000
  <2>1. <<"sensor.filtered_obstacle", due>> \in events
    BY <1>1
  <2>2. \A e \in events : e[1] = "sensor.filtered_obstacle" => e[2] = due
    BY <1>1
  <2>3. "sensor.filtered_obstacle" # "Run the rehearsal to emit synthetic events."
    OBVIOUS
    <2> HIDE DEF due
  <2>4. "sensor.filtered_obstacle" \in timelineShown <=> started /\ due <= elapsedMs
    BY <2>1, <2>2, <2>3, EntryListed
  <2>5. QED
    BY <2>4 DEF due
<1>4. "agv.stationary_confirmed" \in timelineShown <=> started /\ 3000 + stopLatencyMs <= elapsedMs
  <2> DEFINE due == 3000 + stopLatencyMs
  <2>1. <<"agv.stationary_confirmed", due>> \in events
    BY <1>1
  <2>2. \A e \in events : e[1] = "agv.stationary_confirmed" => e[2] = due
    BY <1>1
  <2>3. "agv.stationary_confirmed" # "Run the rehearsal to emit synthetic events."
    OBVIOUS
    <2> HIDE DEF due
  <2>4. "agv.stationary_confirmed" \in timelineShown <=> started /\ due <= elapsedMs
    BY <2>1, <2>2, <2>3, EntryListed
  <2>5. QED
    BY <2>4 DEF due
<1>5. "replan.accepted" \in timelineShown <=> started /\ 3850 + stopLatencyMs <= elapsedMs
  <2> DEFINE due == 3850 + stopLatencyMs
  <2>1. <<"replan.accepted", due>> \in events
    BY <1>1
  <2>2. \A e \in events : e[1] = "replan.accepted" => e[2] = due
    BY <1>1
  <2>3. "replan.accepted" # "Run the rehearsal to emit synthetic events."
    OBVIOUS
    <2> HIDE DEF due
  <2>4. "replan.accepted" \in timelineShown <=> started /\ due <= elapsedMs
    BY <2>1, <2>2, <2>3, EntryListed
  <2>5. QED
    BY <2>4 DEF due
<1>6. "mission.resumed" \in timelineShown <=> started /\ 4750 + stopLatencyMs <= elapsedMs
  <2> DEFINE due == 4750 + stopLatencyMs
  <2>1. <<"mission.resumed", due>> \in events
    BY <1>1
  <2>2. \A e \in events : e[1] = "mission.resumed" => e[2] = due
    BY <1>1
  <2>3. "mission.resumed" # "Run the rehearsal to emit synthetic events."
    OBVIOUS
    <2> HIDE DEF due
  <2>4. "mission.resumed" \in timelineShown <=> started /\ due <= elapsedMs
    BY <2>1, <2>2, <2>3, EntryListed
  <2>5. QED
    BY <2>4 DEF due
<1>7. "mission.completed" \in timelineShown <=> started /\ 7700 + stopLatencyMs <= elapsedMs
  <2> DEFINE due == 7700 + stopLatencyMs
  <2>1. <<"mission.completed", due>> \in events
    BY <1>1
  <2>2. \A e \in events : e[1] = "mission.completed" => e[2] = due
    BY <1>1
  <2>3. "mission.completed" # "Run the rehearsal to emit synthetic events."
    OBVIOUS
    <2> HIDE DEF due
  <2>4. "mission.completed" \in timelineShown <=> started /\ due <= elapsedMs
    BY <2>1, <2>2, <2>3, EntryListed
  <2>5. QED
    BY <2>4 DEF due
<1>8. "network.cloud_disconnected" \in timelineShown => cloudMode = "DISCONNECTED_BEFORE_OBSTACLE"
  <2>1. "network.cloud_disconnected" \in timelineShown => "network.cloud_disconnected" \in visibleEvents
    BY DEF timelineShown
  <2>2. "network.cloud_disconnected" \in visibleEvents => \E e \in events : e[1] = "network.cloud_disconnected"
    BY DEF visibleEvents
  <2>3. QED
    BY <1>1, <2>1, <2>2
<1>9. QED
  BY <1>0, <1>2, <1>3, <1>4, <1>5, <1>6, <1>7, <1>8

LEMMA TrafficFacts == {v.agv : v \in trafficDrawn} = (1..9) \ {3}
<1>1. {v.agv : v \in trafficDrawn} = {i + (IF i >= 2 THEN 2 ELSE 1) : i \in 0..7}
  <2> DEFINE drawn(i) == [agv |-> i + (IF i >= 2 THEN 2 ELSE 1),
                          gone |-> (8 * elapsedMs + 10000 * i) % 80000]
  <2>1. trafficDrawn = {drawn(i) : i \in 0..7}
    BY DEF trafficDrawn
  <2>2. \A i \in 0..7 : drawn(i).agv = i + (IF i >= 2 THEN 2 ELSE 1)
    OBVIOUS
  <2> HIDE DEF drawn
  <2>3. QED
    BY <2>1, <2>2
<1>2. \A i \in 0..7 : i + (IF i >= 2 THEN 2 ELSE 1) \in (1..9) \ {3}
  OBVIOUS
<1>3. \A n \in (1..9) \ {3} : \E i \in 0..7 : n = i + (IF i >= 2 THEN 2 ELSE 1)
  <2>1. ASSUME NEW n \in (1..9) \ {3} PROVE \E i \in 0..7 : n = i + (IF i >= 2 THEN 2 ELSE 1)
    <3>1. CASE n \in 1..2
      <4>1. n - 1 \in 0..7 /\ n = (n - 1) + (IF n - 1 >= 2 THEN 2 ELSE 1)
        BY <3>1
      <4>2. QED
        BY <4>1
    <3>2. CASE n \in 4..9
      <4>1. n - 2 \in 0..7 /\ n = (n - 2) + (IF n - 2 >= 2 THEN 2 ELSE 1)
        BY <3>2
      <4>2. QED
        BY <4>1
    <3>3. QED
      BY <3>1, <3>2
  <2>2. QED
    BY <2>1
<1>4. QED
  BY <1>1, <1>2, <1>3

LEMMA GatesFacts ==
    ASSUME FieldTestOK
    PROVE  /\ gates.A07 = "SIMULATION PASS" <=> phase = "COMPLETED"
           /\ gates.A06 = "SIMULATION PASS" <=> a06SimulationPassed
           /\ a06SimulationPassed <=>
                /\ phase = "COMPLETED"
                /\ {metrics.cloud.tone, metrics.synthetic_stop.tone} = {"emerald"}
<1>1. gates.A07 = "SIMULATION PASS" <=> phase = "COMPLETED"
  BY DEF gates, GateStatus, a07SimulationPassed
<1>2. gates.A06 = "SIMULATION PASS" <=> a06SimulationPassed
  BY DEF gates, GateStatus
<1>3. metrics.cloud.tone = "emerald" <=> cloudMode = "DISCONNECTED_BEFORE_OBSTACLE"
  BY DEF metrics, SimulatorMetric
<1>4. metrics.synthetic_stop.tone = "emerald" <=> stopLatencyMs <= 200
  BY DEF metrics, SimulatorMetric
<1>5. QED
  BY <1>1, <1>2, <1>3, <1>4 DEF a06SimulationPassed

LEMMA ShapeGivesAgreement == FieldTestOK => ScreenAgrees
<1> SUFFICES ASSUME FieldTestOK PROVE ScreenAgrees
  OBVIOUS
<1>1. obstacle = [route |-> "A", done |-> 3000]
  BY DEF obstacle, DETECT_AT_MS
<1>2. /\ stopLatencyMs \in Nat /\ elapsedMs \in Nat
      /\ elapsedMs <= stopLatencyMs + 7700
      /\ started \in BOOLEAN /\ (~started => elapsedMs = 0)
  BY Times
<1>3. /\ listed("mission.started") <=> started
      /\ listed("sensor.filtered_obstacle") <=> started /\ 3000 <= elapsedMs
      /\ listed("agv.stationary_confirmed") <=> started /\ 3000 + stopLatencyMs <= elapsedMs
      /\ listed("replan.accepted") <=> started /\ 3850 + stopLatencyMs <= elapsedMs
      /\ listed("mission.resumed") <=> started /\ 4750 + stopLatencyMs <= elapsedMs
      /\ listed("mission.completed") <=> started /\ 7700 + stopLatencyMs <= elapsedMs
      /\ listed("network.cloud_disconnected") => cloudMode = "DISCONNECTED_BEFORE_OBSTACLE"
  BY TimelineFacts DEF listed
<1>4. metrics.phase.value = phase
  BY DEF metrics, SimulatorMetric
<1>5. /\ listed("mission.started") <=> phase # "READY"
      /\ listed("sensor.filtered_obstacle") <=> phase \notin {"READY", "EXECUTING"}
      /\ listed("agv.stationary_confirmed") <=> phase \notin {"READY", "EXECUTING", "SENSOR_DETECTED"}
      /\ listed("replan.accepted") <=> phase \in {"REPLANNING", "RESUMED", "COMPLETED"}
      /\ listed("mission.resumed") <=> phase \in {"RESUMED", "COMPLETED"}
      /\ listed("mission.completed") <=> phase = "COMPLETED"
  BY <1>2, <1>3, PhaseFacts DEF PhaseByTime
<1>6. /\ listed("mission.started") <=> metrics.phase.value # "READY"
      /\ listed("sensor.filtered_obstacle") <=> metrics.phase.value \notin {"READY", "EXECUTING"}
      /\ listed("agv.stationary_confirmed") <=> metrics.phase.value \notin {"READY", "EXECUTING", "SENSOR_DETECTED"}
      /\ listed("replan.accepted") <=> metrics.phase.value \in {"REPLANNING", "RESUMED", "COMPLETED"}
      /\ listed("mission.resumed") <=> metrics.phase.value \in {"RESUMED", "COMPLETED"}
  BY <1>4, <1>5, Zenon
<1>7. mapCard.detour <=> 3850 + stopLatencyMs <= elapsedMs
  <2>1. mapCard.detour = detourDrawn
    BY DEF mapCard
  <2>2. detourDrawn <=> 3850 + stopLatencyMs <= elapsedMs
    BY <1>2 DEF detourDrawn, DETECT_AT_MS
  <2>3. QED
    BY <2>1, <2>2
<1>8. mapCard.hero = heroPosition /\ mapCard.traffic = trafficDrawn
  BY DEF mapCard
<1>9. listed("replan.accepted") <=> mapCard.detour
  BY <1>2, <1>3, <1>7
<1>10. listed("mission.completed") <=> mapCard.hero = [route |-> "B", done |-> 2950]
  BY <1>2, <1>3, <1>8, HeroFacts DEF HeroByTime
<1>11. mapCard.hero.route = "B" => listed("mission.resumed")
  BY <1>2, <1>3, <1>8, HeroFacts DEF HeroByTime
<1>12. mapCard.blockage => mapCard.hero = obstacle \/ mapCard.detour
  <2>1. mapCard.blockage = blockageDrawn
    BY DEF mapCard
  <2>2. blockageDrawn => elapsedMs >= 3000
    BY <1>2 DEF blockageDrawn, DETECT_AT_MS
  <2>3. elapsedMs >= 3000 => heroPosition = obstacle \/ 3850 + stopLatencyMs <= elapsedMs
    BY <1>2, <1>1, HeroFacts DEF HeroByTime
  <2>4. QED
    BY <1>7, <1>8, <2>1, <2>2, <2>3
<1>13. listed("agv.stationary_confirmed") /\ ~listed("mission.resumed") => mapCard.hero = obstacle
  BY <1>2, <1>3, <1>8, <1>1, HeroFacts DEF HeroByTime
<1>14. listed("network.cloud_disconnected") => metrics.cloud.value = "DISCONNECTED"
  BY <1>3 DEF metrics, SimulatorMetric
<1>15. gates.A07 = "SIMULATION PASS" <=> listed("mission.completed")
  BY <1>5, GatesFacts
<1>16. gates.A06 = "SIMULATION PASS" <=>
         listed("mission.completed") /\ {metrics.cloud.tone, metrics.synthetic_stop.tone} = {"emerald"}
  BY <1>5, GatesFacts
<1>17. {v.agv : v \in mapCard.traffic} = (1..9) \ {3}
  BY <1>8, TrafficFacts
<1>18. PhaseAgrees
  BY <1>6, Zenon DEF PhaseAgrees
<1>19. MapAgrees
  BY <1>9, <1>10, <1>11, <1>12, <1>13, <1>17 DEF MapAgrees
<1>20. GatesAgree
  BY <1>14, <1>15, <1>16, Zenon DEF GatesAgree
<1>21. QED
  BY <1>18, <1>19, <1>20 DEF ScreenAgrees

\* The five ways in which the component works out its timetable always agree.
THEOREM ScreenAlwaysAgrees == Spec => []ScreenAgrees
BY RehearsalKeepsShape, ShapeGivesAgreement, PTL
-----------------------------------------------------------------------------
(* The safe stop that the watcher sees.                                     *)

InTime == stopLatencyMs \in 84 .. 240 /\ elapsedMs \in 0 .. stopLatencyMs + 7700

LEMMA NextPictures == FieldTestOK' => (InTime /\ PhaseByTime /\ HeroByTime)'
<1>1. FieldTestOK => InTime
  BY Times DEF InTime
<1>2. QED
  BY <1>1, PhaseFacts, HeroFacts, PTL

StopStep == Stop!Next \/ UNCHANGED Stop!vars

\* Time passes, at most 800 ms from one picture to the next.
LEMMA TimePasses ==
    ASSUME FieldTestOK, FieldTestOK', started, started', stopLatencyMs' = stopLatencyMs,
           elapsedMs <= elapsedMs', elapsedMs' <= elapsedMs + 800
    PROVE  StopStep
<1> DEFINE l == stopLatencyMs
           now == elapsedMs
           then == elapsedMs'
<1>1. l \in 84 .. 240 /\ now \in 0 .. l + 7700 /\ then \in now .. now + 800 /\ then <= l + 7700
  BY Times, NextPictures DEF InTime
<1>2. PhaseByTime /\ HeroByTime /\ PhaseByTime' /\ HeroByTime'
  BY PhaseFacts, HeroFacts, NextPictures
<1>3. /\ now < 3000 => phase = "EXECUTING" /\ heroPosition = [route |-> "A", done |-> now]
      /\ now >= 3000 /\ now < 3000 + l => phase = "SENSOR_DETECTED" /\ heroPosition = Stop!Obstacle
      /\ now >= 3000 + l /\ now < 3850 + l => phase = "SAFE_STOP" /\ heroPosition = Stop!Obstacle
      /\ now >= 3850 + l /\ now < 4750 + l => phase = "REPLANNING" /\ heroPosition = Stop!Obstacle
      /\ now = 4750 + l => phase = "RESUMED" /\ heroPosition = Stop!Obstacle
      /\ now > 4750 + l /\ now < 7700 + l
           => phase = "RESUMED" /\ heroPosition = [route |-> "B", done |-> now - (4750 + l)]
      /\ now = 7700 + l => phase = "COMPLETED" /\ heroPosition = Stop!Destination
  BY <1>1, <1>2 DEF PhaseByTime, HeroByTime, Stop!Obstacle, Stop!Destination
<1>4. /\ then < 3000 => phase' = "EXECUTING" /\ heroPosition' = [route |-> "A", done |-> then]
      /\ then >= 3000 /\ then < 3000 + l => phase' = "SENSOR_DETECTED" /\ heroPosition' = Stop!Obstacle
      /\ then >= 3000 + l /\ then < 3850 + l => phase' = "SAFE_STOP" /\ heroPosition' = Stop!Obstacle
      /\ then >= 3850 + l /\ then < 4750 + l => phase' = "REPLANNING" /\ heroPosition' = Stop!Obstacle
      /\ then = 4750 + l => phase' = "RESUMED" /\ heroPosition' = Stop!Obstacle
      /\ then > 4750 + l /\ then < 7700 + l
           => phase' = "RESUMED" /\ heroPosition' = [route |-> "B", done |-> then - (4750 + l)]
      /\ then = 7700 + l => phase' = "COMPLETED" /\ heroPosition' = Stop!Destination
  BY <1>1, <1>2 DEF PhaseByTime, HeroByTime, Stop!Obstacle, Stop!Destination
<1> HIDE DEF l, now, then
<1>5. CASE now < 3000
  <2>1. CASE then < 3000
    BY <1>1, <1>3, <1>4, <1>5, <2>1 DEF StopStep, Stop!Next, Stop!Drive, Stop!Farther, Stop!vars
  <2>2. CASE then >= 3000
    BY <1>1, <1>3, <1>4, <1>5, <2>2 DEF StopStep, Stop!Next, Stop!Detect
  <2>3. QED
    BY <1>1, <2>1, <2>2
<1>6. CASE now >= 3000 /\ now < 3000 + l
  BY <1>1, <1>3, <1>4, <1>6 DEF StopStep, Stop!Next, Stop!Stand, Stop!vars
<1>7. CASE now >= 3000 + l /\ now < 3850 + l
  BY <1>1, <1>3, <1>4, <1>7 DEF StopStep, Stop!Next, Stop!Replan, Stop!vars
<1>8. CASE now >= 3850 + l /\ now < 4750 + l
  BY <1>1, <1>3, <1>4, <1>8 DEF StopStep, Stop!Next, Stop!Resume, Stop!vars
<1>9. CASE now >= 4750 + l /\ now < 7700 + l
  BY <1>1, <1>3, <1>4, <1>9 DEF StopStep, Stop!Next, Stop!Drive, Stop!Farther, Stop!Complete, Stop!vars, Stop!Obstacle
<1>10. CASE now = 7700 + l
  BY <1>1, <1>3, <1>4, <1>10 DEF StopStep, Stop!Next, Stop!vars
<1>11. QED
  BY <1>1, <1>5, <1>6, <1>7, <1>8, <1>9, <1>10

LEMMA StandsStill ==
    ASSUME UNCHANGED <<started, elapsedMs, stopLatencyMs>>
    PROVE  StopStep
<1>1. completeAtMs' = completeAtMs
  BY DEF completeAtMs
<1>2. phase' = phase
  BY DEF phase
<1>3. heroPosition' = heroPosition
  BY <1>1 DEF heroPosition
<1>4. QED
  BY <1>2, <1>3 DEF StopStep, Stop!vars

\* Before the start, everything is at its beginning whatever is set.
LEMMA NothingStarted ==
    ASSUME FieldTestOK, FieldTestOK', ~started, ~started'
    PROVE  StopStep
<1>1. /\ elapsedMs = 0 /\ elapsedMs' = 0
      /\ stopLatencyMs \in Nat /\ stopLatencyMs' \in Nat
  BY Times, NextPictures DEF FieldTestOK, InTime
<1>2. PhaseByTime /\ HeroByTime /\ PhaseByTime' /\ HeroByTime'
  BY PhaseFacts, HeroFacts, NextPictures
<1>3. phase' = phase
  BY <1>2 DEF PhaseByTime
<1>4. heroPosition' = heroPosition
  BY <1>1, <1>2 DEF HeroByTime
<1>5. QED
  BY <1>3, <1>4 DEF StopStep, Stop!vars

LEMMA BackToDepot ==
    ASSUME FieldTestOK', ~started'
    PROVE  StopStep
<1>1. elapsedMs' = 0 /\ PhaseByTime' /\ HeroByTime'
  BY NextPictures DEF FieldTestOK
<1>2. phase' = "READY" /\ heroPosition' = Stop!Depot
  BY <1>1 DEF PhaseByTime, HeroByTime, Stop!Depot
<1>3. QED
  BY <1>2 DEF StopStep, Stop!Next, Stop!StartOver

\* A click that renders the queue during a rehearsal, or before it.
LEMMA ClickPictures ==
    ASSUME FieldTestOK, FieldTestOK', elapsedMs' = Elapsed,
           UNCHANGED <<started, stopLatencyMs>>
    PROVE  StopStep
<1>1. started \in BOOLEAN /\ elapsedMs <= Elapsed /\ Elapsed <= elapsedMs + 800
  BY Times, ElapsedFacts
<1>2. CASE started
  BY <1>1, <1>2, TimePasses
<1>3. CASE ~started
  BY <1>3, NothingStarted
<1>4. QED
  BY <1>2, <1>3

LEMMA StopInit == Init => Stop!Init
<1> SUFFICES ASSUME Init PROVE Stop!Init
  OBVIOUS
<1>1. PhaseByTime /\ HeroByTime
  BY FieldTestInit, PhaseFacts, HeroFacts
<1>2. ~started /\ elapsedMs = 0
  BY DEF Init
<1>3. QED
  BY <1>1, <1>2 DEF PhaseByTime, HeroByTime, Stop!Init, Stop!Depot

LEMMA StopNext == FieldTestOK /\ FieldTestOK' /\ [Next]_vars => StopStep
<1> SUFFICES ASSUME FieldTestOK, FieldTestOK', [Next]_vars PROVE StopStep
  OBVIOUS
<1>0. /\ PhaseByTime /\ HeroByTime /\ PhaseByTime' /\ HeroByTime'
      /\ stopLatencyMs \in 84 .. 240 /\ elapsedMs \in Nat /\ started \in BOOLEAN
  BY PhaseFacts, HeroFacts, NextPictures, Times
<1>1. CASE Tick
  BY <1>1, StandsStill DEF Tick, settings
<1>2. CASE Render
  BY <1>2, ClickPictures DEF Render, Rendered, settings
<1>3. CASE RunEffect
  BY <1>3, StandsStill DEF RunEffect, settings
<1>4. CASE StartOrPause
  <2>1. elapsedMs' = Elapsed /\ stopLatencyMs' = stopLatencyMs
    BY <1>4 DEF StartOrPause, Clicked, Rendered, settings
  <2>2. CASE started
    BY <1>4, <2>1, <2>2, ClickPictures DEF StartOrPause, Begun
  <2>3. CASE ~started
    <3>1. started' /\ elapsedMs = 0 /\ elapsedMs' = 0
      BY <1>4, <2>1, <2>3, ElapsedFacts DEF StartOrPause, Begun, FieldTestOK
    <3>2. phase = "READY" /\ phase' = "EXECUTING" /\ heroPosition' = heroPosition
      BY <1>0, <2>1, <2>3, <3>1 DEF PhaseByTime, HeroByTime
    <3>3. QED
      BY <3>2 DEF StopStep, Stop!Next, Stop!Depart
  <2>4. QED
    BY <2>2, <2>3
<1>5. CASE Reset
  BY <1>5, BackToDepot DEF Reset, Fresh
<1>6. CASE InjectBlockage
  <2>1. elapsedMs < 3000 /\ started' /\ elapsedMs' = 3000 /\ stopLatencyMs' = stopLatencyMs
    BY <1>6 DEF InjectBlockage, injectEnabled, Begun, Clicked, Rendered, settings, DETECT_AT_MS
  <2>2. phase \in {"READY", "EXECUTING"}
    BY <1>0, <2>1 DEF PhaseByTime
  <2>3. phase' = "SENSOR_DETECTED"
    BY <1>0, <2>1 DEF PhaseByTime
  <2>4. heroPosition' = Stop!Obstacle
    BY <1>0, <2>1 DEF HeroByTime, Stop!Obstacle
  <2>5. QED
    BY <2>2, <2>3, <2>4 DEF StopStep, Stop!Next, Stop!Detect
<1>7. CASE SetSpeed
  BY <1>7, ClickPictures DEF SetSpeed, Clicked, Rendered
<1>8. CASE SetMapMode
  BY <1>8, ClickPictures DEF SetMapMode, Clicked, Rendered
<1>9. CASE SetStopLatency
  BY <1>9, NothingStarted DEF SetStopLatency
<1>10. CASE SetCloudMode
  BY <1>10, ClickPictures DEF SetCloudMode, Clicked, Rendered
<1>11. CASE ExportRehearsal
  BY <1>11, StandsStill DEF ExportRehearsal, settings, clock
<1>12. CASE Back
  BY <1>12, BackToDepot DEF Back, Fresh
<1>13. CASE Open
  BY <1>13, StandsStill DEF Open, settings, clock
<1>14. CASE UNCHANGED vars
  BY <1>14, StandsStill DEF vars, settings, clock
<1>15. QED
  BY <1>1, <1>2, <1>3, <1>4, <1>5, <1>6, <1>7, <1>8, <1>9, <1>10, <1>11, <1>12, <1>13, <1>14
     DEF Next, Machinery, Operator

\* However late the timer's ticks are rendered and whatever is clicked, the pictures
\* show a safe stop: drive, stand, replan, and only then round the obstacle.
THEOREM RehearsalIsASafeStop == Spec => ImplementsSafeStop
<1>1. Init => Stop!Init
  BY StopInit
<1>2. FieldTestOK /\ FieldTestOK' /\ [Next]_vars => [Stop!Next]_(Stop!vars)
  BY StopNext DEF StopStep
<1>3. QED
  BY <1>1, <1>2, RehearsalKeepsShape, PTL DEF Spec, ImplementsSafeStop, Stop!Spec

-----------------------------------------------------------------------------
(* The exported evidence.                                                   *)

\* Why an export stays true: it is only made at the end, where nothing moves and no
\* setting it speaks of can be changed any more.
FileTells ==
    file # NoFile =>
        /\ started /\ elapsedMs = completeAtMs
        /\ file.synthetic_sensor_to_stop_ms = stopLatencyMs
        /\ file.cloud_mode = cloudMode
        /\ file.a06_cloud_disconnect_precedes_detection <=> cloudMode = "DISCONNECTED_BEFORE_OBSTACLE"
        /\ file.a06_sensor_to_stationary_at_most_200_ms <=> stopLatencyMs <= 200
        /\ file.usable_without_hardware <=> a06SimulationPassed
        /\ file.a06_simulation_passed <=> a06SimulationPassed
        /\ file.events = events

LEMMA CompletedMeans ==
    ASSUME FieldTestOK
    PROVE  phase = "COMPLETED" <=> started /\ elapsedMs = completeAtMs
<1>1. /\ stopLatencyMs \in Nat /\ elapsedMs \in Nat /\ started \in BOOLEAN
      /\ completeAtMs = stopLatencyMs + 7700 /\ elapsedMs <= completeAtMs
  BY Times
<1>2. QED
  BY <1>1, PhaseFacts DEF PhaseByTime

LEMMA FileStays ==
    ASSUME FileTells, file' = file,
           file # NoFile => UNCHANGED <<started, elapsedMs, stopLatencyMs, cloudMode>>
    PROVE  FileTells'
<1> SUFFICES ASSUME file' # NoFile PROVE FileTells'
  BY DEF FileTells
<1>1. UNCHANGED <<started, elapsedMs, stopLatencyMs, cloudMode, file>>
  OBVIOUS
<1>2. completeAtMs' = completeAtMs /\ events' = events
  BY <1>1 DEF completeAtMs, events
<1>3. phase' = phase
  BY <1>1 DEF phase
<1>4. a06SimulationPassed' <=> a06SimulationPassed
  BY <1>1, <1>3 DEF a06SimulationPassed
<1>5. QED
  BY <1>1, <1>2, <1>4 DEF FileTells

\* A click that renders the queue adds nothing at the end.
LEMMA EndIsStill ==
    ASSUME FieldTestOK, FileTells, file # NoFile, elapsedMs' = Elapsed
    PROVE  elapsedMs' = elapsedMs
<1>1. elapsedMs = completeAtMs /\ completeAtMs \in Nat
  BY Times DEF FileTells
<1>2. Elapsed \in 0 .. completeAtMs /\ elapsedMs <= Elapsed
  BY ElapsedFacts
<1>3. QED
  BY <1>1, <1>2

LEMMA FileStep == FieldTestOK /\ FileTells /\ [Next]_vars => FileTells'
<1> SUFFICES ASSUME FieldTestOK, FileTells, [Next]_vars PROVE FileTells'
  OBVIOUS
<1>0. file # NoFile => phase = "COMPLETED" /\ started /\ started = TRUE
  BY CompletedMeans DEF FileTells, FieldTestOK
<1>1. CASE Tick
  BY <1>1, FileStays DEF Tick, settings
<1>2. CASE Render
  BY <1>2, EndIsStill, FileStays DEF Render, Rendered, settings
<1>3. CASE RunEffect
  BY <1>3, FileStays DEF RunEffect, settings
<1>4. CASE StartOrPause
  BY <1>0, <1>4, FileStays DEF StartOrPause, startButton
<1>5. CASE Reset
  BY <1>5 DEF Reset, Fresh, FileTells
<1>6. CASE InjectBlockage
  BY <1>0, <1>6, FileStays DEF InjectBlockage, injectEnabled
<1>7. CASE SetSpeed
  BY <1>7, EndIsStill, FileStays DEF SetSpeed, Clicked, Rendered
<1>8. CASE SetMapMode
  BY <1>8, EndIsStill, FileStays DEF SetMapMode, Clicked, Rendered
<1>9. CASE SetStopLatency
  BY <1>0, <1>9, FileStays DEF SetStopLatency
<1>10. CASE SetCloudMode
  BY <1>0, <1>10, FileStays DEF SetCloudMode
<1>11. CASE ExportRehearsal
  <2>1. UNCHANGED <<started, elapsedMs, stopLatencyMs, cloudMode>> /\ file' = evidence
    BY <1>11 DEF ExportRehearsal, downloadJson, settings, clock
  <2>2. started /\ elapsedMs = completeAtMs /\ phase = "COMPLETED"
    BY <1>11, CompletedMeans DEF ExportRehearsal
  <2>3. phase' = phase /\ completeAtMs' = completeAtMs /\ events' = events
    BY <2>1 DEF phase, completeAtMs, events
  <2>4. a06SimulationPassed' <=> a06SimulationPassed
    BY <2>1, <2>3 DEF a06SimulationPassed
  <2>5. /\ evidence.synthetic_sensor_to_stop_ms = stopLatencyMs
        /\ evidence.cloud_mode = cloudMode
        /\ evidence.events = events
    BY DEF evidence
  <2>6. evidence.a06_cloud_disconnect_precedes_detection <=> cloudMode = "DISCONNECTED_BEFORE_OBSTACLE"
    BY DEF evidence
  <2>7. evidence.a06_sensor_to_stationary_at_most_200_ms <=> stopLatencyMs <= 200
    BY DEF evidence
  <2>8. evidence.a06_simulation_passed <=> a06SimulationPassed
    BY DEF evidence
  <2>9. evidence.usable_without_hardware <=> a06SimulationPassed
    BY <2>2 DEF evidence, a07SimulationPassed
  <2>10. QED
    BY <2>1, <2>2, <2>3, <2>4, <2>5, <2>6, <2>7, <2>8, <2>9 DEF FileTells
<1>12. CASE Back
  BY <1>12 DEF Back, Fresh, FileTells
<1>13. CASE Open
  BY <1>13, FileStays DEF Open, settings, clock
<1>14. CASE UNCHANGED vars
  BY <1>14, FileStays DEF vars, settings, clock
<1>15. QED
  BY <1>1, <1>2, <1>3, <1>4, <1>5, <1>6, <1>7, <1>8, <1>9, <1>10, <1>11, <1>12, <1>13, <1>14
     DEF Next, Machinery, Operator

LEMMA ExportIsTrue == FieldTestOK /\ FileTells => ExportTellsTheRun
<1> SUFFICES ASSUME FieldTestOK, FileTells, file # NoFile PROVE ExportTellsTheRun
  BY DEF ExportTellsTheRun
<1> DEFINE at(kind) == CHOOSE ms \in {e[2] : e \in file.events} : <<kind, ms>> \in file.events
           disconnected == \E e \in file.events :
               e[1] = "network.cloud_disconnected" /\ e[2] < at("sensor.filtered_obstacle")
           inTime == at("agv.stationary_confirmed") - at("sensor.filtered_obstacle") <= 200
<1>1. /\ stopLatencyMs \in Nat /\ file.events = events /\ started
      /\ phase = "COMPLETED"
  BY Times, CompletedMeans DEF FileTells
<1>2. \A kind, ms : <<kind, ms>> \in events <=>
        \/ kind = "mission.started" /\ ms = 0
        \/ /\ kind = IF cloudMode = "DISCONNECTED_BEFORE_OBSTACLE" THEN "network.cloud_disconnected"
                     ELSE "network.cloud_retained"
           /\ ms = 2600
        \/ kind = "sensor.raw_detected" /\ ms = 2900
        \/ kind = "sensor.filtered_obstacle" /\ ms = 3000
        \/ kind = "edge.stop_issued" /\ ms = 3012
        \/ kind = "agv.stationary_confirmed" /\ ms = 3000 + stopLatencyMs
        \/ kind = "replan.accepted" /\ ms = 3850 + stopLatencyMs
        \/ kind = "mission.resumed" /\ ms = 4750 + stopLatencyMs
        \/ kind = "mission.completed" /\ ms = 7700 + stopLatencyMs
  <2>1. /\ DETECT_AT_MS = 3000 /\ DETECT_AT_MS + 12 = 3012
        /\ DETECT_AT_MS + stopLatencyMs = 3000 + stopLatencyMs
        /\ (DETECT_AT_MS + stopLatencyMs) + 850 = 3850 + stopLatencyMs
        /\ (DETECT_AT_MS + stopLatencyMs) + 1750 = 4750 + stopLatencyMs
        /\ (DETECT_AT_MS + stopLatencyMs) + 4700 = 7700 + stopLatencyMs
    BY <1>1 DEF DETECT_AT_MS
  <2>2. QED
    BY <2>1 DEF events, schedule
<1>3. at("sensor.filtered_obstacle") = 3000
  <2>1. <<"sensor.filtered_obstacle", 3000>> \in file.events
    BY <1>1, <1>2
  <2>2. \A ms : <<"sensor.filtered_obstacle", ms>> \in file.events => ms = 3000
    BY <1>1, <1>2
  <2>3. 3000 \in {e[2] : e \in file.events}
    BY <2>1
  <2>4. QED
    BY <2>1, <2>2, <2>3
<1>4. at("agv.stationary_confirmed") = 3000 + stopLatencyMs
  <2> DEFINE due == 3000 + stopLatencyMs
  <2>1. <<"agv.stationary_confirmed", due>> \in file.events
    BY <1>1, <1>2
  <2>2. \A ms : <<"agv.stationary_confirmed", ms>> \in file.events => ms = due
    BY <1>1, <1>2
  <2> HIDE DEF due
  <2>3. due \in {e[2] : e \in file.events}
    BY <2>1
  <2>4. at("agv.stationary_confirmed") = due
    BY <2>1, <2>2, <2>3
  <2>5. QED
    BY <2>4 DEF due
<1> HIDE DEF at
<1>5. disconnected <=> cloudMode = "DISCONNECTED_BEFORE_OBSTACLE"
  <2>1. ASSUME cloudMode = "DISCONNECTED_BEFORE_OBSTACLE" PROVE disconnected
    <3>1. <<"network.cloud_disconnected", 2600>> \in file.events
      BY <1>1, <1>2, <2>1
    <3>2. QED
      BY <1>3, <3>1
  <2>2. ASSUME disconnected PROVE cloudMode = "DISCONNECTED_BEFORE_OBSTACLE"
    <3>1. PICK e \in events : e[1] = "network.cloud_disconnected"
      BY <1>1, <2>2
    <3>2. QED
      BY <3>1 DEF events, schedule
  <2>3. QED
    BY <2>1, <2>2
<1>6. inTime <=> stopLatencyMs <= 200
  BY <1>1, <1>3, <1>4
<1>7. a06SimulationPassed <=> disconnected /\ inTime
  BY <1>1, <1>5, <1>6 DEF a06SimulationPassed
<1>8. run.latency = stopLatencyMs /\ run.cloud = cloudMode
  BY <1>1 DEF FieldTestOK
<1>9. gates.A06 = "SIMULATION PASS" <=> a06SimulationPassed
  BY GatesFacts
<1> HIDE DEF disconnected, inTime
<1>10. /\ file.synthetic_sensor_to_stop_ms = run.latency
       /\ file.cloud_mode = run.cloud
       /\ file.a06_cloud_disconnect_precedes_detection <=> disconnected
       /\ file.a06_sensor_to_stationary_at_most_200_ms <=> inTime
       /\ file.usable_without_hardware <=> disconnected /\ inTime
       /\ gates.A06 = "SIMULATION PASS" <=> file.a06_simulation_passed
  BY <1>5, <1>6, <1>7, <1>8, <1>9 DEF FileTells
<1>11. QED
  BY <1>10 DEF ExportTellsTheRun, at, disconnected, inTime

\* A downloaded file never says of a run what its screen and its events do not.
THEOREM ExportsAreTrue == Spec => []ExportTellsTheRun
<1>1. Init => FileTells
  BY DEF Init, FileTells
<1>2. QED
  BY <1>1, FileStep, ExportIsTrue, RehearsalKeepsShape, PTL DEF Spec
=============================================================================
