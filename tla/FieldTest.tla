------------------------------ MODULE FieldTest ------------------------------
(***************************************************************************)
(* The A06/A07 Digital Twin Lab (field-test-simulator.tsx): a rehearsal of  *)
(* a local safe stop that an interval timer moves and an operator starts,   *)
(* pauses, disturbs, resets and exports.                                    *)
(*                                                                          *)
(* The component runs under React.  A timer's setState calls wait until the *)
(* next render; a click's are rendered, and its effects run, before the     *)
(* next event.  So the variables hold what was last rendered, ticks counts  *)
(* the updates the timer has queued since, handlers read the rendered       *)
(* values, and functional updates read what the queue has made of them.     *)
(* Times are milliseconds, as in the code.                                  *)
(***************************************************************************)
EXTENDS Integers, FiniteSets

CONSTANTS
    Speeds,         \* the playback speeds on offer
    Latencies,      \* the synthetic sensor-to-stop times on offer
    MaxTicks        \* the timer fires at most so often between two renders

ASSUME LabAssumption ==
    /\ Speeds \subseteq {1, 2, 4}
    /\ 1 \in Speeds
    /\ Latencies \subseteq {84, 150, 240}
    /\ 150 \in Latencies
    /\ MaxTicks \in 1..4

Phase == {"READY", "EXECUTING", "SENSOR_DETECTED", "SAFE_STOP", "REPLANNING", "RESUMED", "COMPLETED"}
CloudMode == {"DISCONNECTED_BEFORE_OBSTACLE", "CONNECTED"}
DETECT_AT_MS == 3000

NoFile == [about |-> "nothing"]
NoRun == [about |-> "nothing"]

VARIABLES
    open,               \* the console shows the lab, so it is mounted
    started,
    running,
    elapsedMs,
    speed,
    stopLatencyMs,
    cloudMode,
    mapMode,
    sessionStartedAt,   \* whether it holds a time
    timer,              \* whether an interval is set
    ticks,              \* updates the timer has queued since the last render
    eager,              \* React has evaluated the first of them already
    file,               \* the last evidence downloaded for the run on the screen
    run                 \* history: the settings under which that run was started

settings == <<speed, stopLatencyMs, cloudMode, mapMode>>
clock == <<running, elapsedMs, timer, ticks, eager>>
vars == <<open, started, sessionStartedAt, settings, clock, file, run>>

-----------------------------------------------------------------------------
(* The run's timetable, as each part of the component works it out.         *)

\* What the timeline lists, with the time it is due.
schedule(latency, mode) ==
    LET stationaryAt == DETECT_AT_MS + latency
    IN {<<"mission.started", 0>>,
        <<IF mode = "DISCONNECTED_BEFORE_OBSTACLE" THEN "network.cloud_disconnected"
          ELSE "network.cloud_retained", 2600>>,
        <<"sensor.raw_detected", 2900>>,
        <<"sensor.filtered_obstacle", DETECT_AT_MS>>,
        <<"edge.stop_issued", DETECT_AT_MS + 12>>,
        <<"agv.stationary_confirmed", stationaryAt>>,
        <<"replan.accepted", stationaryAt + 850>>,
        <<"mission.resumed", stationaryAt + 1750>>,
        <<"mission.completed", stationaryAt + 4700>>}

events == schedule(stopLatencyMs, cloudMode)

\* The time of the timetable's last entry.
completeAtMs == DETECT_AT_MS + stopLatencyMs + 4700

visibleEvents == {e[1] : e \in {d \in events : started /\ d[2] <= elapsedMs}}

phaseAt(elapsed, begun, latency) ==
    LET stationaryAt == DETECT_AT_MS + latency
    IN IF ~begun THEN "READY"
       ELSE IF elapsed < DETECT_AT_MS THEN "EXECUTING"
       ELSE IF elapsed < stationaryAt THEN "SENSOR_DETECTED"
       ELSE IF elapsed < stationaryAt + 850 THEN "SAFE_STOP"
       ELSE IF elapsed < stationaryAt + 1750 THEN "REPLANNING"
       ELSE IF elapsed < stationaryAt + 4700 THEN "RESUMED"
       ELSE "COMPLETED"

phase == phaseAt(elapsedMs, started, stopLatencyMs)

\* A place on a route: how far along it, clamped to its ends.  The detour sets out
\* from the node where the route to the obstacle ends.
pointAlong(route, done, of) ==
    IF route = "B" /\ done <= 0 THEN [route |-> "A", done |-> DETECT_AT_MS]
    ELSE [route |-> route, done |-> IF done < 0 THEN 0 ELSE IF done > of THEN of ELSE done]

\* A slip: the vehicle sets off when the route is accepted, not when it is resumed.
heroPosition_OnReplan ==
    LET resumeAt == DETECT_AT_MS + stopLatencyMs + 850
    IN IF elapsedMs <= DETECT_AT_MS THEN pointAlong("A", elapsedMs, DETECT_AT_MS)
       ELSE IF elapsedMs < resumeAt THEN pointAlong("A", DETECT_AT_MS, DETECT_AT_MS)
       ELSE pointAlong("B", elapsedMs - resumeAt, completeAtMs - resumeAt)

heroPosition ==
    LET resumeAt == DETECT_AT_MS + stopLatencyMs + 1750
    IN IF elapsedMs <= DETECT_AT_MS THEN pointAlong("A", elapsedMs, DETECT_AT_MS)
       ELSE IF elapsedMs < resumeAt THEN pointAlong("A", DETECT_AT_MS, DETECT_AT_MS)
       ELSE pointAlong("B", elapsedMs - resumeAt, completeAtMs - resumeAt)

a06SimulationPassed ==
    /\ phase = "COMPLETED"
    /\ stopLatencyMs <= 200
    /\ cloudMode = "DISCONNECTED_BEFORE_OBSTACLE"

a07SimulationPassed == phase = "COMPLETED"

-----------------------------------------------------------------------------
(* The screen: what each part of it shows, and which buttons can be used.   *)

SimulatorMetric(value, tone) == [value |-> value, tone |-> tone]
metrics ==
    [phase |-> SimulatorMetric(phase, "cyan"),
     elapsed |-> SimulatorMetric(elapsedMs, "slate"),
     cloud |-> IF cloudMode = "DISCONNECTED_BEFORE_OBSTACLE"
               THEN SimulatorMetric("DISCONNECTED", "emerald")
               ELSE SimulatorMetric("CONNECTED", "rose"),
     synthetic_stop |-> SimulatorMetric(stopLatencyMs, IF stopLatencyMs <= 200 THEN "emerald" ELSE "rose")]

\* A slip: the detour is drawn as soon as the vehicle stands.
detourDrawn_OnStop == elapsedMs >= DETECT_AT_MS + stopLatencyMs
detourDrawn == elapsedMs >= DETECT_AT_MS + stopLatencyMs + 850
blockageDrawn == elapsedMs >= DETECT_AT_MS /\ phase # "COMPLETED"

\* The vehicles of the traffic loop: their numbers, and how many 80000ths of it each has gone.
trafficDrawn ==
    {[agv |-> i + (IF i >= 2 THEN 2 ELSE 1), gone |-> (8 * elapsedMs + 10000 * i) % 80000] : i \in 0..7}

mapCard ==
    [tilted |-> mapMode = "3D",
     detour |-> detourDrawn,
     blockage |-> blockageDrawn,
     traffic |-> trafficDrawn,
     hero |-> heroPosition]

cloudPath == IF cloudMode = "DISCONNECTED_BEFORE_OBSTACLE" THEN "DISCONNECTS AT +2600 MS" ELSE "CONNECTED CONTROL"
GateStatus(passed) == IF passed THEN "SIMULATION PASS" ELSE "NOT RUN"
gates == [A06 |-> GateStatus(a06SimulationPassed), A07 |-> GateStatus(a07SimulationPassed)]
timelineShown == IF visibleEvents = {} THEN {"Run the rehearsal to emit synthetic events."} ELSE visibleEvents

startButton ==
    [label |-> IF running THEN "Pause" ELSE IF started THEN "Continue" ELSE "Run simulation",
     enabled |-> phase # "COMPLETED"]
injectEnabled == phase # "COMPLETED" /\ elapsedMs < DETECT_AT_MS
downloadEnabled == phase = "COMPLETED"

\* The export, without its fixed text: what it says of the run, and its events.
evidence ==
    [about |-> "run",
     usable_without_hardware |-> a06SimulationPassed /\ a07SimulationPassed,
     map_mode |-> mapMode,
     speed_multiplier |-> speed,
     synthetic_sensor_to_stop_ms |-> stopLatencyMs,
     cloud_mode |-> cloudMode,
     a06_simulation_passed |-> a06SimulationPassed,
     a06_cloud_disconnect_precedes_detection |-> cloudMode = "DISCONNECTED_BEFORE_OBSTACLE",
     a06_sensor_to_stationary_at_most_200_ms |-> stopLatencyMs <= 200,
     a07_simulation_passed |-> a07SimulationPassed,
     events |-> events]

-----------------------------------------------------------------------------
(* React: what the queued updates come to when they are rendered.           *)

\* setElapsedMs's updater, applied once for every queued tick.
Elapsed ==
    LET next == elapsedMs + 50 * speed * ticks
    IN IF next < completeAtMs THEN next ELSE completeAtMs

\* A tick that arrives at the end calls setRunning(false) from inside its updater:
\* ahead of later clicks when React evaluates the updater at once,
\* after them when it evaluates it in the render.
StoppedAhead == eager /\ elapsedMs + 50 * speed >= completeAtMs
StoppedBehind == ticks > (IF eager THEN 1 ELSE 0) /\ Elapsed >= completeAtMs

\* What a click's update of running finds, and what is rendered after it.
Running == running /\ ~StoppedAhead
\* A slip: nothing stops the timer at the end.
Settled_Never(on) == on
Settled(on) == on /\ ~StoppedBehind

Rendered(on, at) ==
    /\ running' = Settled(on)
    /\ elapsedMs' = at
    /\ ticks' = 0
    /\ eager' = FALSE

\* After a click the effect runs at once: it clears the interval and sets a new one if running.
Clicked(on, at) == Rendered(on, at) /\ timer' = running'

Begun ==
    IF started THEN UNCHANGED <<started, sessionStartedAt, run>>
    ELSE /\ started' = TRUE
         /\ sessionStartedAt' = TRUE
         /\ run' = [about |-> "run", latency |-> stopLatencyMs, cloud |-> cloudMode]

Fresh ==
    /\ started' = FALSE
    /\ sessionStartedAt' = FALSE
    /\ file' = NoFile
    /\ run' = NoRun

Init ==
    /\ open = TRUE
    /\ started = FALSE
    /\ running = FALSE
    /\ elapsedMs = 0
    /\ speed = 1
    /\ stopLatencyMs = 150
    /\ cloudMode = "DISCONNECTED_BEFORE_OBSTACLE"
    /\ mapMode = "2D"
    /\ sessionStartedAt = FALSE
    /\ timer = FALSE
    /\ ticks = 0
    /\ eager = FALSE
    /\ file = NoFile
    /\ run = NoRun

-----------------------------------------------------------------------------
\* The interval fires and queues its updater.
Tick ==
    /\ timer
    /\ ticks < MaxTicks
    /\ ticks' = ticks + 1
    /\ IF ticks = 0 THEN eager' \in BOOLEAN ELSE UNCHANGED eager
    /\ UNCHANGED <<open, started, sessionStartedAt, settings, running, elapsedMs, timer, file, run>>

\* React renders what the timer has queued; the effect runs later.
Render ==
    /\ ticks > 0
    /\ Rendered(Running, Elapsed)
    /\ UNCHANGED <<open, started, sessionStartedAt, settings, timer, file, run>>

RunEffect ==
    /\ timer # running
    /\ timer' = running
    /\ UNCHANGED <<open, started, sessionStartedAt, settings, running, elapsedMs, ticks, eager, file, run>>

StartOrPause ==
    /\ open /\ startButton.enabled
    /\ Begun
    /\ Clicked(~Running, Elapsed)
    /\ UNCHANGED <<open, settings, file>>

\* A slip: the clock keeps its time.
Reset_KeepsTime ==
    /\ open
    /\ Fresh
    /\ Clicked(FALSE, Elapsed)
    /\ UNCHANGED <<open, settings>>

Reset ==
    /\ open
    /\ Fresh
    /\ Clicked(FALSE, 0)
    /\ UNCHANGED <<open, settings>>

InjectBlockage ==
    /\ open /\ injectEnabled
    /\ Begun
    /\ Clicked(TRUE, IF elapsedMs < DETECT_AT_MS THEN DETECT_AT_MS ELSE Elapsed)
    /\ UNCHANGED <<open, settings, file>>

SetSpeed ==
    /\ open
    /\ speed' \in Speeds
    /\ Clicked(Running, Elapsed)
    /\ UNCHANGED <<open, started, sessionStartedAt, stopLatencyMs, cloudMode, mapMode, file, run>>

SetMapMode ==
    /\ open
    /\ mapMode' \in {"2D", "3D"}
    /\ Clicked(Running, Elapsed)
    /\ UNCHANGED <<open, started, sessionStartedAt, speed, stopLatencyMs, cloudMode, file, run>>

\* A slip: the buttons stay usable during the run.
SetStopLatency_AnyTime ==
    /\ open
    /\ stopLatencyMs' \in Latencies
    /\ Clicked(Running, Elapsed)
    /\ UNCHANGED <<open, started, sessionStartedAt, speed, cloudMode, mapMode, file, run>>

SetStopLatency ==
    /\ open /\ ~started
    /\ stopLatencyMs' \in Latencies
    /\ Clicked(Running, Elapsed)
    /\ UNCHANGED <<open, started, sessionStartedAt, speed, cloudMode, mapMode, file, run>>

SetCloudMode ==
    /\ open /\ ~started
    /\ cloudMode' \in CloudMode
    /\ Clicked(Running, Elapsed)
    /\ UNCHANGED <<open, started, sessionStartedAt, speed, stopLatencyMs, mapMode, file, run>>

\* The browser saves a file.
downloadJson(content) == file' = content

\* The handler sets no state, so nothing is rendered.
ExportRehearsal ==
    /\ open /\ downloadEnabled
    /\ phase = "COMPLETED" /\ sessionStartedAt
    /\ downloadJson(evidence)
    /\ UNCHANGED <<open, started, sessionStartedAt, settings, clock, run>>

\* onBack: the console leaves the view, the lab is unmounted and its state is gone.
Back ==
    /\ open
    /\ open' = FALSE
    /\ Fresh
    /\ running' = FALSE /\ elapsedMs' = 0 /\ timer' = FALSE /\ ticks' = 0 /\ eager' = FALSE
    /\ speed' = 1 /\ stopLatencyMs' = 150
    /\ cloudMode' = "DISCONNECTED_BEFORE_OBSTACLE" /\ mapMode' = "2D"

Open ==
    /\ ~open
    /\ open' = TRUE
    /\ UNCHANGED <<started, sessionStartedAt, settings, clock, file, run>>

Machinery == Tick \/ Render \/ RunEffect

Operator ==
    \/ StartOrPause \/ Reset \/ InjectBlockage
    \/ SetSpeed \/ SetMapMode \/ SetStopLatency \/ SetCloudMode
    \/ ExportRehearsal \/ Back \/ Open

Next == Machinery \/ Operator

Spec == Init /\ [][Next]_vars

\* The browser fires a set interval, and React renders and runs effects, sooner or
\* later; nothing is assumed of the operator.
FairSpec == Spec /\ WF_vars(Tick) /\ WF_vars(Render) /\ WF_vars(RunEffect)

-----------------------------------------------------------------------------
(* What is checked.                                                         *)

\* The shape of the state: a rehearsal is on exactly when its session is, a lab
\* without one stands at its beginning, no time passes beyond the last event, and the
\* latency and the cloud path on the screen are those the run was started with.
FieldTestOK ==
    /\ {open, started, running, sessionStartedAt, timer, eager} \subseteq BOOLEAN
    /\ elapsedMs \in 0..completeAtMs
    /\ speed \in Speeds /\ stopLatencyMs \in Latencies
    /\ cloudMode \in CloudMode /\ mapMode \in {"2D", "3D"}
    /\ ticks \in 0..MaxTicks /\ (eager => ticks > 0)
    /\ started <=> sessionStartedAt
    /\ ~started => elapsedMs = 0 /\ ~running /\ ~timer /\ ticks = 0 /\ run = NoRun
    /\ started => run = [about |-> "run", latency |-> stopLatencyMs, cloud |-> cloudMode]
    /\ ~open => ~started

listed(kind) == kind \in timelineShown
obstacle == [route |-> "A", done |-> DETECT_AT_MS]

PhaseAgrees ==
    /\ listed("mission.started") <=> metrics.phase.value # "READY"
    /\ listed("sensor.filtered_obstacle") <=> metrics.phase.value \notin {"READY", "EXECUTING"}
    /\ listed("agv.stationary_confirmed") <=>
          metrics.phase.value \notin {"READY", "EXECUTING", "SENSOR_DETECTED"}
    /\ listed("replan.accepted") <=> metrics.phase.value \in {"REPLANNING", "RESUMED", "COMPLETED"}
    /\ listed("mission.resumed") <=> metrics.phase.value \in {"RESUMED", "COMPLETED"}

MapAgrees ==
    /\ listed("replan.accepted") <=> mapCard.detour
    /\ listed("mission.completed") <=> mapCard.hero = [route |-> "B", done |-> 2950]
    /\ mapCard.hero.route = "B" => listed("mission.resumed")
    /\ mapCard.blockage => mapCard.hero = obstacle \/ mapCard.detour
    /\ listed("agv.stationary_confirmed") /\ ~listed("mission.resumed") => mapCard.hero = obstacle
    /\ {v.agv : v \in mapCard.traffic} = (1..9) \ {3}

GatesAgree ==
    /\ gates.A07 = "SIMULATION PASS" <=> listed("mission.completed")
    /\ gates.A06 = "SIMULATION PASS" <=>
          listed("mission.completed") /\ {metrics.cloud.tone, metrics.synthetic_stop.tone} = {"emerald"}
    /\ listed("network.cloud_disconnected") => metrics.cloud.value = "DISCONNECTED"

\* The component works the timetable out five times, in its timeline, its phase, its
\* map, its vehicle and its gates; whatever is clicked, they tell one story.
ScreenAgrees == PhaseAgrees /\ MapAgrees /\ GatesAgree

\* The evidence downloaded for a run tells how that run was started, and what it
\* asserts of the safety gate is what its own events show.
ExportTellsTheRun ==
    file # NoFile =>
        LET at(kind) == CHOOSE ms \in {e[2] : e \in file.events} : <<kind, ms>> \in file.events
            disconnected == \E e \in file.events :
                e[1] = "network.cloud_disconnected" /\ e[2] < at("sensor.filtered_obstacle")
            inTime == at("agv.stationary_confirmed") - at("sensor.filtered_obstacle") <= 200
        IN /\ file.synthetic_sensor_to_stop_ms = run.latency
           /\ file.cloud_mode = run.cloud
           /\ file.a06_cloud_disconnect_precedes_detection <=> disconnected
           /\ file.a06_sensor_to_stationary_at_most_200_ms <=> inTime
           /\ file.usable_without_hardware <=> disconnected /\ inTime
           /\ gates.A06 = "SIMULATION PASS" <=> file.a06_simulation_passed

\* Whoever watches the screen sees a safe stop: the vehicle never passes the obstacle
\* before the stop was confirmed and the new route accepted.
Stop == INSTANCE SafeStop WITH vehicle <- heroPosition
ImplementsSafeStop == Stop!Spec

\* A running rehearsal comes to rest, at its end if nobody pauses it; a Pause that
\* meets the last tick and starts the timer again does not keep it running.
RunEnds == running ~> ~running
=============================================================================
