# ShiftZero HERO-002: TLA+ models, checks and proofs

ShiftZero turns an operator's sentence into a pallet transport by a (simulated) AGV: a typed
intent, a deterministic plan, a safety proof, a human approval, motion, a local stop at a
blockage, a replan and a resumption. A web console replays a recorded mission, shows the evidence
for it and rehearses the safe stop. This directory specifies the parts of both that keep state,
checks them with TLC and proves the central results with TLAPS. Every definition is translated
from the code; `PROJECT.json` maps each one to its lines. Paths below are relative to the
repository root; `ms` stands for `src/shiftzero/mission_service.py`, `mc` for
`apps/web/components/mission-console.tsx`, `ft` for `apps/web/components/field-test-simulator.tsx`.

## 1. Inventory

### 1.1 The parts and how they interact

```text
HTTP request ─► api.py durable_mutation ─► SqliteOperationLedger (receipts, audit; on disk)
                     │ callback
                     ▼
               MissionService ──lock──► MissionSession ─► WorkflowState (status table)
                │    │     │                 │
     provider ◄─┘    │     └► SafetyEngine   └► SimulatorAdapter ─► ReferenceWorld
 (TokenFactory)      ▼                │
          DeterministicPlanner        └ both read one snapshot of the world
                     every step above also records in the session's EvidenceRecorder

browser: MissionConsole ─┬─ replay of a recorded mission (an interval, buttons)
                         ├─ nine evidence files, fetched once from /data
                         └─ FieldTestSimulator (an interval, controls, a file to download)
```

The web console does not call the Agent API: it shows files that were generated before.


| Part | State | Operations | What is hard |
|---|---|---|---|
| `ms` MissionService | sessions with their indexes, committed and pending keys, one re-entrant lock | create_intent, prepare_proposal, approve, reject, start, stop, replan, resume_and_complete, override_to_failed_safe | requests in any order, retried keys, stale versions, calls that raise half way, an approval that runs out, a second approval after a replan |
| `state_machine.py` WorkflowState | the statuses a session went through | transition | every path of every operation must stay in the table |
| `adapters.py` SimulatorAdapter | missions, idempotency index; vehicle and pallet of the world | start, advance, local_stop, replace_route, get | a second dispatch under one key, a stop after completion, two-node routes |
| `storage.py` SqliteOperationLedger with `api.py` durable_mutation | operation receipts and decision audit in a file | execute, append_audit, list_audit | concurrent retries, two ledger objects of one file, a busy database, a crash between any two commits |
| `evidence.py` EvidenceRecorder | a JSONL file, its last hash, a sequence number | record, call_tool, export_json, verify | records made without the service's lock, failed appends, a crash between two steps |
| `agent.py` TokenFactoryProvider | consecutive failures, time until which the circuit is open | parse_intent, propose_transport, recover_from_blockage over `_call_tool` | retries within repairs within a budget, refusals, a breaker that must open and must close |
| `simulator.py` DeterministicPlanner, ReferenceWorld | a heap and distances; the world | plan, snapshot, build_hero_scenario | ties in the heap, nodes met twice, obstacles that time out |
| `safety.py` SafetyEngine | none between calls | verify, verify_replan | a filter of obstacles that differs from the planner's; rings in the wait-for graph |
| `workflow.py` WorkflowController | one run's mission, session and trace | run_hero | the same life cycle as MissionService's, in one call |
| `auth.py`, `domain.py`, `config.py` | none | token signing, field validation, settings | stateless |
| reports (`evaluation.py`, `reliability.py`, `bundle.py`, ...) | none | batch computations over recorded runs | sequential |
| `ft` FieldTestSimulator | started, running, time passed, settings; an interval | start/pause, reset, inject, speed, latency, cloud, map, export, back | timer ticks queued behind clicks, an interval that is set up anew, a completing tick against a pause |
| `mc` MissionConsole | the replay's step, decision and view; nine files and one error flag | run, approve/reject/stop, the views; fetches | a second run over the first one's interval, decisions against queued steps, fetches that fail late |
| `apps/web/components/ui` | the sidebar's state and listener, the carousel's flags | toggles, resizes, engine events | handlers that close over an earlier render, events before the effects that listen |

### 1.2 What makes each part correct

- **MissionService.** A vehicle moves only under an approver's token and an EXECUTING workflow,
  whichever operation failed how (three failed records excepted, section 2.1); what `stop` left is what `replan` and `resume` find; a proposal
  dispatches once; COMPLETED means delivered; one operation commits per version; a terminal
  session is left alone.
- **Ledger.** An operation takes effect at most once, all its callers get one answer, an orphaned
  receipt is never taken over, the audit names only what was committed, nobody waits for ever.
- **Recorder.** An intact trace verifies, a lost span is noticed, references lead to spans, and a
  failed write takes no more with it than its own line.
- **Provider.** Retries and time of a call are bounded; the breaker is one; it lets calls try again.
- **Planner and safety engine.** The route is a shortest one, a refusal is justified, the two
  parts agree on obstacles, the deadlock check refuses every vehicle of a cycle and nobody who may
  yet move, and both loops end.

- **Field-test simulator.** What it shows is a safe stop: up to the obstacle, a stand, a new route,
  then the detour. Its five computations of the timetable agree, an exported file tells the run
  that was shown, a run ends.
- **Console.** There is one interval, the replay does not run backwards, the parts of the view tell
  one mission, a failed fetch shows, a claim is not withdrawn.
- **UI kit.** A toggle shows or hides something, layout and buttons come to fit window and engine,
  a chart and a field say what they were given, once.

`PROJECT.json` lists the hazards behind these at their lines.

## 2. The modules

| Module | Models | Lines of code |
|---|---|---|
| `WorkflowState` | statuses and transition table | `state_machine.py` |
| `SimulatorAdapter` | the adapter's methods, as operators from an adapter record to the next | `adapters.py` 26-113 |
| `MissionService` | the service: one action per operation. Extends both | `ms` 45-867 |
| `MotionAuthority` | **abstract**: what the service promises about motion, without workflow, adapter and keys | |
| `OperationLedger` | a request's thread from the handler to the answer, one action per lock or database step | `storage.py`, `api.py` 97-189 |
| `OnceOnly` | **abstract**: what the ledger promises to whoever sends a request, without threads, locks and database | |
| `EvidenceTrace` | the recorder and the threads that record, one action per step of `record` | `evidence.py`, `ms` 743-751 |
| `TokenFactory` | `_call_tool`: retries, repair, budget, breaker | `agent.py` 147-486 |
| `CircuitBreaker` | **abstract**: a circuit breaker, without retries, budgets and clocks | |
| `RoutePlanner` | `_shortest_path`, one pop of the heap at a time; and the reference it is compared with, an enumeration of all ways | `simulator.py` 167-279 |
| `SafetyEngine` | node checks and the deadlock walk on the route found. Extends `RoutePlanner` | `safety.py` 31-217 |
| `FieldTest` | the rehearsal: interval, queue of updates, every control, the screen, the export | `ft` |
| `SafeStop` | **abstract**: what whoever watches a rehearsal sees, as phase and place | |
| `HeroReplay` | the replay of the recorded mission and the view that shows it | `mc` 34-35, 248-346, 416-438, 507-547, 859-1344 |
| `EvidenceBoard` | the fetches and the cards of the evidence view | `mc` 37-246, 421-506, 549-673, 1476-2300 |
| `MissionConsole` | both on one page. Extends them | `mc` 734-858 |
| `Sidebar`, `Carousel`, `Chart`, `Form` | the components of the kit that decide something | `sidebar.tsx`, `use-mobile.ts`, `carousel.tsx`, `chart.tsx`, `field.tsx` |
| `InOrder` | the members of a list at given positions, in the order of the list; for `Chart` and `Form` | |
| `UiKit` | a page with one of the four. Extends them | |
| `MC*` | the instances TLC checks | |
| `*Proofs` | the theorems | |

### 2.1 `MissionService`

`session[s]` is the `MissionSession` record (with the indexes that point to it), `adapter[s]` its
adapter and world, `operations` the service's committed `(name, key)` pairs. Every mutating method
runs from first to last line inside `with self._lock`, so each is **one action**, with a disjunct
for every way it can leave the session changed: `Finish` (committed, one version on, key consumed)
or `Raise` (an exception after a status was already written; version and key untouched). So
`Prepare` has disjuncts for a planner that finds nothing, a provider that raises after OBSERVED or
after PLANNED, and a failed proof; `Start` for an expired token, for a first dispatch, and for a
dispatch that the adapter answers with an earlier mission; `Stop` for an id the adapter does not
hold. Every `recorder.record` may raise too (a full disk), and each operation has a disjunct for
every place where that leaves something new: a proposal with its proof but not yet in the index, a
token without the status or the mission, a stopped vehicle under BLOCKED, any node of a resumed
route. A call that raises before it changes anything, and a replay, are stuttering steps.

Three of these records stand between a status and the command to the vehicle that belongs to it,
and the workflow then no longer tells what the vehicle does (`LoseTrack`; the history variable
`adrift` holds the sessions this has happened to):

- `ms` 437, after BLOCKED and before `local_stop` (442): BLOCKED, and the vehicle drives on. An id
  the adapter does not hold has the same outcome.
- `ms` 380 by `evidence.py` 79, after `adapter.start`: the vehicle drives under APPROVED. A retry
  finds the mission dispatched and goes on; once the token has run out it closes it FAILED_SAFE.
- `ms` 602 by `evidence.py` 79, after `replace_route`: the vehicle drives under VERIFIED, which
  `override` may close, and which `resume` accepts but the adapter, no longer at SAFE_STOP, does
  not.

`MotionIsAttended`, `StoppedUntilResumed` and `MotionAuthority` name `adrift` where they let go of
something, so what they say is that **nothing but** these three windows loses a vehicle: even then
it drives the adapter's one mission, SAFE_STOP and REPLANNING mean that it stands, nothing sets off
without an approval in force, and a closed mission is left alone. Run `blockage` records the first
window.

Abstractions: a route is its number of nodes; fingerprints only choose between replay and
conflict, neither of which changes anything; `ApprovalExpires` may happen at any time; an id of a
mission is its number within the session; the safety verdict is a choice (its substance is in
`SafetyEngine`). What a failed record leaves in the file is in `EvidenceTrace`. `proof`, `view`, `trace`, `metrics` only read; the span that `status` records is
in `EvidenceTrace`.

### 2.2 `OperationLedger`

A thread goes `sent → insert → call → view → commit → audit → ok`, or to `refused`, `failed`
(through `undo` when the callback raised) or `lost` (killed). A receipt row is `ABSENT`, `PENDING`
or `COMMITTED`. The ledger's lock is held from `Look` to `Insert` and within `Commit`, `Undo` and
`AppendAudit`; **not** while the callback runs. `operation_ledger()` creates the ledger on first
use without a lock, so threads may hold different `Ledger` objects, and locks, of one file; the
primary key is then the only protection. The callback has no idempotency of its own here
(`create_intent` and `run_hero` have none). The model assumes that turning the result into JSON
does not raise. `Busy` is a database that stays locked past the connection's five seconds. A crash
wipes locks, memory and threads and leaves the two tables.

`OnceOnly` is what a client sees of all this. A slot is `ABSENT`, `PENDING`, `COMMITTED` or
`ABANDONED`; under a claim the operation takes effect once or is given back, and what is committed
answers every request with the same input and is audited once at most. In the mapping a PENDING row
that no thread works on any more is `ABANDONED`: the table does not tell it from a running one, and
no action of `OnceOnly` leads out of it.

### 2.3 `EvidenceTrace`

`record` takes a number (`Number`), builds and hashes the span (`Build`), appends it
(`AppendSpan`) and moves the last hash on (`Link`); its reference reads the number again. Writers
are operations, inside the service's lock; readers are `GET status`, which records outside it. An
append may fail and leave nothing, a part of the line, or all of it with or without its newline.
`open` says that the last line has no newline: the next span is then written into that line
(`Written`), which nobody can read any more, and only the one after it gets a line of its own. An
unreadable line keeps the fields of the span that was written to it last, as history, so that
`SpansAreKept` can say which span it took with it. `gaps` (where appends failed) and `asked`
(whether a status request has come in) are history too. A hash is the triple of what it covers, thus
injective; the content of a span is the thread that wrote it. `self._sequence += 1` is one step, as
CPython switches threads only at points that do not lie inside it. A crash ends a trace (the
recorder is not rebuilt), so an invariant is also a statement about the file a crash leaves.

### 2.4 `TokenFactory`

One `_call_tool` at a time (a session's provider is called under the service's lock). `attempt`
counts within a round, `repairs` the rounds after invalid output, `elapsed` the time since
`total_started`; a post lasts 0..`PostTime`, a sleep 1..`Backoff`. Time between calls passes by
`Wait`; the cooldown is kept as the time left. Worth knowing, and visible in the model:
a connection error, another 4xx or a body that is no JSON escapes without counting (`Escape`), and
invalid tool output does not count either (`Invalid`), so only timeouts, 429 and 5xx open the
breaker; the `retry_count` in the evidence may reach twice `max_retries`; the repair round posts
another body under the same `Idempotency-Key`; each session owns a provider, and with it a breaker,
so that three failures of *one* session open it.

### 2.5 `RoutePlanner` and `SafetyEngine`

Nodes are numbered in the order of their names. A heap entry is its distance and path; `Pop(e)`
requires that `e` precedes all others by distance, node and path, as Python compares tuples.
`Discard`, `Arrive`, `Expand` and `Exhaust` are the four things a turn of the loop does. Assumed:
lengths are positive naturals (in the code positive floats); no two edges of one length join the
same two nodes (the heap would have to compare `MapEdge` objects, which raises); edges join nodes
of the map. `Blocked` (planner) and `ActiveObstacles` (engine) are the two filters of obstacles,
over classes of confidence, two sightings or not, and freshness, which each works out on its own:
the planner in seconds as floats, the engine in datetimes. `fresh` holds those that take the
obstacle to be current; they differ only where its time ends just as the snapshot is taken, and
`Expiring` are the obstacles the engine alone still counts. The nodes are finitely many
(`NodeAssumption`), as they are listed in a map file. `Follow`, `MeetAgain` and
`Finish` are the turns of `_has_circular_wait`. The engine's remaining checks (battery, vehicle
type, reservations, versions, occupancy, token) each compare fields of one snapshot and are left
out.

### 2.6 How React is modelled

A component's variables hold what was rendered last. A handler of a click, and the effects after
it, run in one step with the render they cause: React 19 renders a click's updates before the next
event, and with them what a timer had queued, in order. What a **timer**, a fetch or an engine's
event sets waits in a queue (`ticks`, `setStep`, `queuedFlags`, `queuedMobile`) until a `Render`
step, and effects that follow such a render are a step of their own (`RunEffect`, `Effects`).
Functional updates read what the queue has made of the state, other code the rendered value it
closed over; an updater on an empty queue may be evaluated at once (`eager`), which decides whether
the end of a run comes before or after a click that waits behind it. A component that leaves the
page loses its state.

### 2.7 `FieldTest` and `SafeStop`

Times are the code's milliseconds: `Tick` queues `50 * speed`, `Render` applies what is queued.
The timetable is computed in five places (`schedule`, `phaseAt`, `heroPosition`, the map's
comparisons, `completeAtMs`), each translated on its own. A point of a route is how far along it;
the route itself is geometry. The fixed texts and identifiers of the exported file are left out.
`SafeStop` keeps phase and place: `EXECUTING` up to the obstacle, a stand through `SAFE_STOP` and
`REPLANNING`, `RESUMED` on the detour. `SENSOR_DETECTED` may be skipped, for at speed 4 a tick
outlasts it; `SAFE_STOP` and `REPLANNING` may not. Worth knowing: leaving the lab loses a rehearsal
without asking; the speed may be changed in the middle and the file names the last one.

### 2.8 `HeroReplay`, `EvidenceBoard` and `MissionConsole`

An interval is a number in `next` with the counter it closes over; `timerRef` is the one that
remains reachable. `Tick(i)` asks for a step (`setStep`), `Render` shows it. The architecture
view's button is never disabled, the mission view's controls neither, so runs are restarted and
cut short at any step. `findIndex` searches the same timeline the code does; `SafetyChecks` uses
the code's literals 4 and 5. A file is the truth values the screen decides by; every card of the
evidence view is an operator from the files that have arrived to what it claims. The hero summary
may lack its optional parts (`mc` 71-78): `heroTiles` and `toolSpans` print the model calls and the
cost or, without them, go on saying that they load, while pose and stop latency need the file only;
without the operation metrics their block is left out. A fetch is answered by one of `Answers[r]`, fails, or stays away for ever.

### 2.9 The UI kit

`Sidebar`: `Closure` is what a render's handlers see, `listener` what the shortcut's handler saw
when its effect last ran, so the shortcut may act on the layout of an earlier render; a parent that
owns `open` may refuse. In the sidebar widths are whole pixels: at 767.5 the media query and
`innerWidth` disagree, and `isMobile` stays as it was. `Carousel`: the engine (external) owns
slides and place, the component a copy of two flags.

`Chart`: tooltip and legend as functions of configuration, series, properties and the datum
hovered. Each of the two has a `nameKey`; the tooltip has a `labelFormatter`, a `labelKey`, labels
that are no strings, and a `formatter` that draws only the rows with a value and a name; the legend
hides its icons by `hideIcon`. The colours are left out. `Form`: the unique messages of a field's
errors, `""` and a missing message being two: a field with both announces an alert with nothing in
it, and `EveryErrorOnce` says that this is the only way to one.

`ChartAssumption` says that configuration, series and the `indicator` have the types that
TypeScript gives them; `DataAssumption`, that a datum has no *text* under the key of a series that
is drawn, because what recharts draws there is a number. A text there would be taken for the key of
the series' configuration, by the tooltip but not by the legend (`chart.tsx` 330-364).

## 3. What TLC checks

| Run | Question | Bounds | States |
|---|---|---|---|
| `one_session` | every operation of a session in every order, with every way to fail | 1 session, 2 keys, all 5 roles, routes of 2 and 3 nodes, 2 missions, versions to 9, operations begun up to the 13th status | 74k (keys symmetric) |
| `blockage` | *(violated)* does the vehicle stop whenever the workflow is BLOCKED? | 1 key, 1 mission | |
| `second_approval` | *(violated)* does a replanned mission keep its approval? | 2 keys, 2 missions | |
| `ledger` | at most one effect, one answer, honest audit, everyone answered, the promise of `OnceOnly` | 3 requests, 2 rows, 2 inputs, 2 ledger objects, 1 crash | 313k |
| `ledger_audit` | *(violated)* is every committed decision audited? | 3 requests, 1 row | |
| `trace` | what a trace promises while only operations record, and what is left of it beside status requests | 2 writers, 2 readers, 4 spans | 459k (threads symmetric) |
| `trace_status` | *(violated)* does the untouched trace verify? | 1 writer, 1 reader | |
| `model_calls` | retries, time and breaker of model calls | 2 retries, budget 7, threshold 2, cooldown 2 | 1.9k |
| `planning` | planner, engine and deadlock walk | every map of 4 nodes, 2 obstacles of every kind, every wait-for graph of 4 vehicles | 145k |
| `field_test` | the rehearsal under every control | all speeds and latencies, 4 ticks between renders | 63k |
| `console` | replay and evidence, in every order | 2 runs, 4 files answered, 3 hero summaries | 116k |
| `ui_kit` | the four components | 2 resizes, 3 slides, 2 changes, 4 configurations, 42 lists of one or two series, 128 properties, 4 errors | 88k |

**Why these bounds suffice.** *one_session*: two missions are what a second approval needs; a
route of two nodes completes inside `start`, one of three can be stopped under way; nine
versions exceed the longest life cycle with a second round (prepare, approve, start, stop, replan,
approve, start ...), and thirteen statuses reach the second start, after which a stop may still
begin. Two keys let one be reused after it committed. *ledger*: a third request is what lets a
retry overtake a retry; two ledgers are what makes the lock useless; one crash is what
orphans a receipt, and after it the same requests still run. *trace*: a fork needs two spans beside
a third to follow them, a torn line a span that goes into it and one that follows. *model_calls*: the budget runs out in the middle of either round, the
threshold is met in more than one call, and a probe after the cooldown fails or succeeds.
*planning*: four nodes are enough for ties, for a node that is reached by two ways, for an
expensive direct edge (1+1 < 3 = 1+1+1), and for one-way and cut-off nodes; four vehicles for a
tail into a ring of three. *field_test*: all values the lab offers; four ticks at speed 4 are 800 ms,
so one render never covers the 850 of `SAFE_STOP` (a browser that stalls longer does skip phases,
and `LabAssumption` excludes it). *console*: two runs are what a left-over interval needs; the
answered files are those two cards or more depend on, two of them may fail, the hero summary comes
with all its parts, with none or with some, and the other five stay away. *ui_kit*: a resize and one back, three slides for a middle one. Symmetry is used for sessions, keys and threads only where no liveness is
checked; in `ledger` the first request's row, input and lock are fixed instead, as these are
interchangeable.

**Fairness.** `OperationLedger`: weak fairness per request's thread — the OS schedules threads, and
SQLite's timeout ends every wait. `TokenFactory`: weak fairness of `Wait` alone — time passes; no
caller has to call. `SafetyEngine`: weak fairness of `Next` — a loop runs on. `FieldTest`,
`MissionConsole`, `UiKit`: weak fairness of what the browser and React do by themselves (a set
interval fires, a queued update is rendered, effects run, the media query reports), and none of
what a user, a fetch or a window does. The other
specifications state none, and nothing that needs it is claimed of them.

**Properties.** *Safety*: `MotionIsAttended`, `StoppedUntilResumed`, `OneDispatchPerProposal`,
`CompletedMeansDelivered`, `CommitsAreSerial`; `AtMostOnce`, `AnswersAgree`,
`ResponseShowsOwnEffect`, `AuditIsHonest`; `TraceVerifies`, `LossShows`, `ReferencesResolve`,
`SpansAreKept`; `EndsNearBudget`; `RouteIsShortest`, `UnsafeOnlyAtOrigin`, `DeadlockIsRefused`;
`FieldTestOK`, `ScreenAgrees`, `ExportTellsTheRun`; `MissionScreenAgrees`, `FailureIsNeverHidden`;
`ChartReadsAsConfigured`, `EveryErrorOnce`. *Action properties*: `TerminalIsFinal`,
`ReplayGoesForward`, `ClaimsStand`, `ToggleIsVisible`. *Liveness*:
`EveryRequestAnswered`, `AdmitsAgain`, `PlanIsJudged`, `RunEnds`, `ReplayEnds`, `SidebarSettles`,
`ButtonsCatchUp`. *Refinement*: `ImplementsMotionAuthority`, `ImplementsCircuitBreaker`,
`ImplementsSafeStop`, `ImplementsOnceOnly`. *Reference*: `AgreesWithReference` compares the search with an enumeration
of all ways (`Roads`, `Ways`, `HopLengths`, `Sums` in `RoutePlanner`). Each property has a mutant of the code (`*_...` operators next to what they replace)
under which it fails.

The type invariants of the older modules, `SessionInvariant`, `HistoryIsLegal`, `ReceiptsOK`,
`RetriesAreBounded`, `NoRouteIsCertain` and `ReplayInvariant` are proved or part of what is proved
(section 4) and no run repeats them. `OrphanStaysClosed` is proved as well; in the run it is part
of `ImplementsOnceOnly`. That sessions which share keys commit serially is left to the proof
(`CommitsStaySerial`, for any number of sessions), as `one_session` has one.

### 3.1 Where the documentation and the code disagree

1. **`second_approval`.** `docs/ARCHITECTURE.md` 28-31: a replanned mission resumes "under the
   existing mission authorization". `approve` (`ms` 237) accepts the VERIFIED that `replan` leaves
   and issues a second token and mission; the adapter's index then answers with the first mission,
   and `start` raises with the workflow EXECUTING and the vehicle stopped. `MotionIsAttended` and
   `StoppedUntilResumed` hold even then.
2. **`blockage`.** `docs/ARCHITECTURE.md` 27: "A blockage always causes a local stop first." `stop`
   writes and records BLOCKED (`ms` 436-437) before it asks for the local stop (442). If that record
   fails the workflow is BLOCKED and the vehicle moves; no operation accepts BLOCKED, so nothing
   stops it later either. The same kind of failure after `adapter.start` and `replace_route` is in
   section 2.1.
3. **`ledger_audit`.** `README.md` 171-173: decisions are in the SQLite audit ledger. The audit row
   is a second transaction (`api.py` 180); a crash or a busy database in between loses it for good,
   because the retry is a replay.
4. **`trace_status`.** `GET status` (`ms` 745) records without the lock: two spans get one number
   or one predecessor, and `verify` refuses an untouched trace (`ChainHolds`). `SpansAreKept` shows
   that no referenced span is lost by it.

Four more, not runs. `docs/ARCHITECTURE.md` 22-23: "interrupted operations all fail closed"; a
raise inside `prepare_proposal` (`ms` 169) leaves OBSERVED or PLANNED, a `replan` without a route
leaves REPLANNING: no operation accepts these statuses and nothing moves, but the session is never
closed either. `docs/SAFETY_RULES.md` 12 has the deadlock check pass when the vehicle "is not part
of a cycle"; the code also refuses a vehicle that only waits for a member of one. It fails closed,
and `DeadlockIsRefused` demands what the rule forbids (no vehicle of a cycle passes) and of the rest
only that whoever is refused waits for ever. `docs/JUDGE_MODE_RUNBOOK.md` 26-27 has the vehicle take
the alternate route "only after re-verification"; the replay draws it on the detour, and the card
says REPLAN PROOF SEALED, from `replan_mission` on, one step before `safety.replan_proof`
(`mc` 545-546). `MissionScreenAgrees` demands neither order: it asks that seal and detour come
together, after the stop, and by the time of that proof. A hero summary without `model_calls`
(optional, `mc` 71) leaves the tool spans' card (2017) and the latency's tile (820) "loading" for
ever, with no error shown; `FailureIsNeverHidden` names this as the one silent wait.

## 4. What is proved

For every value of the constants, by `tlapm`; the only assumptions are the named `ASSUME`s of the
modules on their constants, which TLC evaluates, and where it says so a hypothesis of the theorem.
**Every invariant, action property and refinement that a passing run checks is also a theorem**;
what stays with TLC is liveness (4.9).

### 4.1 `MissionServiceProofs`

`Invariant: Spec => [](TypeOK /\ SessionInvariant)`, and from it `TypeCorrect`, `SessionCorrect`,
`MotionAttended`, `StoppedTillResumed`, `OneDispatch` and `CompletedDelivered`: for any number of
sessions, keys, roles, missions and any routes. `MotionIsAttended` is not inductive: that
`override` and `reject` leave no vehicle moving depends on what VERIFIED, with or without a replan,
says of the adapter. `SessionInvariant` has four parts, each a predicate of one session and its
adapter: the adapter is consistent in itself (`AdapterOK`), the status tells what the adapter has
seen (`PhaseOK`), before a replan there is one mission (`MissionsOK`), an approval has an approver
and lasts (`ApprovalOK`). `PhaseOK` knows whether the session is in `adrift`: a lost session has
dispatched, and its status tells less of the vehicle: SAFE_STOP and REPLANNING still that it
stands, COMPLETED that it has delivered, VERIFIED and APPROVED that it has not. That a lost vehicle may be closed, retried, overridden and driven on is what makes the
weaker part inductive. `OneSession` carries one session's step to all; each action has a lemma,
with a step for each way it can end.

From the same invariant, about steps:

- `Implements: Spec => ImplementsMotionAuthority`. What `MotionAuthority` sees of a session is a
  function of its record and its adapter, and `adrift`. `Promised` lists the changes the abstract
  specification allows, `PromisedStep` maps such a change to an abstract step or a stutter, and the
  lemma of each action (`StartKept`, `StopKept`, ...) shows that it keeps the invariant and makes
  one of them.
- `TerminalStays`: a step touches one session, and that one is open or its token runs out.
- `HistoriesAreLegal`, `CommitsStaySerial`: every action either commits or raises, on a path of the
  table that goes on from the status it asks for (`StepWalks`). So a history grows by a legal path,
  and a commit adds one operation, at the version it raises; `SessionAssumption` keeps an
  uncommitted key from being taken for some session's.

### 4.2 `OperationLedgerProofs`

For any number of requests, rows, ledger objects and crashes. `Invariant`: a row has at most one
owner (a thread between `insert` and the end of `commit` or `undo`), only an owner of a PENDING row
runs, row and effect agree (`RowOK`), and answers agree with rows. `EffectsAtMostOnce`,
`AnswersAlwaysAgree` and, as a statement about steps, `OrphansStayClosed` follow. It says nothing of
locks: the primary key alone carries the argument, which is why two ledger objects do no harm.

`BooksInvariant` adds what that invariant does not see. `MadeOK`: the version that a request's own
callback made is at most the version the service has reached when the view is taken; so
`ResponsesShowOwnEffect`, whatever other requests commit in between. (After a crash the service
counts from 0 again; no thread that has yet to take its view survives one.) `AuditOK`: a row has
one auditor at most, who has not written yet; so `AuditStaysHonest`.

`Implements: Spec => ImplementsOnceOnly` needs both. A step of request r is seen in r's answer and
in the claim on r's slot only (`SeenStep`); `SeenAs` lists the changes of these two that are steps
of `OnceOnly`, `PromiseStep` shows that each action makes one of them or none, and a crash abandons
all claims that a thread was working on (`PromiseCrash`).

### 4.3 `EvidenceTraceProofs`

For any numbers of writers, readers and spans, and any appends that fail or tear a line.

`TypeCorrect` and `ReferencedSpansAreKept` hold whoever records beside whom. Their invariant
(`KeptInv`) counts: the lines of the file and the threads that hold a number and have yet to append
are together at most the numbers given out (`NumbersSuffice`), so a thread that reads the number
again for its reference finds at least the length of the file; and what a thread has appended, or
handed out a reference to, is in the lines that nothing will be added to (`Closed`: all, or all but
a last one without a newline). An append that succeeds ends its line, and what comes later starts another, whether it
fails or not. The chain may break, which `trace_status` shows, but
no referenced span goes, except into a torn line, and that only after a failed write.

`LockedTraceVerifies`, `LockedLossShows`, `LockedReferencesResolve`: as long as no status request
has come in (`~asked`, a condition of the properties themselves, on the same specification).
`LockedInv` says where the one writer inside stands relative to the file's last line
(`WriterInv`), that nothing is missing while no write failed (`WholeInv`), and that after a loss
either the trace is broken or the next span will not fit: its number is too high, or it does not
follow the last line (`LossInv`).

### 4.4 `TokenFactoryProofs`

`RetriesBounded`, `CallsEndNearBudget`, and `Implements: Spec => ImplementsCircuitBreaker`, for any
settings. The mapping: the breaker is open while time is left, else closed or probing as the
failures are below the threshold or at it. The invariant needed: an open breaker has the threshold
of failures behind it and no call inside.

### 4.5 `SafetyEngineProofs`

`PlannedRouteIsShortest`: "no way is shorter" quantifies over all ways of a map and cannot be
carried through a search directly. `RouteIsShortest` states it by a certificate instead: heights of
the nodes, 0 at the origin and the found distance at the destination, that no hop climbs faster
than its length. The invariant of the search: each place a hop leads to from an expanded node is
expanded, or in the heap no farther than that hop makes it (`Frontier`), and nothing in the heap is
nearer than what is expanded (`SettledFirst`). `RefusalIsCertain` is the same invariant with an
empty heap.

`SearchAgreesWithReference` and `EveryWayIsAsLong` draw the conclusion about ways from it. Heights
bound a way's length by an induction along the way. The library's induction theorems cannot be
used, but an induction over a *set* of numbers is first order: a set that holds 0, and with n also
n + 1, has no least natural outside it (`Induct`, from `LeastExists` by `WFMin`). It shows that the
recursive function `Sums` has the values its definition names (`SumsDef`, `SumsStep`,
`SumsAppend`), that each entry of the heap is a way of the map as long as its distance says
(`WaysInvariant`), and that no way is shorter than its last node is high. `EveryWayIsAsLong`
speaks of ways of any length that may meet a node again; `SearchAgreesWithReference` of the
reference that TLC evaluates: the search finds the least length of a simple way, or that there is
none.

`PlannedRouteIsClear`: the engine's obstacles are among the planner's, and a path avoids these but
for its first node; what is left are obstacles that end for the planner before they end for the
engine. `DeadlocksAreRefused`: the walk stays in every self-waiting group it starts in, a cycle
among them, so it does not answer "free" there; and when it meets somebody again, those it has
visited are such a group.

### 4.6 `FieldTestProofs`

For any choice of speeds and latencies among those on offer and any number of ticks between two
renders that `LabAssumption` admits. `RehearsalKeepsShape` is the inductive invariant: what is
rendered, queued and remembered fit together. On it rests a table of the phase and of the vehicle's
place by the time passed (`PhaseByTime`, `HeroByTime`), and on that `ScreenAlwaysAgrees`, case by
phase, and `RehearsalIsASafeStop`: a step either lets time pass (`TimePasses`: never by more than
800 ms, hence never over a whole phase but the first stop), stands still, or goes back to the
depot. `ExportsAreTrue` needs one fact more, that a saved file's settings are those of the run it
was saved from (`FileTells`).

### 4.7 `MissionConsoleProofs`

For any number of runs and any answers. `OneIntervalOnly`: `ReplayInvariant` is inductive. It says
that the intervals that fire are at most the one in `timerRef`, that one fires exactly while the
replay is on and its end is not queued, and that its counter is the step shown or queued. Without
that last part a tick might take a step back: `NeverBackwards` follows from it.
`ScreenTellsOneMission` needs the timeline entry by entry, where each search ends (`BlockedAt`,
`ReplanAt`, ...) and that after a decision the step is the decision's. `FailuresAlwaysShow` and
`ClaimsAlwaysStand` rest on `BoardOK` (a fetch holds nothing, a failure or its own file; the flag
is set when one has failed) and on `ClaimsRest`, which names the field behind every claim;
`AwaitedBeforeOrOmitted` says what a card that waits may wait for: a fetch, or an optional part
that the hero summary came without.

### 4.8 `UiKitProofs`

For any configurations, series, properties and data within `ChartAssumption` and `DataAssumption`,
any messages, and any number of errors, slides and resizes. `TypeCorrect` is the invariant of the
page. `TogglesAreSeen` is an action property: a toggle may come from an old layout, but `FreshOpen`
says that every closure in use has the present value of `open`, so one state is turned over and the
cookie follows (`OneTurned`); where the width is known, each of the three toggles is followed
through `setOpen`, the parent that may own it, and what is shown (`SettledToggle`).
`ErrorsAlwaysOnce` and `ChartsReadAsConfigured` are about lists filtered by position, which
`InOrder` describes without a recursion: `InOrderExists` proves (again by induction over a set)
that finitely many positions can be listed in ascending order, `InOrderFacts` what such a list is.
From there, a message is listed at the position of its first report (`FirstExists`), an alert has
nothing in it only when two things were reported in vain (`AlertIsRight`); and a row of the tooltip
and an entry of the legend that stand for one series look it up under one key (`SameConfig`), while
the label is counted over the rows (`LabelOnce`).

### 4.9 Only model-checked

Liveness: `EveryRequestAnswered`, `AdmitsAgain`, `PlanIsJudged`, `RunEnds`, `ReplayEnds`,
`SidebarSettles`, `ButtonsCatchUp`. All rest on fairness, hence on ENABLED, which the prover does
not treat; the runs check them on the bounds of section 3.

## 5. Not modelled

`RealAgvAdapter` refuses every call; `auth.py` is a pure check whose result is the role a request
has; the reports, bundles and acceptance gates are sequential batch programs over files; `cli.py`
and `serverless.py` call one function each; of the UI kit, the components that wrap a library's
and add class names, and of the console the architecture and source views, which are fixed text.
`WorkflowController` and the Agent API's composition with the service are planned. Of modelled
parts: the bodies of spans, messages and prompts, the choice of the vehicle, costs and durations,
and the single-field safety checks.

## 6. Plan

Done: the core (`WorkflowState`, `SimulatorAdapter`, `MissionService` under `MotionAuthority`),
then what it stands on, in the order of what a failure would cost: ledger, evidence, provider,
planner and safety engine; then the web console: rehearsal, replay, evidence and the kit's
components with a state; and proofs of every safety property and refinement the runs check.

To come, in this order:

1. `HeroWorkflow`: `run_hero` (`workflow.py` 42-394) as a second implementation of
   `MotionAuthority`, with the ways it ends early.
2. `AgentApi`: `OperationLedger` with `MissionService` as its callback: retries of a request
   across both, receipts against versions, a crash that keeps the receipts and loses the sessions.

## 7. Running

`tlc -config <cfg> <module>` with the pairs in `PROJECT.json`; `tlapm <module>Proofs.tla`. The
longest runs (`console`, `ledger`, `one_session`) take one to two minutes on two cores, the longest
proofs
(`MissionServiceProofs`, `FieldTestProofs`, `SafetyEngineProofs`) some minutes each.
