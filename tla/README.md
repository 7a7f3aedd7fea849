# Verification of the Terminal Agent Runtime

TLA+ models of the Python runtime under `src/backend-py/src/terminal_agent`
(below: `ta/`), the TLC configurations that check them on small instances, and
TLAPS proofs of the properties that do not depend on the size of the instance.
`PROJECT.json` lists every definition with the source lines it models, every
run, every hazard of the code and the properties that watch it.

## 1. The system

One process, one asyncio event loop, one device. A user sends a sentence; a
*run* is created for it; a *job* (one coroutine per run) compiles the sentence
into goals, plans, sends writes to the device and judges the result. While the
job is suspended in an `await`, other coroutines change the same run: requests
of users, the deadline poller, the device clock. A browser watches over two
event streams, and a memory of preferences is read at every compilation.

| component | state it keeps | operations | interacts through |
| --- | --- | --- | --- |
| `HarnessService` (`ta/runtime/harness.py`) | `_running` (jobs), `_admission`, deadline task | `create_run`, the job (`_work`, `_compile`, `_work_fast_or_legacy`, `_work_multi_agent`, `_conclude`, `_finish`), `cancel`, `intervene`, `answer_clarification`, `answer_pending`, deadline loop, `reset_experiment` | the run record, `run_lock`, `append_event` |
| `RunRecord` (`ta/contracts.py`) | lifecycle, task (goals, constraints, criteria, version), actions, budget, pending question, `cancel_accepted`, `unresolved_unknown`, `in_flight_action_id` | field updates by all coroutines | shared by reference |
| `CapabilityExecutor` (`ta/runtime/executor.py`) | none | `execute_write`, `reconcile_unknown`, `read` | `run_lock`, policy, `DevicePort` |
| `InMemoryRunStore` (`ta/persistence/store.py`) | runs, request ids, event journal | `append_event` (global, first come first served), `run_lock` (per run), `has_active_write_run` | awaited by everybody |
| `DeviceSimulator` (`ta/device/simulator.py`) | the fields of the vehicle, environment, revisions per domain, action records by id and key, faults | `apply_write`, `query_action`, `tick`, `external_change`, resets, `restore` | its own lock; the executor calls it without `run_lock` |
| `SqlitePersistence` (`ta/persistence/sqlite.py`) | snapshots of runs and device | `persist_*` at every event, `init` after a restart | run and device records |
| `GoalCompiler` (`ta/runtime/goal_compiler.py`) | none | text, state and hints to a candidate: route, goals, bans, questions | called by the adapters |
| model adapters (`ta/model`) | none | `compile_task`, `plan_draft`, `audit`; coercion, normalisation, grounding | called by the job |
| planner (`ta/agent/multi_agent.py`) | none | `build_plan_draft`, `review`, sanitising of a draft | called by adapters and job |
| `TaskBinder`, `ExecutionRouter` | none | candidate to goals, criteria, actions; route | called by `_compile` |
| `PolicyEngine`, `PreflightGate` | rules; none | `decide`, `consume`; `check_action`, `check_plan` | read the run |
| `Verifier`, `OutcomeAggregator`, auditor | none | verdict on goals, audit of a plan | read device and run |
| capability registry and effects (`ta/capability`) | none | schemas, expected effects, matching of a state | called by all of the above |
| `ModelRouter` (`ta/runtime/support.py`) | placement, epoch | switch between cloud and edge | read by every staleness check |
| `QuotaGovernor`, `DomainCircuitBreaker`, `DeadLetterQueue` | windows, open domains, list | admission, refusal of writes | called by harness and executor |
| `SseHub` (`ta/api/sse.py`), `web/src/App.tsx` | one queue per subscriber; what is shown | replay, live items; reconnect, show, let go | listeners of the store and of the device |
| memory (`ta/memory`, memory routes) | entries with key, value, tenant, age | write gate, replacing, deleting, retrieval | hints for `compile_task` |
| HTTP routes, evaluation, baseline, Java backend | — | I/O, comparison, legacy | section 8 |

**What is hard here.** Everything is shared and almost every line is followed by
an `await`. (1) State is read before an `await` and used after it (goal version,
lifecycle, placement). (2) `run_lock` is released during the device call, so
requests reach a run whose write is at the device. (3) Only some requests take
the lock: `cancel`, the deadline and a rejection do, `intervene`, approvals and
clarifications do not. (4) The device may delay, refuse, or execute and lose the
answer. (5) Four parties may finish the same run. (6) A job that is on its way
out is still registered in `_running`. (7) A restart loses every coroutine but
not the device, and any save may fail. (8) A text of several clauses takes
another way through the compiler than each of them alone, and a goal, an action
and a criterion of it are made in three places by three sets of rules. (9) A
browser gets the same state by two streams, each with a replay and a queue.

**What makes it correct**, per component:

* executor: a write is sent at most once, never while another is in doubt, only
  if approved, and what is recorded is what the device did;
* run: a finished run stays as it is; a cancellation wins; an accepted change is
  taken over by a job; a verdict is about the current goals; no false success;
* liveness: every run ends, every job leaves;
* task: a COMPLETED run has done everything that was said, no write breaks a ban,
  what can be done is done;
* memory: a hint is the newest living one of its tenant, and only suggests;
* device: an action has at most one effect, on the state it was planned on, and
  its record says what happened;
* recovery: what the device may have done is on disk before it is asked, no
  result on disk is wrong, an end the user was told of is kept, no open run is
  left without a job;
* admission: one active run on the device, one run for a request that is sent
  again, the rate of a tenant, a circuit that is open exactly after enough
  failures;
* streams: no event is skipped, the watching ends, the panel shows the device.

## 2. Modules

| module | what it is |
| --- | --- |
| `Contracts` | the enumerations of `contracts.py` and the functions on them |
| `RunState` | constants, the variables of one run, the coroutines and what an `await` is |
| `Executor` | `execute_write` and `reconcile_unknown`, and the device as `DevicePort` promises it (EXTENDS `RunState`) |
| `Harness` | the job, the requests, the deadline, placement, the specification (EXTENDS `Executor`) |
| `HarnessSafety`, `MCHarness` | types, invariants, action and liveness properties of it; the module of its configurations |
| `ActionContract` | abstract specification of the executor; `HarnessSafety!ContractSpec` says that the harness implements it |
| `DevicePort` | what the executor may assume of one device call; used by `Executor` and nothing else |
| `DeviceSim` | `DeviceSimulator`: keys, revisions, environments, faults, late actions, restart |
| `DeviceContract` | abstract specification of a device; `DeviceSafety!PortSpec` says that `DeviceSim` implements it, and its steps are the outcomes of `DevicePort` |
| `DeviceSafety`, `MCDevice` | properties and instance of the device |
| `Recovery`, `RecoverySafety` | one run, its device and their two tables, with saves that fail, crashes at any point and `SqlitePersistence.init` |
| `Admission`, `AdmissionSafety`, `MCAdmission` | `create_run` for several tenants, quota and circuit breaker |
| `Utterance` | a text as a sequence of clauses, and what the patterns of the compiler find in it |
| `Capabilities` | the fields of the device; schema, effect, expectation, matching and precondition of every capability; prompts |
| `GoalCompiler`, `Normalizer` | `compile`, with the FAST way and the way of complex requests; `normalize_candidate` |
| `Planner` | `build_plan_draft`, `review`, and what policy and preflight decide of an action and of a draft |
| `ModelAdapter` | the fake adapter, and what the live one makes of an answer and of a plan |
| `Acceptance` | routes, binding, actions and criteria of goals, the verdict |
| `Memory` | write gate, replacement, deletion, ageing, retrieval of preferences over tenants |
| `Task` | one request from its text to its verdict: the composition of the eight modules above |
| `TaskSafety`, `MCTask` | what a user may rely on; the requests |
| `Stream`, `MCStream` | the two event streams of a run and the browser; its properties |
| `TypeProofs`, `ActionProofs`, `FinishProofs`, `AdmissionProofs`, `RecoveryProofs`, `DeviceProofs`, `TaskProofs`, `StreamProofs` | theorems (section 6) |

`Harness` follows one run through every await and knows nothing of texts and
fields: a goal is a capability, a model's answer any edit of the goals. `Task`
has the texts, the fields, the models and the memory, and no awaits: a read and
the write decided on it are one step, since the device refuses a write whose
revisions have moved. `DeviceSim`, `Recovery`, `Admission` and `Stream` look at
what both take for granted: the device, the disk, the other runs, the watchers.

### How the state corresponds

| variable of `RunState` | code |
| --- | --- |
| `lifecycle`, `pending`, `cancelled` | `RunRecord.lifecycle`, `.pending`, `.cancel_accepted` |
| `route`, `version`, `goals`, `forbidden`, `keep`, `criteria`, `approval` | `route_type` and the `DeviceTask`: goals (as capabilities), bans, the navigation-prompt constraint, whether criteria exist, the stored confirmation |
| `status`, `acap`, `aver`, `last` | `run.actions[i]`: status, capability, goal version; length of the list |
| `inFlight`, `unknown` | `in_flight_action_id` (0 for `None`), `unresolved_unknown` |
| `writes`, `replans` | `Budget.write_actions`, `.replans` |
| `expired`, `epoch`, `sameEnv`, `dev` | deadline passed; `ModelRouter.epoch`; `run.environment_id = device.environment_id`; the device's record of each action |
| `lock`, `store` | owner of `run_lock`; queue of `append_event` |
| `w` | the job: where it waits and what it copied before its awaits |
| `req` | where each request waits |
| `granted`, `forbade` | history only: approvals given per version, capabilities banned by the user |

| variable of `Task` | code |
| --- | --- |
| `text` | `user_text` and the supplements of `answer_clarification`, as clauses |
| `dev` | `DeviceSimulator.state`, the fields a goal can be about |
| `task`, `hints` | the bound `DeviceTask` (goals, bans, criteria through `Criteria(task)`); the preference hints of the compilation |
| `phase`, `todo`, `round`, `tools`, `version` | where the job is; the rest of the plan; `Budget.replans`, `.tool_calls`; `goal_version` |
| `wrote`, `touched`, `verdict` | `run.actions`; fields changed by hand since the binding; the terminal lifecycle |
| `memory` | `MemoryStore` entries, oldest first |

A clause is a record of what is said, a number and a name (`Say`, `SayNumber`,
`SayName`); `Utterance` says for each clause which intents, values and phrases
the regular expressions of `detect_intents` and of the goal binders find in it.
These tables were compared with the Python code on 28 764 texts of one, two and
three clauses over several device states: every candidate agreed. Whole runs
were compared too, over two-clause requests and three device states: 5545 of
5547 verdicts and final states agreed, and the other two differ because the
comparison left out the clock that plays prompts (`Prompt` in the model).

### How a step corresponds

Code between two awaits is one action of `Harness`. A coroutine waits (a) for
`append_event`, a lock that asyncio serves in order: `store` is that queue and
only its head resumes; (b) for `run_lock`; (c) for a device read, a model call or
a sleep, which take any time and may raise. `At(p)` says that the job may resume
at `p`; `Log(p)`, `Go(p)`, `Leave`, `Stop(l)` and `Raise` are the ways its code
reaches its next await. An action of a request is named after the await it
follows (`CancelAccept`, `CancelInvalidated`, `CancelFinish`).

In `Recovery` the same queue is `turn`; an event takes its snapshot when its turn
comes (`TakeTurn`) and the job goes on when the row is written (`Saved`). `sql` is
the queue of `SqlitePersistence._lock`, through which the rows of the run and of
the device go one by one. A save that fails (`Fails`) raises where it is awaited:
in the job (`EventFails`, then `StopJob`, the handler of `job()`), in the device
call or the clock (`DeviceFails`; the clock swallows it), in `_finish_locked`
(`EndFails`, `PersistFails`).

In `Admission` the queue of `_admission` is `queue`: a refusal needs no await and
is one step, an admission is two, `Admit` (the checks and `store.save`) and
`Launch` (after `RUN_RECEIVED` was stored). In `DeviceSim` every operation is one
step, since the simulator holds its lock throughout.

A step of `Task` is one round of the job: `CompileTask` (`_compile` with the
retrieval of hints, the adapter, the route and the binding), `Fast`, `Start`,
`Plan` (draft and `check_plan`), `Act` (one action of the plan, `check_action`,
policy, write), `Audit`, `Conclude`, and `Exhausted`, the budget of tool calls.
`Touch`, `Prompt`, `EditMemory` and `Answer` are the world.

In `Stream` a step ends at a `yield` of `_run_stream` or `_device_stream`, and what
is yielded is received; `Written` and `Commit` are the listeners that
`append_event` and `_commit` call.

## 3. Runs that pass

| run | question | instance |
| --- | --- | --- |
| `confirm` | do users who cancel, approve, reject and clarify race the job and the deadline safely? | one capability, 3 proposed actions, 2 goal versions, confirmation required |
| `change` | does the record of every write stay true when a goal change, a cancellation, the deadline or a new environment arrives at any await? does the executor implement `ActionContract`? | one capability, 2 actions, 2 versions |
| `plan` | does replanning, a placement switch or a late result repeat a write? | two capabilities, 2 actions, 3 placement epochs |
| `live` | does every run end and every job leave? | one capability, one action, 2 versions, fair |
| `task` | is what was said done, and nothing that was forbidden, through compiler, planner, gates and verdict? does the memory only suggest? is what can be done done? | some 3700 requests, two tenants |
| `device` | does every action take effect at most once, on the state it was planned on, and does the simulator implement `DeviceContract`? | two keys, two capabilities, two domains (starting a navigation also changes the life-service domain), five faults, two environments |
| `recovery` | what is left of a run and of the device after crashes and failing saves? | three writes, three crashes, also during a recovery, two kinds of saves that fail |
| `admission` | do several tenants share the device and the breaker as promised? | four submissions, one of them sent again, of two tenants; one creation per window; two failures open a circuit |
| `stream` | does a browser see every event, let go of a finished run and end up with the device as it is? | three events, two device states, one broken connection, any event not stored |

The `plan` run leaves goal changes out and `change` leaves approvals out: each
run admits the requests its question is about, and together they admit all
(`cancel`, `intervene`, `answer`, `deadline`, `placement`, `environment`) and
take every step of the specification.

### Bounds, and why they are enough

| constant | code | value | why |
| --- | --- | --- | --- |
| `MaxVersion` | goal changes | 1 or 2 | every check compares one copied version with the current one: equal or older |
| `MaxActions` | `max_tool_calls` | 1 to 3 | one write in doubt and one that wants to follow it; a third for an approval asked twice |
| `MaxWrites` | `max_write_actions` | 1 or 2 | the budget is spent inside the bound of actions, so that `CountWrite` also refuses |
| `MaxReplans` | `max_replans` | 0 or 1 | the planner runs again once, and is refused once |
| `MaxSteps` | the 16 rounds of the loop, the length of a plan | 1 or 2 | a step after a first one, and the end of the loop |
| `MaxReconcile` | the 4 reads of an UNKNOWN action | 1 | a read that settles and a run out of reads; the fifth read is like the second |
| `MaxEpoch` | placement switches | 1 or 3 | to the edge and back to the cloud |
| `Caps` | capabilities | 1 or 2 | the same one again, and another one |
| `MaxTools`, `MaxReplans` (task) | tool calls, replans | 24, 2 | the code's own numbers; requests reach both: a scene of several goals that is planned again uses up the calls, a live plan that misses its goals the replans |
| `Requests` (task) | the texts, devices and models | see below | |
| `left` (task) | edits of the memory, changes by hand, refused writes, answers | at most 3, 1, 1, 1 | a saved preference that is replaced and then deleted or aged; one change against a criterion; one refusal and its retry |
| `Keys` (device) | idempotency keys | 2 | two actions compete for one domain; a third meets what the second met |
| `MaxEnv`, `MaxEdits` (device) | new environments; changes by others per domain | 2; 1 | the checks compare for equality |
| `MaxActions`, `MaxCrashes` (recovery) | writes of the run; restarts | 3; 3 | one in doubt, one before and one after it; a crash in the job, one in its recovery, one after that |
| `MaxFailures` (recovery) | kinds of saves that fail, each once | 2 | the event that stops the job, and the event or the row that should have told of it |
| `MaxRate`, `Window`, `MaxTime` (admission) | runs per minute, the minute, the clock | 1, 1, 2 | a creation inside, at the edge of and outside the window |
| `Threshold`, `MaxSettled` (admission) | failures that open a circuit; writes noted | 2, 3 | failure, success, failure; two failures and a late success |
| `MaxEvents`, `MaxChanges`, `MaxDrops` (stream) | events, device states, broken connections | 3, 2, 1 | an event replayed, one while the replay runs, one live; a state in each of the two queues; one new connection |

The requests of `task` are: any three of 17 phrases in any order, except that no
two of them contradict each other ("light on", "light off"), which meet every
way through the compiler; 16 phrases alone, on the device where they matter (an
air conditioner that is on, a navigation under way); ten requests that are
disturbed by questions, refusals, changes by hand, edits of the memory, a plan
of seven actions; and pairs of eight phrases with a live model, whose answers
deviate in every way `LiveAnswers` and `LiveDrafts` list. Phrases that lose
their meaning in company (section 4) are said alone.

The keys of the device are symmetric and the run says so: no formula names one.
The second text under one request id (`conflict`) is left to the theorem
`SameRequestSameRunHolds`, which covers any submissions.

Each request of `Harness` may be made again after it was served, but at most one
of a kind is under way (two cancellations are serialised by `run_lock`, and the
second finds a terminal run).

Deadlock is not checked (`CHECK_DEADLOCK FALSE`) where a finished run with no
request under way is meant to stop. That nobody waits for ever is a liveness
property.

## 4. What the models disagree with

Each of these runs checks one sentence of the repository and TLC finds a
behaviour of the code that contradicts it. `PROJECT.json` quotes the sentences.

| run | behaviour |
| --- | --- |
| `wrong_way` | "take me home" during a navigation to the office: the expected effect of going home has no destination, the preflight takes it for done, the criterion derived from the same effect is met, and the run is COMPLETED while the device still goes to the office |
| `stale_verdict` | `_conclude` has compared the versions and awaits `EVALUATE`; `intervene` is accepted; `_finish` completes the run with the verdict on the old goals |
| `vacuous` | the placement switches during the compile call; the task is discarded, the loop goes on with no criteria, and a FINISH decision completes the run |

Four more were found with `Harness` and are not runs of their own; a
configuration of `MCHarness` with `Caps = {"ac"}`, `MaxVersion = 2`,
`MaxEpoch = MaxActions = MaxWrites = MaxReconcile = 1`, `MaxReplans = 0`,
`MaxSteps = 2` shows each:

| with | behaviour |
| --- | --- |
| `Requests = {"intervene"}`, `RequireConfirmation = FALSE`, invariant `RunningHasWorker` | the job has decided to return and awaits its last event (`LATE_RESULT_IGNORED`, `PLAN_DISCARDED`, `WAIT_CLARIFICATION`); `intervene` is accepted; `_launch` sees the old job in `_running` and starts none; the job returns; the run stays RUNNING with nobody working on it |
| `Requests = {"intervene", "answer"}`, `RequireConfirmation = TRUE`, property `TerminalIsFinal` | `intervene` has passed its check and awaits `PENDING_INVALIDATED` without `run_lock`; a rejection finishes the run as STOPPED; `intervene` resumes and sets `lifecycle = RUNNING` |
| `Requests = {"placement"}`, `RequireConfirmation = FALSE`, invariant `RunningHasWorker`, with `MaxVersion = MaxReconcile = MaxReplans = 1`, `MaxActions = MaxWrites = 2`, `MaxEpoch = 3` | the placement switches while a draft is being made; the draft is stale, the job stores `PLAN_DISCARDED` and returns (`ta/runtime/harness.py:427`); `set_placement` (`ta/api/routes.py:388`) launches no job; the run stays RUNNING until its deadline |
| `Requests = {"intervene"}`, `RequireConfirmation = FALSE`, property `BanRespected` | `intervene` removes the last goal and adds a ban; the next job finds no goals, compiles the original text and sends the banned write |

Section 6 proves that `stale_verdict` and the first three of these have no cousins: each
names one kind of step, and without it the property holds for every kind of request.

A fifth is why `NoFalseSuccess` speaks of tasks that are not small talk. Without
`route # "CHAT"` it is violated with `MaxVersion = 3`, `MaxReconcile = 0`,
`Requests = {"intervene"}`, `RequireConfirmation = FALSE`, the other bounds as
above: a write ends UNKNOWN while `intervene` changes the version, so the job goes
on, meets a conflict with its goals and asks the user; a second `intervene` takes
the last goal away; the next job finds a run without goals and compiles its text
again, a model now routes it to CHAT (`ta/runtime/harness.py:639`), and
`ta/runtime/harness.py:255` completes a chat without a look at
`unresolved_unknown`. An answer to the question opens the same way. Only a model
whose `routeHint` is CHAT for a text it first took for a task can do that; the
local compiler tests the whole text for being small talk.

And one with `Task`: `MCTask` with `Requests <- PlayRequests` violates
`SaidIsDone`. A live model asks a question and lists half of the goals; the
question is dropped with "play", and the run is COMPLETED, where
`ta/runtime/goal_compiler.py:3` says "Model candidates must cover every detected
user intent; missing coverage forces CLARIFY instead of a false COMPLETED."

### Texts that are not done

`AchievableCompletes` and `SaidIsDone` over all pairs and triples of the phrases
of `Utterance` showed which ones do not survive company; the requests of `task`
leave them out, and each was confirmed against the Python code. No document
promises these, so none is a finding.

* In company a fan value ("风量2" becomes 1 or the remembered value) and a media
  volume ("媒体设为4" becomes the current one minus two) are lost, "关闭空调"
  turns the air conditioner on, and "回家" or "去公司" during a navigation makes
  no action and is COMPLETED.
* "还有多久", "去结算" and "点外卖" drop a navigation said with them;
  "打开导航播报" drops "播放X"; "进店X" drops what was to be put in the cart.
* "打开空调，车窗开到30%，空调设为22度" sets 30 degrees.
* "删除途经点X" with another clause also adds X; "关闭外卖" asks for both
  opening and closing; "暂停导航，播放X" and "还有多久，当前目的地" end PARTIAL;
  "不要开窗，打开车窗" is STOPPED by the policy, and the REJECT route for it is
  never taken.
* A remembered media volume above ten makes `bind` raise and the run STOPPED;
  `write_manual` accepts any value. A volume goal on a muted device is revised
  until the run is STOPPED.
* A live model that routes a hint to CHAT completes the run without a write, and
  one that leaves a ban out of its answer drops it: `BansKept` is therefore
  claimed for what the task forbids, and for what the user said only with the
  compiler's own candidate.
* A budget of tool calls that ends between proposal and dispatch leaves an
  AUTHORIZED action in a STOPPED run.

### Other things no document speaks about

* A goal change at the `POLICY` event leaves a confirmation question for the old
  version that no answer matches.
* A run that is cancelled while its write is at the device no longer keeps the
  device, and the next run may dispatch a write beside it.
* A crash during a recovery leaves an `UNKNOWN` action on a finished run with
  `unresolved_unknown` False (`RecoveredClean` excludes it by `torn`).
* A save of the device that fails in a tick is swallowed by the clock, and a
  query already answers with the result: the run may record APPLIED where a
  restart finds the device's action NOT_APPLIED (`DiskIsTrue` holds until a save
  of the device fails, and is violated without that condition).
* A `RUN_FINISHED` that cannot be stored leaves a run that is over in memory and
  open on disk, INTERRUPTED after a restart; raised in the deadline loop it ends
  the loop until the next `create_run`. A job that is stopped by its storage
  leaves a DISPATCHED or ACKNOWLEDGED action with `unresolved_unknown` False.
* `INTERRUPTED` is only set by `SqlitePersistence.init`, which does not call
  `_on_terminal`, so interrupted runs never reach the dead letters.
* A stream that closes on the terminal view closes before the terminal event,
  which the browser then never shows, since the view is computed by the listener
  of an earlier event; the device panel may stay at an old state once the run
  stream is closed; a browser that waits for a question is not told that the
  deadline ended the run.

## 5. Fairness

`FairSpec` of `Harness` adds strong fairness of the job, of the requests under
way and of the deadline timer, and weak fairness of the clock. The code justifies
it: one event loop runs every ready coroutine; `asyncio.Lock` wakes its waiters in
the order they came, so a coroutine that wants `run_lock` or `append_event` again
and again while others take turns gets it (strong fairness); reads and model
calls return or raise, since the adapters have timeouts; the deadline is a time
and the timer polls it for ever. Nothing is assumed of users, of the operator who
switches the placement or the environment, or of the device: a command may stay
QUEUED for ever. `append_event` is assumed to store there; `Recovery` has it fail.

`Task` assumes that the job goes on when it can (`JobRuns`, which is
`WF_vars(Job)` with `Ready` in the place of ENABLED, since evaluating ENABLED
would compile the text at every state) and that the clock plays a prompt that is
due (`WF_vars(Prompt)`). Nothing is assumed of answers, touches or edits.

`Stream` assumes weak fairness of what the event loop runs: the appends and their
listeners (`Runtime`), the commit of the device, the two streams, to which the
reconnecting of an `EventSource` belongs. Nothing is assumed of the run, whose
lifecycle may stay as it is, or of connections, which may break.
`PanelSettles` has the premise that the run stream stays live; without it the
panel may keep an old state (above).

## 6. What is proved

TLAPS checks these for every value of the constants that satisfies the
assumption of the module (`ConstantsAssumption`, `AdmissionAssumption`,
`RecoveryAssumption`, `DeviceAssumption`, `NotesAssumption`, `RequestsAssumption`,
`StreamAssumption`). They say that bounds are natural numbers, that some sets are
not empty, and that a request comes with a whole device. Three theorems of
`FinishProofs` assume more, the absence of requests that break them (section 4).
Three others hold of every kind of request and assume of the behaviour only that one
named step is not taken, the one section 4 shows doing the harm.

| theorem | statement | needs |
| --- | --- | --- |
| `TypeProofs!TypeCorrect` | `Spec => []TypeOK` | `TypeInv` |
| `ActionProofs!OneAtATime` | `Spec => []OneOutstanding` | `TypeInv`, `ActionInv` |
| `ActionProofs!FlagIsExact` | `Spec => []UnknownExact` | the same |
| `ActionProofs!ResultsAreTrue` | `Spec => []SettledTruth` | the same |
| `ActionProofs!NoDuplicateHolds` | `Spec => []NoDuplicateWrite` | `ActionInv`, `OnceInv` |
| `ActionProofs!ApprovedOnlyHolds` | `Spec => []ApprovedOnly` | `ActionInv`, `CreditInv` |
| `ActionProofs!SendsWithinBudget` | `Spec => [](Cardinality(AllSent) <= MaxWrites)` | `SpendInv` |
| `FinishProofs!NothingLeftOpen` | `Spec => []NothingAskedAtEnd` | inductive as it is |
| `FinishProofs!OnlyGoalChangesReopen` | `Spec => [][Reopens \/ FinalKept]_vars` | `OneOwner`, `AskedInv` |
| `FinishProofs!EndsUnlessReopened` | `Spec /\ [][~Reopens]_vars => TerminalIsFinal /\ []CancelWins` | the same, `CancelledInv` |
| `FinishProofs!TerminalStays` | `Spec => TerminalIsFinal` | the same; no `intervene` |
| `FinishProofs!CancellationWins` | `Spec => []CancelWins` | the same; no `intervene` |
| `FinishProofs!NeverResentHolds` | `Spec => NeverResent` | `ActionInv`, `TurnInv` |
| `FinishProofs!ContractHolds` | `Spec => ContractSpec` | `ActionInv`, `TurnInv` |
| `FinishProofs!NoFalseSuccessHolds` | `Spec => []NoFalseSuccess` | `TurnInv`, `SuccessInv` |
| `FinishProofs!CurrentUnlessOvertaken` | `Spec /\ [][~OvertakesVerdict]_vars => CompletedForCurrentGoal` | `AskedInv`, `VersionInv`, `CurrentInv` |
| `FinishProofs!OnlyOvertakenJobsLeave` | `Spec => [][Orphaned' => Orphaned \/ LeavesOvertaken]_vars` | `TurnInv`, `ReturnInv` |
| `FinishProofs!WorkerUnlessOvertaken` | `Spec /\ [][~LeavesOvertaken]_vars => []RunningHasWorker` | the same |
| `FinishProofs!RunningHasWorkerHolds` | `Spec => []RunningHasWorker` | `TurnInv`, `CancelInv`, `AttendInv`; no `intervene`, no `placement` |
| `AdmissionProofs!TypeCorrect` | `Spec => []TypeOK` of `Admission` | `BoundsInv`, `BreakerInv` |
| `AdmissionProofs!OneActiveHolds` | `Spec => []OneActive` | `RunType` |
| `AdmissionProofs!SameRequestSameRunHolds` | `Spec => []SameRequestSameRun` | `RunType`, `QueueInv` |
| `AdmissionProofs!RateKeptHolds` | `Spec => []RateKept` | `QueueInv`, `WindowInv` |
| `AdmissionProofs!CircuitExactHolds` | `Spec => []CircuitExact` | `BreakerInv` |
| `RecoveryProofs!TypeCorrect` | `Spec => []TypeOK` of `Recovery` | `QueueInv`, `LifeInv` |
| `RecoveryProofs!WriteAheadHolds` | `Spec => []WriteAhead` | `AheadInv` |
| `RecoveryProofs!DiskIsTrueHolds` | `Spec => []DiskIsTrue` | `AheadInv`, `DiskInv` |
| `RecoveryProofs!ToldIsKeptHolds` | `Spec => []ToldIsKept` | `LifeInv` |
| `RecoveryProofs!NoOrphanHolds` | `Spec => []NoOrphan` | `LifeInv` |
| `RecoveryProofs!OneInDoubtHolds` | `Spec => []OneInDoubt` | `DoubtInv` |
| `RecoveryProofs!RecoveredCleanHolds` | `Spec => []RecoveredClean` | `DoubtInv` |
| `RecoveryProofs!DiskOnlyAdvances` | `Spec => [][Advanced(saved, saved')]_saved` | `RecoveryInv`, `OrderInv` |
| `DeviceProofs!TypeCorrect` | `Spec => []TypeOK` of `DeviceSim` | `DeviceInv` |
| `DeviceProofs!EffectOnceHolds` | `Spec => []EffectOnce` | `DeviceInv` |
| `DeviceProofs!RecordIsTrueHolds` | `Spec => []RecordIsTrue` | `DeviceInv` |
| `DeviceProofs!AppliedAsPlannedHolds` | `Spec => AppliedAsPlanned` | `DeviceInv` |
| `DeviceProofs!PortHolds` | `Spec => PortSpec` | `DeviceInv` |
| `TaskProofs!HintsAreLiveHolds` | `Spec => HintsAreLive` | `MemoryInv` |
| `TaskProofs!BansKeptHolds` | `Spec => []BansKept` | `BansInv` |
| `TaskProofs!VerdictIsTrue` | a verdict on a task is `Aggregate(task, dev)` | `VerdictInv` |
| `TaskProofs!MemoryOnlySuggestsHolds` | `Spec => MemoryOnlySuggests` | `Twins`, of every step |
| `TaskProofs!TypeCorrect` | `Spec => []TypeOK` of `Task` | `LimitsInv`, `BansInv`, `MemoryInv` |
| `StreamProofs!NoGapHolds` | `Spec => []NoGap` | `StreamInv` |
| `StreamProofs!TypeCorrect` | `Spec => []TypeOK` of `Stream` | `StreamInv`, `RealInv` |

*Types.* `TypeOK` alone is not inductive: what the job hands itself across an
await (`w.arg`) becomes a lifecycle, an outcome or a device reply at the next
step. `TypeInv` adds `Handed`, which says for each program counter what kind of
value waits there.

*Actions.* The three facts about the record hold because `execute_write` does its
steps in one order. `ActionInv` is their conjunction (`Record`) with `Progress`,
which says for each program counter of the executor where the newest action
stands and that no other action is in doubt. The steps outside the executor
leave the record alone (`HarnessOutside`, `WorldKeeps`) or withdraw only what is
merely proposed (`ClientsKeep`), so one lemma, `ExecuteWriteKeeps`, carries the
argument. `StatusAdvances` adds which way a status may go in a step, and in which
action.

*Once, and only if approved.* The gate looks for an applied action of the same
capability and version before the lock is taken, so its answer has to survive every
await up to the dispatch: `OnceInv` says that from the gate's consent on no action of
the chosen capability and version is APPLIED, which holds because nothing but the job
itself sends. An approval is stored on the task, may outlive the job that asked for it
and is consumed by whoever the policy allows. `CreditInv` therefore counts: for each
goal version, the writes that were sent, plus the approval that is stored, plus the
one the job has consumed and not yet used, are at most the approvals given.

*Budget.* `SpendInv` adds the write that is counted and not yet dispatched to those
that were sent: together they are at most `writes`, which no step takes back. A write
that is withdrawn after it was counted stays counted, so the bound is not an equality.

*Finishing.* The owner of `run_lock` is the coroutine that stands inside it, and
nobody else does (`OneOwner`); between the two writes of `_finish_locked` and of
`cancel` the lock is held, so a second finisher reads a terminal run. The policy's
answer is awaited under the lock and only asked for a run that goes on (`AskedInv`),
so the question that follows is not put to a finished run; an accepted cancellation
owns the lock until it has finished the run (`CancelledInv`). `intervene` changes
the lifecycle without the lock. What it does is named: `Reopens` is an `intervene`
that was accepted before the end, awaited `PENDING_INVALIDATED` and goes on after it.
`OnlyGoalChangesReopen` says that this is the one step that takes a run out of its
end, `EndsUnlessReopened` that nothing else breaks `TerminalIsFinal` and `CancelWins`.
`TerminalStays` and `CancellationWins` follow for runs without `intervene`, where
nobody can take that step (`NoChange`).

*Turns.* `execute_write` does not look at an action's status between the policy's answer
and AUTHORIZED, and `intervene` withdraws a proposed action without the lock. That a
withdrawn action is never authorized follows from the order of `append_event`:
a coroutine that waits there is in the queue, once (`QueueInv`); the version the job
holds is the run's or an older one (`VersionInv`); and an `intervene` that has raised
the version and still has to withdraw finds the job with an older version or in the
queue behind itself, so that the action of a job at the current version is not
withdrawn (`OvertakenInv`). This needs no assumption on the requests. `NeverResent`
and the refinement of `ActionContract` are read off: `ContractStep` maps each step of
the harness to the step of the contract that moves the same action, or to a stutter.

*Success.* `COMPLETED` is passed along several awaits before `_finish` writes it
(`Judged`). `ClaimInv` says that from the judgement on no write is in doubt, unless the
run is routed to CHAT; `SendingInv` that an action is DISPATCHED or ACKNOWLEDGED only
while its job waits for the device, so a job that judges has none; `ChatInv` that a run
routed to CHAT has no goals an `intervene` could change. The exception is not for the
proof's sake: section 4 has the run that ends COMPLETED in doubt by way of a chat.

*Verdicts.* `CompletedForCurrentGoal` is what `stale_verdict` refutes: `_conclude`
compares the versions, `_finish` does not. `OvertakesVerdict` is a change of the
version while the job carries a verdict of COMPLETED from the one to the other.
`CurrentInv` says that until then the verdict is on the current goals. `_conclude` gives
it at the current version; small talk is completed without `_conclude`, right
after the compile call, during which `VersionInv` knows that nothing could change the
version, or the run is over, or that verdict is on its way (second part).

*Workers.* `RunningHasWorker` is about the hand-over between a job that asks and
leaves and a request that lets the run go on and launches the next one.
`AttendInv` says that the question is open exactly while the run waits, that a job that
is leaving a run that goes on stands behind the answer in the queue, and that a job
that is not done holds the current version and epoch, so it never leaves as stale.
The last part fails as soon as another request changes the version or the epoch, which
is why `intervene` and `placement` are left out; with either, section 4 shows the run
that nobody works on. With them, `ReturnInv` keeps what remains true: a job that
returns from a run that goes on was overtaken since it took its copies (`Overtaken`: a
cancellation, a newer version, a newer epoch), or a change behind it in the queue will
launch the next job. So a run is only left alone (`Orphaned`) by an overtaken job
(`OnlyOvertakenJobsLeave`); a job that was not overtaken, a question, an answer, the
deadline and a failed write never do it.

*Admission.* `OneActive` needs only types: the check and the save are one step.
A submission must not be answered with its own run, so `QueueInv` says that who
is queued is queued once and has no run yet. `WindowInv` gives every run that may still count
against the rate a place of its own in the window of its tenant; what is popped has
no such run, so the entries left bound their number. The breaker keeps a count and a set,
the property speaks of the history of outcomes; `Trailing` ties them: the count is
the length of the run of failures the history ends with, so a late success in the
middle of failures shortens both. `BoundsInv` adds to these three what the types
of windows and times need.

*Recovery.* The argument follows a row of the run through the queue of saves.
Events are appended under `run_lock`, so at most one coroutine waits in
`append_event` and at most one row of the run is in the queue (`QueueInv`). A
process that is down has no queue, and a device equal to its row (`DownInv`).
`AheadInv` says that what the device knows is dispatched in all three copies of
the run, in memory, in the queue and on disk, and that the action the job is
about to send is unknown to the device and already dispatched in them. `DiskInv`
says that a result in a copy is the device's, and that the device's own row is
saved or waits in the queue ahead of the row that tells it; a failing save of the
device breaks exactly this. `LifeInv` says that a run that is being closed is
over, and that what a user was told of is in every copy. `DoubtInv` says that every
copy names its action in doubt by `in_flight_action_id`, and that its
`unresolved_unknown` is exact unless a recovery is under way or was cut off; where
the action of the job stands at each of its events (`StandInv`) and what a recovery
has looked at so far (`ReadInv`) make this inductive.

That the row only advances is an invariant of the same queue (`OrderInv`): the row on
disk, each row that waits to be saved, and the run in memory are in order. `Advanced` is
that order, an end kept and every action at a status that may follow the one it had
(`Follows`). A recovery begins from the row on disk and so does not fall behind it.

*Device.* `DeviceInv` has two parts. `KeyInv` ties the record of a key to what
happened to it: a plan of the present environment whose key has no record was never
executed, because a new environment forgets the records and outdates every plan in
the same step; a queued record belongs to the present environment and had no effect
yet; a record of the present environment says APPLIED exactly if there was one
effect. `CountInv` says that a revision has moved since a plan's snapshot by as much
as its domain was changed, so equal revisions mean an unchanged state.
`PortHolds` is a refinement proof: a first write of a key is `Receive` and the end
of its outcome, a late application is `End`, a restart or reset that outdates held
actions is `GiveUp`, and every other step is a stutter of `DeviceContract`.

*Task.* `MemoryInv` says that an entry is in use exactly while it is the newest of its
tenant and key and was not deleted (`InUse`), and that every tenant and key with
entries has a newest one (`HasNewest`). `BansInv`
says that a text that is still to be compiled has no writes of its version, so that
an answer that adds a ban does not judge earlier writes; and that the task of the
compiler's own candidate forbids what the text forbids (`Heeds`), through
normalisation and binding. That no action of any draft passes the gates against a
ban is then a property of `PolicyAllows`, for every action and plan. `LimitsInv` is
`TypeOK` without the memory; with `BansInv`, which knows that `wrote` is a sequence, it
is inductive: a run makes six writes at most, each valid for the registry and of a
version that was, and one version for every answer. `VerdictInv` keeps the verdict equal
to what the criteria say of the device: the device is read when the verdict is given and
nothing moves it after the end. `MemoryOnlySuggests` needs no
invariant, since it holds of every text, device and memory: the compiler takes the
same way with hints as without (`CompiledTwins`), and on the one way that uses hints
the goals are alike, part by part (`CabinAlike`, `MediaAlike`), through coverage,
normalisation and the correction of the route.

*Stream.* An event below one that is shown is shown, unstored, still to be
replayed, in the queue or being written, and replay and queue are in order
(`StreamInv`): a queue is registered before the stored events are read, so what
is appended during the replay is in the queue, behind what was there. `RealInv` says
of everything on its way to the browser that it is there: no event beyond the journal,
no state of the device beyond the last change; and a run stream is open only while
the browser watches.

## 7. What is only model-checked

* The liveness properties `EventuallyFinal`, `JobEnds`, `AchievableCompletes`,
  `WatchEnds` and `PanelSettles`: liveness under fairness is beyond the prover.
* `SaidIsDone`. It does not hold for every value of `Requests`: section 4 lists the
  texts that are not done, and `PlayRequests`. That it holds for the 3700 requests of
  `task` is a statement about the tables of phrases, goals and capabilities, where
  every case differs. The half of it that lies behind the compiler is a theorem, for all
  requests: `VerdictIsTrue`, that a COMPLETED task has all its criteria met.

All other properties of the passing runs are theorems of section 6.

## 8. What is not modelled

* Texts that are not made of the clauses of `Utterance`, the wording of
  questions, reasons and evidence. In `Harness` the meaning of texts, the
  reviewer's and auditor's opinion are nondeterministic; `Task` has them.
* A language model's answer beyond the deviations of `LiveAnswers` and
  `LiveDrafts`; HTTP, retries and JSON parsing of the adapters.
* Counters of model calls, and in `Harness` of tool calls: wherever they are
  counted, an exception may be raised (`Raise`).
* `append_event` that raises in a request of a user (`cancel` then returns with
  `cancel_accepted` set on a run that is not finished) and the end of the deadline
  loop with it; a save that fails during a recovery. Both are seen from the job,
  the device and the end of a run in `Recovery`.
* The pause of the evaluation harness and `reset_experiment`.
* In `Admission`: the manual reset of the breaker and several devices (a service
  has one). In `Recovery`: several runs, new environments, which `DeviceSim` has,
  and goal changes, which `Harness` has. In `DeviceSim`: the values of fields,
  which `Capabilities` has; an effect is the set of domains it changes.
* In `Memory`: how a preference is recognised in a sentence, nicknames, hit
  counts, several sessions. In `Stream`: pings, the 120 seconds after which a
  browser stops by itself, several runs.
* Dead letters, metrics, authentication, evaluation, the unguarded baseline and
  the Java reference: they are read by nobody, are I/O, or are not the program.

## 9. Plan

What would come next, in this order:

1. `append_event` that raises inside the requests of `Harness`.
2. `reset_experiment` against a run whose write is at the device.
