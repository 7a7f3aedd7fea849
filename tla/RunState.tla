------------------------------ MODULE RunState ------------------------------
(* The record of one run (contracts.py, RunRecord) and the coordination      *)
(* around it: the per-run lock and the event journal of persistence/store.py, *)
(* the coroutine that works on the run, and the coroutines of its clients.   *)
(*                                                                           *)
(* One asyncio loop executes everything, so code between two awaits is one   *)
(* atomic step. A coroutine suspends in three ways:                          *)
(*   - in append_event, which serialises its callers first come first        *)
(*     served: "store" is the queue, and only its head may resume;           *)
(*   - in front of run_lock;                                                 *)
(*   - in a device read, a model call or a sleep, of any length.             *)
EXTENDS Contracts, Integers, Sequences, FiniteSets

CONSTANTS
  Caps,                 \* capabilities (with their parameters) a plan may name
  Requests,             \* what the environment does: see RequestKinds
  RequireConfirmation,  \* PolicyEngine.require_confirmation
  MaxVersion,           \* bound on goal changes
  MaxEpoch,             \* bound on placement switches
  MaxActions,           \* tool budget, seen as a bound on proposed writes
  MaxWrites,            \* Budget.max_write_actions
  MaxReplans,           \* Budget.max_replans
  MaxSteps,             \* the 16 rounds of the legacy loop; length of a plan
  MaxReconcile          \* the 4 reads of an UNKNOWN action

RequestKinds == {"cancel", "intervene", "answer", "deadline", "placement", "environment"}

ASSUME ConstantsAssumption ==
  /\ Requests \subseteq RequestKinds
  /\ RequireConfirmation \in BOOLEAN
  /\ MaxVersion \in Nat \ {0} /\ MaxEpoch \in Nat \ {0}
  /\ MaxActions \in Nat /\ MaxWrites \in Nat /\ MaxReplans \in Nat
  /\ MaxSteps \in Nat /\ MaxReconcile \in Nat

VARIABLES
  lifecycle, pending, cancelled,                      \* where the run stands
  route, version, goals, forbidden, keep, criteria, approval,   \* its task
  status, acap, aver, last, inFlight, unknown,        \* its actions
  writes, replans,                                    \* its budget
  expired, epoch, sameEnv, dev,                       \* the world around it
  lock, store,                                        \* run_lock, append_event
  w,                                                  \* the worker coroutine
  req,                                                \* the client coroutines
  granted, forbade                                    \* history: what users said

life == <<lifecycle, pending, cancelled>>
task == <<route, version, goals, forbidden, keep, criteria, approval>>
acts == <<status, acap, aver, last, inFlight, unknown>>
counters == <<writes, replans>>
world == <<expired, epoch, sameEnv, dev>>
history == <<granted, forbade>>
vars == <<life, task, acts, counters, world, lock, store, w, req, history>>

ActionIds == 1..MaxActions
Versions == 1..MaxVersion
Clients == {"cancel", "timer", "intervene", "answer", "reject"}
NoPending == [type |-> "NONE", ver |-> 0, cap |-> "NONE"]
NoApproval == [cap |-> "NONE", ver |-> 0]
NoOne == "nobody"

Terminal == lifecycle \in TerminalLifecycles
Halted == Terminal \/ lifecycle \in WaitingLifecycles

\* The bind() contract: a task with no criterion is refused.
Bindable(g, k) == g # {} \/ k

-----------------------------------------------------------------------------
(* The worker: one job per run, remembered in HarnessService._running while  *)
(* its pc is not "off". It keeps what it copied before its awaits: version v, *)
(* epoch e, the capabilities its plan may name and whether they had criteria. *)
NoWorker == [pc |-> "off", v |-> 0, e |-> 0, flow |-> "loop", plan |-> {}, bound |-> FALSE,
             cap |-> "NONE", arg |-> "NONE", step |-> 0, round |-> 0, tries |-> 0]

\* Program counters at which the worker waits for its append_event.
Appending ==
  {"branch", "compiled", "routed", "conflict", "reloop", "decide", "gated", "leave",
   "round", "drafted", "planned", "denied", "revise", "results", "audited", "replan", "evaluated",
   "finishing", "proposed", "policy", "rejected", "waiting", "authorized", "intent",
   "dispatch", "acked", "recorded", "query", "reconciled", "settled"}
\* Program counters at which it waits for something else, or has not started.
Free == {"off", "start", "compile", "observe", "think", "multi", "draft", "gate", "audit",
         "auditing", "verify", "finish", "propose", "apply", "ack", "reconcile", "queried", "settle"}

At(p) == w.pc = p /\ (p \in Appending => store # <<>> /\ Head(store) = "work")
\* The queue once the worker has resumed.
Rest == IF w.pc \in Appending THEN Tail(store) ELSE store

GoWith(p, a) == w' = [w EXCEPT !.pc = p, !.arg = a] /\ store' = Rest
Go(p) == GoWith(p, "NONE")
\* await append_event(...), to resume at p
LogWith(p, a) == w' = [w EXCEPT !.pc = p, !.arg = a] /\ store' = Append(Rest, "work")
Log(p) == LogWith(p, "NONE")
\* The job returns and _running forgets it.
Leave == w' = NoWorker /\ store' = Rest
\* On the way to _finish(lifecycle = to).
Stop(to) == GoWith("finish", to)
\* An exception reaches the job, which stops the run.
Raise == Stop("STOPPED")

-----------------------------------------------------------------------------
(* A client coroutine c, suspended in append_event or about to call it.      *)
ClientAt(c, p) == req[c] = p
ClientResumes(c, p) == req[c] = p /\ store # <<>> /\ Head(store) = c
ClientGo(c, p) == req' = [req EXCEPT ![c] = p]
\* It appends an event and resumes at p, having resumed itself or not.
ClientAppends(c, p) == ClientGo(c, p) /\ store' = Append(store, c)
ClientAppendsNext(c, p) == ClientGo(c, p) /\ store' = Append(Tail(store), c)

\* Mutant: run_lock excludes nobody.
MutLockFree == TRUE
\* async with run_lock may go on.
LockFree == lock = NoOne

\* Mutant: the check forgets the goal version.
MutStillCurrent == ~Terminal /\ ~cancelled
\* Nothing overtook the plan: the check of execute_write, made after every await
\* under the lock, and of PreflightGate (there it answers STALE).
StillCurrent == ~Terminal /\ ~cancelled /\ w.v = version

\* HarnessService._stale
Stale == Terminal \/ cancelled \/ w.v # version \/ w.e # epoch

\* ModelRouter.is_offline_edge: every switch toggles cloud (odd) and edge.
Offline == epoch % 2 = 0

\* Mutant: it withdraws whatever has not finished.
MutWithdrawProposed ==
  status' = [i \in ActionIds |->
               IF status[i] \in {"PROPOSED", "DISPATCHED"} THEN "CANCELLED_BEFORE_DISPATCH" ELSE status[i]]
\* _invalidate_pending on the actions: what was only proposed is withdrawn.
WithdrawProposed ==
  status' = [i \in ActionIds |->
               IF status[i] = "PROPOSED" THEN "CANCELLED_BEFORE_DISPATCH" ELSE status[i]]
==============================================================================
