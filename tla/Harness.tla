------------------------------- MODULE Harness -------------------------------
(* HarnessService (runtime/harness.py): the job that compiles, plans, acts,  *)
(* audits and concludes one run, and the requests that reach the run while   *)
(* the job is suspended: cancel, intervene, answers, the deadline timer.     *)
(* Reads and model calls that follow each other with no decision in between  *)
(* are one suspension.                                                       *)
EXTENDS Executor

-----------------------------------------------------------------------------
(* Where the job goes next. A "body" is the code from one await to the next. *)

\* One round of _work_fast_or_legacy; step counts the rounds taken.
LoopRound(step) ==
  IF step = MaxSteps \/ Offline THEN Stop("STOPPED")
  ELSE /\ w' = [NoWorker EXCEPT !.pc = "observe", !.v = version, !.e = epoch,
                  !.plan = IF route = "FAST" THEN goals ELSE Caps,
                  !.bound = criteria, !.step = step + 1]
       /\ store' = Rest

LoopHead(step) == IF Halted THEN Leave ELSE LoopRound(step)

\* The head of _work_multi_agent: it plans for the goals it copies here.
MultiHead ==
  IF Offline THEN Stop("STOPPED")
  ELSE /\ w' = [NoWorker EXCEPT !.pc = "multi", !.v = version, !.e = epoch, !.flow = "multi",
                  !.plan = IF goals = {} THEN Caps ELSE goals, !.bound = criteria]
       /\ store' = Rest

\* _work once the goals are compiled.
Branch ==
  CASE route = "CHAT"        -> Stop("COMPLETED")
    [] route = "MULTI_AGENT" -> MultiHead
    [] OTHER                 -> LoopRound(0)
BranchUnlessHalted == IF Halted THEN Leave ELSE Branch

\* One planning round of _work_multi_agent.
RoundHead(round) ==
  IF round > MaxReplans THEN Go("verify")
  ELSE IF Stale THEN Log("leave")
  ELSE w' = [w EXCEPT !.pc = "draft", !.arg = "NONE", !.round = round, !.step = 0] /\ store' = Rest

\* The next action of the plan, or the audit once the plan is done.
PlanHead ==
  \/ /\ w.step < MaxSteps
     /\ IF Stale THEN Log("leave")
        ELSE w' = [w EXCEPT !.pc = "gate", !.arg = "NONE", !.step = @ + 1] /\ store' = Rest
  \/ IF Terminal \/ pending # NoPending THEN Leave
     ELSE IF Stale THEN Log("leave") ELSE Go("audit")

\* HarnessService._wait_for, to resume at p
WaitFor(p) ==
  /\ lifecycle' = "WAITING_CLARIFICATION"
  /\ pending' = [type |-> "CLARIFICATION", ver |-> version, cap |-> "NONE"]
  /\ Log(p)

\* Mutant: the gate does not look for the same action in run.actions.
MutAlreadyApplied(c) == FALSE
\* PreflightGate.check_action, with the await of its event
AlreadyApplied(c) == \E i \in ActionIds : status[i] = "APPLIED" /\ acap[i] = c /\ aver[i] = w.v
GateDecisions(c) ==
  IF ~StillCurrent THEN {"STALE"}
  ELSE IF expired \/ writes >= MaxWrites THEN {"DENY"}
  ELSE IF AlreadyApplied(c) THEN {"SKIP"}
  ELSE {"SKIP", "DENY"} \cup IF c \notin forbidden /\ last < MaxActions THEN {"WRITE"} ELSE {}
CheckAction(c) ==
  \E d \in GateDecisions(c) :
    /\ w' = [w EXCEPT !.pc = "gated", !.cap = c, !.arg = d]
    /\ store' = Append(Rest, "work")

-----------------------------------------------------------------------------
(* _work and _compile                                                        *)
WorkStart ==
  /\ At("start")
  /\ lifecycle' = IF Terminal THEN lifecycle ELSE "RUNNING"
  /\ IF Terminal THEN Leave
     ELSE IF goals = {} /\ route # "CHAT"
       THEN w' = [w EXCEPT !.pc = "compile", !.v = version, !.e = epoch] /\ store' = Rest
       ELSE Branch
  /\ UNCHANGED <<pending, cancelled, task, acts, counters, world, lock, req, history>>

CompileReturned ==
  /\ At("compile")
  /\ \/ Raise
     \/ Stale /\ Log("branch")             \* COMPILE_DISCARDED
     \/ ~Stale /\ Log("compiled")
  /\ UNCHANGED <<life, task, acts, counters, world, lock, req, history>>

RouteTask ==
  /\ At("compiled")
  /\ route' \in Routes \ {"NONE"}
  /\ Log("routed")
  /\ UNCHANGED <<life, version, goals, forbidden, keep, criteria, approval, acts, counters,
                 world, lock, req, history>>

\* TaskBinder.bind of the candidate; a fresh task knows no ban and no approval.
BindTask ==
  /\ goals' \in SUBSET Caps /\ keep' \in BOOLEAN
  /\ Bindable(goals', keep')
  /\ route = "FAST" => ~keep' /\ \E c \in Caps : goals' = {c}
  /\ criteria' = TRUE /\ forbidden' = {} /\ approval' = NoApproval
  /\ version' = w.v
  /\ Log("branch")

AfterRoute ==
  /\ At("routed")
  /\ \/ route = "CHAT" /\ BranchUnlessHalted /\ UNCHANGED <<life, task>>
     \/ route = "REJECT" /\ Stop("STOPPED") /\ UNCHANGED <<life, task>>
     \/ route = "CLARIFY" /\ Terminal /\ Leave /\ UNCHANGED <<life, task>>
     \/ route = "CLARIFY" /\ ~Terminal /\ WaitFor("branch") /\ UNCHANGED <<cancelled, task>>
     \/ route \in {"FAST", "MULTI_AGENT"} /\ BindTask /\ UNCHANGED <<life, route>>
     \/ route \in {"FAST", "MULTI_AGENT"} /\ Raise /\ UNCHANGED <<life, task>>  \* not bindable
  /\ UNCHANGED <<acts, counters, world, lock, req, history>>

ResumeBranch ==
  /\ At("branch")
  /\ BranchUnlessHalted
  /\ UNCHANGED <<life, task, acts, counters, world, lock, req, history>>

\* Every event after which the job only returns.
ResumeAndLeave ==
  /\ At("leave")
  /\ Leave
  /\ UNCHANGED <<life, task, acts, counters, world, lock, req, history>>

-----------------------------------------------------------------------------
(* _work_fast_or_legacy: one action per round                                *)
\* A plan came back: it is dropped when something overtook it.
PlanReady(d, c) ==
  IF Stale THEN Log("reloop")              \* PLAN_DISCARDED
  ELSE /\ w' = [w EXCEPT !.pc = "decide", !.arg = d, !.cap = c]
       /\ store' = Append(Rest, "work")

Observed ==
  /\ At("observe")
  /\ \/ Raise
     \/ w.bound /\ Log("conflict")         \* EXTERNAL_CONFLICT
     \/ route = "FAST" /\ (\E c \in w.plan : PlanReady("ACT", c))
     \/ route = "FAST" /\ w.plan # {} /\ Go("verify")   \* effects already match
     \/ route # "FAST" /\ Go("think")
  /\ UNCHANGED <<life, task, acts, counters, world, lock, req, history>>

PlanReturned ==
  /\ At("think")
  /\ \/ Raise
     \/ \E d \in {"FINISH", "CLARIFY", "READ", "INVALID"} : PlanReady(d, "NONE")
     \/ \E c \in Caps : PlanReady("ACT", c)
  /\ UNCHANGED <<life, task, acts, counters, world, lock, req, history>>

ResumeLoop ==
  /\ At("reloop")
  /\ LoopHead(w.step)
  /\ UNCHANGED <<life, task, acts, counters, world, lock, req, history>>

Decide ==
  /\ At("decide")
  /\ \/ w.arg = "CLARIFY" /\ Terminal /\ Leave /\ UNCHANGED life
     \/ w.arg = "CLARIFY" /\ ~Terminal /\ WaitFor("leave") /\ UNCHANGED cancelled
     \/ w.arg = "FINISH" /\ Go("verify") /\ UNCHANGED life
     \/ w.arg = "INVALID" /\ Raise /\ UNCHANGED life
     \/ w.arg = "READ" /\ LoopHead(w.step) /\ UNCHANGED life
     \/ w.arg = "ACT" /\ Stale /\ LoopHead(w.step) /\ UNCHANGED life
     \/ w.arg = "ACT" /\ ~Stale /\ CheckAction(w.cap) /\ UNCHANGED life
  /\ UNCHANGED <<task, acts, counters, world, lock, req, history>>

\* Both flows ask the user when someone else changed the device.
AskAboutConflict ==
  /\ At("conflict")
  /\ IF Terminal THEN Leave /\ UNCHANGED life ELSE WaitFor("leave") /\ UNCHANGED cancelled
  /\ UNCHANGED <<task, acts, counters, world, lock, req, history>>

Gated ==
  /\ At("gated")
  /\ \/ w.arg = "STALE" /\ w.flow = "multi" /\ Leave
     \/ w.arg = "STALE" /\ w.flow = "loop" /\ LoopHead(w.step)
     \/ w.arg = "DENY" /\ Stop("STOPPED")
     \/ w.arg = "SKIP" /\ w.flow = "multi" /\ PlanHead
     \/ w.arg = "SKIP" /\ w.flow = "loop" /\ Go("verify")
     \/ w.arg = "WRITE" /\ Go("propose")
  /\ UNCHANGED <<life, task, acts, counters, world, lock, req, history>>

\* execute_write returns, releasing the lock, and the flow looks at the action.
\* count_same_failure raises on the third NOT_APPLIED in a row, at the earliest
\* on the third one.
Failures(C) == Cardinality({i \in ActionIds : acap[i] \in C /\ status[i] = "NOT_APPLIED"})
AfterLoopWrite ==
  IF Terminal \/ pending # NoPending THEN Leave
  ELSE IF w.v # version THEN LoopHead(w.step)
  ELSE IF status[last] \in {"UNKNOWN", "REJECTED"} THEN Stop("STOPPED")
  ELSE \/ /\ status[last] = "NOT_APPLIED" /\ (expired \/ Failures(Caps) > 2)
          /\ Raise                                       \* count_same_failure
       \/ /\ ~(status[last] = "NOT_APPLIED" /\ expired)
          /\ IF Failures({w.cap}) >= 2 \/ route = "FAST" THEN Go("verify") ELSE LoopHead(w.step)
AfterPlannedWrite ==
  IF Terminal \/ pending # NoPending THEN Leave
  ELSE IF w.v # version THEN Log("leave")                 \* LATE_RESULT_IGNORED
  ELSE IF status[last] \in {"UNKNOWN", "REJECTED"} THEN Stop("STOPPED")
  ELSE PlanHead
WriteReturns ==
  /\ At("rejected") \/ At("waiting") \/ At("settled")
  /\ lock' = NoOne
  /\ IF w.flow = "loop" THEN AfterLoopWrite ELSE AfterPlannedWrite
  /\ UNCHANGED <<life, task, acts, counters, world, req, history>>

-----------------------------------------------------------------------------
(* _work_multi_agent: plan, preflight, execute, audit, at most MaxReplans more *)
MultiObserved ==
  /\ At("multi")
  /\ \/ Raise
     \/ w.bound /\ Log("conflict")
     \/ Log("round")                       \* TASK_SPEC
  /\ UNCHANGED <<life, task, acts, counters, world, lock, req, history>>

NextRound == RoundHead(IF w.pc = "round" THEN 0 ELSE w.round + 1)
StartRound ==
  /\ At("round") \/ At("replan")
  /\ NextRound
  /\ UNCHANGED <<life, task, acts, counters, world, lock, req, history>>

DraftReturned ==
  /\ At("draft")
  /\ \/ Raise
     \/ Stale /\ Log("leave")              \* PLAN_DRAFT_DISCARDED
     \/ ~Stale /\ Log("drafted")
  /\ UNCHANGED <<life, task, acts, counters, world, lock, req, history>>

\* PreflightGate.check_plan: the draft passes, is refused, or misses a goal.
CheckPlan ==
  /\ At("drafted")
  /\ \/ ~StillCurrent /\ Log("leave")
     \/ StillCurrent /\ \E p \in {"planned", "denied"} : Log(p)
     \/ StillCurrent /\ w.round < MaxReplans /\ Log("revise")
  /\ UNCHANGED <<life, task, acts, counters, world, lock, req, history>>

PlanDenied ==
  /\ At("denied")
  /\ Stop("STOPPED")
  /\ UNCHANGED <<life, task, acts, counters, world, lock, req, history>>

\* Mutant: off by one.
MutCanReplan == replans <= MaxReplans /\ ~expired
CanReplan == replans < MaxReplans /\ ~expired
RevisePlan ==
  /\ At("revise")
  /\ replans' = IF CanReplan THEN replans + 1 ELSE replans
  /\ IF CanReplan THEN NextRound ELSE Stop("STOPPED")
  /\ UNCHANGED <<life, task, acts, writes, world, lock, req, history>>

ExecutePlan ==
  /\ At("planned")
  /\ PlanHead
  /\ UNCHANGED <<life, task, acts, counters, world, lock, req, history>>

ActionObserved ==
  /\ At("gate")
  /\ \/ Raise
     \/ \E c \in w.plan : CheckAction(c)
  /\ UNCHANGED <<life, task, acts, counters, world, lock, req, history>>

\* Mutant: the verifier trusts the device state alone.
MutUnresolved == FALSE
\* Verifier.verify_goals, aggregated: a read that fails, an UNKNOWN action and
\* another environment make the outcome UNKNOWN, with criteria or without; a
\* task with no criterion is otherwise COMPLETED.
Unresolved == unknown \/ \E i \in ActionIds : status[i] = "UNKNOWN"
VerifyOutcomes ==
  {"UNKNOWN"} \cup IF Unresolved \/ ~sameEnv THEN {}
                   ELSE IF criteria THEN Overalls ELSE {"COMPLETED"}

VerifyPlan ==
  /\ At("audit")
  /\ \E o \in VerifyOutcomes : LogWith("results", o)
  /\ UNCHANGED <<life, task, acts, counters, world, lock, req, history>>

AskAuditor ==
  /\ At("results")
  /\ Raise \/ GoWith("auditing", w.arg)
  /\ UNCHANGED <<life, task, acts, counters, world, lock, req, history>>

AuditReturned ==
  /\ At("auditing")
  /\ \/ Raise
     \/ Stale /\ Log("leave")              \* AUDIT_DISCARDED
     \/ ~Stale /\ LogWith("audited", w.arg)
  /\ UNCHANGED <<life, task, acts, counters, world, lock, req, history>>

\* should_replan: the auditor may ask for it only when the facts say failure.
MayReplan ==
  w.arg \in {"PARTIAL", "FAILED"} /\ ~Terminal /\ ~cancelled /\ CanReplan
Audited ==
  /\ At("audited")
  /\ \/ MayReplan /\ replans' = replans + 1 /\ Log("replan")
     \/ GoWith("verify", w.arg) /\ UNCHANGED replans
  /\ UNCHANGED <<life, task, acts, writes, world, lock, req, history>>

-----------------------------------------------------------------------------
(* _conclude, then _finish under run_lock                                    *)
Conclude ==
  /\ At("verify")
  /\ \E o \in IF w.arg \in Overalls THEN {w.arg} ELSE VerifyOutcomes :
       IF Terminal \/ w.v # version THEN Leave ELSE LogWith("evaluated", ToLifecycle(o))
  /\ UNCHANGED <<life, task, acts, counters, world, lock, req, history>>

Evaluated ==
  /\ At("evaluated")
  /\ Stop(w.arg)
  /\ UNCHANGED <<life, task, acts, counters, world, lock, req, history>>

\* _finish_locked(lifecycle = to): a terminal run stays as it is.
FinishLocked(to) ==
  /\ lifecycle' = IF Terminal THEN lifecycle ELSE to
  /\ pending' = IF Terminal THEN pending ELSE NoPending

Finish ==
  /\ At("finish") /\ LockFree
  /\ FinishLocked(w.arg)
  /\ IF Terminal THEN Leave /\ UNCHANGED lock ELSE Log("finishing") /\ lock' = "work"
  /\ UNCHANGED <<cancelled, task, acts, counters, world, req, history>>

Finished ==
  /\ At("finishing")
  /\ lock' = NoOne
  /\ Leave
  /\ UNCHANGED <<life, task, acts, counters, world, req, history>>

WorkerStep ==
  \/ WorkStart \/ CompileReturned \/ RouteTask \/ AfterRoute \/ ResumeBranch \/ ResumeAndLeave
  \/ Observed \/ PlanReturned \/ ResumeLoop \/ Decide \/ AskAboutConflict
  \/ Gated \/ WriteReturns
  \/ MultiObserved \/ StartRound \/ DraftReturned \/ CheckPlan \/ PlanDenied \/ RevisePlan
  \/ ExecutePlan \/ ActionObserved \/ VerifyPlan \/ AskAuditor \/ AuditReturned \/ Audited
  \/ Conclude \/ Evaluated \/ Finish \/ Finished
  \/ ExecuteWrite

-----------------------------------------------------------------------------
(* Requests. HarnessService.cancel                                           *)
CancelAccept ==
  /\ "cancel" \in Requests /\ ClientAt("cancel", "idle") /\ LockFree /\ ~Terminal
  /\ lock' = "cancel" /\ cancelled' = TRUE
  /\ IF pending # NoPending
     THEN ClientAppends("cancel", "invalidating") /\ UNCHANGED status
     ELSE ClientAppends("cancel", "accepted") /\ WithdrawProposed
  /\ UNCHANGED <<lifecycle, pending, task, acap, aver, last, inFlight, unknown, counters,
                 world, w, history>>

CancelInvalidated ==
  /\ ClientResumes("cancel", "invalidating")
  /\ pending' = NoPending /\ WithdrawProposed
  /\ ClientAppendsNext("cancel", "accepted")
  /\ UNCHANGED <<lifecycle, cancelled, task, acap, aver, last, inFlight, unknown, counters,
                 world, lock, w, history>>

CancelFinish ==
  /\ ClientResumes("cancel", "accepted")
  /\ FinishLocked("CANCELLED")
  /\ ClientAppendsNext("cancel", "finishing")
  /\ UNCHANGED <<cancelled, task, acts, counters, world, lock, w, history>>

\* Mutant: the timer looks after running runs only.
MutTimerDue == expired /\ lifecycle = "RUNNING"
\* The deadline timer finds the run expired and not terminal.
TimerDue == expired /\ ~Terminal
TimerFinish ==
  /\ "deadline" \in Requests /\ ClientAt("timer", "idle") /\ LockFree /\ TimerDue
  /\ FinishLocked("TIMED_OUT")
  /\ lock' = "timer"
  /\ ClientAppends("timer", "finishing")
  /\ UNCHANGED <<cancelled, task, acts, counters, world, w, history>>

\* RUN_FINISHED is stored: whoever finished the run leaves run_lock.
ClientFinished(c) ==
  /\ ClientResumes(c, "finishing")
  /\ lock' = NoOne /\ store' = Tail(store)
  /\ ClientGo(c, "idle")
  /\ UNCHANGED <<life, task, acts, counters, world, w, history>>

\* HarnessService._ensure_mutable, with the version the client last saw
Mutable == ~Terminal /\ ~expired

\* Mutant: a resumed run gets no job.
MutLaunch == UNCHANGED w
\* _launch: a run whose job is still in _running gets no second one.
Launch == w' = IF w.pc = "off" THEN [NoWorker EXCEPT !.pc = "start"] ELSE w

(* HarnessService.intervene: no lock, and cancel_accepted is not looked at.  *)
Optional(S) == {{}} \cup {{x} : x \in S}
\* The edits a text may ask for: capabilities to ban, to (re)target, and
\* whether the navigation prompt need no longer be kept.
Edits == {e \in [ban : Optional(Caps), add : Optional(Caps), drop : BOOLEAN] :
            e.ban \cup e.add # {} \/ e.drop}
Edited(e) == (goals \ e.ban) \cup e.add

\* The edited task does not bind: ValueError after the edits in place.
InterveneRefused ==
  /\ "intervene" \in Requests /\ ClientAt("intervene", "idle") /\ Mutable /\ goals # {}
  /\ \E e \in Edits :
       /\ ~Bindable(Edited(e), keep /\ ~e.drop)
       /\ goals' = Edited(e) /\ forbidden' = forbidden \cup e.ban /\ keep' = (keep /\ ~e.drop)
  /\ UNCHANGED <<life, route, version, criteria, approval, acts, counters, world, lock, store,
                 w, req, history>>

\* The new task replaces the old one and the job, or a new job, takes it over.
TakeOver ==
  /\ lifecycle' = "RUNNING" /\ route' = "MULTI_AGENT"
  /\ WithdrawProposed

Intervene ==
  /\ "intervene" \in Requests /\ ClientAt("intervene", "idle") /\ Mutable /\ goals # {}
  /\ version < MaxVersion
  /\ \E e \in Edits :
       /\ Bindable(Edited(e), keep /\ ~e.drop)
       /\ goals' = Edited(e) /\ forbidden' = forbidden \cup e.ban /\ keep' = (keep /\ ~e.drop)
       /\ forbade' = (forbade \cup e.ban) \ e.add
  /\ version' = version + 1 /\ criteria' = TRUE
  /\ IF pending # NoPending
     THEN ClientAppends("intervene", "invalidating") /\ UNCHANGED <<lifecycle, route, status>>
     ELSE ClientAppends("intervene", "changed") /\ TakeOver
  /\ UNCHANGED <<pending, cancelled, approval, acap, aver, last, inFlight, unknown, counters,
                 world, lock, w, granted>>

InterveneInvalidated ==
  /\ ClientResumes("intervene", "invalidating")
  /\ pending' = NoPending
  /\ TakeOver
  /\ ClientAppendsNext("intervene", "changed")
  /\ UNCHANGED <<cancelled, version, goals, forbidden, keep, criteria, approval, acap, aver,
                 last, inFlight, unknown, counters, world, lock, w, history>>

\* answer_pending(APPROVE)
Approve ==
  /\ "answer" \in Requests /\ ClientAt("answer", "idle") /\ Mutable
  /\ pending.type = "CONFIRMATION" /\ pending.ver = version
  /\ pending' = NoPending /\ lifecycle' = "RUNNING"
  /\ approval' = [cap |-> pending.cap, ver |-> version]
  /\ granted' = [granted EXCEPT ![version] = @ + 1]
  /\ ClientAppends("answer", "changed")
  /\ UNCHANGED <<cancelled, route, version, goals, forbidden, keep, criteria, acts, counters,
                 world, lock, w, forbade>>

\* answer_clarification: a new task, to be compiled from the longer text
Clarify ==
  /\ "answer" \in Requests /\ ClientAt("answer", "idle") /\ Mutable
  /\ lifecycle = "WAITING_CLARIFICATION" /\ version < MaxVersion
  /\ version' = version + 1
  /\ goals' = {} /\ forbidden' = {} /\ keep' = FALSE /\ criteria' = FALSE
  /\ approval' = NoApproval /\ forbade' = {}
  /\ pending' = NoPending /\ lifecycle' = "RUNNING"
  /\ ClientAppends("answer", "changed")
  /\ UNCHANGED <<cancelled, route, acts, counters, world, lock, w, granted>>

\* The event of the change is stored: _launch, and the request is done.
ChangeStored(c) ==
  /\ ClientResumes(c, "changed")
  /\ store' = Tail(store)
  /\ Launch
  /\ ClientGo(c, "idle")
  /\ UNCHANGED <<life, task, acts, counters, world, lock, history>>

\* answer_pending(REJECT)
RejectAnswer ==
  /\ "answer" \in Requests /\ ClientAt("reject", "idle") /\ Mutable
  /\ pending # NoPending /\ pending.ver = version
  /\ ClientAppends("reject", "rejected")
  /\ UNCHANGED <<life, task, acts, counters, world, lock, w, history>>

RejectStored ==
  /\ ClientResumes("reject", "rejected")
  /\ store' = Tail(store)
  /\ ClientGo("reject", "locking")
  /\ UNCHANGED <<life, task, acts, counters, world, lock, w, history>>

RejectFinish ==
  /\ ClientAt("reject", "locking") /\ LockFree
  /\ FinishLocked("STOPPED")
  /\ IF Terminal THEN ClientGo("reject", "idle") /\ UNCHANGED <<lock, store>>
     ELSE ClientAppends("reject", "finishing") /\ lock' = "reject"
  /\ UNCHANGED <<cancelled, task, acts, counters, world, w, history>>

\* What a request that has begun does next.
ClientStep ==
  \/ CancelInvalidated \/ CancelFinish
  \/ InterveneInvalidated \/ RejectStored \/ RejectFinish
  \/ \E c \in {"intervene", "answer"} : ChangeStored(c)
  \/ \E c \in {"cancel", "timer", "reject"} : ClientFinished(c)
Request ==
  CancelAccept \/ Intervene \/ InterveneRefused \/ Approve \/ Clarify \/ RejectAnswer

-----------------------------------------------------------------------------
(* The world: the deadline, a placement switch, another environment, the     *)
(* device working on what it holds.                                          *)
Expire ==
  /\ "deadline" \in Requests /\ ~expired
  /\ expired' = TRUE
  /\ UNCHANGED <<life, task, acts, counters, epoch, sameEnv, dev, lock, store, w, req, history>>

SetPlacement ==
  /\ "placement" \in Requests /\ epoch < MaxEpoch
  /\ epoch' = epoch + 1
  /\ UNCHANGED <<life, task, acts, counters, expired, sameEnv, dev, lock, store, w, req, history>>

NewEnvironment ==
  /\ "environment" \in Requests /\ sameEnv
  /\ sameEnv' = FALSE
  /\ UNCHANGED <<life, task, acts, counters, expired, epoch, dev, lock, store, w, req, history>>

World == Expire \/ SetPlacement \/ NewEnvironment \/ \E i \in ActionIds : DeviceTick(i)

-----------------------------------------------------------------------------
\* create_run has stored RUN_RECEIVED and launched the job.
Init ==
  /\ lifecycle = "RECEIVED" /\ pending = NoPending /\ cancelled = FALSE
  /\ route = "NONE" /\ version = 1 /\ goals = {} /\ forbidden = {} /\ keep = FALSE
  /\ criteria = FALSE /\ approval = NoApproval
  /\ status = [i \in ActionIds |-> "PREPARED"] /\ acap = [i \in ActionIds |-> "NONE"]
  /\ aver = [i \in ActionIds |-> 0]
  /\ last = 0 /\ inFlight = 0 /\ unknown = FALSE /\ writes = 0 /\ replans = 0
  /\ expired = FALSE /\ epoch = 1 /\ sameEnv = TRUE /\ dev = [i \in ActionIds |-> "none"]
  /\ lock = NoOne /\ store = <<>>
  /\ w = [NoWorker EXCEPT !.pc = "start"]
  /\ req = [c \in Clients |-> "idle"]
  /\ granted = [v \in Versions |-> 0] /\ forbade = {}

Next == WorkerStep \/ ClientStep \/ Request \/ TimerFinish \/ World
Spec == Init /\ [][Next]_vars

\* The event loop lets every coroutine go on: asyncio.Lock serves its waiters in
\* order, reads and model calls return. The clock passes the deadline and the
\* timer polls it. Users, operators and the device owe nothing.
Fairness ==
  /\ SF_vars(WorkerStep) /\ SF_vars(ClientStep) /\ SF_vars(TimerFinish)
  /\ WF_vars(Expire)
FairSpec == Spec /\ Fairness
==============================================================================
