---------------------------- MODULE ActionProofs ----------------------------
(* The record of a run's writes is true, for every value of the constants:   *)
(* one write in doubt at a time, unresolved_unknown exact, results the       *)
(* device's. The invariant behind it says what execute_write has achieved at *)
(* each of its awaits; it has to, since the three facts are kept by the      *)
(* order of its steps and not by any guard of the step that would break them.*)
(* And a run sends no more writes than its budget.                           *)
EXTENDS TypeProofs, FiniteSetTheorems

\* Actions that were not proposed yet are untouched.
FreshUntouched == \A i \in ActionIds : i > last => status[i] = "PREPARED"

\* From the append to run.actions to the result, and off the lock in between.
BeforeSend == {"proposed", "policy", "authorized", "intent"}
InDoubt == {"dispatch", "apply", "ack", "acked", "recorded", "reconcile", "query", "queried",
            "reconciled", "settle"}
Writing == BeforeSend \cup InDoubt
Inside == Writing \cup {"rejected", "waiting", "settled"}
\* What execute_write knows of the action it handles.
Progress ==
  /\ w.pc \in Writing => last \in ActionIds
  /\ w.pc \in {"proposed", "policy"} => status[last] \in {"PROPOSED", "CANCELLED_BEFORE_DISPATCH"}
  /\ w.pc \in {"policy", "authorized", "intent"} => inFlight = 0 /\ ~unknown
  /\ w.pc \in {"authorized", "intent"} => status[last] = "AUTHORIZED"
  /\ w.pc \in InDoubt => inFlight = last
  /\ w.pc \in {"dispatch", "apply"} => status[last] = "DISPATCHED" /\ dev[last] = "none"
  /\ w.pc = "ack" => status[last] = "DISPATCHED"
  /\ w.pc = "acked" => status[last] = "ACKNOWLEDGED"
  /\ w.pc \in {"reconcile", "query", "queried"} => status[last] = "UNKNOWN"
  /\ w.pc \in {"recorded", "reconciled", "settle"} => status[last] \in {"APPLIED", "NOT_APPLIED", "UNKNOWN"}
Record == OneOutstanding /\ UnknownExact /\ SettledTruth /\ FreshUntouched
ActionInv == Record /\ Progress

\* A step that leaves the actions alone and execute_write at rest keeps it.
LEMMA AtRest ==
  ASSUME ActionInv, UNCHANGED <<acts, dev>>, w'.pc \notin Writing
  PROVE  ActionInv'
BY DEF ActionInv, Record, OneOutstanding, UnknownExact, SettledTruth, FreshUntouched, Progress,
       acts, Writing, BeforeSend, InDoubt

\* The steps of the job outside execute_write end outside it, or in front of it.
LEMMA HarnessOutside ==
  ASSUME TypeInv, HarnessStep
  PROVE  /\ w'.pc \notin Inside /\ UNCHANGED <<acts, dev>>
         /\ w'.pc = "finishing" => Finish
         /\ w'.pc = "gated" => w.pc \in {"decide", "gate"} /\ \E c : CheckAction(c)
         /\ w'.pc = "propose" => Gated /\ w.arg = "WRITE" /\ Go("propose")
<1> w \in Workers
  BY DEF TypeInv, TypeOK, TypeOfWorld
<1> USE DEF Inside, Writing, BeforeSend, InDoubt
<1>1. ASSUME NEW p, NEW a, GoWith(p, a) \/ LogWith(p, a)
      PROVE  w'.pc = p
  BY <1>1 DEF GoWith, LogWith, Workers
<1>2. ASSUME Leave PROVE w'.pc = "off"
  BY <1>2 DEF Leave, NoWorker
<1>3. ASSUME NEW to, Stop(to) PROVE w'.pc = "finish"
  BY <1>1, <1>3 DEF Stop
<1>4. ASSUME NEW n, LoopHead(n) \/ LoopRound(n) PROVE w'.pc \in {"off", "finish", "observe"}
  BY <1>2, <1>3, <1>4 DEF LoopHead, LoopRound, NoWorker
<1>5. ASSUME BranchUnlessHalted \/ Branch PROVE w'.pc \in {"off", "finish", "observe", "multi"}
  <2>1. ASSUME MultiHead PROVE w'.pc \in {"finish", "multi"}
    BY <1>3, <2>1 DEF MultiHead, NoWorker
  <2> QED
    BY <1>2, <1>3, <1>4, <1>5, <2>1 DEF BranchUnlessHalted, Branch
<1>6. ASSUME NEW r, RoundHead(r) PROVE w'.pc \in {"verify", "leave", "draft"}
  BY <1>1, <1>6 DEF RoundHead, Go, Log, Workers
<1>7. ASSUME PlanHead PROVE w'.pc \in {"leave", "gate", "off", "audit"}
  BY <1>1, <1>2, <1>7 DEF PlanHead, Go, Log, Workers
<1>8. ASSUME NEW c, CheckAction(c) PROVE w'.pc = "gated"
  BY <1>8 DEF CheckAction, Workers
<1>9. ASSUME NEW d, NEW c, PlanReady(d, c) PROVE w'.pc \in {"reloop", "decide"}
  BY <1>1, <1>9 DEF PlanReady, Log, Workers
<1> USE DEF Go, Log, Raise, acts, world
<1>10. CASE WorkStart \/ CompileReturned \/ RouteTask \/ AfterRoute \/ ResumeBranch \/ ResumeAndLeave
  <2>1. CASE WorkStart
    BY <1>2, <1>5, <2>1 DEF WorkStart, Workers
  <2>2. CASE AfterRoute
    BY <1>1, <1>2, <1>3, <1>5, <2>2 DEF AfterRoute, BindTask, WaitFor
  <2> QED
    BY <1>1, <1>2, <1>3, <1>5, <1>10, <2>1, <2>2
    DEF CompileReturned, RouteTask, ResumeBranch, ResumeAndLeave
<1>11. CASE Observed \/ PlanReturned \/ ResumeLoop \/ Decide \/ AskAboutConflict \/ Gated
  <2>1. CASE Gated
    BY <1>1, <1>2, <1>3, <1>4, <1>7, <2>1 DEF Gated
  <2>2. CASE Decide \/ AskAboutConflict
    BY <1>1, <1>2, <1>3, <1>4, <1>8, <2>2 DEF Decide, AskAboutConflict, WaitFor, At
  <2> QED
    BY <1>1, <1>3, <1>4, <1>9, <1>11, <2>1, <2>2 DEF Observed, PlanReturned, ResumeLoop
<1>12. CASE WriteReturns
  <2>1. ASSUME AfterLoopWrite PROVE w'.pc \in {"off", "finish", "observe", "verify"}
    BY <1>1, <1>2, <1>3, <1>4, <2>1 DEF AfterLoopWrite
  <2>2. ASSUME AfterPlannedWrite PROVE w'.pc \in {"off", "finish", "leave", "gate", "audit"}
    BY <1>1, <1>2, <1>3, <1>7, <2>2 DEF AfterPlannedWrite
  <2> QED
    BY <1>12, <2>1, <2>2 DEF WriteReturns
<1>13. CASE MultiObserved \/ StartRound \/ DraftReturned \/ CheckPlan \/ PlanDenied \/ RevisePlan
            \/ ExecutePlan \/ ActionObserved
  BY <1>1, <1>3, <1>6, <1>7, <1>8, <1>13
  DEF MultiObserved, StartRound, NextRound, DraftReturned, CheckPlan, PlanDenied, RevisePlan,
      ExecutePlan, ActionObserved, At
<1>14. CASE VerifyPlan \/ AskAuditor \/ AuditReturned \/ Audited \/ Conclude \/ Evaluated
            \/ Finish \/ Finished
  BY <1>1, <1>2, <1>3, <1>14
  DEF VerifyPlan, AskAuditor, AuditReturned, Audited, Conclude, Evaluated, Finish, Finished
<1> QED
  BY <1>10, <1>11, <1>12, <1>13, <1>14 DEF HarnessStep

\* A request withdraws what is only proposed, and may launch a job.
LEMMA WithdrawKeeps ==
  ASSUME TypeInv, ActionInv, WithdrawProposed, UNCHANGED <<acap, aver, last, inFlight, unknown, dev, w>>
  PROVE  ActionInv'
<1> status \in [ActionIds -> ExecutionStatuses]
  BY DEF TypeInv, TypeOK, TypeOfActions
<1>1. \A i \in ActionIds :
        status'[i] = IF status[i] = "PROPOSED" THEN "CANCELLED_BEFORE_DISPATCH" ELSE status[i]
  BY DEF WithdrawProposed
<1>2. Record'
  BY <1>1 DEF ActionInv, Record, OneOutstanding, UnknownExact, SettledTruth, FreshUntouched,
              Uncertain, Sent
<1>3. Progress'
  BY <1>1 DEF ActionInv, Progress, Writing, BeforeSend, InDoubt
<1> QED
  BY <1>2, <1>3 DEF ActionInv

LEMMA Unmoved ==
  ASSUME ActionInv, UNCHANGED <<acts, dev, w>>
  PROVE  ActionInv'
BY DEF ActionInv, Record, OneOutstanding, UnknownExact, SettledTruth, FreshUntouched, Progress, acts

LEMMA ClientsKeep ==
  ASSUME TypeInv, ActionInv, ClientStep \/ Request \/ TimerFinish
  PROVE  ActionInv'
<1>1. CASE WithdrawProposed /\ UNCHANGED <<acap, aver, last, inFlight, unknown, dev, w>>
  BY <1>1, WithdrawKeeps
<1>2. CASE UNCHANGED <<acts, dev, w>>
  BY <1>2, Unmoved
<1>3. CASE UNCHANGED <<acts, dev>> /\ Launch
  <2>1. w'.pc = "start" \/ w' = w
    BY <1>3, NoWorkerTyped DEF Launch, Workers
  <2> QED
    BY <1>3, <2>1, Unmoved, AtRest DEF Writing, BeforeSend, InDoubt
<1> QED
  BY <1>1, <1>2, <1>3
  DEF ClientStep, Request, CancelInvalidated, CancelFinish, InterveneInvalidated, RejectStored,
      RejectFinish, ChangeStored, ClientFinished, CancelAccept, Intervene, InterveneRefused,
      Approve, Clarify, RejectAnswer, TimerFinish, TakeOver, acts, world

\* The device ends what it holds: an action whose result is not recorded.
LEMMA WorldKeeps ==
  ASSUME TypeInv, ActionInv, World
  PROVE  ActionInv'
<1>1. CASE Expire \/ SetPlacement \/ NewEnvironment
  BY <1>1, Unmoved DEF Expire, SetPlacement, NewEnvironment
<1>2. ASSUME NEW i \in ActionIds, DeviceTick(i)
      PROVE  ActionInv'
  <2>1. dev \in [ActionIds -> DeviceStates] /\ dev[i] = "QUEUED"
    BY <1>2 DEF DeviceTick, TypeInv, TypeOK, TypeOfActions
  <2>2. \A j \in ActionIds : j # i => dev'[j] = dev[j]
    BY <1>2, <2>1 DEF DeviceTick
  <2>3. SettledTruth'
    BY <1>2, <2>1, <2>2 DEF DeviceTick, ActionInv, Record, SettledTruth, acts, Sent, Uncertain
  <2>4. Progress'
    BY <1>2, <2>1, <2>2 DEF DeviceTick, ActionInv, Progress, acts, Writing, BeforeSend, InDoubt
  <2> QED
    BY <1>2, <2>3, <2>4
    DEF DeviceTick, ActionInv, Record, OneOutstanding, UnknownExact, FreshUntouched, acts
<1> QED
  BY <1>1, <1>2 DEF World

\* One status changes, to one that is neither in doubt nor a result.
LEMMA HarmlessStatus ==
  ASSUME TypeInv, Record, last \in ActionIds, NEW s, s \notin Sent,
         status[last] \notin Sent,
         status' = [status EXCEPT ![last] = s], UNCHANGED <<last, inFlight, unknown, dev>>
  PROVE  Record' /\ status'[last] = s
<1>1. /\ \A i \in ActionIds : i # last => status'[i] = status[i]
      /\ status'[last] = s
  BY DEF TypeInv, TypeOK, TypeOfActions
<1>2. \A i \in ActionIds : i > last => i # last
  BY DEF ActionIds, TypeInv, TypeOK, TypeOfActions
<1> QED
  BY <1>1, <1>2 DEF Record, OneOutstanding, UnknownExact, SettledTruth, FreshUntouched, Sent, Uncertain

\* One status changes while its action is the one in doubt.
LEMMA DoubtStatus ==
  ASSUME TypeInv, Record, last \in ActionIds, inFlight' = last,
         \A i \in ActionIds : i # last => status[i] \notin Uncertain,
         NEW s \in Uncertain \cup {"APPLIED", "NOT_APPLIED"},
         s \in {"APPLIED", "NOT_APPLIED"} => dev[last] = s,
         status' = [status EXCEPT ![last] = s], unknown' = (s = "UNKNOWN"),
         UNCHANGED <<last, dev>>
  PROVE  Record' /\ status'[last] = s
<1>1. /\ \A i \in ActionIds : i # last => status'[i] = status[i]
      /\ status'[last] = s
  BY DEF TypeInv, TypeOK, TypeOfActions
<1>2. \A i \in ActionIds : i > last => i # last
  BY DEF ActionIds, TypeInv, TypeOK, TypeOfActions
<1>3. UnknownExact'
  BY <1>1 DEF UnknownExact, Uncertain
<1>4. SettledTruth'
  BY <1>1 DEF Record, SettledTruth, Sent, Uncertain
<1> QED
  BY <1>1, <1>2, <1>3, <1>4 DEF Record, OneOutstanding, FreshUntouched

LEMMA RejectKeeps ==
  ASSUME TypeInv, Record, last \in ActionIds, status[last] \notin Sent, NEW s \in Refused,
         Reject(s), UNCHANGED <<last, inFlight, unknown, dev>>
  PROVE  ActionInv'
<1>1. Record'
  BY HarmlessStatus DEF Reject, Refused, Sent, Uncertain
<1>2. w'.pc = "rejected"
  BY DEF Reject, Log, LogWith, TypeInv, TypeOK, TypeOfWorld, Workers
<1> QED
  BY <1>1, <1>2 DEF ActionInv, Progress, Writing, BeforeSend, InDoubt

\* Where execute_write knows that no other action is in doubt.
LEMMA OnlyLast ==
  ASSUME ActionInv, w.pc \in InDoubt
  PROVE  /\ last \in ActionIds /\ inFlight = last
         /\ \A i \in ActionIds : i # last => status[i] \notin Uncertain
BY DEF ActionInv, Record, OneOutstanding, Progress, Writing

LEMMA ExecuteWriteKeeps ==
  ASSUME TypeInv, ActionInv, ExecuteWrite
  PROVE  ActionInv'
<1> w \in Workers /\ status \in [ActionIds -> ExecutionStatuses] /\ last \in 0..MaxActions
    /\ dev \in [ActionIds -> DeviceStates]
  BY DEF TypeInv, TypeOK, TypeOfWorld, TypeOfActions
<1> USE DEF Writing, BeforeSend, InDoubt
<1>0. ASSUME NEW p, NEW a, GoWith(p, a) \/ LogWith(p, a)
      PROVE  w'.pc = p
  BY <1>0 DEF GoWith, LogWith, Workers
<1>1. CASE Propose
  <2>1. /\ last' = last + 1 /\ last' \in ActionIds /\ w'.pc = "proposed"
        /\ status' = [status EXCEPT ![last'] = "PROPOSED"]
    <3>1. last' = last + 1 /\ last < MaxActions /\ MaxActions \in Nat
      BY <1>1, ConstantsAssumption DEF Propose
    <3>2. last' \in ActionIds
      BY <3>1 DEF ActionIds
    <3>3. w'.pc = "proposed"
      BY <1>1 DEF Propose, Workers
    <3> QED
      BY <1>1, <3>1, <3>2, <3>3 DEF Propose
  <2>2. status[last'] = "PREPARED"
    BY <2>1 DEF ActionInv, Record, FreshUntouched, ActionIds
  <2>3. /\ \A i \in ActionIds : i # last' => status'[i] = status[i]
        /\ status'[last'] = "PROPOSED"
    BY <2>1
  <2>4. UNCHANGED <<inFlight, unknown, dev>>
    BY <1>1 DEF Propose, world
  <2>5. FreshUntouched'
    BY <2>1, <2>3 DEF ActionInv, Record, FreshUntouched, ActionIds
  <2>6. OneOutstanding' /\ UnknownExact' /\ SettledTruth'
    BY <2>2, <2>3, <2>4
    DEF ActionInv, Record, OneOutstanding, UnknownExact, SettledTruth, Sent, Uncertain
  <2> QED
    BY <2>1, <2>3, <2>5, <2>6 DEF ActionInv, Record, Progress
<1>2. CASE DecidePolicy
  <2>1. last \in ActionIds /\ status[last] \in {"PROPOSED", "CANCELLED_BEFORE_DISPATCH"}
    BY <1>2 DEF DecidePolicy, At, ActionInv, Progress
  <2>2. UNCHANGED <<last, inFlight, unknown, dev>>
    BY <1>2 DEF DecidePolicy, world
  <2>3. CASE \E s \in Refused : Reject(s)
    BY <2>1, <2>2, <2>3, RejectKeeps DEF ActionInv, Sent, Uncertain
  <2>4. CASE NothingOutstanding /\ UNCHANGED status /\ \E d \in PolicyDecisions : LogWith("policy", d)
    <3>1. w'.pc = "policy"
      BY <1>0, <2>4
    <3> QED
      BY <2>1, <2>2, <2>4, <3>1
      DEF ActionInv, Record, OneOutstanding, UnknownExact, SettledTruth, FreshUntouched, Progress,
          NothingOutstanding
  <2> QED
    BY <1>2, <2>3, <2>4 DEF DecidePolicy, Refused
<1>3. CASE AfterPolicy
  <2>1. /\ last \in ActionIds /\ status[last] \in {"PROPOSED", "CANCELLED_BEFORE_DISPATCH"}
        /\ inFlight = 0 /\ ~unknown
    BY <1>3 DEF AfterPolicy, At, ActionInv, Progress
  <2>2. UNCHANGED <<acap, aver, last, inFlight, unknown, dev>>
    BY <1>3 DEF AfterPolicy, world
  <2>3. CASE \E s \in Refused : Reject(s)
    BY <2>1, <2>2, <2>3, RejectKeeps DEF ActionInv, Sent, Uncertain
  <2>4. CASE Log("waiting") /\ UNCHANGED status
    BY <1>0, <2>2, <2>4, AtRest DEF Log, acts
  <2>5. CASE status' = [status EXCEPT ![last] = "AUTHORIZED"] /\ Log("authorized")
    <3>1. Record' /\ status'[last] = "AUTHORIZED"
      BY <2>1, <2>2, <2>5, HarmlessStatus DEF ActionInv, Sent, Uncertain
    <3>2. w'.pc = "authorized"
      BY <1>0, <2>5 DEF Log
    <3> QED
      BY <2>1, <2>2, <3>1, <3>2 DEF ActionInv, Progress
  <2> QED
    BY <1>3, <2>3, <2>4, <2>5 DEF AfterPolicy, Refused
<1>4. CASE CountWrite
  <2>1. UNCHANGED <<acts, dev>>
    BY <1>4 DEF CountWrite, world
  <2>2. CASE Raise
    BY <1>0, <2>1, <2>2, AtRest DEF Raise, Stop
  <2>3. CASE Log("intent")
    BY <1>0, <1>4, <2>1, <2>3
    DEF CountWrite, At, Log, acts, ActionInv, Record, OneOutstanding, UnknownExact, SettledTruth,
        FreshUntouched, Progress
  <2> QED
    BY <1>4, <2>2, <2>3 DEF CountWrite
<1>5. CASE Dispatch
  <2>1. last \in ActionIds /\ status[last] = "AUTHORIZED" /\ inFlight = 0 /\ ~unknown
    BY <1>5 DEF Dispatch, At, ActionInv, Progress
  <2>2. UNCHANGED <<last, unknown, dev>>
    BY <1>5 DEF Dispatch, world
  <2>3. CASE Reject("CANCELLED_BEFORE_DISPATCH") /\ UNCHANGED inFlight
    BY <2>1, <2>2, <2>3, RejectKeeps DEF ActionInv, Sent, Uncertain, Refused
  <2>4. CASE /\ status' = [status EXCEPT ![last] = "DISPATCHED"] /\ inFlight' = last
             /\ Log("dispatch")
    <3>1. \A i \in ActionIds : status[i] \notin Uncertain
      BY <2>1 DEF ActionInv, Record, OneOutstanding, ActionIds
    <3>2. dev[last] = "none"
      BY <2>1 DEF ActionInv, Record, SettledTruth, Sent, Uncertain
    <3>3. Record' /\ status'[last] = "DISPATCHED"
      BY <2>1, <2>2, <2>4, <3>1, DoubtStatus DEF ActionInv, Uncertain, TypeInv, TypeOK, TypeOfActions
    <3>4. w'.pc = "dispatch"
      BY <1>0, <2>4 DEF Log
    <3> QED
      BY <2>1, <2>2, <2>4, <3>2, <3>3, <3>4 DEF ActionInv, Progress
  <2> QED
    BY <1>5, <2>3, <2>4 DEF Dispatch
<1>6. CASE Send
  BY <1>0, <1>6
  DEF Send, At, Go, acts, world, ActionInv, Record, OneOutstanding, UnknownExact, SettledTruth,
      FreshUntouched, Progress
<1>7. CASE DeviceApply
  <2>1. last \in ActionIds /\ status[last] = "DISPATCHED" /\ dev[last] = "none" /\ inFlight = last
    BY <1>7 DEF DeviceApply, At, ActionInv, Progress
  <2>2. \A i \in ActionIds : i # last => dev'[i] = dev[i]
    BY <1>7 DEF DeviceApply
  <2>3. w'.pc = "ack" /\ UNCHANGED acts
    BY <1>0, <1>7 DEF DeviceApply
  <2>4. SettledTruth'
    BY <2>1, <2>2, <2>3 DEF ActionInv, Record, SettledTruth, acts, Sent, Uncertain
  <2> QED
    BY <2>1, <2>3, <2>4
    DEF ActionInv, Record, OneOutstanding, UnknownExact, FreshUntouched, Progress, acts
<1>8. CASE Acknowledge
  <2>1. /\ last \in ActionIds /\ inFlight = last /\ status[last] = "DISPATCHED"
        /\ \A i \in ActionIds : i # last => status[i] \notin Uncertain
    BY <1>8, OnlyLast DEF Acknowledge, At, ActionInv, Progress
  <2>2. UNCHANGED <<last, inFlight, dev>>
    BY <1>8 DEF Acknowledge, world
  <2>3. CASE status' = [status EXCEPT ![last] = "ACKNOWLEDGED"] /\ Log("acked") /\ UNCHANGED unknown
    <3>1. ~unknown
      BY <2>1 DEF ActionInv, Record, UnknownExact, Uncertain
    <3>2. Record' /\ status'[last] = "ACKNOWLEDGED"
      BY <2>1, <2>2, <2>3, <3>1, DoubtStatus DEF ActionInv, Uncertain, TypeInv, TypeOK, TypeOfActions
    <3>3. w'.pc = "acked"
      BY <1>0, <2>3 DEF Log
    <3> QED
      BY <2>1, <2>2, <3>2, <3>3 DEF ActionInv, Progress
  <2>4. CASE status' = [status EXCEPT ![last] = "UNKNOWN"] /\ unknown' = TRUE /\ Log("recorded")
    <3>1. Record' /\ status'[last] = "UNKNOWN"
      BY <2>1, <2>2, <2>4, DoubtStatus DEF ActionInv, Uncertain
    <3>2. w'.pc = "recorded"
      BY <1>0, <2>4 DEF Log
    <3> QED
      BY <2>1, <2>2, <3>1, <3>2 DEF ActionInv, Progress
  <2> QED
    BY <1>8, <2>3, <2>4 DEF Acknowledge
<1>9. ASSUME RecordResult, w.pc \in InDoubt, UNCHANGED <<last, inFlight, dev>>,
             w'.pc \in {"recorded", "reconciled"}
      PROVE  ActionInv'
  <2>1. /\ last \in ActionIds /\ inFlight = last
        /\ \A i \in ActionIds : i # last => status[i] \notin Uncertain
    BY <1>9, OnlyLast
  <2>2. /\ Reported(dev[last]) \in {"APPLIED", "NOT_APPLIED", "UNKNOWN"}
        /\ Reported(dev[last]) \in {"APPLIED", "NOT_APPLIED"} => dev[last] = Reported(dev[last])
    BY DEF Reported
  <2>3. Record' /\ status'[last] = Reported(dev[last])
    BY <1>9, <2>1, <2>2, DoubtStatus DEF ActionInv, RecordResult, Uncertain
  <2> QED
    BY <1>9, <2>1, <2>2, <2>3 DEF ActionInv, Progress
<1>10. CASE RecordReply
  BY <1>0, <1>9, <1>10 DEF RecordReply, At, Log, world
<1>11. CASE AfterRecord
  <2>1. w'.pc = (IF status[last] = "UNKNOWN" /\ w.tries < MaxReconcile THEN "reconcile" ELSE "settle")
    BY <1>0, <1>11 DEF AfterRecord, Go
  <2> QED
    BY <1>11, <2>1
    DEF AfterRecord, At, acts, world, ActionInv, Record, OneOutstanding, UnknownExact, SettledTruth,
        FreshUntouched, Progress
<1>12. CASE ReconcileAttempt
  <2>1. UNCHANGED <<acts, dev>>
    BY <1>12 DEF ReconcileAttempt, world
  <2>2. CASE Raise
    BY <1>0, <2>1, <2>2, AtRest DEF Raise, Stop
  <2>3. CASE Log("query")
    BY <1>0, <1>12, <2>1, <2>3
    DEF ReconcileAttempt, At, Log, acts, ActionInv, Record, OneOutstanding, UnknownExact,
        SettledTruth, FreshUntouched, Progress
  <2> QED
    BY <1>12, <2>2, <2>3 DEF ReconcileAttempt
<1>13. CASE QueryAction
  BY <1>0, <1>13
  DEF QueryAction, At, acts, world, ActionInv, Record, OneOutstanding, UnknownExact, SettledTruth,
      FreshUntouched, Progress
<1>14. CASE ReconcileRecord
  <2>1. w'.pc = "reconciled" /\ UNCHANGED <<last, inFlight, dev>> /\ w.pc = "queried"
    BY <1>14 DEF ReconcileRecord, At, Workers, world
  <2>2. CASE RecordResult
    BY <1>9, <2>1, <2>2
  <2>3. CASE UNCHANGED <<status, unknown>>
    BY <2>1, <2>3
    DEF ActionInv, Record, OneOutstanding, UnknownExact, SettledTruth, FreshUntouched, Progress
  <2> QED
    BY <1>14, <2>2, <2>3 DEF ReconcileRecord
<1>15. CASE Settle
  <2>1. /\ last \in ActionIds /\ inFlight = last
        /\ \A i \in ActionIds : i # last => status[i] \notin Uncertain
        /\ status[last] \in {"APPLIED", "NOT_APPLIED", "UNKNOWN"}
    BY <1>15, OnlyLast DEF Settle, At, ActionInv, Progress
  <2>2. w'.pc = "settled"
    BY <1>0, <1>15 DEF Settle, Log
  <2>3. /\ inFlight' = IF status[last] # "UNKNOWN" THEN 0 ELSE inFlight
        /\ unknown' = (status[last] = "UNKNOWN") /\ UNCHANGED <<status, last, dev>>
    BY <1>15 DEF Settle, world
  <2>4. OneOutstanding' /\ UnknownExact' /\ SettledTruth' /\ FreshUntouched'
    BY <2>1, <2>3
    DEF ActionInv, Record, OneOutstanding, UnknownExact, SettledTruth, FreshUntouched, Uncertain
  <2> QED
    BY <2>2, <2>4 DEF ActionInv, Record, Progress
<1> QED
  BY <1>1, <1>2, <1>3, <1>4, <1>5, <1>6, <1>7, <1>8, <1>10, <1>11, <1>12, <1>13, <1>14, <1>15
  DEF ExecuteWrite

LEMMA InitRecord == Init => ActionInv
BY DEF Init, ActionInv, Record, OneOutstanding, UnknownExact, SettledTruth, FreshUntouched, Progress,
       Writing, BeforeSend, InDoubt, NoWorker, Uncertain, Sent

LEMMA NextKeeps == TypeInv /\ ActionInv /\ [Next]_vars => ActionInv'
<1> SUFFICES ASSUME TypeInv, ActionInv, [Next]_vars PROVE ActionInv'
  OBVIOUS
<1>1. CASE HarnessStep
  BY <1>1, HarnessOutside, AtRest DEF Inside
<1>2. CASE UNCHANGED vars
  BY <1>2, Unmoved DEF vars, world
<1> QED
  BY <1>1, <1>2, ExecuteWriteKeeps, ClientsKeep, WorldKeeps DEF Next, WorkerStep, HarnessStep

LEMMA Invariance == Spec => [](TypeInv /\ ActionInv)
<1>1. Init => TypeInv /\ ActionInv
  BY InitTyped, InitRecord
<1>2. TypeInv /\ ActionInv /\ [Next]_vars => (TypeInv /\ ActionInv)'
  BY TypePreserved, NextKeeps
<1> QED
  BY <1>1, <1>2, PTL DEF Spec

\* At most one write of a run is at the device or of unknown result, however
\* many the run proposes and whatever requests arrive while the lock is free.
THEOREM OneAtATime == Spec => []OneOutstanding
BY Invariance, PTL DEF ActionInv, Record

\* The flag that blocks the next write and the next run on the device is raised
\* exactly while some write of the run is UNKNOWN.
THEOREM FlagIsExact == Spec => []UnknownExact
BY Invariance, PTL DEF ActionInv, Record

\* A recorded result is what the device did, and what was not dispatched never
\* reached the device, although commands may be delayed and replies lost.
THEOREM ResultsAreTrue == Spec => []SettledTruth
BY Invariance, PTL DEF ActionInv, Record
-----------------------------------------------------------------------------
(* How a status moves.                                                       *)

\* All that a step does to the status of an action, and which step does it.
Advances(i) ==
  \/ status'[i] = status[i]
  \/ Propose /\ i = last' /\ status[i] = "PREPARED" /\ status'[i] = "PROPOSED"
  \/ status[i] \in {"PROPOSED", "AUTHORIZED"} \cup Refused /\ status'[i] \in Refused
  \/ /\ AfterPolicy /\ w.pc = "policy" /\ StillCurrent /\ i = last
     /\ status[i] \in {"PROPOSED", "CANCELLED_BEFORE_DISPATCH"} /\ status'[i] = "AUTHORIZED"
  \/ Dispatch /\ w.pc = "intent" /\ i = last /\ status[i] = "AUTHORIZED" /\ status'[i] = "DISPATCHED"
  \/ w.pc = "ack" /\ i = last /\ status[i] = "DISPATCHED" /\ status'[i] = "ACKNOWLEDGED"
  \/ /\ w.pc \in InDoubt /\ i = last
     /\ status[i] \in Uncertain /\ status'[i] \in {"APPLIED", "NOT_APPLIED", "UNKNOWN"}

LEMMA OthersStay ==
  ASSUME TypeInv, NEW s, status' = [status EXCEPT ![last] = s]
  PROVE  \A i \in ActionIds : status'[i] = IF i = last THEN s ELSE status[i]
BY DEF TypeInv, TypeOK, TypeOfActions

LEMMA RejectAdvances ==
  ASSUME TypeInv, NEW s \in Refused, Reject(s),
         status[last] \in {"PROPOSED", "AUTHORIZED"} \cup Refused
  PROVE  \A i \in ActionIds : Advances(i)
BY OthersStay DEF Reject, Advances

LEMMA ResultAdvances ==
  ASSUME TypeInv, RecordResult, w.pc \in InDoubt, status[last] \in Uncertain
  PROVE  \A i \in ActionIds : Advances(i)
<1>1. Reported(dev[last]) \in {"APPLIED", "NOT_APPLIED", "UNKNOWN"}
  BY DEF Reported
<1> QED
  BY <1>1, OthersStay DEF RecordResult, Advances

LEMMA ExecuteWriteAdvances ==
  ASSUME TypeInv, ActionInv, ExecuteWrite
  PROVE  \A i \in ActionIds : Advances(i)
<1>1. CASE Propose
  <2>1. last' = last + 1 /\ last' \in ActionIds /\ status' = [status EXCEPT ![last'] = "PROPOSED"]
    BY <1>1, ConstantsAssumption DEF Propose, ActionIds, TypeInv, TypeOK, TypeOfActions
  <2>2. status[last'] = "PREPARED"
    BY <2>1 DEF ActionInv, Record, FreshUntouched, ActionIds, TypeInv, TypeOK, TypeOfActions
  <2>3. \A i \in ActionIds : status'[i] = IF i = last' THEN "PROPOSED" ELSE status[i]
    BY <2>1 DEF TypeInv, TypeOK, TypeOfActions
  <2> QED
    BY <1>1, <2>2, <2>3 DEF Advances
<1>2. CASE DecidePolicy
  <2>1. status[last] \in {"PROPOSED"} \cup Refused
    BY <1>2 DEF DecidePolicy, At, ActionInv, Progress, Refused
  <2>2. CASE UNCHANGED status
    BY <2>2 DEF Advances
  <2>3. CASE \E s \in Refused : Reject(s)
    BY <2>1, <2>3, RejectAdvances
  <2> QED
    BY <1>2, <2>2, <2>3 DEF DecidePolicy, Refused
<1>3. CASE AfterPolicy
  <2>1. status[last] \in {"PROPOSED", "CANCELLED_BEFORE_DISPATCH"} /\ w.pc = "policy"
    BY <1>3 DEF AfterPolicy, At, ActionInv, Progress
  <2>2. CASE UNCHANGED status
    BY <2>2 DEF Advances
  <2>3. CASE \E s \in Refused : Reject(s)
    BY <2>1, <2>3, RejectAdvances DEF Refused
  <2>4. CASE StillCurrent /\ status' = [status EXCEPT ![last] = "AUTHORIZED"]
    BY <1>3, <2>1, <2>4, OthersStay DEF Advances
  <2> QED
    BY <1>3, <2>2, <2>3, <2>4 DEF AfterPolicy, Refused
<1>4. CASE Dispatch
  <2>1. status[last] = "AUTHORIZED" /\ w.pc = "intent"
    BY <1>4 DEF Dispatch, At, ActionInv, Progress
  <2>2. CASE Reject("CANCELLED_BEFORE_DISPATCH")
    BY <2>1, <2>2, RejectAdvances DEF Refused
  <2>3. CASE status' = [status EXCEPT ![last] = "DISPATCHED"]
    BY <1>4, <2>1, <2>3, OthersStay DEF Advances
  <2> QED
    BY <1>4, <2>2, <2>3 DEF Dispatch
<1>5. CASE Acknowledge
  <2>1. status[last] = "DISPATCHED" /\ w.pc = "ack"
    BY <1>5 DEF Acknowledge, At, ActionInv, Progress
  <2> QED
    BY <1>5, <2>1, OthersStay DEF Acknowledge, Advances, InDoubt, Uncertain
<1>6. CASE RecordReply
  <2>1. status[last] = "ACKNOWLEDGED" /\ w.pc = "acked"
    BY <1>6 DEF RecordReply, At, ActionInv, Progress
  <2> QED
    BY <1>6, <2>1, ResultAdvances DEF RecordReply, InDoubt, Uncertain
<1>7. CASE ReconcileRecord
  <2>1. status[last] = "UNKNOWN" /\ w.pc = "queried"
    BY <1>7 DEF ReconcileRecord, At, ActionInv, Progress
  <2>2. CASE RecordResult
    BY <2>1, <2>2, ResultAdvances DEF InDoubt, Uncertain
  <2> QED
    BY <1>7, <2>2 DEF ReconcileRecord, Advances
<1>8. CASE CountWrite \/ Send \/ DeviceApply \/ AfterRecord \/ ReconcileAttempt \/ QueryAction \/ Settle
  BY <1>8
  DEF CountWrite, Send, DeviceApply, AfterRecord, ReconcileAttempt, QueryAction, Settle, acts, Advances
<1> QED
  BY <1>1, <1>2, <1>3, <1>4, <1>5, <1>6, <1>7, <1>8 DEF ExecuteWrite

LEMMA WithdrawAdvances ==
  ASSUME TypeInv, WithdrawProposed
  PROVE  \A i \in ActionIds : Advances(i)
BY DEF WithdrawProposed, Advances, Refused

LEMMA StatusAdvances ==
  ASSUME TypeInv, ActionInv, [Next]_vars
  PROVE  \A i \in ActionIds : Advances(i)
<1>1. CASE UNCHANGED status
  BY <1>1 DEF Advances
<1>2. CASE HarnessStep
  BY <1>1, <1>2, HarnessOutside DEF acts
<1>3. CASE ClientStep \/ Request \/ TimerFinish
  BY <1>1, <1>3, WithdrawAdvances
  DEF ClientStep, Request, CancelInvalidated, CancelFinish, InterveneInvalidated, RejectStored,
      RejectFinish, ChangeStored, ClientFinished, CancelAccept, Intervene, InterveneRefused,
      Approve, Clarify, RejectAnswer, TimerFinish, TakeOver, acts
<1>4. CASE World \/ UNCHANGED vars
  BY <1>1, <1>4 DEF World, Expire, SetPlacement, NewEnvironment, DeviceTick, acts, vars
<1> QED
  BY <1>2, <1>3, <1>4, ExecuteWriteAdvances DEF Next, WorkerStep, HarnessStep

\* The action that execute_write handles is the one its job chose: nobody else
\* proposes one, and the job keeps its choice from the gate to the result.
LEMMA WriterMoves ==
  ASSUME TypeInv, [Next]_vars
  PROVE  /\ w'.pc \in Writing =>
              /\ w'.cap = w.cap /\ w'.v = w.v
              /\ (w.pc \in Writing /\ UNCHANGED last) \/ (Propose /\ w.pc = "propose")
         /\ w'.pc \in BeforeSend => w.pc \in BeforeSend \/ Propose
         /\ UNCHANGED <<acap, aver>> \/ Propose
<1> w \in Workers
  BY DEF TypeInv, TypeOK, TypeOfWorld
<1> USE DEF Writing, BeforeSend, InDoubt
<1>0. ASSUME NEW p, NEW a, GoWith(p, a) \/ LogWith(p, a)
      PROVE  w'.pc = p /\ w'.cap = w.cap /\ w'.v = w.v
  BY <1>0 DEF GoWith, LogWith, Workers
<1>1. CASE HarnessStep
  BY <1>1, HarnessOutside DEF Inside, acts
<1>2. CASE Propose
  BY <1>2 DEF Propose, At, Workers
<1>3. CASE ReconcileRecord
  BY <1>3 DEF ReconcileRecord, At, Workers
<1>4. CASE ExecuteWrite /\ ~Propose /\ ~ReconcileRecord
  BY <1>0, <1>4
  DEF ExecuteWrite, DecidePolicy, AfterPolicy, CountWrite, Dispatch, Send, DeviceApply, Acknowledge,
      RecordReply, AfterRecord, ReconcileAttempt, QueryAction, Settle, Reject, At, Go, Log, Raise,
      Stop, acts
<1>5. CASE ClientStep \/ Request \/ TimerFinish
  <2>1. w' = w \/ w'.pc = "start"
    BY <1>5, NoWorkerTyped
    DEF ClientStep, Request, CancelInvalidated, CancelFinish, InterveneInvalidated, RejectStored,
        RejectFinish, ChangeStored, ClientFinished, CancelAccept, Intervene, InterveneRefused,
        Approve, Clarify, RejectAnswer, TimerFinish, Launch, Workers
  <2>2. UNCHANGED <<acap, aver, last>>
    BY <1>5
    DEF ClientStep, Request, CancelInvalidated, CancelFinish, InterveneInvalidated, RejectStored,
        RejectFinish, ChangeStored, ClientFinished, CancelAccept, Intervene, InterveneRefused,
        Approve, Clarify, RejectAnswer, TimerFinish, acts
  <2> QED
    BY <2>1, <2>2
<1>6. CASE World \/ UNCHANGED vars
  BY <1>6 DEF World, Expire, SetPlacement, NewEnvironment, DeviceTick, acts, vars
<1> QED
  BY <1>1, <1>2, <1>3, <1>4, <1>5, <1>6 DEF Next, WorkerStep, HarnessStep

\* From Propose to the result: the action is untouched by others.
LEMMA Proposes ==
  ASSUME TypeInv, Propose
  PROVE  /\ last' \in ActionIds /\ last' = last + 1
         /\ acap'[last'] = w.cap /\ aver'[last'] = w.v
         /\ \A i \in ActionIds : i # last' => acap'[i] = acap[i] /\ aver'[i] = aver[i]
<1>1. last' = last + 1 /\ last' \in ActionIds
  BY ConstantsAssumption DEF Propose, ActionIds, TypeInv, TypeOK, TypeOfActions
<1> QED
  BY <1>1 DEF Propose, TypeInv, TypeOK, TypeOfActions

-----------------------------------------------------------------------------
(* No capability takes effect twice for one goal version.                    *)

\* An action that took effect or still may.
Live == Uncertain \cup {"APPLIED"}
\* Action i does what the job is about to do.
Chosen(i) == acap[i] = w.cap /\ aver[i] = w.v
\* From the gate's consent to DISPATCH.
Consented == w.pc \in BeforeSend \cup {"propose"} \/ (w.pc = "gated" /\ w.arg = "WRITE")
OnceInv ==
  /\ \A i, j \in ActionIds :
       status[i] \in Live /\ status[j] \in Live /\ acap[i] = acap[j] /\ aver[i] = aver[j] => i = j
  /\ w.pc \in Writing => Chosen(last)
  /\ Consented => \A i \in ActionIds : status[i] = "APPLIED" => ~Chosen(i)

\* The gate looked through run.actions, and nothing is sent until DISPATCH.
LEMMA GateHolds ==
  ASSUME TypeInv, ActionInv, OnceInv, [Next]_vars, Consented'
  PROVE  (\A i \in ActionIds : status[i] = "APPLIED" => ~Chosen(i)')
         /\ w.pc \notin InDoubt
<1> w \in Workers
  BY DEF TypeInv, TypeOK, TypeOfWorld
<1>0. \A i \in ActionIds : status[i] = "APPLIED" => acap'[i] = acap[i] /\ aver'[i] = aver[i]
  <2>1. CASE Propose
    <3>1. status[last'] = "PREPARED"
      BY <2>1, Proposes DEF ActionInv, Record, FreshUntouched, TypeInv, TypeOK, TypeOfActions, ActionIds
    <3> QED
      BY <2>1, <3>1, Proposes
  <2> QED
    BY <2>1, WriterMoves
<1>1. CASE w'.pc \in BeforeSend
  <2>1. w'.cap = w.cap /\ w'.v = w.v /\ w.pc \in BeforeSend \cup {"propose"}
    BY <1>1, WriterMoves DEF Writing, Propose, At
  <2> QED
    BY <1>0, <2>1 DEF OnceInv, Consented, Chosen, BeforeSend, InDoubt
<1>2. CASE w'.pc \notin BeforeSend /\ w' # w
  <2>1. HarnessStep
    <3>1. ASSUME NEW p, NEW a, GoWith(p, a) \/ LogWith(p, a) PROVE w'.pc = p
      BY <3>1 DEF GoWith, LogWith, Workers
    <3>2. CASE ExecuteWrite
      BY <1>2, <3>1, <3>2
      DEF ExecuteWrite, Propose, DecidePolicy, AfterPolicy, CountWrite, Dispatch, Send, DeviceApply,
          Acknowledge, RecordReply, AfterRecord, ReconcileAttempt, QueryAction, ReconcileRecord,
          Settle, Reject, Go, Log, Raise, Stop, Consented, Workers
    <3>3. CASE ClientStep \/ Request \/ TimerFinish
      <4>1. w' = w \/ w'.pc = "start"
        BY <3>3, NoWorkerTyped
        DEF ClientStep, Request, CancelInvalidated, CancelFinish, InterveneInvalidated, RejectStored,
            RejectFinish, ChangeStored, ClientFinished, CancelAccept, Intervene, InterveneRefused,
            Approve, Clarify, RejectAnswer, TimerFinish, Launch, Workers
      <4> QED
        BY <1>2, <4>1 DEF Consented, BeforeSend
    <3>4. CASE World \/ UNCHANGED vars
      BY <1>2, <3>4 DEF World, Expire, SetPlacement, NewEnvironment, DeviceTick, vars
    <3> QED
      BY <3>2, <3>3, <3>4 DEF Next, WorkerStep, HarnessStep
  <2>2. CASE w'.pc = "gated"
    <3>1. PICK c : CheckAction(c)
      BY <2>1, <2>2, HarnessOutside
    <3>2. w'.cap = c /\ w'.v = w.v /\ w'.arg \in GateDecisions(c)
      BY <3>1 DEF CheckAction, Workers
    <3>3. ~AlreadyApplied(c)
      BY <1>2, <2>2, <3>2 DEF GateDecisions, Consented, BeforeSend
    <3>4. w.pc \in {"decide", "gate"}
      BY <2>1, <2>2, HarnessOutside
    <3> QED
      BY <1>0, <3>2, <3>3, <3>4 DEF AlreadyApplied, Chosen, InDoubt
  <2>3. CASE w'.pc = "propose"
    <3>1. w.pc = "gated" /\ w.arg = "WRITE" /\ w'.cap = w.cap /\ w'.v = w.v
      BY <2>1, <2>3, HarnessOutside DEF Gated, At, Go, GoWith, Workers
    <3> QED
      BY <1>0, <3>1 DEF OnceInv, Consented, Chosen, InDoubt
  <2> QED
    BY <1>2, <2>2, <2>3 DEF Consented
<1>3. CASE w' = w
  BY <1>0, <1>3 DEF OnceInv, Consented, Chosen, InDoubt, BeforeSend
<1> QED
  BY <1>1, <1>2, <1>3

LEMMA OnceKept == TypeInv /\ ActionInv /\ OnceInv /\ [Next]_vars => OnceInv'
<1> SUFFICES ASSUME TypeInv, ActionInv, OnceInv, [Next]_vars
             PROVE  OnceInv'
  OBVIOUS
<1>1. \A i \in ActionIds : Advances(i)
  BY StatusAdvances
<1>2. w'.pc \in Writing => Chosen(last)'
  <2>1. CASE Propose
    BY <2>1, Proposes, WriterMoves DEF Chosen
  <2>2. CASE ~Propose
    BY <2>2, WriterMoves DEF Chosen, OnceInv
  <2> QED
    BY <2>1, <2>2
<1>3. Consented' => \A i \in ActionIds : status'[i] = "APPLIED" => ~Chosen(i)'
  <2> SUFFICES ASSUME Consented', NEW i \in ActionIds, status'[i] = "APPLIED"
               PROVE  ~Chosen(i)'
    OBVIOUS
  <2>1. status[i] = "APPLIED"
    BY <1>1, GateHolds DEF Advances, Refused
  <2> QED
    BY <2>1, GateHolds
<1>4. ASSUME NEW i \in ActionIds, status'[i] \in Live
      PROVE  /\ acap'[i] = acap[i] /\ aver'[i] = aver[i]
             /\ status[i] \in Live \/ (Dispatch /\ w.pc = "intent" /\ i = last)
  <2>1. Advances(i)
    BY <1>1
  <2>2. status[i] \in Live \/ (Dispatch /\ w.pc = "intent" /\ i = last)
    BY <1>4, <2>1 DEF Advances, Live, Uncertain, Refused
  <2>3. CASE Propose
    <3>1. i # last'
      BY <2>1, <2>2, <2>3, Proposes, <1>4
      DEF Advances, Live, Uncertain, Refused, ActionInv, Record, FreshUntouched, ActionIds,
          TypeInv, TypeOK, TypeOfActions, Propose, Dispatch, At
    <3> QED
      BY <2>2, <2>3, <3>1, Proposes
  <2> QED
    BY <2>2, <2>3, WriterMoves
<1>5. ASSUME Dispatch, w.pc = "intent", NEW j \in ActionIds, j # last, status[j] \in Live
      PROVE  acap[j] # acap[last] \/ aver[j] # aver[last]
  <2>1. status[j] = "APPLIED"
    BY <1>5 DEF Live, ActionInv, Record, OneOutstanding, Progress, ActionIds
  <2> QED
    BY <1>5, <2>1 DEF OnceInv, Consented, Chosen, Writing, BeforeSend
<1>6. \A i, j \in ActionIds :
        status'[i] \in Live /\ status'[j] \in Live /\ acap'[i] = acap'[j] /\ aver'[i] = aver'[j] => i = j
  BY <1>4, <1>5 DEF OnceInv
<1> QED
  BY <1>2, <1>3, <1>6 DEF OnceInv

LEMMA InitOnce == Init => OnceInv
BY DEF Init, OnceInv, Live, Uncertain, Consented, BeforeSend, Writing, InDoubt, NoWorker

\* A capability takes effect at most once per goal version: whoever is asked to
\* do it again finds the first action in run.actions, or in doubt.
THEOREM NoDuplicateHolds == Spec => []NoDuplicateWrite
<1>1. ActionInv /\ TypeInv /\ OnceInv => NoDuplicateWrite
  <2> SUFFICES ASSUME ActionInv, TypeInv, OnceInv,
                      NEW i \in ActionIds, NEW j \in ActionIds, dev[i] = "APPLIED", dev[j] = "APPLIED",
                      acap[i] = acap[j], aver[i] = aver[j]
               PROVE  i = j
    BY DEF NoDuplicateWrite
  <2>1. status[i] \in Live /\ status[j] \in Live
    BY DEF ActionInv, Record, SettledTruth, Live, Sent
  <2> QED
    BY <2>1 DEF OnceInv
<1> QED
  BY <1>1, InitOnce, OnceKept, Invariance, PTL DEF Spec

-----------------------------------------------------------------------------
(* No version sends more writes than the user approved.                      *)

\* What was sent for version v; an approval not used yet; an approval used for
\* an action that is on its way to DISPATCH.
SentFor(v) == {i \in ActionIds : aver[i] = v /\ status[i] \in Sent}
Granted(v) == IF approval.ver = v THEN 1 ELSE 0
Spending == w.pc \in {"authorized", "intent"} \/ (w.pc = "policy" /\ w.arg = "ALLOW")
InHand(v) == IF w.v = v /\ Spending THEN 1 ELSE 0
CreditInv ==
  RequireConfirmation =>
    \A v \in Versions : Cardinality(SentFor(v)) + Granted(v) + InHand(v) <= granted[v]

LEMMA SentFinite ==
  ASSUME NEW v
  PROVE  IsFiniteSet(SentFor(v)) /\ Cardinality(SentFor(v)) \in Nat
<1>1. IsFiniteSet(ActionIds)
  BY FS_Interval, ConstantsAssumption DEF ActionIds
<1> QED
  BY <1>1, FS_Subset, FS_CardinalityType DEF SentFor

\* Nothing but DISPATCH sends.
LEMMA SentStays ==
  ASSUME TypeInv, ActionInv, [Next]_vars, ~(Dispatch /\ w'.pc = "dispatch"), NEW v
  PROVE  SentFor(v)' = SentFor(v)
<1>1. ASSUME NEW i \in ActionIds
      PROVE  (aver'[i] = v /\ status'[i] \in Sent) <=> (aver[i] = v /\ status[i] \in Sent)
  <2>1. Advances(i)
    BY StatusAdvances
  <2>2. ~(Dispatch /\ status'[i] = "DISPATCHED" /\ status[i] = "AUTHORIZED")
    <3>1. ASSUME Reject("CANCELLED_BEFORE_DISPATCH")
          PROVE  status'[i] = "DISPATCHED" => status[i] = "DISPATCHED"
      BY <3>1, OthersStay DEF Reject
    <3>2. ASSUME Log("dispatch") PROVE w'.pc = "dispatch"
      BY <3>2 DEF Log, LogWith, TypeInv, TypeOK, TypeOfWorld, Workers
    <3> QED
      BY <3>1, <3>2 DEF Dispatch
  <2>3. status'[i] \in Sent <=> status[i] \in Sent
    BY <2>1, <2>2 DEF Advances, Sent, Uncertain, Refused
  <2>4. CASE Propose /\ i = last'
    <3>1. status[i] = "PREPARED"
      BY <2>4, Proposes
      DEF ActionInv, Record, FreshUntouched, TypeInv, TypeOK, TypeOfActions, ActionIds
    <3> QED
      BY <2>3, <3>1 DEF Sent, Uncertain
  <2>5. CASE ~(Propose /\ i = last')
    BY <2>3, <2>5, WriterMoves, Proposes
  <2> QED
    BY <2>4, <2>5
<1>2. ActionIds' = ActionIds
  BY DEF ActionIds
<1> QED
  BY <1>1, <1>2 DEF SentFor

LEMMA DispatchSends ==
  ASSUME TypeInv, ActionInv, OnceInv, Dispatch, w'.pc = "dispatch", NEW v
  PROVE  /\ last \notin SentFor(v) /\ w.pc = "intent" /\ w'.v = w.v
         /\ SentFor(v)' = IF v = w.v THEN SentFor(v) \cup {last} ELSE SentFor(v)
<1> w \in Workers
  BY DEF TypeInv, TypeOK, TypeOfWorld
<1>1. w.pc = "intent" /\ last \in ActionIds /\ status[last] = "AUTHORIZED" /\ aver[last] = w.v
  BY DEF Dispatch, At, ActionInv, Progress, OnceInv, Chosen, Writing, BeforeSend
<1>2. ~Reject("CANCELLED_BEFORE_DISPATCH")
  BY DEF Reject, Log, LogWith, Workers
<1>3. /\ \A i \in ActionIds : status'[i] = IF i = last THEN "DISPATCHED" ELSE status[i]
      /\ w'.v = w.v /\ aver' = aver
  BY <1>2, OthersStay DEF Dispatch, Log, LogWith, Workers
<1> QED
  BY <1>1, <1>3 DEF SentFor, Sent, Uncertain, ActionIds

\* A step that sends nothing, grants nothing and takes no approval in hand.
LEMMA CreditEasy ==
  ASSUME TypeInv, CreditInv, \A v \in Versions : SentFor(v)' = SentFor(v), UNCHANGED granted,
         approval' \in {approval, NoApproval}, Spending' => Spending /\ w'.v = w.v
  PROVE  CreditInv'
<1> SUFFICES ASSUME RequireConfirmation, NEW v \in Versions
             PROVE  Cardinality(SentFor(v)') + Granted(v)' + InHand(v)' <= granted[v]
  BY DEF CreditInv
<1>1. Granted(v)' <= Granted(v) /\ Granted(v) \in Nat /\ Granted(v)' \in Nat
  BY DEF Granted, NoApproval, Versions
<1>2. InHand(v)' <= InHand(v) /\ InHand(v) \in Nat /\ InHand(v)' \in Nat
  BY DEF InHand
<1>3. Cardinality(SentFor(v)) \in Nat /\ granted[v] \in Nat
  BY SentFinite DEF TypeInv, TypeOK, TypeOfWorld
<1>4. Cardinality(SentFor(v)) + Granted(v) + InHand(v) <= granted[v]
  BY DEF CreditInv
<1> QED
  BY <1>1, <1>2, <1>3, <1>4

LEMMA CreditKept == TypeInv /\ ActionInv /\ OnceInv /\ CreditInv /\ [Next]_vars => CreditInv'
<1> SUFFICES ASSUME TypeInv, ActionInv, OnceInv, CreditInv, [Next]_vars
             PROVE  CreditInv'
  OBVIOUS
<1> w \in Workers
  BY DEF TypeInv, TypeOK, TypeOfWorld
<1>0. ASSUME NEW p, NEW a, GoWith(p, a) \/ LogWith(p, a)
      PROVE  w'.pc = p /\ w'.arg = a /\ w'.v = w.v
  BY <1>0 DEF GoWith, LogWith, Workers
<1>1. CASE Dispatch /\ w'.pc = "dispatch"
  <2> SUFFICES ASSUME RequireConfirmation, NEW v \in Versions
               PROVE  Cardinality(SentFor(v)') + Granted(v)' + InHand(v)' <= granted'[v]
    BY DEF CreditInv
  <2>1. UNCHANGED <<approval, granted>>
    BY <1>1 DEF Dispatch, task, history
  <2>2. InHand(v) = (IF v = w.v THEN 1 ELSE 0) /\ InHand(v)' = 0
    BY <1>1, DispatchSends DEF InHand, Spending
  <2>3. Cardinality(SentFor(v)') = Cardinality(SentFor(v)) + (IF v = w.v THEN 1 ELSE 0)
    BY <1>1, DispatchSends, SentFinite, FS_AddElement
  <2>4. Granted(v) \in Nat /\ Granted(v)' = Granted(v)
    BY <2>1 DEF Granted
  <2>5. Cardinality(SentFor(v)) \in Nat /\ granted[v] \in Nat
    BY SentFinite DEF TypeInv, TypeOK, TypeOfWorld
  <2>6. Cardinality(SentFor(v)) + Granted(v) + InHand(v) <= granted[v]
    BY DEF CreditInv
  <2> QED
    BY <2>1, <2>2, <2>3, <2>4, <2>5, <2>6
<1>2. CASE ~(Dispatch /\ w'.pc = "dispatch")
  <2>0. \A v \in Versions : SentFor(v)' = SentFor(v)
    BY <1>2, SentStays
  <2>1. CASE HarnessStep
    <3>1. UNCHANGED granted /\ approval' \in {approval, NoApproval}
      BY <2>1
      DEF HarnessStep, WorkStart, CompileReturned, RouteTask, AfterRoute, BindTask, ResumeBranch,
          ResumeAndLeave, Observed, PlanReturned, ResumeLoop, Decide, AskAboutConflict, Gated,
          WriteReturns, MultiObserved, StartRound, DraftReturned, CheckPlan, PlanDenied, RevisePlan,
          ExecutePlan, ActionObserved, VerifyPlan, AskAuditor, AuditReturned, Audited, Conclude,
          Evaluated, Finish, Finished, task, history
    <3>2. ~Spending'
      BY <2>1, HarnessOutside DEF Inside, Writing, BeforeSend, Spending
    <3> QED
      BY <2>0, <3>1, <3>2, CreditEasy
  <2>2. CASE DecidePolicy /\ w'.pc = "policy" /\ w'.arg = "ALLOW" /\ RequireConfirmation
    <3>1. UseApproval("ALLOW") /\ "ALLOW" \in PolicyDecisions /\ StillCurrent
      BY <1>0, <2>2 DEF DecidePolicy, Reject, Log
    <3>2. approval.ver = w.v /\ approval' = NoApproval /\ w'.v = w.v
      BY <1>0, <2>2, <3>1 DEF DecidePolicy, Reject, Log, PolicyDecisions, Approved, UseApproval, StillCurrent
    <3>3. ~Spending
      BY <2>2 DEF DecidePolicy, At, Spending
    <3> SUFFICES ASSUME NEW v \in Versions
                 PROVE  Cardinality(SentFor(v)') + Granted(v)' + InHand(v)' <= granted'[v]
      BY DEF CreditInv
    <3>4. InHand(v)' = Granted(v) /\ Granted(v)' = 0 /\ InHand(v) = 0 /\ Granted(v) \in Nat
      BY <2>2, <3>2, <3>3 DEF InHand, Granted, Spending, NoApproval, Versions
    <3>5. Cardinality(SentFor(v)) + Granted(v) + InHand(v) <= granted[v]
      BY <2>2 DEF CreditInv
    <3>6. granted' = granted /\ SentFor(v)' = SentFor(v) /\ Cardinality(SentFor(v)) \in Nat
      BY <2>0, <2>2, SentFinite DEF DecidePolicy, history
    <3> QED
      BY <3>4, <3>5, <3>6
  <2>3. CASE ~RequireConfirmation
    BY <2>3 DEF CreditInv
  <2>4. CASE ExecuteWrite /\ ~(DecidePolicy /\ w'.pc = "policy" /\ w'.arg = "ALLOW")
    <3>1. UNCHANGED granted /\ approval' \in {approval, NoApproval}
      BY <2>4
      DEF ExecuteWrite, Propose, DecidePolicy, AfterPolicy, CountWrite, Dispatch, Send, DeviceApply,
          Acknowledge, RecordReply, AfterRecord, ReconcileAttempt, QueryAction, ReconcileRecord,
          Settle, UseApproval, task, history
    <3>2. Spending' => Spending /\ w'.v = w.v
      <4>1. CASE Propose \/ ReconcileRecord
        BY <4>1 DEF Propose, ReconcileRecord, Spending, Workers
      <4>2. CASE AfterPolicy \/ CountWrite
        BY <1>0, <4>2 DEF AfterPolicy, CountWrite, Reject, At, Log, Raise, Stop, Spending
      <4>3. CASE DecidePolicy \/ Dispatch
        BY <1>0, <2>4, <4>3 DEF DecidePolicy, Dispatch, Reject, Log, Spending
      <4>4. CASE Send \/ DeviceApply \/ Acknowledge \/ RecordReply \/ AfterRecord
                 \/ ReconcileAttempt \/ QueryAction \/ Settle
        BY <1>0, <4>4
        DEF Send, DeviceApply, Acknowledge, RecordReply, AfterRecord, ReconcileAttempt, QueryAction,
            Settle, Go, Log, Raise, Stop, Spending
      <4> QED
        BY <2>4, <4>1, <4>2, <4>3, <4>4 DEF ExecuteWrite
    <3> QED
      BY <2>0, <3>1, <3>2, CreditEasy
  <2>5. CASE Approve
    <3> SUFFICES ASSUME RequireConfirmation, NEW v \in Versions
                 PROVE  Cardinality(SentFor(v)') + Granted(v)' + InHand(v)' <= granted'[v]
      BY DEF CreditInv
    <3>1. /\ granted \in [Versions -> Nat] /\ version \in Versions
          /\ granted' = [granted EXCEPT ![version] = @ + 1]
          /\ approval' = [cap |-> pending.cap, ver |-> version] /\ w' = w
      BY <2>5 DEF Approve, TypeInv, TypeOK, TypeOfWorld, TypeOfRun
    <3>2. granted'[v] = (IF v = version THEN granted[v] + 1 ELSE granted[v]) /\ granted[v] \in Nat
      BY <3>1
    <3>3. Granted(v)' = (IF v = version THEN 1 ELSE 0) /\ Granted(v) \in {0, 1}
      BY <3>1 DEF Granted
    <3>4. InHand(v)' = InHand(v) /\ InHand(v) \in Nat
      BY <3>1 DEF InHand, Spending
    <3>5. SentFor(v)' = SentFor(v) /\ Cardinality(SentFor(v)) \in Nat
      BY <2>0, SentFinite
    <3>6. Cardinality(SentFor(v)) + Granted(v) + InHand(v) <= granted[v]
      BY DEF CreditInv
    <3> QED
      BY <3>2, <3>3, <3>4, <3>5, <3>6
  <2>6. CASE (ClientStep \/ Request \/ TimerFinish) /\ ~Approve
    <3>1. UNCHANGED granted /\ approval' \in {approval, NoApproval}
      BY <2>6
      DEF ClientStep, Request, CancelInvalidated, CancelFinish, InterveneInvalidated, RejectStored,
          RejectFinish, ChangeStored, ClientFinished, CancelAccept, Intervene, InterveneRefused,
          Clarify, RejectAnswer, TimerFinish, task, history
    <3>2. w' = w \/ w'.pc = "start"
      BY <2>6, NoWorkerTyped
      DEF ClientStep, Request, CancelInvalidated, CancelFinish, InterveneInvalidated, RejectStored,
          RejectFinish, ChangeStored, ClientFinished, CancelAccept, Intervene, InterveneRefused,
          Approve, Clarify, RejectAnswer, TimerFinish, Launch, Workers
    <3> QED
      BY <2>0, <3>1, <3>2, CreditEasy DEF Spending
  <2>7. CASE World \/ UNCHANGED vars
    <3>1. UNCHANGED <<granted, approval, w>>
      BY <2>7 DEF World, Expire, SetPlacement, NewEnvironment, DeviceTick, vars, task, history
    <3> QED
      BY <2>0, <3>1, CreditEasy DEF Spending
  <2> QED
    BY <2>1, <2>2, <2>3, <2>4, <2>5, <2>6, <2>7 DEF Next, WorkerStep, HarnessStep
<1> QED
  BY <1>1, <1>2

LEMMA InitCredit == Init => CreditInv
<1> SUFFICES ASSUME Init, NEW v \in Versions
             PROVE  Cardinality(SentFor(v)) + Granted(v) + InHand(v) <= granted[v]
  BY DEF CreditInv
<1>1. SentFor(v) = {}
  BY DEF Init, SentFor, Sent, Uncertain
<1>2. Granted(v) = 0 /\ InHand(v) = 0 /\ granted[v] = 0
  BY DEF Init, Granted, InHand, NoApproval, NoWorker, Versions
<1> QED
  BY <1>1, <1>2, FS_EmptySet

\* With confirmation required, no goal version sends more writes than the user
\* approved for it, although approvals are stored on the task, outlive the job
\* that asked, and are consumed before the action is authorized.
THEOREM ApprovedOnlyHolds == Spec => []ApprovedOnly
<1>1. TypeInv /\ CreditInv => ApprovedOnly
  <2> SUFFICES ASSUME TypeInv, CreditInv, RequireConfirmation, NEW v \in Versions
               PROVE  Cardinality(SentFor(v)) <= granted[v]
    BY DEF ApprovedOnly, SentFor
  <2>1. Granted(v) \in Nat /\ InHand(v) \in Nat /\ granted[v] \in Nat
    BY DEF Granted, InHand, TypeInv, TypeOK, TypeOfWorld
  <2>2. Cardinality(SentFor(v)) + Granted(v) + InHand(v) <= granted[v]
    BY DEF CreditInv
  <2> QED
    BY <2>1, <2>2, SentFinite
<1> QED
  BY <1>1, InitOnce, OnceKept, InitCredit, CreditKept, Invariance, PTL DEF Spec

-----------------------------------------------------------------------------
(* No run sends more writes than its budget.                                 *)

\* What the run has sent, and the write that is counted and not sent yet.
AllSent == {i \in ActionIds : status[i] \in Sent}
Counted == IF w.pc = "intent" THEN 1 ELSE 0
SpendInv == Cardinality(AllSent) + Counted <= writes

LEMMA AllSentFinite == IsFiniteSet(AllSent) /\ Cardinality(AllSent) \in Nat
<1>1. IsFiniteSet(ActionIds)
  BY FS_Interval, ConstantsAssumption DEF ActionIds
<1> QED
  BY <1>1, FS_Subset, FS_CardinalityType DEF AllSent

\* A step that sends nothing, takes no count back and counts before "intent".
LEMMA SpendEasy ==
  ASSUME TypeInv, SpendInv, AllSent' \subseteq AllSent,
         \/ writes' = writes /\ (w'.pc = "intent" => w.pc = "intent")
         \/ writes' = writes + 1 /\ w.pc # "intent"
  PROVE  SpendInv'
<1>1. Cardinality(AllSent') \in Nat /\ Cardinality(AllSent') <= Cardinality(AllSent)
  BY AllSentFinite, FS_Subset, FS_CardinalityType
<1>2. Cardinality(AllSent) \in Nat /\ writes \in Nat
  BY AllSentFinite, ConstantsAssumption DEF TypeInv, TypeOK, TypeOfRun
<1>3. CASE writes' = writes /\ (w'.pc = "intent" => w.pc = "intent")
  BY <1>1, <1>2, <1>3 DEF SpendInv, Counted
<1>4. CASE writes' = writes + 1 /\ w.pc # "intent"
  BY <1>1, <1>2, <1>4 DEF SpendInv, Counted
<1> QED
  BY <1>3, <1>4

\* Only count_write counts, one write at a time, and only a counted write
\* reaches "intent".
LEMMA OnlyCountCounts ==
  ASSUME TypeInv, [Next]_vars
  PROVE  \/ writes' = writes /\ (w'.pc = "intent" => w.pc = "intent")
         \/ writes' = writes + 1 /\ w.pc # "intent"
<1> w \in Workers
  BY DEF TypeInv, TypeOK, TypeOfWorld
<1>0. ASSUME NEW p, NEW a, GoWith(p, a) \/ LogWith(p, a)
      PROVE  w'.pc = p
  BY <1>0 DEF GoWith, LogWith, Workers
<1>1. CASE HarnessStep
  <2>1. UNCHANGED writes
    BY <1>1
    DEF HarnessStep, WorkStart, CompileReturned, RouteTask, AfterRoute, BindTask, ResumeBranch,
        ResumeAndLeave, Observed, PlanReturned, ResumeLoop, Decide, AskAboutConflict, Gated,
        WriteReturns, MultiObserved, StartRound, DraftReturned, CheckPlan, PlanDenied, RevisePlan,
        ExecutePlan, ActionObserved, VerifyPlan, AskAuditor, AuditReturned, Audited, Conclude,
        Evaluated, Finish, Finished, counters
  <2> QED
    BY <1>1, <2>1, HarnessOutside DEF Inside, Writing, BeforeSend
<1>2. CASE ExecuteWrite
  <2>1. CASE CountWrite
    BY <1>0, <2>1 DEF CountWrite, At, Log, Raise, Stop
  <2>2. CASE Propose \/ ReconcileRecord
    BY <2>2 DEF Propose, ReconcileRecord, counters, Workers
  <2>3. CASE DecidePolicy \/ AfterPolicy \/ Dispatch \/ Send \/ DeviceApply \/ Acknowledge
             \/ RecordReply \/ AfterRecord \/ ReconcileAttempt \/ QueryAction \/ Settle
    BY <1>0, <2>3
    DEF DecidePolicy, AfterPolicy, Dispatch, Reject, Send, DeviceApply, Acknowledge, RecordReply,
        AfterRecord, ReconcileAttempt, QueryAction, Settle, Go, Log, Raise, Stop, counters
  <2> QED
    BY <1>2, <2>1, <2>2, <2>3 DEF ExecuteWrite
<1>3. CASE ClientStep \/ Request \/ TimerFinish
  BY <1>3, NoWorkerTyped
  DEF ClientStep, Request, CancelInvalidated, CancelFinish, InterveneInvalidated, RejectStored,
      RejectFinish, ChangeStored, ClientFinished, CancelAccept, Intervene, InterveneRefused,
      Approve, Clarify, RejectAnswer, TimerFinish, Launch, counters, Workers
<1>4. CASE World \/ UNCHANGED vars
  BY <1>4 DEF World, Expire, SetPlacement, NewEnvironment, DeviceTick, vars, counters
<1> QED
  BY <1>1, <1>2, <1>3, <1>4 DEF Next, WorkerStep, HarnessStep

LEMMA SpendKept == TypeInv /\ ActionInv /\ OnceInv /\ SpendInv /\ [Next]_vars => SpendInv'
<1> SUFFICES ASSUME TypeInv, ActionInv, OnceInv, SpendInv, [Next]_vars
             PROVE  SpendInv'
  OBVIOUS
<1>1. CASE Dispatch /\ w'.pc = "dispatch"
  <2>1. w.pc = "intent" /\ last \notin AllSent /\ AllSent' \subseteq AllSent \cup {last}
    <3>1. w.pc = "intent" /\ last \in ActionIds /\ status[last] = "AUTHORIZED"
      BY <1>1 DEF Dispatch, At, ActionInv, Progress, OnceInv, Chosen, Writing, BeforeSend
    <3>2. ASSUME NEW i \in ActionIds, i # last PROVE status'[i] = status[i]
      BY <1>1, <3>2, OthersStay DEF Dispatch, Reject
    <3> QED
      BY <3>1, <3>2 DEF AllSent, ActionIds, Sent, Uncertain
  <2>2. Cardinality(AllSent \cup {last}) = Cardinality(AllSent) + 1 /\ IsFiniteSet(AllSent \cup {last})
    BY <2>1, AllSentFinite, FS_AddElement
  <2>3. Cardinality(AllSent') \in Nat /\ Cardinality(AllSent') <= Cardinality(AllSent) + 1
    BY <2>1, <2>2, FS_Subset, FS_CardinalityType
  <2>4. writes' = writes /\ writes \in Nat /\ Cardinality(AllSent) \in Nat
    BY <1>1, AllSentFinite, ConstantsAssumption DEF Dispatch, counters, TypeInv, TypeOK, TypeOfRun
  <2>5. Counted = 1 /\ Counted' = 0
    BY <1>1, <2>1 DEF Counted
  <2> QED
    BY <2>3, <2>4, <2>5 DEF SpendInv
<1>2. CASE ~(Dispatch /\ w'.pc = "dispatch")
  <2>1. AllSent' \subseteq AllSent
    <3> SUFFICES ASSUME NEW i \in ActionIds, status'[i] \in Sent
                 PROVE  status[i] \in Sent
      BY DEF AllSent, ActionIds
    <3>1. PICK v : v = aver'[i]
      OBVIOUS
    <3>2. SentFor(v)' = SentFor(v)
      BY <1>2, SentStays
    <3>3. i \in SentFor(v)'
      BY <3>1 DEF SentFor, ActionIds
    <3> QED
      BY <3>2, <3>3 DEF SentFor
  <2> QED
    BY <2>1, OnlyCountCounts, SpendEasy
<1> QED
  BY <1>1, <1>2

LEMMA InitSpend == Init => SpendInv
<1> SUFFICES ASSUME Init PROVE SpendInv
  OBVIOUS
<1>1. AllSent = {}
  BY DEF Init, AllSent, Sent, Uncertain
<1>2. Counted = 0 /\ writes = 0
  BY DEF Init, Counted, NoWorker
<1> QED
  BY <1>1, <1>2, FS_EmptySet DEF SpendInv

\* A write is counted before it is dispatched, and a count is never given back:
\* whatever is rejected after it was counted, retried, in doubt or approved
\* twice, a run never sends more writes than its budget.
THEOREM SendsWithinBudget == Spec => [](Cardinality(AllSent) <= MaxWrites)
<1>1. TypeInv /\ SpendInv => Cardinality(AllSent) <= MaxWrites
  <2> SUFFICES ASSUME TypeInv, SpendInv PROVE Cardinality(AllSent) <= MaxWrites
    OBVIOUS
  <2>1. writes \in Nat /\ writes <= MaxWrites /\ MaxWrites \in Nat
    BY ConstantsAssumption DEF TypeInv, TypeOK, TypeOfRun
  <2>2. Counted \in Nat
    BY DEF Counted
  <2> QED
    BY <2>1, <2>2, AllSentFinite DEF SpendInv
<1> QED
  BY <1>1, InitOnce, OnceKept, InitSpend, SpendKept, Invariance, PTL DEF Spec
==============================================================================
