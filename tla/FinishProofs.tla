---------------------------- MODULE FinishProofs ----------------------------
(* How a run ends, for every value of the constants. run_lock has one owner, *)
(* known from where its coroutine waits; the job, the deadline, a rejection   *)
(* and a cancellation finish the run only as its owner. Goal changes take no  *)
(* lock: the theorems name the one step of each kind that does harm, and show *)
(* that nothing else does; without such requests there is none. What holds    *)
(* with them follows from the order of append_event: no withdrawn write is    *)
(* sent, the executor implements ActionContract, no success is claimed in     *)
(* doubt. Last, a run that is not waiting has a job, unless one left that was *)
(* overtaken.                                                                 *)
EXTENDS ActionProofs

\* The awaits at which a coroutine owns run_lock.
WorkOwns ==
  {"proposed", "policy", "rejected", "waiting", "authorized", "intent", "dispatch", "acked",
   "recorded", "query", "reconciled", "settled", "finishing"}
CancelOwns == {"invalidating", "accepted", "finishing"}
OneOwner ==
  /\ w.pc \in WorkOwns => lock = "work"
  /\ req["cancel"] \in CancelOwns => lock = "cancel"
  /\ req["timer"] = "finishing" => lock = "timer"
  /\ req["reject"] = "finishing" => lock = "reject"

\* The job elsewhere than at one of its own steps of the lock.
LEMMA LockUntouched ==
  ASSUME OneOwner, UNCHANGED <<lock, req>>, w'.pc \notin WorkOwns
  PROVE  OneOwner'
BY DEF OneOwner

\* The job that owns the lock releases it.
LEMMA WorkReleases ==
  ASSUME OneOwner, lock = "work", lock' = NoOne, UNCHANGED req, w'.pc \notin WorkOwns
  PROVE  OneOwner'
BY DEF OneOwner

\* The job takes the free lock, or keeps what it owns.
LEMMA WorkOwnsIt ==
  ASSUME OneOwner, lock \in {NoOne, "work"}, lock' = "work", UNCHANGED req
  PROVE  OneOwner'
BY DEF OneOwner, NoOne, CancelOwns

LEMMA HarnessLocks ==
  ASSUME TypeInv, OneOwner, HarnessStep
  PROVE  OneOwner'
<1>1. /\ w'.pc \notin Inside
      /\ w'.pc = "finishing" => Finish
  BY HarnessOutside
<1>2. ~Finish => w'.pc \notin WorkOwns
  BY <1>1 DEF Inside, Writing, BeforeSend, InDoubt, WorkOwns
<1>3. CASE WriteReturns
  <2>1. lock = "work"
    BY <1>3 DEF WriteReturns, At, OneOwner, WorkOwns
  <2>2. ~Finish
    BY <1>3 DEF WriteReturns, Finish, At
  <2> QED
    BY <1>2, <1>3, <2>1, <2>2, WorkReleases DEF WriteReturns
<1>4. CASE Finish
  <2>1. CASE Terminal
    <3>1. w'.pc \notin WorkOwns
      BY <1>4, <2>1 DEF Finish, Leave, NoWorker, WorkOwns
    <3> QED
      BY <1>4, <2>1, <3>1, LockUntouched DEF Finish
  <2>2. CASE ~Terminal
    BY <1>4, <2>2, WorkOwnsIt DEF Finish, LockFree
  <2> QED
    BY <2>1, <2>2
<1>5. CASE Finished
  <2>1. lock = "work" /\ w'.pc \notin WorkOwns
    BY <1>5 DEF Finished, At, OneOwner, WorkOwns, Leave, NoWorker
  <2> QED
    BY <1>5, <2>1, WorkReleases DEF Finished
<1>6. CASE ~WriteReturns /\ ~Finish /\ ~Finished
  <2>1. UNCHANGED <<lock, req>>
    BY <1>6
    DEF HarnessStep, WorkStart, CompileReturned, RouteTask, AfterRoute, ResumeBranch, ResumeAndLeave,
        Observed, PlanReturned, ResumeLoop, Decide, AskAboutConflict, Gated, MultiObserved,
        StartRound, DraftReturned, CheckPlan, PlanDenied, RevisePlan, ExecutePlan, ActionObserved,
        VerifyPlan, AskAuditor, AuditReturned, Audited, Conclude, Evaluated
  <2> QED
    BY <1>2, <1>6, <2>1, LockUntouched
<1> QED
  BY <1>3, <1>4, <1>5, <1>6

LEMMA ExecuteWriteLocks ==
  ASSUME TypeInv, OneOwner, ExecuteWrite
  PROVE  OneOwner'
<1> w \in Workers
  BY DEF TypeInv, TypeOK, TypeOfWorld
<1>0. ASSUME NEW p, NEW a, GoWith(p, a) \/ LogWith(p, a)
      PROVE  w'.pc = p
  BY <1>0 DEF GoWith, LogWith, Workers
<1>1. CASE Propose \/ Acknowledge \/ ReconcileRecord \/ Settle
  BY <1>1, WorkOwnsIt DEF Propose, Acknowledge, ReconcileRecord, Settle, LockFree
<1>2. CASE DecidePolicy \/ AfterPolicy \/ Dispatch \/ RecordReply
  <2>1. lock = "work" /\ UNCHANGED <<lock, req>>
    BY <1>2 DEF DecidePolicy, AfterPolicy, Dispatch, RecordReply, At, OneOwner, WorkOwns
  <2> QED
    BY <2>1, WorkOwnsIt
<1>3. CASE CountWrite
  <2>1. lock = "work" /\ UNCHANGED req
    BY <1>3 DEF CountWrite, At, OneOwner, WorkOwns
  <2>2. CASE UNCHANGED lock
    BY <2>1, <2>2, WorkOwnsIt
  <2>3. CASE Raise /\ lock' = NoOne
    <3>1. w'.pc \notin WorkOwns
      BY <1>0, <2>3 DEF Raise, Stop, WorkOwns
    <3> QED
      BY <2>1, <2>3, <3>1, WorkReleases
  <2> QED
    BY <1>3, <2>2, <2>3 DEF CountWrite
<1>4. CASE Send \/ AfterRecord \/ QueryAction
  <2>1. lock = "work" /\ lock' = NoOne /\ UNCHANGED req
    BY <1>4 DEF Send, AfterRecord, QueryAction, At, OneOwner, WorkOwns
  <2>2. w'.pc \notin WorkOwns
    BY <1>0, <1>4 DEF Send, AfterRecord, QueryAction, Go, WorkOwns
  <2> QED
    BY <2>1, <2>2, WorkReleases
<1>5. CASE DeviceApply
  BY <1>0, <1>5, LockUntouched DEF DeviceApply, WorkOwns
<1>6. CASE ReconcileAttempt
  <2>1. CASE lock' = "work"
    BY <1>6, <2>1, WorkOwnsIt DEF ReconcileAttempt, LockFree
  <2>2. CASE Raise /\ UNCHANGED lock
    BY <1>0, <1>6, <2>2, LockUntouched DEF ReconcileAttempt, Raise, Stop, WorkOwns
  <2> QED
    BY <1>6, <2>1, <2>2 DEF ReconcileAttempt
<1> QED
  BY <1>1, <1>2, <1>3, <1>4, <1>5, <1>6 DEF ExecuteWrite

LEMMA ClientsLock ==
  ASSUME TypeInv, OneOwner, ClientStep \/ Request \/ TimerFinish
  PROVE  OneOwner'
<1> req \in [Clients -> ClientPcs]
  BY DEF TypeInv, TypeOK, TypeOfWorld
<1>1. CASE CancelAccept \/ CancelInvalidated \/ CancelFinish
  BY <1>1
  DEF CancelAccept, CancelInvalidated, CancelFinish, ClientAppends, ClientAppendsNext, ClientGo,
      ClientResumes, LockFree, NoOne, OneOwner, CancelOwns, WorkOwns, Clients
<1>2. CASE TimerFinish \/ RejectFinish
  BY <1>2
  DEF TimerFinish, RejectFinish, ClientAppends, ClientGo, LockFree, NoOne, OneOwner, CancelOwns,
      WorkOwns, Clients
<1>3. ASSUME NEW c \in {"cancel", "timer", "reject"}, ClientFinished(c)
      PROVE  OneOwner'
  BY <1>3 DEF ClientFinished, ClientResumes, ClientGo, NoOne, OneOwner, CancelOwns, WorkOwns, Clients
<1>4. CASE Intervene \/ InterveneInvalidated \/ Approve \/ Clarify \/ RejectAnswer \/ RejectStored
  BY <1>4
  DEF Intervene, InterveneInvalidated, Approve, Clarify, RejectAnswer, RejectStored, ClientAppends,
      ClientAppendsNext, ClientGo, OneOwner, CancelOwns, Clients
<1>5. CASE InterveneRefused
  BY <1>5 DEF InterveneRefused, OneOwner
<1>6. ASSUME NEW c \in {"intervene", "answer"}, ChangeStored(c)
      PROVE  OneOwner'
  <2>1. w'.pc \notin WorkOwns \/ w' = w
    BY <1>6, NoWorkerTyped DEF ChangeStored, Launch, Workers, WorkOwns
  <2> QED
    BY <1>6, <2>1 DEF ChangeStored, ClientGo, OneOwner, CancelOwns, Clients
<1> QED
  BY <1>1, <1>2, <1>3, <1>4, <1>5, <1>6 DEF ClientStep, Request

LEMMA LockInvariance == Spec => [](TypeInv /\ ActionInv /\ OneOwner)
<1>1. Init => OneOwner
  BY DEF Init, OneOwner, CancelOwns, WorkOwns, NoWorker, Clients
<1>2. ASSUME TypeInv, OneOwner, [Next]_vars
      PROVE  OneOwner'
  <2>1. CASE World
    BY <1>2, <2>1 DEF World, Expire, SetPlacement, NewEnvironment, DeviceTick, OneOwner
  <2>2. CASE UNCHANGED vars
    BY <1>2, <2>2 DEF vars, OneOwner
  <2> QED
    BY <1>2, <2>1, <2>2, HarnessLocks, ExecuteWriteLocks, ClientsLock
    DEF Next, WorkerStep, HarnessStep
<1> QED
  BY <1>1, <1>2, Invariance, PTL DEF Spec

-----------------------------------------------------------------------------
\* Between the check and the question nobody can finish the run.
AskedInv == w.pc = "policy" => ~Terminal
\* An accepted cancellation owns the lock until it has finished the run.
CancelledInv ==
  /\ cancelled /\ ~Terminal => req["cancel"] \in {"invalidating", "accepted"}
  /\ CancelWins
\* A goal change that had to wait for its event goes on with a finished run.
Reopens == Terminal /\ InterveneInvalidated
FinalKept == Terminal => lifecycle' = lifecycle

\* What a step does to the end of the run: nothing, or it finishes it as the
\* owner of the lock, or it goes on with a run that is not finished.
Ends ==
  \/ lifecycle' = lifecycle
  \/ ~Terminal /\ lifecycle' \notin TerminalLifecycles

LEMMA HarnessEnds ==
  ASSUME TypeInv, HarnessStep
  PROVE  UNCHANGED <<cancelled, req>> /\ (Ends \/ Finish)
BY DEF HarnessStep, WorkStart, CompileReturned, RouteTask, AfterRoute, ResumeBranch, ResumeAndLeave,
       Observed, PlanReturned, ResumeLoop, Decide, AskAboutConflict, Gated, WriteReturns, MultiObserved,
       StartRound, DraftReturned, CheckPlan, PlanDenied, RevisePlan, ExecutePlan, ActionObserved,
       VerifyPlan, AskAuditor, AuditReturned, Audited, Conclude, Evaluated, Finish, Finished, WaitFor,
       life, Ends, Terminal, TerminalLifecycles

LEMMA ExecuteWriteEnds ==
  ASSUME TypeInv, AskedInv, ExecuteWrite
  PROVE  UNCHANGED <<cancelled, req>> /\ Ends
BY DEF ExecuteWrite, Propose, DecidePolicy, AfterPolicy, CountWrite, Dispatch, Send, DeviceApply,
       Acknowledge, RecordReply, AfterRecord, ReconcileAttempt, QueryAction, ReconcileRecord, Settle,
       At, life, Ends, AskedInv, Terminal, TerminalLifecycles

\* Only DecidePolicy leads to the policy's answer.
LEMMA ToPolicy ==
  ASSUME TypeInv, HarnessStep \/ ExecuteWrite
  PROVE  AskedInv'
<1> SUFFICES ASSUME w'.pc = "policy" PROVE ~Terminal'
  BY DEF AskedInv
<1> w \in Workers
  BY DEF TypeInv, TypeOK, TypeOfWorld
<1>0. ASSUME NEW p, NEW a, GoWith(p, a) \/ LogWith(p, a)
      PROVE  w'.pc = p
  BY <1>0 DEF GoWith, LogWith, Workers
<1>1. ~HarnessStep
  BY HarnessOutside DEF Inside, Writing, BeforeSend
<1>2. CASE DecidePolicy
  <2>1. StillCurrent
    BY <1>0, <1>2 DEF DecidePolicy, Reject, Log
  <2> QED
    BY <1>2, <2>1 DEF DecidePolicy, StillCurrent, Terminal, life
<1>3. CASE ~DecidePolicy
  BY <1>0, <1>1, <1>3
  DEF ExecuteWrite, Propose, AfterPolicy, CountWrite, Dispatch, Send, DeviceApply, Acknowledge,
      RecordReply, AfterRecord, ReconcileAttempt, QueryAction, ReconcileRecord, Settle, Reject, Log,
      Go, Raise, Stop, Workers
<1> QED
  BY <1>2, <1>3

\* A step of the job keeps the end of the run, and a cancellation ahead of it.
LEMMA WorkerEnds ==
  ASSUME TypeInv, OneOwner, AskedInv, WorkerStep
  PROVE  AskedInv' /\ FinalKept /\ (CancelledInv => CancelledInv')
<1> USE DEF CancelledInv, CancelWins, FinalKept
<1>1. AskedInv'
  BY ToPolicy DEF WorkerStep, HarnessStep
<1>2. CASE Finish
  <2>1. CancelledInv /\ cancelled => Terminal
    BY <1>2 DEF Finish, LockFree, OneOwner, CancelOwns, NoOne
  <2> QED
    BY <1>1, <1>2, <2>1 DEF Finish, FinishLocked, Terminal
<1>3. CASE ~Finish
  <2>1. UNCHANGED <<cancelled, req>> /\ Ends
    BY <1>3, HarnessEnds, ExecuteWriteEnds DEF WorkerStep, HarnessStep
  <2> QED
    BY <1>1, <2>1 DEF Ends, Terminal
<1> QED
  BY <1>2, <1>3

\* So does a step of a client, unless it reopens the run.
LEMMA ClientsEnd ==
  ASSUME TypeInv, OneOwner, AskedInv, ClientStep \/ Request \/ TimerFinish
  PROVE  AskedInv' /\ (Reopens \/ FinalKept) /\ (CancelledInv /\ ~Reopens => CancelledInv')
<1> req \in [Clients -> ClientPcs]
  BY DEF TypeInv, TypeOK, TypeOfWorld
<1> USE DEF CancelledInv, CancelWins, FinalKept, AskedInv
<1>1. CASE CancelAccept
  <2>1. /\ ~Terminal /\ UNCHANGED <<lifecycle, w>>
        /\ req'["cancel"] \in {"invalidating", "accepted"}
    BY <1>1 DEF CancelAccept, ClientAppends, ClientGo, Clients
  <2> QED
    BY <2>1 DEF Terminal
<1>2. CASE CancelInvalidated
  <2>1. UNCHANGED <<lifecycle, cancelled, w>> /\ req'["cancel"] = "accepted"
    BY <1>2 DEF CancelInvalidated, ClientAppendsNext, ClientGo, Clients
  <2> QED
    BY <2>1 DEF Terminal
<1>3. CASE CancelFinish
  <2>1. w.pc # "policy"
    BY <1>3 DEF CancelFinish, ClientResumes, OneOwner, CancelOwns, WorkOwns
  <2>2. Terminal' /\ (Terminal => lifecycle' = lifecycle) /\ (~Terminal => lifecycle' = "CANCELLED")
    BY <1>3 DEF CancelFinish, FinishLocked, Terminal, TerminalLifecycles
  <2>3. UNCHANGED <<cancelled, w>>
    BY <1>3 DEF CancelFinish
  <2> QED
    BY <2>1, <2>2, <2>3 DEF Terminal
<1>4. CASE TimerFinish \/ RejectFinish
  <2>1. w.pc # "policy"
    BY <1>4 DEF TimerFinish, RejectFinish, LockFree, OneOwner, WorkOwns, NoOne
  <2>2. CancelledInv /\ cancelled => Terminal
    BY <1>4 DEF TimerFinish, RejectFinish, LockFree, OneOwner, CancelOwns, NoOne
  <2>3. Terminal => lifecycle' = lifecycle
    BY <1>4 DEF TimerFinish, RejectFinish, FinishLocked, Terminal
  <2>4. UNCHANGED <<cancelled, w>>
    BY <1>4 DEF TimerFinish, RejectFinish
  <2> QED
    BY <2>1, <2>2, <2>3, <2>4 DEF Terminal
<1>5. CASE Approve \/ Clarify \/ RejectAnswer \/ RejectStored \/ Intervene \/ InterveneRefused
  <2>1. UNCHANGED <<cancelled, w>> /\ req'["cancel"] = req["cancel"]
    BY <1>5
    DEF Approve, Clarify, RejectAnswer, RejectStored, Intervene, InterveneRefused, ClientAppends,
        ClientGo, Clients, life
  <2>2. lifecycle' = lifecycle \/ (~Terminal /\ lifecycle' = "RUNNING")
    BY <1>5
    DEF Approve, Clarify, RejectAnswer, RejectStored, Intervene, InterveneRefused, TakeOver, Mutable,
        life
  <2> QED
    BY <2>1, <2>2 DEF Terminal, TerminalLifecycles
<1>6. CASE InterveneInvalidated
  <2>1. UNCHANGED <<cancelled, w>> /\ req'["cancel"] = req["cancel"] /\ lifecycle' = "RUNNING"
    BY <1>6 DEF InterveneInvalidated, TakeOver, ClientAppendsNext, ClientGo, Clients
  <2> QED
    BY <1>6, <2>1 DEF Terminal, TerminalLifecycles, Reopens
<1>7. ASSUME NEW c \in {"intervene", "answer"}, ChangeStored(c)
      PROVE  AskedInv' /\ FinalKept /\ (CancelledInv => CancelledInv')
  <2>1. w'.pc # "policy" \/ w' = w
    BY <1>7, NoWorkerTyped DEF ChangeStored, Launch, Workers
  <2>2. UNCHANGED life /\ req'["cancel"] = req["cancel"]
    BY <1>7 DEF ChangeStored, ClientGo, Clients
  <2> QED
    BY <2>1, <2>2 DEF Terminal, life
<1>8. ASSUME NEW c \in {"cancel", "timer", "reject"}, ClientFinished(c)
      PROVE  AskedInv' /\ FinalKept /\ (CancelledInv => CancelledInv')
  <2>1. /\ UNCHANGED <<life, w>>
        /\ req'["cancel"] = req["cancel"] \/ req["cancel"] = "finishing"
    BY <1>8 DEF ClientFinished, ClientResumes, ClientGo, Clients
  <2> QED
    BY <2>1 DEF Terminal, life
<1> QED
  BY <1>1, <1>2, <1>3, <1>4, <1>5, <1>6, <1>7, <1>8 DEF ClientStep, Request

LEMMA NextEnds ==
  ASSUME TypeInv, OneOwner, AskedInv, [Next]_vars
  PROVE  /\ AskedInv' /\ [Reopens \/ FinalKept]_vars
         /\ CancelledInv /\ [~Reopens]_vars => CancelledInv'
<1>1. CASE World \/ UNCHANGED vars
  BY <1>1
  DEF World, Expire, SetPlacement, NewEnvironment, DeviceTick, vars, life, AskedInv, CancelledInv,
      CancelWins, FinalKept, Terminal
<1>2. CASE WorkerStep \/ ClientStep \/ Request \/ TimerFinish
  <2>1. WorkerStep => ~Reopens \/ FinalKept
    BY WorkerEnds
  <2>2. vars' = vars \/ ~([~Reopens]_vars) \/ ~Reopens
    OBVIOUS
  <2>3. vars' = vars => CancelledInv' = CancelledInv
    BY DEF vars, life, CancelledInv, CancelWins, Terminal
  <2> QED
    BY <1>2, <2>1, <2>2, <2>3, WorkerEnds, ClientsEnd
<1> QED
  BY <1>1, <1>2 DEF Next

LEMMA InitEnds == Init => AskedInv /\ CancelledInv
BY DEF Init, AskedInv, CancelledInv, CancelWins, NoWorker

LEMMA AskedInvariance == Spec => [](TypeInv /\ OneOwner /\ AskedInv)
<1>1. TypeInv /\ OneOwner /\ AskedInv /\ [Next]_vars => AskedInv'
  BY NextEnds
<1> QED
  BY <1>1, InitEnds, LockInvariance, PTL DEF Spec

\* Whatever requests there are, one step alone takes a run out of its terminal
\* lifecycle: a goal change that was accepted before the end, stored its event
\* meanwhile and goes on with the finished run.
THEOREM OnlyGoalChangesReopen == Spec => [][Reopens \/ FinalKept]_vars
<1>1. TypeInv /\ OneOwner /\ AskedInv /\ [Next]_vars => [Reopens \/ FinalKept]_vars
  BY NextEnds
<1> QED
  BY <1>1, AskedInvariance, PTL DEF Spec

\* As long as that step is not taken, an end is final and a cancellation that was
\* accepted wins, with goal changes as without.
THEOREM EndsUnlessReopened == Spec /\ [][~Reopens]_vars => TerminalIsFinal /\ []CancelWins
<1>1. TypeInv /\ OneOwner /\ AskedInv /\ [Next]_vars /\ [~Reopens]_vars
        => [Terminal => lifecycle' = lifecycle]_vars
  BY NextEnds DEF FinalKept
<1>2. TypeInv /\ OneOwner /\ AskedInv /\ CancelledInv /\ [Next]_vars /\ [~Reopens]_vars => CancelledInv'
  BY NextEnds
<1>3. CancelledInv => CancelWins
  BY DEF CancelledInv
<1> QED
  BY <1>1, <1>2, <1>3, InitEnds, AskedInvariance, PTL DEF Spec, TerminalIsFinal

\* Without goal changes no change waits for its event.
NoChange == req["intervene"] = "idle"
LEMMA ChangeNever ==
  ASSUME TypeInv, AskedInv, NoChange, "intervene" \notin Requests, [Next]_vars
  PROVE  NoChange'
<1> req \in [Clients -> ClientPcs]
  BY DEF TypeInv, TypeOK, TypeOfWorld
<1> USE DEF NoChange
<1>1. CASE WorkerStep
  BY <1>1, HarnessEnds, ExecuteWriteEnds DEF WorkerStep, HarnessStep
<1>2. CASE ClientStep \/ Request \/ TimerFinish
  BY <1>2
  DEF ClientStep, Request, CancelInvalidated, CancelFinish, InterveneInvalidated, RejectStored,
      RejectFinish, ChangeStored, ClientFinished, CancelAccept, Intervene, InterveneRefused,
      Approve, Clarify, RejectAnswer, TimerFinish, ClientAppends, ClientAppendsNext, ClientGo,
      ClientResumes, Clients
<1>3. CASE World \/ UNCHANGED vars
  BY <1>3 DEF World, Expire, SetPlacement, NewEnvironment, DeviceTick, vars
<1> QED
  BY <1>1, <1>2, <1>3 DEF Next

\* What is known of the end of a run without goal changes.
CancelInv == CancelledInv /\ NoChange
LEMMA CancelInvariance ==
  ASSUME "intervene" \notin Requests
  PROVE  Spec => []CancelInv /\ [][~Reopens]_vars
<1>1. Init => CancelInv
  BY InitEnds DEF Init, CancelInv, NoChange, Clients
<1>2. NoChange => ~Reopens
  BY DEF NoChange, Reopens, InterveneInvalidated, ClientResumes
<1>3. TypeInv /\ OneOwner /\ AskedInv /\ CancelInv /\ [Next]_vars => CancelInv'
  BY <1>2, ChangeNever, NextEnds DEF CancelInv
<1>4. CancelInv => NoChange
  BY DEF CancelInv
<1> QED
  BY <1>1, <1>2, <1>3, <1>4, AskedInvariance, PTL DEF Spec

\* Without goal changes, a finished run keeps its terminal lifecycle: the job,
\* the deadline, a rejection, an approval, a clarification and a cancellation
\* that come second leave it alone. (With goal changes it is false: README,
\* section 4.)
THEOREM TerminalStays ==
  ASSUME "intervene" \notin Requests
  PROVE  Spec => TerminalIsFinal
BY CancelInvariance, EndsUnlessReopened, PTL

\* Without goal changes, a run that accepted a cancellation ends as CANCELLED,
\* whoever else is about to finish it.
THEOREM CancellationWins ==
  ASSUME "intervene" \notin Requests
  PROVE  Spec => []CancelWins
BY CancelInvariance, EndsUnlessReopened, PTL

\* A finished run has no question open, with goal changes or without: whoever
\* finishes it closes the question, and a question is only asked of a run that
\* is not finished.
THEOREM NothingLeftOpen == Spec => []NothingAskedAtEnd
<1>1. Init => NothingAskedAtEnd
  BY DEF Init, NothingAskedAtEnd
<1>2. NothingAskedAtEnd /\ [Next]_vars => NothingAskedAtEnd'
  <2> SUFFICES ASSUME NothingAskedAtEnd, [Next]_vars PROVE NothingAskedAtEnd'
    OBVIOUS
  <2> USE DEF NothingAskedAtEnd, Terminal, TerminalLifecycles, life
  <2>1. CASE HarnessStep
    BY <2>1
    DEF HarnessStep, WorkStart, CompileReturned, RouteTask, AfterRoute, ResumeBranch, ResumeAndLeave,
        Observed, PlanReturned, ResumeLoop, Decide, AskAboutConflict, Gated, WriteReturns,
        MultiObserved, StartRound, DraftReturned, CheckPlan, PlanDenied, RevisePlan, ExecutePlan,
        ActionObserved, VerifyPlan, AskAuditor, AuditReturned, Audited, Conclude, Evaluated, Finish,
        Finished, WaitFor, FinishLocked
  <2>2. CASE ExecuteWrite
    BY <2>2
    DEF ExecuteWrite, Propose, DecidePolicy, AfterPolicy, CountWrite, Dispatch, Send, DeviceApply,
        Acknowledge, RecordReply, AfterRecord, ReconcileAttempt, QueryAction, ReconcileRecord, Settle
  <2>3. CASE ClientStep
    BY <2>3
    DEF ClientStep, CancelInvalidated, CancelFinish, InterveneInvalidated, RejectStored, RejectFinish,
        ChangeStored, ClientFinished, FinishLocked, TakeOver
  <2>4. CASE Request \/ TimerFinish
    BY <2>4
    DEF Request, CancelAccept, Intervene, InterveneRefused, Approve, Clarify, RejectAnswer,
        TimerFinish, FinishLocked, TakeOver, Mutable
  <2>5. CASE World \/ UNCHANGED vars
    BY <2>5 DEF World, Expire, SetPlacement, NewEnvironment, DeviceTick, vars
  <2> QED
    BY <2>1, <2>2, <2>3, <2>4, <2>5 DEF Next, WorkerStep, HarnessStep
<1> QED
  BY <1>1, <1>2, PTL DEF Spec
-----------------------------------------------------------------------------
(* The queue of append_event.                                                *)

InQueue(q, c) == \E i \in 1..Len(q) : q[i] = c
NoneTwice(q) == \A i, j \in 1..Len(q) : q[i] = q[j] => i = j
\* d is in the queue and c is not in front of it.
Behind(q, c, d) == \E i \in 1..Len(q) : q[i] = d /\ \A j \in 1..i : q[j] # c

LEMMA Put ==
  ASSUME NEW S, NEW q \in Seq(S), NoneTwice(q), NEW c \in S, ~InQueue(q, c)
  PROVE  /\ NoneTwice(Append(q, c))
         /\ \A d \in S : InQueue(Append(q, c), d) <=> InQueue(q, d) \/ d = c
         /\ \A d, e \in S : Behind(q, e, d) => Behind(Append(q, c), e, d)
         /\ \A d \in S : InQueue(q, d) => Behind(Append(q, c), c, d)
<1> DEFINE r == Append(q, c)
<1>1. /\ Len(r) = Len(q) + 1 /\ Len(q) \in Nat
      /\ \A i \in 1..Len(q) : r[i] = q[i]
      /\ r[Len(q) + 1] = c
  OBVIOUS
<1>2. \A i \in 1..Len(q) : q[i] # c
  BY DEF InQueue
<1> HIDE DEF r
<1>3. NoneTwice(r)
  BY <1>1, <1>2 DEF NoneTwice
<1>4. \A d \in S : InQueue(r, d) <=> InQueue(q, d) \/ d = c
  BY <1>1 DEF InQueue
<1>5. \A d, e \in S : Behind(q, e, d) => Behind(r, e, d)
  BY <1>1 DEF Behind
<1>6. \A d \in S : InQueue(q, d) => Behind(r, c, d)
  BY <1>1, <1>2 DEF InQueue, Behind
<1> QED
  BY <1>3, <1>4, <1>5, <1>6 DEF r

LEMMA Take ==
  ASSUME NEW S, NEW q \in Seq(S), NoneTwice(q), q # <<>>
  PROVE  /\ NoneTwice(Tail(q)) /\ Tail(q) \in Seq(S)
         /\ \A d \in S : InQueue(Tail(q), d) <=> InQueue(q, d) /\ d # Head(q)
         /\ \A d, e \in S : d # Head(q) /\ Behind(q, e, d) => Behind(Tail(q), e, d)
         /\ \A d, e \in S : Behind(q, e, d) /\ e # d => e # Head(q)
<1> DEFINE r == Tail(q)
<1>1. /\ Len(q) \in Nat \ {0} /\ Len(r) = Len(q) - 1 /\ q[1] = Head(q)
      /\ \A i \in 1..Len(r) : r[i] = q[i + 1]
  OBVIOUS
<1>2. r \in Seq(S)
  OBVIOUS
<1> HIDE DEF r
<1>3. NoneTwice(r)
  BY <1>1 DEF NoneTwice
<1>4. ASSUME NEW d \in S
      PROVE  InQueue(r, d) <=> InQueue(q, d) /\ d # Head(q)
  <2>1. ASSUME InQueue(r, d) PROVE InQueue(q, d) /\ d # Head(q)
    BY <1>1, <2>1 DEF InQueue, NoneTwice
  <2>2. ASSUME InQueue(q, d), d # Head(q) PROVE InQueue(r, d)
    <3>1. PICK i \in 1..Len(q) : q[i] = d
      BY <2>2 DEF InQueue
    <3>2. i - 1 \in 1..Len(r) /\ r[i - 1] = d
      BY <1>1, <2>2, <3>1
    <3> QED
      BY <3>2 DEF InQueue
  <2> QED
    BY <2>1, <2>2
<1>5. ASSUME NEW d \in S, NEW e \in S, d # Head(q), Behind(q, e, d)
      PROVE  Behind(r, e, d)
  <2>1. PICK i \in 1..Len(q) : q[i] = d /\ \A j \in 1..i : q[j] # e
    BY <1>5 DEF Behind
  <2>2. i - 1 \in 1..Len(r) /\ r[i - 1] = d /\ \A j \in 1..(i - 1) : r[j] # e
    BY <1>1, <1>5, <2>1
  <2> QED
    BY <2>2 DEF Behind
<1>6. \A d, e \in S : Behind(q, e, d) /\ e # d => e # Head(q)
  BY <1>1 DEF Behind
<1> QED
  BY <1>2, <1>3, <1>4, <1>5, <1>6 DEF r

\* Where a client waits for its event to be stored.
Queued == {"invalidating", "accepted", "finishing", "changed", "rejected"}
Awaits(c) == IF c = "work" THEN w.pc \in Appending ELSE req[c] \in Queued
\* Who waits is in the queue, once.
QueueInv == NoneTwice(store) /\ \A c \in Coroutines : InQueue(store, c) <=> Awaits(c)

\* What a step of coroutine c does to the queue: it queues up, or resumes as the
\* head, to go on or to queue up again.
Puts(c) ==
  \/ store' = Append(store, c) /\ ~Awaits(c)
  \/ store' = Append(Tail(store), c) /\ store # <<>> /\ Head(store) = c
QueueMove(c) ==
  /\ \A d \in Coroutines \ {c} : Awaits(d)' <=> Awaits(d)
  /\ \/ store' = store /\ (Awaits(c)' <=> Awaits(c))
     \/ Puts(c) /\ Awaits(c)'
     \/ store' = Tail(store) /\ store # <<>> /\ Head(store) = c /\ ~Awaits(c)'

LEMMA QueueStep ==
  ASSUME TypeInv, QueueInv, NEW c \in Coroutines, QueueMove(c)
  PROVE  /\ QueueInv'
         /\ \A d, e \in Coroutines : d # c /\ Behind(store, e, d) => Behind(store', e, d)
         /\ Puts(c) /\ Awaits(c)' => \A d \in Coroutines \ {c} : InQueue(store, d) => Behind(store', c, d)
<1> store \in Seq(Coroutines) /\ NoneTwice(store)
  BY DEF TypeInv, TypeOK, TypeOfWorld, QueueInv
<1> USE DEF QueueInv, QueueMove, Puts
<1>1. CASE store' = store /\ (Awaits(c)' <=> Awaits(c)) /\ ~Puts(c)
  BY <1>1
<1>2. CASE store' = Append(store, c) /\ ~Awaits(c) /\ Awaits(c)'
  BY <1>2, Put
<1>3. CASE store # <<>> /\ Head(store) = c /\ store' = Tail(store) /\ ~Awaits(c)'
  BY <1>3, Take
<1>4. CASE store # <<>> /\ Head(store) = c /\ store' = Append(Tail(store), c) /\ Awaits(c)'
  <2> DEFINE q == Tail(store)
  <2>1. /\ NoneTwice(q) /\ q \in Seq(Coroutines) /\ ~InQueue(q, c)
        /\ \A d \in Coroutines : InQueue(q, d) <=> InQueue(store, d) /\ d # c
        /\ \A d, e \in Coroutines : d # c /\ Behind(store, e, d) => Behind(q, e, d)
    BY <1>4, Take
  <2>2. Awaits(c)
    <3>1. 1 \in 1..Len(store) /\ store[1] = c
      BY <1>4
    <3> QED
      BY <3>1 DEF InQueue
  <2> HIDE DEF q
  <2>3. /\ NoneTwice(Append(q, c))
        /\ \A d \in Coroutines : InQueue(Append(q, c), d) <=> InQueue(q, d) \/ d = c
        /\ \A d, e \in Coroutines : Behind(q, e, d) => Behind(Append(q, c), e, d)
        /\ \A d \in Coroutines : InQueue(q, d) => Behind(Append(q, c), c, d)
    BY <2>1, Put
  <2>4. store' = Append(q, c)
    BY <1>4 DEF q
  <2> QED
    BY <1>4, <2>1, <2>2, <2>3, <2>4
<1> QED
  BY <1>1, <1>2, <1>3, <1>4

\* The job resumed: off the queue, or at its end again.
Moved ==
  \/ w'.pc \in Free /\ store' = Rest
  \/ w'.pc \in Appending /\ store' = Append(Rest, "work")
\* The job holds a version and has appended no event since it took it.
Early == {"off", "start", "compile", "observe", "think", "multi", "verify", "finish"}
Compiling == {"compile", "compiled", "routed"}
\* The job is not yet, or no longer, at work on what it copied.
Apart == {"off", "start", "leave", "branch", "finish", "finishing"}
\* It keeps its copies of version and epoch, or makes new ones.
Keeps == w'.v = w.v /\ w'.e = w.e
Copies == w'.v = version /\ w'.e = epoch
\* What it has found when it returns.
MayLeave ==
  \/ Halted \/ pending # NoPending
  \/ w.pc \in {"leave", "finishing"}
  \/ w.pc = "gated" /\ w.arg = "STALE"
  \/ w.pc = "verify" /\ w.v # version

LEMMA HarnessMoves ==
  ASSUME TypeInv, HarnessStep
  PROVE  /\ Moved
         /\ w'.v \in {w.v, 0} \/ (w'.v = version /\ w'.pc \in {"compile", "observe", "multi"})
         /\ w'.pc \in Compiling => WorkStart \/ CompileReturned \/ RouteTask
         /\ w.pc \in Early => w'.pc \in Early \cup Appending
         /\ w'.pc = "off" \/ Keeps \/ (Copies /\ w'.pc \in {"compile", "observe", "multi"})
         /\ w.pc \in Apart =>
              w'.pc \in {"off", "finish", "finishing"} \/ (Copies /\ w'.pc \in {"compile", "observe", "multi"})
         /\ w'.pc = "off" => MayLeave
         /\ w'.pc = "leave" => Stale \/ lifecycle' \in WaitingLifecycles
         /\ w'.pc # "start"
<1> w \in Workers
  BY DEF TypeInv, TypeOK, TypeOfWorld
<1> DEFINE Goes(P) == w'.pc \in P /\ store' = Rest /\ Keeps
           Logs(P) == w'.pc \in P /\ store' = Append(Rest, "work") /\ Keeps
           Takes(P) == w'.pc \in P /\ store' = Rest /\ Copies
           Quits == w'.pc = "off" /\ store' = Rest /\ w'.v = 0
<1>1. ASSUME NEW p, NEW a, GoWith(p, a) PROVE Goes({p})
  BY <1>1 DEF GoWith, Workers, Keeps
<1>2. ASSUME NEW p, NEW a, LogWith(p, a) PROVE Logs({p})
  BY <1>2 DEF LogWith, Workers, Keeps
<1>3. ASSUME Leave PROVE Quits
  BY <1>3 DEF Leave, NoWorker
<1>4. ASSUME NEW to, Stop(to) PROVE Goes({"finish"})
  BY <1>1, <1>4 DEF Stop
<1>5. ASSUME NEW n, LoopHead(n) \/ LoopRound(n)
      PROVE  (Quits /\ Halted) \/ Goes({"finish"}) \/ Takes({"observe"})
  BY <1>3, <1>4, <1>5 DEF LoopHead, LoopRound, NoWorker, Copies
<1>6. ASSUME BranchUnlessHalted \/ Branch
      PROVE  (Quits /\ Halted) \/ Goes({"finish"}) \/ Takes({"observe", "multi"})
  <2>1. ASSUME MultiHead PROVE Goes({"finish"}) \/ Takes({"multi"})
    BY <1>4, <2>1 DEF MultiHead, NoWorker, Copies
  <2> QED
    BY <1>3, <1>4, <1>5, <1>6, <2>1 DEF BranchUnlessHalted, Branch
<1>7. ASSUME NEW r, RoundHead(r) PROVE Goes({"verify", "draft"}) \/ (Logs({"leave"}) /\ Stale)
  BY <1>1, <1>2, <1>7 DEF RoundHead, Go, Log, Workers, Keeps
<1>8. ASSUME PlanHead
      PROVE  \/ Goes({"gate", "audit"}) \/ (Logs({"leave"}) /\ Stale)
             \/ Quits /\ (Terminal \/ pending # NoPending)
  BY <1>1, <1>2, <1>3, <1>8 DEF PlanHead, Go, Log, Workers, Keeps
<1>9. ASSUME NEW c, CheckAction(c) PROVE Logs({"gated"})
  BY <1>9 DEF CheckAction, Workers, Keeps
<1>10. ASSUME NEW d, NEW c, PlanReady(d, c) PROVE Logs({"reloop", "decide"})
  BY <1>2, <1>10 DEF PlanReady, Log, Workers, Keeps
<1> USE DEF Go, Log, Raise, Appending, Free, Moved, Early, Compiling, Apart, MayLeave, Keeps, Copies
<1>11. CASE WorkStart
  <2>1. CASE Terminal
    BY <1>3, <1>11, <2>1 DEF WorkStart, At, Halted
  <2>2. CASE ~Terminal /\ goals = {} /\ route # "CHAT"
    BY <1>11, <2>2 DEF WorkStart, At, Workers, Copies
  <2>3. CASE ~Terminal /\ ~(goals = {} /\ route # "CHAT")
    BY <1>6, <1>11, <2>3 DEF WorkStart, At
  <2> QED
    BY <2>1, <2>2, <2>3
<1>12. CASE CompileReturned \/ RouteTask
  BY <1>2, <1>4, <1>12 DEF CompileReturned, RouteTask, At
<1>13. CASE AfterRoute
  BY <1>2, <1>3, <1>4, <1>6, <1>13 DEF AfterRoute, BindTask, WaitFor, At, Halted
<1>14. CASE ResumeBranch \/ ResumeAndLeave
  BY <1>3, <1>6, <1>14 DEF ResumeBranch, ResumeAndLeave, At
<1>15. CASE Observed \/ PlanReturned \/ ResumeLoop
  BY <1>1, <1>2, <1>4, <1>5, <1>10, <1>15 DEF Observed, PlanReturned, ResumeLoop, At
<1>16. CASE Decide \/ AskAboutConflict
  BY <1>1, <1>2, <1>3, <1>4, <1>5, <1>9, <1>16
  DEF Decide, AskAboutConflict, WaitFor, WaitingLifecycles, At, Halted
<1>17. CASE Gated
  BY <1>1, <1>3, <1>4, <1>5, <1>8, <1>17 DEF Gated, At, Halted
<1>18. CASE WriteReturns
  <2>1. ASSUME AfterLoopWrite
        PROVE  Goes({"finish", "verify"}) \/ Takes({"observe"}) \/ (Quits /\ (Halted \/ pending # NoPending))
    BY <1>1, <1>3, <1>4, <1>5, <2>1 DEF AfterLoopWrite, Halted
  <2>2. ASSUME AfterPlannedWrite
        PROVE  \/ Goes({"finish", "gate", "audit"}) \/ (Logs({"leave"}) /\ Stale)
               \/ Quits /\ (Terminal \/ pending # NoPending)
    BY <1>2, <1>3, <1>4, <1>8, <2>2 DEF AfterPlannedWrite, Stale
  <2> QED
    BY <1>18, <2>1, <2>2 DEF WriteReturns, At, Halted
<1>19. CASE MultiObserved \/ StartRound \/ DraftReturned \/ PlanDenied \/ RevisePlan
  BY <1>2, <1>4, <1>7, <1>19
  DEF MultiObserved, StartRound, NextRound, DraftReturned, PlanDenied, RevisePlan, At
<1>20. CASE CheckPlan
  BY <1>2, <1>20 DEF CheckPlan, StillCurrent, Stale, At
<1>21. CASE ExecutePlan \/ ActionObserved
  BY <1>4, <1>8, <1>9, <1>21 DEF ExecutePlan, ActionObserved, At, Halted
<1>22. CASE VerifyPlan \/ AskAuditor \/ AuditReturned \/ Audited
  BY <1>1, <1>2, <1>4, <1>22 DEF VerifyPlan, AskAuditor, AuditReturned, Audited, At
<1>23. CASE Conclude \/ Evaluated \/ Finish \/ Finished
  BY <1>1, <1>2, <1>3, <1>4, <1>23 DEF Conclude, Evaluated, Finish, Finished, At, Halted
<1> QED
  BY <1>11, <1>12, <1>13, <1>14, <1>15, <1>16, <1>17, <1>18, <1>19, <1>20, <1>21, <1>22, <1>23
  DEF HarnessStep

LEMMA ExecuteWriteMoves ==
  ASSUME TypeInv, ExecuteWrite
  PROVE  /\ Moved /\ w'.v = w.v /\ w'.e = w.e
         /\ w'.pc \in Inside \cup {"finish"} /\ w.pc \in Inside \cup {"propose"}
<1> w \in Workers
  BY DEF TypeInv, TypeOK, TypeOfWorld
<1> USE DEF Moved, Appending, Free, Inside, Writing, BeforeSend, InDoubt, Keeps
<1>1. ASSUME NEW p, NEW a, GoWith(p, a) PROVE w'.pc = p /\ store' = Rest /\ Keeps
  BY <1>1 DEF GoWith, Workers
<1>2. ASSUME NEW p, NEW a, LogWith(p, a)
      PROVE  w'.pc = p /\ store' = Append(Rest, "work") /\ Keeps
  BY <1>2 DEF LogWith, Workers
<1>3. CASE Propose \/ ReconcileRecord
  BY <1>3 DEF Propose, ReconcileRecord, At, Workers
<1>4. CASE DecidePolicy \/ AfterPolicy \/ CountWrite \/ Dispatch
  BY <1>1, <1>2, <1>4
  DEF DecidePolicy, AfterPolicy, CountWrite, Dispatch, Reject, Log, Raise, Stop, At
<1>5. CASE Send \/ DeviceApply \/ Acknowledge \/ RecordReply \/ AfterRecord \/ ReconcileAttempt
           \/ QueryAction \/ Settle
  BY <1>1, <1>2, <1>5
  DEF Send, DeviceApply, Acknowledge, RecordReply, AfterRecord, ReconcileAttempt, QueryAction,
      Settle, Go, Log, Raise, Stop, At
<1> QED
  BY <1>3, <1>4, <1>5 DEF ExecuteWrite

LEMMA WorkerQueues ==
  ASSUME TypeInv, WorkerStep
  PROVE  /\ QueueMove("work") /\ (w'.pc \in Appending => Puts("work") /\ Awaits("work")')
         /\ w.pc \in Appending => store # <<>> /\ Head(store) = "work"
         /\ UNCHANGED req
<1>1. w.pc \in Appending => store # <<>> /\ Head(store) = "work"
  <2>1. CASE HarnessStep
    BY <2>1
    DEF HarnessStep, WorkStart, CompileReturned, RouteTask, AfterRoute, ResumeBranch, ResumeAndLeave,
        Observed, PlanReturned, ResumeLoop, Decide, AskAboutConflict, Gated, WriteReturns, MultiObserved,
        StartRound, DraftReturned, CheckPlan, PlanDenied, RevisePlan, ExecutePlan, ActionObserved,
        VerifyPlan, AskAuditor, AuditReturned, Audited, Conclude, Evaluated, Finish, Finished, At
  <2>2. CASE ExecuteWrite
    BY <2>2
    DEF ExecuteWrite, Propose, DecidePolicy, AfterPolicy, CountWrite, Dispatch, Send, DeviceApply,
        Acknowledge, RecordReply, AfterRecord, ReconcileAttempt, QueryAction, ReconcileRecord, Settle, At
  <2> QED
    BY <2>1, <2>2 DEF WorkerStep, HarnessStep
<1>2. Moved
  BY HarnessMoves, ExecuteWriteMoves DEF WorkerStep, HarnessStep
<1>3. UNCHANGED req
  <2>1. CASE HarnessStep
    BY <2>1
    DEF HarnessStep, WorkStart, CompileReturned, RouteTask, AfterRoute, ResumeBranch, ResumeAndLeave,
        Observed, PlanReturned, ResumeLoop, Decide, AskAboutConflict, Gated, WriteReturns, MultiObserved,
        StartRound, DraftReturned, CheckPlan, PlanDenied, RevisePlan, ExecutePlan, ActionObserved,
        VerifyPlan, AskAuditor, AuditReturned, Audited, Conclude, Evaluated, Finish, Finished
  <2>2. CASE ExecuteWrite
    BY <2>2
    DEF ExecuteWrite, Propose, DecidePolicy, AfterPolicy, CountWrite, Dispatch, Send, DeviceApply,
        Acknowledge, RecordReply, AfterRecord, ReconcileAttempt, QueryAction, ReconcileRecord, Settle
  <2> QED
    BY <2>1, <2>2 DEF WorkerStep, HarnessStep
<1>4. \A d \in Coroutines \ {"work"} : Awaits(d)' <=> Awaits(d)
  BY <1>3 DEF Awaits
<1>5. Appending \cap Free = {}
  BY DEF Appending, Free
<1>6. Rest = IF Awaits("work") THEN Tail(store) ELSE store
  BY DEF Awaits, Rest
<1> QED
  BY <1>1, <1>2, <1>3, <1>4, <1>5, <1>6 DEF Moved, QueueMove, Puts, Awaits

\* A step of client c: its request goes on whenever it moves in the queue.
ClientMove(c) ==
  /\ QueueMove(c) /\ (\A d \in Clients \ {c} : req'[d] = req[d])
  /\ store' = store \/ req'[c] # req[c]
LEMMA ClientsQueue ==
  ASSUME TypeInv, ClientStep \/ Request \/ TimerFinish
  PROVE  \E c \in Clients : ClientMove(c)
<1> req \in [Clients -> ClientPcs] /\ Clients \subseteq Coroutines /\ "work" \notin Clients
  BY DEF TypeInv, TypeOK, TypeOfWorld, Coroutines, Clients
<1>1. w' = w \/ (w.pc = "off" /\ w'.pc = "start")
  BY NoWorkerTyped
  DEF ClientStep, Request, CancelInvalidated, CancelFinish, InterveneInvalidated, RejectStored,
      RejectFinish, ChangeStored, ClientFinished, CancelAccept, Intervene, InterveneRefused,
      Approve, Clarify, RejectAnswer, TimerFinish, Launch, Workers
<1>2. w'.pc \in Appending <=> w.pc \in Appending
  BY <1>1 DEF Appending
<1>3. ASSUME NEW c \in Clients, NEW p, ClientGo(c, p)
      PROVE  /\ req'[c] = p /\ (Awaits(c)' <=> p \in Queued) /\ (Awaits(c) <=> req[c] \in Queued)
             /\ \A d \in Clients \ {c} : req'[d] = req[d]
             /\ \A d \in Coroutines \ {c} : Awaits(d)' <=> Awaits(d)
  BY <1>2, <1>3 DEF ClientGo, Awaits, Coroutines
<1>4. ASSUME NEW c \in Clients, NEW p \in Queued, ClientAppends(c, p), req[c] \notin Queued
      PROVE  ClientMove(c)
  BY <1>3, <1>4 DEF ClientAppends, ClientMove, QueueMove, Puts
<1>5. ASSUME NEW c \in Clients, NEW p \in Queued, NEW q, ClientAppendsNext(c, p), ClientResumes(c, q), p # q
      PROVE  ClientMove(c)
  BY <1>3, <1>5 DEF ClientAppendsNext, ClientResumes, ClientMove, QueueMove, Puts
<1>6. ASSUME NEW c \in Clients, NEW q, ClientResumes(c, q), store' = Tail(store), q \in Queued,
             NEW p \in {"idle", "locking"}, ClientGo(c, p)
      PROVE  ClientMove(c)
  BY <1>3, <1>6 DEF ClientResumes, ClientMove, QueueMove, Queued
<1> USE DEF Clients, Queued
<1>7. CASE CancelAccept
  BY <1>4, <1>7 DEF CancelAccept, ClientAt
<1>8. CASE Intervene \/ Approve \/ Clarify \/ RejectAnswer
  BY <1>4, <1>8 DEF Intervene, Approve, Clarify, RejectAnswer, ClientAt
<1>9. CASE CancelInvalidated \/ CancelFinish \/ InterveneInvalidated
  BY <1>5, <1>9 DEF CancelInvalidated, CancelFinish, InterveneInvalidated
<1>10. CASE RejectStored \/ (\E c \in {"intervene", "answer"} : ChangeStored(c))
            \/ (\E c \in {"cancel", "timer", "reject"} : ClientFinished(c))
  BY <1>6, <1>10 DEF RejectStored, ChangeStored, ClientFinished
<1>11. CASE TimerFinish
  BY <1>4, <1>11 DEF TimerFinish, ClientAt
<1>12. CASE RejectFinish
  <2>1. CASE Terminal
    BY <1>3, <1>12, <2>1 DEF RejectFinish, ClientAt, ClientMove, QueueMove
  <2>2. CASE ~Terminal
    BY <1>4, <1>12, <2>2 DEF RejectFinish, ClientAt
  <2> QED
    BY <2>1, <2>2
<1>13. CASE InterveneRefused
  <2>1. UNCHANGED <<req, store, w>>
    BY <1>13 DEF InterveneRefused
  <2> QED
    BY <2>1 DEF ClientMove, QueueMove, Awaits
<1> QED
  BY <1>7, <1>8, <1>9, <1>10, <1>11, <1>12, <1>13 DEF ClientStep, Request
-----------------------------------------------------------------------------
\* The version the job holds is the run's or an older one, and the task it is
\* compiling cannot be edited or replaced meanwhile.
VersionInv ==
  /\ w.v <= version
  /\ w.pc \in Compiling => w.v = version /\ goals = {} /\ lifecycle \notin WaitingLifecycles
\* A goal change that still has to withdraw finds the job at another version,
\* or in front of its next event, where it waits behind the change; so the
\* action of a job at the current version is not withdrawn.
OvertakenInv ==
  /\ req["intervene"] = "invalidating" /\ w.v = version =>
       w.pc \in Early \/ (w.pc \in Appending \ Inside /\ Behind(store, "work", "intervene"))
  /\ w.pc \in {"proposed", "policy"} /\ status[last] = "CANCELLED_BEFORE_DISPATCH" => w.v # version
TurnInv == QueueInv /\ VersionInv /\ OvertakenInv

LEMMA WorkerTurn ==
  ASSUME TypeInv, QueueInv, WorkerStep
  PROVE  QueueInv'
BY WorkerQueues, QueueStep DEF Coroutines

LEMMA HarnessVersion ==
  ASSUME TypeInv, VersionInv, HarnessStep
  PROVE  VersionInv' /\ UNCHANGED version
<1> w \in Workers /\ version \in Versions /\ w.v \in Nat
  BY DEF TypeInv, TypeOK, TypeOfWorld, TypeOfRun, Workers
<1>1. UNCHANGED version
  <2>1. CASE AfterRoute
    BY <2>1 DEF AfterRoute, BindTask, WaitFor, task, At, VersionInv, Compiling
  <2>2. CASE ~AfterRoute
    BY <2>2
    DEF HarnessStep, WorkStart, CompileReturned, RouteTask, ResumeBranch, ResumeAndLeave,
        Observed, PlanReturned, ResumeLoop, Decide, AskAboutConflict, Gated, WriteReturns,
        MultiObserved, StartRound, DraftReturned, CheckPlan, PlanDenied, RevisePlan, ExecutePlan,
        ActionObserved, VerifyPlan, AskAuditor, AuditReturned, Audited, Conclude, Evaluated, Finish,
        Finished, task
  <2> QED
    BY <2>1, <2>2
<1>2. w'.v <= version
  BY HarnessMoves DEF VersionInv, Versions
<1>3. CASE w'.pc \in Compiling
  <2>1. CASE CompileReturned \/ RouteTask
    <3>1. w'.v = w.v /\ w.pc \in Compiling /\ UNCHANGED <<goals, lifecycle>>
      <4>1. ASSUME NEW p, Log(p) PROVE w'.v = w.v
        BY <4>1 DEF Log, LogWith, Workers
      <4>2. ASSUME Raise PROVE w'.v = w.v
        BY <4>2 DEF Raise, Stop, GoWith, Workers
      <4> QED
        BY <2>1, <4>1, <4>2 DEF CompileReturned, RouteTask, At, Compiling, task, life
    <3> QED
      BY <1>1, <3>1 DEF VersionInv
  <2>2. CASE WorkStart
    <3>1. ~Terminal
      BY <1>3, <2>2 DEF WorkStart, Leave, NoWorker, Compiling
    <3>2. ~Branch
      <4> SUFFICES ASSUME Branch PROVE FALSE
        OBVIOUS
      <4>1. w'.pc \in {"finish", "multi", "observe"}
        <5>1. ASSUME NEW to, Stop(to) PROVE w'.pc = "finish"
          BY <5>1 DEF Stop, GoWith, Workers
        <5> QED
          BY <5>1 DEF Branch, MultiHead, LoopRound, NoWorker
      <4> QED
        BY <1>3, <4>1 DEF Compiling
    <3>3. w'.pc = "compile" /\ w'.v = version /\ goals = {} /\ lifecycle' = "RUNNING" /\ UNCHANGED goals
      BY <2>2, <3>1, <3>2 DEF WorkStart, Workers, task
    <3> QED
      BY <1>1, <3>3 DEF VersionInv, Versions, WaitingLifecycles
  <2> QED
    BY <1>3, <2>1, <2>2, HarnessMoves
<1> QED
  BY <1>1, <1>2, <1>3 DEF VersionInv

LEMMA ExecuteWriteVersion ==
  ASSUME TypeInv, VersionInv, ExecuteWrite
  PROVE  VersionInv' /\ UNCHANGED version
<1>1. w'.v = w.v /\ w'.pc \notin Compiling
  BY ExecuteWriteMoves DEF Inside, Writing, BeforeSend, InDoubt, Compiling
<1>2. UNCHANGED version
  BY DEF ExecuteWrite, Propose, DecidePolicy, AfterPolicy, CountWrite, Dispatch, Send, DeviceApply,
         Acknowledge, RecordReply, AfterRecord, ReconcileAttempt, QueryAction, ReconcileRecord, Settle,
         task
<1> QED
  BY <1>1, <1>2 DEF VersionInv

LEMMA ClientsVersion ==
  ASSUME TypeInv, VersionInv, ClientStep \/ Request \/ TimerFinish
  PROVE  /\ VersionInv'
         /\ w' = w \/ (w'.pc = "start" /\ w'.v = 0 /\ version' = version)
         /\ version' = version \/ (w' = w /\ w.v # version')
         /\ req'["intervene"] = "invalidating" =>
              version' # version \/ req["intervene"] = "invalidating"
<1> w \in Workers /\ version \in Versions /\ w.v \in Nat
  BY DEF TypeInv, TypeOK, TypeOfWorld, TypeOfRun, Workers
<1> USE DEF Versions
<1>1. CASE Intervene \/ Clarify
  <2>1. version' = version + 1 /\ w' = w /\ w.v # version'
    BY <1>1 DEF Intervene, Clarify, VersionInv
  <2>2. w.pc \notin Compiling
    BY <1>1 DEF Intervene, Clarify, VersionInv, WaitingLifecycles
  <2> QED
    BY <2>1, <2>2 DEF VersionInv
<1>2. CASE InterveneRefused
  <2>1. w.pc \notin Compiling
    BY <1>2 DEF InterveneRefused, VersionInv
  <2> QED
    BY <1>2, <2>1 DEF InterveneRefused, VersionInv
<1>3. CASE ~Intervene /\ ~Clarify /\ ~InterveneRefused
  <2>1. UNCHANGED <<version, goals>>
    BY <1>3
    DEF ClientStep, Request, CancelInvalidated, CancelFinish, InterveneInvalidated, RejectStored,
        RejectFinish, ChangeStored, ClientFinished, CancelAccept, Approve, RejectAnswer,
        TimerFinish, TakeOver, task
  <2>2. w' = w \/ (w'.pc = "start" /\ w'.v = 0)
    BY <1>3, NoWorkerTyped
    DEF ClientStep, Request, CancelInvalidated, CancelFinish, InterveneInvalidated, RejectStored,
        RejectFinish, ChangeStored, ClientFinished, CancelAccept, Approve, RejectAnswer,
        TimerFinish, Launch, NoWorker
  <2>3. lifecycle' \in WaitingLifecycles => lifecycle \in WaitingLifecycles
    BY <1>3
    DEF ClientStep, Request, CancelInvalidated, CancelFinish, InterveneInvalidated, RejectStored,
        RejectFinish, ChangeStored, ClientFinished, CancelAccept, Approve, RejectAnswer,
        TimerFinish, TakeOver, FinishLocked, life, WaitingLifecycles
  <2>4. req'["intervene"] = "invalidating" => req["intervene"] = "invalidating"
    <3> req \in [Clients -> ClientPcs]
      BY DEF TypeInv, TypeOK, TypeOfWorld
    <3> QED
      BY <1>3
      DEF ClientStep, Request, CancelInvalidated, CancelFinish, InterveneInvalidated, RejectStored,
          RejectFinish, ChangeStored, ClientFinished, CancelAccept, Approve, RejectAnswer,
          TimerFinish, ClientAppends, ClientAppendsNext, ClientGo, Clients
  <2> QED
    BY <2>1, <2>2, <2>3, <2>4 DEF VersionInv, Compiling
<1> QED
  BY <1>1, <1>2, <1>3 DEF InterveneRefused, Intervene, Clarify

\* The job takes its turn in the queue: behind the change, or with no event to
\* wait for.
LEMMA WorkerOvertaken ==
  ASSUME TypeInv, ActionInv, OneOwner, TurnInv, WorkerStep
  PROVE  OvertakenInv'
<1> w \in Workers /\ version \in Versions /\ QueueInv /\ VersionInv /\ OvertakenInv
  BY DEF TypeInv, TypeOK, TypeOfWorld, TypeOfRun, TurnInv
<1> "work" \in Coroutines /\ "intervene" \in Coroutines
  BY DEF Coroutines, Clients
<1>1. UNCHANGED <<version, req>>
  <2>1. UNCHANGED version
    BY HarnessVersion, ExecuteWriteVersion DEF WorkerStep, HarnessStep
  <2> QED
    BY <2>1, WorkerQueues
<1>2. ASSUME req["intervene"] = "invalidating", w.v = version
      PROVE  w.pc \in Early
  <2>1. w.pc \in Early \/ (w.pc \in Appending /\ Behind(store, "work", "intervene"))
    BY <1>2 DEF OvertakenInv
  <2>2. Behind(store, "work", "intervene") /\ store # <<>> => Head(store) # "work"
    BY Take DEF QueueInv, TypeInv, TypeOK, TypeOfWorld
  <2> QED
    BY <2>1, <2>2, WorkerQueues
<1>3. ASSUME req'["intervene"] = "invalidating", w'.v = version'
      PROVE  w'.pc \in Early \/ (w'.pc \in Appending \ Inside /\ Behind(store', "work", "intervene"))
  <2>1. w'.pc \in Appending => Behind(store', "work", "intervene")
    <3>1. InQueue(store, "intervene")
      BY <1>1, <1>3 DEF QueueInv, Awaits, Queued
    <3> QED
      BY <3>1, WorkerQueues, QueueStep
  <2>2. CASE HarnessStep
    <3>1. CASE w.v = version
      BY <1>1, <1>2, <1>3, <2>1, <2>2, <3>1, HarnessMoves, HarnessOutside
    <3>2. CASE w.v # version
      BY <1>1, <1>3, <2>2, <3>2, HarnessMoves DEF Early, Versions
    <3> QED
      BY <3>1, <3>2
  <2>3. CASE ExecuteWrite
    BY <1>1, <1>2, <1>3, <2>3, ExecuteWriteMoves
    DEF Early, Inside, Writing, BeforeSend, InDoubt
  <2> QED
    BY <2>2, <2>3 DEF WorkerStep, HarnessStep
<1>4. ASSUME w'.pc \in {"proposed", "policy"}, status'[last'] = "CANCELLED_BEFORE_DISPATCH"
      PROVE  w'.v # version'
  <2>1. CASE HarnessStep
    BY <1>4, <2>1, HarnessOutside DEF Inside, Writing, BeforeSend
  <2>2. CASE Propose
    <3>1. last' \in ActionIds /\ status'[last'] = "PROPOSED"
      BY <2>2, Proposes DEF Propose, TypeInv, TypeOK, TypeOfActions
    <3> QED
      BY <1>4, <3>1
  <2>3. CASE ExecuteWrite /\ ~Propose
    <3>1. DecidePolicy /\ UNCHANGED <<status, last>>
      <4>1. ASSUME NEW p, NEW a, GoWith(p, a) \/ LogWith(p, a) PROVE w'.pc = p
        BY <4>1 DEF GoWith, LogWith, Workers
      <4> QED
        BY <1>4, <2>3, <4>1
        DEF ExecuteWrite, DecidePolicy, AfterPolicy, CountWrite, Dispatch, Send, DeviceApply,
            Acknowledge, RecordReply, AfterRecord, ReconcileAttempt, QueryAction, ReconcileRecord,
            Settle, Reject, Go, Log, Raise, Stop, Workers
    <3>2. w.pc = "proposed" /\ w'.v = w.v
      BY <2>3, <3>1, ExecuteWriteMoves DEF DecidePolicy, At
    <3> QED
      BY <1>1, <1>4, <3>1, <3>2 DEF OvertakenInv
  <2> QED
    BY <2>1, <2>2, <2>3 DEF WorkerStep, HarnessStep
<1> QED
  BY <1>3, <1>4 DEF OvertakenInv

\* Who withdraws what is proposed owns the lock, like the job that proposes, or
\* has changed the goals.
LEMMA ClientsOvertaken ==
  ASSUME TypeInv, OneOwner, TurnInv, ClientStep \/ Request \/ TimerFinish
  PROVE  OvertakenInv'
<1> w \in Workers /\ version \in Versions /\ QueueInv /\ VersionInv /\ OvertakenInv
  BY DEF TypeInv, TypeOK, TypeOfWorld, TypeOfRun, TurnInv
<1> "work" \in Coroutines /\ "intervene" \in Coroutines /\ "intervene" \in Clients
  BY DEF Coroutines, Clients
<1>1. ASSUME req'["intervene"] = "invalidating", w'.v = version'
      PROVE  w'.pc \in Early \/ (w'.pc \in Appending \ Inside /\ Behind(store', "work", "intervene"))
  <2>1. CASE w' = w /\ version' = version
    <3>1. req["intervene"] = "invalidating" /\ w.v = version
      BY <1>1, <2>1, ClientsVersion
    <3>2. PICK c \in Clients : ClientMove(c)
      BY ClientsQueue
    <3>3. CASE c # "intervene"
      BY <2>1, <3>1, <3>2, <3>3, QueueStep DEF OvertakenInv, ClientMove, Coroutines
    <3>4. CASE c = "intervene"
      BY <1>1, <2>1, <3>1, <3>2, <3>4 DEF OvertakenInv, ClientMove
    <3> QED
      BY <3>3, <3>4
  <2>2. CASE w'.pc = "start"
    BY <2>2 DEF Early
  <2>3. CASE w' = w /\ w.v # version'
    BY <1>1, <2>3
  <2> QED
    BY <2>1, <2>2, <2>3, ClientsVersion
<1>2. ASSUME w'.pc \in {"proposed", "policy"}, status'[last'] = "CANCELLED_BEFORE_DISPATCH"
      PROVE  w'.v # version'
  <2>1. w' = w /\ UNCHANGED last
    BY <1>2, ClientsVersion
    DEF ClientStep, Request, CancelInvalidated, CancelFinish, InterveneInvalidated, RejectStored,
        RejectFinish, ChangeStored, ClientFinished, CancelAccept, Intervene, InterveneRefused,
        Approve, Clarify, RejectAnswer, TimerFinish, acts
  <2>2. CASE UNCHANGED status
    <3>1. CASE version' = version
      BY <1>2, <2>1, <2>2, <3>1 DEF OvertakenInv
    <3>2. CASE w.v # version'
      BY <2>1, <3>2
    <3> QED
      BY <2>1, <3>1, <3>2, ClientsVersion
  <2>3. CASE CancelAccept \/ CancelInvalidated
    <3>1. lock = "work"
      BY <1>2, <2>1 DEF OneOwner, WorkOwns
    <3> QED
      BY <2>3, <3>1
      DEF CancelAccept, CancelInvalidated, LockFree, NoOne, ClientResumes, OneOwner, CancelOwns
  <2>4. CASE Intervene
    BY <2>1, <2>4, ClientsVersion DEF Intervene, Versions, VersionInv
  <2>5. CASE InterveneInvalidated
    BY <1>2, <2>1, <2>5
    DEF InterveneInvalidated, ClientResumes, OvertakenInv, Early, Inside, Writing, BeforeSend
  <2> QED
    BY <1>2, <2>2, <2>3, <2>4, <2>5
    DEF ClientStep, Request, CancelFinish, RejectStored, RejectFinish, ChangeStored, ClientFinished,
        InterveneRefused, Approve, Clarify, RejectAnswer, TimerFinish, acts
<1> QED
  BY <1>1, <1>2 DEF OvertakenInv

LEMMA TurnKept == TypeInv /\ ActionInv /\ OneOwner /\ TurnInv /\ [Next]_vars => TurnInv'
<1> SUFFICES ASSUME TypeInv, ActionInv, OneOwner, TurnInv, [Next]_vars PROVE TurnInv'
  OBVIOUS
<1>1. CASE WorkerStep
  BY <1>1, WorkerTurn, HarnessVersion, ExecuteWriteVersion, WorkerOvertaken
  DEF TurnInv, WorkerStep, HarnessStep
<1>2. CASE ClientStep \/ Request \/ TimerFinish
  <2>1. PICK c \in Clients : ClientMove(c)
    BY <1>2, ClientsQueue
  <2>2. QueueInv'
    BY <2>1, QueueStep DEF TurnInv, ClientMove, Coroutines
  <2> QED
    BY <1>2, <2>2, ClientsVersion, ClientsOvertaken DEF TurnInv
<1>3. CASE World \/ UNCHANGED vars
  <2>1. UNCHANGED <<store, req, w, version, goals, lifecycle, status, last>>
    BY <1>3 DEF World, Expire, SetPlacement, NewEnvironment, DeviceTick, vars, life, task, acts
  <2> QED
    BY <2>1 DEF TurnInv, QueueInv, Awaits, VersionInv, OvertakenInv
<1> QED
  BY <1>1, <1>2, <1>3 DEF Next

LEMMA TurnInvariance == Spec => [](TypeInv /\ ActionInv /\ OneOwner /\ TurnInv)
<1>1. Init => TurnInv
  BY DEF Init, TurnInv, QueueInv, NoneTwice, InQueue, Awaits, Queued, Appending, VersionInv, Compiling,
         OvertakenInv, NoWorker, Clients, Coroutines
<1> QED
  BY <1>1, TurnKept, LockInvariance, PTL DEF Spec
-----------------------------------------------------------------------------
\* An action never goes back. A withdrawn action is never authorized, since a
\* job at the policy's answer for it is at another goal version.
THEOREM NeverResentHolds == Spec => NeverResent
<1>1. TypeInv /\ ActionInv /\ OneOwner /\ TurnInv /\ [Next]_vars =>
        [\A i \in ActionIds :
           /\ status[i] \in {"APPLIED", "NOT_APPLIED"} => status'[i] = status[i]
           /\ status[i] = "UNKNOWN" => status'[i] \in {"UNKNOWN", "APPLIED", "NOT_APPLIED"}
           /\ status[i] \in Refused => status'[i] \in Refused]_vars
  <2> SUFFICES ASSUME TypeInv, ActionInv, TurnInv, [Next]_vars, NEW i \in ActionIds
               PROVE  /\ status[i] \in {"APPLIED", "NOT_APPLIED"} => status'[i] = status[i]
                      /\ status[i] = "UNKNOWN" => status'[i] \in {"UNKNOWN", "APPLIED", "NOT_APPLIED"}
                      /\ status[i] \in Refused => status'[i] \in Refused
    OBVIOUS
  <2>1. Advances(i)
    BY StatusAdvances
  <2>2. w.pc = "policy" /\ StillCurrent /\ i = last => status[i] # "CANCELLED_BEFORE_DISPATCH"
    BY DEF TurnInv, OvertakenInv, StillCurrent
  <2> QED
    BY <2>1, <2>2 DEF Advances, Refused, Uncertain
<1> QED
  BY <1>1, TurnInvariance, PTL DEF Spec, NeverResent

-----------------------------------------------------------------------------
(* The executor implements ActionContract.                                   *)

LEMMA Phases ==
  /\ \A s \in {"PREPARED", "PROPOSED", "AUTHORIZED"} : PhaseOf(s) = "unsent"
  /\ \A s \in Refused : PhaseOf(s) = "dropped"
  /\ \A s \in {"DISPATCHED", "ACKNOWLEDGED"} : PhaseOf(s) = "sent"
  /\ PhaseOf("UNKNOWN") = "unknown"
  /\ PhaseOf("APPLIED") = "applied" /\ PhaseOf("NOT_APPLIED") = "notApplied"
BY DEF PhaseOf, Refused

LEMMA PhaseInDoubt ==
  ASSUME NEW s \in ExecutionStatuses
  PROVE  PhaseOf(s) \in {"sent", "unknown"} <=> s \in Uncertain
BY DEF PhaseOf, Refused, Uncertain, ExecutionStatuses

\* Only a proposal touches an action that the job is not at, and a withdrawal.
LEMMA StatusWhere ==
  ASSUME TypeInv, [Next]_vars
  PROVE  WithdrawProposed \/ Propose \/ \A i \in ActionIds : i # last => status'[i] = status[i]
<1>1. CASE HarnessStep
  BY <1>1, HarnessOutside DEF acts
<1>2. CASE ExecuteWrite
  <2>1. ASSUME NEW s, status' = [status EXCEPT ![last] = s]
        PROVE  \A i \in ActionIds : i # last => status'[i] = status[i]
    BY <2>1, OthersStay
  <2> QED
    BY <1>2, <2>1
    DEF ExecuteWrite, DecidePolicy, AfterPolicy, CountWrite, Dispatch, Send, DeviceApply,
        Acknowledge, RecordReply, AfterRecord, ReconcileAttempt, QueryAction, ReconcileRecord, Settle,
        Reject, RecordResult, acts
<1>3. CASE ClientStep \/ Request \/ TimerFinish
  BY <1>3
  DEF ClientStep, Request, CancelInvalidated, CancelFinish, InterveneInvalidated, RejectStored,
      RejectFinish, ChangeStored, ClientFinished, CancelAccept, Intervene, InterveneRefused,
      Approve, Clarify, RejectAnswer, TimerFinish, TakeOver, acts
<1>4. CASE World \/ UNCHANGED vars
  BY <1>4 DEF World, Expire, SetPlacement, NewEnvironment, DeviceTick, acts, vars
<1> QED
  BY <1>1, <1>2, <1>3, <1>4 DEF Next, WorkerStep, HarnessStep

PhaseNow == [i \in ActionIds |-> PhaseOf(status[i])]

LEMMA ContractStep ==
  ASSUME TypeInv, ActionInv, TurnInv, [Next]_vars
  PROVE  [Contract!Next]_PhaseNow
<1> status \in [ActionIds -> ExecutionStatuses]
  BY DEF TypeInv, TypeOK, TypeOfActions
<1>1. CASE WithdrawProposed
  <2> DEFINE S == {i \in ActionIds : status[i] = "PROPOSED"}
  <2>1. \A a \in S : PhaseNow[a] = "unsent"
    BY Phases DEF PhaseNow
  <2>2. PhaseNow' = [a \in ActionIds |-> IF a \in S THEN "dropped" ELSE PhaseNow[a]]
    <3>1. \A i \in ActionIds :
            status'[i] = IF status[i] = "PROPOSED" THEN "CANCELLED_BEFORE_DISPATCH" ELSE status[i]
      BY <1>1 DEF WithdrawProposed
    <3> QED
      BY <3>1, Phases DEF PhaseNow, Refused
  <2>3. Contract!Drop(S) /\ S \in SUBSET ActionIds
    BY <2>1, <2>2 DEF Contract!Drop, PhaseNow
  <2> QED
    BY <2>3 DEF Contract!Next
<1>2. CASE Propose
  <2>1. last' = last + 1 /\ last' \in ActionIds /\ status' = [status EXCEPT ![last'] = "PROPOSED"]
    BY <1>2, Proposes DEF Propose
  <2>2. status[last'] = "PREPARED"
    BY <2>1 DEF ActionInv, Record, FreshUntouched, ActionIds, TypeInv, TypeOK, TypeOfActions
  <2>3. \A i \in ActionIds : PhaseOf(status'[i]) = PhaseOf(status[i])
    BY <2>1, <2>2, Phases
  <2>4. PhaseNow' = PhaseNow
    BY <2>3 DEF PhaseNow
  <2> QED
    BY <2>4
<1>3. CASE ~Propose /\ \A i \in ActionIds : i # last => status'[i] = status[i]
  <2>1. CASE last \notin ActionIds \/ PhaseOf(status'[last]) = PhaseOf(status[last])
    <3>1. \A i \in ActionIds : PhaseOf(status'[i]) = PhaseOf(status[i])
      BY <1>3, <2>1
    <3>2. PhaseNow' = PhaseNow
      BY <3>1 DEF PhaseNow
    <3> QED
      BY <3>2
  <2>2. CASE last \in ActionIds /\ PhaseOf(status'[last]) # PhaseOf(status[last])
    <3>1. PhaseNow' = [PhaseNow EXCEPT ![last] = PhaseOf(status'[last])]
      BY <1>3 DEF PhaseNow
    <3>2. Advances(last)
      BY <2>2, StatusAdvances
    <3>3. w.pc = "policy" /\ StillCurrent => status[last] # "CANCELLED_BEFORE_DISPATCH"
      BY DEF TurnInv, OvertakenInv, StillCurrent
    <3>4. CASE status[last] \in {"PROPOSED", "AUTHORIZED"} \cup Refused /\ status'[last] \in Refused
      <4>1. PhaseNow[last] = "unsent" /\ PhaseOf(status'[last]) = "dropped"
        BY <2>2, <3>4, Phases DEF PhaseNow
      <4>2. Contract!Drop({last})
        BY <2>2, <3>1, <4>1 DEF Contract!Drop, PhaseNow
      <4> QED
        BY <2>2, <4>2 DEF Contract!Next
    <3>5. CASE w.pc = "intent" /\ status[last] = "AUTHORIZED" /\ status'[last] = "DISPATCHED"
      <4>1. \A b \in ActionIds : status[b] \notin Uncertain
        BY <3>5 DEF ActionInv, Record, OneOutstanding, Progress, ActionIds
      <4>2. \A b \in ActionIds : PhaseNow[b] \notin Contract!InDoubt
        BY <4>1, PhaseInDoubt DEF PhaseNow, Contract!InDoubt
      <4>3. Contract!Send(last)
        BY <2>2, <3>1, <3>5, <4>2, Phases DEF Contract!Send, PhaseNow
      <4> QED
        BY <2>2, <4>3 DEF Contract!Next
    <3>6. CASE status[last] \in Uncertain /\ status'[last] \in {"APPLIED", "NOT_APPLIED", "UNKNOWN"}
      <4>1. PhaseNow[last] \in Contract!InDoubt
        BY <2>2, <3>6, PhaseInDoubt DEF PhaseNow, Contract!InDoubt
      <4>2. PhaseOf(status'[last]) \in {"unknown", "applied", "notApplied"}
        BY <3>6, Phases
      <4>3. Contract!Report(last)
        BY <2>2, <3>1, <4>1, <4>2 DEF Contract!Report, PhaseNow
      <4> QED
        BY <2>2, <4>3 DEF Contract!Next
    <3> QED
      BY <1>3, <2>2, <3>2, <3>3, <3>4, <3>5, <3>6, Phases DEF Advances, Refused
  <2> QED
    BY <2>1, <2>2
<1> QED
  BY <1>1, <1>2, <1>3, StatusWhere

\* Every behaviour of the harness is one that ActionContract allows.
THEOREM ContractHolds == Spec => ContractSpec
<1>1. Init => Contract!Init
  BY Phases DEF Init, Contract!Init
<1>2. TypeInv /\ ActionInv /\ TurnInv /\ [Next]_vars =>
        [Contract!Next]_([i \in ActionIds |-> PhaseOf(status[i])])
  BY ContractStep DEF PhaseNow
<1> QED
  BY <1>1, <1>2, TurnInvariance, PTL DEF Spec, ContractSpec, Contract!Spec
-----------------------------------------------------------------------------
(* COMPLETED is not claimed with a write in doubt.                           *)

NoneInDoubt == \A i \in ActionIds : status[i] \notin Uncertain
\* An action is DISPATCHED or ACKNOWLEDGED only while its job waits for the device.
SendingInv ==
  \A i \in ActionIds :
    status[i] \in {"DISPATCHED", "ACKNOWLEDGED"} => w.pc \in {"dispatch", "apply", "ack", "acked"}
\* The job is on its way to claim success.
Judged == w.pc \in {"results", "auditing", "audited", "verify", "evaluated", "finish"} /\ w.arg = "COMPLETED"
\* A run that is routed to CHAT has no goals to change.
ChatInv == route = "CHAT" => goals = {} /\ req["intervene"] # "invalidating"
ClaimInv ==
  /\ lifecycle = "COMPLETED" => w.pc \in {"off", "start", "finishing"}
  /\ Judged \/ lifecycle = "COMPLETED" => route = "CHAT" \/ NoneInDoubt
SuccessInv == SendingInv /\ ChatInv /\ ClaimInv

LEMMA SendingKept ==
  ASSUME TypeInv, ActionInv, SendingInv, [Next]_vars
  PROVE  SendingInv'
<1> w \in Workers
  BY DEF TypeInv, TypeOK, TypeOfWorld
<1> SUFFICES ASSUME NEW i \in ActionIds, status'[i] \in {"DISPATCHED", "ACKNOWLEDGED"}
             PROVE  w'.pc \in {"dispatch", "apply", "ack", "acked"}
  BY DEF SendingInv
<1>0. ASSUME NEW p, NEW a, GoWith(p, a) \/ LogWith(p, a)
      PROVE  w'.pc = p
  BY <1>0 DEF GoWith, LogWith, Workers
<1>1. Advances(i)
  BY StatusAdvances
<1>2. CASE status'[i] # status[i]
  <2>1. CASE Dispatch /\ status'[i] = "DISPATCHED"
    <3>1. ~Reject("CANCELLED_BEFORE_DISPATCH")
      BY <1>2, <2>1, OthersStay DEF Reject
    <3> QED
      BY <1>0, <2>1, <3>1 DEF Dispatch, Log
  <2>2. CASE w.pc = "ack" /\ i = last /\ status'[i] = "ACKNOWLEDGED"
    <3>1. CASE Acknowledge
      <4>1. CASE status' = [status EXCEPT ![last] = "UNKNOWN"]
        BY <2>2, <4>1, OthersStay
      <4> QED
        BY <1>0, <3>1, <4>1 DEF Acknowledge, Log
    <3>2. CASE ~Acknowledge
      <4>1. ~WorkerStep
        BY <2>2, <3>2
        DEF WorkerStep, WorkStart, CompileReturned, RouteTask, AfterRoute, ResumeBranch,
            ResumeAndLeave, Observed, PlanReturned, ResumeLoop, Decide, AskAboutConflict, Gated,
            WriteReturns, MultiObserved, StartRound, DraftReturned, CheckPlan, PlanDenied, RevisePlan,
            ExecutePlan, ActionObserved, VerifyPlan, AskAuditor, AuditReturned, Audited, Conclude,
            Evaluated, Finish, Finished, ExecuteWrite, Propose, DecidePolicy, AfterPolicy, CountWrite,
            Dispatch, Send, DeviceApply, RecordReply, AfterRecord, ReconcileAttempt, QueryAction,
            ReconcileRecord, Settle, At
      <4> QED
        BY <1>2, <2>2, <4>1, WithdrawAdvances
        DEF Next, ClientStep, Request, CancelInvalidated, CancelFinish, InterveneInvalidated,
            RejectStored, RejectFinish, ChangeStored, ClientFinished, CancelAccept, Intervene,
            InterveneRefused, Approve, Clarify, RejectAnswer, TimerFinish, TakeOver, WithdrawProposed,
            acts, World, Expire, SetPlacement, NewEnvironment, DeviceTick, vars
    <3> QED
      BY <3>1, <3>2
  <2> QED
    BY <1>1, <1>2, <2>1, <2>2 DEF Advances, Refused
<1>3. CASE status'[i] = status[i]
  <2>1. w.pc \in {"dispatch", "apply", "ack", "acked"} /\ i = last
    BY <1>3 DEF SendingInv, ActionInv, Record, OneOutstanding, Uncertain, Progress, InDoubt
  <2>2. CASE HarnessStep
    BY <2>1, <2>2
    DEF HarnessStep, WorkStart, CompileReturned, RouteTask, AfterRoute, ResumeBranch, ResumeAndLeave,
        Observed, PlanReturned, ResumeLoop, Decide, AskAboutConflict, Gated, WriteReturns,
        MultiObserved, StartRound, DraftReturned, CheckPlan, PlanDenied, RevisePlan, ExecutePlan,
        ActionObserved, VerifyPlan, AskAuditor, AuditReturned, Audited, Conclude, Evaluated, Finish,
        Finished, At
  <2>3. CASE ExecuteWrite
    <3>1. CASE Send \/ DeviceApply
      BY <1>0, <3>1 DEF Send, DeviceApply, Go
    <3>2. CASE Acknowledge
      <4>1. CASE status' = [status EXCEPT ![last] = "UNKNOWN"]
        BY <2>1, <4>1, OthersStay
      <4> QED
        BY <1>0, <3>2, <4>1 DEF Acknowledge, Log
    <3>3. CASE RecordReply
      <4>1. status'[last] = Reported(dev[last])
        BY <2>1, <3>3, OthersStay DEF RecordReply, RecordResult
      <4> QED
        BY <2>1, <4>1 DEF Reported
    <3> QED
      BY <2>1, <2>3, <3>1, <3>2, <3>3
      DEF ExecuteWrite, Propose, DecidePolicy, AfterPolicy, CountWrite, Dispatch, AfterRecord,
          ReconcileAttempt, QueryAction, ReconcileRecord, Settle, At
  <2>4. CASE w' = w
    BY <2>1, <2>4
  <2>5. w.pc # "off"
    BY <2>1
  <2>6. CASE ClientStep \/ Request \/ TimerFinish
    <3>1. w' = w
      BY <2>5, <2>6
      DEF ClientStep, Request, CancelInvalidated, CancelFinish, InterveneInvalidated, RejectStored,
          RejectFinish, ChangeStored, ClientFinished, CancelAccept, Intervene, InterveneRefused,
          Approve, Clarify, RejectAnswer, TimerFinish, Launch
    <3> QED
      BY <2>4, <3>1
  <2> QED
    BY <2>2, <2>3, <2>4, <2>6
    DEF Next, WorkerStep, HarnessStep, World, Expire, SetPlacement, NewEnvironment, DeviceTick, vars
<1> QED
  BY <1>2, <1>3

\* A run that goes on is found to be small talk.
Chats ==
  route = "CHAT" /\ ~Terminal /\ w.pc \in {"start", "routed", "branch"} /\ w'.pc = "finish" /\ w'.v = w.v

LEMMA Judges ==
  ASSUME TypeInv, HarnessStep, Judged'
  PROVE  \/ Judged
         \/ Chats
         \/ w.pc \in {"audit", "verify"} /\ "COMPLETED" \in VerifyOutcomes
<1> w \in Workers
  BY DEF TypeInv, TypeOK, TypeOfWorld
<1> DEFINE Claims == Judged'
<1>1. ASSUME NEW p, NEW a, GoWith(p, a) \/ LogWith(p, a)
      PROVE  w'.pc = p /\ w'.arg = a /\ w'.v = w.v
  BY <1>1 DEF GoWith, LogWith, Workers
<1>2. ASSUME Leave PROVE ~Claims
  BY <1>2 DEF Leave, NoWorker, Judged
<1>3. ASSUME NEW p, Go(p) \/ Log(p) PROVE ~Claims
  BY <1>1, <1>3 DEF Go, Log, Judged
<1>4. ASSUME Stop("STOPPED") PROVE ~Claims
  BY <1>1, <1>4 DEF Stop, Judged
<1>5. ASSUME NEW n, LoopHead(n) \/ LoopRound(n) PROVE ~Claims
  BY <1>2, <1>4, <1>5 DEF LoopHead, LoopRound, NoWorker, Judged
<1>6. ASSUME BranchUnlessHalted \/ Branch PROVE Claims => w'.pc = "finish" /\ w'.v = w.v /\ route = "CHAT"
  <2>1. ASSUME MultiHead PROVE ~Claims
    BY <1>4, <2>1 DEF MultiHead, NoWorker, Judged
  <2> QED
    BY <1>1, <1>2, <1>5, <1>6, <2>1 DEF BranchUnlessHalted, Branch, Stop
<1>7. ASSUME NEW r, RoundHead(r) PROVE ~Claims
  BY <1>3, <1>7 DEF RoundHead, Workers, Judged
<1>8. ASSUME PlanHead PROVE ~Claims
  BY <1>2, <1>3, <1>8 DEF PlanHead, Workers, Judged
<1>9. ASSUME NEW c, CheckAction(c) PROVE ~Claims
  BY <1>9 DEF CheckAction, Workers, Judged
<1>10. ASSUME NEW d, NEW c, PlanReady(d, c) PROVE ~Claims
  BY <1>3, <1>10 DEF PlanReady, Workers, Judged
<1> USE DEF Raise
<1>12. CASE WorkStart
  <2>1. CASE Terminal
    BY <1>2, <1>12, <2>1 DEF WorkStart
  <2>2. CASE ~Terminal /\ goals = {} /\ route # "CHAT"
    BY <1>12, <2>2 DEF WorkStart, Workers, Judged
  <2>3. CASE ~Terminal /\ ~(goals = {} /\ route # "CHAT")
    BY <1>6, <1>12, <2>3 DEF WorkStart, At, Chats
  <2> QED
    BY <2>1, <2>2, <2>3
<1>13. CASE CompileReturned \/ RouteTask
  BY <1>3, <1>4, <1>13 DEF CompileReturned, RouteTask
<1>14. CASE AfterRoute
  <2>1. CASE BranchUnlessHalted
    BY <1>2, <1>6, <1>14, <2>1 DEF AfterRoute, At, BranchUnlessHalted, Halted, Chats
  <2> QED
    BY <1>2, <1>3, <1>4, <1>14, <2>1 DEF AfterRoute, BindTask, WaitFor
<1>15. CASE ResumeBranch \/ ResumeAndLeave
  BY <1>2, <1>6, <1>15 DEF ResumeBranch, ResumeAndLeave, At, BranchUnlessHalted, Halted, Chats
<1>16. CASE Observed \/ PlanReturned \/ ResumeLoop
  BY <1>3, <1>4, <1>5, <1>10, <1>16 DEF Observed, PlanReturned, ResumeLoop
<1>17. CASE Decide \/ AskAboutConflict
  BY <1>2, <1>3, <1>4, <1>5, <1>9, <1>17 DEF Decide, AskAboutConflict, WaitFor
<1>18. CASE Gated
  BY <1>2, <1>3, <1>4, <1>5, <1>8, <1>18 DEF Gated
<1>19. CASE WriteReturns
  <2>1. ASSUME AfterLoopWrite PROVE ~Claims
    BY <1>2, <1>3, <1>4, <1>5, <2>1 DEF AfterLoopWrite
  <2>2. ASSUME AfterPlannedWrite PROVE ~Claims
    BY <1>2, <1>3, <1>4, <1>8, <2>2 DEF AfterPlannedWrite
  <2> QED
    BY <1>19, <2>1, <2>2 DEF WriteReturns
<1>20. CASE MultiObserved \/ StartRound \/ DraftReturned \/ CheckPlan \/ PlanDenied \/ RevisePlan
  BY <1>3, <1>4, <1>7, <1>20
  DEF MultiObserved, StartRound, NextRound, DraftReturned, CheckPlan, PlanDenied, RevisePlan
<1>21. CASE ExecutePlan \/ ActionObserved
  BY <1>4, <1>8, <1>9, <1>21 DEF ExecutePlan, ActionObserved
<1>22. CASE VerifyPlan
  BY <1>1, <1>22 DEF VerifyPlan, At, Judged
<1>23. CASE AskAuditor
  BY <1>1, <1>4, <1>23 DEF AskAuditor, At, Judged
<1>24. CASE AuditReturned
  BY <1>1, <1>3, <1>4, <1>24 DEF AuditReturned, At, Judged
<1>25. CASE Audited
  BY <1>1, <1>3, <1>25 DEF Audited, At, Judged
<1>26. CASE Conclude
  <2>1. PICK o \in IF w.arg \in Overalls THEN {w.arg} ELSE VerifyOutcomes :
          IF Terminal \/ w.v # version THEN Leave ELSE LogWith("evaluated", ToLifecycle(o))
    BY <1>26 DEF Conclude
  <2>2. o = "COMPLETED"
    BY <1>1, <1>2, <2>1 DEF ToLifecycle, Judged
  <2> QED
    BY <1>26, <2>1, <2>2 DEF Conclude, At, Judged
<1>27. CASE Evaluated
  BY <1>1, <1>27 DEF Evaluated, Stop, At, Judged
<1>28. CASE Finish \/ Finished
  BY <1>2, <1>3, <1>28 DEF Finish, Finished
<1> QED
  BY <1>12, <1>13, <1>14, <1>15, <1>16, <1>17, <1>18, <1>19, <1>20, <1>21, <1>22, <1>23, <1>24,
     <1>25, <1>26, <1>27, <1>28
  DEF HarnessStep

LEMMA HarnessClaims ==
  ASSUME TypeInv, ActionInv, TurnInv, SuccessInv, HarnessStep
  PROVE  ChatInv' /\ ClaimInv'
<1> w \in Workers /\ SendingInv /\ ChatInv /\ ClaimInv
  BY DEF TypeInv, TypeOK, TypeOfWorld, SuccessInv
<1>1. UNCHANGED <<acts, req>> /\ (NoneInDoubt' <=> NoneInDoubt)
  BY HarnessOutside, HarnessEnds DEF acts, NoneInDoubt
<1>2. CASE RouteTask
  <2>1. w.pc = "compiled" /\ w.v = version /\ goals = {} /\ goals' = {} /\ UNCHANGED lifecycle
    BY <1>2 DEF RouteTask, At, TurnInv, VersionInv, Compiling, life
  <2>2. Head(store) = "work" /\ store # <<>> /\ QueueInv
    BY <1>2 DEF RouteTask, At, Appending, TurnInv
  <2>3. ~Behind(store, "work", "intervene")
    <3>1. "work" \in Coroutines /\ "intervene" \in Coroutines
      BY DEF Coroutines, Clients
    <3> QED
      BY <2>2, <3>1, Take DEF QueueInv, TypeInv, TypeOK, TypeOfWorld
  <2>4. req["intervene"] # "invalidating"
    BY <2>1, <2>3 DEF TurnInv, OvertakenInv, Early
  <2>5. ~Judged' /\ lifecycle # "COMPLETED"
    BY <1>2, <2>1 DEF RouteTask, Log, LogWith, Workers, Judged, ClaimInv
  <2> QED
    BY <1>1, <2>1, <2>4, <2>5 DEF ChatInv, ClaimInv
<1>3. CASE ~RouteTask
  <2>1. UNCHANGED route /\ (route = "CHAT" => UNCHANGED goals)
    BY <1>3
    DEF HarnessStep, WorkStart, CompileReturned, AfterRoute, BindTask, WaitFor, ResumeBranch,
        ResumeAndLeave, Observed, PlanReturned, ResumeLoop, Decide, AskAboutConflict, Gated,
        WriteReturns, MultiObserved, StartRound, DraftReturned, CheckPlan, PlanDenied, RevisePlan,
        ExecutePlan, ActionObserved, VerifyPlan, AskAuditor, AuditReturned, Audited, Conclude,
        Evaluated, Finish, Finished, task
  <2>2. ChatInv'
    BY <1>1, <2>1 DEF ChatInv
  <2>3. w.pc \in {"audit", "verify"} /\ "COMPLETED" \in VerifyOutcomes => NoneInDoubt
    BY DEF VerifyOutcomes, Unresolved, SendingInv, NoneInDoubt, Uncertain
  <2>4. Judged' => route = "CHAT" \/ NoneInDoubt
    BY <2>3, Judges DEF ClaimInv, Chats
  <2>5. CASE Finish /\ ~Terminal
    <3>1. w'.pc = "finishing" /\ lifecycle' = w.arg /\ w.pc = "finish"
      BY <2>5 DEF Finish, FinishLocked, Log, LogWith, At, Workers
    <3>2. lifecycle' = "COMPLETED" => route = "CHAT" \/ NoneInDoubt
      BY <3>1 DEF ClaimInv, Judged
    <3>3. Judged' \/ lifecycle' = "COMPLETED" => route' = "CHAT" \/ NoneInDoubt'
      BY <1>1, <2>1, <2>4, <3>2
    <3> QED
      BY <2>2, <3>1, <3>3 DEF ClaimInv
  <2>6. CASE ~(Finish /\ ~Terminal)
    <3>1. lifecycle' = "COMPLETED" => lifecycle = "COMPLETED"
      BY <2>6, HarnessEnds DEF Ends, Finish, FinishLocked, TerminalLifecycles
    <3>2. lifecycle = "COMPLETED" => w'.pc = "off"
      <4>1. ASSUME lifecycle = "COMPLETED" PROVE WorkStart \/ Finished
        <5>1. w.pc \in {"off", "start", "finishing"}
          BY <4>1 DEF ClaimInv
        <5> QED
          BY <5>1
          DEF HarnessStep, CompileReturned, RouteTask, AfterRoute, ResumeBranch, ResumeAndLeave,
              Observed, PlanReturned, ResumeLoop, Decide, AskAboutConflict, Gated, WriteReturns,
              MultiObserved, StartRound, DraftReturned, CheckPlan, PlanDenied, RevisePlan, ExecutePlan,
              ActionObserved, VerifyPlan, AskAuditor, AuditReturned, Audited, Conclude, Evaluated,
              Finish, At
      <4> QED
        BY <4>1 DEF WorkStart, Finished, Leave, NoWorker, Terminal, TerminalLifecycles
    <3>3. Judged' \/ lifecycle' = "COMPLETED" => route' = "CHAT" \/ NoneInDoubt'
      BY <1>1, <2>1, <2>4, <3>1 DEF ClaimInv
    <3> QED
      BY <2>2, <3>1, <3>2, <3>3 DEF ClaimInv
  <2> QED
    BY <2>2, <2>5, <2>6
<1> QED
  BY <1>2, <1>3

LEMMA ExecuteWriteStops ==
  ASSUME TypeInv, ExecuteWrite
  PROVE  ~Judged'
<1> w \in Workers
  BY DEF TypeInv, TypeOK, TypeOfWorld
<1>1. ASSUME NEW p, NEW a, GoWith(p, a) \/ LogWith(p, a) PROVE w'.pc = p /\ w'.arg = a
  BY <1>1 DEF GoWith, LogWith, Workers
<1>2. CASE Propose \/ ReconcileRecord
  BY <1>2 DEF Propose, ReconcileRecord, Workers, Judged
<1>3. CASE DecidePolicy \/ AfterPolicy \/ CountWrite \/ Dispatch
  BY <1>1, <1>3
  DEF DecidePolicy, AfterPolicy, CountWrite, Dispatch, Reject, Log, Raise, Stop, Judged
<1>4. CASE Send \/ DeviceApply \/ Acknowledge \/ RecordReply \/ AfterRecord \/ ReconcileAttempt
           \/ QueryAction \/ Settle
  BY <1>1, <1>4
  DEF Send, DeviceApply, Acknowledge, RecordReply, AfterRecord, ReconcileAttempt, QueryAction,
      Settle, Go, Log, Raise, Stop, Judged
<1> QED
  BY <1>2, <1>3, <1>4 DEF ExecuteWrite

LEMMA ExecuteWriteClaims ==
  ASSUME TypeInv, SuccessInv, ExecuteWrite
  PROVE  ChatInv' /\ ClaimInv'
<1> w \in Workers /\ ChatInv /\ ClaimInv
  BY DEF TypeInv, TypeOK, TypeOfWorld, SuccessInv
<1> USE DEF Inside, Writing, BeforeSend, InDoubt
<1>1. UNCHANGED <<route, goals, req>> /\ lifecycle' \in {lifecycle, "WAITING_CONFIRMATION"}
  BY DEF ExecuteWrite, Propose, DecidePolicy, AfterPolicy, CountWrite, Dispatch, Send, DeviceApply,
         Acknowledge, RecordReply, AfterRecord, ReconcileAttempt, QueryAction, ReconcileRecord, Settle,
         task, life
<1>2. lifecycle # "COMPLETED"
  BY ExecuteWriteMoves DEF ClaimInv
<1>3. ~Judged'
  BY ExecuteWriteStops
<1> QED
  BY <1>1, <1>2, <1>3 DEF ChatInv, ClaimInv

LEMMA ClientsClaim ==
  ASSUME TypeInv, SuccessInv, ClientStep \/ Request \/ TimerFinish
  PROVE  ChatInv' /\ ClaimInv'
<1> w \in Workers /\ ChatInv /\ ClaimInv /\ req \in [Clients -> ClientPcs]
  BY DEF TypeInv, TypeOK, TypeOfWorld, SuccessInv
<1>1. NoneInDoubt => NoneInDoubt'
  BY DEF ClientStep, Request, CancelInvalidated, CancelFinish, InterveneInvalidated, RejectStored,
         RejectFinish, ChangeStored, ClientFinished, CancelAccept, Intervene, InterveneRefused,
         Approve, Clarify, RejectAnswer, TimerFinish, TakeOver, WithdrawProposed, acts, NoneInDoubt,
         Uncertain
<1>2. w' = w \/ (w.pc = "off" /\ w'.pc = "start")
  BY NoWorkerTyped
  DEF ClientStep, Request, CancelInvalidated, CancelFinish, InterveneInvalidated, RejectStored,
      RejectFinish, ChangeStored, ClientFinished, CancelAccept, Intervene, InterveneRefused,
      Approve, Clarify, RejectAnswer, TimerFinish, Launch, Workers
<1>3. Judged' => Judged
  BY <1>2 DEF Judged
<1>4. lifecycle' = "COMPLETED" => lifecycle = "COMPLETED"
  BY DEF ClientStep, Request, CancelInvalidated, CancelFinish, InterveneInvalidated, RejectStored,
         RejectFinish, ChangeStored, ClientFinished, CancelAccept, Intervene, InterveneRefused,
         Approve, Clarify, RejectAnswer, TimerFinish, TakeOver, FinishLocked, life
<1>5. ChatInv' /\ (route = "CHAT" => route' = "CHAT")
  <2>1. CASE Intervene \/ InterveneRefused
    <3>1. route # "CHAT" /\ route' # "CHAT"
      BY <2>1 DEF Intervene, InterveneRefused, TakeOver, ChatInv
    <3> QED
      BY <3>1 DEF ChatInv
  <2>2. CASE InterveneInvalidated
    BY <2>2 DEF InterveneInvalidated, ClientResumes, TakeOver, ChatInv
  <2>3. CASE ~Intervene /\ ~InterveneRefused /\ ~InterveneInvalidated
    <3>1. UNCHANGED route /\ (goals' = goals \/ goals' = {})
      BY <2>3
      DEF ClientStep, Request, CancelInvalidated, CancelFinish, RejectStored, RejectFinish,
          ChangeStored, ClientFinished, CancelAccept, Approve, Clarify, RejectAnswer, TimerFinish, task
    <3>2. req'["intervene"] = "invalidating" => req["intervene"] = "invalidating"
      BY <2>3
      DEF ClientStep, Request, CancelInvalidated, CancelFinish, RejectStored, RejectFinish,
          ChangeStored, ClientFinished, CancelAccept, Approve, Clarify, RejectAnswer, TimerFinish,
          ClientAppends, ClientAppendsNext, ClientGo, Clients
    <3> QED
      BY <3>1, <3>2 DEF ChatInv
  <2> QED
    BY <2>1, <2>2, <2>3
<1> QED
  BY <1>1, <1>2, <1>3, <1>4, <1>5 DEF ClaimInv

LEMMA SuccessKept ==
  TypeInv /\ ActionInv /\ TurnInv /\ SuccessInv /\ [Next]_vars => SuccessInv'
<1> SUFFICES ASSUME TypeInv, ActionInv, TurnInv, SuccessInv, [Next]_vars PROVE SuccessInv'
  OBVIOUS
<1>1. SendingInv'
  BY SendingKept DEF SuccessInv
<1>2. CASE World \/ UNCHANGED vars
  <2>1. UNCHANGED <<lifecycle, route, goals, req, w, status>>
    BY <1>2 DEF World, Expire, SetPlacement, NewEnvironment, DeviceTick, vars, life, task, acts
  <2> QED
    BY <1>1, <2>1 DEF SuccessInv, ChatInv, ClaimInv, Judged, NoneInDoubt
<1> QED
  BY <1>1, <1>2, HarnessClaims, ExecuteWriteClaims, ClientsClaim DEF Next, WorkerStep, HarnessStep, SuccessInv

\* A task that is not small talk is not COMPLETED with a write in doubt, under
\* goal changes, answers, placement switches and a new environment.
THEOREM NoFalseSuccessHolds == Spec => []NoFalseSuccess
<1>1. Init => SuccessInv
  BY DEF Init, SuccessInv, SendingInv, ChatInv, ClaimInv, Judged, NoWorker
<1>2. TypeInv /\ SuccessInv => NoFalseSuccess
  BY DEF SuccessInv, ClaimInv, NoneInDoubt, NoFalseSuccess
<1> QED
  BY <1>1, <1>2, SuccessKept, TurnInvariance, PTL DEF Spec
-----------------------------------------------------------------------------
(* A verdict is on the goals of the run, unless they change after it.        *)

\* The job has been told that the run is COMPLETED, and goes to finish it.
Claiming == w.pc \in {"evaluated", "finish"} /\ w.arg = "COMPLETED"
OvertakesVerdict == Claiming /\ version' # version
\* Small talk has no goals that could change, and asks nothing that could be answered.
CurrentInv ==
  /\ Claiming => w.v = version
  /\ route = "CHAT" => Terminal \/ w.pc = "routed" \/ Claiming

LEMMA HarnessCurrent ==
  ASSUME TypeInv, VersionInv, CurrentInv, HarnessStep
  PROVE  CurrentInv' /\ (lifecycle # "COMPLETED" /\ lifecycle' = "COMPLETED" => w.v = version)
<1> w \in Workers
  BY DEF TypeInv, TypeOK, TypeOfWorld
<1>1. UNCHANGED version /\ (Ends \/ Finish)
  BY HarnessVersion, HarnessEnds
<1>2. Terminal => Terminal'
  BY <1>1 DEF Ends, Finish, FinishLocked, Terminal
<1>3. ASSUME NEW p, NEW a, GoWith(p, a) \/ LogWith(p, a)
      PROVE  w'.pc = p /\ w'.arg = a /\ w'.v = w.v
  BY <1>3 DEF GoWith, LogWith, Workers
<1>4. Claiming' => w'.v = version
  <2> SUFFICES ASSUME Claiming' PROVE w'.v = version
    OBVIOUS
  <2>1. Judged'
    BY DEF Claiming, Judged
  <2>2. CASE Evaluated
    BY <1>3, <2>2 DEF Evaluated, Stop, At, CurrentInv, Claiming
  <2>3. CASE Conclude
    <3>1. CASE Leave
      BY <3>1 DEF Leave, NoWorker, Claiming
    <3>2. CASE w.v = version /\ \E o : LogWith("evaluated", ToLifecycle(o))
      BY <1>3, <3>2
    <3> QED
      BY <2>3, <3>1, <3>2 DEF Conclude
  <2>4. CASE Chats
    <3>1. w.pc = "routed"
      BY <2>4 DEF Chats, CurrentInv, Claiming
    <3> QED
      BY <2>4, <3>1 DEF Chats, VersionInv, Compiling
  <2>5. CASE ~Evaluated /\ ~Conclude /\ ~Chats
    <3>1. w.pc \in {"audit", "results", "auditing", "audited", "verify", "evaluated", "finish"}
      BY <2>1, <2>5, Judges DEF Judged
    <3>2. VerifyPlan \/ AskAuditor \/ AuditReturned \/ Audited \/ Finish
      BY <2>5, <3>1
      DEF HarnessStep, WorkStart, CompileReturned, RouteTask, AfterRoute, ResumeBranch,
          ResumeAndLeave, Observed, PlanReturned, ResumeLoop, Decide, AskAboutConflict, Gated,
          WriteReturns, MultiObserved, StartRound, DraftReturned, CheckPlan, PlanDenied, RevisePlan,
          ExecutePlan, ActionObserved, Finished, At
    <3> QED
      BY <1>3, <3>2
      DEF VerifyPlan, AskAuditor, AuditReturned, Audited, Finish, Raise, Stop, Go, Log, Leave,
          NoWorker, Claiming
  <2> QED
    BY <2>2, <2>3, <2>4, <2>5
<1>5. route' = "CHAT" => Terminal' \/ w'.pc = "routed" \/ Claiming'
  <2> SUFFICES ASSUME route' = "CHAT" PROVE Terminal' \/ w'.pc = "routed" \/ Claiming'
    OBVIOUS
  <2>1. CASE RouteTask
    BY <1>3, <2>1 DEF RouteTask, Log
  <2>2. CASE ~RouteTask
    <3>1. route = "CHAT"
      BY <2>2
      DEF HarnessStep, WorkStart, CompileReturned, AfterRoute, BindTask, WaitFor, ResumeBranch,
          ResumeAndLeave, Observed, PlanReturned, ResumeLoop, Decide, AskAboutConflict, Gated,
          WriteReturns, MultiObserved, StartRound, DraftReturned, CheckPlan, PlanDenied, RevisePlan,
          ExecutePlan, ActionObserved, VerifyPlan, AskAuditor, AuditReturned, Audited, Conclude,
          Evaluated, Finish, Finished, task
    <3>2. CASE w.pc = "routed" /\ ~Terminal
      <4>1. AfterRoute
        BY <2>2, <3>2
        DEF HarnessStep, WorkStart, CompileReturned, ResumeBranch, ResumeAndLeave, Observed,
            PlanReturned, ResumeLoop, Decide, AskAboutConflict, Gated, WriteReturns, MultiObserved,
            StartRound, DraftReturned, CheckPlan, PlanDenied, RevisePlan, ExecutePlan, ActionObserved,
            VerifyPlan, AskAuditor, AuditReturned, Audited, Conclude, Evaluated, Finish, Finished, At
      <4>2. Stop("COMPLETED")
        BY <3>1, <3>2, <4>1 DEF AfterRoute, BranchUnlessHalted, Branch, Halted, VersionInv, Compiling
      <4> QED
        BY <1>3, <4>2 DEF Stop, Claiming
    <3>3. CASE Claiming
      <4>1. Evaluated \/ Finish
        BY <2>2, <3>3
        DEF HarnessStep, WorkStart, CompileReturned, AfterRoute, ResumeBranch, ResumeAndLeave,
            Observed, PlanReturned, ResumeLoop, Decide, AskAboutConflict, Gated, WriteReturns,
            MultiObserved, StartRound, DraftReturned, CheckPlan, PlanDenied, RevisePlan, ExecutePlan,
            ActionObserved, VerifyPlan, AskAuditor, AuditReturned, Audited, Conclude, Finished, At,
            Claiming
      <4>2. CASE Evaluated
        BY <1>3, <3>3, <4>2 DEF Evaluated, Stop, Claiming
      <4>3. CASE Finish
        BY <3>3, <4>3 DEF Finish, FinishLocked, Claiming, Terminal, TerminalLifecycles
      <4> QED
        BY <4>1, <4>2, <4>3
    <3> QED
      BY <1>2, <3>1, <3>2, <3>3 DEF CurrentInv
  <2> QED
    BY <2>1, <2>2
<1>6. lifecycle # "COMPLETED" /\ lifecycle' = "COMPLETED" => w.v = version
  <2> SUFFICES ASSUME lifecycle # "COMPLETED", lifecycle' = "COMPLETED" PROVE w.v = version
    OBVIOUS
  <2>1. Finish
    BY <1>1 DEF Ends, TerminalLifecycles
  <2> QED
    BY <2>1 DEF Finish, FinishLocked, At, Claiming, CurrentInv
<1> QED
  BY <1>1, <1>4, <1>5, <1>6 DEF CurrentInv

LEMMA ExecuteWriteCurrent ==
  ASSUME TypeInv, AskedInv, VersionInv, CurrentInv, ExecuteWrite
  PROVE  CurrentInv' /\ (lifecycle # "COMPLETED" => lifecycle' # "COMPLETED")
<1>1. ~Claiming'
  BY ExecuteWriteStops DEF Claiming, Judged
<1>2. UNCHANGED route
  BY DEF ExecuteWrite, Propose, DecidePolicy, AfterPolicy, CountWrite, Dispatch, Send, DeviceApply,
         Acknowledge, RecordReply, AfterRecord, ReconcileAttempt, QueryAction, ReconcileRecord, Settle,
         task
<1>3. w.pc \notin {"routed", "evaluated", "finish"}
  BY ExecuteWriteMoves DEF Inside, Writing, BeforeSend, InDoubt
<1>4. Ends
  BY ExecuteWriteEnds
<1> QED
  BY <1>1, <1>2, <1>3, <1>4 DEF CurrentInv, Claiming, Ends, Terminal, TerminalLifecycles

\* Only a change of the goals overtakes a verdict, and reopening makes a task of
\* what was small talk.
LEMMA ClientsCurrent ==
  ASSUME TypeInv, OneOwner, AskedInv, VersionInv, CurrentInv, ClientStep \/ Request \/ TimerFinish,
         ~OvertakesVerdict
  PROVE  CurrentInv' /\ (lifecycle # "COMPLETED" => lifecycle' # "COMPLETED")
<1>1. w' = w \/ (w.pc = "off" /\ w'.pc = "start")
  BY NoWorkerTyped
  DEF ClientStep, Request, CancelInvalidated, CancelFinish, InterveneInvalidated, RejectStored,
      RejectFinish, ChangeStored, ClientFinished, CancelAccept, Intervene, InterveneRefused,
      Approve, Clarify, RejectAnswer, TimerFinish, Launch, Workers
<1>2. route' = "CHAT" => route = "CHAT" /\ ~Reopens
  BY DEF ClientStep, Request, CancelInvalidated, CancelFinish, InterveneInvalidated, RejectStored,
         RejectFinish, ChangeStored, ClientFinished, CancelAccept, Intervene, InterveneRefused,
         Approve, Clarify, RejectAnswer, TimerFinish, TakeOver, task, Reopens
<1>3. Terminal /\ ~Reopens => Terminal'
  BY ClientsEnd DEF FinalKept, Terminal
<1>4. lifecycle' = "COMPLETED" => lifecycle = "COMPLETED"
  BY DEF ClientStep, Request, CancelInvalidated, CancelFinish, InterveneInvalidated, RejectStored,
         RejectFinish, ChangeStored, ClientFinished, CancelAccept, Intervene, InterveneRefused,
         Approve, Clarify, RejectAnswer, TimerFinish, TakeOver, FinishLocked, life
<1> QED
  BY <1>1, <1>2, <1>3, <1>4 DEF CurrentInv, Claiming, OvertakesVerdict

\* What CompletedForCurrentGoal says of a step.
CurrentStep == lifecycle # "COMPLETED" /\ lifecycle' = "COMPLETED" => w.v = version
LEMMA CurrentKept ==
  ASSUME TypeInv, OneOwner, AskedInv, VersionInv, CurrentInv, [Next]_vars, [~OvertakesVerdict]_vars
  PROVE  CurrentInv' /\ [CurrentStep]_vars
<1>1. CASE UNCHANGED vars
  BY <1>1 DEF vars, life, task, CurrentInv, Claiming, Terminal
<1>2. CASE World
  <2>1. UNCHANGED <<lifecycle, route, version, w>>
    BY <1>2 DEF World, Expire, SetPlacement, NewEnvironment, DeviceTick, life, task
  <2> QED
    BY <2>1 DEF CurrentInv, Claiming, Terminal, CurrentStep
<1>3. CASE WorkerStep
  BY <1>3, HarnessCurrent, ExecuteWriteCurrent DEF WorkerStep, HarnessStep, CurrentStep
<1>4. CASE (ClientStep \/ Request \/ TimerFinish) /\ vars' # vars
  BY <1>4, ClientsCurrent DEF CurrentStep
<1> QED
  BY <1>1, <1>2, <1>3, <1>4 DEF Next

\* Whatever requests there are: as long as no goals are changed between a verdict
\* of COMPLETED and the moment the job has run_lock to finish the run, a run is
\* only COMPLETED for the goals the verdict is about. From there to _finish the job
\* does not compare the versions again. (README, section 4, has the run in which the
\* goals are changed just there.)
THEOREM CurrentUnlessOvertaken ==
  Spec /\ [][~OvertakesVerdict]_vars => CompletedForCurrentGoal
<1>1. TypeInv /\ OneOwner /\ AskedInv /\ VersionInv /\ CurrentInv /\ [Next]_vars /\ [~OvertakesVerdict]_vars
        => CurrentInv' /\ [CurrentStep]_vars
  BY CurrentKept
<1>2. Init => CurrentInv
  BY DEF Init, CurrentInv, Claiming, NoWorker
<1>3. TurnInv => VersionInv
  BY DEF TurnInv
<1> QED
  BY <1>1, <1>2, <1>3, AskedInvariance, TurnInvariance, PTL
  DEF Spec, CompletedForCurrentGoal, CurrentStep
-----------------------------------------------------------------------------
(* A run that is not waiting has a job, without goal changes and switches.   *)

Waiting == lifecycle \in WaitingLifecycles
\* The user is asked exactly while the run waits; the job has asked last and is
\* leaving. An answer finds it gone, or in front of it in the queue; so it is
\* gone when the answer launches the next one, or it goes on.
Attended ==
  /\ w.pc \notin Apart => w.v = version /\ w.e = epoch
  /\ Waiting => pending # NoPending
  /\ pending # NoPending => Halted
  /\ lifecycle = "WAITING_CLARIFICATION" => w.pc \in {"leave", "branch", "off"}
  /\ lifecycle = "WAITING_CONFIRMATION" => w.pc \in {"waiting", "off"}
  /\ w.pc = "start" \/ req["answer"] = "changed" => ~Waiting
  /\ req["answer"] = "changed" /\ w.pc \in Appending \ {"waiting", "leave", "branch"} =>
       Behind(store, "work", "answer")
  /\ w.pc = "finishing" \/ (w.pc = "gated" /\ w.arg = "STALE") => Terminal
  /\ lifecycle = "RUNNING" /\ w.pc = "off" => req["answer"] = "changed"
  /\ lifecycle = "RUNNING" /\ w.pc = "leave" =>
       req["answer"] = "changed" /\ Behind(store, "answer", "work")
  /\ req["cancel"] # "invalidating"
AttendInv == ~cancelled => Attended

\* How the job changes the lifecycle.
LEMMA HarnessLife ==
  ASSUME TypeInv, HarnessStep
  PROVE  /\ UNCHANGED <<cancelled, epoch, req>>
         /\ \/ UNCHANGED <<lifecycle, pending>>
            \/ w.pc = "start" /\ ~Terminal /\ lifecycle' = "RUNNING" /\ pending' = pending
            \/ /\ w.pc \in {"routed", "decide", "conflict"} /\ w'.pc \in {"leave", "branch"} /\ ~Terminal
               /\ lifecycle' = "WAITING_CLARIFICATION" /\ pending' # NoPending
            \/ w.pc = "finish" /\ Terminal' /\ pending' = NoPending
<1> w \in Workers
  BY DEF TypeInv, TypeOK, TypeOfWorld
<1> USE DEF life, world
<1>1. ASSUME NEW p \in {"leave", "branch"}, WaitFor(p)
      PROVE  w'.pc = p /\ lifecycle' = "WAITING_CLARIFICATION" /\ pending' # NoPending
  BY <1>1 DEF WaitFor, Log, LogWith, Workers, NoPending
<1>2. CASE WorkStart
  BY <1>2 DEF WorkStart, At
<1>3. CASE AfterRoute \/ Decide \/ AskAboutConflict
  BY <1>1, <1>3 DEF AfterRoute, Decide, AskAboutConflict, At
<1>4. CASE Finish
  BY <1>4 DEF Finish, FinishLocked, At, Terminal, TypeInv, Handed
<1>5. CASE ~WorkStart /\ ~AfterRoute /\ ~Decide /\ ~AskAboutConflict /\ ~Finish
  BY <1>5
  DEF HarnessStep, CompileReturned, RouteTask, ResumeBranch, ResumeAndLeave, Observed, PlanReturned,
      ResumeLoop, Gated, WriteReturns, MultiObserved, StartRound, DraftReturned, CheckPlan, PlanDenied,
      RevisePlan, ExecutePlan, ActionObserved, VerifyPlan, AskAuditor, AuditReturned, Audited,
      Conclude, Evaluated, Finished
<1> QED
  BY <1>2, <1>3, <1>4, <1>5

LEMMA Departs ==
  ASSUME TypeInv, HarnessStep, Halted, pending # NoPending, w.pc \in {"waiting", "leave", "branch"}
  PROVE  w'.pc = "off"
<1>1. ASSUME Leave PROVE w'.pc = "off"
  BY <1>1 DEF Leave, NoWorker
<1>2. CASE WriteReturns
  BY <1>1, <1>2 DEF WriteReturns, AfterLoopWrite, AfterPlannedWrite
<1>3. CASE ResumeBranch \/ ResumeAndLeave
  BY <1>1, <1>3 DEF ResumeBranch, BranchUnlessHalted, ResumeAndLeave
<1> QED
  BY <1>2, <1>3
  DEF HarnessStep, WorkStart, CompileReturned, RouteTask, AfterRoute, Observed, PlanReturned,
      ResumeLoop, Decide, AskAboutConflict, Gated, MultiObserved, StartRound, DraftReturned, CheckPlan,
      PlanDenied, RevisePlan, ExecutePlan, ActionObserved, VerifyPlan, AskAuditor, AuditReturned,
      Audited, Conclude, Evaluated, Finish, Finished, At

\* The job and an answer that is being stored: who queues up last is behind, and
\* who is behind does not resume.
LEMMA WorkerBehind ==
  ASSUME TypeInv, QueueInv, WorkerStep, req["answer"] = "changed"
  PROVE  /\ w'.pc \in Appending => Behind(store', "work", "answer")
         /\ ~Behind(store, "work", "answer") \/ w.pc \notin Appending
<1>1. "work" \in Coroutines /\ "answer" \in Coroutines \ {"work"}
  BY DEF Coroutines, Clients
<1>2. InQueue(store, "answer")
  BY <1>1 DEF QueueInv, Awaits, Queued
<1>3. w'.pc \in Appending => Behind(store', "work", "answer")
  BY <1>1, <1>2, WorkerQueues, QueueStep
<1>4. w.pc \in Appending => ~Behind(store, "work", "answer")
  BY <1>1, WorkerQueues, Take DEF QueueInv, TypeInv, TypeOK, TypeOfWorld
<1> QED
  BY <1>3, <1>4

LEMMA HarnessAttends ==
  ASSUME TypeInv, QueueInv, VersionInv, AttendInv, HarnessStep
  PROVE  AttendInv'
<1> SUFFICES ASSUME ~cancelled' PROVE Attended'
  BY DEF AttendInv
<1> w \in Workers
  BY DEF TypeInv, TypeOK, TypeOfWorld
<1>1. UNCHANGED <<cancelled, version, epoch, req>>
  BY HarnessLife, HarnessVersion
<1>2. Attended /\ ~cancelled
  BY <1>1 DEF AttendInv
<1>3. req["answer"] = "changed" =>
        /\ w'.pc \in Appending => Behind(store', "work", "answer")
        /\ w.pc \in Appending => w.pc \in {"waiting", "leave", "branch"}
  BY <1>2, WorkerBehind DEF WorkerStep, HarnessStep, Attended
<1>4. w.pc # "off"
  BY DEF HarnessStep, WorkStart, CompileReturned, RouteTask, AfterRoute, ResumeBranch, ResumeAndLeave,
         Observed, PlanReturned, ResumeLoop, Decide, AskAboutConflict, Gated, WriteReturns,
         MultiObserved, StartRound, DraftReturned, CheckPlan, PlanDenied, RevisePlan, ExecutePlan,
         ActionObserved, VerifyPlan, AskAuditor, AuditReturned, Audited, Conclude, Evaluated, Finish,
         Finished, At
<1> USE DEF Waiting, Halted, Terminal, WaitingLifecycles, TerminalLifecycles
<1>5. w'.pc \notin Apart => w'.v = version' /\ w'.e = epoch'
  BY <1>1, <1>2, HarnessMoves DEF Attended, Apart, Keeps, Copies
<1>6. Waiting' => pending' # NoPending
  BY <1>2, HarnessLife DEF Attended
<1>7. pending' # NoPending => Halted'
  BY <1>2, HarnessLife DEF Attended
<1>8. /\ lifecycle' = "WAITING_CLARIFICATION" => w'.pc \in {"leave", "branch", "off"}
      /\ lifecycle' = "WAITING_CONFIRMATION" => w'.pc \in {"waiting", "off"}
  <2>1. Waiting => w'.pc = "off"
    BY <1>2, <1>4, Departs DEF Attended
  <2> QED
    BY <2>1, HarnessLife
<1>9. w'.pc = "start" \/ req'["answer"] = "changed" => ~Waiting'
  BY <1>1, <1>2, <1>3, HarnessLife, HarnessMoves DEF Attended, Appending
<1>10. w'.pc = "finishing" \/ (w'.pc = "gated" /\ w'.arg = "STALE") => Terminal'
  <2>1. CASE w'.pc = "finishing"
    <3>1. Finish
      BY <2>1, HarnessOutside
    <3> QED
      BY <3>1 DEF Finish, FinishLocked, At, TypeInv, Handed
  <2>2. CASE w'.pc = "gated" /\ w'.arg = "STALE"
    <3>1. w.pc \in {"decide", "gate"} /\ \E c : CheckAction(c)
      BY <2>2, HarnessOutside
    <3>2. ~StillCurrent
      BY <2>2, <3>1 DEF CheckAction, GateDecisions, Workers
    <3>3. Terminal
      BY <1>2, <3>1, <3>2 DEF StillCurrent, Attended, Apart
    <3> QED
      BY <2>2, <3>1, <3>3, HarnessLife
  <2> QED
    BY <2>1, <2>2
<1>11. lifecycle' = "RUNNING" /\ w'.pc = "off" => req'["answer"] = "changed"
  <2> SUFFICES ASSUME lifecycle' = "RUNNING", w'.pc = "off" PROVE req["answer"] = "changed"
    BY <1>1
  <2>1. MayLeave
    BY HarnessMoves
  <2>2. w.pc = "start" \/ lifecycle = "RUNNING"
    BY HarnessLife
  <2>3. ~Halted /\ pending = NoPending
    BY <1>2, <2>2, HarnessLife DEF Attended
  <2>4. w.pc = "leave"
    BY <1>2, <2>1, <2>3 DEF MayLeave, Attended, Apart
  <2> QED
    BY <1>2, <2>2, <2>4 DEF Attended
<1>12. lifecycle' = "RUNNING" => w'.pc # "leave"
  <2> SUFFICES ASSUME lifecycle' = "RUNNING", w'.pc = "leave" PROVE FALSE
    OBVIOUS
  <2>1. Stale /\ w.pc \notin Apart
    BY HarnessMoves
  <2>2. ~Terminal
    BY HarnessLife
  <2> QED
    BY <1>2, <2>1, <2>2 DEF Stale, Attended
<1>13. req'["cancel"] # "invalidating"
  BY <1>1, <1>2 DEF Attended
<1> QED
  BY <1>1, <1>3, <1>5, <1>6, <1>7, <1>8, <1>9, <1>10, <1>11, <1>12, <1>13 DEF Attended

LEMMA ExecuteWriteAttends ==
  ASSUME TypeInv, QueueInv, VersionInv, AttendInv, ExecuteWrite
  PROVE  AttendInv'
<1> SUFFICES ASSUME ~cancelled' PROVE Attended'
  BY DEF AttendInv
<1> w \in Workers
  BY DEF TypeInv, TypeOK, TypeOfWorld
<1>1. UNCHANGED <<cancelled, version, epoch, req>>
  BY ExecuteWriteVersion, WorkerQueues
  DEF WorkerStep, ExecuteWrite, Propose, DecidePolicy, AfterPolicy, CountWrite, Dispatch, Send,
      DeviceApply, Acknowledge, RecordReply, AfterRecord, ReconcileAttempt, QueryAction,
      ReconcileRecord, Settle, life, world
<1>2. Attended
  BY <1>1 DEF AttendInv
<1>3. req["answer"] = "changed" =>
        (w'.pc \in Appending => Behind(store', "work", "answer")) /\ w.pc # "policy"
  BY <1>2, WorkerBehind DEF WorkerStep, Attended, Appending
<1>4. w.pc \in (Inside \cup {"propose"}) \ {"waiting"} /\ w'.pc \in Inside \cup {"finish"}
  <2>1. w.pc # "waiting"
    BY DEF ExecuteWrite, Propose, DecidePolicy, AfterPolicy, CountWrite, Dispatch, Send, DeviceApply,
           Acknowledge, RecordReply, AfterRecord, ReconcileAttempt, QueryAction, ReconcileRecord,
           Settle, At
  <2> QED
    BY <2>1, ExecuteWriteMoves
<1> USE DEF Inside, Writing, BeforeSend, InDoubt
<1>5. ~Waiting
  BY <1>2, <1>4 DEF Attended, Waiting, WaitingLifecycles
<1>6. w'.v = version' /\ w'.e = epoch'
  BY <1>1, <1>2, <1>4, ExecuteWriteMoves DEF Attended, Apart
<1>7. \/ UNCHANGED <<lifecycle, pending>>
      \/ /\ w.pc = "policy" /\ w'.pc = "waiting"
         /\ lifecycle' = "WAITING_CONFIRMATION" /\ pending' # NoPending
  <2>1. ASSUME NEW p, Log(p) PROVE w'.pc = p
    BY <2>1 DEF Log, LogWith, Workers
  <2> QED
    BY <2>1
    DEF ExecuteWrite, Propose, DecidePolicy, AfterPolicy, CountWrite, Dispatch, Send, DeviceApply,
        Acknowledge, RecordReply, AfterRecord, ReconcileAttempt, QueryAction, ReconcileRecord, Settle,
        At, life, NoPending
<1>8. CASE UNCHANGED <<lifecycle, pending>>
  BY <1>1, <1>2, <1>3, <1>4, <1>5, <1>6, <1>8
  DEF Attended, Waiting, WaitingLifecycles, Halted, Terminal
<1>9. CASE w.pc = "policy" /\ w'.pc = "waiting" /\ lifecycle' = "WAITING_CONFIRMATION" /\ pending' # NoPending
  BY <1>1, <1>2, <1>3, <1>6, <1>9
  DEF Attended, Waiting, WaitingLifecycles, Halted, Terminal, TerminalLifecycles
<1> QED
  BY <1>7, <1>8, <1>9

\* A step that leaves the answer alone moves neither it nor the job past the
\* other.
LEMMA TurnsKept ==
  ASSUME TypeInv, QueueInv, ClientStep \/ Request \/ TimerFinish,
         req'["answer"] = req["answer"]
  PROVE  /\ Behind(store, "work", "answer") => Behind(store', "work", "answer")
         /\ Behind(store, "answer", "work") => Behind(store', "answer", "work")
<1> "work" \in Coroutines /\ "answer" \in Coroutines
  BY DEF Coroutines, Clients
<1>1. PICK c \in Clients : ClientMove(c)
  BY ClientsQueue
<1>2. c \in Coroutines \ {"work"}
  BY DEF Coroutines, Clients
<1>3. CASE c = "answer"
  BY <1>1, <1>3 DEF ClientMove
<1>4. CASE c # "answer"
  BY <1>1, <1>2, <1>4, QueueStep DEF ClientMove
<1> QED
  BY <1>3, <1>4

LEMMA ClientsAttend ==
  ASSUME TypeInv, QueueInv, VersionInv, CancelInv, AttendInv, "intervene" \notin Requests,
         ClientStep \/ Request \/ TimerFinish
  PROVE  AttendInv'
<1> SUFFICES ASSUME ~cancelled' PROVE Attended'
  BY DEF AttendInv
<1> req \in [Clients -> ClientPcs] /\ w \in Workers /\ store \in Seq(Coroutines)
  BY DEF TypeInv, TypeOK, TypeOfWorld
<1> "work" \in Coroutines /\ "answer" \in Coroutines /\ "answer" # "work"
  BY DEF Coroutines, Clients
<1>1. ~(CancelAccept \/ Intervene \/ InterveneRefused \/ InterveneInvalidated \/ ChangeStored("intervene"))
  BY DEF CancelAccept, Intervene, InterveneRefused, InterveneInvalidated, ChangeStored, ClientResumes,
         CancelInv, NoChange
<1>2. UNCHANGED <<cancelled, epoch>>
  BY <1>1
  DEF ClientStep, Request, CancelInvalidated, CancelFinish, RejectStored, RejectFinish, ChangeStored,
      ClientFinished, Approve, Clarify, RejectAnswer, TimerFinish, life, world
<1>3. Attended
  BY <1>2 DEF AttendInv
<1> USE DEF Attended, Waiting, WaitingLifecycles, Halted, Terminal, TerminalLifecycles
<1>4. CASE Approve \/ Clarify
  <2>1. w.pc \in {"waiting", "leave", "branch", "off"} /\ (Clarify => w.pc # "waiting")
    BY <1>3, <1>4 DEF Approve, Clarify, Mutable, NoPending
  <2>2. /\ w' = w /\ lifecycle' = "RUNNING" /\ pending' = NoPending
        /\ version' = version \/ Clarify
    BY <1>4 DEF Approve, Clarify
  <2>3. /\ store' = Append(store, "answer") /\ req["answer"] = "idle"
        /\ req'["answer"] = "changed" /\ req'["cancel"] = req["cancel"]
    BY <1>4 DEF Approve, Clarify, ClientAt, ClientAppends, ClientGo, Clients
  <2>4. w.pc = "leave" => Behind(store', "answer", "work")
    BY <2>3, Put DEF QueueInv, Awaits, Queued, Appending
  <2> QED
    BY <1>2, <1>3, <2>1, <2>2, <2>3, <2>4 DEF Apart, Appending
<1>5. CASE ChangeStored("answer")
  <2>1. /\ store # <<>> /\ Head(store) = "answer" /\ req["answer"] = "changed"
        /\ req'["answer"] = "idle" /\ req'["cancel"] = req["cancel"]
        /\ UNCHANGED <<lifecycle, pending, version>> /\ Launch
    BY <1>5 DEF ChangeStored, ClientResumes, ClientGo, Clients, life, task
  <2>2. ~Behind(store, "answer", "work")
    BY <2>1, Take DEF QueueInv
  <2>3. (w.pc = "off" /\ w'.pc = "start") \/ (w.pc # "off" /\ w' = w)
    BY <2>1, NoWorkerTyped DEF Launch, Workers
  <2> QED
    BY <1>2, <1>3, <2>1, <2>2, <2>3 DEF Apart
<1>6. CASE ~Approve /\ ~Clarify /\ ~ChangeStored("answer")
  <2>1. UNCHANGED <<w, version>> /\ req'["answer"] = req["answer"] /\ req'["cancel"] # "invalidating"
    BY <1>1, <1>3, <1>6
    DEF ClientStep, Request, CancelInvalidated, CancelFinish, RejectStored, RejectFinish,
        ClientFinished, RejectAnswer, TimerFinish, ClientResumes, ClientAppends, ClientAppendsNext,
        ClientGo, Clients, task
  <2>2. UNCHANGED <<lifecycle, pending>> \/ (Terminal' /\ pending' = NoPending)
    BY <1>1, <1>3, <1>6
    DEF ClientStep, Request, CancelInvalidated, CancelFinish, RejectStored, RejectFinish,
        ClientFinished, RejectAnswer, TimerFinish, ClientResumes, FinishLocked, life
  <2> QED
    BY <1>2, <1>3, <2>1, <2>2, TurnsKept
<1> QED
  BY <1>4, <1>5, <1>6

\* Without goal changes and placement switches, a run that is RUNNING has a job
\* whenever no request is on its way: who makes it wait leaves, who lets it go
\* on launches the next job or finds the old one before it returns. (With
\* either of them it is false: README, section 4.)
THEOREM RunningHasWorkerHolds ==
  ASSUME "intervene" \notin Requests, "placement" \notin Requests
  PROVE  Spec => []RunningHasWorker
<1>1. Init => AttendInv
  BY DEF Init, AttendInv, Attended, Waiting, WaitingLifecycles, NoWorker, Apart, Clients
<1>2. ASSUME TypeInv, OneOwner, TurnInv, CancelInv, AttendInv, [Next]_vars
      PROVE  AttendInv'
  <2>1. CASE WorkerStep
    BY <1>2, <2>1, HarnessAttends, ExecuteWriteAttends DEF TurnInv, WorkerStep, HarnessStep
  <2>2. CASE ClientStep \/ Request \/ TimerFinish
    BY <1>2, <2>2, ClientsAttend DEF TurnInv
  <2>3. CASE World \/ UNCHANGED vars
    <3>1. UNCHANGED <<store, req, w, version, lifecycle, pending, cancelled, epoch>>
      BY <2>3 DEF World, Expire, SetPlacement, NewEnvironment, DeviceTick, vars, life, task, world
    <3> QED
      BY <1>2, <3>1 DEF AttendInv, Attended, Waiting, Halted, Terminal
  <2> QED
    BY <1>2, <2>1, <2>2, <2>3 DEF Next
<1>3. CancelInv /\ AttendInv => RunningHasWorker
  <2> SUFFICES ASSUME CancelInv, AttendInv, lifecycle = "RUNNING", \A c \in Clients : req[c] = "idle"
               PROVE  w.pc # "off"
    BY DEF RunningHasWorker
  <2>1. ~cancelled
    BY DEF CancelInv, CancelledInv, Clients, Terminal, TerminalLifecycles
  <2> QED
    BY <2>1 DEF AttendInv, Attended, Clients
<1> QED
  BY <1>1, <1>2, <1>3, CancelInvariance, TurnInvariance, PTL DEF Spec

-----------------------------------------------------------------------------
(* How a run loses its job, with every kind of request.                      *)

Changers == {"intervene", "answer"}
\* A change of the run is being stored, and will launch a job.
Launching == \E c \in Changers : req[c] = "changed"
Orphaned == lifecycle = "RUNNING" /\ w.pc = "off" /\ ~Launching
\* The job has been overtaken by a cancellation, a goal change or a switch.
Overtaken == cancelled \/ w.v < version \/ w.e < epoch
\* It has nothing left to do than to return.
Returning == w.pc \in {"leave", "finishing"} \/ (w.pc = "gated" /\ w.arg = "STALE")
\* A question is open only while the run waits, and none is when a job starts:
\* a change that closed the last one is stored, and has launched the job, before
\* the job that asks again can return. A job that returns from a run that goes
\* on was overtaken, or a change behind it in the queue will launch the next.
ReturnInv ==
  /\ w.pc # "off" => w.e <= epoch
  /\ pending # NoPending => Waiting
  /\ w.pc = "start" => pending = NoPending
  /\ \A c \in Changers : req[c] = "changed" /\ pending # NoPending =>
       w.pc \in Appending /\ Behind(store, "work", c)
  /\ lifecycle = "RUNNING" /\ Returning =>
       Overtaken \/ \E c \in Changers : req[c] = "changed" /\ Behind(store, c, "work")

\* The job does not resume in front of a change, and queues up behind it.
LEMMA JobBehind ==
  ASSUME TypeInv, QueueInv, WorkerStep, NEW c \in Changers, req[c] = "changed"
  PROVE  /\ w'.pc \in Appending => Behind(store', "work", c)
         /\ w.pc \in Appending => ~Behind(store, "work", c)
<1>1. "work" \in Coroutines /\ c \in Coroutines \ {"work"}
  BY DEF Coroutines, Clients, Changers
<1>2. InQueue(store, c)
  BY <1>1 DEF QueueInv, Awaits, Queued
<1>3. w'.pc \in Appending => Behind(store', "work", c)
  BY <1>1, <1>2, WorkerQueues, QueueStep
<1>4. w.pc \in Appending => ~Behind(store, "work", c)
  BY <1>1, WorkerQueues, Take DEF QueueInv, TypeInv, TypeOK, TypeOfWorld
<1> QED
  BY <1>3, <1>4

LEMMA StartStays ==
  ASSUME TypeInv, WorkStart, ~Terminal
  PROVE  w'.pc # "off"
<1> w \in Workers
  BY DEF TypeInv, TypeOK, TypeOfWorld
<1>1. ASSUME NEW to, Stop(to) PROVE w'.pc = "finish"
  BY <1>1 DEF Stop, GoWith, Workers
<1>2. ASSUME Branch PROVE w'.pc # "off"
  BY <1>1, <1>2 DEF Branch, MultiHead, LoopRound, NoWorker
<1>3. CASE goals = {} /\ route # "CHAT"
  BY <1>3 DEF WorkStart, Workers
<1> QED
  BY <1>2, <1>3 DEF WorkStart

LEMMA HarnessReturns ==
  ASSUME TypeInv, QueueInv, VersionInv, ReturnInv, HarnessStep
  PROVE  ReturnInv' /\ (Orphaned' => Orphaned \/ (w.pc \notin {"off", "start"} /\ Overtaken))
<1> w \in Workers /\ version \in Versions /\ w.v \in Nat
  BY DEF TypeInv, TypeOK, TypeOfWorld, TypeOfRun, Workers
<1> USE DEF Waiting, Halted, Terminal, WaitingLifecycles, TerminalLifecycles
<1>1. UNCHANGED <<cancelled, version, epoch, req>>
  BY HarnessLife, HarnessVersion
<1>2. w.pc # "off"
  BY DEF HarnessStep, WorkStart, CompileReturned, RouteTask, AfterRoute, ResumeBranch, ResumeAndLeave,
         Observed, PlanReturned, ResumeLoop, Decide, AskAboutConflict, Gated, WriteReturns,
         MultiObserved, StartRound, DraftReturned, CheckPlan, PlanDenied, RevisePlan, ExecutePlan,
         ActionObserved, VerifyPlan, AskAuditor, AuditReturned, Audited, Conclude, Evaluated, Finish,
         Finished, At
<1>3. w.e <= epoch /\ w.e \in Nat /\ epoch \in Nat
  BY <1>2 DEF ReturnInv, TypeInv, TypeOK, TypeOfWorld, Workers
<1>4. w'.pc # "off" => w'.e <= epoch'
  BY <1>1, <1>3, HarnessMoves DEF Keeps, Copies
<1>5. pending' # NoPending => Waiting'
  BY HarnessLife DEF ReturnInv
<1>6. w'.pc = "start" => pending' = NoPending
  BY HarnessMoves
<1>7. ASSUME NEW c \in Changers, req'[c] = "changed", pending' # NoPending
      PROVE  w'.pc \in Appending /\ Behind(store', "work", c)
  <2>1. /\ w'.pc \in Appending => Behind(store', "work", c)
        /\ w.pc \in Appending => ~Behind(store, "work", c)
    BY <1>1, <1>7, JobBehind DEF WorkerStep, HarnessStep
  <2>2. pending = NoPending
    BY <1>1, <1>7, <2>1 DEF ReturnInv
  <2>3. w'.pc \in {"leave", "branch"}
    BY <1>7, <2>2, HarnessLife
  <2> QED
    BY <2>1, <2>3 DEF Appending
<1>8. ASSUME lifecycle' = "RUNNING", Returning'
      PROVE  Overtaken'
  <2>1. CASE w'.pc = "leave"
    <3>1. Stale
      BY <1>8, <2>1, HarnessMoves
    <3>2. ~Terminal
      BY <1>8, HarnessLife
    <3>3. Keeps
      BY <2>1, HarnessMoves
    <3> QED
      BY <1>1, <1>3, <3>1, <3>2, <3>3 DEF Stale, Keeps, Overtaken, VersionInv, Versions
  <2>2. CASE w'.pc = "finishing"
    <3>1. Finish
      BY <2>2, HarnessOutside
    <3> QED
      BY <1>8, <3>1 DEF Finish, FinishLocked, At, TypeInv, Handed
  <2>3. CASE w'.pc = "gated" /\ w'.arg = "STALE"
    <3>1. w.pc \in {"decide", "gate"} /\ \E c : CheckAction(c)
      BY <2>3, HarnessOutside
    <3>2. ~StillCurrent /\ w'.v = w.v
      BY <2>3, <3>1 DEF CheckAction, GateDecisions, Workers
    <3>3. ~Terminal
      BY <1>8, HarnessLife
    <3> QED
      BY <1>1, <3>2, <3>3 DEF StillCurrent, Overtaken, VersionInv, Versions
  <2> QED
    BY <1>8, <2>1, <2>2, <2>3 DEF Returning
<1>9. ASSUME Orphaned'
      PROVE  w.pc \notin {"off", "start"} /\ Overtaken
  <2>1. lifecycle' = "RUNNING" /\ w'.pc = "off" /\ ~Launching
    BY <1>1, <1>9 DEF Orphaned, Launching
  <2>2. w.pc # "start"
    <3> SUFFICES ASSUME w.pc = "start" PROVE FALSE
      OBVIOUS
    <3>1. WorkStart
      BY DEF HarnessStep, WorkStart, CompileReturned, RouteTask, AfterRoute, ResumeBranch,
             ResumeAndLeave, Observed, PlanReturned, ResumeLoop, Decide, AskAboutConflict, Gated,
             WriteReturns, MultiObserved, StartRound, DraftReturned, CheckPlan, PlanDenied, RevisePlan,
             ExecutePlan, ActionObserved, VerifyPlan, AskAuditor, AuditReturned, Audited, Conclude,
             Evaluated, Finish, Finished, At
    <3>2. ~Terminal
      BY <2>1, <3>1 DEF WorkStart
    <3> QED
      BY <2>1, <3>1, <3>2, StartStays
  <2>3. lifecycle = "RUNNING" /\ pending = NoPending
    BY <2>1, <2>2, HarnessLife DEF ReturnInv
  <2>4. Returning \/ (w.pc = "verify" /\ w.v # version)
    BY <2>1, <2>3, HarnessMoves DEF MayLeave, Returning
  <2>5. Overtaken
    BY <2>1, <2>3, <2>4 DEF ReturnInv, Launching, Overtaken, VersionInv, Versions
  <2> QED
    BY <1>2, <2>2, <2>5
<1> QED
  BY <1>1, <1>4, <1>5, <1>6, <1>7, <1>8, <1>9 DEF ReturnInv

LEMMA ExecuteWriteReturns ==
  ASSUME TypeInv, QueueInv, VersionInv, ReturnInv, ExecuteWrite
  PROVE  ReturnInv' /\ w'.pc # "off"
<1> w \in Workers
  BY DEF TypeInv, TypeOK, TypeOfWorld
<1>1. UNCHANGED <<epoch, req>>
  BY WorkerQueues
  DEF WorkerStep, ExecuteWrite, Propose, DecidePolicy, AfterPolicy, CountWrite, Dispatch, Send,
      DeviceApply, Acknowledge, RecordReply, AfterRecord, ReconcileAttempt, QueryAction,
      ReconcileRecord, Settle, world
<1>2. w.pc # "off" /\ w'.pc \notin {"off", "start"} /\ ~Returning' /\ w'.e = w.e
  BY ExecuteWriteMoves DEF Inside, Writing, BeforeSend, InDoubt, Returning
<1>3. \/ UNCHANGED <<lifecycle, pending>>
      \/ w'.pc = "waiting" /\ lifecycle' = "WAITING_CONFIRMATION"
  <2>1. ASSUME NEW p, Log(p) PROVE w'.pc = p
    BY <2>1 DEF Log, LogWith, Workers
  <2> QED
    BY <2>1
    DEF ExecuteWrite, Propose, DecidePolicy, AfterPolicy, CountWrite, Dispatch, Send, DeviceApply,
        Acknowledge, RecordReply, AfterRecord, ReconcileAttempt, QueryAction, ReconcileRecord, Settle,
        At, life
<1>4. ASSUME NEW c \in Changers, req'[c] = "changed", pending' # NoPending
      PROVE  w'.pc \in Appending /\ Behind(store', "work", c)
  <2>1. /\ w'.pc \in Appending => Behind(store', "work", c)
        /\ w.pc \in Appending => ~Behind(store, "work", c)
    BY <1>1, <1>4, JobBehind DEF WorkerStep
  <2> QED
    BY <1>1, <1>3, <1>4, <2>1 DEF ReturnInv, Appending
<1> QED
  BY <1>1, <1>2, <1>3, <1>4 DEF ReturnInv, Waiting, WaitingLifecycles

\* A change that is accepted queues up behind the job, if that waits there.
LEMMA ChangeBehind ==
  ASSUME TypeInv, QueueInv, NEW c \in Changers, QueueMove(c), Puts(c), Awaits(c)', w.pc \in Appending
  PROVE  Behind(store', c, "work")
<1>1. c \in Coroutines /\ "work" \in Coroutines \ {c}
  BY DEF Changers, Coroutines, Clients
<1>2. InQueue(store, "work")
  BY <1>1 DEF QueueInv, Awaits
<1> QED
  BY <1>1, <1>2, QueueStep

LEMMA ClientsReturn ==
  ASSUME TypeInv, QueueInv, VersionInv, ReturnInv, ClientStep \/ Request \/ TimerFinish
  PROVE  ReturnInv' /\ (Orphaned' => Orphaned)
<1> /\ req \in [Clients -> ClientPcs] /\ w \in Workers /\ store \in Seq(Coroutines)
    /\ version \in Versions /\ w.v \in Nat
  BY DEF TypeInv, TypeOK, TypeOfWorld, TypeOfRun, Workers
<1> "work" \in Coroutines /\ Changers \subseteq Coroutines /\ "work" \notin Changers
  BY DEF Coroutines, Clients, Changers
<1>1. UNCHANGED epoch /\ (cancelled => cancelled')
  BY DEF ClientStep, Request, CancelInvalidated, CancelFinish, InterveneInvalidated, RejectStored,
         RejectFinish, ChangeStored, ClientFinished, CancelAccept, Intervene, InterveneRefused,
         Approve, Clarify, RejectAnswer, TimerFinish, life, world
<1>2. PICK c \in Clients : ClientMove(c)
  BY ClientsQueue
<1>3. \A d \in Changers \ {c} :
        /\ req'[d] = req[d]
        /\ Behind(store, "work", d) => Behind(store', "work", d)
  BY <1>2, QueueStep DEF ClientMove, Coroutines, Changers, Clients
<1>4. \A d \in Changers : Behind(store, d, "work") => Behind(store', d, "work")
  BY <1>2, QueueStep DEF ClientMove, Coroutines, Clients
<1>5. CASE Approve \/ Clarify \/ InterveneInvalidated \/ (Intervene /\ pending = NoPending)
  <2>1. /\ w' = w /\ lifecycle' = "RUNNING" /\ pending' = NoPending
        /\ version' \in {version, version + 1}
    BY <1>5 DEF Approve, Clarify, InterveneInvalidated, Intervene, TakeOver, task
  <2>2. PICK d \in Changers : /\ req'[d] = "changed" /\ req[d] # "changed"
                              /\ \/ store' = Append(store, d) /\ req[d] \notin Queued
                                 \/ store' = Append(Tail(store), d) /\ store # <<>> /\ Head(store) = d
    BY <1>5
    DEF Approve, Clarify, InterveneInvalidated, Intervene, ClientAt, ClientResumes, ClientAppends,
        ClientAppendsNext, ClientGo, Changers, Clients, Queued
  <2>3. w.pc \in Appending => Behind(store', d, "work")
    <3>1. c = d
      BY <1>3, <2>2
    <3>2. Puts(d) /\ Awaits(d)'
      BY <2>2 DEF Puts, Awaits, Queued, Changers
    <3> QED
      BY <1>2, <3>1, <3>2, ChangeBehind DEF ClientMove
  <2>4. Returning => w.pc \in Appending
    BY DEF Returning, Appending
  <2> QED
    BY <1>1, <2>1, <2>2, <2>3, <2>4 DEF ReturnInv, Returning, Orphaned, Launching
<1>6. ASSUME NEW d \in Changers, ChangeStored(d)
      PROVE  ReturnInv' /\ ~Orphaned'
  <2>1. /\ store # <<>> /\ Head(store) = d /\ req[d] = "changed" /\ req'[d] = "idle"
        /\ UNCHANGED <<lifecycle, pending, version>> /\ Launch
    BY <1>6 DEF ChangeStored, ClientResumes, ClientGo, life, task, Changers, Clients
  <2>2. ~Behind(store, d, "work")
    BY <2>1, Take DEF QueueInv
  <2>3. /\ (w.pc = "off" /\ w'.pc = "start" /\ w'.e = 0) \/ (w.pc # "off" /\ w' = w)
        /\ w'.pc # "off"
    BY <2>1, NoWorkerTyped DEF Launch, NoWorker
  <2>4. c = d
    BY <1>3, <2>1
  <2>5. w.pc = "off" => pending = NoPending
    BY <2>1 DEF ReturnInv, Appending
  <2>6. ASSUME Returning', lifecycle' = "RUNNING"
        PROVE  Overtaken' \/ \E e \in Changers : req'[e] = "changed" /\ Behind(store', e, "work")
    <3>1. w' = w /\ Returning /\ lifecycle = "RUNNING"
      BY <2>1, <2>3, <2>6 DEF Returning
    <3>2. CASE Overtaken
      BY <1>1, <2>1, <3>1, <3>2 DEF Overtaken
    <3>3. CASE ~Overtaken
      BY <1>3, <1>4, <2>2, <2>4, <3>1, <3>3 DEF ReturnInv
    <3> QED
      BY <3>2, <3>3
  <2>7. \A e \in Changers : req'[e] = "changed" /\ pending' # NoPending =>
          w'.pc \in Appending /\ Behind(store', "work", e)
    BY <1>3, <2>1, <2>3, <2>4, <2>5 DEF ReturnInv
  <2>8. /\ w'.pc # "off" => w'.e <= epoch'
        /\ pending' # NoPending => Waiting'
        /\ w'.pc = "start" => pending' = NoPending
    BY <1>1, <2>1, <2>3, <2>5 DEF ReturnInv, Waiting, TypeInv, TypeOK, TypeOfWorld
  <2> QED
    BY <2>3, <2>6, <2>7, <2>8 DEF ReturnInv, Orphaned
<1>7. CASE /\ ~(Approve \/ Clarify \/ InterveneInvalidated \/ (Intervene /\ pending = NoPending))
           /\ \A d \in Changers : ~ChangeStored(d)
  <2>0. \/ CancelInvalidated \/ CancelFinish \/ RejectStored \/ RejectFinish \/ CancelAccept
        \/ RejectAnswer \/ TimerFinish \/ InterveneRefused
        \/ Intervene /\ pending # NoPending
        \/ \E d \in {"cancel", "timer", "reject"} : ClientFinished(d)
    BY <1>7 DEF ClientStep, Request, Changers
  <2>1. /\ w' = w /\ version' \in {version, version + 1}
        /\ \A d \in Changers : req'[d] = "changed" <=> req[d] = "changed"
    <3>1. CASE Intervene /\ pending # NoPending
      BY <3>1 DEF Intervene, ClientAppends, ClientGo, ClientAt, Changers, Clients
    <3>2. CASE ~Intervene
      <4>1. UNCHANGED <<w, version>>
        BY <2>0, <3>2
        DEF CancelInvalidated, CancelFinish, RejectStored, RejectFinish, ClientFinished, CancelAccept,
            InterveneRefused, RejectAnswer, TimerFinish, task
      <4>2. \A d \in Changers : req'[d] = req[d]
        BY <2>0, <3>2
        DEF CancelInvalidated, CancelFinish, RejectStored, RejectFinish, ClientFinished, CancelAccept,
            InterveneRefused, RejectAnswer, TimerFinish, ClientAppends, ClientAppendsNext, ClientGo,
            Changers, Clients
      <4> QED
        BY <4>1, <4>2
    <3> QED
      BY <1>7, <3>1, <3>2
  <2>2. \/ UNCHANGED <<lifecycle, pending>>
        \/ lifecycle' = lifecycle /\ pending' = NoPending
        \/ lifecycle' \in TerminalLifecycles /\ pending' = NoPending
    BY <2>0
    DEF CancelInvalidated, CancelFinish, RejectStored, RejectFinish, ClientFinished, CancelAccept,
        Intervene, InterveneRefused, RejectAnswer, TimerFinish, FinishLocked, life, Terminal,
        TerminalLifecycles
  <2>3. \A d \in Changers : req'[d] = "changed" =>
          req[d] = "changed" /\ (Behind(store, "work", d) => Behind(store', "work", d))
    <3>1. CASE c \in Changers /\ req'[c] = req[c]
      BY <1>2, <1>3, <2>1, <3>1 DEF ClientMove
    <3>2. CASE c \in Changers /\ req'[c] # "changed"
      BY <1>3, <2>1, <3>2
    <3>3. CASE c \notin Changers
      BY <1>3, <2>1, <3>3
    <3>4. c \in Changers /\ req'[c] = "changed" => req'[c] = req[c]
      BY <2>1
    <3> QED
      BY <3>1, <3>2, <3>3, <3>4
  <2>4. lifecycle' = "RUNNING" => lifecycle = "RUNNING"
    BY <2>2 DEF TerminalLifecycles
  <2>5. Overtaken => Overtaken'
    BY <1>1, <2>1 DEF Overtaken, Versions
  <2>6. Orphaned' => Orphaned
    BY <2>1, <2>4 DEF Orphaned, Launching
  <2>7. lifecycle' = "RUNNING" /\ Returning' =>
          Overtaken' \/ \E d \in Changers : req'[d] = "changed" /\ Behind(store', d, "work")
    BY <1>4, <2>1, <2>4, <2>5 DEF ReturnInv, Returning
  <2>8. \A d \in Changers : req'[d] = "changed" /\ pending' # NoPending =>
          w'.pc \in Appending /\ Behind(store', "work", d)
    BY <2>1, <2>2, <2>3 DEF ReturnInv
  <2>9. /\ w'.pc # "off" => w'.e <= epoch'
        /\ pending' # NoPending => Waiting'
        /\ w'.pc = "start" => pending' = NoPending
    BY <1>1, <2>1, <2>2 DEF ReturnInv, Waiting
  <2> QED
    BY <2>6, <2>7, <2>8, <2>9 DEF ReturnInv
<1> QED
  BY <1>5, <1>6, <1>7

LEMMA ReturnKept ==
  ASSUME TypeInv, QueueInv, VersionInv, ReturnInv, [Next]_vars
  PROVE  /\ ReturnInv'
         /\ Orphaned' => Orphaned \/ (WorkerStep /\ w.pc \notin {"off", "start"} /\ Overtaken)
<1>1. CASE World \/ UNCHANGED vars
  <2>1. /\ UNCHANGED <<lifecycle, pending, cancelled, version, w, store, req>>
        /\ epoch' = epoch \/ epoch' = epoch + 1
    BY <1>1 DEF World, Expire, SetPlacement, NewEnvironment, DeviceTick, vars, life, task, world
  <2>2. w.e \in Nat /\ epoch \in Nat
    BY DEF TypeInv, TypeOK, TypeOfWorld, Workers
  <2> QED
    BY <2>1, <2>2 DEF ReturnInv, Returning, Overtaken, Orphaned, Launching, Waiting
<1>2. CASE ExecuteWrite
  BY <1>2, ExecuteWriteReturns DEF Orphaned
<1> QED
  BY <1>1, <1>2, HarnessReturns, ClientsReturn DEF Next, WorkerStep, HarnessStep

LEMMA ReturnInvariance == Spec => [](TypeInv /\ QueueInv /\ VersionInv /\ ReturnInv)
<1>1. Init => ReturnInv
  BY DEF Init, ReturnInv, Waiting, Returning, NoWorker, Clients, Changers
<1>2. TypeInv /\ QueueInv /\ VersionInv /\ ReturnInv /\ [Next]_vars => ReturnInv'
  BY ReturnKept
<1>3. TurnInv => QueueInv /\ VersionInv
  BY DEF TurnInv
<1> QED
  BY <1>1, <1>2, <1>3, TurnInvariance, PTL DEF Spec

\* Whatever requests there are, only a job that was overtaken leaves a run behind
\* that is RUNNING, has no job and is not about to get one: since it took its
\* copies of the version and of the epoch, a cancellation was accepted, the goals
\* were changed or the placement was switched.
LeavesOvertaken == WorkerStep /\ w.pc \notin {"off", "start"} /\ Overtaken /\ Orphaned'
THEOREM OnlyOvertakenJobsLeave ==
  Spec => [][Orphaned' => Orphaned \/ LeavesOvertaken]_vars
<1>1. TypeInv /\ QueueInv /\ VersionInv /\ ReturnInv /\ [Next]_vars
        => [Orphaned' => Orphaned \/ LeavesOvertaken]_vars
  BY ReturnKept DEF LeavesOvertaken
<1> QED
  BY <1>1, ReturnInvariance, PTL DEF Spec

\* With every kind of request: as long as no such job leaves, a RUNNING run with
\* no request under way has a job.
THEOREM WorkerUnlessOvertaken ==
  Spec /\ [][~LeavesOvertaken]_vars => []RunningHasWorker
<1>1. Init => ~Orphaned
  BY DEF Init, Orphaned
<1>2. ~Orphaned /\ [Orphaned' => Orphaned \/ LeavesOvertaken]_vars /\ [~LeavesOvertaken]_vars => ~Orphaned'
  BY DEF vars, life, Orphaned, Launching
<1>3. ~Orphaned => RunningHasWorker
  BY DEF Orphaned, Launching, RunningHasWorker, Clients, Changers
<1> QED
  BY <1>1, <1>2, <1>3, OnlyOvertakenJobsLeave, PTL DEF Spec
=============================================================================
