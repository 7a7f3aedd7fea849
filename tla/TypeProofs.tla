----------------------------- MODULE TypeProofs -----------------------------
(* Type correctness of the harness, for every value of the constants.         *)
EXTENDS HarnessSafety, TLAPS

\* What the worker hands to itself is usable where it resumes.
Handed ==
  /\ w.pc \in {"compile", "compiled", "routed"} => w.v \in Versions
  /\ w.pc \in {"finish", "evaluated"} => w.arg \in TerminalLifecycles
TypeInv == TypeOK /\ Handed

\* The worker alone: its record, its queue and what it handed over.
WorkerOK == w \in Workers /\ store \in Seq(Coroutines) /\ Handed
\* Where the worker may go without anything handed over.
PlainPcs == WorkerPcs \ {"compile", "compiled", "routed", "finish", "evaluated"}

USE ConstantsAssumption

LEMMA RestTyped ==
  ASSUME store \in Seq(Coroutines), NEW q, At(q) PROVE Rest \in Seq(Coroutines)
BY DEF At, Rest

LEMMA GoTyped ==
  ASSUME WorkerOK, NEW q, At(q), NEW p \in PlainPcs, NEW a \in Args, GoWith(p, a)
  PROVE  WorkerOK'
<1>1. store' \in Seq(Coroutines)
  BY RestTyped DEF GoWith, WorkerOK
<1>2. w' \in Workers /\ w'.pc = p
  BY DEF GoWith, WorkerOK, Workers, PlainPcs
<1> QED
  BY <1>1, <1>2 DEF WorkerOK, Handed, PlainPcs

LEMMA LogTyped ==
  ASSUME WorkerOK, NEW q, At(q), NEW p \in PlainPcs, NEW a \in Args, LogWith(p, a)
  PROVE  WorkerOK'
<1>1. store' \in Seq(Coroutines)
  BY RestTyped DEF LogWith, WorkerOK, Coroutines
<1>2. w' \in Workers /\ w'.pc = p
  BY DEF LogWith, WorkerOK, Workers, PlainPcs
<1> QED
  BY <1>1, <1>2 DEF WorkerOK, Handed, PlainPcs

LEMMA StopTyped ==
  ASSUME WorkerOK, NEW q, At(q), NEW to \in TerminalLifecycles, Stop(to)
  PROVE  WorkerOK'
<1>1. store' \in Seq(Coroutines)
  BY RestTyped DEF Stop, GoWith, WorkerOK
<1>2. to \in Args /\ "finish" \in WorkerPcs
  BY DEF Args, Lifecycles, WorkerPcs, Free
<1>3. w' \in Workers /\ w'.pc = "finish" /\ w'.arg = to
  BY <1>2 DEF Stop, GoWith, WorkerOK, Workers
<1> QED
  BY <1>1, <1>3 DEF WorkerOK, Handed

LEMMA NoWorkerTyped == NoWorker \in Workers /\ NoWorker.pc = "off"
BY DEF NoWorker, Workers, WorkerPcs, Free, Args, CapOrNone

LEMMA LeaveTyped ==
  ASSUME WorkerOK, NEW q, At(q), Leave
  PROVE  WorkerOK'
<1>1. store' \in Seq(Coroutines)
  BY RestTyped DEF Leave, WorkerOK
<1> QED
  BY <1>1, NoWorkerTyped DEF WorkerOK, Handed, Leave

LEMMA LoopRoundTyped ==
  ASSUME TypeInv, NEW q, At(q), NEW n \in 0..MaxSteps, LoopRound(n)
  PROVE  WorkerOK'
<1> WorkerOK
  BY DEF TypeInv, TypeOK, TypeOfWorld, WorkerOK
<1>1. CASE n = MaxSteps \/ Offline
  BY <1>1, StopTyped DEF LoopRound, TerminalLifecycles
<1>2. CASE ~(n = MaxSteps \/ Offline)
  <2>1. store' \in Seq(Coroutines)
    BY <1>2, RestTyped DEF LoopRound, WorkerOK
  <2>2. w'.pc = "observe"
    BY <1>2 DEF LoopRound, NoWorker
  <2>3. /\ version \in 0..MaxVersion /\ epoch \in 0..MaxEpoch /\ criteria \in BOOLEAN
        /\ goals \in SUBSET Caps /\ n + 1 \in 0..MaxSteps
    BY <1>2 DEF TypeInv, TypeOK, TypeOfRun, TypeOfWorld, Versions
  <2>4. NoWorker \in Workers
    BY NoWorkerTyped
  <2>5. w' = [NoWorker EXCEPT !.pc = "observe", !.v = version, !.e = epoch,
                !.plan = IF route = "FAST" THEN goals ELSE Caps, !.bound = criteria, !.step = n + 1]
    BY <1>2 DEF LoopRound
  <2>6. "observe" \in WorkerPcs
    BY DEF WorkerPcs, Free
  <2>7. w' \in Workers
    BY <2>3, <2>4, <2>5, <2>6 DEF Workers
  <2> QED
    BY <2>1, <2>2, <2>7 DEF WorkerOK, Handed
<1> QED
  BY <1>1, <1>2

LEMMA LoopHeadTyped ==
  ASSUME TypeInv, NEW q, At(q), NEW n \in 0..MaxSteps, LoopHead(n)
  PROVE  WorkerOK'
BY LeaveTyped, LoopRoundTyped DEF LoopHead, TypeInv, TypeOK, TypeOfWorld, WorkerOK

LEMMA MultiHeadTyped ==
  ASSUME TypeInv, NEW q, At(q), MultiHead
  PROVE  WorkerOK'
<1> WorkerOK
  BY DEF TypeInv, TypeOK, TypeOfWorld, WorkerOK
<1>1. CASE Offline
  BY <1>1, StopTyped DEF MultiHead, TerminalLifecycles
<1>2. CASE ~Offline
  <2>1. store' \in Seq(Coroutines)
    BY <1>2, RestTyped DEF MultiHead, WorkerOK
  <2>2. /\ version \in 0..MaxVersion /\ epoch \in 0..MaxEpoch /\ criteria \in BOOLEAN
        /\ goals \in SUBSET Caps
    BY DEF TypeInv, TypeOK, TypeOfRun, TypeOfWorld, Versions
  <2>3. w' = [NoWorker EXCEPT !.pc = "multi", !.v = version, !.e = epoch, !.flow = "multi",
                !.plan = IF goals = {} THEN Caps ELSE goals, !.bound = criteria]
    BY <1>2 DEF MultiHead
  <2>4. "multi" \in WorkerPcs
    BY DEF WorkerPcs, Free
  <2>5. w'.pc = "multi"
    BY <2>3 DEF NoWorker
  <2>6. w' \in Workers
    BY <2>2, <2>3, <2>4, NoWorkerTyped DEF Workers
  <2> QED
    BY <2>1, <2>5, <2>6 DEF WorkerOK, Handed
<1> QED
  BY <1>1, <1>2

LEMMA BranchTyped ==
  ASSUME TypeInv, NEW q, At(q), Branch
  PROVE  WorkerOK'
<1> WorkerOK
  BY DEF TypeInv, TypeOK, TypeOfWorld, WorkerOK
<1>1. CASE route = "CHAT"
  BY <1>1, StopTyped DEF Branch, TerminalLifecycles
<1>2. CASE route = "MULTI_AGENT"
  BY <1>2, MultiHeadTyped DEF Branch
<1>3. CASE route \notin {"CHAT", "MULTI_AGENT"}
  BY <1>3, LoopRoundTyped DEF Branch
<1> QED
  BY <1>1, <1>2, <1>3

LEMMA BranchUnlessHaltedTyped ==
  ASSUME TypeInv, NEW q, At(q), BranchUnlessHalted
  PROVE  WorkerOK'
BY LeaveTyped, BranchTyped DEF BranchUnlessHalted, TypeInv, TypeOK, TypeOfWorld, WorkerOK

\* The worker keeps its record but for the fields it passes on.
LEMMA MoveTyped ==
  ASSUME WorkerOK, NEW q, At(q), NEW p \in PlainPcs, w' \in Workers, w'.pc = p,
         store' \in {Rest, Append(Rest, "work")}
  PROVE  WorkerOK'
<1>1. store' \in Seq(Coroutines)
  BY RestTyped DEF WorkerOK, Coroutines
<1> QED
  BY <1>1 DEF WorkerOK, Handed, PlainPcs

LEMMA RoundHeadTyped ==
  ASSUME TypeInv, NEW q, At(q), NEW r \in Nat, RoundHead(r)
  PROVE  WorkerOK'
<1> WorkerOK
  BY DEF TypeInv, TypeOK, TypeOfWorld, WorkerOK
<1>1. {"verify", "leave", "draft"} \subseteq PlainPcs /\ "NONE" \in Args
  BY DEF PlainPcs, WorkerPcs, Free, Appending, Args
<1>2. CASE r > MaxReplans
  BY <1>1, <1>2, GoTyped DEF RoundHead, Go
<1>3. CASE ~(r > MaxReplans) /\ Stale
  BY <1>1, <1>3, LogTyped DEF RoundHead, Log
<1>4. CASE ~(r > MaxReplans) /\ ~Stale
  <2>1. w' = [w EXCEPT !.pc = "draft", !.arg = "NONE", !.round = r, !.step = 0] /\ store' = Rest
    BY <1>4 DEF RoundHead
  <2>2. r \in 0..MaxReplans /\ 0 \in 0..MaxSteps
    BY <1>4 DEF ConstantsAssumption
  <2>3. w' \in Workers /\ w'.pc = "draft"
    BY <1>1, <2>1, <2>2 DEF WorkerOK, Workers, PlainPcs
  <2> QED
    BY <1>1, <2>1, <2>3, MoveTyped
<1> QED
  BY <1>2, <1>3, <1>4

LEMMA PlanHeadTyped ==
  ASSUME TypeInv, NEW q, At(q), PlanHead
  PROVE  WorkerOK'
<1> WorkerOK
  BY DEF TypeInv, TypeOK, TypeOfWorld, WorkerOK
<1>1. {"audit", "leave", "gate"} \subseteq PlainPcs /\ "NONE" \in Args
  BY DEF PlainPcs, WorkerPcs, Free, Appending, Args
<1>2. CASE Log("leave")
  BY <1>1, <1>2, LogTyped DEF Log
<1>3. CASE Go("audit")
  BY <1>1, <1>3, GoTyped DEF Go
<1>4. CASE Leave
  BY <1>4, LeaveTyped
<1>5. CASE /\ w.step < MaxSteps
           /\ w' = [w EXCEPT !.pc = "gate", !.arg = "NONE", !.step = @ + 1]
           /\ store' = Rest
  <2>1. w.step + 1 \in 0..MaxSteps
    BY <1>5 DEF WorkerOK, Workers
  <2>2. w' \in Workers /\ w'.pc = "gate"
    BY <1>1, <1>5, <2>1 DEF WorkerOK, Workers, PlainPcs
  <2> QED
    BY <1>1, <1>5, <2>2, MoveTyped
<1> QED
  BY <1>2, <1>3, <1>4, <1>5 DEF PlanHead

LEMMA CheckActionTyped ==
  ASSUME TypeInv, NEW q, At(q), NEW c \in CapOrNone, CheckAction(c)
  PROVE  WorkerOK'
<1> WorkerOK
  BY DEF TypeInv, TypeOK, TypeOfWorld, WorkerOK
<1>1. PICK d \in GateDecisions(c) :
        /\ w' = [w EXCEPT !.pc = "gated", !.cap = c, !.arg = d]
        /\ store' = Append(Rest, "work")
  BY DEF CheckAction
<1>2. d \in Args /\ "gated" \in PlainPcs
  BY DEF GateDecisions, Args, PlainPcs, WorkerPcs, Appending
<1>3. w' \in Workers /\ w'.pc = "gated"
  BY <1>1, <1>2 DEF WorkerOK, Workers, PlainPcs
<1> QED
  BY <1>1, <1>2, <1>3, MoveTyped

LEMMA PlanReadyTyped ==
  ASSUME TypeInv, NEW q, At(q), NEW d \in Args, NEW c \in CapOrNone, PlanReady(d, c)
  PROVE  WorkerOK'
<1> WorkerOK
  BY DEF TypeInv, TypeOK, TypeOfWorld, WorkerOK
<1>1. {"reloop", "decide"} \subseteq PlainPcs /\ "NONE" \in Args
  BY DEF PlainPcs, WorkerPcs, Appending, Args
<1>2. CASE Stale
  BY <1>1, <1>2, LogTyped DEF PlanReady, Log
<1>3. CASE ~Stale
  <2>1. /\ w' = [w EXCEPT !.pc = "decide", !.arg = d, !.cap = c]
        /\ store' = Append(Rest, "work")
    BY <1>3 DEF PlanReady
  <2>2. w' \in Workers /\ w'.pc = "decide"
    BY <1>1, <2>1 DEF WorkerOK, Workers, PlainPcs
  <2> QED
    BY <1>1, <2>1, <2>2, MoveTyped
<1> QED
  BY <1>2, <1>3

LEMMA Names ==
  /\ {"branch", "leave", "conflict", "think", "verify", "reloop", "decide", "gated", "propose",
      "round", "drafted", "planned", "denied", "revise", "results", "auditing", "audited",
      "replan", "finishing", "proposed", "policy", "rejected", "waiting", "authorized",
      "intent", "dispatch", "apply", "ack", "acked", "recorded", "reconcile", "query",
      "queried", "reconciled", "settle", "settled", "start"} \subseteq PlainPcs
  /\ {"NONE", "ACT", "FINISH", "CLARIFY", "READ", "INVALID", "DENY", "REQUIRE_CONFIRMATION",
      "ALLOW", "reply", "lost", "record", "none"} \subseteq Args
  /\ Overalls \subseteq Args
  /\ {"COMPLETED", "STOPPED"} \subseteq TerminalLifecycles
BY DEF PlainPcs, WorkerPcs, Free, Appending, Args, TerminalLifecycles

\* A task that is being compiled keeps the version it was compiled for.
LEMMA CompilingTyped ==
  ASSUME WorkerOK, NEW q \in {"compile", "compiled"}, At(q),
         NEW p \in {"compiled", "routed"}, Log(p)
  PROVE  WorkerOK'
<1>1. store' \in Seq(Coroutines)
  BY RestTyped DEF Log, LogWith, WorkerOK, Coroutines
<1>2. w.v \in Versions
  BY DEF WorkerOK, Handed, At
<1>3. p \in WorkerPcs /\ "NONE" \in Args
  BY DEF WorkerPcs, Appending, Args
<1>4. w' \in Workers /\ w'.pc = p /\ w'.v = w.v
  BY <1>3 DEF Log, LogWith, WorkerOK, Workers
<1> QED
  BY <1>1, <1>2, <1>4 DEF WorkerOK, Handed

LEMMA WorkerOnly ==
  ASSUME TypeInv, WorkerOK', UNCHANGED <<life, task, acts, counters, world, lock, req, history>>
  PROVE  TypeInv'
BY DEF TypeInv, WorkerOK, TypeOK, TypeOfRun, TypeOfActions, TypeOfWorld, life, task, acts,
       counters, world, history

LEMMA WorkerAndRun ==
  ASSUME TypeInv, WorkerOK', TypeOfRun', UNCHANGED <<acts, world, req, history>>,
         lock' \in Coroutines \cup {NoOne}
  PROVE  TypeInv'
BY DEF TypeInv, WorkerOK, TypeOK, TypeOfActions, TypeOfWorld, acts, world, history

LEMMA WaitTyped ==
  ASSUME TypeInv, NEW p, WaitFor(p), UNCHANGED <<cancelled, task, counters>>
  PROVE  TypeOfRun'
BY DEF WaitFor, TypeInv, TypeOK, TypeOfRun, Lifecycles, WaitingLifecycles, CapOrNone, Versions,
       task, counters

LEMMA FinishLockedTyped ==
  ASSUME TypeInv, NEW to \in TerminalLifecycles, FinishLocked(to),
         UNCHANGED <<cancelled, task, counters>>
  PROVE  TypeOfRun'
BY DEF FinishLocked, TypeInv, TypeOK, TypeOfRun, Lifecycles, NoPending, CapOrNone, task, counters

LEMMA EvaluatedTyped ==
  ASSUME WorkerOK, NEW q, At(q), NEW to \in TerminalLifecycles, to \in Args,
         LogWith("evaluated", to)
  PROVE  WorkerOK'
<1>1. store' \in Seq(Coroutines)
  BY RestTyped DEF LogWith, WorkerOK, Coroutines
<1>2. w' \in Workers /\ w'.pc = "evaluated" /\ w'.arg = to
  BY DEF LogWith, WorkerOK, Workers, WorkerPcs, Appending
<1> QED
  BY <1>1, <1>2 DEF WorkerOK, Handed

\* The job outside execute_write.
HarnessStep ==
  \/ WorkStart \/ CompileReturned \/ RouteTask \/ AfterRoute \/ ResumeBranch \/ ResumeAndLeave
  \/ Observed \/ PlanReturned \/ ResumeLoop \/ Decide \/ AskAboutConflict
  \/ Gated \/ WriteReturns
  \/ MultiObserved \/ StartRound \/ DraftReturned \/ CheckPlan \/ PlanDenied \/ RevisePlan
  \/ ExecutePlan \/ ActionObserved \/ VerifyPlan \/ AskAuditor \/ AuditReturned \/ Audited
  \/ Conclude \/ Evaluated \/ Finish \/ Finished

LEMMA HarnessStepTyped ==
  ASSUME TypeInv, HarnessStep
  PROVE  TypeInv'
<1> WorkerOK
  BY DEF TypeInv, TypeOK, TypeOfWorld, WorkerOK
<1> USE Names
<1>1. CASE WorkStart
  <2>1. CASE Terminal
    BY <1>1, <2>1, LeaveTyped, WorkerOnly DEF WorkStart, life
  <2>2. CASE ~Terminal /\ goals = {} /\ route # "CHAT"
    <3>1. w' = [w EXCEPT !.pc = "compile", !.v = version, !.e = epoch] /\ store' = Rest
      BY <1>1, <2>2 DEF WorkStart
    <3>2. version \in Versions /\ version \in 0..MaxVersion /\ epoch \in 0..MaxEpoch
      BY DEF TypeInv, TypeOK, TypeOfRun, TypeOfWorld, Versions
    <3>3. w' \in Workers /\ w'.pc = "compile" /\ w'.v = version
      BY <3>1, <3>2 DEF WorkerOK, Workers, WorkerPcs, Free
    <3>4. store' \in Seq(Coroutines)
      BY <1>1, <3>1, RestTyped DEF WorkStart, WorkerOK
    <3>5. WorkerOK'
      BY <3>2, <3>3, <3>4, <1>1 DEF WorkerOK, Handed, WorkStart, Versions
    <3> QED
      BY <1>1, <2>2, <3>5, WorkerAndRun
      DEF WorkStart, TypeInv, TypeOK, TypeOfRun, TypeOfWorld, Lifecycles, task, counters
  <2>3. CASE ~Terminal /\ ~(goals = {} /\ route # "CHAT")
    <3>1. WorkerOK'
      BY <1>1, <2>3, BranchTyped DEF WorkStart
    <3> QED
      BY <1>1, <2>3, <3>1, WorkerAndRun
      DEF WorkStart, TypeInv, TypeOK, TypeOfRun, TypeOfWorld, Lifecycles, task, counters
  <2> QED
    BY <2>1, <2>2, <2>3
<1>2. CASE CompileReturned
  BY <1>2, StopTyped, LogTyped, CompilingTyped, WorkerOnly DEF CompileReturned, Raise, Log
<1>3. CASE RouteTask
  <2>1. WorkerOK'
    BY <1>3, CompilingTyped DEF RouteTask
  <2> QED
    BY <1>3, <2>1, WorkerAndRun
    DEF RouteTask, TypeInv, TypeOK, TypeOfRun, TypeOfWorld, life, counters
<1>4. CASE AfterRoute
  <2>1. CASE route = "CHAT" /\ BranchUnlessHalted /\ UNCHANGED <<life, task>>
    BY <1>4, <2>1, BranchUnlessHaltedTyped, WorkerOnly DEF AfterRoute
  <2>2. CASE Stop("STOPPED") /\ UNCHANGED <<life, task>>
    BY <1>4, <2>2, StopTyped, WorkerOnly DEF AfterRoute
  <2>3. CASE Leave /\ UNCHANGED <<life, task>>
    BY <1>4, <2>3, LeaveTyped, WorkerOnly DEF AfterRoute
  <2>4. CASE WaitFor("branch") /\ UNCHANGED <<cancelled, task>>
    <3>1. WorkerOK'
      BY <1>4, <2>4, LogTyped DEF AfterRoute, WaitFor, Log
    <3>2. TypeOfRun'
      BY <1>4, <2>4, WaitTyped DEF AfterRoute
    <3> QED
      BY <1>4, <3>1, <3>2, WorkerAndRun DEF AfterRoute, TypeInv, TypeOK, TypeOfWorld
  <2>5. CASE BindTask /\ UNCHANGED <<life, route>>
    <3>1. WorkerOK'
      BY <1>4, <2>5, LogTyped DEF AfterRoute, BindTask, Log
    <3>2. w.v \in Versions
      BY <1>4 DEF AfterRoute, At, TypeInv, Handed
    <3>3. TypeOfRun'
      BY <1>4, <2>5, <3>2
      DEF AfterRoute, BindTask, TypeInv, TypeOK, TypeOfRun, NoApproval, CapOrNone, life, counters
    <3> QED
      BY <1>4, <3>1, <3>3, WorkerAndRun DEF AfterRoute, TypeInv, TypeOK, TypeOfWorld
  <2> QED
    BY <1>4, <2>1, <2>2, <2>3, <2>4, <2>5 DEF AfterRoute, Raise
<1>5. CASE ResumeBranch
  BY <1>5, BranchUnlessHaltedTyped, WorkerOnly DEF ResumeBranch
<1>6. CASE ResumeAndLeave
  BY <1>6, LeaveTyped, WorkerOnly DEF ResumeAndLeave
<1>7. CASE Observed
  <2>1. \A c \in w.plan : c \in CapOrNone
    BY DEF WorkerOK, Workers, CapOrNone
  <2>2. WorkerOK'
    BY <1>7, <2>1, StopTyped, LogTyped, GoTyped, PlanReadyTyped DEF Observed, Raise, Log, Go
  <2> QED
    BY <1>7, <2>2, WorkerOnly DEF Observed
<1>8. CASE PlanReturned
  <2>1. Caps \subseteq CapOrNone /\ "NONE" \in CapOrNone
    BY DEF CapOrNone
  <2>2. WorkerOK'
    BY <1>8, <2>1, StopTyped, PlanReadyTyped DEF PlanReturned, Raise
  <2> QED
    BY <1>8, <2>2, WorkerOnly DEF PlanReturned
<1> DEFINE StepOK == w.step \in 0..MaxSteps
<1>s. StepOK
  BY DEF WorkerOK, Workers
<1>9. CASE ResumeLoop
  BY <1>9, <1>s, LoopHeadTyped, WorkerOnly DEF ResumeLoop
<1>10. CASE Decide
  <2>1. CASE WaitFor("leave") /\ UNCHANGED cancelled
    <3>1. WorkerOK'
      BY <1>10, <2>1, LogTyped DEF Decide, WaitFor, Log
    <3>2. TypeOfRun'
      BY <1>10, <2>1, WaitTyped DEF Decide
    <3> QED
      BY <1>10, <3>1, <3>2, WorkerAndRun DEF Decide, TypeInv, TypeOK, TypeOfWorld
  <2>2. CASE UNCHANGED life /\ (Leave \/ Go("verify") \/ Raise \/ LoopHead(w.step))
    BY <1>10, <1>s, <2>2, LeaveTyped, GoTyped, StopTyped, LoopHeadTyped, WorkerOnly
    DEF Decide, Go, Raise
  <2>3. CASE w.arg = "ACT" /\ ~Stale /\ CheckAction(w.cap) /\ UNCHANGED life
    BY <1>10, <2>3, CheckActionTyped, WorkerOnly DEF Decide, WorkerOK, Workers
  <2> QED
    BY <1>10, <2>1, <2>2, <2>3 DEF Decide
<1>11. CASE AskAboutConflict
  <2>1. CASE Terminal
    BY <1>11, <2>1, LeaveTyped, WorkerOnly DEF AskAboutConflict
  <2>2. CASE ~Terminal
    <3>1. WorkerOK'
      BY <1>11, <2>2, LogTyped DEF AskAboutConflict, WaitFor, Log
    <3>2. TypeOfRun'
      BY <1>11, <2>2, WaitTyped DEF AskAboutConflict
    <3> QED
      BY <1>11, <3>1, <3>2, WorkerAndRun DEF AskAboutConflict, TypeInv, TypeOK, TypeOfWorld
  <2> QED
    BY <2>1, <2>2
<1>12. CASE Gated
  <2>1. CASE Leave \/ LoopHead(w.step) \/ Stop("STOPPED")
    BY <1>12, <1>s, <2>1, LeaveTyped, LoopHeadTyped, StopTyped, WorkerOnly DEF Gated
  <2>2. CASE PlanHead \/ Go("verify") \/ Go("propose")
    BY <1>12, <2>2, PlanHeadTyped, GoTyped, WorkerOnly DEF Gated, Go
  <2> QED
    BY <1>12, <2>1, <2>2 DEF Gated
<1>13. CASE WriteReturns
  <2>1. WorkerOK'
    BY <1>13, <1>s, LeaveTyped, LoopHeadTyped, StopTyped, PlanHeadTyped, GoTyped, LogTyped
    DEF WriteReturns, AfterLoopWrite, AfterPlannedWrite, Go, Log, Raise
  <2> QED
    BY <1>13, <2>1, WorkerAndRun
    DEF WriteReturns, TypeInv, TypeOK, TypeOfRun, life, task, counters
<1>14. CASE MultiObserved
  BY <1>14, StopTyped, LogTyped, WorkerOnly DEF MultiObserved, Raise, Log
<1> DEFINE RoundOK == w.round \in 0..MaxReplans
<1>r. RoundOK
  BY DEF WorkerOK, Workers
<1>15. CASE StartRound
  <2>1. PICK r \in Nat : RoundHead(r)
    BY <1>15, <1>r DEF StartRound, NextRound
  <2> QED
    BY <1>15, <2>1, RoundHeadTyped, WorkerOnly DEF StartRound
<1>16. CASE DraftReturned
  BY <1>16, StopTyped, LogTyped, WorkerOnly DEF DraftReturned, Raise, Log
<1>17. CASE CheckPlan
  BY <1>17, LogTyped, WorkerOnly DEF CheckPlan, Log
<1>18. CASE PlanDenied
  BY <1>18, StopTyped, WorkerOnly DEF PlanDenied
<1>19. CASE RevisePlan
  <2>1. WorkerOK'
    <3>1. CASE CanReplan
      <4>1. PICK r \in Nat : RoundHead(r)
        BY <1>19, <1>r, <3>1 DEF RevisePlan, NextRound
      <4> QED
        BY <1>19, <4>1, RoundHeadTyped DEF RevisePlan
    <3>2. CASE ~CanReplan
      BY <1>19, <3>2, StopTyped DEF RevisePlan
    <3> QED
      BY <3>1, <3>2
  <2>2. replans' \in 0..MaxReplans
    BY <1>19 DEF RevisePlan, CanReplan, TypeInv, TypeOK, TypeOfRun
  <2> QED
    BY <1>19, <2>1, <2>2, WorkerAndRun
    DEF RevisePlan, TypeInv, TypeOK, TypeOfRun, TypeOfWorld, life, task
<1>20. CASE ExecutePlan
  BY <1>20, PlanHeadTyped, WorkerOnly DEF ExecutePlan
<1>21. CASE ActionObserved
  <2>1. w.plan \subseteq CapOrNone
    BY DEF WorkerOK, Workers, CapOrNone
  <2>2. WorkerOK'
    BY <1>21, <2>1, StopTyped, CheckActionTyped DEF ActionObserved, Raise
  <2> QED
    BY <1>21, <2>2, WorkerOnly DEF ActionObserved
<1>22. CASE VerifyPlan
  <2>1. VerifyOutcomes \subseteq Args
    BY DEF VerifyOutcomes, Overalls
  <2> QED
    BY <1>22, <2>1, LogTyped, WorkerOnly DEF VerifyPlan
<1>a. w.arg \in Args
  BY DEF WorkerOK, Workers
<1>23. CASE AskAuditor
  BY <1>23, <1>a, StopTyped, GoTyped, WorkerOnly DEF AskAuditor, Raise
<1>24. CASE AuditReturned
  BY <1>24, <1>a, StopTyped, LogTyped, WorkerOnly DEF AuditReturned, Raise, Log
<1>25. CASE Audited
  <2>1. WorkerOK'
    BY <1>25, <1>a, LogTyped, GoTyped DEF Audited, Log
  <2>2. replans' \in 0..MaxReplans
    BY <1>25 DEF Audited, MayReplan, CanReplan, TypeInv, TypeOK, TypeOfRun
  <2> QED
    BY <1>25, <2>1, <2>2, WorkerAndRun
    DEF Audited, TypeInv, TypeOK, TypeOfRun, TypeOfWorld, life, task
<1>26. CASE Conclude
  <2>1. CASE Leave
    BY <1>26, <2>1, LeaveTyped, WorkerOnly DEF Conclude
  <2>2. CASE ~Leave
    <3>1. PICK o \in Overalls : LogWith("evaluated", ToLifecycle(o))
      BY <1>26, <2>2 DEF Conclude, VerifyOutcomes, Overalls
    <3>2. ToLifecycle(o) \in TerminalLifecycles /\ ToLifecycle(o) \in Args
      BY DEF ToLifecycle, Overalls, TerminalLifecycles, Args, Lifecycles
    <3>3. WorkerOK'
      BY <1>26, <3>1, <3>2, EvaluatedTyped DEF Conclude
    <3> QED
      BY <1>26, <3>3, WorkerOnly DEF Conclude
  <2> QED
    BY <2>1, <2>2
<1>27. CASE Evaluated
  <2>1. w.arg \in TerminalLifecycles
    BY <1>27 DEF Evaluated, At, WorkerOK, Handed
  <2> QED
    BY <1>27, <2>1, StopTyped, WorkerOnly DEF Evaluated
<1>28. CASE Finish
  <2>1. WorkerOK'
    BY <1>28, LeaveTyped, LogTyped DEF Finish, Log
  <2>2. w.arg \in TerminalLifecycles
    BY <1>28 DEF Finish, At, WorkerOK, Handed
  <2>3. TypeOfRun'
    BY <1>28, <2>2, FinishLockedTyped DEF Finish
  <2> QED
    BY <1>28, <2>1, <2>3, WorkerAndRun DEF Finish, TypeInv, TypeOK, TypeOfWorld, Coroutines
<1>29. CASE Finished
  <2>1. WorkerOK'
    BY <1>29, LeaveTyped DEF Finished
  <2> QED
    BY <1>29, <2>1, WorkerAndRun
    DEF Finished, TypeInv, TypeOK, TypeOfRun, life, task, counters
<1> QED
  BY <1>1, <1>2, <1>3, <1>4, <1>5, <1>6, <1>7, <1>8, <1>9, <1>10, <1>11, <1>12, <1>13, <1>14,
     <1>15, <1>16, <1>17, <1>18, <1>19, <1>20, <1>21, <1>22, <1>23, <1>24, <1>25, <1>26, <1>27,
     <1>28, <1>29 DEF HarnessStep

LEMMA WorkerAndActions ==
  ASSUME TypeInv, WorkerOK', TypeOfRun', TypeOfActions',
         UNCHANGED <<expired, epoch, sameEnv, req, history>>, lock' \in Coroutines \cup {NoOne}
  PROVE  TypeInv'
BY DEF TypeInv, WorkerOK, TypeOK, TypeOfWorld, history

\* Giving one action another status keeps the types.
LEMMA StatusTyped ==
  ASSUME TypeInv, NEW i, NEW s \in ExecutionStatuses, status' = [status EXCEPT ![i] = s],
         UNCHANGED <<acap, aver, last, dev>>, inFlight' \in 0..MaxActions, unknown' \in BOOLEAN
  PROVE  TypeOfActions'
BY DEF TypeInv, TypeOK, TypeOfActions

LEMMA RunUnchanged ==
  ASSUME TypeInv, UNCHANGED <<life, task, counters>> PROVE TypeOfRun'
BY DEF TypeInv, TypeOK, TypeOfRun, life, task, counters

LEMMA ActionsUnchanged ==
  ASSUME TypeInv, UNCHANGED <<acts, dev>> PROVE TypeOfActions'
BY DEF TypeInv, TypeOK, TypeOfActions, acts

LEMMA RejectTyped ==
  ASSUME TypeInv, NEW s \in {"REJECTED", "CANCELLED_BEFORE_DISPATCH"}, Reject(s),
         UNCHANGED <<acap, aver, last, dev, inFlight, unknown>>
  PROVE  TypeOfActions'
BY StatusTyped DEF Reject, ExecutionStatuses, TypeInv, TypeOK, TypeOfActions

LEMMA RecordResultTyped ==
  ASSUME TypeInv, RecordResult, UNCHANGED <<acap, aver, last, dev, inFlight>>
  PROVE  TypeOfActions'
<1>1. Reported(dev[last]) \in ExecutionStatuses
  BY DEF Reported, ExecutionStatuses
<1> QED
  BY <1>1, StatusTyped DEF RecordResult, TypeInv, TypeOK, TypeOfActions

LEMMA ExecuteWriteTyped ==
  ASSUME TypeInv, ExecuteWrite
  PROVE  TypeInv'
<1> WorkerOK
  BY DEF TypeInv, TypeOK, TypeOfWorld, WorkerOK
<1> USE Names
<1>0. "work" \in Coroutines /\ lock \in Coroutines \cup {NoOne}
  BY DEF Coroutines, TypeInv, TypeOK, TypeOfWorld
<1>1. CASE Propose
  <2>1. WorkerOK'
    <3>1. w' \in Workers /\ w'.pc = "proposed"
      BY <1>1 DEF Propose, WorkerOK, Workers, PlainPcs
    <3> QED
      BY <1>1, <3>1, MoveTyped DEF Propose
  <2>2. last + 1 \in ActionIds /\ w.cap \in CapOrNone /\ w.v \in 0..MaxVersion
    BY <1>1 DEF Propose, TypeInv, TypeOK, TypeOfActions, ActionIds, WorkerOK, Workers
  <2>3. TypeOfActions'
    BY <1>1, <2>2 DEF Propose, TypeInv, TypeOK, TypeOfActions, ExecutionStatuses, ActionIds, world
  <2> QED
    BY <1>0, <1>1, <2>1, <2>3, RunUnchanged, WorkerAndActions DEF Propose, world
<1>2. CASE DecidePolicy
  <2>1. WorkerOK'
    <3>1. PolicyDecisions \subseteq Args
      BY DEF PolicyDecisions
    <3> QED
      BY <1>2, <3>1, LogTyped DEF DecidePolicy, Reject, Log
  <2>2. approval' \in {approval, NoApproval}
    BY <1>2 DEF DecidePolicy, UseApproval
  <2>3. TypeOfRun'
    BY <1>2, <2>2 DEF DecidePolicy, TypeInv, TypeOK, TypeOfRun, NoApproval, CapOrNone, life, counters
  <2>4. TypeOfActions'
    <3>1. CASE UNCHANGED status
      BY <1>2, <3>1 DEF DecidePolicy, TypeInv, TypeOK, TypeOfActions, world
    <3>2. CASE Reject("CANCELLED_BEFORE_DISPATCH") \/ Reject("REJECTED")
      BY <1>2, <3>2, RejectTyped DEF DecidePolicy, world
    <3> QED
      BY <1>2, <3>1, <3>2 DEF DecidePolicy
  <2> QED
    BY <1>0, <1>2, <2>1, <2>3, <2>4, WorkerAndActions DEF DecidePolicy, world
<1>3. CASE AfterPolicy
  <2>1. WorkerOK'
    BY <1>3, LogTyped DEF AfterPolicy, Reject, Log
  <2>2. TypeOfRun'
    <3>1. CASE UNCHANGED life
      BY <1>3, <3>1, RunUnchanged DEF AfterPolicy
    <3>2. CASE /\ pending' = [type |-> "CONFIRMATION", ver |-> w.v, cap |-> w.cap]
               /\ lifecycle' = "WAITING_CONFIRMATION" /\ UNCHANGED cancelled
      BY <1>3, <3>2 DEF AfterPolicy, TypeInv, TypeOK, TypeOfRun, WorkerOK, Workers, Lifecycles,
         WaitingLifecycles, task, counters
    <3> QED
      BY <1>3, <3>1, <3>2 DEF AfterPolicy
  <2>3. TypeOfActions'
    <3>1. CASE UNCHANGED status
      BY <1>3, <3>1 DEF AfterPolicy, TypeInv, TypeOK, TypeOfActions, world
    <3>2. CASE Reject("CANCELLED_BEFORE_DISPATCH") \/ Reject("REJECTED")
      BY <1>3, <3>2, RejectTyped DEF AfterPolicy, world
    <3>3. CASE status' = [status EXCEPT ![last] = "AUTHORIZED"]
      BY <1>3, <3>3, StatusTyped
      DEF AfterPolicy, ExecutionStatuses, TypeInv, TypeOK, TypeOfActions, world
    <3> QED
      BY <1>3, <3>1, <3>2, <3>3 DEF AfterPolicy
  <2> QED
    BY <1>0, <1>3, <2>1, <2>2, <2>3, WorkerAndActions DEF AfterPolicy, world
<1>4. CASE CountWrite
  <2>1. WorkerOK'
    BY <1>4, LogTyped, StopTyped DEF CountWrite, Log, Raise
  <2>2. TypeOfRun'
    BY <1>4 DEF CountWrite, TypeInv, TypeOK, TypeOfRun, life, task
  <2> QED
    BY <1>0, <1>4, <2>1, <2>2, WorkerAndRun DEF CountWrite
<1>5. CASE Dispatch
  <2>1. WorkerOK'
    BY <1>5, LogTyped DEF Dispatch, Reject, Log
  <2>2. TypeOfActions'
    <3>1. CASE Reject("CANCELLED_BEFORE_DISPATCH") /\ UNCHANGED inFlight
      BY <1>5, <3>1, RejectTyped DEF Dispatch, world
    <3>2. CASE status' = [status EXCEPT ![last] = "DISPATCHED"] /\ inFlight' = last
      BY <1>5, <3>2, StatusTyped
      DEF Dispatch, ExecutionStatuses, TypeInv, TypeOK, TypeOfActions, world
    <3> QED
      BY <1>5, <3>1, <3>2 DEF Dispatch
  <2> QED
    BY <1>0, <1>5, <2>1, <2>2, RunUnchanged, WorkerAndActions DEF Dispatch, world
<1>6. CASE Send
  <2>1. WorkerOK'
    BY <1>6, GoTyped DEF Send, Go
  <2> QED
    BY <1>6, <2>1, RunUnchanged, WorkerAndRun DEF Send
<1>7. CASE DeviceApply
  <2>1. PICK o \in WriteOutcomes(sameEnv /\ ~expired) :
          dev' = [dev EXCEPT ![last] = o.end] /\ GoWith("ack", o.answer)
    BY <1>7 DEF DeviceApply
  <2>2. o.end \in DeviceStates /\ o.answer \in Args
    BY DEF WriteOutcomes, DeviceStates
  <2>3. WorkerOK'
    BY <1>7, <2>1, <2>2, GoTyped DEF DeviceApply
  <2>4. TypeOfActions'
    BY <1>7, <2>1, <2>2 DEF DeviceApply, TypeInv, TypeOK, TypeOfActions, acts
  <2> QED
    BY <1>0, <1>7, <2>3, <2>4, RunUnchanged, WorkerAndActions DEF DeviceApply
<1>8. CASE Acknowledge
  <2>1. WorkerOK'
    BY <1>8, LogTyped DEF Acknowledge, Log
  <2>2. TypeOfActions'
    <3>1. PICK s \in {"ACKNOWLEDGED", "UNKNOWN"} : status' = [status EXCEPT ![last] = s]
      BY <1>8 DEF Acknowledge
    <3>2. s \in ExecutionStatuses
      BY DEF ExecutionStatuses
    <3>3. unknown' \in BOOLEAN /\ inFlight' \in 0..MaxActions
      BY <1>8 DEF Acknowledge, TypeInv, TypeOK, TypeOfActions
    <3> QED
      BY <1>8, <3>1, <3>2, <3>3, StatusTyped DEF Acknowledge, world
  <2> QED
    BY <1>0, <1>8, <2>1, <2>2, RunUnchanged, WorkerAndActions DEF Acknowledge, world
<1>9. CASE RecordReply
  <2>1. WorkerOK'
    BY <1>9, LogTyped DEF RecordReply, Log
  <2> QED
    BY <1>0, <1>9, <2>1, RecordResultTyped, RunUnchanged, WorkerAndActions DEF RecordReply, world
<1>10. CASE AfterRecord
  <2>1. WorkerOK'
    BY <1>10, GoTyped DEF AfterRecord, Go
  <2> QED
    BY <1>10, <2>1, RunUnchanged, WorkerAndRun DEF AfterRecord
<1>11. CASE ReconcileAttempt
  <2>1. WorkerOK'
    BY <1>11, LogTyped, StopTyped DEF ReconcileAttempt, Log, Raise
  <2> QED
    BY <1>0, <1>11, <2>1, RunUnchanged, WorkerAndRun DEF ReconcileAttempt
<1>12. CASE QueryAction
  <2>1. WorkerOK'
    BY <1>12, GoTyped DEF QueryAction
  <2> QED
    BY <1>12, <2>1, RunUnchanged, WorkerAndRun DEF QueryAction
<1>13. CASE ReconcileRecord
  <2>1. WorkerOK'
    <3>0. /\ w' = [w EXCEPT !.pc = "reconciled", !.arg = "NONE", !.tries = @ + 1]
          /\ w \in Workers
      BY <1>13 DEF ReconcileRecord, WorkerOK
    <3>2. w.tries + 1 \in Nat /\ "reconciled" \in WorkerPcs /\ "NONE" \in Args
      BY <3>0 DEF Workers, PlainPcs
    <3>1. w' \in Workers /\ w'.pc = "reconciled"
      BY <3>0, <3>2 DEF Workers
    <3> QED
      BY <1>13, <3>1, MoveTyped DEF ReconcileRecord
  <2>2. TypeOfActions'
    <3>1. CASE RecordResult
      BY <1>13, <3>1, RecordResultTyped DEF ReconcileRecord, world
    <3>2. CASE UNCHANGED <<status, unknown>>
      BY <1>13, <3>2 DEF ReconcileRecord, TypeInv, TypeOK, TypeOfActions, world
    <3> QED
      BY <1>13, <3>1, <3>2 DEF ReconcileRecord
  <2> QED
    BY <1>0, <1>13, <2>1, <2>2, RunUnchanged, WorkerAndActions DEF ReconcileRecord, world
<1>14. CASE Settle
  <2>1. WorkerOK'
    BY <1>14, LogTyped DEF Settle, Log
  <2>2. TypeOfActions'
    BY <1>14 DEF Settle, TypeInv, TypeOK, TypeOfActions, world
  <2> QED
    BY <1>0, <1>14, <2>1, <2>2, RunUnchanged, WorkerAndActions DEF Settle, world
<1> QED
  BY <1>1, <1>2, <1>3, <1>4, <1>5, <1>6, <1>7, <1>8, <1>9, <1>10, <1>11, <1>12, <1>13, <1>14
  DEF ExecuteWrite

-----------------------------------------------------------------------------
(* The clients and the world.                                                *)

\* A step of a client other than a launch leaves the worker alone.
LEMMA WorkerKept ==
  ASSUME TypeInv, UNCHANGED w, store' \in Seq(Coroutines)
  PROVE  WorkerOK'
BY DEF TypeInv, TypeOK, TypeOfWorld, WorkerOK, Handed

LEMMA AppendsTyped ==
  ASSUME TypeInv, NEW c \in Clients, NEW p \in ClientPcs, ClientAppends(c, p)
  PROVE  store' \in Seq(Coroutines) /\ req' \in [Clients -> ClientPcs]
BY DEF TypeInv, TypeOK, TypeOfWorld, ClientAppends, ClientGo, Coroutines

LEMMA AppendsNextTyped ==
  ASSUME TypeInv, NEW c \in Clients, NEW p \in ClientPcs, NEW q, ClientResumes(c, q),
         ClientAppendsNext(c, p)
  PROVE  store' \in Seq(Coroutines) /\ req' \in [Clients -> ClientPcs]
BY DEF TypeInv, TypeOK, TypeOfWorld, ClientAppendsNext, ClientResumes, ClientGo, Coroutines

LEMMA ResumesTyped ==
  ASSUME TypeInv, NEW c \in Clients, NEW p \in ClientPcs, NEW q, ClientResumes(c, q),
         store' = Tail(store), ClientGo(c, p)
  PROVE  store' \in Seq(Coroutines) /\ req' \in [Clients -> ClientPcs]
BY DEF TypeInv, TypeOK, TypeOfWorld, ClientResumes, ClientGo

LEMMA WithdrawTyped ==
  ASSUME TypeInv, WithdrawProposed, UNCHANGED <<acap, aver, last, inFlight, unknown, dev>>
  PROVE  TypeOfActions'
BY DEF TypeInv, TypeOK, TypeOfActions, WithdrawProposed, ExecutionStatuses

LEMMA ActionsKept ==
  ASSUME TypeInv, UNCHANGED <<acts, dev>>
  PROVE  TypeOfActions'
BY DEF TypeInv, TypeOK, TypeOfActions, acts

\* What a client may change besides the run and its actions.
LEMMA ClientTyped ==
  ASSUME TypeInv, TypeOfRun', TypeOfActions', WorkerOK', req' \in [Clients -> ClientPcs],
         UNCHANGED world, lock' \in Coroutines \cup {NoOne},
         granted' \in [Versions -> Nat], forbade' \in SUBSET Caps
  PROVE  TypeInv'
BY DEF TypeInv, TypeOK, TypeOfWorld, WorkerOK, world

LEMMA EditTyped ==
  ASSUME TypeInv, NEW e \in Edits
  PROVE  /\ Edited(e) \in SUBSET Caps /\ forbidden \cup e.ban \in SUBSET Caps
         /\ (keep /\ ~e.drop) \in BOOLEAN /\ (forbade \cup e.ban) \ e.add \in SUBSET Caps
<1>1. e.ban \in SUBSET Caps /\ e.add \in SUBSET Caps
  BY DEF Edits, Optional
<1> QED
  BY <1>1 DEF Edited, TypeInv, TypeOK, TypeOfRun, TypeOfWorld

LEMMA ClientNames ==
  /\ {"cancel", "timer", "intervene", "answer", "reject"} \subseteq Clients
  /\ {"idle", "invalidating", "accepted", "finishing", "changed", "rejected", "locking"} \subseteq ClientPcs
  /\ {"cancel", "timer", "reject", NoOne} \subseteq Coroutines \cup {NoOne}
  /\ {"CANCELLED", "TIMED_OUT", "STOPPED"} \subseteq TerminalLifecycles
BY DEF Clients, ClientPcs, Coroutines, TerminalLifecycles

LEMMA LaunchTyped ==
  ASSUME TypeInv, Launch, store' \in Seq(Coroutines)
  PROVE  WorkerOK'
<1>1. CASE w.pc = "off"
  <2>1. w' = [NoWorker EXCEPT !.pc = "start"]
    BY <1>1 DEF Launch
  <2>2. w' \in Workers /\ w'.pc = "start"
    BY <2>1, NoWorkerTyped DEF Workers, NoWorker, WorkerPcs, Free
  <2> QED
    BY <2>2 DEF WorkerOK, Handed
<1>2. CASE w.pc # "off"
  BY <1>2, WorkerKept DEF Launch
<1> QED
  BY <1>1, <1>2

LEMMA ClarifiedTyped ==
  ASSUME TypeInv, pending' = NoPending, approval' = NoApproval, lifecycle' \in Lifecycles,
         version' \in Versions, goals' = {}, forbidden' = {}, keep' = FALSE, criteria' = FALSE,
         UNCHANGED <<cancelled, route, counters>>
  PROVE  TypeOfRun'
<1>1. 0 \in 0..MaxVersion /\ "NONE" \in CapOrNone
  BY DEF ConstantsAssumption, CapOrNone
<1>2. /\ NoPending \in [type : {"NONE", "CLARIFICATION", "CONFIRMATION"}, ver : 0..MaxVersion, cap : CapOrNone]
      /\ NoApproval \in [cap : CapOrNone, ver : 0..MaxVersion]
  BY <1>1 DEF NoPending, NoApproval
<1> QED
  BY <1>2 DEF TypeInv, TypeOK, TypeOfRun, counters

LEMMA RequestTyped ==
  ASSUME TypeInv, Request \/ TimerFinish
  PROVE  TypeInv'
<1> USE ClientNames
<1>0. granted \in [Versions -> Nat] /\ forbade \in SUBSET Caps /\ lock \in Coroutines \cup {NoOne}
  BY DEF TypeInv, TypeOK, TypeOfWorld
<1>1. CASE CancelAccept
  <2>1. store' \in Seq(Coroutines) /\ req' \in [Clients -> ClientPcs]
    BY <1>1, AppendsTyped DEF CancelAccept
  <2>2. TypeOfActions'
    <3>1. CASE WithdrawProposed
      BY <1>1, <3>1, WithdrawTyped DEF CancelAccept, world
    <3>2. CASE UNCHANGED status
      BY <1>1, <3>2, ActionsKept DEF CancelAccept, world, acts
    <3> QED
      BY <1>1, <3>1, <3>2 DEF CancelAccept
  <2>3. TypeOfRun'
    BY <1>1 DEF CancelAccept, TypeInv, TypeOK, TypeOfRun, task, counters
  <2> QED
    BY <1>0, <1>1, <2>1, <2>2, <2>3, WorkerKept, ClientTyped DEF CancelAccept, history
<1>2. CASE Intervene
  <2>1. store' \in Seq(Coroutines) /\ req' \in [Clients -> ClientPcs]
    BY <1>2, AppendsTyped DEF Intervene
  <2>2. TypeOfActions'
    <3>1. CASE WithdrawProposed
      BY <1>2, <3>1, WithdrawTyped DEF Intervene, world
    <3>2. CASE UNCHANGED status
      BY <1>2, <3>2, ActionsKept DEF Intervene, world, acts
    <3> QED
      BY <1>2, <3>1, <3>2 DEF Intervene, TakeOver
  <2>3. /\ goals' \in SUBSET Caps /\ forbidden' \in SUBSET Caps /\ keep' \in BOOLEAN
        /\ forbade' \in SUBSET Caps
    BY <1>2, EditTyped DEF Intervene
  <2>4. version' \in Versions /\ criteria' = TRUE
    BY <1>2 DEF Intervene, Versions, TypeInv, TypeOK, TypeOfRun
  <2>5. lifecycle' \in Lifecycles /\ route' \in Routes
    BY <1>2 DEF Intervene, TakeOver, Lifecycles, Routes, TypeInv, TypeOK, TypeOfRun
  <2>6. TypeOfRun'
    BY <1>2, <2>3, <2>4, <2>5 DEF Intervene, TypeInv, TypeOK, TypeOfRun, counters
  <2> QED
    BY <1>0, <1>2, <2>1, <2>2, <2>3, <2>6, WorkerKept, ClientTyped DEF Intervene
<1>3. CASE InterveneRefused
  <2>1. goals' \in SUBSET Caps /\ forbidden' \in SUBSET Caps /\ keep' \in BOOLEAN
    BY <1>3, EditTyped DEF InterveneRefused
  <2>2. TypeOfRun'
    BY <1>3, <2>1 DEF InterveneRefused, TypeInv, TypeOK, TypeOfRun, counters, life
  <2>3. store' \in Seq(Coroutines) /\ req' \in [Clients -> ClientPcs]
    BY <1>3 DEF InterveneRefused, TypeInv, TypeOK, TypeOfWorld
  <2> QED
    BY <1>0, <1>3, <2>2, <2>3, ActionsKept, WorkerKept, ClientTyped
    DEF InterveneRefused, history, world
<1>4. CASE Approve
  <2>1. store' \in Seq(Coroutines) /\ req' \in [Clients -> ClientPcs]
    BY <1>4, AppendsTyped DEF Approve
  <2>2. TypeOfRun'
    BY <1>4 DEF Approve, TypeInv, TypeOK, TypeOfRun, counters, Lifecycles, NoPending, CapOrNone,
                Versions
  <2>3. granted' \in [Versions -> Nat]
    <3>1. version \in Versions /\ granted[version] + 1 \in Nat
      BY <1>0 DEF TypeInv, TypeOK, TypeOfRun
    <3> QED
      BY <1>0, <1>4, <3>1 DEF Approve
  <2> QED
    BY <1>0, <1>4, <2>1, <2>2, <2>3, ActionsKept, WorkerKept, ClientTyped DEF Approve, world
<1>5. CASE Clarify
  <2>1. store' \in Seq(Coroutines) /\ req' \in [Clients -> ClientPcs]
    BY <1>5, AppendsTyped DEF Clarify
  <2>2. version' \in Versions
    BY <1>5 DEF Clarify, Versions, TypeInv, TypeOK, TypeOfRun
  <2>3. TypeOfRun'
    <3>1. 0 \in 0..MaxVersion /\ "NONE" \in CapOrNone
      BY DEF ConstantsAssumption, CapOrNone
    <3>2. pending' = NoPending /\ approval' = NoApproval /\ lifecycle' \in Lifecycles
      BY <1>5 DEF Clarify, Lifecycles
    <3> QED
      BY <1>5, <2>2, <3>1, <3>2, ClarifiedTyped DEF Clarify
  <2> QED
    BY <1>0, <1>5, <2>1, <2>3, ActionsKept, WorkerKept, ClientTyped DEF Clarify, world
<1>6. CASE RejectAnswer
  <2>1. store' \in Seq(Coroutines) /\ req' \in [Clients -> ClientPcs]
    BY <1>6, AppendsTyped DEF RejectAnswer
  <2>2. TypeOfRun'
    BY <1>6 DEF RejectAnswer, TypeInv, TypeOK, TypeOfRun, life, task, counters
  <2> QED
    BY <1>0, <1>6, <2>1, <2>2, ActionsKept, WorkerKept, ClientTyped
    DEF RejectAnswer, world, history
<1>7. CASE TimerFinish
  <2>1. store' \in Seq(Coroutines) /\ req' \in [Clients -> ClientPcs]
    BY <1>7, AppendsTyped DEF TimerFinish
  <2>2. TypeOfRun'
    BY <1>7, FinishLockedTyped DEF TimerFinish
  <2> QED
    BY <1>0, <1>7, <2>1, <2>2, ActionsKept, WorkerKept, ClientTyped
    DEF TimerFinish, world, history
<1> QED
  BY <1>1, <1>2, <1>3, <1>4, <1>5, <1>6, <1>7 DEF Request

LEMMA ClientStepTyped ==
  ASSUME TypeInv, ClientStep
  PROVE  TypeInv'
<1> USE ClientNames
<1>0. granted \in [Versions -> Nat] /\ forbade \in SUBSET Caps /\ lock \in Coroutines \cup {NoOne}
  BY DEF TypeInv, TypeOK, TypeOfWorld
<1>1. CASE CancelInvalidated
  <2>1. store' \in Seq(Coroutines) /\ req' \in [Clients -> ClientPcs]
    BY <1>1, AppendsNextTyped DEF CancelInvalidated
  <2>2. TypeOfActions'
    BY <1>1, WithdrawTyped DEF CancelInvalidated, world
  <2>3. TypeOfRun'
    BY <1>1 DEF CancelInvalidated, TypeInv, TypeOK, TypeOfRun, task, counters, NoPending, CapOrNone
  <2> QED
    BY <1>0, <1>1, <2>1, <2>2, <2>3, WorkerKept, ClientTyped DEF CancelInvalidated, history
<1>2. CASE CancelFinish
  <2>1. store' \in Seq(Coroutines) /\ req' \in [Clients -> ClientPcs]
    BY <1>2, AppendsNextTyped DEF CancelFinish
  <2>2. TypeOfRun'
    BY <1>2, FinishLockedTyped DEF CancelFinish
  <2> QED
    BY <1>0, <1>2, <2>1, <2>2, ActionsKept, WorkerKept, ClientTyped
    DEF CancelFinish, world, history
<1>3. CASE InterveneInvalidated
  <2>1. store' \in Seq(Coroutines) /\ req' \in [Clients -> ClientPcs]
    BY <1>3, AppendsNextTyped DEF InterveneInvalidated
  <2>2. TypeOfActions'
    BY <1>3, WithdrawTyped DEF InterveneInvalidated, TakeOver, world
  <2>3. TypeOfRun'
    BY <1>3 DEF InterveneInvalidated, TakeOver, TypeInv, TypeOK, TypeOfRun, counters, NoPending,
                CapOrNone, Lifecycles, Routes
  <2> QED
    BY <1>0, <1>3, <2>1, <2>2, <2>3, WorkerKept, ClientTyped DEF InterveneInvalidated, history
<1>4. CASE RejectStored
  <2>1. store' \in Seq(Coroutines) /\ req' \in [Clients -> ClientPcs]
    BY <1>4, ResumesTyped DEF RejectStored
  <2>2. TypeOfRun'
    BY <1>4 DEF RejectStored, TypeInv, TypeOK, TypeOfRun, life, task, counters
  <2> QED
    BY <1>0, <1>4, <2>1, <2>2, ActionsKept, WorkerKept, ClientTyped
    DEF RejectStored, world, history
<1>5. CASE RejectFinish
  <2>1. store' \in Seq(Coroutines) /\ req' \in [Clients -> ClientPcs]
    <3>1. CASE Terminal
      BY <1>5, <3>1 DEF RejectFinish, ClientGo, TypeInv, TypeOK, TypeOfWorld
    <3>2. CASE ~Terminal
      BY <1>5, <3>2, AppendsTyped DEF RejectFinish
    <3> QED
      BY <3>1, <3>2
  <2>2. TypeOfRun'
    BY <1>5, FinishLockedTyped DEF RejectFinish
  <2> QED
    BY <1>0, <1>5, <2>1, <2>2, ActionsKept, WorkerKept, ClientTyped
    DEF RejectFinish, world, history
<1>6. ASSUME NEW c \in {"intervene", "answer"}, ChangeStored(c)
      PROVE  TypeInv'
  <2>1. store' \in Seq(Coroutines) /\ req' \in [Clients -> ClientPcs]
    BY <1>6, ResumesTyped DEF ChangeStored
  <2>2. TypeOfRun'
    BY <1>6 DEF ChangeStored, TypeInv, TypeOK, TypeOfRun, life, task, counters
  <2> QED
    BY <1>0, <1>6, <2>1, <2>2, ActionsKept, LaunchTyped, ClientTyped
    DEF ChangeStored, world, history
<1>7. ASSUME NEW c \in {"cancel", "timer", "reject"}, ClientFinished(c)
      PROVE  TypeInv'
  <2>1. store' \in Seq(Coroutines) /\ req' \in [Clients -> ClientPcs]
    BY <1>7, ResumesTyped DEF ClientFinished
  <2>2. TypeOfRun'
    BY <1>7 DEF ClientFinished, TypeInv, TypeOK, TypeOfRun, life, task, counters
  <2> QED
    BY <1>0, <1>7, <2>1, <2>2, ActionsKept, WorkerKept, ClientTyped
    DEF ClientFinished, world, history
<1> QED
  BY <1>1, <1>2, <1>3, <1>4, <1>5, <1>6, <1>7 DEF ClientStep

LEMMA WorldTyped ==
  ASSUME TypeInv, World
  PROVE  TypeInv'
<1>1. CASE Expire \/ SetPlacement \/ NewEnvironment
  <2>1. expired' \in BOOLEAN /\ epoch' \in 1..MaxEpoch /\ sameEnv' \in BOOLEAN
    <3>0. expired \in BOOLEAN /\ epoch \in 1..MaxEpoch /\ sameEnv \in BOOLEAN /\ MaxEpoch \in Nat
      BY DEF TypeInv, TypeOK, TypeOfWorld, ConstantsAssumption
    <3>1. CASE Expire
      BY <3>0, <3>1 DEF Expire
    <3>2. CASE SetPlacement
      BY <3>0, <3>2 DEF SetPlacement
    <3>3. CASE NewEnvironment
      BY <3>0, <3>3 DEF NewEnvironment
    <3> QED
      BY <1>1, <3>1, <3>2, <3>3
  <2> QED
    BY <1>1, <2>1 DEF Expire, SetPlacement, NewEnvironment, TypeInv, TypeOK, TypeOfRun, TypeOfActions,
              TypeOfWorld, Handed, life, task, acts, counters, history
<1>2. ASSUME NEW i \in ActionIds, DeviceTick(i)
      PROVE  TypeInv'
  <2>1. dev' \in [ActionIds -> DeviceStates]
    BY <1>2 DEF DeviceTick, TickOutcomes, DeviceStates, TypeInv, TypeOK, TypeOfActions
  <2> QED
    BY <1>2, <2>1 DEF DeviceTick, TypeInv, TypeOK, TypeOfRun, TypeOfActions,
                      TypeOfWorld, Handed, life, task, acts, counters, history
<1> QED
  BY <1>1, <1>2 DEF World

LEMMA InitTyped == Init => TypeInv
<1> SUFFICES ASSUME Init PROVE TypeInv
  OBVIOUS
<1>1. w \in Workers /\ w.pc = "start"
  BY NoWorkerTyped DEF Init, Workers, NoWorker, WorkerPcs, Free
<1>2. TypeOfRun
  <2>1. version \in Versions /\ writes \in 0..MaxWrites /\ replans \in 0..MaxReplans
    BY DEF Init, Versions, ConstantsAssumption
  <2>2. /\ pending \in [type : {"NONE", "CLARIFICATION", "CONFIRMATION"}, ver : 0..MaxVersion, cap : CapOrNone]
        /\ approval \in [cap : CapOrNone, ver : 0..MaxVersion]
    <3>1. 0 \in 0..MaxVersion /\ "NONE" \in CapOrNone
      BY DEF ConstantsAssumption, CapOrNone
    <3> QED
      BY <3>1 DEF Init, NoPending, NoApproval
  <2>3. /\ lifecycle \in Lifecycles /\ route \in Routes /\ goals \in SUBSET Caps
        /\ forbidden \in SUBSET Caps /\ keep \in BOOLEAN /\ criteria \in BOOLEAN /\ cancelled \in BOOLEAN
    BY DEF Init, Lifecycles, Routes
  <2> QED
    BY <2>1, <2>2, <2>3 DEF TypeOfRun
<1>3. TypeOfActions
  <2>1. 0 \in 0..MaxVersion /\ 0 \in 0..MaxActions
    BY DEF ConstantsAssumption
  <2> QED
    BY <2>1 DEF Init, TypeOfActions, ExecutionStatuses, CapOrNone, DeviceStates
<1>4. TypeOfWorld
  <2>1. 1 \in 1..MaxEpoch
    BY DEF ConstantsAssumption
  <2>2. NoOne \in Coroutines \cup {NoOne} /\ <<>> \in Seq(Coroutines)
    OBVIOUS
  <2>3. req \in [Clients -> ClientPcs] /\ granted \in [Versions -> Nat]
    BY DEF Init, ClientPcs
  <2> QED
    BY <1>1, <2>1, <2>2, <2>3 DEF Init, TypeOfWorld
<1> QED
  BY <1>1, <1>2, <1>3, <1>4 DEF TypeInv, TypeOK, Handed

LEMMA StutterTyped ==
  ASSUME TypeInv, UNCHANGED vars PROVE TypeInv'
BY DEF TypeInv, TypeOK, TypeOfRun, TypeOfActions, TypeOfWorld, Handed, vars, life, task, acts,
       counters, world, history

LEMMA TypePreserved == TypeInv /\ [Next]_vars => TypeInv'
BY HarnessStepTyped, ExecuteWriteTyped, ClientStepTyped, RequestTyped, WorldTyped, StutterTyped
DEF Next, WorkerStep, HarnessStep

\* Whatever the plan, the users, the deadline, the placement and the device do,
\* every field of the run keeps its type, and the budget of replans and writes
\* is never exceeded, for every bound on actions, versions and rounds.
THEOREM TypeCorrect == Spec => []TypeOK
<1>1. Init => TypeInv
  BY InitTyped
<1>2. TypeInv /\ [Next]_vars => TypeInv'
  BY TypePreserved
<1>3. TypeInv => TypeOK
  BY DEF TypeInv
<1> QED
  BY <1>1, <1>2, <1>3, PTL DEF Spec
==============================================================================
