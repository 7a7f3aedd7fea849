---------------------------- MODULE HarnessSafety ----------------------------
(* What the run, its executor and its requests promise together.             *)
EXTENDS Harness

WorkerPcs == Appending \cup Free
Coroutines == Clients \cup {"work"}
ClientPcs == {"idle", "invalidating", "accepted", "finishing", "changed", "rejected", "locking"}
DeviceStates == {"none", "QUEUED", "STUCK", "APPLIED", "NOT_APPLIED"}
CapOrNone == Caps \cup {"NONE"}
\* What the worker hands to itself across an await: a plan's decision, a gate's
\* or the policy's answer, the device's reply, an outcome, a lifecycle.
Args ==
  {"NONE", "ACT", "FINISH", "CLARIFY", "READ", "INVALID", "STALE", "DENY", "SKIP", "WRITE",
   "REQUIRE_CONFIRMATION", "ALLOW", "reply", "lost", "record", "none"} \cup Overalls \cup Lifecycles
Workers ==
  [pc : WorkerPcs, v : 0..MaxVersion, e : 0..MaxEpoch, flow : {"loop", "multi"},
   plan : SUBSET Caps, bound : BOOLEAN, cap : CapOrNone, arg : Args,
   step : 0..MaxSteps, round : 0..MaxReplans, tries : Nat]

TypeOfRun ==
  /\ lifecycle \in Lifecycles
  /\ pending \in [type : {"NONE", "CLARIFICATION", "CONFIRMATION"}, ver : 0..MaxVersion, cap : CapOrNone]
  /\ cancelled \in BOOLEAN
  /\ route \in Routes /\ version \in Versions
  /\ goals \in SUBSET Caps /\ forbidden \in SUBSET Caps
  /\ keep \in BOOLEAN /\ criteria \in BOOLEAN
  /\ approval \in [cap : CapOrNone, ver : 0..MaxVersion]
  /\ writes \in 0..MaxWrites /\ replans \in 0..MaxReplans
TypeOfActions ==
  /\ status \in [ActionIds -> ExecutionStatuses]
  /\ acap \in [ActionIds -> CapOrNone] /\ aver \in [ActionIds -> 0..MaxVersion]
  /\ last \in 0..MaxActions /\ inFlight \in 0..MaxActions /\ unknown \in BOOLEAN
  /\ dev \in [ActionIds -> DeviceStates]
TypeOfWorld ==
  /\ expired \in BOOLEAN /\ epoch \in 1..MaxEpoch /\ sameEnv \in BOOLEAN
  /\ lock \in Coroutines \cup {NoOne} /\ store \in Seq(Coroutines)
  /\ w \in Workers /\ req \in [Clients -> ClientPcs]
  /\ granted \in [Versions -> Nat] /\ forbade \in SUBSET Caps

\* Every field of RunRecord, of the coroutines and of the world has its type;
\* the budget counters stay within Budget.max_*.
TypeOK == TypeOfRun /\ TypeOfActions /\ TypeOfWorld

-----------------------------------------------------------------------------
(* Actions                                                                   *)

\* unresolved_unknown, which blocks the next write and the next run on the
\* device (store.py, has_active_write_run), says exactly whether some action is
\* UNKNOWN, at every await of execute_write and reconcile_unknown.
UnknownExact == unknown <=> \E i \in ActionIds : status[i] = "UNKNOWN"

\* At most one action is at the device or unresolved, and in_flight_action_id
\* names it, whatever requests arrive while execute_write waits off the lock.
OneOutstanding == \A i \in ActionIds : status[i] \in Uncertain => inFlight = i

\* What the run records is what the device did: a final status is the device's,
\* and an action that was never dispatched never reached the device.
SettledTruth ==
  \A i \in ActionIds :
    /\ status[i] \in {"APPLIED", "NOT_APPLIED"} => dev[i] = status[i]
    /\ status[i] \notin Sent => dev[i] = "none"

\* A capability takes effect at most once per goal version, through
\* replanning, late answers, placement switches and reconciliation.
NoDuplicateWrite ==
  \A i, j \in ActionIds :
    dev[i] = "APPLIED" /\ dev[j] = "APPLIED" /\ acap[i] = acap[j] /\ aver[i] = aver[j] => i = j

\* With confirmation required, a goal version sends no more writes than the
\* user approved while it was current.
ApprovedOnly ==
  RequireConfirmation =>
    \A v \in Versions :
      Cardinality({i \in ActionIds : aver[i] = v /\ status[i] \in Sent}) <= granted[v]

\* An action never goes back: what the device reported stays, an UNKNOWN action
\* is only ever resolved by a query, and one withdrawn by a request or rejected
\* is never authorized or sent, whatever its job was awaiting.
Refused == {"REJECTED", "CANCELLED_BEFORE_DISPATCH"}
NeverResent ==
  [][\A i \in ActionIds :
       /\ status[i] \in {"APPLIED", "NOT_APPLIED"} => status'[i] = status[i]
       /\ status[i] = "UNKNOWN" => status'[i] \in {"UNKNOWN", "APPLIED", "NOT_APPLIED"}
       /\ status[i] \in Refused => status'[i] \in Refused]_vars

\* The executor implements ActionContract: ExecutionStatus refines its phases.
PhaseOf(s) ==
  CASE s \in {"PREPARED", "PROPOSED", "AUTHORIZED"} -> "unsent"
    [] s \in Refused                                -> "dropped"
    [] s \in {"DISPATCHED", "ACKNOWLEDGED"}         -> "sent"
    [] s = "UNKNOWN"                                -> "unknown"
    [] s = "APPLIED"                                -> "applied"
    [] s = "NOT_APPLIED"                            -> "notApplied"
Contract == INSTANCE ActionContract
  WITH Actions <- ActionIds, phase <- [i \in ActionIds |-> PhaseOf(status[i])]
ContractSpec == Contract!Spec

-----------------------------------------------------------------------------
(* The run                                                                   *)

\* A terminal run stays in its terminal state, whoever else was about to finish
\* it, to wait for the user or to be answered.
TerminalIsFinal == [][Terminal => lifecycle' = lifecycle]_vars

\* An accepted cancellation ends the run as CANCELLED, against the job, the
\* deadline and a user's rejection that finish it at the same time.
CancelWins == cancelled /\ Terminal => lifecycle = "CANCELLED"

\* A finished run has no question left open.
NothingAskedAtEnd == Terminal => pending = NoPending

\* A task is never COMPLETED with a write that is still at the device or of
\* unknown result. (A run that turns out to be small talk is: README, section 4.)
NoFalseSuccess ==
  lifecycle = "COMPLETED" /\ route # "CHAT" => \A i \in ActionIds : status[i] \notin Uncertain

\* A run that is not waiting for the user has a job that works on it, once the
\* requests that reached it are through.
RunningHasWorker ==
  lifecycle = "RUNNING" /\ (\A c \in Clients : req[c] = "idle") => w.pc # "off"

\* The job only finishes the run as COMPLETED for the goals it verified.
CompletedForCurrentGoal ==
  [][lifecycle # "COMPLETED" /\ lifecycle' = "COMPLETED" => w.v = version]_vars

\* A capability the user banned is not sent once the ban was accepted.
BanRespected ==
  [][\A i \in ActionIds :
       status[i] # "DISPATCHED" /\ status'[i] = "DISPATCHED" => acap[i] \notin forbade]_vars

\* A task other than a chat is COMPLETED only with criteria to be judged by.
CompletedHasCriteria == lifecycle = "COMPLETED" /\ route # "CHAT" => criteria

-----------------------------------------------------------------------------
(* Liveness                                                                  *)

\* Every run ends and stays ended: the deadline closes what the user, the
\* model or the device leave open.
EventuallyFinal == <>[]Terminal

\* A dispatched action does not stay in doubt between DISPATCH and its result:
\* it is settled, or UNKNOWN.
EveryDispatchRecorded ==
  \A i \in ActionIds :
    status[i] \in {"DISPATCHED", "ACKNOWLEDGED"} ~> status[i] \in {"APPLIED", "NOT_APPLIED", "UNKNOWN"}

\* A finished run releases its job, so that nothing works on it any more.
JobEnds == []<>(w.pc = "off")
==============================================================================
