------------------------------ MODULE Executor ------------------------------
(* CapabilityExecutor.execute_write (runtime/executor.py): the only code that *)
(* sends a write to the device. Everything up to DISPATCH happens under      *)
(* run_lock; the device call does not; its result is recorded under the lock *)
(* again, an UNKNOWN result is only ever queried, never sent again.          *)
(*                                                                           *)
(* The device is what DevicePort promises; DeviceSim shows that the simulator *)
(* keeps that promise.                                                       *)
EXTENDS RunState, DevicePort

\* async with run_lock; run.actions.append(action)
Propose ==
  /\ At("propose") /\ LockFree /\ last < MaxActions
  /\ lock' = "work"
  /\ last' = last + 1
  /\ status' = [status EXCEPT ![last + 1] = "PROPOSED"]
  /\ acap' = [acap EXCEPT ![last + 1] = w.cap]
  /\ aver' = [aver EXCEPT ![last + 1] = w.v]
  /\ w' = [w EXCEPT !.pc = "proposed", !.arg = "NONE", !.tries = 0]
  /\ store' = Append(Rest, "work")
  /\ UNCHANGED <<life, task, inFlight, unknown, counters, world, req, history>>

\* CapabilityExecutor._reject
Reject(s) == status' = [status EXCEPT ![last] = s] /\ Log("rejected")

\* PolicyEngine.decide for the proposed capability. Governance switches (writes
\* paused, environment, working hours) may deny at any time.
Approved == approval = [cap |-> w.cap, ver |-> version]
PolicyDecisions ==
  {"DENY"} \cup
  (IF w.cap \in forbidden THEN {}
   ELSE IF RequireConfirmation /\ ~Approved THEN {"REQUIRE_CONFIRMATION"} ELSE {"ALLOW"})

\* Mutant: an approval is good for ever.
MutUseApproval(d) == UNCHANGED approval
\* An approval is good for one write.
UseApproval(d) ==
  approval' = IF d = "ALLOW" /\ RequireConfirmation THEN NoApproval ELSE approval

\* Mutant: nobody looks.
MutNothingOutstanding == TRUE
\* No write is in flight or unresolved.
NothingOutstanding == inFlight = 0 /\ ~unknown

DecidePolicy ==
  /\ At("proposed")
  /\ \/ /\ ~(StillCurrent /\ sameEnv)
        /\ Reject("CANCELLED_BEFORE_DISPATCH")
        /\ UNCHANGED approval
     \/ /\ StillCurrent /\ sameEnv
        /\ Reject("REJECTED")              \* NothingOutstanding fails, or CIRCUIT_OPEN
        /\ UNCHANGED approval
     \/ /\ StillCurrent /\ sameEnv /\ NothingOutstanding
        /\ \E d \in PolicyDecisions : UseApproval(d) /\ LogWith("policy", d)
        /\ UNCHANGED status
  /\ UNCHANGED <<life, route, version, goals, forbidden, keep, criteria, acap, aver, last,
                 inFlight, unknown, counters, world, lock, req, history>>

AfterPolicy ==
  /\ At("policy")
  /\ \/ /\ w.arg = "DENY"
        /\ Reject("REJECTED")
        /\ UNCHANGED life
     \/ /\ w.arg # "DENY"                  \* the snapshot has left the fresh window
        /\ Reject("REJECTED")
        /\ UNCHANGED life
     \/ /\ w.arg = "REQUIRE_CONFIRMATION"
        /\ pending' = [type |-> "CONFIRMATION", ver |-> w.v, cap |-> w.cap]
        /\ lifecycle' = "WAITING_CONFIRMATION"
        /\ Log("waiting")
        /\ UNCHANGED <<cancelled, status>>
     \/ /\ w.arg = "ALLOW" /\ ~StillCurrent
        /\ Reject("CANCELLED_BEFORE_DISPATCH")
        /\ UNCHANGED life
     \/ /\ w.arg = "ALLOW" /\ StillCurrent
        /\ status' = [status EXCEPT ![last] = "AUTHORIZED"]
        /\ Log("authorized")
        /\ UNCHANGED life
  /\ UNCHANGED <<task, acap, aver, last, inFlight, unknown, counters, world, lock, req, history>>

\* count_write, count_tool: each raises when its budget or the deadline is spent.
CountWrite ==
  /\ At("authorized")
  /\ \/ /\ writes < MaxWrites /\ ~expired
        /\ writes' = writes + 1
        /\ Log("intent")
        /\ UNCHANGED lock
     \/ /\ writes < MaxWrites /\ ~expired
        /\ writes' = writes + 1
        /\ Raise /\ lock' = NoOne          \* count_tool raises after count_write
     \/ /\ writes >= MaxWrites \/ expired
        /\ Raise /\ lock' = NoOne
        /\ UNCHANGED writes
  /\ UNCHANGED <<life, task, acts, replans, world, req, history>>

Dispatch ==
  /\ At("intent")
  /\ \/ /\ ~StillCurrent
        /\ Reject("CANCELLED_BEFORE_DISPATCH")
        /\ UNCHANGED inFlight
     \/ /\ StillCurrent
        /\ status' = [status EXCEPT ![last] = "DISPATCHED"]
        /\ inFlight' = last
        /\ Log("dispatch")
  /\ UNCHANGED <<life, task, acap, aver, last, unknown, counters, world, lock, req, history>>

Send ==
  /\ At("dispatch")
  /\ lock' = NoOne
  /\ Go("apply")
  /\ UNCHANGED <<life, task, acts, counters, world, req, history>>

\* DevicePort.apply_write
DeviceApply ==
  /\ At("apply")
  /\ \E o \in WriteOutcomes(sameEnv /\ ~expired) :
       /\ dev' = [dev EXCEPT ![last] = o.end]
       /\ GoWith("ack", o.answer)
  /\ UNCHANGED <<life, task, acts, counters, expired, epoch, sameEnv, lock, req, history>>

\* DeviceSimulator.tick ends a QUEUED action, the deadline permitting.
DeviceTick(i) ==
  /\ dev[i] = "QUEUED" /\ sameEnv
  /\ \E o \in TickOutcomes(expired) : dev' = [dev EXCEPT ![i] = o]
  /\ UNCHANGED <<life, task, acts, counters, expired, epoch, sameEnv, lock, store, w, req, history>>

\* Mutant: an accepted command counts as executed.
MutReported(d) == IF d \in {"QUEUED", "APPLIED"} THEN "APPLIED" ELSE d
\* CapabilityExecutor._record: the status the device's record has now.
Reported(d) == IF d \in {"APPLIED", "NOT_APPLIED"} THEN d ELSE "UNKNOWN"
\* Mutant: unresolved_unknown is set and never reset.
MutRecordResult ==
  /\ status' = [status EXCEPT ![last] = Reported(dev[last])]
  /\ unknown' = (unknown \/ Reported(dev[last]) = "UNKNOWN")
RecordResult ==
  /\ status' = [status EXCEPT ![last] = Reported(dev[last])]
  /\ unknown' = (Reported(dev[last]) = "UNKNOWN")

\* The reply is acknowledged; a lost one (DeviceException) makes the action UNKNOWN.
Acknowledge ==
  /\ At("ack") /\ LockFree
  /\ lock' = "work"
  /\ \/ /\ w.arg = "reply"
        /\ status' = [status EXCEPT ![last] = "ACKNOWLEDGED"]
        /\ Log("acked")
        /\ UNCHANGED unknown
     \/ /\ w.arg = "lost"
        /\ status' = [status EXCEPT ![last] = "UNKNOWN"]
        /\ unknown' = TRUE
        /\ Log("recorded")
  /\ UNCHANGED <<life, task, acap, aver, last, inFlight, counters, world, req, history>>

RecordReply ==
  /\ At("acked")
  /\ RecordResult
  /\ Log("recorded")
  /\ UNCHANGED <<life, task, acap, aver, last, inFlight, counters, world, lock, req, history>>

\* Mutant: reconcile_unknown is called under the lock it takes.
MutAfterRecord ==
  /\ At("recorded") \/ At("reconciled")
  /\ IF status[last] = "UNKNOWN" /\ w.tries < MaxReconcile
     THEN Go("reconcile") /\ UNCHANGED lock
     ELSE Go("settle") /\ lock' = NoOne
  /\ UNCHANGED <<life, task, acts, counters, world, req, history>>
\* Release; query again while UNKNOWN, at most MaxReconcile times. The read-back
\* of _verify, which follows, changes only the evidence on the action.
AfterRecord ==
  /\ At("recorded") \/ At("reconciled")
  /\ lock' = NoOne
  /\ IF status[last] = "UNKNOWN" /\ w.tries < MaxReconcile THEN Go("reconcile") ELSE Go("settle")
  /\ UNCHANGED <<life, task, acts, counters, world, req, history>>

\* reconcile_unknown: count_tool raises only while the run is not terminal.
ReconcileAttempt ==
  /\ At("reconcile") /\ LockFree
  /\ \/ lock' = "work" /\ Log("query")
     \/ ~Terminal /\ Raise /\ UNCHANGED lock
  /\ UNCHANGED <<life, task, acts, counters, world, req, history>>

\* query_action: a new environment has no record of the action.
QueryAction ==
  /\ At("query")
  /\ lock' = NoOne
  /\ GoWith("queried", IF sameEnv THEN "record" ELSE "none")
  /\ UNCHANGED <<life, task, acts, counters, world, req, history>>

ReconcileRecord ==
  /\ At("queried") /\ LockFree
  /\ lock' = "work"
  /\ \/ w.arg = "record" /\ RecordResult
     \/ w.arg = "none" /\ UNCHANGED <<status, unknown>>
  /\ w' = [w EXCEPT !.pc = "reconciled", !.arg = "NONE", !.tries = @ + 1]
  /\ store' = Append(Rest, "work")
  /\ UNCHANGED <<life, task, acap, aver, last, inFlight, counters, world, req, history>>

Settle ==
  /\ At("settle") /\ LockFree
  /\ lock' = "work"
  /\ inFlight' = IF status[last] # "UNKNOWN" THEN 0 ELSE inFlight
  /\ unknown' = (status[last] = "UNKNOWN")
  /\ Log("settled")
  /\ UNCHANGED <<life, task, status, acap, aver, last, counters, world, req, history>>

ExecuteWrite ==
  \/ Propose \/ DecidePolicy \/ AfterPolicy \/ CountWrite \/ Dispatch \/ Send
  \/ DeviceApply \/ Acknowledge \/ RecordReply \/ AfterRecord
  \/ ReconcileAttempt \/ QueryAction \/ ReconcileRecord \/ Settle
==============================================================================
