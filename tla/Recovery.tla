------------------------------ MODULE Recovery ------------------------------
(* A crash at any point, and what a restart makes of a run and of its device *)
(* (persistence/sqlite.py). Every append_event saves the run, every commit   *)
(* of the device saves the device; what was not saved is lost, and a save    *)
(* may fail. The job proposes writes one after the other, another coroutine  *)
(* may end the run whenever run_lock is free; both in detail are Harness. A  *)
(* status of an action is its execution_status, REJECTED any that was never  *)
(* dispatched.                                                               *)
EXTENDS Integers, Sequences, FiniteSets

CONSTANTS
  MaxActions,      \* writes of the run
  MaxCrashes,      \* bound on the crashes
  MaxFailures      \* bound on the kinds of saves that fail, each once

ASSUME RecoveryAssumption ==
  MaxActions \in Nat \ {0} /\ MaxCrashes \in Nat /\ MaxFailures \in Nat

VARIABLES
  phase,           \* "up", "down", or "recovering": SqlitePersistence.init
  run, saved,      \* the record in memory, and its row of v2_runs
  dev, devSaved,   \* the device's record of each action, and its row of v2_device
  pc, cur,         \* the job: the event or step it is at, its action
  closing,         \* the coroutine that ends the run
  turn,            \* who waits in append_event: "job", "close"
  sql,             \* the saves that wait for SqlitePersistence._lock
  at,              \* the recovery: the next action of the run it looks at
  reads, doubt,    \* whether it reads the device, and its variable unknown
  crashes, torn,   \* how often it crashed, and whether during a recovery
  failed,          \* whose saves have failed
  told             \* the lifecycle the user was told

vars == <<phase, run, saved, dev, devSaved, pc, cur, closing, turn, sql, at, reads, doubt, crashes,
          torn, failed, told>>
process == <<phase, at, reads, doubt, crashes, torn>>
recovery == <<process, failed>>

Actions == 1..MaxActions
Ends == {"COMPLETED", "CANCELLED", "STOPPED"}
Terminal(r) == r.life # "RUNNING"
Unsent == {"PROPOSED", "AUTHORIZED"}
InDoubt == {"DISPATCHED", "ACKNOWLEDGED", "UNKNOWN"}

JobEvents == {"ACTION_PROPOSED", "AUTHORIZED", "DISPATCH", "ACKNOWLEDGED", "TOOL_RESULT",
              "RECONCILE_ATTEMPT", "ACTION_SETTLED", "ACTION_REJECTED"}
\* run_lock is held from an event of the job on until it leaves the lock's block.
LockFree == pc \notin JobEvents /\ closing = "none"
DeviceBusy == \E i \in 1..Len(sql) : sql[i].by = "device"

-----------------------------------------------------------------------------
(* append_event and the two tables. *)

\* Mutant: without _lock the run's row overtakes the device's.
MutSave(by) == sql' = <<[by |-> by, row |-> run]>> \o sql
\* model_dump_json before _lock, which is first come first served
Save(by) == sql' = Append(sql, [by |-> by, row |-> run])

\* The turn of a coroutine has come: the run is written as it is now.
TakeTurn ==
  /\ phase = "up" /\ turn # <<>>
  /\ \A i \in 1..Len(sql) : sql[i].by # turn[1]
  /\ Save(turn[1])
  /\ UNCHANGED <<recovery, run, saved, dev, devSaved, pc, cur, closing, turn, told>>

Saved(by) ==
  /\ phase = "up" /\ sql # <<>> /\ sql[1].by = by
  /\ saved' = sql[1].row /\ sql' = Tail(sql)

\* The job has stored event e and goes on, to another event or to a step.
JobStored(e) == pc = e /\ Saved("job") /\ UNCHANGED <<recovery, dev, devSaved, closing, told>>
Then(e) == pc' = e /\ turn' = IF e \in JobEvents THEN Append(Tail(turn), "job") ELSE Tail(turn)
\* It enters run_lock and appends event e.
Enter(e) ==
  /\ phase = "up" /\ LockFree /\ pc' = e /\ turn' = Append(turn, "job")
  /\ UNCHANGED <<recovery, saved, dev, devSaved, closing, sql, told>>
Mark(s) == run' = [run EXCEPT !.status[cur'] = s]

-----------------------------------------------------------------------------
(* The job: execute_write for one action after the other. *)
Propose ==
  /\ pc = "idle" /\ cur < MaxActions /\ Enter("ACTION_PROPOSED")
  /\ cur' = cur + 1 /\ Mark("PROPOSED")

\* Mutant: only an unresolved action is looked for.
MutNothingOutstanding == ~Terminal(run)
NothingOutstanding == ~Terminal(run) /\ run.inFlight = 0 /\ ~run.unknown

\* A denial, a stale snapshot, a new goal version, or the checks of the run.
Rejected == Mark("REJECTED") /\ Then("ACTION_REJECTED")

Proposed ==
  /\ JobStored("ACTION_PROPOSED") /\ UNCHANGED cur
  /\ \/ Rejected
     \/ NothingOutstanding /\ Mark("AUTHORIZED") /\ Then("AUTHORIZED")

\* Mutant: the write is sent while its DISPATCH event is not stored.
MutAuthorized ==
  /\ JobStored("AUTHORIZED") /\ UNCHANGED cur
  /\ run' = [run EXCEPT !.status[cur] = "DISPATCHED", !.inFlight = cur] /\ Then("send")
Authorized ==
  /\ JobStored("AUTHORIZED") /\ UNCHANGED cur
  /\ \/ Rejected
     \/ run' = [run EXCEPT !.status[cur] = "DISPATCHED", !.inFlight = cur] /\ Then("DISPATCH")

Dispatched == JobStored("DISPATCH") /\ Then("send") /\ UNCHANGED <<run, cur>>

\* apply_write: the device decides, and commits before it answers.
Send ==
  /\ phase = "up" /\ pc = "send" /\ ~DeviceBusy
  /\ \E s \in {"QUEUED", "APPLIED", "NOT_APPLIED"} : dev' = [dev EXCEPT ![cur] = s]
  /\ sql' = Append(sql, [by |-> "device"]) /\ pc' = "device"
  /\ UNCHANGED <<recovery, run, saved, devSaved, cur, closing, turn, told>>
Tick(a) ==
  /\ phase = "up" /\ dev[a] = "QUEUED" /\ ~DeviceBusy
  /\ \E s \in {"APPLIED", "NOT_APPLIED"} : dev' = [dev EXCEPT ![a] = s]
  /\ sql' = Append(sql, [by |-> "device"])
  /\ UNCHANGED <<recovery, run, saved, devSaved, pc, cur, closing, turn, told>>
Commit ==
  /\ phase = "up" /\ sql # <<>> /\ sql[1].by = "device"
  /\ devSaved' = dev /\ sql' = Tail(sql)
  /\ IF pc = "device"
     THEN pc' \in {"replied"} \cup (IF dev[cur] = "NOT_APPLIED" THEN {} ELSE {"lost"})
     ELSE UNCHANGED pc
  /\ UNCHANGED <<recovery, run, saved, dev, cur, closing, turn, told>>

Acknowledge == pc = "replied" /\ Enter("ACKNOWLEDGED") /\ UNCHANGED cur /\ Mark("ACKNOWLEDGED")

Reported(s) == IF s \in {"APPLIED", "NOT_APPLIED"} THEN s ELSE "UNKNOWN"
Result(s) == run' = [run EXCEPT !.status[cur] = s, !.unknown = s = "UNKNOWN"]

\* The record that was returned is the device's own: it may have changed since.
Acknowledged == JobStored("ACKNOWLEDGED") /\ Result(Reported(dev[cur])) /\ Then("TOOL_RESULT") /\ UNCHANGED cur
ReplyLost == pc = "lost" /\ Enter("TOOL_RESULT") /\ Result("UNKNOWN") /\ UNCHANGED cur
Recorded ==
  /\ JobStored("TOOL_RESULT") /\ UNCHANGED <<run, cur>>
  /\ \/ run.status[cur] = "UNKNOWN" /\ Then("query")
     \/ Then("settle")

Query == pc = "query" /\ Enter("RECONCILE_ATTEMPT") /\ UNCHANGED <<run, cur>>
QueryStored == JobStored("RECONCILE_ATTEMPT") /\ Then("asking") /\ UNCHANGED <<run, cur>>
Reconcile ==
  /\ pc = "asking" /\ ~DeviceBusy /\ Enter("TOOL_RESULT") /\ UNCHANGED cur
  /\ Result(Reported(dev[cur]))

Settle ==
  /\ pc = "settle" /\ Enter("ACTION_SETTLED") /\ UNCHANGED cur
  /\ LET unknown == run.status[cur] = "UNKNOWN" IN
       run' = [run EXCEPT !.unknown = unknown, !.inFlight = IF unknown THEN @ ELSE 0]
SettleStored == JobStored("ACTION_SETTLED") /\ Then("idle") /\ UNCHANGED <<run, cur>>
RejectStored == JobStored("ACTION_REJECTED") /\ Then("idle") /\ UNCHANGED <<run, cur>>

-----------------------------------------------------------------------------
(* _finish_locked: by the job itself, a user or the deadline. *)

\* Mutant: the user is answered before the event is stored.
MutTell(l) == told' = l
Tell(l) == UNCHANGED told
End ==
  /\ phase = "up" /\ LockFree /\ ~Terminal(run)
  /\ \E l \in Ends : run' = [run EXCEPT !.life = l] /\ Tell(l)
  /\ closing' = "RUN_FINISHED" /\ turn' = Append(turn, "close")
  /\ UNCHANGED <<recovery, saved, dev, devSaved, pc, cur, sql>>
EndStored ==
  /\ Saved("close") /\ turn' = Tail(turn) /\ closing' = "persist_run"
  /\ UNCHANGED <<recovery, run, dev, devSaved, pc, cur, told>>
Persist ==
  /\ phase = "up" /\ closing = "persist_run"
  /\ Save("final") /\ closing' = "persisting"
  /\ UNCHANGED <<recovery, run, saved, dev, devSaved, pc, cur, turn, told>>
Persisted ==
  /\ Saved("final") /\ closing' = "none" /\ told' = run.life
  /\ UNCHANGED <<recovery, run, dev, devSaved, pc, cur, turn>>

-----------------------------------------------------------------------------
(* A save that fails raises where its result is awaited.                     *)
Fails(by) ==
  /\ phase = "up" /\ sql # <<>> /\ sql[1].by = by /\ sql' = Tail(sql)
  /\ failed' = failed \cup {by} /\ by \notin failed /\ Cardinality(failed) < MaxFailures
\* append_event: the row of the run, or the line of the journal after it.
Unstored(by) == Fails(by) /\ saved' \in {saved, sql[1].row} /\ turn' = Tail(turn)
\* It leaves execute_write and its locks; the job has a handler (StopJob).
EventFails ==
  /\ Unstored("job") /\ pc' = "raised"
  /\ UNCHANGED <<process, run, dev, devSaved, cur, closing, told>>
\* _commit: the device has changed. What a write raises ends its job, and so does the
\* tick between two queries; the clock of the simulator swallows it.
DeviceFails ==
  /\ Fails("device")
  /\ pc' \in (IF pc = "device" THEN {} ELSE {pc})
            \cup (IF pc \in {"device", "query"} THEN {"raised"} ELSE {})
  /\ UNCHANGED <<process, run, saved, dev, devSaved, cur, closing, turn, told>>
\* RUN_FINISHED, or persist_run after it: the run is over in memory.
EndFails ==
  /\ Unstored("close") /\ closing' = "none"
  /\ UNCHANGED <<process, run, dev, devSaved, pc, cur, told>>
PersistFails ==
  /\ Fails("final") /\ closing' = "none"
  /\ UNCHANGED <<process, run, saved, dev, devSaved, pc, cur, turn, told>>
\* Mutant: the job is gone without a word.
MutStopped == UNCHANGED <<run, closing, turn>>
\* _finish, unless the run is over.
Stopped ==
  IF Terminal(run) THEN UNCHANGED <<run, closing, turn>>
  ELSE /\ run' = [run EXCEPT !.life = "STOPPED"]
       /\ closing' = "RUN_FINISHED" /\ turn' = Append(turn, "close")
\* The handler of job().
StopJob ==
  /\ phase = "up" /\ pc = "raised" /\ LockFree /\ pc' = "gone" /\ Stopped
  /\ UNCHANGED <<recovery, saved, dev, devSaved, cur, sql, told>>

-----------------------------------------------------------------------------
(* The process dies, also during a recovery, and starts again. *)
Crash ==
  /\ phase # "down" /\ crashes < MaxCrashes
  /\ phase' = "down" /\ crashes' = crashes + 1 /\ torn' = (torn \/ phase = "recovering")
  /\ run' = saved /\ dev' = devSaved
  /\ pc' = "gone" /\ cur' = 0 /\ closing' = "none" /\ turn' = <<>> /\ sql' = <<>>
  /\ at' = 1 /\ reads' = FALSE /\ doubt' = FALSE
  /\ UNCHANGED <<saved, devSaved, failed, told>>

\* restore, terminate_queued_actions, persist_device; the run is loaded.
Load ==
  /\ phase = "down" /\ phase' = "recovering"
  /\ dev' = [a \in Actions |-> IF devSaved[a] = "QUEUED" THEN "NOT_APPLIED" ELSE devSaved[a]]
  /\ devSaved' = dev'
  /\ run' = IF Terminal(saved) THEN saved ELSE [saved EXCEPT !.life = "INTERRUPTED"]
  /\ reads' = (~Terminal(saved) \/ saved.unknown)
  /\ UNCHANGED <<saved, pc, cur, closing, turn, sql, at, doubt, crashes, torn, failed, told>>

\* Mutant: what was not dispatched is left as it is.
MutUnsentAction(s) == s
UnsentAction(s) == "REJECTED"

\* One action of the run; RECOVERY_READ saves the run.
RecoverAction ==
  /\ phase = "recovering" /\ reads /\ at <= MaxActions
  /\ LET s == run.status[at] IN
       \/ /\ s \in InDoubt
          /\ run' = [run EXCEPT !.status[at] = Reported(dev[at])]
          /\ doubt' = (doubt \/ Reported(dev[at]) = "UNKNOWN") /\ saved' = run'
       \/ /\ s \in Unsent
          /\ run' = [run EXCEPT !.status[at] = UnsentAction(s)] /\ UNCHANGED <<doubt, saved>>
       \/ s \notin InDoubt \cup Unsent /\ UNCHANGED <<run, doubt, saved>>
  /\ at' = at + 1
  /\ UNCHANGED <<phase, dev, devSaved, pc, cur, closing, turn, sql, reads, crashes, torn, failed, told>>

\* RECOVERED_READ_ONLY, and the last persist_run
Recovered ==
  /\ phase = "recovering" /\ (reads => at > MaxActions)
  /\ phase' = "up"
  /\ run' = IF ~reads THEN run
            ELSE [run EXCEPT !.unknown = doubt, !.inFlight = IF doubt THEN @ ELSE 0]
  /\ saved' = run'
  /\ UNCHANGED <<dev, devSaved, pc, cur, closing, turn, sql, at, reads, doubt, crashes, torn, failed, told>>

NewRun == [life |-> "RUNNING", status |-> [a \in Actions |-> "none"], unknown |-> FALSE, inFlight |-> 0]
Init ==
  /\ phase = "up" /\ run = NewRun /\ saved = NewRun       \* RUN_RECEIVED is stored
  /\ dev = [a \in Actions |-> "none"] /\ devSaved = dev
  /\ pc = "idle" /\ cur = 0 /\ closing = "none" /\ turn = <<>> /\ sql = <<>>
  /\ at = 1 /\ reads = FALSE /\ doubt = FALSE /\ crashes = 0 /\ torn = FALSE
  /\ failed = {} /\ told = "none"

Next ==
  \/ TakeTurn \/ Propose \/ Proposed \/ Authorized \/ Dispatched \/ Send \/ Commit
  \/ Acknowledge \/ Acknowledged \/ ReplyLost \/ Recorded \/ Query \/ QueryStored \/ Reconcile
  \/ Settle \/ SettleStored \/ RejectStored \/ End \/ EndStored \/ Persist \/ Persisted
  \/ EventFails \/ DeviceFails \/ EndFails \/ PersistFails \/ StopJob
  \/ Crash \/ Load \/ RecoverAction \/ Recovered
  \/ \E a \in Actions : Tick(a)
Spec == Init /\ [][Next]_vars
=============================================================================
