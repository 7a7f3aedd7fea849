---------------------------- MODULE RecoveryProofs ----------------------------
(* For any number of writes, crashes and failing saves: a write is on disk    *)
(* before the device sees it, a result on disk is the device's, the end a     *)
(* user was told of is kept, no open run is without a job, and a recovery     *)
(* leaves a record that agrees with itself. The argument follows each row of  *)
(* the run through the queue of saves: at most one coroutine waits in         *)
(* append_event, since its events are under run_lock. So no row is followed   *)
(* by an older one: what is on disk only advances.                            *)
EXTENDS RecoverySafety, SequenceTheorems, TLAPS

Row == [by : {"job", "close", "final"}, row : Records]
Item == Row \cup [by : {"device"}]
Queued == 1..Len(sql)
\* Who waits in append_event, and whose rows wait in the queue of saves.
Turn == IF pc \in JobEvents THEN <<"job">> ELSE IF closing = "RUN_FINISHED" THEN <<"close">> ELSE <<>>
QueueInv ==
  /\ turn = Turn
  /\ pc \in JobEvents => closing = "none"
  /\ \A i \in Queued : /\ sql[i].by = "job" => pc \in JobEvents
                       /\ sql[i].by = "close" => closing = "RUN_FINISHED"
                       /\ sql[i].by = "final" => closing = "persisting"
  /\ \A i, j \in Queued : sql[i].by # "device" /\ sql[j].by # "device" => i = j
\* A process that is down has no job, and nothing to save.
DownInv ==
  /\ phase # "up" => pc = "gone" /\ closing = "none" /\ sql = <<>>
  /\ phase = "down" => dev = devSaved
\* A run that is being ended is over; what a user was told is in every copy.
LifeInv ==
  /\ closing # "none" => run.life \in Ends
  /\ NoOrphan /\ (phase = "recovering" => Terminal(run))
  /\ \A i \in Queued : sql[i].by = "final" => sql[i].row.life = run.life
  /\ told # "none" => /\ run.life = told /\ saved.life = told
                      /\ \A i \in Queued : sql[i].by # "device" => sql[i].row.life = told
-----------------------------------------------------------------------------
LEMMA Grown ==
  ASSUME TypeOK, NEW x \in Item, sql' = Append(sql, x)
  PROVE  /\ sql' \in Seq(Item) /\ Len(sql) \in Nat /\ Len(sql') = Len(sql) + 1
         /\ \A i \in Queued : sql'[i] = sql[i]
         /\ sql'[Len(sql) + 1] = x
  BY AppendProperties, LenProperties DEF TypeOK, Item, Row, Queued

LEMMA Shrunk ==
  ASSUME TypeOK, sql # <<>>, sql' = Tail(sql)
  PROVE  /\ sql' \in Seq(Item) /\ Len(sql) \in Nat \ {0} /\ Len(sql') = Len(sql) - 1
         /\ \A i \in 1..(Len(sql) - 1) : sql'[i] = sql[i + 1]
         /\ sql[1] \in Item
<1>1. sql \in Seq(Item)
  BY DEF TypeOK, Item, Row
<1>2. Len(sql) \in Nat \ {0}
  BY <1>1, EmptySeq
<1>3. sql[1] \in Item
  BY <1>1, <1>2, ElementOfSeq
<1> QED  BY <1>1, <1>2, <1>3, HeadTailProperties

LEMMA HeadRow ==
  ASSUME TypeOK, sql # <<>>, sql[1].by # "device", sql' = Tail(sql)
  PROVE  sql[1].row \in Records
  BY Shrunk DEF Item, Row

\* The steps of the job in three groups.
Storing ==
  Proposed \/ Authorized \/ Dispatched \/ Acknowledged \/ Recorded \/ QueryStored \/ SettleStored
  \/ RejectStored
Entering == Propose \/ Acknowledge \/ ReplyLost \/ Query \/ Reconcile \/ Settle
Places == JobEvents \cup {"send", "query", "asking", "settle", "idle"}
LEMMA StoringStep ==
  ASSUME Storing
  PROVE  \E e \in JobEvents, f \in Places : JobStored(e) /\ Then(f) /\ f # "gone" /\ UNCHANGED cur
<1>1. CASE Proposed
  BY <1>1 DEF Proposed, Rejected, JobEvents, Places
<1>2. CASE Authorized
  BY <1>2 DEF Authorized, Rejected, JobEvents, Places
<1>3. CASE Dispatched \/ Acknowledged \/ Recorded \/ QueryStored \/ SettleStored \/ RejectStored
  BY <1>3 DEF Dispatched, Acknowledged, Recorded, QueryStored, SettleStored, RejectStored, JobEvents, Places
<1> QED  BY <1>1, <1>2, <1>3 DEF Storing
LEMMA EnteringStep ==
  ASSUME Entering
  PROVE  \E e \in JobEvents : Enter(e)
BY DEF Entering, Propose, Acknowledge, ReplyLost, Query, Reconcile, Settle, JobEvents

LEMMA NextGroups ==
  ASSUME [Next]_vars
  PROVE  \/ Storing \/ Entering \/ TakeTurn \/ Send \/ (\E a \in Actions : Tick(a)) \/ Commit
         \/ End \/ EndStored \/ Persist \/ Persisted
         \/ EventFails \/ DeviceFails \/ EndFails \/ PersistFails \/ StopJob
         \/ Crash \/ Load \/ RecoverAction \/ Recovered \/ UNCHANGED vars
  BY DEF Next, Storing, Entering
-----------------------------------------------------------------------------
LEMMA Marked ==
  ASSUME run \in Records, NEW i, NEW s \in Statuses
  PROVE  [run EXCEPT !.status[i] = s] \in Records
  BY DEF Records

LEMMA Resulted ==
  ASSUME run \in Records, NEW x
  PROVE  [run EXCEPT !.status[cur] = Reported(x), !.unknown = Reported(x) = "UNKNOWN"] \in Records
<1>1. Reported(x) \in Statuses /\ (Reported(x) = "UNKNOWN") \in BOOLEAN
  BY DEF Reported, Statuses
<1> QED  BY <1>1 DEF Records

LEMMA JobTyped ==
  ASSUME TypeOK, Storing \/ Entering
  PROVE  run' \in Records /\ cur' \in 0..MaxActions
<1> USE RecoveryAssumption DEF TypeOK
<1>1. CASE Proposed \/ Propose \/ Acknowledge
  <2>1. PICK s \in Statuses : run' = [run EXCEPT !.status[cur'] = s]
    BY <1>1 DEF Proposed, Rejected, Propose, Acknowledge, Mark, Statuses
  <2>2. cur' \in 0..MaxActions
    BY <1>1 DEF Proposed, Propose, Acknowledge
  <2> QED  BY <2>1, <2>2, Marked
<1>2. CASE Authorized
  <2>1. CASE Rejected
    BY <1>2, <2>1, Marked DEF Authorized, Rejected, Mark, Statuses
  <2>2. CASE run' = [run EXCEPT !.status[cur] = "DISPATCHED", !.inFlight = cur]
    BY <1>2, <2>2 DEF Authorized, Records, Statuses
  <2> QED  BY <1>2, <2>1, <2>2 DEF Authorized
<1>3. CASE Acknowledged \/ Reconcile
  <2>1. Result(Reported(dev[cur])) /\ UNCHANGED cur
    BY <1>3 DEF Acknowledged, Reconcile
  <2>2. run' \in Records
    BY <2>1, Resulted DEF Result
  <2> QED  BY <2>1, <2>2
<1>4. CASE ReplyLost
  <2>1. Reported("none") = "UNKNOWN"
    BY DEF Reported
  <2> QED  BY <1>4, <2>1, Resulted DEF ReplyLost, Result
<1>5. CASE Settle
  <2> DEFINE u == run.status[cur] = "UNKNOWN"
             f == IF u THEN run.inFlight ELSE 0
  <2>1. UNCHANGED cur /\ run' = [run EXCEPT !.unknown = u, !.inFlight = f]
    BY <1>5 DEF Settle
  <2>2. u \in BOOLEAN /\ f \in 0..MaxActions
    BY DEF Records
  <2> HIDE DEF u, f
  <2> QED  BY <2>1, <2>2 DEF Records
<1>6. CASE Dispatched \/ Recorded \/ QueryStored \/ SettleStored \/ RejectStored \/ Query
  BY <1>6 DEF Dispatched, Recorded, QueryStored, SettleStored, RejectStored, Query
<1> QED  BY <1>1, <1>2, <1>3, <1>4, <1>5, <1>6 DEF Storing, Entering

-----------------------------------------------------------------------------
LEMMA QueueStep ==
  ASSUME TypeOK, QueueInv, [Next]_vars
  PROVE  QueueInv'
<1> USE DEF QueueInv, Turn, Queued
<1>1. CASE Storing
  <2>1. PICK e \in JobEvents, f \in Places : JobStored(e) /\ Then(f)
    BY <1>1, StoringStep
  <2>2. sql' = Tail(sql) /\ sql # <<>> /\ sql[1].by = "job" /\ pc \in JobEvents /\ UNCHANGED closing
    BY <2>1 DEF JobStored, Saved
  <2>3. closing = "none" /\ turn = <<"job">>
    BY <2>2
  <2>4. \A i \in Queued' : sql'[i].by = "device"
    BY <2>2, Shrunk
  <2>5. pc' = f /\ turn' = IF f \in JobEvents THEN <<"job">> ELSE <<>>
    BY <2>1, <2>3 DEF Then
  <2> QED  BY <2>2, <2>3, <2>4, <2>5
<1>2. CASE Entering
  <2>1. PICK e \in JobEvents : Enter(e)
    BY <1>2, EnteringStep
  <2>2. /\ pc \notin JobEvents /\ closing = "none" /\ pc' = e /\ turn' = Append(turn, "job")
        /\ UNCHANGED <<closing, sql>>
    BY <2>1 DEF Enter, LockFree
  <2> QED  BY <2>2
<1>3. CASE TakeTurn
  <2>1. /\ turn # <<>> /\ \A i \in 1..Len(sql) : sql[i].by # turn[1]
        /\ sql' = Append(sql, [by |-> turn[1], row |-> run]) /\ UNCHANGED <<pc, closing, turn>>
    BY <1>3 DEF TakeTurn, Save
  <2> DEFINE x == [by |-> turn[1], row |-> run]
  <2>2. turn[1] \in {"job", "close"} /\ (turn[1] = "job" => pc \in JobEvents)
        /\ (turn[1] = "close" => pc \notin JobEvents /\ closing = "RUN_FINISHED")
    BY <2>1
  <2>3. x \in Item
    BY <2>2 DEF TypeOK, Item, Row
  <2>4. \A i \in Queued : sql[i].by = "device"
    BY <2>1, <2>2, Shrunk DEF TypeOK, Item, Row
  <2> QED  BY <2>1, <2>2, <2>3, <2>4, Grown
<1>4. CASE Send \/ \E a \in Actions : Tick(a)
  <2>1. /\ sql' = Append(sql, [by |-> "device"]) /\ UNCHANGED <<closing, turn>>
        /\ pc' = pc \/ (pc' \notin JobEvents /\ pc \notin JobEvents)
    BY <1>4 DEF Send, Tick, JobEvents
  <2>2. [by |-> "device"] \in Item
    BY DEF Item
  <2> QED  BY <2>1, <2>2, Grown
<1>5. CASE Commit \/ DeviceFails
  <2>1. /\ sql' = Tail(sql) /\ sql # <<>> /\ UNCHANGED <<closing, turn>>
        /\ pc' = pc \/ (pc' \notin JobEvents /\ pc \notin JobEvents)
    BY <1>5 DEF Commit, DeviceFails, Fails, JobEvents
  <2> QED  BY <2>1, Shrunk
<1>6. CASE End
  <2>1. /\ pc \notin JobEvents /\ closing = "none" /\ closing' = "RUN_FINISHED"
        /\ turn' = Append(turn, "close") /\ UNCHANGED <<sql, pc>>
    BY <1>6 DEF End, LockFree
  <2> QED  BY <2>1
<1>7. CASE EndStored \/ EndFails
  <2>1. /\ sql # <<>> /\ sql[1].by = "close" /\ sql' = Tail(sql) /\ turn' = Tail(turn)
        /\ closing' # "RUN_FINISHED" /\ UNCHANGED pc
    BY <1>7 DEF EndStored, Saved, EndFails, Unstored, Fails
  <2>2. closing = "RUN_FINISHED" /\ pc \notin JobEvents /\ turn = <<"close">>
    BY <2>1, Shrunk
  <2>3. \A i \in Queued' : sql'[i].by = "device"
    BY <2>1, Shrunk
  <2> QED  BY <2>1, <2>2, <2>3
<1>8. CASE Persist
  <2>1. /\ closing = "persist_run" /\ closing' = "persisting" /\ UNCHANGED <<pc, turn>>
        /\ sql' = Append(sql, [by |-> "final", row |-> run])
    BY <1>8 DEF Persist, Save
  <2>2. [by |-> "final", row |-> run] \in Item
    BY DEF TypeOK, Item, Row
  <2>3. pc \notin JobEvents /\ \A i \in Queued : sql[i].by = "device"
    BY <2>1, ElementOfSeq DEF TypeOK
  <2> QED  BY <2>1, <2>2, <2>3, Grown
<1>9. CASE Persisted \/ PersistFails
  <2>1. /\ sql # <<>> /\ sql[1].by = "final" /\ sql' = Tail(sql) /\ closing' = "none"
        /\ UNCHANGED <<pc, turn>>
    BY <1>9 DEF Persisted, Saved, PersistFails, Fails
  <2>2. closing = "persisting" /\ pc \notin JobEvents /\ turn = <<>>
    BY <2>1, Shrunk
  <2>3. \A i \in Queued' : sql'[i].by = "device"
    BY <2>1, Shrunk
  <2> QED  BY <2>1, <2>2, <2>3
<1>10. CASE EventFails
  <2>1. /\ sql # <<>> /\ sql[1].by = "job" /\ sql' = Tail(sql) /\ turn' = Tail(turn)
        /\ pc' = "raised" /\ UNCHANGED closing
    BY <1>10 DEF EventFails, Unstored, Fails
  <2>2. closing = "none" /\ turn = <<"job">> /\ "raised" \notin JobEvents
    BY <2>1, Shrunk DEF JobEvents
  <2>3. \A i \in Queued' : sql'[i].by = "device"
    BY <2>1, Shrunk
  <2> QED  BY <2>1, <2>2, <2>3
<1>11. CASE StopJob
  <2>1. /\ pc \notin JobEvents /\ closing = "none" /\ pc' = "gone" /\ UNCHANGED sql
        /\ \/ UNCHANGED <<closing, turn>>
           \/ closing' = "RUN_FINISHED" /\ turn' = Append(turn, "close")
    BY <1>11 DEF StopJob, Stopped, LockFree
  <2>2. "gone" \notin JobEvents
    BY DEF JobEvents
  <2> QED  BY <2>1, <2>2
<1>12. CASE Crash
  <2>1. pc' = "gone" /\ closing' = "none" /\ turn' = <<>> /\ sql' = <<>> /\ "gone" \notin JobEvents
    BY <1>12 DEF Crash, JobEvents
  <2> QED  BY <2>1
<1>13. CASE Load \/ RecoverAction \/ Recovered \/ UNCHANGED vars
  <2>1. UNCHANGED <<pc, closing, turn, sql>>
    BY <1>13 DEF Load, RecoverAction, Recovered, vars
  <2> QED  BY <2>1
<1> QED  BY NextGroups, <1>1, <1>2, <1>3, <1>4, <1>5, <1>6, <1>7, <1>8, <1>9, <1>10, <1>11, <1>12, <1>13

LEMMA TypeStep ==
  ASSUME TypeOK, QueueInv, LifeInv, [Next]_vars
  PROVE  TypeOK'
<1> DEFINE Seqs == Seq(Item)
<1>1. sql \in Seqs
  BY DEF TypeOK, Item, Row
<1>2. CASE Storing
  <2>1. PICK e \in JobEvents, f \in Places : JobStored(e) /\ Then(f)
    BY <1>2, StoringStep
  <2>2. saved' = sql[1].row /\ sql' = Tail(sql) /\ sql # <<>> /\ sql[1].by = "job"
    BY <2>1 DEF JobStored, Saved
  <2>3. saved' \in Records /\ sql' \in Seqs
    BY <2>2, HeadRow, Shrunk
  <2>4. UNCHANGED <<recovery, dev, devSaved, closing, told>>
    BY <2>1 DEF JobStored
  <2> QED  BY <1>2, <2>3, <2>4, JobTyped DEF TypeOK, Item, Row, recovery, process
<1>3. CASE Entering
  <2>1. UNCHANGED <<recovery, saved, dev, devSaved, closing, sql, told>>
    BY <1>3, EnteringStep DEF Enter
  <2> QED  BY <1>3, <2>1, JobTyped DEF TypeOK, recovery, process
<1>4. CASE TakeTurn \/ Persist
  <2>1. PICK by \in {"job", "close", "final"} : sql' = Append(sql, [by |-> by, row |-> run])
    <3>1. turn # <<>> => turn[1] \in {"job", "close"}
      BY DEF QueueInv, Turn
    <3> QED  BY <1>4, <3>1 DEF TakeTurn, Persist, Save
  <2>2. [by |-> by, row |-> run] \in Item
    BY DEF TypeOK, Item, Row
  <2>3. sql' \in Seqs
    BY <2>1, <2>2, Grown
  <2> QED  BY <1>4, <2>3 DEF TakeTurn, Persist, TypeOK, Item, Row, recovery, process
<1>5. CASE Send \/ \E a \in Actions : Tick(a)
  <2>1. [by |-> "device"] \in Item
    BY DEF Item
  <2>2. sql' \in Seqs
    BY <1>5, <2>1, Grown DEF Send, Tick
  <2>3. dev' \in DeviceRecords
    BY <1>5 DEF Send, Tick, TypeOK, DeviceRecords
  <2> QED  BY <1>5, <2>2, <2>3 DEF Send, Tick, TypeOK, Item, Row, recovery, process
<1>6. CASE Commit \/ DeviceFails
  <2>1. sql' \in Seqs
    BY <1>6, Shrunk DEF Commit, DeviceFails, Fails
  <2> QED  BY <1>6, <2>1 DEF Commit, DeviceFails, Fails, TypeOK, Item, Row, recovery, process
<1>7. CASE End \/ StopJob
  BY <1>7 DEF End, Tell, StopJob, Stopped, TypeOK, Records, Ends, recovery, process
<1>8. CASE EndStored \/ EndFails \/ EventFails \/ Persisted \/ PersistFails
  <2>1. /\ sql # <<>> /\ sql[1].by # "device" /\ sql' = Tail(sql) /\ saved' \in {saved, sql[1].row}
    BY <1>8 DEF EndStored, Saved, EndFails, Unstored, Fails, EventFails, Persisted, PersistFails
  <2>2. saved' \in Records /\ sql' \in Seqs
    BY <2>1, HeadRow, Shrunk DEF TypeOK
  <2>3. Persisted => run.life \in Ends
    BY Shrunk DEF Persisted, Saved, QueueInv, LifeInv, Queued
  <2> QED  BY <1>8, <2>2, <2>3 DEF EndStored, EndFails, EventFails, Persisted, PersistFails,
                                  Unstored, Fails, Saved, TypeOK, Item, Row, recovery, process
<1>9. CASE Crash
  <2>1. sql' \in Seqs
    BY <1>9, EmptySeq DEF Crash
  <2>2. 1 \in 1..(MaxActions + 1) /\ 0 \in 0..MaxActions
    BY RecoveryAssumption
  <2>3. torn' \in BOOLEAN
    BY <1>9 DEF Crash, TypeOK
  <2> QED  BY <1>9, <2>1, <2>2, <2>3 DEF Crash, TypeOK, Item, Row
<1>10. CASE Load
  BY <1>10 DEF Load, TypeOK, Records, DeviceRecords
<1>11. CASE RecoverAction
  <2>1. run' = run \/ \E s \in Statuses : run' = [run EXCEPT !.status[at] = s]
    BY <1>11 DEF RecoverAction, Statuses, Reported, UnsentAction
  <2>2. run' \in Records
    BY <2>1 DEF TypeOK, Records
  <2>3. saved' \in {saved, run'} /\ doubt' \in BOOLEAN
    BY <1>11 DEF RecoverAction, TypeOK
  <2>4. at' \in 1..(MaxActions + 1)
    BY <1>11, RecoveryAssumption DEF RecoverAction, TypeOK
  <2> QED  BY <1>11, <2>2, <2>3, <2>4 DEF RecoverAction, TypeOK
<1>12. CASE Recovered
  <2> DEFINE f == IF doubt THEN run.inFlight ELSE 0
  <2>1. run' = run \/ run' = [run EXCEPT !.unknown = doubt, !.inFlight = f]
    BY <1>12 DEF Recovered
  <2>2. doubt \in BOOLEAN /\ f \in 0..MaxActions
    BY RecoveryAssumption DEF TypeOK, Records
  <2> HIDE DEF f
  <2>3. run' \in Records
    BY <2>1, <2>2 DEF TypeOK, Records
  <2> QED  BY <1>12, <2>3 DEF Recovered, TypeOK
<1>13. CASE UNCHANGED vars
  BY <1>13 DEF vars, TypeOK
<1> QED  BY NextGroups, <1>2, <1>3, <1>4, <1>5, <1>6, <1>7, <1>8, <1>9, <1>10, <1>11, <1>12, <1>13
LEMMA JobLife ==
  ASSUME TypeOK, Storing \/ Entering
  PROVE  run'.life = run.life
<1>1. run \in Records
  BY DEF TypeOK
<1>2. CASE Storing
  BY <1>1, <1>2 DEF Storing, Proposed, Rejected, Authorized, Dispatched, Acknowledged, Recorded,
     QueryStored, SettleStored, RejectStored, Mark, Result, Records
<1>3. CASE Entering
  BY <1>1, <1>3 DEF Entering, Propose, Acknowledge, ReplyLost, Query, Reconcile, Settle, Mark,
     Result, Records
<1> QED  BY <1>2, <1>3

LEMMA DownStep ==
  ASSUME DownInv, [Next]_vars
  PROVE  DownInv'
<1> USE DEF DownInv
<1>1. CASE Storing
  BY <1>1, StoringStep DEF JobStored, Saved, recovery, process
<1>2. CASE Entering
  BY <1>2, EnteringStep DEF Enter, recovery, process
<1>3. CASE TakeTurn \/ Send \/ (\E a \in Actions : Tick(a)) \/ Commit \/ End \/ EndStored \/ Persist
           \/ Persisted
  BY <1>3 DEF TakeTurn, Send, Tick, Commit, End, EndStored, Persist, Persisted, Saved, recovery, process
<1>4. CASE EventFails \/ DeviceFails \/ EndFails \/ PersistFails \/ StopJob
  BY <1>4 DEF EventFails, DeviceFails, EndFails, PersistFails, StopJob, Unstored, Fails, recovery, process
<1>5. CASE Crash \/ Load \/ RecoverAction \/ Recovered \/ UNCHANGED vars
  BY <1>5 DEF Crash, Load, RecoverAction, Recovered, vars
<1> QED  BY NextGroups, <1>1, <1>2, <1>3, <1>4, <1>5

LEMMA LifeStep ==
  ASSUME TypeOK, QueueInv, DownInv, LifeInv, [Next]_vars
  PROVE  LifeInv'
<1> USE DEF LifeInv, NoOrphan, Queued, Terminal
<1>1. CASE Storing
  <2>1. PICK e \in JobEvents, f \in Places : JobStored(e) /\ Then(f) /\ f # "gone"
    BY <1>1, StoringStep
  <2>2. /\ sql # <<>> /\ sql[1].by = "job" /\ sql' = Tail(sql) /\ saved' = sql[1].row
        /\ pc' # "gone" /\ UNCHANGED <<phase, closing, told>> /\ phase = "up"
    BY <2>1 DEF JobStored, Saved, Then, recovery, process
  <2>3. run'.life = run.life
    BY <1>1, JobLife
  <2>4. 1 \in Queued /\ \A i \in Queued' : i + 1 \in Queued /\ sql'[i] = sql[i + 1]
    BY <2>2, Shrunk
  <2> QED  BY <2>2, <2>3, <2>4
<1>2. CASE Entering
  <2>1. PICK e \in JobEvents : Enter(e)
    BY <1>2, EnteringStep
  <2>2. pc' # "gone" /\ UNCHANGED <<phase, saved, closing, sql, told>> /\ phase = "up"
    BY <2>1 DEF Enter, recovery, process, JobEvents
  <2>3. run'.life = run.life
    BY <1>2, JobLife
  <2> QED  BY <2>2, <2>3
<1>3. CASE TakeTurn \/ Persist
  <2>1. PICK by \in {"job", "close", "final"} : sql' = Append(sql, [by |-> by, row |-> run])
    <3>1. turn # <<>> => turn[1] \in {"job", "close"}
      BY DEF QueueInv, Turn
    <3> QED  BY <1>3, <3>1 DEF TakeTurn, Persist, Save
  <2>2. [by |-> by, row |-> run] \in Item
    BY DEF TypeOK, Item, Row
  <2>3. UNCHANGED <<phase, run, saved, pc, told>> /\ (closing' # "none" => closing # "none")
    BY <1>3 DEF TakeTurn, Persist, recovery, process
  <2> QED  BY <2>1, <2>2, <2>3, Grown
<1>4. CASE Send \/ \E a \in Actions : Tick(a)
  <2>1. /\ sql' = Append(sql, [by |-> "device"]) /\ UNCHANGED <<phase, run, saved, closing, told>>
        /\ pc' = "gone" => pc = "gone"
    BY <1>4 DEF Send, Tick, recovery, process
  <2>2. [by |-> "device"] \in Item
    BY DEF Item
  <2> QED  BY <2>1, <2>2, Grown
<1>5. CASE Commit \/ DeviceFails
  <2>1. /\ sql' = Tail(sql) /\ sql # <<>> /\ UNCHANGED <<phase, run, saved, closing, told>>
        /\ pc' = "gone" => pc = "gone"
    BY <1>5 DEF Commit, DeviceFails, Fails, recovery, process
  <2>2. \A i \in Queued' : i + 1 \in Queued /\ sql'[i] = sql[i + 1]
    BY <2>1, Shrunk
  <2> QED  BY <2>1, <2>2
<1>6. CASE End \/ StopJob
  <2>1. /\ UNCHANGED <<phase, saved, sql, told>> /\ closing = "none" /\ phase = "up"
        /\ \/ UNCHANGED <<run, closing>> /\ (pc' = "gone" => pc = "gone" \/ Terminal(run))
           \/ ~Terminal(run) /\ \E l \in Ends : run' = [run EXCEPT !.life = l]
    BY <1>6 DEF End, Tell, StopJob, Stopped, LockFree, Ends, recovery, process
  <2>2. \A i \in Queued : sql[i].by # "final"
    BY <2>1 DEF QueueInv
  <2>3. ~Terminal(run) => told = "none"
    BY DEF TypeOK, Ends
  <2>4. \A l \in Ends : [run EXCEPT !.life = l].life = l
    BY DEF TypeOK, Records
  <2> QED  BY <2>1, <2>2, <2>3, <2>4 DEF Ends
<1>7. CASE EndStored \/ EndFails \/ EventFails \/ Persisted \/ PersistFails
  <2>1. /\ sql # <<>> /\ sql[1].by # "device" /\ sql' = Tail(sql) /\ saved' \in {saved, sql[1].row}
        /\ UNCHANGED <<phase, run>> /\ (pc' = "gone" => pc = "gone")
        /\ \/ UNCHANGED told
           \/ told' = run.life /\ sql[1].by = "final" /\ saved' = sql[1].row
    BY <1>7 DEF EndStored, Saved, EndFails, Unstored, Fails, EventFails, Persisted, PersistFails,
                recovery, process
  <2>2. 1 \in Queued /\ \A i \in Queued' : i + 1 \in Queued /\ sql'[i] = sql[i + 1]
    BY <2>1, Shrunk
  <2>3. \A i \in Queued' : sql'[i].by = "device"
    BY <2>1, <2>2, Shrunk DEF QueueInv
  <2>4. closing' # "none" => closing # "none"
    BY <1>7, <2>2 DEF EndStored, Saved, EndFails, EventFails, Persisted, PersistFails, QueueInv
  <2> QED  BY <2>1, <2>2, <2>3, <2>4
<1>8. CASE Crash
  BY <1>8, EmptySeq DEF Crash
<1>9. CASE Load
  <2>1. closing = "none" /\ sql = <<>> /\ UNCHANGED <<saved, closing, sql, told>> /\ phase' = "recovering"
    BY <1>9 DEF Load, DownInv
  <2>2. run' = IF Terminal(saved) THEN saved ELSE [saved EXCEPT !.life = "INTERRUPTED"]
    BY <1>9 DEF Load
  <2>3. told # "none" => Terminal(saved)
    BY DEF TypeOK, Ends
  <2>4. Terminal(run')
    BY <2>2 DEF TypeOK, Records
  <2> QED  BY <2>1, <2>2, <2>3, <2>4, EmptySeq
<1>10. CASE RecoverAction \/ Recovered
  <2>1. /\ closing = "none" /\ sql = <<>> /\ UNCHANGED <<closing, sql, told>>
        /\ phase = "recovering" /\ saved' \in {saved, run'}
    BY <1>10 DEF RecoverAction, Recovered, DownInv
  <2>2. run'.life = run.life
    BY <1>10 DEF RecoverAction, Recovered, TypeOK, Records
  <2> QED  BY <2>1, <2>2, EmptySeq
<1>11. CASE UNCHANGED vars
  BY <1>11 DEF vars
<1> QED  BY NextGroups, <1>1, <1>2, <1>3, <1>4, <1>5, <1>6, <1>7, <1>8, <1>9, <1>10, <1>11
-----------------------------------------------------------------------------
Results == {"APPLIED", "NOT_APPLIED"}
Sent == InDoubt \cup Results
\* What the device has seen is dispatched in every copy of the run, and the action of
\* the job is unknown to it until it is sent.
AheadInv ==
  /\ \A a \in Actions : dev[a] # "none" =>
       /\ run.status[a] \in Sent /\ saved.status[a] \in Sent
       /\ \A i \in Queued : sql[i].by # "device" => sql[i].row.status[a] \in Sent
  /\ \A a \in Actions : devSaved[a] # "none" => dev[a] # "none"
  /\ pc # "gone" => \A a \in Actions : a > cur => dev[a] = "none"
  /\ pc \in {"ACTION_PROPOSED", "AUTHORIZED", "DISPATCH", "send"} => cur \in Actions /\ dev[cur] = "none"
  /\ pc \in {"DISPATCH", "send"} =>
       /\ run.status[cur] \in Sent
       /\ \A i \in Queued : sql[i].by # "device" => sql[i].row.status[cur] \in Sent
  /\ pc = "send" => saved.status[cur] \in Sent

\* How a step of the job changes the statuses: only that of its action, to one the
\* device may know of, or before the device knows the action.
LEMMA JobStatus ==
  ASSUME TypeOK, AheadInv, Storing \/ Entering
  PROVE  /\ cur' = cur \/ (cur' = cur + 1 /\ pc' = "ACTION_PROPOSED" /\ pc # "gone")
         /\ \A a \in Actions : run'.status[a] = run.status[a]
                               \/ (a = cur' /\ (run'.status[a] \in Sent \/ dev[a] = "none"))
         /\ pc' \in {"AUTHORIZED", "DISPATCH", "send"} => pc \in {"ACTION_PROPOSED", "AUTHORIZED", "DISPATCH"}
         /\ pc' = "ACTION_PROPOSED" => cur' \in Actions /\ cur' = cur + 1 /\ pc # "gone"
         /\ pc' = "DISPATCH" => run'.status[cur] \in Sent
         /\ pc' = "send" => pc = "DISPATCH" /\ run' = run
<1> USE DEF AheadInv, TypeOK, Records, Sent, InDoubt, Results
<1>1. CASE Proposed
  BY <1>1 DEF Proposed, Rejected, Mark, JobStored, Then
<1>2. CASE Authorized
  <2>1. CASE Rejected
    BY <1>2, <2>1 DEF Authorized, Rejected, Mark, JobStored, Then
  <2>2. CASE run' = [run EXCEPT !.status[cur] = "DISPATCHED", !.inFlight = cur] /\ Then("DISPATCH")
    BY <1>2, <2>2 DEF Authorized, JobStored, Then
  <2> QED  BY <1>2, <2>1, <2>2 DEF Authorized
<1>3. CASE Propose
  BY <1>3, RecoveryAssumption DEF Propose, Enter, Mark, Actions
<1>4. CASE Acknowledge
  BY <1>4 DEF Acknowledge, Enter, Mark
<1>5. CASE Acknowledged \/ Reconcile
  <2>1. Result(Reported(dev[cur])) /\ Reported(dev[cur]) \in Sent /\ UNCHANGED cur
        /\ pc' = "TOOL_RESULT"
    BY <1>5 DEF Acknowledged, Reconcile, Reported, Enter, Then
  <2> QED  BY <2>1 DEF Result
<1>6. CASE ReplyLost
  BY <1>6 DEF ReplyLost, Result, Enter
<1>7. CASE Settle
  BY <1>7 DEF Settle, Enter
<1>8. CASE Dispatched
  BY <1>8 DEF Dispatched, JobStored, Then
<1>9. CASE Recorded \/ QueryStored \/ SettleStored \/ RejectStored
  BY <1>9 DEF Recorded, QueryStored, SettleStored, RejectStored, Then
<1>10. CASE Query
  BY <1>10 DEF Query, Enter
<1> QED  BY <1>1, <1>2, <1>3, <1>4, <1>5, <1>6, <1>7, <1>8, <1>9, <1>10 DEF Storing, Entering

LEMMA AheadStep ==
  ASSUME TypeOK, QueueInv, DownInv, AheadInv, [Next]_vars
  PROVE  AheadInv'
<1> USE DEF AheadInv, Queued
<1>1. CASE Storing
  <2>1. PICK e \in JobEvents, f \in Places : JobStored(e) /\ Then(f)
    BY <1>1, StoringStep
  <2>2. /\ sql # <<>> /\ sql[1].by = "job" /\ sql' = Tail(sql) /\ saved' = sql[1].row
        /\ UNCHANGED <<dev, devSaved>>
    BY <2>1 DEF JobStored, Saved
  <2>3. 1 \in Queued /\ \A i \in Queued' : sql'[i].by = "device"
    BY <2>2, Shrunk DEF QueueInv
  <2>4. pc # "gone" /\ UNCHANGED cur
    BY <1>1, <2>1, StoringStep DEF JobStored, JobEvents
  <2>5. \A a \in Actions : dev[a] # "none" => run'.status[a] \in Sent /\ saved'.status[a] \in Sent
    BY <1>1, JobStatus, <2>2, <2>3
  <2>6. pc' # "ACTION_PROPOSED"
    BY <1>1, JobStatus, <2>4 DEF TypeOK
  <2>7. pc' = "send" => saved'.status[cur] \in Sent
    BY <1>1, JobStatus, <2>2, <2>3
  <2>8. pc' \in {"AUTHORIZED", "DISPATCH", "send"} => cur \in Actions /\ dev[cur] = "none"
    BY <1>1, JobStatus
  <2>9. pc' \in {"DISPATCH", "send"} => run'.status[cur] \in Sent
    BY <1>1, JobStatus
  <2> HIDE DEF Queued
  <2> QED  BY <2>2, <2>3, <2>4, <2>5, <2>6, <2>7, <2>8, <2>9
<1>2. CASE Entering
  <2>1. PICK e \in JobEvents : Enter(e)
    BY <1>2, EnteringStep
  <2>2. UNCHANGED <<saved, sql, dev, devSaved>> /\ pc \notin JobEvents /\ pc' \in JobEvents
    BY <2>1 DEF Enter, LockFree
  <2>3. pc \notin {"ACTION_PROPOSED", "AUTHORIZED", "DISPATCH"} /\ pc' # "send"
    BY <2>2 DEF JobEvents
  <2>4. \A a \in Actions : dev[a] # "none" => run'.status[a] \in Sent
    BY <1>2, JobStatus
  <2>5. pc # "gone" \/ cur' = cur
    BY <1>2, JobStatus
  <2>6. pc # "gone"
    BY <1>2 DEF Entering, Propose, Acknowledge, ReplyLost, Query, Reconcile, Settle
  <2>7. pc' \notin {"AUTHORIZED", "DISPATCH", "send"}
    BY <1>2, JobStatus, <2>3
  <2>8. \A a \in Actions : a > cur' => dev[a] = "none"
    BY <1>2, JobStatus, <2>6 DEF Actions, TypeOK
  <2>9. pc' = "ACTION_PROPOSED" => cur' \in Actions /\ dev[cur'] = "none"
    BY <1>2, JobStatus, <2>6 DEF Actions, TypeOK
  <2> QED  BY <2>2, <2>3, <2>4, <2>7, <2>8, <2>9
<1>3. CASE TakeTurn \/ Persist
  <2>1. PICK by \in {"job", "close", "final"} : sql' = Append(sql, [by |-> by, row |-> run])
    <3>1. turn # <<>> => turn[1] \in {"job", "close"}
      BY DEF QueueInv, Turn
    <3> QED  BY <1>3, <3>1 DEF TakeTurn, Persist, Save
  <2>2. [by |-> by, row |-> run] \in Item
    BY DEF TypeOK, Item, Row
  <2>3. UNCHANGED <<run, saved, dev, devSaved, pc, cur>>
    BY <1>3 DEF TakeTurn, Persist
  <2>4. \A i \in Queued' : sql'[i].by # "device" => (i \in Queued /\ sql'[i] = sql[i]) \/ sql'[i].row = run
    BY <2>1, <2>2, Grown
  <2> HIDE DEF Queued
  <2> QED  BY <2>3, <2>4
<1>4. CASE Send \/ \E a \in Actions : Tick(a)
  <2>1. sql' = Append(sql, [by |-> "device"]) /\ UNCHANGED <<run, saved, devSaved, cur>>
    BY <1>4 DEF Send, Tick
  <2>2. [by |-> "device"] \in Item
    BY DEF Item
  <2>3. \A i \in Queued' : sql'[i].by # "device" => i \in Queued /\ sql'[i] = sql[i]
    BY <2>1, <2>2, Grown
  <2>4. \A a \in Actions : dev'[a] # "none" => dev[a] # "none" \/ (a = cur /\ pc = "send" /\ pc' = "device")
    BY <1>4 DEF Send, Tick, TypeOK, DeviceRecords
  <2>5. \A a \in Actions : dev'[a] = "none" => dev[a] = "none"
    BY <1>4 DEF Send, Tick, TypeOK, DeviceRecords
  <2>6. pc' = pc \/ (pc = "send" /\ pc' = "device")
    BY <1>4 DEF Send, Tick
  <2>7. \A a \in Actions : a > cur => a # cur
    BY DEF TypeOK, Actions
  <2>8. \A a \in Actions : dev'[a] # "none" =>
          /\ run'.status[a] \in Sent /\ saved'.status[a] \in Sent
          /\ \A i \in Queued' : sql'[i].by # "device" => sql'[i].row.status[a] \in Sent
    BY <2>1, <2>3, <2>4
  <2>9. pc' # "gone" => \A a \in Actions : a > cur => dev'[a] = "none"
    BY <2>4, <2>6, <2>7
  <2> HIDE DEF Queued
  <2> QED  BY <2>1, <2>3, <2>4, <2>5, <2>6, <2>8, <2>9
<1>5. CASE Commit \/ DeviceFails
  <2>1. /\ sql # <<>> /\ sql' = Tail(sql) /\ UNCHANGED <<run, saved, dev, cur>>
        /\ devSaved' \in {devSaved, dev}
        /\ pc' \in {pc, "replied", "lost", "raised"} /\ (pc = "gone" => pc' = "gone")
    BY <1>5 DEF Commit, DeviceFails, Fails
  <2>2. \A i \in Queued' : i + 1 \in Queued /\ sql'[i] = sql[i + 1]
    BY <2>1, Shrunk
  <2> HIDE DEF Queued
  <2> QED  BY <2>1, <2>2
<1>6. CASE End \/ StopJob
  <2>1. /\ UNCHANGED <<saved, dev, devSaved, cur, sql>> /\ (pc' = pc \/ pc' = "gone")
    BY <1>6 DEF End, StopJob
  <2>2. run'.status = run.status
    BY <1>6 DEF End, StopJob, Stopped, TypeOK, Records
  <2> QED  BY <2>1, <2>2
<1>7. CASE EndStored \/ EndFails \/ EventFails \/ Persisted \/ PersistFails
  <2>1. /\ sql # <<>> /\ sql[1].by # "device" /\ sql' = Tail(sql) /\ saved' \in {saved, sql[1].row}
        /\ UNCHANGED <<run, dev, devSaved, cur>> /\ (pc' = pc \/ (pc' = "raised" /\ pc # "gone"))
    BY <1>7, Shrunk DEF EndStored, Saved, EndFails, Unstored, Fails, EventFails, Persisted, PersistFails,
                QueueInv, JobEvents
  <2>2. 1 \in Queued /\ \A i \in Queued' : i + 1 \in Queued /\ sql'[i] = sql[i + 1]
    BY <2>1, Shrunk
  <2>3. pc' = "send" => pc = "send"
    BY <2>1
  <2> HIDE DEF Queued
  <2> QED  BY <2>1, <2>2, <2>3
<1>8. CASE Crash
  BY <1>8, EmptySeq DEF Crash
<1>9. CASE Load
  <2>1. /\ dev = devSaved /\ sql = <<>> /\ pc = "gone" /\ UNCHANGED <<saved, pc, cur, sql>> /\ devSaved' = dev'
    BY <1>9 DEF Load, DownInv
  <2>2. \A a \in Actions : dev'[a] # "none" => dev[a] # "none"
    BY <1>9, <2>1 DEF Load
  <2>3. run'.status = saved.status
    BY <1>9 DEF Load, TypeOK, Records
  <2> QED  BY <2>1, <2>2, <2>3, EmptySeq
<1>10. CASE RecoverAction \/ Recovered
  <2>1. /\ sql = <<>> /\ pc = "gone" /\ UNCHANGED <<dev, devSaved, pc, cur, sql>> /\ saved' \in {saved, run'}
    BY <1>10 DEF RecoverAction, Recovered, DownInv
  <2>2. \A a \in Actions : dev[a] # "none" => run'.status[a] \in Sent
    <3>1. CASE RecoverAction
      BY <3>1 DEF RecoverAction, Reported, UnsentAction, TypeOK, Records, Sent, InDoubt, Results, Unsent
    <3>2. CASE Recovered
      BY <3>2 DEF Recovered, TypeOK, Records
    <3> QED  BY <1>10, <3>1, <3>2
  <2> QED  BY <2>1, <2>2, EmptySeq
<1>11. CASE UNCHANGED vars
  BY <1>11 DEF vars
<1> QED  BY NextGroups, <1>1, <1>2, <1>3, <1>4, <1>5, <1>6, <1>7, <1>8, <1>9, <1>10, <1>11
-----------------------------------------------------------------------------
\* While the device's own saves succeed: what it has not saved is in the queue, ahead
\* of every row of the run that holds a result of it.
Busy == \E j \in Queued : sql[j].by = "device"
DiskInv ==
  "device" \notin failed => \A a \in Actions :
    /\ dev[a] # devSaved[a] => Busy
    /\ devSaved[a] \in Results => dev[a] = devSaved[a]
    /\ run.status[a] \in Results => dev[a] = run.status[a]
    /\ saved.status[a] \in Results => devSaved[a] = saved.status[a]
    /\ \A k \in Queued : sql[k].by # "device" /\ sql[k].row.status[a] \in Results =>
         /\ dev[a] = sql[k].row.status[a]
         /\ devSaved[a] # dev[a] => \E j \in Queued : j < k /\ sql[j].by = "device"

LEMMA JobResult ==
  ASSUME TypeOK, Storing \/ Entering
  PROVE  \A a \in Actions : run'.status[a] = run.status[a] \/ run'.status[a] \notin Results
                            \/ run'.status[a] = dev[a]
<1> USE DEF TypeOK, Records, Results
<1>1. CASE Proposed \/ Propose \/ Acknowledge
  BY <1>1 DEF Proposed, Rejected, Propose, Acknowledge, Mark
<1>2. CASE Authorized
  BY <1>2 DEF Authorized, Rejected, Mark
<1>3. CASE Acknowledged \/ Reconcile
  <2>1. Result(Reported(dev[cur])) /\ (Reported(dev[cur]) = dev[cur] \/ Reported(dev[cur]) = "UNKNOWN")
    BY <1>3 DEF Acknowledged, Reconcile, Reported
  <2> QED  BY <2>1 DEF Result
<1>4. CASE ReplyLost
  BY <1>4 DEF ReplyLost, Result
<1>5. CASE Settle
  BY <1>5 DEF Settle
<1>6. CASE Dispatched \/ Recorded \/ QueryStored \/ SettleStored \/ RejectStored \/ Query
  BY <1>6 DEF Dispatched, Recorded, QueryStored, SettleStored, RejectStored, Query
<1> QED  BY <1>1, <1>2, <1>3, <1>4, <1>5, <1>6 DEF Storing, Entering

LEMMA DiskStep ==
  ASSUME TypeOK, QueueInv, DownInv, AheadInv, DiskInv, [Next]_vars
  PROVE  DiskInv'
<1> USE DEF DiskInv
<1>1. CASE Storing \/ EndStored \/ EndFails \/ EventFails \/ Persisted \/ PersistFails
  <2>1. /\ sql # <<>> /\ sql[1].by # "device" /\ sql' = Tail(sql) /\ saved' \in {saved, sql[1].row}
        /\ UNCHANGED <<dev, devSaved>> /\ ("device" \in failed => "device" \in failed')
    <3>1. CASE Storing
      BY <3>1, StoringStep DEF JobStored, Saved, recovery
    <3>2. CASE EndStored \/ EndFails \/ EventFails \/ Persisted \/ PersistFails
      BY <3>2 DEF EndStored, Saved, EndFails, Unstored, Fails, EventFails, Persisted, PersistFails, recovery
    <3> QED  BY <1>1, <3>1, <3>2
  <2>2. \A a \in Actions : run'.status[a] = run.status[a] \/ run'.status[a] \notin Results
                           \/ run'.status[a] = dev[a]
    BY <1>1, JobResult DEF EndStored, EndFails, EventFails, Persisted, PersistFails
  <2>3. 1 \in Queued /\ \A k \in Queued' : k + 1 \in Queued /\ sql'[k] = sql[k + 1]
    BY <2>1, Shrunk DEF Queued
  <2>4. \A j \in Queued : sql[j].by = "device" => j - 1 \in Queued' /\ sql'[j - 1] = sql[j]
    BY <2>1, Shrunk DEF Queued
  <2>5. \A j \in Queued : ~(j < 1) /\ j \in Int
    BY DEF Queued
  <2>6. \A k \in Queued' : k \in Int
    BY DEF Queued
  <2>7. Busy => Busy'
    BY <2>4 DEF Busy
  <2>8. "device" \notin failed' => \A a \in Actions : saved'.status[a] \in Results => devSaved[a] = saved'.status[a]
    BY <2>1, <2>3, <2>5
  <2>9. "device" \notin failed' => \A a \in Actions : \A k \in Queued' :
          sql'[k].by # "device" /\ sql'[k].row.status[a] \in Results =>
            /\ dev[a] = sql'[k].row.status[a]
            /\ devSaved[a] # dev[a] => \E j \in Queued' : j < k /\ sql'[j].by = "device"
    <3> SUFFICES ASSUME "device" \notin failed', NEW a \in Actions, NEW k \in Queued',
                        sql'[k].by # "device", sql'[k].row.status[a] \in Results
                 PROVE  /\ dev[a] = sql'[k].row.status[a]
                        /\ devSaved[a] # dev[a] => \E j \in Queued' : j < k /\ sql'[j].by = "device"
      OBVIOUS
    <3>1. dev[a] = sql'[k].row.status[a]
          /\ (devSaved[a] # dev[a] => \E j \in Queued : j < k + 1 /\ sql[j].by = "device")
      BY <2>1, <2>3
    <3>2. ASSUME NEW j \in Queued, j < k + 1, sql[j].by = "device"
          PROVE  j - 1 \in Queued' /\ j - 1 < k /\ sql'[j - 1].by = "device"
      BY <3>2, <2>4, <2>5, <2>6
    <3> QED  BY <3>1, <3>2
  <2> QED  BY <2>1, <2>2, <2>7, <2>8, <2>9
<1>2. CASE Entering \/ End \/ StopJob
  <2>1. UNCHANGED <<saved, sql, dev, devSaved, failed>>
    BY <1>2, EnteringStep DEF Enter, End, StopJob, recovery
  <2>2. \A a \in Actions : run'.status[a] = run.status[a] \/ run'.status[a] \notin Results
                           \/ run'.status[a] = dev[a]
    BY <1>2, JobResult DEF End, StopJob, Stopped, TypeOK, Records
  <2> QED  BY <2>1, <2>2 DEF Busy, Queued
<1>3. CASE TakeTurn \/ Persist
  <2>1. PICK by \in {"job", "close", "final"} : sql' = Append(sql, [by |-> by, row |-> run])
    <3>1. turn # <<>> => turn[1] \in {"job", "close"}
      BY DEF QueueInv, Turn
    <3> QED  BY <1>3, <3>1 DEF TakeTurn, Persist, Save
  <2>2. [by |-> by, row |-> run] \in Item
    BY DEF TypeOK, Item, Row
  <2>3. UNCHANGED <<run, saved, dev, devSaved, failed>>
    BY <1>3 DEF TakeTurn, Persist, recovery
  <2>4. /\ \A i \in Queued : i \in Queued' /\ sql'[i] = sql[i]
        /\ \A i \in Queued' : i \in Queued \/ (sql'[i].row = run /\ \A j \in Queued : j < i)
    BY <2>1, <2>2, Grown DEF Queued
  <2> QED  BY <2>3, <2>4 DEF Busy
<1>4. CASE Send \/ \E a \in Actions : Tick(a)
  <2>1. sql' = Append(sql, [by |-> "device"]) /\ UNCHANGED <<run, saved, devSaved, failed>>
    BY <1>4 DEF Send, Tick, recovery
  <2>2. [by |-> "device"] \in Item
    BY DEF Item
  <2>3. /\ \A i \in Queued : i \in Queued' /\ sql'[i] = sql[i]
        /\ \A i \in Queued' : i \in Queued \/ sql'[i].by = "device"
        /\ Len(sql) + 1 \in Queued' /\ sql'[Len(sql) + 1].by = "device"
    BY <2>1, <2>2, Grown DEF Queued
  <2>4. \A a \in Actions : dev[a] \in Results => dev'[a] = dev[a]
    BY <1>4 DEF Send, Tick, TypeOK, DeviceRecords, AheadInv, Results
  <2>5. Busy'
    BY <2>3 DEF Busy
  <2>6. \A a \in Actions : \A x \in Results : dev[a] = x => dev'[a] = x
    BY <2>4
  <2>7. "device" \notin failed => ~Busy
    BY <1>4 DEF Send, Tick, DeviceBusy, Busy, Queued
  <2>8. "device" \notin failed => \A a \in Actions :
          /\ dev[a] = devSaved[a] /\ (devSaved[a] \in Results => dev'[a] = devSaved[a])
          /\ run.status[a] \in Results => dev'[a] = run.status[a]
          /\ \A k \in Queued : sql[k].by # "device" /\ sql[k].row.status[a] \in Results =>
               dev'[a] = sql[k].row.status[a] /\ dev'[a] = devSaved[a]
    BY <2>6, <2>7
  <2> HIDE DEF DiskInv
  <2>9. "device" \notin failed => \A a \in Actions : saved.status[a] \in Results => devSaved[a] = saved.status[a]
    BY DEF DiskInv
  <2>10. \A k \in Queued' : sql'[k].by # "device" => k \in Queued /\ sql'[k] = sql[k]
    BY <2>3
  <2>11. "device" \notin failed => \A a \in Actions, k \in Queued' :
           sql'[k].by # "device" /\ sql'[k].row.status[a] \in Results =>
             dev'[a] = sql'[k].row.status[a] /\ dev'[a] = devSaved[a]
    BY <2>8, <2>10
  <2> QED  BY <2>1, <2>5, <2>8, <2>9, <2>11 DEF DiskInv
<1>5. CASE Commit
  <2>1. /\ sql # <<>> /\ sql' = Tail(sql) /\ UNCHANGED <<run, saved, dev, failed>> /\ devSaved' = dev
    BY <1>5 DEF Commit, recovery
  <2>2. \A i \in Queued' : i + 1 \in Queued /\ sql'[i] = sql[i + 1]
    BY <2>1, Shrunk DEF Queued
  <2> QED  BY <2>1, <2>2
<1>6. CASE DeviceFails
  BY <1>6 DEF DeviceFails, Fails
<1>7. CASE Crash
  BY <1>7, EmptySeq DEF Crash, Queued
<1>8. CASE Load
  <2>1. /\ dev = devSaved /\ sql = <<>> /\ UNCHANGED <<saved, sql, failed>> /\ devSaved' = dev'
    BY <1>8 DEF Load, DownInv
  <2>2. \A a \in Actions : dev[a] \in Results => dev'[a] = dev[a]
    BY <1>8, <2>1 DEF Load, Results
  <2>3. run'.status = saved.status
    BY <1>8 DEF Load, TypeOK, Records
  <2> QED  BY <2>1, <2>2, <2>3, EmptySeq DEF Queued
<1>9. CASE RecoverAction \/ Recovered
  <2>1. /\ sql = <<>> /\ UNCHANGED <<dev, devSaved, sql, failed>> /\ saved' \in {saved, run'}
    BY <1>9 DEF RecoverAction, Recovered, DownInv
  <2>2. \A a \in Actions : run'.status[a] = run.status[a] \/ run'.status[a] \notin Results
                           \/ run'.status[a] = dev[a]
    <3>1. CASE RecoverAction
      BY <3>1 DEF RecoverAction, Reported, UnsentAction, TypeOK, Records, Results
    <3>2. CASE Recovered
      BY <3>2 DEF Recovered, TypeOK, Records
    <3> QED  BY <1>9, <3>1, <3>2
  <2>3. ~Busy
    BY <2>1, EmptySeq DEF Busy, Queued
  <2> QED  BY <2>1, <2>2, <2>3, EmptySeq DEF Queued
<1>10. CASE UNCHANGED vars
  BY <1>10 DEF vars, Queued, Busy
<1> QED  BY NextGroups, <1>1, <1>2, <1>3, <1>4, <1>5, <1>6, <1>7, <1>8, <1>9, <1>10
-----------------------------------------------------------------------------
\* What a copy of the run says of its own action in flight, and whether it is whole.
InFlight(r) == \A a \in Actions : r.status[a] \in InDoubt => a = r.inFlight
Exact(r) == r.unknown <=> \E a \in Actions : r.status[a] = "UNKNOWN"
Halfway == Unsent \cup {"DISPATCHED", "ACKNOWLEDGED"}
Whole(r) == Exact(r) /\ (r.life = "INTERRUPTED" => \A a \in Actions : r.status[a] \notin Halfway)
\* Every copy tells the action in doubt by in_flight_action_id.
FlightInv ==
  /\ InFlight(run) /\ InFlight(saved)
  /\ \A i \in Queued : sql[i].by # "device" => InFlight(sql[i].row)
\* Every copy is whole, unless a recovery is under way or was cut off.
WholeInv ==
  ~torn /\ phase # "recovering" =>
    /\ Whole(run) /\ Whole(saved)
    /\ \A i \in Queued : sql[i].by # "device" => Whole(sql[i].row)
\* Where the job's action stands.
Sending == {"DISPATCH", "send", "device", "replied", "lost"}
Known == {"TOOL_RESULT", "settle"}
Asking == {"query", "RECONCILE_ATTEMPT", "asking"}
StandInv ==
  /\ pc # "gone" => run.life # "INTERRUPTED"
  /\ pc \notin {"gone", "raised"} => \A a \in Actions : a > cur => run.status[a] = "none"
  /\ pc \in {"ACTION_PROPOSED", "AUTHORIZED", "ACKNOWLEDGED"} \cup Sending \cup Known \cup Asking => cur \in Actions
  /\ pc = "ACTION_PROPOSED" => run.status[cur] = "PROPOSED"
  /\ pc = "AUTHORIZED" => run.status[cur] = "AUTHORIZED" /\ run.inFlight = 0
  /\ pc \in Sending => run.status[cur] = "DISPATCHED" /\ run.inFlight = cur
  /\ pc = "ACKNOWLEDGED" => run.status[cur] = "ACKNOWLEDGED" /\ run.inFlight = cur
  /\ pc \in Known => run.status[cur] \in Results \cup {"UNKNOWN"} /\ run.inFlight = cur
  /\ pc \in Asking => run.status[cur] = "UNKNOWN" /\ run.inFlight = cur
\* What a recovery has looked at.
ReadInv ==
  /\ phase = "down" => at = 1 /\ ~doubt /\ run = saved
  /\ phase = "recovering" =>
       /\ doubt => \E a \in Actions : a < at /\ run.status[a] = "UNKNOWN"
       /\ ~reads /\ ~torn => Whole(run)
       /\ reads => \A a \in Actions : a < at =>
            run.status[a] \notin Halfway /\ (run.status[a] = "UNKNOWN" => doubt)

\* A step that gives one action another status, neither of them UNKNOWN.
LEMMA OneStatus ==
  ASSUME TypeOK, NEW i \in Actions, NEW s \in Statuses, run' = [run EXCEPT !.status[i] = s]
  PROVE  /\ run'.status[i] = s /\ \A a \in Actions : a # i => run'.status[a] = run.status[a]
         /\ run'.inFlight = run.inFlight /\ run'.life = run.life /\ run'.unknown = run.unknown
         /\ (s \notin InDoubt \/ run.inFlight = i) /\ InFlight(run) => InFlight(run')
         /\ Exact(run) /\ s # "UNKNOWN" /\ run.status[i] # "UNKNOWN" => Exact(run')
<1>1. /\ run'.status[i] = s /\ \A a \in Actions : a # i => run'.status[a] = run.status[a]
      /\ run'.inFlight = run.inFlight /\ run'.life = run.life /\ run'.unknown = run.unknown
  BY DEF TypeOK, Records
<1> QED  BY <1>1 DEF InFlight, Exact

\* A result of the action in flight.
LEMMA OneResult ==
  ASSUME TypeOK, InFlight(run), NEW x, run.inFlight \in Actions, cur = run.inFlight, Result(Reported(x))
  PROVE  /\ run'.status[cur] = Reported(x) /\ \A a \in Actions : a # cur => run'.status[a] = run.status[a]
         /\ Reported(x) \in Results \cup {"UNKNOWN"} /\ run'.inFlight = run.inFlight
         /\ run'.life = run.life /\ InFlight(run') /\ Exact(run')
<1>1. /\ run'.status[cur] = Reported(x) /\ \A a \in Actions : a # cur => run'.status[a] = run.status[a]
      /\ run'.inFlight = run.inFlight /\ run'.life = run.life /\ run'.unknown = (Reported(x) = "UNKNOWN")
  BY DEF TypeOK, Records, Result
<1>2. Reported(x) \in Results \cup {"UNKNOWN"}
  BY DEF Reported, Results
<1>3. \A a \in Actions : a # cur => run.status[a] # "UNKNOWN"
  BY DEF InFlight, InDoubt
<1> QED  BY <1>1, <1>2, <1>3 DEF InFlight, Exact

LEMMA JobStand ==
  ASSUME TypeOK, StandInv, InFlight(run), Storing \/ Entering
  PROVE  StandInv' /\ InFlight(run') /\ (Exact(run) => Exact(run'))
<1> USE DEF StandInv, Sending, Known, Asking
<1>1. pc \notin {"gone", "raised"} /\ run'.life = run.life /\ run \in Records /\ cur \in 0..MaxActions
  BY JobLife DEF Storing, Entering, Proposed, Authorized, Dispatched, Acknowledged, Recorded, QueryStored,
     SettleStored, RejectStored, JobStored, Propose, Acknowledge, ReplyLost, Query, Reconcile, Settle, TypeOK
<1>2. ASSUME pc \in {"ACTION_PROPOSED", "AUTHORIZED"}, UNCHANGED cur, Rejected
      PROVE  StandInv' /\ InFlight(run') /\ (Exact(run) => Exact(run'))
  <2>1. run' = [run EXCEPT !.status[cur] = "REJECTED"] /\ pc' = "ACTION_REJECTED" /\ cur \in Actions
    BY <1>2 DEF Rejected, Mark, Then
  <2>2. "REJECTED" \in Statuses /\ "REJECTED" \notin InDoubt /\ run.status[cur] # "UNKNOWN"
    BY <1>2 DEF Statuses, InDoubt
  <2>3. \A a \in Actions : a > cur => a # cur
    BY <1>1 DEF Actions
  <2> QED  BY <1>1, <1>2, <2>1, <2>2, <2>3, OneStatus
<1>3. CASE Proposed
  <2>1. pc = "ACTION_PROPOSED" /\ UNCHANGED cur /\ cur \in Actions
    BY <1>3 DEF Proposed, JobStored
  <2>2. CASE Rejected  BY <1>2, <2>1, <2>2
  <2>3. CASE NothingOutstanding /\ Mark("AUTHORIZED") /\ Then("AUTHORIZED")
    <3>1. run' = [run EXCEPT !.status[cur] = "AUTHORIZED"] /\ pc' = "AUTHORIZED" /\ run.inFlight = 0
      BY <2>1, <2>3 DEF Mark, Then, NothingOutstanding
    <3>2. "AUTHORIZED" \in Statuses /\ "AUTHORIZED" \notin InDoubt /\ run.status[cur] # "UNKNOWN"
      BY <2>1 DEF Statuses, InDoubt
    <3>3. \A a \in Actions : a > cur => a # cur
      BY <1>1 DEF Actions
    <3> QED  BY <1>1, <2>1, <3>1, <3>2, <3>3, OneStatus
  <2> QED  BY <1>3, <2>2, <2>3 DEF Proposed
<1>4. CASE Authorized
  <2>1. pc = "AUTHORIZED" /\ UNCHANGED cur /\ cur \in Actions
    BY <1>4 DEF Authorized, JobStored
  <2>2. CASE Rejected  BY <1>2, <2>1, <2>2
  <2>3. CASE run' = [run EXCEPT !.status[cur] = "DISPATCHED", !.inFlight = cur] /\ Then("DISPATCH")
    <3>1. /\ run'.status[cur] = "DISPATCHED" /\ \A a \in Actions : a # cur => run'.status[a] = run.status[a]
          /\ run'.inFlight = cur /\ run'.unknown = run.unknown /\ pc' = "DISPATCH"
      BY <2>1, <2>3, <1>1 DEF Records, Then
    <3>2. \A a \in Actions : run.status[a] \notin InDoubt
      BY <2>1, RecoveryAssumption DEF InFlight, Actions
    <3>3. \A a \in Actions : a > cur => a # cur
      BY <1>1 DEF Actions
    <3> QED  BY <1>1, <2>1, <3>1, <3>2, <3>3 DEF InFlight, Exact, InDoubt
  <2> QED  BY <1>4, <2>2, <2>3 DEF Authorized
<1>5. CASE Propose
  <2>1. pc = "idle" /\ pc' = "ACTION_PROPOSED" /\ cur' = cur + 1 /\ cur' \in Actions /\ cur' > cur
        /\ run' = [run EXCEPT !.status[cur'] = "PROPOSED"]
    BY <1>1, <1>5, RecoveryAssumption DEF Propose, Enter, Mark, Actions
  <2>2. run.status[cur'] = "none" /\ "PROPOSED" \in Statuses /\ "PROPOSED" \notin InDoubt
    BY <1>1, <2>1 DEF Statuses, InDoubt
  <2>3. \A a \in Actions : a > cur' => a > cur /\ a # cur'
    BY <1>1, <2>1 DEF Actions
  <2> QED  BY <1>1, <2>1, <2>2, <2>3, OneStatus
<1>6. CASE Acknowledge
  <2>1. pc = "replied" /\ pc' = "ACKNOWLEDGED" /\ UNCHANGED cur /\ cur \in Actions
        /\ run' = [run EXCEPT !.status[cur] = "ACKNOWLEDGED"]
    BY <1>6 DEF Acknowledge, Enter, Mark
  <2>2. "ACKNOWLEDGED" \in Statuses /\ run.status[cur] # "UNKNOWN"
    BY <2>1 DEF Statuses
  <2>3. \A a \in Actions : a > cur => a # cur
    BY <1>1 DEF Actions
  <2> QED  BY <1>1, <2>1, <2>2, <2>3, OneStatus
<1>7. ASSUME Acknowledged \/ ReplyLost \/ Reconcile
      PROVE  StandInv' /\ InFlight(run') /\ (Exact(run) => Exact(run'))
  <2>1. /\ pc \in {"ACKNOWLEDGED", "lost", "asking"} /\ pc' = "TOOL_RESULT" /\ UNCHANGED cur
        /\ \E x : Result(Reported(x))
    <3>1. Reported("UNKNOWN") = "UNKNOWN"
      BY DEF Reported
    <3>2. CASE Acknowledged \/ Reconcile
      BY <3>2 DEF Acknowledged, Reconcile, JobStored, Enter, Then
    <3>3. CASE ReplyLost
      BY <3>1, <3>3 DEF ReplyLost, Enter
    <3> QED  BY <1>7, <3>2, <3>3
  <2>2. PICK x : Result(Reported(x))
    BY <2>1
  <2>3. cur \in Actions /\ cur = run.inFlight
    BY <2>1
  <2>4. \A a \in Actions : a > cur => a # cur
    BY <1>1 DEF Actions
  <2>5. /\ run'.status[cur] \in Results \cup {"UNKNOWN"} /\ \A a \in Actions : a # cur => run'.status[a] = run.status[a]
        /\ run'.inFlight = cur /\ InFlight(run') /\ Exact(run')
    BY <2>2, <2>3, OneResult
  <2> QED  BY <1>1, <2>1, <2>3, <2>4, <2>5
<1>8. CASE Settle
  <2>1. /\ pc = "settle" /\ pc' = "ACTION_SETTLED" /\ UNCHANGED cur /\ cur \in Actions
        /\ run'.status = run.status /\ run'.unknown = (run.status[cur] = "UNKNOWN")
        /\ run'.inFlight = IF run.status[cur] = "UNKNOWN" THEN run.inFlight ELSE 0
    BY <1>1, <1>8 DEF Settle, Enter, Records
  <2>2. \A a \in Actions : run.status[a] \in InDoubt => a = cur /\ run.status[cur] = "UNKNOWN"
    BY <2>1 DEF InFlight, InDoubt, Results
  <2>3. InFlight(run') /\ Exact(run')
    BY <2>1, <2>2 DEF InFlight, Exact, InDoubt
  <2> QED  BY <1>1, <2>1, <2>3
<1>9. CASE Dispatched \/ Recorded \/ QueryStored \/ SettleStored \/ RejectStored \/ Query
  <2>1. UNCHANGED <<run, cur>>
    BY <1>9 DEF Dispatched, Recorded, QueryStored, SettleStored, RejectStored, Query
  <2>2. \/ pc = "DISPATCH" /\ pc' = "send"
        \/ pc = "TOOL_RESULT" /\ pc' = "query" /\ run.status[cur] = "UNKNOWN"
        \/ pc = "TOOL_RESULT" /\ pc' = "settle"
        \/ pc = "query" /\ pc' = "RECONCILE_ATTEMPT"
        \/ pc = "RECONCILE_ATTEMPT" /\ pc' = "asking"
        \/ pc' = "idle"
    BY <1>9 DEF Dispatched, Recorded, QueryStored, SettleStored, RejectStored, Query, JobStored, Then, Enter
  <2> QED  BY <1>1, <2>1, <2>2
<1> QED  BY <1>3, <1>4, <1>5, <1>6, <1>7, <1>8, <1>9 DEF Storing, Entering

DoubtInv == FlightInv /\ WholeInv /\ StandInv /\ ReadInv

LEMMA JobDoubt ==
  ASSUME TypeOK, QueueInv, DownInv, DoubtInv, Storing \/ Entering
  PROVE  DoubtInv'
<1> USE DEF DoubtInv, FlightInv, WholeInv
<1>1. StandInv' /\ InFlight(run') /\ (Exact(run) => Exact(run'))
  BY JobStand
<1>2. /\ pc # "gone" /\ phase = "up" /\ UNCHANGED <<phase, torn>> /\ run'.life = run.life
      /\ run.life # "INTERRUPTED"
  BY JobLife DEF Storing, Entering, Proposed, Authorized, Dispatched, Acknowledged, Recorded, QueryStored,
     SettleStored, RejectStored, JobStored, Propose, Acknowledge, ReplyLost, Query, Reconcile, Settle,
     DownInv, StandInv, Enter, recovery, process
<1>3. ReadInv'
  BY <1>2 DEF ReadInv
<1>4. Whole(run) => Whole(run')
  BY <1>1, <1>2 DEF Whole
<1>5. CASE Storing
  <2>1. sql # <<>> /\ sql[1].by = "job" /\ sql' = Tail(sql) /\ saved' = sql[1].row
    BY <1>5, StoringStep DEF JobStored, Saved
  <2>2. 1 \in Queued /\ \A i \in Queued' : sql'[i].by = "device"
    BY <2>1, Shrunk DEF QueueInv, Queued
  <2> QED  BY <1>1, <1>2, <1>3, <1>4, <2>1, <2>2
<1>6. CASE Entering
  <2>1. UNCHANGED <<saved, sql>> /\ Queued' = Queued
    BY <1>6, EnteringStep DEF Enter, Queued
  <2> QED  BY <1>1, <1>2, <1>3, <1>4, <2>1
<1> QED  BY <1>5, <1>6

LEMMA RecoveryDoubt ==
  ASSUME TypeOK, DownInv, DoubtInv, Crash \/ Load \/ RecoverAction \/ Recovered
  PROVE  DoubtInv'
<1> USE DEF DoubtInv, FlightInv, WholeInv
<1>1. CASE Crash
  <2>1. Queued' = {}
    BY <1>1, EmptySeq DEF Crash, Queued
  <2>2. StandInv' /\ ReadInv'
    BY <1>1 DEF Crash, StandInv, ReadInv, Sending, Known, Asking
  <2>3. run' = saved /\ saved' = saved /\ (~torn' => ~torn /\ phase # "recovering")
    BY <1>1 DEF Crash
  <2> QED  BY <2>1, <2>2, <2>3
<1>2. CASE Load
  <2>1. /\ phase = "down" /\ phase' = "recovering" /\ pc = "gone" /\ sql = <<>>
        /\ at = 1 /\ ~doubt /\ UNCHANGED <<saved, pc, cur, sql, at, doubt, torn>>
        /\ run' = IF Terminal(saved) THEN saved ELSE [saved EXCEPT !.life = "INTERRUPTED"]
        /\ reads' = (~Terminal(saved) \/ saved.unknown)
    BY <1>2 DEF Load, DownInv, ReadInv
  <2>2. Queued' = {}
    BY <2>1, EmptySeq DEF Queued
  <2>3. run'.status = saved.status /\ run'.inFlight = saved.inFlight
    BY <2>1 DEF TypeOK, Records
  <2>4. InFlight(run')
    BY <2>3 DEF InFlight
  <2>5. \A a \in Actions : ~(a < 1)
    BY DEF Actions
  <2>6. ReadInv'
    BY <2>1, <2>5 DEF ReadInv
  <2>7. StandInv'
    BY <2>1 DEF StandInv, Sending, Known, Asking
  <2> QED  BY <2>1, <2>2, <2>4, <2>6, <2>7
<1>3. CASE RecoverAction
  <2>1. /\ phase = "recovering" /\ pc = "gone" /\ sql = <<>> /\ reads /\ at \in Actions /\ at' = at + 1
        /\ UNCHANGED <<phase, pc, cur, sql, reads, torn>> /\ saved' \in {saved, run'}
    BY <1>3 DEF RecoverAction, DownInv, TypeOK, Actions
  <2>2. Queued' = {}
    BY <2>1, EmptySeq DEF Queued
  <2>3. /\ \A a \in Actions : a # at => run'.status[a] = run.status[a]
        /\ run'.inFlight = run.inFlight
        /\ run'.status[at] \notin Halfway
        /\ run'.status[at] \in InDoubt => run.status[at] \in InDoubt
        /\ run'.status[at] = "UNKNOWN" => doubt'
        /\ doubt' => doubt \/ run'.status[at] = "UNKNOWN"
        /\ doubt => doubt'
    <3>1. CASE /\ run.status[at] \in InDoubt
               /\ run' = [run EXCEPT !.status[at] = Reported(dev[at])]
               /\ doubt' = (doubt \/ Reported(dev[at]) = "UNKNOWN")
      <4>1. /\ run'.status[at] = Reported(dev[at]) /\ run'.inFlight = run.inFlight
            /\ \A a \in Actions : a # at => run'.status[a] = run.status[a]
        BY <2>1, <3>1 DEF TypeOK, Records
      <4>2. run'.status[at] \in Results \cup {"UNKNOWN"}
        BY <4>1 DEF Reported, Results
      <4>3. run'.status[at] \notin Halfway
        BY <4>2 DEF Results, Halfway, Unsent
      <4>4. doubt' = (doubt \/ run'.status[at] = "UNKNOWN")
        BY <3>1, <4>1
      <4>5. (run'.status[at] = "UNKNOWN" => doubt') /\ (doubt' => doubt \/ run'.status[at] = "UNKNOWN") /\ (doubt => doubt')
        BY <4>4
      <4> QED  BY <3>1, <4>1, <4>3, <4>5
    <3>2. CASE /\ run.status[at] \in Unsent /\ UNCHANGED doubt
               /\ run' = [run EXCEPT !.status[at] = UnsentAction(run.status[at])]
      <4>1. /\ run'.status[at] = "REJECTED" /\ run'.inFlight = run.inFlight
            /\ \A a \in Actions : a # at => run'.status[a] = run.status[a]
        BY <2>1, <3>2 DEF TypeOK, Records, UnsentAction
      <4> QED  BY <3>2, <4>1 DEF Halfway, Unsent, InDoubt
    <3>3. CASE run.status[at] \notin InDoubt \cup Unsent /\ UNCHANGED <<run, doubt>>
      BY <3>3 DEF Halfway, Unsent, InDoubt
    <3> QED  BY <1>3, <3>1, <3>2, <3>3 DEF RecoverAction
  <2>4. InFlight(run') /\ InFlight(saved')
    BY <2>1, <2>3 DEF InFlight
  <2>5. \A a \in Actions : a < at' <=> a < at \/ a = at
    BY <2>1 DEF Actions
  <2>6. ReadInv'
    <3>1. doubt' => \E a \in Actions : a < at' /\ run'.status[a] = "UNKNOWN"
      <4>1. CASE run'.status[at] = "UNKNOWN"  BY <2>1, <2>5, <4>1
      <4>2. CASE doubt
        <5>1. PICK a \in Actions : a < at /\ run.status[a] = "UNKNOWN"
          BY <2>1, <4>2 DEF ReadInv
        <5>2. a # at
          BY <2>1, <5>1 DEF Actions
        <5> QED  BY <2>3, <2>5, <5>1, <5>2
      <4> QED  BY <2>3, <4>1, <4>2
    <3>2. \A a \in Actions : a < at' => run'.status[a] \notin Halfway /\ (run'.status[a] = "UNKNOWN" => doubt')
      BY <2>1, <2>3, <2>5 DEF ReadInv
    <3> QED  BY <2>1, <3>1, <3>2 DEF ReadInv
  <2>7. StandInv'
    BY <2>1 DEF StandInv, Sending, Known, Asking
  <2> QED  BY <2>1, <2>2, <2>4, <2>6, <2>7
<1>4. CASE Recovered
  <2>1. /\ phase = "recovering" /\ phase' = "up" /\ pc = "gone" /\ sql = <<>> /\ saved' = run'
        /\ UNCHANGED <<pc, cur, sql, torn>>
        /\ run' = IF ~reads THEN run
                  ELSE [run EXCEPT !.unknown = doubt, !.inFlight = IF doubt THEN @ ELSE 0]
    BY <1>4 DEF Recovered, DownInv
  <2>2. Queued' = {}
    BY <2>1, EmptySeq DEF Queued
  <2>3. CASE ~reads
    <3>1. run' = run /\ (~torn => Whole(run))
      BY <2>1, <2>3 DEF ReadInv
    <3>2. StandInv' /\ ReadInv'
      BY <2>1 DEF StandInv, ReadInv, Sending, Known, Asking
    <3> QED  BY <2>1, <2>2, <3>1, <3>2
  <2>4. CASE reads
    <3>1. \A a \in Actions : a < at
      <4>1. at > MaxActions
        BY <1>4, <2>4 DEF Recovered
      <4> QED  BY <4>1, RecoveryAssumption DEF Actions, TypeOK
    <3>2. /\ run'.status = run.status /\ run'.unknown = doubt
          /\ run'.inFlight = IF doubt THEN run.inFlight ELSE 0
      BY <2>1, <2>4 DEF TypeOK, Records
    <3>3. /\ \A a \in Actions : run.status[a] \notin Halfway
          /\ doubt <=> \E a \in Actions : run.status[a] = "UNKNOWN"
      BY <2>1, <2>4, <3>1 DEF ReadInv
    <3>4. \A a \in Actions : run.status[a] \in InDoubt => doubt
      BY <3>3 DEF Halfway, InDoubt
    <3>5. InFlight(run') /\ Whole(run')
      BY <3>2, <3>3, <3>4 DEF InFlight, Whole, Exact
    <3>6. StandInv' /\ ReadInv'
      BY <2>1 DEF StandInv, ReadInv, Sending, Known, Asking
    <3> QED  BY <2>1, <2>2, <3>5, <3>6
  <2> QED  BY <2>3, <2>4
<1> QED  BY <1>1, <1>2, <1>3, <1>4

LEMMA DoubtStep ==
  ASSUME TypeOK, QueueInv, DownInv, DoubtInv, [Next]_vars
  PROVE  DoubtInv'
<1> USE DEF DoubtInv, FlightInv, WholeInv
<1>1. CASE Storing \/ Entering  BY <1>1, JobDoubt
<1>2. CASE Crash \/ Load \/ RecoverAction \/ Recovered  BY <1>2, RecoveryDoubt
<1>3. CASE TakeTurn \/ Persist
  <2>1. PICK by \in {"job", "close", "final"} : sql' = Append(sql, [by |-> by, row |-> run])
    <3>1. turn # <<>> => turn[1] \in {"job", "close"}
      BY DEF QueueInv, Turn
    <3> QED  BY <1>3, <3>1 DEF TakeTurn, Persist, Save
  <2>2. [by |-> by, row |-> run] \in Item
    BY DEF TypeOK, Item, Row
  <2>3. UNCHANGED <<run, saved, pc, cur, phase, at, reads, doubt, torn>>
    BY <1>3 DEF TakeTurn, Persist, recovery, process
  <2>4. \A i \in Queued' : sql'[i].by # "device" => (i \in Queued /\ sql'[i] = sql[i]) \/ sql'[i].row = run
    BY <2>1, <2>2, Grown DEF Queued
  <2>5. StandInv' /\ ReadInv'
    BY <2>3 DEF StandInv, ReadInv
  <2> QED  BY <2>3, <2>4, <2>5
<1>4. CASE Send \/ \E a \in Actions : Tick(a)
  <2>1. /\ sql' = Append(sql, [by |-> "device"]) /\ UNCHANGED <<run, saved, cur, phase, at, reads, doubt, torn>>
        /\ pc' = pc \/ (pc = "send" /\ pc' = "device")
    BY <1>4 DEF Send, Tick, recovery, process
  <2>2. [by |-> "device"] \in Item
    BY DEF Item
  <2>3. \A i \in Queued' : sql'[i].by # "device" => i \in Queued /\ sql'[i] = sql[i]
    BY <2>1, <2>2, Grown DEF Queued
  <2>4. StandInv' /\ ReadInv'
    BY <2>1 DEF StandInv, ReadInv, Sending, Known, Asking
  <2> QED  BY <2>1, <2>3, <2>4
<1>5. CASE Commit \/ DeviceFails \/ EndStored \/ EndFails \/ EventFails \/ Persisted \/ PersistFails
  <2>1. /\ phase = "up" /\ sql # <<>> /\ sql' = Tail(sql)
        /\ UNCHANGED <<run, cur, phase, at, reads, doubt, torn>>
        /\ saved' = saved \/ (sql[1].by # "device" /\ saved' = sql[1].row)
        /\ pc' = pc \/ (pc' = "raised" /\ pc # "gone") \/ (pc = "device" /\ pc' \in {"replied", "lost"})
    <3>1. CASE Commit \/ DeviceFails
      BY <3>1 DEF Commit, DeviceFails, Fails, recovery, process
    <3>2. CASE EventFails
      <4>1. pc \in JobEvents
        BY <3>2, Shrunk DEF EventFails, Unstored, Fails, QueueInv, Queued
      <4> QED  BY <3>2, <4>1 DEF EventFails, Unstored, Fails, process, JobEvents
    <3>3. CASE EndStored \/ EndFails \/ Persisted \/ PersistFails
      BY <3>3 DEF EndStored, EndFails, Persisted, PersistFails, Saved, Unstored, Fails, recovery, process
    <3> QED  BY <1>5, <3>1, <3>2, <3>3
  <2>2. 1 \in Queued /\ \A i \in Queued' : i + 1 \in Queued /\ sql'[i] = sql[i + 1]
    BY <2>1, Shrunk DEF Queued
  <2>3. StandInv'
    <3>1. CASE pc' = pc
      BY <2>1, <3>1 DEF StandInv
    <3>2. CASE pc' = "raised" /\ pc # "gone"
      BY <2>1, <3>2 DEF StandInv, Sending, Known, Asking
    <3>3. CASE pc = "device" /\ pc' \in {"replied", "lost"}
      BY <2>1, <3>3 DEF StandInv, Sending, Known, Asking
    <3> QED  BY <2>1, <3>1, <3>2, <3>3
  <2>4. ReadInv'
    BY <2>1 DEF ReadInv
  <2> QED  BY <2>1, <2>2, <2>3, <2>4
<1>6. CASE End \/ StopJob
  <2>1. /\ UNCHANGED <<saved, cur, sql, phase, at, reads, doubt, torn>> /\ (pc' = pc \/ pc' = "gone") /\ phase = "up"
    BY <1>6 DEF End, StopJob, recovery, process
  <2>2. /\ run'.status = run.status /\ run'.inFlight = run.inFlight /\ run'.unknown = run.unknown
        /\ run'.life = run.life \/ run'.life \in Ends
    BY <1>6 DEF End, StopJob, Stopped, TypeOK, Records, Ends
  <2>3. InFlight(run') /\ (Whole(run) => Whole(run'))
    BY <2>2 DEF InFlight, Whole, Exact, Ends
  <2>4. StandInv' /\ ReadInv'
    BY <2>1, <2>2 DEF StandInv, ReadInv, Sending, Known, Asking, Ends
  <2>5. Queued' = Queued
    BY <2>1 DEF Queued
  <2> QED  BY <2>1, <2>3, <2>4, <2>5
<1>7. CASE UNCHANGED vars
  BY <1>7 DEF vars, Queued, StandInv, ReadInv
<1> QED  BY NextGroups, <1>1, <1>2, <1>3, <1>4, <1>5, <1>6, <1>7
-----------------------------------------------------------------------------
RecoveryInv == TypeOK /\ QueueInv /\ DownInv /\ LifeInv /\ AheadInv /\ DiskInv /\ DoubtInv

\* Every part holds at the start, and every step of the program keeps them all.
THEOREM RecoveryInvariant == Spec => []RecoveryInv
<1> USE DEF RecoveryInv
<1>1. Init => RecoveryInv
  <2> SUFFICES ASSUME Init
               PROVE  RecoveryInv
    OBVIOUS
  <2>1. NewRun \in Records
    BY RecoveryAssumption DEF NewRun, Records, Ends, Statuses
  <2>2. sql \in Seq([by : {"job", "close", "final"}, row : Records] \cup [by : {"device"}])
    BY EmptySeq DEF Init
  <2>3. TypeOK
    <3>1. 1 \in 1..(MaxActions + 1) /\ 0 \in 0..MaxActions
      BY RecoveryAssumption
    <3>2. dev \in DeviceRecords /\ devSaved \in DeviceRecords
      BY DEF Init, DeviceRecords
    <3> QED  BY <2>1, <2>2, <3>1, <3>2 DEF Init, TypeOK
  <2>4. Queued = {}
    BY EmptySeq DEF Init, Queued
  <2>5. DoubtInv
    BY <2>4 DEF Init, NewRun, DoubtInv, FlightInv, WholeInv, StandInv, ReadInv, InFlight, Whole, Exact, InDoubt,
       Sending, Known, Asking
  <2> QED  BY <2>3, <2>4, <2>5 DEF Init, NewRun, QueueInv, Turn, JobEvents, DownInv, LifeInv, NoOrphan, AheadInv,
              DiskInv, Results, Ends
<1>2. RecoveryInv /\ [Next]_vars => RecoveryInv'
  BY QueueStep, TypeStep, DownStep, LifeStep, AheadStep, DiskStep, DoubtStep
<1> QED  BY <1>1, <1>2, PTL DEF Spec

\* The record in memory, its copies and the device's have their types in every state.
THEOREM TypeCorrect == Spec => []TypeOK
<1>1. RecoveryInv => TypeOK
  BY DEF RecoveryInv
<1> QED  BY <1>1, RecoveryInvariant, PTL

\* What the device has seen is on disk as dispatched, whenever the process dies and
\* whichever of its saves have failed.
THEOREM WriteAheadHolds == Spec => []WriteAhead
<1>1. RecoveryInv => WriteAhead
  BY DEF RecoveryInv, AheadInv, WriteAhead, Sent, Results
<1> QED  BY <1>1, RecoveryInvariant, PTL

\* A result on disk is the one the device has on disk.
THEOREM DiskIsTrueHolds == Spec => []DiskIsTrue
<1>1. RecoveryInv => DiskIsTrue
  BY DEF RecoveryInv, DiskInv, DiskIsTrue, Results
<1> QED  BY <1>1, RecoveryInvariant, PTL

\* The end a user was told of is the end on disk.
THEOREM ToldIsKeptHolds == Spec => []ToldIsKept
<1>1. RecoveryInv => ToldIsKept
  BY DEF RecoveryInv, LifeInv, ToldIsKept
<1> QED  BY <1>1, RecoveryInvariant, PTL

\* No open run is without a job.
THEOREM NoOrphanHolds == Spec => []NoOrphan
<1>1. RecoveryInv => NoOrphan
  BY DEF RecoveryInv, LifeInv
<1> QED  BY <1>1, RecoveryInvariant, PTL

\* At most one action of the run on disk is in doubt: every copy of the run tells it
\* by in_flight_action_id, which names one.
THEOREM OneInDoubtHolds == Spec => []OneInDoubt
<1>1. RecoveryInv => OneInDoubt
  BY DEF RecoveryInv, DoubtInv, FlightInv, InFlight, OneInDoubt
<1> QED  BY <1>1, RecoveryInvariant, PTL

\* A recovery that was not cut off leaves a record that agrees with itself, whatever
\* the process was doing when it died.
THEOREM RecoveredCleanHolds == Spec => []RecoveredClean
<1>1. RecoveryInv => RecoveredClean
  BY DEF RecoveryInv, DoubtInv, WholeInv, Whole, Exact, Halfway, RecoveredClean
<1> QED  BY <1>1, RecoveryInvariant, PTL

-----------------------------------------------------------------------------
(* The run on disk only advances.                                            *)

\* What may follow a status of an action: nothing undoes a DISPATCH, and a result or
\* a rejection is final.
Follows(s) ==
  CASE s = "none" -> Statuses
    [] s = "PROPOSED" -> Statuses \ {"none"}
    [] s = "AUTHORIZED" -> Statuses \ {"none", "PROPOSED"}
    [] s = "DISPATCHED" -> Sent
    [] s = "ACKNOWLEDGED" -> Sent \ {"DISPATCHED"}
    [] s = "UNKNOWN" -> Results \cup {"UNKNOWN"}
    [] OTHER -> {s}
\* A copy of the run is as far as another: an end is final, and so is each action's.
Advanced(r, s) ==
  /\ r.life \in {"RUNNING", s.life}
  /\ \A a \in Actions : s.status[a] \in Follows(r.status[a])
\* A row that waits to be saved is between the row on disk and the run in memory.
OrderInv ==
  /\ Advanced(saved, run)
  /\ \A i \in Queued : sql[i].by # "device" => Advanced(saved, sql[i].row) /\ Advanced(sql[i].row, run)

LEMMA AdvancedSelf ==
  ASSUME NEW r \in Records
  PROVE  Advanced(r, r)
BY DEF Advanced, Follows, Records, Statuses, Sent, InDoubt, Results

LEMMA AdvancedOn ==
  ASSUME NEW r \in Records, NEW s \in Records, NEW t \in Records, Advanced(r, s), Advanced(s, t)
  PROVE  Advanced(r, t)
<1>1. \A a \in Actions : t.status[a] \in Follows(r.status[a])
  BY DEF Advanced, Follows, Records, Statuses, Sent, InDoubt, Results
<1>2. r.life \in {"RUNNING", t.life}
  BY DEF Advanced
<1> QED
  BY <1>1, <1>2 DEF Advanced

\* The job's steps take its action on.
LEMMA JobAdvances ==
  ASSUME TypeOK, StandInv, Storing \/ Entering
  PROVE  Advanced(run, run')
<1> USE DEF Follows, Sent, InDoubt, Results, Statuses
<1>0. run \in Records /\ run'.life = run.life
  BY JobLife DEF TypeOK
<1> SUFFICES \A a \in Actions : run'.status[a] \in Follows(run.status[a])
  BY <1>0 DEF Advanced
<1>1. \A a \in Actions : run.status[a] \in Follows(run.status[a])
  BY <1>0, AdvancedSelf DEF Advanced
<1>2. ASSUME NEW i \in Actions, NEW s \in Statuses, s \in Follows(run.status[i]),
             run' = [run EXCEPT !.status[i] = s]
      PROVE  \A a \in Actions : run'.status[a] \in Follows(run.status[a])
  BY <1>1, <1>2, OneStatus
<1>3. CASE Propose
  <2>1. cur' \in Actions /\ cur' > cur /\ run' = [run EXCEPT !.status[cur'] = "PROPOSED"]
    BY <1>3, RecoveryAssumption DEF Propose, Mark, Actions, TypeOK
  <2>2. run.status[cur'] = "none"
    BY <1>3, <2>1 DEF StandInv, Propose
  <2> QED
    BY <1>2, <2>1, <2>2
<1>6. CASE Proposed \/ Acknowledge
  <2>1. cur \in Actions /\ run.status[cur] \in {"PROPOSED", "DISPATCHED"} /\ UNCHANGED cur
    BY <1>6 DEF StandInv, Proposed, Acknowledge, JobStored, Sending
  <2>2. \E s \in {"REJECTED", "AUTHORIZED", "ACKNOWLEDGED"} :
          s \in Follows(run.status[cur]) /\ run' = [run EXCEPT !.status[cur] = s]
    BY <1>6, <2>1 DEF StandInv, Proposed, Acknowledge, Rejected, Mark, JobStored, Sending
  <2> QED
    BY <1>2, <2>1, <2>2
<1>7. CASE Authorized
  <2>1. cur \in Actions /\ run.status[cur] = "AUTHORIZED" /\ UNCHANGED cur
    BY <1>7 DEF StandInv, Authorized, JobStored
  <2>2. CASE Rejected
    BY <1>2, <2>1, <2>2 DEF Rejected, Mark
  <2>3. CASE run' = [run EXCEPT !.status[cur] = "DISPATCHED", !.inFlight = cur]
    <3>1. \A a \in Actions : run'.status[a] = IF a = cur THEN "DISPATCHED" ELSE run.status[a]
      BY <1>0, <2>1, <2>3 DEF Records
    <3> QED
      BY <1>1, <2>1, <3>1
  <2> QED
    BY <1>7, <2>2, <2>3 DEF Authorized
<1>4. CASE Acknowledged \/ ReplyLost \/ Reconcile
  <2>1. cur \in Actions /\ run.status[cur] \in InDoubt /\ UNCHANGED cur
        /\ (run.status[cur] \in Sent)
    BY <1>4 DEF StandInv, Acknowledged, ReplyLost, Reconcile, JobStored, Sending, Asking
  <2>2. PICK s \in Results \cup {"UNKNOWN"} : Result(s)
    BY <1>4 DEF Acknowledged, ReplyLost, Reconcile, Reported
  <2>3. \A a \in Actions : run'.status[a] = IF a = cur THEN s ELSE run.status[a]
    BY <1>0, <2>2 DEF Result, Records
  <2> QED
    BY <1>1, <2>1, <2>3
<1>5. CASE Settle \/ Dispatched \/ Recorded \/ QueryStored \/ SettleStored \/ RejectStored \/ Query
  <2>1. run'.status = run.status
    BY <1>0, <1>5
    DEF Settle, Dispatched, Recorded, QueryStored, SettleStored, RejectStored, Query, Records
  <2> QED
    BY <1>1, <2>1
<1> QED
  BY <1>3, <1>4, <1>5, <1>6, <1>7 DEF Storing, Entering

\* Nothing in memory goes back, but for a crash, which falls back to the disk.
LEMMA RunAdvances ==
  ASSUME TypeOK, DownInv, DoubtInv, TypeOK', [Next]_vars, ~Crash
  PROVE  Advanced(run, run')
<1> USE DEF TypeOK
<1>1. CASE Storing \/ Entering
  BY <1>1, JobAdvances DEF DoubtInv
<1>2. CASE End \/ StopJob
  <2>1. run'.status = run.status /\ run.life \in {"RUNNING", run'.life}
    BY <1>2 DEF End, StopJob, Stopped, Terminal, Records
  <2> QED
    BY <2>1, AdvancedSelf DEF Advanced
<1>3. CASE Load
  <2>1. run = saved /\ run'.status = run.status /\ run.life \in {"RUNNING", run'.life}
    BY <1>3 DEF Load, Terminal, Records, DoubtInv, ReadInv
  <2> QED
    BY <2>1, AdvancedSelf DEF Advanced
<1>4. CASE RecoverAction
  <2>1. run'.life = run.life /\ at \in Actions
    BY <1>4 DEF RecoverAction, Records, Actions
  <2>2. ASSUME NEW a \in Actions
        PROVE  run'.status[a] \in Follows(run.status[a])
    <3>1. run.status[a] \in Follows(run.status[a])
      BY AdvancedSelf DEF Advanced
    <3>2. \/ run'.status[a] = run.status[a]
          \/ run.status[a] \in InDoubt /\ run'.status[a] \in Results \cup {"UNKNOWN"}
          \/ run.status[a] \in Unsent /\ run'.status[a] = "REJECTED"
      BY <1>4 DEF RecoverAction, Records, Reported, Results, UnsentAction
    <3> QED
      BY <3>1, <3>2 DEF Follows, InDoubt, Unsent, Sent, Results, Statuses
  <2> QED
    BY <2>1, <2>2 DEF Advanced
<1>5. CASE Recovered
  <2>1. run'.status = run.status /\ run'.life = run.life
    BY <1>5 DEF Recovered, Records
  <2> QED
    BY <2>1, AdvancedSelf DEF Advanced
<1>6. CASE \/ TakeTurn \/ Send \/ (\E a \in Actions : Tick(a)) \/ Commit \/ EndStored \/ Persist \/ Persisted
           \/ EventFails \/ DeviceFails \/ EndFails \/ PersistFails \/ UNCHANGED vars
  <2>1. run' = run
    BY <1>6
    DEF TakeTurn, Send, Tick, Commit, EndStored, Persist, Persisted, EventFails, DeviceFails, EndFails,
        PersistFails, vars
  <2> QED
    BY <2>1, AdvancedSelf
<1> QED
  BY NextGroups, <1>1, <1>2, <1>3, <1>4, <1>5, <1>6

LEMMA OrderStep ==
  ASSUME RecoveryInv, OrderInv, [Next]_vars
  PROVE  OrderInv' /\ Advanced(saved, saved')
<1> USE DEF RecoveryInv
<1>0. TypeOK' /\ run \in Records /\ saved \in Records /\ run' \in Records /\ saved' \in Records
  BY TypeStep DEF TypeOK
<1>1. CASE Crash
  <2>1. run' = saved /\ saved' = saved /\ Queued' = {}
    BY <1>1, EmptySeq DEF Crash, Queued
  <2> QED
    BY <1>0, <2>1, AdvancedSelf DEF OrderInv
<1>2. ASSUME ~Crash
      PROVE  Advanced(run, run') /\ Advanced(saved, run')
  BY <1>0, <1>2, RunAdvances, AdvancedOn DEF OrderInv
\* A row is saved, or lost.
<1>3. CASE Storing \/ EndStored \/ EndFails \/ EventFails \/ Persisted \/ PersistFails
  <2>1. /\ sql # <<>> /\ sql[1].by # "device" /\ sql' = Tail(sql) /\ saved' \in {saved, sql[1].row}
    <3>1. CASE Storing
      BY <3>1, StoringStep DEF JobStored, Saved
    <3>2. CASE EndStored \/ EndFails \/ EventFails \/ Persisted \/ PersistFails
      BY <3>2 DEF EndStored, Saved, EndFails, Unstored, Fails, EventFails, Persisted, PersistFails
    <3> QED
      BY <1>3, <3>1, <3>2
  <2>2. 1 \in Queued /\ \A k \in Queued' : k + 1 \in Queued /\ k + 1 # 1 /\ sql'[k] = sql[k + 1]
    BY <2>1, Shrunk DEF Queued
  <2>3. \A k \in Queued' : sql'[k].by = "device"
    BY <2>1, <2>2 DEF QueueInv
  <2>4. sql[1].row \in Records
    BY <2>1, HeadRow
  <2>5. ~Crash
    BY <1>3, <2>1, StoringStep
    DEF Crash, JobStored, EndStored, Saved, EndFails, Unstored, Fails, EventFails, Persisted, PersistFails,
        DownInv, recovery, process
  <2>6. Advanced(sql[1].row, run') /\ Advanced(saved, sql[1].row)
    BY <1>0, <1>2, <2>1, <2>2, <2>4, <2>5, AdvancedOn DEF OrderInv
  <2> QED
    BY <1>0, <1>2, <2>1, <2>3, <2>5, <2>6, AdvancedSelf DEF OrderInv
\* The run is copied into the queue.
<1>4. CASE TakeTurn \/ Persist
  <2>1. PICK by \in {"job", "close", "final"} : sql' = Append(sql, [by |-> by, row |-> run])
    <3>1. turn # <<>> => turn[1] \in {"job", "close"}
      BY DEF QueueInv, Turn
    <3> QED
      BY <1>4, <3>1 DEF TakeTurn, Persist, Save
  <2>2. [by |-> by, row |-> run] \in Item
    BY <1>0 DEF Item, Row
  <2>3. run' = run /\ saved' = saved
    BY <1>4 DEF TakeTurn, Persist
  <2>4. \A i \in Queued' : sql'[i].by # "device" => (i \in Queued /\ sql'[i] = sql[i]) \/ sql'[i].row = run
    BY <2>1, <2>2, Grown DEF Queued, TypeOK
  <2> QED
    BY <1>0, <2>3, <2>4, AdvancedSelf DEF OrderInv
\* The queue's rows are as they were, or fewer.
<1>5. CASE Entering \/ End \/ StopJob \/ Send \/ (\E a \in Actions : Tick(a)) \/ Commit \/ DeviceFails
  <2>1. ~Crash /\ saved' = saved
    BY <1>5, EnteringStep
    DEF Crash, Enter, End, StopJob, Send, Tick, Commit, DeviceFails, Fails, recovery, process
  <2>2. \A k \in Queued' : sql'[k].by # "device" => \E i \in Queued : sql'[k] = sql[i]
    <3>1. CASE Entering \/ End \/ StopJob
      <4>1. sql' = sql
        BY <3>1, EnteringStep DEF Enter, End, StopJob
      <4> QED
        BY <4>1 DEF Queued
    <3>2. CASE Send \/ \E a \in Actions : Tick(a)
      <4>1. sql' = Append(sql, [by |-> "device"])
        BY <3>2 DEF Send, Tick
      <4>2. [by |-> "device"] \in Item
        BY DEF Item
      <4> QED
        BY <4>1, <4>2, Grown DEF Queued
    <3>3. CASE Commit \/ DeviceFails
      <4>1. sql # <<>> /\ sql' = Tail(sql)
        BY <3>3 DEF Commit, DeviceFails, Fails
      <4> QED
        BY <4>1, Shrunk DEF Queued
    <3> QED
      BY <1>5, <3>1, <3>2, <3>3
  <2>3. ASSUME NEW i \in Queued, sql[i].by # "device"
        PROVE  Advanced(saved, sql[i].row) /\ Advanced(sql[i].row, run')
    <3>1. sql \in Seq(Item) /\ sql[i] \in Item
      BY ElementOfSeq DEF TypeOK, Item, Row, Queued
    <3>2. sql[i].row \in Records
      BY <2>3, <3>1 DEF Item, Row
    <3> QED
      BY <1>0, <1>2, <2>1, <2>3, <3>2, AdvancedOn DEF OrderInv
  <2> QED
    BY <1>0, <1>2, <2>1, <2>2, <2>3, AdvancedSelf DEF OrderInv
<1>6. CASE Load \/ RecoverAction \/ Recovered
  <2>1. ~Crash /\ sql = <<>> /\ sql' = sql /\ saved' \in {saved, run'}
    BY <1>6 DEF Crash, Load, RecoverAction, Recovered, DownInv
  <2>2. Queued' = {}
    BY <2>1, EmptySeq DEF Queued
  <2> QED
    BY <1>0, <1>2, <2>1, <2>2, AdvancedSelf DEF OrderInv
<1>7. CASE UNCHANGED vars
  BY <1>0, <1>7, AdvancedSelf DEF vars, OrderInv, Queued
<1> QED
  BY NextGroups, <1>1, <1>3, <1>4, <1>5, <1>6, <1>7

\* Whatever crashes, fails or waits in append_event: the row of a run is never
\* followed by an older one. A dispatched write is never undispatched on disk, a
\* result or a rejection never replaced, and the first end that reaches the disk
\* stays, although two coroutines save the run as it is at their turn and a
\* recovery that is cut off is begun again from the row.
THEOREM DiskOnlyAdvances == Spec => [][Advanced(saved, saved')]_saved
<1>1. Init => OrderInv
  <2> SUFFICES ASSUME Init PROVE OrderInv
    OBVIOUS
  <2>1. Queued = {}
    BY EmptySeq DEF Init, Queued
  <2>2. NewRun \in Records
    BY RecoveryAssumption DEF NewRun, Records, Ends, Statuses
  <2> QED
    BY <2>1, <2>2, AdvancedSelf DEF Init, OrderInv
<1>2. RecoveryInv /\ OrderInv /\ [Next]_vars => OrderInv' /\ Advanced(saved, saved')
  BY OrderStep
<1> QED
  BY <1>1, <1>2, RecoveryInvariant, PTL DEF Spec
=============================================================================
