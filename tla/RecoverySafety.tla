--------------------------- MODULE RecoverySafety ---------------------------
(* What a user and the next run may rely on after a crash.                   *)
EXTENDS Recovery

Statuses == {"none", "PROPOSED", "AUTHORIZED", "DISPATCHED", "ACKNOWLEDGED", "APPLIED", "NOT_APPLIED",
             "UNKNOWN", "REJECTED"}
Records == [life : Ends \cup {"RUNNING", "INTERRUPTED"}, status : [Actions -> Statuses],
            unknown : BOOLEAN, inFlight : 0..MaxActions]
DeviceRecords == [Actions -> {"none", "QUEUED", "APPLIED", "NOT_APPLIED"}]

\* What is in memory, what is in the tables, and what waits to be saved has its type.
TypeOK ==
  /\ run \in Records /\ saved \in Records /\ dev \in DeviceRecords /\ devSaved \in DeviceRecords
  /\ sql \in Seq([by : {"job", "close", "final"}, row : Records] \cup [by : {"device"}])
  /\ phase \in {"up", "down", "recovering"} /\ cur \in 0..MaxActions /\ at \in 1..(MaxActions + 1)
  /\ closing \in {"none", "RUN_FINISHED", "persist_run", "persisting"}
  /\ {reads, doubt, torn} \subseteq BOOLEAN /\ told \in Ends \cup {"none"}

\* Whatever the device has seen is on disk as dispatched: no crash makes the
\* program forget a write that may have had an effect.
WriteAhead == \A a \in Actions : dev[a] # "none" => saved.status[a] \in InDoubt \cup {"APPLIED", "NOT_APPLIED"}

\* A result on disk is the result the device has on disk, before and after every
\* crash: the run's row never runs ahead of the device's, as long as the device's own
\* saves succeed.
DiskIsTrue ==
  "device" \notin failed =>
    \A a \in Actions : saved.status[a] \in {"APPLIED", "NOT_APPLIED"} => devSaved[a] = saved.status[a]

\* At most one action is in doubt when the process dies, so that the four reads
\* a recovery allows itself are always enough.
OneInDoubt == \A a, b \in Actions : saved.status[a] \in InDoubt /\ saved.status[b] \in InDoubt => a = b

\* After a restart whose recovery was not itself cut off, unresolved_unknown says
\* whether an action is UNKNOWN, and an interrupted run has no action half-way.
RecoveredClean ==
  phase = "up" /\ crashes > 0 /\ ~torn =>
    /\ run.unknown <=> \E a \in Actions : run.status[a] = "UNKNOWN"
    /\ run.life = "INTERRUPTED" => \A a \in Actions : run.status[a] \notin Unsent \cup {"DISPATCHED", "ACKNOWLEDGED"}

\* A job that is gone, after whatever its saves raised or a restart lost, leaves no
\* open run behind: nobody would work on it, and it would keep the device.
NoOrphan == phase = "up" /\ pc = "gone" => Terminal(run)

\* The end a user was told of is the end every restart finds.
ToldIsKept == told # "none" => saved.life = told
=============================================================================
