---------------------------- MODULE DeviceSafety ----------------------------
(* What the simulated device promises its writers.                           *)
EXTENDS DeviceSim

Statuses == {"none", "QUEUED", "APPLIED", "NOT_APPLIED"}
CapOrNone == Caps \cup {"none"}
Fates == Statuses \cup {"STUCK"}
Revisions == [Domains -> Nat]

\* Every field of the simulator has its type; environments are counted up.
TypeOK ==
  /\ env \in 1..MaxEnv /\ revisions \in Revisions
  /\ records \in [Keys -> [status : Statuses, cap : CapOrNone, env : 0..MaxEnv, due : BOOLEAN]]
  /\ fault \in [type : FaultTypes \cup {"NONE"}, cap : Caps \cup {Anything}]
  /\ late \in SUBSET Keys
  /\ plans \in [Keys -> [env : 0..MaxEnv, revisions : Revisions, seen : Revisions]]
  /\ edits \in Revisions /\ effects \in [Keys -> Nat]
  /\ fate \in [Keys -> Fates] /\ heard \in [Keys -> {"none", "reply", "lost"}]

\* A key takes effect at most once, however often it is sent: while the device
\* remembers it, after a new environment made it forget, and after a restart.
EffectOnce == \A k \in Keys : effects[k] <= 1

\* An action is only executed on the state it was planned on: nobody has changed
\* its domain since the snapshot, in this environment or through a reset, and
\* its deadline has not passed, also when a tick executes it later.
AppliedAsPlanned ==
  [][\A k \in Keys, c \in Caps :
       effects'[k] # effects[k] /\ records'[k].cap = c =>
         k \notin late /\ plans[k].env = env /\ plans[k].seen[Home[c]] = edits[Home[c]]]_vars

\* The record says APPLIED exactly if the action had an effect, and what the
\* device held when it was restarted or reset never has one.
RecordIsTrue ==
  \A k \in Keys : records[k] # NoRecord /\ plans[k].env = env =>
    (records[k].status = "APPLIED" <=> effects[k] = 1)

\* The simulator implements what the executor relies on.
Port == INSTANCE DeviceContract
  WITH Actions <- Keys, answer <- heard,
       gone <- {k \in Keys : plans[k] # NoPlan /\ plans[k].env # env}
PortSpec == Port!Spec
==============================================================================
