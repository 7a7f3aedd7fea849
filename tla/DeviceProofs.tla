----------------------------- MODULE DeviceProofs -----------------------------
(* For any keys, capabilities, domains and faults: a key takes effect at most *)
(* once, on the state it was planned on, its record says so, and the          *)
(* simulator implements DeviceContract. The argument is that a plan of the    *)
(* present environment whose key has no record was never executed, since a    *)
(* new environment forgets the records and outdates the plans at once.        *)
EXTENDS DeviceSafety, TLAPS

\* What the device knows of a key, what it did and what it answered.
KeyInv(k) ==
  /\ plans[k].env <= env
  /\ plans[k] = NoPlan => records[k] = NoRecord /\ effects[k] = 0 /\ fate[k] = "none"
  /\ plans[k] # NoPlan => plans[k].env > 0
  /\ effects[k] \in {0, 1} /\ (heard[k] = "none" <=> fate[k] = "none")
  /\ plans[k].env = env /\ records[k] = NoRecord => effects[k] = 0 /\ fate[k] = "none"
  /\ records[k] = NoRecord \/ records[k].status # "none"
  /\ records[k].status = "QUEUED" =>
       /\ plans[k].env = env /\ records[k].env = env /\ records[k].cap \in Caps
       /\ effects[k] = 0 /\ fate[k] = IF records[k].due THEN "QUEUED" ELSE "STUCK"
  /\ fate[k] \in {"QUEUED", "STUCK"} /\ plans[k].env = env => records[k].status = "QUEUED"
  /\ records[k] # NoRecord /\ plans[k].env = env => (records[k].status = "APPLIED" <=> effects[k] = 1)
\* A revision of the present environment counts the changes of its domain.
CountInv ==
  \A k \in Keys : plans[k].env = env =>
    \A d \in Domains : revisions[d] - plans[k].revisions[d] = edits[d] - plans[k].seen[d]
DeviceInv == TypeOK /\ CountInv /\ \A k \in Keys : KeyInv(k)

LEMMA OutcomeTyped ==
  ASSUME TypeOK, NEW k \in Keys, NEW c \in Caps, NEW a \in {"reply", "lost"},
         Refuse(k, c) \/ Apply(k, c, a) \/ Hold(k, c, TRUE) \/ Hold(k, c, FALSE)
  PROVE  /\ revisions' \in Revisions /\ edits' \in Revisions /\ effects' \in [Keys -> Nat]
         /\ records' \in [Keys -> [status : Statuses, cap : CapOrNone, env : 0..MaxEnv, due : BOOLEAN]]
         /\ fate' \in [Keys -> Fates] /\ heard' \in [Keys -> {"none", "reply", "lost"}]
         /\ \A j \in Keys \ {k} : /\ records'[j] = records[j] /\ effects'[j] = effects[j]
                                  /\ fate'[j] = fate[j] /\ heard'[j] = heard[j]
<1> USE DEF TypeOK, Revisions, Statuses, CapOrNone, Fates, Record, Settle
<1>1. CASE Refuse(k, c)
  BY <1>1 DEF Refuse
<1>2. CASE Hold(k, c, TRUE)
  BY <1>2 DEF Hold
<1>3. CASE Hold(k, c, FALSE)
  BY <1>3 DEF Hold
<1>4. CASE Apply(k, c, a)
  <2>1. CASE Change(k, c) /\ Record(k, c, "APPLIED", FALSE) /\ Settle(k, "APPLIED", a)
    BY <2>1 DEF Change
  <2>2. CASE /\ Record(k, c, "NOT_APPLIED", FALSE) /\ Settle(k, "NOT_APPLIED", a)
             /\ UNCHANGED <<revisions, edits, effects>>
    BY <2>2
  <2> QED  BY <1>4, <2>1, <2>2 DEF Apply
<1> QED  BY <1>1, <1>2, <1>3, <1>4

\* A key without a record, or one whose delayed action is decided, is settled.
Decides(k, c, a) ==
  \/ records[k] = NoRecord /\ Refuse(k, c)
  \/ /\ records[k] = NoRecord /\ plans[k].env = env
     /\ Hold(k, c, TRUE) \/ Hold(k, c, FALSE) \/ Apply(k, c, a)
  \/ records[k].status = "QUEUED" /\ records[k].due /\ (Refuse(k, c) \/ Apply(k, c, a))

LEMMA DecidedKey ==
  ASSUME TypeOK, NEW k \in Keys, NEW c \in Caps, NEW a \in {"reply", "lost"}, KeyInv(k),
         plans[k] # NoPlan, UNCHANGED <<env, plans>>, Decides(k, c, a)
  PROVE  KeyInv(k)'
<1> USE DEF TypeOK, NoRecord
<1> DEFINE settled(f) == /\ fate'[k] = IF fate[k] = "none" \/ (fate[k] = "QUEUED" /\ records[k].status = "QUEUED")
                                       THEN f ELSE fate[k]
                         /\ heard'[k] # "none" /\ heard'[k] \in {"none", "reply", "lost"}
<1>1. \A f \in Fates, b \in {"reply", "lost"} : Settle(k, f, b) => settled(f)
  BY DEF Settle
<1>2. \A s \in Statuses, d \in BOOLEAN : Record(k, c, s, d) =>
        records'[k] = [status |-> s, cap |-> c, env |-> plans[k].env, due |-> d]
  BY DEF Record
<1>3. CASE Refuse(k, c)
  <2>1. /\ records'[k] = [status |-> "NOT_APPLIED", cap |-> c, env |-> plans[k].env, due |-> FALSE]
        /\ settled("NOT_APPLIED") /\ effects' = effects
    BY <1>1, <1>2, <1>3 DEF Refuse, Fates, Statuses
  <2>2. records[k] = NoRecord \/ (records[k].status = "QUEUED" /\ records[k].due)
    BY DEF Decides
  <2> QED  BY <2>1, <2>2 DEF KeyInv
<1>4. CASE records[k] = NoRecord /\ plans[k].env = env /\ (Hold(k, c, TRUE) \/ Hold(k, c, FALSE))
  <2>1. PICK d \in BOOLEAN : Hold(k, c, d)
    BY <1>4
  <2>2. /\ records'[k] = [status |-> "QUEUED", cap |-> c, env |-> plans[k].env, due |-> d]
        /\ settled(IF d THEN "QUEUED" ELSE "STUCK") /\ effects' = effects
    BY <1>1, <1>2, <2>1 DEF Hold, Fates, Statuses
  <2>3. fate[k] = "none" /\ effects[k] = 0
    BY <1>4 DEF KeyInv
  <2> QED  BY <1>4, <2>2, <2>3 DEF KeyInv
<1>5. CASE Apply(k, c, a) /\ ~Refuse(k, c)
  <2>1. /\ plans[k].env = env /\ effects[k] = 0
        /\ records[k] = NoRecord \/ (records[k].status = "QUEUED" /\ records[k].due)
        /\ fate[k] = "none" \/ (fate[k] = "QUEUED" /\ records[k].status = "QUEUED")
    BY <1>5 DEF Decides, KeyInv
  <2>2. PICK s \in {"APPLIED", "NOT_APPLIED"} :
          /\ records'[k] = [status |-> s, cap |-> c, env |-> plans[k].env, due |-> FALSE]
          /\ settled(s) /\ effects'[k] = IF s = "APPLIED" THEN effects[k] + 1 ELSE effects[k]
    <3>1. CASE Change(k, c) /\ Record(k, c, "APPLIED", FALSE) /\ Settle(k, "APPLIED", a)
      <4>1. effects'[k] = effects[k] + 1
        BY <3>1 DEF Change
      <4> QED  BY <1>1, <1>2, <3>1, <4>1 DEF Fates, Statuses
    <3>2. CASE /\ Record(k, c, "NOT_APPLIED", FALSE) /\ Settle(k, "NOT_APPLIED", a)
               /\ UNCHANGED <<revisions, edits, effects>>
      BY <1>1, <1>2, <3>2 DEF Fates, Statuses
    <3> QED  BY <1>5, <3>1, <3>2 DEF Apply
  <2> QED  BY <2>1, <2>2 DEF KeyInv
<1> QED  BY <1>3, <1>4, <1>5 DEF Decides

\* Revisions and counts of changes move together.
Moves == \A d \in Domains : revisions'[d] - revisions[d] = edits'[d] - edits[d]
LEMMA DecidedMoves ==
  ASSUME TypeOK, NEW k \in Keys, NEW c \in Caps, NEW a \in {"reply", "lost"}, Decides(k, c, a)
  PROVE  Moves
<1>1. CASE UNCHANGED <<revisions, edits>>
  BY <1>1 DEF Moves, TypeOK, Revisions
<1>2. CASE Change(k, c)
  BY <1>2 DEF Moves, TypeOK, Revisions, Change
<1> QED  BY <1>1, <1>2 DEF Decides, Refuse, Hold, Apply
LEMMA CountKept ==
  ASSUME DeviceInv, UNCHANGED <<env, plans>>, Moves, revisions' \in Revisions, edits' \in Revisions
  PROVE  CountInv'
<1> SUFFICES ASSUME NEW k \in Keys, plans[k].env = env, NEW d \in Domains
             PROVE  revisions'[d] - plans[k].revisions[d] = edits'[d] - plans[k].seen[d]
  BY DEF CountInv
<1>1. revisions[d] - plans[k].revisions[d] = edits[d] - plans[k].seen[d]
  BY DEF DeviceInv, CountInv
<1>2. /\ revisions[d] \in Nat /\ revisions'[d] \in Nat /\ edits[d] \in Nat /\ edits'[d] \in Nat
      /\ plans[k].revisions[d] \in Nat /\ plans[k].seen[d] \in Nat
  BY DEF DeviceInv, TypeOK, Revisions
<1>3. revisions'[d] - revisions[d] = edits'[d] - edits[d]
  BY DEF Moves
<1> QED  BY <1>1, <1>2, <1>3

\* The writes and ticks of the device are decisions about their keys.
LEMMA WriteDecides ==
  ASSUME DeviceInv, NEW k \in Keys, NEW c \in Caps, ApplyWrite(k, c)
  PROVE  /\ plans[k] # NoPlan /\ records[k] = NoRecord /\ UNCHANGED <<env, late, plans>>
         /\ \E a \in {"reply", "lost"} : Decides(k, c, a) /\ (Refuse(k, c) \/ Precondition(k, c, env))
         /\ fault' \in {fault, NoFault}
  BY DEF ApplyWrite, UnknownKey, Decides, Precondition, Consume
LEMMA TickDecides ==
  ASSUME DeviceInv, NEW k \in Keys, Tick(k)
  PROVE  /\ records[k].status = "QUEUED" /\ records[k].due /\ records[k].cap \in Caps
         /\ plans[k] # NoPlan /\ UNCHANGED <<env, fault, late, plans>>
         /\ Decides(k, records[k].cap, "reply")
         /\ Refuse(k, records[k].cap) \/ (Apply(k, records[k].cap, "reply") /\ Precondition(k, records[k].cap, env))
<1>1. KeyInv(k) /\ records[k].status = "QUEUED" /\ records[k].due
  BY DEF DeviceInv, Tick
<1> QED  BY <1>1 DEF Tick, KeyInv, Decides, NoRecord

LEMMA DecidedStep ==
  ASSUME DeviceInv, NEW k \in Keys, NEW c \in Caps, NEW a \in {"reply", "lost"}, plans[k] # NoPlan,
         Decides(k, c, a), UNCHANGED <<env, late, plans>>, fault' \in {fault, NoFault}
  PROVE  DeviceInv'
<1>1. TypeOK
  BY DEF DeviceInv
<1>2. Refuse(k, c) \/ Apply(k, c, a) \/ Hold(k, c, TRUE) \/ Hold(k, c, FALSE)
  BY DEF Decides
<1>3. TypeOK'
  <2>1. fault' \in [type : FaultTypes \cup {"NONE"}, cap : Caps \cup {Anything}]
    BY <1>1 DEF TypeOK, NoFault
  <2>2. /\ revisions' \in Revisions /\ edits' \in Revisions /\ effects' \in [Keys -> Nat]
        /\ records' \in [Keys -> [status : Statuses, cap : CapOrNone, env : 0..MaxEnv, due : BOOLEAN]]
        /\ fate' \in [Keys -> Fates] /\ heard' \in [Keys -> {"none", "reply", "lost"}]
    BY <1>1, <1>2, OutcomeTyped
  <2>3. env' = env /\ late' = late /\ plans' = plans
    OBVIOUS
  <2> QED  BY <1>1, <2>1, <2>2, <2>3 DEF TypeOK
<1>4. CountInv'
  BY <1>1, <1>3, DecidedMoves, CountKept DEF TypeOK
<1>5. ASSUME NEW j \in Keys
      PROVE  KeyInv(j)'
  <2>1. CASE j = k
    BY <1>1, <2>1, DecidedKey DEF DeviceInv
  <2>2. CASE j # k
    <3>1. records'[j] = records[j] /\ effects'[j] = effects[j] /\ fate'[j] = fate[j] /\ heard'[j] = heard[j]
      BY <1>1, <1>2, <2>2, OutcomeTyped
    <3>2. KeyInv(j) /\ env' = env /\ plans' = plans
      BY DEF DeviceInv
    <3> QED  BY <3>1, <3>2 DEF KeyInv
  <2> QED  BY <2>1, <2>2
<1> QED  BY <1>3, <1>4, <1>5 DEF DeviceInv
-----------------------------------------------------------------------------
LEMMA DeviceStep ==
  ASSUME DeviceInv, [Next]_vars
  PROVE  DeviceInv'
<1> USE DeviceAssumption
<1>1. ASSUME NEW k \in Keys, NEW c \in Caps, ApplyWrite(k, c)
      PROVE  DeviceInv'
  BY <1>1, WriteDecides, DecidedStep
<1>2. ASSUME NEW k \in Keys, Tick(k)
      PROVE  DeviceInv'
  BY <1>2, TickDecides, DecidedStep
<1>3. ASSUME NEW k \in Keys, Snapshot(k)
      PROVE  DeviceInv'
  <2>1. CASE Consume /\ UNCHANGED <<plans, env, revisions, records, late, history>>
    BY <2>1 DEF Consume, NoFault, DeviceInv, TypeOK, CountInv, KeyInv, history
  <2>2. CASE /\ plans' = [plans EXCEPT ![k] = [env |-> env, revisions |-> revisions, seen |-> edits]]
             /\ UNCHANGED <<fault, env, revisions, records, late, history>>
    <3>1. TypeOK'
      BY <2>2 DEF DeviceInv, TypeOK, history
    <3>2. CountInv'
      BY <2>2 DEF DeviceInv, TypeOK, CountInv, history, Revisions
    <3>3. ASSUME NEW j \in Keys
          PROVE  KeyInv(j)'
      <4>1. KeyInv(j) /\ env > 0
        BY DEF DeviceInv, TypeOK
      <4>2. CASE j # k
        BY <2>2, <4>1, <4>2 DEF KeyInv, history, DeviceInv, TypeOK
      <4>3. CASE j = k
        <5>1. plans[k] = NoPlan
          BY <1>3 DEF Snapshot
        <5>2. plans'[k].env = env /\ plans'[k] # NoPlan /\ env \in Int
          BY <2>2, <4>1 DEF DeviceInv, TypeOK, NoPlan
        <5>3. /\ UNCHANGED <<env, records, effects, fate, heard>>
              /\ records[k].status # "QUEUED"
          BY <2>2, <4>1, <4>3, <5>1 DEF history, KeyInv, NoRecord
        <5> QED  BY <4>1, <4>3, <5>1, <5>2, <5>3 DEF KeyInv
      <4> QED  BY <4>2, <4>3
    <3> QED  BY <3>1, <3>2, <3>3 DEF DeviceInv
  <2> QED  BY <1>3, <2>1, <2>2 DEF Snapshot
<1>4. ASSUME NEW d \in Domains, ExternalChange(d)
      PROVE  DeviceInv'
  <2>1. TypeOK' /\ Moves
    BY <1>4 DEF ExternalChange, DeviceInv, TypeOK, Revisions, Moves
  <2>2. UNCHANGED <<env, records, plans, effects, fate, heard>>
    BY <1>4 DEF ExternalChange
  <2> QED  BY <2>1, <2>2, CountKept DEF DeviceInv, KeyInv, TypeOK
<1>5. CASE InjectFault \/ ClearFault \/ \E k \in Keys : DeadlinePasses(k)
  <2>1. UNCHANGED <<env, revisions, records, plans, history>> /\ late' \in SUBSET Keys
        /\ fault' \in [type : FaultTypes \cup {"NONE"}, cap : Caps \cup {Anything}]
    BY <1>5 DEF InjectFault, ClearFault, DeadlinePasses, NoFault, DeviceInv, TypeOK
  <2> QED  BY <2>1 DEF DeviceInv, TypeOK, CountInv, KeyInv, history
<1>6. CASE ForceNewEnvironment \/ ResetToDefaults
  <2>1. /\ env' = env + 1 /\ env' \in 1..MaxEnv /\ records' = [k \in Keys |-> NoRecord]
        /\ fault' = NoFault /\ UNCHANGED <<late, plans, effects, fate, heard>>
    BY <1>6 DEF ForceNewEnvironment, ResetToDefaults, NewEnvironment, history, DeviceInv, TypeOK
  <2>2. revisions' \in Revisions /\ edits' \in Revisions
    BY <1>6 DEF ForceNewEnvironment, ResetToDefaults, history, DeviceInv, TypeOK, Revisions
  <2>3. \A k \in Keys : plans[k].env < env'
    BY <2>1 DEF DeviceInv, KeyInv, TypeOK
  <2>4. TypeOK'
    BY <2>1, <2>2 DEF DeviceInv, TypeOK, NoRecord, NoFault, Statuses, CapOrNone
  <2>5. CountInv'
    BY <2>1, <2>3 DEF CountInv, DeviceInv, TypeOK
  <2>6. \A k \in Keys : KeyInv(k)'
    BY <2>1, <2>3 DEF DeviceInv, TypeOK, KeyInv, NoRecord
  <2> QED  BY <2>4, <2>5, <2>6 DEF DeviceInv
<1>7. CASE Restart
  <2>1. \A k \in Keys : /\ records'[k] = Interrupted(records[k])
                        /\ fate'[k] = IF records[k].status = "QUEUED" THEN records'[k].status ELSE fate[k]
    BY <1>7 DEF Restart
  <2>2. fault' = NoFault /\ UNCHANGED <<env, revisions, late, plans, edits, effects, heard>>
    BY <1>7 DEF Restart
  <2>3. TypeOK'
    <3>1. \A k \in Keys : /\ records'[k] \in [status : Statuses, cap : CapOrNone, env : 0..MaxEnv, due : BOOLEAN]
                          /\ fate'[k] \in Fates
      <4> TAKE k \in Keys
      <4>1. /\ records[k] \in [status : Statuses, cap : CapOrNone, env : 0..MaxEnv, due : BOOLEAN]
            /\ fate[k] \in Fates
        BY DEF DeviceInv, TypeOK
      <4>2. records'[k] \in [status : Statuses, cap : CapOrNone, env : 0..MaxEnv, due : BOOLEAN]
        BY <2>1, <4>1 DEF Interrupted, Statuses
      <4> QED  BY <2>1, <4>1, <4>2 DEF Fates
    <3> QED  BY <1>7, <2>2, <3>1 DEF Restart, DeviceInv, TypeOK, NoFault
  <2>4. CountInv'
    BY <2>2 DEF CountInv, DeviceInv
  <2>5. ASSUME NEW k \in Keys
        PROVE  KeyInv(k)'
    <3>1. KeyInv(k)
      BY DEF DeviceInv
    <3>2. CASE records[k].status = "QUEUED"
      <4>1. records'[k].status = "NOT_APPLIED" /\ fate'[k] = "NOT_APPLIED" /\ records[k] # NoRecord
        <5>1. records[k] \in [status : Statuses, cap : CapOrNone, env : 0..MaxEnv, due : BOOLEAN]
          BY DEF DeviceInv, TypeOK
        <5>2. records'[k].status = "NOT_APPLIED"
          BY <2>1, <3>2, <5>1 DEF Interrupted
        <5> QED  BY <2>1, <3>2, <5>2 DEF NoRecord
      <4>2. records'[k] # NoRecord /\ fate[k] # "none"
        BY <3>1, <3>2, <4>1 DEF NoRecord, KeyInv
      <4> QED  BY <2>2, <3>1, <3>2, <4>1, <4>2 DEF KeyInv
    <3>3. CASE records[k].status # "QUEUED"
      BY <2>1, <2>2, <3>1, <3>3 DEF Interrupted, KeyInv
    <3> QED  BY <3>2, <3>3
  <2> QED  BY <2>3, <2>4, <2>5 DEF DeviceInv
<1>8. CASE UNCHANGED vars
  BY <1>8 DEF vars, DeviceInv, TypeOK, CountInv, KeyInv
<1> QED  BY <1>1, <1>2, <1>3, <1>4, <1>5, <1>6, <1>7, <1>8 DEF Next
-----------------------------------------------------------------------------
\* A change of the environment's plans and revisions: what an effect is based on.
LEMMA EffectIsPlanned ==
  ASSUME DeviceInv, [Next]_vars, NEW k \in Keys, NEW c \in Caps, effects'[k] # effects[k],
         records'[k].cap = c
  PROVE  k \notin late /\ plans[k].env = env /\ plans[k].seen[Home[c]] = edits[Home[c]]
<1>1. TypeOK /\ KeyInv(k)
  BY DEF DeviceInv
<1>2. PICK e \in Caps, a \in {"reply", "lost"} : Decides(k, e, a) /\ (Refuse(k, e) \/ Precondition(k, e, env))
  <2>1. CASE \E j \in Keys, e \in Caps : ApplyWrite(j, e)
    <3>1. PICK j \in Keys, e \in Caps : ApplyWrite(j, e)
      BY <2>1
    <3>2. PICK a \in {"reply", "lost"} : Decides(j, e, a) /\ (Refuse(j, e) \/ Precondition(j, e, env))
      BY <3>1, WriteDecides
    <3>3. j = k
      BY <1>1, <3>2, OutcomeTyped DEF Decides
    <3> QED  BY <3>2, <3>3
  <2>2. CASE \E j \in Keys : Tick(j)
    <3>1. PICK j \in Keys : Tick(j)
      BY <2>2
    <3>2. /\ Decides(j, records[j].cap, "reply") /\ records[j].cap \in Caps
          /\ Refuse(j, records[j].cap) \/ Precondition(j, records[j].cap, env)
      BY <3>1, TickDecides
    <3>3. j = k
      BY <1>1, <3>2, OutcomeTyped DEF Decides
    <3> QED  BY <3>2, <3>3
  <2>3. CASE UNCHANGED effects
    BY <2>3
  <2> QED  BY <2>1, <2>2, <2>3 DEF Next, Snapshot, DeadlinePasses, ExternalChange, InjectFault, ClearFault,
              ForceNewEnvironment, ResetToDefaults, Restart, history, vars
<1>3. ~Refuse(k, e) /\ ~Hold(k, e, TRUE) /\ ~Hold(k, e, FALSE)
  BY DEF Refuse, Hold
<1>4. Apply(k, e, a) /\ Precondition(k, e, env) /\ plans[k].env = env
  BY <1>1, <1>2, <1>3 DEF Decides, KeyInv
<1>5. e = c
  BY <1>1, <1>4 DEF Apply, Record, TypeOK
<1>6. plans[k].revisions[Home[c]] = revisions[Home[c]] /\ Home[c] \in Domains
  BY <1>4, <1>5, DeviceAssumption DEF Precondition
<1>7. plans[k].seen[Home[c]] = edits[Home[c]]
  <2> DEFINE d == Home[c]
  <2>1. revisions[d] - plans[k].revisions[d] = edits[d] - plans[k].seen[d]
    BY <1>4, <1>6 DEF DeviceInv, CountInv
  <2>2. /\ revisions[d] \in Nat /\ edits[d] \in Nat
        /\ plans[k].revisions[d] \in Nat /\ plans[k].seen[d] \in Nat
    BY <1>1, <1>6 DEF TypeOK, Revisions
  <2> HIDE DEF d
  <2>3. plans[k].revisions[d] = revisions[d] => plans[k].seen[d] = edits[d]
    BY <2>1, <2>2
  <2> QED  BY <1>6, <2>3 DEF d
<1> QED  BY <1>4, <1>7 DEF Precondition

\* Every part holds at the start, and every operation keeps them all.
THEOREM DeviceInvariant == Spec => []DeviceInv
<1>1. Init => DeviceInv
  <2> SUFFICES ASSUME Init
               PROVE  DeviceInv
    OBVIOUS
  <2>1. TypeOK
    BY DeviceAssumption DEF Init, TypeOK, NoRecord, NoPlan, NoFault, Statuses, CapOrNone, Fates, Revisions
  <2>2. \A k \in Keys : /\ plans[k] = NoPlan /\ NoPlan.env = 0 /\ records[k] = NoRecord
                        /\ effects[k] = 0 /\ fate[k] = "none" /\ heard[k] = "none"
    BY DEF Init, NoPlan
  <2>3. env = 1 /\ NoRecord.status = "none"
    BY DEF Init, NoRecord
  <2> QED  BY <2>1, <2>2, <2>3 DEF DeviceInv, CountInv, KeyInv
<1>2. DeviceInv /\ [Next]_vars => DeviceInv'
  BY DeviceStep
<1> QED  BY <1>1, <1>2, PTL DEF Spec

\* The simulator's fields keep their types.
THEOREM TypeCorrect == Spec => []TypeOK
<1>1. DeviceInv => TypeOK
  BY DEF DeviceInv
<1> QED  BY <1>1, DeviceInvariant, PTL

\* No key takes effect twice.
THEOREM EffectOnceHolds == Spec => []EffectOnce
<1>1. DeviceInv => EffectOnce
  BY DEF DeviceInv, KeyInv, EffectOnce
<1> QED  BY <1>1, DeviceInvariant, PTL

\* A record says APPLIED exactly if the action had an effect.
THEOREM RecordIsTrueHolds == Spec => []RecordIsTrue
<1>1. DeviceInv => RecordIsTrue
  BY DEF DeviceInv, KeyInv, RecordIsTrue
<1> QED  BY <1>1, DeviceInvariant, PTL

\* An action is executed on the state it was planned on, or not at all.
THEOREM AppliedAsPlannedHolds == Spec => AppliedAsPlanned
<1>1. DeviceInv /\ [Next]_vars =>
        [\A k \in Keys, c \in Caps :
           effects'[k] # effects[k] /\ records'[k].cap = c =>
             k \notin late /\ plans[k].env = env /\ plans[k].seen[Home[c]] = edits[Home[c]]]_vars
  BY EffectIsPlanned
<1> QED  BY <1>1, DeviceInvariant, PTL DEF Spec, AppliedAsPlanned
-----------------------------------------------------------------------------
Gone == {k \in Keys : plans[k] # NoPlan /\ plans[k].env # env}

\* A decision about a key is a Receive, an End or nothing new of DeviceContract.
LEMMA PortDecides ==
  ASSUME DeviceInv, NEW k \in Keys, NEW c \in Caps, NEW a \in {"reply", "lost"}, plans[k] # NoPlan,
         Decides(k, c, a), Refuse(k, c) \/ Precondition(k, c, env), UNCHANGED <<env, late, plans>>
  PROVE  \/ UNCHANGED <<fate, heard, Gone, late>>
         \/ /\ fate[k] = "none" /\ UNCHANGED <<Gone, late>>
            /\ \E o \in WriteOutcomes(k \notin Gone \cup late) :
                 fate' = [fate EXCEPT ![k] = o.end] /\ heard' = [heard EXCEPT ![k] = o.answer]
         \/ /\ fate[k] = "QUEUED" /\ k \notin Gone /\ UNCHANGED <<heard, Gone, late>>
            /\ \E o \in TickOutcomes(k \in late) : fate' = [fate EXCEPT ![k] = o]
<1>1. TypeOK /\ KeyInv(k) /\ Gone' = Gone
  BY DEF DeviceInv, Gone
<1>2. PICK f \in {"APPLIED", "NOT_APPLIED", "QUEUED", "STUCK"}, b \in {"reply", "lost"} :
        /\ Settle(k, f, b)
        /\ f # "NOT_APPLIED" \/ b # "reply" => Precondition(k, c, env) /\ plans[k].env = env
        /\ (f = "QUEUED" => b = "reply") /\ (f = "STUCK" => b = "lost")
        /\ records[k] # NoRecord => f \in {"APPLIED", "NOT_APPLIED"}
  <2>1. CASE Refuse(k, c)
    BY <2>1 DEF Refuse
  <2>2. CASE ~Refuse(k, c) /\ Apply(k, c, a)
    BY <1>1, <2>2 DEF Apply, Decides, KeyInv
  <2>3. CASE ~Refuse(k, c) /\ ~Apply(k, c, a)
    BY <2>3 DEF Hold, Decides
  <2> QED  BY <2>1, <2>2, <2>3
<1>3. CASE records[k] = NoRecord /\ fate[k] # "none"
  BY <1>1, <1>2, <1>3 DEF Settle, KeyInv, NoRecord
<1>4. CASE records[k] = NoRecord /\ fate[k] = "none"
  <2>1. fate' = [fate EXCEPT ![k] = f] /\ heard' = [heard EXCEPT ![k] = b]
    BY <1>1, <1>2, <1>4 DEF Settle, KeyInv
  <2>2. k \notin Gone \cup late \/ (f = "NOT_APPLIED" /\ b = "reply")
    BY <1>2 DEF Gone, Precondition
  <2> DEFINE o == [end |-> f, answer |-> b]
  <2>3. o \in WriteOutcomes(k \notin Gone \cup late) /\ o.end = f /\ o.answer = b
    BY <1>2, <2>2 DEF WriteOutcomes
  <2> HIDE DEF o
  <2> QED  BY <1>1, <1>4, <2>1, <2>3
<1>5. CASE records[k] # NoRecord
  <2>1. records[k].status = "QUEUED" /\ fate[k] = "QUEUED" /\ heard[k] # "none" /\ plans[k].env = env
    BY <1>1, <1>5 DEF Decides, KeyInv
  <2>2. fate' = [fate EXCEPT ![k] = f] /\ heard' = heard
    BY <1>2, <2>1 DEF Settle
  <2>3. f \in TickOutcomes(k \in late)
    BY <1>2, <1>5 DEF TickOutcomes, Precondition
  <2> QED  BY <1>1, <2>1, <2>2, <2>3 DEF Gone
<1> QED  BY <1>3, <1>4, <1>5

LEMMA PortStep ==
  ASSUME DeviceInv, [Next]_vars
  PROVE  [Port!Next]_<<fate, heard, Gone, late>>
<1> USE DEF Port!Next
<1>1. ASSUME NEW k \in Keys, NEW c \in Caps, NEW a \in {"reply", "lost"}, plans[k] # NoPlan,
             Decides(k, c, a), Refuse(k, c) \/ Precondition(k, c, env), UNCHANGED <<env, late, plans>>
      PROVE  [Port!Next]_<<fate, heard, Gone, late>>
  BY <1>1, PortDecides DEF Port!Receive, Port!End, Port!WriteOutcomes, Port!TickOutcomes,
     WriteOutcomes, TickOutcomes, Gone
<1>2. CASE \E k \in Keys, c \in Caps : ApplyWrite(k, c)
  BY <1>1, <1>2, WriteDecides
<1>3. CASE \E k \in Keys : Tick(k)
  BY <1>1, <1>3, TickDecides
<1>4. CASE Restart
  <2>1. UNCHANGED <<heard, Gone, late>>
    BY <1>4 DEF Restart, Gone
  <2>2. \A k \in Keys : fate'[k] = IF fate[k] \in {"QUEUED", "STUCK"} /\ k \notin Gone
                                   THEN "NOT_APPLIED" ELSE fate[k]
    <3> TAKE k \in Keys
    <3>1. KeyInv(k) /\ records[k] \in [status : Statuses, cap : CapOrNone, env : 0..MaxEnv, due : BOOLEAN]
      BY DEF DeviceInv, TypeOK
    <3>2. records[k].status = "QUEUED" => records'[k].status = "NOT_APPLIED"
      BY <1>4, <3>1 DEF Restart, Interrupted
    <3>3. fate'[k] = IF records[k].status = "QUEUED" THEN records'[k].status ELSE fate[k]
      BY <1>4 DEF Restart
    <3>4. records[k].status = "QUEUED" <=> fate[k] \in {"QUEUED", "STUCK"} /\ k \notin Gone
      BY <3>1 DEF KeyInv, Gone
    <3> QED  BY <3>2, <3>3, <3>4
  <2>3. fate' = [k \in Keys |-> fate'[k]]
    BY <1>4 DEF Restart
  <2>4. Port!GiveUp
    BY <2>1, <2>2, <2>3 DEF Port!GiveUp, Gone
  <2> QED  BY <2>4
<1>5. CASE UNCHANGED <<fate, heard>> /\ Gone \subseteq Gone' /\ late \subseteq late'
  BY <1>5 DEF Port!Pass, Gone
<1>6. CASE InjectFault \/ ClearFault \/ (\E d \in Domains : ExternalChange(d)) \/ UNCHANGED vars
           \/ (\E k \in Keys : DeadlinePasses(k))
  BY <1>5, <1>6 DEF InjectFault, ClearFault, ExternalChange, DeadlinePasses, vars, history, Gone
<1>7. CASE ForceNewEnvironment \/ ResetToDefaults
  <2>1. UNCHANGED <<fate, heard, plans, late>> /\ env' = env + 1
    BY <1>7 DEF ForceNewEnvironment, ResetToDefaults, NewEnvironment, history
  <2>2. \A k \in Keys : plans[k].env # env'
    BY <2>1 DEF DeviceInv, TypeOK, KeyInv
  <2> QED  BY <1>5, <2>1, <2>2 DEF Gone
<1>8. CASE \E k \in Keys : Snapshot(k)
  <2>1. PICK k \in Keys : Snapshot(k)
    BY <1>8
  <2>2. plans[k] = NoPlan /\ UNCHANGED <<env, fate, heard, late>> /\ \A j \in Keys \ {k} : plans'[j] = plans[j]
    BY <2>1 DEF Snapshot, history, DeviceInv, TypeOK
  <2> QED  BY <1>5, <2>2 DEF Gone
<1> QED  BY <1>2, <1>3, <1>4, <1>6, <1>7, <1>8 DEF Next

\* Every behaviour of the simulator is one of the device the executor relies on.
THEOREM PortHolds == Spec => PortSpec
<1>1. Init => Port!Init
  BY DEF Init, Port!Init, NoPlan
<1>2. DeviceInv /\ [Next]_vars =>
        [Port!Next]_<<fate, heard, {k \in Keys : plans[k] # NoPlan /\ plans[k].env # env}, late>>
  BY PortStep DEF Gone
<1> QED  BY <1>1, <1>2, DeviceInvariant, PTL DEF Spec, PortSpec, Port!Spec
==============================================================================
