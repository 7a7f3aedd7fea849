------------------------------ MODULE DeviceSim ------------------------------
(* DeviceSimulator (device/simulator.py): the state of the terminal, seen as  *)
(* a revision per domain; the record of every action it was sent, by its     *)
(* idempotency key; one injected fault; environments that replace each other. *)
(*                                                                           *)
(* Every operation runs under the lock of the simulator and stores its result *)
(* before it releases it, so an operation is one step, and a restart finds   *)
(* what the last one stored. Prompt events touch AUDIO, which no capability   *)
(* checks, and are left out.                                                 *)
EXTENDS DevicePort, Integers, FiniteSets

CONSTANTS
  Keys,           \* idempotency keys, one per action of an executor
  Caps, Domains,
  Home,           \* CapabilityDefinition.domains: the domain whose revision is checked
  Touches,        \* the domains whose fields the effects of a capability change
  Faults,         \* the FaultTypes somebody injects
  MaxEnv,         \* bound on environments
  MaxEdits        \* bound on changes of a domain from outside

FaultTypes ==
  {"REJECT", "ACK_NOT_APPLIED", "APPLIED_RESPONSE_LOST", "DELAY_APPLY", "TOOL_TIMEOUT",
   "READ_FAIL", "STALE_STATE"}
Anything == "anything"    \* fault_capability is None

ASSUME DeviceAssumption ==
  /\ Home \in [Caps -> Domains] /\ Touches \in [Caps -> SUBSET Domains]
  /\ \A c \in Caps : Home[c] \in Touches[c]
  /\ Faults \subseteq FaultTypes /\ Anything \notin Caps
  /\ MaxEnv \in Nat \ {0} /\ MaxEdits \in Nat

VARIABLES
  env, revisions,     \* environment_id and the domain revisions in it
  records,            \* actions_by_key
  fault,              \* fault, fault_capability, remaining
  late,               \* keys whose deadline has passed
  plans,              \* the snapshot each key's writer planned on
  edits, effects,     \* history: changes of each domain, executions of each key
  fate, heard         \* history: what became of each key, the first answer to it

vars == <<env, revisions, records, fault, late, plans, edits, effects, fate, heard>>
history == <<edits, effects, fate, heard>>

NoRecord == [status |-> "none", cap |-> "none", env |-> 0, due |-> FALSE]
NoPlan == [env |-> 0, revisions |-> [d \in Domains |-> 0], seen |-> [d \in Domains |-> 0]]
NoFault == [type |-> "NONE", cap |-> Anything]

\* _consume: the fault is armed for this type and this capability. Each fault is
\* injected for one time; more times are more injections.
Fires(type, c) == fault.type = type /\ fault.cap \in {Anything, c}
Consume == fault' = NoFault

\* The fate of a key that an older environment knew is decided.
Settle(k, f, a) ==
  /\ fate' = IF fate[k] = "none" \/ (fate[k] = "QUEUED" /\ records[k].status = "QUEUED")
             THEN [fate EXCEPT ![k] = f] ELSE fate
  /\ heard' = IF heard[k] = "none" THEN [heard EXCEPT ![k] = a] ELSE heard

-----------------------------------------------------------------------------
\* read_state for the plan of k. READ_FAIL raises; the caller refuses a STALE_STATE.
Snapshot(k) ==
  /\ plans[k] = NoPlan
  /\ IF Fires("READ_FAIL", "none") \/ Fires("STALE_STATE", "none")
     THEN Consume /\ UNCHANGED plans
     ELSE /\ plans' = [plans EXCEPT ![k] = [env |-> env, revisions |-> revisions, seen |-> edits]]
          /\ UNCHANGED fault
  /\ UNCHANGED <<env, revisions, records, late, history>>

\* Mutant: the deadline is not compared.
MutDeadline(k, c, e) == e = env /\ plans[k].revisions[Home[c]] = revisions[Home[c]]
\* Mutant: the revision is not compared.
MutPrecondition(k, c, e) == e = env /\ k \notin late
\* _precondition: environment, deadline, revision of the capability's domain.
Precondition(k, c, e) ==
  e = env /\ k \notin late /\ plans[k].revisions[Home[c]] = revisions[Home[c]]

\* _change by a capability
Change(k, c) ==
  /\ revisions' = [d \in Domains |-> IF d \in Touches[c] THEN revisions[d] + 1 ELSE revisions[d]]
  /\ edits' = [d \in Domains |-> IF d \in Touches[c] THEN edits[d] + 1 ELSE edits[d]]
  /\ effects' = [effects EXCEPT ![k] = @ + 1]

\* Mutant: the message of a delayed action is stored as its status.
MutRecord(k, c, s, d) ==
  records' = [records EXCEPT ![k] = [status |-> IF d THEN "ACCEPTED" ELSE s, cap |-> c,
                                     env |-> plans[k].env, due |-> d]]
Record(k, c, s, d) ==
  records' = [records EXCEPT ![k] = [status |-> s, cap |-> c, env |-> plans[k].env, due |-> d]]

Refuse(k, c) ==
  /\ Record(k, c, "NOT_APPLIED", FALSE)
  /\ Settle(k, "NOT_APPLIED", "reply")
  /\ UNCHANGED <<revisions, edits, effects>>

\* Held: a tick will end it (DELAY_APPLY), or nothing will (TOOL_TIMEOUT).
Hold(k, c, due) ==
  /\ Record(k, c, "QUEUED", due)
  /\ IF due THEN Settle(k, "QUEUED", "reply") ELSE Settle(k, "STUCK", "lost")
  /\ UNCHANGED <<revisions, edits, effects>>

\* _apply: executed, or refused by _navigation_precheck. The reply may be lost.
Apply(k, c, answer) ==
  \/ Change(k, c) /\ Record(k, c, "APPLIED", FALSE) /\ Settle(k, "APPLIED", answer)
  \/ /\ Record(k, c, "NOT_APPLIED", FALSE) /\ Settle(k, "NOT_APPLIED", answer)
     /\ UNCHANGED <<revisions, edits, effects>>

\* Mutant: a key is not looked up.
MutUnknownKey(k) == TRUE
UnknownKey(k) == records[k] = NoRecord

\* apply_write of a key the device does not know. A key it knows gets its record
\* again, or IDEMPOTENCY_CONFLICT: nothing changes.
ApplyWrite(k, c) ==
  /\ plans[k] # NoPlan /\ UnknownKey(k)
  /\ \/ Refuse(k, c) /\ UNCHANGED fault           \* registry.validate, _precondition
     \/ /\ Precondition(k, c, plans[k].env)
        /\ \/ (Fires("REJECT", c) \/ Fires("ACK_NOT_APPLIED", c)) /\ Consume /\ Refuse(k, c)
           \/ Fires("DELAY_APPLY", c) /\ Consume /\ Hold(k, c, TRUE)
           \/ Fires("TOOL_TIMEOUT", c) /\ Consume /\ Hold(k, c, FALSE)
           \/ Fires("APPLIED_RESPONSE_LOST", c) /\ Consume /\ Apply(k, c, "lost")
           \/ /\ \A t \in FaultTypes \ {"READ_FAIL", "STALE_STATE"} : ~Fires(t, c)
              /\ Apply(k, c, "reply") /\ UNCHANGED fault
  /\ UNCHANGED <<env, late, plans>>

\* tick ends a delayed action; a tick that finds several is as many steps.
Tick(k) ==
  /\ records[k].status = "QUEUED" /\ records[k].due
  /\ \/ Precondition(k, records[k].cap, records[k].env) /\ Apply(k, records[k].cap, "reply")
     \/ ~Precondition(k, records[k].cap, records[k].env) /\ Refuse(k, records[k].cap)
  /\ UNCHANGED <<env, fault, late, plans>>

-----------------------------------------------------------------------------
ExternalChange(d) ==
  /\ edits[d] < MaxEdits
  /\ revisions' = [revisions EXCEPT ![d] = @ + 1]
  /\ edits' = [edits EXCEPT ![d] = @ + 1]
  /\ UNCHANGED <<env, records, fault, late, plans, effects, fate, heard>>

InjectFault ==
  /\ \E t \in Faults, c \in Caps \cup {Anything} : fault' = [type |-> t, cap |-> c]
  /\ UNCHANGED <<env, revisions, records, late, plans, history>>

ClearFault ==
  /\ fault' = NoFault
  /\ UNCHANGED <<env, revisions, records, late, plans, history>>

NewEnvironment ==
  /\ env < MaxEnv /\ env' = env + 1
  /\ records' = [k \in Keys |-> NoRecord] /\ fault' = NoFault

\* force_new_environment keeps the state and its revisions.
ForceNewEnvironment ==
  /\ NewEnvironment
  /\ UNCHANGED <<revisions, late, plans, history>>

\* RESET_BUSY while an action is queued
ResetAllowed == \A k \in Keys : records[k].status # "QUEUED"
ResetToDefaults ==
  /\ ResetAllowed
  /\ NewEnvironment
  /\ revisions' = [d \in Domains |-> 1]
  /\ edits' = [d \in Domains |-> edits[d] + 1]
  /\ UNCHANGED <<late, plans, effects, fate, heard>>

\* Mutant: what was queued before the restart is reported as executed.
MutInterrupted(r) == IF r.status = "QUEUED" THEN [r EXCEPT !.status = "APPLIED", !.due = FALSE] ELSE r
Interrupted(r) == IF r.status = "QUEUED" THEN [r EXCEPT !.status = "NOT_APPLIED", !.due = FALSE] ELSE r
\* A restart: restore, terminate_queued_actions. Faults are gone. So are the
\* writers; that their plans may still be sent here is more than the code does.
Restart ==
  /\ records' = [k \in Keys |-> Interrupted(records[k])]
  /\ fate' = [k \in Keys |-> IF records[k].status = "QUEUED" THEN records'[k].status ELSE fate[k]]
  /\ fault' = NoFault
  /\ UNCHANGED <<env, revisions, late, plans, edits, effects, heard>>

DeadlinePasses(k) ==
  /\ late' = late \cup {k}
  /\ UNCHANGED <<env, revisions, records, fault, plans, history>>

Init ==
  /\ env = 1 /\ revisions = [d \in Domains |-> 1]
  /\ records = [k \in Keys |-> NoRecord] /\ fault = NoFault
  /\ late = {} /\ plans = [k \in Keys |-> NoPlan]
  /\ edits = [d \in Domains |-> 0] /\ effects = [k \in Keys |-> 0]
  /\ fate = [k \in Keys |-> "none"] /\ heard = [k \in Keys |-> "none"]

Next ==
  \/ \E k \in Keys : Snapshot(k) \/ Tick(k) \/ DeadlinePasses(k)
  \/ \E k \in Keys, c \in Caps : ApplyWrite(k, c)
  \/ \E d \in Domains : ExternalChange(d)
  \/ InjectFault \/ ClearFault \/ ForceNewEnvironment \/ ResetToDefaults \/ Restart
Spec == Init /\ [][Next]_vars
==============================================================================
