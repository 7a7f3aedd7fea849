------------------------------ MODULE Admission ------------------------------
(* Many requests, one device: HarnessService.create_run admits a run, the    *)
(* quota of its tenant and the circuit breaker of a capability domain        *)
(* (orchestration/quota.py, circuit.py) permitting. Of a run only what others *)
(* see is kept: whether it is active and where its write stands; the rest is *)
(* Harness. A run is named by the request that created it.                   *)
EXTENDS Integers, Sequences, FiniteSets

Nobody == "nobody"
NoDomain == "none"

CONSTANTS
  Requests,        \* submissions; one that is sent again is another submission
  Id, Tenant, Text, \* what a submission carries: functions on Requests
  Domains,         \* capability domains of the circuit breaker
  MaxConcurrent,   \* QuotaGovernor.max_concurrent_runs
  MaxRate,         \* QuotaGovernor.max_runs_per_minute; 0 switches the check off
  Window,          \* the 60 seconds
  Threshold,       \* DomainCircuitBreaker.failure_threshold
  MaxTime,         \* bound on the clock
  MaxSettled       \* bound on the writes of a domain

ASSUME AdmissionAssumption ==
  /\ DOMAIN Id = Requests /\ DOMAIN Tenant = Requests /\ DOMAIN Text = Requests
  /\ Nobody \notin Requests /\ NoDomain \notin Domains
  /\ MaxConcurrent \in Nat /\ MaxRate \in Nat /\ Window \in Nat /\ Threshold \in Nat \ {0}
  /\ MaxTime \in Nat /\ MaxSettled \in Nat

VARIABLES
  queue, admitting,     \* who waits for _admission, and who holds it
  answer,               \* what each submission was answered
  life, write, domain,  \* the runs: active or not, their write, its domain
  window, now,          \* QuotaGovernor._created
  failures, open,       \* DomainCircuitBreaker
  born, outcomes        \* history: creation times, results of the writes of a domain

vars == <<queue, admitting, answer, life, write, domain, window, now, failures, open, born, outcomes>>
runs == <<life, write, domain>>
breaker == <<failures, open, outcomes>>

Tenants == {Tenant[q] : q \in Requests}
Active(T) == {r \in Requests : life[r] = "active" /\ Tenant[r] \in T}
\* Mutant: only a run that writes keeps the device, as the method's name says.
MutBusy == \E r \in Requests : write[r] # "none"
\* store.has_active_write_run: "unknown" is unresolved_unknown.
Busy == \E r \in Requests : life[r] = "active" \/ write[r] = "unknown"

Submit(q) ==
  /\ answer[q] = "none"
  /\ answer' = [answer EXCEPT ![q] = "waiting"]
  /\ queue' = Append(queue, q)
  /\ UNCHANGED <<admitting, runs, window, now, breaker, born>>

SameRequest(q, r) == Id[q] = Id[r] /\ Tenant[q] = Tenant[r]
\* Mutant: a run that has ended is forgotten.
MutKnown(q) == {r \in Requests : life[r] = "active" /\ SameRequest(q, r)}
\* store.find_by_request_id
Known(q) == {r \in Requests : life[r] # "none" /\ SameRequest(q, r)}

\* Mutant: a creation leaves the window one tick early.
MutFresh(t) == now - t < Window
Fresh(t) == now - t <= Window
\* QuotaGovernor.check: what has left the window is popped from its head.
Recent(t) ==
  LET kept == {i \in 1..Len(window[t]) : Fresh(window[t][i])} IN
  IF kept = {} THEN <<>>
  ELSE SubSeq(window[t], CHOOSE i \in kept : \A j \in kept : i <= j, Len(window[t]))
RateSpent(t) == MaxRate > 0 /\ Len(Recent(t)) >= MaxRate

Refusal(q) ==
  IF Known(q) # {}
  THEN IF \E r \in Known(q) : Text[r] = Text[q] THEN "returned" ELSE "conflict"
  ELSE IF MaxConcurrent > 0 /\ Cardinality(Active({Tenant[q]})) >= MaxConcurrent THEN "quota"
  ELSE IF RateSpent(Tenant[q]) THEN "rate"
  ELSE IF Busy THEN "busy" ELSE "none"

\* The head of the queue has _admission and is answered without an await.
Refuse ==
  /\ queue # <<>> /\ admitting = Nobody /\ Refusal(Head(queue)) # "none"
  /\ LET q == Head(queue) IN
       /\ answer' = [answer EXCEPT ![q] = Refusal(q)]
       /\ window' = IF MaxRate > 0 /\ Refusal(q) \in {"rate", "busy"}
                    THEN [window EXCEPT ![Tenant[q]] = Recent(Tenant[q])] ELSE window
  /\ queue' = Tail(queue)
  /\ UNCHANGED <<admitting, runs, now, breaker, born>>

\* store.save and note_created, then append_event(RUN_RECEIVED)
Admit ==
  /\ queue # <<>> /\ admitting = Nobody /\ Refusal(Head(queue)) = "none"
  /\ LET q == Head(queue)
         kept == IF MaxRate > 0 THEN Recent(Tenant[q]) ELSE window[Tenant[q]] IN
       /\ life' = [life EXCEPT ![q] = "active"]
       /\ window' = [window EXCEPT ![Tenant[q]] = Append(kept, now)]
       /\ born' = [born EXCEPT ![q] = now]
       /\ admitting' = q
  /\ queue' = Tail(queue)
  /\ UNCHANGED <<answer, write, domain, now, breaker>>

\* The event is stored and the job is launched, or append_event raises: the run
\* stays active without a job, and only the deadline timer or a user ends it.
Launch ==
  /\ admitting # Nobody
  /\ \E a \in {"created", "failed"} : answer' = [answer EXCEPT ![admitting] = a]
  /\ admitting' = Nobody
  /\ UNCHANGED <<queue, runs, window, now, breaker, born>>

-----------------------------------------------------------------------------
(* The runs, as execute_write and its callers move them.                     *)

\* The checks of execute_write; an open circuit refuses, and the run will end.
Authorize(r, d) ==
  /\ life[r] = "active" /\ admitting # r /\ write[r] = "none"
  /\ d \notin open
  /\ write' = [write EXCEPT ![r] = "authorized"] /\ domain' = [domain EXCEPT ![r] = d]
  /\ UNCHANGED <<queue, admitting, answer, life, window, now, breaker, born>>

\* A cancellation, a new goal or an early return: the write is not sent.
Drop(r) ==
  /\ write[r] = "authorized"
  /\ write' = [write EXCEPT ![r] = "none"] /\ domain' = [domain EXCEPT ![r] = NoDomain]
  /\ UNCHANGED <<queue, admitting, answer, life, window, now, breaker, born>>

Dispatch(r) ==
  /\ write[r] = "authorized"
  /\ write' = [write EXCEPT ![r] = "dispatched"]
  /\ UNCHANGED <<queue, admitting, answer, life, domain, window, now, breaker, born>>

\* The reply is lost or the device holds the action.
BecomeUnknown(r) ==
  /\ write[r] = "dispatched"
  /\ write' = [write EXCEPT ![r] = "unknown"]
  /\ UNCHANGED <<queue, admitting, answer, life, domain, window, now, breaker, born>>

\* A query of the device finds the result.
Resolve(r) ==
  /\ write[r] = "unknown" /\ domain[r] # NoDomain
  /\ write' = [write EXCEPT ![r] = "dispatched"]
  /\ UNCHANGED <<queue, admitting, answer, life, domain, window, now, breaker, born>>

\* Mutant: a success resets the count and leaves the circuit open.
MutClose(d, ok) ==
  /\ failures' = [failures EXCEPT ![d] = IF ok THEN 0 ELSE @ + 1]
  /\ open' = IF ~ok /\ failures'[d] >= Threshold THEN open \cup {d} ELSE open
  /\ outcomes' = [outcomes EXCEPT ![d] = Append(@, ok)]
\* Mutant: a success does not reset the count.
MutNoteOutcome(d, ok) ==
  /\ failures' = [failures EXCEPT ![d] = IF ok THEN @ ELSE @ + 1]
  /\ open' = IF ok THEN open \ {d} ELSE IF failures'[d] >= Threshold THEN open \cup {d} ELSE open
  /\ outcomes' = [outcomes EXCEPT ![d] = Append(@, ok)]
\* _note_write_outcome: record_success, record_failure
NoteOutcome(d, ok) ==
  /\ failures' = [failures EXCEPT ![d] = IF ok THEN 0 ELSE @ + 1]
  /\ open' = IF ok THEN open \ {d} ELSE IF failures'[d] >= Threshold THEN open \cup {d} ELSE open
  /\ outcomes' = [outcomes EXCEPT ![d] = Append(@, ok)]

\* ACTION_SETTLED: APPLIED, NOT_APPLIED, or UNKNOWN for good
Settle(r, ok, s) ==
  /\ Len(outcomes[domain[r]]) < MaxSettled
  /\ write' = [write EXCEPT ![r] = s] /\ domain' = [domain EXCEPT ![r] = NoDomain]
  /\ NoteOutcome(domain[r], ok)
  /\ UNCHANGED <<queue, admitting, answer, life, window, now, born>>
SettleKnown(r) == write[r] = "dispatched" /\ \E ok \in BOOLEAN : Settle(r, ok, "none")
SettleUnknown(r) == write[r] = "unknown" /\ domain[r] # NoDomain /\ Settle(r, FALSE, "unknown")

\* The job concludes, a user cancels, the deadline passes: whoever finishes the
\* run takes run_lock, which execute_write holds up to the dispatch.
End(r) ==
  /\ life[r] = "active" /\ write[r] # "authorized"
  /\ life' = [life EXCEPT ![r] = "ended"]
  /\ UNCHANGED <<queue, admitting, answer, write, domain, window, now, breaker, born>>

Tick ==
  /\ now < MaxTime /\ now' = now + 1
  /\ UNCHANGED <<queue, admitting, answer, runs, window, breaker, born>>

Init ==
  /\ queue = <<>> /\ admitting = Nobody /\ answer = [q \in Requests |-> "none"]
  /\ life = [q \in Requests |-> "none"] /\ write = [q \in Requests |-> "none"]
  /\ domain = [q \in Requests |-> NoDomain]
  /\ window = [t \in Tenants |-> <<>>] /\ now = 0
  /\ failures = [d \in Domains |-> 0] /\ open = {} /\ outcomes = [d \in Domains |-> <<>>]
  /\ born = [q \in Requests |-> 0]

Next ==
  \/ Refuse \/ Admit \/ Launch \/ Tick
  \/ \E r \in Requests :
       \/ Submit(r) \/ Drop(r) \/ Dispatch(r) \/ BecomeUnknown(r) \/ Resolve(r)
       \/ SettleKnown(r) \/ SettleUnknown(r) \/ End(r)
       \/ \E d \in Domains : Authorize(r, d)
Spec == Init /\ [][Next]_vars
==============================================================================
