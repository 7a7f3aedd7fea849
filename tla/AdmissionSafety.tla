--------------------------- MODULE AdmissionSafety ---------------------------
(* What the requests of several tenants on one device may rely on.           *)
EXTENDS Admission

\* Every run is one of the submissions; windows hold past creation times; an
\* open circuit has reached the threshold.
TypeOK ==
  /\ queue \in Seq(Requests) /\ admitting \in Requests \cup {Nobody}
  /\ answer \in [Requests -> {"none", "waiting", "returned", "conflict", "quota", "rate", "busy",
                              "created", "failed"}]
  /\ life \in [Requests -> {"none", "active", "ended"}]
  /\ write \in [Requests -> {"none", "authorized", "dispatched", "unknown"}]
  /\ domain \in [Requests -> Domains \cup {NoDomain}]
  /\ window \in [Tenants -> Seq(0..MaxTime)] /\ now \in 0..MaxTime
  /\ failures \in [Domains -> 0..MaxSettled] /\ open \subseteq {d \in Domains : failures[d] >= Threshold}
  /\ outcomes \in [Domains -> Seq(BOOLEAN)] /\ born \in [Requests -> 0..MaxTime]

\* Two runs are never active together on the device, whichever tenants sent
\* them and however their requests are queued.
OneActive == \A r, s \in Requests : life[r] = "active" /\ life[s] = "active" => r = s

Created == {r \in Requests : life[r] # "none"}
\* A request that is sent again never makes a second run, also when the first
\* has ended; it gets the first run if its text is the same, else a conflict,
\* and is never mixed up with a request of another tenant.
SameRequestSameRun ==
  /\ \A r, s \in Created : SameRequest(r, s) => r = s
  /\ \A q \in Requests : answer[q] \in {"returned", "conflict"} =>
       \E r \in Created \ {q} : SameRequest(q, r) /\ (Text[r] = Text[q] <=> answer[q] = "returned")

\* No tenant starts more than MaxRate runs in any window, however the clock
\* moves while requests wait.
RateKept ==
  MaxRate > 0 => \A r \in Created :
    Cardinality({s \in Created : Tenant[s] = Tenant[r] /\ born[s] <= born[r] /\ born[r] - born[s] <= Window})
      <= MaxRate

\* The circuit of a domain is open exactly while the last Threshold writes of
\* it, those of ended runs included, all failed.
CircuitExact ==
  \A d \in Domains :
    d \in open <=> Len(outcomes[d]) >= Threshold
                   /\ \A i \in (Len(outcomes[d]) - Threshold + 1)..Len(outcomes[d]) : ~outcomes[d][i]
==============================================================================
