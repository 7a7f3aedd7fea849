--------------------------- MODULE ActionContract ---------------------------
(* What the executor promises its caller about the writes of one run, with    *)
(* no word on locks, events, approvals or queries: a write is sent at most    *)
(* once, never while another one is in doubt, and its fate is reported once.  *)
CONSTANT Actions
VARIABLE phase

Phases == {"unsent", "dropped", "sent", "unknown", "applied", "notApplied"}
InDoubt == {"sent", "unknown"}

Init == phase = [a \in Actions |-> "unsent"]

\* Writes are given up before anything was sent.
Drop(S) ==
  /\ \A a \in S : phase[a] = "unsent"
  /\ phase' = [a \in Actions |-> IF a \in S THEN "dropped" ELSE phase[a]]

Send(a) ==
  /\ phase[a] = "unsent"
  /\ \A b \in Actions : phase[b] \notin InDoubt
  /\ phase' = [phase EXCEPT ![a] = "sent"]

\* A reply or a query tells what became of the write, or that nobody knows.
Report(a) ==
  /\ phase[a] \in InDoubt
  /\ \E p \in {"unknown", "applied", "notApplied"} : phase' = [phase EXCEPT ![a] = p]

Next == (\E S \in SUBSET Actions : Drop(S)) \/ (\E a \in Actions : Send(a) \/ Report(a))
Spec == Init /\ [][Next]_phase
==============================================================================
