------------------------------ MODULE Contracts ------------------------------
(* The enumerations every part of the runtime shares (contracts.py), and the *)
(* total functions the code defines on them.                                 *)

\* RunLifecycle, split as RunLifecycle.is_terminal splits it.
TerminalLifecycles ==
  {"COMPLETED", "PARTIAL", "FAILED", "STOPPED", "CANCELLED", "TIMED_OUT", "INTERRUPTED"}
WaitingLifecycles == {"WAITING_CLARIFICATION", "WAITING_CONFIRMATION"}
Lifecycles == {"RECEIVED", "RUNNING"} \cup WaitingLifecycles \cup TerminalLifecycles

\* ExecutionStatus of a ToolAction; PREPARED is the status of a record that no
\* action uses yet (the default of the field).
ExecutionStatuses ==
  {"PREPARED", "PROPOSED", "AUTHORIZED", "DISPATCHED", "ACKNOWLEDGED", "APPLIED",
   "NOT_APPLIED", "UNKNOWN", "REJECTED", "CANCELLED_BEFORE_DISPATCH"}
\* An action the device may or may not have executed.
Uncertain == {"DISPATCHED", "ACKNOWLEDGED", "UNKNOWN"}
\* An action that went to the device.
Sent == Uncertain \cup {"APPLIED", "NOT_APPLIED"}

Overalls == {"COMPLETED", "PARTIAL", "FAILED", "UNKNOWN"}

\* OverallOutcome.to_lifecycle
ToLifecycle(overall) == IF overall = "UNKNOWN" THEN "STOPPED" ELSE overall

\* RouteType
Routes == {"NONE", "FAST", "MULTI_AGENT", "CHAT", "CLARIFY", "REJECT"}
==============================================================================
