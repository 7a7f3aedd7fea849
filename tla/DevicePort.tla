------------------------------ MODULE DevicePort ------------------------------
(* What DevicePort promises about one write (device/port.py): the outcomes    *)
(* the executor counts with, and the simulator keeps to.                     *)

\* How apply_write leaves an action, and what its caller hears. An action whose
\* environment is gone or whose deadline has passed is refused, and says so.
\* Otherwise it is executed or refused, with a reply or without; held QUEUED
\* until a tick ends it; or held and never ended (STUCK), the caller timing out.
WriteOutcomes(fit) ==
  IF fit
  THEN [end : {"APPLIED", "NOT_APPLIED"}, answer : {"reply", "lost"}]
         \cup {[end |-> "QUEUED", answer |-> "reply"], [end |-> "STUCK", answer |-> "lost"]}
  ELSE [end : {"NOT_APPLIED"}, answer : {"reply"}]

\* How a tick ends a QUEUED action.
TickOutcomes(late) == IF late THEN {"NOT_APPLIED"} ELSE {"APPLIED", "NOT_APPLIED"}
==============================================================================
