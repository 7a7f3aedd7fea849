---------------------------- MODULE DeviceContract ----------------------------
(* The device as the executor relies on it: the fate of each action it was    *)
(* sent, which never changes once it is decided, and what the sender heard.  *)
EXTENDS DevicePort

CONSTANT Actions
VARIABLES fate, answer, gone, late
\* gone, late: the actions whose environment or deadline has passed

Init ==
  /\ fate = [a \in Actions |-> "none"] /\ answer = [a \in Actions |-> "none"]
  /\ gone = {} /\ late = {}

Receive(a) ==
  /\ fate[a] = "none"
  /\ \E o \in WriteOutcomes(a \notin gone \cup late) :
       fate' = [fate EXCEPT ![a] = o.end] /\ answer' = [answer EXCEPT ![a] = o.answer]
  /\ UNCHANGED <<gone, late>>

End(a) ==
  /\ fate[a] = "QUEUED" /\ a \notin gone
  /\ \E o \in TickOutcomes(a \in late) : fate' = [fate EXCEPT ![a] = o]
  /\ UNCHANGED <<answer, gone, late>>

\* A restart gives up what the device still holds; its senders are gone.
GiveUp ==
  /\ fate' = [a \in Actions |->
                IF fate[a] \in {"QUEUED", "STUCK"} /\ a \notin gone THEN "NOT_APPLIED" ELSE fate[a]]
  /\ UNCHANGED <<answer, gone, late>>

Pass ==
  /\ gone \subseteq gone' /\ late \subseteq late'
  /\ UNCHANGED <<fate, answer>>

Next == GiveUp \/ Pass \/ \E a \in Actions : Receive(a) \/ End(a)
Spec == Init /\ [][Next]_<<fate, answer, gone, late>>
==============================================================================
