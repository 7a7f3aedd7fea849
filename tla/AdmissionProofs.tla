-------------------------- MODULE AdmissionProofs --------------------------
(* For any number of submissions, tenants, domains and any limits: one run is *)
(* active at a time, a request makes one run, no tenant starts more runs in a *)
(* window than it may, and the circuit breaker is open exactly after Threshold *)
(* failures in a row.                                                        *)
EXTENDS AdmissionSafety, SequenceTheorems, FiniteSetTheorems, FunctionTheorems, WellFoundedInduction, TLAPS

RunType ==
  /\ queue \in Seq(Requests) /\ admitting \in Requests \cup {Nobody}
  /\ life \in [Requests -> {"none", "active", "ended"}]

\* What a step does to the runs as admission sees them.
LEMMA HeadOfQueue ==
  ASSUME RunType, queue # <<>>
  PROVE  /\ Head(queue) \in Requests /\ Head(queue) = queue[1] /\ Tail(queue) \in Seq(Requests)
         /\ Len(Tail(queue)) = Len(queue) - 1 /\ Len(queue) \in Nat \ {0}
         /\ \A i \in 1..Len(Tail(queue)) : Tail(queue)[i] = queue[i + 1]
  BY HeadTailProperties, EmptySeq DEF RunType

LEMMA LifeStep ==
  ASSUME RunType, Next
  PROVE  \/ life' = life
         \/ \E r \in Requests : life[r] = "active" /\ life' = [life EXCEPT ![r] = "ended"]
         \/ /\ queue # <<>> /\ admitting = Nobody /\ Refusal(Head(queue)) = "none"
            /\ life' = [life EXCEPT ![Head(queue)] = "active"]
  BY DEF Next, Refuse, Admit, Launch, Tick, Submit, Drop, Dispatch, BecomeUnknown, Resolve, SettleKnown,
         SettleUnknown, Settle, NoteOutcome, End, Authorize, runs

LEMMA RunTypeInit == Init => RunType
  BY EmptySeq DEF Init, RunType

LEMMA RunTypeStep ==
  ASSUME RunType, [Next]_vars
  PROVE  RunType'
<1>1. CASE UNCHANGED vars  BY <1>1 DEF vars, RunType
<1>2. CASE Next
  <2>1. life' \in [Requests -> {"none", "active", "ended"}]
    BY <1>2, LifeStep DEF RunType
  <2>2. queue' \in Seq(Requests) /\ admitting' \in Requests \cup {Nobody}
    <3>1. ASSUME NEW q \in Requests, Submit(q) PROVE <2>2
      BY <3>1, AppendProperties DEF Submit, RunType
    <3>2. CASE Refuse \/ Admit  BY <3>2, HeadOfQueue DEF Refuse, Admit, RunType
    <3>3. CASE UNCHANGED <<queue, admitting>>  BY <3>3 DEF RunType
    <3>4. CASE Launch  BY <3>4 DEF Launch, RunType
    <3> QED  BY <1>2, <3>1, <3>2, <3>3, <3>4
      DEF Next, Tick, Drop, Dispatch, BecomeUnknown, Resolve, SettleKnown, SettleUnknown, Settle, End, Authorize
  <2> QED  BY <2>1, <2>2 DEF RunType
<1> QED  BY <1>1, <1>2
----------------------------------------------------------------------------
ActiveInv == RunType /\ OneActive

\* At most one run is active on the device: the check of has_active_write_run and
\* the save of the new run are one step under _admission.
THEOREM OneActiveHolds == Spec => []OneActive
<1>1. Init => ActiveInv
  BY RunTypeInit DEF Init, OneActive, ActiveInv
<1>2. ActiveInv /\ [Next]_vars => ActiveInv'
  <2> SUFFICES ASSUME ActiveInv, [Next]_vars PROVE OneActive'
    BY RunTypeStep DEF ActiveInv
  <2> USE DEF ActiveInv
  <2>1. CASE life' = life  BY <2>1 DEF OneActive
  <2>2. CASE \E r \in Requests : life[r] = "active" /\ life' = [life EXCEPT ![r] = "ended"]
    BY <2>2 DEF OneActive, RunType
  <2>3. CASE /\ queue # <<>> /\ Refusal(Head(queue)) = "none"
             /\ life' = [life EXCEPT ![Head(queue)] = "active"]
    <3>1. \A r \in Requests : life[r] # "active"
      BY <2>3 DEF Refusal, Busy
    <3> QED  BY <3>1, <2>3, HeadOfQueue DEF OneActive, RunType
  <2> QED  BY <2>1, <2>2, <2>3, LifeStep DEF vars
<1> QED  BY <1>1, <1>2, PTL DEF Spec, ActiveInv
----------------------------------------------------------------------------
\* A submission is queued once, before it has a run.
QueueInv ==
  /\ \A i \in 1..Len(queue) : answer[queue[i]] = "waiting" /\ life[queue[i]] = "none"
  /\ \A i, j \in 1..Len(queue) : queue[i] = queue[j] => i = j
  /\ \A q \in Requests : answer[q] = "none" => life[q] = "none"
  /\ admitting # Nobody => life[admitting] # "none" /\ answer[admitting] = "waiting"
  /\ DOMAIN answer = Requests
RequestInv == RunType /\ QueueInv /\ SameRequestSameRun

\* Created runs are never forgotten, and only the head of the queue gets a run.
LEMMA CreatedStep ==
  ASSUME RequestInv, Next
  PROVE  \/ Created' = Created
         \/ /\ queue # <<>> /\ Refusal(Head(queue)) = "none"
            /\ life' = [life EXCEPT ![Head(queue)] = "active"]
            /\ Created' = Created \cup {Head(queue)}
<1> USE DEF RequestInv
<1>1. CASE life' = life  BY <1>1 DEF Created
<1>2. CASE \E r \in Requests : life[r] = "active" /\ life' = [life EXCEPT ![r] = "ended"]
  BY <1>2 DEF Created, RunType
<1>3. CASE /\ queue # <<>> /\ Refusal(Head(queue)) = "none"
           /\ life' = [life EXCEPT ![Head(queue)] = "active"]
  BY <1>3, HeadOfQueue DEF Created, RunType
<1> QED  BY <1>1, <1>2, <1>3, LifeStep

LEMMA QueueStep ==
  ASSUME RequestInv, Next
  PROVE  QueueInv'
<1> USE DEF RequestInv
<1>1. ASSUME NEW q \in Requests, Submit(q) PROVE QueueInv'
  BY <1>1, AppendProperties DEF Submit, QueueInv, RunType, runs
<1>2. CASE Refuse
  <2>1. \A i \in 1..Len(queue') : queue'[i] = queue[i + 1] /\ i + 1 \in 1..Len(queue) /\ queue[i + 1] # Head(queue)
    BY <1>2, HeadOfQueue DEF Refuse, QueueInv
  <2> QED  BY <1>2, <2>1, HeadOfQueue DEF Refuse, QueueInv, RunType, runs
<1>3. CASE Admit
  <2>1. \A i \in 1..Len(queue') : queue'[i] = queue[i + 1] /\ i + 1 \in 1..Len(queue) /\ queue[i + 1] # Head(queue)
    BY <1>3, HeadOfQueue DEF Admit, QueueInv
  <2> QED  BY <1>3, <2>1, HeadOfQueue DEF Admit, QueueInv, RunType
<1>4. CASE Launch
  BY <1>4 DEF Launch, QueueInv, RunType, runs
<1>5. ASSUME NEW r \in Requests, End(r) PROVE QueueInv'
  BY <1>5 DEF End, QueueInv, RunType
<1>6. CASE UNCHANGED <<queue, admitting, answer, life>>
  BY <1>6 DEF QueueInv
<1> QED  BY <1>1, <1>2, <1>3, <1>4, <1>5, <1>6
  DEF Next, Tick, Drop, Dispatch, BecomeUnknown, Resolve, SettleKnown, SettleUnknown, Settle, Authorize, runs

LEMMA RequestInit == Init => RequestInv
  BY RunTypeInit, EmptySeq DEF Init, QueueInv, RequestInv, SameRequestSameRun, Created

LEMMA RequestStep ==
  ASSUME RequestInv, [Next]_vars
  PROVE  RequestInv'
<1> SUFFICES QueueInv' /\ SameRequestSameRun'
  BY RunTypeStep DEF RequestInv
<1> USE DEF RequestInv
<1>1. CASE UNCHANGED vars
  BY <1>1 DEF vars, QueueInv, SameRequestSameRun, Created
<1>2. CASE Next
  <2>1. \A r, s \in Created' : SameRequest(r, s) => r = s
    <3>1. CASE Created' = Created  BY <3>1 DEF SameRequestSameRun
    <3>2. CASE Refusal(Head(queue)) = "none" /\ queue # <<>> /\ Created' = Created \cup {Head(queue)}
      <4>1. \A r \in Created : ~SameRequest(Head(queue), r)
        BY <3>2 DEF Refusal, Known, Created
      <4> QED  BY <3>2, <4>1 DEF SameRequestSameRun, SameRequest
    <3> QED  BY <1>2, <3>1, <3>2, CreatedStep
  <2>2. ASSUME NEW q \in Requests, answer'[q] \in {"returned", "conflict"}
        PROVE  \E r \in Created' \ {q} : SameRequest(q, r) /\ (Text[r] = Text[q] <=> answer'[q] = "returned")
    <3>1. CASE answer'[q] = answer[q]
      BY <1>2, <2>2, <3>1, CreatedStep DEF SameRequestSameRun
    <3>2. CASE answer'[q] # answer[q]
      <4>0. \/ answer' = answer \/ Refuse
            \/ \E r \in Requests : answer' = [answer EXCEPT ![r] = "waiting"]
            \/ \E a \in {"created", "failed"} : answer' = [answer EXCEPT ![admitting] = a]
        BY <1>2 DEF Next, Admit, Launch, Tick, Submit, Drop, Dispatch, BecomeUnknown, Resolve,
           SettleKnown, SettleUnknown, Settle, End, Authorize
      <4>1. Refuse /\ q = Head(queue) /\ answer'[q] = Refusal(q)
        <5>1. Refuse  BY <2>2, <3>2, <4>0 DEF QueueInv
        <5>2. answer' = [answer EXCEPT ![Head(queue)] = Refusal(Head(queue))]  BY <5>1 DEF Refuse
        <5> QED  BY <3>2, <5>1, <5>2 DEF QueueInv
      <4>2. q \notin Created
        BY <4>1, HeadOfQueue DEF Refuse, QueueInv, Created
      <4>3. Known(q) # {} /\ (answer'[q] = "returned" <=> \E r \in Known(q) : Text[r] = Text[q])
        BY <2>2, <4>1 DEF Refusal
      <4>4. Created' = Created  BY <4>1 DEF Refuse, Created, runs
      <4> QED  BY <4>2, <4>3, <4>4 DEF Known, Created
    <3> QED  BY <3>1, <3>2
  <2> QED  BY <1>2, <2>1, <2>2, QueueStep DEF SameRequestSameRun, SameRequest
<1> QED  BY <1>1, <1>2

\* A request that is sent again never makes a second run and is answered with
\* the first one: find_by_request_id sees every run that was ever saved.
THEOREM SameRequestSameRunHolds == Spec => []SameRequestSameRun
  BY RequestInit, RequestStep, PTL DEF Spec, RequestInv
----------------------------------------------------------------------------
\* The runs of a tenant that may still count against its rate.
Live(t) == {s \in Created : Tenant[s] = t /\ now - born[s] <= Window}
\* Places in a window w for the creations of the runs L.
Places(f, L, w, made) ==
  /\ f \in [L -> 1..Len(w)]
  /\ \A s \in L : w[f[s]] = made[s]
  /\ \A r, s \in L : f[r] = f[s] => r = s
\* No creation was in the future, and each that may still count has an entry.
WindowInv ==
  /\ window \in [Tenants -> Seq(Nat)] /\ now \in Nat /\ born \in [Requests -> Nat]
  /\ \A s \in Created : born[s] <= now
  /\ \A t \in Tenants : \E f \in [Live(t) -> 1..Len(window[t])] : Places(f, Live(t), window[t], born)
RateInv == RequestInv /\ WindowInv /\ RateKept

\* Popping what has left the window keeps everything that is in it.
LEMMA RecentKeeps ==
  ASSUME WindowInv, NEW t \in Tenants
  PROVE  /\ Recent(t) \in Seq(Nat)
         /\ \E k \in 0..Len(window[t]) :
              /\ Len(Recent(t)) = Len(window[t]) - k
              /\ \A i \in 1..Len(Recent(t)) : Recent(t)[i] = window[t][i + k]
              /\ \A i \in 1..Len(window[t]) : Fresh(window[t][i]) => i > k
<1> DEFINE w == window[t]
           kept == {i \in 1..Len(w) : Fresh(w[i])}
           first == CHOOSE i \in kept : \A j \in kept : i <= j
<1>1. w \in Seq(Nat) /\ Len(w) \in Nat /\ \A i \in 1..Len(w) : w[i] \in Nat
  BY ElementOfSeq, LenProperties DEF WindowInv
<1>2. CASE kept = {}
  <2>1. Recent(t) = <<>>
    BY <1>2 DEF Recent
  <2> QED  BY <1>1, <1>2, <2>1, EmptySeq
<1>3. CASE kept # {}
  <2>1. \E i \in kept : \A j \in kept : i <= j
    <3>1. kept \subseteq Nat
      BY <1>1
    <3>2. PICK i \in kept : \A j \in kept : <<j, i>> \notin OpToRel(<, Nat)
      <4> HIDE DEF kept
      <4> QED  BY <1>3, <3>1, NatLessThanWellFounded, WFMin
    <3>3. \A j \in kept : ~(j < i)
      BY <3>1, <3>2 DEF OpToRel
    <3> QED  BY <3>1, <3>3
  <2>2. first \in kept /\ \A j \in kept : first <= j
    BY <2>1
  <2>3. Recent(t) = SubSeq(w, first, Len(w))
    BY <1>3 DEF Recent
  <2>4. first \in 1..Len(w) /\ first - 1 \in 0..Len(w)
    BY <1>1, <2>2
  <2> HIDE DEF first
  <2>5. /\ SubSeq(w, first, Len(w)) \in Seq(Nat) /\ Len(SubSeq(w, first, Len(w))) = Len(w) - first + 1
        /\ \A i \in 1..(Len(w) - first + 1) : SubSeq(w, first, Len(w))[i] = w[first + i - 1]
    BY <1>1, <2>4, SubSeqProperties
  <2>6. \A i \in 1..Len(Recent(t)) : Recent(t)[i] = w[i + (first - 1)]
    BY <1>1, <2>3, <2>4, <2>5
  <2>7. \A i \in 1..Len(w) : Fresh(w[i]) => i > first - 1
    BY <2>2, <2>4
  <2>8. Recent(t) \in Seq(Nat) /\ Len(Recent(t)) = Len(w) - (first - 1)
    BY <1>1, <2>3, <2>4, <2>5
  <2> QED  BY <2>4, <2>6, <2>7, <2>8
<1> QED  BY <1>2, <1>3

LEMMA RecentPlaces ==
  ASSUME WindowInv, NEW t \in Tenants
  PROVE  \E g \in [Live(t) -> 1..Len(Recent(t))] : Places(g, Live(t), Recent(t), born)
<1>1. PICK f \in [Live(t) -> 1..Len(window[t])] : Places(f, Live(t), window[t], born)
  BY DEF WindowInv
<1>2. PICK k \in 0..Len(window[t]) :
        /\ Len(Recent(t)) = Len(window[t]) - k
        /\ \A i \in 1..Len(Recent(t)) : Recent(t)[i] = window[t][i + k]
        /\ \A i \in 1..Len(window[t]) : Fresh(window[t][i]) => i > k
  BY RecentKeeps
<1>3. Len(window[t]) \in Nat
  BY LenProperties DEF WindowInv
<1> DEFINE g == [s \in Live(t) |-> f[s] - k]
<1>4. ASSUME NEW s \in Live(t)
      PROVE  g[s] \in 1..Len(Recent(t)) /\ g[s] + k = f[s] /\ Recent(t)[g[s]] = born[s]
  <2>1. f[s] \in 1..Len(window[t]) /\ window[t][f[s]] = born[s] /\ Fresh(born[s])
    BY <1>1 DEF Places, Live, Fresh
  <2>2. f[s] > k
    BY <1>2, <2>1
  <2> QED  BY <1>2, <1>3, <2>1, <2>2
<1>5. g \in [Live(t) -> 1..Len(Recent(t))]
  BY <1>4
<1>6. \A r, s \in Live(t) : g[r] = g[s] => r = s
  <2> SUFFICES ASSUME NEW r \in Live(t), NEW s \in Live(t), g[r] = g[s]  PROVE r = s
    OBVIOUS
  <2>1. f[r] = f[s]
    BY <1>4
  <2> QED  BY <1>1, <2>1 DEF Places
<1> QED  BY <1>4, <1>5, <1>6 DEF Places

\* So no more runs may still count than the window has entries.
LEMMA LiveCount ==
  ASSUME WindowInv, NEW t \in Tenants
  PROVE  /\ IsFiniteSet(Live(t)) /\ Cardinality(Live(t)) \in Nat
         /\ Cardinality(Live(t)) <= Len(Recent(t)) /\ Len(Recent(t)) \in Nat
<1>1. PICK g \in [Live(t) -> 1..Len(Recent(t))] : Places(g, Live(t), Recent(t), born)
  BY RecentPlaces
<1>2. g \in Injection(Live(t), 1..Len(Recent(t)))
  BY <1>1, Fun_IsInj DEF Places
<1>3. Len(Recent(t)) \in Nat
  BY RecentKeeps, LenProperties
<1>4. IsFiniteSet(1..Len(Recent(t))) /\ Cardinality(1..Len(Recent(t))) = Len(Recent(t))
  <2>1. \A m \in Nat : IsFiniteSet(1..m) /\ Cardinality(1..m) = m
    <3> SUFFICES ASSUME NEW m \in Nat  PROVE IsFiniteSet(1..m) /\ Cardinality(1..m) = m
      OBVIOUS
    <3>1. Cardinality(1..m) = IF 1 > m THEN 0 ELSE m - 1 + 1
      BY FS_Interval
    <3> QED  BY <3>1, FS_Interval
  <2> QED  BY <1>3, <2>1
<1>5. IsFiniteSet(Live(t)) /\ Cardinality(Live(t)) <= Len(Recent(t))
  BY <1>2, <1>4, FS_Injection
<1> QED  BY <1>3, <1>5, FS_CardinalityType

LEMMA AdmitWindow ==
  ASSUME RequestInv, WindowInv, Admit, NEW q, q = Head(queue), NEW t, t = Tenant[q]
  PROVE  WindowInv'
<1> DEFINE kept == IF MaxRate > 0 THEN Recent(t) ELSE window[t]
<1>1. /\ q \in Requests /\ t \in Tenants /\ q \notin Created /\ Created' = Created \cup {q}
      /\ window' = [window EXCEPT ![t] = Append(kept, now)] /\ born' = [born EXCEPT ![q] = now] /\ now' = now
  BY HeadOfQueue DEF RequestInv, RunType, QueueInv, Admit, Created, Tenants
<1>2. kept \in Seq(Nat) /\ Len(kept) \in Nat
  BY <1>1, RecentKeeps, LenProperties DEF WindowInv
<1>3. PICK g \in [Live(t) -> 1..Len(kept)] : Places(g, Live(t), kept, born)
  BY <1>1, RecentPlaces DEF WindowInv
<1> HIDE DEF kept
<1>4. /\ Append(kept, now) \in Seq(Nat) /\ Len(Append(kept, now)) = Len(kept) + 1
      /\ Append(kept, now)[Len(kept) + 1] = now
      /\ \A i \in 1..Len(kept) : Append(kept, now)[i] = kept[i]
  BY <1>2, AppendProperties DEF WindowInv
<1>5. \A s \in Created : s # q /\ s \in Requests /\ born'[s] = born[s]
  BY <1>1 DEF WindowInv, Created
<1>6. \A u \in Tenants : Live(u)' = IF u = t THEN Live(u) \cup {q} ELSE Live(u)
  <2>1. born'[q] = now /\ now - now <= Window
    BY <1>1, AdmissionAssumption DEF WindowInv
  <2> QED  BY <1>1, <1>5, <2>1 DEF Live
<1>7. ASSUME NEW u \in Tenants
      PROVE  \E f \in [Live(u)' -> 1..Len(window'[u])] : Places(f, Live(u)', window'[u], born')
  <2>1. CASE u # t
    <3>1. Live(u)' = Live(u) /\ window'[u] = window[u] /\ \A s \in Live(u) : born'[s] = born[s]
      BY <1>1, <1>5, <1>6, <2>1 DEF WindowInv, Live
    <3>2. PICK f \in [Live(u) -> 1..Len(window[u])] : Places(f, Live(u), window[u], born)
      BY DEF WindowInv
    <3>3. Places(f, Live(u)', window'[u], born')
      BY <3>1, <3>2 DEF Places
    <3> QED  BY <3>1, <3>3
  <2>2. CASE u = t
    <3> DEFINE f == [s \in Live(t)' |-> IF s = q THEN Len(kept) + 1 ELSE g[s]]
    <3>1. window'[t] = Append(kept, now) /\ Live(t)' = Live(t) \cup {q} /\ born'[q] = now
      <4>1. window'[t] = Append(kept, now) /\ born'[q] = now
        BY <1>1 DEF WindowInv
      <4>2. Live(t)' = Live(t) \cup {q}
        BY <1>1, <1>6
      <4> QED  BY <4>1, <4>2
    <3>2. \A s \in Live(t) : s # q /\ f[s] = g[s] /\ g[s] \in 1..Len(kept) /\ born'[s] = born[s]
      BY <1>3, <1>5, <3>1 DEF Live
    <3>3. f[q] = Len(kept) + 1
      BY <3>1
    <3>4. f \in [Live(t)' -> 1..Len(window'[t])]
      BY <1>2, <1>4, <3>1, <3>2, <3>3
    <3>5. \A s \in Live(t)' : window'[t][f[s]] = born'[s]
      BY <1>3, <1>4, <3>1, <3>2, <3>3 DEF Places
    <3>6. \A r, s \in Live(t)' : f[r] = f[s] => r = s
      <4> HIDE DEF f
      <4>1. \A s \in Live(t) : f[s] # f[q]
        BY <1>2, <3>2, <3>3
      <4>2. \A r, s \in Live(t) : f[r] = f[s] => r = s
        BY <1>3, <3>2 DEF Places
      <4> QED  BY <3>1, <4>1, <4>2
    <3>7. Places(f, Live(t)', window'[t], born')
      BY <3>4, <3>5, <3>6 DEF Places
    <3> HIDE DEF f
    <3> QED  BY <2>2, <3>4, <3>7
  <2> QED  BY <2>1, <2>2
<1>8. window' \in [Tenants -> Seq(Nat)] /\ now' \in Nat /\ born' \in [Requests -> Nat]
  BY <1>1, <1>4 DEF WindowInv
<1>9. \A s \in Created' : born'[s] <= now'
  BY <1>1, <1>5 DEF WindowInv
<1> QED  BY <1>7, <1>8, <1>9 DEF WindowInv

LEMMA RefuseWindow ==
  ASSUME RequestInv, WindowInv, Refuse
  PROVE  WindowInv' /\ Created' = Created /\ born' = born
<1> DEFINE q == Head(queue)  t == Tenant[q]
<1>1. /\ t \in Tenants /\ Created' = Created /\ born' = born /\ now' = now
      /\ window' = window \/ window' = [window EXCEPT ![t] = Recent(t)]
  BY HeadOfQueue DEF RequestInv, Refuse, Created, Tenants, runs
<1>2. \A u \in Tenants : Live(u)' = Live(u)
  BY <1>1 DEF Live
<1>3. ASSUME NEW u \in Tenants
      PROVE  \E f \in [Live(u)' -> 1..Len(window'[u])] : Places(f, Live(u)', window'[u], born')
  <2>1. CASE window'[u] = window[u]
    <3>1. PICK f \in [Live(u) -> 1..Len(window[u])] : Places(f, Live(u), window[u], born)
      BY DEF WindowInv
    <3>2. Places(f, Live(u)', window'[u], born')
      BY <1>1, <1>2, <2>1, <3>1 DEF Places
    <3> QED  BY <1>2, <2>1, <3>1, <3>2
  <2>2. CASE window'[u] = Recent(u)
    <3>1. PICK f \in [Live(u) -> 1..Len(Recent(u))] : Places(f, Live(u), Recent(u), born)
      BY RecentPlaces
    <3>2. Places(f, Live(u)', window'[u], born')
      BY <1>1, <1>2, <2>2, <3>1 DEF Places
    <3> QED  BY <1>2, <2>2, <3>1, <3>2
  <2> QED  BY <1>1, <2>1, <2>2 DEF WindowInv
<1>4. window' \in [Tenants -> Seq(Nat)]
  BY <1>1, RecentKeeps DEF WindowInv
<1> QED  BY <1>1, <1>3, <1>4 DEF WindowInv

LEMMA TickWindow ==
  ASSUME WindowInv, Tick
  PROVE  WindowInv' /\ Created' = Created /\ born' = born
<1>1. Created' = Created /\ born' = born /\ now' = now + 1 /\ window' = window /\ now \in Nat
  BY DEF Tick, Created, runs, WindowInv
<1>2. ASSUME NEW t \in Tenants
      PROVE  \E f \in [Live(t)' -> 1..Len(window'[t])] : Places(f, Live(t)', window'[t], born')
  <2>1. PICK g \in [Live(t) -> 1..Len(window[t])] : Places(g, Live(t), window[t], born)
    BY DEF WindowInv
  <2>2. Live(t)' \subseteq Live(t)
    <3> SUFFICES ASSUME NEW s \in Live(t)'  PROVE s \in Live(t)
      OBVIOUS
    <3>1. s \in Created /\ Tenant[s] = t /\ (now + 1) - born[s] <= Window
      BY <1>1 DEF Live
    <3>2. born[s] \in Nat /\ Window \in Nat
      BY <3>1, AdmissionAssumption DEF WindowInv, Created
    <3> QED  BY <1>1, <3>1, <3>2 DEF Live
  <2> DEFINE f == [s \in Live(t)' |-> g[s]]
  <2>3. f \in [Live(t)' -> 1..Len(window'[t])]
    BY <1>1, <2>1, <2>2
  <2>4. Places(f, Live(t)', window'[t], born')
    BY <1>1, <2>1, <2>2, <2>3 DEF Places
  <2> QED  BY <2>3, <2>4
<1>3. \A s \in Created : born[s] <= now + 1
  BY <1>1 DEF WindowInv, Created
<1> QED  BY <1>1, <1>2, <1>3 DEF WindowInv

LEMMA OtherWindow ==
  ASSUME WindowInv, UNCHANGED <<Created, born, now, window>>
  PROVE  WindowInv'
<1>1. \A t \in Tenants : Live(t)' = Live(t)
  BY DEF Live
<1>2. ASSUME NEW t \in Tenants, NEW f, Places(f, Live(t), window[t], born)  PROVE Places(f, Live(t)', window'[t], born')
  BY <1>1, <1>2 DEF Places
<1> QED  BY <1>1, <1>2 DEF WindowInv

LEMMA WindowStep ==
  ASSUME RequestInv, WindowInv, [Next]_vars
  PROVE  WindowInv' /\ (Admit \/ UNCHANGED <<Created, born>>)
<1>1. CASE Admit  BY <1>1, AdmitWindow
<1>2. CASE Refuse  BY <1>2, RefuseWindow
<1>3. CASE Tick  BY <1>3, TickWindow
<1>4. ASSUME NEW r \in Requests, End(r)  PROVE UNCHANGED <<Created, born, now, window>>
  BY <1>4 DEF End, Created, RequestInv, RunType
<1>5. CASE UNCHANGED <<life, born, now, window>>
  BY <1>5, OtherWindow DEF Created
<1> QED  BY <1>1, <1>2, <1>3, <1>4, <1>5, OtherWindow
  DEF Next, vars, Launch, Submit, Drop, Dispatch, BecomeUnknown, Resolve, SettleKnown, SettleUnknown, Settle,
      Authorize, runs

\* The runs that count against the rate together with r.
Beside(r) == {s \in Created : Tenant[s] = Tenant[r] /\ born[s] <= born[r] /\ born[r] - born[s] <= Window}

LEMMA RateInit == Init => RateInv
<1> SUFFICES ASSUME Init PROVE RateInv  OBVIOUS
<1>1. Created = {} /\ \A t \in Tenants : window[t] = <<>> /\ Live(t) = {}
  BY DEF Init, Created, Live
<1>2. RequestInv
  BY RequestInit
<1>3. window \in [Tenants -> Seq(Nat)] /\ now \in Nat /\ born \in [Requests -> Nat]
  BY EmptySeq DEF Init
<1>4. ASSUME NEW t \in Tenants
      PROVE  \E f \in [Live(t) -> 1..Len(window[t])] : Places(f, Live(t), window[t], born)
  <2> DEFINE f == [s \in Live(t) |-> 1]
  <2>1. f \in [Live(t) -> 1..Len(window[t])] /\ Places(f, Live(t), window[t], born)
    BY <1>1 DEF Places
  <2> QED  BY <2>1
<1> QED  BY <1>1, <1>2, <1>3, <1>4 DEF RateInv, WindowInv, RateKept

\* No tenant starts more than MaxRate runs in any window, since a run is only
\* admitted while the window has less than MaxRate entries.
THEOREM RateKeptHolds == Spec => []RateKept
<1>1. Init => RateInv
  BY RateInit
<1>2. RateInv /\ [Next]_vars => RateInv'
  <2> SUFFICES ASSUME RateInv, [Next]_vars PROVE WindowInv' /\ RateKept'
    BY RequestStep DEF RateInv
  <2> USE DEF RateInv
  <2>1. CASE UNCHANGED <<Created, born>>
    BY <2>1, WindowStep DEF RateKept
  <2>2. CASE Admit
    <3> DEFINE q == Head(queue)  t == Tenant[q]
    <3> SUFFICES ASSUME MaxRate > 0, NEW r \in Created'  PROVE Cardinality(Beside(r)') <= MaxRate
      BY <2>2, AdmitWindow DEF RateKept, Beside
    <3>1. /\ q \in Requests /\ t \in Tenants /\ q \notin Created /\ Created' = Created \cup {q}
          /\ born' = [born EXCEPT ![q] = now] /\ born'[q] = now /\ Len(Recent(t)) < MaxRate
      <4>1. q \in Requests /\ q \notin Created /\ t \in Tenants
        BY <2>2, HeadOfQueue DEF RequestInv, RunType, QueueInv, Admit, Created, Tenants
      <4>2. Created' = Created \cup {q} /\ born' = [born EXCEPT ![q] = now]
        BY <2>2, <4>1 DEF RequestInv, RunType, Admit, Created
      <4>3. ~RateSpent(t)
        BY <2>2 DEF Admit, Refusal
      <4>4. Len(Recent(t)) < MaxRate
        BY <4>1, <4>3, LiveCount, AdmissionAssumption DEF RateSpent
      <4> QED  BY <4>1, <4>2, <4>4 DEF WindowInv
    <3>2. \A s \in Created : s # q /\ born'[s] = born[s] /\ born[s] \in Nat /\ born[s] <= now
      BY <3>1 DEF WindowInv, Created
    <3>3. now \in Nat /\ Window \in Nat /\ MaxRate \in Nat
      BY AdmissionAssumption DEF WindowInv
    <3>4. CASE Tenant[r] = t /\ born'[r] = now
      <4>1. Beside(r)' \subseteq Live(t) \cup {q}
        BY <3>1, <3>2, <3>3, <3>4 DEF Beside, Live
      <4>2. /\ IsFiniteSet(Live(t) \cup {q})
            /\ Cardinality(Live(t) \cup {q}) <= Cardinality(Live(t)) + 1
        <5>1. IsFiniteSet(Live(t)) /\ Cardinality(Live(t)) \in Nat
          BY <3>1, LiveCount
        <5> DEFINE L == Live(t)
        <5> HIDE DEF L, q, t
        <5>2. IsFiniteSet(L \cup {q}) /\ Cardinality(L \cup {q}) = IF q \in L THEN Cardinality(L) ELSE Cardinality(L) + 1
          BY <5>1, FS_AddElement DEF L
        <5>3. Cardinality(L \cup {q}) <= Cardinality(L) + 1
          BY <5>1, <5>2 DEF L
        <5> QED  BY <5>2, <5>3 DEF L
      <4>3. IsFiniteSet(Beside(r)') /\ Cardinality(Beside(r)') <= Cardinality(Live(t) \cup {q})
        BY <4>1, <4>2, FS_Subset
      <4>4. /\ Cardinality(Beside(r)') \in Nat /\ Cardinality(Live(t) \cup {q}) \in Nat
            /\ Cardinality(Live(t)) \in Nat
        BY <3>1, <4>2, <4>3, LiveCount, FS_CardinalityType
      <4> QED  BY <3>1, <3>3, <4>2, <4>3, <4>4, LiveCount
    <3>5. CASE ~(Tenant[r] = t /\ born'[r] = now)
      <4>1. r \in Created /\ (Tenant[r] # t \/ born[r] < now)
        BY <3>1, <3>2, <3>3, <3>5
      <4>2. Beside(r)' = Beside(r)
        BY <3>1, <3>2, <3>3, <4>1 DEF Beside
      <4> QED  BY <4>1, <4>2 DEF RateKept, Beside
    <3> QED  BY <3>4, <3>5
  <2> QED  BY <2>1, <2>2, WindowStep
<1> QED  BY <1>1, <1>2, PTL DEF Spec, RateInv
----------------------------------------------------------------------------
\* The count of a domain is the length of the run of failures its outcomes end
\* with, and its circuit is open exactly when that has reached the threshold.
Trailing(d) ==
  /\ failures[d] <= Len(outcomes[d])
  /\ \A i \in (Len(outcomes[d]) - failures[d] + 1)..Len(outcomes[d]) : ~outcomes[d][i]
  /\ failures[d] < Len(outcomes[d]) => outcomes[d][Len(outcomes[d]) - failures[d]]
  /\ d \in open <=> failures[d] >= Threshold
BreakerType ==
  /\ failures \in [Domains -> Nat] /\ outcomes \in [Domains -> Seq(BOOLEAN)]
  /\ write \in [Requests -> {"none", "authorized", "dispatched", "unknown"}]
  /\ domain \in [Requests -> Domains \cup {NoDomain}]
  /\ \A r \in Requests : write[r] \in {"authorized", "dispatched"} => domain[r] \in Domains
BreakerInv == BreakerType /\ \A d \in Domains : Trailing(d)

LEMMA BreakerInit == Init => BreakerInv
<1> SUFFICES ASSUME Init PROVE BreakerInv  OBVIOUS
<1>1. failures \in [Domains -> Nat] /\ outcomes \in [Domains -> Seq(BOOLEAN)]
  BY EmptySeq DEF Init
<1>2. /\ write \in [Requests -> {"none", "authorized", "dispatched", "unknown"}]
      /\ domain \in [Requests -> Domains \cup {NoDomain}]
      /\ \A r \in Requests : write[r] = "none"
  BY DEF Init
<1>3. \A d \in Domains : failures[d] = 0 /\ outcomes[d] = <<>> /\ Len(outcomes[d]) = 0 /\ d \notin open
  BY EmptySeq DEF Init
<1>4. \A d \in Domains : Trailing(d)
  BY <1>3, AdmissionAssumption DEF Trailing
<1> QED  BY <1>1, <1>2, <1>4 DEF BreakerInv, BreakerType

LEMMA TrailingStep ==
  ASSUME BreakerInv, NEW c \in Domains, NEW ok \in BOOLEAN, NoteOutcome(c, ok), NEW d \in Domains
  PROVE  Trailing(d)'
<1> USE AdmissionAssumption DEF BreakerInv, BreakerType
<1>1. CASE d # c
  <2>1. failures'[d] = failures[d] /\ outcomes'[d] = outcomes[d] /\ (d \in open' <=> d \in open)
    BY <1>1 DEF NoteOutcome
  <2> QED  BY <2>1 DEF Trailing
<1>2. CASE d = c
  <2> DEFINE s == outcomes[d]  t == outcomes'[d]
  <2>1. t = Append(s, ok) /\ failures'[d] = (IF ok THEN 0 ELSE failures[d] + 1)
    BY <1>2 DEF NoteOutcome
  <2>2. Len(t) = Len(s) + 1 /\ Len(s) \in Nat /\ t[Len(s) + 1] = ok /\ \A i \in 1..Len(s) : t[i] = s[i]
    BY <2>1, AppendProperties, LenProperties
  <2>3. CASE ok
    <3>1. d \notin open'  BY <1>2, <2>3 DEF NoteOutcome
    <3> QED  BY <2>1, <2>2, <2>3, <3>1 DEF Trailing
  <2>4. CASE ~ok
    <3>1. d \in open' <=> failures'[d] >= Threshold
      BY <1>2, <2>1, <2>4 DEF NoteOutcome, Trailing
    <3>2. Len(t) - failures'[d] = Len(s) - failures[d] /\ failures[d] \in Nat /\ failures'[d] <= Len(t)
      <4>1. failures[d] \in Nat /\ failures[d] <= Len(s)  BY DEF Trailing
      <4> QED  BY <2>1, <2>2, <2>4, <4>1
    <3>3. \A i \in (Len(t) - failures'[d] + 1)..Len(t) : ~t[i]
      <4> SUFFICES ASSUME NEW i \in (Len(t) - failures'[d] + 1)..Len(t) PROVE ~t[i]  OBVIOUS
      <4>1. CASE i = Len(s) + 1  BY <2>2, <2>4, <4>1
      <4>2. CASE i # Len(s) + 1
        <5>1. i \in (Len(s) - failures[d] + 1)..Len(s) /\ i \in 1..Len(s)
          BY <2>2, <3>2, <4>2 DEF Trailing
        <5> QED  BY <2>2, <5>1 DEF Trailing
      <4> QED  BY <4>1, <4>2
    <3>4. failures'[d] < Len(t) => t[Len(t) - failures'[d]]
      <4> SUFFICES ASSUME failures'[d] < Len(t) PROVE t[Len(t) - failures'[d]]  OBVIOUS
      <4>1. failures[d] < Len(s) /\ Len(s) - failures[d] \in 1..Len(s)
        BY <2>1, <2>2, <2>4, <3>2
      <4> QED  BY <2>2, <3>2, <4>1 DEF Trailing
    <3> QED  BY <3>1, <3>2, <3>3, <3>4 DEF Trailing
  <2> QED  BY <2>3, <2>4
<1> QED  BY <1>1, <1>2

LEMMA BreakerStep ==
  ASSUME BreakerInv, [Next]_vars
  PROVE  BreakerInv'
<1> USE DEF BreakerInv
<1>1. CASE UNCHANGED <<breaker, write, domain>>
  BY <1>1 DEF BreakerType, Trailing, breaker
<1>2. ASSUME NEW r \in Requests, NEW ok \in BOOLEAN, NEW s \in {"none", "unknown"},
             domain[r] \in Domains, Settle(r, ok, s)
      PROVE  BreakerInv'
  <2>1. NoteOutcome(domain[r], ok)  BY <1>2 DEF Settle
  <2>2. \A d \in Domains : Trailing(d)'  BY <1>2, <2>1, TrailingStep
  <2>3. failures' \in [Domains -> Nat] /\ outcomes' \in [Domains -> Seq(BOOLEAN)]
    BY <1>2, <2>1, AppendProperties DEF NoteOutcome, BreakerType
  <2>4. /\ write' = [write EXCEPT ![r] = s] /\ domain' = [domain EXCEPT ![r] = NoDomain]
    BY <1>2 DEF Settle
  <2> QED  BY <2>2, <2>3, <2>4 DEF BreakerType
<1>3. ASSUME NEW r \in Requests, SettleKnown(r) \/ SettleUnknown(r) PROVE BreakerInv'
  <2>1. domain[r] \in Domains  BY <1>3 DEF SettleKnown, SettleUnknown, BreakerType
  <2> QED  BY <1>2, <1>3, <2>1 DEF SettleKnown, SettleUnknown
<1>4. ASSUME NEW r \in Requests, NEW d \in Domains, Authorize(r, d) PROVE BreakerInv'
  BY <1>4 DEF Authorize, BreakerType, Trailing, breaker
<1>5. ASSUME NEW r \in Requests, Drop(r) \/ Dispatch(r) PROVE BreakerInv'
  BY <1>5 DEF Drop, Dispatch, BreakerType, Trailing, breaker
<1>6. ASSUME NEW r \in Requests, BecomeUnknown(r) \/ Resolve(r) PROVE BreakerInv'
  BY <1>6 DEF BecomeUnknown, Resolve, BreakerType, Trailing, breaker
<1> QED  BY <1>1, <1>3, <1>4, <1>5, <1>6
  DEF Next, Refuse, Admit, Launch, Tick, Submit, End, runs, vars, breaker

\* The circuit of a domain is open exactly while its last Threshold writes all
\* failed, in whatever order the results of overlapping runs come in.
THEOREM CircuitExactHolds == Spec => []CircuitExact
<1>1. BreakerInv => CircuitExact
  <2> SUFFICES ASSUME BreakerInv, NEW d \in Domains
               PROVE  d \in open <=> Len(outcomes[d]) >= Threshold
                        /\ \A i \in (Len(outcomes[d]) - Threshold + 1)..Len(outcomes[d]) : ~outcomes[d][i]
    BY DEF CircuitExact
  <2> DEFINE n == Len(outcomes[d])
  <2>1. n \in Nat /\ failures[d] \in Nat /\ Threshold \in Nat \ {0} /\ Trailing(d)
    BY AdmissionAssumption, LenProperties DEF BreakerInv, BreakerType
  <2>2. CASE failures[d] >= Threshold  BY <2>1, <2>2 DEF Trailing
  <2>3. CASE failures[d] < Threshold
    <3>1. n >= Threshold => n - failures[d] \in (n - Threshold + 1)..n /\ outcomes[d][n - failures[d]]
      BY <2>1, <2>3 DEF Trailing
    <3> QED  BY <2>1, <2>3, <3>1 DEF Trailing
  <2> QED  BY <2>1, <2>2, <2>3
<1> QED  BY <1>1, BreakerInit, BreakerStep, PTL DEF Spec
-----------------------------------------------------------------------------
\* Windows and creation times stay within the clock, and an outcome is only
\* noted while the bound allows it.
BoundsInv ==
  /\ answer \in [Requests -> {"none", "waiting", "returned", "conflict", "quota", "rate", "busy",
                              "created", "failed"}]
  /\ window \in [Tenants -> Seq(0..MaxTime)] /\ now \in 0..MaxTime
  /\ born \in [Requests -> 0..MaxTime]
  /\ open \subseteq Domains /\ \A d \in Domains : Len(outcomes[d]) <= MaxSettled
AllTypes == RequestInv /\ WindowInv /\ BreakerInv /\ BoundsInv

LEMMA RecentInTime ==
  ASSUME WindowInv, BoundsInv, NEW t \in Tenants
  PROVE  Recent(t) \in Seq(0..MaxTime)
<1>1. PICK k \in 0..Len(window[t]) :
        /\ Len(Recent(t)) = Len(window[t]) - k
        /\ \A i \in 1..Len(Recent(t)) : Recent(t)[i] = window[t][i + k]
  BY RecentKeeps
<1>2. /\ window[t] \in Seq(0..MaxTime) /\ Len(window[t]) \in Nat
      /\ \A i \in 1..Len(window[t]) : window[t][i] \in 0..MaxTime
  BY ElementOfSeq, LenProperties DEF BoundsInv
<1>3. \A i \in 1..Len(Recent(t)) : Recent(t)[i] \in 0..MaxTime
  BY <1>1, <1>2
<1>4. Recent(t) \in [1..Len(Recent(t)) -> Nat] /\ Len(Recent(t)) \in Nat
  BY RecentKeeps, LenProperties
<1>5. Recent(t) \in [1..Len(Recent(t)) -> 0..MaxTime]
  BY <1>3, <1>4
<1> QED  BY <1>4, <1>5, SeqDef

LEMMA BoundsStep ==
  ASSUME AllTypes, [Next]_vars
  PROVE  BoundsInv'
<1> RequestInv /\ WindowInv /\ BreakerInv /\ BoundsInv /\ RunType
  BY DEF AllTypes, RequestInv
<1> USE DEF BoundsInv
<1>1. ASSUME NEW q \in Requests, Submit(q) PROVE BoundsInv'
  BY <1>1 DEF Submit, breaker
<1>2. CASE Refuse
  <2> DEFINE q == Head(queue)
  <2>1. q \in Requests /\ Tenant[q] \in Tenants /\ Recent(Tenant[q]) \in Seq(0..MaxTime)
    BY <1>2, HeadOfQueue, RecentInTime DEF Refuse, Tenants
  <2>2. Refusal(q) \in {"returned", "conflict", "quota", "rate", "busy", "none"}
    BY DEF Refusal
  <2> HIDE DEF q
  <2>3. /\ answer' = [answer EXCEPT ![q] = Refusal(q)]
        /\ window' = window \/ window' = [window EXCEPT ![Tenant[q]] = Recent(Tenant[q])]
        /\ UNCHANGED <<now, breaker, born>>
    BY <1>2 DEF Refuse, q
  <2> QED  BY <2>1, <2>2, <2>3 DEF breaker
<1>3. CASE Admit
  <2> DEFINE q == Head(queue)
             kept == IF MaxRate > 0 THEN Recent(Tenant[q]) ELSE window[Tenant[q]]
  <2>1. q \in Requests /\ Tenant[q] \in Tenants
    BY <1>3, HeadOfQueue DEF Admit, Tenants
  <2>2. kept \in Seq(0..MaxTime)
    BY <2>1, RecentInTime
  <2> HIDE DEF q, kept
  <2>3. Append(kept, now) \in Seq(0..MaxTime)
    BY <2>2, AppendProperties
  <2>4. /\ window' = [window EXCEPT ![Tenant[q]] = Append(kept, now)]
        /\ born' = [born EXCEPT ![q] = now] /\ UNCHANGED <<answer, now, breaker>>
    BY <1>3 DEF Admit, q, kept
  <2> QED  BY <2>1, <2>3, <2>4 DEF breaker
<1>4. CASE Launch
  BY <1>4 DEF Launch, breaker
<1>5. CASE Tick
  BY <1>5, AdmissionAssumption DEF Tick, breaker
<1>6. ASSUME NEW r \in Requests, SettleKnown(r) \/ SettleUnknown(r) PROVE BoundsInv'
  <2> DEFINE d == domain[r]
  <2>1. d \in Domains /\ outcomes \in [Domains -> Seq(BOOLEAN)]
    BY <1>6 DEF SettleKnown, SettleUnknown, BreakerInv, BreakerType
  <2> HIDE DEF d
  <2>2. /\ Len(outcomes[d]) < MaxSettled /\ UNCHANGED <<answer, window, now, born>>
        /\ open' \subseteq open \cup {d}
        /\ \E ok \in BOOLEAN : outcomes' = [outcomes EXCEPT ![d] = Append(@, ok)]
    BY <1>6 DEF SettleKnown, SettleUnknown, Settle, NoteOutcome, d
  <2>3. PICK ok \in BOOLEAN : outcomes' = [outcomes EXCEPT ![d] = Append(@, ok)]
    BY <2>2
  <2>4. Len(Append(outcomes[d], ok)) = Len(outcomes[d]) + 1 /\ Len(outcomes[d]) \in Nat
    BY <2>1, AppendProperties, LenProperties
  <2>5. \A c \in Domains : Len(outcomes'[c]) <= MaxSettled
    BY <2>1, <2>2, <2>3, <2>4, AdmissionAssumption
  <2> QED  BY <2>1, <2>2, <2>5
<1>7. ASSUME NEW r \in Requests,
             Drop(r) \/ Dispatch(r) \/ BecomeUnknown(r) \/ Resolve(r) \/ End(r)
               \/ \E d \in Domains : Authorize(r, d)
      PROVE  BoundsInv'
  BY <1>7 DEF Drop, Dispatch, BecomeUnknown, Resolve, End, Authorize, breaker
<1>8. CASE UNCHANGED vars
  BY <1>8 DEF vars
<1> QED  BY <1>1, <1>2, <1>3, <1>4, <1>5, <1>6, <1>7, <1>8 DEF Next

\* Every variable of the admission has its type: a count of failures is the
\* length of a tail of the outcomes, and an open circuit has reached the threshold.
THEOREM TypeCorrect == Spec => []TypeOK
<1>1. Init => AllTypes
  <2> SUFFICES ASSUME Init PROVE AllTypes
    OBVIOUS
  <2>1. BoundsInv
    BY EmptySeq, AdmissionAssumption DEF Init, BoundsInv
  <2> QED  BY <2>1, RateInit, BreakerInit DEF AllTypes, RateInv
<1>2. AllTypes /\ [Next]_vars => AllTypes'
  BY BoundsStep, RequestStep, WindowStep, BreakerStep DEF AllTypes
<1>3. AllTypes => TypeOK
  <2> SUFFICES ASSUME AllTypes PROVE TypeOK
    OBVIOUS
  <2>1. \A d \in Domains : failures[d] \in 0..MaxSettled
    <3> SUFFICES ASSUME NEW d \in Domains PROVE failures[d] \in 0..MaxSettled
      OBVIOUS
    <3>1. failures[d] \in Nat /\ failures[d] <= Len(outcomes[d]) /\ Len(outcomes[d]) <= MaxSettled
          /\ Len(outcomes[d]) \in Nat
      BY LenProperties DEF AllTypes, BreakerInv, BreakerType, Trailing, BoundsInv
    <3> QED  BY <3>1, AdmissionAssumption
  <2>2. open \subseteq {d \in Domains : failures[d] >= Threshold}
    BY DEF AllTypes, BreakerInv, Trailing, BoundsInv
  <2>3. failures \in [Domains -> 0..MaxSettled]
    BY <2>1 DEF AllTypes, BreakerInv, BreakerType
  <2> QED  BY <2>2, <2>3 DEF TypeOK, AllTypes, RequestInv, RunType, BreakerInv, BreakerType, BoundsInv
<1> QED  BY <1>1, <1>2, <1>3, PTL DEF Spec
============================================================================
