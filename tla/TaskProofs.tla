------------------------------ MODULE TaskProofs ------------------------------
(* For any requests, answers, changes made by hand and notes: the hints of a  *)
(* compilation are the newest living preferences of the tenant and change     *)
(* nothing but values, no write does what its task or, with the compiler's    *)
(* candidate, the user forbids, a run keeps within its limits, and a verdict  *)
(* about a task is what the device shows.                                     *)
EXTENDS TaskSafety, SequenceTheorems, TLAPS

EntryType ==
  [key : Keys, value : Nat, domain : {"cabin", "media", "general"}, tenant : Tenants,
   active : BOOLEAN, deleted : BOOLEAN, old : BOOLEAN]
\* i was saved under the key and by the tenant of j.
Same(i, j) == memory[i].key = memory[j].key /\ memory[i].tenant = memory[j].tenant
\* An entry is in use until it is deleted or followed by one of its key and tenant.
InUse ==
  \A i \in 1..Len(memory) :
    memory[i].active <=> ~memory[i].deleted /\ \A j \in 1..Len(memory) : Same(j, i) => j <= i
\* There is a newest entry of every key and tenant that has one.
HasNewest ==
  \A i \in 1..Len(memory) :
    \E j \in 1..Len(memory) : Same(j, i) /\ \A k \in 1..Len(memory) : Same(k, i) => k <= j
MemoryInv == memory \in Seq(EntryType) /\ InUse /\ HasNewest
-----------------------------------------------------------------------------
LEMMA Listed ==
  ASSUME NEW S, NEW n \in Nat, NEW f \in [1..n -> S]
  PROVE  f \in Seq(S) /\ Len(f) = n
  OBVIOUS

LEMMA OnlyEdits ==
  ASSUME Next, ~EditMemory
  PROVE  UNCHANGED memory
  BY DEF Next, Job, CompileTask, Fast, Start, Plan, Act, Exhausted, Audit, Conclude, Answer, Touch,
         Prompt, user

\* What a new entry does to the memory.
LEMMA SavedInv ==
  ASSUME MemoryInv, NEW e \in EntryType, e.active, ~e.deleted, memory' = Saved(memory, e)
  PROVE  MemoryInv'
<1> DEFINE m == Replaced(memory, e)
<1>1. Len(memory) \in Nat /\ DOMAIN memory = 1..Len(memory)
      /\ \A i \in 1..Len(memory) : memory[i] \in EntryType
  BY LenProperties, ElementOfSeq DEF MemoryInv
<1>2. /\ DOMAIN m = 1..Len(memory)
      /\ \A i \in 1..Len(memory) :
           m[i] = IF memory[i].key = e.key /\ memory[i].tenant = e.tenant
                  THEN [memory[i] EXCEPT !.active = FALSE] ELSE memory[i]
  BY <1>1 DEF Replaced
<1>3. \A i \in 1..Len(memory) :
        /\ m[i] \in EntryType /\ m[i].key = memory[i].key /\ m[i].tenant = memory[i].tenant
        /\ m[i].deleted = memory[i].deleted
        /\ m[i].active <=> memory[i].active /\ ~(memory[i].key = e.key /\ memory[i].tenant = e.tenant)
  BY <1>1, <1>2 DEF EntryType
<1>4. m \in Seq(EntryType) /\ Len(m) = Len(memory)
  <2>1. m \in [1..Len(memory) -> EntryType]
    BY <1>2, <1>3 DEF Replaced
  <2> QED  BY <1>1, <2>1
<1> HIDE DEF m
<1>5. memory' = Append(m, e)
  BY DEF Saved, m
<1>6. /\ memory' \in Seq(EntryType) /\ Len(memory') = Len(memory) + 1
      /\ \A i \in 1..Len(memory) : memory'[i] = m[i]
      /\ memory'[Len(memory) + 1] = e
  BY <1>4, <1>5, AppendProperties
<1>7. InUse'
  BY <1>1, <1>3, <1>6 DEF InUse, Same, MemoryInv
<1>8. HasNewest'
  <2> DEFINE n == Len(memory) + 1
             Alike(i, j) == memory'[i].key = memory'[j].key /\ memory'[i].tenant = memory'[j].tenant
  <2> SUFFICES ASSUME NEW i \in 1..n
               PROVE  \E j \in 1..n : Alike(j, i) /\ \A k \in 1..n : Alike(k, i) => k <= j
    BY <1>6 DEF HasNewest, Same
  <2>1. n \in 1..n /\ \A k \in 1..n : k <= n
    BY <1>1
  <2>2. CASE Alike(n, i)
    BY <2>1, <2>2
  <2>3. CASE ~Alike(n, i)
    <3>1. i \in 1..Len(memory)
      BY <1>1, <2>3
    <3>2. PICK j \in 1..Len(memory) : Same(j, i) /\ \A k \in 1..Len(memory) : Same(k, i) => k <= j
      BY <3>1 DEF MemoryInv, HasNewest
    <3>3. \A k \in 1..Len(memory) : Alike(k, i) <=> Same(k, i)
      BY <1>3, <1>6, <3>1 DEF Same
    <3>4. \A k \in 1..n : Alike(k, i) => k \in 1..Len(memory)
      BY <1>1, <2>3
    <3>5. j \in 1..n
      BY <1>1
    <3> QED  BY <3>2, <3>3, <3>4, <3>5
  <2> QED  BY <2>2, <2>3
<1> QED  BY <1>6, <1>7, <1>8 DEF MemoryInv

\* Deleting and ageing touch no key and no tenant.
LEMMA MarkedInv ==
  ASSUME MemoryInv, memory' \in Seq(EntryType), Len(memory') = Len(memory),
         \A i \in 1..Len(memory) :
           /\ memory'[i].key = memory[i].key /\ memory'[i].tenant = memory[i].tenant
           /\ \/ memory'[i].active = memory[i].active /\ memory'[i].deleted = memory[i].deleted
              \/ ~memory'[i].active /\ memory'[i].deleted
  PROVE  MemoryInv'
<1>1. Len(memory) \in Nat
  BY LenProperties DEF MemoryInv
<1>2. InUse'
  BY <1>1 DEF InUse, Same, MemoryInv
<1>3. HasNewest'
  BY <1>1 DEF HasNewest, Same, MemoryInv
<1> QED  BY <1>2, <1>3 DEF MemoryInv

LEMMA MemoryInvStep ==
  ASSUME MemoryInv, [Next]_vars
  PROVE  MemoryInv'
<1>1. CASE UNCHANGED memory
  BY <1>1 DEF MemoryInv, InUse, HasNewest, Same
<1>2. ASSUME NEW n \in Notes, NEW t \in Tenants, NEW d \in {"cabin", "media", "general"},
             memory' = Saved(memory, Entry(n.key, n.value, d, t))
      PROVE  MemoryInv'
  <2>1. n.key \in Keys /\ n.value \in Nat
    BY NotesAssumption
  <2>2. Entry(n.key, n.value, d, t) \in EntryType /\ Entry(n.key, n.value, d, t).active
        /\ ~Entry(n.key, n.value, d, t).deleted
    BY <2>1 DEF Entry, EntryType
  <2> QED  BY <1>2, <2>2, SavedInv
<1>3. ASSUME NEW i, NEW t, Forget(i, t)  PROVE MemoryInv'
  <2>1. /\ memory' = [memory EXCEPT ![i].active = FALSE, ![i].deleted = TRUE]
        /\ Len(memory) \in Nat /\ DOMAIN memory = 1..Len(memory) /\ i \in 1..Len(memory)
        /\ \A j \in 1..Len(memory) : memory[j] \in EntryType
    BY <1>3, LenProperties, ElementOfSeq DEF Forget, MemoryInv
  <2>2. /\ memory' \in [1..Len(memory) -> EntryType]
        /\ \A j \in 1..Len(memory) :
             /\ memory'[j].key = memory[j].key /\ memory'[j].tenant = memory[j].tenant
             /\ \/ memory'[j].active = memory[j].active /\ memory'[j].deleted = memory[j].deleted
                \/ ~memory'[j].active /\ memory'[j].deleted
    BY <2>1 DEF EntryType
  <2>3. memory' \in Seq(EntryType) /\ Len(memory') = Len(memory)
    <3>1. Len(memory) \in Nat
      BY <2>1
    <3> QED  BY <2>2, <3>1, Listed
  <2> QED  BY <2>2, <2>3, MarkedInv
<1>4. CASE Outlive
  <2>1. /\ memory' = [j \in DOMAIN memory |-> [memory[j] EXCEPT !.old = TRUE]]
        /\ Len(memory) \in Nat /\ DOMAIN memory = 1..Len(memory)
        /\ \A j \in 1..Len(memory) : memory[j] \in EntryType
    BY <1>4, LenProperties, ElementOfSeq DEF Outlive, MemoryInv
  <2>2. /\ memory' \in [1..Len(memory) -> EntryType]
        /\ \A j \in 1..Len(memory) :
             /\ memory'[j].key = memory[j].key /\ memory'[j].tenant = memory[j].tenant
             /\ memory'[j].active = memory[j].active /\ memory'[j].deleted = memory[j].deleted
    BY <2>1 DEF EntryType
  <2>3. memory' \in Seq(EntryType) /\ Len(memory') = Len(memory)
    BY <2>1, <2>2
  <2> QED  BY <2>2, <2>3, MarkedInv
<1>5. CASE EditMemory
  <2>1. ASSUME NEW n \in Notes, NEW t \in Tenants, Remember(n.key, n.value, t)  PROVE MemoryInv'
    <3>1. n.key \in Keys /\ DomainOf[n.key] \in {"cabin", "media", "general"}
      BY NotesAssumption DEF Keys, DomainOf
    <3> QED  BY <2>1, <3>1, <1>2 DEF Remember
  <2>2. ASSUME NEW n \in Notes, NEW t \in Tenants, WriteManual(n.key, n.value, n.domain, t)
        PROVE  MemoryInv'
    <3>1. n.domain \in {"cabin", "media", "general"}
      BY NotesAssumption
    <3> QED  BY <2>2, <3>1, <1>2 DEF WriteManual
  <2> QED  BY <1>3, <1>4, <1>5, <2>1, <2>2 DEF EditMemory
<1> QED  BY <1>1, <1>5, OnlyEdits DEF vars
-----------------------------------------------------------------------------
\* retrieve finds nothing but the newest entry of the key and the tenant.
LEMMA NewestFound ==
  ASSUME MemoryInv, NEW key \in Keys
  PROVE  LET found == Found(memory, All(text), key, request.tenant)
         IN (Alive(key) <=> found # {}) /\ (Alive(key) => Newest(found) = Newest(Own(key)))
<1> DEFINE found == Found(memory, All(text), key, request.tenant)
           newest == Newest(Own(key))
<1>1. Len(memory) \in Nat /\ DOMAIN memory = 1..Len(memory)
  BY LenProperties DEF MemoryInv
<1>2. \A i \in Own(key) : i \in 1..Len(memory)
  BY <1>1 DEF Own
<1>3. \A i \in Own(key) : \A j \in 1..Len(memory) : Same(j, i) <=> j \in Own(key)
  BY <1>1 DEF Same, Own
<1>4. \A i, j \in Own(key) : (\A k \in Own(key) : k <= i) /\ (\A k \in Own(key) : k <= j) => i = j
  BY <1>2
<1>5. Own(key) # {} => newest \in Own(key) /\ \A j \in Own(key) : j <= newest
  <2> SUFFICES ASSUME Own(key) # {} PROVE \E i \in Own(key) : \A j \in Own(key) : j <= i
    BY DEF Newest
  <2>1. PICK i \in Own(key) : TRUE
    OBVIOUS
  <2>2. PICK j \in 1..Len(memory) : Same(j, i) /\ \A k \in 1..Len(memory) : Same(k, i) => k <= j
    BY <1>2 DEF MemoryInv, HasNewest
  <2> QED  BY <1>2, <1>3, <2>1, <2>2
<1> HIDE DEF newest
<1>6. \A i \in Own(key) : i = newest <=> \A j \in Own(key) : j <= i
  BY <1>4, <1>5
<1>7. \A i \in Own(key) : memory[i].active <=> ~memory[i].deleted /\ i = newest
  BY <1>2, <1>3, <1>6 DEF MemoryInv, InUse
<1>8. \A i : i \in found <=> /\ i \in Own(key) /\ i = newest /\ ~memory[i].deleted /\ ~memory[i].old
                             /\ Relevant(memory[i], All(text))
  BY <1>7 DEF Found, Usable, Own
<1>9. Alive(key) <=> found # {}
  BY <1>5, <1>8 DEF Alive, newest
<1>10. found # {} => Newest(found) = newest
  <2> SUFFICES ASSUME found # {} PROVE (CHOOSE i \in found : \A j \in found : j <= i) = newest
    BY DEF Newest
  <2>1. newest \in found /\ \A i \in found : i = newest
    BY <1>8
  <2>2. newest <= newest
    BY <1>2, <1>8, <2>1
  <2> QED  BY <2>1, <2>2
<1> QED  BY <1>9, <1>10 DEF newest

\* The hint for a key is what the tenant last wanted remembered under it: every edit
\* leaves at most the newest entry of a key and a tenant in use, and retrieve asks
\* for both.
THEOREM HintsAreLiveHolds == Spec => HintsAreLive
<1>1. Init => MemoryInv
  BY EmptySeq DEF Init, MemoryInv, InUse, HasNewest
<1>2. MemoryInv /\ [Next]_vars => MemoryInv'
  BY MemoryInvStep
<1>3. ASSUME MemoryInv, [Next]_vars, phase = "compile", phase' # phase, CanRead, NEW key \in Keys
      PROVE  hints'[Named[key]] = IF Alive(key) THEN memory[Newest(Own(key))].value ELSE NoNumber
  <2>1. CompileTask
    BY <1>3 DEF Next, Job, Fast, Start, Plan, Act, Exhausted, Audit, Conclude, Answer, Touch, Prompt,
                EditMemory, vars
  <2>2. hints' = Retrieve(memory, All(text), request.tenant)
    BY <2>1 DEF CompileTask, Accept
  <2>3. hints'[Named[key]] = Suggested(memory, All(text), key, request.tenant)
    BY <2>2 DEF Retrieve, Keys, Named
  <2> QED  BY <1>3, <2>3, NewestFound DEF Suggested
<1>4. MemoryInv /\ [Next]_vars =>
        [phase = "compile" /\ phase' # phase /\ CanRead =>
           \A key \in Keys : hints'[Named[key]] =
             IF Alive(key) THEN memory[Newest(Own(key))].value ELSE NoNumber]_vars
  BY <1>3
<1> QED  BY <1>1, <1>2, <1>4, PTL DEF Spec, HintsAreLive
-----------------------------------------------------------------------------
(* From the words of the user to the bans of the task.                        *)
Forbidding == {"no_cabin_write", "no_window", "no_media_write"}
Fields == {"route", "asks", "rejects", "goals", "bans", "heard"}
\* A candidate that keeps the bans of a text, or becomes no task.
Heeds(c, u) ==
  /\ DOMAIN c = Fields /\ c = [f \in Fields |-> c[f]]
  /\ c.asks \/ BindConstraints(u) \cap Forbidding \subseteq c.bans

LEMMA ClarifyHeeds ==
  ASSUME NEW c, NEW u, DOMAIN c = Fields
  PROVE  Heeds(Clarify(c), u)
  BY DEF Heeds, Clarify, Fields

LEMMA RouteHeeds ==
  ASSUME NEW c, NEW u, Heeds(c, u)
  PROVE  Heeds(CorrectRoute(c, u), u)
  BY DEF Heeds, CorrectRoute, Fields

LEMMA NormalizeHeeds ==
  ASSUME NEW c, NEW u, Heeds(c, u)
  PROVE  Heeds(Normalize(c, u), u)
<1> DEFINE kept == {b \in c.bans \cap KnownConstraints :
                      b = "keep_navigation_prompt" => Has(All(u), "keep_nav")}
           d == [c EXCEPT !.goals = [i \in DOMAIN c.goals |-> NormalizeGoal(c.goals[i])],
                          !.bans = kept]
<1>1. Forbidding \subseteq KnownConstraints /\ "keep_navigation_prompt" \notin Forbidding
  BY DEF Forbidding, KnownConstraints
<1>2. c.bans \cap Forbidding \subseteq kept
  BY <1>1
<1>3. DOMAIN d = Fields /\ d.asks = c.asks /\ d.bans = kept
  BY DEF Heeds, Fields
<1>4. Heeds(d, u)
  BY <1>2, <1>3 DEF Heeds, Fields
<1> QED  BY <1>4, RouteHeeds DEF Normalize

\* What is compiled is chat, or heeds the bans.
LEMMA CompileHeeds ==
  ASSUME NEW u, NEW obs, NEW h
  PROVE  \/ Compile(u, obs, h) = [NoCandidate EXCEPT !.route = "CHAT"]
         \/ Heeds(Compile(u, obs, h), u)
<1> DEFINE bound == [NoCandidate EXCEPT !.bans = BindConstraints(u)]
           intents == DetectIntents(u)
           temp == SpokenTemp(u)
           said == [bound EXCEPT !.route = "MULTI_AGENT", !.heard = Has(All(u), "silent"),
                                 !.goals = BindComplex(u, obs, h, intents)]
           fast == FastGoals(CHOOSE i \in intents : TRUE, u, obs)
           one == [bound EXCEPT !.route = "FAST", !.goals = fast]
           no == [bound EXCEPT !.route = "REJECT", !.rejects = TRUE]
           chat == [NoCandidate EXCEPT !.route = "CHAT"]
<1>1. DOMAIN NoCandidate = Fields /\ DOMAIN bound = Fields /\ bound.bans = BindConstraints(u)
      /\ bound = [f \in Fields |-> bound[f]]
  BY DEF NoCandidate, Fields
<1> HIDE DEF bound
<1>2. Heeds(said, u) /\ Heeds(one, u) /\ Heeds(no, u)
  <2> HIDE DEF fast
  <2>1. bound = [f \in Fields |-> bound[f]]
    BY <1>1
  <2>2. DOMAIN said = Fields /\ said = [f \in Fields |-> said[f]] /\ said.bans = BindConstraints(u)
    BY <1>1, <2>1 DEF Fields
  <2>3. DOMAIN one = Fields /\ one = [f \in Fields |-> one[f]] /\ one.bans = BindConstraints(u)
    BY <1>1, <2>1 DEF Fields
  <2>4. DOMAIN no = Fields /\ no = [f \in Fields |-> no[f]] /\ no.bans = BindConstraints(u)
    BY <1>1, <2>1 DEF Fields
  <2> QED  BY <2>2, <2>3, <2>4 DEF Heeds
<1>3. Compile(u, obs, h) = Decide(u, obs, h, intents, temp, bound)
  BY DEF Compile, bound
<1> HIDE DEF intents, temp, fast
<1>4. Decide(u, obs, h, intents, temp, bound)
        \in {chat, Clarify(NoCandidate), no, Clarify(bound), Complete(said, intents, u),
             EnsureCoverage(one, intents)}
  BY DEF Decide, fast
<1> HIDE DEF said, one, no, chat
<1>5. Heeds(Clarify(NoCandidate), u) /\ Heeds(Clarify(bound), u)
  BY <1>1, ClarifyHeeds
<1>6. Heeds(Complete(said, intents, u), u)
  <2>1. DOMAIN said = Fields
    BY <1>2 DEF Heeds
  <2> QED  BY <1>2, <2>1, ClarifyHeeds, NormalizeHeeds DEF Complete
<1>7. Heeds(EnsureCoverage(one, intents), u)
  <2>1. DOMAIN one = Fields
    BY <1>2 DEF Heeds
  <2> QED  BY <1>2, <2>1, ClarifyHeeds DEF EnsureCoverage
<1> QED  BY <1>2, <1>3, <1>4, <1>5, <1>6, <1>7 DEF chat

LEMMA FakeHeeds ==
  ASSUME NEW u, NEW obs, NEW h
  PROVE  Route(FakeCompile(u, obs, h)) = "CHAT" \/ Heeds(FakeCompile(u, obs, h), u)
<1> DEFINE c == Compile(u, obs, h)
<1>1. CASE Heeds(c, u)
  BY <1>1, NormalizeHeeds DEF FakeCompile
<1>2. CASE c = [NoCandidate EXCEPT !.route = "CHAT"]
  <2> HIDE DEF c
  <2>1. /\ c.route = "CHAT" /\ ~c.asks /\ ~c.rejects /\ c.goals = <<>>
        /\ DOMAIN c = Fields /\ c = [f \in Fields |-> c[f]]
    BY <1>2 DEF NoCandidate, Fields
  <2> DEFINE kept == {b \in c.bans \cap KnownConstraints :
                        b = "keep_navigation_prompt" => Has(All(u), "keep_nav")}
             goals == [i \in DOMAIN c.goals |-> NormalizeGoal(c.goals[i])]
             d == [c EXCEPT !.goals = goals, !.bans = kept]
  <2>2. goals = <<>>
    BY <2>1
  <2> HIDE DEF goals, kept
  <2>3. d.route = "CHAT" /\ ~d.asks /\ ~d.rejects /\ d.goals = <<>>
    BY <2>1, <2>2 DEF Fields
  <2> HIDE DEF d
  <2>4. CorrectRoute(d, u) = d
    BY <2>3 DEF CorrectRoute
  <2>5. FakeCompile(u, obs, h) = d
    BY <2>4 DEF FakeCompile, Normalize, d, goals, kept, c
  <2> QED  BY <2>3, <2>5 DEF Route
<1> QED  BY <1>1, <1>2, CompileHeeds

\* The writes are of goal versions that were; a text that is to be compiled has none
\* yet; and the task of the compiler's candidate forbids what the text forbids.
Working == phase \notin {"compile", "ask", "done"}
BansInv ==
  /\ version \in Nat
  /\ \E S : wrote \in Seq(S)
  /\ \A i \in 1..Len(wrote) : wrote[i].version \in Nat /\ wrote[i].version <= version
  /\ phase = "compile" => \A i \in 1..Len(wrote) : wrote[i].version < version
  /\ Fake /\ Working => BindConstraints(text) \cap Forbidding \subseteq task.bans
  /\ BansKept

LEMMA WroteIsSeq ==
  ASSUME BansInv
  PROVE  Len(wrote) \in Nat /\ DOMAIN wrote = 1..Len(wrote)
<1>1. PICK S : wrote \in Seq(S)
  BY DEF BansInv
<1> QED  BY <1>1, LenProperties

\* A job that performs an action leaves the writes alone or adds one the task allows.
LEMMA PerformWrites ==
  ASSUME NEW a, NEW then, Perform(a, then)
  PROVE  /\ phase' \in {then, "done"}
         /\ \/ wrote' = wrote
            \/ /\ ~Banned(a.cap, task.bans)
               /\ \E w : w.action = a /\ w.version = version /\ wrote' = Append(wrote, w)
<1> DEFINE gate == CheckAction(a, task, Again(a), Len(wrote), dev)
<1>1. CASE gate \in {"DENY", "SKIP"}
  BY <1>1 DEF Perform, Finish, Goto
<1>2. CASE gate \notin {"DENY", "SKIP"}
  <2>1. ~Banned(a.cap, task.bans)
    BY <1>2 DEF CheckAction, PolicyAllows
  <2>2. Write(a, then)
    BY <1>2 DEF Perform
  <2>3. CASE tools + 1 >= MaxTools
    BY <2>2, <2>3 DEF Write, Finish
  <2>4. CASE ~(tools + 1 >= MaxTools)
    <3>1. PICK refused \in BOOLEAN :
            /\ wrote' = Append(wrote, [action |-> a, version |-> version,
                                       applied |-> ~refused /\ Precheck(a, dev)])
            /\ phase' = then
      BY <2>2, <2>4 DEF Write, Goto
    <3> QED  BY <2>1, <3>1
  <2> QED  BY <2>3, <2>4
<1> QED  BY <1>1, <1>2

LEMMA AddedWrite ==
  ASSUME BansInv, Working, NEW w, w.version = version, ~Banned(w.action.cap, task.bans),
         wrote' = Append(wrote, w), UNCHANGED <<version, task, text, request>>, phase' # "compile"
  PROVE  BansInv'
<1>1. PICK S : wrote \in Seq(S)
  BY DEF BansInv
<1>2. w \in S \cup {w} /\ wrote \in Seq(S \cup {w})
  BY <1>1, SeqMonotonic
<1>3. /\ wrote' \in Seq(S \cup {w}) /\ Len(wrote') = Len(wrote) + 1
      /\ \A i \in 1..Len(wrote) : wrote'[i] = wrote[i]
      /\ wrote'[Len(wrote) + 1] = w
  BY <1>2, AppendProperties
<1>4. Len(wrote) \in Nat /\ DOMAIN wrote = 1..Len(wrote) /\ DOMAIN wrote' = 1..(Len(wrote) + 1)
  BY <1>3, LenProperties, WroteIsSeq
<1>5. Fake => BindConstraints(text) \cap Forbidding \subseteq task.bans
  BY DEF BansInv
<1>6. ~Banned(w.action.cap, task.bans \cup (IF Fake THEN BindConstraints(text) ELSE {}))
  BY <1>5 DEF Banned, Forbidding
<1>7. Fake' = Fake
  BY DEF Fake
<1>8. BansKept'
  <2> SUFFICES ASSUME NEW i \in 1..(Len(wrote) + 1), wrote'[i].version = version
               PROVE  ~Banned(wrote'[i].action.cap,
                              task.bans \cup (IF Fake THEN BindConstraints(text) ELSE {}))
    BY <1>4, <1>7 DEF BansKept
  <2>1. CASE i = Len(wrote) + 1
    BY <1>3, <1>6, <2>1
  <2>2. CASE i # Len(wrote) + 1
    <3>1. i \in DOMAIN wrote /\ wrote'[i] = wrote[i]
      BY <1>3, <1>4, <2>2
    <3> QED  BY <3>1 DEF BansKept, BansInv
  <2> QED  BY <2>1, <2>2
<1>9. \A i \in 1..Len(wrote') : wrote'[i].version \in Nat /\ wrote'[i].version <= version
  BY <1>3, <1>4 DEF BansInv
<1> QED  BY <1>3, <1>5, <1>7, <1>8, <1>9 DEF BansInv

\* Steps that write nothing and leave the task and the text alone.
LEMMA NoWrite ==
  ASSUME BansInv, UNCHANGED <<wrote, version, task, text, request>>,
         phase' = phase \/ (phase' # "compile" /\ (Working' => Working))
  PROVE  BansInv'
<1>1. Fake' = Fake /\ BansKept' = BansKept
  BY DEF Fake, BansKept
<1>2. PICK S : wrote \in Seq(S)
  BY DEF BansInv
<1>3. wrote' \in Seq(S)
  BY <1>2
<1> QED  BY <1>1, <1>3 DEF BansInv, Working

LEMMA CompileKeepsBans ==
  ASSUME BansInv, CompileTask
  PROVE  BansInv'
<1>1. phase = "compile" /\ UNCHANGED <<wrote, version, text, request>>
  BY DEF CompileTask, user
<1>2. BansKept' /\ Fake' = Fake
  BY <1>1, WroteIsSeq DEF BansKept, BansInv, Fake
<1>3. phase' # "compile"
  BY DEF CompileTask, Accept, Finish, Goto
<1>4. ASSUME Fake, Working'
      PROVE  BindConstraints(text) \cap Forbidding \subseteq task'.bans
  <2> DEFINE h == Retrieve(memory, All(text), request.tenant)
             c == FakeCompile(text, dev, h)
  <2>1. Accept(c, h)
    BY <1>4 DEF CompileTask
  <2> HIDE DEF c
  <2>2. task' = TaskOf(c) /\ Route(c) \notin {"CHAT", "REJECT", "CLARIFY"}
    BY <1>4, <2>1 DEF Accept, Finish, Goto, Working
  <2>3. ~c.asks
    BY <2>2 DEF Route
  <2>4. Heeds(c, text)
    BY <2>2, FakeHeeds DEF c
  <2> QED  BY <2>2, <2>3, <2>4 DEF Heeds, TaskOf
<1>5. PICK S : wrote \in Seq(S)
  BY DEF BansInv
<1>6. wrote' \in Seq(S)
  BY <1>1, <1>5
<1> QED  BY <1>1, <1>2, <1>3, <1>4, <1>6 DEF BansInv

LEMMA BansInvStep ==
  ASSUME BansInv, [Next]_vars
  PROVE  BansInv'
<1>1. CASE CompileTask
  BY <1>1, CompileKeepsBans
<1>2. ASSUME NEW a, NEW then, Perform(a, then), Working, then \notin {"compile", "ask"},
             UNCHANGED <<version, task, text, request>>
      PROVE  BansInv'
  <2>1. phase' # "compile"
    BY <1>2, PerformWrites
  <2>2. CASE wrote' = wrote
    BY <1>2, <2>1, <2>2, NoWrite
  <2>3. CASE wrote' # wrote
    <3>1. PICK w : w.action = a /\ w.version = version /\ wrote' = Append(wrote, w)
      BY <1>2, <2>3, PerformWrites
    <3>2. ~Banned(w.action.cap, task.bans)
      BY <1>2, <2>3, <3>1, PerformWrites
    <3> QED  BY <1>2, <2>1, <3>1, <3>2, AddedWrite
  <2> QED  BY <2>2, <2>3
<1>3. CASE Fast
  <2>1. Working /\ UNCHANGED <<version, task, text, request>>
    BY <1>3 DEF Fast, Working, run
  <2>2. CASE Conflict
    BY <1>3, <2>1, <2>2, NoWrite DEF Fast, Goto, Working
  <2>3. CASE ~Conflict
    BY <1>2, <1>3, <2>1, <2>3 DEF Fast
  <2> QED  BY <2>2, <2>3
<1>4. CASE Act
  BY <1>2, <1>4 DEF Act, Working, run
<1>5. CASE Start \/ Plan \/ Exhausted \/ Audit \/ Conclude
  <2>1. UNCHANGED <<wrote, version, task, text, request>>
    BY <1>5 DEF Start, Plan, Exhausted, Audit, Conclude, user, run
  <2>2. phase' = phase \/ (phase' # "compile" /\ (Working' => Working))
    BY <1>5 DEF Start, Plan, Gate, Exhausted, Audit, Conclude, Goto, Finish, Working
  <2> QED  BY <2>1, <2>2, NoWrite
<1>6. CASE Answer
  <2>1. version' = version + 1 /\ wrote' = wrote /\ phase' = "compile"
    BY <1>6 DEF Answer, Goto
  <2>2. PICK S : wrote \in Seq(S)
    BY DEF BansInv
  <2>3. wrote' \in Seq(S) /\ version' \in Nat
    BY <2>1, <2>2 DEF BansInv
  <2>4. \A i \in 1..Len(wrote') : /\ wrote'[i].version \in Nat /\ wrote'[i].version < version'
                                  /\ wrote'[i].version <= version'
    BY <2>1 DEF BansInv
  <2>5. BansKept'
    BY <2>1, <2>3, <2>4, WroteIsSeq DEF BansKept
  <2> QED  BY <2>1, <2>3, <2>4, <2>5 DEF BansInv, Working
<1>7. CASE Touch \/ Prompt \/ EditMemory \/ UNCHANGED vars
  <2>1. UNCHANGED <<wrote, version, task, text, request, phase>>
    BY <1>7 DEF Touch, Prompt, EditMemory, vars, user, run
  <2> QED  BY <2>1, NoWrite
<1> QED  BY <1>1, <1>3, <1>4, <1>5, <1>6, <1>7 DEF Next, Job

\* No write does what its task forbids nor, of the compiler's candidate, what the user
\* forbade: normalisation keeps the bans, a task without them is only asked about, and
\* the policy judges each write by both spellings.
THEOREM BansKeptHolds == Spec => []BansKept
<1>1. Init => BansInv
  BY EmptySeq DEF Init, BansInv, BansKept, Working
<1>2. BansInv /\ [Next]_vars => BansInv'
  BY BansInvStep
<1>3. BansInv => BansKept
  BY DEF BansInv
<1> QED  BY <1>1, <1>2, <1>3, PTL DEF Spec
-----------------------------------------------------------------------------
(* A run stays within its limits: six valid writes, the budget of reads and   *)
(* writes, the replans, and one goal version for every answer.                *)
OnlyPhases == {"compile", "ask", "fast", "conclude", "start", "plan", "act", "done"}
Verdicts == {"none", "COMPLETED", "PARTIAL", "FAILED", "STOPPED"}
PhaseOK == phase \in OnlyPhases /\ verdict \in Verdicts /\ (phase = "done" <=> verdict # "none")
DataOK == DOMAIN dev = DOMAIN DefaultDevice /\ DOMAIN hints = DOMAIN NoHints
SpentOK == tools \in 0..MaxTools /\ round \in 0..MaxReplans
LeftOK ==
  left \in Bounds /\ version \in Nat \ {0} /\ version + left.answers = 1 + request.left.answers
WroteOK ==
  /\ \A i \in DOMAIN wrote : wrote[i].version \in 1..version /\ Validate(wrote[i].action)
  /\ Len(wrote) <= 6
TaskOK == task # NoTask => Bindable(task)
LimitsInv == PhaseOK /\ DataOK /\ SpentOK /\ LeftOK /\ TaskOK /\ WroteOK

LEMMA LimitsInit ==
  ASSUME Init
  PROVE  LimitsInv
<1>1. PhaseOK /\ TaskOK
  BY DEF Init, PhaseOK, OnlyPhases, Verdicts, TaskOK
<1>2. DataOK /\ LeftOK
  BY RequestsAssumption DEF Init, DataOK, LeftOK, Bounds
<1>3. SpentOK
  BY DEF Init, SpentOK, MaxTools, MaxReplans
<1>4. WroteOK
  BY EmptySeq DEF Init, WroteOK
<1> QED  BY <1>1, <1>2, <1>3, <1>4 DEF LimitsInv

LEMMA SpendInBudget ==
  ASSUME SpentOK, NEW n \in Nat, Spend(n)
  PROVE  tools' \in 0..MaxTools
  BY DEF SpentOK, Spend, MaxTools

\* A job goes on to a phase or is over, once.
LEMMA GoneOn ==
  ASSUME PhaseOK, phase # "done", NEW p \in OnlyPhases \ {"done"}, Goto(p)
  PROVE  PhaseOK'
  BY DEF PhaseOK, Goto, OnlyPhases, Verdicts

LEMMA Over ==
  ASSUME NEW v \in Verdicts \ {"none"}, Finish(v)
  PROVE  PhaseOK'
  BY DEF PhaseOK, Finish, OnlyPhases, Verdicts

LEMMA VerdictKnown == Verdict \in Verdicts \ {"none"}
  BY DEF Verdict, Verdicts, Aggregate

\* What an action may do to the device, the bounds and the writes.
LEMMA WriteLimits ==
  ASSUME BansInv, LimitsInv, phase # "done", NEW a, NEW then \in OnlyPhases \ {"done"},
         Validate(a), Len(wrote) < 6, Write(a, then), UNCHANGED <<request, version>>
  PROVE  PhaseOK' /\ LeftOK' /\ WroteOK' /\ DOMAIN dev' = DOMAIN DefaultDevice
<1>1. CASE tools + 1 >= MaxTools
  <2>1. Finish("STOPPED") /\ UNCHANGED <<dev, wrote, left>>
    BY <1>1 DEF Write
  <2>2. PhaseOK'
    BY <2>1, Over DEF Verdicts
  <2> QED  BY <2>1, <2>2 DEF LimitsInv, LeftOK, WroteOK, DataOK
<1>2. CASE ~(tools + 1 >= MaxTools)
  <2>1. PICK refused \in BOOLEAN :
          LET applied == ~refused /\ Precheck(a, dev) IN
          /\ refused => left.refusals > 0
          /\ left' = [left EXCEPT !.refusals = IF refused THEN @ - 1 ELSE @]
          /\ dev' = IF applied THEN Apply(a, dev) ELSE dev
          /\ wrote' = Append(wrote, [action |-> a, version |-> version, applied |-> applied])
          /\ Goto(then)
    BY <1>2 DEF Write
  <2> DEFINE w == [action |-> a, version |-> version,
                   applied |-> ~refused /\ Precheck(a, dev)]
  <2>2. PhaseOK'
    BY <2>1, GoneOn DEF LimitsInv
  <2>3. LeftOK'
    BY <2>1 DEF LimitsInv, LeftOK, Bounds
  <2>4. DOMAIN dev' = DOMAIN DefaultDevice
    BY <2>1 DEF LimitsInv, DataOK, Apply, SetFields
  <2>5. PICK S : wrote \in Seq(S)
    BY DEF BansInv
  <2>6. w \in S \cup {w} /\ wrote \in Seq(S \cup {w})
    BY <2>5, SeqMonotonic
  <2>7. w.version = version /\ w.action = a /\ wrote' = Append(wrote, w)
    BY <2>1
  <2> HIDE DEF w
  <2>8. /\ wrote' \in Seq(S \cup {w}) /\ Len(wrote') = Len(wrote) + 1
        /\ \A i \in 1..Len(wrote) : wrote'[i] = wrote[i]
        /\ wrote'[Len(wrote) + 1] = w
    BY <2>6, <2>7, AppendProperties
  <2>9. Len(wrote) \in Nat /\ DOMAIN wrote = 1..Len(wrote) /\ DOMAIN wrote' = 1..(Len(wrote) + 1)
    BY <2>8, LenProperties, WroteIsSeq
  <2>10. version \in 1..version
    BY DEF LimitsInv, LeftOK, Bounds, BansInv
  <2>11. WroteOK'
    <3>1. ASSUME NEW i \in 1..(Len(wrote) + 1)
          PROVE  wrote'[i].version \in 1..version /\ Validate(wrote'[i].action)
      <4>1. CASE i = Len(wrote) + 1
        BY <2>7, <2>8, <2>10, <4>1
      <4>2. CASE i # Len(wrote) + 1
        <5>1. i \in 1..Len(wrote) /\ wrote'[i] = wrote[i]
          BY <2>8, <2>9, <4>2
        <5> QED  BY <2>9, <5>1 DEF LimitsInv, WroteOK
      <4> QED  BY <4>1, <4>2
    <3> QED  BY <2>8, <2>9, <3>1 DEF WroteOK
  <2> QED  BY <2>2, <2>3, <2>4, <2>11
<1> QED  BY <1>1, <1>2

LEMMA PerformLimits ==
  ASSUME BansInv, LimitsInv, phase # "done", NEW a, NEW then \in OnlyPhases \ {"done"},
         Perform(a, then), UNCHANGED <<request, version, task, hints, round>>
  PROVE  LimitsInv'
<1> DEFINE gate == CheckAction(a, task, Again(a), Len(wrote), dev)
<1>0. Len(wrote) \in Nat
  BY WroteIsSeq
<1>1. TaskOK' /\ DOMAIN hints' = DOMAIN NoHints
  BY DEF LimitsInv, TaskOK, DataOK
<1>2. SpentOK'
  <2>1. Spend(1) \/ Spend(3)
    BY DEF Perform
  <2> QED  BY <2>1, SpendInBudget DEF LimitsInv, SpentOK
<1>3. CASE gate \in {"DENY", "SKIP"}
  <2>1. (Finish("STOPPED") \/ Goto(then)) /\ UNCHANGED <<dev, wrote, left>>
    BY <1>3 DEF Perform
  <2>2. PhaseOK'
    BY <2>1, GoneOn, Over DEF LimitsInv, Verdicts
  <2>3. LeftOK' /\ WroteOK' /\ DOMAIN dev' = DOMAIN DefaultDevice
    BY <2>1 DEF LimitsInv, LeftOK, WroteOK, DataOK
  <2> QED  BY <1>1, <1>2, <2>2, <2>3 DEF LimitsInv, DataOK
<1>4. CASE gate \notin {"DENY", "SKIP"}
  <2>1. Validate(a) /\ Len(wrote) < 6
    BY <1>0, <1>4 DEF CheckAction, PolicyAllows
  <2>2. Write(a, then)
    BY <1>4 DEF Perform
  <2>3. PhaseOK' /\ LeftOK' /\ WroteOK' /\ DOMAIN dev' = DOMAIN DefaultDevice
    BY <2>1, <2>2, WriteLimits
  <2> QED  BY <1>1, <1>2, <2>3 DEF LimitsInv, DataOK
<1> QED  BY <1>3, <1>4

LEMMA CompileLimits ==
  ASSUME LimitsInv, CompileTask
  PROVE  LimitsInv'
<1> DEFINE h == Retrieve(memory, All(text), request.tenant)
<1>1. phase = "compile" /\ UNCHANGED <<left, version, request, wrote, round>> /\ Spend(1)
      /\ dev' = [dev EXCEPT !.played = FALSE]
  BY DEF CompileTask, user
<1>2. PICK c : Accept(c, h)
  BY DEF CompileTask
<1>3. hints' = h
  BY <1>2 DEF Accept
<1>4. DataOK'
  BY <1>1, <1>3 DEF LimitsInv, DataOK, Retrieve, NoHints
<1>5. PhaseOK'
  <2>1. \/ Finish("COMPLETED") \/ Finish("STOPPED")
        \/ Goto("ask") \/ Goto("fast") \/ Goto("start")
    BY <1>2 DEF Accept
  <2> QED  BY <1>1, <2>1, GoneOn, Over DEF LimitsInv, Verdicts, OnlyPhases
<1>6. TaskOK'
  <2>1. task' = task \/ (Bindable(TaskOf(c)) /\ task' = TaskOf(c))
    BY <1>2 DEF Accept
  <2> QED  BY <2>1 DEF LimitsInv, TaskOK
<1>7. SpentOK'
  BY <1>1, SpendInBudget DEF LimitsInv, SpentOK
<1>8. LeftOK' /\ WroteOK'
  BY <1>1 DEF LimitsInv, LeftOK, WroteOK
<1> QED  BY <1>4, <1>5, <1>6, <1>7, <1>8 DEF LimitsInv

LEMMA LimitsStep ==
  ASSUME BansInv, LimitsInv, [Next]_vars
  PROVE  LimitsInv'
<1>1. CASE CompileTask
  BY <1>1, CompileLimits
<1>2. CASE Fast
  <2>1. phase = "fast" /\ UNCHANGED <<request, version, task, hints, round>>
    BY <1>2 DEF Fast, run
  <2>2. CASE Conflict
    <3>1. Goto("ask") /\ Spend(1) /\ UNCHANGED <<dev, wrote, left>>
      BY <1>2, <2>2 DEF Fast
    <3>2. PhaseOK'
      BY <2>1, <3>1, GoneOn DEF LimitsInv, OnlyPhases
    <3>3. SpentOK'
      BY <2>1, <3>1, SpendInBudget DEF LimitsInv, SpentOK
    <3> QED  BY <2>1, <3>1, <3>2, <3>3 DEF LimitsInv, DataOK, LeftOK, TaskOK, WroteOK
  <2>3. CASE ~Conflict
    <3>1. Perform(ActionFor(task.goals[1]), "conclude")
      BY <1>2, <2>3 DEF Fast
    <3> QED  BY <2>1, <3>1, PerformLimits DEF OnlyPhases
  <2> QED  BY <2>2, <2>3
<1>3. CASE Act
  <2>1. phase = "act" /\ UNCHANGED <<request, version, task, hints, round>>
        /\ Perform(Head(todo), "act")
    BY <1>3 DEF Act, run
  <2> QED  BY <2>1, PerformLimits DEF OnlyPhases
<1>4. CASE Start \/ Plan \/ Exhausted \/ Audit \/ Conclude
  <2>1. /\ UNCHANGED <<dev, hints, left, version, request, task, wrote>>
        /\ phase \notin {"done", "ask"}
    BY <1>4 DEF Start, Plan, Exhausted, Audit, Conclude, user, run
  <2>2. DataOK' /\ LeftOK' /\ TaskOK' /\ WroteOK'
    BY <2>1 DEF LimitsInv, DataOK, LeftOK, TaskOK, WroteOK
  <2>3. SpentOK'
    <3>1. Spend(1) \/ tools' = tools
      BY <1>4 DEF Start, Plan, Exhausted, Audit, Conclude
    <3>2. tools' \in 0..MaxTools
      BY <3>1, SpendInBudget DEF LimitsInv, SpentOK
    <3>3. round' = round \/ (round < MaxReplans /\ round' = round + 1)
      BY <1>4 DEF Start, Plan, Gate, Exhausted, Audit, Conclude
    <3> QED  BY <3>2, <3>3 DEF LimitsInv, SpentOK, MaxReplans
  <2>4. PhaseOK'
    <3>1. \/ Goto("ask") \/ Goto("plan") \/ Goto("act") \/ UNCHANGED <<phase, verdict>>
          \/ Finish("STOPPED") \/ Finish(Verdict)
      BY <1>4 DEF Start, Plan, Gate, Exhausted, Audit, Conclude
    <3>2. CASE UNCHANGED <<phase, verdict>>
      BY <3>2 DEF LimitsInv, PhaseOK
    <3>3. CASE Goto("ask") \/ Goto("plan") \/ Goto("act")
      BY <2>1, <3>3, GoneOn DEF LimitsInv, OnlyPhases
    <3>4. CASE Finish("STOPPED") \/ Finish(Verdict)
      BY <3>4, Over, VerdictKnown DEF Verdicts
    <3> QED  BY <3>1, <3>2, <3>3, <3>4
  <2> QED  BY <2>2, <2>3, <2>4 DEF LimitsInv
<1>5. CASE Answer
  <2>1. /\ phase = "ask" /\ left.answers > 0 /\ Goto("compile") /\ task' = NoTask
        /\ left' = [left EXCEPT !.answers = @ - 1] /\ version' = version + 1
        /\ UNCHANGED <<request, dev, hints, wrote, tools, round>>
    BY <1>5 DEF Answer
  <2>2. PhaseOK'
    BY <2>1, GoneOn DEF LimitsInv, OnlyPhases
  <2>3. LeftOK'
    BY <2>1 DEF LimitsInv, LeftOK, Bounds, BansInv
  <2>4. WroteOK'
    BY <2>1 DEF LimitsInv, WroteOK, BansInv
  <2>5. DataOK' /\ SpentOK' /\ TaskOK'
    BY <2>1 DEF LimitsInv, DataOK, SpentOK, TaskOK
  <2> QED  BY <2>2, <2>3, <2>4, <2>5 DEF LimitsInv
<1>6. CASE Touch \/ Prompt \/ EditMemory
  <2>1. UNCHANGED <<phase, verdict, hints, version, request, task, wrote, tools, round>>
    BY <1>6 DEF Touch, Prompt, EditMemory, user, run
  <2>2. LeftOK'
    BY <1>6, <2>1 DEF Touch, Prompt, EditMemory, user, LimitsInv, LeftOK, Bounds
  <2>3. DOMAIN dev' = DOMAIN dev
    BY <1>6 DEF Touch, Prompt, Prompted, EditMemory, SetFields
  <2> QED  BY <2>1, <2>2, <2>3 DEF LimitsInv, PhaseOK, DataOK, SpentOK, TaskOK, WroteOK
<1>7. CASE UNCHANGED vars
  BY <1>7 DEF vars, LimitsInv, PhaseOK, DataOK, SpentOK, LeftOK, TaskOK, WroteOK
<1> QED  BY <1>1, <1>2, <1>3, <1>4, <1>5, <1>6, <1>7 DEF Next, Job

\* Whatever is asked, answered, touched and remembered, a run makes at most six
\* writes, each of them one the registry accepts and of a goal version that was, stays
\* within its 24 tool calls and two replans, and is over exactly when it has a verdict.
THEOREM TypeCorrect == Spec => []TypeOK
<1>1. Init => LimitsInv /\ BansInv /\ MemoryInv
  <2>1. Init => BansInv
    BY EmptySeq DEF Init, BansInv, BansKept, Working
  <2>2. Init => MemoryInv
    BY EmptySeq DEF Init, MemoryInv, InUse, HasNewest
  <2> QED  BY <2>1, <2>2, LimitsInit
<1>2. LimitsInv /\ BansInv /\ MemoryInv /\ [Next]_vars => (LimitsInv /\ BansInv /\ MemoryInv)'
  BY LimitsStep, BansInvStep, MemoryInvStep
<1>3. MemoryInv => MemoryTypeOK
  <2>1. MemoryInv => DOMAIN memory = 1..Len(memory)
                     /\ \A i \in 1..Len(memory) : memory[i] \in EntryType
    BY LenProperties, ElementOfSeq DEF MemoryInv
  <2> QED  BY <2>1 DEF MemoryTypeOK, EntryType
<1>4. LimitsInv /\ MemoryInv => TypeOK
  BY <1>3 DEF LimitsInv, PhaseOK, OnlyPhases, Verdicts, DataOK, SpentOK, LeftOK, TaskOK, WroteOK,
              TypeOK
<1> QED  BY <1>1, <1>2, <1>4, PTL DEF Spec
-----------------------------------------------------------------------------
(* Two candidates of one text, with hints and without.                        *)
GoalFields == {"type", "value", "source"}
IsGoal(g) == DOMAIN g = GoalFields /\ g = [f \in GoalFields |-> g[f]]
IsGoals(p) == (\E S : p \in Seq(S)) /\ \A i \in 1..Len(p) : IsGoal(p[i])
\* p is q but for values that the user has not said.
Alike(p, q) ==
  /\ IsGoals(p) /\ IsGoals(q) /\ Len(p) = Len(q)
  /\ \A i \in 1..Len(q) :
       p[i].type = q[i].type /\ (q[i].source = "user" => p[i] = q[i])

LEMMA AlikeSelf ==
  ASSUME NEW p, IsGoals(p)
  PROVE  Alike(p, p)
  BY DEF Alike

LEMMA NoGoal == IsGoals(<<>>)
  BY EmptySeq DEF IsGoals

LEMMA OneGoal ==
  ASSUME NEW t, NEW x, NEW s
  PROVE  IsGoals(<<Goal(t, x, s)>>)
<1> DEFINE g == Goal(t, x, s)
           q == <<g>>
<1>1. IsGoal(g)
  BY DEF IsGoal, Goal, GoalFields
<1> HIDE DEF g
<1>2. q \in Seq({g}) /\ Len(q) = 1 /\ q[1] = g
  OBVIOUS
<1> HIDE DEF q
<1>3. IsGoals(q)
  BY <1>1, <1>2 DEF IsGoals
<1> QED  BY <1>3 DEF q, g

LEMMA IfGoals ==
  ASSUME NEW cond, NEW t, NEW x, NEW s
  PROVE  IsGoals(If(cond, t, x, s))
<1>1. CASE cond
  BY <1>1, OneGoal DEF If
<1>2. CASE ~cond
  BY <1>2, NoGoal DEF If
<1> QED  BY <1>1, <1>2

LEMMA JoinAlike ==
  ASSUME NEW p, NEW q, NEW r, NEW s, Alike(p, q), Alike(r, s)
  PROVE  Alike(p \o r, q \o s)
<1>1. PICK P : p \in Seq(P)
  BY DEF Alike, IsGoals
<1>2. PICK Q : q \in Seq(Q)
  BY DEF Alike, IsGoals
<1>3. PICK R : r \in Seq(R)
  BY DEF Alike, IsGoals
<1>4. PICK T : s \in Seq(T)
  BY DEF Alike, IsGoals
<1> DEFINE U == P \cup Q \cup R \cup T
<1>5. p \in Seq(U) /\ q \in Seq(U) /\ r \in Seq(U) /\ s \in Seq(U)
  <2>1. P \subseteq U /\ Q \subseteq U /\ R \subseteq U /\ T \subseteq U
    OBVIOUS
  <2> HIDE DEF U
  <2> QED  BY <1>1, <1>2, <1>3, <1>4, <2>1, SeqMonotonic
<1> HIDE DEF U
<1>6. Len(p) \in Nat /\ Len(r) \in Nat /\ Len(p) = Len(q) /\ Len(r) = Len(s)
  BY <1>5, LenProperties DEF Alike
<1>7. /\ p \o r \in Seq(U) /\ Len(p \o r) = Len(p) + Len(r)
      /\ \A i \in 1..Len(p) + Len(r) : (p \o r)[i] = IF i <= Len(p) THEN p[i] ELSE r[i - Len(p)]
  BY <1>5, ConcatProperties
<1>8. /\ q \o s \in Seq(U) /\ Len(q \o s) = Len(p) + Len(r)
      /\ \A i \in 1..Len(p) + Len(r) : (q \o s)[i] = IF i <= Len(p) THEN q[i] ELSE s[i - Len(p)]
  BY <1>5, <1>6, ConcatProperties
<1>9. ASSUME NEW i \in 1..(Len(p) + Len(r))
      PROVE  /\ IsGoal((p \o r)[i]) /\ IsGoal((q \o s)[i])
             /\ (p \o r)[i].type = (q \o s)[i].type
             /\ (q \o s)[i].source = "user" => (p \o r)[i] = (q \o s)[i]
  <2>1. CASE i <= Len(p)
    <3>1. i \in 1..Len(p) /\ (p \o r)[i] = p[i] /\ (q \o s)[i] = q[i]
      BY <1>6, <1>7, <1>8, <2>1
    <3> QED  BY <1>6, <3>1 DEF Alike, IsGoals
  <2>2. CASE ~(i <= Len(p))
    <3>1. /\ i - Len(p) \in 1..Len(r)
          /\ (p \o r)[i] = r[i - Len(p)] /\ (q \o s)[i] = s[i - Len(p)]
      BY <1>6, <1>7, <1>8, <2>2
    <3> QED  BY <1>6, <3>1 DEF Alike, IsGoals
  <2> QED  BY <2>1, <2>2
<1>10. IsGoals(p \o r) /\ IsGoals(q \o s)
  BY <1>7, <1>8, <1>9 DEF IsGoals
<1> QED  BY <1>7, <1>8, <1>9, <1>10 DEF Alike

LEMMA JoinGoals ==
  ASSUME NEW p, NEW r, IsGoals(p), IsGoals(r)
  PROVE  IsGoals(p \o r)
<1>1. Alike(p \o r, p \o r)
  BY AlikeSelf, JoinAlike
<1> QED  BY <1>1 DEF Alike

\* One goal each, of one type, the same if the user has said it.
LEMMA OneAlike ==
  ASSUME NEW t, NEW x, NEW y, NEW r, NEW s, s = "user" => x = y /\ r = s
  PROVE  Alike(<<Goal(t, x, r)>>, <<Goal(t, y, s)>>)
<1> DEFINE g == Goal(t, x, r)
           h == Goal(t, y, s)
<1>1. g.type = h.type /\ (h.source = "user" => g = h)
  BY DEF Goal
<1>2. IsGoals(<<g>>) /\ IsGoals(<<h>>)
  BY OneGoal
<1> HIDE DEF g, h
<1> QED  BY <1>1, <1>2 DEF Alike, g, h

LEMMA CabinAlike ==
  ASSUME NEW u, NEW h, NEW intents, NEW spoken
  PROVE  Alike(CabinGoals(u, h, intents, spoken), CabinGoals(u, NoHints, intents, spoken))
<1> DEFINE t == All(u)
           resting == Has(t, "rest")
           said24 == Has(t, "warmth") /\ \E i \in DOMAIN t : t[i].n = 24
           Power == If("climate_power" \in intents \/ Has(t, "air_on"), "climate_power", TRUE, "user")
           Warm(k) == IF ~("temperature" \in intents \/ resting) THEN <<>>
                      ELSE IF spoken # NoNumber THEN <<Goal("cabin_temperature", spoken, "user")>>
                      ELSE IF said24 THEN <<Goal("cabin_temperature", 24, "user")>>
                      ELSE IF InRange(k.temp, 16, 30)
                      THEN <<Goal("cabin_temperature", k.temp, "long_term_memory")>>
                      ELSE <<Goal("cabin_temperature", 23, "default")>>
           Blow(k) == If("fan" \in intents \/ resting, "cabin_fan",
                         IF InRange(k.fan, 1, 3) THEN k.fan ELSE 1,
                         IF k.fan # NoNumber THEN "long_term_memory" ELSE "default")
<1>0. NoHints.temp = NoNumber /\ NoHints.fan = NoNumber
  BY DEF NoHints
<1>1. Alike(Power, Power)
  BY IfGoals, AlikeSelf
<1>2. Alike(Warm(h), Warm(NoHints))
  <2>1. ~InRange(NoHints.temp, 16, 30)
    BY <1>0 DEF InRange
  <2>2. \/ Warm(h) = Warm(NoHints) /\ IsGoals(Warm(h))
        \/ \E x, r : Warm(h) = <<Goal("cabin_temperature", x, r)>>
                     /\ Warm(NoHints) = <<Goal("cabin_temperature", 23, "default")>>
    <3>1. IsGoals(<<Goal("cabin_temperature", spoken, "user")>>)
          /\ IsGoals(<<Goal("cabin_temperature", 24, "user")>>)
      BY OneGoal
    <3> QED  BY <2>1, <3>1, NoGoal
  <2> QED  BY <2>2, AlikeSelf, OneAlike
<1>3. Alike(Blow(h), Blow(NoHints))
  <2>1. CASE "fan" \in intents \/ resting
    <3>1. \E x, r : Blow(h) = <<Goal("cabin_fan", x, r)>>
      BY <2>1 DEF If
    <3>2. \E x : Blow(NoHints) = <<Goal("cabin_fan", x, "default")>>
      BY <1>0, <2>1 DEF If
    <3> QED  BY <3>1, <3>2, OneAlike
  <2>2. CASE ~("fan" \in intents \/ resting)
    <3>1. Blow(h) = <<>> /\ Blow(NoHints) = <<>>
      BY <2>2 DEF If
    <3> QED  BY <3>1, NoGoal, AlikeSelf
  <2> QED  BY <2>1, <2>2
<1>4. CASE Has(t, "no_cabin")
  BY <1>4, NoGoal, AlikeSelf DEF CabinGoals
<1>5. CASE ~Has(t, "no_cabin")
  <2>1. CabinGoals(u, h, intents, spoken) = Power \o Warm(h) \o Blow(h)
    BY <1>5 DEF CabinGoals
  <2>2. CabinGoals(u, NoHints, intents, spoken) = Power \o Warm(NoHints) \o Blow(NoHints)
    BY <1>5 DEF CabinGoals
  <2> HIDE DEF Power, Warm, Blow
  <2> QED  BY <1>1, <1>2, <1>3, <2>1, <2>2, JoinAlike
<1> QED  BY <1>4, <1>5

LEMMA MediaAlike ==
  ASSUME NEW u, NEW obs, NEW h, NEW intents
  PROVE  Alike(MediaGoals(u, obs, h, intents), MediaGoals(u, obs, NoHints, intents))
<1> DEFINE t == All(u)
           resting == Has(t, "rest")
           lower == IF obs.volume > 2 THEN obs.volume - 2 ELSE 0
           Open == If("window" \in intents /\ ~HasNoWindow(t), "window_position", ExtractWindow(t),
                      "user")
           Play == If("media_play" \in intents /\ ExtractArtist(t) # NoName, "media_play",
                      ExtractArtist(t), "user")
           Pause == If("media_pause" \in intents, "media_pause", TRUE, "user")
           Loud(k) ==
             IF ~("media_volume" \in intents \/ resting) THEN <<>>
             ELSE IF ~obs.muted /\ ("media_volume" \in intents \/ HasAny(t, {"media", "quiet"}))
             THEN IF k.volume # NoNumber
                  THEN <<Goal("media_volume", k.volume, "long_term_memory")>>
                  ELSE <<Goal("media_volume", lower, "default")>>
             ELSE If(obs.muted /\ resting, "media_keep_muted", TRUE, "observation")
<1>1. Alike(Open, Open) /\ Alike(Play, Play) /\ Alike(Pause, Pause)
  BY IfGoals, AlikeSelf
<1>2. Alike(Loud(h), Loud(NoHints))
  <2>0. NoHints.volume = NoNumber
    BY DEF NoHints
  <2> DEFINE muted == If(obs.muted /\ resting, "media_keep_muted", TRUE, "observation")
  <2>1. \/ Loud(h) = <<>> /\ Loud(NoHints) = <<>>
        \/ Loud(h) = muted /\ Loud(NoHints) = muted
        \/ \E x, r : Loud(h) = <<Goal("media_volume", x, r)>>
                     /\ Loud(NoHints) = <<Goal("media_volume", lower, "default")>>
    BY <2>0
  <2>2. IsGoals(muted)
    BY IfGoals
  <2> QED  BY <2>1, <2>2, NoGoal, AlikeSelf, OneAlike
<1>3. /\ MediaGoals(u, obs, h, intents) = Open \o Play \o Pause \o Loud(h)
      /\ MediaGoals(u, obs, NoHints, intents) = Open \o Play \o Pause \o Loud(NoHints)
  BY DEF MediaGoals
<1> HIDE DEF Open, Play, Pause, Loud
<1>4. Alike(Open \o Play \o Pause, Open \o Play \o Pause)
  BY <1>1, JoinAlike
<1> QED  BY <1>2, <1>3, <1>4, JoinAlike

LEMMA OtherGoals ==
  ASSUME NEW u, NEW obs, NEW intents
  PROVE  /\ IsGoals(NavGoals(u, intents)) /\ IsGoals(LifeGoals(u, intents))
         /\ IsGoals(PromptGoals(u, obs, intents))
<1>1. IsGoals(NavGoals(u, intents))
  <2> DEFINE t == All(u)
             Wants(i) == If(i \in intents, i, TRUE, "user")
             Said(i, x) == If(i \in intents /\ x # NoName, i, x, "user")
             Toward == Said("nav_start", ExtractDestination(t)) \o Wants("nav_home")
                      \o Wants("nav_company")
             Via == Toward \o Said("nav_add_waypoint", ExtractWaypoint(t))
                    \o Said("nav_remove_waypoint", ExtractRemoveWaypoint(t))
                    \o Said("nav_preference", ExtractPreference(t))
             Ctl == Via \o Wants("nav_stop") \o Wants("nav_pause") \o Wants("nav_resume")
  <2>1. \A i : IsGoals(Wants(i)) /\ \A x : IsGoals(Said(i, x))
    BY IfGoals
  <2>2. NavGoals(u, intents) = Ctl \o Wants("nav_query_eta") \o Wants("nav_query_status")
                               \o Wants("nav_query_waypoints")
    BY DEF NavGoals
  <2> HIDE DEF Wants, Said
  <2>3. IsGoals(Toward)
    BY <2>1, JoinGoals
  <2> HIDE DEF Toward
  <2>4. IsGoals(Via)
    BY <2>1, <2>3, JoinGoals
  <2> HIDE DEF Via
  <2>5. IsGoals(Ctl)
    BY <2>1, <2>4, JoinGoals
  <2> HIDE DEF Ctl
  <2> QED  BY <2>1, <2>2, <2>5, JoinGoals
<1>2. IsGoals(LifeGoals(u, intents))
  BY IfGoals, JoinGoals DEF LifeGoals
<1>3. IsGoals(PromptGoals(u, obs, intents))
  BY IfGoals, JoinGoals DEF PromptGoals
<1> QED  BY <1>1, <1>2, <1>3

LEMMA BoundAlike ==
  ASSUME NEW u, NEW obs, NEW h, NEW intents
  PROVE  Alike(BindComplex(u, obs, h, intents), BindComplex(u, obs, NoHints, intents))
<1>1. /\ Alike(NavGoals(u, intents), NavGoals(u, intents))
      /\ Alike(LifeGoals(u, intents), LifeGoals(u, intents))
      /\ Alike(PromptGoals(u, obs, intents), PromptGoals(u, obs, intents))
  BY OtherGoals, AlikeSelf
<1> QED  BY <1>1, CabinAlike, MediaAlike, JoinAlike DEF BindComplex

\* Candidates that differ in their goals at most, and these are alike.
Twins(c, d) ==
  /\ DOMAIN c = Fields /\ c = [f \in Fields |-> c[f]]
  /\ DOMAIN d = Fields /\ d = [f \in Fields |-> d[f]]
  /\ \A f \in Fields \ {"goals"} : c[f] = d[f]
  /\ Alike(c.goals, d.goals)

LEMMA TwinTypes ==
  ASSUME NEW p, NEW q, Alike(p, q)
  PROVE  /\ Types(p) = Types(q) /\ (p = <<>> <=> q = <<>>) /\ Len(p) = Len(q)
         /\ DOMAIN p = 1..Len(q) /\ DOMAIN q = 1..Len(q) /\ Len(q) \in Nat
<1>1. PICK P : p \in Seq(P)
  BY DEF Alike, IsGoals
<1>2. PICK Q : q \in Seq(Q)
  BY DEF Alike, IsGoals
<1>3. DOMAIN p = 1..Len(q) /\ DOMAIN q = 1..Len(q) /\ Len(p) = Len(q) /\ Len(q) \in Nat
  BY <1>1, <1>2, LenProperties DEF Alike
<1>4. p = <<>> <=> q = <<>>
  BY <1>1, <1>2, <1>3, EmptySeq
<1>5. Types(p) = Types(q)
  BY <1>3 DEF Types, Alike
<1> QED  BY <1>3, <1>4, <1>5

LEMMA RenamedAlike ==
  ASSUME NEW p, NEW q, Alike(p, q)
  PROVE  Alike([i \in DOMAIN p |-> NormalizeGoal(p[i])], [i \in DOMAIN q |-> NormalizeGoal(q[i])])
<1> DEFINE r == [i \in DOMAIN p |-> NormalizeGoal(p[i])]
           s == [i \in DOMAIN q |-> NormalizeGoal(q[i])]
           n == Len(q)
<1>1. DOMAIN p = 1..n /\ DOMAIN q = 1..n /\ n \in Nat /\ Len(p) = n
  BY TwinTypes
<1>2. ASSUME NEW g, IsGoal(g)
      PROVE  /\ IsGoal(NormalizeGoal(g)) /\ NormalizeGoal(g).source = g.source
             /\ NormalizeGoal(g).type = IF g.type \in DOMAIN GoalAliases THEN GoalAliases[g.type]
                                        ELSE g.type
  BY <1>2 DEF IsGoal, NormalizeGoal, GoalFields
<1>3. \A i \in 1..n :
        /\ IsGoal(r[i]) /\ IsGoal(s[i]) /\ r[i].type = s[i].type
        /\ s[i].source = "user" => r[i] = s[i]
  <2> SUFFICES ASSUME NEW i \in 1..n
               PROVE  /\ IsGoal(r[i]) /\ IsGoal(s[i]) /\ r[i].type = s[i].type
                      /\ s[i].source = "user" => r[i] = s[i]
    OBVIOUS
  <2>1. r[i] = NormalizeGoal(p[i]) /\ s[i] = NormalizeGoal(q[i])
    BY <1>1
  <2>2. /\ IsGoal(p[i]) /\ IsGoal(q[i]) /\ p[i].type = q[i].type
        /\ q[i].source = "user" => p[i] = q[i]
    BY <1>1 DEF Alike, IsGoals
  <2> HIDE DEF r, s
  <2> QED  BY <1>2, <2>1, <2>2
<1>4. r \in Seq({r[i] : i \in 1..n}) /\ Len(r) = n
  <2>1. r \in [1..n -> {r[i] : i \in 1..n}]
    BY <1>1
  <2> QED  BY <1>1, <2>1, Listed
<1>5. s \in Seq({s[i] : i \in 1..n}) /\ Len(s) = n
  <2>1. s \in [1..n -> {s[i] : i \in 1..n}]
    BY <1>1
  <2> QED  BY <1>1, <2>1, Listed
<1> HIDE DEF r, s
<1>6. IsGoals(r) /\ IsGoals(s)
  BY <1>3, <1>4, <1>5 DEF IsGoals
<1> QED  BY <1>3, <1>4, <1>5, <1>6 DEF Alike, r, s

LEMMA RoutedTwins ==
  ASSUME NEW c, NEW d, NEW u, Twins(c, d)
  PROVE  Twins(CorrectRoute(c, u), CorrectRoute(d, u))
<1>1. /\ Types(c.goals) = Types(d.goals) /\ (c.goals = <<>> <=> d.goals = <<>>)
      /\ Len(c.goals) = Len(d.goals)
  BY TwinTypes DEF Twins
<1>2. c.bans = d.bans /\ c.route = d.route
  BY DEF Twins, Fields
<1>3. ASSUME NEW r  PROVE Twins([c EXCEPT !.route = r], [d EXCEPT !.route = r])
  BY DEF Twins, Fields
<1> QED  BY <1>1, <1>2, <1>3 DEF CorrectRoute

LEMMA NormalizedTwins ==
  ASSUME NEW c, NEW d, NEW u, Twins(c, d)
  PROVE  Twins(Normalize(c, u), Normalize(d, u))
<1> DEFINE Kept(x) == {b \in x.bans \cap KnownConstraints :
                         b = "keep_navigation_prompt" => Has(All(u), "keep_nav")}
           NewGoals(x) == [i \in DOMAIN x.goals |-> NormalizeGoal(x.goals[i])]
           New(x) == [x EXCEPT !.goals = NewGoals(x), !.bans = Kept(x)]
<1>1. Kept(c) = Kept(d)
  BY DEF Twins, Fields
<1>2. Alike(NewGoals(c), NewGoals(d))
  BY RenamedAlike DEF Twins
<1> HIDE DEF Kept, NewGoals
<1>3. Twins(New(c), New(d))
  BY <1>1, <1>2 DEF Twins, Fields
<1>4. Normalize(c, u) = CorrectRoute(New(c), u) /\ Normalize(d, u) = CorrectRoute(New(d), u)
  BY DEF Normalize, Kept, NewGoals
<1> HIDE DEF New
<1> QED  BY <1>3, <1>4, RoutedTwins

LEMMA ClarifiedTwins ==
  ASSUME NEW c, NEW d, Twins(c, d)
  PROVE  Twins(Clarify(c), Clarify(d))
  BY DEF Twins, Clarify, Fields

\* The hints reach a candidate by way of its goals only.
LEMMA CompiledTwins ==
  ASSUME NEW u, NEW obs, NEW h
  PROVE  Compile(u, obs, h) = Compile(u, obs, NoHints)
         \/ Twins(Compile(u, obs, h), Compile(u, obs, NoHints))
<1> DEFINE intents == DetectIntents(u)
           temp == SpokenTemp(u)
           bound == [NoCandidate EXCEPT !.bans = BindConstraints(u)]
           Said(k) == [bound EXCEPT !.route = "MULTI_AGENT", !.heard = Has(All(u), "silent"),
                                    !.goals = BindComplex(u, obs, k, intents)]
<1>1. /\ Compile(u, obs, h) = Decide(u, obs, h, intents, temp, bound)
      /\ Compile(u, obs, NoHints) = Decide(u, obs, NoHints, intents, temp, bound)
  BY DEF Compile
<1>2. DOMAIN bound = Fields /\ bound = [f \in Fields |-> bound[f]]
  BY DEF NoCandidate, Fields
<1> HIDE DEF intents, temp, bound
<1>3. \/ Decide(u, obs, h, intents, temp, bound) = Decide(u, obs, NoHints, intents, temp, bound)
      \/ /\ Decide(u, obs, h, intents, temp, bound) = Complete(Said(h), intents, u)
         /\ Decide(u, obs, NoHints, intents, temp, bound) = Complete(Said(NoHints), intents, u)
  BY DEF Decide
<1>4. Twins(Said(h), Said(NoHints))
  <2> DEFINE G(k) == BindComplex(u, obs, k, intents)
  <2>1. Alike(G(h), G(NoHints))
    BY BoundAlike
  <2> HIDE DEF G
  <2>2. /\ Said(h) = [bound EXCEPT !.route = "MULTI_AGENT", !.heard = Has(All(u), "silent"),
                                   !.goals = G(h)]
        /\ Said(NoHints) = [bound EXCEPT !.route = "MULTI_AGENT", !.heard = Has(All(u), "silent"),
                                         !.goals = G(NoHints)]
    BY DEF G
  <2> HIDE DEF Said
  <2> QED  BY <1>2, <2>1, <2>2 DEF Twins, Fields
<1> HIDE DEF Said
<1>5. Missing(Said(h).goals, intents) = Missing(Said(NoHints).goals, intents)
  BY <1>4, TwinTypes DEF Missing, Twins
<1>6. Twins(Complete(Said(h), intents, u), Complete(Said(NoHints), intents, u))
  BY <1>4, <1>5, NormalizedTwins, ClarifiedTwins DEF Complete
<1> QED  BY <1>1, <1>3, <1>6

LEMMA TwinsSuggested ==
  ASSUME NEW c, NEW d, Twins(c, d)
  PROVE  OnlySuggested(c, d)
<1>1. [c EXCEPT !.goals = <<>>] = [d EXCEPT !.goals = <<>>]
  BY DEF Twins, Fields
<1>2. Len(c.goals) = Len(d.goals) /\ DOMAIN c.goals = 1..Len(d.goals)
  BY TwinTypes DEF Twins
<1> QED  BY <1>1, <1>2 DEF Twins, Alike, OnlySuggested

\* The memory only suggests: whatever is remembered, and whatever the device shows, the
\* candidate compiled with the hints has the goals, the bans, the questions and the
\* route of the one compiled without, and every value the user has said.
THEOREM MemoryOnlySuggestsHolds == Spec => MemoryOnlySuggests
<1>1. ASSUME NEW u, NEW obs, NEW h
      PROVE  OnlySuggested(FakeCompile(u, obs, h), FakeCompile(u, obs, NoHints))
  <2>1. \/ FakeCompile(u, obs, h) = FakeCompile(u, obs, NoHints)
        \/ Twins(FakeCompile(u, obs, h), FakeCompile(u, obs, NoHints))
    BY CompiledTwins, NormalizedTwins DEF FakeCompile
  <2>2. \A c : OnlySuggested(c, c)
    BY DEF OnlySuggested
  <2> QED  BY <2>1, <2>2, TwinsSuggested
<1>2. [Next]_vars =>
        [phase = "compile" /\ phase' # phase /\ CanRead /\ Fake =>
           OnlySuggested(FakeCompile(text, dev, hints'), FakeCompile(text, dev, NoHints))]_vars
  BY <1>1
<1> QED  BY <1>2, PTL DEF Spec, MemoryOnlySuggests

-----------------------------------------------------------------------------
(* A verdict about a task is what the device shows.                          *)

\* The run goes on, at one of these phases.
GoesTo(S) == phase' \in S /\ UNCHANGED verdict
VerdictInv ==
  /\ phase = "compile" => task = NoTask
  /\ verdict # "none" => phase = "done"
  /\ verdict = "COMPLETED" => task = NoTask \/ Aggregate(task, dev) = "COMPLETED"
  /\ verdict \in {"PARTIAL", "FAILED"} => Aggregate(task, dev) = verdict

\* A finished run is what it was; only a request to do it again is compiled.
LEMMA VerdictStep == VerdictInv /\ [Next]_vars => VerdictInv'
<1> SUFFICES ASSUME VerdictInv, [Next]_vars PROVE VerdictInv'
  OBVIOUS
<1>1. CASE CompileTask
  <2>1. task = NoTask /\ verdict = "none"
    BY <1>1 DEF CompileTask, VerdictInv
  <2>2. ASSUME NEW c, NEW h, Accept(c, h)
        PROVE  \/ verdict' = "none" /\ phase' # "compile"
               \/ verdict' \in {"COMPLETED", "STOPPED"} /\ phase' = "done" /\ task' = NoTask
    BY <2>1, <2>2 DEF Accept, Finish, Goto
  <2>3. \E c, h : Accept(c, h)
    BY <1>1 DEF CompileTask
  <2> QED
    BY <2>2, <2>3 DEF VerdictInv
<1>2. CASE Answer
  BY <1>2 DEF Answer, Goto, VerdictInv
<1>3. ASSUME NEW a, NEW p \in {"conclude", "act"}, Perform(a, p)
      PROVE  GoesTo({p}) \/ Finish("STOPPED")
  <2>1. Write(a, p) => Goto(p) \/ Finish("STOPPED")
    BY DEF Write
  <2>2. Perform(a, p) => Goto(p) \/ Finish("STOPPED") \/ Write(a, p)
    BY DEF Perform
  <2> QED
    BY <1>3, <2>1, <2>2 DEF Goto, GoesTo
<1>4. CASE Fast
  <2>1. GoesTo({"ask", "conclude"}) \/ Finish("STOPPED")
    <3>1. Goto("ask") \/ Perform(ActionFor(task.goals[1]), "conclude")
      BY <1>4 DEF Fast
    <3> QED
      BY <1>3, <3>1 DEF Goto, GoesTo
  <2> QED
    BY <1>4, <2>1 DEF Fast, Finish, GoesTo, VerdictInv
<1>5. CASE Act
  <2>1. GoesTo({"act"}) \/ Finish("STOPPED")
    BY <1>3, <1>5 DEF Act
  <2> QED
    BY <1>5, <2>1 DEF Act, Finish, GoesTo, VerdictInv
<1>6. CASE Plan
  <2>1. ASSUME NEW d, Gate(d)
        PROVE  GoesTo({"act", phase}) \/ Finish("STOPPED")
    <3>1. Goto("act") \/ UNCHANGED <<phase, verdict>> \/ Finish("STOPPED")
      BY <2>1 DEF Gate
    <3> QED
      BY <3>1 DEF Goto, GoesTo
  <2>2. phase = "plan" /\ \E d : Gate(d)
    BY <1>6 DEF Plan
  <2>3. UNCHANGED <<task, dev>>
    BY <1>6 DEF Plan, run
  <2> QED
    BY <2>1, <2>2, <2>3 DEF Finish, GoesTo, VerdictInv
<1>7. CASE Start \/ Exhausted
  BY <1>7 DEF Start, Exhausted, Goto, Finish, VerdictInv
<1>8. CASE Audit \/ Conclude
  <2>1. UNCHANGED <<task, dev>> /\ phase # "done"
    BY <1>8 DEF Audit, Conclude, run
  <2>2. \/ phase' = "plan" /\ verdict' = verdict
        \/ phase' = "done" /\ verdict' \in {"STOPPED", Aggregate(task, dev)}
    BY <1>8 DEF Audit, Conclude, Verdict, Goto, Finish
  <2> QED
    BY <2>1, <2>2 DEF VerdictInv
<1>9. CASE Touch \/ Prompt
  BY <1>9 DEF Touch, Prompt, run, VerdictInv
<1>10. CASE EditMemory \/ UNCHANGED vars
  BY <1>10 DEF EditMemory, run, vars, VerdictInv
<1> QED
  BY <1>1, <1>2, <1>4, <1>5, <1>6, <1>7, <1>8, <1>9, <1>10 DEF Next, Job

\* However a run came to its verdict, through refusals, replans, a budget used up
\* or an auditor that asks for no more, the verdict says what the device shows. A
\* COMPLETED task has every criterion met, a PARTIAL one has some of them met and
\* some not, a FAILED one has none; a run without a task is COMPLETED only as CHAT.
\* This is the half of SaidIsDone that lies behind the compiler.
THEOREM VerdictIsTrue ==
  Spec => [](LET met == {c \in Criteria(task) : Met(task, c, dev)}
             IN /\ verdict = "COMPLETED" => task = NoTask \/ met = Criteria(task)
                /\ verdict = "PARTIAL" => met # {} /\ met # Criteria(task)
                /\ verdict = "FAILED" => met = {} /\ met # Criteria(task))
<1>1. VerdictInv =>
        LET met == {c \in Criteria(task) : Met(task, c, dev)}
        IN /\ verdict = "COMPLETED" => task = NoTask \/ met = Criteria(task)
           /\ verdict = "PARTIAL" => met # {} /\ met # Criteria(task)
           /\ verdict = "FAILED" => met = {} /\ met # Criteria(task)
  BY DEF VerdictInv, Aggregate
<1>2. Init => VerdictInv
  BY DEF Init, VerdictInv
<1> QED
  BY <1>1, <1>2, VerdictStep, PTL DEF Spec
==============================================================================
