--------------------------------- MODULE Task ---------------------------------
(* One request from its text to its verdict: HarnessService._compile,         *)
(* _work_fast_or_legacy for a FAST task, _work_multi_agent, _execute_plan,    *)
(* _audit_and_maybe_replan and _conclude, with the compiler, the model        *)
(* adapter, the planner, the gates, the simulated device and the long-term    *)
(* memory as they are. Harness has the interleavings of one run with          *)
(* cancellation, goal changes and lost replies; here a read and the write     *)
(* decided on it are one step, since the device refuses a write whose         *)
(* revisions have moved (DeviceSim), which is a refusal here.                 *)
EXTENDS ModelAdapter, Memory

CONSTANTS
  Requests,     \* the requests: text, device, model, tenant, and bounds (left)
  Supplements,  \* the answers a user may give to a question
  Touches,      \* a sequence of changes made at the device by hand
  Notes         \* what may be saved in the memory: [key, value, domain]

ASSUME NotesAssumption ==
  Notes \subseteq [key : Keys, value : Nat, domain : {"cabin", "media", "general"}]

\* A request has a whole device and says how much may happen to its run.
Bounds == [edits : Nat, touches : Nat, refusals : Nat, answers : Nat]
ASSUME RequestsAssumption ==
  \A r \in Requests : DOMAIN r.dev = DOMAIN DefaultDevice /\ r.left \in Bounds

MaxTools == 24
MaxReplans == 2

VARIABLES
  request, \* the request, as made
  text,    \* what the user has said so far
  dev,     \* the device
  left,    \* how many edits of the memory, touches, refusals and answers are left
  phase,   \* compile, ask, fast, conclude, start, plan, act or done
  task,    \* the bound task
  hints,   \* what the memory told the compiler
  todo,    \* the actions of the plan that are not done yet
  wrote,   \* the writes of the run: [action, version, applied]
  version, \* the goal version
  tools,   \* run.budget.tool_calls
  round,   \* run.budget.replans
  touched, \* the fields changed by hand since the task was bound
  verdict  \* the lifecycle at the end
vars == <<memory, request, text, dev, left, phase, task, hints, todo, wrote, version, tools,
          round, touched, verdict>>
user == <<memory, request, text, left>>
run == <<task, hints, version>>

Init ==
  /\ request \in Requests
  /\ text = request.text /\ dev = request.dev /\ left = request.left
  /\ memory = <<>> /\ phase = "compile" /\ task = NoTask /\ hints = NoHints /\ todo = <<>>
  /\ wrote = <<>> /\ version = 1 /\ tools = 0 /\ round = 0 /\ touched = {} /\ verdict = "none"

Finish(v) == phase' = "done" /\ verdict' = v
Goto(p) == phase' = p /\ UNCHANGED verdict
\* Mutant: the budget is not capped.
MutSpend(n) == tools' = tools + n
Spend(n) == tools' = IF tools + n < MaxTools THEN tools + n ELSE MaxTools
CanRead == tools < MaxTools
Fake == request.model = "fake"

\* _compile: read, recall, compile, route, bind; bind may raise.
Accept(c, h) ==
  LET t == TaskOf(c) IN
  /\ hints' = h
  /\ CASE Route(c) = "CHAT" -> Finish("COMPLETED") /\ UNCHANGED task
       [] Route(c) = "REJECT" -> Finish("STOPPED") /\ UNCHANGED task
       [] Route(c) = "CLARIFY" -> Goto("ask") /\ UNCHANGED task
       [] OTHER ->
            IF ~Bindable(t) THEN Finish("STOPPED") /\ UNCHANGED task
            ELSE task' = t /\ Goto(IF Route(c) = "FAST" THEN "fast" ELSE "start")
CompileTask ==
  /\ phase = "compile" /\ CanRead /\ Spend(1)
  /\ LET h == Retrieve(memory, All(text), request.tenant)
     IN IF Fake THEN Accept(FakeCompile(text, dev, h), h)
        ELSE \E answer \in LiveAnswers(Compile(text, dev, NoHints)) :
               Accept(LiveCompile(answer, text, dev, h), h)
  /\ dev' = [dev EXCEPT !.played = FALSE] /\ touched' = {}
  /\ UNCHANGED <<user, todo, wrote, version, round>>
\* answer_clarification: the answer is added to the text, which is compiled again.
Answer ==
  /\ phase = "ask" /\ left.answers > 0
  /\ \E s \in Supplements : text' = [text EXCEPT !.added = @ \o s]
  /\ left' = [left EXCEPT !.answers = @ - 1]
  /\ version' = version + 1 /\ task' = NoTask /\ Goto("compile")
  /\ UNCHANGED <<memory, request, dev, hints, todo, wrote, tools, round, touched>>

-----------------------------------------------------------------------------
\* _external_conflict: a field of a criterion was set by hand to something else.
Conflict == \E c \in Criteria(task) : c[2] \in touched /\ ~Met(task, c, dev)
\* execute_write up to the settled action; then is where the job goes on.
Write(a, then) ==
  IF tools + 1 >= MaxTools THEN Finish("STOPPED") /\ UNCHANGED <<dev, wrote, left>>
  ELSE \E refused \in BOOLEAN :
    LET applied == ~refused /\ Precheck(a, dev) IN
    /\ refused => left.refusals > 0
    /\ left' = [left EXCEPT !.refusals = IF refused THEN @ - 1 ELSE @]
    /\ dev' = IF applied THEN Apply(a, dev) ELSE dev
    /\ wrote' = Append(wrote, [action |-> a, version |-> version, applied |-> applied])
    /\ Goto(then)
Again(a) ==
  \E i \in DOMAIN wrote : /\ wrote[i].version = version /\ wrote[i].applied
                          /\ wrote[i].action.cap = a.cap /\ wrote[i].action = a
\* Read, decide and write, or go on without a write.
Perform(a, then) ==
  LET gate == CheckAction(a, task, Again(a), Len(wrote), dev) IN
  CASE gate = "DENY" -> Finish("STOPPED") /\ Spend(1) /\ UNCHANGED <<dev, wrote, left>>
    [] gate = "SKIP" -> Goto(then) /\ Spend(1) /\ UNCHANGED <<dev, wrote, left>>
    [] OTHER -> Write(a, then) /\ Spend(3)

\* _work_fast_or_legacy, FAST: one read, one action, the verdict.
Fast ==
  /\ phase = "fast" /\ CanRead
  /\ IF Conflict THEN Goto("ask") /\ Spend(1) /\ UNCHANGED <<dev, wrote, left>>
     ELSE Perform(ActionFor(task.goals[1]), "conclude")
  /\ UNCHANGED <<run, memory, request, text, todo, round, touched>>
\* _work_multi_agent up to its loop.
Start ==
  /\ phase = "start" /\ CanRead /\ Spend(1)
  /\ Goto(IF Conflict THEN "ask" ELSE "plan")
  /\ UNCHANGED <<user, run, dev, todo, wrote, round, touched>>
\* One round: read, draft, check_plan.
Gate(draft) ==
  LET gate == CheckPlan(task, draft) IN
  CASE gate = "ALLOW" -> todo' = draft.actions /\ Goto("act") /\ UNCHANGED round
    [] gate = "REVISE" /\ round < MaxReplans -> round' = round + 1 /\ UNCHANGED <<todo, phase, verdict>>
    [] OTHER -> Finish("STOPPED") /\ UNCHANGED <<todo, round>>
Plan ==
  /\ phase = "plan" /\ CanRead /\ Spend(1)
  /\ LET drafts == LiveDrafts(task, dev)
     IN IF Fake THEN Gate(BuildDraft(task, dev)) ELSE \E k \in DOMAIN drafts : Gate(drafts[k])
  /\ UNCHANGED <<user, run, dev, wrote, touched>>
\* _execute_plan, one action.
Act ==
  /\ phase = "act" /\ todo # <<>> /\ CanRead
  /\ Perform(Head(todo), "act") /\ todo' = Tail(todo)
  /\ UNCHANGED <<run, memory, request, text, round, touched>>
\* A read, or the count of a write, beyond the budget ends the run.
Exhausted ==
  /\ phase \in {"compile", "fast", "start", "plan", "act"} /\ ~CanRead
  /\ phase = "act" => todo # <<>>
  /\ Finish("STOPPED")
  /\ UNCHANGED <<user, run, dev, todo, wrote, tools, round, touched>>
\* Verifier and OutcomeAggregator; a read beyond the budget is UNKNOWN, which stops.
Verdict == IF CanRead THEN Aggregate(task, dev) ELSE "STOPPED"
\* _audit_and_maybe_replan: the fake auditor asks for what is not satisfied.
Audit ==
  /\ phase = "act" /\ todo = <<>> /\ Spend(1)
  /\ \E again \in BOOLEAN :
       /\ Fake => again
       /\ IF again /\ Verdict \in {"PARTIAL", "FAILED"} /\ round < MaxReplans
          THEN round' = round + 1 /\ Goto("plan")
          ELSE Finish(Verdict) /\ UNCHANGED round
  /\ UNCHANGED <<user, run, dev, todo, wrote, touched>>
Conclude ==
  /\ phase = "conclude" /\ Spend(1) /\ Finish(Verdict)
  /\ UNCHANGED <<user, run, dev, todo, wrote, round, touched>>

-----------------------------------------------------------------------------
\* The world: the device is changed by hand, a prompt is played, the memory edited.
Touch ==
  /\ phase # "done" /\ left.touches > 0
  /\ \E i \in DOMAIN Touches :
       dev' = SetFields(dev, Touches[i]) /\ touched' = touched \cup DOMAIN Touches[i]
  /\ left' = [left EXCEPT !.touches = @ - 1]
  /\ UNCHANGED <<run, memory, request, text, phase, todo, wrote, tools, round, verdict>>
Prompt ==
  /\ phase # "done" /\ task.heard /\ dev' = Prompted(dev)
  /\ UNCHANGED <<user, run, phase, todo, wrote, tools, round, touched, verdict>>
EditMemory ==
  /\ phase # "done" /\ left.edits > 0
  /\ \/ \E n \in Notes, tenant \in Tenants :
          Remember(n.key, n.value, tenant) \/ WriteManual(n.key, n.value, n.domain, tenant)
     \/ \E i \in DOMAIN memory, tenant \in Tenants : Forget(i, tenant)
     \/ Outlive
  /\ left' = [left EXCEPT !.edits = @ - 1]
  /\ UNCHANGED <<run, request, text, dev, phase, todo, wrote, tools, round, touched, verdict>>

Job == CompileTask \/ Fast \/ Start \/ Plan \/ Act \/ Exhausted \/ Audit \/ Conclude
Next == Job \/ Answer \/ Touch \/ Prompt \/ EditMemory
\* Ready is ENABLED <<Job>>_vars, and JobRuns is WF_vars(Job), without compiling the
\* text at every state to see whether it can be compiled.
Ready == phase \notin {"ask", "done"}
JobRuns == []<>~Ready \/ []<><<Job>>_vars
\* The event loop runs the job, and the clock of the simulator plays prompts.
Spec == Init /\ [][Next]_vars /\ JobRuns /\ WF_vars(Prompt)
==============================================================================
