------------------------------ MODULE Acceptance ------------------------------
(* From a candidate to a task and from a task to a verdict: ExecutionRouter,  *)
(* TaskBinder.bind, Verifier.verify_goals, OutcomeAggregator.aggregate.       *)
(* A task keeps the goals, the bans and the heard demand of its candidate;    *)
(* its criteria are derived from them, never taken from a model.              *)
EXTENDS Capabilities

NoTask == [goals |-> <<>>, bans |-> {}, heard |-> FALSE]
TaskOf(c) == [goals |-> c.goals, bans |-> c.bans, heard |-> c.heard]

\* ExecutionRouter.route
Route(c) ==
  IF c.rejects THEN "REJECT"
  ELSE IF c.asks THEN "CLARIFY"
  ELSE IF c.route \in {"CHAT", "MULTI_AGENT"} THEN c.route
  ELSE IF Len(c.goals) = 1 /\ c.bans = {} THEN "FAST"
  ELSE "MULTI_AGENT"

\* A criterion: <<i, field>> for a field that goal i expects, <<i, "done">> for
\* a waypoint or a query, <<0, ...>> for what no single goal stands for.
CriteriaOf(g) ==
  LET fields == DOMAIN Expected(ActionFor(g)) IN IF fields = {} THEN {"done"} ELSE fields
Criteria(t) ==
  UNION {{<<i, f>> : f \in CriteriaOf(t.goals[i])} : i \in Acting(t.goals)}
  \cup (IF "keep_navigation_prompt" \in t.bans THEN {<<0, "retained">>} ELSE {})
  \cup (IF t.heard THEN {<<0, "heard">>} ELSE {})
\* bind raises for a goal that is not registered or not valid, and without criteria.
Bindable(t) ==
  /\ \A i \in Acting(t.goals) : Validate(ActionFor(t.goals[i]))
  /\ Criteria(t) # {}

\* Verifier.check
Retained(dev) == dev.active /\ dev.prompts /\ ~dev.nav_muted /\ dev.nav_volume >= 1
Met(t, c, dev) ==
  CASE c = <<0, "retained">> -> Retained(dev)
    [] c = <<0, "heard">> -> dev.played
    [] c[2] = "done" -> Matches(ActionFor(t.goals[c[1]]), dev)
    [] OTHER -> dev[c[2]] = Expected(ActionFor(t.goals[c[1]]))[c[2]]

\* Mutant: one criterion that is met is enough.
MutAggregate(t, dev) ==
  IF \E c \in Criteria(t) : Met(t, c, dev) THEN "COMPLETED" ELSE "FAILED"
\* OutcomeAggregator.aggregate, over the results of verify_goals.
Aggregate(t, dev) ==
  LET met == {c \in Criteria(t) : Met(t, c, dev)}
  IN IF met = Criteria(t) THEN "COMPLETED" ELSE IF met = {} THEN "FAILED" ELSE "PARTIAL"
==============================================================================
