------------------------------- MODULE Planner -------------------------------
(* The planner and the zero-LLM gates of the multi-agent path:               *)
(* multi_agent.build_plan_draft and review, PreflightGate.check_plan and      *)
(* check_action, PolicyEngine.decide. A draft is its actions and the goal     *)
(* types it takes for satisfied; STALE and confirmations are Harness's.       *)
EXTENDS Acceptance

Banned(cap, bans) ==
  \/ "no_cabin_write" \in bans /\ cap \in Climate
  \/ "no_window" \in bans /\ cap = "window_position"
  \/ "no_media_write" \in bans /\ cap \in Media

\* build_plan_draft acts on these without a look at the device.
AlwaysPlanned ==
  Queries \cup {"window_position", "life_search_shops", "life_enter_shop",
                "life_add_to_cart", "life_go_to_checkout"}
\* The planner takes a goal for satisfied; not always what effects.matches says.
Settled(g, dev) ==
  CASE g.type \in AlwaysPlanned -> FALSE
    [] g.type = "nav_start" -> dev.active /\ dev.dest = g.value
    [] g.type = "nav_home" -> dev.active /\ dev.dest = "home_address"
    [] g.type = "nav_company" -> dev.active /\ dev.dest = "office"
    [] g.type = "nav_stop" -> ~dev.active
    [] g.type = "life_close" -> ~dev.life
    [] OTHER -> Matches(ActionFor(g), dev)
Planned(g, t, dev) ==
  /\ ~Banned(g.type, t.bans) /\ ~Settled(g, dev)
  /\ ~(g.type = "media_volume" /\ dev.muted)
BuildDraft(t, dev) ==
  LET acting == SelectSeq(t.goals, LAMBDA g : g.type # "media_keep_muted")
      planned == SelectSeq(acting, LAMBDA g : Planned(g, t, dev))
  IN [actions |-> [i \in DOMAIN planned |-> ActionFor(planned[i])],
      assumed |-> {y \in Types(acting) :
                     /\ ~Banned(y, t.bans) /\ ~(y = "media_volume" /\ dev.muted)
                     /\ \E i \in DOMAIN acting : acting[i].type = y /\ Settled(acting[i], dev)},
      idle |-> planned = <<>>]

-----------------------------------------------------------------------------
(* review: a plan may not violate, exceed or miss the goals.                 *)
\* The reviewer looks for the prefix climate., which the alias does not have.
Violations(t, draft) ==
  {i \in DOMAIN draft.actions : ~draft.actions[i].alias /\ Banned(draft.actions[i].cap, t.bans)}
Allowed(t) == {t.goals[i].type : i \in Acting(t.goals)}
Risky(t, draft) ==
  {i \in DOMAIN draft.actions : Allowed(t) # {} /\ draft.actions[i].cap \notin Allowed(t)}
\* Mutant: a goal that needs no action is missed.
MutMissingGoals(t, draft) ==
  {y \in Allowed(t) : ~Banned(y, t.bans) /\ y \notin {draft.actions[i].cap : i \in DOMAIN draft.actions}}
MissingGoals(t, draft) ==
  LET acts == {draft.actions[i].cap : i \in DOMAIN draft.actions}
  IN {y \in Allowed(t) : /\ ~Banned(y, t.bans) /\ y \notin acts \cup draft.assumed
                         /\ ~(draft.idle /\ acts = {})}

\* Mutant: the alias passes the policy as it passes the reviewer.
MutPolicyAllows(a, bans) == Validate(a) /\ (a.alias \/ ~Banned(a.cap, bans))
\* PolicyEngine.decide: schema and bans, by both spellings of a capability.
PolicyAllows(a, bans) == Validate(a) /\ ~Banned(a.cap, bans)

\* check_plan: REVISE is a DENY that names missing goals.
CheckPlan(t, draft) ==
  IF Violations(t, draft) # {} \/ Risky(t, draft) # {} \/ MissingGoals(t, draft) # {}
  THEN IF MissingGoals(t, draft) # {} THEN "REVISE" ELSE "DENY"
  ELSE IF \A i \in DOMAIN draft.actions : PolicyAllows(draft.actions[i], t.bans) THEN "ALLOW"
  ELSE "DENY"
\* check_action; again: the same write was applied for this goal version.
CheckAction(a, t, again, writes, dev) ==
  IF writes >= 6 THEN "DENY"
  ELSE IF again \/ Matches(a, dev) THEN "SKIP"
  ELSE IF PolicyAllows(a, t.bans) THEN "ALLOW"
  ELSE "DENY"
==============================================================================
