------------------------------ MODULE Normalizer ------------------------------
(* A compiled task before it is bound (CompiledTaskCandidate) and what        *)
(* model/normalizer.py does to every candidate, whoever compiled it.          *)
(* Left out: fast_action, which nothing executes, and the criteria a          *)
(* candidate carries, of which TaskBinder keeps only nav_prompt_event_played. *)
EXTENDS Utterance, FiniteSets

\* A goal. The value is a number, a name, a switch, or <<window, position>>.
Goal(type, value, source) == [type |-> type, value |-> value, source |-> source]
Types(goals) == {goals[i].type : i \in DOMAIN goals}

\* asks and rejects: there is a clarify_question, a reject_reason.
NoCandidate == [route |-> "", asks |-> FALSE, rejects |-> FALSE,
                goals |-> <<>>, bans |-> {}, heard |-> FALSE]
Clarify(c) == [c EXCEPT !.route = "CLARIFY", !.asks = TRUE]

KnownConstraints ==
  {"no_window", "no_reboot", "no_cabin_write", "no_media_write", "keep_navigation_prompt"}
\* GOAL_ALIASES, the names a model uses instead of those of the contract.
GoalAliases ==
  [temperature |-> "cabin_temperature", fan |-> "cabin_fan", power |-> "climate_power",
   volume |-> "media_volume", play |-> "media_play", pause |-> "media_pause",
   window |-> "window_position", navigate |-> "nav_start", nav_prompt |-> "nav_prompt_enabled",
   nav_mute |-> "nav_muted", nav_vol |-> "nav_volume"]
NormalizeGoal(g) ==
  IF g.type \in DOMAIN GoalAliases THEN [g EXCEPT !.type = GoalAliases[g.type]] ELSE g

Groups == {{"warmth", "air"}, {"fan"}, {"window", "open_window"}, {"media", "play"}, {"nav"}}
LooksComplexRequest(u) ==
  LET t == All(u)
      hits == Cardinality({g \in Groups : HasAny(t, g)})
  IN \/ HasAny(t, {"rest", "no_window", "keep_nav", "no_cabin"})
     \/ Has(t, "nav") /\ Has(t, "silent")
     \/ Semicolon(u) /\ hits >= 2
     \/ hits >= 3

SimpleNav ==
  {"nav_home", "nav_company", "nav_preference", "nav_query_eta", "nav_query_status",
   "nav_query_waypoints", "nav_stop", "nav_pause", "nav_resume"}
CorrectRoute(c, u) ==
  IF /\ c.goals # <<>> /\ Types(c.goals) \subseteq SimpleNav
     /\ c.bans = {} /\ ~LooksComplexRequest(u)
  THEN [c EXCEPT !.route = "FAST"]
  ELSE IF c.route = "FAST" /\ (LooksComplexRequest(u) \/ Len(c.goals) > 1 \/ c.bans # {})
  THEN [c EXCEPT !.route = "MULTI_AGENT"]
  ELSE c

\* normalize: goals, constraints, route. The prompt constraint needs the user's words.
Normalize(c, u) ==
  LET kept == {b \in c.bans \cap KnownConstraints :
                 b = "keep_navigation_prompt" => Has(All(u), "keep_nav")}
  IN CorrectRoute([c EXCEPT !.goals = [i \in DOMAIN c.goals |-> NormalizeGoal(c.goals[i])],
                            !.bans = kept], u)
==============================================================================
