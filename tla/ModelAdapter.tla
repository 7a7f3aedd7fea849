----------------------------- MODULE ModelAdapter -----------------------------
(* What the runtime makes of a model: the fake adapter, which is the goal     *)
(* compiler and the planner themselves, and the live one, which repairs what  *)
(* a language model answers (openai_compatible.compile_task, plan_draft,      *)
(* coerce_compile_node). A live answer is any of a few deviations from the    *)
(* compiler's own candidate, a live plan any of a few from the planner's.     *)
EXTENDS GoalCompiler, Planner, SequencesExt

NoHints == [temp |-> NoNumber, fan |-> NoNumber, volume |-> NoNumber]
\* compile(text, None, []): the defaults of state.get.
NoObservation ==
  [active |-> FALSE, dest |-> NoName, muted |-> FALSE, volume |-> 8,
   nav_muted |-> FALSE, prompts |-> FALSE, nav_volume |-> 0]

\* FakeModelAdapter.compile_task
FakeCompile(u, obs, hints) == Normalize(Compile(u, obs, hints), u)

FirstOf(s) == SubSeq(s, 1, IF Len(s) > 0 THEN 1 ELSE 0)
\* A live answer; banned: it has a key for constraints.
LiveAnswers(c) ==
  LET answer == [route |-> c.route, asks |-> FALSE, rejects |-> FALSE, heard |-> FALSE,
                 goals |-> c.goals, bans |-> c.bans, banned |-> TRUE]
  IN {answer,
      [answer EXCEPT !.goals = <<>>, !.bans = {}, !.banned = FALSE],
      [answer EXCEPT !.goals = FirstOf(@), !.bans = {}],
      [answer EXCEPT !.goals = FirstOf(@), !.route = "CLARIFY", !.asks = TRUE],
      [answer EXCEPT !.goals = Append(@, Goal("light_power", TRUE, "model"))],
      [answer EXCEPT !.goals = FirstOf(@), !.bans = @ \cup {"no_media_write"}]}

\* coerce_compile_node: an answer without goals gets those of the compiler.
Coerce(answer, fallback) ==
  LET bare == answer.goals = <<>>
  IN [route |-> answer.route, asks |-> answer.asks, rejects |-> answer.rejects,
      heard |-> answer.heard,
      goals |-> IF bare THEN fallback.goals ELSE answer.goals,
      bans |-> IF bare /\ ~answer.banned THEN fallback.bans ELSE answer.bans]
\* The repair takes each missing goal, and each of a type that is not there yet.
Repair(c, repaired, missing) ==
  LET Add(goals, g) ==
        IF Covers(g.type) \in missing \/ g.type \notin Types(goals) THEN Append(goals, g) ELSE goals
      route == IF repaired.route = "" THEN "FAST" ELSE repaired.route
  IN [c EXCEPT !.goals = FoldLeft(Add, c.goals, repaired.goals),
               !.bans = IF c.bans = {} THEN repaired.bans ELSE c.bans,
               !.asks = FALSE,
               !.route = IF @ \in {"CLARIFY", ""} THEN route ELSE @]
Covered(c, u, obs, hints, missing) ==
  IF missing = {} THEN c ELSE Normalize(Repair(c, Compile(u, obs, hints), missing), u)
\* A waypoint needs a destination.
Grounded(c, obs) ==
  IF "nav_add_waypoint" \in Types(c.goals) /\ obs.active /\ obs.dest = NoName THEN Clarify(c) ELSE c
\* OpenAICompatibleAdapter.compile_task
Complement(c, u, obs, hints, intents) ==
  Grounded(EnsureCoverage(Covered(c, u, obs, hints, Missing(c.goals, intents)), intents), obs)
LiveCompile(answer, u, obs, hints) ==
  Complement(Normalize(Coerce(answer, Compile(u, NoObservation, NoHints)), u),
             u, obs, hints, DetectIntents(u))

-----------------------------------------------------------------------------
\* A live plan: as the planner's, nothing, a part, spelled differently, banned.
LiveDrafts(t, dev) ==
  LET draft == BuildDraft(t, dev)
      alias == [i \in DOMAIN draft.actions |->
                  [draft.actions[i] EXCEPT
                     !.alias = draft.actions[i].cap \in {"cabin_temperature", "cabin_fan"}]]
      extra(a) == [draft EXCEPT !.actions = Append(@, a), !.idle = FALSE]
  IN [whole |-> draft,
      none |-> [draft EXCEPT !.actions = <<>>, !.idle = TRUE],
      first |-> [draft EXCEPT !.actions = FirstOf(@)],
      alias |-> [draft EXCEPT !.actions = Reverse(alias)],
      window |-> extra(Action("window_position", <<"all", 100>>)),
      warmth |-> extra([Action("cabin_temperature", 22) EXCEPT !.alias = TRUE])]
==============================================================================
