----------------------------- MODULE GoalCompiler -----------------------------
(* runtime/goal_compiler.py: a text, an observation of the device and the     *)
(* hints of the long-term memory become a candidate. Wording is left out: of  *)
(* a question it is kept that there is one.                                   *)
EXTENDS Normalizer

InRange(n, low, high) == n # NoNumber /\ low <= n /\ n <= high

\* Which intents a text signals (detect_intents), read in the text and its focus.
Signals(u) ==
  LET t == Twice(u)
      home == Has(t, "home")
      company == Has(t, "company")
      order == Has(t, "life")
  IN [climate_power |-> HasAny(t, {"air_on", "air_off"}),
      temperature |-> \/ ExtractTemp(t) # NoNumber
                      \/ Has(t, "warmth") /\ \E i \in DOMAIN t : t[i].n # NoNumber
                      \/ Has(t, "set") /\ HasAny(t, {"degree", "air"}),
      fan |-> Has(t, "fan"),
      window |-> ~HasNoWindow(t) /\ HasAny(t, {"window", "open_window"}),
      media_play |-> Has(t, "play") /\ ~Has(t, "prompts"),
      media_pause |-> Has(t, "pause") /\ HasAny(t, {"media", "music", "play"}),
      media_volume |-> \/ ExtractMediaAbs(t) # NoNumber
                       \/ Has(t, "media") /\ HasAny(t, {"set", "quiet"}),
      nav_home |-> home,
      nav_company |-> company,
      nav_start |-> /\ ~home /\ ~company /\ ~Has(t, "eta") /\ ~LifeCheckout(t)
                    /\ \/ Has(t, "nav_to")
                       \/ ExtractDestination(t) # NoName
                       \/ Has(t, "nav") /\ "airport" \in Names(t),
      nav_add_waypoint |-> Has(t, "via"),
      nav_remove_waypoint |-> Has(t, "drop_via"),
      nav_stop |-> Has(t, "nav_stop"),
      nav_pause |-> Has(t, "nav_pause"),
      nav_resume |-> Has(t, "nav_resume"),
      nav_query_eta |-> Has(t, "eta"),
      nav_query_status |-> Has(t, "status"),
      nav_query_waypoints |-> Has(t, "ask_vias"),
      nav_preference |-> Has(t, "no_highway"),
      nav_prompt |-> Has(t, "prompts"),
      nav_diag |-> Has(t, "silent"),
      life_search_shops |-> order /\ ~Has(t, "via"),
      life_enter_shop |-> Has(t, "enter_shop"),
      life_add_to_cart |-> Has(t, "cart"),
      life_go_to_checkout |-> LifeCheckout(t),
      life_close |-> Has(t, "close_life"),
      light_power |-> HasAny(t, {"light_on", "light_off"})]
DetectIntents(u) == LET s == Signals(u) IN {i \in DOMAIN s : s[i]}

\* is_chat_only: nothing to do with the cabin in it, and a greeting or very short.
IsChatOnly(u) ==
  LET t == All(u)
  IN /\ ~HasAny(t, {"air", "degree", "fan", "window", "nav", "media", "play", "set", "quiet",
                    "via", "home", "company", "eta", "life"})
     /\ Has(t, "chat") \/ (Len(t) = 1 /\ ~Has(t, "rest"))

\* bind_constraints
BindConstraints(u) ==
  LET t == All(u)
  IN (IF HasNoWindow(t) THEN {"no_window"} ELSE {})
     \cup (IF Has(t, "no_cabin") THEN {"no_cabin_write"} ELSE {})
     \cup (IF Has(t, "keep_nav") THEN {"keep_navigation_prompt"} ELSE {})

\* _COVERAGE_BY_GOAL_TYPE: the intent a goal answers.
Renamed ==
  [cabin_temperature |-> "temperature", cabin_fan |-> "fan", window_position |-> "window",
   media_keep_muted |-> "media_volume", nav_prompt_enabled |-> "nav_prompt",
   nav_volume |-> "nav_diag", nav_muted |-> "nav_diag"]
Covers(type) == IF type \in DOMAIN Renamed THEN Renamed[type] ELSE type
Missing(goals, intents) ==
  (intents \ {"nav_diag"}) \ {Covers(y) : y \in Types(goals) \ DOMAIN GoalAliases}

\* ensure_coverage: an intent without a goal is a question to the user.
EnsureCoverage(c, intents) ==
  IF c.route \in {"REJECT", "CLARIFY"} \/ Missing(c.goals, intents) = {} THEN c ELSE Clarify(c)

\* The temperature a text asks for, a bare number or an "allow 23" included.
SpokenTemp(u) ==
  LET f == Focus(u)
  IN IF ExtractTemp(f) # NoNumber THEN ExtractTemp(f)
     ELSE IF Len(f) = 1 /\ f[1].say = "number" THEN f[1].n
     ELSE LET allow == {i \in At(f, {"allow"}) : f[i].n # NoNumber}
          IN IF allow # {} THEN f[Least(allow)].n ELSE NoNumber
\* first_non_null(extract(focus), extract(text))
FirstNonNull(a, b) == IF a # NoNumber THEN a ELSE b

-----------------------------------------------------------------------------
(* The FAST path: one intent, one goal; <<>> where the code asks a question. *)
One(cond, type, value) == IF cond THEN <<Goal(type, value, "user")>> ELSE <<>>
SimpleIntents ==
  {"media_pause", "nav_home", "nav_company", "nav_stop", "nav_pause", "nav_resume",
   "nav_query_eta", "nav_query_status", "nav_query_waypoints", "life_go_to_checkout", "life_close"}
FastCabin(i, u) ==
  LET t == All(u)
      temp == SpokenTemp(u)
      fan == FirstNonNull(ExtractFan(Focus(u)), ExtractFan(t))
      vol == FirstNonNull(ExtractMediaAbs(Focus(u)), ExtractMediaAbs(t))
      level == IF fan < 1 THEN 1 ELSE IF fan > 3 THEN 3 ELSE fan
      power == HasAny(t, {"air_on", "air_off"})
  IN CASE i = "temperature" -> One(temp # NoNumber /\ LooksLikeSimpleSet(u), "cabin_temperature", temp)
       [] i = "fan" -> One(fan # NoNumber, "cabin_fan", level)
       [] i = "media_volume" -> One(vol # NoNumber, "media_volume", vol)
       [] i = "climate_power" -> One(power, "climate_power", Has(t, "air_on"))
       [] i = "window" -> One(~HasNoWindow(t), "window_position", ExtractWindow(t))
       [] i = "media_play" -> One(ExtractArtist(t) # NoName, "media_play", ExtractArtist(t))
       [] OTHER -> <<>>
FastOther(i, u, obs) ==
  LET t == All(u)
      headed == obs.active /\ obs.dest # NoName
      on == Has(t, "light_on")
  IN CASE i = "nav_start" -> One(ExtractDestination(t) # NoName, i, ExtractDestination(t))
       [] i = "nav_preference" -> One(ExtractPreference(t) # NoName, i, ExtractPreference(t))
       [] i = "nav_add_waypoint" -> One(headed /\ ExtractWaypoint(t) # NoName, i, ExtractWaypoint(t))
       [] i = "nav_prompt" -> One(Has(t, "prompts"), "nav_prompt_enabled", TRUE)
       [] i = "life_search_shops" -> One(TRUE, i, ExtractLifeKeyword(t))
       [] i = "life_enter_shop" -> One(ExtractLifeShop(t) # NoName, i, ExtractLifeShop(t))
       [] i = "life_add_to_cart" -> One(ExtractLifeItem(t) # NoName, i, ExtractLifeItem(t))
       [] i = "light_power" -> One(on # Has(t, "light_off"), i, on)
       [] OTHER -> <<>>
FastGoals(i, u, obs) ==
  IF i \in SimpleIntents THEN One(TRUE, i, TRUE) ELSE FastCabin(i, u) \o FastOther(i, u, obs)

-----------------------------------------------------------------------------
(* The MULTI_AGENT path (bind_complex): every goal it finds, in a fixed order. *)
If(cond, type, value, source) == IF cond THEN <<Goal(type, value, source)>> ELSE <<>>

\* Mutant: what is remembered goes before what is said.
MutCabinGoals(u, hints, intents, spoken) ==
  LET t == All(u)
      remembered == hints.temp
  IN IF Has(t, "no_cabin") THEN <<>>
     ELSE If("climate_power" \in intents, "climate_power", TRUE, "user")
          \o If("temperature" \in intents, "cabin_temperature",
                IF remembered # NoNumber THEN remembered ELSE 23, "user")
\* Air conditioning: spoken before remembered before default.
CabinGoals(u, hints, intents, spoken) ==
  LET t == All(u)
      resting == Has(t, "rest")
      said24 == Has(t, "warmth") /\ \E i \in DOMAIN t : t[i].n = 24
      fanned == InRange(hints.fan, 1, 3)
  IN IF Has(t, "no_cabin") THEN <<>>
     ELSE If("climate_power" \in intents \/ Has(t, "air_on"), "climate_power", TRUE, "user")
          \o (IF ~("temperature" \in intents \/ resting) THEN <<>>
              ELSE IF spoken # NoNumber THEN <<Goal("cabin_temperature", spoken, "user")>>
              ELSE IF said24 THEN <<Goal("cabin_temperature", 24, "user")>>
              ELSE IF InRange(hints.temp, 16, 30)
              THEN <<Goal("cabin_temperature", hints.temp, "long_term_memory")>>
              ELSE <<Goal("cabin_temperature", 23, "default")>>)
          \o If("fan" \in intents \/ resting, "cabin_fan", IF fanned THEN hints.fan ELSE 1,
                IF hints.fan # NoNumber THEN "long_term_memory" ELSE "default")
\* Windows and media. A number that is spoken for the volume is not read here.
MediaGoals(u, obs, hints, intents) ==
  LET t == All(u)
      resting == Has(t, "rest")
      lower == IF obs.volume > 2 THEN obs.volume - 2 ELSE 0
  IN If("window" \in intents /\ ~HasNoWindow(t), "window_position", ExtractWindow(t), "user")
     \o If("media_play" \in intents /\ ExtractArtist(t) # NoName, "media_play", ExtractArtist(t), "user")
     \o If("media_pause" \in intents, "media_pause", TRUE, "user")
     \o (IF ~("media_volume" \in intents \/ resting) THEN <<>>
         ELSE IF ~obs.muted /\ ("media_volume" \in intents \/ HasAny(t, {"media", "quiet"}))
         THEN IF hints.volume # NoNumber
              THEN <<Goal("media_volume", hints.volume, "long_term_memory")>>
              ELSE <<Goal("media_volume", lower, "default")>>
         ELSE If(obs.muted /\ resting, "media_keep_muted", TRUE, "observation"))
NavGoals(u, intents) ==
  LET t == All(u)
      Wants(i) == If(i \in intents, i, TRUE, "user")
      Named(i, x) == If(i \in intents /\ x # NoName, i, x, "user")
  IN Named("nav_start", ExtractDestination(t))
     \o Wants("nav_home") \o Wants("nav_company")
     \o Named("nav_add_waypoint", ExtractWaypoint(t))
     \o Named("nav_remove_waypoint", ExtractRemoveWaypoint(t))
     \o Named("nav_preference", ExtractPreference(t))
     \o Wants("nav_stop") \o Wants("nav_pause") \o Wants("nav_resume")
     \o Wants("nav_query_eta") \o Wants("nav_query_status") \o Wants("nav_query_waypoints")
LifeGoals(u, intents) ==
  LET t == All(u)
      Wants(i, x) == If(i \in intents /\ x # NoName, i, x, "user")
  IN If("life_search_shops" \in intents, "life_search_shops", ExtractLifeKeyword(t), "user")
     \o Wants("life_enter_shop", ExtractLifeShop(t))
     \o Wants("life_add_to_cart", ExtractLifeItem(t))
     \o If("life_go_to_checkout" \in intents, "life_go_to_checkout", TRUE, "user")
     \o If("life_close" \in intents, "life_close", TRUE, "user")
     \o If("light_power" \in intents /\ Has(t, "light_on") # Has(t, "light_off"),
           "light_power", Has(t, "light_on"), "user")
\* "The navigation has no sound": unmute, enable, turn up what the device shows to be off.
PromptGoals(u, obs, intents) ==
  LET silent == Has(All(u), "silent")
  IN If(silent /\ obs.nav_muted, "nav_muted", FALSE, "user")
     \o If(silent /\ ~obs.prompts, "nav_prompt_enabled", TRUE, "user")
     \o If(silent /\ obs.nav_volume = 0, "nav_volume", 3, "default")
     \o If("nav_prompt" \in intents /\ ~silent, "nav_prompt_enabled", TRUE, "user")
BindComplex(u, obs, hints, intents) ==
  CabinGoals(u, hints, intents, SpokenTemp(u)) \o MediaGoals(u, obs, hints, intents)
  \o NavGoals(u, intents) \o LifeGoals(u, intents) \o PromptGoals(u, obs, intents)

\* What a complex request becomes; what is covered is normalised.
Complete(c, intents, u) ==
  IF Missing(c.goals, intents) = {} THEN Normalize(c, u) ELSE Clarify(c)
Complex(u, intents) ==
  \/ IsComplex(u) \/ Cardinality(intents) > 1
  \/ Has(All(u), "rest") \/ (Has(All(u), "nav") /\ Has(All(u), "silent"))
\* compile from the intents and the temperature of the text. The third test cannot
\* succeed: no_window in the text hides the intent.
Decide(u, obs, hints, intents, temp, bound) ==
  IF intents = {} /\ IsChatOnly(u) THEN [NoCandidate EXCEPT !.route = "CHAT"]
  ELSE IF Has(All(u), "keep_now") /\ ~HasAny(Focus(u), {"allow", "as_is"}) THEN Clarify(NoCandidate)
  ELSE IF "window" \in intents /\ HasNoWindow(All(u)) /\ ~Has(Focus(u), "allow_window")
  THEN [bound EXCEPT !.route = "REJECT", !.rejects = TRUE]
  ELSE IF temp # NoNumber /\ ~InRange(temp, 16, 30) /\ LooksLikeSimpleSet(u) THEN Clarify(bound)
  ELSE IF Complex(u, intents)
  THEN Complete([bound EXCEPT !.route = "MULTI_AGENT", !.heard = Has(All(u), "silent"),
                              !.goals = BindComplex(u, obs, hints, intents)], intents, u)
  ELSE LET fast == FastGoals(CHOOSE i \in intents : TRUE, u, obs)
       IN IF intents # {} /\ fast # <<>>
          THEN EnsureCoverage([bound EXCEPT !.route = "FAST", !.goals = fast], intents)
          ELSE Clarify(bound)
Compile(u, obs, hints) ==
  Decide(u, obs, hints, DetectIntents(u), SpokenTemp(u),
         [NoCandidate EXCEPT !.bans = BindConstraints(u)])
==============================================================================
