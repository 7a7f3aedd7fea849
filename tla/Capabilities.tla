----------------------------- MODULE Capabilities -----------------------------
(* The capabilities of the terminal: the action a goal asks for, what the     *)
(* registry accepts, what an action is expected to leave on the device, and   *)
(* what the simulator does with it. A capability has the name of the goal     *)
(* type it serves (action_for is one to one). Of the four windows the model   *)
(* has the front left one and the others; routes and tracks are left out.     *)
(* Revisions, faults and repeated keys are DeviceSim's subject.               *)
EXTENDS Normalizer, TLC

\* alias: spelled cabin.set_... instead of climate.set_...
Action(cap, arg) == [cap |-> cap, arg |-> arg, alias |-> FALSE]
\* action_for: every goal has an action but "keep the media muted".
Acting(goals) == {i \in DOMAIN goals : goals[i].type # "media_keep_muted"}
ActionFor(g) == Action(g.type, g.value)

Climate == {"climate_power", "cabin_temperature", "cabin_fan"}
Media == {"media_play", "media_pause", "media_volume"}
Queries == {"nav_query_eta", "nav_query_status", "nav_query_waypoints"}
Navigation ==
  {"nav_start", "nav_stop", "nav_pause", "nav_resume", "nav_home", "nav_company",
   "nav_add_waypoint", "nav_remove_waypoint", "nav_preference", "nav_prompt_enabled",
   "nav_volume", "nav_muted"}
Life ==
  {"life_search_shops", "life_enter_shop", "life_add_to_cart", "life_go_to_checkout", "life_close"}
Registered ==
  Climate \cup Media \cup Queries \cup Navigation \cup Life \cup {"window_position", "light_power"}

\* The fields of the simulated device; answer is what the last query was told.
DefaultDevice ==
  [climate_power |-> FALSE, temperature |-> 26, fan |-> 3,
   window_front_left |-> 0, window_other |-> 0,
   playing |-> FALSE, artist |-> NoName, volume |-> 8, muted |-> FALSE,
   active |-> TRUE, dest |-> NoName, paused |-> FALSE, vias |-> {}, preference |-> "fastest",
   query |-> NoName, answer |-> <<>>,
   prompts |-> TRUE, nav_volume |-> 5, nav_muted |-> FALSE, played |-> FALSE,
   life |-> FALSE, phase |-> "idle", shop |-> NoName, item |-> NoName, light |-> FALSE]

\* CapabilityRegistry.validate, over the schemas of the terminal module.
Validate(a) ==
  CASE a.cap = "cabin_temperature" -> a.arg \in 16..30
    [] a.cap = "cabin_fan" -> a.arg \in 1..3
    [] a.cap \in {"media_volume", "nav_volume"} -> a.arg \in 0..10
    [] a.cap = "window_position" -> a.arg[1] \in {"front_left", "all"} /\ a.arg[2] \in 0..100
    [] a.cap = "nav_preference" -> a.arg \in {"fastest", "avoid_highway"}
    [] a.cap \in {"media_play", "nav_start", "nav_add_waypoint", "nav_remove_waypoint",
                  "life_search_shops", "life_enter_shop", "life_add_to_cart"} -> a.arg # NoName
    [] OTHER -> a.cap \in Registered

\* effects.expected; empty where effects.matches has a rule of its own.
Expected(a) ==
  CASE a.cap = "climate_power" -> "climate_power" :> a.arg
    [] a.cap = "cabin_temperature" -> "temperature" :> a.arg
    [] a.cap = "cabin_fan" -> "fan" :> a.arg
    [] a.cap = "window_position" ->
         [f \in {"window_front_left"} \cup IF a.arg[1] = "all" THEN {"window_other"} ELSE {} |-> a.arg[2]]
    [] a.cap = "media_play" -> [playing |-> TRUE, artist |-> a.arg]
    [] a.cap = "media_pause" -> "playing" :> FALSE
    [] a.cap = "media_volume" -> "volume" :> a.arg
    [] a.cap = "nav_start" -> [active |-> TRUE, dest |-> a.arg, paused |-> FALSE]
    [] a.cap = "nav_stop" -> [active |-> FALSE, paused |-> FALSE]
    [] a.cap = "nav_pause" -> "paused" :> TRUE
    [] a.cap = "nav_resume" -> "paused" :> FALSE
    [] a.cap = "nav_preference" -> "preference" :> a.arg
    [] a.cap \in {"nav_home", "nav_company"} -> [active |-> TRUE, paused |-> FALSE]
    [] a.cap = "nav_prompt_enabled" -> "prompts" :> a.arg
    [] a.cap = "nav_volume" -> "nav_volume" :> a.arg
    [] a.cap = "nav_muted" -> "nav_muted" :> a.arg
    [] a.cap = "life_search_shops" -> [life |-> TRUE, phase |-> "shop_list"]
    [] a.cap \in {"life_enter_shop", "life_add_to_cart"} -> [life |-> TRUE, phase |-> "in_shop"]
    [] a.cap = "life_go_to_checkout" -> [life |-> TRUE, phase |-> "checkout"]
    [] a.cap = "life_close" -> [life |-> FALSE, phase |-> "idle"]
    [] a.cap = "light_power" -> "light" :> a.arg
    [] OTHER -> [f \in {} |-> TRUE]

Holds(expected, dev) == \A f \in DOMAIN expected : dev[f] = expected[f]
\* effects.matches: a waypoint is there or not, a query was the last one asked.
Matches(a, dev) ==
  CASE a.cap = "nav_add_waypoint" -> a.arg \in dev.vias
    [] a.cap = "nav_remove_waypoint" -> a.arg \notin dev.vias
    [] a.cap \in Queries -> dev.query = a.cap
    [] OTHER -> Holds(Expected(a), dev)

-----------------------------------------------------------------------------
(* The simulator: the check before a write, and the write.                   *)
KnownPois == {"airport", "gas", "coffee", "home_address", "office"}
Precheck(a, dev) ==
  CASE a.cap = "nav_start" -> a.arg \in KnownPois
    [] a.cap \in {"nav_pause", "nav_resume"} -> dev.active
    [] a.cap = "nav_add_waypoint" -> dev.active /\ dev.dest # NoName /\ a.arg \in KnownPois
    [] a.cap = "nav_remove_waypoint" -> dev.active /\ a.arg \in dev.vias
    [] OTHER -> TRUE

\* What a query is told; the arrival time depends on the number of waypoints.
Answers(dev) ==
  [nav_query_eta |-> <<dev.active, dev.dest, Cardinality(dev.vias)>>,
   nav_query_status |-> <<dev.active, dev.dest, dev.paused, dev.preference>>,
   nav_query_waypoints |-> <<dev.vias>>]
LifeClosed == [life |-> FALSE, phase |-> "idle", shop |-> NoName, item |-> NoName]
\* A new route: no waypoints, no answer, no life session.
NewRoute(dest) ==
  [active |-> TRUE, dest |-> dest, paused |-> FALSE, vias |-> {}, query |-> NoName, answer |-> <<>>]
  @@ LifeClosed
\* _navigation_effects and _life_effects, on top of the expected effects.
Extras(a, dev) ==
  CASE a.cap = "nav_start" -> NewRoute(a.arg)
    [] a.cap = "nav_home" -> NewRoute("home_address")
    [] a.cap = "nav_company" -> NewRoute("office")
    [] a.cap = "nav_stop" -> [dest |-> NoName, vias |-> {}, query |-> NoName, answer |-> <<>>]
    [] a.cap = "nav_add_waypoint" -> [vias |-> dev.vias \cup {a.arg}, active |-> TRUE]
    [] a.cap = "nav_remove_waypoint" -> [vias |-> dev.vias \ {a.arg}, active |-> TRUE]
    [] a.cap \in Queries -> [query |-> a.cap, answer |-> Answers(dev)[a.cap]]
    [] a.cap = "life_enter_shop" -> "shop" :> a.arg
    [] a.cap = "life_add_to_cart" -> "item" :> a.arg
    [] a.cap = "life_close" -> LifeClosed
    [] OTHER -> [f \in {} |-> TRUE]
\* Some fields of the device are set and the others stay.
SetFields(dev, new) == [f \in DOMAIN dev |-> IF f \in DOMAIN new THEN new[f] ELSE dev[f]]
\* _apply; a prompt counts as played for the navigation state it was played in.
Apply(a, dev) ==
  SetFields(dev, Extras(a, dev) @@ Expected(a)
                 @@ (IF a.cap \in Navigation THEN "played" :> FALSE ELSE <<>>))
\* _emit_prompt_event
Prompted(dev) ==
  [dev EXCEPT !.played = dev.active /\ dev.prompts /\ ~dev.nav_muted /\ dev.nav_volume > 0]
==============================================================================
