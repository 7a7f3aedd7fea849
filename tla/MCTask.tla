-------------------------------- MODULE MCTask --------------------------------
(* Requests for Task: what is said, the device it is said to, the model, and  *)
(* how often the world may interfere.                                         *)
EXTENDS TaskSafety

None == [edits |-> 0, touches |-> 0, refusals |-> 0, answers |-> 0]
Allow(e, t, r, a) == [edits |-> e, touches |-> t, refusals |-> r, answers |-> a]
Ask(s, d, m, l) ==
  [text |-> Text(s, FALSE), dev |-> d @@ DefaultDevice, model |-> m, tenant |-> "mine",
   left |-> l, can |-> FALSE]
Can(s, d) == [Ask(s, d, "fake", None) EXCEPT !.can = TRUE]
AsIs == "active" :> TRUE
Headed == "dest" :> "office"
Idle == "active" :> FALSE

\* Phrases of which any three, in any order, are done, unless two of them contradict.
Phrases3 ==
  {SayNumber("air_set", 22), Say("air_on"), Say("half"), Say("media_quiet"), SayName("play", "jay"),
   SayName("nav_to", "airport"), SayName("via", "gas"), Say("status"), Say("no_highway"),
   Say("keep_nav"), Say("rest"), Say("light_on"), Say("light_off"), Say("nav_resume"),
   Say("no_window"), Say("no_cabin"), SayName("cart", "latte")}
Contradictions ==
  {{"light_on", "light_off"}, {"no_window", "half"}, {"no_cabin", "air_set"}, {"no_cabin", "air_on"},
   {"no_cabin", "rest"}}
Consistent(s) ==
  \A i, j \in DOMAIN s : i # j => s[i] # s[j] /\ {s[i].say, s[j].say} \notin Contradictions
Three == {Can(s, Headed) : s \in {t \in [1..3 -> Phrases3] : Consistent(t)}}
\* What is best said alone, or to another device.
Alone ==
  {Can(<<Say("air_off")>>, "climate_power" :> TRUE), Can(<<SayNumber("fan", 2)>>, AsIs),
   Can(<<Say("window")>>, AsIs), Can(<<SayNumber("percent", 30)>>, AsIs),
   Can(<<SayNumber("media_set", 4)>>, AsIs), Can(<<Say("stop_music")>>, "playing" :> TRUE),
   Can(<<SayName("go", "coffee")>>, AsIs), Can(<<Say("home")>>, Idle), Can(<<Say("company")>>, Idle),
   Can(<<Say("nav_stop")>>, AsIs), Can(<<Say("nav_pause")>>, AsIs), Can(<<Say("eta")>>, Headed),
   Can(<<SayName("enter_shop", "coffee")>>, AsIs), Can(<<Say("checkout")>>, AsIs),
   Can(<<Say("prompts")>>, "prompts" :> FALSE), Can(<<Say("hello")>>, AsIs)}
\* Questions, refusals, hands on the device, edits of the memory, a plan too long.
Disturbed ==
  {Ask(<<SayNumber("air_set", 22), Say("half")>>, AsIs, "fake", Allow(0, 1, 1, 0)),
   Ask(<<SayNumber("air_set", 40)>>, AsIs, "fake", Allow(0, 1, 0, 1)),
   Ask(<<Say("keep_now"), Say("window")>>, AsIs, "fake", Allow(0, 0, 0, 1)),
   Ask(<<SayName("nav_to", "nowhere"), Say("light_on")>>, AsIs, "fake", None),
   Ask(<<Say("silent")>>, "nav_muted" :> TRUE, "fake", Allow(0, 0, 1, 0)),
   Ask(<<SayName("drop_via", "gas")>>, [dest |-> "office", vias |-> {"gas"}], "fake", None),
   Ask(<<Say("rest")>>, "volume" :> 1, "fake", Allow(3, 0, 0, 0)),
   Ask(<<Say("rest"), SayNumber("warmth", 22)>>, AsIs, "fake", Allow(1, 0, 0, 0)),
   Ask(<<Say("rest"), Say("no_cabin")>>, "muted" :> TRUE, "fake", Allow(1, 0, 0, 0)),
   Ask(<<SayNumber("air_set", 22), Say("air_on"), SayNumber("fan", 1), Say("window"),
         SayName("play", "jay"), SayName("nav_to", "airport"), Say("light_on")>>, AsIs, "fake", None)}
Phrases2 ==
  {SayNumber("air_set", 22), Say("half"), SayName("play", "jay"), SayName("nav_to", "airport"),
   SayName("via", "gas"), Say("no_window"), Say("no_cabin"), Say("rest")}
Live ==
  {Ask(s, Headed, "live", None) : s \in {t \in [1..2 -> Phrases2] : Consistent(t)}}
  \cup {Ask(<<SayNumber("air_set", 22)>>, AsIs, "live", Allow(0, 1, 1, 1)),
        Ask(<<Say("no_window"), Say("light_on")>>, AsIs, "live", Allow(0, 1, 0, 0)),
        Ask(<<Say("keep_nav"), Say("no_cabin")>>, AsIs, "live", None)}

MCTenants == {"mine", "theirs"}
MCRequests == Three \cup Alone \cup Disturbed \cup Live
MCSupplements == {<<SayNumber("number", 24)>>, <<Say("as_is")>>}
MCTouches == <<"temperature" :> 28, [nav_muted |-> TRUE, played |-> FALSE]>>
MCNotes ==
  {[key |-> "cabin_temperature", value |-> 26, domain |-> "general"],
   [key |-> "media_volume", value |-> 40, domain |-> "media"]}

\* Two requests that the runtime gets wrong.
HomeRequests == {Ask(<<Say("home")>>, Headed, "fake", None)}
PlayRequests == {Ask(<<Say("air_on"), Say("play")>>, AsIs, "live", None)}
==============================================================================
