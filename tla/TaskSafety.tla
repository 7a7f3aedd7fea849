------------------------------ MODULE TaskSafety ------------------------------
(* What a user may rely on, from the text to the verdict.                     *)
EXTENDS Task

TypeOK ==
  /\ MemoryTypeOK
  /\ phase \in {"compile", "ask", "fast", "conclude", "start", "plan", "act", "done"}
  /\ verdict \in {"none", "COMPLETED", "PARTIAL", "FAILED", "STOPPED"}
  /\ phase = "done" <=> verdict # "none"
  /\ DOMAIN dev = DOMAIN DefaultDevice /\ DOMAIN hints = DOMAIN NoHints
  /\ tools \in 0..MaxTools /\ round \in 0..MaxReplans
  /\ left \in Bounds /\ version \in Nat \ {0} /\ version + left.answers = 1 + request.left.answers
  /\ task # NoTask => Bindable(task)
  /\ \A i \in DOMAIN wrote : wrote[i].version \in 1..version /\ Validate(wrote[i].action)
  /\ Len(wrote) <= 6

\* What a clause asks of the device, in the user's terms and not in the compiler's.
Honoured(c, d) ==
  CASE c.say \in {"air_set", "warmth", "number"} -> d.temperature = c.n
    [] c.say = "air_on" -> d.climate_power
    [] c.say = "air_off" -> ~d.climate_power
    [] c.say = "fan" -> d.fan = c.n
    [] c.say = "window" -> d.window_front_left = 100 /\ d.window_other = 100
    [] c.say = "half" -> d.window_front_left = 50
    [] c.say = "percent" -> d.window_front_left = c.n /\ d.window_other = c.n
    [] c.say = "media_set" -> d.volume = c.n
    [] c.say = "media_quiet" -> d.muted \/ d.volume < request.dev.volume
    [] c.say = "play" -> d.playing /\ d.artist = c.name
    [] c.say = "stop_music" -> ~d.playing
    [] c.say \in {"nav_to", "go"} -> d.active /\ d.dest = c.name
    [] c.say = "home" -> d.active /\ d.dest = "home_address"
    [] c.say = "company" -> d.active /\ d.dest = "office"
    [] c.say = "via" -> c.name \in d.vias
    [] c.say = "drop_via" -> c.name \notin d.vias
    [] c.say = "nav_stop" -> ~d.active
    [] c.say = "nav_pause" -> d.paused
    [] c.say = "nav_resume" -> d.active /\ ~d.paused
    [] c.say = "eta" -> d.query = "nav_query_eta" /\ d.answer = Answers(d)["nav_query_eta"]
    [] c.say = "no_highway" -> d.preference = "avoid_highway"
    [] c.say = "silent" -> d.played
    [] c.say = "prompts" -> d.prompts
    [] c.say = "keep_nav" -> Retained(d)
    [] c.say = "enter_shop" -> d.life /\ d.shop = c.name
    [] c.say = "cart" -> d.life /\ d.item = c.name
    [] c.say = "checkout" -> d.life /\ d.phase = "checkout"
    [] c.say = "light_on" -> d.light
    [] c.say = "light_off" -> ~d.light
    [] OTHER -> TRUE

\* What the user wants in the end: a number given as an answer replaces one said
\* before, and so does "as it is".
Wanted(u) ==
  {All(u)[i] : i \in {j \in DOMAIN All(u) :
     j <= Len(u.said) /\ u.said[j].say \in {"air_set", "warmth"}
       => \A k \in DOMAIN u.added : u.added[k].say \notin {"number", "as_is"}}}

\* A run that ends COMPLETED has done everything the user said: at the verdict the
\* device shows what each clause asks for, through the compiler, the planner, the
\* gates, the replans and whatever happened to the device meanwhile.
SaidIsDone ==
  verdict = "COMPLETED" => \A c \in Wanted(text) : Honoured(c, dev)

\* No write of a run does what its task forbids, whatever a model plans and however
\* it spells its actions; nor what the user forbade, if the compiler's own candidate
\* is taken (a live answer may leave a ban out of the task). Judged by the text as it
\* stood when the write was made.
BansKept ==
  \A i \in DOMAIN wrote :
    wrote[i].version = version =>
      ~Banned(wrote[i].action.cap, task.bans \cup (IF Fake THEN BindConstraints(text) ELSE {}))

\* Two candidates of one text differ in values the user has not said, at most.
OnlySuggested(with, without) ==
  /\ [with EXCEPT !.goals = <<>>] = [without EXCEPT !.goals = <<>>]
  /\ Len(with.goals) = Len(without.goals)
  /\ \A i \in DOMAIN with.goals :
       /\ with.goals[i].type = without.goals[i].type
       /\ without.goals[i].source = "user" => with.goals[i] = without.goals[i]

\* The long-term memory suggests values and nothing more: it changes neither which
\* goals a text has, nor what is forbidden, nor the route, nor a value that the user
\* has said.
MemoryOnlySuggests ==
  [][phase = "compile" /\ phase' # phase /\ CanRead /\ Fake =>
       OnlySuggested(FakeCompile(text, dev, hints'), FakeCompile(text, dev, NoHints))]_vars
\* What the tenant has saved under a key, and whether the newest of it still counts.
Own(key) == {i \in DOMAIN memory : memory[i].key = key /\ memory[i].tenant = request.tenant}
Alive(key) ==
  LET e == memory[Newest(Own(key))]
  IN Own(key) # {} /\ ~e.deleted /\ ~e.old /\ Relevant(e, All(text))
\* The hint for a key is what the tenant last wanted remembered under it, if the
\* request is about it: not a value it replaced, deleted or saved 180 days ago, not
\* another tenant's, and none lost to what another tenant saved or deleted.
HintsAreLive ==
  [][phase = "compile" /\ phase' # phase /\ CanRead =>
       \A key \in Keys :
         hints'[Named[key]] = IF Alive(key) THEN memory[Newest(Own(key))].value ELSE NoNumber]_vars

\* A request the device can do is done: with nothing in the way, no question, no
\* budget and no gate keeps a run from COMPLETED.
Undisturbed ==
  Fake /\ request.left = [edits |-> 0, touches |-> 0, refusals |-> 0, answers |-> 0]
AchievableCompletes == Undisturbed /\ request.can ~> verdict = "COMPLETED"
==============================================================================
