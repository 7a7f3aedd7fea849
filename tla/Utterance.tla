------------------------------ MODULE Utterance ------------------------------
(* What a user says, as runtime/goal_compiler.py hears it. The compiler asks *)
(* a text for substrings and for the number or the name that follows one of  *)
(* them, so a text is here a sequence of clauses, and a clause is a phrase   *)
(* (the substrings it contains, Words), the number and the name in it.       *)
(* A search runs over the whole text: a number is found in a later clause    *)
(* than the word it is searched for, and this is kept.                       *)
EXTENDS Integers, Sequences

NoNumber == -1
NoName == "none"
\* A clause; two clauses of one text are separated by a comma or a semicolon.
Say(p) == [say |-> p, n |-> NoNumber, name |-> NoName]
SayNumber(p, n) == [say |-> p, n |-> n, name |-> NoName]
SayName(p, x) == [say |-> p, n |-> NoNumber, name |-> x]

\* The substrings of each phrase that the runtime tests for.
Words ==
  [air_set |-> {"air", "set", "degree"},       \* 空调设为 n 度
   air_on |-> {"air", "air_on"},               \* 打开空调
   air_off |-> {"air", "air_off"},             \* 关闭空调
   warmth |-> {"warmth", "degree"},            \* 温度 n
   fan |-> {"fan"},                            \* 风量 n
   window |-> {"window"},                      \* 打开车窗
   half |-> {"window", "half", "front_left"},  \* 左前车窗开到一半
   percent |-> {"window", "percent"},          \* 车窗开到 n %
   no_window |-> {"no_window", "open_window", "dont"},          \* 不要开窗
   may_window |-> {"allow", "allow_window", "open_window"},     \* 允许开窗
   media_set |-> {"media", "set"},             \* 媒体设为 n
   media_quiet |-> {"media", "quiet"},         \* 媒体声音调低
   quiet |-> {"quiet"},                        \* 声音调低
   play |-> {"play"},                          \* 播放 name
   stop_play |-> {"pause", "play"},            \* 暂停播放
   stop_music |-> {"pause", "music"},          \* 暂停音乐
   nav_to |-> {"nav", "nav_to", "place"},      \* 导航到 name
   go |-> {"go", "place"},                     \* 去 name
   home |-> {"home"},                          \* 回家
   company |-> {"go", "company", "place"},     \* 去公司
   via |-> {"via"},                            \* 途经 name
   drop_via |-> {"via", "waypoint", "drop_via"},          \* 删除途经点 name
   ask_vias |-> {"via", "waypoint", "ask_vias"},          \* 途经点有哪些
   nav_stop |-> {"nav", "nav_stop"},           \* 停止导航
   nav_pause |-> {"nav", "nav_pause", "pause"},           \* 暂停导航
   nav_resume |-> {"nav", "nav_resume"},       \* 继续导航
   eta |-> {"eta"},                            \* 还有多久
   status |-> {"status"},                      \* 当前目的地
   no_highway |-> {"no_highway"},              \* 不走高速
   prompts |-> {"nav", "prompts"},             \* 打开导航播报
   silent |-> {"nav", "silent"},               \* 导航没有声音
   keep_nav |-> {"nav", "keep", "keep_nav"},   \* 保留导航提示
   no_cabin |-> {"air", "no_cabin"},           \* 不调空调
   rest |-> {"rest"},                          \* 想休息一下
   order |-> {"life", "life_only"},            \* 点外卖
   enter_shop |-> {"enter_shop"},              \* 进店 name
   cart |-> {"cart"},                          \* 加购 name
   checkout |-> {"go", "place", "checkout"},   \* 去结算
   close_life |-> {"life", "life_only", "close_life"},    \* 关闭外卖
   light_on |-> {"light_on"},                  \* 打开灯
   light_off |-> {"light_off"},                \* 关灯
   hello |-> {"chat"},                         \* 你好
   keep_now |-> {"keep_now", "warmth", "degree"},         \* 但别改当前温度
   number |-> {},                              \* n, alone, as an answer
   allow |-> {"allow"},                        \* 允许 n
   as_is |-> {"as_is"}]                        \* 保持不变
Phrases == DOMAIN Words

\* A text: its clauses, whether a semicolon joins them, and the clauses the user
\* added when asked ("用户补充：", after a semicolon).
Text(s, semi) == [said |-> s, semi |-> semi, added |-> <<>>]
All(u) == u.said \o u.added
\* prefer_user_supplement
Focus(u) == IF u.added = <<>> THEN u.said ELSE u.added
\* text + " " + focus, which detect_intents reads
Twice(u) == All(u) \o Focus(u)
Semicolon(u) == u.semi \/ u.added # <<>>

-----------------------------------------------------------------------------
(* Searches in a sequence of clauses.                                        *)
Has(t, w) == \E i \in DOMAIN t : w \in Words[t[i].say]
HasAny(t, ws) == \E w \in ws : Has(t, w)
Least(S) == CHOOSE i \in S : \A j \in S : i <= j
At(t, ws) == {i \in DOMAIN t : Words[t[i].say] \cap ws # {}}
\* re.search of a word in ws, then of a number
NumberAfter(t, ws) ==
  LET nums == {j \in DOMAIN t : t[j].n # NoNumber /\ \E i \in At(t, ws) : i <= j}
  IN IF nums = {} THEN NoNumber ELSE t[Least(nums)].n
\* re.search of a word in ws that a name follows
NameAfter(t, ws) ==
  LET named == {i \in At(t, ws) : t[i].name # NoName}
  IN IF named = {} THEN NoName ELSE t[Least(named)].name
Names(t) == {t[i].name : i \in DOMAIN t}

\* TEMP, then TEMP_ALT (设为 and a number, in a text about the cabin)
ExtractTemp(t) ==
  LET n == NumberAfter(t, {"air", "warmth"})
      set == {i \in At(t, {"set"}) : t[i].n # NoNumber}
  IN IF n # NoNumber THEN n
     ELSE IF set # {} /\ HasAny(t, {"air", "warmth", "degree"}) THEN t[Least(set)].n
     ELSE NoNumber
\* FAN takes one digit
ExtractFan(t) ==
  LET n == NumberAfter(t, {"fan"}) IN IF n >= 10 THEN n \div 10 ELSE n
\* MEDIA_ABS: the first 设为 with a number after 媒体
ExtractMediaAbs(t) ==
  LET set == {j \in At(t, {"set"}) : t[j].n # NoNumber /\ \E i \in At(t, {"media"}) : i <= j}
  IN IF set = {} THEN NoNumber ELSE t[Least(set)].n
ExtractWindow(t) ==
  LET pct == {i \in At(t, {"percent"}) : t[i].n # NoNumber}
  IN <<IF Has(t, "front_left") THEN "front_left" ELSE "all",
       IF pct # {} THEN t[Least(pct)].n ELSE IF Has(t, "half") THEN 50 ELSE 100>>
ExtractArtist(t) == NameAfter(t, {"play"})
\* is_life_checkout_phrase, is_life_only_phrase
LifeCheckout(t) == Has(t, "checkout")
LifeOnly(t) == Has(t, "life_only")
\* Places the compiler knows by heart, wherever they are named but in a waypoint clause.
FamiliarPlaces == <<"airport", "gas", "coffee">>
ExtractDestination(t) ==
  LET cleaned == SelectSeq(t, LAMBDA c : "via" \notin Words[c.say])
      place == At(cleaned, {"place"})
      known == {k \in DOMAIN FamiliarPlaces : FamiliarPlaces[k] \in Names(cleaned)}
  IN IF LifeCheckout(t) \/ LifeOnly(t) THEN NoName
     ELSE IF place # {} THEN cleaned[Least(place)].name
     ELSE IF known # {} THEN FamiliarPlaces[Least(known)]
     ELSE NoName
\* ADD_WAYPOINT before WAYPOINT; "途经点有哪些" names a waypoint 有哪些
ExtractWaypoint(t) ==
  LET add == At(t, {"waypoint"})
  IN IF add # {} THEN t[Least(add)].name
     ELSE IF NameAfter(t, {"via"}) # NoName THEN NameAfter(t, {"via"})
     ELSE IF "gas" \in Names(t) THEN "gas"
     ELSE IF "coffee" \in Names(t) THEN "coffee" ELSE NoName
ExtractRemoveWaypoint(t) == NameAfter(t, {"drop_via"})
ExtractPreference(t) == IF Has(t, "no_highway") THEN "avoid_highway" ELSE NoName
ExtractLifeShop(t) ==
  IF NameAfter(t, {"enter_shop"}) # NoName THEN NameAfter(t, {"enter_shop"})
  ELSE IF "coffee" \in Names(t) THEN "coffee" ELSE NoName
ExtractLifeItem(t) == NameAfter(t, {"cart"})
ExtractLifeKeyword(t) == "food"

HasNoWindow(t) == Has(t, "no_window")
Starts(t, w) == t # <<>> /\ w \in Words[Head(t).say]
\* is_complex; t may be the text or its focus followed by the text
IsComplexIn(t, u) ==
  \/ Has(t, "rest")
  \/ /\ ~(u.added # <<>> \/ (Starts(t, "media") /\ Has(t, "set")) \/ Starts(t, "allow"))
     /\ \/ HasAny(t, {"keep", "dont"}) \/ u.semi
        \/ Has(t, "via") /\ HasAny(t, {"nav", "home", "go"})
IsComplex(u) == IsComplexIn(All(u), u)
LooksLikeSimpleSet(u) ==
  LET t == Focus(u) \o All(u) IN HasAny(t, {"air", "warmth", "set"}) /\ ~IsComplexIn(t, u)
==============================================================================
