---------------------------- MODULE StreamProofs ----------------------------
(* The browser sees the events of a run without a gap, for any number of      *)
(* events, of changes of the device and of broken connections. An event of    *)
(* the run is shown, could not be stored, still has to be replayed, waits in  *)
(* the queue, or is being written; and in the replay and in the queue no      *)
(* event comes before an earlier one that is not yet shown.                   *)
EXTENDS Stream, SequenceTheorems, TLAPS

Item == [kind : {"event"}, of : Nat] \cup [kind : {"run"}, of : Lives]
        \cup [kind : {"device"}, of : Nat]
StreamType ==
  /\ log \in Nat /\ rev \in Nat /\ life \in Lives /\ events \subseteq Nat
  /\ rest \in Seq(Nat) /\ queue \in Seq(Item)
  /\ conn \in {"off", "replay", "device", "check", "live"}
\* A stream that is closed holds nothing, one that has replayed has nothing to replay.
Cleared == (conn # "replay" => rest = <<>>) /\ (conn = "off" => queue = <<>>)

Told == events \cup unstored
Coming(m, k) == \E j \in 1..k : rest[j] = m
Queued(m, k) == \E j \in 1..k : queue[j] = Event(m)
RestInOrder ==
  \A i \in 1..Len(rest) : \A m \in 1..(rest[i] - 1) : m \in Told \/ Coming(m, i - 1)
QueueInOrder ==
  \A i \in 1..Len(queue), n \in Nat : queue[i] = Event(n) =>
    \A m \in 1..(n - 1) : m \in Told \/ Coming(m, Len(rest)) \/ Queued(m, i - 1)
AllSent ==
  conn # "off" => \A m \in 1..log :
    (writing /\ m = log) \/ m \in Told \/ Coming(m, Len(rest)) \/ Queued(m, Len(queue))
StreamInv == StreamType /\ Cleared /\ NoGap /\ RestInOrder /\ QueueInOrder /\ AllSent
-----------------------------------------------------------------------------
LEMMA ItemsDiffer ==
  /\ \A m, n : Event(m) = Event(n) => m = n
  /\ \A m, l : Event(m) # Run(l) /\ Event(m) # Device(l)
<1>1. \A m, n : Event(m) = Event(n) => m = n
  <2> SUFFICES ASSUME NEW m, NEW n, Event(m) = Event(n) PROVE m = n
    OBVIOUS
  <2>1. Event(m).of = Event(n).of
    OBVIOUS
  <2> QED  BY <2>1 DEF Event
<1>2. \A m, l : Event(m) # Run(l) /\ Event(m) # Device(l)
  BY DEF Event, Run, Device
<1> QED  BY <1>1, <1>2

\* An item without an event at the end of the queue, or no item at all.
LEMMA Silent ==
  ASSUME StreamType, NEW r, r \in Nat
  PROVE  /\ queue \o <<Device(r)>> \in Seq(Item)
         /\ Len(queue \o <<Device(r)>>) = Len(queue) + 1 /\ Len(queue) \in Nat
         /\ \A i \in 1..Len(queue) : (queue \o <<Device(r)>>)[i] = queue[i]
         /\ (queue \o <<Device(r)>>)[Len(queue) + 1] = Device(r)
<1>1. <<Device(r)>> \in Seq(Item) /\ Len(<<Device(r)>>) = 1
  BY DEF Item, Device
<1> QED  BY <1>1, ConcatProperties, LenProperties DEF StreamType

LEMMA Spoken ==
  ASSUME StreamType
  PROVE  /\ queue \o EventItems \in Seq(Item)
         /\ Len(queue \o EventItems) = Len(queue) + 3 /\ Len(queue) \in Nat
         /\ \A i \in 1..Len(queue) : (queue \o EventItems)[i] = queue[i]
         /\ (queue \o EventItems)[Len(queue) + 1] = Event(log)
         /\ (queue \o EventItems)[Len(queue) + 2] = Run(life)
         /\ (queue \o EventItems)[Len(queue) + 3] = Device(rev)
<1>1. EventItems \in Seq(Item) /\ Len(EventItems) = 3
      /\ EventItems[1] = Event(log) /\ EventItems[2] = Run(life) /\ EventItems[3] = Device(rev)
  BY DEF EventItems, Item, Device, Run, Event, StreamType
<1>2. queue \in Seq(Item) /\ Len(queue) \in Nat
  BY LenProperties DEF StreamType
<1>3. /\ queue \o EventItems \in Seq(Item)
      /\ Len(queue \o EventItems) = Len(queue) + Len(EventItems)
      /\ \A i \in 1..(Len(queue) + Len(EventItems)) :
           (queue \o EventItems)[i] = IF i <= Len(queue) THEN queue[i] ELSE EventItems[i - Len(queue)]
  BY <1>1, <1>2, ConcatProperties
<1>4. \A k \in 1..3 : /\ Len(queue) + k \in 1..(Len(queue) + 3) /\ ~(Len(queue) + k <= Len(queue))
                      /\ (Len(queue) + k) - Len(queue) = k
  BY <1>2
<1>5. \A k \in 1..3 : (queue \o EventItems)[Len(queue) + k] = EventItems[k]
  BY <1>1, <1>3, <1>4
<1>6. \A i \in 1..Len(queue) : (queue \o EventItems)[i] = queue[i]
  BY <1>1, <1>2, <1>3
<1> QED  BY <1>1, <1>2, <1>3, <1>5, <1>6

\* A step that leaves the events and the run stream alone.
LEMMA Elsewhere ==
  ASSUME StreamInv, UNCHANGED <<log, writing, unstored, connVars, events>>,
         rev' \in Nat, life' \in Lives
  PROVE  StreamInv'
  BY DEF StreamInv, StreamType, Cleared, NoGap, RestInOrder, QueueInOrder, AllSent, Told, Coming,
         Queued, Event, connVars

\* The stream ends.
LEMMA Ends ==
  ASSUME StreamInv, Close, UNCHANGED <<log, writing, unstored, events, rev, life>>
  PROVE  StreamInv'
<1>1. StreamType' /\ Cleared'
  BY EmptySeq DEF StreamInv, StreamType, Cleared, Close
<1>2. NoGap'
  BY DEF StreamInv, NoGap
<1>3. RestInOrder' /\ QueueInOrder' /\ AllSent'
  BY EmptySeq DEF Close, RestInOrder, QueueInOrder, AllSent
<1> QED  BY <1>1, <1>2, <1>3 DEF StreamInv

\* The first of the replay, and of the queue.
LEMMA FirstOfRest ==
  ASSUME StreamType, rest # <<>>
  PROVE  /\ Tail(rest) \in Seq(Nat) /\ Len(rest) \in Nat \ {0} /\ Len(Tail(rest)) = Len(rest) - 1
         /\ \A i \in 1..Len(Tail(rest)) : Tail(rest)[i] = rest[i + 1]
         /\ Head(rest) = rest[1] /\ rest[1] \in Nat
  BY HeadTailProperties, EmptySeq DEF StreamType
LEMMA FirstOfQueue ==
  ASSUME StreamType, queue # <<>>
  PROVE  /\ Tail(queue) \in Seq(Item) /\ Len(queue) \in Nat \ {0} /\ Len(Tail(queue)) = Len(queue) - 1
         /\ \A i \in 1..Len(Tail(queue)) : Tail(queue)[i] = queue[i + 1]
         /\ Head(queue) = queue[1] /\ queue[1] \in Item
  BY HeadTailProperties, EmptySeq DEF StreamType
-----------------------------------------------------------------------------
\* An event is appended to run.events.
LEMMA BeginStep ==
  ASSUME StreamInv, Begin, UNCHANGED <<unstored, rev, life, conn, rest, queue, events>>
  PROVE  StreamInv'
<1>1. AllSent'
  BY DEF StreamInv, StreamType, AllSent, Begin, Told, Coming, Queued, Event
<1> QED  BY <1>1 DEF StreamInv, StreamType, Cleared, NoGap, RestInOrder, QueueInOrder, Told, Coming,
                     Queued, Event, Begin

\* Its line is written, and the queue of an open stream gets it.
LEMMA WrittenStep ==
  ASSUME StreamInv, Written
  PROVE  StreamInv'
<1>1. CASE conn = "off"
  <2>1. UNCHANGED <<log, unstored, rev, life, connVars, events>> /\ ~writing'
    BY <1>1 DEF Written, Put, Registered, connVars, devVars, browserVars
  <2> QED  BY <1>1, <2>1 DEF StreamInv, StreamType, Cleared, NoGap, RestInOrder, QueueInOrder,
                             AllSent, Told, Coming, Queued, Event, connVars
<1>2. CASE conn # "off"
  <2>1. UNCHANGED <<log, unstored, rev, life, conn, rest, events>>
    BY DEF Written, devVars, browserVars
  <2>2. queue' = queue \o EventItems
    BY <1>2 DEF Written, Put, Registered
  <2>3. Len(queue) \in Nat /\ Len(queue') = Len(queue) + 3
    BY <2>2, Spoken DEF StreamInv
  <2>4. StreamType' /\ Cleared' /\ NoGap' /\ RestInOrder'
    BY <1>2, <2>1, <2>2, Spoken
       DEF StreamInv, StreamType, Cleared, NoGap, RestInOrder, Told, Coming
  <2>5. \A i \in 1..Len(queue) : \A m : queue[i] = Event(m) => queue'[i] = Event(m)
    BY <2>2, Spoken DEF StreamInv
  <2>6. QueueInOrder'
    <3> SUFFICES ASSUME NEW i \in 1..Len(queue'), NEW n \in Nat, queue'[i] = Event(n),
                        NEW m \in 1..(n - 1)
                 PROVE  m \in Told \/ Coming(m, Len(rest)) \/ (\E j \in 1..(i - 1) : queue'[j] = Event(m))
      BY <2>1 DEF QueueInOrder, Told, Coming, Queued, Event
    <3>1. CASE i \in 1..Len(queue)
      <4>1. queue[i] = Event(n)
        BY <2>2, <3>1, Spoken DEF StreamInv
      <4>2. m \in Told \/ Coming(m, Len(rest)) \/ Queued(m, i - 1)
        BY <3>1, <4>1 DEF StreamInv, QueueInOrder
      <4>3. i - 1 \in Nat /\ i - 1 < Len(queue) /\ Len(queue) \in Nat
        BY <3>1, Spoken DEF StreamInv
      <4> QED  BY <2>5, <4>2, <4>3 DEF Queued
    <3>2. CASE i = Len(queue) + 1
      <4>1. n = log
        BY <2>2, <3>2, Spoken, ItemsDiffer DEF StreamInv
      <4>2. m \in Told \/ Coming(m, Len(rest)) \/ Queued(m, Len(queue))
        BY <1>2, <4>1 DEF StreamInv, StreamType, AllSent
      <4> QED  BY <2>5, <3>2, <4>2, Spoken DEF Queued, StreamInv
    <3>3. CASE i = Len(queue) + 2 \/ i = Len(queue) + 3
      BY <2>2, <3>3, Spoken, ItemsDiffer DEF StreamInv
    <3> QED  BY <2>3, <3>1, <3>2, <3>3
  <2>7. AllSent'
    <3> SUFFICES ASSUME NEW m \in 1..log
                 PROVE  m \in Told \/ Coming(m, Len(rest)) \/ (\E j \in 1..Len(queue') : queue'[j] = Event(m))
      BY <2>1 DEF AllSent, Told, Coming, Queued, Event
    <3>1. CASE m = log
      <4>1. Len(queue) + 1 \in 1..Len(queue') /\ queue'[Len(queue) + 1] = Event(m)
        BY <2>2, <3>1, Spoken DEF StreamInv
      <4> QED  BY <4>1
    <3>2. CASE m # log
      <4>1. m \in Told \/ Coming(m, Len(rest)) \/ Queued(m, Len(queue))
        BY <1>2, <3>2 DEF StreamInv, AllSent
      <4>2. Len(queue) <= Len(queue') /\ Len(queue) \in Nat /\ Len(queue') \in Nat
        BY <2>2, Spoken DEF StreamInv
      <4> QED  BY <2>5, <4>1, <4>2 DEF Queued
    <3> QED  BY <3>1, <3>2
  <2> QED  BY <2>4, <2>6, <2>7 DEF StreamInv
<1> QED  BY <1>1, <1>2

\* Its line could not be written.
LEMMA WriteFailsStep ==
  ASSUME StreamInv, WriteFails
  PROVE  StreamInv'
<1>1. /\ UNCHANGED <<log, rev, life, conn, rest, queue, events>> /\ ~writing'
      /\ unstored' = unstored \cup {log}
  BY DEF WriteFails, connVars, devVars, browserVars
<1> QED  BY <1>1 DEF StreamInv, StreamType, Cleared, NoGap, RestInOrder, QueueInOrder, AllSent,
                     Told, Coming, Queued, Event

\* The device has changed: no event.
LEMMA CommitStep ==
  ASSUME StreamInv, Commit
  PROVE  StreamInv'
<1>1. UNCHANGED <<log, writing, unstored, rev, life, conn, rest, events>>
  BY DEF Commit, runVars, browserVars
<1>2. CASE conn = "off"
  BY <1>1, <1>2, Elsewhere DEF Commit, Put, Registered, connVars, StreamInv, StreamType
<1>3. CASE conn # "off"
  <2>1. queue' = queue \o <<Device(rev)>>
    BY <1>3 DEF Commit, Put, Registered, DeviceItems
  <2>2. StreamType' /\ Cleared' /\ NoGap' /\ RestInOrder'
    <3>1. queue' \in Seq(Item)
      BY <2>1, Silent DEF StreamInv, StreamType
    <3> QED  BY <1>1, <1>3, <3>1 DEF StreamInv, StreamType, Cleared, NoGap, RestInOrder, Told, Coming
  <2>3. \A i \in 1..Len(queue) : \A m : queue[i] = Event(m) => queue'[i] = Event(m)
    BY <2>1, Silent DEF StreamInv, StreamType
  <2>4. \A i \in 1..Len(queue') : \A m : queue'[i] = Event(m) => i \in 1..Len(queue) /\ queue[i] = Event(m)
    BY <2>1, Silent, ItemsDiffer DEF StreamInv, StreamType
  <2>5. Len(queue) \in Nat /\ Len(queue') = Len(queue) + 1
    BY <2>1, Silent DEF StreamInv, StreamType
  <2>6. QueueInOrder'
    <3> SUFFICES ASSUME NEW i \in 1..Len(queue'), NEW n \in Nat, queue'[i] = Event(n),
                        NEW m \in 1..(n - 1)
                 PROVE  m \in Told \/ Coming(m, Len(rest)) \/ (\E j \in 1..(i - 1) : queue'[j] = Event(m))
      BY <1>1 DEF QueueInOrder, Told, Coming, Queued, Event
    <3>1. i \in 1..Len(queue) /\ queue[i] = Event(n)
      BY <2>4
    <3>2. m \in Told \/ Coming(m, Len(rest)) \/ Queued(m, i - 1)
      BY <3>1 DEF StreamInv, QueueInOrder
    <3> QED  BY <2>3, <2>5, <3>1, <3>2 DEF Queued
  <2>7. AllSent'
    <3> SUFFICES ASSUME NEW m \in 1..log
                 PROVE  \/ writing /\ m = log
                        \/ m \in Told \/ Coming(m, Len(rest))
                        \/ (\E j \in 1..Len(queue') : queue'[j] = Event(m))
      BY <1>1 DEF AllSent, Told, Coming, Queued, Event
    <3>1. (writing /\ m = log) \/ m \in Told \/ Coming(m, Len(rest)) \/ Queued(m, Len(queue))
      BY <1>3 DEF StreamInv, AllSent
    <3> QED  BY <2>3, <2>5, <3>1 DEF Queued
  <2> QED  BY <2>2, <2>6, <2>7 DEF StreamInv
<1> QED  BY <1>2, <1>3
-----------------------------------------------------------------------------
\* A connection: every event of the run is to be replayed, in order.
LEMMA ConnectStep ==
  ASSUME StreamInv, Connect
  PROVE  StreamInv'
<1>1. /\ conn' = "replay" /\ rest' = [i \in 1..log |-> i] /\ queue = <<>> /\ queue' = <<>>
      /\ UNCHANGED <<log, writing, unstored, rev, life, events>>
  BY DEF Connect, StreamInv, Cleared, runVars, devVars, browserVars
<1>2. rest' \in Seq(Nat) /\ Len(rest') = log /\ \A i \in 1..log : rest'[i] = i
  BY <1>1 DEF StreamInv, StreamType
<1>3. StreamType' /\ Cleared' /\ NoGap'
  BY <1>1, <1>2, EmptySeq DEF StreamInv, StreamType, Cleared, NoGap
<1>4. RestInOrder'
  BY <1>1, <1>2 DEF RestInOrder, Coming, StreamInv, StreamType
<1>5. QueueInOrder'
  BY <1>1, EmptySeq DEF QueueInOrder
<1>6. AllSent'
  BY <1>1, <1>2 DEF AllSent, Coming
<1> QED  BY <1>3, <1>4, <1>5, <1>6 DEF StreamInv

\* One event of the replay is shown.
LEMMA ReplayStep ==
  ASSUME StreamInv, Replay
  PROVE  StreamInv'
<1>1. /\ conn = "replay" /\ rest # <<>> /\ events' = events \cup {rest[1]} /\ rest' = Tail(rest)
      /\ UNCHANGED <<log, writing, unstored, rev, life, conn, queue>>
  BY FirstOfRest DEF Replay, StreamInv, runVars, devVars
<1>2. /\ rest' \in Seq(Nat) /\ Len(rest) \in Nat \ {0} /\ Len(rest') = Len(rest) - 1
      /\ \A i \in 1..Len(rest') : rest'[i] = rest[i + 1]
      /\ rest[1] \in Nat
  BY <1>1, FirstOfRest DEF StreamInv
<1>3. Told' = Told \cup {rest[1]}
  BY <1>1 DEF Told
<1>4. \A m : \A k \in 1..Len(rest) : Coming(m, k) => m \in Told' \/ Coming(m, k - 1)'
  <2> SUFFICES ASSUME NEW m, NEW k \in 1..Len(rest), NEW j \in 1..k, rest[j] = m, m \notin Told'
               PROVE  \E h \in 1..(k - 1) : rest'[h] = m
    BY DEF Coming
  <2>1. j # 1
    BY <1>3
  <2>2. j - 1 \in 1..(k - 1) /\ j - 1 \in 1..Len(rest') /\ rest'[j - 1] = rest[j]
    BY <1>2, <2>1
  <2> QED  BY <2>2
<1>5. StreamType' /\ Cleared'
  BY <1>1, <1>2 DEF StreamInv, StreamType, Cleared
<1>6. NoGap'
  <2>1. \A m \in 1..(rest[1] - 1) : m \in Told
    <3>1. 1 \in 1..Len(rest)
      BY <1>2
    <3>2. \A m : ~Coming(m, 1 - 1)
      BY DEF Coming
    <3> QED  BY <3>1, <3>2 DEF StreamInv, RestInOrder
  <2> QED  BY <1>1, <1>2, <2>1 DEF StreamInv, NoGap, Told
<1>7. RestInOrder'
  <2> SUFFICES ASSUME NEW i \in 1..Len(rest'), NEW m \in 1..(rest'[i] - 1)
               PROVE  m \in Told' \/ Coming(m, i - 1)'
    BY DEF RestInOrder
  <2>1. i + 1 \in 1..Len(rest) /\ rest'[i] = rest[i + 1] /\ i \in 1..Len(rest) /\ (i + 1) - 1 = i
    BY <1>2
  <2>2. m \in Told \/ Coming(m, i)
    BY <2>1 DEF StreamInv, RestInOrder
  <2> QED  BY <1>3, <1>4, <2>1, <2>2
<1>8. \A m : Coming(m, Len(rest)) => m \in Told' \/ Coming(m, Len(rest))'
  <2>1. PICK k \in 1..Len(rest) : k = Len(rest)
    BY <1>2
  <2>2. \A m : Coming(m, k) => m \in Told' \/ Coming(m, k - 1)'
    BY <1>4
  <2>3. Len(rest') = k - 1
    BY <1>2, <2>1
  <2> QED  BY <2>1, <2>2, <2>3 DEF Coming
<1>9. QueueInOrder'
  BY <1>1, <1>3, <1>8 DEF StreamInv, QueueInOrder, Queued, Event
<1>10. AllSent'
  BY <1>1, <1>3, <1>8 DEF StreamInv, AllSent, Queued, Event
<1> QED  BY <1>5, <1>6, <1>7, <1>9, <1>10 DEF StreamInv

\* The first item of the queue is taken, and what it carries is shown.
LEMMA TakeStep ==
  ASSUME StreamInv, conn = "live", queue # <<>>, queue' = Tail(queue),
         \/ Head(queue).kind = "event" /\ events' = events \cup {Head(queue).of}
         \/ Head(queue).kind # "event" /\ events' = events,
         UNCHANGED <<log, writing, unstored, rev, life, conn, rest>>
  PROVE  StreamInv'
<1>1. /\ queue' \in Seq(Item) /\ Len(queue) \in Nat \ {0} /\ Len(queue') = Len(queue) - 1
      /\ \A i \in 1..Len(queue') : queue'[i] = queue[i + 1]
      /\ Head(queue) = queue[1] /\ queue[1] \in Item
  BY FirstOfQueue DEF StreamInv
<1>2. rest = <<>> /\ \A m : ~Coming(m, Len(rest)) /\ ~Coming(m, Len(rest))'
  BY EmptySeq DEF StreamInv, Cleared, Coming
<1>3. /\ events \subseteq events' /\ events' \subseteq Nat /\ Told \subseteq Told'
      /\ \A m : queue[1] = Event(m) => m \in events'
  <2>1. \A m : queue[1] = Event(m) => queue[1].kind = "event" /\ queue[1].of = m
    BY DEF Event
  <2>2. queue[1].kind = "event" => queue[1].of \in Nat
    BY <1>1 DEF Item
  <2> QED  BY <1>1, <2>1, <2>2 DEF StreamInv, StreamType, Told
<1>4. \A m : \A k \in 1..Len(queue) : Queued(m, k) => m \in Told' \/ Queued(m, k - 1)'
  <2> SUFFICES ASSUME NEW m, NEW k \in 1..Len(queue), NEW j \in 1..k, queue[j] = Event(m),
                      m \notin Told'
               PROVE  \E h \in 1..(k - 1) : queue'[h] = Event(m)
    BY DEF Queued, Event
  <2>1. j # 1
    BY <1>3 DEF Told
  <2>2. j - 1 \in 1..(k - 1) /\ j - 1 \in 1..Len(queue') /\ queue'[j - 1] = queue[j]
    BY <1>1, <2>1
  <2> QED  BY <2>2
<1>5. StreamType' /\ Cleared' /\ RestInOrder'
  BY <1>1, <1>2, <1>3, EmptySeq DEF StreamInv, StreamType, Cleared, RestInOrder
<1>6. NoGap'
  <2>1. CASE events' = events
    BY <2>1 DEF StreamInv, NoGap
  <2>2. CASE queue[1].kind = "event" /\ events' = events \cup {queue[1].of}
    <3>1. queue[1] = Event(queue[1].of) /\ queue[1].of \in Nat
      BY <1>1, <2>2 DEF Item, Event
    <3>2. 1 \in 1..Len(queue) /\ \A m : ~Queued(m, 1 - 1)
      BY <1>1 DEF Queued
    <3>3. \A m \in 1..(queue[1].of - 1) : m \in Told
      BY <1>2, <3>1, <3>2 DEF StreamInv, QueueInOrder
    <3> QED  BY <2>2, <3>1, <3>3 DEF StreamInv, NoGap, Told
  <2> QED  BY <1>1, <2>1, <2>2
<1>7. QueueInOrder'
  <2> SUFFICES ASSUME NEW i \in 1..Len(queue'), NEW n \in Nat, queue'[i] = Event(n),
                      NEW m \in 1..(n - 1)
               PROVE  m \in Told' \/ Queued(m, i - 1)'
    BY DEF QueueInOrder, Event
  <2>1. i + 1 \in 1..Len(queue) /\ queue[i + 1] = Event(n) /\ i \in 1..Len(queue) /\ (i + 1) - 1 = i
    BY <1>1
  <2>2. m \in Told \/ Queued(m, i)
    BY <1>2, <2>1 DEF StreamInv, QueueInOrder
  <2> QED  BY <1>3, <1>4, <2>1, <2>2
<1>8. AllSent'
  <2> SUFFICES ASSUME NEW m \in 1..log, ~(writing /\ m = log)
               PROVE  m \in Told' \/ Queued(m, Len(queue))'
    BY DEF AllSent
  <2>1. m \in Told \/ Queued(m, Len(queue))
    BY <1>2 DEF StreamInv, AllSent
  <2>2. PICK k \in 1..Len(queue) : k = Len(queue)
    <3>1. Len(queue) \in 1..Len(queue)
      BY <1>1
    <3> QED  BY <3>1
  <2>3. m \in Told' \/ Queued(m, k - 1)'
    BY <1>3, <1>4, <2>1, <2>2
  <2>4. Len(queue') = k - 1
    BY <1>1, <2>2
  <2> QED  BY <2>3, <2>4 DEF Queued
<1> QED  BY <1>5, <1>6, <1>7, <1>8 DEF StreamInv

\* The view of the run, the device, and the last look at the lifecycle.
LEMMA ViewStep ==
  ASSUME StreamInv, ViewRun \/ ViewDevice \/ Check
  PROVE  StreamInv'
<1>1. UNCHANGED <<log, writing, unstored, rev, life, events>>
  BY DEF ViewRun, ViewDevice, Check, runVars, devVars, browserVars
<1>2. Close \/ (rest = <<>> /\ conn # "off" /\ conn' \in {"device", "check", "live"}
                /\ UNCHANGED <<rest, queue>>)
  BY DEF ViewRun, ViewDevice, Check, ShowRun, StreamInv, Cleared
<1>3. CASE Close  BY <1>1, <1>3, Ends
<1>4. CASE rest = <<>> /\ conn # "off" /\ conn' \in {"device", "check", "live"} /\ UNCHANGED <<rest, queue>>
  BY <1>1, <1>4 DEF StreamInv, StreamType, Cleared, NoGap, RestInOrder, QueueInOrder, AllSent, Told,
                    Coming, Queued, Event
<1> QED  BY <1>2, <1>3, <1>4

LEMMA ServeStep ==
  ASSUME StreamInv, Serve
  PROVE  StreamInv'
<1>1. conn = "live" /\ queue # <<>> /\ UNCHANGED <<log, writing, unstored, rev, life>>
  BY DEF Serve, runVars, devVars
<1>2. \/ Close /\ events' = events
      \/ /\ queue' = Tail(queue) /\ UNCHANGED <<conn, rest>>
         /\ \/ Head(queue).kind = "event" /\ events' = events \cup {Head(queue).of}
            \/ Head(queue).kind # "event" /\ events' = events
  <2>1. Head(queue).kind \in {"event", "run", "device"}
    BY <1>1, FirstOfQueue DEF Item, StreamInv
  <2> QED  BY <2>1 DEF Serve, ShowRun
<1> QED  BY <1>1, <1>2, Ends, TakeStep

LEMMA StreamInvStep ==
  ASSUME StreamInv, [Next]_vars
  PROVE  StreamInv'
<1> USE DEF runVars, devVars, connVars, panelVars, browserVars
<1>1. CASE UNCHANGED vars
  BY <1>1, Elsewhere DEF vars, StreamInv, StreamType
<1>2. CASE AppendOwed \/ AppendOther
  BY <1>2, BeginStep DEF AppendOwed, AppendOther
<1>3. CASE ChangeLife
  BY <1>3, Elsewhere DEF ChangeLife, StreamInv, StreamType, Lives
<1>4. CASE ChangeDevice
  BY <1>4, Elsewhere DEF ChangeDevice, StreamInv, StreamType
<1>5. CASE OpenPanel \/ FirstState \/ NextState \/ Watch
  BY <1>5, Elsewhere DEF OpenPanel, FirstState, NextState, Watch, StreamInv, StreamType
<1>6. CASE Drop
  BY <1>6, Elsewhere, Ends DEF Drop, StreamInv, StreamType
<1> QED  BY <1>1, <1>2, <1>3, <1>4, <1>5, <1>6, WrittenStep, WriteFailsStep, CommitStep, ConnectStep,
            ReplayStep, ViewStep, ServeStep DEF Next, Runtime, RunStream, DeviceStream

LEMMA StreamInvInit == Init => StreamInv
BY EmptySeq DEF Init, StreamInv, StreamType, Cleared, NoGap, RestInOrder, QueueInOrder, AllSent, Lives

\* The browser shows the events of the run without a gap: _run_stream registers its
\* queue before it reads the stored events, and append_event tells the listeners in
\* the order of the journal.
THEOREM NoGapHolds == Spec => []NoGap
<1>1. Init => StreamInv
  BY StreamInvInit
<1>2. StreamInv /\ [Next]_vars => StreamInv'
  BY StreamInvStep
<1> QED  BY <1>1, <1>2, PTL DEF Spec, StreamInv
-----------------------------------------------------------------------------
\* Nothing is on its way to the browser that has not happened.
RestReal == \A i \in 1..Len(rest) : rest[i] \in 1..log
QueueReal ==
  \A i \in 1..Len(queue) :
    /\ queue[i].kind = "event" => queue[i].of \in 1..log
    /\ queue[i].kind = "device" => queue[i].of \in 1..rev
PanelReal == pqueue \in Seq(Nat) /\ \A i \in 1..Len(pqueue) : pqueue[i] \in 1..rev
OnItsWay == RestReal /\ QueueReal /\ PanelReal
RunReal ==
  /\ log \in Nat /\ owed \in Nat /\ log + owed <= MaxEvents
  /\ unstored \subseteq 1..log /\ events \subseteq 1..log /\ (writing => log > 0)
DeviceReal == rev \in 1..MaxChanges /\ seen \in 0..rev /\ drops \in 0..MaxDrops
BrowserReal ==
  /\ writing \in BOOLEAN /\ commits \in BOOLEAN /\ watching \in BOOLEAN
  /\ shown \in Lives \cup {"none"} /\ panel \in {"off", "first", "live"}
  /\ conn # "off" => watching
RealInv == OnItsWay /\ RunReal /\ DeviceReal /\ BrowserReal

\* What is served is real.
LEMMA ServedReal ==
  ASSUME StreamType, QueueReal, queue # <<>>
  PROVE  LET item == Head(queue) IN
         /\ item.kind = "event" => item.of \in 1..log
         /\ item.kind = "device" => item.of \in 1..rev
         /\ item.kind = "run" => item.of \in Lives
         /\ item.kind \in {"event", "run", "device"}
BY FirstOfQueue DEF QueueReal, Item
LEMMA FirstOfPanel ==
  ASSUME PanelReal, pqueue # <<>>
  PROVE  /\ Tail(pqueue) \in Seq(Nat) /\ Len(Tail(pqueue)) = Len(pqueue) - 1 /\ Len(pqueue) \in Nat \ {0}
         /\ \A i \in 1..Len(Tail(pqueue)) : Tail(pqueue)[i] = pqueue[i + 1]
         /\ Head(pqueue) = pqueue[1] /\ Head(pqueue) \in 1..rev
BY HeadTailProperties, EmptySeq DEF PanelReal

\* Where log and rev grow, what is on its way stays real.
LEMMA Later ==
  ASSUME StreamType, OnItsWay, RunReal, DeviceReal, log' \in {log, log + 1}, rev' \in {rev, rev + 1},
         UNCHANGED <<rest, queue, pqueue>>
  PROVE  OnItsWay'
<1>1. RestReal'
  BY DEF OnItsWay, RestReal, RunReal
<1>2. QueueReal'
  BY DEF OnItsWay, QueueReal, RunReal, DeviceReal
<1>3. PanelReal'
  BY DEF OnItsWay, PanelReal, DeviceReal
<1> QED
  BY <1>1, <1>2, <1>3 DEF OnItsWay

LEMMA WayStep ==
  ASSUME StreamType, RealInv, [Next]_vars
  PROVE  OnItsWay'
<1> USE DEF RealInv
<1> USE DEF runVars, devVars, connVars, panelVars, browserVars
<1>1. CASE AppendOwed \/ AppendOther \/ WriteFails \/ ChangeLife \/ ChangeDevice \/ ViewDevice
           \/ OpenPanel \/ FirstState \/ Watch \/ UNCHANGED vars
  BY <1>1, Later
  DEF AppendOwed, AppendOther, Begin, WriteFails, ChangeLife, ChangeDevice, ViewDevice, OpenPanel,
      FirstState, Watch, vars
<1>2. CASE Written
  <2>1. UNCHANGED <<log, rev, rest, pqueue>>
    BY <1>2 DEF Written
  <2>2. CASE conn = "off"
    BY <1>2, <2>1, <2>2, Later DEF Written, Put, Registered
  <2>3. CASE conn # "off"
    <3>1. queue' = queue \o EventItems
      BY <1>2, <2>3 DEF Written, Put, Registered
    <3>2. /\ Len(queue') = Len(queue) + 3 /\ Len(queue) \in Nat
          /\ \A i \in 1..Len(queue) : queue'[i] = queue[i]
          /\ queue'[Len(queue) + 1] = Event(log) /\ queue'[Len(queue) + 2] = Run(life)
          /\ queue'[Len(queue) + 3] = Device(rev)
      BY <3>1, Spoken
    <3>3. log \in 1..log /\ rev \in 1..rev
      BY <1>2 DEF Written, RunReal, DeviceReal
    <3>4. ASSUME NEW i \in 1..Len(queue')
          PROVE  /\ queue'[i].kind = "event" => queue'[i].of \in 1..log
                 /\ queue'[i].kind = "device" => queue'[i].of \in 1..rev
      <4>1. CASE i \in 1..Len(queue)
        BY <3>2, <4>1 DEF QueueReal, OnItsWay
      <4>2. CASE i = Len(queue) + 1
        BY <3>2, <3>3, <4>2 DEF Event
      <4>3. CASE i = Len(queue) + 2
        BY <3>2, <4>3 DEF Run
      <4>4. CASE i = Len(queue) + 3
        BY <3>2, <3>3, <4>4 DEF Device
      <4> QED  BY <3>2, <4>1, <4>2, <4>3, <4>4
    <3>5. QueueReal'
      BY <2>1, <3>4 DEF QueueReal
    <3> QED  BY <2>1, <3>5 DEF OnItsWay, RestReal, PanelReal
  <2> QED  BY <2>2, <2>3
<1>3. CASE Commit
  <2>1. UNCHANGED <<log, rev, rest>>
    BY <1>3 DEF Commit
  <2>2. QueueReal'
    <3>1. CASE queue' = queue
      BY <2>1, <3>1 DEF OnItsWay, QueueReal
    <3>2. CASE queue' = queue \o <<Device(rev)>>
      <4>1. /\ Len(queue') = Len(queue) + 1 /\ Len(queue) \in Nat
            /\ \A i \in 1..Len(queue) : queue'[i] = queue[i]
            /\ queue'[Len(queue) + 1] = Device(rev)
        BY <3>2, Silent DEF StreamType
      <4> QED  BY <2>1, <4>1 DEF QueueReal, OnItsWay, Device, DeviceReal
    <3> QED  BY <1>3, <3>1, <3>2 DEF Commit, Put, DeviceItems
  <2>3. PanelReal'
    <3>1. CASE pqueue' = pqueue
      BY <2>1, <3>1 DEF OnItsWay, PanelReal
    <3>2. CASE pqueue' = Append(pqueue, rev)
      BY <2>1, <3>2, AppendProperties, LenProperties DEF OnItsWay, PanelReal, DeviceReal
    <3> QED  BY <1>3, <3>1, <3>2 DEF Commit
  <2> QED  BY <2>1, <2>2, <2>3 DEF OnItsWay, RestReal
<1>4. CASE Connect
  <2>1. Len(rest') = log /\ (\A i \in 1..Len(rest') : rest'[i] = i) /\ UNCHANGED <<log, rev, queue, pqueue>>
    BY <1>4 DEF Connect, StreamType
  <2> QED  BY <2>1 DEF OnItsWay, RestReal, QueueReal, PanelReal
<1>5. CASE Replay
  <2>1. UNCHANGED <<log, rev, queue, pqueue>> /\ rest' = Tail(rest) /\ rest # <<>>
    BY <1>5 DEF Replay
  <2> QED  BY <2>1, FirstOfRest DEF OnItsWay, RestReal, QueueReal, PanelReal
<1>6. ASSUME Close, UNCHANGED <<log, rev, pqueue>> PROVE OnItsWay'
  BY <1>6, EmptySeq DEF Close, OnItsWay, RestReal, QueueReal, PanelReal
<1>7. CASE ViewRun \/ Check
  BY <1>6, <1>7, Later DEF ViewRun, Check, ShowRun
<1>8. CASE Serve
  <2>1. Close \/ (queue' = Tail(queue) /\ UNCHANGED rest)
    BY <1>8, ServedReal DEF Serve, ShowRun, OnItsWay
  <2>2. queue # <<>> /\ UNCHANGED <<log, rev, pqueue>>
    BY <1>8 DEF Serve
  <2>3. CASE queue' = Tail(queue) /\ UNCHANGED rest
    BY <2>2, <2>3, FirstOfQueue DEF OnItsWay, RestReal, QueueReal, PanelReal
  <2> QED  BY <1>6, <2>1, <2>2, <2>3
<1>9. CASE NextState
  BY <1>9, FirstOfPanel DEF NextState, OnItsWay, RestReal, QueueReal, PanelReal
<1>10. CASE Drop
  <2>1. UNCHANGED <<log, rev>> /\ ((Close /\ UNCHANGED pqueue) \/ (pqueue' = <<>> /\ UNCHANGED <<rest, queue>>))
    BY <1>10 DEF Drop
  <2>2. CASE pqueue' = <<>> /\ UNCHANGED <<rest, queue>>
    BY <2>1, <2>2, EmptySeq DEF OnItsWay, RestReal, QueueReal, PanelReal
  <2> QED  BY <1>6, <2>1, <2>2
<1> QED
  BY <1>1, <1>2, <1>3, <1>4, <1>5, <1>7, <1>8, <1>9, <1>10 DEF Next, Runtime, RunStream, DeviceStream

LEMMA RunRealStep ==
  ASSUME StreamType, RealInv, [Next]_vars
  PROVE  RunReal'
<1> USE StreamAssumption DEF RealInv, RunReal, runVars, devVars, connVars, panelVars, browserVars
<1>1. CASE AppendOwed \/ AppendOther
  <2>1. log' = log + 1 /\ UNCHANGED <<unstored, events>> /\ (owed' = owed \/ (owed > 0 /\ owed' = owed - 1))
    BY <1>1 DEF AppendOwed, AppendOther, Begin
  <2>2. log' + owed' <= MaxEvents
    BY <1>1 DEF AppendOwed, AppendOther, Begin
  <2> QED  BY <2>1, <2>2
<1>2. CASE ChangeLife
  BY <1>2 DEF ChangeLife
<1>3. CASE Written \/ WriteFails
  <2>1. /\ writing /\ ~writing' /\ UNCHANGED <<log, owed, events>>
        /\ unstored' \in {unstored, unstored \cup {log}}
    BY <1>3 DEF Written, WriteFails
  <2> QED  BY <2>1
<1>4. CASE Replay
  <2>1. Head(rest) \in 1..log
    BY <1>4, FirstOfRest DEF Replay, OnItsWay, RestReal
  <2> QED  BY <1>4, <2>1 DEF Replay
<1>5. CASE Serve
  BY <1>5, ServedReal DEF Serve, OnItsWay
<1>6. CASE UNCHANGED <<runVars, events>>
  BY <1>6
<1> QED
  BY <1>1, <1>2, <1>3, <1>4, <1>5, <1>6
  DEF Next, Runtime, RunStream, DeviceStream, Connect, ViewRun, ViewDevice, Check, ChangeDevice, Commit,
      Drop, Watch, OpenPanel, FirstState, NextState, vars

LEMMA DeviceRealStep ==
  ASSUME StreamType, RealInv, [Next]_vars
  PROVE  DeviceReal'
<1> USE DEF RealInv, DeviceReal, runVars, devVars, connVars, panelVars, browserVars
<1>1. CASE ChangeDevice
  BY <1>1, StreamAssumption DEF ChangeDevice
<1>2. CASE Drop
  BY <1>2, StreamAssumption DEF Drop
<1>3. CASE ViewDevice \/ FirstState
  BY <1>3 DEF ViewDevice, FirstState
<1>4. CASE NextState
  BY <1>4, FirstOfPanel DEF NextState, OnItsWay
<1>5. CASE Serve
  <2>1. seen' = seen \/ seen' \in 1..rev
    BY <1>5, ServedReal DEF Serve, OnItsWay, ShowRun
  <2> QED  BY <1>5, <2>1 DEF Serve
<1>6. CASE UNCHANGED <<rev, seen, drops>>
  BY <1>6
<1> QED
  BY <1>1, <1>2, <1>3, <1>4, <1>5, <1>6
  DEF Next, Runtime, RunStream, DeviceStream, Connect, Replay, ViewRun, Check, ChangeLife, AppendOwed,
      AppendOther, Written, WriteFails, Commit, Watch, OpenPanel, vars

LEMMA BrowserRealStep ==
  ASSUME StreamType, RealInv, [Next]_vars
  PROVE  BrowserReal'
<1> USE DEF RealInv, BrowserReal, StreamType, runVars, devVars, connVars, panelVars, browserVars
<1>1. CASE AppendOwed \/ AppendOther \/ Written \/ WriteFails \/ ChangeLife \/ ChangeDevice \/ Commit
  BY <1>1 DEF AppendOwed, AppendOther, Begin, Written, WriteFails, ChangeLife, ChangeDevice, Commit
<1>2. CASE Connect \/ Replay \/ ViewDevice \/ Watch \/ OpenPanel \/ FirstState \/ NextState
  BY <1>2 DEF Connect, Replay, ViewDevice, Watch, OpenPanel, FirstState, NextState
<1>3. ASSUME NEW l \in Lives, NEW then, ShowRun(l, then), UNCHANGED <<writing, commits, panel>>,
             then => conn # "off"
      PROVE  BrowserReal'
  BY <1>3 DEF ShowRun, Close
<1>4. CASE ViewRun
  BY <1>3, <1>4 DEF ViewRun
<1>5. CASE Check \/ Drop
  BY <1>5 DEF Check, Drop, Close
<1>6. CASE Serve
  <2>1. CASE Head(queue).kind = "run"
    BY <1>3, <1>6, <2>1, ServedReal DEF Serve, OnItsWay
  <2>2. CASE Head(queue).kind # "run"
    BY <1>6, <2>2, ServedReal DEF Serve, OnItsWay
  <2> QED  BY <2>1, <2>2
<1>7. CASE UNCHANGED vars
  BY <1>7 DEF vars
<1> QED
  BY <1>1, <1>2, <1>4, <1>5, <1>6, <1>7 DEF Next, Runtime, RunStream, DeviceStream

\* The browser shows no event, no lifecycle and no state of the device that is not
\* there, and a run stream is only open while it wants to watch.
THEOREM TypeCorrect == Spec => []TypeOK
<1>1. Init => RealInv
  <2> SUFFICES ASSUME Init PROVE RealInv
    OBVIOUS
  <2>1. OnItsWay
    BY EmptySeq DEF Init, OnItsWay, RestReal, QueueReal, PanelReal
  <2>2. RunReal /\ DeviceReal
    BY StreamAssumption DEF Init, RunReal, DeviceReal
  <2>3. BrowserReal
    BY DEF Init, BrowserReal, Lives
  <2> QED  BY <2>1, <2>2, <2>3 DEF RealInv
<1>2. StreamInv /\ RealInv /\ [Next]_vars => StreamInv' /\ RealInv'
  BY StreamInvStep, WayStep, RunRealStep, DeviceRealStep, BrowserRealStep DEF RealInv, StreamInv
<1>3. StreamInv /\ RealInv => TypeOK
  <2> SUFFICES ASSUME StreamInv, RealInv PROVE TypeOK
    OBVIOUS
  <2>1. log + owed \in 0..MaxEvents /\ owed >= 0 /\ unstored \cup events \subseteq 1..log
    BY DEF RealInv, RunReal
  <2> QED
    BY <2>1 DEF RealInv, StreamInv, StreamType, DeviceReal, BrowserReal, TypeOK
<1> QED
  BY <1>1, <1>2, <1>3, StreamInvInit, PTL DEF Spec
=============================================================================
