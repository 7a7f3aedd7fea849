-------------------------------- MODULE Stream --------------------------------
(* The live view of one run: api/sse.py on top of RunStore.append_event and    *)
(* the simulator's _commit, and the browser that watches (web/src/App.tsx).    *)
(* An event is its number, a device state its revision, a run view its         *)
(* lifecycle. The queues are unbounded, so _put never drops; pings are left    *)
(* out, and so is the 120 s after which the browser stops by itself.           *)
EXTENDS Integers, Sequences

CONSTANTS
  MaxEvents,   \* run.events
  MaxChanges,  \* states of the device
  MaxDrops     \* connections that break

ASSUME StreamAssumption == MaxEvents \in Nat /\ MaxChanges \in Nat \ {0} /\ MaxDrops \in Nat

VARIABLES
  life,     \* run.lifecycle: RUNNING, WAITING or FINAL
  owed,     \* events that are still to be appended for a change of the lifecycle
  log,      \* len(run.events)
  writing,  \* the newest event is in run.events and on its way to the journal
  unstored, \* the events whose line could not be written: nobody is told of them
  rev,      \* the state of the device, committed or not
  commits,  \* the device's lock is held: the newest state is being saved
  conn,     \* the run stream: off, replay, device, check or live
  rest,     \* the events it still has to replay
  queue,    \* its queue
  panel,    \* the device stream: off, first or live
  pqueue,   \* its queue
  drops,    \* connections broken so far
  watching, \* the browser has the run stream open, or opens it again
  events,   \* the events it shows, each once
  shown,    \* the lifecycle it shows
  seen      \* the device state it shows, from either stream
vars == <<life, owed, log, writing, unstored, rev, commits, conn, rest, queue, panel, pqueue,
          drops, watching, events, shown, seen>>
runVars == <<life, owed, log, writing, unstored>>
devVars == <<rev, commits>>
connVars == <<conn, rest, queue>>
panelVars == <<panel, pqueue>>
browserVars == <<drops, watching, events, shown, seen>>

Init ==
  /\ life = "RUNNING" /\ owed = 0 /\ log = 0 /\ writing = FALSE /\ unstored = {}
  /\ rev = 1 /\ commits = FALSE /\ conn = "off" /\ rest = <<>> /\ queue = <<>>
  /\ panel = "off" /\ pqueue = <<>> /\ drops = 0
  /\ watching = TRUE /\ events = {} /\ shown = "none" /\ seen = 0

\* Mutant: a queue is registered when the replay is over.
MutRegistered(c) == c = "live"
\* A stream registers its queue before it reads anything.
Registered(c) == c # "off"
Put(items) == queue' = IF Registered(conn) THEN queue \o items ELSE queue
Event(n) == [kind |-> "event", of |-> n]
Run(l) == [kind |-> "run", of |-> l]
Device(r) == [kind |-> "device", of |-> r]

-----------------------------------------------------------------------------
(* The runtime.                                                              *)
\* The lifecycle is assigned first, its event appended after.
ChangeLife ==
  /\ life # "FINAL" /\ log + owed < MaxEvents
  /\ \E l \in {"RUNNING", "WAITING", "FINAL"} \ {life} : life' = l
  /\ owed' = owed + 1
  /\ UNCHANGED <<log, writing, unstored, devVars, connVars, panelVars, browserVars>>
\* append_event under the store's lock, up to its first await: the event of a
\* lifecycle, or another.
Begin == ~writing /\ writing' = TRUE /\ log' = log + 1
AppendOwed ==
  /\ Begin /\ owed > 0 /\ owed' = owed - 1
  /\ UNCHANGED <<life, unstored, devVars, connVars, panelVars, browserVars>>
AppendOther ==
  /\ Begin /\ log + owed < MaxEvents
  /\ UNCHANGED <<life, owed, unstored, devVars, connVars, panelVars, browserVars>>
\* Mutant: a listener sends the event without the view of the run.
MutEventItems == <<Event(log), Device(rev)>>
\* _on_runtime_event: the run and the device as they are by now.
EventItems == <<Event(log), Run(life), Device(rev)>>
\* The line is in the journal, the lock is free, the listeners are told.
Written ==
  /\ writing /\ writing' = FALSE /\ Put(EventItems)
  /\ UNCHANGED <<life, owed, log, unstored, devVars, conn, rest, panelVars, browserVars>>
\* EVENT_STORAGE_UNAVAILABLE: they are not.
WriteFails ==
  /\ writing /\ writing' = FALSE /\ unstored' = unstored \cup {log}
  /\ UNCHANGED <<life, owed, log, devVars, connVars, panelVars, browserVars>>
\* Mutant: a change of the device is told to the device streams only.
MutDeviceItems == <<>>
\* _on_device_change tells the run streams as well.
DeviceItems == <<Device(rev)>>
\* The device changes under its lock; _commit saves it, then _on_device_change.
ChangeDevice ==
  /\ ~commits /\ rev < MaxChanges /\ rev' = rev + 1 /\ commits' = TRUE
  /\ UNCHANGED <<runVars, connVars, panelVars, browserVars>>
Commit ==
  /\ commits /\ commits' = FALSE
  /\ pqueue' = IF Registered(panel) THEN Append(pqueue, rev) ELSE pqueue
  /\ Put(DeviceItems)
  /\ UNCHANGED <<runVars, rev, conn, rest, panel, browserVars>>

-----------------------------------------------------------------------------
(* _run_stream. Each step is up to a yield, and what is yielded is received.  *)
\* Mutant: a stream that the browser closed goes on.
MutClose == UNCHANGED <<conn, rest, queue>>
\* The queue is gone when the stream ends, for whatever reason.
Close == conn' = "off" /\ rest' = <<>> /\ queue' = <<>>
\* onRun: the browser shows the view and closes the stream of a run that waits or is over.
ShowRun(l, then) ==
  /\ shown' = l
  /\ IF l \in {"WAITING", "FINAL"} THEN watching' = FALSE /\ Close
     ELSE then /\ UNCHANGED watching
\* EventSource connects, and connects again, with the same afterSeq = 0.
Connect ==
  /\ conn = "off" /\ watching
  /\ conn' = "replay" /\ rest' = [i \in 1..log |-> i]
  /\ UNCHANGED <<runVars, devVars, queue, panelVars, browserVars>>
Replay ==
  /\ conn = "replay" /\ rest # <<>>
  /\ events' = events \cup {Head(rest)} /\ rest' = Tail(rest)
  /\ UNCHANGED <<runVars, devVars, conn, queue, panelVars, drops, watching, shown, seen>>
ViewRun ==
  /\ conn = "replay" /\ rest = <<>>
  /\ ShowRun(life, conn' = "device" /\ UNCHANGED <<rest, queue>>)
  /\ UNCHANGED <<runVars, devVars, panelVars, drops, events, seen>>
\* view() waits for the lock of the device.
ViewDevice ==
  /\ conn = "device" /\ ~commits /\ seen' = rev /\ conn' = "check"
  /\ UNCHANGED <<runVars, devVars, rest, queue, panelVars, drops, watching, events, shown>>
\* The run may have ended since its view was sent.
Check ==
  /\ conn = "check"
  /\ IF life = "FINAL" THEN Close ELSE conn' = "live" /\ UNCHANGED <<rest, queue>>
  /\ UNCHANGED <<runVars, devVars, panelVars, browserVars>>
Serve ==
  LET item == Head(queue)
      more == queue' = Tail(queue) /\ UNCHANGED <<conn, rest>>
  IN /\ conn = "live" /\ queue # <<>>
     /\ CASE item.kind = "event" ->
              events' = events \cup {item.of} /\ more /\ UNCHANGED <<watching, shown, seen>>
          [] item.kind = "run" -> ShowRun(item.of, more) /\ UNCHANGED <<events, seen>>
          [] item.kind = "device" -> seen' = item.of /\ more /\ UNCHANGED <<watching, events, shown>>
     /\ UNCHANGED <<runVars, devVars, panelVars, drops>>
\* The connection breaks, at any point.
Drop ==
  /\ drops < MaxDrops /\ drops' = drops + 1
  /\ \/ conn # "off" /\ Close /\ UNCHANGED panelVars
     \/ panel # "off" /\ panel' = "off" /\ pqueue' = <<>> /\ UNCHANGED connVars
  /\ UNCHANGED <<runVars, devVars, watching, events, shown, seen>>
\* The user has answered, and the browser watches the run again.
Watch ==
  /\ ~watching /\ shown = "WAITING" /\ life # "WAITING" /\ watching' = TRUE
  /\ UNCHANGED <<runVars, devVars, connVars, panelVars, drops, events, shown, seen>>

-----------------------------------------------------------------------------
(* _device_stream.                                                           *)
OpenPanel ==
  /\ panel = "off" /\ panel' = "first"
  /\ UNCHANGED <<runVars, devVars, connVars, pqueue, browserVars>>
FirstState ==
  /\ panel = "first" /\ ~commits /\ seen' = rev /\ panel' = "live"
  /\ UNCHANGED <<runVars, devVars, connVars, pqueue, drops, watching, events, shown>>
NextState ==
  /\ panel = "live" /\ pqueue # <<>> /\ seen' = Head(pqueue) /\ pqueue' = Tail(pqueue)
  /\ UNCHANGED <<runVars, devVars, connVars, panel, drops, watching, events, shown>>

Runtime == AppendOwed \/ Written \/ WriteFails
RunStream == Connect \/ Replay \/ ViewRun \/ ViewDevice \/ Check \/ Serve
DeviceStream == OpenPanel \/ FirstState \/ NextState
Next ==
  \/ Runtime \/ RunStream \/ DeviceStream
  \/ ChangeLife \/ AppendOther \/ ChangeDevice \/ Commit \/ Drop \/ Watch
\* Coroutines that can go on do, the event loop sees to it; browsers reconnect.
Spec ==
  /\ Init /\ [][Next]_vars
  /\ WF_vars(Runtime) /\ WF_vars(Commit) /\ WF_vars(RunStream) /\ WF_vars(DeviceStream)

-----------------------------------------------------------------------------
Lives == {"RUNNING", "WAITING", "FINAL"}
TypeOK ==
  /\ life \in Lives /\ shown \in Lives \cup {"none"} /\ log + owed \in 0..MaxEvents /\ owed >= 0
  /\ unstored \cup events \subseteq 1..log /\ rev \in 1..MaxChanges /\ seen \in 0..rev
  /\ conn \in {"off", "replay", "device", "check", "live"} /\ panel \in {"off", "first", "live"}
  /\ conn # "off" => watching
  /\ drops \in 0..MaxDrops /\ {writing, commits, watching} \subseteq BOOLEAN

\* The browser shows the events of the run without a gap, over replay, live items,
\* broken connections and new ones: up to the newest it shows, only those are missing
\* that the journal could not store.
NoGap == \A n \in events : \A m \in 1..n : m \in events \cup unstored

\* A browser does not watch a finished run for ever: unless an event could not be
\* stored, it is told that the run is over, or that it waited, and lets go.
WatchEnds == [](unstored = {}) => (life = "FINAL" /\ watching ~> ~watching)

\* A browser that keeps both streams open ends up showing the device as it is,
\* although states arrive late and by two ways.
PanelSettles == <>[](conn = "live") => <>[](seen = rev)
==============================================================================
