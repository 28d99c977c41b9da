------------------------------- MODULE ClientView -------------------------------
(*****************************************************************************)
(* What a desktop client shows, and how it gets there: the runtime's watch   *)
(* and its bounded broadcast (core/runtime.rs, durability.rs), the pump of a *)
(* project's bridge (client_bridge/pump.rs, bridge.rs), the coordinator that *)
(* merges the projects (desktop/src-tauri/src/coordinator.rs) and the        *)
(* frontend that folds the merged stream                                     *)
(* (desktop/src/lib/runtime/client.svelte.ts).                               *)
(*                                                                           *)
(* A runtime's state is whether a run is active and up to which delta its    *)
(* text is in the transcript; a publication that changes neither is left     *)
(* out, and so are events that neither feed nor empty the live bubble.  Each *)
(* project is open and has a session of its own.  One call of the frontend   *)
(* at a time; its answer is taken some time after it was computed, and       *)
(* updates may be handled in between.                                        *)
(*****************************************************************************)
EXTENDS Integers, SequencesExt

CONSTANTS
  Context,     \* the open projects
  First,       \* the one the application started with
  EVENT_CAPACITY,  \* the broadcast keeps this many events for a slow subscriber
  UPDATE_CAPACITY, \* updates a channel holds
  Fragile,     \* the projects whose runtime may crash
  Busy,        \* a lock may be taken when a snapshot is asked for
  Calls,       \* what the frontend may ask for: "request", "select"
  MaxEvents,   \* bound: events of each project
  MaxChanges,  \* bound: snapshots it publishes
  MaxCalls     \* bound: calls of the frontend

ASSUME ClientAssumption ==
  /\ First \in Context /\ Fragile \subseteq Context /\ Busy \in BOOLEAN
  /\ {EVENT_CAPACITY, UPDATE_CAPACITY} \subseteq Nat \ {0}
  /\ Calls \subseteq {"request", "select"}
  /\ {MaxEvents, MaxChanges} \subseteq [Context -> Nat] /\ MaxCalls \in Nat

VARIABLES
  state,      \* the actor's state of each project
  truth,      \* the snapshot it last published
  sent,       \* events it has broadcast
  ring,       \* those the pump has not taken
  lagged,     \* the pump has lost events
  alive,      \* the actor is running
  seen,       \* the version of the watch the pump has seen
  pump,       \* its step, and the update it is sending
  queue,      \* what was sent to the frontend and not handled
  selected,   \* the project commands go to
  call,       \* the call of the frontend under way
  calls,      \* calls so far
  shown,      \* the snapshot on the screen
  chosen,     \* selectedContextId
  bubble,     \* streamingText: the deltas in it
  connected,  \* the frontend claims a connection
  heard,      \* history: the last event folded, and whether a snapshot came after it
  overtaken,  \* history: an older snapshot was taken after a newer one
  left        \* history: what was in the bubble when its project was left

runtime == <<state, truth, sent, alive>>
bridge == <<lagged, ring, seen, pump>>
backend == <<runtime, bridge, queue, selected>>
asking == <<call, calls>>
screen == <<shown, chosen, bubble, connected, heard, overtaken, left>>
vars == <<backend, asking, screen>>

Events == UNION {0 .. MaxEvents[c] : c \in Context}
Versions == UNION {0 .. MaxChanges[c] : c \in Context}
State == [active : BOOLEAN, run : Events, landed : Events, halted : BOOLEAN]
Event ==
  [kind : {"started", "delta", "finished"}, run : Events \ {0}, n : Events \ {0}]
Delta == [context : Context, run : Events \ {0}, n : Events \ {0}]
Snapshot == [context : Context, version : Versions, active : BOOLEAN, landed : Events]

Update ==
  [kind : {"snapshot", "resync"}, snapshot : Snapshot]
    \union [kind : {"event"}, event : Event] \union [kind : {"closed"}]
Closed == [kind |-> "closed"]
Taken(snapshot) == [kind |-> "snapshot", snapshot |-> snapshot]

AtRest == [active |-> FALSE, run |-> 0, landed |-> 0, halted |-> FALSE]
Opened(c) == [context |-> c, version |-> 0, active |-> FALSE, landed |-> 0]

Idle == [op |-> "none", step |-> "", to |-> First, snapshot |-> Opened(First)]
Call == [op : {"none", "request", "select", "reconnect"},
         step : {"", "read", "send", "list", "get", "got"},
         to : Context, snapshot : Snapshot]

TypeOK ==
  /\ state \in [Context -> State] /\ truth \in [Context -> Snapshot]
  /\ sent \in [Context -> Events] /\ ring \in [Context -> Seq(Event)]
  /\ {lagged, alive} \subseteq [Context -> BOOLEAN]
  /\ seen \in [Context -> Versions]
  /\ \A c \in Context :
       /\ pump[c].at \in {"select", "send", "last", "done"}
       /\ pump[c].hand \in Update
       /\ Len(ring[c]) <= EVENT_CAPACITY
  /\ queue \in [Context -> Seq(Update)]
  /\ selected \in Context
  /\ call \in Call /\ calls \in 0 .. MaxCalls
  /\ shown \in Snapshot /\ chosen \in Context
  /\ bubble \subseteq Delta /\ left \subseteq Delta /\ connected \in BOOLEAN
  /\ heard \in [context : Context, n : Events, fresh : BOOLEAN] /\ overtaken \in BOOLEAN

\* The frontend has asked for its first snapshot, it listens, and the pumps have sent
\* the ones they start with.
Init ==
  /\ state = [c \in Context |-> AtRest]
  /\ truth = [c \in Context |-> Opened(c)]
  /\ sent = [c \in Context |-> 0] /\ ring = [c \in Context |-> <<>>]
  /\ lagged = [c \in Context |-> FALSE] /\ alive = [c \in Context |-> TRUE]
  /\ seen = [c \in Context |-> 0]
  /\ pump = [c \in Context |-> [at |-> "select", hand |-> Closed]]
  /\ queue = [c \in Context |-> <<>>] /\ selected = First
  /\ call = Idle /\ calls = 0
  /\ shown = Opened(First) /\ chosen = First /\ bubble = {} /\ connected = TRUE
  /\ heard = [context |-> First, n |-> 0, fresh |-> TRUE] /\ overtaken = FALSE /\ left = {}

--------------------------------------------------------------------------------
(* The runtime of a project: `broadcast` and `publish_snapshot`.               *)

published(c) ==
  [context |-> c, version |-> truth[c].version, active |-> state[c].active,
   landed |-> state[c].landed]

\* The actor takes its next step when it has published the last one.
Acts(c) == alive[c] /\ truth[c] = published(c)

\* A full broadcast drops its oldest event.
broadcast(c, kind, run) ==
  LET event == [kind |-> kind, run |-> run, n |-> sent[c] + 1]
      kept == Append(ring[c], event)
  IN  /\ sent[c] < MaxEvents[c] /\ sent' = [sent EXCEPT ![c] = @ + 1]
      /\ IF Len(kept) > EVENT_CAPACITY
           THEN /\ ring' = [ring EXCEPT ![c] = Tail(kept)]
                /\ lagged' = [lagged EXCEPT ![c] = TRUE]
         ELSE ring' = [ring EXCEPT ![c] = kept] /\ UNCHANGED lagged

RunStarted(c) ==
  /\ Acts(c) /\ ~state[c].active /\ ~state[c].halted
  /\ truth[c].version < MaxChanges[c]
  /\ broadcast(c, "started", sent[c] + 1)
  /\ state' = [state EXCEPT ![c].active = TRUE, ![c].run = sent[c] + 1]
  /\ UNCHANGED <<truth, alive, seen, pump, queue, selected, asking, screen>>

\* A delta is broadcast and nothing else.
TextDelta(c) ==
  /\ Acts(c) /\ state[c].active /\ broadcast(c, "delta", state[c].run)
  /\ UNCHANGED <<state, truth, alive, seen, pump, queue, selected, asking,
                 screen>>

\* The answer is appended to the transcript.
MessageAppended(c) ==
  /\ Acts(c) /\ state[c].active /\ state[c].landed < sent[c]
  /\ truth[c].version < MaxChanges[c]
  /\ state' = [state EXCEPT ![c].landed = sent[c]]
  /\ UNCHANGED <<truth, sent, alive, bridge, queue, selected, asking, screen>>

RunFinished(c) ==
  /\ Acts(c) /\ state[c].active /\ truth[c].version < MaxChanges[c]
  /\ broadcast(c, "finished", state[c].run)
  /\ state' = [state EXCEPT ![c].active = FALSE]
  /\ UNCHANGED <<truth, alive, seen, pump, queue, selected, asking, screen>>

\* halt_for_store: a run that could not be recorded ends without an event.
Halt(c) ==
  /\ Acts(c) /\ state[c].active /\ truth[c].version < MaxChanges[c]
  /\ state' = [state EXCEPT ![c].active = FALSE, ![c].halted = TRUE]
  /\ UNCHANGED <<truth, sent, alive, bridge, queue, selected, asking, screen>>

Publish(c) ==
  /\ alive[c] /\ truth[c] # published(c)
  /\ truth' = [truth EXCEPT ![c] = [published(c) EXCEPT !.version = @ + 1]]
  /\ UNCHANGED <<state, sent, alive, bridge, queue, selected, asking, screen>>

\* The actor's task ends with a panic.
Crash(c) ==
  /\ c \in Fragile /\ alive[c] /\ alive' = [alive EXCEPT ![c] = FALSE]
  /\ UNCHANGED <<state, truth, sent, bridge, queue, selected, asking, screen>>

--------------------------------------------------------------------------------
(* The pump of a project's bridge, and the task that forwards what it sends.     *)

Room(channel) == Len(channel) < UPDATE_CAPACITY

sends(c, update) == pump' = [pump EXCEPT ![c] = [at |-> "send", hand |-> update]]

PumpChanged(c) ==
  /\ pump[c].at = "select" /\ seen[c] # truth[c].version
  /\ seen' = [seen EXCEPT ![c] = truth[c].version] /\ sends(c, Taken(truth[c]))
  /\ UNCHANGED <<runtime, ring, lagged, queue, selected, asking, screen>>

PumpEvent(c) ==
  /\ pump[c].at = "select" /\ ~lagged[c] /\ ring[c] # <<>>
  /\ sends(c, [kind |-> "event", event |-> Head(ring[c])])
  /\ ring' = [ring EXCEPT ![c] = Tail(@)]
  /\ UNCHANGED <<runtime, lagged, seen, queue, selected, asking, screen>>

\* A slip: a pump that has lost events goes on with the next one.
PumpLagged_Continue(c) ==
  /\ pump[c].at = "select" /\ lagged[c] /\ lagged' = [lagged EXCEPT ![c] = FALSE]
  /\ UNCHANGED <<runtime, ring, seen, pump, queue, selected, asking, screen>>

\* Events were lost: the state they led to is read and sent in their place.
PumpLagged(c) ==
  /\ pump[c].at = "select" /\ lagged[c] /\ lagged' = [lagged EXCEPT ![c] = FALSE]
  /\ sends(c, [kind |-> "resync", snapshot |-> truth[c]])
  /\ UNCHANGED <<runtime, ring, seen, queue, selected, asking, screen>>

\* The watch is closed once its last value was seen.
PumpClosed(c) ==
  /\ pump[c].at = "select" /\ ~alive[c] /\ seen[c] = truth[c].version
  /\ pump' = [pump EXCEPT ![c] = [at |-> "last", hand |-> Closed]]
  /\ UNCHANGED <<runtime, ring, lagged, seen, queue, selected, asking, screen>>

\* A slip: what the watch holds once an update is sent counts as seen.
PumpSends_Marks(c) ==
  /\ pump[c].at \in {"send", "last"} /\ Room(queue[c])
  /\ queue' = [queue EXCEPT ![c] = Append(@, pump[c].hand)]
  /\ pump' = [pump EXCEPT ![c] = [hand |-> Closed,
                at |-> IF pump[c].at = "send" THEN "select" ELSE "done"]]
  /\ seen' = [seen EXCEPT ![c] = truth[c].version]
  /\ UNCHANGED <<runtime, ring, lagged, selected, asking, screen>>

PumpSends(c) ==
  /\ pump[c].at \in {"send", "last"} /\ Room(queue[c])
  /\ queue' = [queue EXCEPT ![c] = Append(@, pump[c].hand)]
  /\ pump' = [pump EXCEPT ![c] = [hand |-> Closed,
                at |-> IF pump[c].at = "send" THEN "select" ELSE "done"]]
  /\ UNCHANGED <<runtime, ring, lagged, seen, selected, asking, screen>>

--------------------------------------------------------------------------------
(* Calls of the frontend.                                                     *)

Asks(op, step, to) ==
  /\ call.op = "none" /\ calls < MaxCalls /\ calls' = calls + 1
  /\ call' = [op |-> op, step |-> step, to |-> to, snapshot |-> Opened(First)]

Answered == UNCHANGED <<runtime, bridge, queue>>

\* requestSnapshot goes to the bridge of the selected project.
RequestSnapshot ==
  /\ "request" \in Calls /\ Asks("request", "read", selected)
  /\ Answered /\ UNCHANGED <<selected, screen>>

\* Only calls look at the selection, so it does not matter when in the call it changes.
SelectProject(c) ==
  /\ "select" \in Calls /\ Asks("select", "read", c) /\ selected' = c
  /\ Answered /\ UNCHANGED screen

\* emit_snapshot of bridge or coordinator: the snapshot is read, then there is room.
EmitReads ==
  /\ call.step = "read"
  /\ call' = [call EXCEPT !.step = "send", !.snapshot = truth[call.to]]
  /\ UNCHANGED calls /\ Answered /\ UNCHANGED <<selected, screen>>

\* The bridge sends through its own channel.  The coordinator sends into the channel the
\* forwarding tasks send to, and so past what they have not forwarded yet.
EmitSends ==
  /\ call.step = "send" /\ UNCHANGED calls
  /\ \/ /\ call.op = "request" /\ Room(queue[call.to]) /\ call' = Idle
        /\ queue' = [queue EXCEPT ![call.to] = Append(@, Taken(call.snapshot))]
     \/ /\ call.op = "select" /\ Len(queue[call.to]) <= UPDATE_CAPACITY
        /\ call' = [call EXCEPT !.step = "list"]
        /\ \E i \in 1 .. Len(queue[call.to]) + 1 :
             queue' = [queue EXCEPT ![call.to] = InsertAt(@, i, Taken(call.snapshot))]
  /\ UNCHANGED <<runtime, bridge, selected, screen>>

\* refreshProjects: the list says which project is selected; then its snapshot is
\* asked for.
ListArrives ==
  /\ call.step = "list" /\ call' = [call EXCEPT !.step = "get"] /\ UNCHANGED calls
  /\ chosen' = selected /\ left' = (IF chosen = selected THEN left ELSE left \union bubble)
  /\ Answered /\ UNCHANGED <<selected, shown, bubble, connected, heard, overtaken>>

\* The snapshot of the selected project; while a lock is taken, the one the
\* application started with.
get_snapshot ==
  {truth[selected]} \union (IF Busy THEN {Opened(First)} ELSE {})

GetSnapshot ==
  /\ call.step = "get"
  /\ \E snapshot \in get_snapshot :
       call' = [call EXCEPT !.step = "got", !.snapshot = snapshot]
  /\ UNCHANGED calls /\ Answered /\ UNCHANGED <<selected, screen>>

\* A snapshot is put on the screen.
Shows(snapshot) ==
  /\ shown' = snapshot
  /\ overtaken' =
       IF snapshot.context = shown.context
         THEN \/ snapshot.version < shown.version
              \/ overtaken /\ snapshot.version = shown.version
         ELSE snapshot.context # chosen
  /\ heard' = [heard EXCEPT !.fresh = TRUE]

\* The answer is assigned as it is.  A reconnection finds the channel taken and claims
\* a connection all the same.
SnapshotArrives ==
  /\ call.step = "got" /\ call' = Idle /\ UNCHANGED calls
  /\ Shows(call.snapshot)
  /\ connected' = (connected \/ call.op = "reconnect")
  /\ Answered /\ UNCHANGED <<selected, chosen, bubble, left>>

\* attemptReconnect, by its timer or by the human.
Reconnect ==
  /\ ~connected /\ Asks("reconnect", "list", selected)
  /\ Answered /\ UNCHANGED <<selected, screen>>

--------------------------------------------------------------------------------
(* handleUpdate.                                                              *)

\* A snapshot of the same session whose run goes on.
goes_on(update) ==
  /\ update.kind = "snapshot"
  /\ update.snapshot.active /\ update.snapshot.context = shown.context

\* The bubble survives it, unless its last delta is in the transcript by now.
keeps(update) ==
  /\ goes_on(update)
  /\ \/ bubble = {} \/ update.snapshot.landed = 0
     \/ ~\E d \in bubble : d.n = update.snapshot.landed
     \/ \E d \in bubble : d.n > update.snapshot.landed

\* A slip: only the next run empties the bubble.
Fold_Keeps(c, event) ==
  /\ heard' = [context |-> c, n |-> event.n, fresh |-> FALSE]
  /\ bubble' = (CASE event.kind = "started" -> {}
                  [] event.kind = "finished" -> bubble
                  [] OTHER ->
                       bubble \union {[context |-> c, run |-> event.run, n |-> event.n]})
  /\ UNCHANGED <<shown, connected, overtaken>>

Fold(c, event) ==
  /\ heard' = [context |-> c, n |-> event.n, fresh |-> FALSE]
  /\ bubble' = (IF event.kind = "delta"
                  THEN bubble \union {[context |-> c, run |-> event.run, n |-> event.n]}
                ELSE {})
  /\ UNCHANGED <<shown, connected, overtaken>>

\* An update of a project that is not on the screen is dropped.  A short answer (less
\* than 40 characters) is not looked for in the bubble, and stays there.
HandleUpdate(c) ==
  /\ queue[c] # <<>> /\ queue' = [queue EXCEPT ![c] = Tail(@)]
  /\ LET update == Head(queue[c])
     IN  \/ c # chosen /\ UNCHANGED <<shown, bubble, connected, heard, overtaken>>
         \/ /\ c = chosen /\ update.kind \in {"snapshot", "resync"}
            /\ Shows(update.snapshot) /\ UNCHANGED connected
            /\ \/ goes_on(update) /\ UNCHANGED bubble
               \/ ~keeps(update) /\ bubble' = {}
         \/ c = chosen /\ update.kind = "event" /\ Fold(c, update.event)
         \/ /\ c = chosen /\ update.kind = "closed"
            /\ connected' = FALSE /\ bubble' = {}
            /\ UNCHANGED <<shown, heard, overtaken>>
  /\ UNCHANGED <<runtime, bridge, selected, asking, chosen, left>>

Runs(c) ==
  \/ RunStarted(c) \/ TextDelta(c) \/ MessageAppended(c) \/ RunFinished(c) \/ Halt(c)
  \/ Crash(c)

Pump(c) ==
  \/ PumpChanged(c) \/ PumpEvent(c) \/ PumpLagged(c) \/ PumpClosed(c)
  \/ PumpSends(c)

Calling ==
  \/ EmitReads \/ EmitSends \/ ListArrives \/ GetSnapshot \/ SnapshotArrives

Next ==
  \/ \E c \in Context : Runs(c) \/ Publish(c) \/ Pump(c) \/ HandleUpdate(c)
                        \/ SelectProject(c)
  \/ RequestSnapshot \/ Calling \/ Reconnect

Spec == Init /\ [][Next]_vars

--------------------------------------------------------------------------------
(* Properties.                                                                *)

\* The client never folds an event after one it has missed without having taken a
\* snapshot in between: lag is answered by a resync (RuntimeSubscription::recv:
\* "rather than pretending the gap did not happen").  While a project is being selected
\* its events may come before the snapshot that is asked for.
GapIsResynced ==
  [][ heard' # heard /\ ~heard'.fresh
        => \/ heard.fresh \/ call.op = "select"
           \/ heard'.context = heard.context /\ heard'.n = heard.n + 1 ]_vars

\* Everything is delivered and no call is under way.
Delivered ==
  /\ \A c \in Context :
       /\ queue[c] = <<>> /\ pump[c].at = "select" /\ ring[c] = <<>> /\ ~lagged[c]
       /\ truth[c] = published(c) /\ seen[c] = truth[c].version
  /\ call = Idle

\* Then nothing of a run that has ended is left in the bubble, unless its end could not
\* be recorded and so was not broadcast (Halt), or the project was left with it in the
\* bubble: the events that would empty it are then dropped, and a later return shows it.
BubbleIsRetired ==
  Delivered /\ ~state[chosen].active /\ ~state[chosen].halted => bubble \subseteq left

\* Once everything is delivered the screen shows the selected project as it is, unless
\* an older reading was put over a newer one: see ClientShowsTruth.  Where a lock is taken
\* (Busy) the project may also be answered for by another one's first snapshot.
ScreenIsCurrent ==
  ~Busy /\ Delivered /\ alive[selected] /\ ~overtaken
    => chosen = selected /\ shown = truth[selected]

\* docs/tauri-path-and-phases.md: "Treat the snapshot as current truth".  Refuted: a
\* snapshot is read before there is room to send it, and the pump sends a newer one
\* first; an answer is taken after an update that is newer.
ClientShowsTruth == Delivered /\ alive[selected] => shown = truth[selected]

\* Refuted: the bubble of the project that was left is still there.
BubbleIsOfShown == \A d \in bubble : d.context = chosen

\* client.svelte.ts, scheduleReconnect: "recovery claims connection only after truth
\* has actually flowed again".  Refuted: the channel is taken, and the last snapshot of
\* a runtime that is gone is answer enough.
ReconnectMeansAlive == [][ ~connected /\ connected' => alive[selected] ]_vars
===============================================================================
