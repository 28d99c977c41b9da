------------------------------ MODULE SessionTree ------------------------------
(***************************************************************************)
(* One session's event log as a tree: parent pointers, the active leaf,     *)
(* checkpoints by extent, rewinding, following, and what a resume rebuilds. *)
(* src/src/store/sqlite/queries.rs holds the tree, src/src/runtime/         *)
(* durability.rs moves over it, src/src/runtime/recovery.rs replays it.     *)
(*                                                                          *)
(* Events are numbered from 0 and identified by their sequence; a           *)
(* transcript is the list of the events its messages came from.  The run    *)
(* loop is reduced to the order of its appends (RunLoop has the rest), a    *)
(* store never fails here, and a process may crash between any two appends. *)
(***************************************************************************)
EXTENDS Integers, Sequences, FiniteSets

CONSTANTS
  MaxEvents,            \* bound: events one session appends
  MaxNotes              \* bound: those among them that no replay looks at

ASSUME BoundAssumption == MaxEvents \in Nat \ {0} /\ MaxNotes \in Nat

NoSequence == -1        \* SQL NULL, and an unset Option<u64>
NoCheckpoint == [extent |-> 0, messages |-> << >>]

\* User and Reply are MessageAppended, Tool is ToolCompleted; Note stands for
\* every event a replay of the transcript and of the tracker ignores.
Kind == {"SessionCreated", "User", "RunStarted", "Reply", "Tool",
         "RunFinished", "RecoveryRequired", "RecoveryResolved", "Note"}

VARIABLES
  log,            \* table events: <<kind, parent_sequence>> by sequence
  leaf,           \* sessions.active_leaf_sequence
  checkpoint,     \* the checkpoint of greatest extent
  open,           \* a process holds the session
  transcript,     \* state.messages
  branch_parent,  \* state.branch_parent: where the next directive branches
  run,            \* how far the active run's appends have come
  recovering,     \* the actor's recovery state is Required
  moved,          \* history: no event was appended since the leaf was moved
                  \* or the session was opened
  branched        \* history: the leaf was ever moved

durable == <<log, leaf, checkpoint>>
live == <<open, transcript, branch_parent, run, recovering>>
vars == <<durable, live, moved, branched>>

--------------------------------------------------------------------------------
(* The tree *)

Extent(l) == Len(l)
Sequences(l) == 0 .. Len(l) - 1
kindOf(l, s) == l[s + 1].kind

\* A NULL parent means the preceding sequence.
parentOf(l, s) ==
  IF l[s + 1].parent # NoSequence THEN l[s + 1].parent ELSE s - 1

leafOf_Linear(l, f) == Len(l) - 1

\* COALESCE(active_leaf_sequence, MAX(sequence)).
leafOf(l, f) == IF f = NoSequence THEN Len(l) - 1 ELSE f

\* The walk up the parent pointers from the leaf, and the events on it.
branch_sequences(l, f) ==
  LET up[s \in Sequences(l)] ==
        {s} \union IF parentOf(l, s) \in Sequences(l) THEN up[parentOf(l, s)]
                                                       ELSE {}
  IN up[leafOf(l, f)]

\* The events of S as a list, oldest first: kept[n] are those below n.
inOrder(l, S) ==
  LET kept[n \in 0 .. Len(l)] ==
        IF n = 0 THEN << >>
        ELSE IF n - 1 \in S THEN Append(kept[n - 1], n - 1) ELSE kept[n - 1]
  IN kept[Len(l)]

\* MjolnrEvent::introduces_message, and the narrower reading that
\* rebuild_messages_from makes of the same events.
introduces_message(l, s) == kindOf(l, s) \in {"User", "Reply", "Tool"}
messagesOf(l, S) == inOrder(l, {s \in S : introduces_message(l, s)})
rebuilt(l, S) == inOrder(l, {s \in S : kindOf(l, s) \in {"User", "Reply"}})

\* A replay ends with work in flight when a run it saw start was never closed.
interrupted(l, S) ==
  \E s \in S : /\ kindOf(l, s) = "RunStarted"
               /\ \A u \in S : u > s =>
                    kindOf(l, u) \notin {"RunFinished", "RecoveryResolved"}

Covers_Unchecked(l, f, c) == c.extent > 0

tailFrom_Late(l, f, n) == {s \in branch_sequences(l, f) : s > n}

\* branch_events_from: a checkpoint counts only when all it covers is on the
\* branch; with none that does, the whole branch is replayed.
Covers(l, f, c) == 0 .. c.extent - 1 \subseteq branch_sequences(l, f)

tailFrom(l, f, n) == {s \in branch_sequences(l, f) : s >= n}

replay(l, f, c) ==
  LET base == IF Covers(l, f, c) THEN c ELSE NoCheckpoint
      tail == tailFrom(l, f, base.extent)
  IN [messages    |-> base.messages \o messagesOf(l, tail),
      interrupted |-> interrupted(l, tail)]

\* What a resume of the session as it is now on disk would rebuild.
Restart == replay(log, leaf, checkpoint)
Branch == branch_sequences(log, leaf)
\* The event the live session stands on.
standing == IF moved THEN leafOf(log, leaf) ELSE Len(log) - 1
UserTurns == {s \in Sequences(log) : kindOf(log, s) = "User"}

--------------------------------------------------------------------------------
(* Appends *)

\* append_after: the next sequence, with the parent the caller names.
record(kind, parent) ==
  /\ Len(log) < MaxEvents
  /\ log' = Append(log, [kind |-> kind, parent |-> parent])
  /\ moved' = FALSE

\* persist: no parent is named and the leaf stays where it is.
persist(kind) == record(kind, NoSequence) /\ UNCHANGED <<leaf, branched>>

pushed == transcript' = Append(transcript, Len(log))

write_checkpoint_Short ==
  checkpoint' = [extent |-> Extent(log) - 1, messages |-> transcript]

write_checkpoint_Long ==
  checkpoint' = [extent |-> Extent(log) + 1, messages |-> transcript]

\* write_checkpoint: the transcript in memory, filed under the log's extent.
write_checkpoint ==
  checkpoint' = [extent |-> Extent(log), messages |-> transcript]

LetGo ==
  /\ open' = FALSE
  /\ transcript' = << >>
  /\ branch_parent' = NoSequence
  /\ run' = "none"
  /\ recovering' = FALSE

--------------------------------------------------------------------------------
(* One process *)

Init ==
  /\ log = <<[kind |-> "SessionCreated", parent |-> NoSequence]>>
  /\ leaf = NoSequence
  /\ checkpoint = NoCheckpoint
  /\ open = TRUE
  /\ transcript = << >>
  /\ branch_parent = NoSequence
  /\ run = "none"
  /\ recovering = FALSE
  /\ moved = FALSE
  /\ branched = FALSE

\* A directive: the first one after a rewind is the branch point, and takes
\* the leaf with it.
Submit ==
  /\ open /\ run = "none" /\ ~recovering
  /\ record("User", branch_parent)
  /\ leaf' = IF branch_parent # NoSequence THEN Len(log) ELSE leaf
  /\ branch_parent' = NoSequence
  /\ pushed
  /\ run' = "starting"
  /\ UNCHANGED <<checkpoint, open, recovering, branched>>

StartRun ==
  /\ run = "starting"
  /\ persist("RunStarted")
  /\ run' = "running"
  /\ UNCHANGED <<checkpoint, open, transcript, branch_parent, recovering>>

\* A provider turn's message, or a tool's result.
RunAppends ==
  /\ run = "running"
  /\ \E kind \in {"Reply", "Tool"} : persist(kind)
  /\ pushed
  /\ UNCHANGED <<checkpoint, open, branch_parent, run, recovering>>

FinishRun ==
  /\ run = "running"
  /\ persist("RunFinished")
  /\ run' = "settled"
  /\ UNCHANGED <<checkpoint, open, transcript, branch_parent, recovering>>

\* finish_run's checkpoint follows the terminal event, in the same handler.
CheckpointRun ==
  /\ run = "settled"
  /\ write_checkpoint
  /\ run' = "none"
  /\ UNCHANGED <<log, leaf, open, transcript, branch_parent, recovering,
                 moved, branched>>

\* A policy, model or plan change: recorded whether or not a run is active.
RecordNote ==
  /\ open /\ run \in {"none", "running"}
  /\ Cardinality({s \in Sequences(log) : kindOf(log, s) = "Note"}) < MaxNotes
  /\ persist("Note")
  /\ UNCHANGED <<checkpoint, live>>

\* AbandonAndContinue.
ResolveRecovery ==
  /\ open /\ recovering
  /\ persist("RecoveryResolved")
  /\ recovering' = FALSE
  /\ UNCHANGED <<checkpoint, open, transcript, branch_parent, run>>

--------------------------------------------------------------------------------
(* Moving over the tree *)

\* Set the leaf, reread the branch, rebuild the transcript from it.
moveTo(target, pending) ==
  /\ leaf' = target
  /\ transcript' = rebuilt(log, branch_sequences(log, target))
  /\ branch_parent' = pending
  /\ moved' = TRUE
  /\ branched' = TRUE
  /\ UNCHANGED <<log, checkpoint, open, run, recovering>>

\* The event in front of `s` becomes the leaf, so `s` itself is dropped.
rewind_to(s) == moveTo(s - 1, s - 1)

\* The picker offers the user's turns on the branch being followed.
Rewind ==
  /\ open /\ run = "none"
  /\ \E s \in UserTurns \intersect Branch : rewind_to(s)

\* A client names the latest checkpoint's extent.
rollback_to_checkpoint ==
  /\ open /\ run = "none"
  /\ checkpoint.extent > 0
  /\ rewind_to(checkpoint.extent)

\* The picker offers the user's turns on branches left behind.
follow_branch ==
  /\ open /\ run = "none"
  /\ \E s \in UserTurns \ Branch : moveTo(s, NoSequence)

--------------------------------------------------------------------------------
(* Leaving and coming back *)

\* release_session, and a shutdown of a settled session.
Release ==
  /\ open /\ run = "none" /\ ~recovering
  /\ write_checkpoint
  /\ LetGo
  /\ UNCHANGED <<log, leaf, moved, branched>>

\* The process dies, or shuts down with unsettled work, which it leaves alone.
Crash ==
  /\ open
  /\ LetGo
  /\ UNCHANGED <<durable, moved, branched>>

\* resume_session: replay, and record that a human must decide if one must.
Resume ==
  /\ ~open
  /\ open' = TRUE
  /\ transcript' = Restart.messages
  /\ recovering' = Restart.interrupted
  /\ IF Restart.interrupted
     THEN persist("RecoveryRequired")
     ELSE moved' = TRUE /\ UNCHANGED <<log, leaf, branched>>
  /\ UNCHANGED <<checkpoint, branch_parent, run>>

Next ==
  \/ Submit \/ StartRun \/ RunAppends \/ FinishRun \/ CheckpointRun
  \/ RecordNote \/ ResolveRecovery
  \/ Rewind \/ rollback_to_checkpoint \/ follow_branch
  \/ Release \/ Crash \/ Resume

Spec == Init /\ [][Next]_vars

--------------------------------------------------------------------------------
(* Properties *)

\* Every parent is an earlier event, the leaf is an event, the checkpoint
\* covers no more than there is, and messages name events.
TypeOK ==
  /\ \A s \in Sequences(log) :
       kindOf(log, s) \in Kind /\ parentOf(log, s) \in -1 .. s - 1
  /\ leaf \in {NoSequence} \union Sequences(log)
  /\ checkpoint.extent \in 0 .. Len(log)
  /\ \A m \in {transcript, checkpoint.messages} :
       \A i \in DOMAIN m : m[i] \in Sequences(log)
  /\ branch_parent \in {NoSequence} \union Sequences(log)
  /\ run \in {"none", "starting", "running", "settled"}
  /\ {open, recovering, moved, branched} \subseteq BOOLEAN

\* A checkpoint written on one branch never carries its messages into a resume
\* on another: what a resume would show is on the branch the leaf is on, however
\* rewinds, checkpoints, follows and crashes were ordered (resume_session with
\* branch_events_from).
NothingResurrected ==
  \A i \in DOMAIN Restart.messages : Restart.messages[i] \in Branch

\* Layering the tail on a checkpoint shows every message once and in the order
\* it was said: no message is both in the checkpoint and replayed after it.
NothingRepeated ==
  \A i, j \in DOMAIN Restart.messages :
    i < j => Restart.messages[i] < Restart.messages[j]

\* A session whose leaf was never moved resumes whole, wherever its last
\* checkpoint fell and wherever the process died.
LinearResumesWhole ==
  ~branched => Restart.messages = messagesOf(log, Sequences(log))

\* A rewind survives a restart: while the branch point is pending, nothing
\* recorded after it comes back, whatever was appended or checkpointed since.
RewindSurvivesRestart ==
  branch_parent # NoSequence =>
    \A i \in DOMAIN Restart.messages : Restart.messages[i] <= branch_parent

\* "If mjolnr cannot prove a write or command did not happen, it asks a
\* human": whenever the process may die with a run in flight, the next resume
\* asks (core/recovery.rs, persist_branching and persist).
InterruptedRunIsSeen == run = "running" => Restart.interrupted

\* The same, of the work the last resume already reported and nobody decided:
\* moving over the tree must not make the next resume forget it.
UndecidedWorkStaysSeen == open /\ recovering => Restart.interrupted

\* "Rewind the session's active leaf to the parent of `sequence`"
\* (core/command.rs, RewindTo).
RewindLandsOnParent ==
  [][\A s \in UserTurns \intersect Branch :
       Rewind /\ rewind_to(s) => leaf' = parentOf(log, s)]_vars

\* "what the provider sees next matches what the store says the branch is"
\* (durability.rs, rewind_to): the transcript after a move has every message
\* its branch has.
TranscriptIsTheBranch ==
  [][Rewind \/ follow_branch =>
       transcript' = messagesOf(log', branch_sequences(log', leaf'))]_vars

\* "The first message after a rewind is the branch point; every message after
\* it continues that branch normally" (runtime/mod.rs) and "Following an
\* existing branch continues it" (durability.rs): a directive's parent is the
\* event the session stood on.
DirectivesContinueTheLine ==
  [][Submit => parentOf(log', Len(log)) = standing]_vars

\* "the checkpoint is usable only if every sequence it covers lies on the
\* branch" (queries.rs, branch_events_from): one that passes that test holds
\* the messages of all it covers.
UsableCheckpointIsWhole ==
  Covers(log, leaf, checkpoint) =>
    checkpoint.messages = messagesOf(log, 0 .. checkpoint.extent - 1)
================================================================================
