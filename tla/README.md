# TLA+ specifications of mjolnr

mjolnr is a coding-agent harness: one actor (`src/src/runtime/`) drives a model through
runs over a workspace, gates every tool call it proposes, and records everything that
matters in an event log (`src/src/store/`), so that whoever replays the log knows what was
in flight when the process died.  These modules model that core (the run loop with its
failing appends, crashes and late mail; the policy gate; the session tree; the lease that
keeps a session to one writer) and the parts around it that have a concurrency of their
own: triggers, spawn envelopes and subagents, provider routes with breakers, quota and
handoffs, the plan workflow with its council, the working tree, and what a desktop client
shows of all that.  TLC checks them on small instances; TLAPS proves the most important
properties for all instances.

Contents: [how to run](#how-to-run) · [inventory](#inventory) · [modules](#modules) ·
[runs](#runs) · [findings](#findings) · [refuted statements](#refuted-statements) ·
[theorems](#theorems) · [not modelled](#what-is-not-modelled-and-why) · [plan](#plan)

## How to run

    tlc -workers 2 -config MCRunLoop.cfg MCRunLoop.tla       # one line per cfg below
    tlapm RunLoop_proofs.tla                                 # and every other *_proofs.tla

`PROJECT.json` lists components, runs, mutants (a plausible bug for every checked
property, which TLC must then refute), the map from definitions to source lines, hazards
and theorems.

## Inventory

### The parts that carry the logic

**Run loop** (`runtime/mod.rs`, `tool_loop.rs`, `provider_loop.rs`).  *State*: the active
run (identity, phase, turn and call counters, queued calls, the call being disposed of,
the proposal awaiting approval, the cancellation token), queued steering, the store
failure.  *Operations*: start, steer, cancel, approve or deny, change policy or model;
begin a provider turn, take its answer, reserve, propose, gate, start and settle a tool
call, exhaust a budget, finish or fail.  *Interactions*: one mailbox (`Actor::handle`)
takes commands of clients and the mail of provider tasks, tool tasks and the wall-clock
task; every handler awaits the event store several times.  *Hard*: any of those tasks, a
cancellation, a failed append or the death of the process may fall between two awaits;
answers arrive for runs that are gone.  *Right when*: intent is durable before an effect,
nothing happens twice, a terminal event is the last word on a run, every run ends.

**Session durability** (`durability.rs`).  *State*: the session held open, the lease
handle, the recovery state, the pending branch point.  *Operations*: create, resume,
release, shut down, end, resolve recovery, checkpoint, halt on a failed append, rewind,
roll back, follow a branch.  *Hard*: each is several store calls, any of which may fail
or be the last; a refused command and a failed write take the same exit
(`note_store_failure`).  *Right when*: a checkpoint hides nothing, an ended session
accepts no work, interrupted work is put to a human before any new work.

**Recovery projection** (`runtime/recovery.rs`, `core/recovery.rs`).  *State*: a tracker
over events: the open run, its pending work and whether that waits or has started.
*Operations*: one per event kind, and `finish`.  *Right when*: what it calls unapproved
did not run, and what may have run is never called unapproved.

**Policy gate** (`policy/mod.rs`, `core/policy.rs`, `core/governance.rs`,
`core/directive.rs`, `runtime/governance.rs`, `runtime/model_selection.rs`).  *State*:
mode, exact-command grants, workspace trust, the model's tier.  *Operations*: decide,
ceilings for external directives and model tiers, carry a mode forward over a restart.
*Hard*: ceilings are applied in memory and recorded differently; mode and model change
between decision and execution unless locked.  *Right when*: what runs is what the gate
permits, and no restart widens authority.

**Session tree** (`store/sqlite/queries.rs`, `durability.rs`, `session.rs`,
`recovery.rs`).  *State*: the events with optional parents, the active leaf, checkpoints
filed under the extent of the log, the transcript in memory.  *Operations*: append, move
the leaf, checkpoint, rebuild.  *Hard*: extents are counts and sequences are indices; a
checkpoint belongs to one branch but is filed under the whole log; the branch point is
pending in memory only.  *Right when*: a resume shows the branch, whole, in order, once.

**Session lease** (`store/sqlite/queries.rs`, `durability.rs`).  *State*: the row in
`session_owners`, each process's handle.  *Operations*: acquire, release, reclaim.
*Hard*: several processes, handlers of several store calls, each of which may fail.
*Right when*: a session has one writer.

**Triggers** (`triggers/scheduler.rs`, `overlap.rs`, `control.rs`, `webhook.rs`).  *State*:
the firing in flight, one queued occurrence, the failures on record.  *Operations*: an
occurrence, a settlement, a disabling and rearming, a restart.  *Hard*: occurrences race
with the end of a firing over channels of one and two places, and every store call's
failure is ignored.  *Right when*: firings do not overlap, the loop waits for nothing that
cannot come, a failing trigger stops.

**Spawn envelope** (`core/envelope.rs`, `runtime/envelope.rs`).  *State*: children and
turns a human armed, what was drawn, its clock.  *Operations*: arm, draw, age, spend,
withdraw, reconcile with a narrower policy.  *Hard*: drawn in memory before it is
recorded; five handlers narrow the policy under it.  *Right when*: what is spawned without
a prompt was armed, and nothing in flight gets wider.

**Subagents** (`runtime/subagent/`).  *State*: the orchestration task, the children with
their worktrees, their records.  *Operations*: dispatch, drive, finish, settle, cancel,
report late, verify against siblings.  *Hard*: the run may end at its deadline, the session
be left, a git call fail or an event be lost while children go on.  *Right when*: one whole
settlement per group, every child heard of, no result on a path a sibling changed.

**Routes, breakers, quota and handoffs** (`runtime/routing.rs`, `core/routing.rs`,
`runtime/continuation.rs`, `runtime/provider_loop.rs`, `runtime/model_selection.rs`).
*State*: the position on a route, a breaker per provider, the quota reserve, the intent of
the run.  *Operations*: attach, gate, skip, advance, charge, drain, land, swap.  *Hard*: the
five are written by the same handler chain, and its awaits let cancellations and steering
in.  *Right when*: who is asked is who is charged, a hard stop is final.

**Plan workflow and council** (`core/plan.rs`, `runtime/interview.rs`, `council.rs`).
*State*: the workflow folded from the active branch, the councils that deliberate beside
the run.  *Operations*: open, ask, answer, draft, revise, convene, link, synthesise, decide,
hand off.  *Hard*: a rewind moves the branch under it and a council ends whenever it ends.
*Right when*: what is shown is what replays, and a hand-off was approved.

**Working tree** (`repository/`, `workspace_files/`, `tools/edit.rs`, `runtime/mod.rs`).
*State*: file, index, HEAD, upstream, and the view the runtime publishes of them.
*Operations*: stage, commit, merge, rebase, fetch, push, save, a tool's write.  *Hard*: git
is several processes, and a terminal and a remote act between any two.  *Right when*: what a
command reports is what happened, a commit is what was approved, no writer drops an edit.

**Client bridge, desktop coordinator and frontend store** (`runtime/client_bridge/`,
`desktop/src-tauri/src/coordinator.rs`, `desktop/src/lib/runtime/client.svelte.ts`).
*State*: a watch and a bounded broadcast per runtime, what the pump has seen of them, the
channels to the frontend, the screen.  *Operations*: publish, broadcast, pump, resync,
select, ask, fold.  *Hard*: a client lags; events and snapshots come in no fixed order;
an answer may be older than the update before it.  *Right when*: no gap goes unnoticed, at
rest the screen is current.

### The other parts

| Part | State and operations | Hard behaviour | Right when |
|---|---|---|---|
| Catalog (`runtime/catalog.rs`) | connections, a refresh in flight, deferred commands | commands deferred behind a refresh | none lost, none reordered |
| Review threads (`runtime/review.rs`) | threads anchored to a digest | the diff moves under an anchor; the answer is another run | a stale anchor is reported as stale |
| Terminal (`runtime/terminal.rs`) | pty sessions, bounded screen | close races exit | a closed session emits nothing |
| Memory (`runtime/memory.rs`, `memory/`) | proposals, a consolidation in flight | single flight | a projection, never authority |
| Store backends (`store/sqlite/actor.rs`, `store/memory.rs`) | one connection thread behind a bounded queue | back-pressure | one request at a time, in order |
| Schema and wire (`store/sqlite/schema.rs`, `store/wire/`) | migrations, encodings, search | none concurrent | round trips |
| Commands, searches, path policy | effects on the workspace | digests checked before use | containment |
| Board and imported work, integrations, providers | external issues, HTTP, stream decoding | I/O | decoding |
| External agents, terminal UI, command line, context, plugins, MCP, graph | wiring, rendering, prompt assembly | I/O | none of their own |

## Modules

| Module | Models | Uses |
|---|---|---|
| `PolicyGate` | modes, tiers, ceilings, `decide` as pure functions | |
| `RecoveryTracker` | `Tracker` of `runtime/recovery.rs`, one operator per method | |
| `EffectLedger` | abstract: what the runtime promises about the effects of proposals | |
| `RunLoop` | the actor and one session's runs, policy, recovery and lifecycle | `PolicyGate`, `RecoveryTracker`; refines `EffectLedger` |
| `MCRunLoop` | TLC instances of `RunLoop` | `RunLoop` |
| `SessionTree` | the event tree, leaf, checkpoints, transcripts | |
| `SessionAuthor` | abstract: what a session promises the processes that share a machine | |
| `SessionLease` | processes that open, work in, leave and reclaim one session | refines `SessionAuthor` |
| `TriggerScheduler` | one trigger, its loop, firings and log | |
| `SpawnEnvelope` | an envelope from arming to its end, and the policy above it | `PolicyGate` |
| `Subagents` | one group of children from dispatch to settlement | |
| `ProviderRoute` | which provider a run asks next: route, breakers, quota, handoff | |
| `PlanWorkflow` | plan events on the session's branches, interview, council, synthesis | |
| `Workspace` | one working tree and everybody who writes to it | |
| `ClientView` | runtimes, their pumps, the coordinator and the frontend store | |
| `MCEnvelope`, `MCSubagents`, `MCRoute`, `MCClientView` | TLC instances | |
| `*_proofs` | theorems of the module they are named after; `SpawnEnvelope_proofs` also those of `PolicyGate` and `Subagents`, `RunLoop_proofs` those of `ProviderRoute` | |

### RunLoop

Variables are the fields they are named after: `run` is `Option<ActiveRun>`, `policy`,
`grants`, `trusted`, `steering` are in `state`, `recovery` is the actor's recovery state,
`storeFailed` is `state.store_failure`; `timer`, `streaming` and `tools` are the spawned
tasks with their undelivered mail.  `at` names the await the current handler is suspended
at; at `"mailbox"` the actor is free for the next piece of mail.  A handler with several
appends is a chain of steps through `at` (`DrivePropose` → `AutoApprove` → `StartTool` →
`RecordRefusal` → …), so failures, tasks and crashes fit between any two.

The durable log is kept as what a replay makes of it: `tail`, the tracker over the events
after the latest checkpoint; `full`, the tracker over all of them; `logPolicy`, the mode a
replay restores.  `ledger`, `authority`, `effects` and `terminals` are history.

A tool call is a member of `Call` with a tier; a proposal is `<<run, n>>` for the n-th
call reserved in that run.  `ToolEffect` may happen at any time once its task exists, also
after a cancellation or a crash: tool tasks are detached and a child process may survive.

Every command whose only effect here is to note a store failure is one action
(`ResumeWhileOpen`).  A route that advances in `BeginProviderTurn` and `ProviderEnded` may
leave any declared model tier behind it.  Not in this module: messages, usage, snapshots,
images, plan runs, spawn interception and quota (they choose between outcomes that are
all possible here), and the wording of refusals.

### EffectLedger

The promise without actor, handlers, tasks, restarts or replays: a proposal is recorded,
decided at most once, has at most one effect while it is authorised and open, is settled
once or given up by a human.  `RunLoop!EffectsAreAccountedFor` instantiates it over the
run loop's own `ledger`, `authority` and `effects`; the refinement mapping is the
identity, the content is that every step of the loop is one of its steps or a stutter.

### SessionTree

Events are numbered from 0 as in the store; a transcript is the list of sequences its
messages came from.  `branch_sequences` is the recursive query of `queries.rs` as a
recursive function, `Covers` and `tailFrom` are `branch_events_from`, `replay` is
`recovery.rs` restricted to messages and to whether a run is left open.  The live process
appends in the order of the handlers: directive, `RunStarted`, messages and tool results,
`RunFinished`, checkpoint.  `moved` and `branched` are history.

Simplified: the store does not fail here (that is `RunLoop`'s subject), the picker offers
the user's turns only, `rollback_to_checkpoint` names the extent of the latest checkpoint,
policy and plan replay are left out.  Rewinding in front of sequence 0 sets the leaf to
NULL and is therefore no move at all, in the code and in the model.

### SessionAuthor

The promise without rows, tokens, handlers, failing store calls or restarts: one author has
the session open, begins work only over a settled record, may be gone at any moment and leave
work behind, and has no successor once the session ended.  `SessionLease!PassesFromHandToHand`
instantiates it: the authors are the processes with the session open, those working the ones
with a run, and whether work is unsettled or the session ended is read off the log.  The row,
the handles and the awaits are hidden; most of the lease protocol is stutters.

### SessionLease

`owner` is the row in `session_owners`, `lease[p]` a process's handle.  A lease is a fresh
token, as `Uuid::now_v7` makes it.  The log is reduced to what matters for opening it:
whether `SessionEnded` is recorded and whether a run is in flight.  Store calls fail
wherever the code handles a failure, and a process may crash at any await.  Appends are
*not* checked against the lease, in the code and in the model: a human who reclaims the
lease of a live process lets a second writer in.  `docs/persistence.md` §5 leaves this
judgement to the human; `HumanErrs` says whether the humans of an instance get it wrong.

### TriggerScheduler

One trigger: `run_trigger` is a loop that `at` follows (`Check` the history, `Asleep` while
disabled, `select`, `Count` a failure, `Requeue`), and `TriggerLoop::tick` its `select!`
(`TakeCancel`, `TakeOccurrence`, `TakeSettlement`).  Firings are tasks of their own that
end, and then send their settlement into a channel of two (`FiringEnds`, `FiringSettles`).
A webhook fills a channel of one, a schedule's instant is missed unless the loop waits for
it.  `decide` is `overlap.rs`.  The log is what `control.rs` folds it to, and every store
call of the loop may fail, which the code ignores except in `Check`.  `Restart` is a crash
or an orderly end, and drops everything but the log.  What a firing does is a run of
`RunLoop`; here it ends, well or badly.  Names of firings are reused, so `MaxFirings`
bounds how many are alive at once, not how many there are.

### SpawnEnvelope

`envelope` is `state.envelope`; `Arm`, `Withdraw` and `SpawnUnderEnvelope` are its own
operations, `SetPolicy`, `SelectModel`, `StartRun`, `FinishRun`, `FailRun` and `Reopen` the
handlers around it that narrow the policy, age it or lose it.  `reconcile` and `floor` stand
for the calls those handlers make, and `floor` is `PolicyGate`'s ceiling with a record that
may fail.  `given` and `last` are history.  Every child of a call asks for the same policy,
and every call names routes the envelope covers.

### Subagents

One `spawn_subagent` call.  `orch` is the orchestration task (`Preflight`,
`DispatchChild`, `Collect`, `Settle`; `Cancelled`, `GraceEnds`, `ReportLate`), `child` the
child tasks, each with the run that drives it, the driver's view of that run's events, and
what became of its worktree; `mail` is what the group sends to the parent's actor, whose
session may be another one, or none, by then.  A child reads and writes one path, which is
the same for all, so that every pair of siblings can collide.  Faults are git calls and
appends that fail, and events that a driver loses.

### ProviderRoute

`position` and `breaker` are `state.route` and `state.breakers`, `reserve` is
`state.quota_reserve`, `used` the phase the session's own usage has reached against a
configured token budget.  `begin_provider_turn` is `Begin` (steering, quota, turn budget,
hard stop), `StopForQuota`, and the gate (`Send`, `SkipHop`); `try_advance_route` and
`finish_run` are operators the handlers share.  A hop is its provider; an open breaker may
have cooled down whenever it is asked; tools are one step.

### PlanWorkflow

`log`, `leaf` and `branch_parent` are the session tree, reduced to plan events and to the
messages that open a branch; `replay` folds a branch with `apply_plan_event`, which refuses
what `accepts` does not.  `plan` is `state.plan`; a handler validates against it, appends,
and folds (`record_plan_event`).  Councils are tasks beside the actor: in `MembersRound`
each member is called once, and a call is a run of a child session with as many provider
turns as the parent's limit (`max_provider_turns`).  `calls` and `spent` count the two; the
code counts neither once a council has begun.  `FinishCouncil` comes back with a review for a
plan that may have moved.  Its append may fail: the review is then dropped, nothing is noted
and nothing tries again (`lost`, history).  An identity is the sequence of the event that
brings it.

Simplified: a run that a command starts may fail to, for a reason kept elsewhere or because
its message or its marker cannot be appended (`StartFails`); the branch point is taken before
the message, and is gone when the message is not recorded.

### Workspace

Content is a set of edits; a commit is a tree and the edits that led to it, and contains
another when those do.  `at` is the step a repository command of the human has come to: git
checks (`base`), acts (`git`), is verified (`verify`), the record is appended, the view is
taken.  Beside it move the terminal, the remote and the write tools, whose task reads,
compares and writes in separate steps.  A write may fail (`SaveFails`, `ToolFails`), and then
leaves the file as it was or empty, because `std::fs::write` truncates it first; no view is
taken for it.  `minted`, `commands`, `outside`, `raced`, `did`, `unseen`, `excused` and
`faults` are bounds or history.

Simplified: one file, one upstream, one child branch; a rebase onto the upstream only; a run
is the one write it proposes, and its refusal at the gate is `RunLoop`'s.  Left out: creating
and switching branches, hunks, clones, worktrees, untracked files, refreshes that fail, a
process that dies within a write, and blocking tasks that panic.

### ClientView

`truth` is the runtime's watch, `ring` its broadcast of `EVENT_CAPACITY` with `lagged` for
what fell out of it; `pump` is `pump_updates`; `queue` is the bridge's channel and the
coordinator's, one per project, which the coordinator's own snapshots may overtake;
`call` is the frontend's call under way, `shown`, `chosen`, `bubble` and `connected` are
fields of its store.  Of a runtime's state there is whether a run is active and how much of
its text is in the transcript; of its events those that feed or empty the live bubble.
`heard`, `overtaken` and `left` are history: the last event folded, whether an older reading
was put over a newer one, and what the bubble held when its project was left.  The events
that would have emptied that are dropped, and a return to the project shows it again; where a
lock is taken (`Busy`) the first project's snapshot answers for whichever was asked for.  The
two properties say so.  Left out: opening and closing projects, and the calls that change
nothing on the screen.

## Runs

Counts are distinct states.  Each run's cfg is named in `PROJECT.json`.

| Run | Checks | Instance |
|---|---|---|
| `runloop` | `CheckpointIsOnlyAnOptimisation`, `IntentBeforeEffect`, `UnapprovedNeverRan`, `UnrecordedEffectExplained`, `TrackerAgreesWithRun`, `EffectsAreAccountedFor` (refinement), `TerminalIsFinal` | a write call under Ask, WorkspaceWrite and FullAuto, two runs of two turns and two calls; 2.2 million |
| `runloop_gate` | `GateHonoured`, `ResumeNeverWidens`, `BudgetBoundsEveryRun` (liveness) | a write, a command, a skill that needs trust and a completion, four modes, two model tiers, one run of two turns and two calls, one steering message; 1.0 million |
| `sessiontree` | `NothingResurrected`, `LinearResumesWhole`, `RewindSurvivesRestart` | six events, one of them a note; 1.2 million |
| `sessionlease` | `PassesFromHandToHand` (refinement), `OnlyTheHolderReleases` | two processes, four leases; 12 thousand |
| `triggers` | `OneFiring`, `NeverWedged`, `BrokenTriggerIsDisabled`, `QueuedFires` (liveness) | every source and overlap policy, three firings alive at once, one fault; 244 thousand |
| `envelope` | `GivenWasArmed`, `ChildrenWithinAuthority`, `NothingInFlightWidens` | two shapes, three calls, two appends that fail; 8.7 thousand |
| `subagents` | `SettledIsComplete`, `VerifiedIsFresh`, `GroupSettles`, `EveryChildIsHeardOf` (liveness) | two children, two faults; 187 thousand |
| `routing` | `ChargesWhomItAsks`, `HardStopHolds` | a route of two providers, a breaker that opens at two failures, three turns, one append that fails; 171 thousand |
| `planning` | `LiveIsReplay`, `HandoffWasApproved`, `SynthesisWasReviewed`, `ReviewIsLinked` (liveness) | six events, one question, a document of one or two sections, a council of one seat and one round, one move, runs that fail to start; 1.7 million |
| `workspace` | `CommittedIsApproved`, `SuccessIsEvidence`, `CleanFailureHadNoEffect`, `NothingLostUnraced`, `ViewFollowsOwnEffects` | two commands, two acts of others, one tool, four edits, one append or write that fails; 8.9 million |
| `clientview` | `BubbleIsRetired`, `ScreenIsCurrent`, `GapIsResynced` | two projects, one with four events and three snapshots, a broadcast of two, channels of one, one call; 3.2 million |
| `runloop_uncertain` | `UncertainEffectAsksHuman`, refuted | see [Findings](#findings) |

**Why the bounds are enough.**  A session has at most one active run, so the hazards
between runs are between a dead run and its successor: two runs.  Within a run they are
between a call and the next one, and between two provider turns: two of each, and a queue
of one or two calls.  For a write, Ask, WorkspaceWrite and FullAuto are the three ways
past the gate that the record tells apart: held for a human, allowed outright, resolved by
the policy.  The gate depends on nothing of an earlier run, so the instance with every mode
has one run.  In the tree, six events are one finished and checkpointed run, a rewind in
front of it, and the first directive on the sibling branch, with a crash anywhere; the
refuted statements are given twelve.  Two processes are all that can contend for one row;
four leases let each of them lose it and come back.

A trigger's firings meet in a slot of one, a queue of one and a channel of two: three alive
at once fill all of them.  An envelope is spent by two of the calls and expires in two turns,
so every end of it is reached in both orders.  Two children are a reader and a writer of one
path; the second fault lets a git call fail after an event was lost.  A route of two hops has
a first, a next and an end, and three turns let a probe follow a trip.  Six plan events are
interview, document, proposal, verdict and hand-off with a move in between; what a council
brings to the workflow does not depend on its seats and rounds.  Two commands and
two acts of others put an outside act into every window of one command and leave a second
command to meet its result.  A client's channels and broadcast are full at one and two, and
four events overrun them; an instance with twice the capacity and six events was checked
once as well.

**Deadlock** is checked in `sessionlease` and `envelope`.  The cfgs of `RunLoop` switch it
off because an ended session with its process gone has nothing left to do, the others
because a bound (events, commands, firings) stops the system, or because the group or the
run they are about is over.

**Fairness.**  `runloop_gate`: `WF(Loop)`, the executor polls a handler to its end;
`WF(TimerFires)`, a sleeping task wakes; `SF(BudgetExpired)`, the mailbox is a queue, so mail
is taken in its turn although the actor is busy in between.  `triggers`: `WF` of the loop's
own steps and of the end of a firing, which its wall-clock budget brings about; `SF` of
`TakeSettlement` and of the send, because `select!` picks among ready branches at random and
a channel wakes its senders in turn.  `subagents`: `WF` of each task's next step and of the
deadline and the grace; `SF(Collect)`, as above.  `planning`: `WF` of the rounds and the end
of a council: each call of a member ends by `MEMBER_TURN_TIMEOUT`, and the mail of a council
that has ended is handled.  The append of its review may fail, which `ReviewIsLinked` names as
an exception.  `routing` states a fair specification that no listed property uses.  Nothing is
assumed of humans, providers, tools, the store, git or the remote.

## Findings

One statement of the documentation is refuted by a listed run.  `UncertainEffectAsksHuman`:
a cancelled or timed-out tool ends its run without an outcome event, and the terminal event
hides that its effect may have happened.  `core/recovery.rs` says a human is asked.

## Refuted statements

These are in the modules as well, with what the code's comments or documents say of them.
TLC refutes each on the instance of the module's listed run, or on that of the cfg named.
They are not listed runs: most are arguable as a promise, and each says something to whoever
works on that code.

| Module | Statement | What happens |
|---|---|---|
| `RunLoop` | `PolicyWithinModelTier` (`MCRunLoop_tier`) | a route that advances during a run hands a full-auto session to a supervised model |
| | `UncertainMeansAuthorised` (`MCRunLoop_denied`) | a denial is two appends; a crash after the first is reported as an uncertain effect although nothing was authorised; it errs on the safe side |
| | `NoStrandedRun` (`MCRunLoop_stranded`) | a steering message that cannot be recorded leaves the run with nothing in flight; only the wall clock ends it |
| | `ReadOnlyRunsOnlyReads` (`MCRunLoop_readonly`) | loading an untrusted extension is asked about in read-only mode too, and an approval runs it |
| | `CancelReachesTheEnd` (`MCRunLoop_cancel`) | a run cancelled during a tool whose result still arrives goes on to hold the next call for a human, with its timer gone |
| `SessionTree` | `InterruptedRunIsSeen` (`MCSessionTree_hidden`) | after a rewind only the directive moves the leaf, so a crash later in that run is resumed as clean |
| | `UndecidedWorkStaysSeen` (`MCSessionTree_undecided`) | a rewind while recovery waits moves the leaf in front of the interrupted work; the next resume does not see it |
| | `RewindLandsOnParent` (`MCSessionTree_parent`) | rewinding to a branch point lands on the sequence below it, a sibling, not on its parent |
| | `TranscriptIsTheBranch` (`MCSessionTree_tools`) | a move rebuilds the transcript without tool results, a resume with them |
| | `UsableCheckpointIsWhole` (`MCSessionTree_short`) | a checkpoint written after a move holds such a transcript, and a later resume takes it for whole |
| | `DirectivesContinueTheLine` (`MCSessionTree_line`) | after following a branch, or after anything is appended while a branch point is pending, the next event continues the end of the log |
| `SessionLease` | `RefusalIsNotAFailure` (`MCSessionLease_refusal`) | a refused release, resume or reclaim leaves a store failure on a session whose store never failed, and nothing clears it while it is open |
| `TriggerScheduler` | `StartMeansNothingInFlight` | under Replace, the settlement of the cancelled firing clears the token of the one that replaced it, and the next occurrence starts beside that one |
| | `DisabledFiresNoMore` | the occurrence queued behind the failure that disables the trigger is fired by the same tick |
| | `FiringsWereDue` | the re-check of a schedule with no next instant, the listener whose port was taken and one whose scheduler ends are taken for occurrences |
| | `WebhookFiringCarriesItsBody` | the queue slot does not hold the body |
| `SpawnEnvelope` | `EnvelopeJustified` (`MCEnvelope_justified`) | an external directive's ceiling and a handoff's swap narrow full-auto to ask past the envelope |
| `Subagents` | `LateIsPersisted`, `GraceIsRecorded`, `WorkIsPreserved` | a late record goes to whatever session is open, or nowhere; one that comes within the grace is dropped; a tree whose `git status` fails is taken for clean and removed |
| `ProviderRoute` | `PositionIsLive`, `HandoffLands`, `BreachReachesAHop`, `SteeringFailureStops` | selecting a model or a handoff leaves the route behind; a hop makes a run that should land a normal one; a configured budget is breached at every hop; a run stays active with nothing under way |
| `PlanWorkflow` | `HistoryReplays` (`MCPlan_replay`) | what is recorded between a rewind and the next message goes on the line that was left, whose fold refuses it |
| | `ApprovalSurvives`, `AnswerGoesOn`, `ReviewIsSynthesized` | an approval on a frozen branch is not replayed; an answer given while a run is active has no next turn; a council that ends during a run is never synthesised |
| | `CouncilWithinSlice` (`MCPlan_slice`) | `core/council.rs` 95 speaks of a "budget for the whole council"; the slice is compared once with the calls to come, a call may take several provider turns, and none is charged |
| `ClientView` | `ClientShowsTruth`, `BubbleIsOfShown`, `ReconnectMeansAlive` | a snapshot read before there was room to send it follows a newer one; a left project's bubble stays; the last snapshot of a dead runtime counts as a connection |

**In `Workspace`** the properties name their exceptions instead.  A push whose acknowledgment
is lost is classified as a failure without effect although the upstream has it
(`CleanFailureHadNoEffect` excepts push).  A write that fails may leave the file empty
(`NothingLostUnraced`).  It, a save whose record fails, and a write of a run
that is dead by then, take no new view (`excused`).  A commit takes what a concurrent `git
add` staged after the check (`raced`).

**Read, not modelled.**  `coordinator.rs` 323–345 awaits forwarders that hold their own sender.
Two concurrent `open_project` calls for one root make two runtimes (172–216).
`pending_review_threads` are taken at the end of the first turn even when no message came
(`provider_loop.rs` 280–284), and `rewind_to` does not rebuild them.  `cleanup_orphans`
(`worktree.rs` 242) is called by tests only.  A council that was under way is gone after a
restart.

## Theorems

Proved by TLAPS for every value of the constants that satisfies the named assumption of its
module; TLC evaluates those assumptions in the runs above.

**Policy** (`SpawnEnvelope_proofs`, first part): ceilings commute, only narrow and are
idempotent; `decide` is monotone in the mode; a grant only answers a question.

**Run loop** (`RunLoop_proofs`).  The argument is a tower of invariants, each proved from
those below it:

1. `TypeOK /\ WaitInv` (theorem `TypeCorrect`).  `TypeOK` alone is not inductive: a step
   indexes the record by the active run and its proposal, so both must exist whenever a
   handler uses them (`BusyOK`); the run waits for one thing at a time (`Waits`); and
   identities are below `nextRun` (`Fresh`).
2. `LogInv`: tail and whole record replay alike; a running run is the one the record has
   open and recovery is clean; a sound idle session replays to nothing.  Gives
   `CheckpointsHideNothing`.
3. `RestartNeverWidens` is inductive with the types alone: a clamp is not in the record,
   and carrying the mode forward makes up for it.
4. `EffectInv`: every task belongs to an authorised proposal with at most that one task
   and effect; a proposal not yet reserved, or still at its gate, is idle.  Gives
   `EffectsFollowIntent` and `UnapprovedDidNotRun`.
5. `StageInv`: the ledger's entry fits where the actor is, the tasks that are out and what
   a replay would report.  Gives `RunLoopKeepsItsPromise`: `Spec` implements `EffectLedger`.
6. `EndInv /\ PendingInv`: a run with a terminal event is neither the active one nor the
   one open in the record, and a proposal between its authority and its outcome is the one
   the record holds as started.  Gives `TerminalIsTheLastWord` (no proposal of an ended run
   changes) and `EffectsAreExplained`.
7. `GateKept`: the gate's answer about a call holds from the moment it is given to the end
   of its task, because the policy is locked and a grant only turns a question into a
   permission.  Gives `RunningToolsAreGated`.
8. `RestInv`: while a run rests with nothing in flight, because a steering message could not
   be recorded, nothing is pending in the record either.  With 2, 4 and 6 it gives
   `ReplayReportsTheRun` (`TrackerAgreesWithRun`): between two handlers a replay reports
   exactly what the actor holds.
9. `ClosedInv`: an ended session runs nothing.  Gives `EndedStaysIdle`; with `LogInv`, no
   run starts on a record that is not settled (`WorkIsSettledFirst`).

**Session tree** (`SessionTree_proofs`, for logs of any length).  `branch_sequences` and
`inOrder` are recursive functions.  Facts about them are proved by induction over numbers
with a set in the place of a predicate (`LeastNumber`, from the well-foundedness of `<`,
and `NumberInduction`), which the installed provers can instantiate: a branch's sequences
are below its leaf, its order is ascending, and what a checkpoint and the events after it
give is what the whole branch gives.  `TreeInv` (parents come before children, a
checkpoint's messages ascend below its extent, the transcript ascends, a pending branch
point is the leaf) gives `BranchOnly`, `RewindHolds` and, as what ascends repeats nothing,
`SaidOnce`.  `LineInv` adds, for a session whose leaf was never moved, that
checkpoint and transcript hold every message of what they cover: `LineResumes`.

**Lease** (`SessionLease_proofs`).  `LeaseInv = Sole /\ Backed /\ Steady`: a process that
has the session open, or is on its way in or out, is alone in that; it holds the row, or
the session ended and its failed remains hold nothing; what a resume has read is still
so.  Under `~HumanErrs` this gives `ExactlyOneWriter`, `WorkIsLeased` and
`EndedNeverReopens`.  `TypeCorrect` and `RowsAreTheirHolders` need no such assumption.
`AnswerInv` adds what the author knows of the record: work that is open there is what it runs,
what it waits for a human about, or what it failed to write and is blocked by; what a resume
has read is still so; and the end leaves its author blocked or on the way out.  With it every
step is one of `SessionAuthor` or a stutter: `SessionsPassFromHandToHand`.

**Spawn envelope** (`SpawnEnvelope_proofs`, for any shapes, calls and number of failing
appends).  `EnvelopeInv`: an armed envelope was validated, its counts are within its bounds,
and they are what was given (`WellArmed`, `SpawnsWereArmed`).  A draw keeps that because the
gate compares before it draws, a narrower policy because it keeps the envelope or drops it.
`ChildrenStayWithin` and `NothingWidensInFlight` rest on it and on the two ceilings being
monotone, which are lemmas of the policy.  `EnvelopesFit` says that
no handler leaves an envelope behind that the policy it set no longer justifies, but for the
case `EnvelopeFitsPolicy` names: `set_policy` and a model's floor reconcile (`ReconciledFits`,
`FloorFits`), an external directive's ceiling and a handoff only ever lead to that case
(`CarriedFits`), and what a draw or a turn changes is not what the policy is compared with
(`SameShapeFits`).

**Subagents** (`SpawnEnvelope_proofs`, last part, where `Group` is an instance of
`Subagents`; for any number of children and faults, under `SubagentsAssumption`).
`GroupInv`: each child has a record once it is over (`ChildOK`); nothing is said of a group
before it ends (`Quiet`); but for a fault, a record collected is the child's own and a branch
that was left shows what it touched (`Sourced`); and once its settlement is in the mail or on
the transcript, every record is there and none is on its way as a late one (`Whole`).  Gives
`GroupsSettleWhole` and `VerifiedMeansFresh`.

**Trigger** (`TriggerScheduler_proofs`, for any number of firings, faults and failures).
The loop tells firings apart only by the token it holds, so it must know whose settlement it
takes.  `MailIsTheSent` says the channel holds each firing that has sent, once; with it
`FiringsDoNotOverlap` and `LoopIsNeverWedged` are inductive together.  `FailuresDisable`
needs `FailuresAreCounted`: while a failure on record is yet to be counted there may be one
more, and every other excess is paid for by a fault.

**Routes** (`RunLoop_proofs`, last part, where `Hop` is an instance of `ProviderRoute`; for
any providers, route, threshold and turn budget, under `RouteAssumption`).  The type invariant needs that a closed breaker has not reached its threshold and that a
request at the gate is within the turn budget.  `AskedIsCharged` is then inductive: session
and run move together.  `HardStopIsFinal` needs `Latched`: past hops are behind the position,
and a run that was reported over its threshold is latched until it leaves the hop, and passes
the gate only to land.  It assumes `Simple`: with a provider on the route twice, the second
hop asks it again by design.

**Plan workflow** (`PlanWorkflow_proofs`, for any bounds).  The workflow is a fold over a
branch; `FoldExists`, `ReplayAppends` and `ReplaySound` say that the recursive fold is
defined, takes one event more as one application of `apply_plan_event`, and never shows a
workflow the log does not justify.  `PlanInv`: every hand-off on record and the one shown were
approved (`Handoffs`, `Justified`), a synthesis works on the document shown, with its review
linked (`Reviewed`), councils carry documents of the log, and a closed session runs nothing.
Gives `HandoffIsApproved` and `SynthesisIsReviewed`, through rewinds and councils that end
whenever they end.  `LineInv`: until the first move the log is one line (`Straight`), and the
workflow and the councils under way agree with its replay, so that no event of theirs is
refused (`OnLine`).  Gives `PlanIsReplay`.  `InterviewInv`: on that
line an interview runs only while there is no document, and `OnLine` has every council
deliberate over the document, so one exchange excludes the others (`ExchangesTakeTurns`).
`BudgetInv`: the calls of a council are a multiple of its members, never more than its
deliberation takes, and its slice was compared with at least that before it began; what a call
takes is bounded by the limits of a run.  Gives `CouncilsAreBounded`, for the calls and for
the turns behind them.

**Working tree** (`Workspace_proofs`, for any contents and number of outside acts).
`CheckedInv`: until git has run, what a command checked still holds unless somebody else
acted.  `ReturnedInv`: once it has run, a success did what it was for, and an effect that git
did not own up to left the trace the command's own check looks for.  With `RemoteInv` they
give `CommitIsApproved`, `SuccessReached` and `CleanDidNothing`.  `SeenInv`: a change that no
view was taken after is on its way to one.  `ComparedInv`: a writer past its check was made
from the content it compared.  They give `ViewFollows` and `NothingLost`.

**Client view** (`ClientView_proofs`, for any projects, capacities and numbers of runs, events
and calls).  Each part is about `out(c)`, what is on its way to the client: the channel, and
behind it the update the pump holds.  An answer goes in front of what the pump holds, or
anywhere in the channel, so each invariant is shown to bear an insertion (`LinkedInserted`,
`RetiresInserted`, `LateInserted`).

- `GapInv`: events on their way are consecutive as far as nothing lies between them, the last
  one is the last that left the broadcast unless some were lost since, and the next follows
  the one last folded.  Gives `NoGapIsFolded`.
- `BubbleInv`: what fills the bubble is followed by something that empties it, or the run is
  still to end.  Gives `BubbleEmpties`.  The proof found what two small projects had hidden:
  the bubble of a project that was left comes back with it.
- `CurrentInv`: every snapshot under way was read from the watch (`ReadInv`, `HandInv`); one
  older than what the pump has seen is followed by a newer one, or is the last such and its
  arrival overtakes the screen (`LateInv`, `ShownInv`).  Gives `ScreenCatchesUp`; where
  `Busy` holds, `ScreenIsCurrent` promises nothing.

**Only model-checked**: the liveness properties (`BudgetBoundsEveryRun`, `QueuedFires`,
`GroupSettles`, `EveryChildIsHeardOf`, `ReviewIsLinked`), which need fairness and `ENABLED`
and stay with TLC.

The modules state more properties that hold and are in no cfg, because another one says more
or a theorem has them.  `OneWriter` and `EndedStaysClosed` (`SessionLease`) follow from
`PassesFromHandToHand`, as `SessionAuthor` has one author at most and lets nobody in after the
end; they are proved as `ExactlyOneWriter` and `EndedNeverReopens`.  Proved as well are
`WorkHoldsTheLease` (`WorkIsLeased`), `NoWorkWhileRecovering` and `EndedAcceptsNoWork`
(`RunLoop`: `WorkIsSettledFirst`, `EndedStaysIdle`), `NothingRepeated` (`SessionTree`:
`SaidOnce`), `EnvelopeFitsPolicy` (`SpawnEnvelope`: `EnvelopesFit`), `OneExchange` and
`CouncilIsBounded` (`PlanWorkflow`: `ExchangesTakeTurns`, `CouncilsAreBounded`); TLC found no
violation of them on the instances of `sessionlease`, `runloop`, `sessiontree`, `envelope`,
`planning` and of `MCPlan_slice`.  `RunEnds` (`ProviderRoute`) is a liveness property that holds and is not run.
The `TypeOK` of every module that has one is a theorem.

## What is not modelled, and why

Parts whose behaviour is I/O, rendering, encoding or path handling have no interleaving
of their own and are left to unit tests: store schema and wire format, path policy, the
bodies of commands and searches, providers, integrations, external agents, the terminal user
interface and the command line.  The store is a sequence of atomic calls, which its single
connection thread makes true.

Within the modelled parts: `fork_session`, `resume_compact` and clones of a session; a store
failure in the middle of a move; the verified resume and the new session of a handoff;
loading of the route table and the routes of children; findings, dispositions and amendments
of a council and the progress of plan steps after the hand-off; orphaned worktrees of a dead
process; tasks that panic (a child of a group, a member of a council); the resume advice that
refuses commands until a human chooses; parsing of cron expressions, definitions and requests; opening and closing projects
on the desktop; what the section of each module says it leaves out.

## Plan

In this order.

1. `SessionTree`: fork, clone and compaction, and a store failure in the middle of a move.
2. `ProviderRoute`: the verified resume and the session a handoff starts, with crashes
   between the appends; then composed with `RunLoop`'s choice of tier.
3. `Catalog`: commands deferred behind a refresh in flight; property: each is answered
   once, in order.
4. Review threads anchored to a diff that moves; terminal close against exit; single-flight
   consolidation.
5. `ClientView`: opening and closing projects, and the forwarders that outlive them.
