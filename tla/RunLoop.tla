-------------------------------- MODULE RunLoop --------------------------------
(***************************************************************************)
(* The runtime actor driving one session's runs: src/src/runtime/mod.rs,    *)
(* provider_loop.rs, tool_loop.rs and the durable seams of durability.rs.   *)
(*                                                                          *)
(* One mailbox, one handler at a time.  A handler awaits the event store    *)
(* several times, and provider tasks, tool tasks, the wall-clock timer and  *)
(* a crash can all happen between two awaits; `at` names the await the      *)
(* handler is suspended at, and "mailbox" means the actor is free for the   *)
(* next piece of mail.  Every step below makes at most one append that      *)
(* matters to recovery, and an append may fail.                             *)
(*                                                                          *)
(* Abstractions: a tool call is a member of Call with a tier; a proposal is *)
(* <<run, n>> for the n-th call reserved in that run; the durable log is    *)
(* kept as what a replay makes of it: `tail`, the recovery tracker over the *)
(* events after the latest checkpoint, and `logPolicy`, the replayed mode.  *)
(* Messages, usage, narration and snapshots are left out, as are routes,    *)
(* quota, spawn envelopes and plan runs (they only choose between outcomes  *)
(* that are all possible here) and the session tree (module SessionTree).   *)
(***************************************************************************)
EXTENDS PolicyGate, Sequences, FiniteSets

CONSTANTS
  Call,               \* the tool calls a model may propose
  NoCall,             \* no call is current
  Tier,               \* [Call -> ToolTier]
  Command,            \* calls that are run_command: exact grants apply to them
  NeedsTrust,         \* calls that always ask until the workspace is trusted
  GrantsTrust,        \* calls whose success makes the workspace trusted
  Completion,         \* calls whose success completes the run (finish_task)
  ModelTiers,         \* the governance tiers declared for the models in use
  Mode,               \* the policy modes the human of this instance selects
  MaxRuns,            \* bound: runs started over the session's life
  MaxBatch,           \* bound: calls in one provider turn
  MaxSteering,        \* bound: queued steering messages
  max_provider_turns, \* BudgetLimits
  max_tool_calls      \* BudgetLimits

ASSUME CallAssumption ==
  /\ NoCall \notin Call
  /\ Tier \in [Call -> ToolTier]
  /\ Command \subseteq {c \in Call : Tier[c] = "Execute"}
  /\ NeedsTrust \subseteq Call
  /\ GrantsTrust \subseteq NeedsTrust
  /\ Completion \subseteq Call

ASSUME LimitAssumption ==
  /\ ModelTiers \subseteq GovernanceTier /\ ModelTiers # {}
  /\ Mode \subseteq PolicyMode
  /\ MaxRuns \in Nat /\ MaxBatch \in Nat /\ MaxSteering \in Nat
  /\ max_provider_turns \in Nat /\ max_tool_calls \in Nat

NoRun == 0
NoProposal == <<0, 0>>
RunId == 1 .. MaxRuns
ProposalId == RunId \X (1 .. max_tool_calls)
runOf(p) == p[1]

INSTANCE RecoveryTracker WITH RunId <- RunId, ProposalId <- ProposalId,
                              NoRun <- NoRun, NoProposal <- NoProposal

VARIABLES
  open,        \* this process holds the session open
  ended,       \* SessionEnded, or a decision to end, is durable
  at,          \* the await the actor is suspended at
  run,         \* Option<ActiveRun>
  nextRun,     \* the next run identity
  policy,      \* state.policy
  grants,      \* state.exact_commands
  trusted,     \* state.workspace_trusted
  steering,    \* length of state.steering
  recovery,    \* the actor's RecoveryState
  storeFailed, \* state.store_failure is set
  timer,       \* per run: the budget task, or its mail
  streaming,   \* runs whose provider task has not been answered for
  tools,       \* tool tasks that have not been answered for
  tail,        \* tracker over the events after the latest checkpoint
  modelTier,   \* the declared tier of the selected model
  logPolicy,   \* policy a replay of checkpoint and tail restores
  full,        \* history: tracker over every event of the session
  ledger,      \* history: what is durable about each proposal
  authority,   \* history: the durable authority of each proposal
  effects,     \* history: how often each proposal's effect happened
  terminals    \* history: terminal events recorded for each run

session == <<open, nextRun, policy, modelTier, grants, trusted, steering,
             recovery>>
loop == <<at, run, storeFailed>>
tasks == <<timer, streaming, tools, effects>>
record == <<ended, tail, logPolicy, full, ledger, authority, terminals>>
vars == <<session, loop, tasks, record>>

-------------------------------------------------------------------------------
(* Types *)

At == {"mailbox", "turn", "drive", "auto", "start", "settle",
       "finish", "exhaust", "fail"}

RunPhase == {"Provider", "Approval", "Tool"}

\* The fields of ActiveRun the control depends on.  `held` is
\* awaiting_approval, `proposal` and `call` the call being disposed of.
ActiveRun ==
  [id : RunId \union {NoRun}, phase : RunPhase, provider_turns : Nat,
   tool_calls : Nat, cancelled : BOOLEAN, pending_tools : Seq(Call),
   held : BOOLEAN, proposal : ProposalId \union {NoProposal},
   call : Call \union {NoCall}]

NoActiveRun ==
  [id |-> NoRun, phase |-> "Provider", provider_turns |-> 0, tool_calls |-> 0,
   cancelled |-> FALSE, pending_tools |-> <<>>, held |-> FALSE,
   proposal |-> NoProposal, call |-> NoCall]

\* The active run once the call it was disposing of is settled or handed over.
Disposed == [run EXCEPT !.call = NoCall, !.proposal = NoProposal]

\* A spawned tool task: `effected` once its side effect has happened.
ToolTask == [proposal : ProposalId, call : Call, effected : BOOLEAN]

LedgerEntry == {"none", "intended", "gated", "authorised", "denied", "settled",
                "abandoned"}
AuthorityKind == {"none", "policy", "human", "auto"}

TypeOK ==
  /\ open \in BOOLEAN /\ ended \in BOOLEAN
  /\ at \in At
  /\ run \in ActiveRun
  /\ nextRun \in Nat
  /\ policy \in PolicyMode /\ logPolicy \in PolicyMode
  /\ modelTier \in ModelTiers
  /\ grants \subseteq Command
  /\ trusted \in BOOLEAN
  /\ steering \in Nat
  /\ recovery \in RecoveryState
  /\ storeFailed \in BOOLEAN
  /\ timer \in [RunId -> {"off", "armed", "mail"}]
  /\ streaming \subseteq RunId
  /\ tools \subseteq ToolTask
  /\ tail \in Tracker /\ full \in Tracker
  /\ ledger \in [ProposalId -> LedgerEntry]
  /\ authority \in [ProposalId -> AuthorityKind]
  /\ effects \in [ProposalId -> Nat]
  /\ terminals \in [RunId -> Nat]

-------------------------------------------------------------------------------
(* A session freshly created at the default policy. *)
Init ==
  /\ open = TRUE /\ ended = FALSE
  /\ at = "mailbox" /\ run = NoActiveRun /\ nextRun = 1
  /\ policy = "Ask" /\ logPolicy = "Ask" /\ modelTier \in ModelTiers
  /\ grants = {} /\ trusted = FALSE /\ steering = 0
  /\ recovery = "Clean" /\ storeFailed = FALSE
  /\ timer = [r \in RunId |-> "off"]
  /\ streaming = {} /\ tools = {}
  /\ tail = EmptyTracker /\ full = EmptyTracker
  /\ ledger = [p \in ProposalId |-> "none"]
  /\ authority = [p \in ProposalId |-> "none"]
  /\ effects = [p \in ProposalId |-> 0]
  /\ terminals = [r \in RunId |-> 0]

-------------------------------------------------------------------------------
(* Shared parts of handlers *)

Free == open /\ at = "mailbox"
Running == run.id # NoRun

\* blocked(): no autonomous work on a record that may be unsound or unresolved.  A
\* pending resume advice refuses more commands still, and is left out.
Blocked_OnlyStore == storeFailed
Blocked_OnlyRecovery == recovery # "Clean"
Blocked == storeFailed \/ recovery # "Clean"

\* The run-id guard of mail from tasks: ignored unless its run is the active one.
addressed_Any(r) == TRUE
addressed(r) == run.id = r

\* set_policy and select_model are refused while a run is active.
PolicyLocked_Never == FALSE
PolicyLocked == Running

\* The wall-clock task of a new run.
arm_Never(r) == timer
arm(r) == [timer EXCEPT ![r] = "armed"]

\* Cancelling a run's token drops its budget task, but not mail already sent.
disarm(r) == [timer EXCEPT ![r] = IF @ = "armed" THEN "off" ELSE @]

\* halt_for_store: the append failed; drop the run, record no terminal event.
HaltForStore ==
  /\ run' = NoActiveRun /\ at' = "mailbox" /\ storeFailed' = TRUE
  /\ timer' = disarm(run.id)
  /\ UNCHANGED <<session, record, effects>>

\* note_store_failure: work that needs a sound record is refused from here on.
NoteStoreFailure == storeFailed' = TRUE

\* checkpoint() refuses a session that is not settled and durable.
CanCheckpoint_Unsettled == ~storeFailed
CanCheckpoint == ~Running /\ recovery = "Clean" /\ ~storeFailed

\* The proposal a replay would report as pending, marked as given up.
Abandon == [p \in ProposalId |-> IF tail.stage # "none" /\ tail.proposal = p
                                 THEN "abandoned" ELSE ledger[p]]

\* What a process loses when it closes, dies or leaves the session.  `trusted`
\* and `modelTier` stay: each changes together with the event a replay derives
\* it from.
LetGo ==
  /\ open' = FALSE /\ at' = "mailbox" /\ run' = NoActiveRun
  /\ policy' = "Ask" /\ grants' = {} /\ steering' = 0
  /\ recovery' = "Clean" /\ storeFailed' = FALSE
  /\ timer' = [r \in RunId |-> "off"] /\ streaming' = {}
  /\ UNCHANGED <<nextRun, modelTier, trusted, tools, effects>>

-------------------------------------------------------------------------------
(* Commands *)

\* start_run's two ceilings, each durable before it is applied.  PolicyClamped
\* is narration to a replay: only PolicyChanged moves logPolicy.
NarrowPolicy(external, okCap, okClamp) ==
  LET capped == policy_ceiling(external, policy)
      asked  == IF okCap THEN capped ELSE policy
  IN  /\ policy' = IF okClamp THEN clamp(modelTier, asked) ELSE asked
      /\ logPolicy' = IF asked # policy THEN asked ELSE logPolicy

\* Some append of the two ceilings was needed and failed.
NarrowingFails(external, okCap, okClamp) ==
  LET capped == policy_ceiling(external, policy)
      asked  == IF okCap THEN capped ELSE policy
  IN  capped # asked \/ (clamp(modelTier, asked) # asked /\ ~okClamp)

\* start_run: the ceilings apply even when the session is blocked; the marker
\* is durable before the run exists.
StartRun(external) ==
  /\ Free /\ ~Running /\ nextRun \in RunId
  /\ \E okCap, okClamp, okMarker \in BOOLEAN :
       LET blocked == Blocked \/ NarrowingFails(external, okCap, okClamp)
       IN  /\ NarrowPolicy(external, okCap, okClamp)
           /\ IF blocked \/ ~okMarker
              THEN /\ storeFailed' = (\/ storeFailed
                                      \/ NarrowingFails(external, okCap, okClamp)
                                      \/ ~blocked)
                   /\ UNCHANGED <<at, run, nextRun, timer, tail, full>>
              ELSE /\ run' = [NoActiveRun EXCEPT !.id = nextRun]
                   /\ at' = "turn" /\ nextRun' = nextRun + 1
                   /\ timer' = arm(nextRun)
                   /\ tail' = open_run(tail, nextRun)
                   /\ full' = open_run(full, nextRun)
                   /\ UNCHANGED storeFailed
  /\ UNCHANGED <<open, modelTier, grants, trusted, steering, recovery, streaming,
                 tools, effects, ended, ledger, authority, terminals>>

\* QueueSteeringMessage with a run in flight (without one it is a StartRun).
QueueSteering ==
  /\ Free /\ Running /\ steering < MaxSteering
  /\ steering' = steering + 1
  /\ UNCHANGED <<open, nextRun, policy, modelTier, grants, trusted, recovery, loop,
                 tasks, record>>

\* cancel_run: the token is only a request, except to a run that waits on a human.
CancelRun ==
  /\ Free /\ Running
  /\ run' = [run EXCEPT !.cancelled = TRUE]
  /\ timer' = disarm(run.id)
  /\ at' = IF run.phase = "Approval" THEN "finish" ELSE "mailbox"
  /\ UNCHANGED <<session, storeFailed, streaming, tools, effects, record>>

\* What follows a decision, and the exact-command grant it may leave behind.
afterDecision_Start(decision) == "start"
afterDecision(decision) == IF decision = "Deny" THEN "settle" ELSE "start"

granted_Any(decision, call) ==
  IF decision = "ApproveExactForSession" THEN {call} ELSE {}
granted(decision, call) ==
  IF decision = "ApproveExactForSession" THEN {call} \intersect Command ELSE {}

\* resolve_approval: the held proposal is taken before anything is recorded.
ResolveApproval(p, decision) ==
  /\ Free /\ Running /\ run.held /\ run.proposal = p
  /\ UNCHANGED <<streaming, tools>>
  /\ \/ HaltForStore
     \/ /\ run' = [run EXCEPT !.held = FALSE]
        /\ at' = afterDecision(decision)
        /\ grants' = grants \union granted(decision, run.call)
        /\ tail' = resolve_approval(tail, run.id, p, decision # "Deny")
        /\ full' = resolve_approval(full, run.id, p, decision # "Deny")
        /\ ledger' = [ledger EXCEPT ![p] = IF decision = "Deny" THEN "denied"
                                           ELSE "authorised"]
        /\ authority' = [authority EXCEPT ![p] = IF decision = "Deny" THEN @
                                                 ELSE "human"]
        /\ UNCHANGED <<open, nextRun, policy, modelTier, trusted, steering, recovery,
                       storeFailed, timer, effects, ended, logPolicy, terminals>>

\* set_policy: refused during a run.
SetPolicy(mode) ==
  /\ Free /\ ~PolicyLocked
  /\ \/ policy' = mode /\ logPolicy' = mode /\ UNCHANGED storeFailed
     \/ NoteStoreFailure /\ UNCHANGED <<policy, logPolicy>>
  /\ UNCHANGED <<open, nextRun, modelTier, grants, trusted, steering, recovery, at,
                 run, tasks, ended, tail, full, ledger, authority, terminals>>

\* select_model: refused during a run; the switch is durable, then the incoming
\* model's floor is applied at once.
SelectModel(tier) ==
  /\ Free /\ ~PolicyLocked
  /\ \/ NoteStoreFailure /\ UNCHANGED <<policy, modelTier>>
     \/ /\ modelTier' = tier
        /\ \/ policy' = clamp(tier, policy) /\ UNCHANGED storeFailed
           \/ /\ clamp(tier, policy) # policy /\ NoteStoreFailure
              /\ UNCHANGED policy
  /\ UNCHANGED <<open, nextRun, grants, trusted, steering, recovery, at, run, tasks,
                 record>>

\* select_model during a run: the refusal is recorded, which changes nothing
\* here, or cannot be, which halts the run.
RefuseModelSwitch ==
  /\ Free /\ PolicyLocked
  /\ HaltForStore
  /\ UNCHANGED <<streaming, tools>>

-------------------------------------------------------------------------------
(* Session lifecycle *)

\* end_session once its guards hold: SessionEnded, the row, a last checkpoint
\* and the lease.  A failure past the first leaves the session in memory.
EndSessionSteps ==
  /\ ended' = TRUE
  /\ tail' = clear(tail) /\ full' = clear(full)
  /\ ledger' = Abandon
  /\ UNCHANGED <<authority, terminals>>
  /\ \/ CanCheckpoint /\ LetGo /\ logPolicy' = policy
     \/ /\ NoteStoreFailure /\ UNCHANGED <<session, at, run, tasks>>
        /\ UNCHANGED logPolicy \/ (CanCheckpoint /\ logPolicy' = policy)

EndSession ==
  /\ Free /\ ~Running
  /\ \/ EndSessionSteps
     \/ NoteStoreFailure /\ UNCHANGED <<session, at, run, tasks, record>>

\* resolve_recovery: the decision is durable, the work is never re-run.
ResolveRecovery ==
  /\ Free /\ recovery # "Clean"
  /\ \/ /\ recovery' = "Clean"
        /\ tail' = clear(tail) /\ full' = clear(full)
        /\ ledger' = Abandon
        /\ UNCHANGED <<ended, logPolicy, authority, terminals, storeFailed>>
     \/ NoteStoreFailure /\ UNCHANGED <<recovery, record>>
  /\ UNCHANGED <<open, nextRun, policy, modelTier, grants, trusted, steering, at, run,
                 tasks>>

\* EndSession as a recovery decision: the resolution alone already ends the
\* session for a replay; end_session then runs over a clean recovery state.
ResolveRecoveryByEnding ==
  /\ Free /\ recovery # "Clean"
  /\ ended' = TRUE
  /\ tail' = clear(tail) /\ full' = clear(full)
  /\ ledger' = Abandon
  /\ UNCHANGED <<authority, terminals>>
  /\ \/ ~storeFailed /\ LetGo /\ logPolicy' = policy
     \/ /\ recovery' = "Clean" /\ NoteStoreFailure
        /\ UNCHANGED logPolicy \/ (~storeFailed /\ logPolicy' = policy)
        /\ UNCHANGED <<open, nextRun, policy, modelTier, grants, trusted, steering, at,
                       run, tasks>>

\* release_session: a checkpoint first, and a refusal is a store failure too.  The
\* release of the lease may fail after the checkpoint.
ReleaseSession ==
  /\ Free
  /\ \/ CanCheckpoint /\ LetGo /\ tail' = EmptyTracker /\ logPolicy' = policy
     \/ /\ NoteStoreFailure /\ UNCHANGED <<session, at, run, tasks>>
        /\ \/ UNCHANGED <<tail, logPolicy>>
           \/ CanCheckpoint /\ tail' = EmptyTracker /\ logPolicy' = policy
  /\ UNCHANGED <<ended, full, ledger, authority, terminals>>

\* shutdown: an unsettled session is closed without a checkpoint over it.
Shutdown ==
  /\ Free /\ LetGo
  /\ IF CanCheckpoint
     THEN \/ tail' = EmptyTracker /\ logPolicy' = policy
          \/ UNCHANGED <<tail, logPolicy>>
     ELSE UNCHANGED <<tail, logPolicy>>
  /\ UNCHANGED <<ended, full, ledger, authority, terminals>>

\* The process dies between any two awaits.  A tool's child process may live on.
Crash == open /\ LetGo /\ UNCHANGED record

\* resume_session refuses a session whose row or replay says it ended.
Resumable_Any == TRUE
Resumable == ~ended

\* resume_session: checkpoint plus tail, narrowed, with the interrupted work
\* named.
Resume ==
  /\ ~open /\ Resumable
  /\ open' = TRUE
  /\ policy' = carried_forward(logPolicy)
  /\ recovery' = finish(tail)
  /\ \/ UNCHANGED storeFailed
     \/ finish(tail) # "Clean" /\ NoteStoreFailure
  /\ UNCHANGED <<nextRun, modelTier, grants, trusted, steering, at, run, tasks,
                 record>>

\* resume_session with a session open is refused, as a store failure; so is
\* every other command whose refusal or failure is only noted, run or no run.
ResumeWhileOpen ==
  /\ Free /\ NoteStoreFailure
  /\ UNCHANGED <<session, at, run, tasks, record>>

-------------------------------------------------------------------------------
(* The loop: one step per await of the handler that is running *)

\* Most steps of the loop leave the session and its narration alone.
LoopFrame == UNCHANGED <<session, ended, logPolicy, terminals>>

\* begin_provider_turn: steering lands first, and a failed append leaves the run
\* in place with nothing in flight.  Then the turn budget, the breaker of the
\* current hop, which may advance the route to another model, and the request.
BeginProviderTurn ==
  /\ at = "turn" /\ UNCHANGED tools
  /\ \/ HaltForStore /\ UNCHANGED streaming
     \/ /\ steering > 0 /\ NoteStoreFailure
        /\ at' = "mailbox" /\ steering' \in 0 .. (steering - 1)
        /\ UNCHANGED <<open, nextRun, policy, modelTier, grants, trusted, recovery,
                       run, timer, streaming, effects, record>>
     \/ /\ steering' = 0
        /\ IF run.provider_turns >= max_provider_turns
           THEN at' = "exhaust" /\ UNCHANGED <<modelTier, run, streaming>>
           ELSE \/ /\ at' = "fail"    \* no hop, provider or readable image left
                   /\ UNCHANGED <<modelTier, run, streaming>>
                \/ /\ at' = "mailbox" /\ modelTier' \in ModelTiers
                   /\ run' = [run EXCEPT !.provider_turns = @ + 1,
                                         !.phase = "Provider"]
                   /\ streaming' = streaming \union {run.id}
        /\ UNCHANGED <<open, nextRun, policy, grants, trusted, recovery, storeFailed,
                       timer, effects, record>>

\* gate_decision: untrusted content asks whatever else is true, then the gate.
gate_decision(call) ==
  IF call \in NeedsTrust /\ ~trusted THEN "Ask"
  ELSE decide(policy, Tier[call], call \in grants)

\* A full-auto resolution is a gate of its own, resolved by the policy.
auto_approval(call) ==
  /\ policy = "FullAuto" /\ gate_decision(call) = "Allow" /\ Tier[call] # "Read"

\* drive_tools: the queue is empty, so the next turn begins.
DriveDone ==
  /\ at = "drive" /\ run.pending_tools = <<>>
  /\ at' = "turn"
  /\ UNCHANGED <<run, storeFailed, tail, full, ledger, authority, tasks>>
  /\ LoopFrame

\* reserve_tool_call and prepare_tool: over budget, or refused before a proposal.
DriveRefused ==
  /\ at = "drive" /\ run.pending_tools # <<>>
  /\ IF run.tool_calls >= max_tool_calls
     THEN /\ at' = "exhaust"
          /\ run' = [run EXCEPT !.pending_tools = Tail(@)]
     ELSE /\ at' = "settle"
          /\ run' = [run EXCEPT !.pending_tools = Tail(@),
                                !.tool_calls = @ + 1,
                                !.call = Head(run.pending_tools),
                                !.proposal = <<run.id, run.tool_calls + 1>>]
  /\ UNCHANGED <<storeFailed, tail, full, ledger, authority, tasks>>
  /\ LoopFrame

\* dispose_proposal: ToolProposed is durable before anything the call may do.
DrivePropose ==
  /\ at = "drive" /\ run.pending_tools # <<>>
  /\ run.tool_calls < max_tool_calls
  /\ LET call  == Head(run.pending_tools)
         p     == <<run.id, run.tool_calls + 1>>
         gate  == gate_decision(call)
         auto  == auto_approval(call)
         gated == gate = "Ask" \/ auto
     IN \/ /\ HaltForStore /\ UNCHANGED <<streaming, tools>>
        \/ /\ run' = [run EXCEPT !.pending_tools = Tail(@), !.tool_calls = @ + 1,
                        !.call = call, !.proposal = p,
                        !.held = (gate = "Ask"),
                        !.phase = IF gate = "Ask" THEN "Approval" ELSE @]
           /\ at' = CASE gate = "Deny"           -> "settle"
                      [] gate = "Ask"            -> "mailbox"
                      [] gate = "Allow" /\ auto  -> "auto"
                      [] gate = "Allow" /\ ~auto -> "start"
           /\ tail' = propose(tail, run.id, p, gated)
           /\ full' = propose(full, run.id, p, gated)
           /\ ledger' = [ledger EXCEPT ![p] = IF gated THEN "gated" ELSE "intended"]
           /\ authority' = [authority EXCEPT ![p] =
                              IF gate = "Allow" /\ ~auto THEN "policy" ELSE @]
           /\ UNCHANGED <<storeFailed, tasks>>
           /\ LoopFrame

\* ApprovalResolved { AutoByPolicy }.
AutoApprove ==
  /\ at = "auto"
  /\ \/ HaltForStore /\ UNCHANGED <<streaming, tools>>
     \/ /\ at' = "start"
        /\ tail' = resolve_approval(tail, run.id, run.proposal, TRUE)
        /\ full' = resolve_approval(full, run.id, run.proposal, TRUE)
        /\ ledger' = [ledger EXCEPT ![run.proposal] = "authorised"]
        /\ authority' = [authority EXCEPT ![run.proposal] = "auto"]
        /\ UNCHANGED <<run, storeFailed, tasks>>
        /\ LoopFrame

\* start_tool: a synchronous refusal, or a task that runs on its own.
StartTool ==
  /\ at = "start"
  /\ \/ at' = "settle" /\ UNCHANGED <<run, tools>>
     \/ /\ at' = "mailbox"
        /\ run' = [Disposed EXCEPT !.phase = "Tool"]
        /\ tools' = tools \union {[proposal |-> run.proposal, call |-> run.call,
                                   effected |-> FALSE]}
  /\ UNCHANGED <<storeFailed, timer, streaming, effects, tail, full, ledger,
                 authority>>
  /\ LoopFrame

\* record_tool_result for a refusal: the outcome event, then the next call.
RecordRefusal ==
  /\ at = "settle"
  /\ \/ HaltForStore /\ UNCHANGED <<streaming, tools>>
     \/ /\ at' = "drive" /\ run' = Disposed
        /\ tail' = settle(tail, run.id) /\ full' = settle(full, run.id)
        /\ ledger' = [ledger EXCEPT ![run.proposal] = "settled"]
        /\ UNCHANGED <<storeFailed, tasks, authority>>
        /\ LoopFrame

\* exhaust_budget: BudgetExhausted, which a replay passes over, then fail_run.
ExhaustBudget ==
  /\ at = "exhaust"
  /\ \/ HaltForStore /\ UNCHANGED <<streaming, tools>>
     \/ /\ at' = "fail"
        /\ run' = [run EXCEPT !.cancelled = TRUE]
        /\ timer' = disarm(run.id)
        /\ UNCHANGED <<storeFailed, streaming, tools, effects, tail, full, ledger,
                       authority>>
        /\ LoopFrame

\* finish_run and fail_run: the terminal event, then the checkpoint, never the
\* other way round.  A checkpoint that is refused or fails is a store failure.
EndRun ==
  /\ at \in {"finish", "fail"}
  /\ UNCHANGED <<streaming, tools>>
  /\ \/ HaltForStore
     \/ /\ run' = NoActiveRun /\ at' = "mailbox" /\ timer' = disarm(run.id)
        /\ terminals' = [terminals EXCEPT ![run.id] = @ + 1]
        /\ full' = close_run(full, run.id)
        /\ \/ /\ recovery = "Clean" /\ ~storeFailed
              /\ tail' = EmptyTracker /\ logPolicy' = policy
              /\ UNCHANGED storeFailed
           \/ /\ NoteStoreFailure
              /\ tail' = close_run(tail, run.id)
              /\ UNCHANGED logPolicy
        /\ UNCHANGED <<session, effects, ended, ledger, authority>>

-------------------------------------------------------------------------------
(* Provider tasks, tool tasks and the wall clock *)

\* What one completed turn may propose.
Batch == UNION {[1 .. n -> Call] : n \in 1 .. MaxBatch}

\* handle_provider_turn_ended: ignored from a dead run; the message is durable
\* first; then tool calls, an answer, a cancelled stream, another hop or an error.
ProviderEnded(r) ==
  /\ Free /\ r \in streaming
  /\ streaming' = streaming \ {r}
  /\ UNCHANGED tools
  /\ IF ~addressed(r)
     THEN UNCHANGED <<loop, timer, effects, tail, full, ledger, authority>> /\ LoopFrame
     ELSE \/ HaltForStore
          \/ /\ \/ /\ at' = "drive"
                   /\ \E calls \in Batch :
                        run' = [run EXCEPT !.pending_tools = @ \o calls]
                \/ at' \in {"finish", "fail", "turn"} /\ UNCHANGED run
             /\ IF at' = "turn" THEN modelTier' \in ModelTiers
                               ELSE UNCHANGED modelTier
             /\ UNCHANGED <<open, nextRun, policy, grants, trusted, steering,
                            recovery>>
             /\ UNCHANGED <<storeFailed, timer, effects, record>>

\* handle_provider_event: a usage or quota record that cannot be written halts.
ProviderRecordFails(r) ==
  /\ Free /\ r \in streaming /\ addressed(r)
  /\ HaltForStore
  /\ UNCHANGED <<streaming, tools>>

\* The side effect of a tool task, at any time once it is spawned: the task
\* does not see the actor, a cancelled token or a crash of the process.
ToolEffect(t) ==
  /\ t \in tools /\ ~t.effected
  /\ tools' = (tools \ {t}) \union {[t EXCEPT !.effected = TRUE]}
  /\ effects' = [effects EXCEPT ![t.proposal] = @ + 1]
  /\ UNCHANGED <<session, loop, timer, streaming, record>>

\* handle_tool_ended: ignored from a dead run; a result or an error is durable
\* before the loop goes on; a cancelled tool ends the run with no outcome event.
ToolEnded(t) ==
  /\ Free /\ t \in tools
  /\ tools' = tools \ {t}
  /\ UNCHANGED streaming
  /\ IF ~addressed(runOf(t.proposal))
     THEN UNCHANGED <<loop, timer, effects, tail, full, ledger, authority>> /\ LoopFrame
     ELSE \/ HaltForStore
          \/ /\ run.cancelled
             /\ at' = "finish"
             /\ UNCHANGED <<tail, full, ledger, session, storeFailed>>
             /\ UNCHANGED <<run, timer, effects, ended, logPolicy, authority,
                            terminals>>
          \/ /\ \/ /\ t.effected    \* ToolCompleted
                   /\ at' = IF t.call \in Completion THEN "finish" ELSE "drive"
                   /\ trusted' = (trusted \/ t.call \in GrantsTrust)
                \/ at' = "drive" /\ UNCHANGED trusted    \* ToolFailed
             /\ tail' = settle(tail, run.id) /\ full' = settle(full, run.id)
             /\ ledger' = [ledger EXCEPT ![t.proposal] = "settled"]
             /\ UNCHANGED <<open, nextRun, policy, modelTier, grants, steering,
                            recovery>>
             /\ UNCHANGED <<run, storeFailed, timer, effects, ended, logPolicy,
                            authority, terminals>>

\* The wall-clock task sends its mail unless the token was cancelled first.
TimerFires(r) ==
  /\ timer[r] = "armed"
  /\ timer' = [timer EXCEPT ![r] = "mail"]
  /\ UNCHANGED <<session, loop, streaming, tools, effects, record>>

\* Mail::BudgetExpired: for the run it was armed for, or for nobody.
BudgetExpired(r) ==
  /\ Free /\ timer[r] = "mail"
  /\ timer' = [timer EXCEPT ![r] = "off"]
  /\ IF addressed(r)
     THEN at' = "exhaust" /\ run' = [run EXCEPT !.cancelled = TRUE]
     ELSE UNCHANGED <<at, run>>
  /\ UNCHANGED <<session, storeFailed, streaming, tools, effects, record>>

-------------------------------------------------------------------------------
ApprovalDecision == {"Deny", "ApproveOnce", "ApproveExactForSession"}

Human ==
  \/ \E external \in BOOLEAN : StartRun(external)
  \/ QueueSteering
  \/ CancelRun
  \/ \E p \in ProposalId, d \in ApprovalDecision : ResolveApproval(p, d)
  \/ \E mode \in Mode : SetPolicy(mode)
  \/ \E tier \in ModelTiers : SelectModel(tier)
  \/ RefuseModelSwitch
  \/ EndSession \/ ResolveRecovery \/ ResolveRecoveryByEnding
  \/ ReleaseSession \/ Shutdown \/ Resume \/ ResumeWhileOpen

Loop ==
  \/ BeginProviderTurn \/ DriveDone \/ DriveRefused \/ DrivePropose
  \/ AutoApprove \/ StartTool \/ RecordRefusal \/ ExhaustBudget \/ EndRun

Mail ==
  \/ \E r \in RunId : ProviderEnded(r) \/ ProviderRecordFails(r) \/ BudgetExpired(r)
  \/ \E t \in tools : ToolEnded(t)

Environment ==
  \/ \E t \in tools : ToolEffect(t)
  \/ \E r \in RunId : TimerFires(r)
  \/ Crash

Next == Human \/ Loop \/ Mail \/ Environment

Spec == Init /\ [][Next]_vars

\* The executor polls a handler to its end, timers fire, and the mailbox is a
\* queue: mail that stays undelivered is taken in its turn (strong fairness,
\* because the actor is busy in between).  Nothing is assumed of humans, of
\* providers or tools that never answer, or of the store.
Fairness ==
  /\ WF_vars(Loop)
  /\ \A r \in RunId : WF_vars(TimerFires(r)) /\ SF_vars(BudgetExpired(r))

FairSpec == Spec /\ Fairness

-------------------------------------------------------------------------------
(* Properties *)

InFlight == {t \in tools : runOf(t.proposal) = run.id}

(***************************************************************************)
(* Whenever the actor could be interrupted between two handlers, what a     *)
(* replay of checkpoint and tail would report is what the actor holds: the  *)
(* open run, its held proposal waiting, its running tool started, and       *)
(* nothing at all when a sound session is idle (halt_for_store,             *)
(* resolve_approval, drive_tools, finish_run against recovery.rs).          *)
(***************************************************************************)
TrackerAgreesWithRun ==
  open /\ at = "mailbox" =>
    IF Running
    THEN /\ tail.run = run.id
         /\ run.held => tail.stage = "awaiting" /\ tail.proposal = run.proposal
         /\ \A t \in InFlight : tail.stage = "started" /\ tail.proposal = t.proposal
         /\ ~run.held /\ InFlight = {} => tail.stage = "none"
    ELSE recovery = "Clean" /\ ~storeFailed => tail = EmptyTracker

(***************************************************************************)
(* A checkpoint never hides interrupted work: replaying the tail after the  *)
(* latest checkpoint finds the same open run and pending work as replaying  *)
(* the whole session (docs/persistence.md section 7, finish_run, shutdown). *)
(***************************************************************************)
CheckpointIsOnlyAnOptimisation == tail = full

(***************************************************************************)
(* Intent before effect, and never twice: an effect that happened belongs   *)
(* to a proposal that was durably authorised, and it happened once, across  *)
(* failed appends, crashes and resumes (tool_loop.rs, AGENTS.md 1.4).       *)
(***************************************************************************)
IntentBeforeEffect ==
  \A p \in ProposalId : effects[p] > 0 =>
    /\ effects[p] = 1
    /\ authority[p] # "none"
    /\ ledger[p] \notin {"none", "gated", "denied"}

(***************************************************************************)
(* The whole of it, as a refinement: run by run, with its handlers, tasks,  *)
(* failed appends, crashes and resumes, the loop takes every proposal       *)
(* through the life EffectLedger promises, one step of one proposal at a    *)
(* time, and no late answer, second decision or resume takes it back.       *)
(***************************************************************************)
Promise == INSTANCE EffectLedger WITH Proposal <- ProposalId
EffectsAreAccountedFor == Promise!Spec

(***************************************************************************)
(* What recovery calls an unapproved proposal provably did not run: no      *)
(* effect happened and no task that could still cause it exists             *)
(* (core/recovery.rs, InterruptedKind::ProposalUnapproved).                 *)
(***************************************************************************)
UnapprovedNeverRan ==
  tail.stage = "awaiting" =>
    /\ effects[tail.proposal] = 0
    /\ \A t \in tools : t.proposal # tail.proposal

(***************************************************************************)
(* An effect whose outcome was never recorded is accounted for: a replay    *)
(* would report it as uncertain, or a human gave it up, or its run reached  *)
(* a terminal event (resume, ResolveRecovery, cancellation, budget expiry). *)
(***************************************************************************)
UnrecordedEffectExplained ==
  \A p \in ProposalId :
    effects[p] > 0 /\ ledger[p] \notin {"settled", "abandoned"} =>
      \/ tail.stage = "started" /\ tail.proposal = p
      \/ terminals[runOf(p)] > 0

(***************************************************************************)
(* What is running now is what the policy in force now permits: the gate    *)
(* does not deny it, and a call the gate asks about has a human's answer.   *)
(* The policy is locked while a run is active (set_policy, start_run).      *)
(***************************************************************************)
GateHonoured ==
  \A t \in InFlight :
    /\ gate_decision(t.call) # "Deny"
    /\ gate_decision(t.call) = "Ask" => authority[t.proposal] = "human"

(***************************************************************************)
(* No detour through a crash, a shutdown or a release gains authority: the  *)
(* policy a resume would restore from the record is never wider than the    *)
(* one in force, although a clamped policy is not replayed                  *)
(* (PolicyMode::carried_forward, apply_governance_floor, recovery.rs).      *)
(***************************************************************************)
ResumeNeverWidens ==
  open => width(carried_forward(logPolicy)) <= width(policy)

(***************************************************************************)
(* A session that a replay finds ended has no run, and this process will    *)
(* not start one even when a later step of ending it failed (end_session).  *)
(***************************************************************************)
EndedAcceptsNoWork == ended => ~Running /\ (open => Blocked)

(***************************************************************************)
(* A terminal event is the last word on a run: no second one follows, and   *)
(* late mail of the dead run changes nothing recorded about its proposals   *)
(* (the run-id guards of tool_loop.rs and provider_loop.rs; the timer, a    *)
(* cancellation, provider and tool answers race for the end of a run).      *)
(***************************************************************************)
TerminalIsFinal ==
  [][\A p \in ProposalId :
       terminals[runOf(p)] > 0 =>
         /\ ledger'[p] = ledger[p] /\ authority'[p] = authority[p]
         /\ terminals'[runOf(p)] = terminals[runOf(p)]]_vars

(***************************************************************************)
(* No provider request and no tool task starts while interrupted work waits *)
(* for a human or once the session ended, and never for a run whose start   *)
(* is not in the record (docs/persistence.md section 7, blocked).           *)
(***************************************************************************)
NoWorkWhileRecovering ==
  [][\/ streaming' \ streaming # {}
     \/ \E t \in tools' : \A u \in tools : u.proposal # t.proposal
     => recovery = "Clean" /\ ~ended /\ open /\ tail.run = run.id]_vars

(***************************************************************************)
(* Every run ends or is cancelled within its wall-clock budget, whatever    *)
(* providers, tools and humans do and even if a steering message could not  *)
(* be recorded (start_run's timer task, exhaust_budget).                    *)
(***************************************************************************)
BudgetBoundsEveryRun ==
  \A r \in RunId : run.id = r ~> run.id # r \/ run.cancelled

-------------------------------------------------------------------------------
(* What the documentation says and the code does not do: TLC refutes each,   *)
(* the first in a listed run                                                *)

(***************************************************************************)
(* An authorised effect with no recorded outcome is always put to a human   *)
(* before its evidence is closed over (core/recovery.rs: "If mjolnr cannot   *)
(* prove a write or command did not happen, it asks a human").              *)
(***************************************************************************)
UncertainEffectAsksHuman ==
  \A p \in ProposalId :
    effects[p] > 0 /\ ledger[p] \notin {"settled", "abandoned"} =>
      tail.stage = "started" /\ tail.proposal = p

(***************************************************************************)
(* What recovery reports as uncertain had been authorised by the policy or  *)
(* by an approval (docs/persistence.md section 7, EffectUncertain).         *)
(***************************************************************************)
UncertainMeansAuthorised ==
  recovery = "EffectUncertain" => authority[tail.proposal] # "none"

(***************************************************************************)
(* A run the actor keeps is waiting for something that will answer: a        *)
(* provider, a tool or a human (deliver_steering: "Returns `false` when the  *)
(* run should stop").                                                       *)
(***************************************************************************)
NoStrandedRun ==
  open /\ at = "mailbox" /\ Running =>
    run.held \/ run.id \in streaming \/ InFlight # {}

(***************************************************************************)
(* In read-only mode nothing but reads runs (docs/tool-policy.md: write and *)
(* execute are denied).                                                     *)
(***************************************************************************)
ReadOnlyRunsOnlyReads ==
  policy = "ReadOnly" => \A t \in InFlight : Tier[t.call] = "Read"

(***************************************************************************)
(* A running tool obeys the narrower of what the human set and what the     *)
(* model that proposed it is trusted with (core/governance.rs, "Why it can  *)
(* only ever narrow").                                                      *)
(***************************************************************************)
PolicyWithinModelTier == InFlight # {} => clamp(modelTier, policy) = policy

(***************************************************************************)
(* A cancelled run reaches its end as long as providers and tools answer    *)
(* (docs/tauri-path-and-phases.md: cancellation emits exactly one terminal  *)
(* outcome).                                                                *)
(***************************************************************************)
AnsweringSpec ==
  /\ FairSpec
  /\ \A r \in RunId : SF_vars(ProviderEnded(r))
  /\ SF_vars(\E t \in tools : ToolEnded(t))

CancelReachesTheEnd ==
  \A r \in RunId : run.id = r /\ run.cancelled ~> run.id # r
===============================================================================
