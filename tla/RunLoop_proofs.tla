----------------------------- MODULE RunLoop_proofs ----------------------------
(***************************************************************************)
(* Proofs about the run loop, for every set of calls, tiers and modes and   *)
(* every value of the bounds.  Each part rests on the ones before it:       *)
(*   types and waiting    TypeOK with WaitInv: what the active run waits for *)
(*   the record           LogInv and EffectInv: checkpoints, authority,      *)
(*                        effects                                            *)
(*   the promise          StageInv: the run loop implements EffectLedger     *)
(*   the end of a run     EndInv with PendingInv: a terminal event is final, *)
(*                        and no effect is lost from the account             *)
(*   the gate             GateKept: what runs is what the gate permits       *)
(*   closed sessions      ClosedInv: an ended session does no work           *)
(* The last part is about the route a run takes, module ProviderRoute.       *)
(***************************************************************************)
EXTENDS RunLoop, SequenceTheorems, TLAPS

LEMMA ConstantTypes ==
  /\ NoProposal \notin ProposalId
  /\ NoRun \notin RunId
  /\ RunId \subseteq Nat
  /\ \A p \in ProposalId : runOf(p) \in RunId
  BY LimitAssumption DEF NoProposal, NoRun, ProposalId, RunId, runOf

LEMMA InitialRecords ==
  /\ NoActiveRun \in ActiveRun
  /\ EmptyTracker \in Tracker
  BY DEF NoActiveRun, ActiveRun, RunPhase, EmptyTracker, Tracker, WorkStage

\* Every method of the tracker returns a tracker.
LEMMA TrackerTypes ==
  ASSUME NEW t \in Tracker
  PROVE  /\ clear(t) \in Tracker
         /\ finish(t) \in RecoveryState
         /\ \A r \in RunId : /\ open_run(t, r) \in Tracker
                             /\ close_run(t, r) \in Tracker
                             /\ settle(t, r) \in Tracker
         /\ \A r \in RunId, p \in ProposalId, flag \in BOOLEAN :
              /\ propose(t, r, p, flag) \in Tracker
              /\ resolve_approval(t, r, p, flag) \in Tracker
  BY DEF Tracker, WorkStage, EmptyTracker, open_run, close_run, clear, settle,
         propose, resolve_approval, finish, RecoveryState

\* The helpers that produce a mode produce a mode.
LEMMA PolicyTypes ==
  ASSUME NEW m \in PolicyMode, NEW tier \in GovernanceTier, NEW external \in BOOLEAN
  PROVE  /\ carried_forward(m) \in PolicyMode
         /\ policy_ceiling(external, m) \in PolicyMode
         /\ clamp(tier, m) \in PolicyMode
  BY DEF PolicyMode, GovernanceTier, carried_forward, policy_ceiling, clamp,
         narrower_of, width

LEMMA InitTypeOK == Init => TypeOK
  <1> SUFFICES ASSUME Init PROVE TypeOK
      OBVIOUS
  <1> QED
      BY InitialRecords, LimitAssumption
      DEF Init, TypeOK, At, PolicyMode, RecoveryState, LedgerEntry, AuthorityKind

-------------------------------------------------------------------------------
(* Type correctness.  TypeOK is not inductive: a step of the loop indexes    *)
(* the record by the active run and its current proposal, so both must be    *)
(* there whenever the actor is inside a handler that uses them.              *)

\* The call being disposed of is there, and belongs to the active run.
Disposing ==
  run.proposal \in ProposalId /\ runOf(run.proposal) = run.id /\ run.call \in Call

BusyOK ==
  /\ at # "mailbox" => open /\ Running
  /\ at \in {"auto", "start", "settle"} => Disposing


\* A halted run leaves every variable in its type.
LEMMA HaltTypeOK ==
  ASSUME TypeOK, HaltForStore, UNCHANGED streaming, tools' \subseteq tools
  PROVE  TypeOK'
  BY InitialRecords DEF TypeOK, HaltForStore, disarm, session, record, At

\* So does letting go of the session, whatever happens to the record.
LEMMA LetGoTypeOK ==
  ASSUME TypeOK, LetGo,
         ended' \in BOOLEAN, logPolicy' \in PolicyMode, tail' \in Tracker,
         full' \in Tracker, ledger' \in [ProposalId -> LedgerEntry],
         UNCHANGED <<authority, terminals>>
  PROVE  TypeOK'
  BY InitialRecords DEF TypeOK, LetGo, At, PolicyMode, RecoveryState

LEMMA StartRunTypeOK ==
  ASSUME TypeOK, NEW external \in BOOLEAN, StartRun(external)
  PROVE  TypeOK'
  <1> PICK okCap \in BOOLEAN, okClamp \in BOOLEAN, okMarker \in BOOLEAN :
        LET blocked == Blocked \/ NarrowingFails(external, okCap, okClamp)
        IN  /\ NarrowPolicy(external, okCap, okClamp)
            /\ IF blocked \/ ~okMarker
               THEN /\ storeFailed' = (\/ storeFailed
                                       \/ NarrowingFails(external, okCap, okClamp)
                                       \/ ~blocked)
                    /\ UNCHANGED <<at, run, nextRun, timer, tail, full>>
               ELSE /\ run' = [NoActiveRun EXCEPT !.id = nextRun]
                    /\ at' = "turn" /\ nextRun' = nextRun + 1
                    /\ timer' = arm(nextRun)
                    /\ tail' = open_run(tail, nextRun)
                    /\ full' = open_run(full, nextRun)
                    /\ UNCHANGED storeFailed
      BY DEF StartRun
  <1>1. policy' \in PolicyMode /\ logPolicy' \in PolicyMode
      BY PolicyTypes, LimitAssumption DEF NarrowPolicy, TypeOK
  <1>2. nextRun \in RunId /\ nextRun \in Nat
      BY ConstantTypes DEF StartRun, TypeOK
  <1>3. run' \in ActiveRun
    <2>1. run' = run \/ run' = [NoActiveRun EXCEPT !.id = nextRun]
        BY Zenon
    <2>2. [NoActiveRun EXCEPT !.id = nextRun] \in ActiveRun
      <3> HIDE DEF NoActiveRun
      <3>1. NoActiveRun \in ActiveRun
          BY InitialRecords
      <3> QED BY <3>1, <1>2, SMT DEF ActiveRun
    <2>3. run \in ActiveRun
        BY DEF TypeOK
    <2> QED BY <2>1, <2>2, <2>3
  <1>4. tail' \in Tracker /\ full' \in Tracker
      BY <1>2, TrackerTypes DEF TypeOK
  <1>5. timer' \in [RunId -> {"off", "armed", "mail"}]
      BY <1>2 DEF TypeOK, arm
  <1>6. storeFailed' \in BOOLEAN
      BY Zenon DEF TypeOK
  <1>7. at' \in {at, "turn"} /\ nextRun' \in {nextRun, nextRun + 1}
      BY Zenon
  <1> QED
      BY <1>1, <1>3, <1>4, <1>5, <1>6, <1>7, <1>2 DEF StartRun, TypeOK, At

\* The updates the loop makes to the active run.
LEMMA RunUpdates ==
  ASSUME TypeOK
  PROVE  /\ Disposed \in ActiveRun
         /\ [run EXCEPT !.cancelled = TRUE] \in ActiveRun
         /\ [run EXCEPT !.held = FALSE] \in ActiveRun
         /\ [Disposed EXCEPT !.phase = "Tool"] \in ActiveRun
         /\ [run EXCEPT !.provider_turns = @ + 1, !.phase = "Provider"] \in ActiveRun
         /\ run.pending_tools # <<>> => /\ Head(run.pending_tools) \in Call
                                        /\ Tail(run.pending_tools) \in Seq(Call)
         /\ \A calls \in Seq(Call) :
              [run EXCEPT !.pending_tools = @ \o calls] \in ActiveRun
  <1>1. run \in ActiveRun
      BY DEF TypeOK
  <1>2. run.pending_tools # <<>> => /\ Head(run.pending_tools) \in Call
                                    /\ Tail(run.pending_tools) \in Seq(Call)
      BY <1>1 DEF ActiveRun
  <1>3. ASSUME NEW calls \in Seq(Call)
        PROVE  [run EXCEPT !.pending_tools = @ \o calls] \in ActiveRun
    <2>1. run.pending_tools \o calls \in Seq(Call)
        BY <1>1, ConcatProperties DEF ActiveRun
    <2>2. [run EXCEPT !.pending_tools = @ \o calls]
            = [run EXCEPT !.pending_tools = run.pending_tools \o calls]
        BY <1>1 DEF ActiveRun
    <2> QED BY <1>1, <2>1, <2>2 DEF ActiveRun
  <1>4. Disposed \in ActiveRun
      BY <1>1 DEF ActiveRun, Disposed
  <1>5. [Disposed EXCEPT !.phase = "Tool"] \in ActiveRun
      BY <1>4 DEF ActiveRun, RunPhase
  <1>6. [run EXCEPT !.provider_turns = @ + 1, !.phase = "Provider"] \in ActiveRun
    <2>1. run.provider_turns + 1 \in Nat
        BY <1>1 DEF ActiveRun
    <2>2. [run EXCEPT !.provider_turns = @ + 1, !.phase = "Provider"]
            = [run EXCEPT !.provider_turns = run.provider_turns + 1,
                          !.phase = "Provider"]
        BY <1>1 DEF ActiveRun
    <2> QED BY <1>1, <2>1, <2>2 DEF ActiveRun, RunPhase
  <1>7. /\ [run EXCEPT !.cancelled = TRUE] \in ActiveRun
        /\ [run EXCEPT !.held = FALSE] \in ActiveRun
      BY <1>1 DEF ActiveRun
  <1> QED
      BY <1>2, <1>3, <1>4, <1>5, <1>6, <1>7

\* Calls of one turn are a sequence of calls.
LEMMA BatchIsSeq == Batch \subseteq Seq(Call)
  BY DEF Batch

\* Taking a run as active means its identity is a run identity.
LEMMA RunningId == TypeOK /\ Running => run.id \in RunId
  BY DEF TypeOK, Running, ActiveRun

LEMMA AbandonType == TypeOK => Abandon \in [ProposalId -> LedgerEntry]
  BY DEF TypeOK, Abandon, LedgerEntry

LEMMA CommandsTypeOK ==
  ASSUME TypeOK,
         \/ QueueSteering \/ CancelRun \/ ReleaseSession \/ Shutdown \/ Crash
         \/ Resume \/ ResumeWhileOpen \/ EndSession \/ ResolveRecovery
         \/ ResolveRecoveryByEnding
         \/ \E mode \in Mode : SetPolicy(mode)
         \/ \E tier \in ModelTiers : SelectModel(tier)
  PROVE  TypeOK'
  <1>1. CASE QueueSteering
      BY <1>1 DEF QueueSteering, TypeOK, loop, tasks, record
  <1>2. CASE CancelRun
      BY <1>2, RunUpdates, RunningId
      DEF CancelRun, TypeOK, session, record, disarm, At
  <1>3. CASE ReleaseSession
    <2>1. CASE CanCheckpoint /\ LetGo /\ tail' = EmptyTracker /\ logPolicy' = policy
        BY <1>3, <2>1, LetGoTypeOK, InitialRecords DEF ReleaseSession, TypeOK
    <2>2. CASE /\ NoteStoreFailure /\ UNCHANGED <<session, at, run, tasks>>
               /\ \/ UNCHANGED <<tail, logPolicy>>
                  \/ tail' = EmptyTracker /\ logPolicy' = policy
        BY <1>3, <2>2, InitialRecords
        DEF ReleaseSession, TypeOK, NoteStoreFailure, session, tasks
    <2> QED BY <1>3, <2>1, <2>2 DEF ReleaseSession
  <1>4. CASE Shutdown
    <2>1. tail' \in Tracker /\ logPolicy' \in PolicyMode
        BY <1>4, InitialRecords DEF Shutdown, TypeOK
    <2> QED BY <1>4, <2>1, LetGoTypeOK DEF Shutdown, TypeOK
  <1>5. CASE Crash
      BY <1>5, LetGoTypeOK DEF Crash, record, TypeOK
  <1>6. CASE Resume
      BY <1>6, TrackerTypes, PolicyTypes, LimitAssumption
      DEF Resume, TypeOK, NoteStoreFailure, tasks, record
  <1>7. CASE ResumeWhileOpen
      BY <1>7 DEF ResumeWhileOpen, NoteStoreFailure, TypeOK, session, tasks, record
  <1>8. ASSUME EndSessionSteps PROVE TypeOK'
    <2>1. tail' \in Tracker /\ full' \in Tracker
        BY <1>8, TrackerTypes DEF EndSessionSteps, TypeOK
    <2>2. ledger' \in [ProposalId -> LedgerEntry]
        BY <1>8, AbandonType DEF EndSessionSteps
    <2>3. CASE LetGo /\ logPolicy' = policy
        BY <1>8, <2>1, <2>2, <2>3, LetGoTypeOK DEF EndSessionSteps, TypeOK
    <2>4. CASE /\ NoteStoreFailure /\ UNCHANGED <<session, at, run, tasks>>
               /\ logPolicy' \in {logPolicy, policy}
        BY <1>8, <2>1, <2>2, <2>4
        DEF EndSessionSteps, TypeOK, NoteStoreFailure, session, tasks
    <2> QED BY <1>8, <2>3, <2>4 DEF EndSessionSteps
  <1>9. CASE EndSession
    <2>1. CASE NoteStoreFailure /\ UNCHANGED <<session, at, run, tasks, record>>
        BY <2>1 DEF TypeOK, NoteStoreFailure, session, tasks, record
    <2> QED BY <1>8, <1>9, <2>1 DEF EndSession
  <1>10. CASE ResolveRecovery
    <2>1. CASE NoteStoreFailure /\ UNCHANGED <<recovery, record>>
        BY <1>10, <2>1 DEF ResolveRecovery, TypeOK, NoteStoreFailure, tasks, record
    <2>2. CASE /\ recovery' = "Clean"
               /\ tail' = clear(tail) /\ full' = clear(full)
               /\ ledger' = Abandon
               /\ UNCHANGED <<ended, logPolicy, authority, terminals, storeFailed>>
        BY <1>10, <2>2, AbandonType, TrackerTypes
        DEF ResolveRecovery, TypeOK, RecoveryState, tasks
    <2> QED BY <1>10, <2>1, <2>2 DEF ResolveRecovery
  <1>11. CASE ResolveRecoveryByEnding
    <2>1. tail' \in Tracker /\ full' \in Tracker /\ ledger' \in [ProposalId -> LedgerEntry]
        BY <1>11, TrackerTypes, AbandonType DEF ResolveRecoveryByEnding, TypeOK
    <2>2. CASE LetGo /\ logPolicy' = policy
        BY <1>11, <2>1, <2>2, LetGoTypeOK DEF ResolveRecoveryByEnding, TypeOK
    <2>3. CASE /\ recovery' = "Clean" /\ NoteStoreFailure
               /\ UNCHANGED <<open, nextRun, policy, modelTier, grants, trusted,
                              steering, at, run, tasks>>
               /\ logPolicy' \in {logPolicy, policy}
        BY <1>11, <2>1, <2>3
        DEF ResolveRecoveryByEnding, TypeOK, NoteStoreFailure, RecoveryState, tasks
    <2> QED BY <1>11, <2>2, <2>3 DEF ResolveRecoveryByEnding
  <1>12. CASE \E mode \in Mode : SetPolicy(mode)
      BY <1>12, LimitAssumption DEF SetPolicy, TypeOK, NoteStoreFailure, tasks
  <1>13. CASE \E tier \in ModelTiers : SelectModel(tier)
      BY <1>13, LimitAssumption, PolicyTypes
      DEF SelectModel, TypeOK, NoteStoreFailure, tasks, record
  <1> QED
      BY <1>1, <1>2, <1>3, <1>4, <1>5, <1>6, <1>7, <1>9, <1>10, <1>11, <1>12, <1>13

\* Settling, closing or resolving leaves the two trackers in their type, also
\* for the identity of a run that is not active.
LEMMA SettleTypes ==
  ASSUME NEW t \in Tracker, NEW r
  PROVE  /\ settle(t, r) \in Tracker
         /\ close_run(t, r) \in Tracker
  BY DEF Tracker, WorkStage, EmptyTracker, settle, close_run

LEMMA BeginProviderTurnTypeOK ==
  ASSUME TypeOK, BusyOK, BeginProviderTurn
  PROVE  TypeOK'
  <1>1. CASE HaltForStore /\ UNCHANGED streaming
      BY <1>1, HaltTypeOK DEF BeginProviderTurn
  <1>2. CASE /\ steering > 0 /\ NoteStoreFailure
             /\ at' = "mailbox" /\ steering' \in 0 .. (steering - 1)
             /\ UNCHANGED <<open, nextRun, policy, modelTier, grants, trusted,
                            recovery, run, timer, streaming, effects, record>>
      BY <1>2 DEF BeginProviderTurn, TypeOK, NoteStoreFailure, At, record
  <1>3. CASE /\ steering' = 0
             /\ IF run.provider_turns >= max_provider_turns
                THEN at' = "exhaust" /\ UNCHANGED <<modelTier, run, streaming>>
                ELSE \/ at' = "fail" /\ UNCHANGED <<modelTier, run, streaming>>
                     \/ /\ at' = "mailbox" /\ modelTier' \in ModelTiers
                        /\ run' = [run EXCEPT !.provider_turns = @ + 1,
                                              !.phase = "Provider"]
                        /\ streaming' = streaming \union {run.id}
             /\ UNCHANGED <<open, nextRun, policy, grants, trusted, recovery,
                            storeFailed, timer, effects, record>>
    <2>1. run' \in ActiveRun
        BY <1>3, RunUpdates DEF TypeOK
    <2>2. streaming' \subseteq RunId
        BY <1>3, RunningId DEF TypeOK, BusyOK, BeginProviderTurn
    <2> QED BY <1>3, <2>1, <2>2 DEF BeginProviderTurn, TypeOK, At, record
  <1> QED BY <1>1, <1>2, <1>3 DEF BeginProviderTurn

\* Facts every proposal step needs: the call popped, the proposal reserved.
LEMMA ReservedProposal ==
  ASSUME TypeOK, BusyOK, at = "drive", run.pending_tools # <<>>,
         run.tool_calls < max_tool_calls
  PROVE  /\ Head(run.pending_tools) \in Call
         /\ Tail(run.pending_tools) \in Seq(Call)
         /\ <<run.id, run.tool_calls + 1>> \in ProposalId
         /\ run.tool_calls + 1 \in Nat
         /\ run.id \in RunId
  <1>1. run.id \in RunId
      BY RunningId DEF BusyOK
  <1>2. run.tool_calls \in Nat
      BY DEF TypeOK, ActiveRun
  <1>3. run.tool_calls + 1 \in 1 .. max_tool_calls
      BY <1>2, LimitAssumption
  <1> QED BY <1>1, <1>2, <1>3, RunUpdates DEF ProposalId

LEMMA DriveTypeOK ==
  ASSUME TypeOK, BusyOK, DriveDone \/ DriveRefused \/ DrivePropose
  PROVE  TypeOK'
  <1>1. CASE DriveDone
      BY <1>1 DEF DriveDone, TypeOK, At, tasks, LoopFrame, session
  <1>2. CASE DriveRefused
    <2>1. run \in ActiveRun /\ run.pending_tools # <<>>
        BY <1>2 DEF DriveRefused, TypeOK
    <2>2. run' \in ActiveRun
      <3>1. CASE run.tool_calls >= max_tool_calls
        <4>1. run' = [run EXCEPT !.pending_tools = Tail(run.pending_tools)]
            BY <1>2, <2>1, <3>1 DEF DriveRefused, ActiveRun
        <4> QED BY <2>1, <4>1, RunUpdates DEF ActiveRun
      <3>2. CASE ~(run.tool_calls >= max_tool_calls)
        <4>1. run.tool_calls < max_tool_calls
            BY <2>1, <3>2, LimitAssumption DEF ActiveRun
        <4>2. run' = [run EXCEPT !.pending_tools = Tail(run.pending_tools),
                                 !.tool_calls = run.tool_calls + 1,
                                 !.call = Head(run.pending_tools),
                                 !.proposal = <<run.id, run.tool_calls + 1>>]
            BY <1>2, <2>1, <3>2 DEF DriveRefused, ActiveRun
        <4>3. at = "drive" BY <1>2 DEF DriveRefused
        <4> QED BY <2>1, <4>1, <4>2, <4>3, ReservedProposal DEF ActiveRun
      <3> QED BY <3>1, <3>2
    <2> QED BY <1>2, <2>2 DEF DriveRefused, TypeOK, At, tasks, LoopFrame, session
  <1>3. CASE DrivePropose
    <2> DEFINE call == Head(run.pending_tools)
               p == <<run.id, run.tool_calls + 1>>
               gate == gate_decision(call)
               auto == auto_approval(call)
               gated == gate = "Ask" \/ auto
    <2>1. /\ run \in ActiveRun /\ at = "drive" /\ run.pending_tools # <<>>
          /\ run.tool_calls < max_tool_calls
        BY <1>3 DEF DrivePropose, TypeOK
    <2>2. p \in ProposalId /\ call \in Call /\ run.id \in RunId
        BY <2>1, ReservedProposal
    <2>3. CASE HaltForStore /\ UNCHANGED <<streaming, tools>>
        BY <2>3, HaltTypeOK
    <2>4. ASSUME /\ run' = [run EXCEPT !.pending_tools = Tail(@),
                        !.tool_calls = @ + 1, !.call = call, !.proposal = p,
                        !.held = (gate = "Ask"),
                        !.phase = IF gate = "Ask" THEN "Approval" ELSE @]
                 /\ at' = CASE gate = "Deny"           -> "settle"
                            [] gate = "Ask"            -> "mailbox"
                            [] gate = "Allow" /\ auto  -> "auto"
                            [] gate = "Allow" /\ ~auto -> "start"
                 /\ tail' = propose(tail, run.id, p, gated)
                 /\ full' = propose(full, run.id, p, gated)
                 /\ ledger' = [ledger EXCEPT ![p] = IF gated THEN "gated"
                                                    ELSE "intended"]
                 /\ authority' = [authority EXCEPT ![p] =
                                    IF gate = "Allow" /\ ~auto THEN "policy" ELSE @]
                 /\ UNCHANGED <<storeFailed, tasks>>
                 /\ LoopFrame
          PROVE  TypeOK'
      <3>1. run' \in ActiveRun
        <4>1. run' = [run EXCEPT !.pending_tools = Tail(run.pending_tools),
                        !.tool_calls = run.tool_calls + 1, !.call = call,
                        !.proposal = p, !.held = (gate = "Ask"),
                        !.phase = IF gate = "Ask" THEN "Approval" ELSE run.phase]
            BY <2>1, <2>4 DEF ActiveRun
        <4>2. (gate = "Ask") \in BOOLEAN
            OBVIOUS
        <4>3. (IF gate = "Ask" THEN "Approval" ELSE run.phase) \in RunPhase
            BY <2>1 DEF ActiveRun, RunPhase
        <4> QED BY <2>1, <2>2, <4>1, <4>2, <4>3, ReservedProposal DEF ActiveRun
      <3>2. at' \in At
        <4>1. gate \in {"Deny", "Ask", "Allow"}
            BY <2>2, CallAssumption
            DEF gate_decision, decide, TypeOK, ToolTier, PolicyMode
        <4> QED BY <2>4, <4>1 DEF At
      <3>3. tail' \in Tracker /\ full' \in Tracker
          BY <2>2, <2>4, TrackerTypes DEF TypeOK
      <3>4. /\ ledger' \in [ProposalId -> LedgerEntry]
            /\ authority' \in [ProposalId -> AuthorityKind]
          BY <2>2, <2>4 DEF TypeOK, LedgerEntry, AuthorityKind
      <3> QED BY <2>4, <3>1, <3>2, <3>3, <3>4 DEF TypeOK, tasks, LoopFrame, session
    <2> QED BY <1>3, <2>3, <2>4 DEF DrivePropose
  <1> QED BY <1>1, <1>2, <1>3

LEMMA LoopTypeOK ==
  ASSUME TypeOK, BusyOK,
         AutoApprove \/ StartTool \/ RecordRefusal \/ ExhaustBudget \/ EndRun
  PROVE  TypeOK'
  <1>1. CASE AutoApprove
    <2>1. CASE HaltForStore /\ UNCHANGED <<streaming, tools>>
        BY <2>1, HaltTypeOK
    <2>2. CASE ~(HaltForStore /\ UNCHANGED <<streaming, tools>>)
      <3>1. run.proposal \in ProposalId /\ run.id \in RunId
          BY <1>1, RunningId DEF AutoApprove, BusyOK, Disposing
      <3>2. tail' \in Tracker /\ full' \in Tracker
        <4>1. /\ tail' = resolve_approval(tail, run.id, run.proposal, TRUE)
              /\ full' = resolve_approval(full, run.id, run.proposal, TRUE)
            BY <1>1, <2>2, Zenon DEF AutoApprove
        <4>2. tail \in Tracker /\ full \in Tracker /\ TRUE \in BOOLEAN
            BY DEF TypeOK
        <4>3. resolve_approval(tail, run.id, run.proposal, TRUE) \in Tracker
            BY <3>1, <4>2, TrackerTypes
        <4>4. resolve_approval(full, run.id, run.proposal, TRUE) \in Tracker
            BY <3>1, <4>2, TrackerTypes
        <4> QED BY <4>1, <4>3, <4>4
      <3> QED BY <1>1, <2>2, <3>1, <3>2
              DEF AutoApprove, TypeOK, At, LedgerEntry, AuthorityKind, tasks,
                  LoopFrame, session
    <2> QED BY <2>1, <2>2
  <1>2. CASE StartTool
    <2>1. run' \in ActiveRun
        BY <1>2, RunUpdates DEF StartTool, TypeOK
    <2>2. tools' \subseteq ToolTask
      <3>1. run.proposal \in ProposalId /\ run.call \in Call
          BY <1>2 DEF StartTool, BusyOK, Disposing
      <3>2. [proposal |-> run.proposal, call |-> run.call, effected |-> FALSE]
              \in ToolTask
          BY <3>1 DEF ToolTask
      <3>3. tools' \in {tools, tools \union {[proposal |-> run.proposal,
                                   call |-> run.call, effected |-> FALSE]}}
          BY <1>2 DEF StartTool
      <3> QED BY <3>2, <3>3 DEF TypeOK
    <2> QED BY <1>2, <2>1, <2>2 DEF StartTool, TypeOK, At, LoopFrame, session
  <1>3. CASE RecordRefusal
    <2>1. CASE HaltForStore /\ UNCHANGED <<streaming, tools>>
        BY <2>1, HaltTypeOK
    <2>2. CASE ~(HaltForStore /\ UNCHANGED <<streaming, tools>>)
      <3>1. run' \in ActiveRun
          BY <1>3, <2>2, RunUpdates DEF RecordRefusal
      <3>2. tail' \in Tracker /\ full' \in Tracker
          BY <1>3, <2>2, SettleTypes DEF RecordRefusal, TypeOK
      <3> QED BY <1>3, <2>2, <3>1, <3>2
              DEF RecordRefusal, TypeOK, At, LedgerEntry, tasks, LoopFrame, session
    <2> QED BY <2>1, <2>2
  <1>4. CASE ExhaustBudget
    <2>1. CASE HaltForStore /\ UNCHANGED <<streaming, tools>>
        BY <2>1, HaltTypeOK
    <2>2. CASE ~(HaltForStore /\ UNCHANGED <<streaming, tools>>)
      <3>1. /\ run' = [run EXCEPT !.cancelled = TRUE] /\ at' = "fail"
            /\ timer' = disarm(run.id)
            /\ UNCHANGED <<storeFailed, streaming, tools, effects, tail, full,
                           ledger, authority>>
            /\ LoopFrame
          BY <1>4, <2>2 DEF ExhaustBudget
      <3>2. run' \in ActiveRun
          BY <3>1, RunUpdates
      <3>3. timer' \in [RunId -> {"off", "armed", "mail"}]
          BY <3>1 DEF TypeOK, disarm
      <3>4. at' \in At
          BY <3>1 DEF At
      <3>5. /\ UNCHANGED <<session, ended, logPolicy, terminals>>
            /\ UNCHANGED <<storeFailed, streaming, tools, effects, tail, full,
                           ledger, authority>>
          BY <3>1 DEF LoopFrame
      <3> QED BY <3>2, <3>3, <3>4, <3>5 DEF TypeOK, session
    <2> QED BY <2>1, <2>2
  <1>5. CASE EndRun
    <2>1. CASE HaltForStore
        BY <1>5, <2>1, HaltTypeOK DEF EndRun
    <2>2. CASE ~HaltForStore
      <3>1. run.id \in RunId
          BY <1>5, RunningId DEF EndRun, BusyOK
      <3>2. tail' \in Tracker /\ full' \in Tracker
          BY <1>5, <2>2, SettleTypes, InitialRecords DEF EndRun, TypeOK
      <3>3. terminals' \in [RunId -> Nat]
          BY <1>5, <2>2, <3>1 DEF EndRun, TypeOK
      <3>4. logPolicy' \in PolicyMode /\ storeFailed' \in BOOLEAN
          BY <1>5, <2>2 DEF EndRun, TypeOK, NoteStoreFailure
      <3> QED BY <1>5, <2>2, <3>2, <3>3, <3>4, InitialRecords
              DEF EndRun, TypeOK, At, disarm, session
    <2> QED BY <2>1, <2>2
  <1> QED BY <1>1, <1>2, <1>3, <1>4, <1>5

\* Tool tasks and their mail: late mail of a dead run changes only the tasks.
LEMMA MailTypeOK ==
  ASSUME TypeOK, BusyOK,
         \/ \E r \in RunId : \/ ProviderEnded(r) \/ ProviderRecordFails(r)
                             \/ BudgetExpired(r) \/ TimerFires(r)
         \/ \E t \in tools : ToolEnded(t) \/ ToolEffect(t)
  PROVE  TypeOK'
  <1>1. ASSUME NEW r \in RunId, ProviderEnded(r) PROVE TypeOK'
    <2>1. CASE ~addressed(r)
        BY <1>1, <2>1 DEF ProviderEnded, TypeOK, loop, LoopFrame, session
    <2>2. CASE HaltForStore
      <3>1. streaming' \subseteq RunId /\ tools' \subseteq ToolTask
          BY <1>1 DEF ProviderEnded, TypeOK
      <3> QED BY <2>2, <3>1, InitialRecords
              DEF TypeOK, HaltForStore, disarm, session, record, At
    <2>3. CASE addressed(r) /\ ~HaltForStore
      <3>1. run' \in ActiveRun
          BY <1>1, <2>3, RunUpdates, BatchIsSeq DEF ProviderEnded, TypeOK
      <3>2. at' \in At /\ modelTier' \in ModelTiers
          BY <1>1, <2>3 DEF ProviderEnded, At, TypeOK
      <3> QED BY <1>1, <2>3, <3>1, <3>2 DEF ProviderEnded, TypeOK, record
    <2> QED BY <2>1, <2>2, <2>3
  <1>2. ASSUME NEW r \in RunId, ProviderRecordFails(r) PROVE TypeOK'
      BY <1>2, HaltTypeOK DEF ProviderRecordFails
  <1>3. ASSUME NEW r \in RunId, BudgetExpired(r) PROVE TypeOK'
      BY <1>3, RunUpdates DEF BudgetExpired, TypeOK, At, session, record
  <1>4. ASSUME NEW r \in RunId, TimerFires(r) PROVE TypeOK'
      BY <1>4 DEF TimerFires, TypeOK, loop, session, record
  <1>5. ASSUME NEW t \in tools, ToolEnded(t) PROVE TypeOK'
    <2>1. t \in ToolTask /\ t.proposal \in ProposalId /\ tools' \subseteq tools
        BY <1>5 DEF ToolEnded, TypeOK, ToolTask
    <2>2. CASE ~addressed(runOf(t.proposal))
        BY <1>5, <2>1, <2>2 DEF ToolEnded, TypeOK, loop, LoopFrame, session
    <2>3. CASE HaltForStore
        BY <1>5, <2>3, HaltTypeOK DEF ToolEnded
    <2>4. CASE run.cancelled /\ at' = "finish"
               /\ UNCHANGED <<tail, full, ledger, session, storeFailed>>
               /\ UNCHANGED <<run, timer, effects, ended, logPolicy, authority,
                              terminals>>
        BY <1>5, <2>1, <2>4 DEF ToolEnded, TypeOK, At, session
    <2>5. CASE /\ at' \in {"finish", "drive"} /\ trusted' \in BOOLEAN
               /\ tail' = settle(tail, run.id) /\ full' = settle(full, run.id)
               /\ ledger' = [ledger EXCEPT ![t.proposal] = "settled"]
               /\ UNCHANGED <<open, nextRun, policy, modelTier, grants, steering,
                              recovery>>
               /\ UNCHANGED <<run, storeFailed, timer, effects, ended, logPolicy,
                              authority, terminals>>
      <3>1. tail' \in Tracker /\ full' \in Tracker
          BY <2>5, SettleTypes DEF TypeOK
      <3> QED BY <1>5, <2>1, <2>5, <3>1 DEF ToolEnded, TypeOK, At, LedgerEntry
    <2>6. (trusted \/ t.call \in GrantsTrust) \in BOOLEAN
        OBVIOUS
    <2> QED BY <1>5, <2>2, <2>3, <2>4, <2>5, <2>6 DEF ToolEnded, TypeOK
  <1>6. ASSUME NEW t \in tools, ToolEffect(t) PROVE TypeOK'
    <2>1. t \in ToolTask /\ t.proposal \in ProposalId
        BY <1>6 DEF TypeOK, ToolTask
    <2>2. [t EXCEPT !.effected = TRUE] \in ToolTask
        BY <2>1 DEF ToolTask
    <2>3. effects' \in [ProposalId -> Nat]
        BY <1>6, <2>1 DEF ToolEffect, TypeOK
    <2> QED BY <1>6, <2>2, <2>3 DEF ToolEffect, TypeOK, session, loop, record
  <1> QED BY <1>1, <1>2, <1>3, <1>4, <1>5, <1>6

LEMMA ResolveApprovalTypeOK ==
  ASSUME TypeOK, NEW p \in ProposalId, NEW d \in ApprovalDecision,
         ResolveApproval(p, d)
  PROVE  TypeOK'
  <1>1. CASE HaltForStore
      BY <1>1, HaltTypeOK DEF ResolveApproval
  <1>2. CASE ~HaltForStore
    <2>1. run.id \in RunId /\ (d # "Deny") \in BOOLEAN
        BY RunningId DEF ResolveApproval
    <2>2. tail' \in Tracker /\ full' \in Tracker
      <3> DEFINE approved == d # "Deny"
      <3>1. /\ tail' = resolve_approval(tail, run.id, p, approved)
            /\ full' = resolve_approval(full, run.id, p, approved)
          BY <1>2, Zenon DEF ResolveApproval
      <3>2. tail \in Tracker /\ full \in Tracker /\ approved \in BOOLEAN
          BY DEF TypeOK
      <3> HIDE DEF approved
      <3>3. /\ resolve_approval(tail, run.id, p, approved) \in Tracker
            /\ resolve_approval(full, run.id, p, approved) \in Tracker
          BY <2>1, <3>2, TrackerTypes
      <3> QED BY <3>1, <3>3
    <2>3. run' \in ActiveRun
        BY <1>2, RunUpdates DEF ResolveApproval
    <2>4. grants' \subseteq Command
        BY <1>2 DEF ResolveApproval, granted, TypeOK
    <2>5. at' \in At
        BY <1>2 DEF ResolveApproval, afterDecision, At
    <2>6. /\ ledger' \in [ProposalId -> LedgerEntry]
          /\ authority' \in [ProposalId -> AuthorityKind]
        BY <1>2 DEF ResolveApproval, TypeOK, LedgerEntry, AuthorityKind
    <2> QED BY <1>2, <2>2, <2>3, <2>4, <2>5, <2>6 DEF ResolveApproval, TypeOK
  <1> QED BY <1>1, <1>2

LEMMA NextTypeOK ==
  ASSUME TypeOK, BusyOK, [Next]_vars
  PROVE  TypeOK'
  <1>1. CASE Human
    <2>1. ASSUME NEW external \in BOOLEAN, StartRun(external) PROVE TypeOK'
        BY <2>1, StartRunTypeOK
    <2>2. ASSUME NEW p \in ProposalId, NEW d \in ApprovalDecision,
                 ResolveApproval(p, d)
          PROVE  TypeOK'
        BY <2>2, ResolveApprovalTypeOK
    <2>3. CASE RefuseModelSwitch
        BY <2>3, HaltTypeOK DEF RefuseModelSwitch
    <2> QED BY <1>1, <2>1, <2>2, <2>3, CommandsTypeOK DEF Human
  <1>2. CASE Loop
      BY <1>2, BeginProviderTurnTypeOK, DriveTypeOK, LoopTypeOK DEF Loop
  <1>3. CASE Mail \/ Environment
      BY <1>3, MailTypeOK, CommandsTypeOK DEF Mail, Environment
  <1>4. CASE UNCHANGED vars
      BY <1>4 DEF vars, session, loop, tasks, record, TypeOK
  <1> QED BY <1>1, <1>2, <1>3, <1>4 DEF Next

-------------------------------------------------------------------------------
(* The active run waits for one thing: a human, its provider or one tool.    *)
(* While a handler works on it nothing of it is outstanding, so a call is    *)
(* always there when a human answers about it.                               *)

Waits ==
  /\ Running => open
  /\ run.held => Disposing
  /\ run.held => run.id \notin streaming /\ InFlight = {}
  /\ run.id \in streaming => InFlight = {}
  /\ \A t, u \in InFlight : t = u
  /\ at \in {"turn", "drive", "auto", "start", "settle"} =>
       ~run.held /\ run.id \notin streaming /\ InFlight = {}

\* Identities of runs and of what they left behind are in the past.
Fresh ==
  /\ run.id < nextRun
  /\ \A r \in streaming : r < nextRun
  /\ \A t \in tools : runOf(t.proposal) < nextRun

WaitInv == BusyOK /\ Waits /\ Fresh

LEMMA InitWaitInv == Init => WaitInv
  BY ConstantTypes
  DEF Init, WaitInv, BusyOK, Waits, Fresh, NoActiveRun, Running, InFlight, NoRun

\* Whoever drops the run waits for nothing.
LEMMA DroppedRunWaits ==
  ASSUME TypeOK, WaitInv, run' = NoActiveRun, at' = "mailbox",
         streaming' \subseteq streaming, tools' \subseteq tools, UNCHANGED nextRun
  PROVE  WaitInv'
  <1>1. 0 < nextRun
    <2>1. run.id \in Nat
      <3>1. run.id \in RunId \union {NoRun}
          BY DEF TypeOK, ActiveRun
      <3>2. NoRun \in Nat
          BY DEF NoRun
      <3> QED BY <3>1, <3>2, ConstantTypes
    <2>2. run.id < nextRun /\ nextRun \in Nat
        BY DEF TypeOK, WaitInv, Fresh
    <2> QED BY <2>1, <2>2
  <1>2. run.id' = 0 /\ ~run.held' /\ 0 \notin RunId
      BY ConstantTypes DEF NoActiveRun, NoRun
  <1>3. \A t \in tools' : runOf(t.proposal) # 0
      BY <1>2, ConstantTypes DEF TypeOK, ToolTask
  <1>4. InFlight' = {}
      BY <1>2, <1>3 DEF InFlight
  <1>5. BusyOK' /\ Waits'
      BY <1>2, <1>4 DEF BusyOK, Waits, TypeOK, Running, NoRun
  <1>6. Fresh'
      BY <1>1, <1>2 DEF WaitInv, Fresh
  <1> QED BY <1>5, <1>6 DEF WaitInv

\* Nothing the waiting depends on changes.
LEMMA SameRunWaits ==
  ASSUME WaitInv, UNCHANGED <<at, run, nextRun, streaming, tools>>,
         open' \in {open, TRUE}
  PROVE  WaitInv'
  BY DEF WaitInv, BusyOK, Waits, Fresh, InFlight, Running, Disposing

LEMMA HaltWaits ==
  ASSUME TypeOK, WaitInv, HaltForStore, streaming' \subseteq streaming,
         tools' \subseteq tools
  PROVE  WaitInv'
  BY DroppedRunWaits DEF HaltForStore, session

\* The handler goes on, or ends the run, with nothing new outstanding.
LEMMA HandlerWaits ==
  ASSUME TypeOK, WaitInv, UNCHANGED <<open, nextRun>>, open, Running,
         run'.id = run.id, at' \in At,
         streaming' \subseteq streaming, tools' \subseteq tools,
         at' \in {"auto", "start", "settle"} \/ run'.held =>
           Disposing',
         run'.held => run.held,
         at' \in {"turn", "drive", "auto", "start", "settle"} =>
           ~run'.held /\ run.id \notin streaming' /\ InFlight' = {}
  PROVE  WaitInv'
  <1>1. InFlight' \subseteq InFlight
      BY DEF InFlight
  <1>2. BusyOK'
      BY DEF BusyOK, Running
  <1>3. Waits'
      BY <1>1 DEF WaitInv, Waits, Running
  <1>4. Fresh'
      BY DEF WaitInv, Fresh
  <1> QED BY <1>2, <1>3, <1>4 DEF WaitInv

LEMMA CommandsWait ==
  ASSUME TypeOK, WaitInv,
         \/ QueueSteering \/ ReleaseSession \/ Shutdown \/ Crash
         \/ Resume \/ ResumeWhileOpen \/ EndSession \/ ResolveRecovery
         \/ ResolveRecoveryByEnding
         \/ \E mode \in Mode : SetPolicy(mode)
         \/ \E tier \in ModelTiers : SelectModel(tier)
  PROVE  WaitInv'
  <1>1. CASE LetGo
    <2>1. streaming' \subseteq streaming /\ tools' \subseteq tools
        BY <1>1 DEF LetGo
    <2> QED BY <1>1, <2>1, DroppedRunWaits DEF LetGo
  <1>2. CASE UNCHANGED <<session, at, run, tasks>>
      BY <1>2, SameRunWaits DEF session, tasks
  <1>3. CASE QueueSteering
      BY <1>3, SameRunWaits DEF QueueSteering, loop, tasks
  <1>4. CASE Resume
      BY <1>4, SameRunWaits DEF Resume, tasks
  <1>5. CASE ResolveRecovery \/ (ResolveRecoveryByEnding /\ ~LetGo)
      BY <1>5, SameRunWaits DEF ResolveRecovery, ResolveRecoveryByEnding, tasks
  <1>6. CASE \/ \E mode \in Mode : SetPolicy(mode)
             \/ \E tier \in ModelTiers : SelectModel(tier)
      BY <1>6, SameRunWaits DEF SetPolicy, SelectModel, tasks
  <1>7. CASE ReleaseSession \/ Shutdown \/ Crash \/ EndSession \/ ResumeWhileOpen
      BY <1>1, <1>2, <1>7
      DEF ReleaseSession, Shutdown, Crash, EndSession, EndSessionSteps, ResumeWhileOpen
  <1> QED BY <1>1, <1>3, <1>4, <1>5, <1>6, <1>7

LEMMA StartRunWaits ==
  ASSUME TypeOK, WaitInv, NEW external \in BOOLEAN, StartRun(external)
  PROVE  WaitInv'
  <1>1. CASE UNCHANGED <<at, run, nextRun>>
      BY <1>1, SameRunWaits DEF StartRun
  <1>2. CASE /\ run' = [NoActiveRun EXCEPT !.id = nextRun]
             /\ at' = "turn" /\ nextRun' = nextRun + 1
    <2>1. nextRun \in RunId /\ nextRun \in Nat
        BY ConstantTypes DEF StartRun, TypeOK
    <2>2. run'.id = nextRun /\ ~run'.held
        BY <1>2 DEF NoActiveRun
    <2>3. nextRun \notin streaming
        BY <2>1 DEF WaitInv, Fresh
    <2>4. InFlight' = {}
      <3>1. \A t \in tools : runOf(t.proposal) # nextRun
          BY <2>1 DEF WaitInv, Fresh
      <3> QED BY <2>2, <3>1 DEF InFlight, StartRun
    <2>5. BusyOK' /\ Waits'
        BY <1>2, <2>1, <2>2, <2>3, <2>4, ConstantTypes
        DEF StartRun, Free, BusyOK, Waits, Running
    <2>6. Fresh'
      <3>1. streaming \subseteq Nat /\ \A t \in tools : runOf(t.proposal) \in Nat
          BY ConstantTypes DEF TypeOK, ToolTask
      <3> QED BY <1>2, <2>1, <2>2, <3>1 DEF StartRun, WaitInv, Fresh
    <2> QED BY <2>5, <2>6 DEF WaitInv
  <1> QED BY <1>1, <1>2 DEF StartRun

\* Steps of the handler that holds the run.
LEMMA LoopWaits ==
  ASSUME TypeOK, WaitInv,
         \/ DriveDone \/ DriveRefused \/ DrivePropose \/ AutoApprove
         \/ RecordRefusal \/ ExhaustBudget \/ EndRun
  PROVE  WaitInv'
  <1> DEFINE Halt == HaltForStore /\ UNCHANGED <<streaming, tools>>
  <1>0. /\ open /\ Running
        /\ UNCHANGED tools /\ run'.id = run.id => InFlight' = InFlight
      BY DEF WaitInv, BusyOK, Waits, InFlight, DriveDone, DriveRefused, DrivePropose,
             AutoApprove, RecordRefusal, ExhaustBudget, EndRun
  <1>1. CASE Halt
      BY <1>1, HaltWaits
  <1>2. CASE DriveDone
      BY <1>0, <1>2, HandlerWaits
      DEF DriveDone, WaitInv, Waits, LoopFrame, session, tasks, At
  <1>3. CASE DriveRefused
    <2>1. /\ run'.id = run.id /\ run'.held = run.held /\ ~run.held
          /\ at' \in {"exhaust", "settle"} /\ at = "drive"
      <3>1. /\ at = "drive" /\ at' \in {"exhaust", "settle"}
          BY <1>3 DEF DriveRefused
      <3>2. run'.id = run.id /\ run'.held = run.held
          BY <1>3 DEF DriveRefused, TypeOK, ActiveRun
      <3>3. ~run.held
          BY <3>1 DEF WaitInv, Waits
      <3> QED BY <3>1, <3>2, <3>3
    <2>2. ASSUME at' = "settle" PROVE Disposing'
      <3>1. run.tool_calls \in Nat /\ max_tool_calls \in Nat
          BY LimitAssumption DEF TypeOK, ActiveRun
      <3>2. /\ ~(run.tool_calls >= max_tool_calls)
            /\ run.pending_tools # <<>>
            /\ run'.call = Head(run.pending_tools)
            /\ run'.proposal = <<run.id, run.tool_calls + 1>>
          BY <1>3, <2>2 DEF DriveRefused, TypeOK, ActiveRun
      <3>3. run.tool_calls < max_tool_calls
          BY <3>1, <3>2
      <3> QED BY <2>1, <3>2, <3>3, ReservedProposal DEF WaitInv, Disposing, runOf
    <2> QED BY <1>0, <1>3, <2>1, <2>2, HandlerWaits
            DEF DriveRefused, WaitInv, Waits, LoopFrame, session, tasks, At
  <1>4. CASE DrivePropose /\ ~Halt
    <2> DEFINE call == Head(run.pending_tools)
               p == <<run.id, run.tool_calls + 1>>
               gate == gate_decision(call)
    <2>1. p \in ProposalId /\ call \in Call
        BY <1>4, ReservedProposal DEF DrivePropose, WaitInv
    <2>2. /\ run'.id = run.id /\ run'.held = (gate = "Ask")
          /\ run'.proposal = p /\ run'.call = call
        BY <1>4 DEF DrivePropose, TypeOK, ActiveRun
    <2>3. UNCHANGED <<open, nextRun, streaming, tools>> /\ at = "drive"
        BY <1>4 DEF DrivePropose, LoopFrame, session, tasks
    <2>4. gate \in {"Deny", "Ask", "Allow"}
        BY <2>1, CallAssumption
        DEF gate_decision, decide, TypeOK, ToolTier, PolicyMode
    <2>5. at' \in {"settle", "mailbox", "auto", "start"}
          /\ (at' # "mailbox" => gate # "Ask")
        BY <1>4, <2>4 DEF DrivePropose
    <2>6. ~run.held /\ run.id \notin streaming /\ InFlight = {} /\ InFlight' = {}
        BY <1>0, <2>2, <2>3 DEF WaitInv, Waits
    <2> HIDE DEF call, p, gate
    <2>7. BusyOK' /\ Waits'
      <3>1. Disposing'
          BY <2>1, <2>2 DEF Disposing, p, runOf
      <3> QED BY <1>0, <2>2, <2>3, <2>5, <2>6, <3>1 DEF BusyOK, Waits, Running
    <2>8. Fresh'
        BY <2>2, <2>3 DEF WaitInv, Fresh
    <2> QED BY <2>7, <2>8 DEF WaitInv
  <1>5. CASE AutoApprove /\ ~Halt
      BY <1>0, <1>5, HandlerWaits
      DEF AutoApprove, WaitInv, Waits, BusyOK, Disposing, LoopFrame, session, tasks, At
  <1>6. CASE RecordRefusal /\ ~Halt
    <2>1. run'.id = run.id /\ run'.held = run.held /\ ~run.held
        BY <1>6 DEF RecordRefusal, Disposed, WaitInv, Waits, TypeOK, ActiveRun
    <2> QED BY <1>0, <1>6, <2>1, HandlerWaits
            DEF RecordRefusal, WaitInv, Waits, LoopFrame, session, tasks, At
  <1>7. CASE ExhaustBudget /\ ~Halt
    <2>1. /\ run'.id = run.id /\ run'.held = run.held
          /\ run'.proposal = run.proposal /\ run'.call = run.call
        BY <1>7 DEF ExhaustBudget, TypeOK, ActiveRun
    <2> QED BY <1>0, <1>7, <2>1, HandlerWaits
            DEF ExhaustBudget, WaitInv, Waits, Disposing, LoopFrame, session, At
  <1>8. CASE EndRun /\ ~Halt
      BY <1>8, DroppedRunWaits DEF EndRun, session, HaltForStore
  <1> QED BY <1>1, <1>2, <1>3, <1>4, <1>5, <1>6, <1>7, <1>8

LEMMA StartedWorkWaits ==
  ASSUME TypeOK, WaitInv, BeginProviderTurn \/ StartTool
  PROVE  WaitInv'
  <1>0. open /\ Running
      BY DEF WaitInv, BusyOK, BeginProviderTurn, StartTool
  <1>1. CASE BeginProviderTurn
    <2>1. CASE HaltForStore /\ UNCHANGED streaming
        BY <1>1, <2>1, HaltWaits DEF BeginProviderTurn
    <2>2. CASE ~(HaltForStore /\ UNCHANGED streaming)
      <3>1. /\ run'.id = run.id /\ run'.held = run.held
            /\ run'.proposal = run.proposal /\ run'.call = run.call
          BY <1>1, <2>2 DEF BeginProviderTurn, TypeOK, ActiveRun
      <3>2. /\ ~run.held /\ run.id \notin streaming /\ InFlight = {}
            /\ UNCHANGED <<open, nextRun, tools>>
            /\ at' \in {"mailbox", "exhaust", "fail"}
            /\ streaming' \in {streaming, streaming \union {run.id}}
          BY <1>1, <2>2 DEF BeginProviderTurn, WaitInv, Waits
      <3>3. InFlight' = {}
          BY <3>1, <3>2 DEF InFlight
      <3>4. BusyOK' /\ Waits'
          BY <1>0, <3>1, <3>2, <3>3 DEF BusyOK, Waits, Running
      <3>5. Fresh'
          BY <3>1, <3>2 DEF WaitInv, Fresh
      <3> QED BY <3>4, <3>5 DEF WaitInv
    <2> QED BY <2>1, <2>2
  <1>2. CASE StartTool
    <2> DEFINE task == [proposal |-> run.proposal, call |-> run.call,
                        effected |-> FALSE]
    <2>1. /\ UNCHANGED <<open, nextRun, streaming>> /\ at = "start"
          /\ ~run.held /\ run.id \notin streaming /\ InFlight = {}
          /\ Disposing
        BY <1>2 DEF StartTool, WaitInv, Waits, BusyOK, LoopFrame, session
    <2>2. CASE at' = "settle" /\ UNCHANGED <<run, tools>>
        BY <1>0, <2>1, <2>2, HandlerWaits DEF At, InFlight, Disposing
    <2>3. CASE /\ at' = "mailbox"
               /\ run' = [Disposed EXCEPT !.phase = "Tool"]
               /\ tools' = tools \union {task}
      <3>1. run'.id = run.id /\ ~run'.held
          BY <2>1, <2>3 DEF Disposed, TypeOK, ActiveRun
      <3>2. InFlight' \subseteq {task} /\ task.proposal = run.proposal
          BY <2>1, <2>3, <3>1 DEF InFlight
      <3> HIDE DEF task
      <3>3. BusyOK' /\ Waits'
          BY <1>0, <2>1, <2>3, <3>1, <3>2 DEF BusyOK, Waits, Running
      <3>4. runOf(run.proposal) < nextRun
          BY <2>1 DEF WaitInv, Fresh, Disposing
      <3>5. Fresh'
          BY <2>1, <2>3, <3>1, <3>2, <3>4 DEF WaitInv, Fresh
      <3> QED BY <3>3, <3>5 DEF WaitInv
    <2> QED BY <1>2, <2>2, <2>3 DEF StartTool
  <1> QED BY <1>1, <1>2

\* A human cancels or answers.
LEMMA AnswersWait ==
  ASSUME TypeOK, WaitInv,
         \/ CancelRun
         \/ \E p \in ProposalId, d \in ApprovalDecision : ResolveApproval(p, d)
  PROVE  WaitInv'
  <1>1. CASE CancelRun
    <2>1. /\ run'.id = run.id /\ run'.held = run.held
          /\ run'.proposal = run.proposal /\ run'.call = run.call
          /\ at' \in {"finish", "mailbox"}
        BY <1>1 DEF CancelRun, TypeOK, ActiveRun
    <2> QED BY <1>1, <2>1, HandlerWaits
            DEF CancelRun, Free, WaitInv, Waits, Disposing, session, At
  <1>2. ASSUME NEW p \in ProposalId, NEW d \in ApprovalDecision,
               ResolveApproval(p, d)
        PROVE  WaitInv'
    <2>1. CASE HaltForStore
        BY <1>2, <2>1, HaltWaits DEF ResolveApproval
    <2>2. CASE ~HaltForStore
      <3>1. /\ run'.id = run.id /\ ~run'.held
            /\ run'.proposal = run.proposal /\ run'.call = run.call
          BY <1>2, <2>2 DEF ResolveApproval, TypeOK, ActiveRun
      <3>2. at' \in {"settle", "start"}
          BY <1>2, <2>2 DEF ResolveApproval, afterDecision
      <3>3. run.held /\ Disposing /\ InFlight = {} /\ run.id \notin streaming
          BY <1>2 DEF ResolveApproval, WaitInv, Waits
      <3>4. InFlight' = InFlight /\ UNCHANGED <<open, nextRun, streaming, tools>>
          BY <1>2, <2>2, <3>1 DEF ResolveApproval, InFlight
      <3> QED BY <1>2, <3>1, <3>2, <3>3, <3>4, HandlerWaits
              DEF ResolveApproval, Free, Disposing, At
    <2> QED BY <2>1, <2>2
  <1> QED BY <1>1, <1>2

\* Answers of providers, tools and the clock, in time or late.
LEMMA MailWaits ==
  ASSUME TypeOK, WaitInv,
         \/ \E r \in RunId : \/ ProviderEnded(r) \/ ProviderRecordFails(r)
                             \/ BudgetExpired(r) \/ TimerFires(r)
         \/ \E t \in tools : ToolEnded(t) \/ ToolEffect(t)
  PROVE  WaitInv'
  <1>0. \A t \in tools : runOf(t.proposal) \in RunId
      BY ConstantTypes DEF TypeOK, ToolTask
  <1>1. ASSUME NEW r \in RunId, ProviderEnded(r) PROVE WaitInv'
    <2>1. UNCHANGED tools /\ streaming' = streaming \ {r} /\ open /\ r \in streaming
        BY <1>1 DEF ProviderEnded, Free
    <2>2. CASE ~addressed(r)
      <3>1. UNCHANGED <<at, run, nextRun, open>> /\ run.id # r /\ InFlight' = InFlight
          BY <1>1, <2>1, <2>2
          DEF ProviderEnded, addressed, loop, LoopFrame, session, InFlight
      <3> QED BY <2>1, <3>1
              DEF WaitInv, BusyOK, Waits, Fresh, Running, Disposing
    <2>3. CASE addressed(r)
      <3>1. run.id = r /\ Running /\ ~run.held /\ InFlight = {}
          BY <2>1, <2>3, ConstantTypes DEF addressed, Running, WaitInv, Waits
      <3>2. CASE HaltForStore
          BY <2>1, <3>2, HaltWaits
      <3>3. CASE ~HaltForStore
        <4>1. /\ run'.id = run.id /\ run'.held = run.held
              /\ UNCHANGED <<open, nextRun>>
              /\ at' \in {"drive", "finish", "fail", "turn"}
            BY <1>1, <2>3, <3>3 DEF ProviderEnded, TypeOK, ActiveRun
        <4>2. InFlight' = InFlight
            BY <2>1, <4>1 DEF InFlight
        <4> QED BY <2>1, <3>1, <4>1, <4>2, HandlerWaits DEF At
      <3> QED BY <3>2, <3>3
    <2> QED BY <2>2, <2>3
  <1>2. ASSUME NEW r \in RunId, ProviderRecordFails(r) PROVE WaitInv'
      BY <1>2, HaltWaits DEF ProviderRecordFails
  <1>3. ASSUME NEW r \in RunId, BudgetExpired(r) PROVE WaitInv'
    <2>1. UNCHANGED <<open, nextRun, streaming, tools>> /\ open
        BY <1>3 DEF BudgetExpired, Free, session
    <2>2. CASE ~addressed(r)
        BY <1>3, <2>1, <2>2, SameRunWaits DEF BudgetExpired
    <2>3. CASE addressed(r)
      <3>1. /\ run'.id = run.id /\ run'.held = run.held /\ at' = "exhaust"
            /\ run'.proposal = run.proposal /\ run'.call = run.call
            /\ run.id = r
          BY <1>3, <2>3 DEF BudgetExpired, addressed, TypeOK, ActiveRun
      <3>2. Running
          BY <3>1, ConstantTypes DEF Running
      <3> QED BY <2>1, <3>1, <3>2, HandlerWaits DEF WaitInv, Waits, Disposing, At
    <2> QED BY <2>2, <2>3
  <1>4. ASSUME NEW r \in RunId, TimerFires(r) PROVE WaitInv'
      BY <1>4, SameRunWaits DEF TimerFires, session, loop
  <1>5. ASSUME NEW t \in tools, ToolEnded(t) PROVE WaitInv'
    <2>1. UNCHANGED streaming /\ tools' = tools \ {t} /\ open
        BY <1>5 DEF ToolEnded, Free
    <2>2. CASE ~addressed(runOf(t.proposal))
      <3>1. UNCHANGED <<at, run, nextRun, open>> /\ InFlight' \subseteq InFlight
          BY <1>5, <2>1, <2>2
          DEF ToolEnded, loop, LoopFrame, session, InFlight
      <3> QED BY <2>1, <3>1
              DEF WaitInv, BusyOK, Waits, Fresh, Running, Disposing
    <2>3. CASE HaltForStore
        BY <2>1, <2>3, HaltWaits
    <2>4. CASE addressed(runOf(t.proposal)) /\ ~HaltForStore
      <3>1. /\ UNCHANGED <<run, open, nextRun>> /\ at' \in {"finish", "drive"}
          BY <1>5, <2>4 DEF ToolEnded, session
      <3>2. t \in InFlight /\ Running
          BY <1>0, <2>4, ConstantTypes DEF addressed, InFlight, Running
      <3>3. ~run.held /\ run.id \notin streaming /\ InFlight = {t}
          BY <3>2 DEF WaitInv, Waits
      <3>4. InFlight' = {}
          BY <2>1, <3>1, <3>3 DEF InFlight
      <3> QED BY <2>1, <3>1, <3>2, <3>3, <3>4, HandlerWaits DEF At
    <2> QED BY <2>2, <2>3, <2>4
  <1>6. ASSUME NEW t \in tools, ToolEffect(t) PROVE WaitInv'
    <2> DEFINE done == [t EXCEPT !.effected = TRUE]
    <2>1. done.proposal = t.proposal
        BY DEF TypeOK, ToolTask
    <2>2. /\ UNCHANGED <<at, run, nextRun, open, streaming>>
          /\ tools' = (tools \ {t}) \union {done}
        BY <1>6 DEF ToolEffect, loop, session
    <2> HIDE DEF done
    <2>3. /\ InFlight = {} => InFlight' = {}
          /\ t \in InFlight => InFlight = {t} /\ InFlight' = {done}
          /\ t \notin InFlight => InFlight' = InFlight
        BY <2>1, <2>2 DEF InFlight, WaitInv, Waits
    <2>4. BusyOK' /\ Waits'
        BY <2>2, <2>3 DEF WaitInv, BusyOK, Waits, Running, Disposing
    <2>5. Fresh'
        BY <2>1, <2>2 DEF WaitInv, Fresh
    <2> QED BY <2>4, <2>5 DEF WaitInv
  <1> QED BY <1>1, <1>2, <1>3, <1>4, <1>5, <1>6

LEMMA NextWaits ==
  ASSUME TypeOK, WaitInv, [Next]_vars
  PROVE  WaitInv'
  <1>1. CASE Human
    <2>1. CASE RefuseModelSwitch
        BY <2>1, HaltWaits DEF RefuseModelSwitch
    <2> QED BY <1>1, <2>1, CommandsWait, AnswersWait, StartRunWaits DEF Human
  <1>2. CASE Loop
      BY <1>2, LoopWaits, StartedWorkWaits DEF Loop
  <1>3. CASE Mail \/ Environment
      BY <1>3, MailWaits, CommandsWait DEF Mail, Environment
  <1>4. CASE UNCHANGED vars
      BY <1>4, SameRunWaits DEF vars, session, loop, tasks
  <1> QED BY <1>1, <1>2, <1>3, <1>4 DEF Next

\* The inductive invariant; later proofs start from it.
LEMMA WaitsAlways == Spec => [](TypeOK /\ WaitInv)
  <1>1. Init => TypeOK /\ WaitInv
      BY InitTypeOK, InitWaitInv
  <1>2. TypeOK /\ WaitInv /\ [Next]_vars => TypeOK' /\ WaitInv'
      BY NextTypeOK, NextWaits DEF WaitInv
  <1> QED BY <1>1, <1>2, PTL DEF Spec

(***************************************************************************)
(* Type correctness of the run loop: every reachable state is well typed,   *)
(* and so is every index a handler uses (mod.rs, provider_loop.rs,          *)
(* tool_loop.rs, durability.rs).                                            *)
(***************************************************************************)
THEOREM TypeCorrect == Spec => []TypeOK
  BY WaitsAlways, PTL

-------------------------------------------------------------------------------
(* What the durable record of a session proves to whoever replays it.  These *)
(* invariants rest on the types and on WaitInv.                              *)

Known == TypeOK /\ WaitInv

LEMMA KnownAlways == Spec => []Known
  BY WaitsAlways, PTL DEF Known

-------------------------------------------------------------------------------
(* Checkpoints.  A checkpoint empties the tail, so it is only sound where    *)
(* the whole record replays to nothing: no run open in the record whenever   *)
(* the actor may write one.                                                  *)

LogInv ==
  /\ tail = full
  /\ tail.run = NoRun => tail = EmptyTracker
  /\ Running => tail.run = run.id /\ recovery = "Clean"
  /\ open /\ ~Running /\ recovery = "Clean" /\ ~storeFailed => tail = EmptyTracker

\* A session that cannot be let go of keeps its record: what the checkpoint would fold
\* away is settled.
LEMMA ReleaseFails ==
  ASSUME LogInv, ReleaseSession
  PROVE  \/ CanCheckpoint /\ LetGo
         \/ NoteStoreFailure /\ UNCHANGED <<session, at, run, tasks, tail>>
  BY DEF LogInv, ReleaseSession, Free, CanCheckpoint

\* Steps that leave the record's open run alone, or close it.
LEMMA RecordUntouched ==
  ASSUME LogInv, UNCHANGED <<tail, full>>,
         run'.id \in {run.id, NoRun},
         \/ run'.id = run.id /\ UNCHANGED <<open, recovery>>
            /\ (storeFailed => storeFailed')
         \/ run'.id = NoRun /\ (storeFailed' \/ ~open')
  PROVE  LogInv'
  BY DEF LogInv, Running

LEMMA RecordCleared ==
  ASSUME tail' = EmptyTracker, full' = EmptyTracker, run'.id = NoRun
  PROVE  LogInv'
  BY DEF LogInv, Running

\* One method of the tracker, applied to the whole record and to its tail alike.
LEMMA RecordAppended ==
  ASSUME Known, LogInv, Running, run'.id = run.id, UNCHANGED recovery,
         tail' = full', tail'.run = run.id
  PROVE  LogInv'
  BY DEF LogInv, Running

LEMMA LoopRecord ==
  ASSUME Known, LogInv, Loop
  PROVE  LogInv'
  <1> DEFINE Halt == HaltForStore
  <1>0. open /\ Running /\ run \in ActiveRun /\ tail \in Tracker /\ tail.run = run.id
      BY DEF Known, TypeOK, WaitInv, BusyOK, LogInv, Loop, BeginProviderTurn, DriveDone, DriveRefused,
             DrivePropose, AutoApprove, StartTool, RecordRefusal, ExhaustBudget, EndRun
  <1>1. CASE HaltForStore
      BY <1>1, RecordUntouched DEF HaltForStore, NoActiveRun, record
  <1>2. CASE BeginProviderTurn /\ ~Halt
    <2>1. run'.id = run.id
        BY <1>0, <1>2 DEF BeginProviderTurn, ActiveRun
    <2> QED BY <1>2, <2>1, RecordUntouched DEF BeginProviderTurn, record, NoteStoreFailure
  <1>3. CASE DriveDone \/ StartTool \/ DriveRefused \/ (ExhaustBudget /\ ~Halt)
    <2>1. run'.id = run.id
        BY <1>0, <1>3 DEF DriveDone, StartTool, DriveRefused, ExhaustBudget, Disposed, ActiveRun
    <2> QED BY <1>3, <2>1, RecordUntouched
            DEF DriveDone, StartTool, DriveRefused, ExhaustBudget, LoopFrame, session
  <1>4. CASE DrivePropose /\ ~Halt
    <2>1. run'.id = run.id
        BY <1>0, <1>4 DEF DrivePropose, ActiveRun
    <2>2. \E p, gated : tail' = propose(tail, run.id, p, gated)
                        /\ full' = propose(full, run.id, p, gated)
        BY <1>4 DEF DrivePropose
    <2>3. tail' = full' /\ tail'.run = run.id
        BY <1>0, <2>2 DEF LogInv, propose, Tracker
    <2> QED BY <1>0, <1>4, <2>1, <2>3, RecordAppended
            DEF DrivePropose, LoopFrame, session
  <1>5. CASE AutoApprove /\ ~Halt
    <2>1. tail' = full' /\ tail'.run = run.id
        BY <1>0, <1>5 DEF AutoApprove, LogInv, resolve_approval, Tracker
    <2> QED BY <1>0, <1>5, <2>1, RecordAppended DEF AutoApprove, LoopFrame, session
  <1>6. CASE RecordRefusal /\ ~Halt
    <2>1. tail' = full' /\ tail'.run = run.id
        BY <1>0, <1>6 DEF RecordRefusal, LogInv, settle, Tracker
    <2>2. run'.id = run.id
        BY <1>0, <1>6 DEF RecordRefusal, Disposed, ActiveRun
    <2> QED BY <1>0, <1>6, <2>1, <2>2, RecordAppended
            DEF RecordRefusal, LoopFrame, session
  <1>7. CASE EndRun /\ ~Halt
    <2>1. full' = EmptyTracker /\ tail' = EmptyTracker /\ run'.id = NoRun
        BY <1>0, <1>7 DEF EndRun, LogInv, close_run, NoActiveRun
    <2> QED BY <2>1, RecordCleared
  <1> QED BY <1>1, <1>2, <1>3, <1>4, <1>5, <1>6, <1>7 DEF Loop

LEMMA MailRecord ==
  ASSUME Known, LogInv, Mail \/ Environment
  PROVE  LogInv'
  <1>1. CASE HaltForStore
      BY <1>1, RecordUntouched DEF HaltForStore, NoActiveRun, record
  <1>2. CASE Crash
      BY <1>2, RecordUntouched DEF Crash, LetGo, NoActiveRun, record
  <1>3. ASSUME NEW r \in RunId, ProviderEnded(r) \/ BudgetExpired(r) \/ TimerFires(r),
               ~HaltForStore
        PROVE  LogInv'
    <2>1. run'.id = run.id
        BY <1>3 DEF ProviderEnded, BudgetExpired, TimerFires, loop, Known, TypeOK, ActiveRun
    <2> QED BY <1>3, <2>1, RecordUntouched
            DEF ProviderEnded, BudgetExpired, TimerFires, loop, LoopFrame, session, record
  <1>4. ASSUME NEW t \in tools, ToolEffect(t) PROVE LogInv'
      BY <1>4, RecordUntouched DEF ToolEffect, session, loop, record
  <1>5. ASSUME NEW t \in tools, ToolEnded(t), ~HaltForStore PROVE LogInv'
    <2>1. CASE UNCHANGED <<tail, full, session, run, storeFailed>>
        BY <2>1, RecordUntouched DEF session
    <2>2. CASE /\ tail' = settle(tail, run.id) /\ full' = settle(full, run.id)
               /\ addressed(runOf(t.proposal)) /\ UNCHANGED run
      <3>1. Running
          BY <2>2, ConstantTypes DEF Known, TypeOK, ToolTask, addressed, Running
      <3>2. tail' = full' /\ tail'.run = run.id
          BY <2>2, <3>1 DEF LogInv, settle, Tracker, Known, TypeOK
      <3>3. UNCHANGED recovery
          BY <1>5 DEF ToolEnded, LoopFrame, session
      <3> QED BY <2>2, <3>1, <3>2, <3>3, RecordAppended
    <2> QED BY <1>5, <2>1, <2>2 DEF ToolEnded, loop, LoopFrame
  <1> QED BY <1>1, <1>2, <1>3, <1>4, <1>5 DEF Mail, Environment, ProviderRecordFails

LEMMA HumanRecord ==
  ASSUME Known, LogInv, Human
  PROVE  LogInv'
  <1>1. CASE HaltForStore
      BY <1>1, RecordUntouched DEF HaltForStore, NoActiveRun, record
  <1>2. ASSUME NEW external \in BOOLEAN, StartRun(external) PROVE LogInv'
    <2>1. CASE UNCHANGED <<run, tail, full>> /\ (storeFailed => storeFailed')
        BY <1>2, <2>1, RecordUntouched DEF StartRun
    <2>2. CASE /\ run' = [NoActiveRun EXCEPT !.id = nextRun]
               /\ tail' = open_run(tail, nextRun) /\ full' = open_run(full, nextRun)
               /\ ~Blocked
      <3>1. nextRun # NoRun
          BY <1>2, ConstantTypes DEF StartRun
      <3>2. UNCHANGED recovery /\ recovery = "Clean"
          BY <1>2, <2>2 DEF StartRun, Blocked
      <3> QED BY <2>2, <3>1, <3>2 DEF LogInv, Running, open_run, NoActiveRun
    <2> QED BY <1>2, <2>1, <2>2, Zenon DEF StartRun
  <1>3. CASE QueueSteering \/ CancelRun
    <2>1. run'.id = run.id
        BY <1>3 DEF QueueSteering, CancelRun, loop, Known, TypeOK, ActiveRun
    <2> QED BY <1>3, <2>1, RecordUntouched
            DEF QueueSteering, CancelRun, loop, session, record
  <1>4. ASSUME NEW p \in ProposalId, NEW d \in ApprovalDecision,
               ResolveApproval(p, d), ~HaltForStore
        PROVE  LogInv'
    <2>1. run'.id = run.id /\ Running
        BY <1>4 DEF ResolveApproval, Known, TypeOK, ActiveRun
    <2>2. \E approved : /\ tail' = resolve_approval(tail, run.id, p, approved)
                         /\ full' = resolve_approval(full, run.id, p, approved)
        BY <1>4, Zenon DEF ResolveApproval
    <2>3. tail' = full' /\ tail'.run = run.id
        BY <2>1, <2>2 DEF LogInv, resolve_approval, Tracker, Known, TypeOK
    <2> QED BY <1>4, <2>1, <2>3, RecordAppended DEF ResolveApproval
  <1>5. CASE \/ \E mode \in Mode : SetPolicy(mode)
             \/ \E tier \in ModelTiers : SelectModel(tier)
      BY <1>5, RecordUntouched DEF SetPolicy, SelectModel, NoteStoreFailure, record
  <1>6. CASE EndSession
    <2>1. CASE EndSessionSteps
        BY <1>6, <2>1, RecordCleared
        DEF EndSession, EndSessionSteps, LetGo, clear, Running, NoActiveRun
    <2>2. CASE NoteStoreFailure /\ UNCHANGED <<session, at, run, tasks, record>>
        BY <2>2, RecordUntouched DEF NoteStoreFailure, session, record
    <2> QED BY <1>6, <2>1, <2>2 DEF EndSession
  <1>7. CASE ResolveRecovery \/ ResolveRecoveryByEnding
    <2>1. CASE NoteStoreFailure /\ UNCHANGED <<open, recovery, record, run>>
        BY <2>1, RecordUntouched DEF NoteStoreFailure, record
    <2>2. ~Running
        BY <1>7 DEF ResolveRecovery, ResolveRecoveryByEnding, LogInv
    <2>3. CASE tail' = clear(tail) /\ full' = clear(full)
                /\ (UNCHANGED run \/ LetGo)
      <3>1. run'.id = NoRun
          BY <2>2, <2>3 DEF LetGo, NoActiveRun, Running
      <3> QED BY <2>3, <3>1, RecordCleared DEF clear
    <2> QED BY <1>7, <2>1, <2>3 DEF ResolveRecovery, ResolveRecoveryByEnding
  <1>8. CASE ReleaseSession \/ Shutdown
    <2>1. CASE CanCheckpoint /\ LetGo /\ tail' = EmptyTracker /\ UNCHANGED full
      <3>1. full' = EmptyTracker
          BY <1>8, <2>1 DEF ReleaseSession, Shutdown, Free, CanCheckpoint, LogInv
      <3> QED BY <2>1, <3>1, RecordCleared DEF LetGo, NoActiveRun
    <2>2. CASE LetGo /\ UNCHANGED <<tail, full>>
        BY <2>2, RecordUntouched DEF LetGo, NoActiveRun
    <2>3. CASE NoteStoreFailure /\ UNCHANGED <<session, run, tail, full>>
        BY <2>3, RecordUntouched DEF NoteStoreFailure, session
    <2>4. CASE /\ CanCheckpoint /\ NoteStoreFailure /\ tail' = EmptyTracker
               /\ UNCHANGED <<session, run, full>>
      <3>1. full = EmptyTracker /\ tail = EmptyTracker
          BY <1>8, <2>4 DEF ReleaseSession, Shutdown, Free, CanCheckpoint, LogInv
      <3> QED BY <2>3, <2>4, <3>1
    <2> QED BY <1>8, <2>1, <2>2, <2>3, <2>4 DEF ReleaseSession, Shutdown
  <1>9. CASE Resume
    <2>1. ~Running
        BY <1>9 DEF Resume, Known, WaitInv, Waits
    <2>2. tail \in Tracker /\ recovery' = finish(tail) /\ UNCHANGED <<run, tail, full>>
        BY <1>9 DEF Resume, Known, TypeOK, record
    <2>3. finish(tail) = "Clean" => tail.run = NoRun
        BY <2>2 DEF finish, Tracker, WorkStage
    <2> QED BY <2>1, <2>2, <2>3 DEF LogInv, Running
  <1>10. CASE ResumeWhileOpen
      BY <1>10, RecordUntouched DEF ResumeWhileOpen, NoteStoreFailure, session, record
  <1> QED BY <1>1, <1>2, <1>3, <1>4, <1>5, <1>6, <1>7, <1>8, <1>9,
            <1>10 DEF Human, RefuseModelSwitch

LEMMA LogAlways == Spec => []LogInv
  <1>1. Init => LogInv
      BY DEF Init, LogInv, EmptyTracker, NoActiveRun, Running
  <1>2. Known /\ LogInv /\ [Next]_vars => LogInv'
    <2> SUFFICES ASSUME Known, LogInv, [Next]_vars PROVE LogInv'
        OBVIOUS
    <2>1. CASE UNCHANGED vars
        BY <2>1 DEF vars, session, loop, record, LogInv, Running
    <2> QED BY <2>1, LoopRecord, MailRecord, HumanRecord DEF Next
  <1> QED BY <1>1, <1>2, KnownAlways, PTL DEF Spec

(***************************************************************************)
(* A checkpoint is only an optimisation: whatever the interleaving, what a  *)
(* replay of the latest checkpoint and its tail reports is what a replay of *)
(* the whole record reports (finish_run, release_session, shutdown,         *)
(* checkpoint against runtime/recovery.rs).                                 *)
(***************************************************************************)
THEOREM CheckpointsHideNothing == Spec => []CheckpointIsOnlyAnOptimisation
  <1>1. LogInv => CheckpointIsOnlyAnOptimisation
      BY DEF LogInv, CheckpointIsOnlyAnOptimisation
  <1> QED BY <1>1, LogAlways, PTL

-------------------------------------------------------------------------------
(* Authority.  A clamp is not in the record, so the replayed mode may be     *)
(* wider than the mode in force; carrying it forward is what makes up for it.*)

LEMMA CarriedForwardBelowEveryClamp ==
  ASSUME NEW m \in PolicyMode, NEW asked \in PolicyMode, NEW tier \in GovernanceTier,
         width(carried_forward(m)) <= width(asked)
  PROVE  /\ width(carried_forward(m)) <= width(clamp(tier, asked))
         /\ width(carried_forward(asked)) <= width(asked)
         /\ width(carried_forward(asked)) <= width(clamp(tier, asked))
         /\ carried_forward(asked) \in PolicyMode
  BY DEF PolicyMode, GovernanceTier, carried_forward, clamp, narrower_of, width

LEMMA NextNeverWidens ==
  ASSUME TypeOK, ResumeNeverWidens, [Next]_vars
  PROVE  ResumeNeverWidens'
  <1>0. /\ policy \in PolicyMode /\ logPolicy \in PolicyMode
        /\ modelTier \in GovernanceTier
      BY LimitAssumption DEF TypeOK
  <1>1. CASE UNCHANGED <<open, policy, logPolicy>>
      BY <1>1 DEF ResumeNeverWidens
  <1>2. CASE ~open'
      BY <1>2 DEF ResumeNeverWidens
  <1>3. ASSUME NEW external \in BOOLEAN, StartRun(external) PROVE ResumeNeverWidens'
    <2>1. PICK okCap \in BOOLEAN, okClamp \in BOOLEAN :
            NarrowPolicy(external, okCap, okClamp)
        BY <1>3 DEF StartRun
    <2> DEFINE capped == policy_ceiling(external, policy)
               asked == IF okCap THEN capped ELSE policy
    <2>2. asked \in {policy, carried_forward(policy)}
        BY DEF policy_ceiling
    <2>3. /\ policy' \in {asked, clamp(modelTier, asked)}
          /\ logPolicy' = IF asked # policy THEN asked ELSE logPolicy
        BY <2>1 DEF NarrowPolicy
    <2>4. width(carried_forward(logPolicy)) <= width(policy) /\ asked \in PolicyMode
        BY <1>0, <1>3, <2>2, PolicyTypes DEF StartRun, Free, ResumeNeverWidens
    <2> HIDE DEF asked
    <2>5. CASE asked = policy
        BY <1>0, <2>3, <2>4, <2>5, CarriedForwardBelowEveryClamp
        DEF ResumeNeverWidens
    <2>6. CASE asked # policy
      <3>1. logPolicy' = asked
          BY <2>3, <2>6
      <3>2. asked = "Ask"
          BY <2>2, <2>6 DEF carried_forward
      <3>3. width(carried_forward(asked)) <= width(asked)
            /\ width(carried_forward(asked)) <= width(clamp(modelTier, asked))
          BY <1>0, <3>2 DEF carried_forward, clamp, narrower_of, width, GovernanceTier
      <3> QED BY <2>3, <3>1, <3>3 DEF ResumeNeverWidens
    <2> QED BY <2>5, <2>6
  <1>4. CASE \E mode \in Mode : SetPolicy(mode)
    <2>1. \A m \in PolicyMode : width(carried_forward(m)) <= width(m)
        BY DEF PolicyMode, carried_forward, width
    <2> QED BY <1>4, <2>1, LimitAssumption DEF SetPolicy, ResumeNeverWidens
  <1>5. CASE \E tier \in ModelTiers : SelectModel(tier)
      BY <1>0, <1>5, CarriedForwardBelowEveryClamp, LimitAssumption
      DEF SelectModel, Free, ResumeNeverWidens, record
  <1>6. CASE EndRun
    <2>1. width(carried_forward(policy)) <= width(policy)
        BY <1>0 DEF PolicyMode, carried_forward, width
    <2>2. UNCHANGED <<open, policy>> /\ logPolicy' \in {policy, logPolicy}
        BY <1>6 DEF EndRun, HaltForStore, session, record
    <2> QED BY <2>1, <2>2 DEF ResumeNeverWidens
  <1>7. CASE Resume
      BY <1>0, <1>7 DEF Resume, ResumeNeverWidens, record, PolicyMode,
                        carried_forward, width
  <1>8. CASE LetGo
      BY <1>2, <1>8 DEF LetGo
  <1>a. CASE UNCHANGED policy /\ logPolicy' = policy
    <2>1. width(carried_forward(policy)) <= width(policy)
        BY <1>0 DEF PolicyMode, carried_forward, width
    <2> QED BY <1>a, <2>1 DEF ResumeNeverWidens
  <1>9. CASE Human
    <2>1. CASE QueueSteering \/ CancelRun \/ EndSession \/ ResolveRecovery
               \/ ResolveRecoveryByEnding \/ ReleaseSession \/ Shutdown
               \/ ResumeWhileOpen \/ RefuseModelSwitch
        BY <1>1, <1>8, <1>a, <2>1
        DEF RefuseModelSwitch, HaltForStore, QueueSteering, CancelRun, EndSession, EndSessionSteps, ResolveRecovery,
            ResolveRecoveryByEnding, ReleaseSession, Shutdown, ResumeWhileOpen,
            session, record
    <2>2. ASSUME NEW p \in ProposalId, NEW d \in ApprovalDecision,
                 ResolveApproval(p, d)
          PROVE  ResumeNeverWidens'
        BY <1>1, <2>2 DEF ResolveApproval, HaltForStore, session, record
    <2> QED BY <1>3, <1>4, <1>5, <1>7, <1>9, <2>1, <2>2 DEF Human
  <1>10. CASE Loop
      BY <1>1, <1>6, <1>10
      DEF Loop, BeginProviderTurn, DriveDone, DriveRefused, DrivePropose, AutoApprove,
          StartTool, RecordRefusal, ExhaustBudget, HaltForStore, LoopFrame, session,
          record
  <1>11. CASE Mail \/ Environment
      BY <1>1, <1>8, <1>11
      DEF Mail, Environment, ProviderEnded, ProviderRecordFails, ToolEffect,
          ToolEnded, TimerFires, BudgetExpired, Crash, HaltForStore, LoopFrame,
          session, record
  <1>12. CASE UNCHANGED vars
      BY <1>1, <1>12 DEF vars, session, record
  <1> QED BY <1>9, <1>10, <1>11, <1>12 DEF Next

(***************************************************************************)
(* No restart widens authority: for every floor declared for a model and    *)
(* every mode a human selects, the policy a resume would restore is never   *)
(* wider than the policy in force (PolicyMode::carried_forward,             *)
(* apply_governance_floor, resume_session).                                 *)
(***************************************************************************)
THEOREM RestartNeverWidens == Spec => []ResumeNeverWidens
  <1>1. Init => ResumeNeverWidens
      BY DEF Init, ResumeNeverWidens, carried_forward, width
  <1> QED BY <1>1, TypeCorrect, NextNeverWidens, PTL DEF Spec

-------------------------------------------------------------------------------
(* Effects.  The invariant follows a proposal from its reservation, when     *)
(* nothing has happened to it, over its gate to its one task.                *)

\* Proposals nothing has happened to: of runs to come, or not reserved yet.
Unused(p) == runOf(p) >= nextRun \/ (runOf(p) = run.id /\ p[2] > run.tool_calls)

\* No effect, and no task that could still cause one.
Idle(p) == effects[p] = 0 /\ \A t \in tools : t.proposal # p

Authorised(p) ==
  authority[p] # "none" /\ ledger[p] \notin {"none", "gated", "denied"}

TaskInv ==
  /\ \A p \in ProposalId : effects[p] > 0 => effects[p] = 1 /\ Authorised(p)
  /\ \A t \in tools : /\ Authorised(t.proposal)
                      /\ effects[t.proposal] = IF t.effected THEN 1 ELSE 0
  /\ \A t, u \in tools : t.proposal = u.proposal => t = u
  /\ \A p \in ProposalId : Unused(p) => Idle(p)

\* The gate: what is about to start is idle, and authorised by the record; what
\* waits in the record is what the actor holds, and nothing of it ran.
GateInv ==
  /\ at \in {"auto", "start"} \/ run.held =>
       Idle(run.proposal) /\ ~Unused(run.proposal)
  /\ at = "start" => Authorised(run.proposal) /\ tail.stage # "awaiting"
  /\ at = "auto" \/ run.held =>
       tail.stage = "awaiting" /\ tail.proposal = run.proposal
  /\ tail.stage = "awaiting" => /\ tail.run # NoRun /\ tail.proposal \in ProposalId
                                /\ Idle(tail.proposal) /\ ~Unused(tail.proposal)

EffectInv == TaskInv /\ GateInv

\* Everything a proof about effects may assume.
Sound == TypeOK /\ WaitInv /\ LogInv

LEMMA SoundAlways == Spec => []Sound
  BY KnownAlways, LogAlways, PTL DEF Known, Sound

LEMMA UnusedShrinks ==
  ASSUME UNCHANGED nextRun, TypeOK,
         \/ run'.id = NoRun
         \/ /\ run'.id = run.id /\ run'.tool_calls \in Nat
            /\ run'.tool_calls >= run.tool_calls
  PROVE  \A p \in ProposalId : Unused(p)' => Unused(p)
  <1> SUFFICES ASSUME NEW p \in ProposalId, Unused(p)' PROVE Unused(p)
      OBVIOUS
  <1>1. /\ runOf(p) \in RunId /\ run.tool_calls \in Nat
        /\ p[2] \in Nat
      BY ConstantTypes, LimitAssumption DEF ProposalId, TypeOK, ActiveRun
  <1> QED BY <1>1, ConstantTypes DEF Unused

\* Steps that authorise nothing, start nothing and hold nothing new.
LEMMA EffectFrame ==
  ASSUME TypeOK, EffectInv, UNCHANGED <<effects, authority>>, tools' \subseteq tools,
         \A p \in ProposalId : ledger'[p] \in {ledger[p], "settled", "abandoned"},
         \A p \in ProposalId : Unused(p)' => Unused(p),
         at' \in {"auto", "start"} => at' = at /\ UNCHANGED <<run, tail, ledger>>,
         run'.held => run.held /\ run'.proposal = run.proposal /\ tail' = tail,
         tail'.stage = "awaiting" => tail' = tail,
         run'.held => run'.proposal \in ProposalId,
         at' \in {"auto", "start"} => run.proposal \in ProposalId
  PROVE  EffectInv'
  <1>1. \A p \in ProposalId : Authorised(p) => Authorised(p)'
      BY DEF Authorised
  <1>2. \A p \in ProposalId : Idle(p) => Idle(p)'
      BY DEF Idle
  <1>3. \A t \in tools : t.proposal \in ProposalId
      BY DEF TypeOK, ToolTask
  <1>4. TaskInv'
      BY <1>1, <1>2, <1>3 DEF EffectInv, TaskInv
  <1>5. GateInv'
      BY <1>1, <1>2 DEF EffectInv, GateInv
  <1> QED BY <1>4, <1>5 DEF EffectInv

LEMMA AbandonOnlyAbandons ==
  \A p \in ProposalId : Abandon[p] \in {ledger[p], "settled", "abandoned"}
  BY DEF Abandon

\* Whoever drops the run lets every proposal of it be.
LEMMA DroppedRunEffects ==
  ASSUME TypeOK, EffectInv, run' = NoActiveRun, at' = "mailbox", UNCHANGED nextRun,
         UNCHANGED <<effects, authority>>, tools' \subseteq tools,
         ledger' \in {ledger, Abandon},
         tail'.stage = "awaiting" => tail' = tail
  PROVE  EffectInv'
  <1>1. ~run'.held /\ run'.id = NoRun
      BY DEF NoActiveRun
  <1>2. \A p \in ProposalId : Unused(p)' => Unused(p)
      BY <1>1, UnusedShrinks
  <1>3. \A p \in ProposalId : ledger'[p] \in {ledger[p], "settled", "abandoned"}
      BY AbandonOnlyAbandons
  <1> QED BY <1>1, <1>2, <1>3, EffectFrame

LEMMA HaltEffects ==
  ASSUME TypeOK, EffectInv, HaltForStore, tools' \subseteq tools
  PROVE  EffectInv'
  BY DroppedRunEffects DEF HaltForStore, session, record

\* The actor stays where it is with the run it has.
LEMMA SameRunEffects ==
  ASSUME Sound, EffectInv, UNCHANGED <<run, nextRun, effects, authority>>, at' = at,
         tools' \subseteq tools,
         \/ UNCHANGED <<tail, ledger>>
         \/ /\ at = "mailbox" /\ ~run.held
            /\ tail' = EmptyTracker /\ ledger' \in {ledger, Abandon}
  PROVE  EffectInv'
  <1>1. run.tool_calls \in Nat
      BY DEF Sound, TypeOK, ActiveRun
  <1>2. \A p \in ProposalId : Unused(p)' => Unused(p)
      BY <1>1, UnusedShrinks DEF Sound
  <1>3. \A p \in ProposalId : ledger'[p] \in {ledger[p], "settled", "abandoned"}
      BY AbandonOnlyAbandons
  <1>4. /\ at \in {"auto", "start"} => run.proposal \in ProposalId
        /\ run.held => run.proposal \in ProposalId
      BY DEF Sound, WaitInv, BusyOK, Waits, Disposing
  <1>5. EmptyTracker.stage # "awaiting"
      BY DEF EmptyTracker
  <1> QED BY <1>2, <1>3, <1>4, <1>5, EffectFrame DEF Sound

LEMMA HumanEffects ==
  ASSUME Sound, EffectInv, Human,
         ~ \E p \in ProposalId, d \in ApprovalDecision : ResolveApproval(p, d)
  PROVE  EffectInv'
  <1>0. TypeOK /\ (~Running => ~run.held) /\ (Running => recovery = "Clean")
        /\ (~open => at = "mailbox" /\ ~Running) /\ EmptyTracker.stage # "awaiting"
    <2>1. ~Running => ~run.held
        BY ConstantTypes DEF Sound, WaitInv, Waits, Disposing, Running
    <2> QED BY <2>1 DEF Sound, WaitInv, BusyOK, Waits, LogInv, EmptyTracker
  <1>1. ASSUME NEW external \in BOOLEAN, StartRun(external) PROVE EffectInv'
    <2>1. CASE UNCHANGED <<at, run, nextRun, tail>>
        BY <1>1, <2>1, SameRunEffects DEF StartRun
    <2>2. CASE /\ run' = [NoActiveRun EXCEPT !.id = nextRun]
               /\ at' = "turn" /\ nextRun' = nextRun + 1
               /\ tail' = open_run(tail, nextRun)
      <3>1. /\ run'.id = nextRun /\ ~run'.held /\ run'.tool_calls = 0
            /\ tail'.stage # "awaiting"
          BY <2>2 DEF NoActiveRun, open_run
      <3>2. ASSUME NEW p \in ProposalId, Unused(p)' PROVE Unused(p)
        <4>1. runOf(p) \in Nat /\ nextRun \in Nat
            BY <1>0, ConstantTypes DEF TypeOK
        <4> QED BY <2>2, <3>1, <3>2, <4>1 DEF Unused
      <3> QED BY <1>0, <1>1, <2>2, <3>1, <3>2, EffectFrame DEF StartRun
    <2> QED BY <1>1, <2>1, <2>2, Zenon DEF StartRun
  <1>2. CASE CancelRun
    <2>1. /\ run'.id = run.id /\ run'.held = run.held /\ run'.proposal = run.proposal
          /\ run'.tool_calls = run.tool_calls /\ run.tool_calls \in Nat
          /\ at' \in {"finish", "mailbox"}
        BY <1>0, <1>2 DEF CancelRun, TypeOK, ActiveRun
    <2>2. \A p \in ProposalId : Unused(p)' => Unused(p)
        BY <1>0, <1>2, <2>1, UnusedShrinks DEF CancelRun, session
    <2>3. run.held => run.proposal \in ProposalId
        BY DEF Sound, WaitInv, Waits, Disposing
    <2> QED BY <1>0, <1>2, <2>1, <2>2, <2>3, EffectFrame DEF CancelRun, session, record
  <1>3. CASE QueueSteering \/ ResumeWhileOpen
             \/ (\E mode \in Mode : SetPolicy(mode))
             \/ (\E tier \in ModelTiers : SelectModel(tier))
      BY <1>3, SameRunEffects
      DEF QueueSteering, ResumeWhileOpen, SetPolicy, SelectModel, session, loop, tasks,
          record
  <1>4. CASE Resume
      BY <1>4, SameRunEffects DEF Resume, tasks, record
  <1>5. CASE EndSession \/ ResolveRecovery \/ ResolveRecoveryByEnding
    <2>1. ~Running /\ at = "mailbox"
        BY <1>0, <1>5 DEF EndSession, ResolveRecovery, ResolveRecoveryByEnding, Free
    <2>2. CASE /\ UNCHANGED <<run, nextRun, effects, authority, at, tools>>
               /\ \/ UNCHANGED <<tail, ledger>>
                  \/ tail' = EmptyTracker /\ ledger' \in {ledger, Abandon}
        BY <1>0, <2>1, <2>2, SameRunEffects
    <2>3. CASE LetGo /\ tail' = EmptyTracker /\ ledger' = Abandon /\ UNCHANGED authority
        BY <1>0, <2>3, DroppedRunEffects DEF LetGo
    <2> QED BY <1>5, <2>2, <2>3
            DEF EndSession, EndSessionSteps, ResolveRecovery, ResolveRecoveryByEnding,
                clear, session, tasks, record
  <1>6. CASE ReleaseSession \/ Shutdown
    <2>1. CASE LetGo /\ tail' \in {tail, EmptyTracker} /\ UNCHANGED <<ledger, authority>>
        BY <1>0, <2>1, DroppedRunEffects DEF LetGo
    <2>2. CASE UNCHANGED <<session, at, run, tasks, tail, ledger, authority>>
        BY <2>2, SameRunEffects DEF session, tasks
    <2> QED BY <1>6, <2>1, <2>2, ReleaseFails DEF ReleaseSession, Shutdown, Sound
  <1>7. CASE RefuseModelSwitch
      BY <1>0, <1>7, HaltEffects DEF RefuseModelSwitch
  <1> QED BY <1>1, <1>2, <1>3, <1>4, <1>5, <1>6, <1>7 DEF Human

LEMMA QuietLoopEffects ==
  ASSUME Sound, EffectInv,
         \/ BeginProviderTurn \/ DriveDone \/ DriveRefused \/ RecordRefusal
         \/ ExhaustBudget \/ EndRun
  PROVE  EffectInv'
  <1>0. TypeOK /\ run \in ActiveRun /\ run.tool_calls \in Nat /\ run.tool_calls + 1 \in Nat
      BY DEF Sound, TypeOK, ActiveRun
  <1>1. CASE HaltForStore /\ tools' \subseteq tools
      BY <1>0, <1>1, HaltEffects
  <1>2. CASE EndRun /\ ~HaltForStore
      BY <1>0, <1>2, DroppedRunEffects, SettleTypes
      DEF EndRun, session, EmptyTracker, close_run
  <1>3. CASE BeginProviderTurn \/ DriveDone \/ DriveRefused \/ RecordRefusal
             \/ (ExhaustBudget /\ ~HaltForStore)
    <2>1. CASE HaltForStore
        BY <1>1, <1>3, <2>1
        DEF BeginProviderTurn, DriveDone, DriveRefused, RecordRefusal, ExhaustBudget, tasks
    <2>2. CASE ~HaltForStore
      <3>1. /\ run'.id = run.id /\ run'.tool_calls \in {run.tool_calls, run.tool_calls + 1}
            /\ run'.held = run.held
          BY <1>0, <1>3, <2>2
          DEF BeginProviderTurn, DriveDone, DriveRefused, RecordRefusal, ExhaustBudget,
              Disposed, ActiveRun
      <3>2. UNCHANGED <<nextRun, effects, authority, tools>>
          BY <1>3, <2>2
          DEF BeginProviderTurn, DriveDone, DriveRefused, RecordRefusal, ExhaustBudget,
              LoopFrame, session, tasks, record
      <3>3. \A p \in ProposalId : Unused(p)' => Unused(p)
          BY <1>0, <3>1, <3>2, UnusedShrinks
      <3>4. at' \notin {"auto", "start"}
          BY <1>3, <2>2
          DEF BeginProviderTurn, DriveDone, DriveRefused, RecordRefusal, ExhaustBudget
      <3>5. \A p \in ProposalId : ledger'[p] \in {ledger[p], "settled", "abandoned"}
          BY <1>0, <1>3, <2>2
          DEF BeginProviderTurn, DriveDone, DriveRefused, RecordRefusal, ExhaustBudget,
              record, TypeOK
      <3>6. tail' \in {tail, settle(tail, run.id)}
          BY <1>3, <2>2
          DEF BeginProviderTurn, DriveDone, DriveRefused, RecordRefusal, ExhaustBudget,
              record
      <3>7. tail'.stage = "awaiting" => tail' = tail
          BY <1>0, <3>6 DEF settle, TypeOK, Tracker
      <3>8. run'.held => run'.proposal = run.proposal /\ tail' = tail
                         /\ run.proposal \in ProposalId
          BY <1>0, <1>3, <2>2, <3>1
          DEF BeginProviderTurn, DriveDone, DriveRefused, RecordRefusal, ExhaustBudget,
              Sound, WaitInv, Waits, Disposing, ActiveRun
      <3> QED BY <1>0, <3>1, <3>2, <3>3, <3>4, <3>5, <3>7, <3>8, EffectFrame
    <2> QED BY <2>1, <2>2
  <1> QED BY <1>1, <1>2, <1>3 DEF EndRun, ExhaustBudget

\* Answers that arrive leave effects and authority alone; a dead run's change
\* nothing, a live run's result settles its proposal.
LEMMA MailEffects ==
  ASSUME Sound, EffectInv,
         \/ \E r \in RunId : \/ ProviderEnded(r) \/ ProviderRecordFails(r)
                             \/ BudgetExpired(r) \/ TimerFires(r)
         \/ \E t \in tools : ToolEnded(t)
         \/ Crash
  PROVE  EffectInv'
  <1>0. TypeOK /\ run \in ActiveRun /\ run.tool_calls \in Nat
      BY DEF Sound, TypeOK, ActiveRun
  <1>1. CASE HaltForStore /\ tools' \subseteq tools
      BY <1>0, <1>1, HaltEffects
  <1>2. CASE Crash
      BY <1>0, <1>2, DroppedRunEffects DEF Crash, LetGo, record
  <1>3. ASSUME NEW r \in RunId, ~HaltForStore,
               ProviderEnded(r) \/ BudgetExpired(r) \/ TimerFires(r)
        PROVE  EffectInv'
    <2>1. CASE UNCHANGED <<at, run>>
        BY <1>3, <2>1, SameRunEffects
        DEF ProviderEnded, BudgetExpired, TimerFires, LoopFrame, session, record, loop
    <2>2. CASE ~UNCHANGED <<at, run>>
      <3>1. /\ run'.id = run.id /\ run'.tool_calls = run.tool_calls
            /\ run'.held = run.held /\ run'.proposal = run.proposal
            /\ at' \notin {"auto", "start"}
          BY <1>0, <1>3, <2>2
          DEF ProviderEnded, BudgetExpired, TimerFires, loop, ActiveRun
      <3>2. UNCHANGED <<nextRun, effects, authority, tools, tail, ledger>>
          BY <1>3, <2>2
          DEF ProviderEnded, BudgetExpired, TimerFires, LoopFrame, session, record, loop
      <3>3. \A p \in ProposalId : Unused(p)' => Unused(p)
          BY <1>0, <3>1, <3>2, UnusedShrinks
      <3>4. run.held => run.proposal \in ProposalId
          BY DEF Sound, WaitInv, Waits, Disposing
      <3> QED BY <1>0, <3>1, <3>2, <3>3, <3>4, EffectFrame
    <2> QED BY <2>1, <2>2
  <1>4. ASSUME NEW t \in tools, ToolEnded(t), ~HaltForStore PROVE EffectInv'
    <2>1. CASE UNCHANGED <<at, run, nextRun, tail, ledger>>
        BY <1>4, <2>1, SameRunEffects DEF ToolEnded
    <2>2. CASE addressed(runOf(t.proposal))
      <3>1. ~run.held /\ t.proposal \in ProposalId
        <4>1. t \in InFlight
            BY <2>2 DEF addressed, InFlight
        <4> QED BY <1>0, <4>1 DEF Sound, WaitInv, Waits, TypeOK, ToolTask
      <3>2. UNCHANGED <<run, nextRun, effects, authority>> /\ tools' \subseteq tools
            /\ at' \notin {"auto", "start"}
          BY <1>4, <2>2 DEF ToolEnded, session
      <3>3. \A p \in ProposalId : Unused(p)' => Unused(p)
          BY <1>0, <3>2, UnusedShrinks
      <3>4. \A p \in ProposalId : ledger'[p] \in {ledger[p], "settled", "abandoned"}
          BY <1>0, <1>4, <2>2 DEF ToolEnded, TypeOK
      <3>5. tail'.stage = "awaiting" => tail' = tail
          BY <1>0, <1>4, <2>2 DEF ToolEnded, settle, TypeOK, Tracker
      <3> QED BY <1>0, <3>1, <3>2, <3>3, <3>4, <3>5, EffectFrame
    <2> QED BY <1>4, <2>1, <2>2 DEF ToolEnded, loop, LoopFrame, session
  <1> QED BY <1>1, <1>2, <1>3, <1>4 
         DEF ProviderRecordFails, ProviderEnded, ToolEnded, BudgetExpired, TimerFires

\* A fresh proposal is idle; the gate decides what its record says.
LEMMA ProposalEffects ==
  ASSUME Sound, EffectInv, DrivePropose
  PROVE  EffectInv'
  <1> DEFINE call == Head(run.pending_tools)
             gate == gate_decision(call)
             auto == auto_approval(call)
             gated == gate = "Ask" \/ auto
  <1>0. /\ TypeOK /\ run \in ActiveRun /\ run.tool_calls \in Nat
        /\ at = "drive" /\ ~run.held /\ Running
        /\ tail \in Tracker /\ tail.run = run.id
        /\ ledger \in [ProposalId -> LedgerEntry]
        /\ authority \in [ProposalId -> AuthorityKind]
      BY DEF Sound, WaitInv, BusyOK, Waits, LogInv, TypeOK, ActiveRun, DrivePropose
  <1>1. CASE HaltForStore /\ UNCHANGED <<streaming, tools>>
      BY <1>0, <1>1, HaltEffects
  <1>2. CASE ~(HaltForStore /\ UNCHANGED <<streaming, tools>>)
    <2>1. <<run.id, run.tool_calls + 1>> \in ProposalId /\ call \in Call
        BY <1>0, ReservedProposal DEF DrivePropose, Sound, WaitInv
    <2>2. PICK p \in ProposalId : p = <<run.id, run.tool_calls + 1>>
        BY <2>1
    <2>3. /\ run'.id = run.id /\ run'.tool_calls = run.tool_calls + 1
          /\ run'.held = (gate = "Ask") /\ run'.proposal = p
        BY <1>0, <1>2, <2>2 DEF DrivePropose, ActiveRun
    <2>4. /\ UNCHANGED <<nextRun, effects, tools>>
          /\ tail' = propose(tail, run.id, p, gated)
          /\ ledger' = [ledger EXCEPT ![p] = IF gated THEN "gated" ELSE "intended"]
          /\ authority' = [authority EXCEPT ![p] =
                             IF gate = "Allow" /\ ~auto THEN "policy" ELSE @]
        BY <1>2, <2>2 DEF DrivePropose, LoopFrame, session, tasks
    <2>5. gate \in {"Deny", "Ask", "Allow"}
        BY <1>0, <2>1, CallAssumption
        DEF gate_decision, decide, TypeOK, ToolTier, PolicyMode
    <2>6. /\ at' = "start" => gate = "Allow" /\ ~auto
          /\ at' = "auto" => gate = "Allow" /\ auto
          /\ at' \in {"start", "auto"} => gate # "Ask"
        BY <1>2, <2>5 DEF DrivePropose
    <2>7. Unused(p) /\ Idle(p)
      <3>1. Unused(p)
          BY <1>0, <2>2 DEF Unused, runOf
      <3> QED BY <3>1 DEF EffectInv, TaskInv
    <2>8. \A q \in ProposalId : Unused(q)' => Unused(q)
        BY <1>0, <2>3, <2>4, UnusedShrinks
    <2>9. ~Unused(p)'
      <3>1. run.id < nextRun /\ run.id \in Nat /\ nextRun \in Nat
          BY <1>0, RunningId, ConstantTypes DEF Sound, WaitInv, Fresh, TypeOK
      <3>2. runOf(p) = run.id /\ p[2] = run.tool_calls + 1
          BY <2>2 DEF runOf
      <3> QED BY <1>0, <2>3, <2>4, <3>1, <3>2 DEF Unused
    <2>10. \A q \in ProposalId : q # p /\ Authorised(q) => Authorised(q)'
        BY <2>4 DEF Authorised
    <2>11. \A q \in ProposalId : Idle(q) => Idle(q)'
        BY <2>4 DEF Idle
    <2>12. TaskInv'
      <3>1. \A t \in tools : t.proposal # p /\ t.proposal \in ProposalId
          BY <1>0, <2>7 DEF Idle, TypeOK, ToolTask
      <3>2. effects[p] = 0
          BY <2>7 DEF Idle
      <3> QED BY <2>4, <2>8, <2>10, <2>11, <3>1, <3>2 DEF EffectInv, TaskInv
    <2>13. /\ tail'.run = run.id /\ tail'.proposal = p
           /\ gated => tail'.stage = "awaiting"
           /\ ~gated => tail'.stage = "started"
        BY <1>0, <2>4 DEF propose, Tracker
    <2>14. at' = "start" => ~gated
        BY <2>6
    <2>15. at' = "auto" \/ run'.held => gated
        BY <2>3, <2>6
    <2>16. at' = "start" => Authorised(p)'
      <3>1. ASSUME at' = "start"
            PROVE  ledger'[p] = "intended" /\ authority'[p] = "policy"
        <4>1. ledger' = [ledger EXCEPT ![p] = "intended"]
            BY <2>4, <2>14, <3>1
        <4>2. authority' = [authority EXCEPT ![p] = "policy"]
            BY <2>4, <2>6, <3>1
        <4> QED BY <1>0, <4>1, <4>2
      <3> QED BY <3>1 DEF Authorised
    <2> HIDE DEF call, gate, auto, gated
    <2>17. GateInv'
        BY <1>0, <2>3, <2>7, <2>9, <2>11, <2>13, <2>14, <2>15, <2>16
        DEF GateInv, Running
    <2> QED BY <2>12, <2>17 DEF EffectInv
  <1> QED BY <1>1, <1>2

\* A decision about the proposal the record holds as waiting.
LEMMA DecisionEffects ==
  ASSUME Sound, EffectInv, NEW p \in ProposalId, NEW approved \in BOOLEAN,
         run.proposal = p, run.id = run'.id, run'.tool_calls = run.tool_calls,
         Running, ~run'.held, run'.proposal = run.proposal,
         tail.stage = "awaiting", tail.proposal = p,
         UNCHANGED <<nextRun, effects, tools>>,
         tail' = resolve_approval(tail, run.id, p, approved),
         at' \in {"start", "settle"}, at' = "start" => approved,
         ledger' = [ledger EXCEPT ![p] = IF approved THEN "authorised" ELSE "denied"],
         \E kind \in {"human", "auto"} :
            authority' = [authority EXCEPT ![p] = IF approved THEN kind ELSE @]
  PROVE  EffectInv'
  <1>0. /\ TypeOK /\ run.tool_calls \in Nat /\ tail \in Tracker /\ tail.run = run.id
        /\ ledger \in [ProposalId -> LedgerEntry]
        /\ authority \in [ProposalId -> AuthorityKind]
      BY DEF Sound, LogInv, TypeOK, ActiveRun
  <1>1. Idle(p) /\ ~Unused(p)
      BY DEF EffectInv, GateInv
  <1>2. \A q \in ProposalId : Unused(q)' => Unused(q)
      BY <1>0, UnusedShrinks
  <1>3. \A q \in ProposalId : Idle(q) => Idle(q)'
      BY DEF Idle
  <1>4. \A q \in ProposalId : q # p /\ Authorised(q) => Authorised(q)'
      BY DEF Authorised
  <1>5. TaskInv'
    <2>1. \A t \in tools : t.proposal # p /\ t.proposal \in ProposalId
        BY <1>0, <1>1 DEF Idle, TypeOK, ToolTask
    <2>2. effects[p] = 0
        BY <1>1 DEF Idle
    <2> QED BY <1>2, <1>3, <1>4, <2>1, <2>2 DEF EffectInv, TaskInv
  <1>6. tail'.stage \in {"started", "none"}
      BY <1>0 DEF resolve_approval, Tracker
  <1>7. at' = "start" => Authorised(p)'
      BY <1>0 DEF Authorised
  <1>8. GateInv'
      BY <1>1, <1>2, <1>3, <1>6, <1>7 DEF GateInv
  <1> QED BY <1>5, <1>8 DEF EffectInv

LEMMA DecidingEffects ==
  ASSUME Sound, EffectInv,
         \/ AutoApprove
         \/ \E p \in ProposalId, d \in ApprovalDecision : ResolveApproval(p, d)
  PROVE  EffectInv'
  <1>0. TypeOK /\ run \in ActiveRun
      BY DEF Sound, TypeOK
  <1>1. CASE HaltForStore /\ UNCHANGED tools
      BY <1>0, <1>1, HaltEffects
  <1>2. CASE AutoApprove /\ ~(HaltForStore /\ UNCHANGED tools)
    <2>1. /\ Disposing /\ ~run.held /\ Running
          /\ tail.stage = "awaiting" /\ tail.proposal = run.proposal
        BY <1>2 DEF AutoApprove, Sound, WaitInv, BusyOK, Waits, EffectInv, GateInv
    <2>2. PICK p \in ProposalId : p = run.proposal
        BY <2>1 DEF Disposing
    <2>3. PICK approved \in BOOLEAN : approved = TRUE
        OBVIOUS
    <2>4. /\ UNCHANGED <<run, nextRun, effects, tools>> /\ at' = "start"
          /\ tail' = resolve_approval(tail, run.id, p, TRUE)
          /\ ledger' = [ledger EXCEPT ![p] = "authorised"]
          /\ authority' = [authority EXCEPT ![p] = "auto"]
        BY <1>2, <2>2, Zenon DEF AutoApprove, LoopFrame, session, tasks
    <2>5. /\ tail' = resolve_approval(tail, run.id, p, approved)
          /\ ledger' = [ledger EXCEPT ![p] = IF approved THEN "authorised" ELSE "denied"]
          /\ \E kind \in {"human", "auto"} :
                authority' = [authority EXCEPT ![p] = IF approved THEN kind ELSE @]
        BY <2>3, <2>4
    <2> QED BY <2>1, <2>2, <2>3, <2>4, <2>5, DecisionEffects
  <1>3. ASSUME NEW p \in ProposalId, NEW d \in ApprovalDecision,
               ResolveApproval(p, d), ~(HaltForStore /\ UNCHANGED tools)
        PROVE  EffectInv'
    <2>1. /\ Running /\ run.held /\ run.proposal = p
          /\ tail.stage = "awaiting" /\ tail.proposal = p
        BY <1>3 DEF ResolveApproval, EffectInv, GateInv
    <2>2. PICK approved \in BOOLEAN : approved = (d # "Deny")
        OBVIOUS
    <2>3. /\ run'.id = run.id /\ run'.tool_calls = run.tool_calls
          /\ ~run'.held /\ run'.proposal = run.proposal
        BY <1>0, <1>3 DEF ResolveApproval, ActiveRun
    <2>4. /\ UNCHANGED <<nextRun, effects, tools>>
          /\ tail' = resolve_approval(tail, run.id, p, d # "Deny")
          /\ ledger' = [ledger EXCEPT ![p] = IF d = "Deny" THEN "denied"
                                             ELSE "authorised"]
          /\ authority' = [authority EXCEPT ![p] = IF d = "Deny" THEN @ ELSE "human"]
          /\ at' = IF d = "Deny" THEN "settle" ELSE "start"
        BY <1>3, Zenon DEF ResolveApproval, afterDecision
    <2>5. /\ tail' = resolve_approval(tail, run.id, p, approved)
          /\ ledger' = [ledger EXCEPT ![p] = IF approved THEN "authorised" ELSE "denied"]
          /\ at' \in {"start", "settle"} /\ (at' = "start" => approved)
        BY <2>2, <2>4
    <2>6. \E kind \in {"human", "auto"} :
             authority' = [authority EXCEPT ![p] = IF approved THEN kind ELSE @]
        BY <2>2, <2>4
    <2> QED BY <2>1, <2>2, <2>3, <2>4, <2>5, <2>6, DecisionEffects
  <1> QED BY <1>1, <1>2, <1>3 DEF AutoApprove, ResolveApproval

\* The one task of a proposal is started from an idle, authorised proposal.
LEMMA StartToolEffects ==
  ASSUME Sound, EffectInv, StartTool
  PROVE  EffectInv'
  <1>0. /\ TypeOK /\ run \in ActiveRun /\ run.tool_calls \in Nat
        /\ at = "start" /\ Disposing /\ ~run.held
        /\ UNCHANGED <<nextRun, effects, tail, ledger, authority>>
      BY DEF Sound, WaitInv, BusyOK, Waits, TypeOK, ActiveRun, StartTool, LoopFrame,
             session
  <1>1. /\ Idle(run.proposal) /\ Authorised(run.proposal) /\ ~Unused(run.proposal)
        /\ tail.stage # "awaiting" /\ run.proposal \in ProposalId
      BY <1>0 DEF EffectInv, GateInv, Disposing
  <1>2. CASE at' = "settle" /\ UNCHANGED <<run, tools>>
      BY <1>0, <1>1, <1>2, EffectFrame, UnusedShrinks
  <1>3. CASE /\ at' = "mailbox" /\ run' = [Disposed EXCEPT !.phase = "Tool"]
             /\ tools' = tools \union {[proposal |-> run.proposal, call |-> run.call,
                                        effected |-> FALSE]}
    <2>0. PICK p \in ProposalId : p = run.proposal
        BY <1>1
    <2>1. PICK task : task = [proposal |-> p, call |-> run.call, effected |-> FALSE]
        OBVIOUS
    <2>2. /\ task.proposal = p /\ task.effected = FALSE
          /\ tools' = tools \union {task}
        BY <1>3, <2>0, <2>1
    <2>3. run'.id = run.id /\ run'.tool_calls = run.tool_calls /\ ~run'.held
        BY <1>0, <1>3 DEF Disposed, ActiveRun
    <2>4. \A q \in ProposalId : Unused(q)' => Unused(q)
        BY <1>0, <2>3, UnusedShrinks
    <2>5. \A q \in ProposalId : /\ Authorised(q) => Authorised(q)'
                                /\ q # p /\ Idle(q) => Idle(q)'
        BY <1>0, <2>2 DEF Authorised, Idle
    <2>6. \A t \in tools : t.proposal # p /\ t.proposal \in ProposalId
        BY <1>0, <1>1, <2>0 DEF Idle, TypeOK, ToolTask
    <2>7. effects[p] = 0 /\ Authorised(p) /\ ~Unused(p)
        BY <1>1, <2>0 DEF Idle
    <2>8. TaskInv'
        BY <1>0, <2>2, <2>4, <2>5, <2>6, <2>7 DEF EffectInv, TaskInv
    <2>9. GateInv'
        BY <1>0, <1>1, <1>3, <2>3 DEF GateInv
    <2> QED BY <2>8, <2>9 DEF EffectInv
  <1> QED BY <1>2, <1>3 DEF StartTool

\* The effect itself happens to a task's proposal and to no other.
LEMMA ToolEffectEffects ==
  ASSUME Sound, EffectInv, NEW t \in tools, ToolEffect(t)
  PROVE  EffectInv'
  <1> DEFINE done == [t EXCEPT !.effected = TRUE]
  <1>0. /\ TypeOK /\ t.proposal \in ProposalId /\ ~t.effected
        /\ effects \in [ProposalId -> Nat]
        /\ \A u \in tools : u.proposal \in ProposalId
      BY DEF Sound, TypeOK, ToolTask, ToolEffect
  <1>1. done.proposal = t.proposal /\ done.effected = TRUE
      BY <1>0 DEF TypeOK, ToolTask
  <1>2. /\ UNCHANGED <<at, run, nextRun, tail, ledger, authority>>
        /\ tools' = (tools \ {t}) \union {done}
        /\ effects' = [effects EXCEPT ![t.proposal] = effects[t.proposal] + 1]
      BY DEF ToolEffect, session, loop, record
  <1> HIDE DEF done
  <1>3. effects[t.proposal] = 0 /\ Authorised(t.proposal)
      BY <1>0 DEF EffectInv, TaskInv
  <1>4. \A q \in ProposalId : /\ Authorised(q) => Authorised(q)'
                              /\ Unused(q)' = Unused(q)
                              /\ Idle(q) => Idle(q)' /\ q # t.proposal
      BY <1>0, <1>1, <1>2 DEF Authorised, Idle, Unused
  <1>5. /\ effects'[t.proposal] = 1
        /\ \A q \in ProposalId : q # t.proposal => effects'[q] = effects[q]
      BY <1>0, <1>2, <1>3
  <1>6. \A u \in tools : u # t => u.proposal # t.proposal
      BY DEF EffectInv, TaskInv
  <1>7. TaskInv'
      BY <1>0, <1>1, <1>2, <1>3, <1>4, <1>5, <1>6 DEF EffectInv, TaskInv
  <1>8. GateInv'
    <2>1. /\ at \in {"auto", "start"} => run.proposal \in ProposalId
          /\ run.held => run.proposal \in ProposalId
        BY DEF Sound, WaitInv, BusyOK, Waits, Disposing
    <2> QED BY <1>2, <1>4, <2>1 DEF EffectInv, GateInv
  <1> QED BY <1>7, <1>8 DEF EffectInv

LEMMA EffectAlways == Spec => []EffectInv
  <1>1. Init => EffectInv
      BY DEF Init, EffectInv, TaskInv, GateInv, Idle, EmptyTracker, NoActiveRun
  <1>2. Sound /\ EffectInv /\ [Next]_vars => EffectInv'
    <2> SUFFICES ASSUME Sound, EffectInv, [Next]_vars PROVE EffectInv'
        OBVIOUS
    <2>1. CASE UNCHANGED vars
        BY <2>1, SameRunEffects DEF vars, session, loop, tasks, record
    <2>2. CASE Human
        BY <2>2, HumanEffects, DecidingEffects
    <2>3. CASE Loop
        BY <2>3, QuietLoopEffects, ProposalEffects, DecidingEffects, StartToolEffects
        DEF Loop
    <2>4. CASE Mail \/ Environment
        BY <2>4, MailEffects, ToolEffectEffects DEF Mail, Environment
    <2> QED BY <2>1, <2>2, <2>3, <2>4 DEF Next
  <1> QED BY <1>1, <1>2, SoundAlways, PTL DEF Spec

(***************************************************************************)
(* Intent before effect, at most once: every effect that ever happens, on   *)
(* any interleaving of handlers, tasks, failed appends, crashes and         *)
(* resumes, is the only effect of a proposal the record had authorised      *)
(* (dispose_proposal, resolve_approval, start_tool).                        *)
(***************************************************************************)
THEOREM EffectsFollowIntent == Spec => []IntentBeforeEffect
  <1>1. Sound /\ EffectInv => IntentBeforeEffect
      BY DEF Sound, TypeOK, EffectInv, TaskInv, Authorised, IntentBeforeEffect
  <1> QED BY <1>1, SoundAlways, EffectAlways, PTL

(***************************************************************************)
(* What recovery reports as unapproved provably did not run, and nothing    *)
(* that is still alive can make it run (InterruptedKind::ProposalUnapproved,*)
(* Tracker::propose, Tracker::resolve_approval).                            *)
(***************************************************************************)
THEOREM UnapprovedDidNotRun == Spec => []UnapprovedNeverRan
  <1>1. EffectInv => UnapprovedNeverRan
      BY DEF EffectInv, GateInv, Idle, UnapprovedNeverRan
  <1> QED BY <1>1, EffectAlways, PTL

-------------------------------------------------------------------------------
(* The run loop implements EffectLedger: run by run, handler by handler, it  *)
(* takes each proposal through the life the abstract ledger promises.        *)

\* What the record says of a proposal between its authority and its outcome.
BeforeOutcome == {"intended", "authorised"}

\* Whose outcome may still be a refusal.
Refusable == BeforeOutcome \union {"none", "denied"}

\* The stage of the ledger that goes with where the actor is, with the tasks
\* that are out, and with what a replay would report as pending.
StageInv ==
  /\ \A p \in ProposalId : Unused(p) => ledger[p] = "none" /\ authority[p] = "none"
  /\ at = "start" => ledger[run.proposal] \in BeforeOutcome
  /\ at = "settle" => /\ Idle(run.proposal) /\ ~Unused(run.proposal)
                      /\ ledger[run.proposal] \in Refusable
  /\ \A t \in tools : /\ ledger[t.proposal] # "settled"
                      /\ runOf(t.proposal) = run.id => ledger[t.proposal] # "abandoned"
  /\ tail.stage = "awaiting" => ledger[tail.proposal] = "gated"
  /\ tail.stage = "started" => /\ tail.proposal \in ProposalId
                               /\ ledger[tail.proposal] \in BeforeOutcome

Kept == Sound /\ EffectInv /\ StageInv

\* The step keeps the stages and is one of the ledger's, or invisible to it.
Keeps == StageInv' /\ [Promise!Next]_(Promise!entries)

LEMMA KeptTypes ==
  ASSUME Kept
  PROVE  /\ TypeOK /\ run \in ActiveRun /\ run.tool_calls \in Nat
         /\ tail \in Tracker /\ tools \subseteq ToolTask
         /\ \A t \in tools : t.proposal \in ProposalId /\ runOf(t.proposal) # NoRun
         /\ at \in {"auto", "start", "settle"} \/ run.held => run.proposal \in ProposalId
         /\ (Running => tail.run = run.id /\ recovery = "Clean")
         /\ ledger \in [ProposalId -> LedgerEntry]
         /\ authority \in [ProposalId -> AuthorityKind]
         /\ effects \in [ProposalId -> Nat]
  BY ConstantTypes
  DEF Kept, Sound, TypeOK, ActiveRun, ToolTask, WaitInv, BusyOK, Waits, Disposing, LogInv

\* Steps that record nothing about a proposal and start no task.
LEMMA QuietStep ==
  ASSUME Kept, UNCHANGED <<ledger, authority, effects>>, tools' \subseteq tools,
         \A p \in ProposalId : Unused(p)' => Unused(p),
         run'.id \in {run.id, NoRun} \/ \A t \in tools : runOf(t.proposal) # run'.id,
         at' = "start" => at = "start" /\ UNCHANGED run,
         at' = "settle" => /\ Idle(run'.proposal) /\ ~Unused(run.proposal)'
                           /\ ledger[run'.proposal] \in Refusable,
         tail' = tail \/ tail'.stage = "none"
  PROVE  Keeps
  <1>1. [Promise!Next]_(Promise!entries)
      BY DEF Promise!entries
  <1>2. \A p : Idle(p) => Idle(p)'
      BY DEF Idle
  <1>3. StageInv'
      BY <1>2, KeptTypes DEF Kept, StageInv
  <1> QED BY <1>1, <1>3 DEF Keeps

\* Whoever drops the run.
LEMMA DroppedRunStep ==
  ASSUME Kept, run' = NoActiveRun, at' = "mailbox", tools' \subseteq tools,
         UNCHANGED <<nextRun, ledger, authority, effects>>,
         tail' = tail \/ tail'.stage = "none"
  PROVE  Keeps
  <1>1. run'.id = NoRun
      BY DEF NoActiveRun
  <1>2. \A p \in ProposalId : Unused(p)' => Unused(p)
      BY <1>1, KeptTypes, UnusedShrinks
  <1> QED BY <1>1, <1>2, QuietStep

LEMMA HaltStep ==
  ASSUME Kept, HaltForStore, tools' \subseteq tools
  PROVE  Keeps
  BY DroppedRunStep DEF HaltForStore, session, record

\* The actor goes on with the run it has, outside the gate.
LEMMA SameRunStep ==
  ASSUME Kept, UNCHANGED <<nextRun, ledger, authority, effects>>, tools' \subseteq tools,
         run'.id = run.id,
         run'.tool_calls \in {run.tool_calls, run.tool_calls + 1},
         at' \notin {"start", "settle"} \/ UNCHANGED <<at, run>>,
         tail' = tail \/ tail'.stage = "none"
  PROVE  Keeps
  <1>1. \A p \in ProposalId : Unused(p)' => Unused(p)
    <2>1. run'.tool_calls \in Nat /\ run'.tool_calls >= run.tool_calls
        BY KeptTypes
    <2> QED BY <2>1, KeptTypes, UnusedShrinks
  <1>2. at' = "settle" => /\ Idle(run'.proposal) /\ ~Unused(run.proposal)'
                          /\ ledger[run'.proposal] \in Refusable
      BY DEF Kept, StageInv, Unused
  <1> QED BY <1>1, <1>2, QuietStep

\* What a replay reported is given up: one GiveUp, or none if nothing was pending.
LEMMA AbandonStep ==
  ASSUME Kept, ledger' = Abandon, UNCHANGED <<nextRun, authority, effects, tools>>,
         tail' = EmptyTracker, run'.id = NoRun, at' = "mailbox"
  PROVE  Keeps
  <1>1. \A p \in ProposalId : Unused(p)' => Unused(p)
      BY KeptTypes, UnusedShrinks
  <1>2. CASE tail.stage # "none" /\ tail.proposal \in ProposalId
    <2>1. PICK p \in ProposalId : p = tail.proposal
        BY <1>2
    <2>2. ledger' = [ledger EXCEPT ![p] = "abandoned"]
        BY <1>2, <2>1, KeptTypes DEF Abandon
    <2>3. ledger[p] \in BeforeOutcome \union {"gated"}
        BY <1>2, <2>1, KeptTypes DEF Kept, StageInv, Tracker, WorkStage
    <2>4. Promise!GiveUp(p)
        BY <2>2, <2>3 DEF Promise!GiveUp, BeforeOutcome
    <2>5. Promise!Next
        BY <2>4 DEF Promise!Next
    <2>6. ~Unused(p)
        BY <2>3 DEF Kept, StageInv, BeforeOutcome
    <2>7. StageInv'
        BY <1>1, <2>2, <2>6, KeptTypes DEF Kept, StageInv, EmptyTracker
    <2> QED BY <2>5, <2>7 DEF Keeps
  <1>3. CASE ~(tail.stage # "none" /\ tail.proposal \in ProposalId)
    <2>1. ledger' = ledger
        BY <1>3, KeptTypes DEF Abandon
    <2> QED BY <1>1, <2>1, QuietStep DEF EmptyTracker
  <1> QED BY <1>2, <1>3

-------------------------------------------------------------------------------
(* The commands of a human, other than a decision about a proposal. *)

LEMMA HumanStep ==
  ASSUME Kept, Human,
         ~ \E p \in ProposalId, d \in ApprovalDecision : ResolveApproval(p, d)
  PROVE  Keeps
  <1>0. EmptyTracker.stage = "none"
      BY DEF EmptyTracker
  <1>1. ASSUME NEW external \in BOOLEAN, StartRun(external) PROVE Keeps
    <2>1. CASE UNCHANGED <<at, run, nextRun, tail>>
        BY <1>1, <2>1, SameRunStep DEF StartRun
    <2>2. CASE /\ run' = [NoActiveRun EXCEPT !.id = nextRun]
               /\ at' = "turn" /\ nextRun' = nextRun + 1
               /\ tail' = open_run(tail, nextRun)
      <3>1. /\ run'.id = nextRun /\ run'.tool_calls = 0 /\ tail'.stage = "none"
            /\ nextRun \in Nat
          BY <2>2, KeptTypes DEF NoActiveRun, open_run, TypeOK
      <3>2. ASSUME NEW p \in ProposalId, Unused(p)' PROVE Unused(p)
        <4>1. runOf(p) \in Nat
            BY ConstantTypes
        <4> QED BY <2>2, <3>1, <3>2, <4>1 DEF Unused
      <3>3. \A t \in tools : runOf(t.proposal) # nextRun
        <4>1. ASSUME NEW t \in tools, runOf(t.proposal) = nextRun PROVE FALSE
          <5>1. t.proposal \in ProposalId /\ Unused(t.proposal)
              BY <3>1, <4>1, KeptTypes DEF Unused
          <5> QED BY <5>1 DEF Kept, EffectInv, TaskInv, Idle
        <4> QED BY <4>1
      <3> QED BY <1>1, <2>2, <3>1, <3>2, <3>3, QuietStep DEF StartRun
    <2> QED BY <1>1, <2>1, <2>2, Zenon DEF StartRun
  <1>2. CASE CancelRun
    <2>1. run'.id = run.id /\ run'.tool_calls = run.tool_calls
          /\ at' \in {"finish", "mailbox"}
        BY <1>2, KeptTypes DEF CancelRun, ActiveRun
    <2> QED BY <1>2, <2>1, SameRunStep DEF CancelRun, session, record
  <1>3. CASE QueueSteering \/ ResumeWhileOpen \/ Resume
             \/ (\E mode \in Mode : SetPolicy(mode))
             \/ (\E tier \in ModelTiers : SelectModel(tier))
      BY <1>3, SameRunStep
      DEF QueueSteering, ResumeWhileOpen, Resume, SetPolicy, SelectModel, session, loop,
          tasks, record
  <1>4. CASE EndSession \/ ResolveRecovery \/ ResolveRecoveryByEnding
    <2>1. ~Running /\ at = "mailbox"
        BY <1>4, KeptTypes DEF EndSession, ResolveRecovery, ResolveRecoveryByEnding, Free
    <2>2. CASE UNCHANGED <<run, nextRun, effects, authority, at, tools, tail, ledger>>
        BY <2>2, SameRunStep
    <2>3. CASE /\ UNCHANGED <<run, nextRun, effects, authority, at, tools>>
               /\ tail' = EmptyTracker /\ ledger' = Abandon
        BY <2>1, <2>3, AbandonStep DEF Running
    <2>4. CASE LetGo /\ tail' = EmptyTracker /\ ledger' = Abandon /\ UNCHANGED authority
        BY <2>4, AbandonStep DEF LetGo, NoActiveRun
    <2> QED BY <1>4, <2>2, <2>3, <2>4
            DEF EndSession, EndSessionSteps, ResolveRecovery, ResolveRecoveryByEnding,
                clear, session, tasks, record
  <1>5. CASE ReleaseSession \/ Shutdown
    <2>1. CASE LetGo /\ tail' \in {tail, EmptyTracker} /\ UNCHANGED <<ledger, authority>>
        BY <1>0, <2>1, DroppedRunStep DEF LetGo
    <2>2. CASE UNCHANGED <<session, at, run, tasks, tail, ledger, authority>>
        BY <2>2, SameRunStep DEF session, tasks
    <2> QED BY <1>5, <2>1, <2>2, ReleaseFails DEF ReleaseSession, Shutdown, Kept, Sound
  <1>6. CASE RefuseModelSwitch
      BY <1>6, HaltStep DEF RefuseModelSwitch
  <1> QED BY <1>1, <1>2, <1>3, <1>4, <1>5, <1>6 DEF Human

-------------------------------------------------------------------------------
(* Steps of the loop that neither propose, decide nor settle. *)

LEMMA QuietLoopStep ==
  ASSUME Kept,
         \/ BeginProviderTurn \/ DriveDone \/ DriveRefused \/ ExhaustBudget
         \/ EndRun \/ StartTool
  PROVE  Keeps
  <1>1. CASE HaltForStore /\ tools' \subseteq tools
      BY <1>1, HaltStep
  <1>2. CASE EndRun /\ ~HaltForStore
    <2>1. tail' = tail \/ tail'.stage = "none"
        BY <1>2, KeptTypes DEF EndRun, EmptyTracker, close_run
    <2> QED BY <1>2, <2>1, DroppedRunStep DEF EndRun, session
  <1>3. CASE (BeginProviderTurn \/ DriveDone \/ ExhaustBudget) /\ ~HaltForStore
    <2>1. /\ run'.id = run.id /\ run'.tool_calls = run.tool_calls
          /\ at' \notin {"start", "settle"}
        BY <1>3, KeptTypes DEF BeginProviderTurn, DriveDone, ExhaustBudget, ActiveRun
    <2> QED BY <1>3, <2>1, SameRunStep
            DEF BeginProviderTurn, DriveDone, ExhaustBudget, LoopFrame, session, tasks,
                record
  <1>4. CASE DriveRefused
    <2>1. CASE at' = "exhaust"
      <3>1. run'.id = run.id /\ run'.tool_calls \in {run.tool_calls, run.tool_calls + 1}
          BY <1>4, KeptTypes DEF DriveRefused, ActiveRun
      <3> QED BY <1>4, <2>1, <3>1, SameRunStep DEF DriveRefused, LoopFrame, session, tasks
    <2>2. CASE at' = "settle"
      <3>1. /\ at = "drive" /\ run.pending_tools # <<>> /\ BusyOK
            /\ run.tool_calls < max_tool_calls
          BY <1>4, <2>2, KeptTypes, LimitAssumption DEF DriveRefused, Kept, Sound, WaitInv
      <3>2. PICK p \in ProposalId : p = <<run.id, run.tool_calls + 1>>
          BY <3>1, ReservedProposal, KeptTypes
      <3>3. /\ run'.proposal = p /\ run'.id = run.id
            /\ run'.tool_calls = run.tool_calls + 1
            /\ UNCHANGED <<nextRun, ledger, authority, effects, tools, tail>>
          BY <1>4, <2>2, <3>2, KeptTypes DEF DriveRefused, LoopFrame, session, tasks,
                                             ActiveRun
      <3>4. Unused(p)
          BY <3>2, KeptTypes DEF Unused, runOf
      <3>5. Idle(p) /\ ledger[p] = "none"
          BY <3>4 DEF Kept, EffectInv, TaskInv, StageInv
      <3>6. \A q \in ProposalId : Unused(q)' => Unused(q)
          BY <3>3, KeptTypes, UnusedShrinks
      <3>7. ~Unused(run.proposal)'
        <4>1. /\ run.id < nextRun /\ run.id \in Nat /\ nextRun \in Nat
              /\ run.tool_calls \in Nat
            BY <3>1, KeptTypes, RunningId, ConstantTypes
            DEF Kept, Sound, WaitInv, BusyOK, Fresh, TypeOK
        <4>2. runOf(p) = run.id /\ p[2] = run.tool_calls + 1
            BY <3>2 DEF runOf
        <4> QED BY <3>3, <4>1, <4>2 DEF Unused
      <3> QED BY <2>2, <3>3, <3>5, <3>6, <3>7, QuietStep DEF Refusable
    <2> QED BY <1>4, <2>1, <2>2 DEF DriveRefused
  <1>5. CASE StartTool
    <2>0. /\ at = "start" /\ run.proposal \in ProposalId
          /\ UNCHANGED <<nextRun, effects, tail, ledger, authority>>
        BY <1>5, KeptTypes DEF StartTool, LoopFrame, session
    <2>1. /\ Idle(run.proposal) /\ ~Unused(run.proposal)
          /\ ledger[run.proposal] \in BeforeOutcome
        BY <2>0 DEF Kept, EffectInv, GateInv, StageInv
    <2>2. CASE at' = "settle" /\ UNCHANGED <<run, tools>>
      <3>1. \A q : Unused(q)' <=> Unused(q)
          BY <2>0, <2>2 DEF Unused
      <3>2. ~Unused(run.proposal)'
          BY <2>0, <2>1, <2>2 DEF Unused
      <3> QED BY <2>0, <2>1, <2>2, <3>1, <3>2, QuietStep DEF Refusable
    <2>3. CASE /\ at' = "mailbox" /\ run' = [Disposed EXCEPT !.phase = "Tool"]
               /\ tools' = tools \union {[proposal |-> run.proposal, call |-> run.call,
                                          effected |-> FALSE]}
      <3>1. PICK task : task = [proposal |-> run.proposal, call |-> run.call,
                                effected |-> FALSE]
          OBVIOUS
      <3>2. tools' = tools \union {task} /\ task.proposal = run.proposal
          BY <2>3, <3>1
      <3>3. run'.id = run.id /\ run'.tool_calls = run.tool_calls
          BY <2>3, KeptTypes DEF Disposed, ActiveRun
      <3>4. \A q \in ProposalId : Unused(q)' => Unused(q)
          BY <2>0, <3>3, KeptTypes, UnusedShrinks
      <3>5. ledger[task.proposal] \notin {"settled", "abandoned"}
          BY <2>1, <3>2 DEF BeforeOutcome
      <3>6. StageInv'
          BY <2>0, <2>3, <3>2, <3>3, <3>4, <3>5 DEF Kept, StageInv
      <3>7. [Promise!Next]_(Promise!entries)
          BY <2>0 DEF Promise!entries
      <3> QED BY <3>6, <3>7 DEF Keeps
    <2> QED BY <1>5, <2>2, <2>3 DEF StartTool
  <1>6. BeginProviderTurn \/ DriveDone \/ ExhaustBudget \/ EndRun => UNCHANGED tools
      BY DEF BeginProviderTurn, DriveDone, ExhaustBudget, EndRun, tasks
  <1> QED BY <1>1, <1>2, <1>3, <1>4, <1>5, <1>6

\* Mail that settles nothing, the wall clock and a crash.
LEMMA QuietMailStep ==
  ASSUME Kept,
         \/ \E r \in RunId : \/ ProviderEnded(r) \/ ProviderRecordFails(r)
                             \/ BudgetExpired(r) \/ TimerFires(r)
         \/ Crash
  PROVE  Keeps
  <1>1. CASE HaltForStore /\ tools' \subseteq tools
      BY <1>1, HaltStep
  <1>2. CASE Crash
      BY <1>2, DroppedRunStep DEF Crash, LetGo, record
  <1>3. ASSUME NEW r \in RunId, ~HaltForStore,
               ProviderEnded(r) \/ BudgetExpired(r) \/ TimerFires(r)
        PROVE  Keeps
    <2>1. /\ run'.id = run.id /\ run'.tool_calls = run.tool_calls
          /\ at' \notin {"start", "settle"} \/ UNCHANGED <<at, run>>
        BY <1>3, KeptTypes DEF ProviderEnded, BudgetExpired, TimerFires, loop, ActiveRun
    <2>2. UNCHANGED <<nextRun, effects, authority, tools, tail, ledger>>
        BY <1>3 DEF ProviderEnded, BudgetExpired, TimerFires, LoopFrame, session, record
    <2> QED BY <2>1, <2>2, SameRunStep
  <1>4. ASSUME NEW r \in RunId,
               \/ ProviderEnded(r) \/ ProviderRecordFails(r)
               \/ BudgetExpired(r) \/ TimerFires(r)
        PROVE  UNCHANGED tools
      BY <1>4 DEF ProviderEnded, ProviderRecordFails, BudgetExpired, TimerFires
  <1> QED BY <1>1, <1>2, <1>3, <1>4 DEF ProviderRecordFails

-------------------------------------------------------------------------------
(* One entry of the ledger: proposing, deciding, settling, and the effect. *)

\* A fresh proposal is recorded as the gate says.
LEMMA ProposeStep ==
  ASSUME Kept, DrivePropose
  PROVE  Keeps
  <1> DEFINE call == Head(run.pending_tools)
             gate == gate_decision(call)
             auto == auto_approval(call)
             gated == gate = "Ask" \/ auto
  <1>1. CASE HaltForStore /\ UNCHANGED <<streaming, tools>>
      BY <1>1, HaltStep
  <1>2. CASE ~(HaltForStore /\ UNCHANGED <<streaming, tools>>)
    <2>1. PICK p \in ProposalId : p = <<run.id, run.tool_calls + 1>>
        BY ReservedProposal, KeptTypes DEF DrivePropose, Kept, Sound, WaitInv
    <2>2. /\ run'.id = run.id /\ run'.tool_calls = run.tool_calls + 1
          /\ run'.proposal = p
        BY <1>2, <2>1, KeptTypes DEF DrivePropose, ActiveRun
    <2>3. /\ UNCHANGED <<nextRun, effects, tools>>
          /\ tail' = propose(tail, run.id, p, gated)
          /\ ledger' = [ledger EXCEPT ![p] = IF gated THEN "gated" ELSE "intended"]
          /\ authority' = [authority EXCEPT ![p] =
                             IF gate = "Allow" /\ ~auto THEN "policy" ELSE @]
        BY <1>2, <2>1 DEF DrivePropose, LoopFrame, session, tasks
    <2>4. call \in Call /\ gate \in {"Deny", "Ask", "Allow"}
      <3>1. call \in Call
          BY ReservedProposal, KeptTypes DEF DrivePropose, Kept, Sound, WaitInv
      <3> QED BY <3>1, KeptTypes, CallAssumption
              DEF gate_decision, decide, TypeOK, ToolTier, PolicyMode
    <2>5. at' \in {"start", "settle"} => gate # "Ask" /\ (at' = "start" => ~auto)
          /\ (at' = "settle" => gate = "Deny")
        BY <1>2, <2>4 DEF DrivePropose
    <2>6. auto => gate = "Allow"
        BY DEF auto_approval
    <2>7. Unused(p)
        BY <2>1, KeptTypes DEF Unused, runOf
    <2>8. Idle(p) /\ ledger[p] = "none" /\ authority[p] = "none" /\ effects[p] = 0
        BY <2>7 DEF Kept, EffectInv, TaskInv, StageInv, Idle
    <2>9. ~Unused(p)' /\ \A q \in ProposalId : Unused(q)' => Unused(q) /\ q # p
      <3>1. \A q \in ProposalId : Unused(q)' => Unused(q)
          BY <2>2, <2>3, KeptTypes, UnusedShrinks
      <3>2. ~Unused(p)'
        <4>1. /\ run.id < nextRun /\ run.id \in Nat /\ nextRun \in Nat
              /\ run.tool_calls \in Nat
            BY KeptTypes, RunningId, ConstantTypes
            DEF DrivePropose, Kept, Sound, WaitInv, BusyOK, Fresh, TypeOK
        <4>2. runOf(p) = run.id /\ p[2] = run.tool_calls + 1
            BY <2>1 DEF runOf
        <4> QED BY <2>2, <2>3, <4>1, <4>2 DEF Unused
      <3> QED BY <3>1, <3>2
    <2>10. at' \in {"start", "settle"} => ~gated
        BY <2>5, <2>6
    <2>11. /\ tail'.proposal = p
           /\ tail'.stage = IF gated THEN "awaiting" ELSE "started"
      <3>1. tail.run = run.id
          BY KeptTypes DEF DrivePropose, Kept, Sound, WaitInv, BusyOK
      <3> QED BY <2>3, <3>1, KeptTypes DEF propose, Tracker
    <2>12. \A t \in tools : t.proposal # p
        BY <2>8 DEF Idle
    <2>13. Idle(p)'
        BY <2>3, <2>8 DEF Idle
    <2>14. gated => authority' = authority
        BY <2>3, <2>6, KeptTypes
    <2>15. ~gated => authority' = [authority EXCEPT ![p] =
                                     IF gate = "Allow" THEN "policy" ELSE "none"]
        BY <2>3, <2>8, KeptTypes
    <2> HIDE DEF call, gate, auto, gated
    <2>16. Promise!Propose(p)
      <3>1. CASE gated
          BY <2>3, <2>8, <2>14, <3>1 DEF Promise!Propose
      <3>2. CASE ~gated
        <4>1. \E a \in {"none", "policy"} : authority' = [authority EXCEPT ![p] = a]
            BY <2>15, <3>2
        <4> QED BY <2>3, <2>8, <3>2, <4>1 DEF Promise!Propose
      <3> QED BY <3>1, <3>2
    <2>17. ledger'[p] = IF gated THEN "gated" ELSE "intended"
        BY <2>3, KeptTypes
    <2>18. \A q \in ProposalId : q # p => /\ ledger'[q] = ledger[q]
                                          /\ authority'[q] = authority[q]
        BY <2>3, KeptTypes
    <2>19. \A t \in tools : t.proposal \in ProposalId
        BY KeptTypes
    <2>20. StageInv'
        BY <2>2, <2>3, <2>9, <2>10, <2>11, <2>12, <2>13, <2>17, <2>18, <2>19
        DEF Kept, StageInv, BeforeOutcome, Refusable
    <2> QED BY <2>16, <2>20 DEF Keeps, Promise!Next
  <1> QED BY <1>1, <1>2

\* A decision about the gated proposal the actor holds.
LEMMA DecideStep ==
  ASSUME Kept, NEW p \in ProposalId, NEW approved \in BOOLEAN,
         NEW kind \in {"human", "auto"},
         tail.stage = "awaiting", tail.proposal = p, Running,
         run'.id = run.id, run'.tool_calls = run.tool_calls, run'.proposal = p,
         UNCHANGED <<nextRun, effects, tools>>,
         tail' = resolve_approval(tail, run.id, p, approved),
         at' = IF approved THEN "start" ELSE "settle",
         ledger' = [ledger EXCEPT ![p] = IF approved THEN "authorised" ELSE "denied"],
         authority' = [authority EXCEPT ![p] = IF approved THEN kind ELSE @]
  PROVE  Keeps
  <1>1. ledger[p] = "gated" /\ Idle(p) /\ ~Unused(p) /\ effects[p] = 0
      BY DEF Kept, EffectInv, GateInv, StageInv, Idle
  <1>2. \A q \in ProposalId : Unused(q)' => Unused(q) /\ q # p
    <2>1. \A q \in ProposalId : Unused(q)' => Unused(q)
        BY KeptTypes, UnusedShrinks
    <2> QED BY <1>1, <2>1 DEF Kept, StageInv
  <1>3. tail'.stage = (IF approved THEN "started" ELSE "none")
        /\ (approved => tail'.proposal = p)
      BY KeptTypes DEF resolve_approval, Tracker
  <1>4. /\ ledger'[p] = IF approved THEN "authorised" ELSE "denied"
        /\ \A q \in ProposalId : q # p => ledger'[q] = ledger[q]
                                          /\ authority'[q] = authority[q]
      BY KeptTypes
  <1>5. \A t \in tools : t.proposal # p /\ t.proposal \in ProposalId
      BY <1>1, KeptTypes DEF Idle
  <1>6. Idle(p)'
      BY <1>1 DEF Idle
  <1>7. StageInv'
      BY <1>1, <1>2, <1>3, <1>4, <1>5, <1>6 DEF Kept, StageInv, BeforeOutcome,
         Refusable
  <1>8. Promise!Decide(p)
    <2>1. CASE approved
        BY <1>1, <2>1 DEF Promise!Decide
    <2>2. CASE ~approved
      <3>1. authority' = authority
          BY <2>2, KeptTypes
      <3> QED BY <1>1, <2>2, <3>1 DEF Promise!Decide
    <2> QED BY <2>1, <2>2
  <1> QED BY <1>7, <1>8 DEF Keeps, Promise!Next

LEMMA DecidingStep ==
  ASSUME Kept,
         \/ AutoApprove
         \/ \E p \in ProposalId, d \in ApprovalDecision : ResolveApproval(p, d)
  PROVE  Keeps
  <1>1. CASE HaltForStore /\ UNCHANGED tools
      BY <1>1, HaltStep
  <1>2. CASE AutoApprove /\ ~(HaltForStore /\ UNCHANGED tools)
    <2>1. /\ Running /\ run.proposal \in ProposalId
          /\ tail.stage = "awaiting" /\ tail.proposal = run.proposal
        BY <1>2, KeptTypes
        DEF AutoApprove, Kept, Sound, WaitInv, BusyOK, EffectInv, GateInv
    <2>2. /\ UNCHANGED <<run, nextRun, effects, tools>> /\ at' = "start"
          /\ tail' = resolve_approval(tail, run.id, run.proposal, TRUE)
          /\ ledger' = [ledger EXCEPT ![run.proposal] = "authorised"]
          /\ authority' = [authority EXCEPT ![run.proposal] = "auto"]
        BY <1>2, Zenon DEF AutoApprove, LoopFrame, session, tasks
    <2>3. PICK approved \in BOOLEAN : approved = TRUE
        OBVIOUS
    <2> QED BY <2>1, <2>2, <2>3, DecideStep
  <1>3. ASSUME NEW p \in ProposalId, NEW d \in ApprovalDecision,
               ResolveApproval(p, d), ~(HaltForStore /\ UNCHANGED tools)
        PROVE  Keeps
    <2>1. /\ Running /\ run.held /\ run.proposal = p
          /\ tail.stage = "awaiting" /\ tail.proposal = p
        BY <1>3 DEF ResolveApproval, Kept, EffectInv, GateInv
    <2>2. PICK approved \in BOOLEAN : approved = (d # "Deny")
        OBVIOUS
    <2>3. /\ run'.id = run.id /\ run'.tool_calls = run.tool_calls
          /\ run'.proposal = run.proposal
        BY <1>3, KeptTypes DEF ResolveApproval, ActiveRun
    <2>4. /\ UNCHANGED <<nextRun, effects, tools>>
          /\ tail' = resolve_approval(tail, run.id, p, d # "Deny")
          /\ ledger' = [ledger EXCEPT ![p] = IF d = "Deny" THEN "denied"
                                             ELSE "authorised"]
          /\ authority' = [authority EXCEPT ![p] = IF d = "Deny" THEN @ ELSE "human"]
          /\ at' = IF d = "Deny" THEN "settle" ELSE "start"
        BY <1>3, Zenon DEF ResolveApproval, afterDecision
    <2>5. /\ tail' = resolve_approval(tail, run.id, p, approved)
          /\ ledger' = [ledger EXCEPT ![p] = IF approved THEN "authorised" ELSE "denied"]
          /\ at' = IF approved THEN "start" ELSE "settle"
          /\ authority' = [authority EXCEPT ![p] = IF approved THEN "human" ELSE @]
        BY <2>2, <2>4
    <2> QED BY <2>1, <2>3, <2>4, <2>5, DecideStep
  <1> QED BY <1>1, <1>2, <1>3 DEF AutoApprove, ResolveApproval

\* The outcome of a proposal of the active run, or a refusal.
LEMMA SettleStep ==
  ASSUME Kept, NEW p \in ProposalId, Running, runOf(p) = run.id,
         ledger[p] \in Refusable,
         tools' \subseteq tools, \A t \in tools' : t.proposal # p,
         UNCHANGED <<nextRun, authority, effects>>,
         ~Unused(p),
         run'.id = run.id, run'.tool_calls = run.tool_calls,
         at' \notin {"start", "settle"},
         tail' = settle(tail, run.id),
         ledger' = [ledger EXCEPT ![p] = "settled"]
  PROVE  Keeps
  <1>1. tail'.stage = "none"
      BY KeptTypes DEF settle, Tracker
  <1>2. \A q \in ProposalId : Unused(q)' => Unused(q)
      BY KeptTypes, UnusedShrinks
  <1>3. ledger'[p] = "settled" /\ \A q \in ProposalId : q # p => ledger'[q] = ledger[q]
      BY KeptTypes
  <1>4. \A t \in tools : t.proposal \in ProposalId
      BY KeptTypes
  <1>5. StageInv'
      BY <1>1, <1>2, <1>3, <1>4 DEF Kept, StageInv
  <1>6. Promise!Settle(p)
      BY DEF Promise!Settle, Refusable, BeforeOutcome
  <1> QED BY <1>5, <1>6 DEF Keeps, Promise!Next

LEMMA SettlingStep ==
  ASSUME Kept, RecordRefusal \/ \E t \in tools : ToolEnded(t)
  PROVE  Keeps
  <1>1. CASE HaltForStore /\ tools' \subseteq tools
      BY <1>1, HaltStep
  <1>2. CASE RecordRefusal /\ ~(HaltForStore /\ tools' \subseteq tools)
    <2>1. /\ at = "settle" /\ Running /\ run.proposal \in ProposalId
          /\ runOf(run.proposal) = run.id
        BY <1>2 DEF RecordRefusal, Kept, Sound, WaitInv, BusyOK, Disposing
    <2>2. PICK p \in ProposalId : p = run.proposal
        BY <2>1
    <2>3. /\ at' = "drive" /\ run' = Disposed
          /\ tail' = settle(tail, run.id)
          /\ ledger' = [ledger EXCEPT ![p] = "settled"]
          /\ UNCHANGED <<nextRun, authority, effects, tools>>
        BY <1>2, <2>2 DEF RecordRefusal, LoopFrame, session, tasks
    <2>4. run'.id = run.id /\ run'.tool_calls = run.tool_calls
        BY <2>3, KeptTypes DEF Disposed, ActiveRun
    <2>5. /\ \A t \in tools : t.proposal # p
          /\ ~Unused(p) /\ ledger[p] \in Refusable
        BY <2>1, <2>2 DEF Kept, StageInv, Idle
    <2> QED BY <2>1, <2>2, <2>3, <2>4, <2>5, SettleStep
  <1>3. ASSUME NEW t \in tools, ToolEnded(t), ~(HaltForStore /\ tools' \subseteq tools)
        PROVE  Keeps
    <2>1. tools' = tools \ {t}
        BY <1>3 DEF ToolEnded
    <2>2. CASE UNCHANGED <<tail, ledger, nextRun, run, authority, effects>>
               /\ (at' = at \/ at' = "finish")
        BY <2>1, <2>2, SameRunStep
    <2>3. CASE /\ addressed(runOf(t.proposal))
               /\ tail' = settle(tail, run.id)
               /\ ledger' = [ledger EXCEPT ![t.proposal] = "settled"]
      <3>1. PICK p \in ProposalId : p = t.proposal
          BY KeptTypes
      <3>2. Running /\ runOf(p) = run.id
          BY <2>3, <3>1, ConstantTypes DEF addressed, Running
      <3>3. /\ UNCHANGED <<run, nextRun, authority, effects>>
            /\ at' \notin {"start", "settle"}
          BY <1>3, <2>1, <2>3 DEF ToolEnded, session
      <3>4. ~Unused(p)
          BY <3>1 DEF Kept, EffectInv, TaskInv, Idle
      <3>5. \A u \in tools' : u.proposal # p
          BY <2>1, <3>1 DEF Kept, EffectInv, TaskInv
      <3>6. ledger[p] \in BeforeOutcome
        <4>1. ledger[p] \notin {"none", "gated", "denied"}
            BY <3>1 DEF Kept, EffectInv, TaskInv, Authorised
        <4>2. ledger[p] \notin {"settled", "abandoned"}
            BY <3>1, <3>2 DEF Kept, StageInv
        <4> QED BY <4>1, <4>2, KeptTypes DEF LedgerEntry, BeforeOutcome
      <3> QED BY <2>1, <2>3, <3>1, <3>2, <3>3, <3>4, <3>5, <3>6, SettleStep DEF Refusable
    <2> QED BY <1>3, <2>1, <2>2, <2>3
            DEF ToolEnded, loop, LoopFrame, session
  <1> QED BY <1>1, <1>2, <1>3

\* The effect of a task that is out: authorised, open, and the first.
LEMMA EffectStep ==
  ASSUME Kept, NEW t \in tools, ToolEffect(t)
  PROVE  Keeps
  <1> DEFINE done == [t EXCEPT !.effected = TRUE]
  <1>1. PICK p \in ProposalId : p = t.proposal
      BY KeptTypes
  <1>2. done.proposal = p
      BY <1>1, KeptTypes DEF ToolTask
  <1>3. /\ UNCHANGED <<at, run, nextRun, tail, ledger, authority>>
        /\ tools' = (tools \ {t}) \union {done}
        /\ effects' = [effects EXCEPT ![p] = effects[p] + 1]
      BY <1>1 DEF ToolEffect, session, loop, record
  <1>4. effects[p] = 0 /\ Authorised(p) /\ ledger[p] # "settled"
      BY <1>1 DEF ToolEffect, Kept, EffectInv, TaskInv, StageInv
  <1>5. effects' = [effects EXCEPT ![p] = 1]
      BY <1>3, <1>4
  <1>6. ledger[p] \in BeforeOutcome \union {"abandoned"} /\ authority[p] # "none"
      BY <1>4, KeptTypes DEF Authorised, LedgerEntry, BeforeOutcome
  <1>7. Promise!Effect(p)
      BY <1>3, <1>4, <1>5, <1>6 DEF Promise!Effect, BeforeOutcome
  <1> HIDE DEF done
  <1>8. \A q \in ProposalId : Idle(q) => Idle(q)' /\ q # p
      BY <1>1, <1>2, <1>3, KeptTypes DEF Idle
  <1>9. \A q : Unused(q)' <=> Unused(q)
      BY <1>3 DEF Unused
  <1>10. Unused(run.proposal)' <=> Unused(run.proposal)
      BY <1>3 DEF Unused
  <1>11. StageInv'
      BY <1>1, <1>2, <1>3, <1>8, <1>9, <1>10, KeptTypes DEF Kept, StageInv
  <1> QED BY <1>7, <1>11 DEF Keeps, Promise!Next

LEMMA KeepsAlways == Kept /\ [Next]_vars => Keeps
  <1> SUFFICES ASSUME Kept, [Next]_vars PROVE Keeps
      OBVIOUS
  <1>1. CASE UNCHANGED vars
      BY <1>1, SameRunStep DEF vars, session, loop, tasks, record
  <1>2. CASE Human
      BY <1>2, HumanStep, DecidingStep
  <1>3. CASE Loop
      BY <1>3, QuietLoopStep, ProposeStep, DecidingStep, SettlingStep DEF Loop
  <1>4. CASE Mail \/ Environment
      BY <1>4, QuietMailStep, SettlingStep, EffectStep DEF Mail, Environment
  <1> QED BY <1>1, <1>2, <1>3, <1>4 DEF Next

(***************************************************************************)
(* The run loop keeps its promise: whatever handlers, tasks, failed appends, *)
(* crashes, resumes and late mail do, every step is one step of one          *)
(* proposal's life in EffectLedger, or none (dispose_proposal,               *)
(* resolve_approval, start_tool, record_tool_result, resolve_recovery).      *)
(***************************************************************************)
THEOREM RunLoopKeepsItsPromise == Spec => EffectsAreAccountedFor
  <1>1. Init => StageInv
      BY DEF Init, StageInv, EmptyTracker, NoActiveRun
  <1>2. Init => Promise!Init
      BY DEF Init, Promise!Init
  <1>3. Sound /\ EffectInv /\ StageInv /\ [Next]_vars
          => StageInv' /\ [Promise!Next]_(Promise!entries)
      BY KeepsAlways DEF Kept, Keeps
  <1> QED BY <1>1, <1>2, <1>3, SoundAlways, EffectAlways, PTL
          DEF Spec, EffectsAreAccountedFor, Promise!Spec

\* The inductive invariant of the whole; what follows starts from it.
LEMMA KeptAlways == Spec => []Kept
  <1>1. Init => StageInv
      BY DEF Init, StageInv, EmptyTracker, NoActiveRun
  <1>2. Sound /\ EffectInv /\ StageInv /\ [Next]_vars => StageInv'
      BY KeepsAlways DEF Kept, Keeps
  <1> QED BY <1>1, <1>2, SoundAlways, EffectAlways, PTL DEF Spec, Kept

-------------------------------------------------------------------------------
(* The end of a run.  A run with a terminal event is neither the active run  *)
(* nor the one open in the record, so what is still pending in the record     *)
(* never belongs to it; and a proposal between its authority and its outcome  *)
(* is the one the record holds as started, unless its run has ended.          *)

EndInv ==
  /\ \A r \in RunId : terminals[r] > 0 => r < nextRun /\ r # run.id /\ r # tail.run
  /\ tail.stage # "none" => /\ tail.proposal \in ProposalId
                            /\ runOf(tail.proposal) = tail.run

PendingInv ==
  /\ at \in {"turn", "drive"} \/ run.id \in streaming => tail.stage = "none"
  /\ at = "settle" => tail.stage = "none" \/ tail.proposal = run.proposal
  /\ \A p \in ProposalId : ledger[p] \in BeforeOutcome =>
       \/ tail.stage = "started" /\ tail.proposal = p
       \/ terminals[runOf(p)] > 0

AccountInv == Kept /\ EndInv /\ PendingInv

\* What a step may still do to the proposals of a run that has ended: nothing.
Final ==
  \A p \in ProposalId :
    terminals[runOf(p)] > 0 =>
      /\ ledger'[p] = ledger[p] /\ authority'[p] = authority[p]
      /\ terminals'[runOf(p)] = terminals[runOf(p)]

Accounts == EndInv' /\ PendingInv' /\ Final

\* The active run has not ended, and it is the one open in the record.
LEMMA ActiveHasNotEnded ==
  ASSUME AccountInv, Running
  PROVE  /\ run.id \in RunId /\ run.id < nextRun /\ ~(terminals[run.id] > 0)
         /\ tail.run = run.id /\ tail # EmptyTracker
  <1>1. run.id \in RunId /\ run.id < nextRun /\ tail.run = run.id
      BY KeptTypes, RunningId DEF AccountInv, Kept, Sound, WaitInv, Fresh
  <1>2. ~(terminals[run.id] > 0)
      BY <1>1 DEF AccountInv, EndInv
  <1> QED BY <1>1, <1>2, ConstantTypes DEF EmptyTracker

\* Work of the active run between its authority and its outcome is what the
\* record holds as started.
LEMMA ActiveWorkIsPending ==
  ASSUME AccountInv, Running, NEW p \in ProposalId, runOf(p) = run.id,
         ledger[p] \in BeforeOutcome
  PROVE  tail.stage = "started" /\ tail.proposal = p
  BY ActiveHasNotEnded DEF AccountInv, PendingInv

\* Steps that neither record anything about a proposal nor end a run.
LEMMA QuietAccounts ==
  ASSUME AccountInv, UNCHANGED <<tail, ledger, authority, terminals, nextRun>>,
         run'.id \in {run.id, NoRun},
         at' \in {"turn", "drive"} => tail.stage = "none",
         run'.id \in streaming' => tail.stage = "none",
         at' = "settle" => tail.stage = "none" \/ tail.proposal = run'.proposal
  PROVE  Accounts
  BY ConstantTypes DEF AccountInv, EndInv, PendingInv, Accounts, Final

\* The actor stays where it is, or drops the run.
LEMMA SamePlaceAccounts ==
  ASSUME AccountInv, UNCHANGED <<tail, ledger, authority, terminals, nextRun>>,
         \/ UNCHANGED <<at, run>> /\ streaming' \subseteq streaming
         \/ /\ run' = NoActiveRun /\ at' = "mailbox"
            /\ streaming' \subseteq streaming
  PROVE  Accounts
  <1>1. NoActiveRun.id = NoRun /\ NoRun \notin streaming
      BY ConstantTypes, KeptTypes DEF AccountInv, NoActiveRun, TypeOK
  <1> QED BY <1>1, QuietAccounts DEF AccountInv, PendingInv

LEMMA HaltAccounts ==
  ASSUME AccountInv, HaltForStore, streaming' \subseteq streaming
  PROVE  Accounts
  BY SamePlaceAccounts DEF HaltForStore, session, record

\* What a replay reported is given up: it belonged to a run that had not ended.
LEMMA AbandonAccounts ==
  ASSUME AccountInv, ledger' = Abandon, tail' = EmptyTracker, at' = "mailbox",
         UNCHANGED <<authority, terminals, nextRun>>, run'.id = NoRun
  PROVE  Accounts
  <1>1. ledger \in [ProposalId -> LedgerEntry] /\ \A p \in ProposalId : runOf(p) \in RunId
      BY KeptTypes, ConstantTypes DEF AccountInv
  <1>2. \A p \in ProposalId : terminals[runOf(p)] > 0 => ledger'[p] = ledger[p]
      BY <1>1 DEF AccountInv, EndInv, Abandon
  <1>3. ASSUME NEW p \in ProposalId, ledger'[p] \in BeforeOutcome
        PROVE  terminals[runOf(p)] > 0
    <2>1. ledger[p] \in BeforeOutcome /\ ~(tail.stage # "none" /\ tail.proposal = p)
        BY <1>3 DEF Abandon, BeforeOutcome
    <2> QED BY <2>1 DEF AccountInv, PendingInv
  <1>4. EmptyTracker.stage = "none" /\ EmptyTracker.run = NoRun /\ NoRun \notin RunId
      BY ConstantTypes DEF EmptyTracker
  <1>5. EndInv'
      BY <1>4 DEF AccountInv, EndInv
  <1>6. PendingInv'
      BY <1>3, <1>4 DEF PendingInv
  <1> QED BY <1>2, <1>5, <1>6 DEF Accounts, Final

LEMMA HumanAccounts ==
  ASSUME AccountInv, Human,
         ~ \E p \in ProposalId, d \in ApprovalDecision : ResolveApproval(p, d)
  PROVE  Accounts
  <1>1. ASSUME NEW external \in BOOLEAN, StartRun(external) PROVE Accounts
    <2>1. CASE UNCHANGED <<at, run, nextRun, tail>>
        BY <1>1, <2>1, SamePlaceAccounts DEF StartRun
    <2>2. CASE /\ run' = [NoActiveRun EXCEPT !.id = nextRun]
               /\ at' = "turn" /\ nextRun' = nextRun + 1
               /\ tail' = open_run(tail, nextRun) /\ ~Blocked
      <3>1. /\ UNCHANGED <<ledger, authority, terminals>>
            /\ run'.id = nextRun /\ tail'.run = nextRun /\ tail'.stage = "none"
            /\ nextRun \in Nat
          BY <1>1, <2>2, KeptTypes
          DEF StartRun, NoActiveRun, open_run, AccountInv, TypeOK
      <3>2. tail.stage = "none"
          BY <1>1, <2>2
          DEF StartRun, Free, Blocked, AccountInv, Kept, Sound, LogInv, EmptyTracker
      <3>3. EndInv'
          BY <2>2, <3>1, ConstantTypes DEF AccountInv, EndInv
      <3>4. PendingInv'
          BY <2>2, <3>1, <3>2 DEF AccountInv, PendingInv
      <3> QED BY <3>1, <3>3, <3>4 DEF Accounts, Final
    <2> QED BY <1>1, <2>1, <2>2, Zenon DEF StartRun
  <1>2. CASE CancelRun
    <2>1. run'.id = run.id /\ at' \in {"finish", "mailbox"}
        BY <1>2, KeptTypes DEF CancelRun, AccountInv, ActiveRun
    <2> QED BY <1>2, <2>1, QuietAccounts
            DEF CancelRun, session, record, AccountInv, PendingInv
  <1>3. CASE QueueSteering \/ ResumeWhileOpen \/ Resume
             \/ (\E mode \in Mode : SetPolicy(mode))
             \/ (\E tier \in ModelTiers : SelectModel(tier))
      BY <1>3, SamePlaceAccounts
      DEF QueueSteering, ResumeWhileOpen, Resume, SetPolicy, SelectModel, session, loop,
          tasks, record
  <1>4. CASE EndSession \/ ResolveRecovery \/ ResolveRecoveryByEnding
    <2>1. ~Running /\ at = "mailbox"
        BY <1>4, KeptTypes
        DEF EndSession, ResolveRecovery, ResolveRecoveryByEnding, Free, AccountInv
    <2>2. CASE UNCHANGED <<run, nextRun, authority, terminals, at, streaming, tail, ledger>>
        BY <2>2, SamePlaceAccounts
    <2>3. CASE /\ UNCHANGED <<run, nextRun, authority, terminals, at>>
               /\ tail' = EmptyTracker /\ ledger' = Abandon
        BY <2>1, <2>3, AbandonAccounts DEF Running
    <2>4. CASE LetGo /\ tail' = EmptyTracker /\ ledger' = Abandon
               /\ UNCHANGED <<authority, terminals>>
        BY <2>4, AbandonAccounts DEF LetGo, NoActiveRun
    <2> QED BY <1>4, <2>2, <2>3, <2>4
            DEF EndSession, EndSessionSteps, ResolveRecovery, ResolveRecoveryByEnding,
                clear, session, tasks, record
  <1>5. CASE ReleaseSession \/ Shutdown
    <2>1. CASE CanCheckpoint /\ LetGo /\ tail' = EmptyTracker
               /\ UNCHANGED <<ledger, authority, terminals>>
      <3>1. tail = EmptyTracker
          BY <1>5, <2>1
          DEF ReleaseSession, Shutdown, Free, CanCheckpoint, AccountInv, Kept, Sound, LogInv
      <3> QED BY <2>1, <3>1, SamePlaceAccounts DEF LetGo
    <2>2. CASE LetGo /\ UNCHANGED <<tail, ledger, authority, terminals>>
        BY <2>2, SamePlaceAccounts DEF LetGo
    <2>3. CASE UNCHANGED <<session, at, run, tasks, tail, ledger, authority, terminals>>
        BY <2>3, SamePlaceAccounts DEF session, tasks
    <2> QED BY <1>5, <2>1, <2>2, <2>3, ReleaseFails
            DEF ReleaseSession, Shutdown, AccountInv, Kept, Sound
  <1>6. CASE RefuseModelSwitch
      BY <1>6, HaltAccounts DEF RefuseModelSwitch
  <1> QED BY <1>1, <1>2, <1>3, <1>4, <1>5, <1>6 DEF Human

\* Steps of the loop that neither propose, decide nor settle.
LEMMA QuietLoopAccounts ==
  ASSUME AccountInv,
         \/ BeginProviderTurn \/ DriveDone \/ DriveRefused \/ ExhaustBudget
         \/ EndRun \/ StartTool
  PROVE  Accounts
  <1> DEFINE Halt == HaltForStore /\ UNCHANGED streaming
  <1>0. Running
      BY DEF AccountInv, Kept, Sound, WaitInv, BusyOK, BeginProviderTurn, DriveDone,
             DriveRefused, ExhaustBudget, EndRun, StartTool
  <1>1. CASE Halt
      BY <1>1, HaltAccounts
  <1>2. CASE EndRun /\ ~Halt
    <2>1. /\ run' = NoActiveRun /\ at' = "mailbox" /\ run'.id = NoRun
          /\ tail' = EmptyTracker
          /\ terminals' = [terminals EXCEPT ![run.id] = @ + 1]
          /\ UNCHANGED <<ledger, authority, nextRun>>
        BY <1>0, <1>2, ActiveHasNotEnded DEF EndRun, close_run, session, NoActiveRun
    <2>2. /\ terminals \in [RunId -> Nat] /\ run.id \in RunId
          /\ terminals'[run.id] > 0
          /\ \A r \in RunId : r # run.id => terminals'[r] = terminals[r]
        BY <1>0, <2>1, ActiveHasNotEnded, KeptTypes DEF AccountInv, TypeOK
    <2>3. EndInv'
        BY <1>0, <2>1, <2>2, ActiveHasNotEnded, ConstantTypes
        DEF AccountInv, EndInv, EmptyTracker
    <2>4. PendingInv'
      <3>1. ASSUME NEW p \in ProposalId, ledger[p] \in BeforeOutcome
            PROVE  terminals'[runOf(p)] > 0
        <4>1. CASE terminals[runOf(p)] > 0
            BY <2>2, <4>1, ConstantTypes
        <4>2. CASE tail.stage = "started" /\ tail.proposal = p
            BY <1>0, <2>2, <4>2, ActiveHasNotEnded DEF AccountInv, EndInv
        <4> QED BY <3>1, <4>1, <4>2 DEF AccountInv, PendingInv
      <3> QED BY <2>1, <3>1 DEF PendingInv, EmptyTracker
    <2>5. Final
        BY <1>0, <2>1, <2>2, ActiveHasNotEnded, ConstantTypes DEF Final
    <2> QED BY <2>3, <2>4, <2>5 DEF Accounts
  <1>3. CASE (BeginProviderTurn \/ DriveDone \/ ExhaustBudget) /\ ~Halt
    <2>1. run'.id = run.id /\ at' # "settle"
        BY <1>3, KeptTypes
        DEF BeginProviderTurn, DriveDone, ExhaustBudget, ActiveRun, AccountInv
    <2>2. UNCHANGED <<tail, ledger, authority, terminals, nextRun>>
        BY <1>3
        DEF BeginProviderTurn, DriveDone, ExhaustBudget, LoopFrame, session, tasks, record
    <2>3. CASE BeginProviderTurn \/ DriveDone
        BY <2>1, <2>2, <2>3, QuietAccounts
        DEF BeginProviderTurn, DriveDone, AccountInv, PendingInv
    <2>4. CASE ExhaustBudget
        BY <1>3, <2>1, <2>2, <2>4, QuietAccounts DEF ExhaustBudget, AccountInv, PendingInv
    <2> QED BY <1>3, <2>3, <2>4
  <1>4. CASE DriveRefused
    <2>1. /\ run'.id = run.id /\ at' \in {"exhaust", "settle"} /\ tail.stage = "none"
          /\ UNCHANGED <<tail, ledger, authority, terminals, nextRun>>
        BY <1>4, KeptTypes
        DEF DriveRefused, ActiveRun, AccountInv, PendingInv, LoopFrame, session, tasks
    <2> QED BY <2>1, QuietAccounts
  <1>5. CASE StartTool
    <2>1. /\ run'.id = run.id /\ at' \in {"mailbox", "settle"}
          /\ at' = "settle" => UNCHANGED run
          /\ UNCHANGED <<tail, ledger, authority, terminals, nextRun, streaming>>
        BY <1>5, KeptTypes
        DEF StartTool, Disposed, ActiveRun, AccountInv, LoopFrame, session
    <2>2. tail.proposal = run.proposal
        BY <1>0, <1>5, ActiveWorkIsPending
        DEF StartTool, AccountInv, Kept, Sound, WaitInv, BusyOK, Disposing, StageInv
    <2> QED BY <2>1, <2>2, QuietAccounts DEF AccountInv, PendingInv
  <1> QED BY <1>1, <1>2, <1>3, <1>4, <1>5

\* A reserved call of the active run, and a decision about one.
LEMMA ProposeAccounts ==
  ASSUME AccountInv, DrivePropose
  PROVE  Accounts
  <1> DEFINE call == Head(run.pending_tools)
             gate == gate_decision(call)
             auto == auto_approval(call)
             gated == gate = "Ask" \/ auto
  <1>0. /\ at = "drive" /\ Running /\ run.id \notin streaming /\ tail.stage = "none"
        /\ run \in ActiveRun /\ tail \in Tracker
        /\ ledger \in [ProposalId -> LedgerEntry]
        /\ authority \in [ProposalId -> AuthorityKind]
      BY KeptTypes
      DEF DrivePropose, AccountInv, Kept, Sound, WaitInv, BusyOK, Waits, PendingInv
  <1>1. CASE HaltForStore /\ UNCHANGED <<streaming, tools>>
      BY <1>1, HaltAccounts
  <1>2. CASE ~(HaltForStore /\ UNCHANGED <<streaming, tools>>)
    <2>1. PICK p \in ProposalId : p = <<run.id, run.tool_calls + 1>>
        BY <1>0, ReservedProposal, KeptTypes
        DEF DrivePropose, AccountInv, Kept, Sound, WaitInv
    <2>2. /\ run'.id = run.id /\ run'.proposal = p
          /\ UNCHANGED <<nextRun, terminals, streaming>>
          /\ at' \in {"settle", "mailbox", "auto", "start"}
          /\ tail' = propose(tail, run.id, p, gated)
          /\ ledger' = [ledger EXCEPT ![p] = IF gated THEN "gated" ELSE "intended"]
          /\ authority' = [authority EXCEPT ![p] =
                             IF gate = "Allow" /\ ~auto THEN "policy" ELSE @]
      <3>1. call \in Call
          BY <1>0, RunUpdates, KeptTypes DEF DrivePropose, AccountInv
      <3>2. gate \in {"Deny", "Ask", "Allow"}
          BY <3>1, CallAssumption, KeptTypes
          DEF gate_decision, decide, TypeOK, ToolTier, PolicyMode, AccountInv
      <3>3. at' \in {"settle", "mailbox", "auto", "start"}
          BY <1>2, <3>2 DEF DrivePropose
      <3> QED BY <1>0, <1>2, <2>1, <3>3
              DEF DrivePropose, LoopFrame, session, tasks, ActiveRun
    <2>3. runOf(p) = run.id
        BY <2>1 DEF runOf
    <2>4. /\ tail'.run = run.id /\ tail'.proposal = p
          /\ tail'.stage = IF gated THEN "awaiting" ELSE "started"
        BY <1>0, <2>2, ActiveHasNotEnded DEF propose, Tracker
    <2>5. ledger'[p] = IF gated THEN "gated" ELSE "intended"
        BY <1>0, <2>2
    <2>6. \A q \in ProposalId : q # p => /\ ledger'[q] = ledger[q]
                                         /\ authority'[q] = authority[q]
        BY <1>0, <2>2
    <2> HIDE DEF call, gate, auto, gated
    <2>7. EndInv'
        BY <1>0, <2>2, <2>3, <2>4, ActiveHasNotEnded DEF AccountInv, EndInv
    <2>8. PendingInv'
        BY <1>0, <2>2, <2>4, <2>5, <2>6 DEF AccountInv, PendingInv, BeforeOutcome
    <2>9. Final
        BY <1>0, <2>2, <2>3, <2>6, ActiveHasNotEnded DEF Final
    <2> QED BY <2>7, <2>8, <2>9 DEF Accounts
  <1> QED BY <1>1, <1>2

LEMMA DecideAccounts ==
  ASSUME AccountInv, NEW p \in ProposalId, NEW approved \in BOOLEAN, Running,
         runOf(p) = run.id, tail.stage = "awaiting", tail.proposal = p,
         run.id \notin streaming', run'.id = run.id, run'.proposal = p,
         UNCHANGED <<nextRun, terminals>>,
         tail' = resolve_approval(tail, run.id, p, approved),
         at' \in {"start", "settle"},
         ledger' = [ledger EXCEPT ![p] = IF approved THEN "authorised" ELSE "denied"],
         \E kind \in AuthorityKind : authority' = [authority EXCEPT ![p] = kind]
  PROVE  Accounts
  <1>1. /\ ledger \in [ProposalId -> LedgerEntry] /\ tail \in Tracker
        /\ authority \in [ProposalId -> AuthorityKind]
      BY KeptTypes DEF AccountInv
  <1>2. /\ tail'.run = run.id
        /\ tail'.stage = IF approved THEN "started" ELSE "none"
        /\ approved => tail'.proposal = p
      BY <1>1, ActiveHasNotEnded DEF resolve_approval, Tracker
  <1>3. /\ ledger'[p] = IF approved THEN "authorised" ELSE "denied"
        /\ \A q \in ProposalId : q # p => /\ ledger'[q] = ledger[q]
                                           /\ authority'[q] = authority[q]
      BY <1>1
  <1>4. EndInv'
      BY <1>2, ActiveHasNotEnded DEF AccountInv, EndInv
  <1>5. PendingInv'
      BY <1>2, <1>3 DEF AccountInv, PendingInv, BeforeOutcome
  <1>6. Final
      BY <1>3, ActiveHasNotEnded DEF Final
  <1> QED BY <1>4, <1>5, <1>6 DEF Accounts

LEMMA DecidingAccounts ==
  ASSUME AccountInv,
         \/ AutoApprove
         \/ \E p \in ProposalId, d \in ApprovalDecision : ResolveApproval(p, d)
  PROVE  Accounts
  <1>0. authority \in [ProposalId -> AuthorityKind]
      BY KeptTypes DEF AccountInv
  <1>1. CASE HaltForStore /\ UNCHANGED streaming
      BY <1>1, HaltAccounts
  <1>2. CASE AutoApprove /\ ~(HaltForStore /\ UNCHANGED streaming)
    <2>1. /\ Running /\ Disposing /\ run.id \notin streaming
          /\ tail.stage = "awaiting" /\ tail.proposal = run.proposal
        BY <1>2
        DEF AutoApprove, AccountInv, Kept, Sound, WaitInv, BusyOK, Waits, EffectInv, GateInv
    <2>2. PICK p \in ProposalId : p = run.proposal
        BY <2>1 DEF Disposing
    <2>3. PICK approved \in BOOLEAN : approved = TRUE
        OBVIOUS
    <2>4. /\ UNCHANGED <<run, nextRun, terminals, streaming>> /\ at' = "start"
          /\ tail' = resolve_approval(tail, run.id, p, TRUE)
          /\ ledger' = [ledger EXCEPT ![p] = "authorised"]
          /\ authority' = [authority EXCEPT ![p] = "auto"]
        BY <1>2, <2>2, Zenon DEF AutoApprove, LoopFrame, session, tasks
    <2>5. /\ tail' = resolve_approval(tail, run.id, p, approved)
          /\ ledger' = [ledger EXCEPT ![p] = IF approved THEN "authorised" ELSE "denied"]
        BY <2>3, <2>4
    <2>6. \E kind \in AuthorityKind : authority' = [authority EXCEPT ![p] = kind]
        BY <2>4 DEF AuthorityKind
    <2> QED BY <2>1, <2>2, <2>4, <2>5, <2>6, DecideAccounts DEF Disposing
  <1>3. ASSUME NEW p \in ProposalId, NEW d \in ApprovalDecision,
               ResolveApproval(p, d), ~(HaltForStore /\ UNCHANGED streaming)
        PROVE  Accounts
    <2>1. /\ Running /\ run.held /\ run.proposal = p /\ runOf(p) = run.id
          /\ run.id \notin streaming
          /\ tail.stage = "awaiting" /\ tail.proposal = p
        BY <1>3
        DEF ResolveApproval, AccountInv, Kept, Sound, WaitInv, Waits, Disposing,
            EffectInv, GateInv
    <2>2. PICK approved \in BOOLEAN : approved = (d # "Deny")
        OBVIOUS
    <2>3. run'.id = run.id /\ run'.proposal = p
        BY <1>3, <2>1, KeptTypes DEF ResolveApproval, ActiveRun, AccountInv
    <2>4. /\ UNCHANGED <<nextRun, terminals, streaming>>
          /\ tail' = resolve_approval(tail, run.id, p, d # "Deny")
          /\ ledger' = [ledger EXCEPT ![p] = IF d = "Deny" THEN "denied"
                                             ELSE "authorised"]
          /\ authority' = [authority EXCEPT ![p] = IF d = "Deny" THEN @ ELSE "human"]
          /\ at' = IF d = "Deny" THEN "settle" ELSE "start"
        BY <1>3, Zenon DEF ResolveApproval, afterDecision
    <2>5. /\ tail' = resolve_approval(tail, run.id, p, approved)
          /\ ledger' = [ledger EXCEPT ![p] = IF approved THEN "authorised" ELSE "denied"]
          /\ at' \in {"start", "settle"}
        BY <2>2, <2>4
    <2>6. \E kind \in AuthorityKind : authority' = [authority EXCEPT ![p] = kind]
      <3>1. authority[p] \in AuthorityKind /\ "human" \in AuthorityKind
          BY <1>0 DEF AuthorityKind
      <3>2. authority' = [authority EXCEPT ![p] = IF d = "Deny" THEN authority[p]
                                                  ELSE "human"]
          BY <2>4
      <3>3. (IF d = "Deny" THEN authority[p] ELSE "human") \in AuthorityKind
          BY <3>1
      <3> QED BY <3>2, <3>3
    <2> QED BY <2>1, <2>3, <2>4, <2>5, <2>6, DecideAccounts
  <1> QED BY <1>1, <1>2, <1>3 DEF AutoApprove, ResolveApproval

\* The outcome of the one piece of work the record may hold as pending.
LEMMA SettleAccounts ==
  ASSUME AccountInv, NEW p \in ProposalId, Running, runOf(p) = run.id,
         tail.stage = "none" \/ tail.proposal = p,
         run.id \notin streaming', run'.id = run.id, at' \in {"drive", "finish"},
         UNCHANGED <<nextRun, authority, terminals>>,
         tail' = settle(tail, run.id),
         ledger' = [ledger EXCEPT ![p] = "settled"]
  PROVE  Accounts
  <1>1. ledger \in [ProposalId -> LedgerEntry] /\ tail \in Tracker
      BY KeptTypes DEF AccountInv
  <1>2. tail'.stage = "none" /\ tail'.run = run.id
      BY <1>1, ActiveHasNotEnded DEF settle, Tracker
  <1>3. ledger'[p] = "settled" /\ \A q \in ProposalId : q # p => ledger'[q] = ledger[q]
      BY <1>1
  <1>4. EndInv'
      BY <1>2, ActiveHasNotEnded DEF AccountInv, EndInv
  <1>5. PendingInv'
      BY <1>2, <1>3 DEF AccountInv, PendingInv, BeforeOutcome
  <1>6. Final
      BY <1>3, ActiveHasNotEnded DEF Final
  <1> QED BY <1>4, <1>5, <1>6 DEF Accounts

LEMMA SettlingAccounts ==
  ASSUME AccountInv, RecordRefusal \/ \E t \in tools : ToolEnded(t)
  PROVE  Accounts
  <1>1. CASE HaltForStore /\ UNCHANGED streaming
      BY <1>1, HaltAccounts
  <1>2. CASE RecordRefusal /\ ~(HaltForStore /\ UNCHANGED streaming)
    <2>1. /\ at = "settle" /\ Running /\ Disposing /\ run.id \notin streaming
          /\ tail.stage = "none" \/ tail.proposal = run.proposal
        BY <1>2
        DEF RecordRefusal, AccountInv, Kept, Sound, WaitInv, BusyOK, Waits, PendingInv
    <2>2. PICK p \in ProposalId : p = run.proposal
        BY <2>1 DEF Disposing
    <2>3. /\ at' = "drive" /\ run' = Disposed /\ tail' = settle(tail, run.id)
          /\ ledger' = [ledger EXCEPT ![p] = "settled"]
          /\ UNCHANGED <<nextRun, authority, terminals, streaming>>
        BY <1>2, <2>2 DEF RecordRefusal, LoopFrame, session, tasks
    <2>4. run'.id = run.id
        BY <2>3, KeptTypes DEF Disposed, ActiveRun, AccountInv
    <2> QED BY <2>1, <2>2, <2>3, <2>4, SettleAccounts DEF Disposing
  <1>3. ASSUME NEW t \in tools, ToolEnded(t), ~(HaltForStore /\ UNCHANGED streaming)
        PROVE  Accounts
    <2>1. UNCHANGED streaming
        BY <1>3 DEF ToolEnded
    <2>2. CASE /\ UNCHANGED <<tail, ledger, nextRun, run, authority, terminals>>
               /\ (at' = at \/ at' = "finish")
        BY <2>1, <2>2, QuietAccounts DEF AccountInv, PendingInv
    <2>3. CASE /\ addressed(runOf(t.proposal))
               /\ tail' = settle(tail, run.id)
               /\ ledger' = [ledger EXCEPT ![t.proposal] = "settled"]
      <3>1. PICK p \in ProposalId : p = t.proposal
          BY KeptTypes DEF AccountInv
      <3>2. Running /\ runOf(p) = run.id /\ t \in InFlight
          BY <2>3, <3>1, ConstantTypes DEF addressed, Running, InFlight
      <3>3. /\ UNCHANGED <<run, nextRun, authority, terminals>>
            /\ at' \in {"drive", "finish"}
          BY <1>3, <2>1, <2>3 DEF ToolEnded, session
      <3>4. run.id \notin streaming
          BY <3>2 DEF AccountInv, Kept, Sound, WaitInv, Waits
      <3>5. ledger[p] \in BeforeOutcome
        <4>1. ledger[p] \notin {"none", "gated", "denied"}
            BY <3>1 DEF AccountInv, Kept, EffectInv, TaskInv, Authorised
        <4>2. ledger[p] \notin {"settled", "abandoned"}
            BY <3>1, <3>2 DEF AccountInv, Kept, StageInv
        <4> QED BY <4>1, <4>2, KeptTypes DEF LedgerEntry, BeforeOutcome, AccountInv
      <3>6. tail.proposal = p
          BY <3>2, <3>5, ActiveWorkIsPending
      <3> QED BY <2>1, <2>3, <3>1, <3>2, <3>3, <3>4, <3>6, SettleAccounts
    <2> QED BY <1>3, <2>1, <2>2, <2>3 DEF ToolEnded, loop, LoopFrame, session
  <1> QED BY <1>1, <1>2, <1>3

\* Late mail, the clock, effects and a crash.
LEMMA QuietMailAccounts ==
  ASSUME AccountInv,
         \/ \E r \in RunId : \/ ProviderEnded(r) \/ ProviderRecordFails(r)
                             \/ BudgetExpired(r) \/ TimerFires(r)
         \/ \E t \in tools : ToolEffect(t)
         \/ Crash
  PROVE  Accounts
  <1>1. CASE HaltForStore /\ streaming' \subseteq streaming
      BY <1>1, HaltAccounts
  <1>2. CASE Crash
      BY <1>2, SamePlaceAccounts DEF Crash, LetGo, record
  <1>3. ASSUME NEW r \in RunId, ProviderEnded(r), ~HaltForStore PROVE Accounts
    <2>1. CASE ~addressed(r)
        BY <1>3, <2>1, SamePlaceAccounts DEF ProviderEnded, loop, LoopFrame, session
    <2>2. CASE addressed(r)
      <3>1. /\ run'.id = run.id /\ at' # "settle"
            /\ UNCHANGED <<tail, ledger, authority, terminals, nextRun>>
          BY <1>3, <2>2, KeptTypes DEF ProviderEnded, AccountInv, ActiveRun, record
      <3>2. tail.stage = "none"
          BY <1>3, <2>2 DEF ProviderEnded, addressed, AccountInv, PendingInv
      <3> QED BY <3>1, <3>2, QuietAccounts
    <2> QED BY <2>1, <2>2
  <1>4. ASSUME NEW r \in RunId, BudgetExpired(r) PROVE Accounts
    <2>1. /\ run'.id = run.id /\ (at' = "exhaust" \/ UNCHANGED <<at, run>>)
          /\ UNCHANGED <<tail, ledger, authority, terminals, nextRun, streaming>>
        BY <1>4, KeptTypes DEF BudgetExpired, AccountInv, ActiveRun, session, record
    <2> QED BY <2>1, QuietAccounts DEF AccountInv, PendingInv
  <1>5. CASE \/ \E r \in RunId : TimerFires(r)
             \/ \E t \in tools : ToolEffect(t)
      BY <1>5, SamePlaceAccounts DEF TimerFires, ToolEffect, session, loop, record
  <1> QED BY <1>1, <1>2, <1>3, <1>4, <1>5 DEF ProviderRecordFails, ProviderEnded

LEMMA NextAccounts == AccountInv /\ [Next]_vars => Accounts
  <1> SUFFICES ASSUME AccountInv, [Next]_vars PROVE Accounts
      OBVIOUS
  <1>1. CASE UNCHANGED vars
      BY <1>1, SamePlaceAccounts DEF vars, session, loop, tasks, record
  <1>2. CASE Human
      BY <1>2, HumanAccounts, DecidingAccounts
  <1>3. CASE Loop
      BY <1>3, QuietLoopAccounts, ProposeAccounts, DecidingAccounts, SettlingAccounts
      DEF Loop
  <1>4. CASE Mail \/ Environment
      BY <1>4, QuietMailAccounts, SettlingAccounts DEF Mail, Environment
  <1> QED BY <1>1, <1>2, <1>3, <1>4 DEF Next

LEMMA AccountAlways == Spec => [](EndInv /\ PendingInv)
  <1>1. Init => EndInv /\ PendingInv
      BY DEF Init, EndInv, PendingInv, BeforeOutcome, EmptyTracker
  <1>2. Kept /\ (EndInv /\ PendingInv) /\ [Next]_vars => EndInv' /\ PendingInv'
      BY NextAccounts DEF AccountInv, Accounts
  <1> QED BY <1>1, <1>2, KeptAlways, PTL DEF Spec

(***************************************************************************)
(* A terminal event is the last word on a run: whatever the timer, a         *)
(* cancellation, late provider and tool answers, a resume and a human's      *)
(* decision do afterwards, nothing recorded about its proposals changes and  *)
(* no second terminal event follows (the run-id guards of tool_loop.rs and   *)
(* provider_loop.rs, finish_run, resolve_recovery).                          *)
(***************************************************************************)
THEOREM TerminalIsTheLastWord == Spec => TerminalIsFinal
  <1>1. Kept /\ (EndInv /\ PendingInv) /\ [Next]_vars => [Final]_vars
      BY NextAccounts DEF AccountInv, Accounts
  <1>2. [Final]_vars => [\A p \in ProposalId :
                           terminals[runOf(p)] > 0 =>
                             /\ ledger'[p] = ledger[p] /\ authority'[p] = authority[p]
                             /\ terminals'[runOf(p)] = terminals[runOf(p)]]_vars
      BY DEF Final
  <1> QED BY <1>1, <1>2, KeptAlways, AccountAlways, PTL DEF Spec, TerminalIsFinal

(***************************************************************************)
(* An effect whose outcome was never recorded is accounted for, on every     *)
(* interleaving: a replay finds it started, a human gave it up, or its run   *)
(* has a terminal event (record_tool_result, finish_run, resume_session).    *)
(***************************************************************************)
THEOREM EffectsAreExplained == Spec => []UnrecordedEffectExplained
  <1>1. Kept /\ EndInv /\ PendingInv => UnrecordedEffectExplained
    <2> SUFFICES ASSUME Kept, PendingInv, NEW p \in ProposalId, effects[p] > 0,
                        ledger[p] \notin {"settled", "abandoned"}
                 PROVE  \/ tail.stage = "started" /\ tail.proposal = p
                        \/ terminals[runOf(p)] > 0
        BY DEF UnrecordedEffectExplained
    <2>1. Authorised(p)
        BY DEF Kept, EffectInv, TaskInv
    <2>2. ledger[p] \in BeforeOutcome
        BY <2>1, KeptTypes DEF Authorised, LedgerEntry, BeforeOutcome
    <2> QED BY <2>2 DEF PendingInv
  <1> QED BY <1>1, KeptAlways, AccountAlways, PTL

-------------------------------------------------------------------------------
(* The actor and the record.  While a run rests, because a steering message    *)
(* could not be recorded, nothing is pending in the record either.             *)

RestInv ==
  at = "mailbox" /\ Running /\ ~run.held /\ InFlight = {} => tail.stage = "none"

\* The actor stays where it is, and the run keeps what it waits for.
LEMMA SamePlaceRests ==
  ASSUME RestInv, UNCHANGED <<at, tail>>, run'.id = run.id, run'.held = run.held,
         InFlight' = {} => InFlight = {}
  PROVE  RestInv'
  BY DEF RestInv, Running

LEMMA DroppedRests ==
  ASSUME run' = NoActiveRun
  PROVE  RestInv'
  BY DEF RestInv, Running, NoActiveRun

LEMMA ElsewhereRests ==
  ASSUME at' # "mailbox"
  PROVE  RestInv'
  BY DEF RestInv

LEMMA HumanRests ==
  ASSUME AccountInv, RestInv, Human
  PROVE  RestInv'
  <1>0. run \in ActiveRun /\ (~Running => run.id = NoRun)
      BY KeptTypes DEF AccountInv, Running
  <1>1. ASSUME NEW external \in BOOLEAN, StartRun(external) PROVE RestInv'
    <2>1. at' = "turn" \/ UNCHANGED <<at, run, tail, tools>>
        BY <1>1 DEF StartRun
    <2> QED BY <2>1, ElsewhereRests, SamePlaceRests DEF InFlight
  <1>2. CASE CancelRun
    <2>1. /\ run'.id = run.id /\ run'.held = run.held /\ UNCHANGED <<tail, tools>>
          /\ at' = at \/ at' = "finish"
        BY <1>0, <1>2 DEF CancelRun, ActiveRun, Free, record
    <2> QED BY <2>1, ElsewhereRests, SamePlaceRests DEF InFlight
  <1>3. CASE QueueSteering \/ ResumeWhileOpen \/ Resume
             \/ (\E mode \in Mode : SetPolicy(mode))
             \/ (\E tier \in ModelTiers : SelectModel(tier))
    <2>1. UNCHANGED <<at, run, tail, tools>>
        BY <1>3
        DEF QueueSteering, ResumeWhileOpen, Resume, SetPolicy, SelectModel, loop, tasks,
            record
    <2> QED BY <2>1, SamePlaceRests DEF InFlight
  <1>4. ASSUME NEW p \in ProposalId, NEW d \in ApprovalDecision, ResolveApproval(p, d)
        PROVE  RestInv'
    <2>1. CASE HaltForStore
        BY <2>1, DroppedRests DEF HaltForStore
    <2>2. CASE at' = afterDecision(d)
        BY <2>2, ElsewhereRests DEF afterDecision
    <2> QED BY <1>4, <2>1, <2>2 DEF ResolveApproval
  <1>5. CASE EndSession \/ ResolveRecovery \/ ResolveRecoveryByEnding \/ ReleaseSession
             \/ Shutdown
    <2>1. CASE LetGo
        BY <2>1, DroppedRests DEF LetGo
    <2>2. CASE UNCHANGED <<at, run, tail, tools>>
        BY <2>2, SamePlaceRests DEF InFlight
    <2>3. CASE UNCHANGED run /\ tail' = EmptyTracker
        BY <2>3 DEF RestInv, EmptyTracker
    <2> QED BY <1>5, <2>1, <2>2, <2>3
            DEF EndSession, EndSessionSteps, ResolveRecovery, ResolveRecoveryByEnding,
                ReleaseSession, Shutdown, clear, tasks, record
  <1>6. CASE RefuseModelSwitch
      BY <1>6, DroppedRests DEF RefuseModelSwitch, HaltForStore
  <1> QED BY <1>1, <1>2, <1>3, <1>4, <1>5, <1>6 DEF Human

LEMMA LoopRests ==
  ASSUME AccountInv, RestInv, Loop
  PROVE  RestInv'
  <1>1. CASE HaltForStore
      BY <1>1, DroppedRests DEF HaltForStore
  <1>2. CASE at' # "mailbox"
      BY <1>2, ElsewhereRests
  <1>3. CASE BeginProviderTurn /\ ~HaltForStore
    <2>1. tail' = tail /\ tail.stage = "none"
        BY <1>3 DEF BeginProviderTurn, AccountInv, PendingInv, record
    <2> QED BY <2>1 DEF RestInv
  <1>4. CASE DrivePropose /\ ~HaltForStore /\ at' = "mailbox"
    <2> DEFINE gate == gate_decision(Head(run.pending_tools))
    <2>1. Head(run.pending_tools) \in Call
        BY <1>4, ReservedProposal DEF DrivePropose, AccountInv, Kept, Sound, WaitInv
    <2>2. gate \in {"Deny", "Ask", "Allow"}
        BY <2>1, CallAssumption
        DEF gate_decision, decide, AccountInv, Kept, Sound, TypeOK, ToolTier, PolicyMode
    <2>3. gate = "Ask"
        BY <1>4, <2>2 DEF DrivePropose
    <2>4. run'.held
        BY <1>4, <2>3, KeptTypes DEF DrivePropose, AccountInv, ActiveRun
    <2> QED BY <2>4 DEF RestInv
  <1>5. CASE StartTool /\ at' = "mailbox"
    <2>1. PICK t : t = [proposal |-> run.proposal, call |-> run.call, effected |-> FALSE]
        OBVIOUS
    <2>2. t \in tools' /\ run'.id = run.id
        BY <1>5, <2>1, KeptTypes DEF StartTool, Disposed, AccountInv, ActiveRun
    <2>3. runOf(t.proposal) = run.id
        BY <1>5, <2>1 DEF StartTool, AccountInv, Kept, Sound, WaitInv, BusyOK, Disposing
    <2>4. t \in InFlight'
        BY <2>2, <2>3 DEF InFlight, runOf
    <2> QED BY <2>4 DEF RestInv
  <1>6. CASE EndRun
      BY <1>6, DroppedRests DEF EndRun, HaltForStore
  <1> QED BY <1>1, <1>2, <1>3, <1>4, <1>5, <1>6
          DEF Loop, DriveDone, DriveRefused, DrivePropose, AutoApprove, RecordRefusal,
              ExhaustBudget, StartTool

LEMMA MailRests ==
  ASSUME AccountInv, RestInv, Mail \/ Environment
  PROVE  RestInv'
  <1>1. CASE HaltForStore
      BY <1>1, DroppedRests DEF HaltForStore
  <1>2. ASSUME NEW r \in RunId, ProviderEnded(r), ~HaltForStore PROVE RestInv'
    <2>1. UNCHANGED <<at, run, tail, tools>> \/ at' # "mailbox"
        BY <1>2 DEF ProviderEnded, loop
    <2> QED BY <2>1, ElsewhereRests, SamePlaceRests DEF InFlight
  <1>3. ASSUME NEW t \in tools, ToolEnded(t), ~HaltForStore PROVE RestInv'
    <2>1. CASE at' # "mailbox"
        BY <2>1, ElsewhereRests
    <2>2. CASE ~addressed(runOf(t.proposal))
      <3>1. UNCHANGED <<at, run, tail>> /\ tools' = tools \ {t}
          BY <1>3, <2>2 DEF ToolEnded, loop
      <3>2. t \notin InFlight
          BY <2>2 DEF InFlight, addressed
      <3>3. InFlight' = InFlight
          BY <3>1, <3>2 DEF InFlight
      <3> QED BY <3>1, <3>3, SamePlaceRests
    <2> QED BY <1>3, <2>1, <2>2 DEF ToolEnded
  <1>4. ASSUME NEW r \in RunId, BudgetExpired(r) PROVE RestInv'
    <2>1. at' = "exhaust" \/ UNCHANGED <<at, run, tail, tools>>
        BY <1>4 DEF BudgetExpired, record
    <2> QED BY <2>1, ElsewhereRests, SamePlaceRests DEF InFlight
  <1>5. ASSUME NEW t \in tools, ToolEffect(t) PROVE RestInv'
    <2>1. PICK u : u = [t EXCEPT !.effected = TRUE]
        OBVIOUS
    <2>2. u.proposal = t.proposal
        BY <2>1, KeptTypes DEF AccountInv, ToolTask
    <2>3. tools' = (tools \ {t}) \union {u} /\ UNCHANGED <<at, run, tail>>
        BY <1>5, <2>1 DEF ToolEffect, loop, record
    <2>4. InFlight' = {} => InFlight = {}
        BY <2>2, <2>3 DEF InFlight
    <2> QED BY <2>3, <2>4, SamePlaceRests
  <1>6. CASE \E r \in RunId : TimerFires(r)
      BY <1>6, SamePlaceRests DEF TimerFires, InFlight, loop, record
  <1>7. CASE Crash
      BY <1>7, DroppedRests DEF Crash, LetGo
  <1> QED BY <1>1, <1>2, <1>3, <1>4, <1>5, <1>6, <1>7
          DEF Mail, Environment, ProviderRecordFails

LEMMA RestAlways == Spec => []RestInv
  <1>1. Init => RestInv
      BY DEF Init, RestInv, EmptyTracker
  <1>2. Kept /\ (EndInv /\ PendingInv) /\ RestInv /\ [Next]_vars => RestInv'
    <2> SUFFICES ASSUME AccountInv, RestInv, [Next]_vars PROVE RestInv'
        BY DEF AccountInv
    <2>1. CASE UNCHANGED vars
        BY <2>1, SamePlaceRests DEF vars, loop, tasks, record, InFlight
    <2> QED BY <2>1, HumanRests, LoopRests, MailRests DEF Next
  <1> QED BY <1>1, <1>2, KeptAlways, AccountAlways, PTL DEF Spec

(***************************************************************************)
(* Whenever the actor could be interrupted between two handlers, what a      *)
(* replay would report is what the actor holds: the open run, its held        *)
(* proposal waiting, its running tool started, nothing while the provider      *)
(* answers, and nothing at all when a sound session is idle (drive_tools,       *)
(* resolve_approval, finish_run, halt_for_store against recovery.rs).           *)
(***************************************************************************)
THEOREM ReplayReportsTheRun == Spec => []TrackerAgreesWithRun
  <1>1. Kept /\ EndInv /\ PendingInv /\ RestInv => TrackerAgreesWithRun
    <2> SUFFICES ASSUME AccountInv, RestInv, open, at = "mailbox"
                 PROVE  IF Running
                        THEN /\ tail.run = run.id
                             /\ run.held => /\ tail.stage = "awaiting"
                                            /\ tail.proposal = run.proposal
                             /\ \A t \in InFlight : /\ tail.stage = "started"
                                                    /\ tail.proposal = t.proposal
                             /\ ~run.held /\ InFlight = {} => tail.stage = "none"
                        ELSE recovery = "Clean" /\ ~storeFailed => tail = EmptyTracker
        BY DEF AccountInv, TrackerAgreesWithRun
    <2>1. ASSUME Running, NEW t \in InFlight
          PROVE  tail.stage = "started" /\ tail.proposal = t.proposal
      <3>1. t \in tools /\ runOf(t.proposal) = run.id
          BY <2>1 DEF InFlight
      <3>2. PICK p \in ProposalId : p = t.proposal
          BY <3>1, KeptTypes DEF AccountInv
      <3>3. ledger[p] \in BeforeOutcome
        <4>1. ledger[p] \notin {"none", "gated", "denied"}
            BY <3>1, <3>2 DEF AccountInv, Kept, EffectInv, TaskInv, Authorised
        <4>2. ledger[p] \notin {"settled", "abandoned"}
            BY <3>1, <3>2 DEF AccountInv, Kept, StageInv
        <4> QED BY <4>1, <4>2, KeptTypes DEF LedgerEntry, BeforeOutcome, AccountInv
      <3> QED BY <2>1, <3>1, <3>2, <3>3, ActiveWorkIsPending
    <2>2. CASE Running
        BY <2>1, <2>2 DEF RestInv, AccountInv, Kept, Sound, LogInv, EffectInv, GateInv
    <2>3. CASE ~Running
        BY <2>3 DEF AccountInv, Kept, Sound, LogInv
    <2> QED BY <2>2, <2>3
  <1> QED BY <1>1, KeptAlways, AccountAlways, RestAlways, PTL

-------------------------------------------------------------------------------
(* The gate.  Its answer about a call is carried from the moment it is given  *)
(* to the end of the task: the policy is locked, a grant only turns a         *)
(* question into a permission, and trust only changes when the one task of    *)
(* the run is over.                                                           *)

Honoured(call, p) ==
  gate_decision(call) # "Deny" /\ (gate_decision(call) = "Ask" => authority[p] = "human")

GateKept ==
  /\ run.held => gate_decision(run.call) # "Deny"
  /\ at = "auto" => gate_decision(run.call) = "Allow"
  /\ at = "start" => Honoured(run.call, run.proposal)
  /\ \A t \in InFlight : Honoured(t.call, t.proposal)

\* A grant never makes the gate deny or ask what it did not deny or ask before.
LEMMA GrantsOnlyPermit ==
  ASSUME TypeOK, NEW call \in Call, UNCHANGED <<policy, trusted>>, grants \subseteq grants'
  PROVE  /\ gate_decision(call) # "Deny" => gate_decision(call)' # "Deny"
         /\ gate_decision(call)' = "Ask" => gate_decision(call) = "Ask"
  <1>1. policy \in PolicyMode /\ Tier[call] \in ToolTier
      BY CallAssumption DEF TypeOK
  <1> QED BY <1>1 DEF gate_decision, decide, PolicyMode, ToolTier

\* Nothing is gated after a step that holds, starts and runs no call of the run.
LEMMA NothingGated ==
  ASSUME TypeOK', WaitInv', ~Running' \/ at' \in {"turn", "drive", "settle"}
  PROVE  GateKept'
  <1>1. ~Running' => at' = "mailbox" /\ ~run'.held /\ InFlight' = {}
    <2>1. \A t \in tools' : runOf(t.proposal) # NoRun
        BY ConstantTypes DEF TypeOK, ToolTask
    <2>2. run'.held => Running'
        BY ConstantTypes DEF WaitInv, Waits, Disposing, Running
    <2> QED BY <2>1, <2>2 DEF WaitInv, BusyOK, Running, InFlight
  <1>2. ~run'.held /\ InFlight' = {} /\ at' \notin {"auto", "start"}
      BY <1>1 DEF WaitInv, Waits
  <1> QED BY <1>2 DEF GateKept

\* Steps that leave the gate alone and bring nothing new before it.
LEMMA SameGate ==
  ASSUME GateKept, UNCHANGED <<policy, grants, trusted, authority>>,
         tools' \subseteq tools, run'.id = run.id,
         run'.held => run.held /\ run'.call = run.call,
         at' \in {"auto", "start"} => UNCHANGED <<at, run>>
  PROVE  GateKept'
  <1>1. InFlight' \subseteq InFlight
      BY DEF InFlight
  <1>2. \A call : gate_decision(call)' = gate_decision(call)
      BY DEF gate_decision
  <1> QED BY <1>1, <1>2 DEF GateKept, Honoured

LEMMA HumanGate ==
  ASSUME Kept, GateKept, Human, Running', TypeOK', WaitInv'
  PROVE  GateKept'
  <1>1. CASE run' = NoActiveRun
      BY <1>1 DEF Running, NoActiveRun
  <1>2. ASSUME NEW external \in BOOLEAN, StartRun(external) PROVE GateKept'
      BY <1>2, NothingGated, Zenon DEF StartRun, Running
  <1>3. ASSUME NEW p \in ProposalId, NEW d \in ApprovalDecision, ResolveApproval(p, d)
        PROVE  GateKept'
    <2>1. CASE HaltForStore
        BY <1>1, <2>1 DEF HaltForStore
    <2>2. CASE at' = "settle"
        BY <2>2, NothingGated
    <2>3. CASE at' = "start" /\ d # "Deny" /\ ~HaltForStore
      <3>1. /\ run.held /\ run.call \in Call /\ run.proposal = p
            /\ InFlight = {} /\ gate_decision(run.call) # "Deny"
          BY <1>3 DEF ResolveApproval, Kept, Sound, WaitInv, Waits, Disposing, GateKept
      <3>2. /\ UNCHANGED <<policy, trusted, tools>> /\ grants \subseteq grants'
            /\ run'.id = run.id /\ ~run'.held /\ run'.call = run.call
            /\ run'.proposal = p /\ authority' = [authority EXCEPT ![p] = "human"]
          BY <1>3, <2>3, <3>1, KeptTypes DEF ResolveApproval, ActiveRun
      <3>3. gate_decision(run.call)' # "Deny"
        <4>1. PICK call \in Call : call = run.call
            BY <3>1
        <4>2. gate_decision(call)' # "Deny"
            BY <3>1, <3>2, <4>1, GrantsOnlyPermit, KeptTypes
        <4> QED BY <3>2, <4>1, <4>2 DEF gate_decision
      <3>4. InFlight' = {} /\ authority'[p] = "human"
          BY <3>1, <3>2, KeptTypes DEF InFlight
      <3> QED BY <2>3, <3>2, <3>3, <3>4 DEF GateKept, Honoured
    <2> QED BY <1>3, <2>1, <2>2, <2>3 DEF ResolveApproval, afterDecision
  <1>4. CASE QueueSteering \/ ResumeWhileOpen \/ ((ReleaseSession \/ Shutdown) /\ ~LetGo)
      BY <1>4, SameGate
      DEF QueueSteering, ResumeWhileOpen, ReleaseSession, Shutdown, session, loop, tasks,
          record
  <1>5. CASE CancelRun
    <2>1. /\ run'.id = run.id /\ run'.held = run.held /\ run'.call = run.call
          /\ at' \notin {"auto", "start"}
        BY <1>5, KeptTypes DEF CancelRun, ActiveRun
    <2> QED BY <1>5, <2>1, SameGate DEF CancelRun, session, record
  <1>6. CASE ~Running /\ UNCHANGED run
      BY <1>6 DEF Running
  <1>7. CASE LetGo
      BY <1>1, <1>7 DEF LetGo
  <1>8. CASE \/ EndSession \/ ResolveRecovery \/ ResolveRecoveryByEnding \/ Resume
             \/ \E mode \in Mode : SetPolicy(mode)
             \/ \E tier \in ModelTiers : SelectModel(tier)
    <2>1. ~Running
        BY <1>8, KeptTypes
        DEF EndSession, ResolveRecovery, ResolveRecoveryByEnding, Resume, SetPolicy,
            SelectModel, PolicyLocked, Kept, Sound, WaitInv, Waits
    <2>2. UNCHANGED run \/ LetGo
        BY <1>8
        DEF EndSession, EndSessionSteps, ResolveRecovery, ResolveRecoveryByEnding, Resume,
            SetPolicy, SelectModel
    <2> QED BY <1>6, <1>7, <2>1, <2>2
  <1>9. CASE RefuseModelSwitch
      BY <1>1, <1>9 DEF RefuseModelSwitch, HaltForStore
  <1> QED BY <1>2, <1>3, <1>4, <1>5, <1>7, <1>8, <1>9 DEF Human

LEMMA LoopGate ==
  ASSUME Kept, GateKept, Loop, Running', TypeOK', WaitInv'
  PROVE  GateKept'
  <1>1. CASE run' = NoActiveRun
      BY <1>1 DEF Running, NoActiveRun
  <1>2. CASE at' \in {"turn", "drive", "settle"}
      BY <1>2, NothingGated
  <1>3. CASE DriveDone \/ RecordRefusal \/ EndRun
      BY <1>1, <1>2, <1>3 DEF DriveDone, RecordRefusal, EndRun, HaltForStore
  <1>4. CASE BeginProviderTurn \/ DriveRefused \/ ExhaustBudget
    <2>1. CASE ~HaltForStore /\ at' # "settle"
      <3>1. /\ run'.id = run.id /\ run'.held = run.held /\ at' \notin {"auto", "start"}
            /\ run.held => run'.call = run.call
          BY <1>4, <2>1, KeptTypes
          DEF BeginProviderTurn, DriveRefused, ExhaustBudget, ActiveRun, Kept, Sound,
              WaitInv, Waits
      <3> QED BY <1>4, <2>1, <3>1, SameGate
              DEF BeginProviderTurn, DriveRefused, ExhaustBudget, LoopFrame, session,
                  tasks, record
    <2> QED BY <1>1, <1>2, <2>1 DEF HaltForStore
  <1>5. CASE DrivePropose
    <2>1. PICK call \in Call : call = Head(run.pending_tools)
        BY <1>5, RunUpdates, KeptTypes DEF DrivePropose
    <2>2. InFlight = {} /\ gate_decision(call) \in PolicyDecision
      <3>1. InFlight = {}
          BY <1>5 DEF DrivePropose, Kept, Sound, WaitInv, Waits
      <3>2. policy \in PolicyMode /\ Tier[call] \in ToolTier
          BY <2>1, CallAssumption, KeptTypes DEF TypeOK
      <3> QED BY <3>1, <3>2
              DEF gate_decision, decide, PolicyMode, ToolTier, PolicyDecision
    <2>3. CASE HaltForStore
        BY <1>1, <2>3 DEF HaltForStore
    <2>4. CASE ~HaltForStore
      <3>1. /\ run'.id = run.id /\ run'.held = (gate_decision(call) = "Ask")
            /\ run'.call = call
            /\ at' = "auto" \/ at' = "start" => gate_decision(call) = "Allow"
            /\ UNCHANGED <<policy, grants, trusted, tools>>
        <4>1. run'.id = run.id /\ run'.held = (gate_decision(call) = "Ask")
              /\ run'.call = call
            BY <1>5, <2>1, <2>4, KeptTypes DEF DrivePropose, ActiveRun
        <4>2. at' = "auto" \/ at' = "start" => gate_decision(call) = "Allow"
            BY <1>5, <2>1, <2>2, <2>4 DEF DrivePropose, PolicyDecision
        <4> QED BY <1>5, <2>4, <4>1, <4>2 DEF DrivePropose, LoopFrame, session, tasks
      <3>2. gate_decision(call)' = gate_decision(call) /\ InFlight' = {}
          BY <2>2, <3>1 DEF gate_decision, InFlight
      <3> QED BY <3>1, <3>2 DEF GateKept, Honoured, gate_decision
    <2> QED BY <2>3, <2>4
  <1>6. CASE AutoApprove
    <2>1. CASE ~HaltForStore
      <3>1. /\ UNCHANGED <<run, policy, grants, trusted>> /\ at' = "start"
            /\ gate_decision(run.call) = "Allow"
          BY <1>6, <2>1 DEF AutoApprove, LoopFrame, session, GateKept
      <3>2. InFlight' = {} /\ ~run'.held
          BY <3>1 DEF WaitInv, Waits
      <3> QED BY <3>1, <3>2 DEF GateKept, Honoured, gate_decision
    <2> QED BY <1>1, <2>1 DEF HaltForStore
  <1>7. CASE StartTool /\ at' # "settle"
    <2>1. PICK task : task = [proposal |-> run.proposal, call |-> run.call,
                              effected |-> FALSE]
        OBVIOUS
    <2>2. /\ at = "start" /\ at' = "mailbox" /\ run'.id = run.id /\ ~run'.held
          /\ UNCHANGED <<policy, grants, trusted, authority>>
          /\ tools' = tools \union {task}
          /\ task.proposal = run.proposal /\ task.call = run.call
        BY <1>7, <2>1, KeptTypes
        DEF StartTool, Disposed, ActiveRun, LoopFrame, session, Kept, Sound, WaitInv, Waits
    <2>3. InFlight' \subseteq InFlight \union {task}
        BY <2>2 DEF InFlight
    <2> QED BY <2>2, <2>3 DEF GateKept, Honoured, gate_decision
  <1> QED BY <1>2, <1>3, <1>4, <1>5, <1>6, <1>7 DEF Loop

LEMMA MailGate ==
  ASSUME Kept, GateKept, Mail \/ Environment, Running', TypeOK', WaitInv'
  PROVE  GateKept'
  <1>1. CASE run' = NoActiveRun
      BY <1>1 DEF Running, NoActiveRun
  <1>2. CASE at' \in {"turn", "drive", "settle"}
      BY <1>2, NothingGated
  <1>3. ASSUME NEW r \in RunId, ~HaltForStore, at' \notin {"turn", "drive"},
               ProviderEnded(r) \/ BudgetExpired(r) \/ TimerFires(r)
        PROVE  GateKept'
    <2>1. /\ run'.id = run.id /\ run'.held = run.held /\ run'.call = run.call
          /\ (at' \in {"auto", "start"} => UNCHANGED <<at, run>>)
        BY <1>3, KeptTypes DEF ProviderEnded, BudgetExpired, TimerFires, loop, ActiveRun
    <2> QED BY <1>3, <2>1, SameGate
            DEF ProviderEnded, BudgetExpired, TimerFires, loop, LoopFrame, session, record
  <1>4. ASSUME NEW t \in tools, ToolEffect(t) PROVE GateKept'
    <2>1. PICK done : done = [t EXCEPT !.effected = TRUE]
        OBVIOUS
    <2>2. /\ done.proposal = t.proposal /\ done.call = t.call
          /\ UNCHANGED <<at, run, policy, grants, trusted, authority>>
          /\ tools' = (tools \ {t}) \union {done}
        BY <1>4, <2>1, KeptTypes DEF ToolEffect, ToolTask, session, loop, record
    <2>3. \A u \in InFlight' : \E v \in InFlight : u.call = v.call /\ u.proposal = v.proposal
        BY <1>4, <2>2 DEF InFlight, ToolEffect
    <2> QED BY <2>2, <2>3 DEF GateKept, Honoured, gate_decision
  <1>5. ASSUME NEW t \in tools, ToolEnded(t), ~HaltForStore, at' # "drive"
        PROVE  GateKept'
    <2>1. CASE UNCHANGED trusted
        BY <1>5, <2>1, SameGate DEF ToolEnded, loop, LoopFrame, session
    <2>2. CASE ~UNCHANGED trusted
      <3>1. /\ addressed(runOf(t.proposal)) /\ at' = "finish" /\ UNCHANGED run
            /\ tools' = tools \ {t}
          BY <1>5, <2>2 DEF ToolEnded, LoopFrame, session
      <3>2. InFlight = {t} /\ ~run.held
          BY <3>1 DEF addressed, InFlight, Kept, Sound, WaitInv, Waits
      <3>3. InFlight' = {}
          BY <3>1, <3>2 DEF InFlight
      <3> QED BY <3>1, <3>2, <3>3 DEF GateKept
    <2> QED BY <2>1, <2>2
  <1>6. CASE HaltForStore \/ Crash
      BY <1>1, <1>6 DEF HaltForStore, Crash, LetGo
  <1> QED BY <1>2, <1>3, <1>4, <1>5, <1>6 DEF Mail, Environment, ProviderRecordFails

LEMMA GateAlways == Spec => []GateKept
  <1>1. Init => GateKept
      BY DEF Init, GateKept, InFlight, NoActiveRun
  <1>2. Kept /\ Kept' /\ GateKept /\ [Next]_vars => GateKept'
    <2> SUFFICES ASSUME Kept, Kept', GateKept, [Next]_vars PROVE GateKept'
        OBVIOUS
    <2>0. TypeOK' /\ WaitInv'
        BY DEF Kept, Sound
    <2>1. CASE ~Running'
        BY <2>0, <2>1, NothingGated
    <2>2. CASE UNCHANGED vars
        BY <2>2, SameGate DEF vars, session, loop, tasks, record
    <2> QED BY <2>0, <2>1, <2>2, HumanGate, LoopGate, MailGate DEF Next
  <1> QED BY <1>1, <1>2, KeptAlways, PTL DEF Spec

(***************************************************************************)
(* What runs is what the gate permits now: at every moment of a tool task's  *)
(* life the policy, grants and trust in force do not deny its call, and if   *)
(* they would ask about it a human has answered (decide, dispose_proposal,   *)
(* resolve_approval, the lock in set_policy and select_model).               *)
(***************************************************************************)
THEOREM RunningToolsAreGated == Spec => []GateHonoured
  <1>1. GateKept => GateHonoured
      BY DEF GateKept, Honoured, GateHonoured
  <1> QED BY <1>1, GateAlways, PTL

-------------------------------------------------------------------------------
(* Closed sessions.  A session that ended in the record and is still open in  *)
(* this process has no run and a store failure noted, which only letting go   *)
(* of the session clears; and a resume refuses it.                            *)

ClosedInv == ended => ~Running /\ (open => storeFailed)

LEMMA ClosedNext == Kept /\ ClosedInv /\ [Next]_vars => ClosedInv'
  <1> SUFFICES ASSUME Kept, ClosedInv, [Next]_vars PROVE ClosedInv'
      OBVIOUS
  <1>1. CASE run' = NoActiveRun /\ (storeFailed' \/ ~open')
      BY <1>1 DEF ClosedInv, Running, NoActiveRun
  <1>2. CASE /\ UNCHANGED <<ended, open>> /\ run'.id \in {run.id, NoRun}
             /\ (storeFailed => storeFailed')
      BY <1>2 DEF ClosedInv, Running
  <1>3. CASE LetGo \/ HaltForStore
      BY <1>1, <1>3 DEF LetGo, HaltForStore
  <1>4. CASE Human
    <2>1. ASSUME NEW external \in BOOLEAN, StartRun(external) PROVE ClosedInv'
      <3>1. UNCHANGED <<ended, open>> /\ open
          BY <2>1 DEF StartRun, Free
      <3>2. CASE Blocked
          BY <1>2, <2>1, <3>1, <3>2, Zenon DEF StartRun
      <3>3. CASE ~Blocked
          BY <3>1, <3>3 DEF ClosedInv, Blocked
      <3> QED BY <3>2, <3>3
    <2>2. CASE EndSession \/ ResolveRecovery \/ ResolveRecoveryByEnding
      <3>1. ~Running
          BY <2>2, KeptTypes DEF EndSession, ResolveRecovery, ResolveRecoveryByEnding
      <3>2. CASE UNCHANGED run /\ storeFailed'
          BY <3>1, <3>2 DEF ClosedInv, Running
      <3>3. CASE UNCHANGED <<ended, open, run, storeFailed>>
          BY <1>2, <3>3
      <3> QED BY <1>3, <2>2, <3>2, <3>3
              DEF EndSession, EndSessionSteps, ResolveRecovery, ResolveRecoveryByEnding,
                  NoteStoreFailure
    <2>3. CASE Resume
      <3>1. ~ended'
          BY <2>3 DEF Resume, Resumable, record
      <3> QED BY <3>1 DEF ClosedInv
    <2>4. ASSUME NEW p \in ProposalId, NEW d \in ApprovalDecision, ResolveApproval(p, d)
          PROVE  ClosedInv'
        BY <1>2, <1>3, <2>4, KeptTypes DEF ResolveApproval, ActiveRun
    <2>5. CASE \/ QueueSteering \/ CancelRun \/ ReleaseSession \/ Shutdown
               \/ ResumeWhileOpen \/ RefuseModelSwitch
               \/ \E mode \in Mode : SetPolicy(mode)
               \/ \E tier \in ModelTiers : SelectModel(tier)
        BY <1>2, <1>3, <2>5, KeptTypes
        DEF QueueSteering, CancelRun, ReleaseSession, Shutdown, ResumeWhileOpen,
            RefuseModelSwitch, SetPolicy, SelectModel, NoteStoreFailure, session, loop,
            record, ActiveRun
    <2> QED BY <1>4, <2>1, <2>2, <2>3, <2>4, <2>5 DEF Human
  <1>5. CASE Loop
    <2>1. ~ended
        BY <1>5
        DEF Loop, BeginProviderTurn, DriveDone, DriveRefused, DrivePropose, AutoApprove,
            StartTool, RecordRefusal, ExhaustBudget, EndRun, ClosedInv, Kept, Sound,
            WaitInv, BusyOK
    <2>2. UNCHANGED ended
        BY <1>5
        DEF Loop, BeginProviderTurn, DriveDone, DriveRefused, DrivePropose, AutoApprove,
            StartTool, RecordRefusal, ExhaustBudget, EndRun, HaltForStore, LoopFrame,
            record
    <2> QED BY <2>1, <2>2 DEF ClosedInv
  <1>6. CASE Mail \/ Environment
    <2>1. CASE Crash
        BY <1>3, <2>1 DEF Crash
    <2>2. ASSUME NEW r \in RunId, ~HaltForStore,
                 ProviderEnded(r) \/ BudgetExpired(r) \/ TimerFires(r)
          PROVE  ClosedInv'
        BY <1>2, <2>2, KeptTypes
        DEF ProviderEnded, BudgetExpired, TimerFires, loop, LoopFrame, session, record,
            ActiveRun
    <2>3. ASSUME NEW t \in tools, ToolEnded(t) \/ ToolEffect(t), ~HaltForStore
          PROVE  ClosedInv'
        BY <1>2, <2>3 DEF ToolEnded, ToolEffect, loop, LoopFrame, session, record
    <2> QED BY <1>3, <1>6, <2>1, <2>2, <2>3 DEF Mail, Environment, ProviderRecordFails
  <1>7. CASE UNCHANGED vars
      BY <1>2, <1>7 DEF vars, session, loop, record
  <1> QED BY <1>4, <1>5, <1>6, <1>7 DEF Next

LEMMA ClosedAlways == Spec => []ClosedInv
  <1>1. Init => ClosedInv
      BY DEF Init, ClosedInv
  <1> QED BY <1>1, ClosedNext, KeptAlways, PTL DEF Spec

(***************************************************************************)
(* A session that ended accepts no work, also while a failed lease or row    *)
(* update keeps it open in this process (end_session, resolve_recovery,      *)
(* blocked, resume_session).                                                 *)
(***************************************************************************)
THEOREM EndedStaysIdle == Spec => []EndedAcceptsNoWork
  <1>1. ClosedInv => EndedAcceptsNoWork
      BY DEF ClosedInv, EndedAcceptsNoWork, Blocked
  <1> QED BY <1>1, ClosedAlways, PTL

(***************************************************************************)
(* No provider request and no tool task starts while interrupted work waits  *)
(* for a human, after the session ended, or for a run whose start is not in  *)
(* the record (begin_provider_turn, start_tool, blocked).                    *)
(***************************************************************************)
THEOREM WorkIsSettledFirst == Spec => NoWorkWhileRecovering
  <1> DEFINE Starts == \/ streaming' \ streaming # {}
                       \/ \E t \in tools' : \A u \in tools : u.proposal # t.proposal
             Fit == recovery = "Clean" /\ ~ended /\ open /\ tail.run = run.id
  <1>1. Kept /\ ClosedInv /\ [Next]_vars => [Starts => Fit]_vars
    <2> SUFFICES ASSUME Kept, ClosedInv, Next, Starts PROVE Fit
        OBVIOUS
    <2>1. CASE Running
        BY <2>1, KeptTypes DEF Kept, Sound, WaitInv, Waits, ClosedInv
    <2>2. CASE ~Running
      <3>1. ~Loop
          BY <2>2
          DEF Loop, BeginProviderTurn, DriveDone, DriveRefused, DrivePropose, AutoApprove,
              StartTool, RecordRefusal, ExhaustBudget, EndRun, Kept, Sound, WaitInv, BusyOK
      <3>2. CASE Human
          BY <3>2
          DEF Human, StartRun, QueueSteering, CancelRun, ResolveApproval, SetPolicy,
              SelectModel, RefuseModelSwitch, EndSession, EndSessionSteps,
              ResolveRecovery, ResolveRecoveryByEnding, ReleaseSession, Shutdown, Resume,
              ResumeWhileOpen, LetGo, tasks
      <3>3. CASE Mail \/ Environment
        <4>1. ASSUME NEW r \in RunId,
                     \/ ProviderEnded(r) \/ ProviderRecordFails(r)
                     \/ BudgetExpired(r) \/ TimerFires(r)
              PROVE  FALSE
            BY <4>1 DEF ProviderEnded, ProviderRecordFails, BudgetExpired, TimerFires
        <4>2. ASSUME NEW t \in tools, ToolEnded(t) \/ Crash PROVE FALSE
            BY <4>2 DEF ToolEnded, Crash, LetGo
        <4>3. ASSUME NEW t \in tools, ToolEffect(t) PROVE FALSE
          <5>1. [t EXCEPT !.effected = TRUE].proposal = t.proposal
              BY KeptTypes DEF ToolTask
          <5> QED BY <4>3, <5>1 DEF ToolEffect
        <4> QED BY <3>3, <4>1, <4>2, <4>3 DEF Mail, Environment, Crash, LetGo
      <3> QED BY <3>1, <3>2, <3>3 DEF Next
    <2> QED BY <2>1, <2>2
  <1> QED BY <1>1, KeptAlways, ClosedAlways, PTL DEF Spec, NoWorkWhileRecovering

--------------------------------------------------------------------------------
(* The route: which provider a run asks next, for any providers, route, threshold  *)
(* and turn budget (module ProviderRoute).  `at`, `run`, `steering` and the turn     *)
(* budget are named as the run loop's are; no theorem is about both.                *)
(*                                                                                *)
(* ChargesWhomItAsks is inductive with the types and with where the actor is:       *)
(* session and run move together in try_advance_route, and what moves one alone     *)
(* happens only without a run.  HardStopHolds needs to know more of the run          *)
(* (Latched): past hops are behind the position, and a provider past its hard        *)
(* threshold has its latch set until the hop is left.                              *)

CONSTANTS Provider, Route, failure_threshold, Configured, MaxFaults
VARIABLES provider, position, breaker, reserve, used, faults

Hop == INSTANCE ProviderRoute

\* The run the actor is busy with, and the provider it stands at.
AskedInv ==
  IF at = "idle" THEN run = Hop!NoRun
  ELSE run \in Hop!ActiveRun /\ run.provider = provider

\* A closed breaker has not counted to its threshold.
Counted == {b \in Hop!Breaker : b.state = "Closed" => b.failures < failure_threshold}

\* A request that is sent is within the turn budget.
TurnsLeft == at = "gate" => run.turns < max_provider_turns

RouteInv == Hop!TypeOK /\ AskedInv /\ TurnsLeft /\ breaker \in [Provider -> Counted]

\* The route takes no provider twice.
Simple == \A m, n \in DOMAIN Route : Route[m] = Route[n] => m = n

\* The providers of the hops up to the live one.
visited == {Route[n] : n \in 1 .. position} \union {provider}

\* Of a run that started on its route: it is still on it, the reports it remembers
\* are of hops it has taken, that of its own hop keeps the latch set, and a latched
\* run passes begin_provider_turn only to land.
Latched ==
  at # "idle" /\ run.live =>
    /\ Hop!OnRoute
    /\ run.over \subseteq visited
    /\ provider \in run.over => run.hard_stop
    /\ at = "gate" /\ run.hard_stop => run.intent # "Normal"

--------------------------------------------------------------------------------
(* The helpers of the route.                                                *)

\* A hop is a connected provider.
LEMMA HopsAreProviders ==
  ASSUME Hop!RouteAssumption
  PROVE  /\ Len(Route) \in Nat /\ Len(Route) >= 1
         /\ \A n \in 1 .. Len(Route) : Route[n] \in Provider
<1> QED BY DEF Hop!RouteAssumption

\* A fault, or none, stays within the bound.
LEMMA FaultsBounded ==
  ASSUME Hop!RouteAssumption, faults \in 0 .. MaxFaults, Hop!fault \/ Hop!sound
  PROVE  faults' \in 0 .. MaxFaults
<1> QED BY DEF Hop!RouteAssumption, Hop!fault, Hop!sound

\* No run is the one there is not.
LEMMA NoRunIsNone == Hop!NoRun \notin Hop!ActiveRun
<1>1. DOMAIN Hop!NoRun = {"provider"}
  BY DEF Hop!NoRun
<1>2. \A r \in Hop!ActiveRun : "turns" \in DOMAIN r
  BY DEF Hop!ActiveRun
<1> QED BY <1>1, <1>2

\* A breaker stays a breaker, and counts no further than its threshold.
LEMMA BreakersStay ==
  ASSUME Hop!RouteAssumption, NEW b \in Counted
  PROVE  /\ Hop!CircuitBreaker \in Counted
         /\ Hop!on_success(b) \in Counted
         /\ Hop!on_failure(b) \in Counted
         /\ [b EXCEPT !.state = "HalfOpen"] \in Counted
<1>1. Hop!CircuitBreaker \in Counted
  BY DEF Hop!RouteAssumption, Hop!CircuitBreaker, Hop!Breaker, Counted
<1>2. Hop!on_success(b) \in Counted
  BY <1>1 DEF Hop!on_success
<1>3. Hop!on_failure(b) \in Counted
  <2>1. CASE b.state = "Closed"
    <3>1. b.failures \in Nat /\ b.failures < failure_threshold
      BY <2>1 DEF Hop!RouteAssumption, Hop!Breaker, Counted
    <3>2. CASE b.failures + 1 < failure_threshold
      BY <2>1, <3>1, <3>2
         DEF Hop!RouteAssumption, Hop!on_failure, Hop!Breaker, Counted
    <3>3. CASE ~(b.failures + 1 < failure_threshold)
      BY <2>1, <3>1, <3>3
         DEF Hop!RouteAssumption, Hop!on_failure, Hop!Breaker, Counted
    <3> QED BY <3>2, <3>3
  <2>2. CASE b.state = "HalfOpen"
    BY <2>2 DEF Hop!RouteAssumption, Hop!on_failure, Hop!Breaker, Counted
  <2>3. CASE b.state = "Open"
    BY <2>3 DEF Hop!on_failure
  <2> QED BY <2>1, <2>2, <2>3 DEF Hop!Breaker, Counted
<1>4. [b EXCEPT !.state = "HalfOpen"] \in Counted
  BY DEF Hop!Breaker, Counted
<1> QED BY <1>1, <1>2, <1>3, <1>4

\* charged touches one breaker only.
LEMMA ChargingKeeps ==
  ASSUME breaker \in [Provider -> Counted], NEW b \in Counted, provider \in Provider,
         Hop!charged(b)
  PROVE  breaker' \in [Provider -> Counted]
<1> QED BY DEF Hop!charged

\* try_advance_route: the next hop with the run on it, or no run.
LEMMA AdvanceKeeps ==
  ASSUME Hop!RouteAssumption,
         RouteInv, at # "idle",
         NEW next \in Hop!At \ {"idle"}, NEW left \in Hop!ReserveStatus,
         next = "gate" => at = "gate",
         Hop!try_advance_route(next, left)
  PROVE  /\ provider' \in Provider /\ position' \in 0 .. Len(Route)
         /\ reserve' \in Hop!ReserveStatus /\ at' \in Hop!At
         /\ faults' \in 0 .. MaxFaults /\ AskedInv' /\ TurnsLeft'
         /\ \/ at' = "idle"
            \/ /\ position < Len(Route) /\ position' = position + 1
               /\ provider' = Route[position + 1] /\ at' = next
               /\ run' = [run EXCEPT !.provider = provider', !.hard_stop = FALSE,
                                     !.pending_drain = FALSE, !.intent = "Normal"]
<1>1. faults' \in 0 .. MaxFaults
  BY FaultsBounded DEF Hop!try_advance_route, RouteInv, Hop!TypeOK
<1>2. CASE /\ position < Len(Route) /\ Hop!sound
           /\ position' = position + 1 /\ provider' = Route[position + 1]
           /\ reserve' = Hop!NoReserve
           /\ run' = [run EXCEPT !.provider = provider', !.hard_stop = FALSE,
                                 !.pending_drain = FALSE, !.intent = "Normal"]
           /\ at' = next
  <2>1. /\ position \in 0 .. Len(Route) /\ position + 1 \in 1 .. Len(Route)
        /\ run \in Hop!ActiveRun
    BY <1>2, HopsAreProviders DEF RouteInv, Hop!TypeOK, AskedInv
  <2>2. provider' \in Provider
    BY <1>2, <2>1, HopsAreProviders
  <2>3. run' \in Hop!ActiveRun /\ run'.provider = provider'
    BY <1>2, <2>1, <2>2 DEF Hop!ActiveRun, Hop!Intent
  <2>4. reserve' \in Hop!ReserveStatus
    BY <1>2 DEF Hop!NoReserve, Hop!ReserveStatus, Hop!Phase
  <2>5. TurnsLeft'
    BY <1>2, <2>1 DEF TurnsLeft, RouteInv, Hop!ActiveRun
  <2> QED BY <1>1, <1>2, <2>1, <2>2, <2>3, <2>4, <2>5 DEF AskedInv
<1>3. CASE Hop!ends /\ reserve' = left /\ UNCHANGED <<provider, position>>
  BY <1>1, <1>3 DEF Hop!ends, RouteInv, Hop!TypeOK, AskedInv, TurnsLeft, Hop!At
<1> QED BY <1>2, <1>3 DEF Hop!try_advance_route

\* apply_configured_quota keeps the run where it is, and takes no latch back.
LEMMA ConfiguredKeeps ==
  ASSUME Hop!RouteAssumption, Hop!TypeOK, NEW active \in Hop!ActiveRun
  PROVE  /\ Hop!configured(active).reserve \in Hop!ReserveStatus
         /\ Hop!configured(active).run \in Hop!ActiveRun
         /\ Hop!configured(active).run.provider = active.provider
         /\ Hop!configured(active).run.intent = active.intent
         /\ Hop!configured(active).run.over = active.over
         /\ Hop!configured(active).run.live = active.live
         /\ Hop!configured(active).run.turns = active.turns
         /\ active.hard_stop => Hop!configured(active).run.hard_stop
<1>1. /\ reserve \in Hop!ReserveStatus /\ used \in Hop!Phase /\ Configured \in BOOLEAN
  BY DEF Hop!RouteAssumption, Hop!TypeOK
<1>2. Hop!configured(active).reserve \in Hop!ReserveStatus
  BY <1>1 DEF Hop!configured, Hop!ReserveStatus, Hop!NoReserve, Hop!Phase
<1> DEFINE normal == Configured /\ reserve.basis # "Reported"
                     /\ active.intent = "Normal"
           drain == active.pending_drain \/ (normal /\ used = "Draining")
           hard == active.hard_stop \/ (normal /\ used = "Stopped")
<1>3. Hop!configured(active).run =
        [active EXCEPT !.pending_drain = drain, !.hard_stop = hard]
  BY DEF Hop!configured, Hop!ActiveRun
<1>4. drain \in BOOLEAN /\ hard \in BOOLEAN /\ (active.hard_stop => hard)
  BY <1>1 DEF Hop!ActiveRun
<1> HIDE DEF normal, drain, hard
<1>5. Hop!configured(active).run \in Hop!ActiveRun
  BY <1>3, <1>4 DEF Hop!ActiveRun
<1> QED BY <1>2, <1>3, <1>4, <1>5 DEF Hop!ActiveRun

\* finish_run takes the run, whatever it leaves of the session.
LEMMA FinishKeeps ==
  ASSUME Hop!RouteAssumption, RouteInv, at # "idle", Hop!finish_run
  PROVE  /\ provider' \in Provider /\ reserve' \in Hop!ReserveStatus
         /\ faults' \in 0 .. MaxFaults /\ at' = "idle" /\ run' = Hop!NoRun
<1>1. run \in Hop!ActiveRun
  BY DEF RouteInv, AskedInv
<1>2. faults' \in 0 .. MaxFaults
  BY FaultsBounded DEF Hop!finish_run, RouteInv, Hop!TypeOK
<1>3. at' = "idle" /\ run' = Hop!NoRun
  BY DEF Hop!finish_run, Hop!ends
<1>4. provider' \in Provider
  BY <1>1
     DEF Hop!finish_run, Hop!swapped, RouteInv, Hop!TypeOK, Hop!ActiveRun
<1>5. reserve' \in Hop!ReserveStatus
  BY
     DEF Hop!finish_run, Hop!swapped, RouteInv, Hop!TypeOK, Hop!NoReserve,
         Hop!ReserveStatus, Hop!Phase
<1> QED BY <1>2, <1>3, <1>4, <1>5

\* A report the run survives sets its latch if it must, and takes nothing back.
LEMMA ReportIsLatched ==
  ASSUME Hop!RouteAssumption,
         RouteInv, NEW phase \in Hop!Phase, Hop!ObserveQuota(phase), at' = at
  PROVE  /\ run' \in Hop!ActiveRun
         /\ run'.provider = run.provider /\ run'.live = run.live
         /\ run.hard_stop => run'.hard_stop
         /\ \/ run'.over = run.over
            \/ run'.over = run.over \union {provider} /\ run'.hard_stop
<1> DEFINE drain == run.pending_drain \/ (phase = "Draining" /\ run.intent = "Normal")
           hard == run.hard_stop \/ phase = "Stopped"
           over == run.over \union (IF phase = "Stopped" THEN {run.provider} ELSE {})
<1>1. run \in Hop!ActiveRun /\ run.provider = provider /\ provider \in Provider
  BY DEF Hop!ObserveQuota, RouteInv, Hop!TypeOK, AskedInv
<1>2. run' = [run EXCEPT !.pending_drain = drain, !.hard_stop = hard, !.over = over]
  <2>1. at' # "idle"
    BY DEF Hop!ObserveQuota
  <2> QED BY <1>1, <2>1 DEF Hop!ObserveQuota, Hop!ends, Hop!ActiveRun
<1>3. /\ drain \in BOOLEAN /\ hard \in BOOLEAN /\ over \in SUBSET Provider
      /\ run.hard_stop => hard
      /\ over = run.over \/ (over = run.over \union {provider} /\ hard)
  BY <1>1 DEF Hop!ActiveRun
<1> HIDE DEF drain, hard, over
<1>4. /\ run' \in Hop!ActiveRun /\ run'.provider = run.provider /\ run'.live = run.live
      /\ run'.hard_stop = hard /\ run'.over = over
  BY <1>1, <1>2, <1>3 DEF Hop!ActiveRun
<1> QED BY <1>3, <1>4

--------------------------------------------------------------------------------
(* The invariant of the route.                                              *)

\* An idle session with fresh breakers.
LEMMA RouteInit ==
  ASSUME Hop!RouteAssumption
  PROVE  Hop!Init => RouteInv /\ Latched
<1> SUFFICES ASSUME Hop!Init PROVE RouteInv /\ Latched
  OBVIOUS
<1>1. Hop!CircuitBreaker \in Counted /\ faults \in 0 .. MaxFaults /\ 0 \in 0 .. Len(Route)
  BY HopsAreProviders
     DEF Hop!RouteAssumption, Hop!CircuitBreaker, Hop!Breaker, Counted,
         Hop!Init
<1>2. breaker \in [Provider -> Counted] /\ breaker \in [Provider -> Hop!Breaker]
  BY <1>1 DEF Hop!Init, Counted
<1>3. Hop!TypeOK
  BY <1>1, <1>2
     DEF Hop!Init, Hop!TypeOK, Hop!NoReserve, Hop!ReserveStatus,
         Hop!Phase, Hop!At
<1> QED BY <1>2, <1>3 DEF Hop!Init, RouteInv, AskedInv, TurnsLeft, Latched

\* The steps that leave run and provider to each other.
LEMMA RouteFromParts ==
  ASSUME Hop!RouteAssumption, RouteInv, AskedInv', TurnsLeft',
         provider' \in Provider, position' \in 0 .. Len(Route),
         breaker' \in [Provider -> Counted], reserve' \in Hop!ReserveStatus,
         used' \in Hop!Phase, steering' \in BOOLEAN, at' \in Hop!At,
         faults' \in 0 .. MaxFaults
  PROVE  RouteInv'
<1>1. run' \in Hop!ActiveRun \union {Hop!NoRun} /\ (at' = "idle" <=> run' = Hop!NoRun)
  BY NoRunIsNone DEF AskedInv
<1>2. breaker' \in [Provider -> Hop!Breaker]
  BY DEF Counted
<1> QED BY <1>1, <1>2 DEF RouteInv, Hop!TypeOK

\* The end of a provider turn.
LEMMA TurnEndKeeps ==
  ASSUME Hop!RouteAssumption, RouteInv, Hop!TurnEnds
  PROVE  RouteInv'
<1>1. /\ at = "sent" /\ run \in Hop!ActiveRun /\ run.provider = provider
      /\ provider \in Provider /\ breaker[provider] \in Counted
      /\ breaker \in [Provider -> Counted]
  BY DEF Hop!TurnEnds, RouteInv, AskedInv, Hop!TypeOK
<1>2. steering' \in BOOLEAN
  BY DEF Hop!TurnEnds, RouteInv, Hop!TypeOK
<1>3. used' \in Hop!Phase
  BY DEF Hop!TurnEnds, RouteInv, Hop!TypeOK, Hop!worse, Hop!Phase
<1>4. Hop!on_success(breaker[provider]) \in Counted
      /\ Hop!on_failure(breaker[provider]) \in Counted
  BY <1>1, BreakersStay
<1>5. breaker' \in [Provider -> Counted]
  BY <1>1, <1>4, ChargingKeeps DEF Hop!TurnEnds
<1>6. /\ provider' \in Provider /\ position' \in 0 .. Len(Route)
      /\ reserve' \in Hop!ReserveStatus /\ at' \in Hop!At /\ faults' \in 0 .. MaxFaults
      /\ AskedInv' /\ TurnsLeft'
  <2>1. CASE /\ at' \in {"tools", "begin"} /\ Hop!sound
             /\ UNCHANGED <<provider, position, reserve, run>>
    BY <1>1, <2>1, FaultsBounded
       DEF RouteInv, Hop!TypeOK, AskedInv, TurnsLeft, Hop!At
  <2>2. CASE Hop!finish_run /\ UNCHANGED position
    BY <1>1, <2>2, FinishKeeps DEF RouteInv, Hop!TypeOK, AskedInv, TurnsLeft, Hop!At
  <2>3. CASE Hop!try_advance_route("begin", reserve)
    <3>1. "begin" \in Hop!At \ {"idle"} /\ reserve \in Hop!ReserveStatus
      BY DEF Hop!At, RouteInv, Hop!TypeOK
    <3> QED BY <1>1, <2>3, <3>1, AdvanceKeeps
  <2>4. CASE /\ Hop!ends /\ (Hop!sound \/ Hop!fault)
             /\ UNCHANGED <<provider, position, reserve>>
    BY <1>1, <2>4, FaultsBounded
       DEF Hop!ends, RouteInv, Hop!TypeOK, AskedInv, TurnsLeft, Hop!At
  <2> QED BY <2>1, <2>2, <2>3, <2>4 DEF Hop!TurnEnds
<1> QED BY <1>2, <1>3, <1>5, <1>6, RouteFromParts

\* Every step keeps the invariant.
LEMMA RouteNext ==
  ASSUME Hop!RouteAssumption
  PROVE  RouteInv /\ [Hop!Next]_(Hop!vars) => RouteInv'
<1> SUFFICES ASSUME RouteInv, [Hop!Next]_(Hop!vars) PROVE RouteInv'
  OBVIOUS
<1> USE DEF Hop!session
<1>1. CASE Hop!SteeringFails
  BY <1>1, FaultsBounded, RouteFromParts 
     DEF Hop!SteeringFails, RouteInv, Hop!TypeOK, AskedInv, TurnsLeft, Hop!At
<1>2. CASE Hop!Begin
  <2>1. /\ Hop!configured(run).reserve \in Hop!ReserveStatus
        /\ Hop!configured(run).run \in Hop!ActiveRun
        /\ Hop!configured(run).run.provider = run.provider
        /\ Hop!configured(run).run.turns = run.turns
        /\ run.provider = provider /\ at = "begin"
    BY <1>2, ConfiguredKeeps DEF Hop!Begin, RouteInv, AskedInv
  <2>2. \/ at' = "idle" /\ run' = Hop!NoRun
        \/ at' = "stop" /\ run' = Hop!configured(run).run
        \/ /\ at' = "gate" /\ run' = Hop!configured(run).run
           /\ run.turns < max_provider_turns
    BY <1>2 DEF Hop!Begin, Hop!ends
  <2>3. AskedInv' /\ TurnsLeft' /\ at' \in Hop!At
    BY <1>2, <2>1, <2>2 DEF Hop!Begin, AskedInv, TurnsLeft, Hop!At
  <2> QED BY <1>2, <2>1, <2>3, RouteFromParts DEF Hop!Begin, RouteInv, Hop!TypeOK
<1>3. CASE Hop!StopForQuota
  <2>1. [reserve EXCEPT !.phase = "Stopped"] \in Hop!ReserveStatus
        /\ "begin" \in Hop!At \ {"idle"} /\ at # "idle"
    BY <1>3
       DEF Hop!StopForQuota, RouteInv, Hop!TypeOK, Hop!ReserveStatus,
           Hop!Phase, Hop!At
  <2>2. /\ provider' \in Provider /\ position' \in 0 .. Len(Route)
        /\ reserve' \in Hop!ReserveStatus /\ at' \in Hop!At /\ faults' \in 0 .. MaxFaults
        /\ AskedInv' /\ TurnsLeft'
    <3>1. CASE Hop!try_advance_route("begin", [reserve EXCEPT !.phase = "Stopped"])
      BY <2>1, <3>1, AdvanceKeeps
    <3>2. CASE /\ Hop!ends /\ (Hop!sound \/ Hop!fault)
               /\ reserve' = [reserve EXCEPT !.phase = "Stopped"]
               /\ UNCHANGED <<provider, position>>
      BY <2>1, <3>2, FaultsBounded
         DEF Hop!ends, RouteInv, Hop!TypeOK, AskedInv, TurnsLeft, Hop!At
    <3> QED BY <1>3, <3>1, <3>2 DEF Hop!StopForQuota
  <2> QED BY <1>3, <2>2, RouteFromParts DEF Hop!StopForQuota, RouteInv, Hop!TypeOK
<1>4. CASE Hop!Send
  <2>1. at = "gate" /\ run \in Hop!ActiveRun /\ run.provider = provider
        /\ reserve \in Hop!ReserveStatus
    BY <1>4 DEF Hop!Send, RouteInv, AskedInv, Hop!TypeOK
  <2>2. breaker' \in [Provider -> Counted]
    <3>1. breaker \in [Provider -> Counted] /\ provider \in Provider
      BY DEF RouteInv, Hop!TypeOK
    <3>2. [breaker[provider] EXCEPT !.state = "HalfOpen"] \in Counted
      BY <3>1, BreakersStay
    <3>3. CASE breaker' = [breaker EXCEPT ![provider].state = "HalfOpen"]
      <4>1. breaker' = [breaker EXCEPT ![provider] =
                          [breaker[provider] EXCEPT !.state = "HalfOpen"]]
        BY <3>3
      <4> QED BY <3>1, <3>2, <4>1
    <3> QED BY <1>4, <3>1, <3>3 DEF Hop!Send
  <2>3. reserve' \in Hop!ReserveStatus
    BY <1>4, <2>1 DEF Hop!Send, Hop!ReserveStatus, Hop!Phase
  <2>4. AskedInv' /\ TurnsLeft' /\ at' \in Hop!At
    <3>1. CASE Hop!ends
      BY <3>1 DEF Hop!ends, AskedInv, TurnsLeft, Hop!At
    <3>2. CASE at' = "sent" /\ ~Hop!ends
      <4>1. PICK intent \in Hop!Intent :
              run' = [run EXCEPT !.turns = run.turns + 1, !.pending_drain = FALSE,
                                 !.intent = intent]
        BY <1>4, <2>1, <3>2 DEF Hop!Send, Hop!ActiveRun, Hop!Intent
      <4>2. run.turns + 1 \in 0 .. max_provider_turns
        BY <2>1 DEF Hop!RouteAssumption, RouteInv, TurnsLeft, Hop!ActiveRun
      <4> QED BY <1>4, <2>1, <3>2, <4>1, <4>2
              DEF Hop!Send, AskedInv, TurnsLeft, Hop!ActiveRun, Hop!At
    <3> QED BY <1>4, <3>1, <3>2 DEF Hop!Send
  <2> QED BY <1>4, <2>2, <2>3, <2>4, RouteFromParts
     DEF Hop!Send, RouteInv, Hop!TypeOK
<1>5. CASE Hop!SkipHop
  <2>1. "gate" \in Hop!At \ {"idle"} /\ at = "gate" /\ reserve \in Hop!ReserveStatus
        /\ Hop!try_advance_route("gate", reserve)
    BY <1>5 DEF Hop!SkipHop, Hop!At, RouteInv, Hop!TypeOK
  <2>2. /\ provider' \in Provider /\ position' \in 0 .. Len(Route)
        /\ reserve' \in Hop!ReserveStatus /\ at' \in Hop!At /\ faults' \in 0 .. MaxFaults
        /\ AskedInv' /\ TurnsLeft'
    BY <2>1, AdvanceKeeps
  <2> QED BY <1>5, <2>2, RouteFromParts DEF Hop!SkipHop, RouteInv, Hop!TypeOK
<1>6. ASSUME NEW phase \in Hop!Phase, Hop!ObserveQuota(phase) PROVE RouteInv'
  <2>1. at = "sent" /\ run \in Hop!ActiveRun /\ run.provider = provider
        /\ provider \in Provider
    BY <1>6 DEF Hop!ObserveQuota, RouteInv, AskedInv, Hop!TypeOK
  <2>2. reserve' \in Hop!ReserveStatus /\ faults' \in 0 .. MaxFaults
    BY <1>6, FaultsBounded
       DEF Hop!ObserveQuota, Hop!ReserveStatus, RouteInv, Hop!TypeOK
  <2>3. AskedInv' /\ TurnsLeft' /\ at' \in Hop!At
    <3>1. CASE Hop!ends
      BY <3>1 DEF Hop!ends, AskedInv, TurnsLeft, Hop!At
    <3>2. CASE at' = at
      <4>1. run' \in Hop!ActiveRun /\ run'.provider = run.provider
        BY <1>6, <3>2, ReportIsLatched
      <4> QED BY <1>6, <2>1, <3>2, <4>1
         DEF Hop!ObserveQuota, AskedInv, TurnsLeft, Hop!At
    <3> QED BY <1>6, <3>1, <3>2 DEF Hop!ObserveQuota
  <2> QED BY <1>6, <2>2, <2>3, RouteFromParts
     DEF Hop!ObserveQuota, RouteInv, Hop!TypeOK
<1>7. CASE Hop!TurnEnds
  BY <1>7, TurnEndKeeps
<1>8. CASE Hop!TurnEndsForQuota
  BY <1>8, RouteFromParts
     DEF Hop!TurnEndsForQuota, RouteInv, Hop!TypeOK, AskedInv, TurnsLeft,
         Hop!At
<1>9. CASE Hop!ToolsEnd
  <2>1. at = "tools"
    BY <1>9 DEF Hop!ToolsEnd
  <2>2. CASE Hop!finish_run
    <3>1. /\ provider' \in Provider /\ reserve' \in Hop!ReserveStatus
          /\ faults' \in 0 .. MaxFaults /\ at' = "idle" /\ run' = Hop!NoRun
      BY <2>1, <2>2, FinishKeeps
    <3> QED BY <1>9, <3>1, RouteFromParts
            DEF Hop!ToolsEnd, RouteInv, Hop!TypeOK, AskedInv, TurnsLeft, Hop!At
  <2>3. CASE at' = "begin" /\ UNCHANGED <<provider, reserve, run>> /\ Hop!sound
    BY <1>9, <2>1, <2>3, FaultsBounded, RouteFromParts
       DEF Hop!ToolsEnd, RouteInv, Hop!TypeOK, AskedInv, TurnsLeft, Hop!At
  <2> QED BY <1>9, <2>2, <2>3 DEF Hop!ToolsEnd
<1>10. CASE Hop!Steer
  BY <1>10, RouteFromParts
     DEF Hop!Steer, RouteInv, Hop!TypeOK, AskedInv, TurnsLeft, Hop!At
<1>11. ASSUME NEW target \in Provider \union {Hop!NoTarget}, Hop!AskHandoff(target)
        PROVE  RouteInv'
  <2>1. at \in {"sent", "tools", "stuck"} /\ run \in Hop!ActiveRun
    BY <1>11 DEF Hop!AskHandoff, Hop!waiting, RouteInv, AskedInv
  <2>2. PICK intent \in Hop!Intent :
          run' = [run EXCEPT !.target = target, !.intent = intent]
    BY <1>11, <2>1 DEF Hop!AskHandoff, Hop!ActiveRun, Hop!Intent
  <2>3. run' \in Hop!ActiveRun /\ run'.provider = run.provider
    BY <2>1, <2>2 DEF Hop!ActiveRun
  <2> QED BY <1>11, <2>1, <2>3, RouteFromParts
          DEF Hop!AskHandoff, RouteInv, Hop!TypeOK, AskedInv, TurnsLeft, Hop!At
<1>12. CASE Hop!CancelRun
  <2>1. at \in {"sent", "tools", "stuck"} /\ run \in Hop!ActiveRun
    BY <1>12 DEF Hop!CancelRun, Hop!waiting, RouteInv, AskedInv
  <2>2. run' \in Hop!ActiveRun /\ run'.provider = run.provider
    BY <1>12, <2>1 DEF Hop!CancelRun, Hop!ActiveRun
  <2> QED BY <1>12, <2>1, <2>2, RouteFromParts
          DEF Hop!CancelRun, RouteInv, Hop!TypeOK, AskedInv, TurnsLeft, Hop!At
<1>13. CASE Hop!BudgetExpired
  BY <1>13, FaultsBounded, RouteFromParts
     DEF Hop!BudgetExpired, Hop!ends, RouteInv, Hop!TypeOK, AskedInv, TurnsLeft, Hop!At
<1>14. ASSUME NEW intent \in {"Normal", "ManualHandoff"},
              NEW target \in Provider \union {Hop!NoTarget}, Hop!StartRun(intent, target)
       PROVE  RouteInv'
  <2>1. Hop!new_run(intent, target) \in Hop!ActiveRun
        /\ Hop!new_run(intent, target).provider = provider
    BY <1>14
       DEF Hop!RouteAssumption, Hop!new_run, Hop!ActiveRun, Hop!Intent,
           Hop!OnRoute, Hop!StartRun, RouteInv, Hop!TypeOK
  <2> QED BY <1>14, <2>1, RouteFromParts
          DEF Hop!StartRun, RouteInv, Hop!TypeOK, AskedInv, TurnsLeft, Hop!At
<1>15. ASSUME NEW p \in Provider, Hop!SelectModel(p) PROVE RouteInv'
  <2>1. provider' \in Provider /\ reserve' \in Hop!ReserveStatus
        /\ faults' \in 0 .. MaxFaults
    BY <1>15, FaultsBounded
       DEF Hop!SelectModel, RouteInv, Hop!TypeOK, Hop!NoReserve, Hop!ReserveStatus,
           Hop!Phase
  <2> QED BY <1>15, <2>1, RouteFromParts
     DEF Hop!SelectModel, RouteInv, Hop!TypeOK, AskedInv, TurnsLeft
<1>16. CASE Hop!AttachRoute
  <2>1. provider' \in Provider /\ position' \in 0 .. Len(Route)
    BY <1>16, HopsAreProviders DEF Hop!AttachRoute, RouteInv, Hop!TypeOK
  <2>2. Hop!CircuitBreaker \in Counted
    BY DEF Hop!RouteAssumption, Hop!CircuitBreaker, Hop!Breaker, Counted
  <2>3. breaker' \in [Provider -> Counted]
    BY <1>16, <2>2 DEF Hop!AttachRoute, RouteInv
  <2>4. reserve' \in Hop!ReserveStatus /\ faults' \in 0 .. MaxFaults
    BY <1>16, FaultsBounded
       DEF Hop!AttachRoute, RouteInv, Hop!TypeOK, Hop!NoReserve, Hop!ReserveStatus,
           Hop!Phase
  <2> QED BY <1>16, <2>1, <2>3, <2>4, RouteFromParts
          DEF Hop!AttachRoute, RouteInv, Hop!TypeOK, AskedInv, TurnsLeft
<1>17. CASE UNCHANGED Hop!vars
  BY <1>17, RouteFromParts DEF Hop!vars, RouteInv, Hop!TypeOK, AskedInv, TurnsLeft
<1> QED
  BY <1>1, <1>2, <1>3, <1>4, <1>5, <1>6, <1>7, <1>8, <1>9, <1>10, <1>11, <1>12,
     <1>13, <1>14, <1>15, <1>16, <1>17
     DEF Hop!Next

--------------------------------------------------------------------------------
(* The hard stop.                                                           *)

\* A run that goes on at its hop, with the reports of that hop and its latch.
LEMMA SameHopKeeps ==
  ASSUME RouteInv, Latched, at # "idle",
         at' = "idle" \/
           /\ UNCHANGED <<provider, position>>
           /\ run'.live = run.live
           /\ run'.over \subseteq run.over \union {provider}
           /\ run.hard_stop => run'.hard_stop
           /\ provider \in run'.over => provider \in run.over \/ run'.hard_stop
           /\ at' = "gate" /\ run'.hard_stop => run'.intent # "Normal"
  PROVE  Latched'
<1>1. CASE at' = "idle"
  BY <1>1 DEF Latched
<1>2. CASE UNCHANGED <<provider, position>>
  <2>1. visited' = visited /\ Hop!OnRoute' = Hop!OnRoute /\ provider \in visited
    BY <1>2 DEF visited, Hop!OnRoute
  <2> QED BY <1>2, <2>1 DEF Latched
<1> QED BY <1>1, <1>2

\* The next hop of a route that takes no provider twice is one the run has not had.
LEMMA NextHopKeeps ==
  ASSUME Hop!RouteAssumption, Simple, RouteInv, Latched, at # "idle", position # 0,
         NEW next \in Hop!At \ {"idle"}, NEW left \in Hop!ReserveStatus,
         next = "gate" => at = "gate",
         Hop!try_advance_route(next, left)
  PROVE  Latched'
<1>1. CASE at' = "idle"
  BY <1>1 DEF Latched
<1>2. CASE /\ position < Len(Route) /\ position' = position + 1
           /\ provider' = Route[position + 1] /\ at' = next
           /\ run' = [run EXCEPT !.provider = provider', !.hard_stop = FALSE,
                                 !.pending_drain = FALSE, !.intent = "Normal"]
  <2> SUFFICES ASSUME run.live PROVE Latched'
    BY <1>2 DEF Latched, RouteInv, AskedInv, Hop!ActiveRun
  <2>1. /\ position \in 1 .. Len(Route) /\ position + 1 \in 1 .. Len(Route)
        /\ DOMAIN Route = 1 .. Len(Route)
    BY <1>2, HopsAreProviders DEF Hop!RouteAssumption, RouteInv, Hop!TypeOK
  <2>2. Hop!OnRoute /\ run.over \subseteq visited
    BY DEF Latched
  <2>3. visited = {Route[n] : n \in 1 .. position}
    BY <2>1, <2>2 DEF visited, Hop!OnRoute
  <2>4. Route[position + 1] \notin visited
    BY <2>1, <2>3 DEF Simple
  <2>5. visited \subseteq visited'
    <3>1. \A n \in 1 .. position : n \in 1 .. position'
      BY <1>2, <2>1
    <3>2. \A n \in 1 .. position : Route[n] \in visited'
      BY <3>1 DEF visited
    <3> QED BY <2>3, <3>2
  <2>6. /\ run'.live = run.live /\ run'.over = run.over /\ ~run'.hard_stop
    BY <1>2 DEF RouteInv, AskedInv, Hop!ActiveRun
  <2>7. Hop!OnRoute'
    BY <1>2 DEF Hop!OnRoute
  <2> QED BY <1>2, <2>2, <2>4, <2>5, <2>6, <2>7 DEF Latched
<1> QED BY <1>1, <1>2, AdvanceKeeps

\* Every step keeps what is known of a latched run.
LEMMA LatchedNext ==
  ASSUME Hop!RouteAssumption, Simple, RouteInv, Latched, [Hop!Next]_(Hop!vars)
  PROVE  Latched'
<1> USE DEF Hop!session
<1>1. CASE Hop!SteeringFails
  BY <1>1, SameHopKeeps DEF Hop!SteeringFails, Latched
<1>2. CASE Hop!Begin
  <2>1. /\ Hop!configured(run).run.intent = run.intent
        /\ Hop!configured(run).run.over = run.over
        /\ Hop!configured(run).run.live = run.live
        /\ run.hard_stop => Hop!configured(run).run.hard_stop
        /\ at = "begin"
    BY <1>2, ConfiguredKeeps DEF Hop!Begin, RouteInv, AskedInv
  <2>2. \/ at' = "idle"
        \/ at' = "stop" /\ run' = Hop!configured(run).run
        \/ /\ at' = "gate" /\ run' = Hop!configured(run).run
           /\ ~(Hop!configured(run).run.hard_stop /\ run.intent = "Normal")
    BY <1>2 DEF Hop!Begin, Hop!ends
  <2>3. UNCHANGED <<provider, position>>
    BY <1>2 DEF Hop!Begin
  <2> QED BY <2>1, <2>2, <2>3, SameHopKeeps
<1>3. CASE Hop!StopForQuota
  <2>1. [reserve EXCEPT !.phase = "Stopped"] \in Hop!ReserveStatus
        /\ "begin" \in Hop!At \ {"idle"} /\ at # "idle"
    BY <1>3
       DEF Hop!StopForQuota, RouteInv, Hop!TypeOK, Hop!ReserveStatus,
           Hop!Phase, Hop!At
  <2>2. CASE /\ position # 0
             /\ Hop!try_advance_route("begin", [reserve EXCEPT !.phase = "Stopped"])
    BY <2>1, <2>2, NextHopKeeps
  <2> QED BY <1>3, <2>2 DEF Hop!StopForQuota, Hop!ends, Latched
<1>4. CASE Hop!Send
  <2>1. run \in Hop!ActiveRun /\ at = "gate"
    BY <1>4 DEF Hop!Send, RouteInv, AskedInv
  <2>2. \/ at' = "idle"
        \/ /\ at' = "sent" /\ run'.live = run.live /\ run'.over = run.over
           /\ run'.hard_stop = run.hard_stop
    BY <1>4, <2>1 DEF Hop!Send, Hop!ends, Hop!ActiveRun
  <2> QED BY <1>4, <2>1, <2>2, SameHopKeeps DEF Hop!Send
<1>5. CASE Hop!SkipHop
  <2>1. "gate" \in Hop!At \ {"idle"} /\ at = "gate" /\ reserve \in Hop!ReserveStatus
        /\ Hop!try_advance_route("gate", reserve) /\ position # 0
    BY <1>5 DEF Hop!SkipHop, Hop!At, RouteInv, Hop!TypeOK
  <2> QED BY <2>1, NextHopKeeps
<1>6. ASSUME NEW phase \in Hop!Phase, Hop!ObserveQuota(phase) PROVE Latched'
  <2>1. run \in Hop!ActiveRun /\ at = "sent" /\ run.provider = provider
    BY <1>6 DEF Hop!ObserveQuota, RouteInv, AskedInv
  <2>2. \/ at' = "idle"
        \/ /\ at' = at /\ run'.live = run.live
           /\ run.hard_stop => run'.hard_stop
           /\ \/ run'.over = run.over
              \/ run'.over = run.over \union {provider} /\ run'.hard_stop
    <3>1. CASE at' = at
      BY <1>6, <2>1, <3>1, ReportIsLatched
    <3>2. CASE Hop!ends
      BY <3>2 DEF Hop!ends
    <3> QED BY <1>6, <3>1, <3>2 DEF Hop!ObserveQuota
  <2>3. UNCHANGED <<provider, position>>
    BY <1>6 DEF Hop!ObserveQuota
  <2> QED BY <2>1, <2>2, <2>3, SameHopKeeps
<1>7. CASE Hop!TurnEnds
  <2>1. run \in Hop!ActiveRun /\ at = "sent"
    BY <1>7 DEF Hop!TurnEnds, RouteInv, AskedInv
  <2>2. CASE at' \in {"tools", "begin"} /\ UNCHANGED <<provider, position, run>>
    BY <2>1, <2>2, SameHopKeeps
  <2>3. CASE position # 0 /\ Hop!try_advance_route("begin", reserve)
    <3>1. "begin" \in Hop!At \ {"idle"} /\ reserve \in Hop!ReserveStatus
      BY DEF Hop!At, RouteInv, Hop!TypeOK
    <3> QED BY <2>1, <2>3, <3>1, NextHopKeeps
  <2>4. CASE Hop!finish_run \/ Hop!ends
    BY <2>4 DEF Hop!finish_run, Hop!ends, Latched
  <2> QED BY <1>7, <2>2, <2>3, <2>4 DEF Hop!TurnEnds
<1>8. CASE Hop!TurnEndsForQuota
  BY <1>8, SameHopKeeps DEF Hop!TurnEndsForQuota
<1>9. CASE Hop!ToolsEnd
  <2>1. CASE Hop!finish_run
    BY <2>1 DEF Hop!finish_run, Hop!ends, Latched
  <2>2. CASE at' = "begin" /\ UNCHANGED <<provider, position, run>>
    BY <1>9, <2>2, SameHopKeeps DEF Hop!ToolsEnd
  <2> QED BY <1>9, <2>1, <2>2 DEF Hop!ToolsEnd
<1>10. CASE Hop!Steer
  BY <1>10, SameHopKeeps DEF Hop!Steer, Hop!waiting
<1>11. ASSUME NEW target \in Provider \union {Hop!NoTarget}, Hop!AskHandoff(target)
       PROVE  Latched'
  <2>1. at \in {"sent", "tools", "stuck"} /\ run \in Hop!ActiveRun
    BY <1>11 DEF Hop!AskHandoff, Hop!waiting, RouteInv, AskedInv
  <2>2. run'.live = run.live /\ run'.over = run.over /\ run'.hard_stop = run.hard_stop
    BY <1>11, <2>1 DEF Hop!AskHandoff, Hop!ActiveRun
  <2> QED BY <1>11, <2>1, <2>2, SameHopKeeps DEF Hop!AskHandoff
<1>12. CASE Hop!CancelRun
  <2>1. at \in {"sent", "tools", "stuck"} /\ run \in Hop!ActiveRun
    BY <1>12 DEF Hop!CancelRun, Hop!waiting, RouteInv, AskedInv
  <2>2. run'.live = run.live /\ run'.over = run.over /\ run'.hard_stop = run.hard_stop
    BY <1>12, <2>1 DEF Hop!CancelRun, Hop!ActiveRun
  <2> QED BY <1>12, <2>1, <2>2, SameHopKeeps DEF Hop!CancelRun
<1>13. CASE Hop!BudgetExpired
  BY <1>13 DEF Hop!BudgetExpired, Hop!ends, Latched
<1>14. ASSUME NEW intent \in {"Normal", "ManualHandoff"},
              NEW target \in Provider \union {Hop!NoTarget}, Hop!StartRun(intent, target)
       PROVE  Latched'
  <2>1. run'.live = Hop!OnRoute /\ run'.over = {} /\ at' = "begin"
    BY <1>14 DEF Hop!StartRun, Hop!new_run
  <2>2. Hop!OnRoute' = Hop!OnRoute
    BY <1>14 DEF Hop!StartRun, Hop!OnRoute
  <2> QED BY <2>1, <2>2 DEF Latched
<1>15. ASSUME NEW p \in Provider, Hop!SelectModel(p) PROVE Latched'
  BY <1>15 DEF Hop!SelectModel, Latched
<1>16. CASE Hop!AttachRoute
  BY <1>16 DEF Hop!AttachRoute, Latched
<1>17. CASE UNCHANGED Hop!vars
  BY <1>17 DEF Hop!vars, Latched, Hop!OnRoute, visited
<1> QED
  BY <1>1, <1>2, <1>3, <1>4, <1>5, <1>6, <1>7, <1>8, <1>9, <1>10, <1>11, <1>12,
     <1>13, <1>14, <1>15, <1>16, <1>17
     DEF Hop!Next

--------------------------------------------------------------------------------
(* The theorems about the route.                                            *)

\* Every variable keeps its type: no run asks more often than its turn budget allows,
\* no breaker counts past its threshold (begin_provider_turn, CircuitBreaker).
THEOREM RouteTypes == Hop!RouteAssumption /\ Hop!Spec => []Hop!TypeOK
<1> SUFFICES ASSUME Hop!RouteAssumption PROVE Hop!Spec => []Hop!TypeOK
  OBVIOUS
<1>1. Hop!Init => RouteInv
  BY RouteInit
<1>2. RouteInv /\ [Hop!Next]_(Hop!vars) => RouteInv'
  BY RouteNext
<1>3. RouteInv => Hop!TypeOK
  BY DEF RouteInv
<1> QED BY <1>1, <1>2, <1>3, PTL DEF Hop!Spec

\* The provider asked is the one the session stands at, whose breaker is consulted and
\* charged (try_advance_route, handle_provider_turn_ended).
THEOREM AskedIsCharged == Hop!RouteAssumption /\ Hop!Spec => []Hop!ChargesWhomItAsks
<1> SUFFICES ASSUME Hop!RouteAssumption PROVE Hop!Spec => []Hop!ChargesWhomItAsks
  OBVIOUS
<1>1. Hop!Init => RouteInv
  BY RouteInit
<1>2. RouteInv /\ [Hop!Next]_(Hop!vars) => RouteInv'
  BY RouteNext
<1>3. RouteInv => Hop!ChargesWhomItAsks
  BY DEF RouteInv, Hop!TypeOK, AskedInv, Hop!ChargesWhomItAsks
<1> QED BY <1>1, <1>2, <1>3, PTL DEF Hop!Spec

\* On a route that takes no provider twice, a run that started on it sends no request
\* but a landing one to a provider that reported its hard threshold passed
\* (observe_quota, begin_provider_turn, stop_for_quota).
THEOREM HardStopIsFinal ==
  ASSUME Hop!RouteAssumption, Simple
  PROVE  Hop!Spec => Hop!HardStopHolds
<1> DEFINE Leaves ==
      at = "gate" /\ at' = "sent" /\ run'.intent = "Normal" /\ run.live =>
        run.provider \notin run.over
<1>1. RouteInv /\ Latched /\ [Hop!Next]_(Hop!vars) => [Leaves]_(Hop!vars)
  <2> SUFFICES ASSUME RouteInv, Latched, Hop!Next, at = "gate", at' = "sent",
                      run'.intent = "Normal", run.live, run.provider \in run.over
               PROVE  FALSE
    OBVIOUS
  <2>1. run \in Hop!ActiveRun /\ run.provider = provider
    BY DEF RouteInv, AskedInv
  <2>2. run.hard_stop /\ run.intent # "Normal"
    BY <2>1 DEF Latched
  <2>3. Hop!Send
    BY
       DEF Hop!Next, Hop!SteeringFails, Hop!Begin, Hop!StopForQuota,
           Hop!SkipHop, Hop!ObserveQuota, Hop!TurnEnds,
           Hop!TurnEndsForQuota, Hop!ToolsEnd, Hop!Steer, Hop!AskHandoff, Hop!CancelRun,
           Hop!BudgetExpired, Hop!waiting, Hop!StartRun, Hop!SelectModel, Hop!AttachRoute,
           Hop!try_advance_route, Hop!ends
  <2>4. run'.intent = run.intent
    BY <2>1, <2>2, <2>3 DEF Hop!Send, Hop!ends, Hop!ActiveRun
  <2> QED BY <2>2, <2>4
<1>2. RouteInv /\ Latched /\ [Hop!Next]_(Hop!vars) => Latched'
  BY LatchedNext
<1>3. Hop!Init => RouteInv /\ Latched
  BY RouteInit
<1>4. RouteInv /\ [Hop!Next]_(Hop!vars) => RouteInv'
  BY RouteNext
<1> QED BY <1>1, <1>2, <1>3, <1>4, PTL DEF Hop!Spec, Hop!HardStopHolds
================================================================================
