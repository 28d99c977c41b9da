---------------------------- MODULE RecoveryTracker ----------------------------
(***************************************************************************)
(* What a replay of durable events says was in flight: the Tracker of       *)
(* src/src/runtime/recovery.rs, one operator per method, and the recovery   *)
(* state of src/src/core/recovery.rs it finishes with.                      *)
(*                                                                          *)
(* A tracker is a record: the open run (NoRun when none is), the stage of   *)
(* the work it last proposed, and the proposal that work belongs to.  The   *)
(* call, tier and preview the code carries along for display are left out.  *)
(***************************************************************************)
EXTENDS Integers

CONSTANTS RunId,        \* identities RunId::new() hands out
          ProposalId,   \* identities of proposals (ApprovalId / call id)
          NoRun,        \* no run is open
          NoProposal    \* no work is pending

\* Option<PendingWork>: none, waiting on an approval, or authorised and started.
WorkStage == {"none", "awaiting", "started"}

Tracker == [run : RunId \union {NoRun}, stage : WorkStage,
            proposal : ProposalId \union {NoProposal}]

EmptyTracker == [run |-> NoRun, stage |-> "none", proposal |-> NoProposal]

\* RunStarted overwrites whatever the tracker held.
open_run(t, r) == [run |-> r, stage |-> "none", proposal |-> NoProposal]

\* RunFinished and RunFailed close only the run they name.
close_run(t, r) == IF t.run = r THEN EmptyTracker ELSE t

\* RecoveryResolved and SessionEnded.
clear(t) == EmptyTracker

settle_Ignored(t, r) == t

\* ToolCompleted and ToolFailed settle the pending work of their run.
settle(t, r) ==
  IF t.run = r THEN [t EXCEPT !.stage = "none", !.proposal = NoProposal] ELSE t

\* ToolProposed: gated work waits, ungated work counts as started at once.
propose(t, r, p, gated) ==
  IF t.run = r
  THEN [t EXCEPT !.stage = IF gated THEN "awaiting" ELSE "started",
                 !.proposal = p]
  ELSE t

resolve_approval_Ignored(t, r, p, approved) == t

\* ApprovalResolved: only the proposal it names, and only while it waits.
resolve_approval(t, r, p, approved) ==
  IF t.run = r /\ t.stage = "awaiting" /\ t.proposal = p
  THEN IF approved THEN [t EXCEPT !.stage = "started"]
                   ELSE [t EXCEPT !.stage = "none", !.proposal = NoProposal]
  ELSE t

\* RecoveryState: Clean, or the kind of the interrupted work.
RecoveryState == {"Clean", "ProviderTurnInterrupted", "ProposalUnapproved",
                  "EffectUncertain"}

finish(t) ==
  CASE t.run = NoRun        -> "Clean"
    [] t.run # NoRun /\ t.stage = "none"     -> "ProviderTurnInterrupted"
    [] t.run # NoRun /\ t.stage = "awaiting" -> "ProposalUnapproved"
    [] t.run # NoRun /\ t.stage = "started"  -> "EffectUncertain"
================================================================================
