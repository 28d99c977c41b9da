------------------------------ MODULE EffectLedger -----------------------------
(***************************************************************************)
(* What the runtime promises about the effects of tool calls, without runs, *)
(* handlers, tasks, replays or restarts: the life of one proposal after     *)
(* another in the durable record.  RunLoop implements it.                   *)
(*                                                                          *)
(* A proposal is recorded before it is decided, authorised before its one   *)
(* effect, and its outcome is recorded once or a human gives it up.  Record *)
(* and effect are never one step: a crash fits between any two.             *)
(***************************************************************************)
EXTENDS Naturals

CONSTANT Proposal

VARIABLES
  ledger,       \* what is durable about each proposal
  authority,    \* the durable authority of each proposal
  effects       \* how often each proposal's effect happened

entries == <<ledger, authority, effects>>

Init ==
  /\ ledger = [p \in Proposal |-> "none"]
  /\ authority = [p \in Proposal |-> "none"]
  /\ effects = [p \in Proposal |-> 0]

\* The proposal is recorded: gated, authorised by the policy, or denied by it.
Propose(p) ==
  /\ ledger[p] = "none" /\ effects[p] = 0
  /\ \/ ledger' = [ledger EXCEPT ![p] = "gated"] /\ UNCHANGED authority
     \/ /\ ledger' = [ledger EXCEPT ![p] = "intended"]
        /\ \E a \in {"none", "policy"} : authority' = [authority EXCEPT ![p] = a]
  /\ UNCHANGED effects

\* A human or the full-auto policy decides, once, about a gated proposal.
Decide(p) ==
  /\ ledger[p] = "gated" /\ effects[p] = 0
  /\ \/ ledger' = [ledger EXCEPT ![p] = "denied"] /\ UNCHANGED authority
     \/ /\ ledger' = [ledger EXCEPT ![p] = "authorised"]
        /\ \E a \in {"human", "auto"} : authority' = [authority EXCEPT ![p] = a]
  /\ UNCHANGED effects

\* The effect of an authorised proposal, once, while its outcome is open; it may
\* outlive the process that started it, and so come after it was given up.
Effect(p) ==
  /\ authority[p] # "none" /\ effects[p] = 0
  /\ ledger[p] \in {"intended", "authorised", "abandoned"}
  /\ effects' = [effects EXCEPT ![p] = 1]
  /\ UNCHANGED <<ledger, authority>>

\* The outcome, or a refusal before or after the gate; never of a proposal that
\* still waits for a decision, and never a second one.
Settle(p) ==
  /\ ledger[p] \in {"none", "intended", "authorised", "denied"}
  /\ ledger' = [ledger EXCEPT ![p] = "settled"]
  /\ UNCHANGED <<authority, effects>>

\* A human gives up what a replay reported, or ends the session over it.
GiveUp(p) ==
  /\ ledger[p] \in {"gated", "intended", "authorised", "denied"}
  /\ ledger' = [ledger EXCEPT ![p] = "abandoned"]
  /\ UNCHANGED <<authority, effects>>

Next == \E p \in Proposal :
  Propose(p) \/ Decide(p) \/ Effect(p) \/ Settle(p) \/ GiveUp(p)

Spec == Init /\ [][Next]_entries
================================================================================
