----------------------------- MODULE SpawnEnvelope -----------------------------
(***************************************************************************)
(* The envelope a human arms so that a session may spawn children without    *)
(* an approval for each: core/envelope.rs and runtime/envelope.rs, with what *)
(* surrounds it in the actor: the policy and its two floors, the gate of a   *)
(* spawn_subagent call, the charge when the spawn starts, the clock.         *)
(*                                                                          *)
(* A run is active or not; what else it does is RunLoop's.  Routes and roles  *)
(* of children are left out: every call names only routes that are covered.  *)
(***************************************************************************)
EXTENDS PolicyGate

CONSTANTS
  Shapes,       \* the envelopes a human may try to arm
  Calls,        \* the spawn_subagent calls a model may propose
  MAX_CHILDREN, \* tools/subagent.rs: children of a call without an envelope
  MAX_ENVELOPE, \* core/envelope.rs: the largest bound an envelope may declare
  MaxFaults     \* bound: appends that fail

Shape == [ceiling : PolicyMode, max_children : Nat, max_per_call : Nat,
          max_provider_turns : Nat, expires_after_turns : Nat]

\* Every child of a call asks for the same policy: the clamp is child by child.
Call == [children : Nat, turns : Nat, policy : PolicyMode \ {"Ask"}]

ASSUME EnvelopeAssumption ==
  /\ Shapes \subseteq Shape
  /\ Calls \subseteq {call \in Call : call.children > 0}
  /\ MAX_CHILDREN \in Nat /\ MAX_ENVELOPE \in Nat /\ MaxFaults \in Nat

VARIABLES
  policy,       \* state.policy
  tier,         \* the owner's tier of the model the session is on
  run,          \* a run is active
  envelope,     \* state.envelope: an ActiveEnvelope, or NoEnvelope
  storeFailed,  \* state.store_failure is some
  given,        \* history: what was started unprompted under this envelope
  last,         \* history: the last spawn that started
  faults        \* history: appends that failed

vars == <<policy, tier, run, envelope, storeFailed, given, last, faults>>

NoEnvelope == [armed |-> FALSE]
ActiveEnvelope ==
  {[armed |-> TRUE, shape |-> shape, children_drawn |-> c, turns_drawn |-> t,
    turns_elapsed |-> e] :
     shape \in Shapes, c \in 0 .. MAX_ENVELOPE, t \in 0 .. MAX_ENVELOPE,
     e \in 0 .. MAX_ENVELOPE}

NothingGiven == [children |-> 0, turns |-> 0]
NoSpawn == [children |-> 0, mode |-> "ReadOnly", asked |-> TRUE, under |-> "ReadOnly"]

TypeOK ==
  /\ policy \in PolicyMode /\ tier \in GovernanceTier
  /\ run \in BOOLEAN /\ storeFailed \in BOOLEAN
  /\ envelope = NoEnvelope \/ envelope \in ActiveEnvelope
  /\ given \in [children : Nat, turns : Nat]
  /\ last \in [children : Nat, mode : PolicyMode, asked : BOOLEAN, under : PolicyMode]
  /\ faults \in 0 .. MaxFaults

Init ==
  /\ policy = "Ask" /\ tier \in GovernanceTier /\ run = FALSE
  /\ envelope = NoEnvelope /\ storeFailed = FALSE
  /\ given = NothingGiven /\ last = NoSpawn /\ faults = 0

--------------------------------------------------------------------------------
(* The shape and the draw: core/envelope.rs.                                 *)

\* A slip: what a child asks for is not clamped.
clamp_ceiling_Asked(parent, requested) == requested

\* clamp_ceiling, and the subagents' clamp_policy, which is the same function: a
\* child has nobody to ask, so what is neither read-only nor full-auto on both
\* sides is workspace-write.
clamp_ceiling(parent, requested) ==
  IF "ReadOnly" \in {parent, requested} THEN "ReadOnly"
  ELSE IF parent = "FullAuto" /\ requested = "FullAuto" THEN "FullAuto"
  ELSE "WorkspaceWrite"

\* SpawnEnvelope::validate.
validate(shape, mode) ==
  /\ clamp_ceiling(mode, shape.ceiling) = shape.ceiling
  /\ {shape.max_children, shape.max_per_call, shape.max_provider_turns,
      shape.expires_after_turns} \subseteq 1 .. MAX_ENVELOPE

\* ActiveEnvelope: new, exhausted, expired, check_draw.
new(shape) == [armed |-> TRUE, shape |-> shape, children_drawn |-> 0,
               turns_drawn |-> 0, turns_elapsed |-> 0]
children_remaining(active) == active.shape.max_children - active.children_drawn
turns_remaining(active) == active.shape.max_provider_turns - active.turns_drawn
exhausted(active) == children_remaining(active) = 0 \/ turns_remaining(active) = 0
expired(active) == active.turns_elapsed >= active.shape.expires_after_turns

\* A slip: each draw is within the bounds, and nobody looks at what was drawn before.
check_draw_Alone(active, call) ==
  /\ call.children <= active.shape.max_per_call
  /\ call.children <= active.shape.max_children
  /\ call.turns <= active.shape.max_provider_turns

check_draw(active, call) ==
  /\ call.children <= active.shape.max_per_call
  /\ call.children <= children_remaining(active)
  /\ call.turns <= turns_remaining(active)

\* draw and tick add saturating, which the bounds of a draw and of a shape never reach.
draw(active, call) ==
  [active EXCEPT !.children_drawn = @ + call.children, !.turns_drawn = @ + call.turns]
tick(active) == [active EXCEPT !.turns_elapsed = @ + 1]

--------------------------------------------------------------------------------
(* The actor's handlers.  An append that fails is noted in store_failure.     *)

missed(ok) == IF ok THEN 0 ELSE 1
fault(failed) ==
  /\ faults' = faults + failed /\ faults' <= MaxFaults
  /\ storeFailed' = (storeFailed \/ failed > 0)

\* A slip: a narrower policy leaves the envelope alone.
reconcile_Never(active, mode) == active

\* reconcile_envelope_with_policy: the envelope kept under `mode`.
reconcile(active, mode) ==
  IF active # NoEnvelope /\ ~validate(active.shape, mode) THEN NoEnvelope ELSE active

\* clear_spawn_envelope forgets the envelope before it records that it ended.
unrecorded(cleared) == ~cleared => envelope # NoEnvelope /\ envelope' = NoEnvelope

\* A slip: the policy changes under a run.
SetPolicy_DuringRun(mode) ==
  /\ envelope' = reconcile(envelope, mode)
  /\ policy' = mode
  /\ unrecorded(TRUE) /\ fault(0)
  /\ UNCHANGED <<tier, run, given, last>>

\* SetPolicy.  set_policy does nothing during a run or when its append fails; the
\* envelope is reconciled with the mode that was asked for all the same.
SetPolicy(mode) ==
  /\ envelope' = reconcile(envelope, mode)
  /\ \E recorded, cleared \in BOOLEAN :
       /\ ~recorded => ~run
       /\ unrecorded(cleared)
       /\ policy' = IF run \/ ~recorded THEN policy ELSE mode
       /\ fault(missed(recorded) + missed(cleared))
  /\ UNCHANGED <<tier, run, given, last>>

\* apply_governance_floor of a session under `mode` on a model of tier `t`: unless
\* the clamp cannot be recorded, the policy and the envelope are narrowed.
floor(mode, t, recorded) ==
  LET to == IF recorded THEN clamp(t, mode) ELSE mode
  IN  /\ ~recorded => clamp(t, mode) # mode
      /\ policy' = to
      /\ envelope' = IF to = mode THEN envelope ELSE reconcile(envelope, to)

\* select_model, between runs.
SelectModel(t) ==
  /\ ~run
  /\ \/ /\ tier' = t
        /\ \E recorded, cleared \in BOOLEAN :
             /\ floor(policy, t, recorded) /\ unrecorded(cleared)
             /\ fault(missed(recorded) + missed(cleared))
     \/ fault(1) /\ UNCHANGED <<policy, tier, envelope>>
  /\ UNCHANGED <<run, given, last>>

\* start_run_with_plan: the ceiling of the directive's source, which set_policy
\* records without reconciling the envelope; then the model's floor; then the run,
\* unless the session is blocked or the run cannot be recorded.
StartRun(external) ==
  /\ ~run
  /\ \E capped, floored, cleared, started \in BOOLEAN :
       LET mode == IF capped THEN policy_ceiling(external, policy) ELSE policy
       IN  /\ ~capped => policy_ceiling(external, policy) # policy
           /\ floor(mode, tier, floored) /\ unrecorded(cleared)
           /\ fault(missed(capped) + missed(floored) + missed(cleared)
                      + missed(started))
           /\ run' = ~storeFailed'
  /\ UNCHANGED <<tier, given, last>>

\* arm_spawn_envelope.
Arm(shape) ==
  /\ ~run /\ validate(shape, policy)
  /\ \/ /\ envelope' = new(shape) /\ given' = NothingGiven
        /\ UNCHANGED <<storeFailed, faults>>
     \/ fault(1) /\ UNCHANGED <<envelope, given>>
  /\ UNCHANGED <<policy, tier, run, last>>

\* clear_spawn_envelope, on the human's word.
Withdraw ==
  /\ envelope # NoEnvelope
  /\ envelope' = NoEnvelope
  /\ \E failed \in 0 .. 1 : fault(failed)
  /\ UNCHANGED <<policy, tier, run, given, last>>

in_force == envelope # NoEnvelope /\ ~expired(envelope)

\* What start_spawn dispatches, under the ceiling the gate or the envelope left.
spawned(call, ceiling, asked) ==
  last' = [children |-> call.children, mode |-> clamp_ceiling(ceiling, call.policy),
           asked |-> asked, under |-> policy]

\* prepare_tool to start_spawn, for a call an envelope in force covers:
\* settle_envelope_draw, gate_decision, charge_envelope, record_envelope_draw.
\* A draw that cannot be recorded has been made, and a spent envelope is then kept.
SpawnUnderEnvelope(call) ==
  /\ run /\ in_force
  /\ check_draw(envelope, call)
  /\ spawned(call, clamp_ceiling(policy, envelope.shape.ceiling), FALSE)
  /\ given' = [children |-> given.children + call.children,
               turns |-> given.turns + call.turns]
  /\ LET drawn == draw(envelope, call)
     IN  \E recorded, cleared \in BOOLEAN :
           /\ ~cleared => recorded /\ exhausted(drawn)
           /\ envelope' = IF recorded /\ exhausted(drawn) THEN NoEnvelope ELSE drawn
           /\ fault(missed(recorded /\ cleared))
  /\ UNCHANGED <<policy, tier, run>>

\* The same for a call of a session without an envelope: the ordinary gate, and a
\* human who approves; or a call that is refused.
SpawnAtTheGate(call) ==
  /\ run /\ ~in_force
  /\ call.children <= MAX_CHILDREN
  /\ decide(policy, "Execute", FALSE) # "Deny"
  /\ spawned(call, policy, decide(policy, "Execute", FALSE) = "Ask")
  /\ UNCHANGED <<policy, tier, run, envelope, storeFailed, given, faults>>

\* finish_run: a handoff swaps the model and drops full-auto, and a finished run is
\* one turn of the envelope's clock.
FinishRun(handoff, t) ==
  /\ run /\ run' = FALSE
  /\ \E swapped, cleared \in BOOLEAN :
       LET ticked == IF envelope = NoEnvelope THEN envelope ELSE tick(envelope)
           lapsed == ticked # NoEnvelope /\ expired(ticked)
       IN  /\ tier' = IF handoff /\ swapped THEN t ELSE tier
           /\ policy' = IF handoff /\ swapped THEN carried_forward(policy) ELSE policy
           /\ ~swapped => handoff
           /\ ~cleared => lapsed
           /\ envelope' = IF lapsed THEN NoEnvelope ELSE ticked
           /\ fault(missed(swapped) + missed(cleared))
  /\ UNCHANGED <<given, last>>

\* fail_run, halt_for_store and the end of a budget: no turn of the clock.
FailRun ==
  /\ run /\ run' = FALSE
  /\ \E failed \in 0 .. 1 : fault(failed)
  /\ UNCHANGED <<policy, tier, envelope, given, last>>

\* The session is left, forked, or its process is gone, and another one is open:
\* the policy is carried forward and the envelope is not.
Reopen ==
  /\ policy' = carried_forward(policy)
  /\ envelope' = NoEnvelope /\ run' = FALSE /\ storeFailed' = FALSE
  /\ UNCHANGED <<tier, given, last, faults>>

Next ==
  \/ \E mode \in PolicyMode : SetPolicy(mode)
  \/ \E t \in GovernanceTier : SelectModel(t)
  \/ \E external \in BOOLEAN : StartRun(external)
  \/ \E shape \in Shapes : Arm(shape)
  \/ Withdraw
  \/ \E call \in Calls : SpawnUnderEnvelope(call) \/ SpawnAtTheGate(call)
  \/ \E handoff \in BOOLEAN, t \in GovernanceTier : FinishRun(handoff, t)
  \/ FailRun \/ Reopen

Spec == Init /\ [][Next]_vars

--------------------------------------------------------------------------------
(* Properties                                                               *)

\* What was started without a prompt since the envelope was armed is what the
\* envelope says was drawn, within the bounds the human armed, across refused,
\* unrecorded and repeated draws and the runs between them.
GivenWasArmed ==
  envelope # NoEnvelope =>
    /\ given = [children |-> envelope.children_drawn, turns |-> envelope.turns_drawn]
    /\ given.children <= envelope.shape.max_children
    /\ given.turns <= envelope.shape.max_provider_turns
    /\ ~expired(envelope)

\* No spawn exceeds what the session itself may do: a child is read-only under a
\* read-only session, full-auto only under a full-auto one, and more children than
\* one preview holds are started only where an envelope was armed for them.
ChildrenWithinAuthority ==
  /\ last.under = "ReadOnly" => last.mode = "ReadOnly"
  /\ last.mode = "FullAuto" => last.under = "FullAuto"
  /\ last.asked => last.children <= MAX_CHILDREN

\* An envelope in force is one the session's policy still justifies, but for one
\* case: the full-auto envelope of a session that fell back to asking.
EnvelopeFitsPolicy ==
  envelope # NoEnvelope =>
    \/ validate(envelope.shape, policy)
    \/ policy = "Ask" /\ envelope.shape.ceiling = "FullAuto"

\* Nothing in flight is widened: during a run the policy gets no wider and the
\* envelope has no more to give, and neither does an append that fails widen them.
NothingInFlightWidens ==
  [][run /\ run' =>
       /\ width(policy') <= width(policy)
       /\ envelope' # NoEnvelope =>
            /\ envelope # NoEnvelope
            /\ children_remaining(envelope') <= children_remaining(envelope)]_vars

\* runtime/envelope.rs: an envelope that outlived the policy that allowed it "would
\* be a standing grant nobody re-authorised".  Refuted: the ceiling of an external
\* directive and the swap of a handoff narrow full-auto to ask past the envelope.
EnvelopeJustified ==
  envelope # NoEnvelope => validate(envelope.shape, policy)
================================================================================
