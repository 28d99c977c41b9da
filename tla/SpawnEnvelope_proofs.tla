-------------------------- MODULE SpawnEnvelope_proofs --------------------------
(***************************************************************************)
(* What is spawned without a prompt was armed by a human, for every set of   *)
(* shapes and calls: the invariant ties what was given to what the envelope  *)
(* counts, and the counts to bounds that were valid when it was armed.       *)
(* Before that, the algebra of authority every proof about modes rests on;    *)
(* after it, what one spawned call then does: the group of Subagents.         *)
(***************************************************************************)
EXTENDS SpawnEnvelope, SequenceTheorems, TLAPS

-------------------------------------------------------------------------------
(* The algebra of authority: every ceiling only narrows, ceilings may be      *)
(* applied in any order and any number of times, and a wider mode never       *)
(* denies what a narrower one allows.                                         *)

\* Widths tell the four modes apart (core/policy.rs, width).
LEMMA WidthIsInjective ==
  ASSUME NEW a \in PolicyMode, NEW b \in PolicyMode
  PROVE  /\ width(a) \in 0 .. 3
         /\ width(a) = width(b) => a = b
  BY DEF PolicyMode, width

\* narrower_of is a minimum: below both sides, and one of them.
LEMMA NarrowerOfIsMin ==
  ASSUME NEW a \in PolicyMode, NEW b \in PolicyMode
  PROVE  /\ narrower_of(a, b) \in PolicyMode
         /\ narrower_of(a, b) \in {a, b}
         /\ width(narrower_of(a, b)) <= width(a)
         /\ width(narrower_of(a, b)) <= width(b)
  BY DEF PolicyMode, width, narrower_of

\* The order in which two ceilings are applied does not matter, and applying
\* one twice changes nothing (start_run_with_plan: "Order does not matter").
THEOREM CeilingsCommute ==
  ASSUME NEW a \in PolicyMode, NEW b \in PolicyMode, NEW c \in PolicyMode
  PROVE  /\ narrower_of(a, b) = narrower_of(b, a)
         /\ narrower_of(narrower_of(a, b), c) = narrower_of(a, narrower_of(b, c))
         /\ narrower_of(a, a) = a
  BY DEF PolicyMode, width, narrower_of

\* No ceiling of the runtime widens the mode it is given, and each of them is
\* idempotent (carried_forward, DirectiveSource::policy_ceiling, clamp).
THEOREM CeilingsOnlyNarrow ==
  ASSUME NEW m \in PolicyMode, NEW level \in GovernanceTier, NEW external \in BOOLEAN
  PROVE  /\ width(carried_forward(m)) <= width(m)
         /\ width(policy_ceiling(external, m)) <= width(m)
         /\ width(clamp(level, m)) <= width(m)
         /\ carried_forward(carried_forward(m)) = carried_forward(m)
         /\ clamp(level, clamp(level, m)) = clamp(level, m)
  BY DEF PolicyMode, GovernanceTier, width, narrower_of, carried_forward,
         policy_ceiling, clamp

\* Every clamp yields a mode.
LEMMA CeilingsAreModes ==
  ASSUME NEW m \in PolicyMode, NEW level \in GovernanceTier, NEW external \in BOOLEAN
  PROVE  /\ carried_forward(m) \in PolicyMode
         /\ policy_ceiling(external, m) \in PolicyMode
         /\ clamp(level, m) \in PolicyMode
  BY DEF PolicyMode, GovernanceTier, width, narrower_of, carried_forward,
         policy_ceiling, clamp

\* How much a decision lets happen without anyone being asked.
strictness(decision) ==
  CASE decision = "Allow" -> 0 [] decision = "Ask" -> 1 [] decision = "Deny" -> 2

\* Narrowing the mode never makes the gate more permissive, for any tier and
\* whether or not an exact command was granted (policy/mod.rs, decide).
THEOREM DecideIsMonotone ==
  ASSUME NEW m \in PolicyMode, NEW n \in PolicyMode, NEW level \in ToolTier,
         NEW granted \in BOOLEAN, width(m) <= width(n)
  PROVE  /\ decide(m, level, granted) \in PolicyDecision
         /\ strictness(decide(n, level, granted)) <= strictness(decide(m, level, granted))
  BY DEF PolicyMode, ToolTier, PolicyDecision, width, decide, strictness

\* An exact-command grant never turns a denial into anything else: it only
\* answers a question the gate would have asked (policy/mod.rs, decide).
THEOREM GrantOnlyAnswersAQuestion ==
  ASSUME NEW m \in PolicyMode, NEW level \in ToolTier,
         decide(m, level, TRUE) # decide(m, level, FALSE)
  PROVE  /\ decide(m, level, FALSE) = "Ask" /\ decide(m, level, TRUE) = "Allow"
         /\ level = "Execute"
  BY DEF PolicyMode, ToolTier, decide

-------------------------------------------------------------------------------
(* The envelope *)

\* What an envelope in force is made of, and below it what its counts are.
Armed == [armed : {TRUE}, shape : Shapes, children_drawn : Nat, turns_drawn : Nat,
          turns_elapsed : Nat]

\* An armed shape was validated, and its counts are numbers below its bounds.
WellArmed(active) ==
  /\ active \in Armed
  /\ {active.shape.max_children, active.shape.max_provider_turns,
      active.shape.expires_after_turns} \subseteq 1 .. MAX_ENVELOPE
  /\ active.children_drawn <= active.shape.max_children
  /\ active.turns_drawn <= active.shape.max_provider_turns
  /\ ~expired(active)

\* The types of everything but the envelope.
TypeInv ==
  /\ policy \in PolicyMode /\ tier \in GovernanceTier
  /\ run \in BOOLEAN /\ storeFailed \in BOOLEAN
  /\ given \in [children : Nat, turns : Nat]
  /\ last \in [children : Nat, mode : PolicyMode, asked : BOOLEAN, under : PolicyMode]
  /\ faults \in 0 .. MaxFaults

\* What was given without a prompt is what the envelope counts.
EnvelopeInv ==
  \/ envelope = NoEnvelope
  \/ /\ WellArmed(envelope)
     /\ given = [children |-> envelope.children_drawn, turns |-> envelope.turns_drawn]

Inv == TypeInv /\ EnvelopeInv

\* An armed envelope is not the absent one.
LEMMA ArmedIsSome ==
  ASSUME NEW active \in Armed
  PROVE  active # NoEnvelope
  BY DEF Armed, NoEnvelope

\* No envelope, nothing given.
LEMMA InvInit == Init => Inv
<1> SUFFICES ASSUME Init PROVE TypeInv /\ EnvelopeInv
  BY DEF Inv
<1>1. policy \in PolicyMode /\ NothingGiven \in [children : Nat, turns : Nat]
  BY DEF Init, PolicyMode, NothingGiven
<1>2. NoSpawn \in [children : Nat, mode : PolicyMode, asked : BOOLEAN,
                  under : PolicyMode]
  BY DEF NoSpawn, PolicyMode
<1>3. 0 \in 0 .. MaxFaults
  BY EnvelopeAssumption
<1> QED BY <1>1, <1>2, <1>3 DEF Init, TypeInv, EnvelopeInv

\* Every fault is counted within its bound.
LEMMA FaultsCount ==
  ASSUME NEW failed \in 0 .. 4, TypeInv, fault(failed)
  PROVE  faults' \in 0 .. MaxFaults /\ storeFailed' \in BOOLEAN
  BY EnvelopeAssumption DEF TypeInv, fault

\* One append that fails is one fault.
LEMMA MissedIsOne ==
  ASSUME NEW ok \in BOOLEAN
  PROVE  missed(ok) \in 0 .. 1
  BY DEF missed

\* A narrower policy keeps an envelope as it is or drops it.
LEMMA ReconcileKeepsOrDrops ==
  ASSUME NEW mode
  PROVE  reconcile(envelope, mode) \in {envelope, NoEnvelope}
  BY DEF reconcile

\* A model's ceiling never gives the policy more, nor the envelope.
LEMMA FloorNarrows ==
  ASSUME NEW mode \in PolicyMode, NEW t \in GovernanceTier, NEW ok \in BOOLEAN,
         floor(mode, t, ok)
  PROVE  /\ policy' \in PolicyMode /\ width(policy') <= width(mode)
         /\ envelope' \in {envelope, NoEnvelope}
<1>1. clamp(t, mode) \in PolicyMode /\ width(clamp(t, mode)) <= width(mode)
  BY CeilingsAreModes, CeilingsOnlyNarrow
<1>2. width(mode) <= width(mode)
  BY WidthIsInjective
<1> QED BY <1>1, <1>2, ReconcileKeepsOrDrops DEF floor

\* While the envelope is kept or dropped and nothing is given, the invariant holds.
LEMMA KeptOrDropped ==
  ASSUME EnvelopeInv, envelope' \in {envelope, NoEnvelope}, UNCHANGED given
  PROVE  EnvelopeInv'
  BY DEF EnvelopeInv, WellArmed, expired

\* The ceiling of a child is the weaker of two modes at either end of the scale.
LEMMA ClampIsMode ==
  ASSUME NEW a \in PolicyMode, NEW b \in PolicyMode
  PROVE  /\ clamp_ceiling(a, b) \in PolicyMode
         /\ a = "ReadOnly" => clamp_ceiling(a, b) = "ReadOnly"
         /\ clamp_ceiling(a, b) = "FullAuto" => a = "FullAuto" /\ b = "FullAuto"
  BY DEF clamp_ceiling, PolicyMode

\* What a shape and a call are made of.
LEMMA ShapesAndCalls ==
  /\ \A shape \in Shapes :
       /\ shape.ceiling \in PolicyMode
       /\ shape.max_children \in Nat /\ shape.max_per_call \in Nat
       /\ shape.max_provider_turns \in Nat /\ shape.expires_after_turns \in Nat
  /\ \A call \in Calls :
       call.children \in Nat /\ call.turns \in Nat /\ call.policy \in PolicyMode
  BY EnvelopeAssumption DEF Shape, Call

\* A draw changes what it counts, and nothing else.
LEMMA DrawCounts ==
  ASSUME NEW active \in Armed, NEW call, call.children \in Nat, call.turns \in Nat
  PROVE  /\ draw(active, call) \in Armed
         /\ draw(active, call).children_drawn = active.children_drawn + call.children
         /\ draw(active, call).turns_drawn = active.turns_drawn + call.turns
         /\ draw(active, call).shape = active.shape
         /\ draw(active, call).turns_elapsed = active.turns_elapsed
<1> DEFINE c == active.children_drawn + call.children
           t == active.turns_drawn + call.turns
           first == [active EXCEPT !.children_drawn = c]
<1>1. c \in Nat /\ t \in Nat
  BY DEF Armed
<1>2. draw(active, call) = [first EXCEPT !.turns_drawn = t]
  BY DEF draw, Armed
<1> HIDE DEF c, t
<1>3. /\ first \in Armed /\ first.children_drawn = c
      /\ first.turns_drawn = active.turns_drawn /\ first.shape = active.shape
      /\ first.turns_elapsed = active.turns_elapsed
  BY <1>1 DEF Armed
<1> HIDE DEF first
<1>4. /\ [first EXCEPT !.turns_drawn = t] \in Armed
      /\ [first EXCEPT !.turns_drawn = t].turns_drawn = t
      /\ [first EXCEPT !.turns_drawn = t].children_drawn = first.children_drawn
      /\ [first EXCEPT !.turns_drawn = t].shape = first.shape
      /\ [first EXCEPT !.turns_drawn = t].turns_elapsed = first.turns_elapsed
  BY <1>1, <1>3 DEF Armed
<1> QED BY <1>2, <1>3, <1>4 DEF c, t

\* So does a turn of the clock.
LEMMA TickCounts ==
  ASSUME NEW active \in Armed
  PROVE  /\ tick(active) \in Armed
         /\ tick(active).children_drawn = active.children_drawn
         /\ tick(active).turns_drawn = active.turns_drawn
         /\ tick(active).shape = active.shape
<1> DEFINE e == active.turns_elapsed + 1
<1>1. e \in Nat
  BY DEF Armed
<1>2. tick(active) = [active EXCEPT !.turns_elapsed = e]
  BY DEF tick, Armed
<1> HIDE DEF e
<1> QED BY <1>1, <1>2 DEF Armed

\* Every handler keeps the invariant.
LEMMA InvNext == Inv /\ [Next]_vars => Inv'
<1> SUFFICES ASSUME Inv, [Next]_vars PROVE Inv'
  OBVIOUS
<1> USE DEF Inv
<1>1. ASSUME NEW mode \in PolicyMode, SetPolicy(mode) PROVE Inv'
  <2>1. EnvelopeInv'
    BY <1>1, ReconcileKeepsOrDrops, KeptOrDropped DEF SetPolicy
  <2>2. TypeInv'
    BY <1>1, FaultsCount, MissedIsOne DEF SetPolicy, TypeInv
  <2> QED BY <2>1, <2>2
<1>2. ASSUME NEW t \in GovernanceTier, SelectModel(t) PROVE Inv'
  <2>1. CASE \E recorded, cleared \in BOOLEAN :
               /\ floor(policy, t, recorded) /\ unrecorded(cleared)
               /\ fault(missed(recorded) + missed(cleared)) /\ tier' = t
    BY <1>2, <2>1, FloorNarrows, KeptOrDropped, FaultsCount, MissedIsOne
       DEF SelectModel, TypeInv
  <2>2. CASE fault(1) /\ UNCHANGED <<policy, tier, envelope>>
    BY <1>2, <2>2, KeptOrDropped, FaultsCount DEF SelectModel, TypeInv
  <2> QED BY <1>2, <2>1, <2>2 DEF SelectModel
<1>3. ASSUME NEW external \in BOOLEAN, StartRun(external) PROVE Inv'
  <2> PICK capped \in BOOLEAN, floored \in BOOLEAN, cleared \in BOOLEAN,
           started \in BOOLEAN :
        /\ floor(IF capped THEN policy_ceiling(external, policy) ELSE policy,
                 tier, floored)
        /\ fault(missed(capped) + missed(floored) + missed(cleared)
                   + missed(started))
        /\ run' = ~storeFailed'
    BY <1>3 DEF StartRun
  <2>1. (IF capped THEN policy_ceiling(external, policy) ELSE policy) \in PolicyMode
    BY CeilingsAreModes DEF TypeInv
  <2>2. policy' \in PolicyMode /\ envelope' \in {envelope, NoEnvelope}
    BY <2>1, FloorNarrows DEF TypeInv
  <2>3. missed(capped) + missed(floored) + missed(cleared) + missed(started) \in 0 .. 4
    BY MissedIsOne
  <2> QED BY <1>3, <2>2, <2>3, KeptOrDropped, FaultsCount DEF StartRun, TypeInv
<1>4. ASSUME NEW shape \in Shapes, Arm(shape) PROVE Inv'
  <2>1. CASE envelope' = new(shape) /\ given' = NothingGiven
             /\ UNCHANGED <<storeFailed, faults>>
    <3>1. shape.max_children \in 1 .. MAX_ENVELOPE
          /\ shape.max_provider_turns \in 1 .. MAX_ENVELOPE
          /\ shape.expires_after_turns \in 1 .. MAX_ENVELOPE
      BY <1>4 DEF Arm, validate
    <3>2. WellArmed(new(shape))
      BY <3>1, EnvelopeAssumption DEF WellArmed, Armed, new, expired
    <3>3. EnvelopeInv'
      BY <2>1, <3>2 DEF EnvelopeInv, WellArmed, expired, new, NothingGiven
    <3> QED BY <1>4, <2>1, <3>3 DEF Arm, TypeInv, NothingGiven
  <2>2. CASE fault(1) /\ UNCHANGED <<envelope, given>>
    BY <1>4, <2>2, KeptOrDropped, FaultsCount DEF Arm, TypeInv
  <2> QED BY <1>4, <2>1, <2>2 DEF Arm
<1>5. ASSUME Withdraw PROVE Inv'
  BY <1>5, KeptOrDropped, FaultsCount DEF Withdraw, TypeInv
<1>6. ASSUME NEW call \in Calls, SpawnUnderEnvelope(call) PROVE Inv'
  <2>1. WellArmed(envelope)
        /\ given = [children |-> envelope.children_drawn,
                    turns |-> envelope.turns_drawn]
    BY <1>6 DEF SpawnUnderEnvelope, in_force, EnvelopeInv
  <2>2. call.children \in Nat /\ call.turns \in Nat /\ call.policy \in PolicyMode
    BY ShapesAndCalls
  <2>3. envelope.shape.ceiling \in PolicyMode
    BY <2>1, ShapesAndCalls DEF WellArmed, Armed
  <2>4. WellArmed(draw(envelope, call))
        /\ draw(envelope, call).children_drawn = envelope.children_drawn + call.children
        /\ draw(envelope, call).turns_drawn = envelope.turns_drawn + call.turns
    <3>1. /\ draw(envelope, call) \in Armed
          /\ draw(envelope, call).children_drawn
               = envelope.children_drawn + call.children
          /\ draw(envelope, call).turns_drawn = envelope.turns_drawn + call.turns
          /\ draw(envelope, call).shape = envelope.shape
          /\ draw(envelope, call).turns_elapsed = envelope.turns_elapsed
      BY <2>1, <2>2, DrawCounts DEF WellArmed
    <3>2. /\ envelope.children_drawn + call.children <= envelope.shape.max_children
          /\ envelope.turns_drawn + call.turns <= envelope.shape.max_provider_turns
      BY <1>6, <2>1, <2>2, ShapesAndCalls
         DEF SpawnUnderEnvelope, check_draw, children_remaining, turns_remaining,
             WellArmed, Armed
    <3> QED BY <2>1, <3>1, <3>2 DEF WellArmed, expired
  <2>5. given' = [children |-> given.children + call.children,
                  turns |-> given.turns + call.turns]
        /\ envelope' \in {draw(envelope, call), NoEnvelope}
    BY <1>6 DEF SpawnUnderEnvelope
  <2>6. EnvelopeInv'
    BY <2>1, <2>4, <2>5 DEF EnvelopeInv, WellArmed, expired
  <2>7. last' \in [children : Nat, mode : PolicyMode, asked : BOOLEAN,
                   under : PolicyMode]
    BY <1>6, <2>2, <2>3, ClampIsMode DEF SpawnUnderEnvelope, spawned, TypeInv
  <2>8. faults' \in 0 .. MaxFaults /\ storeFailed' \in BOOLEAN
    BY <1>6, FaultsCount, MissedIsOne DEF SpawnUnderEnvelope
  <2> QED BY <1>6, <2>2, <2>5, <2>6, <2>7, <2>8 DEF SpawnUnderEnvelope, TypeInv
<1>7. ASSUME NEW call \in Calls, SpawnAtTheGate(call) PROVE Inv'
  BY <1>7, ShapesAndCalls, ClampIsMode, KeptOrDropped
     DEF SpawnAtTheGate, spawned, TypeInv
<1>8. ASSUME NEW handoff \in BOOLEAN, NEW t \in GovernanceTier, FinishRun(handoff, t)
      PROVE Inv'
  <2> DEFINE ticked == IF envelope = NoEnvelope THEN envelope ELSE tick(envelope)
             lapsed == ticked # NoEnvelope /\ expired(ticked)
  <2>1. envelope' = IF lapsed THEN NoEnvelope ELSE ticked
    BY <1>8 DEF FinishRun
  <2>2. EnvelopeInv'
    <3>1. CASE envelope = NoEnvelope
      BY <2>1, <3>1, KeptOrDropped, <1>8 DEF FinishRun
    <3>2. CASE WellArmed(envelope)
               /\ given = [children |-> envelope.children_drawn,
                           turns |-> envelope.turns_drawn]
      <4>1. /\ tick(envelope) \in Armed
            /\ tick(envelope).shape = envelope.shape
            /\ tick(envelope).children_drawn = envelope.children_drawn
            /\ tick(envelope).turns_drawn = envelope.turns_drawn
        BY <3>2, TickCounts DEF WellArmed
      <4>2. ticked = tick(envelope) /\ ticked # NoEnvelope
        <5>1. envelope # NoEnvelope /\ tick(envelope) # NoEnvelope
          BY <3>2, <4>1, ArmedIsSome DEF WellArmed
        <5> QED BY <5>1
      <4>3. CASE expired(tick(envelope))
        BY <2>1, <4>2, <4>3 DEF EnvelopeInv
      <4>4. CASE ~expired(tick(envelope))
        <5>1. WellArmed(tick(envelope))
          BY <3>2, <4>1, <4>4 DEF WellArmed
        <5>2. envelope' = tick(envelope) /\ given' = given
          BY <1>8, <2>1, <4>2, <4>4 DEF FinishRun
        <5> QED BY <3>2, <4>1, <5>1, <5>2 DEF EnvelopeInv, WellArmed, expired
      <4> QED BY <4>3, <4>4
    <3> QED BY <3>1, <3>2 DEF EnvelopeInv
  <2>3. faults' \in 0 .. MaxFaults /\ storeFailed' \in BOOLEAN
    BY <1>8, FaultsCount, MissedIsOne DEF FinishRun
  <2>4. policy' \in PolicyMode /\ tier' \in GovernanceTier
    BY <1>8, CeilingsAreModes DEF FinishRun, TypeInv
  <2>5. run' \in BOOLEAN
    BY <1>8 DEF FinishRun
  <2> QED BY <1>8, <2>2, <2>3, <2>4, <2>5 DEF FinishRun, TypeInv
<1>9. ASSUME FailRun PROVE Inv'
  <2>1. faults' \in 0 .. MaxFaults /\ storeFailed' \in BOOLEAN
    BY <1>9, FaultsCount DEF FailRun
  <2>2. run' \in BOOLEAN /\ EnvelopeInv'
    BY <1>9, KeptOrDropped DEF FailRun
  <2> QED BY <1>9, <2>1, <2>2 DEF FailRun, TypeInv
<1>10. ASSUME Reopen PROVE Inv'
  BY <1>10, KeptOrDropped, CeilingsAreModes DEF Reopen, TypeInv
<1>11. CASE UNCHANGED vars
  BY <1>11, KeptOrDropped DEF vars, TypeInv
<1> QED
  BY <1>1, <1>2, <1>3, <1>4, <1>5, <1>6, <1>7, <1>8, <1>9, <1>10, <1>11 DEF Next

\* What was started without a prompt is what the envelope says was drawn, within the
\* bounds the human armed (core/envelope.rs, runtime/envelope.rs).
THEOREM SpawnsWereArmed == Spec => []GivenWasArmed
<1>1. ASSUME EnvelopeInv PROVE GivenWasArmed
  <2> SUFFICES ASSUME envelope # NoEnvelope,
                      WellArmed(envelope),
                      given = [children |-> envelope.children_drawn,
                               turns |-> envelope.turns_drawn]
               PROVE  GivenWasArmed
    BY <1>1 DEF EnvelopeInv, GivenWasArmed
  <2>1. given.children = envelope.children_drawn /\ given.turns = envelope.turns_drawn
    OBVIOUS
  <2>2. /\ envelope.children_drawn <= envelope.shape.max_children
        /\ envelope.turns_drawn <= envelope.shape.max_provider_turns
        /\ ~expired(envelope)
    BY DEF WellArmed
  <2> QED BY <2>1, <2>2 DEF GivenWasArmed
<1> QED BY <1>1, InvInit, InvNext, PTL DEF Spec, Inv

\* Every variable keeps its type: an envelope in force never counts beyond the largest
\* bound a human may declare (SpawnEnvelope::validate).
THEOREM TypeCorrect == Spec => []TypeOK
<1>1. ASSUME Inv PROVE TypeOK
  <2>1. ASSUME WellArmed(envelope) PROVE envelope \in ActiveEnvelope
    <3>1. /\ envelope.shape \in Shapes
          /\ envelope.children_drawn \in 0 .. MAX_ENVELOPE
          /\ envelope.turns_drawn \in 0 .. MAX_ENVELOPE
          /\ envelope.turns_elapsed \in 0 .. MAX_ENVELOPE
      <4>1. /\ envelope.shape.max_children \in 1 .. MAX_ENVELOPE
            /\ envelope.shape.max_provider_turns \in 1 .. MAX_ENVELOPE
            /\ envelope.shape.expires_after_turns \in 1 .. MAX_ENVELOPE
            /\ ~(envelope.turns_elapsed >= envelope.shape.expires_after_turns)
        BY <2>1 DEF WellArmed, expired
      <4> QED BY <2>1, <4>1, EnvelopeAssumption DEF WellArmed, Armed
    <3>2. envelope = [armed |-> TRUE, shape |-> envelope.shape,
                      children_drawn |-> envelope.children_drawn,
                      turns_drawn |-> envelope.turns_drawn,
                      turns_elapsed |-> envelope.turns_elapsed]
      BY <2>1 DEF WellArmed, Armed
    <3> QED BY <3>1, <3>2 DEF ActiveEnvelope
  <2> QED BY <1>1, <2>1 DEF Inv, TypeInv, EnvelopeInv, TypeOK
<1> QED BY <1>1, InvInit, InvNext, PTL DEF Spec

\* No child has more authority than the session that started it, and none beyond one
\* preview is started without an envelope (clamp_ceiling, start_spawn).
THEOREM ChildrenStayWithin == Spec => []ChildrenWithinAuthority
<1>1. Init => ChildrenWithinAuthority
  BY EnvelopeAssumption DEF Init, NoSpawn, ChildrenWithinAuthority
<1>2. ASSUME Inv, ChildrenWithinAuthority, [Next]_vars
      PROVE  ChildrenWithinAuthority'
  <2>1. CASE UNCHANGED last
    BY <1>2, <2>1 DEF ChildrenWithinAuthority
  <2>2. ASSUME NEW call \in Calls, SpawnUnderEnvelope(call)
        PROVE  ChildrenWithinAuthority'
    <3>1. envelope.shape.ceiling \in PolicyMode /\ call.policy \in PolicyMode
          /\ policy \in PolicyMode
      BY <1>2, <2>2, ShapesAndCalls
         DEF SpawnUnderEnvelope, in_force, Inv, EnvelopeInv, TypeInv, WellArmed, Armed
    <3> DEFINE ceiling == clamp_ceiling(policy, envelope.shape.ceiling)
    <3>2. /\ ceiling \in PolicyMode
          /\ policy = "ReadOnly" => ceiling = "ReadOnly"
          /\ ceiling = "FullAuto" => policy = "FullAuto"
      BY <3>1, ClampIsMode
    <3>3. last' = [children |-> call.children,
                   mode |-> clamp_ceiling(ceiling, call.policy),
                   asked |-> FALSE, under |-> policy]
      BY <2>2 DEF SpawnUnderEnvelope, spawned
    <3> HIDE DEF ceiling
    <3>4. /\ ceiling = "ReadOnly" => clamp_ceiling(ceiling, call.policy) = "ReadOnly"
          /\ clamp_ceiling(ceiling, call.policy) = "FullAuto" => ceiling = "FullAuto"
      BY <3>1, <3>2, ClampIsMode
    <3> QED BY <3>2, <3>3, <3>4 DEF ChildrenWithinAuthority
  <2>3. ASSUME NEW call \in Calls, SpawnAtTheGate(call)
        PROVE  ChildrenWithinAuthority'
    <3>1. call.policy \in PolicyMode /\ policy \in PolicyMode
      BY <1>2, ShapesAndCalls DEF Inv, TypeInv
    <3>2. /\ call.children <= MAX_CHILDREN
          /\ last'.children = call.children /\ last'.under = policy
          /\ last'.mode = clamp_ceiling(policy, call.policy)
      BY <2>3 DEF SpawnAtTheGate, spawned
    <3> QED BY <3>1, <3>2, ClampIsMode DEF ChildrenWithinAuthority
  <2> QED
    BY <1>2, <2>1, <2>2, <2>3
       DEF Next, vars, SetPolicy, SelectModel, StartRun, Arm, Withdraw, FinishRun,
           FailRun, Reopen
<1> QED BY <1>1, <1>2, InvInit, InvNext, PTL DEF Spec

(* The policy above the envelope *)

\* What an envelope in force has to do with a mode: the mode still justifies it, or
\* asks where the envelope was armed under full-auto.
Fits(active, mode) ==
  active # NoEnvelope =>
    \/ validate(active.shape, mode)
    \/ mode = "Ask" /\ active.shape.ceiling = "FullAuto"

\* A mode that is carried forward, or capped for an external directive, keeps the fit.
LEMMA CarriedFits ==
  ASSUME NEW mode \in PolicyMode, NEW active, Fits(active, mode)
  PROVE  /\ Fits(active, carried_forward(mode))
         /\ \A external \in BOOLEAN : Fits(active, policy_ceiling(external, mode))
<1>1. Fits(active, carried_forward(mode))
  BY DEF Fits, validate, clamp_ceiling, carried_forward, PolicyMode
<1> QED BY <1>1 DEF policy_ceiling

\* An envelope that is reconciled with a mode fits it.
LEMMA ReconciledFits ==
  ASSUME NEW active, NEW mode
  PROVE  /\ Fits(reconcile(active, mode), mode)
         /\ \A other : Fits(active, other) => Fits(reconcile(active, mode), other)
  BY DEF Fits, reconcile

\* A model's floor either leaves mode and envelope alone, or reconciles them.
LEMMA FloorFits ==
  ASSUME NEW mode \in PolicyMode, Fits(envelope, mode), NEW t, NEW ok, floor(mode, t, ok)
  PROVE  Fits(envelope', policy')
  BY ReconciledFits DEF floor

\* What stays of an envelope keeps its shape.
LEMMA SameShapeFits ==
  ASSUME NEW active \in Armed, NEW other, other = NoEnvelope \/ other.shape = active.shape,
         NEW mode, Fits(active, mode)
  PROVE  Fits(other, mode)
  BY ArmedIsSome DEF Fits

\* EnvelopeFitsPolicy: through every handler that narrows the policy and every append
\* that fails, an envelope in force is one the session's policy justifies
\* (reconcile_envelope_with_policy), but for a full-auto one under a session that an
\* external directive or a handoff brought back to asking.
THEOREM EnvelopesFit == Spec => []EnvelopeFitsPolicy
<1> DEFINE Fit == Fits(envelope, policy)
<1>1. Init => Fit
  BY DEF Init, Fits
<1>2. ASSUME Inv, Fit, [Next]_vars PROVE Fit'
  <2>0. /\ policy \in PolicyMode
        /\ envelope # NoEnvelope => envelope \in Armed
    BY <1>2 DEF Inv, TypeInv, EnvelopeInv, WellArmed
  <2>1. CASE UNCHANGED <<policy, envelope>>
    BY <1>2, <2>1 DEF Fits
  <2>2. CASE envelope' = NoEnvelope
    BY <2>2 DEF Fits
  <2>3. ASSUME NEW mode \in PolicyMode, SetPolicy(mode) PROVE Fit'
    <3>1. envelope' = reconcile(envelope, mode) /\ policy' \in {policy, mode}
      BY <2>3 DEF SetPolicy
    <3> QED BY <1>2, <3>1, ReconciledFits
  <2>4. ASSUME NEW t \in GovernanceTier, SelectModel(t) PROVE Fit'
    <3>1. CASE \E recorded \in BOOLEAN : floor(policy, t, recorded)
      BY <1>2, <2>0, <3>1, FloorFits
    <3> QED BY <2>1, <2>4, <3>1 DEF SelectModel
  <2>5. ASSUME NEW external \in BOOLEAN, StartRun(external) PROVE Fit'
    <3> PICK capped \in BOOLEAN, floored \in BOOLEAN :
          floor(IF capped THEN policy_ceiling(external, policy) ELSE policy, tier, floored)
      BY <2>5 DEF StartRun
    <3> DEFINE mode == IF capped THEN policy_ceiling(external, policy) ELSE policy
    <3>1. mode \in PolicyMode /\ Fits(envelope, mode)
      <4>1. policy_ceiling(external, policy) \in PolicyMode
        BY <2>0 DEF policy_ceiling, carried_forward, PolicyMode
      <4>2. Fits(envelope, policy) /\ Fits(envelope, policy_ceiling(external, policy))
        BY <1>2, <2>0, CarriedFits
      <4> QED BY <2>0, <4>1, <4>2
    <3>2. floor(mode, tier, floored)
      OBVIOUS
    <3> HIDE DEF mode
    <3> QED BY <3>1, <3>2, FloorFits
  <2>6. ASSUME NEW shape \in Shapes, Arm(shape) PROVE Fit'
    <3>1. CASE envelope' = new(shape)
      <4>1. policy' = policy /\ validate(shape, policy) /\ envelope'.shape = shape
        BY <2>6, <3>1 DEF Arm, new
      <4> QED BY <4>1 DEF Fits, validate
    <3> QED BY <2>1, <2>6, <3>1 DEF Arm
  <2>7. ASSUME NEW call \in Calls, SpawnUnderEnvelope(call) PROVE Fit'
    <3>1. /\ envelope \in Armed /\ policy' = policy
          /\ envelope' \in {draw(envelope, call), NoEnvelope}
      BY <2>0, <2>7 DEF SpawnUnderEnvelope, in_force
    <3>2. draw(envelope, call).shape = envelope.shape
      BY <3>1, DrawCounts, ShapesAndCalls
    <3> QED BY <1>2, <3>1, <3>2, SameShapeFits
  <2>8. ASSUME NEW handoff \in BOOLEAN, NEW t \in GovernanceTier, FinishRun(handoff, t)
        PROVE  Fit'
    <3>1. policy' \in {policy, carried_forward(policy)}
      BY <2>8 DEF FinishRun
    <3>2. CASE envelope # NoEnvelope /\ envelope' # NoEnvelope
      <4>1. envelope \in Armed /\ envelope' = tick(envelope)
        BY <2>0, <2>8, <3>2 DEF FinishRun
      <4>2. envelope'.shape = envelope.shape
        BY <4>1, TickCounts
      <4>3. Fits(envelope, policy')
        BY <1>2, <2>0, <3>1, CarriedFits
      <4> QED BY <4>1, <4>2, <4>3, SameShapeFits
    <3>3. CASE envelope = NoEnvelope
      BY <2>2, <2>8, <3>3 DEF FinishRun
    <3> QED BY <2>2, <3>2, <3>3
  <2>9. CASE \/ Withdraw \/ Reopen \/ FailRun \/ UNCHANGED vars
             \/ \E call \in Calls : SpawnAtTheGate(call)
    BY <2>1, <2>2, <2>9 DEF Withdraw, Reopen, FailRun, SpawnAtTheGate, vars
  <2> QED BY <1>2, <2>3, <2>4, <2>5, <2>6, <2>7, <2>8, <2>9 DEF Next
<1>3. Fit => EnvelopeFitsPolicy
  BY DEF Fits, EnvelopeFitsPolicy
<1> QED BY <1>1, <1>2, <1>3, InvInit, InvNext, PTL DEF Spec, Inv

\* During a run neither the policy nor what the envelope has to give gets wider,
\* whatever fails to be recorded (set_policy, record_envelope_draw).
THEOREM NothingWidensInFlight == Spec => NothingInFlightWidens
<1> DEFINE Kept ==
      /\ width(policy') <= width(policy)
      /\ envelope' # NoEnvelope =>
           /\ envelope # NoEnvelope
           /\ children_remaining(envelope') <= children_remaining(envelope)
<1>1. ASSUME Inv, Next, run, run' PROVE Kept
  <2>1. policy' = policy => width(policy') <= width(policy)
    BY <1>1, WidthIsInjective DEF Inv, TypeInv
  <2>2. ASSUME envelope # NoEnvelope
        PROVE  /\ envelope \in Armed /\ envelope.shape.max_children \in Nat
               /\ children_remaining(envelope) <= children_remaining(envelope)
    <3>1. WellArmed(envelope)
      BY <1>1, <2>2 DEF Inv, EnvelopeInv
    <3>2. envelope \in Armed /\ envelope.shape.max_children \in 1 .. MAX_ENVELOPE
      BY <3>1 DEF WellArmed
    <3>3. envelope.children_drawn \in Nat /\ envelope.shape.max_children \in Nat
      BY <3>2, EnvelopeAssumption DEF Armed
    <3> QED BY <3>2, <3>3 DEF children_remaining
  <2>3. policy' = policy /\ envelope' \in {envelope, NoEnvelope} => Kept
    BY <2>1, <2>2
  <2>4. ASSUME NEW mode \in PolicyMode, SetPolicy(mode) PROVE Kept
    BY <1>1, <2>3, <2>4, ReconcileKeepsOrDrops DEF SetPolicy
  <2>5. ASSUME NEW call \in Calls, SpawnUnderEnvelope(call) PROVE Kept
    <3>1. /\ envelope # NoEnvelope /\ policy' = policy
          /\ envelope' \in {draw(envelope, call), NoEnvelope}
      BY <2>5 DEF SpawnUnderEnvelope, in_force
    <3>2. call.children \in Nat /\ call.turns \in Nat
      BY ShapesAndCalls
    <3>3. /\ draw(envelope, call).shape = envelope.shape
          /\ draw(envelope, call).children_drawn
               = envelope.children_drawn + call.children
      BY <2>2, <3>1, <3>2, DrawCounts
    <3>4. children_remaining(draw(envelope, call)) <= children_remaining(envelope)
      BY <2>2, <3>1, <3>2, <3>3 DEF children_remaining, Armed
    <3> QED BY <2>1, <3>1, <3>4
  <2>6. ASSUME NEW call \in Calls, SpawnAtTheGate(call) PROVE Kept
    BY <2>3, <2>6 DEF SpawnAtTheGate
  <2>7. CASE Withdraw
    BY <2>3, <2>7 DEF Withdraw
  <2> QED
    BY <1>1, <2>4, <2>5, <2>6, <2>7
       DEF Next, SelectModel, StartRun, Arm, FinishRun, FailRun, Reopen
<1>2. Inv /\ [Next]_vars => [run /\ run' => Kept]_vars
  BY <1>1
<1> QED BY <1>2, InvInit, InvNext, PTL DEF Spec, NothingInFlightWidens

-------------------------------------------------------------------------------
(* The group of one call, from its dispatch to its settlement.  `run`, `faults`  *)
(* and MaxFaults are named as an envelope's are; no theorem is about both.        *)

CONSTANT Children
VARIABLES session, cancel, orch, next, child, sent, slot, mail, result, late

Group == INSTANCE Subagents

\* A record and the lack of one are told apart by their fields.
LEMMA RecordFacts ==
  /\ Group!NoRecord \notin Group!Record /\ Group!Failed \in Group!Record
  /\ \A r \in Group!Record, b \in BOOLEAN :
       /\ [r EXCEPT !.result = b] \in Group!Record /\ [r EXCEPT !.touched = b] \in Group!Record
  <1>1. /\ DOMAIN Group!NoRecord = {"result"}
        /\ \A r \in Group!Record : DOMAIN r = {"result", "read", "touched"}
      BY DEF Group!NoRecord, Group!Record
  <1>2. Group!NoRecord \notin Group!Record
      BY <1>1
  <1> QED BY <1>2 DEF Group!Record, Group!Failed

\* A child on its way: its run is under way while it is driven, it has a record once it
\* is not, and what it leaves behind it leaves at its end.
ChildOK(c) ==
  /\ c \in Group!ChildState
  /\ c.run \in {"running", "asking"} => c.at = "driving"
  /\ c.event = "terminal" => c.run = "ended"
  /\ c.at \in {"none", "setup"} => c.event = "none"
  /\ c.at \in {"finish", "over"} => c.record \in Group!Record
  /\ c.at # "over" => c.work = "none"

\* The end of the group is on its way to the transcript, or there.
Ends(outcome) ==
  \/ result = outcome
  \/ \E k \in 1 .. Len(mail) : mail[k].kind = "ended" /\ mail[k].outcome = outcome

Open == orch \in {"preflight", "dispatch", "collect", "grace"}

\* Nothing is said of a group before it ends.
Quiet == Open => mail = <<>> /\ result = "none" /\ \A i \in Children : late[i] = "none"

\* What has a record is over, and the record is the child's own, unless a fault stood
\* in for it; a branch that was left shows what it touched.
Sourced ==
  faults = 0 => \A i \in Children :
    /\ slot[i] # Group!NoRecord => child[i].at = "over"
    /\ Open /\ slot[i] # Group!NoRecord => slot[i] = child[i].record
    /\ child[i].work = "branch" => child[i].record.touched

\* From its settlement on, a group has every record, and nothing stale.
Whole ==
  /\ orch = "done"
  /\ \A i \in Children : slot[i] # Group!NoRecord /\ late[i] = "none"
  /\ \A k \in 1 .. Len(mail) : mail[k].kind # "late"
  /\ faults = 0 => \A reader, writer \in Children :
       reader # writer /\ slot[reader].result /\ slot[reader].read =>
         child[writer].work # "branch"

GroupInv ==
  /\ Group!TypeOK
  /\ \A i \in Children : ChildOK(child[i])
  /\ \A i \in Children : i >= next => child[i] = Group!Fresh
  /\ \A i \in sent : child[i].at = "over"
  /\ Quiet /\ Sourced
  /\ Ends("settled") => Whole

LEMMA MailFacts ==
  /\ Group!ended("refused") \in Group!Mail /\ Group!ended("cancelled") \in Group!Mail
  /\ Group!ended("settled") \in Group!Mail
  /\ \A i \in Children : [kind |-> "late", child |-> i] \in Group!Mail
  BY DEF Group!Mail, Group!ended

LEMMA FreshOK == ChildOK(Group!Fresh)
  BY DEF ChildOK, Group!Fresh, Group!ChildState, Group!NoRecord

LEMMA GroupInit == Group!SubagentsAssumption /\ Group!Init => GroupInv
  <1> SUFFICES ASSUME Group!SubagentsAssumption, Group!Init PROVE GroupInv
      OBVIOUS
  <1>1. Group!TypeOK
    <2>1. /\ Group!Fresh \in Group!ChildState /\ <<>> \in Seq(Group!Mail)
          /\ "none" \in Group!Book /\ 0 \in 0 .. MaxFaults
        BY FreshOK, EmptySeq DEF ChildOK, Group!Book, Group!SubagentsAssumption
    <2> HIDE DEF Group!Book
    <2> QED BY <2>1 DEF Group!Init, Group!TypeOK
  <1>2. \A i \in Children : child[i] = Group!Fresh /\ slot[i] = Group!NoRecord
      BY DEF Group!Init
  <1>3. ~Ends("settled")
      BY DEF Group!Init, Ends
  <1>4. \A i \in Children : child[i].work # "branch"
      BY <1>2 DEF Group!Fresh
  <1> QED BY <1>1, <1>2, <1>3, <1>4, FreshOK DEF Group!Init, GroupInv, Quiet, Sourced

\* A step that says nothing of the group's end, and takes no mail.
LEMMA EndStays ==
  ASSUME mail' = mail, result' = result
  PROVE  Ends("settled")' <=> Ends("settled")
  BY DEF Ends

\* The steps of a child, one after the other: it stays in order, is over for good, and
\* what it does not change of the group.
LEMMA ChildSteps ==
  ASSUME Group!SubagentsAssumption, GroupInv, NEW i \in Children, Group!ChildStep(i)
  PROVE  /\ child' \in [Children -> Group!ChildState] /\ ChildOK(child'[i])
         /\ \A j \in Children : j # i => child'[j] = child[j]
         /\ child[i].at # "over" /\ child[i].at # "none"
         /\ faults' \in {faults, faults + 1} /\ faults' \in 0 .. MaxFaults
         /\ faults' = 0 => (child'[i].work = "branch" => child'[i].record.touched)
         /\ sent' = sent \/ (sent' = sent \union {i} /\ child'[i].at = "over")
         /\ UNCHANGED <<Group!parent, orch, next, slot, mail, Group!transcript>>
  <1> DEFINE c == child[i]
  <1>0. /\ child \in [Children -> Group!ChildState] /\ faults \in 0 .. MaxFaults /\ MaxFaults \in Nat
        /\ ChildOK(c) /\ c \in Group!ChildState
      BY DEF GroupInv, Group!TypeOK, Group!SubagentsAssumption, ChildOK
  <1>1. /\ Group!sound => faults' = faults
        /\ Group!fault => faults' = faults + 1 /\ faults' \in 0 .. MaxFaults
      BY <1>0 DEF Group!sound, Group!fault
  \* A step that changes the child and nothing else of the group.
  <1>2. ASSUME NEW d, Group!child_step(i, d), ChildOK(d), d.work = "none", c.at \notin {"none", "over"},
               Group!sound \/ Group!fault
        PROVE  /\ child' \in [Children -> Group!ChildState] /\ ChildOK(child'[i])
               /\ \A j \in Children : j # i => child'[j] = child[j]
               /\ child[i].at # "over" /\ child[i].at # "none"
               /\ faults' \in {faults, faults + 1} /\ faults' \in 0 .. MaxFaults
               /\ faults' = 0 => (child'[i].work = "branch" => child'[i].record.touched)
               /\ sent' = sent \/ (sent' = sent \union {i} /\ child'[i].at = "over")
               /\ UNCHANGED <<Group!parent, orch, next, slot, mail, Group!transcript>>
    <2>1. child' = [child EXCEPT ![i] = d] /\ UNCHANGED <<Group!parent, Group!group, mail, Group!transcript>>
        BY <1>2 DEF Group!child_step
    <2>2. d \in Group!ChildState
        BY <1>2 DEF ChildOK
    <2>3. child' \in [Children -> Group!ChildState] /\ child'[i] = d
          /\ \A j \in Children : j # i => child'[j] = child[j]
        BY <1>0, <2>1, <2>2
    <2> QED BY <1>0, <1>1, <1>2, <2>1, <2>3 DEF Group!group
  <1>3. CASE Group!Setup(i)
    <2> DEFINE d == [c EXCEPT !.at = "driving", !.run = "running"]
               e == [c EXCEPT !.at = "finish", !.record = Group!Failed]
    <2>1. /\ c.at = "setup"
          /\ \/ Group!child_step(i, d) /\ Group!sound
             \/ Group!child_step(i, e) /\ Group!fault
        BY <1>3 DEF Group!Setup
    <2>2. ChildOK(d) /\ d.work = "none"
        BY <1>0, <2>1 DEF ChildOK, Group!ChildState
    <2>3. ChildOK(e) /\ e.work = "none"
        BY <1>0, <2>1, RecordFacts DEF ChildOK, Group!ChildState
    <2> HIDE DEF c, d, e
    <2> QED BY <1>2, <2>1, <2>2, <2>3
  <1>4. CASE Group!Ask(i)
    <2> DEFINE d == [c EXCEPT !.run = "asking", !.event = "proposal"]
    <2>1. c.run = "running" /\ Group!child_step(i, d) /\ Group!sound
        BY <1>4 DEF Group!Ask
    <2>2. ChildOK(d) /\ d.work = "none" /\ c.at = "driving"
        BY <1>0, <2>1 DEF ChildOK, Group!ChildState
    <2> HIDE DEF c, d
    <2> QED BY <1>2, <2>1, <2>2
  <1>5. CASE Group!RunEnds(i)
    <2> DEFINE d == [c EXCEPT !.run = "ended", !.event = "terminal"]
    <2>1. c.run \in {"running", "asking"} /\ Group!child_step(i, d) /\ Group!sound
        BY <1>5 DEF Group!RunEnds
    <2>2. ChildOK(d) /\ d.work = "none" /\ c.at = "driving"
        BY <1>0, <2>1 DEF ChildOK, Group!ChildState
    <2> HIDE DEF c, d
    <2> QED BY <1>2, <2>1, <2>2
  <1>6. CASE Group!Lagged(i)
    <2> DEFINE d == [c EXCEPT !.event = "none"]
    <2>1. c.at = "driving" /\ Group!child_step(i, d) /\ Group!fault
        BY <1>6 DEF Group!Lagged
    <2>2. ChildOK(d) /\ d.work = "none"
        BY <1>0, <2>1 DEF ChildOK, Group!ChildState
    <2> HIDE DEF c, d
    <2> QED BY <1>2, <2>1, <2>2
  <1>7. CASE Group!Deny(i)
    <2> DEFINE d == [c EXCEPT !.event = "none", !.run = IF @ = "asking" THEN "running" ELSE @]
    <2>1. c.at = "driving" /\ Group!child_step(i, d) /\ Group!sound
        BY <1>7 DEF Group!Deny
    <2>2. ChildOK(d) /\ d.work = "none"
        BY <1>0, <2>1 DEF ChildOK, Group!ChildState
    <2> HIDE DEF c, d
    <2> QED BY <1>2, <2>1, <2>2
  <1>8. CASE Group!SeeEnd(i)
    <2>1. PICK reported \in BOOLEAN, read \in BOOLEAN :
            Group!child_step(i, [c EXCEPT !.at = "finish", !.event = "none",
                             !.record = [Group!Failed EXCEPT !.result = reported, !.read = read]])
        BY <1>8 DEF Group!SeeEnd
    <2>2. PICK r : r = [Group!Failed EXCEPT !.result = reported, !.read = read]
        OBVIOUS
    <2>3. r \in Group!Record
        BY <2>2 DEF Group!Failed, Group!Record
    <2> DEFINE d == [c EXCEPT !.at = "finish", !.event = "none", !.record = r]
    <2>4. c.at = "driving" /\ c.event = "terminal" /\ Group!child_step(i, d) /\ Group!sound
        BY <1>8, <2>1, <2>2 DEF Group!SeeEnd
    <2>5. ChildOK(d) /\ d.work = "none"
        BY <1>0, <2>3, <2>4 DEF ChildOK, Group!ChildState
    <2> HIDE DEF c, d
    <2> QED BY <1>2, <2>4, <2>5
  <1>9. CASE Group!FinishChild(i)
    <2>1. PICK work \in {"none", "branch", "worktree", "lost"}, touched \in BOOLEAN :
            /\ touched => work = "branch"
            /\ child' = [child EXCEPT ![i].at = "over", ![i].work = work,
                           ![i].record.touched = touched]
            /\ IF work = "none" \/ touched THEN Group!sound ELSE Group!fault
        BY <1>9 DEF Group!FinishChild
    <2>2. /\ c.at = "finish" /\ sent' = sent \union {i}
          /\ UNCHANGED <<Group!parent, orch, next, slot, mail, Group!transcript>>
        BY <1>9 DEF Group!FinishChild
    <2>3. PICK r : r = [c.record EXCEPT !.touched = touched]
        OBVIOUS
    <2>4. r \in Group!Record /\ r.touched = touched
        BY <1>0, <2>2, <2>3, RecordFacts DEF ChildOK, Group!Record
    <2>5. PICK d : d = [c EXCEPT !.at = "over", !.work = work, !.record = r]
        OBVIOUS
    <2>6. ChildOK(d) /\ d.at = "over" /\ d.work = work /\ d.record = r
        BY <1>0, <2>2, <2>4, <2>5 DEF ChildOK, Group!ChildState
    <2>7. child' = [child EXCEPT ![i] = d]
        BY <1>0, <2>1, <2>3, <2>5 DEF Group!ChildState
    <2>8. child' \in [Children -> Group!ChildState] /\ child'[i] = d
          /\ \A j \in Children : j # i => child'[j] = child[j]
      <3>1. d \in Group!ChildState
          BY <2>6 DEF ChildOK
      <3> QED BY <1>0, <2>7, <3>1
    <2>9. faults' \in {faults, faults + 1} /\ faults' \in 0 .. MaxFaults
          /\ (faults' = 0 => (work = "branch" => touched))
        BY <1>0, <1>1, <2>1
    <2> QED BY <2>2, <2>4, <2>6, <2>8, <2>9
  <1> QED BY <1>3, <1>4, <1>5, <1>6, <1>7, <1>8, <1>9 DEF Group!ChildStep

LEMMA GroupNext == Group!SubagentsAssumption /\ GroupInv /\ [Group!Next]_(Group!vars) => GroupInv'
  <1> SUFFICES ASSUME Group!SubagentsAssumption, GroupInv, [Group!Next]_(Group!vars) PROVE GroupInv'
      OBVIOUS
  <1> USE DEF Group!parent, Group!group, Group!transcript
  <1>0. /\ Group!TypeOK /\ MaxFaults \in Nat /\ faults \in 0 .. MaxFaults
        /\ child \in [Children -> Group!ChildState]
        /\ slot \in [Children -> Group!Record \union {Group!NoRecord}]
        /\ late \in [Children -> Group!Book] /\ mail \in Seq(Group!Mail) /\ sent \subseteq Children
        /\ next \in Nat /\ Children \subseteq Int
      BY DEF GroupInv, Group!TypeOK, Group!SubagentsAssumption
  <1>1. /\ Group!sound => faults' = faults
        /\ Group!fault => faults' = faults + 1 /\ faults' \in 0 .. MaxFaults /\ faults' # 0
      BY <1>0 DEF Group!sound, Group!fault
  \* A step that leaves the children, the records and the end of the group alone.
  <1>2. ASSUME UNCHANGED <<child, sent, slot, next, result, late, mail>>, faults' = faults,
               Group!TypeOK', Open' => Open, orch = "done" => orch' = "done"
        PROVE  GroupInv'
    <2>1. Ends("settled")' <=> Ends("settled")
        BY <1>2, EndStays
    <2>2. Whole => Whole'
        BY <1>2 DEF Whole
    <2>3. Quiet' /\ Sourced'
        BY <1>2 DEF GroupInv, Quiet, Sourced
    <2> QED BY <1>2, <2>1, <2>2, <2>3 DEF GroupInv
  \* The end of an open group that does not settle it.
  <1>3. ASSUME NEW outcome \in {"refused", "cancelled"}, Open, Group!post(Group!ended(outcome)), ~Open',
               UNCHANGED <<child, sent, slot, next, result, late>>, faults' = faults, Group!TypeOK'
        PROVE  GroupInv'
    <2>1. mail = <<>> /\ result = "none"
        BY <1>3 DEF GroupInv, Quiet
    <2>2. PICK m : m = Group!ended(outcome)
        OBVIOUS
    <2>3. m.kind = "ended" /\ m.outcome = outcome
        BY <2>2 DEF Group!ended
    <2>4. mail' = <<m>>
        BY <1>3, <2>1, <2>2 DEF Group!post
    <2>5. ~Ends("settled")'
        BY <1>3, <2>1, <2>3, <2>4 DEF Ends
    <2>6. Quiet' /\ Sourced'
        BY <1>3 DEF GroupInv, Quiet, Sourced
    <2> QED BY <1>3, <2>5, <2>6 DEF GroupInv
  <1>a. ASSUME Group!Preflight PROVE GroupInv'
    <2>1. CASE orch' = "done" /\ Group!post(Group!ended("refused"))
      <3>1. mail' \in Seq(Group!Mail)
          BY <1>0, <2>1, MailFacts, AppendProperties DEF Group!post
      <3>2. Group!TypeOK'
          BY <1>0, <1>a, <2>1, <3>1 DEF Group!Preflight, Group!TypeOK
      <3> QED BY <1>3, <1>a, <2>1, <3>2 DEF Group!Preflight, Open
    <2>2. CASE orch' = "dispatch" /\ UNCHANGED mail
      <3>1. Group!TypeOK'
          BY <1>0, <1>a, <2>2 DEF Group!Preflight, Group!TypeOK
      <3> QED BY <1>2, <1>a, <2>2, <3>1 DEF Group!Preflight, Open
    <2> QED BY <1>a, <2>1, <2>2 DEF Group!Preflight
  <1>b. ASSUME Group!DispatchChild PROVE GroupInv'
    <2>1. /\ orch = "dispatch" /\ next \in Children /\ next' = next + 1
          /\ orch' \in {"dispatch", "collect"} /\ Open /\ Open' /\ child[next] = Group!Fresh
          /\ UNCHANGED <<Group!parent, sent, mail, Group!transcript>>
        BY <1>0, <1>b DEF Group!DispatchChild, Open, GroupInv
    <2>2. Quiet' /\ ~Ends("settled")'
        BY <2>1 DEF GroupInv, Quiet, Ends
    <2>3. CASE child' = [child EXCEPT ![next].at = "setup"] /\ UNCHANGED slot /\ Group!sound
      <3>1. PICK d : d = [Group!Fresh EXCEPT !.at = "setup"]
          OBVIOUS
      <3>2. ChildOK(d) /\ d.at = "setup" /\ d.work = "none"
          BY <3>1, FreshOK DEF Group!Fresh, ChildOK, Group!ChildState
      <3>3. child' = [child EXCEPT ![next] = d]
          BY <2>1, <2>3, <3>1
      <3>4. /\ child' \in [Children -> Group!ChildState] /\ child'[next] = d
            /\ \A i \in Children : i # next => child'[i] = child[i]
        <4>1. d \in Group!ChildState
            BY <3>2 DEF ChildOK
        <4> QED BY <1>0, <2>1, <3>3, <4>1
      <3>5. Group!TypeOK'
          BY <1>0, <1>1, <2>1, <2>3, <3>4 DEF Group!TypeOK
      <3>6. \A i \in Children : ChildOK(child'[i])
          BY <3>2, <3>4 DEF GroupInv
      <3>7. \A i \in Children : i >= next' => child'[i] = Group!Fresh
          BY <1>0, <2>1, <3>4 DEF GroupInv
      <3>8. next \notin sent /\ (faults = 0 => slot[next] = Group!NoRecord)
          BY <2>1 DEF GroupInv, Sourced, Group!Fresh
      <3>9. \A i \in sent' : child'[i].at = "over"
          BY <1>0, <2>1, <3>4, <3>8 DEF GroupInv
      <3>10. Sourced'
          BY <1>1, <2>1, <2>3, <3>2, <3>4, <3>8 DEF GroupInv, Sourced
      <3> QED BY <2>2, <3>5, <3>6, <3>7, <3>9, <3>10 DEF GroupInv
    <2>4. CASE slot' = [slot EXCEPT ![next] = Group!Failed] /\ UNCHANGED child /\ Group!fault
      <3>1. slot' \in [Children -> Group!Record \union {Group!NoRecord}]
          BY <1>0, <2>1, <2>4, RecordFacts
      <3>2. Group!TypeOK'
          BY <1>0, <1>1, <2>1, <2>4, <3>1 DEF Group!TypeOK
      <3>3. Sourced'
          BY <1>1, <2>4 DEF Sourced
      <3>4. \A i \in Children : i >= next' => child'[i] = Group!Fresh
          BY <1>0, <2>1, <2>4 DEF GroupInv
      <3> QED BY <2>1, <2>2, <2>4, <3>2, <3>3, <3>4 DEF GroupInv
    <2> QED BY <1>b, <2>3, <2>4 DEF Group!DispatchChild
  <1>c. ASSUME Group!Collect PROVE GroupInv'
    <2>1. PICK i \in sent : slot' = [slot EXCEPT ![i] = child[i].record] /\ sent' = sent \ {i}
        BY <1>c DEF Group!Collect
    <2>2. /\ Open /\ Open' /\ UNCHANGED <<Group!parent, orch, next, child, mail, Group!transcript, faults>>
        BY <1>c DEF Group!Collect, Open
    <2>3. i \in Children /\ child[i].at = "over" /\ child[i].record \in Group!Record
        BY <1>0, <2>1 DEF GroupInv, ChildOK
    <2>4. Group!TypeOK'
        BY <1>0, <2>1, <2>2, <2>3 DEF Group!TypeOK
    <2>5. Quiet' /\ ~Ends("settled")'
        BY <2>2 DEF GroupInv, Quiet, Ends
    <2>6. Sourced'
        BY <1>0, <2>1, <2>2, <2>3 DEF GroupInv, Sourced
    <2> QED BY <2>1, <2>2, <2>4, <2>5, <2>6 DEF GroupInv
  <1>d. ASSUME Group!Settle PROVE GroupInv'
    <2>1. /\ orch = "collect" /\ Group!outstanding = {} /\ orch' = "done" /\ slot' = Group!invalidate(slot)
          /\ mail' = Append(mail, Group!ended("settled")) /\ Open /\ ~Open'
          /\ UNCHANGED <<Group!parent, next, sent, child, Group!transcript, faults>>
        BY <1>d DEF Group!Settle, Group!post, Open
    <2>2. mail = <<>> /\ \A i \in Children : late[i] = "none"
        BY <2>1 DEF GroupInv, Quiet
    <2>3. \A i \in Children : slot[i] \in Group!Record
        BY <1>0, <2>1 DEF Group!outstanding
    <2>4. \A i \in Children :
            slot'[i] = IF i \in Group!detect(slot) THEN [slot[i] EXCEPT !.result = FALSE] ELSE slot[i]
        BY <2>1 DEF Group!invalidate
    <2>5. slot' \in [Children -> Group!Record] /\ \A i \in Children : slot'[i] # Group!NoRecord
      <3>1. \A i \in Children : slot'[i] \in Group!Record
          BY <2>3, <2>4, RecordFacts
      <3>2. slot' = [i \in Children |-> slot'[i]]
          BY <2>1 DEF Group!invalidate
      <3> QED BY <3>1, <3>2, RecordFacts
    <2>6. PICK m : m = Group!ended("settled")
        OBVIOUS
    <2>7. m.kind = "ended" /\ mail' = <<m>> /\ mail' \in Seq(Group!Mail)
        BY <2>1, <2>2, <2>6, MailFacts DEF Group!ended
    <2>8. Group!TypeOK'
        BY <1>0, <2>1, <2>5, <2>7 DEF Group!TypeOK
    <2>9. ASSUME faults = 0, NEW reader \in Children, NEW writer \in Children,
                 reader # writer, slot'[reader].result, slot'[reader].read
          PROVE  child[writer].work # "branch"
      <3>1. reader \notin Group!detect(slot) /\ slot[reader].read
          BY <2>3, <2>4, <2>9 DEF Group!Record
      <3>2. ~slot[writer].touched
          BY <2>9, <3>1 DEF Group!detect
      <3>3. slot[writer] = child[writer].record
          BY <2>1, <2>3, <2>9, RecordFacts DEF GroupInv, Sourced
      <3> QED BY <2>9, <3>2, <3>3 DEF GroupInv, Sourced
    <2>10. Whole'
        BY <2>1, <2>2, <2>5, <2>7, <2>9 DEF Whole
    <2>11. Sourced' /\ Quiet'
      <3>1. faults = 0 => \A i \in Children : child[i].at = "over"
          BY <2>3, RecordFacts DEF GroupInv, Sourced
      <3> QED BY <2>1, <3>1 DEF GroupInv, Sourced, Quiet
    <2> QED BY <2>1, <2>8, <2>10, <2>11 DEF GroupInv
  <1>e. ASSUME Group!Cancelled PROVE GroupInv'
    <2>1. Group!TypeOK'
        BY <1>0, <1>e DEF Group!Cancelled, Group!TypeOK
    <2> QED BY <1>2, <1>e, <2>1 DEF Group!Cancelled, Open
  <1>f. ASSUME Group!GraceEnds PROVE GroupInv'
    <2>1. mail' \in Seq(Group!Mail)
        BY <1>0, <1>f, MailFacts, AppendProperties DEF Group!GraceEnds, Group!post
    <2>2. Group!TypeOK'
        BY <1>0, <1>f, <2>1 DEF Group!GraceEnds, Group!TypeOK
    <2> QED BY <1>3, <1>f, <2>2 DEF Group!GraceEnds, Open
  <1>g. ASSUME Group!ReportLate PROVE GroupInv'
    <2>1. PICK i \in sent : sent' = sent \ {i} /\ Group!post([kind |-> "late", child |-> i])
        BY <1>g DEF Group!ReportLate
    <2>2. orch = "stragglers" /\ UNCHANGED <<Group!parent, orch, next, slot, child, Group!transcript, faults>>
        BY <1>g DEF Group!ReportLate
    <2>3. PICK m \in Group!Mail : m = [kind |-> "late", child |-> i]
        BY <1>0, MailFacts
    <2>4. m.kind = "late" /\ mail' = Append(mail, m)
        BY <2>1, <2>3 DEF Group!post
    <2>5. /\ mail' \in Seq(Group!Mail) /\ Len(mail') = Len(mail) + 1 /\ mail'[Len(mail) + 1] = m
          /\ \A k \in 1 .. Len(mail) : mail'[k] = mail[k]
        BY <1>0, <2>4, AppendProperties
    <2>6. Group!TypeOK'
        BY <1>0, <2>1, <2>2, <2>5 DEF Group!TypeOK
    <2>7. ~Ends("settled")
        BY <2>2 DEF GroupInv, Whole
    <2>8. ~Ends("settled")'
      <3>1. Len(mail) \in Nat
          BY <1>0
      <3>2. \A k \in 1 .. Len(mail') : k \in 1 .. Len(mail) \/ k = Len(mail) + 1
          BY <2>5, <3>1
      <3> QED BY <2>2, <2>4, <2>5, <2>7, <3>2 DEF Ends
    <2>9. Quiet' /\ Sourced'
        BY <2>2 DEF GroupInv, Quiet, Sourced, Open
    <2> QED BY <2>1, <2>2, <2>6, <2>8, <2>9 DEF GroupInv
  <1>h. ASSUME NEW i \in Children, Group!ChildStep(i) PROVE GroupInv'
    <2>1. /\ child' \in [Children -> Group!ChildState] /\ ChildOK(child'[i])
          /\ \A j \in Children : j # i => child'[j] = child[j]
          /\ child[i].at # "over" /\ child[i].at # "none"
          /\ faults' \in {faults, faults + 1} /\ faults' \in 0 .. MaxFaults
          /\ faults' = 0 => (child'[i].work = "branch" => child'[i].record.touched)
          /\ sent' = sent \/ (sent' = sent \union {i} /\ child'[i].at = "over")
          /\ UNCHANGED <<Group!parent, orch, next, slot, mail, Group!transcript>>
        BY <1>h, ChildSteps
    <2>2. faults' = 0 => faults = 0
        BY <1>0, <2>1
    <2>3. Group!TypeOK'
        BY <1>0, <2>1 DEF Group!TypeOK
    <2>4. \A j \in Children : ChildOK(child'[j]) /\ (j >= next' => child'[j] = Group!Fresh)
      <3>1. child[i] # Group!Fresh
          BY <2>1 DEF Group!Fresh
      <3> QED BY <2>1, <3>1 DEF GroupInv
    <2>5. \A j \in sent' : child'[j].at = "over"
      <3>1. i \notin sent
          BY <2>1 DEF GroupInv
      <3>2. \A j \in sent : j \in Children /\ child'[j].at = "over"
          BY <1>0, <2>1, <3>1 DEF GroupInv
      <3> QED BY <2>1, <3>2
    <2>6. Quiet' /\ Sourced'
      <3>1. Quiet'
          BY <2>1 DEF GroupInv, Quiet, Open
      <3>2. ASSUME faults' = 0, NEW j \in Children
            PROVE  /\ slot[j] # Group!NoRecord => child'[j].at = "over"
                   /\ Open /\ slot[j] # Group!NoRecord => slot[j] = child'[j].record
                   /\ child'[j].work = "branch" => child'[j].record.touched
        <4>1. CASE j = i
          <5>1. slot[i] = Group!NoRecord
              BY <2>1, <2>2, <3>2 DEF GroupInv, Sourced
          <5> QED BY <2>1, <3>2, <4>1, <5>1
        <4>2. CASE j # i
            BY <2>1, <2>2, <3>2, <4>2 DEF GroupInv, Sourced
        <4> QED BY <4>1, <4>2
      <3>3. Sourced'
          BY <2>1, <3>2 DEF Sourced, Open
      <3> QED BY <3>1, <3>3
    <2>7. Ends("settled")' <=> Ends("settled")
        BY <2>1, EndStays
    <2>8. ASSUME Whole PROVE Whole'
      <3>1. faults = 0 => FALSE
          BY <2>1, <2>8 DEF Whole, GroupInv, Sourced
      <3> QED BY <2>1, <2>2, <2>8, <3>1 DEF Whole
    <2> QED BY <2>3, <2>4, <2>5, <2>6, <2>7, <2>8 DEF GroupInv
  <1>i. ASSUME Group!HandleMail PROVE GroupInv'
    <2>1. /\ mail # <<>> /\ mail' = Tail(mail) /\ UNCHANGED <<session, cancel, Group!group, child>>
          /\ ~Open /\ ~Open'
        BY <1>i DEF Group!HandleMail, GroupInv, Quiet, Open
    <2>2. PICK m : m = Head(mail)
        OBVIOUS
    <2>3. /\ mail' \in Seq(Group!Mail) /\ Len(mail') = Len(mail) - 1 /\ Len(mail) \in Nat \ {0}
          /\ m = mail[1] /\ m \in Group!Mail
          /\ \A k \in 1 .. Len(mail') : mail'[k] = mail[k + 1]
        BY <1>0, <2>1, <2>2, HeadTailProperties, EmptySeq, ElementOfSeq
    <2>4. \A k \in 1 .. Len(mail') : k + 1 \in 1 .. Len(mail) /\ mail'[k] = mail[k + 1]
        BY <2>3
    <2>5. 1 \in 1 .. Len(mail) /\ m = mail[1]
        BY <2>3
    <2>6. faults' \in {faults, faults + 1} /\ faults' \in 0 .. MaxFaults
          /\ (faults' = 0 => faults = 0)
        BY <1>0, <1>1, <1>i DEF Group!HandleMail
    <2>7. Quiet' /\ Sourced'
        BY <2>1, <2>6 DEF GroupInv, Quiet, Sourced, Open
    <2>8. CASE m.kind = "late" /\ UNCHANGED <<run, result>>
      <3>1. PICK where \in Group!Book : late' = [late EXCEPT ![m.child] = where]
          BY <1>0, <1>i, <2>2, <2>8 DEF Group!HandleMail, Group!TypeOK, Group!Book
      <3>2. Group!TypeOK'
          BY <1>0, <2>1, <2>3, <2>6, <2>8, <3>1 DEF Group!TypeOK
      <3>3. ~Ends("settled")
          BY <2>5, <2>8 DEF GroupInv, Whole
      <3>4. ~Ends("settled")'
          BY <2>4, <2>8, <3>3 DEF Ends
      <3> QED BY <2>1, <2>7, <3>2, <3>4 DEF GroupInv
    <2>9. CASE /\ m.kind = "ended" /\ result' = (IF run THEN m.outcome ELSE "ignored")
               /\ run' = (run /\ m.outcome # "cancelled") /\ UNCHANGED late
      <3>1. m.outcome \in {"refused", "cancelled", "settled"}
          BY <2>3, <2>9 DEF Group!Mail
      <3>2. Group!TypeOK'
          BY <1>0, <2>1, <2>3, <2>6, <2>9, <3>1 DEF Group!TypeOK
      <3>3. Ends("settled")' => Ends("settled")
          BY <2>4, <2>5, <2>9 DEF Ends
      <3>4. ASSUME Whole PROVE Whole'
          BY <2>1, <2>4, <2>6, <2>9, <3>4 DEF Whole
      <3> QED BY <2>1, <2>7, <3>2, <3>3, <3>4 DEF GroupInv
    <2>10. \/ m.kind = "late" /\ UNCHANGED <<run, result>>
           \/ /\ m.kind = "ended" /\ result' = (IF run THEN m.outcome ELSE "ignored")
              /\ run' = (run /\ m.outcome # "cancelled") /\ UNCHANGED late
        BY <1>i, <2>2 DEF Group!HandleMail
    <2> QED BY <2>8, <2>9, <2>10
  <1>j. ASSUME Group!CancelRun \/ Group!BudgetExpired \/ Group!SwitchSession PROVE GroupInv'
    <2>1. Group!TypeOK'
        BY <1>0, <1>j DEF Group!CancelRun, Group!BudgetExpired, Group!SwitchSession, Group!TypeOK
    <2> QED BY <1>2, <1>j, <2>1 DEF Group!CancelRun, Group!BudgetExpired, Group!SwitchSession, Open
  <1>k. CASE UNCHANGED Group!vars
    <2>1. Group!TypeOK'
        BY <1>0, <1>k DEF Group!vars, Group!TypeOK
    <2> QED BY <1>2, <1>k, <2>1 DEF Group!vars, Open
  <1> QED BY <1>a, <1>b, <1>c, <1>d, <1>e, <1>f, <1>g, <1>h, <1>i, <1>j, <1>k
          DEF Group!Next, Group!Orchestrate

\* The orchestration task, its children, the actor's mailbox and the transcript stay
\* well formed together, for any number of children (runtime/subagent/).
THEOREM GroupTypes == Group!SubagentsAssumption /\ Group!Spec => []Group!TypeOK
  <1> SUFFICES ASSUME Group!SubagentsAssumption PROVE Group!Spec => []Group!TypeOK
      OBVIOUS
  <1>1. Group!Init => GroupInv
      BY GroupInit
  <1>2. GroupInv /\ [Group!Next]_(Group!vars) => GroupInv'
      BY GroupNext
  <1>3. GroupInv => Group!TypeOK
      BY DEF GroupInv
  <1> QED BY <1>1, <1>2, <1>3, PTL DEF Group!Spec

\* A call settles with the record of every child it dispatched, and none of them is
\* reported late as well, in whatever order the records, the grace, the cancellation
\* and the actor's mail come (subagent/mod.rs, settle, and the late records after it).
THEOREM GroupsSettleWhole == Group!SubagentsAssumption /\ Group!Spec => []Group!SettledIsComplete
  <1> SUFFICES ASSUME Group!SubagentsAssumption PROVE Group!Spec => []Group!SettledIsComplete
      OBVIOUS
  <1>1. Group!Init => GroupInv
      BY GroupInit
  <1>2. GroupInv /\ [Group!Next]_(Group!vars) => GroupInv'
      BY GroupNext
  <1>3. GroupInv => Group!SettledIsComplete
      BY DEF GroupInv, Ends, Whole, Group!SettledIsComplete
  <1> QED BY <1>1, <1>2, <1>3, PTL DEF Group!Spec

\* Where every git call answered, no result a settled call reports rests on a path that
\* a sibling's branch changed (invalidate_collisions and collision.rs, detect, run over
\* the whole set of records before settle returns them).
THEOREM VerifiedMeansFresh == Group!SubagentsAssumption /\ Group!Spec => []Group!VerifiedIsFresh
  <1> SUFFICES ASSUME Group!SubagentsAssumption PROVE Group!Spec => []Group!VerifiedIsFresh
      OBVIOUS
  <1>1. Group!Init => GroupInv
      BY GroupInit
  <1>2. GroupInv /\ [Group!Next]_(Group!vars) => GroupInv'
      BY GroupNext
  <1>3. GroupInv => Group!VerifiedIsFresh
      BY DEF GroupInv, Ends, Whole, Group!VerifiedIsFresh
  <1> QED BY <1>1, <1>2, <1>3, PTL DEF Group!Spec
================================================================================
