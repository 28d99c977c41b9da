-------------------------- MODULE PlanWorkflow_proofs --------------------------
(* The plan workflow as a fold of its durable events: what a client sees is     *)
(* what a restart rebuilds, a handoff follows an approval, and a synthesis       *)
(* works on a reviewed document; for a log of any length, any council and any    *)
(* order of commands, runs, moves and restarts.                                  *)
EXTENDS PlanWorkflow, SequenceTheorems, FiniteSetTheorems, WellFoundedInduction, TLAPS

-------------------------------------------------------------------------------
(* Induction over numbers, with a set in the place of a predicate. *)

LEMMA LeastNumber ==
  ASSUME NEW T \in SUBSET Nat, T # {}
  PROVE  \E x \in T : \A y \in T : x <= y
  <1> DEFINE Less == {pair \in Nat \X Nat : pair[1] < pair[2]}
  <1>1. IsWellFoundedOn(Less, Nat)
      BY NatLessThanWellFounded DEF OpToRel
  <1>2. PICK x \in T : \A y \in T : <<y, x>> \notin Less
    <2> HIDE DEF Less
    <2> QED BY <1>1, WFMin
  <1>3. ASSUME NEW y \in T PROVE x <= y
    <2>1. <<y, x>> \in Nat \X Nat /\ <<y, x>>[1] = y /\ <<y, x>>[2] = x
        OBVIOUS
    <2>2. ~(y < x)
        BY <1>2, <2>1
    <2> QED BY <2>2
  <1> QED BY <1>3

LEMMA NumberInduction ==
  ASSUME NEW T, 0 \in T, \A n \in Nat : n \in T => n + 1 \in T
  PROVE  Nat \subseteq T
  <1>1. SUFFICES ASSUME Nat \ T # {} PROVE FALSE
      OBVIOUS
  <1>2. PICK x \in Nat \ T : \A y \in Nat \ T : x <= y
      BY <1>1, LeastNumber
  <1>3. x # 0 /\ x - 1 \in Nat /\ x - 1 \in T
      BY <1>2
  <1>4. (x - 1) + 1 = x
      BY <1>3
  <1> QED BY <1>3, <1>4

-------------------------------------------------------------------------------
(* One event of the fold (apply_plan_event). *)

Identity == None .. MaxEvents

\* A workflow after n events of its line: no event is more than one revision.
Flow(n) ==
  [plan_id : 0 .. MaxEvents, interview_goal : BOOLEAN, questions : Nat,
   asked : Identity, prd : Identity, council_link : Identity,
   active_revision : 0 .. n, stage : PlanStage]

LEMMA FlowFacts ==
  /\ NoPlan # Refused
  /\ \A n : \A w \in Flow(n) : w # NoPlan /\ w # Refused
  <1>1. NoPlan.stage = "no workflow" /\ Refused.stage = "refused"
      BY DEF NoPlan, Refused
  <1>2. \A n : \A w \in Flow(n) : w.stage \in PlanStage
      BY DEF Flow
  <1> QED BY <1>1, <1>2 DEF PlanStage

LEMMA FlowGrows ==
  ASSUME NEW n \in Nat, NEW k \in Nat, n <= k
  PROVE  Flow(n) \subseteq Flow(k)
  <1>1. 0 .. n \subseteq 0 .. k
      OBVIOUS
  <1> HIDE DEF PlanStage
  <1> QED BY <1>1 DEF Flow

\* What an event that the workflow takes does to it.
LEMMA Applies ==
  ASSUME NEW n \in Nat, n <= MaxEvents, NEW w \in Flow(n), NEW e \in Event,
         accepts(w, e), e.kind \in PlanKind
  PROVE  /\ applied(w, e, n) \in Flow(n + 1)
         /\ applied(w, e, n).plan_id = w.plan_id
         /\ w.prd # None => applied(w, e, n).prd = w.prd
         /\ w.interview_goal => applied(w, e, n).interview_goal
         /\ e.kind # "Prd" => applied(w, e, n).prd = w.prd
         /\ e.kind = "Prd" => applied(w, e, n).prd = n
         /\ e.kind # "Council" => applied(w, e, n).council_link = w.council_link
         /\ w.council_link # None => e.kind # "Council"
         /\ e.kind = "Council" => applied(w, e, n).council_link = e.id /\ e.id = w.prd
         /\ applied(w, e, n).stage = "Approved" =>
              /\ applied(w, e, n).active_revision = w.active_revision
              /\ \/ w.stage = "Approved"
                 \/ e.kind = "Approve" /\ e.id = w.active_revision
  <1> DEFINE r == applied(w, e, n)
  <1>0. MaxEvents \in Nat /\ w \in Flow(n + 1) /\ n \in Identity /\ e.id \in Identity
        /\ None \in Identity /\ None = -1
      BY PlanAssumption, FlowGrows DEF Event, Identity, None
  <1>1. CASE e.kind = "Started"
      BY <1>0, <1>1 DEF applied, accepts, Flow, PlanStage
  <1>2. CASE e.kind = "Asked"
    <2>1. r = [w EXCEPT !.questions = w.questions + 1, !.asked = n,
                        !.stage = "QuestionPending"]
        BY <1>2 DEF applied
    <2>2. w.questions + 1 \in Nat /\ "QuestionPending" \in PlanStage
        BY DEF Flow, PlanStage
    <2> HIDE DEF r
    <2>3. r \in Flow(n + 1)
        BY <1>0, <2>1, <2>2 DEF Flow
    <2>4. /\ r.plan_id = w.plan_id /\ r.prd = w.prd /\ r.council_link = w.council_link
          /\ r.stage = "QuestionPending" /\ r.interview_goal = w.interview_goal
        BY <1>0, <2>1 DEF Flow
    <2> QED BY <1>2, <2>3, <2>4 DEF r
  <1>3. CASE e.kind = "Answered"
      BY <1>0, <1>3 DEF applied, accepts, Flow, PlanStage
  <1>4. CASE e.kind = "Prd"
    <2>1. r = [w EXCEPT !.prd = n] /\ w.prd = None /\ w.stage = "Idle"
        BY <1>4 DEF applied, accepts, Verdict
    <2> HIDE DEF r
    <2>2. r \in Flow(n + 1)
        BY <1>0, <2>1 DEF Flow
    <2>3. /\ r.plan_id = w.plan_id /\ r.prd = n /\ r.council_link = w.council_link
          /\ r.stage = "Idle" /\ r.interview_goal = w.interview_goal
        BY <1>0, <2>1 DEF Flow
    <2> QED BY <1>4, <2>1, <2>2, <2>3 DEF r
  <1>5. CASE e.kind = "Proposed"
    <2>1. e.id = w.active_revision + 1 /\ w.active_revision \in 0 .. n
        BY <1>5 DEF accepts, Verdict, Flow
    <2>2. e.id \in 0 .. n + 1
        BY <2>1
    <2> QED BY <1>0, <1>5, <2>2 DEF applied, Flow, PlanStage
  <1>6. CASE e.kind \in Verdict \union {"Reviewed"}
      BY <1>0, <1>6 DEF applied, accepts, Verdict, Flow, PlanStage
  <1>7. CASE e.kind = "HandedOff"
      BY <1>0, <1>7 DEF applied, accepts, Flow, PlanStage
  <1>8. CASE e.kind = "Council"
      BY <1>0, <1>8 DEF applied, accepts, Flow, PlanStage
  <1> QED BY <1>1, <1>2, <1>3, <1>4, <1>5, <1>6, <1>7, <1>8 DEF PlanKind

\* What a line of events has come to: a workflow, none yet, or a refusal.
States(n) == Flow(n) \union {NoPlan, Refused}

\* What taking an event about a plan does to the workflow there was, or founds one.
LEMMA ApplyEvent ==
  ASSUME NEW n \in Nat, n <= MaxEvents, NEW w \in States(n), NEW e \in Event,
         NEW r, r = apply_plan_event(w, e, n)
  PROVE  /\ r \in States(n + 1)
         /\ w = Refused \/ ~aboutPlan(e) => r = w
         /\ r = NoPlan => w = NoPlan
         /\ aboutPlan(e) /\ r # Refused =>
              /\ r \in Flow(n + 1)
              /\ w # NoPlan =>
                   /\ w \in Flow(n) /\ accepts(w, e) /\ r.plan_id = w.plan_id
                   /\ e.kind # "Asked" => e.plan_id = w.plan_id
                   /\ w.prd # None => r.prd = w.prd
                   /\ w.interview_goal => r.interview_goal
                   /\ w.council_link # None => e.kind # "Council"
                   /\ e.kind = "Council" => e.id = w.prd
              /\ w = NoPlan => /\ e.kind \in {"Started", "Asked", "Proposed"}
                               /\ r.prd = None /\ r.council_link = None
              /\ e.kind # "Prd" /\ w # NoPlan => r.prd = w.prd
              /\ e.kind = "Prd" => r.prd = n /\ r.plan_id = e.plan_id
              /\ e.kind # "Council" /\ w # NoPlan => r.council_link = w.council_link
              /\ e.kind = "Council" => r.council_link = e.id
              /\ r.stage = "Approved" =>
                   \/ /\ w # NoPlan /\ w.stage = "Approved"
                      /\ r.active_revision = w.active_revision
                   \/ /\ e.kind = "Approve" /\ e.plan_id = r.plan_id
                      /\ e.id = r.active_revision
  <1> DEFINE base == IF w = NoPlan THEN new(e.plan_id) ELSE w
  <1>0. /\ MaxEvents \in Nat /\ None = -1 /\ None \in Identity
        /\ n + 1 \in Nat /\ n <= n + 1
      BY PlanAssumption DEF None, Identity
  <1>1. CASE w = Refused \/ ~aboutPlan(e)
    <2>1. r = w
        BY <1>1 DEF apply_plan_event
    <2>2. w \in States(n + 1)
        BY <1>0, FlowGrows DEF States
    <2> QED BY <1>1, <2>1, <2>2
  <1>2. CASE /\ w # Refused /\ aboutPlan(e)
             /\ \/ w = NoPlan /\ ~founds(e)
                \/ base.plan_id # e.plan_id /\ e.kind # "Asked"
                \/ ~accepts(base, e)
    <2>1. r = Refused
        BY <1>2 DEF apply_plan_event
    <2> QED BY <1>2, <2>1, FlowFacts DEF States
  <1>3. CASE /\ w # Refused /\ aboutPlan(e) /\ (w = NoPlan => founds(e))
             /\ (base.plan_id = e.plan_id \/ e.kind = "Asked") /\ accepts(base, e)
    <2>1. r = applied(base, e, n)
        BY <1>3 DEF apply_plan_event
    <2>2. e.kind \in PlanKind /\ e.plan_id \in 0 .. MaxEvents
        BY <1>0, <1>3 DEF aboutPlan, Event
    <2>3. base \in Flow(n) /\ (w # NoPlan => base = w)
          /\ (w = NoPlan => /\ base.prd = None /\ base.council_link = None
                            /\ base.stage = "Idle" /\ base.plan_id = e.plan_id
                            /\ e.kind \in {"Started", "Asked", "Proposed"})
      <3>1. CASE w = NoPlan
        <4>1. base = [plan_id |-> e.plan_id, interview_goal |-> FALSE, questions |-> 0,
                      asked |-> None, prd |-> None, council_link |-> None,
                      active_revision |-> 0, stage |-> "Idle"]
            BY <3>1 DEF new
        <4> HIDE DEF base
        <4> QED BY <1>0, <1>3, <2>2, <3>1, <4>1 DEF Flow, PlanStage, founds
      <3>2. CASE w # NoPlan
          BY <1>3, <3>2 DEF States
      <3> QED BY <3>1, <3>2
    <2> HIDE DEF base
    <2>4. /\ r \in Flow(n + 1)
          /\ r.plan_id = base.plan_id
          /\ base.prd # None => r.prd = base.prd
          /\ base.interview_goal => r.interview_goal
          /\ e.kind # "Prd" => r.prd = base.prd
          /\ e.kind = "Prd" => r.prd = n
          /\ e.kind # "Council" => r.council_link = base.council_link
          /\ base.council_link # None => e.kind # "Council"
          /\ e.kind = "Council" => r.council_link = e.id /\ e.id = base.prd
          /\ r.stage = "Approved" =>
               /\ r.active_revision = base.active_revision
               /\ \/ base.stage = "Approved"
                  \/ e.kind = "Approve" /\ e.id = base.active_revision
        BY <1>3, <2>1, <2>2, <2>3, Applies
    <2>5. r # NoPlan /\ r # Refused
        BY <2>4, FlowFacts
    <2>6. r \in States(n + 1)
        BY <2>4 DEF States
    <2> QED BY <1>3, <2>3, <2>4, <2>5, <2>6
  <1> QED BY <1>1, <1>2, <1>3

-------------------------------------------------------------------------------
(* The fold of the events on a branch (replay). *)

\* g[s] is what the events of `on` up to s have come to.
Folds(g, l, on) ==
  /\ g[None] = NoPlan
  /\ \A s \in 0 .. Len(l) - 1 :
       g[s] = IF s \in on THEN apply_plan_event(g[s - 1], l[s + 1], s) ELSE g[s - 1]

\* The same of the first n events.
FoldsTo(g, l, on, n) ==
  /\ g = [s \in None .. n - 1 |-> g[s]] /\ g[None] = NoPlan
  /\ \A s \in 0 .. n - 1 :
       g[s] = IF s \in on THEN apply_plan_event(g[s - 1], l[s + 1], s) ELSE g[s - 1]

LEMMA FoldExists ==
  ASSUME NEW l, NEW on, NEW n \in Nat
  PROVE  \E g : FoldsTo(g, l, on, n)
  <1> DEFINE T == {k \in Nat : \E g : FoldsTo(g, l, on, k)}
  <1>0. None = -1
      BY DEF None
  <1>1. 0 \in T
    <2> DEFINE g == [s \in None .. -1 |-> NoPlan]
    <2>1. FoldsTo(g, l, on, 0)
        BY <1>0 DEF FoldsTo
    <2> QED BY <2>1
  <1>2. ASSUME NEW k \in Nat, k \in T PROVE k + 1 \in T
    <2>1. PICK g : FoldsTo(g, l, on, k)
        BY <1>2
    <2> DEFINE last == IF k \in on THEN apply_plan_event(g[k - 1], l[k + 1], k) ELSE g[k - 1]
               h == [s \in None .. k |-> IF s = k THEN last ELSE g[s]]
    <2> HIDE DEF last
    <2>2. /\ h = [s \in None .. k |-> h[s]] /\ h[None] = NoPlan /\ h[k] = last
          /\ \A s \in None .. k - 1 : h[s] = g[s]
        BY <1>0, <2>1 DEF FoldsTo
    <2> HIDE DEF h
    <2>3. ASSUME NEW s \in 0 .. k
          PROVE  h[s] = IF s \in on THEN apply_plan_event(h[s - 1], l[s + 1], s) ELSE h[s - 1]
      <3>0. s - 1 \in None .. k - 1
          BY <1>0
      <3>1. h[s - 1] = g[s - 1]
          BY <2>2, <3>0
      <3>2. CASE s = k
          BY <2>2, <3>1, <3>2 DEF last
      <3>3. CASE s # k
        <4>1. s \in 0 .. k - 1 /\ s \in None .. k - 1
            BY <1>0, <3>3
        <4>2. h[s] = g[s]
            BY <2>2, <4>1
        <4>3. g[s] = IF s \in on THEN apply_plan_event(g[s - 1], l[s + 1], s) ELSE g[s - 1]
            BY <2>1, <4>1 DEF FoldsTo
        <4> QED BY <3>1, <4>2, <4>3
      <3> QED BY <3>2, <3>3
    <2>4. FoldsTo(h, l, on, k + 1)
      <3>1. (k + 1) - 1 = k
          OBVIOUS
      <3> QED BY <2>2, <2>3, <3>1 DEF FoldsTo
    <2> QED BY <2>4
  <1> HIDE DEF T
  <1>3. Nat \subseteq T
      BY <1>1, <1>2, NumberInduction
  <1> QED BY <1>3 DEF T

LEMMA ReplayFolds ==
  ASSUME NEW l, Len(l) \in Nat \ {0}, NEW f
  PROVE  \E g : Folds(g, l, branch(l, f)) /\ replay(l, f) = g[Len(l) - 1]
  <1> DEFINE on == branch(l, f)
             Fix(k) == k = [s \in None .. Len(l) - 1 |->
                              IF s = None THEN NoPlan
                              ELSE IF s \in on THEN apply_plan_event(k[s - 1], l[s + 1], s)
                              ELSE k[s - 1]]
             fold == CHOOSE k : Fix(k)
  <1>0. None = -1
      BY DEF None
  <1>1. replay(l, f) = fold[Len(l) - 1]
      BY Zenon DEF replay
  <1> HIDE DEF on
  <1>2. \E k : Fix(k)
    <2>1. PICK n \in Nat : n = Len(l)
        OBVIOUS
    <2>0. PICK these : these = on
        OBVIOUS
    <2>2. PICK g : FoldsTo(g, l, these, n)
        BY FoldExists
    <2>3. ASSUME NEW s \in None .. n - 1
          PROVE  g[s] = IF s = None THEN NoPlan
                        ELSE IF s \in on THEN apply_plan_event(g[s - 1], l[s + 1], s)
                        ELSE g[s - 1]
      <3>1. CASE s = None
          BY <2>2, <3>1 DEF FoldsTo
      <3>2. CASE s # None
        <4>1. s \in 0 .. n - 1
            BY <1>0, <3>2
        <4> QED BY <2>0, <2>2, <3>2, <4>1 DEF FoldsTo
      <3> QED BY <3>1, <3>2
    <2>4. g = [s \in None .. n - 1 |-> g[s]]
        BY <2>2 DEF FoldsTo
    <2>5. Fix(g)
        BY <2>1, <2>3, <2>4
    <2> HIDE DEF Fix
    <2> QED BY <2>5
  <1>3. Fix(fold)
    <2> HIDE DEF Fix
    <2> QED BY <1>2
  <1> HIDE DEF fold
  <1>4. fold[None] = NoPlan
      BY <1>0, <1>3
  <1>5. ASSUME NEW s \in 0 .. Len(l) - 1
        PROVE  fold[s] = IF s \in on THEN apply_plan_event(fold[s - 1], l[s + 1], s)
                                     ELSE fold[s - 1]
    <2>1. s \in None .. Len(l) - 1 /\ s # None
        BY <1>0
    <2> QED BY <1>3, <2>1
  <1> HIDE DEF Fix
  <1> QED BY <1>1, <1>4, <1>5 DEF Folds, on

\* A workflow stands on an approval of its revision among the first n events.
ApprovedIn(l, n, w) ==
  \E a \in 0 .. n - 1 : /\ l[a + 1].kind = "Approve" /\ l[a + 1].plan_id = w.plan_id
                        /\ l[a + 1].id = w.active_revision

Justified(l, n, w) ==
  w \notin {NoPlan, Refused} /\ w.stage = "Approved" => ApprovedIn(l, n, w)

\* Whatever branch is replayed, the outcome is a workflow of its kind, and one that
\* is approved was approved in the record.
LEMMA FoldSound ==
  ASSUME NEW l \in Seq(Event), Len(l) \in 1 .. MaxEvents, NEW on, NEW g, Folds(g, l, on),
         NEW n \in Nat, n <= Len(l)
  PROVE  g[n - 1] \in States(n) /\ Justified(l, n, g[n - 1])
  <1> DEFINE T == {k \in Nat : k <= Len(l) => g[k - 1] \in States(k) /\ Justified(l, k, g[k - 1])}
  <1>1. 0 \in T
      BY DEF Folds, None, States, Justified
  <1>2. ASSUME NEW k \in Nat, k \in T PROVE k + 1 \in T
    <2>1. SUFFICES ASSUME k + 1 <= Len(l)
                   PROVE  g[k] \in States(k + 1) /\ Justified(l, k + 1, g[k])
        OBVIOUS
    <2> DEFINE w == g[k - 1]
               r == g[k]
               e == l[k + 1]
    <2>2. w \in States(k) /\ Justified(l, k, w)
        BY <1>2, <2>1, LenProperties
    <2>3. /\ k \in 0 .. Len(l) - 1 /\ k <= MaxEvents /\ e \in Event
        BY <2>1, PlanAssumption, LenProperties, ElementOfSeq
    <2>4. r = IF k \in on THEN apply_plan_event(w, e, k) ELSE w
        BY <2>3 DEF Folds
    <2>5. ASSUME w \notin {NoPlan, Refused} => ApprovedIn(l, k, w)
          PROVE  w \notin {NoPlan, Refused} => ApprovedIn(l, k + 1, w)
        BY <2>5 DEF ApprovedIn
    <2> HIDE DEF w, r
    <2>6. Justified(l, k + 1, w)
        BY <2>2 DEF Justified, ApprovedIn
    <2>7. CASE r = w
      <3>1. w \in States(k + 1)
          BY <2>2, FlowGrows DEF States
      <3> QED BY <2>6, <2>7, <3>1 DEF r
    <2>8. CASE r # w
      <3>1. r = apply_plan_event(w, e, k)
          BY <2>4, <2>8
      <3>2. r \in States(k + 1) /\ aboutPlan(e)
          BY <2>2, <2>3, <2>8, <3>1, ApplyEvent
      <3>3. ASSUME r \notin {NoPlan, Refused}, r.stage = "Approved"
            PROVE  ApprovedIn(l, k + 1, r)
        <4>1. \/ /\ w # NoPlan /\ w.stage = "Approved" /\ w # Refused
                 /\ r.active_revision = w.active_revision /\ r.plan_id = w.plan_id
              \/ /\ e.kind = "Approve" /\ e.plan_id = r.plan_id
                 /\ e.id = r.active_revision
            BY <2>2, <2>3, <3>1, <3>2, <3>3, ApplyEvent
        <4>2. CASE /\ w # NoPlan /\ w.stage = "Approved" /\ w # Refused
                   /\ r.active_revision = w.active_revision /\ r.plan_id = w.plan_id
            BY <2>6, <4>2 DEF Justified, ApprovedIn
        <4>3. CASE /\ e.kind = "Approve" /\ e.plan_id = r.plan_id
                   /\ e.id = r.active_revision
          <5>1. k \in 0 .. (k + 1) - 1
              OBVIOUS
          <5> QED BY <4>3, <5>1 DEF ApprovedIn
        <4> QED BY <4>1, <4>2, <4>3
      <3> QED BY <3>2, <3>3 DEF Justified, r
    <2> QED BY <2>7, <2>8
  <1> HIDE DEF T
  <1>3. Nat \subseteq T
      BY <1>1, <1>2, NumberInduction
  <1> QED BY <1>3 DEF T

LEMMA ReplaySound ==
  ASSUME NEW l \in Seq(Event), Len(l) \in 1 .. MaxEvents, NEW f
  PROVE  replay(l, f) \in States(Len(l)) /\ Justified(l, Len(l), replay(l, f))
  <1>1. Len(l) \in Nat \ {0}
      OBVIOUS
  <1>2. PICK g : Folds(g, l, branch(l, f)) /\ replay(l, f) = g[Len(l) - 1]
      BY <1>1, ReplayFolds
  <1>3. g[Len(l) - 1] \in States(Len(l)) /\ Justified(l, Len(l), g[Len(l) - 1])
      BY <1>1, <1>2, FoldSound
  <1> QED BY <1>2, <1>3
-------------------------------------------------------------------------------
(* A session that was never moved has one line: each event follows the one       *)
(* before it (branch_events), so an event that is appended is the last one the    *)
(* fold is asked about.                                                           *)

Straight(l) == \A s \in 0 .. Len(l) - 1 : l[s + 1].parent = None

LEMMA StraightBranch ==
  ASSUME NEW l, Len(l) \in Nat \ {0}, Straight(l)
  PROVE  branch(l, None) = 0 .. Len(l) - 1
  <1> DEFINE Fix(k) == k = [s \in None .. Len(l) - 1 |->
                              IF s = None THEN {} ELSE {s} \union k[parentOf(l, s)]]
             up == CHOOSE k : Fix(k)
             T == {n \in Nat : n <= Len(l) => up[n - 1] = 0 .. n - 1}
  <1>0. None = -1
      BY DEF None
  <1>1. branch(l, None) = up[Len(l) - 1]
      BY Zenon DEF branch
  <1>2. \A s \in 0 .. Len(l) - 1 : parentOf(l, s) = s - 1
      BY DEF Straight, parentOf
  <1>3. \E k : Fix(k)
    <2> DEFINE k == [s \in None .. Len(l) - 1 |-> 0 .. s]
    <2>1. ASSUME NEW s \in None .. Len(l) - 1
          PROVE  k[s] = IF s = None THEN {} ELSE {s} \union k[parentOf(l, s)]
      <3>1. CASE s = None
          BY <1>0, <3>1
      <3>2. CASE s # None
        <4>1. s \in 0 .. Len(l) - 1 /\ s - 1 \in None .. Len(l) - 1
            BY <1>0, <3>2
        <4>2. k[parentOf(l, s)] = 0 .. s - 1
            BY <1>2, <4>1
        <4>3. 0 .. s = {s} \union 0 .. s - 1
            BY <4>1
        <4> QED BY <3>2, <4>2, <4>3
      <3> QED BY <3>1, <3>2
    <2>2. Fix(k)
        BY <2>1
    <2> HIDE DEF Fix, k
    <2> QED BY <2>2
  <1>4. Fix(up)
    <2> HIDE DEF Fix
    <2> QED BY <1>3
  <1> HIDE DEF up
  <1>5. up[None] = {}
      BY <1>0, <1>4
  <1>6. ASSUME NEW s \in 0 .. Len(l) - 1 PROVE up[s] = {s} \union up[s - 1]
    <2>1. s \in None .. Len(l) - 1 /\ s # None
        BY <1>0
    <2> QED BY <1>2, <1>4, <2>1
  <1> HIDE DEF Fix
  <1>7. 0 \in T
      BY <1>0, <1>5
  <1>8. ASSUME NEW n \in Nat, n \in T PROVE n + 1 \in T
    <2>1. SUFFICES ASSUME n + 1 <= Len(l) PROVE up[n] = 0 .. n
        OBVIOUS
    <2>2. n \in 0 .. Len(l) - 1 /\ up[n - 1] = 0 .. n - 1
        BY <1>8, <2>1
    <2>3. up[n] = {n} \union 0 .. n - 1
        BY <1>6, <2>2
    <2> QED BY <2>3
  <1> HIDE DEF T
  <1>9. Nat \subseteq T
      BY <1>7, <1>8, NumberInduction
  <1> QED BY <1>1, <1>9 DEF T

LEMMA ReplayAppends ==
  ASSUME NEW l \in Seq(Event), Len(l) # 0, Straight(l), NEW e \in Event, e.parent = None
  PROVE  /\ Straight(Append(l, e))
         /\ replay(Append(l, e), None) = apply_plan_event(replay(l, None), e, Len(l))
  <1> DEFINE m == Append(l, e)
             n == Len(l)
  <1>0. None = -1 /\ n \in Nat \ {0}
      BY DEF None
  <1>1. /\ m \in Seq(Event) /\ Len(m) = n + 1 /\ m[n + 1] = e
        /\ \A i \in 1 .. n : m[i] = l[i]
      BY AppendProperties
  <1> HIDE DEF m, n
  <1>2. Straight(m)
    <2> SUFFICES ASSUME NEW s \in 0 .. n PROVE m[s + 1].parent = None
        BY <1>0, <1>1 DEF Straight
    <2>1. CASE s = n
        BY <1>1, <2>1
    <2>2. CASE s # n
      <3>1. s \in 0 .. n - 1 /\ s + 1 \in 1 .. n
          BY <1>0, <2>2
      <3> QED BY <1>1, <3>1 DEF Straight, n
    <2> QED BY <2>1, <2>2
  <1>3. PICK g : Folds(g, l, 0 .. n - 1) /\ replay(l, None) = g[n - 1]
    <2>1. Len(l) \in Nat \ {0} /\ Len(l) = n
        BY <1>0 DEF n
    <2> QED BY <2>1, ReplayFolds, StraightBranch
  <1>4. PICK h : Folds(h, m, 0 .. n) /\ replay(m, None) = h[n]
    <2>1. Len(m) \in Nat \ {0} /\ Len(m) - 1 = n
        BY <1>0, <1>1
    <2> QED BY <1>2, <2>1, ReplayFolds, StraightBranch
  <1> DEFINE T == {k \in Nat : k <= n => h[k - 1] = g[k - 1]}
  <1>5. 0 \in T
      BY <1>0, <1>3, <1>4 DEF Folds
  <1>6. ASSUME NEW k \in Nat, k \in T PROVE k + 1 \in T
    <2>1. SUFFICES ASSUME k + 1 <= n PROVE h[k] = g[k]
        OBVIOUS
    <2>2. k \in 0 .. n - 1 /\ k \in 0 .. n /\ k + 1 \in 1 .. n /\ h[k - 1] = g[k - 1]
        BY <1>0, <1>6, <2>1
    <2>3. g[k] = apply_plan_event(g[k - 1], l[k + 1], k)
        BY <1>3, <2>2 DEF Folds, n
    <2>4. k \in 0 .. Len(m) - 1
        BY <1>0, <1>1, <2>2
    <2>5. h[k] = apply_plan_event(h[k - 1], m[k + 1], k)
        BY <1>4, <2>2, <2>4 DEF Folds
    <2> QED BY <1>1, <2>2, <2>3, <2>5
  <1> HIDE DEF T
  <1>7. Nat \subseteq T
      BY <1>5, <1>6, NumberInduction
  <1>8. h[n - 1] = g[n - 1]
      BY <1>0, <1>7 DEF T
  <1>9. n \in 0 .. Len(m) - 1 /\ n \in 0 .. n
      BY <1>0, <1>1
  <1>10. h[n] = apply_plan_event(h[n - 1], m[n + 1], n)
      BY <1>4, <1>9 DEF Folds
  <1> QED BY <1>1, <1>2, <1>3, <1>4, <1>8, <1>10 DEF m, n

\* A log of one event that is about no plan has no workflow.
LEMMA ReplayCreated ==
  ASSUME NEW e \in Event, e.parent = None, ~aboutPlan(e)
  PROVE  Straight(<<e>>) /\ replay(<<e>>, None) = NoPlan
  <1> DEFINE l == <<e>>
  <1>1. Len(l) = 1 /\ l[1] = e /\ 0 .. Len(l) - 1 = {0}
      OBVIOUS
  <1> HIDE DEF l
  <1>2. Straight(l)
      BY <1>1 DEF Straight
  <1>3. PICK g : Folds(g, l, 0 .. Len(l) - 1) /\ replay(l, None) = g[Len(l) - 1]
    <2>1. Len(l) \in Nat \ {0}
        BY <1>1
    <2> QED BY <1>2, <2>1, ReplayFolds, StraightBranch
  <1>4. g[0] = apply_plan_event(g[0 - 1], l[0 + 1], 0) /\ g[None] = NoPlan
      BY <1>1, <1>3 DEF Folds
  <1>5. g[0] = apply_plan_event(NoPlan, e, 0)
      BY <1>1, <1>4 DEF None
  <1> QED BY <1>2, <1>3, <1>5 DEF apply_plan_event, l
-------------------------------------------------------------------------------
(* What the record of a session and the workflow of a client always are, and     *)
(* what an append leaves of it.                                                   *)

\* HandoffWasApproved, of any log.
Handoffs(l) ==
  \A s \in 0 .. Len(l) - 1 : l[s + 1].kind = "HandedOff" =>
    \E a \in 0 .. s : /\ l[a + 1].kind = "Approve"
                      /\ l[a + 1].plan_id = l[s + 1].plan_id
                      /\ l[a + 1].id = l[s + 1].id

Record(l) == l \in Seq(Event) /\ Len(l) \in 1 .. MaxEvents /\ Handoffs(l)
Shown(l, w) == w \in Flow(Len(l)) \union {NoPlan} /\ Justified(l, Len(l), w)

\* An event that hands off names an approval of the log.
Explained(l, e) ==
  e.kind = "HandedOff" =>
    \E a \in 0 .. Len(l) - 1 : /\ l[a + 1].kind = "Approve"
                               /\ l[a + 1].plan_id = e.plan_id /\ l[a + 1].id = e.id

LEMMA Appended ==
  ASSUME NEW l, Record(l), Len(l) < MaxEvents, NEW e \in Event, Explained(l, e)
  PROVE  /\ Record(Append(l, e)) /\ Len(Append(l, e)) = Len(l) + 1
         /\ \A w : Shown(l, w) => Shown(Append(l, e), w)
  <1> DEFINE m == Append(l, e)
             n == Len(l)
  <1>0. n \in Nat /\ n \in 1 .. MaxEvents /\ MaxEvents \in Nat /\ l \in Seq(Event)
      BY PlanAssumption DEF Record
  <1>1. /\ m \in Seq(Event) /\ Len(m) = n + 1 /\ m[n + 1] = e
        /\ \A i \in 1 .. n : m[i] = l[i]
      BY <1>0, AppendProperties
  <1>2. \A a \in 0 .. n - 1 : a + 1 \in 1 .. n /\ m[a + 1] = l[a + 1]
      BY <1>0, <1>1
  <1> HIDE DEF m, n
  <1>3. Handoffs(m)
    <2> SUFFICES ASSUME NEW s \in 0 .. n, m[s + 1].kind = "HandedOff"
                 PROVE  \E a \in 0 .. s : /\ m[a + 1].kind = "Approve"
                                          /\ m[a + 1].plan_id = m[s + 1].plan_id
                                          /\ m[a + 1].id = m[s + 1].id
        BY <1>0, <1>1 DEF Handoffs
    <2>1. CASE s = n
      <3>1. PICK a \in 0 .. n - 1 : /\ l[a + 1].kind = "Approve"
                                    /\ l[a + 1].plan_id = e.plan_id /\ l[a + 1].id = e.id
          BY <1>1, <2>1 DEF Explained, n
      <3>2. a \in 0 .. s
          BY <1>0, <2>1
      <3> QED BY <1>1, <1>2, <2>1, <3>1, <3>2
    <2>2. CASE s # n
      <3>1. s \in 0 .. n - 1
          BY <1>0, <2>2
      <3>2. l[s + 1].kind = "HandedOff"
          BY <1>2, <3>1
      <3>3. PICK a \in 0 .. s : /\ l[a + 1].kind = "Approve"
                                /\ l[a + 1].plan_id = l[s + 1].plan_id
                                /\ l[a + 1].id = l[s + 1].id
          BY <3>1, <3>2 DEF Record, Handoffs, n
      <3>4. a \in 0 .. n - 1
          BY <1>0, <3>1
      <3> QED BY <1>2, <3>1, <3>3, <3>4
    <2> QED BY <2>1, <2>2
  <1>4. Record(m)
    <2>1. n + 1 \in 1 .. MaxEvents
        BY <1>0 DEF n
    <2> QED BY <1>1, <1>3, <2>1 DEF Record
  <1>5. ASSUME NEW w, Shown(l, w) PROVE Shown(m, w)
    <2>1. w \in Flow(n + 1) \union {NoPlan}
      <3>1. w \in Flow(n) \union {NoPlan} /\ n + 1 \in Nat /\ n <= n + 1
          BY <1>0, <1>5 DEF Shown, n
      <3> QED BY <1>0, <3>1, FlowGrows
    <2>2. Justified(m, n + 1, w)
      <3> SUFFICES ASSUME w \notin {NoPlan, Refused}, w.stage = "Approved"
                   PROVE  ApprovedIn(m, n + 1, w)
          BY DEF Justified
      <3>1. PICK a \in 0 .. n - 1 : /\ l[a + 1].kind = "Approve"
                                    /\ l[a + 1].plan_id = w.plan_id
                                    /\ l[a + 1].id = w.active_revision
          BY <1>5 DEF Shown, Justified, ApprovedIn, n
      <3>2. a \in 0 .. (n + 1) - 1
          BY <1>0
      <3> QED BY <1>2, <3>1, <3>2 DEF ApprovedIn
    <2> QED BY <1>1, <2>1, <2>2 DEF Shown
  <1> QED BY <1>1, <1>4, <1>5 DEF m, n

\* An event that is recorded and reduced (persist, FinishCouncil): whatever it does,
\* the document of a workflow and the link of its review stay what they were.
LEMMA Recorded ==
  ASSUME NEW l, Record(l), Len(l) < MaxEvents, NEW w, Shown(l, w), NEW e \in Event,
         NEW r, r = apply_plan_event(w, e, Len(l)),
         e.kind = "HandedOff" => aboutPlan(e) /\ r # Refused,
         NEW v, v = IF r = Refused THEN w ELSE r
  PROVE  /\ Record(Append(l, e)) /\ Len(Append(l, e)) = Len(l) + 1
         /\ Shown(Append(l, e), v)
         /\ w # NoPlan => v # NoPlan
         /\ w # NoPlan /\ w.prd # None => v.prd = w.prd /\ v.plan_id = w.plan_id
         /\ w # NoPlan /\ w.council_link # None => v.council_link = w.council_link
  <1> DEFINE n == Len(l)
  <1>0. n \in Nat /\ n <= MaxEvents /\ l \in Seq(Event) /\ w \in States(n)
      BY PlanAssumption DEF Record, Shown, States
  <1>1. Explained(l, e)
    <2> SUFFICES ASSUME e.kind = "HandedOff" PROVE Explained(l, e)
        BY DEF Explained
    <2>1. /\ aboutPlan(e) /\ r # Refused
        OBVIOUS
    <2>2. w # NoPlan /\ accepts(w, e) /\ e.plan_id = w.plan_id /\ w \in Flow(n)
        BY <1>0, <2>1, ApplyEvent
    <2>3. w.stage = "Approved" /\ e.id = w.active_revision
        BY <2>2 DEF accepts, canHandOff, Verdict
    <2>4. ApprovedIn(l, n, w)
        BY <2>2, <2>3, FlowFacts DEF Shown, Justified
    <2> QED BY <2>2, <2>3, <2>4 DEF ApprovedIn, Explained
  <1>2. /\ Record(Append(l, e)) /\ Len(Append(l, e)) = n + 1
        /\ \A x : Shown(l, x) => Shown(Append(l, e), x)
      BY <1>1, Appended
  <1>3. CASE v = w
      BY <1>2, <1>3
  <1>4. CASE v # w
    <2>1. r # Refused /\ v = r /\ aboutPlan(e)
        BY <1>0, <1>4, ApplyEvent
    <2>2. /\ r \in Flow(n + 1)
          /\ w # NoPlan => r.plan_id = w.plan_id /\ (w.prd # None => r.prd = w.prd)
          /\ w # NoPlan /\ w.council_link # None => e.kind # "Council"
          /\ e.kind # "Council" /\ w # NoPlan => r.council_link = w.council_link
        BY <1>0, <2>1, ApplyEvent
    <2>3. r # NoPlan
        BY <2>2, FlowFacts
    <2>4. Shown(Append(l, e), r)
      <3> DEFINE m == Append(l, e)
      <3>1. /\ m[n + 1] = e
            /\ \A i \in 1 .. n : m[i] = l[i]
          BY <1>0, AppendProperties
      <3>2. \A a \in 0 .. n - 1 : a \in 0 .. (n + 1) - 1 /\ m[a + 1] = l[a + 1]
          BY <1>0, <3>1
      <3> HIDE DEF m, n
      <3>3. ASSUME r.stage = "Approved" PROVE ApprovedIn(m, n + 1, r)
        <4>1. \/ /\ w # NoPlan /\ w.stage = "Approved" /\ w \in Flow(n)
                 /\ r.active_revision = w.active_revision /\ r.plan_id = w.plan_id
              \/ /\ e.kind = "Approve" /\ e.plan_id = r.plan_id
                 /\ e.id = r.active_revision
            BY <1>0, <2>1, <3>3, ApplyEvent DEF n
        <4>2. CASE /\ w # NoPlan /\ w.stage = "Approved" /\ w \in Flow(n)
                   /\ r.active_revision = w.active_revision /\ r.plan_id = w.plan_id
          <5>1. ApprovedIn(l, n, w)
              BY <4>2, FlowFacts DEF Shown, Justified, n
          <5>2. PICK a \in 0 .. n - 1 : /\ l[a + 1].kind = "Approve"
                                        /\ l[a + 1].plan_id = w.plan_id
                                        /\ l[a + 1].id = w.active_revision
              BY <5>1 DEF ApprovedIn
          <5> QED BY <3>2, <4>2, <5>2 DEF ApprovedIn
        <4>3. CASE /\ e.kind = "Approve" /\ e.plan_id = r.plan_id
                   /\ e.id = r.active_revision
          <5>1. n \in 0 .. (n + 1) - 1
              BY <1>0
          <5> QED BY <3>1, <4>3, <5>1 DEF ApprovedIn
        <4> QED BY <4>1, <4>2, <4>3
      <3>4. Len(m) = n + 1
          BY <1>2 DEF m
      <3> QED BY <2>2, <3>3, <3>4 DEF Shown, Justified, m
    <2> QED BY <1>2, <2>1, <2>2, <2>3, <2>4
  <1> QED BY <1>3, <1>4

LEMMA EventTyped ==
  ASSUME NEW kind \in PlanKind \union {"Created"}, NEW plan_id \in Identity, NEW id \in Identity
  PROVE  /\ event(kind, plan_id, id) \in Event
         /\ event(kind, plan_id, id).kind = kind
         /\ event(kind, plan_id, id).plan_id = plan_id
         /\ event(kind, plan_id, id).id = id
         /\ event(kind, plan_id, id).parent = None
  <1>1. None \in Identity /\ (branch_parent = None) \in BOOLEAN
      BY PlanAssumption DEF None, Identity
  <1> HIDE DEF PlanKind
  <1> QED BY <1>1 DEF event, Event, Identity

LEMMA MessageTyped ==
  ASSUME NEW parent \in Identity
  PROVE  /\ message(parent) \in Event /\ message(parent).kind = "Message"
         /\ \A l : Explained(l, message(parent))
  <1>1. None \in Identity
      BY PlanAssumption DEF None, Identity
  <1> HIDE DEF PlanKind
  <1> QED BY <1>1 DEF message, Event, Identity, Explained

\* A run that starts, or does not (start_run_with_plan): at most a message is added.
LEMMA StartsRun ==
  ASSUME NEW r, NEW l, Record(l), Len(log) <= Len(l), log \in Seq(Event),
         leaf \in Sequences \union {None}, branch_parent \in Sequences \union {None},
         Len(l) + (IF branch_parent = None THEN 0 ELSE 1) <= MaxEvents,
         start_run_with_plan(r, l)
  PROVE  /\ Record(log') /\ Len(l) <= Len(log')
         /\ leaf' \in Sequences' \union {None} /\ branch_parent' \in Sequences' \union {None}
         /\ \A w : Shown(l, w) => Shown(log', w)
         /\ run' \in {run, r} /\ (run # NoRun => run' = run)
         /\ branch_parent = None => log' = l /\ leaf' = leaf /\ branch_parent' = None
  <1>0. Len(l) \in Nat /\ Len(log) \in Nat /\ MaxEvents \in Nat /\ None = -1
        /\ Len(l) \in 1 .. MaxEvents
      BY PlanAssumption DEF Record, None
  <1>1. CASE /\ log' = l /\ leaf' = leaf /\ branch_parent' \in {branch_parent, None}
             /\ run' \in {run, r} /\ (run # NoRun => run' = run)
      BY <1>0, <1>1 DEF Sequences
  <1>2. CASE /\ run = NoRun /\ run' \in {run, r} /\ branch_parent # None
             /\ log' = Append(l, message(branch_parent))
             /\ leaf' = Len(l) /\ branch_parent' = None
    <2>1. branch_parent \in Identity
        BY <1>0, <1>2 DEF Sequences, Identity
    <2>2. /\ Record(log') /\ Len(log') = Len(l) + 1
          /\ \A w : Shown(l, w) => Shown(log', w)
        BY <1>0, <1>2, <2>1, MessageTyped, Appended
    <2> QED BY <1>0, <1>2, <2>2 DEF Sequences
  <1> QED BY <1>1, <1>2 DEF start_run_with_plan
-------------------------------------------------------------------------------
(* The invariant of every step.  A synthesis and a council carry the document    *)
(* they were started for, and a session that is closed runs nothing.              *)

RunTyped(r) ==
  /\ r.kind \in {"none", "chat", "interview", "synthesis"}
  /\ r.kind \in {"interview", "synthesis"} => r.plan_id \in Identity \ {None}
  /\ r.kind = "synthesis" => r.prd \in Identity \ {None}

CouncilTyped(c, n) ==
  /\ c \in [plan_id : Identity, prd : 0 .. n - 1 \union {None},
           calls : Nat, spent : Nat, sections : Nat]
  /\ c.prd = None <=> c.plan_id = None

Reviewed(r, w) ==
  r.kind = "synthesis" =>
    /\ w # NoPlan /\ w.plan_id = r.plan_id /\ w.prd = r.prd /\ w.council_link = r.prd

PlanInv ==
  /\ Record(log) /\ Shown(log, plan)
  /\ leaf \in Sequences \union {None} /\ branch_parent \in Sequences \union {None}
  /\ RunTyped(run) /\ Reviewed(run, plan)
  /\ \A c \in councils : CouncilTyped(c, Len(log))
  /\ open \in BOOLEAN /\ moves \in 0 .. MaxMoves
  /\ ~open => run = NoRun /\ plan = NoPlan /\ branch_parent = None

LEMMA CouncilLasts ==
  ASSUME NEW c, NEW n \in Nat, NEW k \in Nat, n <= k, CouncilTyped(c, n)
  PROVE  CouncilTyped(c, k)
  BY DEF CouncilTyped

LEMMA PlanInvInit == Init => PlanInv
  <1> SUFFICES ASSUME Init PROVE PlanInv
      OBVIOUS
  <1> DEFINE e == event("Created", None, None)
  <1>0. /\ None = -1 /\ None \in Identity /\ MaxEvents \in Nat \ {0} /\ MaxMoves \in Nat
      BY PlanAssumption DEF None, Identity
  <1>1. e \in Event /\ e.kind = "Created"
      BY <1>0, EventTyped
  <1> HIDE DEF e
  <1>2. log = <<e>> /\ Len(log) = 1 /\ log \in Seq(Event) /\ log[1] = e
      BY <1>1 DEF Init, e
  <1>3. Handoffs(log)
    <2> SUFFICES ASSUME NEW s \in 0 .. Len(log) - 1 PROVE log[s + 1].kind # "HandedOff"
        BY DEF Handoffs
    <2>1. s = 0
        BY <1>2
    <2> QED BY <1>1, <1>2, <2>1
  <1>4. Record(log)
      BY <1>0, <1>2, <1>3 DEF Record
  <1>5. Shown(log, plan)
      BY DEF Init, Shown, Justified
  <1>6. RunTyped(run) /\ Reviewed(run, plan)
      BY DEF Init, NoRun, RunTyped, Reviewed
  <1> QED BY <1>0, <1>4, <1>5, <1>6 DEF Init, PlanInv

\* A document and its review stay what they were under what Recorded leaves.
LEMMA ReviewedLasts ==
  ASSUME NEW r, RunTyped(r), NEW w, NEW v, Reviewed(r, w),
         w # NoPlan => v # NoPlan,
         w # NoPlan /\ w.prd # None => v.prd = w.prd /\ v.plan_id = w.plan_id,
         w # NoPlan /\ w.council_link # None => v.council_link = w.council_link
  PROVE  Reviewed(r, v)
  BY DEF RunTyped, Reviewed

LEMMA PlanInvNext == PlanInv /\ [Next]_vars => PlanInv'
  <1> SUFFICES ASSUME PlanInv, [Next]_vars PROVE PlanInv'
      OBVIOUS
  <1>0. /\ None = -1 /\ None \in Identity /\ MaxEvents \in Nat \ {0} /\ MaxMoves \in Nat
        /\ Len(log) \in 1 .. MaxEvents /\ log \in Seq(Event) /\ Len(log) \in Nat
        /\ Record(log) /\ Shown(log, plan) /\ Len(log) \in Identity \ {None}
      BY PlanAssumption DEF PlanInv, Record, None, Identity
  <1>1. /\ RunTyped(NoRun) /\ \A w : Reviewed(NoRun, w)
        /\ RunTyped(Run("chat", None, None)) /\ Run("chat", None, None).kind = "chat"
        /\ Shown(log, NoPlan)
      BY DEF NoRun, Run, RunTyped, Reviewed, Shown, Justified
  <1>2. ASSUME NEW p \in Identity \ {None}
        PROVE  /\ RunTyped(Run("interview", p, None)) /\ Run("interview", p, None).kind = "interview"
               /\ \A w : Reviewed(Run("interview", p, None), w)
      BY DEF RunTyped, Run, Reviewed
  \* What an event that is recorded and reduced leaves.
  <1>3. ASSUME NEW e \in Event, Len(log) < MaxEvents, plan' = reduced(e, log),
               e.kind = "HandedOff" => aboutPlan(e) /\ validate_event(e)
        PROVE  /\ Record(Append(log, e)) /\ Len(Append(log, e)) = Len(log) + 1
               /\ Shown(Append(log, e), plan')
               /\ Reviewed(run, plan')
    <2>1. PICK r : r = apply_plan_event(plan, e, Len(log))
        OBVIOUS
    <2>2. plan' = IF r = Refused THEN plan ELSE r
        BY <1>3, <2>1 DEF reduced
    <2>3. e.kind = "HandedOff" => aboutPlan(e) /\ r # Refused
        BY <1>3, <2>1 DEF validate_event
    <2>4. /\ Record(Append(log, e)) /\ Len(Append(log, e)) = Len(log) + 1
          /\ Shown(Append(log, e), plan')
          /\ plan # NoPlan => plan' # NoPlan
          /\ plan # NoPlan /\ plan.prd # None =>
               plan'.prd = plan.prd /\ plan'.plan_id = plan.plan_id
          /\ plan # NoPlan /\ plan.council_link # None =>
               plan'.council_link = plan.council_link
        BY <1>0, <1>3, <2>1, <2>2, <2>3, Recorded
    <2> QED BY <2>4, ReviewedLasts DEF PlanInv
  <1>a. ASSUME StartInterview PROVE PlanInv'
    <2> DEFINE e == event("Started", Len(log), None)
               r == Run("interview", e.plan_id, None)
               l == Append(log, e)
    <2>1. /\ e \in Event /\ e.kind = "Started" /\ e.plan_id = Len(log)
        BY <1>0, EventTyped DEF PlanKind
    <2>2. /\ open /\ run = NoRun /\ roomForRun /\ validate_event(e)
          /\ plan' = reduced(e, log) /\ start_run_with_plan(r, l)
          /\ UNCHANGED <<councils, open, moves>>
        BY <1>a DEF StartInterview
    <2>3. RunTyped(r) /\ \A w : Reviewed(r, w)
        BY <1>0, <1>2, <2>1
    <2> HIDE DEF e, r
    <2>4. Len(log) < MaxEvents
        BY <1>0, <2>2 DEF roomForRun
    <2>5. Record(l) /\ Len(l) = Len(log) + 1 /\ Shown(l, plan') /\ Reviewed(run, plan')
        BY <1>3, <2>1, <2>2, <2>4
    <2> HIDE DEF l
    <2>6. Len(l) + (IF branch_parent = None THEN 0 ELSE 1) <= MaxEvents
        BY <1>0, <2>2, <2>5 DEF roomForRun
    <2>7. /\ Record(log') /\ Len(l) <= Len(log')
          /\ leaf' \in Sequences' \union {None} /\ branch_parent' \in Sequences' \union {None}
          /\ Shown(log', plan') /\ run' \in {run, r}
        BY <1>0, <2>2, <2>5, <2>6, StartsRun DEF PlanInv
    <2>8. \A c \in councils' : CouncilTyped(c, Len(log'))
        BY <1>0, <2>2, <2>5, <2>7, CouncilLasts DEF PlanInv, Record
    <2> QED BY <2>2, <2>3, <2>5, <2>7, <2>8 DEF PlanInv
  <1>b. ASSUME NEW e \in commands, PlanCommand(e) PROVE PlanInv'
    <2> DEFINE r == Run("interview", plan.plan_id, None)
               l == Append(log, e)
    <2>1. e \in Event /\ e.kind # "Council" /\ aboutPlan(e)
      <3> DEFINE id == IF plan = NoPlan THEN Len(log) ELSE plan.plan_id
      <3>1. id \in Identity \ {None}
          BY <1>0 DEF Shown, Flow, Identity
      <3> HIDE DEF id
      <3>2. PICK kind \in PlanKind \ {"Council"}, n \in Identity : e = event(kind, id, n)
        <4>1. 1 .. MaxEvents \subseteq Identity /\ Sequences \subseteq Identity
            BY <1>0 DEF Identity, Sequences
        <4> QED BY <1>0, <4>1 DEF commands, PlanKind, Verdict, id
      <3>3. /\ e \in Event /\ e.kind = kind /\ e.plan_id = id
        <4> HIDE DEF PlanKind
        <4> QED BY <3>1, <3>2, EventTyped
      <3> QED BY <3>1, <3>2, <3>3 DEF aboutPlan
    <2>2. /\ open /\ room /\ validate_event(e) /\ plan' = reduced(e, log)
          /\ UNCHANGED <<councils, open, moves>>
          /\ IF goesOn(e)
               THEN roomForRun /\ start_run_with_plan(r, l)
               ELSE log' = l /\ UNCHANGED <<run, leaf, branch_parent>>
        BY <1>b DEF PlanCommand
    <2>3. Record(l) /\ Len(l) = Len(log) + 1 /\ Shown(l, plan') /\ Reviewed(run, plan')
        BY <1>3, <2>1, <2>2 DEF room
    <2>4. CASE goesOn(e)
      <3>1. plan.plan_id \in Identity \ {None}
          BY <1>0, <2>4 DEF goesOn, Shown, Flow, Identity
      <3>2. RunTyped(r) /\ \A w : Reviewed(r, w)
          BY <1>2, <3>1
      <3> HIDE DEF r, l
      <3>3. Len(l) + (IF branch_parent = None THEN 0 ELSE 1) <= MaxEvents
          BY <1>0, <2>2, <2>3, <2>4 DEF roomForRun
      <3>4. /\ Record(log') /\ Len(l) <= Len(log')
            /\ leaf' \in Sequences' \union {None} /\ branch_parent' \in Sequences' \union {None}
            /\ Shown(log', plan') /\ run' \in {run, r}
          BY <1>0, <2>2, <2>3, <2>4, <3>3, StartsRun DEF PlanInv
      <3>5. \A c \in councils' : CouncilTyped(c, Len(log'))
          BY <1>0, <2>2, <2>3, <3>4, CouncilLasts DEF PlanInv, Record
      <3> QED BY <2>2, <2>3, <3>2, <3>4, <3>5 DEF PlanInv
    <2>5. CASE ~goesOn(e)
      <3> HIDE DEF l
      <3>1. \A c \in councils' : CouncilTyped(c, Len(log'))
          BY <1>0, <2>2, <2>3, <2>5, CouncilLasts DEF PlanInv
      <3>2. leaf' \in Sequences' \union {None} /\ branch_parent' \in Sequences' \union {None}
          BY <1>0, <2>2, <2>3, <2>5 DEF PlanInv, Sequences
      <3> QED BY <2>2, <2>3, <2>5, <3>1, <3>2 DEF PlanInv
    <2> QED BY <2>4, <2>5
  <1>c. ASSUME Chat PROVE PlanInv'
    <2> DEFINE r == Run("chat", None, None)
    <2>1. /\ open /\ run = NoRun /\ (branch_parent # None => room)
          /\ start_run_with_plan(r, log)
          /\ UNCHANGED <<plan, councils, open, moves>>
        BY <1>c DEF Chat
    <2>2. RunTyped(r) /\ \A w : Reviewed(r, w)
        BY <1>1 DEF Reviewed
    <2> HIDE DEF r
    <2>3. Len(log) + (IF branch_parent = None THEN 0 ELSE 1) <= MaxEvents
        BY <1>0, <2>1 DEF room
    <2>4. /\ Record(log') /\ Len(log) <= Len(log')
          /\ leaf' \in Sequences' \union {None} /\ branch_parent' \in Sequences' \union {None}
          /\ Shown(log', plan') /\ run' \in {run, r}
        BY <1>0, <2>1, <2>3, StartsRun DEF PlanInv
    <2>5. \A c \in councils' : CouncilTyped(c, Len(log'))
        BY <1>0, <2>1, <2>4, CouncilLasts DEF PlanInv, Record
    <2> QED BY <1>1, <2>1, <2>2, <2>4, <2>5 DEF PlanInv
  <1>d. ASSUME RunEnds PROVE PlanInv'
      BY <1>1, <1>d DEF RunEnds, PlanInv, store, Sequences
  \* An event that validate_event lets in, while the run ends.
  <1>4. ASSUME NEW e \in Event, room, record_plan_event(e), run' = NoRun,
               e.kind = "HandedOff" => aboutPlan(e), UNCHANGED <<open, moves>>, open,
               \A c \in councils' : c \in councils \/ CouncilTyped(c, Len(log) + 1)
        PROVE  PlanInv'
    <2>1. /\ validate_event(e) /\ log' = Append(log, e) /\ plan' = reduced(e, log)
          /\ UNCHANGED <<leaf, branch_parent>>
        BY <1>4 DEF record_plan_event, persist
    <2>2. Record(log') /\ Len(log') = Len(log) + 1 /\ Shown(log', plan')
        BY <1>3, <1>4, <2>1 DEF room
    <2>3. \A c \in councils' : CouncilTyped(c, Len(log'))
        BY <1>0, <1>4, <2>2, CouncilLasts DEF PlanInv
    <2>4. leaf' \in Sequences' \union {None} /\ branch_parent' \in Sequences' \union {None}
        BY <1>0, <2>1, <2>2 DEF PlanInv, Sequences
    <2> QED BY <1>1, <1>4, <2>2, <2>3, <2>4 DEF PlanInv
  \* A run that is not NoRun says that the session is open.
  <1>5. run.kind # "none" => open /\ run # NoRun
      BY DEF PlanInv, NoRun
  <1>e. ASSUME QuestionAsked PROVE PlanInv'
    <2> DEFINE e == event("Asked", run.plan_id, None)
    <2>1. e \in Event /\ e.kind = "Asked"
      <3>1. PICK p \in Identity : p = run.plan_id
          BY <1>e DEF QuestionAsked, PlanInv, RunTyped
      <3>2. event("Asked", p, None) \in Event /\ event("Asked", p, None).kind = "Asked"
          BY <1>0, EventTyped DEF PlanKind
      <3> QED BY <3>1, <3>2
    <2> HIDE DEF e
    <2>2. room /\ record_plan_event(e) /\ run' = NoRun /\ UNCHANGED <<councils, open, moves>>
          /\ open
        BY <1>5, <1>e DEF QuestionAsked, e
    <2> QED BY <1>4, <2>1, <2>2
  <1>f. ASSUME PrdProposed PROVE PlanInv'
    <2> DEFINE e == event("Prd", run.plan_id, None)
    <2>1. e \in Event /\ e.kind = "Prd" /\ run.plan_id \in Identity \ {None}
      <3>1. PICK p \in Identity \ {None} : p = run.plan_id
          BY <1>f DEF PrdProposed, PlanInv, RunTyped
      <3>2. event("Prd", p, None) \in Event /\ event("Prd", p, None).kind = "Prd"
          BY <1>0, EventTyped DEF PlanKind
      <3> QED BY <3>1, <3>2
    <2> HIDE DEF e
    <2>2. room /\ record_plan_event(e) /\ run' = NoRun /\ UNCHANGED <<open, moves>> /\ open
        BY <1>5, <1>f DEF PrdProposed, e
    <2>3. PICK sections \in 1 .. Sections : start_council(run.plan_id, Len(log), sections)
        BY <1>f DEF PrdProposed
    <2>4. ASSUME NEW c \in councils', c \notin councils PROVE CouncilTyped(c, Len(log) + 1)
      <3>1. c = [plan_id |-> run.plan_id, prd |-> Len(log), calls |-> 0, spent |-> 0,
                 sections |-> sections]
          BY <2>3, <2>4 DEF start_council
      <3> QED BY <1>0, <2>1, <3>1 DEF CouncilTyped
    <2> QED BY <1>4, <2>1, <2>2, <2>4
  <1>g. ASSUME PlanProposed PROVE PlanInv'
    <2> DEFINE e == event("Proposed", run.plan_id, plan.active_revision + 1)
    <2>1. plan # NoPlan /\ run.plan_id \in Identity /\ room
        BY <1>g DEF PlanProposed, PlanInv, RunTyped, Reviewed
    <2>2. plan.active_revision \in 0 .. Len(log)
        BY <1>0, <2>1 DEF Shown, Flow
    <2>3. plan.active_revision + 1 \in Identity
        BY <1>0, <2>1, <2>2 DEF Identity, room
    <2>4. e \in Event /\ e.kind = "Proposed"
        BY <2>1, <2>3, EventTyped DEF PlanKind
    <2> HIDE DEF e
    <2>5. room /\ record_plan_event(e) /\ run' = NoRun /\ UNCHANGED <<councils, open, moves>>
          /\ open
        BY <1>5, <1>g DEF PlanProposed, e
    <2> QED BY <1>4, <2>4, <2>5
  <1>h. ASSUME Convene PROVE PlanInv'
    <2>1. ASSUME NEW c \in councils' PROVE CouncilTyped(c, Len(log))
      <3>1. \/ c \in councils
            \/ c = [plan_id |-> None, prd |-> None, calls |-> 0, spent |-> 0, sections |-> 0]
          BY <1>h DEF Convene, start_council
      <3> QED BY <1>0, <3>1 DEF CouncilTyped, PlanInv
    <2> QED BY <1>h, <2>1 DEF Convene, PlanInv, store, Sequences
  <1>i. ASSUME NEW c \in councils, MembersRound(c) PROVE PlanInv'
    <2>1. ASSUME NEW d \in councils' PROVE CouncilTyped(d, Len(log))
      <3>1. PICK n \in 0 .. Members * max_provider_turns :
              d \in councils \/ d = [c EXCEPT !.calls = @ + Members, !.spent = @ + n]
          BY <1>i DEF MembersRound
      <3>2. CouncilTyped(c, Len(log)) /\ Members \in Nat /\ n \in Nat
          BY PlanAssumption DEF PlanInv
      <3>3. c.calls + Members \in Nat /\ c.spent + n \in Nat
          BY <3>2 DEF CouncilTyped
      <3> QED BY <3>1, <3>2, <3>3 DEF CouncilTyped, PlanInv
    <2> QED BY <1>i, <2>1 DEF MembersRound, PlanInv, store, Sequences
  <1>j. ASSUME NEW c \in councils, FinishCouncil(c) PROVE PlanInv'
    <2> DEFINE e == event("Council", c.plan_id, c.prd)
               r == Run("synthesis", c.plan_id, c.prd)
               l == Append(log, e)
    <2>1. /\ e \in Event /\ e.kind = "Council" /\ e.plan_id = c.plan_id /\ e.id = c.prd
          /\ CouncilTyped(c, Len(log))
      <3>1. CouncilTyped(c, Len(log))
          BY DEF PlanInv
      <3>2. PICK p \in Identity : p = c.plan_id
          BY <3>1 DEF CouncilTyped
      <3>3. PICK d \in Identity : d = c.prd
          BY <1>0, <3>1 DEF CouncilTyped, Identity
      <3>4. /\ event("Council", p, d) \in Event /\ event("Council", p, d).kind = "Council"
            /\ event("Council", p, d).plan_id = p /\ event("Council", p, d).id = d
          BY EventTyped DEF PlanKind
      <3> QED BY <3>1, <3>2, <3>3, <3>4
    <2>2. councils' = councils \ {c} /\ UNCHANGED <<open, moves>>
        BY <1>j DEF FinishCouncil
    <2>3. CASE UNCHANGED <<store, plan, run>>
        BY <2>2, <2>3 DEF PlanInv, store, Sequences
    <2>4. CASE ~UNCHANGED <<store, plan, run>>
      <3>1. /\ open /\ roomForRun /\ plan' = reduced(e, log)
            /\ IF synthesizes(c, apply_plan_event(plan, e, Len(log)) = Refused)
                 THEN start_run_with_plan(r, l)
                 ELSE log' = l /\ UNCHANGED <<run, leaf, branch_parent>>
          BY <1>j, <2>4 DEF FinishCouncil, heard
      <3>2. Len(log) < MaxEvents
          BY <1>0, <3>1 DEF roomForRun
      <3> DEFINE synth == synthesizes(c, apply_plan_event(plan, e, Len(log)) = Refused)
      <3>3. synth => RunTyped(r) /\ Reviewed(r, plan')
        <4> SUFFICES ASSUME synth PROVE RunTyped(r) /\ Reviewed(r, plan')
            OBVIOUS
        <4> HIDE DEF e
        <4>1. PICK v : v = apply_plan_event(plan, e, Len(log))
            OBVIOUS
        <4>2. c.prd # None /\ v # Refused /\ plan' = v
            BY <3>1, <4>1 DEF synthesizes, reduced
        <4>3. c.plan_id # None /\ c.plan_id \in Identity /\ c.prd \in Identity
            BY <1>0, <2>1, <4>2 DEF CouncilTyped, Identity
        <4>4. aboutPlan(e)
            BY <2>1, <4>3 DEF aboutPlan, PlanKind
        <4>5. plan \in States(Len(log)) /\ Len(log) <= MaxEvents
            BY <1>0 DEF Shown, States
        <4>6. /\ v \in Flow(Len(log) + 1) /\ plan # NoPlan /\ v.plan_id = plan.plan_id
              /\ e.plan_id = plan.plan_id /\ e.id = plan.prd
              /\ v.prd = plan.prd /\ v.council_link = e.id
            BY <1>0, <2>1, <4>1, <4>2, <4>4, <4>5, ApplyEvent
        <4>7. v # NoPlan
            BY <4>6, FlowFacts
        <4>8. r.kind = "synthesis" /\ r.plan_id = c.plan_id /\ r.prd = c.prd
            BY DEF Run
        <4> HIDE DEF r
        <4> QED BY <2>1, <4>2, <4>3, <4>6, <4>7, <4>8 DEF RunTyped, Reviewed
      <3> HIDE DEF e, r
      <3>4. Record(l) /\ Len(l) = Len(log) + 1 /\ Shown(l, plan') /\ Reviewed(run, plan')
          BY <1>3, <2>1, <3>1, <3>2
      <3> HIDE DEF l
      <3>5. CASE synth
        <4>1. Len(l) + (IF branch_parent = None THEN 0 ELSE 1) <= MaxEvents
            BY <1>0, <3>1, <3>4 DEF roomForRun
        <4>2. start_run_with_plan(r, l)
            BY <3>1, <3>5
        <4>3. /\ Record(log') /\ Len(l) <= Len(log')
              /\ leaf' \in Sequences' \union {None} /\ branch_parent' \in Sequences' \union {None}
              /\ Shown(log', plan') /\ run' \in {run, r}
            BY <1>0, <3>4, <4>1, <4>2, StartsRun DEF PlanInv
        <4>4. \A d \in councils' : CouncilTyped(d, Len(log'))
            BY <1>0, <2>2, <3>4, <4>3, CouncilLasts DEF PlanInv, Record
        <4> HIDE DEF synth
        <4> QED BY <2>2, <3>1, <3>3, <3>4, <3>5, <4>3, <4>4 DEF PlanInv
      <3>6. CASE ~synth
        <4>1. log' = l /\ UNCHANGED <<run, leaf, branch_parent>>
            BY <3>1, <3>6
        <4>2. \A d \in councils' : CouncilTyped(d, Len(log'))
            BY <1>0, <2>2, <3>4, <4>1, CouncilLasts DEF PlanInv
        <4>3. leaf' \in Sequences' \union {None} /\ branch_parent' \in Sequences' \union {None}
            BY <1>0, <3>4, <4>1 DEF PlanInv, Sequences
        <4> HIDE DEF synth
        <4> QED BY <2>2, <3>1, <3>4, <4>1, <4>2, <4>3 DEF PlanInv
      <3> QED BY <3>5, <3>6
    <2> QED BY <1>j, <2>3, <2>4 DEF FinishCouncil
  <1>k. ASSUME NEW s \in Sequences, NEW p \in Sequences \union {None}, MoveLeaf(s, p)
        PROVE  PlanInv'
    <2>1. replay(log, s) \in States(Len(log)) /\ Justified(log, Len(log), replay(log, s))
        BY <1>0, ReplaySound
    <2>2. Shown(log, plan') /\ branch_parent' \in Sequences \union {None}
        BY <1>k, <2>1 DEF MoveLeaf, Shown, States, PlanInv
    <2>3. /\ open /\ run = NoRun /\ leaf' = s /\ UNCHANGED <<log, run, councils, open>>
          /\ moves' \in 0 .. MaxMoves
        BY <1>0, <1>k DEF MoveLeaf, PlanInv
    <2> QED BY <1>1, <2>2, <2>3 DEF PlanInv, Sequences
  <1>l. ASSUME Close PROVE PlanInv'
    <2>1. councils' \subseteq councils
        BY <1>l DEF Close
    <2> QED BY <1>0, <1>1, <1>l, <2>1 DEF Close, PlanInv, Sequences
  <1>m. ASSUME Resume PROVE PlanInv'
    <2>1. replay(log, leaf) \in States(Len(log))
          /\ Justified(log, Len(log), replay(log, leaf))
        BY <1>0, ReplaySound
    <2>2. Shown(log, plan') /\ run = NoRun
        BY <1>m, <2>1 DEF Resume, Shown, States, PlanInv
    <2> QED BY <1>1, <1>m, <2>2 DEF Resume, PlanInv, store, Sequences
  <1>n. CASE UNCHANGED vars
      BY <1>n DEF vars, store, PlanInv, Sequences
  <1> QED
    <2>1. CASE \E s \in Sequences : (talks(s) \/ opens(s + 1)) /\ MoveLeaf(s, s)
        BY <1>k, <2>1
    <2>2. CASE \E s \in Sequences : talks(s) /\ MoveLeaf(s, None)
        BY <1>k, <2>2
    <2> QED BY <1>a, <1>b, <1>c, <1>d, <1>e, <1>f, <1>g, <1>h, <1>i, <1>j, <1>l, <1>m,
               <1>n, <2>1, <2>2 DEF Next

THEOREM PlanIsKept == Spec => []PlanInv
  BY PlanInvInit, PlanInvNext, PTL DEF Spec
-------------------------------------------------------------------------------
(* The first line of a session, before any rewind: the workflow a client sees    *)
(* and the councils under way agree with the fold of everything recorded.         *)

OnLine(w, C) ==
  /\ w # Refused
  /\ w # NoPlan /\ w.prd = None => w.council_link = None
  /\ w # NoPlan /\ w.prd # None => w.interview_goal
  /\ \A c \in C : c.plan_id # None =>
       w # NoPlan /\ w.plan_id = c.plan_id /\ w.prd = c.prd /\ w.council_link = None
  /\ \A c, d \in C : c.plan_id # None /\ d.plan_id # None => c = d

LineInv ==
  moves = 0 =>
    /\ leaf = None /\ branch_parent = None /\ Straight(log)
    /\ OnLine(replay(log, None), councils)
    /\ open => plan = replay(log, None)

LEMMA FewerOnLine ==
  ASSUME NEW w, NEW C, NEW D, D \subseteq C, OnLine(w, C)
  PROVE  OnLine(w, D)
  BY DEF OnLine

\* An event that is neither a document nor a review leaves both alone.
LEMMA EventOnLine ==
  ASSUME NEW n \in Nat, n <= MaxEvents, NEW w \in States(n), NEW C, OnLine(w, C),
         \A c \in C : c.plan_id # None => c.prd # None,
         NEW e \in Event, e.kind \notin {"Prd", "Council"},
         NEW r, r = apply_plan_event(w, e, n), r # Refused
  PROVE  OnLine(r, C)
  <1>1. CASE ~aboutPlan(e)
    <2>1. r = w
        BY <1>1, ApplyEvent
    <2> QED BY <2>1
  <1>2. CASE aboutPlan(e) /\ w = NoPlan
    <2>1. r.council_link = None /\ r.prd = None
        BY <1>2, ApplyEvent
    <2> QED BY <1>2, <2>1 DEF OnLine
  <1>3. CASE aboutPlan(e) /\ w # NoPlan
    <2>1. /\ r \in Flow(n + 1) /\ r.plan_id = w.plan_id /\ r.prd = w.prd
          /\ r.council_link = w.council_link /\ (w.interview_goal => r.interview_goal)
        BY <1>3, ApplyEvent
    <2>2. r # NoPlan
        BY <2>1, FlowFacts
    <2> QED BY <1>3, <2>1, <2>2 DEF OnLine
  <1> QED BY <1>1, <1>2, <1>3

\* A document, and the council that is convened over it or not.
LEMMA PrdOnLine ==
  ASSUME NEW n \in Nat, n <= MaxEvents, NEW w \in States(n), NEW C, OnLine(w, C),
         \A c \in C : c.plan_id # None => c.prd # None,
         NEW e \in Event, e.kind = "Prd", e.plan_id # None,
         NEW r, r = apply_plan_event(w, e, n), r # Refused,
         NEW D, \A c \in D : c \in C \/ (c.plan_id = e.plan_id /\ c.prd = n),
         \A c, d \in D : c \notin C /\ d \notin C => c = d
  PROVE  OnLine(r, D)
  <1>1. aboutPlan(e)
      BY DEF aboutPlan, PlanKind
  <1>2. /\ r \in Flow(n + 1) /\ r.prd = n /\ r.plan_id = e.plan_id
        /\ w # NoPlan => accepts(w, e)
        /\ w = NoPlan => e.kind \in {"Started", "Asked", "Proposed"}
        /\ w # NoPlan => r.council_link = w.council_link
        /\ w # NoPlan /\ w.interview_goal => r.interview_goal
      BY <1>1, ApplyEvent
  <1>3. w # NoPlan /\ w.prd = None /\ w.interview_goal
      BY <1>2 DEF accepts, Verdict
  <1>4. r.council_link = None /\ n # None
      BY <1>2, <1>3 DEF OnLine, None
  <1>5. \A c \in C : c.plan_id = None
      BY <1>3 DEF OnLine
  <1>6. r # NoPlan
      BY <1>2, FlowFacts
  <1> QED BY <1>2, <1>3, <1>4, <1>5, <1>6 DEF OnLine

\* The review of the one document that is deliberated is taken.
LEMMA CouncilOnLine ==
  ASSUME NEW n \in Nat, n <= MaxEvents, NEW w \in States(n), NEW C, OnLine(w, C),
         \A c \in C : c.plan_id # None <=> c.prd # None,
         NEW c \in C, NEW e \in Event, e.kind = "Council", e.plan_id = c.plan_id,
         e.id = c.prd, NEW r, r = apply_plan_event(w, e, n)
  PROVE  OnLine(r, C \ {c})
  <1>0. C \ {c} \subseteq C
      OBVIOUS
  <1>1. CASE c.plan_id = None
    <2>1. ~aboutPlan(e)
        BY <1>1 DEF aboutPlan
    <2>2. r = w
        BY <2>1, ApplyEvent
    <2> QED BY <1>0, <2>2, FewerOnLine
  <1>2. CASE c.plan_id # None
    <2>1. /\ w # NoPlan /\ w # Refused /\ w.plan_id = e.plan_id /\ w.prd = e.id
          /\ w.prd # None /\ w.council_link = None /\ w \in Flow(n)
        BY <1>2 DEF OnLine, States
    <2>2. accepts(w, e) /\ e.kind \in PlanKind /\ aboutPlan(e)
        BY <1>2, <2>1 DEF accepts, Verdict, PlanKind, aboutPlan
    <2>3. r = applied(w, e, n)
        BY <2>1, <2>2 DEF apply_plan_event
    <2>4. r \in Flow(n + 1) /\ r.prd = w.prd /\ r.interview_goal
        BY <2>1, <2>2, <2>3, Applies DEF OnLine
    <2>5. r # Refused
        BY <2>4, FlowFacts
    <2>6. \A d \in C \ {c} : d.plan_id = None
        BY <1>2 DEF OnLine
    <2> QED BY <2>1, <2>4, <2>5, <2>6 DEF OnLine
  <1> QED BY <1>1, <1>2

LEMMA LineInvInit == Init => LineInv
  <1> SUFFICES ASSUME Init PROVE LineInv
      OBVIOUS
  <1>1. PICK e : e = event("Created", None, None)
      OBVIOUS
  <1>2. None \in Identity
      BY PlanAssumption DEF None, Identity
  <1>3. e \in Event /\ e.kind = "Created" /\ e.parent = None
      BY <1>1, <1>2, EventTyped
  <1>4. ~aboutPlan(e)
      BY <1>3 DEF aboutPlan, PlanKind, Verdict
  <1>5. log = <<e>> /\ Straight(log) /\ replay(log, None) = NoPlan
      BY <1>1, <1>3, <1>4, ReplayCreated DEF Init
  <1> QED BY <1>5, FlowFacts DEF Init, LineInv, OnLine

LEMMA LineInvNext == PlanInv /\ LineInv /\ [Next]_vars => LineInv'
  <1> SUFFICES ASSUME PlanInv, LineInv, [Next]_vars, moves' = 0
               PROVE  /\ leaf' = None /\ branch_parent' = None /\ Straight(log')
                      /\ OnLine(replay(log', None), councils')
                      /\ open' => plan' = replay(log', None)
      BY DEF LineInv
  <1>0. /\ Record(log) /\ log \in Seq(Event) /\ Len(log) \in Nat \ {0} /\ Len(log) <= MaxEvents
        /\ moves \in Nat /\ MaxEvents \in Nat /\ None = -1 /\ None \in Identity
        /\ Len(log) \in Identity \ {None}
      BY PlanAssumption DEF PlanInv, Record, None, Identity
  <1>1. replay(log, None) \in States(Len(log))
      BY <1>0, ReplaySound DEF Record
  <1>2. \A c \in councils : /\ CouncilTyped(c, Len(log))
                            /\ c.plan_id # None <=> c.prd # None
      BY DEF PlanInv, CouncilTyped
  <1> DEFINE AtHome == /\ leaf = None /\ branch_parent = None /\ Straight(log)
                       /\ OnLine(replay(log, None), councils)
                       /\ open => plan = replay(log, None)
  \* An event that an open session records and that its workflow takes.
  <1>3. ASSUME AtHome, open, NEW e \in Event, e.parent = None, plan' = reduced(e, log),
               validate_event(e)
        PROVE  /\ Straight(Append(log, e))
               /\ plan' = apply_plan_event(replay(log, None), e, Len(log))
               /\ plan' # Refused
               /\ plan' = replay(Append(log, e), None)
    <2>1. plan' = apply_plan_event(plan, e, Len(log)) /\ plan' # Refused
        BY <1>3 DEF reduced, validate_event
    <2> QED BY <1>0, <1>3, <2>1, ReplayAppends
  <1>4. ASSUME AtHome, open, NEW e \in Event, e.parent = None, plan' = reduced(e, log),
               validate_event(e), e.kind \notin {"Prd", "Council"}
        PROVE  OnLine(plan', councils)
      BY <1>0, <1>1, <1>2, <1>3, <1>4, EventOnLine
  <1>a. ASSUME StartInterview PROVE LineInv'
    <2> DEFINE e == event("Started", Len(log), None)
               r == Run("interview", e.plan_id, None)
               l == Append(log, e)
    <2>1. /\ open /\ validate_event(e) /\ plan' = reduced(e, log) /\ start_run_with_plan(r, l)
          /\ UNCHANGED <<councils, open, moves>>
        BY <1>a DEF StartInterview
    <2>2. e \in Event /\ e.kind = "Started" /\ e.parent = None
        BY <1>0, EventTyped DEF PlanKind
    <2> HIDE DEF e, r
    <2>3. AtHome
        BY <2>1 DEF LineInv
    <2>4. /\ log' = l /\ leaf' = leaf /\ branch_parent' = None
        BY <2>1, <2>3 DEF start_run_with_plan
    <2> HIDE DEF AtHome
    <2>5. Straight(l) /\ plan' = replay(l, None) /\ OnLine(plan', councils)
        BY <1>3, <1>4, <2>1, <2>2, <2>3
    <2> QED BY <2>1, <2>3, <2>4, <2>5 DEF AtHome, LineInv
  <1>b. ASSUME NEW e \in commands, PlanCommand(e) PROVE LineInv'
    <2> DEFINE r == Run("interview", plan.plan_id, None)
               l == Append(log, e)
    <2>1. e \in Event /\ e.kind \notin {"Prd", "Council"} /\ e.parent = None
      <3> DEFINE id == IF plan = NoPlan THEN Len(log) ELSE plan.plan_id
      <3>1. id \in Identity \ {None}
          BY <1>0 DEF PlanInv, Shown, Flow, Identity
      <3> HIDE DEF id
      <3>2. PICK kind \in PlanKind \ {"Prd", "Council"}, n \in Identity : e = event(kind, id, n)
        <4>1. 1 .. MaxEvents \subseteq Identity /\ Sequences \subseteq Identity
            BY <1>0 DEF Identity, Sequences
        <4> QED BY <1>0, <4>1 DEF commands, PlanKind, Verdict, id
      <3> HIDE DEF PlanKind
      <3> QED BY <3>1, <3>2, EventTyped
    <2>2. /\ open /\ validate_event(e) /\ plan' = reduced(e, log)
          /\ UNCHANGED <<councils, open, moves>>
          /\ \/ start_run_with_plan(r, l)
             \/ log' = l /\ UNCHANGED <<leaf, branch_parent>>
        BY <1>b DEF PlanCommand
    <2> HIDE DEF r
    <2>3. AtHome
        BY <2>2 DEF LineInv
    <2>4. /\ log' = l /\ leaf' = leaf /\ branch_parent' = None
        BY <2>2, <2>3 DEF start_run_with_plan
    <2> HIDE DEF AtHome
    <2>5. Straight(l) /\ plan' = replay(l, None) /\ OnLine(plan', councils)
        BY <1>3, <1>4, <2>1, <2>2, <2>3
    <2> QED BY <2>2, <2>3, <2>4, <2>5 DEF AtHome, LineInv
  <1>c. ASSUME Chat PROVE LineInv'
    <2>1. AtHome
        BY <1>c DEF Chat, LineInv
    <2>2. log' = log /\ leaf' = leaf /\ branch_parent' = None
        BY <1>c, <2>1 DEF Chat, start_run_with_plan
    <2> QED BY <1>c, <2>1, <2>2 DEF Chat, LineInv
  <1>d. ASSUME UNCHANGED <<store, plan, open, moves>>, councils' = councils PROVE LineInv'
      BY <1>d DEF LineInv, store
  \* The run that brings an event says that the session is open.
  <1>5. run.kind # "none" => open
      BY DEF PlanInv, NoRun
  <1>e. ASSUME NEW e \in Event, e.parent = None, e.kind \notin {"Prd", "Council"}, open,
               record_plan_event(e), UNCHANGED <<councils, open, moves>>
        PROVE  LineInv'
    <2>1. /\ AtHome /\ validate_event(e) /\ plan' = reduced(e, log) /\ log' = Append(log, e)
          /\ UNCHANGED <<leaf, branch_parent>>
        BY <1>e DEF LineInv, record_plan_event, persist
    <2> HIDE DEF AtHome
    <2>2. Straight(log') /\ plan' = replay(log', None) /\ OnLine(plan', councils)
        BY <1>3, <1>4, <1>e, <2>1
    <2> QED BY <1>e, <2>1, <2>2 DEF AtHome, LineInv
  <1>f. ASSUME QuestionAsked PROVE LineInv'
    <2>1. PICK p \in Identity : p = run.plan_id
        BY <1>f DEF QuestionAsked, PlanInv, RunTyped
    <2>2. PICK e \in Event : /\ e = event("Asked", p, None) /\ e.kind = "Asked"
                             /\ e.parent = None
        BY <1>0, EventTyped DEF PlanKind
    <2> QED BY <1>5, <1>e, <1>f, <2>1, <2>2 DEF QuestionAsked
  <1>g. ASSUME PrdProposed PROVE LineInv'
    <2>1. PICK p \in Identity \ {None} : p = run.plan_id
        BY <1>g DEF PrdProposed, PlanInv, RunTyped
    <2>2. PICK e \in Event : /\ e = event("Prd", p, None) /\ e.kind = "Prd"
                             /\ e.parent = None /\ e.plan_id = p
        BY <1>0, EventTyped DEF PlanKind
    <2>3. record_plan_event(e) /\ UNCHANGED <<open, moves>> /\ open
        BY <1>5, <1>g, <2>1, <2>2 DEF PrdProposed
    <2>4. PICK sections \in 1 .. Sections : start_council(p, Len(log), sections)
        BY <1>g, <2>1 DEF PrdProposed
    <2>5. /\ \A c \in councils' : c \in councils \/ (c.plan_id = p /\ c.prd = Len(log))
          /\ \A c, d \in councils' : c \notin councils /\ d \notin councils => c = d
      <3>1. PICK begun : begun = [plan_id |-> p, prd |-> Len(log), calls |-> 0, spent |-> 0,
                              sections |-> sections]
          OBVIOUS
      <3>2. begun.plan_id = p /\ begun.prd = Len(log)
          BY <3>1
      <3>3. councils' \subseteq councils \union {begun}
          BY <2>4, <3>1 DEF start_council
      <3>4. \A c \in councils' : c \notin councils => c = begun
          BY <3>3
      <3> QED BY <3>2, <3>4
    <2>6. /\ AtHome /\ validate_event(e) /\ plan' = reduced(e, log) /\ log' = Append(log, e)
          /\ UNCHANGED <<leaf, branch_parent>>
        BY <2>3 DEF LineInv, record_plan_event, persist
    <2>7. /\ Straight(log') /\ plan' = replay(log', None)
          /\ plan' = apply_plan_event(replay(log, None), e, Len(log)) /\ plan' # Refused
      <3> HIDE DEF AtHome
      <3> QED BY <1>3, <2>2, <2>3, <2>6
    <2>8. OnLine(plan', councils')
      <3>1. OnLine(replay(log, None), councils)
          BY <2>6
      <3> HIDE DEF AtHome
      <3> QED BY <1>0, <1>1, <1>2, <2>2, <2>5, <2>7, <3>1, PrdOnLine
    <2> QED BY <2>3, <2>6, <2>7, <2>8 DEF LineInv
  <1>h. ASSUME PlanProposed PROVE LineInv'
    <2>1. plan # NoPlan /\ room
        BY <1>h DEF PlanProposed, PlanInv, RunTyped, Reviewed
    <2>2. PICK p \in Identity : p = run.plan_id
        BY <1>h DEF PlanProposed, PlanInv, RunTyped
    <2>3. plan.active_revision \in 0 .. Len(log)
        BY <2>1 DEF PlanInv, Shown, Flow
    <2>4. PICK i \in Identity : i = plan.active_revision + 1
        BY <1>0, <2>1, <2>3 DEF Identity, room
    <2>5. PICK e \in Event : /\ e = event("Proposed", p, i) /\ e.kind = "Proposed"
                             /\ e.parent = None
        BY EventTyped DEF PlanKind
    <2> QED BY <1>5, <1>e, <1>h, <2>2, <2>4, <2>5 DEF PlanProposed
  <1>i. ASSUME Convene PROVE LineInv'
    <2>1. AtHome
        BY <1>i DEF Convene, LineInv
    <2>2. \A c \in councils' : c \in councils \/ c.plan_id = None
        BY <1>i DEF Convene, start_council
    <2>3. OnLine(replay(log, None), councils')
        BY <2>1, <2>2 DEF OnLine
    <2> QED BY <1>i, <2>1, <2>3 DEF Convene, LineInv, store
  <1>j. ASSUME NEW c \in councils, MembersRound(c) PROVE LineInv'
    <2>1. AtHome
        BY <1>j DEF MembersRound, LineInv
    <2>2. PICK d : /\ councils' = (councils \ {c}) \union {d}
                   /\ \E n \in 0 .. Members * max_provider_turns :
                        d = [c EXCEPT !.calls = @ + Members, !.spent = @ + n]
        BY <1>j DEF MembersRound
    <2>3. d.plan_id = c.plan_id /\ d.prd = c.prd
        BY <1>2, <2>2 DEF CouncilTyped
    <2>4. councils' = (councils \ {c}) \union {d}
        BY <2>2
    <2>5. OnLine(replay(log, None), councils')
        BY <2>1, <2>3, <2>4 DEF OnLine
    <2> QED BY <1>j, <2>1, <2>5 DEF MembersRound, LineInv, store
  <1>k. ASSUME NEW c \in councils, FinishCouncil(c) PROVE LineInv'
    <2>1. PICK p \in Identity : p = c.plan_id
        BY <1>2 DEF CouncilTyped
    <2>2. PICK d \in Identity : d = c.prd
        BY <1>0, <1>2 DEF CouncilTyped, Identity
    <2>3. PICK e \in Event : /\ e = event("Council", p, d) /\ e.kind = "Council"
                             /\ e.parent = None /\ e.plan_id = p /\ e.id = d
        BY EventTyped DEF PlanKind
    <2>4. councils' = councils \ {c} /\ UNCHANGED <<open, moves>> /\ AtHome
        BY <1>k DEF FinishCouncil, LineInv
    <2>5. CASE UNCHANGED <<store, plan>>
      <3>1. OnLine(replay(log, None), councils')
          BY <2>4, FewerOnLine
      <3> QED BY <2>4, <2>5, <3>1 DEF LineInv, store
    <2>6. CASE ~UNCHANGED <<store, plan>>
      <3> DEFINE l == Append(log, e)
                 r == Run("synthesis", p, d)
      <3>1. /\ open /\ plan' = reduced(e, log)
            /\ \/ start_run_with_plan(r, l)
               \/ log' = l /\ UNCHANGED <<leaf, branch_parent>>
          BY <1>k, <2>1, <2>2, <2>3, <2>6 DEF FinishCouncil, heard
      <3> HIDE DEF r
      <3>2. log' = l /\ leaf' = leaf /\ branch_parent' = None
          BY <2>4, <3>1 DEF start_run_with_plan
      <3>3. PICK v : v = apply_plan_event(replay(log, None), e, Len(log))
          OBVIOUS
      <3>4. OnLine(v, councils')
        <4>1. OnLine(replay(log, None), councils)
            BY <2>4
        <4> HIDE DEF AtHome
        <4> QED BY <1>0, <1>1, <1>2, <2>1, <2>2, <2>3, <2>4, <3>3, <4>1, CouncilOnLine
      <3>5. validate_event(e)
          BY <2>4, <3>1, <3>3, <3>4 DEF OnLine, validate_event
      <3> HIDE DEF AtHome
      <3>6. Straight(l) /\ plan' = replay(l, None) /\ plan' = v
          BY <1>3, <2>3, <2>4, <3>1, <3>3, <3>5
      <3> QED BY <2>4, <3>2, <3>4, <3>6 DEF AtHome, LineInv
    <2> QED BY <1>k, <2>5, <2>6 DEF FinishCouncil
  <1>l. ASSUME NEW s, NEW p, MoveLeaf(s, p) PROVE LineInv'
      BY <1>0, <1>l DEF MoveLeaf
  <1>m. ASSUME Close PROVE LineInv'
    <2>1. AtHome /\ councils' \subseteq councils
        BY <1>m DEF Close, LineInv
    <2>2. OnLine(replay(log, None), councils')
        BY <2>1, FewerOnLine
    <2> QED BY <1>m, <2>1, <2>2 DEF Close, LineInv
  <1>n. ASSUME Resume PROVE LineInv'
      BY <1>n DEF Resume, LineInv, store
  <1>o. LineInv'
    <2>1. CASE RunEnds
        BY <1>d, <2>1 DEF RunEnds
    <2>2. CASE \E s \in Sequences : (talks(s) \/ opens(s + 1)) /\ MoveLeaf(s, s)
        BY <1>l, <2>2
    <2>3. CASE \E s \in Sequences : talks(s) /\ MoveLeaf(s, None)
        BY <1>l, <2>3
    <2>4. CASE UNCHANGED vars
        BY <1>d, <2>4 DEF vars
    <2> QED BY <1>a, <1>b, <1>c, <1>f, <1>g, <1>h, <1>i, <1>j, <1>k, <1>m, <1>n, <2>1, <2>2,
               <2>3, <2>4 DEF Next
  <1> QED BY <1>o DEF LineInv

-------------------------------------------------------------------------------
(* One exchange about a plan.  While an interview runs on the first line, the      *)
(* workflow has no document yet, so no council can be under way over it.           *)

InterviewInv ==
  moves = 0 /\ run.kind = "interview" => plan # NoPlan /\ plan.prd = None

\* An event that is no document leaves a workflow that has none without one.
LEMMA StaysUndrafted ==
  ASSUME PlanInv, NEW e \in Event, e.kind # "Prd", plan' = reduced(e, log),
         plan # NoPlan, plan.prd = None
  PROVE  plan' # NoPlan /\ plan'.prd = None
  <1>0. plan \in States(Len(log)) /\ Len(log) \in Nat /\ Len(log) <= MaxEvents
      BY PlanAssumption DEF PlanInv, Shown, States, Record
  <1>1. PICK r : r = apply_plan_event(plan, e, Len(log))
      OBVIOUS
  <1>2. plan' = IF r = Refused THEN plan ELSE r
      BY <1>1 DEF reduced
  <1>3. CASE r = Refused \/ ~aboutPlan(e)
      BY <1>0, <1>1, <1>2, <1>3, ApplyEvent
  <1>4. CASE r # Refused /\ aboutPlan(e)
    <2>1. r \in Flow(Len(log) + 1) /\ r.prd = plan.prd
        BY <1>0, <1>1, <1>4, ApplyEvent
    <2> QED BY <1>2, <1>4, <2>1, FlowFacts
  <1> QED BY <1>3, <1>4

\* An interview that begins, also one over a workflow that a question founded.
LEMMA BeginsUndrafted ==
  ASSUME PlanInv, LineInv, moves = 0, open, NEW e \in Event, e.kind = "Started",
         e.plan_id # None, plan' = reduced(e, log), validate_event(e)
  PROVE  plan' # NoPlan /\ plan'.prd = None
  <1>0. plan \in States(Len(log)) /\ Len(log) \in Nat /\ Len(log) <= MaxEvents
      BY PlanAssumption DEF PlanInv, Shown, States, Record
  <1>1. PICK r : r = apply_plan_event(plan, e, Len(log))
      OBVIOUS
  <1>2. plan' = r /\ r # Refused /\ aboutPlan(e)
      BY <1>1 DEF reduced, validate_event, aboutPlan, PlanKind
  <1>3. CASE plan = NoPlan
    <2>1. r \in Flow(Len(log) + 1) /\ r.prd = None
        BY <1>0, <1>1, <1>2, <1>3, ApplyEvent
    <2> QED BY <1>2, <2>1, FlowFacts
  <1>4. CASE plan # NoPlan
    <2>1. r \in Flow(Len(log) + 1) /\ r.prd = plan.prd /\ accepts(plan, e)
        BY <1>0, <1>1, <1>2, <1>4, ApplyEvent
    <2>2. ~plan.interview_goal
        BY <2>1 DEF accepts, Verdict
    <2>3. plan.prd = None
        BY <1>4, <2>2 DEF LineInv, OnLine
    <2> QED BY <1>2, <2>1, <2>3, FlowFacts
  <1> QED BY <1>3, <1>4

LEMMA InterviewInvNext ==
  PlanInv /\ LineInv /\ InterviewInv /\ [Next]_vars => InterviewInv'
  <1> SUFFICES ASSUME PlanInv, LineInv, InterviewInv, [Next]_vars,
                      moves' = 0, run'.kind = "interview"
               PROVE  plan' # NoPlan /\ plan'.prd = None
      BY DEF InterviewInv
  <1>0. /\ None = -1 /\ None \in Identity /\ Len(log) \in Identity \ {None} /\ moves \in Nat
      BY PlanAssumption DEF PlanInv, Record, None, Identity
  <1>1. run' # NoRun
      BY DEF NoRun
  <1> DEFINE Undrafted == plan # NoPlan /\ plan.prd = None
  <1>2. moves = 0 /\ run' = run => Undrafted
      BY DEF InterviewInv
  <1>3. ASSUME UNCHANGED <<plan, run, moves>> PROVE plan' # NoPlan /\ plan'.prd = None
      BY <1>2, <1>3
  <1>a. ASSUME StartInterview PROVE plan' # NoPlan /\ plan'.prd = None
    <2>1. PICK e \in Event : /\ e = event("Started", Len(log), None) /\ e.kind = "Started"
                             /\ e.plan_id = Len(log)
        BY <1>0, EventTyped DEF PlanKind
    <2>2. /\ open /\ moves = 0 /\ validate_event(e) /\ plan' = reduced(e, log)
        BY <1>a, <2>1 DEF StartInterview
    <2> QED BY <1>0, <2>1, <2>2, BeginsUndrafted
  <1>b. ASSUME NEW e \in commands, PlanCommand(e) PROVE plan' # NoPlan /\ plan'.prd = None
    <2>1. e \in Event /\ e.kind # "Prd"
      <3> DEFINE id == IF plan = NoPlan THEN Len(log) ELSE plan.plan_id
      <3>1. id \in Identity
          BY <1>0 DEF PlanInv, Shown, Flow, Identity
      <3> HIDE DEF id
      <3>2. PICK kind \in PlanKind \ {"Prd"}, n \in Identity : e = event(kind, id, n)
        <4>1. 1 .. MaxEvents \subseteq Identity /\ Sequences \subseteq Identity
            BY <1>0, PlanAssumption DEF Identity, Sequences, PlanInv, Record
        <4> QED BY <1>0, <4>1 DEF commands, PlanKind, Verdict, id
      <3> HIDE DEF PlanKind
      <3> QED BY <3>1, <3>2, EventTyped
    <2>2. moves = 0 /\ plan' = reduced(e, log)
        BY <1>b DEF PlanCommand
    <2>3. Undrafted
      <3>1. CASE goesOn(e)
          BY <3>1 DEF goesOn
      <3>2. CASE ~goesOn(e)
          BY <1>2, <1>b, <2>2, <3>2 DEF PlanCommand
      <3> QED BY <3>1, <3>2
    <2> QED BY <2>1, <2>2, <2>3, StaysUndrafted
  <1>c. ASSUME Chat PROVE FALSE
    <2>1. run = NoRun /\ run' \in {run, Run("chat", None, None)}
        BY <1>c DEF Chat, start_run_with_plan
    <2> QED BY <1>1, <2>1 DEF Run
  <1>d. ASSUME NEW c \in councils, FinishCouncil(c) PROVE plan' # NoPlan /\ plan'.prd = None
    <2>1. CASE UNCHANGED <<store, plan, run>>
        BY <1>3, <1>d, <2>1 DEF FinishCouncil
    <2>2. CASE ~UNCHANGED <<store, plan, run>>
      <3>1. PICK p \in Identity, d \in Identity : p = c.plan_id /\ d = c.prd
          BY <1>0, PlanAssumption DEF PlanInv, CouncilTyped, Identity, Record
      <3>2. PICK e \in Event : e = event("Council", p, d) /\ e.kind = "Council"
          BY EventTyped DEF PlanKind
      <3>3. plan' = reduced(e, log) /\ moves = 0
          BY <1>d, <2>2, <3>1, <3>2 DEF FinishCouncil, heard
      <3>4. run' \in {run, Run("synthesis", p, d)}
          BY <1>d, <2>2, <3>1 DEF FinishCouncil, heard, start_run_with_plan
      <3>5. run' = run
          BY <3>4 DEF Run
      <3> QED BY <1>2, <3>2, <3>3, <3>5, StaysUndrafted
    <2> QED BY <1>d, <2>1, <2>2 DEF FinishCouncil
  <1>e. ASSUME NEW s, NEW p, MoveLeaf(s, p) PROVE FALSE
      BY <1>0, <1>e DEF MoveLeaf
  <1>f. ASSUME Resume PROVE FALSE
      BY <1>1, <1>f DEF Resume, PlanInv
  <1>g. ASSUME Convene PROVE plan' # NoPlan /\ plan'.prd = None
      BY <1>3, <1>g DEF Convene
  <1>h. ASSUME NEW c \in councils, MembersRound(c) PROVE plan' # NoPlan /\ plan'.prd = None
      BY <1>3, <1>h DEF MembersRound
  <1>i. CASE UNCHANGED vars
      BY <1>3, <1>i DEF vars
  <1> QED
    <2>1. CASE RunEnds \/ QuestionAsked \/ PrdProposed \/ PlanProposed \/ Close
        BY <1>1, <2>1 DEF RunEnds, QuestionAsked, PrdProposed, PlanProposed, Close
    <2>2. CASE \E s \in Sequences : (talks(s) \/ opens(s + 1)) /\ MoveLeaf(s, s)
        BY <1>e, <2>2
    <2>3. CASE \E s \in Sequences : talks(s) /\ MoveLeaf(s, None)
        BY <1>e, <2>3
    <2> HIDE DEF Undrafted
    <2> QED BY <1>a, <1>b, <1>c, <1>d, <1>f, <1>g, <1>h, <1>i, <2>1, <2>2, <2>3 DEF Next

-------------------------------------------------------------------------------
(* What a council spends.  Each round is a call of every member, the slice had a   *)
(* turn for each call of all the rounds before the first, and a call is one run.    *)

Paid(c) ==
  /\ Members > 0 /\ c.sections \in Nat /\ funded(c.sections)
  /\ \E k \in Nat : c.calls = Members * k
  /\ c.calls <= deliberation(c.sections)
  /\ c.spent <= c.calls * max_provider_turns

BudgetInv == \A c \in councils : Paid(c)

\* As many turns more as there are calls more.
LEMMA TurnsOfCalls ==
  ASSUME NEW calls \in Nat, NEW more \in Nat, NEW max \in Nat, NEW spent \in Nat,
         NEW n \in 0 .. more * max, spent <= calls * max
  PROVE  spent + n <= (calls + more) * max
  <1>1. (calls + more) * max = calls * max + more * max
      OBVIOUS
  <1>2. calls * max \in Nat /\ more * max \in Nat
      OBVIOUS
  <1> QED BY <1>1, <1>2

\* A multiple below another one of the same number is at least that number below it.
LEMMA NextMultiple ==
  ASSUME NEW m \in Nat, NEW k \in Nat, NEW t \in Nat, m * k < m * t
  PROVE  m * k + m <= m * t
  <1>1. CASE t <= k
    <2>1. PICK d \in Nat : k = t + d
      <3>1. k - t \in Nat /\ k = t + (k - t)
          BY <1>1
      <3> QED BY <3>1
    <2>2. m * k = m * t + m * d /\ m * d \in Nat /\ m * t \in Nat
        BY <2>1
    <2> QED BY <2>2
  <1>2. CASE k < t
    <2>1. PICK d \in Nat : t = (k + 1) + d
      <3>1. t - (k + 1) \in Nat /\ t = (k + 1) + (t - (k + 1))
          BY <1>2
      <3> QED BY <3>1
    <2>2. m * t = (m * k + m) + m * d /\ m * d \in Nat /\ m * k \in Nat
        BY <2>1
    <2> QED BY <2>2
  <1> QED BY <1>1, <1>2

\* start_council asks for what a deliberation takes (deliberation), or more.
LEMMA CallsAreFunded ==
  ASSUME NEW sections \in Nat, funded(sections)
  PROVE  /\ deliberation(sections) <= slice
         /\ \E t \in Nat : deliberation(sections) = Members * t
  <1> DEFINE critique == IF rounds >= 2 /\ Members > 1 THEN 1 ELSE 0
             t == 1 + critique + sections
  <1>1. Members \in Nat /\ rounds \in 1 .. 4 /\ slice \in Nat
      BY PlanAssumption
  <1>2. t \in Nat /\ t <= rounds + sections
      BY <1>1
  <1>3. deliberation(sections) = Members * t
      BY DEF deliberation
  <1> HIDE DEF t
  <1>4. PICK d \in Nat : rounds + sections = t + d
    <2>1. (rounds + sections) - t \in Nat /\ rounds + sections = t + ((rounds + sections) - t)
        BY <1>1, <1>2
    <2> QED BY <2>1
  <1>5. /\ Members * (rounds + sections) = Members * t + Members * d
        /\ Members * d \in Nat /\ Members * t \in Nat
      BY <1>1, <1>2, <1>4
  <1> QED BY <1>1, <1>2, <1>3, <1>5 DEF funded

LEMMA BudgetInvNext == PlanInv /\ BudgetInv /\ [Next]_vars => BudgetInv'
  <1> SUFFICES ASSUME PlanInv, BudgetInv, [Next]_vars PROVE BudgetInv'
      OBVIOUS
  <1>0. /\ Members \in Nat /\ rounds \in 1 .. 4 /\ slice \in Nat
        /\ max_provider_turns \in Nat
      BY PlanAssumption
  <1>1. ASSUME councils' \subseteq councils PROVE BudgetInv'
      BY <1>1 DEF BudgetInv, Paid, funded, deliberation
  <1>2. ASSUME NEW p, NEW d, NEW sections \in Nat, start_council(p, d, sections)
        PROVE  BudgetInv'
    <2>1. CASE UNCHANGED councils
        BY <1>1, <2>1
    <2>2. CASE Members > 0 /\ funded(sections)
      <3>1. PICK c : c = [plan_id |-> p, prd |-> d, calls |-> 0, spent |-> 0,
                          sections |-> sections]
          OBVIOUS
      <3>2. councils' = councils \union {c} /\ c.calls = 0 /\ c.spent = 0 /\ c.sections = sections
          BY <1>2, <2>2, <3>1 DEF start_council
      <3>3. /\ Members * 0 = 0 /\ 0 <= deliberation(sections)
            /\ 0 <= 0 * max_provider_turns
        <4>1. PICK t \in Nat : deliberation(sections) = Members * t
            BY <2>2, CallsAreFunded
        <4>2. Members * t \in Nat
            BY <1>0
        <4> QED BY <1>0, <4>1, <4>2
      <3>4. Paid(c)
          BY <2>2, <3>2, <3>3 DEF Paid
      <3> QED BY <3>2, <3>4 DEF BudgetInv
    <2> QED BY <1>2, <2>1, <2>2 DEF start_council
  <1>a. ASSUME PrdProposed PROVE BudgetInv'
    <2>1. PICK sections \in 1 .. Sections : start_council(run.plan_id, Len(log), sections)
        BY <1>a DEF PrdProposed
    <2>2. sections \in Nat
        BY PlanAssumption
    <2> QED BY <1>2, <2>1, <2>2
  <1>b. ASSUME Convene PROVE BudgetInv'
      BY <1>2, <1>b DEF Convene
  <1>c. ASSUME NEW c \in councils, MembersRound(c) PROVE BudgetInv'
    <2>1. PICK n \in 0 .. Members * max_provider_turns :
            councils' = (councils \ {c}) \union
                          {[c EXCEPT !.calls = c.calls + Members, !.spent = c.spent + n]}
        BY <1>c DEF MembersRound
    <2>2. PICK d : d = [c EXCEPT !.calls = c.calls + Members, !.spent = c.spent + n]
        OBVIOUS
    <2>3. CouncilTyped(c, Len(log)) /\ Paid(c)
        BY DEF PlanInv, BudgetInv
    <2>4. /\ councils' = (councils \ {c}) \union {d}
          /\ d.calls = c.calls + Members /\ d.spent = c.spent + n /\ d.sections = c.sections
        BY <2>1, <2>2, <2>3 DEF CouncilTyped
    <2>5. PICK k \in Nat : c.calls = Members * k
        BY <2>3 DEF Paid
    <2>6. PICK t \in Nat : deliberation(c.sections) = Members * t
        BY <2>3, CallsAreFunded DEF Paid
    <2>7. d.calls <= deliberation(c.sections)
      <3>1. Members * k < Members * t
          BY <1>c, <2>5, <2>6 DEF MembersRound
      <3> QED BY <1>0, <2>4, <2>5, <2>6, <3>1, NextMultiple
    <2>8. d.calls = Members * (k + 1) /\ k + 1 \in Nat
        BY <1>0, <2>4, <2>5
    <2>9. d.spent <= d.calls * max_provider_turns
      <3>1. /\ c.calls \in Nat /\ c.spent \in Nat
            /\ c.spent <= c.calls * max_provider_turns
          BY <2>3 DEF CouncilTyped, Paid
      <3>2. c.spent + n <= (c.calls + Members) * max_provider_turns
          BY <1>0, <3>1, TurnsOfCalls
      <3> QED BY <2>4, <3>2
    <2>10. Paid(d)
        BY <2>3, <2>4, <2>7, <2>8, <2>9 DEF Paid
    <2> QED BY <2>4, <2>10 DEF BudgetInv
  <1> QED
    <2>1. CASE \/ StartInterview \/ \E e \in commands : PlanCommand(e)
               \/ Chat \/ RunEnds \/ QuestionAsked \/ PlanProposed
               \/ \E c \in councils : FinishCouncil(c)
               \/ \E s \in Sequences : (talks(s) \/ opens(s + 1)) /\ MoveLeaf(s, s)
               \/ \E s \in Sequences : talks(s) /\ MoveLeaf(s, None)
               \/ Close \/ Resume \/ UNCHANGED vars
      <3>1. councils' \subseteq councils
          BY <2>1 DEF StartInterview, PlanCommand, Chat, RunEnds, QuestionAsked, PlanProposed,
                      FinishCouncil, MoveLeaf, Close, Resume, vars
      <3> QED BY <1>1, <3>1
    <2> QED BY <1>a, <1>b, <1>c, <2>1 DEF Next

\* A review is lost or it is not.
LostTyped == lost \in BOOLEAN

LEMMA LostTypedNext == LostTyped /\ [Next]_vars => LostTyped'
  <1> SUFFICES ASSUME lost \in BOOLEAN, [Next]_vars PROVE lost' \in BOOLEAN
      BY DEF LostTyped
  <1>1. ASSUME NEW c \in councils, FinishCouncil(c) PROVE lost' \in BOOLEAN
    <2>1. lost' = lost \/ lost' = (lost \/ c.plan_id # None)
        BY <1>1 DEF FinishCouncil
    <2>2. (lost \/ c.plan_id # None) \in BOOLEAN
        BY Zenon
    <2> QED BY <2>1, <2>2
  <1>2. ASSUME NEW c \in councils, MembersRound(c) PROVE lost' = lost
      BY <1>2 DEF MembersRound
  <1>3. ASSUME NEW e \in commands, PlanCommand(e) PROVE lost' = lost
      BY <1>3 DEF PlanCommand
  <1>4. ASSUME NEW s, NEW p, MoveLeaf(s, p) PROVE lost' = lost
      BY <1>4 DEF MoveLeaf
  <1>5. ASSUME \/ StartInterview \/ Chat \/ RunEnds \/ QuestionAsked \/ PrdProposed
               \/ PlanProposed \/ Convene \/ Close \/ Resume \/ UNCHANGED vars
        PROVE  lost' = lost
      BY <1>5 DEF StartInterview, Chat, RunEnds, QuestionAsked, PrdProposed, PlanProposed,
                  Convene, Close, Resume, vars
  <1> QED BY <1>1, <1>2, <1>3, <1>4, <1>5 DEF Next

-------------------------------------------------------------------------------
(* Theorems. *)

\* Types: the record is a log of events, the workflow a client sees is one, and a
\* council and a branch stand on events that were recorded.
THEOREM TypeCorrect == Spec => []TypeOK
  <1>1. PlanInv /\ LostTyped => TypeOK
    <2> SUFFICES ASSUME PlanInv, LostTyped PROVE TypeOK
        OBVIOUS
    <2>1. plan = NoPlan \/ plan \in Workflow
      <3>1. ASSUME NEW n \in Nat, NEW w \in Flow(n) PROVE w \in Workflow
        <4>1. 0 .. n \subseteq Nat /\ 0 .. MaxEvents \subseteq Nat
            BY PlanAssumption
        <4> QED BY <4>1 DEF Flow, Workflow, Identity
      <3>2. Len(log) \in Nat
          BY DEF PlanInv, Record
      <3> QED BY <3>1, <3>2 DEF PlanInv, Shown
    <2>2. \A c \in councils : c.prd \in Sequences \union {None} /\ c.calls \in Nat /\ c.spent \in Nat
        BY DEF PlanInv, CouncilTyped, Sequences
    <2> QED BY <2>1, <2>2 DEF PlanInv, Record, RunTyped, LostTyped, TypeOK
  <1>2. Init => LostTyped
      BY DEF Init, LostTyped
  <1> QED BY <1>1, <1>2, LostTypedNext, PlanIsKept, PTL DEF Spec

\* HandoffWasApproved, for a record of any length and on whatever branch: a plan is
\* handed off (handoff_plan) only after a human approved that very revision.
THEOREM HandoffIsApproved == Spec => []HandoffWasApproved
  <1>1. PlanInv => HandoffWasApproved
      BY DEF PlanInv, Record, Handoffs, HandoffWasApproved, Sequences
  <1> QED BY <1>1, PlanIsKept, PTL

\* SynthesisWasReviewed: a synthesis that runs (finish_council, start_run_with_plan)
\* works on the document of the workflow, whose review is linked, whatever else the
\* session recorded since, and however often it was moved before.
THEOREM SynthesisIsReviewed == Spec => []SynthesisWasReviewed
  <1>1. PlanInv => SynthesisWasReviewed
      BY DEF PlanInv, Reviewed, SynthesisWasReviewed
  <1> QED BY <1>1, PlanIsKept, PTL

\* LiveIsReplay: as long as a session stands on its first line, the workflow of a
\* client (state.plan) is what resume_session would fold from the record, whichever
\* handler recorded the last event and whether or not it was validated first.
THEOREM PlanIsReplay == Spec => []LiveIsReplay
  <1>1. LineInv => LiveIsReplay
      BY DEF LineInv, LiveIsReplay
  <1>2. PlanInv /\ LineInv /\ [Next]_vars => (PlanInv /\ LineInv)'
      BY PlanInvNext, LineInvNext
  <1> QED BY <1>1, <1>2, PlanInvInit, LineInvInit, PTL DEF Spec

\* OneExchange: on the first line of a session a plan is being interviewed about,
\* deliberated or synthesised, one at a time: an answer goes on with the interview
\* (handle_plan_command) only while there is no document for a council to review, and
\* a synthesis starts (finish_council) only once that council is gone.
THEOREM ExchangesTakeTurns == Spec => []OneExchange
  <1>1. PlanInv /\ LineInv /\ InterviewInv => OneExchange
    <2> SUFFICES ASSUME PlanInv, LineInv, InterviewInv, moves = 0
                 PROVE  Cardinality({c \in councils : c.plan_id # None})
                          + (IF run.kind \in {"interview", "synthesis"} THEN 1 ELSE 0) <= 1
        BY DEF OneExchange
    <2> DEFINE reviews == {c \in councils : c.plan_id # None}
    <2>1. OnLine(replay(log, None), councils) /\ (open => plan = replay(log, None))
        BY DEF LineInv
    <2>2. CASE run.kind \in {"interview", "synthesis"}
      <3>1. open /\ plan # NoPlan
          BY <2>2 DEF PlanInv, NoRun, InterviewInv, Reviewed
      <3>2. ASSUME NEW c \in reviews PROVE FALSE
        <4>1. c.prd # None
            BY DEF PlanInv, CouncilTyped
        <4>2. plan.prd = c.prd /\ plan.council_link = None
            BY <2>1, <3>1 DEF OnLine
        <4> QED BY <2>2, <4>1, <4>2 DEF InterviewInv, PlanInv, Reviewed, RunTyped
      <3>3. reviews = {}
          BY <3>2
      <3> QED BY <2>2, <3>3, FS_EmptySet
    <2>3. CASE run.kind \notin {"interview", "synthesis"}
      <3>1. reviews = {} \/ \E c : reviews = {c}
          BY <2>1 DEF OnLine
      <3>2. Cardinality(reviews) \in {0, 1}
          BY <3>1, FS_EmptySet, FS_Singleton
      <3> QED BY <2>3, <3>2
    <2> QED BY <2>2, <2>3
  <1>2. Init => InterviewInv
      BY DEF Init, NoRun, InterviewInv
  <1> QED BY <1>1, <1>2, PlanInvInit, PlanInvNext, LineInvInit, LineInvNext, InterviewInvNext,
             PTL DEF Spec

\* CouncilIsBounded: whatever the numbers of members, rounds and sections, a council that
\* was let begin (start_council) makes no more calls than its slice has turns, and takes
\* no more turns than that many runs may.  The slice itself is no bound on the turns
\* (CouncilWithinSlice is refuted): no call is charged to it.
THEOREM CouncilsAreBounded == Spec => []CouncilIsBounded
  <1>1. PlanInv /\ BudgetInv => CouncilIsBounded
    <2> SUFFICES ASSUME PlanInv, BudgetInv, NEW c \in councils
                 PROVE  c.calls <= slice /\ c.spent <= slice * max_provider_turns
        BY DEF CouncilIsBounded
    <2>1. /\ c.sections \in Nat /\ funded(c.sections)
          /\ c.calls <= deliberation(c.sections) /\ c.calls \in Nat
          /\ c.spent <= c.calls * max_provider_turns /\ c.spent \in Nat
        BY DEF BudgetInv, Paid, PlanInv, CouncilTyped
    <2>2. PICK t \in Nat : /\ deliberation(c.sections) = Members * t
                           /\ deliberation(c.sections) <= slice
        BY <2>1, CallsAreFunded
    <2>3. Members * t \in Nat /\ slice \in Nat /\ max_provider_turns \in Nat
        BY PlanAssumption
    <2>4. c.calls <= slice
        BY <2>1, <2>2, <2>3
    <2>5. PICK more \in Nat : slice = c.calls + more
      <3>1. slice - c.calls \in Nat /\ slice = c.calls + (slice - c.calls)
          BY <2>1, <2>3, <2>4
      <3> QED BY <3>1
    <2>6. 0 \in 0 .. more * max_provider_turns
        BY <2>3
    <2>7. c.spent + 0 <= (c.calls + more) * max_provider_turns
        BY <2>1, <2>3, <2>6, TurnsOfCalls
    <2> QED BY <2>1, <2>4, <2>5, <2>7
  <1>2. Init => BudgetInv
      BY DEF Init, BudgetInv
  <1> QED BY <1>1, <1>2, PlanInvInit, PlanInvNext, BudgetInvNext, PTL DEF Spec
===============================================================================
