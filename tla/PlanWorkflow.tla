----------------------------- MODULE PlanWorkflow -----------------------------
(***************************************************************************)
(* The plan workflow of a session: interview, requirements document, council *)
(* review, synthesis, human decision, handoff; folded from durable events, on *)
(* the branch of the session's event tree that is active.  core/plan.rs,       *)
(* runtime/interview.rs, runtime/council.rs, runtime/session.rs and the        *)
(* handlers of runtime/mod.rs and runtime/durability.rs that write or rebuild. *)
(*                                                                          *)
(* An event is what the fold reads of it, fresh identities are the sequence of *)
(* the event that brings them, and of a transcript only the message that opens *)
(* a branch is kept.                                                          *)
(***************************************************************************)
EXTENDS Integers, Sequences, FiniteSets

CONSTANTS
  MAX_INTERVIEW_QUESTIONS,
  Members,         \* seats of the council that resolve to a model
  rounds,          \* CouncilConfig: effective_rounds
  slice,           \* CouncilConfig: budget_provider_turns
  max_provider_turns,  \* BudgetLimits: of the one run a member is asked for
  Sections,        \* bound: sections of a document
  StartFails,      \* a run may not start, for a reason kept elsewhere
  MaxEvents,       \* bound: durable events
  MaxMoves,        \* bound: rewinds and followed branches
  MaxCouncils      \* bound: councils under way

ASSUME PlanAssumption ==
  /\ MAX_INTERVIEW_QUESTIONS \in Nat /\ Members \in Nat /\ rounds \in 1 .. 4
  /\ slice \in Nat /\ max_provider_turns \in Nat /\ Sections \in Nat /\ StartFails \in BOOLEAN
  /\ MaxEvents \in Nat \ {0} /\ MaxMoves \in Nat /\ MaxCouncils \in Nat

VARIABLES
  log,            \* the session's events; event i has sequence i - 1
  leaf,           \* sessions.active_leaf_sequence
  branch_parent,  \* state.branch_parent
  plan,           \* state.plan
  run,            \* the active run, and the plan exchange it carries
  councils,       \* the detached councils
  open,           \* this process has the session open
  moves,          \* history: rewinds and followed branches
  lost            \* history: the append of a document's review failed

store == <<log, leaf, branch_parent>>
vars == <<store, plan, run, councils, open, moves, lost>>

None == 0 - 1
Sequences == 0 .. Len(log) - 1

Verdict == {"Approve", "Iterate", "Reject"}
PlanKind == {"Started", "Asked", "Answered", "Prd", "Proposed", "Reviewed", "HandedOff",
             "Council"} \union Verdict
\* `id` is the question answered, the revision, or the document a council reviewed;
\* `talk` says that messages on the same line may come next.
Event == [kind : PlanKind \union {"Created", "Message"},
          plan_id : None .. MaxEvents, id : None .. MaxEvents,
          parent : None .. MaxEvents, talk : BOOLEAN]
event(kind, plan_id, id) ==
  [kind |-> kind, plan_id |-> plan_id, id |-> id, parent |-> None,
   talk |-> branch_parent = None]
message(parent) ==
  [kind |-> "Message", plan_id |-> None, id |-> None, parent |-> parent, talk |-> TRUE]

PlanStage == {"Idle", "QuestionPending", "Proposed", "Reviewed", "Approved",
              "IterateRequested", "Rejected", "Handoff"}
Workflow ==
  [plan_id : Nat, interview_goal : BOOLEAN, questions : Nat, asked : None .. MaxEvents,
   prd : None .. MaxEvents, council_link : None .. MaxEvents,
   active_revision : Nat, stage : PlanStage]

\* PlanWorkflow::new; no workflow, and one whose fold met an event it refuses.
new(plan_id) ==
  [plan_id |-> plan_id, interview_goal |-> FALSE, questions |-> 0, asked |-> None,
   prd |-> None, council_link |-> None, active_revision |-> 0, stage |-> "Idle"]
NoPlan == [stage |-> "no workflow"]
Refused == [stage |-> "refused"]

NoRun == [kind |-> "none", plan_id |-> None, prd |-> None]
Run(kind, plan_id, prd) == [kind |-> kind, plan_id |-> plan_id, prd |-> prd]

TypeOK ==
  /\ log \in Seq(Event) /\ Len(log) \in 1 .. MaxEvents
  /\ leaf \in Sequences \union {None} /\ branch_parent \in Sequences \union {None}
  /\ plan = NoPlan \/ plan \in Workflow
  /\ run.kind \in {"none", "chat", "interview", "synthesis"}
  /\ \A c \in councils : c.prd \in Sequences \union {None} /\ c.calls \in Nat /\ c.spent \in Nat
  /\ open \in BOOLEAN /\ moves \in 0 .. MaxMoves /\ lost \in BOOLEAN

Init ==
  /\ branch_parent = None /\ leaf = None /\ log = <<event("Created", None, None)>>
  /\ plan = NoPlan /\ run = NoRun /\ councils = {} /\ open = TRUE /\ moves = 0
  /\ lost = FALSE

--------------------------------------------------------------------------------
(* The fold: apply_plan_event and the transitions of PlanWorkflow.           *)

undecided == {"Proposed", "Reviewed"}

\* A slip: a plan that was commented on is as good as one that was approved.
canHandOff_Reviewed(w) == w.stage \in {"Reviewed", "Approved"}

\* handoff_plan.
canHandOff(w) == w.stage = "Approved"

\* What an existing workflow accepts of an event of its own plan; a question names
\* a plan too, which nothing compares.
accepts(w, e) ==
  CASE e.kind = "Started" -> w.stage = "Idle" /\ ~w.interview_goal
    [] e.kind = "Asked" -> /\ w.questions < MAX_INTERVIEW_QUESTIONS
                           /\ w.stage \in {"Idle", "IterateRequested"}
    [] e.kind = "Answered" -> w.stage = "QuestionPending" /\ e.id = w.asked
    [] e.kind = "Prd" -> w.interview_goal /\ w.prd = None /\ w.stage = "Idle"
    [] e.kind = "Proposed" -> /\ w.stage \in {"Idle", "IterateRequested"}
                              /\ e.id = w.active_revision + 1
    [] e.kind \in Verdict \union {"Reviewed"} ->
         e.id = w.active_revision /\ w.stage \in undecided
    [] e.kind = "HandedOff" -> e.id = w.active_revision /\ canHandOff(w)
    [] e.kind = "Council" -> w.prd # None /\ e.id = w.prd /\ w.council_link = None
    [] OTHER -> TRUE

applied(w, e, sequence) ==
  CASE e.kind = "Started" -> [w EXCEPT !.interview_goal = TRUE]
    [] e.kind = "Asked" -> [w EXCEPT !.questions = @ + 1, !.asked = sequence,
                                     !.stage = "QuestionPending"]
    [] e.kind = "Answered" -> [w EXCEPT !.stage = "Idle", !.asked = None]
    [] e.kind = "Prd" -> [w EXCEPT !.prd = sequence]
    [] e.kind = "Proposed" -> [w EXCEPT !.active_revision = e.id, !.stage = "Proposed"]
    [] e.kind = "Reviewed" -> [w EXCEPT !.stage = "Reviewed"]
    [] e.kind = "Approve" -> [w EXCEPT !.stage = "Approved"]
    [] e.kind = "Iterate" -> [w EXCEPT !.stage = "IterateRequested"]
    [] e.kind = "Reject" -> [w EXCEPT !.stage = "Rejected"]
    [] e.kind = "HandedOff" -> [w EXCEPT !.stage = "Handoff"]
    [] e.kind = "Council" -> [w EXCEPT !.council_link = e.id]

\* No plan: a message, or a council that was asked a question.
aboutPlan(e) == e.kind \in PlanKind /\ e.plan_id # None
founds(e) == e.kind \in {"Started", "Asked", "Proposed"}

apply_plan_event(w, e, sequence) ==
  LET base == IF w = NoPlan THEN new(e.plan_id) ELSE w
  IN  IF w = Refused \/ ~aboutPlan(e) THEN w
      ELSE IF \/ w = NoPlan /\ ~founds(e)
              \/ base.plan_id # e.plan_id /\ e.kind # "Asked"
              \/ ~accepts(base, e)
             THEN Refused
      ELSE applied(base, e, sequence)

\* branch_events: the walk up from the leaf, and the fold of what is on it.
parentOf(l, s) == IF l[s + 1].parent = None THEN s - 1 ELSE l[s + 1].parent
branch(l, f) ==
  LET up[s \in None .. Len(l) - 1] == IF s = None THEN {} ELSE {s} \union up[parentOf(l, s)]
  IN  up[IF f = None THEN Len(l) - 1 ELSE f]
replay(l, f) ==
  LET on == branch(l, f)
      fold[s \in None .. Len(l) - 1] ==
        IF s = None THEN NoPlan
        ELSE IF s \in on THEN apply_plan_event(fold[s - 1], l[s + 1], s)
        ELSE fold[s - 1]
  IN  fold[Len(l) - 1]

--------------------------------------------------------------------------------
(* Appends and the start of a run.                                           *)

\* Room for an event, and for one with the message of the run it starts.
room == Len(log) < MaxEvents
roomForRun == Len(log) + (IF branch_parent = None THEN 1 ELSE 2) <= MaxEvents

\* What persist leaves: the event is in the log before the fold is asked, and a
\* refusal then leaves the workflow as it was.
reduced(e, l) ==
  LET w == apply_plan_event(plan, e, Len(l)) IN IF w = Refused THEN plan ELSE w

\* A slip: an event is recorded first and judged by the fold.
validate_event_Skipped(e) == TRUE

\* validate_event, against a copy of the workflow.
validate_event(e) == apply_plan_event(plan, e, Len(log)) # Refused

persist(e) ==
  log' = Append(log, e) /\ plan' = reduced(e, log) /\ UNCHANGED <<leaf, branch_parent>>

record_plan_event(e) == validate_event(e) /\ persist(e)

\* start_run_with_plan, after the events `l`: nothing while another run is active;
\* else its message opens the branch that a rewind left pending.  The branch point is
\* taken before the message is appended, and the run's own marker comes after it:
\* either append may fail.
start_run_with_plan(r, l) ==
  \/ /\ run # NoRun \/ StartFails
     /\ log' = l /\ UNCHANGED <<run, leaf, branch_parent>>
  \/ /\ run = NoRun /\ StartFails
     /\ log' = l /\ branch_parent' = None /\ UNCHANGED <<run, leaf>>
  \/ /\ run = NoRun /\ (run' = r \/ (StartFails /\ run' = NoRun))
     /\ \/ branch_parent = None /\ log' = l /\ UNCHANGED <<leaf, branch_parent>>
        \/ /\ branch_parent # None /\ log' = Append(l, message(branch_parent))
           /\ leaf' = Len(l) /\ branch_parent' = None

--------------------------------------------------------------------------------
(* Commands.                                                                 *)

\* start_plan_interview.
StartInterview ==
  /\ open /\ run = NoRun /\ roomForRun
  /\ LET e == event("Started", Len(log), None)
     IN  /\ validate_event(e) /\ plan' = reduced(e, log)
         /\ start_run_with_plan(Run("interview", e.plan_id, None), Append(log, e))
  /\ UNCHANGED <<councils, open, moves, lost>>

\* The plan commands of a client; a stale one names another question or revision.
commands ==
  LET id == IF plan = NoPlan THEN Len(log) ELSE plan.plan_id
      about(kind, ids) == {event(kind, id, n) : n \in ids}
  IN  about("Asked", {None}) \union about("Answered", Sequences)
        \union UNION {about(k, 1 .. MaxEvents) :
                        k \in Verdict \union {"Proposed", "Reviewed", "HandedOff"}}

\* A slip: a question that is asked after the document goes on with the interview.
goesOn_Anyway(e) == e.kind = "Answered" /\ plan # NoPlan /\ plan.interview_goal

goesOn(e) ==
  e.kind = "Answered" /\ plan # NoPlan /\ plan.interview_goal /\ plan.prd = None

\* handle_plan_command: an answer goes on with the interview.
PlanCommand(e) ==
  /\ open /\ room /\ validate_event(e) /\ plan' = reduced(e, log)
  /\ IF goesOn(e)
       THEN roomForRun /\ start_run_with_plan(Run("interview", plan.plan_id, None), Append(log, e))
       ELSE log' = Append(log, e) /\ UNCHANGED <<run, leaf, branch_parent>>
  /\ UNCHANGED <<councils, open, moves, lost>>

\* A directive of the human.
Chat ==
  /\ open /\ run = NoRun /\ (branch_parent # None => room)
  /\ start_run_with_plan(Run("chat", None, None), log)
  /\ UNCHANGED <<plan, councils, open, moves, lost>>

\* A run that ends without an answer, or with one the parser refuses.
RunEnds ==
  /\ run # NoRun /\ run' = NoRun
  /\ UNCHANGED <<store, plan, councils, open, moves, lost>>

--------------------------------------------------------------------------------
(* The council.                                                              *)

\* The calls of a deliberation: each member's proposal, its critique when there are
\* peers and rounds for it, and its finding per section.
deliberation(sections) ==
  Members * (1 + (IF rounds >= 2 /\ Members > 1 THEN 1 ELSE 0) + sections)

\* start_council: what the slice must fund before anything begins, a turn per call.
funded(sections) == Members * (rounds + sections) <= slice

start_council(plan_id, prd, sections) ==
  IF Members > 0 /\ funded(sections)
    THEN councils' = councils \union {[plan_id |-> plan_id, prd |-> prd, calls |-> 0,
                                       spent |-> 0, sections |-> sections]}
    ELSE UNCHANGED councils

\* convene_council of a question, which carries no plan.
Convene ==
  /\ open /\ run = NoRun /\ Cardinality(councils) < MaxCouncils
  /\ start_council(None, None, 0)
  /\ UNCHANGED <<store, plan, run, open, moves, lost>>

\* orchestrate_council: one round, a call of each member.  A call (run_council_member)
\* is a run of a child session with tools to read with: as many provider turns as the
\* parent's own limit, or none when the member is not ready.  No turn is charged to the
\* slice; `spent` counts them.
MembersRound(c) ==
  /\ c.calls < deliberation(c.sections)
  /\ \E n \in 0 .. Members * max_provider_turns :
       councils' = (councils \ {c}) \union
                     {[c EXCEPT !.calls = @ + Members, !.spent = @ + n]}
  /\ UNCHANGED <<store, plan, run, open, moves, lost>>

\* Slips: the synthesis does not ask what became of the review; a council that ends
\* during a run is not heard.
synthesizes_Unreviewed(c, refused) == c.prd # None
heard_Idle == open /\ run = NoRun

\* finish_council: whether a synthesis follows, and what drops the whole result.
synthesizes(c, refused) == c.prd # None /\ ~refused
heard == open

\* finish_council: recorded without validation; then the synthesis, of the document
\* that the workflow still holds.  When the append fails the review is dropped: nothing
\* is noted and nothing tries again.
FinishCouncil(c) ==
  /\ c.calls = deliberation(c.sections) /\ councils' = councils \ {c}
  /\ \/ ~heard /\ UNCHANGED <<store, plan, run, lost>>
     \/ heard /\ lost' = (lost \/ c.plan_id # None) /\ UNCHANGED <<store, plan, run>>
     \/ /\ heard /\ roomForRun /\ UNCHANGED lost
        /\ LET e == event("Council", c.plan_id, c.prd)
               refused == apply_plan_event(plan, e, Len(log)) = Refused
           IN  /\ plan' = reduced(e, log)
               /\ IF synthesizes(c, refused)
                    THEN start_run_with_plan(Run("synthesis", c.plan_id, c.prd),
                                             Append(log, e))
                    ELSE log' = Append(log, e) /\ UNCHANGED <<run, leaf, branch_parent>>
  /\ UNCHANGED <<open, moves>>

--------------------------------------------------------------------------------
(* What a structured run brings.                                             *)

\* finish_interview_response: a question, if the workflow takes it.
QuestionAsked ==
  /\ run.kind = "interview" /\ run' = NoRun /\ room
  /\ record_plan_event(event("Asked", run.plan_id, None))
  /\ UNCHANGED <<councils, open, moves, lost>>

\* finish_interview_response: the document, and the council over it.
PrdProposed ==
  /\ run.kind = "interview" /\ run' = NoRun /\ room
  /\ Cardinality(councils) < MaxCouncils
  /\ record_plan_event(event("Prd", run.plan_id, None))
  /\ \E sections \in 1 .. Sections : start_council(run.plan_id, Len(log), sections)
  /\ UNCHANGED <<open, moves, lost>>

\* finish_synthesis_response: the revision after the active one.
PlanProposed ==
  /\ run.kind = "synthesis" /\ run' = NoRun /\ room
  /\ record_plan_event(event("Proposed", run.plan_id, plan.active_revision + 1))
  /\ UNCHANGED <<councils, open, moves, lost>>

--------------------------------------------------------------------------------
(* Moves of the leaf, and the session's open and close.                      *)

\* Messages can be selected: one next to event `s`, or one that opened a branch.
talks(s) == log[s + 1].talk
opens(s) == s \in Sequences /\ log[s + 1].kind = "Message"

\* rewind_to, in front of a message, and follow_branch: the leaf is moved before the
\* fold is asked.
MoveLeaf(sequence, parent) ==
  /\ open /\ run = NoRun /\ moves < MaxMoves /\ moves' = moves + 1
  /\ leaf' = sequence
  /\ LET rebuilt == replay(log, sequence)
     IN  IF rebuilt = Refused THEN UNCHANGED <<plan, branch_parent>>
         ELSE plan' = rebuilt /\ branch_parent' = parent
  /\ UNCHANGED <<log, run, councils, open, lost>>

\* release_session, or the end of the process, which takes the councils with it.
Close ==
  /\ open /\ open' = FALSE /\ run' = NoRun /\ plan' = NoPlan /\ branch_parent' = None
  /\ \/ run = NoRun /\ UNCHANGED councils
     \/ councils' = {}
  /\ UNCHANGED <<log, leaf, moves, lost>>

\* resume_session: a branch that does not replay cannot be opened.
Resume ==
  /\ ~open /\ replay(log, leaf) # Refused
  /\ open' = TRUE /\ plan' = replay(log, leaf)
  /\ UNCHANGED <<store, run, councils, moves, lost>>

Next ==
  \/ StartInterview
  \/ \E e \in commands : PlanCommand(e)
  \/ Chat \/ RunEnds \/ QuestionAsked \/ PrdProposed \/ PlanProposed
  \/ Convene
  \/ \E c \in councils : MembersRound(c)
  \/ \E c \in councils : FinishCouncil(c)
  \/ \E s \in Sequences : (talks(s) \/ opens(s + 1)) /\ MoveLeaf(s, s)
  \/ \E s \in Sequences : talks(s) /\ MoveLeaf(s, None)
  \/ Close \/ Resume

\* The tasks of a council go on, and its mail is handled.
Fairness ==
  /\ WF_vars(\E c \in councils : MembersRound(c))
  /\ WF_vars(\E c \in councils : FinishCouncil(c))

Spec == Init /\ [][Next]_vars
FairSpec == Spec /\ Fairness

--------------------------------------------------------------------------------
(* Properties                                                               *)

\* The workflow a client sees is the one a restart would rebuild, whichever handler
\* recorded the last event, as long as the session stands on its first line.
LiveIsReplay == open /\ moves = 0 => plan = replay(log, None)

\* A plan is handed off on a human's approval of that very revision, in the record
\* of the session and before it, on whichever branch it happened.
HandoffWasApproved ==
  \A s \in Sequences : log[s + 1].kind = "HandedOff" =>
    \E a \in 0 .. s : /\ log[a + 1].kind = "Approve"
                      /\ log[a + 1].plan_id = log[s + 1].plan_id
                      /\ log[a + 1].id = log[s + 1].id

\* A synthesis works on the document of the workflow, once the review of that very
\* document is linked, also when the human rewound while the council deliberated.
SynthesisWasReviewed ==
  run.kind = "synthesis" =>
    /\ plan # NoPlan
    /\ plan.plan_id = run.plan_id /\ plan.prd = run.prd /\ plan.council_link = run.prd

\* A plan has one exchange under way: the interview, the council, the synthesis.
OneExchange ==
  moves = 0 =>
    Cardinality({c \in councils : c.plan_id # None})
      + (IF run.kind \in {"interview", "synthesis"} THEN 1 ELSE 0) <= 1

\* core/council.rs: a "budget for the whole council", which refuses at the start
\* "rather than discovering insolvency mid-deliberation".  Refuted: the slice is compared
\* with the calls, and a call takes as many turns as a run may.
CouncilWithinSlice == \A c \in councils : c.spent <= slice

\* What the refusal at the start does buy: no more calls than the slice has turns, each
\* within the limits of a run, so the cost of a council is bounded all the same.
CouncilIsBounded ==
  \A c \in councils : c.calls <= slice /\ c.spent <= slice * max_provider_turns

\* A document whose council deliberates gets its review linked, whatever else runs,
\* unless the append of the review fails, the session is left or moved meanwhile, or
\* the bound on events is reached.
ReviewIsLinked ==
  (\E c \in councils : c.plan_id # None) ~>
    \/ plan # NoPlan /\ plan.council_link # None
    \/ lost \/ ~open \/ moves > 0 \/ ~roomForRun

\* session.rs, validate_event: "a refused transition can never enter durable
\* history".  Refuted after a rewind: what is recorded before the next message goes
\* on the line that was left, whose fold refuses it, and a session that comes back
\* to that line can neither show it nor be opened again.
HistoryReplays == replay(log, leaf) # Refused

\* durability.rs, resume_session: a restart "cannot make both clients forget an
\* approved plan".  Refuted after a rewind, which freezes the branch.
ApprovalSurvives ==
  open /\ plan.stage = "Approved" => replay(log, leaf).stage = "Approved"

\* interview.rs: an answer is "a transcript message for the next bounded model turn".
\* Refuted: with a run active, or one that cannot start, there is no next turn.
AnswerGoesOn ==
  [][\A e \in commands : goesOn(e) /\ PlanCommand(e) => run'.kind = "interview"]_vars

\* docs/definition-of-done.md: the workflow "links its advisory council review,
\* synthesizes a durable plan".  Refuted: a run of the human's is in the way, and
\* nothing tries again.
ReviewIsSynthesized ==
  [][\A c \in councils : c.plan_id # None /\ open /\ moves = 0 /\ FinishCouncil(c) =>
       run'.kind = "synthesis"]_vars
================================================================================
