------------------------------- MODULE Subagents -------------------------------
(***************************************************************************)
(* One spawn_subagent call from its dispatch to its settlement, runtime/      *)
(* subagent/: the orchestration task that dispatches children and folds their *)
(* records, the children with the runtimes that drive them, and the parent's   *)
(* actor, whose run may be cancelled or run out of time under the group and    *)
(* whose session may be another one when a late record comes.                 *)
(*                                                                          *)
(* A child reads and writes one path.  What the call was allowed to spawn is   *)
(* SpawnEnvelope's; the process does not crash.                              *)
(***************************************************************************)
EXTENDS Integers, FiniteSets, Sequences

CONSTANTS
  Children,   \* the children of the call, dispatched in order: 1 .. n
  MaxFaults   \* bound: git calls and appends that fail, events that are lost

ASSUME SubagentsAssumption ==
  /\ IsFiniteSet(Children) /\ Children = 1 .. Cardinality(Children)
  /\ MaxFaults \in Nat

VARIABLES
  session,   \* the session the actor has open
  run,       \* the parent's run is active
  cancel,    \* its cancellation token, which the group and the children share
  orch,      \* where the orchestration task is
  next,      \* the next child to dispatch
  child,     \* the child tasks
  sent,      \* the records channel: children whose record is in it
  slot,      \* the records collected so far
  mail,      \* the actor's mailbox, as far as it is about this group
  result,    \* what the parent's transcript says of the call
  late,      \* where a late record was written down
  faults

parent == <<session, run, cancel>>
group == <<orch, next, sent, slot>>
transcript == <<result, late>>
vars == <<parent, group, child, mail, transcript, faults>>

\* ChildRecord: has a result, and the read and touched paths.
Record == [result : BOOLEAN, read : BOOLEAN, touched : BOOLEAN]
Failed == [result |-> FALSE, read |-> FALSE, touched |-> FALSE]
NoRecord == [result |-> FALSE]

\* The child's task, its run, the event its driver has yet to see of that run, and
\* what became of the work in its worktree.
ChildState ==
  [at : {"none", "setup", "driving", "finish", "over"},
   run : {"idle", "running", "asking", "ended"},
   event : {"none", "proposal", "terminal"},
   work : {"none", "branch", "worktree", "lost"},
   record : Record \union {NoRecord}]
Fresh == [at |-> "none", run |-> "idle", event |-> "none",
          work |-> "none", record |-> NoRecord]
Book == {"none", "parent", "other", "dropped"}
Mail ==
  [kind : {"late"}, child : Children] \union
  [kind : {"ended"}, outcome : {"refused", "cancelled", "settled"}]

TypeOK ==
  /\ session \in {"parent", "other", "none"}
  /\ run \in BOOLEAN /\ cancel \in BOOLEAN
  /\ orch \in {"preflight", "dispatch", "collect", "grace", "stragglers", "done"}
  /\ next \in Nat /\ sent \subseteq Children
  /\ child \in [Children -> ChildState]
  /\ slot \in [Children -> Record \union {NoRecord}]
  /\ mail \in Seq(Mail)
  /\ result \in {"none", "refused", "cancelled", "settled", "ignored"}
  /\ late \in [Children -> Book]
  /\ faults \in 0 .. MaxFaults

Init ==
  /\ session = "parent" /\ run = TRUE /\ cancel = FALSE
  /\ orch = "preflight" /\ next = 1 /\ sent = {}
  /\ child = [i \in Children |-> Fresh]
  /\ slot = [i \in Children |-> NoRecord]
  /\ mail = <<>> /\ result = "none"
  /\ late = [i \in Children |-> "none"] /\ faults = 0

fault == faults < MaxFaults /\ faults' = faults + 1
sound == UNCHANGED faults
post(m) == mail' = Append(mail, m)
ended(outcome) == [kind |-> "ended", outcome |-> outcome]

outstanding == {i \in Children : slot[i] = NoRecord}

--------------------------------------------------------------------------------
(* orchestrate and settle.                                                   *)

\* worktree::preflight and head: a dirty or headless workspace refuses the call.
Preflight ==
  /\ orch = "preflight"
  /\ \/ orch' = "done" /\ post(ended("refused"))
     \/ orch' = "dispatch" /\ UNCHANGED mail
  /\ UNCHANGED <<parent, next, sent, slot, child, transcript, faults>>

\* dispatch_group, child by child, whatever became of the run: a worktree, or
\* a record of the failure.  The announcement changes nothing that matters here.
DispatchChild ==
  /\ orch = "dispatch" /\ next \in Children
  /\ next' = next + 1
  /\ orch' = IF next' \in Children THEN "dispatch" ELSE "collect"
  /\ \/ /\ child' = [child EXCEPT ![next].at = "setup"]
        /\ UNCHANGED slot /\ sound
     \/ /\ slot' = [slot EXCEPT ![next] = Failed]
        /\ UNCHANGED child /\ fault
  /\ UNCHANGED <<parent, sent, mail, transcript>>

\* A slip: only the children dispatched before a reader are looked at.
detect_Earlier(records) ==
  {reader \in Children : records[reader].read /\
     \E writer \in 1 .. reader - 1 : records[writer].touched}

\* detect: a sibling touched what this child read.
detect(records) ==
  {reader \in Children : records[reader].read /\
     \E writer \in Children \ {reader} : records[writer].touched}

\* invalidate_collisions withholds the results that were read stale.
invalidate(records) ==
  [i \in Children |->
     IF i \in detect(records) THEN [records[i] EXCEPT !.result = FALSE] ELSE records[i]]

\* The one loop over the records channel, before and during the grace.
Collect ==
  /\ orch \in {"collect", "grace"}
  /\ \E i \in sent : /\ slot' = [slot EXCEPT ![i] = child[i].record]
                     /\ sent' = sent \ {i}
  /\ UNCHANGED <<parent, orch, next, child, mail, transcript, faults>>

\* Every child reported before the run was cancelled, or nobody looked.
Settle ==
  /\ orch = "collect" /\ outstanding = {}
  /\ orch' = "done" /\ slot' = invalidate(slot)
  /\ post(ended("settled"))
  /\ UNCHANGED <<parent, next, sent, child, transcript, faults>>

\* The run is cancelled while children are outstanding: LATE_GRACE begins.
Cancelled ==
  /\ orch = "collect" /\ cancel /\ outstanding # {}
  /\ orch' = "grace"
  /\ UNCHANGED <<parent, next, sent, slot, child, mail, transcript, faults>>

\* Slips: the group is reported as settled; the grace has no deadline; nobody is
\* left to wait for the stragglers.
GraceEnds_Settled ==
  /\ orch = "grace"
  /\ orch' = IF outstanding = {} THEN "done" ELSE "stragglers"
  /\ post(ended("settled"))
  /\ UNCHANGED <<parent, next, sent, slot, child, transcript, faults>>
GraceEnds_Waits ==
  /\ orch = "grace" /\ outstanding = {}
  /\ orch' = "done" /\ post(ended("cancelled"))
  /\ UNCHANGED <<parent, next, sent, slot, child, transcript, faults>>
GraceEnds_NoTask ==
  /\ orch = "grace"
  /\ orch' = "done" /\ post(ended("cancelled"))
  /\ UNCHANGED <<parent, next, sent, slot, child, transcript, faults>>

\* The grace ends with the last record or at its deadline.  Records that came are
\* dropped with the group, and those still to come are left to the straggler task.
GraceEnds ==
  /\ orch = "grace"
  /\ orch' = IF outstanding = {} THEN "done" ELSE "stragglers"
  /\ post(ended("cancelled"))
  /\ UNCHANGED <<parent, next, sent, slot, child, transcript, faults>>

\* The straggler task.
ReportLate ==
  /\ orch = "stragglers"
  /\ \E i \in sent : sent' = sent \ {i} /\ post([kind |-> "late", child |-> i])
  /\ UNCHANGED <<parent, orch, next, slot, child, transcript, faults>>

Orchestrate == \/ Preflight \/ DispatchChild \/ Collect \/ Settle
               \/ Cancelled \/ GraceEnds \/ ReportLate
--------------------------------------------------------------------------------
(* run_child: the driver of a child, its run, and worktree::finish.          *)

child_step(i, changed) ==
  /\ child' = [child EXCEPT ![i] = changed]
  /\ UNCHANGED <<parent, group, mail, transcript>>

\* drive_child up to the directive, which is sent whether the token is cancelled or
\* not; or a child that cannot be set up or does not become ready.
Setup(i) ==
  /\ child[i].at = "setup"
  /\ \/ child_step(i, [child[i] EXCEPT !.at = "driving", !.run = "running"]) /\ sound
     \/ child_step(i, [child[i] EXCEPT !.at = "finish", !.record = Failed]) /\ fault

\* The child's run proposes a call its policy would ask about, and waits.
Ask(i) ==
  /\ child[i].run = "running" /\ child[i].event = "none"
  /\ child_step(i, [child[i] EXCEPT !.run = "asking", !.event = "proposal"]) /\ sound

\* The child's run ends: of itself, by its budget's deadline, or cancelled.
RunEnds(i) ==
  /\ child[i].run \in {"running", "asking"}
  /\ child_step(i, [child[i] EXCEPT !.run = "ended", !.event = "terminal"]) /\ sound

\* The driver lags behind the bounded broadcast and goes on without the event.
Lagged(i) ==
  /\ child[i].at = "driving" /\ child[i].event # "none"
  /\ child_step(i, [child[i] EXCEPT !.event = "none"]) /\ fault

\* A proposal is denied: a child has nobody to ask.
Deny(i) ==
  /\ child[i].at = "driving" /\ child[i].event = "proposal"
  /\ child_step(i, [child[i] EXCEPT !.event = "none",
                      !.run = IF @ = "asking" THEN "running" ELSE @]) /\ sound

\* The driver sees the end of the child's run and closes its runtime.
SeeEnd(i) ==
  /\ child[i].at = "driving" /\ child[i].event = "terminal"
  /\ \E reported, read \in BOOLEAN :
       /\ read => reported
       /\ child_step(i, [child[i] EXCEPT !.at = "finish", !.event = "none",
                        !.record = [Failed EXCEPT !.result = reported, !.read = read]])
  /\ sound

\* worktree::finish, of a child that left no work, committed it, or did not: what
\* is uncommitted is committed, else kept where it is; a status that fails reads as
\* a clean tree, and the tree is removed.  Only a branch that can be compared with
\* the base shows what the child touched.
FinishChild(i) ==
  /\ child[i].at = "finish"
  /\ \E work \in {"none", "branch", "worktree", "lost"}, touched \in BOOLEAN :
       /\ child[i].run = "idle" => work = "none"
       /\ touched => work = "branch"
       /\ child' = [child EXCEPT ![i].at = "over", ![i].work = work,
                      ![i].record.touched = touched]
       /\ IF work = "none" \/ touched THEN sound ELSE fault
  /\ sent' = sent \union {i}
  /\ UNCHANGED <<parent, orch, next, slot, mail, transcript>>

ChildStep(i) == \/ Setup(i) \/ Ask(i) \/ RunEnds(i) \/ Lagged(i) \/ Deny(i)
                \/ SeeEnd(i) \/ FinishChild(i)

--------------------------------------------------------------------------------
(* The parent's actor and the human.                                         *)

\* handle_subagent_notice appends to whatever session is open when it comes; of a
\* run that is over, handle_tool_ended records nothing.
HandleMail ==
  /\ mail # <<>> /\ mail' = Tail(mail)
  /\ LET m == Head(mail)
         book(where) == late' = [late EXCEPT ![m.child] = where]
     IN  \/ /\ m.kind = "late" /\ UNCHANGED <<run, result>>
            /\ \/ book(IF session = "none" THEN "dropped" ELSE session) /\ sound
               \/ session # "none" /\ book("dropped") /\ fault
         \/ /\ m.kind = "ended"
            /\ result' = IF run THEN m.outcome ELSE "ignored"
            /\ run' = (run /\ m.outcome # "cancelled")
            /\ UNCHANGED late /\ sound
  /\ UNCHANGED <<session, cancel, group, child>>

\* cancel_run, in the Tool phase: the token, and the group will end the run.
CancelRun ==
  /\ run /\ ~cancel /\ cancel' = TRUE
  /\ UNCHANGED <<session, run, group, child, mail, transcript, faults>>

\* exhaust_budget: the token, and the run is over at once.
BudgetExpired ==
  /\ run /\ run' = FALSE /\ cancel' = TRUE
  /\ UNCHANGED <<session, group, child, mail, transcript, faults>>

\* Between runs the human leaves the session and opens one.
SwitchSession ==
  /\ ~run
  /\ session' \in IF session = "none" THEN {"parent", "other"} ELSE {"none"}
  /\ UNCHANGED <<run, cancel, group, child, mail, transcript, faults>>

Next ==
  \/ Orchestrate
  \/ \E i \in Children : ChildStep(i)
  \/ HandleMail \/ CancelRun \/ BudgetExpired \/ SwitchSession

\* The runtime polls every task; git calls and provider turns end; the deadline of
\* a run, the parent's or a child's, and that of the grace are timers.
Fairness ==
  /\ WF_vars(Preflight) /\ WF_vars(DispatchChild) /\ SF_vars(Collect)
  /\ WF_vars(Settle) /\ WF_vars(Cancelled) /\ WF_vars(GraceEnds)
  /\ WF_vars(ReportLate) /\ WF_vars(HandleMail) /\ WF_vars(BudgetExpired)
  /\ \A i \in Children :
       /\ WF_vars(Setup(i)) /\ WF_vars(RunEnds(i))
       /\ WF_vars(SeeEnd(i)) /\ WF_vars(FinishChild(i))

Spec == Init /\ [][Next]_vars
FairSpec == Spec /\ Fairness

--------------------------------------------------------------------------------
(* Properties                                                               *)

\* A group settles once and with every record: the result on the transcript is made
\* of what each child reported, and no child of it is reported late as well.
SettledIsComplete ==
  result = "settled" =>
    \A i \in Children : slot[i] # NoRecord /\ late[i] = "none"

\* Where every git call answered, no result the transcript holds rests on a path
\* that a sibling's branch changed.
VerifiedIsFresh ==
  result = "settled" /\ faults = 0 =>
    \A reader, writer \in Children :
      reader # writer /\ slot[reader].result /\ slot[reader].read =>
        child[writer].work # "branch"

\* The parent's run never waits on a group for good: it settles, if only by the
\* deadline of the run and of the grace, whatever children do or events are lost.
GroupSettles == orch = "dispatch" ~> orch \in {"done", "stragglers"}

\* A child that is over is heard of: its record is collected, or it reaches the
\* actor as a late one.
EveryChildIsHeardOf ==
  \A i \in Children :
    child[i].at = "over" ~> slot[i] # NoRecord \/ late[i] # "none"

\* subagent/mod.rs: a record that arrives after settlement is "persisted as such --
\* never dropped".  Refuted: it is written into whatever session is then open, or,
\* when none is, nowhere.
LateIsPersisted == \A i \in Children : late[i] \in {"none", "parent"}

\* subagent/mod.rs, LATE_GRACE: records of stragglers are "still awaited so they can
\* be recorded as late".  Refuted: those that come within the grace are dropped.
GraceIsRecorded ==
  result = "cancelled" => \A i \in Children : slot[i].result => late[i] # "none"

\* worktree::finish: "Preserve uncommitted child work, then remove the worktree."
\* Refuted: when git status fails the tree is taken for clean, and removed.
WorkIsPreserved == \A i \in Children : child[i].work # "lost"
================================================================================
