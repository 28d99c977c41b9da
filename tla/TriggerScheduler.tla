---------------------------- MODULE TriggerScheduler ---------------------------
(***************************************************************************)
(* One trigger of the scheduler, src/src/triggers/scheduler.rs: its loop,    *)
(* the firings it spawns, the listener that feeds it and the log of its      *)
(* control session, across failing store calls, crashes and restarts.        *)
(*                                                                          *)
(* The log is what control::replay folds it to.  The loop is suspended at    *)
(* `at`; firings, listener, clock and the human at the command line run      *)
(* beside it.  The append of TriggerFired, TriggerSkipped or TriggerQueued   *)
(* changes nothing a replay reads and is left out.                           *)
(***************************************************************************)
EXTENDS Integers, Sequences

CONSTANTS
  OverlapPolicies,           \* the overlap policies a definition may name
  max_consecutive_failures,  \* failures in a row that disable the trigger
  MaxFirings,                \* bound: firings alive at once
  MaxFaults                  \* bound: failing store calls and crashes

ASSUME TriggerAssumption ==
  /\ OverlapPolicies \subseteq {"Skip", "Queue", "Replace"}
  /\ max_consecutive_failures \in Nat \ {0}
  /\ MaxFirings \in Nat /\ MaxFaults \in Nat

Firing == 1 .. MaxFirings
NoFiring == 0
Payload == {"body", "none"}

VARIABLES
  overlap,        \* definition.overlap
  source,         \* definition.source, and whether it can produce occurrences
  failures,       \* the log: consecutive_failures
  disabled,       \* the log: disabled_reason is some
  at,             \* where the trigger's loop is suspended
  in_flight,      \* the firing whose token the loop holds
  queued,         \* the one queued occurrence
  inbox,          \* the webhook channel, of capacity one
  due,            \* the schedule's next instant has come during this wait
  mail,           \* the settlement channel, of capacity two
  firing,         \* the spawned firings
  shutdown,       \* the scheduler's cancellation token
  faults          \* history: failing store calls and crashes so far

definition == <<overlap, source>>
log == <<failures, disabled>>
slots == <<in_flight, queued>>
feed == <<inbox, due>>
spawned == <<mail, firing>>
vars == <<definition, log, at, slots, feed, spawned, shutdown, faults>>

\* A working schedule or listener; a schedule with no next instant; a listener
\* whose port could not be bound, which drops the sending side of its channel.
Source == {"schedule", "webhook", "never", "unbound"}
At == {"check", "asleep", "select", "count", "requeue", "stopped"}

\* Of a TriggerOutcome the scheduler uses counts_as_failure; a firing that was told
\* to stop may still come to any of them.  Names of firings are reused.
FiringState ==
  [state : {"none", "running", "ended", "sent"}, failed : BOOLEAN, input : Payload]
Unborn == [state |-> "none", failed |-> FALSE, input |-> "none"]

TypeOK ==
  /\ overlap \in OverlapPolicies /\ source \in Source
  /\ failures \in Nat /\ disabled \in BOOLEAN
  /\ at \in At
  /\ in_flight \in Firing \union {NoFiring} /\ queued \in BOOLEAN
  /\ inbox \in {<<>>, <<"body">>} /\ due \in BOOLEAN
  /\ mail \in Seq(Firing) /\ Len(mail) <= 2
  /\ firing \in [Firing -> FiringState]
  /\ shutdown \in BOOLEAN
  /\ faults \in 0 .. MaxFaults

Init ==
  /\ overlap \in OverlapPolicies /\ source \in Source
  /\ failures = 0 /\ disabled = FALSE
  /\ at = "check" /\ in_flight = NoFiring /\ queued = FALSE
  /\ inbox = <<>> /\ due = FALSE /\ mail = <<>>
  /\ firing = [i \in Firing |-> Unborn]
  /\ shutdown = FALSE /\ faults = 0

\* A store call that fails is a fault; the scheduler ignores every one of them
\* but a failing read of its history at the top of the loop.
fault == faults < MaxFaults /\ faults' = faults + 1
sound == UNCHANGED faults

--------------------------------------------------------------------------------
(* What an occurrence means: overlap.rs and handle_occurrence.               *)

\* A slip: the occurrence that finds the queue slot taken is started.
decide_FullStarts(policy, busy, already_queued) ==
  IF ~busy \/ (policy = "Queue" /\ already_queued) THEN "Start"
  ELSE [Skip |-> "Skip", Queue |-> "Queue", Replace |-> "Replace"][policy]

\* overlap::decide.
decide(policy, busy, already_queued) ==
  IF ~busy THEN "Start"
  ELSE CASE policy = "Skip" -> "Skip"
         [] policy = "Queue" -> IF already_queued THEN "Skip" ELSE "Queue"
         [] policy = "Replace" -> "Replace"

\* start_firing: a fresh session on a task of its own, whose token the loop keeps.
start_firing(payload) ==
  \E i \in Firing :
    /\ firing[i] = Unborn /\ \A j \in 1 .. i - 1 : firing[j] # Unborn
    /\ in_flight' = i
    /\ firing' = [firing EXCEPT ![i] =
                    [Unborn EXCEPT !.state = "running", !.input = payload]]

\* handle_occurrence.  A replacement cancels and drops the token the loop holds;
\* `was_queued` is the slot as the caller leaves it.
handle_occurrence(payload, was_queued) ==
  LET decision == decide(overlap, in_flight # NoFiring, was_queued)
  IN  \/ /\ decision \in {"Start", "Replace"}
         /\ start_firing(payload) /\ queued' = was_queued
      \/ /\ decision \in {"Skip", "Queue"}
         /\ queued' = (was_queued \/ decision = "Queue")
         /\ UNCHANGED <<in_flight, firing>>

--------------------------------------------------------------------------------
(* The trigger's loop: run_trigger and TriggerLoop::tick.                    *)

\* trigger_is_disabled: replay the control session.  A history that cannot be
\* read stops the trigger.
Check ==
  /\ at = "check"
  /\ \/ at' = (IF disabled THEN "asleep" ELSE "select") /\ sound
     \/ at' = "stopped" /\ fault
  /\ UNCHANGED <<definition, log, slots, feed, spawned, shutdown>>

\* The pause of a disabled trigger: REARM_POLL, or the scheduler's end.
Asleep ==
  /\ at = "asleep"
  /\ at' = "check" \/ (shutdown /\ at' = "stopped")
  /\ UNCHANGED <<definition, log, slots, feed, spawned, shutdown, faults>>

\* tick, first branch: the scheduler ends and cancels the firing in flight.
TakeCancel ==
  /\ at = "select" /\ shutdown
  /\ at' = "stopped" /\ in_flight' = NoFiring
  /\ UNCHANGED <<definition, log, queued, feed, spawned, shutdown, faults>>

\* tick, second branch: wait_for_occurrence returns.  The wait of a schedule with
\* no next instant ends after RECHECK_IDLE, and the channel of a listener that could
\* not be bound, or that has ended with the scheduler, is closed: all return without
\* a payload, which is an occurrence to the caller.
TakeOccurrence ==
  /\ at = "select" /\ at' = "check"
  /\ \/ source = "webhook" /\ (inbox # <<>> \/ shutdown)
     \/ source = "schedule" /\ due
     \/ source \in {"never", "unbound"}
  /\ handle_occurrence(IF inbox # <<>> THEN "body" ELSE "none", queued)
  /\ inbox' = <<>> /\ due' = FALSE
  /\ UNCHANGED <<definition, log, mail, shutdown, faults>>

\* tick, third branch, up to record_settlement's append.  The wait for the next
\* occurrence is dropped: an instant that had come is lost to a later one.
TakeSettlement ==
  /\ at = "select" /\ mail # <<>>
  /\ LET i == Head(mail)
     IN  /\ firing' = [firing EXCEPT ![i] = Unborn]
         /\ \/ failures' = (IF firing[i].failed THEN failures + 1 ELSE 0) /\ sound
            \/ UNCHANGED failures /\ fault
         /\ at' = IF firing[i].failed THEN "count" ELSE "requeue"
  /\ in_flight' = NoFiring /\ mail' = Tail(mail) /\ due' = FALSE
  /\ UNCHANGED <<definition, disabled, queued, inbox, shutdown>>

\* A slip: the limit itself is not enough.
Count_Past ==
  /\ at = "count" /\ at' = "requeue"
  /\ \/ disabled' = (disabled \/ failures > max_consecutive_failures) /\ sound
     \/ UNCHANGED disabled /\ fault
  /\ UNCHANGED <<definition, failures, slots, feed, spawned, shutdown>>

\* record_settlement: enough failures in a row disable the trigger.
Count ==
  /\ at = "count" /\ at' = "requeue"
  /\ \/ disabled' = (disabled \/ failures >= max_consecutive_failures) /\ sound
     \/ UNCHANGED disabled /\ fault
  /\ UNCHANGED <<definition, failures, slots, feed, spawned, shutdown>>

\* A slip: nobody looks at the queue slot after a settlement.
Requeue_Never ==
  /\ at = "requeue" /\ at' = "check"
  /\ UNCHANGED <<definition, log, slots, feed, spawned, shutdown, faults>>

\* tick: the occurrence that waited for this settlement, whose payload is gone.
Requeue ==
  /\ at = "requeue" /\ at' = "check"
  /\ \/ queued /\ handle_occurrence("none", FALSE)
     \/ ~queued /\ UNCHANGED <<slots, firing>>
  /\ UNCHANGED <<definition, log, feed, mail, shutdown, faults>>

Loop == \/ Check \/ Asleep \/ TakeCancel \/ TakeOccurrence \/ TakeSettlement
        \/ Count \/ Requeue

--------------------------------------------------------------------------------
(* Beside the loop.                                                          *)

\* fire: setup, headless::run or the token, close; and what it came to.
FiringEnds(i) ==
  /\ firing[i].state = "running"
  /\ \E failed \in BOOLEAN :
       firing' = [firing EXCEPT ![i].state = "ended", ![i].failed = failed]
  /\ UNCHANGED <<definition, log, at, slots, feed, mail, shutdown, faults>>

\* A slip: a full channel loses the settlement.
FiringSettles_TrySend(i) ==
  /\ firing[i].state = "ended"
  /\ LET room == at # "stopped" /\ Len(mail) < 2
     IN  /\ mail' = IF room THEN Append(mail, i) ELSE mail
         /\ firing' = IF room THEN [firing EXCEPT ![i].state = "sent"]
                              ELSE [firing EXCEPT ![i] = Unborn]
  /\ UNCHANGED <<definition, log, at, slots, feed, shutdown, faults>>

\* settle_tx.send: waits for room, and fails once the loop is gone.
FiringSettles(i) ==
  /\ firing[i].state = "ended"
  /\ \/ /\ at # "stopped" /\ Len(mail) < 2
        /\ mail' = Append(mail, i)
        /\ firing' = [firing EXCEPT ![i].state = "sent"]
     \/ /\ at = "stopped"
        /\ firing' = [firing EXCEPT ![i] = Unborn]
        /\ UNCHANGED mail
  /\ UNCHANGED <<definition, log, at, slots, feed, shutdown, faults>>

\* webhook::handle_connection: try_send, or 429 and 503, which leave no trace.
Post ==
  /\ source = "webhook" /\ at # "stopped" /\ inbox = <<>>
  /\ inbox' = <<"body">>
  /\ UNCHANGED <<definition, log, at, slots, due, spawned, shutdown, faults>>

\* The schedule's next instant: missed unless the loop is waiting for it.
Tick ==
  /\ source = "schedule" /\ at = "select" /\ ~due
  /\ due' = TRUE
  /\ UNCHANGED <<definition, log, at, slots, inbox, spawned, shutdown, faults>>

\* `mjolnr triggers rearm`.
Rearm ==
  /\ disabled
  /\ disabled' = FALSE /\ failures' = 0
  /\ UNCHANGED <<definition, at, slots, feed, spawned, shutdown, faults>>

\* The scheduler is told to end.
Cancel ==
  /\ ~shutdown /\ shutdown' = TRUE
  /\ UNCHANGED <<definition, log, at, slots, feed, spawned, faults>>

\* The process is gone, on request or not, and all but the log with it; a new one
\* takes the trigger up.
Restart ==
  /\ (shutdown /\ at = "stopped" /\ sound) \/ fault
  /\ at' = "check" /\ in_flight' = NoFiring /\ queued' = FALSE
  /\ inbox' = <<>> /\ due' = FALSE /\ mail' = <<>>
  /\ firing' = [i \in Firing |-> Unborn]
  /\ shutdown' = FALSE
  /\ UNCHANGED <<definition, log>>

Next ==
  \/ Loop
  \/ \E i \in Firing : FiringEnds(i) \/ FiringSettles(i)
  \/ Post \/ Tick \/ Rearm \/ Cancel \/ Restart

\* The runtime polls the loop and the firings, the wall-clock budget of a firing
\* ends it, and select! picks among its ready branches at random.
Fairness ==
  /\ WF_vars(Check) /\ WF_vars(Asleep) /\ WF_vars(Count) /\ WF_vars(Requeue)
  /\ SF_vars(TakeSettlement)
  /\ \A i \in Firing : WF_vars(FiringEnds(i)) /\ SF_vars(FiringSettles(i))

Spec == Init /\ [][Next]_vars
FairSpec == Spec /\ Fairness

--------------------------------------------------------------------------------
(* Properties                                                               *)

live(i) == firing[i].state # "none"

\* Unless occurrences replace each other, a trigger never runs two firings at
\* once, and the loop holds the token of the one it runs.
OneFiring ==
  overlap # "Replace" /\ at # "stopped" =>
    \A i \in Firing : live(i) => in_flight = i

\* The loop waits for a settlement only while one can still come: the firing it
\* holds is alive or its settlement is in the channel, and an occurrence is queued
\* only behind such a firing or behind the settlement being recorded.
NeverWedged ==
  at # "stopped" =>
    /\ in_flight # NoFiring => live(in_flight)
    /\ queued => in_flight # NoFiring \/ at \in {"count", "requeue"}
    /\ \A i \in Firing :
         firing[i].state = "sent" => \E n \in DOMAIN mail : mail[n] = i

\* A trigger that keeps failing is disabled: between settlements, the failures on
\* record reach the limit only by as many as store calls failed or processes died.
BrokenTriggerIsDisabled ==
  at \in {"check", "select"} /\ ~disabled =>
    failures < max_consecutive_failures + faults

\* A queued occurrence fires, unless its trigger is disabled or its process ends.
QueuedFires == queued ~> ~queued \/ disabled \/ shutdown \/ at = "stopped"

\* overlap.rs: "Nothing is in flight: start immediately."  Refuted under Replace:
\* the settlement of the firing that was cancelled clears the token of the one that
\* replaced it, and the next occurrence is started beside that one.
StartMeansNothingInFlight ==
  [][(in_flight = NoFiring /\ in_flight' # NoFiring) => \A i \in Firing : ~live(i)]_vars

\* core/event.rs, TriggerDisabled: "It fires no more occurrences until a human
\* re-arms it."  Refuted: the occurrence queued behind the failure that disables
\* the trigger is fired by the same tick.
DisabledFiresNoMore ==
  [][disabled => in_flight' \in {in_flight, NoFiring}]_vars

\* scheduler.rs, RECHECK_IDLE: a schedule with no next firing is "re-checked on
\* this cadence".  Refuted: the re-check is taken for an occurrence, and fires.
FiringsWereDue ==
  \A i \in Firing : live(i) => source \in {"schedule", "webhook"}

\* webhook.rs: "a request whose body becomes the firing's canonical input".
\* Refuted: the queue slot does not hold the body.
WebhookFiringCarriesItsBody ==
  \A i \in Firing : source = "webhook" /\ live(i) => firing[i].input = "body"
================================================================================
