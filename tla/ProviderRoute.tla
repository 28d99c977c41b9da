----------------------------- MODULE ProviderRoute -----------------------------
(***************************************************************************)
(* Which provider a run asks next: the attached route and its hops, one       *)
(* circuit breaker per provider, the quota reserve, the landing of a handoff. *)
(* core/routing.rs, runtime/routing.rs, runtime/provider_loop.rs, runtime/    *)
(* continuation.rs and runtime/model_selection.rs.                            *)
(*                                                                          *)
(* `at` is where the actor is in the handler chain that prepares a request;   *)
(* other mail is only handled while it waits.  A hop is its provider, tools    *)
(* are one step, and what clocks decide is nondeterministic.                  *)
(***************************************************************************)
EXTENDS Integers, Sequences

CONSTANTS
  Provider,            \* the connected providers
  Route,               \* the hops of the one route that can be attached
  failure_threshold,   \* BreakerConfig: failures in a row that open a breaker
  max_provider_turns,  \* BudgetLimits
  Configured,          \* whether quota_token_budget is configured
  MaxFaults            \* bound: appends that fail

ASSUME RouteAssumption ==
  /\ Route \in Seq(Provider) /\ Route # <<>>
  /\ failure_threshold \in Nat \ {0} /\ max_provider_turns \in Nat \ {0}
  /\ Configured \in BOOLEAN /\ MaxFaults \in Nat

VARIABLES
  provider,  \* state.provider
  position,  \* state.route: the position on the route, 0 when none is attached
  breaker,   \* state.breakers
  reserve,   \* state.quota_reserve: who reported it, and its phase
  used,      \* the phase the session's usage is in against the token budget
  steering,  \* text is queued for the run
  at,        \* where the actor is with the run
  run,       \* the active run, or NoRun
  faults     \* history: appends that failed; the first one blocks new runs

session == <<provider, position, breaker, reserve, used>>
vars == <<session, steering, at, run, faults>>

Phase == {"Monitoring", "Draining", "Stopped"}
At == {"idle", "begin", "gate", "sent", "tools", "stop", "stuck"}
ReserveStatus == [basis : {"Unavailable", "Reported", "Configured"}, phase : Phase]
NoReserve == [basis |-> "Unavailable", phase |-> "Monitoring"]
Breaker == [state : {"Closed", "Open", "HalfOpen"}, failures : 0 .. failure_threshold]
CircuitBreaker == [state |-> "Closed", failures |-> 0]

NoTarget == "no target"
NoRun == [provider |-> NoTarget]
Intent == {"Normal", "ManualHandoff", "QuotaDrain"}
ActiveRun ==
  [provider : Provider, turns : 0 .. max_provider_turns, intent : Intent,
   hard_stop : BOOLEAN, pending_drain : BOOLEAN, cancelled : BOOLEAN,
   target : Provider \union {NoTarget}, over : SUBSET Provider, live : BOOLEAN]

TypeOK ==
  /\ provider \in Provider /\ position \in 0 .. Len(Route)
  /\ breaker \in [Provider -> Breaker]
  /\ reserve \in ReserveStatus /\ used \in Phase /\ steering \in BOOLEAN
  /\ at \in At /\ run \in ActiveRun \union {NoRun} /\ (at = "idle" <=> run = NoRun)
  /\ faults \in 0 .. MaxFaults

Init ==
  /\ provider \in Provider /\ position = 0
  /\ breaker = [p \in Provider |-> CircuitBreaker]
  /\ reserve = NoReserve /\ used = "Monitoring" /\ steering = FALSE
  /\ at = "idle" /\ run = NoRun /\ faults = 0

fault == faults < MaxFaults /\ faults' = faults + 1
sound == UNCHANGED faults

\* The provider is the one the route stands at, if a route is attached.
OnRoute == position # 0 => provider = Route[position]

\* The active run a directive or a handoff starts.  Two histories: `over` holds the
\* providers whose reserve was reported past its hard threshold during the run, and
\* `live` says that the run started on the route.
new_run(intent, target) ==
  [provider |-> provider, turns |-> 0, intent |-> intent, hard_stop |-> FALSE,
   pending_drain |-> FALSE, cancelled |-> FALSE, target |-> target, over |-> {},
   live |-> OnRoute]

\* finish_run, fail_run, exhaust_budget, halt_for_store: the run is taken.
ends == at' = "idle" /\ run' = NoRun

--------------------------------------------------------------------------------
(* CircuitBreaker.                                                           *)

permits_request(b) == b.state \in {"Closed", "HalfOpen"}

on_failure(b) ==
  CASE b.state = "Closed" ->
         [state |-> IF b.failures + 1 < failure_threshold THEN "Closed" ELSE "Open",
          failures |-> b.failures + 1]
    [] b.state = "HalfOpen" -> [state |-> "Open", failures |-> failure_threshold]
    [] b.state = "Open" -> b

on_success(b) == IF b.state = "Open" THEN b ELSE CircuitBreaker

\* The breakers after a request of the current hop's provider, which only count
\* while a route is attached.
charged(b) ==
  breaker' = IF position = 0 THEN breaker ELSE [breaker EXCEPT ![provider] = b]

--------------------------------------------------------------------------------
(* try_advance_route.                                                        *)

\* A slip: the session moves to the next hop, and the active run does not.
try_advance_route_Session(next, left) ==
  \/ /\ position < Len(Route) /\ sound
     /\ position' = position + 1 /\ provider' = Route[position + 1]
     /\ reserve' = NoReserve /\ UNCHANGED run
     /\ at' = next
  \/ /\ position = Len(Route) /\ sound
     /\ ends /\ reserve' = left /\ UNCHANGED <<provider, position>>

\* The next hop, with a reserve and an intent of its own, and where the actor
\* goes on; the end of the route, or an append that fails, with the reserve there is.
try_advance_route(next, left) ==
  \/ /\ position < Len(Route) /\ sound
     /\ position' = position + 1 /\ provider' = Route[position + 1]
     /\ reserve' = NoReserve
     /\ run' = [run EXCEPT !.provider = provider', !.hard_stop = FALSE,
                           !.pending_drain = FALSE, !.intent = "Normal"]
     /\ at' = next
  \/ /\ position = Len(Route) /\ sound
     /\ ends /\ reserve' = left /\ UNCHANGED <<provider, position>>
  \/ /\ fault /\ ends
     /\ reserve' = left /\ UNCHANGED <<provider, position>>

--------------------------------------------------------------------------------
(* begin_provider_turn, step by step.                                        *)

worse(phase) == IF phase = "Monitoring" THEN {"Draining", "Stopped"} ELSE {"Stopped"}

\* deliver_steering: text that cannot be recorded is not sent, and neither is the
\* request; nothing else happens to the run.
SteeringFails ==
  /\ at = "begin" /\ steering
  /\ fault /\ at' = "stuck" /\ steering' = FALSE
  /\ UNCHANGED <<session, run>>

\* What apply_configured_quota makes of the reserve and the run; a reserve that the
\* provider itself reported is left alone.
configured(active) ==
  LET applies == Configured /\ reserve.basis # "Reported"
      normal == applies /\ active.intent = "Normal"
  IN  [reserve |-> IF applies THEN [basis |-> "Configured", phase |-> used]
                   ELSE IF reserve.basis = "Reported" THEN reserve ELSE NoReserve,
       run |-> [active EXCEPT
                  !.pending_drain = @ \/ (normal /\ used = "Draining"),
                  !.hard_stop = @ \/ (normal /\ used = "Stopped")]]

\* Steering, the quota, the turn budget, a hard stop; else the gate.
Begin ==
  /\ at = "begin" /\ steering' = FALSE
  /\ LET after == configured(run)
         hard == after.run.hard_stop /\ run.intent = "Normal"
     IN  /\ reserve' = after.reserve
         /\ \/ /\ hard /\ ~run.hard_stop
               /\ at' = "stop" /\ run' = after.run
            \/ /\ ~hard \/ run.hard_stop
               /\ run.turns >= max_provider_turns /\ ends
            \/ /\ ~hard \/ run.hard_stop
               /\ run.turns < max_provider_turns
               /\ at' = IF hard THEN "stop" ELSE "gate"
               /\ run' = after.run
  /\ UNCHANGED <<provider, position, breaker, used, faults>>

\* stop_for_quota: with a route, the handoff artifact and the next hop; without one the
\* run fails, or is halted by its history.
StopForQuota ==
  /\ at = "stop"
  /\ LET stopped == [reserve EXCEPT !.phase = "Stopped"]
     IN  \/ /\ position = 0 /\ ends /\ (sound \/ fault)
            /\ reserve' = stopped /\ UNCHANGED <<provider, position>>
         \/ position # 0 /\ try_advance_route("begin", stopped)
  /\ UNCHANGED <<breaker, used, steering>>

\* route_breaker_gate, past a breaker that permits: the request is sent, and a
\* pending drain makes it the landing turn; or it cannot be put together, for an
\* image that is gone, and the run fails.
Send ==
  /\ at = "gate"
  /\ \/ position = 0 /\ UNCHANGED breaker
     \/ position # 0 /\ permits_request(breaker[provider]) /\ UNCHANGED breaker
     \/ /\ position # 0 /\ breaker[provider].state = "Open"   \* poll: time is up
        /\ breaker' = [breaker EXCEPT ![provider].state = "HalfOpen"]
  /\ LET lands == run.pending_drain /\ run.intent = "Normal"
     IN  /\ \/ at' = "sent"
               /\ run' = [run EXCEPT !.turns = @ + 1, !.pending_drain = FALSE,
                            !.intent = IF lands THEN "QuotaDrain" ELSE @]
            \/ ends
         /\ reserve' = IF lands THEN [reserve EXCEPT !.phase = "Draining"]
                       ELSE reserve
  /\ UNCHANGED <<provider, position, used, steering, faults>>

\* route_breaker_gate at an open breaker: the next hop's gate.
SkipHop ==
  /\ at = "gate" /\ position # 0 /\ ~permits_request(breaker[provider])
  /\ try_advance_route("gate", reserve)
  /\ UNCHANGED <<breaker, used, steering>>

--------------------------------------------------------------------------------
(* What the actor handles while the run waits.                               *)

\* A slip: a later report of the same turn takes the hard stop back.
ObserveQuota_Unlatched(phase) ==
  /\ at = "sent" /\ reserve' = [basis |-> "Reported", phase |-> phase]
  /\ run' = [run EXCEPT
       !.hard_stop = phase = "Stopped",
       !.over = @ \union (IF phase = "Stopped" THEN {run.provider} ELSE {})]
  /\ UNCHANGED <<provider, position, breaker, used, steering, at, faults>>

\* observe_quota of a report of the provider that was asked.
ObserveQuota(phase) ==
  /\ at = "sent" /\ reserve' = [basis |-> "Reported", phase |-> phase]
  /\ \/ /\ sound /\ UNCHANGED at
        /\ run' = [run EXCEPT
             !.pending_drain = @ \/ (phase = "Draining" /\ run.intent = "Normal"),
             !.hard_stop = @ \/ phase = "Stopped",
             !.over = @ \union (IF phase = "Stopped" THEN {run.provider} ELSE {})]
     \/ phase # "Monitoring" /\ fault /\ ends
  /\ UNCHANGED <<provider, position, breaker, used, steering>>

\* apply_handoff_swap, once it is recorded.
swapped == provider' = run.target /\ reserve' = NoReserve

\* finish_run: a landing leaves its artifact, and a handoff swaps the model if the
\* swap can be recorded.
finish_run ==
  \/ /\ run.intent = "Normal" /\ ends /\ sound
     /\ UNCHANGED <<provider, reserve>>
  \/ /\ run.intent = "QuotaDrain" /\ ends /\ sound
     /\ reserve' = [reserve EXCEPT !.phase = "Stopped"] /\ UNCHANGED provider
  \/ /\ run.intent = "ManualHandoff" /\ ends
     /\ \/ run.target # NoTarget /\ swapped /\ sound
        \/ run.target = NoTarget /\ UNCHANGED <<provider, reserve>> /\ sound
        \/ run.target # NoTarget /\ UNCHANGED <<provider, reserve>> /\ fault
  \/ /\ fault /\ ends
     /\ \/ run.intent = "ManualHandoff" /\ run.target # NoTarget /\ swapped
        \/ UNCHANGED <<provider, reserve>>

\* handle_provider_turn_ended, when nothing stops the run for its quota: usage may
\* have grown, and the outcome is calls, an answer, a failure, a cancellation, or
\* one that no breaker is charged for: a lost task, a message that is not recorded.
TurnEnds ==
  /\ at = "sent" /\ ~(run.hard_stop /\ run.intent = "Normal")
  /\ \/ /\ charged(on_success(breaker[provider])) /\ at' = "tools"
        /\ UNCHANGED <<provider, position, reserve, run>> /\ sound
     \/ /\ charged(on_success(breaker[provider])) /\ UNCHANGED position
        /\ \/ /\ run.intent = "Normal" /\ run.pending_drain /\ at' = "begin"
              /\ UNCHANGED <<provider, reserve, run>> /\ sound
           \/ /\ ~(run.intent = "Normal" /\ run.pending_drain)
              /\ finish_run
     \/ /\ run.cancelled /\ finish_run /\ UNCHANGED <<position, breaker>>
     \/ /\ charged(on_failure(breaker[provider]))
        /\ \/ position # 0 /\ try_advance_route("begin", reserve)
           \/ /\ position = 0 /\ ends /\ (sound \/ fault)
              /\ UNCHANGED <<provider, position, reserve>>
     \/ /\ UNCHANGED <<provider, position, reserve, breaker>>
        /\ \/ ends /\ sound
           \/ fault /\ ends
  /\ used' \in {used} \union (IF Configured THEN worse(used) ELSE {})
  /\ UNCHANGED steering

\* The same when it does: whatever the outcome was, it is not looked at.
TurnEndsForQuota ==
  /\ at = "sent" /\ run.hard_stop /\ run.intent = "Normal"
  /\ at' = "stop"
  /\ UNCHANGED <<session, steering, run, faults>>

\* The calls are done, and the model is asked again.
ToolsEnd ==
  /\ at = "tools"
  /\ \/ at' = "begin" /\ UNCHANGED <<provider, reserve, run>> /\ sound
     \/ run.cancelled /\ finish_run
  /\ UNCHANGED <<position, breaker, used, steering>>

waiting == at \in {"sent", "tools", "stuck"}

\* steer, during a run.
Steer ==
  /\ waiting /\ steering' = TRUE
  /\ UNCHANGED <<session, at, run, faults>>

\* start_handoff, during a run: the run will land, unless it is landing already.
AskHandoff(target) ==
  /\ waiting
  /\ run' = [run EXCEPT !.target = target,
               !.intent = IF @ = "Normal" THEN "ManualHandoff" ELSE @]
  /\ UNCHANGED <<session, steering, at, faults>>

\* cancel_run: the token.
CancelRun ==
  /\ waiting /\ run' = [run EXCEPT !.cancelled = TRUE]
  /\ UNCHANGED <<session, steering, at, faults>>

\* A slip: the deadline only stops a request or a tool that is under way.
BudgetExpired_Working ==
  /\ at \in {"sent", "tools"} /\ ~run.cancelled /\ ends
  /\ UNCHANGED <<session, steering, faults>>

\* exhaust_budget, at the deadline of a run whose token, and so its timer, lives.
BudgetExpired ==
  /\ waiting /\ ~run.cancelled /\ ends
  /\ sound \/ fault
  /\ UNCHANGED <<session, steering>>

\* start_run and start_handoff, of an idle session that is not blocked.
StartRun(intent, target) ==
  /\ at = "idle" /\ faults = 0
  /\ intent = "Normal" => target = NoTarget
  /\ at' = "begin" /\ run' = new_run(intent, target)
  /\ UNCHANGED <<session, steering, faults>>

\* select_model: the route stays attached.
SelectModel(p) ==
  /\ at = "idle"
  /\ \/ provider' = p /\ reserve' = NoReserve /\ sound
     \/ fault /\ UNCHANGED <<provider, reserve>>
  /\ UNCHANGED <<position, breaker, used, steering, at, run>>

\* attach_route: the first hop, and no memory of any breaker.
AttachRoute ==
  /\ at = "idle"
  /\ \/ /\ provider' = Route[1] /\ position' = 1 /\ reserve' = NoReserve
        /\ breaker' = [p \in Provider |-> CircuitBreaker] /\ sound
     \/ fault /\ UNCHANGED <<provider, position, reserve, breaker>>
  /\ UNCHANGED <<used, steering, at, run>>

Next ==
  \/ SteeringFails \/ Begin \/ StopForQuota \/ Send \/ SkipHop
  \/ \E phase \in Phase : ObserveQuota(phase)
  \/ TurnEnds \/ TurnEndsForQuota \/ ToolsEnd
  \/ Steer \/ CancelRun \/ BudgetExpired
  \/ \E target \in Provider \union {NoTarget} :
       \/ AskHandoff(target)
       \/ StartRun("Normal", target) \/ StartRun("ManualHandoff", target)
  \/ \E p \in Provider : SelectModel(p)
  \/ AttachRoute

\* The actor runs its handlers to the end, and the deadline of a run is a timer.
Fairness ==
  /\ WF_vars(Begin) /\ WF_vars(StopForQuota) /\ WF_vars(Send \/ SkipHop)
  /\ WF_vars(BudgetExpired)

Spec == Init /\ [][Next]_vars
FairSpec == Spec /\ Fairness

--------------------------------------------------------------------------------
(* Properties                                                               *)

\* The provider that is asked is the one whose breaker is consulted and charged, on
\* every hop the run takes.
ChargesWhomItAsks == run # NoRun => run.provider = provider

\* A run that started on its route leaves a provider at its hard threshold for good:
\* no request follows the report that it was passed, not even when a handoff is asked
\* for in between and a failure turns the landing into a normal turn of the next hop.
HardStopHolds ==
  [][at = "gate" /\ at' = "sent" /\ run'.intent = "Normal" /\ run.live =>
       run.provider \notin run.over]_vars

\* Every run that nobody cancels ends, also one whose steering was not recorded and
\* that nothing is under way for: its deadline is what is left.
RunEnds == at # "idle" ~> run = NoRun \/ run.cancelled

\* core/routing.rs, RouteRuntime: "A session's live position on an attached route."
\* Refuted: a model the human selects, and the swap of a handoff, leave it behind.
PositionIsLive == OnRoute

\* continuation.rs, start_handoff: "Drain the in-flight turn to a safe landing as a
\* handoff".  Refuted: a hop taken before the landing makes the run a normal one.
HandoffLands ==
  [][run # NoRun /\ run' # NoRun /\ run.intent = "ManualHandoff" =>
       run'.intent = "ManualHandoff"]_vars

\* continuation.rs, stop_for_quota: a breach "may advance a route instead of stopping
\* outright".  Refuted for a configured budget, which every hop then finds breached.
BreachReachesAHop ==
  [][at = "stop" /\ at' = "begin" => used # "Stopped" \/ reserve.basis = "Reported"]_vars

\* provider_loop.rs, deliver_steering: "Returns `false` when the run should stop".
\* Refuted: the run is left active with nothing under way.
SteeringFailureStops == at # "stuck"
================================================================================
