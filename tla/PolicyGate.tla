------------------------------ MODULE PolicyGate ------------------------------
(***************************************************************************)
(* The deterministic policy gate: what a session's policy mode permits for *)
(* a tool of a given tier, how two ceilings combine, and what survives into *)
(* a continued session.  Pure functions of src/src/core/policy.rs,          *)
(* src/src/policy/mod.rs, src/src/core/directive.rs, src/src/core/          *)
(* governance.rs and the subagent clamps; the actor in RunLoop calls them.  *)
(***************************************************************************)
EXTENDS Integers

\* core/policy.rs: PolicyMode.  There is deliberately no unrestricted mode.
PolicyMode == {"ReadOnly", "Ask", "WorkspaceWrite", "FullAuto"}

\* core/tool.rs: ToolTier.
ToolTier == {"Read", "Write", "Execute"}

\* core/governance.rs: GovernanceTier, the owner's standing judgement of a model.
GovernanceTier == {"Supervised", "Standard", "Trusted"}

PolicyDecision == {"Allow", "Ask", "Deny"}

\* How much authority a mode carries; only narrower_of compares it.
width(mode) ==
  CASE mode = "ReadOnly"       -> 0
    [] mode = "Ask"            -> 1
    [] mode = "WorkspaceWrite" -> 2
    [] mode = "FullAuto"       -> 3

narrower_of(left, right) == IF width(left) <= width(right) THEN left ELSE right

carried_forward_Whole(mode) == mode

\* The mode a resume, a fork or an external directive continues under.
carried_forward(mode) == IF mode = "FullAuto" THEN "Ask" ELSE mode

\* DirectiveSource::policy_ceiling: only text from outside the session is capped.
policy_ceiling(external, requested) ==
  IF external THEN carried_forward(requested) ELSE requested

\* GovernanceTier::clamp: the declared floor of the model about to act.
clamp(tier, requested) ==
  narrower_of(requested,
              IF tier = "Supervised" THEN "WorkspaceWrite" ELSE "FullAuto")

\* The gate itself: a read always runs, and an exact-command grant stands in
\* for the question an execute-tier tool would ask.
decide(mode, tier, exact_command_approved) ==
  CASE tier = "Read"                                -> "Allow"
    [] mode = "ReadOnly" /\ tier # "Read"           -> "Deny"
    [] mode = "FullAuto" /\ tier # "Read"           -> "Allow"
    [] mode = "WorkspaceWrite" /\ tier = "Write"    -> "Allow"
    [] mode = "Ask" /\ tier = "Write"               -> "Ask"
    [] /\ mode \in {"Ask", "WorkspaceWrite"}
       /\ tier = "Execute"                          ->
         IF exact_command_approved THEN "Allow" ELSE "Ask"
===============================================================================
