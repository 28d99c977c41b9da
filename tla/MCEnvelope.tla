------------------------------- MODULE MCEnvelope -------------------------------
(* A small instance of SpawnEnvelope: two shapes a human may arm, three calls.  *)
EXTENDS SpawnEnvelope

wide == [ceiling |-> "FullAuto", max_children |-> 3, max_per_call |-> 2,
         max_provider_turns |-> 4, expires_after_turns |-> 2]
narrow == [ceiling |-> "WorkspaceWrite", max_children |-> 2, max_per_call |-> 2,
           max_provider_turns |-> 3, expires_after_turns |-> 1]
MCShapes == {wide, narrow}

MCCalls == {[children |-> 1, turns |-> 1, policy |-> "FullAuto"],
            [children |-> 2, turns |-> 2, policy |-> "FullAuto"],
            [children |-> 2, turns |-> 1, policy |-> "ReadOnly"]}
================================================================================
