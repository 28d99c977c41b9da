------------------------------ MODULE MCRunLoop -------------------------------
(***************************************************************************)
(* Instances of RunLoop for TLC: one call of each kind the gate tells apart *)
(* and every bound small.                                                   *)
(***************************************************************************)
EXTENDS RunLoop

\* read_file, write_file, run_command, activate_skill of a project skill,
\* load_extension of a project extension, finish_task.
MCTier == [c \in Call |-> CASE c = "write" -> "Write"
                            [] c \in {"command", "extension"} -> "Execute"
                            [] c \in {"read", "skill", "finish"} -> "Read"]
MCCommand == Call \intersect {"command"}
MCNeedsTrust == Call \intersect {"skill", "extension"}
MCGrantsTrust == Call \intersect {"skill"}
MCCompletion == Call \intersect {"finish"}
===============================================================================
