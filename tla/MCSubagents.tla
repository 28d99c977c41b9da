------------------------------- MODULE MCSubagents -------------------------------
(* Two children, dispatched in order.                                          *)
EXTENDS Subagents

MCChildren == 1 .. 2
=================================================================================
