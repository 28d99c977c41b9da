------------------------------ MODULE SessionAuthor -----------------------------
(***************************************************************************)
(* What a session promises to the processes that share a machine, without   *)
(* rows, tokens, handlers, failing store calls or restarts: one author after *)
(* another, and work that is begun only over a settled record.  SessionLease *)
(* implements it while no human reclaims a lease that is in use.             *)
(*                                                                          *)
(* An author may be gone at any moment and leave work behind.  Whoever comes *)
(* next finds it in the record and answers for it before beginning anything  *)
(* else.  An ended session has no next author.                               *)
(***************************************************************************)
CONSTANT Process

VARIABLES
  authors,      \* who has the session open
  working,      \* who has a run in flight
  unsettled,    \* the record holds a run that was never closed
  ended         \* the end of the session is in the record

shared == <<authors, working, unsettled, ended>>

Init ==
  /\ authors = {} /\ working = {}
  /\ unsettled \in BOOLEAN
  /\ ended = FALSE

\* Only a session that nobody has open, and that has not ended, is opened.
Enter(p) ==
  /\ authors = {} /\ ~ended
  /\ authors' = {p}
  /\ UNCHANGED <<working, unsettled, ended>>

\* The author leaves, or its process dies with whatever it had in flight.
Leave(p) ==
  /\ authors = {p}
  /\ authors' = {} /\ working' = {}
  /\ UNCHANGED <<unsettled, ended>>

\* Work begins in the record and in the process at once, and never over work
\* that is still open.
Begin(p) ==
  /\ authors = {p} /\ ~unsettled /\ ~ended
  /\ working' = {p} /\ unsettled' = TRUE
  /\ UNCHANGED <<authors, ended>>

\* Work ends, and the record says so unless it could not be written.
Finish(p) ==
  /\ authors = {p} /\ working = {p}
  /\ working' = {}
  /\ unsettled' \in {FALSE, unsettled}
  /\ UNCHANGED <<authors, ended>>

\* The author answers for what an earlier one left behind.
Answer(p) ==
  /\ authors = {p} /\ working = {} /\ unsettled
  /\ unsettled' = FALSE
  /\ UNCHANGED <<authors, working, ended>>

\* The end of the session closes what is open in the record.
End(p) ==
  /\ authors = {p} /\ working = {}
  /\ ended' = TRUE /\ unsettled' = FALSE
  /\ UNCHANGED <<authors, working>>

Next == \E p \in Process :
  Enter(p) \/ Leave(p) \/ Begin(p) \/ Finish(p) \/ Answer(p) \/ End(p)

Spec == Init /\ [][Next]_shared
================================================================================
