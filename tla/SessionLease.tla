------------------------------ MODULE SessionLease -----------------------------
(***************************************************************************)
(* The write lease of one session and the mjolnr processes that want it:     *)
(* session_owners in src/src/store/sqlite/queries.rs, and the handlers of    *)
(* src/src/runtime/durability.rs that acquire it, give it back or break it.  *)
(*                                                                          *)
(* The log is two facts a replay reads off it: whether SessionEnded is       *)
(* recorded and whether work is in flight.  A handler that awaits the store  *)
(* between steps the other processes can see is suspended at `at`.           *)
(***************************************************************************)
EXTENDS Integers

CONSTANTS
  Process,        \* mjolnr processes on this machine
  MaxLeases,      \* bound: leases handed out
  HumanErrs       \* a human may reclaim a lease whose holder is still alive

ASSUME LeaseAssumption == MaxLeases \in Nat /\ HumanErrs \in BOOLEAN

NoLease == 0
Token == 1 .. MaxLeases

VARIABLES
  status,         \* sessions.status is "ended"
  endLogged,      \* SessionEnded is recorded
  inFlight,       \* a replay would find a run that was never closed
  owner,          \* session_owners.owner_token
  issued,         \* leases handed out so far
  at,             \* the await each process is suspended at
  session,        \* state.session is this session
  lease,          \* self.lease
  failed,         \* state.store_failure
  run,            \* self.run
  recovering,     \* self.recovery is Required
  seen,           \* what resume_session read before it opens
  storeErred      \* history: a store call failed since the session was opened

row == <<status, owner, issued>>
history == <<endLogged, inFlight>>
vars == <<row, history, at, session, lease, failed, run, recovering, seen,
          storeErred>>

At == {"mailbox", "acquired", "read", "ended", "closing"}

\* Types, and no two processes ever hold the same lease.
TypeOK ==
  /\ status \in BOOLEAN /\ endLogged \in BOOLEAN /\ inFlight \in BOOLEAN
  /\ issued \in 0 .. MaxLeases
  /\ owner \in 0 .. issued
  /\ at \in [Process -> At]
  /\ lease \in [Process -> 0 .. issued]
  /\ \A p, q \in Process : lease[p] = lease[q] /\ lease[p] # NoLease => p = q
  /\ session \in [Process -> BOOLEAN]
  /\ failed \in [Process -> BOOLEAN]
  /\ run \in [Process -> BOOLEAN]
  /\ recovering \in [Process -> BOOLEAN]
  /\ storeErred \in [Process -> BOOLEAN]
  /\ seen \in [Process -> [ended : BOOLEAN, inFlight : BOOLEAN]]

Init ==
  /\ status = FALSE /\ endLogged = FALSE
  /\ inFlight \in BOOLEAN
  /\ owner = NoLease /\ issued = 0
  /\ at = [p \in Process |-> "mailbox"]
  /\ lease = [p \in Process |-> NoLease]
  /\ session = [p \in Process |-> FALSE]
  /\ failed = [p \in Process |-> FALSE]
  /\ run = [p \in Process |-> FALSE]
  /\ recovering = [p \in Process |-> FALSE]
  /\ storeErred = [p \in Process |-> FALSE]
  /\ seen = [p \in Process |-> [ended |-> FALSE, inFlight |-> FALSE]]

--------------------------------------------------------------------------------
(* The store *)

release_session_Blind(token) == IF token = NoLease THEN owner ELSE NoLease

\* DELETE ... WHERE owner_token: only the row the caller's token names.
release_session(token) == IF owner = token THEN NoLease ELSE owner

\* release_lease: the row goes and the handle with it, or the store fails and
\* the process keeps its handle.
release_lease(p, ok) ==
  /\ owner' = IF ok THEN release_session(lease[p]) ELSE owner
  /\ lease' = IF ok THEN [lease EXCEPT ![p] = NoLease] ELSE lease

\* note_store_failure, for a store call that failed and for a refused command.
note_store_failure(p) == failed' = [failed EXCEPT ![p] = TRUE]
fail(p) ==
  note_store_failure(p) /\ storeErred' = [storeErred EXCEPT ![p] = TRUE]
refuse(p) == note_store_failure(p) /\ UNCHANGED storeErred
succeed == UNCHANGED <<failed, storeErred>>
goto(p, where) == at' = [at EXCEPT ![p] = where]

blocked_FailuresOnly(p) == failed[p]

\* blocked(), as far as this module sees it.
blocked(p) == failed[p] \/ recovering[p]

settled(p) == ~run[p] /\ ~recovering[p] /\ ~failed[p]

--------------------------------------------------------------------------------
(* Opening *)

available_Any == issued < MaxLeases

\* The insert succeeds only on an active session without an owner.
available == ~status /\ owner = NoLease

nextToken_Same == 1

\* Uuid::now_v7: no lease ever had this token.
nextToken == issued + 1

\* resume_session takes the lease before it reads anything.
Acquire(p) ==
  /\ at[p] = "mailbox" /\ ~session[p] /\ lease[p] = NoLease
  /\ IF available
     THEN /\ issued < MaxLeases
          /\ issued' = issued + 1
          /\ owner' = nextToken
          /\ lease' = [lease EXCEPT ![p] = nextToken]
          /\ goto(p, "acquired")
          /\ succeed
     ELSE refuse(p) /\ UNCHANGED <<issued, owner, lease, at>>
  /\ UNCHANGED <<status, history, session, run, recovering, seen>>

ResumeFailed(p) ==
  /\ \E ok \in BOOLEAN : release_lease(p, ok)
  /\ fail(p)
  /\ goto(p, "mailbox")
  /\ UNCHANGED <<status, issued, history, session, run, recovering, seen>>

\* The checkpoint and the events after it.
Read(p) ==
  /\ at[p] = "acquired"
  /\ \/ /\ seen' = [seen EXCEPT ![p] = [ended |-> endLogged,
                                        inFlight |-> inFlight]]
        /\ goto(p, "read")
        /\ UNCHANGED <<row, history, session, lease, run, recovering>>
        /\ succeed
     \/ ResumeFailed(p)

refused_Never(p) == FALSE

\* The replayed status refuses an ended session whose row was never updated.
refused(p) == seen[p].ended

\* The live state is replaced; RecoveryRequired is recorded, or fails to be.
Open(p) ==
  /\ at[p] = "read"
  /\ \/ refused(p) /\ ResumeFailed(p)
     \/ /\ ~refused(p)
        /\ session' = [session EXCEPT ![p] = TRUE]
        /\ recovering' = [recovering EXCEPT ![p] = seen[p].inFlight]
        /\ \E stored \in BOOLEAN :
             /\ seen[p].inFlight \/ stored
             /\ failed' = [failed EXCEPT ![p] = ~stored]
             /\ storeErred' = [storeErred EXCEPT ![p] = ~stored]
        /\ goto(p, "mailbox")
        /\ UNCHANGED <<row, history, lease, run, seen>>

--------------------------------------------------------------------------------
(* Working: appends are not checked against the lease *)

StartRun(p) ==
  /\ at[p] = "mailbox" /\ session[p] /\ ~run[p] /\ ~blocked(p)
  /\ \/ run' = [run EXCEPT ![p] = TRUE] /\ inFlight' = TRUE /\ succeed
     \/ fail(p) /\ UNCHANGED <<run, inFlight>>
  /\ UNCHANGED <<row, endLogged, at, session, lease, recovering, seen>>

\* The terminal event, or halt_for_store when it cannot be recorded.
FinishRun(p) ==
  /\ at[p] = "mailbox" /\ run[p]
  /\ run' = [run EXCEPT ![p] = FALSE]
  /\ \/ inFlight' = FALSE /\ succeed
     \/ fail(p) /\ UNCHANGED inFlight
  /\ UNCHANGED <<row, endLogged, at, session, lease, recovering, seen>>

\* RecoveryResolved; an EndSession decision goes on to End.
ResolveRecovery(p) ==
  /\ at[p] = "mailbox" /\ session[p] /\ recovering[p]
  /\ \/ /\ inFlight' = FALSE
        /\ recovering' = [recovering EXCEPT ![p] = FALSE]
        /\ succeed
     \/ fail(p) /\ UNCHANGED <<inFlight, recovering>>
  /\ UNCHANGED <<row, endLogged, at, session, lease, run, seen>>

--------------------------------------------------------------------------------
(* Leaving *)

\* The memory of a process that has let go of the session, or is new.
LetGo(p) ==
  /\ session' = [session EXCEPT ![p] = FALSE]
  /\ recovering' = [recovering EXCEPT ![p] = FALSE]
  /\ failed' = [failed EXCEPT ![p] = FALSE]
  /\ storeErred' = [storeErred EXCEPT ![p] = FALSE]
  /\ goto(p, "mailbox")

\* release_session: checkpoint, give the lease back, clear the state.  It is
\* refused while the session is unsettled, and a step that fails leaves it open.
ReleaseSession(p) ==
  /\ at[p] = "mailbox" /\ session[p]
  /\ \/ settled(p) /\ release_lease(p, TRUE) /\ LetGo(p)
     \/ /\ IF settled(p) THEN fail(p) ELSE refuse(p)
        /\ UNCHANGED <<owner, lease, session, recovering, at>>
  /\ UNCHANGED <<status, issued, history, run, seen>>

\* Opening, creating or reclaiming a session while one is open is refused, and
\* the refusal is noted the way a failed write is.
Refused(p) ==
  /\ at[p] = "mailbox" /\ (session[p] \/ lease[p] # NoLease)
  /\ refuse(p)
  /\ UNCHANGED <<row, history, at, session, lease, run, recovering, seen>>

\* end_session: SessionEnded, then the row, then checkpoint and lease.
End(p) ==
  /\ at[p] = "mailbox" /\ session[p] /\ ~run[p]
  /\ \/ endLogged' = TRUE /\ inFlight' = FALSE /\ goto(p, "ended")
        /\ succeed
     \/ fail(p) /\ UNCHANGED <<history, at>>
  /\ UNCHANGED <<row, session, lease, run, recovering, seen>>

EndRow(p) ==
  /\ at[p] = "ended"
  /\ \/ status' = TRUE /\ goto(p, "closing") /\ succeed
     \/ fail(p) /\ goto(p, "mailbox") /\ UNCHANGED status
  /\ UNCHANGED <<owner, issued, history, session, lease, run, recovering, seen>>

\* A checkpoint that is refused or fails still gives the lease back, but keeps
\* the session open with its failure.
EndClose(p) ==
  /\ at[p] = "closing"
  /\ \/ settled(p) /\ release_lease(p, TRUE) /\ LetGo(p)
     \/ /\ \E ok \in BOOLEAN : release_lease(p, ok)
        /\ fail(p) /\ goto(p, "mailbox")
        /\ UNCHANGED <<session, recovering>>
  /\ UNCHANGED <<status, issued, history, run, seen>>

Gone(p) == LetGo(p) /\ run' = [run EXCEPT ![p] = FALSE]

\* shutdown gives the lease back whatever the checkpoint did.
Shutdown(p) ==
  /\ at[p] = "mailbox"
  /\ \E ok \in BOOLEAN :
       owner' = IF ok THEN release_session(lease[p]) ELSE owner
  /\ lease' = [lease EXCEPT ![p] = NoLease]
  /\ Gone(p)
  /\ UNCHANGED <<status, issued, history, seen>>

\* The process dies and another is started; the row stays behind.
Crash(p) ==
  /\ lease' = [lease EXCEPT ![p] = NoLease]
  /\ Gone(p)
  /\ UNCHANGED <<row, history, seen>>

\* reclaim_session: a human says nobody has the session open.  The row goes
\* whoever holds it, and deleting no row is no error.
Reclaim(p) ==
  /\ at[p] = "mailbox" /\ ~run[p] /\ ~session[p]
  /\ HumanErrs \/ \A q \in Process :
                    lease[q] = owner => ~session[q] /\ at[q] = "mailbox"
  /\ owner' = NoLease
  /\ failed' = [failed EXCEPT ![p] = FALSE]
  /\ UNCHANGED <<status, issued, history, at, session, lease, run, recovering,
                 seen, storeErred>>

Next ==
  \E p \in Process :
    \/ Acquire(p) \/ Read(p) \/ Open(p)
    \/ StartRun(p) \/ FinishRun(p) \/ ResolveRecovery(p)
    \/ Refused(p) \/ ReleaseSession(p) \/ End(p) \/ EndRow(p) \/ EndClose(p)
    \/ Shutdown(p) \/ Crash(p) \/ Reclaim(p)

Spec == Init /\ [][Next]_vars

--------------------------------------------------------------------------------
(* Properties *)

\* "A session must have exactly one writer: no split-brain writer is
\* permitted" (docs/persistence.md): no two processes have the session open,
\* whichever handler failed or died half-way, as long as no human reclaims a
\* lease that is in use.
OneWriter == \A p, q \in Process : session[p] /\ session[q] => p = q

\* Work runs under the row: a process with a run in flight holds the lease the
\* store knows, so nobody else can acquire it meanwhile.
WorkHoldsTheLease ==
  \A p \in Process : run[p] => lease[p] # NoLease /\ owner = lease[p]

\* Once SessionEnded is recorded no process opens the session again, also when
\* the row update after it failed (end_session, resume_session).
EndedStaysClosed ==
  [][\A p \in Process : endLogged /\ ~session[p] => ~session'[p]]_vars

\* A row goes only when a human reclaims it or its own holder gives it back: a
\* process whose lease was broken cannot drop the next holder's on its way out
\* (release_session in queries.rs).
OnlyTheHolderReleases ==
  [][owner' # owner /\ owner # NoLease =>
       \/ \E p \in Process : Reclaim(p)
       \/ \E p \in Process : lease[p] = owner /\ lease'[p] # owner]_vars

\* Through any interleaving of handlers, failed store calls, deaths and restarts
\* the session passes from one author to the next as SessionAuthor promises: a
\* run begins only over a settled record, so what an earlier process left behind
\* is answered for first (start_run, blocked, resume_session, resolve_recovery),
\* and nothing is begun or opened after the end.
Promise == INSTANCE SessionAuthor WITH
  authors   <- {p \in Process : session[p]},
  working   <- {p \in Process : run[p]},
  unsettled <- inFlight,
  ended     <- endLogged
PassesFromHandToHand == Promise!Spec

\* "Refuse instead, and say which step is missing" (release_session): while the
\* store has answered every call, a refused command leaves no store failure on
\* the open session, so the missing step can be taken and the command repeated.
RefusalIsNotAFailure ==
  \A p \in Process : session[p] /\ failed[p] => storeErred[p]
================================================================================
