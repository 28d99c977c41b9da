-------------------------- MODULE SessionLease_proofs --------------------------
(***************************************************************************)
(* Proofs about SessionLease for any number of processes and leases.        *)
(*                                                                          *)
(* The safety of the lease rests on one argument: a process that has the    *)
(* session open, or is on its way in or out, is alone in that, and either   *)
(* it holds the row or the session has ended and the row is gone for good.  *)
(***************************************************************************)
EXTENDS SessionLease, TLAPS

\* A process that has the session open, or a handler under way for it.
Engaged(p) == session[p] \/ at[p] # "mailbox"

Holds(p) == lease[p] # NoLease /\ owner = lease[p]

\* The session that end_session could not checkpoint stays open, failed and
\* without a lease.
Spent(p) == session[p] /\ status /\ failed[p]

Sole == \A p, q \in Process : Engaged(p) /\ Engaged(q) => p = q

Backed == \A p \in Process : Engaged(p) => Holds(p) \/ Spent(p)

\* Only a free process runs, and what a resume has read is still so.
Steady ==
  \A p \in Process :
    /\ run[p] => session[p] /\ at[p] = "mailbox" /\ Holds(p)
    /\ at[p] = "read" => seen[p].ended = endLogged
    /\ at[p] \in {"acquired", "read"} => ~session[p]
    /\ at[p] \in {"ended", "closing"} => session[p]
    /\ at[p] = "closing" => status

LeaseInv == Sole /\ Backed /\ Steady

--------------------------------------------------------------------------------
(* Types *)

\* A release leaves the row as it was or takes it away.
LEMMA ReleaseType ==
  ASSUME TypeOK, NEW p \in Process, NEW ok \in BOOLEAN, release_lease(p, ok)
  PROVE  /\ owner' \in 0 .. issued
         /\ lease' \in [Process -> 0 .. issued]
         /\ \A r, q \in Process : lease'[r] = lease'[q] /\ lease'[r] # NoLease => r = q
  BY DEF TypeOK, release_lease, release_session, NoLease

\* The type invariant is inductive.
LEMMA TypeStep == TypeOK /\ [Next]_vars => TypeOK'
<1> USE LeaseAssumption DEF At, NoLease
<1> SUFFICES ASSUME TypeOK, [Next]_vars PROVE TypeOK'
  OBVIOUS
<1>1. CASE UNCHANGED vars
  BY <1>1 DEF vars, row, history, TypeOK
<1>2. CASE Next
  <2> SUFFICES ASSUME NEW p \in Process,
                      \/ Acquire(p) \/ Read(p) \/ Open(p)
                      \/ StartRun(p) \/ FinishRun(p) \/ ResolveRecovery(p)
                      \/ Refused(p) \/ ReleaseSession(p) \/ End(p)
                      \/ EndRow(p) \/ EndClose(p)
                      \/ Shutdown(p) \/ Crash(p) \/ Reclaim(p)
               PROVE  TypeOK'
    BY <1>2 DEF Next
  <2>1. CASE Acquire(p)
    <3>1. CASE available
      <4>1. /\ issued' = issued + 1 /\ owner' = issued + 1
            /\ lease' = [lease EXCEPT ![p] = issued + 1]
            /\ at' = [at EXCEPT ![p] = "acquired"]
            /\ issued < MaxLeases
            /\ UNCHANGED <<status, endLogged, inFlight, session, failed, run,
                           recovering, seen, storeErred>>
        BY <2>1, <3>1 DEF Acquire, history, nextToken, goto, succeed
      <4>2. issued' \in 0 .. MaxLeases /\ owner' \in 0 .. issued'
        BY <4>1 DEF TypeOK
      <4>3. lease' \in [Process -> 0 .. issued']
        BY <4>1 DEF TypeOK
      <4>4. \A q \in Process : lease[q] # issued + 1
        BY DEF TypeOK
      <4>5. \A r, q \in Process : lease'[r] = lease'[q] /\ lease'[r] # NoLease => r = q
        BY <4>1, <4>4 DEF TypeOK
      <4> QED BY <4>1, <4>2, <4>3, <4>5 DEF TypeOK
    <3>2. CASE ~available
      BY <2>1, <3>2 DEF Acquire, TypeOK, history, refuse, note_store_failure
    <3> QED BY <3>1, <3>2
  <2>2. ResumeFailed(p) => TypeOK'
    BY ReleaseType DEF ResumeFailed, TypeOK, history, fail, note_store_failure, goto
  <2>3. CASE Read(p)
    <3>1. CASE ResumeFailed(p)
      BY <2>2, <3>1
    <3>2. CASE ~ResumeFailed(p)
      <4>1. [ended |-> endLogged, inFlight |-> inFlight]
              \in [ended : BOOLEAN, inFlight : BOOLEAN]
        BY DEF TypeOK
      <4>2. seen' \in [Process -> [ended : BOOLEAN, inFlight : BOOLEAN]]
        BY <2>3, <3>2, <4>1 DEF Read, TypeOK
      <4> QED BY <2>3, <3>2, <4>2 DEF Read, TypeOK, row, history, goto, succeed
    <3> QED BY <3>1, <3>2
  <2>4. CASE Open(p)
    BY <2>2, <2>4 DEF Open, TypeOK, row, history, goto
  <2>5. CASE StartRun(p)
    BY <2>5 DEF StartRun, TypeOK, row, succeed, fail, note_store_failure
  <2>6. CASE FinishRun(p)
    BY <2>6 DEF FinishRun, TypeOK, row, succeed, fail, note_store_failure
  <2>7. CASE ResolveRecovery(p)
    BY <2>7 DEF ResolveRecovery, TypeOK, row, succeed, fail, note_store_failure
  <2>8. CASE Refused(p)
    BY <2>8 DEF Refused, TypeOK, row, history, refuse, note_store_failure
  <2>9. CASE ReleaseSession(p)
    <3>1. CASE settled(p) /\ release_lease(p, TRUE) /\ LetGo(p)
      BY <2>9, <3>1, ReleaseType DEF ReleaseSession, TypeOK, history, LetGo, goto
    <3>2. CASE ~(settled(p) /\ release_lease(p, TRUE) /\ LetGo(p))
      BY <2>9, <3>2 DEF ReleaseSession, TypeOK, history, fail, refuse, note_store_failure
    <3> QED BY <3>1, <3>2
  <2>10. CASE End(p)
    BY <2>10 DEF End, TypeOK, row, history, succeed, fail, note_store_failure, goto
  <2>11. CASE EndRow(p)
    BY <2>11 DEF EndRow, TypeOK, history, succeed, fail, note_store_failure, goto
  <2>12. CASE EndClose(p)
    <3>1. CASE settled(p) /\ release_lease(p, TRUE) /\ LetGo(p)
      BY <2>12, <3>1, ReleaseType DEF EndClose, TypeOK, history, LetGo, goto
    <3>2. CASE ~(settled(p) /\ release_lease(p, TRUE) /\ LetGo(p))
      <4>1. PICK ok \in BOOLEAN : release_lease(p, ok)
        BY <2>12, <3>2 DEF EndClose
      <4>2. /\ failed' = [failed EXCEPT ![p] = TRUE]
            /\ storeErred' = [storeErred EXCEPT ![p] = TRUE]
            /\ at' = [at EXCEPT ![p] = "mailbox"]
            /\ UNCHANGED <<status, issued, endLogged, inFlight, session, run,
                           recovering, seen>>
        BY <2>12, <3>2 DEF EndClose, history, fail, note_store_failure, goto
      <4> QED BY <4>1, <4>2, ReleaseType DEF TypeOK
    <3> QED BY <3>1, <3>2
  <2>13. CASE Shutdown(p)
    BY <2>13 DEF Shutdown, TypeOK, history, Gone, LetGo, goto, release_session
  <2>14. CASE Crash(p)
    BY <2>14 DEF Crash, TypeOK, row, history, Gone, LetGo, goto
  <2>15. CASE Reclaim(p)
    BY <2>15 DEF Reclaim, TypeOK, history
  <2> QED BY <2>1, <2>3, <2>4, <2>5, <2>6, <2>7, <2>8, <2>9, <2>10, <2>11,
             <2>12, <2>13, <2>14, <2>15
<1> QED BY <1>1, <1>2

\* Every reachable state of the lease is well typed, and no lease is held twice.
THEOREM TypeCorrect == Spec => []TypeOK
<1>1. Init => TypeOK
  <2> SUFFICES ASSUME Init PROVE TypeOK
    OBVIOUS
  <2>1. seen \in [Process -> [ended : BOOLEAN, inFlight : BOOLEAN]]
    BY DEF Init
  <2>2. status \in BOOLEAN /\ endLogged \in BOOLEAN /\ inFlight \in BOOLEAN
    BY DEF Init
  <2>3. issued \in 0 .. MaxLeases /\ owner \in 0 .. issued
    BY LeaseAssumption DEF Init, NoLease
  <2>4. lease \in [Process -> 0 .. issued] /\ \A p \in Process : lease[p] = NoLease
    BY DEF Init, NoLease
  <2>5. /\ at \in [Process -> At]
        /\ session \in [Process -> BOOLEAN] /\ failed \in [Process -> BOOLEAN]
        /\ run \in [Process -> BOOLEAN] /\ recovering \in [Process -> BOOLEAN]
        /\ storeErred \in [Process -> BOOLEAN]
    BY DEF Init, At
  <2> QED BY <2>1, <2>2, <2>3, <2>4, <2>5 DEF TypeOK
<1> QED BY <1>1, TypeStep, PTL DEF Spec

--------------------------------------------------------------------------------
(* One writer *)

SteadyFor(p) ==
  /\ run[p] => session[p] /\ at[p] = "mailbox" /\ Holds(p)
  /\ at[p] = "read" => seen[p].ended = endLogged
  /\ at[p] \in {"acquired", "read"} => ~session[p]
  /\ at[p] \in {"ended", "closing"} => session[p]
  /\ at[p] = "closing" => status

\* What one process does leaves the memory of every other one alone.
OthersKept(p) ==
  \A r \in Process : r # p =>
    /\ lease'[r] = lease[r] /\ at'[r] = at[r] /\ session'[r] = session[r]
    /\ failed'[r] = failed[r] /\ run'[r] = run[r] /\ seen'[r] = seen[r]

\* The row stays, or goes without anyone engaged having relied on it but `p`.
RowFair(p) ==
  \/ owner' = owner
  \/ owner = lease[p]
  \/ \A q \in Process : Engaged(q) => owner # lease[q]

\* Why the lease is safe: a step of `p` that keeps to its own memory, drops no
\* row somebody else works under, and leaves `p` itself backed, keeps LeaseInv.
LEMMA OneProcessStep ==
  ASSUME TypeOK, LeaseInv, NEW p \in Process,
         OthersKept(p), RowFair(p), status => status',
         endLogged' = endLogged \/ session[p],
         Engaged(p)' => Engaged(p) \/ \A q \in Process : ~Engaged(q),
         Engaged(p)' => Holds(p)' \/ Spent(p)',
         SteadyFor(p)'
  PROVE  LeaseInv'
<1>1. \A r \in Process : r # p => (Engaged(r)' <=> Engaged(r))
  BY DEF OthersKept, Engaged
<1>2. Sole'
  BY <1>1 DEF LeaseInv, Sole
<1>3. \A r \in Process : r # p /\ Engaged(r) /\ Holds(r) => Holds(r)'
  <2> SUFFICES ASSUME NEW r \in Process, r # p, Engaged(r), Holds(r)
               PROVE  Holds(r)'
    OBVIOUS
  <2>1. lease[r] # lease[p]
    BY DEF TypeOK, Holds
  <2>2. owner' = owner
    BY <2>1 DEF RowFair, Holds
  <2> QED BY <2>2 DEF OthersKept, Holds
<1>4. Backed'
  <2> SUFFICES ASSUME NEW r \in Process, r # p, Engaged(r)
               PROVE  Holds(r)' \/ Spent(r)'
    BY <1>1 DEF Backed
  <2>1. CASE Holds(r)
    BY <2>1, <1>3
  <2>2. CASE Spent(r)
    BY <2>2 DEF Spent, OthersKept
  <2> QED BY <2>1, <2>2 DEF LeaseInv, Backed
<1>5. \A r \in Process : SteadyFor(r)'
  <2> SUFFICES ASSUME NEW r \in Process, r # p
               PROVE  SteadyFor(r)'
    OBVIOUS
  <2>1. SteadyFor(r)
    BY DEF LeaseInv, Steady, SteadyFor
  <2>2. run[r] => Holds(r)'
    BY <2>1, <1>3 DEF SteadyFor, Engaged
  <2>3. at[r] = "read" => endLogged' = endLogged
    BY DEF LeaseInv, Sole, Engaged
  <2> QED BY <2>1, <2>2, <2>3 DEF SteadyFor, OthersKept
<1> QED BY <1>2, <1>4, <1>5 DEF LeaseInv, Steady, SteadyFor

\* Giving a lease back keeps every other handle and takes only the own row.
LEMMA ReleaseFair ==
  ASSUME TypeOK, NEW p \in Process, NEW ok \in BOOLEAN, release_lease(p, ok)
  PROVE  /\ RowFair(p)
         /\ \A r \in Process : r # p => lease'[r] = lease[r]
  BY DEF TypeOK, release_lease, release_session, RowFair

\* LeaseInv is inductive, as long as a human breaks only leases nobody uses.
LEMMA LeaseStep ==
  ASSUME ~HumanErrs
  PROVE  TypeOK /\ LeaseInv /\ [Next]_vars => LeaseInv'
<1> SUFFICES ASSUME TypeOK, LeaseInv, [Next]_vars PROVE LeaseInv'
  OBVIOUS
<1>1. CASE UNCHANGED vars
  BY <1>1 DEF vars, row, history, LeaseInv, Sole, Backed, Steady, Engaged,
              Holds, Spent
<1>2. CASE Next
  <2> SUFFICES ASSUME NEW p \in Process,
                      \/ Acquire(p) \/ Read(p) \/ Open(p)
                      \/ StartRun(p) \/ FinishRun(p) \/ ResolveRecovery(p)
                      \/ Refused(p) \/ ReleaseSession(p) \/ End(p)
                      \/ EndRow(p) \/ EndClose(p)
                      \/ Shutdown(p) \/ Crash(p) \/ Reclaim(p)
               PROVE  LeaseInv'
    BY <1>2 DEF Next
  <2> DEFINE Backing == Engaged(p)' => Holds(p)' \/ Spent(p)'
             Fresh == Engaged(p)' => Engaged(p) \/ \A q \in Process : ~Engaged(q)
             Kept == /\ status => status'
                     /\ endLogged' = endLogged \/ session[p]
             Goal == OthersKept(p) /\ RowFair(p) /\ Kept /\ Fresh /\ Backing
                     /\ SteadyFor(p)'
  <2>0. Goal => LeaseInv'
    BY OneProcessStep
  <2> USE DEF At
  <2>a. Engaged(p) => Holds(p) \/ Spent(p)
    BY DEF LeaseInv, Backed
  <2>b. SteadyFor(p)
    BY DEF LeaseInv, Steady, SteadyFor
  <2> HIDE DEF Goal
  <2>1. CASE Acquire(p)
    <3>1. CASE available
      <4>1. /\ owner' = issued + 1 /\ owner = NoLease /\ ~status
            /\ lease' = [lease EXCEPT ![p] = issued + 1]
            /\ at' = [at EXCEPT ![p] = "acquired"]
            /\ at[p] = "mailbox" /\ ~session[p]
            /\ UNCHANGED <<status, endLogged, session, failed, run, seen>>
        BY <2>1, <3>1 DEF Acquire, available, history, nextToken, goto, succeed
      <4>2. \A q \in Process : ~Engaged(q)
        BY <4>1 DEF LeaseInv, Backed, Holds, Spent
      <4>3. OthersKept(p) /\ RowFair(p) /\ Kept /\ Fresh
        BY <4>1, <4>2 DEF OthersKept, RowFair
      <4>4. at'[p] = "acquired" /\ lease'[p] = issued + 1
        BY <4>1 DEF TypeOK
      <4>5. Holds(p)'
        BY <4>1, <4>4 DEF TypeOK, Holds, NoLease
      <4>6. SteadyFor(p)'
        BY <4>1, <4>4, <2>b DEF SteadyFor
      <4> QED BY <4>3, <4>5, <4>6, <2>0 DEF Goal
    <3>2. CASE ~available
      BY <2>1, <3>2, <2>0, <2>a, <2>b
      DEF Goal, Acquire, history, refuse, note_store_failure, OthersKept,
          RowFair, Engaged, Holds, Spent, SteadyFor, TypeOK
    <3> QED BY <3>1, <3>2
  <2>2. ResumeFailed(p) /\ at[p] \in {"acquired", "read"} => Goal
    <3> SUFFICES ASSUME ResumeFailed(p), at[p] \in {"acquired", "read"}
                 PROVE  Goal
      OBVIOUS
    <3>1. PICK ok \in BOOLEAN : release_lease(p, ok)
      BY DEF ResumeFailed
    <3>2. /\ at' = [at EXCEPT ![p] = "mailbox"]
          /\ failed' = [failed EXCEPT ![p] = TRUE]
          /\ UNCHANGED <<status, endLogged, session, run, seen>>
      BY DEF ResumeFailed, fail, note_store_failure, goto, history
    <3>3. at'[p] = "mailbox" /\ ~session'[p] /\ ~run'[p]
      BY <3>2, <2>b DEF TypeOK, SteadyFor
    <3>4. OthersKept(p) /\ RowFair(p) /\ Kept
      BY <3>1, <3>2, ReleaseFair DEF OthersKept, TypeOK
    <3> QED BY <3>3, <3>4 DEF Goal, Engaged, SteadyFor
  <2>3. CASE Read(p)
    <3>1. CASE ResumeFailed(p)
      BY <2>3, <3>1, <2>2, <2>0 DEF Read
    <3>2. CASE ~ResumeFailed(p)
      <4>1. /\ at[p] = "acquired"
            /\ at' = [at EXCEPT ![p] = "read"]
            /\ seen' = [seen EXCEPT ![p] = [ended |-> endLogged,
                                            inFlight |-> inFlight]]
            /\ UNCHANGED <<status, endLogged, owner, lease, session, failed, run>>
        BY <2>3, <3>2 DEF Read, row, history, goto, succeed
      <4>2. at'[p] = "read" /\ seen'[p].ended = endLogged
        BY <4>1 DEF TypeOK
      <4>3. OthersKept(p) /\ RowFair(p) /\ Kept /\ Fresh
        BY <4>1 DEF OthersKept, RowFair, Engaged, TypeOK
      <4>4. ~session[p] /\ ~run[p] /\ Holds(p)
        BY <4>1, <2>a, <2>b DEF Engaged, Spent, SteadyFor
      <4>5. Backing
        BY <4>1, <4>4 DEF Holds
      <4>6. SteadyFor(p)'
        BY <4>1, <4>2, <4>4 DEF SteadyFor
      <4> QED BY <4>3, <4>5, <4>6, <2>0 DEF Goal
    <3> QED BY <3>1, <3>2
  <2>4. CASE Open(p)
    <3>1. CASE ResumeFailed(p)
      BY <2>4, <3>1, <2>2, <2>0 DEF Open
    <3>2. CASE ~ResumeFailed(p)
      <4>1. /\ at[p] = "read"
            /\ at' = [at EXCEPT ![p] = "mailbox"]
            /\ session' = [session EXCEPT ![p] = TRUE]
            /\ \E stored \in BOOLEAN : failed' = [failed EXCEPT ![p] = ~stored]
            /\ UNCHANGED <<status, endLogged, owner, lease, run, seen>>
        BY <2>4, <3>2 DEF Open, row, history, goto
      <4>2. at'[p] = "mailbox" /\ session'[p]
        BY <4>1 DEF TypeOK
      <4>3. OthersKept(p) /\ RowFair(p) /\ Kept /\ Fresh
        BY <4>1 DEF OthersKept, RowFair, Engaged, TypeOK
      <4>4. ~run[p] /\ Holds(p)
        BY <4>1, <2>a, <2>b DEF Engaged, Spent, SteadyFor
      <4>5. Backing /\ SteadyFor(p)'
        BY <4>1, <4>2, <4>4 DEF Holds, SteadyFor
      <4> QED BY <4>3, <4>5, <2>0 DEF Goal
    <3> QED BY <3>1, <3>2
  <2>5. CASE StartRun(p)
    <3>1. /\ at[p] = "mailbox" /\ session[p] /\ ~failed[p]
          /\ UNCHANGED <<status, endLogged, owner, lease, at, session, seen>>
      BY <2>5 DEF StartRun, row, blocked
    <3>2. /\ \/ run' = [run EXCEPT ![p] = TRUE]
             \/ run' = run
          /\ \/ failed' = failed
             \/ failed' = [failed EXCEPT ![p] = TRUE]
      BY <2>5 DEF StartRun, succeed, fail, note_store_failure
    <3>3. Holds(p)
      BY <3>1, <2>a DEF Engaged, Spent
    <3>4. OthersKept(p) /\ RowFair(p) /\ Kept /\ Fresh
      BY <3>1, <3>2 DEF OthersKept, RowFair, Engaged, TypeOK
    <3>5. Backing /\ SteadyFor(p)'
      BY <3>1, <3>3 DEF Holds, SteadyFor
    <3> QED BY <3>4, <3>5, <2>0 DEF Goal
  <2>6. CASE FinishRun(p)
    <3>1. /\ at[p] = "mailbox" /\ run[p]
          /\ run' = [run EXCEPT ![p] = FALSE]
          /\ UNCHANGED <<status, endLogged, owner, lease, at, session, seen>>
      BY <2>6 DEF FinishRun, row
    <3>2. \/ failed' = failed
          \/ failed' = [failed EXCEPT ![p] = TRUE]
      BY <2>6 DEF FinishRun, succeed, fail, note_store_failure
    <3>3. Holds(p) /\ session[p] /\ ~run'[p]
      BY <3>1, <2>b DEF SteadyFor, TypeOK
    <3>4. OthersKept(p) /\ RowFair(p) /\ Kept /\ Fresh
      BY <3>1, <3>2 DEF OthersKept, RowFair, Engaged, TypeOK
    <3>5. Backing /\ SteadyFor(p)'
      BY <3>1, <3>3 DEF Holds, SteadyFor
    <3> QED BY <3>4, <3>5, <2>0 DEF Goal
  <2>c. /\ UNCHANGED <<status, endLogged, owner, lease, at, session, run, seen>>
        /\ failed' = failed \/ failed' = [failed EXCEPT ![p] = TRUE]
        => Goal
    <3> SUFFICES ASSUME
             UNCHANGED <<status, endLogged, owner, lease, at, session, run, seen>>,
             failed' = failed \/ failed' = [failed EXCEPT ![p] = TRUE]
        PROVE  Goal
      OBVIOUS
    <3>1. OthersKept(p) /\ RowFair(p) /\ Kept /\ Fresh
      BY DEF OthersKept, RowFair, Engaged, TypeOK
    <3>2. failed[p] => failed'[p]
      BY DEF TypeOK
    <3>3. Backing /\ SteadyFor(p)'
      BY <3>2, <2>a, <2>b DEF Engaged, Holds, Spent, SteadyFor
    <3> QED BY <3>1, <3>3 DEF Goal
  <2>7. CASE ResolveRecovery(p)
    BY <2>7, <2>c, <2>0 DEF ResolveRecovery, row, succeed, fail, note_store_failure
  <2>8. CASE Refused(p)
    BY <2>8, <2>c, <2>0 DEF Refused, row, history, refuse, note_store_failure
  <2>d. /\ LetGo(p) /\ ~run'[p]
        /\ OthersKept(p) /\ RowFair(p) /\ Kept
        => Goal
    <3> SUFFICES ASSUME LetGo(p), ~run'[p], OthersKept(p), RowFair(p), Kept
                 PROVE  Goal
      OBVIOUS
    <3>1. at'[p] = "mailbox" /\ ~session'[p]
      BY DEF LetGo, goto, TypeOK
    <3> QED BY <3>1 DEF Goal, Engaged, SteadyFor
  <2>9. CASE ReleaseSession(p)
    <3>1. CASE settled(p) /\ release_lease(p, TRUE) /\ LetGo(p)
      <4>1. UNCHANGED <<status, endLogged, run, seen>> /\ ~run[p]
        BY <2>9, <3>1 DEF ReleaseSession, history, settled
      <4>2. /\ RowFair(p)
            /\ \A r \in Process : r # p => lease'[r] = lease[r]
        BY <3>1, ReleaseFair
      <4>3. \A r \in Process : r # p =>
              at'[r] = at[r] /\ session'[r] = session[r] /\ failed'[r] = failed[r]
        BY <3>1 DEF LetGo, goto, TypeOK
      <4>4. OthersKept(p)
        BY <4>1, <4>2, <4>3 DEF OthersKept
      <4> QED BY <3>1, <4>1, <4>2, <4>4, <2>d, <2>0
    <3>2. CASE ~(settled(p) /\ release_lease(p, TRUE) /\ LetGo(p))
      BY <2>9, <3>2, <2>c, <2>0
      DEF ReleaseSession, history, fail, refuse, note_store_failure
    <3> QED BY <3>1, <3>2
  <2>10. CASE End(p)
    <3>1. /\ at[p] = "mailbox" /\ session[p] /\ ~run[p]
          /\ UNCHANGED <<status, owner, lease, session, run, seen>>
          /\ failed' = failed \/ failed' = [failed EXCEPT ![p] = TRUE]
          /\ at' = [at EXCEPT ![p] = "ended"] \/ at' = at
      BY <2>10 DEF End, row, history, succeed, fail, note_store_failure, goto
    <3>2. at'[p] \in {"mailbox", "ended"} /\ (failed[p] => failed'[p])
      BY <3>1 DEF TypeOK
    <3>3. OthersKept(p) /\ RowFair(p) /\ Kept /\ Fresh
      BY <3>1 DEF OthersKept, RowFair, Engaged, TypeOK
    <3>4. Backing /\ SteadyFor(p)'
      BY <3>1, <3>2, <2>a DEF Engaged, Holds, Spent, SteadyFor
    <3> QED BY <3>3, <3>4, <2>0 DEF Goal
  <2>11. CASE EndRow(p)
    <3>1. /\ at[p] = "ended"
          /\ UNCHANGED <<endLogged, owner, lease, session, run, seen>>
          /\ failed' = failed \/ failed' = [failed EXCEPT ![p] = TRUE]
          /\ \/ status' = TRUE /\ at' = [at EXCEPT ![p] = "closing"]
             \/ status' = status /\ at' = [at EXCEPT ![p] = "mailbox"]
      BY <2>11 DEF EndRow, history, succeed, fail, note_store_failure, goto
    <3>2. /\ at'[p] = "mailbox" \/ (at'[p] = "closing" /\ status')
          /\ failed[p] => failed'[p]
          /\ status => status'
          /\ session[p] /\ ~run[p]
      BY <3>1, <2>b DEF TypeOK, SteadyFor
    <3>3. OthersKept(p) /\ RowFair(p) /\ Kept /\ Fresh
      BY <3>1 DEF OthersKept, RowFair, Engaged, TypeOK
    <3>4. Backing /\ SteadyFor(p)'
      BY <3>1, <3>2, <2>a DEF Engaged, Holds, Spent, SteadyFor
    <3> QED BY <3>3, <3>4, <2>0 DEF Goal
  <2>12. CASE EndClose(p)
    <3>1. CASE settled(p) /\ release_lease(p, TRUE) /\ LetGo(p)
      <4>1. UNCHANGED <<status, endLogged, run, seen>> /\ ~run[p]
        BY <2>12, <3>1 DEF EndClose, history, settled
      <4>2. /\ RowFair(p)
            /\ \A r \in Process : r # p => lease'[r] = lease[r]
        BY <3>1, ReleaseFair
      <4>3. \A r \in Process : r # p =>
              at'[r] = at[r] /\ session'[r] = session[r] /\ failed'[r] = failed[r]
        BY <3>1 DEF LetGo, goto, TypeOK
      <4>4. OthersKept(p)
        BY <4>1, <4>2, <4>3 DEF OthersKept
      <4> QED BY <3>1, <4>1, <4>2, <4>4, <2>d, <2>0
    <3>2. CASE ~(settled(p) /\ release_lease(p, TRUE) /\ LetGo(p))
      <4>1. PICK ok \in BOOLEAN : release_lease(p, ok)
        BY <2>12, <3>2 DEF EndClose
      <4>2. /\ at[p] = "closing"
            /\ failed' = [failed EXCEPT ![p] = TRUE]
            /\ at' = [at EXCEPT ![p] = "mailbox"]
            /\ UNCHANGED <<status, endLogged, session, run, seen>>
        BY <2>12, <3>2 DEF EndClose, history, fail, note_store_failure, goto
      <4>3. /\ at'[p] = "mailbox" /\ failed'[p] /\ session[p] /\ ~run[p]
        BY <4>2, <2>b DEF TypeOK, SteadyFor
      <4>4. OthersKept(p) /\ RowFair(p) /\ Kept /\ Fresh
        BY <4>1, <4>2, ReleaseFair DEF OthersKept, Engaged, TypeOK
      <4>5. status
        BY <4>2 DEF LeaseInv, Steady
      <4>6. Backing /\ SteadyFor(p)'
        BY <4>2, <4>3, <4>5 DEF Spent, SteadyFor
      <4> QED BY <4>4, <4>6, <2>0 DEF Goal
    <3> QED BY <3>1, <3>2
  <2>13. CASE Shutdown(p)
    <3>1. /\ LetGo(p) /\ run' = [run EXCEPT ![p] = FALSE]
          /\ lease' = [lease EXCEPT ![p] = NoLease]
          /\ UNCHANGED <<status, endLogged, seen>>
      BY <2>13 DEF Shutdown, Gone, history
    <3>2. RowFair(p)
      BY <2>13 DEF Shutdown, release_session, RowFair
    <3>3. OthersKept(p) /\ ~run'[p]
      BY <3>1 DEF OthersKept, LetGo, goto, TypeOK
    <3> QED BY <3>1, <3>2, <3>3, <2>d, <2>0
  <2>14. CASE Crash(p)
    <3>1. /\ LetGo(p) /\ run' = [run EXCEPT ![p] = FALSE]
          /\ lease' = [lease EXCEPT ![p] = NoLease]
          /\ UNCHANGED <<status, endLogged, owner, seen>>
      BY <2>14 DEF Crash, Gone, row, history
    <3>2. OthersKept(p) /\ ~run'[p] /\ RowFair(p)
      BY <3>1 DEF OthersKept, LetGo, goto, TypeOK, RowFair
    <3> QED BY <3>1, <3>2, <2>d, <2>0
  <2>15. CASE Reclaim(p)
    <3>1. /\ at[p] = "mailbox" /\ ~session[p]
          /\ failed' = [failed EXCEPT ![p] = FALSE]
          /\ UNCHANGED <<status, endLogged, lease, at, session, run, seen>>
          /\ \A q \in Process : lease[q] = owner => ~session[q] /\ at[q] = "mailbox"
      BY <2>15 DEF Reclaim, history
    <3>2. OthersKept(p) /\ RowFair(p) /\ Kept
      BY <3>1 DEF OthersKept, RowFair, Engaged, TypeOK
    <3>3. Fresh /\ Backing /\ SteadyFor(p)'
      BY <3>1, <2>b DEF Engaged, SteadyFor
    <3> QED BY <3>2, <3>3, <2>0 DEF Goal
  <2> QED BY <2>1, <2>3, <2>4, <2>5, <2>6, <2>7, <2>8, <2>9, <2>10, <2>11,
             <2>12, <2>13, <2>14, <2>15
<1> QED BY <1>1, <1>2

LEMMA LeaseInit == Init => LeaseInv
  BY DEF Init, LeaseInv, Sole, Backed, Steady, Engaged

\* No two processes ever have the session open, for any number of processes
\* and leases, as long as humans reclaim only sessions nobody has open.
THEOREM ExactlyOneWriter ==
  ASSUME ~HumanErrs
  PROVE  Spec => []OneWriter
<1>1. LeaseInv => OneWriter
  BY DEF LeaseInv, Sole, OneWriter, Engaged
<1>2. TypeOK /\ LeaseInv /\ [Next]_vars => LeaseInv'
  BY LeaseStep
<1> QED BY <1>1, <1>2, LeaseInit, TypeCorrect, PTL DEF Spec

\* A run is always under the row the store knows.
THEOREM WorkIsLeased ==
  ASSUME ~HumanErrs
  PROVE  Spec => []WorkHoldsTheLease
<1>1. LeaseInv => WorkHoldsTheLease
  BY DEF LeaseInv, Steady, Holds, WorkHoldsTheLease
<1>2. TypeOK /\ LeaseInv /\ [Next]_vars => LeaseInv'
  BY LeaseStep
<1> QED BY <1>1, <1>2, LeaseInit, TypeCorrect, PTL DEF Spec

\* An ended session is never opened again, whatever became of its row.
THEOREM EndedNeverReopens ==
  ASSUME ~HumanErrs
  PROVE  Spec => EndedStaysClosed
<1>1. TypeOK /\ LeaseInv /\ [Next]_vars
        => [\A p \in Process : endLogged /\ ~session[p] => ~session'[p]]_vars
  <2> SUFFICES ASSUME TypeOK, LeaseInv, Next, endLogged,
                      NEW p \in Process, ~session[p], session'[p]
               PROVE  FALSE
    OBVIOUS
  <2>1. PICK q \in Process :
          \/ Acquire(q) \/ Read(q) \/ Open(q)
          \/ StartRun(q) \/ FinishRun(q) \/ ResolveRecovery(q)
          \/ Refused(q) \/ ReleaseSession(q) \/ End(q)
          \/ EndRow(q) \/ EndClose(q)
          \/ Shutdown(q) \/ Crash(q) \/ Reclaim(q)
    BY DEF Next
  <2>2. CASE Open(q)
    <3>1. CASE ResumeFailed(q)
      BY <3>1 DEF ResumeFailed
    <3>2. CASE ~ResumeFailed(q)
      <4>1. /\ at[q] = "read" /\ ~seen[q].ended
            /\ session' = [session EXCEPT ![q] = TRUE]
        BY <2>2, <3>2 DEF Open, refused
      <4> QED BY <4>1 DEF LeaseInv, Steady
    <3> QED BY <3>1, <3>2
  <2>3. CASE Acquire(q) \/ Read(q) \/ StartRun(q) \/ FinishRun(q)
             \/ ResolveRecovery(q) \/ Refused(q) \/ End(q) \/ EndRow(q)
             \/ Reclaim(q)
    BY <2>3 DEF Acquire, Read, ResumeFailed, StartRun, FinishRun,
                ResolveRecovery, Refused, End, EndRow, Reclaim
  <2>4. CASE ReleaseSession(q) \/ EndClose(q) \/ Shutdown(q) \/ Crash(q)
    BY <2>4 DEF ReleaseSession, EndClose, Shutdown, Crash, Gone, LetGo, TypeOK
  <2> QED BY <2>1, <2>2, <2>3, <2>4
<1>2. TypeOK /\ LeaseInv /\ [Next]_vars => LeaseInv'
  BY LeaseStep
<1> QED BY <1>1, <1>2, LeaseInit, TypeCorrect, PTL DEF Spec, EndedStaysClosed

\* Even when humans break the leases of live holders, a row goes only by such a
\* reclaim or by the process that holds it.
THEOREM RowsAreTheirHolders == Spec => OnlyTheHolderReleases
<1>1. TypeOK /\ [Next]_vars
        => [owner' # owner /\ owner # NoLease =>
              \/ \E p \in Process : Reclaim(p)
              \/ \E p \in Process : lease[p] = owner /\ lease'[p] # owner]_vars
  <2> SUFFICES ASSUME TypeOK, Next, owner' # owner, owner # NoLease,
                      ~ \E p \in Process : Reclaim(p)
               PROVE  \E p \in Process : lease[p] = owner /\ lease'[p] # owner
    OBVIOUS
  <2>1. PICK q \in Process :
          \/ Acquire(q) \/ Read(q) \/ Open(q)
          \/ StartRun(q) \/ FinishRun(q) \/ ResolveRecovery(q)
          \/ Refused(q) \/ ReleaseSession(q) \/ End(q)
          \/ EndRow(q) \/ EndClose(q)
          \/ Shutdown(q) \/ Crash(q)
    BY DEF Next
  <2>2. CASE \E ok \in BOOLEAN : release_lease(q, ok)
    BY <2>2 DEF release_lease, release_session, TypeOK
  <2>3. CASE Shutdown(q)
    BY <2>3 DEF Shutdown, release_session, TypeOK
  <2>4. CASE Acquire(q)
    BY <2>4 DEF Acquire, available
  <2>5. CASE Read(q) \/ Open(q)
    BY <2>5, <2>2 DEF Read, Open, ResumeFailed, row
  <2>6. CASE StartRun(q) \/ FinishRun(q) \/ ResolveRecovery(q) \/ Refused(q)
             \/ End(q) \/ EndRow(q) \/ Crash(q)
    BY <2>6 DEF StartRun, FinishRun, ResolveRecovery, Refused, End, EndRow,
                Crash, row
  <2>7. CASE ReleaseSession(q) \/ EndClose(q)
    BY <2>7, <2>2 DEF ReleaseSession, EndClose
  <2> QED BY <2>1, <2>3, <2>4, <2>5, <2>6, <2>7
<1> QED BY <1>1, TypeCorrect, PTL DEF Spec, OnlyTheHolderReleases
--------------------------------------------------------------------------------
(* One author after another *)

\* Whoever has the session open knows what the record has open: it runs it, it
\* waits for a human about it, or it could not write and is blocked.  What a
\* resume has read is still so, and the end of the session leaves its author
\* blocked or on the way out.
AnswersFor(p) ==
  /\ at[p] = "read" => seen[p].inFlight = inFlight
  /\ session[p] /\ inFlight => run[p] \/ recovering[p] \/ failed[p]
  /\ session[p] /\ endLogged => failed[p] \/ at[p] \in {"ended", "closing"}
  /\ run[p] => ~recovering[p]

AnswerInv == \A p \in Process : AnswersFor(p)

\* Only the author writes to the log, so a step answers for its own process.
LEMMA OneAnswerStep ==
  ASSUME LeaseInv, AnswerInv, NEW p \in Process,
         \A r \in Process : r # p =>
           /\ at'[r] = at[r] /\ session'[r] = session[r] /\ failed'[r] = failed[r]
           /\ run'[r] = run[r] /\ recovering'[r] = recovering[r] /\ seen'[r] = seen[r],
         UNCHANGED history \/ session[p],
         AnswersFor(p)'
  PROVE  AnswerInv'
<1> SUFFICES ASSUME NEW r \in Process, r # p PROVE AnswersFor(r)'
  BY DEF AnswerInv
<1>1. AnswersFor(r)
  BY DEF AnswerInv
<1>2. CASE UNCHANGED history
  BY <1>1, <1>2 DEF AnswersFor, history
<1>3. CASE session[p]
  <2>1. ~session[r] /\ at[r] = "mailbox"
    BY <1>3 DEF LeaseInv, Sole, Engaged
  <2>2. ~run[r]
    BY <2>1 DEF LeaseInv, Steady
  <2> QED BY <2>1, <2>2 DEF AnswersFor
<1> QED BY <1>2, <1>3

\* AnswerInv is inductive under the lease.
LEMMA AnswerStep ==
  TypeOK /\ LeaseInv /\ AnswerInv /\ [Next]_vars => AnswerInv'
<1> SUFFICES ASSUME TypeOK, LeaseInv, AnswerInv, [Next]_vars PROVE AnswerInv'
  OBVIOUS
<1>1. CASE UNCHANGED vars
  BY <1>1 DEF vars, row, history, AnswerInv, AnswersFor
<1>2. CASE Next
  <2> SUFFICES ASSUME NEW p \in Process,
                      \/ Acquire(p) \/ Read(p) \/ Open(p)
                      \/ StartRun(p) \/ FinishRun(p) \/ ResolveRecovery(p)
                      \/ Refused(p) \/ ReleaseSession(p) \/ End(p)
                      \/ EndRow(p) \/ EndClose(p)
                      \/ Shutdown(p) \/ Crash(p) \/ Reclaim(p)
               PROVE  AnswerInv'
    BY <1>2 DEF Next
  <2> DEFINE Own == \A r \in Process : r # p =>
                      /\ at'[r] = at[r] /\ session'[r] = session[r]
                      /\ failed'[r] = failed[r] /\ run'[r] = run[r]
                      /\ recovering'[r] = recovering[r] /\ seen'[r] = seen[r]
  <2>0. Own /\ (UNCHANGED history \/ session[p]) /\ AnswersFor(p)' => AnswerInv'
    BY OneAnswerStep
  <2> HIDE DEF Own
  <2>a. AnswersFor(p) /\ SteadyFor(p)
    BY DEF AnswerInv, LeaseInv, Steady, SteadyFor
  \* The process is back at its mailbox without the session.
  <2>b. ASSUME at' = [at EXCEPT ![p] = "mailbox"], ~session'[p], ~run'[p], Own,
               UNCHANGED history
        PROVE  AnswerInv'
    <3>1. at'[p] = "mailbox"
      BY <2>b DEF TypeOK
    <3> QED BY <2>0, <2>b, <3>1 DEF AnswersFor
  \* It stays where it is, and at most a failure is noted.
  <2>c. ASSUME UNCHANGED <<history, at, session, run, recovering, seen>>,
               failed' = failed \/ failed' = [failed EXCEPT ![p] = TRUE]
        PROVE  AnswerInv'
    <3>1. Own /\ (failed[p] => failed'[p])
      BY <2>c DEF Own, TypeOK
    <3>2. AnswersFor(p)'
      BY <2>a, <2>c, <3>1 DEF AnswersFor, history
    <3> QED BY <2>0, <2>c, <3>1, <3>2
  <2>d. CASE LetGo(p) /\ UNCHANGED <<history, seen>>
             /\ ((run' = run /\ ~run[p]) \/ run' = [run EXCEPT ![p] = FALSE])
    <3>1. Own /\ ~session'[p] /\ ~run'[p]
      BY <2>d DEF LetGo, goto, Own, TypeOK
    <3> QED BY <2>b, <2>d, <3>1 DEF LetGo, goto
  <2>1. CASE Acquire(p)
    <3>1. CASE available
      <4>1. /\ at' = [at EXCEPT ![p] = "acquired"] /\ ~session[p]
            /\ UNCHANGED <<history, session, failed, run, recovering, seen>>
        BY <2>1, <3>1 DEF Acquire, goto, succeed
      <4>2. Own /\ at'[p] = "acquired"
        BY <4>1 DEF Own, TypeOK
      <4>3. AnswersFor(p)'
        BY <2>a, <4>1, <4>2 DEF AnswersFor
      <4> QED BY <2>0, <4>1, <4>2, <4>3
    <3>2. CASE ~available
      BY <2>1, <2>c, <3>2 DEF Acquire, refuse, note_store_failure
    <3> QED BY <3>1, <3>2
  <2>2. CASE ResumeFailed(p) /\ at[p] \in {"acquired", "read"}
    <3>1. Own /\ ~session'[p] /\ ~run'[p]
      BY <2>2, <2>a
      DEF ResumeFailed, fail, note_store_failure, goto, Own, SteadyFor, TypeOK
    <3> QED BY <2>2, <2>b, <3>1 DEF ResumeFailed, goto
  <2>3. CASE Read(p) /\ ~ResumeFailed(p)
    <3>1. /\ at[p] = "acquired" /\ at' = [at EXCEPT ![p] = "read"]
          /\ seen' = [seen EXCEPT ![p] = [ended |-> endLogged, inFlight |-> inFlight]]
          /\ UNCHANGED <<history, session, failed, run, recovering>>
      BY <2>3 DEF Read, goto, succeed
    <3>2. Own /\ seen'[p].inFlight = inFlight /\ ~session'[p]
      BY <2>a, <3>1 DEF Own, SteadyFor, TypeOK
    <3>3. AnswersFor(p)'
      BY <2>a, <3>1, <3>2 DEF AnswersFor, history
    <3> QED BY <2>0, <3>1, <3>2, <3>3
  <2>4. CASE Open(p) /\ ~ResumeFailed(p)
    <3>1. /\ at[p] = "read" /\ ~seen[p].ended
          /\ at' = [at EXCEPT ![p] = "mailbox"]
          /\ session' = [session EXCEPT ![p] = TRUE]
          /\ recovering' = [recovering EXCEPT ![p] = seen[p].inFlight]
          /\ \E stored \in BOOLEAN : failed' = [failed EXCEPT ![p] = ~stored]
          /\ UNCHANGED <<history, run, seen>>
      BY <2>4 DEF Open, refused, goto
    <3>2. Own /\ at'[p] = "mailbox" /\ recovering'[p] = seen[p].inFlight
      BY <3>1 DEF Own, TypeOK
    <3>3. AnswersFor(p)'
      BY <2>a, <3>1, <3>2 DEF AnswersFor, SteadyFor, history
    <3> QED BY <2>0, <3>1, <3>2, <3>3
  <2>5. CASE StartRun(p)
    <3>1. CASE run' = run
      <4>1. fail(p) /\ UNCHANGED <<history, at, session, recovering, seen>>
        BY <2>5, <3>1 DEF StartRun, history, TypeOK
      <4> QED BY <2>c, <3>1, <4>1 DEF fail, note_store_failure
    <3>2. CASE run' # run
      <4>1. /\ run' = [run EXCEPT ![p] = TRUE] /\ session[p] /\ at[p] = "mailbox"
            /\ UNCHANGED <<endLogged, at, session, failed, recovering, seen>>
        BY <2>5, <3>2 DEF StartRun, succeed
      <4>a. ~recovering[p]
        BY <2>5 DEF StartRun, blocked
      <4>2. Own /\ run'[p]
        BY <4>1 DEF Own, TypeOK
      <4>3. AnswersFor(p)'
        BY <2>a, <4>1, <4>2, <4>a DEF AnswersFor
      <4> QED BY <2>0, <4>1, <4>2, <4>3
    <3> QED BY <3>1, <3>2
  <2>6. CASE FinishRun(p)
    <3>1. /\ at[p] = "mailbox" /\ session[p]
          /\ run' = [run EXCEPT ![p] = FALSE]
          /\ UNCHANGED <<endLogged, at, session, recovering, seen>>
          /\ \/ failed' = failed /\ ~inFlight'
             \/ failed' = [failed EXCEPT ![p] = TRUE]
      BY <2>6, <2>a DEF FinishRun, succeed, fail, note_store_failure, SteadyFor
    <3>2. Own /\ (failed' # failed => failed'[p])
      BY <3>1 DEF Own, TypeOK
    <3>3. failed[p] => failed'[p]
      BY <3>1, <3>2
    <3>4. AnswersFor(p)'
      BY <2>a, <3>1, <3>2, <3>3 DEF AnswersFor, TypeOK
    <3> QED BY <2>0, <3>1, <3>2, <3>4
  <2>7. CASE ResolveRecovery(p)
    <3>1. CASE UNCHANGED <<inFlight, recovering>>
      BY <2>7, <2>c, <3>1
      DEF ResolveRecovery, succeed, fail, note_store_failure, history
    <3>2. CASE ~UNCHANGED <<inFlight, recovering>>
      <4>1. /\ session[p] /\ at[p] = "mailbox" /\ ~inFlight'
            /\ recovering' = [recovering EXCEPT ![p] = FALSE]
            /\ UNCHANGED <<endLogged, at, session, failed, run, seen>>
        BY <2>7, <3>2 DEF ResolveRecovery, succeed
      <4>2. Own
        BY <4>1 DEF Own, TypeOK
      <4>3. AnswersFor(p)'
        BY <2>a, <4>1 DEF AnswersFor
      <4> QED BY <2>0, <4>1, <4>2, <4>3
    <3> QED BY <3>1, <3>2
  <2>8. CASE Refused(p)
    BY <2>8, <2>c DEF Refused, refuse, note_store_failure
  <2>9. CASE ReleaseSession(p)
    BY <2>9, <2>c, <2>d
    DEF ReleaseSession, settled, fail, refuse, note_store_failure
  <2>10. CASE End(p)
    <3>1. CASE UNCHANGED <<history, at>>
      BY <2>10, <2>c, <3>1 DEF End, succeed, fail, note_store_failure
    <3>2. CASE ~UNCHANGED <<history, at>>
      <4>1. /\ session[p] /\ ~inFlight' /\ at' = [at EXCEPT ![p] = "ended"]
            /\ UNCHANGED <<session, failed, run, recovering, seen>>
        BY <2>10, <3>2 DEF End, succeed, goto
      <4>2. Own /\ at'[p] = "ended"
        BY <4>1 DEF Own, TypeOK
      <4>3. AnswersFor(p)'
        BY <2>a, <4>1, <4>2 DEF AnswersFor
      <4> QED BY <2>0, <4>1, <4>2, <4>3
    <3> QED BY <3>1, <3>2
  <2>11. CASE EndRow(p) \/ (EndClose(p) /\ ~(settled(p) /\ LetGo(p)))
    <3>1. /\ at[p] \in {"ended", "closing"} /\ session[p]
          /\ UNCHANGED <<history, session, run, recovering, seen>>
          /\ \/ at' = [at EXCEPT ![p] = "closing"] /\ failed' = failed
             \/ /\ at' = [at EXCEPT ![p] = "mailbox"]
                /\ failed' = [failed EXCEPT ![p] = TRUE]
      BY <2>11, <2>a
      DEF EndRow, EndClose, succeed, fail, note_store_failure, goto, SteadyFor
    <3>2. /\ at'[p] = "closing" \/ (at'[p] = "mailbox" /\ failed'[p])
          /\ failed[p] => failed'[p]
      BY <3>1 DEF TypeOK
    <3>3. Own
      BY <3>1 DEF Own, TypeOK
    <3>4. AnswersFor(p)'
      BY <2>a, <3>1, <3>2 DEF AnswersFor, history
    <3> QED BY <2>0, <3>1, <3>3, <3>4
  <2>12. CASE EndClose(p) /\ settled(p) /\ LetGo(p)
    BY <2>12, <2>d DEF EndClose, settled
  <2>13. CASE Shutdown(p) \/ Crash(p)
    BY <2>13, <2>d DEF Shutdown, Crash, Gone
  <2>14. CASE Reclaim(p)
    <3>1. /\ at[p] = "mailbox" /\ ~session[p]
          /\ failed' = [failed EXCEPT ![p] = FALSE]
          /\ UNCHANGED <<history, at, session, run, recovering, seen>>
      BY <2>14 DEF Reclaim
    <3>2. Own
      BY <3>1 DEF Own, TypeOK
    <3>3. AnswersFor(p)'
      BY <2>a, <3>1 DEF AnswersFor
    <3> QED BY <2>0, <3>1, <3>2, <3>3
  <2>15. Read(p) => ~ResumeFailed(p) \/ at[p] = "acquired"
    BY DEF Read
  <2>16. Open(p) => ~ResumeFailed(p) \/ at[p] = "read"
    BY DEF Open
  <2> QED BY <2>1, <2>2, <2>3, <2>4, <2>5, <2>6, <2>7, <2>8, <2>9, <2>10, <2>11,
             <2>12, <2>13, <2>14, <2>15, <2>16
<1> QED BY <1>1, <1>2

LEMMA AnswerInit == Init => AnswerInv
<1> SUFFICES ASSUME Init PROVE AnswerInv
  OBVIOUS
<1> SUFFICES ASSUME NEW p \in Process PROVE AnswersFor(p)
  BY DEF AnswerInv
<1>1. /\ at = [q \in Process |-> "mailbox"]
      /\ session = [q \in Process |-> FALSE]
      /\ run = [q \in Process |-> FALSE]
  BY DEF Init
<1>2. at[p] = "mailbox" /\ ~session[p] /\ ~run[p]
  BY <1>1
<1> QED BY <1>2 DEF AnswersFor

\* What SessionAuthor sees while a process is engaged: that process alone.
LEMMA AloneWithIt ==
  ASSUME TypeOK, LeaseInv, NEW p \in Process, Engaged(p)
  PROVE  /\ {q \in Process : session[q]} = IF session[p] THEN {p} ELSE {}
         /\ {q \in Process : run[q]} = IF run[p] THEN {p} ELSE {}
<1>1. \A q \in Process : session[q] \/ run[q] => q = p
  BY DEF LeaseInv, Sole, Steady, Engaged
<1> QED BY <1>1

\* And after a step in which every other process kept its session and its run.
LEMMA AloneAfter ==
  ASSUME TypeOK, LeaseInv, NEW p \in Process, Engaged(p),
         \A r \in Process : r # p => session'[r] = session[r] /\ run'[r] = run[r]
  PROVE  /\ {q \in Process : session'[q]} = IF session'[p] THEN {p} ELSE {}
         /\ {q \in Process : run'[q]} = IF run'[p] THEN {p} ELSE {}
<1>1. \A q \in Process : session'[q] \/ run'[q] => q = p
  BY DEF LeaseInv, Sole, Steady, Engaged
<1> QED BY <1>1

\* Every step of a process is a step of SessionAuthor, or nothing to it.
LEMMA PromiseStep ==
  TypeOK /\ LeaseInv /\ AnswerInv /\ [Next]_vars => [Promise!Next]_(Promise!shared)
<1> SUFFICES ASSUME TypeOK, LeaseInv, AnswerInv, [Next]_vars
             PROVE  Promise!Next \/ UNCHANGED Promise!shared
  OBVIOUS
<1>a. UNCHANGED <<history, session, run>> => UNCHANGED Promise!shared
  BY DEF history, Promise!shared
<1>1. CASE UNCHANGED vars
  BY <1>1, <1>a DEF vars
<1>2. CASE Next
  <2> SUFFICES ASSUME NEW p \in Process,
                      \/ Acquire(p) \/ Read(p) \/ Open(p)
                      \/ StartRun(p) \/ FinishRun(p) \/ ResolveRecovery(p)
                      \/ Refused(p) \/ ReleaseSession(p) \/ End(p)
                      \/ EndRow(p) \/ EndClose(p)
                      \/ Shutdown(p) \/ Crash(p) \/ Reclaim(p)
               PROVE  Promise!Next \/ UNCHANGED Promise!shared
    BY <1>2 DEF Next
  <2> DEFINE A == {q \in Process : session[q]}
             W == {q \in Process : run[q]}
  <2>0. AnswersFor(p) /\ SteadyFor(p)
    BY DEF AnswerInv, LeaseInv, Steady, SteadyFor
  <2>a. session[p] => A = {p} /\ W = IF run[p] THEN {p} ELSE {}
    BY AloneWithIt DEF Engaged
  <2>b. session[p] /\ UNCHANGED session => A' = {p}
    BY <2>a
  <2>1. CASE LetGo(p) /\ UNCHANGED history
             /\ (run' = [run EXCEPT ![p] = FALSE] \/ (run' = run /\ ~run[p]))
    <3>1. /\ session' = [session EXCEPT ![p] = FALSE]
          /\ run' = [run EXCEPT ![p] = FALSE]
          /\ UNCHANGED <<inFlight, endLogged>>
      BY <2>1 DEF LetGo, TypeOK, history
    <3>2. CASE ~session[p]
      <4>1. UNCHANGED <<session, run>>
        BY <2>0, <3>1, <3>2 DEF SteadyFor, TypeOK
      <4> QED BY <2>1, <4>1, <1>a
    <3>3. CASE session[p]
      <4>1. /\ ~session'[p] /\ ~run'[p]
            /\ \A r \in Process : r # p => session'[r] = session[r] /\ run'[r] = run[r]
        BY <3>1 DEF TypeOK
      <4>2. A' = {} /\ W' = {}
        BY <3>3, <4>1, AloneAfter DEF Engaged
      <4>3. Promise!Leave(p)
        BY <2>a, <3>1, <3>3, <4>2 DEF Promise!Leave
      <4> QED BY <4>3 DEF Promise!Next
    <3> QED BY <3>2, <3>3
  <2>2. CASE ReleaseSession(p) \/ EndClose(p)
    <3>1. settled(p) => ~run[p]
      BY DEF settled
    <3> QED BY <2>1, <2>2, <3>1, <1>a DEF ReleaseSession, EndClose
  <2>3. CASE Shutdown(p) \/ Crash(p)
    BY <2>1, <2>3 DEF Shutdown, Crash, Gone
  <2>4. CASE Acquire(p) \/ Read(p) \/ Refused(p) \/ EndRow(p) \/ Reclaim(p)
    BY <2>4, <1>a DEF Acquire, Read, ResumeFailed, Refused, EndRow, Reclaim
  <2>5. CASE Open(p)
    <3>1. CASE ResumeFailed(p)
      BY <3>1, <1>a DEF ResumeFailed
    <3>2. CASE ~ResumeFailed(p)
      <4>1. /\ at[p] = "read" /\ ~seen[p].ended
            /\ session' = [session EXCEPT ![p] = TRUE]
            /\ UNCHANGED <<inFlight, endLogged, run>>
        BY <2>5, <3>2 DEF Open, refused, history
      <4>2. Engaged(p) /\ ~session[p] /\ ~endLogged
        BY <2>0, <4>1 DEF Engaged, SteadyFor
      <4>3. /\ session'[p]
            /\ \A r \in Process : r # p => session'[r] = session[r] /\ run'[r] = run[r]
        BY <4>1 DEF TypeOK
      <4>4. A = {} /\ A' = {p} /\ W' = W
        BY <4>1, <4>2, <4>3, AloneWithIt, AloneAfter
      <4>5. Promise!Enter(p)
        BY <4>1, <4>2, <4>4 DEF Promise!Enter
      <4> QED BY <4>5 DEF Promise!Next
    <3> QED BY <3>1, <3>2
  <2>6. CASE StartRun(p)
    <3>1. CASE UNCHANGED <<run, inFlight>>
      BY <2>6, <3>1, <1>a DEF StartRun, history
    <3>2. CASE ~UNCHANGED <<run, inFlight>>
      <4>1. /\ session[p] /\ at[p] = "mailbox" /\ ~run[p] /\ ~failed[p] /\ ~recovering[p]
            /\ run' = [run EXCEPT ![p] = TRUE] /\ inFlight' = TRUE
            /\ UNCHANGED <<endLogged, session>>
        BY <2>6, <3>2 DEF StartRun, blocked
      <4>2. ~inFlight /\ ~endLogged
        BY <2>0, <4>1 DEF AnswersFor
      <4>3. run'[p] /\ \A r \in Process : r # p => run'[r] = run[r]
        BY <4>1 DEF TypeOK
      <4>4. W' = {p}
        BY <4>1, <4>3, AloneAfter DEF Engaged
      <4>5. Promise!Begin(p)
        BY <2>a, <2>b, <4>1, <4>2, <4>4 DEF Promise!Begin
      <4> QED BY <4>5 DEF Promise!Next
    <3> QED BY <3>1, <3>2
  <2>7. CASE FinishRun(p)
    <3>1. /\ session[p] /\ run[p] /\ run' = [run EXCEPT ![p] = FALSE]
          /\ inFlight' \in {FALSE, inFlight}
          /\ UNCHANGED <<endLogged, session>>
      BY <2>0, <2>7 DEF FinishRun, SteadyFor
    <3>2. ~run'[p] /\ \A r \in Process : r # p => run'[r] = run[r]
      BY <3>1 DEF TypeOK
    <3>3. W' = {}
      BY <3>1, <3>2, AloneAfter DEF Engaged
    <3>4. Promise!Finish(p)
      BY <2>a, <2>b, <3>1, <3>3 DEF Promise!Finish
    <3> QED BY <3>4 DEF Promise!Next
  <2>8. CASE ResolveRecovery(p)
    <3>0. ~run[p]
      BY <2>0, <2>8 DEF ResolveRecovery, AnswersFor
    <3>1. CASE inFlight' = inFlight
      BY <2>8, <3>1, <1>a DEF ResolveRecovery, history
    <3>2. CASE inFlight' # inFlight
      <4>1. /\ session[p] /\ inFlight /\ inFlight' = FALSE
            /\ UNCHANGED <<endLogged, session, run>>
        BY <2>8, <3>2 DEF ResolveRecovery, TypeOK
      <4>2. Promise!Answer(p)
        BY <2>a, <3>0, <4>1 DEF Promise!Answer
      <4> QED BY <4>2 DEF Promise!Next
    <3> QED BY <3>1, <3>2
  <2>9. CASE End(p)
    <3>1. CASE UNCHANGED history
      BY <2>9, <3>1, <1>a DEF End
    <3>2. CASE ~UNCHANGED history
      <4>1. /\ session[p] /\ ~run[p] /\ endLogged' = TRUE /\ inFlight' = FALSE
            /\ UNCHANGED <<session, run>>
        BY <2>9, <3>2 DEF End
      <4>2. Promise!End(p)
        BY <2>a, <4>1 DEF Promise!End
      <4> QED BY <4>2 DEF Promise!Next
    <3> QED BY <3>1, <3>2
  <2> QED BY <2>2, <2>3, <2>4, <2>5, <2>6, <2>7, <2>8, <2>9
<1> QED BY <1>1, <1>2

\* For any processes and leases, as long as humans reclaim only sessions nobody
\* has open, the session passes from one author to the next as SessionAuthor
\* promises, and what one leaves behind the next one answers for before it runs.
THEOREM SessionsPassFromHandToHand ==
  ASSUME ~HumanErrs
  PROVE  Spec => PassesFromHandToHand
<1>1. Init => AnswerInv
  BY AnswerInit
<1>2. Init => Promise!Init
  BY DEF Init, Promise!Init
<1>3. TypeOK /\ LeaseInv /\ [Next]_vars => LeaseInv'
  BY LeaseStep
<1>4. TypeOK /\ LeaseInv /\ AnswerInv /\ [Next]_vars
        => AnswerInv' /\ [Promise!Next]_(Promise!shared)
  BY AnswerStep, PromiseStep
<1> QED BY <1>1, <1>2, <1>3, <1>4, LeaseInit, TypeCorrect, PTL
        DEF Spec, PassesFromHandToHand, Promise!Spec
================================================================================
