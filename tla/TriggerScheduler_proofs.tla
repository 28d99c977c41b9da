------------------------ MODULE TriggerScheduler_proofs ------------------------
(***************************************************************************)
(* What the scheduler's loop guarantees for any number of firings, faults     *)
(* and consecutive failures.                                                *)
(*                                                                          *)
(* The loop tells firings apart only by the token it holds, so both theorems *)
(* rest on what the settlement channel holds: the firings that have sent, each *)
(* exactly once (MailIsTheSent), so that the settlement the loop takes is the *)
(* one of the firing it holds.                                               *)
(***************************************************************************)
EXTENDS TriggerScheduler, TLAPS

\* The settlements in the channel are those of the firings that have sent.
MailIsTheSent ==
  /\ \A n \in DOMAIN mail : firing[mail[n]].state = "sent"
  /\ \A m, n \in DOMAIN mail : mail[m] = mail[n] => m = n

\* The conjuncts of NeverWedged, with the last one also for a loop that stopped.
TokenIsLive == at # "stopped" /\ in_flight # NoFiring => live(in_flight)
QueuedHasReason ==
  at # "stopped" /\ queued => in_flight # NoFiring \/ at \in {"count", "requeue"}
SentIsInMail ==
  at # "stopped" =>
    \A i \in Firing : firing[i].state = "sent" => \E n \in DOMAIN mail : mail[n] = i

Inv ==
  /\ TypeOK /\ MailIsTheSent /\ OneFiring
  /\ TokenIsLive /\ QueuedHasReason /\ SentIsInMail

--------------------------------------------------------------------------------
(* Helpers of the loop.                                                      *)

\* A firing of each shape has the type of a firing.
LEMMA UnbornIsFiring ==
  /\ Unborn \in FiringState /\ Unborn.state = "none"
  /\ \A p \in Payload :
       LET born == [Unborn EXCEPT !.state = "running", !.input = p]
       IN  born \in FiringState /\ born.state = "running"
<1> QED BY DEF Unborn, FiringState, Payload

\* What overlap::decide may answer: only Replace starts beside a firing in flight.
LEMMA Decisions ==
  ASSUME NEW policy \in {"Skip", "Queue", "Replace"}, NEW busy \in BOOLEAN,
         NEW waits \in BOOLEAN
  PROVE  /\ decide(policy, busy, waits) \in {"Start", "Skip", "Queue", "Replace"}
         /\ decide(policy, busy, waits) = "Start" => ~busy
         /\ decide(policy, busy, waits) \in {"Skip", "Queue"} => busy
         /\ decide(policy, busy, waits) = "Replace" => policy = "Replace"
<1> QED BY DEF decide

\* start_firing gives the loop the token of a firing that did not exist.
LEMMA StartIsFresh ==
  ASSUME TypeOK, NEW p \in Payload, start_firing(p)
  PROVE  \E i \in Firing :
           /\ firing[i].state = "none" /\ in_flight' = i /\ i # NoFiring
           /\ firing' \in [Firing -> FiringState]
           /\ firing'[i].state = "running"
           /\ \A j \in Firing \ {i} : firing'[j] = firing[j]
<1>1. PICK i \in Firing :
        /\ firing[i] = Unborn /\ in_flight' = i
        /\ firing' = [firing EXCEPT ![i] =
                        [Unborn EXCEPT !.state = "running", !.input = p]]
  BY DEF start_firing
<1>2. i # NoFiring
  BY DEF Firing, NoFiring
<1> DEFINE born == [Unborn EXCEPT !.state = "running", !.input = p]
<1>3. born \in FiringState /\ born.state = "running" /\ firing[i].state = "none"
  BY <1>1, UnbornIsFiring
<1> HIDE DEF born
<1>4. firing' = [firing EXCEPT ![i] = born]
  BY <1>1 DEF born
<1>5. /\ firing' \in [Firing -> FiringState] /\ firing'[i] = born
      /\ \A j \in Firing \ {i} : firing'[j] = firing[j]
  BY <1>3, <1>4 DEF TypeOK
<1> QED BY <1>1, <1>2, <1>3, <1>5

\* What handle_occurrence does to the token, the slot and the firings.
LEMMA OccurrenceKeeps ==
  ASSUME Inv, NEW p \in Payload, NEW waits \in BOOLEAN, at # "stopped",
         handle_occurrence(p, waits),
         at' # "stopped", mail' = mail, overlap' = overlap
  PROVE  /\ in_flight' \in Firing \union {NoFiring} /\ queued' \in BOOLEAN
         /\ firing' \in [Firing -> FiringState]
         /\ MailIsTheSent' /\ OneFiring' /\ TokenIsLive' /\ SentIsInMail'
         /\ queued' => in_flight' # NoFiring
<1> DEFINE decision == decide(overlap, in_flight # NoFiring, waits)
<1>1. /\ decision \in {"Start", "Skip", "Queue", "Replace"}
      /\ decision = "Start" => in_flight = NoFiring
      /\ decision \in {"Skip", "Queue"} => in_flight # NoFiring
      /\ decision = "Replace" => overlap = "Replace"
  <2>1. overlap \in {"Skip", "Queue", "Replace"} /\ (in_flight # NoFiring) \in BOOLEAN
    BY TriggerAssumption DEF Inv, TypeOK
  <2> QED BY <2>1, Decisions
<1>2. \/ /\ decision \in {"Start", "Replace"}
         /\ start_firing(p) /\ queued' = waits
      \/ /\ decision \in {"Skip", "Queue"}
         /\ queued' = (waits \/ decision = "Queue")
         /\ UNCHANGED <<in_flight, firing>>
  BY DEF handle_occurrence
<1> HIDE DEF decision
<1>3. CASE decision \in {"Start", "Replace"} /\ start_firing(p) /\ queued' = waits
  <2>1. PICK i \in Firing :
          /\ firing[i].state = "none" /\ in_flight' = i /\ i # NoFiring
          /\ firing' \in [Firing -> FiringState]
          /\ firing'[i].state = "running"
          /\ \A j \in Firing \ {i} : firing'[j] = firing[j]
    BY <1>3, StartIsFresh DEF Inv
  <2>2. MailIsTheSent'
    <3>1. \A n \in DOMAIN mail : mail[n] \in Firing /\ mail[n] # i
      BY <2>1 DEF Inv, TypeOK, MailIsTheSent
    <3> QED BY <2>1, <3>1 DEF Inv, MailIsTheSent
  <2>3. SentIsInMail'
    BY <2>1 DEF Inv, SentIsInMail
  <2>4. OneFiring'
    <3>1. CASE overlap = "Replace"
      BY <3>1 DEF OneFiring
    <3>2. CASE overlap # "Replace"
      <4>1. \A j \in Firing : ~live(j)
        BY <1>1, <1>3, <3>2 DEF Inv, OneFiring, Firing, NoFiring
      <4> QED BY <2>1, <4>1 DEF OneFiring, live
    <3> QED BY <3>1, <3>2
  <2>5. TokenIsLive'
    BY <2>1 DEF TokenIsLive, live
  <2> QED BY <1>3, <2>1, <2>2, <2>3, <2>4, <2>5
<1>4. CASE /\ decision \in {"Skip", "Queue"}
           /\ queued' = (waits \/ decision = "Queue")
           /\ UNCHANGED <<in_flight, firing>>
  <2>1. MailIsTheSent' /\ SentIsInMail'
    BY <1>4 DEF Inv, MailIsTheSent, SentIsInMail
  <2>2. OneFiring' /\ TokenIsLive'
    BY <1>4 DEF Inv, OneFiring, TokenIsLive, live
  <2>3. queued' \in BOOLEAN
    BY <1>4
  <2> QED BY <1>1, <1>4, <2>1, <2>2, <2>3 DEF Inv, TypeOK
<1> QED BY <1>2, <1>3, <1>4

--------------------------------------------------------------------------------
(* The invariant.                                                           *)

\* No firing, no occurrence and no settlement to begin with.
LEMMA InvInit == Init => Inv
<1> SUFFICES ASSUME Init PROVE Inv
  OBVIOUS
<1>1. firing \in [Firing -> FiringState] /\ \A i \in Firing : firing[i].state = "none"
  BY UnbornIsFiring DEF Init
<1>2. TypeOK
  <2>1. mail \in Seq(Firing) /\ Len(mail) <= 2
    BY DEF Init
  <2>2. overlap \in OverlapPolicies /\ source \in Source /\ failures \in Nat
        /\ faults \in 0 .. MaxFaults /\ in_flight \in Firing \union {NoFiring}
    BY TriggerAssumption DEF Init
  <2> QED BY <1>1, <2>1, <2>2 DEF Init, TypeOK, At
<1>3. MailIsTheSent /\ OneFiring /\ TokenIsLive /\ QueuedHasReason /\ SentIsInMail
  BY <1>1
     DEF Init, MailIsTheSent, OneFiring, TokenIsLive, QueuedHasReason, SentIsInMail,
         live
<1> QED BY <1>2, <1>3 DEF Inv

\* A step that leaves the firings, the channel and the policy alone, and the token
\* with the slot wherever the loop goes on.
LEMMA QuietKeeps ==
  ASSUME Inv, firing' = firing, mail' = mail, overlap' = overlap,
         at' # "stopped" => at # "stopped" /\ in_flight' = in_flight
  PROVE  MailIsTheSent' /\ OneFiring' /\ TokenIsLive' /\ SentIsInMail'
<1>1. MailIsTheSent' /\ SentIsInMail'
  BY DEF Inv, MailIsTheSent, SentIsInMail
<1>2. OneFiring' /\ TokenIsLive'
  BY DEF Inv, OneFiring, TokenIsLive, live
<1> QED BY <1>1, <1>2

\* A fault, or none, stays within the bound.
LEMMA FaultsCount ==
  ASSUME faults \in 0 .. MaxFaults, fault \/ sound
  PROVE  faults' \in 0 .. MaxFaults
<1> QED BY TriggerAssumption DEF fault, sound

\* The settlement the loop takes is the one of the firing it holds, unless firings
\* replace each other.
LEMMA SettlementKeeps ==
  ASSUME Inv, TakeSettlement
  PROVE  Inv'
<1> DEFINE i == Head(mail)
<1>1. /\ at = "select" /\ mail # <<>> /\ mail \in Seq(Firing)
      /\ firing' = [firing EXCEPT ![i] = Unborn]
      /\ in_flight' = NoFiring /\ mail' = Tail(mail)
      /\ at' \in {"count", "requeue"}
      /\ UNCHANGED <<definition, disabled, queued, inbox, shutdown>>
  BY DEF Inv, TypeOK, TakeSettlement
<1>2. /\ i = mail[1] /\ i \in Firing /\ 1 \in DOMAIN mail
      /\ mail' \in Seq(Firing) /\ Len(mail') <= 2
      /\ \A n \in DOMAIN mail' : n + 1 \in DOMAIN mail /\ mail'[n] = mail[n + 1]
      /\ \A n \in DOMAIN mail :
           n # 1 => n - 1 \in DOMAIN mail' /\ mail'[n - 1] = mail[n]
  <2>1. Len(mail) <= 2
    BY DEF Inv, TypeOK
  <2> QED BY <1>1, <2>1
<1> HIDE DEF i
<1>3. /\ firing' \in [Firing -> FiringState] /\ firing'[i].state = "none"
      /\ \A j \in Firing \ {i} : firing'[j] = firing[j]
  BY <1>1, <1>2, UnbornIsFiring DEF Inv, TypeOK
<1>4. firing[i].state = "sent"
  BY <1>2 DEF Inv, MailIsTheSent
<1>5. MailIsTheSent'
  <2>1. \A n \in DOMAIN mail' : mail'[n] \in Firing /\ mail'[n] # i
    <3> SUFFICES ASSUME NEW n \in DOMAIN mail'
                 PROVE  mail'[n] \in Firing /\ mail'[n] # i
      OBVIOUS
    <3>1. n \in Nat /\ n + 1 # 1
      BY <1>2
    <3> QED BY <1>1, <1>2, <3>1 DEF Inv, MailIsTheSent
  <2>2. \A n \in DOMAIN mail' : firing'[mail'[n]].state = "sent"
    BY <1>2, <1>3, <2>1 DEF Inv, MailIsTheSent
  <2>3. \A m, n \in DOMAIN mail' : mail'[m] = mail'[n] => m = n
    <3> SUFFICES ASSUME NEW m \in DOMAIN mail', NEW n \in DOMAIN mail',
                        mail'[m] = mail'[n]
                 PROVE  m = n
      OBVIOUS
    <3>1. m \in Nat /\ n \in Nat /\ m + 1 = n + 1
      BY <1>2 DEF Inv, MailIsTheSent
    <3> QED BY <3>1
  <2> QED BY <2>2, <2>3 DEF MailIsTheSent
<1>6. SentIsInMail'
  <2> SUFFICES ASSUME NEW j \in Firing, firing'[j].state = "sent"
               PROVE  \E n \in DOMAIN mail' : mail'[n] = j
    BY DEF SentIsInMail
  <2>1. j # i /\ firing[j].state = "sent"
    BY <1>3
  <2>2. PICK n \in DOMAIN mail : mail[n] = j
    BY <1>1, <2>1 DEF Inv, SentIsInMail
  <2>3. n - 1 \in DOMAIN mail' /\ mail'[n - 1] = j
    BY <1>2, <2>1, <2>2
  <2> QED BY <2>3
<1>7. OneFiring'
  <2>1. overlap' = overlap
    BY <1>1 DEF definition
  <2>2. ASSUME overlap # "Replace" PROVE \A j \in Firing : ~(live(j)')
    <3>1. in_flight = i
      BY <1>1, <1>2, <1>4, <2>2 DEF Inv, OneFiring, live
    <3>2. \A j \in Firing \ {i} : ~live(j)
      BY <1>1, <2>2, <3>1 DEF Inv, OneFiring
    <3> QED BY <1>3, <3>2 DEF live
  <2> QED BY <2>1, <2>2 DEF OneFiring
<1>8. TokenIsLive' /\ QueuedHasReason'
  BY <1>1 DEF TokenIsLive, QueuedHasReason
<1>9. TypeOK'
  <2>1. failures' \in Nat /\ faults' \in 0 .. MaxFaults /\ due' = FALSE
    <3>1. failures' \in {failures, failures + 1, 0}
      BY DEF TakeSettlement
    <3>2. fault \/ sound
      BY DEF TakeSettlement
    <3> QED BY <3>1, <3>2, FaultsCount DEF Inv, TypeOK, TakeSettlement
  <2> QED BY <1>1, <1>2, <1>3, <2>1 DEF Inv, TypeOK, At, definition
<1> QED BY <1>5, <1>6, <1>7, <1>8, <1>9 DEF Inv

\* Every step of the loop, of a firing and of what is beside them keeps the invariant.
LEMMA InvNext == Inv /\ [Next]_vars => Inv'
<1> SUFFICES ASSUME Inv, [Next]_vars PROVE Inv'
  OBVIOUS
<1> USE DEF definition, log, slots, feed, spawned
<1>1. CASE Check
  <2>1. MailIsTheSent' /\ OneFiring' /\ TokenIsLive' /\ SentIsInMail'
    BY <1>1, QuietKeeps DEF Check
  <2>2. faults' \in 0 .. MaxFaults /\ at' \in At
    BY <1>1, FaultsCount DEF Check, Inv, TypeOK, At
  <2> QED BY <1>1, <2>1, <2>2 DEF Check, Inv, TypeOK, QueuedHasReason
<1>2. CASE Asleep
  <2>1. MailIsTheSent' /\ OneFiring' /\ TokenIsLive' /\ SentIsInMail'
    BY <1>2, QuietKeeps DEF Asleep
  <2> QED BY <1>2, <2>1 DEF Asleep, Inv, TypeOK, QueuedHasReason, At
<1>3. CASE TakeCancel
  <2>1. MailIsTheSent' /\ OneFiring' /\ TokenIsLive' /\ SentIsInMail'
    BY <1>3, QuietKeeps DEF TakeCancel
  <2> QED BY <1>3, <2>1 DEF TakeCancel, Inv, TypeOK, QueuedHasReason, At
<1>4. CASE TakeOccurrence
  <2>1. PICK p \in Payload : handle_occurrence(p, queued)
    BY <1>4 DEF TakeOccurrence, Payload
  <2>2. queued \in BOOLEAN /\ at # "stopped" /\ at' = "check"
        /\ mail' = mail /\ overlap' = overlap
    BY <1>4 DEF TakeOccurrence, Inv, TypeOK
  <2>3. /\ in_flight' \in Firing \union {NoFiring} /\ queued' \in BOOLEAN
        /\ firing' \in [Firing -> FiringState]
        /\ MailIsTheSent' /\ OneFiring' /\ TokenIsLive' /\ SentIsInMail'
        /\ queued' => in_flight' # NoFiring
    BY <2>1, <2>2, OccurrenceKeeps
  <2>4. QueuedHasReason'
    BY <2>3 DEF QueuedHasReason
  <2> QED BY <1>4, <2>2, <2>3, <2>4 DEF TakeOccurrence, Inv, TypeOK, At
<1>5. CASE TakeSettlement
  BY <1>5, SettlementKeeps
<1>6. CASE Count
  <2>1. MailIsTheSent' /\ OneFiring' /\ TokenIsLive' /\ SentIsInMail'
    BY <1>6, QuietKeeps DEF Count
  <2>2. faults' \in 0 .. MaxFaults /\ disabled' \in BOOLEAN
    BY <1>6, FaultsCount DEF Count, Inv, TypeOK
  <2> QED BY <1>6, <2>1, <2>2 DEF Count, Inv, TypeOK, QueuedHasReason, At
<1>7. CASE Requeue
  <2>1. CASE queued /\ handle_occurrence("none", FALSE)
    <3>1. at # "stopped" /\ at' = "check" /\ mail' = mail /\ overlap' = overlap
          /\ "none" \in Payload
      BY <1>7 DEF Requeue, Payload
    <3>2. /\ in_flight' \in Firing \union {NoFiring} /\ queued' \in BOOLEAN
          /\ firing' \in [Firing -> FiringState]
          /\ MailIsTheSent' /\ OneFiring' /\ TokenIsLive' /\ SentIsInMail'
          /\ queued' => in_flight' # NoFiring
      BY <2>1, <3>1, OccurrenceKeeps
    <3> QED BY <1>7, <3>1, <3>2 DEF Requeue, Inv, TypeOK, At, QueuedHasReason
  <2>2. CASE ~queued /\ UNCHANGED <<slots, firing>>
    <3>1. MailIsTheSent' /\ OneFiring' /\ TokenIsLive' /\ SentIsInMail'
      BY <1>7, <2>2, QuietKeeps DEF Requeue
    <3> QED BY <1>7, <2>2, <3>1 DEF Requeue, Inv, TypeOK, At, QueuedHasReason
  <2> QED BY <1>7, <2>1, <2>2 DEF Requeue
<1>8. ASSUME NEW i \in Firing, FiringEnds(i) PROVE Inv'
  <2>1. PICK failed \in BOOLEAN :
          firing' = [firing EXCEPT ![i].state = "ended", ![i].failed = failed]
    BY <1>8 DEF FiringEnds
  <2>2. /\ firing' \in [Firing -> FiringState] /\ firing[i].state = "running"
        /\ firing'[i].state = "ended"
        /\ \A j \in Firing \ {i} : firing'[j] = firing[j]
    BY <1>8, <2>1 DEF FiringEnds, Inv, TypeOK, FiringState
  <2>3. MailIsTheSent'
    <3>1. \A n \in DOMAIN mail : mail[n] \in Firing /\ mail[n] # i
      BY <2>2 DEF Inv, TypeOK, MailIsTheSent
    <3> QED BY <1>8, <2>2, <3>1 DEF FiringEnds, Inv, MailIsTheSent
  <2>4. SentIsInMail'
    BY <1>8, <2>2 DEF FiringEnds, Inv, SentIsInMail
  <2>5. \A j \in Firing : live(j)' <=> live(j)
    BY <2>2 DEF live
  <2>6. OneFiring' /\ TokenIsLive'
    BY <1>8, <2>5 DEF FiringEnds, Inv, TypeOK, OneFiring, TokenIsLive
  <2> QED BY <1>8, <2>2, <2>3, <2>4, <2>6 DEF FiringEnds, Inv, TypeOK, QueuedHasReason
<1>9. ASSUME NEW i \in Firing, FiringSettles(i) PROVE Inv'
  <2>1. CASE /\ at # "stopped" /\ Len(mail) < 2
             /\ mail' = Append(mail, i)
             /\ firing' = [firing EXCEPT ![i].state = "sent"]
    <3>1. /\ firing' \in [Firing -> FiringState] /\ firing[i].state = "ended"
          /\ firing'[i].state = "sent"
          /\ \A j \in Firing \ {i} : firing'[j] = firing[j]
      BY <1>9, <2>1 DEF FiringSettles, Inv, TypeOK, FiringState
    <3>2. /\ mail \in Seq(Firing) /\ mail' \in Seq(Firing)
          /\ Len(mail') = Len(mail) + 1 /\ Len(mail') <= 2 /\ Len(mail) \in Nat
          /\ mail'[Len(mail) + 1] = i
          /\ \A n \in DOMAIN mail : mail'[n] = mail[n]
          /\ DOMAIN mail = 1 .. Len(mail) /\ DOMAIN mail' = 1 .. Len(mail) + 1
      BY <2>1 DEF Inv, TypeOK
    <3>3. \A n \in DOMAIN mail : mail[n] \in Firing /\ mail[n] # i
      BY <3>1, <3>2 DEF Inv, MailIsTheSent
    <3>4. MailIsTheSent'
      BY <3>1, <3>2, <3>3 DEF Inv, MailIsTheSent
    <3>5. SentIsInMail'
      BY <2>1, <3>1, <3>2 DEF Inv, SentIsInMail
    <3>6. \A j \in Firing : live(j)' <=> live(j)
      BY <3>1 DEF live
    <3>7. OneFiring' /\ TokenIsLive'
      BY <1>9, <3>6 DEF FiringSettles, Inv, TypeOK, OneFiring, TokenIsLive
    <3> QED BY <1>9, <3>1, <3>2, <3>4, <3>5, <3>7
            DEF FiringSettles, Inv, TypeOK, QueuedHasReason
  <2>2. CASE /\ at = "stopped"
             /\ firing' = [firing EXCEPT ![i] = Unborn]
             /\ UNCHANGED mail
    <3>1. /\ firing' \in [Firing -> FiringState] /\ firing[i].state = "ended"
          /\ \A j \in Firing \ {i} : firing'[j] = firing[j]
      BY <1>9, <2>2, UnbornIsFiring DEF FiringSettles, Inv, TypeOK
    <3>2. MailIsTheSent'
      <4>1. \A n \in DOMAIN mail : mail[n] \in Firing /\ mail[n] # i
        BY <3>1 DEF Inv, TypeOK, MailIsTheSent
      <4> QED BY <2>2, <3>1, <4>1 DEF Inv, MailIsTheSent
    <3>3. at' = "stopped"
      BY <1>9, <2>2 DEF FiringSettles
    <3>4. OneFiring' /\ TokenIsLive' /\ SentIsInMail' /\ QueuedHasReason'
      BY <3>3 DEF OneFiring, TokenIsLive, SentIsInMail, QueuedHasReason
    <3> QED BY <1>9, <2>2, <3>1, <3>2, <3>4 DEF FiringSettles, Inv, TypeOK
  <2> QED BY <1>9, <2>1, <2>2 DEF FiringSettles
<1>10. CASE Post \/ Tick \/ Rearm \/ Cancel
  <2>1. MailIsTheSent' /\ OneFiring' /\ TokenIsLive' /\ SentIsInMail'
    BY <1>10, QuietKeeps DEF Post, Tick, Rearm, Cancel
  <2>2. inbox' \in {<<>>, <<"body">>} /\ due' \in BOOLEAN /\ disabled' \in BOOLEAN
        /\ failures' \in Nat /\ shutdown' \in BOOLEAN
    <3>1. CASE Post
      BY <3>1 DEF Post, Inv, TypeOK
    <3>2. CASE Tick
      BY <3>2 DEF Tick, Inv, TypeOK
    <3>3. CASE Rearm
      BY <3>3 DEF Rearm, Inv, TypeOK
    <3>4. CASE Cancel
      BY <3>4 DEF Cancel, Inv, TypeOK
    <3> QED BY <1>10, <3>1, <3>2, <3>3, <3>4
  <2> QED BY <1>10, <2>1, <2>2
          DEF Post, Tick, Rearm, Cancel, Inv, TypeOK, QueuedHasReason
<1>11. CASE Restart
  <2>1. firing' \in [Firing -> FiringState]
        /\ \A i \in Firing : firing'[i].state = "none"
    BY <1>11, UnbornIsFiring DEF Restart
  <2>2. mail' \in Seq(Firing) /\ Len(mail') <= 2 /\ mail' = <<>>
    BY <1>11 DEF Restart
  <2>3. MailIsTheSent' /\ OneFiring' /\ TokenIsLive' /\ SentIsInMail'
        /\ QueuedHasReason'
    BY <1>11, <2>1, <2>2
       DEF Restart, MailIsTheSent, OneFiring, TokenIsLive, SentIsInMail,
           QueuedHasReason, live
  <2>4. faults' \in 0 .. MaxFaults
    BY <1>11, FaultsCount DEF Restart, Inv, TypeOK
  <2> QED BY <1>11, <2>1, <2>2, <2>3, <2>4 DEF Restart, Inv, TypeOK, At
<1>12. CASE UNCHANGED vars
  <2>1. MailIsTheSent' /\ OneFiring' /\ TokenIsLive' /\ SentIsInMail'
    BY <1>12, QuietKeeps DEF vars
  <2> QED BY <1>12, <2>1 DEF vars, Inv, TypeOK, QueuedHasReason
<1> QED
  BY <1>1, <1>2, <1>3, <1>4, <1>5, <1>6, <1>7, <1>8, <1>9, <1>10, <1>11, <1>12
     DEF Next, Loop

--------------------------------------------------------------------------------
(* The failures on record.                                                   *)

\* BrokenTriggerIsDisabled wherever the loop is: while a failure that was recorded is
\* yet to be counted there may be one more.
FailuresAreCounted ==
  ~disabled =>
    failures < max_consecutive_failures + faults + (IF at = "count" THEN 1 ELSE 0)

\* A failing append loses at most the failure it was to record, and a process that
\* dies at most the count that was due: each is paid for by a fault.
LEMMA FailuresNext == Inv /\ FailuresAreCounted /\ [Next]_vars => FailuresAreCounted'
<1> SUFFICES ASSUME Inv, FailuresAreCounted, [Next]_vars PROVE FailuresAreCounted'
  OBVIOUS
<1> USE TriggerAssumption
    DEF FailuresAreCounted, definition, log, slots, feed, spawned, fault, sound
<1>1. failures \in Nat /\ faults \in Nat /\ disabled \in BOOLEAN
  BY DEF Inv, TypeOK
<1>2. CASE Check
  BY <1>1, <1>2 DEF Check
<1>3. CASE Asleep \/ TakeCancel \/ Requeue
  BY <1>1, <1>3 DEF Asleep, TakeCancel, Requeue
<1>4. CASE TakeOccurrence
  BY <1>1, <1>4 DEF TakeOccurrence
<1>5. CASE TakeSettlement
  <2>1. /\ at = "select" /\ disabled' = disabled
        /\ \/ firing[Head(mail)].failed /\ failures' = failures + 1
              /\ at' = "count" /\ sound
           \/ failures' = 0 /\ sound
           \/ failures' = failures /\ fault
    BY <1>5 DEF TakeSettlement
  <2> QED BY <1>1, <2>1
<1>6. CASE Count
  <2>1. /\ at = "count" /\ at' = "requeue" /\ failures' = failures
        /\ \/ (disabled' <=> disabled \/ failures >= max_consecutive_failures) /\ sound
           \/ disabled' = disabled /\ fault
    BY <1>1, <1>6 DEF Count
  <2> QED BY <1>1, <2>1
<1>7. CASE \E i \in Firing : FiringEnds(i) \/ FiringSettles(i)
  BY <1>1, <1>7 DEF FiringEnds, FiringSettles
<1>8. CASE Post \/ Tick \/ Rearm \/ Cancel
  BY <1>1, <1>8 DEF Post, Tick, Rearm, Cancel
<1>9. CASE Restart
  <2>1. /\ failures' = failures /\ disabled' = disabled /\ at' = "check"
        /\ \/ at = "stopped" /\ faults' = faults
           \/ faults' = faults + 1
    BY <1>9 DEF Restart
  <2> QED BY <1>1, <2>1
<1>10. CASE UNCHANGED vars
  BY <1>1, <1>10 DEF vars
<1> QED
  BY <1>2, <1>3, <1>4, <1>5, <1>6, <1>7, <1>8, <1>9, <1>10 DEF Next, Loop

--------------------------------------------------------------------------------
(* The theorems.                                                            *)

\* Every variable keeps its type, the settlement channel its capacity of two
\* (run_trigger).
THEOREM TypeCorrect == Spec => []TypeOK
<1> QED BY InvInit, InvNext, PTL DEF Spec, Inv

\* Unless occurrences replace each other, one firing at a time, and the loop holds
\* its token (handle_occurrence, record_settlement).
THEOREM FiringsDoNotOverlap == Spec => []OneFiring
<1> QED BY InvInit, InvNext, PTL DEF Spec, Inv

\* The loop waits only for a settlement that can come, and a queued occurrence has
\* one to wait for (TriggerLoop::tick).
THEOREM LoopIsNeverWedged == Spec => []NeverWedged
<1>1. Inv => NeverWedged
  BY DEF Inv, TokenIsLive, QueuedHasReason, SentIsInMail, NeverWedged
<1> QED BY <1>1, InvInit, InvNext, PTL DEF Spec

\* Between settlements a trigger that is not disabled has failed less often in a row
\* than its limit, but for as many failures as there were faults (record_settlement).
THEOREM FailuresDisable == Spec => []BrokenTriggerIsDisabled
<1>1. Init => FailuresAreCounted
  BY TriggerAssumption DEF Init, FailuresAreCounted
<1>2. Inv /\ FailuresAreCounted => BrokenTriggerIsDisabled
  BY TriggerAssumption DEF Inv, TypeOK, FailuresAreCounted, BrokenTriggerIsDisabled
<1> QED BY <1>1, <1>2, FailuresNext, InvInit, InvNext, PTL DEF Spec
================================================================================
