--------------------------- MODULE ClientView_proofs ---------------------------
(***************************************************************************)
(* What a desktop client shows, for any set of projects, any capacity of the  *)
(* broadcast and any number of runs, events and calls.  Each part rests on    *)
(* what is on its way to the client, out(c): the channel, and behind it the    *)
(* update its pump holds.                                                    *)
(*   no gap        the events on their way are consecutive as far as nothing   *)
(*                 lies between them, and the next follows the last one folded *)
(*   the bubble    what fills it is followed by something that empties it, or   *)
(*                 by an end that is still to be broadcast                      *)
(*   the screen    a snapshot older than what the pump has seen is followed by  *)
(*                 a newer one, or is the last such and the screen overtaken    *)
(***************************************************************************)

EXTENDS ClientView, SequenceTheorems, TLAPS

-------------------------------------------------------------------------------
(* Sequences.                                                                  *)

\* An append, by its elements.
LEMMA AppendedTo ==
  ASSUME NEW S, NEW s \in Seq(S), NEW e \in S
  PROVE  /\ Append(s, e) \in Seq(S) /\ Len(Append(s, e)) = Len(s) + 1 /\ Len(s) \in Nat
         /\ DOMAIN s = 1 .. Len(s) /\ DOMAIN Append(s, e) = 1 .. Len(s) + 1
         /\ \A i \in 1 .. Len(s) : Append(s, e)[i] = s[i]
         /\ Append(s, e)[Len(s) + 1] = e
  OBVIOUS

\* The rest of a sequence, by its elements.
LEMMA TailOf ==
  ASSUME NEW S, NEW s \in Seq(S), s # <<>>
  PROVE  /\ Tail(s) \in Seq(S) /\ Len(Tail(s)) = Len(s) - 1 /\ Len(s) \in Nat \ {0}
         /\ DOMAIN s = 1 .. Len(s) /\ DOMAIN Tail(s) = 1 .. Len(s) - 1
         /\ \A i \in 1 .. Len(s) - 1 : Tail(s)[i] = s[i + 1]
         /\ Head(s) = s[1] /\ Head(s) \in S
  OBVIOUS

\* An element that is put before another, or at the end.
LEMMA InsertedAt ==
  ASSUME NEW S, NEW s \in Seq(S), NEW e \in S, NEW i \in 1 .. Len(s) + 1
  PROVE  /\ InsertAt(s, i, e) \in Seq(S) /\ Len(InsertAt(s, i, e)) = Len(s) + 1
         /\ \A k \in 1 .. Len(s) + 1 :
              InsertAt(s, i, e)[k] = IF k < i THEN s[k] ELSE IF k = i THEN e ELSE s[k - 1]
  <1> DEFINE a == SubSeq(s, 1, i - 1)
             b == SubSeq(s, i, Len(s))
  <1>0. Len(s) \in Nat
      OBVIOUS
  <1>1. /\ a \in Seq(S) /\ Len(a) = i - 1 /\ \A k \in 1 .. i - 1 : a[k] = s[k]
      BY <1>0, SubSeqProperties, Z3
  <1>2. /\ b \in Seq(S) /\ Len(b) = Len(s) - i + 1
        /\ \A k \in 1 .. Len(s) - i + 1 : b[k] = s[i + k - 1]
      BY <1>0, SubSeqProperties, Z3
  <1> HIDE DEF a, b
  <1> DEFINE h == a \o <<e>>
  <1>3. /\ h \in Seq(S) /\ Len(h) = i
        /\ \A k \in 1 .. i : h[k] = IF k < i THEN s[k] ELSE e
      BY <1>0, <1>1
  <1> HIDE DEF h
  <1> DEFINE r == h \o b
  <1>4. /\ r \in Seq(S) /\ Len(r) = Len(h) + Len(b)
        /\ \A k \in 1 .. Len(h) + Len(b) :
             r[k] = IF k <= Len(h) THEN h[k] ELSE b[k - Len(h)]
      BY <1>2, <1>3, ConcatProperties
  <1> HIDE DEF r
  <1>5. ASSUME NEW k \in 1 .. Len(s) + 1
        PROVE  r[k] = IF k < i THEN s[k] ELSE IF k = i THEN e ELSE s[k - 1]
    <2>0. k \in 1 .. Len(h) + Len(b) /\ Len(h) = i /\ i \in Nat /\ k \in Nat
        BY <1>0, <1>2, <1>3
    <2>1. CASE k <= i
        BY <1>3, <1>4, <2>0, <2>1
    <2>2. CASE k > i
      <3>1. k - i \in 1 .. Len(s) - i + 1 /\ i + (k - i) - 1 = k - 1
          BY <1>0, <2>0, <2>2
      <3>2. b[k - i] = s[i + (k - i) - 1]
          BY <1>2, <3>1
      <3>3. r[k] = b[k - i]
          BY <1>4, <2>0, <2>2
      <3> QED BY <2>0, <2>2, <3>1, <3>2, <3>3
    <2> QED BY <2>0, <2>1, <2>2
  <1>6. InsertAt(s, i, e) = r
      BY DEF InsertAt, r, h, a, b
  <1>7. Len(r) = Len(s) + 1
      BY <1>0, <1>2, <1>3, <1>4
  <1> QED BY <1>4, <1>5, <1>6, <1>7

-------------------------------------------------------------------------------
(* Types.  A runtime that has something to publish may still publish it, and a  *)
(* run is known by its first event.                                             *)

\* Where a pump is, and what it is about to send.
PumpTyped ==
  pump \in [Context -> [at : {"select", "send", "last", "done"}, hand : Update]]

\* A call is at a step of its own, and once the list has come the screen has moved.
CallTyped ==
  /\ call.op = "none" => call.step = ""
  /\ call.op = "request" => call.step \in {"read", "send"}
  /\ call.op = "select" => call.step \in {"read", "send", "list", "get", "got"}
  /\ call.op = "reconnect" => call.step \in {"list", "get", "got"}
  /\ call.op = "none" \/ call.to = selected
  /\ call.op # "select" \/ call.step \in {"get", "got"} => chosen = selected

\* There is room for what a runtime has still to publish.
DueInv ==
  \A c \in Context :
    /\ truth[c] # published(c) => truth[c].version < MaxChanges[c]
    /\ state[c].active => state[c].run # 0

Typed == TypeOK /\ PumpTyped /\ CallTyped /\ DueInv

\* The bounds are numbers, and room below them is room for one more.
LEMMA Numbers ==
  /\ Events \subseteq Nat /\ Versions \subseteq Nat /\ 0 \in Events /\ 0 \in Versions
  /\ \A c \in Context : /\ MaxEvents[c] \in Nat /\ MaxChanges[c] \in Nat
                        /\ \A n \in Nat : n < MaxEvents[c] => n + 1 \in Events \ {0}
                        /\ \A n \in Nat : n < MaxChanges[c] => n + 1 \in Versions
  BY ClientAssumption DEF Events, Versions

\* What the updates of each kind carry.
LEMMA Updates ==
  /\ Closed \in Update
  /\ \A s \in Snapshot : /\ Taken(s) \in Update
                         /\ [kind |-> "resync", snapshot |-> s] \in Update
  /\ \A e \in Event : [kind |-> "event", event |-> e] \in Update
  /\ \A u \in Update : /\ u.kind \in {"snapshot", "resync", "event", "closed"}
                       /\ u.kind \in {"snapshot", "resync"} => u.snapshot \in Snapshot
                       /\ u.kind = "event" => u.event \in Event
  <1> HIDE DEF Event, Snapshot
  <1> QED BY DEF Update, Closed, Taken

\* A project as it is opened can be shown.
LEMMA OpenedTyped == \A c \in Context : Opened(c) \in Snapshot
  BY Numbers DEF Opened, Snapshot

\* The app as it starts.
LEMMA TypedInit == Init => Typed
  <1> SUFFICES ASSUME Init PROVE Typed
      OBVIOUS
  <1>1. First \in Context /\ MaxCalls \in Nat
      BY ClientAssumption
  <1>2. AtRest \in State /\ Idle \in Call
      BY <1>1, Numbers, OpenedTyped DEF AtRest, State, Idle, Call
  <1>3. \A c \in Context : Len(ring[c]) <= EVENT_CAPACITY
      BY ClientAssumption DEF Init
  <1>4. TypeOK
    <2>1. /\ state \in [Context -> State] /\ truth \in [Context -> Snapshot]
          /\ sent \in [Context -> Events] /\ ring \in [Context -> Seq(Event)]
          /\ {lagged, alive} \subseteq [Context -> BOOLEAN]
          /\ seen \in [Context -> Versions] /\ queue \in [Context -> Seq(Update)]
        BY <1>2, Numbers, OpenedTyped, EmptySeq DEF Init
    <2>2. \A c \in Context : pump[c].at = "select" /\ pump[c].hand \in Update
        BY Updates DEF Init
    <2>3. heard \in [context : Context, n : Events, fresh : BOOLEAN]
        BY <1>1, Numbers DEF Init
    <2>4. /\ selected \in Context /\ call \in Call /\ calls \in 0 .. MaxCalls
          /\ shown \in Snapshot /\ chosen \in Context
          /\ bubble \subseteq Delta /\ left \subseteq Delta
          /\ connected \in BOOLEAN /\ overtaken \in BOOLEAN
        BY <1>1, <1>2, OpenedTyped, 0 \in 0 .. MaxCalls DEF Init
    <2> QED BY <1>3, <2>1, <2>2, <2>3, <2>4 DEF TypeOK
  <1>5. PumpTyped
      BY Updates DEF Init, PumpTyped
  <1>6. CallTyped
      BY DEF Init, CallTyped, Idle
  <1>7. DueInv
    <2> SUFFICES ASSUME NEW c \in Context PROVE truth[c] = published(c) /\ ~state[c].active
        BY DEF DueInv
    <2> QED BY DEF Init, published, Opened, AtRest
  <1> QED BY <1>4, <1>5, <1>6, <1>7 DEF Typed

\* The event that a broadcast hands out.
Told(c, kind, r) == [kind |-> kind, run |-> r, n |-> sent[c] + 1]

\* A broadcast is numbered, and only its own ring takes it.
LEMMA BroadcastTyped ==
  ASSUME Typed, NEW c \in Context, NEW kind \in {"started", "delta", "finished"},
         NEW r \in Events \ {0}, broadcast(c, kind, r)
  PROVE  /\ sent' \in [Context -> Events] /\ ring' \in [Context -> Seq(Event)]
         /\ lagged' \in [Context -> BOOLEAN] /\ sent'[c] = sent[c] + 1
         /\ \A d \in Context : Len(ring'[d]) <= EVENT_CAPACITY
         /\ \A d \in Context : d # c =>
              sent'[d] = sent[d] /\ ring'[d] = ring[d] /\ lagged'[d] = lagged[d]
         /\ Told(c, kind, r) \in Event
         /\ Told(c, kind, r).kind = kind /\ Told(c, kind, r).n = sent[c] + 1
         /\ \/ ring'[c] = Append(ring[c], Told(c, kind, r)) /\ lagged'[c] = lagged[c]
            \/ ring'[c] = Tail(Append(ring[c], Told(c, kind, r))) /\ lagged'[c] = TRUE
  <1> DEFINE e == Told(c, kind, r)
             kept == Append(ring[c], e)
  <1>1. /\ sent \in [Context -> Events] /\ ring \in [Context -> Seq(Event)]
        /\ lagged \in [Context -> BOOLEAN] /\ EVENT_CAPACITY \in Nat \ {0}
        /\ \A d \in Context : Len(ring[d]) <= EVENT_CAPACITY
      BY ClientAssumption DEF Typed, TypeOK
  <1>2. /\ sent[c] < MaxEvents[c] /\ sent' = [sent EXCEPT ![c] = @ + 1]
        /\ IF Len(kept) > EVENT_CAPACITY
             THEN /\ ring' = [ring EXCEPT ![c] = Tail(kept)]
                  /\ lagged' = [lagged EXCEPT ![c] = TRUE]
           ELSE ring' = [ring EXCEPT ![c] = kept] /\ UNCHANGED lagged
      BY DEF broadcast, Told
  <1>3. sent[c] + 1 \in Events \ {0} /\ sent[c] \in Nat
      BY <1>1, <1>2, Numbers
  <1>4. e \in Event /\ e.kind = kind /\ e.n = sent[c] + 1
      BY <1>3 DEF Event, Told
  <1> HIDE DEF e
  <1>5. /\ kept \in Seq(Event) /\ Len(kept) = Len(ring[c]) + 1 /\ Len(ring[c]) \in Nat
        /\ kept # <<>>
    <2>1. ring[c] \in Seq(Event)
        BY <1>1
    <2> QED BY <1>4, <2>1, AppendedTo
  <1> HIDE DEF kept
  <1>6. Tail(kept) \in Seq(Event) /\ Len(Tail(kept)) = Len(ring[c])
      BY <1>5, TailOf
  <1>7. sent' \in [Context -> Events] /\ sent'[c] = sent[c] + 1
      BY <1>1, <1>2, <1>3
  <1>8. CASE Len(kept) > EVENT_CAPACITY
    <2>1. /\ ring' = [ring EXCEPT ![c] = Tail(kept)]
          /\ lagged' = [lagged EXCEPT ![c] = TRUE]
        BY <1>2, <1>8
    <2>2. ring'[c] = Tail(Append(ring[c], e)) /\ lagged'[c] = TRUE
        BY <1>1, <2>1 DEF kept
    <2>3. /\ ring' \in [Context -> Seq(Event)] /\ lagged' \in [Context -> BOOLEAN]
          /\ \A d \in Context : d # c => ring'[d] = ring[d] /\ lagged'[d] = lagged[d]
          /\ ring'[c] = Tail(kept)
        BY <1>1, <1>6, <2>1
    <2>4. \A d \in Context : Len(ring'[d]) <= EVENT_CAPACITY
      <3>1. Len(Tail(kept)) <= EVENT_CAPACITY
          BY <1>1, <1>6
      <3> QED BY <1>1, <2>3, <3>1
    <2> QED BY <1>2, <1>4, <1>7, <2>2, <2>3, <2>4 DEF e
  <1>9. CASE ~(Len(kept) > EVENT_CAPACITY)
    <2>1. ring' = [ring EXCEPT ![c] = kept] /\ lagged' = lagged
        BY <1>2, <1>9
    <2>2. ring'[c] = Append(ring[c], e)
        BY <1>1, <2>1 DEF kept
    <2>3. /\ ring' \in [Context -> Seq(Event)]
          /\ \A d \in Context : d # c => ring'[d] = ring[d]
          /\ ring'[c] = kept
        BY <1>1, <1>5, <2>1
    <2>4. \A d \in Context : Len(ring'[d]) <= EVENT_CAPACITY
      <3>1. Len(kept) <= EVENT_CAPACITY
          BY <1>1, <1>5, <1>9
      <3> QED BY <1>1, <2>3, <3>1
    <2> QED BY <1>1, <1>2, <1>4, <1>7, <2>1, <2>2, <2>3, <2>4 DEF e
  <1> QED BY <1>8, <1>9

-------------------------------------------------------------------------------
(* The steps, as far as the invariants tell them apart.                          *)

\* A run goes on, or has ended without an event.
Running(c) == state[c].active \/ state[c].halted

\* No event is broadcast, or one is, with the oldest dropped where the ring is full.
Quiet(c) == sent'[c] = sent[c] /\ ring'[c] = ring[c] /\ lagged'[c] = lagged[c]

Broadcasts(c, e) ==
  /\ e.n = sent[c] + 1 /\ sent'[c] = sent[c] + 1
  /\ \/ ring'[c] = Append(ring[c], e) /\ lagged'[c] = lagged[c]
     \/ ring'[c] = Tail(Append(ring[c], e)) /\ lagged'[c] = TRUE

\* A step of a runtime publishes, broadcasts, or changes what it will publish.
LEMMA RuntimeStep ==
  ASSUME Typed, NEW c \in Context, Runs(c) \/ Publish(c)
  PROVE  /\ Typed'
         /\ UNCHANGED <<seen, pump, queue, selected, asking, screen>>
         /\ \A d \in Context : d # c =>
              /\ state'[d] = state[d] /\ truth'[d] = truth[d] /\ sent'[d] = sent[d]
              /\ ring'[d] = ring[d] /\ lagged'[d] = lagged[d]
         /\ \/ truth'[c] = truth[c]
            \/ truth'[c].context = c /\ truth'[c].version = truth[c].version + 1
         /\ \/ Quiet(c) /\ (Running(c) => Running(c)')
            \/ \E e \in Event : Broadcasts(c, e) /\ (e.kind = "delta" => Running(c)')
  <1> USE DEF runtime, bridge, screen, asking, Quiet, Broadcasts
  <1>0. /\ TypeOK /\ PumpTyped /\ CallTyped /\ DueInv
        /\ state \in [Context -> State] /\ truth \in [Context -> Snapshot]
        /\ sent \in [Context -> Events] /\ alive \in [Context -> BOOLEAN]
        /\ lagged \in [Context -> BOOLEAN] /\ ring \in [Context -> Seq(Event)]
        /\ state[c] \in State /\ sent[c] \in Nat
      BY Numbers DEF Typed, TypeOK
  <1>d. /\ truth[c] # published(c) => truth[c].version < MaxChanges[c]
        /\ state[c].active => state[c].run # 0
    <2>1. DueInv
        BY DEF Typed
    <2>2. truth[c] # published(c) => truth[c].version < MaxChanges[c]
        BY <2>1 DEF DueInv
    <2>3. state[c].active => state[c].run # 0
        BY <2>1 DEF DueInv
    <2> QED BY <2>2, <2>3
  <1>1. ASSUME UNCHANGED <<seen, pump, queue, selected, asking, screen>>,
               state' \in [Context -> State], truth' \in [Context -> Snapshot],
               sent' \in [Context -> Events], ring' \in [Context -> Seq(Event)],
               lagged' \in [Context -> BOOLEAN], alive' \in [Context -> BOOLEAN],
               \A d \in Context : Len(ring'[d]) <= EVENT_CAPACITY,
               \A d \in Context : d # c => state'[d] = state[d] /\ truth'[d] = truth[d],
               truth'[c] # published(c)' => truth'[c].version < MaxChanges[c],
               state'[c].active => state'[c].run # 0
        PROVE  Typed'
    <2>1. TypeOK'
        BY <1>0, <1>1 DEF TypeOK
    <2>2. PumpTyped' /\ CallTyped'
        BY <1>0, <1>1 DEF PumpTyped, CallTyped
    <2>3. DueInv'
        BY <1>0, <1>1 DEF DueInv, published
    <2> QED BY <2>1, <2>2, <2>3 DEF Typed
  <1>2. ASSUME UNCHANGED <<sent, ring, lagged>>
        PROVE  /\ sent' \in [Context -> Events] /\ ring' \in [Context -> Seq(Event)]
               /\ lagged' \in [Context -> BOOLEAN]
               /\ \A d \in Context : Len(ring'[d]) <= EVENT_CAPACITY
      BY <1>0, <1>2 DEF TypeOK
  <1>3. CASE RunStarted(c)
    <2>1. /\ broadcast(c, "started", sent[c] + 1) /\ truth[c].version < MaxChanges[c]
          /\ state' = [state EXCEPT ![c].active = TRUE, ![c].run = sent[c] + 1]
          /\ UNCHANGED <<truth, alive, seen, pump, queue, selected, asking, screen>>
        BY <1>3 DEF RunStarted
    <2>2. sent[c] + 1 \in Events \ {0}
        BY <1>0, <2>1, Numbers DEF broadcast
    <2>3. /\ state' \in [Context -> State] /\ Running(c)'
          /\ state'[c].run # 0
        BY <1>0, <2>1, <2>2 DEF State, Running
    <2>4. \A d \in Context : d # c => state'[d] = state[d]
        BY <1>0, <2>1
    <2>5. PICK e \in Event : e = Told(c, "started", sent[c] + 1)
        BY <2>1, <2>2, BroadcastTyped
    <2>6. Typed'
        BY <1>0, <1>1, <2>1, <2>2, <2>3, <2>4, BroadcastTyped
    <2>7. /\ e.kind = "started" /\ e.n = sent[c] + 1 /\ sent'[c] = sent[c] + 1
          /\ \/ ring'[c] = Append(ring[c], e) /\ lagged'[c] = lagged[c]
             \/ ring'[c] = Tail(Append(ring[c], e)) /\ lagged'[c] = TRUE
        BY <2>1, <2>2, <2>5, BroadcastTyped DEF Told
    <2>8. \A d \in Context : d # c =>
            /\ state'[d] = state[d] /\ truth'[d] = truth[d] /\ sent'[d] = sent[d]
            /\ ring'[d] = ring[d] /\ lagged'[d] = lagged[d]
      <3>1. \A d \in Context : d # c =>
              sent'[d] = sent[d] /\ ring'[d] = ring[d] /\ lagged'[d] = lagged[d]
          BY <2>1, <2>2, BroadcastTyped DEF Told
      <3>2. truth' = truth
          BY <2>1
      <3> QED BY <2>4, <3>1, <3>2
    <2> QED BY <2>1, <2>3, <2>6, <2>7, <2>8
  <1>4. CASE TextDelta(c)
    <2>1. /\ state[c].active /\ broadcast(c, "delta", state[c].run)
          /\ truth[c] = published(c)
          /\ UNCHANGED <<state, truth, alive, seen, pump, queue, selected, asking, screen>>
        BY <1>4 DEF TextDelta, Acts
    <2>2. state[c].run \in Events \ {0}
        BY <1>0, <1>d, <2>1 DEF State
    <2>3. Running(c)' /\ published(c)' = published(c)
        BY <2>1 DEF Running, published
    <2>5. PICK e \in Event : e = Told(c, "delta", state[c].run)
        BY <2>1, <2>2, BroadcastTyped
    <2>6. Typed'
        BY <1>0, <1>1, <2>1, <2>2, <2>3, BroadcastTyped
    <2>7. /\ e.kind = "delta" /\ e.n = sent[c] + 1 /\ sent'[c] = sent[c] + 1
          /\ \/ ring'[c] = Append(ring[c], e) /\ lagged'[c] = lagged[c]
             \/ ring'[c] = Tail(Append(ring[c], e)) /\ lagged'[c] = TRUE
        BY <2>1, <2>2, <2>5, BroadcastTyped DEF Told
    <2>8. \A d \in Context : d # c =>
            /\ state'[d] = state[d] /\ truth'[d] = truth[d] /\ sent'[d] = sent[d]
            /\ ring'[d] = ring[d] /\ lagged'[d] = lagged[d]
      <3>1. \A d \in Context : d # c =>
              sent'[d] = sent[d] /\ ring'[d] = ring[d] /\ lagged'[d] = lagged[d]
          BY <2>1, <2>2, BroadcastTyped DEF Told
      <3>2. truth' = truth
          BY <2>1
      <3> QED BY <2>1, <2>3, <3>1, <3>2
    <2> QED BY <2>1, <2>3, <2>6, <2>7, <2>8
  <1>5. CASE MessageAppended(c) \/ Halt(c)
    <2>1. /\ truth[c].version < MaxChanges[c]
          /\ \/ state' = [state EXCEPT ![c].landed = sent[c]]
             \/ state' = [state EXCEPT ![c].active = FALSE, ![c].halted = TRUE]
          /\ UNCHANGED <<truth, sent, alive, bridge, queue, selected, asking, screen>>
        BY <1>5 DEF MessageAppended, Halt
    <2>2. \/ state'[c] = [state[c] EXCEPT !.landed = sent[c]]
          \/ state'[c] = [state[c] EXCEPT !.active = FALSE, !.halted = TRUE]
        BY <1>0, <2>1
    <2>3. /\ Running(c) => Running(c)'
          /\ state'[c].active => state'[c].run # 0
      <3> QED BY <1>0, <1>d, <2>2 DEF State, Running
    <2>4. state'[c] \in State
        BY <1>0, <2>2 DEF State
    <2>5. /\ state' \in [Context -> State]
          /\ \A d \in Context : d # c => state'[d] = state[d]
        BY <1>0, <2>1, <2>4
    <2> QED BY <1>0, <1>1, <1>2, <2>1, <2>3, <2>5
  <1>6. CASE RunFinished(c)
    <2>1. /\ broadcast(c, "finished", state[c].run) /\ truth[c].version < MaxChanges[c]
          /\ state[c].active
          /\ state' = [state EXCEPT ![c].active = FALSE]
          /\ UNCHANGED <<truth, alive, seen, pump, queue, selected, asking, screen>>
        BY <1>6 DEF RunFinished
    <2>2. state[c].run \in Events \ {0}
        BY <1>0, <1>d, <2>1 DEF State
    <2>3. /\ state' \in [Context -> State] /\ ~state'[c].active
          /\ \A d \in Context : d # c => state'[d] = state[d]
        BY <1>0, <2>1 DEF State
    <2>5. PICK e \in Event : e = Told(c, "finished", state[c].run)
        BY <2>1, <2>2, BroadcastTyped
    <2>6. Typed'
        BY <1>0, <1>1, <2>1, <2>2, <2>3, BroadcastTyped
    <2>7. /\ e.kind = "finished" /\ e.n = sent[c] + 1 /\ sent'[c] = sent[c] + 1
          /\ \/ ring'[c] = Append(ring[c], e) /\ lagged'[c] = lagged[c]
             \/ ring'[c] = Tail(Append(ring[c], e)) /\ lagged'[c] = TRUE
        BY <2>1, <2>2, <2>5, BroadcastTyped DEF Told
    <2>8. \A d \in Context : d # c =>
            /\ state'[d] = state[d] /\ truth'[d] = truth[d] /\ sent'[d] = sent[d]
            /\ ring'[d] = ring[d] /\ lagged'[d] = lagged[d]
      <3>1. \A d \in Context : d # c =>
              sent'[d] = sent[d] /\ ring'[d] = ring[d] /\ lagged'[d] = lagged[d]
          BY <2>1, <2>2, BroadcastTyped DEF Told
      <3>2. truth' = truth
          BY <2>1
      <3> QED BY <2>1, <2>3, <3>1, <3>2
    <2> QED BY <2>1, <2>3, <2>6, <2>7, <2>8
  <1>7. CASE Publish(c)
    <2>1. /\ truth' = [truth EXCEPT ![c] = [published(c) EXCEPT !.version = @ + 1]]
          /\ truth[c] # published(c)
          /\ UNCHANGED <<state, sent, alive, bridge, queue, selected, asking, screen>>
        BY <1>7 DEF Publish
    <2>2. truth[c].version < MaxChanges[c] /\ truth[c].version \in Nat
      <3>1. truth[c] \in Snapshot
          BY <1>0
      <3>2. truth[c].version \in Versions
          BY <3>1 DEF Snapshot
      <3> QED BY <1>d, <2>1, <3>2, Numbers
    <2>3. truth'[c] = [context |-> c, version |-> truth[c].version + 1,
                       active |-> state[c].active, landed |-> state[c].landed]
        BY <1>0, <2>1 DEF published
    <2>4. truth'[c] \in Snapshot
        BY <1>0, <2>2, <2>3, Numbers DEF Snapshot, State
    <2>5. truth' \in [Context -> Snapshot] /\ \A d \in Context : d # c => truth'[d] = truth[d]
        BY <1>0, <2>1, <2>4
    <2>6. truth'[c] = published(c)'
        BY <2>1, <2>3 DEF published
    <2>8. Typed'
        BY <1>0, <1>1, <1>2, <2>1, <2>5, <2>6, <1>d
    <2> QED BY <2>1, <2>3, <2>5, <2>8 DEF Running
  <1>8. CASE Crash(c)
    <2>1. /\ alive' = [alive EXCEPT ![c] = FALSE]
          /\ UNCHANGED <<state, truth, sent, bridge, queue, selected, asking, screen>>
        BY <1>8 DEF Crash
    <2>2. alive' \in [Context -> BOOLEAN]
        BY <1>0, <2>1
    <2>3. published(c)' = published(c)
        BY <2>1 DEF published
    <2>5. Typed'
        BY <1>0, <1>d, <1>1, <1>2, <2>1, <2>2, <2>3
    <2> QED BY <2>1, <2>5 DEF Running
  <1> QED BY <1>3, <1>4, <1>5, <1>6, <1>7, <1>8 DEF Runs

\* What is on its way to the frontend: the channels, and the update the pump is sending.
out(c) ==
  IF pump[c].at \in {"send", "last"} THEN Append(queue[c], pump[c].hand) ELSE queue[c]

\* What is on its way are updates.
LEMMA OutTyped ==
  ASSUME Typed, NEW c \in Context
  PROVE  /\ out(c) \in Seq(Update) /\ queue[c] \in Seq(Update) /\ pump[c].hand \in Update
         /\ pump[c] \in [at : {"select", "send", "last", "done"}, hand : Update]
  <1>1. /\ queue \in [Context -> Seq(Update)]
        /\ pump \in [Context -> [at : {"select", "send", "last", "done"}, hand : Update]]
      BY DEF Typed, TypeOK, PumpTyped
  <1>2. queue[c] \in Seq(Update) /\ pump[c].hand \in Update
      BY <1>1
  <1>3. Append(queue[c], pump[c].hand) \in Seq(Update)
      BY <1>2, AppendedTo
  <1> QED BY <1>1, <1>2, <1>3 DEF out

\* What a pump puts out.
Resync(s) == [kind |-> "resync", snapshot |-> s]
Heard(e) == [kind |-> "event", event |-> e]

\* A pump that has seen its runtime end.
Over(c) == pump[c].at \in {"last", "done"}

\* A pump puts an update behind the others, or takes the next event to do so.
PutsOut(c, u) == out(c)' = Append(out(c), u)
TakesEvent(c) ==
  /\ ring[c] # <<>> /\ ring'[c] = Tail(ring[c]) /\ PutsOut(c, Heard(Head(ring[c])))

\* A step of a pump puts an update behind the others, or forwards what it has.
LEMMA PumpStep ==
  ASSUME Typed, NEW c \in Context, Pump(c)
  PROVE  /\ Typed'
         /\ UNCHANGED <<state, truth, sent, selected, asking, screen>>
         /\ \A d \in Context : d # c =>
              /\ out(d)' = out(d) /\ ring'[d] = ring[d] /\ lagged'[d] = lagged[d]
              /\ seen'[d] = seen[d] /\ Over(d)' = Over(d)
         /\ ring[c] \in Seq(Event)
         /\ \/ /\ out(c)' = out(c) /\ ring'[c] = ring[c] /\ lagged'[c] = lagged[c]
               /\ seen'[c] = seen[c] /\ Over(c)' = Over(c)
            \/ /\ PutsOut(c, Taken(truth[c]))
               /\ ring'[c] = ring[c] /\ lagged'[c] = lagged[c]
               /\ seen'[c] = truth[c].version /\ ~Over(c) /\ ~Over(c)'
            \/ /\ TakesEvent(c) /\ ~lagged[c] /\ ~lagged'[c]
               /\ seen'[c] = seen[c] /\ ~Over(c) /\ ~Over(c)'
            \/ /\ PutsOut(c, Resync(truth[c]))
               /\ ~lagged'[c] /\ ring'[c] = ring[c] /\ seen'[c] = seen[c]
               /\ ~Over(c) /\ ~Over(c)'
            \/ /\ PutsOut(c, Closed) /\ Over(c)'
               /\ ring'[c] = ring[c] /\ lagged'[c] = lagged[c] /\ seen'[c] = seen[c]
  <1> USE DEF runtime, bridge, screen, asking, PutsOut, TakesEvent
  <1>0. /\ TypeOK /\ PumpTyped /\ CallTyped /\ DueInv
        /\ queue \in [Context -> Seq(Update)] /\ lagged \in [Context -> BOOLEAN]
        /\ pump \in [Context -> [at : {"select", "send", "last", "done"}, hand : Update]]
        /\ seen \in [Context -> Versions] /\ ring \in [Context -> Seq(Event)]
        /\ truth \in [Context -> Snapshot] /\ truth[c] \in Snapshot
        /\ ring[c] \in Seq(Event) /\ truth[c].version \in Versions
    <2>1. truth[c] \in Snapshot
        BY DEF Typed, TypeOK
    <2>2. truth[c].version \in Versions
        BY <2>1 DEF Snapshot
    <2> QED BY <2>1, <2>2 DEF Typed, TypeOK, PumpTyped
  <1>1. ASSUME UNCHANGED <<state, truth, sent, alive, selected, asking, screen>>,
               queue' \in [Context -> Seq(Update)], lagged' \in [Context -> BOOLEAN],
               pump' \in [Context -> [at : {"select", "send", "last", "done"}, hand : Update]],
               seen' \in [Context -> Versions], ring' \in [Context -> Seq(Event)],
               \A d \in Context : Len(ring'[d]) <= EVENT_CAPACITY
        PROVE  Typed'
    <2>1. \A d \in Context : /\ pump'[d].at \in {"select", "send", "last", "done"}
                             /\ pump'[d].hand \in Update
        BY <1>1
    <2>2. TypeOK'
        BY <1>0, <1>1, <2>1 DEF TypeOK
    <2>3. PumpTyped' /\ CallTyped' /\ DueInv'
        BY <1>0, <1>1 DEF PumpTyped, CallTyped, DueInv, published
    <2> QED BY <2>2, <2>3 DEF Typed
  <1>2. \A d \in Context : Len(ring[d]) <= EVENT_CAPACITY
      BY <1>0 DEF TypeOK
  <1>3. ASSUME pump[c].at = "select", NEW u \in Update, NEW at \in {"send", "last"},
               pump' = [pump EXCEPT ![c] = [at |-> at, hand |-> u]], queue' = queue
        PROVE  /\ pump' \in [Context -> [at : {"select", "send", "last", "done"}, hand : Update]]
               /\ out(c)' = Append(out(c), u) /\ ~Over(c) /\ Over(c)' = (at = "last")
               /\ \A d \in Context : d # c => out(d)' = out(d) /\ Over(d)' = Over(d)
    <2>1. /\ pump'[c] = [at |-> at, hand |-> u]
          /\ \A d \in Context : d # c => pump'[d] = pump[d]
        BY <1>0, <1>3
    <2>2. pump' \in [Context -> [at : {"select", "send", "last", "done"}, hand : Update]]
        BY <1>0, <1>3
    <2>3. out(c)' = Append(out(c), u)
        BY <1>3, <2>1 DEF out
    <2>4. \A d \in Context : d # c => out(d)' = out(d) /\ Over(d)' = Over(d)
        BY <1>3, <2>1 DEF out, Over
    <2>5. ~Over(c) /\ Over(c)' = (at = "last")
        BY <1>3, <2>1 DEF Over
    <2> QED BY <2>2, <2>3, <2>4, <2>5
  <1>4. CASE PumpChanged(c)
    <2>1. /\ pump[c].at = "select" /\ seen' = [seen EXCEPT ![c] = truth[c].version]
          /\ pump' = [pump EXCEPT ![c] = [at |-> "send", hand |-> Taken(truth[c])]]
          /\ UNCHANGED <<runtime, ring, lagged, queue, selected, asking, screen>>
        BY <1>4 DEF PumpChanged, sends
    <2>2. seen' \in [Context -> Versions] /\ seen'[c] = truth[c].version
          /\ \A d \in Context : d # c => seen'[d] = seen[d]
        BY <1>0, <2>1
    <2>3. Taken(truth[c]) \in Update
        BY <1>0, Updates
    <2>4. /\ pump' \in [Context -> [at : {"select", "send", "last", "done"}, hand : Update]]
          /\ out(c)' = Append(out(c), Taken(truth[c])) /\ ~Over(c) /\ ~Over(c)'
          /\ \A d \in Context : d # c => out(d)' = out(d) /\ Over(d)' = Over(d)
        BY <1>3, <2>1, <2>3
    <2>5. Typed'
        BY <1>0, <1>1, <1>2, <2>1, <2>2, <2>4
    <2> QED BY <1>0, <2>1, <2>2, <2>4, <2>5
  <1>5. CASE PumpEvent(c)
    <2>1. /\ pump[c].at = "select" /\ ~lagged[c] /\ ring[c] # <<>>
          /\ pump' = [pump EXCEPT ![c] = [at |-> "send", hand |-> Heard(Head(ring[c]))]]
          /\ ring' = [ring EXCEPT ![c] = Tail(@)]
          /\ UNCHANGED <<runtime, lagged, seen, queue, selected, asking, screen>>
        BY <1>5 DEF PumpEvent, sends, Heard
    <2>2. /\ Tail(ring[c]) \in Seq(Event) /\ Head(ring[c]) \in Event
          /\ Len(Tail(ring[c])) = Len(ring[c]) - 1 /\ Len(ring[c]) \in Nat
        BY <1>0, <2>1, TailOf
    <2>3. /\ ring' \in [Context -> Seq(Event)] /\ ring'[c] = Tail(ring[c])
          /\ \A d \in Context : d # c => ring'[d] = ring[d]
        BY <1>0, <2>1, <2>2
    <2>4. Heard(Head(ring[c])) \in Update
        BY <2>2, Updates DEF Heard
    <2>5. /\ pump' \in [Context -> [at : {"select", "send", "last", "done"}, hand : Update]]
          /\ out(c)' = Append(out(c), Heard(Head(ring[c]))) /\ ~Over(c) /\ ~Over(c)'
          /\ \A d \in Context : d # c => out(d)' = out(d) /\ Over(d)' = Over(d)
        BY <1>3, <2>1, <2>4
    <2>6. \A d \in Context : Len(ring'[d]) <= EVENT_CAPACITY
      <3>1. EVENT_CAPACITY \in Nat /\ Len(ring[c]) <= EVENT_CAPACITY
          BY <1>2, ClientAssumption
      <3>2. Len(ring'[c]) <= EVENT_CAPACITY
          BY <2>2, <2>3, <3>1
      <3> QED BY <1>2, <2>3, <3>2
    <2>7. Typed'
        BY <1>0, <1>1, <2>1, <2>3, <2>5, <2>6
    <2> QED BY <1>0, <2>1, <2>3, <2>5, <2>7
  <1>6. CASE PumpLagged(c)
    <2>1. /\ pump[c].at = "select" /\ lagged' = [lagged EXCEPT ![c] = FALSE]
          /\ pump' = [pump EXCEPT ![c] = [at |-> "send", hand |-> Resync(truth[c])]]
          /\ UNCHANGED <<runtime, ring, seen, queue, selected, asking, screen>>
        BY <1>6 DEF PumpLagged, sends, Resync
    <2>2. /\ lagged' \in [Context -> BOOLEAN] /\ ~lagged'[c]
          /\ \A d \in Context : d # c => lagged'[d] = lagged[d]
        BY <1>0, <2>1
    <2>3. Resync(truth[c]) \in Update
        BY <1>0, Updates DEF Resync
    <2>4. /\ pump' \in [Context -> [at : {"select", "send", "last", "done"}, hand : Update]]
          /\ out(c)' = Append(out(c), Resync(truth[c])) /\ ~Over(c) /\ ~Over(c)'
          /\ \A d \in Context : d # c => out(d)' = out(d) /\ Over(d)' = Over(d)
        BY <1>3, <2>1, <2>3
    <2>5. Typed'
        BY <1>0, <1>1, <1>2, <2>1, <2>2, <2>4
    <2> QED BY <1>0, <2>1, <2>2, <2>4, <2>5
  <1>7. CASE PumpClosed(c)
    <2>1. /\ pump[c].at = "select"
          /\ pump' = [pump EXCEPT ![c] = [at |-> "last", hand |-> Closed]]
          /\ UNCHANGED <<runtime, ring, lagged, seen, queue, selected, asking, screen>>
        BY <1>7 DEF PumpClosed
    <2>2. /\ pump' \in [Context -> [at : {"select", "send", "last", "done"}, hand : Update]]
          /\ out(c)' = Append(out(c), Closed) /\ Over(c)'
          /\ \A d \in Context : d # c => out(d)' = out(d) /\ Over(d)' = Over(d)
        BY <1>3, <2>1, Updates
    <2>3. Typed'
        BY <1>0, <1>1, <1>2, <2>1, <2>2
    <2> QED BY <1>0, <2>1, <2>2, <2>3
  <1>8. CASE PumpSends(c)
    <2> DEFINE at == IF pump[c].at = "send" THEN "select" ELSE "done"
    <2>1. /\ pump[c].at \in {"send", "last"}
          /\ queue' = [queue EXCEPT ![c] = Append(@, pump[c].hand)]
          /\ pump' = [pump EXCEPT ![c] = [hand |-> Closed, at |-> at]]
          /\ UNCHANGED <<runtime, ring, lagged, seen, selected, asking, screen>>
        BY <1>8 DEF PumpSends
    <2>2. at \in {"select", "done"}
        OBVIOUS
    <2> HIDE DEF at
    <2>3. /\ pump' \in [Context -> [at : {"select", "send", "last", "done"}, hand : Update]]
          /\ pump'[c].at = at /\ \A d \in Context : d # c => pump'[d] = pump[d]
        BY <1>0, <2>1, <2>2, Updates
    <2>4. Append(queue[c], pump[c].hand) \in Seq(Update)
        BY OutTyped, AppendedTo
    <2>5. /\ queue' \in [Context -> Seq(Update)]
          /\ queue'[c] = Append(queue[c], pump[c].hand)
          /\ \A d \in Context : d # c => queue'[d] = queue[d]
        BY <1>0, <2>1, <2>4
    <2>6. out(c)' = out(c) /\ Over(c)' = Over(c)
      <3>1. out(c)' = out(c)
          BY <2>1, <2>2, <2>3, <2>5 DEF out
      <3>2. Over(c)' = Over(c)
          BY <2>1, <2>3 DEF Over, at
      <3> QED BY <3>1, <3>2
    <2>7. \A d \in Context : d # c => out(d)' = out(d) /\ Over(d)' = Over(d)
        BY <2>3, <2>5 DEF out, Over
    <2>8. Typed'
        BY <1>0, <1>1, <1>2, <2>1, <2>3, <2>5
    <2> QED BY <1>0, <2>1, <2>6, <2>7, <2>8
  <1> QED BY <1>4, <1>5, <1>6, <1>7, <1>8 DEF Pump

\* Steps of the frontend change nothing of a runtime or a pump.
LEMMA Screens ==
  ASSUME Typed, UNCHANGED <<runtime, bridge>>,
         queue' \in [Context -> Seq(Update)], selected' \in Context,
         call' \in Call, calls' \in 0 .. MaxCalls, shown' \in Snapshot, chosen' \in Context,
         bubble' \subseteq Delta, left' \subseteq Delta, connected' \in BOOLEAN,
         heard' \in [context : Context, n : Events, fresh : BOOLEAN],
         overtaken' \in BOOLEAN, CallTyped'
  PROVE  Typed'
  <1> USE DEF runtime, bridge
  <1>1. TypeOK'
      BY DEF Typed, TypeOK
  <1>2. PumpTyped' /\ DueInv'
      BY DEF Typed, PumpTyped, DueInv, published
  <1> QED BY <1>1, <1>2 DEF Typed

\* The types of what the frontend keeps.
LEMMA ScreenTypes ==
  ASSUME Typed
  PROVE  /\ queue \in [Context -> Seq(Update)] /\ selected \in Context
         /\ call \in Call /\ calls \in 0 .. MaxCalls /\ shown \in Snapshot /\ chosen \in Context
         /\ bubble \subseteq Delta /\ left \subseteq Delta /\ connected \in BOOLEAN
         /\ heard \in [context : Context, n : Events, fresh : BOOLEAN]
         /\ overtaken \in BOOLEAN /\ CallTyped
         /\ call.to \in Context /\ call.snapshot \in Snapshot
         /\ call.op \in {"none", "request", "select", "reconnect"}
         /\ call.step \in {"", "read", "send", "list", "get", "got"}
         /\ \A c \in Context : truth[c] \in Snapshot
  <1>1. call \in Call
      BY DEF Typed, TypeOK
  <1>2. /\ call.to \in Context /\ call.snapshot \in Snapshot
        /\ call.op \in {"none", "request", "select", "reconnect"}
        /\ call.step \in {"", "read", "send", "list", "get", "got"}
      BY <1>1 DEF Call
  <1> QED BY <1>2 DEF Typed, TypeOK

\* A call begins.
LEMMA AskStep ==
  ASSUME Typed, \/ RequestSnapshot \/ Reconnect
                \/ \E c \in Context : SelectProject(c)
  PROVE  /\ Typed' /\ UNCHANGED <<runtime, bridge, queue, screen>>
         /\ call.op = "none" /\ call'.op # "none" /\ call'.step \in {"read", "list"}
  <1>0. First \in Context
      BY ClientAssumption
  <1>1. PICK op \in {"request", "select", "reconnect"}, step \in {"read", "list"},
             to \in Context :
          /\ Asks(op, step, to) /\ selected' = to /\ UNCHANGED <<runtime, bridge, queue, screen>>
          /\ op = "select" \/ to = selected
          /\ step = (IF op = "reconnect" THEN "list" ELSE "read")
    <2>1. CASE RequestSnapshot
        BY <2>1, ScreenTypes DEF RequestSnapshot, Answered
    <2>2. CASE Reconnect
        BY <2>2, ScreenTypes DEF Reconnect, Answered
    <2>3. CASE \E c \in Context : SelectProject(c)
        BY <2>3 DEF SelectProject, Answered
    <2> QED BY <2>1, <2>2, <2>3
  <1>2. /\ call.op = "none" /\ calls < MaxCalls /\ calls' = calls + 1
        /\ call' = [op |-> op, step |-> step, to |-> to, snapshot |-> Opened(First)]
      BY <1>1 DEF Asks
  <1>3. call' \in Call
      BY <1>0, <1>2, OpenedTyped DEF Call
  <1>4. calls' \in 0 .. MaxCalls
    <2>1. MaxCalls \in Nat /\ calls \in 0 .. MaxCalls
        BY ScreenTypes, ClientAssumption
    <2> QED BY <1>2, <2>1
  <1>5. CallTyped'
      BY <1>1, <1>2, ScreenTypes DEF CallTyped, screen
  <1>6. Typed'
      BY <1>1, <1>3, <1>4, <1>5, Screens, ScreenTypes DEF screen
  <1> QED BY <1>1, <1>2, <1>6

\* An answer to a request is the snapshot of that moment.
LEMMA EmitReadsStep ==
  ASSUME Typed, EmitReads
  PROVE  /\ Typed' /\ UNCHANGED <<runtime, bridge, queue, selected, screen>>
         /\ call.step = "read" /\ call' = [call EXCEPT !.step = "send", !.snapshot = truth[call.to]]
  <1>1. /\ call.step = "read"
        /\ call' = [call EXCEPT !.step = "send", !.snapshot = truth[call.to]]
        /\ UNCHANGED <<runtime, bridge, queue, selected, screen>> /\ calls' = calls
      BY DEF EmitReads, Answered
  <1>2. call' \in Call /\ CallTyped'
      BY <1>1, ScreenTypes DEF Call, CallTyped, screen
  <1>3. Typed'
      BY <1>1, <1>2, Screens, ScreenTypes DEF screen
  <1> QED BY <1>1, <1>3

\* A direct answer too, or the one a taken lock falls back on.
LEMMA GetSnapshotStep ==
  ASSUME Typed, GetSnapshot
  PROVE  /\ Typed' /\ UNCHANGED <<runtime, bridge, queue, selected, screen>>
         /\ call.step = "get"
         /\ \E s \in Snapshot :
              /\ call' = [call EXCEPT !.step = "got", !.snapshot = s]
              /\ s = truth[selected] \/ (Busy /\ s = Opened(First))
  <1>0. First \in Context /\ Opened(First) \in Snapshot
      BY ClientAssumption, OpenedTyped
  <1>1. /\ call.step = "get" /\ UNCHANGED <<runtime, bridge, queue, selected, screen>>
        /\ calls' = calls
      BY DEF GetSnapshot, Answered
  <1>2. PICK s \in get_snapshot : call' = [call EXCEPT !.step = "got", !.snapshot = s]
      BY DEF GetSnapshot
  <1>3. s \in Snapshot /\ (s = truth[selected] \/ (Busy /\ s = Opened(First)))
    <2>1. truth[selected] \in Snapshot
        BY ScreenTypes
    <2>2. s = truth[selected] \/ (Busy /\ s = Opened(First))
        BY <1>2 DEF get_snapshot
    <2> QED BY <1>0, <2>1, <2>2
  <1>4. call' \in Call /\ CallTyped'
      BY <1>1, <1>2, <1>3, ScreenTypes DEF Call, CallTyped, screen
  <1>5. Typed'
      BY <1>1, <1>4, Screens, ScreenTypes DEF screen
  <1> QED BY <1>1, <1>2, <1>3, <1>5

\* The list of projects moves the screen, and leaves what is in the bubble.
LEMMA ListStep ==
  ASSUME Typed, ListArrives
  PROVE  /\ Typed' /\ UNCHANGED <<runtime, bridge, queue, selected>>
         /\ call.step = "list" /\ call' = [call EXCEPT !.step = "get"]
         /\ chosen' = selected /\ UNCHANGED <<shown, bubble, heard, overtaken>>
         /\ left' = IF chosen = selected THEN left ELSE left \union bubble
  <1>1. /\ call.step = "list" /\ call' = [call EXCEPT !.step = "get"]
        /\ UNCHANGED <<runtime, bridge, queue, selected>> /\ calls' = calls
        /\ chosen' = selected /\ UNCHANGED <<shown, bubble, connected, heard, overtaken>>
        /\ left' = IF chosen = selected THEN left ELSE left \union bubble
      BY DEF ListArrives, Answered
  <1>2. call' \in Call /\ CallTyped'
      BY <1>1, ScreenTypes DEF Call, CallTyped
  <1>3. left' \subseteq Delta
      BY <1>1, ScreenTypes
  <1>4. Typed'
      BY <1>1, <1>2, <1>3, Screens, ScreenTypes
  <1> QED BY <1>1, <1>4

\* Whatever is shown is fresh, and an older reading is noted.
LEMMA ShowsTyped ==
  ASSUME Typed, NEW s \in Snapshot, Shows(s)
  PROVE  /\ shown' = s /\ overtaken' \in BOOLEAN
         /\ heard' \in [context : Context, n : Events, fresh : BOOLEAN] /\ heard'.fresh
         /\ s.context = shown.context /\ s.version < shown.version => overtaken'
  <1>1. shown' = s /\ heard' = [heard EXCEPT !.fresh = TRUE]
      BY DEF Shows
  <1>2. /\ heard' \in [context : Context, n : Events, fresh : BOOLEAN] /\ heard'.fresh
      BY <1>1, ScreenTypes
  <1>3. s.context = shown.context /\ s.version < shown.version => overtaken'
      BY DEF Shows
  <1>4. overtaken' \in BOOLEAN
    <2>1. overtaken \in BOOLEAN
        BY ScreenTypes
    <2>2. CASE s.context = shown.context
        BY <2>1, <2>2 DEF Shows
    <2>3. CASE s.context # shown.context
        BY <2>3 DEF Shows
    <2> QED BY <2>2, <2>3
  <1> QED BY <1>1, <1>2, <1>3, <1>4

\* A direct answer is shown.
LEMMA AnswerStep ==
  ASSUME Typed, SnapshotArrives
  PROVE  /\ Typed' /\ UNCHANGED <<runtime, bridge, queue, selected, chosen, bubble, left>>
         /\ call.step = "got" /\ call' = Idle /\ Shows(call.snapshot)
  <1>1. /\ call.step = "got" /\ call' = Idle /\ Shows(call.snapshot) /\ calls' = calls
        /\ connected' = (connected \/ call.op = "reconnect")
        /\ UNCHANGED <<runtime, bridge, queue, selected, chosen, bubble, left>>
      BY DEF SnapshotArrives, Answered
  <1>2. First \in Context
      BY ClientAssumption
  <1>3. call' \in Call
      BY <1>1, <1>2, OpenedTyped DEF Idle, Call
  <1>4. CallTyped'
      BY <1>1, ScreenTypes DEF CallTyped, Idle
  <1>5. connected' \in BOOLEAN
      BY <1>1, ScreenTypes
  <1>6. Typed'
      BY <1>1, <1>3, <1>4, <1>5, Screens, ScreenTypes, ShowsTyped
  <1> QED BY <1>1, <1>6

\* One more element, the others in their order.
Inserted(s, r, i, e) ==
  /\ Len(r) = Len(s) + 1
  /\ \A k \in 1 .. Len(s) + 1 :
       r[k] = IF k < i THEN s[k] ELSE IF k = i THEN e ELSE s[k - 1]

\* What is put before the end stays where it is behind a longer sequence.
LEMMA InsertedBefore ==
  ASSUME NEW S, NEW s \in Seq(S), NEW r \in Seq(S), NEW e \in S, NEW i \in 1 .. Len(s) + 1,
         Inserted(s, r, i, e), NEW h \in S
  PROVE  Inserted(Append(s, h), Append(r, h), i, e) /\ i \in 1 .. Len(Append(s, h)) + 1
  <1>1. /\ Len(Append(s, h)) = Len(s) + 1 /\ Len(Append(r, h)) = Len(r) + 1 /\ Len(s) \in Nat
        /\ \A k \in 1 .. Len(s) : Append(s, h)[k] = s[k]
        /\ \A k \in 1 .. Len(r) : Append(r, h)[k] = r[k]
        /\ Append(s, h)[Len(s) + 1] = h /\ Append(r, h)[Len(r) + 1] = h
      BY AppendedTo
  <1> DEFINE t == Append(s, h)
             q == Append(r, h)
  <1> HIDE DEF t, q
  <1>2. ASSUME NEW k \in 1 .. Len(t) + 1
        PROVE  q[k] = IF k < i THEN t[k] ELSE IF k = i THEN e ELSE t[k - 1]
    <2>1. /\ Len(r) = Len(s) + 1 /\ Len(t) = Len(s) + 1 /\ Len(q) = Len(s) + 2
          /\ k \in 1 .. Len(s) + 2 /\ i \in 1 .. Len(s) + 1 /\ Len(s) \in Nat
        BY <1>1 DEF Inserted, t, q
    <2>2. CASE k = Len(s) + 2
        BY <1>1, <2>1, <2>2 DEF t, q
    <2>3. CASE k # Len(s) + 2
      <3>1. q[k] = r[k] /\ k \in 1 .. Len(s) + 1
          BY <1>1, <2>1, <2>3 DEF q
      <3>2. r[k] = IF k < i THEN s[k] ELSE IF k = i THEN e ELSE s[k - 1]
          BY <3>1 DEF Inserted
      <3>3. CASE k < i
          BY <1>1, <2>1, <3>1, <3>2, <3>3 DEF t
      <3>4. CASE k = i
          BY <2>1, <3>1, <3>2, <3>4
      <3>5. CASE k > i
        <4>1. k - 1 \in 1 .. Len(s)
            BY <2>1, <3>1, <3>5
        <4> QED BY <1>1, <2>1, <3>1, <3>2, <3>5, <4>1 DEF t
      <3> QED BY <2>1, <3>3, <3>4, <3>5
    <2> QED BY <2>2, <2>3
  <1>3. Len(q) = Len(t) + 1 /\ i \in 1 .. Len(t) + 1
      BY <1>1 DEF Inserted, t, q
  <1>4. Inserted(t, q, i, e)
      BY <1>2, <1>3 DEF Inserted
  <1> QED BY <1>3, <1>4 DEF t, q

\* An answer goes into the channel ahead of what its pump still holds.
LEMMA EmitSendsStep ==
  ASSUME Typed, EmitSends, NEW t \in Context, t = call.to
  PROVE  /\ Typed' /\ UNCHANGED <<runtime, bridge, selected, screen>>
         /\ call.step = "send"
         /\ \/ call.op = "request" /\ call' = Idle
            \/ call.op = "select" /\ call' = [call EXCEPT !.step = "list"]
         /\ \A d \in Context : d # t => out(d)' = out(d)
         /\ Taken(call.snapshot) \in Update /\ out(t)' \in Seq(Update)
         /\ \E i \in 1 .. Len(out(t)) + 1 :
              Inserted(out(t), out(t)', i, Taken(call.snapshot))
  <1>n. PICK u \in Update : u = Taken(call.snapshot)
      BY ScreenTypes, Updates
  <1>0. /\ t \in Context /\ u \in Update /\ queue \in [Context -> Seq(Update)]
        /\ queue[t] \in Seq(Update) /\ Len(queue[t]) \in Nat
        /\ pump[t].hand \in Update
    <2>1. queue[t] \in Seq(Update) /\ pump[t].hand \in Update
        BY OutTyped
    <2>2. Len(queue[t]) \in Nat
        BY <2>1, AppendedTo
    <2> QED BY <2>1, <2>2, ScreenTypes
  <1>1. /\ call.step = "send" /\ calls' = calls /\ UNCHANGED <<runtime, bridge, selected, screen>>
      BY DEF EmitSends
  <1>2. PICK r \in Seq(Update), i \in 1 .. Len(queue[t]) + 1 :
          /\ queue' = [queue EXCEPT ![t] = r] /\ Inserted(queue[t], r, i, u)
          /\ \/ call.op = "request" /\ call' = Idle
             \/ call.op = "select" /\ call' = [call EXCEPT !.step = "list"]
    <2>1. CASE /\ call.op = "request" /\ call' = Idle
               /\ queue' = [queue EXCEPT ![t] = Append(@, u)]
      <3>1. /\ Append(queue[t], u) \in Seq(Update) /\ Len(Append(queue[t], u)) = Len(queue[t]) + 1
            /\ \A k \in 1 .. Len(queue[t]) : Append(queue[t], u)[k] = queue[t][k]
            /\ Append(queue[t], u)[Len(queue[t]) + 1] = u
          BY <1>0, AppendedTo
      <3> DEFINE r == Append(queue[t], u)
      <3>2. queue' = [queue EXCEPT ![t] = r]
          BY <2>1
      <3> HIDE DEF r
      <3>3. Inserted(queue[t], r, Len(queue[t]) + 1, u)
          BY <1>0, <3>1 DEF Inserted, r
      <3>4. r \in Seq(Update) /\ Len(queue[t]) + 1 \in 1 .. Len(queue[t]) + 1
          BY <1>0, <3>1 DEF r
      <3> QED BY <2>1, <3>2, <3>3, <3>4
    <2>2. CASE /\ call.op = "select" /\ call' = [call EXCEPT !.step = "list"]
               /\ \E i \in 1 .. Len(queue[t]) + 1 :
                    queue' = [queue EXCEPT ![t] = InsertAt(@, i, u)]
      <3>1. PICK i \in 1 .. Len(queue[t]) + 1 :
              queue' = [queue EXCEPT ![t] = InsertAt(queue[t], i, u)]
          BY <2>2
      <3> DEFINE r == InsertAt(queue[t], i, u)
      <3>a. /\ InsertAt(queue[t], i, u) \in Seq(Update)
            /\ Len(InsertAt(queue[t], i, u)) = Len(queue[t]) + 1
            /\ \A k \in 1 .. Len(queue[t]) + 1 :
                 InsertAt(queue[t], i, u)[k] =
                   IF k < i THEN queue[t][k] ELSE IF k = i THEN u ELSE queue[t][k - 1]
        <4>1. PICK q \in Seq(Update) : q = queue[t]
            BY <1>0
        <4>2. u \in Update /\ i \in 1 .. Len(q) + 1
            BY <1>0, <4>1
        <4>3. /\ InsertAt(q, i, u) \in Seq(Update) /\ Len(InsertAt(q, i, u)) = Len(q) + 1
              /\ \A k \in 1 .. Len(q) + 1 :
                   InsertAt(q, i, u)[k] = IF k < i THEN q[k] ELSE IF k = i THEN u ELSE q[k - 1]
            BY <4>2, InsertedAt
        <4> QED BY <4>1, <4>3
      <3>2. r \in Seq(Update) /\ Inserted(queue[t], r, i, u)
          BY <3>a DEF Inserted
      <3>3. queue' = [queue EXCEPT ![t] = r]
          BY <3>1
      <3> HIDE DEF r
      <3> QED BY <2>2, <3>2, <3>3
    <2> QED BY <1>n, <2>1, <2>2 DEF EmitSends
  <1>3. /\ queue' \in [Context -> Seq(Update)] /\ queue'[t] = r
        /\ \A d \in Context : d # t => queue'[d] = queue[d]
      BY <1>0, <1>2
  <1>4. /\ pump' = pump /\ Len(queue[t]) + 1 \in Nat
      BY <1>0, <1>1 DEF bridge
  <1>5. \E j \in 1 .. Len(out(t)) + 1 : Inserted(out(t), out(t)', j, u)
    <2>1. CASE pump[t].at \in {"send", "last"}
      <3>1. out(t) = Append(queue[t], pump[t].hand) /\ out(t)' = Append(r, pump[t].hand)
          BY <1>3, <1>4, <2>1 DEF out
      <3> QED BY <1>0, <1>2, <3>1, InsertedBefore
    <2>2. CASE pump[t].at \notin {"send", "last"}
      <3>1. out(t) = queue[t] /\ out(t)' = r
          BY <1>3, <1>4, <2>2 DEF out
      <3> QED BY <1>2, <3>1
    <2> QED BY <2>1, <2>2
  <1>6. \A d \in Context : d # t => out(d)' = out(d)
      BY <1>3, <1>4 DEF out
  <1>7. First \in Context
      BY ClientAssumption
  <1>8. call' \in Call
    <2>1. call \in Call /\ Idle \in Call
        BY <1>7, ScreenTypes, OpenedTyped DEF Idle, Call
    <2> QED BY <1>2, <2>1 DEF Call
  <1>9. CallTyped'
    <2>1. selected' = selected /\ chosen' = chosen
        BY <1>1 DEF screen
    <2>2. CASE call.op = "request" /\ call' = Idle
      <3>1. chosen = selected
          BY <2>2, ScreenTypes DEF CallTyped
      <3> QED BY <2>1, <2>2, <3>1 DEF CallTyped, Idle
    <2>3. CASE call.op = "select" /\ call' = [call EXCEPT !.step = "list"]
      <3>1. call'.op = "select" /\ call'.step = "list" /\ call'.to = call.to
          BY <2>3, ScreenTypes DEF Call
      <3> QED BY <1>1, <2>1, <2>3, <3>1, ScreenTypes DEF CallTyped
    <2> QED BY <1>2, <2>2, <2>3
  <1>a. Typed'
      BY <1>1, <1>3, <1>8, <1>9, Screens, ScreenTypes DEF screen
  <1>b. out(t)' \in Seq(Update)
    <2>1. CASE pump[t].at \in {"send", "last"}
      <3>1. Append(r, pump[t].hand) \in Seq(Update)
          BY <1>0, AppendedTo
      <3> QED BY <1>3, <1>4, <2>1, <3>1 DEF out
    <2>2. CASE pump[t].at \notin {"send", "last"}
        BY <1>3, <1>4, <2>2 DEF out
    <2> QED BY <2>1, <2>2
  <1> QED BY <1>n, <1>0, <1>1, <1>2, <1>5, <1>6, <1>a, <1>b

\* The frontend takes what came first.
LEMMA HandleStep ==
  ASSUME Typed, NEW c \in Context, HandleUpdate(c)
  PROVE  /\ Typed' /\ UNCHANGED <<runtime, bridge, selected, call, calls, chosen, left>>
         /\ \A d \in Context : d # c => out(d)' = out(d)
         /\ out(c) # <<>> /\ out(c)' = Tail(out(c)) /\ out(c)[1] \in Update
         /\ LET u == out(c)[1]
            IN  \/ c # chosen /\ UNCHANGED <<shown, bubble, heard, overtaken>>
                \/ /\ c = chosen /\ u.kind \in {"snapshot", "resync"} /\ Shows(u.snapshot)
                   /\ bubble' = {} \/ (bubble' = bubble /\ u.kind = "snapshot")
                \/ /\ c = chosen /\ u.kind = "event" /\ UNCHANGED <<shown, overtaken>>
                   /\ heard' = [context |-> c, n |-> u.event.n, fresh |-> FALSE]
                   /\ bubble' = {} \/ u.event.kind = "delta"
                \/ /\ c = chosen /\ u.kind = "closed" /\ bubble' = {}
                   /\ UNCHANGED <<shown, heard, overtaken>>
  <1> DEFINE u == Head(queue[c])
  <1>0. /\ queue[c] # <<>> /\ queue' = [queue EXCEPT ![c] = Tail(@)]
        /\ UNCHANGED <<runtime, bridge, selected, asking, chosen, left>>
        /\ \/ c # chosen /\ UNCHANGED <<shown, bubble, connected, heard, overtaken>>
           \/ /\ c = chosen /\ u.kind \in {"snapshot", "resync"}
              /\ Shows(u.snapshot) /\ UNCHANGED connected
              /\ \/ goes_on(u) /\ UNCHANGED bubble
                 \/ ~keeps(u) /\ bubble' = {}
           \/ c = chosen /\ u.kind = "event" /\ Fold(c, u.event)
           \/ /\ c = chosen /\ u.kind = "closed"
              /\ connected' = FALSE /\ bubble' = {}
              /\ UNCHANGED <<shown, heard, overtaken>>
      BY DEF HandleUpdate
  <1>1. /\ queue \in [Context -> Seq(Update)] /\ queue[c] \in Seq(Update)
        /\ pump[c].hand \in Update
      BY ScreenTypes, OutTyped
  <1>2. /\ Tail(queue[c]) \in Seq(Update) /\ u \in Update /\ u = queue[c][1]
        /\ Len(queue[c]) \in Nat \ {0}
      BY <1>0, <1>1, TailOf
  <1>3. /\ queue' \in [Context -> Seq(Update)] /\ queue'[c] = Tail(queue[c])
        /\ \A d \in Context : d # c => queue'[d] = queue[d]
      BY <1>0, <1>1, <1>2
  <1>4. pump' = pump
      BY <1>0 DEF bridge
  <1>5. out(c) # <<>> /\ out(c)' = Tail(out(c)) /\ out(c)[1] = u
    <2> HIDE DEF u
    <2>1. CASE pump[c].at \in {"send", "last"}
      <3>1. out(c) = Append(queue[c], pump[c].hand) /\ out(c)' = Append(Tail(queue[c]), pump[c].hand)
          BY <1>3, <1>4, <2>1 DEF out
      <3>2. Append(queue[c], pump[c].hand) # <<>>
        <4>1. Len(Append(queue[c], pump[c].hand)) = Len(queue[c]) + 1 /\ Len(<<>>) = 0
            BY <1>1, AppendedTo
        <4> QED BY <1>2, <4>1
      <3>3. Append(queue[c], pump[c].hand)[1] = queue[c][1]
          BY <1>1, <1>2, AppendedTo
      <3>4. Tail(Append(queue[c], pump[c].hand)) = Append(Tail(queue[c]), pump[c].hand)
          BY <1>0, <1>1
      <3> QED BY <1>2, <3>1, <3>2, <3>3, <3>4
    <2>2. CASE pump[c].at \notin {"send", "last"}
        BY <1>0, <1>2, <1>3, <1>4, <2>2 DEF out
    <2> QED BY <2>1, <2>2
  <1>6. \A d \in Context : d # c => out(d)' = out(d)
      BY <1>3, <1>4 DEF out
  <1>7. CallTyped'
      BY <1>0, ScreenTypes DEF CallTyped, asking
  <1> HIDE DEF u
  <1>8. /\ call' \in Call /\ calls' \in 0 .. MaxCalls /\ selected' \in Context
        /\ chosen' \in Context /\ left' \subseteq Delta
      BY <1>0, ScreenTypes DEF asking
  <1>9. CASE c # chosen /\ UNCHANGED <<shown, bubble, connected, heard, overtaken>>
    <2>1. Typed'
        BY <1>0, <1>3, <1>7, <1>8, <1>9, Screens, ScreenTypes
    <2> QED BY <1>0, <1>2, <1>5, <1>6, <1>9, <2>1 DEF asking
  <1>a. CASE /\ c = chosen /\ u.kind \in {"snapshot", "resync"}
             /\ Shows(u.snapshot) /\ UNCHANGED connected
             /\ \/ goes_on(u) /\ UNCHANGED bubble
                \/ ~keeps(u) /\ bubble' = {}
    <2>1. u.snapshot \in Snapshot
        BY <1>2, <1>a, Updates
    <2>2. bubble' = {} \/ (bubble' = bubble /\ u.kind = "snapshot")
        BY <1>a DEF goes_on
    <2>3. Typed'
        BY <1>0, <1>3, <1>7, <1>8, <1>a, <2>1, <2>2, Screens, ScreenTypes, ShowsTyped
    <2> QED BY <1>0, <1>2, <1>5, <1>6, <1>a, <2>2, <2>3 DEF asking
  <1>b. CASE c = chosen /\ u.kind = "event" /\ Fold(c, u.event)
    <2>1. u.event \in Event
        BY <1>2, <1>b, Updates
    <2>2. /\ heard' = [context |-> c, n |-> u.event.n, fresh |-> FALSE]
          /\ bubble' = (IF u.event.kind = "delta"
                          THEN bubble \union {[context |-> c, run |-> u.event.run, n |-> u.event.n]}
                        ELSE {})
          /\ UNCHANGED <<shown, connected, overtaken>>
        BY <1>b DEF Fold
    <2>3. /\ u.event.run \in Events \ {0} /\ u.event.n \in Events \ {0}
        BY <2>1 DEF Event
    <2>4. bubble' \subseteq Delta
      <3>1. bubble \subseteq Delta
          BY ScreenTypes
      <3>2. [context |-> c, run |-> u.event.run, n |-> u.event.n] \in Delta
          BY <2>3 DEF Delta
      <3> QED BY <2>2, <3>1, <3>2
    <2>5. heard' \in [context : Context, n : Events, fresh : BOOLEAN]
        BY <2>2, <2>3
    <2>6. Typed'
        BY <1>0, <1>3, <1>7, <1>8, <2>2, <2>4, <2>5, Screens, ScreenTypes
    <2>7. bubble' = {} \/ u.event.kind = "delta"
        BY <2>2
    <2> QED BY <1>0, <1>2, <1>5, <1>6, <1>b, <2>2, <2>6, <2>7 DEF asking
  <1>c. CASE /\ c = chosen /\ u.kind = "closed"
             /\ connected' = FALSE /\ bubble' = {}
             /\ UNCHANGED <<shown, heard, overtaken>>
    <2>1. Typed'
        BY <1>0, <1>3, <1>7, <1>8, <1>c, Screens, ScreenTypes
    <2> QED BY <1>0, <1>2, <1>5, <1>6, <1>c, <2>1 DEF asking
  <1> QED BY <1>0, <1>9, <1>a, <1>b, <1>c DEF u

-------------------------------------------------------------------------------
(* A step on what is on its way: one more in some place, or the first is taken.   *)

\* Where the elements of the longer sequence come from.
LEMMA InsertedIndex ==
  ASSUME NEW S, NEW s \in Seq(S), NEW r \in Seq(S), NEW e, NEW i \in 1 .. Len(s) + 1,
         Inserted(s, r, i, e)
  PROVE  /\ DOMAIN s = 1 .. Len(s) /\ DOMAIN r = 1 .. Len(s) + 1 /\ Len(s) \in Nat
         /\ i \in DOMAIN r /\ r[i] = e
         /\ \A k \in DOMAIN s : \/ k < i /\ k \in DOMAIN r /\ r[k] = s[k]
                                \/ k >= i /\ k + 1 \in DOMAIN r /\ r[k + 1] = s[k]
         /\ \A k \in DOMAIN r : \/ k = i \/ (k < i /\ k \in DOMAIN s /\ r[k] = s[k])
                                \/ k > i /\ k - 1 \in DOMAIN s /\ r[k] = s[k - 1]
  <1>1. Len(s) \in Nat /\ Len(r) = Len(s) + 1 /\ DOMAIN s = 1 .. Len(s) /\ DOMAIN r = 1 .. Len(s) + 1
      BY DEF Inserted
  <1>2. \A k \in 1 .. Len(s) + 1 :
          r[k] = IF k < i THEN s[k] ELSE IF k = i THEN e ELSE s[k - 1]
      BY DEF Inserted
  <1>3. i \in 1 .. Len(s) + 1 /\ i \in Nat
      BY <1>1
  <1>4. r[i] = e
      BY <1>2, <1>3
  <1>5. ASSUME NEW k \in 1 .. Len(s)
        PROVE  \/ k < i /\ k \in DOMAIN r /\ r[k] = s[k]
               \/ k >= i /\ k + 1 \in DOMAIN r /\ r[k + 1] = s[k]
    <2>1. CASE k < i
        BY <1>1, <1>2, <2>1
    <2>2. CASE k >= i
      <3>1. k + 1 \in 1 .. Len(s) + 1 /\ ~(k + 1 < i) /\ k + 1 # i /\ k + 1 - 1 = k
          BY <1>1, <1>3, <2>2
      <3>2. r[k + 1] = s[k + 1 - 1]
          BY <1>2, <3>1
      <3> QED BY <1>1, <2>2, <3>1, <3>2
    <2> QED BY <1>3, <2>1, <2>2
  <1>6. ASSUME NEW k \in 1 .. Len(s) + 1
        PROVE  \/ k = i \/ (k < i /\ k \in DOMAIN s /\ r[k] = s[k])
               \/ k > i /\ k - 1 \in DOMAIN s /\ r[k] = s[k - 1]
    <2>1. CASE k < i
        BY <1>1, <1>2, <1>3, <2>1
    <2>2. CASE k > i
        BY <1>1, <1>2, <1>3, <2>2
    <2> QED BY <1>1, <1>3, <2>1, <2>2
  <1> QED BY <1>1, <1>3, <1>4, <1>5, <1>6

\* An append inserts at the end.
LEMMA AppendInserts ==
  ASSUME NEW S, NEW s \in Seq(S), NEW e \in S
  PROVE  /\ Append(s, e) \in Seq(S) /\ Len(s) + 1 \in 1 .. Len(s) + 1
         /\ Inserted(s, Append(s, e), Len(s) + 1, e)
  <1> DEFINE r == Append(s, e)
  <1>1. /\ r \in Seq(S) /\ Len(r) = Len(s) + 1 /\ Len(s) \in Nat
        /\ \A i \in 1 .. Len(s) : r[i] = s[i]
        /\ r[Len(s) + 1] = e
      BY AppendedTo
  <1> HIDE DEF r
  <1>2. Inserted(s, r, Len(s) + 1, e)
      BY <1>1 DEF Inserted
  <1> QED BY <1>1, <1>2 DEF r

\* Where the elements of the rest come from.
LEMMA TailIndex ==
  ASSUME NEW S, NEW s \in Seq(S), s # <<>>
  PROVE  /\ Tail(s) \in Seq(S) /\ 1 \in DOMAIN s /\ s[1] \in S /\ Head(s) = s[1]
         /\ DOMAIN s = 1 .. Len(s) /\ Len(s) \in Nat \ {0} /\ Len(Tail(s)) = Len(s) - 1
         /\ \A k \in DOMAIN Tail(s) : k \in Nat \ {0} /\ k + 1 \in DOMAIN s /\ Tail(s)[k] = s[k + 1]
         /\ \A k \in DOMAIN s :
              k = 1 \/ (k > 1 /\ k - 1 \in DOMAIN Tail(s) /\ Tail(s)[k - 1] = s[k])
  <1>1. /\ Tail(s) \in Seq(S) /\ Len(Tail(s)) = Len(s) - 1 /\ Len(s) \in Nat \ {0}
        /\ DOMAIN s = 1 .. Len(s) /\ DOMAIN Tail(s) = 1 .. Len(s) - 1
        /\ \A i \in 1 .. Len(s) - 1 : Tail(s)[i] = s[i + 1]
        /\ Head(s) = s[1] /\ Head(s) \in S
      BY TailOf
  <1>2. ASSUME NEW k \in 1 .. Len(s)
        PROVE  k = 1 \/ (k > 1 /\ k - 1 \in 1 .. Len(s) - 1 /\ Tail(s)[k - 1] = s[k])
    <2>1. CASE k # 1
      <3>1. k - 1 \in 1 .. Len(s) - 1 /\ k - 1 + 1 = k /\ k > 1
          BY <1>1, <2>1
      <3> QED BY <1>1, <3>1
    <2> QED BY <2>1
  <1> QED BY <1>1, <1>2

-------------------------------------------------------------------------------
(* No event is folded after a gap.                                                *)

\* The number of the last event that left the broadcast.
due(c) == sent[c] - Len(ring[c])

\* What is on its way has its events in order as far as nothing lies between them, and
\* the last, if nothing has been lost since, is the last that left the broadcast.
Linked(o, d, lost, over) ==
  \A i \in DOMAIN o :
    /\ o[i].kind = "event" =>
         /\ i + 1 \in DOMAIN o /\ o[i + 1].kind = "event"
              => o[i + 1].event.n = o[i].event.n + 1
         /\ i = Len(o) /\ ~lost /\ ~over => o[i].event.n = d
    /\ o[i].kind = "closed" => over /\ \A j \in DOMAIN o : i < j => o[j].kind # "event"

\* The next event on its way is the one after n, and if nothing is, n was the last.
Follows(n, o, d, lost, over) ==
  /\ o # <<>> /\ o[1].kind = "event" => o[1].event.n = n + 1
  /\ o = <<>> /\ ~lost /\ ~over => n = d

\* The same of a project; the ring holds what has not left the broadcast.
Tracks(c, n) == Follows(n, out(c), due(c), lagged[c], Over(c))
Links(c) == Linked(out(c), due(c), lagged[c], Over(c))
RingInOrder(c) == \A i \in DOMAIN ring[c] : ring[c][i].n = due(c) + i
\* The client has heard everything up to what is next on its way to it.
HeardInv ==
  ~heard.fresh /\ call.op # "select" =>
    /\ heard.context = chosen
    /\ Follows(heard.n, out(chosen), due(chosen), lagged[chosen], Over(chosen))

GapInv == HeardInv /\ \A c \in Context : Links(c) /\ RingInOrder(c)

\* What is not an event may come between, and what ends the stream at its end.
LEMMA LinkedInserted ==
  ASSUME NEW o \in Seq(Update), NEW r \in Seq(Update), NEW u \in Update,
         NEW i \in 1 .. Len(o) + 1, Inserted(o, r, i, u),
         NEW d, NEW l \in BOOLEAN, NEW v \in BOOLEAN, NEW l2 \in BOOLEAN, NEW v2 \in BOOLEAN,
         Linked(o, d, l, v), u.kind # "event",
         i = Len(o) + 1 \/ (l2 = l /\ v2 = v /\ u.kind # "closed"), v => v2,
         u.kind = "closed" => v2
  PROVE  Linked(r, d, l2, v2)
  <1>1. /\ DOMAIN o = 1 .. Len(o) /\ DOMAIN r = 1 .. Len(o) + 1 /\ Len(o) \in Nat
        /\ i \in DOMAIN r /\ r[i] = u
        /\ \A k \in DOMAIN r : \/ k = i \/ (k < i /\ k \in DOMAIN o /\ r[k] = o[k])
                               \/ k > i /\ k - 1 \in DOMAIN o /\ r[k] = o[k - 1]
      BY InsertedIndex
  <1>2. Len(r) = Len(o) + 1
      BY DEF Inserted
  <1>3. ASSUME NEW k \in DOMAIN r, r[k].kind = "event", k + 1 \in DOMAIN r,
               r[k + 1].kind = "event"
        PROVE  r[k + 1].event.n = r[k].event.n + 1
    <2>1. k # i /\ k + 1 # i
        BY <1>1, <1>3
    <2>2. CASE k < i
        BY <1>1, <1>3, <2>1, <2>2 DEF Linked
    <2>3. CASE k > i
      <3>0. k \in Nat /\ k + 1 > i /\ k + 1 - 1 = k /\ k - 1 + 1 = k
          BY <1>1, <2>3
      <3>1. k - 1 \in DOMAIN o /\ r[k] = o[k - 1]
          BY <1>1, <2>3
      <3>2. k \in DOMAIN o /\ r[k + 1] = o[k]
          BY <1>1, <1>3, <2>1, <3>0
      <3> QED BY <1>3, <3>0, <3>1, <3>2 DEF Linked
    <2> QED BY <1>1, <2>1, <2>2, <2>3
  <1>4. ASSUME NEW k \in DOMAIN r, r[k].kind = "event", k = Len(r), ~l2, ~v2
        PROVE  r[k].event.n = d
    <2>1. k # i
        BY <1>1, <1>4
    <2>2. k > i /\ k - 1 = Len(o) /\ r[k] = o[k - 1] /\ k - 1 \in DOMAIN o /\ ~l /\ ~v
        BY <1>1, <1>2, <1>4, <2>1
    <2> QED BY <1>4, <2>2 DEF Linked
  <1>5. ASSUME NEW k \in DOMAIN r, r[k].kind = "closed"
        PROVE  v2 /\ \A j \in DOMAIN r : k < j => r[j].kind # "event"
    <2>1. CASE k = i
      <3>1. i = Len(o) + 1
          BY <1>1, <1>5, <2>1
      <3> QED BY <1>1, <1>5, <2>1, <3>1
    <2>2. CASE k # i
      <3>1. PICK m \in DOMAIN o : r[k] = o[m] /\ ((m = k /\ k < i) \/ (m = k - 1 /\ k > i))
        <4>1. CASE k < i
            BY <1>1, <2>2, <4>1
        <4>2. CASE k > i
            BY <1>1, <2>2, <4>2
        <4> QED BY <1>1, <2>2, <4>1, <4>2
      <3>2. v /\ \A j \in DOMAIN o : m < j => o[j].kind # "event"
          BY <1>5, <3>1 DEF Linked
      <3>3. ASSUME NEW j \in DOMAIN r, k < j PROVE r[j].kind # "event"
        <4>1. CASE j = i
            BY <1>1, <4>1
        <4>2. CASE j # i
            BY <1>1, <3>1, <3>2, <3>3, <4>2
        <4> QED BY <4>1, <4>2
      <3> QED BY <3>2, <3>3
    <2> QED BY <2>1, <2>2
  <1> QED BY <1>3, <1>4, <1>5 DEF Linked

\* The next event goes behind the others.
LEMMA LinkedAppended ==
  ASSUME NEW o \in Seq(Update), NEW u \in Update, NEW d,
         Linked(o, d, FALSE, FALSE), u.kind = "event", u.event.n = d + 1
  PROVE  Linked(Append(o, u), d + 1, FALSE, FALSE)
  <1> DEFINE r == Append(o, u)
  <1>1. /\ Len(r) = Len(o) + 1 /\ Len(o) \in Nat
        /\ DOMAIN o = 1 .. Len(o) /\ DOMAIN r = 1 .. Len(o) + 1
        /\ \A i \in 1 .. Len(o) : r[i] = o[i]
        /\ r[Len(o) + 1] = u
      BY AppendedTo
  <1> HIDE DEF r
  <1>2. ASSUME NEW k \in DOMAIN r, r[k].kind = "event", k + 1 \in DOMAIN r,
               r[k + 1].kind = "event"
        PROVE  r[k + 1].event.n = r[k].event.n + 1
    <2>1. k \in DOMAIN o /\ r[k] = o[k]
        BY <1>1, <1>2
    <2>2. CASE k = Len(o)
        BY <1>1, <1>2, <2>1, <2>2 DEF Linked
    <2>3. CASE k # Len(o)
        BY <1>1, <1>2, <2>1, <2>3 DEF Linked
    <2> QED BY <2>2, <2>3
  <1>3. ASSUME NEW k \in DOMAIN r, k = Len(r) PROVE r[k].event.n = d + 1
      BY <1>1, <1>3
  <1>4. ASSUME NEW k \in DOMAIN r, r[k].kind = "closed" PROVE FALSE
    <2>1. k \in DOMAIN o /\ r[k] = o[k]
        BY <1>1, <1>4
    <2> QED BY <1>4, <2>1 DEF Linked
  <1>5. Linked(r, d + 1, FALSE, FALSE)
      BY <1>2, <1>3, <1>4 DEF Linked
  <1> QED BY <1>5 DEF r

\* What is taken leaves the others in order, and is followed by what is next.
LEMMA LinkedTail ==
  ASSUME NEW o \in Seq(Update), o # <<>>, NEW d, NEW l \in BOOLEAN, NEW v \in BOOLEAN,
         Linked(o, d, l, v)
  PROVE  /\ Linked(Tail(o), d, l, v)
         /\ o[1].kind = "event" => Follows(o[1].event.n, Tail(o), d, l, v)
         /\ \A n : o[1].kind = "closed" => Follows(n, Tail(o), d, l, v)
  <1> DEFINE r == Tail(o)
  <1>1. /\ r \in Seq(Update) /\ 1 \in DOMAIN o
        /\ DOMAIN o = 1 .. Len(o) /\ Len(o) \in Nat \ {0} /\ Len(r) = Len(o) - 1
        /\ \A k \in DOMAIN r : k \in Nat \ {0} /\ k + 1 \in DOMAIN o /\ r[k] = o[k + 1]
      BY TailIndex
  <1>e. /\ r # <<>> => 1 \in DOMAIN r /\ 1 + 1 \in DOMAIN o /\ r[1] = o[1 + 1]
        /\ r = <<>> => Len(o) = 1
    <2>1. DOMAIN r = 1 .. Len(r) /\ (r = <<>> => Len(r) = 0) /\ (r # <<>> => Len(r) # 0)
        BY <1>1, EmptySeq
    <2> HIDE DEF r
    <2> QED BY <1>1, <2>1
  <1> HIDE DEF r
  <1>2. ASSUME NEW k \in DOMAIN r, r[k].kind = "event", k + 1 \in DOMAIN r,
               r[k + 1].kind = "event"
        PROVE  r[k + 1].event.n = r[k].event.n + 1
      BY <1>1, <1>2 DEF Linked
  <1>3. ASSUME NEW k \in DOMAIN r, r[k].kind = "event", k = Len(r), ~l, ~v
        PROVE  r[k].event.n = d
    <2>1. k + 1 = Len(o) /\ k + 1 \in DOMAIN o /\ r[k] = o[k + 1]
        BY <1>1, <1>3
    <2> QED BY <1>3, <2>1 DEF Linked
  <1>4. ASSUME NEW k \in DOMAIN r, r[k].kind = "closed"
        PROVE  v /\ \A j \in DOMAIN r : k < j => r[j].kind # "event"
    <2>1. v /\ \A j \in DOMAIN o : k + 1 < j => o[j].kind # "event"
        BY <1>1, <1>4 DEF Linked
    <2>2. ASSUME NEW j \in DOMAIN r, k < j PROVE r[j].kind # "event"
        BY <1>1, <2>1, <2>2
    <2> QED BY <2>1, <2>2
  <1>5. Linked(r, d, l, v)
      BY <1>2, <1>3, <1>4 DEF Linked
  <1>6. ASSUME o[1].kind = "event" PROVE Follows(o[1].event.n, r, d, l, v)
      BY <1>1, <1>e, <1>6 DEF Linked, Follows
  <1>7. ASSUME NEW n, o[1].kind = "closed" PROVE Follows(n, r, d, l, v)
      BY <1>1, <1>e, <1>7 DEF Linked, Follows
  <1> QED BY <1>5, <1>6, <1>7 DEF r

\* The types of what one project has.
LEMMA ContextTypes ==
  ASSUME Typed, NEW c \in Context
  PROVE  /\ sent[c] \in Nat /\ ring[c] \in Seq(Event) /\ Len(ring[c]) \in Nat
         /\ lagged[c] \in BOOLEAN /\ Over(c) \in BOOLEAN /\ out(c) \in Seq(Update)
         /\ seen[c] \in Nat /\ truth[c] \in Snapshot /\ truth[c].version \in Nat
         /\ Len(out(c)) \in Nat /\ due(c) \in Int
  <1>1. /\ sent[c] \in Events /\ ring[c] \in Seq(Event) /\ lagged[c] \in BOOLEAN
        /\ seen[c] \in Versions /\ truth[c] \in Snapshot
      BY DEF Typed, TypeOK
  <1>2. truth[c].version \in Versions
      BY <1>1 DEF Snapshot
  <1>3. Len(ring[c]) \in Nat
      BY <1>1, AppendedTo
  <1>4. out(c) \in Seq(Update) /\ Len(out(c)) \in Nat
      BY OutTyped
  <1>5. Over(c) \in BOOLEAN
      BY DEF Over
  <1>6. sent[c] \in Nat /\ seen[c] \in Nat /\ truth[c].version \in Nat
      BY <1>1, <1>2, Numbers
  <1>7. due(c) \in Int
      BY <1>3, <1>6 DEF due
  <1> QED BY <1>1, <1>3, <1>4, <1>5, <1>6, <1>7

\* Nothing is on its way at the start.
LEMMA GapInit == Init => GapInv
  <1> SUFFICES ASSUME Init PROVE GapInv
      OBVIOUS
  <1>1. heard.fresh
      BY DEF Init
  <1>2. ASSUME NEW c \in Context PROVE Links(c) /\ RingInOrder(c)
    <2>1. out(c) = <<>> /\ ring[c] = <<>>
        BY DEF Init, out
    <2> QED BY <2>1 DEF Links, Linked, RingInOrder
  <1> QED BY <1>1, <1>2 DEF GapInv, HeardInv

\* What is not broadcast or sent leaves the order as it is.
LEMMA OrderUnchanged ==
  ASSUME NEW c \in Context, out(c)' = out(c), sent'[c] = sent[c], ring'[c] = ring[c],
         lagged'[c] = lagged[c], Over(c)' = Over(c), Links(c), RingInOrder(c)
  PROVE  /\ Links(c)' /\ RingInOrder(c)' /\ due(c)' = due(c)
  <1>1. due(c)' = due(c)
      BY DEF due
  <1> QED BY <1>1 DEF Links, RingInOrder

\* What is broadcast is the next event, and lag is noted where one is dropped.
LEMMA GapRuntime ==
  ASSUME Typed, GapInv, NEW c \in Context, Runs(c) \/ Publish(c)
  PROVE  GapInv'
  <1>1. /\ UNCHANGED <<seen, pump, queue, selected, asking, screen>>
        /\ \A d \in Context : d # c =>
             sent'[d] = sent[d] /\ ring'[d] = ring[d] /\ lagged'[d] = lagged[d]
    <2>1. UNCHANGED <<seen, pump, queue, selected, asking, screen>>
        BY RuntimeStep
    <2>2. \A d \in Context : d # c =>
            sent'[d] = sent[d] /\ ring'[d] = ring[d] /\ lagged'[d] = lagged[d]
        BY RuntimeStep
    <2> QED BY <2>1, <2>2
  <1>2. \A d \in Context : out(d)' = out(d) /\ Over(d)' = Over(d)
      BY <1>1 DEF out, Over
  <1>3. /\ Links(c) /\ RingInOrder(c)
        /\ sent[c] \in Nat /\ ring[c] \in Seq(Event) /\ Len(ring[c]) \in Nat
      BY ContextTypes DEF GapInv
  <1>4. /\ Links(c)' /\ RingInOrder(c)'
        /\ (due(c)' = due(c) /\ lagged'[c] = lagged[c]) \/ lagged'[c]
    <2>2. ASSUME NEW e \in Event, e.n = sent[c] + 1, sent'[c] = sent[c] + 1,
                 ring'[c] = Append(ring[c], e), lagged'[c] = lagged[c]
          PROVE  /\ Links(c)' /\ RingInOrder(c)' /\ due(c)' = due(c)
      <3>1. /\ Len(ring'[c]) = Len(ring[c]) + 1
            /\ DOMAIN ring[c] = 1 .. Len(ring[c]) /\ DOMAIN ring'[c] = 1 .. Len(ring[c]) + 1
            /\ \A i \in 1 .. Len(ring[c]) : ring'[c][i] = ring[c][i]
            /\ ring'[c][Len(ring[c]) + 1] = e
          BY <1>3, <2>2, AppendedTo
      <3>2. due(c)' = due(c)
          BY <1>3, <2>2, <3>1 DEF due
      <3>3. ASSUME NEW i \in DOMAIN ring'[c] PROVE ring'[c][i].n = due(c) + i
        <4>1. CASE i = Len(ring[c]) + 1
            BY <1>3, <2>2, <3>1, <4>1 DEF due
        <4>2. CASE i # Len(ring[c]) + 1
            BY <1>3, <3>1, <4>2 DEF RingInOrder
        <4> QED BY <4>1, <4>2
      <3> QED BY <1>2, <1>3, <2>2, <3>2, <3>3 DEF Links, RingInOrder
    <2>3. ASSUME NEW e \in Event, e.n = sent[c] + 1, sent'[c] = sent[c] + 1,
                 ring'[c] = Tail(Append(ring[c], e)), lagged'[c] = TRUE
          PROVE  Links(c)' /\ RingInOrder(c)'
      <3> DEFINE k == Append(ring[c], e)
      <3>1. /\ k \in Seq(Event) /\ Len(k) = Len(ring[c]) + 1
            /\ DOMAIN ring[c] = 1 .. Len(ring[c])
            /\ \A i \in 1 .. Len(ring[c]) : k[i] = ring[c][i]
            /\ k[Len(ring[c]) + 1] = e
          BY <1>3, AppendedTo
      <3>2. ring'[c] = Tail(k)
          BY <2>3
      <3> HIDE DEF k
      <3>3. k # <<>>
          BY <1>3, <3>1
      <3>4. /\ Len(ring'[c]) = Len(ring[c]) /\ DOMAIN ring'[c] = 1 .. Len(ring[c])
            /\ \A i \in 1 .. Len(ring[c]) : ring'[c][i] = k[i + 1]
          BY <3>1, <3>2, <3>3, TailOf
      <3>5. due(c)' = due(c) + 1 /\ due(c) \in Int
        <4>1. sent'[c] = sent[c] + 1 /\ Len(ring'[c]) = Len(ring[c])
            BY <2>3, <3>4
        <4>2. sent[c] \in Nat /\ Len(ring[c]) \in Nat
            BY <1>3
        <4> QED BY <4>1, <4>2 DEF due
      <3>6. ASSUME NEW i \in DOMAIN ring'[c] PROVE ring'[c][i].n = due(c) + 1 + i
        <4>1. i \in 1 .. Len(ring[c]) /\ ring'[c][i] = k[i + 1]
            BY <3>4
        <4>2. CASE i = Len(ring[c])
            BY <1>3, <2>3, <3>1, <4>1, <4>2 DEF due
        <4>3. CASE i # Len(ring[c])
          <5>1. i + 1 \in DOMAIN ring[c] /\ ring'[c][i] = ring[c][i + 1]
              BY <1>3, <3>1, <4>1, <4>3
          <5>2. ring[c][i + 1].n = due(c) + (i + 1)
              BY <1>3, <5>1 DEF RingInOrder
          <5> QED BY <3>5, <4>1, <5>1, <5>2
        <4> QED BY <4>2, <4>3
      <3>7. Links(c)'
          BY <1>2, <1>3, <2>3 DEF Links, Linked
      <3> QED BY <3>5, <3>6, <3>7 DEF RingInOrder
    <2>4. CASE Quiet(c)
        BY <1>2, <1>3, <2>4, OrderUnchanged DEF Quiet
    <2>5. CASE \E e \in Event : Broadcasts(c, e)
      <3>1. PICK e \in Event : Broadcasts(c, e)
          BY <2>5
      <3>2. CASE ring'[c] = Append(ring[c], e) /\ lagged'[c] = lagged[c]
          BY <2>2, <3>1, <3>2 DEF Broadcasts
      <3>3. CASE ring'[c] = Tail(Append(ring[c], e)) /\ lagged'[c] = TRUE
          BY <2>3, <3>1, <3>3 DEF Broadcasts
      <3> QED BY <3>1, <3>2, <3>3 DEF Broadcasts
    <2> QED BY <2>4, <2>5, RuntimeStep
  <1>5. ASSUME NEW d \in Context, d # c
        PROVE  /\ Links(d)' /\ RingInOrder(d)'
               /\ due(d)' = due(d) /\ lagged'[d] = lagged[d]
      BY <1>1, <1>2, <1>5, OrderUnchanged DEF GapInv
  <1>6. HeardInv'
    <2>1. /\ heard' = heard /\ call' = call /\ chosen' = chosen /\ chosen \in Context
          /\ HeardInv
        BY <1>1, ScreenTypes DEF screen, asking, GapInv
    <2>2. (due(chosen)' = due(chosen) /\ lagged'[chosen] = lagged[chosen]) \/ lagged'[chosen]
      <3>1. ASSUME NEW d \in Context
            PROVE  (due(d)' = due(d) /\ lagged'[d] = lagged[d]) \/ lagged'[d]
          BY <1>4, <1>5
      <3> QED BY <2>1, <3>1
    <2> QED BY <1>2, <2>1, <2>2 DEF HeardInv, Follows
  <1> QED BY <1>4, <1>5, <1>6 DEF GapInv

\* A pump forwards the next event, or answers lag with a resync.
LEMMA GapPump ==
  ASSUME Typed, GapInv, NEW c \in Context, Pump(c)
  PROVE  GapInv'
  <1>1. /\ UNCHANGED <<state, truth, sent, selected, asking, screen>>
        /\ \A d \in Context : d # c =>
             /\ out(d)' = out(d) /\ ring'[d] = ring[d] /\ lagged'[d] = lagged[d]
             /\ Over(d)' = Over(d)
      BY PumpStep
  <1>2. ASSUME NEW d \in Context, d # c
        PROVE  Links(d)' /\ RingInOrder(d)' /\ due(d)' = due(d) /\ lagged'[d] = lagged[d]
      BY <1>1, <1>2, OrderUnchanged DEF GapInv
  <1>3. /\ Links(c) /\ RingInOrder(c) /\ out(c) \in Seq(Update) /\ due(c) \in Int
        /\ ring[c] \in Seq(Event) /\ Len(ring[c]) \in Nat /\ sent[c] \in Nat
        /\ lagged[c] \in BOOLEAN /\ Over(c) \in BOOLEAN /\ truth[c] \in Snapshot
        /\ sent'[c] = sent[c] /\ Typed'
      BY <1>1, ContextTypes, PumpStep DEF GapInv
  <1>t. lagged'[c] \in BOOLEAN /\ Over(c)' \in BOOLEAN
    <2>1. lagged' \in [Context -> BOOLEAN]
        BY <1>3 DEF Typed, TypeOK
    <2> QED BY <2>1 DEF Over
  <1> DEFINE Goes == /\ Links(c)' /\ RingInOrder(c)'
                     /\ \A n \in Int : Tracks(c, n) => Tracks(c, n)'
  <1>4. ASSUME out(c)' = out(c), ring'[c] = ring[c], lagged'[c] = lagged[c],
               Over(c)' = Over(c)
        PROVE  Goes
    <2>1. Links(c)' /\ RingInOrder(c)' /\ due(c)' = due(c)
        BY <1>3, <1>4, OrderUnchanged
    <2>2. \A n \in Int : Tracks(c, n) => Tracks(c, n)'
      <3>1. (lagged'[c] <=> lagged[c]) /\ (Over(c)' <=> Over(c))
          BY <1>4
      <3> QED BY <1>4, <2>1, <3>1 DEF Follows, Tracks
    <2> QED BY <2>1, <2>2
  <1>5. ASSUME NEW u \in Update, PutsOut(c, u), ring'[c] = ring[c], u.kind # "event",
               Over(c) => Over(c)', u.kind = "closed" => Over(c)'
        PROVE  Goes
    <2>1. due(c)' = due(c)
        BY <1>3, <1>5 DEF due
    <2>2. /\ out(c)' \in Seq(Update) /\ Len(out(c)) + 1 \in 1 .. Len(out(c)) + 1
          /\ Inserted(out(c), out(c)', Len(out(c)) + 1, u)
        BY <1>3, <1>5, AppendInserts DEF PutsOut
    <2>3. Linked(out(c), due(c), lagged[c], Over(c))
        BY <1>3 DEF Links
    <2>4. Linked(out(c)', due(c), lagged'[c], Over(c)')
        BY <1>3, <1>t, <1>5, <2>2, <2>3, LinkedInserted
    <2>5. Links(c)'
        BY <2>1, <2>4 DEF Links
    <2>6. RingInOrder(c)'
        BY <1>3, <1>5, <2>1 DEF RingInOrder
    <2>7. out(c)' # <<>> /\ (out(c)'[1].kind = "event" => out(c) # <<>> /\ out(c)'[1] = out(c)[1])
      <3>1. /\ DOMAIN out(c) = 1 .. Len(out(c)) /\ DOMAIN out(c)' = 1 .. Len(out(c)) + 1
            /\ Len(out(c)) \in Nat
            /\ \A k \in DOMAIN out(c)' : \/ k = Len(out(c)) + 1 /\ out(c)'[k] = u
                                         \/ k \in DOMAIN out(c) /\ out(c)'[k] = out(c)[k]
          BY <1>3, <1>5, AppendedTo DEF PutsOut
      <3>2. 1 \in DOMAIN out(c)'
          BY <3>1
      <3>3. out(c)' # <<>>
          BY <3>2
      <3>4. ASSUME out(c)'[1].kind = "event"
            PROVE  out(c) # <<>> /\ out(c)'[1] = out(c)[1]
        <4>1. 1 \in DOMAIN out(c) /\ out(c)'[1] = out(c)[1]
            BY <1>5, <3>1, <3>2, <3>4
        <4> QED BY <4>1
      <3> QED BY <3>3, <3>4
    <2>8. \A n \in Int : Tracks(c, n) => Tracks(c, n)'
        BY <2>7 DEF Follows, Tracks
    <2> QED BY <2>5, <2>6, <2>8
  <1>6. ASSUME TakesEvent(c), ~lagged[c], ~lagged'[c], ~Over(c), ~Over(c)'
        PROVE  Goes
    <2> DEFINE e == Head(ring[c])
    <2>1. /\ ring[c] # <<>> /\ ring'[c] = Tail(ring[c]) /\ out(c)' = Append(out(c), Heard(e))
        BY <1>6 DEF TakesEvent, PutsOut
    <2>2. /\ Len(ring'[c]) = Len(ring[c]) - 1 /\ Len(ring[c]) \in Nat \ {0}
          /\ DOMAIN ring[c] = 1 .. Len(ring[c]) /\ DOMAIN ring'[c] = 1 .. Len(ring[c]) - 1
          /\ \A i \in 1 .. Len(ring[c]) - 1 : ring'[c][i] = ring[c][i + 1]
          /\ e = ring[c][1] /\ e \in Event
        BY <1>3, <2>1, TailOf
    <2> HIDE DEF e
    <2>3. due(c)' = due(c) + 1
        BY <1>3, <2>2 DEF due
    <2>4. e.n = due(c) + 1 /\ Heard(e) \in Update /\ Heard(e).kind = "event"
          /\ Heard(e).event.n = due(c) + 1
      <3>1. e.n = due(c) + 1
          BY <1>3, <2>2 DEF RingInOrder
      <3> QED BY <2>2, <3>1, Updates DEF Heard
    <2>5. Linked(out(c), due(c), FALSE, FALSE)
        BY <1>3, <1>6 DEF Links
    <2>6. Linked(out(c)', due(c) + 1, FALSE, FALSE)
        BY <1>3, <2>1, <2>4, <2>5, LinkedAppended
    <2>7. Links(c)'
      <3>1. lagged'[c] = FALSE /\ Over(c)' = FALSE
          BY <1>t, <1>6
      <3> QED BY <2>3, <2>6, <3>1 DEF Links
    <2>8. ASSUME NEW i \in DOMAIN ring'[c] PROVE ring'[c][i].n = due(c) + 1 + i
      <3>1. ring'[c][i] = ring[c][i + 1] /\ i + 1 \in DOMAIN ring[c] /\ i \in Nat
          BY <2>2
      <3>2. ring[c][i + 1].n = due(c) + (i + 1)
          BY <1>3, <3>1 DEF RingInOrder
      <3> QED BY <1>3, <3>1, <3>2
    <2>9. RingInOrder(c)'
        BY <2>3, <2>8 DEF RingInOrder
    <2>a. ASSUME NEW n \in Int, Tracks(c, n)
          PROVE  Tracks(c, n)'
      <3>1. /\ DOMAIN out(c) = 1 .. Len(out(c)) /\ DOMAIN out(c)' = 1 .. Len(out(c)) + 1
            /\ Len(out(c)) \in Nat
            /\ \A k \in 1 .. Len(out(c)) : out(c)'[k] = out(c)[k]
            /\ out(c)'[Len(out(c)) + 1] = Heard(e)
          BY <1>3, <2>1, <2>4, AppendedTo
      <3>2. 1 \in DOMAIN out(c)'
          BY <3>1
      <3>3. out(c)' # <<>>
          BY <3>2
      <3>4. CASE out(c) = <<>>
        <4>1. n = due(c) /\ Len(out(c)) = 0
            BY <1>6, <2>a, <3>4 DEF Follows, Tracks
        <4> QED BY <2>4, <3>1, <3>3, <4>1 DEF Follows, Tracks
      <3>5. CASE out(c) # <<>>
        <4>1. out(c)'[1] = out(c)[1]
            BY <1>3, <3>1, <3>5, EmptySeq
        <4> QED BY <2>a, <3>3, <3>5, <4>1 DEF Follows, Tracks
      <3> QED BY <3>4, <3>5
    <2>b. \A n \in Int : Tracks(c, n) => Tracks(c, n)'
        BY <2>a
    <2> QED BY <2>7, <2>9, <2>b
  <1>7. Goes
    <2> HIDE DEF Goes
    <2>1. CASE PutsOut(c, Taken(truth[c])) /\ ring'[c] = ring[c] /\ ~Over(c)
        BY <1>3, <1>5, <2>1, Updates DEF Taken
    <2>2. CASE PutsOut(c, Resync(truth[c])) /\ ring'[c] = ring[c] /\ ~Over(c)
        BY <1>3, <1>5, <2>2, Updates DEF Resync
    <2>3. CASE PutsOut(c, Closed) /\ ring'[c] = ring[c] /\ Over(c)'
        BY <1>5, <2>3, Updates DEF Closed
    <2>4. \/ out(c)' = out(c) /\ ring'[c] = ring[c] /\ lagged'[c] = lagged[c] /\ Over(c)' = Over(c)
          \/ PutsOut(c, Taken(truth[c])) /\ ring'[c] = ring[c] /\ ~Over(c)
          \/ TakesEvent(c) /\ ~lagged[c] /\ ~lagged'[c] /\ ~Over(c) /\ ~Over(c)'
          \/ PutsOut(c, Resync(truth[c])) /\ ring'[c] = ring[c] /\ ~Over(c)
          \/ PutsOut(c, Closed) /\ ring'[c] = ring[c] /\ Over(c)'
        BY PumpStep
    <2> QED BY <1>4, <1>6, <2>1, <2>2, <2>3, <2>4
  <1>8. HeardInv'
    <2>1. /\ heard' = heard /\ call' = call /\ chosen' = chosen /\ chosen \in Context
          /\ HeardInv /\ heard.n \in Int
      <3>1. heard.n \in Events /\ chosen \in Context
          BY ScreenTypes
      <3>2. heard.n \in Int
        <4>1. Events \subseteq Nat
            BY Numbers
        <4>2. heard.n \in Nat
            BY <3>1, <4>1
        <4> QED BY <4>2
      <3> QED BY <1>1, <3>1, <3>2 DEF screen, asking, GapInv
    <2>2. CASE chosen = c
        BY <1>7, <2>1, <2>2 DEF HeardInv, Tracks
    <2>3. CASE chosen # c
        BY <1>1, <1>2, <2>1, <2>3 DEF HeardInv, Follows
    <2> QED BY <2>2, <2>3
  <1> QED BY <1>2, <1>7, <1>8 DEF GapInv

\* The client folds the event that follows the last, or takes a snapshot.
LEMMA GapHandle ==
  ASSUME Typed, GapInv, NEW c \in Context, HandleUpdate(c)
  PROVE  /\ GapInv'
         /\ heard' # heard /\ ~heard'.fresh =>
              \/ heard.fresh \/ call.op = "select"
              \/ heard'.context = heard.context /\ heard'.n = heard.n + 1
  <1> DEFINE u == out(c)[1]
  <1>1. /\ UNCHANGED <<runtime, bridge, selected, call, calls, chosen, left>>
        /\ \A d \in Context : d # c => out(d)' = out(d)
        /\ out(c) # <<>> /\ out(c)' = Tail(out(c)) /\ u \in Update
      BY HandleStep
  <1>2. \/ c # chosen /\ heard' = heard
        \/ c = chosen /\ heard'.fresh
        \/ /\ c = chosen /\ u.kind = "event"
           /\ heard' = [context |-> c, n |-> u.event.n, fresh |-> FALSE]
        \/ c = chosen /\ u.kind = "closed" /\ heard' = heard
    <2>1. CASE c # chosen
        BY <2>1, HandleStep
    <2>2. ASSUME c = chosen, u.kind \in {"snapshot", "resync"}, Shows(u.snapshot)
          PROVE  heard'.fresh
      <3>1. u.snapshot \in Snapshot
          BY <1>1, <2>2, Updates
      <3> QED BY <2>2, <3>1, ShowsTyped
    <2> QED BY <2>1, <2>2, HandleStep
  <1> HIDE DEF u
  <1>3. \A d \in Context : /\ Over(d)' = Over(d) /\ due(d)' = due(d) /\ lagged'[d] = lagged[d]
                           /\ ring'[d] = ring[d] /\ sent'[d] = sent[d]
      BY <1>1 DEF runtime, bridge, Over, due
  <1>4. /\ Links(c) /\ RingInOrder(c) /\ out(c) \in Seq(Update)
        /\ lagged[c] \in BOOLEAN /\ Over(c) \in BOOLEAN
      BY ContextTypes DEF GapInv
  <1>5. Linked(out(c), due(c), lagged[c], Over(c))
      BY <1>4 DEF Links
  <1>6. /\ Linked(Tail(out(c)), due(c), lagged[c], Over(c))
        /\ u.kind = "event" => Follows(u.event.n, Tail(out(c)), due(c), lagged[c], Over(c))
        /\ \A n : u.kind = "closed" => Follows(n, Tail(out(c)), due(c), lagged[c], Over(c))
      BY <1>1, <1>4, <1>5, LinkedTail DEF u
  <1>7. (Over(c)' <=> Over(c)) /\ (lagged'[c] <=> lagged[c])
      BY <1>3
  <1>8. Links(c)' /\ RingInOrder(c)'
      BY <1>1, <1>3, <1>4, <1>6, <1>7 DEF Links, Linked, RingInOrder
  <1>9. ASSUME NEW d \in Context, d # c PROVE Links(d)' /\ RingInOrder(d)'
      BY <1>1, <1>3, <1>9, OrderUnchanged DEF GapInv
  <1>a. HeardInv'
    <2>1. CASE c # chosen /\ heard' = heard
      <3>1. chosen \in Context /\ chosen # c /\ HeardInv /\ chosen' = chosen /\ call' = call
          BY <1>1, <2>1, ScreenTypes DEF GapInv
      <3>2. (Over(chosen)' <=> Over(chosen)) /\ (lagged'[chosen] <=> lagged[chosen])
            /\ due(chosen)' = due(chosen) /\ out(chosen)' = out(chosen)
        <4>1. ASSUME NEW d \in Context, d # c
              PROVE  (Over(d)' <=> Over(d)) /\ (lagged'[d] <=> lagged[d])
                     /\ due(d)' = due(d) /\ out(d)' = out(d)
            BY <1>1, <1>3, <4>1
        <4>2. /\ Over(chosen)' = (pump'[chosen].at \in {"last", "done"})
              /\ out(chosen)' = IF pump'[chosen].at \in {"send", "last"}
                                  THEN Append(queue'[chosen], pump'[chosen].hand)
                                ELSE queue'[chosen]
              /\ due(chosen)' = sent'[chosen] - Len(ring'[chosen])
            BY <3>1 DEF Over, out, due
        <4> QED BY <3>1, <4>1, <4>2 DEF Over, out, due
      <3> QED BY <2>1, <3>1, <3>2 DEF HeardInv, Follows
    <2>2. CASE c = chosen /\ heard'.fresh
        BY <2>2 DEF HeardInv
    <2>3. CASE /\ c = chosen /\ u.kind = "event"
               /\ heard' = [context |-> c, n |-> u.event.n, fresh |-> FALSE]
      <3>1. chosen' = c /\ heard'.context = c /\ heard'.n = u.event.n
          BY <1>1, <2>3
      <3>2. PICK n : n = u.event.n
          OBVIOUS
      <3>3. Follows(n, Tail(out(c)), due(c), lagged[c], Over(c))
          BY <1>6, <2>3, <3>2
      <3>4. Tracks(c, n)'
          BY <1>1, <1>3, <1>7, <3>3 DEF Follows, Tracks
      <3>5. heard'.n = n
          BY <3>1, <3>2
      <3> QED BY <3>1, <3>4, <3>5 DEF HeardInv, Tracks
    <2>4. CASE c = chosen /\ u.kind = "closed" /\ heard' = heard
      <3>1. /\ ~heard.fresh /\ call.op # "select" => heard.context = chosen
            /\ chosen' = c /\ call' = call
          BY <1>1, <2>4 DEF GapInv, HeardInv
      <3>2. PICK n : n = heard.n
          OBVIOUS
      <3>3. Follows(n, Tail(out(c)), due(c), lagged[c], Over(c))
          BY <1>6, <2>4
      <3>4. Tracks(c, n)'
          BY <1>1, <1>3, <1>7, <3>3 DEF Follows, Tracks
      <3>5. heard'.n = n /\ heard' = heard
          BY <2>4, <3>2
      <3> QED BY <2>4, <3>1, <3>4, <3>5 DEF HeardInv, Tracks
    <2> QED BY <1>2, <2>1, <2>2, <2>3, <2>4
  <1>b. ASSUME heard' # heard, ~heard'.fresh, ~heard.fresh, call.op # "select"
        PROVE  heard'.context = heard.context /\ heard'.n = heard.n + 1
    <2>1. /\ c = chosen /\ u.kind = "event"
          /\ heard' = [context |-> c, n |-> u.event.n, fresh |-> FALSE]
        BY <1>2, <1>b
    <2>2. heard.context = c /\ Follows(heard.n, out(c), due(c), lagged[c], Over(c))
        BY <1>b, <2>1 DEF GapInv, HeardInv
    <2> QED BY <1>1, <2>1, <2>2 DEF Follows, u
  <1> QED BY <1>8, <1>9, <1>a, <1>b DEF GapInv

\* What depends on the backend stays with it.
LEMMA BackendStill ==
  ASSUME UNCHANGED <<runtime, bridge, queue>>
  PROVE  /\ UNCHANGED <<state, truth, sent, alive, lagged, ring, seen, pump, queue>>
         /\ \A c \in Context : /\ out(c)' = out(c) /\ Over(c)' = Over(c) /\ due(c)' = due(c)
  BY DEF runtime, bridge, out, Over, due

\* So does what the client has heard of it.
LEMMA HeardUnchanged ==
  ASSUME HeardInv, NEW d, chosen = d, chosen' = d, heard' = heard,
         call.op = "select" => call'.op = "select",
         out(d)' = out(d), due(d)' = due(d), lagged'[d] = lagged[d], Over(d)' = Over(d)
  PROVE  HeardInv'
  <1>1. (Over(d)' <=> Over(d)) /\ (lagged'[d] <=> lagged[d])
      OBVIOUS
  <1>2. PICK n : n = heard.n
      OBVIOUS
  <1>3. Tracks(d, n) => Tracks(d, n)'
      BY <1>1 DEF Tracks, Follows
  <1> QED BY <1>2, <1>3 DEF HeardInv, Tracks

\* An answer comes between the events and loses none.
LEMMA GapSends ==
  ASSUME Typed, GapInv, EmitSends
  PROVE  GapInv' /\ heard' = heard
  <1>1. PICK t \in Context : t = call.to
      BY ScreenTypes
  <1>2. /\ UNCHANGED <<runtime, bridge, selected, screen>> /\ call.step = "send"
        /\ call.op = "request" \/ (call.op = "select" /\ call' = [call EXCEPT !.step = "list"])
        /\ \A d \in Context : d # t => out(d)' = out(d)
        /\ Taken(call.snapshot) \in Update /\ out(t)' \in Seq(Update)
      BY <1>1, EmitSendsStep
  <1>3. PICK i \in 1 .. Len(out(t)) + 1 :
          Inserted(out(t), out(t)', i, Taken(call.snapshot))
      BY <1>1, EmitSendsStep
  <1>4. /\ sent' = sent /\ ring' = ring /\ lagged' = lagged /\ pump' = pump
        /\ heard' = heard /\ chosen' = chosen
      BY <1>2 DEF runtime, bridge, screen
  <1>5. \A d \in Context : due(d)' = due(d) /\ Over(d)' = Over(d) /\ lagged'[d] = lagged[d]
      BY <1>4 DEF due, Over
  <1>6. /\ Links(t) /\ RingInOrder(t) /\ out(t) \in Seq(Update)
        /\ lagged[t] \in BOOLEAN /\ Over(t) \in BOOLEAN /\ HeardInv
      BY ContextTypes DEF GapInv
  <1>7. Linked(out(t), due(t), lagged[t], Over(t))
      BY <1>6 DEF Links
  <1>8. PICK u \in Update : u = Taken(call.snapshot) /\ u.kind = "snapshot"
      BY <1>2 DEF Taken
  <1>9. Linked(out(t)', due(t), lagged[t], Over(t))
      BY <1>2, <1>3, <1>6, <1>7, <1>8, LinkedInserted
  <1>a. (Over(t)' <=> Over(t)) /\ (lagged'[t] <=> lagged[t])
      BY <1>5
  <1>b. Links(t)' /\ RingInOrder(t)'
      BY <1>4, <1>5, <1>6, <1>9, <1>a DEF Links, RingInOrder, Linked
  <1>c. ASSUME NEW d \in Context, d # t PROVE Links(d)' /\ RingInOrder(d)'
      BY <1>2, <1>4, <1>5, <1>c, OrderUnchanged DEF GapInv
  <1>d. HeardInv'
    <2>1. CASE call.op = "select"
      <3>1. call'.op = "select"
          BY <1>2, <2>1, ScreenTypes DEF Call
      <3> QED BY <3>1 DEF HeardInv
    <2>2. CASE call.op = "request"
      <3>1. t = chosen /\ chosen' = t
          BY <1>1, <1>4, <2>2, ScreenTypes DEF CallTyped
      <3>2. PICK n : n = heard.n
          OBVIOUS
      <3>3. Tracks(t, n) => Tracks(t, n)'
        <4>1. /\ DOMAIN out(t) = 1 .. Len(out(t)) /\ DOMAIN out(t)' = 1 .. Len(out(t)) + 1
              /\ Len(out(t)) \in Nat /\ out(t)'[i] = u
              /\ \A k \in DOMAIN out(t)' :
                   \/ k = i \/ (k < i /\ k \in DOMAIN out(t) /\ out(t)'[k] = out(t)[k])
                   \/ k > i /\ k - 1 \in DOMAIN out(t) /\ out(t)'[k] = out(t)[k - 1]
            BY <1>2, <1>3, <1>6, <1>8, InsertedIndex
        <4>2. 1 \in DOMAIN out(t)'
            BY <4>1
        <4>3. out(t)' # <<>>
            BY <4>2
        <4>4. out(t)'[1] = u \/ (out(t) # <<>> /\ out(t)'[1] = out(t)[1])
          <5>1. CASE 1 = i
              BY <4>1, <5>1
          <5>2. CASE 1 < i
            <6>1. 1 \in DOMAIN out(t) /\ out(t)'[1] = out(t)[1]
                BY <4>1, <4>2, <5>2
            <6> QED BY <6>1
          <5> QED BY <4>1, <5>1, <5>2
        <4> QED BY <1>8, <4>3, <4>4 DEF Tracks, Follows
      <3> QED BY <1>4, <1>6, <2>2, <3>1, <3>2, <3>3 DEF HeardInv, Tracks
    <2> QED BY <1>2, <2>1, <2>2
  <1> QED BY <1>4, <1>b, <1>c, <1>d DEF GapInv

\* A call that sends nothing.
LEMMA GapCalls ==
  ASSUME Typed, GapInv,
         \/ RequestSnapshot \/ Reconnect \/ (\E c \in Context : SelectProject(c))
         \/ EmitReads \/ GetSnapshot \/ ListArrives \/ SnapshotArrives
  PROVE  GapInv' /\ (heard' = heard \/ heard'.fresh)
  <1>1. UNCHANGED <<runtime, bridge, queue>>
      BY AskStep, EmitReadsStep, GetSnapshotStep, ListStep, AnswerStep
  <1>2. \A d \in Context : /\ out(d)' = out(d) /\ Over(d)' = Over(d) /\ due(d)' = due(d)
                           /\ lagged'[d] = lagged[d] /\ ring'[d] = ring[d] /\ sent'[d] = sent[d]
      BY <1>1, BackendStill
  <1>3. \A d \in Context : Links(d)' /\ RingInOrder(d)'
      BY <1>2, OrderUnchanged DEF GapInv
  <1>4. heard'.fresh \/
          (heard' = heard /\ chosen' = chosen /\ (call.op = "select" => call'.op = "select"))
          \/ (heard' = heard /\ call'.op = "select")
    <2>1. CASE RequestSnapshot \/ Reconnect \/ (\E c \in Context : SelectProject(c))
        BY <2>1, AskStep DEF screen
    <2>2. CASE EmitReads
        BY <2>2, EmitReadsStep, ScreenTypes DEF screen, Call
    <2>3. CASE GetSnapshot
      <3>1. PICK s \in Snapshot : call' = [call EXCEPT !.step = "got", !.snapshot = s]
          BY <2>3, GetSnapshotStep
      <3>2. call'.op = call.op
          BY <3>1, ScreenTypes DEF Call
      <3> QED BY <2>3, <3>2, GetSnapshotStep DEF screen
    <2>4. CASE ListArrives
      <3>1. /\ call' = [call EXCEPT !.step = "get"] /\ chosen' = selected /\ heard' = heard
          BY <2>4, ListStep
      <3>2. call'.op = call.op
          BY <3>1, ScreenTypes DEF Call
      <3>3. call.op # "select" => chosen' = chosen
          BY <3>1, ScreenTypes DEF CallTyped
      <3> QED BY <3>1, <3>2, <3>3
    <2>5. CASE SnapshotArrives
        BY <2>5, AnswerStep, ScreenTypes, ShowsTyped
    <2> QED BY <2>1, <2>2, <2>3, <2>4, <2>5
  <1>5. HeardInv'
    <2>1. CASE heard'.fresh
        BY <2>1 DEF HeardInv
    <2>2. CASE heard' = heard /\ call'.op = "select"
        BY <2>2 DEF HeardInv
    <2>3. CASE heard' = heard /\ chosen' = chosen /\ (call.op = "select" => call'.op = "select")
      <3>1. PICK d \in Context : d = chosen
          BY ScreenTypes
      <3> QED BY <1>2, <2>3, <3>1, HeardUnchanged DEF GapInv
    <2> QED BY <1>4, <2>1, <2>2, <2>3
  <1> QED BY <1>3, <1>4, <1>5 DEF GapInv

-------------------------------------------------------------------------------
(* Every step.                                                                  *)

\* Every step keeps the types.
LEMMA TypedNext == Typed /\ [Next]_vars => Typed'
  <1> SUFFICES ASSUME Typed, [Next]_vars PROVE Typed'
      OBVIOUS
  <1>1. CASE \E c \in Context : Runs(c) \/ Publish(c)
      BY <1>1, RuntimeStep
  <1>2. CASE \E c \in Context : Pump(c)
      BY <1>2, PumpStep
  <1>3. CASE \E c \in Context : HandleUpdate(c)
      BY <1>3, HandleStep
  <1>4. CASE EmitSends
      BY <1>4, EmitSendsStep, ScreenTypes
  <1>5. CASE \/ RequestSnapshot \/ Reconnect \/ (\E c \in Context : SelectProject(c))
             \/ EmitReads \/ GetSnapshot \/ ListArrives \/ SnapshotArrives
      BY <1>5, AskStep, EmitReadsStep, GetSnapshotStep, ListStep, AnswerStep
  <1>6. CASE UNCHANGED vars
    <2>1. UNCHANGED <<runtime, bridge>>
        BY <1>6 DEF vars, backend
    <2>2. /\ queue' = queue /\ selected' = selected /\ call' = call /\ calls' = calls
          /\ shown' = shown /\ chosen' = chosen /\ bubble' = bubble
          /\ connected' = connected /\ heard' = heard /\ overtaken' = overtaken /\ left' = left
        BY <1>6 DEF vars, backend, asking, screen
    <2>3. CallTyped'
        BY <2>2, ScreenTypes DEF CallTyped
    <2> QED BY <2>1, <2>2, <2>3, Screens, ScreenTypes
  <1> QED BY <1>1, <1>2, <1>3, <1>4, <1>5, <1>6 DEF Next, Calling

\* Every step keeps the events in order, and folds no event after a gap.
LEMMA GapNext ==
  ASSUME Typed, GapInv, [Next]_vars
  PROVE  /\ GapInv'
         /\ heard' # heard /\ ~heard'.fresh =>
              \/ heard.fresh \/ call.op = "select"
              \/ heard'.context = heard.context /\ heard'.n = heard.n + 1
  <1>1. CASE \E c \in Context : Runs(c) \/ Publish(c)
      BY <1>1, GapRuntime, RuntimeStep DEF screen
  <1>2. CASE \E c \in Context : Pump(c)
      BY <1>2, GapPump, PumpStep DEF screen
  <1>3. CASE \E c \in Context : HandleUpdate(c)
      BY <1>3, GapHandle
  <1>4. CASE EmitSends
      BY <1>4, GapSends
  <1>5. CASE \/ RequestSnapshot \/ Reconnect \/ (\E c \in Context : SelectProject(c))
             \/ EmitReads \/ GetSnapshot \/ ListArrives \/ SnapshotArrives
      BY <1>5, GapCalls
  <1>6. CASE UNCHANGED vars
    <2>1. UNCHANGED <<runtime, bridge, queue>>
        BY <1>6 DEF vars, backend
    <2>2. chosen' = chosen /\ heard' = heard /\ call' = call
        BY <1>6 DEF vars, asking, screen
    <2>3. \A d \in Context : /\ out(d)' = out(d) /\ Over(d)' = Over(d) /\ due(d)' = due(d)
                             /\ lagged'[d] = lagged[d] /\ ring'[d] = ring[d] /\ sent'[d] = sent[d]
        BY <2>1, BackendStill
    <2>4. \A d \in Context : Links(d)' /\ RingInOrder(d)'
        BY <2>3, OrderUnchanged DEF GapInv
    <2>5. PICK d \in Context : d = chosen
        BY ScreenTypes
    <2>6. HeardInv'
        BY <2>2, <2>3, <2>5, HeardUnchanged DEF GapInv
    <2> QED BY <2>2, <2>4, <2>6 DEF GapInv
  <1> QED BY <1>1, <1>2, <1>3, <1>4, <1>5, <1>6 DEF Next, Calling

-------------------------------------------------------------------------------
(* The bubble is emptied after a run that has ended.                             *)

\* An update that empties the bubble, and one that fills it.
Clears(u) ==
  \/ u.kind \in {"resync", "closed"}
  \/ u.kind = "event" /\ u.event.kind # "delta"
Feeds(u) == u.kind = "event" /\ u.event.kind = "delta"

\* Of what is to come from the runtime of c something will empty the bubble.
Clearing(c) ==
  Running(c) \/ lagged[c] \/ \E i \in DOMAIN ring[c] : ring[c][i].kind # "delta"

\* What is on its way, or in the ring, empties the bubble after filling it.
Emptied(o) == \E j \in DOMAIN o : Clears(o[j])
OutRetires(o) ==
  \A i \in DOMAIN o : Feeds(o[i]) => \E j \in DOMAIN o : i < j /\ Clears(o[j])
RingRetires(q) ==
  \A i \in DOMAIN q : q[i].kind = "delta" => \E j \in DOMAIN q : i < j /\ q[j].kind # "delta"

\* Whatever fills the bubble is followed by what empties it, once its run has ended.
Retiring(c) ==
  /\ Running(c) \/ RingRetires(ring[c])
  /\ Clearing(c) \/ OutRetires(out(c))
Bubbles(c) == bubble \subseteq left \/ Clearing(c) \/ Emptied(out(c))
BubbleInv == Bubbles(chosen) /\ \A c \in Context : Retiring(c)

\* What does not fill the bubble can come anywhere.
LEMMA RetiresInserted ==
  ASSUME NEW o \in Seq(Update), NEW r \in Seq(Update), NEW u,
         NEW i \in 1 .. Len(o) + 1, Inserted(o, r, i, u), ~Feeds(u)
  PROVE  /\ OutRetires(o) => OutRetires(r)
         /\ Emptied(o) => Emptied(r)
  <1>1. /\ DOMAIN o = 1 .. Len(o) /\ DOMAIN r = 1 .. Len(o) + 1 /\ Len(o) \in Nat
        /\ i \in DOMAIN r /\ r[i] = u
        /\ \A k \in DOMAIN o : \/ k < i /\ k \in DOMAIN r /\ r[k] = o[k]
                               \/ k >= i /\ k + 1 \in DOMAIN r /\ r[k + 1] = o[k]
        /\ \A k \in DOMAIN r : \/ k = i \/ (k < i /\ k \in DOMAIN o /\ r[k] = o[k])
                               \/ k > i /\ k - 1 \in DOMAIN o /\ r[k] = o[k - 1]
      BY InsertedIndex
  <1>2. ASSUME Emptied(o) PROVE Emptied(r)
    <2>1. PICK j \in DOMAIN o : Clears(o[j])
        BY <1>2 DEF Emptied
    <2>2. \E k \in DOMAIN r : r[k] = o[j]
        BY <1>1
    <2> QED BY <2>1, <2>2 DEF Emptied
  <1>3. ASSUME OutRetires(o), NEW k \in DOMAIN r, Feeds(r[k])
        PROVE  \E j \in DOMAIN r : k < j /\ Clears(r[j])
    <2>1. CASE k < i
      <3>1. k \in DOMAIN o /\ r[k] = o[k]
          BY <1>1, <2>1
      <3>2. PICK j \in DOMAIN o : k < j /\ Clears(o[j])
          BY <1>3, <3>1 DEF OutRetires
      <3>3. CASE j < i
          BY <1>1, <3>2, <3>3
      <3>4. CASE j >= i
        <4>1. j + 1 \in DOMAIN r /\ r[j + 1] = o[j] /\ k < j + 1
            BY <1>1, <3>2, <3>4
        <4> QED BY <3>2, <4>1
      <3> QED BY <1>1, <3>3, <3>4
    <2>2. CASE k > i
      <3>1. k - 1 \in DOMAIN o /\ r[k] = o[k - 1]
          BY <1>1, <2>2
      <3>2. PICK j \in DOMAIN o : k - 1 < j /\ Clears(o[j])
          BY <1>3, <3>1 DEF OutRetires
      <3>3. j >= i /\ k < j + 1
          BY <1>1, <2>2, <3>2
      <3>4. j + 1 \in DOMAIN r /\ r[j + 1] = o[j]
          BY <1>1, <3>3
      <3> QED BY <3>2, <3>3, <3>4
    <2>3. k # i
        BY <1>1, <1>3
    <2> QED BY <1>1, <2>1, <2>2, <2>3
  <1> QED BY <1>2, <1>3 DEF OutRetires

\* At the end comes what empties the bubble, or what something still follows.
LEMMA RetiresAppended ==
  ASSUME NEW o \in Seq(Update), NEW u \in Update, Clears(u)
  PROVE  OutRetires(Append(o, u)) /\ Emptied(Append(o, u))
  <1> DEFINE r == Append(o, u)
  <1>1. /\ DOMAIN r = 1 .. Len(o) + 1 /\ Len(o) \in Nat /\ r[Len(o) + 1] = u
      BY AppendedTo
  <1> HIDE DEF r
  <1>2. Emptied(r)
      BY <1>1 DEF Emptied
  <1>3. ASSUME NEW k \in DOMAIN r, Feeds(r[k])
        PROVE  \E j \in DOMAIN r : k < j /\ Clears(r[j])
    <2>1. ~Feeds(u)
        BY DEF Feeds, Clears
    <2>2. k # Len(o) + 1
        BY <1>1, <1>3, <2>1
    <2>3. k < Len(o) + 1 /\ Len(o) + 1 \in DOMAIN r
        BY <1>1, <2>2
    <2> QED BY <1>1, <2>3
  <1> QED BY <1>2, <1>3 DEF OutRetires, r

\* What fills the bubble leaves behind what will empty it.
LEMMA RetiresTail ==
  ASSUME NEW o \in Seq(Update), o # <<>>
  PROVE  /\ OutRetires(o) => OutRetires(Tail(o))
         /\ OutRetires(o) /\ Feeds(o[1]) => Emptied(Tail(o))
         /\ Emptied(o) /\ ~Clears(o[1]) => Emptied(Tail(o))
  <1> DEFINE r == Tail(o)
  <1>1. /\ 1 \in DOMAIN o /\ DOMAIN o = 1 .. Len(o) /\ Len(o) \in Nat \ {0}
        /\ \A k \in DOMAIN r : k \in Nat \ {0} /\ k + 1 \in DOMAIN o /\ r[k] = o[k + 1]
        /\ \A k \in DOMAIN o : k = 1 \/ (k > 1 /\ k - 1 \in DOMAIN r /\ r[k - 1] = o[k])
      BY TailIndex
  <1> HIDE DEF r
  <1>2. ASSUME OutRetires(o), NEW k \in DOMAIN r, Feeds(r[k])
        PROVE  \E j \in DOMAIN r : k < j /\ Clears(r[j])
    <2>1. PICK j \in DOMAIN o : k + 1 < j /\ Clears(o[j])
        BY <1>1, <1>2 DEF OutRetires
    <2>2. j - 1 \in DOMAIN r /\ r[j - 1] = o[j] /\ k < j - 1
        BY <1>1, <2>1
    <2> QED BY <2>1, <2>2
  <1>3. ASSUME OutRetires(o), Feeds(o[1]) PROVE Emptied(r)
    <2>1. PICK j \in DOMAIN o : 1 < j /\ Clears(o[j])
        BY <1>1, <1>3 DEF OutRetires
    <2>2. j - 1 \in DOMAIN r /\ r[j - 1] = o[j]
        BY <1>1, <2>1
    <2> QED BY <2>1, <2>2 DEF Emptied
  <1>4. ASSUME Emptied(o), ~Clears(o[1]) PROVE Emptied(r)
    <2>1. PICK j \in DOMAIN o : Clears(o[j])
        BY <1>4 DEF Emptied
    <2>2. j - 1 \in DOMAIN r /\ r[j - 1] = o[j]
        BY <1>1, <1>4, <2>1
    <2> QED BY <2>1, <2>2 DEF Emptied
  <1> QED BY <1>2, <1>3, <1>4 DEF OutRetires, r

\* The same of the ring, whose last event goes where the pump takes it.
LEMMA RingTail ==
  ASSUME NEW q \in Seq(Event), q # <<>>
  PROVE  /\ RingRetires(q) => RingRetires(Tail(q))
         /\ RingRetires(q) /\ q[1].kind = "delta"
              => \E j \in DOMAIN Tail(q) : Tail(q)[j].kind # "delta"
         /\ \A j \in DOMAIN q : q[j].kind # "delta" =>
              j = 1 \/ \E k \in DOMAIN Tail(q) : Tail(q)[k].kind # "delta"
  <1> DEFINE r == Tail(q)
  <1>1. /\ 1 \in DOMAIN q /\ DOMAIN q = 1 .. Len(q) /\ Len(q) \in Nat \ {0}
        /\ \A k \in DOMAIN r : k \in Nat \ {0} /\ k + 1 \in DOMAIN q /\ r[k] = q[k + 1]
        /\ \A k \in DOMAIN q : k = 1 \/ (k > 1 /\ k - 1 \in DOMAIN r /\ r[k - 1] = q[k])
    <2> HIDE DEF Event
    <2> QED BY TailIndex
  <1> HIDE DEF r
  <1>2. ASSUME RingRetires(q), NEW k \in DOMAIN r, r[k].kind = "delta"
        PROVE  \E j \in DOMAIN r : k < j /\ r[j].kind # "delta"
    <2>1. PICK j \in DOMAIN q : k + 1 < j /\ q[j].kind # "delta"
        BY <1>1, <1>2 DEF RingRetires
    <2>2. j - 1 \in DOMAIN r /\ r[j - 1] = q[j] /\ k < j - 1
        BY <1>1, <2>1
    <2> QED BY <2>1, <2>2
  <1>3. ASSUME NEW j \in DOMAIN q, q[j].kind # "delta", j # 1
        PROVE  \E k \in DOMAIN r : r[k].kind # "delta"
      BY <1>1, <1>3
  <1>4. ASSUME RingRetires(q), q[1].kind = "delta"
        PROVE  \E k \in DOMAIN r : r[k].kind # "delta"
    <2>1. PICK j \in DOMAIN q : 1 < j /\ q[j].kind # "delta"
        BY <1>1, <1>4 DEF RingRetires
    <2> QED BY <1>1, <1>3, <2>1
  <1> QED BY <1>2, <1>3, <1>4 DEF RingRetires, r

\* What empties the bubble is as it was.
LEMMA BubbleStill ==
  ASSUME NEW c \in Context, state'[c] = state[c], ring'[c] = ring[c], lagged'[c] = lagged[c]
  PROVE  /\ Clearing(c)' <=> Clearing(c)
         /\ Running(c)' <=> Running(c)
         /\ RingRetires(ring[c])' <=> RingRetires(ring[c])
  <1>1. Running(c)' <=> Running(c)
      BY DEF Running
  <1>2. lagged'[c] <=> lagged[c]
      OBVIOUS
  <1> QED BY <1>1, <1>2 DEF Clearing, RingRetires

\* The bubble is empty at the start.
LEMMA BubbleInit == Init => BubbleInv
  <1> SUFFICES ASSUME Init PROVE BubbleInv
      OBVIOUS
  <1>1. bubble = {}
      BY DEF Init
  <1>2. ASSUME NEW c \in Context PROVE Retiring(c)
    <2>1. out(c) = <<>> /\ ring[c] = <<>>
        BY DEF Init, out
    <2> QED BY <2>1 DEF Retiring, RingRetires, OutRetires
  <1> QED BY <1>1, <1>2 DEF BubbleInv, Bubbles

\* An event that a runtime broadcasts.
LEMMA RingStep ==
  ASSUME Typed, NEW c \in Context, NEW e \in Event, Broadcasts(c, e),
         e.kind = "delta" => Running(c)'
  PROVE  /\ Clearing(c) => Clearing(c)'
         /\ Running(c) \/ RingRetires(ring[c]) => Running(c)' \/ RingRetires(ring[c])'
         /\ Running(c) => Clearing(c)'
  <1> DEFINE q == ring[c]
             k == Append(q, e)
  <1>1. q \in Seq(Event) /\ Len(q) \in Nat
      BY ContextTypes
  <1>2. /\ k \in Seq(Event) /\ Len(k) = Len(q) + 1
        /\ DOMAIN q = 1 .. Len(q) /\ DOMAIN k = 1 .. Len(q) + 1
        /\ \A i \in 1 .. Len(q) : k[i] = q[i]
        /\ k[Len(q) + 1] = e
    <2> HIDE DEF Event
    <2> QED BY <1>1, AppendedTo
  <1> HIDE DEF k
  <1>3. \/ ring'[c] = k /\ lagged'[c] = lagged[c]
        \/ ring'[c] = Tail(k) /\ lagged'[c] = TRUE
      BY DEF Broadcasts, k
  <1> HIDE DEF q
  <1>4. ASSUME ~Running(c)' PROVE RingRetires(k)
    <2>1. e.kind # "delta"
        BY <1>4
    <2>2. ASSUME NEW i \in DOMAIN k, k[i].kind = "delta"
          PROVE  \E j \in DOMAIN k : i < j /\ k[j].kind # "delta"
      <3>1. i # Len(q) + 1
          BY <1>2, <2>1, <2>2
      <3>2. i < Len(q) + 1 /\ Len(q) + 1 \in DOMAIN k
          BY <1>1, <1>2, <3>1
      <3> QED BY <1>2, <2>1, <3>2
    <2> QED BY <2>2 DEF RingRetires
  <1>5. k # <<>>
      BY <1>1, <1>2
  <1>6. RingRetires(k) => RingRetires(Tail(k))
      BY <1>2, <1>5, RingTail
  <1>7. Running(c)' \/ RingRetires(ring'[c])
      BY <1>3, <1>4, <1>6
  <1>8. RingRetires(ring[c])' <=> RingRetires(ring'[c])
      BY DEF RingRetires
  <1>9. CASE ring'[c] = Tail(k) /\ lagged'[c] = TRUE
      BY <1>7, <1>8, <1>9 DEF Clearing
  <1>a. CASE ring'[c] = k /\ lagged'[c] = lagged[c]
    <2>1. ASSUME Running(c) PROVE Clearing(c)'
      <3>1. CASE e.kind = "delta"
          BY <3>1 DEF Clearing
      <3>2. CASE e.kind # "delta"
        <4>1. Len(q) + 1 \in DOMAIN k /\ k[Len(q) + 1].kind # "delta"
            BY <1>1, <1>2, <3>2
        <4> QED BY <1>a, <4>1 DEF Clearing
      <3> QED BY <3>1, <3>2
    <2>2. ASSUME lagged[c] PROVE Clearing(c)'
        BY <1>a, <2>2 DEF Clearing
    <2>3. ASSUME NEW i \in DOMAIN ring[c], ring[c][i].kind # "delta" PROVE Clearing(c)'
      <3>1. i \in DOMAIN k /\ k[i] = q[i] /\ q = ring[c]
          BY <1>1, <1>2, <2>3 DEF q
      <3> QED BY <1>a, <2>3, <3>1 DEF Clearing
    <2>4. Clearing(c) => Clearing(c)'
        BY <2>1, <2>2, <2>3 DEF Clearing
    <2> QED BY <1>7, <1>8, <2>1, <2>4
  <1> QED BY <1>3, <1>9, <1>a

\* A run that ends broadcasts its end, or is halted.
LEMMA BubbleRuntime ==
  ASSUME Typed, BubbleInv, NEW c \in Context, Runs(c) \/ Publish(c)
  PROVE  BubbleInv'
  <1>1. UNCHANGED <<seen, pump, queue, selected, asking, screen>>
      BY RuntimeStep
  <1>2. \A d \in Context : out(d)' = out(d)
      BY <1>1 DEF out
  <1>3. /\ Clearing(c) => Clearing(c)'
        /\ Running(c) \/ RingRetires(ring[c]) => Running(c)' \/ RingRetires(ring[c])'
    <2>1. CASE Quiet(c) /\ (Running(c) => Running(c)')
      <3>1. lagged'[c] <=> lagged[c]
          BY <2>1 DEF Quiet
      <3>2. ring'[c] = ring[c]
          BY <2>1 DEF Quiet
      <3> QED BY <2>1, <3>1, <3>2 DEF Clearing, RingRetires
    <2>2. CASE \E e \in Event : Broadcasts(c, e) /\ (e.kind = "delta" => Running(c)')
        BY <2>2, RingStep
    <2> QED BY <2>1, <2>2, RuntimeStep
  <1>4. ASSUME NEW d \in Context, d # c
        PROVE  /\ Clearing(d)' <=> Clearing(d)
               /\ Running(d)' <=> Running(d)
               /\ RingRetires(ring[d])' <=> RingRetires(ring[d])
    <2>1. state'[d] = state[d] /\ ring'[d] = ring[d] /\ lagged'[d] = lagged[d]
        BY <1>4, RuntimeStep
    <2> QED BY <2>1, BubbleStill
  <1>5. ASSUME NEW d \in Context
        PROVE  /\ OutRetires(out(d))' <=> OutRetires(out(d))
               /\ Emptied(out(d))' <=> Emptied(out(d))
      BY <1>2 DEF OutRetires, Emptied
  <1>6. ASSUME NEW d \in Context PROVE Retiring(d)' /\ (Bubbles(d) => Bubbles(d)')
    <2>1. Retiring(d) /\ bubble' = bubble /\ left' = left
        BY <1>1 DEF BubbleInv, screen
    <2>2. /\ Clearing(d) => Clearing(d)'
          /\ Running(d) \/ RingRetires(ring[d]) => Running(d)' \/ RingRetires(ring[d])'
        BY <1>3, <1>4
    <2>3. Retiring(d)'
        BY <1>5, <2>1, <2>2 DEF Retiring
    <2>4. Bubbles(d) => Bubbles(d)'
        BY <1>5, <2>1, <2>2 DEF Bubbles
    <2> QED BY <2>3, <2>4
  <1>7. Bubbles(chosen)'
    <2>1. PICK d \in Context : d = chosen
        BY ScreenTypes
    <2>2. chosen' = d
        BY <1>1, <2>1 DEF screen
    <2>3. Bubbles(d)'
        BY <1>6, <2>1 DEF BubbleInv
    <2> QED BY <2>2, <2>3 DEF Bubbles
  <1> QED BY <1>6, <1>7 DEF BubbleInv

\* A pump puts out what it takes, and a resync for what was dropped.
LEMMA BubblePump ==
  ASSUME Typed, BubbleInv, NEW c \in Context, Pump(c)
  PROVE  BubbleInv'
  <1>1. /\ UNCHANGED <<state, truth, sent, selected, asking, screen>>
        /\ \A d \in Context : d # c =>
             /\ out(d)' = out(d) /\ ring'[d] = ring[d] /\ lagged'[d] = lagged[d]
      BY PumpStep
  <1>2. /\ out(c) \in Seq(Update) /\ ring[c] \in Seq(Event) /\ truth[c] \in Snapshot
        /\ Retiring(c)
      BY ContextTypes DEF BubbleInv
  <1>3. Running(c)' <=> Running(c)
      BY <1>1 DEF Running
  <1> DEFINE Goes == /\ Running(c) \/ RingRetires(ring'[c])
                     /\ Clearing(c)' \/ OutRetires(out(c)')
                     /\ Clearing(c) \/ Emptied(out(c)) => Clearing(c)' \/ Emptied(out(c)')
  <1>4. ASSUME out(c)' = out(c), ring'[c] = ring[c], lagged'[c] = lagged[c]
        PROVE  Goes
    <2>1. lagged'[c] <=> lagged[c]
        BY <1>4
    <2>2. Clearing(c)' <=> Clearing(c)
        BY <1>3, <1>4, <2>1 DEF Clearing
    <2> QED BY <1>2, <1>4, <2>2 DEF Retiring
  <1>5. ASSUME PutsOut(c, Taken(truth[c])), ring'[c] = ring[c], lagged'[c] = lagged[c]
        PROVE  Goes
    <2>1. Taken(truth[c]) \in Update /\ ~Feeds(Taken(truth[c]))
        BY <1>2, Updates DEF Taken, Feeds
    <2>2. /\ out(c)' \in Seq(Update) /\ Len(out(c)) + 1 \in 1 .. Len(out(c)) + 1
          /\ Inserted(out(c), out(c)', Len(out(c)) + 1, Taken(truth[c]))
        BY <1>2, <1>5, <2>1, AppendInserts DEF PutsOut
    <2>3. /\ OutRetires(out(c)) => OutRetires(out(c)')
          /\ Emptied(out(c)) => Emptied(out(c)')
        BY <1>2, <2>1, <2>2, RetiresInserted
    <2>4. lagged'[c] <=> lagged[c]
        BY <1>5
    <2>5. Clearing(c)' <=> Clearing(c)
        BY <1>3, <1>5, <2>4 DEF Clearing
    <2> QED BY <1>2, <1>5, <2>3, <2>5 DEF Retiring
  <1>6. ASSUME NEW u \in Update, PutsOut(c, u), Clears(u), ring'[c] = ring[c]
        PROVE  Goes
    <2>1. OutRetires(out(c)') /\ Emptied(out(c)')
        BY <1>2, <1>6, RetiresAppended DEF PutsOut
    <2> QED BY <1>2, <1>6, <2>1 DEF Retiring
  <1>7. ASSUME TakesEvent(c) PROVE Goes
    <2>1. /\ ring[c] # <<>> /\ ring'[c] = Tail(ring[c])
          /\ out(c)' = Append(out(c), Heard(Head(ring[c])))
        BY <1>7 DEF TakesEvent, PutsOut
    <2>2. Head(ring[c]) = ring[c][1] /\ Head(ring[c]) \in Event /\ 1 \in DOMAIN ring[c]
      <3> HIDE DEF Event
      <3> QED BY <1>2, <2>1, TailIndex
    <2>3. /\ RingRetires(ring[c]) => RingRetires(ring'[c])
          /\ RingRetires(ring[c]) /\ ring[c][1].kind = "delta"
               => \E j \in DOMAIN ring'[c] : ring'[c][j].kind # "delta"
      <3> HIDE DEF Event
      <3> QED BY <1>2, <2>1, RingTail
    <2>4. Running(c) \/ RingRetires(ring'[c])
        BY <1>2, <2>3 DEF Retiring
    <2>5. CASE ring[c][1].kind = "delta"
        BY <1>2, <1>3, <2>3, <2>4, <2>5 DEF Retiring, Clearing
    <2>6. CASE ring[c][1].kind # "delta"
      <3>1. Heard(Head(ring[c])) \in Update /\ Clears(Heard(Head(ring[c])))
          BY <2>2, <2>6, Updates DEF Heard, Clears
      <3>2. OutRetires(out(c)') /\ Emptied(out(c)')
          BY <1>2, <2>1, <3>1, RetiresAppended
      <3> QED BY <2>4, <3>2
    <2> QED BY <2>5, <2>6
  <1>8. Goes
    <2> HIDE DEF Goes
    <2>1. Resync(truth[c]) \in Update /\ Clears(Resync(truth[c]))
        BY <1>2, Updates DEF Resync, Clears
    <2>2. Closed \in Update /\ Clears(Closed)
        BY Updates DEF Closed, Clears
    <2>3. \/ out(c)' = out(c) /\ ring'[c] = ring[c] /\ lagged'[c] = lagged[c]
          \/ PutsOut(c, Taken(truth[c])) /\ ring'[c] = ring[c] /\ lagged'[c] = lagged[c]
          \/ TakesEvent(c)
          \/ PutsOut(c, Resync(truth[c])) /\ ring'[c] = ring[c]
          \/ PutsOut(c, Closed) /\ ring'[c] = ring[c]
        BY PumpStep
    <2> QED BY <1>4, <1>5, <1>6, <1>7, <2>1, <2>2, <2>3
  <1>9. ASSUME NEW d \in Context PROVE Retiring(d)' /\ (Bubbles(d) => Bubbles(d)')
    <2>1. bubble' = bubble /\ left' = left /\ Retiring(d)
        BY <1>1 DEF screen, BubbleInv
    <2>2. CASE d = c
      <3>1. Retiring(c)'
          BY <1>3, <1>8 DEF Retiring, RingRetires, OutRetires
      <3>2. Bubbles(c) => Bubbles(c)'
          BY <1>8, <2>1 DEF Bubbles, Emptied
      <3> QED BY <2>2, <3>1, <3>2
    <2>3. CASE d # c
      <3>1. state'[d] = state[d] /\ ring'[d] = ring[d] /\ lagged'[d] = lagged[d] /\ out(d)' = out(d)
          BY <1>1, <2>3
      <3>2. /\ Clearing(d)' <=> Clearing(d)
            /\ Running(d)' <=> Running(d)
            /\ RingRetires(ring[d])' <=> RingRetires(ring[d])
          BY <3>1, BubbleStill
      <3> QED BY <2>1, <3>1, <3>2 DEF Retiring, Bubbles, OutRetires, Emptied
    <2> QED BY <2>2, <2>3
  <1>a. Bubbles(chosen)'
    <2>1. PICK d \in Context : d = chosen
        BY ScreenTypes
    <2>2. chosen' = d
        BY <1>1, <2>1 DEF screen
    <2>3. Bubbles(d)'
        BY <1>9, <2>1 DEF BubbleInv
    <2> QED BY <2>2, <2>3 DEF Bubbles
  <1> QED BY <1>9, <1>a DEF BubbleInv

\* The client takes what empties the bubble, or what is followed by it.
LEMMA BubbleHandle ==
  ASSUME Typed, BubbleInv, NEW c \in Context, HandleUpdate(c)
  PROVE  BubbleInv'
  <1> DEFINE u == out(c)[1]
  <1>1. /\ UNCHANGED <<runtime, bridge, selected, call, calls, chosen, left>>
        /\ \A d \in Context : d # c => out(d)' = out(d)
        /\ out(c) # <<>> /\ out(c)' = Tail(out(c)) /\ u \in Update
      BY HandleStep
  <1>2. \/ c # chosen /\ bubble' = bubble
        \/ c = chosen /\ bubble' = {}
        \/ c = chosen /\ Feeds(u)
        \/ c = chosen /\ bubble' = bubble /\ ~Clears(u)
    <2>1. \/ c # chosen /\ UNCHANGED <<shown, bubble, heard, overtaken>>
          \/ /\ c = chosen /\ u.kind \in {"snapshot", "resync"} /\ Shows(u.snapshot)
             /\ bubble' = {} \/ (bubble' = bubble /\ u.kind = "snapshot")
          \/ /\ c = chosen /\ u.kind = "event" /\ UNCHANGED <<shown, overtaken>>
             /\ heard' = [context |-> c, n |-> u.event.n, fresh |-> FALSE]
             /\ bubble' = {} \/ u.event.kind = "delta"
          \/ /\ c = chosen /\ u.kind = "closed" /\ bubble' = {}
             /\ UNCHANGED <<shown, heard, overtaken>>
        BY HandleStep
    <2> HIDE DEF u
    <2> QED BY <2>1 DEF Feeds, Clears
  <1>3. \A d \in Context : /\ Clearing(d)' <=> Clearing(d)
                           /\ Running(d)' <=> Running(d)
                           /\ RingRetires(ring[d])' <=> RingRetires(ring[d])
      BY <1>1, BubbleStill DEF runtime, bridge
  <1>4. out(c) \in Seq(Update) /\ Retiring(c)
      BY ContextTypes DEF BubbleInv
  <1>5. /\ OutRetires(out(c)) => OutRetires(out(c)')
        /\ OutRetires(out(c)) /\ Feeds(u) => Emptied(out(c)')
        /\ Emptied(out(c)) /\ ~Clears(u) => Emptied(out(c)')
      BY <1>1, <1>4, RetiresTail
  <1> HIDE DEF u
  <1>6. Retiring(c)'
      BY <1>3, <1>4, <1>5 DEF Retiring, OutRetires
  <1>7. ASSUME NEW d \in Context, d # c
        PROVE  Retiring(d)' /\ (bubble' = bubble /\ Bubbles(d) => Bubbles(d)')
    <2>1. out(d)' = out(d) /\ Retiring(d) /\ left' = left
        BY <1>1, <1>7 DEF BubbleInv
    <2> QED BY <1>3, <2>1 DEF Retiring, Bubbles, OutRetires, Emptied
  <1>8. Bubbles(chosen)'
    <2>1. PICK d \in Context : d = chosen
        BY ScreenTypes
    <2>2. chosen' = d /\ left' = left /\ Bubbles(d)
        BY <1>1, <2>1 DEF BubbleInv
    <2>3. Bubbles(d)'
      <3>1. CASE c # chosen /\ bubble' = bubble
          BY <1>7, <2>1, <2>2, <3>1
      <3>2. CASE bubble' = {}
          BY <3>2 DEF Bubbles
      <3>3. CASE c = chosen /\ Feeds(u)
          BY <1>3, <1>4, <1>5, <2>1, <3>3 DEF Bubbles, Retiring, Emptied
      <3>4. CASE c = chosen /\ bubble' = bubble /\ ~Clears(u)
          BY <1>3, <1>5, <2>1, <2>2, <3>4 DEF Bubbles, Emptied
      <3> QED BY <1>2, <3>1, <3>2, <3>3, <3>4
    <2> QED BY <2>2, <2>3 DEF Bubbles
  <1> QED BY <1>6, <1>7, <1>8 DEF BubbleInv

\* An answer leaves the bubble to the updates around it.
LEMMA BubbleSends ==
  ASSUME Typed, BubbleInv, EmitSends
  PROVE  BubbleInv'
  <1>1. PICK t \in Context : t = call.to
      BY ScreenTypes
  <1>2. /\ UNCHANGED <<runtime, bridge, selected, screen>>
        /\ \A d \in Context : d # t => out(d)' = out(d)
        /\ Taken(call.snapshot) \in Update /\ out(t)' \in Seq(Update)
      BY <1>1, EmitSendsStep
  <1>3. PICK i \in 1 .. Len(out(t)) + 1 :
          Inserted(out(t), out(t)', i, Taken(call.snapshot))
      BY <1>1, EmitSendsStep
  <1>4. ~Feeds(Taken(call.snapshot)) /\ out(t) \in Seq(Update)
      BY ContextTypes DEF Feeds, Taken
  <1>5. /\ OutRetires(out(t)) => OutRetires(out(t)')
        /\ Emptied(out(t)) => Emptied(out(t)')
      BY <1>2, <1>3, <1>4, RetiresInserted
  <1>6. \A d \in Context : /\ Clearing(d)' <=> Clearing(d)
                           /\ Running(d)' <=> Running(d)
                           /\ RingRetires(ring[d])' <=> RingRetires(ring[d])
      BY <1>2, BubbleStill DEF runtime, bridge
  <1>7. ASSUME NEW d \in Context PROVE Retiring(d)' /\ (Bubbles(d) => Bubbles(d)')
    <2>1. bubble' = bubble /\ left' = left /\ Retiring(d)
        BY <1>2 DEF screen, BubbleInv
    <2>2. CASE d = t
        BY <1>5, <1>6, <2>1, <2>2 DEF Retiring, Bubbles, OutRetires, Emptied
    <2>3. CASE d # t
      <3>1. out(d)' = out(d)
          BY <1>2, <2>3
      <3> QED BY <1>6, <2>1, <3>1 DEF Retiring, Bubbles, OutRetires, Emptied
    <2> QED BY <2>2, <2>3
  <1>8. Bubbles(chosen)'
    <2>1. PICK d \in Context : d = chosen
        BY ScreenTypes
    <2>2. chosen' = d
        BY <1>2, <2>1 DEF screen
    <2>3. Bubbles(d)'
        BY <1>7, <2>1 DEF BubbleInv
    <2> QED BY <2>2, <2>3 DEF Bubbles
  <1> QED BY <1>7, <1>8 DEF BubbleInv

\* Nothing moves in the backend, and a project that is left takes its bubble along.
LEMMA BubbleLeft ==
  ASSUME Typed, BubbleInv, UNCHANGED <<runtime, bridge, queue>>, bubble' = bubble,
         (chosen' = chosen /\ left' = left) \/ bubble \subseteq left'
  PROVE  BubbleInv'
  <1>1. \A d \in Context : state'[d] = state[d] /\ ring'[d] = ring[d] /\ lagged'[d] = lagged[d]
                           /\ out(d)' = out(d)
      BY BackendStill
  <1>2. \A d \in Context : /\ Clearing(d)' <=> Clearing(d)
                           /\ Running(d)' <=> Running(d)
                           /\ RingRetires(ring[d])' <=> RingRetires(ring[d])
      BY <1>1, BubbleStill
  <1>3. ASSUME NEW d \in Context
        PROVE  Retiring(d)' /\ (left' = left /\ Bubbles(d) => Bubbles(d)')
    <2>1. Retiring(d) /\ out(d)' = out(d)
        BY <1>1 DEF BubbleInv
    <2> QED BY <1>2, <2>1 DEF Retiring, Bubbles, OutRetires, Emptied
  <1>4. Bubbles(chosen)'
    <2>1. CASE bubble \subseteq left'
        BY <2>1 DEF Bubbles
    <2>2. CASE chosen' = chosen /\ left' = left
      <3>1. PICK d \in Context : d = chosen
          BY ScreenTypes
      <3>2. Bubbles(d)'
          BY <1>3, <2>2, <3>1 DEF BubbleInv
      <3> QED BY <2>2, <3>1, <3>2 DEF Bubbles
    <2> QED BY <2>1, <2>2
  <1> QED BY <1>3, <1>4 DEF BubbleInv

\* Every step keeps what will empty the bubble.
LEMMA BubbleNext == Typed /\ BubbleInv /\ [Next]_vars => BubbleInv'
  <1> SUFFICES ASSUME Typed, BubbleInv, [Next]_vars PROVE BubbleInv'
      OBVIOUS
  <1>1. CASE \E c \in Context : Runs(c) \/ Publish(c)
      BY <1>1, BubbleRuntime
  <1>2. CASE \E c \in Context : Pump(c)
      BY <1>2, BubblePump
  <1>3. CASE \E c \in Context : HandleUpdate(c)
      BY <1>3, BubbleHandle
  <1>4. CASE EmitSends
      BY <1>4, BubbleSends
  <1>5. CASE RequestSnapshot \/ Reconnect \/ (\E c \in Context : SelectProject(c))
      BY <1>5, AskStep, BubbleLeft DEF screen
  <1>6. CASE EmitReads
      BY <1>6, EmitReadsStep, BubbleLeft DEF screen
  <1>7. CASE GetSnapshot
      BY <1>7, GetSnapshotStep, BubbleLeft DEF screen
  <1>8. CASE SnapshotArrives
      BY <1>8, AnswerStep, BubbleLeft
  <1>9. CASE ListArrives
    <2>1. /\ UNCHANGED <<runtime, bridge, queue, selected>> /\ chosen' = selected
          /\ bubble' = bubble
          /\ left' = IF chosen = selected THEN left ELSE left \union bubble
        BY <1>9, ListStep
    <2>2. (chosen' = chosen /\ left' = left) \/ bubble \subseteq left'
        BY <2>1
    <2> QED BY <2>1, <2>2, BubbleLeft
  <1>a. CASE UNCHANGED vars
      BY <1>a, BubbleLeft DEF vars, backend, screen
  <1> QED BY <1>1, <1>2, <1>3, <1>4, <1>5, <1>6, <1>7, <1>8, <1>9, <1>a DEF Next, Calling

\* When nothing is to come, the bubble holds only what was left in it.
LEMMA BubbleInvGivesRetired == Typed /\ BubbleInv => BubbleIsRetired
  <1> SUFFICES ASSUME Typed, BubbleInv, Delivered, ~state[chosen].active, ~state[chosen].halted
               PROVE  bubble \subseteq left
      BY DEF BubbleIsRetired
  <1>1. chosen \in Context
      BY ScreenTypes
  <1>2. /\ queue[chosen] = <<>> /\ pump[chosen].at = "select" /\ ring[chosen] = <<>>
        /\ ~lagged[chosen]
      BY <1>1 DEF Delivered
  <1>3. out(chosen) = <<>>
      BY <1>2 DEF out
  <1>4. ~Clearing(chosen)
      BY <1>2 DEF Clearing, Running
  <1>5. ~Emptied(out(chosen))
      BY <1>3 DEF Emptied
  <1> QED BY <1>4, <1>5 DEF BubbleInv, Bubbles
-------------------------------------------------------------------------------
(* The screen is current once everything is delivered.                           *)

\* An update that carries a snapshot.
IsSnapshot(u) == u.kind \in {"snapshot", "resync"}

\* s is what the watch held, now or earlier, if it holds t.
Reads(s, t) == s.context = t.context /\ s.version <= t.version /\ (s.version = t.version => s = t)
SeqReads(o, t) == \A i \in DOMAIN o : IsSnapshot(o[i]) => Reads(o[i].snapshot, t)

\* A snapshot older than the version v that the pump has seen, and one that is not.
LateOf(u, v) == IsSnapshot(u) /\ u.snapshot.version < v
FreshOf(u, v) == IsSnapshot(u) /\ u.snapshot.version >= v

\* Behind i there is a snapshot that is not late, or none that is.
Covers(o, i, v) == \E k \in DOMAIN o : i < k /\ FreshOf(o[k], v)
NoLate(o, i, v) == \A j \in DOMAIN o : i < j => ~LateOf(o[j], v)

\* A late snapshot is followed by one that is not late, or is the last late one.
AllCovered(o, v) == \A i \in DOMAIN o : LateOf(o[i], v) => Covers(o, i, v)
AllSettled(o, v) == \A i \in DOMAIN o : LateOf(o[i], v) => Covers(o, i, v) \/ NoLate(o, i, v)

\* A reading stays one when the watch moves on.
LEMMA ReadsMoves ==
  ASSUME NEW s \in Snapshot, NEW t \in Snapshot, NEW t2 \in Snapshot, Reads(s, t),
         t2 = t \/ (t2.context = t.context /\ t2.version = t.version + 1)
  PROVE  Reads(s, t2)
  <1>1. s.version \in Versions /\ t.version \in Versions
      BY DEF Snapshot
  <1>2. Versions \subseteq Nat
      BY Numbers
  <1>3. s.version \in Nat /\ t.version \in Nat
      BY <1>1, <1>2
  <1> QED BY <1>3 DEF Reads

\* A snapshot on its way has a version.
LEMMA VersionOf ==
  ASSUME NEW u \in Update, IsSnapshot(u)
  PROVE  u.snapshot \in Snapshot /\ u.snapshot.version \in Nat
  <1>1. u.snapshot \in Snapshot
      BY Updates DEF IsSnapshot
  <1>2. u.snapshot.version \in Versions
      BY <1>1 DEF Snapshot
  <1> QED BY <1>1, <1>2, Numbers

\* It is late or it is not.
LEMMA LateOrFresh ==
  ASSUME NEW u \in Update, NEW v \in Nat
  PROVE  ~(LateOf(u, v) /\ FreshOf(u, v)) /\ (IsSnapshot(u) => LateOf(u, v) \/ FreshOf(u, v))
  BY VersionOf DEF LateOf, FreshOf

\* A reading can come anywhere.
LEMMA ReadsInserted ==
  ASSUME NEW o \in Seq(Update), NEW r \in Seq(Update), NEW u, NEW t,
         NEW i \in 1 .. Len(o) + 1, Inserted(o, r, i, u), SeqReads(o, t),
         IsSnapshot(u) => Reads(u.snapshot, t)
  PROVE  SeqReads(r, t)
  <1>1. /\ r[i] = u
        /\ \A k \in DOMAIN r : \/ k = i \/ (k < i /\ k \in DOMAIN o /\ r[k] = o[k])
                               \/ k > i /\ k - 1 \in DOMAIN o /\ r[k] = o[k - 1]
      BY InsertedIndex
  <1> QED BY <1>1 DEF SeqReads

\* What is taken was a reading.
LEMMA ReadsTail ==
  ASSUME NEW o \in Seq(Update), o # <<>>, NEW t, SeqReads(o, t)
  PROVE  SeqReads(Tail(o), t) /\ (IsSnapshot(o[1]) => Reads(o[1].snapshot, t))
  <1>1. /\ 1 \in DOMAIN o
        /\ \A k \in DOMAIN Tail(o) : k + 1 \in DOMAIN o /\ Tail(o)[k] = o[k + 1]
      BY TailIndex
  <1> QED BY <1>1 DEF SeqReads

\* A snapshot may come ahead of the last one if what is behind it covers it.
LEMMA LateInserted ==
  ASSUME NEW o \in Seq(Update), NEW r \in Seq(Update), NEW u \in Update, NEW v \in Nat,
         NEW i \in 1 .. Len(o) + 1, Inserted(o, r, i, u)
  PROVE  /\ Covers(o, 0, v) => Covers(r, 0, v)
         /\ ~LateOf(u, v) /\ AllCovered(o, v) => AllCovered(r, v)
         /\ ~LateOf(u, v) /\ AllSettled(o, v) => AllSettled(r, v)
         /\ ~LateOf(u, v) /\ NoLate(o, 0, v) => NoLate(r, 0, v)
         /\ AllCovered(o, v) => AllSettled(r, v)
  <1>1. /\ DOMAIN o = 1 .. Len(o) /\ DOMAIN r = 1 .. Len(o) + 1 /\ Len(o) \in Nat
        /\ i \in DOMAIN r /\ r[i] = u
        /\ \A k \in DOMAIN o : \/ k < i /\ k \in DOMAIN r /\ r[k] = o[k]
                               \/ k >= i /\ k + 1 \in DOMAIN r /\ r[k + 1] = o[k]
        /\ \A k \in DOMAIN r : \/ k = i \/ (k < i /\ k \in DOMAIN o /\ r[k] = o[k])
                               \/ k > i /\ k - 1 \in DOMAIN o /\ r[k] = o[k - 1]
      BY InsertedIndex
  \* Where an element of r comes from, what covers it there covers it here.
  <1>2. ASSUME NEW k \in DOMAIN r, NEW m \in DOMAIN o, Covers(o, m, v),
               (k = m /\ k < i) \/ (k = m + 1 /\ m >= i) \/ (k = i /\ m >= i)
        PROVE  Covers(r, k, v)
    <2>1. PICK j \in DOMAIN o : m < j /\ FreshOf(o[j], v)
        BY <1>2 DEF Covers
    <2>2. CASE j < i
      <3>1. j \in DOMAIN r /\ r[j] = o[j] /\ k < j
          BY <1>1, <1>2, <2>1, <2>2
      <3> QED BY <2>1, <3>1 DEF Covers
    <2>3. CASE j >= i
      <3>1. j + 1 \in DOMAIN r /\ r[j + 1] = o[j]
          BY <1>1, <2>3
      <3>2. k < j + 1
          BY <1>1, <1>2, <2>1, <2>3
      <3> QED BY <2>1, <3>1, <3>2 DEF Covers
    <2> QED BY <1>1, <2>2, <2>3
  <1>3. ASSUME Covers(o, 0, v) PROVE Covers(r, 0, v)
    <2>1. PICK j \in DOMAIN o : FreshOf(o[j], v)
        BY <1>3 DEF Covers
    <2>2. PICK k \in DOMAIN r : r[k] = o[j]
        BY <1>1
    <2>3. 0 < k
        BY <1>1
    <2> QED BY <2>1, <2>2, <2>3 DEF Covers
  <1>4. ASSUME NEW k \in DOMAIN r, k # i
        PROVE  \E m \in DOMAIN o : r[k] = o[m] /\ ((k = m /\ k < i) \/ (k = m + 1 /\ m >= i))
    <2>1. CASE k < i
        BY <1>1, <2>1
    <2>2. CASE k > i
      <3>1. k - 1 \in DOMAIN o /\ r[k] = o[k - 1] /\ k = (k - 1) + 1 /\ k - 1 >= i
          BY <1>1, <2>2
      <3> QED BY <3>1
    <2> QED BY <1>1, <1>4, <2>1, <2>2
  <1>5. ASSUME ~LateOf(u, v), AllCovered(o, v) PROVE AllCovered(r, v)
    <2>1. ASSUME NEW k \in DOMAIN r, LateOf(r[k], v) PROVE Covers(r, k, v)
      <3>1. k # i
          BY <1>1, <1>5, <2>1
      <3>2. PICK m \in DOMAIN o :
              r[k] = o[m] /\ ((k = m /\ k < i) \/ (k = m + 1 /\ m >= i))
          BY <1>4, <3>1
      <3>3. Covers(o, m, v)
          BY <1>5, <2>1, <3>2 DEF AllCovered
      <3> QED BY <1>2, <3>2, <3>3
    <2> QED BY <2>1 DEF AllCovered
  <1>6. ASSUME ~LateOf(u, v), AllSettled(o, v) PROVE AllSettled(r, v)
    <2>1. ASSUME NEW k \in DOMAIN r, LateOf(r[k], v), ~Covers(r, k, v) PROVE NoLate(r, k, v)
      <3>1. k # i
          BY <1>1, <1>6, <2>1
      <3>2. PICK m \in DOMAIN o :
              r[k] = o[m] /\ ((k = m /\ k < i) \/ (k = m + 1 /\ m >= i))
          BY <1>4, <3>1
      <3>3. ~Covers(o, m, v)
          BY <1>2, <2>1, <3>2
      <3>4. NoLate(o, m, v)
          BY <1>6, <2>1, <3>2, <3>3 DEF AllSettled
      <3>5. ASSUME NEW j \in DOMAIN r, k < j PROVE ~LateOf(r[j], v)
        <4>1. CASE j = i
            BY <1>1, <1>6, <4>1
        <4>2. CASE j # i
          <5>1. PICK n \in DOMAIN o :
                  r[j] = o[n] /\ ((j = n /\ j < i) \/ (j = n + 1 /\ n >= i))
              BY <1>4, <4>2
          <5>2. m < n
              BY <1>1, <3>2, <3>5, <5>1
          <5> QED BY <3>4, <5>1, <5>2 DEF NoLate
        <4> QED BY <4>1, <4>2
      <3> QED BY <3>5 DEF NoLate
    <2> QED BY <2>1 DEF AllSettled
  <1>7. ASSUME ~LateOf(u, v), NoLate(o, 0, v) PROVE NoLate(r, 0, v)
    <2>1. ASSUME NEW k \in DOMAIN r PROVE ~LateOf(r[k], v)
      <3>1. CASE k = i
          BY <1>1, <1>7, <3>1
      <3>2. CASE k # i
        <4>1. PICK m \in DOMAIN o : r[k] = o[m]
            BY <1>4, <3>2
        <4>2. 0 < m
            BY <1>1
        <4> QED BY <1>7, <4>1, <4>2 DEF NoLate
      <3> QED BY <3>1, <3>2
    <2> QED BY <2>1 DEF NoLate
  <1>8. ASSUME AllCovered(o, v) PROVE AllSettled(r, v)
    <2>1. ASSUME NEW k \in DOMAIN r, LateOf(r[k], v), ~Covers(r, k, v) PROVE NoLate(r, k, v)
      <3>1. k = i
        <4>1. SUFFICES ASSUME k # i PROVE FALSE
            OBVIOUS
        <4>2. PICK m \in DOMAIN o :
                r[k] = o[m] /\ ((k = m /\ k < i) \/ (k = m + 1 /\ m >= i))
            BY <1>4, <4>1
        <4>3. Covers(o, m, v)
            BY <1>8, <2>1, <4>2 DEF AllCovered
        <4> QED BY <1>2, <2>1, <4>2, <4>3
      <3>2. ASSUME NEW j \in DOMAIN r, k < j, LateOf(r[j], v) PROVE FALSE
        <4>1. j # i
            BY <1>1, <3>1, <3>2
        <4>2. PICK n \in DOMAIN o :
                r[j] = o[n] /\ ((j = n /\ j < i) \/ (j = n + 1 /\ n >= i))
            BY <1>4, <4>1
        <4>3. n >= i
            BY <1>1, <3>1, <3>2, <4>2
        <4>4. Covers(o, n, v)
            BY <1>8, <3>2, <4>2 DEF AllCovered
        <4> QED BY <1>2, <2>1, <3>1, <4>3, <4>4
      <3> QED BY <3>2 DEF NoLate
    <2> QED BY <2>1 DEF AllSettled
  <1> QED BY <1>3, <1>5, <1>6, <1>7, <1>8

\* A snapshot that the pump has just seen covers every other.
LEMMA FreshAppended ==
  ASSUME NEW o \in Seq(Update), NEW u \in Update, NEW v \in Nat, FreshOf(u, v)
  PROVE  LET r == Append(o, u)
         IN  AllCovered(r, v) /\ AllSettled(r, v) /\ Covers(r, 0, v)
  <1> DEFINE r == Append(o, u)
  <1>1. DOMAIN r = 1 .. Len(o) + 1 /\ Len(o) \in Nat /\ r[Len(o) + 1] = u
      BY AppendedTo
  <1> HIDE DEF r
  <1>2. ~LateOf(u, v)
      BY LateOrFresh
  <1>3. ASSUME NEW k \in DOMAIN r, LateOf(r[k], v) PROVE Covers(r, k, v)
    <2>1. k # Len(o) + 1
        BY <1>1, <1>2, <1>3
    <2>2. k < Len(o) + 1 /\ Len(o) + 1 \in DOMAIN r
        BY <1>1, <2>1
    <2> QED BY <1>1, <2>2 DEF Covers
  <1>4. Covers(r, 0, v)
    <2>1. 0 < Len(o) + 1 /\ Len(o) + 1 \in DOMAIN r
        BY <1>1
    <2> QED BY <1>1, <2>1 DEF Covers
  <1> QED BY <1>3, <1>4 DEF AllCovered, AllSettled, r

\* Taking the first update leaves what covers the others.
LEMMA LateTail ==
  ASSUME NEW o \in Seq(Update), o # <<>>, NEW v \in Nat
  PROVE  LET r == Tail(o)
         IN  /\ AllCovered(o, v) => AllCovered(r, v)
             /\ AllSettled(o, v) => AllSettled(r, v)
             /\ Covers(o, 0, v) => FreshOf(o[1], v) \/ Covers(r, 0, v)
             /\ LateOf(o[1], v) /\ AllCovered(o, v) => Covers(r, 0, v)
             /\ LateOf(o[1], v) /\ AllSettled(o, v) => Covers(r, 0, v) \/ NoLate(r, 0, v)
             /\ NoLate(o, 0, v) => NoLate(r, 0, v) /\ ~LateOf(o[1], v)
  <1> DEFINE r == Tail(o)
  <1>1. /\ 1 \in DOMAIN o /\ DOMAIN o = 1 .. Len(o) /\ Len(o) \in Nat \ {0}
        /\ \A k \in DOMAIN r : k \in Nat \ {0} /\ k + 1 \in DOMAIN o /\ r[k] = o[k + 1]
        /\ \A k \in DOMAIN o : k = 1 \/ (k > 1 /\ k - 1 \in DOMAIN r /\ r[k - 1] = o[k])
      BY TailIndex
  <1> HIDE DEF r
  <1>2. ASSUME NEW k \in Nat, Covers(o, k + 1, v) PROVE Covers(r, k, v)
    <2>1. PICK j \in DOMAIN o : k + 1 < j /\ FreshOf(o[j], v)
        BY <1>2 DEF Covers
    <2>2. j - 1 \in DOMAIN r /\ r[j - 1] = o[j] /\ k < j - 1
        BY <1>1, <2>1
    <2> QED BY <2>1, <2>2 DEF Covers
  <1>3. ASSUME NEW k \in Nat, NoLate(o, k + 1, v) PROVE NoLate(r, k, v)
    <2>1. ASSUME NEW j \in DOMAIN r, k < j PROVE ~LateOf(r[j], v)
      <3>1. j + 1 \in DOMAIN o /\ r[j] = o[j + 1] /\ k + 1 < j + 1
          BY <1>1, <2>1
      <3> QED BY <1>3, <3>1 DEF NoLate
    <2> QED BY <2>1 DEF NoLate
  <1>4. AllCovered(o, v) => AllCovered(r, v)
      BY <1>1, <1>2 DEF AllCovered
  <1>5. AllSettled(o, v) => AllSettled(r, v)
      BY <1>1, <1>2, <1>3 DEF AllSettled
  <1>6. ASSUME Covers(o, 0, v), ~FreshOf(o[1], v) PROVE Covers(r, 0, v)
    <2>1. PICK j \in DOMAIN o : FreshOf(o[j], v)
        BY <1>6 DEF Covers
    <2>2. j # 1
        BY <1>6, <2>1
    <2>3. 0 + 1 < j
        BY <1>1, <2>2
    <2>4. Covers(o, 0 + 1, v)
        BY <2>1, <2>3 DEF Covers
    <2> QED BY <1>2, <2>4
  <1>7. /\ LateOf(o[1], v) /\ AllCovered(o, v) => Covers(r, 0, v)
        /\ LateOf(o[1], v) /\ AllSettled(o, v) => Covers(r, 0, v) \/ NoLate(r, 0, v)
    <2>1. /\ LateOf(o[1], v) /\ AllCovered(o, v) => Covers(o, 0 + 1, v)
          /\ LateOf(o[1], v) /\ AllSettled(o, v) => Covers(o, 0 + 1, v) \/ NoLate(o, 0 + 1, v)
        BY <1>1, 0 + 1 = 1 DEF AllCovered, AllSettled
    <2> QED BY <1>2, <1>3, <2>1
  <1>8. ASSUME NoLate(o, 0, v) PROVE NoLate(r, 0, v) /\ ~LateOf(o[1], v)
    <2>1. ~LateOf(o[1], v)
        BY <1>1, <1>8 DEF NoLate
    <2>2. NoLate(o, 0 + 1, v)
        BY <1>1, <1>8 DEF NoLate
    <2> QED BY <1>3, <2>1, <2>2
  <1> QED BY <1>4, <1>5, <1>6, <1>7, <1>8 DEF r

\* If every late snapshot is covered, one that is not late is among them or none is late.
LEMMA CoveredOrNone ==
  ASSUME NEW o \in Seq(Update), NEW v \in Nat, AllCovered(o, v)
  PROVE  Covers(o, 0, v) \/ NoLate(o, 0, v)
  <1>1. DOMAIN o = 1 .. Len(o) /\ Len(o) \in Nat
      OBVIOUS
  <1>2. ASSUME NEW k \in DOMAIN o, Covers(o, k, v) PROVE Covers(o, 0, v)
    <2>1. PICK j \in DOMAIN o : FreshOf(o[j], v)
        BY <1>2 DEF Covers
    <2>2. 0 < j
        BY <1>1
    <2> QED BY <2>1, <2>2 DEF Covers
  <1> QED BY <1>2 DEF AllCovered, NoLate

\* An answer under way that is older than what the pump has seen.
LateAnswer(c) ==
  /\ call.step \in {"send", "got"}
  /\ call.snapshot.context = c /\ call.snapshot.version < seen[c]

\* The screen shows what the pump has seen, or something newer.
OnScreen(c) == shown.context = c /\ shown.version >= seen[c]

\* Every snapshot there is was read from the watch.
ReadInv(c) ==
  truth[c].context = c /\ seen[c] <= truth[c].version /\ SeqReads(out(c), truth[c])

HandInv ==
  /\ Reads(shown, truth[shown.context])
  /\ call.step \in {"send", "got"} => Reads(call.snapshot, truth[call.snapshot.context])
  /\ call.step = "send" => call.snapshot.context = call.to
  /\ call.step = "got" => call.snapshot.context = selected

\* No more than one late snapshot is on its way uncovered, the answer under way included.
LateInv(c) ==
  /\ AllSettled(out(c), seen[c])
  /\ LateAnswer(c) => AllCovered(out(c), seen[c])

\* The screen is current, or will be, or was overtaken with nothing late to come.
Covered(c) == Covers(out(c), 0, seen[c])
Settled(c) ==
  \/ Covered(c) \/ OnScreen(c)
  \/ shown.context = c /\ overtaken /\ ~LateAnswer(c) /\ NoLate(out(c), 0, seen[c])

\* The screen is settled but for a call that is about to move it or to answer.
ShownInv(c) ==
  /\ call.op \in {"none", "request"} => Settled(c)
  /\ call.step = "got" => Covered(c) \/ OnScreen(c) \/ ~LateAnswer(c)

CurrentInv ==
  HandInv /\ ShownInv(chosen) /\ \A c \in Context : ReadInv(c) /\ LateInv(c)

\* Nothing that the invariant of c looks at has changed.
LEMMA CurrentStill ==
  ASSUME NEW c \in Context, out(c)' = out(c), seen'[c] = seen[c], call' = call
  PROVE  /\ LateInv(c) => LateInv(c)'
         /\ LateAnswer(c)' <=> LateAnswer(c)
         /\ shown' = shown /\ (overtaken' <=> overtaken) /\ ShownInv(c) => ShownInv(c)'
         /\ truth'[c] = truth[c] /\ ReadInv(c) => ReadInv(c)'
  <1>1. LateAnswer(c)' <=> LateAnswer(c)
      BY DEF LateAnswer
  <1>2. LateInv(c) => LateInv(c)'
      BY <1>1 DEF LateInv, AllSettled, AllCovered, Covers, NoLate
  <1>3. Covered(c)' <=> Covered(c)
      BY DEF Covered, Covers
  <1>4. NoLate(out(c), 0, seen[c])' <=> NoLate(out(c), 0, seen[c])
      BY DEF NoLate
  <1>5. ASSUME shown' = shown, overtaken' <=> overtaken, ShownInv(c) PROVE ShownInv(c)'
    <2>1. OnScreen(c)' <=> OnScreen(c)
        BY <1>5 DEF OnScreen
    <2> QED BY <1>1, <1>3, <1>4, <1>5, <2>1 DEF ShownInv, Settled
  <1>6. truth'[c] = truth[c] /\ ReadInv(c) => ReadInv(c)'
      BY DEF ReadInv, SeqReads
  <1> QED BY <1>1, <1>2, <1>5, <1>6

\* The first project is shown as it was opened.
LEMMA CurrentInit == Init => CurrentInv
  <1> SUFFICES ASSUME Init PROVE CurrentInv
      OBVIOUS
  <1>1. First \in Context
      BY ClientAssumption
  <1>2. ASSUME NEW c \in Context
        PROVE  /\ out(c) = <<>> /\ truth[c] = Opened(c) /\ seen[c] = 0
      BY DEF Init, out
  <1>3. ASSUME NEW c \in Context PROVE ReadInv(c) /\ LateInv(c)
    <2>1. ~LateAnswer(c)
        BY DEF LateAnswer, Init, Idle
    <2>2. truth[c].context = c /\ truth[c].version = 0
      <3>1. truth[c] = Opened(c)
          BY <1>2
      <3>2. Opened(c).context = c /\ Opened(c).version = 0
          BY DEF Opened
      <3> QED BY <3>1, <3>2
    <2>3. SeqReads(out(c), truth[c]) /\ AllSettled(out(c), seen[c])
        BY <1>2 DEF SeqReads, AllSettled
    <2>4. ReadInv(c)
        BY <1>2, <2>2, <2>3 DEF ReadInv
    <2> QED BY <2>1, <2>3, <2>4 DEF LateInv
  <1>4. HandInv
    <2>1. shown = Opened(First) /\ call.step = ""
        BY DEF Init, Idle
    <2>2. shown.context = First /\ truth[First] = Opened(First) /\ Opened(First).version = 0
        BY <1>1, <1>2, <2>1 DEF Opened
    <2>3. Reads(shown, truth[shown.context])
      <3>1. truth[shown.context] = shown /\ shown.version = 0
          BY <2>1, <2>2
      <3> QED BY <3>1 DEF Reads
    <2> QED BY <2>1, <2>3 DEF HandInv
  <1>5. ShownInv(chosen)
    <2>1. chosen = First /\ shown = Opened(First)
        BY DEF Init
    <2>2. OnScreen(First)
        BY <1>1, <1>2, <2>1 DEF OnScreen, Opened
    <2>3. call.step # "got"
        BY DEF Init, Idle
    <2> QED BY <2>1, <2>2, <2>3 DEF ShownInv, Settled
  <1> QED BY <1>3, <1>4, <1>5 DEF CurrentInv

\* A runtime publishes a newer version than any there is.
LEMMA CurrentRuntime ==
  ASSUME Typed, CurrentInv, NEW c \in Context, Runs(c) \/ Publish(c)
  PROVE  CurrentInv'
  <1>1. /\ seen' = seen /\ pump' = pump /\ queue' = queue /\ selected' = selected
        /\ call' = call /\ shown' = shown /\ chosen' = chosen /\ overtaken' = overtaken
      BY RuntimeStep DEF asking, screen
  <1>2. \A d \in Context : out(d)' = out(d)
      BY <1>1 DEF out
  <1>3. Typed'
      BY RuntimeStep
  <1>4. ASSUME NEW d \in Context
        PROVE  /\ truth[d] \in Snapshot /\ truth'[d] \in Snapshot /\ truth[d].context = d
               /\ truth[d].version \in Nat
               /\ truth'[d] = truth[d] \/
                    (truth'[d].context = d /\ truth'[d].version = truth[d].version + 1)
    <2>1. truth[d] \in Snapshot /\ truth[d].context = d /\ truth[d].version \in Nat
        BY ContextTypes DEF CurrentInv, ReadInv
    <2>2. truth'[d] \in Snapshot
        BY <1>3 DEF Typed, TypeOK
    <2>3. d # c => truth'[d] = truth[d]
        BY RuntimeStep
    <2>4. truth'[c] = truth[c] \/
            (truth'[c].context = c /\ truth'[c].version = truth[c].version + 1)
        BY RuntimeStep
    <2> QED BY <2>1, <2>2, <2>3, <2>4
  <1>5. ASSUME NEW d \in Context, NEW s \in Snapshot, Reads(s, truth[d])
        PROVE  Reads(s, truth'[d])
      BY <1>4, <1>5, ReadsMoves
  <1>6. ASSUME NEW d \in Context PROVE ReadInv(d)' /\ LateInv(d)'
    <2>1. ReadInv(d) /\ LateInv(d)
        BY DEF CurrentInv
    <2>2. out(d) \in Seq(Update) /\ seen[d] \in Nat
        BY ContextTypes
    <2>3. ASSUME NEW i \in DOMAIN out(d), IsSnapshot(out(d)[i])
          PROVE  Reads(out(d)[i].snapshot, truth'[d])
      <3>1. out(d)[i] \in Update
          BY <2>2
      <3>2. out(d)[i].snapshot \in Snapshot
          BY <2>3, <3>1, VersionOf
      <3> QED BY <1>5, <2>1, <2>3, <3>2 DEF ReadInv, SeqReads
    <2>4. seen'[d] <= truth'[d].version /\ truth'[d].context = d
        BY <1>1, <1>4, <2>1, <2>2 DEF ReadInv
    <2>5. ReadInv(d)'
        BY <1>2, <2>3, <2>4 DEF ReadInv, SeqReads
    <2>6. LateInv(d)'
        BY <1>1, <1>2, <2>1, CurrentStill
    <2> QED BY <2>5, <2>6
  <1>7. HandInv'
    <2>1. /\ shown \in Snapshot /\ shown.context \in Context
          /\ call.snapshot \in Snapshot /\ call.snapshot.context \in Context
        BY ScreenTypes DEF Snapshot
    <2>2. Reads(shown, truth'[shown.context])
        BY <1>5, <2>1 DEF CurrentInv, HandInv
    <2>3. call.step \in {"send", "got"} =>
            Reads(call.snapshot, truth'[call.snapshot.context])
        BY <1>5, <2>1 DEF CurrentInv, HandInv
    <2> QED BY <1>1, <2>2, <2>3 DEF CurrentInv, HandInv
  <1>8. ShownInv(chosen)'
    <2>1. PICK d \in Context : d = chosen
        BY ScreenTypes
    <2>2. ShownInv(d)'
        BY <1>1, <1>2, <2>1, CurrentStill DEF CurrentInv
    <2> QED BY <1>1, <2>1, <2>2 DEF ShownInv, Settled, Covered, OnScreen, LateAnswer
  <1> QED BY <1>6, <1>7, <1>8 DEF CurrentInv

\* A step that leaves the call, the screen and what the watches hold alone, and changes
\* what is on its way in at most one project.
LEMMA CurrentElsewhere ==
  ASSUME Typed, CurrentInv, NEW c \in Context,
         truth' = truth, call' = call, selected' = selected, shown' = shown,
         chosen' = chosen, overtaken' = overtaken,
         \A d \in Context : d # c => out(d)' = out(d) /\ seen'[d] = seen[d],
         ReadInv(c)', LateInv(c)', ShownInv(c) => ShownInv(c)'
  PROVE  CurrentInv'
  <1>1. ASSUME NEW d \in Context PROVE ReadInv(d)' /\ LateInv(d)' /\ (ShownInv(d) => ShownInv(d)')
    <2>1. CASE d # c
        BY <2>1, CurrentStill DEF CurrentInv
    <2> QED BY <2>1
  <1>2. HandInv'
      BY DEF CurrentInv, HandInv
  <1>3. ShownInv(chosen)'
    <2>1. PICK d \in Context : d = chosen
        BY ScreenTypes
    <2>2. ShownInv(d)'
        BY <1>1, <2>1 DEF CurrentInv
    <2> QED BY <2>1, <2>2 DEF ShownInv, Settled, Covered, OnScreen, LateAnswer
  <1> QED BY <1>1, <1>2, <1>3 DEF CurrentInv

\* What a pump has seen it puts out behind all the others.
LEMMA CurrentPump ==
  ASSUME Typed, CurrentInv, NEW c \in Context, Pump(c)
  PROVE  CurrentInv'
  <1>1. /\ truth' = truth /\ call' = call /\ selected' = selected /\ shown' = shown
        /\ chosen' = chosen /\ overtaken' = overtaken
        /\ \A d \in Context : d # c => out(d)' = out(d) /\ seen'[d] = seen[d]
    <2>1. UNCHANGED <<state, truth, sent, selected, asking, screen>>
        BY PumpStep
    <2>2. \A d \in Context : d # c => out(d)' = out(d) /\ seen'[d] = seen[d]
        BY PumpStep
    <2> QED BY <2>1, <2>2 DEF asking, screen
  <1>2. /\ out(c) \in Seq(Update) /\ seen[c] \in Nat /\ ring[c] \in Seq(Event)
        /\ truth[c] \in Snapshot /\ truth[c].version \in Nat
        /\ ReadInv(c) /\ LateInv(c)
      BY ContextTypes DEF CurrentInv
  <1> DEFINE Goes == ReadInv(c)' /\ LateInv(c)' /\ (ShownInv(c) => ShownInv(c)')
  <1>3. ASSUME out(c)' = out(c), seen'[c] = seen[c] PROVE Goes
      BY <1>1, <1>2, <1>3, CurrentStill
  <1>4. ASSUME NEW u \in Update, PutsOut(c, u), ~IsSnapshot(u), seen'[c] = seen[c]
        PROVE  Goes
    <2>1. /\ out(c)' \in Seq(Update) /\ Len(out(c)) + 1 \in 1 .. Len(out(c)) + 1
          /\ Inserted(out(c), out(c)', Len(out(c)) + 1, u)
        BY <1>2, <1>4, AppendInserts DEF PutsOut
    <2>2. ~LateOf(u, seen[c])
        BY <1>4 DEF LateOf
    <2>3. /\ Covers(out(c), 0, seen[c]) => Covers(out(c)', 0, seen[c])
          /\ AllCovered(out(c), seen[c]) => AllCovered(out(c)', seen[c])
          /\ AllSettled(out(c), seen[c]) => AllSettled(out(c)', seen[c])
          /\ NoLate(out(c), 0, seen[c]) => NoLate(out(c)', 0, seen[c])
        BY <1>2, <2>1, <2>2, LateInserted
    <2>4. SeqReads(out(c)', truth[c])
        BY <1>2, <1>4, <2>1, ReadsInserted DEF ReadInv
    <2>5. LateAnswer(c)' <=> LateAnswer(c)
        BY <1>1, <1>4 DEF LateAnswer
    <2>6. ReadInv(c)'
        BY <1>1, <1>2, <1>4, <2>4 DEF ReadInv, SeqReads
    <2>7. LateInv(c)'
      <3>1. AllSettled(out(c)', seen'[c]) /\ (LateAnswer(c)' => AllCovered(out(c)', seen'[c]))
          BY <1>2, <1>4, <2>3, <2>5 DEF LateInv
      <3> QED BY <3>1 DEF LateInv, AllSettled, AllCovered, Covers, NoLate
    <2>8. ShownInv(c) => ShownInv(c)'
      <3>1. OnScreen(c)' <=> OnScreen(c)
          BY <1>1, <1>4 DEF OnScreen
      <3>2. Covered(c) => Covered(c)'
          BY <1>4, <2>3 DEF Covered, Covers
      <3>3. NoLate(out(c), 0, seen[c]) => NoLate(out(c), 0, seen[c])'
          BY <1>4, <2>3 DEF NoLate
      <3> QED BY <1>1, <2>5, <3>1, <3>2, <3>3 DEF ShownInv, Settled
    <2> QED BY <2>6, <2>7, <2>8
  <1>5. ASSUME NEW u \in Update, PutsOut(c, u), IsSnapshot(u), u.snapshot = truth[c],
               seen'[c] \in {seen[c], truth[c].version}
        PROVE  Goes
    <2>1. /\ out(c)' \in Seq(Update) /\ Len(out(c)) + 1 \in 1 .. Len(out(c)) + 1
          /\ Inserted(out(c), out(c)', Len(out(c)) + 1, u)
        BY <1>2, <1>5, AppendInserts DEF PutsOut
    <2>2. PICK v \in Nat : v = seen'[c] /\ v <= truth[c].version
        BY <1>2, <1>5 DEF ReadInv
    <2>3. FreshOf(u, v)
        BY <1>2, <1>5, <2>2 DEF FreshOf
    <2>4. AllCovered(out(c)', v) /\ AllSettled(out(c)', v) /\ Covers(out(c)', 0, v)
        BY <1>2, <1>5, <2>3, FreshAppended DEF PutsOut
    <2>5. Reads(truth[c], truth[c])
        BY <1>2 DEF Reads
    <2>6. SeqReads(out(c)', truth[c])
        BY <1>2, <1>5, <2>1, <2>5, ReadsInserted DEF ReadInv
    <2>7. ReadInv(c)'
        BY <1>1, <1>2, <2>2, <2>6 DEF ReadInv, SeqReads
    <2>8. LateInv(c)' /\ Covered(c)'
        BY <2>2, <2>4 DEF LateInv, AllSettled, AllCovered, Covered, Covers, NoLate
    <2> QED BY <2>7, <2>8 DEF ShownInv, Settled
  <1>6. Goes
    <2> HIDE DEF Goes
    <2>1. CASE PutsOut(c, Taken(truth[c])) /\ seen'[c] = truth[c].version
        BY <1>2, <1>5, <2>1, Updates DEF Taken, IsSnapshot
    <2>2. CASE PutsOut(c, Resync(truth[c])) /\ seen'[c] = seen[c]
        BY <1>2, <1>5, <2>2, Updates DEF Resync, IsSnapshot
    <2>3. CASE PutsOut(c, Closed) /\ seen'[c] = seen[c]
        BY <1>4, <2>3, Updates DEF Closed, IsSnapshot
    <2>4. CASE TakesEvent(c) /\ seen'[c] = seen[c]
      <3>1. PutsOut(c, Heard(Head(ring[c]))) /\ Head(ring[c]) \in Event
        <4>1. ring[c] # <<>> /\ PutsOut(c, Heard(Head(ring[c])))
            BY <2>4 DEF TakesEvent
        <4> HIDE DEF Event
        <4>2. Head(ring[c]) \in Event
            BY <1>2, <4>1, TailOf
        <4> QED BY <4>1, <4>2
      <3>2. Heard(Head(ring[c])) \in Update /\ ~IsSnapshot(Heard(Head(ring[c])))
          BY <3>1, Updates DEF Heard, IsSnapshot
      <3> QED BY <1>4, <2>4, <3>1, <3>2
    <2>5. \/ out(c)' = out(c) /\ seen'[c] = seen[c]
          \/ PutsOut(c, Taken(truth[c])) /\ seen'[c] = truth[c].version
          \/ TakesEvent(c) /\ seen'[c] = seen[c]
          \/ PutsOut(c, Resync(truth[c])) /\ seen'[c] = seen[c]
          \/ PutsOut(c, Closed) /\ seen'[c] = seen[c]
        BY PumpStep
    <2> QED BY <1>3, <2>1, <2>2, <2>3, <2>4, <2>5
  <1> QED BY <1>1, <1>6, CurrentElsewhere

\* What the client takes is newer, or covered, or the last that was late.
LEMMA CurrentHandle ==
  ASSUME Typed, CurrentInv, NEW c \in Context, HandleUpdate(c)
  PROVE  CurrentInv'
  <1> DEFINE u == out(c)[1]
  <1>1. /\ UNCHANGED <<runtime, bridge, selected, call, calls, chosen, left>>
        /\ \A d \in Context : d # c => out(d)' = out(d)
        /\ out(c) # <<>> /\ out(c)' = Tail(out(c)) /\ u \in Update
      BY HandleStep
  <1>2. \/ c # chosen /\ shown' = shown /\ overtaken' = overtaken
        \/ c = chosen /\ IsSnapshot(u) /\ Shows(u.snapshot)
        \/ c = chosen /\ ~IsSnapshot(u) /\ shown' = shown /\ overtaken' = overtaken
    <2>1. \/ c # chosen /\ UNCHANGED <<shown, bubble, heard, overtaken>>
          \/ /\ c = chosen /\ u.kind \in {"snapshot", "resync"} /\ Shows(u.snapshot)
             /\ bubble' = {} \/ (bubble' = bubble /\ u.kind = "snapshot")
          \/ /\ c = chosen /\ u.kind = "event" /\ UNCHANGED <<shown, overtaken>>
             /\ heard' = [context |-> c, n |-> u.event.n, fresh |-> FALSE]
             /\ bubble' = {} \/ u.event.kind = "delta"
          \/ /\ c = chosen /\ u.kind = "closed" /\ bubble' = {}
             /\ UNCHANGED <<shown, heard, overtaken>>
        BY HandleStep
    <2> HIDE DEF u
    <2> QED BY <2>1 DEF IsSnapshot
  <1>3. truth' = truth /\ seen' = seen /\ call' = call /\ selected' = selected /\ chosen' = chosen
      BY <1>1 DEF runtime, bridge
  <1>4. out(c) \in Seq(Update) /\ seen[c] \in Nat /\ ReadInv(c) /\ LateInv(c)
      BY ContextTypes DEF CurrentInv
  <1>5. SeqReads(out(c)', truth[c]) /\ (IsSnapshot(u) => Reads(u.snapshot, truth[c]))
      BY <1>1, <1>4, ReadsTail DEF ReadInv
  <1>6. /\ AllCovered(out(c), seen[c]) => AllCovered(out(c)', seen[c])
        /\ AllSettled(out(c), seen[c]) => AllSettled(out(c)', seen[c])
        /\ Covers(out(c), 0, seen[c]) => FreshOf(u, seen[c]) \/ Covers(out(c)', 0, seen[c])
        /\ LateOf(u, seen[c]) /\ AllCovered(out(c), seen[c]) => Covers(out(c)', 0, seen[c])
        /\ LateOf(u, seen[c]) /\ AllSettled(out(c), seen[c])
             => Covers(out(c)', 0, seen[c]) \/ NoLate(out(c)', 0, seen[c])
        /\ NoLate(out(c), 0, seen[c]) => NoLate(out(c)', 0, seen[c]) /\ ~LateOf(u, seen[c])
      BY <1>1, <1>4, LateTail
  <1>7. IsSnapshot(u) => u.snapshot \in Snapshot /\ u.snapshot.version \in Nat
      BY <1>1, VersionOf
  <1>8. ~(LateOf(u, seen[c]) /\ FreshOf(u, seen[c]))
        /\ (IsSnapshot(u) => LateOf(u, seen[c]) \/ FreshOf(u, seen[c]))
      BY <1>1, <1>4, LateOrFresh
  <1> HIDE DEF u
  <1>9. LateAnswer(c)' <=> LateAnswer(c)
      BY <1>3 DEF LateAnswer
  <1>a. ReadInv(c)'
      BY <1>3, <1>4, <1>5 DEF ReadInv, SeqReads
  <1>b. LateInv(c)'
    <2>1. AllSettled(out(c)', seen[c]) /\ (LateAnswer(c)' => AllCovered(out(c)', seen[c]))
        BY <1>4, <1>6, <1>9 DEF LateInv
    <2> QED BY <1>3, <2>1 DEF LateInv, AllSettled, AllCovered, Covers, NoLate
  <1>c. Covered(c)' <=> Covers(out(c)', 0, seen[c])
      BY <1>3 DEF Covered, Covers
  <1>d. NoLate(out(c), 0, seen[c])' <=> NoLate(out(c)', 0, seen[c])
      BY <1>3 DEF NoLate
  <1>e. CASE ~(c = chosen /\ IsSnapshot(u)) /\ shown' = shown /\ overtaken' = overtaken
    <2>1. c = chosen => (ShownInv(c) => ShownInv(c)')
      <3>1. OnScreen(c)' <=> OnScreen(c)
          BY <1>3, <1>e DEF OnScreen
      <3>2. c = chosen => ~FreshOf(u, seen[c])
          BY <1>e DEF FreshOf
      <3>3. c = chosen => (Covered(c) => Covered(c)')
          BY <1>6, <1>c, <3>2 DEF Covered
      <3> QED BY <1>3, <1>6, <1>9, <1>d, <1>e, <3>1, <3>3 DEF ShownInv, Settled
    <2>2. PICK d \in Context : d = chosen
        BY ScreenTypes
    <2>3. ShownInv(d)'
      <3>1. CASE d = c
          BY <2>1, <2>2, <3>1 DEF CurrentInv
      <3>2. CASE d # c
          BY <1>1, <1>3, <1>e, <2>2, <3>2, CurrentStill DEF CurrentInv
      <3> QED BY <3>1, <3>2
    <2>4. ShownInv(chosen)'
        BY <1>3, <2>2, <2>3 DEF ShownInv, Settled, Covered, OnScreen, LateAnswer
    <2>5. \A e \in Context : e # c => ReadInv(e)' /\ LateInv(e)'
        BY <1>1, <1>3, CurrentStill DEF CurrentInv
    <2>6. HandInv'
        BY <1>3, <1>e DEF CurrentInv, HandInv
    <2> QED BY <1>a, <1>b, <2>4, <2>5, <2>6 DEF CurrentInv
  <1>f. CASE c = chosen /\ IsSnapshot(u) /\ Shows(u.snapshot)
    <2>1. /\ shown' = u.snapshot /\ u.snapshot.context = c
          /\ u.snapshot.context = shown.context /\ u.snapshot.version < shown.version => overtaken'
      <3>1. u.snapshot.context = c
          BY <1>4, <1>5, <1>f DEF ReadInv, Reads
      <3> QED BY <1>7, <1>f, <3>1, ShowsTyped
    <2>2. FreshOf(u, seen[c]) => OnScreen(c)'
        BY <1>3, <2>1 DEF FreshOf, OnScreen
    <2>3. shown'.context = c
        BY <2>1
    <2>4. LateOf(u, seen[c]) /\ OnScreen(c) => overtaken'
      <3>1. shown.version \in Nat
        <4>1. shown.version \in Versions
            BY ScreenTypes DEF Snapshot
        <4>2. Versions \subseteq Nat
            BY Numbers
        <4> QED BY <4>1, <4>2
      <3> QED BY <1>4, <1>7, <1>f, <2>1, <3>1 DEF LateOf, OnScreen
    <2>5. ShownInv(c)
        BY <1>f DEF CurrentInv
    <2>6. call.op \in {"none", "request"} => Settled(c)'
      <3>1. SUFFICES ASSUME call.op \in {"none", "request"}, LateOf(u, seen[c])
                     PROVE  Settled(c)'
          BY <1>8, <1>f, <2>2 DEF Settled
      <3>2. CASE Covered(c)
          BY <1>6, <1>8, <1>c, <3>1, <3>2 DEF Covered, Settled
      <3>3. CASE OnScreen(c)
        <4>1. CASE LateAnswer(c)
            BY <1>4, <1>6, <1>c, <3>1, <4>1 DEF LateInv, Settled
        <4>2. CASE ~LateAnswer(c)
            BY <1>4, <1>6, <1>9, <1>c, <1>d, <2>3, <2>4, <3>1, <3>3, <4>2 DEF LateInv, Settled
        <4> QED BY <4>1, <4>2
      <3>4. CASE NoLate(out(c), 0, seen[c])
          BY <1>6, <3>1, <3>4
      <3> QED BY <2>5, <3>1, <3>2, <3>3, <3>4 DEF ShownInv, Settled
    <2>7. call.step = "got" => Covered(c)' \/ OnScreen(c)' \/ ~LateAnswer(c)'
      <3>1. SUFFICES ASSUME LateOf(u, seen[c]), LateAnswer(c)
                     PROVE  Covered(c)'
          BY <1>8, <1>9, <1>f, <2>2
      <3> QED BY <1>4, <1>6, <1>c, <3>1 DEF LateInv
    <2>8. ShownInv(c)'
        BY <1>3, <2>6, <2>7 DEF ShownInv
    <2>9. ShownInv(chosen)'
      <3>1. chosen' = c
          BY <1>3, <1>f
      <3> QED BY <2>8, <3>1 DEF ShownInv, Settled, Covered, OnScreen, LateAnswer
    <2>a. \A e \in Context : e # c => ReadInv(e)' /\ LateInv(e)'
        BY <1>1, <1>3, CurrentStill DEF CurrentInv
    <2>b. HandInv'
        BY <1>3, <1>5, <1>f, <2>1, <2>3 DEF CurrentInv, HandInv
    <2> QED BY <1>a, <1>b, <2>9, <2>a, <2>b DEF CurrentInv
  <1> QED BY <1>2, <1>e, <1>f

\* An answer is late only ahead of what the pump was about to send.
LEMMA CurrentSends ==
  ASSUME Typed, CurrentInv, EmitSends
  PROVE  CurrentInv'
  <1>1. PICK t \in Context : t = call.to
      BY ScreenTypes
  <1>2. /\ UNCHANGED <<runtime, bridge, selected, screen>> /\ call.step = "send"
        /\ \A d \in Context : d # t => out(d)' = out(d)
        /\ Taken(call.snapshot) \in Update /\ out(t)' \in Seq(Update)
      BY <1>1, EmitSendsStep
  <1>3. PICK i \in 1 .. Len(out(t)) + 1 :
          Inserted(out(t), out(t)', i, Taken(call.snapshot))
      BY <1>1, EmitSendsStep
  <1>4. PICK u \in Update : u = Taken(call.snapshot)
      BY <1>2
  <1>5. IsSnapshot(u) /\ u.snapshot = call.snapshot /\ call.snapshot.context = t
      BY <1>1, <1>2, <1>4 DEF Taken, IsSnapshot, CurrentInv, HandInv
  <1>6. /\ out(t) \in Seq(Update) /\ seen[t] \in Nat /\ ReadInv(t) /\ LateInv(t)
        /\ truth' = truth /\ seen' = seen /\ selected' = selected /\ chosen' = chosen
        /\ shown' = shown /\ overtaken' = overtaken /\ heard' = heard
      BY <1>2, ContextTypes DEF CurrentInv, runtime, bridge, screen
  <1>7. /\ Covers(out(t), 0, seen[t]) => Covers(out(t)', 0, seen[t])
        /\ ~LateOf(u, seen[t]) /\ AllSettled(out(t), seen[t]) => AllSettled(out(t)', seen[t])
        /\ ~LateOf(u, seen[t]) /\ NoLate(out(t), 0, seen[t]) => NoLate(out(t)', 0, seen[t])
        /\ AllCovered(out(t), seen[t]) => AllSettled(out(t)', seen[t])
      BY <1>2, <1>3, <1>4, <1>6, LateInserted
  <1>8. LateOf(u, seen[t]) <=> LateAnswer(t)
      BY <1>2, <1>5 DEF LateOf, LateAnswer
  <1>9. AllSettled(out(t)', seen[t])
      BY <1>6, <1>7, <1>8 DEF LateInv
  <1>a. SeqReads(out(t)', truth[t])
    <2>1. Reads(call.snapshot, truth[t])
        BY <1>2, <1>5 DEF CurrentInv, HandInv
    <2> QED BY <1>2, <1>3, <1>4, <1>5, <1>6, <2>1, ReadsInserted DEF ReadInv
  <1>b. /\ call'.step \notin {"send", "got"}
        /\ call.op = "request" \/ (call.op = "select" /\ call'.op = "select")
    <2>1. CASE call.op = "request" /\ call' = Idle
        BY <2>1 DEF Idle
    <2>2. CASE call.op = "select" /\ call' = [call EXCEPT !.step = "list"]
        BY <2>2, ScreenTypes DEF Call
    <2> QED BY <1>1, <2>1, <2>2, EmitSendsStep
  <1>c. \A d \in Context : ~LateAnswer(d)'
      BY <1>b DEF LateAnswer
  <1>d. ASSUME NEW d \in Context PROVE ReadInv(d)' /\ LateInv(d)'
    <2>1. CASE d = t
      <3>1. ReadInv(t)'
          BY <1>6, <1>a DEF ReadInv, SeqReads
      <3>2. LateInv(t)'
          BY <1>6, <1>9, <1>c DEF LateInv, AllSettled, Covers, NoLate
      <3> QED BY <2>1, <3>1, <3>2
    <2>2. CASE d # t
      <3>1. out(d)' = out(d) /\ ReadInv(d) /\ LateInv(d)
          BY <1>2, <2>2 DEF CurrentInv
      <3>2. ReadInv(d)'
          BY <1>6, <3>1 DEF ReadInv, SeqReads
      <3>3. LateInv(d)'
          BY <1>6, <1>c, <3>1 DEF LateInv, AllSettled, Covers, NoLate
      <3> QED BY <3>2, <3>3
    <2> QED BY <2>1, <2>2
  <1>e. HandInv'
      BY <1>6, <1>b DEF CurrentInv, HandInv
  <1>f. ShownInv(chosen)'
    <2>1. CASE call'.op = "select"
        BY <1>b, <2>1 DEF ShownInv
    <2>2. CASE call.op = "request"
      <3>1. t = chosen /\ chosen' = t
          BY <1>1, <1>6, <2>2, ScreenTypes DEF CallTyped
      <3>2. Settled(t)
          BY <2>2, <3>1 DEF CurrentInv, ShownInv
      <3>3. OnScreen(t) => OnScreen(t)'
          BY <1>6 DEF OnScreen
      <3>4. Covered(t) => Covered(t)'
          BY <1>6, <1>7 DEF Covered, Covers
      <3>5. ~LateAnswer(t) /\ NoLate(out(t), 0, seen[t]) => NoLate(out(t), 0, seen[t])'
          BY <1>6, <1>7, <1>8 DEF NoLate
      <3>6. Settled(t)'
          BY <1>6, <1>c, <3>2, <3>3, <3>4, <3>5 DEF Settled
      <3>7. ShownInv(t)'
          BY <1>b, <3>6 DEF ShownInv
      <3> QED BY <3>1, <3>7 DEF ShownInv, Settled, Covered, OnScreen, LateAnswer
    <2> QED BY <1>b, <2>1, <2>2
  <1> QED BY <1>d, <1>e, <1>f DEF CurrentInv

\* The call moves on and nothing else does.
LEMMA CurrentCalls ==
  ASSUME Typed, CurrentInv, UNCHANGED <<runtime, bridge, queue>>,
         HandInv', \A c \in Context : LateAnswer(c)' => LateAnswer(c), ShownInv(chosen)'
  PROVE  CurrentInv'
  <1>1. truth' = truth /\ seen' = seen /\ \A c \in Context : out(c)' = out(c)
      BY BackendStill
  <1>2. ASSUME NEW c \in Context PROVE ReadInv(c)' /\ LateInv(c)'
    <2>1. ReadInv(c) /\ LateInv(c) /\ out(c)' = out(c)
        BY <1>1 DEF CurrentInv
    <2>2. ReadInv(c)'
        BY <1>1, <2>1 DEF ReadInv, SeqReads
    <2>3. LateInv(c)'
        BY <1>1, <2>1 DEF LateInv, AllSettled, AllCovered, Covers, NoLate
    <2> QED BY <2>2, <2>3
  <1> QED BY <1>2 DEF CurrentInv

\* The screen and the selection stay, and no answer becomes late.
LEMMA CurrentAsks ==
  ASSUME Typed, CurrentInv, UNCHANGED <<runtime, bridge, queue, screen>>,
         HandInv', \A c \in Context : ~LateAnswer(c)',
         call'.op \in {"none", "request"} => call.op \in {"none", "request"}
  PROVE  CurrentInv'
  <1>1. /\ truth' = truth /\ seen' = seen /\ shown' = shown /\ chosen' = chosen
        /\ overtaken' = overtaken /\ \A c \in Context : out(c)' = out(c)
      BY BackendStill DEF screen
  <1>2. PICK d \in Context : d = chosen
      BY ScreenTypes
  <1>3. (Covered(d)' <=> Covered(d)) /\ (OnScreen(d)' <=> OnScreen(d))
        /\ (NoLate(out(d), 0, seen[d])' <=> NoLate(out(d), 0, seen[d]))
      BY <1>1 DEF Covered, Covers, OnScreen, NoLate
  <1>4. ShownInv(d)'
      BY <1>1, <1>2, <1>3 DEF CurrentInv, ShownInv, Settled
  <1>5. ShownInv(chosen)'
      BY <1>1, <1>2, <1>4 DEF ShownInv, Settled, Covered, OnScreen, LateAnswer
  <1> QED BY <1>5, CurrentCalls

\* Every step keeps the screen settled.
LEMMA CurrentNext ==
  ASSUME ~Busy, Typed, CurrentInv, [Next]_vars
  PROVE  CurrentInv'
  <1>0. HandInv /\ ShownInv(chosen) /\ \A c \in Context : ReadInv(c) /\ LateInv(c)
      BY DEF CurrentInv
  <1>1. CASE \E c \in Context : Runs(c) \/ Publish(c)
      BY <1>1, CurrentRuntime
  <1>2. CASE \E c \in Context : Pump(c)
      BY <1>2, CurrentPump
  <1>3. CASE \E c \in Context : HandleUpdate(c)
      BY <1>3, CurrentHandle
  <1>4. CASE EmitSends
      BY <1>4, CurrentSends
  <1>5. CASE RequestSnapshot \/ Reconnect \/ (\E c \in Context : SelectProject(c))
    <2>1. /\ UNCHANGED <<runtime, bridge, queue, screen>> /\ call.op = "none"
          /\ call'.step \in {"read", "list"}
        BY <1>5, AskStep
    <2>2. HandInv'
        BY <1>0, <2>1 DEF HandInv, runtime, screen
    <2>3. \A c \in Context : ~LateAnswer(c)'
        BY <2>1 DEF LateAnswer
    <2> QED BY <2>1, <2>2, <2>3, CurrentAsks
  <1>6. CASE EmitReads
    <2>1. /\ UNCHANGED <<runtime, bridge, queue, selected, screen>>
          /\ call' = [call EXCEPT !.step = "send", !.snapshot = truth[call.to]]
        BY <1>6, EmitReadsStep
    <2>2. PICK t \in Context : t = call.to
        BY ScreenTypes
    <2>3. /\ call'.step = "send" /\ call'.snapshot = truth[t] /\ call'.op = call.op
          /\ call'.to = t
        BY <2>1, <2>2, ScreenTypes DEF Call
    <2>4. truth[t].context = t /\ seen[t] <= truth[t].version /\ truth[t].version \in Nat
          /\ seen[t] \in Nat
        BY <1>0, ContextTypes DEF ReadInv
    <2>5. truth' = truth /\ seen' = seen /\ shown' = shown
        BY <2>1 DEF runtime, bridge, screen
    <2>6. Reads(truth[t], truth[t])
        BY <2>4 DEF Reads
    <2>7. HandInv'
        BY <1>0, <2>3, <2>4, <2>5, <2>6 DEF HandInv
    <2>8. \A c \in Context : ~LateAnswer(c)'
        BY <2>3, <2>4, <2>5 DEF LateAnswer
    <2> QED BY <2>1, <2>3, <2>7, <2>8, CurrentAsks
  <1>7. CASE GetSnapshot
    <2>1. UNCHANGED <<runtime, bridge, queue, selected, screen>> /\ call.step = "get"
        BY <1>7, GetSnapshotStep
    <2>2. PICK t \in Context : t = selected
        BY ScreenTypes
    <2>3. call' = [call EXCEPT !.step = "got", !.snapshot = truth[t]]
        BY <1>7, <2>2, GetSnapshotStep
    <2>4. /\ call'.step = "got" /\ call'.snapshot = truth[t] /\ call'.op = call.op
        BY <2>3, ScreenTypes DEF Call
    <2>5. truth[t].context = t /\ seen[t] <= truth[t].version /\ truth[t].version \in Nat
          /\ seen[t] \in Nat
        BY <1>0, ContextTypes DEF ReadInv
    <2>6. truth' = truth /\ seen' = seen /\ shown' = shown /\ selected' = t
        BY <2>1, <2>2 DEF runtime, bridge, screen
    <2>7. Reads(truth[t], truth[t])
        BY <2>5 DEF Reads
    <2>8. HandInv'
        BY <1>0, <2>4, <2>5, <2>6, <2>7 DEF HandInv
    <2>9. \A c \in Context : ~LateAnswer(c)'
        BY <2>4, <2>5, <2>6 DEF LateAnswer
    <2> QED BY <2>1, <2>4, <2>8, <2>9, CurrentAsks
  <1>8. CASE ListArrives
    <2>1. /\ UNCHANGED <<runtime, bridge, queue, selected>> /\ shown' = shown
          /\ call.step = "list" /\ call' = [call EXCEPT !.step = "get"]
        BY <1>8, ListStep
    <2>2. call'.step = "get" /\ call'.op = call.op /\ call.op \in {"select", "reconnect"}
        BY <2>1, ScreenTypes DEF Call, CallTyped
    <2>3. HandInv'
        BY <1>0, <2>1, <2>2 DEF HandInv, runtime
    <2>4. ShownInv(chosen)' /\ \A c \in Context : ~LateAnswer(c)'
        BY <2>2 DEF ShownInv, LateAnswer
    <2> QED BY <2>1, <2>3, <2>4, CurrentCalls
  <1>9. CASE SnapshotArrives
    <2>1. /\ UNCHANGED <<runtime, bridge, queue, selected, chosen>>
          /\ call.step = "got" /\ call' = Idle /\ Shows(call.snapshot)
        BY <1>9, AnswerStep
    <2>2. PICK d \in Context : d = chosen
        BY ScreenTypes
    <2>3. /\ call'.step = "" /\ chosen' = d /\ selected = d /\ call.snapshot.context = d
          /\ call.snapshot \in Snapshot
        BY <1>0, <2>1, <2>2, ScreenTypes DEF Idle, CallTyped, HandInv
    <2>4. /\ shown' = call.snapshot
          /\ d = shown.context /\ call.snapshot.version < shown.version => overtaken'
        BY <2>1, <2>3, ShowsTyped
    <2>5. truth' = truth /\ seen' = seen /\ out(d)' = out(d)
        BY <2>1, BackendStill
    <2>6. HandInv'
        BY <1>0, <2>1, <2>3, <2>4, <2>5 DEF HandInv
    <2>7. \A c \in Context : ~LateAnswer(c)'
        BY <2>3 DEF LateAnswer
    <2>8. Settled(d)'
      <3>1. out(d) \in Seq(Update) /\ seen[d] \in Nat
          BY ContextTypes
      <3>2. call.snapshot.version \in Nat /\ shown.version \in Nat
        <4>1. call.snapshot.version \in Versions /\ shown.version \in Versions
            BY <2>3, ScreenTypes DEF Snapshot
        <4>2. Versions \subseteq Nat
            BY Numbers
        <4> QED BY <4>1, <4>2
      <3>3. CASE call.snapshot.version >= seen[d]
          BY <2>3, <2>4, <2>5, <3>3 DEF Settled, OnScreen
      <3>4. CASE ~(call.snapshot.version >= seen[d])
        <4>1. LateAnswer(d)
          <5>1. call.snapshot.version < seen[d]
              BY <3>1, <3>2, <3>4
          <5>2. call.step = "got" /\ call.snapshot.context = d
              BY <2>1, <2>3
          <5> QED BY <5>1, <5>2 DEF LateAnswer
        <4>2. AllCovered(out(d), seen[d]) /\ (Covered(d) \/ OnScreen(d))
            BY <1>0, <2>1, <2>2, <4>1 DEF LateInv, ShownInv
        <4>3. Covers(out(d), 0, seen[d]) \/ NoLate(out(d), 0, seen[d])
            BY <3>1, <4>2, CoveredOrNone
        <4>4. CASE Covers(out(d), 0, seen[d])
            BY <2>5, <4>4 DEF Settled, Covered, Covers
        <4>5. CASE NoLate(out(d), 0, seen[d]) /\ OnScreen(d)
          <5>1. overtaken'
              BY <2>4, <3>1, <3>2, <3>4, <4>5 DEF OnScreen
          <5>2. NoLate(out(d), 0, seen[d])'
              BY <2>5, <4>5 DEF NoLate
          <5> QED BY <2>3, <2>4, <2>7, <5>1, <5>2 DEF Settled
        <4> QED BY <4>2, <4>3, <4>4, <4>5 DEF Covered
      <3> QED BY <3>3, <3>4
    <2>9. ShownInv(d)'
        BY <2>3, <2>8 DEF ShownInv
    <2>a. ShownInv(chosen)'
        BY <2>3, <2>9 DEF ShownInv, Settled, Covered, OnScreen, LateAnswer
    <2> QED BY <2>1, <2>6, <2>7, <2>a, CurrentCalls
  <1>a. CASE UNCHANGED vars
    <2>1. UNCHANGED <<runtime, bridge, queue>>
        BY <1>a DEF vars, backend
    <2>2. /\ shown' = shown /\ chosen' = chosen /\ overtaken' = overtaken
          /\ call' = call /\ selected' = selected
        BY <1>a DEF vars, backend, asking, screen
    <2>3. PICK d \in Context : d = chosen
        BY ScreenTypes
    <2>4. truth' = truth /\ seen' = seen /\ out(d)' = out(d)
        BY <2>1, BackendStill
    <2>5. ShownInv(d)'
        BY <1>0, <2>2, <2>3, <2>4, CurrentStill
    <2>6. ShownInv(chosen)'
        BY <2>2, <2>3, <2>5 DEF ShownInv, Settled, Covered, OnScreen, LateAnswer
    <2>7. HandInv'
        BY <1>0, <2>2, <2>4 DEF HandInv
    <2>8. \A c \in Context : LateAnswer(c)' => LateAnswer(c)
        BY <2>2, <2>4 DEF LateAnswer
    <2> QED BY <2>1, <2>6, <2>7, <2>8, CurrentCalls
  <1> QED BY <1>1, <1>2, <1>3, <1>4, <1>5, <1>6, <1>7, <1>8, <1>9, <1>a DEF Next, Calling

\* When nothing is to come, what is settled is on the screen.
LEMMA CurrentInvGivesCurrent == Typed /\ CurrentInv /\ ~Busy => ScreenIsCurrent
  <1> SUFFICES ASSUME Typed, CurrentInv, Delivered, ~overtaken
               PROVE  chosen = selected /\ shown = truth[selected]
      BY DEF ScreenIsCurrent
  <1>1. PICK d \in Context : d = chosen
      BY ScreenTypes
  <1>2. call.op = "none" /\ call.step = ""
      BY DEF Delivered, Idle
  <1>3. selected = d
      BY <1>1, <1>2, ScreenTypes DEF CallTyped
  <1>4. queue[d] = <<>> /\ pump[d].at = "select" /\ seen[d] = truth[d].version
      BY DEF Delivered
  <1>5. out(d) = <<>>
      BY <1>4 DEF out
  <1>6. OnScreen(d)
    <2>1. Settled(d)
        BY <1>1, <1>2 DEF CurrentInv, ShownInv
    <2>2. ~Covered(d)
        BY <1>5 DEF Covered, Covers
    <2> QED BY <2>1, <2>2 DEF Settled
  <1>7. Reads(shown, truth[d])
      BY <1>6 DEF OnScreen, CurrentInv, HandInv
  <1>8. shown.version \in Nat /\ truth[d].version \in Nat
    <2>1. shown.version \in Versions
        BY ScreenTypes DEF Snapshot
    <2>2. Versions \subseteq Nat
        BY Numbers
    <2> QED BY <2>1, <2>2, ContextTypes
  <1>9. shown = truth[d]
      BY <1>4, <1>6, <1>7, <1>8 DEF OnScreen, Reads
  <1> QED BY <1>1, <1>3, <1>9

-------------------------------------------------------------------------------
(* The theorems.                                                                *)

\* The runtimes, the pumps, the channels and the screen keep their types; the broadcast
\* never holds more than its capacity (broadcast, pump_updates, handleUpdate).
THEOREM ViewTypes == Spec => []TypeOK
  <1>1. Typed => TypeOK
      BY DEF Typed
  <1> QED BY <1>1, TypedInit, TypedNext, PTL DEF Spec

\* The client folds an event only after the one before it, or after a snapshot, whatever
\* lags and whatever answer comes between (RuntimeSubscription::recv, handleUpdate).
THEOREM NoGapIsFolded == Spec => GapIsResynced
  <1>1. Init => Typed /\ GapInv
      BY TypedInit, GapInit
  <1>2. Typed /\ GapInv /\ [Next]_vars => (Typed /\ GapInv)'
      BY TypedNext, GapNext
  <1>3. Typed /\ GapInv /\ [Next]_vars =>
          [ heard' # heard /\ ~heard'.fresh
              => \/ heard.fresh \/ call.op = "select"
                 \/ heard'.context = heard.context /\ heard'.n = heard.n + 1 ]_vars
      BY GapNext
  <1> QED BY <1>1, <1>2, <1>3, PTL DEF Spec, GapIsResynced

\* Once everything is delivered the bubble holds nothing of a run whose end was broadcast,
\* but what it held when its project was left (pump_updates, handleUpdate, refreshProjects).
THEOREM BubbleEmpties == Spec => []BubbleIsRetired
  <1>1. Init => Typed /\ BubbleInv
      BY TypedInit, BubbleInit
  <1>2. Typed /\ BubbleInv /\ [Next]_vars => (Typed /\ BubbleInv)'
      BY TypedNext, BubbleNext
  <1> QED BY <1>1, <1>2, BubbleInvGivesRetired, PTL DEF Spec

\* Once everything is delivered the screen shows the selected project as it is, or an older
\* reading has been put over a newer one (emit_snapshot, pump_updates, handleUpdate).
THEOREM ScreenCatchesUp == Spec => []ScreenIsCurrent
  <1>1. CASE Busy
    <2>1. ScreenIsCurrent
        BY <1>1 DEF ScreenIsCurrent
    <2> QED BY <2>1, PTL
  <1>2. CASE ~Busy
    <2>1. Init => Typed /\ CurrentInv
        BY TypedInit, CurrentInit
    <2>2. Typed /\ CurrentInv /\ [Next]_vars => (Typed /\ CurrentInv)'
        BY <1>2, TypedNext, CurrentNext
    <2>3. Typed /\ CurrentInv => ScreenIsCurrent
        BY <1>2, CurrentInvGivesCurrent
    <2> QED BY <2>1, <2>2, <2>3, PTL DEF Spec
  <1> QED BY <1>1, <1>2
================================================================================
