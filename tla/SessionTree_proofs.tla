-------------------------- MODULE SessionTree_proofs --------------------------
(* What a resume rebuilds from one session's log, for a log of any length, any  *)
(* number of branches and any order of moves, checkpoints and crashes.  The      *)
(* recursive definitions (inOrder, branch_sequences) are reasoned about by       *)
(* induction over numbers, stated with a set in the place of a predicate.        *)
EXTENDS SessionTree, SequenceTheorems, WellFoundedInduction, TLAPS

-------------------------------------------------------------------------------
(* Induction over numbers, with a set in the place of a predicate: the        *)
(* recursive definitions of the tree are reasoned about with it.              *)

\* A nonempty set of numbers has a least element.
LEMMA LeastNumber ==
  ASSUME NEW T \in SUBSET Nat, T # {}
  PROVE  \E x \in T : \A y \in T : x <= y
  <1> DEFINE Less == {pair \in Nat \X Nat : pair[1] < pair[2]}
  <1>1. IsWellFoundedOn(Less, Nat)
      BY NatLessThanWellFounded DEF OpToRel
  <1>2. PICK x \in T : \A y \in T : <<y, x>> \notin Less
    <2> HIDE DEF Less
    <2> QED BY <1>1, WFMin
  <1>3. ASSUME NEW y \in T PROVE x <= y
    <2>1. <<y, x>> \in Nat \X Nat /\ <<y, x>>[1] = y /\ <<y, x>>[2] = x
        OBVIOUS
    <2>2. ~(y < x)
        BY <1>2, <2>1
    <2> QED BY <2>2
  <1> QED BY <1>3

LEMMA NumberInduction ==
  ASSUME NEW T, 0 \in T, \A n \in Nat : n \in T => n + 1 \in T
  PROVE  Nat \subseteq T
  <1>1. SUFFICES ASSUME Nat \ T # {} PROVE FALSE
      OBVIOUS
  <1>2. PICK x \in Nat \ T : \A y \in Nat \ T : x <= y
      BY <1>1, LeastNumber
  <1>3. x # 0 /\ x - 1 \in Nat /\ x - 1 \in T
      BY <1>2
  <1>4. (x - 1) + 1 = x
      BY <1>3
  <1> QED BY <1>3, <1>4

-------------------------------------------------------------------------------
(* Lists of events in order (inOrder). *)

\* f lists the elements of S below each number up to n.
Lists(f, n, S) ==
  /\ f \in [0 .. n -> Seq(Nat)]
  /\ f[0] = << >>
  /\ \A k \in 1 .. n : f[k] = IF k - 1 \in S THEN Append(f[k - 1], k - 1) ELSE f[k - 1]

LEMMA ListExists ==
  ASSUME NEW S, NEW n \in Nat
  PROVE  \E f : Lists(f, n, S)
  <1> DEFINE T == {k \in Nat : \E f : Lists(f, k, S)}
  <1>1. 0 \in T
    <2>1. Lists([k \in 0 .. 0 |-> << >>], 0, S)
        BY DEF Lists
    <2> QED BY <2>1
  <1>2. ASSUME NEW k \in Nat, k \in T PROVE k + 1 \in T
    <2>1. PICK f : Lists(f, k, S)
        BY <1>2
    <2> DEFINE last == IF k \in S THEN Append(f[k], k) ELSE f[k]
               g == [i \in 0 .. k + 1 |-> IF i = k + 1 THEN last ELSE f[i]]
    <2>2. last \in Seq(Nat)
        BY <2>1, AppendProperties DEF Lists
    <2> HIDE DEF last
    <2>3. g \in [0 .. k + 1 -> Seq(Nat)]
        BY <2>1, <2>2 DEF Lists
    <2>4. g[0] = << >>
      <3>1. 0 \in 0 .. k + 1 /\ 0 # k + 1
          OBVIOUS
      <3>2. g[0] = f[0]
          BY <3>1
      <3> QED BY <2>1, <3>2 DEF Lists
    <2>5. ASSUME NEW i \in 1 .. k + 1
          PROVE  g[i] = IF i - 1 \in S THEN Append(g[i - 1], i - 1) ELSE g[i - 1]
      <3>1. g[i - 1] = f[i - 1]
        <4>1. i - 1 \in 0 .. k + 1 /\ i - 1 # k + 1
            OBVIOUS
        <4> QED BY <4>1
      <3>4. g[i] = IF i = k + 1 THEN last ELSE f[i]
          OBVIOUS
      <3> HIDE DEF g
      <3>2. CASE i = k + 1
          BY <3>1, <3>2, <3>4 DEF last
      <3>3. CASE i # k + 1
        <4>1. i \in 1 .. k
            BY <3>3
        <4> QED BY <2>1, <3>1, <3>3, <3>4, <4>1 DEF Lists
      <3> QED BY <3>2, <3>3
    <2> HIDE DEF g
    <2>6. Lists(g, k + 1, S)
        BY <2>3, <2>4, <2>5 DEF Lists
    <2> QED BY <2>6
  <1> HIDE DEF T
  <1>3. Nat \subseteq T
      BY <1>1, <1>2, NumberInduction
  <1> QED BY <1>3 DEF T

\* inOrder is the last of those lists.
LEMMA InOrderLists ==
  ASSUME NEW l, Len(l) \in Nat, NEW S
  PROVE  \E f : Lists(f, Len(l), S) /\ inOrder(l, S) = f[Len(l)]
  <1> DEFINE n == Len(l)
             Fix(k) == k = [i \in 0 .. n |->
                              IF i = 0 THEN << >>
                              ELSE IF i - 1 \in S THEN Append(k[i - 1], i - 1)
                                                  ELSE k[i - 1]]
             kept == CHOOSE k : Fix(k)
  <1>1. inOrder(l, S) = kept[n]
      BY Zenon DEF inOrder
  <1>2. PICK f : Lists(f, n, S)
      BY ListExists
  <1>3. Fix(f)
    <2>1. ASSUME NEW i \in 0 .. n
          PROVE  f[i] = IF i = 0 THEN << >>
                        ELSE IF i - 1 \in S THEN Append(f[i - 1], i - 1) ELSE f[i - 1]
      <3>1. CASE i = 0
          BY <1>2, <3>1 DEF Lists
      <3>2. CASE i # 0
        <4>1. i \in 1 .. n
            BY <3>2
        <4> HIDE DEF n
        <4> QED BY <1>2, <3>2, <4>1 DEF Lists
      <3> QED BY <3>1, <3>2
    <2>2. f \in [0 .. n -> Seq(Nat)]
        BY <1>2 DEF Lists
    <2> HIDE DEF n
    <2> QED BY <2>1, <2>2
  <1>4. Fix(kept)
    <2> HIDE DEF Fix
    <2> QED BY <1>3
  <1> HIDE DEF kept
  <1>5. /\ DOMAIN kept = 0 .. n /\ kept[0] = << >>
        /\ \A k \in 1 .. n : kept[k] = IF k - 1 \in S THEN Append(kept[k - 1], k - 1)
                                                      ELSE kept[k - 1]
        /\ kept = [i \in 0 .. n |-> kept[i]]
    <2>1. \A i \in 0 .. n : kept[i] = IF i = 0 THEN << >>
                            ELSE IF i - 1 \in S THEN Append(kept[i - 1], i - 1)
                                                ELSE kept[i - 1]
        BY <1>4
    <2>2. kept = [i \in 0 .. n |-> kept[i]]
        BY <1>4
    <2> HIDE DEF Fix
    <2> QED BY <2>1, <2>2
  <1> HIDE DEF Fix
  <1> DEFINE T == {k \in Nat : k \in 0 .. n => kept[k] \in Seq(Nat)}
  <1>6. 0 \in T
      BY <1>5
  <1>7. ASSUME NEW k \in Nat, k \in T PROVE k + 1 \in T
    <2>1. SUFFICES ASSUME k + 1 \in 0 .. n PROVE kept[k + 1] \in Seq(Nat)
        OBVIOUS
    <2>2. kept[k] \in Seq(Nat) /\ k + 1 \in 1 .. n /\ (k + 1) - 1 = k
        BY <1>7, <2>1
    <2>3. kept[k + 1] = IF k \in S THEN Append(kept[k], k) ELSE kept[k]
        BY <1>5, <2>2
    <2> QED BY <2>2, <2>3, AppendProperties
  <1> HIDE DEF T
  <1>8. Nat \subseteq T
      BY <1>6, <1>7, NumberInduction
  <1>9. kept \in [0 .. n -> Seq(Nat)]
    <2>1. ASSUME NEW i \in 0 .. n PROVE kept[i] \in Seq(Nat)
        BY <1>8 DEF T
    <2> HIDE DEF n
    <2>2. [i \in 0 .. n |-> kept[i]] \in [0 .. n -> Seq(Nat)]
        BY <2>1
    <2>3. kept = [i \in 0 .. n |-> kept[i]]
        BY <1>5
    <2> QED BY <2>2, <2>3
  <1> QED BY <1>1, <1>5, <1>9 DEF Lists

\* Two lists of sets that agree below a number agree up to it.
LEMMA ListsAgree ==
  ASSUME NEW S, NEW R, NEW n \in Nat, NEW m \in Nat, NEW f, NEW g,
         Lists(f, n, S), Lists(g, m, R),
         NEW c \in Nat, c <= n, c <= m, \A k \in 0 .. c - 1 : k \in S <=> k \in R
  PROVE  f[c] = g[c]
  <1> DEFINE T == {k \in Nat : k <= c => f[k] = g[k]}
  <1>1. 0 \in T
      BY DEF Lists
  <1>2. ASSUME NEW k \in Nat, k \in T PROVE k + 1 \in T
    <2>1. SUFFICES ASSUME k + 1 <= c PROVE f[k + 1] = g[k + 1]
        OBVIOUS
    <2>2. /\ f[k] = g[k] /\ (k \in S <=> k \in R)
          /\ k + 1 \in 1 .. n /\ k + 1 \in 1 .. m /\ (k + 1) - 1 = k
        BY <1>2, <2>1
    <2>3. f[k + 1] = IF k \in S THEN Append(f[k], k) ELSE f[k]
        BY <2>2 DEF Lists
    <2>4. g[k + 1] = IF k \in R THEN Append(g[k], k) ELSE g[k]
        BY <2>2 DEF Lists
    <2> QED BY <2>2, <2>3, <2>4
  <1> HIDE DEF T
  <1>3. Nat \subseteq T
      BY <1>1, <1>2, NumberInduction
  <1> QED BY <1>3 DEF T

\* A sequence of numbers, each less than the next.
Rising(q) == \A i, j \in 1 .. Len(q) : i < j => q[i] < q[j]

\* A list holds elements of its set below its bound, in rising order.
LEMMA ListIsSorted ==
  ASSUME NEW S, NEW n \in Nat, NEW f, Lists(f, n, S)
  PROVE  /\ f[n] \in Seq(Nat) /\ Rising(f[n])
         /\ \A i \in 1 .. Len(f[n]) : f[n][i] \in S /\ f[n][i] < n
  <1> DEFINE Good(k) == /\ Rising(f[k])
                        /\ \A i \in 1 .. Len(f[k]) : f[k][i] \in S /\ f[k][i] < k
             T == {k \in Nat : k <= n => Good(k)}
  <1>1. 0 \in T
      BY DEF Lists, Rising
  <1>2. ASSUME NEW k \in Nat, k \in T PROVE k + 1 \in T
    <2>1. SUFFICES ASSUME k + 1 <= n PROVE Good(k + 1)
        OBVIOUS
    <2>2. Good(k) /\ k + 1 \in 1 .. n /\ (k + 1) - 1 = k /\ k \in 0 .. n
        BY <1>2, <2>1
    <2>3. f[k + 1] = IF k \in S THEN Append(f[k], k) ELSE f[k]
        BY <2>2 DEF Lists
    <2>4. f[k] \in Seq(Nat)
        BY <2>2 DEF Lists
    <2>5. CASE k \in S
      <3>1. f[k + 1] = Append(f[k], k)
          BY <2>3, <2>5
      <3>2. /\ Len(f[k + 1]) = Len(f[k]) + 1
            /\ f[k + 1][Len(f[k]) + 1] = k
            /\ \A i \in 1 .. Len(f[k]) : f[k + 1][i] = f[k][i]
            /\ Len(f[k]) \in Nat
            /\ \A i \in 1 .. Len(f[k]) : f[k][i] \in Nat
          BY <2>4, <3>1, AppendProperties, ElementOfSeq, LenProperties
      <3>3. ASSUME NEW i \in 1 .. Len(f[k + 1])
            PROVE  f[k + 1][i] \in S /\ f[k + 1][i] < k + 1
        <4>1. CASE i = Len(f[k]) + 1
            BY <2>5, <3>2, <4>1
        <4>2. CASE i \in 1 .. Len(f[k])
          <5>1. f[k + 1][i] = f[k][i] /\ f[k][i] \in Nat
              BY <3>2, <4>2
          <5>2. f[k][i] \in S /\ f[k][i] < k
              BY <2>2, <4>2
          <5> QED BY <5>1, <5>2
        <4> QED BY <3>2, <4>1, <4>2
      <3>4. ASSUME NEW i \in 1 .. Len(f[k + 1]), NEW j \in 1 .. Len(f[k + 1]), i < j
            PROVE  f[k + 1][i] < f[k + 1][j]
        <4>1. i \in 1 .. Len(f[k])
            BY <3>2, <3>4
        <4>2. CASE j = Len(f[k]) + 1
            BY <2>2, <3>2, <4>1, <4>2
        <4>3. CASE j \in 1 .. Len(f[k])
            BY <2>2, <3>2, <3>4, <4>1, <4>3 DEF Rising
        <4> QED BY <3>2, <4>2, <4>3
      <3> QED BY <3>3, <3>4 DEF Rising
    <2>6. CASE k \notin S
      <3>1. f[k + 1] = f[k]
          BY <2>3, <2>6
      <3>2. \A i \in 1 .. Len(f[k]) : f[k][i] \in Nat
          BY <2>4, ElementOfSeq
      <3> QED BY <2>2, <3>1, <3>2
    <2> QED BY <2>5, <2>6
  <1> HIDE DEF T
  <1>3. Nat \subseteq T
      BY <1>1, <1>2, NumberInduction
  <1>4. Good(n)
      BY <1>3 DEF T
  <1>5. f[n] \in Seq(Nat)
      BY DEF Lists
  <1> QED BY <1>4, <1>5

LEMMA AppendToConcat ==
  ASSUME NEW p \in Seq(Nat), NEW q \in Seq(Nat), NEW k \in Nat
  PROVE  Append(p \o q, k) = p \o Append(q, k)
  <1>1. p \o q \in Seq(Nat)
      BY ConcatProperties, Zenon
  <1>2. <<k>> \in Seq(Nat)
      OBVIOUS
  <1>3. Append(p \o q, k) = (p \o q) \o <<k>>
      BY <1>1, AppendIsConcat, Zenon
  <1>4. Append(q, k) = q \o <<k>>
      BY AppendIsConcat, Zenon
  <1>5. (p \o q) \o <<k>> = p \o (q \o <<k>>)
    <2>1. PICK u \in Seq(Nat) : u = <<k>>
        BY <1>2
    <2>2. (p \o q) \o u = p \o (q \o u)
        OBVIOUS
    <2> QED BY <2>1, <2>2, Zenon
  <1> QED BY <1>3, <1>4, <1>5, Zenon

\* A concatenation, by a name that keeps it out of the arithmetic.
Joined(p, q) == p \o q

\* A set cut at a number is listed as its two parts, one after the other.
LEMMA ListsConcat ==
  ASSUME NEW A, NEW B, NEW n \in Nat, NEW f, NEW g, NEW h, NEW c \in Nat,
         \A k \in A : k < c, \A k \in B : c <= k,
         Lists(f, n, A), Lists(g, n, B), Lists(h, n, A \union B)
  PROVE  h[n] = Joined(f[n], g[n])
  <1> DEFINE both(k) == f[k] \o g[k]
             T == {k \in Nat : k <= n => /\ h[k] = both(k)
                                         /\ k <= c => g[k] = << >>}
  <1>0. ASSUME NEW k \in 0 .. n PROVE f[k] \in Seq(Nat) /\ g[k] \in Seq(Nat)
      BY DEF Lists
  <1>1. 0 \in T
    <2>1. f[0] = << >> /\ g[0] = << >> /\ h[0] = << >>
        BY DEF Lists
    <2>2. both(0) = << >>
      <3>1. << >> \in Seq(Nat)
          OBVIOUS
      <3>2. << >> \o << >> = << >>
          BY <3>1, ConcatEmptySeq, Zenon
      <3> QED BY <2>1, <3>2, Zenon
    <2> HIDE DEF both
    <2> QED BY <2>1, <2>2
  <1>2. ASSUME NEW k \in Nat, k \in T PROVE k + 1 \in T
    <2> HIDE DEF both
    <2>1. SUFFICES ASSUME k + 1 <= n
                   PROVE  /\ h[k + 1] = both(k + 1)
                          /\ k + 1 <= c => g[k + 1] = << >>
        OBVIOUS
    <2>2. /\ h[k] = both(k) /\ (k <= c => g[k] = << >>)
          /\ k + 1 \in 1 .. n /\ (k + 1) - 1 = k /\ k \in 0 .. n /\ k + 1 \in 0 .. n
        BY <1>2, <2>1
    <2>3. /\ f[k + 1] = IF k \in A THEN Append(f[k], k) ELSE f[k]
          /\ g[k + 1] = IF k \in B THEN Append(g[k], k) ELSE g[k]
          /\ h[k + 1] = IF k \in A \union B THEN Append(h[k], k) ELSE h[k]
        BY <2>2 DEF Lists
    <2>4. /\ f[k] \in Seq(Nat) /\ g[k] \in Seq(Nat)
          /\ f[k + 1] \in Seq(Nat) /\ g[k + 1] \in Seq(Nat)
        BY <1>0, <2>2
    <2>5. CASE k \in A
      <3>1. k \notin B /\ k < c
          BY <2>5
      <3>2. g[k] = << >> /\ g[k + 1] = << >>
          BY <2>2, <2>3, <3>1
      <3>3. f[k + 1] = Append(f[k], k) /\ h[k + 1] = Append(h[k], k)
          BY <2>3, <2>5
      <3>4. both(k) = f[k] /\ both(k + 1) = f[k + 1]
          BY <2>4, <3>2, ConcatEmptySeq, Zenon DEF both
      <3> QED BY <2>2, <3>2, <3>3, <3>4
    <2>6. CASE k \in B
      <3>1. k \notin A /\ ~(k + 1 <= c)
          BY <2>6
      <3>2. f[k + 1] = f[k] /\ g[k + 1] = Append(g[k], k) /\ h[k + 1] = Append(h[k], k)
          BY <2>3, <2>6, <3>1
      <3>3. Append(both(k), k) = both(k + 1)
        <4>1. Append(f[k] \o g[k], k) = f[k] \o Append(g[k], k)
            BY <2>4, AppendToConcat, Zenon
        <4> QED BY <3>2, <4>1, Zenon DEF both
      <3> QED BY <2>2, <3>1, <3>2, <3>3
    <2>7. CASE k \notin A \union B
      <3>1. f[k + 1] = f[k] /\ g[k + 1] = g[k] /\ h[k + 1] = h[k]
          BY <2>3, <2>7
      <3>2. both(k + 1) = both(k)
          BY <3>1, Zenon DEF both
      <3> QED BY <2>2, <3>1, <3>2
    <2> QED BY <2>5, <2>6, <2>7
  <1> HIDE DEF T
  <1>3. Nat \subseteq T
      BY <1>1, <1>2, NumberInduction
  <1>4. n \in T
      BY <1>3
  <1>5. h[n] = both(n)
    <2> HIDE DEF both
    <2> QED BY <1>4 DEF T
  <1> QED BY <1>5, Zenon DEF Joined

LEMMA InOrderSorted ==
  ASSUME NEW l, Len(l) \in Nat, NEW S
  PROVE  /\ inOrder(l, S) \in Seq(Nat) /\ Rising(inOrder(l, S))
         /\ \A i \in 1 .. Len(inOrder(l, S)) :
              inOrder(l, S)[i] \in S /\ inOrder(l, S)[i] < Len(l)
  <1>1. PICK f : Lists(f, Len(l), S) /\ inOrder(l, S) = f[Len(l)]
      BY InOrderLists
  <1> QED BY <1>1, ListIsSorted

\* One event more appends itself to the list, or nothing.
LEMMA InOrderNext ==
  ASSUME NEW l, NEW k, Len(l) \in Nat, Len(k) = Len(l) + 1, NEW S, NEW R,
         \A i \in 0 .. Len(l) - 1 : i \in S <=> i \in R
  PROVE  inOrder(k, R) = IF Len(l) \in R THEN Append(inOrder(l, S), Len(l))
                                         ELSE inOrder(l, S)
  <1>1. PICK f : Lists(f, Len(l), S) /\ inOrder(l, S) = f[Len(l)]
      BY InOrderLists
  <1>2. PICK g : Lists(g, Len(l) + 1, R) /\ inOrder(k, R) = g[Len(l) + 1]
    <2>1. Len(k) \in Nat
        OBVIOUS
    <2>2. \E g : Lists(g, Len(k), R) /\ inOrder(k, R) = g[Len(k)]
        BY <2>1, InOrderLists
    <2> QED BY <2>2
  <1>3. f[Len(l)] = g[Len(l)]
    <2>1. PICK n \in Nat : n = Len(l)
        OBVIOUS
    <2>2. n + 1 \in Nat /\ n <= n /\ n <= n + 1
        OBVIOUS
    <2>3. Lists(f, n, S) /\ Lists(g, n + 1, R)
        BY <1>1, <1>2, <2>1
    <2>4. \A i \in 0 .. n - 1 : i \in S <=> i \in R
        BY <2>1
    <2>5. f[n] = g[n]
        BY <2>2, <2>3, <2>4, ListsAgree
    <2> QED BY <2>1, <2>5
  <1>4. Len(l) + 1 \in 1 .. Len(l) + 1 /\ (Len(l) + 1) - 1 = Len(l)
      OBVIOUS
  <1>5. g[Len(l) + 1] = IF Len(l) \in R THEN Append(g[Len(l)], Len(l)) ELSE g[Len(l)]
      BY <1>2, <1>4 DEF Lists
  <1> QED BY <1>1, <1>2, <1>3, <1>5

LEMMA InOrderConcat ==
  ASSUME NEW l, Len(l) \in Nat, NEW A, NEW B, NEW c \in Nat,
         \A k \in A : k < c, \A k \in B : c <= k
  PROVE  inOrder(l, A \union B) = Joined(inOrder(l, A), inOrder(l, B))
  <1>0. PICK n \in Nat : n = Len(l)
      OBVIOUS
  <1>1. PICK f : Lists(f, n, A) /\ inOrder(l, A) = f[n]
      BY <1>0, InOrderLists
  <1>2. PICK g : Lists(g, n, B) /\ inOrder(l, B) = g[n]
      BY <1>0, InOrderLists
  <1>3. PICK h : Lists(h, n, A \union B) /\ inOrder(l, A \union B) = h[n]
      BY <1>0, InOrderLists
  <1>4. h[n] = Joined(f[n], g[n])
      BY <1>1, <1>2, <1>3, ListsConcat
  <1> QED BY <1>1, <1>2, <1>3, <1>4

-------------------------------------------------------------------------------
(* The log and its messages. *)

Event == [kind : Kind, parent : Int]

\* An append leaves every earlier event as it was.
LEMMA AppendedLog ==
  ASSUME NEW l \in Seq(Event), NEW e \in Event
  PROVE  /\ Append(l, e) \in Seq(Event) /\ Len(Append(l, e)) = Len(l) + 1
         /\ Len(l) \in Nat
         /\ Sequences(Append(l, e)) = Sequences(l) \union {Len(l)}
         /\ \A s \in Sequences(l) : /\ Append(l, e)[s + 1] = l[s + 1]
                                    /\ kindOf(Append(l, e), s) = kindOf(l, s)
                                    /\ parentOf(Append(l, e), s) = parentOf(l, s)
         /\ Append(l, e)[Len(l) + 1] = e
         /\ kindOf(Append(l, e), Len(l)) = e.kind
         /\ parentOf(Append(l, e), Len(l)) =
              IF e.parent # NoSequence THEN e.parent ELSE Len(l) - 1
  <1>1. /\ Append(l, e) \in Seq(Event) /\ Len(Append(l, e)) = Len(l) + 1
        /\ Append(l, e)[Len(l) + 1] = e /\ Len(l) \in Nat
        /\ \A i \in 1 .. Len(l) : Append(l, e)[i] = l[i]
      BY AppendProperties, LenProperties
  <1>2. Sequences(Append(l, e)) = Sequences(l) \union {Len(l)}
      BY <1>1 DEF Sequences
  <1>3. \A s \in Sequences(l) : Append(l, e)[s + 1] = l[s + 1]
      BY <1>1 DEF Sequences
  <1> QED BY <1>1, <1>2, <1>3 DEF kindOf, parentOf

\* messagesOf lists messages of S that the log has, in order; rebuilt likewise.
LEMMA MessagesSorted ==
  ASSUME NEW l \in Seq(Event), NEW S
  PROVE  /\ messagesOf(l, S) \in Seq(Nat) /\ Rising(messagesOf(l, S))
         /\ \A i \in 1 .. Len(messagesOf(l, S)) :
              messagesOf(l, S)[i] \in S /\ messagesOf(l, S)[i] \in Sequences(l)
         /\ rebuilt(l, S) \in Seq(Nat) /\ Rising(rebuilt(l, S))
         /\ \A i \in 1 .. Len(rebuilt(l, S)) :
              rebuilt(l, S)[i] \in S /\ rebuilt(l, S)[i] \in Sequences(l)
  <1>1. Len(l) \in Nat
      BY LenProperties
  <1>2. ASSUME NEW R \in SUBSET S
        PROVE  /\ inOrder(l, R) \in Seq(Nat) /\ Rising(inOrder(l, R))
               /\ \A i \in 1 .. Len(inOrder(l, R)) :
                    inOrder(l, R)[i] \in S /\ inOrder(l, R)[i] \in Sequences(l)
    <2>1. /\ inOrder(l, R) \in Seq(Nat) /\ Rising(inOrder(l, R))
          /\ \A i \in 1 .. Len(inOrder(l, R)) :
               inOrder(l, R)[i] \in R /\ inOrder(l, R)[i] < Len(l)
        BY <1>1, InOrderSorted
    <2>2. \A i \in 1 .. Len(inOrder(l, R)) : inOrder(l, R)[i] \in Nat
        BY <2>1, ElementOfSeq
    <2> QED BY <1>1, <2>1, <2>2 DEF Sequences
  <1>3. {s \in S : introduces_message(l, s)} \in SUBSET S
      OBVIOUS
  <1>4. {s \in S : kindOf(l, s) \in {"User", "Reply"}} \in SUBSET S
      OBVIOUS
  <1> QED BY <1>2, <1>3, <1>4 DEF messagesOf, rebuilt

\* The messages of a longer log: those before, and the new one if it is one.
LEMMA MessagesNext ==
  ASSUME NEW l \in Seq(Event), NEW e \in Event, NEW S \in SUBSET Sequences(l)
  PROVE  /\ messagesOf(Append(l, e), S) = messagesOf(l, S)
         /\ messagesOf(Append(l, e), S \union {Len(l)}) =
              IF e.kind \in {"User", "Reply", "Tool"}
              THEN Append(messagesOf(l, S), Len(l)) ELSE messagesOf(l, S)
  <1> DEFINE k == Append(l, e)
             Told(m, R) == {s \in R : introduces_message(m, s)}
  <1>1. /\ Len(l) \in Nat /\ Len(k) = Len(l) + 1 /\ kindOf(k, Len(l)) = e.kind
        /\ \A s \in Sequences(l) : introduces_message(k, s) <=> introduces_message(l, s)
      BY AppendedLog DEF introduces_message
  <1>2. Len(l) \notin S
      BY <1>1 DEF Sequences
  <1>3. \A i \in 0 .. Len(l) - 1 : i \in Told(l, S) <=> i \in Told(k, S)
      BY <1>1 DEF Sequences
  <1>4. \A i \in 0 .. Len(l) - 1 : i \in Told(l, S) <=> i \in Told(k, S \union {Len(l)})
      BY <1>1 DEF Sequences
  <1>5. Len(l) \notin Told(k, S)
      BY <1>2
  <1>6. Len(l) \in Told(k, S \union {Len(l)}) <=> e.kind \in {"User", "Reply", "Tool"}
      BY <1>1 DEF introduces_message
  <1> HIDE DEF k, Told
  <1>7. inOrder(k, Told(k, S)) = inOrder(l, Told(l, S))
      BY <1>1, <1>3, <1>5, InOrderNext
  <1>8. inOrder(k, Told(k, S \union {Len(l)})) =
          IF Len(l) \in Told(k, S \union {Len(l)})
          THEN Append(inOrder(l, Told(l, S)), Len(l)) ELSE inOrder(l, Told(l, S))
    <2>1. PICK R : R = Told(k, S \union {Len(l)})
        OBVIOUS
    <2>2. \A i \in 0 .. Len(l) - 1 : i \in Told(l, S) <=> i \in R
        BY <1>4, <2>1
    <2>3. inOrder(k, R) = IF Len(l) \in R
                          THEN Append(inOrder(l, Told(l, S)), Len(l))
                          ELSE inOrder(l, Told(l, S))
        BY <1>1, <2>2, InOrderNext
    <2> QED BY <2>1, <2>3
  <1> USE DEF k, Told
  <1>9. \A m, R : messagesOf(m, R) = inOrder(m, Told(m, R))
      BY DEF messagesOf
  <1> HIDE DEF Told
  <1> QED BY <1>6, <1>7, <1>8, <1>9

\* A cut between two messages cuts the list of them.
LEMMA MessagesConcat ==
  ASSUME NEW l \in Seq(Event), NEW A, NEW B, NEW c \in Nat,
         \A k \in A : k < c, \A k \in B : c <= k
  PROVE  messagesOf(l, A \union B) = Joined(messagesOf(l, A), messagesOf(l, B))
  <1> DEFINE Told(R) == {s \in R : introduces_message(l, s)}
  <1>1. Len(l) \in Nat
      BY LenProperties
  <1>2. (\A k \in Told(A) : k < c) /\ (\A k \in Told(B) : c <= k)
      OBVIOUS
  <1>3. Told(A \union B) = Told(A) \union Told(B)
      OBVIOUS
  <1>4. /\ messagesOf(l, A \union B) = inOrder(l, Told(A \union B))
        /\ messagesOf(l, A) = inOrder(l, Told(A)) /\ messagesOf(l, B) = inOrder(l, Told(B))
      BY DEF messagesOf
  <1> HIDE DEF Told
  <1>5. inOrder(l, Told(A) \union Told(B))
          = Joined(inOrder(l, Told(A)), inOrder(l, Told(B)))
    <2>1. PICK X, Y : X = Told(A) /\ Y = Told(B)
        OBVIOUS
    <2>2. (\A k \in X : k < c) /\ (\A k \in Y : c <= k)
        BY <1>2, <2>1
    <2>3. inOrder(l, X \union Y) = Joined(inOrder(l, X), inOrder(l, Y))
        BY <1>1, <2>2, InOrderConcat
    <2> QED BY <2>1, <2>3
  <1>6. messagesOf(l, A \union B) = inOrder(l, Told(A) \union Told(B))
      BY <1>3, <1>4
  <1> QED BY <1>4, <1>5, <1>6

-------------------------------------------------------------------------------
(* The walk from the leaf (branch_sequences). *)

\* up holds, for every event, the events on the path from it to the root.
Walks(up, l) ==
  \A s \in Sequences(l) :
    up[s] = {s} \union IF parentOf(l, s) \in Sequences(l) THEN up[parentOf(l, s)]
                                                          ELSE {}

LEMMA BranchWalk ==
  ASSUME NEW l, NEW f
  PROVE  \E up : Walks(up, l) /\ branch_sequences(l, f) = up[leafOf(l, f)]
  <1> DEFINE D == Sequences(l)
             Fix(up) == up = [s \in D |->
                                {s} \union IF parentOf(l, s) \in D
                                           THEN up[parentOf(l, s)] ELSE {}]
             Closed(C) == \A u \in C : parentOf(l, u) \in D => parentOf(l, u) \in C
             A(s) == {t \in D : \A C \in SUBSET D : s \in C /\ Closed(C) => t \in C}
             g == [s \in D |-> A(s)]
             path == CHOOSE up : Fix(up)
  <1>1. Fix(g)
    <2>1. ASSUME NEW s \in D
          PROVE  A(s) = {s} \union IF parentOf(l, s) \in D THEN A(parentOf(l, s)) ELSE {}
      <3> HIDE DEF D
      <3>1. CASE parentOf(l, s) \in D
        <4> DEFINE C == {s} \union A(parentOf(l, s))
        <4>1. C \in SUBSET D /\ Closed(C) /\ s \in C
            BY <3>1
        <4>2. A(s) \subseteq C
            BY <4>1
        <4>3. C \subseteq A(s)
            BY <3>1
        <4> QED BY <3>1, <4>2, <4>3
      <3>2. CASE parentOf(l, s) \notin D
        <4>1. A(s) \subseteq {s}
            BY <3>2
        <4> QED BY <3>2, <4>1
      <3> QED BY <3>1, <3>2
    <2> HIDE DEF A, D
    <2> QED BY <2>1
  <1> HIDE DEF g
  <1>2. Fix(path)
    <2> HIDE DEF Fix
    <2> QED BY <1>1
  <1>3. branch_sequences(l, f) = path[leafOf(l, f)]
      BY Zenon DEF branch_sequences
  <1> HIDE DEF path
  <1>4. Walks(path, l)
      BY <1>2 DEF Walks
  <1> QED BY <1>3, <1>4

\* What a well-formed log has: a first event, and parents that come before.
Tree(l) ==
  /\ l \in Seq(Event) /\ Len(l) \in Nat \ {0}
  /\ \A s \in Sequences(l) : parentOf(l, s) \in -1 .. s - 1

\* Nothing on a branch is younger than its leaf.
LEMMA BranchBelow ==
  ASSUME NEW l, Tree(l), NEW f \in {NoSequence} \union Sequences(l)
  PROVE  branch_sequences(l, f) \subseteq 0 .. leafOf(l, f)
  <1>1. PICK up : Walks(up, l) /\ branch_sequences(l, f) = up[leafOf(l, f)]
      BY BranchWalk
  <1>2. leafOf(l, f) \in Sequences(l)
      BY DEF Tree, leafOf, Sequences
  <1> DEFINE T == {k \in Nat : \A s \in Sequences(l) : s <= k => up[s] \subseteq 0 .. s}
  <1>3. ASSUME NEW k \in Nat, \A s \in Sequences(l) : s < k => up[s] \subseteq 0 .. s
        PROVE  k \in T
    <2>1. SUFFICES ASSUME NEW s \in Sequences(l), s <= k PROVE up[s] \subseteq 0 .. s
        OBVIOUS
    <2>2. /\ up[s] = {s} \union IF parentOf(l, s) \in Sequences(l)
                                THEN up[parentOf(l, s)] ELSE {}
          /\ parentOf(l, s) \in -1 .. s - 1 /\ s \in Nat
        BY <1>1 DEF Walks, Tree, Sequences
    <2>3. CASE parentOf(l, s) \in Sequences(l)
      <3>1. parentOf(l, s) < k
          BY <2>1, <2>2
      <3>2. up[parentOf(l, s)] \subseteq 0 .. parentOf(l, s)
          BY <1>3, <2>3, <3>1
      <3> QED BY <2>2, <2>3, <3>2
    <2>4. CASE parentOf(l, s) \notin Sequences(l)
        BY <2>2, <2>4
    <2> QED BY <2>3, <2>4
  <1>4. 0 \in T
    <2>1. \A s \in Sequences(l) : ~(s < 0)
        BY DEF Sequences, Tree
    <2> QED BY <1>3, <2>1
  <1>5. ASSUME NEW k \in Nat, k \in T PROVE k + 1 \in T
    <2>1. \A s \in Sequences(l) : s < k + 1 => s <= k
        BY DEF Sequences, Tree
    <2>2. \A s \in Sequences(l) : s < k + 1 => up[s] \subseteq 0 .. s
        BY <1>5, <2>1
    <2> HIDE DEF T
    <2> QED BY <1>3, <2>2
  <1> HIDE DEF T
  <1>6. Nat \subseteq T
      BY <1>4, <1>5, NumberInduction
  <1>7. leafOf(l, f) \in T /\ leafOf(l, f) <= leafOf(l, f)
      BY <1>2, <1>6 DEF Sequences, Tree
  <1>8. up[leafOf(l, f)] \subseteq 0 .. leafOf(l, f)
      BY <1>2, <1>7 DEF T
  <1> QED BY <1>1, <1>8

\* A log no event of which names a parent is one line.
LEMMA BranchLine ==
  ASSUME NEW l, Tree(l), \A s \in Sequences(l) : l[s + 1].parent = NoSequence
  PROVE  branch_sequences(l, NoSequence) = Sequences(l)
  <1>1. PICK up : Walks(up, l) /\ branch_sequences(l, NoSequence)
                                    = up[leafOf(l, NoSequence)]
      BY BranchWalk
  <1>2. leafOf(l, NoSequence) = Len(l) - 1 /\ Len(l) - 1 \in Nat /\ Len(l) \in Nat
      BY DEF Tree, leafOf
  <1>3. \A s \in Sequences(l) : parentOf(l, s) = s - 1
      BY DEF parentOf
  <1> DEFINE T == {k \in Nat : k < Len(l) => up[k] = 0 .. k}
  <1>4. 0 \in T
    <2>1. 0 \in Sequences(l) /\ parentOf(l, 0) \notin Sequences(l)
        BY <1>2, <1>3 DEF Sequences
    <2>2. up[0] = {0}
        BY <1>1, <2>1 DEF Walks
    <2> QED BY <2>2
  <1>5. ASSUME NEW k \in Nat, k \in T PROVE k + 1 \in T
    <2>1. SUFFICES ASSUME k + 1 < Len(l) PROVE up[k + 1] = 0 .. k + 1
        OBVIOUS
    <2>2. up[k] = 0 .. k
        BY <1>2, <1>5, <2>1
    <2>3. k \in Sequences(l) /\ k + 1 \in Sequences(l) /\ parentOf(l, k + 1) = k
        BY <1>2, <1>3, <2>1 DEF Sequences
    <2>4. up[k + 1] = {k + 1} \union up[k]
        BY <1>1, <2>3 DEF Walks
    <2> QED BY <2>2, <2>4
  <1> HIDE DEF T
  <1>6. Nat \subseteq T
      BY <1>4, <1>5, NumberInduction
  <1>7. up[Len(l) - 1] = 0 .. Len(l) - 1
    <2>1. Len(l) - 1 \in T /\ Len(l) - 1 < Len(l)
        BY <1>2, <1>6
    <2> QED BY <2>1 DEF T
  <1> QED BY <1>1, <1>2, <1>7 DEF Sequences

-------------------------------------------------------------------------------
(* Transcripts: messages in the order they were said. *)

Ordered(m, bound) ==
  /\ m \in Seq(Nat) /\ Rising(m)
  /\ \A i \in 1 .. Len(m) : m[i] < bound

LEMMA OrderedEmpty ==
  ASSUME NEW n \in Nat
  PROVE  Ordered(<< >>, n)
  BY DEF Ordered, Rising

LEMMA OrderedLater ==
  ASSUME NEW n \in Nat, NEW m, Ordered(m, n), NEW k \in Nat, n <= k
  PROVE  Ordered(m, k)
  <1>1. \A i \in 1 .. Len(m) : m[i] \in Nat
      BY ElementOfSeq DEF Ordered
  <1> QED BY <1>1 DEF Ordered

LEMMA OrderedAppend ==
  ASSUME NEW n \in Nat, NEW m, Ordered(m, n)
  PROVE  Ordered(Append(m, n), n + 1)
  <1> DEFINE w == Append(m, n)
  <1>1. /\ w \in Seq(Nat) /\ Len(w) = Len(m) + 1 /\ w[Len(m) + 1] = n
        /\ Len(m) \in Nat
        /\ \A i \in 1 .. Len(m) : w[i] = m[i] /\ m[i] \in Nat /\ m[i] < n
      BY AppendProperties, LenProperties, ElementOfSeq DEF Ordered
  <1> HIDE DEF w
  <1>2. ASSUME NEW i \in 1 .. Len(w) PROVE w[i] < n + 1
    <2>1. CASE i = Len(m) + 1
        BY <1>1, <2>1
    <2>2. CASE i \in 1 .. Len(m)
        BY <1>1, <2>2
    <2> QED BY <1>1, <2>1, <2>2
  <1>3. ASSUME NEW i \in 1 .. Len(w), NEW j \in 1 .. Len(w), i < j PROVE w[i] < w[j]
    <2>1. i \in 1 .. Len(m)
        BY <1>1, <1>3
    <2>2. CASE j = Len(m) + 1
        BY <1>1, <2>1, <2>2
    <2>3. CASE j \in 1 .. Len(m)
        BY <1>1, <1>3, <2>1, <2>3 DEF Ordered, Rising
    <2> QED BY <1>1, <2>2, <2>3
  <1>4. Ordered(w, n + 1)
      BY <1>1, <1>2, <1>3 DEF Ordered, Rising
  <1> QED BY <1>4 DEF w

\* What was said before c, then what was said from c on, is in order; each of its
\* messages is one of theirs.
LEMMA OrderedJoined ==
  ASSUME NEW c \in Nat, NEW n \in Nat, c <= n, NEW p, NEW q,
         Ordered(p, c), Ordered(q, n), \A i \in 1 .. Len(q) : c <= q[i]
  PROVE  /\ Ordered(Joined(p, q), n)
         /\ \A i \in 1 .. Len(Joined(p, q)) :
              \/ \E j \in 1 .. Len(p) : Joined(p, q)[i] = p[j]
              \/ \E j \in 1 .. Len(q) : Joined(p, q)[i] = q[j]
  <1> DEFINE w == Joined(p, q)
  <1>1. p \in Seq(Nat) /\ q \in Seq(Nat)
      BY DEF Ordered
  <1>2. /\ w \in Seq(Nat) /\ Len(w) = Len(p) + Len(q)
        /\ \A i \in 1 .. Len(p) + Len(q) : w[i] = IF i <= Len(p) THEN p[i]
                                                  ELSE q[i - Len(p)]
      BY <1>1, ConcatProperties, Zenon DEF Joined
  <1>3. /\ Len(p) \in Nat /\ Len(q) \in Nat
        /\ \A i \in 1 .. Len(p) : p[i] \in Nat /\ p[i] < c
        /\ \A i \in 1 .. Len(q) : q[i] \in Nat /\ q[i] < n /\ c <= q[i]
      BY <1>1, LenProperties, ElementOfSeq DEF Ordered
  <1> HIDE DEF w
  <1>4. ASSUME NEW i \in 1 .. Len(w)
        PROVE  \/ i \in 1 .. Len(p) /\ w[i] = p[i]
               \/ i > Len(p) /\ i - Len(p) \in 1 .. Len(q) /\ w[i] = q[i - Len(p)]
      BY <1>2, <1>3
  <1>5. ASSUME NEW i \in 1 .. Len(w) PROVE w[i] < n
    <2>1. CASE i \in 1 .. Len(p) /\ w[i] = p[i]
        BY <1>3, <2>1
    <2>2. CASE i - Len(p) \in 1 .. Len(q) /\ w[i] = q[i - Len(p)]
        BY <1>3, <2>2
    <2> QED BY <1>4, <2>1, <2>2
  <1>6. ASSUME NEW i \in 1 .. Len(w), NEW j \in 1 .. Len(w), i < j PROVE w[i] < w[j]
    <2>1. CASE j \in 1 .. Len(p) /\ w[j] = p[j]
      <3>1. i \in 1 .. Len(p)
          BY <1>3, <1>6, <2>1
      <3>2. w[i] = p[i]
          BY <1>2, <1>3, <3>1
      <3> QED BY <1>6, <2>1, <3>1, <3>2 DEF Ordered, Rising
    <2>2. CASE j > Len(p) /\ j - Len(p) \in 1 .. Len(q) /\ w[j] = q[j - Len(p)]
      <3>1. CASE i \in 1 .. Len(p) /\ w[i] = p[i]
        <4>1. p[i] \in Nat /\ p[i] < c
            BY <1>3, <3>1
        <4>2. w[j] \in Nat /\ c <= w[j]
            BY <1>3, <2>2
        <4> QED BY <3>1, <4>1, <4>2
      <3>2. CASE i > Len(p) /\ i - Len(p) \in 1 .. Len(q) /\ w[i] = q[i - Len(p)]
        <4>1. i - Len(p) < j - Len(p)
            BY <1>2, <1>3, <1>6
        <4> QED BY <2>2, <3>2, <4>1 DEF Ordered, Rising
      <3> QED BY <1>4, <3>1, <3>2
    <2> QED BY <1>4, <2>1, <2>2
  <1>7. Ordered(w, n)
      BY <1>2, <1>5, <1>6 DEF Ordered, Rising
  <1>8. \A i \in 1 .. Len(w) : \/ \E j \in 1 .. Len(p) : w[i] = p[j]
                               \/ \E j \in 1 .. Len(q) : w[i] = q[j]
      BY <1>4
  <1> QED BY <1>7, <1>8 DEF w

\* A checkpoint of a log: messages in order, from the events it covers.
CheckpointOf(c, l) ==
  /\ c \in [extent : Nat, messages : Seq(Nat)] /\ c.extent <= Len(l)
  /\ Ordered(c.messages, c.extent)

\* What a resume shows is on the branch and in the order it was said, whichever
\* checkpoint it starts from (branch_events_from): a checkpoint counts only when
\* all it covers is on the branch.
LEMMA ReplayOrdered ==
  ASSUME NEW l, Tree(l), NEW f \in {NoSequence} \union Sequences(l),
         NEW c, CheckpointOf(c, l)
  PROVE  /\ Ordered(replay(l, f, c).messages, Len(l))
         /\ \A i \in 1 .. Len(replay(l, f, c).messages) :
              replay(l, f, c).messages[i] \in branch_sequences(l, f)
         /\ replay(l, f, c).interrupted \in BOOLEAN
  <1> DEFINE base == IF Covers(l, f, c) THEN c ELSE NoCheckpoint
             tail == tailFrom(l, f, base.extent)
             late == messagesOf(l, tail)
  <1>1. /\ replay(l, f, c).messages = Joined(base.messages, late)
        /\ replay(l, f, c).interrupted = interrupted(l, tail)
      BY Zenon DEF replay, Joined
  <1>2. base.extent \in Nat /\ base.extent <= Len(l) /\ Ordered(base.messages, base.extent)
    <2>1. CASE Covers(l, f, c)
        BY <2>1 DEF CheckpointOf
    <2>2. CASE ~Covers(l, f, c)
        BY <2>2, OrderedEmpty DEF NoCheckpoint, Tree
    <2> QED BY <2>1, <2>2
  <1>3. \A i \in 1 .. Len(base.messages) : base.messages[i] \in branch_sequences(l, f)
    <2>1. CASE Covers(l, f, c)
      <3>1. ASSUME NEW i \in 1 .. Len(c.messages)
            PROVE  c.messages[i] \in 0 .. c.extent - 1
        <4>1. c.messages[i] \in Nat /\ c.messages[i] < c.extent /\ c.extent \in Nat
            BY ElementOfSeq DEF CheckpointOf, Ordered
        <4> QED BY <4>1
      <3> QED BY <2>1, <3>1 DEF Covers
    <2>2. CASE ~Covers(l, f, c)
        BY <2>2 DEF NoCheckpoint
    <2> QED BY <2>1, <2>2
  <1>4. /\ Ordered(late, Len(l))
        /\ \A i \in 1 .. Len(late) : late[i] \in tail
    <2>1. /\ late \in Seq(Nat) /\ Rising(late)
          /\ \A i \in 1 .. Len(late) : late[i] \in tail /\ late[i] \in Sequences(l)
        BY MessagesSorted DEF Tree
    <2>2. \A i \in 1 .. Len(late) : late[i] < Len(l)
        BY <2>1 DEF Sequences, Tree
    <2> QED BY <2>1, <2>2 DEF Ordered
  <1>5. \A i \in 1 .. Len(late) : base.extent <= late[i] /\ late[i] \in branch_sequences(l, f)
      BY <1>4 DEF tailFrom
  <1>6. Len(l) \in Nat
      BY DEF Tree
  <1> HIDE DEF base, tail, late
  <1>7. /\ Ordered(Joined(base.messages, late), Len(l))
        /\ \A i \in 1 .. Len(Joined(base.messages, late)) :
             \/ \E j \in 1 .. Len(base.messages) :
                  Joined(base.messages, late)[i] = base.messages[j]
             \/ \E j \in 1 .. Len(late) : Joined(base.messages, late)[i] = late[j]
      BY <1>2, <1>4, <1>5, <1>6, OrderedJoined
  <1>8. \A i \in 1 .. Len(Joined(base.messages, late)) :
          Joined(base.messages, late)[i] \in branch_sequences(l, f)
      BY <1>3, <1>5, <1>7
  <1>9. interrupted(l, tail) \in BOOLEAN
      BY DEF interrupted
  <1> QED BY <1>1, <1>7, <1>8, <1>9

\* A log that is one line replays whole from any checkpoint that holds the
\* messages of what it covers.
LEMMA ReplayWhole ==
  ASSUME NEW l, Tree(l), \A s \in Sequences(l) : l[s + 1].parent = NoSequence,
         NEW c, CheckpointOf(c, l),
         c.messages = messagesOf(l, 0 .. c.extent - 1)
  PROVE  replay(l, NoSequence, c).messages = messagesOf(l, Sequences(l))
  <1>1. branch_sequences(l, NoSequence) = Sequences(l)
      BY BranchLine
  <1>2. c.extent \in Nat /\ c.extent <= Len(l) /\ Len(l) \in Nat /\ l \in Seq(Event)
      BY DEF CheckpointOf, Tree
  <1>3. Covers(l, NoSequence, c)
      BY <1>1, <1>2 DEF Covers, Sequences
  <1> DEFINE early == 0 .. c.extent - 1
             tail == tailFrom(l, NoSequence, c.extent)
  <1>4. replay(l, NoSequence, c).messages = Joined(c.messages, messagesOf(l, tail))
      BY <1>3, Zenon DEF replay, Joined
  <1>5. tail = {s \in Sequences(l) : s >= c.extent}
      BY <1>1 DEF tailFrom
  <1>6. early \union tail = Sequences(l)
      BY <1>2, <1>5 DEF Sequences
  <1>7. (\A s \in early : s < c.extent) /\ (\A s \in tail : c.extent <= s)
      BY <1>2, <1>5 DEF Sequences
  <1> HIDE DEF early, tail
  <1>8. messagesOf(l, early \union tail) = Joined(messagesOf(l, early), messagesOf(l, tail))
      BY <1>2, <1>7, MessagesConcat
  <1>9. c.messages = messagesOf(l, early)
      BY DEF early
  <1> QED BY <1>4, <1>6, <1>8, <1>9

-------------------------------------------------------------------------------
(* The invariant. *)

TreeInv ==
  /\ Tree(log)
  /\ leaf \in {NoSequence} \union Sequences(log)
  /\ CheckpointOf(checkpoint, log)
  /\ Ordered(transcript, Len(log))
  /\ branch_parent \in {NoSequence} \union Sequences(log)
  /\ run \in {"none", "starting", "running", "settled"}
  /\ open \in BOOLEAN /\ recovering \in BOOLEAN /\ moved \in BOOLEAN /\ branched \in BOOLEAN
  /\ branch_parent # NoSequence => leaf = branch_parent
  /\ run # "none" => open

\* A log that grew by one event keeps what was true of it.
LEMMA RecordKeeps ==
  ASSUME TreeInv, NEW kind \in Kind, NEW parent \in {NoSequence} \union Sequences(log),
         record(kind, parent)
  PROVE  /\ Tree(log') /\ Len(log') = Len(log) + 1 /\ Len(log) \in Nat
         /\ Sequences(log') = Sequences(log) \union {Len(log)}
         /\ moved' \in BOOLEAN
         /\ \A c : CheckpointOf(c, log) => CheckpointOf(c, log')
         /\ \A m : Ordered(m, Len(log)) => Ordered(m, Len(log'))
         /\ \A m : Ordered(m, Len(log)) => Ordered(Append(m, Len(log)), Len(log'))
  <1> DEFINE e == [kind |-> kind, parent |-> parent]
  <1>1. log \in Seq(Event) /\ Tree(log)
      BY DEF TreeInv, Tree
  <1>2. e \in Event /\ e.parent = parent
      BY <1>1 DEF Event, NoSequence, Sequences
  <1>3. log' = Append(log, e) /\ moved' = FALSE
      BY DEF record
  <1> HIDE DEF e
  <1>4. /\ log' \in Seq(Event) /\ Len(log') = Len(log) + 1 /\ Len(log) \in Nat
        /\ Sequences(log') = Sequences(log) \union {Len(log)}
        /\ \A s \in Sequences(log) : parentOf(log', s) = parentOf(log, s)
        /\ parentOf(log', Len(log)) = IF e.parent # NoSequence THEN e.parent ELSE Len(log) - 1
      BY <1>1, <1>2, <1>3, AppendedLog
  <1>5. parentOf(log', Len(log)) \in -1 .. Len(log) - 1
      BY <1>2, <1>4 DEF NoSequence, Sequences
  <1>6. Tree(log')
      BY <1>1, <1>4, <1>5 DEF Tree
  <1>7. \A c : CheckpointOf(c, log) => CheckpointOf(c, log')
      BY <1>4 DEF CheckpointOf
  <1>8. \A m : Ordered(m, Len(log)) => Ordered(m, Len(log'))
    <2>1. Len(log) \in Nat /\ Len(log') \in Nat /\ Len(log) <= Len(log')
        BY <1>4
    <2> QED BY <2>1, OrderedLater
  <1>9. \A m : Ordered(m, Len(log)) => Ordered(Append(m, Len(log)), Len(log'))
      BY <1>4, OrderedAppend
  <1> QED BY <1>3, <1>4, <1>6, <1>7, <1>8, <1>9

LEMMA TypedInit ==
  ASSUME Init
  PROVE  TreeInv
  <1> DEFINE e == [kind |-> "SessionCreated", parent |-> NoSequence]
  <1>1. e \in Event
      BY DEF Event, Kind, NoSequence
  <1>2. log = <<e>>
      BY DEF Init
  <1>3. log \in Seq(Event) /\ Len(log) = 1 /\ log[1] = e
    <2> HIDE DEF e
    <2> QED BY <1>1, <1>2
  <1>4. Sequences(log) = {0}
      BY <1>3 DEF Sequences
  <1>5. parentOf(log, 0) = -1
      BY <1>3 DEF parentOf, NoSequence
  <1>6. Tree(log)
      BY <1>3, <1>4, <1>5 DEF Tree
  <1>7. Ordered(<< >>, 0) /\ Ordered(<< >>, Len(log))
      BY <1>3, OrderedEmpty
  <1>8. CheckpointOf(checkpoint, log)
      BY <1>3, <1>7 DEF CheckpointOf, NoCheckpoint, Init
  <1> QED BY <1>6, <1>7, <1>8 DEF TreeInv, Init

\* write_checkpoint files the transcript under the extent of its log.
LEMMA WrittenCheckpoint ==
  ASSUME TreeInv, write_checkpoint
  PROVE  CheckpointOf(checkpoint', log)
  <1>1. checkpoint' = [extent |-> Len(log), messages |-> transcript]
      BY DEF write_checkpoint, Extent
  <1>2. Len(log) \in Nat /\ Ordered(transcript, Len(log)) /\ transcript \in Seq(Nat)
      BY DEF TreeInv, Tree, Ordered
  <1> QED BY <1>1, <1>2 DEF CheckpointOf

LEMMA MoveKeeps ==
  ASSUME TreeInv, NEW target \in {NoSequence} \union Sequences(log),
         NEW pending \in {NoSequence, target},
         moveTo(target, pending)
  PROVE  TreeInv'
  <1>1. /\ leaf' = target /\ branch_parent' = pending
        /\ transcript' = rebuilt(log, branch_sequences(log, target))
        /\ moved' = TRUE /\ branched' = TRUE
        /\ UNCHANGED <<log, checkpoint, open, run, recovering>>
      BY DEF moveTo
  <1>2. Ordered(transcript', Len(log))
    <2>1. /\ transcript' \in Seq(Nat) /\ Rising(transcript')
          /\ \A i \in 1 .. Len(transcript') : transcript'[i] \in Sequences(log)
        BY <1>1, MessagesSorted DEF TreeInv, Tree
    <2>2. Len(log) \in Nat
        BY DEF TreeInv, Tree
    <2> QED BY <2>1, <2>2 DEF Ordered, Sequences
  <1> QED BY <1>1, <1>2 DEF TreeInv

LEMMA LetGoKeeps ==
  ASSUME TreeInv, LetGo, log' = log, leaf' = leaf, CheckpointOf(checkpoint', log),
         moved' = moved, branched' = branched
  PROVE  TreeInv'
  <1>1. Ordered(<< >>, Len(log))
      BY OrderedEmpty DEF TreeInv, Tree
  <1> QED BY <1>1 DEF TreeInv, LetGo

LEMMA TypedStep ==
  ASSUME TreeInv, [Next]_vars
  PROVE  TreeInv'
  <1> USE DEF Kind
  <1>0. NoSequence \in {NoSequence} \union Sequences(log)
      OBVIOUS
  <1>1. CASE Submit
    <2>1. record("User", branch_parent)
        BY <1>1 DEF Submit
    <2>2. /\ Tree(log') /\ Len(log') = Len(log) + 1 /\ Len(log) \in Nat
          /\ Sequences(log') = Sequences(log) \union {Len(log)}
          /\ moved' \in BOOLEAN
          /\ CheckpointOf(checkpoint, log')
          /\ Ordered(Append(transcript, Len(log)), Len(log'))
        BY <2>1, RecordKeeps DEF TreeInv
    <2> QED BY <1>1, <2>2 DEF TreeInv, Submit, pushed
  <1>2. ASSUME NEW kind \in Kind, persist(kind),
               UNCHANGED <<checkpoint, open, branch_parent>>,
               transcript' \in {transcript, Append(transcript, Len(log))},
               run' \in {"none", "starting", "running", "settled"},
               run' # "none" => open,
               recovering' \in BOOLEAN
        PROVE  TreeInv'
    <2>1. record(kind, NoSequence) /\ UNCHANGED <<leaf, branched>>
        BY <1>2 DEF persist
    <2>2. /\ Tree(log') /\ Len(log') = Len(log) + 1 /\ Len(log) \in Nat
          /\ Sequences(log') = Sequences(log) \union {Len(log)}
          /\ moved' \in BOOLEAN
          /\ CheckpointOf(checkpoint, log')
          /\ Ordered(transcript, Len(log'))
          /\ Ordered(Append(transcript, Len(log)), Len(log'))
        BY <1>0, <2>1, RecordKeeps DEF TreeInv
    <2> QED BY <1>2, <2>1, <2>2 DEF TreeInv
  <1>3. CASE StartRun
      BY <1>2, <1>3 DEF StartRun, TreeInv
  <1>4. CASE RunAppends
    <2>1. PICK kind \in {"Reply", "Tool"} : persist(kind)
        BY <1>4 DEF RunAppends
    <2> QED BY <1>2, <1>4, <2>1 DEF RunAppends, pushed, TreeInv
  <1>5. CASE FinishRun
      BY <1>2, <1>5 DEF FinishRun, TreeInv
  <1>6. CASE CheckpointRun
    <2>1. CheckpointOf(checkpoint', log)
        BY <1>6, WrittenCheckpoint DEF CheckpointRun
    <2> QED BY <1>6, <2>1 DEF CheckpointRun, TreeInv
  <1>7. CASE RecordNote
      BY <1>2, <1>7 DEF RecordNote, TreeInv, live
  <1>8. CASE ResolveRecovery
      BY <1>2, <1>8 DEF ResolveRecovery, TreeInv
  <1>9. ASSUME NEW s \in Nat, s <= Len(log), rewind_to(s)
        PROVE  TreeInv'
    <2>1. s - 1 \in {NoSequence} \union Sequences(log)
        BY <1>9 DEF TreeInv, Tree, Sequences, NoSequence
    <2>2. moveTo(s - 1, s - 1)
        BY <1>9 DEF rewind_to
    <2> QED BY <2>1, <2>2, MoveKeeps
  <1>10. CASE Rewind
    <2>1. PICK s \in UserTurns \intersect Branch : rewind_to(s)
        BY <1>10 DEF Rewind
    <2>2. s \in Nat /\ s <= Len(log)
        BY DEF UserTurns, Sequences, TreeInv, Tree
    <2> QED BY <1>9, <2>1, <2>2
  <1>11. CASE rollback_to_checkpoint
    <2>1. checkpoint.extent \in Nat /\ checkpoint.extent <= Len(log)
        BY DEF TreeInv, CheckpointOf
    <2> QED BY <1>9, <1>11, <2>1 DEF rollback_to_checkpoint
  <1>12. CASE follow_branch
    <2>1. PICK s \in UserTurns \ Branch : moveTo(s, NoSequence)
        BY <1>12 DEF follow_branch
    <2>2. s \in {NoSequence} \union Sequences(log)
        BY DEF UserTurns
    <2> QED BY <2>1, <2>2, MoveKeeps
  <1>13. CASE Release
    <2>1. CheckpointOf(checkpoint', log)
        BY <1>13, WrittenCheckpoint DEF Release
    <2> QED BY <1>13, <2>1, LetGoKeeps DEF Release
  <1>14. CASE Crash
    <2>1. CheckpointOf(checkpoint', log)
        BY <1>14 DEF Crash, durable, TreeInv
    <2> QED BY <1>14, <2>1, LetGoKeeps DEF Crash, durable
  <1>15. CASE Resume
    <2> DEFINE again == Restart
    <2>1. Ordered(again.messages, Len(log)) /\ again.interrupted \in BOOLEAN
        BY ReplayOrdered DEF TreeInv, Restart
    <2>2. /\ open' = TRUE /\ transcript' = again.messages
          /\ recovering' = again.interrupted
          /\ UNCHANGED <<checkpoint, branch_parent, run>>
          /\ \/ persist("RecoveryRequired")
             \/ moved' = TRUE /\ UNCHANGED <<log, leaf, branched>>
        BY <1>15 DEF Resume
    <2> HIDE DEF again
    <2>3. CASE persist("RecoveryRequired")
      <3>1. record("RecoveryRequired", NoSequence) /\ UNCHANGED <<leaf, branched>>
          BY <2>3 DEF persist
      <3>2. /\ Tree(log') /\ Len(log') = Len(log) + 1
            /\ Sequences(log') = Sequences(log) \union {Len(log)}
            /\ moved' \in BOOLEAN
            /\ CheckpointOf(checkpoint, log')
            /\ Ordered(again.messages, Len(log'))
          BY <1>0, <2>1, <3>1, RecordKeeps DEF TreeInv
      <3> QED BY <2>1, <2>2, <3>1, <3>2 DEF TreeInv
    <2>4. CASE moved' = TRUE /\ UNCHANGED <<log, leaf, branched>>
        BY <2>1, <2>2, <2>4 DEF TreeInv
    <2> QED BY <2>2, <2>3, <2>4
  <1>16. CASE UNCHANGED vars
      BY <1>16 DEF vars, durable, live, TreeInv
  <1> QED BY <1>1, <1>3, <1>4, <1>5, <1>6, <1>7, <1>8, <1>10, <1>11, <1>12, <1>13,
             <1>14, <1>15, <1>16 DEF Next

\* The invariant says what the type invariant does.
LEMMA TypedIsTypeOK ==
  ASSUME TreeInv
  PROVE  TypeOK
  <1>1. ASSUME NEW s \in Sequences(log) PROVE kindOf(log, s) \in Kind
    <2>1. log[s + 1] \in Event
        BY ElementOfSeq DEF TreeInv, Tree, Sequences
    <2> QED BY <2>1 DEF kindOf, Event
  <1>2. ASSUME NEW n \in Nat, n <= Len(log), NEW m, Ordered(m, n)
        PROVE  \A i \in DOMAIN m : m[i] \in Sequences(log)
    <2>1. DOMAIN m = 1 .. Len(m)
        BY <1>2, LenProperties DEF Ordered
    <2>2. \A i \in 1 .. Len(m) : m[i] \in Nat /\ m[i] < n
        BY <1>2, ElementOfSeq DEF Ordered
    <2> QED BY <1>2, <2>1, <2>2 DEF Sequences, TreeInv, Tree
  <1>3. \A i \in DOMAIN transcript : transcript[i] \in Sequences(log)
      BY <1>2 DEF TreeInv, Tree
  <1>4. \A i \in DOMAIN checkpoint.messages : checkpoint.messages[i] \in Sequences(log)
      BY <1>2 DEF TreeInv, CheckpointOf
  <1>5. checkpoint.extent \in 0 .. Len(log)
      BY DEF TreeInv, CheckpointOf, Tree
  <1> QED BY <1>1, <1>3, <1>4, <1>5 DEF TypeOK, TreeInv, Tree

\* Parents, leaf, checkpoint and transcript stay within the log, however
\* directives, rewinds, follows, releases, crashes and resumes are ordered.
THEOREM TypeCorrect == Spec => []TypeOK
  <1>1. Init => TreeInv
      BY TypedInit
  <1>2. TreeInv /\ [Next]_vars => TreeInv'
      BY TypedStep
  <1>3. TreeInv => TypeOK
      BY TypedIsTypeOK
  <1> QED BY <1>1, <1>2, <1>3, PTL DEF Spec

LEMMA TypedAlways == Spec => []TreeInv
  <1>1. Init => TreeInv
      BY TypedInit
  <1>2. TreeInv /\ [Next]_vars => TreeInv'
      BY TypedStep
  <1> QED BY <1>1, <1>2, PTL DEF Spec

LEMMA RestartOrdered ==
  ASSUME TreeInv
  PROVE  /\ DOMAIN Restart.messages = 1 .. Len(Restart.messages)
         /\ Ordered(Restart.messages, Len(log))
         /\ \A i \in 1 .. Len(Restart.messages) : Restart.messages[i] \in Branch
  <1>1. /\ Ordered(Restart.messages, Len(log))
        /\ \A i \in 1 .. Len(Restart.messages) : Restart.messages[i] \in Branch
      BY ReplayOrdered DEF TreeInv, Restart, Branch
  <1>2. DOMAIN Restart.messages = 1 .. Len(Restart.messages)
      BY <1>1, LenProperties DEF Ordered
  <1> QED BY <1>1, <1>2

\* What a resume would show is on the branch the leaf is on, for every history of
\* rewinds, checkpoints, follows and crashes (resume_session with
\* branch_events_from).
THEOREM BranchOnly == Spec => []NothingResurrected
  <1>1. TreeInv => NothingResurrected
      BY RestartOrdered DEF NothingResurrected
  <1> QED BY <1>1, TypedAlways, PTL

\* No resume shows a message twice or out of order: what a checkpoint holds lies
\* before the extent it is filed under, and the tail replayed after it does not.
THEOREM SaidOnce == Spec => []NothingRepeated
  <1>1. TreeInv => NothingRepeated
    <2>1. TreeInv => Rising(Restart.messages)
                     /\ DOMAIN Restart.messages = 1 .. Len(Restart.messages)
        BY RestartOrdered DEF Ordered
    <2> QED BY <2>1 DEF NothingRepeated, Rising
  <1> QED BY <1>1, TypedAlways, PTL

\* While the branch point of a rewind is pending, no restart brings back what was
\* recorded after it: the leaf is still the branch point, and a branch holds
\* nothing younger than its leaf (rewind_to, persist_branching).
THEOREM RewindHolds == Spec => []RewindSurvivesRestart
  <1>1. TreeInv => RewindSurvivesRestart
    <2> SUFFICES ASSUME TreeInv, branch_parent # NoSequence,
                        NEW i \in DOMAIN Restart.messages
                 PROVE  Restart.messages[i] <= branch_parent
        BY DEF RewindSurvivesRestart
    <2>1. Restart.messages[i] \in Branch
        BY RestartOrdered
    <2>2. leafOf(log, leaf) = branch_parent
        BY DEF leafOf, TreeInv
    <2>3. Branch \subseteq 0 .. branch_parent
        BY <2>2, BranchBelow DEF Branch, TreeInv
    <2>4. branch_parent \in Int
        BY DEF TreeInv, Sequences, Tree
    <2> DEFINE shown == Restart.messages[i]
    <2>5. shown \in 0 .. branch_parent
        BY <2>1, <2>3
    <2> HIDE DEF shown
    <2>6. shown <= branch_parent
        BY <2>4, <2>5
    <2> QED BY <2>6 DEF shown
  <1> QED BY <1>1, TypedAlways, PTL

-------------------------------------------------------------------------------
(* A session whose leaf was never moved. *)

\* Its log is one line, and its checkpoint and its transcript hold every message
\* of what they cover.
LineInv ==
  ~branched =>
    /\ leaf = NoSequence /\ branch_parent = NoSequence
    /\ \A s \in Sequences(log) : log[s + 1].parent = NoSequence
    /\ checkpoint.messages = messagesOf(log, 0 .. checkpoint.extent - 1)
    /\ open => transcript = messagesOf(log, Sequences(log))

\* An append that names no parent keeps a line a line.
LEMMA LineGrows ==
  ASSUME TreeInv, LineInv, ~branched, NEW kind \in Kind, record(kind, NoSequence)
  PROVE  /\ \A s \in Sequences(log') : log'[s + 1].parent = NoSequence
         /\ checkpoint.messages = messagesOf(log', 0 .. checkpoint.extent - 1)
         /\ messagesOf(log', Sequences(log')) =
              IF kind \in {"User", "Reply", "Tool"}
              THEN Append(messagesOf(log, Sequences(log)), Len(log))
              ELSE messagesOf(log, Sequences(log))
  <1> DEFINE e == [kind |-> kind, parent |-> NoSequence]
  <1>1. log \in Seq(Event) /\ Len(log) \in Nat
      BY DEF TreeInv, Tree
  <1>2. e \in Event /\ e.kind = kind /\ e.parent = NoSequence
      BY DEF Event, NoSequence
  <1>3. log' = Append(log, e)
      BY DEF record
  <1> HIDE DEF e
  <1>4. /\ Sequences(log') = Sequences(log) \union {Len(log)}
        /\ \A s \in Sequences(log) : log'[s + 1] = log[s + 1]
        /\ log'[Len(log) + 1] = e
      BY <1>1, <1>2, <1>3, AppendedLog
  <1>5. \A s \in Sequences(log') : log'[s + 1].parent = NoSequence
      BY <1>2, <1>4 DEF LineInv
  <1>6. 0 .. checkpoint.extent - 1 \in SUBSET Sequences(log)
      BY DEF TreeInv, CheckpointOf, Sequences, Tree
  <1>7. messagesOf(log', 0 .. checkpoint.extent - 1)
          = messagesOf(log, 0 .. checkpoint.extent - 1)
      BY <1>1, <1>2, <1>3, <1>6, MessagesNext
  <1>8. messagesOf(log', Sequences(log) \union {Len(log)}) =
          IF e.kind \in {"User", "Reply", "Tool"}
          THEN Append(messagesOf(log, Sequences(log)), Len(log))
          ELSE messagesOf(log, Sequences(log))
    <2>1. Sequences(log) \in SUBSET Sequences(log)
        OBVIOUS
    <2> QED BY <1>1, <1>2, <1>3, <2>1, MessagesNext
  <1> QED BY <1>2, <1>4, <1>5, <1>7, <1>8 DEF LineInv

\* A checkpoint written then and there holds the whole line.
LEMMA LineCheckpoint ==
  ASSUME TreeInv, LineInv, ~branched, open, write_checkpoint
  PROVE  checkpoint'.messages = messagesOf(log, 0 .. checkpoint'.extent - 1)
  <1>1. checkpoint'.extent = Len(log) /\ checkpoint'.messages = transcript
      BY DEF write_checkpoint, Extent
  <1>2. 0 .. checkpoint'.extent - 1 = Sequences(log)
      BY <1>1 DEF Sequences
  <1> QED BY <1>1, <1>2 DEF LineInv

LEMMA LineInit ==
  ASSUME Init
  PROVE  LineInv
  <1>1. TreeInv
      BY TypedInit
  <1>2. Len(log) = 1 /\ kindOf(log, 0) = "SessionCreated" /\ log[1].parent = NoSequence
      BY DEF Init, kindOf
  <1>3. \A R : messagesOf(log, R) = << >>
    <2> SUFFICES ASSUME NEW R PROVE messagesOf(log, R) = << >>
        OBVIOUS
    <2> DEFINE m == messagesOf(log, R)
               Told == {s \in R : introduces_message(log, s)}
    <2>1. 0 \notin Told
        BY <1>2 DEF introduces_message
    <2>2. m = inOrder(log, Told)
        BY DEF messagesOf
    <2> HIDE DEF Told
    <2>3. m \in Seq(Nat) /\ \A i \in 1 .. Len(m) : m[i] \in Told /\ m[i] < 1
      <3>1. PICK T : T = Told
          OBVIOUS
      <3>2. Len(log) \in Nat /\ m = inOrder(log, T)
          BY <1>2, <2>2, <3>1
      <3> HIDE DEF m
      <3>3. m \in Seq(Nat) /\ \A i \in 1 .. Len(m) : m[i] \in T /\ m[i] < Len(log)
          BY <3>2, InOrderSorted
      <3> QED BY <1>2, <3>1, <3>3
    <2> HIDE DEF m
    <2>4. Len(m) = 0
      <3>1. SUFFICES ASSUME Len(m) # 0 PROVE FALSE
          OBVIOUS
      <3>2. 1 \in 1 .. Len(m)
          BY <2>3, <3>1, LenProperties
      <3>3. m[1] \in Nat
          BY <2>3, <3>2, ElementOfSeq
      <3>4. m[1] = 0
          BY <2>3, <3>2, <3>3
      <3> QED BY <2>1, <2>3, <3>2, <3>4
    <2>5. m = << >>
        BY <2>3, <2>4
    <2> QED BY <2>5 DEF m
  <1>4. \A s \in Sequences(log) : s = 0
      BY <1>2 DEF Sequences
  <1>5. /\ leaf = NoSequence /\ branch_parent = NoSequence
        /\ checkpoint.messages = << >> /\ transcript = << >>
      BY DEF Init, NoCheckpoint
  <1> QED BY <1>2, <1>3, <1>4, <1>5 DEF LineInv

LEMMA LineStep ==
  ASSUME TreeInv, LineInv, [Next]_vars
  PROVE  LineInv'
  <1> USE DEF Kind
  <1>1. SUFFICES ASSUME ~branched' PROVE LineInv'
      BY DEF LineInv
  <1>2. ASSUME ~branched, NEW kind \in Kind, record(kind, NoSequence),
               UNCHANGED <<leaf, checkpoint, branch_parent>>,
               open' => transcript' = IF kind \in {"User", "Reply", "Tool"}
                             THEN Append(messagesOf(log, Sequences(log)), Len(log))
                             ELSE messagesOf(log, Sequences(log))
        PROVE  LineInv'
      BY <1>2, LineGrows DEF LineInv
  <1>3. CASE Submit
    <2>1. ~branched /\ branch_parent = NoSequence /\ record("User", NoSequence)
        BY <1>1, <1>3 DEF Submit, LineInv
    <2>2. UNCHANGED <<leaf, checkpoint, branch_parent>>
        BY <1>3, <2>1 DEF Submit
    <2>3. transcript' = Append(messagesOf(log, Sequences(log)), Len(log))
        BY <1>3, <2>1 DEF Submit, pushed, LineInv
    <2> QED BY <1>2, <2>1, <2>2, <2>3
  <1>4. CASE StartRun
      BY <1>1, <1>2, <1>4 DEF StartRun, persist, LineInv
  <1>5. CASE RunAppends
    <2>1. PICK kind \in {"Reply", "Tool"} : persist(kind)
        BY <1>5 DEF RunAppends
    <2>2. ~branched /\ record(kind, NoSequence) /\ UNCHANGED <<leaf, checkpoint, branch_parent>>
        BY <1>1, <1>5, <2>1 DEF RunAppends, persist
    <2>3. open' => transcript' = Append(messagesOf(log, Sequences(log)), Len(log))
        BY <1>5, <2>2 DEF RunAppends, pushed, LineInv
    <2> QED BY <1>2, <2>2, <2>3
  <1>6. CASE FinishRun
      BY <1>1, <1>2, <1>6 DEF FinishRun, persist, LineInv
  <1>7. CASE CheckpointRun
      BY <1>1, <1>7, LineCheckpoint DEF CheckpointRun, LineInv, TreeInv
  <1>8. CASE RecordNote
      BY <1>1, <1>2, <1>8 DEF RecordNote, persist, live, LineInv
  <1>9. CASE ResolveRecovery
      BY <1>1, <1>2, <1>9 DEF ResolveRecovery, persist, LineInv
  <1>10. CASE Rewind \/ rollback_to_checkpoint \/ follow_branch
      BY <1>1, <1>10 DEF Rewind, rollback_to_checkpoint, follow_branch, rewind_to, moveTo
  <1>11. CASE Release
      BY <1>1, <1>11, LineCheckpoint DEF Release, LetGo, LineInv
  <1>12. CASE Crash
      BY <1>1, <1>12 DEF Crash, LetGo, durable, LineInv
  <1>13. CASE Resume
    <2>1. ~branched /\ leaf = NoSequence
        BY <1>1, <1>13 DEF Resume, persist, LineInv
    <2>2. Restart.messages = messagesOf(log, Sequences(log))
        BY <2>1, ReplayWhole DEF Restart, TreeInv, LineInv
    <2>3. CASE persist("RecoveryRequired")
      <3>1. /\ record("RecoveryRequired", NoSequence)
            /\ UNCHANGED <<leaf, checkpoint, branch_parent>>
          BY <1>13, <2>3 DEF Resume, persist
      <3>2. transcript' = messagesOf(log, Sequences(log))
          BY <1>13, <2>2 DEF Resume
      <3> QED BY <1>2, <2>1, <3>1, <3>2
    <2>4. CASE UNCHANGED <<log, leaf, branched>>
        BY <1>13, <2>1, <2>2, <2>4 DEF Resume, LineInv
    <2> QED BY <1>13, <2>3, <2>4 DEF Resume
  <1>14. CASE UNCHANGED vars
      BY <1>14 DEF vars, durable, live, LineInv
  <1> QED BY <1>3, <1>4, <1>5, <1>6, <1>7, <1>8, <1>9, <1>10, <1>11, <1>12, <1>13, <1>14
          DEF Next

\* A session whose leaf was never moved resumes whole, wherever its last
\* checkpoint fell and wherever the process died (resume_session).
THEOREM LineResumes == Spec => []LinearResumesWhole
  <1>1. Init => LineInv
      BY LineInit
  <1>2. TreeInv /\ LineInv /\ [Next]_vars => LineInv'
      BY LineStep
  <1>3. TreeInv /\ LineInv => LinearResumesWhole
      BY ReplayWhole DEF Restart, TreeInv, LineInv, LinearResumesWhole
  <1> QED BY <1>1, <1>2, <1>3, TypedAlways, PTL DEF Spec
===============================================================================
