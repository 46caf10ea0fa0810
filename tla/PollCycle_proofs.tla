--------------------------- MODULE PollCycle_proofs ---------------------------
(***************************************************************************)
(* Theorems about PollCycle, for every number of arms, events and cycles,  *)
(* every budget, lease and anchor: a cycle holds and gives back exactly    *)
(* what follows the committed cursors, stays within its bounds, serves its *)
(* arms in turn, and is seen by its caller as a retained log.              *)
(*                                                                         *)
(* From these, theorems about Transcript: the messages of a caller are     *)
(* admitted by the rules for one cycle, and for all of them.               *)
(***************************************************************************)
EXTENDS Transcript, Lists_proofs, FiniteSetTheorems

Event == 1..MaxEvents

-----------------------------------------------------------------------------
(* Runs of consecutive events. *)

\* s is the last Len(s) events up to number n.
RunTo(s, n) ==
    /\ s \in Seq(Event)
    /\ Len(s) <= n
    /\ \A i \in 1..Len(s) : s[i] = n - Len(s) + i

\* Events k + 1 to n.
Between(k, n) == [i \in 1..n - k |-> k + i]

LEMMA RunIsBetween ==
    ASSUME NEW s, NEW n \in Nat, RunTo(s, n)
    PROVE  s = Between(n - Len(s), n)
<1>1. Len(s) \in Nat /\ s \in [1..Len(s) -> Event]
  BY LenProperties DEF RunTo
<1>2. n - (n - Len(s)) = Len(s)
  BY <1>1
<1> QED BY <1>1, <1>2 DEF RunTo, Between

\* A run in two parts.
LEMMA RunSplits ==
    ASSUME NEW s, NEW n \in Nat, RunTo(s, n), NEW m \in 0..Len(s)
    PROVE  /\ RunTo(SubSeq(s, 1, m), n - Len(s) + m)
           /\ RunTo(SubSeq(s, m + 1, Len(s)), n)
           /\ Len(SubSeq(s, 1, m)) = m
           /\ Len(SubSeq(s, m + 1, Len(s))) = Len(s) - m
           /\ s = SubSeq(s, 1, m) \o SubSeq(s, m + 1, Len(s))
<1> DEFINE a == SubSeq(s, 1, m)
           b == SubSeq(s, m + 1, Len(s))
<1>1. /\ s \in Seq(Event) /\ Len(s) \in Nat /\ m \in Nat /\ Len(s) <= n
      /\ \A i \in 1..Len(s) : s[i] \in Event
  BY LenProperties, ElementOfSeq DEF RunTo
<1>2. a \in Seq(Event) /\ Len(a) = m /\ \A i \in 1..m : a[i] = s[i]
  <2>1. \A i \in 1..m : s[i] \in Event
    BY <1>1
  <2> QED BY <1>1, <2>1, SubSeqProperties
<1>3. b \in Seq(Event) /\ Len(b) = Len(s) - m /\ \A i \in 1..Len(s) - m : b[i] = s[m + i]
  <2>1. \A i \in m + 1..Len(s) : s[i] \in Event
    BY <1>1
  <2>2. /\ b \in Seq(Event)
        /\ Len(b) = IF m + 1 <= Len(s) THEN Len(s) - (m + 1) + 1 ELSE 0
        /\ \A i \in 1..Len(s) - (m + 1) + 1 : b[i] = s[(m + 1) + i - 1]
    BY <1>1, <2>1, SubSeqProperties
  <2>3. Len(s) - (m + 1) + 1 = Len(s) - m /\ \A i \in Nat : (m + 1) + i - 1 = m + i
    BY <1>1
  <2>4. Len(b) = Len(s) - m
    BY <1>1, <2>2
  <2>5. ASSUME NEW i \in 1..Len(s) - m PROVE b[i] = s[m + i]
    BY <1>1, <2>2, <2>3
  <2> QED BY <2>2, <2>4, <2>5
<1>4. s = a \o b
  <2>1. 1 \in 1..Len(s) + 1 /\ m \in 1 - 1..Len(s) /\ Len(s) \in m..Len(s)
    BY <1>1
  <2>2. a \o b = SubSeq(s, 1, Len(s))
    BY <1>1, <2>1, ConcatAdjacentSubSeq, Zenon
  <2> QED BY <1>1, <2>2, SubSeqFull, Zenon
<1> HIDE DEF a, b
<1>5. RunTo(a, n - Len(s) + m)
  BY <1>1, <1>2 DEF RunTo
<1>6. RunTo(b, n)
  BY <1>1, <1>3 DEF RunTo
<1> QED BY <1>2, <1>3, <1>4, <1>5, <1>6 DEF a, b

LEMMA RunsJoin ==
    ASSUME NEW s, NEW t, NEW n \in Nat, NEW k \in Nat, RunTo(t, n), RunTo(s, k), k = n - Len(t)
    PROVE  RunTo(s \o t, n) /\ Len(s \o t) = Len(s) + Len(t)
<1>1. s \in Seq(Event) /\ t \in Seq(Event) /\ Len(s) \in Nat /\ Len(t) \in Nat
  BY LenProperties DEF RunTo
<1>2. /\ s \o t \in Seq(Event) /\ Len(s \o t) = Len(s) + Len(t)
      /\ \A i \in 1 .. Len(s) + Len(t) :
           (s \o t)[i] = IF i <= Len(s) THEN s[i] ELSE t[i - Len(s)]
  BY <1>1, ConcatProperties
<1>3. ASSUME NEW i \in 1 .. Len(s) + Len(t) PROVE (s \o t)[i] = n - (Len(s) + Len(t)) + i
  <2>1. CASE i <= Len(s)
    BY <1>1, <1>2, <2>1 DEF RunTo
  <2>2. CASE i > Len(s)
    <3>1. i - Len(s) \in 1..Len(t)
      BY <1>1, <2>2
    <3> QED BY <1>1, <1>2, <2>2, <3>1 DEF RunTo
  <2> QED BY <1>1, <2>1, <2>2
<1> QED BY <1>1, <1>2, <1>3 DEF RunTo

LEMMA RunGrows ==
    ASSUME NEW s, NEW n \in Nat, RunTo(s, n), n < MaxEvents, MaxEvents \in Nat
    PROVE  RunTo(Append(s, n + 1), n + 1) /\ Len(Append(s, n + 1)) = Len(s) + 1
<1>1. s \in Seq(Event) /\ Len(s) \in Nat /\ n + 1 \in Event
  BY LenProperties DEF RunTo, Event
<1>2. /\ Append(s, n + 1) \in Seq(Event) /\ Len(Append(s, n + 1)) = Len(s) + 1
      /\ \A i \in 1..Len(s) : Append(s, n + 1)[i] = s[i]
      /\ Append(s, n + 1)[Len(s) + 1] = n + 1
  BY <1>1, AppendProperties
<1>3. ASSUME NEW i \in 1..Len(s) + 1 PROVE Append(s, n + 1)[i] = (n + 1) - (Len(s) + 1) + i
  BY <1>1, <1>2 DEF RunTo
<1> QED BY <1>1, <1>2, <1>3 DEF RunTo

\* What an exclusive cursor leaves of a run that it does not come before.
LEMMA AfterOfRun ==
    ASSUME NEW s, NEW n \in Nat, n <= MaxEvents, MaxEvents \in Nat, RunTo(s, n),
           NEW c \in Nat, n - Len(s) <= c, c <= n
    PROVE  RunTo(After(s, c), n) /\ Len(After(s, c)) = n - c
<1> DEFINE m == c - (n - Len(s))
           a == SubSeq(s, 1, m)
           b == SubSeq(s, m + 1, Len(s))
<1>1. Len(s) \in Nat /\ m \in 0..Len(s) /\ s \in Seq(Event)
  BY LenProperties DEF RunTo
<1>2. RunTo(a, c) /\ RunTo(b, n) /\ Len(a) = m /\ Len(b) = n - c /\ s = a \o b
  <2>1. n - Len(s) + m = c /\ Len(s) - m = n - c
    BY <1>1
  <2> HIDE DEF m
  <2> QED BY <1>1, <2>1, RunSplits
<1> HIDE DEF a, b, m
<1>3. a \in Seq(1..c)
  <2>1. a \in Seq(Event) /\ \A i \in 1..Len(a) : a[i] \in 1..c
    BY <1>1, <1>2 DEF RunTo
  <2> QED BY <2>1
<1>4. b \in Seq(c + 1 .. MaxEvents)
  <2>1. b \in Seq(Event) /\ \A i \in 1..Len(b) : b[i] \in c + 1 .. MaxEvents
    BY <1>1, <1>2 DEF RunTo
  <2> QED BY <2>1
<1>5. Keeping(a, c + 1 .. MaxEvents) = <<>>
  BY <1>3, KeepingNone
<1>6. Keeping(b, c + 1 .. MaxEvents) = b
  BY <1>4, KeepingAll
<1>7. After(s, c) = <<>> \o b
  <2>1. a \in Seq(Event) /\ b \in Seq(Event)
    BY <1>2 DEF RunTo
  <2>2. Keeping(a \o b, c + 1 .. MaxEvents)
          = Keeping(a, c + 1 .. MaxEvents) \o Keeping(b, c + 1 .. MaxEvents)
    BY <2>1, KeepingConcat
  <2>3. After(s, c) = Keeping(a \o b, c + 1 .. MaxEvents)
    BY <1>2, Zenon DEF After
  <2> QED BY <1>5, <1>6, <2>2, <2>3, Zenon
<1>8. <<>> \o b = b
  BY <1>4, ConcatEmptySeq
<1> QED BY <1>2, <1>7, <1>8
-----------------------------------------------------------------------------
(* The order of the arms. *)

\* The place of arm r in an order that starts from arm c.
Ahead(c, r) == IF r >= c THEN r - c + 1 ELSE r - c + 1 + N

LEMMA OrderIs ==
    ASSUME request.cursor \in Arms, NEW i \in 1..N
    PROVE  Order(i) = IF request.cursor + i - 1 <= N THEN request.cursor + i - 1
                      ELSE request.cursor + i - 1 - N
<1> DEFINE a == request.cursor + i - 2
<1>1. N \in Nat \ {0} /\ request.cursor \in 1..N
  BY SeamAssumption DEF Arms
<1>2. a \in Nat /\ a < N + N
  BY <1>1
<1>3. Order(i) = (a % N) + 1
  BY DEF Order
<1> HIDE DEF a
<1>4. a % N = IF a < N THEN a ELSE a - N
  BY <1>1, <1>2
<1> QED BY <1>1, <1>3, <1>4 DEF a

LEMMA PlaceIs ==
    ASSUME request.cursor \in Arms, NEW r \in Arms
    PROVE  /\ Place(r) = Ahead(request.cursor, r)
           /\ Place(r) \in 1..N
           /\ Order(Place(r)) = r
<1> DEFINE c == request.cursor
           p == Ahead(c, r)
<1>1. N \in Nat \ {0} /\ c \in 1..N /\ r \in 1..N
  BY SeamAssumption DEF Arms
<1>2. p \in 1..N
  BY <1>1 DEF Ahead
<1>3. ASSUME NEW i \in 1..N PROVE Order(i) = r <=> i = p
  <2>1. Order(i) = IF c + i - 1 <= N THEN c + i - 1 ELSE c + i - 1 - N
    BY OrderIs
  <2> HIDE DEF c
  <2> QED BY <1>1, <2>1 DEF Ahead
<1>4. Place(r) = CHOOSE i \in 1..N : Order(i) = r
  BY DEF Place
<1> HIDE DEF p, c
<1>5. Place(r) = p
  BY <1>2, <1>3, <1>4
<1> QED BY <1>2, <1>3, <1>5 DEF p, c

LEMMA OrderInArms ==
    ASSUME request.cursor \in Arms, NEW i \in 1..N
    PROVE  Order(i) \in Arms /\ Place(Order(i)) = i
<1>1. N \in Nat \ {0} /\ request.cursor \in 1..N
  BY SeamAssumption DEF Arms
<1>2. Order(i) = IF request.cursor + i - 1 <= N THEN request.cursor + i - 1
                 ELSE request.cursor + i - 1 - N
  BY OrderIs
<1>3. Order(i) \in Arms
  BY <1>1, <1>2 DEF Arms
<1>4. Place(Order(i)) = Ahead(request.cursor, Order(i))
  BY <1>3, PlaceIs
<1> QED BY <1>1, <1>2, <1>3, <1>4 DEF Ahead

\* A cycle that starts one arm further on brings every other arm forward by one.
LEMMA NextOrder ==
    ASSUME request.cursor \in Arms, NEW r \in Arms
    PROVE  /\ NextCursor \in Arms
           /\ Ahead(NextCursor, r) \in 1..N
           /\ Place(r) # 1 => Ahead(NextCursor, r) = Place(r) - 1
<1> DEFINE c == request.cursor
<1>1. N \in Nat \ {0} /\ c \in 1..N /\ r \in 1..N
  BY SeamAssumption DEF Arms
<1>2. NextCursor = IF c < N THEN c + 1 ELSE 1
  <2>1. NextCursor = (c % N) + 1
    BY DEF NextCursor
  <2> HIDE DEF c
  <2>2. c % N = IF c < N THEN c ELSE c - N
    BY <1>1
  <2> QED BY <1>1, <2>1, <2>2
<1>3. Place(r) = Ahead(c, r)
  BY PlaceIs
<1> HIDE DEF c
<1> QED BY <1>1, <1>2, <1>3 DEF Ahead, Arms

-----------------------------------------------------------------------------
(* The budget. *)

\* k events from the front of the queue of arm r are within the bounds when
\* spent have been taken.
Affords(r, spent, k) ==
    /\ spent + k <= MaxTake
    /\ k <= MaxTakeOf[r]
    /\ \A i \in 1..k : queue[r][i] \notin Oversized[r]

\* A visit takes as much as it can.
LEMMA QuotaTells ==
    ASSUME NEW r \in Arms, NEW spent \in Nat, Len(queue[r]) \in Nat
    PROVE  /\ Quota(r, spent) \in 0..Len(queue[r])
           /\ Quota(r, spent) = 0 \/ Affords(r, spent, Quota(r, spent))
           /\ \A j \in Quota(r, spent) + 1 .. Len(queue[r]) : ~Affords(r, spent, j)
<1> DEFINE n == Len(queue[r])
           Best(k) == /\ k = 0 \/ Affords(r, spent, k)
                      /\ \A j \in k + 1 .. n : ~Affords(r, spent, j)
           T == {m \in 0..n : \A j \in m + 1 .. n : ~Affords(r, spent, j)}
<1>1. \E k \in 0..n : Best(k)
  <2>1. n \in T /\ T \subseteq Nat
    OBVIOUS
  <2>2. PICK m \in T : \A k \in T : m <= k
    BY <2>1, Least
  <2>3. m \in 0..n /\ \A j \in m + 1 .. n : ~Affords(r, spent, j)
    OBVIOUS
  <2>4. ASSUME m # 0, ~Affords(r, spent, m) PROVE FALSE
    <3>1. m - 1 \in 0..n /\ \A j \in (m - 1) + 1 .. n : ~Affords(r, spent, j)
      BY <2>3, <2>4
    <3>2. m - 1 \in T
      BY <3>1
    <3>3. m <= m - 1
      BY <2>2, <3>2
    <3> HIDE DEF T
    <3> QED BY <2>3, <3>3
  <2> QED BY <2>3, <2>4
<1>2. Quota(r, spent) = CHOOSE k \in 0..n : Best(k)
  BY DEF Quota, Affords
<1> HIDE DEF Best, n
<1>3. Quota(r, spent) \in 0..n /\ Best(Quota(r, spent))
  BY <1>1, <1>2
<1> QED BY <1>3 DEF Best, n

\* The next place of the order.
Further(ans, i, total) ==
    total + IF Fresh(ans, Order(i)) THEN Quota(Order(i), total) ELSE 0

IsSpent(s, ans, n) == s = [i \in 0..n |-> IF i = 0 THEN Spent ELSE Further(ans, i, s[i - 1])]

LEMMA SpentIsDefined ==
    ASSUME NEW ans, NEW n \in Nat
    PROVE  \E s : IsSpent(s, ans, n)
<1> DEFINE T == {k \in Nat : \E s : IsSpent(s, ans, k)}
<1>1. 0 \in T
  <2>1. IsSpent([i \in 0..0 |-> Spent], ans, 0)
    BY DEF IsSpent
  <2> QED BY <2>1
<1>2. ASSUME NEW k \in T PROVE k + 1 \in T
  <2>1. PICK s : IsSpent(s, ans, k)
    OBVIOUS
  <2> DEFINE g == [i \in 0..k + 1 |-> IF i = k + 1 THEN Further(ans, k + 1, s[k]) ELSE s[i]]
  <2>2. IsSpent(g, ans, k + 1)
    <3>1. ASSUME NEW i \in 0..k + 1
          PROVE  g[i] = IF i = 0 THEN Spent ELSE Further(ans, i, g[i - 1])
      BY <2>1 DEF IsSpent
    <3> QED BY <3>1 DEF IsSpent
  <2> HIDE DEF g
  <2> QED BY <2>2
<1> HIDE DEF T
<1>3. T = Nat
  <2>1. T \in SUBSET Nat
    BY DEF T
  <2> QED BY <1>1, <1>2, <2>1, SetInduction
<1> QED BY <1>3 DEF T

LEMMA SpentAfterSteps ==
    ASSUME NEW ans
    PROVE  /\ SpentAfter(ans)[0] = Spent
           /\ \A i \in 1..N : SpentAfter(ans)[i] = Further(ans, i, SpentAfter(ans)[i - 1])
<1> DEFINE c == CHOOSE s : s = [i \in 0..N |-> IF i = 0 THEN Spent ELSE Further(ans, i, s[i - 1])]
<1>1. N \in Nat
  BY SeamAssumption
<1>2. \E s : s = [i \in 0..N |-> IF i = 0 THEN Spent ELSE Further(ans, i, s[i - 1])]
  BY <1>1, SpentIsDefined DEF IsSpent
<1>3. c = [i \in 0..N |-> IF i = 0 THEN Spent ELSE Further(ans, i, c[i - 1])]
  BY <1>2, Zenon
<1>4. SpentAfter(ans) = c
  BY Zenon DEF SpentAfter, Further
<1> HIDE DEF c
<1> QED BY <1>1, <1>3, <1>4

\* The events a turn has taken up to place i, arm by arm.
Gained(ans, i) ==
    [r \in Arms |-> Len(admitted[r]) + IF Place(r) <= i THEN Taken(ans, r) ELSE 0]

LEMMA SpentAfterIsNatural ==
    ASSUME NEW ans, request.cursor \in Arms, \A r \in Arms : Len(queue[r]) \in Nat,
           \A r \in Arms : Len(admitted[r]) \in Nat
    PROVE  /\ Spent \in Nat
           /\ \A i \in 0..N : SpentAfter(ans)[i] \in Nat
           /\ Spent <= MaxTake => \A i \in 0..N : SpentAfter(ans)[i] <= MaxTake
<1> DEFINE T == {i \in Nat : i <= N => /\ SpentAfter(ans)[i] \in Nat
                                      /\ (Spent <= MaxTake => SpentAfter(ans)[i] <= MaxTake)}
<1>1. N \in Nat /\ MaxTake \in Nat
  BY SeamAssumption, PollCycleAssumption
<1>2. Spent \in Nat
  <2> DEFINE f == [r \in Arms |-> Len(admitted[r])]
  <2>1. \A i \in 1..N : f[i] \in Nat /\ f[i] <= f[i]
    BY DEF Arms
  <2> HIDE DEF f
  <2>2. Total(f, N) \in Nat
    BY <1>1, <2>1, TotalBounds
  <2> QED BY <2>2 DEF Spent, f
<1>3. 0 \in T
  BY <1>2, SpentAfterSteps
<1>4. ASSUME NEW i \in T PROVE i + 1 \in T
  <2> SUFFICES ASSUME i + 1 <= N PROVE i + 1 \in T
    OBVIOUS
  <2> DEFINE x == SpentAfter(ans)[i]
             k == Order(i + 1)
  <2>1. i + 1 \in 1..N /\ x \in Nat /\ (Spent <= MaxTake => x <= MaxTake) /\ (i + 1) - 1 = i
    BY <1>1
  <2>2. k \in Arms /\ Len(queue[k]) \in Nat
    BY <2>1, OrderInArms
  <2>3. SpentAfter(ans)[i + 1] = x + IF Fresh(ans, k) THEN Quota(k, x) ELSE 0
    BY <2>1, SpentAfterSteps DEF Further
  <2> HIDE DEF x, k
  <2>4. /\ Quota(k, x) \in Nat
        /\ Quota(k, x) = 0 \/ x + Quota(k, x) <= MaxTake
    <3>1. /\ Quota(k, x) \in 0..Len(queue[k])
          /\ Quota(k, x) = 0 \/ Affords(k, x, Quota(k, x))
      BY <2>1, <2>2, QuotaTells
    <3> QED BY <2>2, <3>1 DEF Affords
  <2>5. /\ SpentAfter(ans)[i + 1] \in Nat
        /\ Spent <= MaxTake => SpentAfter(ans)[i + 1] <= MaxTake
    BY <1>1, <2>1, <2>3, <2>4
  <2> QED BY <2>5
<1>5. T = Nat
  <2>1. T \in SUBSET Nat
    OBVIOUS
  <2> HIDE DEF T
  <2> QED BY <1>3, <1>4, <2>1, SetInduction
<1> QED BY <1>2, <1>5

LEMMA TakenTells ==
    ASSUME NEW ans, request.cursor \in Arms, \A r \in Arms : Len(queue[r]) \in Nat,
           \A r \in Arms : Len(admitted[r]) \in Nat, NEW r \in Arms
    PROVE  /\ Taken(ans, r) \in 0..Len(queue[r])
           /\ SpentBefore(ans, r) \in Nat
           /\ ~Fresh(ans, r) => Taken(ans, r) = 0
           /\ Taken(ans, r) = 0 \/ Affords(r, SpentBefore(ans, r), Taken(ans, r))
           /\ Fresh(ans, r) => \A j \in Taken(ans, r) + 1 .. Len(queue[r]) :
                                ~Affords(r, SpentBefore(ans, r), j)
<1>1. Place(r) - 1 \in 0..N
  BY PlaceIs, SeamAssumption
<1>2. SpentBefore(ans, r) \in Nat
  BY <1>1, SpentAfterIsNatural DEF SpentBefore
<1>3. CASE Fresh(ans, r)
  <2>1. Taken(ans, r) = Quota(r, SpentBefore(ans, r))
    BY <1>3 DEF Taken
  <2> QED BY <1>2, <1>3, <2>1, QuotaTells
<1>4. CASE ~Fresh(ans, r)
  <2>1. Taken(ans, r) = 0
    BY <1>4 DEF Taken
  <2> QED BY <1>2, <1>4, <2>1
<1> QED BY <1>3, <1>4

\* What a turn counts is what it takes.
LEMMA SpentAfterIsTotal ==
    ASSUME NEW ans, request.cursor \in Arms, \A r \in Arms : Len(queue[r]) \in Nat,
           \A r \in Arms : Len(admitted[r]) \in Nat
    PROVE  \A i \in 0..N : SpentAfter(ans)[i] = Total(Gained(ans, i), N)
<1> DEFINE T == {i \in Nat : i <= N => SpentAfter(ans)[i] = Total(Gained(ans, i), N)}
<1>1. N \in Nat
  BY SeamAssumption
<1>2. 0 \in T
  <2>1. \A r \in Arms : ~(Place(r) <= 0)
    BY PlaceIs
  <2>2. Gained(ans, 0) = [r \in Arms |-> Len(admitted[r])]
    BY <2>1 DEF Gained
  <2>3. SpentAfter(ans)[0] = Spent
    BY SpentAfterSteps
  <2> QED BY <2>2, <2>3, Zenon DEF Spent
<1>3. ASSUME NEW i \in T PROVE i + 1 \in T
  <2> SUFFICES ASSUME i + 1 <= N PROVE i + 1 \in T
    OBVIOUS
  <2> DEFINE x == SpentAfter(ans)[i]
             k == Order(i + 1)
             f == Gained(ans, i)
             g == Gained(ans, i + 1)
             d == Taken(ans, k)
  <2>1. i \in Nat /\ i + 1 \in 1..N /\ x = Total(f, N) /\ (i + 1) - 1 = i
    BY <1>1
  <2>2. k \in Arms /\ Place(k) = i + 1
    BY <2>1, OrderInArms
  <2>3. SpentBefore(ans, k) = x
    BY <2>1, <2>2 DEF SpentBefore
  <2>4. SpentAfter(ans)[i + 1] = x + d
    BY <2>1, <2>3, SpentAfterSteps DEF Further, Taken
  <2>5. d \in Nat /\ k \in 1..N
    BY <2>2, TakenTells DEF Arms
  <2>6. ASSUME NEW r \in 1..N
        PROVE  f[r] \in Nat /\ g[r] = f[r] + IF r = k THEN d ELSE 0
    <3>1. r \in Arms
      BY DEF Arms
    <3>2. Taken(ans, r) \in Nat /\ Place(r) \in Nat /\ Order(Place(r)) = r
      BY <3>1, TakenTells, PlaceIs
    <3>3. r = k <=> Place(r) = i + 1
      BY <2>2, <3>2
    <3>4. /\ f[r] = Len(admitted[r]) + IF Place(r) <= i THEN Taken(ans, r) ELSE 0
          /\ g[r] = Len(admitted[r]) + IF Place(r) <= i + 1 THEN Taken(ans, r) ELSE 0
      BY <3>1 DEF Gained
    <3> HIDE DEF f, g, k
    <3>5. Len(admitted[r]) \in Nat /\ i \in Nat
      BY <2>1, <3>1
    <3>6. CASE Place(r) <= i
      <4>1. r # k
        BY <3>2, <3>3, <3>5, <3>6
      <4> QED BY <3>2, <3>4, <3>5, <3>6, <4>1
    <3>7. CASE Place(r) = i + 1
      BY <3>2, <3>3, <3>4, <3>5, <3>7
    <3>8. CASE Place(r) > i + 1
      <4>1. r # k
        BY <3>2, <3>3, <3>5, <3>8
      <4> QED BY <3>2, <3>4, <3>5, <3>8, <4>1
    <3> QED BY <3>2, <3>5, <3>6, <3>7, <3>8
  <2> HIDE DEF x, f, g, k, d, T
  <2>7. Total(g, N) = Total(f, N) + d
    <3>1. \A r \in 1..N : f[r] \in Nat /\ (r # k => g[r] = f[r])
      BY <2>6
    <3>2. g[k] = f[k] + d
      BY <2>5, <2>6
    <3> QED BY <1>1, <2>5, <3>1, <3>2, TotalGrows
  <2> QED BY <2>1, <2>4, <2>7 DEF g, T
<1>4. T = Nat
  <2>1. T \in SUBSET Nat
    OBVIOUS
  <2> HIDE DEF T
  <2> QED BY <1>2, <1>3, <2>1, SetInduction
<1> QED BY <1>4
-----------------------------------------------------------------------------
(* The invariants. *)

\* While a cycle runs, arm r holds what follows its committed cursor in two
\* parts: what the cycle has admitted, and the queue.
Parted(q, adm, r) ==
    /\ RunTo(adm, committed[r] + Len(adm))
    /\ RunTo(q, arrived[r])
    /\ arrived[r] - Len(q) = committed[r] + Len(adm)

\* Between cycles it holds that, and perhaps some of what was committed last.
Trails(q, r) == RunTo(q, arrived[r]) /\ arrived[r] - Len(q) <= committed[r]

\* Cursors lie where events have been.
Cursors ==
    /\ arrived \in [Arms -> 0..MaxEvents]
    /\ committed \in [Arms -> Nat]
    /\ \A r \in Arms : committed[r] <= arrived[r]
    /\ outcome.kind \notin Silent =>
         /\ outcome.retained \in [Arms -> Nat]
         /\ \A r \in Arms : outcome.retained[r] \in committed[r] .. arrived[r]

\* Where the events are.
Holdings ==
    /\ whole \in BOOLEAN
    /\ DOMAIN queue = Arms
    /\ pc # "idle" => whole /\ \A r \in Arms : Parted(queue[r], admitted[r], r)
    /\ pc = "idle" => /\ \A r \in Arms : admitted[r] = <<>>
                      /\ whole => \A r \in Arms : Trails(queue[r], r)

Inv == request.cursor \in Arms /\ Cursors /\ Holdings

\* Events adm are within the bounds of a cycle.
Bounded(adm) ==
    /\ Total([r \in Arms |-> Len(adm[r])], N) <= MaxTake
    /\ \A r \in Arms : /\ Len(adm[r]) <= MaxTakeOf[r]
                       /\ \A i \in 1..Len(adm[r]) : adm[r][i] \notin Oversized[r]

\* An arm without a visit has given nothing, and one is visited once.
Budget ==
    /\ Bounded(admitted)
    /\ \A r \in Arms : visits[r] = "none" => admitted[r] = <<>>
    /\ WithinBounds

\* The first arm of the order is not deferred if it has an event to take: it
\* is visited when nothing has been spent, as soon as any bind has completed.
Untouched == bound = {} /\ \A r \in Arms : visits[r] = "none" /\ admitted[r] = <<>>
Takeable(r) ==
    /\ r \in bindable /\ queue[r] # <<>> /\ queue[r][1] \notin Oversized[r]
    /\ MaxTake > 0 /\ MaxTakeOf[r] > 0
Served(vis, r) == vis[r] # "none" /\ (Place(r) = 1 => vis[r] # "deferred")

\* An arm is passed over no more often than there are arms before it.
CursorOfNext == IF outcome.kind \in Silent THEN request.cursor ELSE NextCursor
Rotation ==
    /\ passed \in [Arms -> Nat]
    /\ pc # "idle" => /\ \A r \in Arms : passed[r] <= N - Place(r)
                      /\ due \subseteq Arms
                      /\ \A r \in due : /\ signal[r] \notin AllSignals
                                        /\ (Untouched /\ Takeable(r)) \/ Served(visits, r)
    /\ pc = "idle" => \A r \in Arms : passed[r] <= N - Ahead(CursorOfNext, r)

\* What the last outcome retained, and what is committed, has been received.
Received ==
    /\ now \in 0..Horizon
    /\ \A r \in Arms : 1..committed[r] \subseteq seen[r]
    /\ outcome.kind \notin Silent => \A r \in Arms : 1..outcome.retained[r] \subseteq seen[r]
-----------------------------------------------------------------------------
(* What a step may do. Every action of the runner has one of four shapes.  *)

\* It only moves on in the select.
Moves ==
    /\ pc # "idle" /\ pc' # "idle"
    /\ UNCHANGED <<seamVars, callerVars, request, bound, visits, admitted, outcome>>

\* It records the answers of a race or of the binds, and goes round again.
Asks(ans) ==
    \/ bound # {} /\ ans = RaceAnswers
    \/ Binding # {} /\ ans = ReadyAnswers(bound \cup Binding)
Rounds(ans) ==
    /\ pc # "idle" /\ pc' = "top"
    /\ Asks(ans)
    /\ bound' # {}
    /\ visits' = Recorded(ans) /\ admitted' = Admitted(ans) /\ queue' = QueueAfter(ans)
    /\ UNCHANGED <<now, observerVars, request, outcome, callerVars>>

\* The queues, the events admitted and the visits when the cycle ends: without
\* new answers, with those of a round, or with those of the last look.
Turn(q, adm, vis) ==
    \/ q = queue /\ adm = admitted /\ vis \in {visits, FilledVisits(visits, admitted)}
    \/ \E ans : Asks(ans) /\ q = QueueAfter(ans) /\ adm = Admitted(ans) /\ vis = Recorded(ans)
    \/ \E ans : /\ ans = ReadyAnswers(Pending)
                /\ q = QueueAfter(ans) /\ adm = Admitted(ans)
                /\ vis \in {Recorded(ans), FilledVisits(Recorded(ans), adm)}

\* It ends the cycle and gives back what was admitted ...
EndsWith(result, q, adm, vis) ==
    /\ pc # "idle"
    /\ Turn(q, adm, vis)
    /\ result = NoOutcome("error") \/ \E kind, binds : result = Report(kind, adm, binds, now)
    /\ queue' = [r \in Arms |-> GivenBack(q, adm, r)]
    /\ Conclude(result, vis, FALSE)
    /\ UNCHANGED <<now, observerVars, request>>

\* ... or without having given back all.
Breaks ==
    /\ pc # "idle"
    /\ DOMAIN queue' = Arms \/ queue' = queue
    /\ \E kind \in {"error", "abandoned"} : \E vis : Conclude(NoOutcome(kind), vis, TRUE)
    /\ UNCHANGED <<now, observerVars, request>>

\* A future dropped with nothing in it.
Drops ==
    /\ pc # "idle" /\ admitted = NoEvents
    /\ Conclude(NoOutcome("abandoned"), visits, FALSE)
    /\ UNCHANGED <<seamVars, request>>

Surroundings ==
    /\ Environment
    /\ due' = {r \in due : signal'[r] \notin AllSignals}
    /\ UNCHANGED <<cycleVars, committed, seen, passed, whole>>

LEMMA EmitShape ==
    ASSUME NEW result, NEW q, NEW adm, NEW vis, pc # "idle", Turn(q, adm, vis),
           result = NoOutcome("error") \/ \E kind, binds : result = Report(kind, adm, binds, now),
           Emit(result, q, adm, vis), UNCHANGED <<now, observerVars, request>>
    PROVE  EndsWith(result, q, adm, vis) \/ Breaks
<1>1. CASE queue' = [r \in Arms |-> GivenBack(q, adm, r)] /\ Conclude(result, vis, FALSE)
  BY <1>1, Zenon DEF EndsWith
<1>2. CASE DOMAIN queue' = Arms /\ Conclude(NoOutcome("error"), vis, TRUE)
  BY <1>2, Zenon DEF Breaks
<1>3. \/ queue' = [r \in Arms |-> GivenBack(q, adm, r)] /\ Conclude(result, vis, FALSE)
      \/ DOMAIN queue' = Arms /\ Conclude(NoOutcome("error"), vis, TRUE)
  <2> SUFFICES ASSUME NEW f \in Arms, NEW j \in 1..Len(adm[f]),
                      queue' = [r \in Arms |->
                        IF r < f THEN GivenBack(q, adm, r)
                        ELSE IF r = f THEN SubSeq(adm[f], j + 1, Len(adm[f])) \o q[f]
                        ELSE q[r]]
               PROVE  DOMAIN queue' = Arms
    BY Zenon DEF Emit
  <2> QED OBVIOUS
<1> QED BY <1>1, <1>2, <1>3, Zenon

\* If one of the restores of record_ready fails, nothing more is given back.
LEMMA RecordFails ==
    ASSUME NEW ans, NEW f, pc # "idle", queue' = QueueAtFailure(ans, f),
           Conclude(NoOutcome("error"), visits, TRUE), UNCHANGED <<now, observerVars, request>>
    PROVE  Breaks
<1>1. DOMAIN queue' = Arms
  BY DEF QueueAtFailure
<1> QED BY <1>1, Zenon DEF Breaks

LEMMA RecordShape ==
    ASSUME NEW ans, NEW binds, pc # "idle", Asks(ans), bound' # {},
           Record(ans, GoOn(ans, binds)), UNCHANGED <<now, observerVars, request>>
    PROVE  \/ Rounds(ans) \/ Breaks
           \/ \E result, q, adm, vis : EndsWith(result, q, adm, vis)
<1>1. CASE GoOn(ans, binds)
  <2> DEFINE over == \A r \in Arms : Recorded(ans)[r] # "none"
             kind == DecideKind(Recorded(ans), Admitted(ans), now)
             report == Report(kind, Admitted(ans), binds, now)
  <2>1. CASE over
    <3>1. Emit(report, QueueAfter(ans), Admitted(ans), Recorded(ans))
      BY <1>1, <2>1, Zenon DEF GoOn
    <3>2. Turn(QueueAfter(ans), Admitted(ans), Recorded(ans))
      BY Zenon DEF Turn
    <3>3. \E k, b : report = Report(k, Admitted(ans), b, now)
      BY Zenon
    <3> HIDE DEF report
    <3>4. EndsWith(report, QueueAfter(ans), Admitted(ans), Recorded(ans)) \/ Breaks
      BY <3>1, <3>2, <3>3, EmitShape
    <3> QED BY <3>4, Zenon
  <2>2. CASE ~over
    <3>1. /\ pc' = "top" /\ visits' = Recorded(ans) /\ admitted' = Admitted(ans)
          /\ queue' = QueueAfter(ans) /\ UNCHANGED <<outcome, callerVars>>
      BY <1>1, <2>2, Zenon DEF GoOn
    <3> QED BY <3>1 DEF Rounds
  <2> QED BY <2>1, <2>2
<1>2. CASE \E f \in {r \in Returned(ans) : RestoreCanFail} :
             queue' = QueueAtFailure(ans, f) /\ Conclude(NoOutcome("error"), visits, TRUE)
  BY <1>2, RecordFails, Zenon
<1> QED BY <1>1, <1>2, Zenon DEF Record

Ending == \E result, q, adm, vis : EndsWith(result, q, adm, vis)

LEMMA EndShape ==
    ASSUME NEW kind, NEW vis \in {visits, FilledVisits(visits, admitted)}, pc # "idle",
           Emit(Report(kind, admitted, bound, now), queue, admitted, vis),
           UNCHANGED <<now, observerVars, request>>
    PROVE  Ending \/ Breaks
<1> DEFINE report == Report(kind, admitted, bound, now)
<1>1. Turn(queue, admitted, vis)
  BY Zenon DEF Turn
<1>2. \E k, b : report = Report(k, admitted, b, now)
  BY Zenon
<1> HIDE DEF report
<1>3. EndsWith(report, queue, admitted, vis) \/ Breaks
  BY <1>1, <1>2, EmitShape DEF report
<1> QED BY <1>3, Zenon DEF Ending

LEMMA ErrorShape ==
    ASSUME pc # "idle", Emit(NoOutcome("error"), queue, admitted, visits),
           UNCHANGED <<now, observerVars, request>>
    PROVE  Ending \/ Breaks
<1>1. Turn(queue, admitted, visits)
  BY Zenon DEF Turn
<1>2. EndsWith(NoOutcome("error"), queue, admitted, visits) \/ Breaks
  BY <1>1, EmitShape
<1> QED BY <1>2, Zenon DEF Ending

LEMMA ObserveShapes ==
    ASSUME ObserveCompletes \/ ObserveFails \/ ObservePending
    PROVE  Moves \/ Breaks \/ Ending \/ \E ans : Rounds(ans)
<1>1. CASE ObserveCompletes
  <2> DEFINE ans == RaceAnswers
  <2>1. /\ pc # "idle" /\ Record(ans, GoOn(ans, bound)) /\ Pending # {} /\ bound' = bound
        /\ UNCHANGED <<now, observerVars, request>>
    BY <1>1 DEF ObserveCompletes
  <2>2. bound # {}
    BY <2>1 DEF Pending
  <2>3. Asks(ans)
    BY <2>2, Zenon DEF Asks
  <2> HIDE DEF ans
  <2> QED BY <2>1, <2>2, <2>3, RecordShape, Zenon DEF Ending
<1>2. CASE ObserveFails
  <2>1. pc # "idle" /\ UNCHANGED <<now, observerVars, request>>
    BY <1>2 DEF ObserveFails
  <2>2. CASE Emit(NoOutcome("error"), queue, admitted, visits)
    BY <2>1, <2>2, ErrorShape, Zenon
  <2>3. CASE /\ \E f : queue' = [r \in Arms |->
                    IF r \in {s \in Pending : RaceAnswers[s] = "event"} /\ Place(r) >= Place(f)
                    THEN Tail(queue[r]) ELSE queue[r]]
             /\ Conclude(NoOutcome("error"), visits, TRUE)
    <3>1. DOMAIN queue' = Arms
      BY <2>3
    <3> QED BY <2>1, <2>3, <3>1, Zenon DEF Breaks
  <2> QED BY <1>2, <2>2, <2>3, Zenon DEF ObserveFails
<1>3. CASE ObservePending
  BY <1>3 DEF ObservePending, Moves
<1> QED BY <1>1, <1>2, <1>3

LEMMA BindShapes ==
    ASSUME BindCompletes \/ BindFails \/ BindPending
    PROVE  Moves \/ Breaks \/ Ending \/ \E ans : Rounds(ans)
<1>1. CASE BindCompletes
  <2> DEFINE binds == bound \cup Binding
             ans == ReadyAnswers(binds)
  <2>1. /\ pc # "idle" /\ Record(ans, GoOn(ans, binds)) /\ Binding # {} /\ bound' = binds
        /\ UNCHANGED <<now, observerVars, request>>
    BY <1>1 DEF BindCompletes
  <2>2. Asks(ans) /\ bound' # {}
    BY <2>1 DEF Asks
  <2> HIDE DEF ans, binds
  <2> QED BY <2>1, <2>2, RecordShape, Zenon DEF Ending
<1>2. CASE BindFails
  <2>1. pc # "idle" /\ UNCHANGED <<now, observerVars, request>>
    BY <1>2 DEF BindFails
  <2>2. Emit(NoOutcome("error"), queue, admitted, visits)
    BY <1>2, Zenon DEF BindFails
  <2> QED BY <2>1, <2>2, ErrorShape, Zenon
<1>3. CASE BindPending
  BY <1>3 DEF BindPending, Moves
<1> QED BY <1>1, <1>2, <1>3

LEMMA SleepShapes ==
    ASSUME SleepCompletes \/ SleepPending
    PROVE  Moves \/ Breaks \/ Ending
<1>1. CASE SleepCompletes
  <2> DEFINE ans == ReadyAnswers(Pending)
             vis == DeadlineVisits(Recorded(ans), Admitted(ans))
             kind == DeadlineKind(Recorded(ans), Admitted(ans), now)
             report == Report(kind, Admitted(ans), bound, now)
  <2>1. pc # "idle" /\ UNCHANGED <<now, observerVars, request>>
    BY <1>1 DEF SleepCompletes
  <2>2. CASE Emit(report, QueueAfter(ans), Admitted(ans), vis)
    <3>1. Turn(QueueAfter(ans), Admitted(ans), vis)
      <4>1. vis \in {Recorded(ans), FilledVisits(Recorded(ans), Admitted(ans))}
        BY Zenon DEF DeadlineVisits
      <4> QED BY <4>1, Zenon DEF Turn
    <3>2. \E k, b : report = Report(k, Admitted(ans), b, now)
      BY Zenon
    <3> HIDE DEF report, vis, ans
    <3>3. EndsWith(report, QueueAfter(ans), Admitted(ans), vis) \/ Breaks
      BY <2>1, <2>2, <3>1, <3>2, EmitShape
    <3> QED BY <3>3, Zenon DEF Ending
  <2>3. CASE \E f \in {r \in Returned(ans) : RestoreCanFail} :
               queue' = QueueAtFailure(ans, f) /\ Conclude(NoOutcome("error"), visits, TRUE)
    BY <2>1, <2>3, RecordFails, Zenon
  <2> QED BY <1>1, <2>2, <2>3, Zenon DEF SleepCompletes, Record
<1>2. CASE SleepPending
  BY <1>2 DEF SleepPending, Moves, FirstBranch
<1> QED BY <1>1, <1>2

LEMMA OtherShapes ==
    ASSUME TopCancelled \/ TopDeadline \/ TopSelect \/ PollCancel \/ Abandon
    PROVE  Moves \/ Breaks \/ Ending \/ Drops
<1>1. CASE TopCancelled
  <2>1. pc # "idle" /\ UNCHANGED <<now, observerVars, request>>
    BY <1>1 DEF TopCancelled
  <2> QED BY <1>1, <2>1, EndShape, Zenon DEF TopCancelled
<1>2. CASE TopDeadline
  <2>1. pc # "idle" /\ UNCHANGED <<now, observerVars, request>>
    BY <1>2 DEF TopDeadline
  <2>2. DeadlineVisits(visits, admitted) \in {visits, FilledVisits(visits, admitted)}
    BY Zenon DEF DeadlineVisits
  <2> QED BY <1>2, <2>1, <2>2, EndShape, Zenon DEF TopDeadline
<1>3. CASE TopSelect
  BY <1>3 DEF TopSelect, Moves, FirstBranch
<1>4. CASE PollCancel
  <2>1. pc # "idle" /\ UNCHANGED <<now, cancelled, observerVars, request, bound>>
    BY <1>4 DEF PollCancel
  <2>2. CASE CancelSeen
    BY <1>4, <2>1, <2>2, EndShape, Zenon DEF PollCancel
  <2>3. CASE ~CancelSeen
    <3>1. pc' = "sleep" /\ UNCHANGED <<queue, callerVars, visits, admitted, outcome>>
      BY <1>4, <2>3 DEF PollCancel
    <3> QED BY <2>1, <3>1 DEF Moves, seamVars, observerVars
  <2> QED BY <2>2, <2>3
<1>5. CASE Abandon
  <2>1. pc # "idle" /\ UNCHANGED <<seamVars, request>>
    BY <1>5 DEF Abandon
  <2>2. Conclude(NoOutcome("abandoned"), visits, admitted # NoEvents)
    BY <1>5 DEF Abandon
  <2>3. CASE admitted = NoEvents
    BY <2>1, <2>2, <2>3 DEF Drops
  <2>4. CASE admitted # NoEvents
    <3>1. UNCHANGED <<now, observerVars, request>> /\ queue' = queue
      BY <2>1 DEF seamVars, observerVars
    <3>2. (admitted # NoEvents) = TRUE
      BY <2>4
    <3>3. Conclude(NoOutcome("abandoned"), visits, TRUE)
      BY <2>2, <3>2, Zenon
    <3> QED BY <2>1, <3>1, <3>3, Zenon DEF Breaks
  <2> QED BY <2>3, <2>4
<1> QED BY <1>1, <1>2, <1>3, <1>4, <1>5

LEMMA Shapes ==
    ASSUME [Next]_vars
    PROVE  \/ UNCHANGED vars \/ Surroundings
           \/ StartCycle \/ StartUncited \/ Ack \/ Restart
           \/ Moves \/ Breaks \/ Ending \/ Drops \/ \E ans : Rounds(ans)
BY ObserveShapes, BindShapes, SleepShapes, OtherShapes, Zenon
   DEF Next, Caller, Runner, Surroundings
-----------------------------------------------------------------------------
(* Nothing uncommitted is lost. *)

LEMMA Known ==
    ASSUME Inv
    PROVE  /\ N \in Nat \ {0} /\ MaxEvents \in Nat /\ request.cursor \in Arms
           /\ \A r \in Arms : /\ arrived[r] \in Nat /\ committed[r] \in Nat
                              /\ committed[r] <= arrived[r] /\ arrived[r] <= MaxEvents
BY SeamAssumption DEF Inv, Cursors

LEMMA KnownParts ==
    ASSUME Inv, pc # "idle", NEW r \in Arms
    PROVE  /\ Parted(queue[r], admitted[r], r)
           /\ queue[r] \in Seq(Event) /\ Len(queue[r]) \in Nat
           /\ admitted[r] \in Seq(Event) /\ Len(admitted[r]) \in Nat
<1>1. Parted(queue[r], admitted[r], r)
  BY DEF Inv, Holdings
<1>2. queue[r] \in Seq(Event) /\ admitted[r] \in Seq(Event)
  BY <1>1 DEF Parted, RunTo
<1> QED BY <1>1, <1>2, LenProperties

\* Taking events from the front of a queue moves the border between the parts.
LEMMA TakeParted ==
    ASSUME Inv, pc # "idle", NEW ans, NEW r \in Arms
    PROVE  /\ Parted(QueueAfter(ans)[r], Admitted(ans)[r], r)
           /\ Admitted(ans)[r] = admitted[r] \o SubSeq(queue[r], 1, Taken(ans, r))
           /\ Len(Admitted(ans)[r]) = Len(admitted[r]) + Taken(ans, r)
           /\ Taken(ans, r) \in 0..Len(queue[r])
<1> DEFINE q == queue[r]
           m == Taken(ans, r)
           a == SubSeq(q, 1, m)
           b == SubSeq(q, m + 1, Len(q))
<1>1. /\ arrived[r] \in Nat /\ committed[r] \in Nat /\ Len(q) \in Nat /\ Len(admitted[r]) \in Nat
      /\ Parted(q, admitted[r], r)
  BY Known, KnownParts
<1>2. m \in 0..Len(q)
  <2>1. \A s \in Arms : Len(queue[s]) \in Nat /\ Len(admitted[s]) \in Nat
    BY KnownParts
  <2> QED BY <2>1, Known, TakenTells
<1>3. Admitted(ans)[r] = admitted[r] \o a /\ QueueAfter(ans)[r] = b
  BY DEF Admitted, QueueAfter
<1> HIDE DEF m
<1>4. /\ RunTo(a, arrived[r] - Len(q) + m) /\ RunTo(b, arrived[r])
      /\ Len(a) = m /\ Len(b) = Len(q) - m
  <2>1. RunTo(q, arrived[r])
    BY <1>1 DEF Parted
  <2> QED BY <1>1, <1>2, <2>1, RunSplits
<1> HIDE DEF a, b, q
<1>5. arrived[r] - Len(q) = committed[r] + Len(admitted[r]) /\ m \in Nat
  BY <1>1, <1>2 DEF Parted
<1>6. RunTo(admitted[r] \o a, committed[r] + Len(admitted[r]) + m)
      /\ Len(admitted[r] \o a) = Len(admitted[r]) + m
  <2>1. RunTo(a, committed[r] + Len(admitted[r]) + m)
    BY <1>4, <1>5
  <2>2. RunTo(admitted[r], committed[r] + Len(admitted[r]))
    BY <1>1 DEF Parted
  <2>3. /\ committed[r] + Len(admitted[r]) + m \in Nat /\ committed[r] + Len(admitted[r]) \in Nat
        /\ committed[r] + Len(admitted[r]) = (committed[r] + Len(admitted[r]) + m) - Len(a)
    BY <1>1, <1>4, <1>5
  <2> QED BY <1>4, <2>1, <2>2, <2>3, RunsJoin
<1>7. Parted(b, admitted[r] \o a, r)
  <2>1. /\ committed[r] + Len(admitted[r] \o a) = committed[r] + Len(admitted[r]) + m
        /\ arrived[r] - Len(b) = committed[r] + Len(admitted[r]) + m
    BY <1>1, <1>4, <1>5, <1>6
  <2> QED BY <1>4, <1>6, <2>1 DEF Parted
<1> QED BY <1>2, <1>3, <1>6, <1>7 DEF a, m, q

LEMMA TurnParted ==
    ASSUME Inv, pc # "idle", NEW q, NEW adm, NEW vis, Turn(q, adm, vis), NEW r \in Arms
    PROVE  Parted(q[r], adm[r], r)
<1>1. CASE q = queue /\ adm = admitted
  BY <1>1, KnownParts
<1>2. CASE \E ans : q = QueueAfter(ans) /\ adm = Admitted(ans)
  BY <1>2, TakeParted
<1> QED BY <1>1, <1>2, Zenon DEF Turn

LEMMA PartsJoin ==
    ASSUME Inv, NEW q, NEW adm, NEW r \in Arms, Parted(q, adm, r)
    PROVE  RunTo(adm \o q, arrived[r]) /\ arrived[r] - Len(adm \o q) <= committed[r]
<1>1. /\ RunTo(q, arrived[r]) /\ RunTo(adm, committed[r] + Len(adm))
      /\ arrived[r] - Len(q) = committed[r] + Len(adm)
  BY DEF Parted
<1>2. Len(q) \in Nat /\ Len(adm) \in Nat
  BY <1>1, LenProperties DEF RunTo
<1>3. arrived[r] \in Nat /\ committed[r] \in Nat
  BY Known
<1>4. RunTo(adm \o q, arrived[r]) /\ Len(adm \o q) = Len(adm) + Len(q)
  <2>1. committed[r] + Len(adm) \in Nat
    BY <1>2, <1>3
  <2> QED BY <1>1, <1>3, <2>1, RunsJoin
<1> QED BY <1>1, <1>2, <1>3, <1>4

\* An outcome retains only what the cycle has admitted.
LEMMA LastIs ==
    ASSUME Inv, NEW q, NEW adm, NEW r \in Arms, Parted(q, adm, r)
    PROVE  LastOr(adm, committed[r]) = committed[r] + Len(adm)
<1>1. adm \in Seq(Event) /\ Len(adm) \in Nat /\ committed[r] \in Nat
  BY Known, LenProperties DEF Parted, RunTo
<1>2. CASE adm = <<>>
  <2>1. Len(adm) = 0
    BY <1>2
  <2> QED BY <1>1, <1>2, <2>1 DEF LastOr
<1>3. CASE adm # <<>>
  <2>1. Len(adm) \in 1..Len(adm)
    BY <1>1, <1>3, EmptySeq
  <2>2. \A i \in 1..Len(adm) : adm[i] = (committed[r] + Len(adm)) - Len(adm) + i
    BY DEF Parted, RunTo
  <2>3. adm[Len(adm)] = committed[r] + Len(adm)
    <3>1. (committed[r] + Len(adm)) - Len(adm) + Len(adm) = committed[r] + Len(adm)
      BY <1>1
    <3> QED BY <2>1, <2>2, <3>1, Zenon
  <2> QED BY <1>3, <2>3, Zenon DEF LastOr
<1> QED BY <1>2, <1>3

LEMMA ReportRetains ==
    ASSUME Inv, NEW q, NEW adm, \A r \in Arms : Parted(q[r], adm[r], r),
           NEW kind, NEW binds, NEW result, result = Report(kind, adm, binds, now),
           result.kind \notin Silent
    PROVE  /\ result.retained \in [Arms -> Nat]
           /\ \A r \in Arms : result.retained[r] =
                 IF kind \in Delivers THEN committed[r] + Len(adm[r]) ELSE committed[r]
           /\ \A r \in Arms : result.retained[r] \in committed[r] .. arrived[r]
<1>1. result.retained = [r \in Arms |-> Retained(kind, adm, r)]
  <2>1. NoOutcome("error").kind \in Silent
    BY DEF NoOutcome, Silent
  <2> QED BY <2>1 DEF Report
<1>2. ASSUME NEW r \in Arms
      PROVE  /\ result.retained[r] =
                   IF kind \in Delivers THEN committed[r] + Len(adm[r]) ELSE committed[r]
             /\ result.retained[r] \in Nat /\ result.retained[r] \in committed[r] .. arrived[r]
  <2>1. Parted(q[r], adm[r], r)
    OBVIOUS
  <2>2. LastOr(adm[r], committed[r]) = committed[r] + Len(adm[r])
    BY <2>1, LastIs
  <2>3. /\ committed[r] + Len(adm[r]) = arrived[r] - Len(q[r])
        /\ adm[r] \in Seq(Event) /\ q[r] \in Seq(Event)
    BY <2>1 DEF Parted, RunTo
  <2>4. Len(q[r]) \in Nat /\ Len(adm[r]) \in Nat
    BY <2>3, LenProperties
  <2>5. arrived[r] \in Nat /\ committed[r] \in Nat /\ committed[r] <= arrived[r]
    BY Known
  <2>6. result.retained[r] = IF kind \in Delivers THEN committed[r] + Len(adm[r]) ELSE committed[r]
    BY <1>1, <2>2 DEF Retained
  <2>7. committed[r] + Len(adm[r]) \in committed[r] .. arrived[r]
    BY <2>3, <2>4, <2>5
  <2> QED BY <2>5, <2>6, <2>7
<1> QED BY <1>1, <1>2

LEMMA RunIsRead ==
    ASSUME NEW k \in Nat, NEW n \in Nat, k <= n, n <= MaxEvents, MaxEvents \in Nat
    PROVE  RunTo(Between(k, n), n) /\ Len(Between(k, n)) = n - k
<1>1. n - k \in Nat
  OBVIOUS
<1>2. \A i \in 1..n - k : k + i \in Event
  BY DEF Event
<1> DEFINE m == n - k
           s == [i \in 1..m |-> k + i]
<1>3. s \in Seq(Event) /\ Len(s) = m
  BY <1>1, <1>2, IsASeq, LenProperties
<1>4. \A i \in 1..m : s[i] = n - m + i
  BY <1>1
<1>5. RunTo(s, n)
  <2> HIDE DEF s
  <2> QED BY <1>1, <1>3, <1>4 DEF RunTo
<1> QED BY <1>3, <1>5 DEF Between

LEMMA ConcludeTells ==
    ASSUME NEW result, NEW vis, NEW lost, Conclude(result, vis, lost)
    PROVE  /\ pc' = "idle" /\ outcome' = result /\ committed' = committed /\ due' = due
           /\ whole' = (whole /\ ~lost) /\ visits' = vis
           /\ \A r \in Arms : admitted'[r] = <<>>
           /\ passed' = [r \in Arms |->
                IF result.kind \in Silent \cup Final \/ r \notin due \/ vis[r] # "deferred"
                THEN 0 ELSE passed[r] + 1]
BY DEF Conclude, NoEvents

LEMMA SurroundingsTell ==
    ASSUME Inv, Surroundings
    PROVE  /\ arrived' \in [Arms -> 0..MaxEvents]
           /\ DOMAIN queue' = Arms
           /\ \A r \in Arms :
                \/ arrived'[r] = arrived[r] /\ queue'[r] = queue[r]
                \/ /\ arrived[r] < MaxEvents /\ arrived'[r] = arrived[r] + 1
                   /\ queue'[r] = Append(queue[r], arrived[r] + 1)
           /\ UNCHANGED <<cycleVars, committed, passed, whole>>
<1>1. /\ arrived \in [Arms -> 0..MaxEvents] /\ DOMAIN queue = Arms /\ MaxEvents \in Nat
      /\ UNCHANGED <<cycleVars, committed, passed, whole>>
  BY SeamAssumption DEF Inv, Cursors, Holdings, Surroundings
<1>2. CASE UNCHANGED <<arrived, queue>>
  BY <1>1, <1>2
<1>3. CASE \E s \in Arms : Arrive(s)
  <2>1. PICK s \in Arms : Arrive(s)
    BY <1>3
  <2>2. /\ arrived[s] < MaxEvents
        /\ arrived' = [arrived EXCEPT ![s] = arrived[s] + 1]
        /\ queue' = [queue EXCEPT ![s] = Append(queue[s], arrived[s] + 1)]
    BY <2>1 DEF Arrive
  <2>3. arrived' \in [Arms -> 0..MaxEvents] /\ DOMAIN queue' = Arms
    BY <1>1, <2>2
  <2>4. \A r \in Arms :
          /\ r = s => /\ arrived'[r] = arrived[s] + 1
                      /\ queue'[r] = Append(queue[s], arrived[s] + 1)
          /\ r # s => arrived'[r] = arrived[r] /\ queue'[r] = queue[r]
    BY <1>1, <2>2
  <2> QED BY <1>1, <2>2, <2>3, <2>4, Zenon
<1>4. UNCHANGED <<arrived, queue>> \/ \E s \in Arms : Arrive(s)
  BY DEF Surroundings, Environment, Raise, ReleaseHang, Tick, Trigger
<1> QED BY <1>2, <1>3, <1>4

LEMMA PartsGrow ==
    ASSUME Inv, Surroundings, NEW r \in Arms
    PROVE  /\ Parted(queue[r], admitted[r], r) => Parted(queue[r], admitted[r], r)'
           /\ Trails(queue[r], r) => Trails(queue[r], r)'
<1>1. /\ UNCHANGED <<admitted, committed>>
      /\ \/ arrived'[r] = arrived[r] /\ queue'[r] = queue[r]
         \/ /\ arrived[r] < MaxEvents /\ arrived'[r] = arrived[r] + 1
            /\ queue'[r] = Append(queue[r], arrived[r] + 1)
  BY SurroundingsTell DEF cycleVars
<1>2. CASE arrived'[r] = arrived[r] /\ queue'[r] = queue[r]
  BY <1>1, <1>2 DEF Parted, Trails
<1>3. CASE /\ arrived[r] < MaxEvents /\ arrived'[r] = arrived[r] + 1
           /\ queue'[r] = Append(queue[r], arrived[r] + 1)
           /\ RunTo(queue[r], arrived[r])
  <2>1. arrived[r] \in Nat /\ MaxEvents \in Nat
    BY Known
  <2>2. /\ RunTo(queue'[r], arrived'[r])
        /\ Len(queue'[r]) = Len(queue[r]) + 1
    BY <1>3, <2>1, RunGrows
  <2>3. Len(queue[r]) \in Nat
    BY <1>3, LenProperties DEF RunTo
  <2>4. arrived'[r] - Len(queue'[r]) = arrived[r] - Len(queue[r])
    BY <1>3, <2>1, <2>2, <2>3
  <2> QED BY <1>1, <2>2, <2>4 DEF Parted, Trails
<1> QED BY <1>1, <1>2, <1>3 DEF Parted, Trails

LEMMA EmptyRun == \A n \in Nat : RunTo(<<>>, n)
BY EmptySeq DEF RunTo

\* With nothing admitted the two parts are one.
LEMMA PartsMeet ==
    ASSUME Inv, NEW q, NEW r \in Arms
    PROVE  Parted(q, <<>>, r) <=> RunTo(q, arrived[r]) /\ arrived[r] - Len(q) = committed[r]
<1>1. Len(<<>>) = 0 /\ committed[r] \in Nat /\ committed[r] + 0 = committed[r]
  BY Known
<1>2. RunTo(<<>>, committed[r])
  BY <1>1, EmptyRun
<1> QED BY <1>1, <1>2 DEF Parted

LEMMA InvHoldsFirst == Init => Inv
<1> SUFFICES ASSUME Init PROVE Inv
  OBVIOUS
<1>1. N \in Nat \ {0} /\ MaxEvents \in Nat
  BY SeamAssumption
<1>2. /\ pc = "idle" /\ request.cursor = 1 /\ arrived = [r \in Arms |-> 0]
      /\ queue = [r \in Arms |-> <<>>] /\ committed = [r \in Arms |-> 0]
      /\ admitted = [r \in Arms |-> <<>>] /\ whole = TRUE /\ outcome.kind = "none"
  BY DEF Init, SeamInit, NoEvents, NoOutcome
<1>3. request.cursor \in Arms
  BY <1>1, <1>2 DEF Arms
<1>4. Cursors
  BY <1>1, <1>2 DEF Cursors, Silent
<1>5. ASSUME NEW r \in Arms PROVE Trails(queue[r], r)
  <2>1. queue[r] = <<>> /\ arrived[r] = 0 /\ committed[r] = 0
    BY <1>2
  <2>2. RunTo(<<>>, 0) /\ Len(<<>>) = 0
    BY EmptyRun
  <2> QED BY <2>1, <2>2 DEF Trails
<1>6. Holdings
  BY <1>2, <1>5 DEF Holdings
<1> QED BY <1>3, <1>4, <1>6 DEF Inv

LEMMA CallerKeepsInv ==
    ASSUME Inv, StartCycle \/ StartUncited \/ Ack \/ Restart
    PROVE  Inv'
<1>1. CASE StartCycle
  <2>1. /\ pc = "idle" /\ pc' = "top" /\ whole /\ whole' = whole
        /\ queue' = [r \in Arms |-> After(queue[r], committed[r])]
        /\ outcome' = NoOutcome("none") /\ request' \in Requests
        /\ UNCHANGED <<arrived, admitted, committed>>
    BY <1>1 DEF StartCycle, observerVars
  <2>2. request'.cursor \in Arms
    BY <2>1 DEF Requests
  <2>3. Cursors'
    <3>1. outcome'.kind \in Silent
      BY <2>1 DEF NoOutcome, Silent
    <3> QED BY <2>1, <3>1 DEF Inv, Cursors
  <2>4. ASSUME NEW r \in Arms PROVE Parted(queue[r], admitted[r], r)'
    <3>1. Trails(queue[r], r) /\ admitted[r] = <<>>
      BY <2>1 DEF Inv, Holdings
    <3>2. /\ arrived[r] \in Nat /\ committed[r] \in Nat /\ committed[r] <= arrived[r]
          /\ arrived[r] <= MaxEvents /\ MaxEvents \in Nat
      BY Known
    <3>3. RunTo(queue'[r], arrived[r]) /\ Len(queue'[r]) = arrived[r] - committed[r]
      <4>1. queue'[r] = After(queue[r], committed[r])
        BY <2>1
      <4>2. RunTo(queue[r], arrived[r]) /\ arrived[r] - Len(queue[r]) <= committed[r]
        BY <3>1 DEF Trails
      <4> QED BY <3>2, <4>1, <4>2, AfterOfRun
    <3>4. Parted(queue'[r], <<>>, r)
      <4>1. arrived[r] - Len(queue'[r]) = committed[r]
        BY <3>2, <3>3
      <4> QED BY <3>3, <4>1, PartsMeet
    <3> QED BY <2>1, <3>1, <3>4 DEF Parted
  <2>5. Holdings'
    BY <2>1, <2>4 DEF Inv, Holdings
  <2> QED BY <2>2, <2>3, <2>5 DEF Inv
<1>2. CASE StartUncited
  <2>1. pc = "idle" /\ UNCHANGED <<seamVars, request>>
        /\ Conclude(NoOutcome("error"), visits, FALSE)
    BY <1>2 DEF StartUncited
  <2>2. /\ pc' = "idle" /\ outcome' = NoOutcome("error") /\ committed' = committed
        /\ whole' = (whole /\ ~FALSE) /\ \A r \in Arms : admitted'[r] = <<>>
    BY <2>1, ConcludeTells
  <2>3. UNCHANGED <<queue, arrived>>
    BY <2>1 DEF seamVars
  <2>4. Cursors'
    <3>1. outcome'.kind \in Silent
      BY <2>2 DEF NoOutcome, Silent
    <3> QED BY <2>2, <2>3, <3>1 DEF Inv, Cursors
  <2>5. Holdings'
    BY <2>1, <2>2, <2>3 DEF Inv, Holdings, Trails
  <2> QED BY <2>1, <2>4, <2>5 DEF Inv
<1>3. CASE Ack
  <2>1. /\ pc = "idle" /\ outcome.kind \notin Silent /\ committed' = outcome.retained
        /\ UNCHANGED <<arrived, queue, pc, request, admitted, outcome, whole>>
    BY <1>3 DEF Ack, seamVars, cycleVars
  <2>2. /\ committed' \in [Arms -> Nat]
        /\ \A r \in Arms : committed'[r] \in committed[r] .. arrived[r]
    BY <2>1 DEF Inv, Cursors
  <2>3. Cursors'
    <3>1. \A r \in Arms : arrived[r] \in Nat
      BY Known
    <3>2. \A r \in Arms : committed'[r] <= arrived[r] /\ committed'[r] \in committed'[r] .. arrived[r]
      BY <2>2, <3>1
    <3> QED BY <2>1, <2>2, <3>2 DEF Inv, Cursors
  <2>4. ASSUME NEW r \in Arms, Trails(queue[r], r) PROVE Trails(queue[r], r)'
    <3>1. /\ committed[r] \in Nat /\ arrived[r] \in Nat /\ committed'[r] \in Nat
          /\ committed[r] <= committed'[r]
      BY <2>2, Known
    <3>2. RunTo(queue[r], arrived[r]) /\ arrived[r] - Len(queue[r]) <= committed[r]
      BY <2>4 DEF Trails
    <3>3. Len(queue[r]) \in Nat
      BY <3>2, LenProperties DEF RunTo
    <3>4. arrived[r] - Len(queue[r]) <= committed'[r]
      BY <3>1, <3>2, <3>3
    <3> QED BY <2>1, <3>2, <3>4 DEF Trails
  <2>5. Holdings'
    BY <2>1, <2>4 DEF Inv, Holdings
  <2> QED BY <2>1, <2>3, <2>5 DEF Inv
<1>4. CASE Restart
  <2>1. /\ pc = "idle" /\ whole' = TRUE
        /\ queue' = [r \in Arms |-> [i \in 1 .. arrived[r] - committed[r] |-> committed[r] + i]]
        /\ UNCHANGED <<arrived, pc, request, admitted, outcome, committed>>
    BY <1>4 DEF Restart, observerVars, cycleVars
  <2>2. Cursors'
    BY <2>1 DEF Inv, Cursors
  <2>3. ASSUME NEW r \in Arms PROVE Trails(queue[r], r)'
    <3>1. /\ arrived[r] \in Nat /\ committed[r] \in Nat /\ committed[r] <= arrived[r]
          /\ arrived[r] <= MaxEvents /\ MaxEvents \in Nat
      BY Known
    <3>2. queue'[r] = Between(committed[r], arrived[r])
      BY <2>1 DEF Between
    <3>3. RunTo(queue'[r], arrived[r]) /\ Len(queue'[r]) = arrived[r] - committed[r]
      BY <3>1, <3>2, RunIsRead
    <3>4. arrived[r] - Len(queue'[r]) <= committed[r]
      BY <3>1, <3>3
    <3> QED BY <2>1, <3>3, <3>4 DEF Trails
  <2>4. Holdings'
    BY <2>1, <2>3 DEF Inv, Holdings
  <2> QED BY <2>1, <2>2, <2>4 DEF Inv
<1> QED BY <1>1, <1>2, <1>3, <1>4

LEMMA EndingKeepsInv ==
    ASSUME Inv, Breaks \/ Ending \/ Drops
    PROVE  Inv'
<1>1. CASE Breaks
  <2>1. PICK kind \in {"error", "abandoned"} : \E vis : Conclude(NoOutcome(kind), vis, TRUE)
    BY <1>1, Zenon DEF Breaks
  <2>2. /\ pc' = "idle" /\ outcome' = NoOutcome(kind) /\ committed' = committed
        /\ whole' = (whole /\ ~TRUE) /\ \A r \in Arms : admitted'[r] = <<>>
    BY <2>1, ConcludeTells
  <2>3. UNCHANGED <<request, arrived>> /\ DOMAIN queue' = Arms
    BY <1>1 DEF Breaks, observerVars, Inv, Holdings
  <2>4. outcome'.kind \in Silent
    BY <2>2 DEF NoOutcome, Silent
  <2>5. Cursors'
    BY <2>2, <2>3, <2>4 DEF Inv, Cursors
  <2>6. Holdings'
    BY <2>2, <2>3 DEF Holdings
  <2> QED BY <2>3, <2>5, <2>6 DEF Inv
<1>2. CASE Ending
  <2>1. PICK result, q, adm, vis : EndsWith(result, q, adm, vis)
    BY <1>2, Zenon DEF Ending
  <2>2. /\ pc # "idle" /\ Turn(q, adm, vis) /\ Conclude(result, vis, FALSE)
        /\ queue' = [r \in Arms |-> adm[r] \o q[r]] /\ UNCHANGED <<request, arrived>>
        /\ result = NoOutcome("error") \/ \E kind, binds : result = Report(kind, adm, binds, now)
    BY <2>1 DEF EndsWith, GivenBack, observerVars
  <2>3. /\ pc' = "idle" /\ outcome' = result /\ committed' = committed
        /\ whole' = (whole /\ ~FALSE) /\ \A r \in Arms : admitted'[r] = <<>>
    BY <2>2, ConcludeTells
  <2>4. \A r \in Arms : Parted(q[r], adm[r], r)
    BY <2>2, TurnParted
  <2>5. Cursors'
    <3>1. ASSUME result.kind \notin Silent
          PROVE  /\ result.retained \in [Arms -> Nat]
                 /\ \A r \in Arms : result.retained[r] \in committed[r] .. arrived[r]
      <4>1. result # NoOutcome("error")
        BY <3>1 DEF NoOutcome, Silent
      <4> QED BY <2>2, <2>4, <3>1, <4>1, ReportRetains
    <3> QED BY <2>2, <2>3, <3>1 DEF Inv, Cursors
  <2>6. ASSUME NEW r \in Arms PROVE Trails(queue[r], r)'
    <3>1. RunTo(adm[r] \o q[r], arrived[r]) /\ arrived[r] - Len(adm[r] \o q[r]) <= committed[r]
      BY <2>4, PartsJoin
    <3>2. queue'[r] = adm[r] \o q[r]
      BY <2>2
    <3> QED BY <2>2, <2>3, <3>1, <3>2 DEF Trails
  <2>7. Holdings'
    BY <2>2, <2>3, <2>6 DEF Inv, Holdings
  <2> QED BY <2>2, <2>5, <2>7 DEF Inv
<1>3. CASE Drops
  <2>1. /\ pc # "idle" /\ admitted = NoEvents /\ Conclude(NoOutcome("abandoned"), visits, FALSE)
        /\ UNCHANGED <<request, arrived, queue>>
    BY <1>3 DEF Drops, seamVars
  <2>2. /\ pc' = "idle" /\ outcome' = NoOutcome("abandoned") /\ committed' = committed
        /\ whole' = (whole /\ ~FALSE) /\ \A r \in Arms : admitted'[r] = <<>>
    BY <2>1, ConcludeTells
  <2>3. outcome'.kind \in Silent
    BY <2>2 DEF NoOutcome, Silent
  <2>4. Cursors'
    BY <2>1, <2>2, <2>3 DEF Inv, Cursors
  <2>5. ASSUME NEW r \in Arms PROVE Trails(queue[r], r)'
    <3>1. admitted[r] = <<>>
      BY <2>1 DEF NoEvents
    <3>2. RunTo(queue[r], arrived[r]) /\ arrived[r] - Len(queue[r]) = committed[r]
      BY <2>1, <3>1, KnownParts, PartsMeet
    <3>3. arrived[r] - Len(queue[r]) <= committed[r]
      BY <3>2, Known
    <3> QED BY <2>1, <2>2, <3>2, <3>3 DEF Trails
  <2>6. Holdings'
    BY <2>1, <2>2, <2>5 DEF Inv, Holdings
  <2> QED BY <2>1, <2>4, <2>6 DEF Inv
<1> QED BY <1>1, <1>2, <1>3

\* The inductive step.
LEMMA InvStep == Inv /\ [Next]_vars => Inv'
<1> SUFFICES ASSUME Inv, [Next]_vars PROVE Inv'
  OBVIOUS
<1>1. CASE UNCHANGED vars \/ Moves
  <2>1. /\ UNCHANGED <<arrived, queue, admitted, committed, outcome, whole, request>>
        /\ pc' = "idle" <=> pc = "idle"
    BY <1>1 DEF vars, Moves, seamVars, cycleVars, callerVars
  <2> QED BY <2>1 DEF Inv, Cursors, Holdings, Parted, Trails
<1>2. CASE Surroundings
  <2>1. /\ UNCHANGED <<admitted, committed, outcome, whole, request, pc>>
        /\ arrived' \in [Arms -> 0..MaxEvents] /\ DOMAIN queue' = Arms
    BY <1>2, SurroundingsTell DEF cycleVars
  <2>2. \A r \in Arms : arrived[r] <= arrived'[r] /\ arrived'[r] \in Nat
    <3> SUFFICES ASSUME NEW r \in Arms PROVE arrived[r] <= arrived'[r] /\ arrived'[r] \in Nat
      OBVIOUS
    <3>1. arrived'[r] = arrived[r] \/ arrived'[r] = arrived[r] + 1
      BY <1>2, SurroundingsTell
    <3> QED BY <3>1, Known
  <2>3. Cursors'
    <3>1. ASSUME NEW r \in Arms PROVE committed'[r] <= arrived'[r]
      <4>1. committed'[r] = committed[r] /\ arrived[r] <= arrived'[r] /\ arrived'[r] \in Nat
        BY <2>1, <2>2
      <4> QED BY <4>1, Known
    <3>2. ASSUME outcome.kind \notin Silent, NEW r \in Arms
          PROVE  outcome.retained[r] \in committed[r] .. arrived'[r]
      <4>1. /\ outcome.retained[r] \in committed[r] .. arrived[r]
            /\ arrived[r] <= arrived'[r] /\ arrived'[r] \in Nat
        BY <2>2, <3>2 DEF Inv, Cursors
      <4> QED BY <4>1, Known
    <3> QED BY <2>1, <3>1, <3>2 DEF Inv, Cursors
  <2>4. Holdings'
    BY <1>2, <2>1, PartsGrow DEF Inv, Holdings
  <2> QED BY <2>1, <2>3, <2>4 DEF Inv
<1>3. CASE StartCycle \/ StartUncited \/ Ack \/ Restart
  BY <1>3, CallerKeepsInv
<1>4. CASE Breaks \/ Ending \/ Drops
  BY <1>4, EndingKeepsInv
<1>5. CASE \E ans : Rounds(ans)
  <2>1. PICK ans : Rounds(ans)
    BY <1>5, Zenon
  <2>2. /\ pc # "idle" /\ pc' = "top" /\ admitted' = Admitted(ans) /\ queue' = QueueAfter(ans)
        /\ UNCHANGED <<arrived, committed, outcome, whole, request>>
    BY <2>1 DEF Rounds, observerVars, callerVars
  <2>3. Cursors'
    BY <2>2 DEF Inv, Cursors
  <2>4. ASSUME NEW r \in Arms PROVE Parted(queue[r], admitted[r], r)'
    <3>1. Parted(queue'[r], admitted'[r], r)
      BY <2>2, TakeParted
    <3> QED BY <2>2, <3>1 DEF Parted
  <2>5. DOMAIN queue' = Arms
    BY <2>2 DEF QueueAfter
  <2>6. Holdings'
    BY <2>2, <2>4, <2>5 DEF Inv, Holdings
  <2> QED BY <2>2, <2>3, <2>6 DEF Inv
<1> QED BY <1>1, <1>2, <1>3, <1>4, <1>5, Shapes, Zenon

THEOREM Invariance == Spec => []Inv
BY InvHoldsFirst, InvStep, PTL DEF Spec

LEMMA InvSaysNothingIsLost == Inv => NothingUncommittedIsLost
<1> SUFFICES ASSUME Inv, whole, NEW r \in Arms
             PROVE  After(admitted[r] \o queue[r], committed[r]) = Between(committed[r], arrived[r])
  BY DEF NothingUncommittedIsLost, Between
<1>1. /\ arrived[r] \in Nat /\ committed[r] \in Nat /\ committed[r] <= arrived[r]
      /\ arrived[r] <= MaxEvents /\ MaxEvents \in Nat
  BY Known
<1> DEFINE s == admitted[r] \o queue[r]
<1>2. RunTo(s, arrived[r]) /\ arrived[r] - Len(s) <= committed[r]
  <2>1. CASE pc # "idle"
    BY <2>1, KnownParts, PartsJoin
  <2>2. CASE pc = "idle"
    <3>1. admitted[r] = <<>> /\ Trails(queue[r], r)
      BY <2>2 DEF Inv, Holdings
    <3>2. queue[r] \in Seq(Event)
      BY <3>1 DEF Trails, RunTo
    <3>3. s = queue[r]
      BY <3>1, <3>2, ConcatEmptySeq
    <3> QED BY <3>1, <3>3 DEF Trails
  <2> QED BY <2>1, <2>2
<1> HIDE DEF s
<1> DEFINE t == After(s, committed[r])
<1>3. RunTo(t, arrived[r]) /\ Len(t) = arrived[r] - committed[r]
  BY <1>1, <1>2, AfterOfRun
<1> HIDE DEF t
<1>4. t = Between(arrived[r] - Len(t), arrived[r])
  BY <1>1, <1>3, RunIsBetween
<1>5. arrived[r] - Len(t) = committed[r]
  BY <1>1, <1>3
<1> QED BY <1>4, <1>5, Zenon DEF s, t

\* However cycles take events and give them back, and whatever the caller does
\* between them, no event past a committed cursor is lost, doubled or moved
\* (restore_admitted, record_ready, poll_cycle_ack).
THEOREM NothingIsLost == Spec => []NothingUncommittedIsLost
BY Invariance, InvSaysNothingIsLost, PTL
-----------------------------------------------------------------------------
(* The bounds of a cycle. *)

LEMMA NothingIsBounded ==
    ASSUME NEW adm, \A r \in Arms : adm[r] = <<>>
    PROVE  Bounded(adm)
<1> DEFINE f == [r \in Arms |-> Len(adm[r])]
<1>1. N \in Nat /\ MaxTake \in Nat /\ MaxTakeOf \in [Arms -> Nat]
  BY SeamAssumption, PollCycleAssumption
<1>2. \A r \in Arms : Len(adm[r]) = 0
  OBVIOUS
<1>3. \A i \in 1..N : f[i] = 0
  BY <1>2 DEF Arms
<1> HIDE DEF f
<1>4. Total(f, N) = 0
  BY <1>1, <1>3, TotalOfNothing
<1> QED BY <1>1, <1>2, <1>4 DEF Bounded, f

\* What a turn takes is within what the cycle may still take.
LEMMA TakesWithin ==
    ASSUME Inv, Budget, pc # "idle", NEW ans
    PROVE  /\ Bounded(Admitted(ans))
           /\ \A r \in Arms : Recorded(ans)[r] = "none" => Admitted(ans)[r] = <<>>
<1>1. /\ N \in Nat \ {0} /\ request.cursor \in Arms /\ MaxTake \in Nat /\ MaxTakeOf \in [Arms -> Nat]
      /\ \A r \in Arms : Len(queue[r]) \in Nat
      /\ \A r \in Arms : Len(admitted[r]) \in Nat
  BY Known, KnownParts, PollCycleAssumption
<1>2. Total([r \in Arms |-> Len(Admitted(ans)[r])], N) <= MaxTake
  <2>1. SpentAfter(ans)[N] = Total(Gained(ans, N), N) /\ N \in 0..N
    BY <1>1, SpentAfterIsTotal
  <2>2. Spent <= MaxTake
    BY DEF Budget, Bounded, Spent
  <2>3. SpentAfter(ans)[N] <= MaxTake
    BY <1>1, <2>1, <2>2, SpentAfterIsNatural
  <2>4. ASSUME NEW r \in Arms
        PROVE  Len(Admitted(ans)[r]) = Len(admitted[r]) + IF Place(r) <= N THEN Taken(ans, r) ELSE 0
    <3>1. Place(r) <= N
      BY <1>1, PlaceIs
    <3> QED BY <3>1, TakeParted
  <2>5. [r \in Arms |-> Len(Admitted(ans)[r])] = Gained(ans, N)
    BY <2>4 DEF Gained
  <2> QED BY <2>1, <2>3, <2>5, Zenon
<1>3. ASSUME NEW r \in Arms, Taken(ans, r) = 0
      PROVE  Admitted(ans)[r] = admitted[r]
  <2> DEFINE none == SubSeq(queue[r], 1, 0)
  <2>1. none = <<>>
    BY KnownParts, SubSeqEmpty
  <2>2. Admitted(ans)[r] = admitted[r] \o none
    BY <1>3, TakeParted, Zenon
  <2> HIDE DEF none
  <2>3. admitted[r] \o <<>> = admitted[r]
    BY KnownParts, ConcatEmptySeq
  <2> QED BY <2>1, <2>2, <2>3, Zenon
<1>4. ASSUME NEW r \in Arms, Taken(ans, r) # 0
      PROVE  /\ visits[r] = "none" /\ ans[r] = "event"
             /\ Admitted(ans)[r] = SubSeq(queue[r], 1, Taken(ans, r))
             /\ Affords(r, SpentBefore(ans, r), Taken(ans, r))
  <2>1. Fresh(ans, r) /\ Affords(r, SpentBefore(ans, r), Taken(ans, r))
    BY <1>1, <1>4, TakenTells
  <2>2. admitted[r] = <<>>
    BY <2>1 DEF Budget, Fresh
  <2> DEFINE a == SubSeq(queue[r], 1, Taken(ans, r))
  <2>3. a \in Seq(Event)
    <3> DEFINE k == Taken(ans, r)
    <3>1. k \in 0..Len(queue[r]) /\ queue[r] \in Seq(Event) /\ Len(queue[r]) \in Nat
      BY TakeParted, KnownParts
    <3>2. RunTo(queue[r], arrived[r]) /\ arrived[r] \in Nat
      BY Known, KnownParts DEF Parted
    <3> HIDE DEF k
    <3> QED BY <3>1, <3>2, RunSplits DEF RunTo, k
  <2>4. Admitted(ans)[r] = <<>> \o a
    BY <2>2, TakeParted, Zenon
  <2> HIDE DEF a
  <2>5. Admitted(ans)[r] = a
    BY <2>3, <2>4, ConcatEmptySeq
  <2> QED BY <2>1, <2>5 DEF Fresh, a
<1>5. ASSUME NEW r \in Arms
      PROVE  /\ Len(Admitted(ans)[r]) <= MaxTakeOf[r]
             /\ \A i \in 1..Len(Admitted(ans)[r]) : Admitted(ans)[r][i] \notin Oversized[r]
  <2>1. CASE Taken(ans, r) = 0
    BY <1>3, <2>1 DEF Budget, Bounded
  <2>2. CASE Taken(ans, r) # 0
    <3> DEFINE k == Taken(ans, r)
               s == queue[r]
               a == SubSeq(s, 1, k)
    <3>1. k \in 0..Len(s) /\ Len(s) \in Nat /\ s \in Seq(Event)
      BY TakeParted, KnownParts
    <3>2. Admitted(ans)[r] = a /\ k <= MaxTakeOf[r] /\ \A i \in 1..k : s[i] \notin Oversized[r]
      BY <1>4, <2>2 DEF Affords
    <3> HIDE DEF k, s
    <3>3. Len(a) = k /\ \A i \in 1..k : a[i] = s[i]
      <4>1. k \in Nat /\ \A i \in 1..k : s[i] \in Event
        BY <3>1, ElementOfSeq
      <4> QED BY <4>1, SubSeqProperties
    <3> QED BY <3>2, <3>3, Zenon
  <2> QED BY <2>1, <2>2
<1>6. ASSUME NEW r \in Arms, Recorded(ans)[r] = "none" PROVE Admitted(ans)[r] = <<>>
  <2>1. VisitOf(ans, r) = "none"
    BY <1>6 DEF Recorded
  <2>2. visits[r] = "none" /\ ans[r] # "event"
    BY <2>1 DEF VisitOf
  <2>3. Taken(ans, r) = 0
    BY <1>4, <2>2
  <2> QED BY <1>3, <2>2, <2>3 DEF Budget
<1> QED BY <1>2, <1>5, <1>6 DEF Bounded

LEMMA TurnWithin ==
    ASSUME Inv, Budget, pc # "idle", NEW q, NEW adm, NEW vis, Turn(q, adm, vis)
    PROVE  Bounded(adm)
<1>1. CASE adm = admitted
  BY <1>1 DEF Budget
<1>2. CASE \E ans : adm = Admitted(ans)
  BY <1>2, TakesWithin
<1> QED BY <1>1, <1>2, Zenon DEF Turn

LEMMA OutcomesOf ==
    ASSUME NEW result
    PROVE  /\ \A kind : result = NoOutcome(kind) => Bounded(result.events)
           /\ \A kind, adm, binds : result = Report(kind, adm, binds, now) /\ Bounded(adm)
                                      => Bounded(result.events)
<1>1. Bounded(NoEvents)
  <2>1. \A r \in Arms : NoEvents[r] = <<>>
    BY DEF NoEvents
  <2> HIDE DEF NoEvents
  <2> QED BY <2>1, NothingIsBounded
<1>2. ASSUME NEW kind, result = NoOutcome(kind) PROVE Bounded(result.events)
  <2>1. result.events = NoEvents
    BY <1>2 DEF NoOutcome
  <2> QED BY <1>1, <2>1, Zenon
<1>3. ASSUME NEW kind, NEW adm, NEW binds, result = Report(kind, adm, binds, now), Bounded(adm)
      PROVE  Bounded(result.events)
  <2>1. \/ result = NoOutcome("error")
        \/ result.events = IF Posture(kind, now) \in Delivers THEN adm ELSE NoEvents
    BY <1>3 DEF Report
  <2>2. result = NoOutcome("error") \/ result.events = adm \/ result.events = NoEvents
    BY <2>1
  <2> QED BY <1>1, <1>2, <1>3, <2>2, Zenon
<1> QED BY <1>2, <1>3, Zenon

LEMMA WithinBoundsIs == WithinBounds <=> Bounded(outcome.events)
BY DEF WithinBounds, Bounded

LEMMA BudgetHoldsFirst == Init => Budget
<1> SUFFICES ASSUME Init PROVE Budget
  OBVIOUS
<1>1. \A r \in Arms : admitted[r] = <<>>
  BY DEF Init, NoEvents
<1>2. \E kind : outcome = NoOutcome(kind)
  BY DEF Init
<1> QED BY <1>1, <1>2, NothingIsBounded, OutcomesOf, WithinBoundsIs, Zenon DEF Budget

\* A step that ends a cycle, or refuses to start one, leaves nothing admitted.
LEMMA ConcludeIsWithin ==
    ASSUME NEW result, NEW vis, NEW lost, Conclude(result, vis, lost), Bounded(result.events)
    PROVE  Budget'
<1>1. outcome' = result /\ \A r \in Arms : admitted'[r] = <<>>
  BY ConcludeTells
<1>2. Bounded(admitted')
  BY <1>1, NothingIsBounded
<1>3. Bounded(outcome'.events)
  BY <1>1
<1>4. WithinBounds'
  BY <1>3 DEF WithinBounds, Bounded
<1>5. Bounded(admitted)'
  BY <1>2 DEF Bounded
<1> QED BY <1>1, <1>4, <1>5 DEF Budget

LEMMA BudgetStep == Inv /\ Budget /\ [Next]_vars => Budget'
<1> SUFFICES ASSUME Inv, Budget, [Next]_vars PROVE Budget'
  OBVIOUS
<1>1. CASE UNCHANGED vars \/ Moves \/ Surroundings \/ Ack \/ Restart
  <2>1. UNCHANGED <<admitted, visits, outcome>>
    BY <1>1 DEF vars, Moves, Surroundings, Ack, Restart, cycleVars
  <2> QED BY <2>1 DEF Budget, Bounded, WithinBounds
<1>2. CASE StartCycle
  <2>1. pc = "idle" /\ admitted' = admitted /\ outcome' = NoOutcome("none")
    BY <1>2 DEF StartCycle
  <2>2. \A r \in Arms : admitted'[r] = <<>>
    BY <2>1 DEF Inv, Holdings
  <2>3. Bounded(outcome'.events) /\ Bounded(admitted')
    BY <2>1, <2>2, OutcomesOf, NothingIsBounded
  <2>4. WithinBounds' /\ Bounded(admitted)'
    BY <2>3 DEF WithinBounds, Bounded
  <2> QED BY <2>2, <2>4 DEF Budget
<1>3. CASE StartUncited \/ Breaks \/ Drops
  <2>1. PICK kind, vis, lost : Conclude(NoOutcome(kind), vis, lost)
    BY <1>3, Zenon DEF StartUncited, Breaks, Drops
  <2>2. Bounded(NoOutcome(kind).events)
    BY OutcomesOf
  <2> QED BY <2>1, <2>2, ConcludeIsWithin, Zenon
<1>4. CASE Ending
  <2>1. PICK result, q, adm, vis : EndsWith(result, q, adm, vis)
    BY <1>4, Zenon DEF Ending
  <2>2. /\ pc # "idle" /\ Turn(q, adm, vis) /\ Conclude(result, vis, FALSE)
        /\ result = NoOutcome("error") \/ \E kind, binds : result = Report(kind, adm, binds, now)
    BY <2>1, Zenon DEF EndsWith
  <2>3. Bounded(adm)
    BY <2>2, TurnWithin
  <2>4. Bounded(result.events)
    BY <2>2, <2>3, OutcomesOf, Zenon
  <2> QED BY <2>2, <2>4, ConcludeIsWithin, Zenon
<1>5. CASE \E ans : Rounds(ans)
  <2>1. PICK ans : Rounds(ans)
    BY <1>5, Zenon
  <2>2. /\ pc # "idle" /\ admitted' = Admitted(ans) /\ visits' = Recorded(ans)
        /\ outcome' = outcome
    BY <2>1 DEF Rounds
  <2>3. /\ Bounded(admitted')
        /\ \A r \in Arms : visits'[r] = "none" => admitted'[r] = <<>>
    BY <2>2, TakesWithin
  <2>4. WithinBounds' /\ Bounded(admitted)'
    BY <2>2, <2>3 DEF Budget, WithinBounds, Bounded
  <2> QED BY <2>3, <2>4 DEF Budget
<1> QED BY <1>1, <1>2, <1>3, <1>4, <1>5, Shapes, Zenon

\* The bounds of a cycle hold over all its rounds and for what it hands over
\* (try_take, drain_ready): never more events, from all arms or from one, and
\* none too big.
THEOREM BoundsHold == Spec => []WithinBounds
<1>1. Budget => WithinBounds
  BY DEF Budget
<1> QED BY <1>1, Invariance, BudgetHoldsFirst, BudgetStep, PTL DEF Spec
-----------------------------------------------------------------------------
(* Rotation. *)

\* Place(r) after a step, where the cycle starts from the arm the request of
\* that state names.
LEMMA PlaceAfter ==
    ASSUME request'.cursor \in Arms, NEW r \in Arms
    PROVE  Place(r)' = Ahead(request'.cursor, r) /\ Place(r)' \in 1..N
<1> DEFINE c == request'.cursor
           p == Ahead(c, r)
           At(i) == ((c + i - 2) % N) + 1
<1>1. N \in Nat \ {0} /\ c \in 1..N /\ r \in 1..N
  BY SeamAssumption DEF Arms
<1>2. p \in 1..N
  BY <1>1 DEF Ahead
<1>3. ASSUME NEW i \in 1..N PROVE At(i) = r <=> i = p
  <2> DEFINE a == c + i - 2
  <2>1. a \in Nat /\ a < N + N
    BY <1>1
  <2>2. At(i) = (a % N) + 1
    OBVIOUS
  <2> HIDE DEF a, At, c
  <2>3. a % N = IF a < N THEN a ELSE a - N
    BY <1>1, <2>1
  <2>4. a = c + i - 2
    BY DEF a
  <2> QED BY <1>1, <2>2, <2>3, <2>4 DEF Ahead
<1>4. Place(r)' = CHOOSE i \in 1..N : At(i) = r
  BY DEF Place, Order
<1> HIDE DEF p, c, At
<1>5. Place(r)' = p
  BY <1>2, <1>3, <1>4
<1> QED BY <1>2, <1>5 DEF p, c

\* When the first binds complete, an arm with an event to take is visited; and
\* the first arm of the order is not deferred.
LEMMA FirstServed ==
    ASSUME Inv, pc # "idle", Untouched, NEW r \in Arms, Takeable(r), signal[r] \notin AllSignals
    PROVE  Served(Recorded(ReadyAnswers(bound \cup Binding)), r)
<1> DEFINE ans == ReadyAnswers(bound \cup Binding)
<1>1. r \in Binding
  BY DEF Binding, Untouched, Takeable
<1>2. ans[r] = "event"
  BY <1>1 DEF ReadyAnswers, ReadyAnswer, Due, Takeable
<1>3. Fresh(ans, r) /\ visits[r] = "none"
  BY <1>2 DEF Fresh, Untouched
<1> HIDE DEF ans
<1>4. Recorded(ans)[r] \in {"deferred", "saturated", "events"}
  BY <1>2, <1>3 DEF Recorded, VisitOf
<1>5. ASSUME Place(r) = 1 PROVE Taken(ans, r) # 0
  <2>1. Spent = 0
    <3> DEFINE f == [s \in Arms |-> Len(admitted[s])]
    <3>1. N \in Nat /\ \A i \in 1..N : f[i] = 0
      BY Known DEF Untouched, Arms
    <3> HIDE DEF f
    <3>2. Total(f, N) = 0
      BY <3>1, TotalOfNothing
    <3> QED BY <3>2 DEF Spent, f
  <2>2. SpentBefore(ans, r) = 0
    <3>1. Place(r) - 1 = 0
      BY <1>5
    <3>2. SpentAfter(ans)[0] = 0
      BY <2>1, SpentAfterSteps
    <3> QED BY <3>1, <3>2 DEF SpentBefore
  <2>3. Affords(r, 0, 1)
    BY PollCycleAssumption DEF Affords, Takeable
  <2>4. \A j \in Taken(ans, r) + 1 .. Len(queue[r]) : ~Affords(r, 0, j)
    <3>1. \A s \in Arms : Len(queue[s]) \in Nat /\ Len(admitted[s]) \in Nat
      BY KnownParts
    <3>2. Fresh(ans, r) => \A j \in Taken(ans, r) + 1 .. Len(queue[r]) :
                              ~Affords(r, SpentBefore(ans, r), j)
      BY <3>1, Known, TakenTells
    <3> QED BY <1>3, <2>2, <3>2, Zenon
  <2>5. Len(queue[r]) \in Nat /\ Len(queue[r]) # 0
    BY KnownParts, EmptySeq DEF Takeable
  <2> QED BY <2>3, <2>4, <2>5
<1>6. Place(r) = 1 => Recorded(ans)[r] # "deferred"
  BY <1>2, <1>3, <1>5 DEF Recorded, VisitOf
<1> QED BY <1>4, <1>6 DEF Served, ans

\* A visit is recorded once.
LEMMA VisitStays ==
    ASSUME NEW ans, NEW r \in Arms, Served(visits, r)
    PROVE  Served(Recorded(ans), r) /\ Recorded(ans)[r] = visits[r]
BY DEF Served, Recorded, VisitOf

LEMMA RoundServes ==
    ASSUME Inv, pc # "idle", NEW ans, Asks(ans), NEW r \in Arms, signal[r] \notin AllSignals,
           (Untouched /\ Takeable(r)) \/ Served(visits, r)
    PROVE  Served(Recorded(ans), r)
<1>1. CASE Served(visits, r)
  BY <1>1, VisitStays
<1>2. CASE Untouched /\ Takeable(r)
  <2>1. ans = ReadyAnswers(bound \cup Binding)
    BY <1>2 DEF Asks, Untouched
  <2> QED BY <1>2, <2>1, FirstServed
<1> QED BY <1>1, <1>2

\* Nor does the end of a cycle defer the first arm.
LEMMA TurnServes ==
    ASSUME Inv, Budget, pc # "idle", NEW q, NEW adm, NEW vis, Turn(q, adm, vis),
           NEW r \in Arms, signal[r] \notin AllSignals,
           (Untouched /\ Takeable(r)) \/ Served(visits, r), Place(r) = 1
    PROVE  vis[r] # "deferred"
<1>1. CASE q = queue /\ adm = admitted /\ vis \in {visits, FilledVisits(visits, admitted)}
  <2>1. CASE Served(visits, r)
    BY <1>1, <2>1 DEF Served, FilledVisits
  <2>2. CASE Untouched
    BY <1>1, <2>2 DEF Untouched, FilledVisits
  <2> QED BY <2>1, <2>2
<1>2. CASE \E ans : Asks(ans) /\ vis = Recorded(ans)
  BY <1>2, RoundServes DEF Served
<1>3. CASE \E ans : /\ ans = ReadyAnswers(Pending) /\ adm = Admitted(ans)
                    /\ vis \in {Recorded(ans), FilledVisits(Recorded(ans), adm)}
  <2> DEFINE ans == ReadyAnswers(Pending)
  <2>1. adm = Admitted(ans) /\ vis \in {Recorded(ans), FilledVisits(Recorded(ans), adm)}
    BY <1>3
  <2>2. CASE Served(visits, r)
    <3> HIDE DEF ans
    <3>1. Recorded(ans)[r] = visits[r]
      BY <2>2, VisitStays
    <3> QED BY <2>1, <2>2, <3>1 DEF Served, FilledVisits
  <2>3. CASE Untouched
    <3>1. \A s \in Arms : ans[s] = "none"
      BY <2>3 DEF ReadyAnswers, Pending, Untouched
    <3> HIDE DEF ans
    <3>2. \A s \in Arms : Recorded(ans)[s] = "none"
      BY <2>3, <3>1 DEF Recorded, VisitOf, Untouched
    <3>3. \A s \in Arms : adm[s] = <<>>
      BY <2>1, <3>2, TakesWithin
    <3>4. vis[r] \in {"none", "idle"}
      BY <2>1, <3>2, <3>3 DEF FilledVisits
    <3> QED BY <3>4
  <2> QED BY <2>2, <2>3
<1> QED BY <1>1, <1>2, <1>3, Zenon DEF Turn

\* What there was to take of an arm is still there after something arrives.
LEMMA TakeableStays ==
    ASSUME Inv, pc # "idle", Surroundings, NEW r \in Arms, Takeable(r)
    PROVE  Takeable(r)'
<1>1. bindable \subseteq bindable'
  BY DEF Surroundings, Environment, Arrive, Raise, ReleaseHang, Tick, Trigger
<1>2. CASE queue'[r] = queue[r]
  BY <1>1, <1>2 DEF Takeable
<1>3. CASE queue'[r] = Append(queue[r], arrived[r] + 1) /\ arrived[r] < MaxEvents
  <2>1. queue[r] \in Seq(Event) /\ Len(queue[r]) \in Nat /\ queue[r] # <<>>
    BY KnownParts DEF Takeable
  <2>2. arrived[r] + 1 \in Event
    BY <1>3, Known DEF Event
  <2>3. Len(queue'[r]) = Len(queue[r]) + 1 /\ \A i \in 1..Len(queue[r]) : queue'[r][i] = queue[r][i]
    BY <1>3, <2>1, <2>2, AppendProperties
  <2>4. Len(queue[r]) # 0
    BY <2>1, EmptySeq
  <2>5. 1 \in 1..Len(queue[r]) /\ Len(queue'[r]) # 0
    BY <2>1, <2>3, <2>4
  <2>6. queue'[r] # <<>> /\ queue'[r][1] = queue[r][1]
    BY <2>3, <2>5
  <2> QED BY <1>1, <2>6 DEF Takeable
<1> QED BY <1>2, <1>3, SurroundingsTell

LEMMA RotationHoldsFirst == Init => Rotation
<1> SUFFICES ASSUME Init PROVE Rotation
  OBVIOUS
<1>1. N \in Nat \ {0} /\ pc = "idle" /\ passed = [r \in Arms |-> 0]
      /\ request.cursor = 1 /\ outcome.kind = "none"
  BY SeamAssumption DEF Init, NoOutcome
<1>2. \A r \in Arms : 0 <= N - Ahead(CursorOfNext, r)
  BY <1>1 DEF CursorOfNext, Silent, Ahead, Arms
<1> QED BY <1>1, <1>2 DEF Rotation

\* A silent end leaves the order as it was, and nobody passed over.
LEMMA SilentEnd ==
    ASSUME Inv, NEW result, NEW vis, NEW lost, Conclude(result, vis, lost),
           result.kind \in Silent, request' = request
    PROVE  Rotation'
<1>1. /\ pc' = "idle" /\ outcome' = result
      /\ passed' = [r \in Arms |->
           IF result.kind \in Silent \cup Final \/ r \notin due \/ vis[r] # "deferred"
           THEN 0 ELSE passed[r] + 1]
  BY ConcludeTells
<1>2. passed' = [r \in Arms |-> 0]
  BY <1>1
<1>3. CursorOfNext' = request.cursor
  BY <1>1 DEF CursorOfNext
<1>4. \A r \in Arms : 0 <= N - Ahead(request.cursor, r)
  BY Known DEF Ahead, Arms
<1> QED BY <1>1, <1>2, <1>3, <1>4 DEF Rotation, Ahead

LEMMA EndingRotates ==
    ASSUME Inv, Budget, Rotation, Ending
    PROVE  Rotation'
<1>1. PICK result, q, adm, vis : EndsWith(result, q, adm, vis)
  BY Zenon DEF Ending
<1>2. pc # "idle" /\ Turn(q, adm, vis) /\ Conclude(result, vis, FALSE) /\ request' = request
  BY <1>1, Zenon DEF EndsWith
<1>3. CASE result.kind \in Silent
  BY <1>2, <1>3, SilentEnd
<1>4. CASE result.kind \notin Silent
  <2>1. /\ pc' = "idle" /\ outcome' = result
        /\ passed' = [r \in Arms |->
             IF result.kind \in Silent \cup Final \/ r \notin due \/ vis[r] # "deferred"
             THEN 0 ELSE passed[r] + 1]
    BY <1>2, ConcludeTells
  <2>2. CursorOfNext' = NextCursor
    BY <1>2, <1>4, <2>1 DEF CursorOfNext, NextCursor
  <2>3. N \in Nat \ {0} /\ request.cursor \in Arms /\ passed \in [Arms -> Nat]
    BY Known DEF Rotation
  <2>4. ASSUME NEW r \in Arms
        PROVE  passed'[r] \in Nat /\ passed'[r] <= N - Ahead(NextCursor, r)
    <3>1. Ahead(NextCursor, r) \in 1..N /\ (Place(r) # 1 => Ahead(NextCursor, r) = Place(r) - 1)
      BY <2>3, NextOrder
    <3>2. passed[r] \in Nat /\ passed[r] <= N - Place(r) /\ Place(r) \in 1..N
      BY <1>2, <2>3, PlaceIs DEF Rotation
    <3>3. CASE passed'[r] = 0
      BY <2>3, <3>1, <3>3
    <3>4. CASE r \in due /\ vis[r] = "deferred" /\ passed'[r] = passed[r] + 1
      <4>1. signal[r] \notin AllSignals /\ ((Untouched /\ Takeable(r)) \/ Served(visits, r))
        BY <1>2, <3>4 DEF Rotation
      <4>2. Place(r) # 1
        BY <1>2, <3>4, <4>1, TurnServes, Zenon
      <4> QED BY <2>3, <3>1, <3>2, <3>4, <4>2
    <3> QED BY <2>1, <3>3, <3>4
  <2>5. passed' \in [Arms -> Nat]
    BY <2>1, <2>4
  <2> QED BY <2>1, <2>2, <2>4, <2>5 DEF Rotation, Ahead
<1> QED BY <1>3, <1>4

LEMMA StartRotates ==
    ASSUME Inv, Rotation, StartCycle
    PROVE  Rotation'
<1>1. /\ pc = "idle" /\ pc' = "top" /\ bound' = {} /\ visits' = NoVisits
      /\ queue' = [r \in Arms |-> After(queue[r], committed[r])]
      /\ due' = {r \in Arms : Takes(r)}
      /\ UNCHANGED <<signal, bindable, admitted, passed>>
  BY DEF StartCycle, observerVars
<1>2. request' \in Requests /\ request'.cursor = CursorOfNext
  BY DEF StartCycle, CursorOfNext
<1>3. request'.cursor \in Arms
  BY <1>2 DEF Requests
<1>4. \A r \in Arms : passed'[r] <= N - Place(r)'
  <2> SUFFICES ASSUME NEW r \in Arms PROVE passed[r] <= N - Place(r)'
    BY <1>1
  <2>1. Place(r)' = Ahead(CursorOfNext, r)
    BY <1>2, <1>3, PlaceAfter
  <2> QED BY <1>1, <2>1 DEF Rotation
<1>5. Untouched'
  <2>1. \A r \in Arms : admitted[r] = <<>>
    BY <1>1 DEF Inv, Holdings
  <2> QED BY <1>1, <2>1 DEF Untouched, NoVisits
<1>6. ASSUME NEW r \in due' PROVE r \in Arms /\ signal'[r] \notin AllSignals /\ Takeable(r)'
  <2>1. r \in Arms /\ Takes(r)
    BY <1>1
  <2>2. queue'[r] = After(queue[r], committed[r])
    BY <1>1, <2>1
  <2>3. /\ queue'[r] # <<>> /\ Head(queue'[r]) \notin Oversized[r]
        /\ MaxTake > 0 /\ MaxTakeOf[r] > 0 /\ r \in bindable /\ signal[r] \notin AllSignals
    BY <2>1, <2>2 DEF Takes
  <2>4. Head(queue'[r]) = queue'[r][1]
    <3>1. Parted(queue[r], admitted[r], r)'
      <4>1. Inv'
        BY CallerKeepsInv
      <4> QED BY <1>1, <2>1, <4>1 DEF Inv, Holdings
    <3>2. queue'[r] \in Seq(Event)
      BY <3>1 DEF Parted, RunTo
    <3> QED BY <2>3, <3>2, HeadTailProperties
  <2> QED BY <1>1, <2>1, <2>3, <2>4 DEF Takeable
<1> QED BY <1>1, <1>4, <1>5, <1>6 DEF Rotation

LEMMA RotationStep == Inv /\ Budget /\ Rotation /\ [Next]_vars => Rotation'
<1> SUFFICES ASSUME Inv, Budget, Rotation, [Next]_vars PROVE Rotation'
  OBVIOUS
<1>1. CASE UNCHANGED vars \/ Moves
  <2>1. /\ UNCHANGED <<signal, bindable, queue, request, bound, visits, admitted, outcome,
                       due, passed>>
        /\ pc' = "idle" <=> pc = "idle"
    BY <1>1 DEF vars, Moves, seamVars, cycleVars, callerVars
  <2>2. \A r \in Arms : Place(r)' = Place(r)
    BY <2>1 DEF Place, Order
  <2>3. CursorOfNext' = CursorOfNext
    BY <2>1 DEF CursorOfNext, NextCursor
  <2> QED BY <2>1, <2>2, <2>3 DEF Rotation, Untouched, Takeable, Served, Ahead
<1>2. CASE Surroundings
  <2>1. /\ UNCHANGED <<request, bound, visits, admitted, outcome, passed, pc>>
        /\ due' = {r \in due : signal'[r] \notin AllSignals}
    BY <1>2 DEF Surroundings, cycleVars
  <2>2. \A r \in Arms : Place(r)' = Place(r)
    BY <2>1 DEF Place, Order
  <2>3. CursorOfNext' = CursorOfNext
    BY <2>1 DEF CursorOfNext, NextCursor
  <2>4. Untouched => Untouched'
    BY <2>1 DEF Untouched
  <2>5. ASSUME pc # "idle"
        PROVE  /\ due' \subseteq Arms
               /\ \A r \in due' : /\ signal'[r] \notin AllSignals
                                  /\ (Untouched' /\ Takeable(r)') \/ Served(visits, r)'
    <3> SUFFICES ASSUME NEW r \in due'
                 PROVE  /\ r \in Arms /\ signal'[r] \notin AllSignals
                        /\ (Untouched' /\ Takeable(r)') \/ Served(visits, r)'
      OBVIOUS
    <3>1. r \in due /\ r \in Arms /\ signal'[r] \notin AllSignals
      BY <2>1, <2>5 DEF Rotation
    <3>2. (Untouched /\ Takeable(r)) \/ Served(visits, r)
      BY <2>5, <3>1 DEF Rotation
    <3>3. Takeable(r) => Takeable(r)'
      BY <1>2, <2>5, <3>1, TakeableStays
    <3>4. Served(visits, r) => Served(visits, r)'
      BY <2>1, <2>2, <3>1 DEF Served
    <3> QED BY <2>4, <3>1, <3>2, <3>3, <3>4
  <2> QED BY <2>1, <2>2, <2>3, <2>5 DEF Rotation, Ahead
<1>3. CASE StartCycle
  BY <1>3, StartRotates
<1>4. CASE StartUncited \/ Breaks \/ Drops
  <2>1. request' = request
    BY <1>4 DEF StartUncited, Breaks, Drops
  <2>2. PICK kind, vis, lost : /\ Conclude(NoOutcome(kind), vis, lost)
                               /\ kind \in {"error", "abandoned"}
    BY <1>4, Zenon DEF StartUncited, Breaks, Drops
  <2>3. NoOutcome(kind).kind \in Silent
    BY <2>2 DEF NoOutcome, Silent
  <2> QED BY <2>1, <2>2, <2>3, SilentEnd, Zenon
<1>5. CASE Ack \/ Restart
  <2>1. pc = "idle" /\ UNCHANGED <<pc, request, outcome, passed>>
    BY <1>5 DEF Ack, Restart, cycleVars
  <2>2. CursorOfNext' = CursorOfNext
    BY <2>1 DEF CursorOfNext, NextCursor
  <2> QED BY <2>1, <2>2 DEF Rotation, Ahead
<1>6. CASE Ending
  BY <1>6, EndingRotates
<1>7. CASE \E ans : Rounds(ans)
  <2>1. PICK ans : Rounds(ans)
    BY <1>7, Zenon
  <2>2. /\ pc # "idle" /\ pc' = "top" /\ Asks(ans) /\ visits' = Recorded(ans)
        /\ UNCHANGED <<signal, request, due, passed>>
    BY <2>1 DEF Rounds, observerVars, callerVars
  <2>3. \A r \in Arms : Place(r)' = Place(r)
    BY <2>2 DEF Place, Order
  <2>4. ASSUME NEW r \in due PROVE signal'[r] \notin AllSignals /\ Served(visits, r)'
    <3>1. /\ r \in Arms /\ signal[r] \notin AllSignals
          /\ (Untouched /\ Takeable(r)) \/ Served(visits, r)
      BY <2>2 DEF Rotation
    <3>2. Served(Recorded(ans), r)
      BY <2>2, <3>1, RoundServes
    <3> QED BY <2>2, <2>3, <3>1, <3>2 DEF Served
  <2> QED BY <2>2, <2>3, <2>4 DEF Rotation
<1> QED BY <1>1, <1>2, <1>3, <1>4, <1>5, <1>6, <1>7, Shapes, Zenon

\* Scarce capacity goes round (fairness_order, next_fairness_cursor): an arm is
\* passed over no more often than there are arms before it in the order.
THEOREM RotationHolds == Spec => []RotationServes
<1>1. Inv /\ Rotation => RotationServes
  <2> SUFFICES ASSUME Inv, Rotation, NEW r \in Arms PROVE passed[r] < N
    BY DEF RotationServes
  <2>1. N \in Nat /\ request.cursor \in Arms /\ passed[r] \in Nat
    BY Known DEF Rotation
  <2>2. CASE pc # "idle"
    BY <2>1, <2>2, PlaceIs DEF Rotation
  <2>3. CASE pc = "idle"
    <3>1. Ahead(CursorOfNext, r) \in 1..N
      <4>1. Ahead(request.cursor, r) \in 1..N
        BY <2>1, PlaceIs
      <4> QED BY <2>1, <4>1, NextOrder DEF CursorOfNext
    <3> QED BY <2>1, <2>3, <3>1 DEF Rotation
  <2> QED BY <2>2, <2>3
<1> QED BY <1>1, Invariance, BudgetHoldsFirst, BudgetStep, RotationHoldsFirst, RotationStep,
        InvHoldsFirst, InvStep, PTL DEF Spec
-----------------------------------------------------------------------------
(* The retained log. *)

\* Posture never rejects an outcome. If it may, an outcome can retain events
\* that it does not hand over, and the theorems below do not hold.
PostureAccepts == ~AuthnRequired /\ \A r \in Arms : Lease[r] >= Horizon

\* The events s as a set.
Listed(s) == {s[i] : i \in 1..Len(s)}

LEMMA ConcludeAddsSeen ==
    ASSUME NEW result, NEW vis, NEW lost, Conclude(result, vis, lost)
    PROVE  \A r \in Arms : seen'[r] = seen[r] \cup Listed(result.events[r])
BY DEF Conclude, Listed

LEMMA SilentHandsNothing ==
    ASSUME NEW kind, NEW r \in Arms
    PROVE  Listed(NoOutcome(kind).events[r]) = {}
<1>1. NoOutcome(kind).events[r] = <<>>
  BY DEF NoOutcome, NoEvents
<1> QED BY <1>1 DEF Listed

\* A part of a run that begins after the committed cursor, as a set.
LEMMA AdmittedAre ==
    ASSUME Inv, NEW q, NEW adm, NEW r \in Arms, Parted(q, adm, r)
    PROVE  /\ Listed(adm) = committed[r] + 1 .. committed[r] + Len(adm)
           /\ committed[r] + Len(adm) \in committed[r] .. arrived[r]
           /\ Len(adm) \in Nat
<1>1. adm \in Seq(Event) /\ q \in Seq(Event) /\ arrived[r] - Len(q) = committed[r] + Len(adm)
  BY DEF Parted, RunTo
<1>2. Len(adm) \in Nat /\ Len(q) \in Nat /\ committed[r] \in Nat /\ arrived[r] \in Nat
  BY <1>1, Known, LenProperties
<1>3. \A i \in 1..Len(adm) : adm[i] = (committed[r] + Len(adm)) - Len(adm) + i
  BY DEF Parted, RunTo
<1> DEFINE c == committed[r]
           n == Len(adm)
<1>4. \A i \in 1..n : adm[i] = c + i
  <2>1. \A i \in Nat : (c + n) - n + i = c + i
    BY <1>2
  <2> QED BY <1>2, <1>3, <2>1
<1>5. c \in Nat /\ n \in Nat /\ Listed(adm) = {adm[i] : i \in 1..n}
  BY <1>2 DEF Listed
<1>6. c + n \in c .. arrived[r]
  BY <1>1, <1>2
<1> HIDE DEF c, n
<1>7. {adm[i] : i \in 1..n} = c + 1 .. c + n
  <2>1. ASSUME NEW e \in c + 1 .. c + n PROVE \E i \in 1..n : e = adm[i]
    <3>1. e - c \in 1..n /\ c + (e - c) = e
      BY <1>5
    <3> QED BY <1>4, <3>1
  <2>2. ASSUME NEW i \in 1..n PROVE adm[i] \in c + 1 .. c + n
    BY <1>4, <1>5
  <2> QED BY <2>1, <2>2
<1> QED BY <1>5, <1>6, <1>7 DEF c, n

\* What posture makes of an outcome that it does not let pass.
Emptied == {"reauthentication_required", "refused"}

PostureHolds == PostureAccepts /\ now \in 0..Horizon

LEMMA PostureEmpties ==
    ASSUME NEW kind
    PROVE  /\ Posture(kind, now) \in {kind} \cup Emptied
           /\ PostureHolds => Posture(kind, now) = kind
<1>1. PostureHolds => ~ \E s \in Arms : now > Lease[s]
  BY SeamAssumption DEF PostureHolds, PostureAccepts
<1> QED BY <1>1 DEF Posture, Emptied, PostureHolds, PostureAccepts

\* The end of a cycle hands over what follows the committed cursor; and, if
\* posture lets the outcome pass, all that it retains.
LEMMA EndHandsOver ==
    ASSUME Inv, NEW result, NEW q, NEW adm, NEW vis, EndsWith(result, q, adm, vis), NEW r \in Arms
    PROVE  /\ \E last \in committed[r] .. arrived[r] :
                 Listed(result.events[r]) = committed[r] + 1 .. last
           /\ result.kind \notin Silent /\ (result.kind \notin Emptied \/ PostureHolds)
                => Listed(result.events[r]) = committed[r] + 1 .. result.retained[r]
<1>1. /\ pc # "idle" /\ Turn(q, adm, vis)
      /\ result = NoOutcome("error") \/ \E kind, binds : result = Report(kind, adm, binds, now)
  BY Zenon DEF EndsWith
<1>2. \A s \in Arms : Parted(q[s], adm[s], s)
  BY <1>1, TurnParted
<1>3. committed[r] \in Nat /\ arrived[r] \in Nat /\ committed[r] <= arrived[r]
  BY Known
<1>4. /\ Listed(adm[r]) = committed[r] + 1 .. committed[r] + Len(adm[r])
      /\ committed[r] + Len(adm[r]) \in committed[r] .. arrived[r]
  BY <1>2, AdmittedAre
<1>5. Listed(NoEvents[r]) = {} /\ {} = committed[r] + 1 .. committed[r]
  <2>1. NoEvents[r] = <<>>
    BY DEF NoEvents
  <2> QED BY <1>3, <2>1 DEF Listed
<1>6. CASE result = NoOutcome("error")
  <2>1. result.kind \in Silent /\ result.events[r] = NoEvents[r]
    BY <1>6 DEF NoOutcome, Silent
  <2>2. committed[r] \in committed[r] .. arrived[r]
    BY <1>3
  <2> QED BY <1>5, <2>1, <2>2, Zenon
<1>7. CASE result # NoOutcome("error")
  <2>1. PICK kind, binds : result = Report(kind, adm, binds, now)
    BY <1>1, <1>7, Zenon
  <2>2. /\ result.kind = Posture(kind, now)
        /\ result.events = IF result.kind \in Delivers THEN adm ELSE NoEvents
    BY <1>7, <2>1 DEF Report
  <2>3. \E last \in committed[r] .. arrived[r] : Listed(result.events[r]) = committed[r] + 1 .. last
    <3>1. committed[r] \in committed[r] .. arrived[r]
      BY <1>3
    <3>2. result.events = adm \/ result.events = NoEvents
      BY <2>2
    <3> QED BY <1>4, <1>5, <3>1, <3>2, Zenon
  <2>4. ASSUME result.kind \notin Silent, result.kind \notin Emptied \/ PostureHolds
        PROVE  Listed(result.events[r]) = committed[r] + 1 .. result.retained[r]
    <3>1. result.kind = kind
      BY <2>2, <2>4, PostureEmpties, Zenon
    <3>2. result.retained[r] = IF kind \in Delivers THEN committed[r] + Len(adm[r]) ELSE committed[r]
      BY <1>2, <2>1, <2>4, ReportRetains
    <3>3. CASE kind \in Delivers
      <4>1. result.events[r] = adm[r] /\ result.retained[r] = committed[r] + Len(adm[r])
        BY <2>2, <3>1, <3>2, <3>3
      <4> QED BY <1>4, <4>1, Zenon
    <3>4. CASE kind \notin Delivers
      <4>1. result.events[r] = NoEvents[r] /\ result.retained[r] = committed[r]
        BY <2>2, <3>1, <3>2, <3>4
      <4> QED BY <1>5, <4>1, Zenon
    <3> QED BY <3>3, <3>4
  <2> QED BY <2>3, <2>4
<1> QED BY <1>6, <1>7

\* What every step is to the log: nothing, an event, a delivery or an ack.
LEMMA StepOfLog ==
    ASSUME Inv, [Next]_vars
    PROVE  \/ UNCHANGED <<arrived, committed, seen>>
           \/ \E r \in Arms : Log!Emit(r)
           \/ Log!Deliver
           \/ Ack
<1>1. CASE UNCHANGED vars \/ Moves \/ StartCycle \/ Restart \/ \E ans : Rounds(ans)
  BY <1>1 DEF vars, Moves, StartCycle, Restart, Rounds, seamVars, observerVars, callerVars
<1>2. CASE Surroundings
  <2>1. UNCHANGED <<committed, seen>>
    BY <1>2 DEF Surroundings
  <2>2. arrived' = arrived \/ \E s \in Arms : arrived' = [arrived EXCEPT ![s] = @ + 1]
    BY <1>2 DEF Surroundings, Environment, Arrive, Raise, ReleaseHang, Tick, Trigger
  <2> QED BY <2>1, <2>2 DEF Log!Emit
<1>3. CASE StartUncited \/ Breaks \/ Drops
  <2>1. PICK kind, vis, lost : Conclude(NoOutcome(kind), vis, lost)
    BY <1>3, Zenon DEF StartUncited, Breaks, Drops
  <2>2. arrived' = arrived
    BY <1>3 DEF StartUncited, Breaks, Drops, seamVars, observerVars
  <2>3. committed' = committed
    BY <2>1, ConcludeTells
  <2>4. ASSUME NEW r \in Arms
        PROVE  \E last \in committed[r] .. arrived[r] :
                  seen'[r] = seen[r] \cup (committed[r] + 1 .. last)
    <3>1. seen'[r] = seen[r] \cup {}
      BY <2>1, ConcludeAddsSeen, SilentHandsNothing, Zenon
    <3>2. committed[r] \in committed[r] .. arrived[r] /\ committed[r] + 1 .. committed[r] = {}
      BY Known
    <3> QED BY <3>1, <3>2
  <2> QED BY <2>2, <2>3, <2>4 DEF Log!Deliver
<1>4. CASE Ending
  <2>1. PICK result, q, adm, vis : EndsWith(result, q, adm, vis)
    BY <1>4, Zenon DEF Ending
  <2>2. Conclude(result, vis, FALSE) /\ arrived' = arrived
    BY <2>1 DEF EndsWith, observerVars
  <2>3. committed' = committed /\ \A r \in Arms : seen'[r] = seen[r] \cup Listed(result.events[r])
    BY <2>2, ConcludeTells, ConcludeAddsSeen
  <2>4. ASSUME NEW r \in Arms
        PROVE  \E last \in committed[r] .. arrived[r] :
                  seen'[r] = seen[r] \cup (committed[r] + 1 .. last)
    <3>1. \E last \in committed[r] .. arrived[r] :
            Listed(result.events[r]) = committed[r] + 1 .. last
      BY <2>1, EndHandsOver
    <3> QED BY <2>3, <3>1, Zenon
  <2> QED BY <2>2, <2>3, <2>4 DEF Log!Deliver
<1> QED BY <1>1, <1>2, <1>3, <1>4, Shapes, Zenon

\* Whatever posture makes of an outcome, what it hands over follows the
\* committed cursor without a gap, and only an ack moves that cursor.
THEOREM HandsOverInOrder ==
    Spec => [][(\E r \in Arms : Log!Emit(r)) \/ Log!Deliver \/ Ack]_<<arrived, committed, seen>>
<1>1. Inv /\ [Next]_vars =>
        [(\E r \in Arms : Log!Emit(r)) \/ Log!Deliver \/ Ack]_<<arrived, committed, seen>>
  BY StepOfLog, Zenon
<1> QED BY <1>1, Invariance, PTL DEF Spec

\* What the last outcome retained it has handed over, unless it was emptied.
RetainedIsSeen ==
    outcome.kind \notin Silent \cup Emptied =>
        \A r \in Arms : committed[r] + 1 .. outcome.retained[r] \subseteq seen[r]

LEMMA RetainedIsSeenStep ==
    ASSUME Inv, RetainedIsSeen, [Next]_vars
    PROVE  RetainedIsSeen'
<1>1. CASE UNCHANGED vars \/ Moves \/ Restart \/ Surroundings \/ \E ans : Rounds(ans)
  <2>1. UNCHANGED <<committed, seen, outcome>>
    BY <1>1 DEF vars, Moves, Restart, Surroundings, Rounds, cycleVars, callerVars
  <2> QED BY <2>1 DEF RetainedIsSeen
<1>2. CASE StartCycle
  <2>1. outcome' = NoOutcome("none")
    BY <1>2 DEF StartCycle
  <2> QED BY <2>1 DEF NoOutcome, Silent, RetainedIsSeen
<1>3. CASE StartUncited \/ Breaks \/ Drops
  <2>1. PICK kind, vis, lost : /\ Conclude(NoOutcome(kind), vis, lost)
                               /\ kind \in {"error", "abandoned"}
    BY <1>3, Zenon DEF StartUncited, Breaks, Drops
  <2>2. outcome' = NoOutcome(kind)
    BY <2>1, ConcludeTells
  <2> QED BY <2>1, <2>2 DEF NoOutcome, Silent, RetainedIsSeen
<1>4. CASE Ack
  <2>1. outcome.kind \notin Silent /\ committed' = outcome.retained /\ UNCHANGED outcome
    BY <1>4 DEF Ack, cycleVars
  <2>2. ASSUME NEW r \in Arms PROVE committed'[r] + 1 .. outcome'.retained[r] = {}
    <3>1. outcome.retained[r] \in Nat
      BY <2>1, Known DEF Inv, Cursors
    <3> QED BY <2>1, <3>1
  <2> QED BY <2>2 DEF RetainedIsSeen
<1>5. CASE Ending
  <2>1. PICK result, q, adm, vis : EndsWith(result, q, adm, vis)
    BY <1>5, Zenon DEF Ending
  <2>2. Conclude(result, vis, FALSE)
    BY <2>1 DEF EndsWith
  <2>3. committed' = committed /\ outcome' = result
        /\ \A r \in Arms : seen'[r] = seen[r] \cup Listed(result.events[r])
    BY <2>2, ConcludeTells, ConcludeAddsSeen
  <2>4. ASSUME result.kind \notin Silent \cup Emptied, NEW r \in Arms
        PROVE  committed[r] + 1 .. result.retained[r] \subseteq seen'[r]
    <3>1. Listed(result.events[r]) = committed[r] + 1 .. result.retained[r]
      BY <2>1, <2>4, EndHandsOver
    <3> QED BY <2>3, <3>1
  <2> QED BY <2>3, <2>4 DEF RetainedIsSeen
<1> QED BY <1>1, <1>2, <1>3, <1>4, <1>5, Shapes, Zenon

\* Whatever the leases and receipts, an ack moves no cursor back, and moves it
\* past an event the caller has not received only if posture had emptied the
\* outcome: what rebuild_reason leaves in retained_through is the one way to
\* lose an event to an ack.
THEOREM OnlyEmptiedOutcomesSkip ==
    Spec => [][Ack => \A r \in Arms :
                  /\ committed'[r] >= committed[r]
                  /\ outcome.kind \in Emptied
                       \/ committed[r] + 1 .. committed'[r] \subseteq seen[r]]_vars
<1> DEFINE Receipts == Ack => \A r \in Arms :
                          /\ committed'[r] >= committed[r]
                          /\ outcome.kind \in Emptied
                               \/ committed[r] + 1 .. committed'[r] \subseteq seen[r]
<1>1. Init => RetainedIsSeen
  <2>1. Init => outcome.kind = "none"
    BY DEF Init, NoOutcome
  <2> QED BY <2>1 DEF RetainedIsSeen, Silent
<1>2. Inv /\ RetainedIsSeen /\ [Next]_vars => RetainedIsSeen'
  BY RetainedIsSeenStep
<1>3. Inv /\ RetainedIsSeen => Receipts
  <2> SUFFICES ASSUME Inv, RetainedIsSeen, Ack, NEW r \in Arms
               PROVE  /\ committed'[r] >= committed[r]
                      /\ outcome.kind \in Emptied
                           \/ committed[r] + 1 .. committed'[r] \subseteq seen[r]
    OBVIOUS
  <2>1. outcome.kind \notin Silent /\ committed' = outcome.retained
    BY DEF Ack
  <2>2. outcome.retained[r] \in committed[r] .. arrived[r]
    BY <2>1 DEF Inv, Cursors
  <2>3. committed'[r] >= committed[r]
    BY <2>1, <2>2, Known
  <2> QED BY <2>1, <2>3 DEF RetainedIsSeen
<1>4. Inv /\ RetainedIsSeen /\ [Next]_vars => [Receipts]_vars
  BY <1>3
<1> QED BY <1>1, <1>2, <1>4, Invariance, PTL DEF Spec

LEMMA ReceivedHoldsFirst == Init => Received
<1> SUFFICES ASSUME Init PROVE Received
  OBVIOUS
<1>1. now = 0 /\ outcome.kind = "none" /\ committed = [r \in Arms |-> 0] /\ Horizon \in Nat
  BY SeamAssumption DEF Init, SeamInit, NoOutcome
<1>2. \A r \in Arms : 1..committed[r] = {}
  BY <1>1
<1> QED BY <1>1, <1>2 DEF Received, Silent

LEMMA ReceivedStep ==
    ASSUME PostureAccepts, Inv, Received, [Next]_vars
    PROVE  Received'
<1>1. CASE UNCHANGED vars \/ Moves \/ Restart \/ \E ans : Rounds(ans)
  <2>1. UNCHANGED <<now, committed, seen, outcome>>
    BY <1>1 DEF vars, Moves, Restart, Rounds, seamVars, cycleVars, callerVars
  <2> QED BY <2>1 DEF Received
<1>2. CASE Surroundings
  <2>1. UNCHANGED <<committed, seen, outcome>>
    BY <1>2 DEF Surroundings, cycleVars
  <2>2. now' = now \/ (now < Horizon /\ now' = now + 1)
    BY <1>2 DEF Surroundings, Environment, Arrive, Raise, ReleaseHang, Tick, Trigger
  <2>3. now' \in 0..Horizon
    BY <2>2, SeamAssumption DEF Received
  <2> QED BY <2>1, <2>3 DEF Received
<1>3. CASE StartCycle
  <2>1. UNCHANGED <<now, committed, seen>> /\ outcome' = NoOutcome("none")
    BY <1>3 DEF StartCycle
  <2>2. outcome'.kind \in Silent
    BY <2>1 DEF NoOutcome, Silent
  <2> QED BY <2>1, <2>2 DEF Received
<1>4. CASE StartUncited \/ Breaks \/ Drops
  <2>1. PICK kind, vis, lost : /\ Conclude(NoOutcome(kind), vis, lost)
                               /\ kind \in {"error", "abandoned"}
    BY <1>4, Zenon DEF StartUncited, Breaks, Drops
  <2>2. now' = now
    BY <1>4 DEF StartUncited, Breaks, Drops, seamVars
  <2>3. committed' = committed /\ outcome' = NoOutcome(kind)
    BY <2>1, ConcludeTells
  <2>4. outcome'.kind \in Silent
    BY <2>1, <2>3 DEF NoOutcome, Silent
  <2>5. \A r \in Arms : seen[r] \subseteq seen'[r]
    BY <2>1, ConcludeAddsSeen
  <2> QED BY <2>2, <2>3, <2>4, <2>5 DEF Received
<1>5. CASE Ack
  <2>1. outcome.kind \notin Silent /\ committed' = outcome.retained
        /\ UNCHANGED <<now, seen, outcome>>
    BY <1>5 DEF Ack, seamVars, cycleVars
  <2> QED BY <2>1 DEF Received
<1>6. CASE Ending
  <2>1. PICK result, q, adm, vis : EndsWith(result, q, adm, vis)
    BY <1>6, Zenon DEF Ending
  <2>2. Conclude(result, vis, FALSE) /\ now' = now
    BY <2>1 DEF EndsWith
  <2>3. committed' = committed /\ outcome' = result
        /\ \A r \in Arms : seen'[r] = seen[r] \cup Listed(result.events[r])
    BY <2>2, ConcludeTells, ConcludeAddsSeen
  <2>4. ASSUME result.kind \notin Silent, NEW r \in Arms PROVE 1..result.retained[r] \subseteq seen'[r]
    <3>1. Listed(result.events[r]) = committed[r] + 1 .. result.retained[r]
      <4>1. PostureHolds
        BY DEF Received, PostureHolds
      <4> QED BY <2>1, <2>4, <4>1, EndHandsOver
    <3>2. result.retained[r] \in Nat /\ committed[r] \in Nat
      <4>1. outcome' = result /\ Inv'
        BY <1>6, <2>3, EndingKeepsInv
      <4> QED BY <2>4, <4>1, Known DEF Inv, Cursors
    <3>3. 1..committed[r] \subseteq seen[r]
      BY DEF Received
    <3>4. ASSUME NEW e \in 1..result.retained[r] PROVE e \in 1..committed[r] \cup Listed(result.events[r])
      <4>1. e \in 1..committed[r] \/ e \in committed[r] + 1 .. result.retained[r]
        BY <3>2
      <4> QED BY <3>1, <4>1, Zenon
    <3> QED BY <2>3, <3>3, <3>4
  <2>5. \A r \in Arms : 1..committed[r] \subseteq seen'[r]
    BY <2>3 DEF Received
  <2> QED BY <2>2, <2>3, <2>4, <2>5 DEF Received
<1> QED BY <1>1, <1>2, <1>3, <1>4, <1>5, <1>6, Shapes, Zenon

\* If posture accepts, an ack commits only what the caller has received.
THEOREM AcksFollowReceipt ==
    ASSUME PostureAccepts
    PROVE  Spec => []AckedWasReceived
<1>1. Received => AckedWasReceived
  BY DEF Received, AckedWasReceived
<1>2. Inv /\ Received /\ [Next]_vars => Received'
  BY ReceivedStep
<1> QED BY <1>1, <1>2, Invariance, ReceivedHoldsFirst, PTL DEF Spec

\* Then PollCycle implements RetainedLog: over cycles, acks, cancels, errors,
\* restarts and dropped futures each arm is a log that is read from the
\* committed cursor.
THEOREM PollKeepsLog ==
    ASSUME PostureAccepts
    PROVE  Spec => KeepsLog
<1>1. Init => Log!Init
  BY DEF Init, SeamInit, Log!Init
<1>2. Inv /\ Received /\ [Next]_vars => [Log!Next]_Log!logVars
  <2> SUFFICES ASSUME Inv, Received, [Next]_vars PROVE [Log!Next]_Log!logVars
    OBVIOUS
  <2>1. CASE Ack
    <3>1. outcome.kind \notin Silent /\ committed' = outcome.retained /\ UNCHANGED <<arrived, seen>>
      BY <2>1 DEF Ack, seamVars
    <3>2. ASSUME NEW r \in Arms PROVE committed'[r] >= committed[r] /\ 1..committed'[r] \subseteq seen[r]
      <4>1. outcome.retained[r] \in committed[r] .. arrived[r]
        BY <3>1 DEF Inv, Cursors
      <4> QED BY <3>1, <4>1, Known DEF Received
    <3>3. Log!Commit
      BY <3>1, <3>2 DEF Log!Commit
    <3> QED BY <3>3 DEF Log!Next
  <2>2. CASE UNCHANGED <<arrived, committed, seen>>
    BY <2>2 DEF Log!logVars
  <2>3. CASE (\E r \in Arms : Log!Emit(r)) \/ Log!Deliver
    BY <2>3 DEF Log!Next
  <2> QED BY <2>1, <2>2, <2>3, StepOfLog
<1>3. Inv /\ Received /\ [Next]_vars => Received'
  BY ReceivedStep
<1> QED BY <1>1, <1>2, <1>3, Invariance, ReceivedHoldsFirst, PTL DEF Spec, KeepsLog, Log!Spec

-----------------------------------------------------------------------------
(* What the messages say. *)

IsOutcome(i) == docs[i].type = "poll_cycle_outcome"
IsLast(i) == IsOutcome(i) /\ \A j \in i + 1 .. Len(docs) : ~IsOutcome(j)
NoAcks == \A i \in 1..Len(docs) : docs[i].type # "poll_cycle_ack"

\* The caller has been shown event n of arm r.
Offered(r, n) == \E i \in 1..Len(docs) : IsOutcome(i) /\ <<r, n>> \in docs[i].events

\* What each outcome says by itself.
Vouched(o) ==
    /\ o.id \in Nat /\ o.waiter = 1
    /\ o.created \in Nat /\ o.completed = o.created
    /\ \A a \in o.arms : a.arm \in Arms
    /\ o.complete => Required \subseteq {a.arm : a \in o.arms}
    /\ OutcomeNormative(o)
    /\ Cardinality(o.events) <= MaxTake
    /\ \A r \in Arms : Cardinality({e \in o.events : e[1] = r}) <= MaxTakeOf[r]
    /\ \/ o.kind \in Final \cup {"reauthentication_required"}
       \/ \A r \in Arms : Lease[r] >= o.completed

Written ==
    /\ docs \in Seq(Elements(docs))
    /\ Len(docs) > 0
    /\ docs[1] = SetMessage
    /\ \A i \in 2..Len(docs) :
         \/ /\ docs[i].type = "poll_cycle_request"
            /\ docs[i].run <= docs[i].logical /\ docs[i].required = Required
         \/ IsOutcome(i) /\ Vouched(docs[i])
         \/ /\ docs[i].type = "poll_cycle_ack"
            /\ \E j \in 1..Len(docs) : IsOutcome(j) /\ docs[i] = AckMessage(docs[j])

\* Outcomes are written in the order of their cycles, each with the cursor of
\* the next.
Ordered ==
    /\ cycles \in Nat /\ now \in Nat /\ request.logical \in Nat
    /\ \A i \in 1..Len(docs) : IsOutcome(i) =>
         /\ docs[i].created <= now
         /\ docs[i].id <= cycles
         /\ pc # "idle" => docs[i].id < cycles
    /\ \A i, j \in 1..Len(docs) : IsOutcome(i) /\ IsOutcome(j) /\ i < j =>
         docs[i].created <= docs[j].created /\ docs[i].id < docs[j].id
Rotated ==
    /\ \A i \in 1..Len(docs) : IsLast(i) =>
         docs[i].cursor = IF pc = "idle" THEN CursorOfNext ELSE request.cursor
    /\ \A i, j \in 1..Len(docs) : N > 1 /\ IsOutcome(i) /\ IsLast(j) /\ i < j =>
         \E k \in 1..Len(docs) : IsOutcome(k) /\ docs[k].cursor # docs[j].cursor

\* The last request, and what has been written since.
Stands(i) ==
    /\ docs[i] = RequestMessage(request)
    /\ outcome.kind \in Silent => i = Len(docs)
    /\ outcome.kind \notin Silent =>
         /\ i < Len(docs) /\ IsOutcome(i + 1)
         /\ AuthnRequired /\ ~request.receipt =>
              docs[i + 1].kind \notin {"events", "no_change", "logical_deadman", "partial"}
         /\ \A j \in i + 2 .. Len(docs) : docs[j] = AckMessage(docs[i + 1])
Underway ==
    /\ pc # "idle" => outcome.kind \in Silent
    /\ \/ Len(docs) = 1 /\ pc = "idle" /\ outcome.kind \in Silent
       \/ \E i \in 2..Len(docs) : Stands(i)

\* Without acks every cycle begins with event 1 of each arm.
Replayed ==
    NoAcks =>
        /\ \A r \in Arms : committed[r] = 0
        /\ \A i \in 1..Len(docs) : IsOutcome(i) => \A e \in docs[i].events :
             \E r \in Arms : \E n \in 1..arrived[r] :
                /\ e = <<r, n>>
                /\ MaxTake > 0 /\ MaxTakeOf[r] > 0 /\ 1 \notin Oversized[r]
        /\ \A i, j \in 1..Len(docs) :
             IsOutcome(i) /\ IsOutcome(j) /\ i < j /\ Claims(docs[j]) =>
                \A e \in docs[i].events : e[1] \in Required => e \in docs[j].events

\* What the visits v and the events a say of the arms, b of which are bound.
VisitKinds == {"none", "events", "saturated", "deferred", "idle", "overflow", "failed"} \cup Dirty
Noted(v, a, b) ==
    \A r \in Arms : /\ v[r] \in VisitKinds
                    /\ v[r] # "none" => r \in b
                    /\ v[r] \in {"events", "saturated"} => a[r] # <<>>

\* ... and what they say of an arm whose event n the caller has been shown
\* and has not committed.
Answered(v, a, b) ==
    \A r \in Arms : \A n \in Event : Offered(r, n) =>
        /\ v[r] = "none" /\ "error" \notin Signals => r \notin b
        /\ v[r] # "idle"
        /\ v[r] = "deferred" => \E s \in Arms : a[s] # <<>>
        /\ v[r] = "events" => n \in Listed(a[r])
Visiting ==
    /\ signal \in [Arms -> Signals \cup {"none", "idle"}]
    /\ bound \subseteq Arms /\ idle \subseteq bound
    /\ pc = "idle" => idle = {}
    /\ pc # "idle" => Noted(visits, admitted, bound)
    /\ pc # "idle" /\ NoAcks => /\ Answered(visits, admitted, bound)
                                /\ \A r \in idle : \A n \in Event : ~Offered(r, n)

TInv == Written /\ Ordered /\ Rotated /\ Underway /\ Replayed /\ Visiting

-----------------------------------------------------------------------------
(* How many events a message has. *)

LEMMA FewFromOne ==
    ASSUME NEW r, NEW s, Len(s) \in Nat
    PROVE  IsFiniteSet(EventsOf(r, s)) /\ Cardinality(EventsOf(r, s)) <= Len(s)
<1> DEFINE n == Len(s)
           f == [i \in 1..n |-> <<r, s[i]>>]
           E == EventsOf(r, s)
<1>1. IsFiniteSet(1..n) /\ Cardinality(1..n) = n
  <2> HIDE DEF n
  <2> SUFFICES ASSUME n \in Nat PROVE IsFiniteSet(1..n) /\ Cardinality(1..n) = n
    BY DEF n
  <2>1. /\ IsFiniteSet(1..n)
        /\ Cardinality(1..n) = IF 1 > n THEN 0 ELSE n - 1 + 1
    <3>1. 1 \in Int /\ n \in Int
      OBVIOUS
    <3> QED BY <3>1, FS_Interval, Zenon
  <2>2. (IF 1 > n THEN 0 ELSE n - 1 + 1) = n
    OBVIOUS
  <2> QED BY <2>1, <2>2
<1>2. E = {f[i] : i \in 1..n}
  BY DEF EventsOf
<1> HIDE DEF E
<1>3. f \in Surjection(1..n, E)
  BY <1>2 DEF Surjection
<1> HIDE DEF f
<1> QED BY <1>1, <1>3, FS_Surjection DEF E

LEMMA FewOfOne ==
    ASSUME NEW r, NEW s, Len(s) \in Nat, NEW G, G \subseteq EventsOf(r, s)
    PROVE  IsFiniteSet(G) /\ Cardinality(G) <= Len(s) /\ Cardinality(G) \in Nat
<1> DEFINE F == EventsOf(r, s)
<1>1. IsFiniteSet(F) /\ Cardinality(F) <= Len(s)
  BY FewFromOne
<1> HIDE DEF F
<1>2. IsFiniteSet(G) /\ Cardinality(G) <= Cardinality(F)
  BY <1>1, FS_Subset DEF F
<1>3. Cardinality(G) \in Nat /\ Cardinality(F) \in Nat
  BY <1>1, <1>2, FS_CardinalityType
<1> QED BY <1>1, <1>2, <1>3

LEMMA FewOfAll ==
    ASSUME NEW ev, NEW f, \A r \in Arms : f[r] = Len(ev[r]) /\ f[r] \in Nat,
           NEW E, \A e \in E : \E r \in Arms : e \in EventsOf(r, ev[r])
    PROVE  IsFiniteSet(E) /\ Cardinality(E) \in Nat /\ Cardinality(E) <= Total(f, N)
<1> DEFINE U(i) == {e \in E : \E r \in Arms : r <= i /\ e \in EventsOf(r, ev[r])}
           T == {i \in Nat : i <= N => /\ IsFiniteSet(U(i)) /\ Cardinality(U(i)) \in Nat
                                       /\ Cardinality(U(i)) <= Total(f, i)
                                       /\ Total(f, i) \in Nat}
<1>1. N \in Nat /\ Arms = 1..N
  BY SeamAssumption DEF Arms
<1>2. 0 \in T
  <2>1. U(0) = {}
    BY <1>1
  <2>2. Total(f, 0) = 0
    BY TotalSteps
  <2> HIDE DEF U
  <2> QED BY <2>1, <2>2, FS_EmptySet
<1>3. ASSUME NEW i \in T PROVE i + 1 \in T
  <2> SUFFICES ASSUME i + 1 <= N PROVE i + 1 \in T
    OBVIOUS
  <2> DEFINE X == U(i)
             Y == U(i + 1)
             F == Y \ X
  <2>1. i \in Nat /\ i <= N
    BY <1>1
  <2>2. IsFiniteSet(X) /\ Cardinality(X) \in Nat /\ Cardinality(X) <= Total(f, i) /\ Total(f, i) \in Nat
    <3> HIDE DEF U
    <3> QED BY <2>1
  <2>3. i + 1 \in Arms /\ f[i + 1] = Len(ev[i + 1]) /\ Len(ev[i + 1]) \in Nat
    BY <1>1
  <2>4. F \subseteq EventsOf(i + 1, ev[i + 1])
    BY <1>1, <2>1
  <2>5. Y = X \cup F
    BY <1>1, <2>1
  <2>6. Total(f, i + 1) = Total(f, i) + f[i + 1]
    BY <2>1, TotalSteps
  <2> HIDE DEF X, F
  <2>7. IsFiniteSet(F) /\ Cardinality(F) <= Len(ev[i + 1]) /\ Cardinality(F) \in Nat
    BY <2>3, <2>4, FewOfOne
  <2>8. IsFiniteSet(X \cup F) /\ Cardinality(X \cup F) = Cardinality(X) + Cardinality(F) - Cardinality(X \cap F)
    BY <2>2, <2>7, FS_Union
  <2>9. IsFiniteSet(X \cap F)
    BY <2>2, FS_Intersection
  <2>10. Cardinality(X \cap F) \in Nat /\ Cardinality(X \cup F) \in Nat
    BY <2>8, <2>9, FS_CardinalityType
  <2> HIDE DEF Y
  <2>11. /\ IsFiniteSet(Y) /\ Cardinality(Y) \in Nat
         /\ Cardinality(Y) <= Total(f, i + 1) /\ Total(f, i + 1) \in Nat
    BY <2>2, <2>3, <2>5, <2>6, <2>7, <2>8, <2>10
  <2> QED BY <2>1, <2>11 DEF Y
<1>4. T = Nat
  <2>1. T \in SUBSET Nat
    OBVIOUS
  <2> HIDE DEF T
  <2> QED BY <1>2, <1>3, <2>1, SetInduction
<1>5. U(N) = E
  <2>1. ASSUME NEW e \in E PROVE e \in U(N)
    <3>1. PICK r \in Arms : e \in EventsOf(r, ev[r])
      OBVIOUS
    <3>2. r <= N
      BY <1>1
    <3> QED BY <3>1, <3>2
  <2> QED BY <2>1
<1>6. N \in T
  <2> HIDE DEF T
  <2> QED BY <1>1, <1>4
<1> HIDE DEF U
<1> QED BY <1>1, <1>5, <1>6

-----------------------------------------------------------------------------
(* What a cycle says of itself. *)

LEMMA DecideTells ==
    ASSUME NEW vis, NEW adm, NEW t \in Nat, request.logical \in Nat, NEW kind,
           kind = DecideKind(vis, adm, t)
    PROVE  /\ kind \in {"partial", "failed", "coverage_degraded", "events"} \cup CleanKinds
           /\ kind \in {"events"} \cup CleanKinds =>
                /\ \A r \in Arms : vis[r] \notin {"overflow", "failed"}
                /\ \A r \in Required : vis[r] \notin Dirty
           /\ kind \in CleanKinds => \A r \in Arms : adm[r] = <<>>
           /\ kind = "events" => /\ \A r \in Required : vis[r] # "deferred"
                                 /\ \A r \in Arms : vis[r] # "saturated"
                                 /\ \E r \in Arms : adm[r] # <<>>
           /\ kind = "no_change" => t < request.logical /\ \A r \in Required : vis[r] # "deferred"
           /\ kind = "logical_deadman" => t >= request.logical
<1> DEFINE over == \E r \in Arms : vis[r] \in {"overflow"}
           broken == \E r \in Arms : vis[r] \in {"failed"}
           full == \E r \in Arms : vis[r] \in {"saturated"}
           some == \E r \in Arms : adm[r] # <<>>
           dirty == \E r \in Required : vis[r] \in Dirty
           deferred == \E r \in Required : vis[r] = "deferred"
<1>1. kind = CASE over -> IF some THEN "partial" ELSE "failed"
               [] ~over /\ dirty -> "coverage_degraded"
               [] ~over /\ ~dirty /\ broken -> IF some THEN "coverage_degraded" ELSE "failed"
               [] OTHER ->
                    IF some THEN IF deferred \/ full THEN "partial" ELSE "events"
                    ELSE IF deferred /\ t < request.logical THEN "partial"
                    ELSE IF t >= request.logical THEN "logical_deadman"
                    ELSE "no_change"
  BY Zenon DEF DecideKind
<1> HIDE DEF over, broken, full, some, dirty, deferred
<1>2. CASE over
  BY <1>1, <1>2 DEF CleanKinds
<1>3. CASE ~over /\ dirty
  BY <1>1, <1>3 DEF CleanKinds
<1>4. CASE ~over /\ ~dirty /\ broken
  BY <1>1, <1>4 DEF CleanKinds
<1>5. CASE ~over /\ ~dirty /\ ~broken
  <2>1. kind = IF some THEN IF deferred \/ full THEN "partial" ELSE "events"
               ELSE IF deferred /\ t < request.logical THEN "partial"
               ELSE IF t >= request.logical THEN "logical_deadman"
               ELSE "no_change"
    BY <1>1, <1>5, Zenon
  <2>2. /\ \A r \in Arms : vis[r] \notin {"overflow", "failed"}
        /\ \A r \in Required : vis[r] \notin Dirty
    BY <1>5 DEF over, broken, dirty
  <2>3. some \/ \A r \in Arms : adm[r] = <<>>
    BY DEF some
  <2>4. deferred \/ \A r \in Required : vis[r] # "deferred"
    BY DEF deferred
  <2>5. full \/ \A r \in Arms : vis[r] # "saturated"
    BY DEF full
  <2>6. CASE some
    <3>1. kind = IF deferred \/ full THEN "partial" ELSE "events"
      BY <2>1, <2>6, Zenon
    <3>2. \E r \in Arms : adm[r] # <<>>
      BY <2>6, Zenon DEF some
    <3> QED BY <3>1, <3>2, <2>2, <2>4, <2>5 DEF CleanKinds
  <2>7. CASE ~some
    <3>1. kind = IF deferred /\ t < request.logical THEN "partial"
                 ELSE IF t >= request.logical THEN "logical_deadman" ELSE "no_change"
      BY <2>1, <2>7, Zenon
    <3>2. \A r \in Arms : adm[r] = <<>>
      BY <2>3, <2>7, Zenon
    <3> QED BY <2>2, <2>4, <3>1, <3>2 DEF CleanKinds
  <2> QED BY <2>6, <2>7
<1> QED BY <1>2, <1>3, <1>4, <1>5

\* How a cycle ends that answers with an outcome of that kind: called off, or
\* with a visit to every arm.
Closed(kind, adm, vis, b) ==
    /\ \A r \in Arms : /\ vis[r] \in VisitKinds
                       /\ vis[r] \in {"events", "saturated"} => adm[r] # <<>>
    /\ \/ kind \in Final
       \/ /\ kind = DecideKind(vis, adm, now)
          /\ Required \subseteq b
          /\ \A r \in Arms : vis[r] # "none"

LEMMA ReportIs ==
    ASSUME NEW kind, NEW adm, NEW b, NEW result, result = Report(kind, adm, b, now),
           result.kind \notin Silent
    PROVE  /\ result.kind = Posture(kind, now) /\ result.at = now
           /\ result.arms = KnownStarts(b)
           /\ result.events = IF result.kind \in Delivers THEN adm ELSE NoEvents
<1>1. NoOutcome("error").kind \in Silent
  BY DEF NoOutcome, Silent
<1> QED BY <1>1 DEF Report

LEMMA PostureTells ==
    ASSUME NEW kind, NEW t, NEW final, final = Posture(kind, t)
    PROVE  /\ final \in {kind, "reauthentication_required", "refused"}
           /\ \/ final \in Final \cup {"reauthentication_required"}
              \/ \A r \in Arms : ~(t > Lease[r])
           /\ AuthnRequired /\ ~request.receipt =>
                final \in Final \cup {"reauthentication_required", "refused"}
BY DEF Posture

LEMMA MessageIs ==
    ASSUME NEW id, NEW q, NEW o, NEW vis, NEW m, m = OutcomeMessage(id, q, o, vis)
    PROVE  /\ m.type = "poll_cycle_outcome" /\ m.id = id /\ m.waiter = 1 /\ m.kind = o.kind
           /\ m.created = o.at /\ m.completed = o.at /\ m.logical = q.logical
           /\ m.arms = ArmReports(o, vis) /\ (m.complete <=> Complete(o, ArmReports(o, vis)))
           /\ m.events = UNION {EventsOf(r, o.events[r]) : r \in o.arms}
           /\ m.cursor = NextCursor
BY DEF OutcomeMessage

LEMMA ArmIs ==
    ASSUME NEW o, NEW vis, NEW a \in ArmReports(o, vis)
    PROVE  \E r \in o.arms : /\ a.arm = r /\ a.status = Status(vis[r], o.kind)
                             /\ a.required <=> r \in Required
                             /\ a.degraded <=> vis[r] = "degraded"
<1>1. PICK r \in o.arms : a = [arm |-> r, required |-> r \in Required,
                               status |-> Status(vis[r], o.kind), degraded |-> vis[r] = "degraded"]
  BY DEF ArmReports
<1>2. /\ a.arm = r /\ a.status = Status(vis[r], o.kind)
      /\ a.required = (r \in Required) /\ a.degraded = (vis[r] = "degraded")
  BY <1>1
<1> QED BY <1>2

\* Only a visit that found a source in doubt is reported so.
LEMMA StatusTells ==
    ASSUME NEW visit \in VisitKinds, NEW kind
    PROVE  /\ visit \notin Dirty => Status(visit, kind) \notin {"outage", "cursor_uncertain"}
           /\ visit = "idle" => Status(visit, kind) = "no_change"
           /\ visit # "degraded" \/ visit \in Dirty
<1>1. CASE visit \in {"events", "saturated"}
  <2>1. Status(visit, kind) \in {"no_change", "events"}
    BY <1>1 DEF Status
  <2> QED BY <1>1, <2>1
<1>2. CASE visit = "idle"
  BY <1>2 DEF Status
<1>3. CASE visit \in {"overflow", "failed", "degraded"}
  <2>1. Status(visit, kind) = "observed"
    BY <1>3 DEF Status
  <2> QED BY <1>3, <2>1 DEF Dirty
<1>4. CASE visit \in {"outage", "cursor_uncertain"}
  BY <1>4 DEF Dirty
<1>5. CASE visit \in {"deferred", "none"}
  <2>1. Status(visit, kind) = "deferred"
    BY <1>5 DEF Status
  <2> QED BY <1>5, <2>1
<1> QED BY <1>1, <1>2, <1>3, <1>4, <1>5 DEF VisitKinds, Dirty

LEMMA EachArm ==
    ASSUME NEW o, NEW vis, \A r \in Arms : vis[r] \in VisitKinds, o.arms \subseteq Arms
    PROVE  /\ \A a \in ArmReports(o, vis) : a.arm \in Arms
           /\ \A r \in o.arms : \E a \in ArmReports(o, vis) : a.arm = r
           /\ \A a \in ArmReports(o, vis) : vis[a.arm] \notin Dirty => ~InDoubt(a)
           /\ \A a \in ArmReports(o, vis) : a.required <=> a.arm \in Required
           /\ \A a \in ArmReports(o, vis) : a.status = Status(vis[a.arm], o.kind)
           /\ \A a \in ArmReports(o, vis) : a.degraded <=> vis[a.arm] = "degraded"
<1>1. ASSUME NEW a \in ArmReports(o, vis)
      PROVE  /\ a.arm \in Arms /\ (vis[a.arm] \notin Dirty => ~InDoubt(a))
             /\ a.required <=> a.arm \in Required
             /\ a.status = Status(vis[a.arm], o.kind)
             /\ a.degraded <=> vis[a.arm] = "degraded"
  <2>1. PICK r \in o.arms : /\ a.arm = r /\ a.status = Status(vis[r], o.kind)
                            /\ a.required <=> r \in Required
                            /\ a.degraded <=> vis[r] = "degraded"
    BY ArmIs
  <2>2. r \in Arms /\ vis[r] \in VisitKinds
    OBVIOUS
  <2>3. vis[r] \notin Dirty => a.status \notin {"outage", "cursor_uncertain"} /\ ~a.degraded
    BY <2>1, <2>2, StatusTells
  <2> QED BY <2>1, <2>2, <2>3, Zenon DEF InDoubt
<1>2. ASSUME NEW r \in o.arms PROVE \E a \in ArmReports(o, vis) : a.arm = r
  <2> DEFINE a == [arm |-> r, required |-> r \in Required,
                   status |-> Status(vis[r], o.kind), degraded |-> vis[r] = "degraded"]
  <2>1. a \in ArmReports(o, vis)
    BY Zenon DEF ArmReports
  <2>2. a.arm = r
    OBVIOUS
  <2> QED BY <2>1, <2>2, Zenon
<1> QED BY <1>1, <1>2

LEMMA NoEventsNone == \A r \in Arms : EventsOf(r, NoEvents[r]) = {}
<1> SUFFICES ASSUME NEW r \in Arms PROVE EventsOf(r, NoEvents[r]) = {}
  OBVIOUS
<1>1. NoEvents[r] = <<>> /\ Len(<<>>) = 0
  BY DEF NoEvents
<1> QED BY <1>1 DEF EventsOf

\* An outcome vouches for what it says.
LEMMA ReportIsVouched ==
    ASSUME Ordered, NEW kind, NEW adm, NEW vis, NEW b, Closed(kind, adm, vis, b), Bounded(adm),
           \A r \in Arms : Len(adm[r]) \in Nat,
           NEW result, result = Report(kind, adm, b, now), result.kind \notin Silent,
           NEW m, m = OutcomeMessage(cycles, request, result, vis)
    PROVE  /\ m.type = "poll_cycle_outcome" /\ m.id = cycles /\ m.created = now
           /\ m.cursor = NextCursor
           /\ Vouched(m)
           /\ AuthnRequired /\ ~request.receipt =>
                m.kind \notin {"events", "no_change", "logical_deadman", "partial"}
<1> DEFINE reports == ArmReports(result, vis)
<1>1. /\ m.type = "poll_cycle_outcome" /\ m.id = cycles /\ m.waiter = 1 /\ m.kind = result.kind
      /\ m.created = result.at /\ m.completed = result.at /\ m.logical = request.logical
      /\ m.arms = reports /\ (m.complete <=> Complete(result, reports))
      /\ m.events = UNION {EventsOf(r, result.events[r]) : r \in result.arms}
      /\ m.cursor = NextCursor
  BY MessageIs
<1>2. /\ result.kind = Posture(kind, now) /\ result.at = now /\ result.arms = KnownStarts(b)
      /\ result.events = IF result.kind \in Delivers THEN adm ELSE NoEvents
  BY ReportIs
<1>3. /\ result.kind \in {kind, "reauthentication_required", "refused"}
      /\ \/ result.kind \in Final \cup {"reauthentication_required"}
         \/ \A r \in Arms : ~(now > Lease[r])
      /\ AuthnRequired /\ ~request.receipt =>
           result.kind \in Final \cup {"reauthentication_required", "refused"}
  BY <1>2, PostureTells
<1>4. result.arms \subseteq Arms /\ b \cap Arms \subseteq result.arms
  BY <1>2 DEF KnownStarts
<1>5. \A r \in Arms : /\ vis[r] \in VisitKinds
                      /\ vis[r] \in {"events", "saturated"} => adm[r] # <<>>
  BY DEF Closed
<1>6. /\ \A a \in reports : a.arm \in Arms
      /\ \A r \in result.arms : \E a \in reports : a.arm = r
      /\ \A a \in reports : vis[a.arm] \notin Dirty => ~InDoubt(a)
      /\ \A a \in reports : a.required <=> a.arm \in Required
      /\ \A a \in reports : a.status = Status(vis[a.arm], result.kind)
      /\ \A a \in reports : a.degraded <=> vis[a.arm] = "degraded"
  BY <1>4, <1>5, EachArm
<1>7. cycles \in Nat /\ now \in Nat /\ request.logical \in Nat /\ Required \subseteq Arms
      /\ Required # {} /\ Lease \in [Arms -> Nat] /\ N \in Nat /\ Arms = 1..N
      /\ MaxTake \in Nat /\ MaxTakeOf \in [Arms -> Nat]
  BY SeamAssumption, PollCycleAssumption, TranscriptAssumption DEF Ordered, Arms
<1> HIDE DEF reports
<1>8. /\ Cardinality(m.events) <= MaxTake
      /\ \A r \in Arms : Cardinality({e \in m.events : e[1] = r}) <= MaxTakeOf[r]
  <2> DEFINE ev == result.events
  <2>1. Bounded(ev) /\ \A r \in Arms : Len(ev[r]) \in Nat
    <3>1. CASE ev = adm
      BY <3>1
    <3>2. CASE ev = NoEvents
      <4>1. \A r \in Arms : ev[r] = <<>>
        BY <3>2 DEF NoEvents
      <4> HIDE DEF ev
      <4>2. Bounded(ev)
        BY <4>1, NothingIsBounded
      <4>3. \A r \in Arms : Len(ev[r]) = 0
        BY <4>1
      <4> QED BY <4>2, <4>3
    <3> QED BY <1>2, <3>1, <3>2
  <2> DEFINE E == m.events
             f == [r \in Arms |-> Len(ev[r])]
  <2>2. E = UNION {EventsOf(r, ev[r]) : r \in result.arms}
    BY <1>1, Zenon
  <2>3. \A e \in E : \E r \in Arms : e \in EventsOf(r, ev[r])
    BY <1>4, <2>2
  <2>4. \A r \in Arms : f[r] = Len(ev[r]) /\ f[r] \in Nat
    BY <2>1
  <2>5. Total(f, N) <= MaxTake /\ \A r \in Arms : Len(ev[r]) <= MaxTakeOf[r]
    BY <2>1, Zenon DEF Bounded
  <2> HIDE DEF ev, f
  <2>6. Cardinality(E) <= MaxTake
    <3> HIDE DEF E
    <3>1. Cardinality(E) \in Nat /\ Cardinality(E) <= Total(f, N)
      BY <2>3, <2>4, FewOfAll
    <3>2. Total(f, N) \in Nat
      <4>1. \A i \in 1..N : f[i] \in Nat /\ f[i] <= f[i]
        BY <1>7, <2>4
      <4> QED BY <1>7, <4>1, TotalBounds
    <3> QED BY <1>7, <2>5, <3>1, <3>2
  <2>7. ASSUME NEW r \in Arms PROVE Cardinality({e \in E : e[1] = r}) <= MaxTakeOf[r]
    <3> DEFINE G == {e \in E : e[1] = r}
    <3>1. G \subseteq EventsOf(r, ev[r])
      <4> SUFFICES ASSUME NEW e \in G PROVE e \in EventsOf(r, ev[r])
        OBVIOUS
      <4>1. PICK s \in Arms : e \in EventsOf(s, ev[s])
        BY <2>3
      <4>2. e[1] = s
        BY <4>1 DEF EventsOf
      <4> QED BY <4>1, <4>2
    <3> HIDE DEF G, E
    <3>2. Cardinality(G) <= Len(ev[r]) /\ Cardinality(G) \in Nat /\ Len(ev[r]) \in Nat
      BY <2>1, <3>1, FewOfOne
    <3>3. Cardinality(G) <= MaxTakeOf[r]
      BY <1>7, <2>5, <3>2
    <3> QED BY <3>3 DEF G, E
  <2> QED BY <2>6, <2>7
<1>9. m.complete => Required \subseteq {a.arm : a \in m.arms}
  <2> SUFFICES ASSUME Complete(result, reports), NEW r \in Required PROVE r \in {a.arm : a \in reports}
    BY <1>1
  <2>1. \E a \in reports : a.arm = r
    BY Zenon DEF Complete
  <2> QED BY <2>1
<1>10. ASSUME m.kind \in CleanKinds
       PROVE  /\ kind = m.kind /\ kind = DecideKind(vis, adm, now) /\ Required \subseteq b
              /\ \A r \in Arms : vis[r] # "none"
  <2>1. kind = m.kind
    BY <1>1, <1>3, <1>10 DEF CleanKinds
  <2>2. kind \notin Final
    BY <1>10, <2>1 DEF CleanKinds, Final
  <2> QED BY <2>1, <2>2 DEF Closed
<1>11. ASSUME m.kind \in CleanKinds
       PROVE  /\ \A r \in Arms : vis[r] \notin {"overflow", "failed", "events", "saturated", "none"}
              /\ \A r \in Required : vis[r] \notin Dirty
              /\ m.kind = "no_change" => now < request.logical
                                         /\ \A r \in Required : vis[r] # "deferred"
              /\ m.kind = "logical_deadman" => now >= request.logical
  <2>1. /\ kind = m.kind /\ kind = DecideKind(vis, adm, now) /\ \A r \in Arms : vis[r] # "none"
    BY <1>10, <1>11
  <2>2. /\ \A r \in Arms : vis[r] \notin {"overflow", "failed"}
        /\ \A r \in Required : vis[r] \notin Dirty
        /\ \A r \in Arms : adm[r] = <<>>
        /\ kind = "no_change" => now < request.logical /\ \A r \in Required : vis[r] # "deferred"
        /\ kind = "logical_deadman" => now >= request.logical
    BY <1>7, <1>11, <2>1, DecideTells
  <2> QED BY <1>5, <2>1, <2>2
<1>12. ASSUME m.kind \in CleanKinds
       PROVE  /\ m.events = {} /\ m.complete
              /\ \A a \in RequiredArms(m) : ~InDoubt(a)
              /\ RequiredArms(m) # {}
  <2>1. m.kind \notin Delivers
    BY <1>12 DEF CleanKinds, Delivers
  <2>2. m.events = {}
    <3>1. result.events = NoEvents
      BY <1>1, <1>2, <2>1
    <3> SUFFICES ASSUME NEW e \in m.events PROVE FALSE
      OBVIOUS
    <3>2. \E r \in result.arms : e \in EventsOf(r, result.events[r])
      <4>1. e \in UNION {EventsOf(r, result.events[r]) : r \in result.arms}
        BY <1>1, Zenon
      <4> QED BY <4>1
    <3>3. PICK r \in Arms : e \in EventsOf(r, result.events[r])
      BY <1>4, <3>2
    <3>4. result.events[r] = NoEvents[r]
      BY <3>1, Zenon
    <3> QED BY <3>3, <3>4, NoEventsNone, Zenon
  <2>3. \A r \in Required : r \in result.arms /\ vis[r] \notin Dirty
    BY <1>4, <1>7, <1>10, <1>11, <1>12
  <2>4. \A r \in Required : \E a \in reports : a.arm = r /\ ~InDoubt(a)
    <3> SUFFICES ASSUME NEW r \in Required PROVE \E a \in reports : a.arm = r /\ ~InDoubt(a)
      OBVIOUS
    <3>1. PICK a \in reports : a.arm = r
      BY <1>6, <2>3
    <3> QED BY <1>6, <2>3, <3>1
  <2>5. m.complete
    BY <1>1, <1>12, <2>4 DEF Complete
  <2>6. ASSUME NEW a \in RequiredArms(m) PROVE ~InDoubt(a)
    <3>1. a \in reports /\ a.required
      BY <1>1 DEF RequiredArms
    <3> QED BY <1>6, <2>3, <3>1
  <2>7. RequiredArms(m) # {}
    <3>1. PICK r \in Required : TRUE
      BY <1>7
    <3>2. PICK a \in reports : a.arm = r
      BY <2>4
    <3>3. a.required
      BY <1>6, <3>1, <3>2
    <3> QED BY <1>1, <3>2, <3>3 DEF RequiredArms
  <2> QED BY <2>2, <2>5, <2>6, <2>7
<1>13. ASSUME m.kind = "no_change"
       PROVE  \A a \in RequiredArms(m) : a.status = "no_change" /\ ~a.degraded
  <2> SUFFICES ASSUME NEW a \in RequiredArms(m) PROVE a.status = "no_change" /\ ~a.degraded
    OBVIOUS
  <2>1. a \in reports /\ a.required
    BY <1>1 DEF RequiredArms
  <2>2. a.arm \in Required /\ a.arm \in Arms
    BY <1>6, <2>1
  <2>3. m.kind \in CleanKinds
    BY <1>13 DEF CleanKinds
  <2>4. vis[a.arm] = "idle"
    <3>1. vis[a.arm] \in VisitKinds
      BY <1>5, <2>2
    <3>2. vis[a.arm] \notin {"overflow", "failed", "events", "saturated", "none", "deferred"}
      BY <1>11, <1>13, <2>2, <2>3
    <3>3. vis[a.arm] \notin Dirty
      BY <1>11, <2>2, <2>3
    <3> QED BY <3>1, <3>2, <3>3 DEF VisitKinds
  <2>5. Status(vis[a.arm], result.kind) = "no_change"
    BY <2>4 DEF Status
  <2> QED BY <1>6, <2>1, <2>4, <2>5
<1>14. OutcomeNormative(m)
  <2>1. m.kind = "no_change" => m.kind \in CleanKinds
    BY DEF CleanKinds
  <2>2. m.kind = "logical_deadman" => m.kind \in CleanKinds
    BY DEF CleanKinds
  <2>3. m.kind = "no_change" => AllNoChange(m)
    BY <1>12, <1>13, <2>1 DEF AllNoChange
  <2>4. m.kind = "logical_deadman" => AllVouchedFor(m)
    BY <1>12, <2>2 DEF AllVouchedFor
  <2>5. m.kind \in {"no_change", "logical_deadman"} =>
          ~ \E a \in RequiredArms(m) : InDoubt(a)
    BY <1>12, <2>1, <2>2, Zenon
  <2>6. m.completed = now /\ m.logical = request.logical
    BY <1>1, <1>2, Zenon
  <2>7. m.kind = "no_change" => m.events = {} /\ m.complete /\ m.completed < m.logical
    BY <1>11, <1>12, <2>1, <2>6
  <2>8. m.kind = "logical_deadman" => m.events = {} /\ m.complete /\ m.completed >= m.logical
    BY <1>11, <1>12, <2>2, <2>6
  <2> QED BY <2>3, <2>4, <2>5, <2>7, <2>8, Zenon DEF OutcomeNormative
<1>15. \/ m.kind \in Final \cup {"reauthentication_required"}
       \/ \A r \in Arms : Lease[r] >= m.completed
  <2>1. CASE \A r \in Arms : ~(now > Lease[r])
    <3>1. ASSUME NEW r \in Arms PROVE Lease[r] >= now
      BY <1>7, <2>1
    <3> QED BY <1>1, <1>2, <3>1
  <2> QED BY <1>1, <1>3, <2>1
<1>16. AuthnRequired /\ ~request.receipt =>
          m.kind \notin {"events", "no_change", "logical_deadman", "partial"}
  BY <1>1, <1>3 DEF Final
<1>17. m.id \in Nat /\ m.waiter = 1 /\ m.created = now /\ m.created \in Nat /\ m.completed = m.created
  BY <1>1, <1>2, <1>7
<1>18. \A a \in m.arms : a.arm \in Arms
  BY <1>1, <1>6
<1>19. Vouched(m)
  BY <1>8, <1>9, <1>14, <1>15, <1>17, <1>18, Zenon DEF Vouched
<1> QED BY <1>1, <1>16, <1>17, <1>19, Zenon

-----------------------------------------------------------------------------
(* What a step of the runner does to the visits and the outcome. *)

\* The answers that are recorded when the arms b are bound.
Asked(ans, b) ==
    \/ ans = RaceAnswers /\ b = bound /\ \A r \in Arms : ans[r] # "error"
    \/ ans = ReadyAnswers(b) /\ b = bound \cup Binding
    \/ ans = ReadyAnswers(Pending) /\ b = bound

\* The visits and the events, as they are or with new answers recorded.
Stage(v, a, b) ==
    \/ v = visits /\ a = admitted /\ b = bound
    \/ \E ans : Asked(ans, b) /\ v = Recorded(ans) /\ a = Admitted(ans)

Proceeds ==
    /\ pc' # "idle"
    /\ idle' = idle \/ idle' = {r \in Pending : RaceAnswers[r] = "idle"}
    /\ UNCHANGED <<bound, visits, admitted, outcome>>
Records ==
    /\ pc' = "top" /\ idle' = {} /\ outcome' = outcome
    /\ \E ans : Asked(ans, bound') /\ visits' = Recorded(ans) /\ admitted' = Admitted(ans)
Fails == pc' = "idle" /\ idle' = {} /\ outcome'.kind \in Silent

\* Called off, or with the kind that was decided for visits to every arm.
Judged(kind, v, a, vis, b) ==
    \/ kind \in Final /\ vis \in {v, FilledVisits(v, a)}
    \/ /\ kind = DecideKind(vis, a, now)
       /\ \/ vis = FilledVisits(v, a) /\ Required \subseteq b
          \/ vis = v /\ \A r \in Arms : v[r] # "none"
Reports ==
    /\ pc' = "idle" /\ idle' = {}
    /\ \E kind, v, a : /\ Stage(v, a, bound')
                       /\ Judged(kind, v, a, visits', bound')
                       /\ outcome' = Report(kind, a, bound', now)

LEMMA NoOutcomeIsSilent ==
    NoOutcome("error").kind \in Silent /\ NoOutcome("abandoned").kind \in Silent
    /\ NoOutcome("none").kind \in Silent
BY DEF NoOutcome, Silent

LEMMA EmitEnds ==
    ASSUME NEW result, NEW q, NEW adm, NEW vis, Emit(result, q, adm, vis)
    PROVE  /\ pc' = "idle" /\ idle' = {} /\ committed' = committed
           /\ (outcome' = result /\ visits' = vis) \/ outcome' = NoOutcome("error")
<1>1. Conclude(result, vis, FALSE) \/ Conclude(NoOutcome("error"), vis, TRUE)
  BY Zenon DEF Emit
<1> QED BY <1>1 DEF Conclude

LEMMA FailureEnds ==
    ASSUME NEW vis, NEW lost, Conclude(NoOutcome("error"), vis, lost)
    PROVE  Fails /\ committed' = committed
BY NoOutcomeIsSilent DEF Conclude, Fails

LEMMA EmitReports ==
    ASSUME NEW kind, NEW v, NEW a, NEW q, NEW vis, Stage(v, a, bound'),
           Judged(kind, v, a, vis, bound'), Emit(Report(kind, a, bound', now), q, a, vis)
    PROVE  (Reports \/ Fails) /\ committed' = committed
<1> DEFINE report == Report(kind, a, bound', now)
<1>1. Emit(report, q, a, vis)
  OBVIOUS
<1> HIDE DEF report
<1>2. /\ pc' = "idle" /\ idle' = {} /\ committed' = committed
      /\ (outcome' = report /\ visits' = vis) \/ outcome' = NoOutcome("error")
  BY <1>1, EmitEnds
<1>3. CASE outcome' = report /\ visits' = vis
  BY <1>2, <1>3, Zenon DEF Reports, report
<1>4. CASE outcome' = NoOutcome("error")
  BY <1>2, <1>4, NoOutcomeIsSilent DEF Fails
<1> QED BY <1>2, <1>3, <1>4

LEMMA EmitFails ==
    ASSUME NEW vis, Emit(NoOutcome("error"), queue, admitted, vis)
    PROVE  Fails /\ committed' = committed
<1> DEFINE none == NoOutcome("error")
<1>1. Emit(none, queue, admitted, vis) /\ none.kind \in Silent
  BY NoOutcomeIsSilent
<1> HIDE DEF none
<1>2. pc' = "idle" /\ idle' = {} /\ committed' = committed /\ (outcome' = none \/ outcome' = NoOutcome("error"))
  BY <1>1, EmitEnds
<1> QED BY <1>1, <1>2, NoOutcomeIsSilent DEF Fails

LEMMA GoOnSteps ==
    ASSUME NEW ans, Asked(ans, bound'), Record(ans, GoOn(ans, bound'))
    PROVE  (Records \/ Reports \/ Fails) /\ committed' = committed
<1> DEFINE over == \A r \in Arms : Recorded(ans)[r] # "none"
           kind == DecideKind(Recorded(ans), Admitted(ans), now)
<1>1. CASE GoOn(ans, bound') /\ over
  <2>1. Emit(Report(kind, Admitted(ans), bound', now), QueueAfter(ans), Admitted(ans), Recorded(ans))
    BY <1>1, Zenon DEF GoOn
  <2>2. Stage(Recorded(ans), Admitted(ans), bound')
    BY Zenon DEF Stage
  <2>3. Judged(kind, Recorded(ans), Admitted(ans), Recorded(ans), bound')
    BY <1>1, Zenon DEF Judged
  <2> HIDE DEF kind
  <2> QED BY <2>1, <2>2, <2>3, EmitReports
<1>2. CASE GoOn(ans, bound') /\ ~over
  <2>1. /\ pc' = "top" /\ idle' = {} /\ visits' = Recorded(ans) /\ admitted' = Admitted(ans)
        /\ UNCHANGED <<outcome, callerVars>>
    BY <1>2, Zenon DEF GoOn
  <2>2. outcome' = outcome /\ committed' = committed
    BY <2>1 DEF callerVars
  <2> QED BY <2>1, <2>2, Zenon DEF Records
<1>3. CASE \E f \in {r \in Returned(ans) : RestoreCanFail} :
             queue' = QueueAtFailure(ans, f) /\ Conclude(NoOutcome("error"), visits, TRUE)
  BY <1>3, FailureEnds, Zenon
<1> QED BY <1>1, <1>2, <1>3, Zenon DEF Record

LEMMA DeadlineJudged ==
    ASSUME NEW v, NEW a
    PROVE  Judged(DeadlineKind(v, a, now), v, a, DeadlineVisits(v, a), bound)
<1>1. CASE Required \subseteq bound
  <2>1. /\ DeadlineKind(v, a, now) = DecideKind(FilledVisits(v, a), a, now)
        /\ DeadlineVisits(v, a) = FilledVisits(v, a)
    BY <1>1, Zenon DEF DeadlineKind, DeadlineVisits
  <2> QED BY <1>1, <2>1, Zenon DEF Judged
<1>2. CASE ~(Required \subseteq bound)
  <2>1. DeadlineKind(v, a, now) = "failed" /\ DeadlineVisits(v, a) = v
    BY <1>2, Zenon DEF DeadlineKind, DeadlineVisits
  <2> QED BY <2>1, Zenon DEF Judged, Final
<1> QED BY <1>1, <1>2

LEMMA TopSteps ==
    ASSUME TopCancelled \/ TopDeadline \/ TopSelect \/ PollCancel
    PROVE  (Proceeds \/ Records \/ Reports \/ Fails) /\ committed' = committed
<1>1. Stage(visits, admitted, bound) /\ visits \in {visits, FilledVisits(visits, admitted)}
  BY Zenon DEF Stage
<1>2. Judged("cancelled", visits, admitted, visits, bound)
  BY <1>1 DEF Judged, Final
<1>3. CASE Emit(Report("cancelled", admitted, bound, now), queue, admitted, visits) /\ bound' = bound
  BY <1>1, <1>2, <1>3, EmitReports
<1>4. CASE TopDeadline
  <2> DEFINE kind == DeadlineKind(visits, admitted, now)
             vis == DeadlineVisits(visits, admitted)
  <2>1. Emit(Report(kind, admitted, bound, now), queue, admitted, vis) /\ bound' = bound
    BY <1>4 DEF TopDeadline
  <2>2. Judged(kind, visits, admitted, vis, bound)
    BY DeadlineJudged
  <2> HIDE DEF kind, vis
  <2> QED BY <1>1, <2>1, <2>2, EmitReports
<1>5. CASE TopSelect
  BY <1>5 DEF TopSelect, Proceeds, FirstBranch, callerVars
<1>6. CASE PollCancel /\ ~CancelSeen
  <2>1. pc' = "sleep" /\ UNCHANGED <<queue, callerVars, idle, visits, admitted, outcome, bound>>
    BY <1>6 DEF PollCancel
  <2> QED BY <2>1 DEF Proceeds, callerVars
<1>7. CASE PollCancel /\ CancelSeen
  <2>1. Emit(Report("cancelled", admitted, bound, now), queue, admitted, visits) /\ bound' = bound
    BY <1>7 DEF PollCancel
  <2> QED BY <1>3, <2>1
<1>8. CASE TopCancelled
  <2>1. Emit(Report("cancelled", admitted, bound, now), queue, admitted, visits) /\ bound' = bound
    BY <1>8 DEF TopCancelled
  <2> QED BY <1>3, <2>1
<1> QED BY <1>4, <1>5, <1>6, <1>7, <1>8

LEMMA ObserveSteps ==
    ASSUME ObserveCompletes \/ ObserveFails \/ ObservePending
    PROVE  (Proceeds \/ Records \/ Reports \/ Fails) /\ committed' = committed
<1>1. CASE ObserveCompletes
  <2> DEFINE ans == RaceAnswers
  <2>1. Record(ans, GoOn(ans, bound)) /\ bound' = bound /\ \A r \in Arms : ans[r] # "error"
    BY <1>1 DEF ObserveCompletes
  <2>2. Asked(ans, bound')
    BY <2>1, Zenon DEF Asked
  <2> HIDE DEF ans
  <2>3. Record(ans, GoOn(ans, bound'))
    BY <2>1
  <2> QED BY <2>2, <2>3, GoOnSteps
<1>2. CASE ObserveFails
  <2>1. \/ Emit(NoOutcome("error"), queue, admitted, visits)
        \/ Conclude(NoOutcome("error"), visits, TRUE)
    BY <1>2, Zenon DEF ObserveFails
  <2> QED BY <2>1, EmitFails, FailureEnds, Zenon
<1>3. CASE ObservePending
  BY <1>3 DEF ObservePending, Proceeds, callerVars
<1> QED BY <1>1, <1>2, <1>3

LEMMA BindSteps ==
    ASSUME BindCompletes \/ BindFails \/ BindPending
    PROVE  (Proceeds \/ Records \/ Reports \/ Fails) /\ committed' = committed
<1>1. CASE BindCompletes
  <2> DEFINE binds == bound \cup Binding
             ans == ReadyAnswers(binds)
  <2>1. Record(ans, GoOn(ans, binds)) /\ bound' = binds
    BY <1>1 DEF BindCompletes
  <2>2. Asked(ans, bound')
    BY <2>1, Zenon DEF Asked
  <2> HIDE DEF ans, binds
  <2>3. Record(ans, GoOn(ans, bound'))
    BY <2>1
  <2> QED BY <2>2, <2>3, GoOnSteps
<1>2. CASE BindFails
  <2>1. Emit(NoOutcome("error"), queue, admitted, visits)
    BY <1>2, Zenon DEF BindFails
  <2> QED BY <2>1, EmitFails, Zenon
<1>3. CASE BindPending
  BY <1>3 DEF BindPending, Proceeds, callerVars
<1> QED BY <1>1, <1>2, <1>3

LEMMA SleepSteps ==
    ASSUME SleepCompletes \/ SleepPending
    PROVE  (Proceeds \/ Records \/ Reports \/ Fails) /\ committed' = committed
<1>1. CASE SleepCompletes
  <2> DEFINE ans == ReadyAnswers(Pending)
             v == Recorded(ans)
             a == Admitted(ans)
             vis == DeadlineVisits(v, a)
             kind == DeadlineKind(v, a, now)
  <2>1. bound' = bound
    BY <1>1 DEF SleepCompletes
  <2>2. Stage(v, a, bound)
    BY Zenon DEF Stage, Asked
  <2>3. Judged(kind, v, a, vis, bound)
    BY DeadlineJudged, Zenon
  <2>4. \/ Emit(Report(kind, a, bound, now), QueueAfter(ans), a, vis)
        \/ \E f \in {r \in Returned(ans) : RestoreCanFail} :
             queue' = QueueAtFailure(ans, f) /\ Conclude(NoOutcome("error"), visits, TRUE)
    BY <1>1, Zenon DEF SleepCompletes, Record
  <2>5. CASE Emit(Report(kind, a, bound, now), QueueAfter(ans), a, vis)
    <3> HIDE DEF kind, vis, v, a, ans
    <3> QED BY <2>1, <2>2, <2>3, <2>5, EmitReports
  <2>6. CASE \E f \in {r \in Returned(ans) : RestoreCanFail} :
               queue' = QueueAtFailure(ans, f) /\ Conclude(NoOutcome("error"), visits, TRUE)
    BY <2>6, FailureEnds, Zenon
  <2> QED BY <2>4, <2>5, <2>6, Zenon
<1>2. CASE SleepPending
  BY <1>2 DEF SleepPending, Proceeds, callerVars, FirstBranch
<1> QED BY <1>1, <1>2

LEMMA RunnerSteps ==
    ASSUME Runner
    PROVE  /\ pc # "idle"
           /\ UNCHANGED <<now, arrived, signal, request, cycles, committed>>
           /\ Proceeds \/ Records \/ Reports \/ Fails
<1>1. (Proceeds \/ Records \/ Reports \/ Fails) /\ committed' = committed
  BY TopSteps, ObserveSteps, BindSteps, SleepSteps, Zenon DEF Runner
<1>2. pc # "idle" /\ UNCHANGED <<now, arrived, signal, request, cycles>>
  <2>1. CASE TopCancelled \/ TopDeadline \/ TopSelect \/ PollCancel
    BY <2>1 DEF TopCancelled, TopDeadline, TopSelect, PollCancel, seamVars, observerVars
  <2>2. CASE ObserveCompletes \/ ObserveFails \/ ObservePending
    BY <2>2 DEF ObserveCompletes, ObserveFails, ObservePending, seamVars, observerVars
  <2>3. CASE BindCompletes \/ BindFails \/ BindPending
    BY <2>3 DEF BindCompletes, BindFails, BindPending, seamVars, observerVars
  <2>4. CASE SleepCompletes \/ SleepPending
    BY <2>4 DEF SleepCompletes, SleepPending, seamVars, observerVars
  <2> QED BY <2>1, <2>2, <2>3, <2>4, Zenon DEF Runner
<1> QED BY <1>1, <1>2

-----------------------------------------------------------------------------
(* What the visits say. *)

\* What the caller has been shown without an ack is there to be taken again.
LEMMA OfferedTells ==
    ASSUME Replayed, NoAcks, NEW r \in Arms, NEW n \in Event, Offered(r, n)
    PROVE  /\ committed[r] = 0 /\ n \in 1..arrived[r]
           /\ MaxTake > 0 /\ MaxTakeOf[r] > 0 /\ 1 \notin Oversized[r]
<1>1. PICK i \in 1..Len(docs) : IsOutcome(i) /\ <<r, n>> \in docs[i].events
  BY DEF Offered
<1>2. PICK s \in Arms : \E m \in 1..arrived[s] : /\ <<r, n>> = <<s, m>>
                                                 /\ MaxTake > 0 /\ MaxTakeOf[s] > 0
                                                 /\ 1 \notin Oversized[s]
  BY <1>1 DEF Replayed
<1>3. r = s /\ \E m \in 1..arrived[s] : n = m
  BY <1>2
<1> QED BY <1>2, <1>3 DEF Replayed

LEMMA DueTells ==
    ASSUME signal \in [Arms -> Signals \cup {"none", "idle"}], NEW r \in Arms
    PROVE  /\ Due(r) \in {"none", "event"} \cup AllSignals
           /\ Due(r) = "event" => queue[r] # <<>>
           /\ Due(r) = "none" => queue[r] = <<>>
           /\ Due(r) = "error" => "error" \in Signals
           /\ ReadyAnswer(r) \in {"none", "event"} \cup (AllSignals \ {"error"})
           /\ ReadyAnswer(r) = "event" => queue[r] # <<>>
           /\ ReadyAnswer(r) = "none" => queue[r] = <<>> \/ "error" \in Signals
           /\ NextAnswer(r) \in {"none", "event", "idle"} \cup AllSignals
           /\ NextAnswer(r) = "event" => queue[r] # <<>>
           /\ NextAnswer(r) = "idle" => queue[r] = <<>>
<1>1. signal[r] \in Signals \cup {"none", "idle"}
  OBVIOUS
<1>2. /\ Due(r) \in {"none", "event"} \cup AllSignals
      /\ Due(r) = "event" => queue[r] # <<>>
      /\ Due(r) = "none" => queue[r] = <<>>
      /\ Due(r) = "error" => "error" \in Signals
  BY <1>1 DEF Due, AllSignals
<1>3. "event" \notin AllSignals /\ "idle" \notin AllSignals /\ "none" \notin AllSignals
  BY DEF AllSignals
<1>4. /\ ReadyAnswer(r) = IF Due(r) = "error" THEN "none" ELSE Due(r)
      /\ NextAnswer(r) = IF Due(r) = "none" /\ signal[r] = "idle" THEN "idle" ELSE Due(r)
  BY DEF ReadyAnswer, NextAnswer
<1> QED BY <1>2, <1>3, <1>4

LEMMA AnswersTell ==
    ASSUME Visiting, NEW ans, NEW b, Asked(ans, b)
    PROVE  /\ b \subseteq Arms /\ bound \subseteq b
           /\ \A r \in Arms : /\ ans[r] \in {"none", "event", "idle"} \cup (AllSignals \ {"error"})
                              /\ ans[r] # "none" => r \in b
                              /\ ans[r] = "event" => queue[r] # <<>>
                              /\ ans[r] = "idle" => queue[r] = <<>> \/ r \in idle
                              /\ ans[r] = "none" /\ r \in b /\ "error" \notin Signals =>
                                   r \in bound \/ queue[r] = <<>>
<1>1. signal \in [Arms -> Signals \cup {"none", "idle"}] /\ bound \subseteq Arms /\ idle \subseteq bound
  BY DEF Visiting
<1>2. CASE ans = RaceAnswers /\ b = bound /\ \A r \in Arms : ans[r] # "error"
  <2> SUFFICES ASSUME NEW r \in Arms
               PROVE  /\ ans[r] \in {"none", "event", "idle"} \cup (AllSignals \ {"error"})
                      /\ ans[r] # "none" => r \in b
                      /\ ans[r] = "event" => queue[r] # <<>>
                      /\ ans[r] = "idle" => queue[r] = <<>> \/ r \in idle
    BY <1>1, <1>2
  <2>1. ans[r] = IF r \in idle THEN "idle" ELSE IF r \in Pending THEN NextAnswer(r) ELSE "none"
    BY <1>2 DEF RaceAnswers
  <2>2. r \in Pending => r \in bound
    BY DEF Pending
  <2> QED BY <1>1, <1>2, <2>1, <2>2, DueTells
<1>3. ASSUME NEW S, ans = ReadyAnswers(S), S \subseteq b, bound \subseteq b, b \subseteq Arms,
             S = b \/ b = bound
      PROVE  \A r \in Arms :
                /\ ans[r] \in {"none", "event", "idle"} \cup (AllSignals \ {"error"})
                /\ ans[r] # "none" => r \in b
                /\ ans[r] = "event" => queue[r] # <<>>
                /\ ans[r] = "idle" => queue[r] = <<>> \/ r \in idle
                /\ ans[r] = "none" /\ r \in b /\ "error" \notin Signals =>
                     r \in bound \/ queue[r] = <<>>
  <2> SUFFICES ASSUME NEW r \in Arms
               PROVE  /\ ans[r] \in {"none", "event"} \cup (AllSignals \ {"error"})
                      /\ ans[r] # "none" => r \in b
                      /\ ans[r] = "event" => queue[r] # <<>>
                      /\ ans[r] = "none" /\ r \in b /\ "error" \notin Signals =>
                           r \in bound \/ queue[r] = <<>>
    BY DEF AllSignals
  <2>1. ans[r] = IF r \in S THEN ReadyAnswer(r) ELSE "none"
    BY <1>3 DEF ReadyAnswers
  <2> QED BY <1>1, <1>3, <2>1, DueTells
<1>4. CASE ans = ReadyAnswers(b) /\ b = bound \cup Binding
  <2>1. b \subseteq Arms /\ bound \subseteq b
    BY <1>1, <1>4 DEF Binding
  <2> QED BY <1>3, <1>4, <2>1
<1>5. CASE ans = ReadyAnswers(Pending) /\ b = bound
  <2>1. Pending \subseteq b
    BY <1>5 DEF Pending
  <2> QED BY <1>1, <1>3, <1>5, <2>1
<1> QED BY <1>2, <1>4, <1>5, Zenon DEF Asked

\* The state of an arm's events in a running cycle that has no acks before it.
LEMMA StageParts ==
    ASSUME Inv, Budget, pc # "idle", NEW v, NEW a, NEW b, Stage(v, a, b)
    PROVE  /\ Bounded(a)
           /\ \A r \in Arms : /\ RunTo(a[r], committed[r] + Len(a[r]))
                              /\ Len(a[r]) \in Nat /\ committed[r] + Len(a[r]) <= arrived[r]
<1>1. ASSUME NEW q, NEW r \in Arms, Parted(q[r], a[r], r)
      PROVE  /\ RunTo(a[r], committed[r] + Len(a[r]))
             /\ Len(a[r]) \in Nat /\ committed[r] + Len(a[r]) <= arrived[r]
  <2>1. /\ RunTo(a[r], committed[r] + Len(a[r])) /\ RunTo(q[r], arrived[r])
        /\ arrived[r] - Len(q[r]) = committed[r] + Len(a[r])
    BY <1>1 DEF Parted
  <2>2. Len(a[r]) \in Nat /\ Len(q[r]) \in Nat
    BY <2>1, LenProperties DEF RunTo
  <2>3. arrived[r] \in Nat /\ committed[r] \in Nat
    BY Known
  <2> QED BY <2>1, <2>2, <2>3
<1>2. CASE a = admitted
  BY <1>1, <1>2, KnownParts DEF Budget
<1>3. CASE \E ans : a = Admitted(ans)
  BY <1>1, <1>3, TakeParted, TakesWithin
<1> QED BY <1>2, <1>3, Zenon DEF Stage

LEMMA VisitIs ==
    ASSUME NEW ans, NEW r \in Arms
    PROVE  /\ visits[r] # "none" => Recorded(ans)[r] = visits[r]
           /\ visits[r] = "none" /\ ans[r] # "event" => Recorded(ans)[r] = ans[r]
           /\ visits[r] = "none" /\ ans[r] = "event" =>
                /\ Fresh(ans, r)
                /\ Taken(ans, r) = 0 => Recorded(ans)[r] = "deferred"
                /\ Taken(ans, r) # 0 => Recorded(ans)[r] \in {"saturated", "events"}
                /\ Recorded(ans)[r] = "events" => ~(Taken(ans, r) < Len(queue[r]))
<1>1. Recorded(ans)[r] = VisitOf(ans, r)
  BY DEF Recorded
<1> QED BY <1>1 DEF VisitOf, Fresh

LEMMA StageNoted ==
    ASSUME Inv, Visiting, pc # "idle", NEW v, NEW a, NEW b, Stage(v, a, b)
    PROVE  Noted(v, a, b) /\ b \subseteq Arms /\ bound \subseteq b
<1>1. Noted(visits, admitted, bound) /\ bound \subseteq Arms
  BY DEF Visiting
<1>2. ASSUME NEW ans, Asked(ans, b), v = Recorded(ans), a = Admitted(ans)
      PROVE  Noted(v, a, b) /\ b \subseteq Arms /\ bound \subseteq b
  <2>1. b \subseteq Arms /\ bound \subseteq b
    BY <1>2, AnswersTell
  <2>2. ASSUME NEW r \in Arms
        PROVE  /\ v[r] \in VisitKinds /\ (v[r] # "none" => r \in b)
               /\ v[r] \in {"events", "saturated"} => a[r] # <<>>
    <3>1. /\ visits[r] \in VisitKinds /\ (visits[r] # "none" => r \in bound)
          /\ visits[r] \in {"events", "saturated"} => admitted[r] # <<>>
      BY <1>1 DEF Noted
    <3>2. /\ ans[r] \in {"none", "event", "idle"} \cup (AllSignals \ {"error"})
          /\ ans[r] # "none" => r \in b
      BY <1>2, AnswersTell
    <3>3. /\ Len(a[r]) = Len(admitted[r]) + Taken(ans, r) /\ Taken(ans, r) \in Nat
          /\ Len(admitted[r]) \in Nat /\ admitted[r] \in Seq(Event)
      BY <1>2, TakeParted, KnownParts
    <3>4. CASE visits[r] # "none"
      <4>1. v[r] = visits[r]
        BY <1>2, <3>4, VisitIs
      <4>2. admitted[r] # <<>> => a[r] # <<>>
        <5> SUFFICES ASSUME admitted[r] # <<>>, a[r] = <<>> PROVE FALSE
          OBVIOUS
        <5>1. Len(a[r]) = 0 /\ Len(admitted[r]) # 0
          BY <3>3, EmptySeq
        <5> QED BY <3>3, <5>1
      <4> QED BY <2>1, <3>1, <4>1, <4>2
    <3>5. CASE visits[r] = "none" /\ ans[r] # "event"
      <4>1. v[r] = ans[r]
        BY <1>2, <3>5, VisitIs
      <4>2. ans[r] \in VisitKinds /\ ans[r] \notin {"events", "saturated"}
        BY <3>2, <3>5 DEF VisitKinds, Dirty, AllSignals
      <4> QED BY <3>2, <4>1, <4>2
    <3>6. CASE visits[r] = "none" /\ ans[r] = "event"
      <4>1. /\ Taken(ans, r) = 0 => v[r] = "deferred"
            /\ Taken(ans, r) # 0 => v[r] \in {"saturated", "events"}
        BY <1>2, <3>6, VisitIs
      <4>2. Taken(ans, r) # 0 => a[r] # <<>>
        <5> SUFFICES ASSUME Taken(ans, r) # 0, a[r] = <<>> PROVE FALSE
          OBVIOUS
        <5>1. Len(a[r]) = 0
          OBVIOUS
        <5> QED BY <3>3, <5>1
      <4>3. v[r] \in VisitKinds
        BY <4>1 DEF VisitKinds
      <4> QED BY <3>2, <3>6, <4>1, <4>2, <4>3
    <3> QED BY <3>4, <3>5, <3>6
  <2> QED BY <2>1, <2>2 DEF Noted
<1> QED BY <1>1, <1>2, Zenon DEF Stage

\* An arm is deferred with an event it could take only when others had more.
LEMMA DeferredForOthers ==
    ASSUME Inv, pc # "idle", NEW ans, NEW r \in Arms, Fresh(ans, r), Taken(ans, r) = 0,
           Len(queue[r]) > 0, queue[r][1] \notin Oversized[r], MaxTake > 0, MaxTakeOf[r] > 0
    PROVE  \E s \in Arms : Admitted(ans)[s] # <<>>
<1> SUFFICES ASSUME \A s \in Arms : Admitted(ans)[s] = <<>> PROVE FALSE
  OBVIOUS
<1>1. /\ N \in Nat \ {0} /\ request.cursor \in Arms /\ MaxTake \in Nat /\ MaxTakeOf \in [Arms -> Nat]
      /\ \A s \in Arms : Len(queue[s]) \in Nat /\ Len(admitted[s]) \in Nat
  BY Known, KnownParts, PollCycleAssumption
<1> DEFINE k == Place(r) - 1
           f == Gained(ans, k)
<1>2. k \in 0..N /\ SpentBefore(ans, r) = SpentAfter(ans)[k]
  BY <1>1, PlaceIs DEF SpentBefore
<1>3. \A s \in Arms : Len(admitted[s]) = 0 /\ Taken(ans, s) = 0
  <2> SUFFICES ASSUME NEW s \in Arms PROVE Len(admitted[s]) = 0 /\ Taken(ans, s) = 0
    OBVIOUS
  <2>1. /\ Len(Admitted(ans)[s]) = Len(admitted[s]) + Taken(ans, s)
        /\ Taken(ans, s) \in 0..Len(queue[s])
    BY TakeParted
  <2>2. Len(Admitted(ans)[s]) = 0
    OBVIOUS
  <2> QED BY <1>1, <2>1, <2>2
<1>4. \A s \in 1..N : f[s] = 0
  BY <1>3 DEF Gained, Arms
<1>5. SpentBefore(ans, r) = 0
  <2>1. SpentAfter(ans)[k] = Total(f, N)
    BY <1>1, <1>2, SpentAfterIsTotal
  <2> HIDE DEF k, f
  <2>2. Total(f, N) = 0
    BY <1>1, <1>4, TotalOfNothing
  <2> QED BY <1>2, <2>1, <2>2
<1>6. \A j \in Taken(ans, r) + 1 .. Len(queue[r]) : ~Affords(r, SpentBefore(ans, r), j)
  BY <1>1, TakenTells
<1>7. 1 \in 1..Len(queue[r]) /\ 0 + 1 = 1
  BY <1>1
<1>8. ~Affords(r, 0, 1)
  BY <1>5, <1>6, <1>7
<1>9. Affords(r, 0, 1)
  <2>1. 0 + 1 <= MaxTake /\ 1 <= MaxTakeOf[r]
    BY <1>1
  <2>2. \A i \in 1..1 : queue[r][i] \notin Oversized[r]
    <3>1. \A i \in 1..1 : i = 1
      OBVIOUS
    <3> QED BY <3>1
  <2> QED BY <2>1, <2>2 DEF Affords
<1> QED BY <1>8, <1>9

LEMMA StageAnswered ==
    ASSUME Inv, Budget, Visiting, Replayed, NoAcks, pc # "idle",
           NEW v, NEW a, NEW b, Stage(v, a, b)
    PROVE  Answered(v, a, b)
<1>1. /\ Answered(visits, admitted, bound) /\ bound \subseteq Arms
      /\ \A r \in idle : \A n \in Event : ~Offered(r, n)
  BY DEF Visiting
<1>2. ASSUME NEW ans, Asked(ans, b), v = Recorded(ans), a = Admitted(ans),
             NEW r \in Arms, NEW n \in Event, Offered(r, n)
      PROVE  /\ v[r] = "none" /\ "error" \notin Signals => r \notin b
             /\ v[r] # "idle"
             /\ v[r] = "deferred" => \E s \in Arms : a[s] # <<>>
             /\ v[r] = "events" => n \in Listed(a[r])
  <2>1. /\ committed[r] = 0 /\ n \in 1..arrived[r]
        /\ MaxTake > 0 /\ MaxTakeOf[r] > 0 /\ 1 \notin Oversized[r]
    BY <1>2, OfferedTells
  <2>2. /\ visits[r] = "none" /\ "error" \notin Signals => r \notin bound
        /\ visits[r] # "idle"
        /\ visits[r] = "deferred" => \E s \in Arms : admitted[s] # <<>>
        /\ visits[r] = "events" => n \in Listed(admitted[r])
        /\ r \notin idle
    BY <1>1, <1>2 DEF Answered
  <2>3. \A s \in Arms : /\ Parted(QueueAfter(ans)[s], a[s], s)
                        /\ Len(a[s]) = Len(admitted[s]) + Taken(ans, s)
                        /\ Taken(ans, s) \in 0..Len(queue[s])
                        /\ Parted(queue[s], admitted[s], s)
                        /\ Len(queue[s]) \in Nat /\ Len(admitted[s]) \in Nat
                        /\ admitted[s] \in Seq(Event)
    BY <1>2, TakeParted, KnownParts
  <2>4. /\ ans[r] \in {"none", "event", "idle"} \cup (AllSignals \ {"error"})
        /\ ans[r] = "idle" => queue[r] = <<>> \/ r \in idle
        /\ ans[r] = "none" /\ r \in b /\ "error" \notin Signals => r \in bound \/ queue[r] = <<>>
    BY <1>2, AnswersTell
  <2>5. arrived[r] \in Nat
    BY Known
  <2>6. Listed(a[r]) = 1..Len(a[r]) /\ Listed(admitted[r]) = 1..Len(admitted[r])
    <3>1. /\ Listed(a[r]) = committed[r] + 1 .. committed[r] + Len(a[r])
          /\ Listed(admitted[r]) = committed[r] + 1 .. committed[r] + Len(admitted[r])
          /\ Len(a[r]) \in Nat /\ Len(admitted[r]) \in Nat
      BY <2>3, AdmittedAre
    <3> QED BY <2>1, <3>1
  <2>7. CASE visits[r] # "none"
    <3>1. v[r] = visits[r]
      BY <1>2, <2>7, VisitIs
    <3>2. ASSUME NEW s \in Arms, admitted[s] # <<>> PROVE a[s] # <<>>
      <4> SUFFICES ASSUME a[s] = <<>> PROVE FALSE
        OBVIOUS
      <4>1. Len(a[s]) = 0
        OBVIOUS
      <4>2. Len(admitted[s]) = 0
        BY <2>3, <4>1
      <4> QED BY <2>3, <3>2, <4>2, EmptySeq
    <3>3. n \in Listed(admitted[r]) => n \in Listed(a[r])
      BY <2>3, <2>6
    <3> QED BY <2>2, <2>7, <3>1, <3>2, <3>3
  <2>8. CASE visits[r] = "none"
    <3>1. admitted[r] = <<>> /\ Len(admitted[r]) = 0
      BY <2>8 DEF Budget
    <3>2. Len(queue[r]) = arrived[r] /\ Len(queue[r]) > 0 /\ queue[r][1] = 1
      <4>1. /\ arrived[r] - Len(queue[r]) = committed[r] + Len(admitted[r])
            /\ \A i \in 1..Len(queue[r]) : queue[r][i] = arrived[r] - Len(queue[r]) + i
        BY <2>3 DEF Parted, RunTo
      <4>2. Len(queue[r]) = arrived[r] /\ Len(queue[r]) > 0 /\ 1 \in 1..Len(queue[r])
        BY <2>1, <2>3, <2>5, <3>1, <4>1
      <4>3. queue[r][1] = arrived[r] - Len(queue[r]) + 1
        BY <4>1, <4>2
      <4> QED BY <2>3, <4>2, <4>3
    <3>3. queue[r] # <<>>
      <4>1. Len(<<>>) = 0
        OBVIOUS
      <4> QED BY <3>2, <4>1
    <3>4. CASE ans[r] # "event"
      <4>1. v[r] = ans[r]
        BY <1>2, <2>8, <3>4, VisitIs
      <4>2. ans[r] \notin {"idle", "deferred", "events"}
        BY <2>2, <2>4, <3>3 DEF AllSignals
      <4>3. ans[r] = "none" /\ "error" \notin Signals => r \notin b
        BY <2>2, <2>4, <2>8, <3>3
      <4> QED BY <4>1, <4>2, <4>3
    <3>5. CASE ans[r] = "event"
      <4>1. /\ Fresh(ans, r)
            /\ Taken(ans, r) = 0 => v[r] = "deferred"
            /\ Taken(ans, r) # 0 => v[r] \in {"saturated", "events"}
            /\ v[r] = "events" => ~(Taken(ans, r) < Len(queue[r]))
        BY <1>2, <2>8, <3>5, VisitIs
      <4>2. ASSUME Taken(ans, r) = 0 PROVE \E s \in Arms : a[s] # <<>>
        BY <1>2, <2>1, <3>2, <4>1, <4>2, DeferredForOthers
      <4>3. v[r] = "events" => n \in Listed(a[r])
        BY <2>1, <2>3, <2>5, <2>6, <3>1, <3>2, <4>1
      <4>4. v[r] \in {"deferred", "saturated", "events"}
        BY <4>1
      <4>5. v[r] = "deferred" => Taken(ans, r) = 0
        BY <4>1
      <4> QED BY <4>2, <4>3, <4>4, <4>5
    <3> QED BY <3>4, <3>5
  <2> QED BY <2>7, <2>8
<1>3. CASE \E ans : Asked(ans, b) /\ v = Recorded(ans) /\ a = Admitted(ans)
  BY <1>2, <1>3, Zenon DEF Answered
<1>4. CASE v = visits /\ a = admitted /\ b = bound
  BY <1>1, <1>4
<1> QED BY <1>3, <1>4, Zenon DEF Stage

\* However it ends, an outcome closes its visits.
LEMMA ClosedBy ==
    ASSUME Inv, Visiting, pc # "idle", NEW kind, NEW v, NEW a, NEW vis, NEW b,
           Stage(v, a, b), Judged(kind, v, a, vis, b)
    PROVE  Closed(kind, a, vis, b)
<1>1. Noted(v, a, b) /\ Required \subseteq Arms
  BY StageNoted, SeamAssumption
<1>2. ASSUME NEW r \in Arms
      PROVE  /\ v[r] \in VisitKinds /\ (v[r] # "none" => r \in b)
             /\ v[r] \in {"events", "saturated"} => a[r] # <<>>
             /\ FilledVisits(v, a)[r] \in VisitKinds \ {"none"}
             /\ FilledVisits(v, a)[r] \in {"events", "saturated"} => a[r] # <<>>
  <2>1. /\ v[r] \in VisitKinds /\ (v[r] # "none" => r \in b)
        /\ v[r] \in {"events", "saturated"} => a[r] # <<>>
    BY <1>1 DEF Noted
  <2>2. \/ FilledVisits(v, a)[r] = v[r] /\ v[r] # "none"
        \/ FilledVisits(v, a)[r] \in {"deferred", "idle"}
    BY DEF FilledVisits
  <2> QED BY <2>1, <2>2 DEF VisitKinds
<1>3. CASE kind \in Final /\ vis \in {v, FilledVisits(v, a)}
  <2> HIDE DEF FilledVisits
  <2> QED BY <1>2, <1>3 DEF Closed
<1>4. CASE kind = DecideKind(vis, a, now) /\ vis = FilledVisits(v, a) /\ Required \subseteq b
  BY <1>2, <1>4 DEF Closed
<1>5. CASE kind = DecideKind(vis, a, now) /\ vis = v /\ \A r \in Arms : v[r] # "none"
  <2>1. Required \subseteq b
    BY <1>1, <1>2, <1>5
  <2> QED BY <1>2, <1>5, <2>1 DEF Closed
<1> QED BY <1>3, <1>4, <1>5 DEF Judged

-----------------------------------------------------------------------------
(* An outcome that claims complete coverage shows again what has been shown. *)

LEMMA PartOfTotal ==
    ASSUME NEW n \in Nat, NEW k \in 1..n, NEW f, \A i \in 1..n : f[i] \in Nat
    PROVE  Total(f, n) \in Nat /\ f[k] <= Total(f, n)
<1> DEFINE g == [i \in 1..n |-> IF i = k THEN 0 ELSE f[i]]
<1>1. \A i \in 1..n : g[i] \in Nat /\ g[i] <= g[i] /\ (i # k => f[i] = g[i])
  OBVIOUS
<1>2. f[k] \in Nat /\ f[k] = g[k] + f[k] /\ f[k] <= f[k]
  OBVIOUS
<1> HIDE DEF g
<1>3. Total(f, n) = Total(g, n) + f[k]
  BY <1>1, <1>2, TotalGrows
<1>4. Total(g, n) \in Nat
  BY <1>1, TotalBounds
<1> QED BY <1>2, <1>3, <1>4

\* What a cycle shows can be shown again.
LEMMA ShowsAgain ==
    ASSUME Inv, Budget, pc # "idle", NEW v, NEW a, NEW b, Stage(v, a, b),
           \A r \in Arms : committed[r] = 0, NEW r \in Arms, NEW e \in EventsOf(r, a[r])
    PROVE  \E n \in 1..arrived[r] : /\ e = <<r, n>>
                                    /\ MaxTake > 0 /\ MaxTakeOf[r] > 0 /\ 1 \notin Oversized[r]
<1> DEFINE s == a[r]
<1>1. PICK i \in 1..Len(s) : e = <<r, s[i]>>
  BY DEF EventsOf
<1>2. /\ Bounded(a) /\ committed[r] = 0
      /\ \A t \in Arms : Len(a[t]) \in Nat
      /\ RunTo(s, committed[r] + Len(s)) /\ committed[r] + Len(s) <= arrived[r]
  BY StageParts
<1>3. /\ arrived[r] \in Nat /\ N \in Nat /\ Arms = 1..N
      /\ MaxTake \in Nat /\ MaxTakeOf \in [Arms -> Nat]
  BY Known, PollCycleAssumption DEF Arms
<1>4. \A j \in 1..Len(s) : s[j] = (0 + Len(s)) - Len(s) + j
  BY <1>2 DEF RunTo
<1>5. s[i] = i /\ s[1] = 1 /\ 1 \in 1..Len(s) /\ i \in 1..arrived[r]
  <2>1. Len(s) \in Nat /\ 1 \in 1..Len(s)
    BY <1>2
  <2>2. s[i] = (0 + Len(s)) - Len(s) + i /\ s[1] = (0 + Len(s)) - Len(s) + 1
    BY <1>4, <2>1
  <2> HIDE DEF s
  <2> QED BY <1>2, <1>3, <2>1, <2>2
<1>6. MaxTakeOf[r] > 0 /\ 1 \notin Oversized[r]
  <2>1. Len(s) <= MaxTakeOf[r] /\ \A j \in 1..Len(s) : s[j] \notin Oversized[r]
    BY <1>2 DEF Bounded
  <2> HIDE DEF s
  <2>2. Len(s) \in Nat
    BY <1>2 DEF s
  <2> QED BY <1>3, <1>5, <2>1, <2>2
<1>7. MaxTake > 0
  <2> DEFINE f == [t \in Arms |-> Len(a[t])]
  <2>1. Total(f, N) <= MaxTake
    BY <1>2 DEF Bounded
  <2>2. \A t \in 1..N : f[t] \in Nat
    BY <1>2, <1>3
  <2>3. f[r] = Len(s) /\ Len(s) \in Nat
    BY <1>2
  <2> HIDE DEF f, s
  <2>4. Total(f, N) \in Nat /\ f[r] <= Total(f, N)
    BY <1>3, <2>2, PartOfTotal
  <2> QED BY <1>3, <1>5, <2>1, <2>3, <2>4
<1> HIDE DEF s
<1> QED BY <1>1, <1>5, <1>6, <1>7

\* The kind and the coverage claim of an outcome message.
LEMMA ClaimTells ==
    ASSUME NEW kind, NEW a, NEW b, NEW vis, NEW result, result = Report(kind, a, b, now),
           result.kind \notin Silent,
           NEW m, m = OutcomeMessage(cycles, request, result, vis), m.complete
    PROVE  kind = m.kind /\ kind \in {"events"} \cup CleanKinds /\ kind \notin Final
<1>1. m.kind = result.kind /\ (m.complete <=> Complete(result, ArmReports(result, vis)))
  BY MessageIs
<1>2. result.kind = Posture(kind, now)
  BY ReportIs
<1>3. result.kind \in {kind, "reauthentication_required", "refused"}
  BY <1>2, PostureTells
<1>4. result.kind \in {"events"} \cup CleanKinds
  BY <1>1, Zenon DEF Complete
<1> QED BY <1>1, <1>3, <1>4 DEF CleanKinds, Final

LEMMA ClaimShowsAll ==
    ASSUME Inv, Budget, Visiting, Replayed, NoAcks, Ordered, pc # "idle",
           NEW kind, NEW v, NEW a, NEW b, NEW vis, Stage(v, a, b), Judged(kind, v, a, vis, b),
           NEW result, result = Report(kind, a, b, now), result.kind \notin Silent,
           NEW m, m = OutcomeMessage(cycles, request, result, vis), Claims(m),
           NEW r \in Required, NEW n \in Event, Offered(r, n)
    PROVE  <<r, n>> \in m.events
<1>1. m.complete /\ (m.kind = "events" \/ "error" \notin Signals)
  BY DEF Claims
<1>2. kind = m.kind /\ kind \in {"events"} \cup CleanKinds /\ kind \notin Final
  BY <1>1, ClaimTells
<1>3. r \in Arms /\ Required \subseteq Arms
  BY SeamAssumption
<1>4. /\ kind = DecideKind(vis, a, now)
      /\ \/ vis = FilledVisits(v, a) /\ Required \subseteq b
         \/ vis = v /\ \A s \in Arms : v[s] # "none"
  BY <1>2 DEF Judged
<1>5. /\ v[r] = "none" /\ "error" \notin Signals => r \notin b
      /\ v[r] # "idle"
      /\ v[r] = "deferred" => \E s \in Arms : a[s] # <<>>
      /\ v[r] = "events" => n \in Listed(a[r])
  BY <1>3, StageAnswered DEF Answered
<1>6. /\ v[r] \in VisitKinds
      /\ v[r] # "none" => r \in b
      /\ v[r] \in {"events", "saturated"} => a[r] # <<>>
  BY <1>3, StageNoted DEF Noted
<1>7. now \in Nat /\ request.logical \in Nat
  BY DEF Ordered
<1>8. /\ vis[r] \notin {"overflow", "failed"} /\ vis[r] \notin Dirty
      /\ kind \in CleanKinds => \A s \in Arms : a[s] = <<>>
      /\ kind = "events" => /\ vis[r] # "deferred" /\ vis[r] # "saturated"
                            /\ \E s \in Arms : a[s] # <<>>
  BY <1>2, <1>3, <1>4, <1>7, DecideTells
<1>9. v[r] # "none" => vis[r] = v[r]
  BY <1>3, <1>4 DEF FilledVisits
<1>10. v[r] = "none" /\ (\E s \in Arms : a[s] # <<>>) => vis[r] = "deferred"
  BY <1>3, <1>4 DEF FilledVisits
<1>11. CASE kind = "events"
  <2>1. v[r] = "events"
    <3>1. v[r] # "none" /\ v[r] = vis[r]
      BY <1>8, <1>9, <1>10, <1>11
    <3> QED BY <1>5, <1>6, <1>8, <1>11, <3>1 DEF VisitKinds
  <2>2. n \in Listed(a[r]) /\ r \in b
    BY <1>5, <1>6, <2>1
  <2>3. <<r, n>> \in EventsOf(r, a[r])
    BY <2>2 DEF Listed, EventsOf
  <2>4. /\ result.kind = kind /\ result.arms = KnownStarts(b)
        /\ result.events = IF result.kind \in Delivers THEN a ELSE NoEvents
        /\ m.events = UNION {EventsOf(s, result.events[s]) : s \in result.arms}
    <3>1. m.kind = result.kind /\ m.events = UNION {EventsOf(s, result.events[s]) : s \in result.arms}
      BY MessageIs
    <3>2. /\ result.arms = KnownStarts(b)
          /\ result.events = IF result.kind \in Delivers THEN a ELSE NoEvents
      BY ReportIs
    <3> QED BY <1>2, <3>1, <3>2
  <2>5. result.events = a /\ r \in result.arms
    BY <1>3, <1>11, <2>2, <2>4 DEF Delivers, KnownStarts
  <2> QED BY <2>3, <2>4, <2>5
<1>12. CASE kind \in CleanKinds
  <2>1. "error" \notin Signals /\ \A s \in Arms : a[s] = <<>>
    BY <1>1, <1>2, <1>8, <1>12 DEF CleanKinds
  <2>2. v[r] # "none"
    BY <1>4, <1>5, <2>1, <1>3
  <2>3. v[r] \notin {"idle", "deferred", "events", "saturated", "overflow", "failed"} /\ v[r] \notin Dirty
    BY <1>3, <1>5, <1>6, <1>8, <1>9, <2>1, <2>2
  <2> QED BY <1>6, <2>2, <2>3 DEF VisitKinds
<1> QED BY <1>2, <1>11, <1>12

-----------------------------------------------------------------------------
(* One message more. *)

LEMMA Appended ==
    ASSUME NEW s, s \in Seq(Elements(s)), NEW e, NEW t, t = Append(s, e)
    PROVE  /\ Len(s) \in Nat /\ Len(t) = Len(s) + 1
           /\ \A i \in 1..Len(s) : t[i] = s[i]
           /\ t[Len(s) + 1] = e
           /\ t \in Seq(Elements(t))
<1> DEFINE S == Elements(s) \cup {e}
<1>1. s \in Seq(S) /\ e \in S
  BY SeqMonotonic
<1> HIDE DEF S
<1>2. /\ t \in Seq(S) /\ Len(t) = Len(s) + 1 /\ t[Len(s) + 1] = e
      /\ \A i \in 1..Len(s) : t[i] = s[i]
  BY <1>1, AppendProperties
<1>3. Len(s) \in Nat /\ Len(t) \in Nat
  BY <1>1, <1>2, LenProperties
<1>4. \A i \in 1..Len(t) : t[i] \in Elements(t)
  BY DEF Elements
<1>5. t \in Seq(Elements(t))
  BY <1>2, <1>3, <1>4, IsASeq
<1> QED BY <1>2, <1>3, <1>5

\* Whether there is an outcome, there is a last one.
LEMMA LastExists ==
    ASSUME Len(docs) \in Nat, NEW i \in 1..Len(docs), IsOutcome(i)
    PROVE  \E j \in i..Len(docs) : IsLast(j)
<1> DEFINE n == Len(docs)
           T == {k \in 0..n : n - k >= i /\ IsOutcome(n - k)}
<1>1. n - i \in T
  <2>1. n - (n - i) = i
    OBVIOUS
  <2> QED BY <2>1
<1>2. PICK k \in T : \A l \in T : k <= l
  <2>1. \A k \in 0..n : k \in Nat
    OBVIOUS
  <2>2. T \subseteq 0..n
    BY Zenon
  <2> HIDE DEF T
  <2>3. T \in SUBSET Nat /\ T # {}
    BY <1>1, <2>1, <2>2
  <2> QED BY <2>3, Least
<1>3. n - k \in i..n /\ IsOutcome(n - k)
  OBVIOUS
<1>4. ASSUME NEW j \in (n - k) + 1 .. n, IsOutcome(j) PROVE FALSE
  <2>1. n - (n - j) = j /\ n - j \in 0..n /\ n - j < k
    BY <1>3
  <2>2. n - j \in T
    BY <1>3, <1>4, <2>1
  <2> QED BY <1>2, <2>1, <2>2
<1> QED BY <1>3, <1>4 DEF IsLast

\* The last outcome is that of the last request, if it has one.
LEMMA LastOutcomeIs ==
    ASSUME Written, NEW i \in 2..Len(docs), Stands(i), outcome.kind \notin Silent
    PROVE  /\ LastOutcome = docs[i + 1] /\ i + 1 \in 1..Len(docs) /\ IsLast(i + 1)
           /\ \A j \in 1..Len(docs) : IsLast(j) => j = i + 1
<1> DEFINE P(k) == /\ docs[k].type = "poll_cycle_outcome"
                   /\ \A j \in k + 1 .. Len(docs) : docs[j].type # "poll_cycle_outcome"
<1>1. Len(docs) \in Nat
  BY LenProperties DEF Written
<1>2. /\ i < Len(docs) /\ IsOutcome(i + 1)
      /\ \A j \in i + 2 .. Len(docs) : docs[j] = AckMessage(docs[i + 1])
  BY DEF Stands
<1>3. \A j \in i + 2 .. Len(docs) : docs[j].type # "poll_cycle_outcome"
  <2>1. AckMessage(docs[i + 1]).type # "poll_cycle_outcome"
    BY DEF AckMessage
  <2> QED BY <1>2, <2>1
<1>4. i + 1 \in 1..Len(docs) /\ (i + 1) + 1 = i + 2
  BY <1>1, <1>2
<1>5. P(i + 1)
  BY <1>2, <1>3, <1>4 DEF IsOutcome
<1>6. \A k \in 1..Len(docs) : P(k) => k = i + 1
  <2> SUFFICES ASSUME NEW k \in 1..Len(docs), P(k), k # i + 1 PROVE FALSE
    OBVIOUS
  <2>1. CASE k < i + 1
    <3>1. i + 1 \in k + 1 .. Len(docs)
      BY <1>1, <1>4, <2>1
    <3> QED BY <1>5, <3>1
  <2>2. CASE k > i + 1
    <3>1. k \in i + 2 .. Len(docs)
      BY <1>1, <1>4, <2>2
    <3> QED BY <1>3, <3>1
  <2> QED BY <1>1, <1>4, <2>1, <2>2
<1>7. LastOutcome = docs[CHOOSE k \in 1..Len(docs) : P(k)]
  BY DEF LastOutcome
<1>8. \A k \in 1..Len(docs) : IsLast(k) <=> P(k)
  BY DEF IsLast, IsOutcome
<1> HIDE DEF P
<1> QED BY <1>4, <1>5, <1>6, <1>7, <1>8

-----------------------------------------------------------------------------
(* A step that writes no outcome. *)

Quiet == docs' = docs \/ \E e : e.type # "poll_cycle_outcome" /\ docs' = Append(docs, e)
Writable(e) ==
    \/ e.type = "poll_cycle_request" /\ e.run <= e.logical /\ e.required = Required
    \/ e.type = "poll_cycle_outcome" /\ Vouched(e)
    \/ /\ e.type = "poll_cycle_ack"
       /\ \E j \in 1..Len(docs) : IsOutcome(j) /\ e = AckMessage(docs[j])

LEMMA WritesOn ==
    ASSUME Written, NEW e, docs' = Append(docs, e), Writable(e)
    PROVE  /\ Written' /\ Len(docs) \in Nat /\ Len(docs) > 0 /\ Len(docs') = Len(docs) + 1
           /\ \A i \in 1..Len(docs) : docs'[i] = docs[i]
           /\ docs'[Len(docs) + 1] = e
<1>1. /\ Len(docs) \in Nat /\ Len(docs) > 0 /\ Len(docs') = Len(docs) + 1
      /\ \A i \in 1..Len(docs) : docs'[i] = docs[i]
      /\ docs'[Len(docs) + 1] = e
      /\ docs' \in Seq(Elements(docs'))
  <2>1. docs \in Seq(Elements(docs)) /\ Len(docs) > 0
    BY DEF Written
  <2>2. /\ Len(docs) \in Nat /\ Len(docs') = Len(docs) + 1
        /\ \A i \in 1..Len(docs) : docs'[i] = docs[i]
        /\ docs'[Len(docs) + 1] = e
    BY <2>1, Appended
  <2>3. docs' \in Seq(Elements(docs'))
    BY <2>1, Appended
  <2> QED BY <2>1, <2>2, <2>3
<1>2. docs'[1] = SetMessage /\ Len(docs') > 0
  BY <1>1 DEF Written
<1>3. ASSUME NEW i \in 2..Len(docs')
      PROVE  \/ /\ docs'[i].type = "poll_cycle_request"
                /\ docs'[i].run <= docs'[i].logical /\ docs'[i].required = Required
             \/ docs'[i].type = "poll_cycle_outcome" /\ Vouched(docs'[i])
             \/ /\ docs'[i].type = "poll_cycle_ack"
                /\ \E j \in 1..Len(docs') : /\ docs'[j].type = "poll_cycle_outcome"
                                            /\ docs'[i] = AckMessage(docs'[j])
  <2>1. CASE i \in 2..Len(docs)
    <3>1. docs'[i] = docs[i] /\ i \in 1..Len(docs)
      BY <1>1, <2>1
    <3>2. \/ /\ docs[i].type = "poll_cycle_request"
             /\ docs[i].run <= docs[i].logical /\ docs[i].required = Required
          \/ docs[i].type = "poll_cycle_outcome" /\ Vouched(docs[i])
          \/ /\ docs[i].type = "poll_cycle_ack"
             /\ \E j \in 1..Len(docs) : /\ docs[j].type = "poll_cycle_outcome"
                                        /\ docs[i] = AckMessage(docs[j])
      BY <2>1 DEF Written, IsOutcome
    <3>3. \A j \in 1..Len(docs) : j \in 1..Len(docs') /\ docs'[j] = docs[j]
      BY <1>1
    <3> QED BY <3>1, <3>2, <3>3
  <2>2. CASE i = Len(docs) + 1
    <3>1. docs'[i] = e
      BY <1>1, <2>2
    <3>2. \A j \in 1..Len(docs) : j \in 1..Len(docs') /\ docs'[j] = docs[j]
      BY <1>1
    <3> QED BY <3>1, <3>2 DEF Writable, IsOutcome
  <2> QED BY <1>1, <2>1, <2>2
<1>4. Written'
  <2>1. docs' \in Seq(Elements(docs')) /\ Len(docs') > 0 /\ docs'[1] = SetMessage'
    BY <1>1, <1>2 DEF SetMessage
  <2> QED BY <1>3, <2>1, Zenon DEF Written, IsOutcome
<1> QED BY <1>1, <1>4

LEMMA QuietTells ==
    ASSUME Written, Quiet
    PROVE  /\ Len(docs) \in Nat /\ Len(docs) > 0
           /\ \A i \in 1..Len(docs) : i \in 1..Len(docs') /\ docs'[i] = docs[i]
           /\ \A i \in 1..Len(docs') : IsOutcome(i)' => i \in 1..Len(docs) /\ IsOutcome(i)
           /\ \A i \in 1..Len(docs') : IsLast(i)' => IsLast(i)
           /\ NoAcks' => NoAcks
           /\ \A r, n : Offered(r, n)' => Offered(r, n)
<1>1. /\ Len(docs) \in Nat /\ Len(docs) > 0 /\ Len(docs') \in Nat /\ Len(docs) <= Len(docs')
      /\ \A i \in 1..Len(docs) : docs'[i] = docs[i]
      /\ \A i \in 1..Len(docs') : docs'[i].type = "poll_cycle_outcome" => i \in 1..Len(docs)
  <2>1. CASE docs' = docs
    <3>1. Len(docs) \in Nat /\ Len(docs) > 0
      BY LenProperties DEF Written
    <3> QED BY <2>1, <3>1
  <2>2. ASSUME NEW e, e.type # "poll_cycle_outcome", docs' = Append(docs, e)
        PROVE  <1>1!:
    <3>1. /\ Len(docs) \in Nat /\ Len(docs) > 0 /\ Len(docs') = Len(docs) + 1
          /\ \A i \in 1..Len(docs) : docs'[i] = docs[i]
          /\ docs'[Len(docs) + 1] = e
      BY <2>2, Appended DEF Written
    <3>2. ASSUME NEW i \in 1..Len(docs'), docs'[i].type = "poll_cycle_outcome"
          PROVE  i \in 1..Len(docs)
      <4>1. i # Len(docs) + 1
        BY <2>2, <3>1, <3>2
      <4> QED BY <3>1, <4>1
    <3> QED BY <3>1, <3>2
  <2> QED BY <2>1, <2>2 DEF Quiet
<1>2. \A i \in 1..Len(docs) : i \in 1..Len(docs') /\ docs'[i] = docs[i]
  BY <1>1
<1>3. \A i \in 1..Len(docs') : IsOutcome(i)' => i \in 1..Len(docs) /\ IsOutcome(i)
  BY <1>1 DEF IsOutcome
<1>4. ASSUME NEW i \in 1..Len(docs'), IsLast(i)' PROVE IsLast(i)
  <2>1. i \in 1..Len(docs) /\ IsOutcome(i)
    BY <1>3, <1>4 DEF IsLast
  <2>2. ASSUME NEW j \in i + 1 .. Len(docs), IsOutcome(j) PROVE FALSE
    <3>1. j \in 1..Len(docs) /\ j \in i + 1 .. Len(docs')
      BY <1>1, <2>1
    <3>2. docs'[j].type = "poll_cycle_outcome"
      BY <1>2, <2>2, <3>1 DEF IsOutcome
    <3> QED BY <1>4, <3>1, <3>2 DEF IsLast, IsOutcome
  <2> QED BY <2>1, <2>2 DEF IsLast
<1>5. NoAcks' => NoAcks
  BY <1>2 DEF NoAcks
<1>6. \A r, n : Offered(r, n)' => Offered(r, n)
  BY <1>2, <1>3 DEF Offered
<1> QED BY <1>1, <1>2, <1>3, <1>4, <1>5, <1>6

LEMMA QuietKeepsOrder ==
    ASSUME Written, Ordered, Rotated, Quiet,
           now' \in Nat, now <= now', cycles' \in Nat, cycles <= cycles', request'.logical \in Nat,
           pc' # "idle" => (pc # "idle" /\ cycles' = cycles) \/ cycles < cycles',
           IF pc' = "idle" THEN CursorOfNext' = IF pc = "idle" THEN CursorOfNext ELSE request.cursor
           ELSE request'.cursor = IF pc = "idle" THEN CursorOfNext ELSE request.cursor
    PROVE  Ordered' /\ Rotated'
<1>1. /\ Len(docs) \in Nat
      /\ \A i \in 1..Len(docs) : i \in 1..Len(docs') /\ docs'[i] = docs[i]
      /\ \A i \in 1..Len(docs') : IsOutcome(i)' => i \in 1..Len(docs) /\ IsOutcome(i)
      /\ \A i \in 1..Len(docs') : IsLast(i)' => IsLast(i)
      /\ \A i \in 1..Len(docs') : IsLast(i)' => IsOutcome(i)'
      /\ \A i \in 1..Len(docs) : IsOutcome(i) => IsOutcome(i)'
  <2>1. \A i \in 1..Len(docs') : IsLast(i)' => IsOutcome(i)'
    BY DEF IsLast
  <2>2. \A i \in 1..Len(docs) : IsOutcome(i) => IsOutcome(i)'
    BY QuietTells DEF IsOutcome
  <2> QED BY <2>1, <2>2, QuietTells
<1>2. \A i \in 1..Len(docs) : IsOutcome(i) => docs[i].created \in Nat /\ docs[i].id \in Nat
  <2> SUFFICES ASSUME NEW i \in 1..Len(docs), IsOutcome(i)
               PROVE  docs[i].created \in Nat /\ docs[i].id \in Nat
    OBVIOUS
  <2>1. docs[1].type # "poll_cycle_outcome"
    BY DEF Written, SetMessage
  <2>2. i \in 2..Len(docs)
    BY <1>1, <2>1 DEF IsOutcome
  <2>3. Vouched(docs[i])
    <3>1. docs[i].type = "poll_cycle_outcome"
      BY DEF IsOutcome
    <3> QED BY <2>2, <3>1 DEF Written
  <2> QED BY <2>3 DEF Vouched
<1>3. now \in Nat /\ cycles \in Nat
  BY DEF Ordered
<1>4. Ordered'
  <2>1. ASSUME NEW i \in 1..Len(docs'), IsOutcome(i)'
        PROVE  /\ docs'[i].created <= now' /\ docs'[i].id <= cycles'
               /\ pc' # "idle" => docs'[i].id < cycles'
    <3>1. i \in 1..Len(docs) /\ IsOutcome(i) /\ docs'[i] = docs[i]
      BY <1>1, <2>1
    <3>2. /\ docs[i].created <= now /\ docs[i].id <= cycles
          /\ pc # "idle" => docs[i].id < cycles
      BY <3>1 DEF Ordered
    <3> QED BY <1>2, <1>3, <3>1, <3>2
  <2>2. ASSUME NEW i \in 1..Len(docs'), NEW j \in 1..Len(docs'), IsOutcome(i)', IsOutcome(j)', i < j
        PROVE  docs'[i].created <= docs'[j].created /\ docs'[i].id < docs'[j].id
    BY <1>1, <2>2 DEF Ordered
  <2> QED BY <2>1, <2>2, Zenon DEF Ordered
<1>5. Rotated'
  <2>1. ASSUME NEW i \in 1..Len(docs'), IsLast(i)'
        PROVE  docs'[i].cursor = IF pc' = "idle" THEN CursorOfNext' ELSE request'.cursor
    <3>1. i \in 1..Len(docs) /\ IsLast(i) /\ docs'[i] = docs[i]
      BY <1>1, <2>1
    <3>2. docs[i].cursor = IF pc = "idle" THEN CursorOfNext ELSE request.cursor
      BY <3>1 DEF Rotated
    <3> QED BY <3>1, <3>2
  <2>2. ASSUME NEW i \in 1..Len(docs'), NEW j \in 1..Len(docs'), N > 1, IsOutcome(i)', IsLast(j)', i < j
        PROVE  \E k \in 1..Len(docs') : IsOutcome(k)' /\ docs'[k].cursor # docs'[j].cursor
    <3>1. /\ i \in 1..Len(docs) /\ IsOutcome(i)
          /\ j \in 1..Len(docs) /\ IsLast(j) /\ docs'[j] = docs[j]
      BY <1>1, <2>2
    <3>2. PICK k \in 1..Len(docs) : IsOutcome(k) /\ docs[k].cursor # docs[j].cursor
      BY <2>2, <3>1 DEF Rotated
    <3>3. k \in 1..Len(docs') /\ IsOutcome(k)' /\ docs'[k] = docs[k]
      BY <1>1, <3>2
    <3> QED BY <3>1, <3>2, <3>3
  <2> QED BY <2>1, <2>2, Zenon DEF Rotated
<1> QED BY <1>4, <1>5

LEMMA QuietKeepsReplay ==
    ASSUME Written, Replayed, Quiet, Inv, committed' = committed,
           \A r \in Arms : arrived'[r] \in Nat /\ arrived[r] <= arrived'[r]
    PROVE  Replayed'
<1> SUFFICES ASSUME NoAcks'
             PROVE  /\ \A r \in Arms : committed'[r] = 0
                    /\ \A i \in 1..Len(docs') : IsOutcome(i)' => \A e \in docs'[i].events :
                         \E r \in Arms : \E n \in 1..arrived'[r] :
                            /\ e = <<r, n>>
                            /\ MaxTake > 0 /\ MaxTakeOf[r] > 0 /\ 1 \notin Oversized[r]
                    /\ \A i, j \in 1..Len(docs') :
                         IsOutcome(i)' /\ IsOutcome(j)' /\ i < j /\ Claims(docs'[j]) =>
                            \A e \in docs'[i].events : e[1] \in Required => e \in docs'[j].events
  BY Zenon DEF Replayed
<1>1. /\ \A i \in 1..Len(docs) : i \in 1..Len(docs') /\ docs'[i] = docs[i]
      /\ \A i \in 1..Len(docs') : IsOutcome(i)' => i \in 1..Len(docs) /\ IsOutcome(i)
      /\ NoAcks
  BY QuietTells
<1>2. \A r \in Arms : committed'[r] = 0
  BY <1>1 DEF Replayed
<1>3. ASSUME NEW i \in 1..Len(docs'), IsOutcome(i)', NEW e \in docs'[i].events
      PROVE  \E r \in Arms : \E n \in 1..arrived'[r] :
                /\ e = <<r, n>>
                /\ MaxTake > 0 /\ MaxTakeOf[r] > 0 /\ 1 \notin Oversized[r]
  <2>1. i \in 1..Len(docs) /\ IsOutcome(i) /\ e \in docs[i].events
    BY <1>1, <1>3
  <2>2. PICK r \in Arms : \E n \in 1..arrived[r] :
                /\ e = <<r, n>>
                /\ MaxTake > 0 /\ MaxTakeOf[r] > 0 /\ 1 \notin Oversized[r]
    BY <1>1, <2>1 DEF Replayed
  <2>3. \A n \in 1..arrived[r] : n \in 1..arrived'[r]
    BY Known
  <2> QED BY <2>2, <2>3
<1>4. ASSUME NEW i \in 1..Len(docs'), NEW j \in 1..Len(docs'), IsOutcome(i)', IsOutcome(j)', i < j,
             Claims(docs'[j]), NEW e \in docs'[i].events, e[1] \in Required
      PROVE  e \in docs'[j].events
  <2>1. /\ i \in 1..Len(docs) /\ IsOutcome(i) /\ docs'[i] = docs[i]
        /\ j \in 1..Len(docs) /\ IsOutcome(j) /\ docs'[j] = docs[j]
    BY <1>1, <1>4
  <2> QED BY <1>1, <1>4, <2>1 DEF Replayed
<1> QED BY <1>2, <1>3, <1>4

\* Between two messages the last request stands as it did, but for the end of
\* its cycle without an outcome.
LEMMA StillStands ==
    ASSUME Underway, docs' = docs, request' = request,
           \/ outcome' = outcome /\ (pc' = pc \/ pc # "idle")
           \/ pc # "idle" /\ outcome'.kind \in Silent
    PROVE  Underway'
<1>1. CASE outcome' = outcome /\ (pc' = pc \/ pc # "idle")
  <2>1. pc' # "idle" => outcome'.kind \in Silent
    BY <1>1 DEF Underway
  <2>2. CASE Len(docs) = 1 /\ pc = "idle" /\ outcome.kind \in Silent
    BY <1>1, <2>1, <2>2 DEF Underway
  <2>3. ASSUME NEW i \in 2..Len(docs), Stands(i) PROVE Underway'
    <3>1. Stands(i)'
      BY <1>1, <2>3 DEF Stands, IsOutcome, RequestMessage
    <3> QED BY <2>1, <3>1 DEF Underway
  <2> QED BY <2>2, <2>3 DEF Underway
<1>2. CASE pc # "idle" /\ outcome'.kind \in Silent
  <2>1. PICK i \in 2..Len(docs) : Stands(i)
    BY <1>2 DEF Underway
  <2>2. outcome.kind \in Silent
    BY <1>2 DEF Underway
  <2>3. docs[i] = RequestMessage(request) /\ i = Len(docs)
    BY <2>1, <2>2 DEF Stands
  <2>4. Stands(i)'
    BY <1>2, <2>3 DEF Stands, RequestMessage
  <2> QED BY <1>2, <2>4 DEF Underway
<1> QED BY <1>1, <1>2

\* A request is written and its cycle begins.
LEMMA StartsStep ==
    ASSUME TInv, Inv, Starts
    PROVE  TInv'
<1>1. /\ pc = "idle" /\ pc' = "top" /\ cycles' = cycles + 1 /\ bound' = {} /\ visits' = NoVisits
      /\ request' \in Requests /\ request'.run <= request'.logical
      /\ request'.cursor = CursorOfNext
      /\ outcome' = NoOutcome("none")
      /\ UNCHANGED <<now, arrived, signal, idle, admitted, committed>>
      /\ docs' = Append(docs, RequestMessage(request'))
  BY DEF Starts, StartCycle, observerVars, CursorOfNext
<1> DEFINE e == RequestMessage(request')
<1>2. e.type = "poll_cycle_request" /\ e.run <= e.logical /\ e.required = Required
  BY <1>1 DEF RequestMessage
<1> HIDE DEF e
<1>3. docs' = Append(docs, e) /\ Quiet /\ Writable(e)
  <2>1. docs' = Append(docs, e)
    BY <1>1 DEF e
  <2> QED BY <1>2, <2>1 DEF Quiet, Writable
<1>4. /\ Written' /\ Len(docs) \in Nat /\ Len(docs) > 0 /\ Len(docs') = Len(docs) + 1
      /\ \A i \in 1..Len(docs) : docs'[i] = docs[i]
      /\ docs'[Len(docs) + 1] = e
  BY <1>3, WritesOn DEF TInv
<1>5. Ordered' /\ Rotated'
  <2>1. now' \in Nat /\ now <= now' /\ cycles' \in Nat /\ cycles <= cycles' /\ cycles < cycles'
    BY <1>1 DEF TInv, Ordered
  <2>2. request'.logical \in Nat
    <3>1. request'.logical \in 0..Horizon /\ Horizon \in Nat
      BY <1>1, SeamAssumption DEF Requests
    <3> QED BY <3>1
  <2> QED BY <1>1, <1>3, <2>1, <2>2, QuietKeepsOrder DEF TInv
<1>6. Underway'
  <2>1. outcome'.kind \in Silent
    BY <1>1, NoOutcomeIsSilent
  <2>4. PICK i \in Nat : i = Len(docs) + 1
    BY <1>4
  <2>2. i \in 2..Len(docs') /\ i = Len(docs') /\ docs'[i] = RequestMessage(request')
    BY <1>4, <2>4 DEF e
  <2>3. Stands(i)'
    BY <2>1, <2>2 DEF Stands, RequestMessage
  <2> QED BY <2>1, <2>2, <2>3 DEF Underway
<1>7. Replayed'
  <2>1. \A r \in Arms : arrived'[r] \in Nat /\ arrived[r] <= arrived'[r]
    BY <1>1, Known
  <2> QED BY <1>1, <1>3, <2>1, QuietKeepsReplay DEF TInv
<1>8. Visiting'
  <2>1. /\ signal' \in [Arms -> Signals \cup {"none", "idle"}]
        /\ bound' \subseteq Arms /\ idle' = {}
    BY <1>1 DEF TInv, Visiting
  <2>2. \A r \in Arms : visits'[r] = "none"
    BY <1>1 DEF NoVisits
  <2>3. Noted(visits', admitted', bound')
    BY <2>2 DEF Noted, VisitKinds
  <2>4. Answered(visits, admitted, bound)'
    BY <1>1, <2>2 DEF Answered
  <2> QED BY <1>1, <2>1, <2>3, <2>4 DEF Visiting, Noted
<1> QED BY <1>4, <1>5, <1>6, <1>7, <1>8 DEF TInv

\* The last outcome is acknowledged.
LEMMA AcksStep ==
    ASSUME TInv, Inv, Acks
    PROVE  TInv'
<1>1. /\ pc = "idle" /\ outcome.kind \notin Silent
      /\ UNCHANGED <<pc, now, signal, request, bound, idle, visits, admitted, outcome, cycles>>
      /\ docs' = Append(docs, AckMessage(LastOutcome))
  BY DEF Acks, Ack, seamVars, cycleVars
<1>2. PICK i \in 2..Len(docs) : Stands(i)
  BY <1>1 DEF TInv, Underway
<1>3. LastOutcome = docs[i + 1] /\ i + 1 \in 1..Len(docs) /\ IsLast(i + 1)
  BY <1>1, <1>2, LastOutcomeIs DEF TInv
<1> DEFINE e == AckMessage(docs[i + 1])
<1>4. e.type = "poll_cycle_ack"
  BY DEF AckMessage
<1>5. docs' = Append(docs, e) /\ IsOutcome(i + 1)
  BY <1>1, <1>3 DEF IsLast
<1>6. Writable(e)
  BY <1>3, <1>4, <1>5 DEF Writable
<1> HIDE DEF e
<1>7. /\ Written' /\ Len(docs) \in Nat /\ Len(docs) > 0 /\ Len(docs') = Len(docs) + 1
      /\ \A j \in 1..Len(docs) : docs'[j] = docs[j]
      /\ docs'[Len(docs) + 1] = e
  BY <1>5, <1>6, WritesOn DEF TInv
<1>8. Quiet
  BY <1>4, <1>5 DEF Quiet
<1>9. Ordered' /\ Rotated'
  <2>1. /\ now' \in Nat /\ now <= now' /\ cycles' \in Nat /\ cycles <= cycles'
        /\ request'.logical \in Nat
    BY <1>1 DEF TInv, Ordered
  <2>2. CursorOfNext' = CursorOfNext
    BY <1>1 DEF CursorOfNext, NextCursor
  <2> QED BY <1>1, <1>8, <2>1, <2>2, QuietKeepsOrder DEF TInv
<1>10. Underway'
  <2>1. /\ docs[i] = RequestMessage(request) /\ i < Len(docs) /\ IsOutcome(i + 1)
        /\ AuthnRequired /\ ~request.receipt =>
             docs[i + 1].kind \notin {"events", "no_change", "logical_deadman", "partial"}
        /\ \A j \in i + 2 .. Len(docs) : docs[j] = AckMessage(docs[i + 1])
    BY <1>1, <1>2 DEF Stands
  <2>2. i \in 1..Len(docs) /\ i \in 2..Len(docs') /\ i < Len(docs')
    BY <1>7, <2>1
  <2>3. docs'[i] = docs[i] /\ docs'[i + 1] = docs[i + 1]
    BY <1>3, <1>7, <2>2
  <2>4. ASSUME NEW j \in i + 2 .. Len(docs') PROVE docs'[j] = AckMessage(docs'[i + 1])
    <3>1. CASE j = Len(docs) + 1
      BY <1>7, <2>3, <3>1 DEF e
    <3>2. CASE j # Len(docs) + 1
      <4>1. j \in i + 2 .. Len(docs) /\ j \in 1..Len(docs)
        BY <1>7, <2>2, <3>2
      <4> QED BY <1>7, <2>1, <2>3, <4>1
    <3> QED BY <3>1, <3>2
  <2>5. Stands(i)'
    <3>1. docs'[i] = RequestMessage(request') /\ docs'[i + 1].type = "poll_cycle_outcome"
      BY <1>1, <2>1, <2>3 DEF IsOutcome, RequestMessage
    <3> QED BY <1>1, <2>1, <2>2, <2>3, <2>4, <3>1 DEF Stands, IsOutcome, AckMessage, RequestMessage
  <2> QED BY <1>1, <2>2, <2>5 DEF Underway
<1>11. ~NoAcks'
  <2>1. Len(docs) + 1 \in 1..Len(docs')
    BY <1>7
  <2> QED BY <1>4, <1>7, <2>1 DEF NoAcks
<1>12. Replayed'
  BY <1>11 DEF Replayed
<1>13. Visiting'
  BY <1>1 DEF TInv, Visiting
<1> QED BY <1>7, <1>9, <1>10, <1>12, <1>13 DEF TInv

\* Time passes, the sources and the token act, or the caller drops the future
\* or restarts.
LEMMA OthersStep ==
    ASSUME TInv, Inv, Others
    PROVE  TInv'
<1>1. docs' = docs /\ Quiet
  BY DEF Others, Quiet
<1>2. /\ now \in Nat /\ cycles \in Nat /\ request.logical \in Nat
      /\ signal \in [Arms -> Signals \cup {"none", "idle"}]
      /\ \A r \in Arms : arrived[r] \in Nat
  BY Known DEF TInv, Ordered, Visiting
<1>3. Written'
  BY <1>1 DEF TInv, Written, IsOutcome, SetMessage
<1>4. ASSUME UNCHANGED <<pc, request, bound, idle, visits, admitted, outcome, cycles, committed>>,
             now' \in Nat, now <= now', signal' \in [Arms -> Signals \cup {"none", "idle"}],
             \A r \in Arms : arrived'[r] \in Nat /\ arrived[r] <= arrived'[r]
      PROVE  TInv'
  <2>1. CursorOfNext' = CursorOfNext
    BY <1>4 DEF CursorOfNext, NextCursor
  <2>2. Ordered' /\ Rotated'
    BY <1>1, <1>2, <1>4, <2>1, QuietKeepsOrder DEF TInv
  <2>3. Underway'
    BY <1>1, <1>4, StillStands DEF TInv
  <2>4. Replayed'
    BY <1>1, <1>4, QuietKeepsReplay DEF TInv
  <2>5. Visiting'
    BY <1>1, <1>4 DEF TInv, Visiting, Noted, Answered, Offered, IsOutcome, NoAcks
  <2> QED BY <1>3, <2>2, <2>3, <2>4, <2>5 DEF TInv
<1>5. CASE Restart
  BY <1>2, <1>4, <1>5 DEF Restart, observerVars, cycleVars
<1>6. CASE Environment /\ UNCHANGED <<cycleVars, committed, seen, passed, whole>>
  <2>1. now' \in Nat /\ now <= now'
    BY <1>2, <1>6 DEF Environment, Arrive, Raise, ReleaseHang, Tick, Trigger
  <2>2. signal' \in [Arms -> Signals \cup {"none", "idle"}]
    BY <1>2, <1>6 DEF Environment, Arrive, Raise, ReleaseHang, Tick, Trigger
  <2>3. \A r \in Arms : arrived'[r] \in Nat /\ arrived[r] <= arrived'[r]
    <3>1. CASE \E r \in Arms : Arrive(r)
      BY <1>2, <3>1 DEF Arrive
    <3>2. CASE arrived' = arrived
      BY <1>2, <3>2
    <3> QED BY <1>6, <3>1, <3>2 DEF Environment, Raise, ReleaseHang, Tick, Trigger
  <2> QED BY <1>4, <1>6, <2>1, <2>2, <2>3 DEF cycleVars
<1>7. CASE Abandon
  <2>1. /\ pc # "idle" /\ pc' = "idle" /\ idle' = {} /\ outcome'.kind \in Silent
        /\ UNCHANGED <<now, arrived, signal, request, bound, cycles, committed>>
    BY <1>7, NoOutcomeIsSilent DEF Abandon, Conclude, seamVars
  <2>2. CursorOfNext' = request.cursor
    BY <2>1 DEF CursorOfNext
  <2>3. Ordered' /\ Rotated'
    BY <1>1, <1>2, <2>1, <2>2, QuietKeepsOrder DEF TInv
  <2>4. Underway'
    BY <1>1, <2>1, StillStands DEF TInv
  <2>5. Replayed'
    BY <1>1, <1>2, <2>1, QuietKeepsReplay DEF TInv
  <2>6. Visiting'
    BY <2>1 DEF TInv, Visiting
  <2> QED BY <1>3, <2>3, <2>4, <2>5, <2>6 DEF TInv
<1> QED BY <1>5, <1>6, <1>7 DEF Others

LEMMA RunnerBinds ==
    ASSUME Runner, bound \subseteq Arms
    PROVE  bound' \subseteq Arms
<1>1. CASE BindCompletes
  BY <1>1 DEF BindCompletes, Binding
<1>2. CASE ~BindCompletes
  <2>1. bound' = bound
    BY <1>2 DEF Runner, TopCancelled, TopDeadline, TopSelect, PollCancel, ObserveCompletes,
                ObserveFails, ObservePending, BindFails, BindPending, SleepCompletes, SleepPending
  <2> QED BY <2>1
<1> QED BY <1>1, <1>2

\* A step of the runner that writes nothing.
LEMMA RunsStep ==
    ASSUME TInv, Inv, Budget, Runner, docs' = docs, Proceeds \/ Records \/ Fails
    PROVE  TInv'
<1>1. /\ pc # "idle" /\ Quiet
      /\ UNCHANGED <<now, arrived, signal, request, cycles, committed>>
  BY RunnerSteps DEF Quiet
<1>2. /\ now \in Nat /\ cycles \in Nat /\ request.logical \in Nat
      /\ signal \in [Arms -> Signals \cup {"none", "idle"}]
      /\ bound \subseteq Arms /\ idle \subseteq bound
      /\ \A r \in Arms : arrived[r] \in Nat
      /\ outcome.kind \in Silent
  BY <1>1, Known DEF TInv, Ordered, Visiting, Underway
<1>3. Written'
  BY DEF TInv, Written, IsOutcome, SetMessage
<1>4. Replayed'
  BY <1>1, <1>2, QuietKeepsReplay DEF TInv
<1>5. bound' \subseteq Arms
  BY <1>2, RunnerBinds
<1>6. CASE Proceeds \/ Records
  <2>1. pc' # "idle" /\ outcome' = outcome
    BY <1>6 DEF Proceeds, Records
  <2>2. Ordered' /\ Rotated'
    BY <1>1, <1>2, <2>1, QuietKeepsOrder DEF TInv
  <2>3. Underway'
    BY <1>1, <2>1, StillStands DEF TInv
  <2>4. Noted(visits', admitted', bound') /\ idle' \subseteq bound'
    <3>1. CASE Proceeds
      <4>1. UNCHANGED <<visits, admitted, bound>> /\ idle' \subseteq bound
        BY <1>2, <3>1 DEF Proceeds, Pending
      <4> QED BY <1>1, <4>1 DEF TInv, Visiting
    <3>2. CASE Records
      <4>1. Stage(visits', admitted', bound') /\ idle' = {}
        BY <3>2, Zenon DEF Records, Stage
      <4> QED BY <1>1, <4>1, StageNoted DEF TInv
    <3> QED BY <1>6, <3>1, <3>2
  <2>5. ASSUME NoAcks' PROVE /\ Answered(visits', admitted', bound')
                             /\ \A r \in idle' : \A n \in Event : ~Offered(r, n)
    <3>1. NoAcks /\ Answered(visits, admitted, bound)
          /\ \A r \in idle : \A n \in Event : ~Offered(r, n)
      BY <1>1, <2>5 DEF TInv, Visiting, NoAcks
    <3>2. CASE Proceeds
      <4>1. Answered(visits', admitted', bound')
        BY <3>1, <3>2 DEF Proceeds
      <4>2. ASSUME NEW r \in idle', NEW n \in Event, Offered(r, n) PROVE FALSE
        <5>1. r \notin idle
          BY <3>1, <4>2
        <5>2. r \in Pending /\ RaceAnswers[r] = "idle"
          BY <3>2, <4>2, <5>1 DEF Proceeds
        <5>3. r \in Arms /\ visits[r] = "none"
          BY <1>2, <5>2 DEF Pending, Visited
        <5>4. NextAnswer(r) = "idle"
          BY <5>1, <5>2, <5>3 DEF RaceAnswers
        <5>5. queue[r] = <<>>
          BY <1>2, <5>3, <5>4, DueTells
        <5>6. committed[r] = 0 /\ n \in 1..arrived[r]
          BY <3>1, <4>2, <5>3, OfferedTells DEF TInv
        <5>7. admitted[r] = <<>>
          BY <5>3 DEF Budget
        <5>8. arrived[r] - Len(queue[r]) = committed[r] + Len(admitted[r])
          BY <1>1, <5>3, KnownParts DEF Parted
        <5>9. arrived[r] - 0 = 0 + 0
          BY <5>5, <5>6, <5>7, <5>8
        <5> QED BY <1>2, <5>3, <5>6, <5>9
      <4> QED BY <4>1, <4>2
    <3>3. CASE Records
      <4>1. Stage(visits', admitted', bound') /\ idle' = {}
        BY <3>3, Zenon DEF Records, Stage
      <4> QED BY <1>1, <3>1, <4>1, StageAnswered DEF TInv
    <3> QED BY <1>6, <3>2, <3>3
  <2>6. Visiting'
    <3>2. Noted(visits, admitted, bound)'
      BY <2>4 DEF Noted
    <3>3. NoAcks' => /\ Answered(visits, admitted, bound)'
                     /\ \A r \in idle' : \A n \in Event : ~Offered(r, n)'
      BY <2>5 DEF Answered, Offered, IsOutcome
    <3>4. /\ signal' \in [Arms -> Signals \cup {"none", "idle"}]
          /\ bound' \subseteq Arms /\ idle' \subseteq bound' /\ pc' # "idle"
      BY <1>1, <1>2, <1>5, <2>1, <2>4
    <3> QED BY <3>2, <3>3, <3>4 DEF Visiting
  <2> QED BY <1>3, <1>4, <2>2, <2>3, <2>6 DEF TInv
<1>7. CASE Fails
  <2>1. pc' = "idle" /\ idle' = {} /\ outcome'.kind \in Silent
    BY <1>7 DEF Fails
  <2>2. CursorOfNext' = request.cursor
    BY <1>1, <2>1 DEF CursorOfNext
  <2>3. Ordered' /\ Rotated'
    BY <1>1, <1>2, <2>1, <2>2, QuietKeepsOrder DEF TInv
  <2>4. Underway'
    BY <1>1, <2>1, StillStands DEF TInv
  <2>5. Visiting'
    BY <1>1, <1>2, <1>5, <2>1 DEF Visiting
  <2> QED BY <1>3, <1>4, <2>3, <2>4, <2>5 DEF TInv
<1> QED BY <1>6, <1>7

LEMMA CursorMoves ==
    ASSUME request.cursor \in Arms, N > 1
    PROVE  NextCursor # request.cursor
<1> DEFINE c == request.cursor
<1>1. N \in Nat \ {0} /\ c \in 1..N
  BY SeamAssumption DEF Arms
<1>2. NextCursor = (c % N) + 1
  BY DEF NextCursor
<1> HIDE DEF c
<1>3. c % N = IF c < N THEN c ELSE c - N
  BY <1>1
<1>4. NextCursor # c
  BY <1>1, <1>2, <1>3
<1> QED BY <1>4 DEF c

\* A cycle ends and its outcome is written.
LEMMA ReportsStep ==
    ASSUME TInv, Inv, Budget, Runner, Reports, outcome'.kind \notin Silent,
           docs' = Append(docs, OutcomeMessage(cycles, request, outcome', visits'))
    PROVE  TInv'
<1>1. /\ pc # "idle" /\ pc' = "idle" /\ idle' = {}
      /\ UNCHANGED <<now, arrived, signal, request, cycles, committed>>
  BY RunnerSteps DEF Reports
<1>2. /\ now \in Nat /\ cycles \in Nat /\ request.logical \in Nat
      /\ signal \in [Arms -> Signals \cup {"none", "idle"}]
      /\ bound' \subseteq Arms /\ outcome.kind \in Silent
      /\ \A r \in Arms : arrived[r] \in Nat
  BY <1>1, Known, RunnerBinds DEF TInv, Ordered, Visiting, Underway
<1>3. Written /\ Ordered /\ Rotated /\ Underway /\ Replayed /\ Visiting
  BY DEF TInv
<1>4. PICK kind, v, a : /\ Stage(v, a, bound')
                        /\ Judged(kind, v, a, visits', bound')
                        /\ outcome' = Report(kind, a, bound', now)
  BY DEF Reports
<1>5. PICK m : m = OutcomeMessage(cycles, request, outcome', visits')
  OBVIOUS
<1>6. /\ Bounded(a) /\ \A r \in Arms : Len(a[r]) \in Nat
      /\ Closed(kind, a, visits', bound')
  BY <1>1, <1>3, <1>4, StageParts, ClosedBy
<1>7. /\ m.type = "poll_cycle_outcome" /\ m.id = cycles /\ m.created = now
      /\ m.cursor = NextCursor
      /\ Vouched(m)
      /\ AuthnRequired /\ ~request.receipt =>
           m.kind \notin {"events", "no_change", "logical_deadman", "partial"}
  BY <1>3, <1>4, <1>5, <1>6, ReportIsVouched
<1>8. docs' = Append(docs, m) /\ Writable(m)
  BY <1>5, <1>7 DEF Writable
<1> DEFINE l == Len(docs)
<1>9. /\ Written' /\ l \in Nat /\ l > 0 /\ Len(docs') = l + 1
      /\ \A i \in 1..l : docs'[i] = docs[i]
      /\ docs'[l + 1] = m
  BY <1>3, <1>8, WritesOn
<1> HIDE DEF l
<1>10. \A i \in 1..l : i \in 1..Len(docs') /\ (IsOutcome(i)' <=> IsOutcome(i))
  BY <1>9 DEF IsOutcome
<1>11. \A i \in 1..Len(docs') : i \in 1..l \/ i = l + 1
  BY <1>9
<1>13. Ordered'
  <2>1. ASSUME NEW i \in 1..Len(docs'), IsOutcome(i)'
        PROVE  docs'[i].created <= now /\ docs'[i].id <= cycles
    <3>1. CASE i \in 1..l
      BY <1>3, <1>9, <1>10, <2>1, <3>1 DEF Ordered, l
    <3>2. CASE i = l + 1
      BY <1>2, <1>7, <1>9, <3>2
    <3> QED BY <1>11, <3>1, <3>2
  <2>2. ASSUME NEW i \in 1..Len(docs'), NEW j \in 1..Len(docs'), IsOutcome(i)', IsOutcome(j)', i < j
        PROVE  docs'[i].created <= docs'[j].created /\ docs'[i].id < docs'[j].id
    <3>1. i \in 1..l /\ IsOutcome(i) /\ docs'[i] = docs[i]
      BY <1>9, <1>10, <1>11, <2>2
    <3>2. CASE j \in 1..l
      BY <1>3, <1>9, <1>10, <2>2, <3>1, <3>2 DEF Ordered, l
    <3>3. CASE j = l + 1
      BY <1>1, <1>3, <1>7, <1>9, <3>1, <3>3 DEF Ordered, l
    <3> QED BY <1>11, <3>2, <3>3
  <2> QED BY <1>1, <1>2, <2>1, <2>2, Zenon DEF Ordered
<1>14. Rotated'
  <2>1. ASSUME NEW i \in 1..Len(docs'), IsLast(i)' PROVE i = l + 1
    <3>1. CASE i \in 1..l
      <4>1. l + 1 \in i + 1 .. Len(docs')
        BY <1>9, <3>1
      <4>2. docs'[l + 1].type = "poll_cycle_outcome"
        BY <1>7, <1>9
      <4> QED BY <2>1, <4>1, <4>2 DEF IsLast, IsOutcome
    <3> QED BY <1>11, <3>1
  <2>2. NextCursor' = NextCursor /\ CursorOfNext' = NextCursor
    BY <1>1 DEF NextCursor, CursorOfNext
  <2>3. ASSUME NEW i \in 1..Len(docs'), IsLast(i)'
        PROVE  docs'[i].cursor = IF pc' = "idle" THEN CursorOfNext' ELSE request'.cursor
    BY <1>1, <1>7, <1>9, <2>1, <2>2, <2>3
  <2>4. ASSUME NEW i \in 1..Len(docs'), NEW j \in 1..Len(docs'), N > 1, IsOutcome(i)', IsLast(j)', i < j
        PROVE  \E k \in 1..Len(docs') : IsOutcome(k)' /\ docs'[k].cursor # docs'[j].cursor
    <3>1. j = l + 1
      BY <2>1, <2>4
    <3>2. i \in 1..l /\ IsOutcome(i)
      BY <1>9, <1>10, <1>11, <2>4, <3>1
    <3>3. PICK k \in i..l : IsLast(k)
      BY <1>9, <3>2, LastExists DEF l
    <3>4. k \in 1..l /\ IsOutcome(k)
      BY <1>9, <3>2, <3>3 DEF IsLast
    <3>5. docs[k].cursor = request.cursor
      BY <1>1, <1>3, <3>3, <3>4 DEF Rotated, l
    <3>6. NextCursor # request.cursor
      BY <2>4, Known, CursorMoves
    <3>7. docs'[k].cursor # docs'[j].cursor
      BY <1>7, <1>9, <3>1, <3>4, <3>5, <3>6
    <3> QED BY <1>10, <3>4, <3>7
  <2> QED BY <2>3, <2>4 DEF Rotated
<1>15. Underway'
  <2>1. PICK i \in 2..Len(docs) : Stands(i)
    BY <1>1, <1>3 DEF Underway
  <2>2. docs[i] = RequestMessage(request) /\ i = l
    BY <1>2, <2>1 DEF Stands, l
  <2>3. docs'[i] = RequestMessage(request') /\ i < Len(docs') /\ i \in 2..Len(docs')
        /\ docs'[i + 1] = m /\ i + 2 > Len(docs')
    BY <1>1, <1>9, <2>1, <2>2 DEF l
  <2>4. \A j \in i + 2 .. Len(docs') : FALSE
    BY <1>9, <2>3
  <2>5. Stands(i)'
    BY <1>1, <1>7, <2>3, <2>4 DEF Stands, IsOutcome, RequestMessage
  <2> QED BY <1>1, <2>3, <2>5 DEF Underway
<1>16. Replayed'
  <2> SUFFICES ASSUME NoAcks'
               PROVE  /\ \A r \in Arms : committed'[r] = 0
                      /\ \A i \in 1..Len(docs') : IsOutcome(i)' => \A e \in docs'[i].events :
                           \E r \in Arms : \E n \in 1..arrived'[r] :
                              /\ e = <<r, n>>
                              /\ MaxTake > 0 /\ MaxTakeOf[r] > 0 /\ 1 \notin Oversized[r]
                      /\ \A i, j \in 1..Len(docs') :
                           IsOutcome(i)' /\ IsOutcome(j)' /\ i < j /\ Claims(docs'[j]) =>
                              \A e \in docs'[i].events : e[1] \in Required => e \in docs'[j].events
    BY Zenon DEF Replayed
  <2>1. NoAcks
    BY <1>9, <1>10 DEF NoAcks, l
  <2>2. \A r \in Arms : committed[r] = 0
    BY <1>3, <2>1 DEF Replayed
  <2>3. ASSUME NEW i \in 1..l, IsOutcome(i), NEW e \in docs[i].events
        PROVE  \E r \in Arms : \E n \in 1..arrived[r] :
                  /\ e = <<r, n>>
                  /\ MaxTake > 0 /\ MaxTakeOf[r] > 0 /\ 1 \notin Oversized[r]
    BY <1>3, <2>1, <2>3 DEF Replayed, l
  <2>4. ASSUME NEW e \in m.events
        PROVE  \E r \in Arms : \E n \in 1..arrived[r] :
                  /\ e = <<r, n>>
                  /\ MaxTake > 0 /\ MaxTakeOf[r] > 0 /\ 1 \notin Oversized[r]
    <3>1. m.events = UNION {EventsOf(r, outcome'.events[r]) : r \in outcome'.arms}
      BY <1>5, MessageIs
    <3>2. /\ outcome'.arms = KnownStarts(bound')
          /\ outcome'.events = a \/ outcome'.events = NoEvents
      BY <1>4, ReportIs
    <3>3. PICK r \in outcome'.arms : e \in EventsOf(r, outcome'.events[r])
      BY <2>4, <3>1
    <3>4. r \in Arms
      BY <3>2, <3>3 DEF KnownStarts
    <3>5. outcome'.events = a
      <4> SUFFICES ASSUME outcome'.events = NoEvents PROVE FALSE
        BY <3>2
      <4>1. outcome'.events[r] = <<>> /\ Len(<<>>) = 0
        BY <3>4 DEF NoEvents
      <4> QED BY <3>3, <4>1 DEF EventsOf
    <3> QED BY <1>1, <1>4, <2>2, <3>3, <3>4, <3>5, ShowsAgain
  <2>5. ASSUME NEW i \in 1..l, IsOutcome(i), Claims(m), NEW e \in docs[i].events, e[1] \in Required
        PROVE  e \in m.events
    <3>1. PICK r \in Arms : \E n \in 1..arrived[r] : e = <<r, n>>
      BY <2>3, <2>5
    <3>2. PICK n \in 1..arrived[r] : e = <<r, n>>
      BY <3>1
    <3>3. r \in Required /\ n \in Event
      BY <2>5, <3>2, Known DEF Event
    <3>4. Offered(r, n)
      BY <2>5, <3>2 DEF Offered, l
    <3>5. <<r, n>> \in m.events
      BY <1>1, <1>3, <1>4, <1>5, <2>1, <2>5, <3>3, <3>4, ClaimShowsAll
    <3> QED BY <3>2, <3>5
  <2>6. ASSUME NEW i \in 1..Len(docs'), IsOutcome(i)', NEW e \in docs'[i].events
        PROVE  \E r \in Arms : \E n \in 1..arrived'[r] :
                  /\ e = <<r, n>>
                  /\ MaxTake > 0 /\ MaxTakeOf[r] > 0 /\ 1 \notin Oversized[r]
    <3>1. CASE i \in 1..l
      BY <1>1, <1>9, <1>10, <2>3, <2>6, <3>1
    <3>2. CASE i = l + 1
      BY <1>1, <1>9, <2>4, <2>6, <3>2
    <3> QED BY <1>11, <3>1, <3>2
  <2>7. ASSUME NEW i \in 1..Len(docs'), NEW j \in 1..Len(docs'), IsOutcome(i)', IsOutcome(j)', i < j,
               Claims(docs'[j]), NEW e \in docs'[i].events, e[1] \in Required
        PROVE  e \in docs'[j].events
    <3>1. i \in 1..l /\ IsOutcome(i) /\ docs'[i] = docs[i]
      BY <1>9, <1>10, <1>11, <2>7
    <3>2. CASE j \in 1..l
      BY <1>3, <1>9, <1>10, <2>1, <2>7, <3>1, <3>2 DEF Replayed, l
    <3>3. CASE j = l + 1
      BY <1>9, <2>5, <2>7, <3>1, <3>3
    <3> QED BY <1>11, <3>2, <3>3
  <2> QED BY <1>1, <2>2, <2>6, <2>7
<1>17. Visiting'
  BY <1>1, <1>2 DEF Visiting
<1> QED BY <1>9, <1>13, <1>14, <1>15, <1>16, <1>17 DEF TInv

-----------------------------------------------------------------------------
(* The invariant. *)

LEMMA EndsStep ==
    ASSUME TInv, Inv, Budget, Ends
    PROVE  TInv'
<1>1. /\ Runner
      /\ docs' = IF pc' = "idle" /\ outcome'.kind \notin Silent
                 THEN Append(docs, OutcomeMessage(cycles, request, outcome', visits'))
                 ELSE docs
  BY DEF Ends
<1>2. Proceeds \/ Records \/ Reports \/ Fails
  BY <1>1, RunnerSteps
<1>3. CASE Proceeds \/ Records \/ Fails
  <2>1. docs' = docs
    BY <1>1, <1>3 DEF Proceeds, Records, Fails
  <2> QED BY <1>1, <1>3, <2>1, RunsStep
<1>4. CASE Reports /\ outcome'.kind \in Silent
  <2>1. docs' = docs /\ Fails
    BY <1>1, <1>4 DEF Reports, Fails
  <2> QED BY <1>1, <2>1, RunsStep
<1>5. CASE Reports /\ outcome'.kind \notin Silent
  <2>1. docs' = Append(docs, OutcomeMessage(cycles, request, outcome', visits'))
    BY <1>1, <1>5 DEF Reports
  <2> QED BY <1>1, <1>5, <2>1, ReportsStep
<1> QED BY <1>2, <1>3, <1>4, <1>5

LEMMA TInvHoldsFirst == TInit => TInv
<1> SUFFICES ASSUME TInit PROVE TInv
  OBVIOUS
<1>1. /\ docs = <<SetMessage>> /\ pc = "idle" /\ cycles = 0 /\ now = 0 /\ bound = {} /\ idle = {}
      /\ request.logical = 0 /\ outcome = NoOutcome("none")
      /\ committed = [r \in Arms |-> 0] /\ signal = [r \in Arms |-> "none"]
  BY DEF TInit, Init, SeamInit
<1>2. /\ Len(docs) = 1 /\ docs[1] = SetMessage
      /\ \A i \in 1..Len(docs) : i = 1
  BY <1>1
<1>3. docs \in Seq(Elements(docs))
  <2>1. SetMessage \in Elements(docs)
    <3>1. 1 \in 1..Len(docs)
      BY <1>2
    <3> QED BY <1>2, <3>1 DEF Elements
  <2> HIDE DEF SetMessage
  <2> DEFINE S == Elements(docs)
  <2> HIDE DEF S
  <2>2. <<SetMessage>> \in Seq(S)
    BY <2>1 DEF S
  <2> QED BY <1>1, <2>2 DEF S
<1>4. \A i \in 1..Len(docs) : ~IsOutcome(i)
  BY <1>2 DEF IsOutcome, SetMessage
<1>5. Written
  <2>1. \A i \in 2..Len(docs) : FALSE
    BY <1>2
  <2> QED BY <1>2, <1>3, <2>1 DEF Written
<1>6. Ordered
  BY <1>1, <1>4 DEF Ordered
<1>7. Rotated
  BY <1>4 DEF Rotated, IsLast
<1>8. Underway
  BY <1>1, <1>2, NoOutcomeIsSilent DEF Underway
<1>9. Replayed
  BY <1>1, <1>4 DEF Replayed
<1>10. Visiting
  BY <1>1 DEF Visiting
<1> QED BY <1>5, <1>6, <1>7, <1>8, <1>9, <1>10 DEF TInv

\* A caller that keeps its messages is a caller of PollCycle.
LEMMA TStepIsStep == [TNext]_tvars => [Next]_vars
<1> SUFFICES ASSUME [TNext]_tvars PROVE [Next]_vars
  OBVIOUS
<1>1. CASE UNCHANGED tvars
  BY <1>1 DEF tvars
<1>2. CASE TNext
  BY <1>2, Zenon DEF TNext, Starts, Acks, Ends, Others, Next, Caller
<1> QED BY <1>1, <1>2

LEMMA TInvStep == Inv /\ Budget /\ TInv /\ [TNext]_tvars => TInv'
<1> SUFFICES ASSUME Inv, Budget, TInv, [TNext]_tvars PROVE TInv'
  OBVIOUS
<1>1. CASE UNCHANGED tvars
  <2>1. UNCHANGED <<docs, pc, cycles, now, arrived, signal, request, bound, idle, visits, admitted,
                    outcome, committed>>
    BY <1>1 DEF tvars, vars, seamVars, cycleVars, callerVars
  <2>2. docs' = docs /\ Quiet
    BY <2>1 DEF Quiet
  <2>3. /\ now \in Nat /\ cycles \in Nat /\ request.logical \in Nat
        /\ \A r \in Arms : arrived[r] \in Nat
    BY Known DEF TInv, Ordered
  <2>4. CursorOfNext' = CursorOfNext
    BY <2>1 DEF CursorOfNext, NextCursor
  <2>5. Ordered' /\ Rotated'
    BY <2>1, <2>2, <2>3, <2>4, QuietKeepsOrder DEF TInv
  <2>6. Underway'
    BY <2>1, StillStands DEF TInv
  <2>7. Replayed'
    BY <2>1, <2>2, <2>3, QuietKeepsReplay DEF TInv
  <2>8. Written'
    BY <2>1 DEF TInv, Written, IsOutcome, SetMessage
  <2>9. Visiting'
    BY <2>1 DEF TInv, Visiting, Noted, Answered, Offered, IsOutcome, NoAcks
  <2> QED BY <2>5, <2>6, <2>7, <2>8, <2>9 DEF TInv
<1>2. CASE Starts
  BY <1>2, StartsStep
<1>3. CASE Acks
  BY <1>3, AcksStep
<1>4. CASE Ends
  BY <1>4, EndsStep
<1>5. CASE Others
  BY <1>5, OthersStep
<1> QED BY <1>1, <1>2, <1>3, <1>4, <1>5 DEF TNext

\* What the messages of a caller say of each other and of the cycle under way:
\* written and numbered in order, one after the other under another cursor,
\* and, until the first ack, none that claims to show all hides what an earlier
\* one showed.
THEOREM TranscriptInvariance == TSpec => [](Inv /\ Budget /\ TInv)
<1>1. TInit => Inv /\ Budget /\ TInv
  <2>1. TInit => Init
    BY DEF TInit
  <2> QED BY <2>1, InvHoldsFirst, BudgetHoldsFirst, TInvHoldsFirst
<1>2. (Inv /\ Budget /\ TInv) /\ [TNext]_tvars => (Inv /\ Budget /\ TInv)'
  BY TStepIsStep, InvStep, BudgetStep, TInvStep
<1> QED BY <1>1, <1>2, PTL DEF TSpec

-----------------------------------------------------------------------------
(* What the rules find in messages that were all written by the caller. *)

LEMMA MessagesAre ==
    ASSUME Written, NEW s, \A i \in 1..Len(s) : \E j \in 1..Len(docs) : s[i] = docs[j]
    PROVE  /\ \A T : \A d \in OfType(s, T) :
                \E j \in 1..Len(docs) : d = docs[j] /\ docs[j].type \in T
           /\ \A j \in 1..Len(docs) : IsOutcome(j) => Vouched(docs[j])
           /\ \A j \in 1..Len(docs) : docs[j].type = "poll_cycle_ack" =>
                \E k \in 1..Len(docs) : IsOutcome(k) /\ docs[j] = AckMessage(docs[k])
           /\ \A j \in 1..Len(docs) : docs[j].type = "poll_cycle_request" =>
                docs[j].required = Required /\ docs[j].run <= docs[j].logical
           /\ \A j \in 1..Len(docs) :
                /\ docs[j].type = "registration_set" => docs[j] = SetMessage
                /\ docs[j].type \in {"registration_set", "poll_cycle_request",
                                     "poll_cycle_outcome", "poll_cycle_ack"}
<1>1. ASSUME NEW T, NEW d \in OfType(s, T)
      PROVE  \E j \in 1..Len(docs) : d = docs[j] /\ docs[j].type \in T
  <2>1. PICK i \in 1..Len(s) : s[i].type \in T /\ d = s[i]
    BY DEF OfType
  <2> QED BY <2>1
<1>2. Len(docs) \in Nat /\ Len(docs) > 0 /\ docs[1] = SetMessage
  BY LenProperties DEF Written
<1>3. SetMessage.type = "registration_set"
  BY DEF SetMessage
<1>4. ASSUME NEW j \in 1..Len(docs), j # 1
      PROVE  \/ /\ docs[j].type = "poll_cycle_request"
                /\ docs[j].run <= docs[j].logical /\ docs[j].required = Required
             \/ docs[j].type = "poll_cycle_outcome" /\ Vouched(docs[j])
             \/ /\ docs[j].type = "poll_cycle_ack"
                /\ \E k \in 1..Len(docs) : IsOutcome(k) /\ docs[j] = AckMessage(docs[k])
  <2>1. j \in 2..Len(docs)
    BY <1>2, <1>4
  <2> QED BY <2>1 DEF Written, IsOutcome
<1>5. ASSUME NEW j \in 1..Len(docs)
      PROVE  /\ IsOutcome(j) => Vouched(docs[j])
             /\ docs[j].type = "poll_cycle_ack" =>
                  \E k \in 1..Len(docs) : IsOutcome(k) /\ docs[j] = AckMessage(docs[k])
             /\ docs[j].type = "poll_cycle_request" =>
                  docs[j].required = Required /\ docs[j].run <= docs[j].logical
             /\ docs[j].type = "registration_set" => docs[j] = SetMessage
             /\ docs[j].type \in {"registration_set", "poll_cycle_request",
                                  "poll_cycle_outcome", "poll_cycle_ack"}
  <2>1. CASE j = 1
    BY <1>2, <1>3, <2>1 DEF IsOutcome
  <2>2. CASE j # 1
    BY <1>4, <2>2 DEF IsOutcome
  <2> QED BY <2>1, <2>2
<1> QED BY <1>1, <1>5

\* The rules that hold of any of them.
LEMMA RulesHold ==
    ASSUME Written, Ordered, NEW s,
           \A i \in 1..Len(s) : \E j \in 1..Len(docs) : s[i] = docs[j]
    PROVE  /\ PerMessage(s) /\ CoverageCardinality(s) /\ AckRules(s) /\ BoundsKept(s)
           /\ \A o \in PollOutcomes(s) : \E j \in 1..Len(docs) : /\ o = docs[j] /\ IsOutcome(j)
                                                                 /\ Vouched(o)
           /\ \A T : OfType(s, T) = OfType(s, T \cap {"registration_set", "poll_cycle_request",
                                                      "poll_cycle_outcome", "poll_cycle_ack"})
           /\ OfType(s, {"registration_set"}) \subseteq {SetMessage}
<1>1. /\ \A T : \A d \in OfType(s, T) : \E j \in 1..Len(docs) : d = docs[j] /\ docs[j].type \in T
      /\ \A j \in 1..Len(docs) : IsOutcome(j) => Vouched(docs[j])
      /\ \A j \in 1..Len(docs) : docs[j].type = "poll_cycle_ack" =>
           \E k \in 1..Len(docs) : IsOutcome(k) /\ docs[j] = AckMessage(docs[k])
      /\ \A j \in 1..Len(docs) : docs[j].type = "poll_cycle_request" =>
           docs[j].required = Required /\ docs[j].run <= docs[j].logical
      /\ \A j \in 1..Len(docs) :
           /\ docs[j].type = "registration_set" => docs[j] = SetMessage
           /\ docs[j].type \in {"registration_set", "poll_cycle_request",
                                "poll_cycle_outcome", "poll_cycle_ack"}
  BY MessagesAre
<1>2. ASSUME NEW o \in PollOutcomes(s)
      PROVE  \E j \in 1..Len(docs) : o = docs[j] /\ IsOutcome(j) /\ Vouched(o)
  <2>1. PICK j \in 1..Len(docs) : o = docs[j] /\ docs[j].type = "poll_cycle_outcome"
    BY <1>1 DEF PollOutcomes
  <2> QED BY <1>1, <2>1 DEF IsOutcome
<1>3. ASSUME NEW T
      PROVE  OfType(s, T) = OfType(s, T \cap {"registration_set", "poll_cycle_request",
                                              "poll_cycle_outcome", "poll_cycle_ack"})
  <2>1. \A i \in 1..Len(s) : s[i].type \in {"registration_set", "poll_cycle_request",
                                            "poll_cycle_outcome", "poll_cycle_ack"}
    BY <1>1
  <2> QED BY <2>1 DEF OfType
<1>4. OfType(s, {"registration_set"}) \subseteq {SetMessage}
  <2> SUFFICES ASSUME NEW d \in OfType(s, {"registration_set"}) PROVE d = SetMessage
    OBVIOUS
  <2>1. PICK j \in 1..Len(docs) : d = docs[j] /\ docs[j].type = "registration_set"
    BY <1>1
  <2> QED BY <1>1, <2>1
<1>5. PerMessage(s)
  <2> SUFFICES ASSUME NEW i \in 1..Len(s)
               PROVE  DeadlinesOrdered(s[i]) /\ (s[i].type \in Outcomes => OutcomeNormative(s[i]))
    BY DEF PerMessage
  <2>1. PICK j \in 1..Len(docs) : s[i] = docs[j]
    OBVIOUS
  <2>2. DeadlinesOrdered(docs[j])
    BY <1>1 DEF DeadlinesOrdered, Citations
  <2>3. docs[j].type \in Outcomes => OutcomeNormative(docs[j])
    <3>1. docs[j].type \in Outcomes => IsOutcome(j)
      BY <1>1 DEF Outcomes, IsOutcome
    <3> QED BY <1>1, <3>1 DEF Vouched
  <2> QED BY <2>1, <2>2, <2>3
<1>6. CoverageCardinality(s)
  <2> DEFINE requests == OfType(s, {"poll_cycle_request"})
             required == UNION {d.required : d \in requests}
  <2>1. required \subseteq Required
    <3> SUFFICES ASSUME NEW d \in requests PROVE d.required \subseteq Required
      OBVIOUS
    <3>1. PICK j \in 1..Len(docs) : d = docs[j] /\ docs[j].type = "poll_cycle_request"
      BY <1>1
    <3> QED BY <1>1, <3>1
  <2> HIDE DEF required
  <2>2. ASSUME NEW o \in PollOutcomes(s), o.complete PROVE required \subseteq {a.arm : a \in o.arms}
    BY <1>2, <2>1, <2>2 DEF Vouched
  <2> QED BY <2>2 DEF CoverageCardinality, required
<1>7. AckRules(s)
  <2> SUFFICES ASSUME NEW k \in OfType(s, {"poll_cycle_ack"}), NEW o \in PollOutcomes(s), k.outcome = o.id
               PROVE  \A r \in DOMAIN k.committed :
                         /\ r \in DOMAIN o.retained /\ k.committed[r] = o.retained[r]
                         /\ k.events[r] \subseteq o.retainedEvents[r]
    BY DEF AckRules
  <2>1. PICK i \in 1..Len(docs) : o = docs[i] /\ IsOutcome(i) /\ Vouched(o)
    BY <1>2
  <2>2. PICK j \in 1..Len(docs) : k = docs[j] /\ docs[j].type = "poll_cycle_ack"
    BY <1>1
  <2>3. PICK l \in 1..Len(docs) : IsOutcome(l) /\ k = AckMessage(docs[l])
    BY <1>1, <2>2
  <2>4. docs[l].id = docs[i].id /\ k.committed = docs[l].retained /\ k.events = docs[l].retainedEvents
    BY <2>1, <2>3 DEF AckMessage
  <2>5. docs[i].id \in Nat
    BY <2>1 DEF Vouched
  <2>6. ~(i < l) /\ ~(l < i)
    BY <2>1, <2>3, <2>4, <2>5 DEF Ordered
  <2>7. i = l
    BY <2>6
  <2> QED BY <2>1, <2>4, <2>7
<1>8. BoundsKept(s)
  <2> SUFFICES ASSUME NEW t \in Sets(s), NEW o \in OfType(s, Outcomes)
               PROVE  /\ Cardinality(o.events) <= t.max
                      /\ \A r \in DOMAIN t.maxOf : Cardinality({e \in o.events : e[1] = r}) <= t.maxOf[r]
    BY Zenon DEF BoundsKept
  <2>1. t = SetMessage
    BY <1>4 DEF Sets
  <2>2. t.max = MaxTake /\ t.maxOf = MaxTakeOf /\ DOMAIN MaxTakeOf = Arms
    BY <2>1, PollCycleAssumption DEF SetMessage
  <2>3. PICK j \in 1..Len(docs) : o = docs[j] /\ docs[j].type \in Outcomes
    BY <1>1
  <2>4. Vouched(o)
    <3>1. IsOutcome(j)
      BY <1>1, <2>3 DEF Outcomes, IsOutcome
    <3> QED BY <1>1, <2>3, <3>1
  <2> QED BY <2>2, <2>4 DEF Vouched
<1> QED BY <1>2, <1>3, <1>4, <1>5, <1>6, <1>7, <1>8

LEMMA FiniteMessages ==
    ASSUME NEW s, Len(s) \in Nat, NEW T, NEW X, X \subseteq OfType(s, T)
    PROVE  IsFiniteSet(X) /\ Cardinality(X) \in Nat
<1> DEFINE I == {j \in 1..Len(s) : s[j].type \in T}
           M == OfType(s, T)
           f == [i \in I |-> s[i]]
<1>1. IsFiniteSet(1..Len(s))
  BY FS_Interval
<1>2. IsFiniteSet(I)
  BY <1>1, FS_Subset
<1>3. M = {s[i] : i \in I}
  BY Zenon DEF OfType
<1> HIDE DEF I, M
<1>4. f \in Surjection(I, M)
  BY <1>3 DEF Surjection
<1> HIDE DEF f
<1>5. IsFiniteSet(M)
  BY <1>2, <1>4, FS_Surjection
<1>6. IsFiniteSet(X)
  BY <1>5, FS_Subset DEF M
<1> QED BY <1>6, FS_CardinalityType

LEMMA CursorsFinite ==
    ASSUME NEW X, IsFiniteSet(X), NEW C, C = {p.cursor : p \in X}
    PROVE  IsFiniteSet(C)
<1> DEFINE f == [p \in X |-> p.cursor]
<1>1. f \in Surjection(X, C)
  BY DEF Surjection
<1> HIDE DEF f
<1> QED BY <1>1, FS_Surjection

LEMMA NoOneStarves ==
    ASSUME Written, Ordered, Rotated
    PROVE  FairnessStarvation(docs)
<1> SUFFICES ASSUME NEW o \in PollOutcomes(docs), NEW mine,
                    mine = {p \in PollOutcomes(docs) : p.waiter = o.waiter},
                    Cardinality(mine) >= 2, Cardinality({p.cursor : p \in mine}) = 1,
                    NEW arm \in UNION {{a.arm : a \in RequiredArms(p)} : p \in mine},
                    \E p \in mine : \E a \in RequiredArms(p) : a.arm # arm /\ a.status = "events"
             PROVE  FALSE
  BY Zenon DEF FairnessStarvation
<1>1. Len(docs) \in Nat
  BY LenProperties DEF Written
<1>2. \A p \in PollOutcomes(docs) : \E j \in 1..Len(docs) : p = docs[j] /\ IsOutcome(j) /\ Vouched(p)
  BY RulesHold
<1>3. \A j \in 1..Len(docs) : IsOutcome(j) => docs[j] \in PollOutcomes(docs)
  BY DEF PollOutcomes, OfType, IsOutcome
<1>4. \A j \in 1..Len(docs) : IsOutcome(j) => docs[j] \in mine
  <2> SUFFICES ASSUME NEW j \in 1..Len(docs), IsOutcome(j) PROVE docs[j].waiter = o.waiter
    BY <1>3
  <2>1. docs[j].waiter = 1 /\ o.waiter = 1
    BY <1>2, <1>3 DEF Vouched
  <2> QED BY <2>1
<1>5. N \in Nat \ {0} /\ Arms = 1..N
  BY SeamAssumption DEF Arms
<1>6. CASE N = 1
  <2>1. PICK p \in mine : \E a \in RequiredArms(p) : a.arm # arm
    OBVIOUS
  <2>2. PICK a \in RequiredArms(p) : a.arm # arm
    BY <2>1
  <2>3. PICK q \in mine : \E b \in RequiredArms(q) : arm = b.arm
    OBVIOUS
  <2>4. PICK b \in RequiredArms(q) : arm = b.arm
    BY <2>3
  <2>5. a.arm \in Arms /\ b.arm \in Arms
    <3>1. Vouched(p) /\ Vouched(q) /\ a \in p.arms /\ b \in q.arms
      BY <1>2, <2>2, <2>4 DEF RequiredArms
    <3> QED BY <3>1 DEF Vouched
  <2> QED BY <1>5, <1>6, <2>2, <2>4, <2>5
<1>7. CASE N > 1
  <2>1. PICK p \in mine : p # o
    <3> SUFFICES ASSUME \A p \in mine : p = o PROVE FALSE
      OBVIOUS
    <3>1. mine = {o}
      OBVIOUS
    <3>2. Cardinality(mine) = 1
      BY <3>1, FS_Singleton
    <3> QED BY <3>2
  <2>2. PICK i \in 1..Len(docs) : p = docs[i] /\ IsOutcome(i)
    BY <1>2, <2>1
  <2>3. PICK j \in 1..Len(docs) : o = docs[j] /\ IsOutcome(j)
    BY <1>2
  <2>4. \E k, l \in 1..Len(docs) : k < l /\ IsOutcome(k) /\ IsOutcome(l)
    <3>1. i < j \/ j < i
      BY <2>1, <2>2, <2>3
    <3> QED BY <2>2, <2>3, <3>1
  <2>5. PICK k, l \in 1..Len(docs) : k < l /\ IsOutcome(k) /\ IsOutcome(l)
    BY <2>4
  <2>6. PICK last \in l..Len(docs) : IsLast(last)
    BY <1>1, <2>5, LastExists
  <2>7. last \in 1..Len(docs) /\ k < last /\ IsOutcome(last)
    BY <1>1, <2>5, <2>6 DEF IsLast
  <2>8. PICK m \in 1..Len(docs) : IsOutcome(m) /\ docs[m].cursor # docs[last].cursor
    BY <1>7, <2>5, <2>6, <2>7 DEF Rotated
  <2> DEFINE C == {q.cursor : q \in mine}
  <2>9. docs[m].cursor \in C /\ docs[last].cursor \in C
    BY <1>4, <2>7, <2>8
  <2>10. IsFiniteSet(C)
    <3>1. mine \subseteq OfType(docs, {"poll_cycle_outcome"})
      BY DEF PollOutcomes
    <3>2. IsFiniteSet(mine)
      BY <1>1, <3>1, FiniteMessages
    <3> QED BY <3>2, CursorsFinite
  <2>11. Cardinality(C) = 1
    OBVIOUS
  <2> HIDE DEF C
  <2>12. PICK x : C = {x}
    BY <2>10, <2>11, FS_Singleton
  <2> QED BY <2>8, <2>9, <2>12
<1> QED BY <1>5, <1>6, <1>7

\* Without acks the first outcome is the first written, the last the last.
LEMMA FirstAndLastAre ==
    ASSUME Written, Ordered, PollOutcomes(docs) # {}
    PROVE  \E i, j \in 1..Len(docs) : /\ i <= j /\ IsOutcome(i) /\ IsOutcome(j)
                                      /\ FirstAndLast(docs)[1] = docs[i]
                                      /\ FirstAndLast(docs)[2] = docs[j]
<1> DEFINE at == {i \in 1..Len(docs) : docs[i].type = "poll_cycle_outcome"}
           before(i, j) == \/ docs[i].created < docs[j].created
                           \/ docs[i].created = docs[j].created /\ i <= j
           first == CHOOSE i \in at : \A j \in at : before(i, j)
           last == CHOOSE i \in at : \A j \in at : before(j, i)
<1>1. Len(docs) \in Nat
  BY LenProperties DEF Written
<1>2. \A i \in at : IsOutcome(i) /\ i \in 1..Len(docs) /\ docs[i].created \in Nat
  <2> SUFFICES ASSUME NEW i \in at PROVE IsOutcome(i) /\ docs[i].created \in Nat
    OBVIOUS
  <2>1. IsOutcome(i)
    BY DEF IsOutcome
  <2>2. Vouched(docs[i])
    BY <2>1, MessagesAre
  <2> QED BY <2>1, <2>2 DEF Vouched
<1>3. \A i, j \in at : i <= j => before(i, j)
  <2> SUFFICES ASSUME NEW i \in at, NEW j \in at, i <= j PROVE before(i, j)
    OBVIOUS
  <2>1. CASE i = j
    BY <1>2, <2>1
  <2>2. CASE i < j
    <3>1. docs[i].created <= docs[j].created
      BY <1>2, <2>2 DEF Ordered
    <3> QED BY <1>2, <3>1
  <2> QED BY <1>2, <2>1, <2>2
<1>4. PICK a \in at : \A j \in at : a <= j
  <2>1. at # {}
    BY DEF PollOutcomes, OfType
  <2>2. at \in SUBSET Nat
    BY <1>2
  <2> HIDE DEF at
  <2> QED BY <2>1, <2>2, Least
<1>5. PICK b \in at : \A j \in at : j <= b
  <2>1. a \in 1..Len(docs) /\ IsOutcome(a)
    BY <1>2
  <2>2. PICK b \in a..Len(docs) : IsLast(b)
    BY <1>1, <2>1, LastExists
  <2>3. b \in at
    BY <1>1, <2>1, <2>2 DEF IsLast, IsOutcome
  <2>4. ASSUME NEW j \in at PROVE j <= b
    <3>1. IsOutcome(j) /\ j \in 1..Len(docs)
      BY <1>2
    <3>2. j \notin b + 1 .. Len(docs)
      BY <2>2, <3>1 DEF IsLast
    <3> QED BY <1>1, <2>2, <3>1, <3>2
  <2> QED BY <2>3, <2>4
<1>6. FirstAndLast(docs) = <<docs[first], docs[last]>>
  BY Zenon DEF FirstAndLast
<1>7. (\A j \in at : before(a, j)) /\ (\A j \in at : before(j, b))
  BY <1>3, <1>4, <1>5
<1> HIDE DEF at, before
<1>8. first \in at /\ \A j \in at : before(first, j)
  BY <1>7, Zenon
<1>9. last \in at /\ \A j \in at : before(j, last)
  BY <1>7, Zenon
<1> HIDE DEF first, last
<1>10. first <= last
  <2>1. before(first, last)
    BY <1>8, <1>9
  <2>2. before(first, a) /\ before(b, last)
    BY <1>4, <1>5, <1>8, <1>9
  <2>3. a <= first /\ last <= b
    BY <1>4, <1>5, <1>8, <1>9
  <2>4. a <= last
    BY <1>4, <1>9
  <2>5. CASE first > last
    <3>1. last <= first /\ before(last, first)
      BY <1>2, <1>3, <1>8, <1>9, <2>5
    <3> QED BY <1>2, <1>8, <1>9, <2>1, <2>5, <3>1 DEF before
  <2> QED BY <1>2, <1>8, <1>9, <2>5
<1>11. /\ first \in 1..Len(docs) /\ last \in 1..Len(docs) /\ IsOutcome(first) /\ IsOutcome(last)
       /\ FirstAndLast(docs)[1] = docs[first] /\ FirstAndLast(docs)[2] = docs[last]
  BY <1>2, <1>6, <1>8, <1>9
<1> QED BY <1>10, <1>11

LEMMA ClaimsAreNotSilent ==
    ASSUME Written, Ordered, Replayed, Cardinality(PollOutcomes(docs)) >= 2,
           Claims(FirstAndLast(docs)[2]), Shows(FirstAndLast(docs)[1]) \subseteq Required
    PROVE  SilentCursorAdvance(docs)
<1> DEFINE first == FirstAndLast(docs)[1]
           last == FirstAndLast(docs)[2]
<1> SUFFICES ASSUME OfType(docs, {"poll_cycle_ack"}) = {} PROVE first.events \subseteq last.events
  BY Zenon DEF SilentCursorAdvance
<1>1. NoAcks
  BY DEF NoAcks, OfType
<1>2. PollOutcomes(docs) # {}
  BY FS_EmptySet
<1>3. PICK i, j \in 1..Len(docs) : /\ i <= j /\ IsOutcome(i) /\ IsOutcome(j)
                                   /\ first = docs[i] /\ last = docs[j]
  BY <1>2, FirstAndLastAre
<1>4. \A e \in first.events : e[1] \in Required
  BY DEF Shows
<1>5. Claims(last)
  OBVIOUS
<1> HIDE DEF first, last
<1>6. CASE i < j
  BY <1>1, <1>3, <1>4, <1>5, <1>6 DEF Replayed
<1>7. CASE i = j
  BY <1>3, <1>7
<1> QED BY <1>3, <1>6, <1>7

LEMMA TInvAdmitsAll == TInv => TranscriptIsAdmitted
<1> SUFFICES ASSUME TInv PROVE TranscriptIsAdmitted
  OBVIOUS
<1>1. CoverageCardinality(docs) /\ AckRules(docs) /\ BoundsKept(docs)
  BY RulesHold DEF TInv
<1>2. FairnessStarvation(docs)
  BY NoOneStarves DEF TInv
<1> QED BY <1>1, <1>2, ClaimsAreNotSilent DEF TInv, TranscriptIsAdmitted

\* Over any number of cycles, with acks, restarts, cancellations and dropped
\* futures between them, the messages of a caller of run_poll_cycle are clear
\* of starvation, no ack commits more than its outcome retained, the bounds are
\* kept, and an outcome that claims complete coverage is never mistaken for a
\* silent advance of required arms.
THEOREM TranscriptHolds == TSpec => []TranscriptIsAdmitted
BY TranscriptInvariance, TInvAdmitsAll, PTL

-----------------------------------------------------------------------------
(* The messages of the last cycle alone. *)

\* What they are, as a sequence s: the set, the request at place i, and what
\* has been written since.
CycleIs(s, i) ==
    /\ Len(s) \in Nat /\ Len(s) >= 2
    /\ s[1] = SetMessage /\ s[2] = RequestMessage(request)
    /\ \A k \in 3..Len(s) : \/ s[k].type = "poll_cycle_ack"
                            \/ outcome.kind \notin Silent /\ s[k] = docs[i + 1]
    /\ \A k \in 1..Len(s) : \E j \in 1..Len(docs) : s[k] = docs[j]

LEMMA LastCycleIs ==
    ASSUME TInv, Len(docs) > 1
    PROVE  \E i \in 2..Len(docs) : Stands(i) /\ CycleIs(LastCycle, i)
<1>1. Len(docs) \in Nat /\ docs \in Seq(Elements(docs)) /\ docs[1] = SetMessage
  BY LenProperties DEF TInv, Written
<1>2. PICK i \in 2..Len(docs) : Stands(i)
  <2>1. Len(docs) # 1
    OBVIOUS
  <2> QED BY <2>1, Zenon DEF TInv, Underway
<1>3. docs[i] = RequestMessage(request) /\ docs[i].type = "poll_cycle_request"
  BY <1>2 DEF Stands, RequestMessage
<1>4. \A k \in i + 1 .. Len(docs) :
         \/ docs[k].type = "poll_cycle_ack"
         \/ outcome.kind \notin Silent /\ docs[k] = docs[i + 1]
  <2>1. CASE outcome.kind \in Silent
    BY <1>1, <1>2, <2>1 DEF Stands
  <2>2. CASE outcome.kind \notin Silent
    <3>1. \A j \in i + 2 .. Len(docs) : docs[j] = AckMessage(docs[i + 1])
      BY <1>2, <2>2 DEF Stands
    <3>2. AckMessage(docs[i + 1]).type = "poll_cycle_ack"
      BY DEF AckMessage
    <3>3. \A k \in i + 1 .. Len(docs) : k = i + 1 \/ k \in i + 2 .. Len(docs)
      BY <1>1
    <3> QED BY <2>2, <3>1, <3>2, <3>3
  <2> QED BY <2>1, <2>2
<1>5. \A k \in i + 1 .. Len(docs) : docs[k].type # "poll_cycle_request"
  <2>1. outcome.kind \notin Silent => docs[i + 1].type = "poll_cycle_outcome"
    BY <1>2 DEF Stands, IsOutcome
  <2> QED BY <1>4, <2>1
<1> DEFINE P(k) == /\ docs[k].type = "poll_cycle_request"
                   /\ \A j \in k + 1 .. Len(docs) : docs[j].type # "poll_cycle_request"
           start == CHOOSE k \in 2..Len(docs) : P(k)
           tail == SubSeq(docs, i, Len(docs))
           n == Len(docs) - i + 1
           s == <<docs[1]>> \o tail
<1>6. start = i
  <2>1. P(i)
    BY <1>3, <1>5
  <2>2. ASSUME NEW k \in 2..Len(docs), P(k), k # i PROVE FALSE
    <3>1. CASE k < i
      <4>1. i \in k + 1 .. Len(docs)
        BY <1>1, <3>1
      <4> QED BY <1>3, <2>2, <4>1
    <3>2. CASE k > i
      <4>1. k \in i + 1 .. Len(docs)
        BY <1>1, <3>2
      <4> QED BY <1>5, <2>2, <4>1
    <3> QED BY <1>1, <2>2, <3>1, <3>2
  <2> HIDE DEF P
  <2> QED BY <2>1, <2>2
<1>7. LastCycle = s
  BY <1>6, Zenon DEF LastCycle
<1>8. tail \in Seq(Elements(docs)) /\ Len(tail) = n /\ n \in Nat /\ n >= 1
      /\ \A k \in 1..n : tail[k] = docs[i + k - 1]
  <2>1. \A k \in i..Len(docs) : docs[k] \in Elements(docs)
    BY <1>1 DEF Elements
  <2> DEFINE S == Elements(docs)
  <2> HIDE DEF S
  <2>2. docs \in Seq(S) /\ i \in 1..Len(docs) + 1 /\ Len(docs) \in 0..Len(docs)
        /\ \A k \in i..Len(docs) : docs[k] \in S
    BY <1>1, <2>1 DEF S
  <2>3. /\ tail \in Seq(S)
        /\ Len(tail) = IF i <= Len(docs) THEN Len(docs) - i + 1 ELSE 0
        /\ \A k \in 1..Len(docs) - i + 1 : tail[k] = docs[i + k - 1]
    BY <1>1, <2>2, SubSeqProperties
  <2> QED BY <1>1, <2>3 DEF S
<1>9. Len(s) = n + 1 /\ s[1] = docs[1] /\ \A k \in 2..n + 1 : s[k] = docs[i + k - 2]
  <2> DEFINE S == Elements(docs)
  <2>1. docs[1] \in S
    <3>1. 1 \in 1..Len(docs)
      BY <1>1
    <3> QED BY <3>1 DEF Elements
  <2> HIDE DEF S, tail
  <2>2. tail \in Seq(S)
    BY <1>8 DEF S
  <2>3. <<docs[1]>> \in Seq(S) /\ Len(<<docs[1]>>) = 1 /\ <<docs[1]>>[1] = docs[1]
    BY <2>1
  <2>4. Len(s) = 1 + Len(tail)
        /\ \A k \in 1..Len(s) : s[k] = IF k <= 1 THEN <<docs[1]>>[k] ELSE tail[k - 1]
    BY <2>2, <2>3, ConcatProperties
  <2>5. Len(s) = n + 1
    BY <1>8, <2>4
  <2>6. s[1] = docs[1]
    BY <1>8, <2>3, <2>4
  <2>7. ASSUME NEW k \in 2..n + 1 PROVE s[k] = docs[i + k - 2]
    <3>1. k \in 1..Len(s) /\ ~(k <= 1) /\ k - 1 \in 1..n /\ i + (k - 1) - 1 = i + k - 2
      BY <1>1, <1>8, <2>5
    <3>2. s[k] = tail[k - 1]
      BY <2>4, <3>1
    <3> QED BY <1>8, <3>1, <3>2
  <2> QED BY <2>5, <2>6, <2>7
<1> HIDE DEF s, tail
<1>10. s[2] = docs[i]
  <2>1. 2 \in 2..n + 1 /\ i + 2 - 2 = i
    BY <1>1, <1>8
  <2> QED BY <1>9, <2>1
<1>11. \A k \in 3..Len(s) : \/ s[k].type = "poll_cycle_ack"
                            \/ outcome.kind \notin Silent /\ s[k] = docs[i + 1]
  <2> SUFFICES ASSUME NEW k \in 3..Len(s)
               PROVE  \/ s[k].type = "poll_cycle_ack"
                      \/ outcome.kind \notin Silent /\ s[k] = docs[i + 1]
    OBVIOUS
  <2>1. k \in 2..n + 1 /\ i + k - 2 \in i + 1 .. Len(docs)
    BY <1>1, <1>8, <1>9
  <2>2. s[k] = docs[i + k - 2]
    BY <1>9, <2>1
  <2> QED BY <1>4, <2>1, <2>2
<1>12. \A k \in 1..Len(s) : \E j \in 1..Len(docs) : s[k] = docs[j]
  <2> SUFFICES ASSUME NEW k \in 1..Len(s) PROVE \E j \in 1..Len(docs) : s[k] = docs[j]
    OBVIOUS
  <2>1. CASE k = 1
    BY <1>1, <1>9, <2>1
  <2>2. CASE k # 1
    <3>1. k \in 2..n + 1 /\ i + k - 2 \in 1..Len(docs)
      BY <1>1, <1>8, <1>9, <2>2
    <3> QED BY <1>9, <3>1
  <2> QED BY <2>1, <2>2
<1>13. Len(s) \in Nat /\ Len(s) >= 2
  BY <1>8, <1>9
<1>14. CycleIs(s, i)
  BY <1>1, <1>3, <1>9, <1>10, <1>11, <1>12, <1>13 DEF CycleIs
<1> QED BY <1>2, <1>7, <1>14

\* One outcome alone starves no one and advances nothing.
LEMMA OneIsHarmless ==
    ASSUME NEW s, NEW x, PollOutcomes(s) \subseteq {x}
    PROVE  FairnessStarvation(s) /\ SilentCursorAdvance(s)
<1>1. \A X : X \subseteq PollOutcomes(s) => ~(Cardinality(X) >= 2)
  <2> SUFFICES ASSUME NEW X, X \subseteq {x} PROVE ~(Cardinality(X) >= 2)
    OBVIOUS
  <2>1. Cardinality({}) = 0 /\ Cardinality({x}) = 1
    BY FS_EmptySet, FS_Singleton
  <2>2. CASE X = {}
    BY <2>1, <2>2
  <2>3. CASE X = {x}
    BY <2>1, <2>3
  <2> QED BY <2>2, <2>3
<1>2. ~(Cardinality(PollOutcomes(s)) >= 2)
  BY <1>1
<1>3. \A o : ~(Cardinality({p \in PollOutcomes(s) : p.waiter = o.waiter}) >= 2)
  BY <1>1
<1> QED BY <1>2, <1>3, Zenon DEF FairnessStarvation, SilentCursorAdvance

LEMMA CycleRulesHold ==
    ASSUME TInv, NEW i \in 2..Len(docs), Stands(i), NEW s, CycleIs(s, i)
    PROVE  /\ PerMessage(s) /\ CoverageCardinality(s) /\ AckRules(s)
           /\ FairnessStarvation(s) /\ SilentCursorAdvance(s)
           /\ RevisionCross(s) /\ ReceiptsShown(s) /\ BoundsKept(s)
           /\ LeasesHeld(s) \/ LastOutcome.kind \in Final
<1>1. /\ Len(s) \in Nat /\ Len(s) >= 2
      /\ s[1] = SetMessage /\ s[2] = RequestMessage(request)
      /\ \A k \in 3..Len(s) : \/ s[k].type = "poll_cycle_ack"
                              \/ outcome.kind \notin Silent /\ s[k] = docs[i + 1]
      /\ \A k \in 1..Len(s) : \E j \in 1..Len(docs) : s[k] = docs[j]
  BY DEF CycleIs
<1> DEFINE o == docs[i + 1]
           q == RequestMessage(request)
<1>2. /\ PerMessage(s) /\ CoverageCardinality(s) /\ AckRules(s) /\ BoundsKept(s)
      /\ \A m \in PollOutcomes(s) : \E j \in 1..Len(docs) : /\ m = docs[j] /\ IsOutcome(j)
                                                            /\ Vouched(m)
      /\ \A T : OfType(s, T) = OfType(s, T \cap {"registration_set", "poll_cycle_request",
                                                 "poll_cycle_outcome", "poll_cycle_ack"})
      /\ OfType(s, {"registration_set"}) \subseteq {SetMessage}
  BY <1>1, RulesHold DEF TInv
<1>3. /\ SetMessage.type = "registration_set" /\ SetMessage.revision = 1
      /\ SetMessage.authn = AuthnRequired /\ SetMessage.lease = Lease
      /\ q.type = "poll_cycle_request" /\ q.revision = 1 /\ q.receipt = request.receipt
  BY DEF SetMessage, RequestMessage
<1> HIDE DEF q
<1>4. outcome.kind \notin Silent => o.type = "poll_cycle_outcome" /\ o = LastOutcome
  BY LastOutcomeIs DEF TInv, Stands, IsOutcome
<1>5. \A k \in 1..Len(s) : \/ k = 1 /\ s[k] = SetMessage
                           \/ k = 2 /\ s[k] = q
                           \/ k >= 3 /\ s[k].type = "poll_cycle_ack"
                           \/ k >= 3 /\ outcome.kind \notin Silent /\ s[k] = o
  <2> SUFFICES ASSUME NEW k \in 1..Len(s)
               PROVE  \/ k = 1 /\ s[k] = SetMessage
                      \/ k = 2 /\ s[k] = q
                      \/ k >= 3 /\ s[k].type = "poll_cycle_ack"
                      \/ k >= 3 /\ outcome.kind \notin Silent /\ s[k] = o
    OBVIOUS
  <2>1. k = 1 \/ k = 2 \/ k \in 3..Len(s)
    BY <1>1
  <2> QED BY <1>1, <2>1 DEF q
<1> HIDE DEF o
<1>6. PollOutcomes(s) \subseteq {o} /\ (PollOutcomes(s) # {} => outcome.kind \notin Silent)
  <2>1. ASSUME NEW m \in PollOutcomes(s) PROVE m = o /\ outcome.kind \notin Silent
    <3>1. PICK k \in 1..Len(s) : m = s[k] /\ s[k].type = "poll_cycle_outcome"
      BY DEF PollOutcomes, OfType
    <3> QED BY <1>3, <1>5, <3>1
  <2> QED BY <2>1
<1>7. OfType(s, Outcomes) = PollOutcomes(s)
  <2>1. Outcomes \cap {"registration_set", "poll_cycle_request", "poll_cycle_outcome", "poll_cycle_ack"}
          = {"poll_cycle_outcome"}
    BY DEF Outcomes
  <2>2. OfType(s, Outcomes) = OfType(s, {"poll_cycle_outcome"})
    BY <1>2, <2>1
  <2> QED BY <2>2 DEF PollOutcomes
<1>8. OfType(s, Citations) = {q}
  <2>1. ASSUME NEW d \in OfType(s, Citations) PROVE d = q
    <3>1. PICK k \in 1..Len(s) : d = s[k] /\ s[k].type \in Citations
      BY DEF OfType
    <3> QED BY <1>3, <1>4, <1>5, <3>1 DEF Citations
  <2>2. q \in OfType(s, Citations)
    <3>1. 2 \in 1..Len(s) /\ s[2].type \in Citations /\ s[2] = q
      BY <1>1, <1>3 DEF Citations, q
    <3> QED BY <3>1 DEF OfType
  <2> QED BY <2>1, <2>2
<1>9. RevisionCross(s)
  <2> DEFINE sets == {k \in 1..Len(s) : s[k].type = "registration_set"}
             newest == CHOOSE k \in sets : \A j \in sets : j <= k
  <2>1. sets = {1}
    <3>1. 1 \in sets
      BY <1>1, <1>3
    <3>2. ASSUME NEW k \in sets PROVE k = 1
      BY <1>3, <1>4, <1>5
    <3> QED BY <3>1, <3>2
  <2>2. newest = 1
    <3> HIDE DEF sets
    <3> QED BY <2>1
  <2>3. s[newest].revision = 1
    BY <1>1, <1>3, <2>2
  <2>4. \A d \in OfType(s, Citations) : d.revision = s[newest].revision
    BY <1>3, <1>8, <2>3
  <2> QED BY <2>4, Zenon DEF RevisionCross
<1>10. Sets(s) \subseteq {SetMessage}
  BY <1>2 DEF Sets
<1>11. ReceiptsShown(s)
  <2> SUFFICES ASSUME \E t \in Sets(s) : t.authn,
                      OfType(s, Citations) = {} \/ \E d \in OfType(s, Citations) : ~d.receipt,
                      NEW m \in OfType(s, Outcomes)
               PROVE  m.kind \notin {"events", "no_change", "logical_deadman", "partial"}
    BY Zenon DEF ReceiptsShown
  <2>1. AuthnRequired /\ ~request.receipt
    BY <1>3, <1>8, <1>10
  <2>2. m = o /\ outcome.kind \notin Silent
    BY <1>6, <1>7
  <2> QED BY <2>1, <2>2 DEF Stands, o
<1>12. LeasesHeld(s) \/ LastOutcome.kind \in Final
  <2> SUFFICES ASSUME LastOutcome.kind \notin Final PROVE LeasesHeld(s)
    OBVIOUS
  <2> SUFFICES ASSUME NEW t \in Sets(s), NEW m \in OfType(s, Outcomes), NEW r \in DOMAIN t.lease,
                      t.lease[r] < m.completed
               PROVE  m.kind = "reauthentication_required"
    BY Zenon DEF LeasesHeld
  <2>1. r \in Arms /\ Lease[r] < m.completed /\ Lease[r] \in Nat
    BY <1>3, <1>10, SeamAssumption
  <2>2. m = LastOutcome
    BY <1>4, <1>6, <1>7
  <2>3. Vouched(m)
    BY <1>2, <1>7
  <2>4. m.completed \in Nat
    BY <2>3 DEF Vouched
  <2> QED BY <2>1, <2>2, <2>3, <2>4 DEF Vouched
<1>13. FairnessStarvation(s) /\ SilentCursorAdvance(s)
  BY <1>6, OneIsHarmless
<1> QED BY <1>2, <1>9, <1>11, <1>12, <1>13

LEMMA TInvAdmitsCycle == TInv => CycleIsAdmitted
<1> SUFFICES ASSUME TInv, Len(docs) > 1
             PROVE  \/ Verdict(LastCycle) = "none"
                    \/ Verdict(LastCycle) = "lease_reauth" /\ LastOutcome.kind \in Final
  BY DEF CycleIsAdmitted
<1> DEFINE s == LastCycle
<1>1. PICK i \in 2..Len(docs) : Stands(i) /\ CycleIs(s, i)
  BY LastCycleIs
<1> HIDE DEF s
<1>2. /\ PerMessage(s) /\ CoverageCardinality(s) /\ AckRules(s)
      /\ FairnessStarvation(s) /\ SilentCursorAdvance(s)
      /\ RevisionCross(s) /\ ReceiptsShown(s) /\ BoundsKept(s)
      /\ LeasesHeld(s) \/ LastOutcome.kind \in Final
  BY <1>1, CycleRulesHold
<1>3. Verdict(s) = IF ~LeasesHeld(s) THEN "lease_reauth" ELSE "none"
  BY <1>2, Zenon DEF Verdict
<1>4. \/ Verdict(s) = "none"
      \/ Verdict(s) = "lease_reauth" /\ LastOutcome.kind \in Final
  BY <1>2, <1>3
<1> QED BY <1>4 DEF s

\* What one cycle of run_poll_cycle leaves behind is admitted by set_rules,
\* whatever its arms answered, its budget allowed and its leases did, except
\* that a cancelled or failed outcome may stand past the end of a lease.
THEOREM CycleHolds == TSpec => []CycleIsAdmitted
BY TranscriptInvariance, TInvAdmitsCycle, PTL
=============================================================================
