---------------------------- MODULE Replay_proofs ----------------------------
(***************************************************************************)
(* Theorems about Replay, for every number of arms, set of scripts, limit, *)
(* deadline and lease: standard output is an honest account of the run,    *)
(* and follow replays each arm's script in the order of its instants,      *)
(* which is what the observer's sort makes of it.                          *)
(***************************************************************************)
EXTENDS Replay, Lists_proofs, FiniteSetTheorems

-----------------------------------------------------------------------------
(* What follow has printed for an arm. *)

PrintedOf(p, l, a) == p \o OfArm(l.events, a)
IsPrinted(p, out, a, n) ==
    p = [i \in 0..n |-> IF i = 0 THEN <<>> ELSE PrintedOf(p[i - 1], out[i], a)]

LEMMA PrintedIsDefined ==
    ASSUME NEW out, NEW a, NEW n \in Nat
    PROVE  \E p : IsPrinted(p, out, a, n)
<1> DEFINE T == {m \in Nat : \E p : IsPrinted(p, out, a, m)}
<1>1. 0 \in T
  <2>1. IsPrinted([i \in 0..0 |-> <<>>], out, a, 0)
    BY DEF IsPrinted
  <2> QED BY <2>1
<1>2. ASSUME NEW m \in T PROVE m + 1 \in T
  <2>1. PICK p : IsPrinted(p, out, a, m)
    OBVIOUS
  <2> DEFINE last == PrintedOf(p[m], out[m + 1], a)
             g == [i \in 0..m + 1 |-> IF i = m + 1 THEN last ELSE p[i]]
  <2>2. IsPrinted(g, out, a, m + 1)
    <3>1. ASSUME NEW i \in 0..m + 1
          PROVE  g[i] = IF i = 0 THEN <<>> ELSE PrintedOf(g[i - 1], out[i], a)
      BY <2>1 DEF IsPrinted
    <3> QED BY <3>1 DEF IsPrinted
  <2> HIDE DEF g
  <2> QED BY <2>2
<1> HIDE DEF T
<1>3. T = Nat
  <2>1. T \in SUBSET Nat
    BY DEF T
  <2> QED BY <1>1, <1>2, <2>1, SetInduction
<1> QED BY <1>3 DEF T

LEMMA PrintedIsLast ==
    ASSUME NEW out, NEW a, Len(out) \in Nat
    PROVE  \E p : IsPrinted(p, out, a, Len(out)) /\ Printed(out, a) = p[Len(out)]
<1> DEFINE n == Len(out)
           c == CHOOSE p : p = [i \in 0..n |-> IF i = 0 THEN <<>>
                                               ELSE PrintedOf(p[i - 1], out[i], a)]
<1>1. \E p : p = [i \in 0..n |-> IF i = 0 THEN <<>>
                                 ELSE PrintedOf(p[i - 1], out[i], a)]
  <2> HIDE DEF n
  <2>1. n \in Nat
    BY DEF n
  <2>2. PICK p : IsPrinted(p, out, a, n)
    BY <2>1, PrintedIsDefined
  <2>3. p = [i \in 0..n |-> IF i = 0 THEN <<>> ELSE PrintedOf(p[i - 1], out[i], a)]
    BY <2>2 DEF IsPrinted
  <2> QED BY <2>3
<1>2. c = [i \in 0..n |-> IF i = 0 THEN <<>> ELSE PrintedOf(c[i - 1], out[i], a)]
  BY <1>1, Zenon
<1>3. Printed(out, a) = c[Len(out)]
  BY Zenon DEF Printed, PrintedOf
<1> HIDE DEF c
<1> QED BY <1>2, <1>3 DEF IsPrinted

\* What is printed on the lines of one output is on those of a longer one.
LEMMA PrintedAgree ==
    ASSUME NEW s, NEW t, NEW a, NEW n \in Nat, NEW m \in Nat, NEW p, NEW q, n <= m,
           IsPrinted(p, s, a, n), IsPrinted(q, t, a, m), \A i \in 1..n : s[i] = t[i]
    PROVE  p[n] = q[n]
<1> DEFINE T == {i \in Nat : i <= n => p[i] = q[i]}
<1>1. 0 \in T
  BY DEF IsPrinted
<1>2. ASSUME NEW i \in T PROVE i + 1 \in T
  <2>1. CASE i + 1 <= n
    <3>1. p[i] = q[i] /\ s[i + 1] = t[i + 1]
      BY <2>1
    <3>2. p[i + 1] = PrintedOf(p[i], s[i + 1], a)
      BY <2>1 DEF IsPrinted
    <3>3. q[i + 1] = PrintedOf(q[i], t[i + 1], a)
      BY <2>1 DEF IsPrinted
    <3> QED BY <3>1, <3>2, <3>3
  <2> QED BY <2>1
<1>3. T = Nat
  <2>1. T \in SUBSET Nat
    OBVIOUS
  <2> HIDE DEF T
  <2> QED BY <1>1, <1>2, <2>1, SetInduction
<1> QED BY <1>3

LEMMA PrintedEmpty == \A a : Printed(<<>>, a) = <<>>
<1> SUFFICES ASSUME NEW a PROVE Printed(<<>>, a) = <<>>
  OBVIOUS
<1>1. Len(<<>>) = 0
  OBVIOUS
<1>2. PICK p : IsPrinted(p, <<>>, a, Len(<<>>)) /\ Printed(<<>>, a) = p[Len(<<>>)]
  BY <1>1, PrintedIsLast
<1> QED BY <1>1, <1>2 DEF IsPrinted

\* A line adds its events to what was printed before.
LEMMA PrintedAppend ==
    ASSUME NEW T, NEW out \in Seq(T), NEW l \in T, NEW a
    PROVE  Printed(Append(out, l), a) = Printed(out, a) \o OfArm(l.events, a)
<1> DEFINE t == Append(out, l)
           n == Len(out)
<1>1. /\ n \in Nat /\ Len(t) = n + 1 /\ t[n + 1] = l
      /\ \A i \in 1..n : out[i] = t[i]
  BY LenProperties, AppendProperties
<1> HIDE DEF t, n
<1>2. PICK p : IsPrinted(p, out, a, n) /\ Printed(out, a) = p[n]
  BY <1>1, PrintedIsLast DEF n
<1>3. PICK q : IsPrinted(q, t, a, n + 1) /\ Printed(t, a) = q[n + 1]
  BY <1>1, PrintedIsLast
<1>4. p[n] = q[n]
  BY <1>1, <1>2, <1>3, PrintedAgree
<1>5. q[n + 1] = PrintedOf(q[n], t[n + 1], a)
  <2>1. n + 1 \in 0..n + 1 /\ n + 1 # 0 /\ (n + 1) - 1 = n
    BY <1>1
  <2>2. q = [i \in 0..n + 1 |-> IF i = 0 THEN <<>> ELSE PrintedOf(q[i - 1], t[i], a)]
    BY <1>3 DEF IsPrinted
  <2> QED BY <2>1, <2>2
<1>6. Printed(t, a) = Printed(out, a) \o OfArm(l.events, a)
  BY <1>1, <1>2, <1>3, <1>4, <1>5, Zenon DEF PrintedOf
<1> QED BY <1>6 DEF t

-----------------------------------------------------------------------------
(* The observer's sort. *)

IsSorted(p, events, n) ==
    p = [i \in 0..n |-> IF i = 0 THEN <<>> ELSE Inserted(p[i - 1], events[i])]

LEMMA SortedIsDefined ==
    ASSUME NEW events, NEW n \in Nat
    PROVE  \E p : IsSorted(p, events, n)
<1> DEFINE T == {m \in Nat : \E p : IsSorted(p, events, m)}
<1>1. 0 \in T
  <2>1. IsSorted([i \in 0..0 |-> <<>>], events, 0)
    BY DEF IsSorted
  <2> QED BY <2>1
<1>2. ASSUME NEW m \in T PROVE m + 1 \in T
  <2>1. PICK p : IsSorted(p, events, m)
    OBVIOUS
  <2> DEFINE last == Inserted(p[m], events[m + 1])
             g == [i \in 0..m + 1 |-> IF i = m + 1 THEN last ELSE p[i]]
  <2>2. IsSorted(g, events, m + 1)
    <3>1. ASSUME NEW i \in 0..m + 1
          PROVE  g[i] = IF i = 0 THEN <<>> ELSE Inserted(g[i - 1], events[i])
      BY <2>1 DEF IsSorted
    <3> QED BY <3>1 DEF IsSorted
  <2> HIDE DEF g
  <2> QED BY <2>2
<1> HIDE DEF T
<1>3. T = Nat
  <2>1. T \in SUBSET Nat
    BY DEF T
  <2> QED BY <1>1, <1>2, <2>1, SetInduction
<1> QED BY <1>3 DEF T

LEMMA SortedIsLast ==
    ASSUME NEW events, Len(events) \in Nat
    PROVE  \E p : IsSorted(p, events, Len(events)) /\ Sorted(events) = p[Len(events)]
<1> DEFINE n == Len(events)
           c == CHOOSE p : p = [i \in 0..n |-> IF i = 0 THEN <<>>
                                               ELSE Inserted(p[i - 1], events[i])]
<1>1. \E p : p = [i \in 0..n |-> IF i = 0 THEN <<>>
                                 ELSE Inserted(p[i - 1], events[i])]
  <2> HIDE DEF n
  <2>1. n \in Nat
    BY DEF n
  <2>2. PICK p : IsSorted(p, events, n)
    BY <2>1, SortedIsDefined
  <2>3. p = [i \in 0..n |-> IF i = 0 THEN <<>> ELSE Inserted(p[i - 1], events[i])]
    BY <2>2 DEF IsSorted
  <2> QED BY <2>3
<1>2. c = [i \in 0..n |-> IF i = 0 THEN <<>> ELSE Inserted(c[i - 1], events[i])]
  BY <1>1, Zenon
<1>3. Sorted(events) = c[Len(events)]
  BY Zenon DEF Sorted
<1> HIDE DEF c
<1> QED BY <1>2, <1>3 DEF IsSorted

LEMMA SortedAgree ==
    ASSUME NEW s, NEW t, NEW n \in Nat, NEW m \in Nat, NEW p, NEW q, n <= m,
           IsSorted(p, s, n), IsSorted(q, t, m), \A i \in 1..n : s[i] = t[i]
    PROVE  p[n] = q[n]
<1> DEFINE T == {i \in Nat : i <= n => p[i] = q[i]}
<1>1. 0 \in T
  BY DEF IsSorted
<1>2. ASSUME NEW i \in T PROVE i + 1 \in T
  <2>1. CASE i + 1 <= n
    <3>1. p[i] = q[i] /\ s[i + 1] = t[i + 1]
      BY <2>1
    <3>2. p[i + 1] = Inserted(p[i], s[i + 1])
      BY <2>1 DEF IsSorted
    <3>3. q[i + 1] = Inserted(q[i], t[i + 1])
      BY <2>1 DEF IsSorted
    <3> QED BY <3>1, <3>2, <3>3
  <2> QED BY <2>1
<1>3. T = Nat
  <2>1. T \in SUBSET Nat
    OBVIOUS
  <2> HIDE DEF T
  <2> QED BY <1>1, <1>2, <2>1, SetInduction
<1> QED BY <1>3

LEMMA SortedEmpty == Sorted(<<>>) = <<>>
<1>1. Len(<<>>) = 0
  OBVIOUS
<1>2. PICK p : IsSorted(p, <<>>, Len(<<>>)) /\ Sorted(<<>>) = p[Len(<<>>)]
  BY <1>1, SortedIsLast
<1> QED BY <1>1, <1>2 DEF IsSorted

\* A longer script is sorted by inserting its last event.
LEMMA SortedAppend ==
    ASSUME NEW T, NEW events \in Seq(T), NEW e \in T
    PROVE  Sorted(Append(events, e)) = Inserted(Sorted(events), e)
<1> DEFINE t == Append(events, e)
           n == Len(events)
<1>1. /\ n \in Nat /\ Len(t) = n + 1 /\ t[n + 1] = e
      /\ \A i \in 1..n : events[i] = t[i]
  BY LenProperties, AppendProperties
<1> HIDE DEF t, n
<1>2. PICK p : IsSorted(p, events, n) /\ Sorted(events) = p[n]
  BY <1>1, SortedIsLast DEF n
<1>3. PICK q : IsSorted(q, t, n + 1) /\ Sorted(t) = q[n + 1]
  BY <1>1, SortedIsLast
<1>4. p[n] = q[n]
  BY <1>1, <1>2, <1>3, SortedAgree
<1>5. q[n + 1] = Inserted(q[n], t[n + 1])
  <2>1. n + 1 \in 0..n + 1 /\ n + 1 # 0 /\ (n + 1) - 1 = n
    BY <1>1
  <2>2. q = [i \in 0..n + 1 |-> IF i = 0 THEN <<>> ELSE Inserted(q[i - 1], t[i])]
    BY <1>3 DEF IsSorted
  <2> QED BY <2>1, <2>2
<1>6. Sorted(t) = Inserted(Sorted(events), e)
  BY <1>1, <1>2, <1>3, <1>4, <1>5, Zenon
<1> QED BY <1>6 DEF t

\* Each event behind those that are not later.
Ascending(s) == \A i, j \in 1..Len(s) : i < j => s[i] <= s[j]

LEMMA AscendingAppend ==
    ASSUME NEW s \in Seq(Nat), NEW e \in Nat
    PROVE  Ascending(Append(s, e)) <=> Ascending(s) /\ \A a \in Elements(s) : a <= e
<1> DEFINE t == Append(s, e)
           n == Len(s)
<1>1. /\ n \in Nat /\ Len(t) = n + 1 /\ t[n + 1] = e
      /\ \A i \in 1..n : t[i] = s[i]
  BY LenProperties, AppendProperties
<1> HIDE DEF t, n
<1>2. ASSUME \A i, j \in 1 .. n + 1 : i < j => t[i] <= t[j]
      PROVE  /\ \A i, j \in 1..n : i < j => s[i] <= s[j]
             /\ \A i \in 1..n : s[i] <= e
  <2>1. ASSUME NEW i \in 1..n PROVE s[i] <= e
    <3>1. i \in 1 .. n + 1 /\ n + 1 \in 1 .. n + 1 /\ i < n + 1
      BY <1>1
    <3> QED BY <1>1, <1>2, <3>1
  <2>2. ASSUME NEW i \in 1..n, NEW j \in 1..n, i < j PROVE s[i] <= s[j]
    <3>1. i \in 1 .. n + 1 /\ j \in 1 .. n + 1
      BY <1>1
    <3> QED BY <1>1, <1>2, <2>2, <3>1
  <2> QED BY <2>1, <2>2
<1>3. ASSUME /\ \A i, j \in 1..n : i < j => s[i] <= s[j]
             /\ \A i \in 1..n : s[i] <= e
      PROVE  \A i, j \in 1 .. n + 1 : i < j => t[i] <= t[j]
  <2> SUFFICES ASSUME NEW i \in 1 .. n + 1, NEW j \in 1 .. n + 1, i < j
               PROVE  t[i] <= t[j]
    OBVIOUS
  <2>1. i \in 1..n /\ (j \in 1..n \/ j = n + 1)
    BY <1>1
  <2> QED BY <1>1, <1>3, <2>1
<1> QED BY <1>1, <1>2, <1>3 DEF Ascending, Elements, t, n

LEMMA AscendingJoined ==
    ASSUME NEW s \in Seq(Nat), NEW t \in Seq(Nat), Ascending(s), Ascending(t),
           \A a \in Elements(s), b \in Elements(t) : a <= b
    PROVE  Ascending(s \o t)
<1> DEFINE u == s \o t
           m == Len(s)
           n == Len(t)
<1>1. /\ m \in Nat /\ n \in Nat /\ Len(u) = m + n
      /\ \A i \in 1 .. m + n : u[i] = IF i <= m THEN s[i] ELSE t[i - m]
  BY LenProperties, ConcatProperties
<1>2. /\ \A i, j \in 1..m : i < j => s[i] <= s[j]
      /\ \A i, j \in 1..n : i < j => t[i] <= t[j]
      /\ \A i \in 1..m, j \in 1..n : s[i] <= t[j]
  BY DEF Ascending, Elements
<1> HIDE DEF u, m, n
<1>3. ASSUME NEW i \in 1 .. m + n, NEW j \in 1 .. m + n, i < j PROVE u[i] <= u[j]
  <2>1. CASE j <= m
    <3>1. i \in 1..m /\ j \in 1..m /\ u[i] = s[i] /\ u[j] = s[j]
      BY <1>1, <1>3, <2>1
    <3> QED BY <1>2, <1>3, <3>1
  <2>2. CASE i <= m /\ ~(j <= m)
    <3>1. i \in 1..m /\ j - m \in 1..n /\ u[i] = s[i] /\ u[j] = t[j - m]
      BY <1>1, <2>2
    <3> QED BY <1>2, <3>1
  <2>3. CASE ~(i <= m)
    <3>1. /\ i - m \in 1..n /\ j - m \in 1..n /\ i - m < j - m
          /\ u[i] = t[i - m] /\ u[j] = t[j - m]
      BY <1>1, <1>3, <2>3
    <3> QED BY <1>2, <3>1
  <2> QED BY <1>1, <2>1, <2>2, <2>3
<1> QED BY <1>1, <1>3 DEF Ascending, u

LEMMA KeepingAscending ==
    ASSUME NEW S, NEW s \in Seq(Nat), Ascending(s)
    PROVE  Ascending(Keeping(s, S))
<1>1. ASSUME NEW t \in Seq(Nat)
      PROVE  Keeping(t, S) \in Seq(Nat) /\ Elements(Keeping(t, S)) = Elements(t) \cap S
  <2>1. Keeping(t, S) \in Seq(Nat \cap S) /\ Nat \cap S \subseteq Nat
    BY KeepingType
  <2> QED BY <2>1, SeqMonotonic, KeepingElements
<1> DEFINE P == {t \in Seq(Nat) : Ascending(t) => Ascending(Keeping(t, S))}
<1>2. <<>> \in P
  BY KeepingEmpty, EmptySeq DEF Ascending
<1>3. ASSUME NEW t \in P, NEW e \in Nat PROVE Append(t, e) \in P
  <2>1. t \in Seq(Nat) /\ (Ascending(t) => Ascending(Keeping(t, S)))
    OBVIOUS
  <2>2. Append(t, e) \in Seq(Nat)
    BY <2>1, AppendProperties
  <2>3. ASSUME Ascending(Append(t, e)) PROVE Ascending(Keeping(Append(t, e), S))
    <3>1. Ascending(t) /\ \A a \in Elements(t) : a <= e
      BY <2>1, <2>3, AscendingAppend
    <3>2. /\ Keeping(t, S) \in Seq(Nat) /\ Ascending(Keeping(t, S))
          /\ \A a \in Elements(Keeping(t, S)) : a <= e
      BY <1>1, <2>1, <3>1
    <3>3. Ascending(Append(Keeping(t, S), e))
      BY <3>2, AscendingAppend
    <3>4. Keeping(Append(t, e), S) = KeptOf(Keeping(t, S), e, S)
      BY <2>1, KeepingAppend
    <3> QED BY <3>2, <3>3, <3>4 DEF KeptOf
  <2> QED BY <2>2, <2>3
<1>4. P = Seq(Nat)
  <2>1. P \in SUBSET Seq(Nat)
    OBVIOUS
  <2> HIDE DEF P
  <2> QED BY <1>2, <1>3, <2>1, SeqInduction
<1> QED BY <1>4

\* Of a sequence that is split in two, either has its share of any set.
LEMMA KeepingSplit ==
    ASSUME NEW T, NEW A, NEW S, NEW s \in Seq(T)
    PROVE  Len(Keeping(Keeping(s, A), S)) + Len(Keeping(Keeping(s, T \ A), S))
             = Len(Keeping(s, S))
<1> DEFINE Share(t, B) == Len(Keeping(Keeping(t, B), S))
           P == {t \in Seq(T) : Share(t, A) + Share(t, T \ A) = Len(Keeping(t, S))}
<1>1. <<>> \in P
  <2>1. Len(<<>>) = 0
    OBVIOUS
  <2> QED BY <2>1, KeepingEmpty, EmptySeq
<1>2. ASSUME NEW t \in Seq(T)
      PROVE  \A B : Keeping(t, B) \in Seq(T) /\ Len(Keeping(t, B)) \in Nat
  <2> SUFFICES ASSUME NEW B PROVE Keeping(t, B) \in Seq(T) /\ Len(Keeping(t, B)) \in Nat
    OBVIOUS
  <2>1. Keeping(t, B) \in Seq(T \cap B) /\ T \cap B \subseteq T
    BY KeepingType
  <2>2. Keeping(t, B) \in Seq(T)
    BY <2>1, SeqMonotonic
  <2> QED BY <2>2, LenProperties
<1>3. ASSUME NEW t \in Seq(T), NEW e \in T
      PROVE  \A B : Len(Keeping(Append(t, e), B)) = Len(Keeping(t, B)) + IF e \in B THEN 1 ELSE 0
  <2> SUFFICES ASSUME NEW B
               PROVE  Len(Keeping(Append(t, e), B)) = Len(Keeping(t, B)) + IF e \in B THEN 1 ELSE 0
    OBVIOUS
  <2>1. Keeping(Append(t, e), B) = KeptOf(Keeping(t, B), e, B)
    BY KeepingAppend
  <2>2. Keeping(t, B) \in Seq(T) /\ Len(Keeping(t, B)) \in Nat
    BY <1>2
  <2>3. Len(Append(Keeping(t, B), e)) = Len(Keeping(t, B)) + 1
    BY <2>2, AppendProperties
  <2> QED BY <2>1, <2>2, <2>3 DEF KeptOf
<1>4. ASSUME NEW t \in Seq(T), NEW e \in T
      PROVE  \A B : Share(Append(t, e), B)
                      = Share(t, B) + IF e \in B /\ e \in S THEN 1 ELSE 0
  <2> SUFFICES ASSUME NEW B
               PROVE  Share(Append(t, e), B) = Share(t, B) + IF e \in B /\ e \in S THEN 1 ELSE 0
    OBVIOUS
  <2>1. Keeping(Append(t, e), B) = KeptOf(Keeping(t, B), e, B)
    BY KeepingAppend
  <2>2. Keeping(t, B) \in Seq(T)
    BY <1>2
  <2>3. Share(t, B) \in Nat
    BY <1>2, <2>2
  <2>4. Len(Keeping(Append(Keeping(t, B), e), S)) = Share(t, B) + IF e \in S THEN 1 ELSE 0
    BY <1>3, <2>2
  <2> HIDE DEF Share
  <2>5. CASE e \in B
    BY <2>1, <2>4, <2>5 DEF KeptOf, Share
  <2>6. CASE e \notin B
    BY <2>1, <2>3, <2>6 DEF KeptOf, Share
  <2> QED BY <2>5, <2>6
<1>5. ASSUME NEW t \in P, NEW e \in T PROVE Append(t, e) \in P
  <2>1. t \in Seq(T) /\ Share(t, A) + Share(t, T \ A) = Len(Keeping(t, S))
    OBVIOUS
  <2>2. Append(t, e) \in Seq(T)
    BY <2>1, AppendProperties
  <2>3. \A B : Share(t, B) \in Nat
    BY <1>2, <2>1
  <2>4. /\ Share(Append(t, e), A) = Share(t, A) + IF e \in A /\ e \in S THEN 1 ELSE 0
        /\ Share(Append(t, e), T \ A) = Share(t, T \ A) + IF e \in T \ A /\ e \in S THEN 1 ELSE 0
    BY <1>4, <2>1
  <2>5. Len(Keeping(Append(t, e), S)) = Len(Keeping(t, S)) + IF e \in S THEN 1 ELSE 0
    BY <1>3, <2>1
  <2>6. Len(Keeping(t, S)) \in Nat
    BY <1>2, <2>1
  <2> HIDE DEF Share
  <2>7. Share(Append(t, e), A) + Share(Append(t, e), T \ A) = Len(Keeping(Append(t, e), S))
    BY <2>1, <2>3, <2>4, <2>5, <2>6
  <2> QED BY <2>2, <2>7
<1>6. P = Seq(T)
  <2>1. P \in SUBSET Seq(T)
    OBVIOUS
  <2> HIDE DEF P
  <2> QED BY <1>1, <1>5, <2>1, SeqInduction
<1> QED BY <1>6

LEMMA InsertedInOrder ==
    ASSUME NEW s \in Seq(Times), NEW e \in Times, Ascending(s)
    PROVE  /\ Inserted(s, e) \in Seq(Times)
           /\ Ascending(Inserted(s, e))
           /\ \A S : Len(Keeping(Inserted(s, e), S))
                       = Len(Keeping(s, S)) + IF e \in S THEN 1 ELSE 0
<1> DEFINE T == Times
           A == 0..e
           B == T \ A
           one == <<e>>
           front == Keeping(s, A)
           back == Keeping(s, B)
<1>0. T \subseteq Nat /\ s \in Seq(T) /\ e \in T /\ Inserted(s, e) = front \o one \o back
  BY ReplayAssumption DEF Inserted, Times
<1>1. s \in Seq(Nat)
  BY <1>0, SeqMonotonic
<1> HIDE DEF T
<1>2. \A t \in Seq(T) : \A S : Keeping(t, S) \in Seq(T) /\ Len(Keeping(t, S)) \in Nat
  <2> SUFFICES ASSUME NEW t \in Seq(T), NEW S
               PROVE  Keeping(t, S) \in Seq(T) /\ Len(Keeping(t, S)) \in Nat
    OBVIOUS
  <2>1. Keeping(t, S) \in Seq(T \cap S) /\ T \cap S \subseteq T
    BY KeepingType
  <2>2. Keeping(t, S) \in Seq(T)
    BY <2>1, SeqMonotonic
  <2> QED BY <2>2, LenProperties
<1>3. front \in Seq(T) /\ back \in Seq(T) /\ one \in Seq(T)
  <2>1. one \in Seq(T)
    BY <1>0
  <2> QED BY <1>0, <1>2, <2>1
<1>4. front \in Seq(Nat) /\ back \in Seq(Nat) /\ one \in Seq(Nat)
  BY <1>0, <1>3, SeqMonotonic
<1>5. /\ Elements(front) \subseteq A /\ Elements(back) \subseteq B
      /\ Ascending(front) /\ Ascending(back)
  BY <1>0, <1>1, KeepingElements, KeepingAscending
<1>6. Elements(one) = {e} /\ Ascending(one)
  BY DEF Elements, Ascending
<1>7. \A S : Keeping(one, S) = IF e \in S THEN one ELSE <<>>
  <2> SUFFICES ASSUME NEW S PROVE Keeping(one, S) = IF e \in S THEN one ELSE <<>>
    OBVIOUS
  <2>1. one = Append(<<>>, e) /\ <<>> \in Seq(T)
    OBVIOUS
  <2>2. Keeping(one, S) = KeptOf(Keeping(<<>>, S), e, S)
    BY <1>0, <2>1, KeepingAppend
  <2> QED BY <2>1, <2>2, KeepingEmpty DEF KeptOf
<1> DEFINE left == front \o one
<1> HIDE DEF front, back, one
<1>8. left \in Seq(T) /\ left \in Seq(Nat) /\ Elements(left) = Elements(front) \cup Elements(one)
  BY <1>3, <1>4, ConcatProperties, ElementsOfConcat
<1>9. \A a \in Elements(front), b \in Elements(one) : a <= b
  BY <1>5, <1>6
<1>10. Ascending(left)
  BY <1>4, <1>5, <1>6, <1>9, AscendingJoined
<1> HIDE DEF left
<1>11. \A a \in Elements(left), b \in Elements(back) : a <= b
  <2>1. \A a \in Elements(left) : a \in Nat /\ a <= e
    BY <1>0, <1>5, <1>6, <1>8
  <2>2. ASSUME NEW b \in Elements(back) PROVE b \in Nat /\ ~(b <= e)
    <3>1. b \in T /\ b \notin 0..e
      BY <1>5
    <3>2. b \in Nat /\ e \in Nat
      BY <1>0, <3>1
    <3> QED BY <3>1, <3>2
  <2> QED BY <1>0, <2>1, <2>2
<1>12. left \o back \in Seq(T) /\ Ascending(left \o back)
  <2>1. left \o back \in Seq(T)
    BY <1>3, <1>8, ConcatProperties
  <2> QED BY <1>4, <1>5, <1>8, <1>10, <1>11, <2>1, AscendingJoined
<1>13. ASSUME NEW S
       PROVE  Len(Keeping(left \o back, S)) = Len(Keeping(s, S)) + IF e \in S THEN 1 ELSE 0
  <2>1. Keeping(left \o back, S) = Keeping(left, S) \o Keeping(back, S)
    BY <1>3, <1>8, KeepingConcat
  <2>2. Keeping(left, S) = Keeping(front, S) \o Keeping(one, S)
    BY <1>3, KeepingConcat DEF left
  <2>3. /\ Keeping(front, S) \in Seq(T) /\ Keeping(one, S) \in Seq(T)
        /\ Keeping(left, S) \in Seq(T) /\ Keeping(back, S) \in Seq(T)
    BY <1>2, <1>3, <1>8
  <2>4. /\ Len(Keeping(left \o back, S)) = Len(Keeping(left, S)) + Len(Keeping(back, S))
        /\ Len(Keeping(left, S)) = Len(Keeping(front, S)) + Len(Keeping(one, S))
    BY <2>1, <2>2, <2>3, ConcatProperties
  <2>5. Len(Keeping(one, S)) = IF e \in S THEN 1 ELSE 0
    <3>1. Len(one) = 1 /\ Len(<<>>) = 0
      BY DEF one
    <3> QED BY <1>7, <3>1
  <2>6. Len(Keeping(front, S)) + Len(Keeping(back, S)) = Len(Keeping(s, S))
    BY <1>0, KeepingSplit DEF front, back
  <2>7. Len(Keeping(front, S)) \in Nat /\ Len(Keeping(back, S)) \in Nat
    BY <1>2, <1>3
  <2> QED BY <2>4, <2>5, <2>6, <2>7
<1> QED BY <1>0, <1>12, <1>13 DEF left, T

\* ScriptedObserver::new puts the events of an arm in order, whatever order the
\* script gives them in: none is lost, added or changed, and each comes behind
\* those that are not later.
THEOREM ScriptsAreSorted ==
    \A events \in Seq(Times) :
        /\ Sorted(events) \in Seq(Times)
        /\ Ascending(Sorted(events))
        /\ \A S \in SUBSET Times : Len(Keeping(Sorted(events), S)) = Len(Keeping(events, S))
<1> DEFINE InOrderOf(t) == /\ Sorted(t) \in Seq(Times)
                           /\ Ascending(Sorted(t))
                           /\ \A S : Len(Keeping(Sorted(t), S)) = Len(Keeping(t, S))
           P == {t \in Seq(Times) : InOrderOf(t)}
<1>1. <<>> \in P
  <2>1. <<>> \in Seq(Times) /\ Ascending(<<>>)
    BY DEF Ascending
  <2> QED BY <2>1, SortedEmpty, Zenon
<1>2. ASSUME NEW t \in P, NEW e \in Times PROVE Append(t, e) \in P
  <2>1. t \in Seq(Times) /\ InOrderOf(t)
    OBVIOUS
  <2>2. Append(t, e) \in Seq(Times)
    BY <2>1, AppendProperties
  <2>3. Sorted(Append(t, e)) = Inserted(Sorted(t), e)
    BY <2>1, SortedAppend
  <2>4. /\ Inserted(Sorted(t), e) \in Seq(Times)
        /\ Ascending(Inserted(Sorted(t), e))
        /\ \A S : Len(Keeping(Inserted(Sorted(t), e), S))
                    = Len(Keeping(Sorted(t), S)) + IF e \in S THEN 1 ELSE 0
    BY <2>1, InsertedInOrder
  <2>5. ASSUME NEW S PROVE Len(Keeping(Append(t, e), S)) = Len(Keeping(t, S)) + IF e \in S THEN 1 ELSE 0
    <3>1. Keeping(Append(t, e), S) = KeptOf(Keeping(t, S), e, S)
      BY <2>1, KeepingAppend
    <3>2. Keeping(t, S) \in Seq(Times)
      <4>1. Keeping(t, S) \in Seq(Times \cap S) /\ Times \cap S \subseteq Times
        BY <2>1, KeepingType
      <4> QED BY <4>1, SeqMonotonic
    <3>3. Len(Append(Keeping(t, S), e)) = Len(Keeping(t, S)) + 1 /\ Len(Keeping(t, S)) \in Nat
      BY <3>2, AppendProperties, LenProperties
    <3> QED BY <3>1, <3>3 DEF KeptOf
  <2>6. \A S : Len(Keeping(Sorted(Append(t, e)), S)) = Len(Keeping(Append(t, e), S))
    BY <2>1, <2>3, <2>4, <2>5
  <2> QED BY <2>2, <2>3, <2>4, <2>6
<1>3. P = Seq(Times)
  <2>1. P \in SUBSET Seq(Times)
    OBVIOUS
  <2> HIDE DEF P
  <2> QED BY <1>1, <1>2, <2>1, SeqInduction
<1> QED BY <1>3

-----------------------------------------------------------------------------
(* The inductive invariant. *)

Sleeper ==
    [step : {"unbound", "new", "yielded", "parked", "forever", "gone"}, at : Times,
     rung : BOOLEAN]
Return == [kind : {"none", "event", "overflow"}, at : Times]
OutLine ==
    [kind : {"burst", "outcome", "end", "torn"}, seq : Nat, events : SUBSET (Arms \X Times)]

Typed ==
    /\ pc \in {"admit", "poll", "sleep", "stuck", "wake", "decide", "burst", "after",
               "print", "exited"}
    /\ verb \in {"wait", "follow"}
    /\ script \in [Arms -> Seq(Times)]
    /\ now \in Times
    /\ queue \in [Arms -> Seq(Times)]
    /\ fut \in [Arms -> Sleeper]
    /\ timer \in Sleeper
    /\ got \in [Arms -> Return]
    /\ turn \in 1 .. N + 1
    /\ lines \in Seq(OutLine)
    /\ sequence \in Nat
    /\ exit \in {0, 1, 101, Running}

\* While the command runs every line is a burst that was accepted.
Numbered ==
    /\ exit = Running <=> pc # "exited"
    /\ pc # "exited" =>
         /\ Len(lines) = sequence
         /\ \A i \in 1..Len(lines) : lines[i].kind = "burst" /\ lines[i].seq = i

\* An arm that has returned is not polled again before what it returned has
\* been used.
TakenIsGone == \A a \in Arms : got[a] # Nothing => fut[a].step = "gone"
AfterHoldsNothing ==
    pc = "after" \/ (pc = "print" /\ verb = "follow") => \A a \in Arms : ~Holds(a)
AtAdmission ==
    pc = "admit" =>
        /\ lines = <<>> /\ got = [a \in Arms |-> Nothing]
        /\ script = [a \in Arms |-> <<>>] /\ queue = [a \in Arms |-> <<>>]

Inv ==
    /\ Typed
    /\ Numbered /\ OutputHonest
    /\ TakenIsGone /\ AfterHoldsNothing /\ AtAdmission /\ ReplaysTheScript

-----------------------------------------------------------------------------
(* Types. *)

LEMMA RungKeeps ==
    ASSUME NEW s \in Sleeper, NEW t \in Times
    PROVE  Rung(s, t) \in Sleeper /\ Rung(s, t).step = s.step
BY DEF Rung, Sleeper

LEMMA AllRung ==
    ASSUME fut \in [Arms -> Sleeper], NEW t \in Times
    PROVE  /\ [a \in Arms |-> Rung(fut[a], t)] \in [Arms -> Sleeper]
           /\ \A a \in Arms : [x \in Arms |-> Rung(fut[x], t)][a].step = fut[a].step
BY RungKeeps

LEMMA SleepType ==
    ASSUME NEW s \in {"unbound", "new", "yielded", "parked", "forever", "gone"}, NEW t \in Times
    PROVE  Sleep(s, t) \in Sleeper /\ Sleep(s, t).step = s
BY DEF Sleep, Sleeper

LEMMA NothingType == Nothing \in Return /\ Nothing.kind = "none" /\ 0 \in Times
BY ReplayAssumption DEF Nothing, Return, Times

\* An event that is taken is the first one queued.
LEMMA TakeDueType ==
    ASSUME NEW a \in Arms, NEW t \in Times, queue \in [Arms -> Seq(Times)]
    PROVE  /\ TakeDue(a, t) \in Return
           /\ TakeDue(a, t).kind = "event" => queue[a] # <<>> /\ TakeDue(a, t).at = Head(queue[a])
<1>1. CASE a \in overflowed \/ Due(a, t) > limit
  BY <1>1, NothingType DEF TakeDue, Return
<1>2. CASE ~(a \in overflowed \/ Due(a, t) > limit) /\ Due(a, t) = 0
  BY <1>2, NothingType DEF TakeDue
<1>3. CASE ~(a \in overflowed \/ Due(a, t) > limit) /\ Due(a, t) # 0
  <2>1. queue[a] # <<>>
    <3> SUFFICES ASSUME queue[a] = <<>> PROVE Due(a, t) = 0
      BY <1>3
    <3>1. Len(queue[a]) = 0
      OBVIOUS
    <3>2. {i \in 1..Len(queue[a]) : queue[a][i] <= t} = {}
      BY <3>1
    <3> QED BY <3>2, FS_EmptySet DEF Due
  <2>2. Head(queue[a]) \in Times
    BY <2>1, HeadTailProperties
  <2>3. TakeDue(a, t) = [kind |-> "event", at |-> Head(queue[a])]
    BY <1>3 DEF TakeDue
  <2> QED BY <2>1, <2>2, <2>3 DEF Return
<1> QED BY <1>1, <1>2, <1>3

\* What is taken of each arm: nothing, or what it has.
Takes(taken) ==
    /\ taken \in [Arms -> Return]
    /\ \A a \in Arms : taken[a].kind = "event" => queue[a] # <<>> /\ taken[a].at = Head(queue[a])

\* A step that takes it of arms that have returned nothing.
Taking(taken) ==
    /\ Takes(taken)
    /\ \A a \in Arms : got[a] # Nothing => taken[a] = Nothing
    /\ queue' = Popped(taken)
    /\ got' = [a \in Arms |-> IF got[a] = Nothing THEN taken[a] ELSE got[a]]

LEMMA PoppedType ==
    ASSUME NEW taken, Takes(taken), queue \in [Arms -> Seq(Times)]
    PROVE  Popped(taken) \in [Arms -> Seq(Times)]
BY HeadTailProperties DEF Takes, Popped

LEMMA RestoredType ==
    ASSUME NEW kept, queue \in [Arms -> Seq(Times)], got \in [Arms -> Return]
    PROVE  Restored(kept) \in [Arms -> Seq(Times)]
<1> SUFFICES ASSUME NEW a \in Arms PROVE <<got[a].at>> \o queue[a] \in Seq(Times)
  BY DEF Restored
<1>1. got[a].at \in Times /\ queue[a] \in Seq(Times)
  BY DEF Return
<1>2. <<got[a].at>> \in Seq(Times)
  BY <1>1
<1> QED BY <1>1, <1>2, ConcatProperties

LEMMA EventsType ==
    ASSUME got \in [Arms -> Return]
    PROVE  EventsOf(Arms) \in SUBSET (Arms \X Times)
BY DEF EventsOf, Return

\* MoreReady takes of the arms that have returned nothing.
LEMMA MoreReadyTakes ==
    ASSUME Typed, MoreReady
    PROVE  \E taken :
              /\ Taking(taken)
              /\ fut' = [a \in Arms |-> IF taken[a] # Nothing THEN Sleep("gone", 0) ELSE fut[a]]
<1> DEFINE taken == [a \in Arms |-> IF got[a] = Nothing THEN TakeDue(a, now) ELSE Nothing]
<1>1. Takes(taken)
  BY TakeDueType, NothingType DEF Typed, Takes
<1>2. /\ queue' = Popped(taken)
      /\ got' = [a \in Arms |-> IF got[a] = Nothing THEN taken[a] ELSE got[a]]
      /\ fut' = [a \in Arms |-> IF taken[a] # Nothing THEN Sleep("gone", 0) ELSE fut[a]]
  BY DEF MoreReady
<1>3. \A a \in Arms : got[a] # Nothing => taken[a] = Nothing
  OBVIOUS
<1> HIDE DEF taken
<1> QED BY <1>1, <1>2, <1>3 DEF Taking

\* So does the poll of an arm, of that arm alone, if it is not gone.
LEMMA PollNextTakes ==
    ASSUME Typed, TakenIsGone, NEW a \in Arms, PollNext(a)
    PROVE  \E taken :
              /\ Taking(taken)
              /\ fut' \in [Arms -> Sleeper]
              /\ \A x \in Arms : fut[x].step = "gone" \/ taken[x] # Nothing => fut'[x].step = "gone"
              /\ now' \in Times /\ timer' \in Sleeper
<1> DEFINE f == fut[a]
           moves == f.step = "yielded" /\ Earliest(f)
           t == IF moves THEN f.at ELSE now
           looks == f.step \in {"unbound", "new"} \/ f.rung \/ moves
           taken == [x \in Arms |-> IF x = a /\ looks THEN TakeDue(a, t) ELSE Nothing]
           next == IF ~looks THEN Sleep("parked", f.at)
                   ELSE IF taken[a] # Nothing THEN Sleep("gone", 0)
                   ELSE IF queue[a] = <<>> THEN Sleep("forever", 0)
                   ELSE Sleep("yielded", Head(queue[a]))
           rung == [x \in Arms |-> Rung(fut[x], t)]
<1>1. /\ f.step \notin {"forever", "gone"}
      /\ now' = t
      /\ fut' = [rung EXCEPT ![a] = next]
      /\ timer' = Rung(timer, t)
      /\ queue' = Popped(taken)
      /\ got' = IF taken[a] # Nothing THEN [got EXCEPT ![a] = taken[a]] ELSE got
  BY DEF PollNext
<1>2. f \in Sleeper /\ f.at \in Times /\ now \in Times
  BY DEF Typed, Sleeper
<1> HIDE DEF f, moves
<1>3. t \in Times
  BY <1>2
<1> HIDE DEF t, looks
<1>4. Takes(taken)
  BY <1>3, TakeDueType, NothingType DEF Typed, Takes
<1>5. got[a] = Nothing
  BY <1>1 DEF TakenIsGone, f
<1>6. \A x \in Arms : x # a => taken[x] = Nothing
  OBVIOUS
<1>7. taken \in [Arms -> Return] /\ got \in [Arms -> Return]
  BY <1>4 DEF Takes, Typed
<1>8. ~looks => taken[a] = Nothing
  OBVIOUS
<1>9. next \in Sleeper /\ (taken[a] # Nothing => next.step = "gone")
  <2>1. queue[a] # <<>> => Head(queue[a]) \in Times
    BY HeadTailProperties DEF Typed
  <2> HIDE DEF taken
  <2> QED BY <1>2, <1>8, <2>1, SleepType, NothingType
<1>10. rung \in [Arms -> Sleeper] /\ \A x \in Arms : rung[x].step = fut[x].step
  BY <1>3, AllRung DEF Typed
<1>11. timer' \in Sleeper
  BY <1>1, <1>3, RungKeeps DEF Typed
<1> HIDE DEF taken, next, rung
<1>12. got' = [x \in Arms |-> IF got[x] = Nothing THEN taken[x] ELSE got[x]]
  <2>1. CASE taken[a] = Nothing
    <3>1. \A x \in Arms : got[x] = (IF got[x] = Nothing THEN taken[x] ELSE got[x])
      BY <1>6, <2>1
    <3> QED BY <1>1, <1>7, <2>1, <3>1
  <2>2. CASE taken[a] # Nothing
    <3>1. \A x \in Arms : [got EXCEPT ![a] = taken[a]][x]
                            = (IF got[x] = Nothing THEN taken[x] ELSE got[x])
      BY <1>5, <1>6, <1>7
    <3> QED BY <1>1, <1>7, <2>2, <3>1
  <2> QED BY <2>1, <2>2
<1>13. \A x \in Arms : got[x] # Nothing => taken[x] = Nothing
  BY <1>5, <1>6
<1>14. fut' \in [Arms -> Sleeper]
  BY <1>1, <1>9, <1>10
<1>15. \A x \in Arms : fut[x].step = "gone" \/ taken[x] # Nothing => fut'[x].step = "gone"
  BY <1>1, <1>6, <1>9, <1>10 DEF f
<1> QED BY <1>1, <1>3, <1>4, <1>11, <1>12, <1>13, <1>14, <1>15 DEF Taking

LEMMA TakingType ==
    ASSUME Typed, NEW taken, Taking(taken)
    PROVE  queue' \in [Arms -> Seq(Times)] /\ got' \in [Arms -> Return]
BY PoppedType DEF Taking, Takes, Typed

\* A line's events, and the line.
LEMMA LineType ==
    ASSUME NEW kind \in {"burst", "outcome", "end"}, NEW seq \in Nat, NEW how \in Writes,
           got \in [Arms -> Return]
    PROVE  Line(kind, seq, EventsOf(Arms), how) \in OutLine
BY EventsType DEF Line, OutLine, Writes

LEMMA TypedStep ==
    ASSUME Typed, TakenIsGone, [Next]_vars
    PROVE  Typed'
<1> USE DEF Typed, inVars, clockVars, observerVars, passVars, outVars
<1>1. CASE Admit
  <2>1. script' \in [Arms -> Seq(Times)]
    BY <1>1, ReplayAssumption DEF Admit
  <2>2. queue' \in [Arms -> Seq(Times)]
    BY <1>1, <2>1, ScriptsAreSorted DEF Admit
  <2> QED BY <1>1, <2>1, <2>2 DEF Admit
<1>2. CASE Refuse
  BY <1>2 DEF Refuse
<1>3. CASE PollArm
  <2>1. turn \in Arms /\ turn' \in 1 .. N + 1
    BY <1>3, ReplayAssumption DEF PollArm, Arms
  <2>2. CASE PollNext(turn)
    <3>1. PICK taken : /\ Taking(taken)
                       /\ fut' \in [Arms -> Sleeper]
                       /\ now' \in Times /\ timer' \in Sleeper
      BY <2>1, <2>2, PollNextTakes
    <3>2. queue' \in [Arms -> Seq(Times)] /\ got' \in [Arms -> Return]
      BY <3>1, TakingType
    <3> QED BY <1>3, <2>1, <3>1, <3>2 DEF PollArm
  <2>3. CASE UNCHANGED <<clockVars, observerVars, got, progressed, awake>>
    BY <1>3, <2>1, <2>3 DEF PollArm
  <2> QED BY <1>3, <2>2, <2>3 DEF PollArm
<1>4. CASE RoundEnds
  BY <1>4, ReplayAssumption DEF RoundEnds
<1>5. CASE PollTimer
  <2> DEFINE moves == timer.step = "yielded" /\ Earliest(timer)
             t == IF moves THEN timer.at ELSE now
  <2>1. timer \in Sleeper /\ timer.at \in Times
    BY DEF Sleeper
  <2>2. t \in Times
    BY <2>1
  <2>3. EarliestWake \in Times
    BY ReplayAssumption DEF EarliestWake, EarlierOf, Times
  <2>4. fut' = [a \in Arms |-> Rung(fut[a], t)] /\ now' = t
    BY <1>5 DEF PollTimer
  <2>5. timer' \in {Sleep("gone", 0), Sleep("yielded", EarliestWake), Sleep("parked", timer.at)}
    BY <1>5 DEF PollTimer
  <2>6. timer' \in Sleeper
    BY <2>1, <2>3, <2>5, SleepType, NothingType
  <2> HIDE DEF t
  <2>7. fut' \in [Arms -> Sleeper]
    BY <2>2, <2>4, AllRung
  <2>8. turn' = 1 /\ 1 \in 1 .. N + 1 /\ pc' \in {"wake", "poll", "stuck"}
    BY <1>5, ReplayAssumption DEF PollTimer
  <2> QED BY <1>5, <2>2, <2>4, <2>6, <2>7, <2>8 DEF PollTimer
<1>6. CASE Wake
  <2>1. CASE MoreReady
    <3>1. PICK taken :
             /\ Taking(taken)
             /\ fut' = [a \in Arms |-> IF taken[a] # Nothing THEN Sleep("gone", 0) ELSE fut[a]]
      BY <2>1, MoreReadyTakes
    <3>2. queue' \in [Arms -> Seq(Times)] /\ got' \in [Arms -> Return]
      BY <3>1, TakingType
    <3>3. fut' \in [Arms -> Sleeper]
      BY <3>1, SleepType, NothingType
    <3> QED BY <1>6, <3>2, <3>3 DEF Wake
  <2>2. CASE UNCHANGED <<observerVars, got, fut>>
    BY <1>6, <2>2 DEF Wake
  <2> QED BY <1>6, <2>1, <2>2 DEF Wake
<1>7. CASE DecideWait
  <2>1. queue' \in [Arms -> Seq(Times)]
    BY <1>7, RestoredType DEF DecideWait
  <2>2. got' \in [Arms -> Return]
    BY <1>7, NothingType DEF DecideWait
  <2> QED BY <1>7, <2>1, <2>2 DEF DecideWait
<1>8. CASE DecideFollow
  <2>1. CASE now >= Lease
    <3>1. queue' \in [Arms -> Seq(Times)] /\ got' \in [Arms -> Return]
      BY <1>8, <2>1, RestoredType, NothingType DEF DecideFollow
    <3> QED BY <1>8, <2>1, <3>1 DEF DecideFollow
  <2>2. CASE ~(now >= Lease)
    BY <1>8, <2>2 DEF DecideFollow
  <2> QED BY <2>1, <2>2
<1>9. CASE After
  <2>1. CASE Terminal \/ now >= Deadline
    BY <1>9, <2>1 DEF After
  <2>2. CASE ~(Terminal \/ now >= Deadline)
    <3>1. Sleep("new", 0) \in Sleeper /\ 1 \in 1 .. N + 1 /\ Nothing \in Return
      BY SleepType, NothingType, ReplayAssumption
    <3>2. fut' \in [Arms -> Sleeper] /\ timer' \in Sleeper
      BY <1>9, <2>2, <3>1 DEF After
    <3>3. got' \in [Arms -> Return] /\ turn' \in 1 .. N + 1
      BY <1>9, <2>2, <3>1 DEF After
    <3> QED BY <1>9, <2>2, <3>2, <3>3 DEF After
  <2> QED BY <2>1, <2>2
<1>10. CASE EmitBurst
  <2>1. PICK how \in Writes :
           /\ lines' = Append(lines, Line("burst", sequence + 1, EventsOf(Arms), how))
           /\ sequence' = IF how = "whole" THEN sequence + 1 ELSE sequence
           /\ IF GoesOn(how)
              THEN pc' = "after" /\ UNCHANGED exit
              ELSE pc' = "exited" /\ exit' = 1
    BY <1>10 DEF EmitBurst
  <2>2. Line("burst", sequence + 1, EventsOf(Arms), how) \in OutLine
    BY LineType
  <2>3. lines' \in Seq(OutLine)
    BY <2>1, <2>2, AppendProperties
  <2>4. got' \in [Arms -> Return]
    BY <1>10, NothingType DEF EmitBurst
  <2> QED BY <1>10, <2>1, <2>3, <2>4 DEF EmitBurst
<1>11. CASE PrintEnd
  <2>1. PICK how \in Writes :
           /\ lines' = Append(lines, Line(IF verb = "wait" THEN "outcome" ELSE "end", 0,
                                          EventsOf(Arms), how))
           /\ exit' = IF how = "whole" THEN 0 ELSE IF verb = "wait" THEN 101 ELSE 1
    BY <1>11 DEF PrintEnd
  <2>2. Line(IF verb = "wait" THEN "outcome" ELSE "end", 0, EventsOf(Arms), how) \in OutLine
    BY LineType
  <2>3. lines' \in Seq(OutLine)
    BY <2>1, <2>2, AppendProperties
  <2> QED BY <1>11, <2>1, <2>3 DEF PrintEnd
<1>12. CASE OutcomeRefused
  BY <1>12 DEF OutcomeRefused
<1>13. CASE UNCHANGED vars
  BY <1>13 DEF vars
<1> QED BY <1>1, <1>2, <1>3, <1>4, <1>5, <1>6, <1>7, <1>8, <1>9, <1>10, <1>11, <1>12, <1>13
        DEF Next, Task

-----------------------------------------------------------------------------
(* What an arm has returned. *)

LEMMA TakenIsGoneStep ==
    ASSUME Typed, TakenIsGone, [Next]_vars
    PROVE  TakenIsGone'
<1> USE DEF inVars, clockVars, observerVars, passVars, outVars
<1>1. CASE Admit \/ Refuse \/ RoundEnds \/ PrintEnd \/ OutcomeRefused \/ UNCHANGED vars
  BY <1>1 DEF Admit, Refuse, RoundEnds, PrintEnd, OutcomeRefused, vars, TakenIsGone
<1>2. CASE PollArm
  <2>1. turn \in Arms
    BY <1>2 DEF PollArm, Arms, Typed
  <2>2. CASE PollNext(turn)
    <3>1. PICK taken :
             /\ Taking(taken)
             /\ \A x \in Arms : fut[x].step = "gone" \/ taken[x] # Nothing => fut'[x].step = "gone"
      BY <2>1, <2>2, PollNextTakes
    <3> QED BY <3>1 DEF Taking, TakenIsGone
  <2>3. CASE UNCHANGED <<clockVars, observerVars, got, progressed, awake>>
    BY <2>3 DEF TakenIsGone
  <2> QED BY <1>2, <2>2, <2>3 DEF PollArm
<1>3. CASE PollTimer
  <2> DEFINE t == IF timer.step = "yielded" /\ Earliest(timer) THEN timer.at ELSE now
  <2>1. t \in Times
    BY DEF Typed, Sleeper
  <2>2. fut' = [a \in Arms |-> Rung(fut[a], t)] /\ got' = got
    BY <1>3 DEF PollTimer
  <2> HIDE DEF t
  <2>3. \A a \in Arms : fut'[a].step = fut[a].step
    BY <2>1, <2>2, AllRung DEF Typed
  <2> QED BY <2>2, <2>3 DEF TakenIsGone
<1>4. CASE Wake
  <2>1. CASE MoreReady
    <3>1. PICK taken :
             /\ Taking(taken)
             /\ fut' = [a \in Arms |-> IF taken[a] # Nothing THEN Sleep("gone", 0) ELSE fut[a]]
      BY <2>1, MoreReadyTakes
    <3>2. Sleep("gone", 0).step = "gone"
      BY DEF Sleep
    <3>3. ASSUME NEW a \in Arms, got'[a] # Nothing PROVE fut'[a].step = "gone"
      BY <3>1, <3>2, <3>3 DEF Taking, TakenIsGone
    <3> QED BY <3>3 DEF TakenIsGone
  <2>2. CASE UNCHANGED <<observerVars, got, fut>>
    BY <2>2 DEF TakenIsGone
  <2> QED BY <1>4, <2>1, <2>2 DEF Wake
<1>5. CASE DecideWait \/ DecideFollow \/ EmitBurst
  <2>1. fut' = fut
    BY <1>5 DEF DecideWait, DecideFollow, EmitBurst
  <2>2. \A a \in Arms : got'[a] \in {got[a], Nothing}
    BY <1>5 DEF DecideWait, DecideFollow, EmitBurst, Typed
  <2> QED BY <2>1, <2>2 DEF TakenIsGone
<1>6. CASE After
  BY <1>6 DEF After, TakenIsGone
<1> QED BY <1>1, <1>2, <1>3, <1>4, <1>5, <1>6 DEF Next, Task

LEMMA AfterHoldsNothingStep ==
    ASSUME Typed, AfterHoldsNothing, [Next]_vars
    PROVE  AfterHoldsNothing'
<1> USE DEF inVars, clockVars, observerVars, passVars, outVars
<1>1. CASE \/ Admit \/ Refuse \/ RoundEnds \/ PollTimer \/ Wake \/ DecideWait
           \/ PrintEnd \/ OutcomeRefused
  BY <1>1 DEF Admit, Refuse, RoundEnds, PollTimer, Wake, DecideWait, PrintEnd, OutcomeRefused,
              AfterHoldsNothing
<1>2. CASE After
  <2>1. \A a \in Arms : got'[a] \in {got[a], Nothing} /\ ~Holds(a)
    BY <1>2 DEF After, AfterHoldsNothing
  <2> QED BY <2>1, NothingType DEF AfterHoldsNothing, Holds
<1>3. CASE PollArm
  BY <1>3 DEF PollArm, AfterHoldsNothing
<1>4. CASE DecideFollow
  BY <1>4 DEF DecideFollow, AfterHoldsNothing, Holds
<1>5. CASE EmitBurst
  <2>1. got' = [a \in Arms |-> IF Holds(a) THEN Nothing ELSE got[a]]
    BY <1>5 DEF EmitBurst
  <2>2. \A a \in Arms : got'[a].kind # "event"
    BY <2>1, NothingType DEF Holds
  <2> QED BY <2>2 DEF AfterHoldsNothing, Holds
<1>6. CASE UNCHANGED vars
  BY <1>6 DEF vars, AfterHoldsNothing, Holds
<1> QED BY <1>1, <1>2, <1>3, <1>4, <1>5, <1>6 DEF Next, Task

LEMMA AtAdmissionStep ==
    ASSUME AtAdmission, [Next]_vars
    PROVE  AtAdmission'
<1>1. CASE Next
  BY <1>1 DEF Next, Task, Admit, Refuse, PollArm, RoundEnds, PollTimer, Wake, DecideWait,
              DecideFollow, After, EmitBurst, PrintEnd, OutcomeRefused, AtAdmission
<1>2. CASE UNCHANGED vars
  BY <1>2 DEF vars, AtAdmission, outVars, inVars, observerVars
<1> QED BY <1>1, <1>2

-----------------------------------------------------------------------------
(* Standard output. *)

\* The action that ends the command, or prints nothing.
LEMMA Unprinted ==
    ASSUME Typed, Numbered, OutputHonest, lines' = lines, sequence' = sequence,
           pc # "exited" => exit' \in {Running, 1} /\ (exit' = Running <=> pc' # "exited"),
           pc = "exited" => pc' = pc /\ exit' = exit
    PROVE  Numbered' /\ OutputHonest'
<1>1. Running # 0
  BY DEF Running
<1>2. Numbered'
  BY DEF Numbered
<1>3. exit' = 0 => exit = 0
  BY <1>1 DEF Numbered
<1>4. OutputHonest'
  BY <1>3 DEF OutputHonest
<1> QED BY <1>2, <1>4

LEMMA OutputStep ==
    ASSUME Typed, Numbered, OutputHonest, [Next]_vars
    PROVE  Numbered' /\ OutputHonest'
<1> USE DEF inVars, clockVars, observerVars, passVars, outVars
<1>0. Running # 1 /\ Running # 0 /\ Running # 101
  BY DEF Running
<1>1. CASE Admit \/ RoundEnds \/ PollTimer \/ Wake \/ DecideWait \/ After
  BY <1>1, Unprinted DEF Admit, RoundEnds, PollTimer, Wake, DecideWait, After, Numbered
<1>2. CASE PollArm
  BY <1>2, Unprinted DEF PollArm, Numbered
<1>3. CASE Refuse \/ DecideFollow \/ OutcomeRefused
  BY <1>0, <1>3, Unprinted DEF Refuse, DecideFollow, OutcomeRefused, Numbered
<1>4. CASE UNCHANGED vars
  BY <1>4, Unprinted DEF vars, Numbered, Typed
<1> DEFINE n == Len(lines)
<1>5. CASE EmitBurst
  <2>1. PICK how \in Writes :
           /\ lines' = Append(lines, Line("burst", sequence + 1, EventsOf(Arms), how))
           /\ sequence' = IF how = "whole" THEN sequence + 1 ELSE sequence
           /\ IF GoesOn(how)
              THEN pc' = "after" /\ UNCHANGED exit
              ELSE pc' = "exited" /\ exit' = 1
    BY <1>5 DEF EmitBurst
  <2> DEFINE l == Line("burst", sequence + 1, EventsOf(Arms), how)
  <2>2. /\ l.kind = IF how = "torn" THEN "torn" ELSE "burst"
        /\ l.seq = sequence + 1
    BY DEF Line
  <2>3. l \in OutLine
    BY LineType DEF Typed
  <2> HIDE DEF l
  <2>4. /\ n \in Nat /\ Len(lines') = n + 1 /\ lines'[n + 1] = l
        /\ \A i \in 1..n : lines'[i] = lines[i]
    BY <2>1, <2>3, AppendProperties, LenProperties DEF Typed, l
  <2>5. n = sequence /\ \A i \in 1..n : lines[i].kind = "burst" /\ lines[i].seq = i
    BY <1>5 DEF EmitBurst, Numbered
  <2> HIDE DEF n
  <2>6. \A i \in 1 .. n + 1 : i \in 1..n \/ i = n + 1
    BY <2>4
  <2>7. CASE how = "whole"
    <3>1. pc' = "after" /\ exit' = exit /\ exit = Running /\ sequence' = n + 1
      BY <1>5, <2>1, <2>5, <2>7 DEF GoesOn, EmitBurst, Numbered
    <3>2. \A i \in 1 .. n + 1 : lines'[i].kind = "burst" /\ lines'[i].seq = i
      BY <2>2, <2>4, <2>5, <2>6, <2>7
    <3>3. Numbered'
      BY <2>4, <3>1, <3>2 DEF Numbered
    <3>4. \A i \in 1..n + 1 : i <= sequence'
      BY <2>4, <3>1
    <3>5. DOMAIN lines' = 1 .. n + 1
      BY <2>1, <2>3, <2>4, AppendProperties, LenProperties DEF Typed, l
    <3>6. OutputHonest'
      BY <1>0, <3>1, <3>2, <3>4, <3>5 DEF OutputHonest
    <3> QED BY <3>3, <3>6
  <2>8. CASE how # "whole"
    <3>1. pc' = "exited" /\ exit' = 1 /\ sequence' = n
      BY <2>1, <2>5, <2>8 DEF GoesOn
    <3>2. Numbered'
      BY <1>0, <3>1 DEF Numbered
    <3>3. DOMAIN lines' = 1 .. n + 1
      BY <2>1, <2>3, <2>4, AppendProperties, LenProperties DEF Typed, l
    <3>4. \A i \in 1 .. n + 1 : lines'[i].kind = "burst" => lines'[i].seq = i
      BY <2>2, <2>4, <2>5, <2>6
    <3>5. \A i \in 1 .. n + 1 : i < n + 1 => lines'[i].kind = "burst" /\ i <= sequence'
      BY <2>4, <2>5, <2>6, <3>1
    <3>6. OutputHonest'
      BY <2>4, <3>1, <3>3, <3>4, <3>5 DEF OutputHonest
    <3> QED BY <3>2, <3>6
  <2> QED BY <2>7, <2>8
<1>6. CASE PrintEnd
  <2>1. PICK how \in Writes :
           /\ lines' = Append(lines, Line(IF verb = "wait" THEN "outcome" ELSE "end", 0,
                                          EventsOf(Arms), how))
           /\ exit' = IF how = "whole" THEN 0 ELSE IF verb = "wait" THEN 101 ELSE 1
    BY <1>6 DEF PrintEnd
  <2> DEFINE l == Line(IF verb = "wait" THEN "outcome" ELSE "end", 0, EventsOf(Arms), how)
  <2>2. /\ l.kind \in {"torn", "outcome", "end"}
        /\ how = "whole" => l.kind \in {"outcome", "end"}
    BY DEF Line
  <2>3. l \in OutLine
    BY LineType DEF Typed
  <2> HIDE DEF l
  <2>4. /\ n \in Nat /\ Len(lines') = n + 1 /\ lines'[n + 1] = l
        /\ \A i \in 1..n : lines'[i] = lines[i]
    BY <2>1, <2>3, AppendProperties, LenProperties DEF Typed, l
  <2>5. DOMAIN lines' = 1 .. n + 1
    BY <2>1, <2>3, <2>4, AppendProperties, LenProperties DEF Typed, l
  <2>6. n = sequence /\ \A i \in 1..n : lines[i].kind = "burst" /\ lines[i].seq = i
    BY <1>6 DEF PrintEnd, Numbered
  <2>7. pc' = "exited" /\ sequence' = n /\ exit' \in {0, 1, 101} /\ (exit' = 0 => how = "whole")
    BY <1>6, <2>1, <2>6 DEF PrintEnd
  <2> HIDE DEF n
  <2>8. \A i \in 1 .. n + 1 : i \in 1..n \/ i = n + 1
    BY <2>4
  <2>9. Numbered'
    BY <1>0, <2>7 DEF Numbered
  <2>10. \A i \in 1 .. n + 1 : lines'[i].kind = "burst" => lines'[i].seq = i
    BY <2>2, <2>4, <2>6, <2>8
  <2>11. \A i \in 1 .. n + 1 : i < n + 1 => lines'[i].kind = "burst" /\ i <= sequence'
    BY <2>4, <2>6, <2>7, <2>8
  <2>12. exit' = 0 => lines' # <<>> /\ lines'[n + 1].kind \in {"end", "outcome"}
    BY <2>2, <2>4, <2>7
  <2>13. OutputHonest'
    BY <2>4, <2>5, <2>10, <2>11, <2>12 DEF OutputHonest
  <2> QED BY <2>9, <2>13
<1> QED BY <1>1, <1>2, <1>3, <1>4, <1>5, <1>6 DEF Next, Task

-----------------------------------------------------------------------------
(* The account of an arm: printed, held, queued. *)

Whole == \A i \in DOMAIN lines : lines[i].kind # "torn"

LEMMA TimesAreNumbers == Times \subseteq Nat /\ Seq(Times) \subseteq Seq(Nat)
<1>1. Times \subseteq Nat
  BY ReplayAssumption DEF Times
<1> QED BY <1>1, SeqMonotonic

LEMMA PrintedType ==
    ASSUME NEW a \in Arms, NEW out \in Seq(OutLine)
    PROVE  Printed(out, a) \in Seq(Nat)
<1> DEFINE P == {t \in Seq(OutLine) : Printed(t, a) \in Seq(Nat)}
<1>1. <<>> \in P
  BY PrintedEmpty, EmptySeq
<1>2. ASSUME NEW t \in P, NEW l \in OutLine PROVE Append(t, l) \in P
  <2>1. t \in Seq(OutLine) /\ Printed(t, a) \in Seq(Nat) /\ Append(t, l) \in Seq(OutLine)
    BY AppendProperties
  <2>2. Printed(Append(t, l), a) = Printed(t, a) \o OfArm(l.events, a)
    BY <2>1, PrintedAppend
  <2>3. OfArm(l.events, a) \in Seq(Nat)
    <3>1. \A e \in l.events : e[2] \in Nat
      BY TimesAreNumbers DEF OutLine
    <3>2. CASE \E e \in l.events : e[1] = a
      <4>1. (CHOOSE e \in l.events : e[1] = a) \in l.events
        BY <3>2
      <4>2. OfArm(l.events, a) = <<(CHOOSE e \in l.events : e[1] = a)[2]>>
        BY <3>2 DEF OfArm
      <4> HIDE <3>2
      <4> QED BY <3>1, <4>1, <4>2
    <3>3. CASE ~ \E e \in l.events : e[1] = a
      BY <3>3, EmptySeq DEF OfArm
    <3> QED BY <3>2, <3>3
  <2> QED BY <2>1, <2>2, <2>3, ConcatProperties
<1>3. P = Seq(OutLine)
  <2>1. P \in SUBSET Seq(OutLine)
    OBVIOUS
  <2> HIDE DEF P
  <2> QED BY <1>1, <1>2, <2>1, SeqInduction
<1> QED BY <1>3

\* The line of a turn has what each arm holds.
LEMMA LineHasHeld ==
    ASSUME NEW a \in Arms
    PROVE  OfArm(EventsOf(Arms), a) = Held(a)
<1>1. CASE Holds(a)
  <2>1. <<a, got[a].at>> \in EventsOf(Arms)
    BY <1>1 DEF EventsOf
  <2>2. \A e \in EventsOf(Arms) : e[1] = a => e = <<a, got[a].at>>
    BY DEF EventsOf
  <2>3. (CHOOSE e \in EventsOf(Arms) : e[1] = a) = <<a, got[a].at>>
    BY <2>1, <2>2
  <2>4. OfArm(EventsOf(Arms), a) = <<(CHOOSE e \in EventsOf(Arms) : e[1] = a)[2]>>
    BY <2>1 DEF OfArm
  <2>5. <<a, got[a].at>>[2] = got[a].at
    OBVIOUS
  <2>6. Held(a) = <<got[a].at>>
    BY <1>1 DEF Held
  <2> QED BY <2>3, <2>4, <2>5, <2>6, Zenon
<1>2. CASE ~Holds(a)
  <2>1. \A e \in EventsOf(Arms) : e[1] # a
    BY <1>2 DEF EventsOf
  <2> QED BY <1>2, <2>1 DEF OfArm, Held
<1> QED BY <1>1, <1>2

LEMMA AccountType ==
    ASSUME Typed, NEW a \in Arms
    PROVE  Delivered(a) \in Seq(Nat) /\ Held(a) \in Seq(Nat) /\ queue[a] \in Seq(Nat)
<1>1. Delivered(a) \in Seq(Nat)
  BY PrintedType DEF Typed, Delivered
<1>2. queue[a] \in Seq(Nat)
  BY TimesAreNumbers DEF Typed
<1>3. got[a].at \in Nat
  BY TimesAreNumbers DEF Typed, Return
<1>4. <<got[a].at>> \in Seq(Nat) /\ <<>> \in Seq(Nat)
  BY <1>3
<1> HIDE DEF Holds
<1>5. Held(a) \in Seq(Nat)
  BY <1>4, Zenon DEF Held
<1> QED BY <1>1, <1>2, <1>5

LEMMA Rows ==
    \A d, h, q \in Seq(Nat) : /\ d \o h \o q = d \o <<>> \o (h \o q)
                              /\ (d \o h) \o <<>> \o q = d \o h \o q
<1> SUFFICES ASSUME NEW d \in Seq(Nat), NEW h \in Seq(Nat), NEW q \in Seq(Nat)
             PROVE  /\ d \o h \o q = d \o <<>> \o (h \o q)
                    /\ (d \o h) \o <<>> \o q = d \o h \o q
  OBVIOUS
<1>1. d \o h \in Seq(Nat)
  BY ConcatProperties
<1>2. d \o <<>> = d /\ (d \o h) \o <<>> = d \o h
  BY <1>1, ConcatEmptySeq
<1>3. d \o h \o q = d \o (h \o q)
  BY ThreeInARow, Zenon
<1> QED BY <1>2, <1>3, Zenon

\* What is taken is held instead of queued.
LEMMA TakingKeeps ==
    ASSUME Typed, NEW taken, Taking(taken), lines' = lines, NEW a \in Arms
    PROVE  Delivered(a)' \o Held(a)' \o queue'[a] = Delivered(a) \o Held(a) \o queue[a]
<1>1. Delivered(a)' = Delivered(a)
  BY DEF Delivered, Printed
<1>2. got'[a] = IF got[a] = Nothing THEN taken[a] ELSE got[a]
  BY DEF Taking
<1>3. queue'[a] = IF taken[a].kind = "event" THEN Tail(queue[a]) ELSE queue[a]
  BY DEF Taking, Popped
<1>4. CASE taken[a].kind = "event"
  <2>1. got[a] = Nothing
    BY <1>4, NothingType DEF Taking
  <2>2. got'[a] = taken[a] /\ taken[a].at = Head(queue[a]) /\ queue[a] # <<>>
    BY <1>2, <1>4, <2>1 DEF Taking, Takes
  <2>3. Held(a) = <<>>
    BY <2>1, NothingType DEF Held, Holds
  <2>4. Held(a)' = <<Head(queue[a])>>
    BY <1>4, <2>2 DEF Held, Holds
  <2>5. queue[a] \in Seq(Times) /\ queue[a] \in Seq(Nat) /\ Delivered(a) \in Seq(Nat)
    BY AccountType DEF Typed
  <2>6. <<Head(queue[a])>> \o Tail(queue[a]) = queue[a]
    BY <2>2, <2>5, HeadOfNonEmpty
  <2>7. Head(queue[a]) \in Nat /\ Tail(queue[a]) \in Seq(Nat)
    BY <2>2, <2>5, HeadTailProperties
  <2>8. <<Head(queue[a])>> \in Seq(Nat)
    BY <2>7
  <2>9. Delivered(a) \o <<Head(queue[a])>> \o Tail(queue[a])
          = Delivered(a) \o <<>> \o (<<Head(queue[a])>> \o Tail(queue[a]))
    BY <2>5, <2>7, <2>8, Rows, Zenon
  <2> QED BY <1>1, <1>3, <1>4, <2>3, <2>4, <2>6, <2>9, Zenon
<1>5. CASE taken[a].kind # "event"
  <2>1. Held(a)' = Held(a)
    <3>1. CASE got[a] = Nothing
      BY <1>2, <1>5, <3>1, NothingType DEF Held, Holds
    <3>2. CASE got[a] # Nothing
      BY <1>2, <3>2 DEF Held, Holds
    <3> QED BY <3>1, <3>2
  <2>2. queue'[a] = queue[a]
    BY <1>3, <1>5
  <2> QED BY <1>1, <2>1, <2>2, Zenon
<1> QED BY <1>4, <1>5

\* What is given back is queued, in front, instead of held.
LEMMA RestoringKeeps ==
    ASSUME Typed, queue' = Restored({}), got' = [x \in Arms |-> Nothing], lines' = lines,
           NEW a \in Arms
    PROVE  Delivered(a)' \o Held(a)' \o queue'[a] = Delivered(a) \o Held(a) \o queue[a]
<1>1. Delivered(a)' = Delivered(a)
  BY DEF Delivered, Printed
<1>2. Held(a)' = <<>>
  BY NothingType DEF Held, Holds
<1>3. queue'[a] = Held(a) \o queue[a]
  <2>1. queue'[a] = IF Holds(a) THEN <<got[a].at>> \o queue[a] ELSE queue[a]
    BY DEF Restored
  <2>2. <<>> \o queue[a] = queue[a]
    BY ConcatEmptySeq DEF Typed
  <2> HIDE DEF Holds
  <2> QED BY <2>1, <2>2, Zenon DEF Held
<1>4. Delivered(a) \o Held(a) \o queue[a] = Delivered(a) \o <<>> \o (Held(a) \o queue[a])
  BY AccountType, Rows, Zenon
<1> QED BY <1>1, <1>2, <1>3, <1>4, Zenon

\* What is printed is no longer held.
LEMMA EmittingKeeps ==
    ASSUME Typed, EmitBurst, NEW a \in Arms
    PROVE  Delivered(a)' \o Held(a)' \o queue'[a] = Delivered(a) \o Held(a) \o queue[a]
<1>1. PICK how \in Writes :
         lines' = Append(lines, Line("burst", sequence + 1, EventsOf(Arms), how))
  BY DEF EmitBurst
<1> DEFINE l == Line("burst", sequence + 1, EventsOf(Arms), how)
<1>2. l \in OutLine /\ l.events = EventsOf(Arms)
  BY LineType DEF Typed, Line
<1> HIDE DEF l
<1>3. lines' = Append(lines, l) /\ lines \in Seq(OutLine)
  BY <1>1 DEF Typed, l
<1>4. Printed(Append(lines, l), a) = Printed(lines, a) \o OfArm(l.events, a)
  BY <1>2, <1>3, PrintedAppend
<1>5. Delivered(a)' = Printed(lines', a)
  BY DEF Delivered, Printed
<1>6. Delivered(a)' = Delivered(a) \o Held(a)
  BY <1>2, <1>3, <1>4, <1>5, LineHasHeld, Zenon DEF Delivered
<1>7. Held(a)' = <<>>
  <2>1. got'[a] = IF Holds(a) THEN Nothing ELSE got[a]
    BY DEF EmitBurst
  <2>2. got'[a].kind # "event"
    BY <2>1, NothingType DEF Holds
  <2> QED BY <2>2 DEF Held, Holds
<1>8. queue' = queue
  BY DEF EmitBurst, observerVars
<1>9. (Delivered(a) \o Held(a)) \o <<>> \o queue[a] = Delivered(a) \o Held(a) \o queue[a]
  BY AccountType, Rows, Zenon
<1> QED BY <1>6, <1>7, <1>8, <1>9, Zenon

\* The account does not change where neither part of it does.
LEMMA AccountStays ==
    ASSUME lines' = lines, got' = got, queue' = queue, NEW a \in Arms
    PROVE  Delivered(a)' \o Held(a)' \o queue'[a] = Delivered(a) \o Held(a) \o queue[a]
<1>1. Delivered(a)' = Delivered(a) /\ Held(a)' = Held(a) /\ queue'[a] = queue[a]
  BY DEF Delivered, Printed, Held, Holds
<1> QED BY <1>1, Zenon

LEMMA AccountKept ==
    ASSUME Typed, TakenIsGone, AfterHoldsNothing, verb = "follow", pc # "admit",
           [Next]_vars, Whole', NEW a \in Arms
    PROVE  Delivered(a)' \o Held(a)' \o queue'[a] = Delivered(a) \o Held(a) \o queue[a]
<1> USE DEF inVars, clockVars, observerVars, passVars, outVars
<1>1. CASE Admit \/ Refuse \/ DecideWait \/ OutcomeRefused
  BY <1>1 DEF Admit, Refuse, DecideWait, OutcomeRefused
<1>2. CASE RoundEnds \/ PollTimer \/ UNCHANGED vars
  BY <1>2, AccountStays DEF RoundEnds, PollTimer, vars
<1>3. CASE PollArm
  <2>1. turn \in Arms
    BY <1>3 DEF PollArm, Arms, Typed
  <2>2. CASE PollNext(turn)
    BY <1>3, <2>1, <2>2, PollNextTakes, TakingKeeps DEF PollArm
  <2>3. CASE UNCHANGED <<clockVars, observerVars, got, progressed, awake>>
    BY <1>3, <2>3, AccountStays DEF PollArm
  <2> QED BY <1>3, <2>2, <2>3 DEF PollArm
<1>4. CASE Wake
  <2>1. CASE MoreReady
    BY <1>4, <2>1, MoreReadyTakes, TakingKeeps DEF Wake
  <2>2. CASE UNCHANGED <<observerVars, got, fut>>
    BY <1>4, <2>2, AccountStays DEF Wake
  <2> QED BY <1>4, <2>1, <2>2 DEF Wake
<1>5. CASE DecideFollow
  <2>1. CASE now >= Lease
    BY <1>5, <2>1, RestoringKeeps DEF DecideFollow
  <2>2. CASE ~(now >= Lease)
    BY <1>5, <2>2, AccountStays DEF DecideFollow
  <2> QED BY <2>1, <2>2
<1>6. CASE After
  <2>1. lines' = lines /\ queue' = queue
    BY <1>6 DEF After
  <2>2. ~Holds(a)
    BY <1>6 DEF After, AfterHoldsNothing
  <2>3. got'[a] \in {got[a], Nothing}
    BY <1>6 DEF After
  <2>4. Held(a) = <<>> /\ Held(a)' = <<>>
    BY <2>2, <2>3, NothingType DEF Held, Holds
  <2>5. Delivered(a)' = Delivered(a)
    BY <2>1 DEF Delivered, Printed
  <2> QED BY <2>1, <2>4, <2>5, Zenon
<1>7. CASE EmitBurst
  BY <1>7, EmittingKeeps
<1>8. CASE PrintEnd
  <2>1. PICK how \in Writes :
           lines' = Append(lines, Line(IF verb = "wait" THEN "outcome" ELSE "end", 0,
                                       EventsOf(Arms), how))
    BY <1>8 DEF PrintEnd
  <2> DEFINE l == Line("end", 0, EventsOf(Arms), how)
  <2>2. lines' = Append(lines, l) /\ lines \in Seq(OutLine) /\ l \in OutLine
    BY <2>1, LineType DEF Typed
  <2>3. l.kind = "torn" \/ l.events = EventsOf(Arms)
    BY DEF Line
  <2> HIDE DEF l
  <2>4. /\ Len(lines) + 1 \in DOMAIN lines' /\ lines'[Len(lines) + 1] = l
    BY <2>2, AppendProperties, LenProperties
  <2>5. l.events = EventsOf(Arms)
    BY <2>3, <2>4 DEF Whole
  <2>6. Held(a) = <<>>
    BY <1>8 DEF PrintEnd, AfterHoldsNothing, Held
  <2>7. Delivered(a)' = Delivered(a) \o <<>>
    <3>1. Delivered(a)' = Printed(lines', a)
      BY DEF Delivered, Printed
    <3>2. Printed(Append(lines, l), a) = Printed(lines, a) \o OfArm(l.events, a)
      BY <2>2, PrintedAppend
    <3>3. OfArm(l.events, a) = <<>>
      BY <2>5, <2>6, LineHasHeld
    <3> QED BY <2>2, <3>1, <3>2, <3>3, Zenon DEF Delivered
  <2>8. Delivered(a) \o <<>> = Delivered(a)
    BY AccountType, ConcatEmptySeq
  <2>9. Held(a)' = Held(a) /\ queue' = queue
    BY <1>8 DEF PrintEnd, Held, Holds
  <2> QED BY <2>7, <2>8, <2>9, Zenon
<1> QED BY <1>1, <1>2, <1>3, <1>4, <1>5, <1>6, <1>7, <1>8 DEF Next, Task

-----------------------------------------------------------------------------
(* The theorems. *)

\* Lines are only added.
LEMMA WholeBefore ==
    ASSUME Typed, [Next]_vars, Whole'
    PROVE  Whole
<1>1. lines' = lines \/ EmitBurst \/ PrintEnd
  BY DEF Next, Task, Admit, Refuse, PollArm, RoundEnds, PollTimer, Wake, DecideWait,
         DecideFollow, After, OutcomeRefused, vars, outVars
<1>2. CASE lines' = lines
  BY <1>2 DEF Whole
<1>3. CASE EmitBurst \/ PrintEnd
  <2>1. \E l \in OutLine : lines' = Append(lines, l)
    <3>1. CASE EmitBurst
      <4>1. PICK how \in Writes :
               lines' = Append(lines, Line("burst", sequence + 1, EventsOf(Arms), how))
        BY <3>1 DEF EmitBurst
      <4>2. Line("burst", sequence + 1, EventsOf(Arms), how) \in OutLine
        BY LineType DEF Typed
      <4> QED BY <4>1, <4>2
    <3>2. CASE PrintEnd
      <4>1. PICK how \in Writes :
               lines' = Append(lines, Line(IF verb = "wait" THEN "outcome" ELSE "end", 0,
                                           EventsOf(Arms), how))
        BY <3>2 DEF PrintEnd
      <4>2. Line(IF verb = "wait" THEN "outcome" ELSE "end", 0, EventsOf(Arms), how) \in OutLine
        BY LineType DEF Typed
      <4> QED BY <4>1, <4>2
    <3> QED BY <1>3, <3>1, <3>2
  <2>2. /\ DOMAIN lines = 1..Len(lines) /\ DOMAIN lines' = 1 .. Len(lines) + 1
        /\ \A i \in 1..Len(lines) : lines'[i] = lines[i]
        /\ Len(lines) \in Nat
    BY <2>1, AppendProperties, LenProperties DEF Typed
  <2>3. 1..Len(lines) \subseteq 1 .. Len(lines) + 1
    BY <2>2
  <2> QED BY <2>2, <2>3 DEF Whole
<1> QED BY <1>1, <1>2, <1>3

LEMMA ReplaysStep ==
    ASSUME Inv, [Next]_vars
    PROVE  ReplaysTheScript'
<1> SUFFICES ASSUME verb' = "follow", pc' # "admit", Whole', NEW a \in Arms
             PROVE  Delivered(a)' \o Held(a)' \o queue'[a] = Sorted(script'[a])
  BY DEF ReplaysTheScript, Whole
<1>1. CASE Admit
  <2>1. lines = <<>> /\ got = [x \in Arms |-> Nothing] /\ lines' = lines /\ got' = got
    BY <1>1 DEF Admit, Inv, AtAdmission, outVars
  <2>2. queue'[a] = Sorted(script'[a]) /\ script'[a] \in Seq(Times)
    BY <1>1, ReplayAssumption DEF Admit
  <2>3. Delivered(a)' = <<>>
    <3>1. Delivered(a)' = Printed(lines', a)
      BY DEF Delivered, Printed
    <3> QED BY <2>1, <3>1, PrintedEmpty, Zenon
  <2>4. Held(a)' = <<>>
    BY <2>1, NothingType DEF Held, Holds
  <2>5. Sorted(script'[a]) \in Seq(Times)
    BY <2>2, ScriptsAreSorted
  <2>6. <<>> \o Sorted(script'[a]) = Sorted(script'[a]) /\ <<>> \o <<>> = <<>>
    BY <2>5, ConcatEmptySeq
  <2> QED BY <2>2, <2>3, <2>4, <2>6, Zenon
<1>2. CASE pc = "admit" /\ Refuse
  <2>1. /\ lines' = <<>> /\ got' = [x \in Arms |-> Nothing]
        /\ script' = [x \in Arms |-> <<>>] /\ queue' = [x \in Arms |-> <<>>]
    BY <1>2 DEF Refuse, inVars, observerVars, Inv, AtAdmission
  <2>2. Delivered(a)' = <<>>
    <3>1. Delivered(a)' = Printed(lines', a)
      BY DEF Delivered, Printed
    <3> QED BY <2>1, <3>1, PrintedEmpty, Zenon
  <2>3. Held(a)' = <<>>
    BY <2>1, NothingType DEF Held, Holds
  <2>4. <<>> \o <<>> \o <<>> = <<>>
    BY ConcatEmptySeq
  <2>5. script'[a] = <<>> /\ queue'[a] = <<>>
    BY <2>1
  <2> QED BY <2>2, <2>3, <2>4, <2>5, SortedEmpty, Zenon
<1>3. CASE pc # "admit"
  <2>1. verb' = verb /\ script' = script
    BY <1>3 DEF Next, Task, Admit, Refuse, PollArm, RoundEnds, PollTimer, Wake, DecideWait,
                DecideFollow, After, EmitBurst, PrintEnd, OutcomeRefused, vars, inVars
  <2>2. Whole
    BY WholeBefore DEF Inv
  <2> QED BY <1>3, <2>1, <2>2, AccountKept DEF Inv, ReplaysTheScript, Whole
<1>4. CASE pc = "admit" /\ ~Admit /\ ~Refuse
  <2>1. pc' = pc
    BY <1>4 DEF Next, Task, PollArm, RoundEnds, PollTimer, Wake, DecideWait,
                DecideFollow, After, EmitBurst, PrintEnd, OutcomeRefused, vars
  <2> QED BY <1>4, <2>1
<1> QED BY <1>1, <1>2, <1>3, <1>4

LEMMA InitInv == Init => Inv
<1> SUFFICES ASSUME Init PROVE Inv
  OBVIOUS
<1> USE DEF Init
<1>1. Typed
  <2>1. Sleep("unbound", 0) \in Sleeper /\ Sleep("new", 0) \in Sleeper /\ Nothing \in Return
    BY SleepType, NothingType
  <2>2. 0 \in Times /\ 1 \in 1 .. N + 1 /\ <<>> \in Seq(Times) /\ <<>> \in Seq(OutLine)
    BY NothingType, ReplayAssumption
  <2> QED BY <2>1, <2>2 DEF Typed
<1>2. Numbered /\ OutputHonest
  <2>1. exit # 0 /\ DOMAIN lines = {} /\ Len(lines) = 0
    BY DEF Running
  <2> QED BY <2>1 DEF Numbered, OutputHonest
<1>3. TakenIsGone /\ AfterHoldsNothing /\ AtAdmission
  BY DEF TakenIsGone, AfterHoldsNothing, AtAdmission
<1>4. ReplaysTheScript
  BY DEF ReplaysTheScript
<1> QED BY <1>1, <1>2, <1>3, <1>4 DEF Inv

\* The invariant under which a replay runs: types, the numbering of accepted
\* lines, that an arm which has returned is not polled again before its event
\* has been used, and the account of each arm.
THEOREM ReplayInvariance == Spec => []Inv
<1>1. Inv /\ [Next]_vars => Inv'
  <2> SUFFICES ASSUME Inv, [Next]_vars PROVE Inv'
    OBVIOUS
  <2>1. Typed' /\ TakenIsGone' /\ AfterHoldsNothing' /\ AtAdmission'
    BY TypedStep, TakenIsGoneStep, AfterHoldsNothingStep, AtAdmissionStep DEF Inv
  <2>2. Numbered' /\ OutputHonest'
    BY OutputStep DEF Inv
  <2>3. ReplaysTheScript'
    BY ReplaysStep
  <2> QED BY <2>1, <2>2, <2>3 DEF Inv
<1> QED BY InitInv, <1>1, PTL DEF Spec

\* Exit 0 is a complete account, whatever writes fail: bursts are numbered from
\* 1, no line follows one that was not accepted, and the end or the outcome is
\* the last line.
THEOREM OutputIsHonest == Spec => []OutputHonest
<1>1. Inv => OutputHonest
  BY DEF Inv
<1> QED BY ReplayInvariance, <1>1, PTL

\* Of every arm, what follow has printed, what it holds and what is still with
\* the observer is at all times the script in the order of its instants, for
\* every script, number of arms and order of polls; only a line that was cut
\* off loses events.
THEOREM ScriptIsReplayed == Spec => []ReplaysTheScript
<1>1. Inv => ReplaysTheScript
  BY DEF Inv
<1> QED BY ReplayInvariance, <1>1, PTL
=============================================================================
