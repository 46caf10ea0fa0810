----------------------------- MODULE Lists_proofs -----------------------------
(***************************************************************************)
(* Induction without an operator parameter, what Total and Keeping         *)
(* compute, and what becomes of the events of an arm in one step.          *)
(***************************************************************************)
EXTENDS Lists, Integers, SequenceTheorems, WellFoundedInduction, TLAPS

-----------------------------------------------------------------------------
(* Induction. *)

\* A non-empty set of naturals has a least element.
LEMMA Least ==
    ASSUME NEW T \in SUBSET Nat, T # {}
    PROVE  \E m \in T : \A k \in T : m <= k
<1>1. PICK m \in T : \A k \in T : <<k, m>> \notin OpToRel(<, Nat)
  BY WFMin, NatLessThanWellFounded, Zenon
<1>2. \A k \in T : ~(k < m)
  BY <1>1, Zenon DEF OpToRel
<1>3. \A k \in T : m <= k
  BY <1>2, SMT
<1> QED BY <1>3

\* Induction over the naturals, for a set instead of a predicate.
LEMMA SetInduction ==
    ASSUME NEW T \in SUBSET Nat, 0 \in T, \A n \in T : n + 1 \in T
    PROVE  T = Nat
<1> SUFFICES ASSUME Nat \ T # {} PROVE FALSE
  OBVIOUS
<1>1. PICK m \in Nat \ T : \A k \in Nat \ T : m <= k
  BY Least
<1>2. m # 0 /\ m - 1 \in Nat
  OBVIOUS
<1>3. m - 1 \in T
  BY <1>1, <1>2
<1> QED BY <1>1, <1>3

\* A sequence that is not empty is one that has been appended to.
LEMMA LastOfSeq ==
    ASSUME NEW T, NEW s \in Seq(T), s # <<>>
    PROVE  \E f \in Seq(T) : \E e \in T : s = Append(f, e) /\ Len(f) = Len(s) - 1
<1> DEFINE n == Len(s) - 1
           f == SubSeq(s, 1, n)
<1>1. n \in Nat /\ Len(s) = n + 1 /\ s[Len(s)] \in T
  BY LenProperties, EmptySeq, ElementOfSeq
<1>2. f \in Seq(T) /\ Len(f) = n /\ \A i \in 1..n : f[i] = s[i]
  <2>1. \A i \in 1..n : s[i] \in T
    BY <1>1, ElementOfSeq
  <2> QED BY <1>1, <2>1, SubSeqProperties
<1>3. Append(f, s[Len(s)]) \in Seq(T) /\ Len(Append(f, s[Len(s)])) = n + 1
  BY <1>1, <1>2, AppendProperties
<1> HIDE DEF f
<1>4. \A i \in 1..Len(s) : Append(f, s[Len(s)])[i] = s[i]
  BY <1>1, <1>2
<1> HIDE DEF n
<1>5. Append(f, s[Len(s)]) = s
  BY <1>1, <1>3, <1>4, SeqEqual
<1> QED BY <1>1, <1>2, <1>5 DEF n

\* Induction over sequences: a set that has the empty sequence, and with a
\* sequence every longer one by an element, has them all.
LEMMA SeqInduction ==
    ASSUME NEW T, NEW P \in SUBSET Seq(T), <<>> \in P,
           \A s \in P : \A e \in T : Append(s, e) \in P
    PROVE  P = Seq(T)
<1> DEFINE L == {n \in Nat : \A s \in Seq(T) : Len(s) = n => s \in P}
<1>1. 0 \in L
  <2>1. \A s \in Seq(T) : Len(s) = 0 => s = <<>>
    BY EmptySeq
  <2> QED BY <2>1
<1>2. ASSUME NEW n \in L PROVE n + 1 \in L
  <2> SUFFICES ASSUME NEW s \in Seq(T), Len(s) = n + 1 PROVE s \in P
    OBVIOUS
  <2>1. s # <<>>
    OBVIOUS
  <2>2. PICK f \in Seq(T) : \E e \in T : s = Append(f, e) /\ Len(f) = Len(s) - 1
    BY <2>1, LastOfSeq
  <2>3. f \in P
    BY <2>2
  <2> QED BY <2>2, <2>3
<1>3. L = Nat
  <2> HIDE DEF L
  <2>1. L \in SUBSET Nat
    BY DEF L
  <2> QED BY <1>1, <1>2, <2>1, SetInduction
<1>4. ASSUME NEW s \in Seq(T) PROVE s \in P
  BY <1>3, LenProperties
<1> QED BY <1>4
-----------------------------------------------------------------------------
(* Total. *)

IsTotal(s, f, n) == s = [i \in 0..n |-> IF i = 0 THEN 0 ELSE s[i - 1] + f[i]]

LEMMA TotalIsDefined ==
    ASSUME NEW f, NEW n \in Nat
    PROVE  \E s : IsTotal(s, f, n)
<1> DEFINE T == {k \in Nat : \E s : IsTotal(s, f, k)}
<1>1. 0 \in T
  <2>1. IsTotal([i \in 0..0 |-> 0], f, 0)
    BY DEF IsTotal
  <2> QED BY <2>1
<1>2. ASSUME NEW k \in T PROVE k + 1 \in T
  <2>1. PICK s : IsTotal(s, f, k)
    OBVIOUS
  <2> DEFINE g == [i \in 0..k + 1 |-> IF i = k + 1 THEN s[k] + f[k + 1] ELSE s[i]]
  <2>2. IsTotal(g, f, k + 1)
    <3>1. ASSUME NEW i \in 0..k + 1 PROVE g[i] = IF i = 0 THEN 0 ELSE g[i - 1] + f[i]
      BY <2>1 DEF IsTotal
    <3> QED BY <3>1 DEF IsTotal
  <2> HIDE DEF g
  <2> QED BY <2>2
<1> HIDE DEF T
<1>3. T = Nat
  <2>1. T \in SUBSET Nat
    BY DEF T
  <2> QED BY <1>1, <1>2, <2>1, SetInduction
<1> QED BY <1>3 DEF T

LEMMA TotalIsLast ==
    ASSUME NEW f, NEW n \in Nat
    PROVE  \E s : IsTotal(s, f, n) /\ Total(f, n) = s[n]
<1> DEFINE c == CHOOSE s : s = [i \in 0..n |-> IF i = 0 THEN 0 ELSE s[i - 1] + f[i]]
<1>1. \E s : s = [i \in 0..n |-> IF i = 0 THEN 0 ELSE s[i - 1] + f[i]]
  BY TotalIsDefined DEF IsTotal
<1>2. c = [i \in 0..n |-> IF i = 0 THEN 0 ELSE c[i - 1] + f[i]]
  BY <1>1, Zenon
<1>3. Total(f, n) = c[n]
  BY DEF Total
<1> HIDE DEF c
<1> QED BY <1>2, <1>3 DEF IsTotal

\* Sums over a longer and a shorter range agree where both are defined.
LEMMA TotalsAgree ==
    ASSUME NEW f, NEW n \in Nat, NEW m \in Nat, NEW s, NEW t,
           IsTotal(s, f, n), IsTotal(t, f, m)
    PROVE  \A i \in Nat : i <= n /\ i <= m => s[i] = t[i]
<1> DEFINE T == {i \in Nat : i <= n /\ i <= m => s[i] = t[i]}
<1>1. 0 \in T
  BY DEF IsTotal
<1>2. ASSUME NEW i \in T PROVE i + 1 \in T
  <2>1. CASE i + 1 <= n /\ i + 1 <= m
    <3>1. s[i] = t[i]
      BY <2>1
    <3>2. s[i + 1] = s[i] + f[i + 1] /\ t[i + 1] = t[i] + f[i + 1]
      BY <2>1 DEF IsTotal
    <3> QED BY <3>1, <3>2
  <2> QED BY <2>1
<1>3. T = Nat
  <2>1. T \in SUBSET Nat
    OBVIOUS
  <2> HIDE DEF T
  <2> QED BY <1>1, <1>2, <2>1, SetInduction
<1> QED BY <1>3

\* The sum is what its recursive definition says.
LEMMA TotalSteps ==
    ASSUME NEW f
    PROVE  /\ Total(f, 0) = 0
           /\ \A n \in Nat : Total(f, n + 1) = Total(f, n) + f[n + 1]
<1>1. Total(f, 0) = 0
  <2>1. PICK s : IsTotal(s, f, 0) /\ Total(f, 0) = s[0]
    BY TotalIsLast
  <2> QED BY <2>1 DEF IsTotal
<1>2. ASSUME NEW n \in Nat PROVE Total(f, n + 1) = Total(f, n) + f[n + 1]
  <2>1. PICK s : IsTotal(s, f, n) /\ Total(f, n) = s[n]
    BY TotalIsLast
  <2>2. PICK t : IsTotal(t, f, n + 1) /\ Total(f, n + 1) = t[n + 1]
    BY TotalIsLast
  <2>3. s[n] = t[n]
    BY <2>1, <2>2, TotalsAgree
  <2>4. t[n + 1] = t[n] + f[n + 1]
    BY <2>2 DEF IsTotal
  <2> QED BY <2>1, <2>2, <2>3, <2>4
<1> QED BY <1>1, <1>2

\* A sum of naturals is a natural, and no smaller than that of smaller terms.
LEMMA TotalBounds ==
    ASSUME NEW n \in Nat, NEW f, NEW g,
           \A i \in 1..n : f[i] \in Nat /\ g[i] \in Nat /\ f[i] <= g[i]
    PROVE  Total(f, n) \in Nat /\ Total(g, n) \in Nat /\ Total(f, n) <= Total(g, n)
<1> DEFINE T == {i \in Nat : i <= n => /\ Total(f, i) \in Nat /\ Total(g, i) \in Nat
                                      /\ Total(f, i) <= Total(g, i)}
<1>1. 0 \in T
  BY TotalSteps
<1>2. ASSUME NEW i \in T PROVE i + 1 \in T
  <2>1. /\ Total(f, i + 1) = Total(f, i) + f[i + 1]
        /\ Total(g, i + 1) = Total(g, i) + g[i + 1]
    BY TotalSteps
  <2> QED BY <2>1
<1>3. T = Nat
  <2>1. T \in SUBSET Nat
    OBVIOUS
  <2> HIDE DEF T
  <2> QED BY <1>1, <1>2, <2>1, SetInduction
<1> QED BY <1>3

\* One term that grows by d makes the sum grow by d.
LEMMA TotalGrows ==
    ASSUME NEW n \in Nat, NEW k \in 1..n, NEW d \in Nat, NEW f, NEW g,
           g[k] = f[k] + d, \A i \in 1..n : f[i] \in Nat /\ (i # k => g[i] = f[i])
    PROVE  Total(g, n) = Total(f, n) + d
<1> DEFINE T == {i \in Nat : i <= n => /\ Total(f, i) \in Nat
                                      /\ Total(g, i) = Total(f, i) + IF i < k THEN 0 ELSE d}
<1>1. 0 \in T
  BY TotalSteps
<1>2. ASSUME NEW i \in T PROVE i + 1 \in T
  <2>1. /\ Total(f, i + 1) = Total(f, i) + f[i + 1]
        /\ Total(g, i + 1) = Total(g, i) + g[i + 1]
    BY TotalSteps
  <2> QED BY <2>1
<1>3. T = Nat
  <2>1. T \in SUBSET Nat
    OBVIOUS
  <2> HIDE DEF T
  <2> QED BY <1>1, <1>2, <2>1, SetInduction
<1> QED BY <1>3

LEMMA TotalOfNothing ==
    ASSUME NEW n \in Nat, NEW f, \A i \in 1..n : f[i] = 0
    PROVE  Total(f, n) = 0
<1> DEFINE T == {i \in Nat : i <= n => Total(f, i) = 0}
<1>1. 0 \in T
  BY TotalSteps
<1>2. ASSUME NEW i \in T PROVE i + 1 \in T
  <2>1. Total(f, i + 1) = Total(f, i) + f[i + 1]
    BY TotalSteps
  <2> QED BY <2>1
<1>3. T = Nat
  <2>1. T \in SUBSET Nat
    OBVIOUS
  <2> HIDE DEF T
  <2> QED BY <1>1, <1>2, <2>1, SetInduction
<1> QED BY <1>3

-----------------------------------------------------------------------------
(* Keeping. *)

KeptOf(k, e, S) == IF e \in S THEN Append(k, e) ELSE k
IsKept(k, s, S, n) ==
    k = [i \in 0..n |-> IF i = 0 THEN <<>> ELSE KeptOf(k[i - 1], s[i], S)]

LEMMA KeptIsDefined ==
    ASSUME NEW s, NEW S, NEW n \in Nat
    PROVE  \E k : IsKept(k, s, S, n)
<1> DEFINE T == {m \in Nat : \E k : IsKept(k, s, S, m)}
<1>1. 0 \in T
  <2>1. IsKept([i \in 0..0 |-> <<>>], s, S, 0)
    BY DEF IsKept
  <2> QED BY <2>1
<1>2. ASSUME NEW m \in T PROVE m + 1 \in T
  <2>1. PICK k : IsKept(k, s, S, m)
    OBVIOUS
  <2> DEFINE last == KeptOf(k[m], s[m + 1], S)
             g == [i \in 0..m + 1 |-> IF i = m + 1 THEN last ELSE k[i]]
  <2>2. IsKept(g, s, S, m + 1)
    <3>1. ASSUME NEW i \in 0..m + 1
          PROVE  g[i] = IF i = 0 THEN <<>> ELSE KeptOf(g[i - 1], s[i], S)
      BY <2>1 DEF IsKept
    <3> QED BY <3>1 DEF IsKept
  <2> HIDE DEF g
  <2> QED BY <2>2
<1> HIDE DEF T
<1>3. T = Nat
  <2>1. T \in SUBSET Nat
    BY DEF T
  <2> QED BY <1>1, <1>2, <2>1, SetInduction
<1> QED BY <1>3 DEF T

LEMMA KeepingIsLast ==
    ASSUME NEW s, NEW S, Len(s) \in Nat
    PROVE  \E k : IsKept(k, s, S, Len(s)) /\ Keeping(s, S) = k[Len(s)]
<1> DEFINE n == Len(s)
           c == CHOOSE k : k = [i \in 0..n |-> IF i = 0 THEN <<>>
                                               ELSE KeptOf(k[i - 1], s[i], S)]
<1>1. \E k : k = [i \in 0..n |-> IF i = 0 THEN <<>> ELSE KeptOf(k[i - 1], s[i], S)]
  <2> HIDE DEF n
  <2>1. n \in Nat
    BY DEF n
  <2>2. PICK k : IsKept(k, s, S, n)
    BY <2>1, KeptIsDefined
  <2>3. k = [i \in 0..n |-> IF i = 0 THEN <<>> ELSE KeptOf(k[i - 1], s[i], S)]
    BY <2>2 DEF IsKept
  <2> QED BY <2>3
<1>2. c = [i \in 0..n |-> IF i = 0 THEN <<>> ELSE KeptOf(c[i - 1], s[i], S)]
  BY <1>1, Zenon
<1>3. Keeping(s, S) = c[Len(s)]
  BY Zenon DEF Keeping, KeptOf
<1> HIDE DEF c
<1> QED BY <1>2, <1>3 DEF IsKept

\* What is kept of a sequence depends on what it starts with only.
LEMMA KeptAgree ==
    ASSUME NEW s, NEW t, NEW S, NEW n \in Nat, NEW m \in Nat, NEW k, NEW l, n <= m,
           IsKept(k, s, S, n), IsKept(l, t, S, m), \A i \in 1..n : s[i] = t[i]
    PROVE  k[n] = l[n]
<1> DEFINE T == {i \in Nat : i <= n => k[i] = l[i]}
<1>1. 0 \in T
  BY DEF IsKept
<1>2. ASSUME NEW i \in T PROVE i + 1 \in T
  <2>1. CASE i + 1 <= n
    <3>1. k[i] = l[i] /\ s[i + 1] = t[i + 1]
      BY <2>1
    <3>2. k[i + 1] = KeptOf(k[i], s[i + 1], S)
      BY <2>1 DEF IsKept
    <3>3. l[i + 1] = KeptOf(l[i], t[i + 1], S)
      BY <2>1 DEF IsKept
    <3> QED BY <3>1, <3>2, <3>3
  <2> QED BY <2>1
<1>3. T = Nat
  <2>1. T \in SUBSET Nat
    OBVIOUS
  <2> HIDE DEF T
  <2> QED BY <1>1, <1>2, <2>1, SetInduction
<1> QED BY <1>3

\* Keeping is what its recursive definition says.
LEMMA KeepingEmpty == \A S : Keeping(<<>>, S) = <<>>
<1> SUFFICES ASSUME NEW S PROVE Keeping(<<>>, S) = <<>>
  OBVIOUS
<1>1. Len(<<>>) = 0
  OBVIOUS
<1>2. PICK k : IsKept(k, <<>>, S, Len(<<>>)) /\ Keeping(<<>>, S) = k[Len(<<>>)]
  BY <1>1, KeepingIsLast
<1> QED BY <1>1, <1>2 DEF IsKept

LEMMA KeepingAppend ==
    ASSUME NEW T, NEW S, NEW s \in Seq(T), NEW e \in T
    PROVE  Keeping(Append(s, e), S) = KeptOf(Keeping(s, S), e, S)
<1> DEFINE t == Append(s, e)
           n == Len(s)
<1>1. /\ n \in Nat /\ Len(t) = n + 1 /\ t[n + 1] = e
      /\ \A i \in 1..n : s[i] = t[i]
  BY LenProperties, AppendProperties
<1> HIDE DEF t, n
<1>2. PICK k : IsKept(k, s, S, n) /\ Keeping(s, S) = k[n]
  BY <1>1, KeepingIsLast DEF n
<1>3. PICK l : IsKept(l, t, S, n + 1) /\ Keeping(t, S) = l[n + 1]
  BY <1>1, KeepingIsLast
<1>4. k[n] = l[n]
  BY <1>1, <1>2, <1>3, KeptAgree
<1>5. l[n + 1] = KeptOf(l[n], t[n + 1], S)
  <2>1. n + 1 \in 0..n + 1 /\ n + 1 # 0 /\ (n + 1) - 1 = n
    BY <1>1
  <2>2. l = [i \in 0..n + 1 |-> IF i = 0 THEN <<>> ELSE KeptOf(l[i - 1], t[i], S)]
    BY <1>3 DEF IsKept
  <2> QED BY <2>1, <2>2
<1>6. Keeping(t, S) = KeptOf(Keeping(s, S), e, S)
  BY <1>1, <1>2, <1>3, <1>4, <1>5
<1> QED BY <1>6 DEF t

\* What is kept is a sequence of kept elements.
LEMMA KeepingType ==
    ASSUME NEW T, NEW S, NEW s \in Seq(T)
    PROVE  /\ Keeping(s, S) \in Seq(T \cap S)
           /\ Len(Keeping(s, S)) <= Len(s)
<1> DEFINE P == {t \in Seq(T) : /\ Keeping(t, S) \in Seq(T \cap S)
                                /\ Len(Keeping(t, S)) <= Len(t)}
<1>1. <<>> \in P
  <2>1. Keeping(<<>>, S) = <<>>
    BY KeepingEmpty
  <2>2. <<>> \in Seq(T) /\ <<>> \in Seq(T \cap S) /\ Len(<<>>) = 0
    BY EmptySeq
  <2>3. Keeping(<<>>, S) \in Seq(T \cap S) /\ Len(Keeping(<<>>, S)) = 0
    BY <2>1, <2>2, Zenon
  <2>4. Len(Keeping(<<>>, S)) <= Len(<<>>)
    BY <2>2, <2>3
  <2> QED BY <2>2, <2>3, <2>4, Zenon
<1>2. ASSUME NEW t \in P, NEW e \in T PROVE Append(t, e) \in P
  <2>0. t \in Seq(T)
    OBVIOUS
  <2>1. Keeping(Append(t, e), S) = KeptOf(Keeping(t, S), e, S)
    BY <2>0, KeepingAppend, Zenon
  <2>2. /\ Len(Append(t, e)) = Len(t) + 1 /\ Append(t, e) \in Seq(T)
        /\ Len(t) \in Nat /\ Len(Keeping(t, S)) \in Nat
    BY AppendProperties, LenProperties
  <2>3. CASE e \in S
    <3>1. /\ Append(Keeping(t, S), e) \in Seq(T \cap S)
          /\ Len(Append(Keeping(t, S), e)) = Len(Keeping(t, S)) + 1
      BY <2>3, AppendProperties
    <3>2. Keeping(Append(t, e), S) = Append(Keeping(t, S), e)
      BY <2>1, <2>3 DEF KeptOf
    <3> HIDE DEF P
    <3>3. Len(Keeping(t, S)) <= Len(t)
      BY DEF P
    <3>4. Len(Keeping(Append(t, e), S)) <= Len(Append(t, e))
      BY <2>2, <3>1, <3>2, <3>3
    <3> QED BY <2>2, <3>1, <3>2, <3>4 DEF P
  <2>4. CASE e \notin S
    <3>1. Keeping(Append(t, e), S) = Keeping(t, S)
      BY <2>1, <2>4 DEF KeptOf
    <3> QED BY <2>2, <3>1
  <2> QED BY <2>3, <2>4
<1>3. P = Seq(T)
  <2>1. P \in SUBSET Seq(T)
    OBVIOUS
  <2> HIDE DEF P
  <2> QED BY <1>1, <1>2, <2>1, SeqInduction
<1> QED BY <1>3

LEMMA AppendToConcat ==
    ASSUME NEW T, NEW s \in Seq(T), NEW t \in Seq(T), NEW e \in T
    PROVE  s \o Append(t, e) = Append(s \o t, e)
<1> DEFINE one == <<e>>
<1>1. one \in Seq(T) /\ s \o t \in Seq(T)
  BY ConcatProperties
<1>2. Append(t, e) = t \o one /\ Append(s \o t, e) = (s \o t) \o one
  BY <1>1, AppendIsConcat
<1> HIDE DEF one
<1>3. (s \o t) \o one = s \o (t \o one)
  BY <1>1, ConcatAssociative
<1> QED BY <1>2, <1>3, Zenon

\* Of two sequences one after the other, what is kept of each is.
LEMMA KeepingConcat ==
    ASSUME NEW T, NEW S, NEW s \in Seq(T), NEW t \in Seq(T)
    PROVE  Keeping(s \o t, S) = Keeping(s, S) \o Keeping(t, S)
<1> DEFINE P == {u \in Seq(T) : Keeping(s \o u, S) = Keeping(s, S) \o Keeping(u, S)}
<1>1. <<>> \in P
  <2>1. Keeping(s, S) \in Seq(T \cap S)
    BY KeepingType
  <2>2. s \o <<>> = s /\ Keeping(s, S) \o <<>> = Keeping(s, S)
    BY <2>1, ConcatEmptySeq
  <2> QED BY <2>2, KeepingEmpty, EmptySeq, Zenon
<1>2. ASSUME NEW u \in P, NEW e \in T PROVE Append(u, e) \in P
  <2>0. u \in Seq(T)
    OBVIOUS
  <2>1. s \o u \in Seq(T) /\ Append(u, e) \in Seq(T) /\ s \o Append(u, e) = Append(s \o u, e)
    BY <2>0, ConcatProperties, AppendProperties, AppendToConcat
  <2>2. /\ Keeping(Append(u, e), S) = KeptOf(Keeping(u, S), e, S)
        /\ Keeping(Append(s \o u, e), S) = KeptOf(Keeping(s \o u, S), e, S)
    BY <2>0, <2>1, KeepingAppend, Zenon
  <2>3. Keeping(s, S) \in Seq(T) /\ Keeping(u, S) \in Seq(T)
    <3>1. Keeping(s, S) \in Seq(T \cap S) /\ Keeping(u, S) \in Seq(T \cap S)
      BY <2>0, KeepingType
    <3>2. T \cap S \subseteq T
      OBVIOUS
    <3> QED BY <3>1, <3>2, SeqMonotonic
  <2>4. Keeping(s, S) \o Append(Keeping(u, S), e) = Append(Keeping(s, S) \o Keeping(u, S), e)
    BY <2>3, AppendToConcat
  <2> QED BY <2>1, <2>2, <2>4 DEF KeptOf
<1>3. P = Seq(T)
  <2>1. P \in SUBSET Seq(T)
    OBVIOUS
  <2> HIDE DEF P
  <2> QED BY <1>1, <1>2, <2>1, SeqInduction
<1> QED BY <1>3

\* A sequence of kept elements is kept, and one of others vanishes.
LEMMA KeepingAll ==
    ASSUME NEW T, NEW S, NEW s \in Seq(T), T \subseteq S
    PROVE  Keeping(s, S) = s
<1> DEFINE P == {t \in Seq(T) : Keeping(t, S) = t}
<1>1. <<>> \in P
  BY KeepingEmpty, EmptySeq
<1>2. ASSUME NEW t \in P, NEW e \in T PROVE Append(t, e) \in P
  BY KeepingAppend, AppendProperties DEF KeptOf
<1>3. P = Seq(T)
  <2>1. P \in SUBSET Seq(T)
    OBVIOUS
  <2> HIDE DEF P
  <2> QED BY <1>1, <1>2, <2>1, SeqInduction
<1> QED BY <1>3

LEMMA KeepingNone ==
    ASSUME NEW T, NEW S, NEW s \in Seq(T), T \cap S = {}
    PROVE  Keeping(s, S) = <<>>
<1> DEFINE P == {t \in Seq(T) : Keeping(t, S) = <<>>}
<1>1. <<>> \in P
  BY KeepingEmpty, EmptySeq
<1>2. ASSUME NEW t \in P, NEW e \in T PROVE Append(t, e) \in P
  <2>1. e \notin S
    OBVIOUS
  <2> QED BY <2>1, KeepingAppend, AppendProperties DEF KeptOf
<1>3. P = Seq(T)
  <2>1. P \in SUBSET Seq(T)
    OBVIOUS
  <2> HIDE DEF P
  <2> QED BY <1>1, <1>2, <2>1, SeqInduction
<1> QED BY <1>3

-----------------------------------------------------------------------------
(* What the steps of Custody ask of one arm, as facts about sequences: the *)
(* proofs that a runner keeps custody rest on them. c, o and s name what   *)
(* was consumed, what was open (held or with the provider) and the stream  *)
(* of an arm; d, h, p and t what is consumed, held, with the provider, and *)
(* the stream after the step.                                              *)

Increasing(s) == \A i, j \in 1..Len(s) : i < j => s[i] < s[j]
Elements(s) == {s[i] : i \in 1..Len(s)}
Begins(s, t) == Len(s) <= Len(t) /\ SubSeq(t, 1, Len(s)) = s

\* Custody!Move and Custody!Lose.
Handing(c, s, d, t) ==
    /\ Begins(c, d)
    /\ Begins(s, t)
    /\ \A i \in Len(s) + 1 .. Len(t) :
         /\ i = Len(s) + 1
         /\ \A j \in 1..Len(s) : s[j] < t[i]
Losing(c, o, d, h, p) == d = c /\ h = <<>> /\ p = Keeping(o, Elements(p))

-----------------------------------------------------------------------------
(* Sequences and their elements. *)

LEMMA SeqOfElements ==
    ASSUME NEW T, NEW s \in Seq(T)
    PROVE  /\ s \in Seq(Elements(s))
           /\ Elements(s) \subseteq T
<1>1. Len(s) \in Nat /\ s \in [1..Len(s) -> T] /\ \A i \in 1..Len(s) : s[i] \in T
  BY LenProperties, ElementOfSeq
<1>2. s \in [1..Len(s) -> Elements(s)]
  BY <1>1 DEF Elements
<1> QED BY <1>1, <1>2 DEF Elements

LEMMA ElementsOfConcat ==
    ASSUME NEW T, NEW s \in Seq(T), NEW t \in Seq(T)
    PROVE  Elements(s \o t) = Elements(s) \cup Elements(t)
<1> DEFINE u == s \o t
           m == Len(s)
           n == Len(t)
<1>1. /\ m \in Nat /\ n \in Nat /\ Len(u) = m + n
      /\ \A i \in 1 .. m + n : u[i] = IF i <= m THEN s[i] ELSE t[i - m]
  BY LenProperties, ConcatProperties
<1> HIDE DEF u, m, n
<1>2. ASSUME NEW i \in 1 .. m + n PROVE u[i] \in Elements(s) \cup Elements(t)
  <2>1. CASE i <= m
    BY <1>1, <2>1 DEF Elements, m
  <2>2. CASE ~(i <= m)
    <3>1. i - m \in 1..n /\ u[i] = t[i - m]
      BY <1>1, <2>2
    <3> QED BY <3>1 DEF Elements, n
  <2> QED BY <2>1, <2>2
<1>3. ASSUME NEW i \in 1..m PROVE s[i] \in Elements(u)
  <2>1. i \in 1 .. m + n /\ u[i] = s[i]
    BY <1>1
  <2> QED BY <1>1, <2>1 DEF Elements
<1>4. ASSUME NEW i \in 1..n PROVE t[i] \in Elements(u)
  <2>1. m + i \in 1 .. m + n /\ ~(m + i <= m) /\ (m + i) - m = i
    BY <1>1
  <2>2. u[m + i] = t[i]
    BY <1>1, <2>1
  <2> QED BY <1>1, <2>1, <2>2 DEF Elements
<1> QED BY <1>1, <1>2, <1>3, <1>4 DEF Elements, u, m, n

LEMMA HeadOfNonEmpty ==
    ASSUME NEW T, NEW s \in Seq(T), s # <<>>
    PROVE  <<Head(s)>> \o Tail(s) = s
<1> DEFINE h == Head(s)
           t == Tail(s)
           one == <<h>>
<1>1. /\ h \in T /\ t \in Seq(T) /\ Len(t) = Len(s) - 1 /\ Len(s) \in Nat
      /\ \A i \in 1..Len(t) : t[i] = s[i + 1]
  BY HeadTailProperties, LenProperties
<1>2. h = s[1]
  OBVIOUS
<1>3. one \in Seq(T) /\ Len(one) = 1 /\ one[1] = h
  BY <1>1
<1> HIDE DEF one, h, t
<1>4. /\ one \o t \in Seq(T) /\ Len(one \o t) = 1 + Len(t)
      /\ \A i \in 1 .. 1 + Len(t) : (one \o t)[i] = IF i <= 1 THEN one[i] ELSE t[i - 1]
  BY <1>1, <1>3, ConcatProperties
<1>5. Len(one \o t) = Len(s) /\ \A i \in 1..Len(s) : (one \o t)[i] = s[i]
  BY <1>1, <1>2, <1>3, <1>4
<1>6. one \o t = s
  BY <1>4, <1>5, SeqEqual
<1> QED BY <1>6 DEF one, h, t

\* A sequence begins every longer one it is the start of.
LEMMA BeginsConcat ==
    ASSUME NEW T, NEW s \in Seq(T), NEW t \in Seq(T)
    PROVE  Begins(s, s \o t)
<1> DEFINE u == s \o t
           m == Len(s)
           b == SubSeq(u, 1, m)
<1>1. /\ m \in Nat /\ Len(t) \in Nat /\ Len(u) = m + Len(t)
      /\ \A i \in 1..m : u[i] = s[i] /\ u[i] \in T
  <2>1. /\ m \in Nat /\ Len(t) \in Nat /\ Len(u) = m + Len(t)
        /\ \A i \in 1 .. m + Len(t) : u[i] = IF i <= m THEN s[i] ELSE t[i - m]
    BY LenProperties, ConcatProperties
  <2>2. \A i \in 1..m : s[i] \in T
    BY ElementOfSeq
  <2> HIDE DEF u, m
  <2> QED BY <2>1, <2>2
<1>2. 1 \in Int /\ m \in Int
  BY <1>1
<1> HIDE DEF u
<1>3. /\ b \in Seq(T) /\ Len(b) = IF 1 <= m THEN m - 1 + 1 ELSE 0
      /\ \A i \in 1 .. m - 1 + 1 : b[i] = u[1 + i - 1]
  BY <1>1, <1>2, SubSeqProperties
<1> HIDE DEF b, m
<1>4. Len(b) = Len(s) /\ \A i \in 1..Len(b) : b[i] = s[i]
  BY <1>1, <1>3 DEF m
<1>5. b = s
  BY <1>3, <1>4, SeqEqual
<1> QED BY <1>1, <1>5 DEF Begins, u, m, b

LEMMA BeginsItself ==
    ASSUME NEW T, NEW s \in Seq(T)
    PROVE  Begins(s, s)
<1>1. <<>> \in Seq(T) /\ s \o <<>> = s
  BY ConcatEmptySeq, EmptySeq
<1>2. Begins(s, s \o <<>>)
  BY <1>1, BeginsConcat
<1> QED BY <1>1, <1>2, Zenon

LEMMA ElementsOfAppend ==
    ASSUME NEW T, NEW s \in Seq(T), NEW e \in T
    PROVE  Elements(Append(s, e)) = Elements(s) \cup {e}
<1> DEFINE one == <<e>>
<1>1. one \in Seq(T) /\ Append(s, e) = s \o one
  BY AppendIsConcat
<1>2. Elements(one) = {e}
  BY DEF Elements
<1> HIDE DEF one
<1> QED BY <1>1, <1>2, ElementsOfConcat

\* What is kept is what was there and is to be kept.
LEMMA KeepingElements ==
    ASSUME NEW T, NEW S, NEW s \in Seq(T)
    PROVE  Elements(Keeping(s, S)) = Elements(s) \cap S
<1> DEFINE P == {t \in Seq(T) : Elements(Keeping(t, S)) = Elements(t) \cap S}
<1>1. <<>> \in P
  <2>1. Elements(<<>>) = {}
    BY DEF Elements
  <2> QED BY <2>1, KeepingEmpty, EmptySeq
<1>2. ASSUME NEW t \in P, NEW e \in T PROVE Append(t, e) \in P
  <2>1. t \in Seq(T) /\ Elements(Keeping(t, S)) = Elements(t) \cap S
    OBVIOUS
  <2>2. Append(t, e) \in Seq(T) /\ Elements(Append(t, e)) = Elements(t) \cup {e}
    BY <2>1, AppendProperties, ElementsOfAppend
  <2>3. Keeping(Append(t, e), S) = KeptOf(Keeping(t, S), e, S)
    BY <2>1, KeepingAppend
  <2>4. Keeping(t, S) \in Seq(T)
    <3>1. Keeping(t, S) \in Seq(T \cap S) /\ T \cap S \subseteq T
      BY <2>1, KeepingType
    <3> QED BY <3>1, SeqMonotonic
  <2>5. Elements(Append(Keeping(t, S), e)) = Elements(Keeping(t, S)) \cup {e}
    BY <2>4, ElementsOfAppend
  <2> QED BY <2>1, <2>2, <2>3, <2>5 DEF KeptOf
<1>3. P = Seq(T)
  <2>1. P \in SUBSET Seq(T)
    OBVIOUS
  <2> HIDE DEF P
  <2> QED BY <1>1, <1>2, <2>1, SeqInduction
<1> QED BY <1>3

\* Sets that agree on a sequence keep the same of it.
LEMMA KeepingAlike ==
    ASSUME NEW T, NEW R, NEW S, NEW s \in Seq(T), T \cap R = T \cap S
    PROVE  Keeping(s, R) = Keeping(s, S)
<1> DEFINE P == {t \in Seq(T) : Keeping(t, R) = Keeping(t, S)}
<1>1. <<>> \in P
  BY KeepingEmpty, EmptySeq
<1>2. ASSUME NEW t \in P, NEW e \in T PROVE Append(t, e) \in P
  <2>1. t \in Seq(T) /\ Append(t, e) \in Seq(T)
    BY AppendProperties
  <2>2. /\ Keeping(Append(t, e), R) = KeptOf(Keeping(t, R), e, R)
        /\ Keeping(Append(t, e), S) = KeptOf(Keeping(t, S), e, S)
    BY <2>1, KeepingAppend
  <2>3. e \in R <=> e \in S
    OBVIOUS
  <2> QED BY <2>1, <2>2, <2>3 DEF KeptOf
<1>3. P = Seq(T)
  <2>1. P \in SUBSET Seq(T)
    OBVIOUS
  <2> HIDE DEF P
  <2> QED BY <1>1, <1>2, <2>1, SeqInduction
<1> QED BY <1>3

\* Concatenations of numbers. (The provers find these for an opaque set only.)
LEMMA ThreeInARow == \A c, h, p \in Seq(Nat) : c \o h \o p = c \o (h \o p)
<1> DEFINE T == Nat
<1> HIDE DEF T
<1>1. \A c, h, p \in Seq(T) : c \o h \o p = c \o (h \o p)
  BY ConcatAssociative
<1> QED BY <1>1, Zenon DEF T

LEMMA HandedOver == \A c, h, p \in Seq(Nat) : (c \o h) \o (<<>> \o p) = c \o (h \o p)
<1>1. \A p \in Seq(Nat) : <<>> \o p = p
  BY ConcatEmptySeq
<1> SUFFICES ASSUME NEW c \in Seq(Nat), NEW h \in Seq(Nat), NEW p \in Seq(Nat)
             PROVE  (c \o h) \o (<<>> \o p) = c \o (h \o p)
  OBVIOUS
<1>2. <<>> \o p = p
  BY <1>1, Zenon
<1>3. c \o h \o p = c \o (h \o p)
  BY ThreeInARow, Zenon
<1> QED BY <1>2, <1>3, Zenon

LEMMA FourInARow == \A a, b, c, d \in Seq(Nat) : a \o b \o c \o d = a \o (b \o (c \o d))
<1> SUFFICES ASSUME NEW a \in Seq(Nat), NEW b \in Seq(Nat), NEW c \in Seq(Nat), NEW d \in Seq(Nat)
             PROVE  a \o b \o c \o d = a \o (b \o (c \o d))
  OBVIOUS
<1> DEFINE x == a \o b
           y == c \o d
<1>1. x \in Seq(Nat) /\ y \in Seq(Nat)
  BY ConcatProperties
<1>2. \A s \in Seq(Nat) : a \o b \o s = a \o (b \o s)
  BY ThreeInARow, Zenon
<1>3. x \o y = a \o (b \o y)
  BY <1>1, <1>2, Zenon
<1> HIDE DEF x
<1>4. \A s, t \in Seq(Nat) : x \o s \o t = x \o (s \o t)
  BY <1>1, ThreeInARow, Zenon
<1>5. x \o c \o d = x \o y
  BY <1>4, Zenon
<1> QED BY <1>3, <1>5, Zenon DEF x

LEMMA LaterInARow ==
    \A c, p \in Seq(Nat), e \in Nat : c \o Append(p, e) = Append(c \o p, e)
<1> DEFINE T == Nat
<1> HIDE DEF T
<1>1. \A c, p \in Seq(T), e \in T : c \o Append(p, e) = Append(c \o p, e)
  BY AppendToConcat
<1> QED BY <1>1, Zenon DEF T

LEMMA ElementsOfLater ==
    \A s \in Seq(Nat), e \in Nat : Elements(Append(s, e)) = Elements(s) \cup {e}
<1> DEFINE T == Nat
<1> HIDE DEF T
<1>1. \A s \in Seq(T), e \in T : Elements(Append(s, e)) = Elements(s) \cup {e}
  BY ElementsOfAppend
<1> QED BY <1>1, Zenon DEF T

-----------------------------------------------------------------------------
(* Increasing sequences. *)

LEMMA IncreasingParts ==
    ASSUME NEW s \in Seq(Nat), NEW t \in Seq(Nat), Increasing(s \o t)
    PROVE  /\ Increasing(s) /\ Increasing(t)
           /\ \A a \in Elements(s), b \in Elements(t) : a < b
<1> DEFINE u == s \o t
           m == Len(s)
           n == Len(t)
<1>1. /\ m \in Nat /\ n \in Nat /\ Len(u) = m + n
      /\ \A i \in 1 .. m + n : u[i] = IF i <= m THEN s[i] ELSE t[i - m]
  BY LenProperties, ConcatProperties
<1>2. \A i, j \in 1 .. Len(u) : i < j => u[i] < u[j]
  BY DEF Increasing
<1> HIDE DEF u, m, n
<1>3. ASSUME NEW i \in 1..m PROVE i \in 1 .. m + n /\ u[i] = s[i]
  BY <1>1
<1>4. ASSUME NEW i \in 1..n PROVE m + i \in 1 .. m + n /\ u[m + i] = t[i]
  <2>1. m + i \in 1 .. m + n /\ ~(m + i <= m) /\ (m + i) - m = i
    BY <1>1
  <2> QED BY <1>1, <2>1
<1>5. ASSUME NEW i \in 1..m, NEW j \in 1..m, i < j PROVE s[i] < s[j]
  BY <1>1, <1>2, <1>3, <1>5
<1>6. ASSUME NEW i \in 1..n, NEW j \in 1..n, i < j PROVE t[i] < t[j]
  <2>1. m + i < m + j
    BY <1>1, <1>6
  <2> QED BY <1>1, <1>2, <1>4, <2>1
<1>7. ASSUME NEW i \in 1..m, NEW j \in 1..n PROVE s[i] < t[j]
  <2>1. i < m + j
    BY <1>1
  <2> QED BY <1>1, <1>2, <1>3, <1>4, <2>1
<1> QED BY <1>5, <1>6, <1>7 DEF Increasing, Elements, m, n

LEMMA IncreasingJoined ==
    ASSUME NEW s \in Seq(Nat), NEW t \in Seq(Nat), Increasing(s), Increasing(t),
           \A a \in Elements(s), b \in Elements(t) : a < b
    PROVE  Increasing(s \o t)
<1> DEFINE u == s \o t
           m == Len(s)
           n == Len(t)
<1>1. /\ m \in Nat /\ n \in Nat /\ Len(u) = m + n
      /\ \A i \in 1 .. m + n : u[i] = IF i <= m THEN s[i] ELSE t[i - m]
  BY LenProperties, ConcatProperties
<1>2. /\ \A i, j \in 1..m : i < j => s[i] < s[j]
      /\ \A i, j \in 1..n : i < j => t[i] < t[j]
      /\ \A i \in 1..m, j \in 1..n : s[i] < t[j]
  BY DEF Increasing, Elements
<1> HIDE DEF u, m, n
<1>3. ASSUME NEW i \in 1 .. m + n, NEW j \in 1 .. m + n, i < j PROVE u[i] < u[j]
  <2>1. CASE j <= m
    <3>1. i \in 1..m /\ j \in 1..m /\ u[i] = s[i] /\ u[j] = s[j]
      BY <1>1, <1>3, <2>1
    <3> QED BY <1>2, <1>3, <3>1
  <2>2. CASE i <= m /\ ~(j <= m)
    <3>1. i \in 1..m /\ j - m \in 1..n /\ u[i] = s[i] /\ u[j] = t[j - m]
      BY <1>1, <2>2
    <3> QED BY <1>2, <3>1
  <2>3. CASE ~(i <= m)
    <3>1. /\ i - m \in 1..n /\ j - m \in 1..n /\ i - m < j - m
          /\ u[i] = t[i - m] /\ u[j] = t[j - m]
      BY <1>1, <1>3, <2>3
    <3> QED BY <1>2, <3>1
  <2> QED BY <1>1, <2>1, <2>2, <2>3
<1> QED BY <1>1, <1>3 DEF Increasing, u

LEMMA IncreasingAppend ==
    ASSUME NEW s \in Seq(Nat), NEW e \in Nat
    PROVE  Increasing(Append(s, e)) <=> Increasing(s) /\ \A a \in Elements(s) : a < e
<1> DEFINE one == <<e>>
<1>1. one \in Seq(Nat) /\ Append(s, e) = s \o one
  BY AppendIsConcat
<1>2. Elements(one) = {e} /\ Increasing(one)
  BY DEF Elements, Increasing
<1> HIDE DEF one
<1>3. Increasing(s \o one) <=> Increasing(s) /\ \A a \in Elements(s) : a < e
  <2>1. Increasing(s \o one) => Increasing(s) /\ \A a \in Elements(s) : a < e
    BY <1>1, <1>2, IncreasingParts
  <2>2. Increasing(s) /\ (\A a \in Elements(s) : a < e) => Increasing(s \o one)
    BY <1>1, <1>2, IncreasingJoined
  <2> QED BY <2>1, <2>2
<1> QED BY <1>1, <1>3

\* Leaving elements out keeps the others in order.
LEMMA KeepingIncreasing ==
    ASSUME NEW S, NEW s \in Seq(Nat), Increasing(s)
    PROVE  /\ Keeping(s, S) \in Seq(Nat)
           /\ Increasing(Keeping(s, S))
           /\ Elements(Keeping(s, S)) = Elements(s) \cap S
<1>1. ASSUME NEW t \in Seq(Nat)
      PROVE  Keeping(t, S) \in Seq(Nat) /\ Elements(Keeping(t, S)) = Elements(t) \cap S
  <2>1. Keeping(t, S) \in Seq(Nat \cap S) /\ Nat \cap S \subseteq Nat
    BY KeepingType
  <2> QED BY <2>1, SeqMonotonic, KeepingElements
<1> DEFINE P == {t \in Seq(Nat) : Increasing(t) => Increasing(Keeping(t, S))}
<1>2. <<>> \in P
  BY KeepingEmpty, EmptySeq DEF Increasing
<1>3. ASSUME NEW t \in P, NEW e \in Nat PROVE Append(t, e) \in P
  <2>1. t \in Seq(Nat) /\ (Increasing(t) => Increasing(Keeping(t, S)))
    OBVIOUS
  <2>2. Append(t, e) \in Seq(Nat)
    BY <2>1, AppendProperties
  <2>3. ASSUME Increasing(Append(t, e)) PROVE Increasing(Keeping(Append(t, e), S))
    <3>1. Increasing(t) /\ \A a \in Elements(t) : a < e
      BY <2>1, <2>3, IncreasingAppend
    <3>2. /\ Keeping(t, S) \in Seq(Nat) /\ Increasing(Keeping(t, S))
          /\ \A a \in Elements(Keeping(t, S)) : a < e
      BY <1>1, <2>1, <3>1
    <3>3. Increasing(Append(Keeping(t, S), e))
      BY <3>2, IncreasingAppend
    <3>4. Keeping(Append(t, e), S) = KeptOf(Keeping(t, S), e, S)
      BY <2>1, KeepingAppend
    <3> QED BY <3>2, <3>3, <3>4 DEF KeptOf
  <2> QED BY <2>2, <2>3
<1>4. P = Seq(Nat)
  <2>1. P \in SUBSET Seq(Nat)
    OBVIOUS
  <2> HIDE DEF P
  <2> QED BY <1>2, <1>3, <2>1, SeqInduction
<1> QED BY <1>1, <1>4

-----------------------------------------------------------------------------
(* The steps of an arm. *)

\* Events change hands and some of them are consumed.
LEMMA HandsOver ==
    ASSUME NEW c \in Seq(Nat), NEW x \in Seq(Nat), NEW s \in Seq(Nat)
    PROVE  Handing(c, s, c \o x, s)
<1>1. Begins(c, c \o x) /\ Begins(s, s)
  BY BeginsConcat, BeginsItself
<1>2. Len(s) \in Nat
  BY LenProperties
<1> QED BY <1>1, <1>2 DEF Handing

\* No event of the arm moves.
LEMMA StaysPut ==
    ASSUME NEW c \in Seq(Nat), NEW s \in Seq(Nat)
    PROVE  Handing(c, s, c, s)
<1>1. Begins(c, c) /\ Begins(s, s)
  BY BeginsItself
<1>2. Len(s) \in Nat
  BY LenProperties
<1> QED BY <1>1, <1>2 DEF Handing

\* The source emits an event later than all before it.
LEMMA Arrives ==
    ASSUME NEW c \in Seq(Nat), NEW s \in Seq(Nat), NEW e \in Nat,
           \A a \in Elements(s) : a < e
    PROVE  Handing(c, s, c, Append(s, e))
<1> DEFINE one == <<e>>
           t == Append(s, e)
<1>1. one \in Seq(Nat) /\ t = s \o one
  BY AppendIsConcat
<1> HIDE DEF one
<1>2. Begins(c, c) /\ Begins(s, t)
  BY <1>1, BeginsConcat, BeginsItself
<1>3. Len(s) \in Nat /\ Len(t) = Len(s) + 1 /\ t[Len(s) + 1] = e
  BY LenProperties, AppendProperties
<1> HIDE DEF t
<1>4. ASSUME NEW i \in Len(s) + 1 .. Len(t)
      PROVE  i = Len(s) + 1 /\ \A j \in 1..Len(s) : s[j] < t[i]
  <2>1. i = Len(s) + 1
    BY <1>3
  <2> QED BY <1>3, <2>1 DEF Elements
<1> QED BY <1>2, <1>4 DEF Handing, t

\* A runner gives back what it holds, in its place, but some of it.
LEMMA Loses ==
    ASSUME NEW c, NEW x \in Seq(Nat), NEW y \in Seq(Nat), NEW S, Increasing(x \o y)
    PROVE  Losing(c, x \o y, c, <<>>, Keeping(x, S) \o y)
<1> DEFINE k == Keeping(x, S)
           p == k \o y
           R == Elements(p)
<1>1. Increasing(x) /\ \A a \in Elements(x), b \in Elements(y) : a < b
  BY IncreasingParts
<1>2. k \in Seq(Nat) /\ Elements(k) = Elements(x) \cap S
  BY <1>1, KeepingIncreasing
<1> HIDE DEF k
<1>3. R = Elements(k) \cup Elements(y)
  BY <1>2, ElementsOfConcat
<1> HIDE DEF p, R
<1>4. x \in Seq(Elements(x)) /\ Elements(x) \subseteq Nat /\ Elements(y) \subseteq Nat
      /\ y \in Seq(Elements(y))
  BY SeqOfElements
<1>5. Keeping(y, R) = y
  BY <1>3, <1>4, KeepingAll
<1>6. Keeping(x, R) = k
  <2> DEFINE E == Elements(x)
  <2>1. ASSUME NEW a \in E PROVE a \notin Elements(y)
    <3>1. \A b \in Elements(y) : a \in Nat /\ a < b
      BY <1>1, <1>4
    <3> QED BY <3>1
  <2>2. E \cap R = E \cap S
    BY <1>2, <1>3, <2>1
  <2> HIDE DEF E
  <2>3. x \in Seq(E)
    BY <1>4 DEF E
  <2> QED BY <2>2, <2>3, KeepingAlike DEF k
<1>7. Keeping(x \o y, R) = p
  <2>1. Keeping(x \o y, R) = Keeping(x, R) \o Keeping(y, R)
    BY KeepingConcat
  <2> QED BY <1>5, <1>6, <2>1, Zenon DEF p
<1> QED BY <1>7 DEF Losing, R, p, k

\* What is left of an arm is in order, whether its events have changed hands,
\* a new one has arrived, or some are lost.
LEMMA LosingIncreasing ==
    ASSUME NEW c \in Seq(Nat), NEW x \in Seq(Nat), NEW y \in Seq(Nat), NEW S,
           Increasing(c \o (x \o y))
    PROVE  /\ c \o (Keeping(x, S) \o y) \in Seq(Nat)
           /\ Increasing(c \o (Keeping(x, S) \o y))
           /\ Elements(c \o (Keeping(x, S) \o y)) \subseteq Elements(c \o (x \o y))
<1> DEFINE k == Keeping(x, S)
<1>1. x \o y \in Seq(Nat)
  BY ConcatProperties
<1>2. /\ Increasing(c) /\ Increasing(x \o y)
      /\ \A a \in Elements(c), b \in Elements(x \o y) : a < b
  BY <1>1, IncreasingParts
<1>3. /\ Increasing(x) /\ Increasing(y)
      /\ \A a \in Elements(x), b \in Elements(y) : a < b
  BY <1>2, IncreasingParts
<1>4. k \in Seq(Nat) /\ Increasing(k) /\ Elements(k) = Elements(x) \cap S
  BY <1>3, KeepingIncreasing
<1> HIDE DEF k
<1>5. k \o y \in Seq(Nat) /\ Increasing(k \o y)
  BY <1>3, <1>4, IncreasingJoined, ConcatProperties
<1>6. Elements(k \o y) \subseteq Elements(x \o y)
  BY <1>4, ElementsOfConcat
<1>7. c \o (k \o y) \in Seq(Nat) /\ Increasing(c \o (k \o y))
  BY <1>2, <1>5, <1>6, IncreasingJoined, ConcatProperties
<1>8. Elements(c \o (k \o y)) \subseteq Elements(c \o (x \o y))
  <2> DEFINE o == x \o y
             p == k \o y
  <2> HIDE DEF o, p
  <2>1. c \in Seq(Nat) /\ o \in Seq(Nat) /\ p \in Seq(Nat)
    BY <1>1, <1>5 DEF o, p
  <2>2. Elements(c \o p) = Elements(c) \cup Elements(p)
    BY <2>1, ElementsOfConcat
  <2>3. Elements(c \o o) = Elements(c) \cup Elements(o)
    BY <2>1, ElementsOfConcat
  <2> QED BY <1>6, <2>2, <2>3 DEF o, p
<1> QED BY <1>7, <1>8 DEF k

\* What most steps of a runner do to an arm with the events o open: of those it
\* hands over the first, x, and all the others stay open; or some of the first
\* go down with the run and the others are with the provider.
Kept(c, o, d, h, p) == \E x \in Seq(Nat) : d = c \o x /\ o = x \o (h \o p)
Gone(c, o, d, h, p) ==
    /\ d = c /\ h = <<>>
    /\ \E x, y \in Seq(Nat), S \in SUBSET Nat : o = x \o y /\ p = Keeping(x, S) \o y

\* An arm whose events are in order, none later than n.
InOrder(s, n) == Increasing(s) /\ \A a \in Elements(s) : a <= n

\* Nothing is handed over, whoever has the events.
LEMMA StaysOpen ==
    ASSUME NEW c \in Seq(Nat), NEW o \in Seq(Nat), NEW h, NEW p, h \o p = o
    PROVE  Kept(c, o, c, h, p)
<1>1. <<>> \in Seq(Nat) /\ <<>> \o o = o /\ c \o <<>> = c
  BY EmptySeq, ConcatEmptySeq
<1> QED BY <1>1, Zenon DEF Kept

LEMMA KeptHands ==
    ASSUME NEW c \in Seq(Nat), NEW o \in Seq(Nat), NEW d, NEW h \in Seq(Nat), NEW p \in Seq(Nat),
           Kept(c, o, d, h, p)
    PROVE  /\ d \o (h \o p) = c \o o
           /\ Handing(c, c \o o, d, d \o (h \o p))
<1>1. PICK x \in Seq(Nat) : d = c \o x /\ o = x \o (h \o p)
  BY DEF Kept
<1> DEFINE y == h \o p
           s == c \o o
<1>2. y \in Seq(Nat) /\ s \in Seq(Nat)
  BY ConcatProperties
<1> HIDE DEF y, s
<1>3. (c \o x) \o y = c \o (x \o y)
  <2>1. \A z \in Seq(Nat) : c \o x \o z = c \o (x \o z)
    BY <1>1, ThreeInARow, Zenon
  <2> QED BY <1>2, <2>1, Zenon
<1>4. d \o y = s
  BY <1>1, <1>3, Zenon DEF y, s
<1>5. Handing(c, s, d, s)
  BY <1>1, <1>2, HandsOver
<1> QED BY <1>4, <1>5, Zenon DEF y, s

LEMMA GoneLoses ==
    ASSUME NEW c \in Seq(Nat), NEW o \in Seq(Nat), NEW d, NEW h, NEW p, NEW n \in Nat,
           InOrder(c \o o, n), Gone(c, o, d, h, p)
    PROVE  /\ Losing(c, o, d, h, p)
           /\ InOrder(d \o (h \o p), n)
<1>1. PICK x \in Seq(Nat), y \in Seq(Nat), S \in SUBSET Nat :
          d = c /\ h = <<>> /\ o = x \o y /\ p = Keeping(x, S) \o y
  BY DEF Gone
<1>2. Increasing(c \o (x \o y)) /\ \A a \in Elements(c \o (x \o y)) : a <= n
  BY <1>1 DEF InOrder
<1>3. Increasing(x \o y)
  BY <1>1, <1>2, IncreasingParts
<1>4. Losing(c, o, d, h, p)
  BY <1>1, <1>3, Loses
<1>5. InOrder(c \o (Keeping(x, S) \o y), n)
  BY <1>2, LosingIncreasing DEF InOrder
<1>6. h \o p = Keeping(x, S) \o y
  <2>1. Increasing(x)
    BY <1>3, IncreasingParts
  <2>2. Keeping(x, S) \in Seq(Nat)
    BY <2>1, KeepingIncreasing
  <2>3. Keeping(x, S) \o y \in Seq(Nat)
    BY <2>2, ConcatProperties
  <2>4. <<>> \o (Keeping(x, S) \o y) = Keeping(x, S) \o y
    BY <2>3, ConcatEmptySeq
  <2> QED BY <1>1, <2>4, Zenon
<1> QED BY <1>1, <1>4, <1>5, <1>6, Zenon

\* The source emits the event that follows the latest.
LEMMA EmitsInOrder ==
    ASSUME NEW c \in Seq(Nat), NEW h \in Seq(Nat), NEW p \in Seq(Nat), NEW n \in Nat,
           InOrder(c \o (h \o p), n)
    PROVE  /\ InOrder(c \o (h \o Append(p, n + 1)), n + 1)
           /\ Handing(c, c \o (h \o p), c, c \o (h \o Append(p, n + 1)))
<1> DEFINE s == c \o (h \o p)
           e == n + 1
           t == c \o (h \o Append(p, e))
<1>1. s \in Seq(Nat) /\ e \in Nat
  BY ConcatProperties
<1>2. t = Append(s, e)
  <2> DEFINE y == h \o p
  <2>1. y \in Seq(Nat)
    BY ConcatProperties
  <2>2. h \o Append(p, e) = Append(y, e)
    BY <1>1, LaterInARow, Zenon
  <2> HIDE DEF y, e
  <2>3. c \o Append(y, e) = Append(c \o y, e)
    BY <1>1, <2>1, LaterInARow, Zenon
  <2> QED BY <2>2, <2>3, Zenon DEF y
<1>3. Increasing(s) /\ \A a \in Elements(s) : a \in Nat /\ a <= n
  BY <1>1, SeqOfElements DEF InOrder
<1> HIDE DEF s
<1>4. \A a \in Elements(s) : a < e
  BY <1>3
<1> HIDE DEF e, t
<1>5. Increasing(t) /\ Handing(c, s, c, t)
  BY <1>1, <1>2, <1>3, <1>4, IncreasingAppend, Arrives
<1>6. Elements(t) = Elements(s) \cup {e}
  BY <1>1, <1>2, ElementsOfLater, Zenon
<1>7. \A a \in Elements(t) : a <= e
  BY <1>1, <1>3, <1>6 DEF e
<1> QED BY <1>5, <1>7 DEF InOrder, s, e, t

\* The same of an arm with i in hand and q with the provider, as Custody says it:
\* when its events change hands, when some go, and when its source emits.
LEMMA ArmHands ==
    ASSUME NEW c \in Seq(Nat), NEW i \in Seq(Nat), NEW q \in Seq(Nat),
           NEW d \in Seq(Nat), NEW h \in Seq(Nat), NEW p \in Seq(Nat),
           Kept(c, i \o q, d, h, p)
    PROVE  /\ d \o (h \o p) = c \o (i \o q)
           /\ Handing(c, c \o i \o q, d, d \o h \o p)
<1> DEFINE o == i \o q
<1>1. o \in Seq(Nat)
  BY ConcatProperties
<1>2. c \o i \o q = c \o o /\ d \o h \o p = d \o (h \o p)
  <2>1. \A s \in Seq(Nat) : c \o i \o s = c \o (i \o s)
    BY ThreeInARow, Zenon
  <2>2. \A s \in Seq(Nat) : d \o h \o s = d \o (h \o s)
    BY ThreeInARow, Zenon
  <2> QED BY <2>1, <2>2, Zenon
<1> HIDE DEF o
<1>3. d \o (h \o p) = c \o o /\ Handing(c, c \o o, d, d \o (h \o p))
  BY <1>1, KeptHands DEF o
<1> QED BY <1>2, <1>3, Zenon DEF o

LEMMA ArmGoes ==
    ASSUME NEW c \in Seq(Nat), NEW i \in Seq(Nat), NEW q \in Seq(Nat),
           NEW d, NEW h, NEW p, NEW n \in Nat,
           InOrder(c \o (i \o q), n), Gone(c, i \o q, d, h, p)
    PROVE  Losing(c, i \o q, d, h, p) /\ InOrder(d \o (h \o p), n)
<1> DEFINE o == i \o q
<1>1. o \in Seq(Nat)
  BY ConcatProperties
<1>2. InOrder(c \o o, n) /\ Gone(c, o, d, h, p)
  OBVIOUS
<1> HIDE DEF o
<1>3. Losing(c, o, d, h, p) /\ InOrder(d \o (h \o p), n)
  BY <1>1, <1>2, GoneLoses
<1> QED BY <1>3 DEF o

LEMMA ArmGrows ==
    ASSUME NEW c \in Seq(Nat), NEW i \in Seq(Nat), NEW q \in Seq(Nat), NEW n \in Nat,
           InOrder(c \o (i \o q), n)
    PROVE  /\ InOrder(c \o (i \o Append(q, n + 1)), n + 1)
           /\ Handing(c, c \o i \o q, c, c \o i \o Append(q, n + 1))
           /\ Handing(c, c \o i \o q, c, c \o i \o q)
<1> DEFINE t == Append(q, n + 1)
<1>1. t \in Seq(Nat)
  <2>1. n + 1 \in Nat
    OBVIOUS
  <2> QED BY <2>1, AppendProperties
<1>2. InOrder(c \o (i \o t), n + 1) /\ Handing(c, c \o (i \o q), c, c \o (i \o t))
  BY EmitsInOrder
<1> HIDE DEF t
<1>3. c \o i \o q = c \o (i \o q) /\ c \o i \o t = c \o (i \o t)
  <2>1. \A s \in Seq(Nat) : c \o i \o s = c \o (i \o s)
    BY ThreeInARow, Zenon
  <2> QED BY <1>1, <2>1, Zenon
<1>4. c \o i \o q \in Seq(Nat)
  BY <1>3, ConcatProperties
<1>5. Handing(c, c \o i \o q, c, c \o i \o q)
  BY <1>4, StaysPut
<1>6. Handing(c, c \o i \o q, c, c \o i \o t)
  BY <1>2, <1>3, Zenon
<1> QED BY <1>2, <1>5, <1>6 DEF t
=============================================================================
