--------------------------- MODULE Coalesce_proofs ---------------------------
(***************************************************************************)
(* Theorems about Coalesce, for every number of arms and events, every set *)
(* of urgent arms, every interval, bound, lease and backoff table: what    *)
(* the window may hold, how long, how far apart quiet emits are, and that  *)
(* the events of an arm keep their order on every way through it.          *)
(***************************************************************************)
EXTENDS Coalesce, Slots_proofs

\* What the window may hold.
Quiet == (Arms \ Urgent) \X (1..MaxEvents)

-----------------------------------------------------------------------------
(* The events of a turn.                                                   *)

Collected(s) == Arms \X {s.held[r] : r \in Arms}

\* take_events after arm r.
Further(before, s, r) ==
    IF s.obs[r] = "event" THEN Append(before, <<r, s.held[r]>>) ELSE before
IsTaken(u, s, n) == u = [r \in 0..n |-> IF r = 0 THEN <<>> ELSE Further(u[r - 1], s, r)]

LEMMA TakenIsDefined ==
    ASSUME NEW s, NEW n \in Nat
    PROVE  \E u : IsTaken(u, s, n)
<1> DEFINE T == {k \in Nat : \E u : IsTaken(u, s, k)}
<1>1. 0 \in T
  <2>1. IsTaken([r \in 0..0 |-> <<>>], s, 0)
    BY DEF IsTaken
  <2> QED BY <2>1
<1>2. ASSUME NEW k \in T PROVE k + 1 \in T
  <2>1. PICK u : IsTaken(u, s, k)
    OBVIOUS
  <2> DEFINE g == [r \in 0..k + 1 |-> IF r = k + 1 THEN Further(u[k], s, k + 1) ELSE u[r]]
  <2>2. IsTaken(g, s, k + 1)
    <3>1. ASSUME NEW r \in 0..k + 1
          PROVE  g[r] = IF r = 0 THEN <<>> ELSE Further(g[r - 1], s, r)
      BY <2>1 DEF IsTaken
    <3> QED BY <3>1 DEF IsTaken
  <2> HIDE DEF g
  <2> QED BY <2>2
<1> HIDE DEF T
<1>3. T = Nat
  <2>1. T \in SUBSET Nat
    BY DEF T
  <2> QED BY <1>1, <1>2, <2>1, SetInduction
<1> QED BY <1>3 DEF T

LEMMA TurnIsTaken ==
    ASSUME NEW s
    PROVE  \E u : IsTaken(u, s, N) /\ TurnEvents(s) = u[N]
<1> DEFINE u == CHOOSE v : v = [r \in 0..N |-> IF r = 0 THEN <<>> ELSE Further(v[r - 1], s, r)]
<1>1. \E v : v = [r \in 0..N |-> IF r = 0 THEN <<>> ELSE Further(v[r - 1], s, r)]
  <2>1. N \in Nat
    BY SeamAssumption
  <2> QED BY <2>1, TakenIsDefined DEF IsTaken
<1>2. u = [r \in 0..N |-> IF r = 0 THEN <<>> ELSE Further(u[r - 1], s, r)]
  BY <1>1, Zenon
<1>3. TurnEvents(s) = u[N]
  BY Zenon DEF TurnEvents, Further
<1> QED BY <1>2, <1>3, Zenon DEF IsTaken

LEMMA TurnEventsAre ==
    ASSUME NEW s
    PROVE  TurnEvents(s) \in Seq(Collected(s))
<1>1. N \in Nat
  BY SeamAssumption
<1>2. PICK u : IsTaken(u, s, N) /\ TurnEvents(s) = u[N]
  BY TurnIsTaken
<1> DEFINE T == {k \in Nat : k <= N => u[k] \in Seq(Collected(s))}
<1>3. u = [r \in 0..N |-> IF r = 0 THEN <<>> ELSE Further(u[r - 1], s, r)]
  BY <1>2 DEF IsTaken
<1>4. TurnEvents(s) = u[N]
  BY <1>2
<1>5. 0 \in T
  BY <1>1, <1>3, EmptySeq
<1>6. ASSUME NEW k \in T PROVE k + 1 \in T
  <2> SUFFICES ASSUME k + 1 <= N PROVE u[k + 1] \in Seq(Collected(s))
    OBVIOUS
  <2>1. u[k] \in Seq(Collected(s))
    BY <1>1
  <2>2. u[k + 1] = Further(u[k], s, k + 1)
    BY <1>1, <1>3
  <2>3. <<k + 1, s.held[k + 1]>> \in Collected(s)
    BY <1>1 DEF Collected, Arms
  <2>4. Append(u[k], <<k + 1, s.held[k + 1]>>) \in Seq(Collected(s))
    BY <2>1, <2>3, AppendProperties
  <2> QED BY <2>1, <2>2, <2>4 DEF Further
<1>7. T = Nat
  <2>1. T \in SUBSET Nat
    OBVIOUS
  <2> HIDE DEF T
  <2> QED BY <1>5, <1>6, <2>1, SetInduction
<1> QED BY <1>1, <1>4, <1>7

\* The quiet part of a turn goes into the window; if there is any, the turn has
\* a quiet event, which starts the timer.
LEMMA QuietPart ==
    ASSUME NEW s
    PROVE  /\ From(TurnEvents(s), Arms \ Urgent) \in Seq(Quiet)
           /\ From(TurnEvents(s), Arms \ Urgent) # <<>> =>
                \E i \in 1..Len(TurnEvents(s)) : TurnEvents(s)[i][1] \notin Urgent
<1> DEFINE es == TurnEvents(s)
           C == Collected(s)
           U == {e \in C : e[1] \in Urgent}
<1>1. es \in Seq(C)
  BY TurnEventsAre
<1> HIDE DEF es, C
<1>2. From(es, Arms \ Urgent) = Keeping(es, Quiet)
  BY DEF From, Quiet
<1>3. Keeping(es, Quiet) \in Seq(C \cap Quiet)
  BY <1>1, KeepingType
<1>4. Keeping(es, Quiet) \in Seq(Quiet)
  <2> DEFINE k == Keeping(es, Quiet)
  <2>1. k \in Seq(C \cap Quiet)
    BY <1>3
  <2> HIDE DEF k
  <2>2. \A i \in 1..Len(k) : k[i] \in Quiet
    BY <2>1, ElementOfSeq
  <2> QED BY <2>1, <2>2 DEF k
<1>5. ASSUME \A i \in 1..Len(es) : es[i][1] \in Urgent PROVE Keeping(es, Quiet) = <<>>
  <2>1. es \in Seq(U)
    <3>1. \A i \in 1..Len(es) : es[i] \in U
      BY <1>1, <1>5, ElementOfSeq
    <3> HIDE DEF U
    <3> QED BY <1>1, <3>1
  <2>2. U \cap Quiet = {}
    BY DEF Quiet
  <2> HIDE DEF U
  <2> QED BY <2>1, <2>2, KeepingNone
<1> QED BY <1>2, <1>4, <1>5, Zenon DEF es
-----------------------------------------------------------------------------
(* The events of an arm in a window or a turn. *)

Numbers(k) == [i \in 1..Len(k) |-> k[i][2]]

LEMMA NumbersAre ==
    ASSUME NEW k \in Seq(Event)
    PROVE  /\ Numbers(k) \in Seq(1..MaxEvents) /\ Len(Numbers(k)) = Len(k)
           /\ \A e \in Event : Numbers(Append(k, e)) = Append(Numbers(k), e[2])
<1>1. Len(k) \in Nat /\ \A i \in 1..Len(k) : k[i] \in Event
  BY LenProperties, ElementOfSeq
<1>2. \A i \in 1..Len(k) : k[i][2] \in 1..MaxEvents
  BY <1>1 DEF Event
<1>3. Numbers(k) \in Seq(1..MaxEvents) /\ Len(Numbers(k)) = Len(k)
  <2>1. Numbers(k) \in [1..Len(k) -> 1..MaxEvents]
    BY <1>2 DEF Numbers
  <2> DEFINE T == 1..MaxEvents
             f == Numbers(k)
             n == Len(k)
  <2>2. f \in [1..n -> T] /\ n \in Nat
    BY <1>1, <2>1
  <2> HIDE DEF T, f, n
  <2>3. f \in Seq(T) /\ Len(f) = n
    BY <2>2
  <2> QED BY <2>3 DEF T, f, n
<1>4. ASSUME NEW e \in Event PROVE Numbers(Append(k, e)) = Append(Numbers(k), e[2])
  <2> DEFINE l == Append(k, e)
             m == Append(Numbers(k), e[2])
             n == Len(k)
  <2>1. /\ Len(l) = n + 1 /\ l[n + 1] = e /\ \A i \in 1..n : l[i] = k[i]
        /\ n \in Nat
    BY <1>1, AppendProperties
  <2>2. e[2] \in 1..MaxEvents
    BY DEF Event
  <2>3. /\ m \in Seq(1..MaxEvents) /\ Len(m) = n + 1 /\ m[n + 1] = e[2]
        /\ \A i \in 1..n : m[i] = Numbers(k)[i]
    BY <1>3, <2>2, AppendProperties
  <2>4. \A i \in 1..n : Numbers(k)[i] = k[i][2]
    BY DEF Numbers
  <2>5. Numbers(l) = [i \in 1..n + 1 |-> l[i][2]]
    BY <2>1 DEF Numbers
  <2>6. m = [i \in 1..n + 1 |-> m[i]]
    <3> HIDE DEF m, n
    <3> QED BY <2>3
  <2> HIDE DEF l, m, n
  <2>7. \A i \in 1..n + 1 : l[i][2] = m[i]
    BY <2>1, <2>3, <2>4
  <2> QED BY <2>5, <2>6, <2>7 DEF l, m
<1> QED BY <1>3, <1>4

LEMMA OfIs ==
    ASSUME NEW es \in Seq(Event), NEW r \in Arms
    PROVE  /\ From(es, {r}) \in Seq(Event) /\ Of(es, r) = Numbers(From(es, {r}))
           /\ Of(es, r) \in Seq(1..MaxEvents)
<1>1. \A S : From(es, S) \in Seq(Event)
  <2> SUFFICES ASSUME NEW S PROVE From(es, S) \in Seq(Event)
    OBVIOUS
  <2> DEFINE R == S \X (1..MaxEvents)
             k == Keeping(es, R)
  <2>1. k \in Seq(Event \cap R)
    BY KeepingType
  <2>2. Event \cap R \subseteq Event
    OBVIOUS
  <2> HIDE DEF k, R
  <2>3. k \in Seq(Event)
    BY <2>1, <2>2, SeqMonotonic
  <2> QED BY <2>3 DEF From, k, R
<1>2. Of(es, r) = Numbers(From(es, {r}))
  BY DEF Of, Numbers
<1> QED BY <1>1, <1>2, NumbersAre

LEMMA OfEmpty == \A r \in Arms : Of(<<>>, r) = <<>>
<1> SUFFICES ASSUME NEW r \in Arms PROVE Of(<<>>, r) = <<>>
  OBVIOUS
<1>1. From(<<>>, {r}) = <<>>
  BY KeepingEmpty DEF From
<1>2. Of(<<>>, r) = [i \in 1..Len(<<>>) |-> <<>>[i][2]]
  BY <1>1, Zenon DEF Of
<1>3. [i \in 1..Len(<<>>) |-> <<>>[i][2]] = <<>>
  OBVIOUS
<1> QED BY <1>2, <1>3

\* Filtering an event more.
LEMMA FromAppend ==
    ASSUME NEW es \in Seq(Event), NEW e \in Event, NEW S
    PROVE  From(Append(es, e), S) = IF e[1] \in S THEN Append(From(es, S), e) ELSE From(es, S)
<1> DEFINE R == S \X (1..MaxEvents)
<1>1. e \in R <=> e[1] \in S
  BY DEF Event
<1> HIDE DEF R
<1>2. Keeping(Append(es, e), R) = KeptOf(Keeping(es, R), e, R)
  BY KeepingAppend
<1> QED BY <1>1, <1>2 DEF From, KeptOf, R

LEMMA OfAppend ==
    ASSUME NEW es \in Seq(Event), NEW e \in Event, NEW r \in Arms
    PROVE  Of(Append(es, e), r) = IF e[1] = r THEN Append(Of(es, r), e[2]) ELSE Of(es, r)
<1>1. From(es, {r}) \in Seq(Event) /\ Of(es, r) = Numbers(From(es, {r}))
  BY OfIs
<1>2. Append(es, e) \in Seq(Event)
  BY AppendProperties
<1>3. Of(Append(es, e), r) = Numbers(From(Append(es, e), {r}))
  BY <1>2, OfIs
<1>4. From(Append(es, e), {r}) = IF e[1] = r THEN Append(From(es, {r}), e) ELSE From(es, {r})
  BY FromAppend
<1>5. Numbers(Append(From(es, {r}), e)) = Append(Numbers(From(es, {r})), e[2])
  BY <1>1, NumbersAre
<1> QED BY <1>1, <1>3, <1>4, <1>5

LEMMA OfConcat ==
    ASSUME NEW es \in Seq(Event), NEW fs \in Seq(Event), NEW r \in Arms
    PROVE  Of(es \o fs, r) = Of(es, r) \o Of(fs, r)
<1> DEFINE P == {gs \in Seq(Event) : Of(es \o gs, r) = Of(es, r) \o Of(gs, r)}
           T == 1..MaxEvents
<1>1. Of(es, r) \in Seq(T)
  BY OfIs
<1> HIDE DEF T
<1>2. <<>> \in P
  <2>1. es \o <<>> = es /\ Of(es, r) \o <<>> = Of(es, r)
    BY <1>1, ConcatEmptySeq
  <2> QED BY <2>1, OfEmpty, EmptySeq
<1>3. ASSUME NEW gs \in P, NEW e \in Event PROVE Append(gs, e) \in P
  <2>1. gs \in Seq(Event)
    OBVIOUS
  <2>2. /\ es \o gs \in Seq(Event) /\ Append(gs, e) \in Seq(Event)
        /\ es \o Append(gs, e) = Append(es \o gs, e)
    BY <2>1, ConcatProperties, AppendProperties, AppendToConcat
  <2>3. /\ Of(Append(gs, e), r) = IF e[1] = r THEN Append(Of(gs, r), e[2]) ELSE Of(gs, r)
        /\ Of(Append(es \o gs, e), r) =
             IF e[1] = r THEN Append(Of(es \o gs, r), e[2]) ELSE Of(es \o gs, r)
    BY <2>1, <2>2, OfAppend
  <2>4. Of(gs, r) \in Seq(T) /\ e[2] \in T
    BY <2>1, OfIs DEF T, Event
  <2>5. Of(es, r) \o Append(Of(gs, r), e[2]) = Append(Of(es, r) \o Of(gs, r), e[2])
    BY <1>1, <2>4, AppendToConcat
  <2> QED BY <2>2, <2>3, <2>5
<1>4. P = Seq(Event)
  <2>1. P \in SUBSET Seq(Event)
    OBVIOUS
  <2> HIDE DEF P
  <2> QED BY <1>2, <1>3, <2>1, SeqInduction
<1> QED BY <1>4

\* Of a part of a turn by priority, an arm has all of its events or none.
LEMMA OfFrom ==
    ASSUME NEW es \in Seq(Event), NEW S, NEW r \in Arms
    PROVE  /\ From(es, S) \in Seq(Event)
           /\ Of(From(es, S), r) = IF r \in S THEN Of(es, r) ELSE <<>>
<1> DEFINE P == {gs \in Seq(Event) : /\ From(gs, S) \in Seq(Event)
                                     /\ Of(From(gs, S), r) = IF r \in S THEN Of(gs, r) ELSE <<>>}
<1>1. <<>> \in P
  <2>1. From(<<>>, S) = <<>>
    BY KeepingEmpty DEF From
  <2> QED BY <2>1, OfEmpty, EmptySeq
<1>2. ASSUME NEW gs \in P, NEW e \in Event PROVE Append(gs, e) \in P
  <2>1. gs \in Seq(Event) /\ From(gs, S) \in Seq(Event)
    OBVIOUS
  <2>2. Append(gs, e) \in Seq(Event) /\ Append(From(gs, S), e) \in Seq(Event)
    BY <2>1, AppendProperties
  <2>3. From(Append(gs, e), S) = IF e[1] \in S THEN Append(From(gs, S), e) ELSE From(gs, S)
    BY <2>1, FromAppend
  <2>4. /\ Of(Append(gs, e), r) = IF e[1] = r THEN Append(Of(gs, r), e[2]) ELSE Of(gs, r)
        /\ Of(Append(From(gs, S), e), r) =
             IF e[1] = r THEN Append(Of(From(gs, S), r), e[2]) ELSE Of(From(gs, S), r)
    BY <2>1, OfAppend
  <2>5. Of(From(gs, S), r) = IF r \in S THEN Of(gs, r) ELSE <<>>
    OBVIOUS
  <2>6. Of(From(Append(gs, e), S), r) = IF r \in S THEN Of(Append(gs, e), r) ELSE <<>>
    <3>1. CASE e[1] \in S
      BY <2>3, <2>4, <2>5, <3>1
    <3>2. CASE e[1] \notin S
      BY <2>3, <2>4, <2>5, <3>2
    <3> QED BY <3>1, <3>2
  <2>7. From(Append(gs, e), S) \in Seq(Event)
    BY <2>1, <2>2, <2>3
  <2> QED BY <2>2, <2>6, <2>7
<1>3. P = Seq(Event)
  <2>1. P \in SUBSET Seq(Event)
    OBVIOUS
  <2> HIDE DEF P
  <2> QED BY <1>1, <1>2, <2>1, SeqInduction
<1> QED BY <1>3

\* What take_events takes of an arm is the event in its slot.
LEMMA TurnIs ==
    ASSUME NEW s, SlotTyped(s)
    PROVE  /\ TurnEvents(s) \in Seq(Event)
           /\ \A r \in Arms : Of(TurnEvents(s), r) = InSlot(s, r)
<1>1. N \in Nat /\ Arms = 1..N
  BY SeamAssumption DEF Arms
<1>2. PICK u : IsTaken(u, s, N) /\ TurnEvents(s) = u[N]
  BY TurnIsTaken
<1>3. u = [r \in 0..N |-> IF r = 0 THEN <<>> ELSE Further(u[r - 1], s, r)]
  BY <1>2 DEF IsTaken
<1> DEFINE Upto(k) == /\ u[k] \in Seq(Event)
                      /\ \A r \in Arms : Of(u[k], r) = IF r <= k THEN InSlot(s, r) ELSE <<>>
           T == {k \in Nat : k <= N => Upto(k)}
<1>4. 0 \in T
  <2>1. u[0] = <<>>
    BY <1>1, <1>3
  <2>2. \A r \in Arms : ~(r <= 0)
    BY <1>1
  <2> QED BY <2>1, <2>2, OfEmpty, EmptySeq
<1>5. ASSUME NEW k \in T PROVE k + 1 \in T
  <2> SUFFICES ASSUME k + 1 <= N PROVE Upto(k + 1)
    OBVIOUS
  <2>1. Upto(k) /\ k + 1 \in Arms /\ k \in Nat
    BY <1>1
  <2>2. u[k + 1] = Further(u[k], s, k + 1)
    BY <1>1, <1>3
  <2>3. CASE s.obs[k + 1] = "event"
    <3> DEFINE e == <<k + 1, s.held[k + 1]>>
    <3>1. s.held[k + 1] \in 1..MaxEvents
      BY <2>1, <2>3, SeamAssumption DEF SlotTyped
    <3>2. e \in Event /\ e[1] = k + 1 /\ e[2] = s.held[k + 1]
      BY <2>1, <3>1 DEF Event
    <3>3. u[k + 1] = Append(u[k], e)
      BY <2>2, <2>3 DEF Further
    <3>4. InSlot(s, k + 1) = <<s.held[k + 1]>>
      BY <3>1, SeamAssumption DEF InSlot
    <3> HIDE DEF e
    <3>5. u[k + 1] \in Seq(Event)
      BY <2>1, <3>2, <3>3, AppendProperties
    <3>6. ASSUME NEW r \in Arms
          PROVE  Of(u[k + 1], r) = IF r <= k + 1 THEN InSlot(s, r) ELSE <<>>
      <4>1. Of(u[k + 1], r) = IF k + 1 = r THEN Append(Of(u[k], r), e[2]) ELSE Of(u[k], r)
        <5> DEFINE v == u[k]
        <5>1. v \in Seq(Event)
          BY <2>1
        <5> HIDE DEF v
        <5>2. Of(Append(v, e), r) = IF e[1] = r THEN Append(Of(v, r), e[2]) ELSE Of(v, r)
          BY <3>2, <5>1, OfAppend
        <5> QED BY <3>2, <3>3, <5>2 DEF v
      <4>2. CASE r = k + 1
        <5>1. Of(u[k], r) = <<>>
          BY <1>1, <2>1, <4>2
        <5>2. Append(<<>>, e[2]) = <<e[2]>>
          OBVIOUS
        <5> QED BY <2>1, <3>2, <3>4, <4>1, <4>2, <5>1, <5>2
      <4>3. CASE r # k + 1
        <5>1. r <= k + 1 <=> r <= k
          BY <1>1, <2>1, <4>3
        <5> QED BY <2>1, <4>1, <4>3, <5>1
      <4> QED BY <4>2, <4>3
    <3> QED BY <3>5, <3>6
  <2>4. CASE s.obs[k + 1] # "event"
    <3>1. u[k + 1] = u[k]
      BY <2>2, <2>4 DEF Further
    <3>2. InSlot(s, k + 1) = <<>>
      BY <2>1, <2>4 DEF SlotTyped, InSlot
    <3>3. ASSUME NEW r \in Arms
          PROVE  Of(u[k], r) = IF r <= k + 1 THEN InSlot(s, r) ELSE <<>>
      <4>1. r <= k + 1 <=> (r <= k \/ r = k + 1)
        BY <1>1, <2>1
      <4> QED BY <2>1, <3>2, <4>1
    <3> QED BY <2>1, <3>1, <3>3
  <2> QED BY <2>3, <2>4
<1>6. T = Nat
  <2>1. T \in SUBSET Nat
    OBVIOUS
  <2> HIDE DEF T
  <2> QED BY <1>4, <1>5, <2>1, SetInduction
<1>7. Upto(N)
  BY <1>1, <1>6
<1> QED BY <1>1, <1>2, <1>7

-----------------------------------------------------------------------------
(* The invariant. *)

\* The window holds quiet events and has a timer; nothing is left in it when a
\* session has ended or a quiet emit is with the sink.
Window ==
    /\ pending \in Seq(Quiet)
    /\ pending # <<>> => quietAt # NoQuiet
    /\ pc = "idle" => pending = <<>>
    /\ pc = "sink" /\ purpose = "quiet" => pending = <<>>
    /\ resume \in {"top", "collect"}

\* The timer lies at most one interval after the last turn.
Clocks ==
    /\ now \in Nat
    /\ reading \in 0..now
    /\ opened \in Nat
    /\ quietAt \in Nat \cup {NoQuiet}
    /\ quietAt <= reading + Interval
    /\ TimerNotPutOff

\* After a quiet emit, and from the answer of the sink on, the timer lies at
\* least one interval after the turn that emitted.
Gap ==
    /\ emitted \in Nat \cup {NoQuiet}
    /\ pc = "idle" /\ outcome.kind = "none" => emitted = NoQuiet
    /\ pc = "sink" /\ purpose = "quiet" => emitted = reading
    /\ pc # "idle" /\ emitted # NoQuiet /\ ~(pc = "sink" /\ purpose = "quiet")
         => quietAt >= emitted + Interval

Inv == Window /\ Clocks /\ Gap /\ WithinBounds

LEMMA EmptyIsInBounds == InBounds(<<>>)
<1> SUFFICES ASSUME NEW r \in Arms PROVE Len(Of(<<>>, r)) <= MaxTakeOf[r]
  BY CoalesceAssumption DEF InBounds
<1> QED BY OfEmpty, CoalesceAssumption

LEMMA FitsIsInBounds == \A es : Fits(es) => InBounds(es)
BY DEF Fits, InBounds

LEMMA InvHoldsFirst == Init => Inv
<1> SUFFICES ASSUME Init PROVE Inv
  OBVIOUS
<1>1. /\ now = 0 /\ reading = 0 /\ opened = 0 /\ pending = <<>> /\ burst = <<>> /\ pc = "idle"
      /\ quietAt = NoQuiet /\ emitted = NoQuiet /\ resume = "top" /\ Interval \in Nat
  BY CoalesceAssumption DEF Init, SeamInit
<1>2. Window
  BY <1>1, EmptySeq DEF Window
<1>3. Clocks
  BY <1>1 DEF Clocks, TimerNotPutOff, NoQuiet
<1>4. Gap
  BY <1>1 DEF Gap
<1>5. WithinBounds
  BY <1>1, EmptyIsInBounds DEF WithinBounds
<1> QED BY <1>2, <1>3, <1>4, <1>5 DEF Inv

-----------------------------------------------------------------------------
(* Steps. *)

Opens == opened' = IF pending = <<>> THEN reading' ELSE opened

\* A step that only polls, or moves on in the select.
Passes ==
    /\ UNCHANGED <<windowVars, burst, purpose, emitted, outcome, resume>>
    /\ now' \in {now, now + 1} /\ reading' \in {reading, now}
    /\ \/ pc' = pc /\ reading' = reading
       \/ pc \notin {"idle", "sink"} /\ pc' \notin {"idle", "sink"}

\* A step that ends the session.
Closes ==
    /\ pc' = "idle" /\ pending' = <<>> /\ burst' = <<>> /\ outcome'.kind # "none"
    /\ now' = now /\ reading' \in {reading, now} /\ resume' \in {"top", "collect"}
    /\ quietAt' = quietAt \/ quietAt' = reading' + Interval
    /\ UNCHANGED <<purpose, emitted>>

LEMMA LaterAllowsMore ==
    /\ \A q \in Int, a, b, i \in Nat : q <= a + i /\ a <= b => q <= b + i
    /\ \A a, b \in Nat : a + b \in Nat /\ a + b <= a + b
OBVIOUS

\* A later turn leaves the timer within an interval.
LEMMA TimerStays ==
    ASSUME Inv, NEW t \in Nat, reading <= t
    PROVE  quietAt \in Nat \cup {NoQuiet} /\ quietAt <= t + Interval
<1>1. quietAt \in Nat \cup {NoQuiet} /\ quietAt <= reading + Interval /\ reading \in Nat
  BY DEF Inv, Clocks
<1>2. quietAt \in Int /\ Interval \in Nat
  BY <1>1, CoalesceAssumption DEF NoQuiet
<1>3. quietAt <= t + Interval
  BY <1>1, <1>2, LaterAllowsMore, Zenon
<1> QED BY <1>1, <1>3

LEMMA PassesKeeps ==
    ASSUME Inv, Passes, Opens
    PROVE  Inv'
<1>1. /\ UNCHANGED <<pending, quietAt, burst, purpose, emitted, outcome, resume>>
      /\ pc' = "idle" <=> pc = "idle"
      /\ pc' = "sink" <=> pc = "sink"
  BY DEF Passes, windowVars
<1>2. now \in Nat /\ reading \in 0..now /\ Interval \in Nat
  BY CoalesceAssumption DEF Inv, Clocks
<1>3. now' \in Nat /\ reading' \in 0..now' /\ reading <= reading'
  BY <1>2 DEF Passes
<1>4. Window'
  BY <1>1 DEF Inv, Window
<1>5. Clocks'
  <2>1. quietAt' \in Nat \cup {NoQuiet} /\ quietAt' <= reading' + Interval
    BY <1>1, <1>3, TimerStays
  <2>2. opened' \in Nat
    BY <1>2, <1>3 DEF Opens, Inv, Clocks
  <2>3. TimerNotPutOff'
    BY <1>1 DEF Inv, Clocks, TimerNotPutOff, Opens
  <2> QED BY <1>3, <2>1, <2>2, <2>3 DEF Clocks
<1>6. Gap'
  <2>1. CASE reading' = reading
    BY <1>1, <2>1 DEF Inv, Gap
  <2>2. CASE pc \notin {"idle", "sink"}
    BY <1>1, <2>2 DEF Inv, Gap
  <2>3. reading' = reading \/ pc \notin {"idle", "sink"}
    BY DEF Passes
  <2> QED BY <2>1, <2>2, <2>3
<1>7. WithinBounds'
  BY <1>1 DEF Inv, WithinBounds, InBounds
<1> QED BY <1>4, <1>5, <1>6, <1>7 DEF Inv

LEMMA ClosesKeeps ==
    ASSUME Inv, Closes, Opens
    PROVE  Inv'
<1>1. /\ pc' = "idle" /\ pending' = <<>> /\ burst' = <<>> /\ outcome'.kind # "none"
      /\ now' = now /\ reading' \in {reading, now} /\ resume' \in {"top", "collect"}
      /\ quietAt' = quietAt \/ quietAt' = reading' + Interval
      /\ UNCHANGED <<purpose, emitted>>
  BY DEF Closes
<1>2. now \in Nat /\ reading \in 0..now /\ Interval \in Nat
  BY CoalesceAssumption DEF Inv, Clocks
<1>3. reading' \in 0..now' /\ reading <= reading'
  BY <1>1, <1>2
<1>4. Window'
  BY <1>1, EmptySeq DEF Window
<1>5. Clocks'
  <2>1. quietAt' \in Nat \cup {NoQuiet} /\ quietAt' <= reading' + Interval
    <3>1. CASE quietAt' = quietAt
      BY <1>1, <1>2, <1>3, <3>1, TimerStays
    <3>2. CASE quietAt' = reading' + Interval
      <4>1. reading' \in Nat
        BY <1>1, <1>2
      <4>2. reading' + Interval \in Nat /\ reading' + Interval <= reading' + Interval
        BY <1>2, <4>1, LaterAllowsMore, Zenon
      <4> QED BY <3>2, <4>2, Zenon
    <3> QED BY <1>1, <3>1, <3>2
  <2>2. opened' \in Nat
    BY <1>2, <1>3 DEF Opens, Inv, Clocks
  <2> QED BY <1>1, <1>2, <1>3, <2>1, <2>2 DEF Clocks, TimerNotPutOff
<1>6. Gap'
  BY <1>1 DEF Inv, Gap
<1>7. WithinBounds'
  BY <1>1, EmptyIsInBounds DEF WithinBounds, InBounds
<1> QED BY <1>4, <1>5, <1>6, <1>7 DEF Inv

\* Two quiet emits are at least one interval apart.
GapStep ==
    pc # "sink" /\ pc' = "sink" /\ purpose' = "quiet" =>
      emitted = NoQuiet \/ reading' >= emitted + Interval

\* apply_turn, whatever the slots hold.
LEMMA ApplyKeeps ==
    ASSUME Inv, Opens, NEW s, NEW t \in {reading, now}, NEW place \in {"top", "collect"},
           pc \notin {"idle", "sink"}, now' = now, reading' = t, resume' = place,
           ApplyTurn(s, t, place)
    PROVE  Inv' /\ GapStep
<1> DEFINE es == TurnEvents(s)
           at == TimerStarted(es, t)
           due == IntervalDue(at, t)
           urgent == From(es, Urgent)
           quiet == From(es, Arms \ Urgent)
           window == IF due THEN pending \o es ELSE pending \o quiet
           quietly == \E i \in 1..Len(es) : es[i][1] \notin Urgent
<1>1. /\ now \in Nat /\ reading \in 0..now /\ opened \in Nat /\ Interval \in Nat
      /\ quietAt \in Nat \cup {NoQuiet} /\ emitted \in Nat \cup {NoQuiet}
      /\ quietAt \in Int /\ emitted \in Int /\ NoQuiet = -1
  BY CoalesceAssumption DEF Inv, Clocks, Gap, NoQuiet
<1>2. t \in 0..now /\ t \in Nat /\ reading <= t
  BY <1>1
<1>3. opened' \in Nat
  BY <1>1, <1>2 DEF Opens
<1>4. /\ quietAt' = at
      /\ \/ /\ RestoreAndEnd(Emptied(s), pending \o es, "overflow", t)
            /\ UNCHANGED <<purpose, emitted>>
         \/ /\ Fits(window)
            /\ IF due /\ window # <<>>
               THEN CallSink("quiet", window, <<>>, s) /\ emitted' = t
               ELSE IF urgent # <<>>
               THEN CallSink("urgent", urgent, window, s) /\ UNCHANGED emitted
               ELSE GoOn(place) /\ pending' = window /\ UNCHANGED <<burst, purpose, emitted>>
  BY Zenon DEF ApplyTurn
<1>5. at = IF quietAt = NoQuiet /\ quietly THEN t + Interval ELSE quietAt
  BY Zenon DEF TimerStarted
<1>6. quiet \in Seq(Quiet) /\ (quiet # <<>> => quietly)
  BY QuietPart, Zenon
<1>7. due <=> at # NoQuiet /\ t >= at
  BY Zenon DEF IntervalDue
<1> HIDE DEF es, at, due, urgent, quiet, quietly
<1>8. at \in Nat \cup {NoQuiet} /\ at \in Int /\ at <= t + Interval
  <2>1. CASE quietAt = NoQuiet /\ quietly
    BY <1>1, <1>2, <1>5, <2>1, LaterAllowsMore
  <2>2. CASE ~(quietAt = NoQuiet /\ quietly)
    BY <1>1, <1>2, <1>5, <2>2, TimerStays
  <2> QED BY <2>1, <2>2
<1>9. at <= opened' + Interval
  <2>1. CASE pending = <<>>
    BY <1>8, <2>1 DEF Opens
  <2>2. CASE pending # <<>>
    BY <1>5, <2>2 DEF Opens, Inv, Window, Clocks, TimerNotPutOff
  <2> QED BY <2>1, <2>2
<1>10. emitted # NoQuiet => quietAt >= emitted + Interval /\ at = quietAt
  BY <1>1, <1>5 DEF Inv, Gap
<1>11. pending # <<>> \/ quiet # <<>> => at # NoQuiet
  BY <1>1, <1>2, <1>5, <1>6 DEF Inv, Window
<1>12. CASE RestoreAndEnd(Emptied(s), pending \o es, "overflow", t) /\ UNCHANGED <<purpose, emitted>>
  <2>1. pc' = "idle" /\ pending' = <<>> /\ burst' = <<>> /\ outcome'.kind # "none"
    BY <1>12 DEF RestoreAndEnd, Conclude
  <2>2. Closes
    BY <1>4, <1>5, <1>12, <2>1 DEF Closes
  <2> QED BY <2>1, <2>2, ClosesKeeps DEF GapStep
<1>13. CASE /\ Fits(window) /\ due /\ window # <<>>
            /\ CallSink("quiet", window, <<>>, s) /\ emitted' = t
  <2> HIDE DEF window
  <2>1. /\ pc' = "sink" /\ purpose' = "quiet" /\ burst' = window /\ pending' = <<>>
        /\ emitted' = t
    BY <1>13 DEF CallSink
  <2>2. Window'
    BY <2>1, EmptySeq DEF Window
  <2>3. Clocks'
    BY <1>2, <1>3, <1>4, <1>8, <2>1 DEF Clocks, TimerNotPutOff, Inv
  <2>4. Gap'
    BY <1>2, <2>1 DEF Gap
  <2>5. WithinBounds'
    BY <1>13, <2>1, EmptyIsInBounds, FitsIsInBounds DEF WithinBounds, InBounds
  <2>6. GapStep
    BY <1>1, <1>2, <1>7, <1>10, <1>13 DEF GapStep
  <2> QED BY <2>2, <2>3, <2>4, <2>5, <2>6 DEF Inv
<1>14. CASE /\ Fits(window) /\ ~(due /\ window # <<>>) /\ UNCHANGED emitted
            /\ \/ CallSink("urgent", urgent, window, s)
               \/ GoOn(place) /\ pending' = window /\ UNCHANGED <<burst, purpose>>
  <2>1. window \in Seq(Quiet) /\ (window # <<>> => at # NoQuiet)
    <3>1. CASE window = <<>>
      BY <3>1, EmptySeq
    <3>2. CASE window # <<>>
      <4>1. window = pending \o quiet /\ pending \in Seq(Quiet)
        BY <1>14, <3>2 DEF Inv, Window
      <4>2. pending = <<>> /\ quiet = <<>> => window = <<>>
        BY <4>1
      <4> QED BY <1>6, <1>11, <3>2, <4>1, <4>2, ConcatProperties
    <3> QED BY <3>1, <3>2
  <2> HIDE DEF window
  <2>2. /\ pending' = window /\ emitted' = emitted
        /\ \/ pc' = "sink" /\ purpose' = "urgent"
           \/ pc' \in {"top", "collect"} /\ UNCHANGED <<burst, purpose>>
    BY <1>14 DEF CallSink, GoOn
  <2>3. Window'
    BY <1>4, <2>1, <2>2 DEF Window
  <2>4. Clocks'
    BY <1>2, <1>3, <1>4, <1>8, <1>9 DEF Clocks, TimerNotPutOff, Inv
  <2>5. Gap'
    BY <1>1, <1>4, <1>10, <2>2 DEF Gap
  <2>6. WithinBounds'
    BY <1>14, <2>2, FitsIsInBounds DEF Inv, WithinBounds, InBounds
  <2>7. GapStep
    BY <2>2 DEF GapStep
  <2> QED BY <2>3, <2>4, <2>5, <2>6, <2>7 DEF Inv
<1> QED
  <2> HIDE DEF window
  <2> QED BY <1>4, <1>12, <1>13, <1>14

\* decide_coalesce, at either of the readings it is called with.
LEMMA DecidesKeeps ==
    ASSUME Inv, Opens, NEW s, NEW t \in {reading, now}, NEW place \in {"top", "collect"},
           pc \notin {"idle", "sink"}, now' = now, DecideCoalesce(s, t, place)
    PROVE  Inv' /\ GapStep
<1>1. reading' = t /\ resume' = place
  BY DEF DecideCoalesce
<1>2. CASE Fails(s, t)
  <2> DEFINE kind == IF PostureErr(t) # "ok" THEN PostureErr(t) ELSE "fault"
  <2>1. RestoreAndEnd(s, pending, kind, t) /\ UNCHANGED <<quietAt, purpose, emitted>>
    BY <1>2, Zenon DEF Fails
  <2>2. kind # "none"
    BY DEF PostureErr
  <2> HIDE DEF kind
  <2>3. pc' = "idle" /\ pending' = <<>> /\ burst' = <<>> /\ outcome'.kind # "none"
    BY <2>1, <2>2 DEF RestoreAndEnd, Conclude
  <2>4. Closes
    BY <1>1, <2>1, <2>3 DEF Closes
  <2> QED BY <2>3, <2>4, ClosesKeeps DEF GapStep
<1>3. CASE FinalFlush(s, t)
  <2> DEFINE all == pending \o TurnEvents(s)
  <2>1. /\ UNCHANGED <<quietAt, emitted>>
        /\ \/ /\ RestoreAndEnd(Emptied(s), all, "overflow", t)
              /\ UNCHANGED purpose
           \/ /\ Fits(all)
              /\ IF all # <<>> THEN CallSink("final", all, <<>>, s)
                 ELSE Conclude(FinalEnd(t, s.obs), t) /\ UNCHANGED purpose
    BY <1>3, Zenon DEF FinalFlush
  <2>2. FinalEnd(t, s.obs) # "none"
    BY DEF FinalEnd, DeadlineEnd
  <2> HIDE DEF all
  <2>3. CASE pc' = "idle"
    <3>1. pc' = "idle" /\ pending' = <<>> /\ burst' = <<>> /\ outcome'.kind # "none"
          /\ UNCHANGED purpose
      <4>1. CASE RestoreAndEnd(Emptied(s), all, "overflow", t) /\ UNCHANGED purpose
        BY <4>1 DEF RestoreAndEnd, Conclude
      <4>2. CASE Conclude(FinalEnd(t, s.obs), t) /\ UNCHANGED purpose
        BY <2>2, <4>2 DEF Conclude
      <4>3. ~CallSink("final", all, <<>>, s)
        BY <2>3 DEF CallSink
      <4> QED BY <2>1, <4>1, <4>2, <4>3
    <3>2. Closes
      BY <1>1, <2>1, <3>1 DEF Closes
    <3> QED BY <3>1, <3>2, ClosesKeeps DEF GapStep
  <2>4. CASE Fits(all) /\ CallSink("final", all, <<>>, s)
    <3>1. pc' = "sink" /\ purpose' = "final" /\ burst' = all /\ pending' = <<>>
      BY <2>4 DEF CallSink
    <3>2. now \in Nat /\ t \in 0..now /\ t \in Nat /\ reading <= t
      BY DEF Inv, Clocks
    <3>3. Window'
      BY <1>1, <3>1, EmptySeq DEF Window
    <3>4. Clocks'
      <4>1. quietAt' \in Nat \cup {NoQuiet} /\ quietAt' <= t + Interval
        BY <2>1, <3>2, TimerStays
      <4>2. opened' \in Nat
        BY <1>1, <3>2 DEF Opens, Inv, Clocks
      <4> QED BY <1>1, <3>1, <3>2, <4>1, <4>2 DEF Clocks, TimerNotPutOff
    <3>5. Gap'
      BY <2>1, <3>1 DEF Inv, Gap
    <3>6. WithinBounds'
      BY <2>4, <3>1, EmptyIsInBounds, FitsIsInBounds DEF WithinBounds, InBounds
    <3> QED BY <3>1, <3>3, <3>4, <3>5, <3>6 DEF Inv, GapStep
  <2>5. RestoreAndEnd(Emptied(s), all, "overflow", t) => pc' = "idle"
    BY DEF RestoreAndEnd, Conclude
  <2>6. Conclude(FinalEnd(t, s.obs), t) => pc' = "idle"
    BY DEF Conclude
  <2> QED BY <2>1, <2>3, <2>4, <2>5, <2>6
<1>4. CASE ApplyTurn(s, t, place)
  BY <1>1, <1>4, ApplyKeeps
<1> QED BY <1>2, <1>3, <1>4 DEF DecideCoalesce

-----------------------------------------------------------------------------
(* Every step. *)

LEMMA EnvironmentKeeps ==
    ASSUME Inv, Opens, Environment, UNCHANGED coalesceVars
    PROVE  Inv' /\ GapStep
<1>1. now' \in {now, now + 1}
  BY DEF Environment, Arrive, Raise, ReleaseHang, Tick, Trigger
<1>2. UNCHANGED <<pc, reading, resume, windowVars, sinkVars, outcome>>
  BY DEF coalesceVars
<1>3. Passes
  BY <1>1, <1>2 DEF Passes, sinkVars
<1> QED BY <1>2, <1>3, PassesKeeps DEF GapStep

LEMMA RunnerKeeps ==
    ASSUME Inv, Opens, Runner
    PROVE  Inv' /\ GapStep
<1>1. ASSUME TopHead \/ HeadDue \/ HeadSelect \/ PollAtHead
      PROVE  Inv' /\ GapStep
  <2>1. Passes /\ pc' # "sink"
    BY <1>1 DEF TopHead, HeadDue, HeadSelect, PollAtHead, Passes, seamVars, windowVars, sinkVars
  <2> QED BY <2>1, PassesKeeps DEF GapStep
<1>2. ASSUME Collect \/ PollCancel \/ PollSleep \/ Rest \/ Wake
      PROVE  Inv' /\ GapStep
  <2>1. Passes /\ pc' # "sink"
    BY <1>2, Zenon DEF Collect, PollCancel, PollSleep, Rest, Wake, Passes, seamVars, windowVars, sinkVars
  <2> QED BY <2>1, PassesKeeps DEF GapStep
<1>3. CASE TopPosture
  <2>1. /\ PostureErr(now) # "ok" /\ RestoreAndEnd(SlotSet, pending, PostureErr(now), now)
        /\ UNCHANGED <<now, reading, resume, quietAt, purpose, emitted>>
    BY <1>3 DEF TopPosture
  <2>2. PostureErr(now) # "none"
    BY DEF PostureErr
  <2>3. pc' = "idle" /\ pending' = <<>> /\ burst' = <<>> /\ outcome'.kind # "none"
    BY <2>1, <2>2 DEF RestoreAndEnd, Conclude
  <2>4. Closes
    BY <2>1, <2>3 DEF Closes, Inv, Window
  <2> QED BY <2>3, <2>4, ClosesKeeps DEF GapStep
<1>4. CASE Late
  BY <1>4, DecidesKeeps DEF Late
<1>5. CASE Extend
  BY <1>5, DecidesKeeps DEF Extend
<1>6. CASE Decide
  BY <1>6, DecidesKeeps DEF Decide
<1> QED BY <1>1, <1>2, <1>3, <1>4, <1>5, <1>6, Zenon DEF Runner

LEMMA SinkOkKeeps ==
    ASSUME Inv, Opens, SinkOk
    PROVE  Inv' /\ GapStep
<1>1. /\ pc = "sink" /\ quietAt' = IF purpose = "quiet" THEN reading + Interval ELSE quietAt
      /\ UNCHANGED <<now, reading, resume, purpose, emitted>>
  BY DEF SinkOk, NextQuiet, seamVars
<1>2. /\ now \in Nat /\ reading \in 0..now /\ reading \in Nat /\ Interval \in Nat
      /\ quietAt \in Nat \cup {NoQuiet} /\ emitted \in Nat \cup {NoQuiet}
  BY CoalesceAssumption DEF Inv, Clocks, Gap
<1>3. CASE purpose = "final"
  <2>1. FinalEnd(reading, harvested) # "none"
    BY DEF FinalEnd, DeadlineEnd
  <2>2. pc' = "idle" /\ pending' = <<>> /\ burst' = <<>> /\ outcome'.kind # "none"
    BY <1>3, <2>1 DEF SinkOk, Conclude
  <2>3. Closes
    BY <1>1, <1>3, <2>2 DEF Closes, Inv, Window
  <2> QED BY <2>2, <2>3, ClosesKeeps DEF GapStep
<1>4. CASE purpose # "final"
  <2>1. pc' = resume /\ burst' = <<>> /\ pending' = pending
    BY <1>4 DEF SinkOk, GoOn
  <2>2. pc' \in {"top", "collect"}
    BY <2>1 DEF Inv, Window
  <2>3. quietAt' \in Nat \cup {NoQuiet} /\ quietAt' <= reading + Interval
    BY <1>1, <1>2, LaterAllowsMore DEF Inv, Clocks
  <2>4. pending # <<>> => purpose # "quiet" /\ quietAt # NoQuiet
    BY <1>1 DEF Inv, Window
  <2>5. Window'
    BY <1>1, <2>1, <2>2, <2>4 DEF Inv, Window
  <2>6. Clocks'
    <3>1. opened' \in Nat
      BY <1>1, <1>2 DEF Opens, Inv, Clocks
    <3>2. pending' # <<>> => quietAt' = quietAt /\ opened' = opened
      BY <1>1, <2>1, <2>4 DEF Opens
    <3> QED BY <1>1, <1>2, <2>1, <2>3, <3>1, <3>2 DEF Inv, Clocks, TimerNotPutOff
  <2>7. Gap'
    <3>1. emitted # NoQuiet => quietAt' >= emitted + Interval
      BY <1>1, <1>2 DEF Inv, Gap
    <3> QED BY <1>1, <1>2, <2>2, <3>1 DEF Gap
  <2>8. WithinBounds'
    BY <2>1, EmptyIsInBounds DEF Inv, WithinBounds, InBounds
  <2> QED BY <1>1, <2>5, <2>6, <2>7, <2>8 DEF Inv, GapStep
<1> QED BY <1>3, <1>4

LEMMA CallerKeeps ==
    ASSUME Inv, Opens, Caller
    PROVE  Inv' /\ GapStep
<1>1. CASE StartSession
  <2>1. /\ pc = "idle" /\ outcome.kind = "none" /\ quietAt' = NoQuiet
        /\ UNCHANGED <<now, reading, resume, pending, burst, purpose, emitted>>
        /\ \/ pc' = "top"
           \/ pc' = "idle" /\ outcome'.kind # "none"
    <3>1. /\ pc = "idle" /\ outcome.kind = "none" /\ quietAt' = NoQuiet
          /\ UNCHANGED <<now, reading, resume, pending, burst, purpose, emitted>>
          /\ \/ pc' = "top"
             \/ pc' = "idle" /\ outcome' = [kind |-> PostureErr(now)', at |-> now]
      BY <1>1 DEF StartSession, seamVars, sinkVars
    <3>2. PostureErr(now)' # "none"
      BY DEF PostureErr
    <3> QED BY <3>1, <3>2
  <2>2. pending = <<>> /\ emitted = NoQuiet
    BY <2>1 DEF Inv, Window, Gap
  <2>3. now \in Nat /\ reading \in 0..now /\ Interval \in Nat
    BY CoalesceAssumption DEF Inv, Clocks
  <2>4. Window'
    BY <2>1, <2>2 DEF Inv, Window
  <2>5. Clocks'
    BY <2>1, <2>2, <2>3 DEF Opens, Inv, Clocks, TimerNotPutOff, NoQuiet
  <2>6. Gap'
    BY <2>1, <2>2 DEF Inv, Gap
  <2>7. WithinBounds'
    BY <2>1 DEF Inv, WithinBounds, InBounds
  <2> QED BY <2>1, <2>4, <2>5, <2>6, <2>7 DEF Inv, GapStep
<1>2. CASE StartUncited
  <2>1. /\ pc = "idle" /\ pc' = pc /\ outcome'.kind = "uncited" /\ now' = now
        /\ UNCHANGED <<reading, resume, windowVars, sinkVars>>
    BY <1>2 DEF StartUncited, seamVars
  <2>2. pending = <<>> /\ pending' = <<>>
    BY <2>1 DEF Inv, Window, windowVars
  <2>3. Window'
    BY <2>1, <2>2 DEF Inv, Window
  <2>4. Clocks'
    BY <2>1, <2>2 DEF Opens, Inv, Clocks, TimerNotPutOff, windowVars
  <2>5. Gap'
    BY <2>1 DEF Inv, Gap, sinkVars
  <2>6. WithinBounds'
    BY <2>1 DEF Inv, WithinBounds, InBounds, windowVars, sinkVars
  <2> QED BY <2>1, <2>3, <2>4, <2>5, <2>6 DEF Inv, GapStep
<1>3. ASSUME Abandon \/ SinkErr PROVE Inv' /\ GapStep
  <2>1. Closes
    BY <1>3 DEF Abandon, SinkErr, Conclude, Closes, seamVars, Inv, Window
  <2> QED BY <2>1, ClosesKeeps DEF GapStep, Closes
<1>4. CASE SinkOk
  BY <1>4, SinkOkKeeps
<1> QED BY <1>1, <1>2, <1>3, <1>4, Zenon DEF Caller

LEMMA StepKeeps ==
    ASSUME Inv, [Next]_vars
    PROVE  Inv' /\ (GapStep \/ UNCHANGED vars)
<1>1. CASE Next
  <2>1. Opens
    BY <1>1 DEF Next, Opens
  <2> QED BY <1>1, <2>1, EnvironmentKeeps, RunnerKeeps, CallerKeeps DEF Next
<1>2. CASE UNCHANGED vars
  BY <1>2 DEF vars, seamVars, coalesceVars, windowVars, sinkVars, Inv, Window, Clocks, Gap,
              WithinBounds, InBounds, TimerNotPutOff
<1> QED BY <1>1, <1>2

-----------------------------------------------------------------------------
(* What the specification implies. *)

THEOREM Invariance == Spec => []Inv
<1>1. Init => Inv
  BY InvHoldsFirst
<1>2. Inv /\ [Next]_vars => Inv'
  BY StepKeeps
<1> QED BY <1>1, <1>2, PTL DEF Spec

LEMMA InvIsEnough == Inv => WindowKept /\ WithinBounds /\ TimerNotPutOff
<1> SUFFICES ASSUME Inv PROVE WindowKept
  BY DEF Inv, Clocks
<1>1. ASSUME NEW i \in 1..Len(pending) PROVE pending[i][1] \notin Urgent
  <2>1. pending[i] \in Quiet
    BY ElementOfSeq DEF Inv, Window
  <2> QED BY <2>1 DEF Quiet
<1> QED BY <1>1 DEF WindowKept, Inv, Window

\* An open window always has a timer and holds no urgent event back.
THEOREM WindowIsKept == Spec => []WindowKept
BY Invariance, InvIsEnough, PTL

\* The window, and every burst that empties it, is within the bounds of the
\* set and of each arm.
THEOREM BoundsHold == Spec => []WithinBounds
BY Invariance, InvIsEnough, PTL

\* The timer of an open window was set for at most one interval after the turn
\* that opened it, and no later turn puts it off.
THEOREM TimerHolds == Spec => []TimerNotPutOff
BY Invariance, InvIsEnough, PTL

\* Two quiet emits of a session are decided at least min_emit_interval apart.
THEOREM QuietEmitsAreApart == Spec => QuietGap
<1>1. Inv /\ [Next]_vars => [GapStep]_vars
  BY StepKeeps
<1>2. Spec => [][GapStep]_vars
  BY <1>1, Invariance, PTL DEF Spec
<1> QED BY <1>2 DEF QuietGap, GapStep

-----------------------------------------------------------------------------
(* Custody. *)

\* Every event of arm r that still exists, oldest first.
Stream(r) == delivered[r] \o (Holding(r) \o queue[r])

\* Only the sink has a burst, and while it has one the slots hold no event; a
\* final burst leaves the window empty.
Hands ==
    /\ pc # "sink" => burst = <<>>
    /\ pc \in {"idle", "sink"} => held = NothingHeld
    /\ pc = "sink" /\ purpose = "final" => pending = <<>>

Custodial ==
    /\ arrived \in [Arms -> Nat]
    /\ SlotTyped(SlotSet)
    /\ burst \in Seq(Event) /\ pending \in Seq(Event)
    /\ delivered \in [Arms -> Seq(Nat)]
    /\ Hands
    /\ \A r \in Arms : InOrder(Stream(r), arrived[r])

\* What a step does to an arm: its events change hands, or some of them are lost.
Moves(r) == Kept(delivered[r], Holding(r) \o queue[r], delivered'[r], Holding(r)', queue'[r])
Drops(r) == Gone(delivered[r], Holding(r) \o queue[r], delivered'[r], Holding(r)', queue'[r])

\* Whether a step in which no source emits keeps custody.
Losers == {"sink", "restore", "abandoned"}
Safe ==
    /\ SlotTyped(SlotSet')
    /\ burst' \in Seq(Event) /\ pending' \in Seq(Event)
    /\ delivered' \in [Arms -> Seq(Nat)]
    /\ Hands'
    /\ \/ \A r \in Arms : Moves(r)
       \/ outcome'.kind \in Losers /\ \A r \in Arms : Drops(r)

\* What is open of arm r with the burst b, the window w and the slots s.
OpenAll(b, w, s, r) == Of(b, r) \o (Of(w, r) \o OpenIn(s, r))

LEMMA HoldingIs ==
    \A r \in Arms : /\ Holding(r) = Of(burst, r) \o Of(pending, r) \o InSlot(SlotSet, r)
                    /\ Holding(r)' = Of(burst', r) \o Of(pending', r) \o InSlot(SlotSet', r)
<1>1. \A r \in Arms : Holding(r) = Of(burst, r) \o Of(pending, r) \o InSlot(SlotSet, r)
  BY DEF Holding, InSlot, SlotSet
<1>2. \A r \in Arms : Holding(r)' = Of(burst', r) \o Of(pending', r) \o InSlot(SlotSet', r)
  BY DEF Holding, InSlot, SlotSet, Of, From, Keeping
<1> QED BY <1>1, <1>2

LEMMA OfTyped == \A es \in Seq(Event), r \in Arms : Of(es, r) \in Seq(Nat)
<1> SUFFICES ASSUME NEW es \in Seq(Event), NEW r \in Arms PROVE Of(es, r) \in Seq(Nat)
  OBVIOUS
<1> DEFINE T == 1..MaxEvents
           k == Of(es, r)
<1>1. k \in Seq(T)
  BY OfIs
<1>2. T \subseteq Nat
  BY SeamAssumption
<1> HIDE DEF T, k
<1>3. k \in Seq(Nat)
  BY <1>1, <1>2, SeqMonotonic
<1> QED BY <1>3 DEF k

LEMMA OpenAllIs ==
    ASSUME NEW b \in Seq(Event), NEW w \in Seq(Event), NEW s, SlotTyped(s), NEW r \in Arms
    PROVE  /\ Of(b, r) \in Seq(Nat) /\ Of(w, r) \in Seq(Nat) /\ OpenIn(s, r) \in Seq(Nat)
           /\ InSlot(s, r) \in Seq(Nat) /\ s.queue[r] \in Seq(Nat)
           /\ Of(b, r) \o Of(w, r) \o InSlot(s, r) \in Seq(Nat)
           /\ OpenAll(b, w, s, r) \in Seq(Nat)
           /\ Of(b, r) \o Of(w, r) \o InSlot(s, r) \o s.queue[r] = OpenAll(b, w, s, r)
<1> DEFINE x == Of(b, r)
           y == Of(w, r)
           i == InSlot(s, r)
           q == s.queue[r]
<1>1. x \in Seq(Nat) /\ y \in Seq(Nat)
  BY OfTyped
<1>2. i \in Seq(Nat) /\ q \in Seq(Nat) /\ OpenIn(s, r) \in Seq(Nat) /\ OpenIn(s, r) = i \o q
  BY OpenTyped DEF OpenIn
<1>3. OpenAll(b, w, s, r) = x \o (y \o OpenIn(s, r))
  BY DEF OpenAll
<1> HIDE DEF x, y, i, q
<1>4. x \o y \o i \in Seq(Nat) /\ x \o (y \o OpenIn(s, r)) \in Seq(Nat)
  BY <1>1, <1>2, ConcatProperties
<1>5. x \o y \o i \o q = x \o (y \o (i \o q))
  <2>1. \A u, v \in Seq(Nat) : x \o y \o u \o v = x \o (y \o (u \o v))
    BY <1>1, FourInARow, Zenon
  <2> QED BY <1>2, <2>1, Zenon
<1> QED BY <1>1, <1>2, <1>3, <1>4, <1>5 DEF x, y, i, q

LEMMA OpenTypes ==
    ASSUME Custodial, NEW r \in Arms
    PROVE  /\ delivered[r] \in Seq(Nat) /\ Holding(r) \in Seq(Nat) /\ queue[r] \in Seq(Nat)
           /\ Holding(r) \o queue[r] = OpenAll(burst, pending, SlotSet, r)
           /\ Holding(r) \o queue[r] \in Seq(Nat)
<1> DEFINE b == burst
           w == pending
           s == SlotSet
<1>1. delivered[r] \in Seq(Nat) /\ b \in Seq(Event) /\ w \in Seq(Event) /\ SlotTyped(s)
  BY DEF Custodial
<1>2. s.queue = queue /\ Holding(r) = Of(b, r) \o Of(w, r) \o InSlot(s, r)
  BY HoldingIs, SlotSetFields
<1> HIDE DEF b, w, s
<1>3. /\ Of(b, r) \o Of(w, r) \o InSlot(s, r) \in Seq(Nat) /\ s.queue[r] \in Seq(Nat)
      /\ Of(b, r) \o Of(w, r) \o InSlot(s, r) \o s.queue[r] = OpenAll(b, w, s, r)
      /\ OpenAll(b, w, s, r) \in Seq(Nat)
  BY <1>1, OpenAllIs
<1> QED BY <1>1, <1>2, <1>3 DEF b, w, s

LEMMA OpenTypesNext ==
    ASSUME SlotTyped(SlotSet'), burst' \in Seq(Event), pending' \in Seq(Event), NEW r \in Arms
    PROVE  /\ Holding(r)' \in Seq(Nat) /\ queue'[r] \in Seq(Nat)
           /\ Holding(r)' \o queue'[r] = OpenAll(burst', pending', SlotSet', r)
<1> DEFINE b == burst'
           w == pending'
           s == SlotSet'
<1>1. s.queue = queue'
  BY DEF SlotSet
<1>2. Holding(r)' = Of(b, r) \o Of(w, r) \o InSlot(s, r)
  BY HoldingIs
<1> HIDE DEF b, w, s
<1>3. /\ Of(b, r) \o Of(w, r) \o InSlot(s, r) \in Seq(Nat) /\ s.queue[r] \in Seq(Nat)
      /\ Of(b, r) \o Of(w, r) \o InSlot(s, r) \o s.queue[r] = OpenAll(b, w, s, r)
  BY OpenAllIs DEF b, w, s
<1> QED BY <1>1, <1>2, <1>3 DEF b, w, s

\* A step that changes no more than who has the events.
LEMMA RearrangingSafe ==
    ASSUME Custodial, SlotTyped(SlotSet'), burst' \in Seq(Event), pending' \in Seq(Event),
           delivered' = delivered, Hands',
           \A r \in Arms : OpenAll(burst', pending', SlotSet', r) =
                             OpenAll(burst, pending, SlotSet, r)
    PROVE  Safe
<1>1. ASSUME NEW r \in Arms PROVE Moves(r)
  <2> DEFINE c == delivered[r]
             o == Holding(r) \o queue[r]
             h == Holding(r)'
             p == queue'[r]
  <2>1. c \in Seq(Nat) /\ o \in Seq(Nat) /\ h \o p = o
    BY OpenTypes, OpenTypesNext
  <2>2. Moves(r) <=> Kept(c, o, c, h, p)
    BY Zenon DEF Moves
  <2> HIDE DEF c, o, h, p
  <2> QED BY <2>1, <2>2, StaysOpen
<1> QED BY <1>1 DEF Custodial, Safe

\* Out of the sink the open events of an arm are those of the window, of its
\* slot and of its queue.
LEMMA WaitingOpen ==
    ASSUME Custodial, burst = <<>>, NEW s, SlotTyped(s), NEW r \in Arms,
           OpenIn(s, r) = OpenIn(SlotSet, r)
    PROVE  /\ Of(pending, r) \in Seq(Nat) /\ InSlot(s, r) \in Seq(Nat) /\ s.queue[r] \in Seq(Nat)
           /\ OpenAll(burst, pending, SlotSet, r) = Of(pending, r) \o (InSlot(s, r) \o s.queue[r])
           /\ Holding(r) \o queue[r] = Of(pending, r) \o OpenIn(s, r)
<1> DEFINE y == Of(pending, r)
           i == OpenIn(s, r)
           z == y \o i
<1>1. y \in Seq(Nat) /\ Of(burst, r) = <<>>
  BY OfTyped, OfEmpty DEF Custodial
<1>2. i \in Seq(Nat) /\ i = InSlot(s, r) \o s.queue[r]
      /\ InSlot(s, r) \in Seq(Nat) /\ s.queue[r] \in Seq(Nat)
  BY OpenTyped DEF OpenIn
<1>3. OpenAll(burst, pending, SlotSet, r) = <<>> \o z
  BY <1>1 DEF OpenAll
<1>4. Holding(r) \o queue[r] = OpenAll(burst, pending, SlotSet, r)
  BY OpenTypes
<1> HIDE DEF y, i
<1>5. z \in Seq(Nat)
  BY <1>1, <1>2, ConcatProperties
<1> HIDE DEF z
<1>6. <<>> \o z = z
  BY <1>5, ConcatEmptySeq
<1> QED BY <1>1, <1>2, <1>3, <1>4, <1>6 DEF y, i, z

\* The events of a turn leave their slots for the sink and the window, each
\* arm's in the order they came.
LEMMA HandsOnSafe ==
    ASSUME Custodial, burst = <<>>, NEW s, SlotTyped(s),
           \A r \in Arms : OpenIn(s, r) = OpenIn(SlotSet, r),
           delivered' = delivered, queue' = s.queue, held' = NothingHeld,
           \A r \in Arms : harvested'[r] # "event",
           burst' \in Seq(Event), pending' \in Seq(Event), Hands',
           \A r \in Arms : Of(burst', r) \o Of(pending', r) = Of(pending, r) \o InSlot(s, r)
    PROVE  Safe
<1>1. queue' \in [Arms -> Seq(1..MaxEvents)]
  BY DEF SlotTyped
<1>2. SlotTyped(SlotSet') /\ \A r \in Arms : OpenIn(SlotSet', r) = s.queue[r]
  BY <1>1, SlotsCleared
<1>3. ASSUME NEW r \in Arms
      PROVE  OpenAll(burst', pending', SlotSet', r) = OpenAll(burst, pending, SlotSet, r)
  <2> DEFINE x == Of(burst', r)
             w == Of(pending', r)
             y == Of(pending, r)
             i == InSlot(s, r)
             q == s.queue[r]
  <2>1. x \in Seq(Nat) /\ w \in Seq(Nat)
    BY OfTyped
  <2>2. /\ y \in Seq(Nat) /\ i \in Seq(Nat) /\ q \in Seq(Nat)
        /\ OpenAll(burst, pending, SlotSet, r) = y \o (i \o q)
    BY WaitingOpen
  <2>3. OpenAll(burst', pending', SlotSet', r) = x \o (w \o q)
    BY <1>2 DEF OpenAll
  <2>4. x \o w = y \o i
    OBVIOUS
  <2> HIDE DEF x, w, y, i, q
  <2>5. \A z \in Seq(Nat) : x \o w \o z = x \o (w \o z)
    BY <2>1, ThreeInARow, Zenon
  <2>6. \A z \in Seq(Nat) : y \o i \o z = y \o (i \o z)
    BY <2>2, ThreeInARow, Zenon
  <2> QED BY <2>2, <2>3, <2>4, <2>5, <2>6, Zenon
<1> QED BY <1>2, <1>3, RearrangingSafe

\* The window and the turn go to the sink together, or there is nothing in
\* either and the session ends.
LEMMA FlushSafe ==
    ASSUME Custodial, burst = <<>>, NEW s, SlotTyped(s),
           \A r \in Arms : OpenIn(s, r) = OpenIn(SlotSet, r),
           delivered' = delivered, queue' = s.queue, held' = NothingHeld,
           \A r \in Arms : harvested'[r] # "event",
           burst' = pending \o TurnEvents(s), pending' = <<>>, Hands'
    PROVE  Safe
<1> DEFINE es == TurnEvents(s)
<1>1. /\ es \in Seq(Event) /\ pending \in Seq(Event)
      /\ \A r \in Arms : Of(es, r) = InSlot(s, r)
  BY TurnIs DEF Custodial
<1> HIDE DEF es
<1>2. burst' \in Seq(Event) /\ pending' \in Seq(Event)
  BY <1>1, ConcatProperties, EmptySeq DEF es
<1>3. ASSUME NEW r \in Arms
      PROVE  Of(burst', r) \o Of(pending', r) = Of(pending, r) \o InSlot(s, r)
  <2> DEFINE z == Of(burst', r)
  <2>1. z = Of(pending, r) \o Of(es, r) /\ Of(pending', r) = <<>>
    BY <1>1, OfConcat, OfEmpty DEF es
  <2>2. z \in Seq(Nat)
    BY <1>2, OfTyped
  <2> HIDE DEF z
  <2>3. z \o <<>> = z
    BY <2>2, ConcatEmptySeq
  <2> QED BY <1>1, <2>1, <2>3 DEF z
<1> QED BY <1>2, <1>3, HandsOnSafe

\* The urgent events of a turn overtake the window, whose arms have none, and
\* the quiet ones join it.
LEMMA SplitSafe ==
    ASSUME Custodial, burst = <<>>, pending \in Seq(Quiet), NEW s, SlotTyped(s),
           \A r \in Arms : OpenIn(s, r) = OpenIn(SlotSet, r),
           delivered' = delivered, queue' = s.queue, held' = NothingHeld,
           \A r \in Arms : harvested'[r] # "event",
           burst' = From(TurnEvents(s), Urgent),
           pending' = pending \o From(TurnEvents(s), Arms \ Urgent), Hands'
    PROVE  Safe
<1> DEFINE es == TurnEvents(s)
           u == From(es, Urgent)
           w == From(es, Arms \ Urgent)
<1>1. /\ es \in Seq(Event) /\ pending \in Seq(Event)
      /\ \A r \in Arms : Of(es, r) = InSlot(s, r)
  BY TurnIs DEF Custodial
<1>2. burst' = u /\ pending' = pending \o w
  OBVIOUS
<1> HIDE DEF es
<1>3. /\ u \in Seq(Event) /\ w \in Seq(Event)
      /\ \A r \in Arms : /\ Of(u, r) = IF r \in Urgent THEN InSlot(s, r) ELSE <<>>
                         /\ Of(w, r) = IF r \in Urgent THEN <<>> ELSE InSlot(s, r)
  <2>1. es \in Seq(Event)
    BY <1>1
  <2>2. ASSUME NEW r \in Arms
        PROVE  u \in Seq(Event) /\ Of(u, r) = IF r \in Urgent THEN Of(es, r) ELSE <<>>
    BY <2>1, OfFrom
  <2>3. ASSUME NEW r \in Arms
        PROVE  w \in Seq(Event) /\ Of(w, r) = IF r \in Urgent THEN <<>> ELSE Of(es, r)
    <3> DEFINE S == Arms \ Urgent
               v == From(es, S)
    <3> HIDE DEF S
    <3>1. v \in Seq(Event) /\ Of(v, r) = IF r \in S THEN Of(es, r) ELSE <<>>
      BY <2>1, OfFrom
    <3> HIDE DEF v
    <3> QED BY <3>1 DEF S, v
  <2>4. 1 \in Arms
    BY SeamAssumption DEF Arms
  <2> HIDE DEF u, w
  <2> QED BY <1>1, <2>2, <2>3, <2>4
<1> HIDE DEF u, w
<1>4. burst' \in Seq(Event) /\ pending' \in Seq(Event)
  BY <1>1, <1>2, <1>3, ConcatProperties
<1>5. ASSUME NEW r \in Arms
      PROVE  Of(burst', r) \o Of(pending', r) = Of(pending, r) \o InSlot(s, r)
  <2> DEFINE y == Of(pending, r)
             i == InSlot(s, r)
             z == y \o i
  <2>1. y \in Seq(Nat) /\ i \in Seq(Nat)
    BY <1>1, OfTyped, OpenTyped
  <2>2. Of(pending', r) = y \o Of(w, r)
    <3>1. Of(pending \o w, r) = Of(pending, r) \o Of(w, r)
      BY <1>1, <1>3, OfConcat
    <3> QED BY <1>2, <3>1
  <2>3. CASE r \in Urgent
    <3>1. y = <<>>
      <4>1. From(pending, {r}) = <<>>
        <5> DEFINE S == {r} \X (1..MaxEvents)
        <5>1. Quiet \cap S = {}
          BY <2>3 DEF Quiet
        <5> HIDE DEF S
        <5>2. Keeping(pending, S) = <<>>
          BY <5>1, KeepingNone
        <5> QED BY <5>2 DEF From, S
      <4>2. Of(pending, r) = [k \in 1..Len(<<>>) |-> <<>>[k][2]]
        BY <4>1, Zenon DEF Of
      <4>3. [k \in 1..Len(<<>>) |-> <<>>[k][2]] = <<>>
        OBVIOUS
      <4> QED BY <4>2, <4>3
    <3>2. Of(burst', r) = i /\ Of(pending', r) = <<>> \o <<>>
      BY <1>2, <1>3, <2>2, <2>3, <3>1
    <3>3. <<>> \o <<>> = <<>>
      OBVIOUS
    <3> HIDE DEF i
    <3>4. i \o <<>> = i /\ <<>> \o i = i
      BY <2>1, ConcatEmptySeq
    <3> QED BY <3>1, <3>2, <3>3, <3>4 DEF i
  <2>4. CASE r \notin Urgent
    <3>1. Of(burst', r) = <<>> /\ Of(pending', r) = z
      BY <1>2, <1>3, <2>2, <2>4
    <3> HIDE DEF y, i
    <3>2. z \in Seq(Nat)
      BY <2>1, ConcatProperties
    <3> HIDE DEF z
    <3>3. <<>> \o z = z
      BY <3>2, ConcatEmptySeq
    <3> QED BY <3>1, <3>3 DEF y, i, z
  <2> QED BY <2>3, <2>4
<1> QED BY <1>4, <1>5, HandsOnSafe

\* A session that has nothing.
LEMMA NothingHolds ==
    ASSUME held' = NothingHeld, burst' = <<>>, pending' = <<>>
    PROVE  \A r \in Arms : Holding(r)' = <<>>
<1>1. \A r \in Arms : InSlot(SlotSet', r) = <<>> /\ Of(burst', r) = <<>> /\ Of(pending', r) = <<>>
  BY OfEmpty DEF InSlot, SlotSet, NothingHeld
<1>2. <<>> \o <<>> \o <<>> = <<>>
  OBVIOUS
<1> QED BY <1>1, <1>2, HoldingIs

\* restore_custody of the window, or of the window and the turn: the session
\* ends, and restores that fail lose what they were to give back.
LEMMA RestoreSafe ==
    ASSUME Custodial, burst = <<>>, NEW s, SlotTyped(s),
           \A r \in Arms : OpenIn(s, r) = OpenIn(SlotSet, r),
           delivered' = delivered,
           NEW z, SlotTyped(z), z.queue = s.queue, NEW es \in Seq(Event),
           \A r \in Arms : Of(es, r) \o InSlot(z, r) = Of(pending, r) \o InSlot(s, r),
           NEW kind, NEW t, RestoreAndEnd(z, es, kind, t)
    PROVE  Safe
<1> DEFINE more == [r \in Arms |-> Of(es, r)]
<1>1. PICK lost \in Failures(z, more) :
        /\ queue' = [r \in Arms |-> Requeued(z, more, lost, r)]
        /\ Conclude(IF lost = {} THEN kind ELSE "restore", t)
  BY DEF RestoreAndEnd
<1>2. /\ pc' = "idle" /\ held' = NothingHeld /\ burst' = <<>> /\ pending' = <<>>
      /\ \A r \in Arms : harvested'[r] # "event"
      /\ lost # {} => outcome'.kind \in Losers
  BY <1>1 DEF Conclude, NothingHarvested, Losers
<1>3. \A r \in Arms : more[r] = Of(es, r)
  OBVIOUS
<1> HIDE DEF more
<1>4. ASSUME NEW r \in Arms
      PROVE  /\ Requeued(z, more, lost, r) \in Seq(1..MaxEvents)
             /\ Gone(delivered[r], Holding(r) \o queue[r], delivered'[r], <<>>, queue'[r])
             /\ lost = {} =>
                  Kept(delivered[r], Holding(r) \o queue[r], delivered'[r], <<>>, queue'[r])
  <2> DEFINE c == delivered[r]
             q == Requeued(z, more, lost, r)
             o == more[r] \o OpenIn(z, r)
             x == Of(es, r)
             j == InSlot(z, r)
             y == Of(pending, r)
             i == InSlot(s, r)
             p == s.queue[r]
  <2>1. c \in Seq(Nat) /\ x \in Seq(1..MaxEvents) /\ x \in Seq(Nat) /\ more[r] = x
    BY <1>3, OpenTypes, OfIs, OfTyped
  <2>2. q \in Seq(1..MaxEvents) /\ Gone(c, o, c, <<>>, q) /\ (lost = {} => Kept(c, o, c, <<>>, q))
    BY <2>1, RequeuedGoes
  <2>3. j \in Seq(Nat) /\ y \in Seq(Nat) /\ i \in Seq(Nat) /\ p \in Seq(Nat) /\ x \o j = y \o i
        /\ OpenAll(burst, pending, SlotSet, r) = y \o (i \o p)
    BY OpenTyped, WaitingOpen
  <2>4. o = x \o (j \o p)
    BY <2>1 DEF OpenIn
  <2>5. Holding(r) \o queue[r] = OpenAll(burst, pending, SlotSet, r)
    BY OpenTypes
  <2>6. delivered'[r] = c /\ queue'[r] = q
    BY <1>1
  <2> HIDE DEF c, q, o, x, j, y, i, p
  <2>7. \A b \in Seq(Nat) : x \o j \o b = x \o (j \o b)
    BY <2>1, <2>3, ThreeInARow, Zenon
  <2>8. \A b \in Seq(Nat) : y \o i \o b = y \o (i \o b)
    BY <2>3, ThreeInARow, Zenon
  <2>9. o = Holding(r) \o queue[r]
    BY <2>3, <2>4, <2>5, <2>7, <2>8, Zenon
  <2> QED BY <2>2, <2>6, <2>9 DEF c, q
<1>5. queue' \in [Arms -> Seq(1..MaxEvents)]
  BY <1>1, <1>4
<1>6. SlotTyped(SlotSet')
  BY <1>2, <1>5, SlotsCleared
<1>7. \A r \in Arms : Holding(r)' = <<>>
  BY <1>2, NothingHolds
<1>8. \A r \in Arms : Drops(r) /\ (lost = {} => Moves(r))
  BY <1>4, <1>7, Zenon DEF Drops, Moves
<1>9. burst' \in Seq(Event) /\ pending' \in Seq(Event) /\ delivered' \in [Arms -> Seq(Nat)] /\ Hands'
  BY <1>2, EmptySeq DEF Custodial, Hands
<1> QED BY <1>2, <1>6, <1>8, <1>9 DEF Safe

\* The sink answers Err, or the future is dropped: the burst, the window and
\* what is in the slots are gone.
LEMMA LostSafe ==
    ASSUME Custodial, NEW kind \in Losers, NEW t, Conclude(kind, t), UNCHANGED <<queue, delivered>>
    PROVE  Safe
<1>1. /\ pc' = "idle" /\ held' = NothingHeld /\ burst' = <<>> /\ pending' = <<>>
      /\ harvested' = NothingHarvested /\ outcome'.kind \in Losers
  BY DEF Conclude
<1>2. queue' \in [Arms -> Seq(1..MaxEvents)]
  BY SlotSetFields DEF Custodial, SlotTyped
<1>3. SlotTyped(SlotSet')
  BY <1>1, <1>2, SlotsCleared DEF NothingHarvested
<1>4. ASSUME NEW r \in Arms PROVE Drops(r)
  <2> DEFINE x == Holding(r)
             q == queue[r]
  <2>1. x \in Seq(Nat) /\ q \in Seq(Nat)
    BY OpenTypes
  <2>2. Holding(r)' = <<>>
    BY <1>1, NothingHolds
  <2>3. delivered'[r] = delivered[r] /\ queue'[r] = q
    OBVIOUS
  <2>4. Drops(r) <=> Gone(delivered[r], x \o q, delivered'[r], <<>>, q)
    BY <2>2, <2>3, Zenon DEF Drops
  <2> HIDE DEF x, q
  <2>5. Keeping(x, {}) = <<>> /\ <<>> \o q = q
    BY <2>1, KeepingNone, ConcatEmptySeq
  <2>6. q = Keeping(x, {}) \o q
    BY <2>5
  <2>7. {} \in SUBSET Nat
    OBVIOUS
  <2>8. \E a, b \in Seq(Nat), S \in SUBSET Nat : x \o q = a \o b /\ q = Keeping(a, S) \o b
    BY <2>1, <2>6, <2>7, Zenon
  <2> QED BY <2>3, <2>4, <2>8, Zenon DEF Gone
<1>5. burst' \in Seq(Event) /\ pending' \in Seq(Event) /\ Hands'
  BY <1>1, EmptySeq DEF Hands
<1> QED BY <1>1, <1>3, <1>4, <1>5 DEF Safe, Custodial

\* The sink answers Ok: the burst is handed over, and the window stays.
LEMMA SinkOkSafe ==
    ASSUME Custodial, SinkOk
    PROVE  Safe
<1>1. /\ queue' = queue /\ held = NothingHeld /\ purpose' = purpose
      /\ delivered' = [r \in Arms |-> delivered[r] \o Of(burst, r)]
  BY DEF SinkOk, Custodial, Hands, seamVars
<1>2. /\ burst' = <<>> /\ pending' = pending /\ held' = NothingHeld
      /\ harvested' = NothingHarvested /\ (purpose = "final" => pc' = "idle")
  <2>1. CASE purpose = "final"
    BY <2>1 DEF SinkOk, Conclude, Custodial, Hands
  <2>2. CASE purpose # "final"
    BY <2>2 DEF SinkOk, GoOn
  <2> QED BY <2>1, <2>2
<1>3. queue' \in [Arms -> Seq(1..MaxEvents)]
  BY <1>1, SlotSetFields DEF Custodial, SlotTyped
<1>4. SlotTyped(SlotSet') /\ \A r \in Arms : OpenIn(SlotSet', r) = queue'[r]
  BY <1>2, <1>3, SlotsCleared DEF NothingHarvested
<1>5. burst' \in Seq(Event) /\ pending' \in Seq(Event) /\ Hands'
  BY <1>1, <1>2, EmptySeq DEF Custodial, Hands
<1>6. ASSUME NEW r \in Arms PROVE delivered'[r] \in Seq(Nat) /\ Moves(r)
  <2> DEFINE c == delivered[r]
             x == Of(burst, r)
             y == Of(pending, r)
             q == queue[r]
             z == y \o q
             h == Holding(r)'
             p == queue'[r]
  <2>1. c \in Seq(Nat) /\ x \in Seq(Nat) /\ y \in Seq(Nat) /\ q \in Seq(Nat)
    BY OpenTypes, OfTyped DEF Custodial
  <2>2. Holding(r) \o queue[r] = x \o (y \o q)
    <3>1. InSlot(SlotSet, r) = <<>> /\ SlotSet.queue = queue
      BY <1>1, SlotSetFields DEF InSlot, NothingHeld
    <3>2. <<>> \o q = q
      BY <2>1, ConcatEmptySeq
    <3>3. OpenIn(SlotSet, r) = q
      BY <3>1, <3>2 DEF OpenIn
    <3>4. Holding(r) \o queue[r] = OpenAll(burst, pending, SlotSet, r)
      BY OpenTypes
    <3> QED BY <3>3, <3>4 DEF OpenAll
  <2>3. h \o p = z
    <3>1. h \o p = OpenAll(burst', pending', SlotSet', r)
      BY <1>4, <1>5, OpenTypesNext
    <3>2. Of(burst', r) = <<>> /\ Of(pending', r) = y /\ OpenIn(SlotSet', r) = q
      BY <1>1, <1>2, <1>4, OfEmpty
    <3>3. h \o p = <<>> \o z
      BY <3>1, <3>2, Zenon DEF OpenAll
    <3> HIDE DEF y, q
    <3>4. z \in Seq(Nat)
      BY <2>1, ConcatProperties
    <3> HIDE DEF z
    <3>5. <<>> \o z = z
      BY <3>4, ConcatEmptySeq
    <3> QED BY <3>3, <3>5
  <2>4. delivered'[r] = c \o x
    BY <1>1
  <2>5. Moves(r) <=> Kept(c, x \o z, c \o x, h, p)
    BY <2>2, <2>4, Zenon DEF Moves
  <2> HIDE DEF c, x, z, h, p
  <2>6. Kept(c, x \o z, c \o x, h, p)
    BY <2>1, <2>3, Zenon DEF Kept
  <2>7. c \o x \in Seq(Nat)
    BY <2>1, ConcatProperties
  <2> QED BY <2>4, <2>5, <2>6, <2>7
<1>7. delivered' \in [Arms -> Seq(Nat)]
  BY <1>1, <1>6
<1> QED BY <1>4, <1>5, <1>6, <1>7 DEF Safe

\* The two ways a turn gives back what it would have handed on.
LEMMA FailsSafe ==
    ASSUME Custodial, burst = <<>>, NEW s, SlotTyped(s),
           \A r \in Arms : OpenIn(s, r) = OpenIn(SlotSet, r), delivered' = delivered,
           NEW kind, NEW t, RestoreAndEnd(s, pending, kind, t)
    PROVE  Safe
<1>1. pending \in Seq(Event)
  BY DEF Custodial
<1>2. \A r \in Arms : Of(pending, r) \o InSlot(s, r) = Of(pending, r) \o InSlot(s, r)
  OBVIOUS
<1> QED BY <1>1, <1>2, RestoreSafe

LEMMA OverflowsSafe ==
    ASSUME Custodial, burst = <<>>, NEW s, SlotTyped(s),
           \A r \in Arms : OpenIn(s, r) = OpenIn(SlotSet, r), delivered' = delivered,
           NEW kind, NEW t, RestoreAndEnd(Emptied(s), pending \o TurnEvents(s), kind, t)
    PROVE  Safe
<1> DEFINE es == TurnEvents(s)
           all == pending \o es
           z == Emptied(s)
<1>1. /\ es \in Seq(Event) /\ pending \in Seq(Event)
      /\ \A r \in Arms : Of(es, r) = InSlot(s, r)
  BY TurnIs DEF Custodial
<1>2. SlotTyped(z) /\ z.queue = s.queue /\ z.held = NothingHeld
  BY EmptiedKeeps
<1>3. RestoreAndEnd(z, all, kind, t)
  OBVIOUS
<1> HIDE DEF es, z
<1>4. all \in Seq(Event)
  BY <1>1, ConcatProperties
<1>5. ASSUME NEW r \in Arms
      PROVE  Of(all, r) \o InSlot(z, r) = Of(pending, r) \o InSlot(s, r)
  <2> DEFINE x == Of(all, r)
  <2>1. x = Of(pending, r) \o InSlot(s, r)
    BY <1>1, OfConcat
  <2>2. InSlot(z, r) = <<>>
    BY <1>2 DEF InSlot, NothingHeld
  <2>3. x \in Seq(Nat)
    BY <1>4, OfTyped
  <2> HIDE DEF x
  <2>4. x \o <<>> = x
    BY <2>3, ConcatEmptySeq
  <2> QED BY <2>1, <2>2, <2>4 DEF x
<1> HIDE DEF all
<1> QED BY <1>2, <1>3, <1>4, <1>5, RestoreSafe

LEMMA EmptiedHasNone ==
    ASSUME NEW s, SlotTyped(s)
    PROVE  \A r \in Arms : Emptied(s).obs[r] # "event" /\ NothingHarvested[r] # "event"
BY EmptiedKeeps DEF SlotTyped, NothingHeld, NothingHarvested

\* An empty turn has no part.
LEMMA FromNothing == \A S : From(<<>>, S) = <<>>
BY KeepingEmpty DEF From

\* Two sequences are empty if one after the other they are.
LEMMA NothingJoined ==
    \A x, y \in Seq(Event) : x \o y = <<>> => x = <<>> /\ y = <<>>
<1> SUFFICES ASSUME NEW x \in Seq(Event), NEW y \in Seq(Event), x \o y = <<>>
             PROVE  x = <<>> /\ y = <<>>
  OBVIOUS
<1>1. Len(x) \in Nat /\ Len(y) \in Nat /\ Len(x) + Len(y) = 0
  BY LenProperties, ConcatProperties
<1>2. Len(x) = 0 /\ Len(y) = 0
  BY <1>1
<1> QED BY <1>2, EmptySeq

LEMMA FlushesSafe ==
    ASSUME Custodial, burst = <<>>, NEW s, SlotTyped(s),
           \A r \in Arms : OpenIn(s, r) = OpenIn(SlotSet, r), delivered' = delivered,
           NEW t, FinalFlush(s, t)
    PROVE  Safe
<1> DEFINE all == pending \o TurnEvents(s)
<1>1. \/ RestoreAndEnd(Emptied(s), all, "overflow", t)
      \/ queue' = s.queue /\ CallSink("final", all, <<>>, s)
      \/ queue' = s.queue /\ all = <<>> /\ Conclude(FinalEnd(t, s.obs), t)
  BY Zenon DEF FinalFlush
<1>2. CASE RestoreAndEnd(Emptied(s), all, "overflow", t)
  BY <1>2, OverflowsSafe
<1> HIDE DEF all
<1>3. CASE queue' = s.queue /\ CallSink("final", all, <<>>, s)
  <2>1. /\ burst' = all /\ pending' = <<>> /\ held' = NothingHeld /\ pc' = "sink"
        /\ harvested' = Emptied(s).obs
    BY <1>3 DEF CallSink
  <2>2. Hands'
    BY <2>1 DEF Hands
  <2> QED BY <1>3, <2>1, <2>2, EmptiedHasNone, FlushSafe DEF all
<1>4. CASE queue' = s.queue /\ all = <<>> /\ Conclude(FinalEnd(t, s.obs), t)
  <2>1. /\ burst' = <<>> /\ pending' = <<>> /\ held' = NothingHeld /\ pc' = "idle"
        /\ harvested' = NothingHarvested
    BY <1>4 DEF Conclude
  <2>2. Hands'
    BY <2>1 DEF Hands
  <2>3. burst' = all
    BY <1>4, <2>1
  <2> QED BY <1>4, <2>1, <2>2, <2>3, EmptiedHasNone, FlushSafe DEF all
<1> QED BY <1>1, <1>2, <1>3, <1>4

LEMMA AppliesSafe ==
    ASSUME Custodial, burst = <<>>, pending \in Seq(Quiet), NEW s, SlotTyped(s),
           \A r \in Arms : OpenIn(s, r) = OpenIn(SlotSet, r), delivered' = delivered,
           NEW t, NEW place \in {"top", "collect"}, ApplyTurn(s, t, place)
    PROVE  Safe
<1> DEFINE es == TurnEvents(s)
           due == IntervalDue(TimerStarted(es, t), t)
           urgent == From(es, Urgent)
           quiet == From(es, Arms \ Urgent)
           window == IF due THEN pending \o es ELSE pending \o quiet
<1>1. \/ RestoreAndEnd(Emptied(s), pending \o es, "overflow", t)
      \/ queue' = s.queue /\ due /\ CallSink("quiet", window, <<>>, s)
      \/ queue' = s.queue /\ ~(due /\ window # <<>>) /\ urgent # <<>>
           /\ CallSink("urgent", urgent, window, s)
      \/ queue' = s.queue /\ ~(due /\ window # <<>>) /\ urgent = <<>>
           /\ GoOn(place) /\ pending' = window /\ UNCHANGED burst
  BY Zenon DEF ApplyTurn
<1>2. es \in Seq(Event) /\ pending \in Seq(Event)
  BY TurnIs DEF Custodial
<1> HIDE DEF due
<1>3. CASE RestoreAndEnd(Emptied(s), pending \o es, "overflow", t)
  BY <1>3, OverflowsSafe
<1>4. CASE queue' = s.queue /\ due /\ CallSink("quiet", window, <<>>, s)
  <2>1. window = pending \o es
    BY <1>4
  <2> HIDE DEF window, es
  <2>2. /\ burst' = window /\ pending' = <<>> /\ held' = NothingHeld /\ pc' = "sink"
        /\ purpose' = "quiet" /\ harvested' = Emptied(s).obs
    BY <1>4 DEF CallSink
  <2>3. Hands'
    BY <2>2 DEF Hands
  <2> QED BY <1>4, <2>1, <2>2, <2>3, EmptiedHasNone, FlushSafe DEF es
<1>5. ~(due /\ window # <<>>) => window = pending \o quiet /\ (due => urgent = <<>>)
  <2>1. ASSUME due, window = <<>>
        PROVE  window = pending \o quiet /\ urgent = <<>>
    <3>1. pending \o es = <<>>
      BY <2>1
    <3> HIDE DEF es
    <3>2. pending = <<>> /\ es = <<>>
      BY <1>2, <3>1, NothingJoined, Zenon
    <3>3. urgent = <<>> /\ quiet = <<>>
      BY <3>2, FromNothing
    <3>4. <<>> \o <<>> = <<>>
      OBVIOUS
    <3> QED BY <2>1, <3>2, <3>3, <3>4
  <2>2. ~due => window = pending \o quiet
    OBVIOUS
  <2> HIDE DEF window, urgent, quiet, es
  <2> QED BY <2>1, <2>2
<1> HIDE DEF window
<1>6. CASE queue' = s.queue /\ ~(due /\ window # <<>>) /\ urgent # <<>>
             /\ CallSink("urgent", urgent, window, s)
  <2>1. /\ burst' = urgent /\ pending' = pending \o quiet /\ held' = NothingHeld /\ pc' = "sink"
        /\ purpose' = "urgent" /\ harvested' = Emptied(s).obs
    BY <1>5, <1>6 DEF CallSink
  <2>2. Hands'
    BY <2>1 DEF Hands
  <2> QED BY <1>6, <2>1, <2>2, EmptiedHasNone, SplitSafe
<1>7. CASE queue' = s.queue /\ ~(due /\ window # <<>>) /\ urgent = <<>>
             /\ GoOn(place) /\ pending' = window /\ UNCHANGED burst
  <2>1. /\ burst' = urgent /\ pending' = pending \o quiet /\ held' = NothingHeld
        /\ pc' \in {"top", "collect"} /\ harvested' = NothingHarvested
    BY <1>5, <1>7 DEF GoOn
  <2>2. Hands'
    BY <1>7, <2>1 DEF Hands
  <2> QED BY <1>7, <2>1, <2>2, EmptiedHasNone, SplitSafe
<1> QED BY <1>1, <1>3, <1>4, <1>6, <1>7

LEMMA DecidesSafe ==
    ASSUME Custodial, burst = <<>>, pending \in Seq(Quiet), NEW s, SlotTyped(s),
           \A r \in Arms : OpenIn(s, r) = OpenIn(SlotSet, r), delivered' = delivered,
           NEW t, NEW place \in {"top", "collect"}, DecideCoalesce(s, t, place)
    PROVE  Safe
<1>1. CASE Fails(s, t)
  <2>1. PICK kind : RestoreAndEnd(s, pending, kind, t)
    BY <1>1, Zenon DEF Fails
  <2> QED BY <2>1, FailsSafe
<1>2. CASE FinalFlush(s, t)
  BY <1>2, FlushesSafe
<1>3. CASE ApplyTurn(s, t, place)
  BY <1>3, AppliesSafe
<1> QED BY <1>1, <1>2, <1>3 DEF DecideCoalesce

\* Steps that move no event.
LEMMA StillSafe ==
    ASSUME Custodial, UNCHANGED <<harvested, held, queue, burst, pending, delivered>>, Hands'
    PROVE  Safe
<1>1. SlotSet' = SlotSet
  BY DEF SlotSet
<1> QED BY <1>1, RearrangingSafe DEF Custodial

\* Steps that move events between the slots and the observer.
LEMMA PolledSafe ==
    ASSUME Custodial, UNCHANGED <<burst, pending, delivered>>, Hands', SlotTyped(SlotSet'),
           \A r \in Arms : OpenIn(SlotSet', r) = OpenIn(SlotSet, r)
    PROVE  Safe
<1>1. \A r \in Arms : OpenAll(burst', pending', SlotSet', r) = OpenAll(burst, pending, SlotSet, r)
  BY DEF OpenAll
<1> QED BY <1>1, RearrangingSafe DEF Custodial

-----------------------------------------------------------------------------
(* The steps. *)

LEMMA StepSafe ==
    ASSUME Inv, Custodial, [Next]_vars
    PROVE  \/ Safe /\ arrived' = arrived
           \/ (\E r \in Arms : Arrive(r)) /\ UNCHANGED coalesceVars
<1>1. (pc # "sink" => burst = <<>>) /\ Hands /\ pending \in Seq(Quiet)
  BY DEF Custodial, Hands, Inv, Window
<1>2. SlotTyped(SlotSet) /\ SlotSet.queue = queue
  BY SlotSetFields DEF Custodial
<1>3. CASE UNCHANGED vars
  <2>1. UNCHANGED <<pc, purpose, harvested, held, queue, burst, pending, delivered, arrived>>
    BY <1>3 DEF vars, coalesceVars, slotVars, windowVars, sinkVars, seamVars
  <2>2. Hands'
    BY <1>1, <2>1 DEF Hands
  <2> QED BY <2>1, <2>2, StillSafe
<1>4. CASE Environment /\ UNCHANGED coalesceVars
  <2>1. CASE \E r \in Arms : Arrive(r)
    BY <1>4, <2>1
  <2>2. CASE ~\E r \in Arms : Arrive(r)
    <3>1. UNCHANGED <<queue, arrived>>
      BY <1>4, <2>2 DEF Environment, Raise, ReleaseHang, Tick, Trigger
    <3>2. UNCHANGED <<pc, purpose, harvested, held, burst, pending, delivered>>
      BY <1>4 DEF coalesceVars, slotVars, windowVars, sinkVars
    <3>3. Hands'
      BY <1>1, <3>2 DEF Hands
    <3> QED BY <3>1, <3>2, <3>3, StillSafe
  <2> QED BY <2>1, <2>2
<1>5. CASE StartSession
  <2>1. /\ pc = "idle" /\ pc' # "sink"
        /\ UNCHANGED <<queue, burst, pending, delivered, arrived>>
        /\ held' = NothingHeld /\ harvested' = NothingHarvested
    BY <1>5 DEF StartSession, NewSlots, seamVars, sinkVars
  <2>2. held = NothingHeld /\ burst = <<>>
    BY <1>1, <2>1 DEF Hands
  <2>3. queue' \in [Arms -> Seq(1..MaxEvents)]
    BY <1>2, <2>1 DEF SlotTyped
  <2>4. SlotTyped(SlotSet') /\ \A r \in Arms : OpenIn(SlotSet', r) = queue'[r]
    BY <2>1, <2>3, SlotsCleared DEF NothingHarvested
  <2>5. ASSUME NEW r \in Arms PROVE OpenIn(SlotSet', r) = OpenIn(SlotSet, r)
    <3>1. OpenIn(SlotSet, r) = <<>> \o queue[r] /\ <<>> \o queue[r] = queue[r]
      BY <1>2, <2>2, OpenTypes, SlotSetFields, ConcatEmptySeq DEF OpenIn, InSlot, NothingHeld
    <3> QED BY <2>1, <2>4, <3>1
  <2>6. Hands'
    BY <2>1, <2>2 DEF Hands
  <2> QED BY <2>1, <2>4, <2>5, <2>6, PolledSafe
<1>6. CASE StartUncited \/ TopHead \/ HeadDue \/ HeadSelect \/ PollCancel \/ PollSleep \/ Rest
  <2>1. /\ UNCHANGED <<harvested, held, queue, burst, pending, delivered, arrived>>
        /\ \/ pc # "sink" /\ pc' \notin {"idle", "sink"}
           \/ UNCHANGED <<pc, purpose>>
    BY <1>6 DEF StartUncited, TopHead, HeadDue, HeadSelect, PollCancel, PollSleep, Rest, slotVars,
                seamVars, windowVars, sinkVars
  <2>2. Hands'
    BY <1>1, <2>1 DEF Hands
  <2> QED BY <2>1, <2>2, StillSafe
<1>7. CASE Abandon \/ SinkErr
  <2>1. PICK kind \in Losers : \E t : Conclude(kind, t)
    BY <1>7 DEF Abandon, SinkErr, Losers
  <2>2. UNCHANGED <<queue, delivered, arrived>>
    BY <1>7 DEF Abandon, SinkErr, seamVars
  <2> QED BY <2>1, <2>2, LostSafe
<1>8. CASE SinkOk
  BY <1>8, SinkOkSafe DEF SinkOk, seamVars
<1>9. CASE TopPosture
  <2>1. /\ pc = "top" /\ UNCHANGED <<delivered, arrived>>
        /\ RestoreAndEnd(SlotSet, pending, PostureErr(now), now)
    BY <1>9 DEF TopPosture, observerVars
  <2>2. \A r \in Arms : OpenIn(SlotSet, r) = OpenIn(SlotSet, r)
    OBVIOUS
  <2> QED BY <1>1, <1>2, <2>1, <2>2, FailsSafe
<1>10. CASE PollAtHead \/ Collect \/ Wake
  <2>1. /\ pc # "sink" /\ pc' \notin {"idle", "sink"}
        /\ UNCHANGED <<burst, pending, delivered, arrived>>
        /\ \E s \in {SlotSet, Rearmed(SlotSet)} : PollInto(s)
    BY <1>10 DEF PollAtHead, Collect, Wake, observerVars, windowVars, sinkVars
  <2>2. /\ SlotTyped(SlotSet')
        /\ \A r \in Arms : OpenIn(SlotSet', r) = OpenIn(SlotSet, r)
    BY <1>2, <2>1, PollIntoKeeps
  <2>3. Hands'
    BY <1>1, <2>1 DEF Hands
  <2> QED BY <2>1, <2>2, <2>3, PolledSafe
<1>11. CASE Late \/ Extend \/ Decide
  <2>1. /\ pc # "sink" /\ UNCHANGED <<delivered, arrived>>
        /\ \E s \in {SlotSet, Extended(SlotSet)}, place \in {"top", "collect"} :
             \E t : DecideCoalesce(s, t, place)
    BY <1>11 DEF Late, Extend, Decide, observerVars
  <2>2. PICK s \in {SlotSet, Extended(SlotSet)}, place \in {"top", "collect"} :
          \E t : DecideCoalesce(s, t, place)
    BY <2>1
  <2>3. SlotTyped(s) /\ \A r \in Arms : OpenIn(s, r) = OpenIn(SlotSet, r)
    BY <1>2, ExtendedKeeps
  <2> QED BY <1>1, <2>1, <2>2, <2>3, DecidesSafe
<1> QED BY <1>3, <1>4, <1>5, <1>6, <1>7, <1>8, <1>9, <1>10, <1>11 DEF Next, Caller, Runner

-----------------------------------------------------------------------------
(* The seam's promise, arm by arm. *)

LEMMA SeenIs ==
    ASSUME NEW r \in Arms
    PROVE  /\ Seen!Move(r) <=>
                Handing(delivered[r], delivered[r] \o Holding(r) \o queue[r],
                        delivered'[r], delivered'[r] \o Holding(r)' \o queue'[r])
           /\ Seen!Lose(r) <=>
                Losing(delivered[r], Holding(r) \o queue[r], delivered'[r], Holding(r)', queue'[r])
<1>1. \A s, S : Seen!Keeping(s, S) = Keeping(s, S)
  BY DEF Seen!Keeping, Keeping
<1>2. Seen!Stream(r) = delivered[r] \o Holding(r) \o queue[r]
  BY DEF Seen!Stream
<1>3. Seen!Stream(r)' = delivered'[r] \o Holding(r)' \o queue'[r]
  BY DEF Seen!Stream
<1>4. Seen!Move(r) <=>
        Handing(delivered[r], Seen!Stream(r), delivered'[r], Seen!Stream(r)')
  BY Zenon DEF Seen!Move, Seen!Extends, Handing, Begins
<1>5. Seen!Lose(r) <=>
        Losing(delivered[r], Holding(r) \o queue[r], delivered'[r], Holding(r)', queue'[r])
  BY <1>1 DEF Seen!Lose, Losing, Elements
<1> QED BY <1>2, <1>3, <1>4, <1>5

LEMMA ArmSafe ==
    ASSUME Custodial, Safe, arrived' = arrived, NEW r \in Arms
    PROVE  /\ InOrder(Stream(r)', arrived'[r])
           /\ Moves(r) => Seen!Move(r)
           /\ Drops(r) => Seen!Lose(r)
<1> DEFINE c == delivered[r]
           i == Holding(r)
           q == queue[r]
           d == delivered'[r]
           h == Holding(r)'
           p == queue'[r]
           n == arrived[r]
<1>1. /\ c \in Seq(Nat) /\ i \in Seq(Nat) /\ q \in Seq(Nat)
      /\ d \in Seq(Nat) /\ h \in Seq(Nat) /\ p \in Seq(Nat) /\ n \in Nat /\ arrived'[r] = n
  BY OpenTypes, OpenTypesNext DEF Custodial, Safe
<1>2. InOrder(c \o (i \o q), n) /\ Stream(r)' = d \o (h \o p)
  BY DEF Custodial, Stream
<1>3. /\ Moves(r) <=> Kept(c, i \o q, d, h, p)
      /\ Drops(r) <=> Gone(c, i \o q, d, h, p)
  BY Zenon DEF Moves, Drops
<1>4. /\ Seen!Move(r) <=> Handing(c, c \o i \o q, d, d \o h \o p)
      /\ Seen!Lose(r) <=> Losing(c, i \o q, d, h, p)
  BY SeenIs
<1>5. Moves(r) \/ Drops(r)
  BY DEF Safe
<1> HIDE DEF c, i, q, d, h, p, n
<1>6. ASSUME Kept(c, i \o q, d, h, p)
      PROVE  InOrder(d \o (h \o p), n) /\ Handing(c, c \o i \o q, d, d \o h \o p)
  <2>1. d \o (h \o p) = c \o (i \o q) /\ Handing(c, c \o i \o q, d, d \o h \o p)
    BY <1>1, <1>6, ArmHands
  <2> QED BY <1>2, <2>1
<1>7. ASSUME Gone(c, i \o q, d, h, p)
      PROVE  InOrder(d \o (h \o p), n) /\ Losing(c, i \o q, d, h, p)
  BY <1>1, <1>2, <1>7, ArmGoes
<1> QED BY <1>1, <1>2, <1>3, <1>4, <1>5, <1>6, <1>7

\* The source of an arm emits an event, later than all before it.
LEMMA ArrivalSafe ==
    ASSUME Custodial, NEW r \in Arms, Arrive(r), UNCHANGED coalesceVars
    PROVE  Custodial' /\ \A a \in Arms : Seen!Move(a)
<1>1. /\ queue' = [queue EXCEPT ![r] = Append(@, arrived[r] + 1)]
      /\ arrived' = [arrived EXCEPT ![r] = @ + 1]
      /\ UNCHANGED <<pc, purpose, harvested, held, burst, pending, delivered>>
  BY DEF Arrive, coalesceVars, slotVars, windowVars, sinkVars
<1>2. arrived \in [Arms -> Nat] /\ queue \in [Arms -> Seq(1..MaxEvents)]
  BY SlotSetFields DEF Custodial, SlotTyped
<1>3. arrived[r] + 1 \in 1..MaxEvents
  BY <1>2, SeamAssumption DEF Arrive
<1>4. arrived' \in [Arms -> Nat] /\ queue' \in [Arms -> Seq(1..MaxEvents)]
  <2>1. queue[r] \in Seq(1..MaxEvents)
    BY <1>2
  <2>2. Append(queue[r], arrived[r] + 1) \in Seq(1..MaxEvents)
    BY <1>3, <2>1, AppendProperties
  <2> QED BY <1>1, <1>2, <2>2
<1>5. SlotTyped(SlotSet')
  <2>1. SlotSet' = [obs |-> harvested, held |-> held, queue |-> queue']
    BY <1>1 DEF SlotSet
  <2> QED BY <1>4, <2>1, SlotSetFields DEF Custodial, SlotTyped
<1>6. ASSUME NEW a \in Arms
      PROVE  InOrder(Stream(a)', arrived'[a]) /\ Seen!Move(a)
  <2> DEFINE c == delivered[a]
             h == Holding(a)
             p == queue[a]
             n == arrived[a]
             t == queue'[a]
  <2>1. c \in Seq(Nat) /\ h \in Seq(Nat) /\ p \in Seq(Nat) /\ n \in Nat
    BY <1>2, OpenTypes
  <2>2. InOrder(c \o (h \o p), n)
    BY DEF Custodial, Stream
  <2>3. delivered'[a] = c /\ Holding(a)' = h
    <3>1. Holding(a)' = Of(burst', a) \o Of(pending', a) \o InSlot(SlotSet', a)
      BY HoldingIs
    <3>2. InSlot(SlotSet', a) = InSlot(SlotSet, a)
      BY <1>1 DEF InSlot, SlotSet
    <3> QED BY <1>1, <3>1, <3>2, HoldingIs
  <2>4. Stream(a)' = c \o (h \o t)
    BY <2>3 DEF Stream
  <2>5. Seen!Move(a) <=> Handing(c, c \o h \o p, c, c \o h \o t)
    BY <2>3, SeenIs
  <2>6. \/ a = r /\ t = Append(p, n + 1) /\ arrived'[a] = n + 1
        \/ t = p /\ arrived'[a] = n
    BY <1>1, <1>2
  <2> HIDE DEF c, h, p, n, t
  <2>7. /\ InOrder(c \o (h \o Append(p, n + 1)), n + 1)
        /\ Handing(c, c \o h \o p, c, c \o h \o Append(p, n + 1))
        /\ Handing(c, c \o h \o p, c, c \o h \o p)
    BY <2>1, <2>2, ArmGrows
  <2> QED BY <2>2, <2>4, <2>5, <2>6, <2>7
<1>7. Hands'
  BY <1>1 DEF Custodial, Hands
<1>8. Custodial'
  BY <1>1, <1>4, <1>5, <1>6, <1>7 DEF Custodial
<1> QED BY <1>6, <1>8

LEMMA CustodyStep ==
    ASSUME Inv, Custodial, [Next]_vars
    PROVE  Custodial' /\ Seen!Next
<1>1. CASE Safe /\ arrived' = arrived
  <2>1. Custodial'
    BY <1>1, ArmSafe DEF Custodial, Safe
  <2>2. CASE \A r \in Arms : Moves(r)
    BY <1>1, <2>1, <2>2, ArmSafe DEF Seen!Next
  <2>3. CASE outcome'.kind \in Losers /\ \A r \in Arms : Drops(r)
    BY <1>1, <2>1, <2>3, ArmSafe DEF Seen!Next, Losers
  <2> QED BY <1>1, <2>1, <2>2, <2>3 DEF Safe
<1>2. CASE (\E r \in Arms : Arrive(r)) /\ UNCHANGED coalesceVars
  BY <1>2, ArrivalSafe DEF Seen!Next
<1> QED BY <1>1, <1>2, StepSafe

LEMMA CustodyInit == Init => Custodial /\ Seen!Init
<1> SUFFICES ASSUME Init PROVE Custodial /\ Seen!Init
  OBVIOUS
<1>1. /\ arrived = [r \in Arms |-> 0] /\ queue = [r \in Arms |-> <<>>] /\ pc = "idle"
      /\ harvested = NothingHarvested /\ held = NothingHeld /\ burst = <<>> /\ pending = <<>>
      /\ delivered = [r \in Arms |-> <<>>] /\ outcome.kind = "none"
  BY DEF Init, SeamInit, SlotsInit
<1>2. <<>> \o <<>> = <<>> /\ <<>> \in Seq(1..MaxEvents) /\ <<>> \in Seq(Nat) /\ <<>> \in Seq(Event)
  BY EmptySeq
<1>3. \A r \in Arms : Holding(r) = <<>> /\ Stream(r) = <<>>
  <2>1. \A r \in Arms : InSlot(SlotSet, r) = <<>> /\ Of(burst, r) = <<>> /\ Of(pending, r) = <<>>
    BY <1>1, OfEmpty DEF InSlot, SlotSet, NothingHeld
  <2> QED BY <1>1, <1>2, <2>1, HoldingIs DEF Stream
<1>4. InOrder(<<>>, 0)
  BY DEF InOrder, Increasing, Elements
<1>5. SlotTyped(SlotSet)
  BY <1>1, <1>2, SlotSetFields, NothingHeldTyped DEF SlotTyped, NothingHarvested, NothingHeld
<1>6. Hands
  BY <1>1 DEF Hands
<1>7. Custodial
  BY <1>1, <1>2, <1>3, <1>4, <1>5, <1>6 DEF Custodial
<1>8. Seen!Init
  BY <1>1, <1>3 DEF Seen!Init
<1> QED BY <1>7, <1>8

\* run_coalesce keeps the seam's promise, for every set of arms and of urgent
\* arms, every interval, bound and lease: an event goes through the slot, the
\* window and the burst, or overtakes the window with its arm's others, without
\* being reordered, duplicated or taken back, and is lost only with an Err of the
\* sink or of a restore, or with a future that is dropped.
THEOREM CustodyIsKept == Spec => KeepsCustody
<1>1. Inv /\ Custodial /\ [Next]_vars => Custodial' /\ Seen!Next
  BY CustodyStep
<1>2. Spec => Seen!Init /\ [][Seen!Next]_vars
  BY <1>1, CustodyInit, Invariance, PTL DEF Spec
<1>3. [Seen!Next]_vars => [Seen!Next]_(Seen!custodyVars)
  <2> SUFFICES ASSUME UNCHANGED vars PROVE UNCHANGED Seen!custodyVars
    OBVIOUS
  <2>1. UNCHANGED <<harvested, held, queue, burst, pending, delivered, outcome>>
    BY DEF vars, seamVars, coalesceVars, slotVars, windowVars, sinkVars
  <2>2. \A r \in Arms : Holding(r)' = Holding(r)
    <3>1. \A r \in Arms : InSlot(SlotSet', r) = InSlot(SlotSet, r)
      BY <2>1 DEF InSlot, SlotSet
    <3> QED BY <2>1, <3>1, HoldingIs
  <2> QED BY <2>1, <2>2 DEF Seen!custodyVars
<1> QED BY <1>2, <1>3, PTL DEF KeepsCustody, Seen!Spec
=============================================================================
