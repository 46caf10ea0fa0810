-------------------------- MODULE FirstMatch_proofs --------------------------
(***************************************************************************)
(* Theorems about FirstMatch, for every number of arms, events, instants   *)
(* and waits: the order of replayed events, what an outcome claims, which  *)
(* arm wins, and the one step that loses an event.                         *)
(***************************************************************************)
EXTENDS FirstMatch, Lists_proofs

Event == 1..MaxEvents
EventQueues == [Arms -> Seq(Event)]
EventOrNone == [Arms -> 0..MaxEvents]
OutcomeRecords == [kind : Kinds, at : 0..Horizon, arms : SUBSET Arms, winner : 0..N]

-----------------------------------------------------------------------------
(* The decisions. *)

NatLess == {ss \in Nat \X Nat : ss[1] < ss[2]}

\* A non-empty set of naturals has a least element.
LEMMA LeastNatural ==
    ASSUME NEW S \in SUBSET Nat, S # {}
    PROVE  \E x \in S : \A y \in S : x <= y
<1>1. IsWellFoundedOn(NatLess, Nat)
  <2>1. OpToRel(<, Nat) = NatLess
    BY SMT DEF OpToRel, NatLess
  <2> QED BY <2>1, NatLessThanWellFounded, Zenon
<1>2. PICK x \in S : \A y \in S : <<y, x>> \notin NatLess
  BY <1>1, WFMin, Zenon
<1>3. ASSUME NEW y \in S PROVE x <= y
  <2>1. <<y, x>> \in NatLess <=> y < x
    BY DEF NatLess
  <2>2. ~(y < x)
    BY <1>2, <2>1
  <2> QED BY <2>2
<1> QED BY <1>3

\* The earliest of some arms is one of them.
LEMMA WinnerIsEarliest ==
    ASSUME NEW S \in SUBSET Arms, S # {}
    PROVE  /\ EventWinner(S) \in S
           /\ \A s \in S : EventWinner(S) <= s
<1>1. S \in SUBSET Nat
  BY SeamAssumption DEF Arms
<1> QED BY <1>1, LeastNatural DEF EventWinner

\* The kinds the deadline, the posture and the ready set lead to.
LEMMA DecisionTypes ==
    ASSUME NEW t
    PROVE  /\ PostureReject(t) \in {"ok", "reauthentication_required", "refused"}
           /\ \A starts : TerminalDeadline(t, starts)
                            \in {"none", "failed", "logical_deadman", "no_change"}
           /\ \A ready : Decide(ready) \in {"none", "partial", "failed", "events"}
BY DEF PostureReject, TerminalDeadline, Decide

\* Outcome builds a record of the type outcome has.
LEMMA OutcomeType ==
    ASSUME NEW k \in Kinds, NEW t \in 0..Horizon, NEW a \in SUBSET Arms, NEW w \in 0..N
    PROVE  Outcome(k, t, a, w) \in OutcomeRecords
BY DEF Outcome, OutcomeRecords

-----------------------------------------------------------------------------
(* The events an observer holds of an arm are always the last ones the arm *)
(* emitted, in order: a queue is its length and the number it ends at.     *)

Numbered(q, last) == Len(q) <= last /\ \A i \in 1..Len(q) : q[i] = last - Len(q) + i

\* The source emits one more.
LEMMA NumberedAppend ==
    ASSUME NEW S, S \subseteq Nat, NEW q \in Seq(S), NEW last \in Nat, last + 1 \in S,
           Numbered(q, last)
    PROVE  Numbered(Append(q, last + 1), last + 1)
<1>1. /\ Len(Append(q, last + 1)) = Len(q) + 1
      /\ \A i \in 1..Len(q) : Append(q, last + 1)[i] = q[i]
      /\ Append(q, last + 1)[Len(q) + 1] = last + 1
  BY AppendProperties
<1>2. Len(q) \in Nat
  BY LenProperties
<1> QED BY <1>1, <1>2 DEF Numbered

\* A runner takes the oldest.
LEMMA NumberedTake ==
    ASSUME NEW S, S \subseteq Nat, NEW q \in Seq(S), NEW last \in Nat, Numbered(q, last), q # <<>>
    PROVE  /\ Head(q) = last - Len(q) + 1
           /\ Head(q) \in S
           /\ Tail(q) \in Seq(S)
           /\ Len(Tail(q)) = Len(q) - 1
           /\ Numbered(Tail(q), last)
<1>1. Len(q) \in Nat \ {0}
  BY EmptySeq
<1>2. /\ Head(q) \in S
      /\ Tail(q) \in Seq(S)
      /\ Len(Tail(q)) = Len(q) - 1
      /\ \A i \in 1..Len(Tail(q)) : Tail(q)[i] = q[i + 1]
  BY HeadTailProperties
<1>3. Head(q) = q[1]
  BY <1>1
<1> QED BY <1>1, <1>2, <1>3 DEF Numbered

\* A runner gives back the one before the oldest.
LEMMA NumberedGiveBack ==
    ASSUME NEW S, S \subseteq Nat, NEW q \in Seq(S), NEW last \in Nat, Numbered(q, last),
           NEW e \in S, e = last - Len(q), e # 0
    PROVE  /\ PushFront(q, e) \in Seq(S)
           /\ Len(PushFront(q, e)) = Len(q) + 1
           /\ Numbered(PushFront(q, e), last)
<1>1. Len(q) \in Nat
  BY LenProperties
<1>2. <<e>> \in Seq(S) /\ Len(<<e>>) = 1 /\ <<e>>[1] = e
  OBVIOUS
<1>3. /\ <<e>> \o q \in Seq(S)
      /\ Len(<<e>> \o q) = 1 + Len(q)
      /\ \A i \in 1 .. 1 + Len(q) : (<<e>> \o q)[i] = IF i <= 1 THEN <<e>>[i] ELSE q[i - 1]
  BY <1>2, ConcatProperties
<1> QED BY <1>1, <1>2, <1>3 DEF Numbered, PushFront

-----------------------------------------------------------------------------
(* Custody: q is what the observer holds and h what the runner holds.      *)

Carried(q, h, r) ==
    /\ Numbered(q[r], arrived[r])
    /\ h[r] # 0 => h[r] = arrived[r] - Len(q[r])
    /\ \A i \in 1..Len(delivered[r]) :
         delivered[r][i] <= arrived[r] - Len(q[r]) - (IF h[r] = 0 THEN 0 ELSE 1)

Custodial(q, h) ==
    /\ q \in EventQueues
    /\ h \in EventOrNone
    /\ \A r \in Arms : Carried(q, h, r)

\* Taking from arms of which nothing is held.
LEMMA TakeCarries ==
    ASSUME TypeOK, Custodial(queue, held), NEW took \in SUBSET Arms,
           \A r \in took : held[r] = 0 /\ queue[r] # <<>>
    PROVE  Custodial(QueueWithout(took), HeldWith(took))
<1> DEFINE q == QueueWithout(took)
           h == HeldWith(took)
<1> SUFFICES ASSUME NEW r \in Arms
             PROVE  q[r] \in Seq(Event) /\ h[r] \in 0..MaxEvents /\ Carried(q, h, r)
  BY DEF Custodial, EventQueues, EventOrNone, QueueWithout, HeldWith
<1>1. arrived[r] \in Nat /\ queue[r] \in Seq(Event) /\ held[r] \in 0..MaxEvents /\ MaxEvents \in Nat
  BY SeamAssumption DEF TypeOK, SeamTypeOK, Event
<1>2. CASE r \in took
  <2>1. q[r] = Tail(queue[r]) /\ h[r] = Head(queue[r])
    BY <1>2 DEF QueueWithout, HeldWith
  <2>2. Event \subseteq Nat /\ Numbered(queue[r], arrived[r])
    BY <1>1 DEF Event, Custodial, Carried
  <2>3. /\ Head(queue[r]) = arrived[r] - Len(queue[r]) + 1
        /\ Head(queue[r]) \in Event
        /\ Tail(queue[r]) \in Seq(Event)
        /\ Len(Tail(queue[r])) = Len(queue[r]) - 1
        /\ Numbered(Tail(queue[r]), arrived[r])
    BY <1>1, <1>2, <2>2, NumberedTake
  <2>4. Len(queue[r]) \in Nat
    BY <1>1, LenProperties
  <2>5. \A i \in 1..Len(delivered[r]) : delivered[r][i] \in Nat
    BY <2>2, ElementOfSeq DEF TypeOK, Event
  <2>6. \A i \in 1..Len(delivered[r]) : delivered[r][i] <= arrived[r] - Len(queue[r])
    <3>1. Carried(queue, held, r) /\ held[r] = 0
      BY <1>2 DEF Custodial
    <3> QED BY <1>1, <2>4, <2>5, <3>1 DEF Carried
  <2> HIDE DEF q, h
  <2>7. h[r] # 0
    BY <2>1, <2>3, <1>1 DEF Event
  <2>8. arrived[r] - Len(q[r]) - 1 = arrived[r] - Len(queue[r])
    BY <2>1, <2>3, <2>4, <1>1
  <2>9. /\ q[r] \in Seq(Event) /\ h[r] \in 0..MaxEvents
        /\ Numbered(q[r], arrived[r]) /\ h[r] = arrived[r] - Len(q[r])
    BY <1>1, <2>1, <2>3, <2>4 DEF Event
  <2>10. \A i \in 1..Len(delivered[r]) : delivered[r][i] <= arrived[r] - Len(q[r]) - 1
    BY <2>6, <2>8
  <2> QED BY <2>7, <2>9, <2>10 DEF Carried
<1>3. CASE r \notin took
  <2>1. q[r] = queue[r] /\ h[r] = held[r]
    BY <1>3 DEF QueueWithout, HeldWith
  <2>2. Carried(queue, held, r)
    BY DEF Custodial
  <2> HIDE DEF q, h
  <2> QED BY <1>1, <2>1, <2>2 DEF Carried
<1> QED BY <1>2, <1>3

\* Giving back some of what is held, and keeping or losing the rest.
LEMMA GiveBackCarries ==
    ASSUME TypeOK, NEW q, NEW h, Custodial(q, h), NEW back \in SUBSET Arms,
           \A r \in back : h[r] # 0,
           NEW g \in EventOrNone, \A r \in Arms : g[r] = 0 \/ (g[r] = h[r] /\ r \notin back)
    PROVE  Custodial(Restored(q, h, back), g)
<1> DEFINE p == Restored(q, h, back)
<1> SUFFICES ASSUME NEW r \in Arms PROVE p[r] \in Seq(Event) /\ Carried(p, g, r)
  BY DEF Custodial, EventQueues, Restored
<1>1. /\ arrived[r] \in Nat /\ MaxEvents \in Nat /\ Event \subseteq Nat
      /\ q[r] \in Seq(Event) /\ h[r] \in 0..MaxEvents /\ Carried(q, h, r)
      /\ delivered[r] \in Seq(Event)
  BY SeamAssumption DEF TypeOK, SeamTypeOK, Event, Custodial, EventQueues, EventOrNone
<1>2. /\ Len(q[r]) \in Nat
      /\ \A i \in 1..Len(delivered[r]) : delivered[r][i] \in Nat
  BY <1>1, LenProperties, ElementOfSeq
<1>3. CASE r \in back
  <2>1. p[r] = PushFront(q[r], h[r]) /\ g[r] = 0 /\ h[r] # 0
    BY <1>3 DEF Restored
  <2>2. h[r] \in Event /\ h[r] = arrived[r] - Len(q[r]) /\ Numbered(q[r], arrived[r])
    BY <1>1, <2>1 DEF Carried, Event
  <2>3. /\ PushFront(q[r], h[r]) \in Seq(Event)
        /\ Len(PushFront(q[r], h[r])) = Len(q[r]) + 1
        /\ Numbered(PushFront(q[r], h[r]), arrived[r])
    BY <1>1, <2>1, <2>2, NumberedGiveBack
  <2> HIDE DEF p
  <2>4. \A i \in 1..Len(delivered[r]) : delivered[r][i] <= arrived[r] - Len(p[r])
    BY <1>1, <1>2, <2>1, <2>3 DEF Carried
  <2> QED BY <1>1, <1>2, <2>1, <2>3, <2>4 DEF Carried
<1>4. CASE r \notin back
  <2>1. p[r] = q[r] /\ (g[r] = 0 \/ g[r] = h[r])
    BY <1>4 DEF Restored
  <2> HIDE DEF p
  <2> QED BY <1>1, <1>2, <2>1 DEF Carried
<1> QED BY <1>3, <1>4


-----------------------------------------------------------------------------
(* The inductive invariant. Beyond what the properties say, it needs that  *)
(* a slot says "event" exactly while its event is held: this is how the    *)
(* runner knows what to give back.                                         *)

SlotsTell ==
    pc \notin {"finish", "return"} => \A r \in Arms : held[r] # 0 <=> slot[r] = "event"

Inv ==
    /\ TypeOK
    /\ Custodial(queue, held)
    /\ SlotsTell
    /\ AwaitsHoldNothing
    /\ \A r \in Arms : Increasing(delivered[r])

\* What no step of a running wait changes, but the clock and the observer.
Steady ==
    UNCHANGED <<now, cancelled, observerVars, request, bound, backoff, delivered, waits>>

\* Holding nothing is one of the values held may have.
LEMMA NothingHeldType == NothingHeld \in EventOrNone
BY SeamAssumption DEF NothingHeld, EventOrNone

\* A wait that ends leaves with the observer what it gave back.
LEMMA ConcludeStep ==
    ASSUME Inv, Custodial(queue', NothingHeld), Steady, resolved' \in SUBSET Arms,
           NEW result \in OutcomeRecords, Conclude(result)
    PROVE  Inv'
<1> USE DEF Steady, observerVars, Conclude
<1>1. TypeOK'
  BY NothingHeldType
     DEF Inv, TypeOK, SeamTypeOK, Custodial, EventQueues, EventOrNone, OutcomeRecords, PCs,
         AllPending, Event
<1>2. Custodial(queue, held)'
  BY DEF Custodial, Carried
<1>3. SlotsTell' /\ AwaitsHoldNothing'
  BY DEF SlotsTell, AwaitsHoldNothing, NothingHeld, AllPending
<1>4. (\A r \in Arms : Increasing(delivered[r]))'
  BY DEF Inv, Increasing
<1> QED BY <1>1, <1>2, <1>3, <1>4 DEF Inv

\* ... and so does one that fails closed half-way.
LEMMA RestoreAndConcludeStep ==
    ASSUME Inv, NEW q, NEW h, Custodial(q, h), NEW back \in SUBSET Arms,
           \A r \in back : h[r] # 0, NEW polled,
           NEW result \in OutcomeRecords, RestoreAndConclude(q, h, back, polled, result),
           Steady, resolved' \in SUBSET Arms
    PROVE  Inv'
<1>1. \A some \in SUBSET back : Custodial(Restored(q, h, some), NothingHeld)
  BY NothingHeldType, GiveBackCarries DEF NothingHeld, Inv
<1>2. CASE queue' = Restored(q, h, back) /\ Conclude(result)
  BY <1>1, <1>2, ConcludeStep
<1>3. ASSUME NEW f \in RestoreFailures(back),
             queue' = Restored(q, h, GivenBackBefore(f, back, polled)),
             Conclude(Outcome("error", now, {}, 0))
      PROVE  Inv'
  <2>1. GivenBackBefore(f, back, polled) \in SUBSET back
    BY DEF GivenBackBefore
  <2>2. Outcome("error", now, {}, 0) \in OutcomeRecords
    BY OutcomeType, SeamAssumption DEF Kinds, Inv, TypeOK, SeamTypeOK
  <2> QED BY <1>1, <1>3, <2>1, <2>2, ConcludeStep
<1> QED BY <1>2, <1>3 DEF RestoreAndConclude


\* The arms a decision is about, once poll_ready has been asked.
LEMMA MatchedIsHeld ==
    ASSUME Inv, NEW polled \in SUBSET Arms, \A r \in polled : held[r] = 0,
           \A r \in Arms \ polled : slot[r] = "event" => held[r] # 0
    PROVE  /\ Custodial(QueueWithout(TakenBy(polled)), HeldWith(TakenBy(polled)))
           /\ \A r \in Matched(Collected(polled)) : HeldWith(TakenBy(polled))[r] # 0
<1>1. \A r \in TakenBy(polled) : queue[r] # <<>>
  BY SeamAssumption DEF TakenBy, ReadyAnswer, Due, Inv, TypeOK, SeamTypeOK, AllSignals
<1>2. Custodial(QueueWithout(TakenBy(polled)), HeldWith(TakenBy(polled)))
  BY <1>1, TakeCarries DEF Inv, TakenBy
<1>3. ASSUME NEW r \in Matched(Collected(polled))
      PROVE  HeldWith(TakenBy(polled))[r] # 0
  <2>1. CASE r \in polled
    <3>1. r \in TakenBy(polled) /\ r \in Arms
      BY <1>3, <2>1 DEF Matched, Collected, TakenBy
    <3>2. HeldWith(TakenBy(polled))[r] = Head(queue[r])
      BY <3>1 DEF HeldWith
    <3>3. queue[r] \in Seq(Event) /\ queue[r] # <<>>
      BY <1>1, <3>1 DEF Inv, TypeOK, SeamTypeOK, Event
    <3>4. Head(queue[r]) \in Event
      BY <3>3, HeadTailProperties
    <3> QED BY <3>2, <3>4 DEF Event
  <2>2. CASE r \notin polled
    BY <1>3, <2>2 DEF Matched, Collected, HeldWith, TakenBy
  <2> QED BY <2>1, <2>2
<1> QED BY <1>2, <1>3

\* decide_and_restore hands on the winner and leaves the losers with the observer.
LEMMA DecideAndRestoreStep ==
    ASSUME Inv, NEW polled \in SUBSET Arms, \A r \in polled : held[r] = 0,
           \A r \in Arms \ polled : slot[r] = "event" => held[r] # 0,
           NEW starts \in SUBSET Arms, NEW next \in {"finish", "return"},
           Decide(Collected(polled)) # "none",
           DecideAndRestore(polled, now, starts, next),
           Steady, resolved' = resolved
    PROVE  Inv'
<1> DEFINE ready == Collected(polled)
           matched == Matched(ready)
           q == QueueWithout(TakenBy(polled))
           h == HeldWith(TakenBy(polled))
           winner == EventWinner(matched)
           losers == matched \ {winner}
<1>1. Custodial(q, h) /\ \A r \in matched : h[r] # 0
  BY MatchedIsHeld
<1>2. matched \in SUBSET Arms /\ now \in 0..Horizon /\ resolved' \in SUBSET Arms
  BY DEF Matched, Inv, TypeOK, SeamTypeOK
<1> HIDE DEF ready, matched, q, h
<1>3. CASE PostureReject(now) # "ok"
  <2>1. RestoreAndConclude(q, h, matched, polled, Outcome(PostureReject(now), now, {}, 0))
    BY <1>3 DEF DecideAndRestore, q, h, matched, ready
  <2>2. Outcome(PostureReject(now), now, {}, 0) \in OutcomeRecords
    BY <1>2, <1>3, DecisionTypes, OutcomeType, SeamAssumption DEF Kinds
  <2> QED BY <1>1, <1>2, <2>1, <2>2, RestoreAndConcludeStep
<1>4. CASE PostureReject(now) = "ok" /\ matched = {}
  <2>1. queue' = q /\ Conclude(Outcome("failed", now, {}, 0))
    BY <1>4 DEF DecideAndRestore, q, matched, ready
  <2>2. Outcome("failed", now, {}, 0) \in OutcomeRecords
    BY <1>2, OutcomeType, SeamAssumption DEF Kinds
  <2>3. Custodial(Restored(q, h, {}), NothingHeld)
    BY <1>1, GiveBackCarries, NothingHeldType DEF NothingHeld, Inv
  <2>4. Restored(q, h, {}) = q
    BY <1>1 DEF Restored, Custodial, EventQueues
  <2> QED BY <1>2, <2>1, <2>2, <2>3, <2>4, ConcludeStep
<1>5. CASE PostureReject(now) = "ok" /\ matched # {}
  <2>1. winner \in matched
    BY <1>2, <1>5, WinnerIsEarliest
  <2>2. losers \in SUBSET Arms /\ winner \notin losers /\ \A r \in losers : h[r] # 0
    BY <1>1, <1>2
  <2> HIDE DEF winner, losers
  <2>3. CASE /\ queue' = Restored(q, h, losers)
             /\ held' = [NothingHeld EXCEPT ![winner] = h[winner]]
             /\ outcome' = Outcome(Decide(ready), now,
                                   IF Decide(ready) = "partial" THEN starts ELSE {}, winner)
             /\ slot' = AllPending
             /\ pc' = next
    <3>1. /\ held' \in EventOrNone
          /\ \A r \in Arms : held'[r] = 0 \/ (held'[r] = h[r] /\ r \notin losers)
      <4>1. h \in EventOrNone /\ NothingHeld \in EventOrNone /\ winner \in Arms
        BY <1>1, <1>2, <2>1, NothingHeldType DEF Custodial
      <4>2. held' = [NothingHeld EXCEPT ![winner] = h[winner]]
        BY <2>3
      <4>3. held' \in EventOrNone
        BY <4>1, <4>2 DEF EventOrNone
      <4>4. \A r \in Arms : held'[r] = IF r = winner THEN h[winner] ELSE 0
        BY <4>2 DEF NothingHeld
      <4> QED BY <2>2, <4>3, <4>4
    <3>2. Custodial(queue', held')
      <4>1. Custodial(q, h) /\ \A r \in losers : h[r] # 0
        BY <1>1, <2>2
      <4>2. TypeOK /\ held' \in EventOrNone /\ losers \in SUBSET Arms
        BY <2>2, <3>1 DEF Inv
      <4>3. Custodial(Restored(q, h, losers), held')
        BY <3>1, <4>1, <4>2, GiveBackCarries
      <4> QED BY <2>3, <4>3
    <3>3. outcome' \in OutcomeRecords
      <4>1. Decide(ready) \in Kinds
        BY DecisionTypes DEF Kinds
      <4>2. winner \in 0..N
        BY <1>2, <2>1, SeamAssumption DEF Arms
      <4>3. (IF Decide(ready) = "partial" THEN starts ELSE {}) \in SUBSET Arms
        OBVIOUS
      <4> QED BY <1>2, <2>3, <4>1, <4>2, <4>3, OutcomeType
    <3>4. TypeOK'
      BY <2>3, <3>2, <3>3
         DEF Inv, TypeOK, SeamTypeOK, Custodial, EventQueues, EventOrNone, OutcomeRecords, PCs,
             AllPending, Event, Steady, observerVars
    <3>5. Custodial(queue, held)'
      BY <3>2 DEF Custodial, Carried, Steady, observerVars
    <3>6. SlotsTell' /\ AwaitsHoldNothing'
      BY <2>3 DEF SlotsTell, AwaitsHoldNothing
    <3>7. (\A r \in Arms : Increasing(delivered[r]))'
      BY DEF Inv, Increasing, Steady
    <3> QED BY <3>4, <3>5, <3>6, <3>7 DEF Inv
  <2>4. ASSUME NEW f \in RestoreFailures(losers),
               queue' = Restored(q, h, GivenBackBefore(f, losers, polled)),
               Conclude(Outcome("error", now, {}, 0))
        PROVE  Inv'
    <3>1. GivenBackBefore(f, losers, polled) \in SUBSET losers
      BY DEF GivenBackBefore
    <3>2. Custodial(queue', NothingHeld)
      BY <1>1, <2>2, <2>4, <3>1, GiveBackCarries, NothingHeldType DEF NothingHeld, Inv
    <3>3. Outcome("error", now, {}, 0) \in OutcomeRecords
      BY <1>2, OutcomeType, SeamAssumption DEF Kinds
    <3> QED BY <1>2, <2>4, <3>2, <3>3, ConcludeStep
  <2> QED BY <1>5, <2>3, <2>4 DEF DecideAndRestore, ready, matched, q, h, winner, losers
<1> QED BY <1>3, <1>4, <1>5


-----------------------------------------------------------------------------
(* The invariant is inductive. *)

\* A runner that has not started satisfies the invariant.
LEMMA InvInit == Init => Inv
<1> SUFFICES ASSUME Init PROVE Inv
  OBVIOUS
<1> USE SeamAssumption, FirstMatchAssumption DEF Init, SeamInit
<1>1. \A r \in Arms : Len(queue[r]) = 0 /\ Len(delivered[r]) = 0
  BY EmptySeq
<1>2. Len(BackoffSteps) \in Nat
  BY LenProperties
<1>3. TypeOK
  <2> DEFINE E == 1..MaxEvents
  <2>0. <<>> \in Seq(E)
    BY EmptySeq
  <2>1. SeamTypeOK
    <3>1. queue \in [Arms -> Seq(E)]
      BY <2>0
    <3>2. now \in 0..Horizon /\ arrived \in [Arms -> 0..MaxEvents]
      OBVIOUS
    <3>3. signal \in [Arms -> Signals \cup {"none", "idle"}] /\ bindable \in SUBSET Arms
      OBVIOUS
    <3> QED BY <3>1, <3>2, <3>3 DEF SeamTypeOK
  <2>2. request \in Requests /\ outcome \in OutcomeRecords
    BY OutcomeType DEF Requests, Kinds
  <2>3. backoff \in [step : 0..Len(BackoffSteps), wake : 0..Horizon]
    BY <1>2
  <2>4. delivered \in [Arms -> Seq(E)]
    BY <2>0
  <2>5. /\ slot \in [Arms -> {"pending", "idle", "event"} \cup Signals]
        /\ held \in [Arms -> 0..MaxEvents]
    BY DEF AllPending, NothingHeld
  <2>6. bound \in BOOLEAN /\ resolved \in SUBSET Arms
    BY Zenon
  <2>7. pc \in PCs /\ waits \in 0..MaxWaits
    BY DEF PCs
  <2> HIDE DEF Init
  <2> QED BY <2>1, <2>2, <2>3, <2>4, <2>5, <2>6, <2>7 DEF TypeOK, OutcomeRecords
<1>4. Custodial(queue, held)
  BY <1>1, EmptySeq
     DEF Custodial, Carried, Numbered, EventQueues, EventOrNone, Event, NothingHeld
<1>5. SlotsTell /\ AwaitsHoldNothing
  BY DEF SlotsTell, AwaitsHoldNothing, NothingHeld, AllPending
<1>6. \A r \in Arms : Increasing(delivered[r])
  BY <1>1 DEF Increasing
<1> QED BY <1>3, <1>4, <1>5, <1>6 DEF Inv

\* Steps that leave alone what the invariant is about.
LEMMA QuietStep ==
    ASSUME Inv, TypeOK', UNCHANGED <<arrived, queue, held, delivered>>,
           SlotsTell', AwaitsHoldNothing'
    PROVE  Inv'
BY DEF Inv, Custodial, Carried, Increasing

\* Sources, clock and token do not disturb what the runner holds.
LEMMA EnvironmentStep ==
    ASSUME Inv, Environment, UNCHANGED runnerVars
    PROVE  Inv'
<1> USE SeamAssumption DEF runnerVars
<1>1. SlotsTell' /\ AwaitsHoldNothing'
  BY DEF Inv, SlotsTell, AwaitsHoldNothing
<1>2. ASSUME NEW r \in Arms, Arrive(r) PROVE Inv'
  <2>1. /\ arrived[r] \in Nat /\ arrived[r] + 1 \in Event /\ queue[r] \in Seq(Event)
        /\ Event \subseteq Nat
    BY <1>2 DEF Arrive, Inv, TypeOK, SeamTypeOK, Event
  <2>2. /\ Append(queue[r], arrived[r] + 1) \in Seq(Event)
        /\ Len(Append(queue[r], arrived[r] + 1)) = Len(queue[r]) + 1
        /\ Len(queue[r]) \in Nat
    BY <2>1, AppendProperties, LenProperties
  <2>3. TypeOK'
    <3>1. arrived' \in [Arms -> 0..MaxEvents]
      BY <1>2, <2>1 DEF Arrive, Inv, TypeOK, SeamTypeOK, Event
    <3>2. queue' \in [Arms -> Seq(1..MaxEvents)]
      BY <1>2, <2>2 DEF Arrive, Inv, TypeOK, SeamTypeOK, Event
    <3>3. SeamTypeOK'
      BY <1>2, <3>1, <3>2 DEF Arrive, Inv, TypeOK, SeamTypeOK
    <3> QED BY <3>3 DEF Inv, TypeOK
  <2>4. queue' \in EventQueues /\ held' \in EventOrNone
    BY <2>3 DEF TypeOK, SeamTypeOK, EventQueues, EventOrNone, Event
  <2>5. ASSUME NEW s \in Arms PROVE Carried(queue, held, s)'
    <3>1. Carried(queue, held, s)
      BY DEF Inv, Custodial
    <3>2. CASE s # r
      BY <1>2, <3>1, <3>2 DEF Carried, Arrive, Inv, TypeOK, SeamTypeOK
    <3>3. CASE s = r
      <4>1. queue'[r] = Append(queue[r], arrived[r] + 1) /\ arrived'[r] = arrived[r] + 1
        BY <1>2 DEF Arrive, Inv, TypeOK, SeamTypeOK
      <4>2. Numbered(queue'[r], arrived'[r])
        <5>1. Numbered(queue[r], arrived[r])
          BY <3>1, <3>3 DEF Carried
        <5>2. Numbered(Append(queue[r], arrived[r] + 1), arrived[r] + 1)
          BY <2>1, <5>1, NumberedAppend
        <5> QED BY <4>1, <5>2
      <4>3. arrived'[r] - Len(queue'[r]) = arrived[r] - Len(queue[r])
        <5>1. Len(queue'[r]) = Len(queue[r]) + 1
          BY <2>2, <4>1
        <5>2. \A a, l \in Nat : (a + 1) - (l + 1) = a - l
          OBVIOUS
        <5>3. arrived[r] \in Nat /\ Len(queue[r]) \in Nat
          BY <2>1, <2>2
        <5>4. arrived'[r] - Len(queue'[r]) = (arrived[r] + 1) - (Len(queue[r]) + 1)
          BY <4>1, <5>1
        <5> QED BY <5>2, <5>3, <5>4
      <4> QED BY <3>1, <3>3, <4>2, <4>3 DEF Carried
    <3> QED BY <3>2, <3>3
  <2> QED BY <1>1, <1>2, <2>3, <2>4, <2>5 DEF Inv, Custodial, Increasing
<1>3. ASSUME NEW r \in Arms, NEW s \in Signals \cup {"none", "idle"}, Raise(r, s) PROVE Inv'
  <2>1. TypeOK'
    BY <1>3 DEF Raise, Inv, TypeOK, SeamTypeOK
  <2> QED BY <1>1, <1>3, <2>1, QuietStep DEF Raise
<1>4. ASSUME NEW r \in Arms, ReleaseHang(r) PROVE Inv'
  <2>1. TypeOK'
    BY <1>4 DEF ReleaseHang, Inv, TypeOK, SeamTypeOK
  <2> QED BY <1>1, <1>4, <2>1, QuietStep DEF ReleaseHang
<1>5. ASSUME Tick PROVE Inv'
  <2>1. TypeOK'
    BY <1>5 DEF Tick, Inv, TypeOK, SeamTypeOK
  <2> QED BY <1>1, <1>5, <2>1, QuietStep DEF Tick
<1>6. ASSUME Trigger PROVE Inv'
  <2>1. TypeOK'
    BY <1>6 DEF Trigger, Inv, TypeOK, SeamTypeOK
  <2> QED BY <1>1, <1>6, <2>1, QuietStep DEF Trigger
<1> QED BY <1>2, <1>3, <1>4, <1>5, <1>6 DEF Environment

\* Whatever a run that ends was still holding goes down with it.
LEMMA DroppedCarries == Inv => Custodial(queue, NothingHeld)
<1> SUFFICES ASSUME Inv PROVE Custodial(queue, NothingHeld)
  OBVIOUS
<1>1. Custodial(Restored(queue, held, {}), NothingHeld)
  BY GiveBackCarries, NothingHeldType DEF Inv, NothingHeld
<1>2. Restored(queue, held, {}) = queue
  BY DEF Restored, Inv, TypeOK, SeamTypeOK
<1> QED BY <1>1, <1>2

\* The outcomes a step may end with at the instant the clock shows.
LEMMA OutcomeNow ==
    ASSUME Inv, NEW k \in Kinds, NEW a \in SUBSET Arms
    PROVE  Outcome(k, now, a, 0) \in OutcomeRecords
BY OutcomeType, SeamAssumption DEF Inv, TypeOK, SeamTypeOK

\* The steps of a wait that ends without giving anything back.
LEMMA EndingStep ==
    ASSUME Inv, UNCHANGED queue, Steady, UNCHANGED resolved,
           NEW k \in Kinds, NEW a \in SUBSET Arms, Conclude(Outcome(k, now, a, 0))
    PROVE  Inv'
<1>1. Custodial(queue', NothingHeld)
  BY DroppedCarries
<1>2. resolved' \in SUBSET Arms
  BY DEF Inv, TypeOK
<1> QED BY <1>1, <1>2, OutcomeNow, ConcludeStep

\* The steps of the caller.
LEMMA CallerStep ==
    ASSUME Inv, Caller
    PROVE  Inv'
<1>1. CASE StartWait
  <2>1. TypeOK'
    <3>1. request' \in Requests /\ waits' \in 0..MaxWaits
      BY <1>1, FirstMatchAssumption DEF StartWait, Inv, TypeOK
    <3>2. outcome' \in OutcomeRecords
      BY <1>1, OutcomeType, SeamAssumption DEF StartWait, Kinds
    <3>3. backoff' \in [step : 0..Len(BackoffSteps), wake : 0..Horizon]
      BY <1>1, FirstMatchAssumption, SeamAssumption, LenProperties DEF StartWait
    <3>4. bound' \in BOOLEAN /\ resolved' \in SUBSET Arms /\ pc' \in PCs
      BY <1>1 DEF StartWait, PCs
    <3> QED BY <1>1, <3>1, <3>2, <3>3, <3>4
               DEF StartWait, Inv, TypeOK, SeamTypeOK, observerVars, OutcomeRecords
  <2>2. SlotsTell' /\ AwaitsHoldNothing'
    BY <1>1 DEF StartWait, Inv, SlotsTell, AwaitsHoldNothing
  <2> QED BY <1>1, <2>1, <2>2, QuietStep DEF StartWait, observerVars
<1>2. CASE StartUncited
  <2>1. outcome' \in OutcomeRecords /\ waits' \in 0..MaxWaits
    BY <1>2, OutcomeType, SeamAssumption, FirstMatchAssumption DEF StartUncited, Kinds, Inv, TypeOK
  <2>2. TypeOK'
    BY <1>2, <2>1 DEF StartUncited, Inv, TypeOK, SeamTypeOK, seamVars, OutcomeRecords
  <2>3. SlotsTell' /\ AwaitsHoldNothing'
    BY <1>2 DEF StartUncited, Inv, SlotsTell, AwaitsHoldNothing
  <2> QED BY <1>2, <2>2, <2>3, QuietStep DEF StartUncited, seamVars
<1>3. CASE Abandon
  BY <1>3, EndingStep DEF Abandon, seamVars, observerVars, Steady, Kinds
<1> QED BY <1>1, <1>2, <1>3 DEF Caller

\* The steps at the head of the loop.
LEMMA TopStep ==
    ASSUME Inv, TopCancelled \/ TopDeadline \/ TopRace
    PROVE  Inv'
<1> USE DEF seamVars, observerVars
<1>1. CASE TopCancelled
  BY <1>1, EndingStep DEF TopCancelled, Steady, Kinds
<1>2. CASE TopDeadline
  <2>1. Starts \in SUBSET Arms
    BY DEF Starts, Inv, TypeOK
  <2>2. TerminalDeadline(now, Starts) \in Kinds
    BY DecisionTypes DEF Kinds
  <2>3. CASE TerminalDeadline(now, Starts) = "failed"
    BY <1>2, <2>2, <2>3, EndingStep DEF TopDeadline, Steady
  <2>4. CASE TerminalDeadline(now, Starts) # "failed"
    <3>1. /\ outcome' = Outcome(TerminalDeadline(now, Starts), now, Starts, 0)
          /\ pc = "top" /\ pc' = "finish"
          /\ UNCHANGED <<seamVars, request, bound, resolved, slot, held, backoff, delivered,
                         waits>>
      BY <1>2, <2>4 DEF TopDeadline
    <3>2. outcome' \in OutcomeRecords
      BY <2>1, <2>2, <3>1, OutcomeNow
    <3>3. TypeOK'
      BY <3>1, <3>2 DEF Inv, TypeOK, SeamTypeOK, OutcomeRecords, PCs
    <3>4. SlotsTell' /\ AwaitsHoldNothing'
      BY <3>1 DEF SlotsTell, AwaitsHoldNothing
    <3> QED BY <3>1, <3>3, <3>4, QuietStep
  <2> QED BY <2>3, <2>4
<1>3. CASE TopRace
  <2>1. TypeOK'
    BY <1>3 DEF TopRace, Inv, TypeOK, SeamTypeOK, PCs
  <2>2. SlotsTell' /\ AwaitsHoldNothing'
    BY <1>3 DEF TopRace, Inv, SlotsTell, AwaitsHoldNothing
  <2> QED BY <1>3, <2>1, <2>2, QuietStep DEF TopRace
<1> QED BY <1>1, <1>2, <1>3

\* One poll of the race: what it takes is held, and what it holds when an arm
\* fails is given back.
LEMMA PollRaceStep ==
    ASSUME Inv, PollRace
    PROVE  Inv'
<1> DEFINE asked == {r \in bindable : slot[r] = "pending"}
           answered == {r \in asked : NextAnswer(r) # "none"}
           took == {r \in answered : NextAnswer(r) = "event"}
           slots == [r \in Arms |-> IF r \in answered THEN NextAnswer(r) ELSE slot[r]]
           h == HeldWith(took)
           q == QueueWithout(took)
<1>1. asked \in SUBSET Arms /\ took \in SUBSET Arms
  BY DEF Inv, TypeOK, SeamTypeOK
<1>2. pc = "race" /\ Steady /\ resolved' \in SUBSET Arms
  BY <1>1 DEF PollRace, Steady, Inv, TypeOK
<1>3. \A r \in Arms : held[r] # 0 <=> slot[r] = "event"
  BY <1>2 DEF Inv, SlotsTell
<1>4. \A r \in took : held[r] = 0 /\ queue[r] # <<>>
  BY <1>1, <1>3, SeamAssumption DEF NextAnswer, Due, Inv, TypeOK, SeamTypeOK, AllSignals
<1>5. Custodial(q, h)
  BY <1>1, <1>4, TakeCarries DEF Inv
<1>6. ASSUME NEW r \in Arms PROVE h[r] # 0 <=> slots[r] = "event"
  <2>1. CASE r \in took
    <3>1. h[r] = Head(queue[r]) /\ slots[r] = "event"
      BY <2>1 DEF HeldWith
    <3>2. queue[r] \in Seq(Event) /\ queue[r] # <<>>
      BY <1>4, <2>1 DEF Inv, TypeOK, SeamTypeOK, Event
    <3>3. Head(queue[r]) \in Event
      BY <3>2, HeadTailProperties
    <3> QED BY <3>1, <3>3 DEF Event
  <2>2. CASE r \notin took
    BY <1>1, <1>3, <2>2 DEF HeldWith
  <2> QED BY <2>1, <2>2
<1>7. slots \in [Arms -> {"pending", "idle", "event"} \cup Signals]
  BY SeamAssumption DEF NextAnswer, Due, Inv, TypeOK, SeamTypeOK
<1> HIDE DEF asked, answered, took, slots, h, q
<1>8. CASE \E r \in Arms : slots[r] = "error"
  <2>1. RestoreAndConclude(q, h, Matched(slots), {}, Outcome("error", now, {}, 0))
    BY <1>8 DEF PollRace, asked, answered, took, slots, h, q
  <2>2. Matched(slots) \in SUBSET Arms /\ \A r \in Matched(slots) : h[r] # 0
    BY <1>6 DEF Matched
  <2>3. Outcome("error", now, {}, 0) \in OutcomeRecords
    BY OutcomeNow DEF Kinds
  <2> QED BY <1>2, <1>5, <2>1, <2>2, <2>3, RestoreAndConcludeStep
<1>9. CASE ~\E r \in Arms : slots[r] = "error"
  <2>1. /\ slot' = slots /\ held' = h /\ queue' = q
        /\ pc' = IF Settled(slots) THEN "decide" ELSE "cancel"
        /\ UNCHANGED outcome
    BY <1>9 DEF PollRace, asked, answered, took, slots, h, q
  <2>2. TypeOK'
    BY <1>2, <1>5, <1>7, <2>1
       DEF Inv, TypeOK, SeamTypeOK, Steady, observerVars, Custodial, EventQueues, EventOrNone,
           PCs, Event
  <2>3. Custodial(queue, held)'
    BY <1>2, <1>5, <2>1 DEF Custodial, Carried, Steady, observerVars
  <2>4. SlotsTell'
    BY <1>6, <2>1 DEF SlotsTell
  <2>5. AwaitsHoldNothing'
    <3>1. CASE Settled(slots)
      BY <2>1, <3>1 DEF AwaitsHoldNothing
    <3>2. CASE ~Settled(slots)
      <4>1. \A r \in Arms : h[r] = 0
        BY <1>6, <3>2 DEF Settled
      <4>2. h = NothingHeld
        BY <1>5, <4>1 DEF Custodial, EventOrNone, NothingHeld
      <4> QED BY <2>1, <4>2 DEF AwaitsHoldNothing
    <3> QED BY <3>1, <3>2
  <2>6. (\A r \in Arms : Increasing(delivered[r]))'
    BY <1>2 DEF Inv, Increasing, Steady
  <2> QED BY <2>2, <2>3, <2>4, <2>5, <2>6 DEF Inv
<1> QED BY <1>8, <1>9

\* The other branches of the select, and the sleep after an idle round.
LEMMA WaitingStep ==
    ASSUME Inv, PollCancel \/ PollSleep \/ AllIdle \/ Wake
    PROVE  Inv'
<1> USE DEF seamVars, observerVars
<1>1. CASE PollCancel
  <2>1. CASE cancelled
    <3>1. /\ RestoreAndConclude(queue, held, Matched(slot), {}, Outcome("cancelled", now, {}, 0))
          /\ Steady /\ resolved' \in SUBSET Arms
      BY <1>1, <2>1 DEF PollCancel, Steady, Inv, TypeOK
    <3>2. Matched(slot) \in SUBSET Arms /\ \A r \in Matched(slot) : held[r] # 0
      BY <1>1 DEF Matched, PollCancel, Inv, SlotsTell
    <3>3. Outcome("cancelled", now, {}, 0) \in OutcomeRecords
      BY OutcomeNow DEF Kinds
    <3>4. Custodial(queue, held)
      BY DEF Inv
    <3> QED BY <3>1, <3>2, <3>3, <3>4, RestoreAndConcludeStep
  <2>2. CASE ~cancelled
    <3>1. TypeOK'
      BY <1>1, <2>2 DEF PollCancel, Inv, TypeOK, SeamTypeOK, PCs
    <3>2. SlotsTell' /\ AwaitsHoldNothing'
      BY <1>1, <2>2 DEF PollCancel, Inv, SlotsTell, AwaitsHoldNothing
    <3> QED BY <1>1, <2>2, <3>1, <3>2, QuietStep DEF PollCancel
  <2> QED BY <2>1, <2>2
<1>2. CASE PollSleep
  <2>1. TypeOK'
    BY <1>2 DEF PollSleep, Inv, TypeOK, SeamTypeOK, PCs
  <2>2. SlotsTell' /\ AwaitsHoldNothing'
    BY <1>2 DEF PollSleep, Inv, SlotsTell, AwaitsHoldNothing
  <2> QED BY <1>2, <2>1, <2>2, QuietStep DEF PollSleep
<1>3. CASE AllIdle
  <2>1. \A r \in Arms : held[r] = 0
    BY <1>3 DEF AllIdle, Decide, Matched, Collected, Unanswered, Inv, SlotsTell
  <2>2. held = NothingHeld
    BY <2>1 DEF Inv, TypeOK, NothingHeld
  <2>3. backoff' \in [step : 0..Len(BackoffSteps), wake : 0..Horizon]
    <3>1. Len(BackoffSteps) \in Nat \ {0}
      BY FirstMatchAssumption, LenProperties
    <3>2. backoff.step \in 0..Len(BackoffSteps) /\ now \in 0..Horizon
      BY DEF Inv, TypeOK, SeamTypeOK
    <3>3. request.run \in 0..Horizon /\ request.logical \in 0..Horizon
      BY DEF Inv, TypeOK, Requests
    <3> DEFINE step == EarlierOf(backoff.step + 1, Len(BackoffSteps))
    <3>4. step \in 1..Len(BackoffSteps)
      BY <3>1, <3>2 DEF EarlierOf
    <3>5. BackoffSteps[step] \in Nat
      BY <3>4, FirstMatchAssumption, ElementOfSeq
    <3> HIDE DEF step
    <3>6. BackoffDeadline(step) \in 0..Horizon
      BY <3>2, <3>3, <3>5, SeamAssumption DEF BackoffDeadline, EarliestDeadline, EarlierOf
    <3>7. backoff' = [step |-> step, wake |-> BackoffDeadline(step)]
      BY <1>3 DEF AllIdle, step
    <3> QED BY <3>4, <3>6, <3>7
  <2>4. TypeOK'
    BY <1>3, <2>3 DEF AllIdle, Inv, TypeOK, SeamTypeOK, PCs, AllPending
  <2>5. SlotsTell' /\ AwaitsHoldNothing'
    BY <1>3, <2>1, <2>2 DEF AllIdle, SlotsTell, AwaitsHoldNothing, AllPending
  <2> QED BY <1>3, <2>4, <2>5, QuietStep DEF AllIdle
<1>4. CASE Wake
  <2>1. TypeOK'
    BY <1>4 DEF Wake, Inv, TypeOK, SeamTypeOK, PCs
  <2>2. SlotsTell' /\ AwaitsHoldNothing'
    BY <1>4 DEF Wake, Inv, SlotsTell, AwaitsHoldNothing
  <2> QED BY <1>4, <2>1, <2>2, QuietStep DEF Wake
<1> QED BY <1>1, <1>2, <1>3, <1>4

\* The race or the last look before a deadline has decided.
LEMMA DecidingStep ==
    ASSUME Inv, RaceDecided \/ DeadlineObserved \/ DeadlineQuiet \/ Finish
    PROVE  Inv'
<1> USE DEF seamVars
<1>1. CASE RaceDecided
  <2> DEFINE starts == IF bound THEN Arms ELSE {r \in Arms : slot[r] # "pending"}
  <2>1. Unanswered \in SUBSET Arms /\ starts \in SUBSET Arms
    BY DEF Unanswered
  <2>2. /\ \A r \in Unanswered : held[r] = 0
        /\ \A r \in Arms \ Unanswered : slot[r] = "event" => held[r] # 0
    BY <1>1 DEF RaceDecided, Unanswered, Inv, SlotsTell
  <2>3. /\ DecideAndRestore(Unanswered, now, starts, "finish")
        /\ Decide(Collected(Unanswered)) # "none" /\ Steady /\ resolved' = resolved
    BY <1>1 DEF RaceDecided, Steady
  <2> HIDE DEF starts
  <2> QED BY <2>1, <2>2, <2>3, DecideAndRestoreStep
<1>2. CASE DeadlineObserved
  <2>1. LastLook \in SUBSET Arms
    BY DEF LastLook
  <2>2. \A r \in Arms : held[r] = 0 /\ slot[r] # "event"
    BY <1>2 DEF DeadlineObserved, Inv, AwaitsHoldNothing, SlotsTell, NothingHeld
  <2>3. /\ DecideAndRestore(LastLook, now, Arms, "return")
        /\ Decide(Collected(LastLook)) # "none" /\ Steady /\ resolved' = resolved
    BY <1>2 DEF DeadlineObserved, Steady
  <2> QED BY <2>1, <2>2, <2>3, DecideAndRestoreStep
<1>3. CASE DeadlineQuiet
  <2>1. TerminalDeadline(now, Starts) \in Kinds
    BY DecisionTypes DEF Kinds
  <2>2. PostureReject(now) # "ok" => PostureReject(now) \in Kinds
    BY DecisionTypes DEF Kinds
  <2>3. Starts \in SUBSET Arms
    BY DEF Starts, Inv, TypeOK
  <2>4. \E k \in Kinds, a \in SUBSET Arms : Conclude(Outcome(k, now, a, 0))
    BY <1>3, <2>1, <2>2, <2>3 DEF DeadlineQuiet
  <2> QED BY <1>3, <2>4, EndingStep DEF DeadlineQuiet, Steady, observerVars
<1>4. CASE Finish
  <2>1. CASE PostureReject(now) # "ok"
    <3>1. PostureReject(now) \in Kinds
      BY <2>1, DecisionTypes DEF Kinds
    <3> QED BY <1>4, <2>1, <3>1, EndingStep DEF Finish, Steady, observerVars
  <2>2. CASE PostureReject(now) = "ok"
    <3>1. TypeOK'
      BY <1>4, <2>2 DEF Finish, Inv, TypeOK, SeamTypeOK, PCs
    <3>2. SlotsTell' /\ AwaitsHoldNothing'
      BY <1>4, <2>2 DEF Finish, SlotsTell, AwaitsHoldNothing
    <3> QED BY <1>4, <2>2, <3>1, <3>2, QuietStep DEF Finish
  <2> QED BY <2>1, <2>2
<1> QED BY <1>1, <1>2, <1>3, <1>4

\* An event later than all before it keeps them in order.
LEMMA LaterIsLast ==
    ASSUME NEW S, S \subseteq Nat, NEW s \in Seq(S), NEW e \in S, Increasing(s),
           \A i \in 1..Len(s) : s[i] <= e - 1
    PROVE  /\ Append(s, e) \in Seq(S)
           /\ Increasing(Append(s, e))
           /\ \A i \in 1..Len(Append(s, e)) : Append(s, e)[i] <= e
<1> DEFINE t == Append(s, e)
           n == Len(s)
<1>1. /\ t \in Seq(S) /\ n \in Nat /\ Len(t) = n + 1
      /\ \A i \in 1..n : t[i] = s[i] /\ t[i] \in Nat
      /\ t[n + 1] = e /\ e \in Nat
  <2>1. /\ t \in Seq(S) /\ Len(t) = n + 1
        /\ \A i \in 1..n : t[i] = s[i]
        /\ t[n + 1] = e
    BY AppendProperties
  <2>2. n \in Nat /\ \A i \in 1..n : s[i] \in S
    BY LenProperties, ElementOfSeq
  <2> QED BY <2>1, <2>2
<1> HIDE DEF t
<1>2. \A i \in 1 .. n + 1 : i = n + 1 \/ i \in 1..n
  BY <1>1
<1>3. \A i \in 1 .. n + 1 : t[i] <= e
  BY <1>1, <1>2
<1>4. ASSUME NEW i \in 1 .. n + 1, NEW j \in 1 .. n + 1, i < j PROVE t[i] < t[j]
  <2>1. i \in 1..n /\ t[i] = s[i]
    BY <1>1, <1>4
  <2>2. CASE j = n + 1
    BY <1>1, <2>1, <2>2
  <2>3. CASE j \in 1..n
    BY <1>1, <1>4, <2>1, <2>3 DEF Increasing
  <2> QED BY <1>2, <2>2, <2>3
<1>5. Increasing(t)
  BY <1>1, <1>4 DEF Increasing
<1> QED BY <1>1, <1>3, <1>5 DEF t

\* The caller receives the event held: it is later than every one before it.
LEMMA ReturnStep ==
    ASSUME Inv, Return
    PROVE  Inv'
<1> USE DEF seamVars, Conclude
<1>1. /\ held' = NothingHeld /\ slot' = AllPending /\ pc' = "idle" /\ outcome' = outcome
      /\ UNCHANGED <<seamVars, request, bound, resolved, backoff, waits>>
  BY DEF Return
<1>2. ASSUME NEW r \in Arms
      PROVE  /\ delivered'[r] \in Seq(Event)
             /\ Increasing(delivered'[r])
             /\ Carried(queue, held, r)'
  <2>1. /\ Carried(queue, held, r) /\ Increasing(delivered[r]) /\ delivered[r] \in Seq(Event)
        /\ held[r] \in 0..MaxEvents /\ queue[r] \in Seq(Event) /\ arrived[r] \in Nat
        /\ MaxEvents \in Nat
    BY SeamAssumption DEF Inv, Custodial, TypeOK, SeamTypeOK, Event
  <2>2. /\ Len(queue[r]) \in Nat /\ Len(delivered[r]) \in Nat
        /\ \A i \in 1..Len(delivered[r]) : delivered[r][i] \in Event
    BY <2>1, LenProperties, ElementOfSeq
  <2>3. queue'[r] = queue[r] /\ arrived'[r] = arrived[r] /\ held'[r] = 0
    BY <1>1 DEF NothingHeld
  <2>4. CASE held[r] = 0
    <3>1. delivered'[r] = delivered[r]
      BY <2>4 DEF Return
    <3> QED BY <2>1, <2>2, <2>3, <2>4, <3>1 DEF Carried
  <2>5. CASE held[r] # 0
    <3>1. delivered'[r] = Append(delivered[r], held[r]) /\ held[r] \in Event
      BY <2>1, <2>5 DEF Return, Event
    <3>2. held[r] = arrived[r] - Len(queue[r])
      BY <2>1, <2>5 DEF Carried
    <3>3. \A i \in 1..Len(delivered[r]) : delivered[r][i] <= held[r] - 1
      BY <2>1, <2>5, <3>2 DEF Carried
    <3>4. Event \subseteq Nat
      BY <2>1 DEF Event
    <3>5. /\ delivered'[r] \in Seq(Event)
          /\ Increasing(delivered'[r])
          /\ \A i \in 1..Len(delivered'[r]) : delivered'[r][i] <= held[r]
      BY <2>1, <3>1, <3>3, <3>4, LaterIsLast
    <3>6. \A i \in 1..Len(delivered'[r]) : delivered'[r][i] <= arrived[r] - Len(queue[r]) - 0
      BY <2>1, <2>2, <3>2, <3>5
    <3>7. Numbered(queue[r], arrived[r])
      BY <2>1 DEF Carried
    <3>8. Numbered(queue[r], arrived[r])'
      BY <2>3, <3>7
    <3>9. Carried(queue, held, r)'
      BY <2>3, <3>6, <3>8 DEF Carried
    <3> QED BY <3>5, <3>9
  <2> QED BY <2>4, <2>5
<1>3. delivered' \in EventQueues
  <2>1. delivered' = [r \in Arms |-> delivered'[r]]
    BY DEF Return
  <2> QED BY <1>2, <2>1 DEF EventQueues
<1>4. TypeOK'
  BY <1>1, <1>3, NothingHeldType
     DEF Inv, TypeOK, SeamTypeOK, PCs, AllPending, EventOrNone, EventQueues, Event
<1>5. Custodial(queue, held)'
  BY <1>1, <1>2, NothingHeldType DEF Inv, Custodial
<1>6. SlotsTell' /\ AwaitsHoldNothing'
  BY <1>1 DEF SlotsTell, AwaitsHoldNothing, NothingHeld, AllPending
<1> QED BY <1>2, <1>4, <1>5, <1>6 DEF Inv

\* Every step of the caller, the runner and the environment keeps the invariant.
LEMMA InvStep == Inv /\ [Next]_vars => Inv'
<1> SUFFICES ASSUME Inv, [Next]_vars PROVE Inv'
  OBVIOUS
<1>1. CASE UNCHANGED vars
  BY <1>1 DEF vars, seamVars, runnerVars, Inv, TypeOK, SeamTypeOK, Custodial, Carried, SlotsTell,
              AwaitsHoldNothing, Increasing
<1>2. CASE Environment /\ UNCHANGED runnerVars
  BY <1>2, EnvironmentStep
<1>3. CASE Caller
  BY <1>3, CallerStep
<1>4. CASE Runner
  BY <1>4, TopStep, PollRaceStep, WaitingStep, DecidingStep, ReturnStep DEF Runner
<1> QED BY <1>1, <1>2, <1>3, <1>4 DEF Next

-----------------------------------------------------------------------------
(* The theorems. *)

\* The strengthening of them all.
THEOREM Invariance == Spec => []Inv
BY InvInit, InvStep, PTL DEF Spec

\* Every variable keeps its type.
THEOREM TypeCorrect == Spec => []TypeOK
<1>1. Inv => TypeOK
  BY DEF Inv
<1> QED BY Invariance, <1>1, PTL

\* Wherever the future can be dropped or raced against, no event is in hand.
THEOREM NothingInHandAtAwaits == Spec => []AwaitsHoldNothing
<1>1. Inv => AwaitsHoldNothing
  BY DEF Inv
<1> QED BY Invariance, <1>1, PTL

-----------------------------------------------------------------------------
(* What an outcome claims, from the step that decides it to the caller.    *)

Speaks == {"events", "partial"} \cup CleanKinds

Covered ==
    outcome.kind \in CleanKinds =>
        /\ Required \subseteq outcome.arms
        /\ outcome.kind = "no_change" => outcome.at < request.logical
        /\ outcome.kind = "logical_deadman" => outcome.at >= request.logical

Postured ==
    outcome.kind \in Speaks =>
        /\ \A r \in Arms : outcome.at <= Lease[r]
        /\ AuthnRequired => request.receipt

Verdict ==
    /\ pc \in {"finish", "return", "idle"} => Covered
    /\ pc = "finish" => outcome.at <= now
    /\ pc \in {"return", "idle"} => Postured

\* A posture that lets an outcome through at instant t lets it through before.
LEMMA PostureOk ==
    ASSUME NEW t \in Nat, PostureReject(t) = "ok", NEW at \in Nat, at <= t
    PROVE  (\A r \in Arms : at <= Lease[r]) /\ (AuthnRequired => request.receipt)
<1>1. (\A r \in Arms : ~(t > Lease[r])) /\ ~(AuthnRequired /\ ~request.receipt)
  BY DEF PostureReject
<1> QED BY <1>1, SeamAssumption

\* The deadline a wait may end clean on, once its required arms are bound.
LEMMA DeadlineCovers ==
    ASSUME Inv, NEW starts, TerminalDeadline(now, starts) \in CleanKinds
    PROVE  /\ Required \subseteq starts
           /\ TerminalDeadline(now, starts) = "no_change" => now < request.logical
           /\ TerminalDeadline(now, starts) = "logical_deadman" => now >= request.logical
BY SeamAssumption DEF TerminalDeadline, CleanKinds, Inv, TypeOK, SeamTypeOK, Requests

\* An outcome that says nothing about the sources claims nothing.
LEMMA SilentVerdict ==
    ASSUME pc' = "idle", outcome'.kind \notin Speaks
    PROVE  Verdict'
BY DEF Verdict, Covered, Postured, Speaks

\* Giving everything back and ending with a silent outcome claims nothing either.
LEMMA SilentRestore ==
    ASSUME NEW q, NEW h, NEW back, NEW polled, NEW k, k \notin Speaks, NEW t, NEW a, NEW w,
           RestoreAndConclude(q, h, back, polled, Outcome(k, t, a, w))
    PROVE  Verdict'
<1>1. pc' = "idle" /\ outcome'.kind \in {k, "error"}
  BY DEF RestoreAndConclude, Conclude, Outcome
<1>2. "error" \notin Speaks
  BY DEF Speaks, CleanKinds
<1> QED BY <1>1, <1>2, SilentVerdict

\* A decision on the ready set is never clean, and is never past the posture.
LEMMA DecideVerdict ==
    ASSUME Inv, NEW polled, NEW starts, NEW next \in {"finish", "return"},
           DecideAndRestore(polled, now, starts, next), UNCHANGED <<now, request>>
    PROVE  Verdict'
<1>0. /\ \A k \in {"failed", "error", "refused", "reauthentication_required"} : k \notin Speaks
      /\ \A k \in {"none", "partial", "failed", "events"} : k \notin CleanKinds
      /\ now \in Nat
  BY SeamAssumption DEF Speaks, CleanKinds, Inv, TypeOK, SeamTypeOK
<1>1. CASE PostureReject(now) # "ok"
  <2>1. PostureReject(now) \notin Speaks
    BY <1>0, <1>1, DecisionTypes
  <2> QED BY <1>1, <2>1, SilentRestore DEF DecideAndRestore
<1>2. CASE PostureReject(now) = "ok" /\ Matched(Collected(polled)) = {}
  <2>1. pc' = "idle" /\ outcome'.kind = "failed"
    BY <1>2 DEF DecideAndRestore, Conclude, Outcome
  <2> QED BY <1>0, <2>1, SilentVerdict
<1>3. CASE PostureReject(now) = "ok" /\ Matched(Collected(polled)) # {}
  <2>1. \/ pc' = "idle" /\ outcome'.kind = "error"
        \/ pc' = next /\ outcome'.kind = Decide(Collected(polled)) /\ outcome'.at = now
    BY <1>3 DEF DecideAndRestore, Conclude, Outcome
  <2>2. CASE pc' = "idle" /\ outcome'.kind = "error"
    BY <1>0, <2>2, SilentVerdict
  <2>3. CASE pc' = next /\ outcome'.kind = Decide(Collected(polled)) /\ outcome'.at = now
    <3>1. outcome'.kind \notin CleanKinds
      BY <1>0, <2>3, DecisionTypes
    <3>2. (\A r \in Arms : now <= Lease[r]) /\ (AuthnRequired => request.receipt)
      BY <1>0, <1>3, PostureOk
    <3> QED BY <1>0, <2>3, <3>1, <3>2 DEF Verdict, Covered, Postured
  <2> QED BY <2>1, <2>2, <2>3
<1> QED BY <1>1, <1>2, <1>3

\* No wait has ended, so nothing has been claimed.
LEMMA VerdictInit == Init => Verdict
BY DEF Init, Verdict, Covered, Postured, Speaks, CleanKinds, Outcome

\* Every step keeps what an outcome claims within its leases and deadlines.
LEMMA VerdictStep == Inv /\ Verdict /\ [Next]_vars => Verdict'
<1> SUFFICES ASSUME Inv, Verdict, [Next]_vars PROVE Verdict'
  OBVIOUS
<1> USE DEF seamVars, observerVars
<1>1. now \in Nat /\ outcome.at \in Nat /\ Horizon \in Nat
  BY SeamAssumption DEF Inv, TypeOK, SeamTypeOK
<1>2. \A k \in {"failed", "error", "cancelled", "abandoned", "refused",
                "reauthentication_required", "none"} : k \notin Speaks
  BY DEF Speaks, CleanKinds
<1>3. CASE UNCHANGED vars
  BY <1>3 DEF vars, runnerVars, Verdict, Covered, Postured
<1>4. CASE Environment /\ UNCHANGED runnerVars
  <2>1. now' \in {now, now + 1}
    BY <1>4 DEF Environment, Arrive, Raise, ReleaseHang, Tick, Trigger
  <2> QED BY <1>1, <1>4, <2>1 DEF runnerVars, Verdict, Covered, Postured
<1>5. CASE Caller
  <2>1. CASE StartWait
    BY <2>1 DEF StartWait, Verdict
  <2>2. CASE StartUncited
    <3>1. pc' = "idle" /\ outcome'.kind = "error"
      BY <2>2 DEF StartUncited, Outcome
    <3> QED BY <1>2, <3>1, SilentVerdict
  <2>3. CASE Abandon
    <3>1. pc' = "idle" /\ outcome'.kind = "abandoned"
      BY <2>3 DEF Abandon, Conclude, Outcome
    <3> QED BY <1>2, <3>1, SilentVerdict
  <2> QED BY <1>5, <2>1, <2>2, <2>3 DEF Caller
<1>6. CASE TopCancelled
  <2>1. pc' = "idle" /\ outcome'.kind = "cancelled"
    BY <1>6 DEF TopCancelled, Conclude, Outcome
  <2> QED BY <1>2, <2>1, SilentVerdict
<1>7. CASE TopDeadline
  <2>1. CASE TerminalDeadline(now, Starts) = "failed"
    <3>1. pc' = "idle" /\ outcome'.kind = "failed"
      BY <1>7, <2>1 DEF TopDeadline, Conclude, Outcome
    <3> QED BY <1>2, <3>1, SilentVerdict
  <2>2. CASE TerminalDeadline(now, Starts) # "failed"
    <3>1. /\ pc' = "finish" /\ UNCHANGED <<now, request>>
          /\ outcome'.kind = TerminalDeadline(now, Starts)
          /\ outcome'.at = now /\ outcome'.arms = Starts
      BY <1>7, <2>2 DEF TopDeadline, Outcome
    <3> QED BY <1>1, <3>1, DeadlineCovers DEF Verdict, Covered
  <2> QED BY <2>1, <2>2
<1>8. CASE TopRace \/ PollSleep \/ AllIdle \/ Wake
  <2>1. pc' \notin {"finish", "return", "idle"}
    BY <1>8 DEF TopRace, PollSleep, AllIdle, Wake
  <2> QED BY <2>1 DEF Verdict
<1>9. CASE PollRace
  <2>1. \/ pc' \in {"decide", "cancel"}
        \/ \E q, h, back : RestoreAndConclude(q, h, back, {}, Outcome("error", now, {}, 0))
    BY <1>9 DEF PollRace
  <2> QED BY <1>2, <2>1, SilentRestore DEF Verdict
<1>10. CASE PollCancel
  <2>1. \/ pc' = "sleep"
        \/ RestoreAndConclude(queue, held, Matched(slot), {}, Outcome("cancelled", now, {}, 0))
    BY <1>10 DEF PollCancel
  <2> QED BY <1>2, <2>1, SilentRestore DEF Verdict
<1>11. CASE RaceDecided
  BY <1>11, DecideVerdict DEF RaceDecided
<1>12. CASE DeadlineObserved
  BY <1>12, DecideVerdict DEF DeadlineObserved
<1>13. CASE DeadlineQuiet
  <2> DEFINE kind == TerminalDeadline(now, Starts)
  <2>1. kind \in {"none", "failed", "logical_deadman", "no_change"}
    BY DecisionTypes
  <2>2. CASE kind # "failed" /\ PostureReject(now) # "ok"
    <3>1. pc' = "idle" /\ outcome'.kind = PostureReject(now)
      BY <1>13, <2>2 DEF DeadlineQuiet, Conclude, Outcome
    <3>2. PostureReject(now) \in {"reauthentication_required", "refused"}
      BY <2>2, DecisionTypes
    <3> QED BY <1>2, <3>1, <3>2, SilentVerdict
  <2>3. CASE kind \in {"none", "failed"} /\ ~(kind # "failed" /\ PostureReject(now) # "ok")
    <3>1. pc' = "idle" /\ outcome'.kind = kind
      BY <1>13, <2>3 DEF DeadlineQuiet, Conclude, Outcome
    <3> QED BY <1>2, <2>3, <3>1, SilentVerdict
  <2>4. CASE kind \in CleanKinds /\ PostureReject(now) = "ok"
    <3>1. kind # "failed"
      BY <1>2, <2>4 DEF Speaks
    <3>2. /\ pc' = "idle" /\ outcome'.kind = kind /\ outcome'.at = now /\ outcome'.arms = Starts
          /\ UNCHANGED request
      BY <1>13, <2>4, <3>1 DEF DeadlineQuiet, Conclude, Outcome
    <3>3. Covered'
      BY <2>4, <3>2, DeadlineCovers DEF Covered
    <3>4. Postured'
      BY <1>1, <2>4, <3>2, PostureOk DEF Postured
    <3> QED BY <3>2, <3>3, <3>4 DEF Verdict
  <2> QED BY <2>1, <2>2, <2>3, <2>4 DEF CleanKinds
<1>14. CASE Finish
  <2>1. CASE PostureReject(now) # "ok"
    <3>1. pc' = "idle" /\ outcome'.kind = PostureReject(now)
      BY <1>14, <2>1 DEF Finish, Conclude, Outcome
    <3>2. PostureReject(now) \in {"reauthentication_required", "refused"}
      BY <2>1, DecisionTypes
    <3> QED BY <1>2, <3>1, <3>2, SilentVerdict
  <2>2. CASE PostureReject(now) = "ok"
    <3>1. pc = "finish" /\ pc' = "return" /\ UNCHANGED <<outcome, request>>
      BY <1>14, <2>2 DEF Finish
    <3>2. (\A r \in Arms : outcome.at <= Lease[r]) /\ (AuthnRequired => request.receipt)
      BY <1>1, <2>2, <3>1, PostureOk DEF Verdict
    <3> QED BY <3>1, <3>2 DEF Verdict, Covered, Postured
  <2> QED BY <2>1, <2>2
<1>15. CASE Return
  BY <1>15 DEF Return, Conclude, Verdict, Covered, Postured
<1> QED BY <1>3, <1>4, <1>5, <1>6, <1>7, <1>8, <1>9, <1>10, <1>11, <1>12, <1>13, <1>14, <1>15
           DEF Next, Runner

\* Both invariants at once.
LEMMA VerdictInvariance == Spec => []Verdict
BY InvInit, InvStep, VerdictInit, VerdictStep, PTL DEF Spec

\* An outcome that speaks for the sources is dated within every lease and has
\* the receipt the set demands: finish() reads the clock after the outcome was
\* dated, so what it lets through was within the leases when it was dated.
THEOREM PostureAlwaysHolds == Spec => []PostureHolds
<1>1. Verdict => PostureHolds
  BY DEF Verdict, Postured, PostureHolds, Concluded, Speaks
<1> QED BY VerdictInvariance, <1>1, PTL

\* No wait ends clean without a start cursor for every required arm, or on the
\* wrong side of its logical deadline.
THEOREM CleanIsAlwaysCovered == Spec => []CleanIsCovered
<1>1. Verdict => CleanIsCovered
  BY DEF Verdict, Covered, CleanIsCovered, Concluded
<1> QED BY VerdictInvariance, <1>1, PTL

-----------------------------------------------------------------------------
(* Replay. *)

\* Putting what is later behind what is earlier.
LEMMA LaterBehindEarlier ==
    ASSUME NEW S, S \subseteq Nat, NEW s \in Seq(S), NEW t \in Seq(S), NEW m \in Nat,
           Increasing(s), Increasing(t),
           \A i \in 1..Len(s) : s[i] <= m, \A i \in 1..Len(t) : t[i] > m
    PROVE  Increasing(s \o t)
<1> DEFINE u == s \o t
           n == Len(s)
           k == Len(t)
<1>1. /\ Len(u) = n + k
      /\ \A i \in 1 .. n + k : u[i] = IF i <= n THEN s[i] ELSE t[i - n]
  BY ConcatProperties
<1>2. /\ n \in Nat /\ k \in Nat
      /\ \A i \in 1..n : s[i] \in Nat
      /\ \A i \in 1..k : t[i] \in Nat
  BY LenProperties, ElementOfSeq
<1> HIDE DEF u
<1>3. ASSUME NEW i \in 1 .. n + k, NEW j \in 1 .. n + k, i < j PROVE u[i] < u[j]
  <2>1. CASE j <= n
    <3>1. i \in 1..n /\ j \in 1..n /\ u[i] = s[i] /\ u[j] = s[j]
      BY <1>1, <1>2, <1>3, <2>1
    <3> QED BY <1>3, <3>1 DEF Increasing
  <2>2. CASE i <= n /\ ~(j <= n)
    <3>1. i \in 1..n /\ j - n \in 1..k /\ u[i] = s[i] /\ u[j] = t[j - n]
      BY <1>1, <1>2, <1>3, <2>2
    <3> QED BY <1>2, <3>1
  <2>3. CASE ~(i <= n)
    <3>1. i - n \in 1..k /\ j - n \in 1..k /\ u[i] = t[i - n] /\ u[j] = t[j - n] /\ i - n < j - n
      BY <1>1, <1>2, <1>3, <2>3
    <3> QED BY <3>1 DEF Increasing
  <2> QED BY <2>1, <2>2, <2>3, <1>2
<1> QED BY <1>1, <1>2, <1>3 DEF Increasing

LEMMA StreamIsInOrder ==
    ASSUME Inv, NEW r \in Arms
    PROVE  Increasing(Stream(r))
<1> DEFINE d == delivered[r]
           q == queue[r]
           top == arrived[r] - Len(queue[r])
<1>1. /\ d \in Seq(Event) /\ q \in Seq(Event) /\ Event \subseteq Nat
      /\ held[r] \in 0..MaxEvents /\ arrived[r] \in Nat /\ MaxEvents \in Nat
      /\ Increasing(d) /\ Carried(queue, held, r)
  BY SeamAssumption DEF Inv, TypeOK, SeamTypeOK, Event, Custodial
<1>2. /\ Len(q) \in Nat /\ Len(d) \in Nat
      /\ \A i \in 1..Len(d) : d[i] \in Nat
  BY <1>1, LenProperties, ElementOfSeq
<1>3. top \in Nat
  BY <1>1, <1>2 DEF Carried, Numbered
<1>4. \A i \in 1..Len(q) : q[i] = top + i
  BY <1>1 DEF Carried, Numbered
<1>5. Increasing(q) /\ \A i \in 1..Len(q) : q[i] > top
  BY <1>2, <1>3, <1>4 DEF Increasing
<1>6. CASE held[r] = 0
  <2>1. \A i \in 1..Len(d) : d[i] <= top
    BY <1>1, <1>3, <1>6 DEF Carried
  <2>2. d \o <<>> = d
    BY <1>1, ConcatEmptySeq
  <2>3. Stream(r) = d \o q
    BY <1>6, <2>2 DEF Stream, InHand
  <2> HIDE DEF d, q, top
  <2>4. Increasing(d \o q)
    BY <1>1, <1>3, <1>5, <2>1, LaterBehindEarlier
  <2> QED BY <2>3, <2>4
<1>7. CASE held[r] # 0
  <2> DEFINE b == Append(d, held[r])
  <2>1. held[r] = top /\ held[r] \in Event
    BY <1>1, <1>7 DEF Carried, Event
  <2>2. \A i \in 1..Len(d) : d[i] <= held[r] - 1
    BY <1>1, <1>7, <2>1 DEF Carried
  <2>3. b \in Seq(Event) /\ Increasing(b) /\ \A i \in 1..Len(b) : b[i] <= top
    BY <1>1, <2>1, <2>2, LaterIsLast
  <2>4. d \o <<held[r]>> = b
    BY <1>1, <2>1, AppendIsConcat
  <2>5. Stream(r) = b \o q
    BY <1>7, <2>4 DEF Stream, InHand
  <2> HIDE DEF d, q, top, b
  <2>6. Increasing(b \o q)
    BY <1>1, <1>3, <1>5, <2>3, LaterBehindEarlier
  <2> QED BY <2>5, <2>6
<1> QED BY <1>6, <1>7

\* Later waits receive the events of an arm in the order they were emitted,
\* none of them twice, however often they were taken and given back.
THEOREM ReplayIsInOrder == Spec => []ReplayInOrder
<1>1. Inv => ReplayInOrder
  BY StreamIsInOrder DEF ReplayInOrder, Increasing
<1> QED BY Invariance, <1>1, PTL

-----------------------------------------------------------------------------
(* Custody. *)

\* What is open of arm r when the observer has q and the runner holds h.
Open(q, h, r) == (IF h[r] = 0 THEN <<>> ELSE <<h[r]>>) \o q[r]

\* A step leaves arm r as it is but for the hands its events are in, or loses
\* the event that was, or had just been, in the runner's hand.
Moves(r) == delivered'[r] = delivered[r] /\ Open(queue', held', r) = Open(queue, held, r)
Drops(r) ==
    /\ delivered'[r] = delivered[r]
    /\ held'[r] = 0
    /\ \E e \in Event : Open(queue, held, r) = <<e>> \o queue'[r]

LEMMA OpenIsTyped ==
    ASSUME Inv, NEW r \in Arms
    PROVE  /\ delivered[r] \in Seq(Nat) /\ InHand(r) \in Seq(Nat) /\ queue[r] \in Seq(Nat)
           /\ Open(queue, held, r) = InHand(r) \o queue[r]
           /\ Open(queue, held, r) \in Seq(Nat)
           /\ Stream(r) = delivered[r] \o Open(queue, held, r)
           /\ Stream(r) \in Seq(Nat)
<1>1. /\ delivered[r] \in Seq(Event) /\ queue[r] \in Seq(Event) /\ Event \subseteq Nat
      /\ held[r] \in 0..MaxEvents
  BY SeamAssumption DEF Inv, TypeOK, SeamTypeOK, Event
<1>2. delivered[r] \in Seq(Nat) /\ queue[r] \in Seq(Nat)
  BY <1>1, SeqMonotonic
<1>3. InHand(r) \in Seq(Nat)
  BY <1>1, SeamAssumption, EmptySeq DEF InHand
<1>4. Open(queue, held, r) = InHand(r) \o queue[r]
  BY DEF Open, InHand
<1>5. InHand(r) \o queue[r] \in Seq(Nat) /\ delivered[r] \o InHand(r) \in Seq(Nat)
  BY <1>2, <1>3, ConcatProperties
<1>6. Stream(r) = delivered[r] \o (InHand(r) \o queue[r])
  BY <1>2, <1>3, ThreeInARow, Zenon DEF Stream
<1>7. Stream(r) \in Seq(Nat)
  BY <1>2, <1>5, ConcatProperties DEF Stream
<1> QED BY <1>2, <1>3, <1>4, <1>5, <1>6, <1>7

\* Taking the events of some arms.
LEMMA TakenIsOpen ==
    ASSUME Inv, NEW took \in SUBSET Arms, \A r \in took : held[r] = 0 /\ queue[r] # <<>>,
           NEW r \in Arms
    PROVE  Open(QueueWithout(took), HeldWith(took), r) = Open(queue, held, r)
<1>1. queue[r] \in Seq(Event) /\ held[r] \in 0..MaxEvents
  BY DEF Inv, TypeOK, SeamTypeOK, Event
<1>2. CASE r \in took
  <2>1. /\ QueueWithout(took)[r] = Tail(queue[r]) /\ HeldWith(took)[r] = Head(queue[r])
        /\ held[r] = 0
    BY <1>2 DEF QueueWithout, HeldWith
  <2>2. Head(queue[r]) \in Event /\ Tail(queue[r]) \in Seq(Event)
    BY <1>1, <1>2, HeadTailProperties
  <2>3. Head(queue[r]) # 0
    BY <2>2, SeamAssumption DEF Event
  <2>4. <<Head(queue[r])>> \o Tail(queue[r]) = queue[r]
    BY <1>1, <1>2, HeadOfNonEmpty
  <2>5. <<>> \o queue[r] = queue[r]
    BY <1>1, ConcatEmptySeq
  <2> QED BY <2>1, <2>3, <2>4, <2>5 DEF Open
<1>3. CASE r \notin took
  BY <1>3 DEF QueueWithout, HeldWith, Open
<1> QED BY <1>2, <1>3

\* Giving back the events of some arms, and keeping or losing the others.
LEMMA RestoredIsOpen ==
    ASSUME NEW q, NEW h, Custodial(q, h), NEW back \in SUBSET Arms, \A r \in back : h[r] # 0,
           NEW g \in EventOrNone, \A r \in Arms : g[r] = 0 \/ (g[r] = h[r] /\ r \notin back),
           NEW r \in Arms
    PROVE  /\ h[r] = 0 \/ r \in back \/ g[r] = h[r] =>
                Open(Restored(q, h, back), g, r) = Open(q, h, r)
           /\ h[r] # 0 /\ r \notin back /\ g[r] = 0 =>
                /\ h[r] \in Event
                /\ Open(q, h, r) = <<h[r]>> \o Restored(q, h, back)[r]
<1>1. q[r] \in Seq(Event) /\ h[r] \in 0..MaxEvents /\ MaxEvents \in Nat
  BY SeamAssumption DEF Custodial, EventQueues, EventOrNone
<1>2. Restored(q, h, back)[r] = IF r \in back THEN <<h[r]>> \o q[r] ELSE q[r]
  BY DEF Restored, PushFront
<1>3. CASE r \in back
  <2>1. g[r] = 0 /\ h[r] # 0
    BY <1>3
  <2>2. <<h[r]>> \o q[r] \in Seq(Event)
    BY <1>1, <2>1, ConcatProperties DEF Event
  <2>3. <<>> \o (<<h[r]>> \o q[r]) = <<h[r]>> \o q[r]
    BY <2>2, ConcatEmptySeq
  <2> QED BY <1>2, <1>3, <2>1, <2>3 DEF Open
<1>4. CASE r \notin back
  <2>1. Restored(q, h, back)[r] = q[r]
    BY <1>2, <1>4
  <2>2. CASE g[r] = h[r]
    BY <2>1, <2>2, <1>4 DEF Open
  <2>3. CASE g[r] # h[r]
    <3>1. g[r] = 0 /\ h[r] \in Event
      BY <1>1, <2>3 DEF Event
    <3> QED BY <1>4, <2>1, <2>3, <3>1 DEF Open
  <2> QED BY <2>2, <2>3
<1> QED BY <1>3, <1>4

\* A step that gives back some of what is held by then leaves an arm as it was,
\* unless it neither gives its event back nor keeps it.
LEMMA GivingBackMoves ==
    ASSUME NEW q, NEW h, Custodial(q, h), NEW back \in SUBSET Arms, \A r \in back : h[r] # 0,
           \A r \in Arms : Open(q, h, r) = Open(queue, held, r),
           queue' = Restored(q, h, back), held' \in EventOrNone,
           \A r \in Arms : held'[r] = 0 \/ (held'[r] = h[r] /\ r \notin back),
           UNCHANGED delivered
    PROVE  \A r \in Arms : \/ Moves(r)
                           \/ Drops(r) /\ h[r] # 0 /\ r \notin back /\ held'[r] # h[r]
<1> SUFFICES ASSUME NEW r \in Arms
             PROVE  \/ Moves(r)
                    \/ Drops(r) /\ h[r] # 0 /\ r \notin back /\ held'[r] # h[r]
  OBVIOUS
<1>1. /\ h[r] = 0 \/ r \in back \/ held'[r] = h[r] =>
           Open(queue', held', r) = Open(q, h, r)
      /\ h[r] # 0 /\ r \notin back /\ held'[r] = 0 =>
           h[r] \in Event /\ Open(q, h, r) = <<h[r]>> \o queue'[r]
  BY RestoredIsOpen
<1>2. CASE h[r] = 0 \/ r \in back \/ held'[r] = h[r]
  BY <1>1, <1>2 DEF Moves
<1>3. CASE ~(h[r] = 0 \/ r \in back \/ held'[r] = h[r])
  BY <1>1, <1>3 DEF Drops
<1> QED BY <1>2, <1>3

LEMMA ConcludingMoves ==
    ASSUME NEW q, NEW h, Custodial(q, h), NEW back \in SUBSET Arms,
           \A r \in Arms : h[r] # 0 <=> r \in back,
           \A r \in Arms : Open(q, h, r) = Open(queue, held, r),
           NEW polled, NEW result, RestoreAndConclude(q, h, back, polled, result),
           UNCHANGED delivered
    PROVE  \/ \A r \in Arms : Moves(r)
           \/ outcome'.kind = "error" /\ \A r \in Arms : Moves(r) \/ Drops(r)
<1>1. NothingHeld \in EventOrNone /\ \A r \in Arms : NothingHeld[r] = 0
  BY NothingHeldType DEF NothingHeld
<1>2. CASE queue' = Restored(q, h, back) /\ Conclude(result)
  <2>1. held' = NothingHeld
    BY <1>2 DEF Conclude
  <2> QED BY <1>1, <1>2, <2>1, GivingBackMoves
<1>3. ASSUME NEW f \in RestoreFailures(back),
             queue' = Restored(q, h, GivenBackBefore(f, back, polled)),
             Conclude(Outcome("error", now, {}, 0))
      PROVE  outcome'.kind = "error" /\ \A r \in Arms : Moves(r) \/ Drops(r)
  <2>1. held' = NothingHeld /\ outcome'.kind = "error"
    BY <1>3 DEF Conclude, Outcome
  <2>2. GivenBackBefore(f, back, polled) \in SUBSET back
    BY DEF GivenBackBefore
  <2> HIDE DEF Custodial
  <2> QED BY <1>1, <1>3, <2>1, <2>2, GivingBackMoves
<1> QED BY <1>2, <1>3 DEF RestoreAndConclude

\* The same of a decision: what it does not hand on goes back.
LEMMA DecidingMoves ==
    ASSUME Inv, NEW polled \in SUBSET Arms, \A r \in polled : held[r] = 0,
           \A r \in Arms \ polled : slot[r] = "event" <=> held[r] # 0,
           NEW starts, NEW next, Decide(Collected(polled)) # "none",
           DecideAndRestore(polled, now, starts, next), UNCHANGED delivered
    PROVE  \/ \A r \in Arms : Moves(r)
           \/ outcome'.kind = "error" /\ \A r \in Arms : Moves(r) \/ Drops(r)
<1> DEFINE ready == Collected(polled)
           took == TakenBy(polled)
           matched == Matched(ready)
           q == QueueWithout(took)
           h == HeldWith(took)
           winner == EventWinner(matched)
           losers == matched \ {winner}
<1>1. Custodial(q, h) /\ \A r \in matched : h[r] # 0
  BY MatchedIsHeld
<1>2. /\ matched \in SUBSET Arms /\ took \in SUBSET polled
      /\ \A r \in Arms : ready[r] = IF r \in polled THEN ReadyAnswer(r) ELSE slot[r]
      /\ \A r \in Arms : r \in matched <=> ready[r] = "event"
  BY DEF Matched, Collected, TakenBy
<1>3. \A r \in Arms : h[r] # 0 <=> r \in matched
  <2> SUFFICES ASSUME NEW r \in Arms, h[r] # 0 PROVE r \in matched
    BY <1>1
  <2>1. CASE r \in polled
    BY <2>1, <1>2 DEF HeldWith, TakenBy
  <2>2. CASE r \notin polled
    <3>1. h[r] = held[r]
      BY <2>2, <1>2 DEF HeldWith
    <3> QED BY <2>2, <3>1, <1>2
  <2> QED BY <2>1, <2>2
<1>4. \A r \in Arms : Open(q, h, r) = Open(queue, held, r)
  <2>1. \A r \in took : held[r] = 0 /\ queue[r] # <<>>
    BY SeamAssumption DEF TakenBy, ReadyAnswer, Due, Inv, TypeOK, SeamTypeOK, AllSignals
  <2> QED BY <1>2, <2>1, TakenIsOpen
<1>5. NothingHeld \in EventOrNone /\ \A r \in Arms : NothingHeld[r] = 0
  BY NothingHeldType DEF NothingHeld
<1> HIDE DEF ready, matched, q, h, took
<1>6. CASE PostureReject(now) # "ok"
  <2>1. RestoreAndConclude(q, h, matched, polled, Outcome(PostureReject(now), now, {}, 0))
    BY <1>6 DEF DecideAndRestore, q, h, matched, ready, took
  <2> QED BY <1>1, <1>2, <1>3, <1>4, <2>1, ConcludingMoves
<1>7. CASE PostureReject(now) = "ok" /\ matched = {}
  <2>1. queue' = q /\ held' = NothingHeld
    BY <1>7 DEF DecideAndRestore, Conclude, q, matched, ready, took
  <2>2. ASSUME NEW r \in Arms PROVE Moves(r)
    <3>1. h[r] = 0
      BY <1>3, <1>7
    <3>2. Open(queue', held', r) = Open(q, h, r)
      BY <1>5, <2>1, <3>1 DEF Open
    <3> QED BY <1>4, <3>2 DEF Moves
  <2> QED BY <2>2
<1>8. CASE PostureReject(now) = "ok" /\ matched # {}
  <2>1. winner \in matched
    BY <1>2, <1>8, WinnerIsEarliest
  <2>2. losers \in SUBSET Arms /\ losers \subseteq matched /\ \A r \in losers : h[r] # 0
    BY <1>1, <1>2
  <2>3. \A r \in Arms : r \in matched <=> r = winner \/ r \in losers
    BY <2>1
  <2>4. winner \notin losers
    OBVIOUS
  <2> HIDE DEF winner, losers
  <2>5. ASSUME queue' = Restored(q, h, losers), held' = [NothingHeld EXCEPT ![winner] = h[winner]]
        PROVE  \A r \in Arms : Moves(r)
    <3>1. \A r \in Arms : held'[r] = IF r = winner THEN h[winner] ELSE 0
      BY <2>5 DEF NothingHeld
    <3>2. held' \in EventOrNone
      <4>1. h \in EventOrNone /\ winner \in Arms
        BY <1>1, <1>2, <2>1 DEF Custodial
      <4> QED BY <1>5, <2>5, <4>1 DEF EventOrNone
    <3>3. \A r \in Arms : held'[r] = 0 \/ (held'[r] = h[r] /\ r \notin losers)
      BY <2>4, <3>1
    <3>4. \A r \in Arms : h[r] # 0 => r \in losers \/ held'[r] = h[r]
      BY <1>3, <2>3, <3>1
    <3>5. Custodial(q, h) /\ queue' = Restored(q, h, losers)
      BY <1>1, <2>5
    <3>6. \A r \in Arms : Moves(r) \/ (h[r] # 0 /\ r \notin losers /\ held'[r] # h[r])
      BY <1>4, <2>2, <3>2, <3>3, <3>5, GivingBackMoves
    <3> QED BY <3>4, <3>6
  <2>6. ASSUME NEW f \in RestoreFailures(losers),
               queue' = Restored(q, h, GivenBackBefore(f, losers, polled)),
               Conclude(Outcome("error", now, {}, 0))
        PROVE  outcome'.kind = "error" /\ \A r \in Arms : Moves(r) \/ Drops(r)
    <3>1. held' = NothingHeld /\ outcome'.kind = "error"
      BY <2>6 DEF Conclude, Outcome
    <3>2. GivenBackBefore(f, losers, polled) \in SUBSET losers
      BY DEF GivenBackBefore
    <3> QED BY <1>1, <1>4, <1>5, <2>2, <2>6, <3>1, <3>2, GivingBackMoves
  <2> QED BY <1>8, <2>5, <2>6 DEF DecideAndRestore, ready, matched, q, h, took, winner, losers
<1> QED BY <1>6, <1>7, <1>8

\* Custody's Keeping is the one of Lists.
LEMMA KeepingSeen ==
    ASSUME NEW s, NEW S
    PROVE  Seen!Keeping(s, S) = Keeping(s, S)
BY DEF Seen!Keeping, Keeping

LEMMA HandingSeen ==
    ASSUME NEW r \in Arms, Handing(delivered[r], Stream(r), delivered'[r], Stream(r)')
    PROVE  Seen!Move(r)
BY Zenon DEF Seen!Move, Seen!Extends, Seen!Stream, Handing, Begins, Stream

LEMMA OpenIsTypedNext ==
    ASSUME Inv', NEW r \in Arms
    PROVE  /\ delivered'[r] \in Seq(Nat) /\ queue'[r] \in Seq(Nat)
           /\ Stream(r)' = delivered'[r] \o Open(queue', held', r)
           /\ Stream(r)' \in Seq(Nat)
<1> DEFINE d == delivered'[r]
           q == queue'[r]
           h == IF held'[r] = 0 THEN <<>> ELSE <<held'[r]>>
<1>1. /\ d \in Seq(Event) /\ q \in Seq(Event) /\ Event \subseteq Nat
      /\ held'[r] \in 0..MaxEvents
  BY SeamAssumption DEF Inv, TypeOK, SeamTypeOK, Event
<1>2. d \in Seq(Nat) /\ q \in Seq(Nat) /\ h \in Seq(Nat)
  <2>1. d \in Seq(Nat) /\ q \in Seq(Nat)
    BY <1>1, SeqMonotonic
  <2>2. h \in Seq(Nat)
    BY <1>1, SeamAssumption, EmptySeq
  <2> QED BY <2>1, <2>2
<1>3. /\ Stream(r)' = d \o h \o q
      /\ Open(queue', held', r) = h \o q
  BY DEF Stream, InHand, Open
<1> HIDE DEF d, q, h
<1>4. d \o h \o q = d \o (h \o q)
  BY <1>2, ThreeInARow, Zenon
<1>5. d \o (h \o q) \in Seq(Nat)
  BY <1>2, ConcatProperties
<1> QED BY <1>2, <1>3, <1>4, <1>5 DEF d, h, q

LEMMA MovesSeen ==
    ASSUME Inv, Inv', NEW r \in Arms, Moves(r)
    PROVE  Seen!Move(r)
<1>1. /\ delivered[r] \in Seq(Nat) /\ Stream(r) \in Seq(Nat)
      /\ Stream(r) = delivered[r] \o Open(queue, held, r)
  BY OpenIsTyped
<1>2. Stream(r)' = delivered'[r] \o Open(queue', held', r)
  BY OpenIsTypedNext
<1>3. delivered'[r] = delivered[r] /\ Stream(r)' = Stream(r)
  BY <1>1, <1>2, Zenon DEF Moves
<1>4. Handing(delivered[r], Stream(r), delivered'[r], Stream(r)')
  BY <1>1, <1>3, StaysPut
<1> QED BY <1>4, HandingSeen

LEMMA DropsSeen ==
    ASSUME Inv, NEW r \in Arms, queue'[r] \in Seq(Nat), Drops(r)
    PROVE  Seen!Lose(r)
<1> DEFINE d == delivered[r]
           o == Open(queue, held, r)
           p == queue'[r]
<1>1. /\ d \in Seq(Nat) /\ o \in Seq(Nat) /\ o = InHand(r) \o queue[r]
      /\ Stream(r) = d \o o
  BY OpenIsTyped
<1>2. PICK e \in Event : o = <<e>> \o p
  BY DEF Drops
<1> DEFINE one == <<e>>
<1>3. one \in Seq(Nat) /\ p \in Seq(Nat) /\ o = one \o p
  BY <1>2, SeamAssumption DEF Event
<1>4. Increasing(d \o o)
  BY <1>1, StreamIsInOrder
<1> HIDE DEF d, o, one
<1>5. Increasing(o)
  BY <1>1, <1>4, IncreasingParts
<1>6. Keeping(one, {}) = <<>> /\ <<>> \o p = p
  BY <1>3, KeepingNone, ConcatEmptySeq
<1>7. Losing(d, o, d, <<>>, p)
  <2>1. Losing(d, one \o p, d, <<>>, Keeping(one, {}) \o p)
    BY <1>3, <1>5, Loses
  <2> QED BY <1>3, <1>6, <2>1, Zenon
<1>8. p = Keeping(o, Elements(p))
  BY <1>7 DEF Losing
<1>9. Seen!Keeping(o, Elements(p)) = Keeping(o, Elements(p))
  BY KeepingSeen
<1>10. held'[r] = 0 /\ delivered'[r] = d
  BY DEF Drops, d
<1>11. InHand(r)' = <<>>
  BY <1>10 DEF InHand
<1>12. queue'[r] = Seen!Keeping(InHand(r) \o queue[r], {queue'[r][i] : i \in 1..Len(queue'[r])})
  BY <1>1, <1>8, <1>9 DEF Elements
<1> QED BY <1>10, <1>11, <1>12 DEF Seen!Lose, d

LEMMA StreamsInOrder == Inv => \A r \in Arms : Increasing(Stream(r))
BY StreamIsInOrder

LEMMA StreamsInOrderNext == Inv' => \A r \in Arms : Increasing(Stream(r)')
<1>1. Inv' => (\A r \in Arms : Increasing(Stream(r)))'
  BY StreamsInOrder, PTL
<1> QED BY <1>1 DEF Increasing

\* The source emits an event later than all it emitted before; an outcome hands
\* over the event that was in hand.
LEMMA ArrivesSeen ==
    ASSUME Inv, Inv', NEW r \in Arms, Arrive(r), UNCHANGED <<held, delivered>>
    PROVE  \A a \in Arms : Seen!Move(a)
<1>1. /\ \A a \in Arms : queue'[a] = IF a = r THEN Append(queue[r], arrived[r] + 1) ELSE queue[a]
      /\ arrived[r] + 1 \in Nat
  BY DEF Arrive, Inv, TypeOK, SeamTypeOK
<1>2. ASSUME NEW a \in Arms, a # r PROVE Seen!Move(a)
  BY <1>1, <1>2, MovesSeen DEF Moves, Open
<1>3. Seen!Move(r)
  <2> DEFINE d == delivered[r]
             h == InHand(r)
             q == queue[r]
             e == arrived[r] + 1
             s == Stream(r)
             t == Stream(r)'
  <2>1. d \in Seq(Nat) /\ h \in Seq(Nat) /\ q \in Seq(Nat) /\ e \in Nat /\ s \in Seq(Nat)
    BY <1>1, OpenIsTyped
  <2>2. s = d \o h \o q /\ t = d \o h \o Append(q, e)
    BY <1>1 DEF Stream, InHand
  <2>3. t \in Seq(Nat) /\ Increasing(t)
    BY OpenIsTypedNext, StreamsInOrderNext
  <2> HIDE DEF d, h, q, e, s, t
  <2>4. t = Append(s, e)
    <3>1. d \o h \in Seq(Nat)
      BY <2>1, ConcatProperties
    <3> QED BY <2>1, <2>2, <3>1, LaterInARow, Zenon
  <2>5. \A a \in Elements(s) : a < e
    BY <2>1, <2>3, <2>4, IncreasingAppend
  <2>6. Handing(d, s, d, t)
    BY <2>1, <2>4, <2>5, Arrives
  <2> QED BY <2>6, HandingSeen DEF d, s, t
<1> QED BY <1>2, <1>3

LEMMA ReturnSeen ==
    ASSUME Inv, Inv', Return, NEW r \in Arms
    PROVE  Seen!Move(r)
<1> DEFINE d == delivered[r]
           x == InHand(r)
           q == queue[r]
           s == Stream(r)
<1>1. d \in Seq(Nat) /\ x \in Seq(Nat) /\ q \in Seq(Nat) /\ s \in Seq(Nat) /\ s = d \o (x \o q)
  BY OpenIsTyped
<1>2. delivered'[r] = d \o x
  <2>1. CASE held[r] = 0
    BY <1>1, <2>1, ConcatEmptySeq DEF Return, InHand
  <2>2. CASE held[r] # 0
    <3>1. held[r] \in Nat /\ x = <<held[r]>>
      BY <2>2, SeamAssumption DEF Inv, TypeOK, InHand
    <3>2. Append(d, held[r]) = d \o <<held[r]>>
      BY <1>1, <3>1, AppendIsConcat
    <3> QED BY <2>2, <3>1, <3>2 DEF Return
  <2> QED BY <2>1, <2>2
<1>3. Stream(r)' = s
  <2>1. /\ Stream(r)' = delivered'[r] \o Open(queue', held', r)
        /\ Open(queue', held', r) = <<>> \o q
    BY OpenIsTypedNext DEF Return, Conclude, NothingHeld, seamVars, Open
  <2> HIDE DEF d, x, q, s
  <2>2. (d \o x) \o (<<>> \o q) = d \o (x \o q)
    BY <1>1, HandedOver, Zenon
  <2> QED BY <1>1, <1>2, <2>1, <2>2, Zenon
<1> HIDE DEF d, x, q, s
<1>4. Handing(d, s, delivered'[r], Stream(r)')
  BY <1>1, <1>2, <1>3, HandsOver
<1> QED BY <1>4, HandingSeen DEF d, s

\* A step that leaves alone what is where.
LEMMA AloneMoves ==
    ASSUME UNCHANGED <<queue, held, delivered>>
    PROVE  \A r \in Arms : Moves(r)
BY DEF Moves, Open

\* A wait that ends holding nothing.
LEMMA EmptyHandedMoves ==
    ASSUME held = NothingHeld, NEW result, Conclude(result), UNCHANGED <<queue, delivered>>
    PROVE  \A r \in Arms : Moves(r)
BY AloneMoves DEF Conclude

\* One poll of the race gives back all it took if an arm fails.
LEMMA PollRaceMoves ==
    ASSUME Inv, PollRace
    PROVE  \/ \A r \in Arms : Moves(r)
           \/ outcome'.kind = "error" /\ \A r \in Arms : Moves(r) \/ Drops(r)
<1> DEFINE asked == {r \in bindable : slot[r] = "pending"}
           answered == {r \in asked : NextAnswer(r) # "none"}
           took == {r \in answered : NextAnswer(r) = "event"}
           slots == [r \in Arms |-> IF r \in answered THEN NextAnswer(r) ELSE slot[r]]
           h == HeldWith(took)
           q == QueueWithout(took)
<1>1. took \in SUBSET Arms /\ pc = "race" /\ UNCHANGED delivered
  BY DEF PollRace, Inv, TypeOK, SeamTypeOK
<1>2. \A r \in Arms : held[r] # 0 <=> slot[r] = "event"
  BY <1>1 DEF Inv, SlotsTell
<1>3. \A r \in took : held[r] = 0 /\ queue[r] # <<>>
  BY <1>1, <1>2, SeamAssumption DEF NextAnswer, Due, Inv, TypeOK, SeamTypeOK, AllSignals
<1>4. Custodial(q, h)
  BY <1>1, <1>3, TakeCarries DEF Inv
<1>5. \A r \in Arms : Open(q, h, r) = Open(queue, held, r)
  BY <1>1, <1>3, TakenIsOpen
<1>6. ASSUME NEW r \in Arms PROVE h[r] # 0 <=> r \in Matched(slots)
  <2>1. CASE r \in took
    <3>1. h[r] = Head(queue[r]) /\ slots[r] = "event"
      BY <2>1 DEF HeldWith
    <3>2. queue[r] \in Seq(Event) /\ queue[r] # <<>>
      BY <1>3, <2>1 DEF Inv, TypeOK, SeamTypeOK, Event
    <3>3. Head(queue[r]) \in Event
      BY <3>2, HeadTailProperties
    <3> QED BY <3>1, <3>3 DEF Event, Matched
  <2>2. CASE r \notin took
    BY <1>2, <2>2 DEF HeldWith, Matched
  <2> QED BY <2>1, <2>2
<1> HIDE DEF asked, answered, took, slots, h, q
<1>7. CASE \E r \in Arms : slots[r] = "error"
  <2>1. RestoreAndConclude(q, h, Matched(slots), {}, Outcome("error", now, {}, 0))
    BY <1>7 DEF PollRace, asked, answered, took, slots, h, q
  <2>2. Matched(slots) \in SUBSET Arms
    BY DEF Matched
  <2> QED BY <1>1, <1>4, <1>5, <1>6, <2>1, <2>2, ConcludingMoves
<1>8. CASE ~\E r \in Arms : slots[r] = "error"
  <2>1. held' = h /\ queue' = q
    BY <1>8 DEF PollRace, asked, answered, took, slots, h, q
  <2> QED BY <1>1, <1>5, <2>1 DEF Moves
<1> QED BY <1>7, <1>8

\* The steps that decide.
LEMMA DecisionMoves ==
    ASSUME Inv, RaceDecided \/ DeadlineObserved
    PROVE  \/ \A r \in Arms : Moves(r)
           \/ outcome'.kind = "error" /\ \A r \in Arms : Moves(r) \/ Drops(r)
<1>1. CASE RaceDecided
  <2> DEFINE starts == IF bound THEN Arms ELSE {r \in Arms : slot[r] # "pending"}
  <2>1. Unanswered \in SUBSET Arms
    BY DEF Unanswered
  <2>2. /\ \A r \in Unanswered : held[r] = 0
        /\ \A r \in Arms \ Unanswered : slot[r] = "event" <=> held[r] # 0
    BY <1>1 DEF RaceDecided, Unanswered, Inv, SlotsTell
  <2>3. /\ DecideAndRestore(Unanswered, now, starts, "finish")
        /\ Decide(Collected(Unanswered)) # "none" /\ UNCHANGED delivered
    BY <1>1 DEF RaceDecided
  <2> HIDE DEF starts
  <2> QED BY <2>1, <2>2, <2>3, DecidingMoves
<1>2. CASE DeadlineObserved
  <2>1. LastLook \in SUBSET Arms
    BY DEF LastLook
  <2>2. \A r \in Arms : held[r] = 0 /\ slot[r] # "event"
    BY <1>2 DEF DeadlineObserved, Inv, AwaitsHoldNothing, SlotsTell, NothingHeld
  <2>3. /\ DecideAndRestore(LastLook, now, Arms, "return")
        /\ Decide(Collected(LastLook)) # "none" /\ UNCHANGED delivered
    BY <1>2 DEF DeadlineObserved
  <2> QED BY <2>1, <2>2, <2>3, DecidingMoves
<1> QED BY <1>1, <1>2

\* An event on its way through finish() is of a wait with the receipt the set
\* demands: what finish() can still object to is a lease that ended since.
Vouched == pc = "finish" /\ held # NothingHeld => (AuthnRequired => request.receipt)

LEMMA VouchedStep ==
    ASSUME Inv, Vouched, [Next]_vars
    PROVE  Vouched'
<1> USE DEF seamVars, observerVars
<1>1. CASE UNCHANGED vars \/ (Environment /\ UNCHANGED runnerVars)
  BY <1>1 DEF vars, runnerVars, Vouched, NothingHeld
<1>2. CASE Caller
  BY <1>2 DEF Caller, StartWait, StartUncited, Abandon, Conclude, Inv, AwaitsHoldNothing, Vouched,
              NothingHeld
<1>3. CASE TopDeadline
  <2>1. held' = NothingHeld
    BY <1>3 DEF TopDeadline, Conclude, Inv, AwaitsHoldNothing
  <2> QED BY <2>1 DEF Vouched, NothingHeld
<1>4. CASE PollRace \/ PollCancel
  <2>1. pc' # "finish"
    BY <1>4 DEF PollRace, PollCancel, RestoreAndConclude, Conclude
  <2> QED BY <2>1 DEF Vouched
<1>5. CASE RaceDecided \/ DeadlineObserved
  <2>1. PICK polled, starts, next :
            DecideAndRestore(polled, now, starts, next) /\ UNCHANGED request
    BY <1>5 DEF RaceDecided, DeadlineObserved
  <2>2. CASE PostureReject(now) = "ok"
    BY <2>1, <2>2 DEF PostureReject, Vouched
  <2>3. CASE PostureReject(now) # "ok"
    BY <2>1, <2>3 DEF DecideAndRestore, RestoreAndConclude, Conclude, Vouched
  <2> QED BY <2>2, <2>3
<1>6. CASE TopCancelled \/ TopRace \/ PollSleep \/ AllIdle \/ Wake \/ DeadlineQuiet \/ Finish \/ Return
  <2>1. pc' # "finish"
    BY <1>6 DEF TopCancelled, TopRace, PollSleep, AllIdle, Wake, DeadlineQuiet, Finish, Return, Conclude
  <2> QED BY <2>1 DEF Vouched
<1> QED BY <1>1, <1>2, <1>3, <1>4, <1>5, <1>6 DEF Next, Runner

\* A lease ended on the way out: finish() drops what the decision had taken.
FindsLate == Finish /\ \E r \in Arms : now > Lease[r]
LateLease == FindsLate /\ \A r \in Arms : Seen!Move(r) \/ Seen!Lose(r)

\* What every step does to the arms.

LEMMA StepKeepsCustody ==
    ASSUME Inv, Inv', Vouched, [Next]_vars
    PROVE  \/ \A r \in Arms : Seen!Move(r)
           \/ outcome'.kind = "error" /\ \A r \in Arms : Seen!Move(r) \/ Seen!Lose(r)
           \/ LateLease
<1> USE DEF seamVars, observerVars
<1>1. \/ \A r \in Arms : Seen!Move(r)
      \/ \A r \in Arms : Moves(r)
      \/ outcome'.kind = "error" /\ \A r \in Arms : Moves(r) \/ Drops(r)
      \/ FindsLate /\ \A r \in Arms : Moves(r) \/ Drops(r)
  <2>1. CASE UNCHANGED vars
    BY <2>1, AloneMoves DEF vars, runnerVars
  <2>2. CASE Environment /\ UNCHANGED runnerVars
    <3>1. CASE \E r \in Arms : Arrive(r)
      BY <2>2, <3>1, ArrivesSeen DEF runnerVars
    <3>2. CASE ~\E r \in Arms : Arrive(r)
      <4>1. UNCHANGED <<queue, held, delivered>>
        BY <2>2, <3>2 DEF Environment, Raise, ReleaseHang, Tick, Trigger, runnerVars
      <4> QED BY <4>1, AloneMoves
    <3> QED BY <3>1, <3>2
  <2>3. CASE StartWait \/ StartUncited \/ TopRace \/ PollSleep \/ AllIdle \/ Wake
    <3>1. UNCHANGED <<queue, held, delivered>>
      BY <2>3 DEF StartWait, StartUncited, TopRace, PollSleep, AllIdle, Wake
    <3> QED BY <3>1, AloneMoves
  <2>4. CASE Abandon \/ TopCancelled \/ TopDeadline \/ DeadlineQuiet
    <3>1. held = NothingHeld /\ UNCHANGED <<queue, delivered>> /\ held' \in {held, NothingHeld}
      BY <2>4 DEF Abandon, TopCancelled, TopDeadline, DeadlineQuiet, Conclude, Inv,
                  AwaitsHoldNothing
    <3> QED BY <3>1, AloneMoves
  <2>5. CASE PollRace
    BY <2>5, PollRaceMoves
  <2>6. CASE PollCancel
    <3>1. CASE cancelled
      <4>1. /\ RestoreAndConclude(queue, held, Matched(slot), {}, Outcome("cancelled", now, {}, 0))
            /\ UNCHANGED delivered
        BY <2>6, <3>1 DEF PollCancel
      <4>2. /\ Matched(slot) \in SUBSET Arms
            /\ \A r \in Arms : held[r] # 0 <=> r \in Matched(slot)
        BY <2>6 DEF Matched, PollCancel, Inv, SlotsTell
      <4>3. Custodial(queue, held)
        BY DEF Inv
      <4> QED BY <4>1, <4>2, <4>3, ConcludingMoves
    <3>2. CASE ~cancelled
      <4>1. UNCHANGED <<queue, held, delivered>>
        BY <2>6, <3>2 DEF PollCancel
      <4> QED BY <4>1, AloneMoves
    <3> QED BY <3>1, <3>2
  <2>7. CASE RaceDecided \/ DeadlineObserved
    BY <2>7, DecisionMoves
  <2>8. CASE Finish
    <3>1. CASE PostureReject(now) = "ok" \/ held = NothingHeld
      <4>1. UNCHANGED <<queue, held, delivered>>
        BY <2>8, <3>1 DEF Finish, Conclude
      <4> QED BY <4>1, AloneMoves
    <3>2. CASE PostureReject(now) # "ok" /\ held # NothingHeld
      <4>1. FindsLate
        BY <2>8, <3>2 DEF Finish, PostureReject, Vouched, FindsLate
      <4>2. UNCHANGED <<queue, delivered>> /\ held' = NothingHeld
        BY <2>8, <3>2 DEF Finish, Conclude
      <4>3. ASSUME NEW r \in Arms PROVE Moves(r) \/ Drops(r)
        <5>1. CASE held[r] = 0
          BY <4>2, <5>1 DEF Moves, Open, NothingHeld
        <5>2. CASE held[r] # 0
          <6>1. held \in EventOrNone
            BY DEF Inv, TypeOK, EventOrNone
          <6>2. held[r] \in Event
            BY <5>2, <6>1, SeamAssumption DEF EventOrNone, Event
          <6> QED BY <4>2, <5>2, <6>2 DEF Drops, Open, NothingHeld
        <5> QED BY <5>1, <5>2
      <4> QED BY <4>1, <4>3
    <3> QED BY <3>1, <3>2
  <2>9. CASE Return
    BY <2>9, ReturnSeen
  <2> QED BY <2>1, <2>2, <2>3, <2>4, <2>5, <2>6, <2>7, <2>8, <2>9 DEF Next, Caller, Runner
<1>2. \A r \in Arms : queue'[r] \in Seq(Nat)
  BY OpenIsTypedNext
<1>3. \A r \in Arms : /\ Moves(r) => Seen!Move(r)
                      /\ Drops(r) => Seen!Lose(r)
  BY <1>2, MovesSeen, DropsSeen
<1> QED BY <1>1, <1>3 DEF LateLease

LEMMA CustodyInit == Init => Seen!Init
BY DEF Init, SeamInit, Outcome, Seen!Init, InHand, NothingHeld

\* Events are handed on, given back and received without being reordered,
\* duplicated or taken back, and are lost only with Err (restore_ready fails
\* closed) or by the one step in which finish() finds that a lease ended since
\* the decision: it drops what was taken with the outcome it replaces, and
\* disturbs nothing else.
THEOREM OnlyALateLeaseLoses == Spec => Seen!Init /\ [][Seen!Next \/ LateLease]_vars
<1>1. Init => Vouched
  BY DEF Init, Vouched
<1>2. Inv /\ Vouched /\ [Next]_vars => Vouched'
  BY VouchedStep
<1>3. Inv /\ Inv' /\ Vouched /\ [Next]_vars => Seen!Next \/ LateLease
  BY StepKeepsCustody DEF Seen!Next
<1> QED BY <1>1, <1>2, <1>3, CustodyInit, Invariance, PTL DEF Spec

\* With leases that outlast every run, the runner keeps the seam's promise.
THEOREM CustodyIsKept ==
    ASSUME \A r \in Arms : Lease[r] >= Horizon
    PROVE  Spec => KeepsCustody
<1>1. Inv => ~LateLease
  BY SeamAssumption DEF Inv, TypeOK, SeamTypeOK, LateLease, FindsLate
<1>2. Spec => Seen!Init /\ [][Seen!Next]_vars
  BY <1>1, Invariance, OnlyALateLeaseLoses, PTL
<1>3. [Seen!Next]_vars => [Seen!Next]_(Seen!custodyVars)
  BY DEF vars, seamVars, runnerVars, Seen!custodyVars, InHand
<1> QED BY <1>2, <1>3, PTL DEF KeepsCustody, Seen!Spec

-----------------------------------------------------------------------------
(* Decisions.                                                              *)

\* Until a wait has decided there is no outcome.
Undecided == pc \notin {"idle", "finish", "return"} => outcome = Outcome("none", 0, {}, 0)

LEMMA UndecidedStep ==
    ASSUME Inv, Undecided, [Next]_vars
    PROVE  Undecided'
<1>1. CASE UNCHANGED vars \/ (Environment /\ UNCHANGED runnerVars)
  BY <1>1 DEF vars, runnerVars, Undecided
<1>2. CASE Caller
  BY <1>2 DEF Caller, StartWait, StartUncited, Abandon, Conclude, Undecided
<1>3. CASE PollRace \/ PollCancel
  BY <1>3 DEF PollRace, PollCancel, RestoreAndConclude, Conclude, Undecided
<1>4. CASE RaceDecided
  <2>1. PICK polled, starts : DecideAndRestore(polled, now, starts, "finish")
    BY <1>4 DEF RaceDecided
  <2>2. pc' \in {"idle", "finish"}
    BY <2>1 DEF DecideAndRestore, RestoreAndConclude, Conclude
  <2> QED BY <2>2 DEF Undecided
<1>5. CASE DeadlineObserved
  <2>1. PICK polled, starts : DecideAndRestore(polled, now, starts, "return")
    BY <1>5 DEF DeadlineObserved
  <2>2. pc' \in {"idle", "return"}
    BY <2>1 DEF DecideAndRestore, RestoreAndConclude, Conclude
  <2> QED BY <2>2 DEF Undecided
<1>6. CASE TopCancelled \/ TopDeadline \/ TopRace \/ PollSleep \/ AllIdle \/ Wake
  BY <1>6 DEF TopCancelled, TopDeadline, TopRace, PollSleep, AllIdle, Wake, Conclude, Undecided
<1>7. CASE DeadlineQuiet \/ Finish \/ Return
  BY <1>7 DEF DeadlineQuiet, Finish, Return, Conclude, Undecided
<1> QED BY <1>1, <1>2, <1>3, <1>4, <1>5, <1>6, <1>7 DEF Next, Runner

LEMMA UndecidedInvariance == Spec => []Undecided
<1>1. Init => Undecided
  BY DEF Init, Undecided
<1> QED BY <1>1, UndecidedStep, Invariance, PTL DEF Spec

\* The steps that leave "decide" or "deadline" with something new to say.
LEMMA DecidingSteps ==
    ASSUME pc \in {"decide", "deadline"}, [Next]_vars
    PROVE  \/ outcome' = outcome
           \/ pc' = "idle" /\ (Abandon \/ DeadlineQuiet)
           \/ RaceDecided \/ DeadlineObserved
BY DEF Next, Caller, Runner, vars, runnerVars, StartWait, StartUncited, Abandon, TopCancelled,
       TopDeadline, TopRace, PollRace, PollCancel, PollSleep, AllIdle, Wake, DeadlineQuiet, Finish,
       Return, Conclude

\* What a decision that goes on is about.
LEMMA DecidedWinner ==
    ASSUME NEW polled, NEW starts, NEW next, Decide(Collected(polled)) # "none",
           DecideAndRestore(polled, now, starts, next), pc' # "idle", NEW w \in Arms, outcome'.winner = w
    PROVE  \A r \in Arms : r < w => Collected(polled)[r] # "event"
<1> DEFINE matched == Matched(Collected(polled))
<1>1. matched # {} /\ outcome'.winner = EventWinner(matched)
  BY DEF DecideAndRestore, RestoreAndConclude, Conclude, Outcome
<1>2. matched \in SUBSET Arms
  BY DEF Matched
<1> HIDE DEF matched
<1>3. w \in matched /\ \A r \in matched : w <= r
  BY <1>1, <1>2, WinnerIsEarliest
<1>4. \A r \in Arms : r < w => r \notin matched
  BY <1>3, SeamAssumption DEF Arms
<1> QED BY <1>4 DEF matched, Matched

\* TIE_RULE: of the arms with an event in hand or due in the deciding round, the
\* first in the set wins.
THEOREM EarliestArmWins == Spec => TieRule
<1> DEFINE Ties == \A w \in Arms :
         pc \in {"decide", "deadline"} /\ pc' # "idle" /\ outcome'.winner = w =>
           \A r \in 1 .. w - 1 :
             /\ slot[r] # "event"
             /\ bound /\ (slot[r] = "pending" \/ pc = "deadline") => ReadyAnswer(r) # "event"
<1>1. ASSUME Inv, Undecided, [Next]_vars PROVE Ties
  <2> SUFFICES ASSUME NEW w \in Arms, pc \in {"decide", "deadline"}, pc' # "idle",
                      outcome'.winner = w, NEW r \in 1 .. w - 1
               PROVE  /\ slot[r] # "event"
                      /\ bound /\ (slot[r] = "pending" \/ pc = "deadline") => ReadyAnswer(r) # "event"
    OBVIOUS
  <2>1. r \in Arms /\ r < w /\ w # 0
    BY SeamAssumption DEF Arms
  <2>2. outcome' # outcome
    BY <1>1, <2>1 DEF Undecided, Outcome
  <2>3. CASE RaceDecided
    <3>1. /\ DecideAndRestore(Unanswered, now,
                              IF bound THEN Arms ELSE {a \in Arms : slot[a] # "pending"}, "finish")
          /\ Decide(Collected(Unanswered)) # "none" /\ pc = "decide"
      BY <2>3 DEF RaceDecided
    <3>2. Collected(Unanswered)[r] # "event"
      BY <2>1, <3>1, DecidedWinner
    <3> QED BY <2>1, <3>1, <3>2 DEF Collected, Unanswered
  <2>4. CASE DeadlineObserved
    <3>1. /\ DecideAndRestore(LastLook, now, Arms, "return")
          /\ Decide(Collected(LastLook)) # "none" /\ pc = "deadline"
      BY <2>4 DEF DeadlineObserved
    <3>2. Collected(LastLook)[r] # "event"
      BY <2>1, <3>1, DecidedWinner
    <3>3. slot[r] # "event"
      BY <1>1, <2>1, <3>1 DEF Inv, AwaitsHoldNothing, SlotsTell, NothingHeld
    <3> QED BY <2>1, <3>2, <3>3 DEF Collected, LastLook
  <2> QED BY <1>1, <2>2, <2>3, <2>4, DecidingSteps
<1>2. Spec => [][Ties]_vars
  BY <1>1, Invariance, UndecidedInvariance, PTL DEF Spec
<1> QED BY <1>2 DEF TieRule

\* sleep_until does not become a clean outcome while a bound arm has an event
\* that poll_ready would hand out.
THEOREM LastLookIsTaken == Spec => LastLookSees
<1> DEFINE Sees == pc = "deadline" /\ bound /\ outcome'.kind \in CleanKinds =>
                     \A r \in Arms : ReadyAnswer(r) # "event"
<1>1. ASSUME Inv, Undecided, [Next]_vars PROVE Sees
  <2> SUFFICES ASSUME pc = "deadline", bound, outcome'.kind \in CleanKinds, NEW r \in Arms
               PROVE  ReadyAnswer(r) # "event"
    OBVIOUS
  <2>1. \A k \in {"none", "error", "failed", "abandoned", "events", "partial", "refused",
                  "reauthentication_required"} : k \notin CleanKinds
    BY DEF CleanKinds
  <2>2. outcome' # outcome /\ ~Abandon /\ ~RaceDecided
    BY <1>1, <2>1 DEF Undecided, Outcome, Abandon, RaceDecided
  <2>3. ~DeadlineObserved
    <3> SUFFICES ASSUME DeadlineObserved PROVE FALSE
      OBVIOUS
    <3>1. DecideAndRestore(LastLook, now, Arms, "return")
      BY DEF DeadlineObserved
    <3>2. \/ outcome'.kind \in {"error", "failed", PostureReject(now)} /\ PostureReject(now) # "ok"
          \/ outcome'.kind \in {"error", "failed", Decide(Collected(LastLook))}
      BY <3>1 DEF DecideAndRestore, RestoreAndConclude, Conclude, Outcome
    <3> QED BY <2>1, <3>2, DecisionTypes
  <2>4. Matched(Collected(LastLook)) = {}
    BY <1>1, <2>2, <2>3, DecidingSteps DEF DeadlineQuiet, Decide
  <2> QED BY <2>4 DEF Matched, Collected, LastLook
<1>2. Spec => [][Sees]_vars
  BY <1>1, Invariance, UndecidedInvariance, PTL DEF Spec
<1> QED BY <1>2 DEF LastLookSees
=============================================================================
