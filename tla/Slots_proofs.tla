----------------------------- MODULE Slots_proofs -----------------------------
(***************************************************************************)
(* What the operations on a slot set do with the events of an arm, for     *)
(* every number of arms and events: the sessions' proofs that they keep    *)
(* custody rest on it.                                                     *)
(***************************************************************************)
EXTENDS Slots, Lists_proofs

\* A slot set holds an event exactly where it has harvested one.
SlotTyped(s) ==
    /\ s = [obs |-> s.obs, held |-> s.held, queue |-> s.queue]
    /\ s.queue \in [Arms -> Seq(1..MaxEvents)]
    /\ s.held \in [Arms -> 0..MaxEvents]
    /\ \A r \in Arms : s.held[r] # 0 <=> s.obs[r] = "event"

\* The events of arm r in its slot and with the observer.
OpenIn(s, r) == InSlot(s, r) \o s.queue[r]

LEMMA NothingHeldTyped == NothingHeld \in [Arms -> 0..MaxEvents]
BY SeamAssumption DEF NothingHeld

LEMMA OpenTyped ==
    ASSUME NEW s, SlotTyped(s), NEW r \in Arms
    PROVE  /\ InSlot(s, r) \in Seq(1..MaxEvents) /\ s.queue[r] \in Seq(1..MaxEvents)
           /\ InSlot(s, r) \in Seq(Nat) /\ s.queue[r] \in Seq(Nat) /\ OpenIn(s, r) \in Seq(Nat)
<1>1. s.held[r] \in 0..MaxEvents /\ s.queue[r] \in Seq(1..MaxEvents) /\ MaxEvents \in Nat
  BY SeamAssumption DEF SlotTyped
<1>2. InSlot(s, r) \in Seq(1..MaxEvents)
  <2>1. CASE s.held[r] = 0
    BY <2>1, EmptySeq DEF InSlot
  <2>2. CASE s.held[r] # 0
    <3>1. s.held[r] \in 1..MaxEvents
      BY <1>1, <2>2
    <3> QED BY <2>2, <3>1 DEF InSlot
  <2> QED BY <2>1, <2>2
<1>3. 1..MaxEvents \subseteq Nat
  BY <1>1
<1>4. InSlot(s, r) \in Seq(Nat) /\ s.queue[r] \in Seq(Nat)
  BY <1>1, <1>2, <1>3, SeqMonotonic
<1>5. OpenIn(s, r) \in Seq(Nat)
  BY <1>4, ConcatProperties DEF OpenIn
<1> QED BY <1>1, <1>2, <1>4, <1>5

-----------------------------------------------------------------------------
(* Filling. *)

\* An empty slot takes the first event of its queue, and nothing else moves.
LEMMA FilledKeeps ==
    ASSUME NEW s, SlotTyped(s), NEW ans,
           \A r \in Arms : ans[r] = "event" => s.queue[r] # <<>>
    PROVE  /\ SlotTyped(Filled(s, ans))
           /\ \A r \in Arms : OpenIn(Filled(s, ans), r) = OpenIn(s, r)
<1> DEFINE took == {r \in Arms : s.obs[r] = "none" /\ ans[r] = "event"}
           f == Filled(s, ans)
<1>1. f = [obs |-> [r \in Arms |-> IF s.obs[r] = "none" THEN ans[r] ELSE s.obs[r]],
           held |-> [r \in Arms |-> IF r \in took THEN Head(s.queue[r]) ELSE s.held[r]],
           queue |-> [r \in Arms |-> IF r \in took THEN Tail(s.queue[r]) ELSE s.queue[r]]]
  BY Zenon DEF Filled
<1> HIDE DEF f
<1>2. /\ f = [obs |-> f.obs, held |-> f.held, queue |-> f.queue]
      /\ f.obs = [r \in Arms |-> IF s.obs[r] = "none" THEN ans[r] ELSE s.obs[r]]
      /\ f.held = [r \in Arms |-> IF r \in took THEN Head(s.queue[r]) ELSE s.held[r]]
      /\ f.queue = [r \in Arms |-> IF r \in took THEN Tail(s.queue[r]) ELSE s.queue[r]]
  BY <1>1
<1>3. ASSUME NEW r \in Arms
      PROVE  /\ f.queue[r] \in Seq(1..MaxEvents) /\ f.held[r] \in 0..MaxEvents
             /\ f.held[r] # 0 <=> f.obs[r] = "event"
             /\ OpenIn(f, r) = OpenIn(s, r)
  <2>1. /\ s.queue[r] \in Seq(1..MaxEvents) /\ s.held[r] \in 0..MaxEvents
        /\ s.held[r] # 0 <=> s.obs[r] = "event"
    BY DEF SlotTyped
  <2>2. CASE r \in took
    <3>1. /\ f.queue[r] = Tail(s.queue[r]) /\ f.held[r] = Head(s.queue[r]) /\ f.obs[r] = "event"
          /\ s.held[r] = 0 /\ s.queue[r] # <<>>
      BY <1>2, <2>1, <2>2
    <3>2. Head(s.queue[r]) \in 1..MaxEvents /\ Tail(s.queue[r]) \in Seq(1..MaxEvents)
      BY <2>1, <3>1, HeadTailProperties
    <3>3. Head(s.queue[r]) # 0 /\ Head(s.queue[r]) \in 0..MaxEvents
      BY <3>2, SeamAssumption
    <3>4. <<Head(s.queue[r])>> \o Tail(s.queue[r]) = s.queue[r]
      BY <2>1, <3>1, HeadOfNonEmpty
    <3>5. <<>> \o s.queue[r] = s.queue[r]
      BY <2>1, ConcatEmptySeq
    <3>6. OpenIn(f, r) = OpenIn(s, r)
      BY <3>1, <3>3, <3>4, <3>5, Zenon DEF OpenIn, InSlot
    <3> QED BY <3>1, <3>2, <3>3, <3>6
  <2>3. CASE r \notin took
    <3>1. f.queue[r] = s.queue[r] /\ f.held[r] = s.held[r]
      BY <1>2, <2>3
    <3>2. f.obs[r] = "event" <=> s.obs[r] = "event"
      BY <1>2, <2>3
    <3>3. OpenIn(f, r) = OpenIn(s, r)
      BY <3>1 DEF OpenIn, InSlot
    <3> QED BY <2>1, <3>1, <3>2, <3>3
  <2> QED BY <2>2, <2>3
<1>4. SlotTyped(f)
  BY <1>2, <1>3 DEF SlotTyped
<1> QED BY <1>3, <1>4 DEF f

\* poll_available and harvest_poll_ready, which answer an event only if the
\* observer has one.
LEMMA PolledKeeps ==
    ASSUME NEW s, SlotTyped(s), s.queue = queue
    PROVE  /\ SlotTyped(Polled(s))
           /\ \A r \in Arms : OpenIn(Polled(s), r) = OpenIn(s, r)
<1> DEFINE ans == [r \in Arms |-> IF r \in BoundNow /\ NextAnswer(r) # "error"
                                  THEN NextAnswer(r) ELSE "none"]
<1>1. \A r \in Arms : ans[r] = "event" => s.queue[r] # <<>>
  BY DEF NextAnswer, Due, AllSignals
<1>2. Polled(s) = Filled(s, ans)
  BY DEF Polled
<1> HIDE DEF ans
<1> QED BY <1>1, <1>2, FilledKeeps

LEMMA ExtendedKeeps ==
    ASSUME NEW s, SlotTyped(s), s.queue = queue
    PROVE  /\ SlotTyped(Extended(s))
           /\ \A r \in Arms : OpenIn(Extended(s), r) = OpenIn(s, r)
<1> DEFINE ans == [r \in Arms |-> IF r \in bound THEN ReadyAnswer(r) ELSE "none"]
<1>1. \A r \in Arms : ans[r] = "event" => s.queue[r] # <<>>
  BY DEF ReadyAnswer, Due, AllSignals
<1>2. Extended(s) = Filled(s, ans)
  BY DEF Extended
<1> HIDE DEF ans
<1> QED BY <1>1, <1>2, FilledKeeps

\* rearm_idle and take_events.
LEMMA RearmedKeeps ==
    ASSUME NEW s, SlotTyped(s)
    PROVE  /\ SlotTyped(Rearmed(s)) /\ Rearmed(s).queue = s.queue
           /\ \A r \in Arms : OpenIn(Rearmed(s), r) = OpenIn(s, r)
<1> DEFINE o == [r \in Arms |-> IF s.obs[r] = "event" THEN "event" ELSE "none"]
           f == Rearmed(s)
<1>1. f = [s EXCEPT !.obs = o] /\ s = [obs |-> s.obs, held |-> s.held, queue |-> s.queue]
  BY DEF Rearmed, SlotTyped
<1>2. \A r \in Arms : o[r] = "event" <=> s.obs[r] = "event"
  OBVIOUS
<1> HIDE DEF f, o
<1>3. /\ f.obs = o /\ f.held = s.held /\ f.queue = s.queue
      /\ f = [obs |-> f.obs, held |-> f.held, queue |-> f.queue]
  BY <1>1
<1>4. SlotTyped(f) /\ \A r \in Arms : OpenIn(f, r) = OpenIn(s, r)
  BY <1>2, <1>3 DEF SlotTyped, OpenIn, InSlot
<1> QED BY <1>3, <1>4 DEF f

LEMMA EmptiedKeeps ==
    ASSUME NEW s, SlotTyped(s)
    PROVE  /\ SlotTyped(Emptied(s)) /\ Emptied(s).queue = s.queue
           /\ Emptied(s).held = NothingHeld
<1> DEFINE o == [r \in Arms |-> IF s.obs[r] = "event" THEN "none" ELSE s.obs[r]]
           f == Emptied(s)
<1>1. /\ f = [s EXCEPT !.obs = o, !.held = NothingHeld]
      /\ s = [obs |-> s.obs, held |-> s.held, queue |-> s.queue]
  BY DEF Emptied, SlotTyped
<1>2. \A r \in Arms : o[r] # "event" /\ NothingHeld[r] = 0
  BY DEF NothingHeld
<1> HIDE DEF f, o
<1>3. /\ f.obs = o /\ f.held = NothingHeld /\ f.queue = s.queue
      /\ f = [obs |-> f.obs, held |-> f.held, queue |-> f.queue]
  BY <1>1
<1>4. SlotTyped(f)
  BY <1>2, <1>3, NothingHeldTyped DEF SlotTyped
<1> QED BY <1>3, <1>4 DEF f

-----------------------------------------------------------------------------
(* The session's own slots. *)

LEMMA SlotSetFields ==
    /\ SlotSet.obs = harvested /\ SlotSet.held = held /\ SlotSet.queue = queue
    /\ SlotSet = [obs |-> SlotSet.obs, held |-> SlotSet.held, queue |-> SlotSet.queue]
BY DEF SlotSet

\* Slots that become what s has.
LEMMA SlotsBecome ==
    ASSUME NEW s, SlotTyped(s), harvested' = s.obs, held' = s.held, queue' = s.queue
    PROVE  /\ SlotSet' = s /\ SlotTyped(SlotSet')
           /\ \A r \in Arms : OpenIn(SlotSet', r) = OpenIn(s, r)
BY DEF SlotTyped, SlotSet

LEMMA PollIntoKeeps ==
    ASSUME SlotTyped(SlotSet), NEW s \in {SlotSet, Rearmed(SlotSet)}, PollInto(s)
    PROVE  /\ SlotTyped(SlotSet')
           /\ \A r \in Arms : OpenIn(SlotSet', r) = OpenIn(SlotSet, r)
<1>1. /\ SlotTyped(s) /\ s.queue = queue
      /\ \A r \in Arms : OpenIn(s, r) = OpenIn(SlotSet, r)
  BY SlotSetFields, RearmedKeeps
<1>2. /\ SlotTyped(Polled(s))
      /\ \A r \in Arms : OpenIn(Polled(s), r) = OpenIn(s, r)
  BY <1>1, PolledKeeps
<1>3. harvested' = Polled(s).obs /\ held' = Polled(s).held /\ queue' = Polled(s).queue
  BY DEF PollInto
<1> QED BY <1>1, <1>2, <1>3, SlotsBecome

\* Slots without an event.
LEMMA SlotsCleared ==
    ASSUME held' = NothingHeld, \A r \in Arms : harvested'[r] # "event",
           queue' \in [Arms -> Seq(1..MaxEvents)]
    PROVE  SlotTyped(SlotSet') /\ \A r \in Arms : OpenIn(SlotSet', r) = queue'[r]
<1>1. SlotSet' = [obs |-> harvested', held |-> held', queue |-> queue']
  BY DEF SlotSet
<1> DEFINE s == SlotSet'
<1> HIDE DEF s
<1>2. /\ s = [obs |-> s.obs, held |-> s.held, queue |-> s.queue]
      /\ s.obs = harvested' /\ s.held = held' /\ s.queue = queue'
  BY <1>1 DEF s
<1>3. SlotTyped(s)
  BY <1>2, NothingHeldTyped DEF SlotTyped, NothingHeld
<1>4. ASSUME NEW r \in Arms PROVE OpenIn(s, r) = queue'[r]
  <2>1. InSlot(s, r) = <<>>
    BY <1>2 DEF InSlot, NothingHeld
  <2>2. <<>> \o queue'[r] = queue'[r]
    BY ConcatEmptySeq
  <2> QED BY <1>2, <2>1, <2>2 DEF OpenIn
<1> QED BY <1>3, <1>4 DEF s

-----------------------------------------------------------------------------
(* Giving back. *)

\* What is out of the observer's hands, and what of it a restore gives back.
Out(s, more, r) == more[r] \o InSlot(s, r)
Restorable(lost, r) == {e \in 1..MaxEvents : <<r, e>> \notin lost}

\* restore_custody of what the runner holds besides and of the slot: what could
\* be restored comes before what the observer has, in its order.
LEMMA RequeuedIs ==
    ASSUME NEW s, SlotTyped(s), NEW more, NEW lost, NEW r \in Arms,
           more[r] \in Seq(1..MaxEvents)
    PROVE  /\ Out(s, more, r) \in Seq(Nat) /\ Restorable(lost, r) \in SUBSET Nat
           /\ Requeued(s, more, lost, r) =
                Keeping(Out(s, more, r), Restorable(lost, r)) \o s.queue[r]
           /\ Requeued(s, more, lost, r) \in Seq(1..MaxEvents)
           /\ lost = {} => Requeued(s, more, lost, r) = Out(s, more, r) \o s.queue[r]
<1> DEFINE x == Out(s, more, r)
           T == 1..MaxEvents
           S == Restorable(lost, r)
           q == Requeued(s, more, lost, r)
<1>1. T \subseteq Nat /\ S \subseteq T
  BY SeamAssumption DEF Restorable
<1>2. more[r] \in Seq(T) /\ InSlot(s, r) \in Seq(T) /\ s.queue[r] \in Seq(T)
  BY OpenTyped
<1>3. q = Keeping(x, S) \o s.queue[r]
  BY Zenon DEF Requeued, GivenBack, Out, Restorable
<1>4. lost = {} => S = T
  BY DEF Restorable
<1> HIDE DEF T, S
<1>5. x \in Seq(T)
  BY <1>2, ConcatProperties DEF Out
<1> HIDE DEF x, q
<1>6. x \in Seq(Nat)
  BY <1>1, <1>5, SeqMonotonic
<1>7. Keeping(x, S) \in Seq(T)
  <2> DEFINE k == Keeping(x, S)
  <2>1. k \in Seq(T \cap S)
    BY <1>5, KeepingType
  <2>2. T \cap S \subseteq T
    OBVIOUS
  <2> HIDE DEF k
  <2>3. k \in Seq(T)
    BY <2>1, <2>2, SeqMonotonic
  <2> QED BY <2>3 DEF k
<1>8. Keeping(x, S) \o s.queue[r] \in Seq(T)
  BY <1>2, <1>7, ConcatProperties
<1>9. S = T => Keeping(x, S) = x
  BY <1>5, KeepingAll
<1>10. lost = {} => q = x \o s.queue[r]
  BY <1>3, <1>4, <1>9
<1> QED BY <1>1, <1>3, <1>6, <1>8, <1>10 DEF x, S, q, T

\* So an arm loses some of what was out of the observer's hands, if restores
\* fail, and nothing if none does.
LEMMA RequeuedGoes ==
    ASSUME NEW s, SlotTyped(s), NEW more, NEW lost, NEW r \in Arms,
           more[r] \in Seq(1..MaxEvents), NEW c \in Seq(Nat)
    PROVE  LET o == more[r] \o OpenIn(s, r)
               q == Requeued(s, more, lost, r)
           IN  /\ q \in Seq(1..MaxEvents)
               /\ Gone(c, o, c, <<>>, q)
               /\ lost = {} => Kept(c, o, c, <<>>, q)
<1> DEFINE m == more[r]
           i == InSlot(s, r)
           y == s.queue[r]
           x == Out(s, more, r)
           o == m \o (i \o y)
           S == Restorable(lost, r)
           q == Requeued(s, more, lost, r)
<1>1. i \in Seq(Nat) /\ y \in Seq(Nat) /\ OpenIn(s, r) = i \o y
  BY OpenTyped DEF OpenIn
<1>2. m \in Seq(Nat)
  BY SeamAssumption, SeqMonotonic
<1>3. /\ x \in Seq(Nat) /\ S \in SUBSET Nat /\ q = Keeping(x, S) \o y
      /\ q \in Seq(1..MaxEvents) /\ (lost = {} => q = x \o y)
  BY RequeuedIs
<1>4. q \in Seq(Nat)
  BY <1>3, SeamAssumption, SeqMonotonic
<1> HIDE DEF m, i, y, S, q
<1>5. o = x \o y
  <2>1. x = m \o i
    BY DEF Out, m, i
  <2> HIDE DEF x
  <2> QED BY <1>1, <1>2, <2>1, ThreeInARow, Zenon
<1> HIDE DEF x, o
<1>6. Gone(c, o, c, <<>>, q)
  BY <1>1, <1>3, <1>5 DEF Gone
<1>7. lost = {} => Kept(c, o, c, <<>>, q)
  <2>1. o \in Seq(Nat)
    BY <1>1, <1>3, <1>5, ConcatProperties
  <2>2. <<>> \o q = q /\ (lost = {} => o = q)
    BY <1>3, <1>4, <1>5, ConcatEmptySeq
  <2>3. ASSUME o = q PROVE Kept(c, o, c, <<>>, q)
    BY <2>1, <2>2, <2>3, StaysOpen
  <2> QED BY <2>2, <2>3
<1> QED BY <1>1, <1>3, <1>6, <1>7, Zenon DEF o, m, i, y, q
=============================================================================
