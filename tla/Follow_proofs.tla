---------------------------- MODULE Follow_proofs ----------------------------
(***************************************************************************)
(* Theorems about Follow, for every number of arms, events and sessions,   *)
(* every lease and backoff table: a session that waits holds no event, its *)
(* end claims no more than the turn that decided it knew, and it keeps     *)
(* custody of what it takes.                                               *)
(***************************************************************************)
EXTENDS Follow, Slots_proofs

-----------------------------------------------------------------------------
(* The invariant.                                                          *)

Running == {"top", "collect", "cancel", "sleep", "backoff", "wake", "extend", "decide", "sink"}

Instants == now \in Nat /\ reading \in Nat /\ request \in Requests

\* Only the sink has a burst; at an await the slots have no event.
Hands == /\ pc \in Running \cup {"idle"}
         /\ pc # "sink" => burst = NothingHeld
         /\ AwaitsHoldNothing

\* A session that runs has no end yet, and what is with the sink was let
\* through at the instant its turn was decided on.
Verdict == /\ pc # "idle" => outcome.kind = "none"
           /\ pc = "sink" => PostureErr(reading) = "ok"
           /\ EndIsHonest

Inv == Instants /\ Hands /\ Verdict

LEMMA InitHolds == Init => Inv
<1> SUFFICES ASSUME Init PROVE Inv
  OBVIOUS
<1> USE SeamAssumption DEF Init, SeamInit, SlotsInit
<1>1. Instants
  BY DEF Instants, Requests
<1>2. Hands
  BY DEF Hands, AwaitsHoldNothing
<1>3. Verdict
  BY DEF Verdict, EndIsHonest, Ends
<1> QED BY <1>1, <1>2, <1>3 DEF Inv

-----------------------------------------------------------------------------
(* Judging an instant.                                                     *)

\* Posture that does not speak of a lease means that none has ended.
LEMMA PostureTells ==
    ASSUME NEW t \in Nat, PostureErr(t) # "lease"
    PROVE  \A r \in Arms : t < Lease[r]
<1>1. \A r \in Arms : Lease[r] \in Nat /\ ~(t >= Lease[r])
  BY SeamAssumption DEF PostureErr
<1> QED BY <1>1

\* An instant at a deadline is at the earlier one.
LEMMA DeadlineTells ==
    ASSUME request \in Requests, NEW t \in Nat, AtDeadline(t)
    PROVE  t >= EarliestDeadline
BY SeamAssumption DEF AtDeadline, EarliestDeadline, EarlierOf, Requests

\* What ends a session whose posture is good says no more than is true.
LEMMA EndTells ==
    ASSUME request \in Requests, NEW t \in Nat, PostureErr(t) # "lease", NEW kind,
           kind = "deadline" => Required \subseteq bound /\ AtDeadline(t),
           outcome' = [kind |-> kind, at |-> t], UNCHANGED <<request, bound>>
    PROVE  EndIsHonest'
<1>1. EarliestDeadline' = EarliestDeadline
  BY DEF EarliestDeadline
<1> QED BY <1>1, PostureTells, DeadlineTells DEF EndIsHonest

\* Ends that speak neither of a deadline nor of good posture.
LEMMA OtherEnds ==
    ASSUME NEW kind \in {"none", "lease", "restore", "abandoned", "sink", "uncited"}, NEW t,
           outcome' = [kind |-> kind, at |-> t]
    PROVE  EndIsHonest'
BY DEF EndIsHonest, Ends

\* The session ends: its hands are empty.
LEMMA ConcludeEmpties ==
    ASSUME NEW kind, NEW t, Conclude(kind, t)
    PROVE  Hands' /\ pc' = "idle" /\ outcome' = [kind |-> kind, at |-> t]
BY DEF Conclude, Hands, AwaitsHoldNothing, Running

\* finish_err and finish_cancel, at an instant that the posture admits unless
\* the end speaks of a lease.
LEMMA FinishKeeps ==
    ASSUME request \in Requests, NEW s, NEW t \in Nat,
           NEW kind \in {"lease", "authn", "fault", "cancel"}, Finish(s, kind, t),
           kind = "lease" \/ PostureErr(t) # "lease", UNCHANGED <<request, bound>>
    PROVE  Hands' /\ Verdict'
<1>1. PICK lost \in Failures(s, NoMore) : Conclude(IF lost = {} THEN kind ELSE "restore", t)
  BY DEF Finish
<1>2. CASE lost = {} /\ kind # "lease"
  <2>1. Conclude(kind, t)
    BY <1>1, <1>2
  <2>2. EndIsHonest'
    BY <1>2, <2>1, ConcludeEmpties, EndTells
  <2> QED BY <2>1, <2>2, ConcludeEmpties DEF Verdict
<1>3. CASE lost # {} \/ kind = "lease"
  <2> DEFINE k == IF lost = {} THEN kind ELSE "restore"
  <2>1. Conclude(k, t) /\ k \in {"lease", "restore"}
    BY <1>1, <1>3
  <2> HIDE DEF k
  <2>2. EndIsHonest'
    BY <2>1, ConcludeEmpties, OtherEnds
  <2> QED BY <2>1, <2>2, ConcludeEmpties DEF Verdict
<1> QED BY <1>2, <1>3

\* The end of a turn whose posture is good.
LEMMA SettleKeeps ==
    ASSUME Inv, pc # "idle", NEW t \in Nat, NEW obs, PostureErr(t) = "ok", Settle(t, obs),
           UNCHANGED <<request, bound>>
    PROVE  Hands' /\ Verdict'
<1> DEFINE e == EndOf(t, obs)
<1>1. CASE e # "none"
  <2>1. Conclude(e, t)
    BY <1>1 DEF Settle
  <2>2. e = "deadline" => Required \subseteq bound /\ AtDeadline(t)
    BY DEF EndOf, DeadlineEnd
  <2>3. request \in Requests
    BY DEF Inv, Instants
  <2> HIDE DEF e
  <2>4. EndIsHonest'
    BY <2>1, <2>2, <2>3, ConcludeEmpties, EndTells
  <2> QED BY <2>1, <2>4, ConcludeEmpties DEF Verdict
<1>2. CASE e = "none"
  <2>1. pc' = "top" /\ held' = NothingHeld /\ burst' = NothingHeld /\ outcome' = outcome
    BY <1>2 DEF Settle
  <2>2. outcome.kind = "none"
    BY DEF Inv, Verdict
  <2>3. Hands'
    BY <2>1 DEF Hands, AwaitsHoldNothing, Running
  <2>4. Verdict'
    BY <2>1, <2>2 DEF Verdict, EndIsHonest, Ends
  <2> QED BY <2>3, <2>4
<1> QED BY <1>1, <1>2

\* decide_turn.
LEMMA DecideTurnKeeps ==
    ASSUME Inv, pc # "idle", NEW s, NEW t \in Nat, DecideTurn(s, t),
           UNCHANGED <<request, bound>>
    PROVE  Hands' /\ Verdict'
<1>1. request \in Requests /\ outcome.kind = "none"
  BY DEF Inv, Instants, Verdict
<1>2. PostureErr(t) \in {"ok", "lease", "authn"}
  BY DEF PostureErr
<1>3. CASE PostureErr(t) # "ok" /\ Finish(s, PostureErr(t), t)
  BY <1>1, <1>2, <1>3, FinishKeeps
<1>4. CASE PostureErr(t) = "ok" /\ Finish(s, "fault", t)
  BY <1>1, <1>4, FinishKeeps
<1>5. CASE PostureErr(t) = "ok" /\ Finish(s, "cancel", t)
  BY <1>1, <1>5, FinishKeeps
<1>6. CASE PostureErr(t) = "ok" /\ EventArms(s) = {} /\ Settle(t, s.obs)
  BY <1>6, SettleKeeps
<1>7. CASE /\ PostureErr(t) = "ok" /\ reading' = t
           /\ pc' = "sink" /\ burst' = s.held /\ held' = NothingHeld
           /\ UNCHANGED <<fault, outcome>>
  <2>1. Hands'
    BY <1>7 DEF Hands, AwaitsHoldNothing, Running
  <2>2. PostureErr(reading)' = "ok"
    BY <1>7 DEF PostureErr
  <2>3. Verdict'
    BY <1>1, <1>7, <2>2 DEF Verdict, EndIsHonest, Ends
  <2> QED BY <2>1, <2>3
<1> QED BY <1>3, <1>4, <1>5, <1>6, <1>7 DEF DecideTurn

-----------------------------------------------------------------------------
(* The steps.                                                              *)

\* Steps that go on with the session and neither decide nor deliver anything.
LEMMA VerdictLeft ==
    ASSUME Verdict, UNCHANGED <<request, outcome>>, bound' = bound \/ pc # "idle",
           pc' # "sink", pc' = pc \/ pc # "idle"
    PROVE  Verdict'
<1>1. EarliestDeadline' = EarliestDeadline
  BY DEF EarliestDeadline
<1>2. CASE pc # "idle"
  BY <1>2 DEF Verdict, EndIsHonest, Ends
<1>3. CASE pc = "idle"
  BY <1>1, <1>3 DEF Verdict, EndIsHonest, Ends
<1> QED BY <1>2, <1>3

\* Slots that were polled and have nothing but Idle to say hold no event.
LEMMA PolledHoldsNothing ==
    ASSUME held = NothingHeld, PollInto(SlotSet), ~Ready(Polled(SlotSet).obs)
    PROVE  held' = NothingHeld
<1> DEFINE ans == [r \in Arms |-> IF r \in BoundNow /\ NextAnswer(r) # "error"
                                  THEN NextAnswer(r) ELSE "none"]
           took == {r \in Arms : harvested[r] = "none" /\ ans[r] = "event"}
<1>1. /\ Polled(SlotSet).obs = [r \in Arms |-> IF harvested[r] = "none" THEN ans[r]
                                               ELSE harvested[r]]
      /\ Polled(SlotSet).held = [r \in Arms |-> IF r \in took THEN Head(queue[r]) ELSE held[r]]
  BY DEF Polled, Filled, SlotSet
<1> HIDE DEF ans
<1>2. took = {}
  BY <1>1 DEF Ready
<1> QED BY <1>1, <1>2 DEF PollInto, NothingHeld

LEMMA StepKeeps == Inv /\ [Next]_vars => Inv'
<1> SUFFICES ASSUME Inv, [Next]_vars PROVE Inv'
  OBVIOUS
<1>1. Instants /\ Hands /\ Verdict
  BY DEF Inv
<1>2. Instants'
  <2>1. CASE Environment /\ UNCHANGED followVars
    BY <1>1, <2>1 DEF Environment, Arrive, Raise, ReleaseHang, Tick, Trigger, followVars,
                      Instants
  <2>2. CASE StartSession
    BY <1>1, <2>2 DEF StartSession, Instants
  <2>3. CASE StartUncited \/ Abandon \/ SinkOk \/ SinkErr
    BY <1>1, <2>3 DEF StartUncited, Abandon, SinkOk, SinkErr, seamVars, Instants
  <2>4. CASE TopPosture \/ TopCancelled \/ TopSelect \/ Collect \/ PollCancel \/ PollSleep
    BY <1>1, <2>4 DEF TopPosture, TopCancelled, TopSelect, Collect, PollCancel, PollSleep,
                      seamVars, Instants
  <2>5. CASE Rest \/ Wake \/ Extend \/ Decide
    BY <1>1, <2>5 DEF Rest, Wake, Extend, Decide, DecideTurn, seamVars, Instants
  <2>6. CASE UNCHANGED vars
    BY <1>1, <2>6 DEF vars, followVars, seamVars, Instants
  <2> QED BY <2>1, <2>2, <2>3, <2>4, <2>5, <2>6 DEF Next, Caller, Runner
<1> SUFFICES Hands' /\ Verdict'
  BY <1>2 DEF Inv
<1>3. now \in Nat /\ reading \in Nat /\ request \in Requests
  BY <1>1 DEF Instants
<1>4. CASE (Environment /\ UNCHANGED followVars) \/ UNCHANGED vars
  <2>1. UNCHANGED followVars
    BY <1>4 DEF vars
  <2>2. Hands'
    BY <1>1, <2>1 DEF followVars, slotVars, Hands, AwaitsHoldNothing
  <2>3. EarliestDeadline' = EarliestDeadline /\ PostureErr(reading)' = PostureErr(reading)
    BY <2>1 DEF followVars, EarliestDeadline, PostureErr
  <2> QED BY <1>1, <2>1, <2>2, <2>3 DEF followVars, slotVars, Verdict, EndIsHonest
<1>5. CASE StartSession
  <2>1. /\ pc = "idle" /\ burst' = burst /\ held' = NothingHeld /\ now' = now
        /\ request' \in Requests
    BY <1>5 DEF StartSession, NewSlots
  <2>2. \/ pc' = "top" /\ outcome' = [kind |-> "none", at |-> 0]
        \/ /\ pc' = "idle" /\ PostureErr(now)' # "ok"
           /\ outcome' = [kind |-> PostureErr(now)', at |-> now]
    BY <1>5 DEF StartSession
  <2>3. Hands'
    BY <1>1, <2>1, <2>2 DEF Hands, AwaitsHoldNothing, Running
  <2>4. PostureErr(now)' = "lease" \/ PostureErr(now)' = "authn" \/ PostureErr(now)' = "ok"
    BY DEF PostureErr
  <2>5. PostureErr(now)' # "lease" => \A r \in Arms : now < Lease[r]
    <3>1. \A r \in Arms : Lease[r] \in Nat
      BY SeamAssumption
    <3> QED BY <1>3, <2>1, <3>1 DEF PostureErr
  <2>6. EndIsHonest'
    BY <2>2, <2>4, <2>5 DEF EndIsHonest, Ends
  <2>7. pc' # "sink" /\ (pc' # "idle" => outcome'.kind = "none")
    BY <2>2
  <2> QED BY <2>3, <2>6, <2>7 DEF Verdict
<1>6. CASE StartUncited
  <2>1. /\ pc = "idle" /\ UNCHANGED <<pc, burst, held>>
        /\ outcome' = [kind |-> "uncited", at |-> now]
    BY <1>6 DEF StartUncited, slotVars
  <2>2. Hands'
    BY <1>1, <2>1 DEF Hands, AwaitsHoldNothing
  <2>3. EndIsHonest'
    BY <2>1, OtherEnds
  <2> QED BY <2>1, <2>2, <2>3 DEF Verdict
<1>7. CASE Abandon \/ SinkErr
  <2>1. PICK kind \in {"abandoned", "sink"}, t \in Nat : Conclude(kind, t)
    BY <1>3, <1>7 DEF Abandon, SinkErr
  <2>2. EndIsHonest'
    BY <2>1, ConcludeEmpties, OtherEnds
  <2> QED BY <2>1, <2>2, ConcludeEmpties DEF Verdict
<1>8. CASE SinkOk
  <2>1. /\ pc = "sink" /\ PostureErr(reading) = "ok"
        /\ Settle(reading, harvested) /\ UNCHANGED <<request, bound>>
    BY <1>1, <1>8 DEF SinkOk, Verdict
  <2> QED BY <1>3, <2>1, SettleKeeps
<1>9. CASE TopPosture \/ TopCancelled
  <2>1. PICK kind \in {"lease", "authn", "cancel"} :
          /\ Finish(SlotSet, kind, now) /\ UNCHANGED <<request, bound>>
          /\ kind = "lease" \/ PostureErr(now) # "lease"
    BY <1>9 DEF TopPosture, TopCancelled, PostureErr
  <2> QED BY <1>3, <2>1, FinishKeeps
<1>10. CASE TopSelect \/ PollSleep \/ Rest
  <2>1. /\ pc \in {"top", "sleep", "backoff"} /\ pc' \in {"collect", "wake"}
        /\ UNCHANGED <<request, bound, held, burst, outcome>>
    BY <1>10 DEF TopSelect, PollSleep, Rest, slotVars
  <2>2. Hands'
    BY <1>1, <2>1 DEF Hands, AwaitsHoldNothing, Running
  <2> QED BY <1>1, <2>1, <2>2, VerdictLeft
<1>11. CASE Collect
  <2>1. /\ pc = "collect" /\ PollInto(SlotSet)
        /\ \/ pc' = "decide"
           \/ pc' \in {"backoff", "cancel"} /\ ~Ready(Polled(SlotSet).obs)
        /\ UNCHANGED <<request, burst, outcome>>
    BY <1>11 DEF Collect
  <2>2. held = NothingHeld /\ burst = NothingHeld
    BY <1>1, <2>1 DEF Hands, AwaitsHoldNothing
  <2>3. pc' # "decide" => held' = NothingHeld
    BY <2>1, <2>2, PolledHoldsNothing
  <2>4. Hands'
    BY <2>1, <2>2, <2>3 DEF Hands, AwaitsHoldNothing, Running
  <2> QED BY <1>1, <2>1, <2>4, VerdictLeft
<1>12. CASE PollCancel
  <2>1. /\ pc = "cancel" /\ UNCHANGED <<request, burst, outcome>>
        /\ pc' = "decide" \/ (pc' = "sleep" /\ held' = held)
    BY <1>12 DEF PollCancel, slotVars
  <2>2. Hands'
    BY <1>1, <2>1 DEF Hands, AwaitsHoldNothing, Running
  <2> QED BY <1>1, <2>1, <2>2, VerdictLeft
<1>13. CASE Wake
  <2>1. pc = "wake" /\ pc' = "extend" /\ UNCHANGED <<request, burst, outcome>>
    BY <1>13 DEF Wake
  <2>2. Hands'
    BY <1>1, <2>1 DEF Hands, AwaitsHoldNothing, Running
  <2> QED BY <1>1, <2>1, <2>2, VerdictLeft
<1>14. CASE Extend \/ Decide
  <2>1. PICK s \in {SlotSet, Extended(SlotSet)}, t \in {now, reading} :
          DecideTurn(s, t) /\ pc # "idle" /\ UNCHANGED <<request, bound>>
    BY <1>14 DEF Extend, Decide
  <2> QED BY <1>3, <2>1, DecideTurnKeeps
<1> QED BY <1>4, <1>5, <1>6, <1>7, <1>8, <1>9, <1>10, <1>11, <1>12, <1>13, <1>14
        DEF Next, Caller, Runner

-----------------------------------------------------------------------------
(* The theorems.                                                           *)

\* The strengthening of both invariants.
THEOREM Invariance == Spec => []Inv
BY InitHolds, StepKeeps, PTL DEF Spec

\* run_follow holds no event where it waits for its arms, the token or the
\* clock: to drop the future there loses none.
THEOREM SessionsWaitEmptyHanded == Spec => []AwaitsHoldNothing
<1>1. Inv => AwaitsHoldNothing
  BY DEF Inv, Hands
<1> QED BY Invariance, <1>1, PTL

\* The end of a session is what its turn knew: a deadline over bound arms, and
\* no lease that had ended by then.
THEOREM EndsAreHonest == Spec => []EndIsHonest
<1>1. Inv => EndIsHonest
  BY DEF Inv, Verdict
<1> QED BY Invariance, <1>1, PTL

-----------------------------------------------------------------------------
(* Custody.                                                                *)

\* Every event of arm r that still exists, oldest first.
Stream(r) == delivered[r] \o (Holding(r) \o queue[r])

\* While the sink has a burst the slots have no event, and the events of an arm
\* are in the order of its source.
Custodial ==
    /\ arrived \in [Arms -> Nat]
    /\ SlotTyped(SlotSet)
    /\ burst \in [Arms -> 0..MaxEvents]
    /\ delivered \in [Arms -> Seq(Nat)]
    /\ pc = "sink" => held = NothingHeld
    /\ \A r \in Arms : InOrder(Stream(r), arrived[r])

\* What a step does to an arm: its events change hands, or some of them are lost.
Moves(r) == Kept(delivered[r], Holding(r) \o queue[r], delivered'[r], Holding(r)', queue'[r])
Drops(r) == Gone(delivered[r], Holding(r) \o queue[r], delivered'[r], Holding(r)', queue'[r])

\* Whether a step in which no source emits keeps custody.
Losers == {"sink", "restore", "abandoned"}
Safe ==
    /\ SlotTyped(SlotSet')
    /\ burst' \in [Arms -> 0..MaxEvents]
    /\ delivered' \in [Arms -> Seq(Nat)]
    /\ pc' = "sink" => held' = NothingHeld
    /\ \/ \A r \in Arms : Moves(r)
       \/ outcome'.kind \in Losers /\ \A r \in Arms : Drops(r)

One(n) == IF n = 0 THEN <<>> ELSE <<n>>

LEMMA Ones ==
    /\ One(0) = <<>>
    /\ \A n \in 0..MaxEvents : /\ One(n) \in Seq(Nat)
                               /\ One(n) \o <<>> = One(n) /\ <<>> \o One(n) = One(n)
<1>1. One(0) = <<>>
  BY DEF One
<1>2. ASSUME NEW n \in 0..MaxEvents PROVE One(n) \in Seq(Nat)
  <2>1. n \in Nat
    BY SeamAssumption
  <2>2. CASE n = 0
    BY <2>2, EmptySeq DEF One
  <2>3. CASE n # 0
    BY <2>1, <2>3 DEF One
  <2> QED BY <2>2, <2>3
<1>3. ASSUME NEW n \in 0..MaxEvents PROVE One(n) \o <<>> = One(n) /\ <<>> \o One(n) = One(n)
  BY <1>2, <1>3, ConcatEmptySeq
<1> QED BY <1>1, <1>2, <1>3

LEMMA HoldingIs ==
    \A r \in Arms : /\ Holding(r) = One(burst[r]) \o One(held[r])
                    /\ Holding(r)' = One(burst'[r]) \o One(held'[r])
                    /\ InSlot(SlotSet, r) = One(held[r])
                    /\ InSlot(SlotSet', r) = One(held'[r])
BY DEF Holding, One, InSlot, SlotSet

\* Outside of the sink an arm's open events are those of its slot and its queue.
LEMMA WaitingHolds ==
    /\ Custodial /\ burst = NothingHeld =>
         \A r \in Arms : Holding(r) \o queue[r] = OpenIn(SlotSet, r)
    /\ SlotTyped(SlotSet') /\ burst' = NothingHeld =>
         \A r \in Arms : Holding(r)' \o queue'[r] = OpenIn(SlotSet', r)
<1>1. ASSUME Custodial, burst = NothingHeld, NEW r \in Arms
      PROVE  Holding(r) \o queue[r] = OpenIn(SlotSet, r)
  <2>1. held[r] \in 0..MaxEvents /\ burst[r] = 0
    BY <1>1, SlotSetFields DEF Custodial, SlotTyped, NothingHeld
  <2>2. Holding(r) = InSlot(SlotSet, r)
    BY <2>1, HoldingIs, Ones
  <2> QED BY <2>2, SlotSetFields DEF OpenIn
<1>2. ASSUME SlotTyped(SlotSet'), burst' = NothingHeld, NEW r \in Arms
      PROVE  Holding(r)' \o queue'[r] = OpenIn(SlotSet', r)
  <2>1. SlotSet'.held = held' /\ SlotSet'.queue = queue'
    BY DEF SlotSet
  <2>2. held'[r] \in 0..MaxEvents /\ burst'[r] = 0
    BY <1>2, <2>1 DEF SlotTyped, NothingHeld
  <2>3. Holding(r)' = InSlot(SlotSet', r)
    BY <2>2, HoldingIs, Ones
  <2> QED BY <2>1, <2>3 DEF OpenIn
<1> QED BY <1>1, <1>2

LEMMA OpenTypes ==
    ASSUME Custodial, NEW r \in Arms
    PROVE  /\ delivered[r] \in Seq(Nat) /\ Holding(r) \in Seq(Nat) /\ queue[r] \in Seq(Nat)
           /\ Holding(r) \o queue[r] \in Seq(Nat)
<1>1. delivered[r] \in Seq(Nat) /\ burst[r] \in 0..MaxEvents /\ held[r] \in 0..MaxEvents
  BY SlotSetFields DEF Custodial, SlotTyped
<1>2. queue[r] \in Seq(Nat)
  BY SlotSetFields, OpenTyped DEF Custodial
<1>3. One(burst[r]) \in Seq(Nat) /\ One(held[r]) \in Seq(Nat)
  BY <1>1, Ones
<1>4. Holding(r) \in Seq(Nat)
  BY <1>3, HoldingIs, ConcatProperties
<1> QED BY <1>1, <1>2, <1>4, ConcatProperties

\* An arm whose open events are what they were.
LEMMA OpenMoves ==
    ASSUME Custodial, NEW r \in Arms, delivered'[r] = delivered[r],
           Holding(r)' \o queue'[r] = Holding(r) \o queue[r]
    PROVE  Moves(r)
<1> DEFINE c == delivered[r]
           o == Holding(r) \o queue[r]
           h == Holding(r)'
           p == queue'[r]
<1>1. c \in Seq(Nat) /\ o \in Seq(Nat) /\ h \o p = o
  BY OpenTypes
<1>2. Moves(r) <=> Kept(c, o, c, h, p)
  BY Zenon DEF Moves
<1> HIDE DEF c, o, h, p
<1> QED BY <1>1, <1>2, StaysOpen

\* Steps that move no event, and steps that move events between the slots and
\* the observer.
LEMMA StillSafe ==
    ASSUME Custodial, UNCHANGED <<harvested, held, queue, burst, delivered>>,
           pc' = "sink" => pc = "sink"
    PROVE  Safe
<1>1. SlotSet' = SlotSet
  BY DEF SlotSet
<1>2. ASSUME NEW r \in Arms PROVE Moves(r)
  <2>1. Holding(r)' = Holding(r)
    BY HoldingIs
  <2> QED BY <2>1, OpenMoves
<1> QED BY <1>1, <1>2 DEF Custodial, Safe

LEMMA PausedSafe ==
    ASSUME Custodial, burst = NothingHeld, burst' = NothingHeld, SlotTyped(SlotSet'),
           \A r \in Arms : OpenIn(SlotSet', r) = OpenIn(SlotSet, r), delivered' = delivered,
           pc' # "sink"
    PROVE  Safe
<1>1. ASSUME NEW r \in Arms PROVE Moves(r)
  <2>1. Holding(r)' \o queue'[r] = Holding(r) \o queue[r]
    BY WaitingHolds
  <2> QED BY <2>1, OpenMoves
<1> QED BY <1>1, NothingHeldTyped DEF Custodial, Safe

\* finish_err and finish_cancel: restores that fail lose what was in the slots.
LEMMA FinishSafe ==
    ASSUME Custodial, burst = NothingHeld, NEW s, SlotTyped(s),
           \A r \in Arms : OpenIn(s, r) = OpenIn(SlotSet, r), delivered' = delivered,
           NEW kind, NEW t, Finish(s, kind, t)
    PROVE  Safe
<1>1. PICK lost \in Failures(s, NoMore) :
        /\ queue' = [r \in Arms |-> Requeued(s, NoMore, lost, r)]
        /\ Conclude(IF lost = {} THEN kind ELSE "restore", t)
  BY DEF Finish
<1>2. /\ pc' = "idle" /\ held' = NothingHeld /\ burst' = NothingHeld
      /\ \A r \in Arms : harvested'[r] # "event"
      /\ lost # {} => outcome'.kind \in Losers
  BY <1>1 DEF Conclude, NothingHarvested, Losers
<1>3. ASSUME NEW r \in Arms
      PROVE  /\ Requeued(s, NoMore, lost, r) \in Seq(1..MaxEvents)
             /\ Gone(delivered[r], Holding(r) \o queue[r], delivered'[r], <<>>, queue'[r])
             /\ lost = {} =>
                  Kept(delivered[r], Holding(r) \o queue[r], delivered'[r], <<>>, queue'[r])
  <2> DEFINE c == delivered[r]
             q == Requeued(s, NoMore, lost, r)
             o == NoMore[r] \o OpenIn(s, r)
  <2>1. c \in Seq(Nat) /\ NoMore[r] = <<>> /\ NoMore[r] \in Seq(1..MaxEvents)
    BY OpenTypes, EmptySeq DEF NoMore
  <2>2. q \in Seq(1..MaxEvents) /\ Gone(c, o, c, <<>>, q) /\ (lost = {} => Kept(c, o, c, <<>>, q))
    BY <2>1, RequeuedGoes
  <2>3. o = Holding(r) \o queue[r]
    <3>1. <<>> \o OpenIn(s, r) = OpenIn(s, r)
      BY OpenTyped, ConcatEmptySeq
    <3> QED BY <2>1, <3>1, WaitingHolds
  <2>4. delivered'[r] = c /\ queue'[r] = q
    BY <1>1
  <2> HIDE DEF c, q, o
  <2> QED BY <2>2, <2>3, <2>4 DEF c, q
<1>4. queue' \in [Arms -> Seq(1..MaxEvents)]
  BY <1>1, <1>3
<1>5. SlotTyped(SlotSet')
  BY <1>2, <1>4, SlotsCleared
<1>6. \A r \in Arms : Holding(r)' = <<>>
  <2>1. <<>> \o <<>> = <<>>
    OBVIOUS
  <2> QED BY <1>2, <2>1, HoldingIs, Ones DEF NothingHeld
<1>7. \A r \in Arms : Drops(r) /\ (lost = {} => Moves(r))
  BY <1>3, <1>6, Zenon DEF Drops, Moves
<1>8. burst' \in [Arms -> 0..MaxEvents] /\ delivered' \in [Arms -> Seq(Nat)]
  BY <1>2, NothingHeldTyped DEF Custodial
<1> QED BY <1>2, <1>5, <1>7, <1>8 DEF Safe

\* The end of a turn whose slots hold no event.
LEMMA SettleClears ==
    ASSUME NEW t, NEW obs, Settle(t, obs), queue \in [Arms -> Seq(1..MaxEvents)],
           NEW q \in [Arms -> Seq(1..MaxEvents)], queue' = q
    PROVE  /\ pc' # "sink" /\ burst' = NothingHeld /\ held' = NothingHeld
           /\ SlotTyped(SlotSet') /\ \A r \in Arms : OpenIn(SlotSet', r) = q[r]
<1>1. /\ pc' # "sink" /\ burst' = NothingHeld /\ held' = NothingHeld
      /\ harvested' = NothingHarvested
  BY DEF Settle, Conclude
<1> QED BY <1>1, SlotsCleared DEF NothingHarvested

\* decide_turn hands the events of the slots to the sink, or gives them back.
LEMMA DecideSafe ==
    ASSUME Custodial, burst = NothingHeld, NEW s, SlotTyped(s),
           \A r \in Arms : OpenIn(s, r) = OpenIn(SlotSet, r), delivered' = delivered,
           NEW t, DecideTurn(s, t)
    PROVE  Safe
<1>1. CASE \E kind : Finish(s, kind, t)
  BY <1>1, FinishSafe
<1>2. CASE queue' = s.queue /\ EventArms(s) = {} /\ Settle(t, s.obs)
  <2>1. \A r \in Arms : s.held[r] = 0
    BY <1>2 DEF SlotTyped, EventArms
  <2>2. queue \in [Arms -> Seq(1..MaxEvents)] /\ s.queue \in [Arms -> Seq(1..MaxEvents)]
    BY SlotSetFields DEF Custodial, SlotTyped
  <2>3. /\ pc' # "sink" /\ burst' = NothingHeld
        /\ SlotTyped(SlotSet') /\ \A r \in Arms : OpenIn(SlotSet', r) = s.queue[r]
    BY <1>2, <2>2, SettleClears
  <2>4. ASSUME NEW r \in Arms PROVE OpenIn(SlotSet', r) = OpenIn(SlotSet, r)
    <3>1. <<>> \o s.queue[r] = s.queue[r]
      BY <2>2, ConcatEmptySeq
    <3>2. OpenIn(s, r) = s.queue[r]
      BY <2>1, <3>1 DEF OpenIn, InSlot
    <3> QED BY <2>3, <3>2
  <2> QED BY <2>3, <2>4, PausedSafe
<1>3. CASE /\ queue' = s.queue /\ pc' = "sink" /\ burst' = s.held
           /\ harvested' = Emptied(s).obs /\ held' = NothingHeld
  <2>1. SlotTyped(Emptied(s)) /\ Emptied(s).queue = s.queue /\ Emptied(s).held = NothingHeld
    BY EmptiedKeeps
  <2>2. SlotTyped(SlotSet')
    BY <1>3, <2>1, SlotsBecome
  <2>3. burst' \in [Arms -> 0..MaxEvents] /\ delivered' \in [Arms -> Seq(Nat)]
    BY <1>3 DEF SlotTyped, Custodial
  <2>4. ASSUME NEW r \in Arms PROVE Moves(r)
    <3>1. burst'[r] \in 0..MaxEvents /\ burst'[r] = s.held[r] /\ held'[r] = 0
      BY <1>3, <2>3 DEF NothingHeld
    <3>2. Holding(r)' = InSlot(s, r)
      BY <3>1, HoldingIs, Ones DEF InSlot, One
    <3>3. Holding(r)' \o queue'[r] = OpenIn(s, r)
      BY <1>3, <3>2 DEF OpenIn
    <3> QED BY <3>3, WaitingHolds, OpenMoves
  <2> QED BY <1>3, <2>2, <2>3, <2>4 DEF Safe
<1> QED BY <1>1, <1>2, <1>3 DEF DecideTurn

\* The sink answers Ok, and the burst is handed over; or it does not, or the
\* future is dropped, and the burst is gone.
LEMMA SinkOkSafe ==
    ASSUME Custodial, SinkOk
    PROVE  Safe
<1>1. /\ queue' = queue /\ Settle(reading, harvested) /\ held = NothingHeld
      /\ delivered' = [r \in Arms |-> IF burst[r] = 0 THEN delivered[r]
                                      ELSE Append(delivered[r], burst[r])]
  BY DEF SinkOk, Custodial, seamVars
<1>2. queue \in [Arms -> Seq(1..MaxEvents)]
  BY SlotSetFields DEF Custodial, SlotTyped
<1>3. /\ pc' # "sink" /\ burst' = NothingHeld /\ held' = NothingHeld /\ SlotTyped(SlotSet')
  BY <1>1, <1>2, SettleClears
<1>4. ASSUME NEW r \in Arms PROVE delivered'[r] \in Seq(Nat) /\ Moves(r)
  <2> DEFINE c == delivered[r]
             x == One(burst[r])
             q == queue[r]
  <2>1. c \in Seq(Nat) /\ q \in Seq(Nat) /\ burst[r] \in 0..MaxEvents
    BY OpenTypes DEF Custodial
  <2>2. x \in Seq(Nat)
    BY <2>1, Ones
  <2>3. Holding(r) = x
    BY <1>1, <2>1, HoldingIs, Ones DEF NothingHeld
  <2>4. delivered'[r] = c \o x
    <3>1. CASE burst[r] = 0
      BY <1>1, <2>1, <3>1, Ones, ConcatEmptySeq
    <3>2. CASE burst[r] # 0
      <4>1. burst[r] \in Nat /\ x = <<burst[r]>>
        BY <2>1, <3>2, SeamAssumption DEF One
      <4>2. Append(c, burst[r]) = c \o <<burst[r]>>
        BY <2>1, <4>1, AppendIsConcat
      <4> QED BY <1>1, <3>2, <4>1, <4>2
    <3> QED BY <3>1, <3>2
  <2>5. Holding(r)' = <<>> /\ queue'[r] = q
    <3>1. <<>> \o <<>> = <<>>
      OBVIOUS
    <3> QED BY <1>1, <1>3, <3>1, HoldingIs, Ones DEF NothingHeld
  <2> HIDE DEF c, x, q
  <2>6. <<>> \o q = q
    BY <2>1, ConcatEmptySeq
  <2>7. Kept(c, x \o q, c \o x, <<>>, q)
    BY <2>2, <2>6, Zenon DEF Kept
  <2>8. Moves(r)
    BY <2>3, <2>4, <2>5, <2>7, Zenon DEF Moves, c, q
  <2>9. c \o x \in Seq(Nat)
    BY <2>1, <2>2, ConcatProperties
  <2> QED BY <2>4, <2>8, <2>9
<1>5. burst' \in [Arms -> 0..MaxEvents] /\ delivered' \in [Arms -> Seq(Nat)]
  BY <1>1, <1>3, <1>4, NothingHeldTyped
<1> QED BY <1>3, <1>4, <1>5 DEF Safe

LEMMA LostSafe ==
    ASSUME Custodial, NEW kind \in Losers, NEW t, Conclude(kind, t), UNCHANGED <<queue, delivered>>
    PROVE  Safe
<1>1. /\ pc' = "idle" /\ held' = NothingHeld /\ burst' = NothingHeld
      /\ harvested' = NothingHarvested /\ outcome'.kind \in Losers
  BY DEF Conclude
<1>2. queue' \in [Arms -> Seq(1..MaxEvents)]
  BY SlotSetFields DEF Custodial, SlotTyped
<1>3. SlotTyped(SlotSet')
  BY <1>1, <1>2, SlotsCleared DEF NothingHarvested
<1>4. ASSUME NEW r \in Arms PROVE Drops(r)
  <2> DEFINE x == Holding(r)
             q == queue[r]
  <2>1. x \in Seq(Nat) /\ q \in Seq(Nat)
    BY OpenTypes
  <2>2. Holding(r)' = <<>>
    <3>1. <<>> \o <<>> = <<>>
      OBVIOUS
    <3> QED BY <1>1, <3>1, HoldingIs, Ones DEF NothingHeld
  <2>3. delivered'[r] = delivered[r] /\ queue'[r] = q
    OBVIOUS
  <2>4. Drops(r) <=> Gone(delivered[r], x \o q, delivered'[r], <<>>, q)
    BY <2>2, <2>3, Zenon DEF Drops
  <2> HIDE DEF x, q
  <2>5. Keeping(x, {}) = <<>> /\ <<>> \o q = q
    BY <2>1, KeepingNone, ConcatEmptySeq
  <2>6. q = Keeping(x, {}) \o q
    BY <2>5
  <2>7. {} \in SUBSET Nat
    OBVIOUS
  <2>8. \E a, b \in Seq(Nat), S \in SUBSET Nat : x \o q = a \o b /\ q = Keeping(a, S) \o b
    BY <2>1, <2>6, <2>7, Zenon
  <2> QED BY <2>3, <2>4, <2>8, Zenon DEF Gone
<1> QED BY <1>1, <1>3, <1>4, NothingHeldTyped DEF Safe, Custodial

-----------------------------------------------------------------------------
(* The steps.                                                              *)

LEMMA StepSafe ==
    ASSUME Inv, Custodial, [Next]_vars
    PROVE  \/ Safe /\ arrived' = arrived
           \/ (\E r \in Arms : Arrive(r)) /\ UNCHANGED followVars
<1>1. pc # "sink" => burst = NothingHeld
  BY DEF Inv, Hands
<1>2. SlotTyped(SlotSet) /\ SlotSet.queue = queue
  BY SlotSetFields DEF Custodial
<1>3. CASE UNCHANGED vars
  BY <1>3, StillSafe DEF vars, followVars, slotVars, seamVars
<1>4. CASE Environment /\ UNCHANGED followVars
  <2>1. CASE \E r \in Arms : Arrive(r)
    BY <1>4, <2>1
  <2>2. CASE ~\E r \in Arms : Arrive(r)
    <3>1. UNCHANGED <<queue, arrived>>
      BY <1>4, <2>2 DEF Environment, Raise, ReleaseHang, Tick, Trigger
    <3> QED BY <1>4, <3>1, StillSafe DEF followVars, slotVars
  <2> QED BY <2>1, <2>2
<1>5. CASE StartSession
  <2>1. /\ pc = "idle" /\ pc' # "sink" /\ UNCHANGED <<queue, burst, delivered, arrived>>
        /\ held' = NothingHeld /\ harvested' = NothingHarvested
    BY <1>5 DEF StartSession, NewSlots, observerVars
  <2>2. held = NothingHeld /\ burst = NothingHeld
    BY <1>1, <2>1 DEF Inv, Hands, AwaitsHoldNothing
  <2>3. queue' \in [Arms -> Seq(1..MaxEvents)]
    BY <1>2, <2>1 DEF SlotTyped
  <2>4. SlotTyped(SlotSet') /\ \A r \in Arms : OpenIn(SlotSet', r) = queue'[r]
    BY <2>1, <2>3, SlotsCleared DEF NothingHarvested
  <2>5. ASSUME NEW r \in Arms PROVE OpenIn(SlotSet', r) = OpenIn(SlotSet, r)
    <3>1. OpenIn(SlotSet, r) = <<>> \o queue[r] /\ <<>> \o queue[r] = queue[r]
      BY <2>2, SlotSetFields, ConcatEmptySeq DEF OpenIn, InSlot, NothingHeld
    <3> QED BY <2>1, <2>4, <3>1
  <2> QED BY <2>1, <2>2, <2>4, <2>5, PausedSafe
<1>6. CASE StartUncited \/ TopSelect \/ PollSleep \/ Rest
  <2>1. /\ UNCHANGED <<harvested, held, queue, burst, delivered, arrived>>
        /\ pc' = "sink" => pc = "sink"
    BY <1>6 DEF StartUncited, TopSelect, PollSleep, Rest, slotVars, seamVars
  <2> QED BY <2>1, StillSafe
<1>7. CASE Abandon \/ SinkErr
  <2>1. PICK kind \in Losers : \E t : Conclude(kind, t)
    BY <1>7 DEF Abandon, SinkErr, Losers
  <2>2. UNCHANGED <<queue, delivered, arrived>>
    BY <1>7 DEF Abandon, SinkErr, seamVars
  <2> QED BY <2>1, <2>2, LostSafe
<1>8. CASE SinkOk
  BY <1>8, SinkOkSafe DEF SinkOk, seamVars
<1>9. CASE TopPosture \/ TopCancelled
  <2>1. /\ pc = "top" /\ UNCHANGED <<delivered, arrived>>
        /\ \E kind, t : Finish(SlotSet, kind, t)
    BY <1>9 DEF TopPosture, TopCancelled, observerVars
  <2> QED BY <1>1, <1>2, <2>1, FinishSafe
<1>10. CASE Collect \/ PollCancel \/ Wake
  <2>1. /\ pc \in {"collect", "cancel", "wake"} /\ pc' # "sink"
        /\ UNCHANGED <<burst, delivered, arrived>>
        /\ \/ \E s \in {SlotSet, Rearmed(SlotSet)} : PollInto(s)
           \/ UNCHANGED <<harvested, held, queue>>
    BY <1>10 DEF Collect, PollCancel, Wake, observerVars, slotVars
  <2>2. burst = NothingHeld
    BY <1>1, <2>1
  <2>3. CASE \E s \in {SlotSet, Rearmed(SlotSet)} : PollInto(s)
    <3>1. /\ SlotTyped(SlotSet')
          /\ \A r \in Arms : OpenIn(SlotSet', r) = OpenIn(SlotSet, r)
      BY <1>2, <2>3, PollIntoKeeps
    <3> QED BY <2>1, <2>2, <3>1, PausedSafe
  <2>4. CASE UNCHANGED <<harvested, held, queue>>
    BY <2>1, <2>4, StillSafe
  <2> QED BY <2>1, <2>3, <2>4
<1>11. CASE Extend \/ Decide
  <2>1. /\ pc \in {"extend", "decide"} /\ UNCHANGED <<delivered, arrived>>
        /\ \E s \in {SlotSet, Extended(SlotSet)} : \E t : DecideTurn(s, t)
    BY <1>11 DEF Extend, Decide, observerVars
  <2>2. PICK s \in {SlotSet, Extended(SlotSet)} : \E t : DecideTurn(s, t)
    BY <2>1
  <2>3. SlotTyped(s) /\ \A r \in Arms : OpenIn(s, r) = OpenIn(SlotSet, r)
    BY <1>2, ExtendedKeeps
  <2>4. burst = NothingHeld
    BY <1>1, <2>1
  <2> QED BY <2>1, <2>2, <2>3, <2>4, DecideSafe
<1> QED BY <1>3, <1>4, <1>5, <1>6, <1>7, <1>8, <1>9, <1>10, <1>11 DEF Next, Caller, Runner

-----------------------------------------------------------------------------
(* The seam's promise, arm by arm.                                         *)

LEMMA SeenIs ==
    ASSUME NEW r \in Arms
    PROVE  /\ Seen!Move(r) <=>
                Handing(delivered[r], delivered[r] \o Holding(r) \o queue[r],
                        delivered'[r], delivered'[r] \o Holding(r)' \o queue'[r])
           /\ Seen!Lose(r) <=>
                Losing(delivered[r], Holding(r) \o queue[r], delivered'[r], Holding(r)', queue'[r])
<1>1. \A s, S : Seen!Keeping(s, S) = Keeping(s, S)
  BY DEF Seen!Keeping, Keeping
<1>2. Seen!Stream(r) = delivered[r] \o Holding(r) \o queue[r]
  BY DEF Seen!Stream
<1>3. Seen!Stream(r)' = delivered'[r] \o Holding(r)' \o queue'[r]
  BY DEF Seen!Stream
<1>4. Seen!Move(r) <=>
        Handing(delivered[r], Seen!Stream(r), delivered'[r], Seen!Stream(r)')
  BY Zenon DEF Seen!Move, Seen!Extends, Handing, Begins
<1>5. Seen!Lose(r) <=>
        Losing(delivered[r], Holding(r) \o queue[r], delivered'[r], Holding(r)', queue'[r])
  BY <1>1 DEF Seen!Lose, Losing, Elements
<1> QED BY <1>2, <1>3, <1>4, <1>5

\* What an arm has after a safe step.
LEMMA OpenTypesNext ==
    ASSUME Safe, NEW r \in Arms
    PROVE  delivered'[r] \in Seq(Nat) /\ Holding(r)' \in Seq(Nat) /\ queue'[r] \in Seq(Nat)
<1>1. delivered'[r] \in Seq(Nat) /\ burst'[r] \in 0..MaxEvents
  BY DEF Safe
<1>2. SlotSet'.queue = queue' /\ SlotSet'.held = held'
  BY DEF SlotSet
<1>3. queue'[r] \in Seq(Nat) /\ held'[r] \in 0..MaxEvents
  BY <1>2, OpenTyped DEF Safe, SlotTyped
<1>4. One(burst'[r]) \in Seq(Nat) /\ One(held'[r]) \in Seq(Nat)
  BY <1>1, <1>3, Ones
<1>5. Holding(r)' \in Seq(Nat)
  BY <1>4, HoldingIs, ConcatProperties
<1> QED BY <1>1, <1>3, <1>5

LEMMA ArmSafe ==
    ASSUME Custodial, Safe, arrived' = arrived, NEW r \in Arms
    PROVE  /\ InOrder(Stream(r)', arrived'[r])
           /\ Moves(r) => Seen!Move(r)
           /\ Drops(r) => Seen!Lose(r)
<1> DEFINE c == delivered[r]
           i == Holding(r)
           q == queue[r]
           d == delivered'[r]
           h == Holding(r)'
           p == queue'[r]
           n == arrived[r]
<1>1. /\ c \in Seq(Nat) /\ i \in Seq(Nat) /\ q \in Seq(Nat)
      /\ d \in Seq(Nat) /\ h \in Seq(Nat) /\ p \in Seq(Nat) /\ n \in Nat /\ arrived'[r] = n
  BY OpenTypes, OpenTypesNext DEF Custodial
<1>2. InOrder(c \o (i \o q), n) /\ Stream(r)' = d \o (h \o p)
  BY DEF Custodial, Stream
<1>3. /\ Moves(r) <=> Kept(c, i \o q, d, h, p)
      /\ Drops(r) <=> Gone(c, i \o q, d, h, p)
  BY Zenon DEF Moves, Drops
<1>4. /\ Seen!Move(r) <=> Handing(c, c \o i \o q, d, d \o h \o p)
      /\ Seen!Lose(r) <=> Losing(c, i \o q, d, h, p)
  BY SeenIs
<1>5. Moves(r) \/ Drops(r)
  BY DEF Safe
<1> HIDE DEF c, i, q, d, h, p, n
<1>6. ASSUME Kept(c, i \o q, d, h, p)
      PROVE  InOrder(d \o (h \o p), n) /\ Handing(c, c \o i \o q, d, d \o h \o p)
  <2>1. d \o (h \o p) = c \o (i \o q) /\ Handing(c, c \o i \o q, d, d \o h \o p)
    BY <1>1, <1>6, ArmHands
  <2> QED BY <1>2, <2>1
<1>7. ASSUME Gone(c, i \o q, d, h, p)
      PROVE  InOrder(d \o (h \o p), n) /\ Losing(c, i \o q, d, h, p)
  BY <1>1, <1>2, <1>7, ArmGoes
<1> QED BY <1>1, <1>2, <1>3, <1>4, <1>5, <1>6, <1>7

\* The source of an arm emits an event, later than all before it.
LEMMA ArrivalSafe ==
    ASSUME Custodial, NEW r \in Arms, Arrive(r), UNCHANGED followVars
    PROVE  Custodial' /\ \A a \in Arms : Seen!Move(a)
<1>1. /\ queue' = [queue EXCEPT ![r] = Append(@, arrived[r] + 1)]
      /\ arrived' = [arrived EXCEPT ![r] = @ + 1]
      /\ UNCHANGED <<pc, harvested, held, burst, delivered>>
  BY DEF Arrive, followVars, slotVars
<1>2. arrived \in [Arms -> Nat] /\ queue \in [Arms -> Seq(1..MaxEvents)]
  BY SlotSetFields DEF Custodial, SlotTyped
<1>3. arrived[r] + 1 \in 1..MaxEvents
  BY <1>2, SeamAssumption DEF Arrive
<1>4. arrived' \in [Arms -> Nat] /\ queue' \in [Arms -> Seq(1..MaxEvents)]
  <2>1. queue[r] \in Seq(1..MaxEvents)
    BY <1>2
  <2>2. Append(queue[r], arrived[r] + 1) \in Seq(1..MaxEvents)
    BY <1>3, <2>1, AppendProperties
  <2> QED BY <1>1, <1>2, <2>2
<1>5. SlotTyped(SlotSet')
  <2>1. SlotSet' = [obs |-> harvested, held |-> held, queue |-> queue']
    BY <1>1 DEF SlotSet
  <2> QED BY <1>4, <2>1, SlotSetFields DEF Custodial, SlotTyped
<1>6. ASSUME NEW a \in Arms
      PROVE  InOrder(Stream(a)', arrived'[a]) /\ Seen!Move(a)
  <2> DEFINE c == delivered[a]
             h == Holding(a)
             p == queue[a]
             n == arrived[a]
             t == queue'[a]
  <2>1. c \in Seq(Nat) /\ h \in Seq(Nat) /\ p \in Seq(Nat) /\ n \in Nat
    BY <1>2, OpenTypes
  <2>2. InOrder(c \o (h \o p), n)
    BY DEF Custodial, Stream
  <2>3. delivered'[a] = c /\ Holding(a)' = h
    BY <1>1, HoldingIs
  <2>4. Stream(a)' = c \o (h \o t)
    BY <2>3 DEF Stream
  <2>5. Seen!Move(a) <=> Handing(c, c \o h \o p, c, c \o h \o t)
    BY <2>3, SeenIs
  <2>6. \/ a = r /\ t = Append(p, n + 1) /\ arrived'[a] = n + 1
        \/ t = p /\ arrived'[a] = n
    BY <1>1, <1>2
  <2> HIDE DEF c, h, p, n, t
  <2>7. /\ InOrder(c \o (h \o Append(p, n + 1)), n + 1)
        /\ Handing(c, c \o h \o p, c, c \o h \o Append(p, n + 1))
        /\ Handing(c, c \o h \o p, c, c \o h \o p)
    BY <2>1, <2>2, ArmGrows
  <2> QED BY <2>2, <2>4, <2>5, <2>6, <2>7
<1>7. Custodial'
  BY <1>1, <1>4, <1>5, <1>6 DEF Custodial
<1> QED BY <1>6, <1>7

LEMMA CustodyStep ==
    ASSUME Inv, Custodial, [Next]_vars
    PROVE  Custodial' /\ Seen!Next
<1>1. CASE Safe /\ arrived' = arrived
  <2>1. Custodial'
    BY <1>1, ArmSafe DEF Custodial, Safe
  <2>2. CASE \A r \in Arms : Moves(r)
    BY <1>1, <2>1, <2>2, ArmSafe DEF Seen!Next
  <2>3. CASE outcome'.kind \in Losers /\ \A r \in Arms : Drops(r)
    BY <1>1, <2>1, <2>3, ArmSafe DEF Seen!Next, Losers
  <2> QED BY <1>1, <2>1, <2>2, <2>3 DEF Safe
<1>2. CASE (\E r \in Arms : Arrive(r)) /\ UNCHANGED followVars
  BY <1>2, ArrivalSafe DEF Seen!Next
<1> QED BY <1>1, <1>2, StepSafe

LEMMA CustodyInit == Init => Custodial /\ Seen!Init
<1> SUFFICES ASSUME Init PROVE Custodial /\ Seen!Init
  OBVIOUS
<1>1. /\ arrived = [r \in Arms |-> 0] /\ queue = [r \in Arms |-> <<>>]
      /\ harvested = NothingHarvested /\ held = NothingHeld /\ burst = NothingHeld
      /\ delivered = [r \in Arms |-> <<>>] /\ outcome.kind = "none"
  BY DEF Init, SeamInit, SlotsInit
<1>2. <<>> \o <<>> = <<>> /\ <<>> \in Seq(1..MaxEvents) /\ <<>> \in Seq(Nat)
  BY EmptySeq
<1>3. \A r \in Arms : Holding(r) = <<>> /\ Stream(r) = <<>>
  BY <1>1, <1>2, HoldingIs, Ones DEF NothingHeld, Stream
<1>4. InOrder(<<>>, 0)
  BY DEF InOrder, Increasing, Elements
<1>5. SlotTyped(SlotSet)
  BY <1>1, <1>2, SlotSetFields, NothingHeldTyped DEF SlotTyped, NothingHarvested, NothingHeld
<1>6. Custodial
  BY <1>1, <1>2, <1>3, <1>4, <1>5, NothingHeldTyped DEF Custodial
<1>7. Seen!Init
  BY <1>1, <1>3 DEF Seen!Init
<1> QED BY <1>6, <1>7

\* run_follow keeps the seam's promise, for every set of arms, every lease and
\* every way its sink, its observers and its caller behave: events are handed on,
\* given back and delivered without being reordered, duplicated or taken back,
\* and are lost only with an Err of the sink or of a restore, or with a future
\* that is dropped while the sink has them.
THEOREM CustodyIsKept == Spec => KeepsCustody
<1>1. Inv /\ Custodial /\ [Next]_vars => Custodial' /\ Seen!Next
  BY CustodyStep
<1>2. Spec => Seen!Init /\ [][Seen!Next]_vars
  BY <1>1, CustodyInit, Invariance, PTL DEF Spec
<1>3. [Seen!Next]_vars => [Seen!Next]_(Seen!custodyVars)
  BY HoldingIs DEF vars, seamVars, followVars, slotVars, Seen!custodyVars
<1> QED BY <1>2, <1>3, PTL DEF KeepsCustody, Seen!Spec
=============================================================================
