------------------------------- MODULE Coalesce -------------------------------
(***************************************************************************)
(* run_coalesce: a held session over the slots of run_follow that keeps    *)
(* quiet events in a bounded window (Pending) until its timer is due, and  *)
(* hands urgent ones to the sink at once.                                  *)
(*                                                                         *)
(* Every way out of the select! polls all slots and decides the turn, so   *)
(* the places of Follow that differ only in what is polled are one here:   *)
(*   idle, top, collect, cancel, sleep, backoff   as in Follow             *)
(*   due       the posture holds, and the clock is about to be read again  *)
(*   head      the head of the loop has found something due                *)
(*   late      ... and has polled the slots                                *)
(*   wake      a branch other than CollectTurn has completed               *)
(*   extend    ... and has polled the slots                                *)
(*   decide    CollectTurn has completed                                   *)
(*   sink      on_burst is awaited                                         *)
(***************************************************************************)
EXTENDS Slots

CONSTANTS
    Urgent,       \* the arms whose priority is at or above urgent_at
    Interval,     \* min_emit_interval, in instants
    MaxTake,      \* aggregate_limits.max_events
    MaxTakeOf,    \* [Arms -> bounds.max_events]
    Oversized     \* [Arms -> events too big for any byte bound]

ASSUME CoalesceAssumption ==
    /\ Urgent \subseteq Arms
    /\ Interval \in Nat
    /\ MaxTake \in Nat
    /\ MaxTakeOf \in [Arms -> Nat]
    /\ Oversized \in [Arms -> SUBSET (1..MaxEvents)]

VARIABLES
    pc,
    reading,     \* the instant the turn in progress is decided at
    resume,      \* where the session goes on after the turn
    pending,     \* the window: events <<arm, number>> in the order they came
    quietAt,     \* next_quiet_emit_at, or NoQuiet
    burst,       \* the events the sink has
    purpose,     \* why it has them: "quiet", "urgent" or "final"
    outcome,     \* the end or the error of the last session, and its instant
    delivered,   \* [Arms -> events whose sink call answered Ok, in order]
    emitted,     \* history: the reading of the last quiet emit, or NoQuiet
    opened       \* history: the reading of the turn that opened the window

windowVars == <<pending, quietAt>>
sinkVars == <<burst, purpose, delivered, emitted>>
coalesceVars == <<pc, request, slotVars, backoff, reading, resume, windowVars, sinkVars, outcome>>
vars == <<seamVars, coalesceVars, opened>>

NoQuiet == -1

Init ==
    /\ SeamInit
    /\ SlotsInit
    /\ pc = "idle"
    /\ reading = 0
    /\ resume = "top"
    /\ pending = <<>>
    /\ quietAt = NoQuiet
    /\ burst = <<>>
    /\ purpose = "quiet"
    /\ outcome = [kind |-> "none", at |-> 0]
    /\ delivered = [r \in Arms |-> <<>>]
    /\ emitted = NoQuiet
    /\ opened = 0

-----------------------------------------------------------------------------
(* The window. *)

\* The events in es of the arms of S, and those of arm r as numbers.
From(es, S) == Keeping(es, S \X (1..MaxEvents))
Of(es, r) == [i \in 1..Len(From(es, {r})) |-> From(es, {r})[i][2]]

\* take_events, in the order of the set.
TurnEvents(s) ==
    LET upto[r \in 0..N] == IF r = 0 THEN <<>>
                            ELSE IF s.obs[r] = "event" THEN Append(upto[r - 1], <<r, s.held[r]>>)
                            ELSE upto[r - 1]
    IN  upto[N]

\* Whether try_push accepts every event of a window. The variant minds the
\* bounds of the arms only.
FitsEachArm(es) ==
    \A r \in Arms : Len(Of(es, r)) <= MaxTakeOf[r]
                    /\ \A i \in 1..Len(Of(es, r)) : Of(es, r)[i] \notin Oversized[r]
Fits(es) ==
    /\ Len(es) <= MaxTake
    /\ \A r \in Arms : Len(Of(es, r)) <= MaxTakeOf[r]
                       /\ \A i \in 1..Len(Of(es, r)) : Of(es, r)[i] \notin Oversized[r]

IntervalDue(at, t) == at # NoQuiet /\ t >= at

-----------------------------------------------------------------------------
(* How a session ends. *)

Conclude(kind, t) ==
    /\ pc' = "idle"
    /\ outcome' = [kind |-> kind, at |-> t]
    /\ harvested' = NothingHarvested
    /\ held' = NothingHeld
    /\ fault' = FALSE
    /\ pending' = <<>>
    /\ burst' = <<>>

\* restore_custody of the events es and of the slots s, each restore tried;
\* an Err of one of them replaces the end.
RestoreAndEnd(s, es, kind, t) ==
    LET more == [r \in Arms |-> Of(es, r)]
    IN  \E lost \in Failures(s, more) :
          /\ queue' = [r \in Arms |-> Requeued(s, more, lost, r)]
          /\ Conclude(IF lost = {} THEN kind ELSE "restore", t)

\* The turn is over and the session goes on with its slots armed.
GoOn(place) ==
    /\ pc' = place
    /\ harvested' = NothingHarvested
    /\ held' = NothingHeld
    /\ UNCHANGED <<fault, outcome>>

\* on_burst is called with es, which leaves window in the window.
CallSink(why, es, window, s) ==
    /\ pc' = "sink"
    /\ purpose' = why
    /\ burst' = es
    /\ pending' = window
    /\ harvested' = Emptied(s).obs
    /\ held' = NothingHeld
    /\ UNCHANGED <<fault, outcome>>

\* The end a final flush leaves when no terminal was harvested: cancel, unless
\* the turn began at a deadline.
FinalEnd(t, obs) ==
    IF HasTerminal(obs) THEN "terminal_arm"
    ELSE IF AtDeadline(t) THEN DeadlineEnd
    ELSE "cancel"

-----------------------------------------------------------------------------
(* decide_coalesce on slots s at instant t. *)

Fails(s, t) ==
    /\ PostureErr(t) # "ok" \/ fault
    /\ RestoreAndEnd(s, pending, IF PostureErr(t) # "ok" THEN PostureErr(t) ELSE "fault", t)
    /\ UNCHANGED <<quietAt, purpose, emitted>>

Goes(t) == PostureErr(t) = "ok" /\ ~fault
Finishing(s, t) == HasTerminal(s.obs) \/ cancelled \/ AtDeadline(t)

\* final_flush: the window and the events of the turn, in one burst.
FinalFlush(s, t) ==
    LET all == pending \o TurnEvents(s)
    IN  /\ Goes(t)
        /\ Finishing(s, t)
        /\ UNCHANGED <<quietAt, emitted>>
        /\ \/ /\ ~Fits(all)
              /\ RestoreAndEnd(Emptied(s), all, "overflow", t)
              /\ UNCHANGED purpose
           \/ /\ Fits(all)
              /\ queue' = s.queue
              /\ IF all # <<>> THEN CallSink("final", all, <<>>, s)
                 ELSE Conclude(FinalEnd(t, s.obs), t) /\ UNCHANGED purpose

\* apply_turn. The timer starts at the first quiet event; when it is due, or
\* was already, everything goes out together (emit_quiet). Urgent events
\* otherwise overtake the window. One variant starts the timer anew with every
\* quiet event, the other leaves it to the emits.
TimerLeft(es, t) == quietAt
TimerRestarted(es, t) ==
    IF \E i \in 1..Len(es) : es[i][1] \notin Urgent THEN t + Interval ELSE quietAt
TimerStarted(es, t) ==
    IF quietAt = NoQuiet /\ \E i \in 1..Len(es) : es[i][1] \notin Urgent
    THEN t + Interval ELSE quietAt

ApplyTurn(s, t, place) ==
    LET es == TurnEvents(s)
        at == TimerStarted(es, t)
        due == IntervalDue(at, t)
        urgent == From(es, Urgent)
        quiet == From(es, Arms \ Urgent)
        window == IF due THEN pending \o es ELSE pending \o quiet
    IN  /\ Goes(t)
        /\ ~Finishing(s, t)
        /\ quietAt' = at
        /\ \/ /\ ~Fits(window)
              /\ RestoreAndEnd(Emptied(s), pending \o es, "overflow", t)
              /\ UNCHANGED <<purpose, emitted>>
           \/ /\ Fits(window)
              /\ queue' = s.queue
              /\ IF due /\ window # <<>>
                 THEN CallSink("quiet", window, <<>>, s) /\ emitted' = t
                 ELSE IF urgent # <<>>
                 THEN CallSink("urgent", urgent, window, s) /\ UNCHANGED emitted
                 ELSE GoOn(place) /\ pending' = window /\ UNCHANGED <<burst, purpose, emitted>>

\* place is where the session goes on if nothing ends it.
DecideCoalesce(s, t, place) ==
    /\ reading' = t
    /\ resume' = place
    /\ Fails(s, t) \/ FinalFlush(s, t) \/ ApplyTurn(s, t, place)

-----------------------------------------------------------------------------
(* The caller and its sink. *)

\* A session that resolve() and the deadline ordering let through starts, or
\* is turned down for its posture.
StartSession ==
    /\ pc = "idle"
    /\ outcome.kind = "none"
    /\ request' \in {q \in Requests : q.run <= q.logical /\ (AuthnRequired \/ q.receipt)}
    /\ NewSlots
    /\ UNCHANGED <<seamVars, reading, resume, pending, sinkVars>>
    /\ quietAt' = NoQuiet
    /\ LET posture == PostureErr(now)'
       IN  IF posture = "ok"
           THEN pc' = "top" /\ UNCHANGED outcome
           ELSE pc' = "idle" /\ outcome' = [kind |-> posture, at |-> now]

\* The caller drops the future where it is suspended: nothing is flushed.
Abandon ==
    /\ pc \in {"collect", "backoff", "sink"}
    /\ Conclude("abandoned", now)
    /\ UNCHANGED <<seamVars, request, bound, backoff, reading, resume, quietAt, purpose,
                   delivered, emitted>>

\* on_burst answers Ok. A quiet emit starts the next interval at the instant
\* its turn was decided on; a final one ends the session. The variant forgets
\* the interval.
NextQuietKept == quietAt
NextQuiet == IF purpose = "quiet" THEN reading + Interval ELSE quietAt
SinkOk ==
    /\ pc = "sink"
    /\ delivered' = [r \in Arms |-> delivered[r] \o Of(burst, r)]
    /\ quietAt' = NextQuiet
    /\ IF purpose = "final" THEN Conclude(FinalEnd(reading, harvested), reading)
       ELSE GoOn(resume) /\ burst' = <<>> /\ UNCHANGED pending
    /\ UNCHANGED <<seamVars, request, bound, backoff, reading, resume, purpose, emitted>>

\* on_burst answers Err: the burst is gone, and the window with it.
SinkErr ==
    /\ pc = "sink"
    /\ Conclude("sink", reading)
    /\ UNCHANGED <<seamVars, request, bound, backoff, reading, resume, quietAt, purpose,
                   delivered, emitted>>

\* The request cites another set, revision or waiter, or its run deadline is
\* after the logical one.
StartUncited ==
    /\ pc = "idle"
    /\ outcome.kind = "none"
    /\ outcome' = [kind |-> "uncited", at |-> now]
    /\ UNCHANGED <<seamVars, pc, request, slotVars, backoff, reading, resume, windowVars,
                   sinkVars>>

-----------------------------------------------------------------------------
(* The runner. *)

QuietDue(t) == pending # <<>> /\ IntervalDue(quietAt, t)

TopPosture ==
    /\ pc = "top"
    /\ PostureErr(now) # "ok"
    /\ RestoreAndEnd(SlotSet, pending, PostureErr(now), now)
    /\ UNCHANGED <<now, cancelled, observerVars, request, bound, backoff, reading, resume,
                   quietAt, purpose, delivered, emitted>>

TopHead ==
    /\ pc = "top"
    /\ PostureErr(now) = "ok"
    /\ pc' = "due"
    /\ UNCHANGED <<seamVars, request, slotVars, backoff, reading, resume, windowVars, sinkVars,
                   outcome>>

\* Something is due before the select!: the turn is decided on this second
\* reading of the clock, whatever it is when the slots have been polled.
HeadDue ==
    /\ pc = "due"
    /\ cancelled \/ AtDeadline(now) \/ QuietDue(now)
    /\ reading' = now
    /\ pc' = "head"
    /\ UNCHANGED <<seamVars, request, slotVars, backoff, resume, windowVars, sinkVars, outcome>>

HeadSelect ==
    /\ pc = "due"
    /\ ~(cancelled \/ AtDeadline(now) \/ QuietDue(now))
    /\ pc' = "collect"
    /\ UNCHANGED <<seamVars, request, slotVars, backoff, reading, resume, windowVars, sinkVars,
                   outcome>>

PollAtHead ==
    /\ pc = "head"
    /\ PollInto(SlotSet)
    /\ pc' = "late"
    /\ UNCHANGED <<now, cancelled, observerVars, request, backoff, reading, resume, windowVars,
                   sinkVars, outcome>>

Late ==
    /\ pc = "late"
    /\ DecideCoalesce(Extended(SlotSet), reading, "collect")
    /\ UNCHANGED <<now, cancelled, observerVars, request, bound, backoff, delivered>>

\* A backoff never sleeps past the timer of an open window.
BackoffCap == IF pending # <<>> /\ quietAt # NoQuiet THEN EarlierOf(quietAt, EarliestWake)
              ELSE EarliestWake
Collect ==
    LET obs == Polled(SlotSet).obs
    IN  /\ pc = "collect"
        /\ PollInto(SlotSet)
        /\ IF Faults(SlotSet) \/ Ready(obs)
           THEN pc' = "decide" /\ UNCHANGED backoff
           ELSE IF \E r \in Arms : obs[r] = "idle"
           THEN /\ pc' = "backoff"
                /\ backoff' = [step |-> NextStep, wake |-> BackoffWake(NextStep, BackoffCap)]
           ELSE pc' = "cancel" /\ UNCHANGED backoff
        /\ UNCHANGED <<now, cancelled, observerVars, request, reading, resume, windowVars,
                       sinkVars, outcome>>

PollCancel ==
    /\ pc = "cancel"
    /\ pc' = IF cancelled THEN "wake" ELSE "sleep"
    /\ UNCHANGED <<seamVars, request, slotVars, backoff, reading, resume, windowVars, sinkVars,
                   outcome>>

\* The third and the fourth branch: the deadlines and leases, and the timer of
\* an open window. The variant has no timer.
TimerIgnored == FALSE
TimerDue == QuietDue(now)
PollSleep ==
    /\ pc = "sleep"
    /\ pc' = IF now >= EarliestWake \/ TimerDue THEN "wake" ELSE "collect"
    /\ UNCHANGED <<seamVars, request, slotVars, backoff, reading, resume, windowVars, sinkVars,
                   outcome>>

Rest ==
    /\ pc = "backoff"
    /\ Rested
    /\ pc' = "wake"
    /\ UNCHANGED <<seamVars, request, slotVars, backoff, reading, resume, windowVars, sinkVars,
                   outcome>>

Wake ==
    /\ pc = "wake"
    /\ PollInto(Rearmed(SlotSet))
    /\ pc' = "extend"
    /\ UNCHANGED <<now, cancelled, observerVars, request, backoff, reading, resume, windowVars,
                   sinkVars, outcome>>

Extend ==
    /\ pc = "extend"
    /\ DecideCoalesce(Extended(SlotSet), now, "top")
    /\ UNCHANGED <<now, cancelled, observerVars, request, bound, backoff, delivered>>

Decide ==
    /\ pc = "decide"
    /\ DecideCoalesce(SlotSet, now, "top")
    /\ UNCHANGED <<now, cancelled, observerVars, request, bound, backoff, delivered>>

Runner ==
    \/ TopPosture \/ TopHead \/ HeadDue \/ HeadSelect \/ PollAtHead \/ Late
    \/ Collect \/ PollCancel \/ PollSleep
    \/ Rest \/ Wake \/ Extend \/ Decide

Caller == StartSession \/ StartUncited \/ Abandon \/ SinkOk \/ SinkErr

Next ==
    /\ \/ Environment /\ UNCHANGED coalesceVars
       \/ Caller
       \/ Runner
    /\ opened' = IF pending = <<>> THEN reading' ELSE opened

Spec == Init /\ [][Next]_vars

\* A runtime polls a task that has been woken. Nothing is assumed of the
\* clock, the sources, the caller or its sink.
LiveSpec == Spec /\ WF_<<seamVars, coalesceVars>>(Runner)

-----------------------------------------------------------------------------
(* Properties. *)

Event == Arms \X (1..MaxEvents)

\* An open window always has a timer and holds no urgent event back, whatever
\* mix of quiet, urgent and timed turns has filled and emptied it.
WindowKept ==
    /\ pending # <<>> => quietAt # NoQuiet
    /\ \A i \in 1..Len(pending) : pending[i][1] \notin Urgent

\* The window, and what is flushed from it together with a turn, is within
\* every bound of the set: more than that ends the session and goes back.
InBounds(es) == Len(es) <= MaxTake /\ \A r \in Arms : Len(Of(es, r)) <= MaxTakeOf[r]
WithinBounds == InBounds(pending) /\ (purpose # "urgent" => InBounds(burst))

\* No event waits in the window for longer than the interval: its timer was
\* started by the turn that opened it or by the emit before that, and no later
\* turn puts it off.
TimerNotPutOff == pending # <<>> => quietAt <= opened + Interval

\* min_emit_interval is the minimum gap between non-terminal quiet emits,
\* counted from decision to decision.
QuietGap ==
    [][pc # "sink" /\ pc' = "sink" /\ purpose' = "quiet" =>
         emitted = NoQuiet \/ reading' >= emitted + Interval]_vars

\* The events of an arm reach the sink in the order they came, the window's
\* before those of the turn, and none is lost but by an Err of the sink or of
\* a restore, or with a future that is dropped.
Holding(r) ==
    Of(burst, r) \o Of(pending, r) \o (IF held[r] = 0 THEN <<>> ELSE <<held[r]>>)
Seen == INSTANCE Custody WITH
    provider <- queue,
    held <- [r \in Arms |-> Holding(r)],
    consumed <- delivered,
    erred <- outcome.kind \in {"sink", "restore", "abandoned"}
KeepsCustody == Seen!Spec

SinkAnswers == []<>(pc # "sink")

\* A triggered token ends the session, and so does a clock that has come to a
\* deadline or to the end of a lease, even if it then stands still; if the sink
\* answers.
StopsEnd ==
    SinkAnswers =>
        /\ pc # "idle" /\ cancelled ~> pc = "idle"
        /\ pc # "idle" /\ (AtDeadline(now) \/ \E r \in Arms : now >= Lease[r]) ~> pc = "idle"

\* Quiet events do not starve: once its timer is due the window is emptied,
\* although urgent events keep coming and arms make the session back off.
QuietServed == SinkAnswers => (QuietDue(now) ~> pending = <<>>)
=============================================================================
