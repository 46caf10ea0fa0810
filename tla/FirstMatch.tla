----------------------------- MODULE FirstMatch -----------------------------
(***************************************************************************)
(* run_first_match: one live wait after another over the same observer.    *)
(*                                                                         *)
(* The runner is one task. Its steps are cut where other threads can be    *)
(* seen: at every await, and wherever it reads the clock again. pc names   *)
(* the place it stands at:                                                 *)
(*   idle      no wait is running (outcome is that of the last one)        *)
(*   top       the head of the loop                                        *)
(*   race      select!, first branch: poll the arms                        *)
(*   cancel    select!, second branch: the cancel token                    *)
(*   sleep     select!, third branch: the clock                            *)
(*   decide    the race has completed                                      *)
(*   deadline  sleep_until has completed                                   *)
(*   backoff   sleeping off an all-idle round                              *)
(*   finish    decided; finish() is about to read the clock again          *)
(*   return    the outcome is on its way to the caller                     *)
(***************************************************************************)
EXTENDS Seam

CONSTANTS
    AuthnRequired,   \* authn_mode = required
    BackoffSteps,    \* BACKOFF_MS, in instants
    MaxWaits         \* bound: waits over one observer

ASSUME FirstMatchAssumption ==
    /\ AuthnRequired \in BOOLEAN
    /\ BackoffSteps \in Seq(Nat)
    /\ Len(BackoffSteps) > 0
    /\ MaxWaits \in Nat

VARIABLES
    pc,
    request,     \* the live_wait_request of this wait
    bound,       \* whether every arm is bound (bound = Some)
    resolved,    \* the arms whose bind has resolved a start cursor
    slot,        \* [Arms -> "pending" or what the race or poll_ready got]
    held,        \* [Arms -> the event taken from the arm, or 0]
    backoff,     \* backoff_step, and the instant the sleep ends
    outcome,     \* the outcome decided or returned
    delivered,   \* [Arms -> events the caller received, in order]
    waits        \* waits started so far

runnerVars == <<pc, request, bound, resolved, slot, held, backoff, outcome, delivered, waits>>
vars == <<seamVars, runnerVars>>

Requests == [run : 0..Horizon, logical : 0..Horizon, receipt : BOOLEAN]
Kinds == {"none", "events", "partial", "no_change", "logical_deadman", "cancelled",
          "failed", "refused", "reauthentication_required", "error", "abandoned"}
PCs == {"idle", "top", "race", "cancel", "sleep", "decide", "deadline", "backoff",
        "finish", "return"}

Outcome(kind, at, arms, winner) == [kind |-> kind, at |-> at, arms |-> arms, winner |-> winner]
NothingHeld == [r \in Arms |-> 0]
AllPending == [r \in Arms |-> "pending"]

Init ==
    /\ SeamInit
    /\ pc = "idle"
    /\ request = [run |-> 0, logical |-> 0, receipt |-> TRUE]
    /\ bound = FALSE
    /\ resolved = {}
    /\ slot = AllPending
    /\ held = NothingHeld
    /\ backoff = [step |-> 0, wake |-> 0]
    /\ outcome = Outcome("none", 0, {}, 0)
    /\ delivered = [r \in Arms |-> <<>>]
    /\ waits = 0

-----------------------------------------------------------------------------
(* The decisions of the runner, without their effects. *)

EarlierOf(a, b) == IF a < b THEN a ELSE b

EarliestDeadline == EarlierOf(request.run, request.logical)

\* The posture that replaces an outcome at instant t, or "ok". The variant
\* looks at the receipt only.
PostureIgnoringLease(t) ==
    IF AuthnRequired /\ ~request.receipt THEN "refused" ELSE "ok"
PostureReject(t) ==
    IF \E r \in Arms : t > Lease[r] THEN "reauthentication_required"
    ELSE IF AuthnRequired /\ ~request.receipt THEN "refused"
    ELSE "ok"

\* The kind a wait ends with at instant t because of its deadlines, or "none".
\* The variant does not look at required binds.
DeadlineIgnoringBinds(t, starts) ==
    IF t < request.run /\ t < request.logical THEN "none"
    ELSE IF t >= request.logical THEN "logical_deadman"
    ELSE "no_change"
TerminalDeadline(t, starts) ==
    IF t < request.run /\ t < request.logical THEN "none"
    ELSE IF ~(Required \subseteq starts) THEN "failed"
    ELSE IF t >= request.logical THEN "logical_deadman"
    ELSE "no_change"

\* The arms of ready (a function from arms to observations) with an event.
Matched(ready) == {r \in Arms : ready[r] = "event"}

\* The kind of outcome that ready decides, or "none" if every arm is idle.
Decide(ready) ==
    IF \E r \in Arms : ready[r] = "overflow"
    THEN IF Matched(ready) # {} THEN "partial" ELSE "failed"
    ELSE IF Matched(ready) # {} THEN "events"
    ELSE IF \E r \in Arms : ready[r] \in AllSignals THEN "failed"
    ELSE "none"

\* TIE_RULE: the earliest arm in registration_set.registrations. The
\* variant takes the last.
LatestWins(S) == CHOOSE r \in S : \A s \in S : s <= r
EventWinner(S) == CHOOSE r \in S : \A s \in S : r <= s

-----------------------------------------------------------------------------
(* Taking from the observer and giving back to it. *)

\* The observations at hand once poll_ready has been asked about some arms,
\* and the arms whose answer is an event.
Collected(polled) == [r \in Arms |-> IF r \in polled THEN ReadyAnswer(r) ELSE slot[r]]
TakenBy(polled) == {r \in polled : ReadyAnswer(r) = "event"}

\* What the runner holds, and the observer keeps, once the arms of took have
\* each handed out the event at the head of their queue.
HeldWith(took) == [r \in Arms |-> IF r \in took THEN Head(queue[r]) ELSE held[r]]
QueueWithout(took) == [r \in Arms |-> IF r \in took THEN Tail(queue[r]) ELSE queue[r]]

\* restore_ready on each arm of back: it hands h[r] to the observer. One
\* variant queues it last, the other does nothing.
RestoredNowhere(q, h, back) == q
RestoredAtBack(q, h, back) == [r \in Arms |-> IF r \in back THEN PushBack(q[r], h[r]) ELSE q[r]]
Restored(q, h, back) == [r \in Arms |-> IF r \in back THEN PushFront(q[r], h[r]) ELSE q[r]]

\* The events go back in the order they were collected: the race's arms, then
\* those poll_ready added. The first restore_ready that fails ends the loop
\* with Err, and what was not given back by then goes down with the run.
GivenBackBefore(f, back, polled) ==
    {r \in back : \/ r \notin polled /\ f \in polled
                  \/ (r \in polled <=> f \in polled) /\ r < f}
RestoreFailures(back) == IF RestoreCanFail THEN back ELSE {}

-----------------------------------------------------------------------------
(* How a wait ends. Binds are dropped, and with them whatever is held. *)

Conclude(result) ==
    /\ pc' = "idle"
    /\ outcome' = result
    /\ held' = NothingHeld
    /\ slot' = AllPending

\* Give back the events of back and end with result, or fail closed.
RestoreAndConclude(q, h, back, polled, result) ==
    \/ /\ queue' = Restored(q, h, back)
       /\ Conclude(result)
    \/ \E f \in RestoreFailures(back) :
         /\ queue' = Restored(q, h, GivenBackBefore(f, back, polled))
         /\ Conclude(Outcome("error", now, {}, 0))

\* decide_and_restore at instant t, for a ready set that decides something.
\* polled are the arms poll_ready was asked about; starts are the bound arms.
DecideAndRestore(polled, t, starts, next) ==
    LET ready == Collected(polled)
        matched == Matched(ready)
        q == QueueWithout(TakenBy(polled))
        h == HeldWith(TakenBy(polled))
        winner == EventWinner(matched)
        losers == matched \ {winner}
    IN  CASE PostureReject(t) # "ok" ->
               RestoreAndConclude(q, h, matched, polled, Outcome(PostureReject(t), t, {}, 0))
          [] PostureReject(t) = "ok" /\ matched = {} ->
               queue' = q /\ Conclude(Outcome("failed", t, {}, 0))
          [] OTHER ->
               \/ /\ queue' = Restored(q, h, losers)
                  /\ held' = [NothingHeld EXCEPT ![winner] = h[winner]]
                  /\ outcome' = Outcome(Decide(ready), t,
                                        IF Decide(ready) = "partial" THEN starts ELSE {}, winner)
                  /\ slot' = AllPending
                  /\ pc' = next
               \/ \E f \in RestoreFailures(losers) :
                    /\ queue' = Restored(q, h, GivenBackBefore(f, losers, polled))
                    /\ Conclude(Outcome("error", t, {}, 0))

-----------------------------------------------------------------------------
(* The caller. *)

\* A wait starts: its request cites the set, and its token is a fresh one or
\* the one of an earlier wait.
StartWait ==
    /\ pc = "idle"
    /\ waits < MaxWaits
    /\ waits' = waits + 1
    /\ request' \in {q \in Requests : q.run <= q.logical /\ (AuthnRequired \/ q.receipt)}
    /\ cancelled' \in {FALSE, cancelled}
    /\ bound' = FALSE
    /\ resolved' = {}
    /\ backoff' = [step |-> 0, wake |-> 0]
    /\ outcome' = Outcome("none", 0, {}, 0)
    /\ pc' = "top"
    /\ UNCHANGED <<now, queue, observerVars, slot, held, delivered>>

\* The request cites another set, revision or waiter: resolve() answers Err.
StartUncited ==
    /\ pc = "idle"
    /\ waits < MaxWaits
    /\ waits' = waits + 1
    /\ outcome' = Outcome("error", 0, {}, 0)
    /\ UNCHANGED <<seamVars, pc, request, bound, resolved, slot, held, backoff, delivered>>

\* The caller drops the future while it is suspended.
Abandon ==
    /\ pc \in {"race", "backoff"}
    /\ Conclude(Outcome("abandoned", now, {}, 0))
    /\ UNCHANGED <<seamVars, request, bound, resolved, backoff, delivered, waits>>

-----------------------------------------------------------------------------
(* The runner. *)

Starts == IF bound THEN Arms ELSE resolved

TopCancelled ==
    /\ pc = "top"
    /\ cancelled
    /\ Conclude(Outcome("cancelled", now, {}, 0))
    /\ UNCHANGED <<seamVars, request, bound, resolved, backoff, delivered, waits>>

\* The deadline has passed. finish() leaves failed alone; it reads the clock
\* again before it lets no_change or logical_deadman through.
TopDeadline ==
    LET kind == TerminalDeadline(now, Starts)
    IN  /\ pc = "top"
        /\ ~cancelled
        /\ kind # "none"
        /\ IF kind = "failed"
           THEN Conclude(Outcome(kind, now, {}, 0))
           ELSE /\ outcome' = Outcome(kind, now, Starts, 0)
                /\ pc' = "finish"
                /\ UNCHANGED <<slot, held>>
        /\ UNCHANGED <<seamVars, request, bound, resolved, backoff, delivered, waits>>

TopRace ==
    /\ pc = "top"
    /\ ~cancelled
    /\ TerminalDeadline(now, Starts) = "none"
    /\ pc' = "race"
    /\ UNCHANGED <<seamVars, request, bound, resolved, slot, held, backoff, outcome,
                   delivered, waits>>

\* A race completes on a terminal answer, or once no arm is pending. The
\* variant waits for every sibling.
SettledWhenAll(slots) == \A r \in Arms : slots[r] # "pending"
Settled(slots) ==
    \/ \E r \in Arms : slots[r] \notin {"pending", "idle"}
    \/ \A r \in Arms : slots[r] # "pending"

\* FirstReady::poll over next (bound) or bind-then-next (not bound yet). Arms
\* that have already answered Idle are not asked again while a sibling is
\* pending. An error gives back what the siblings had; a terminal answer, or
\* an answer from every arm, completes the race.
PollRace ==
    LET asked == {r \in bindable : slot[r] = "pending"}
        answered == {r \in asked : NextAnswer(r) # "none"}
        took == {r \in answered : NextAnswer(r) = "event"}
        slots == [r \in Arms |-> IF r \in answered THEN NextAnswer(r) ELSE slot[r]]
        h == HeldWith(took)
        q == QueueWithout(took)
    IN  /\ pc = "race"
        /\ resolved' = resolved \cup asked
        /\ IF \E r \in Arms : slots[r] = "error"
           THEN RestoreAndConclude(q, h, Matched(slots), {}, Outcome("error", now, {}, 0))
           ELSE /\ slot' = slots
                /\ held' = h
                /\ queue' = q
                /\ pc' = IF Settled(slots) THEN "decide" ELSE "cancel"
                /\ UNCHANGED outcome
        /\ UNCHANGED <<now, cancelled, observerVars, request, bound, backoff, delivered, waits>>

\* The second branch of the select: leftovers go back, the wait is cancelled.
PollCancel ==
    /\ pc = "cancel"
    /\ IF cancelled
       THEN RestoreAndConclude(queue, held, Matched(slot), {}, Outcome("cancelled", now, {}, 0))
       ELSE pc' = "sleep" /\ UNCHANGED <<queue, slot, held, outcome>>
    /\ UNCHANGED <<now, cancelled, observerVars, request, bound, resolved, backoff, delivered,
                   waits>>

\* The third branch: sleep_until(earliest deadline), or nothing is ready and
\* the task waits to be polled again.
DeadlineReached == now >= EarliestDeadline
PollSleep ==
    /\ pc = "sleep"
    /\ pc' = IF DeadlineReached THEN "deadline" ELSE "race"
    /\ UNCHANGED <<seamVars, request, bound, resolved, slot, held, backoff, outcome, delivered,
                   waits>>

\* extend_ready_refs after the race: poll_ready for the bound arms that have
\* not answered. Before everything is bound there is none.
Unanswered == {r \in Arms : bound /\ slot[r] = "pending"}

\* The race found something: decide on a first reading of the clock.
RaceDecided ==
    /\ pc = "decide"
    /\ Decide(Collected(Unanswered)) # "none"
    /\ DecideAndRestore(Unanswered, now,
                        IF bound THEN Arms ELSE {r \in Arms : slot[r] # "pending"}, "finish")
    /\ UNCHANGED <<now, cancelled, observerVars, request, bound, resolved, backoff, delivered,
                   waits>>

\* backoff_deadline: never past the earliest deadline.
BackoffDeadline(step) == EarlierOf(now + BackoffSteps[step], EarliestDeadline)

\* Every arm is idle, so every arm is bound.
AllIdle ==
    LET step == EarlierOf(backoff.step + 1, Len(BackoffSteps))
    IN  /\ pc = "decide"
        /\ Decide(Collected(Unanswered)) = "none"
        /\ bound' = TRUE
        /\ backoff' = [step |-> step, wake |-> BackoffDeadline(step)]
        /\ slot' = AllPending
        /\ pc' = "backoff"
        /\ UNCHANGED <<seamVars, request, resolved, held, outcome, delivered, waits>>

\* The sleep ends on the token or on the clock; the variant, on the clock only.
RestedOut == now >= backoff.wake
Rested == cancelled \/ now >= backoff.wake
Wake ==
    /\ pc = "backoff"
    /\ Rested
    /\ pc' = "top"
    /\ UNCHANGED <<seamVars, request, bound, resolved, slot, held, backoff, outcome, delivered,
                   waits>>

\* sleep_until has completed. The clock is read once; the leftovers of the
\* race are all Idle, so giving them back changes nothing. Bound arms are
\* asked once more: what they have by now comes before the deadline. The
\* variant does not ask.
LastLookSkipped == {}
LastLook == IF bound THEN Arms ELSE {}

DeadlineObserved ==
    /\ pc = "deadline"
    /\ Decide(Collected(LastLook)) # "none"
    /\ DecideAndRestore(LastLook, now, Arms, "return")
    /\ UNCHANGED <<now, cancelled, observerVars, request, bound, resolved, backoff, delivered,
                   waits>>

DeadlineQuiet ==
    LET kind == TerminalDeadline(now, Starts)
        posture == PostureReject(now)
    IN  /\ pc = "deadline"
        /\ Decide(Collected(LastLook)) = "none"
        /\ IF kind # "failed" /\ posture # "ok"
           THEN Conclude(Outcome(posture, now, {}, 0))
           ELSE Conclude(Outcome(kind, now, IF kind = "failed" THEN {} ELSE Starts, 0))
        /\ UNCHANGED <<seamVars, request, bound, resolved, backoff, delivered, waits>>

\* finish() on a second reading of the clock. An outcome it replaces takes the
\* winner with it: nothing is given back here.
Finish ==
    /\ pc = "finish"
    /\ IF PostureReject(now) # "ok"
       THEN Conclude(Outcome(PostureReject(now), now, {}, 0))
       ELSE pc' = "return" /\ UNCHANGED <<outcome, held, slot>>
    /\ UNCHANGED <<seamVars, request, bound, resolved, backoff, delivered, waits>>

\* The caller has the outcome, and the event in it.
Return ==
    /\ pc = "return"
    /\ delivered' = [r \in Arms |-> IF held[r] # 0 THEN Append(delivered[r], held[r])
                                    ELSE delivered[r]]
    /\ Conclude(outcome)
    /\ UNCHANGED <<seamVars, request, bound, resolved, backoff, waits>>

Runner ==
    \/ TopCancelled \/ TopDeadline \/ TopRace
    \/ PollRace \/ PollCancel \/ PollSleep
    \/ RaceDecided \/ AllIdle \/ Wake
    \/ DeadlineObserved \/ DeadlineQuiet
    \/ Finish \/ Return

Caller == StartWait \/ StartUncited \/ Abandon

Next ==
    \/ Environment /\ UNCHANGED runnerVars
    \/ Caller
    \/ Runner

Spec == Init /\ [][Next]_vars

\* A runtime polls a task that has been woken, and the runner's other steps
\* are plain code. Nothing is assumed of the clock, the sources or the caller.
LiveSpec == Spec /\ WF_vars(Runner)

-----------------------------------------------------------------------------
(* Properties. *)

TypeOK ==
    /\ SeamTypeOK
    /\ pc \in PCs
    /\ request \in Requests
    /\ bound \in BOOLEAN
    /\ resolved \in SUBSET Arms
    /\ slot \in [Arms -> {"pending", "idle", "event"} \cup Signals]
    /\ held \in [Arms -> 0..MaxEvents]
    /\ backoff \in [step : 0..Len(BackoffSteps), wake : 0..Horizon]
    /\ outcome \in [kind : Kinds, at : 0..Horizon, arms : SUBSET Arms, winner : 0..N]
    /\ delivered \in [Arms -> Seq(1..MaxEvents)]
    /\ waits \in 0..MaxWaits

InHand(r) == IF held[r] = 0 THEN <<>> ELSE <<held[r]>>
Stream(r) == delivered[r] \o InHand(r) \o queue[r]

\* Whatever a wait takes and gives back, later waits receive the events of an
\* arm in the order its source emitted them, and none of them twice.
ReplayInOrder ==
    \A r \in Arms : \A i, j \in 1..Len(Stream(r)) : i < j => Stream(r)[i] < Stream(r)[j]

\* Where the future is suspended it holds no event: the losers of a round are
\* back with the observer before the next await, so that dropping the future
\* there loses nothing.
AwaitsHoldNothing ==
    pc \in {"idle", "top", "race", "cancel", "sleep", "deadline", "backoff"} => held = NothingHeld

\* restore_ready fails closed (lib.rs): a step after which an event is neither
\* delivered, held nor with the observer ends the wait with Err.
FailsClosed ==
    [][\A r \in Arms : Len(Stream(r)') < Len(Stream(r)) => outcome'.kind = "error"]_vars

\* TIE_RULE: when arm w is matched, no arm before w in the set had an event in
\* hand, or one due that poll_ready would have handed out in the same round.
TieRule ==
    [][\A w \in Arms :
         pc \in {"decide", "deadline"} /\ pc' # "idle" /\ outcome'.winner = w =>
           \A r \in 1 .. w - 1 :
             /\ slot[r] # "event"
             /\ bound /\ (slot[r] = "pending" \/ pc = "deadline") => ReadyAnswer(r) # "event"]_vars

CleanKinds == {"no_change", "logical_deadman"}
Concluded == pc = "idle"

\* A clean-complete outcome covers every required arm and is dated on the side
\* of the logical deadline its kind claims (outcome_normative).
CleanIsCovered ==
    Concluded /\ outcome.kind \in CleanKinds =>
        /\ Required \subseteq outcome.arms
        /\ outcome.kind = "no_change" => outcome.at < request.logical
        /\ outcome.kind = "logical_deadman" => outcome.at >= request.logical

\* An outcome that speaks for the sources is dated within every lease, and no
\* such outcome is let through without the receipt the set demands.
PostureHolds ==
    Concluded /\ outcome.kind \in {"events", "partial"} \cup CleanKinds =>
        /\ \A r \in Arms : outcome.at <= Lease[r]
        /\ AuthnRequired => request.receipt

\* The last look before a deadline: with every arm bound, sleep_until does not
\* turn into a clean outcome while an event is ready.
LastLookSees ==
    [][pc = "deadline" /\ bound /\ outcome'.kind \in CleanKinds =>
         \A r \in Arms : ReadyAnswer(r) # "event"]_vars

\* A triggered token ends the wait, whatever the clock and the arms do; and if
\* the clock reaches the deadlines, no wait outlives them.
StopsEnd ==
    /\ pc # "idle" /\ cancelled ~> pc = "idle"
    /\ <>(now = Horizon) => (pc # "idle" ~> pc = "idle")

\* An event on an arm that always waits instead of answering Idle ends the wait
\* even if the clock stands still and the binds of its siblings hang.
EventEnds ==
    \A r \in Arms :
        [](signal[r] # "idle") =>
            (pc # "idle" /\ r \in bindable /\ queue[r] # <<>> ~> pc = "idle")

\* The promise of the seam about events; loss only with Err.
Seen == INSTANCE Custody WITH
    provider <- queue,
    held <- [r \in Arms |-> InHand(r)],
    consumed <- delivered,
    erred <- outcome.kind = "error"
KeepsCustody == Seen!Spec
=============================================================================
