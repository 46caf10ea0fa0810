-------------------------------- MODULE Follow --------------------------------
(***************************************************************************)
(* run_follow: a held session that binds once and hands its sink a burst   *)
(* of events per turn, at most one of each arm, until a terminal.          *)
(*                                                                         *)
(* pc names the place the session stands at:                               *)
(*   idle      no session is running                                       *)
(*   top       the head of the loop                                        *)
(*   collect   select!, first branch: CollectTurn                          *)
(*   cancel    select!, second branch: the cancel token                    *)
(*   sleep     select!, third branch: the clock                            *)
(*   backoff   sleeping off a round of idle answers                        *)
(*   wake      on_wake, with the clock about to be read                    *)
(*   extend    on_wake, after poll_once                                    *)
(*   decide    decide_turn, with the clock about to be read                *)
(*   sink      on_burst is awaited                                         *)
(***************************************************************************)
EXTENDS Slots

CONSTANT MaxSessions   \* bound: sessions over one observer

ASSUME FollowAssumption == MaxSessions \in Nat

VARIABLES
    pc,
    reading,     \* the instant the turn in progress is decided at
    burst,       \* [Arms -> the event the sink has, or 0]
    outcome,     \* what the last session ended with
    delivered,   \* [Arms -> events whose sink call answered Ok, in order]
    sessions     \* sessions started so far

followVars == <<pc, request, slotVars, backoff, reading, burst, outcome, delivered, sessions>>
vars == <<seamVars, followVars>>

Ends == {"cancel", "deadline", "required_bind_pending", "terminal_arm"}

Init ==
    /\ SeamInit
    /\ SlotsInit
    /\ pc = "idle"
    /\ reading = 0
    /\ burst = NothingHeld
    /\ outcome = [kind |-> "none", at |-> 0]
    /\ delivered = [r \in Arms |-> <<>>]
    /\ sessions = 0

-----------------------------------------------------------------------------
(* How a session ends. The slots are dropped, and with them the binds. *)

Conclude(kind, t) ==
    /\ pc' = "idle"
    /\ outcome' = [kind |-> kind, at |-> t]
    /\ harvested' = NothingHarvested
    /\ held' = NothingHeld
    /\ fault' = FALSE
    /\ burst' = NothingHeld

\* finish_err, finish_cancel: restore_harvested tries every arm, and an Err
\* of one of them replaces the end.
NoMore == [r \in Arms |-> <<>>]
Finish(s, kind, t) ==
    \E lost \in Failures(s, NoMore) :
        /\ queue' = [r \in Arms |-> Requeued(s, NoMore, lost, r)]
        /\ Conclude(IF lost = {} THEN kind ELSE "restore", t)

\* What ends the session once the burst of a turn is out, or "none": the
\* observations obs are what the slots still hold, t is when the turn began.
EndOf(t, obs) ==
    IF HasTerminal(obs) THEN "terminal_arm" ELSE IF AtDeadline(t) THEN DeadlineEnd ELSE "none"

\* The rest of decide_turn: the end, or the next turn with its slots armed.
Settle(t, obs) ==
    IF EndOf(t, obs) # "none" THEN Conclude(EndOf(t, obs), t)
    ELSE /\ pc' = "top"
         /\ harvested' = NothingHarvested
         /\ held' = NothingHeld
         /\ burst' = NothingHeld
         /\ UNCHANGED <<fault, outcome>>

\* decide_turn on slots s at instant t: posture, fault, token, then the burst.
DecideTurn(s, t) ==
    /\ reading' = t
    /\ \/ /\ PostureErr(t) # "ok"
          /\ Finish(s, PostureErr(t), t)
       \/ /\ PostureErr(t) = "ok"
          /\ fault
          /\ Finish(s, "fault", t)
       \/ /\ PostureErr(t) = "ok"
          /\ ~fault
          /\ cancelled
          /\ Finish(s, "cancel", t)
       \/ /\ PostureErr(t) = "ok"
          /\ ~fault
          /\ ~cancelled
          /\ queue' = s.queue
          /\ IF EventArms(s) # {}
             THEN /\ pc' = "sink"
                  /\ burst' = s.held
                  /\ harvested' = Emptied(s).obs
                  /\ held' = NothingHeld
                  /\ UNCHANGED <<fault, outcome>>
             ELSE Settle(t, s.obs)

-----------------------------------------------------------------------------
(* The caller and its sink. *)

\* A session that resolve() and the deadline ordering let through starts, or
\* is turned down for its posture.
StartSession ==
    /\ pc = "idle"
    /\ sessions < MaxSessions
    /\ sessions' = sessions + 1
    /\ request' \in {q \in Requests : q.run <= q.logical /\ (AuthnRequired \/ q.receipt)}
    /\ cancelled' \in {FALSE, cancelled}
    /\ NewSlots
    /\ UNCHANGED <<now, queue, observerVars, reading, burst, delivered>>
    /\ LET posture == PostureErr(now)'
       IN  IF posture = "ok"
           THEN pc' = "top" /\ outcome' = [kind |-> "none", at |-> 0]
           ELSE pc' = "idle" /\ outcome' = [kind |-> posture, at |-> now]

\* The request cites another set, revision or waiter, or its run deadline is
\* after the logical one.
StartUncited ==
    /\ pc = "idle"
    /\ sessions < MaxSessions
    /\ sessions' = sessions + 1
    /\ outcome' = [kind |-> "uncited", at |-> now]
    /\ UNCHANGED <<seamVars, pc, request, slotVars, backoff, reading, burst, delivered>>

\* The caller drops the future where it is suspended, with what the sink has.
Abandon ==
    /\ pc \in {"collect", "backoff", "sink"}
    /\ Conclude("abandoned", now)
    /\ UNCHANGED <<seamVars, request, bound, backoff, reading, delivered, sessions>>

\* on_burst answers Ok: the burst is with the consumer. The turn goes on with
\* the clock reading it was decided on.
SinkOk ==
    /\ pc = "sink"
    /\ delivered' = [r \in Arms |-> IF burst[r] = 0 THEN delivered[r]
                                    ELSE Append(delivered[r], burst[r])]
    /\ Settle(reading, harvested)
    /\ UNCHANGED <<seamVars, request, bound, backoff, reading, sessions>>

\* on_burst answers Err: the burst is gone with it.
SinkErr ==
    /\ pc = "sink"
    /\ Conclude("sink", reading)
    /\ UNCHANGED <<seamVars, request, bound, backoff, reading, delivered, sessions>>

-----------------------------------------------------------------------------
(* The runner. *)

TopPosture ==
    /\ pc = "top"
    /\ PostureErr(now) # "ok"
    /\ Finish(SlotSet, PostureErr(now), now)
    /\ UNCHANGED <<now, cancelled, observerVars, request, bound, backoff, reading, delivered,
                   sessions>>

TopCancelled ==
    /\ pc = "top"
    /\ PostureErr(now) = "ok"
    /\ cancelled
    /\ Finish(SlotSet, "cancel", now)
    /\ UNCHANGED <<now, cancelled, observerVars, request, bound, backoff, reading, delivered,
                   sessions>>

TopSelect ==
    /\ pc = "top"
    /\ PostureErr(now) = "ok"
    /\ ~cancelled
    /\ pc' = "collect"
    /\ UNCHANGED <<seamVars, request, slotVars, backoff, reading, burst, outcome, delivered,
                   sessions>>

\* CollectTurn::poll. A fault, like a ready turn, is decided on the clock of
\* that moment, posture first. With nothing but Idle the session backs off.
Collect ==
    LET obs == Polled(SlotSet).obs
    IN  /\ pc = "collect"
        /\ PollInto(SlotSet)
        /\ IF Faults(SlotSet) \/ Ready(obs)
           THEN pc' = "decide" /\ UNCHANGED backoff
           ELSE IF \E r \in Arms : obs[r] = "idle"
           THEN /\ pc' = "backoff"
                /\ backoff' = [step |-> NextStep, wake |-> BackoffWake(NextStep, EarliestWake)]
           ELSE pc' = "cancel" /\ UNCHANGED backoff
        /\ UNCHANGED <<now, cancelled, observerVars, request, reading, burst, outcome, delivered,
                       sessions>>

\* The second branch polls once more before it decides.
PollCancel ==
    /\ pc = "cancel"
    /\ IF cancelled
       THEN PollInto(SlotSet) /\ pc' = "decide"
       ELSE pc' = "sleep" /\ UNCHANGED <<queue, slotVars>>
    /\ UNCHANGED <<now, cancelled, observerVars, request, backoff, reading, burst, outcome,
                   delivered, sessions>>

PollSleep ==
    /\ pc = "sleep"
    /\ pc' = IF now >= EarliestWake THEN "wake" ELSE "collect"
    /\ UNCHANGED <<seamVars, request, slotVars, backoff, reading, burst, outcome, delivered,
                   sessions>>

Rest ==
    /\ pc = "backoff"
    /\ Rested
    /\ pc' = "wake"
    /\ UNCHANGED <<seamVars, request, slotVars, backoff, reading, burst, outcome, delivered,
                   sessions>>

\* on_wake: the clock is read, idle slots are armed again, and everything is
\* polled; then poll_ready is asked, and the turn is decided on that reading.
Wake ==
    /\ pc = "wake"
    /\ reading' = now
    /\ PollInto(Rearmed(SlotSet))
    /\ pc' = "extend"
    /\ UNCHANGED <<now, cancelled, observerVars, request, backoff, burst, outcome, delivered,
                   sessions>>

Extend ==
    /\ pc = "extend"
    /\ DecideTurn(Extended(SlotSet), reading)
    /\ UNCHANGED <<now, cancelled, observerVars, request, bound, backoff, delivered, sessions>>

Decide ==
    /\ pc = "decide"
    /\ DecideTurn(SlotSet, now)
    /\ UNCHANGED <<now, cancelled, observerVars, request, bound, backoff, delivered, sessions>>

Runner ==
    \/ TopPosture \/ TopCancelled \/ TopSelect
    \/ Collect \/ PollCancel \/ PollSleep
    \/ Rest \/ Wake \/ Extend \/ Decide

Caller == StartSession \/ StartUncited \/ Abandon \/ SinkOk \/ SinkErr

Next ==
    \/ Environment /\ UNCHANGED followVars
    \/ Caller
    \/ Runner

Spec == Init /\ [][Next]_vars

\* A runtime polls a task that has been woken. Nothing is assumed of the
\* clock, the sources, the caller or its sink.
LiveSpec == Spec /\ WF_vars(Runner)

-----------------------------------------------------------------------------
(* Properties. *)

\* A future that is dropped where it waits for its arms, the token or the
\* clock has no event in its slots: only a burst that is with the sink is
\* ever at stake.
AwaitsHoldNothing ==
    pc \in {"idle", "top", "collect", "cancel", "sleep", "backoff", "wake"} =>
        held = NothingHeld /\ burst = NothingHeld

\* Deadline is the end of a session with every required arm bound, at a
\* deadline. And lease_expired at now >= lease_expires_at: whatever the order in
\* which arms, sink, token and clock come, no session ends but with its lease's
\* error at an instant a lease has ended by.
EndIsHonest ==
    /\ outcome.kind = "deadline" => Required \subseteq bound /\ outcome.at >= EarliestDeadline
    /\ outcome.kind \in Ends \cup {"fault", "authn"} => \A r \in Arms : outcome.at < Lease[r]

\* The seam's promise about events. Sink errors, failing restores and dropped
\* futures are the only ways to lose one.
Holding(r) == LET of(n) == IF n = 0 THEN <<>> ELSE <<n>> IN of(burst[r]) \o of(held[r])
Seen == INSTANCE Custody WITH
    provider <- queue,
    held <- [r \in Arms |-> Holding(r)],
    consumed <- delivered,
    erred <- outcome.kind \in {"sink", "restore", "abandoned"}
KeepsCustody == Seen!Spec

SinkAnswers == []<>(pc # "sink")

\* A triggered token ends the session, and so does a clock that has come to a
\* deadline or to the end of a lease, even if it then stands still; if the sink
\* answers.
StopsEnd ==
    SinkAnswers =>
        /\ pc # "idle" /\ cancelled ~> pc = "idle"
        /\ pc # "idle" /\ (AtDeadline(now) \/ \E r \in Arms : now >= Lease[r]) ~> pc = "idle"

\* An event on an arm is handed to the sink or given back by the end of the
\* session, although the binds of other arms hang, the clock stands still and
\* the token is not triggered, if no arm makes the session back off.
EventServed ==
    SinkAnswers /\ [](\A r \in Arms : signal[r] # "idle") =>
        \A r \in Arms : pc # "idle" /\ r \in bindable /\ queue[r] # <<>>
                            ~> pc = "idle" \/ burst[r] # 0
=============================================================================
