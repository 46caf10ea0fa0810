-------------------------------- MODULE Slots --------------------------------
(***************************************************************************)
(* What the held sessions run_follow and run_coalesce have in common: the  *)
(* SlotSet, which keeps one future per arm from turn to turn and at most   *)
(* one harvested observation, and the rules by which a turn is judged.     *)
(*                                                                         *)
(* A slot set is a record of what each slot holds, of the events in those  *)
(* slots, and of what is left with the observer; its operations are        *)
(* operators from slot sets to slot sets. An arm that is bound and has an  *)
(* empty slot has its next() running.                                      *)
(***************************************************************************)
EXTENDS Seam, Lists

CONSTANTS
    AuthnRequired,   \* authn_mode = required
    BackoffSteps     \* BACKOFF_MS, in instants

ASSUME SlotsAssumption ==
    /\ AuthnRequired \in BOOLEAN
    /\ BackoffSteps \in Seq(Nat)
    /\ Len(BackoffSteps) > 0

VARIABLES
    request,     \* the live_wait_request of the session
    bound,       \* the arms that are bound
    harvested,   \* [Arms -> "none" or the observation in the slot]
    held,        \* [Arms -> the event in the slot, or 0]
    fault,       \* an Err of bind() or next() not yet acted upon
    backoff      \* backoff_step, and the instant the sleep ends

slotVars == <<bound, harvested, held, fault>>

Requests == [run : 0..Horizon, logical : 0..Horizon, receipt : BOOLEAN]
NothingHarvested == [r \in Arms |-> "none"]
NothingHeld == [r \in Arms |-> 0]

SlotsInit ==
    /\ request = [run |-> 0, logical |-> 0, receipt |-> TRUE]
    /\ bound = {}
    /\ harvested = NothingHarvested
    /\ held = NothingHeld
    /\ fault = FALSE
    /\ backoff = [step |-> 0, wake |-> 0]

\* SlotSet::new: every bind() runs, nothing is bound.
NewSlots ==
    /\ bound' = {}
    /\ harvested' = NothingHarvested
    /\ held' = NothingHeld
    /\ fault' = FALSE
    /\ backoff' = [step |-> 0, wake |-> 0]

-----------------------------------------------------------------------------
(* Slot sets. *)

SlotSet == [obs |-> harvested, held |-> held, queue |-> queue]

\* Empty slots take what ans, a function from arms to answers, has for them.
Filled(s, ans) ==
    LET took == {r \in Arms : s.obs[r] = "none" /\ ans[r] = "event"}
    IN  [obs |-> [r \in Arms |-> IF s.obs[r] = "none" THEN ans[r] ELSE s.obs[r]],
         held |-> [r \in Arms |-> IF r \in took THEN Head(s.queue[r]) ELSE s.held[r]],
         queue |-> [r \in Arms |-> IF r \in took THEN Tail(s.queue[r]) ELSE s.queue[r]]]

\* poll_available: every bind that can complete has, and every empty slot of a
\* bound arm has polled its next().
BoundNow == bound \cup bindable
Polled(s) ==
    Filled(s, [r \in Arms |-> IF r \in BoundNow /\ NextAnswer(r) # "error"
                              THEN NextAnswer(r) ELSE "none"])
Faults(s) == \E r \in BoundNow : s.obs[r] = "none" /\ NextAnswer(r) = "error"

\* The slots have been polled into Polled(s).
PollInto(s) ==
    /\ harvested' = Polled(s).obs
    /\ held' = Polled(s).held
    /\ queue' = Polled(s).queue
    /\ bound' = BoundNow
    /\ fault' = (fault \/ Faults(s))

\* CollectTurn is ready as soon as one slot has more than Idle to say; the
\* variant waits until every slot does.
ReadyWhenAll(obs) == \A r \in Arms : obs[r] \notin {"none", "idle"}
Ready(obs) == \E r \in Arms : obs[r] \notin {"none", "idle"}

\* harvest_poll_ready asks the bound arms whose slot is still empty.
Extended(s) ==
    Filled(s, [r \in Arms |-> IF r \in bound THEN ReadyAnswer(r) ELSE "none"])

\* rearm_idle drops every observation but events.
Rearmed(s) == [s EXCEPT !.obs = [r \in Arms |-> IF s.obs[r] = "event" THEN "event" ELSE "none"]]

\* take_events: the arms with an event, whose slots are emptied.
EventArms(s) == {r \in Arms : s.obs[r] = "event"}
Emptied(s) ==
    [s EXCEPT !.obs = [r \in Arms |-> IF s.obs[r] = "event" THEN "none" ELSE s.obs[r]],
              !.held = NothingHeld]

\* restore_custody: the events in the slots, then those the runner holds
\* besides (more, a sequence for each arm), newest first, go back in front of
\* what the observer has. Each restore is tried; those of lost fail. One
\* variant puts the runner's events back before those of the slots, the other
\* puts them behind what the observer has.
InSlot(s, r) == IF s.held[r] = 0 THEN <<>> ELSE <<s.held[r]>>
GivenBack(es, lost, r) == Keeping(es, {e \in 1..MaxEvents : <<r, e>> \notin lost})
RequeuedSlotsFirst(s, more, lost, r) == GivenBack(InSlot(s, r) \o more[r], lost, r) \o s.queue[r]
RequeuedAtBack(s, more, lost, r) == s.queue[r] \o GivenBack(more[r] \o InSlot(s, r), lost, r)
Requeued(s, more, lost, r) == GivenBack(more[r] \o InSlot(s, r), lost, r) \o s.queue[r]

\* The sets of restores that may fail.
Restores(s, more) ==
    UNION {{<<r, (more[r] \o InSlot(s, r))[i]>> : i \in 1..Len(more[r] \o InSlot(s, r))} :
              r \in Arms}
Failures(s, more) == IF RestoreCanFail THEN SUBSET Restores(s, more) ELSE {{}}

-----------------------------------------------------------------------------
(* Deadlines and posture. *)

EarlierOf(a, b) == IF a < b THEN a ELSE b

EarliestDeadline == EarlierOf(request.run, request.logical)

\* earliest_wake: the deadline or the first end of a lease. The variant looks
\* at the logical deadline only.
FirstLeaseEnd == CHOOSE t \in {Lease[r] : r \in Arms} : \A r \in Arms : t <= Lease[r]
WakeAtLogical == EarlierOf(FirstLeaseEnd, request.logical)
EarliestWake == EarlierOf(FirstLeaseEnd, EarliestDeadline)

AtDeadline(t) == t >= request.logical \/ t >= request.run

\* posture_err: a lease has ended at its very instant. The variant lets that
\* instant pass, as first-match does.
PostureErrAfter(t) ==
    IF \E r \in Arms : t > Lease[r] THEN "lease"
    ELSE IF AuthnRequired /\ ~request.receipt THEN "authn"
    ELSE "ok"
PostureErr(t) ==
    IF \E r \in Arms : t >= Lease[r] THEN "lease"
    ELSE IF AuthnRequired /\ ~request.receipt THEN "authn"
    ELSE "ok"

\* first_terminal of the observations obs, and deadline_end at an instant that
\* is at a deadline.
HasTerminal(obs) == \E r \in Arms : obs[r] \notin {"none", "idle", "event"}
DeadlineEnd == IF Required \subseteq bound THEN "deadline" ELSE "required_bind_pending"

\* A round of idle answers backs off up to cap.
BackoffWake(step, cap) == EarlierOf(now + BackoffSteps[step], cap)
NextStep == EarlierOf(backoff.step + 1, Len(BackoffSteps))

\* The sleep ends on the token or on the clock. The variant sleeps on.
RestedOut == now >= backoff.wake
Rested == cancelled \/ now >= backoff.wake
=============================================================================
