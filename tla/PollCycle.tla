------------------------------ MODULE PollCycle ------------------------------
(***************************************************************************)
(* run_poll_cycle: one bounded cycle after another over the same observer, *)
(* with the acks and restarts of the caller between them.                  *)
(*                                                                         *)
(* A cycle binds and observes in one race, visits each arm at most once,   *)
(* takes what its budget allows, and holds the events it has admitted      *)
(* until it ends. It then gives ALL of them back: an event leaves the      *)
(* observer only when a later cycle binds past it, at the cursor the       *)
(* caller has committed with poll_cycle_ack. A cursor is the number of the *)
(* last event before it.                                                   *)
(*                                                                         *)
(* pc names the place the runner stands at: the head of the loop ("top"),  *)
(* or the branch of the biased select! that is polled next.                *)
(***************************************************************************)
EXTENDS Seam, Lists

CONSTANTS
    AuthnRequired,   \* authn_mode = required
    MaxTake,         \* the events (and payload refs) a cycle may collect
    MaxTakeOf,       \* [Arms -> the events it may collect from an arm]
    Oversized,       \* [Arms -> events too big for any byte bound]
    Anchored,        \* the arms whose registration has a start_anchor
    MaxCycles        \* bound: cycles over one observer

ASSUME PollCycleAssumption ==
    /\ AuthnRequired \in BOOLEAN
    /\ MaxTake \in Nat
    /\ MaxTakeOf \in [Arms -> Nat]
    /\ Oversized \in [Arms -> SUBSET (1..MaxEvents)]
    /\ Anchored \subseteq Arms
    /\ MaxCycles \in Nat

VARIABLES
    pc,
    request,     \* deadlines, receipt, and the arm the fairness_cursor names
    bound,       \* the arms that are bound
    idle,        \* the arms whose Idle sits in the race
    visits,      \* [Arms -> "none" or what the visit to the arm found]
    admitted,    \* [Arms -> the events collected from the arm]
    outcome,     \* the last outcome
    committed,   \* [Arms -> the cursor the caller has acknowledged]
    seen,        \* history: [Arms -> events the caller has received]
    due,         \* history: arms with an event to take ever since the cycle began
    passed,      \* history: [Arms -> cycles in a row that deferred such an arm]
    whole,       \* history: no event has been lost since the last restart
    cycles       \* cycles started so far

cycleVars == <<pc, request, bound, idle, visits, admitted, outcome, cycles>>
callerVars == <<committed, seen, due, passed, whole>>
vars == <<seamVars, cycleVars, callerVars>>

Requests == [run : 0..Horizon, logical : 0..Horizon, receipt : BOOLEAN, cursor : Arms]
Delivers == {"events", "partial"}
CleanKinds == {"no_change", "logical_deadman"}
Silent == {"none", "error", "abandoned"}
Dirty == {"outage", "cursor_uncertain", "degraded"}

NoEvents == [r \in Arms |-> <<>>]
NoVisits == [r \in Arms |-> "none"]
NoOutcome(kind) == [kind |-> kind, at |-> 0, arms |-> {}, events |-> NoEvents,
                    retained |-> committed, proposed |-> committed]

Init ==
    /\ SeamInit
    /\ pc = "idle"
    /\ request = [run |-> 0, logical |-> 0, receipt |-> TRUE, cursor |-> 1]
    /\ bound = {}
    /\ idle = {}
    /\ visits = NoVisits
    /\ admitted = NoEvents
    /\ committed = [r \in Arms |-> 0]
    /\ outcome = NoOutcome("none")
    /\ seen = [r \in Arms |-> {}]
    /\ due = {}
    /\ passed = [r \in Arms |-> 0]
    /\ whole = TRUE
    /\ cycles = 0

-----------------------------------------------------------------------------
(* The budget of a cycle, shared by its arms in fairness order. *)

Visited == {r \in Arms : visits[r] # "none"}

\* fairness_order: the arm at place i, and the place of arm r. The variant
\* starts from the first registration whatever the cursor says.
OrderFromFirst(i) == i
Order(i) == ((request.cursor + i - 2) % N) + 1
Place(r) == CHOOSE i \in 1..N : Order(i) = r

\* next_fairness_cursor: the arm after the one this cycle started from. The
\* variant stays where it is.
NextCursorStuck == request.cursor
NextCursor == (request.cursor % N) + 1

\* The events admitted so far. The variant forgets earlier rounds.
SpentForgotten == 0
Spent == Total([r \in Arms |-> Len(admitted[r])], N)

\* How many events a visit to arm r takes when spent have been taken before
\* (try_take, then drain_ready).
Quota(r, spent) ==
    LET fits(k) == /\ spent + k <= MaxTake
                   /\ k <= MaxTakeOf[r]
                   /\ \A i \in 1..k : queue[r][i] \notin Oversized[r]
    IN  CHOOSE k \in 0..Len(queue[r]) :
            (k = 0 \/ fits(k)) /\ \A j \in k + 1 .. Len(queue[r]) : ~fits(j)

\* What record_ready makes of the answers ans (a function from arms to
\* observations, or "none"): the events taken up to each place of the order,
\* and from each arm that is visited for the first time.
Fresh(ans, r) == ans[r] = "event" /\ visits[r] = "none"
SpentAfter(ans) ==
    LET total[i \in 0..N] ==
            IF i = 0 THEN Spent
            ELSE total[i - 1] + IF Fresh(ans, Order(i)) THEN Quota(Order(i), total[i - 1]) ELSE 0
    IN  total
SpentBefore(ans, r) == SpentAfter(ans)[Place(r) - 1]
Taken(ans, r) == IF Fresh(ans, r) THEN Quota(r, SpentBefore(ans, r)) ELSE 0

HasRoom(ans, r) ==
    SpentBefore(ans, r) + Taken(ans, r) < MaxTake /\ Taken(ans, r) < MaxTakeOf[r]

\* A visit that leaves no room is saturated, even if it took the last event.
VisitOf(ans, r) ==
    IF visits[r] # "none" \/ ans[r] # "event"
    THEN IF visits[r] # "none" THEN visits[r] ELSE ans[r]
    ELSE IF Taken(ans, r) = 0 THEN "deferred"
    ELSE IF Taken(ans, r) < Len(queue[r]) \/ ~HasRoom(ans, r) THEN "saturated"
    ELSE "events"

Recorded(ans) == [r \in Arms |-> VisitOf(ans, r)]
Admitted(ans) == [r \in Arms |-> admitted[r] \o SubSeq(queue[r], 1, Taken(ans, r))]
QueueAfter(ans) == [r \in Arms |-> SubSeq(queue[r], Taken(ans, r) + 1, Len(queue[r]))]

\* The arms record_ready gives an observation back to: its event is deferred,
\* or next in a drain but too big, or the arm had been visited before.
Leftover(ans, r) == ans[r] # "none" /\ visits[r] # "none"
Returned(ans) ==
    {r \in Arms : \/ Leftover(ans, r)
                  \/ /\ Fresh(ans, r)
                     /\ \/ Taken(ans, r) = 0
                        \/ Taken(ans, r) < Len(queue[r]) /\ HasRoom(ans, r)}

\* The queues if the restore of arm f fails: record_ready returns Err at once,
\* so that what it has taken, and what it has not yet looked at, is gone. The
\* arms visited before come last, in the order of the set.
QueueAtFailure(ans, f) ==
    LET gone(r) ==
            CASE ans[r] # "event" -> 0
              [] Leftover(ans, r) -> IF Leftover(ans, f) /\ r < f THEN 0 ELSE 1
              [] OTHER -> IF Leftover(ans, f) \/ Place(r) < Place(f) THEN Taken(ans, r)
                          ELSE IF r = f THEN Taken(ans, r) + 1
                          ELSE 1
    IN  [r \in Arms |-> SubSeq(queue[r], gone(r) + 1, Len(queue[r]))]

-----------------------------------------------------------------------------
(* The outcome of a cycle. *)

EarliestDeadline == IF request.run < request.logical THEN request.run ELSE request.logical

\* decide_kind, for visits vis that admitted adm, at instant t.
DecideKind(vis, adm, t) ==
    LET any(S) == \E r \in Arms : vis[r] \in S
        some == \E r \in Arms : adm[r] # <<>>
        dirty == \E r \in Required : vis[r] \in Dirty
        deferred == \E r \in Required : vis[r] = "deferred"
    IN  CASE any({"overflow"}) -> IF some THEN "partial" ELSE "failed"
          [] ~any({"overflow"}) /\ dirty -> "coverage_degraded"
          [] ~any({"overflow"}) /\ ~dirty /\ any({"failed"}) ->
               IF some THEN "coverage_degraded" ELSE "failed"
          [] OTHER ->
               IF some THEN IF deferred \/ any({"saturated"}) THEN "partial" ELSE "events"
               ELSE IF deferred /\ t < request.logical THEN "partial"
               ELSE IF t >= request.logical THEN "logical_deadman"
               ELSE "no_change"

\* apply_posture leaves an outcome of these kinds alone.
Final == {"cancelled", "failed"}
Posture(kind, t) ==
    IF kind \in Final THEN kind
    ELSE IF \E r \in Arms : t > Lease[r] THEN "reauthentication_required"
    ELSE IF AuthnRequired /\ ~request.receipt THEN "refused"
    ELSE kind

\* honest_start: a start is known from the bind, the ack or the registration.
KnownStarts(binds) == {r \in Arms : r \in binds \/ committed[r] > 0 \/ r \in Anchored}

\* The cursor past the events s.
LastOr(s, start) == IF s = <<>> THEN start ELSE s[Len(s)]

\* retained_through: past the events the outcome carries. Posture comes
\* later and does not take it back. The variant retains them all.
RetainedAlways(kind, adm, r) == LastOr(adm[r], committed[r])
Retained(kind, adm, r) ==
    IF kind \in Delivers THEN LastOr(adm[r], committed[r]) ELSE committed[r]

\* build, then apply_posture; Err if no arm has a start.
Report(kind, adm, binds, t) ==
    LET final == Posture(kind, t)
        arms == KnownStarts(binds)
    IN  IF arms = {} THEN NoOutcome("error")
        ELSE [kind |-> final, at |-> t, arms |-> arms,
              events |-> IF final \in Delivers THEN adm ELSE NoEvents,
              retained |-> [r \in Arms |-> Retained(kind, adm, r)],
              proposed |-> [r \in Arms |-> LastOr(adm[r], committed[r])]]

\* decide_at_deadline: arms without a visit count as deferred if others have
\* events, and as idle if not. The variant forgets required binds.
FilledVisits(vis, adm) ==
    [r \in Arms |-> IF vis[r] # "none" THEN vis[r]
                    ELSE IF \E s \in Arms : adm[s] # <<>> THEN "deferred" ELSE "idle"]
DeadlineKindUnbound(vis, adm, t) == DecideKind(FilledVisits(vis, adm), adm, t)
DeadlineKind(vis, adm, t) ==
    IF ~(Required \subseteq bound) THEN "failed"
    ELSE DecideKind(FilledVisits(vis, adm), adm, t)

\* The visits its outcome is built from: as they are if a required bind pends.
DeadlineVisits(vis, adm) == IF Required \subseteq bound THEN FilledVisits(vis, adm) ELSE vis

-----------------------------------------------------------------------------
(* How a cycle ends. *)

Conclude(result, vis, lost) ==
    /\ pc' = "idle"
    /\ idle' = {}
    /\ outcome' = result
    /\ visits' = vis
    /\ admitted' = NoEvents
    /\ seen' = [r \in Arms |-> seen[r] \cup {result.events[r][i] : i \in 1..Len(result.events[r])}]
    /\ whole' = (whole /\ ~lost)
    /\ passed' = [r \in Arms |->
                    IF result.kind \in Silent \cup Final \/ r \notin due \/ vis[r] # "deferred"
                    THEN 0 ELSE passed[r] + 1]
    /\ UNCHANGED <<committed, due>>

\* restore_admitted puts the admitted events back in front, the last one
\* first, arm by arm. The variant forgets to go backwards.
GivenBackForward(q, adm, r) ==
    [i \in 1..Len(adm[r]) |-> adm[r][Len(adm[r]) + 1 - i]] \o q[r]
GivenBack(q, adm, r) == adm[r] \o q[r]

\* emit: restore what was admitted, then answer; or fail closed half-way,
\* at event j of arm f.
Emit(result, q, adm, vis) ==
    \/ /\ queue' = [r \in Arms |-> GivenBack(q, adm, r)]
       /\ Conclude(result, vis, FALSE)
    \/ \E f \in {r \in Arms : RestoreCanFail /\ adm[r] # <<>>} : \E j \in 1..Len(adm[f]) :
         /\ queue' = [r \in Arms |->
                        IF r < f THEN GivenBack(q, adm, r)
                        ELSE IF r = f THEN SubSeq(adm[f], j + 1, Len(adm[f])) \o q[f]
                        ELSE q[r]]
         /\ Conclude(NoOutcome("error"), vis, TRUE)

\* record_ready: either every restore it makes succeeds and done holds, or
\* the cycle ends with Err and without giving back what it had admitted.
Record(ans, done) ==
    \/ done
    \/ \E f \in {r \in Returned(ans) : RestoreCanFail} :
         /\ queue' = QueueAtFailure(ans, f)
         /\ Conclude(NoOutcome("error"), visits, TRUE)

\* After record_ready a cycle that has visited every arm is over.
GoOn(ans, binds) ==
    IF \A r \in Arms : Recorded(ans)[r] # "none"
    THEN Emit(Report(DecideKind(Recorded(ans), Admitted(ans), now), Admitted(ans), binds, now),
              QueueAfter(ans), Admitted(ans), Recorded(ans))
    ELSE /\ pc' = "top"
         /\ idle' = {}
         /\ visits' = Recorded(ans)
         /\ admitted' = Admitted(ans)
         /\ queue' = QueueAfter(ans)
         /\ UNCHANGED <<outcome, callerVars>>

-----------------------------------------------------------------------------
(* The caller. *)

\* What of a queue an exclusive start cursor leaves.
After(q, cursor) == Keeping(q, cursor + 1 .. MaxEvents)
Takes(r) ==
    LET q == After(queue[r], committed[r])
    IN  /\ q # <<>> /\ Head(q) \notin Oversized[r]
        /\ MaxTake > 0 /\ MaxTakeOf[r] > 0
        /\ r \in bindable /\ signal[r] \notin AllSignals

\* The next cycle cites the committed cursors and the last outcome's
\* next_fairness_cursor. Its token is a fresh one or that of an earlier cycle.
\* The observer will be bound at these cursors, and forgets what lies before.
StartCycle ==
    /\ pc = "idle"
    /\ whole
    /\ cycles < MaxCycles
    /\ cycles' = cycles + 1
    /\ request' \in {q \in Requests : /\ q.run <= q.logical
                                      /\ AuthnRequired \/ q.receipt
                                      /\ q.cursor = IF outcome.kind \in Silent
                                                    THEN request.cursor ELSE NextCursor}
    /\ cancelled' \in {FALSE, cancelled}
    /\ bound' = {}
    /\ visits' = NoVisits
    /\ outcome' = NoOutcome("none")
    /\ queue' = [r \in Arms |-> After(queue[r], committed[r])]
    /\ due' = {r \in Arms : Takes(r)}
    /\ pc' = "top"
    /\ UNCHANGED <<now, observerVars, idle, admitted, committed, seen, passed, whole>>

\* The request cites another set, revision, waiter or registration.
StartUncited ==
    /\ pc = "idle"
    /\ cycles < MaxCycles
    /\ cycles' = cycles + 1
    /\ Conclude(NoOutcome("error"), visits, FALSE)
    /\ UNCHANGED <<seamVars, request, bound>>

\* poll_cycle_ack of the last outcome commits the cursors it retained.
Ack ==
    /\ pc = "idle"
    /\ outcome.kind \notin Silent
    /\ committed # outcome.retained
    /\ committed' = outcome.retained
    /\ UNCHANGED <<seamVars, cycleVars, seen, due, passed, whole>>

\* A new process, with a new observer that reads its sources again from the
\* committed cursors.
Restart ==
    /\ pc = "idle"
    /\ queue' = [r \in Arms |-> [i \in 1 .. arrived[r] - committed[r] |-> committed[r] + i]]
    /\ whole' = TRUE
    /\ UNCHANGED <<now, cancelled, observerVars, cycleVars, committed, seen, due, passed>>

\* The caller drops the future while it is suspended, and the admitted events
\* with it.
Abandon ==
    /\ pc \in {"observe", "bind"}
    /\ Conclude(NoOutcome("abandoned"), visits, admitted # NoEvents)
    /\ UNCHANGED <<seamVars, request, bound, cycles>>

-----------------------------------------------------------------------------
(* The runner. *)

\* The first branch of the select: the bound arms, if there are any.
FirstBranch == IF bound # {} THEN "observe" ELSE "bind"

TopCancelled ==
    /\ pc = "top"
    /\ cancelled
    /\ Emit(Report("cancelled", admitted, bound, now), queue, admitted, visits)
    /\ UNCHANGED <<now, cancelled, observerVars, request, bound, cycles>>

TopDeadline ==
    /\ pc = "top"
    /\ ~cancelled
    /\ now >= EarliestDeadline
    /\ Emit(Report(DeadlineKind(visits, admitted, now), admitted, bound, now),
            queue, admitted, DeadlineVisits(visits, admitted))
    /\ UNCHANGED <<now, cancelled, observerVars, request, bound, cycles>>

TopSelect ==
    /\ pc = "top"
    /\ ~cancelled
    /\ now < EarliestDeadline
    /\ pc' = FirstBranch
    /\ UNCHANGED <<seamVars, callerVars, request, bound, idle, visits, admitted, outcome, cycles>>

\* observe_pending: FirstReady over next() of the bound arms without a visit.
\* It completes with an observation other than Idle, or with Idle from all.
Pending == bound \ Visited
RaceAnswers == [r \in Arms |-> IF r \in idle THEN "idle"
                               ELSE IF r \in Pending THEN NextAnswer(r) ELSE "none"]

ObserveCompletes ==
    LET ans == RaceAnswers
    IN  /\ pc = "observe"
        /\ ~ \E r \in Arms : ans[r] = "error"
        /\ \/ \E r \in Pending : ans[r] \notin {"none", "idle"}
           \/ Pending # {} /\ \A r \in Pending : ans[r] # "none"
        /\ Record(ans, GoOn(ans, bound))
        /\ UNCHANGED <<now, cancelled, observerVars, request, bound, cycles>>

\* An error of one arm gives back the events of its siblings, in fairness
\* order, and then what was admitted; if the first fails, nothing more.
ObserveFails ==
    LET siblings == {r \in Pending : RaceAnswers[r] = "event"}
    IN  /\ pc = "observe"
        /\ \E r \in Arms : RaceAnswers[r] = "error"
        /\ \/ Emit(NoOutcome("error"), queue, admitted, visits)
           \/ \E f \in {r \in siblings : RestoreCanFail} :
                /\ queue' = [r \in Arms |-> IF r \in siblings /\ Place(r) >= Place(f)
                                            THEN Tail(queue[r]) ELSE queue[r]]
                /\ Conclude(NoOutcome("error"), visits, TRUE)
        /\ UNCHANGED <<now, cancelled, observerVars, request, bound, cycles>>

ObservePending ==
    /\ pc = "observe"
    /\ \A r \in Arms : RaceAnswers[r] \in {"none", "idle"}
    /\ Pending = {} \/ \E r \in Pending : RaceAnswers[r] = "none"
    /\ idle' = {r \in Pending : RaceAnswers[r] = "idle"}
    /\ pc' = "bind"
    /\ UNCHANGED <<seamVars, callerVars, request, bound, visits, admitted, outcome, cycles>>

\* bind_unbound completes as soon as some bind has. Then poll_ready is asked
\* about every bound arm, visited or not. A bind that answers Err ends it.
Binding == (Arms \ bound) \cap bindable
ReadyAnswers(binds) == [r \in Arms |-> IF r \in binds THEN ReadyAnswer(r) ELSE "none"]

BindCompletes ==
    LET binds == bound \cup Binding
        ans == ReadyAnswers(binds)
    IN  /\ pc = "bind"
        /\ Binding # {}
        /\ bound' = binds
        /\ Record(ans, GoOn(ans, binds))
        /\ UNCHANGED <<now, cancelled, observerVars, request, cycles>>

BindFails ==
    /\ pc = "bind"
    /\ \E r \in Binding : signal[r] = "error"
    /\ Emit(NoOutcome("error"), queue, admitted, visits)
    /\ UNCHANGED <<now, cancelled, observerVars, request, bound, cycles>>

BindPending ==
    /\ pc = "bind"
    /\ Binding = {}
    /\ pc' = "cancel"
    /\ UNCHANGED <<seamVars, callerVars, request, bound, idle, visits, admitted, outcome, cycles>>

\* The third branch: the token. The variant leaves it to the other branches.
CancelUnseen == FALSE
CancelSeen == cancelled
PollCancel ==
    /\ pc = "cancel"
    /\ IF CancelSeen
       THEN Emit(Report("cancelled", admitted, bound, now), queue, admitted, visits)
       ELSE /\ pc' = "sleep"
            /\ UNCHANGED <<queue, callerVars, idle, visits, admitted, outcome>>
    /\ UNCHANGED <<now, cancelled, observerVars, request, bound, cycles>>

\* The fourth branch: the clock. When it has come to the earliest deadline the
\* arms the race was waiting for are asked once more.
DeadlineReached == now >= EarliestDeadline
SleepCompletes ==
    LET ans == ReadyAnswers(Pending)
        vis == DeadlineVisits(Recorded(ans), Admitted(ans))
        kind == DeadlineKind(Recorded(ans), Admitted(ans), now)
    IN  /\ pc = "sleep"
        /\ DeadlineReached
        /\ Record(ans, Emit(Report(kind, Admitted(ans), bound, now),
                            QueueAfter(ans), Admitted(ans), vis))
        /\ UNCHANGED <<now, cancelled, observerVars, request, bound, cycles>>

SleepPending ==
    /\ pc = "sleep"
    /\ ~DeadlineReached
    /\ pc' = FirstBranch
    /\ UNCHANGED <<seamVars, callerVars, request, bound, idle, visits, admitted, outcome, cycles>>

Runner ==
    \/ TopCancelled \/ TopDeadline \/ TopSelect
    \/ ObserveCompletes \/ ObserveFails \/ ObservePending
    \/ BindCompletes \/ BindFails \/ BindPending
    \/ PollCancel \/ SleepCompletes \/ SleepPending

Caller == StartCycle \/ StartUncited \/ Ack \/ Restart \/ Abandon

Next ==
    \/ /\ Environment
       /\ due' = {r \in due : signal'[r] \notin AllSignals}
       /\ UNCHANGED <<cycleVars, committed, seen, passed, whole>>
    \/ Caller
    \/ Runner

Spec == Init /\ [][Next]_vars

\* A runtime polls a task that has been woken. Nothing is assumed of the
\* clock, the sources or the caller.
LiveSpec == Spec /\ WF_vars(Runner)

-----------------------------------------------------------------------------
(* Properties. *)

\* However a cycle took events and gave them back, the observer and the cycle
\* hold every event past the committed cursor, once and in order: deferral,
\* budgets, cancellation and errors of an arm lose nothing; only a restore
\* that fails, or a future dropped with events in it, does.
NothingUncommittedIsLost ==
    whole => \A r \in Arms :
        After(admitted[r] \o queue[r], committed[r])
            = [i \in 1 .. arrived[r] - committed[r] |-> committed[r] + i]

\* The bounds hold for a cycle as a whole, over all its rounds.
WithinBounds ==
    /\ Total([r \in Arms |-> Len(outcome.events[r])], N) <= MaxTake
    /\ \A r \in Arms : /\ Len(outcome.events[r]) <= MaxTakeOf[r]
                       /\ \A i \in 1..Len(outcome.events[r]) :
                            outcome.events[r][i] \notin Oversized[r]

\* Fairness rotates scarce capacity: no arm that has an event to take from the
\* beginning of a cycle to its end is deferred N cycles in a row.
RotationServes == \A r \in Arms : passed[r] < N

\* POLL_ACK_RETENTION: an ack commits a cursor only past events the caller
\* has received.
AckedWasReceived == \A r \in Arms : 1 .. committed[r] \subseteq seen[r]

\* ... and, over cycles, acks, cancels, errors and restarts alike, each arm is
\* the retained log that the addendum describes.
Log == INSTANCE RetainedLog WITH log <- arrived
KeepsLog == Log!Spec

\* A triggered token ends the cycle, and so does the clock once a deadline has
\* come, without anything that wakes the cycle besides its own sleep.
StopsEnd == pc # "idle" /\ (cancelled \/ now >= EarliestDeadline) ~> pc = "idle"
=============================================================================
