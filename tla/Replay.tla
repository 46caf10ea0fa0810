-------------------------------- MODULE Replay --------------------------------
(***************************************************************************)
(* `waitprims wait` and `waitprims follow`: a local script of events is    *)
(* played to a runner on a logical clock. The parts are the FakeClock in   *)
(* its automatic mode, the ScriptedObserver, the runner as the one task of *)
(* a single-threaded runtime, and the command line around them, with the   *)
(* JsonlSink that numbers the lines of follow.                             *)
(*                                                                         *)
(* Nothing runs beside that task, so the clock is moved by the sleeps      *)
(* themselves: each registers, yields once, and when it is polled again    *)
(* looks, once, whether it is the earliest sleeper. What matters is        *)
(* therefore the order in which futures are polled, and an action is one   *)
(* poll of one future. A step of a future is                               *)
(*    unbound   the arm's bind() has not been polled,                      *)
(*    new       it has not been polled,                                    *)
(*    yielded   its sleeper is registered and it has yielded,              *)
(*    parked    it has looked, and waits for its sleeper to be rung,       *)
(*    forever   it has no event left and pends,                            *)
(*    gone      it has returned, or was dropped.                           *)
(***************************************************************************)
EXTENDS Naturals, Sequences, FiniteSets, Lists

CONSTANTS
    N,              \* number of arms, polled in the order 1..N
    Scripts,        \* the scripts: for each arm, instants in any order
    Limits,         \* the buffer_limits
    Deadline,       \* the earlier of run_deadline and logical_deadline
    Lease,          \* lease_expires_at of every arm
    Horizon         \* no event is later

Arms == 1..N
Times == 0..Horizon

ASSUME ReplayAssumption ==
    /\ N \in Nat \ {0}
    /\ Horizon \in Nat
    /\ Scripts \subseteq [Arms -> Seq(Times)]
    /\ Limits \subseteq Nat \ {0}
    /\ Deadline \in Times \ {0}
    /\ Lease \in Times \ {0}

VARIABLES
    pc,          \* where the command is
    verb,        \* "wait" or "follow"
    script,      \* the script that was given
    limit,       \* its buffer_limit
    now,         \* FakeClock: now, from the request's created_at
    queue,       \* ScriptedObserver: [Arms -> the events still queued]
    overflowed,  \* ScriptedObserver: the arms whose overflow has been seen
    fut,         \* [Arms -> the arm's future]
    timer,       \* the sleep_until of the select!
    got,         \* [Arms -> what the arm has returned in this turn]
    turn,        \* the next arm to poll, or N + 1
    progressed,  \* a future returned in this round
    second,      \* FirstReady is in its second round
    awake,       \* the task has been woken since this pass began
    lines,       \* standard output
    sequence,    \* JsonlSink: number of accepted bursts
    exit         \* exit code, or 255 while the command runs

clockVars == <<now, fut, timer>>
observerVars == <<queue, overflowed>>
passVars == <<turn, progressed, second, awake>>
outVars == <<lines, sequence, exit>>
inVars == <<verb, script, limit>>
vars == <<pc, inVars, clockVars, observerVars, got, passVars, outVars>>

Sleep(step, at) == [step |-> step, at |-> at, rung |-> FALSE]
Nothing == [kind |-> "none", at |-> 0]
Running == 255

EarlierOf(a, b) == IF a < b THEN a ELSE b

EarliestWake == IF verb = "follow" THEN EarlierOf(Deadline, Lease) ELSE Deadline

Init ==
    /\ pc = "admit"
    /\ verb \in {"wait", "follow"}
    /\ script = [a \in Arms |-> <<>>]
    /\ limit \in Limits
    /\ now = 0
    /\ queue = [a \in Arms |-> <<>>]
    /\ overflowed = {}
    /\ fut = [a \in Arms |-> Sleep("unbound", 0)]
    /\ timer = Sleep("new", 0)
    /\ got = [a \in Arms |-> Nothing]
    /\ turn = 1
    /\ progressed = FALSE
    /\ second = FALSE
    /\ awake = FALSE
    /\ lines = <<>>
    /\ sequence = 0
    /\ exit = Running

-----------------------------------------------------------------------------
(* Admission. *)

\* ScriptedObserver::new sorts each arm's events: one is put behind those that
\* are not later.
Inserted(s, e) == Keeping(s, 0..e) \o <<e>> \o Keeping(s, Times \ (0..e))
Sorted(events) ==
    LET sorted[i \in 0..Len(events)] ==
            IF i = 0 THEN <<>> ELSE Inserted(sorted[i - 1], events[i])
    IN  sorted[Len(events)]

\* What the two documents and the script may be. A target is a path, or a drive
\* path, or else a URI or "-"; the documents are of the kinds expected, lack
\* one of the two, have another, or are refused.
Inputs ==
    [target : {"path", "drive", "uri", "dash"}, readable : BOOLEAN,
     documents : {"set_and_request", "two_sets", "two_requests", "other_kind", "refused"},
     text : {"script", "array", "other"}, known : BOOLEAN, cited : BOOLEAN]

\* reject_non_local_path: "C:/x" is a path although "C" could be a scheme.
IsLocal(input) == input.target \in {"path", "drive"}
IsRead(input) == input.readable
\* take_set_and_request of what validate_raw_documents has admitted.
IsAdmitted(input) == input.documents = "set_and_request"
\* Script::from_json takes an object or a bare array of events.
IsScript(input) == input.text \in {"script", "array"}
\* reject_unknown_registrations.
IsKnown(input) == input.known
\* resolve, by the runner: the request names the set, its revision and waiter.
IsCited(input) == input.cited

Admissible(input) ==
    /\ IsLocal(input) /\ IsRead(input)
    /\ IsAdmitted(input) /\ IsScript(input) /\ IsKnown(input)
    /\ IsCited(input)

Admit ==
    /\ pc = "admit"
    /\ \E input \in Inputs : Admissible(input)
    /\ script' \in Scripts
    /\ queue' = [a \in Arms |-> Sorted(script'[a])]
    /\ pc' = "poll"
    /\ UNCHANGED <<verb, limit, clockVars, overflowed, got, passVars, outVars>>

Refuse ==
    /\ pc = "admit"
    /\ \E input \in Inputs : ~Admissible(input)
    /\ pc' = "exited"
    /\ exit' = 1
    /\ UNCHANGED <<inVars, clockVars, observerVars, got, passVars, lines, sequence>>

-----------------------------------------------------------------------------
(* The clock. *)

Registered(s) == s.step \in {"yielded", "parked"} /\ ~s.rung
Sleepers == {s \in {fut[a] : a \in Arms} \cup {timer} : Registered(s)}

\* auto_advance_if_earliest. The variant lets no sleeper that is alone advance.
EarliestOfMany(s) ==
    Registered(s) /\ Cardinality(Sleepers) > 1 /\ \A other \in Sleepers : s.at <= other.at
Earliest(s) == Registered(s) /\ \A other \in Sleepers : s.at <= other.at

\* wake_ready at instant t, for one sleeper.
Rung(s, t) == IF Registered(s) /\ s.at <= t THEN [s EXCEPT !.rung = TRUE] ELSE s

\* advance_to(t) wakes the task if a parked sleeper is rung.
Wakes(t) == \E s \in Sleepers : s.step = "parked" /\ s.at <= t

-----------------------------------------------------------------------------
(* The observer. *)

Due(a, t) == Cardinality({i \in 1..Len(queue[a]) : queue[a][i] <= t})

\* take_due at instant t. Overflow is sticky.
TakeDue(a, t) ==
    IF a \in overflowed \/ Due(a, t) > limit THEN [kind |-> "overflow", at |-> 0]
    ELSE IF Due(a, t) = 0 THEN Nothing
    ELSE [kind |-> "event", at |-> Head(queue[a])]

Overflows(taken) == overflowed \cup {a \in Arms : taken[a].kind = "overflow"}
Popped(taken) ==
    [a \in Arms |-> IF taken[a].kind = "event" THEN Tail(queue[a]) ELSE queue[a]]

-----------------------------------------------------------------------------
(* A pass of the task over its futures: arms in order, round after round as  *)
(* long as the runner's collector asks for another, then the sleep.          *)

\* One poll of the future of arm a: bind() and next(). A sleeper that looks
\* and is the earliest moves the clock and is rung by it.
PollNext(a) ==
    LET f == fut[a]
        moves == f.step = "yielded" /\ Earliest(f)
        t == IF moves THEN f.at ELSE now
        looks == f.step \in {"unbound", "new"} \/ f.rung \/ moves
        taken == [x \in Arms |-> IF x = a /\ looks THEN TakeDue(a, t) ELSE Nothing]
        next == IF ~looks THEN Sleep("parked", f.at)
                ELSE IF taken[a] # Nothing THEN Sleep("gone", 0)
                ELSE IF queue[a] = <<>> THEN Sleep("forever", 0)
                ELSE Sleep("yielded", Head(queue[a]))
    IN  /\ f.step \notin {"forever", "gone"}
        /\ now' = t
        /\ fut' = [[x \in Arms |-> Rung(fut[x], t)] EXCEPT ![a] = next]
        /\ timer' = Rung(timer, t)
        /\ queue' = Popped(taken)
        /\ overflowed' = Overflows(taken)
        /\ got' = IF taken[a] # Nothing THEN [got EXCEPT ![a] = taken[a]] ELSE got
        /\ progressed' = (progressed \/ taken[a] # Nothing \/ f.step = "unbound")
        /\ awake' = (awake \/ next.step = "yielded" \/ (moves /\ Wakes(t)))

PollArm ==
    /\ pc = "poll"
    /\ turn <= N
    /\ turn' = turn + 1
    /\ \/ PollNext(turn)
       \/ /\ fut[turn].step \in {"forever", "gone"}
          /\ UNCHANGED <<clockVars, observerVars, got, progressed, awake>>
    /\ UNCHANGED <<pc, inVars, second, outVars>>

AnyGot == \E a \in Arms : got[a] # Nothing

\* poll_available goes round until nothing progresses. FirstReady goes round
\* a second time, once, when an arm has returned.
Again ==
    IF verb = "follow" THEN progressed ELSE AnyGot /\ ~second

RoundEnds ==
    /\ pc = "poll"
    /\ turn = N + 1
    /\ IF Again
       THEN turn' = 1 /\ second' = (verb = "wait") /\ pc' = "poll"
       ELSE /\ pc' = IF AnyGot THEN "decide" ELSE "sleep"
            /\ UNCHANGED <<turn, second>>
    /\ progressed' = FALSE
    /\ UNCHANGED <<inVars, clockVars, observerVars, got, awake, outVars>>

\* The sleep is polled after the arms. If it does not return, the pass is over:
\* a task that was not woken meanwhile is never polled again.
PollTimer ==
    LET moves == timer.step = "yielded" /\ Earliest(timer)
        t == IF moves THEN timer.at ELSE now
        fires == timer.rung \/ moves \/ (timer.step = "new" /\ now >= EarliestWake)
        woken == awake \/ timer.step = "new" \/ (moves /\ Wakes(t))
    IN  /\ pc = "sleep"
        /\ now' = t
        /\ fut' = [a \in Arms |-> Rung(fut[a], t)]
        /\ timer' = IF fires THEN Sleep("gone", 0)
                    ELSE IF timer.step = "new" THEN Sleep("yielded", EarliestWake)
                    ELSE Sleep("parked", timer.at)
        /\ pc' = IF fires THEN "wake" ELSE IF woken THEN "poll" ELSE "stuck"
        /\ turn' = 1
        /\ awake' = FALSE
        /\ UNCHANGED <<inVars, observerVars, got, progressed, second, outVars>>

-----------------------------------------------------------------------------
(* The runner's turns. *)

\* Arms that have returned nothing are asked once more, with poll_ready, by
\* follow when its sleep has returned. A wait ends in the race of its binds,
\* where extend_ready_refs asks only arms that have returned.
MoreReady ==
    LET taken == [a \in Arms |-> IF got[a] = Nothing THEN TakeDue(a, now) ELSE Nothing]
    IN  /\ queue' = Popped(taken)
        /\ overflowed' = Overflows(taken)
        /\ got' = [a \in Arms |-> IF got[a] = Nothing THEN taken[a] ELSE got[a]]
        /\ fut' = [a \in Arms |-> IF taken[a] # Nothing THEN Sleep("gone", 0) ELSE fut[a]]

Wake ==
    /\ pc = "wake"
    /\ IF verb = "follow"
       THEN MoreReady
       ELSE UNCHANGED <<observerVars, got, fut>>
    /\ pc' = "decide"
    /\ UNCHANGED <<inVars, now, timer, passVars, outVars>>

Holds(a) == got[a].kind = "event"
Terminal == \E a \in Arms : got[a].kind = "overflow"
\* restore_ready puts an event in front of those still queued. The variant puts
\* it behind them.
RestoredBehind(kept) ==
    [a \in Arms |-> IF Holds(a) /\ a \notin kept THEN queue[a] \o <<got[a].at>> ELSE queue[a]]
Restored(kept) ==
    [a \in Arms |-> IF Holds(a) /\ a \notin kept THEN <<got[a].at>> \o queue[a] ELSE queue[a]]
\* One of the least arms with an event.
Winner == {a \in Arms : Holds(a) /\ \A b \in Arms : Holds(b) => a <= b}
\* What the arms of a set have returned, as the line's events.
EventsOf(arms) == {<<a, got[a].at>> : a \in {b \in arms : Holds(b)}}

\* decide_and_restore: the first arm's event is kept, unless its lease is over,
\* and the others go back to the observer; the outcome is printed when the
\* runner has returned.
DecideWait ==
    LET kept == IF now > Lease THEN {} ELSE Winner
    IN  /\ pc = "decide"
        /\ verb = "wait"
        /\ queue' = Restored(kept)
        /\ got' = [a \in Arms |-> IF a \in kept THEN got[a] ELSE Nothing]
        /\ pc' = "print"
        /\ UNCHANGED <<inVars, clockVars, overflowed, passVars, outVars>>

\* decide_turn. A lease that has ended makes the run an error, and gives every
\* event back; otherwise the events of the turn are one burst.
DecideFollow ==
    /\ pc = "decide"
    /\ verb = "follow"
    /\ IF now >= Lease
       THEN /\ queue' = Restored({})
            /\ got' = [a \in Arms |-> Nothing]
            /\ exit' = 1
            /\ pc' = "exited"
       ELSE /\ pc' = IF \E a \in Arms : Holds(a) THEN "burst" ELSE "after"
            /\ UNCHANGED <<queue, got, exit>>
    /\ UNCHANGED <<inVars, clockVars, overflowed, passVars, lines, sequence>>

\* What follows the burst: an end, or another turn with the arms that have
\* returned armed again and a new sleep.
After ==
    /\ pc = "after"
    /\ IF Terminal \/ now >= Deadline
       THEN pc' = "print" /\ UNCHANGED <<fut, timer, got, turn, progressed, awake>>
       ELSE /\ pc' = "poll"
            /\ fut' = [a \in Arms |-> IF fut[a].step = "gone" THEN Sleep("new", 0) ELSE fut[a]]
            /\ timer' = Sleep("new", 0)
            /\ got' = [a \in Arms |-> Nothing]
            /\ turn' = 1
            /\ progressed' = FALSE
            /\ awake' = FALSE
    /\ UNCHANGED <<inVars, now, observerVars, second, outVars>>

-----------------------------------------------------------------------------
(* Standard output. A line is written whole, or a part of it is and the      *)
(* write fails, or all of it is and the flush fails.                         *)

Writes == {"whole", "torn", "unflushed"}
Line(kind, seq, events, how) ==
    [kind |-> IF how = "torn" THEN "torn" ELSE kind, seq |-> seq, events |-> events]

\* write_record fails, the runner returns the sink's error, and the command
\* has no end to print. The variant goes on to the next turn.
GoesOnAnyway(how) == TRUE
GoesOn(how) == how = "whole"

EmitBurst ==
    /\ pc = "burst"
    /\ \E how \in Writes :
        /\ lines' = Append(lines, Line("burst", sequence + 1, EventsOf(Arms), how))
        /\ sequence' = IF how = "whole" THEN sequence + 1 ELSE sequence
        /\ IF GoesOn(how)
           THEN pc' = "after" /\ UNCHANGED exit
           ELSE pc' = "exited" /\ exit' = 1
    /\ got' = [a \in Arms |-> IF Holds(a) THEN Nothing ELSE got[a]]
    /\ UNCHANGED <<inVars, clockVars, observerVars, passVars>>

\* The outcome of wait is printed with println!, which panics if it fails; the
\* end of follow with the sink, whose error is reported.
PrintEnd ==
    /\ pc = "print"
    /\ \E how \in Writes :
        /\ lines' = Append(lines, Line(IF verb = "wait" THEN "outcome" ELSE "end", 0,
                                       EventsOf(Arms), how))
        /\ exit' = IF how = "whole" THEN 0 ELSE IF verb = "wait" THEN 101 ELSE 1
    /\ pc' = "exited"
    /\ UNCHANGED <<inVars, clockVars, observerVars, got, passVars, sequence>>

\* The outcome of wait is first put through validate_message. It carries the
\* script's fields as they are, and they were held to no schema.
OutcomeRefused ==
    /\ pc = "print"
    /\ verb = "wait"
    /\ pc' = "exited"
    /\ exit' = 1
    /\ UNCHANGED <<inVars, clockVars, observerVars, got, passVars, lines, sequence>>

Task ==
    \/ PollArm \/ RoundEnds \/ PollTimer
    \/ Wake \/ DecideWait \/ DecideFollow \/ After
    \/ EmitBurst \/ PrintEnd \/ OutcomeRefused

Next == Admit \/ Refuse \/ Task

Spec == Init /\ [][Next]_vars

\* A process that can go on does.
LiveSpec == Spec /\ WF_vars(Task)

-----------------------------------------------------------------------------
(* Properties. *)

\* Exit 0 is a complete account: bursts are numbered from 1, nothing follows a
\* line that was not accepted, and the end or the outcome is the last line.
OutputHonest ==
    /\ \A i \in DOMAIN lines : lines[i].kind = "burst" => lines[i].seq = i
    /\ \A i \in DOMAIN lines : i < Len(lines) => lines[i].kind = "burst" /\ i <= sequence
    /\ exit = 0 => lines # <<>> /\ lines[Len(lines)].kind \in {"end", "outcome"}

\* Instants of arm a on the lines of follow, as no line has two of its events.
OfArm(events, a) ==
    IF \E e \in events : e[1] = a THEN <<(CHOOSE e \in events : e[1] = a)[2]>> ELSE <<>>
Printed(out, a) ==
    LET printed[i \in 0..Len(out)] ==
            IF i = 0 THEN <<>> ELSE printed[i - 1] \o OfArm(out[i].events, a)
    IN  printed[Len(out)]
Delivered(a) == Printed(lines, a)
Held(a) == IF Holds(a) THEN <<got[a].at>> ELSE <<>>

\* What follow has printed for an arm, then what it holds, then what is left
\* with the observer, is the arm's script in the order of its instants. Only a
\* line that was cut off loses events.
ReplaysTheScript ==
    /\ verb = "follow"
    /\ pc # "admit"
    /\ \A i \in DOMAIN lines : lines[i].kind # "torn"
    => \A a \in Arms : Delivered(a) \o Held(a) \o queue[a] = Sorted(script[a])

\* A replay that was admitted ends: wait does with any script, follow does if
\* no two arms have events.
OneArm == Cardinality({a \in Arms : script[a] # <<>>}) <= 1
ReplayEnds == pc = "poll" /\ (verb = "wait" \/ OneArm) ~> pc = "exited"

\* "Clock that advances to the earliest sleeper once all sleeps have
\* registered": follow ends with any script.
FollowEnds == pc = "poll" /\ verb = "follow" ~> pc = "exited"
=============================================================================
