-------------------------------- MODULE Watch --------------------------------
(***************************************************************************)
(* waitprims watch: the admission of its inputs, one bind of the file      *)
(* system provider, the follow session that uses it, the descriptor store  *)
(* the bind writes to, the lines on stdout and the exit status.            *)
(*                                                                         *)
(* stage names the place the command stands at:                            *)
(*   admit     inputs are read and checked                                 *)
(*   observe   the observer is made, and the session about to start        *)
(*   top       the head of the session's loop                              *)
(*   collect   select!, first branch: bind, then next                      *)
(*   sleep     select!, last branch: the clock                             *)
(*   parked    no branch is ready                                          *)
(*   poll      on_wake: poll_once                                          *)
(*   harvest   on_wake: poll_ready                                         *)
(*   decide    decide_turn, its instant read                               *)
(*   print     the sink of the session has a burst                         *)
(*   drop      the session is over, its bind about to go                   *)
(*   end       the session has answered                                    *)
(*   exited                                                                *)
(***************************************************************************)
EXTENDS FsBind

CONSTANTS
    StoreEvents,    \* aggregate_limits.max_events of the set
    StoreBytes,     \* aggregate_limits.max_bytes, in units of a descriptor
    Terms,          \* the instants a request and its lease may name
    Horizon         \* bound: the last instant of the clock

ASSUME WatchAssumption ==
    /\ StoreEvents \in Nat
    /\ StoreBytes \in Nat
    /\ Terms \subseteq [deadline : Nat, lease : Nat]
    /\ Horizon \in Nat

VARIABLES
    stage,
    terms,       \* the earlier deadline of the request, the end of the lease
    now,         \* the clock
    reading,     \* the instant the turn in progress is decided at
    slot,        \* the observation harvested, or "none"
    store,       \* the descriptors kept, and what the sink counts
    printed,     \* the signals whose events are on stdout, in order
    outcome,     \* what the session ended with
    exit,        \* the exit status, or "none"
    due          \* history: losses flagged when on_wake read the clock, until
                 \* the turn hands out an event

watchVars == <<stage, terms, now, reading, slot, store, printed, outcome, exit, due>>
wvars == <<vars, watchVars>>

Stages == {"admit", "observe", "top", "collect", "sleep", "parked", "poll", "harvest", "decide",
           "print", "drop", "end", "exited"}

\* The command declares its root to be local, whatever it is.
WInit ==
    /\ Init
    /\ config.posture = "local"
    /\ stage = "admit"
    /\ terms \in Terms
    /\ now = 0
    /\ reading = 0
    /\ slot = "none"
    /\ store = [asked |-> 0, bytes |-> 0, entries |-> {}, failed |-> FALSE]
    /\ printed = <<>>
    /\ outcome = "none"
    /\ exit = "none"
    /\ due = {}

-----------------------------------------------------------------------------
(* Before the session. *)

\* A subject is a path below the root, on any platform.
Subjects == {"below", "empty", "rooted", "backslash", "drive", "parent"}
Portable(subject) == subject = "below"

\* The root is a directory, the two documents are admitted, and each
\* registration is for one source, by file_watch, of a portable path.
Admit ==
    /\ stage = "admit"
    /\ \E root \in BOOLEAN, documents \in BOOLEAN, subject \in Subjects :
         IF root /\ documents /\ config.wellFormed /\ Portable(subject)
         THEN stage' = "observe" /\ UNCHANGED exit
         ELSE stage' = "exited" /\ exit' = "error"
    /\ UNCHANGED <<vars, terms, now, reading, slot, store, printed, outcome, due>>

\* FsObserver::new looks for the root once more, and run_follow for a request
\* that fits its set and a lease that has not ended.
Observe ==
    /\ stage = "observe"
    /\ \/ stage' = "exited" /\ exit' = "error" /\ UNCHANGED outcome
       \/ now >= terms.lease /\ stage' = "end" /\ outcome' = "lease" /\ UNCHANGED exit
       \/ now < terms.lease /\ stage' = "top" /\ UNCHANGED <<outcome, exit>>
    /\ UNCHANGED <<vars, terms, now, reading, slot, store, printed, due>>

-----------------------------------------------------------------------------
(* The descriptor store. *)

\* Whether a descriptor of this size is refused. Attempts count, not entries.
Full(size) == store.asked + 1 > StoreEvents \/ store.bytes + size > StoreBytes

\* What is left once a descriptor was refused. The variant forgets.
FailedForgotten == FALSE
FailedKept == TRUE

\* materialize(), if the step under way asks for the descriptor of signal s.
Materialize(s) ==
    IF call' = "none" /\ answer' \in {"event", "sink"}
    THEN /\ answer' = IF Full(s.size) THEN "sink" ELSE "event"
         /\ store' = [asked |-> store.asked + 1,
                      bytes |-> IF Full(s.size) THEN store.bytes ELSE store.bytes + s.size,
                      entries |-> IF Full(s.size) THEN store.entries
                                  ELSE store.entries \cup {s.of},
                      failed |-> store.failed \/ (Full(s.size) /\ FailedKept)]
    ELSE UNCHANGED store

-----------------------------------------------------------------------------
(* The turn. *)

EarliestWake == IF terms.lease < terms.deadline THEN terms.lease ELSE terms.deadline

Conclude(kind) == stage' = "drop" /\ outcome' = kind

Top ==
    /\ stage = "top"
    /\ IF now >= terms.lease THEN Conclude("lease") ELSE stage' = "collect" /\ UNCHANGED outcome
    /\ UNCHANGED <<vars, terms, now, reading, slot, store, printed, exit, due>>

Polling == stage \in {"collect", "poll"} /\ slot = "none"

\* The future of next answers, or has more to do.
Harvests == slot' = IF call' = "none" THEN answer' ELSE "none"

Arm ==
    /\ Polling
    /\ Bind \/ StartNext
    /\ UNCHANGED watchVars

LookNext ==
    /\ Polling
    /\ Look
    /\ Harvests
    /\ UNCHANGED <<stage, terms, now, reading, store, printed, outcome, exit, due>>

ReceiveNext ==
    /\ Polling
    /\ Receive
    /\ Materialize(Head(channel))
    /\ Harvests
    /\ UNCHANGED <<stage, terms, now, reading, printed, outcome, exit, due>>

\* All there is to poll has answered or waits for the channel.
Pending == call = "receive" /\ channel = <<>> /\ watching
Collected ==
    /\ stage = "collect"
    /\ slot # "none" \/ Pending
    /\ IF slot # "none"
       THEN stage' = "decide" /\ reading' = now /\ due' = {}
       ELSE stage' = "sleep" /\ UNCHANGED <<reading, due>>
    /\ UNCHANGED <<vars, terms, now, slot, store, printed, outcome, exit>>

\* The timer is looked at after the bind. If it has run out, on_wake reads the
\* clock.
Sleep ==
    /\ stage = "sleep"
    /\ IF now >= EarliestWake
       THEN stage' = "poll" /\ reading' = now /\ due' = lost \ {unflagged}
       ELSE stage' = "parked" /\ UNCHANGED <<reading, due>>
    /\ UNCHANGED <<vars, terms, now, slot, store, printed, outcome, exit>>

\* What wakes the task: a signal, or the timer. The variant has no timer. The
\* overflow flag wakes nobody.
WokenBySignal == channel # <<>>
Woken == channel # <<>> \/ now >= EarliestWake
Wake ==
    /\ stage = "parked"
    /\ Woken
    /\ stage' = "collect"
    /\ UNCHANGED <<vars, terms, now, reading, slot, store, printed, outcome, exit, due>>

Polled ==
    /\ stage = "poll"
    /\ slot # "none" \/ Pending
    /\ stage' = "harvest"
    /\ UNCHANGED <<vars, terms, now, reading, slot, store, printed, outcome, exit, due>>

\* poll_ready beside the parked next. The variant does not ask.
NotAsked == UNCHANGED <<vars, slot>>
Asked == PollBesideNext /\ slot' = answer'
Harvest ==
    /\ stage = "harvest"
    /\ stage' = "decide"
    /\ IF slot = "none" THEN Asked ELSE UNCHANGED <<vars, slot>>
    /\ UNCHANGED <<terms, now, reading, store, printed, outcome, exit, due>>

\* An observation of poll_ready takes the place of the next that waits.
DropParked ==
    /\ \/ stage = "decide" /\ slot # "none"
       \/ stage = "drop"
    /\ DropNext
    /\ UNCHANGED watchVars

\* decide_turn: lease, burst, terminal, deadline. No token is ever triggered.
Onwards(t) ==
    IF t >= terms.deadline THEN Conclude("deadline") ELSE stage' = "top" /\ UNCHANGED outcome
Decide ==
    /\ stage = "decide"
    /\ ~(slot # "none" /\ call = "receive")
    /\ \/ /\ reading >= terms.lease
          /\ IF slot = "event" THEN RestoreOwn ELSE UNCHANGED vars
          /\ slot' = "none"
          /\ Conclude("lease")
       \/ /\ reading < terms.lease
          /\ UNCHANGED <<vars, slot>>
          /\ CASE slot = "event" -> stage' = "print" /\ UNCHANGED outcome
               [] slot = "none" -> Onwards(reading)
               [] OTHER -> Conclude("terminal_arm")
    /\ UNCHANGED <<terms, now, reading, store, printed, exit, due>>

\* A line that cannot be written takes its event with it.
EmitBurst ==
    /\ stage = "print"
    /\ Keep
    /\ slot' = "none"
    /\ \/ printed' = Append(printed, Head(held).of) /\ Onwards(reading)
       \/ Conclude("stdout") /\ UNCHANGED printed
    /\ due' = {}
    /\ UNCHANGED <<terms, now, reading, store, exit>>

-----------------------------------------------------------------------------
(* After the session. *)

DropBind ==
    /\ stage = "drop"
    /\ call = "none"
    /\ stage' = "end"
    /\ IF bound THEN Release ELSE UNCHANGED vars
    /\ UNCHANGED <<terms, now, reading, slot, store, printed, outcome, exit, due>>

\* The end has a line if the session has one and every descriptor was kept.
Exit ==
    /\ stage = "end"
    /\ stage' = "exited"
    /\ \/ exit' = "error"
       \/ /\ outcome \in {"deadline", "terminal_arm"}
          /\ ~store.failed
          /\ exit' = "ok"
    /\ UNCHANGED <<vars, terms, now, reading, slot, store, printed, outcome, due>>

-----------------------------------------------------------------------------

\* now() is the instant the command started at and what has elapsed since.
Tick ==
    /\ now < Horizon
    /\ now' = now + 1
    /\ UNCHANGED <<vars, stage, terms, reading, slot, store, printed, outcome, exit, due>>

\* The watcher's thread runs beside all this.
Watcher == stage # "exited" /\ Callback /\ UNCHANGED watchVars

Command ==
    \/ Admit \/ Observe
    \/ Top \/ Arm \/ LookNext \/ ReceiveNext \/ Collected \/ Sleep \/ Wake
    \/ Polled \/ Harvest \/ DropParked \/ Decide \/ EmitBurst
    \/ DropBind \/ Exit

WNext == Command \/ Watcher \/ Tick

WSpec == WInit /\ [][WNext]_wvars

\* The runtime polls a task that has been woken.
WLiveSpec == WSpec /\ WF_wvars(Command)

-----------------------------------------------------------------------------
(* Properties. *)

\* Exit 0 is a complete account: each descriptor in the store has its line, in
\* the order of its signals, none was refused, and the store is within the
\* limits of the set.
AccountIsComplete ==
    exit = "ok" =>
        /\ {printed[i] : i \in 1..Len(printed)} = store.entries
        /\ \A i \in 1..Len(printed) - 1 : printed[i] < printed[i + 1]
        /\ Len(printed) = store.asked
        /\ Len(printed) <= StoreEvents
        /\ store.bytes <= StoreBytes

\* A session that the clock wakes does not end with its deadline over a loss
\* that was flagged by then, although the flag woke nobody. There is one
\* exception: an event that comes in the same turn keeps poll_ready from being
\* asked, and then the loss is never reported.
DeadlineReportsLoss == outcome = "deadline" => due \cap lost = {}

\* Past its deadline or the end of its lease the command exits, whatever the
\* watcher does or leaves undone, even if the clock then stands still.
WatchEnds == now >= EarliestWake ~> stage = "exited"

\* The bind is used as its callers may use it.
UsesBind == Spec
=============================================================================
