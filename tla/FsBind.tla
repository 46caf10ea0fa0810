------------------------------- MODULE FsBind -------------------------------
(***************************************************************************)
(* One bind of the file-system provider: the native watcher's callback     *)
(* thread at one end of a bounded channel, and at the other the task that  *)
(* calls next, poll_ready and restore_ready. What the channel cannot take  *)
(* is lost, and a flag is raised for it in a second step.                  *)
(*                                                                         *)
(* A call first looks at what can be answered without the channel          *)
(* (immediate) and then takes signals from it. Other threads may come      *)
(* between any two of these steps.                                         *)
(***************************************************************************)
EXTENDS Integers, Sequences, FiniteSets

CONSTANTS
    MaxEvents,      \* bounds.max_events of the registration
    MaxBytes,       \* bounds.max_bytes, in units of a descriptor
    MaxChannel,     \* the largest channel (65536)
    Configured,     \* the registrations and providers a bind may meet
    Results,        \* what notify may report
    Finds,          \* what a later look at the subject may find
    SinkAnswers,    \* what the event-reference sink may answer
    Strangers,      \* events of other binds that a caller may hand back
    MaxSignals      \* bound: what the watcher reports to one bind

Classes == {"create", "write", "remove", "rename", "ambiguous"}
Predicates == {"create", "write", "remove", "rename", "any"}

\* Why a bind answers once without a watcher, and what else a call may answer.
Refusals == {"invalid_registration", "cursor_unsupported", "unsupported_filesystem", "path",
             "native"}
Answers == Refusals \cup
           {"none", "event", "restored", "overflow", "rescan", "ambiguous", "sink", "digest",
            "bind_released", "cross_bind_restore"}

\* What bind finds under a portable path or another: the directory that holds
\* the subject, and the subject, once links are followed.
Places ==
    [portable : BOOLEAN,
     holder : {"inside", "outside", "missing"},           \* ... the root
     subject : {"file", "directory", "missing", "outside"}]

\* ... and what a later look finds there.
LaterPlaces == [holder : {"same", "other"}, subject : {"same", "inside", "outside", "missing"}]

\* A registration and its provider, as far as bind looks at them.
Configurations ==
    [wellFormed : BOOLEAN,                            \* method, subject kind and source fit
     latest : BOOLEAN,                                \* no start_anchor, baseline latest
     posture : {"local", "network", "unknown"},
     predicate : Predicates \cup {"unknown"},
     place : Places,                                  \* where the subject leads
     starts : BOOLEAN]                                \* the native watcher starts

\* What notify reports: an error, or an event of a kind, with the rescan mark,
\* paths that are the subject's, beside it, or out of the root, and a size.
PathKinds == {"subject", "beside", "outside"}
NotifyResults ==
    [kind : {"error", "create", "remove", "name", "modify", "other"}, rescan : BOOLEAN,
     paths : SUBSET PathKinds, size : Nat]

\* An event of the seam, by the numbers in its tokens, the first of them that
\* of the bind it comes from; "of" is the number of the signal it was made from.
Session == 1
Event == [session : Nat, id : Nat, start : Int, next : Nat, of : Nat]

ASSUME FsBindAssumption ==
    /\ MaxEvents \in Nat
    /\ MaxBytes \in Nat
    /\ MaxChannel \in Nat \ {0}
    /\ Configured \subseteq Configurations
    /\ Results \subseteq NotifyResults
    /\ Finds \subseteq LaterPlaces
    /\ SinkAnswers \subseteq {"stored", "error", "altered"}
    /\ Strangers \subseteq {e \in Event : e.session # Session}
    /\ MaxSignals \in Nat

VARIABLES
    config,       \* the registration to bind, and its provider
    bound,        \* whether bind has returned
    channel,      \* signals on their way to the task, oldest first
    unflagged,    \* a signal the callback could not send and has yet to flag, or 0
    overflowed,   \* the overflow flag
    released,     \* the release flag
    watching,     \* whether the callback, and so a sender, still exists
    terminal,     \* what an inert bind has yet to answer, or "none"
    restored,     \* events given back, the next one to hand out first
    sequence,     \* events made so far
    current,      \* current_anchor
    call,         \* where a call stands
    answer,       \* what the last call answered
    held,         \* the events the task has and may give back
    kept,         \* how many events the task has kept for good
    raised,       \* how many signals the watcher has reported
    lost,         \* history: lost signals that no Overflow has answered for
    slipped       \* history: events answered past a lost signal since then

callbackVars == <<unflagged, overflowed, watching, raised>>
historyVars == <<lost, slipped>>
eventVars == <<restored, sequence, current, held, kept>>
vars == <<config, bound, channel, callbackVars, released, terminal, eventVars, call, answer,
          historyVars>>

Init ==
    /\ config \in Configured
    /\ bound = FALSE
    /\ channel = <<>>
    /\ unflagged = 0
    /\ overflowed = FALSE
    /\ released = FALSE
    /\ watching = FALSE
    /\ terminal = "none"
    /\ restored = <<>>
    /\ sequence = 0
    /\ current = 0
    /\ call = "none"
    /\ answer = "none"
    /\ held = <<>>
    /\ kept = 0
    /\ raised = 0
    /\ lost = {}
    /\ slipped = 0

-----------------------------------------------------------------------------
(* Binding. *)

\* The channel's capacity: at least one, at most the limit. The variant takes
\* the registration at its word.
CapacityUnclamped == MaxEvents
Capacity == IF MaxEvents < 1 THEN 1 ELSE IF MaxEvents > MaxChannel THEN MaxChannel ELSE MaxEvents

\* Target::resolve: the path does not leave the root by its text, nor by what
\* is there; the subject itself may be missing yet.
Confined(p) == p.portable /\ p.holder = "inside" /\ p.subject # "outside"

\* Why a bind is inert from the start, or "none". The reasons are looked for
\* in this order.
Refusal(c) ==
    IF ~c.wellFormed THEN "invalid_registration"
    ELSE IF ~c.latest THEN "cursor_unsupported"
    ELSE IF c.posture # "local" THEN "unsupported_filesystem"
    ELSE IF c.predicate \notin Predicates THEN "invalid_registration"
    ELSE IF ~Confined(c.place) THEN "path"
    ELSE IF ~c.starts THEN "native"
    ELSE "none"

Bind ==
    /\ ~bound
    /\ bound' = TRUE
    /\ terminal' = Refusal(config)
    /\ watching' = (Refusal(config) = "none")
    /\ UNCHANGED <<config, channel, unflagged, overflowed, raised, released, eventVars, call,
                   answer, historyVars>>

-----------------------------------------------------------------------------
(* The watcher's callback. *)

SignalOf(n) ==
    IF n.kind = "error" THEN "failed"
    ELSE IF n.rescan THEN "rescan"
    ELSE CASE n.kind \in {"create", "remove"} -> n.kind
           [] n.kind = "name" -> "rename"
           [] n.kind = "modify" -> "write"
           [] n.kind = "other" -> "ambiguous"

\* try_send: a signal that the channel has no room for is lost here.
Report(n) ==
    /\ watching
    /\ unflagged = 0
    /\ raised < MaxSignals
    /\ raised' = raised + 1
    /\ IF Len(channel) < Capacity
       THEN /\ channel' = Append(channel, [of |-> raised', signal |-> SignalOf(n),
                                           paths |-> n.paths, size |-> n.size])
            /\ UNCHANGED <<unflagged, lost>>
       ELSE /\ unflagged' = raised'
            /\ lost' = lost \cup {raised'}
            /\ UNCHANGED channel
    /\ UNCHANGED <<config, bound, overflowed, watching, released, terminal, eventVars, call,
                   answer, slipped>>

\* ... and flagged here. It wakes nobody.
Flag ==
    /\ unflagged # 0
    /\ unflagged' = 0
    /\ overflowed' = TRUE
    /\ UNCHANGED <<config, bound, channel, watching, raised, released, terminal, eventVars,
                   call, answer, historyVars>>

\* The watcher goes after its lease, which release() drops, once its thread is
\* done. The variant keeps the lease.
LeaseKept == FALSE
LeaseDropped == released
WatcherStops ==
    /\ LeaseDropped
    /\ watching
    /\ unflagged = 0
    /\ watching' = FALSE
    /\ UNCHANGED <<config, bound, channel, unflagged, overflowed, raised, released, terminal,
                   eventVars, call, answer, historyVars>>

-----------------------------------------------------------------------------
(* What a call answers. *)

\* immediate(). The variant prefers what the channel still holds to the flag.
ImmediateLate ==
    IF released THEN "bind_released"
    ELSE IF restored # <<>> THEN "restored"
    ELSE IF overflowed /\ channel = <<>> THEN "overflow"
    ELSE terminal
Immediate ==
    IF released THEN "bind_released"
    ELSE IF restored # <<>> THEN "restored"
    ELSE IF overflowed THEN "overflow"
    ELSE terminal

\* What is left of the flag. The variant clears it whenever it is looked at.
FlagSwapped == FALSE
FlagLeft == overflowed /\ Immediate # "overflow"

AnswerAtOnce ==
    /\ Immediate # "none"
    /\ answer' = Immediate
    /\ overflowed' = FlagLeft
    /\ terminal' = IF Immediate = terminal THEN "none" ELSE terminal
    /\ IF Immediate = "restored"
       THEN held' = Append(held, Head(restored)) /\ restored' = Tail(restored)
       ELSE UNCHANGED <<held, restored>>
    /\ IF Immediate = "overflow"
       THEN lost' = lost \cap {unflagged} /\ slipped' = 0
       ELSE UNCHANGED historyVars
    /\ UNCHANGED <<config, bound, channel, unflagged, watching, raised, released, sequence,
                   current, kept>>

\* still_safe: nothing was moved under the watcher. A subject that was missing
\* may have come, one that was there may have gone.
StillSafe(p, later) ==
    /\ later.holder = "same"
    /\ IF p.subject = "missing" THEN later.subject # "outside"
       ELSE later.subject \in {"same", "missing"}

\* normalize_paths: a directory is watched for whatever is in it, anything else
\* for itself.
Named(p, paths) == IF p.subject = "directory" THEN paths ELSE paths \cap {"subject"}

Matches(class) == config.predicate \in {"any", class}

\* process() and process_event(): what signal s becomes, if still_safe answers
\* safe and the sink, where it is asked, answers sink; "none" is no observation.
Observed(s, safe, sink) ==
    IF released THEN "bind_released"
    ELSE IF s.signal = "rescan" THEN "rescan"
    ELSE IF s.signal = "failed" THEN "native"
    ELSE IF ~safe \/ "outside" \in s.paths THEN "path"
    ELSE IF Named(config.place, s.paths) = {} THEN "none"
    ELSE IF s.signal = "ambiguous" /\ config.predicate # "any" THEN "ambiguous"
    ELSE IF ~Matches(s.signal) THEN "none"
    ELSE IF s.size > MaxBytes THEN "overflow"
    ELSE CASE sink = "stored" -> "event"
           [] sink = "error" -> "sink"
           [] sink = "altered" -> "digest"

\* The next event of the bind, made from signal s.
NewEvent(s) ==
    [session |-> Session, id |-> sequence + 1, start |-> current, next |-> sequence + 1,
     of |-> s.of]

\* Only this bind's own events come back. The variant takes any event.
OwnsAny(e) == TRUE
Owns(e) ==
    /\ e.session = Session
    /\ e.start = e.id - 1
    /\ e.next = e.id

-----------------------------------------------------------------------------
(* The task that uses the bind. *)

\* next(): look, then wait for the channel.
StartNext ==
    /\ bound
    /\ call = "none"
    /\ call' = "look"
    /\ UNCHANGED <<config, bound, channel, callbackVars, released, terminal, eventVars, answer,
                   historyVars>>

\* Where a call goes on after a look that found nothing.
Onward == IF call = "look" THEN "receive" ELSE "drain"

Look ==
    /\ call \in {"look", "peek"}
    /\ \/ AnswerAtOnce /\ call' = "none"
       \/ /\ Immediate = "none"
          /\ call' = Onward
          /\ UNCHANGED <<config, bound, channel, callbackVars, released, terminal, eventVars,
                         answer, historyVars>>

\* A signal is taken from the channel and answered, or dropped: then next
\* looks again, and poll_ready takes the following signal.
Receive ==
    /\ call \in {"receive", "drain"}
    /\ channel # <<>>
    /\ channel' = Tail(channel)
    /\ \E later \in Finds, sink \in SinkAnswers :
         LET s == Head(channel)
             seen == Observed(s, StillSafe(config.place, later), sink)
         IN  IF seen = "event"
             THEN /\ sequence' = sequence + 1
                  /\ current' = sequence + 1
                  /\ held' = Append(held, NewEvent(s))
                  /\ slipped' = slipped + IF \E l \in lost : l < s.of THEN 1 ELSE 0
                  /\ answer' = seen
                  /\ call' = "none"
             ELSE /\ answer' = IF seen = "none" THEN answer ELSE seen
                  /\ call' = IF seen # "none" THEN "none"
                             ELSE IF call = "receive" THEN "look" ELSE "drain"
                  /\ UNCHANGED <<sequence, current, held, slipped>>
    /\ UNCHANGED <<config, bound, callbackVars, released, terminal, restored, kept, lost>>

\* recv() answers None when every sender is gone.
ReceiveNone ==
    /\ call = "receive"
    /\ channel = <<>>
    /\ ~watching
    /\ answer' = "native"
    /\ call' = "none"
    /\ UNCHANGED <<config, bound, channel, callbackVars, released, terminal, eventVars,
                   historyVars>>

\* poll_ready() when no next is under way ...
StartPoll ==
    /\ bound
    /\ call = "none"
    /\ call' = "peek"
    /\ UNCHANGED <<config, bound, channel, callbackVars, released, terminal, eventVars, answer,
                   historyVars>>

PollFindsNothing ==
    /\ call = "drain"
    /\ channel = <<>>
    /\ answer' = "none"
    /\ call' = "none"
    /\ UNCHANGED <<config, bound, channel, callbackVars, released, terminal, eventVars,
                   historyVars>>

\* ... and when the receiver is locked by a next that waits: the channel is
\* out of its sight.
PollBesideNext ==
    /\ call = "receive"
    /\ \/ AnswerAtOnce
       \/ /\ Immediate = "none"
          /\ answer' = "none"
          /\ UNCHANGED <<config, bound, channel, callbackVars, released, terminal, eventVars,
                         historyVars>>
    /\ UNCHANGED call

\* A select! drops the future of next.
DropNext ==
    /\ call = "receive"
    /\ call' = "none"
    /\ UNCHANGED <<config, bound, channel, callbackVars, released, terminal, eventVars, answer,
                   historyVars>>

\* restore_ready(), by a task that gives back the last event first and has no
\* next under way. The variant queues it behind the others.
PushBack(q, e) == Append(q, e)
PushFront(q, e) == <<e>> \o q
RestoreOwn ==
    /\ call = "none"
    /\ held # <<>>
    /\ LET e == held[Len(held)]
       IN  /\ Owns(e)
           /\ restored' = PushFront(restored, e)
           /\ held' = SubSeq(held, 1, Len(held) - 1)
    /\ UNCHANGED <<config, bound, channel, callbackVars, released, terminal, sequence, current,
                   kept, call, answer, historyVars>>

\* An event of another bind, of the same registration perhaps.
RestoreStranger ==
    /\ bound
    /\ call = "none"
    /\ \E e \in Strangers :
         IF Owns(e) THEN restored' = PushFront(restored, e) /\ UNCHANGED answer
                    ELSE answer' = "cross_bind_restore" /\ UNCHANGED restored
    /\ UNCHANGED <<config, bound, channel, callbackVars, released, terminal, sequence, current,
                   held, kept, call, historyVars>>

\* The task keeps the first of its events for good.
Keep ==
    /\ held # <<>>
    /\ held' = Tail(held)
    /\ kept' = kept + 1
    /\ UNCHANGED <<config, bound, channel, callbackVars, released, terminal, restored, sequence,
                   current, call, answer, historyVars>>

\* cancel(), or the bind is dropped by its other owner.
Release ==
    /\ bound
    /\ ~released
    /\ released' = TRUE
    /\ UNCHANGED <<config, bound, channel, callbackVars, terminal, eventVars, call, answer,
                   historyVars>>

Callback == (\E n \in Results : Report(n)) \/ Flag \/ WatcherStops

Progress == Look \/ Receive \/ ReceiveNone \/ PollFindsNothing

Next ==
    \/ Bind \/ Release
    \/ Callback
    \/ StartNext \/ StartPoll \/ Progress \/ PollBesideNext \/ DropNext
    \/ RestoreOwn \/ RestoreStranger \/ Keep

Spec == Init /\ [][Next]_vars

\* A call that has not parked goes on, recv() returns when there is something
\* to return, and the watcher's thread ends what it has begun.
LiveSpec == Spec /\ WF_vars(Progress) /\ WF_vars(Flag) /\ WF_vars(WatcherStops)

-----------------------------------------------------------------------------
(* Properties. *)

Signal == [of : 1..MaxSignals, signal : Classes \cup {"failed", "rescan"},
           paths : SUBSET PathKinds, size : Nat]

TypeOK ==
    /\ config \in Configured
    /\ bound \in BOOLEAN
    /\ channel \in Seq(Signal)
    /\ Len(channel) <= MaxChannel
    /\ unflagged \in 0..MaxSignals
    /\ overflowed \in BOOLEAN
    /\ released \in BOOLEAN
    /\ watching \in BOOLEAN
    /\ terminal \in {"none"} \cup Refusals
    /\ restored \in Seq(Event)
    /\ sequence \in 0..MaxSignals
    /\ current \in 0..MaxSignals
    /\ call \in {"none", "look", "receive", "peek", "drain"}
    /\ answer \in Answers
    /\ held \in Seq(Event)
    /\ kept \in 0..MaxSignals
    /\ raised \in 0..MaxSignals
    /\ lost \in SUBSET (1..MaxSignals)
    /\ slipped \in Nat

\* No gap is silent: while a signal is lost and no Overflow has answered for
\* it, the flag is up, or the callback is about to raise it; and the flag is
\* never up for nothing.
NoSilentGap == overflowed <=> lost \ {unflagged} # {}

\* The flag is raised after the signal is lost and a call looks at it once, so
\* an event behind the gap may be answered before the Overflow: but one only.
GapSlipsOnce == slipped <= 1

\* The anchors of what the task keeps, holds and gives back are one chain
\* without a link missing: each event starts where the one before it ended,
\* whatever was filtered, refused by the sink or lost in between.
ChainUnbroken ==
    LET chain == held \o restored
    IN  \A i \in 1..Len(chain) : /\ chain[i].session = Session
                                 /\ chain[i].start = kept + i - 1
                                 /\ chain[i].next = kept + i

\* ... and the bind keeps the seam's promise about events.
Ids(s) == [i \in 1..Len(s) |-> s[i].id]
Seam == INSTANCE Custody WITH
    Arms <- {Session},
    provider <- [b \in {Session} |-> Ids(restored)],
    held <- [b \in {Session} |-> Ids(held)],
    consumed <- [b \in {Session} |-> [i \in 1..kept |-> i]],
    erred <- FALSE
KeepsCustody == Seam!Spec

\* A released bind answers: no call is left waiting for a watcher that is gone.
ReleaseEnds == released /\ call # "none" ~> call = "none"
=============================================================================
