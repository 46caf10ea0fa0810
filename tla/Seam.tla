-------------------------------- MODULE Seam --------------------------------
(***************************************************************************)
(* What a runner of waitprims-async waits on: the observer (bind / next /  *)
(* poll_ready / restore_ready), the logical clock and the cancel token.    *)
(* All three are shared with other tasks and threads, so every action of   *)
(* this module may fall between any two steps of a runner.                 *)
(*                                                                         *)
(* A registration is an arm, named by its place in                         *)
(* registration_set.registrations; the n-th event an arm emits is the      *)
(* number n.                                                               *)
(***************************************************************************)
EXTENDS Integers, Sequences, FiniteSets

CONSTANTS
    N,               \* how many registrations the set has
    Required,        \* the arms whose registration says required = true
    IdleArms,        \* the arms whose provider may answer Idle when it has nothing
    HungArms,        \* the arms whose bind() may hang
    Signals,         \* the arm signals the providers may raise
    MaxEvents,       \* bound: events an arm may emit
    Horizon,         \* bound: the last instant of the clock
    Lease,           \* [Arms -> instant]: lease_expires_at of each registration
    RestoreCanFail   \* whether restore_ready may return Err

Arms == 1..N

\* Everything next() may answer but an event or Idle; "error" is Err.
AllSignals == {"overflow", "failed", "outage", "cursor_uncertain", "degraded", "error"}

ASSUME SeamAssumption ==
    /\ N \in Nat \ {0}
    /\ Required \subseteq Arms
    /\ IdleArms \subseteq Arms
    /\ HungArms \subseteq Arms
    /\ Signals \subseteq AllSignals
    /\ MaxEvents \in Nat
    /\ Horizon \in Nat
    /\ Lease \in [Arms -> Nat]
    /\ RestoreCanFail \in BOOLEAN

VARIABLES
    now,         \* the logical clock
    cancelled,   \* the cancel token
    arrived,     \* [Arms -> how many events the source has emitted]
    queue,       \* [Arms -> events the observer holds, oldest first]
    signal,      \* [Arms -> "none", the signal the arm is raising, or "idle"]
    bindable     \* the arms whose bind() completes

seamVars == <<now, cancelled, arrived, queue, signal, bindable>>
observerVars == <<arrived, signal, bindable>>

SeamTypeOK ==
    /\ now \in 0..Horizon
    /\ cancelled \in BOOLEAN
    /\ arrived \in [Arms -> 0..MaxEvents]
    /\ queue \in [Arms -> Seq(1..MaxEvents)]
    /\ signal \in [Arms -> Signals \cup {"none", "idle"}]
    /\ bindable \in SUBSET Arms

SeamInit ==
    /\ now = 0
    /\ cancelled = FALSE
    /\ arrived = [r \in Arms |-> 0]
    /\ queue = [r \in Arms |-> <<>>]
    /\ signal = [r \in Arms |-> "none"]
    /\ bindable = Arms \ HungArms

-----------------------------------------------------------------------------
(* What an observer answers. *)

\* A raised signal is answered before any queued event (take_due).
Due(r) ==
    IF signal[r] \in AllSignals THEN signal[r]
    ELSE IF queue[r] # <<>> THEN "event" ELSE "none"

\* One poll of the future next(bind); "none" is Poll::Pending.
NextAnswer(r) == IF Due(r) = "none" /\ signal[r] = "idle" THEN "idle" ELSE Due(r)

\* poll_ready(bind), which has no error to answer; "none" is None.
ReadyAnswer(r) == IF Due(r) = "error" THEN "none" ELSE Due(r)

\* restore_ready puts an event back at the front, so that it is the next one
\* a later next() or poll_ready() hands out.
PushBack(q, e) == Append(q, e)
PushFront(q, e) == <<e>> \o q

-----------------------------------------------------------------------------
(* The environment. *)

\* The source of arm r emits its next event.
Arrive(r) ==
    /\ arrived[r] < MaxEvents
    /\ arrived' = [arrived EXCEPT ![r] = @ + 1]
    /\ queue' = [queue EXCEPT ![r] = Append(@, arrived[r] + 1)]
    /\ UNCHANGED <<now, cancelled, signal, bindable>>

\* Arm r starts to raise s, or stops raising what it raised ("none"). "idle"
\* is a provider that answers Idle rather than wait for an event.
Raise(r, s) ==
    /\ s = "idle" => r \in IdleArms
    /\ signal[r] # s
    /\ signal[r] = "none" \/ s = "none"
    /\ signal' = [signal EXCEPT ![r] = s]
    /\ UNCHANGED <<now, cancelled, arrived, queue, bindable>>

\* A bind() that hung completes from now on.
ReleaseHang(r) ==
    /\ r \notin bindable
    /\ bindable' = bindable \cup {r}
    /\ UNCHANGED <<now, cancelled, arrived, queue, signal>>

Tick ==
    /\ now < Horizon
    /\ now' = now + 1
    /\ UNCHANGED <<cancelled, arrived, queue, signal, bindable>>

\* Cancel::trigger on any clone of the token.
Trigger ==
    /\ ~cancelled
    /\ cancelled' = TRUE
    /\ UNCHANGED <<now, arrived, queue, signal, bindable>>

Environment ==
    \/ \E r \in Arms : Arrive(r)
    \/ \E r \in Arms, s \in Signals \cup {"none", "idle"} : Raise(r, s)
    \/ \E r \in Arms : ReleaseHang(r)
    \/ Tick
    \/ Trigger
=============================================================================
