----------------------------- MODULE RetainedLog -----------------------------
(***************************************************************************)
(* What POLL_ACK_RETENTION promises a consumer, whatever happens inside a  *)
(* cycle: each arm is a log. An outcome hands the consumer the events that *)
(* follow the committed cursor, without a gap, as often as it takes; an    *)
(* ack moves the cursor forward, and only past events that were handed     *)
(* over. Nothing else moves it.                                            *)
(***************************************************************************)
EXTENDS Naturals

CONSTANT Arms

VARIABLES
    log,         \* [Arms -> how many events the source has emitted]
    committed,   \* [Arms -> the last event acknowledged]
    seen         \* [Arms -> the events handed to the consumer]

logVars == <<log, committed, seen>>

Init ==
    /\ log = [r \in Arms |-> 0]
    /\ committed = [r \in Arms |-> 0]
    /\ seen = [r \in Arms |-> {}]

Emit(r) ==
    /\ log' = [log EXCEPT ![r] = @ + 1]
    /\ UNCHANGED <<committed, seen>>

Deliver ==
    /\ \A r \in Arms : \E last \in committed[r] .. log[r] :
         seen'[r] = seen[r] \cup (committed[r] + 1 .. last)
    /\ UNCHANGED <<log, committed>>

Commit ==
    /\ \A r \in Arms : committed'[r] >= committed[r] /\ 1 .. committed'[r] \subseteq seen[r]
    /\ UNCHANGED <<log, seen>>

Next == (\E r \in Arms : Emit(r)) \/ Deliver \/ Commit

Spec == Init /\ [][Next]_logVars
=============================================================================
