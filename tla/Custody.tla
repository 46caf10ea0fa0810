------------------------------- MODULE Custody -------------------------------
(***************************************************************************)
(* What the observer seam promises about events, whichever runner drives   *)
(* it. An event is with the provider, held by the runner, or consumed (it  *)
(* was in an outcome the caller received). Events change hands; they are   *)
(* never reordered or duplicated, a consumed event is never taken back,    *)
(* and a held event may be lost only by a step that ends the run with Err. *)
(***************************************************************************)
EXTENDS Lists

CONSTANT Arms

VARIABLES
    provider,   \* [Arms -> events not handed out, oldest first]
    held,       \* [Arms -> events the runner took and has not given back]
    consumed,   \* [Arms -> events the caller received]
    erred       \* whether the last run to end ended with Err

custodyVars == <<provider, held, consumed, erred>>

\* Everything arm r emitted that still exists, oldest first.
Stream(r) == consumed[r] \o held[r] \o provider[r]

Extends(s, t) == Len(s) <= Len(t) /\ SubSeq(t, 1, Len(s)) = s

Init ==
    /\ provider = [r \in Arms |-> <<>>]
    /\ held = [r \in Arms |-> <<>>]
    /\ consumed = [r \in Arms |-> <<>>]
    /\ erred = FALSE

\* Events of arm r change hands, and its source may emit one that is new.
Move(r) ==
    /\ Extends(consumed[r], consumed'[r])
    /\ Extends(Stream(r), Stream(r)')
    /\ \A i \in Len(Stream(r)) + 1 .. Len(Stream(r)') :
         /\ i = Len(Stream(r)) + 1
         /\ \A j \in 1 .. Len(Stream(r)) : Stream(r)[j] < Stream(r)'[i]

\* Some of what the runner held of arm r, or had just taken, is lost. What is
\* left is with the provider, in its order.
Lose(r) ==
    LET open == held[r] \o provider[r]
        left == {provider'[r][i] : i \in 1..Len(provider'[r])}
    IN  /\ consumed'[r] = consumed[r]
        /\ held'[r] = <<>>
        /\ provider'[r] = Keeping(open, left)

Next ==
    \/ \A r \in Arms : Move(r)
    \/ erred' /\ \A r \in Arms : Move(r) \/ Lose(r)

Spec == Init /\ [][Next]_custodyVars
=============================================================================
