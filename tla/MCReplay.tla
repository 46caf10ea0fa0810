------------------------------- MODULE MCReplay -------------------------------
(* Two arms, each with up to two events at instants before, at and after the  *)
(* deadline and the end of the leases, given in any order.                    *)
EXTENDS Replay

UpTo(n) == UNION {[1..k -> Times] : k \in 0..n}
TwoEventsEach == [Arms -> UpTo(2)]
=============================================================================
