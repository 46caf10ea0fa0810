----------------------------- MODULE MCCoalesce -----------------------------
(* Values for the constants of Coalesce that a .cfg cannot write. *)
EXTENDS Coalesce

LeaseInside == [r \in Arms |-> IF r = 1 THEN 2 ELSE Horizon + 1]
OneThenTwo == <<1, 2>>
TwoEach == [r \in Arms |-> 2]
NoneOversized == [r \in Arms |-> {}]
=============================================================================
