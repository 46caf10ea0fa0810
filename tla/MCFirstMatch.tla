---------------------------- MODULE MCFirstMatch ----------------------------
(* Values for the constants of FirstMatch that a .cfg cannot write. *)
EXTENDS FirstMatch

NoLeaseEnds == [r \in Arms |-> Horizon]
FirstLeaseEnds == [r \in Arms |-> IF r = 1 THEN 1 ELSE Horizon]
OneTick == <<1>>
OneThenTwo == <<1, 2>>
=============================================================================
