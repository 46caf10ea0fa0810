------------------------------ MODULE MCFollow ------------------------------
(* Values for the constants of Follow that a .cfg cannot write. *)
EXTENDS Follow

LeaseAtEnd == [r \in Arms |-> IF r = 1 THEN 1 ELSE Horizon]
OneThenTwo == <<1, 2>>
=============================================================================
