---------------------------- MODULE MCTranscript ----------------------------
(* Values for the constants of Transcript that a .cfg cannot write. *)
EXTENDS Transcript

NoLeaseEnds == [r \in Arms |-> Horizon]
FirstLeaseEnds == [r \in Arms |-> IF r = 1 THEN 0 ELSE Horizon]
TwoEach == [r \in Arms |-> 2]
SecondOversized == [r \in Arms |-> IF r = 2 THEN {1} ELSE {}]
=============================================================================
