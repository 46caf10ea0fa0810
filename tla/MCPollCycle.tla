---------------------------- MODULE MCPollCycle ----------------------------
(* Values for the constants of PollCycle that a .cfg cannot write. *)
EXTENDS PollCycle

NoLeaseEnds == [r \in Arms |-> Horizon]
FirstLeaseEnds == [r \in Arms |-> IF r = 1 THEN 0 ELSE Horizon]
TwoEach == [r \in Arms |-> 2]
NoneOversized == [r \in Arms |-> {}]
SecondOversized == [r \in Arms |-> IF r = 2 THEN {2} ELSE {}]
=============================================================================
