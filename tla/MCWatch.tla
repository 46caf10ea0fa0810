------------------------------- MODULE MCWatch -------------------------------
(* Values for the constants of Watch that a .cfg cannot write. *)
EXTENDS Watch

Here == [portable |-> TRUE, holder |-> "inside", subject |-> "file"]
Unmoved == {[holder |-> "same", subject |-> "same"]}
Good == [wellFormed |-> TRUE, latest |-> TRUE, posture |-> "local", predicate |-> "create",
         place |-> Here, starts |-> TRUE]
Binds == {Good, [Good EXCEPT !.wellFormed = FALSE], [Good EXCEPT !.predicate = "unknown"]}

Reported(kind, paths, size) == [kind |-> kind, rescan |-> FALSE, paths |-> paths, size |-> size]
Few == {Reported("create", {"subject"}, 1), Reported("create", {"subject"}, 2),
        Reported("create", {"beside"}, 1), Reported("error", {}, 1)}

\* The deadline before the end of the lease, and after it.
Both == {[deadline |-> 1, lease |-> 2], [deadline |-> 2, lease |-> 1]}
=============================================================================
