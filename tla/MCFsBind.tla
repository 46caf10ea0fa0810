------------------------------ MODULE MCFsBind ------------------------------
(* Values for the constants of FsBind that a .cfg cannot write. *)
EXTENDS FsBind

Here == [portable |-> TRUE, holder |-> "inside", subject |-> "file"]
Good == [wellFormed |-> TRUE, latest |-> TRUE, posture |-> "local", predicate |-> "create",
         place |-> Here, starts |-> TRUE]

\* Every reason to refuse a bind, and a bind to a file, to a directory and to
\* a subject that is not there yet.
OneOfEach ==
    {Good,
     [Good EXCEPT !.wellFormed = FALSE], [Good EXCEPT !.latest = FALSE],
     [Good EXCEPT !.posture = "network"], [Good EXCEPT !.predicate = "unknown"],
     [Good EXCEPT !.place.holder = "outside"], [Good EXCEPT !.starts = FALSE],
     [Good EXCEPT !.place.subject = "directory"], [Good EXCEPT !.place.subject = "missing"]}

\* The subject as it was, come or replaced, and another holder.
FewFinds ==
    {[holder |-> "same", subject |-> "same"], [holder |-> "same", subject |-> "inside"],
     [holder |-> "other", subject |-> "same"]}

Reported(kind, paths, size) == [kind |-> kind, rescan |-> FALSE, paths |-> paths, size |-> size]

\* An event that matches, one that is filtered out, and the three ways a
\* signal becomes bad news.
Wanted == Reported("create", {"subject"}, 1)
Unwanted == Reported("create", {"beside"}, 1)
MoreResults ==
    {Wanted, Unwanted, Reported("modify", {"subject"}, 1), Reported("create", {"subject"}, 2),
     Reported("other", {"subject"}, 1), Reported("error", {}, 1),
     [Wanted EXCEPT !.rescan = TRUE], Reported("create", {"subject", "outside"}, 1),
     Reported("name", {"subject", "beside"}, 1), Reported("remove", {"subject"}, 1)}

\* The same registration, bound in another session.
OtherSession == {[session |-> 2, id |-> 1, start |-> 0, next |-> 1, of |-> 1]}
=============================================================================
