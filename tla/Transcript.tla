----------------------------- MODULE Transcript -----------------------------
(***************************************************************************)
(* What a caller of run_poll_cycle has on disk: the registration set, and  *)
(* each request, outcome and ack of its cycles as a message. The command   *)
(* validate reads such a directory back with the rules of SetRules.        *)
(***************************************************************************)
EXTENDS PollCycle, SetRules

\* An admitted set names at least one arm as required.
ASSUME TranscriptAssumption == Required # {}

VARIABLE
    docs      \* the messages, in the order they were written

tvars == <<vars, docs>>

Anchor(r, n) == <<r, n>>
EventsOf(r, s) == {<<r, s[i]>> : i \in 1..Len(s)}

SetMessage ==
    [type |-> "registration_set", revision |-> 1, authn |-> AuthnRequired, lease |-> Lease,
     maxOf |-> MaxTakeOf, max |-> MaxTake]

RequestMessage(q) ==
    [type |-> "poll_cycle_request", revision |-> 1, required |-> Required, receipt |-> q.receipt,
     run |-> q.run, logical |-> q.logical]

\* visit_status: the status of an arm and whether it is degraded. An outcome
\* without events shows none of its arms with any.
Status(visit, kind) ==
    CASE visit \in {"events", "saturated"} ->
           IF kind \in Final \cup {"refused", "reauthentication_required"}
           THEN "no_change" ELSE "events"
      [] visit = "idle" -> "no_change"
      [] visit \in {"overflow", "failed", "degraded"} -> "observed"
      [] visit \in {"outage", "cursor_uncertain"} -> visit
      [] visit \in {"deferred", "none"} -> "deferred"

ArmReports(o, vis) ==
    {[arm |-> r, required |-> r \in Required, status |-> Status(vis[r], o.kind),
      degraded |-> vis[r] = "degraded"] : r \in o.arms}

\* coverage_is_complete.
Complete(o, reports) ==
    /\ o.kind \in {"events"} \cup CleanKinds
    /\ \A r \in Required : \E a \in reports : a.arm = r /\ ~InDoubt(a)

\* build: the outcome o of cycle number id, from the visits vis.
OutcomeMessage(id, q, o, vis) ==
    [type |-> "poll_cycle_outcome", id |-> id, waiter |-> 1, kind |-> o.kind,
     events |-> UNION {EventsOf(r, o.events[r]) : r \in o.arms},
     complete |-> Complete(o, ArmReports(o, vis)),
     created |-> o.at, completed |-> o.at, logical |-> q.logical,
     arms |-> ArmReports(o, vis),
     retained |-> [r \in o.arms |-> Anchor(r, o.retained[r])],
     retainedEvents |-> [r \in o.arms |-> EventsOf(r, o.events[r])],
     proposed |-> [r \in o.arms |-> Anchor(r, o.proposed[r])],
     cursor |-> NextCursor]

\* ack_poll_outcome, for the outcome message o.
AckMessage(o) ==
    [type |-> "poll_cycle_ack", outcome |-> o.id, committed |-> o.retained,
     events |-> o.retainedEvents]

LastOutcome ==
    docs[CHOOSE i \in 1..Len(docs) :
            /\ docs[i].type = "poll_cycle_outcome"
            /\ \A j \in i + 1 .. Len(docs) : docs[j].type # "poll_cycle_outcome"]

-----------------------------------------------------------------------------

TInit == Init /\ docs = <<SetMessage>>

\* A request is written before its cycle, an outcome after it.
Starts == StartCycle /\ docs' = Append(docs, RequestMessage(request'))
Acks == Ack /\ docs' = Append(docs, AckMessage(LastOutcome))
Ends ==
    /\ Runner
    /\ docs' = IF pc' = "idle" /\ outcome'.kind \notin Silent
               THEN Append(docs, OutcomeMessage(cycles, request, outcome', visits'))
               ELSE docs
Others ==
    /\ \/ Restart \/ Abandon
       \/ /\ Environment
          /\ due' = {r \in due : signal'[r] \notin AllSignals}
          /\ UNCHANGED <<cycleVars, committed, seen, passed, whole>>
    /\ UNCHANGED docs

TNext == Starts \/ Acks \/ Ends \/ Others

TSpec == TInit /\ [][TNext]_tvars
TLiveSpec == TSpec /\ WF_tvars(Ends)

-----------------------------------------------------------------------------
(* Properties. *)

\* The messages of the last cycle alone: set, request, outcome, ack.
LastCycle ==
    LET start == CHOOSE i \in 2..Len(docs) :
                    /\ docs[i].type = "poll_cycle_request"
                    /\ \A j \in i + 1 .. Len(docs) : docs[j].type # "poll_cycle_request"
    IN  <<docs[1]>> \o SubSeq(docs, start, Len(docs))

\* What one cycle leaves behind is admitted: its coverage claim, the side of
\* the deadline it stands on, its bounds, its receipt and its ack. There is
\* one exception: the posture check lets a cancelled or failed outcome pass
\* after a lease has run out, and the lease rule does not.
CycleIsAdmitted ==
    Len(docs) > 1 =>
        \/ Verdict(LastCycle) = "none"
        \/ Verdict(LastCycle) = "lease_reauth" /\ LastOutcome.kind \in Final

\* Over several cycles, with acks, restarts and cancellations between them,
\* rotation keeps the messages clear of starvation, and no ack commits more
\* than its outcome retained. "unacked replay must not look like a silent
\* advance", but it can: rotation lets the last cycle serve other arms than the
\* first, or fewer events of one, and an arm that answers Err when poll_ready
\* asks it passes for idle at the deadline. An outcome that claims complete
\* coverage shows all that the first did of the required arms, if it has events
\* or no arm answers Err.
Claims(o) == o.complete /\ (o.kind = "events" \/ "error" \notin Signals)
Shows(o) == {e[1] : e \in o.events}
TranscriptIsAdmitted ==
    /\ CoverageCardinality(docs)
    /\ AckRules(docs)
    /\ FairnessStarvation(docs)
    /\ BoundsKept(docs)
    /\ Cardinality(PollOutcomes(docs)) >= 2
          /\ Claims(FirstAndLast(docs)[2])
          /\ Shows(FirstAndLast(docs)[1]) \subseteq Required
       => SilentCursorAdvance(docs)
=============================================================================
