------------------------------ MODULE SetRules ------------------------------
(***************************************************************************)
(* The normative rules that JSON schemas cannot state: what one message    *)
(* must satisfy, and what the messages of a directory must satisfy         *)
(* together. Rules about a kind of message that is not among them pass.    *)
(*                                                                         *)
(* A message is a record with a type. Anchors and event ids are opaque     *)
(* values; instants are numbers. The messages come in a sequence, for some *)
(* rules look at the first or the last of a kind.                          *)
(***************************************************************************)
EXTENDS Integers, Sequences, FiniteSets

Outcomes == {"poll_cycle_outcome", "live_wait_outcome"}
Citations == {"poll_cycle_request", "live_wait_request"}

\* The messages of docs that have one of the types.
OfType(docs, types) == {docs[i] : i \in {j \in 1..Len(docs) : docs[j].type \in types}}
PollOutcomes(docs) == OfType(docs, {"poll_cycle_outcome"})

-----------------------------------------------------------------------------
(* Rules for one message. *)

DeadlinesOrdered(d) == d.type \in Citations => d.run <= d.logical

\* An arm of an outcome that cannot vouch for its source.
InDoubt(a) == a.status \in {"outage", "cursor_uncertain"} \/ a.degraded

RequiredArms(o) == {a \in o.arms : a.required}
AllNoChange(o) ==
    RequiredArms(o) # {} /\ \A a \in RequiredArms(o) : a.status = "no_change" /\ ~a.degraded
AllVouchedFor(o) == RequiredArms(o) # {} /\ \A a \in RequiredArms(o) : ~InDoubt(a)

\* outcome_normative. Poll outcomes always carry a logical deadline.
OutcomeNormative(o) ==
    /\ o.kind \in {"no_change", "logical_deadman"} =>
         ~ \E a \in RequiredArms(o) : InDoubt(a)
    /\ o.kind = "no_change" =>
         o.events = {} /\ o.complete /\ AllNoChange(o) /\ o.completed < o.logical
    /\ o.kind = "logical_deadman" =>
         o.events = {} /\ o.complete /\ AllVouchedFor(o) /\ o.completed >= o.logical

PerMessage(docs) ==
    \A i \in 1..Len(docs) :
        /\ DeadlinesOrdered(docs[i])
        /\ docs[i].type \in Outcomes => OutcomeNormative(docs[i])

-----------------------------------------------------------------------------
(* Rules for several messages. *)

\* coverage_cardinality: whoever claims complete coverage reports every arm
\* that some request requires.
CoverageCardinality(docs) ==
    LET required == UNION {d.required : d \in OfType(docs, {"poll_cycle_request"})}
    IN  \A o \in PollOutcomes(docs) : o.complete => required \subseteq {a.arm : a \in o.arms}

\* ack_rules: an ack commits, by registration, what its outcome retained.
AckRules(docs) ==
    \A k \in OfType(docs, {"poll_cycle_ack"}), o \in PollOutcomes(docs) :
        k.outcome = o.id =>
            \A r \in DOMAIN k.committed :
                /\ r \in DOMAIN o.retained /\ k.committed[r] = o.retained[r]
                /\ k.events[r] \subseteq o.retainedEvents[r]

StatusOf(o, arm) ==
    IF \E a \in o.arms : a.arm = arm THEN (CHOOSE a \in o.arms : a.arm = arm).status ELSE "none"

\* fairness_starvation: under a cursor that stands still no required arm is
\* deferred in every outcome while another one has events.
FairnessStarvation(docs) ==
    \A o \in PollOutcomes(docs) :
        LET mine == {p \in PollOutcomes(docs) : p.waiter = o.waiter}
            arms == UNION {{a.arm : a \in RequiredArms(p)} : p \in mine}
            frozen == Cardinality({p.cursor : p \in mine}) = 1
            starved(arm) ==
                /\ \A p \in mine : StatusOf(p, arm) = "deferred"
                /\ \E p \in mine : \E a \in RequiredArms(p) : a.arm # arm /\ a.status = "events"
        IN  Cardinality(mine) >= 2 /\ frozen => \A arm \in arms : ~starved(arm)

\* silent_cursor_advance compares the outcome created first with the one
\* created last, and passes whenever there is an ack. Of outcomes created
\* together, the order of the messages decides.
FirstAndLast(docs) ==
    LET at == {i \in 1..Len(docs) : docs[i].type = "poll_cycle_outcome"}
        before(i, j) == \/ docs[i].created < docs[j].created
                        \/ docs[i].created = docs[j].created /\ i <= j
    IN  <<docs[CHOOSE i \in at : \A j \in at : before(i, j)],
          docs[CHOOSE i \in at : \A j \in at : before(j, i)]>>
SilentCursorAdvance(docs) ==
    OfType(docs, {"poll_cycle_ack"}) = {} /\ Cardinality(PollOutcomes(docs)) >= 2 =>
        LET first == FirstAndLast(docs)[1]
            last == FirstAndLast(docs)[2]
            lost == ~ (first.events \subseteq last.events)
            advanced == \E r \in DOMAIN first.proposed :
                            r \notin DOMAIN last.proposed \/ last.proposed[r] # first.proposed[r]
        IN  ~ (lost /\ advanced)

\* revision_cross: every request cites the revision of the last set.
RevisionCross(docs) ==
    LET sets == {i \in 1..Len(docs) : docs[i].type = "registration_set"}
        newest == CHOOSE i \in sets : \A j \in sets : j <= i
    IN  sets # {} =>
            \A q \in OfType(docs, Citations) : q.revision = docs[newest].revision

\* authn_lease_bounds, in its three parts. They ask nothing of messages
\* without a set or without an outcome.
Sets(docs) == IF OfType(docs, Outcomes) = {} THEN {} ELSE OfType(docs, {"registration_set"})
ReceiptsShown(docs) ==
    LET requests == OfType(docs, Citations)
    IN  (\E s \in Sets(docs) : s.authn) /\ (requests = {} \/ \E q \in requests : ~q.receipt) =>
            \A o \in OfType(docs, Outcomes) :
                o.kind \notin {"events", "no_change", "logical_deadman", "partial"}
LeasesHeld(docs) ==
    \A s \in Sets(docs), o \in OfType(docs, Outcomes) : \A r \in DOMAIN s.lease :
        s.lease[r] < o.completed => o.kind = "reauthentication_required"
BoundsKept(docs) ==
    \A s \in Sets(docs), o \in OfType(docs, Outcomes) :
        o.kind \notin {"partial", "coverage_degraded"} =>
            /\ Cardinality(o.events) <= s.max
            /\ \A r \in DOMAIN s.maxOf : Cardinality({e \in o.events : e[1] = r}) <= s.maxOf[r]

\* set_rules: what the first rule that rejects the messages says, or "none".
Verdict(docs) ==
    IF ~PerMessage(docs) THEN "normative"
    ELSE IF ~CoverageCardinality(docs) THEN "coverage_cardinality"
    ELSE IF ~AckRules(docs) THEN "ack_past_unretained"
    ELSE IF ~FairnessStarvation(docs) THEN "fairness_starvation"
    ELSE IF ~SilentCursorAdvance(docs) THEN "silent_cursor_advance"
    ELSE IF ~RevisionCross(docs) THEN "revision_cross"
    ELSE IF ~ReceiptsShown(docs) THEN "authn_required"
    ELSE IF ~LeasesHeld(docs) THEN "lease_reauth"
    ELSE IF ~BoundsKept(docs) THEN "bound"
    ELSE "none"
=============================================================================
