----------------------------- MODULE Watch_proofs -----------------------------
(***************************************************************************)
(* Theorems about FsBind and about Watch, the command that uses it, for    *)
(* every channel, store, set of registrations and number of signals. Of    *)
(* the bind: no gap is silent, at most one event is answered past a gap,   *)
(* and the anchors are one chain, which makes it keep the seam's promise   *)
(* about events. Of the command: it uses its bind as the bind expects, so  *)
(* all this holds under it; exit 0 is a complete account; and a deadline   *)
(* does not hide a loss that was flagged when the clock was read.          *)
(***************************************************************************)
EXTENDS Watch, SequenceTheorems, TLAPS

-----------------------------------------------------------------------------
(* The chain: event n leads from anchor n - 1 to anchor n. The task has    *)
(* kept the events up to k, holds the next ones, h, and the bind has those *)
(* after them, r, to hand out again; n events have been made.              *)

Link(e, n) ==
    /\ e.session = Session
    /\ e.id = n
    /\ e.start = n - 1
    /\ e.next = n

Chained(h, r, k, n) ==
    /\ k + Len(h) + Len(r) = n
    /\ \A i \in 1..Len(h) : Link(h[i], k + i)
    /\ \A i \in 1..Len(r) : Link(r[i], k + Len(h) + i)

\* A restored event is handed out.
LEMMA HandOutChains ==
    ASSUME NEW h \in Seq(Event), NEW r \in Seq(Event), NEW k \in Nat, NEW n \in Nat,
           Chained(h, r, k, n), r # <<>>
    PROVE  /\ Append(h, Head(r)) \in Seq(Event)
           /\ Tail(r) \in Seq(Event)
           /\ Chained(Append(h, Head(r)), Tail(r), k, n)
<1> DEFINE g == Append(h, Head(r))
           t == Tail(r)
<1>1. /\ Len(h) \in Nat
      /\ Len(r) \in Nat /\ Len(r) >= 1
  BY LenProperties, EmptySeq
<1>2. /\ Head(r) \in Event
      /\ t \in Seq(Event)
      /\ Len(t) = Len(r) - 1
      /\ \A i \in 1..Len(t) : t[i] = r[i + 1]
  BY HeadTailProperties
<1>3. Head(r) = r[1]
  BY <1>1
<1>4. /\ g \in Seq(Event)
      /\ Len(g) = Len(h) + 1
      /\ \A i \in 1..Len(h) : g[i] = h[i]
      /\ g[Len(h) + 1] = Head(r)
  BY <1>2, AppendProperties
<1> HIDE DEF g, t
<1>5. /\ Len(g) \in Nat
      /\ Len(t) \in Nat
      /\ k + Len(h) + Len(r) = n
  BY <1>2, <1>4, LenProperties DEF Chained
<1>6. ASSUME NEW i \in 1..Len(g) PROVE Link(g[i], k + i)
  <2>1. CASE i \in 1..Len(h)
    BY <1>4, <2>1 DEF Chained
  <2>2. CASE i = Len(h) + 1
    <3>1. Link(r[1], k + Len(h) + 1)
      BY <1>1 DEF Chained
    <3> QED BY <1>1, <1>3, <1>4, <2>2, <3>1
  <2> QED BY <1>1, <1>4, <1>5, <2>1, <2>2
<1>7. ASSUME NEW i \in 1..Len(t) PROVE Link(t[i], k + Len(g) + i)
  <2>1. i + 1 \in 1..Len(r) /\ k + Len(h) + (i + 1) = k + Len(g) + i
    BY <1>1, <1>2, <1>4
  <2> QED BY <1>2, <2>1 DEF Chained
<1>8. k + Len(g) + Len(t) = n
  <2>1. Len(g) = Len(h) + 1 /\ Len(t) = Len(r) - 1
    BY <1>2, <1>4
  <2>2. Len(h) \in Nat /\ Len(r) \in Nat
    BY <1>1
  <2> QED BY <1>5, <2>1, <2>2
<1>9. Chained(g, t, k, n)
  BY <1>6, <1>7, <1>8 DEF Chained
<1> QED BY <1>2, <1>4, <1>9 DEF g, t

\* A new event is made when there is none to hand out again.
LEMMA NewEventChains ==
    ASSUME NEW h \in Seq(Event), NEW k \in Nat, NEW n \in Nat, Chained(h, <<>>, k, n),
           NEW e \in Event, Link(e, n + 1)
    PROVE  /\ Append(h, e) \in Seq(Event)
           /\ Chained(Append(h, e), <<>>, k, n + 1)
<1> DEFINE g == Append(h, e)
<1>1. Len(h) \in Nat /\ Len(<<>>) = 0
  BY LenProperties, EmptySeq
<1>2. /\ g \in Seq(Event)
      /\ Len(g) = Len(h) + 1
      /\ \A i \in 1..Len(h) : g[i] = h[i]
      /\ g[Len(h) + 1] = e
  BY AppendProperties
<1> HIDE DEF g
<1>3. k + Len(g) + Len(<<>>) = n + 1 /\ k + Len(h) = n
  BY <1>1, <1>2 DEF Chained
<1>4. ASSUME NEW i \in 1..Len(g) PROVE Link(g[i], k + i)
  <2>1. CASE i \in 1..Len(h)
    BY <1>2, <2>1 DEF Chained
  <2>2. CASE i = Len(h) + 1
    BY <1>1, <1>2, <1>3, <2>2
  <2> QED BY <1>1, <1>2, <2>1, <2>2
<1>5. Chained(g, <<>>, k, n + 1)
  BY <1>1, <1>3, <1>4 DEF Chained
<1> QED BY <1>2, <1>5 DEF g

\* The last event of the task is given back.
LEMMA GiveBackChains ==
    ASSUME NEW h \in Seq(Event), NEW r \in Seq(Event), NEW k \in Nat, NEW n \in Nat,
           Chained(h, r, k, n), h # <<>>
    PROVE  LET g == SubSeq(h, 1, Len(h) - 1)
               p == PushFront(r, h[Len(h)])
           IN  g \in Seq(Event) /\ p \in Seq(Event) /\ Chained(g, p, k, n)
<1> DEFINE e == h[Len(h)]
           g == SubSeq(h, 1, Len(h) - 1)
           p == <<e>> \o r
<1>1. Len(h) \in Nat /\ Len(h) >= 1 /\ Len(r) \in Nat
  BY LenProperties, EmptySeq
<1>2. e \in Event
  BY <1>1, ElementOfSeq
<1>3. \A i \in 1..Len(h) - 1 : h[i] \in Event
  BY <1>1, ElementOfSeq
<1>4. /\ g \in Seq(Event)
      /\ Len(g) = Len(h) - 1
      /\ \A i \in 1..Len(g) : g[i] = h[i]
  <2> DEFINE m == Len(h) - 1
  <2>1. m \in Nat /\ 1 \in Int /\ m \in Int /\ \A i \in 1..m : h[i] \in Event
    BY <1>1, <1>3
  <2> HIDE DEF m
  <2>2. /\ SubSeq(h, 1, m) \in Seq(Event)
        /\ Len(SubSeq(h, 1, m)) = IF 1 <= m THEN m - 1 + 1 ELSE 0
        /\ \A i \in 1 .. m - 1 + 1 : SubSeq(h, 1, m)[i] = h[1 + i - 1]
    BY <2>1, SubSeqProperties
  <2>3. Len(SubSeq(h, 1, m)) = m
    BY <2>1, <2>2
  <2>4. \A i \in 1..m : SubSeq(h, 1, m)[i] = h[i]
    BY <2>1, <2>2
  <2> QED BY <2>2, <2>3, <2>4 DEF m
<1>5. <<e>> \in Seq(Event) /\ Len(<<e>>) = 1 /\ <<e>>[1] = e
  BY <1>2
<1>6. /\ p \in Seq(Event)
      /\ Len(p) = 1 + Len(r)
      /\ \A i \in 1 .. 1 + Len(r) : p[i] = IF i <= 1 THEN <<e>>[i] ELSE r[i - 1]
  BY <1>5, ConcatProperties
<1>7. Link(e, k + Len(h))
  BY <1>1 DEF Chained
<1> HIDE DEF e, g, p
<1>8. k + Len(g) + Len(p) = n
  <2>1. Len(g) = Len(h) - 1 /\ Len(p) = 1 + Len(r)
    BY <1>4, <1>6
  <2>2. Len(h) \in Nat /\ Len(r) \in Nat /\ k + Len(h) + Len(r) = n
    BY <1>1 DEF Chained
  <2> QED BY <2>1, <2>2
<1>9. ASSUME NEW i \in 1..Len(g) PROVE Link(g[i], k + i)
  BY <1>1, <1>4 DEF Chained
<1>10. ASSUME NEW i \in 1..Len(p) PROVE Link(p[i], k + Len(g) + i)
  <2>1. Len(g) = Len(h) - 1 /\ Len(p) = 1 + Len(r) /\ Len(h) \in Nat /\ Len(r) \in Nat
    BY <1>1, <1>4, <1>6
  <2>2. CASE i = 1
    <3>1. p[i] = e /\ k + Len(g) + i = k + Len(h)
      BY <1>5, <1>6, <2>1, <2>2
    <3> QED BY <1>7, <3>1
  <2>3. CASE i # 1
    <3>1. i - 1 \in 1..Len(r) /\ k + Len(h) + (i - 1) = k + Len(g) + i
      BY <2>1, <2>3
    <3>2. p[i] = r[i - 1]
      BY <1>6, <2>1, <2>3
    <3> QED BY <3>1, <3>2 DEF Chained
  <2> QED BY <2>2, <2>3
<1>11. Chained(g, p, k, n)
  BY <1>8, <1>9, <1>10 DEF Chained
<1> QED BY <1>4, <1>6, <1>11 DEF PushFront, e, g, p

\* The first event of the task is kept for good.
LEMMA KeepChains ==
    ASSUME NEW h \in Seq(Event), NEW r \in Seq(Event), NEW k \in Nat, NEW n \in Nat,
           Chained(h, r, k, n), h # <<>>
    PROVE  Tail(h) \in Seq(Event) /\ Chained(Tail(h), r, k + 1, n)
<1> DEFINE t == Tail(h)
<1>1. Len(h) \in Nat /\ Len(h) >= 1 /\ Len(r) \in Nat
  BY LenProperties, EmptySeq
<1>2. /\ t \in Seq(Event)
      /\ Len(t) = Len(h) - 1
      /\ \A i \in 1..Len(t) : t[i] = h[i + 1]
  BY HeadTailProperties
<1> HIDE DEF t
<1>3. k + 1 + Len(t) + Len(r) = n
  <2>1. Len(t) \in Nat /\ k + Len(h) + Len(r) = n
    BY <1>2, LenProperties DEF Chained
  <2>2. Len(t) = Len(h) - 1
    BY <1>2
  <2>3. Len(h) \in Nat /\ Len(r) \in Nat
    BY <1>1
  <2> QED BY <2>1, <2>2, <2>3
<1>4. ASSUME NEW i \in 1..Len(t) PROVE Link(t[i], k + 1 + i)
  <2>1. i + 1 \in 1..Len(h) /\ k + (i + 1) = k + 1 + i
    BY <1>1, <1>2
  <2> QED BY <1>2, <2>1 DEF Chained
<1>5. ASSUME NEW i \in 1..Len(r) PROVE Link(r[i], k + 1 + Len(t) + i)
  <2>1. k + Len(h) + i = k + 1 + Len(t) + i
    BY <1>1, <1>2
  <2> QED BY <2>1 DEF Chained
<1>6. Chained(t, r, k + 1, n)
  BY <1>3, <1>4, <1>5 DEF Chained
<1> QED BY <1>2, <1>6 DEF t

-----------------------------------------------------------------------------
(* The invariant.                                                          *)

\* Signals are numbered as the watcher reports them; the one that is yet to be
\* flagged is the last; and an event takes a signal.
Numbers ==
    /\ \A i \in 1..Len(channel) : channel[i].of <= raised
    /\ lost \subseteq 1..raised
    /\ unflagged # 0 => unflagged = raised /\ unflagged \in lost
    /\ sequence + Len(channel) <= raised

\* An event behind a gap has been answered only if the flag is up and no call
\* is on its way past it.
SlipTells ==
    slipped = 0 \/ (slipped = 1 /\ overflowed /\ call \notin {"receive", "drain"})

\* Nothing is given back to a bind while a call waits for its channel.
LookTells == call \in {"receive", "drain"} => restored = <<>>

Chain == Chained(held, restored, kept, sequence) /\ current = sequence

Inv == TypeOK /\ NoSilentGap /\ Numbers /\ SlipTells /\ LookTells /\ Chain

\* What an answer without the channel says about the bind.
LEMMA ImmediateTells ==
    ASSUME TypeOK
    PROVE  /\ Immediate \in Answers
           /\ Immediate = "restored" => restored # <<>>
           /\ Immediate = "overflow" => overflowed
           /\ Immediate = "none" => restored = <<>> /\ ~overflowed
BY DEF Immediate, TypeOK, Answers, Refusals

\* A signal becomes an answer.
LEMMA ObservedType ==
    ASSUME NEW s \in Signal, NEW safe \in BOOLEAN, NEW sink \in SinkAnswers
    PROVE  Observed(s, safe, sink) \in Answers
BY FsBindAssumption DEF Observed, Answers, Refusals

\* What notify reports becomes a signal.
LEMMA SignalType ==
    ASSUME NEW n \in Results
    PROVE  /\ SignalOf(n) \in Classes \cup {"failed", "rescan"}
           /\ n.paths \in SUBSET PathKinds
           /\ n.size \in Nat
BY FsBindAssumption DEF SignalOf, NotifyResults, Classes

LEMMA InitHolds == Init => Inv
<1> SUFFICES ASSUME Init PROVE Inv
  OBVIOUS
<1> USE FsBindAssumption DEF Init
<1>1. Len(<<>>) = 0 /\ <<>> \in Seq(Event) /\ <<>> \in Seq(Signal)
  BY EmptySeq
<1>2. TypeOK
  <2>1. 0 \in 0..MaxSignals /\ Len(<<>>) <= MaxChannel
    BY <1>1
  <2> QED BY <1>1, <2>1 DEF TypeOK, Answers
<1>3. NoSilentGap /\ Numbers /\ SlipTells /\ LookTells
  BY <1>1 DEF NoSilentGap, Numbers, SlipTells, LookTells
<1>4. Chain
  BY <1>1 DEF Chain, Chained
<1> QED BY <1>2, <1>3, <1>4 DEF Inv

\* An answer at once leaves the invariant, whether it ends its call or comes
\* beside a call that waits.
LEMMA AnswerKeeps ==
    ASSUME Inv, AnswerAtOnce, call' = "none" \/ call' = call
    PROVE  Inv'
<1> USE FsBindAssumption
<1>1. TypeOK /\ Chain /\ NoSilentGap
  BY DEF Inv
<1>2. /\ held \in Seq(Event) /\ restored \in Seq(Event)
      /\ kept \in Nat /\ sequence \in Nat
      /\ Chained(held, restored, kept, sequence)
  BY <1>1 DEF TypeOK, Chain
<1>3. /\ held' \in Seq(Event) /\ restored' \in Seq(Event)
      /\ Chained(held', restored', kept, sequence)
  <2>1. CASE Immediate = "restored"
    <3>1. restored # <<>> /\ held' = Append(held, Head(restored)) /\ restored' = Tail(restored)
      BY <1>1, <2>1, ImmediateTells DEF AnswerAtOnce
    <3> QED BY <1>2, <3>1, HandOutChains
  <2>2. CASE Immediate # "restored"
    BY <1>2, <2>2 DEF AnswerAtOnce
  <2> QED BY <2>1, <2>2
<1>4. Chain'
  BY <1>1, <1>3 DEF AnswerAtOnce, Chain
<1>5. /\ lost' = lost \/ lost' = lost \cap {unflagged}
      /\ lost' \subseteq lost /\ (unflagged \in lost => unflagged \in lost')
  BY DEF AnswerAtOnce, historyVars
<1>6. slipped' = slipped \/ slipped' = 0
  BY DEF AnswerAtOnce, historyVars
<1>7. TypeOK'
  <2>1. answer' \in Answers
    BY <1>1, ImmediateTells DEF AnswerAtOnce
  <2>2. lost' \in SUBSET (1..MaxSignals) /\ slipped' \in Nat
    BY <1>1, <1>5, <1>6 DEF TypeOK
  <2>3. terminal' \in {"none"} \cup Refusals /\ overflowed' \in BOOLEAN
    BY <1>1 DEF AnswerAtOnce, FlagLeft, TypeOK
  <2>4. call' \in {"none", "look", "receive", "peek", "drain"}
    BY <1>1 DEF TypeOK
  <2> QED BY <1>1, <1>3, <2>1, <2>2, <2>3, <2>4 DEF AnswerAtOnce, TypeOK
<1>8. NoSilentGap'
  <2>1. CASE Immediate = "overflow"
    BY <2>1 DEF AnswerAtOnce, FlagLeft, NoSilentGap
  <2>2. CASE Immediate # "overflow"
    BY <1>1, <2>2 DEF AnswerAtOnce, FlagLeft, NoSilentGap, historyVars, TypeOK
  <2> QED BY <2>1, <2>2
<1>9. Numbers'
  BY <1>5 DEF AnswerAtOnce, Inv, Numbers
<1>10. SlipTells'
  <2>1. CASE Immediate = "overflow"
    BY <2>1 DEF AnswerAtOnce, SlipTells
  <2>2. CASE Immediate # "overflow"
    BY <1>1, <2>2 DEF AnswerAtOnce, FlagLeft, historyVars, TypeOK, Inv, SlipTells
  <2> QED BY <2>1, <2>2
<1>11. LookTells'
  <2>1. CASE Immediate = "restored"
    BY <1>1, <2>1, ImmediateTells DEF Inv, LookTells
  <2>2. CASE Immediate # "restored"
    BY <2>2 DEF AnswerAtOnce, Inv, LookTells
  <2> QED BY <2>1, <2>2
<1> QED BY <1>4, <1>7, <1>8, <1>9, <1>10, <1>11 DEF Inv

\* The watcher reports: the signal is sent, or lost and not yet flagged.
LEMMA ReportKeeps ==
    ASSUME Inv, NEW n \in Results, Report(n)
    PROVE  Inv'
<1> USE FsBindAssumption
<1>1. TypeOK
  BY DEF Inv
<1>2. /\ raised \in Nat /\ raised' = raised + 1 /\ raised' \in 1..MaxSignals
      /\ unflagged = 0 /\ channel \in Seq(Signal) /\ Len(channel) \in Nat
      /\ lost \subseteq 1..raised /\ \A i \in 1..Len(channel) : channel[i].of \in 1..MaxSignals
  <2>1. /\ raised \in 0..MaxSignals /\ MaxSignals \in Nat /\ raised < MaxSignals
        /\ raised' = raised + 1 /\ unflagged = 0 /\ channel \in Seq(Signal)
        /\ lost \subseteq 1..raised
    BY <1>1 DEF Report, TypeOK, Inv, Numbers
  <2>2. raised \in Nat /\ raised' \in 1..MaxSignals
    BY <2>1
  <2>3. \A i \in 1..Len(channel) : channel[i].of \in 1..MaxSignals
    <3> TAKE i \in 1..Len(channel)
    <3>1. channel[i] \in Signal
      BY <2>1, ElementOfSeq
    <3> QED BY <3>1 DEF Signal
  <2> QED BY <2>1, <2>2, <2>3, LenProperties
<1>3. CASE Len(channel) < Capacity
  <2> DEFINE sig == [of |-> raised', signal |-> SignalOf(n), paths |-> n.paths, size |-> n.size]
  <2>1. sig \in Signal
    BY <1>2, SignalType DEF Signal
  <2>2. channel' = Append(channel, sig) /\ UNCHANGED <<unflagged, lost, slipped>>
    BY <1>3 DEF Report
  <2>3. sig.of = raised'
    OBVIOUS
  <2> HIDE DEF sig
  <2>4. /\ channel' \in Seq(Signal)
        /\ Len(channel') = Len(channel) + 1
        /\ \A i \in 1..Len(channel) : channel'[i] = channel[i]
        /\ channel'[Len(channel) + 1] = sig
    BY <1>2, <2>1, <2>2, AppendProperties
  <2>5. Len(channel') <= MaxChannel
    <3>1. MaxChannel \in Nat /\ MaxEvents \in Nat /\ 1 <= MaxChannel
      OBVIOUS
    <3>2. Capacity \in Nat /\ Capacity <= MaxChannel
      BY <3>1 DEF Capacity
    <3>3. Len(channel') = Len(channel) + 1 /\ Len(channel) \in Nat
      BY <1>2, <2>4
    <3> QED BY <1>3, <3>1, <3>2, <3>3
  <2>6. TypeOK'
    BY <1>1, <1>2, <2>2, <2>4, <2>5 DEF Report, eventVars, TypeOK
  <2>7. Numbers'
    <3>1. \A i \in 1..Len(channel') : channel'[i].of <= raised'
      <4> TAKE i \in 1..Len(channel')
      <4>1. CASE i \in 1..Len(channel)
        BY <1>2, <2>4, <4>1 DEF Inv, Numbers
      <4>2. CASE i = Len(channel) + 1
        BY <1>2, <2>3, <2>4, <4>2
      <4>3. i \in 1 .. Len(channel) + 1 /\ Len(channel) \in Nat
        BY <1>2, <2>4
      <4> QED BY <4>1, <4>2, <4>3
    <3>2. lost' \subseteq 1..raised'
      BY <1>2, <2>2
    <3>3. sequence' + Len(channel') <= raised'
      <4>1. /\ sequence' = sequence /\ sequence \in Nat /\ Len(channel) \in Nat /\ raised \in Nat
            /\ sequence + Len(channel) <= raised
        BY <1>1, <1>2 DEF Report, eventVars, Inv, Numbers, TypeOK
      <4>2. Len(channel') = Len(channel) + 1 /\ raised' = raised + 1
        BY <1>2, <2>4
      <4> QED BY <4>1, <4>2
    <3> QED BY <1>2, <2>2, <3>1, <3>2, <3>3 DEF Numbers
  <2>8. NoSilentGap' /\ SlipTells' /\ LookTells' /\ Chain'
    BY <2>2 DEF Report, eventVars, Inv, NoSilentGap, SlipTells, LookTells, Chain
  <2> QED BY <2>6, <2>7, <2>8 DEF Inv
<1>4. CASE ~(Len(channel) < Capacity)
  <2>1. unflagged' = raised' /\ lost' = lost \cup {raised'} /\ UNCHANGED <<channel, slipped>>
    BY <1>4 DEF Report
  <2>2. raised' \notin lost
    BY <1>2
  <2>3. TypeOK'
    BY <1>1, <1>2, <2>1 DEF Report, eventVars, TypeOK
  <2>4. Numbers'
    <3>1. \A i \in 1..Len(channel) : channel[i].of \in Nat /\ channel[i].of <= raised
      BY <1>2 DEF Inv, Numbers
    <3>2. \A i \in 1..Len(channel') : channel'[i].of <= raised'
      BY <1>2, <2>1, <3>1
    <3>3. lost' \subseteq 1..raised'
      BY <1>2, <2>1
    <3>4. sequence' + Len(channel') <= raised'
      BY <1>1, <1>2, <2>1 DEF Report, eventVars, Inv, Numbers, TypeOK
    <3> QED BY <1>2, <2>1, <3>2, <3>3, <3>4 DEF Numbers
  <2>5. NoSilentGap'
    <3>1. 0 \notin lost
      BY <1>2
    <3>2. lost' \ {unflagged'} = lost /\ lost \ {unflagged} = lost
      BY <1>2, <2>1, <2>2, <3>1
    <3> QED BY <3>2 DEF Report, Inv, NoSilentGap
  <2>6. SlipTells' /\ LookTells' /\ Chain'
    BY <2>1 DEF Report, eventVars, Inv, SlipTells, LookTells, Chain
  <2> QED BY <2>3, <2>4, <2>5, <2>6 DEF Inv
<1> QED BY <1>3, <1>4

\* A signal is taken from the channel. That it is past a gap means that the
\* flag was raised after this call had looked.
LEMMA ReceiveKeeps ==
    ASSUME Inv, Receive
    PROVE  Inv'
<1> USE FsBindAssumption
<1>1. TypeOK /\ Chain
  BY DEF Inv
<1> DEFINE s == Head(channel)
<1>2. /\ channel \in Seq(Signal) /\ channel # <<>> /\ Len(channel) \in Nat /\ Len(channel) >= 1
      /\ raised \in 0..MaxSignals /\ sequence \in Nat /\ MaxSignals \in Nat
  BY <1>1, LenProperties, EmptySeq DEF Receive, TypeOK
<1>3. /\ s \in Signal /\ channel' \in Seq(Signal) /\ Len(channel') = Len(channel) - 1
      /\ \A i \in 1..Len(channel') : channel'[i] = channel[i + 1]
  BY <1>2, HeadTailProperties DEF Receive
<1>4. s = channel[1]
  BY <1>2
<1> HIDE DEF s
<1>5. s.of \in Nat /\ s.of <= raised
  <2>1. s.of \in 1..MaxSignals
    BY <1>3 DEF Signal
  <2>2. s.of <= raised
    <3>1. \A i \in 1..Len(channel) : channel[i].of <= raised
      BY DEF Inv, Numbers
    <3>2. 1 \in 1..Len(channel)
      BY <1>2
    <3> QED BY <1>4, <3>1, <3>2
  <2> QED BY <1>2, <2>1, <2>2
<1>6. \A i \in 1..Len(channel') : channel'[i].of <= raised
  <2> TAKE i \in 1..Len(channel')
  <2>1. i + 1 \in 1..Len(channel)
    <3>1. Len(channel') = Len(channel) - 1 /\ Len(channel) \in Nat /\ i \in Nat /\ 1 <= i
          /\ i <= Len(channel')
      BY <1>2, <1>3
    <3> QED BY <3>1
  <2> QED BY <1>3, <2>1 DEF Inv, Numbers
<1>7. restored = <<>> /\ call \in {"receive", "drain"} /\ slipped = 0
  BY DEF Receive, Inv, LookTells, SlipTells
<1>8. /\ Len(channel') \in Nat /\ Len(channel') <= MaxChannel
      /\ sequence + Len(channel) <= raised
  <2>1. MaxChannel \in Nat /\ Len(channel) <= MaxChannel /\ sequence + Len(channel) <= raised
    BY <1>1 DEF TypeOK, Inv, Numbers
  <2>2. Len(channel') = Len(channel) - 1 /\ Len(channel) \in Nat /\ Len(channel) >= 1
    BY <1>2, <1>3
  <2> QED BY <2>1, <2>2
<1>9. PICK later \in Finds, sink \in SinkAnswers :
        LET seen == Observed(s, StillSafe(config.place, later), sink)
        IN  IF seen = "event"
            THEN /\ sequence' = sequence + 1
                 /\ current' = sequence + 1
                 /\ held' = Append(held, NewEvent(s))
                 /\ slipped' = slipped + IF \E l \in lost : l < s.of THEN 1 ELSE 0
                 /\ answer' = seen
                 /\ call' = "none"
            ELSE /\ answer' = IF seen = "none" THEN answer ELSE seen
                 /\ call' = IF seen # "none" THEN "none"
                            ELSE IF call = "receive" THEN "look" ELSE "drain"
                 /\ UNCHANGED <<sequence, current, held, slipped>>
  BY DEF Receive, s
<1> DEFINE safe == StillSafe(config.place, later)
<1>10. Observed(s, safe, sink) \in Answers
  <2>1. safe \in BOOLEAN
    BY DEF StillSafe
  <2> QED BY <1>3, <2>1, ObservedType
<1>11. NoSilentGap'
  BY DEF Receive, callbackVars, Inv, NoSilentGap
<1>12. CASE Observed(s, safe, sink) = "event"
  <2>1. /\ sequence' = sequence + 1
        /\ current' = sequence + 1
        /\ held' = Append(held, NewEvent(s))
        /\ slipped' = slipped + IF \E l \in lost : l < s.of THEN 1 ELSE 0
        /\ answer' = "event"
        /\ call' = "none"
    BY <1>9, <1>12
  <2>2. NewEvent(s) \in Event /\ Link(NewEvent(s), sequence + 1)
    <3>1. /\ current = sequence /\ sequence \in Int
          /\ sequence + 1 \in Nat /\ sequence + 1 - 1 = sequence
      BY <1>1, <1>2 DEF Chain
    <3>2. Session \in Nat
      BY DEF Session
    <3>3. NewEvent(s) \in Event
      BY <1>5, <3>1, <3>2 DEF NewEvent, Event
    <3>4. Link(NewEvent(s), sequence + 1)
      BY <3>1 DEF NewEvent, Link
    <3> QED BY <3>3, <3>4
  <2>3. /\ held \in Seq(Event) /\ kept \in Nat
        /\ Chained(held, <<>>, kept, sequence)
    BY <1>1, <1>7 DEF TypeOK, Chain
  <2>4. held' \in Seq(Event) /\ Chained(held', <<>>, kept, sequence + 1)
    BY <1>2, <2>1, <2>2, <2>3, NewEventChains
  <2>5. Chain'
    BY <1>7, <2>1, <2>4 DEF Receive, Chain
  <2>6. sequence' + Len(channel') <= raised /\ sequence' \in 0..MaxSignals
    <3>1. Len(channel') = Len(channel) - 1 /\ sequence' = sequence + 1
      BY <1>3, <2>1
    <3>2. /\ Len(channel) \in Nat /\ Len(channel') \in Nat /\ sequence \in Nat
          /\ raised \in 0..MaxSignals /\ sequence + Len(channel) <= raised /\ MaxSignals \in Nat
      BY <1>2, <1>8
    <3> QED BY <3>1, <3>2
  <2>7. TypeOK'
    BY <1>1, <1>2, <1>3, <1>7, <1>8, <2>1, <2>4, <2>6 DEF Receive, callbackVars, TypeOK, Answers
  <2>8. Numbers'
    BY <1>6, <2>6 DEF Receive, callbackVars, Inv, Numbers
  <2>9. SlipTells'
    <3>1. CASE \E l \in lost : l < s.of
      <4>1. PICK l \in lost : l < s.of
        BY <3>1
      <4>2. l # unflagged
        <5>1. l \in Nat
          BY <1>1 DEF TypeOK
        <5>2. unflagged # 0 => unflagged = raised
          BY DEF Inv, Numbers
        <5>3. l # 0
          BY <1>1 DEF TypeOK
        <5> QED BY <1>2, <1>5, <4>1, <5>1, <5>2, <5>3
      <4>3. overflowed
        BY <4>2 DEF Inv, NoSilentGap
      <4> QED BY <1>7, <2>1, <3>1, <4>3 DEF Receive, callbackVars, SlipTells
    <3>2. CASE ~(\E l \in lost : l < s.of)
      BY <1>7, <2>1, <3>2 DEF SlipTells
    <3> QED BY <3>1, <3>2
  <2>10. LookTells'
    BY <2>1 DEF LookTells
  <2> QED BY <1>11, <2>5, <2>7, <2>8, <2>9, <2>10 DEF Inv
<1>13. CASE Observed(s, safe, sink) # "event"
  <2>1. /\ answer' \in Answers
        /\ call' \in {"none", "look", "drain"}
        /\ UNCHANGED <<sequence, current, held, slipped>>
    BY <1>1, <1>9, <1>10, <1>13 DEF TypeOK
  <2>2. TypeOK'
    BY <1>1, <1>3, <1>7, <1>8, <2>1 DEF Receive, callbackVars, TypeOK
  <2>3. Numbers'
    <3>1. sequence' + Len(channel') <= raised
      <4>1. Len(channel') = Len(channel) - 1 /\ sequence' = sequence
        BY <1>3, <2>1
      <4>2. /\ Len(channel) \in Nat /\ Len(channel') \in Nat /\ sequence \in Nat
            /\ raised \in 0..MaxSignals /\ sequence + Len(channel) <= raised /\ MaxSignals \in Nat
        BY <1>2, <1>8
      <4> QED BY <4>1, <4>2
    <3> QED BY <1>6, <3>1 DEF Receive, callbackVars, Inv, Numbers
  <2>4. SlipTells' /\ LookTells' /\ Chain'
    BY <1>1, <1>7, <2>1 DEF Receive, SlipTells, LookTells, Chain
  <2> QED BY <1>11, <2>2, <2>3, <2>4 DEF Inv
<1> QED BY <1>12, <1>13

\* A step that only moves a call, but not to the channel.
LEMMA CallKeeps ==
    ASSUME Inv, TypeOK',
           UNCHANGED <<channel, unflagged, overflowed, raised, eventVars, historyVars>>,
           call' = call \/ call' \in {"none", "look", "peek"}
    PROVE  Inv'
<1>1. NoSilentGap' /\ Numbers' /\ Chain'
  BY DEF eventVars, historyVars, Inv, NoSilentGap, Numbers, Chain
<1>2. SlipTells' /\ LookTells'
  BY DEF eventVars, historyVars, Inv, SlipTells, LookTells
<1> QED BY <1>1, <1>2 DEF Inv

LEMMA StepKeeps == Inv /\ [Next]_vars => Inv'
<1> SUFFICES ASSUME Inv, [Next]_vars PROVE Inv'
  OBVIOUS
<1> USE FsBindAssumption
<1>1. TypeOK
  BY DEF Inv
<1>2. CASE Bind
  <2>1. Refusal(config) \in {"none"} \cup Refusals
    BY DEF Refusal, Refusals
  <2>2. TypeOK'
    BY <1>1, <1>2, <2>1 DEF Bind, eventVars, historyVars, TypeOK
  <2> QED BY <1>2, <2>2, CallKeeps DEF Bind
<1>3. CASE Release
  <2>1. TypeOK'
    BY <1>1, <1>3 DEF Release, callbackVars, eventVars, historyVars, TypeOK
  <2> QED BY <1>3, <2>1, CallKeeps DEF Release, callbackVars
<1>4. CASE \E n \in Results : Report(n)
  BY <1>4, ReportKeeps
<1>5. CASE Flag
  <2>1. TypeOK'
    BY <1>1, <1>5 DEF Flag, eventVars, historyVars, TypeOK
  <2>2. NoSilentGap'
    <3>1. unflagged \in lost /\ unflagged # 0 /\ 0 \notin lost
      BY <1>1, <1>5 DEF Flag, Inv, Numbers, TypeOK
    <3> QED BY <1>5, <3>1 DEF Flag, historyVars, NoSilentGap
  <2>3. Numbers' /\ LookTells' /\ Chain'
    BY <1>5 DEF Flag, eventVars, historyVars, Inv, Numbers, LookTells, Chain
  <2>4. SlipTells'
    BY <1>5 DEF Flag, historyVars, Inv, SlipTells
  <2> QED BY <2>1, <2>2, <2>3, <2>4 DEF Inv
<1>6. CASE WatcherStops
  <2>1. TypeOK'
    BY <1>1, <1>6 DEF WatcherStops, eventVars, historyVars, TypeOK
  <2> QED BY <1>6, <2>1, CallKeeps DEF WatcherStops
<1>7. CASE StartNext \/ StartPoll
  <2>1. TypeOK'
    BY <1>1, <1>7 DEF StartNext, StartPoll, callbackVars, eventVars, historyVars, TypeOK
  <2> QED BY <1>7, <2>1, CallKeeps DEF StartNext, StartPoll, callbackVars
<1>8. CASE Look
  <2>1. CASE AnswerAtOnce /\ call' = "none"
    BY <2>1, AnswerKeeps
  <2>2. CASE Immediate = "none" /\ call' = Onward
             /\ UNCHANGED <<config, bound, channel, callbackVars, released, terminal, eventVars,
                            answer, historyVars>>
    <3>1. restored = <<>> /\ ~overflowed
      BY <1>1, <2>2, ImmediateTells
    <3>2. TypeOK'
      BY <1>1, <2>2 DEF Onward, callbackVars, eventVars, historyVars, TypeOK
    <3>3. NoSilentGap' /\ Numbers' /\ Chain'
      BY <2>2 DEF callbackVars, eventVars, historyVars, Inv, NoSilentGap, Numbers, Chain
    <3>4. SlipTells' /\ LookTells'
      BY <2>2, <3>1 DEF callbackVars, eventVars, historyVars, Inv, SlipTells, LookTells
    <3> QED BY <3>2, <3>3, <3>4 DEF Inv
  <2> QED BY <1>8, <2>1, <2>2 DEF Look
<1>9. CASE Receive
  BY <1>9, ReceiveKeeps
<1>10. CASE ReceiveNone \/ PollFindsNothing \/ DropNext
  <2>1. answer' \in Answers
    <3>1. answer \in Answers /\ "native" \in Answers /\ "none" \in Answers
      BY <1>1 DEF TypeOK, Answers, Refusals
    <3>2. answer' \in {answer, "native", "none"}
      BY <1>10 DEF ReceiveNone, PollFindsNothing, DropNext
    <3> QED BY <3>1, <3>2
  <2>2. call' = "none" /\ UNCHANGED <<config, bound, channel, callbackVars, released, terminal,
                                      eventVars, historyVars>>
    BY <1>10 DEF ReceiveNone, PollFindsNothing, DropNext
  <2>3. TypeOK'
    BY <1>1, <2>1, <2>2 DEF callbackVars, eventVars, historyVars, TypeOK
  <2> QED BY <2>2, <2>3, CallKeeps DEF callbackVars
<1>11. CASE PollBesideNext
  <2>1. CASE AnswerAtOnce
    BY <1>11, <2>1, AnswerKeeps DEF PollBesideNext
  <2>2. CASE Immediate = "none" /\ answer' = "none"
             /\ UNCHANGED <<config, bound, channel, callbackVars, released, terminal, eventVars,
                            historyVars>>
    <3>1. TypeOK'
      BY <1>1, <1>11, <2>2 DEF PollBesideNext, callbackVars, eventVars, historyVars, TypeOK,
                               Answers
    <3> QED BY <1>11, <2>2, <3>1, CallKeeps DEF PollBesideNext, callbackVars
  <2> QED BY <1>11, <2>1, <2>2 DEF PollBesideNext
<1>12. CASE RestoreOwn
  <2>1. /\ held \in Seq(Event) /\ restored \in Seq(Event) /\ kept \in Nat /\ sequence \in Nat
        /\ Chained(held, restored, kept, sequence) /\ held # <<>>
    BY <1>1, <1>12 DEF RestoreOwn, TypeOK, Inv, Chain
  <2>2. /\ held' \in Seq(Event) /\ restored' \in Seq(Event)
        /\ Chained(held', restored', kept, sequence)
    BY <1>12, <2>1, GiveBackChains DEF RestoreOwn
  <2>3. TypeOK'
    BY <1>1, <1>12, <2>2 DEF RestoreOwn, callbackVars, historyVars, TypeOK
  <2>4. Chain'
    BY <1>12, <2>2 DEF RestoreOwn, Inv, Chain
  <2> QED BY <1>12, <2>3, <2>4 DEF RestoreOwn, callbackVars, historyVars, Inv, NoSilentGap,
                                   Numbers, SlipTells, LookTells
<1>13. CASE RestoreStranger
  <2>1. answer' = "cross_bind_restore" /\ restored' = restored
    BY <1>13 DEF RestoreStranger, Owns
  <2>2. TypeOK'
    BY <1>1, <1>13, <2>1 DEF RestoreStranger, callbackVars, historyVars, TypeOK, Answers
  <2> QED BY <1>13, <2>1, <2>2 DEF RestoreStranger, callbackVars, historyVars, Inv, NoSilentGap,
                                   Numbers, SlipTells, LookTells, Chain
<1>14. CASE Keep
  <2>1. /\ held \in Seq(Event) /\ restored \in Seq(Event) /\ kept \in Nat /\ sequence \in Nat
        /\ Chained(held, restored, kept, sequence) /\ held # <<>>
        /\ kept' = kept + 1 /\ held' = Tail(held) /\ restored' = restored
    BY <1>1, <1>14 DEF Keep, TypeOK, Inv, Chain
  <2>2. held' \in Seq(Event) /\ Chained(held', restored, kept', sequence)
    BY <2>1, KeepChains
  <2>3. kept' \in 0..MaxSignals
    <3>1. Len(held') \in Nat /\ Len(restored) \in Nat /\ sequence \in 0..MaxSignals
      BY <1>1, <2>1, <2>2, LenProperties DEF TypeOK
    <3>2. kept' + Len(held') + Len(restored) = sequence /\ kept' \in Nat
      BY <2>1, <2>2 DEF Chained
    <3> QED BY <3>1, <3>2
  <2>4. TypeOK'
    BY <1>1, <1>14, <2>1, <2>2, <2>3 DEF Keep, callbackVars, historyVars, TypeOK
  <2>5. Chain'
    BY <1>14, <2>1, <2>2 DEF Keep, Inv, Chain
  <2> QED BY <1>14, <2>4, <2>5 DEF Keep, callbackVars, historyVars, Inv, NoSilentGap, Numbers,
                                   SlipTells, LookTells
<1>15. CASE UNCHANGED vars
  <2>1. TypeOK'
    BY <1>1, <1>15 DEF vars, callbackVars, eventVars, historyVars, TypeOK
  <2> QED BY <1>15, <2>1, CallKeeps DEF vars, callbackVars
<1> QED BY <1>2, <1>3, <1>4, <1>5, <1>6, <1>7, <1>8, <1>9, <1>10, <1>11, <1>12, <1>13, <1>14,
           <1>15 DEF Next, Callback, Progress

\* The invariant holds in every state of a bind.
THEOREM Invariance == Spec => []Inv
BY InitHolds, StepKeeps, PTL DEF Spec

\* Every variable keeps its type, and the channel its bound.
THEOREM TypeCorrect == Spec => []TypeOK
<1>1. Inv => TypeOK
  BY DEF Inv
<1> QED BY Invariance, <1>1, PTL

\* While a lost signal is unanswered for, the flag is up or about to be.
THEOREM GapsAreNeverSilent == Spec => []NoSilentGap
<1>1. Inv => NoSilentGap
  BY DEF Inv
<1> QED BY Invariance, <1>1, PTL

\* At most one event is answered between a lost signal and its Overflow.
THEOREM OneSlipsPerGap == Spec => []GapSlipsOnce
<1>1. Inv => GapSlipsOnce
  BY DEF Inv, TypeOK, SlipTells, GapSlipsOnce
<1> QED BY Invariance, <1>1, PTL

\* The anchors of what is kept, held and given back are one chain.
THEOREM ChainIsUnbroken == Spec => []ChainUnbroken
<1>1. ASSUME Inv, NEW i \in 1..Len(held \o restored)
      PROVE  Link((held \o restored)[i], kept + i)
  <2>1. /\ held \in Seq(Event) /\ restored \in Seq(Event) /\ kept \in Nat
        /\ Chained(held, restored, kept, sequence)
    BY <1>1 DEF Inv, TypeOK, Chain
  <2>2. Len(held) \in Nat /\ Len(restored) \in Nat
    BY <2>1, LenProperties
  <2>3. /\ Len(held \o restored) = Len(held) + Len(restored)
        /\ \A j \in 1 .. Len(held) + Len(restored) :
             (held \o restored)[j] = IF j <= Len(held) THEN held[j] ELSE restored[j - Len(held)]
    BY <2>1, ConcatProperties
  <2>4. i \in 1 .. Len(held) + Len(restored)
    BY <2>3
  <2>5. CASE i <= Len(held)
    <3>1. i \in 1..Len(held) /\ (held \o restored)[i] = held[i]
      BY <2>2, <2>3, <2>4, <2>5
    <3> QED BY <2>1, <3>1 DEF Chained
  <2>6. CASE ~(i <= Len(held))
    <3>1. /\ i - Len(held) \in 1..Len(restored)
          /\ kept + Len(held) + (i - Len(held)) = kept + i
      BY <2>1, <2>2, <2>4, <2>6
    <3>2. (held \o restored)[i] = restored[i - Len(held)]
      BY <2>3, <2>4, <2>6
    <3> QED BY <2>1, <3>1, <3>2 DEF Chained
  <2> QED BY <2>5, <2>6
<1>2. Inv => ChainUnbroken
  <2> SUFFICES ASSUME Inv, NEW i \in 1..Len(held \o restored)
               PROVE  /\ (held \o restored)[i].session = Session
                      /\ (held \o restored)[i].start = kept + i - 1
                      /\ (held \o restored)[i].next = kept + i
    BY DEF ChainUnbroken
  <2> DEFINE e == (held \o restored)[i]
  <2>1. Link(e, kept + i)
    BY <1>1
  <2> HIDE DEF e
  <2>2. e.session = Session /\ e.start = kept + i - 1 /\ e.next = kept + i
    <3>1. kept \in Nat /\ i \in Nat
      BY DEF Inv, TypeOK
    <3> QED BY <2>1, <3>1 DEF Link
  <2> QED BY <2>2 DEF e
<1> QED BY Invariance, <1>2, PTL

-----------------------------------------------------------------------------
(* The seam's promise: to Custody, a bind is the numbers of its events.    *)

Count(n) == [i \in 1..n |-> i]

LEMMA CountType ==
    ASSUME NEW n \in Nat
    PROVE  /\ Count(n) \in Seq(Nat)
           /\ Len(Count(n)) = n
           /\ \A i \in 1..n : Count(n)[i] = i
BY DEF Count

\* The numbers of the events of a chain.
LEMMA IdsType ==
    ASSUME NEW h \in Seq(Event), NEW k \in Nat, \A i \in 1..Len(h) : Link(h[i], k + i)
    PROVE  /\ Ids(h) \in Seq(Nat)
           /\ Len(Ids(h)) = Len(h)
           /\ \A i \in 1..Len(h) : Ids(h)[i] = k + i
<1>1. Len(h) \in Nat
  BY LenProperties
<1>2. \A i \in 1..Len(h) : h[i].id = k + i /\ k + i \in Nat
  BY <1>1 DEF Link
<1> QED BY <1>1, <1>2 DEF Ids

\* The stream of a chain counts the events made.
LEMMA StreamCounts ==
    ASSUME NEW h \in Seq(Event), NEW r \in Seq(Event), NEW k \in Nat, NEW n \in Nat,
           Chained(h, r, k, n)
    PROVE  (Count(k) \o Ids(h)) \o Ids(r) = Count(n)
<1> DEFINE c == Count(k)
           u == Ids(h)
           v == Ids(r)
           w == c \o u
<1>1. /\ Len(h) \in Nat /\ Len(r) \in Nat /\ k + Len(h) \in Nat
      /\ k + Len(h) + Len(r) = n
  BY LenProperties DEF Chained
<1>2. c \in Seq(Nat) /\ Len(c) = k /\ \A i \in 1..k : c[i] = i
  BY CountType
<1>3. u \in Seq(Nat) /\ Len(u) = Len(h) /\ \A i \in 1..Len(h) : u[i] = k + i
  BY IdsType DEF Chained
<1>4. v \in Seq(Nat) /\ Len(v) = Len(r) /\ \A i \in 1..Len(r) : v[i] = k + Len(h) + i
  BY <1>1, IdsType DEF Chained
<1> HIDE DEF c, u, v
<1>5. /\ w \in Seq(Nat) /\ Len(w) = k + Len(h)
      /\ \A i \in 1 .. k + Len(h) : w[i] = IF i <= k THEN c[i] ELSE u[i - k]
  <2>1. /\ c \o u \in Seq(Nat) /\ Len(c \o u) = Len(c) + Len(u)
        /\ \A i \in 1 .. Len(c) + Len(u) :
             (c \o u)[i] = IF i <= Len(c) THEN c[i] ELSE u[i - Len(c)]
    BY <1>2, <1>3, ConcatProperties
  <2>2. Len(c) = k /\ Len(u) = Len(h)
    BY <1>2, <1>3
  <2> QED BY <2>1, <2>2
<1> HIDE DEF w
<1>6. /\ w \o v \in Seq(Nat) /\ Len(w \o v) = n
      /\ \A i \in 1..n : (w \o v)[i] = IF i <= k + Len(h) THEN w[i] ELSE v[i - (k + Len(h))]
  <2>1. w \in Seq(Nat) /\ v \in Seq(Nat)
    BY <1>4, <1>5
  <2>2. /\ w \o v \in Seq(Nat) /\ Len(w \o v) = Len(w) + Len(v)
        /\ \A i \in 1 .. Len(w) + Len(v) :
             (w \o v)[i] = IF i <= Len(w) THEN w[i] ELSE v[i - Len(w)]
    BY <2>1, ConcatProperties
  <2>3. Len(w) = k + Len(h) /\ Len(w) + Len(v) = n
    BY <1>1, <1>4, <1>5
  <2> QED BY <2>2, <2>3
<1>7. ASSUME NEW i \in 1..n PROVE (w \o v)[i] = i
  <2>1. CASE i <= k
    BY <1>1, <1>2, <1>5, <1>6, <2>1
  <2>2. CASE ~(i <= k) /\ i <= k + Len(h)
    <3>1. i - k \in 1..Len(h) /\ k + (i - k) = i /\ i \in 1 .. k + Len(h)
      BY <1>1, <2>2
    <3>2. (w \o v)[i] = w[i] /\ w[i] = u[i - k]
      BY <1>5, <1>6, <2>2, <3>1
    <3> QED BY <1>3, <3>1, <3>2
  <2>3. CASE ~(i <= k + Len(h))
    <3>1. i - (k + Len(h)) \in 1..Len(r) /\ k + Len(h) + (i - (k + Len(h))) = i
      BY <1>1, <2>3
    <3>2. (w \o v)[i] = v[i - (k + Len(h))]
      BY <1>6, <2>3
    <3> QED BY <1>4, <3>1, <3>2
  <2> QED BY <2>1, <2>2, <2>3
<1>8. Count(n) \in Seq(Nat) /\ Len(Count(n)) = n /\ \A i \in 1..n : Count(n)[i] = i
  BY CountType
<1>9. w \o v = Count(n)
  BY <1>6, <1>7, <1>8, SeqEqual
<1> QED BY <1>9 DEF c, u, v, w

\* A longer count begins with a shorter one.
LEMMA CountExtends ==
    ASSUME NEW m \in Nat, NEW n \in Nat, m <= n
    PROVE  Seam!Extends(Count(m), Count(n))
<1>1. /\ Count(m) \in Seq(Nat) /\ Len(Count(m)) = m /\ \A i \in 1..m : Count(m)[i] = i
      /\ Count(n) \in Seq(Nat) /\ Len(Count(n)) = n /\ \A i \in 1..n : Count(n)[i] = i
  BY CountType
<1>2. 1 \in Int /\ m \in Int /\ \A i \in 1..m : Count(n)[i] \in Nat
  BY <1>1
<1>3. /\ SubSeq(Count(n), 1, m) \in Seq(Nat)
      /\ Len(SubSeq(Count(n), 1, m)) = IF 1 <= m THEN m - 1 + 1 ELSE 0
      /\ \A i \in 1 .. m - 1 + 1 : SubSeq(Count(n), 1, m)[i] = Count(n)[1 + i - 1]
  BY <1>2, SubSeqProperties
<1>4. Len(SubSeq(Count(n), 1, m)) = m
  BY <1>3
<1>5. \A i \in 1..m : SubSeq(Count(n), 1, m)[i] = i
  BY <1>1, <1>3
<1>6. SubSeq(Count(n), 1, m) = Count(m)
  BY <1>1, <1>3, <1>4, <1>5, SeqEqual
<1> QED BY <1>1, <1>6 DEF Seam!Extends

\* A step of the bind makes at most one event and keeps at most one.
LEMMA OneAtATime ==
    ASSUME Inv, [Next]_vars
    PROVE  /\ kept' = kept \/ kept' = kept + 1
           /\ sequence' = sequence \/ sequence' = sequence + 1
<1>1. CASE Receive
  BY <1>1 DEF Receive
<1>2. CASE Look \/ PollBesideNext
  <2>1. CASE AnswerAtOnce
    BY <2>1 DEF AnswerAtOnce
  <2>2. CASE UNCHANGED eventVars
    BY <2>2 DEF eventVars
  <2> QED BY <1>2, <2>1, <2>2 DEF Look, PollBesideNext
<1>3. CASE Keep
  BY <1>3 DEF Keep
<1>4. CASE RestoreOwn \/ RestoreStranger
  BY <1>4 DEF RestoreOwn, RestoreStranger
<1>5. CASE \E n \in Results : Report(n)
  BY <1>5 DEF Report, eventVars
<1>6. CASE Bind \/ Release \/ Flag \/ WatcherStops
  BY <1>6 DEF Bind, Release, Flag, WatcherStops, eventVars
<1>7. CASE StartNext \/ StartPoll \/ ReceiveNone \/ PollFindsNothing \/ DropNext
  BY <1>7 DEF StartNext, StartPoll, ReceiveNone, PollFindsNothing, DropNext, eventVars
<1>8. CASE UNCHANGED vars
  BY <1>8 DEF vars, eventVars
<1> QED BY <1>1, <1>2, <1>3, <1>4, <1>5, <1>6, <1>7, <1>8 DEF Next, Callback, Progress

\* What Custody sees of a bind.
LEMMA BindAsCustody ==
    ASSUME Inv
    PROVE  Seam!Stream(Session) = Count(sequence)
<1>1. /\ held \in Seq(Event) /\ restored \in Seq(Event) /\ kept \in Nat /\ sequence \in Nat
      /\ Chained(held, restored, kept, sequence)
  BY DEF Inv, TypeOK, Chain
<1>2. (Count(kept) \o Ids(held)) \o Ids(restored) = Count(sequence)
  BY <1>1, StreamCounts
<1>3. Seam!Stream(Session) = ([i \in 1..kept |-> i] \o Ids(held)) \o Ids(restored)
  BY DEF Seam!Stream
<1> QED BY <1>2, <1>3 DEF Count

LEMMA MoveOfCounts ==
    ASSUME NEW m \in Nat, NEW n \in Nat, n = m \/ n = m + 1
    PROVE  /\ Seam!Extends(Count(m), Count(n))
           /\ \A i \in Len(Count(m)) + 1 .. Len(Count(n)) :
                /\ i = Len(Count(m)) + 1
                /\ \A j \in 1 .. Len(Count(m)) : Count(m)[j] < Count(n)[i]
<1>1. m <= n
  OBVIOUS
<1>2. /\ Len(Count(m)) = m /\ \A i \in 1..m : Count(m)[i] = i
      /\ Len(Count(n)) = n /\ \A i \in 1..n : Count(n)[i] = i
  BY CountType
<1> QED BY <1>1, <1>2, CountExtends

\* A bind of the file-system provider keeps the promise of the seam: it hands
\* out its events in their order, takes them back in their place, and loses
\* none.
THEOREM BindKeepsCustody == Spec => KeepsCustody
<1>1. Init => Seam!Init
  <2> SUFFICES ASSUME Init PROVE Seam!Init
    OBVIOUS
  <2>1. Ids(<<>>) = <<>>
    BY DEF Ids
  <2>2. [i \in 1..0 |-> i] = <<>>
    OBVIOUS
  <2> QED BY <2>1, <2>2 DEF Init, Seam!Init
<1>2. Inv /\ Inv' /\ [Next]_vars => [Seam!Next]_Seam!custodyVars
  <2> SUFFICES ASSUME Inv, Inv', [Next]_vars PROVE Seam!Next
    OBVIOUS
  <2>1. Seam!Stream(Session) = Count(sequence)
    BY BindAsCustody
  <2>2. Seam!Stream(Session)' = Count(sequence')
    <3>1. (Seam!Stream(Session) = Count(sequence))'
      BY BindAsCustody, PTL
    <3> QED BY <3>1
  <2>3. kept \in Nat /\ kept' \in Nat /\ sequence \in Nat /\ sequence' \in Nat
    BY DEF Inv, TypeOK
  <2>4. /\ kept' = kept \/ kept' = kept + 1
        /\ sequence' = sequence \/ sequence' = sequence + 1
    BY OneAtATime
  <2>5. Seam!Extends(Count(kept), Count(kept'))
    BY <2>3, <2>4, MoveOfCounts
  <2>6. /\ Seam!Extends(Count(sequence), Count(sequence'))
        /\ \A i \in Len(Count(sequence)) + 1 .. Len(Count(sequence')) :
             /\ i = Len(Count(sequence)) + 1
             /\ \A j \in 1 .. Len(Count(sequence)) : Count(sequence)[j] < Count(sequence')[i]
    BY <2>3, <2>4, MoveOfCounts
  <2>7. Seam!Move(Session)
    <3>1. /\ [b \in {Session} |-> [i \in 1..kept |-> i]][Session] = Count(kept)
          /\ [b \in {Session} |-> [i \in 1..kept |-> i]]'[Session] = Count(kept')
      BY DEF Count
    <3> QED BY <2>1, <2>2, <2>5, <2>6, <3>1 DEF Seam!Move
  <2> QED BY <2>7 DEF Seam!Next
<1> QED BY Invariance, <1>1, <1>2, PTL DEF Spec, KeepsCustody, Seam!Spec

-----------------------------------------------------------------------------
(* The command is a user of its bind.                                      *)

\* Each step of the command takes one step of the bind, or none.
LEMMA StepUsesBind == [WNext]_wvars => [Next]_vars
<1> SUFFICES ASSUME [WNext]_wvars PROVE [Next]_vars
  OBVIOUS
<1>1. CASE Admit \/ Observe \/ Top \/ Collected \/ Sleep \/ Wake \/ Polled \/ Exit \/ Tick
  BY <1>1 DEF Admit, Observe, Top, Collected, Sleep, Wake, Polled, Exit, Tick
<1>2. CASE Arm \/ LookNext \/ ReceiveNext
  BY <1>2 DEF Arm, LookNext, ReceiveNext, Next, Progress
<1>3. CASE Harvest \/ DropParked
  BY <1>3 DEF Harvest, Asked, DropParked, Next
<1>4. CASE Decide \/ EmitBurst \/ DropBind
  BY <1>4 DEF Decide, EmitBurst, DropBind, Next
<1>5. CASE Watcher
  BY <1>5 DEF Watcher, Next
<1>6. CASE UNCHANGED wvars
  BY <1>6 DEF wvars
<1> QED BY <1>1, <1>2, <1>3, <1>4, <1>5, <1>6 DEF WNext, Command

\* The command, seen from its bind, is one of the tasks FsBind allows: it
\* returns events last first, asks poll_ready only beside a next that waits,
\* and drops that next before it gives anything back.
THEOREM CommandUsesBind == WSpec => UsesBind
<1>1. WInit => Init
  BY DEF WInit
<1> QED BY <1>1, StepUsesBind, PTL DEF WSpec, Spec, UsesBind

-----------------------------------------------------------------------------
(* The invariant.                                                          *)

Running == {"admit", "observe", "top", "collect", "sleep", "parked", "poll", "harvest", "decide",
            "print"}

\* What the stage says about the answer and the events given back.
StageTells ==
    /\ stage \in Stages
    /\ stage \in Running => outcome = "none" /\ restored = <<>>
    /\ stage = "print" => slot = "event"
    /\ slot = "event" => stage \in {"collect", "poll", "harvest", "decide", "print"}
    /\ exit = "ok" => /\ stage = "exited"
                      /\ outcome \in {"deadline", "terminal_arm"}
                      /\ ~store.failed

\* What the sink has counted is what the command has printed or is about to
\* print, unless a descriptor was refused or an event will never be printed.
Told == {printed[i] : i \in 1..Len(printed)}
Held == {held[i].of : i \in 1..Len(held)}

Account ==
    /\ store \in [asked : Nat, bytes : Nat, entries : SUBSET Nat, failed : BOOLEAN]
    /\ printed \in Seq(Nat)
    /\ Len(held) = IF slot = "event" THEN 1 ELSE 0
    /\ store.bytes <= StoreBytes
    /\ ~store.failed => store.asked <= StoreEvents
    /\ ~store.failed /\ outcome \notin {"lease", "stdout"} =>
         store.entries = Told \cup Held /\ store.asked = Len(printed) + Len(held)

\* Signals are printed, held and queued in the order the watcher reported them.
Ordered ==
    /\ \A i \in 1..Len(printed) - 1 : printed[i] < printed[i + 1]
    /\ \A p \in Told :
         p <= raised /\ (\A h \in Held : p < h) /\ \A j \in 1..Len(channel) : p < channel[j].of
    /\ \A h \in Held : h <= raised /\ \A j \in 1..Len(channel) : h < channel[j].of
    /\ \A i, j \in 1..Len(channel) : i < j => channel[i].of < channel[j].of

\* A loss that was flagged when the clock was read is still due when the turn
\* is decided only if the turn has something to hand out.
DueTells ==
    /\ due \subseteq 1..raised
    /\ unflagged \notin due
    /\ stage = "decide" /\ slot = "none" => due \cap lost = {}
    /\ outcome = "deadline" => due \cap lost = {}

WInv == StageTells /\ Account /\ Ordered /\ DueTells

LEMMA WInitHolds == WInit => WInv
<1> SUFFICES ASSUME WInit PROVE WInv
  OBVIOUS
<1> USE WatchAssumption DEF WInit, Init
<1>1. Len(<<>>) = 0 /\ <<>> \in Seq(Nat)
  BY EmptySeq
<1>2. Told = {} /\ Held = {}
  BY <1>1 DEF Told, Held
<1>3. StageTells
  BY DEF StageTells, Stages
<1>4. Account
  BY <1>1, <1>2 DEF Account
<1>5. Ordered /\ DueTells
  BY <1>1, <1>2 DEF Ordered, DueTells
<1> QED BY <1>3, <1>4, <1>5 DEF WInv

-----------------------------------------------------------------------------
(* The steps, by what they do to the signals and events of the bind.       *)

LEMMA OrderLeft ==
    ASSUME Ordered, UNCHANGED <<printed, held, channel, raised>>
    PROVE  Ordered'
<1>1. Told' = Told /\ Held' = Held
  BY DEF Told, Held
<1> QED BY <1>1 DEF Ordered

LEMMA AccountLeft ==
    ASSUME Account, UNCHANGED <<printed, held, store>>,
           slot' = slot \/ (slot # "event" /\ slot' # "event"),
           outcome' = outcome \/ outcome' = "lease" \/ outcome = "none"
    PROVE  Account'
<1>1. Told' = Told /\ Held' = Held
  BY DEF Told, Held
<1> QED BY <1>1 DEF Account

\* Signals are told apart by number.
LEMMA TheyAreNumbers ==
    ASSUME Account, TypeOK
    PROVE  Told \subseteq Nat /\ Held \subseteq Nat
<1>1. \A i \in 1..Len(printed) : printed[i] \in Nat
  BY ElementOfSeq DEF Account
<1>2. \A i \in 1..Len(held) : held[i].of \in Nat
  <2>1. \A i \in 1..Len(held) : held[i] \in Event
    BY ElementOfSeq DEF TypeOK
  <2> QED BY <2>1 DEF Event
<1> QED BY <1>1, <1>2 DEF Told, Held

\* Steps that leave the signals and events as they are.
Apart == UNCHANGED <<channel, unflagged, raised, restored, held, lost>>

LEMMA ApartSteps ==
    /\ UNCHANGED vars => Apart
    /\ Bind \/ StartNext \/ DropNext \/ Release => Apart
BY DEF Apart, vars, callbackVars, eventVars, historyVars, Bind, StartNext, DropNext, Release

\* A look that answers, while nothing has been given back.
LEMMA LookAnswers ==
    ASSUME TypeOK, AnswerAtOnce, restored = <<>>
    PROVE  /\ UNCHANGED <<channel, unflagged, raised, restored, held>>
           /\ lost' \subseteq lost
           /\ answer' # "event" /\ answer' # "none"
<1>1. Immediate # "restored" /\ Immediate # "none"
  BY ImmediateTells DEF AnswerAtOnce
<1>2. Immediate # "event"
  BY DEF Immediate, TypeOK, Refusals
<1> QED BY <1>1, <1>2 DEF AnswerAtOnce, historyVars

\* What a descriptor does to the store.
LEMMA StoreCounts ==
    ASSUME NEW s \in Signal, Materialize(s), Account
    PROVE  /\ store' \in [asked : Nat, bytes : Nat, entries : SUBSET Nat, failed : BOOLEAN]
           /\ store'.bytes <= StoreBytes
           /\ ~store'.failed => ~store.failed /\ store'.asked <= StoreEvents
           /\ ~store'.failed /\ call' = "none" /\ answer' = "event" =>
                store'.asked = store.asked + 1 /\ store'.entries = store.entries \cup {s.of}
           /\ ~store'.failed /\ ~(call' = "none" /\ answer' = "event") => store' = store
<1> USE WatchAssumption
<1>1. /\ store.asked \in Nat /\ store.bytes \in Nat /\ store.entries \in SUBSET Nat
      /\ store.failed \in BOOLEAN /\ store.bytes <= StoreBytes
      /\ ~store.failed => store.asked <= StoreEvents
  BY DEF Account
<1>2. s.of \in Nat /\ s.size \in Nat
  BY DEF Signal
<1>3. CASE call' = "none" /\ answer' \in {"event", "sink"}
  <2>1. CASE Full(s.size)
    <3>1. store' = [asked |-> store.asked + 1, bytes |-> store.bytes,
                    entries |-> store.entries, failed |-> TRUE]
      BY <1>3, <2>1 DEF Materialize, FailedKept
    <3> QED BY <1>1, <3>1
  <2>2. CASE ~Full(s.size)
    <3>1. /\ store' = [asked |-> store.asked + 1, bytes |-> store.bytes + s.size,
                       entries |-> store.entries \cup {s.of}, failed |-> store.failed]
          /\ answer' = "event"
      BY <1>1, <1>3, <2>2 DEF Materialize, FailedKept
    <3>2. store.asked + 1 <= StoreEvents /\ store.bytes + s.size <= StoreBytes
      BY <1>1, <1>2, <2>2 DEF Full
    <3> QED BY <1>1, <1>2, <1>3, <3>1, <3>2
  <2> QED BY <2>1, <2>2
<1>4. CASE ~(call' = "none" /\ answer' \in {"event", "sink"})
  BY <1>1, <1>4 DEF Materialize, Account
<1> QED BY <1>3, <1>4

\* The steps that leave the signals and the events alone and print nothing.
LEMMA ApartKeeps ==
    ASSUME Inv, WInv, Apart, UNCHANGED <<store, printed>>,
           \/ Admit \/ Observe \/ Top \/ Arm \/ Collected \/ Sleep \/ Wake \/ Polled
           \/ DropParked \/ DropBind \/ Exit \/ Tick
    PROVE  WInv'
<1> USE DEF Apart
<1>1. StageTells /\ Account /\ Ordered /\ DueTells
  BY DEF WInv
<1>2. UNCHANGED slot
  BY DEF Admit, Observe, Top, Arm, Collected, Sleep, Wake, Polled, DropParked, DropBind, Exit,
         Tick, watchVars
<1>3. Ordered'
  BY <1>1, OrderLeft
<1>4. outcome' = outcome \/ outcome' = "lease"
  BY DEF Admit, Observe, Top, Arm, Collected, Sleep, Wake, Polled, DropParked, DropBind, Exit,
         Tick, watchVars, Conclude
<1>5. Account'
  BY <1>1, <1>2, <1>4, AccountLeft
<1>6. CASE Admit
  BY <1>1, <1>2, <1>3, <1>5, <1>6 DEF Admit, StageTells, DueTells, WInv, Stages, Running
<1>11. CASE Observe
  BY <1>1, <1>2, <1>3, <1>5, <1>11 DEF Observe, StageTells, DueTells, WInv, Stages, Running
<1>12. CASE Top
  BY <1>1, <1>2, <1>3, <1>5, <1>12
     DEF Top, Conclude, StageTells, DueTells, WInv, Stages, Running
<1>7. CASE Arm \/ DropParked \/ Wake \/ Polled \/ Tick
  BY <1>1, <1>2, <1>3, <1>5, <1>7
     DEF Arm, DropParked, Wake, Polled, Tick, watchVars, StageTells, DueTells, WInv, Stages,
         Running
<1>8. CASE DropBind \/ Exit
  BY <1>1, <1>2, <1>3, <1>5, <1>8
     DEF DropBind, Exit, StageTells, DueTells, WInv, Stages, Running
<1>9. CASE Collected
  BY <1>1, <1>2, <1>3, <1>5, <1>9
     DEF Collected, StageTells, DueTells, WInv, Stages, Running
<1>10. CASE Sleep
  BY <1>1, <1>2, <1>3, <1>5, <1>10
     DEF Sleep, Inv, Numbers, StageTells, DueTells, WInv, Stages, Running
<1> QED BY <1>6, <1>7, <1>8, <1>9, <1>10, <1>11, <1>12

\* next looks before it waits, and may answer.
LEMMA LookKeeps ==
    ASSUME Inv, WInv, LookNext
    PROVE  WInv'
<1>1. StageTells /\ Account /\ Ordered /\ DueTells /\ TypeOK
  BY DEF Inv, WInv
<1>2. /\ UNCHANGED <<stage, terms, now, reading, store, printed, outcome, exit, due>>
      /\ stage \in {"collect", "poll"} /\ slot = "none" /\ restored = <<>>
  BY <1>1 DEF LookNext, Polling, StageTells, Running
<1>3. /\ UNCHANGED <<channel, unflagged, raised, restored, held>>
      /\ lost' \subseteq lost
      /\ slot' # "event"
  <2>1. CASE AnswerAtOnce
    BY <1>1, <1>2, <2>1, LookAnswers DEF LookNext, Harvests
  <2>2. CASE ~AnswerAtOnce
    BY <2>2 DEF LookNext, Look, Onward, Harvests, callbackVars, eventVars, historyVars
  <2> QED BY <2>1, <2>2
<1>4. Account' /\ Ordered'
  BY <1>1, <1>2, <1>3, AccountLeft, OrderLeft
<1>5. StageTells' /\ DueTells'
  BY <1>1, <1>2, <1>3 DEF StageTells, DueTells, Running
<1> QED BY <1>4, <1>5 DEF WInv

\* poll_ready beside the next that waits sees what was flagged.
LEMMA HarvestKeeps ==
    ASSUME Inv, WInv, Harvest
    PROVE  WInv'
<1>1. StageTells /\ Account /\ Ordered /\ DueTells /\ TypeOK /\ NoSilentGap
  BY DEF Inv, WInv
<1>2. /\ UNCHANGED <<terms, now, reading, store, printed, outcome, exit, due>>
      /\ stage = "harvest" /\ stage' = "decide" /\ outcome = "none" /\ restored = <<>>
  BY <1>1 DEF Harvest, StageTells, Running
<1>3. /\ UNCHANGED <<channel, unflagged, raised, restored, held>>
      /\ lost' \subseteq lost
      /\ slot' = slot \/ (slot = "none" /\ slot' # "event")
      /\ slot' = "none" => lost' \ {unflagged} = {}
  <2>1. CASE slot # "none"
    BY <2>1 DEF Harvest, vars, callbackVars, eventVars, historyVars
  <2>2. CASE slot = "none" /\ AnswerAtOnce
    BY <1>1, <1>2, <2>2, LookAnswers DEF Harvest, Asked
  <2>3. CASE slot = "none" /\ ~AnswerAtOnce
    <3>1. Immediate = "none" /\ answer' = "none"
      BY <2>3 DEF Harvest, Asked, PollBesideNext
    <3>2. lost \ {unflagged} = {}
      BY <1>1, <3>1, ImmediateTells DEF NoSilentGap
    <3> QED BY <2>3, <3>1, <3>2
            DEF Harvest, Asked, PollBesideNext, callbackVars, eventVars, historyVars
  <2> QED BY <2>1, <2>2, <2>3
<1>4. Account' /\ Ordered'
  BY <1>1, <1>2, <1>3, AccountLeft, OrderLeft
<1>5. StageTells'
  BY <1>1, <1>2, <1>3 DEF StageTells, Running, Stages
<1>6. DueTells'
  BY <1>1, <1>2, <1>3 DEF DueTells
<1> QED BY <1>4, <1>5, <1>6 DEF WInv

\* A signal is taken, and perhaps becomes an event with a descriptor.
LEMMA ReceiveNextKeeps ==
    ASSUME Inv, WInv, ReceiveNext
    PROVE  WInv'
<1>1. StageTells /\ Account /\ Ordered /\ DueTells /\ TypeOK /\ Numbers
  BY DEF Inv, WInv
<1>2. /\ UNCHANGED <<stage, terms, now, reading, printed, outcome, exit, due>>
      /\ stage \in {"collect", "poll"} /\ slot = "none" /\ outcome = "none" /\ exit # "ok"
  BY <1>1 DEF ReceiveNext, Polling, StageTells, Running
<1>3. UNCHANGED <<unflagged, raised, restored, lost>>
  BY DEF ReceiveNext, Receive, callbackVars
<1> DEFINE s == Head(channel)
<1>4. /\ channel # <<>> /\ channel \in Seq(Signal)
      /\ s \in Signal /\ s = channel[1]
      /\ Len(channel) \in Nat /\ Len(channel) >= 1
      /\ channel' = Tail(channel)
      /\ Len(channel') = Len(channel) - 1
      /\ \A j \in 1..Len(channel') : channel'[j] = channel[j + 1]
  BY <1>1, HeadTailProperties, EmptySeq, LenProperties DEF ReceiveNext, Receive, TypeOK
<1>5. held = <<>> /\ held \in Seq(Event) /\ Held = {}
  BY <1>1, <1>2, EmptySeq, LenProperties DEF Account, TypeOK, Held
<1>6. Told' = Told
  BY <1>2 DEF Told
<1>8. \/ call' = "none" /\ answer' = "event" /\ held' = Append(held, NewEvent(s))
      \/ ~(call' = "none" /\ answer' = "event") /\ held' = held
  BY DEF ReceiveNext, Receive
<1>9. Materialize(s) /\ slot' = IF call' = "none" THEN answer' ELSE "none"
  BY DEF ReceiveNext, Harvests
<1>10. NewEvent(s).of = s.of
  BY DEF NewEvent
<1>11. s.of \in Nat /\ s.of <= raised
  BY <1>1, <1>4 DEF Signal, Numbers
<1> HIDE DEF s
<1>12. /\ \A p \in Told : p < s.of /\ p <= raised
       /\ \A j \in 1..Len(channel') : s.of < channel'[j].of
       /\ \A j \in 1..Len(channel') : \A p \in Told : p < channel'[j].of
       /\ \A i, j \in 1..Len(channel') : i < j => channel'[i].of < channel'[j].of
  <2>1. \A j \in 1..Len(channel') : j + 1 \in 1..Len(channel) /\ 1 < j + 1
    BY <1>4
  <2>2. 1 \in 1..Len(channel)
    BY <1>4
  <2>3. \A i, j \in 1..Len(channel') : i < j => i + 1 < j + 1
    OBVIOUS
  <2> QED BY <1>1, <1>4, <2>1, <2>2, <2>3 DEF Ordered
<1>13. CASE call' = "none" /\ answer' = "event" /\ held' = Append(held, NewEvent(s))
  <2>1. slot' = "event" /\ Len(held') = 1 /\ held'[1].of = s.of
    BY <1>5, <1>9, <1>10, <1>13
  <2>2. Held' = {s.of}
    BY <2>1 DEF Held
  <2>3. Account'
    BY <1>1, <1>2, <1>4, <1>5, <1>6, <1>9, <1>13, <2>1, <2>2, StoreCounts DEF Account
  <2>4. Ordered'
    BY <1>1, <1>2, <1>3, <1>6, <1>11, <1>12, <2>2 DEF Ordered
  <2>5. StageTells' /\ DueTells'
    BY <1>1, <1>2, <1>3, <2>1 DEF StageTells, DueTells, Running
  <2> QED BY <2>3, <2>4, <2>5 DEF WInv
<1>14. CASE ~(call' = "none" /\ answer' = "event") /\ held' = held
  <2>1. slot' # "event" /\ Held' = {}
    BY <1>5, <1>9, <1>14 DEF Held
  <2>2. Account'
    BY <1>1, <1>2, <1>4, <1>5, <1>6, <1>9, <1>14, <2>1, StoreCounts DEF Account
  <2>3. Ordered'
    BY <1>1, <1>2, <1>3, <1>6, <1>12, <2>1 DEF Ordered
  <2>4. StageTells' /\ DueTells'
    BY <1>1, <1>2, <1>3, <2>1 DEF StageTells, DueTells, Running
  <2> QED BY <2>2, <2>3, <2>4 DEF WInv
<1> QED BY <1>8, <1>13, <1>14

\* The turn is decided: an event goes on to the sink of the session, or back.
LEMMA DecideKeeps ==
    ASSUME Inv, WInv, Decide
    PROVE  WInv'
<1>1. StageTells /\ Account /\ Ordered /\ DueTells /\ TypeOK
  BY DEF Inv, WInv
<1>2. /\ UNCHANGED <<terms, now, reading, store, printed, exit, due>>
      /\ stage = "decide" /\ outcome = "none" /\ exit # "ok"
  BY <1>1 DEF Decide, StageTells, Running
<1>3. CASE slot = "event" /\ RestoreOwn /\ slot' = "none" /\ Conclude("lease")
  <2>1. RestoreOwn /\ slot' = "none" /\ stage' = "drop" /\ outcome' = "lease"
    BY <1>3 DEF Conclude
  <2>2. Len(held) = 1 /\ held \in Seq(Event)
    BY <1>1, <1>3 DEF Account, TypeOK
  <2>3. held' = SubSeq(held, 1, 0) /\ UNCHANGED <<channel, unflagged, raised, lost>>
    BY <2>1, <2>2 DEF RestoreOwn, callbackVars, historyVars
  <2>4. Len(held') = 0 /\ Held' = {}
    BY <2>2, <2>3 DEF Held
  <2>5. Told' = Told
    BY <1>2 DEF Told
  <2>6. Account'
    BY <1>1, <1>2, <2>1, <2>4, <2>5 DEF Account
  <2>7. Ordered'
    BY <1>1, <1>2, <2>3, <2>4, <2>5 DEF Ordered
  <2>8. StageTells' /\ DueTells'
    BY <1>1, <1>2, <2>1, <2>3 DEF StageTells, DueTells, Stages, Running
  <2> QED BY <2>6, <2>7, <2>8 DEF WInv
<1> DEFINE Backs == UNCHANGED vars /\ slot # "event" /\ slot' = "none" /\ Conclude("lease")
           Goes == /\ UNCHANGED <<vars, slot>>
                   /\ CASE slot = "event" -> stage' = "print" /\ UNCHANGED outcome
                        [] slot = "none" -> Onwards(reading)
                        [] OTHER -> Conclude("terminal_arm")
<1>4. CASE Backs \/ Goes
  <2>1. UNCHANGED vars
    BY <1>4
  <2>2. Apart
    BY <2>1, ApartSteps
  <2>3. /\ slot' = slot \/ (slot # "event" /\ slot' = "none" /\ outcome' = "lease")
        /\ \/ stage' = "drop" /\ outcome' \in {"lease", "deadline", "terminal_arm"}
           \/ stage' \in {"print", "top"} /\ outcome' = outcome
        /\ stage' = "print" => slot' = "event"
        /\ slot' = "event" => stage' = "print"
        /\ outcome' = "deadline" => slot = "none"
    <3>1. CASE Backs
      BY <1>2, <3>1 DEF Conclude
    <3>2. CASE Goes /\ slot = "event"
      BY <1>2, <3>2
    <3>3. CASE Goes /\ slot = "none"
      BY <1>2, <3>3 DEF Onwards, Conclude
    <3>4. CASE Goes /\ slot # "event" /\ slot # "none"
      BY <1>2, <3>4 DEF Conclude
    <3> QED BY <1>4, <3>1, <3>2, <3>3, <3>4
  <2>4. Account' /\ Ordered'
    BY <1>1, <1>2, <2>2, <2>3, AccountLeft, OrderLeft DEF Apart
  <2>5. StageTells' /\ DueTells'
    BY <1>1, <1>2, <2>2, <2>3 DEF Apart, StageTells, DueTells, Stages, Running
  <2> QED BY <2>4, <2>5 DEF WInv
<1> QED BY <1>3, <1>4 DEF Decide

\* A line is written, or the session ends without it.
LEMMA PrintKeeps ==
    ASSUME Inv, WInv, EmitBurst
    PROVE  WInv'
<1>1. StageTells /\ Account /\ Ordered /\ DueTells /\ TypeOK
  BY DEF Inv, WInv
<1>2. /\ UNCHANGED <<terms, now, reading, store, exit>> /\ due' = {} /\ slot' = "none"
      /\ stage = "print" /\ slot = "event" /\ outcome = "none" /\ exit # "ok"
      /\ restored = <<>>
  BY <1>1 DEF EmitBurst, StageTells, Running
<1>3. Len(held) = 1 /\ held \in Seq(Event) /\ held # <<>> /\ printed \in Seq(Nat)
  <2>1. Len(held) = 1 /\ printed \in Seq(Nat)
    BY <1>1, <1>2 DEF Account
  <2>2. held \in Seq(Event)
    BY <1>1 DEF TypeOK
  <2>3. held # <<>>
    <3> SUFFICES ASSUME held = <<>> PROVE Len(held) = 0
      BY <2>1
    <3> QED BY EmptySeq
  <2> QED BY <2>1, <2>2, <2>3
<1>4. held' = Tail(held) /\ UNCHANGED <<channel, unflagged, raised, lost, restored>>
  BY DEF EmitBurst, Keep, callbackVars, historyVars
<1> DEFINE e == Head(held).of
<1>5. e \in Nat /\ Held = {e} /\ Head(held) = held[1]
  <2>1. Head(held) \in Event /\ Head(held) = held[1]
    BY <1>3, HeadTailProperties
  <2> QED BY <1>3, <2>1 DEF Held, Event
<1>6. Len(held') = 0 /\ Held' = {}
  BY <1>3, <1>4, HeadTailProperties DEF Held
<1>7. \/ /\ printed' = Append(printed, e)
         /\ \/ stage' = "top" /\ outcome' = "none"
            \/ stage' = "drop" /\ outcome' = "deadline"
      \/ printed' = printed /\ stage' = "drop" /\ outcome' = "stdout"
  <2>1. \/ printed' = Append(printed, e) /\ Onwards(reading)
        \/ Conclude("stdout") /\ UNCHANGED printed
    BY DEF EmitBurst
  <2> QED BY <1>2, <2>1 DEF Onwards, Conclude
<1> HIDE DEF e
<1>8. StageTells' /\ DueTells'
  BY <1>1, <1>2, <1>4, <1>7 DEF StageTells, DueTells, Stages, Running
<1>9. CASE printed' = printed /\ outcome' = "stdout"
  <2>1. Told' = Told
    BY <1>9 DEF Told
  <2>2. Account'
    BY <1>1, <1>2, <1>6, <1>9 DEF Account
  <2>3. Ordered'
    BY <1>1, <1>4, <1>6, <1>9, <2>1 DEF Ordered
  <2> QED BY <1>8, <2>2, <2>3 DEF WInv
<1>10. CASE printed' = Append(printed, e)
  <2>1. /\ printed' \in Seq(Nat)
        /\ Len(printed) \in Nat
        /\ Len(printed') = Len(printed) + 1
        /\ \A i \in 1..Len(printed) : printed'[i] = printed[i]
        /\ printed'[Len(printed) + 1] = e
    BY <1>3, <1>5, <1>10, AppendProperties, LenProperties
  <2>2. Told' = Told \cup {e}
    <3>1. 1..Len(printed') = 1..Len(printed) \cup {Len(printed) + 1}
      BY <2>1
    <3> QED BY <2>1, <3>1 DEF Told
  <2>3. Account'
    BY <1>1, <1>2, <1>3, <1>5, <1>6, <2>1, <2>2 DEF Account
  <2>4. \A i \in 1..Len(printed') - 1 : printed'[i] < printed'[i + 1]
    <3>1. \A i \in 1..Len(printed) : printed[i] < e
      BY <1>1, <1>5 DEF Ordered, Told
    <3> SUFFICES ASSUME NEW i \in 1..Len(printed') - 1 PROVE printed'[i] < printed'[i + 1]
      OBVIOUS
    <3>2. /\ i \in 1..Len(printed)
          /\ \/ i = Len(printed)
             \/ i \in 1..Len(printed) - 1 /\ i + 1 \in 1..Len(printed)
      BY <2>1
    <3> QED BY <1>1, <2>1, <3>1, <3>2 DEF Ordered
  <2>5. Ordered'
    BY <1>1, <1>4, <1>5, <1>6, <2>2, <2>4 DEF Ordered
  <2> QED BY <1>8, <2>3, <2>5 DEF WInv
<1> QED BY <1>7, <1>9, <1>10

\* The watcher beside the task: what it loses now was not lost by then.
LEMMA WatcherKeeps ==
    ASSUME Inv, WInv, Watcher
    PROVE  WInv'
<1>1. StageTells /\ Account /\ Ordered /\ DueTells /\ TypeOK /\ Numbers
  BY DEF Inv, WInv
<1>2. UNCHANGED watchVars /\ UNCHANGED <<held, restored>>
  BY DEF Watcher, Callback, Report, Flag, WatcherStops, eventVars
<1>3. Told' = Told /\ Held' = Held
  BY <1>2 DEF watchVars, Told, Held
<1>4. StageTells' /\ Account'
  BY <1>1, <1>2, <1>3 DEF watchVars, StageTells, Account
<1>5. CASE Flag \/ WatcherStops
  <2>1. UNCHANGED <<channel, raised, lost>> /\ (unflagged' = unflagged \/ unflagged' = 0)
    BY <1>5 DEF Flag, WatcherStops, historyVars
  <2>2. Ordered' /\ DueTells'
    BY <1>1, <1>2, <1>3, <2>1 DEF watchVars, Ordered, DueTells
  <2> QED BY <1>4, <2>2 DEF WInv
<1>6. ASSUME NEW n \in Results, Report(n) PROVE WInv'
  <2>1. raised' = raised + 1 /\ raised \in Nat /\ unflagged = 0
    BY <1>1, <1>6 DEF Report, TypeOK
  <2>2. \/ /\ channel' = Append(channel, [of |-> raised', signal |-> SignalOf(n),
                                           paths |-> n.paths, size |-> n.size])
           /\ UNCHANGED <<unflagged, lost>>
        \/ /\ unflagged' = raised'
           /\ lost' = lost \cup {raised'}
           /\ UNCHANGED channel
    BY <1>6 DEF Report
  <2>3. DueTells'
    <3>1. raised' \notin due /\ due \subseteq 1..raised'
      BY <1>1, <2>1 DEF DueTells
    <3> QED BY <1>1, <1>2, <2>2, <3>1 DEF DueTells, watchVars
  <2>4. CASE UNCHANGED channel
    <3>1. \A p \in Told \cup Held : p <= raised'
      <4>1. \A p \in Told \cup Held : p \in Nat /\ p <= raised
        BY <1>1, TheyAreNumbers DEF Ordered
      <4> QED BY <2>1, <4>1
    <3>2. Ordered'
      BY <1>1, <1>2, <1>3, <2>4, <3>1 DEF Ordered, watchVars
    <3> QED BY <1>4, <2>3, <3>2 DEF WInv
  <2>5. CASE channel' = Append(channel, [of |-> raised', signal |-> SignalOf(n),
                                          paths |-> n.paths, size |-> n.size])
    <3> DEFINE s == [of |-> raised', signal |-> SignalOf(n), paths |-> n.paths, size |-> n.size]
    <3>1. /\ Len(channel) \in Nat
          /\ Len(channel') = Len(channel) + 1
          /\ \A j \in 1..Len(channel) : channel'[j] = channel[j]
          /\ channel'[Len(channel) + 1].of = raised'
      BY <1>1, <2>5, LenProperties, AppendProperties DEF TypeOK
    <3> HIDE DEF s
    <3>2. \A p \in Told \cup Held : p \in Nat /\ p <= raised
      BY <1>1, TheyAreNumbers DEF Ordered
    <3>3. \A j \in 1..Len(channel) : channel[j].of \in Nat /\ channel[j].of <= raised
      <4>1. \A j \in 1..Len(channel) : channel[j] \in Signal
        BY <1>1, ElementOfSeq DEF TypeOK
      <4> QED BY <1>1, <4>1, FsBindAssumption DEF Numbers, Signal
    <3>4. \A j \in 1..Len(channel') : j \in 1..Len(channel) \/ j = Len(channel) + 1
      BY <3>1
    <3>5. \A j \in 1..Len(channel') : \A p \in Told \cup Held : p <= raised' /\ p < channel'[j].of
      BY <1>1, <2>1, <3>1, <3>2, <3>4 DEF Ordered
    <3>6. \A i, j \in 1..Len(channel') : i < j => channel'[i].of < channel'[j].of
      BY <1>1, <2>1, <3>1, <3>3, <3>4 DEF Ordered
    <3>7. \A p \in Told \cup Held : p <= raised'
      BY <2>1, <3>2
    <3>8. Ordered'
      BY <1>1, <1>2, <1>3, <3>5, <3>6, <3>7 DEF Ordered, watchVars
    <3> QED BY <1>4, <2>3, <3>8 DEF WInv
  <2> QED BY <2>2, <2>4, <2>5
<1> QED BY <1>5, <1>6 DEF Watcher, Callback

LEMMA WStepKeeps == Inv /\ WInv /\ [WNext]_wvars => WInv'
<1> SUFFICES ASSUME Inv, WInv, [WNext]_wvars PROVE WInv'
  OBVIOUS
<1>1. CASE Admit \/ Observe \/ Top \/ Collected \/ Sleep \/ Wake \/ Polled \/ Exit \/ Tick
  <2>1. UNCHANGED <<vars, store, printed>>
    BY <1>1 DEF Admit, Observe, Top, Collected, Sleep, Wake, Polled, Exit, Tick
  <2> QED BY <1>1, <2>1, ApartSteps, ApartKeeps
<1>2. CASE Arm \/ DropParked \/ DropBind
  <2>1. /\ UNCHANGED <<store, printed>>
        /\ UNCHANGED vars \/ Bind \/ StartNext \/ DropNext \/ Release
    BY <1>2 DEF Arm, DropParked, DropBind, watchVars
  <2> QED BY <1>2, <2>1, ApartSteps, ApartKeeps
<1>3. CASE UNCHANGED wvars
  <2>1. Apart /\ UNCHANGED watchVars
    BY <1>3, ApartSteps DEF wvars
  <2>2. Account' /\ Ordered'
    BY <2>1, AccountLeft, OrderLeft DEF WInv, Apart, watchVars
  <2>3. StageTells' /\ DueTells'
    BY <2>1 DEF WInv, Apart, watchVars, StageTells, DueTells
  <2> QED BY <2>2, <2>3 DEF WInv
<1>4. CASE LookNext
  BY <1>4, LookKeeps
<1>5. CASE ReceiveNext
  BY <1>5, ReceiveNextKeeps
<1>6. CASE Harvest
  BY <1>6, HarvestKeeps
<1>7. CASE Decide
  BY <1>7, DecideKeeps
<1>8. CASE EmitBurst
  BY <1>8, PrintKeeps
<1>9. CASE Watcher
  BY <1>9, WatcherKeeps
<1> QED BY <1>1, <1>2, <1>3, <1>4, <1>5, <1>6, <1>7, <1>8, <1>9 DEF WNext, Command

-----------------------------------------------------------------------------
(* The theorems.                                                           *)

\* What is proved of a bind holds of the bind the command uses.
THEOREM BindInvariance == WSpec => []Inv
BY CommandUsesBind, Invariance, PTL DEF UsesBind

\* The strengthening of what is said of the account and of the losses due.
THEOREM WatchInvariance == WSpec => []WInv
BY BindInvariance, WInitHolds, WStepKeeps, PTL DEF WSpec

\* Exit 0 is a complete account: every descriptor has its line, in the order
\* the watcher reported its signals.
THEOREM AccountsAreComplete == WSpec => []AccountIsComplete
<1>1. WInv => AccountIsComplete
  <2> SUFFICES ASSUME WInv, exit = "ok" PROVE AccountIsComplete
    BY DEF AccountIsComplete
  <2>1. StageTells /\ Account /\ Ordered
    BY DEF WInv
  <2>2. outcome \notin {"lease", "stdout"} /\ ~store.failed /\ slot # "event"
    BY <2>1 DEF StageTells
  <2>3. Len(held) = 0 /\ Held = {}
    BY <2>1, <2>2 DEF Account, Held
  <2>4. Len(printed) \in Nat
    BY <2>1, LenProperties DEF Account
  <2> QED BY <2>1, <2>2, <2>3, <2>4 DEF Account, Ordered, Told, AccountIsComplete
<1> QED BY WatchInvariance, <1>1, PTL

\* No deadline is answered over a loss that was flagged when the clock was
\* read, unless the turn handed out an event.
THEOREM DeadlinesReportLoss == WSpec => []DeadlineReportsLoss
<1>1. WInv => DeadlineReportsLoss
  BY DEF WInv, DueTells, DeadlineReportsLoss
<1> QED BY WatchInvariance, <1>1, PTL

\* A lost signal is flagged, or about to be, until an Overflow answers for it,
\* under the command as well.
THEOREM WatchHidesNoGap == WSpec => []NoSilentGap
BY CommandUsesBind, GapsAreNeverSilent, PTL DEF UsesBind
=============================================================================
