# waitprims in TLA+

`waitprims` lets an agent wait: it binds a set of *registrations* (arms) to
providers, watches them all, and turns what they say, what the clock says and
what the caller's cancel token says into exactly one outcome. The code is
small; what makes it hard is that providers, clock and token belong to other
tasks and threads, that an event taken from a provider must never get lost
between two owners, and that an outcome must not claim more than was looked
at. These modules model that part of the code, from the file system
watcher's callback to the exit status of the command; TLC checks it on small
instances, and TLAPS proves the core of it for every instance.

## Inventory of the system

| Component | State it keeps | Operations | Interacts with |
| --- | --- | --- | --- |
| first-match runner `crates/waitprims-async/src/first_match.rs` (+ `race.rs`, `outcome.rs`) | binds, resolved starts, the slots of the race, events in hand, backoff step | `run_first_match`: resolve, bind and `next` race, `decide_and_restore`, backoff, deadlines, `finish` | observer, clock, token |
| poll-cycle runner `poll_cycle.rs` | bound arms, visits with admitted events, budget | `run_poll_cycle`: bind/observe race, `record_ready`, `drain_ready`, `decide_kind`, `build`, `emit` | observer, clock, token; the caller's `poll_cycle_ack` |
| bounded follow `follow.rs` | persistent `next` futures, harvested slots, bursts | `run_follow`: turns, sink calls, posture, restore | observer, clock, token, async sink |
| coalescer `coalesce.rs` | pending window with event and byte counts, quiet deadline | `run_coalesce`: push, flush, urgent path, final flush | follow's slots, sink |
| observer seam `observer.rs` | - (trait) | `bind`, `next`, `poll_ready`, `restore_ready`, `cancel` | implemented by the providers |
| scripted observer `crates/waitprims-testkit/src/observer.rs` | queues, faults, hanging binds | the seam | its clock |
| cancel token and clock trait `cancel.rs`, `clock.rs` | a flag; an instant | `trigger`, `cancelled`; `now`, `sleep_until` | read by all runners |
| test clock `crates/waitprims-testkit/src/clock.rs` | instant, sleepers, auto flag | `advance_to`, `sleep_to` | runners and observers sleep on it |
| file-system provider `crates/waitprims-fs/src/lib.rs` | watch channel, overflow and release flags, restored queue, sequence | bind, callback, `next`/`immediate`, restore, release | the seam; the notify callback thread |
| set rules `crates/waitprims-core/src/validate.rs`, `contract.rs` | - (pure) | one document, and several documents of one waiter | judge what the runners emit |
| types and encodings `types.rs`, `rfc3339.rs`, `jcs.rs`, `digest.rs`, `refs.rs`, `receipts.rs`, `error.rs` | - (pure) | parse, compare, canonicalise, digest | all |
| command line `crates/waitprims-cli` | numbered lines, descriptor store, exit status | admit inputs, run one runner, print bursts and the end | runners, test clock, file-system provider, set rules |
| schemas, fixtures, release scripts | data, tooling | - | - |

What is hard, component by component (PROJECT.json lists each hazard at its
line):

* **first match** - the biased `select!` may leave harvested events behind; a
  tie must go to the earliest arm although the arms answer in any order; the
  clock is read twice around the restore of the losers; the loop head ends a
  wait without a last look; `restore_ready` may fail half-way.
* **poll cycle** - admitted events are held across awaits and *all* go back
  when the cycle ends; the budget runs over several rounds; `?` leaves by the
  side door; an outcome is rewritten after its cursors were computed; ack,
  restart and cancel come in any order; fairness must rotate.
* **follow, coalescer** - a sink is awaited with events in hand and the clock
  reading made before it is used after it; windows are flushed at limits,
  deadlines, cancels and urgent events.
* **file-system provider** - a callback thread against a consumer, a bounded
  channel, one-shot flags that wake nobody.
* **test clock** - each sleep looks once, after a yield, whether it is the
  earliest; sleeps are kept, dropped and made anew by a `select!`.
* **set rules** - judge several messages of several cycles, some of which never
  saw each other's acks.
* **command line** - lines go out while the session runs, and its account is
  judged when it is over.

## What makes it correct

1. *Custody.* An event is with its provider, in the runner's hand, or with the
   caller. It changes hands without loss, duplication or reordering; loss is
   only by way of an `Err` (`lib.rs`: "fail closed").
2. *Honesty.* A clean outcome covers every required arm, stands on the right
   side of the logical deadline, is dated within every lease and has the
   receipt the set demands.
3. *Choice.* Ties go to the earliest arm; what is ready comes before a
   deadline.
4. *Cursors.* A cursor is committed by an ack only, past events received.
5. *Bounds and fairness.* Budgets hold over a whole cycle; deferral rotates.
6. *Ending.* Token, deadline and event each end a wait.
7. *Gaps.* An event that a provider had to drop is reported as `Overflow`, and
   anchors form one chain in between.
8. *Account.* Exit 0 means that what was printed is all there was.

## Modules

| Module | Models | Role |
| --- | --- | --- |
| `Seam` | observer, clock, token as a runner sees them, after `ScriptedObserver`, `FakeClock`, `Cancel` | environment of every runner |
| `FirstMatch` | `first_match.rs`, `race.rs`, `outcome.rs` | several waits over one observer |
| `Custody` | what the seam promises about events | abstract specification; `FirstMatch`, `Follow`, `Coalesce` and, from the provider's side, `FsBind` implement it |
| `PollCycle` | `poll_cycle.rs` | several cycles, with acks, restarts and dropped futures |
| `RetainedLog` | what `POLL_ACK_RETENTION` promises a consumer | abstract specification; `PollCycle` implements it |
| `SetRules` | `validate.rs`: rules for one message and for several | operators over messages |
| `Transcript` | the messages of poll cycles (`build`, `case.rs`, `types.rs`) | composes `PollCycle` with `SetRules` |
| `Slots` | `SlotSet` and the rules of a turn in `follow.rs` | what the two held sessions share |
| `Follow` | `run_follow`, its turns and its caller's sink | held sessions over one observer |
| `Coalesce` | `coalesce.rs` | one held session with a window |
| `FsBind` | one bind of `waitprims-fs`: admission, callback thread, channel, `next`, `poll_ready`, `restore_ready`, release | under any task that uses the bind |
| `Watch` | `waitprims watch`: admission, the session's turns, descriptor store, stdout, exit | composes `FsBind` with `run_follow` and the command line |
| `Replay` | `waitprims wait` and `follow`: `FakeClock` in automatic mode, `ScriptedObserver`, the polls of the one task, stdout, exit | composes the test clock with runners and the command line |
| `MCFirstMatch`, `MCPollCycle`, `MCTranscript`, `MCFollow`, `MCCoalesce`, `MCFsBind`, `MCWatch`, `MCReplay` | - | values of constants a `.cfg` cannot write |
| `Lists` | sums over arms and filtered sequences, as recursive functions | used by the runners' modules where the code counts or filters |
| `Lists_proofs`, `Slots_proofs` | - | lemmas about sequences and slot sets |
| `FirstMatch_proofs`, `Follow_proofs`, `Coalesce_proofs`, `Replay_proofs` | - | theorems about the module of that name |
| `PollCycle_proofs` | - | theorems about `PollCycle`, and about `Transcript` over it |
| `Watch_proofs` | - | theorems about `FsBind`, and about `Watch` over it |

**Abstractions.** An arm is its place in `registration_set.registrations`; the
n-th event of an arm is the number n, and so is the cursor behind it. An
instant is a number. A provider's bad news is its kind (`overflow`, `failed`,
`outage`, `cursor_uncertain`, `degraded`), and `error` is an `Err` of `next`.
A signal lasts until the provider withdraws it, as a `ScriptedObserver` fault
does. Payloads, ids and reason codes are left out: no decision reads them.

**Steps.** A runner is one task; its code between two awaits is atomic for
itself but not for other threads. An action of the model therefore ends where
another thread's action can make a difference: at each await, between the
branches of a `select!`, and between two readings of the clock. `pc` names the
place. Where one handler asks the arms one after the other, the model asks them
in one step: an event that arrives in between belongs to one arm and could as
well have arrived before or after.

In `Replay` nothing runs beside the one task, and what matters is the order in
which it polls its futures: there an action is one poll of one future.

`Seam`: `queue[r]` is what the observer holds, `signal[r]` what the arm raises,
`bindable` the arms whose `bind` completes. `Arrive`, `Raise`, `ReleaseHang`,
`Tick` and `Trigger` are steps of other tasks and may fall anywhere.
`NextAnswer` and `ReadyAnswer` are `next` and `poll_ready`; `PushFront` is
`restore_ready`.

`FirstMatch`: `StartWait` (`resolve` passed) ... `Return`. `slot` is the race's
`FirstReady`, `held` the events taken from it, `bound` whether the loop is past
its binding phase. `TopCancelled`, `TopDeadline`, `TopRace` are the head of
`run_loop`; `PollRace`, `PollCancel`, `PollSleep` the branches of its select in
their biased order; `RaceDecided`, `AllIdle`, `Wake` what follows the race;
`DeadlineObserved`, `DeadlineQuiet` what follows `sleep_until`; `Finish` is
`finish()` with its second reading of the clock. `DecideAndRestore` has a
disjunct for every arm whose `restore_ready` may fail. `Abandon` is a dropped
future, `StartUncited` a request that `resolve` turns down.

`PollCycle`: `visits` and `admitted` are the map of `ArmVisit`s, `idle` the
`Idle`s that sit in the current race. `Recorded`, `Admitted` and `QueueAfter`
are `record_ready` with `try_take` and `drain_ready`: the arms in fairness
order, each with the `Quota` the earlier ones have left; `QueueAtFailure` is
the same function left early through `?`. `Emit` is `restore_admitted` and the
answer, `Report` is `build` and `apply_posture`. At a deadline `DeadlineKind` and
`DeadlineVisits` are `decide_at_deadline`: unvisited arms are filled in, unless a
required bind still pends. `Ack` is the message built
from the last outcome, `Restart` a new process whose observer reads its sources
again from the committed cursors. Two things of the code are not seen: the
early `assemble` at the head of the loop, which is unreachable (a cycle with
every arm visited has returned), and an `Overflow` in the middle of a drain
(the model asks an arm in one step, and a signal comes before events).
A bind at an exclusive cursor lets the observer forget what lies before it;
that is what the seam demands of providers, not code under `src/`.

`Slots`: a slot set is a record of what each slot has (`obs`), the events there
(`held`) and what is left with the observer (`queue`); `Polled`, `Extended`,
`Rearmed`, `Emptied` and `Requeued` are `poll_available`, `harvest_poll_ready`,
`rearm_idle`, `take_events` and `restore_custody`. A bound arm with an empty
slot has its `next` running.

`Transcript`: each step of `PollCycle` that ends a cycle or acknowledges one
appends the message it writes; `docs` is what a directory would hold, and the
rules of `SetRules` read it. Anchors and ids are opaque. A set is judged by its
first failing rule (`Verdict`), in the order of `set_rules`.

`Follow`: a turn comes from `Collect` (`CollectTurn`), `PollCancel` or `Wake`
(`on_wake`), and `DecideTurn` judges it: posture, fault, token, burst. `sink` is
the place where `on_burst` is awaited; after it the turn goes on with the
`reading` of the clock it was decided on, as the code does. The end of the
session is dated with that reading, so `EndIsHonest` says what the session
knew, not what the clock says when it returns. `Abandon` drops the future with
what the sink has; `SinkErr` loses the burst.

`Coalesce`: `pending` is the window with its counts, `quietAt`
`next_quiet_emit_at`; `Fits` says whether `try_push` accepts every event of a
window. The head of the loop reads the clock twice (`TopHead`, `HeadDue`) and
decides the turn it polls there on the second reading (`Late`); every branch of
the `select!` but the first goes through `Wake` and `Extend`, which poll first
and read the clock afterwards. `ApplyTurn` and `FinalFlush` are the functions of
these names, up to the sink call; `SinkOk` and `SinkErr` are what follows it,
by `purpose`. `resume` says whether the turn was decided at the head, from where
the loop falls through to its `select!`. `emitted` and `opened` are history.

`FsBind`: the callback is two steps, `Report` (`try_send`, where a signal can be
lost) and `Flag`; `WatcherStops` is the sender's end. A call is `StartNext` or
`StartPoll`, then `Look` (`immediate`), then `Receive` for each signal taken
(`process`, `process_event`), and `PollBesideNext` is a `poll_ready` that finds
the receiver locked. The file system is reduced to where a path leads: `place`
when it is bound, `Finds` at each later look. An event carries the numbers in
its tokens, and for the history the number of the signal it came from. `lost`
and `slipped` are history.

`Watch`: `stage` names the place; each step takes one step of `FsBind` beside
it or leaves the bind alone. The three turns of a session (a `next` that
answers, the timer, the head of the loop) are those of `run_follow` with one
arm. No token is triggered: the command has none to give. `Materialize` is the
sink that `FsBind` leaves to `SinkAnswers`. `due` is history.

`Replay`: a future is `unbound`, `new`, `yielded`, `parked`, `forever` or `gone`.
`Sleep` registers, yields, looks once whether it is the earliest (`Earliest`),
and parks; `Rung` is `wake_ready`. `PollArm` and `PollTimer` are the branches of
the `select!`, `Again` the second round of `FirstReady`. Arms are polled in their
order, and a script is any assignment of instants. A scripted arm never answers
`Idle`, so a wait is over with its first race, in which `poll_ready` is asked of
no arm that has not returned; `MoreReady` is `follow`'s alone.

## Where code and documentation disagree

Three runs exhibit a statement of the code's own documentation or tests that
the code does not keep; PROJECT.json quotes them line by line.

* `drop_on_late_lease`: the lease check runs at one reading of the clock, the
  losers are restored, and `finish()` checks again at a later one. A lease that
  ends in between takes the matched event with it.
* `ack_past_unreceived`: an outcome emptied by `apply_posture` keeps its
  retained cursors; its ack commits past events nobody received.
* `stuck_clock`: a sleep of the automatic clock looks once. `run_follow` keeps
  an arm's sleep over a turn and makes its own anew; with events at 0 and 2 on
  one arm and 0 and 1 on the other, all sleeps are parked and the command hangs.

Others are named where a property has to make an exception for them:

* `LastLookSees` holds for the deadlines that `sleep_until` brings. A backoff that
  ends at the deadline goes to the loop head, which answers a deadman over an
  event that is ready (`first_match.rs:161`).
* `PostureHolds` and `CycleIsAdmitted` except a cancelled or failed outcome after
  the end of a lease: the posture checks (`first_match.rs:533`, and
  `apply_posture`) let it pass, `authn_lease_bounds` does not. A
  cancelled outcome also proposes the cursors behind events it does not carry
  (`poll_cycle.rs:1129`).
* `TranscriptIsAdmitted` asks of `silent_cursor_advance` (`validate.rs:551`) only
  that it admits a last outcome which claims complete coverage. Of outcomes nobody
  acknowledged the last may show fewer events than the first without anything being
  lost: after a rotation other arms are served, and an arm that answers `Err` to
  `poll_ready` passes for idle at the deadline, so that even a clean outcome can be
  taken for a silent advance; `poll_proofs.rs:1258` wants an unacknowledged replay
  admitted. The exception for clean outcomes is there only if some arm may answer
  `Err` (`Claims`).
* `DeadlineReportsLoss` excepts a turn with an event: `poll_ready` is asked only
  about empty slots, so `watch` may end with its deadline over a loss that was
  flagged before, where the release notes list overflow among what fails closed.
* The overflow flag wakes nobody: a `next` that has looked and waits for its
  channel answers the overflow after one more signal (`GapSlipsOnce`), or when
  a timer makes the session ask `poll_ready`.

## Runs

The runs of the runners have two arms, which is the least that has ties,
siblings, fairness order and partial coverage; one of them is required and the
other not, but for `transcript`, where both are, so that coverage is at stake.
`Horizon` is 1 to 4 instants: before, at and after a deadline.
`CHECK_DEADLOCK FALSE` everywhere: when the bounded caller has no waits left and
the sources no events, or the command has exited, the system rests.

| Run | Shows | Instance |
| --- | --- | --- |
| `first_match` | `ReplayInOrder`, `AwaitsHoldNothing`, `TieRule`, `LastLookSees`; `FirstMatch` implements `Custody` | 2 waits, 2 events per arm (so that one can be taken while another waits), overflow and errors, failing restores, a hanging bind, arms that may wait or answer `Idle` (an all-idle round needs both) |
| `first_match_live` | `CleanIsCovered`, `PostureHolds`; `StopsEnd`, `EventEnds` | 1 wait, a lease that runs out inside it, receipts demanded, backoff of 1 then 2 instants |
| `poll_cycle` | `NothingUncommittedIsLost`, `WithinBounds`, `RotationServes`; `PollCycle` implements `RetainedLog` | 2 cycles, 2 events per arm, one too big, room for 2, a hanging bind, outages and errors, failing restores, ack and restart at any time |
| `transcript` | `CycleIsAdmitted`, `TranscriptIsAdmitted`; `StopsEnd` | 2 cycles of two required arms with room for two events, of which the second arm's is too big (so that it is deferred and the next cycle rotates), a hanging bind, an arm that may answer `Idle`, outages, a lease that has ended |
| `follow` | `AwaitsHoldNothing`, `EndIsHonest`; `Follow` implements `Custody`; `StopsEnd`, `EventServed` | 1 session, 2 events per arm, a required bind that may hang, an arm that may answer `Idle`, outages, errors, failing restores, a lease that ends at the last instant |
| `coalesce` | `WindowKept`, `WithinBounds`, `TimerNotPutOff`; `Coalesce` implements `Custody`; `QuietGap`, `StopsEnd`, `QuietServed` | a quiet and an urgent arm, 2 events each, a window of 2 (so that a third overflows it), an interval of 1, a hanging bind, an arm that may answer `Idle`, failing restores, a lease that ends at the last instant |
| `fs` | `TypeOK`, `NoSilentGap`, `GapSlipsOnce`, `ChainUnbroken`; `FsBind` implements `Custody`; `ReleaseEnds` | 9 registrations: every refusal, and a subject that is a file, a directory or missing; a channel of one, so that the second signal is lost; 4 reports of 10 sorts, which is one before a gap, two in it and one behind; an event of another session |
| `watch` | `AccountIsComplete`, `DeadlineReportsLoss`; `WatchEnds` | one bind that watches, one refused, one not admitted; 4 reports, a channel of one, a store of two descriptors of which one may be too big, lines that fail, a lease before or after the deadline |
| `replay` | `OutputHonest`, `ReplaysTheScript`; `ReplayEnds` | every script of two arms with up to two events at instants 0 to 4, in any order; a deadline at 2 and leases to 3; limits of 1 and 2; writes that fail |
| `drop_on_late_lease` | **violated**: `FailsClosed` | a lease that runs out between two clock readings |
| `ack_past_unreceived` | **violated**: `AckedWasReceived` | an emptied outcome keeps its retained cursors |
| `stuck_clock` | **violated**: `FollowEnds` | the scripts of `replay`, a deadline behind them |

`KeepsLog` holds in `poll_cycle` because no lease ends there; with one that
does, `ack_past_unreceived` breaks it. Type invariants are checked by TLC for
`FsBind` and proved for `FirstMatch` and `FsBind`; the inductive invariants of the
others carry the types their proofs need.

**Bounds.** `MaxEvents`, `MaxWaits`, `MaxCycles`, `MaxSessions`, `MaxSignals` and
`Horizon` cap what sources, caller and clock do; they are guards of those
actions, and nothing else depends on them. Limits of the program (`MaxTake`,
`Capacity`, `StoreEvents`, `StoreBytes`, the window) are set low enough to be
exceeded within the caps.

**Caller.** A poll cycle whose restore failed, or that was dropped with events
in it, has lost events of its observer (`whole` is false). The model's caller
then restarts from its committed cursors before the next cycle; nothing in the
code makes it. The caller of `FsBind` gives back its last event first and has no
`next` under way when it does, which is what the runners do: `Watch_proofs`
shows it of `watch`.

**Fairness.** `WF_vars(Runner)` (`Ends`, `Task`, `Command`): a runtime polls a task
that was woken, and the code between two awaits terminates. Nothing is assumed
of sources, clock or caller: the `StopsEnd` of `FirstMatch` says what happens *if*
the clock gets there, and the others hold from the instant the clock has got
there, even if it then stands still. The liveness of the held sessions has
`SinkAnswers` for a premise: a sink that never answers keeps a session forever,
which the code means (`on_burst` is backpressure). A task that waits circles
through its `select!`, which stands for being polled again whenever a waker
fires; in `Watch` and `Replay`, where wakers are the subject, a parked task stays
parked until something wakes it. `ReleaseEnds` needs that the watcher's thread
ends the callback it has begun and stops when its lease is dropped (`Flag`,
`WatcherStops`), and that a call which can go on does (`Progress`).

## Proofs

`FirstMatch_proofs` proves, for every number of arms, every set of required,
idle and hanging arms, every bound and lease, and every backoff table, under
`SeamAssumption` and `FirstMatchAssumption` alone:

* `TypeCorrect`, `NothingInHandAtAwaits`, `ReplayIsInOrder` from the inductive
  invariant `Inv` (`Invariance`). `ReplayInOrder` is not inductive: that a
  restored event may go to the *front* of a queue needs to know that it is
  smaller than everything queued and larger than everything delivered. `Inv`
  says so (`Custodial`: the queue of an arm counts up by one to `arrived`, and
  a held event is the number just before it), and ties slots to hands
  (`SlotsTell`: an arm whose slot says `event` has its event held). The lemmas
  `TakeCarries` and `GiveBackCarries` say that taking a head and putting it back
  keep this; each action then has one step.
* `PostureAlwaysHolds`, `CleanIsAlwaysCovered` from a second invariant `Verdict`,
  relative to `Inv`: what an outcome claims is already true when it is decided,
  before `finish()` reads the clock again, because posture is monotone in time:
  what a lease lets through at an instant it lets through at every earlier one.
* `OnlyALateLeaseLoses`: every step is one of `Custody`'s `Move` or `Lose`, except
  a `finish()` that finds a lease ended when it reads the clock again (`LateLease`,
  which loses an event as `Custody`'s `Lose` does). The theorem assumes nothing, so the finding
  `VFirstMatchDrop` shows is the *only* way a wait loses an event its seam did not
  declare lost. `CustodyIsKept` is the corollary that states `KeepsCustody`: it
  assumes that no lease ends within the horizon, as the run does. The invariant
  `Vouched` keeps the exception narrow: a wait that reaches `finish()` with an event
  has the receipt its set demands, so only a lease can make it drop the event.
* `EarliestArmWins`, `LastLookIsTaken` (`TieRule`, `LastLookSees`): from `Inv` and
  `Undecided`, that nothing is concluded before the place that decides it.

`Lists_proofs` has what the other proofs keep needing. The library's induction
theorems take an operator as a parameter and cannot be used here; its theorem that
the order of the naturals is well-founded does not, so `SetInduction` and
`SeqInduction` state induction for *sets* of numbers and of sequences (`Least`
gives the smallest counterexample). With them `Total` and `Keeping` are shown to be
defined and to distribute over a change of one entry, over `Append` and over `\o`.

`PollCycle_proofs` proves, for every number of arms, events and cycles, and every
budget and room, under `SeamAssumption` and `PollCycleAssumption`:

* `NothingIsLost`, from the inductive invariant `Inv` (`Invariance`). `Holdings` says
  that the events of an arm between its cursor and what has arrived are, while a
  cycle runs, what is admitted and then what is queued, counting up by one
  (`Parted`), and between cycles all queued (`Trails`); `Cursors` orders committed,
  retained and arrived. A step that takes or gives back has one of four shapes
  (`Turn`, `Ends`, `Breaks`, `Drops`), and each is shown once.
* `BoundsHold`, from `Budget`: what is admitted is within the bounds of the set
  and of each arm, and an arm that was not visited has given nothing. That `Quota`
  hands each arm only what the earlier ones left is an induction over the fairness
  order (`IsSpent`, `Affords`).
* `RotationHolds`, from `Rotation`: an arm has been passed over no more often than
  there are arms behind it in the order, so the one at the front has had its turn:
  it is visited when nothing has been spent, and is not deferred if it has an event
  that fits.
* `HandsOverInOrder`: each step is one of `RetainedLog`'s `Emit` or `Deliver`, or an
  ack, without any assumption. What the *ack* commits needs one:
  `AcksFollowReceipt` and `PollKeepsLog` assume `PostureAccepts` (no receipt is
  demanded, no lease ends within the horizon), because a posture that fails empties
  the outcome but not its cursors, and the ack of such an outcome commits events
  nobody received. That is the finding `VPollCycleAck` shows; `poll_cycle` satisfies
  the assumption.
* `OnlyEmptiedOutcomesSkip` needs no assumption: no ack moves a cursor back, and one
  moves it past an event that was not received only if posture had emptied the
  outcome. The finding is thus the only way to lose an event to an ack.

The same module proves the rules over the messages of poll cycles (`Transcript`),
under `TranscriptAssumption` as well, that a set requires some arm:
`agent-wait-message.schema.json:499` gives `required_arms` at least one item.

* `TranscriptHolds` and `CycleHolds` from the invariant `TInv`
  (`TranscriptInvariance`), relative to `Inv` and `Budget` of `PollCycle`. `Written`
  says what each message is: a request within its deadlines, an outcome that vouches
  for what it says (`Vouched`), or the ack of an outcome that was written. `Ordered`
  puts outcomes in the order of their cycles and instants, `Rotated` gives the last
  one the cursor of the next cycle, which with more than one arm differs from
  that of some outcome before it, so that starvation is never seen. `Underway` says that the last request
  is that of the cycle at hand, followed by its outcome and then by acks of it
  alone, which is what `LastCycle` reads.
* `Replayed` is about transcripts without an ack. There every cycle begins with event
  1 of each arm, so an outcome can only show again what earlier ones showed, and the
  one question is whether it may show less. `Visiting` answers it: an arm whose event
  the caller has been shown (`Offered`) never counts as idle, is deferred
  only if some arm has events, and if it has events itself they include that one. With
  events, a deferred required arm makes the outcome `partial`, which claims nothing.
* A step of the runner is taken apart by what it does to the transcript: it goes on
  with other visits, or it closes the cycle with a kind that those visits bear out
  (`Closed`, `DecideTells`, `PostureTells`); `ReportIsVouched` is the lemma that the
  message `build` makes of them is normative.

`TranscriptIsAdmitted` once asked more than holds. The attempt to prove it gave the
case of an arm that answers `Err` when `poll_ready` asks it, which the run's two
cycles without errors do not reach; the exception named above is the outcome.

`Follow_proofs` proves, for every number of arms, events and sessions, every lease
and backoff table, under `SeamAssumption` and `SlotsAssumption`:

* `SessionsWaitEmptyHanded` and `EndsAreHonest` from the inductive invariant `Inv`
  (`Invariance`). `Hands` says that only the sink has a burst and that slots polled
  without a ready answer hold no event, so the turn that goes on to wait has
  given back or handed on all it took. `Verdict` says that a turn which reaches the
  sink had good posture at its reading: the end decided after the sink returns is
  judged by that reading and not by a newer one, and claims no more than it.
* `CustodyIsKept`: `Follow` implements `Custody` with no further assumption.
  `Custodial` puts delivered, burst, held and queued events of an arm in the order of
  its source. `Slots_proofs` says what each helper of a slot set does to one arm's
  `OpenIn` (its held event, then its queue): polling, extending and re-arming leave it
  alone, `take_events` cuts its head off, `restore_custody` puts it back. An arm's
  part of a step is then either `Kept` (events move towards the sink and none is
  missing) or `Gone` (lost with an `Err` of the sink or of a restore, or a dropped
  future).

`Coalesce_proofs` proves, for every number of arms, every set of urgent ones, every
interval, bound, lease and backoff table, under `SeamAssumption`, `SlotsAssumption`
and `CoalesceAssumption`:

* `WindowIsKept`, `BoundsHold`, `TimerHolds` and `QuietEmitsAreApart` from the
  inductive invariant `Inv` (`Invariance`). `Window` says what the window may hold and
  where it is empty, `Clocks` that its timer was set from a reading that has passed,
  and `Gap` that the timer of a window opened after a quiet emit lies at least
  `min_emit_interval` behind it; `emitted` and `opened` are the histories that say so.
* `CustodyIsKept`: `Coalesce` implements `Custody`, again with no further assumption.
  Here an arm's events lie in a burst, in the window and in its slot, and an urgent
  burst overtakes the window. The order survives because `priority_split` takes all
  of an arm's events of a turn or none, and the window has no event of an urgent arm
  (`Window`): what overtakes is never of an arm that is overtaken. `OfConcat` and
  `SplitSafe` are the lemmas; `HandsOnSafe`, `FlushSafe`, `RestoreSafe` and `LostSafe`
  cover the ways a turn may end.

`Watch_proofs` proves of `FsBind`, for every channel limit, registration, file system,
sink and number of signals, under `FsBindAssumption`:

* `TypeCorrect`, `GapsAreNeverSilent`, `OneSlipsPerGap` and `ChainIsUnbroken` from
  the inductive invariant `Inv`. `Numbers` says that signals are numbered in the
  order they are reported and that the one not yet flagged is the last;
  `SlipTells` that an event behind a gap has been answered only if the flag is up
  and no call is past its look, which is why there can be no second; `Chain` that
  what is kept, held and restored counts up to `sequence`. It rests on
  `LookTells`: nothing is given back while a call waits for its channel.
* `BindKeepsCustody`: `FsBind` implements `Custody`. Seen by the numbers of its
  events the stream of a bind is 1, 2, ..., `sequence` (`StreamCounts`), and a
  step lengthens what is kept or made by at most one (`OneAtATime`).

and of `Watch`, under `WatchAssumption` as well:

* `CommandUsesBind`: each step of the command is a step of `FsBind` or leaves it
  alone, so the theorems above hold of the bind under `watch` (`BindInvariance`,
  `WatchHidesNoGap`).
* `AccountsAreComplete` and `DeadlinesReportLoss` from the invariant `WInv`,
  relative to that of `FsBind`. `Account` balances descriptors against lines
  and the one event in hand as long as none was refused; `Ordered` puts printed,
  held and queued signals in one order; `DueTells` says that a turn without an
  event leaves no flagged loss unanswered, by `NoSilentGap`: had there been one,
  the flag would have been up and `poll_ready` would have answered it.

`Replay_proofs` proves, for every number of arms, every set of scripts and limits,
every deadline and lease, under `ReplayAssumption`:

* `ScriptsAreSorted`: what `ScriptedObserver::new` queues is the arm's script in the
  order of its instants; of every set of instants it has as many events as the
  script. It is an induction over the script (`SeqInduction`, `InsertedInOrder`).
* `OutputIsHonest` and `ScriptIsReplayed` from the inductive invariant `Inv`
  (`ReplayInvariance`). `Numbered` says that while the command runs every line is an
  accepted burst and they are numbered from 1. `TakenIsGone` says that an arm which
  has returned is not polled before its event has been used, so no event is
  overwritten, and `AfterHoldsNothing` that a turn that ends has handed on or given
  back all it took, so the end of follow prints no event a second time. What is
  printed, held and queued of an arm then changes only by moving the first event of
  one part to the end of the one before it, or back (`TakingKeeps`, `EmittingKeeps`,
  `RestoringKeeps`).

Every invariant, action property and refinement a run checks is proved. Only
model-checked is liveness (`StopsEnd`, `EventEnds`, `EventServed`, `QuietServed`,
`ReleaseEnds`, `WatchEnds`, `ReplayEnds`), which needs fairness and `ENABLED` and is
out of the prover's reach. `KeepsLog` and `FirstMatch`'s `KeepsCustody` are false where
the two findings bite, and are proved under the assumptions named above, which exclude
just those; `OnlyALateLeaseLoses`, `HandsOverInOrder` and `OnlyEmptiedOutcomesSkip` say
what holds without them. No module uses a `RECURSIVE` operator; sums and filters are
recursive functions.

## What is left

1. `PollCycle` over `FsBind`: the provider mints a cursor per session and refuses
   start anchors (`poll_cycle.rs:264`), and a drain that meets its one-shot
   overflow clears it (`poll_cycle.rs:807`).
2. Live-wait transcripts under `SetRules`.

## Not modelled

* Wire encodings, canonical JSON, digests, references, receipts and instants
  as text: pure functions whose values the runners compare or pass on. That
  `silent_cursor_advance` sorts `created_at` as text, while instants may be
  written with different offsets, is therefore not seen.
* The parsing of documents, JSON schemas and the resolution of the contract
  pin. That `run_wait` validates the outcome before it prints it is
  `OutcomeRefused`, whatever the reason; `run_poll` does so too.
* `validate`, `poll`, `coalesce` and the commands that print: one sequential pass
  around what is modelled. `coalesce` on the command line has the clock of `Replay`
  and the runner of `Coalesce`.
* Manual mode of `FakeClock` is `Tick` in `Seam`: whoever holds the clock moves it.
* The cooperative budget of the runtime: a channel that is refilled as fast as it
  is drained of signals the predicate drops could use it up and keep the timer of
  a biased `select!` from being polled. `MaxSignals` bounds the flood.
* The native backends of `notify`, and what a path is as text.
* Schemas and fixtures are data. Tests were read as documentation. Release
  scripts drive git and registries and are no part of the program.
