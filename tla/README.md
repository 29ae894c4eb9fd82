# A formal model of the causal foundation

This directory specifies, model-checks and proves the transactional core of the
"Causal Simulation Foundation" (CSF, `src/internal/csf`): how a run chooses its
next cycle, seals what the cycle will settle, commits or aborts it, and keeps
doing so when several processes drive the same SQLite file, sources and callers
write to its input ledger meanwhile, and any process may die between two
transactions; how a commit becomes what its actors know; how they compete for
the last unit of a resource; and how the journal is replayed. The run directory of
the embodiment (`src/src/embodiment`) is modelled beside it. The normative text of
the repository is `src/docs/adr/0008-causal-simulation-foundation-v1.md`; every
definition here is translated from the source, and the ADR is only quoted where
the two disagree.

## 1. Inventory

| Component | State it keeps | Operations | Correct when |
|---|---|---|---|
| Clock (`clock`, `domain/types.go`) | `ClockState`: instant, revision, last ordinal | `Next`, `ApplyWork`, `ApplyAdvance`, cascade limit | nothing pending is left behind; ordinals and instants only grow |
| Trigger runtime (`trigger`) | per trigger: armed, last value, count, exhausted, next beat | `Evaluate` | fires exactly at edges or beats, never twice for one revision |
| Cycle coordinator (`commit`) | none of its own: what a call read before its next transaction | `Advance`, the WORK terminals, `Abort`, `Retry` | a plan read earlier never commits against a later state |
| Admission (`admission`, `ingressguard`) | none (pure derivation) | `AdmitThenEvaluate`, `DeriveWithContext`, `VerifyFence` | a sealed cut always derives again |
| SQLite causal store (`persistence/sqlite`) | clock, ledgers, schedule, activations, `committed_cycles`, `cycle_control`, outboxes | one transaction per operation | one terminal per attempt, one commit per revision, no unit settled twice |
| Settlement and schedule (`settlement`, `schedule`) | scheduled occurrences | `OccurrenceOutcome`, `ActivationOutcome` | every deferral leaves its successor |
| Input ledger (`inputledger`) | sources, closures, inputs, rounds, dispatches, answers; a cached view per process | `OpenSource`, `Close`, `Append`, `DeclareRound`, `RegisterDispatch`, `RevokeDispatch`, `Respond` | an answer settles only in the cycle it was asked for |
| Memory store (`persistence/memory`) | the same ledgers, in memory | append, read | accepts what the SQLite store accepts |
| Replay and integrity (`*_replay.go`, `historical_system.go`) | none | `ReplayClock`, `VerifyCycleControl`, validators of stored bytes | accepts every journal the store writes |
| Perception and epistemic outbox (`perception`, `epistemic_outbox.go`, `round_delivery.go`) | tasks, leases, receipts | enqueue, claim, complete, the dispatch barrier | a slot is not asked before its context was delivered |
| Communication (`communication`, `work_communication_*.go`) | sends, due records, deliveries | plan, send, due, deliver | a message is delivered at most once, in due order |
| Resource conflict (`reducer`, `work_resource*.go`, `work_contest.go`) | stock of a test resource | one claim, contested claims | stock is never overdrawn, a winner is order-independent |
| Decision kernel (`decision`, `contextboundary`) | none (pure) | option gating, context boundary | only known options are proposed |
| Codec, identity, policy, genesis, conformance | none | canonical CBOR, digests, manifests | byte equality across languages |
| Embodiment (`src/src/embodiment`, Python) | event log and snapshot of a run directory | seed, advance | a snapshot is backed by its log; what the log tells of a body is one history |
| Canon data, documents, scripts | none | - | - |

Interactions. A *driver* calls the coordinator. The coordinator reads the clock,
then (in another transaction) the pending work, and asks `clock.Next` for a plan.
Admission derives the *fence* of that plan from the input ledger and the schedule,
and the store appends it if the ledgers' prefixes have not moved. The coordinator
then reads again, builds the batch of the terminal (a WORK commit that settles
the cohort, or a CLOCK_ADVANCE that moves the instant and evaluates every
trigger), and the store publishes it in a transaction that checks everything it
relies on once more. `cycle_control` records where the open cycle stands.
Nothing else is shared: no locks are held between transactions, so everything a
worker remembers across two of them may be stale.

What is hard: two drivers of one run; a crash between the fence and the terminal;
a round declared, dispatched, revoked or answered between any two steps; an abort
racing a commit of the same attempt; retries of an aborted cut; triggers whose
next beat has no row of its own; recurrences settled together with single
occurrences; the same-instant cascade limit. `PROJECT.json` lists each hazard at
its line with the properties that would catch it.

## 2. Modules

| Module | Models | Code |
|---|---|---|
| `CausalClock` | coordinates and their order, `Next`, what a commit does to the clock, the cascade limit | `clock/*`, `domain/types.go` |
| `TriggerRuntime` | predicate, the four policies and the evaluation of a trigger | `trigger/trigger.go` |
| `CausalCycle` | one run: workers, schedule, rounds and slots, fences, commits, aborts, retries | `commit/*`, `admission/fence.go`, `ingressguard`, `inputledger` (rounds), `persistence/sqlite/*` |
| `JournalReplay` | the audit: the fold of `ReplayClock` over the journal of a `CausalCycle` run | `clock_replay.go`, `replay_no_proposal.go`, `historical_system.go`, `control_replay.go` |
| `CausalJournal` | abstract: a chain of cuts and one open cycle; `CausalCycle` implements it | ADR 0008, sections 3.3 and 11 |
| `SourceLedger` | exogenous sources: declarations, inputs, closures, per-process views, proofs in fences | `inputledger/ledger.go`, `admission/fence.go`, `store.go` |
| `SourceContract` | abstract: frontiers that only move forward and sealed coordinates; `SourceLedger` implements it | the promise of those sources |
| `SlotLedger` | the slots of a round: dispatches, revocations, answers and their restore with several processes | `inputledger/ledger.go`, `store.go`, `dispatch_authority.go` |
| `SlotContract` | abstract: one request open at a time, one answer; `CausalCycle`, `EpistemicRun` and a `SlotLedger` alone on its file implement it | the promise of those slots |
| `EpistemicRun` | events, perception tasks, evidence, the barrier of a dispatch, inboxes, messages | `perception`, `communication`, `contextboundary`, `epistemic_outbox.go`, `round_delivery.go`, `actor_inbox.go`, `work_communication_*.go` |
| `ResourceCycle` | claims for the last unit: the decision kernel, competing workers, aborts and retries | `decision`, `work_resource*.go`, `work_contest.go`, `resource_outputs.go`, `reducer` |
| `EmbodimentRun` | the run directory: event log, snapshot, seed and advance commands, writes that stop short | `cli.py`, `eventlog.py`, `snapshot.py` |
| `CausalCycleProofs`, `CausalScheduleProofs` | theorems of `CausalCycle`: the cycle and its journal; the schedule, the triggers and the audit of `JournalReplay` | - |
| `SourceLedgerProofs`, `SourceContractProofs`, `SlotLedgerProofs`, `EpistemicRunProofs`, `ResourceCycleProofs`, `EmbodimentRunProofs` | theorems of the module each is named after | - |
| `MC...` | the instances TLC checks | - |

How they compose. `CausalCycle` extends the clock and the triggers, and
`JournalReplay` extends `CausalCycle`, so the audit is evaluated in every state of a
run. The other run modules take from `CausalCycle` what it shows, and say so:
`EpistemicRun` takes a cycle at its commit, since the cut its fence sealed still derives
there (`SealedCutRederives`) and one worker commits it (`SettledOnce`); `ResourceCycle`
takes a cycle as a place in an agenda whose cycles are disjoint (`SettledOnce` again), and
keeps attempts, aborts and the competing workers; `SourceLedger` seals the same fences from the other half of the ledger. One
module of everything would be out of TLC's reach.

### CausalCycle

| Variable | Code |
|---|---|
| `clk` | `clock_states` |
| `occs`, `acts`, `trig` | `scheduled_occurrences`, `trigger_activations`, `trigger_runtime` |
| `opened`, `seat`, `inputs` | rounds, dispatches, revocations and answers of `input_ledger`, and its length (its prefix digest, since the ledger only grows) |
| `fences`, `aborts`, `retries` | the records of `decision_ledger` and the abort envelopes |
| `commits` | `committed_cycles`, each named by its fence |
| `control` | `cycle_control` |
| `job` | what one process holds between two transactions: the loaded clock, the plan, the fence, the batch with the clock and prefix it was built from |

| Action | Code |
|---|---|
| `Seed` | `SeedGenesisOccurrence` |
| `DeclareRound`, `Dispatch`, `RevokeDispatch`, `Respond` | the ledger's operations and the guards of `guardedAppend` and `verifyDispatchAuthority` |
| `LoadClock`, `Plan` | the two reads of `Advance`, and `clock.Next` |
| `Admit` | `AdmitThenEvaluate`, `AppendFenceIfPrefix`, `admitTerminalFence` |
| `Build` | `buildBatch` and the preparation of the WORK terminals, with `VerifyFence` |
| `CommitWork`, `CommitClockAdvance` | the two publication transactions |
| `Abort`, `AbortCascade`, `Retry` | `CommitCycleAbort`, `abortIfCascadeExceeded`, `AuthorizeAttemptRetry` |
| `GiveUp`, `Crash`, `Restart` | a call that returns an error, a process that dies, and the next one |

- **Identities are values.** A source unit is `<<kind, name, ordinal>>`; a fence is
  the record of what it seals. Digest equality is equality of those values, and a
  prefix digest of an append-only ledger is its length.
- **`Admit` is one step.** Derivation reads before it writes, but the write compares
  the input prefix, the system roster and the clock revision with what was derived,
  in one transaction, so a derivation that went stale is refused; the accepted
  executions are those in which read and write coincide.
- **Answers are `NoProposal`** here, and no exogenous source is open: the cohorts are
  those of the NoProposal, system and hybrid terminals. Proposals are in
  `EpistemicRun` (messages) and `ResourceCycle` (claims), sources in `SourceLedger`.
- **`Dispatch` does not wait for perception** here. The barrier of
  `dispatch_epistemic_guard.go` only forbids dispatches, so this module allows a
  superset of the code's interleavings; the barrier itself is in `EpistemicRun`.
- **WORK plans come from `clock.Next`.** The repository has no production driver; its
  test drivers (`commit/work_no_proposal_test.go`) choose WORK plans this way, and
  `Advance` chooses CLOCK_ADVANCE plans this way.
- **One ledger view.** Every write of a round is checked here as the file checks it;
  per-process views are the subject of `SlotLedger`.
- **The triggers of this version are `instant >= threshold`.** The predicate never
  turns false again, so the falling policy is modelled but never fires.
- **Bounds.** `Horizon` limits the instants that are planned for and `MaxDispatch` the
  dispatches of a slot: these two are the model's. `MaxAttempt` is
  `math.MaxUint32`, `MaxOrdinal` is `math.MaxInt64` and `CascadeLimit` is 64 in the code;
  the runs give them small values. Revisions and logical sequences are natural
  numbers: their uint64 overflow is not modelled.

### JournalReplay

`Replayed` is the fold of `ReplayClock` over `committed_cycles`, one commit a revision;
`PendingThen` is `replayAdvanceInputs`: which rounds, occurrences and activations
existed and were unsettled at an earlier revision, told from the commits since.
`Replays` is the audit's verdict, with `VerifyCycleControl`. The audit is taken to read a
file that nobody writes meanwhile: `ReplayClock` runs outside a transaction, and a
commit between its reads would make it fail on a sound run. The validators of stored bytes
(digests, seals, projections) look for edited files and are left out: no action edits one.

### SourceLedger and SlotLedger

The store's rows (`declared`, `stream`; `declared`, `file`) and, per process, a
`view`: the maps of its `Ledger`, refreshed only by its own calls and by `Open`. Every write
is decided twice, against the view as `inputledger` does and against the rows as the
SQLite adapter does; `Crash` drops a view and `Open` restores it row by row.
`SourceLedger` also has the coordinator (`Drive`, `Abort`, `Retry`) with the proofs of
closure a fence carries, the late normalisation of an input into the first open
coordinate, and `audit`, the other records of `decision_ledger`, which the scan
of `AppendIngress` reads. `Grid`, `TopInstant` and `TopOrdinal` stand for the range of int64
coordinates, so the last coordinate (whose `nextOpen` is itself) is reached.
Attempts of one cycle share a fence there. In `SlotLedger` the run's cycles are
a counter (`SealCycle`, `CommitCycle`, `CompletePerception`): a slot is dispatched for
the next cycle. Its `crew` is one process or two, since its promises differ: the view of a
process that is alone on the file agrees with the file (`ReopenedAsLeft`) and
implements `SlotContract`; with two, what holds still is that the file's chain of
dispatches has no gap (`ChainHolds`) and that nobody believes an answer the file does
not hold (`AnswersAgree`).

### EpistemicRun

`journal` holds the commits, `outbox` and `receipts` the perception tasks and their
completions, `evidence` the rows and routes an actor's inbox shows, `transit` the
transmissions. `Drive` is the next cycle of the clock: an advance, a NoProposal commit, a
send, or a due delivery or drop. `Perceive` completes one task in one transaction; it may come
at any time. `Dispatch` waits for the barrier, and the inbox of a slot is a function
of its dispatch. Each round has one slot, which is all that a send admits. A cohort
that mixes a message with a round, two messages due together, or a proposal whose date
has passed is refused by every terminal: such a run stops (fail closed), and the
liveness property excepts it by name (`Jammed`). What a message alleges is opaque.

### ResourceCycle

`Respond` fills the slots of the open cycle, `SealFence` seals it when all are filled,
each worker's `Evaluate` runs the decision kernel (aliases, candidates, conflicts, the
draw, dispositions, all as operators over the cohort) on what it read, and
`CommitResource` publishes stock, decisions and events in one transaction, or `Refused`
drops the verdict. `Abort` and `Retry` may come between. The draw is a function of
the seed and the conflict, quantified over in `genesis`. Claims are summed in
integers of `MaxInt`, so the checked sum overflows. The access and institution facets,
which the handlers always grant, and bindings from an earlier cycle, which
they never pass, are left out, and every proposal has the same producer scope. A stock other than one, more than two claims for
the unit, or a declined slot beside a proposal has no terminal: that run stops, and
`ContestsEnd` claims an end only while the last unit is there and asked for as
the terminals expect.

### EmbodimentRun

`log` is `events.jsonl`, a sequence of lines, and `ended` tells whether the last of them has
its newline; `snapshot` is `snapshot.yaml`, `job` the command a process is in. Each write of
a command is one action, and a process dies between writes (`Die`) or inside one
(`DieWriting`). A line and its newline are one write (`eventlog.py:141`), which may stop
anywhere: within the text, which leaves a line nobody can read (`Torn`), or just before the
newline, which leaves a line that every reader takes (`_read_opening` and
`body_has_advanced` split lines and parse them). Either way the next append runs on from it
(`Appended`), and what was there becomes one unreadable line (`Garbled`). What is
sampled and how a body moves is data: a body is the hours it has lived, and its history
the lines of the log that move it. The handle of a seed command is not
append-only, but no other command writes while the log it created is without
a snapshot, so its offset is never stale. `met` is a history variable: which bodies had
two advances open at once, the case nothing in the code prevents.

`HistoryIsOne` is about a body that did not meet itself, whatever others did
(`IsOneHistory`): its moves have growing numbers, and those with consecutive numbers follow
one another, so that a lost move shows as a gap; and as long as the log reads, or nobody
met the body, its moves form one chain from the seeded body on. Of a run in which
nobody met it says what deaths may cost (`LossIsBounded`): the line a process left without
a newline and the opening of the phase that ran on from it, which the numbers give away.

## 3. What is checked

| Run | Instance | States | Shows |
|---|---|---|---|
| `schedule` | 2 workers; a recurrence (every 2) and a single occurrence at ordinal 2 of instant 1, both possibly seeded late; a rising and a repeating trigger; a round at (1,1); one retry; limit 2; horizon 4 | 725,317 | `TypeOK`, `NothingStale`, `SettledOnce`, `SettledOnTime`, `TriggersCurrent`, `BeatsOnTime`, `RecurrenceKept`, `AttemptsFollow`, `HaltHolds`, `JournalReplays` |
| `rounds` | 2 workers, 2 rounds of one slot asked up to twice, one occurrence at instant 2, three openings, one retry | 628,202 | `JournalIsLinear`, `ControlIsFold`, `SealedCutRederives`, `AnsweredForCycle`, `SealedPlanStands`, `ImplementsJournal` |
| `live` | 2 workers, a recurrence that ends after its third day, both triggers, fully seeded, horizon 2, under fairness | 10,976 | `WorkDrains`, `FenceResolves` |
| `sources` | 2 processes of which one drives, 1 source, 2 keys, coordinates up to the last, one agenda item; deadlock checked | 507,150 | `TypeOK`, `Reopenable`, `SealedCutStands`, `NoInputPassedOver`, `LateInputFits`, `ImplementsContract` |
| `slot_ledger` | crews of one or two processes, one slot, two answers, two reasons, two cycles, asked again once | 13,492 | `ChainHolds`, `AnswersAgree`, `ReopenedAsLeft`, `ImplementsSlots` |
| `epistemic` | 2 actors, 3 rounds, a letter that is delivered and one that is dropped, one revocation per slot, under fairness | 79,604 | `TypeOK`, `InboxExact`, `MessagesSettledOnce`, `EvidenceAttested`, `MessagesSettle` |
| `resource` | 2 workers, 3 rounds of 2 actors, cohorts of three claims or of two and a source, stock 0 to 2, both outcomes of every draw, two attempts, under fairness | 65,774 | `TypeOK`, `StockAccounted`, `DecidedOnce`, `VerdictsAgree`, `ContestsEnd` |
| `embodiment` | 2 processes, cohorts of one or two, days of three hours, up to two days, symmetric | 2,841,114 | `HistoryIsOne`, `SnapshotIsBacked` |
| `advance_confirmed`, `holes_jumped`, `scan`, `replay_beats` | 1 worker or process each | - | findings: section 5 |

Why these instances are enough to be interesting. Two workers or processes are what it
takes for every pair of transactions to interleave: a third adds no new pair, and no
action reads the job of another. In `schedule` the instant 1 has three coordinates
with work (activations, a round, an occurrence) against a limit of two: the limit is
approached, met and exceeded, and the abort it forces is retried. Beats fall at 1 and 3,
the recurrence at 0, 2 and 4: an advance would jump over a beat if cadences
were ignored, and the runs without a lone beat still settle successors and
a round, so `JournalReplays` speaks of more than one instant. In `sources` the span
reaches the last coordinate a record can hold. In `epistemic` one actor has two rounds,
so that a later dispatch must show more than an earlier one. The slot of
`slot_ledger` is asked in two cycles by two processes, the least for one of them to
revoke or answer what the other has replaced. In
`embodiment` two bodies and two processes are the least for an advance of one to
pass between two lines of the other. Each property has a mutant: a variant of a modelled
definition, marked `Variant` and defined before the operator it replaces, under which TLC finds
the property violated.

`CHECK_DEADLOCK FALSE` is given where the system really stops: a run that has settled
everything within its horizon, that waits for an operator or a caller, or that failed
closed.

Fairness. `CausalCycle.FairSpec` asks weak fairness of each worker's own steps
(`Cycle(w)`): the driver keeps calling, `GiveUp` returns it to the start, and `Restart` is the
supervisor. Crashes are allowed at every point but eventually cease. Nothing
is assumed about aborts, the operator's retry, or the callers that declare and answer
rounds: `WorkDrains` accordingly admits a halted run, and the live instance has no rounds
and is fully seeded, so that the finding `advance_confirmed` cannot wedge it.
`EpistemicRun.FairSpec`: the driver keeps driving, the outbox workers keep claiming tasks,
and the caller dispatches and answers each round (weakly, so a revocation may still
intervene, `MaxDispatch` times). `ResourceCycle.FairSpec`: some worker keeps evaluating,
committing or giving up; answers, aborts and retries are owed by nobody.
`SourceLedger.FairSpec` (for the finding `scan`): processes are restarted, the driver
drives, and every source is declared and closed for good when the ledger lets it.

## 4. What is proved

The theorems hold for every value of the constants that satisfies the named assumptions
of the module, so for any number of workers, rounds, slots, triggers, sources, actors or
bodies, and any bounds. The assumptions say what the code's own types and callers say:

| Module | Assumptions |
|---|---|
| `CausalClock`, `CausalCycle` | `MaxOrdinalAssumption`, `CascadeLimitAssumption`, `BoundsAssumption` (the limits are numbers), `GenesisAssumption`, `DefinitionAssumption`, `OpeningsAssumption` (what a run is started with is well formed), `SlotAssumption` (a round has a slot), `NoneAssumption` (absence is not a coordinate) |
| `SourceLedger` | `TopAssumption`, `SpanAssumption` (coordinates lie in the range of a record), `DriverAssumption` (drivers are processes) |
| `SourceContract` | `PointAssumption` (points are coordinates), a hypothesis of its theorem that `SourceLedger` discharges |
| `SlotLedger` | `CrewAssumption` (finitely many processes have the file open), `BoundAssumption` |
| `EpistemicRun` | `OwnerAssumption`, `RunOpeningsAssumption`, `LettersAssumption`, `RunBoundsAssumption`, `NoneAssumption` |
| `ResourceCycle` | `OrderAssumption` (the canonical order lists every unit once), `OffersAssumption`, `SeedsAssumption`, `ResourceBoundsAssumption`, `AbsentAssumption`, and `AgendasAssumption`: a round or a source is admitted by one cycle, which is `SettledOnce` of `CausalCycle` |
| `EmbodimentRun` | `CohortAssumption` (a cohort has a body), `HoursAssumption`, `NoneAssumption` |

Every safety theorem has the same shape: an inductive invariant, one lemma per action
that preserves it, and the property read off it. Each invariant was checked by TLC on
the run of its module before it was proved.

### CausalCycleProofs

`TypeCorrect` (`TypeOK`), `NothingIsStale` (`NothingStale`), `NothingSettledTwice`
(`SettledOnce`), `OneChain` (`JournalIsLinear`), `ControlFolds` (`ControlIsFold`),
`AttemptsInOrder` (`AttemptsFollow`), `HaltStops` (`HaltHolds`), `SealedCutStays`
(`SealedCutRederives`), `AnswersAreForTheCycle` (`AnsweredForCycle`),
`SelectedPlanStands` (`SealedPlanStands`), and two refinements: `RunImplementsJournal`, the
run refines `CausalJournal`, and `RoundsImplementSlots`, each slot of its rounds refines
`SlotContract`, where an answer is told by the cycle and revision it was asked for (its
invariant `SeatsCounted`: a slot has a count of dispatches exactly when it was asked). The
invariant is built in layers, each proved from those below it:

1. `TypeOK`, and `Shape`: plans and fences are what `PlanFor` and `Derived` make
   (`PlanShape`, `FenceShape`), and a trigger's next beat is after the instant it was
   computed at (`CadenceShape`).
2. `OpenCut`: while `control` is not idle its fence is a stored fence of the present
   revision, at the present instant and after the last ordinal. Almost nothing is
   inductive without it: it makes the fence that is published the one that extends the clock.
3. `GenesisClock`: before the first commit the clock is where `BootstrapClock` left it, so
   that what `Seed` adds cannot lie before the floor.
4. `NothingStale` then follows: both publications select the minimum again
   (`StillSelected`), so what stays pending lies at or after the new floor; successors,
   fired activations and next beats are shown to lie there too.
5. `SettledOnce` needs `CutIsFresh`: no unit of the open cut is settled yet, which
   holds when the cut is sealed and stays true because commits close the cycle.
6. `Linear` (`BehindClock`, `OnePerRevision`, `Ordered`, `ClockAtLast`) is
   `JournalIsLinear` strengthened with the place of every commit relative to the clock.
7. `Fold` (`FencesBehind` and `ControlIsFold`): every fence is at or before the present
   revision, and the open ones fold to `control`. `AttemptsFollow`, `HaltHolds` and the
   refinement read off it: a lemma (`StepCases`) splits `Next` into the steps that move
   the journal and those that leave it alone (`Quiet`).
8. `SealedCutRederives` and `SealedPlanStands` use that every entry accepted after a
   fence lies beyond its target (`BeyondSeals`) and that a filled slot never changes.

### CausalScheduleProofs

`TriggersAreCurrent` (`TriggersCurrent`), `BeatsAreOnTime` (`BeatsOnTime`),
`EverythingSettlesOnTime` (`SettledOnTime`), `SeriesRecur` (`RecurrenceKept`) and
`RunsReplay` (`JournalReplays`), on top of the layers above:

9. `Numbered`: an activation is named by its trigger and count (`ActsNamed`) and each
   trigger has finitely many (`FiredFinite`), without which the count of
   `TriggersCurrent` says nothing about the next firing.
10. `InTime`: `BeatsOnTime`'s spacing (`Spaced`) with the place of the next beat: one
    cadence after the last activation, and not behind the clock (`Beating`). The advance
    selects the minimum over the beats, so it cannot pass one.
11. `Scheduled`: of two occurrences of one series the earlier is settled (`Series`), and
    every settled unit is one the ledgers know (`Named`). `SettledOnTime` and
    `RecurrenceKept` are only inductive together with them: a successor is a new row because
    its predecessor was the latest, and no later row takes a name that was settled elsewhere.
12. `Audited`: what is in the ledgers was there by now (`Born`); each commit was of the
    unit the audit looks for (`Chosen`): nothing it reads as pending at that revision
    lies before the commit's target, and unless that target was a beat alone it is among
    it; an advance takes the ordinal after the clock it was planned at (`Origins`); and
    there is a history that tells the clock and the schedule of every revision
    (`Lived`). The point is that what the audit reads as pending at an earlier revision
    no longer changes: later entries lie beyond the seal of that revision. `RunsReplay`
    is then an induction over the length of the journal (`EveryNumber`): the fold of
    `Replayed` passes through that history, and no step of it is refused.

### SourceLedgerProofs and SourceContractProofs

`LedgerTyped` (`TypeOK`), `AlwaysReopenable` (`Reopenable`), `SealedCutsStand`
(`SealedCutStands`), `NoInputIsPassedOver` (`NoInputPassedOver`), `LateInputsFit`
(`LateInputFits`). The invariant `Kept` joins them with: only a process with a Ledger
coordinates (`DriversRun`); only closures are final (`InputsOpen`); what is planned, derived
or stored is a cut (`Cuts`), and the one in flight was stored at the present clock
(`FenceOfClock`); what a coordinator derived from is a beginning of the rows, and while
it is still all there is its fence derives again (`ReadBehind`); and the floor of the clock
has not passed what some fence sealed (`FloorSealed`). `ReadBehind` is what gives the
comparison of prefixes in `AppendFenceIfPrefix` its meaning.

`SourceContract` is the promise of the sources, and `SealedForGood` proves of it, for
every set of sources, keys and coordinates, that once a coordinate is sealed no input
becomes due at it, in whatever order sources place inputs and move their frontiers (its
invariant `SealInv`: every frontier has reached every sealed coordinate).
`LedgerImplementsContract` proves that `SourceLedger` refines that contract, and
`SealedInputsAreFinal` carries the promise over to the ledger.

### SlotLedgerProofs

`SlotsTyped`, `DispatchesChain` (`ChainHolds`), `SlotsAnsweredOnce` (`AnswersAgree`) for
every crew; `NothingLostByReopening` (`ReopenedAsLeft`) and `LedgerImplementsSlots` (the
refinement of `SlotContract`) for a process alone on its file. What `Open` restores is a
recursive function over the rows; `AllNumbers` (a set of numbers with 0 and every
successor is all of them) gives the induction that types it and shows that a row more
is one restored row more. The invariant `Reopened` is the chain and that the view of a
lone process is what `Open` makes of the file. `AnswersAreFinal` carries the promise of
`SlotContract` over to the ledger: through every crash and reopening an answered slot keeps
its answer, and a revoked one is asked again only under the next request number.

### EpistemicRunProofs

`RunTyped` (`TypeOK`), `InboxesExact` (`InboxExact`), `MessagesAreSettledOnce`
(`MessagesSettledOnce`), `EvidenceIsAttested` (`EvidenceAttested`), and
`QuestionsImplementSlots`: each slot in which an actor is asked refines `SlotContract`, the
third model that keeps its promise (after `CausalCycle` and `SlotLedger`). The invariant
`Consistent` ties each row to the commit it comes from: the outbox has exactly the tasks
the commits call for (`Posted`), a transmission is of a send in the journal and only what
was sent is settled (`Sent`), evidence is of posted tasks (`Filed`), and a slot that is
asked was perceived up to its base revision (`SeatsPerceived`), which is the barrier of the
dispatch. `InboxExact` is then an equality of two sets that are
both told from the journal.

### ResourceCycleProofs

`ResourcesTyped` (`TypeOK`), `WorkersAgree` (`VerdictsAgree`), `NothingIsSpentTwice`
(`StockAccounted`), `EverythingIsDecidedOnce` (`DecidedOnce`). The invariant `Agreed` says
that an attempt is of a cycle that has its answers and follows the aborted ones
(`Attempted`), that a held verdict is sound and, of the open cycle, what any worker would
find now (`Evaluated`), that verdicts of one cycle agree with each other and with what was
committed (`Agreeing`), that what a committed cycle admitted is recorded and told, once, and
nothing else is (`Recorded`, `Single`), and that either nothing was spent or the last unit
was, by one proposal (`Spent`). The longest part is about the kernel, not the transactions:
whatever the stock, the claims and the draw, what it finds is sound.

### EmbodimentRunProofs

`BodiesHaveOneHistory` (`HistoryIsOne`) and `SnapshotsAreBacked` (`SnapshotIsBacked`). The
invariant `Coherent`: nothing is written before the log is (`Unseeded`); one process
seeds, and its log is a beginning of its script and ended (`SeedOwns`); a snapshot that can
be read is that of the script the log begins with, later lines and open advances are of
its run, and a line without a newline is none of the script's (`Attested`); two advances
that are open together have met (`Meeting`); an advance that has not opened its phase has a
log it can read, one that has writes after an ended line, or it has met who changed that
(`Unbroken`); each move of a body starts where the one before it ended, and its
open advance stands there, unless it met another of its own or wrote after a line that
others broke (`Told`); the one advance of a body that did not meet itself has a greater
number than every line of the body, and an unopened one finds no line of it (`Counted`);
and as long as nobody met, lines are numbered by their place, one ahead of it after a line
that was run on from (`Numbered`, `NumberAt`). Every write of an advance, whole or
broken off, is one case (`Written`), and four lemmas say what it does to each part of the
invariant. `Told` and `Counted` are what an advance needs to know of a file it read before
others appended to it.

### Only model-checked

- Liveness: `WorkDrains`, `FenceResolves`, `MessagesSettle`, `ContestsEnd`. Fairness and
  `ENABLED` are outside the prover's reach.
- The four findings of section 5, which are counterexamples.

The library's induction theorems take an operator as a parameter, which no installed
prover can instantiate; where an induction was needed (the rows of a file, the lines of a
log) it is made over a set of numbers or by a least counterexample. `SelectSeq` and the
recursive operators of the community modules are opaque to the prover, so the modules that
are proved about define what they need as functions.

## 5. Findings

- **`advance_confirmed`.** ADR 0008 (lines 748-751) asks that a fence be written only if
  a conditional write confirms that its target is still the smallest pending unit.
  `AppendFenceIfPrefix` confirms the input prefix, the roster up to the fence's *origin* and
  the revision, not the selection. A round declared after `Advance` read the pending
  work, at a coordinate before the advance's target, leaves a sealed CLOCK_ADVANCE that its
  publication refuses, that `workFence` refuses to abort, and whose identity is taken: the
  run stands still. `SealedPlanStands` shows the window is exactly that one: once sealed with
  a selected plan, the plan stays selected.
- **`holes_jumped`.** ADR 0008 (lines 741-742) says idle ordinals are jumped. `clock.Next`
  does jump them, but `verifyDispatchAuthority` accepts a dispatch only for the very next
  ordinal, so a round alone at a later ordinal of the present instant can be selected,
  fully answered, and never sealed.
- **`scan`.** The scan of `AppendIngress` (`store.go:635`) passes over a CycleCommit and
  refuses every other decision record that is not a fence, while `guardedAppend`, which
  guards round declarations in the same file, skips them on purpose (comment at
  `store.go:383-386`). After the first commit that records a decision, or an abort or a
  retry, no input and no closure is accepted any more: a declared source can never
  close, and no later fence can be derived.
- **`replay_beats`.** ADR 0008 (lines 834-836) says that trigger repetitions are replayable.
  `replayAdvanceInputs` drops the cadence of every trigger from what was pending
  (`clock_replay.go:66-81`), while the live `pendingClock` counts the next beat. After an
  advance to a beat at which nothing else waits, the audit of an untouched run fails
  with "replay target differs from authoritative pending minimum". `JournalReplays`
  shows that the lone beat is the only way there: without one, a run replays at every moment.

Seen while modelling, and not stated as a finding with a run of its own:

- A second process whose view is stale may write a revocation of a dispatch that was
  already answered or asked again: the file then restores to an error for every
  process that opens it. `SlotLedger` has the step; its properties say what still holds.
- The in-memory store seals a CLOCK_ADVANCE fence at its origin, the SQLite store
  at its destination (`FenceCoordinate`).
- An abort with candidate evidence stores the candidates under identities that the
  retried attempt would store again (`terminal_abort.go:209`); only a test passes any.
- A process that dies between the text of a line and its newline leaves a line that
  readers accept, and the next command opens the file with `"a"` (`eventlog.py:84`) and
  writes `run.extended` onto it. One process suffices, for instance the same command given
  again: the accepted record and the opening of the new phase become one line no parser
  reads, the moves of that phase follow, numbered one ahead of their lines, and no later
  phase can read the log, though it is to be "a JSONL file that is only ever appended
  to" (`eventlog.py:64`). `LossIsBounded` says that a death costs no more where nobody met.
- Two advances of one body that are open together write a history that forks, and two
  of different bodies sequence numbers that repeat; one that goes on after another died
  within a line loses a line with it, which `HistoryIsOne` says shows in its numbers.

## 6. Not modelled, and the plan

Not modelled for good: the codec, identities, manifests and conformance tools (encodings of
finite data without interleaving; names stand for identities), the validators of stored
bytes (`*_replay.go` other than those of `JournalReplay`), the in-memory store of the tests
and the conformance runner, the numeric dynamics of the embodiment, canon data,
documents and one-off scripts.

Left out of modelled parts, for size: exogenous inputs inside `CausalCycle` (no WORK
terminal settles one), rounds of several slots in `EpistemicRun` and `ResourceCycle`, a run
that mixes claims, messages and recurrences, and candidate evidence of an abort.

Plan. Every safety property the runs check is a theorem. What may be added: exogenous
inputs inside `CausalCycle`, which would then refine `SourceContract` as well.
