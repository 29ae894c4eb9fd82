------------------------------ MODULE CausalCycle ------------------------------
(***************************************************************************)
(* One run of the causal foundation: the workers that plan, seal and       *)
(* commit cycles, the callers that declare rounds and answer their slots,  *)
(* the operator that authorises retries, and the SQLite file they share.   *)
(*                                                                         *)
(* Every action on the shared state is one SQLite transaction of           *)
(* internal/csf/persistence/sqlite; what a worker remembers between two    *)
(* transactions is its job.  The run has no exogenous source: its pending  *)
(* work is scheduled occurrences, trigger activations, trigger cadences    *)
(* and decision rounds, and every slot is answered with NoProposal.        *)
(***************************************************************************)
EXTENDS CausalClock, TriggerRuntime, FiniteSets

CONSTANTS
    Worker,       \* processes that drive cycles of the run
    Round, Slot,  \* decision rounds, and the slots each of them declares
    Source,       \* names of the occurrence series of the genesis schedule
    Genesis,      \* the occurrences the genesis schedule may seed
    Trigger,      \* registered triggers
    Definition,   \* their definitions
    Openings,     \* coordinates at which a round may be declared
    Start,        \* initial instant of the run
    Horizon,      \* bound: no plan reaches beyond this instant
    MaxAttempt,   \* math.MaxUint32: the last attempt ordinal of a cycle
    MaxDispatch,  \* bound: dispatches of one slot
    None

\* left is the remaining count of a recurrence, 0 when it is unlimited;
\* every = 0 says that the occurrence does not recur.
Occurrence ==
    [source : Source, due : Int, at : Coordinate, every : Nat, left : Nat]

ASSUME GenesisAssumption ==
    /\ Genesis \subseteq Occurrence
    /\ \A o \in Genesis : o.at.instant >= Start /\ o.due <= o.at.instant
    /\ \A o, p \in Genesis : o.source = p.source => o = p
ASSUME DefinitionAssumption == Definition \in [Trigger -> TriggerDefinition]
ASSUME OpeningsAssumption == Openings \subseteq Coordinate
ASSUME BoundsAssumption ==
    /\ Start \in Int /\ Horizon \in Int
    /\ MaxAttempt \in Nat /\ MaxDispatch \in Nat
ASSUME SlotAssumption == Slot # {}
ASSUME NoneAssumption == None \notin Coordinate

VARIABLES
    clk,       \* clock_states: the run's clock
    occs,      \* scheduled_occurrences, append-only
    acts,      \* trigger_activations, append-only
    trig,      \* trigger_runtime
    opened,    \* round declarations of input_ledger: coordinate, or None
    seat,      \* dispatches, revocations and answers of each round slot
    inputs,    \* how many records input_ledger holds
    fences,    \* admission fences of decision_ledger
    commits,   \* fences whose cycle is in committed_cycles
    aborts,    \* fences with a CycleAbortRecord
    retries,   \* aborted fences with an AttemptRetryRecord
    control,   \* cycle_control: CycleControlState of the run
    job        \* per worker: what it holds between two transactions

schedule == <<occs, acts, trig>>
ledger   == <<opened, seat, inputs>>
journal  == <<fences, commits, aborts, retries>>
vars     == <<clk, schedule, ledger, journal, control, job>>

--------------------------------------------------------------------------------
(* Source units and what is pending.                                       *)

OccUnit(o)    == <<"occurrence", o.source, o.due>>
ActUnit(a)    == <<"activation", a.trigger, a.count>>
SlotUnit(r,s) == <<"slot", r, s>>

Activation == [trigger : Trigger, count : Nat, at : Coordinate]

Settled(u) == \E f \in commits : u \in f.units

PendingOccs   == {o \in occs : ~Settled(OccUnit(o))}
PendingActs   == {a \in acts : ~Settled(ActUnit(a))}
PendingRounds == {r \in Round : /\ opened[r] # None
                                /\ \E s \in Slot : ~Settled(SlotUnit(r, s))}
CadencesIgnored == {}  \* Variant: cadences do not take part in the minimum.
Cadences      == {t \in Trigger : CadencePending(trig[t])}

Pending ==
    {o.at : o \in PendingOccs} \cup {a.at : a \in PendingActs}
      \cup {opened[r] : r \in PendingRounds}
      \cup {At(trig[t].next, 0) : t \in Cadences}

\* Variants: only the instant counts; settled activations are not dropped.
DueOccsOfInstant(c) == {o \in PendingOccs : o.at.instant <= c.instant}
DueActsEver(c)      == {a \in acts : NotAfter(a.at, c)}

DueOccs(c)   == {o \in PendingOccs : NotAfter(o.at, c)}
DueActs(c)   == {a \in PendingActs : NotAfter(a.at, c)}
DueRounds(c) == {r \in PendingRounds : NotAfter(opened[r], c)}

\* The units a cycle at c would admit.
DueUnits(c) ==
    {OccUnit(o) : o \in DueOccs(c)} \cup {ActUnit(a) : a \in DueActs(c)}
      \cup {SlotUnit(r, s) : r \in DueRounds(c), s \in Slot}

WorkAt(t) == {f \in commits : f.kind = "work" /\ f.cycle.instant = t}

--------------------------------------------------------------------------------
(* Admission fences.  base is the revision the cycle starts from; target   *)
(* is the coordinate the fence seals, the cycle's own for WORK.            *)

UnitSet ==
    ({"occurrence"} \X Source \X Int) \cup ({"activation"} \X Trigger \X Nat)
      \cup ({"slot"} \X Round \X Slot)

Fence ==
    [cycle : Coordinate, attempt : 0..MaxAttempt, kind : {"work", "advance"},
     target : Coordinate, base : Nat, units : SUBSET UnitSet,
     rounds : SUBSET Round]

CycleOf(plan) == At(plan.from, plan.origin)

Derived(plan, base, attempt) ==
    LET c == CycleOf(plan) IN
    [cycle |-> c, attempt |-> attempt, kind |-> plan.kind,
     target |-> plan.target, base |-> base,
     units |-> DueUnits(c), rounds |-> DueRounds(c)]

\* Variant: whatever cycle the answers were given for.
CohortFilled(f) ==
    \A r \in f.rounds, s \in Slot : seat[<<r, s>>].status = "filled"

\* The slot state x is an answer for the cycle and revision of f.
Answers(x, f) == x.status = "filled" /\ x.cycle = f.cycle /\ x.base = f.base

CohortAnswered(f) ==
    \A r \in f.rounds, s \in Slot : Answers(seat[<<r, s>>], f)

\* DeriveWithContext returns f rather than an error.
Derivable(f) ==
    /\ CohortAnswered(f)
    /\ f.kind = "advance" => f.units = {}

\* A later attempt of the same sealed cut.
CutOf(f) == [f EXCEPT !.attempt = 0]
SameCut(f, g) == CutOf(f) = CutOf(g)

Idle          == [status |-> "idle", fence |-> None, next |-> 0]
InFlight(f)   == [status |-> "inflight", fence |-> f, next |-> f.attempt]
Halted(f)     == [status |-> "halted", fence |-> f, next |-> f.attempt + 1]
Authorized(f) == [status |-> "authorized", fence |-> f, next |-> f.attempt + 1]

\* Variants: an aborted cycle is attempted again without a retry record; a
\* fence is not delivered twice.
ControlAdmitsHalted(f) ==
    \/ control.status = "idle" /\ f.attempt = 0
    \/ control = InFlight(f)
    \/ /\ control.status \in {"halted", "authorized"}
       /\ f.attempt = control.next
       /\ SameCut(f, control.fence)
ControlAdmitsOnce(f) ==
    \/ control.status = "idle" /\ f.attempt = 0
    \/ /\ control.status = "authorized"
       /\ f.attempt = control.next
       /\ SameCut(f, control.fence)

ControlAdmits(f) ==
    \/ control.status = "idle" /\ f.attempt = 0
    \/ control = InFlight(f)
    \/ /\ control.status = "authorized"
       /\ f.attempt = control.next
       /\ SameCut(f, control.fence)

\* admitTerminalFence, and the identity check of AppendFenceIfPrefix.
Admissible(f) ==
    /\ f.base = clk.revision
    /\ f.cycle.instant = clk.instant
    /\ f.cycle.ordinal > clk.last
    /\ \A g \in fences : g.cycle = f.cycle /\ g.attempt = f.attempt => g = f
    /\ ControlAdmits(f)

\* VerifyFence: the durable ledgers still derive the fence.
Rederives(f) ==
    /\ f.units = DueUnits(f.cycle)
    /\ f.rounds = DueRounds(f.cycle)
    /\ Derivable(f)

--------------------------------------------------------------------------------
(* Jobs.                                                                   *)

Job ==
    [pc : {"idle", "down"}]
      \cup [pc : {"loaded"}, clk : ClockState]
      \cup [pc : {"planned"}, clk : ClockState, plan : CyclePlan]
      \cup [pc : {"sealed"}, clk : ClockState, fence : Fence]
      \cup [pc : {"built"}, clk : ClockState, fence : Fence, cut : Nat]

SeatState ==
    [status : {"none", "open", "revoked", "filled"}, cycle : Coordinate,
     base : Nat, count : 0..MaxDispatch]

Free(w) == job' = [job EXCEPT ![w] = [pc |-> "idle"]]

--------------------------------------------------------------------------------
Vacant == [status |-> "none", cycle |-> At(Start, 0), base |-> 0, count |-> 0]

\* Variant: the predicate is read one instant too early.
EvaluatedEarly(t, r, now, revision) ==
    Evaluate(Definition[t], r, now - 1, revision)

Evaluated(t, r, now, revision) == Evaluate(Definition[t], r, now, revision)

\* BootstrapClock and BootstrapGenesisTriggers, with the part of the genesis
\* schedule that is seeded before the first worker runs.
Init ==
    /\ clk = [instant |-> Start, revision |-> 0, last |-> -1]
    /\ occs \in SUBSET Genesis
    /\ trig = [t \in Trigger |-> Evaluated(t, Unevaluated, Start, 0)]
    /\ acts = {[trigger |-> t, count |-> 1, at |-> At(Start, 0)] :
                  t \in {u \in Trigger :
                            Fires(Definition[u], Unevaluated, Start)}}
    /\ opened = [r \in Round |-> None]
    /\ seat = [p \in Round \X Slot |-> Vacant]
    /\ inputs = 0
    /\ fences = {} /\ commits = {} /\ aborts = {} /\ retries = {}
    /\ control = Idle
    /\ job = [w \in Worker |-> [pc |-> "idle"]]

--------------------------------------------------------------------------------
(* Schedule and rounds.                                                    *)

\* SeedGenesisOccurrence: only before the first fence.
Seed(o) ==
    /\ o \notin occs
    /\ clk.revision = 0 /\ fences = {}
    /\ o.at.instant >= clk.instant
    /\ occs' = occs \cup {o}
    /\ UNCHANGED <<clk, acts, trig, ledger, journal, control, job>>

\* verifyIngressClockFloor.
AboveFloor(c) == ~OrdinalExhausted(clk) /\ NotAfter(Floor(clk), c)

\* Variants: a CLOCK_ADVANCE seals its origin; nothing is sealed.
CutAtOrigin(f) == f.cycle
BeyondNothing(c) == TRUE

\* The seal of guardedAppend: a fence closes everything up to its target.
Cut(f) == f.target
BeyondSeals(c) == \A f \in fences : Precedes(Cut(f), c)

DeclareRound(r, c) ==
    /\ opened[r] = None
    /\ AboveFloor(c)
    /\ BeyondSeals(c)
    /\ opened' = [opened EXCEPT ![r] = c]
    /\ inputs' = inputs + 1
    /\ UNCHANGED <<clk, schedule, seat, journal, control, job>>

\* RegisterDispatch and verifyDispatchAuthority: a slot is asked for the cycle
\* after the current clock, whatever the round's own eligibility.
Dispatch(r, s) ==
    LET x == seat[<<r, s>>] IN
    /\ opened[r] # None
    /\ x.status \in {"none", "revoked"}
    /\ x.count < MaxDispatch
    /\ ~OrdinalExhausted(clk)
    /\ seat' = [seat EXCEPT ![<<r, s>>] =
                   [status |-> "open", cycle |-> Floor(clk),
                    base |-> clk.revision, count |-> x.count + 1]]
    /\ inputs' = inputs + 1
    /\ UNCHANGED <<clk, schedule, opened, journal, control, job>>

RevokeDispatch(r, s) ==
    /\ seat[<<r, s>>].status = "open"
    /\ seat' = [seat EXCEPT ![<<r, s>>].status = "revoked"]
    /\ inputs' = inputs + 1
    /\ UNCHANGED <<clk, schedule, opened, journal, control, job>>

\* Respond: the answer carries the cycle and revision of its dispatch, and
\* the clock may have moved since.
Respond(r, s) ==
    /\ seat[<<r, s>>].status = "open"
    /\ seat' = [seat EXCEPT ![<<r, s>>].status = "filled"]
    /\ inputs' = inputs + 1
    /\ UNCHANGED <<clk, schedule, opened, journal, control, job>>

--------------------------------------------------------------------------------
(* A worker drives a cycle: load the clock, choose the plan from a separate *)
(* read of the pending work, seal, build the batch, commit.                 *)

shared == <<clk, schedule, ledger, journal, control>>

LoadClock(w) ==
    /\ job[w].pc = "idle"
    /\ job' = [job EXCEPT ![w] = [pc |-> "loaded", clk |-> clk]]
    /\ UNCHANGED shared

CanPlan(w, p) == Picks(job[w].clk, Pending, p) /\ p.instant <= Horizon

Plan(w, p) ==
    /\ job[w].pc = "loaded"
    /\ CanPlan(w, p)
    /\ job' = [job EXCEPT ![w] = [pc |-> "planned", clk |-> job[w].clk,
                                  plan |-> PlanFor(job[w].clk, p)]]
    /\ UNCHANGED shared

\* AdmitThenEvaluate: derive the fence and publish it if the input prefix and
\* the system roster are still those it was derived from.  CLOCK_ADVANCE only
\* ever asks for attempt 0.
CanAdmit(w, a) ==
    LET f == Derived(job[w].plan, job[w].clk.revision, a) IN
    /\ job[w].plan.kind = "advance" => a = 0
    /\ Derivable(f)
    /\ Admissible(f)

Admit(w, a) ==
    LET f == Derived(job[w].plan, job[w].clk.revision, a) IN
    /\ job[w].pc = "planned"
    /\ CanAdmit(w, a)
    /\ fences' = fences \cup {f}
    /\ control' = InFlight(f)
    /\ job' = [job EXCEPT ![w] = [pc |-> "sealed", clk |-> job[w].clk,
                                  fence |-> f]]
    /\ UNCHANGED <<clk, schedule, ledger, commits, aborts, retries>>

Limited == CascadeExceeded(Cardinality(WorkAt(clk.instant)))

\* Occurrences of the cohort that OccurrenceOutcome defers, not rejects.
Defers(o) == o.every > 0 /\ o.left # 1

\* Variant: only a cohort of one unit leaves successors.
DeferredAlone(f) ==
    {o \in occs : f.units = {OccUnit(o)} /\ Defers(o)}

Deferred(f) == {o \in occs : OccUnit(o) \in f.units /\ Defers(o)}

\* Variant: an unlimited recurrence is counted down too.
SuccessorCounted(o) ==
    [source |-> o.source, every |-> o.every, due |-> o.due + o.every,
     at |-> At(o.due + o.every, 0), left |-> o.left - 1]

Successor(o) ==
    [source |-> o.source, every |-> o.every, due |-> o.due + o.every,
     at |-> At(o.due + o.every, 0),
     left |-> IF o.left = 0 THEN 0 ELSE o.left - 1]

\* "deferred successor must be in the future".
SuccessorsInFuture(f) ==
    \A o \in Deferred(f) : o.due + o.every > f.cycle.instant

\* buildBatch reads the prefix after the fence; a WORK terminal first verifies
\* the fence, the clock, the cascade limit and the outcome of each unit.
CanBuild(w) ==
    LET f == job[w].fence IN
    f.kind = "work" =>
        /\ Rederives(f)
        /\ f.cycle.instant = clk.instant /\ f.base = clk.revision
        /\ clk.last < f.cycle.ordinal
        /\ ~Limited
        /\ SuccessorsInFuture(f)

Build(w) ==
    LET j == job[w] IN
    /\ j.pc = "sealed"
    /\ CanBuild(w)
    /\ job' = [job EXCEPT ![w] =
                  [pc |-> "built", fence |-> j.fence, cut |-> inputs,
                   clk |-> IF j.fence.kind = "work" THEN clk ELSE j.clk]]
    /\ UNCHANGED shared

\* What both publication transactions check: the clock, the prefix, the
\* fence, the authorised attempt and that the cycle is not yet committed.
CanPublish(w) ==
    LET f == job[w].fence IN
    /\ clk = job[w].clk
    /\ inputs = job[w].cut
    /\ f \in fences
    /\ control = InFlight(f)
    /\ \A g \in commits : g.cycle # f.cycle

\* clock.Next, run again in the publication, picks what the fence sealed.
StillSelected(f) == Picks(clk, Pending, f.target)

\* pendingClock has nothing due that the cohort leaves out, and the cohort
\* has no round that is not due.
CohortIsDue(f) ==
    /\ \A o \in DueOccs(f.cycle) : OccUnit(o) \in f.units
    /\ \A a \in DueActs(f.cycle) : ActUnit(a) \in f.units
    /\ DueRounds(f.cycle) = f.rounds
    /\ \A t \in Cadences : Precedes(f.cycle, At(trig[t].next, 0))

CanCommitWork(w) ==
    LET f == job[w].fence IN
    /\ f.kind = "work"
    /\ CanPublish(w)
    /\ clk.last < f.cycle.ordinal
    /\ StillSelected(f)
    /\ ~Limited
    /\ CohortIsDue(f)
    /\ SuccessorsInFuture(f)
    /\ f.units # {}

CommitWork(w) ==
    LET f == job[w].fence IN
    /\ job[w].pc = "built"
    /\ CanCommitWork(w)
    /\ clk' = ApplyWork(clk, f.cycle.ordinal)
    /\ occs' = occs \cup {Successor(o) : o \in Deferred(f)}
    /\ commits' = commits \cup {f}
    /\ control' = Idle
    /\ Free(w)
    /\ UNCHANGED <<acts, trig, ledger, fences, aborts, retries>>

CanCommitAdvance(w) ==
    LET f == job[w].fence IN
    /\ f.kind = "advance"
    /\ CanPublish(w)
    /\ f.units = {}
    /\ f.target.instant > clk.instant
    /\ StillSelected(f)
    /\ \A t \in Trigger : Evaluable(trig[t], clk.revision + 1)

\* Every registered trigger is evaluated at the destination; what fires is
\* eligible at the destination's first ordinal.
CommitClockAdvance(w) ==
    LET f     == job[w].fence
        to    == f.target.instant
        fired == {t \in Trigger : Fires(Definition[t], trig[t], to)}
    IN
    /\ job[w].pc = "built"
    /\ CanCommitAdvance(w)
    /\ clk' = ApplyAdvance(clk, to)
    /\ trig' = [t \in Trigger |-> Evaluated(t, trig[t], to, clk.revision + 1)]
    /\ acts' = acts \cup {[trigger |-> t, count |-> trig[t].count + 1,
                           at |-> At(to, 0)] : t \in fired}
    /\ commits' = commits \cup {f}
    /\ control' = Idle
    /\ Free(w)
    /\ UNCHANGED <<occs, ledger, fences, aborts, retries>>

--------------------------------------------------------------------------------
(* Aborts, retries, errors and crashes.                                    *)

\* Variant: any fence of the open cycle can be aborted.
CanAbortTwice(f) ==
    /\ f.kind = "work"
    /\ f \in fences
    /\ f.base = clk.revision /\ f.cycle.instant = clk.instant
    /\ \A g \in commits : g.cycle # f.cycle

\* CommitCycleAbort.  workFence refuses the fence of a CLOCK_ADVANCE.
CanAbort(f) ==
    /\ f.kind = "work"
    /\ f \in fences
    /\ f.base = clk.revision /\ f.cycle.instant = clk.instant
    /\ \A g \in commits : g.cycle # f.cycle
    /\ control = InFlight(f)

AbortFence(w, f) ==
    /\ aborts' = aborts \cup {f}
    /\ control' = Halted(f)
    /\ Free(w)
    /\ UNCHANGED <<clk, schedule, ledger, fences, commits, retries>>

\* Coordinator.Abort after an indeterminate validation (reasons 0 to 5).
Abort(w) ==
    LET f == job[w].fence IN
    /\ job[w].pc = "sealed"
    /\ CanAbort(f)
    /\ AbortFence(w, f)

\* abortIfCascadeExceeded (reason 6), reached once the fence verifies.
CascadeAborts(f) == CanAbort(f) /\ Rederives(f) /\ Limited

AbortCascade(w) ==
    LET f == job[w].fence IN
    /\ job[w].pc = "sealed"
    /\ CascadeAborts(f)
    /\ AbortFence(w, f)

\* AuthorizeAttemptRetry, by the operator.
Retry(f) ==
    /\ f \in aborts
    /\ control = Halted(f)
    /\ f.attempt < MaxAttempt
    /\ \A g \in commits : g.cycle # f.cycle
    /\ retries' = retries \cup {f}
    /\ control' = Authorized(f)
    /\ UNCHANGED <<clk, schedule, ledger, fences, commits, aborts, job>>

Refused(w) ==
    CASE job[w].pc = "loaded"  -> ~\E p \in Pending : CanPlan(w, p)
      [] job[w].pc = "planned" -> ~\E a \in 0..MaxAttempt : CanAdmit(w, a)
      [] job[w].pc = "sealed"  -> ~CanBuild(w) /\ ~CascadeAborts(job[w].fence)
      [] job[w].pc = "built"   -> ~(CanCommitWork(w) \/ CanCommitAdvance(w))
      [] OTHER                 -> FALSE

\* The call returns an error and its caller starts over.
GiveUp(w) ==
    /\ Refused(w)
    /\ Free(w)
    /\ UNCHANGED shared

\* The process dies; an open transaction is rolled back by SQLite.
Crash(w) ==
    /\ job[w].pc # "down"
    /\ job' = [job EXCEPT ![w] = [pc |-> "down"]]
    /\ UNCHANGED shared

Restart(w) ==
    /\ job[w].pc = "down"
    /\ Free(w)
    /\ UNCHANGED shared

--------------------------------------------------------------------------------
Cycle(w) ==
    \/ LoadClock(w)
    \/ \E p \in Pending : Plan(w, p)
    \/ \E a \in 0..MaxAttempt : Admit(w, a)
    \/ Build(w)
    \/ CommitWork(w)
    \/ CommitClockAdvance(w)
    \/ AbortCascade(w)
    \/ GiveUp(w)
    \/ Restart(w)

Next ==
    \/ \E w \in Worker : Cycle(w) \/ Abort(w) \/ Crash(w)
    \/ \E o \in Genesis : Seed(o)
    \/ \E r \in Round, c \in Openings : DeclareRound(r, c)
    \/ \E r \in Round, s \in Slot :
          Dispatch(r, s) \/ RevokeDispatch(r, s) \/ Respond(r, s)
    \/ \E f \in aborts : Retry(f)

Spec == Init /\ [][Next]_vars

\* The driver keeps calling the coordinator, what died is restarted, and crashes
\* do not go on for ever; the schedule was seeded before the driver started.
\* No fairness is asked of aborts, of the operator or of the round callers.
Fairness ==
    /\ \A w \in Worker : WF_vars(Cycle(w))
    /\ <>[](\A w \in Worker : job[w].pc # "down")

Seeded == Init /\ occs = Genesis

FairSpec == Seeded /\ [][Next]_vars /\ Fairness

--------------------------------------------------------------------------------
(* Properties.                                                             *)

\* Every stored record and every job has the shape the code gives it.
TypeOK ==
    /\ clk \in ClockState
    /\ occs \subseteq Occurrence
    /\ acts \subseteq Activation
    /\ trig \in [Trigger -> Runtime]
    /\ opened \in [Round -> Coordinate \cup {None}]
    /\ seat \in [Round \X Slot -> SeatState]
    /\ inputs \in Nat
    /\ fences \subseteq Fence
    /\ commits \subseteq fences /\ aborts \subseteq fences
    /\ retries \subseteq aborts
    /\ control \in {Idle} \cup {InFlight(f) : f \in fences}
                     \cup {Halted(f) : f \in fences}
                     \cup {Authorized(f) : f \in fences}
    /\ job \in [Worker -> Job]

\* Nothing pending ever lies before the clock's floor, so clock.Next never
\* answers ErrStalePending: work the clock has passed would never run.
NothingStale == \A p \in Pending : NotAfter(Floor(clk), p)

\* No source unit is settled by two cycles, whatever the workers interleave.
SettledOnce ==
    \A f, g \in commits : f # g => f.units \cap g.units = {}

\* A unit is settled by the cycle at exactly its own eligibility coordinate:
\* never early, never late, never swept along by a later cycle.
SettledOnTime ==
    \A f \in commits :
        /\ \A o \in occs : OccUnit(o) \in f.units => o.at = f.cycle
        /\ \A a \in acts : ActUnit(a) \in f.units => a.at = f.cycle
        /\ \A r \in f.rounds : opened[r] = f.cycle

\* The answers a cycle settled were given for that cycle, against the revision
\* it starts from, and they stay: a later dispatch never replaces them.
AnsweredForCycle ==
    \A f \in commits : \A r \in f.rounds, s \in Slot :
        Answers(seat[<<r, s>>], f)

\* The commits form one chain: one per revision, at strictly increasing
\* coordinates, and the clock is where the last of them left it.
JournalIsLinear ==
    /\ {f.base : f \in commits} = 0 .. clk.revision - 1
    /\ \A f, g \in commits : f.base = g.base => f = g
    /\ \A f, g \in commits : f.base < g.base =>
          /\ Precedes(f.cycle, g.cycle)
          /\ f.kind = "advance" => g.cycle.instant >= f.target.instant
    /\ \A f \in commits : f.base + 1 = clk.revision =>
          IF f.kind = "work"
          THEN clk.instant = f.cycle.instant /\ clk.last = f.cycle.ordinal
          ELSE clk.instant = f.target.instant /\ clk.last = -1

\* The fences of the cycle that is still open: none is committed.
Open == {f \in fences : f.base = clk.revision}

\* cycle_control is the fold of the fences, envelopes and retry records (ADR
\* 0008, invariant 29): a restart reads from it what the journal says.
ControlIsFold ==
    IF Open = {}
    THEN control = Idle
    ELSE \E f \in Open :
            /\ \A g \in Open : g.attempt <= f.attempt /\ SameCut(f, g)
            /\ f \notin commits
            /\ control = IF f \in retries THEN Authorized(f)
                         ELSE IF f \in aborts THEN Halted(f) ELSE InFlight(f)

\* While a cycle is open its cut derives again to the same units and rounds:
\* no late declaration, answer or seeding can change what was sealed.
SealedCutRederives == control.status # "idle" => Rederives(control.fence)

\* A sealed plan that the clock selects stays selected until its cycle ends:
\* nothing that is accepted after the fence can come before its target.
SealedPlanStands ==
    [][(control.status # "idle" /\ control'.status # "idle" /\
        StillSelected(control.fence)) => StillSelected(control.fence)']_vars

\* An attempt after the first follows an authorised abort of the same cut, and
\* an attempt has one terminal: an aborted fence never commits.
AttemptsFollow ==
    /\ commits \cap aborts = {}
    /\ \A f \in fences : f.attempt > 0 =>
          \E g \in retries : g.attempt = f.attempt - 1 /\ SameCut(f, g)

\* After an abort the run is stopped: only the retry record moves it.
HaltHolds ==
    [][control.status = "halted" =>
          /\ UNCHANGED <<clk, schedule, fences, commits, aborts>>
          /\ control' \in {control, Authorized(control.fence)}]_vars

\* A deferred occurrence always leaves its successor in the schedule.
RecurrenceKept ==
    \A o \in occs : Settled(OccUnit(o)) /\ Defers(o) => Successor(o) \in occs

\* A trigger's runtime agrees with its predicate at the present instant, and
\* its activations are numbered without gap or repetition.
TriggersCurrent ==
    \A t \in Trigger :
        /\ trig[t].last = Predicate(Definition[t], clk.instant)
        /\ trig[t].through <= clk.revision
        /\ LET fired == {a \in acts : a.trigger = t} IN
           /\ {a.count : a \in fired} = 1 .. trig[t].count
           /\ Cardinality(fired) = trig[t].count

\* A repeating trigger fires exactly every cadence: no advance jumps over a
\* beat and none comes late.
BeatsOnTime ==
    \A t \in Trigger : Definition[t].policy = "repeat" =>
        /\ \A a, b \in acts :
              a.trigger = t /\ b.trigger = t /\ b.count = a.count + 1 =>
                  b.at.instant = a.at.instant + Definition[t].every
        /\ trig[t].last => clk.instant < trig[t].next

\* The plan a CLOCK_ADVANCE fence seals is the one the clock selects: its
\* conditional write confirms that no smaller unit became pending (ADR 0008).
AdvanceConfirmed ==
    control.status = "inflight" /\ control.fence.kind = "advance" =>
        StillSelected(control.fence)

\* The cycle that the clock selects can be sealed once every slot of its
\* rounds was answered against the present clock, also when it is reached by
\* jumping over ordinals at which nothing is pending (ADR 0008, section 3.3).
HolesAreJumped ==
    \A p \in Pending :
        /\ Picks(clk, Pending, p) /\ p.instant = clk.instant
        /\ \A r \in DueRounds(p), s \in Slot :
              /\ seat[<<r, s>>].status = "filled"
              /\ seat[<<r, s>>].base = clk.revision
        => Derivable(Derived(PlanFor(clk, p), clk.revision, 0))

PendingWithin ==
    {OccUnit(o) : o \in {p \in PendingOccs : p.at.instant <= Horizon}}
      \cup {ActUnit(a) : a \in PendingActs}

\* The schedule always drains: again and again nothing that is due within the
\* horizon is pending, recurrences and activations included, unless an abort
\* stopped the run.
WorkDrains == []<>(PendingWithin = {} \/ control.status = "halted")

\* A sealed cycle always reaches its terminal: commit or abort.
FenceResolves ==
    (control.status = "inflight") ~> (control.status # "inflight")

--------------------------------------------------------------------------------
(* The abstract journal this run implements.                               *)

Phase(c) == CASE c.status = "inflight"   -> "sealed"
              [] c.status = "halted"     -> "aborted"
              [] c.status = "authorized" -> "authorized"

Chain == {CutOf(f) : f \in commits}

OpenCycle(c) ==
    IF c.status = "idle"
    THEN [phase |-> "closed", cut |-> None, attempt |-> 0]
    ELSE [phase |-> Phase(c), cut |-> CutOf(c.fence),
          attempt |-> c.fence.attempt]

Journal == INSTANCE CausalJournal WITH chain <- Chain, open <- OpenCycle(control)

\* Every step of the run is a step of the abstract journal, or leaves it alone.
ImplementsJournal == Journal!Spec

================================================================================
