--------------------------- MODULE CausalCycleProofs ---------------------------
(***************************************************************************)
(* Theorems of CausalCycle, for every value of its constants: nothing      *)
(* pending is left behind or settled twice, commits form one chain,        *)
(* cycle_control folds it, attempts follow each other, what is sealed      *)
(* stays true until its terminal, and the run implements CausalJournal.    *)
(***************************************************************************)
EXTENDS CausalCycle, TLAPS

USE DEF At

--------------------------------------------------------------------------------
(* What the operators return.                                              *)

\* The floor of a clock state is a coordinate.
LEMMA FloorType ==
    ASSUME NEW c \in ClockState
    PROVE  Floor(c) \in Coordinate
BY DEF ClockState, Floor, Coordinate

\* The plan clock.Next makes for a coordinate is well formed.
LEMMA PlanType ==
    ASSUME NEW c \in ClockState, NEW p \in Coordinate
    PROVE  PlanFor(c, p) \in CyclePlan
BY DEF ClockState, Coordinate, CyclePlan, PlanFor

\* A clock state stays one when a cycle is applied to it.
LEMMA ApplyType ==
    ASSUME NEW c \in ClockState, NEW t \in Int, NEW n \in Nat
    PROVE  ApplyWork(c, n) \in ClockState /\ ApplyAdvance(c, t) \in ClockState
BY DEF ClockState, ApplyWork, ApplyAdvance

\* Evaluating a trigger leaves a runtime.
LEMMA EvaluateType ==
    ASSUME NEW d \in TriggerDefinition, NEW r \in Runtime,
           NEW now \in Int, NEW revision \in Nat
    PROVE  Evaluate(d, r, now, revision) \in Runtime
<1>1. /\ d.policy \in Policy /\ d.threshold \in Int /\ d.initial \in BOOLEAN
      /\ d.every \in Nat
  BY DEF TriggerDefinition
<1>2. /\ r.armed \in BOOLEAN /\ r.hasLast \in BOOLEAN /\ r.last \in BOOLEAN
      /\ r.count \in Nat /\ r.exhausted \in BOOLEAN /\ r.hasNext \in BOOLEAN
      /\ r.next \in Int /\ r.through \in Nat
  BY DEF Runtime
<1>3. Predicate(d, now) \in BOOLEAN
  BY DEF Predicate
<1>4. Fires(d, r, now) \in BOOLEAN
  BY DEF Fires
<1>5. ArmedAfter(d, r, now) \in BOOLEAN
  BY <1>2, <1>3, <1>4 DEF ArmedAfter
<1>6. Beats(d, r, now) \in BOOLEAN
  BY DEF Beats
<1> QED
  BY <1>1, <1>2, <1>3, <1>4, <1>5, <1>6 DEF Evaluate, Runtime

\* A successor is an occurrence of the same series.
LEMMA SuccessorType ==
    ASSUME NEW o \in Occurrence
    PROVE  Successor(o) \in Occurrence
BY DEF Occurrence, Successor, Coordinate

\* What is pending is a set of coordinates.
LEMMA PendingType == TypeOK => Pending \subseteq Coordinate
<1> SUFFICES ASSUME TypeOK PROVE Pending \subseteq Coordinate
  OBVIOUS
<1>1. \A o \in PendingOccs : o.at \in Coordinate
  BY DEF TypeOK, PendingOccs, Occurrence
<1>2. \A a \in PendingActs : a.at \in Coordinate
  BY DEF TypeOK, PendingActs, Activation
<1>3. \A r \in PendingRounds : opened[r] \in Coordinate
  BY DEF TypeOK, PendingRounds
<1>4. \A t \in Cadences : At(trig[t].next, 0) \in Coordinate
  BY DEF TypeOK, Cadences, Runtime, Coordinate
<1> QED
  BY <1>1, <1>2, <1>3, <1>4 DEF Pending

\* A derived fence is a fence.
LEMMA DerivedType ==
    ASSUME TypeOK, NEW plan \in CyclePlan, NEW base \in Nat,
           NEW a \in 0..MaxAttempt
    PROVE  Derived(plan, base, a) \in Fence
<1> DEFINE c == CycleOf(plan)
<1>1. c \in Coordinate
  BY DEF CycleOf, CyclePlan, Coordinate
<1>2. \A o \in DueOccs(c) : OccUnit(o) \in UnitSet
  BY DEF TypeOK, DueOccs, PendingOccs, Occurrence, OccUnit, UnitSet
<1>3. \A x \in DueActs(c) : ActUnit(x) \in UnitSet
  BY DEF TypeOK, DueActs, PendingActs, Activation, ActUnit, UnitSet
<1>4. DueRounds(c) \subseteq Round
  BY DEF DueRounds, PendingRounds
<1>5. \A r \in DueRounds(c), s \in Slot : SlotUnit(r, s) \in UnitSet
  BY <1>4 DEF SlotUnit, UnitSet
<1>6. DueUnits(c) \subseteq UnitSet
  BY <1>2, <1>3, <1>5 DEF DueUnits
<1>7. plan.kind \in {"work", "advance"} /\ plan.target \in Coordinate
  BY DEF CyclePlan
<1> HIDE DEF c
<1>8. [cycle |-> c, attempt |-> a, kind |-> plan.kind, target |-> plan.target,
       base |-> base, units |-> DueUnits(c), rounds |-> DueRounds(c)] \in Fence
  BY <1>1, <1>4, <1>6, <1>7 DEF Fence
<1> QED
  BY <1>8 DEF Derived, c

\* What a job holds, by the step it is at.
LEMMA JobByStep ==
    ASSUME NEW j \in Job
    PROVE  /\ j.pc = "loaded"  => j.clk \in ClockState
           /\ j.pc = "planned" => j.clk \in ClockState /\ j.plan \in CyclePlan
           /\ j.pc = "sealed"  => j.clk \in ClockState /\ j.fence \in Fence
           /\ j.pc = "built"   => /\ j.clk \in ClockState /\ j.fence \in Fence
                                  /\ j.cut \in Nat
BY DEF Job

--------------------------------------------------------------------------------
(* Type correctness.                                                       *)

\* A step that only changes one job, to a well formed one, keeps TypeOK.
LEMMA JobOnlyType ==
    ASSUME TypeOK, UNCHANGED shared, NEW w \in Worker, NEW j \in Job,
           job' = [job EXCEPT ![w] = j]
    PROVE  TypeOK'
BY DEF TypeOK, shared, schedule, ledger, journal

\* An idle job and a job that is down are well formed.
LEMMA RestType == [pc |-> "idle"] \in Job /\ [pc |-> "down"] \in Job
BY DEF Job

\* The initial states have the right shape.
LEMMA TypeInit == Init => TypeOK
<1> SUFFICES ASSUME Init PROVE TypeOK
  OBVIOUS
<1>1. clk \in ClockState /\ inputs \in Nat
  BY BoundsAssumption DEF Init, ClockState
<1>2. occs \subseteq Occurrence
  BY GenesisAssumption DEF Init
<1>3. acts \subseteq Activation
  BY BoundsAssumption DEF Init, Activation, Coordinate
<1>4. Unevaluated \in Runtime
  BY DEF Unevaluated, Runtime
<1>5. \A t \in Trigger : Evaluated(t, Unevaluated, Start, 0) \in Runtime
  BY <1>4, EvaluateType, DefinitionAssumption, BoundsAssumption DEF Evaluated
<1>6. trig \in [Trigger -> Runtime]
  BY <1>5 DEF Init
<1>7. opened \in [Round -> Coordinate \cup {None}]
  BY DEF Init
<1>8. Vacant \in SeatState
  BY BoundsAssumption DEF Vacant, SeatState, Coordinate
<1>9. seat \in [Round \X Slot -> SeatState]
  BY <1>8 DEF Init
<1>10. job \in [Worker -> Job]
  BY RestType DEF Init
<1> QED
  BY <1>1, <1>2, <1>3, <1>6, <1>7, <1>9, <1>10 DEF TypeOK, Init

\* Every step keeps the shape.
LEMMA TypeStep == TypeOK /\ [Next]_vars => TypeOK'
<1> SUFFICES ASSUME TypeOK, [Next]_vars PROVE TypeOK'
  OBVIOUS
<1>1. ASSUME NEW w \in Worker, LoadClock(w) PROVE TypeOK'
  <2>1. [pc |-> "loaded", clk |-> clk] \in Job
    BY DEF TypeOK, Job
  <2> QED
    BY <1>1, <2>1, JobOnlyType DEF LoadClock
<1>2. ASSUME NEW w \in Worker, NEW p \in Pending, Plan(w, p) PROVE TypeOK'
  <2>1. job[w] \in Job /\ p \in Coordinate
    BY PendingType DEF TypeOK
  <2>2. job[w].clk \in ClockState
    BY <1>2, <2>1, JobByStep DEF Plan
  <2>3. PlanFor(job[w].clk, p) \in CyclePlan
    BY <2>1, <2>2, PlanType
  <2>4. [pc |-> "planned", clk |-> job[w].clk,
         plan |-> PlanFor(job[w].clk, p)] \in Job
    BY <2>2, <2>3 DEF Job
  <2> QED
    BY <1>2, <2>4, JobOnlyType DEF Plan
<1>3. ASSUME NEW w \in Worker, NEW a \in 0..MaxAttempt, Admit(w, a)
      PROVE  TypeOK'
  <2> DEFINE f == Derived(job[w].plan, job[w].clk.revision, a)
             j == [pc |-> "sealed", clk |-> job[w].clk, fence |-> f]
  <2>1. job[w].clk \in ClockState /\ job[w].plan \in CyclePlan
    BY <1>3, JobByStep DEF TypeOK, Admit
  <2>2. f \in Fence
    BY <2>1, DerivedType DEF ClockState
  <2>3. /\ fences' = fences \cup {f} /\ control' = InFlight(f)
        /\ job' = [job EXCEPT ![w] = j]
        /\ UNCHANGED <<clk, schedule, ledger, commits, aborts, retries>>
    BY <1>3 DEF Admit
  <2> HIDE DEF f
  <2>4. j \in Job
    BY <2>1, <2>2 DEF Job
  <2> QED
    BY <2>2, <2>3, <2>4 DEF TypeOK, schedule, ledger
<1>4. ASSUME NEW w \in Worker, Build(w) PROVE TypeOK'
  <2> DEFINE c == IF job[w].fence.kind = "work" THEN clk ELSE job[w].clk
             j == [pc |-> "built", fence |-> job[w].fence, cut |-> inputs,
                   clk |-> c]
  <2>1. job[w].clk \in ClockState /\ job[w].fence \in Fence
    BY <1>4, JobByStep DEF TypeOK, Build
  <2>2. c \in ClockState
    BY <2>1 DEF TypeOK
  <2>3. job' = [job EXCEPT ![w] = j] /\ UNCHANGED shared
    BY <1>4 DEF Build
  <2> HIDE DEF c
  <2>4. j \in Job
    BY <2>1, <2>2 DEF Job, TypeOK
  <2> QED
    BY <2>3, <2>4, JobOnlyType
<1>5. ASSUME NEW w \in Worker, CommitWork(w) PROVE TypeOK'
  <2> DEFINE f == job[w].fence
  <2>1. f \in Fence
    BY <1>5, JobByStep DEF TypeOK, CommitWork
  <2>2. f \in fences
    BY <1>5 DEF CommitWork, CanCommitWork, CanPublish
  <2>3. clk' \in ClockState
    BY <1>5, <2>1, ApplyType DEF CommitWork, TypeOK, Fence, Coordinate
  <2>4. occs' \subseteq Occurrence
    BY <1>5, SuccessorType DEF CommitWork, TypeOK, Deferred
  <2>5. commits' \subseteq fences' /\ control' = Idle
    BY <1>5, <2>2 DEF CommitWork, TypeOK
  <2>6. job' \in [Worker -> Job]
    BY <1>5, RestType DEF CommitWork, Free, TypeOK
  <2> QED
    BY <1>5, <2>3, <2>4, <2>5, <2>6 DEF CommitWork, TypeOK, ledger
<1>6. ASSUME NEW w \in Worker, CommitClockAdvance(w) PROVE TypeOK'
  <2> DEFINE f  == job[w].fence
             to == f.target.instant
             fired == {t \in Trigger : Fires(Definition[t], trig[t], to)}
  <2>1. f \in Fence /\ to \in Int
    BY <1>6, JobByStep DEF TypeOK, CommitClockAdvance, Fence, Coordinate
  <2>2. f \in fences
    BY <1>6 DEF CommitClockAdvance, CanCommitAdvance, CanPublish
  <2>3. /\ clk' = ApplyAdvance(clk, to)
        /\ trig' = [t \in Trigger |->
                       Evaluated(t, trig[t], to, clk.revision + 1)]
        /\ acts' = acts \cup {[trigger |-> t, count |-> trig[t].count + 1,
                               at |-> At(to, 0)] : t \in fired}
        /\ commits' = commits \cup {f} /\ control' = Idle /\ Free(w)
        /\ UNCHANGED <<occs, ledger, fences, aborts, retries>>
    BY <1>6 DEF CommitClockAdvance
  <2>4. clk.revision + 1 \in Nat
    BY DEF TypeOK, ClockState
  <2>5. \A t \in Trigger :
           Evaluated(t, trig[t], to, clk.revision + 1) \in Runtime
    BY <2>1, <2>4, EvaluateType, DefinitionAssumption DEF Evaluated, TypeOK
  <2>6. clk' \in ClockState
    BY <2>1, <2>3, ApplyType DEF TypeOK, ClockState, ApplyAdvance
  <2>7. trig' \in [Trigger -> Runtime]
    BY <2>3, <2>5
  <2>8. \A t \in fired : [trigger |-> t, count |-> trig[t].count + 1,
                          at |-> At(to, 0)] \in Activation
    BY <2>1 DEF TypeOK, Runtime, Activation, Coordinate
  <2>9. acts' \subseteq Activation
    BY <2>3, <2>8 DEF TypeOK
  <2>10. job' \in [Worker -> Job]
    BY <2>3, RestType DEF Free, TypeOK
  <2> QED
    BY <2>2, <2>3, <2>6, <2>7, <2>9, <2>10 DEF TypeOK, ledger
<1>7. ASSUME NEW w \in Worker, NEW f, f = job[w].fence, CanAbort(f),
             AbortFence(w, f)
      PROVE  TypeOK'
  <2>1. job' \in [Worker -> Job]
    BY <1>7, RestType DEF AbortFence, Free, TypeOK
  <2> QED
    BY <1>7, <2>1 DEF AbortFence, CanAbort, TypeOK, schedule, ledger
<1>8. ASSUME NEW w \in Worker, GiveUp(w) \/ Restart(w) \/ Crash(w)
      PROVE  TypeOK'
  BY <1>8, RestType, JobOnlyType DEF GiveUp, Restart, Crash, Free
<1>9. ASSUME NEW o \in Genesis, Seed(o) PROVE TypeOK'
  BY <1>9, GenesisAssumption DEF Seed, TypeOK, ledger, journal
<1>10. ASSUME NEW r \in Round, NEW c \in Openings, DeclareRound(r, c)
       PROVE  TypeOK'
  BY <1>10, OpeningsAssumption DEF DeclareRound, TypeOK, schedule, journal
<1>11. ASSUME NEW r \in Round, NEW s \in Slot,
              Dispatch(r, s) \/ RevokeDispatch(r, s) \/ Respond(r, s)
       PROVE  TypeOK'
  <2> DEFINE x == seat[<<r, s>>]
  <2>1. x \in SeatState
    BY DEF TypeOK
  <2>2. /\ inputs' = inputs + 1
        /\ UNCHANGED <<clk, schedule, opened, journal, control, job>>
    BY <1>11 DEF Dispatch, RevokeDispatch, Respond
  <2>3. seat' \in [Round \X Slot -> SeatState]
    <3>1. CASE Dispatch(r, s)
      <4>1. [status |-> "open", cycle |-> Floor(clk), base |-> clk.revision,
             count |-> x.count + 1] \in SeatState
        BY <2>1, <3>1, FloorType, BoundsAssumption
           DEF Dispatch, SeatState, TypeOK, ClockState
      <4> QED
        BY <3>1, <4>1 DEF Dispatch, TypeOK
    <3>2. [x EXCEPT !.status = "revoked"] \in SeatState
          /\ [x EXCEPT !.status = "filled"] \in SeatState
      BY <2>1 DEF SeatState
    <3>3. ASSUME NEW y \in SeatState, seat' = [seat EXCEPT ![<<r, s>>] = y]
          PROVE  seat' \in [Round \X Slot -> SeatState]
      BY <3>3 DEF TypeOK
    <3>4. CASE RevokeDispatch(r, s)
      <4>1. seat' = [seat EXCEPT ![<<r, s>>] = [x EXCEPT !.status = "revoked"]]
        BY <3>4 DEF RevokeDispatch
      <4> QED
        BY <3>2, <3>3, <4>1
    <3>5. CASE Respond(r, s)
      <4>1. seat' = [seat EXCEPT ![<<r, s>>] = [x EXCEPT !.status = "filled"]]
        BY <3>5 DEF Respond
      <4> QED
        BY <3>2, <3>3, <4>1
    <3> QED
      BY <1>11, <3>1, <3>4, <3>5
  <2> QED
    BY <2>2, <2>3 DEF TypeOK, schedule, journal
<1>12. ASSUME NEW f \in aborts, Retry(f) PROVE TypeOK'
  BY <1>12 DEF Retry, TypeOK, schedule, ledger
<1>13. CASE UNCHANGED vars
  BY <1>13 DEF TypeOK, vars, schedule, ledger, journal
<1> QED
  BY <1>1, <1>2, <1>3, <1>4, <1>5, <1>6, <1>7, <1>8, <1>9, <1>10, <1>11,
     <1>12, <1>13 DEF Next, Cycle, Abort, AbortCascade, CascadeAborts

\* TypeOK holds throughout every run, whatever its workers, schedule, triggers
\* and rounds are: every record the store keeps has the shape its readers ask.
THEOREM TypeCorrect == Spec => []TypeOK
BY TypeInit, TypeStep, PTL DEF Spec

--------------------------------------------------------------------------------
(* The steps that move the journal, the clock or what is pending; all the  *)
(* others are quiet.                                                       *)

Quiet == UNCHANGED <<clk, schedule, opened, journal, control>>

LEMMA StepCases ==
    ASSUME [Next]_vars
    PROVE  \/ \E w \in Worker, a \in 0..MaxAttempt : Admit(w, a)
           \/ \E w \in Worker : CommitWork(w) \/ CommitClockAdvance(w)
           \/ \E w \in Worker : /\ CanAbort(job[w].fence)
                                /\ AbortFence(w, job[w].fence)
           \/ \E f \in aborts : Retry(f)
           \/ \E o \in Genesis : Seed(o)
           \/ \E r \in Round, c \in Openings : DeclareRound(r, c)
           \/ Quiet
<1>1. ASSUME NEW w \in Worker,
             \/ LoadClock(w) \/ (\E p \in Pending : Plan(w, p)) \/ Build(w)
             \/ GiveUp(w) \/ Restart(w) \/ Crash(w)
      PROVE  Quiet
  BY <1>1 DEF LoadClock, Plan, Build, GiveUp, Restart, Crash, shared, ledger,
         Quiet
<1>2. ASSUME NEW w \in Worker, AbortCascade(w) \/ Abort(w)
      PROVE  CanAbort(job[w].fence) /\ AbortFence(w, job[w].fence)
  BY <1>2 DEF AbortCascade, Abort, CascadeAborts
<1>3. ASSUME NEW r \in Round, NEW s \in Slot,
             Dispatch(r, s) \/ RevokeDispatch(r, s) \/ Respond(r, s)
      PROVE  Quiet
  BY <1>3 DEF Dispatch, RevokeDispatch, Respond, Quiet
<1>4. CASE UNCHANGED vars
  BY <1>4 DEF vars, ledger, Quiet
<1> QED
  BY <1>1, <1>2, <1>3, <1>4 DEF Next, Cycle

--------------------------------------------------------------------------------
(* What plans, fences, cadences and the open cut always look like.         *)

\* A WORK cycle targets itself, a CLOCK_ADVANCE a later instant.
Targets(kind, cycle, target) ==
    /\ kind = "work" => target = cycle
    /\ kind = "advance" => target.instant > cycle.instant

PlanShape ==
    \A w \in Worker : job[w].pc = "planned" =>
        LET plan == job[w].plan
        IN  Targets(plan.kind, CycleOf(plan), plan.target)

\* A CLOCK_ADVANCE admits no unit, and the slots of a round are admitted all
\* together.
FenceShape ==
    \A f \in fences :
        /\ Targets(f.kind, f.cycle, f.target)
        /\ f.kind = "advance" => f.units = {}
        /\ \A r \in Round, s \in Slot :
              SlotUnit(r, s) \in f.units <=> r \in f.rounds

\* Only a repeating trigger has a cadence.
CadenceShape ==
    \A t \in Trigger : trig[t].hasNext => Definition[t].policy = "repeat"

Shape == PlanShape /\ FenceShape /\ CadenceShape

\* The open cut starts at the present clock.
OpenCut ==
    control.status # "idle" =>
        /\ control.fence \in fences
        /\ control.fence.base = clk.revision
        /\ control.fence.cycle.instant = clk.instant
        /\ control.fence.cycle.ordinal > clk.last

\* Units of different kinds differ, and slots are told apart.
LEMMA UnitsDiffer ==
    /\ \A o, r, s : OccUnit(o) # SlotUnit(r, s)
    /\ \A a, r, s : ActUnit(a) # SlotUnit(r, s)
    /\ \A r, s, q, t : SlotUnit(r, s) = SlotUnit(q, t) => r = q /\ s = t
BY DEF OccUnit, ActUnit, SlotUnit

\* The slots a cycle at c admits are those of the rounds due at c.
LEMMA DueSlots ==
    ASSUME NEW c, NEW r \in Round, NEW s \in Slot
    PROVE  SlotUnit(r, s) \in DueUnits(c) <=> r \in DueRounds(c)
BY UnitsDiffer DEF DueUnits

\* A cadence is left only by the beats of a repeating trigger.
LEMMA EvaluateCadence ==
    ASSUME NEW t \in Trigger, NEW r \in Runtime, NEW now, NEW revision,
           r.hasNext => Definition[t].policy = "repeat"
    PROVE  Evaluated(t, r, now, revision).hasNext =>
               Definition[t].policy = "repeat"
BY DEF Evaluated, Evaluate, Beats

LEMMA ShapeInit == Init => Shape
<1> SUFFICES ASSUME Init PROVE Shape
  OBVIOUS
<1>1. Unevaluated \in Runtime /\ ~Unevaluated.hasNext
  BY DEF Unevaluated, Runtime
<1>2. CadenceShape
  BY <1>1, EvaluateCadence DEF Init, CadenceShape
<1> QED
  BY <1>2 DEF Init, Shape, PlanShape, FenceShape

LEMMA ShapeStep == TypeOK /\ Shape /\ [Next]_vars => Shape'
<1> SUFFICES ASSUME TypeOK, Shape, [Next]_vars PROVE Shape'
  OBVIOUS
<1>1. PlanShape'
  <2>1. ASSUME NEW w \in Worker, NEW p \in Pending, Plan(w, p)
        PROVE  PlanShape'
    <3> DEFINE plan == PlanFor(job[w].clk, p)
    <3>1. job[w].clk \in ClockState /\ p \in Coordinate
      BY <2>1, PendingType, JobByStep DEF Plan, TypeOK
    <3>2. NotAfter(Floor(job[w].clk), p)
      BY <2>1 DEF Plan, CanPlan, Picks
    <3>3. Targets(plan.kind, CycleOf(plan), plan.target)
      BY <3>1, <3>2
         DEF Targets, PlanFor, CycleOf, Coordinate, ClockState, NotAfter,
             Precedes, Floor
    <3> HIDE DEF plan
    <3>4. job' = [job EXCEPT ![w] = [pc |-> "planned", clk |-> job[w].clk,
                                     plan |-> plan]]
      BY <2>1 DEF Plan, plan
    <3> QED
      BY <3>3, <3>4 DEF Shape, PlanShape, TypeOK
  <2>2. ASSUME NEW w \in Worker, NEW j, j.pc # "planned",
               job' = [job EXCEPT ![w] = j]
        PROVE  PlanShape'
    BY <2>2 DEF Shape, PlanShape, TypeOK
  <2>3. ASSUME NEW w \in Worker,
               \/ LoadClock(w) \/ (\E a \in 0..MaxAttempt : Admit(w, a))
               \/ Build(w) \/ CommitWork(w) \/ CommitClockAdvance(w)
               \/ AbortFence(w, job[w].fence)
               \/ GiveUp(w) \/ Restart(w) \/ Crash(w)
        PROVE  PlanShape'
    BY <2>2, <2>3
       DEF LoadClock, Admit, Build, CommitWork, CommitClockAdvance, AbortFence,
           GiveUp, Restart, Crash, Free
  <2>4. ASSUME job' = job PROVE PlanShape'
    BY <2>4 DEF Shape, PlanShape
  <2> QED
    BY <2>1, <2>3, <2>4
       DEF Next, Cycle, Abort, AbortCascade, Seed, DeclareRound, Dispatch,
           RevokeDispatch, Respond, Retry, vars
<1>2. FenceShape'
  <2>1. ASSUME NEW w \in Worker, NEW a \in 0..MaxAttempt, Admit(w, a)
        PROVE  FenceShape'
    <3> DEFINE plan == job[w].plan
               f    == Derived(plan, job[w].clk.revision, a)
    <3>1. Targets(plan.kind, CycleOf(plan), plan.target)
      BY <2>1 DEF Admit, Shape, PlanShape
    <3>2. /\ f.kind = plan.kind /\ f.target = plan.target
          /\ f.cycle = CycleOf(plan) /\ f.units = DueUnits(f.cycle)
          /\ f.rounds = DueRounds(f.cycle)
      BY DEF Derived
    <3>3. f.kind = "advance" => f.units = {}
      BY <2>1 DEF Admit, CanAdmit, Derivable
    <3>4. fences' = fences \cup {f}
      BY <2>1 DEF Admit
    <3> QED
      BY <3>1, <3>2, <3>3, <3>4, DueSlots DEF Shape, FenceShape
  <2>2. ASSUME fences' = fences PROVE FenceShape'
    BY <2>2 DEF Shape, FenceShape
  <2> QED
    BY <2>1, <2>2, StepCases
       DEF CommitWork, CommitClockAdvance, AbortFence, Retry, Seed,
           DeclareRound, Quiet, journal
<1>3. CadenceShape'
  <2>1. ASSUME NEW w \in Worker, CommitClockAdvance(w) PROVE CadenceShape'
    BY <2>1, EvaluateCadence
       DEF CommitClockAdvance, Shape, CadenceShape, TypeOK
  <2>2. ASSUME trig' = trig PROVE CadenceShape'
    BY <2>2 DEF Shape, CadenceShape
  <2> QED
    BY <2>1, <2>2, StepCases
       DEF Admit, CommitWork, AbortFence, Retry, Seed, DeclareRound, Quiet,
           schedule
<1> QED
  BY <1>1, <1>2, <1>3 DEF Shape

LEMMA OpenCutInit == Init => OpenCut
BY DEF Init, OpenCut, Idle

LEMMA OpenCutStep == TypeOK /\ OpenCut /\ [Next]_vars => OpenCut'
<1> SUFFICES ASSUME TypeOK, OpenCut, [Next]_vars PROVE OpenCut'
  OBVIOUS
<1>1. ASSUME NEW w \in Worker, NEW a \in 0..MaxAttempt, Admit(w, a)
      PROVE  OpenCut'
  BY <1>1 DEF Admit, CanAdmit, Admissible, OpenCut, InFlight
<1>2. ASSUME NEW w \in Worker, CommitWork(w) \/ CommitClockAdvance(w)
      PROVE  OpenCut'
  BY <1>2 DEF CommitWork, CommitClockAdvance, OpenCut, Idle
<1>3. ASSUME NEW w \in Worker, NEW f, CanAbort(f), AbortFence(w, f)
      PROVE  OpenCut'
  BY <1>3 DEF CanAbort, AbortFence, OpenCut, InFlight, Halted
<1>4. ASSUME NEW f \in aborts, Retry(f) PROVE OpenCut'
  BY <1>4 DEF Retry, OpenCut, Halted, Authorized
<1>5. ASSUME UNCHANGED <<clk, fences, control>> PROVE OpenCut'
  BY <1>5 DEF OpenCut
<1> QED
  BY <1>1, <1>2, <1>3, <1>4, <1>5, StepCases
     DEF Seed, DeclareRound, Quiet, journal

--------------------------------------------------------------------------------
(* Nothing pending is left behind by the clock.                            *)

\* The order on coordinates, as arithmetic.
LEMMA FloorOrder ==
    ASSUME NEW c \in ClockState, NEW p \in Coordinate
    PROVE  NotAfter(Floor(c), p) <=>
              \/ c.instant < p.instant
              \/ c.instant = p.instant /\ c.last + 1 <= p.ordinal
BY DEF ClockState, Coordinate, NotAfter, Precedes, Floor

LEMMA CoordinateOrder ==
    ASSUME NEW p \in Coordinate, NEW q \in Coordinate
    PROVE  NotAfter(p, q) <=>
              \/ p.instant < q.instant
              \/ p.instant = q.instant /\ p.ordinal <= q.ordinal
BY DEF Coordinate, NotAfter, Precedes

\* Before the first commit the clock is where BootstrapClock left it.
GenesisClock == clk.revision = 0 => clk.last = -1

LEMMA GenesisClockStep == TypeOK /\ GenesisClock /\ [Next]_vars => GenesisClock'
<1> SUFFICES ASSUME TypeOK, GenesisClock, [Next]_vars PROVE GenesisClock'
  OBVIOUS
<1>1. ASSUME NEW w \in Worker, CommitWork(w) \/ CommitClockAdvance(w)
      PROVE  GenesisClock'
  BY <1>1 DEF CommitWork, CommitClockAdvance, ApplyWork, ApplyAdvance,
              GenesisClock, TypeOK, ClockState
<1>2. ASSUME clk' = clk PROVE GenesisClock'
  BY <1>2 DEF GenesisClock
<1> QED
  BY <1>1, <1>2, StepCases
     DEF Admit, AbortFence, Retry, Seed, DeclareRound, Quiet

\* A cadence that is pending after an evaluation at now lies at now or later.
LEMMA EvaluateAhead ==
    ASSUME NEW t \in Trigger, NEW r \in Runtime, NEW now \in Int, NEW revision,
           r.hasNext => Definition[t].policy = "repeat",
           CadencePending(Evaluated(t, r, now, revision))
    PROVE  Evaluated(t, r, now, revision).next >= now
<1> DEFINE d == Definition[t]
<1>1. d \in TriggerDefinition /\ d.every \in Nat
  BY DefinitionAssumption DEF TriggerDefinition
<1>2. CASE Beats(d, r, now)
  BY <1>1, <1>2 DEF Evaluated, Evaluate
<1>3. CASE ~Beats(d, r, now)
  <2>1. r.hasNext /\ Predicate(d, now) /\ d.policy = "repeat"
    BY <1>3 DEF CadencePending, Evaluated, Evaluate
  <2>2. ~(now >= r.next)
    BY <1>3, <2>1 DEF Beats, Fires
  <2> QED
    BY <1>3, <2>2 DEF Evaluated, Evaluate, Runtime
<1> QED
  BY <1>2, <1>3

LEMMA StaleInit == Init => NothingStale
<1> SUFFICES ASSUME Init, NEW p \in Pending
             PROVE  NotAfter(Floor(clk), p)
  BY DEF NothingStale
<1>1. TypeOK
  BY TypeInit
<1>2. p \in Coordinate
  BY <1>1, PendingType
<1>3. p.instant >= Start
  <2>1. \A o \in occs : o.at.instant >= Start
    BY GenesisAssumption DEF Init
  <2>2. \A a \in acts : a.at.instant >= Start
    BY BoundsAssumption DEF Init
  <2>3. PendingRounds = {}
    BY DEF Init, PendingRounds
  <2>4. ASSUME NEW t \in Cadences PROVE trig[t].next >= Start
    <3>1. Unevaluated \in Runtime /\ ~Unevaluated.hasNext
      BY DEF Unevaluated, Runtime
    <3>2. trig[t] = Evaluated(t, Unevaluated, Start, 0)
      BY DEF Init, Cadences
    <3> QED
      BY <3>1, <3>2, EvaluateAhead, BoundsAssumption DEF Cadences
  <2> QED
    BY <2>1, <2>2, <2>3, <2>4 DEF Pending, PendingOccs, PendingActs
<1>4. clk.instant = Start /\ clk.last = -1
  BY DEF Init
<1>5. clk \in ClockState /\ p.ordinal \in Nat /\ p.instant \in Int
  BY <1>1, <1>2 DEF TypeOK, Coordinate
<1> QED
  BY <1>2, <1>3, <1>4, <1>5, FloorOrder, BoundsAssumption

\* A committed WORK cycle settles everything due at it, so what is pending
\* afterwards lies after it.
LEMMA StaleWork ==
    ASSUME TypeOK, TypeOK', Shape, OpenCut, NothingStale,
           NEW w \in Worker, CommitWork(w)
    PROVE  NothingStale'
<1> DEFINE f == job[w].fence
           n == f.cycle.ordinal
<1>1. /\ f \in fences /\ f \in Fence
      /\ f.kind = "work" /\ control = InFlight(f)
      /\ CohortIsDue(f) /\ SuccessorsInFuture(f)
  BY DEF CommitWork, CanCommitWork, CanPublish, TypeOK
<1>2. f.cycle \in Coordinate /\ f.cycle.instant = clk.instant
  BY <1>1 DEF OpenCut, InFlight, Fence
<1>3. /\ clk' = ApplyWork(clk, n)
      /\ occs' = occs \cup {Successor(o) : o \in Deferred(f)}
      /\ commits' = commits \cup {f}
      /\ UNCHANGED <<acts, trig, opened>>
  BY DEF CommitWork, ledger
<1> HIDE DEF f
<1>4. \A u : Settled(u) => Settled(u)'
  BY <1>3 DEF Settled
<1>5. \A u \in f.units : Settled(u)'
  BY <1>3 DEF Settled
<1>6. (Pending \subseteq Coordinate)'
  BY PendingType, PTL
<1>7. ASSUME NEW p \in Pending'
      PROVE  \/ clk.instant < p.instant
             \/ clk.instant = p.instant /\ n < p.ordinal
  <2>1. p \in Coordinate
    BY <1>6
  <2> SUFFICES ASSUME NotAfter(p, f.cycle) PROVE p.instant > clk.instant
    BY <1>2, <2>1 DEF NotAfter, Precedes, Coordinate
  <2>2. CASE \E o \in PendingOccs' : p = o.at
    <3>1. PICK o \in PendingOccs' : p = o.at
      BY <2>2
    <3>2. CASE o \in occs
      <4>1. o \in DueOccs(f.cycle)
        BY <1>4, <3>1, <3>2 DEF PendingOccs, DueOccs
      <4> QED
        BY <1>1, <1>5, <3>1, <4>1 DEF CohortIsDue, PendingOccs
    <3>3. CASE o \notin occs
      BY <1>1, <1>2, <1>3, <3>1, <3>3
         DEF PendingOccs, SuccessorsInFuture, Successor
    <3> QED
      BY <3>2, <3>3
  <2>3. CASE \E a \in PendingActs' : p = a.at
    <3>1. PICK a \in PendingActs' : p = a.at
      BY <2>3
    <3>2. a \in DueActs(f.cycle)
      BY <1>3, <1>4, <3>1 DEF PendingActs, DueActs
    <3> QED
      BY <1>1, <1>5, <3>1, <3>2 DEF CohortIsDue, PendingActs
  <2>4. CASE \E r \in PendingRounds' : p = opened'[r]
    <3>1. PICK r \in PendingRounds' : p = opened'[r]
      BY <2>4
    <3>2. r \in DueRounds(f.cycle)
      BY <1>3, <1>4, <3>1 DEF PendingRounds, DueRounds
    <3>3. r \in f.rounds
      BY <1>1, <3>2 DEF CohortIsDue
    <3> QED
      BY <1>1, <1>5, <3>1, <3>3 DEF Shape, FenceShape, PendingRounds
  <2>5. CASE \E t \in Cadences' : p = At(trig'[t].next, 0)
    BY <1>1, <1>3, <2>5 DEF CohortIsDue, Cadences, NotAfter
  <2> QED
    BY <2>2, <2>3, <2>4, <2>5 DEF Pending
<1>8. clk'.instant = clk.instant /\ clk'.last = n /\ n \in Nat
  BY <1>2, <1>3 DEF ApplyWork, Coordinate
<1>9. clk' \in ClockState
  BY DEF TypeOK
<1> HIDE DEF n
<1>10. \A p \in Pending' : NotAfter(Floor(clk'), p)
  BY <1>7, <1>8, <1>6, <1>9, FloorOrder DEF Coordinate
<1> QED
  BY <1>10 DEF NothingStale

\* An advance goes to the smallest pending coordinate, and the activations
\* and cadences it makes lie at its destination or later.
LEMMA StaleAdvance ==
    ASSUME TypeOK, TypeOK', Shape, NothingStale,
           NEW w \in Worker, CommitClockAdvance(w)
    PROVE  NothingStale'
<1> DEFINE f  == job[w].fence
           to == f.target.instant
<1>1. f \in Fence /\ f.target \in Coordinate /\ StillSelected(f)
  BY DEF CommitClockAdvance, CanCommitAdvance, CanPublish, TypeOK, Fence
<1>2. /\ clk' = ApplyAdvance(clk, to)
      /\ trig' = [t \in Trigger |->
                     Evaluated(t, trig[t], to, clk.revision + 1)]
      /\ \A a \in acts' : a \in acts \/ a.at = At(to, 0)
      /\ commits' = commits \cup {f}
      /\ UNCHANGED <<occs, opened>>
  BY DEF CommitClockAdvance, ledger
<1> HIDE DEF f
<1>3. \A u : Settled(u) => Settled(u)'
  BY <1>2 DEF Settled
<1>4. \A p \in Pending : p.instant >= to
  BY <1>1, PendingType, CoordinateOrder
     DEF StillSelected, Picks, Smallest, TypeOK, Coordinate
<1>5. ASSUME NEW p \in Pending' PROVE p.instant >= to
  <2>1. CASE \E o \in PendingOccs' : p = o.at
    BY <1>2, <1>3, <1>4, <2>1 DEF PendingOccs, Pending
  <2>2. CASE \E a \in PendingActs' : p = a.at
    <3>1. PICK a \in PendingActs' : p = a.at
      BY <2>2
    <3>2. CASE a \in acts
      BY <1>3, <1>4, <3>1, <3>2 DEF PendingActs, Pending
    <3>3. CASE a \notin acts
      BY <1>1, <1>2, <3>1, <3>3 DEF PendingActs, Coordinate
    <3> QED
      BY <3>2, <3>3
  <2>3. CASE \E r \in PendingRounds' : p = opened'[r]
    BY <1>2, <1>3, <1>4, <2>3 DEF PendingRounds, Pending
  <2>4. CASE \E t \in Cadences' : p = At(trig'[t].next, 0)
    <3>1. PICK t \in Cadences' : p = At(trig'[t].next, 0)
      BY <2>4
    <3>2. t \in Trigger /\ CadencePending(trig'[t])
      BY <3>1 DEF Cadences
    <3>3. trig'[t] = Evaluated(t, trig[t], to, clk.revision + 1)
      BY <1>2, <3>2
    <3>4. trig[t] \in Runtime /\ to \in Int
      BY <1>1, <3>2 DEF TypeOK, Coordinate
    <3>5. trig[t].hasNext => Definition[t].policy = "repeat"
      BY <3>2 DEF Shape, CadenceShape
    <3>6. trig'[t].next >= to
      BY <3>2, <3>3, <3>4, <3>5, EvaluateAhead
    <3> QED
      BY <3>1, <3>6
  <2> QED
    BY <2>1, <2>2, <2>3, <2>4 DEF Pending
<1>6. clk'.instant = to /\ clk'.last = -1 /\ clk' \in ClockState
  BY <1>2 DEF ApplyAdvance, TypeOK
<1>7. (Pending \subseteq Coordinate)'
  BY PendingType, PTL
<1> HIDE DEF to
<1>8. \A p \in Pending' : NotAfter(Floor(clk'), p)
  BY <1>5, <1>6, <1>7, FloorOrder DEF Coordinate, ClockState
<1> QED
  BY <1>8 DEF NothingStale

LEMMA StaleStep ==
    TypeOK /\ TypeOK' /\ Shape /\ OpenCut /\ GenesisClock /\ NothingStale
      /\ [Next]_vars => NothingStale'
<1> SUFFICES ASSUME TypeOK, TypeOK', Shape, OpenCut, GenesisClock,
                    NothingStale, [Next]_vars
             PROVE  NothingStale'
  OBVIOUS
<1>1. ASSUME NEW o \in Genesis, Seed(o) PROVE NothingStale'
  <2>1. /\ clk.last = -1 /\ o.at.instant >= clk.instant
        /\ occs' = occs \cup {o}
        /\ UNCHANGED <<clk, acts, trig, opened, commits>>
    BY <1>1 DEF Seed, GenesisClock, ledger, journal
  <2>2. /\ o.at \in Coordinate /\ o.at.ordinal \in Nat
        /\ o.at.instant \in Int /\ clk.instant \in Int /\ clk \in ClockState
    BY GenesisAssumption DEF Occurrence, Coordinate, TypeOK, ClockState
  <2>3. NotAfter(Floor(clk), o.at)
    BY <2>1, <2>2, FloorOrder
  <2>4. \A p \in Pending' : p \in Pending \/ p = o.at
    BY <2>1 DEF Pending, PendingOccs, PendingActs, PendingRounds, Cadences,
                Settled
  <2> QED
    BY <2>1, <2>3, <2>4 DEF NothingStale
<1>2. ASSUME NEW r \in Round, NEW c \in Openings, DeclareRound(r, c)
      PROVE  NothingStale'
  <2>1. /\ NotAfter(Floor(clk), c)
        /\ opened' = [opened EXCEPT ![r] = c]
        /\ UNCHANGED <<clk, occs, acts, trig, commits>>
    BY <1>2 DEF DeclareRound, AboveFloor, schedule, journal
  <2>2. \A p \in Pending' : p \in Pending \/ p = c
    BY <2>1 DEF Pending, PendingOccs, PendingActs, PendingRounds, Cadences,
                Settled, TypeOK
  <2> QED
    BY <2>1, <2>2 DEF NothingStale
<1>3. ASSUME UNCHANGED <<clk, occs, acts, trig, opened, commits>>
      PROVE  NothingStale'
  BY <1>3 DEF NothingStale, Pending, PendingOccs, PendingActs, PendingRounds,
              Cadences, Settled
<1> QED
  BY <1>1, <1>2, <1>3, StaleWork, StaleAdvance, StepCases
     DEF Admit, AbortFence, Retry, Quiet, schedule, ledger, journal

\* Whatever the workers interleave, seed and declare, nothing pending is ever
\* before the clock's floor: clock.Next never answers ErrStalePending.
THEOREM NothingIsStale == Spec => []NothingStale
<1>1. Init => GenesisClock
  BY DEF Init, GenesisClock
<1> QED
  BY <1>1, TypeInit, TypeStep, ShapeInit, ShapeStep, OpenCutInit, OpenCutStep,
     GenesisClockStep, StaleInit, StaleStep, PTL DEF Spec

--------------------------------------------------------------------------------
(* No unit is settled twice.                                               *)

\* What the open cut seals is not settled yet, and rounds are settled whole.
CutIsFresh ==
    control.status # "idle" => \A u \in control.fence.units : ~Settled(u)

LEMMA SettledOnceInit == Init => SettledOnce /\ CutIsFresh
BY DEF Init, SettledOnce, CutIsFresh, Idle

\* The units a cycle would admit are not settled: a round is settled whole.
LEMMA DueIsFresh ==
    ASSUME TypeOK, FenceShape, NEW c, NEW u \in DueUnits(c)
    PROVE  ~Settled(u)
<1>1. CASE \E o \in DueOccs(c) : u = OccUnit(o)
  BY <1>1 DEF DueOccs, PendingOccs
<1>2. CASE \E a \in DueActs(c) : u = ActUnit(a)
  BY <1>2 DEF DueActs, PendingActs
<1>3. CASE \E r \in DueRounds(c), s \in Slot : u = SlotUnit(r, s)
  BY <1>3 DEF DueRounds, PendingRounds, Settled, FenceShape, TypeOK
<1> QED
  BY <1>1, <1>2, <1>3 DEF DueUnits

LEMMA SettledOnceStep ==
    TypeOK /\ Shape /\ SettledOnce /\ CutIsFresh /\ [Next]_vars =>
        SettledOnce' /\ CutIsFresh'
<1> SUFFICES ASSUME TypeOK, Shape, SettledOnce, CutIsFresh, [Next]_vars
             PROVE  SettledOnce' /\ CutIsFresh'
  OBVIOUS
<1>1. ASSUME NEW w \in Worker, NEW a \in 0..MaxAttempt, Admit(w, a)
      PROVE  SettledOnce' /\ CutIsFresh'
  <2> DEFINE f == Derived(job[w].plan, job[w].clk.revision, a)
  <2>1. commits' = commits /\ control' = InFlight(f)
    BY <1>1 DEF Admit
  <2>2. \A u \in f.units : ~Settled(u)
    BY DueIsFresh DEF Derived, Shape
  <2> HIDE DEF f
  <2> QED
    BY <2>1, <2>2 DEF SettledOnce, CutIsFresh, Settled, InFlight
<1>2. ASSUME NEW w \in Worker, CommitWork(w) \/ CommitClockAdvance(w)
      PROVE  SettledOnce' /\ CutIsFresh'
  <2> DEFINE f == job[w].fence
  <2>1. /\ commits' = commits \cup {f} /\ control' = Idle
        /\ control = InFlight(f)
    BY <1>2 DEF CommitWork, CommitClockAdvance, CanCommitWork,
                CanCommitAdvance, CanPublish
  <2>2. \A u \in f.units : ~Settled(u)
    BY <2>1 DEF CutIsFresh, InFlight
  <2> HIDE DEF f
  <2>3. \A g \in commits : f.units \cap g.units = {}
    BY <2>2 DEF Settled
  <2> QED
    BY <2>1, <2>3 DEF SettledOnce, CutIsFresh, Idle
<1>3. ASSUME NEW w \in Worker, NEW f, CanAbort(f), AbortFence(w, f)
      PROVE  SettledOnce' /\ CutIsFresh'
  BY <1>3 DEF CanAbort, AbortFence, SettledOnce, CutIsFresh, Settled, InFlight,
              Halted
<1>4. ASSUME NEW f \in aborts, Retry(f) PROVE SettledOnce' /\ CutIsFresh'
  BY <1>4 DEF Retry, SettledOnce, CutIsFresh, Settled, Halted, Authorized
<1>5. ASSUME UNCHANGED <<commits, control>> PROVE SettledOnce' /\ CutIsFresh'
  BY <1>5 DEF SettledOnce, CutIsFresh, Settled
<1> QED
  BY <1>1, <1>2, <1>3, <1>4, <1>5, StepCases
     DEF Seed, DeclareRound, Quiet, journal

\* No occurrence, activation or slot is settled by two cycles, whatever the
\* workers, aborts and retries interleave.
THEOREM NothingSettledTwice == Spec => []SettledOnce
BY TypeInit, TypeStep, ShapeInit, ShapeStep, SettledOnceInit, SettledOnceStep,
   PTL DEF Spec

--------------------------------------------------------------------------------
(* The commits form one chain.                                             *)

\* Every commit lies behind the clock.
BehindClock ==
    \A f \in commits :
        /\ f.base < clk.revision
        /\ Precedes(f.cycle, Floor(clk))
        /\ f.kind = "advance" => f.target.instant <= clk.instant

\* The chain, part by part.
OnePerRevision ==
    /\ {f.base : f \in commits} = 0 .. clk.revision - 1
    /\ \A f, g \in commits : f.base = g.base => f = g

Ordered ==
    \A f, g \in commits : f.base < g.base =>
        /\ Precedes(f.cycle, g.cycle)
        /\ f.kind = "advance" => g.cycle.instant >= f.target.instant

ClockAtLast ==
    \A f \in commits : f.base + 1 = clk.revision =>
        IF f.kind = "work"
        THEN clk.instant = f.cycle.instant /\ clk.last = f.cycle.ordinal
        ELSE clk.instant = f.target.instant /\ clk.last = -1

Linear == BehindClock /\ OnePerRevision /\ Ordered /\ ClockAtLast

LEMMA LinearInit == Init => Linear
BY DEF Init, Linear, BehindClock, OnePerRevision, Ordered, ClockAtLast

\* What both publications do to the chain and to the clock.
LEMMA Publication ==
    ASSUME TypeOK, Shape, OpenCut, NEW w \in Worker,
           CommitWork(w) \/ CommitClockAdvance(w)
    PROVE  LET f == job[w].fence IN
           /\ f \in Fence /\ f \in fences /\ control = InFlight(f)
           /\ commits' = commits \cup {f} /\ control' = Idle
           /\ UNCHANGED <<fences, aborts, retries>>
           /\ f.base = clk.revision /\ f.cycle.instant = clk.instant
           /\ f.cycle.ordinal > clk.last
           /\ clk'.revision = clk.revision + 1
           /\ \/ /\ f.kind = "work"
                 /\ clk'.instant = clk.instant /\ clk'.last = f.cycle.ordinal
              \/ /\ f.kind = "advance" /\ f.target.instant > clk.instant
                 /\ clk'.instant = f.target.instant /\ clk'.last = -1
<1> DEFINE f == job[w].fence
<1>1. /\ f \in fences /\ control = InFlight(f)
      /\ commits' = commits \cup {f} /\ control' = Idle
      /\ UNCHANGED <<fences, aborts, retries>>
  BY DEF CommitWork, CommitClockAdvance, CanCommitWork, CanCommitAdvance,
         CanPublish
<1>2. f \in Fence
  BY <1>1 DEF TypeOK
<1>3. /\ f.base = clk.revision /\ f.cycle.instant = clk.instant
      /\ f.cycle.ordinal > clk.last
  BY <1>1 DEF OpenCut, InFlight
<1>4. /\ clk'.revision = clk.revision + 1
      /\ \/ /\ f.kind = "work"
            /\ clk'.instant = clk.instant /\ clk'.last = f.cycle.ordinal
         \/ /\ f.kind = "advance" /\ f.target.instant > clk.instant
            /\ clk'.instant = f.target.instant /\ clk'.last = -1
  BY DEF CommitWork, CommitClockAdvance, CanCommitWork, CanCommitAdvance,
         ApplyWork, ApplyAdvance
<1> QED
  BY <1>1, <1>2, <1>3, <1>4

LEMMA LinearPublication ==
    ASSUME TypeOK, TypeOK', Shape, OpenCut, Linear, NEW w \in Worker,
           CommitWork(w) \/ CommitClockAdvance(w)
    PROVE  Linear'
<1> DEFINE f == job[w].fence
<1>1. /\ f \in Fence
      /\ commits' = commits \cup {f}
      /\ f.base = clk.revision /\ f.cycle.instant = clk.instant
      /\ f.cycle.ordinal > clk.last
      /\ clk'.revision = clk.revision + 1
      /\ \/ /\ f.kind = "work"
            /\ clk'.instant = clk.instant /\ clk'.last = f.cycle.ordinal
         \/ /\ f.kind = "advance" /\ f.target.instant > clk.instant
            /\ clk'.instant = f.target.instant /\ clk'.last = -1
  BY Publication
<1> HIDE DEF f
<1>2. /\ clk.instant \in Int /\ clk.revision \in Nat
      /\ clk.last \in Nat \cup {-1}
      /\ clk'.instant \in Int /\ clk'.last \in Nat \cup {-1}
  BY DEF TypeOK, ClockState
<1>3. \A g \in commits \cup {f} :
         /\ g.cycle.instant \in Int /\ g.cycle.ordinal \in Nat
         /\ g.target.instant \in Int /\ g.base \in Nat
         /\ g.kind \in {"work", "advance"}
  BY <1>1 DEF TypeOK, Fence, Coordinate
<1>4. \A g \in commits :
         /\ g.base < clk.revision
         /\ Precedes(g.cycle, f.cycle)
         /\ g.kind = "advance" => g.target.instant <= f.cycle.instant
  BY <1>1, <1>2, <1>3 DEF Linear, BehindClock, Precedes, Floor
<1>5. BehindClock'
  BY <1>1, <1>2, <1>3 DEF Linear, BehindClock, Precedes, Floor
<1>6. OnePerRevision'
  <2>1. {g.base : g \in commits'} = {g.base : g \in commits} \cup {f.base}
    BY <1>1
  <2>2. {g.base : g \in commits'} = 0 .. clk'.revision - 1
    BY <1>1, <1>2, <2>1 DEF Linear, OnePerRevision
  <2>3. \A g, h \in commits' : g.base = h.base => g = h
    BY <1>1, <1>2, <1>3, <1>4 DEF Linear, OnePerRevision
  <2> QED
    BY <2>2, <2>3 DEF OnePerRevision
<1>7. Ordered'
  BY <1>1, <1>2, <1>3, <1>4 DEF Linear, Ordered
<1>8. ClockAtLast'
  BY <1>1, <1>2, <1>3, <1>4 DEF ClockAtLast
<1> QED
  BY <1>5, <1>6, <1>7, <1>8 DEF Linear

LEMMA LinearStep ==
    TypeOK /\ TypeOK' /\ Shape /\ OpenCut /\ Linear /\ [Next]_vars => Linear'
<1> SUFFICES ASSUME TypeOK, TypeOK', Shape, OpenCut, Linear, [Next]_vars
             PROVE  Linear'
  OBVIOUS
<1>1. ASSUME UNCHANGED <<clk, commits>> PROVE Linear'
  BY <1>1
     DEF Linear, BehindClock, OnePerRevision, Ordered, ClockAtLast, Floor
<1> QED
  BY <1>1, LinearPublication, StepCases
     DEF Admit, AbortFence, Retry, Seed, DeclareRound, Quiet, journal

\* The committed cycles are one chain, one per revision and strictly forward in
\* time, and the clock is where the last of them left it.
THEOREM OneChain == Spec => []JournalIsLinear
<1>1. Linear => JournalIsLinear
  BY DEF Linear, OnePerRevision, Ordered, ClockAtLast, JournalIsLinear
<1> QED
  BY <1>1, TypeInit, TypeStep, ShapeInit, ShapeStep, OpenCutInit, OpenCutStep,
     LinearInit, LinearStep, PTL DEF Spec

--------------------------------------------------------------------------------
(* cycle_control is the fold of the journal.                               *)

\* No fence is ahead of the clock.
FencesBehind == \A f \in fences : f.base <= clk.revision

Fold == FencesBehind /\ ControlIsFold

\* The last attempt of the open cycle, and what control says of it.
IsTip(f) ==
    /\ f \in Open
    /\ \A g \in Open : g.attempt <= f.attempt /\ SameCut(f, g)
    /\ f \notin commits
    /\ control = IF f \in retries THEN Authorized(f)
                 ELSE IF f \in aborts THEN Halted(f) ELSE InFlight(f)

\* Control states of different status differ, and a state names its fence.
LEMMA ControlStates ==
    ASSUME NEW f, NEW g
    PROVE  /\ InFlight(f).status = "inflight" /\ InFlight(f).fence = f
           /\ Halted(f).status = "halted" /\ Halted(f).fence = f
           /\ Authorized(f).status = "authorized" /\ Authorized(f).fence = f
           /\ Authorized(f).next = f.attempt + 1
           /\ Idle.status = "idle"
           /\ InFlight(f) = InFlight(g) => f = g
           /\ Halted(f) = Halted(g) => f = g
BY DEF InFlight, Halted, Authorized, Idle

\* While a cycle is open, control names its last attempt.
LEMMA TipOfFold ==
    ASSUME ControlIsFold, control.status # "idle"
    PROVE  IsTip(control.fence)
<1>1. Open # {}
  BY ControlStates DEF ControlIsFold
<1>2. PICK f \in Open : IsTip(f)
  BY <1>1 DEF ControlIsFold, IsTip
<1>3. control.fence = f
  BY <1>2, ControlStates DEF IsTip
<1> QED
  BY <1>2, <1>3

LEMMA NoneOpenWhenIdle ==
    ASSUME ControlIsFold, control.status = "idle"
    PROVE  Open = {}
BY ControlStates DEF ControlIsFold

LEMMA FoldInit == Init => Fold
BY DEF Init, Fold, FencesBehind, ControlIsFold, Open

\* The three ways in which a fence is admitted.
LEMMA AdmitCases ==
    ASSUME TypeOK, BehindClock, ControlIsFold,
           NEW w \in Worker, NEW a \in 0..MaxAttempt, Admit(w, a)
    PROVE  \E f \in Fence :
              /\ f = Derived(job[w].plan, job[w].clk.revision, a)
              /\ fences' = fences \cup {f} /\ control' = InFlight(f)
              /\ UNCHANGED <<clk, schedule, ledger, commits, aborts, retries>>
              /\ f.base = clk.revision /\ f.cycle.instant = clk.instant
              /\ f \notin commits
              /\ \/ control.status = "idle" /\ f.attempt = 0 /\ f \notin fences
                 \/ control = InFlight(f) /\ f \in fences
                 \/ /\ control.status = "authorized" /\ f \notin fences
                    /\ f.attempt = control.fence.attempt + 1
                    /\ SameCut(f, control.fence)
                    /\ control.fence \in retries
<1> DEFINE f == Derived(job[w].plan, job[w].clk.revision, a)
<1>1. job[w].clk \in ClockState /\ job[w].plan \in CyclePlan
  BY JobByStep DEF TypeOK, Admit
<1>2. f \in Fence
  BY <1>1, DerivedType DEF ClockState
<1>3. /\ fences' = fences \cup {f} /\ control' = InFlight(f)
      /\ UNCHANGED <<clk, schedule, ledger, commits, aborts, retries>>
      /\ Admissible(f)
  BY DEF Admit, CanAdmit
<1> HIDE DEF f
<1>4. f.base = clk.revision /\ f.cycle.instant = clk.instant
  BY <1>3 DEF Admissible
<1>5. f \notin commits
  BY <1>2, <1>4 DEF BehindClock, TypeOK, ClockState
<1>6. f \in fences => f \in Open
  BY <1>4 DEF Open
<1>7. CASE control.status = "idle" /\ f.attempt = 0
  BY <1>2, <1>3, <1>4, <1>5, <1>6, <1>7, NoneOpenWhenIdle DEF f
<1>8. CASE control = InFlight(f)
  <2>1. f \in fences
    BY <1>8, TipOfFold, ControlStates DEF IsTip, Open
  <2> QED
    BY <1>2, <1>3, <1>4, <1>5, <1>8, <2>1 DEF f
<1>9. CASE /\ control.status = "authorized" /\ f.attempt = control.next
           /\ SameCut(f, control.fence)
  <2> DEFINE tip == control.fence
  <2>1. IsTip(tip)
    BY <1>9, TipOfFold
  <2>2. tip \in retries /\ control = Authorized(tip)
    BY <1>9, <2>1, ControlStates DEF IsTip
  <2>3. f.attempt = tip.attempt + 1
    BY <1>9, <2>2, ControlStates
  <2>4. f \notin Open
    BY <1>2, <2>1, <2>3 DEF IsTip, Open, TypeOK, Fence
  <2> QED
    BY <1>2, <1>3, <1>4, <1>5, <1>6, <1>9, <2>2, <2>3, <2>4 DEF f
<1> QED
  BY <1>3, <1>7, <1>8, <1>9 DEF Admissible, ControlAdmits

LEMMA FoldStep ==
    TypeOK /\ Shape /\ OpenCut /\ BehindClock /\ Fold /\ [Next]_vars => Fold'
<1> SUFFICES ASSUME TypeOK, Shape, OpenCut, BehindClock, Fold, [Next]_vars
             PROVE  Fold'
  OBVIOUS
<1>0. ControlIsFold /\ FencesBehind
  BY DEF Fold
<1>1. ASSUME NEW w \in Worker, NEW a \in 0..MaxAttempt, Admit(w, a)
      PROVE  Fold'
  <2>1. PICK f \in Fence :
              /\ fences' = fences \cup {f} /\ control' = InFlight(f)
              /\ UNCHANGED <<clk, commits, aborts, retries>>
              /\ f.base = clk.revision /\ f \notin commits
              /\ \/ control.status = "idle" /\ f \notin fences
                 \/ control = InFlight(f) /\ f \in fences
                 \/ /\ control.status = "authorized" /\ f \notin fences
                    /\ f.attempt = control.fence.attempt + 1
                    /\ SameCut(f, control.fence)
    BY <1>0, <1>1, AdmitCases
  <2>2. FencesBehind'
    BY <1>0, <2>1 DEF FencesBehind, TypeOK, ClockState
  <2>3. Open' = Open \cup {f}
    BY <2>1 DEF Open
  <2>4. CASE control = InFlight(f) /\ f \in fences
    BY <1>0, <2>1, <2>2, <2>4 DEF Fold, ControlIsFold, Open
  <2>5. CASE f \notin fences /\ \A g \in Open : /\ g.attempt <= f.attempt
                                               /\ SameCut(f, g)
    <3>1. f \notin aborts /\ f \notin retries
      BY <2>5 DEF TypeOK
    <3>2. /\ f \in Open' /\ f \notin commits'
          /\ \A g \in Open' : g.attempt <= f.attempt /\ SameCut(f, g)
      BY <2>1, <2>3, <2>5 DEF SameCut, Fence
    <3> QED
      BY <2>1, <2>2, <3>1, <3>2 DEF Fold, ControlIsFold
  <2>6. CASE control.status = "idle" /\ f \notin fences
    BY <1>0, <2>5, <2>6, NoneOpenWhenIdle
  <2>7. CASE /\ control.status = "authorized" /\ f \notin fences
             /\ f.attempt = control.fence.attempt + 1
             /\ SameCut(f, control.fence)
    <3>1. IsTip(control.fence)
      BY <1>0, <2>7, TipOfFold
    <3>2. control.fence \in Fence /\ Open \subseteq Fence
      BY <3>1 DEF IsTip, Open, TypeOK
    <3>3. \A g \in Open : g.attempt <= f.attempt /\ SameCut(f, g)
      BY <2>7, <3>1, <3>2 DEF IsTip, SameCut, Fence
    <3> QED
      BY <2>5, <2>7, <3>3
  <2> QED
    BY <2>1, <2>4, <2>6, <2>7
<1>2. ASSUME NEW w \in Worker, CommitWork(w) \/ CommitClockAdvance(w)
      PROVE  Fold'
  <2>1. /\ fences' = fences /\ control' = Idle
        /\ clk'.revision = clk.revision + 1
    BY <1>2, Publication
  <2>2. \A f \in fences : f.base < clk'.revision
    BY <1>0, <2>1 DEF FencesBehind, TypeOK, ClockState, Fence
  <2>3. Open' = {}
    BY <2>1, <2>2 DEF Open, TypeOK, ClockState, Fence
  <2>4. FencesBehind'
    BY <1>0, <2>1 DEF FencesBehind, TypeOK, ClockState, Fence
  <2> QED
    BY <2>1, <2>3, <2>4 DEF Fold, ControlIsFold, Idle
<1>3. ASSUME NEW w \in Worker, NEW f, CanAbort(f), AbortFence(w, f)
      PROVE  Fold'
  <2>1. /\ control = InFlight(f) /\ control' = Halted(f)
        /\ aborts' = aborts \cup {f}
        /\ UNCHANGED <<clk, fences, commits, retries>>
    BY <1>3 DEF CanAbort, AbortFence
  <2>2. IsTip(f) /\ f \notin retries
    BY <1>0, <2>1, TipOfFold, ControlStates DEF IsTip
  <2> QED
    BY <1>0, <2>1, <2>2 DEF Fold, FencesBehind, ControlIsFold, Open, IsTip
<1>4. ASSUME NEW f \in aborts, Retry(f) PROVE Fold'
  <2>1. /\ control = Halted(f) /\ control' = Authorized(f)
        /\ retries' = retries \cup {f}
        /\ UNCHANGED <<clk, fences, commits, aborts>>
    BY <1>4 DEF Retry
  <2>2. IsTip(f)
    BY <1>0, <2>1, TipOfFold, ControlStates
  <2> QED
    BY <1>0, <2>1, <2>2 DEF Fold, FencesBehind, ControlIsFold, Open, IsTip
<1>5. ASSUME UNCHANGED <<clk, journal, control>> PROVE Fold'
  BY <1>5 DEF Fold, FencesBehind, ControlIsFold, Open, journal
<1> QED
  BY <1>1, <1>2, <1>3, <1>4, <1>5, StepCases DEF Seed, DeclareRound, Quiet

\* A restart that reads cycle_control reads what the fences, the envelopes and
\* the retry records say, at every state of every run.
THEOREM ControlFolds == Spec => []ControlIsFold
<1>1. Linear => BehindClock
  BY DEF Linear
<1>2. Fold => ControlIsFold
  BY DEF Fold
<1> QED
  BY <1>1, <1>2, TypeInit, TypeStep, ShapeInit, ShapeStep, OpenCutInit,
     OpenCutStep, LinearInit, LinearStep, FoldInit, FoldStep, PTL DEF Spec

--------------------------------------------------------------------------------
(* Attempts.                                                               *)

LEMMA AttemptsInit == Init => AttemptsFollow
BY DEF Init, AttemptsFollow

LEMMA AttemptsStep ==
    TypeOK /\ Shape /\ OpenCut /\ BehindClock /\ Fold /\ AttemptsFollow
      /\ [Next]_vars => AttemptsFollow'
<1> SUFFICES ASSUME TypeOK, Shape, OpenCut, BehindClock, Fold, AttemptsFollow,
                    [Next]_vars
             PROVE  AttemptsFollow'
  OBVIOUS
<1>0. ControlIsFold
  BY DEF Fold
<1>1. ASSUME NEW w \in Worker, NEW a \in 0..MaxAttempt, Admit(w, a)
      PROVE  AttemptsFollow'
  <2>1. PICK f \in Fence :
              /\ fences' = fences \cup {f}
              /\ UNCHANGED <<commits, aborts, retries>>
              /\ \/ f.attempt = 0
                 \/ f \in fences
                 \/ /\ f.attempt = control.fence.attempt + 1
                    /\ SameCut(f, control.fence)
                    /\ control.fence \in retries
    BY <1>0, <1>1, AdmitCases
  <2>2. retries \subseteq Fence
    BY DEF TypeOK
  <2>3. f.attempt > 0 =>
           \E g \in retries : g.attempt = f.attempt - 1 /\ SameCut(f, g)
    BY <2>1, <2>2 DEF AttemptsFollow, Fence
  <2> QED
    BY <2>1, <2>3 DEF AttemptsFollow
<1>2. ASSUME NEW w \in Worker, CommitWork(w) \/ CommitClockAdvance(w)
      PROVE  AttemptsFollow'
  <2> DEFINE f == job[w].fence
  <2>1. /\ commits' = commits \cup {f} /\ control = InFlight(f)
        /\ UNCHANGED <<fences, aborts, retries>>
    BY <1>2, Publication
  <2>2. f \notin aborts
    BY <1>0, <2>1, TipOfFold, ControlStates DEF IsTip
  <2> QED
    BY <2>1, <2>2 DEF AttemptsFollow
<1>3. ASSUME NEW w \in Worker, NEW f, CanAbort(f), AbortFence(w, f)
      PROVE  AttemptsFollow'
  BY <1>3 DEF CanAbort, AbortFence, AttemptsFollow
<1>4. ASSUME NEW f \in aborts, Retry(f) PROVE AttemptsFollow'
  BY <1>4 DEF Retry, AttemptsFollow
<1>5. ASSUME UNCHANGED journal PROVE AttemptsFollow'
  BY <1>5 DEF AttemptsFollow, journal
<1> QED
  BY <1>1, <1>2, <1>3, <1>4, <1>5, StepCases DEF Seed, DeclareRound, Quiet

\* An attempt after the first follows an authorised abort of the very same cut,
\* and no aborted attempt commits.
THEOREM AttemptsInOrder == Spec => []AttemptsFollow
<1>1. Linear => BehindClock
  BY DEF Linear
<1> QED
  BY <1>1, TypeInit, TypeStep, ShapeInit, ShapeStep, OpenCutInit, OpenCutStep,
     LinearInit, LinearStep, FoldInit, FoldStep, AttemptsInit, AttemptsStep,
     PTL DEF Spec

\* A halted run moves only by the retry record of its open fence.
LEMMA HaltStep ==
    OpenCut /\ [Next]_vars =>
        (control.status = "halted" =>
            /\ UNCHANGED <<clk, schedule, fences, commits, aborts>>
            /\ control' \in {control, Authorized(control.fence)})
<1> SUFFICES ASSUME OpenCut, [Next]_vars, control.status = "halted"
             PROVE  /\ UNCHANGED <<clk, schedule, fences, commits, aborts>>
                    /\ control' \in {control, Authorized(control.fence)}
  OBVIOUS
<1>1. \A f : control # InFlight(f)
  BY ControlStates
<1>2. ASSUME NEW w \in Worker,
             \/ (\E a \in 0..MaxAttempt : Admit(w, a))
             \/ CommitWork(w) \/ CommitClockAdvance(w)
             \/ CanAbort(job[w].fence)
      PROVE  FALSE
  BY <1>1, <1>2
     DEF Admit, CanAdmit, Admissible, ControlAdmits, CommitWork,
         CommitClockAdvance, CanCommitWork, CanCommitAdvance, CanPublish,
         CanAbort
<1>3. ASSUME NEW o \in Genesis, Seed(o) PROVE FALSE
  BY <1>3 DEF Seed, OpenCut
<1>4. ASSUME NEW f \in aborts, Retry(f)
      PROVE  /\ UNCHANGED <<clk, schedule, fences, commits, aborts>>
             /\ control' = Authorized(control.fence)
  BY <1>4, ControlStates DEF Retry
<1> QED
  BY <1>2, <1>3, <1>4, StepCases DEF DeclareRound, Quiet, journal

\* After an abort the run stands still until an operator authorises the retry.
THEOREM HaltStops == Spec => HaltHolds
BY OpenCutInit, OpenCutStep, TypeInit, TypeStep, HaltStep, PTL
   DEF Spec, HaltHolds

--------------------------------------------------------------------------------
(* The run implements the abstract journal.                                *)

\* A cut has the fields of its fence, but for the attempt.
LEMMA CutFields ==
    ASSUME NEW f \in Fence
    PROVE  /\ CutOf(f).base = f.base /\ CutOf(f).cycle = f.cycle
           /\ CutOf(f).units = f.units /\ CutOf(f).kind = f.kind
BY DEF CutOf, Fence

\* The open cycle that each control state stands for.
LEMMA OpenCycleOf ==
    ASSUME NEW f
    PROVE  /\ OpenCycle(Idle) = Journal!Closed
           /\ OpenCycle(InFlight(f)) = [phase |-> "sealed", cut |-> CutOf(f),
                                        attempt |-> f.attempt]
           /\ OpenCycle(Halted(f)) = [phase |-> "aborted", cut |-> CutOf(f),
                                      attempt |-> f.attempt]
           /\ OpenCycle(Authorized(f)) =
                 [phase |-> "authorized", cut |-> CutOf(f),
                  attempt |-> f.attempt]
BY ControlStates DEF OpenCycle, Phase, Journal!Closed

LEMMA ImplementsInit == Init => Journal!Init
BY OpenCycleOf DEF Init, Chain, Journal!Init

\* A sealed cut extends the chain.
LEMMA SealedExtends ==
    ASSUME TypeOK, Linear, NEW f \in Fence,
           f.base = clk.revision, f.cycle.instant = clk.instant,
           f.cycle.ordinal > clk.last, \A u \in f.units : ~Settled(u)
    PROVE  Journal!Extends(CutOf(f))
<1>1. \A g \in commits \cup {f} :
         /\ CutOf(g).base = g.base /\ CutOf(g).cycle = g.cycle
         /\ CutOf(g).units = g.units
         /\ g.base \in Nat /\ g.cycle.instant \in Int /\ g.cycle.ordinal \in Nat
  BY CutFields DEF TypeOK, Fence, Coordinate
<1>2. /\ clk.revision \in Nat /\ clk.instant \in Int
      /\ clk.last \in Nat \cup {-1}
  BY DEF TypeOK, ClockState
<1>3. ASSUME NEW g \in commits
      PROVE  /\ g.base < f.base /\ g.units \cap f.units = {}
             /\ Journal!Precedes(g.cycle, f.cycle)
  <2>1. g.base < clk.revision /\ Precedes(g.cycle, Floor(clk))
    BY DEF Linear, BehindClock
  <2>2. Journal!Precedes(g.cycle, f.cycle)
    BY <1>1, <1>2, <2>1 DEF Journal!Precedes, Precedes, Floor, At
  <2> QED
    BY <2>1, <2>2 DEF Settled
<1>4. f.base = 0 \/ \E g \in commits : g.base = f.base - 1
  <2>1. f.base # 0 => f.base - 1 \in 0 .. clk.revision - 1
    BY <1>2
  <2>2. f.base # 0 => f.base - 1 \in {g.base : g \in commits}
    BY <2>1 DEF Linear, OnePerRevision
  <2> QED
    BY <2>2
<1> QED
  BY <1>1, <1>3, <1>4 DEF Journal!Extends, Chain

LEMMA ImplementsStep ==
    TypeOK /\ Shape /\ OpenCut /\ Linear /\ Fold /\ [Next]_vars =>
        [Journal!Next]_<<Chain, OpenCycle(control)>>
<1> SUFFICES ASSUME TypeOK, Shape, OpenCut, Linear, Fold, [Next]_vars
             PROVE  \/ Journal!Next
                    \/ Chain' = Chain /\ OpenCycle(control') = OpenCycle(control)
  OBVIOUS
<1>0. ControlIsFold /\ BehindClock
  BY DEF Fold, Linear
<1>1. ASSUME NEW w \in Worker, NEW a \in 0..MaxAttempt, Admit(w, a)
      PROVE  \/ Journal!Next
             \/ Chain' = Chain /\ OpenCycle(control') = OpenCycle(control)
  <2>1. PICK f \in Fence :
              /\ f = Derived(job[w].plan, job[w].clk.revision, a)
              /\ control' = InFlight(f) /\ commits' = commits
              /\ f.base = clk.revision /\ f.cycle.instant = clk.instant
              /\ \/ control.status = "idle" /\ f.attempt = 0
                 \/ control = InFlight(f)
                 \/ /\ control.status = "authorized"
                    /\ f.attempt = control.fence.attempt + 1
                    /\ SameCut(f, control.fence)
    BY <1>0, <1>1, AdmitCases
  <2>2. Chain' = Chain
    BY <2>1 DEF Chain
  <2>3. CASE control.status = "idle" /\ f.attempt = 0
    <3>1. f.units = DueUnits(f.cycle)
      BY <2>1 DEF Derived
    <3>2. \A u \in f.units : ~Settled(u)
      BY <3>1, DueIsFresh DEF Shape
    <3>3. f.cycle.ordinal > clk.last
      BY <1>1, <2>1 DEF Admit, CanAdmit, Admissible
    <3>4. Journal!Extends(CutOf(f))
      BY <2>1, <3>2, <3>3, SealedExtends
    <3>5. OpenCycle(control) = Journal!Closed
      BY <2>3 DEF OpenCycle, Journal!Closed
    <3>6. OpenCycle(control') = [phase |-> "sealed", cut |-> CutOf(f),
                                 attempt |-> 0]
      BY <2>1, <2>3, OpenCycleOf
    <3> QED
      BY <2>2, <3>4, <3>5, <3>6 DEF Journal!Next, Journal!Seal
  <2>4. CASE control = InFlight(f)
    BY <2>1, <2>2, <2>4
  <2>5. CASE /\ control.status = "authorized"
             /\ f.attempt = control.fence.attempt + 1
             /\ SameCut(f, control.fence)
    <3>1. control = Authorized(control.fence)
      BY <1>0, <2>5, TipOfFold, ControlStates DEF IsTip
    <3>2. OpenCycle(control) =
             [phase |-> "authorized", cut |-> CutOf(f),
              attempt |-> control.fence.attempt]
      BY <2>5, <3>1, OpenCycleOf DEF SameCut
    <3>3. OpenCycle(control') = [phase |-> "sealed", cut |-> CutOf(f),
                                 attempt |-> control.fence.attempt + 1]
      BY <2>1, <2>5, OpenCycleOf
    <3> QED
      BY <2>2, <3>2, <3>3 DEF Journal!Next, Journal!Reseal
  <2> QED
    BY <2>1, <2>3, <2>4, <2>5
<1>2. ASSUME NEW w \in Worker, CommitWork(w) \/ CommitClockAdvance(w)
      PROVE  Journal!Next
  <2> DEFINE f == job[w].fence
  <2>1. /\ commits' = commits \cup {f} /\ control = InFlight(f)
        /\ control' = Idle
    BY <1>2, Publication
  <2> HIDE DEF f
  <2>2. OpenCycle(control) = [phase |-> "sealed", cut |-> CutOf(f),
                              attempt |-> f.attempt]
    BY <2>1, OpenCycleOf
  <2>3. OpenCycle(control') = Journal!Closed
    BY <2>1, OpenCycleOf
  <2>4. Chain' = Chain \cup {CutOf(f)}
    BY <2>1 DEF Chain
  <2> QED
    BY <2>2, <2>3, <2>4 DEF Journal!Next, Journal!Commit
<1>3. ASSUME NEW w \in Worker, NEW f, CanAbort(f), AbortFence(w, f)
      PROVE  Journal!Next
  <2>1. /\ f.kind = "work" /\ f \in Fence /\ commits' = commits
        /\ control = InFlight(f) /\ control' = Halted(f)
    BY <1>3 DEF CanAbort, AbortFence, TypeOK
  <2>2. CutOf(f).kind = "work"
    BY <2>1, CutFields
  <2>3. /\ OpenCycle(control) = [phase |-> "sealed", cut |-> CutOf(f),
                                 attempt |-> f.attempt]
        /\ OpenCycle(control') = [phase |-> "aborted", cut |-> CutOf(f),
                                  attempt |-> f.attempt]
    BY <2>1, OpenCycleOf
  <2> QED
    BY <2>1, <2>2, <2>3 DEF Chain, Journal!Next, Journal!Abort
<1>4. ASSUME NEW f \in aborts, Retry(f) PROVE Journal!Next
  <2>1. /\ commits' = commits
        /\ control = Halted(f) /\ control' = Authorized(f)
    BY <1>4 DEF Retry
  <2>2. /\ OpenCycle(control) = [phase |-> "aborted", cut |-> CutOf(f),
                                 attempt |-> f.attempt]
        /\ OpenCycle(control') = [phase |-> "authorized", cut |-> CutOf(f),
                                  attempt |-> f.attempt]
    BY <2>1, OpenCycleOf
  <2> QED
    BY <2>1, <2>2 DEF Chain, Journal!Next, Journal!Authorize
<1>5. ASSUME UNCHANGED <<commits, control>>
      PROVE  Chain' = Chain /\ OpenCycle(control') = OpenCycle(control)
  BY <1>5 DEF Chain
<1> QED
  BY <1>1, <1>2, <1>3, <1>4, <1>5, StepCases
     DEF Seed, DeclareRound, Quiet, journal

\* The durable core of every run behaves as CausalJournal says: whatever the
\* workers, callers, crashes and retries do, its steps are those of one journal.
THEOREM RunImplementsJournal == Spec => ImplementsJournal
BY TypeInit, TypeStep, ShapeInit, ShapeStep, OpenCutInit, OpenCutStep,
   LinearInit, LinearStep, FoldInit, FoldStep, ImplementsInit, ImplementsStep,
   PTL DEF Spec, ImplementsJournal, Journal!Spec, Linear

--------------------------------------------------------------------------------
(* What is sealed stays true until the cycle's terminal.                   *)

\* An answered slot stays as it was answered.
LEMMA AnswersStay ==
    ASSUME TypeOK, [Next]_vars
    PROVE  \A r \in Round, s \in Slot : seat[<<r, s>>].status = "filled" =>
               seat'[<<r, s>>] = seat[<<r, s>>]
<1> SUFFICES ASSUME NEW r \in Round, NEW s \in Slot,
                    seat[<<r, s>>].status = "filled"
             PROVE  seat'[<<r, s>>] = seat[<<r, s>>]
  OBVIOUS
<1>1. ASSUME NEW q \in Round, NEW t \in Slot,
             Dispatch(q, t) \/ RevokeDispatch(q, t) \/ Respond(q, t)
      PROVE  seat'[<<r, s>>] = seat[<<r, s>>]
  BY <1>1 DEF Dispatch, RevokeDispatch, Respond, TypeOK
<1>2. ASSUME seat' = seat PROVE seat'[<<r, s>>] = seat[<<r, s>>]
  BY <1>2
<1> QED
  BY <1>1, <1>2
     DEF Next, Cycle, LoadClock, Plan, Admit, Build, CommitWork,
         CommitClockAdvance, AbortCascade, GiveUp, Restart, Abort, Crash, Seed,
         DeclareRound, Retry, AbortFence, shared, ledger, vars

\* What a later declaration can bring lies after everything that is sealed, and
\* the schedule is closed to seeding once a fence exists.
LEMMA SealHolds ==
    ASSUME TypeOK, FenceShape, NEW f \in fences, [Next]_vars,
           UNCHANGED <<clk, schedule, commits>>
           \/ (\E o \in Genesis : Seed(o))
    PROVE  /\ UNCHANGED <<clk, schedule, commits>>
           /\ \A r \in Round : \/ opened'[r] = opened[r]
                               \/ /\ opened[r] = None
                                  /\ Precedes(f.target, opened'[r])
                                  /\ opened'[r] \in Coordinate
<1>1. ~ \E o \in Genesis : Seed(o)
  BY DEF Seed
<1>2. ASSUME NEW q \in Round, NEW c \in Openings, DeclareRound(q, c)
      PROVE  \A r \in Round : \/ opened'[r] = opened[r]
                              \/ /\ opened[r] = None
                                 /\ Precedes(f.target, opened'[r])
                                 /\ opened'[r] \in Coordinate
  BY <1>2, OpeningsAssumption DEF DeclareRound, BeyondSeals, Cut, TypeOK
<1>3. ASSUME opened' = opened
      PROVE  \A r \in Round : opened'[r] = opened[r]
  BY <1>3
<1> QED
  BY <1>1, <1>2, <1>3, StepCases
     DEF Admit, CommitWork, CommitClockAdvance, AbortFence, Retry, Quiet,
         ledger

\* So the units due at a sealed cycle stay the same until the next commit.
LEMMA DueStays ==
    ASSUME TypeOK, FenceShape, NEW f \in fences, [Next]_vars,
           UNCHANGED <<clk, schedule, commits>>
           \/ (\E o \in Genesis : Seed(o))
    PROVE  /\ DueUnits(f.cycle)' = DueUnits(f.cycle)
           /\ DueRounds(f.cycle)' = DueRounds(f.cycle)
<1>1. /\ UNCHANGED <<occs, acts, trig, commits>>
      /\ \A r \in Round : \/ opened'[r] = opened[r]
                          \/ /\ opened[r] = None
                             /\ Precedes(f.target, opened'[r])
                             /\ opened'[r] \in Coordinate
  BY SealHolds DEF schedule
<1>2. /\ f.cycle \in Coordinate /\ f.target \in Coordinate
      /\ f.kind \in {"work", "advance"}
      /\ Targets(f.kind, f.cycle, f.target)
  BY DEF TypeOK, Fence, FenceShape
<1>3. \A c \in Coordinate : Precedes(f.target, c) => ~NotAfter(c, f.cycle)
  BY <1>2 DEF Targets, NotAfter, Precedes, Coordinate
<1>4. \A r \in Round : r \in DueRounds(f.cycle)' <=> r \in DueRounds(f.cycle)
  BY <1>1, <1>3 DEF DueRounds, PendingRounds, Settled
<1>5. DueRounds(f.cycle)' = DueRounds(f.cycle)
  <2>1. DueRounds(f.cycle) \subseteq Round /\ DueRounds(f.cycle)' \subseteq Round
    BY DEF DueRounds, PendingRounds
  <2> QED
    BY <1>4, <2>1
<1>6. /\ DueOccs(f.cycle)' = DueOccs(f.cycle)
      /\ DueActs(f.cycle)' = DueActs(f.cycle)
  BY <1>1 DEF DueOccs, DueActs, PendingOccs, PendingActs, Settled
<1>7. DueUnits(f.cycle)' = DueUnits(f.cycle)
  BY <1>5, <1>6 DEF DueUnits
<1> QED
  BY <1>5, <1>7

LEMMA RederivesInit == Init => SealedCutRederives
BY ControlStates DEF Init, SealedCutRederives

\* A fence that is open before and after a step that commits nothing still
\* derives after it.
LEMMA RederivesStays ==
    ASSUME TypeOK, FenceShape, NEW f \in fences, [Next]_vars, Rederives(f),
           UNCHANGED <<clk, schedule, commits>>
           \/ (\E o \in Genesis : Seed(o))
    PROVE  Rederives(f)'
<1>1. /\ DueUnits(f.cycle)' = DueUnits(f.cycle)
      /\ DueRounds(f.cycle)' = DueRounds(f.cycle)
  BY DueStays
<1>2. f.rounds \subseteq Round
  BY DEF TypeOK, Fence
<1>3. CohortAnswered(f)'
  <2>1. CohortAnswered(f)
    BY DEF Rederives, Derivable
  <2>2. \A r \in f.rounds, s \in Slot : Answers(seat[<<r, s>>], f)
    BY <2>1 DEF CohortAnswered
  <2>3. \A r \in f.rounds, s \in Slot : seat'[<<r, s>>] = seat[<<r, s>>]
    BY <1>2, <2>2, AnswersStay DEF Answers
  <2>4. \A r \in f.rounds, s \in Slot : Answers(seat'[<<r, s>>], f)
    BY <2>2, <2>3
  <2> QED
    BY <2>4 DEF CohortAnswered
<1> QED
  BY <1>1, <1>3 DEF Rederives, Derivable

LEMMA RederivesStep ==
    TypeOK /\ Shape /\ OpenCut /\ BehindClock /\ ControlIsFold
      /\ SealedCutRederives /\ [Next]_vars => SealedCutRederives'
<1> SUFFICES ASSUME TypeOK, Shape, OpenCut, BehindClock, ControlIsFold,
                    SealedCutRederives, [Next]_vars
             PROVE  SealedCutRederives'
  OBVIOUS
<1>1. FenceShape
  BY DEF Shape
<1>2. ASSUME NEW w \in Worker, NEW a \in 0..MaxAttempt, Admit(w, a)
      PROVE  SealedCutRederives'
  <2>1. PICK f : f = Derived(job[w].plan, job[w].clk.revision, a)
    OBVIOUS
  <2>2. /\ control' = InFlight(f) /\ Derivable(f)
        /\ UNCHANGED <<occs, acts, opened, seat, commits>>
    BY <1>2, <2>1 DEF Admit, CanAdmit, schedule, ledger
  <2>3. f.units = DueUnits(f.cycle) /\ f.rounds = DueRounds(f.cycle)
    BY <2>1 DEF Derived
  <2>4. /\ DueUnits(f.cycle)' = DueUnits(f.cycle)
        /\ DueRounds(f.cycle)' = DueRounds(f.cycle)
    BY <2>2 DEF DueUnits, DueOccs, DueActs, DueRounds, PendingOccs,
                PendingActs, PendingRounds, Settled
  <2>5. Derivable(f)'
    BY <2>2 DEF Derivable, CohortAnswered
  <2>6. control'.fence = f
    BY <2>2, ControlStates
  <2> QED
    BY <2>3, <2>4, <2>5, <2>6 DEF SealedCutRederives, Rederives
<1>3. ASSUME NEW w \in Worker, CommitWork(w) \/ CommitClockAdvance(w)
      PROVE  SealedCutRederives'
  BY <1>3, Publication, ControlStates DEF SealedCutRederives
<1>4. ASSUME control.status # "idle", control'.fence = control.fence,
             UNCHANGED <<clk, schedule, commits>>
             \/ (\E o \in Genesis : Seed(o))
      PROVE  SealedCutRederives'
  <2>1. PICK f \in fences : f = control.fence
    BY <1>4 DEF OpenCut
  <2>2. Rederives(f)
    BY <1>4, <2>1 DEF SealedCutRederives
  <2>3. Rederives(f)'
    BY <1>1, <1>4, <2>2, RederivesStays
  <2>4. control'.fence = f
    BY <1>4, <2>1
  <2> QED
    BY <2>3, <2>4 DEF SealedCutRederives, Rederives
<1>5. ASSUME control.status = "idle", control' = control
      PROVE  SealedCutRederives'
  BY <1>5 DEF SealedCutRederives
<1>6. ASSUME NEW w \in Worker, NEW f, CanAbort(f), AbortFence(w, f)
      PROVE  SealedCutRederives'
  BY <1>4, <1>6, ControlStates DEF CanAbort, AbortFence
<1>7. ASSUME NEW f \in aborts, Retry(f) PROVE SealedCutRederives'
  BY <1>4, <1>7, ControlStates DEF Retry
<1>8. ASSUME \/ \E o \in Genesis : Seed(o)
             \/ \E r \in Round, c \in Openings : DeclareRound(r, c)
             \/ Quiet
      PROVE  SealedCutRederives'
  BY <1>4, <1>5, <1>8 DEF Seed, DeclareRound, Quiet, journal
<1> QED
  BY <1>2, <1>3, <1>6, <1>7, <1>8, StepCases

\* While a cycle is open, the ledgers derive its fence again: no declaration,
\* answer, revocation or seeding accepted after the seal changes the cut.
THEOREM SealedCutStays == Spec => []SealedCutRederives
<1>1. Fold => ControlIsFold
  BY DEF Fold
<1>2. Linear => BehindClock
  BY DEF Linear
<1> QED
  BY <1>1, <1>2, TypeInit, TypeStep, ShapeInit, ShapeStep, OpenCutInit,
     OpenCutStep, LinearInit, LinearStep, FoldInit, FoldStep, RederivesInit,
     RederivesStep, PTL DEF Spec

LEMMA AnsweredInit == Init => AnsweredForCycle
BY DEF Init, AnsweredForCycle

LEMMA AnsweredStep ==
    TypeOK /\ Shape /\ OpenCut /\ SealedCutRederives /\ AnsweredForCycle
      /\ [Next]_vars => AnsweredForCycle'
<1> SUFFICES ASSUME TypeOK, Shape, OpenCut, SealedCutRederives,
                    AnsweredForCycle, [Next]_vars, NEW f \in commits'
             PROVE  \A r \in f.rounds, s \in Slot : Answers(seat'[<<r, s>>], f)
  BY DEF AnsweredForCycle
<1>1. f \in Fence /\ \A r \in f.rounds, s \in Slot : Answers(seat[<<r, s>>], f)
  <2>1. CASE f \in commits
    BY <2>1 DEF AnsweredForCycle, TypeOK
  <2>2. CASE f \notin commits
    <3>1. PICK w \in Worker : CommitWork(w) \/ CommitClockAdvance(w)
      BY <2>2, StepCases
         DEF Admit, AbortFence, Retry, Seed, DeclareRound, Quiet, journal
    <3>2. f \in Fence /\ control = InFlight(f)
      BY <2>2, <3>1, Publication
    <3> QED
      BY <3>2, ControlStates
         DEF SealedCutRederives, Rederives, Derivable, CohortAnswered
  <2> QED
    BY <2>1, <2>2
<1>2. \A r \in f.rounds, s \in Slot : seat'[<<r, s>>] = seat[<<r, s>>]
  BY <1>1, AnswersStay DEF Answers, Fence
<1> QED
  BY <1>1, <1>2

\* A cycle only ever settles slots that were answered for it, against the
\* revision it starts from, and those answers are never replaced.
THEOREM AnswersAreForTheCycle == Spec => []AnsweredForCycle
<1>1. Fold => ControlIsFold
  BY DEF Fold
<1>2. Linear => BehindClock
  BY DEF Linear
<1> QED
  BY <1>1, <1>2, TypeInit, TypeStep, ShapeInit, ShapeStep, OpenCutInit,
     OpenCutStep, LinearInit, LinearStep, FoldInit, FoldStep, RederivesInit,
     RederivesStep, AnsweredInit, AnsweredStep, PTL DEF Spec

--------------------------------------------------------------------------------
(* A sealed plan that is selected stays selected.                          *)

\* Between two states of one open cycle, its target stays and nothing commits.
LEMMA OpenStep ==
    ASSUME TypeOK, Shape, OpenCut, BehindClock, ControlIsFold, [Next]_vars,
           control.status # "idle", control'.status # "idle"
    PROVE  /\ control'.fence.target = control.fence.target
           /\ UNCHANGED <<clk, schedule, commits>>
              \/ (\E o \in Genesis : Seed(o))
<1>1. ASSUME NEW w \in Worker, NEW a \in 0..MaxAttempt, Admit(w, a)
      PROVE  /\ control'.fence.target = control.fence.target
             /\ UNCHANGED <<clk, schedule, commits>>
  <2>1. PICK f \in Fence :
              /\ control' = InFlight(f)
              /\ UNCHANGED <<clk, schedule, commits>>
              /\ control = InFlight(f) \/ SameCut(f, control.fence)
    BY <1>1, AdmitCases
  <2>2. control.fence \in Fence
    BY DEF OpenCut, TypeOK
  <2> QED
    BY <2>1, <2>2, ControlStates DEF SameCut, CutOf, Fence
<1>2. ASSUME NEW w \in Worker, CommitWork(w) \/ CommitClockAdvance(w)
      PROVE  FALSE
  BY <1>2, Publication, ControlStates
<1>3. ASSUME NEW w \in Worker, NEW f, CanAbort(f), AbortFence(w, f)
      PROVE  /\ control'.fence.target = control.fence.target
             /\ UNCHANGED <<clk, schedule, commits>>
  BY <1>3, ControlStates DEF CanAbort, AbortFence
<1>4. ASSUME NEW f \in aborts, Retry(f)
      PROVE  /\ control'.fence.target = control.fence.target
             /\ UNCHANGED <<clk, schedule, commits>>
  BY <1>4, ControlStates DEF Retry
<1> QED
  BY <1>1, <1>2, <1>3, <1>4, StepCases DEF Seed, DeclareRound, Quiet, journal

LEMMA PlanStep ==
    TypeOK /\ Shape /\ OpenCut /\ BehindClock /\ ControlIsFold /\ [Next]_vars =>
        (control.status # "idle" /\ control'.status # "idle"
           /\ StillSelected(control.fence) => StillSelected(control.fence)')
<1> SUFFICES ASSUME TypeOK, Shape, OpenCut, BehindClock, ControlIsFold,
                    [Next]_vars, control.status # "idle",
                    control'.status # "idle", StillSelected(control.fence)
             PROVE  StillSelected(control.fence)'
  OBVIOUS
<1>1. PICK f \in fences : f = control.fence
  BY DEF OpenCut
<1>2. /\ control'.fence.target = f.target
      /\ UNCHANGED <<clk, schedule, commits>> \/ (\E o \in Genesis : Seed(o))
  BY <1>1, OpenStep
<1>3. /\ UNCHANGED <<clk, occs, acts, trig, commits>>
      /\ \A r \in Round : \/ opened'[r] = opened[r]
                          \/ /\ opened[r] = None
                             /\ Precedes(f.target, opened'[r])
                             /\ opened'[r] \in Coordinate
  BY <1>2, SealHolds DEF schedule, Shape
<1>4. /\ ~OrdinalExhausted(clk) /\ Smallest(Pending, f.target)
      /\ NotAfter(Floor(clk), f.target)
  BY <1>1 DEF StillSelected, Picks
<1>5. \A r \in Round : r \in PendingRounds =>
         r \in PendingRounds' /\ opened'[r] = opened[r]
  BY <1>3 DEF PendingRounds, Settled
<1>6. \A r \in PendingRounds' :
         \/ r \in PendingRounds /\ opened'[r] = opened[r]
         \/ Precedes(f.target, opened'[r]) /\ opened'[r] \in Coordinate
  BY <1>3 DEF PendingRounds, Settled
<1>7. /\ PendingOccs' = PendingOccs /\ PendingActs' = PendingActs
      /\ Cadences' = Cadences
  BY <1>3 DEF PendingOccs, PendingActs, Cadences, Settled
<1>8. Pending \subseteq Pending'
  <2>1. PendingRounds \subseteq Round
    BY DEF PendingRounds
  <2> QED
    BY <1>3, <1>5, <1>7, <2>1 DEF Pending
<1>9. \A p \in Pending' : p \in Pending \/ NotAfter(f.target, p)
  <2>1. f.target \in Coordinate
    BY DEF TypeOK, Fence
  <2>2. \A c \in Coordinate : Precedes(f.target, c) => NotAfter(f.target, c)
    BY <2>1 DEF Precedes, NotAfter, Coordinate
  <2> QED
    BY <1>3, <1>6, <1>7, <2>2 DEF Pending
<1>10. Smallest(Pending', f.target)
  BY <1>4, <1>8, <1>9 DEF Smallest
<1> QED
  BY <1>2, <1>3, <1>4, <1>10 DEF StillSelected, Picks

\* Once a sealed plan is the one the clock selects it stays so until its cycle
\* ends: what the ledgers accept after the fence lies after the fence's target.
THEOREM SelectedPlanStands == Spec => SealedPlanStands
<1>1. Fold => ControlIsFold
  BY DEF Fold
<1>2. Linear => BehindClock
  BY DEF Linear
<1> QED
  BY <1>1, <1>2, TypeInit, TypeStep, ShapeInit, ShapeStep, OpenCutInit,
     OpenCutStep, LinearInit, LinearStep, FoldInit, FoldStep, PlanStep, PTL
     DEF Spec, SealedPlanStands

--------------------------------------------------------------------------------
(* The slots of the rounds keep the promise of SlotContract, which         *)
(* SlotLedger keeps with the rows of one file.                             *)

\* An answer is told by the cycle and the revision it was asked for.
AskedFor == [cycle : Coordinate, base : Nat]

SeatPhase(x) ==
    CASE x.status = "none" -> [phase |-> "unasked"]
      [] x.status = "open" -> [phase |-> "asked", request |-> x.count - 1]
      [] x.status = "revoked" -> [phase |-> "revoked", request |-> x.count - 1]
      [] OTHER -> [phase |-> "filled", request |-> x.count - 1,
                   answer |-> [cycle |-> x.cycle, base |-> x.base]]

SeatPhases == [q \in Round \X Slot |-> SeatPhase(seat[q])]

RoundSlots == INSTANCE SlotContract
    WITH Slot <- Round \X Slot, Reply <- AskedFor, slot <- SeatPhases

\* A slot that was asked has a number of dispatches, one that was not has none.
SeatsCounted ==
    \A q \in Round \X Slot :
        IF seat[q].status = "none" THEN seat[q].count = 0 ELSE seat[q].count > 0

LEMMA SeatCases ==
    ASSUME [Next]_vars
    PROVE  \/ \E r \in Round, s \in Slot :
                 Dispatch(r, s) \/ RevokeDispatch(r, s) \/ Respond(r, s)
           \/ UNCHANGED seat
BY DEF Next, Cycle, LoadClock, Plan, Admit, Build, CommitWork,
       CommitClockAdvance, AbortCascade, GiveUp, Restart, Abort, Crash, Seed,
       DeclareRound, Retry, AbortFence, shared, ledger, vars

\* The seat that a call leaves.
LEMMA SeatCalls ==
    ASSUME TypeOK, NEW r \in Round, NEW s \in Slot
    PROVE  LET x == seat[<<r, s>>] IN
           /\ x \in SeatState
           /\ Dispatch(r, s) =>
                 /\ x.status \in {"none", "revoked"}
                 /\ \E y \in SeatState :
                       /\ seat' = [seat EXCEPT ![<<r, s>>] = y]
                       /\ y.status = "open" /\ y.count = x.count + 1
           /\ RevokeDispatch(r, s) =>
                 /\ x.status = "open"
                 /\ \E y \in SeatState :
                       /\ seat' = [seat EXCEPT ![<<r, s>>] = y]
                       /\ y.status = "revoked" /\ y.count = x.count
           /\ Respond(r, s) =>
                 /\ x.status = "open"
                 /\ \E y \in SeatState :
                       /\ seat' = [seat EXCEPT ![<<r, s>>] = y]
                       /\ y.status = "filled" /\ y.count = x.count
<1> DEFINE x == seat[<<r, s>>]
<1>1. x \in SeatState
  BY DEF TypeOK
<1>2. ASSUME Dispatch(r, s)
      PROVE  /\ x.status \in {"none", "revoked"}
             /\ \E y \in SeatState :
                   /\ seat' = [seat EXCEPT ![<<r, s>>] = y]
                   /\ y.status = "open" /\ y.count = x.count + 1
  <2> DEFINE y == [status |-> "open", cycle |-> Floor(clk), base |-> clk.revision,
                   count |-> x.count + 1]
  <2>1. Floor(clk) \in Coordinate /\ clk.revision \in Nat
    BY FloorType DEF TypeOK, ClockState
  <2>2. x.status \in {"none", "revoked"} /\ seat' = [seat EXCEPT ![<<r, s>>] = y]
        /\ x.count < MaxDispatch
    BY <1>2 DEF Dispatch
  <2>3. x.count + 1 \in 0..MaxDispatch
    BY <1>1, <2>2, BoundsAssumption DEF SeatState
  <2>4. y \in SeatState /\ y.status = "open" /\ y.count = x.count + 1
    BY <2>1, <2>3 DEF SeatState
  <2> QED
    BY <2>2, <2>4
<1>3. ASSUME NEW z \in {"revoked", "filled"}
      PROVE  /\ [x EXCEPT !.status = z] \in SeatState
             /\ [x EXCEPT !.status = z].status = z
             /\ [x EXCEPT !.status = z].count = x.count
  BY <1>1 DEF SeatState
<1>4. ASSUME RevokeDispatch(r, s)
      PROVE  x.status = "open"
             /\ seat' = [seat EXCEPT ![<<r, s>>] = [x EXCEPT !.status = "revoked"]]
  BY <1>4 DEF RevokeDispatch
<1>5. ASSUME Respond(r, s)
      PROVE  x.status = "open"
             /\ seat' = [seat EXCEPT ![<<r, s>>] = [x EXCEPT !.status = "filled"]]
  BY <1>5 DEF Respond
<1>6. RevokeDispatch(r, s) => \E y \in SeatState :
          /\ seat' = [seat EXCEPT ![<<r, s>>] = y]
          /\ y.status = "revoked" /\ y.count = x.count
  BY <1>3, <1>4
<1>7. Respond(r, s) => \E y \in SeatState :
          /\ seat' = [seat EXCEPT ![<<r, s>>] = y]
          /\ y.status = "filled" /\ y.count = x.count
  BY <1>3, <1>5
<1> QED
  BY <1>1, <1>2, <1>4, <1>5, <1>6, <1>7

LEMMA SeatsCountedStep ==
    TypeOK /\ SeatsCounted /\ [Next]_vars => SeatsCounted'
<1> SUFFICES ASSUME TypeOK, SeatsCounted, [Next]_vars PROVE SeatsCounted'
  OBVIOUS
<1>1. ASSUME NEW r \in Round, NEW s \in Slot, NEW y,
             seat' = [seat EXCEPT ![<<r, s>>] = y], y.status # "none", y.count > 0
      PROVE  SeatsCounted'
  BY <1>1 DEF SeatsCounted, TypeOK
<1>2. ASSUME NEW r \in Round, NEW s \in Slot,
             Dispatch(r, s) \/ RevokeDispatch(r, s) \/ Respond(r, s)
      PROVE  SeatsCounted'
  <2> DEFINE x == seat[<<r, s>>]
  <2>1. PICK y : /\ seat' = [seat EXCEPT ![<<r, s>>] = y]
                 /\ \/ y.status = "open" /\ y.count = x.count + 1
                    \/ /\ y.status \in {"revoked", "filled"} /\ y.count = x.count
                       /\ x.status = "open"
    BY <1>2, SeatCalls
  <2>2. x.count \in Nat /\ (x.status = "open" => x.count > 0)
    BY SeatCalls, BoundsAssumption DEF SeatsCounted, SeatState
  <2>3. y.status # "none" /\ y.count > 0
    BY <2>1, <2>2
  <2> QED
    BY <1>1, <2>1, <2>3
<1>3. CASE UNCHANGED seat
  BY <1>3 DEF SeatsCounted
<1> QED
  BY <1>2, <1>3, SeatCases

LEMMA RoundSlotsStep ==
    TypeOK /\ SeatsCounted /\ [Next]_vars => [RoundSlots!Next]_SeatPhases
<1> SUFFICES ASSUME TypeOK, SeatsCounted, [Next]_vars
             PROVE  [RoundSlots!Next]_SeatPhases
  OBVIOUS
<1>1. ASSUME NEW r \in Round, NEW s \in Slot, NEW y,
             seat' = [seat EXCEPT ![<<r, s>>] = y]
      PROVE  SeatPhases' = [SeatPhases EXCEPT ![<<r, s>>] = SeatPhase(y)]
  BY <1>1 DEF SeatPhases, TypeOK
<1>2. ASSUME NEW r \in Round, NEW s \in Slot
      PROVE  /\ <<r, s>> \in Round \X Slot
             /\ SeatPhases[<<r, s>>] = SeatPhase(seat[<<r, s>>])
             /\ seat[<<r, s>>].count \in Nat
  <2>1. seat[<<r, s>>].count \in Nat
    BY SeatCalls, BoundsAssumption DEF SeatState
  <2> QED
    BY <2>1 DEF SeatPhases
<1>3. ASSUME NEW r \in Round, NEW s \in Slot, Dispatch(r, s)
      PROVE  RoundSlots!Ask(<<r, s>>)
  <2>1. PICK x, y : /\ x = seat[<<r, s>>] /\ x.status \in {"none", "revoked"}
                    /\ seat' = [seat EXCEPT ![<<r, s>>] = y]
                    /\ y.status = "open" /\ y.count = x.count + 1
    BY <1>3, SeatCalls
  <2>2. SeatPhase(y) = [phase |-> "asked", request |-> x.count]
    <3>1. y.count - 1 = x.count
      BY <1>2, <2>1
    <3>2. SeatPhase(y) = [phase |-> "asked", request |-> y.count - 1]
      BY <2>1 DEF SeatPhase
    <3> QED
      BY <3>1, <3>2
  <2>3. SeatPhases' = [SeatPhases EXCEPT ![<<r, s>>] =
                          [phase |-> "asked", request |-> x.count]]
    <3>1. SeatPhases' = [SeatPhases EXCEPT ![<<r, s>>] = SeatPhase(y)]
      BY <1>1, <2>1
    <3> QED
      BY <2>2, <3>1, Zenon
  <2>4. CASE x.status = "none"
    <3>1. x.count = 0 /\ SeatPhases[<<r, s>>] = [phase |-> "unasked"]
      BY <1>2, <2>1, <2>4 DEF SeatsCounted, SeatPhase
    <3> QED
      BY <2>3, <3>1 DEF RoundSlots!Ask, RoundSlots!Asked, RoundSlots!Unasked
  <2>5. CASE x.status = "revoked"
    <3>1. SeatPhases[<<r, s>>] = [phase |-> "revoked", request |-> x.count - 1]
      BY <1>2, <2>1, <2>5 DEF SeatPhase
    <3>2. /\ SeatPhases[<<r, s>>].phase = "revoked"
          /\ SeatPhases[<<r, s>>].request + 1 = x.count
      BY <1>2, <2>1, <3>1
    <3> QED
      BY <2>3, <3>2 DEF RoundSlots!Ask, RoundSlots!Asked
  <2> QED
    BY <2>1, <2>4, <2>5
<1>4. ASSUME NEW r \in Round, NEW s \in Slot, RevokeDispatch(r, s)
      PROVE  RoundSlots!Revoke(<<r, s>>)
  <2>1. PICK x, y : /\ x = seat[<<r, s>>] /\ x.status = "open"
                    /\ seat' = [seat EXCEPT ![<<r, s>>] = y]
                    /\ y.status = "revoked" /\ y.count = x.count
    BY <1>4, SeatCalls
  <2>2. /\ SeatPhase(y) = [phase |-> "revoked", request |-> x.count - 1]
        /\ SeatPhases[<<r, s>>] = [phase |-> "asked", request |-> x.count - 1]
    BY <1>2, <2>1 DEF SeatPhase
  <2>3. SeatPhases' = [SeatPhases EXCEPT ![<<r, s>>] =
                          [phase |-> "revoked", request |-> x.count - 1]]
    <3>1. SeatPhases' = [SeatPhases EXCEPT ![<<r, s>>] = SeatPhase(y)]
      BY <1>1, <2>1
    <3> QED
      BY <2>2, <3>1, Zenon
  <2> QED
    BY <2>2, <2>3 DEF RoundSlots!Revoke, RoundSlots!Revoked
<1>5. ASSUME NEW r \in Round, NEW s \in Slot, Respond(r, s)
      PROVE  \E a \in AskedFor : RoundSlots!Fill(<<r, s>>, a)
  <2>1. PICK x, y : /\ x = seat[<<r, s>>] /\ x.status = "open"
                    /\ y \in SeatState
                    /\ seat' = [seat EXCEPT ![<<r, s>>] = y]
                    /\ y.status = "filled" /\ y.count = x.count
    BY <1>5, SeatCalls
  <2>2. PICK a : a = [cycle |-> y.cycle, base |-> y.base]
    OBVIOUS
  <2>3. a \in AskedFor
    BY <2>1, <2>2 DEF AskedFor, SeatState
  <2>4. /\ SeatPhase(y) = [phase |-> "filled", request |-> x.count - 1, answer |-> a]
        /\ SeatPhases[<<r, s>>] = [phase |-> "asked", request |-> x.count - 1]
    BY <1>2, <2>1, <2>2 DEF SeatPhase
  <2>5. SeatPhases' = [SeatPhases EXCEPT ![<<r, s>>] =
                [phase |-> "filled", request |-> x.count - 1, answer |-> a]]
    <3>1. SeatPhases' = [SeatPhases EXCEPT ![<<r, s>>] = SeatPhase(y)]
      BY <1>1, <2>1
    <3> QED
      BY <2>4, <3>1, Zenon
  <2>6. RoundSlots!Fill(<<r, s>>, a)
    BY <2>4, <2>5 DEF RoundSlots!Fill, RoundSlots!Filled
  <2> QED
    BY <2>3, <2>6
<1>6. CASE UNCHANGED seat
  BY <1>6 DEF SeatPhases
<1> QED
  BY <1>2, <1>3, <1>4, <1>5, <1>6, SeatCases DEF RoundSlots!Next

\* Whatever else a run does, each slot of a round is asked, revoked and asked
\* again under the next number, and is filled once, by an answer to the open
\* request that says for which cycle and revision it was asked.
THEOREM RoundsImplementSlots == Spec => RoundSlots!Spec
<1>1. Init => SeatsCounted /\ RoundSlots!Init
  BY DEF Init, Vacant, SeatsCounted, SeatPhases, SeatPhase, RoundSlots!Init,
         RoundSlots!Unasked
<1> QED
  BY <1>1, TypeInit, TypeStep, SeatsCountedStep, RoundSlotsStep, PTL
     DEF Spec, RoundSlots!Spec

================================================================================
