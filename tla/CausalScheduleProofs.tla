-------------------------- MODULE CausalScheduleProofs --------------------------
(***************************************************************************)
(* The schedule of a run: triggers are evaluated at every instant the      *)
(* clock stops at and beat in time, series recur, and every unit is        *)
(* settled at its own coordinate.  From these follows that the audit of    *)
(* JournalReplay accepts the run.                                          *)
(***************************************************************************)
EXTENDS CausalCycleProofs, JournalReplay, FiniteSetTheorems

USE DEF At

--------------------------------------------------------------------------------
(* Triggers and their activations.                                         *)

Fired(t) == {a \in acts : a.trigger = t}

\* The activation a trigger that fires at an instant leaves.
Firing(t, now) ==
    [trigger |-> t, count |-> trig[t].count + 1, at |-> At(now, 0)]

\* An activation is named by its trigger and its count.
ActsNamed == \A a, b \in acts : ActUnit(a) = ActUnit(b) => a = b

FiredFinite == \A t \in Trigger : IsFiniteSet(Fired(t))

Numbered == ActsNamed /\ FiredFinite /\ TriggersCurrent

\* What an evaluation does to what the runtime remembers of the predicate and
\* to the count.
LEMMA EvaluateCount ==
    ASSUME NEW t, NEW r, NEW now, NEW revision
    PROVE  LET e == Evaluated(t, r, now, revision) IN
           /\ e.hasLast /\ e.last = Predicate(Definition[t], now)
           /\ e.through = revision
           /\ Fires(Definition[t], r, now) => e.count = r.count + 1
           /\ ~Fires(Definition[t], r, now) => e.count = r.count
BY DEF Evaluated, Evaluate

\* What a published CLOCK_ADVANCE does to one trigger.
LEMMA AdvanceOfTrigger ==
    ASSUME TypeOK, NEW w \in Worker, CommitClockAdvance(w), NEW t \in Trigger
    PROVE  LET to == job[w].fence.target.instant IN
           /\ to \in Int /\ to > clk.instant /\ clk'.instant = to
           /\ clk'.revision = clk.revision + 1
           /\ trig'[t] = Evaluated(t, trig[t], to, clk.revision + 1)
           /\ Fires(Definition[t], trig[t], to) =>
                  Fired(t)' = Fired(t) \cup {Firing(t, to)}
           /\ ~Fires(Definition[t], trig[t], to) => Fired(t)' = Fired(t)
<1> DEFINE f  == job[w].fence
           to == f.target.instant
           fired == {u \in Trigger : Fires(Definition[u], trig[u], to)}
<1>1. f \in Fence /\ to > clk.instant
  BY DEF CommitClockAdvance, CanCommitAdvance, CanPublish, TypeOK
<1>2. to \in Int
  BY <1>1 DEF Fence, Coordinate
<1>3. /\ clk' = ApplyAdvance(clk, to)
      /\ trig' = [u \in Trigger |->
                     Evaluated(u, trig[u], to, clk.revision + 1)]
      /\ acts' = acts \cup {Firing(u, to) : u \in fired}
  BY DEF CommitClockAdvance, Firing
<1> HIDE DEF to
<1>4. clk'.instant = to /\ clk'.revision = clk.revision + 1
  BY <1>3 DEF ApplyAdvance
<1>5. \A u : Firing(u, to).trigger = u
  BY DEF Firing
<1>6. ASSUME Fires(Definition[t], trig[t], to)
      PROVE  Fired(t)' = Fired(t) \cup {Firing(t, to)}
  BY <1>3, <1>5, <1>6 DEF Fired
<1>7. ASSUME ~Fires(Definition[t], trig[t], to) PROVE Fired(t)' = Fired(t)
  BY <1>3, <1>5, <1>7 DEF Fired
<1> QED
  BY <1>1, <1>2, <1>3, <1>4, <1>6, <1>7 DEF to

LEMMA NumberedInit == Init => Numbered
<1> SUFFICES ASSUME Init PROVE Numbered
  OBVIOUS
<1> DEFINE first(t) == [trigger |-> t, count |-> 1, at |-> At(Start, 0)]
           starts(t) == Fires(Definition[t], Unevaluated, Start)
<1>1. acts = {first(t) : t \in {u \in Trigger : starts(u)}}
  BY DEF Init
<1>2. ActsNamed
  BY <1>1 DEF ActsNamed, ActUnit
<1>3. ASSUME NEW t \in Trigger
      PROVE  /\ IsFiniteSet(Fired(t))
             /\ trig[t].last = Predicate(Definition[t], clk.instant)
             /\ trig[t].through <= clk.revision
             /\ {a.count : a \in Fired(t)} = 1 .. trig[t].count
             /\ Cardinality(Fired(t)) = trig[t].count
  <2>1. /\ trig[t] = Evaluated(t, Unevaluated, Start, 0)
        /\ clk.instant = Start /\ clk.revision = 0 /\ Unevaluated.count = 0
    BY DEF Init, Unevaluated
  <2>2. /\ trig[t].last = Predicate(Definition[t], clk.instant)
        /\ trig[t].through <= clk.revision
    BY <2>1, EvaluateCount
  <2>3. CASE starts(t)
    <3>1. Fired(t) = {first(t)} /\ trig[t].count = 1
      BY <1>1, <2>1, <2>3, EvaluateCount DEF Fired
    <3>2. IsFiniteSet(Fired(t)) /\ Cardinality(Fired(t)) = 1
      BY <3>1, FS_Singleton
    <3>3. {a.count : a \in Fired(t)} = 1 .. 1
      BY <3>1
    <3> QED
      BY <2>2, <3>1, <3>2, <3>3
  <2>4. CASE ~starts(t)
    <3>1. Fired(t) = {} /\ trig[t].count = 0
      BY <1>1, <2>1, <2>4, EvaluateCount DEF Fired
    <3>2. IsFiniteSet(Fired(t)) /\ Cardinality(Fired(t)) = 0
      BY <3>1, FS_EmptySet
    <3>3. {a.count : a \in Fired(t)} = 1 .. 0
      BY <3>1
    <3> QED
      BY <2>2, <3>1, <3>2, <3>3
  <2> QED
    BY <2>3, <2>4
<1> QED
  BY <1>2, <1>3 DEF Numbered, FiredFinite, TriggersCurrent, Fired

\* A trigger that fires takes the next number.
LEMMA NumberedAdvance ==
    ASSUME TypeOK, TypeOK', Numbered, NEW w \in Worker, CommitClockAdvance(w)
    PROVE  Numbered'
<1> DEFINE to == job[w].fence.target.instant
<1>1. ASSUME NEW t \in Trigger
      PROVE  /\ IsFiniteSet(Fired(t))
             /\ {a.count : a \in Fired(t)} = 1 .. trig[t].count
             /\ Cardinality(Fired(t)) = trig[t].count
             /\ trig[t].count \in Nat
  BY DEF Numbered, FiredFinite, TriggersCurrent, Fired, TypeOK, Runtime
<1>2. ASSUME NEW t \in Trigger
      PROVE  /\ IsFiniteSet(Fired(t)')
             /\ trig'[t].last = Predicate(Definition[t], clk'.instant)
             /\ trig'[t].through <= clk'.revision
             /\ {a.count : a \in Fired(t)'} = 1 .. trig'[t].count
             /\ Cardinality(Fired(t)') = trig'[t].count
  <2>1. /\ clk'.instant = to /\ clk'.revision = clk.revision + 1
        /\ trig'[t] = Evaluated(t, trig[t], to, clk.revision + 1)
        /\ clk.revision \in Nat
    BY AdvanceOfTrigger DEF TypeOK, ClockState
  <2>2. /\ trig'[t].last = Predicate(Definition[t], clk'.instant)
        /\ trig'[t].through <= clk'.revision
    BY <2>1, EvaluateCount
  <2>3. CASE Fires(Definition[t], trig[t], to)
    <3> DEFINE x == Firing(t, to)
               n == trig[t].count
    <3>1. Fired(t)' = Fired(t) \cup {x} /\ trig'[t].count = n + 1
      <4>1. Fired(t)' = Fired(t) \cup {x}
        BY <2>3, AdvanceOfTrigger
      <4>2. trig'[t].count = n + 1
        BY <2>1, <2>3, EvaluateCount
      <4> QED
        BY <4>1, <4>2
    <3>2. x.count = n + 1
      BY DEF Firing
    <3> HIDE DEF x
    <3>3. x \notin Fired(t)
      <4>1. \A a \in Fired(t) : a.count \in 1 .. n
        BY <1>1
      <4> QED
        BY <1>1, <3>2, <4>1
    <3>4. IsFiniteSet(Fired(t)') /\ Cardinality(Fired(t)') = n + 1
      BY <1>1, <3>1, <3>3, FS_AddElement
    <3>5. {a.count : a \in Fired(t)'} = {a.count : a \in Fired(t)} \cup {n + 1}
      BY <3>1, <3>2
    <3>6. {a.count : a \in Fired(t)'} = 1 .. n + 1
      <4>1. n \in Nat /\ (1 .. n) \cup {n + 1} = 1 .. n + 1
        BY <1>1
      <4> QED
        BY <1>1, <3>5, <4>1
    <3> QED
      BY <2>2, <3>1, <3>4, <3>6
  <2>4. CASE ~Fires(Definition[t], trig[t], to)
    <3>1. Fired(t)' = Fired(t)
      BY <2>4, AdvanceOfTrigger
    <3>2. trig'[t].count = trig[t].count
      BY <2>1, <2>4, EvaluateCount
    <3> QED
      BY <1>1, <2>2, <3>1, <3>2
  <2> QED
    BY <2>3, <2>4
<1>3. ActsNamed'
  <2> SUFFICES ASSUME NEW a \in acts', NEW b \in acts',
                      a.trigger = b.trigger, a.count = b.count
               PROVE  a = b
    BY DEF ActsNamed, ActUnit
  <2> DEFINE t == a.trigger
  <2>1. t \in Trigger /\ a \in Fired(t)' /\ b \in Fired(t)'
    BY DEF TypeOK, Activation, Fired
  <2>2. \A x, y \in Fired(t) : x.count = y.count => x = y
    BY DEF Numbered, ActsNamed, ActUnit, Fired
  <2>3. \A x \in Fired(t) : x.count # trig[t].count + 1
    <3>1. \A x \in Fired(t) : x.count \in 1 .. trig[t].count
      BY <1>1, <2>1
    <3> QED
      BY <1>1, <2>1, <3>1
  <2>4. Firing(t, to).count = trig[t].count + 1
    BY DEF Firing
  <2> HIDE DEF t, to
  <2>5. Fired(t)' = Fired(t) \cup {Firing(t, to)} \/ Fired(t)' = Fired(t)
    BY <2>1, AdvanceOfTrigger DEF to
  <2> QED
    BY <2>1, <2>2, <2>3, <2>4, <2>5
<1> QED
  BY <1>2, <1>3 DEF Numbered, FiredFinite, TriggersCurrent, Fired

LEMMA NumberedStep ==
    TypeOK /\ TypeOK' /\ Numbered /\ [Next]_vars => Numbered'
<1> SUFFICES ASSUME TypeOK, TypeOK', Numbered, [Next]_vars PROVE Numbered'
  OBVIOUS
<1>1. ASSUME UNCHANGED <<acts, trig, clk>> PROVE Numbered'
  BY <1>1 DEF Numbered, ActsNamed, FiredFinite, TriggersCurrent, Fired
<1>2. ASSUME NEW w \in Worker, CommitWork(w) PROVE Numbered'
  <2>1. UNCHANGED <<acts, trig>> /\ clk'.instant = clk.instant
    BY <1>2 DEF CommitWork, ApplyWork
  <2>2. clk'.revision = clk.revision + 1 /\ clk.revision \in Nat
    BY <1>2 DEF CommitWork, ApplyWork, TypeOK, ClockState
  <2>3. \A t \in Trigger : trig[t].through \in Nat
    BY DEF TypeOK, Runtime
  <2> QED
    BY <2>1, <2>2, <2>3 DEF Numbered, ActsNamed, FiredFinite, TriggersCurrent, Fired
<1> QED
  BY <1>1, <1>2, NumberedAdvance, StepCases
     DEF Admit, AbortFence, Retry, Seed, DeclareRound, Quiet, schedule

\* Every trigger was evaluated at the present instant, and its activations are
\* numbered without gap or repetition: no advance skips an evaluation and no
\* two workers leave the same activation twice.
THEOREM TriggersAreCurrent == Spec => []TriggersCurrent
<1>1. Numbered => TriggersCurrent
  BY DEF Numbered
<1> QED
  BY <1>1, TypeInit, TypeStep, NumberedInit, NumberedStep, PTL DEF Spec

--------------------------------------------------------------------------------
(* Repeating triggers beat in time.                                        *)

\* While a repeating trigger's predicate holds, its next beat lies one cadence
\* after its last activation and ahead of the clock; before that it never fired.
Beating(t) ==
    /\ trig[t].hasLast
    /\ IF trig[t].last
       THEN /\ trig[t].hasNext /\ clk.instant < trig[t].next
            /\ \A a \in Fired(t) : a.count = trig[t].count =>
                  trig[t].next = a.at.instant + Definition[t].every
       ELSE trig[t].count = 0

\* Consecutive activations lie one cadence apart.
Spaced(t) ==
    \A a, b \in Fired(t) : b.count = a.count + 1 =>
        b.at.instant = a.at.instant + Definition[t].every

InTime ==
    \A t \in Trigger : Definition[t].policy = "repeat" => Beating(t) /\ Spaced(t)

\* A repeating trigger fires when its predicate becomes true and at its beat.
LEMMA RepeatFires ==
    ASSUME NEW t \in Trigger, Definition[t].policy = "repeat",
           NEW r \in Runtime, NEW now \in Int, NEW revision,
           r.last => r.hasNext
    PROVE  LET d == Definition[t]
               e == Evaluated(t, r, now, revision)
           IN  /\ d.every \in Nat \ {0} /\ d.threshold \in Int
               /\ Fires(d, r, now) <=>
                     Predicate(d, now) /\ (~r.hasLast \/ ~r.last \/ now >= r.next)
               /\ Fires(d, r, now) => e.hasNext /\ e.next = now + d.every
               /\ ~Fires(d, r, now) =>
                     /\ e.next = r.next
                     /\ r.hasNext /\ Predicate(d, now) => e.hasNext
<1> DEFINE d == Definition[t]
<1>1. d \in TriggerDefinition
  BY DefinitionAssumption
<1>2. d.every \in Nat \ {0} /\ d.threshold \in Int
  BY <1>1 DEF TriggerDefinition
<1> QED
  BY <1>2 DEF Fires, Beats, Evaluated, Evaluate

LEMMA InTimeInit == Init => InTime
<1> SUFFICES ASSUME Init, NEW t \in Trigger, Definition[t].policy = "repeat"
             PROVE  Beating(t) /\ Spaced(t)
  BY DEF InTime
<1> DEFINE d == Definition[t]
<1>1. /\ trig[t] = Evaluated(t, Unevaluated, Start, 0) /\ clk.instant = Start
      /\ Unevaluated.count = 0 /\ ~Unevaluated.hasLast /\ ~Unevaluated.last
      /\ Unevaluated \in Runtime /\ Start \in Int
  BY BoundsAssumption DEF Init, Unevaluated, Runtime
<1>2. \A a \in Fired(t) : a.count = 1 /\ a.at.instant = Start
  BY DEF Init, Fired
<1>3. Spaced(t)
  BY <1>2 DEF Spaced
<1>4. CASE Fires(d, Unevaluated, Start)
  <2>1. /\ Predicate(d, Start) /\ d.every \in Nat \ {0}
        /\ trig[t].hasNext /\ trig[t].next = Start + d.every
    BY <1>1, <1>4, RepeatFires
  <2>2. trig[t].hasLast /\ trig[t].last /\ trig[t].count = 1
    BY <1>1, <1>4, <2>1, EvaluateCount
  <2> QED
    BY <1>1, <1>2, <1>3, <2>1, <2>2 DEF Beating
<1>5. CASE ~Fires(d, Unevaluated, Start)
  <2>1. ~Predicate(d, Start)
    BY <1>1, <1>5, RepeatFires
  <2>2. trig[t].hasLast /\ ~trig[t].last /\ trig[t].count = 0
    BY <1>1, <1>5, <2>1, EvaluateCount
  <2> QED
    BY <1>3, <2>2 DEF Beating
<1> QED
  BY <1>3, <1>4, <1>5

\* An advance stops at the beat at the latest: a cadence is pending work.
LEMMA StopsAtBeat ==
    ASSUME TypeOK, NEW w \in Worker, CommitClockAdvance(w),
           NEW t \in Trigger, trig[t].hasNext, trig[t].last
    PROVE  job[w].fence.target.instant <= trig[t].next
<1> DEFINE f == job[w].fence
<1>1. f \in Fence /\ Picks(clk, Pending, f.target)
  BY DEF CommitClockAdvance, CanCommitAdvance, CanPublish, StillSelected, TypeOK
<1>2. At(trig[t].next, 0) \in Pending
  BY DEF Pending, Cadences, CadencePending
<1> HIDE DEF f
<1>3. /\ NotAfter(f.target, At(trig[t].next, 0))
      /\ f.target \in Coordinate /\ trig[t].next \in Int
  BY <1>1, <1>2 DEF Picks, Smallest, Fence, TypeOK, Runtime
<1> QED
  BY <1>3 DEF NotAfter, Precedes, Coordinate, f

LEMMA InTimeAdvance ==
    ASSUME TypeOK, Numbered, InTime, NEW w \in Worker, CommitClockAdvance(w),
           NEW t \in Trigger, Definition[t].policy = "repeat"
    PROVE  Beating(t)' /\ Spaced(t)'
<1> DEFINE d  == Definition[t]
           to == job[w].fence.target.instant
           n  == trig[t].count
<1>1. /\ to \in Int /\ to > clk.instant /\ clk'.instant = to
      /\ trig'[t] = Evaluated(t, trig[t], to, clk.revision + 1)
  BY AdvanceOfTrigger
<1>2. trig[t] \in Runtime /\ n \in Nat /\ clk.instant \in Int
  BY DEF TypeOK, Runtime, ClockState
<1>3. Beating(t) /\ Spaced(t)
  BY DEF InTime
<1>4. \A a \in Fired(t) : a.count \in 1 .. n /\ a.at.instant \in Int
  BY DEF Numbered, TriggersCurrent, Fired, TypeOK, Activation, Coordinate
<1>5. d.every \in Nat \ {0} /\ d.threshold \in Int
  BY <1>2, <1>3, RepeatFires DEF Beating
<1>6. trig[t].last = Predicate(d, clk.instant)
  BY DEF Numbered, TriggersCurrent
<1>7. trig[t].last => trig[t].hasNext /\ to <= trig[t].next
  BY <1>3, StopsAtBeat DEF Beating
<1> HIDE DEF to, n
<1>8. CASE Fires(d, trig[t], to)
  <2> DEFINE x == Firing(t, to)
  <2>1. /\ Fired(t)' = Fired(t) \cup {x}
        /\ x.count = n + 1 /\ x.at.instant = to
    BY <1>8, AdvanceOfTrigger DEF Firing, to, n
  <2>2. /\ trig'[t].hasLast /\ trig'[t].last /\ trig'[t].hasNext
        /\ trig'[t].next = to + d.every /\ trig'[t].count = n + 1
    BY <1>1, <1>2, <1>7, <1>8, RepeatFires, EvaluateCount DEF n
  <2>3. \A a \in Fired(t) : a.count = n => to = a.at.instant + d.every
    <3>1. CASE trig[t].last
      <4>1. to = trig[t].next
        <5>1. to >= trig[t].next
          BY <1>1, <1>2, <1>3, <1>7, <1>8, <3>1, RepeatFires DEF Beating
        <5> QED
          BY <1>1, <1>2, <1>7, <3>1, <5>1 DEF Runtime
      <4> QED
        BY <1>3, <3>1, <4>1 DEF Beating, n
    <3>2. CASE ~trig[t].last
      BY <1>3, <1>4, <3>2 DEF Beating, n
    <3> QED
      BY <3>1, <3>2
  <2> HIDE DEF x
  <2>4. \A a \in Fired(t) : a.count # n + 1 /\ n + 1 # n /\ a.count + 1 # a.count
    BY <1>2, <1>4
  <2>5. Beating(t)'
    BY <1>1, <1>5, <2>1, <2>2, <2>4 DEF Beating
  <2>6. Spaced(t)'
    BY <1>2, <1>3, <1>4, <2>1, <2>3 DEF Spaced
  <2> QED
    BY <2>5, <2>6
<1>9. CASE ~Fires(d, trig[t], to)
  <2>1. Fired(t)' = Fired(t)
    BY <1>9, AdvanceOfTrigger DEF to
  <2>2. Spaced(t)'
    BY <1>3, <2>1 DEF Spaced
  <2>3. CASE trig[t].last
    <3>1. Predicate(d, to)
      <4>1. clk.instant >= d.threshold
        BY <1>6, <2>3 DEF Predicate
      <4> QED
        BY <1>1, <1>2, <1>5, <4>1 DEF Predicate
    <3>2. to < trig[t].next
      BY <1>1, <1>2, <1>7, <1>9, <2>3, <3>1, RepeatFires DEF Runtime
    <3>3. /\ trig'[t].hasLast /\ trig'[t].last /\ trig'[t].hasNext
          /\ trig'[t].next = trig[t].next /\ trig'[t].count = trig[t].count
      BY <1>1, <1>2, <1>7, <1>9, <2>3, <3>1, RepeatFires, EvaluateCount
    <3> QED
      BY <1>1, <1>3, <2>1, <2>2, <2>3, <3>2, <3>3 DEF Beating
  <2>4. CASE ~trig[t].last
    <3>1. ~Predicate(d, to)
      BY <1>1, <1>2, <1>7, <1>9, <2>4, RepeatFires
    <3>2. trig'[t].hasLast /\ ~trig'[t].last /\ trig'[t].count = trig[t].count
      BY <1>1, <1>9, <3>1, EvaluateCount
    <3> QED
      BY <1>3, <2>2, <2>4, <3>2 DEF Beating
  <2> QED
    BY <2>3, <2>4
<1> QED
  BY <1>8, <1>9

LEMMA InTimeStep == TypeOK /\ Numbered /\ InTime /\ [Next]_vars => InTime'
<1> SUFFICES ASSUME TypeOK, Numbered, InTime, [Next]_vars PROVE InTime'
  OBVIOUS
<1>1. ASSUME UNCHANGED <<acts, trig, clk.instant>> PROVE InTime'
  BY <1>1 DEF InTime, Beating, Spaced, Fired
<1>2. ASSUME NEW w \in Worker, CommitWork(w) PROVE InTime'
  BY <1>1, <1>2 DEF CommitWork, ApplyWork
<1>3. ASSUME NEW w \in Worker, CommitClockAdvance(w) PROVE InTime'
  BY <1>3, InTimeAdvance DEF InTime
<1> QED
  BY <1>1, <1>2, <1>3, StepCases
     DEF Admit, AbortFence, Retry, Seed, DeclareRound, Quiet, schedule

\* A repeating trigger fires at its threshold's first evaluation and then every
\* cadence exactly: no advance jumps over a beat and none comes late.
THEOREM BeatsAreOnTime == Spec => []BeatsOnTime
<1>1. InTime => BeatsOnTime
  BY DEF InTime, Beating, Spaced, BeatsOnTime, Fired
<1> QED
  BY <1>1, TypeInit, TypeStep, NumberedInit, NumberedStep, InTimeInit,
     InTimeStep, PTL DEF Spec

--------------------------------------------------------------------------------
(* Series recur, and units are settled at their own coordinate.            *)

\* A series moves forward: an occurrence is named by its source and due
\* instant, and only the latest of its source can be unsettled.  Until the
\* first commit there are only genesis occurrences.
Series ==
    /\ commits = {} => occs \subseteq Genesis
    /\ \A o, p \in occs : o.source = p.source =>
          \/ o = p
          \/ o.due < p.due /\ Settled(OccUnit(o))
          \/ p.due < o.due /\ Settled(OccUnit(p))

\* What a commit settled was in the ledgers: no later seeding, activation or
\* declaration takes a name that is already settled.
Named ==
    \A f \in commits : \A u \in f.units :
        \/ \E o \in occs : u = OccUnit(o)
        \/ \E a \in acts : u = ActUnit(a)
        \/ \E r \in Round, s \in Slot : opened[r] # None /\ u = SlotUnit(r, s)

Scheduled == Series /\ Named /\ SettledOnTime /\ RecurrenceKept

\* Units of different kinds differ, and each kind is told apart by its names.
LEMMA UnitNames ==
    /\ \A o, a : OccUnit(o) # ActUnit(a)
    /\ \A o, r, s : OccUnit(o) # SlotUnit(r, s)
    /\ \A a, r, s : ActUnit(a) # SlotUnit(r, s)
    /\ \A o, p : OccUnit(o) = OccUnit(p) <=> o.source = p.source /\ o.due = p.due
    /\ \A r, s, q, t : SlotUnit(r, s) = SlotUnit(q, t) => r = q /\ s = t
BY DEF OccUnit, ActUnit, SlotUnit

\* The instants and counts of occurrences are numbers.
LEMMA OccurrenceFields ==
    ASSUME NEW o \in Occurrence
    PROVE  o.due \in Int /\ o.every \in Nat /\ o.at \in Coordinate
BY DEF Occurrence

\* In a series that moves forward two occurrences have different names.
LEMMA SeriesNames ==
    ASSUME TypeOK, Series, NEW o \in occs, NEW p \in occs,
           OccUnit(o) = OccUnit(p)
    PROVE  o = p
BY UnitNames, OccurrenceFields DEF Series, TypeOK

LEMMA ScheduledInit == Init => Scheduled
BY GenesisAssumption
   DEF Init, Scheduled, Series, Named, SettledOnTime, RecurrenceKept, Settled

\* What is due at the coordinate the clock selects lies exactly there.
LEMMA DueAtSelected ==
    ASSUME TypeOK, NEW c \in Coordinate, Picks(clk, Pending, c)
    PROVE  /\ \A o \in DueOccs(c) : o.at = c
           /\ \A a \in DueActs(c) : a.at = c
           /\ \A r \in DueRounds(c) : opened[r] = c
<1>1. ASSUME NEW p \in Pending, NotAfter(p, c) PROVE p = c
  <2>1. p \in Coordinate /\ NotAfter(c, p)
    BY PendingType DEF Picks, Smallest
  <2>2. p.instant = c.instant /\ p.ordinal = c.ordinal
    BY <1>1, <2>1, CoordinateOrder DEF Coordinate
  <2> QED
    BY <2>1, <2>2 DEF Coordinate
<1> QED
  BY <1>1 DEF DueOccs, DueActs, DueRounds, Pending

\* What a published WORK cycle settles and leaves.
LEMMA WorkOfCycle ==
    ASSUME TypeOK, Shape, SealedCutRederives, NEW w \in Worker, CommitWork(w)
    PROVE  LET f == job[w].fence IN
           /\ f.cycle \in Coordinate /\ Picks(clk, Pending, f.cycle)
           /\ f.units = DueUnits(f.cycle) /\ f.rounds = DueRounds(f.cycle)
           /\ \A u \in f.units : ~Settled(u)
           /\ commits' = commits \cup {f}
           /\ occs' = occs \cup {Successor(o) : o \in Deferred(f)}
           /\ acts' = acts /\ opened' = opened
<1> DEFINE f == job[w].fence
<1>1. /\ f \in fences /\ f.kind = "work" /\ control = InFlight(f)
      /\ StillSelected(f)
      /\ commits' = commits \cup {f}
      /\ occs' = occs \cup {Successor(o) : o \in Deferred(f)}
      /\ acts' = acts /\ opened' = opened
  BY DEF CommitWork, CanCommitWork, CanPublish, ledger
<1>2. f.cycle \in Coordinate /\ f.target = f.cycle
  BY <1>1 DEF TypeOK, Fence, Shape, FenceShape, Targets
<1>3. Rederives(f)
  BY <1>1 DEF SealedCutRederives, InFlight
<1> HIDE DEF f
<1>4. f.units = DueUnits(f.cycle) /\ f.rounds = DueRounds(f.cycle)
  BY <1>3 DEF Rederives
<1>5. \A u \in f.units : ~Settled(u)
  BY <1>4, DueIsFresh DEF Shape
<1>6. Picks(clk, Pending, f.cycle)
  BY <1>1, <1>2 DEF StillSelected
<1> QED
  BY <1>1, <1>2, <1>4, <1>5, <1>6 DEF f

\* An unsettled occurrence is the latest of its series, and its successor is
\* later than all of them.
LEMMA SuccessorIsNew ==
    ASSUME TypeOK, Series, NEW o \in occs, ~Settled(OccUnit(o)), Defers(o)
    PROVE  /\ Successor(o).source = o.source
           /\ \A q \in occs : q.source = o.source =>
                 q.due <= o.due /\ q.due < Successor(o).due
<1>1. /\ Successor(o).source = o.source
      /\ Successor(o).due = o.due + o.every
  BY DEF Successor
<1>2. o.due \in Int /\ o.every \in Nat \ {0}
  BY OccurrenceFields DEF TypeOK, Defers
<1>3. ASSUME NEW q \in occs, q.source = o.source PROVE q.due <= o.due
  BY <1>2, <1>3, OccurrenceFields DEF Series, TypeOK
<1>4. \A q \in occs : q.due \in Int
  BY OccurrenceFields DEF TypeOK
<1> QED
  BY <1>1, <1>2, <1>3, <1>4

\* A successor is new to the schedule, and no commit knows its name.
LEMMA SuccessorIsFresh ==
    ASSUME TypeOK, Shape, SealedCutRederives, Scheduled,
           NEW w \in Worker, CommitWork(w), NEW o \in Deferred(job[w].fence)
    PROVE  /\ o \in occs /\ Successor(o) \notin occs
           /\ \A g \in commits' : OccUnit(Successor(o)) \notin g.units
<1> DEFINE f == job[w].fence
<1>1. /\ f.units = DueUnits(f.cycle)
      /\ \A u \in f.units : ~Settled(u)
      /\ commits' = commits \cup {f}
  BY WorkOfCycle
<1> HIDE DEF f
<1>2. o \in occs /\ ~Settled(OccUnit(o)) /\ Defers(o)
  BY <1>1 DEF Deferred, f
<1>3. \A q \in occs : OccUnit(q) # OccUnit(Successor(o))
  <2>1. \A q \in occs : q.source = Successor(o).source => q.due < Successor(o).due
    BY <1>2, SuccessorIsNew DEF Scheduled
  <2>2. \A q \in occs : q.due \in Int
    BY OccurrenceFields DEF TypeOK
  <2>3. Successor(o).due \in Int
    BY <1>2, SuccessorType, OccurrenceFields DEF TypeOK
  <2> QED
    BY <2>1, <2>2, <2>3, UnitNames
<1>4. \A g \in commits : OccUnit(Successor(o)) \notin g.units
  BY <1>3, UnitNames DEF Scheduled, Named
<1>5. OccUnit(Successor(o)) \notin f.units
  BY <1>1, <1>3, UnitNames DEF DueUnits, DueOccs, PendingOccs
<1> QED
  BY <1>1, <1>2, <1>3, <1>4, <1>5

\* A WORK cycle settles what is due and extends the series it settles.
LEMMA ScheduledWork ==
    ASSUME TypeOK, Shape, SealedCutRederives, ActsNamed, Scheduled,
           NEW w \in Worker, CommitWork(w)
    PROVE  Scheduled'
<1> DEFINE f == job[w].fence
<1>1. /\ f.cycle \in Coordinate /\ Picks(clk, Pending, f.cycle)
      /\ f.units = DueUnits(f.cycle) /\ f.rounds = DueRounds(f.cycle)
      /\ \A u \in f.units : ~Settled(u)
      /\ commits' = commits \cup {f}
      /\ occs' = occs \cup {Successor(o) : o \in Deferred(f)}
      /\ acts' = acts /\ opened' = opened
  BY WorkOfCycle
<1> HIDE DEF f
<1>2. /\ \A u : Settled(u) => Settled(u)'
      /\ \A u \in f.units : Settled(u)'
      /\ \A u : Settled(u)' => Settled(u) \/ u \in f.units
  BY <1>1 DEF Settled
<1>3. Series /\ Named /\ SettledOnTime /\ RecurrenceKept
  BY DEF Scheduled
<1>4. ASSUME NEW u \in f.units
      PROVE  \/ \E o \in DueOccs(f.cycle) : u = OccUnit(o)
             \/ \E a \in DueActs(f.cycle) : u = ActUnit(a)
             \/ \E r \in DueRounds(f.cycle), s \in Slot : u = SlotUnit(r, s)
  BY <1>1 DEF DueUnits
<1>5. ASSUME NEW g \in commits', NEW u \in g.units
      PROVE  \/ \E o \in occs : u = OccUnit(o)
             \/ \E a \in acts : u = ActUnit(a)
             \/ \E r \in Round, s \in Slot :
                   opened[r] # None /\ u = SlotUnit(r, s)
  <2>1. CASE g \in commits
    BY <1>3, <2>1 DEF Named
  <2>2. CASE g = f
    BY <1>4, <2>2
       DEF DueOccs, PendingOccs, DueActs, PendingActs, DueRounds, PendingRounds
  <2> QED
    BY <1>1, <2>1, <2>2
<1>6. \A o \in Deferred(f) : o \in occs /\ ~Settled(OccUnit(o)) /\ Defers(o)
  BY <1>1 DEF Deferred
<1>7. \A o \in Deferred(f) :
         /\ Successor(o) \notin occs
         /\ \A g \in commits' : OccUnit(Successor(o)) \notin g.units
  BY SuccessorIsFresh DEF f
<1>8. Series'
  <2> SUFFICES ASSUME NEW o \in occs', NEW p \in occs', o.source = p.source
               PROVE  \/ o = p
                      \/ o.due < p.due /\ Settled(OccUnit(o))'
                      \/ p.due < o.due /\ Settled(OccUnit(p))'
    BY <1>1 DEF Series
  <2>1. ASSUME NEW q \in occs, NEW x \in Deferred(f),
               q.source = Successor(x).source
        PROVE  q.due < Successor(x).due /\ Settled(OccUnit(q))'
    <3>1. q.source = x.source /\ q.due <= x.due /\ q.due < Successor(x).due
      BY <1>3, <1>6, <2>1, SuccessorIsNew
    <3>2. q = x \/ Settled(OccUnit(q))
      BY <1>3, <1>6, <3>1, OccurrenceFields DEF Series, TypeOK
    <3>3. OccUnit(x) \in f.units
      BY DEF Deferred
    <3> QED
      BY <1>2, <3>1, <3>2, <3>3
  <2>2. CASE o \in occs /\ p \in occs
    BY <1>2, <1>3, <2>2 DEF Series
  <2>3. CASE o \in occs /\ p \notin occs
    BY <1>1, <2>1, <2>3
  <2>4. CASE o \notin occs /\ p \in occs
    BY <1>1, <2>1, <2>4
  <2>5. CASE o \notin occs /\ p \notin occs
    <3>1. PICK x \in Deferred(f) : o = Successor(x)
      BY <1>1, <2>5
    <3>2. PICK y \in Deferred(f) : p = Successor(y)
      BY <1>1, <2>5
    <3>3. x.source = y.source
      BY <1>3, <1>6, <3>1, <3>2, SuccessorIsNew
    <3>4. x = y
      BY <1>3, <1>6, <3>3 DEF Series
    <3> QED
      BY <3>1, <3>2, <3>4
  <2> QED
    BY <2>2, <2>3, <2>4, <2>5
<1>9. Named'
  BY <1>1, <1>5 DEF Named
<1>10. SettledOnTime'
  <2>1. ASSUME NEW g \in commits', NEW o \in occs', OccUnit(o) \in g.units
        PROVE  o.at = g.cycle
    <3>1. o \in occs
      BY <1>1, <1>7, <2>1
    <3>2. CASE g \in commits
      BY <1>3, <2>1, <3>1, <3>2 DEF SettledOnTime
    <3>3. CASE g = f
      <4>1. PICK q \in DueOccs(f.cycle) : OccUnit(o) = OccUnit(q)
        BY <1>4, <2>1, <3>3, UnitNames
      <4>2. q = o
        BY <1>3, <3>1, <4>1, SeriesNames DEF DueOccs, PendingOccs
      <4> QED
        BY <1>1, <3>3, <4>1, <4>2, DueAtSelected
    <3> QED
      BY <1>1, <3>2, <3>3
  <2>2. ASSUME NEW g \in commits', NEW a \in acts', ActUnit(a) \in g.units
        PROVE  a.at = g.cycle
    <3>1. CASE g \in commits
      BY <1>1, <1>3, <2>2, <3>1 DEF SettledOnTime
    <3>2. CASE g = f
      <4>1. PICK b \in DueActs(f.cycle) : ActUnit(a) = ActUnit(b)
        BY <1>4, <2>2, <3>2, UnitNames
      <4>2. b = a
        BY <1>1, <2>2, <4>1 DEF ActsNamed, DueActs, PendingActs
      <4> QED
        BY <1>1, <3>2, <4>1, <4>2, DueAtSelected
    <3> QED
      BY <1>1, <3>1, <3>2
  <2>3. ASSUME NEW g \in commits', NEW r \in g.rounds
        PROVE  opened'[r] = g.cycle
    BY <1>1, <1>3, <2>3, DueAtSelected DEF SettledOnTime
  <2> QED
    BY <2>1, <2>2, <2>3 DEF SettledOnTime
<1>11. RecurrenceKept'
  <2> SUFFICES ASSUME NEW o \in occs', Settled(OccUnit(o))', Defers(o)
               PROVE  Successor(o) \in occs'
    BY DEF RecurrenceKept
  <2>1. o \in occs
    BY <1>1, <1>7 DEF Settled
  <2>2. CASE Settled(OccUnit(o))
    BY <1>1, <1>3, <2>1, <2>2 DEF RecurrenceKept
  <2>3. CASE OccUnit(o) \in f.units
    BY <1>1, <2>1, <2>3 DEF Deferred
  <2> QED
    BY <1>2, <2>2, <2>3
<1> QED
  BY <1>8, <1>9, <1>10, <1>11 DEF Scheduled

\* An advance settles nothing, and no activation it leaves has a settled name.
LEMMA ScheduledAdvance ==
    ASSUME TypeOK, Shape, Numbered, Numbered', Scheduled, NEW w \in Worker,
           CommitClockAdvance(w)
    PROVE  Scheduled'
<1> DEFINE f == job[w].fence
<1>1. /\ f \in fences /\ f.kind = "advance" /\ f.units = {}
      /\ commits' = commits \cup {f}
      /\ acts \subseteq acts' /\ occs' = occs /\ opened' = opened
  BY DEF CommitClockAdvance, CanCommitAdvance, CanPublish, ledger
<1>2. f.rounds = {}
  BY <1>1, SlotAssumption DEF Shape, FenceShape, TypeOK, Fence
<1> HIDE DEF f
<1>3. \A u : Settled(u)' <=> Settled(u)
  BY <1>1 DEF Settled
<1>4. Series /\ Named /\ SettledOnTime /\ RecurrenceKept
  BY DEF Scheduled
<1>5. Series'
  BY <1>1, <1>3, <1>4 DEF Series
<1>6. Named'
  BY <1>1, <1>4 DEF Named
<1>7. ASSUME NEW g \in commits, NEW a \in acts', ActUnit(a) \in g.units
      PROVE  a.at = g.cycle
  <2>1. PICK b \in acts : ActUnit(a) = ActUnit(b)
    BY <1>4, <1>7, UnitNames DEF Named
  <2>2. a = b
    BY <1>1, <2>1 DEF Numbered, ActsNamed
  <2> QED
    BY <1>4, <1>7, <2>1, <2>2 DEF SettledOnTime
<1>8. SettledOnTime'
  BY <1>1, <1>2, <1>4, <1>7 DEF SettledOnTime
<1>9. RecurrenceKept'
  BY <1>1, <1>3, <1>4 DEF RecurrenceKept
<1> QED
  BY <1>5, <1>6, <1>8, <1>9 DEF Scheduled

\* The genesis schedule is seeded before the first commit.
LEMMA ScheduledSeed ==
    ASSUME TypeOK, Linear, Scheduled, NEW o \in Genesis, Seed(o)
    PROVE  Scheduled'
<1>1. /\ occs' = occs \cup {o} /\ clk.revision = 0
      /\ UNCHANGED <<acts, opened, commits>>
  BY DEF Seed, ledger, journal
<1>2. commits = {}
  BY <1>1 DEF Linear, BehindClock, TypeOK, Fence
<1>3. occs' \subseteq Genesis
  BY <1>1, <1>2 DEF Scheduled, Series
<1>4. \A u : ~Settled(u)'
  BY <1>1, <1>2 DEF Settled
<1>5. Series'
  BY <1>3, GenesisAssumption DEF Series
<1>6. Named' /\ SettledOnTime'
  BY <1>1, <1>2 DEF Named, SettledOnTime
<1>7. RecurrenceKept'
  BY <1>4 DEF RecurrenceKept
<1> QED
  BY <1>5, <1>6, <1>7 DEF Scheduled

\* A round that is declared late was settled by no cycle.
LEMMA ScheduledDeclare ==
    ASSUME TypeOK, Scheduled, NEW r \in Round, NEW c \in Openings,
           DeclareRound(r, c)
    PROVE  Scheduled'
<1>1. /\ opened[r] = None /\ opened' = [opened EXCEPT ![r] = c]
      /\ UNCHANGED <<occs, acts, commits>>
  BY DEF DeclareRound, schedule, journal
<1>2. c # None
  BY OpeningsAssumption, NoneAssumption
<1>3. \A u : Settled(u)' <=> Settled(u)
  BY <1>1 DEF Settled
<1>4. \A q \in Round : opened[q] # None => opened'[q] = opened[q]
  BY <1>1 DEF TypeOK
<1>5. \A f \in commits : f.cycle # None /\ f.rounds \subseteq Round
  BY NoneAssumption DEF TypeOK, Fence
<1>6. SettledOnTime'
  BY <1>1, <1>4, <1>5 DEF Scheduled, SettledOnTime
<1>7. Named'
  BY <1>1, <1>4 DEF Scheduled, Named
<1> QED
  BY <1>1, <1>3, <1>6, <1>7 DEF Scheduled, Series, RecurrenceKept

LEMMA ScheduledStep ==
    TypeOK /\ Shape /\ Linear /\ SealedCutRederives /\ Numbered /\ Numbered'
      /\ Scheduled /\ [Next]_vars => Scheduled'
<1> SUFFICES ASSUME TypeOK, Shape, Linear, SealedCutRederives, Numbered,
                    Numbered', Scheduled, [Next]_vars
             PROVE  Scheduled'
  OBVIOUS
<1>1. ASSUME UNCHANGED <<occs, acts, opened, commits>> PROVE Scheduled'
  BY <1>1 DEF Scheduled, Series, Named, SettledOnTime, RecurrenceKept, Settled
<1>2. ASSUME NEW w \in Worker, CommitWork(w) PROVE Scheduled'
  BY <1>2, ScheduledWork DEF Numbered
<1> QED
  BY <1>1, <1>2, ScheduledAdvance, ScheduledSeed, ScheduledDeclare, StepCases
     DEF Admit, AbortFence, Retry, Quiet, schedule, ledger, journal

\* The invariants of the open cut and of the chain that the schedule rests on.
LEMMA ScheduleHolds == Spec => []Scheduled
<1>1. Spec => [](TypeOK /\ Shape /\ OpenCut /\ Linear /\ Numbered)
  BY TypeInit, TypeStep, ShapeInit, ShapeStep, OpenCutInit, OpenCutStep,
     LinearInit, LinearStep, NumberedInit, NumberedStep, PTL DEF Spec
<1> QED
  BY <1>1, SealedCutStays, ScheduledInit, ScheduledStep, PTL DEF Spec

\* Every unit is settled by the cycle at exactly its own coordinate: never
\* early, never late, never swept along by a later cycle, and nothing seeded,
\* fired or declared afterwards takes the name of what was settled.
THEOREM EverythingSettlesOnTime == Spec => []SettledOnTime
<1>1. Scheduled => SettledOnTime
  BY DEF Scheduled
<1> QED
  BY <1>1, ScheduleHolds, PTL

\* A settled occurrence that recurs has its successor in the schedule: no
\* series ends early, whatever crashes, aborts and retries interleave.
THEOREM SeriesRecur == Spec => []RecurrenceKept
<1>1. Scheduled => RecurrenceKept
  BY DEF Scheduled
<1> QED
  BY <1>1, ScheduleHolds, PTL

--------------------------------------------------------------------------------
(* The fold of the audit.                                                  *)

ReplayStep(s, n) ==
    LET f == CommitAt(n) IN
    IF f.kind = "work" THEN ReplayWork(s, f) ELSE ReplayAdvance(s, f)

\* f holds what the audit has after each of the first k commits.
ReplaysTo(f, k) ==
    f = [n \in 0..k |-> IF n = 0 THEN GenesisReplay ELSE ReplayStep(f[n - 1], n - 1)]

\* A set of natural numbers with 0 and every successor has them all.
LEMMA EveryNumber ==
    ASSUME NEW T, 0 \in T, \A n \in Nat : n \in T => n + 1 \in T
    PROVE  Nat \subseteq T
<1> SUFFICES ASSUME Nat \ T # {} PROVE FALSE
  OBVIOUS
<1> DEFINE R == {x \in Nat \X Nat : x[1] < x[2]}
<1>1. IsWellFoundedOn(R, Nat)
  BY NatLessThanWellFounded DEF OpToRel
<1>2. PICK n \in Nat \ T : \A m \in Nat \ T : <<m, n>> \notin R
  BY <1>1, WFMin
<1>3. n # 0 /\ n - 1 \in Nat
  BY <1>2
<1>4. \A m \in Nat \ T : ~(m < n)
  BY <1>2
<1>5. n - 1 \in T
  BY <1>3, <1>4
<1>6. (n - 1) + 1 = n
  BY <1>3
<1> QED
  BY <1>3, <1>5, <1>6

LEMMA ReplayExists ==
    ASSUME NEW k \in Nat
    PROVE  \E f : ReplaysTo(f, k)
<1> DEFINE T == {n \in Nat : \E f : ReplaysTo(f, n)}
<1>1. 0 \in T
  <2>1. ReplaysTo([n \in 0..0 |-> GenesisReplay], 0)
    BY DEF ReplaysTo
  <2> QED
    BY <2>1
<1>2. ASSUME NEW n \in Nat, n \in T PROVE n + 1 \in T
  <2>1. PICK f : ReplaysTo(f, n)
    BY <1>2
  <2> DEFINE g == [i \in 0..(n + 1) |->
                     IF i = n + 1 THEN ReplayStep(f[n], n) ELSE f[i]]
  <2>2. ASSUME NEW i \in 0..(n + 1)
        PROVE  g[i] = IF i = 0 THEN GenesisReplay ELSE ReplayStep(g[i - 1], i - 1)
    <3>1. CASE i = n + 1
      <4>1. i - 1 = n /\ i # 0 /\ i - 1 \in 0..(n + 1) /\ i - 1 # n + 1
        BY <3>1
      <4>2. g[i - 1] = f[n]
        BY <4>1
      <4> QED
        BY <3>1, <4>1, <4>2
    <3>2. CASE i # n + 1 /\ i # 0
      <4>1. i \in 0..n /\ i - 1 \in 0..n /\ i - 1 # n + 1
        BY <3>2
      <4>2. g[i] = f[i] /\ g[i - 1] = f[i - 1]
        BY <3>2, <4>1
      <4>3. f[i] = ReplayStep(f[i - 1], i - 1)
        BY <2>1, <3>2, <4>1 DEF ReplaysTo
      <4> QED
        BY <3>2, <4>2, <4>3
    <3>3. CASE i = 0
      BY <2>1, <3>3 DEF ReplaysTo
    <3> QED
      BY <3>1, <3>2, <3>3
  <2>3. ReplaysTo(g, n + 1)
    BY <2>2 DEF ReplaysTo
  <2> QED
    BY <2>3
<1> HIDE DEF T
<1>3. Nat \subseteq T
  BY <1>1, <1>2, EveryNumber
<1> QED
  BY <1>3 DEF T

LEMMA ReplayUnique ==
    ASSUME NEW k \in Nat, NEW l \in Nat, k <= l,
           NEW f, ReplaysTo(f, k), NEW g, ReplaysTo(g, l)
    PROVE  f[k] = g[k]
<1> DEFINE T == {n \in Nat : n <= k => f[n] = g[n]}
<1>1. 0 \in T
  BY DEF ReplaysTo
<1>2. ASSUME NEW n \in Nat, n \in T PROVE n + 1 \in T
  <2> SUFFICES ASSUME n + 1 <= k PROVE f[n + 1] = g[n + 1]
    OBVIOUS
  <2>1. /\ f[n] = g[n] /\ n + 1 \in 0..k /\ n + 1 \in 0..l
        /\ (n + 1) - 1 = n /\ n + 1 # 0
    BY <1>2
  <2>2. f[n + 1] = ReplayStep(f[n], n) /\ g[n + 1] = ReplayStep(g[n], n)
    BY <2>1 DEF ReplaysTo
  <2> QED
    BY <2>1, <2>2
<1> HIDE DEF T
<1>3. Nat \subseteq T
  BY <1>1, <1>2, EveryNumber
<1> QED
  BY <1>3 DEF T

\* The audit starts from the genesis and takes one commit after the other.
LEMMA ReplayIsFold ==
    /\ Replayed[0] = GenesisReplay
    /\ \A n \in Nat : Replayed[n + 1] = ReplayStep(Replayed[n], n)
<1> DEFINE IsFold(r) ==
        r = [n \in Nat |-> IF n = 0 THEN GenesisReplay
                                    ELSE ReplayStep(r[n - 1], n - 1)]
           At0(k) == CHOOSE f : ReplaysTo(f, k)
           F == [n \in Nat |-> At0(n)[n]]
<1>1. \A k \in Nat : ReplaysTo(At0(k), k)
  BY ReplayExists
<1> HIDE DEF At0
<1>2. ASSUME NEW n \in Nat
      PROVE  F[n] = IF n = 0 THEN GenesisReplay ELSE ReplayStep(F[n - 1], n - 1)
  <2>1. CASE n = 0
    BY <1>1, <2>1 DEF ReplaysTo
  <2>2. CASE n # 0
    <3>1. n - 1 \in Nat /\ n - 1 <= n /\ n \in 0..n /\ n - 1 \in 0..n
      BY <2>2
    <3>2. At0(n - 1)[n - 1] = At0(n)[n - 1]
      BY <1>1, <3>1, ReplayUnique
    <3>3. At0(n)[n] = ReplayStep(At0(n)[n - 1], n - 1)
      BY <1>1, <2>2, <3>1 DEF ReplaysTo
    <3> QED
      BY <2>2, <3>1, <3>2, <3>3
  <2> QED
    BY <2>1, <2>2
<1> HIDE DEF F
<1>3. IsFold([n \in Nat |-> F[n]])
  <2> DEFINE r == [n \in Nat |-> F[n]]
             s == [n \in Nat |-> IF n = 0 THEN GenesisReplay
                                    ELSE ReplayStep(r[n - 1], n - 1)]
  <2>1. \A n \in Nat : r[n] = s[n]
    <3> TAKE n \in Nat
    <3>1. CASE n = 0
      BY <1>2, <3>1
    <3>2. CASE n # 0
      <4>1. n - 1 \in Nat /\ r[n - 1] = F[n - 1] /\ r[n] = F[n]
        BY <3>2
      <4> QED
        BY <1>2, <3>2, <4>1
    <3> QED
      BY <3>1, <3>2
  <2> QED
    BY <2>1
<1>4. Replayed = CHOOSE r : IsFold(r)
  BY DEF Replayed, ReplayStep
<1>5. IsFold(Replayed)
  BY <1>3, <1>4
<1>6. ASSUME NEW n \in Nat PROVE Replayed[n + 1] = ReplayStep(Replayed[n], n)
  <2>1. n + 1 \in Nat /\ n + 1 # 0 /\ (n + 1) - 1 = n
    OBVIOUS
  <2> QED
    BY <1>5, <2>1
<1>7. Replayed[0] = GenesisReplay
  BY <1>5
<1> QED
  BY <1>6, <1>7

--------------------------------------------------------------------------------
(* What was pending at the revision of each commit, and its choice.        *)

\* What is in the ledgers was born by now, of a series that was seeded.
Born ==
    /\ Start <= clk.instant
    /\ \A o \in occs :
          /\ OccBornBy(o, clk.revision)
          /\ \E p \in Genesis \cap occs : p.source = o.source
    /\ \A a \in acts : ActBornBy(a, clk.revision)

\* Every commit is of the smallest unit that was pending when it was chosen.
Chosen ==
    \A f \in commits :
        /\ \A c \in PendingThen(f.base) : NotAfter(f.target, c)
        /\ f.kind = "work" \/ WaitedFor(f.target) =>
              f.target \in PendingThen(f.base)

\* What the audit asks of the clock s.clk and the commit that follows it, but
\* for the choice.
Lives(s, f, t) ==
    /\ s.clk.revision = f.base /\ ~OrdinalExhausted(s.clk)
    /\ NotAfter(Floor(s.clk), f.target)
    /\ f.kind = "work" =>
          /\ ~CascadeExceeded(Cardinality(
                {g \in WorkAt(s.clk.instant) : g.base < f.base}))
          /\ f.cycle.ordinal > s.clk.last
          /\ f.cycle.instant = s.clk.instant
          /\ t = [accepted |-> TRUE, clk |-> ApplyWork(s.clk, f.cycle.ordinal),
                  trig |-> s.trig, acts |-> s.acts]
    /\ f.kind = "advance" =>
          LET to == f.target.instant IN
          /\ f.cycle = At(s.clk.instant, s.clk.last + 1)
          /\ to > s.clk.instant
          /\ \A u \in Trigger : Evaluable(s.trig[u], f.base + 1)
          /\ ReplayFired(s, to) \subseteq acts
          /\ t = [accepted |-> TRUE, clk |-> ApplyAdvance(s.clk, to),
                  trig |-> [u \in Trigger |->
                               Evaluated(u, s.trig[u], to, f.base + 1)],
                  acts |-> s.acts \cup ReplayFired(s, to)]

\* h is what the run was at each of its revisions.
Lived(h) ==
    /\ h[0] = GenesisReplay
    /\ h[clk.revision] =
          [accepted |-> TRUE, clk |-> clk, trig |-> trig, acts |-> acts]
    /\ \A f \in commits : Lives(h[f.base], f, h[f.base + 1])

--------------------------------------------------------------------------------
(* What is pending now is what was pending at the present revision, but    *)
(* for the cadences.                                                       *)

LEMMA CommitFields ==
    ASSUME TypeOK, NEW f \in commits
    PROVE  /\ f \in fences /\ f \in Fence /\ f.base \in Nat
           /\ f.cycle \in Coordinate /\ f.target \in Coordinate
           /\ f.kind \in {"work", "advance"} /\ f.rounds \subseteq Round
BY DEF TypeOK, Fence

LEMMA PresentSettled ==
    ASSUME TypeOK, Shape, Linear
    PROVE  /\ \A u : SettledBy(u, clk.revision) <=> Settled(u)
           /\ \A r \in Round : opened[r] # None =>
                 (r \in PendingRounds <=> ~RoundSettledBy(r, clk.revision))
<1>1. \A f \in commits : f.base < clk.revision
  BY DEF Linear, BehindClock
<1>2. \A u : SettledBy(u, clk.revision) <=> Settled(u)
  BY <1>1 DEF SettledBy, Settled
<1>3. ASSUME NEW r \in Round, opened[r] # None
      PROVE  r \in PendingRounds <=> ~RoundSettledBy(r, clk.revision)
  <2>1. \A f \in commits, s \in Slot : SlotUnit(r, s) \in f.units <=> r \in f.rounds
    BY CommitFields DEF Shape, FenceShape
  <2>2. \A s \in Slot : Settled(SlotUnit(r, s)) <=> RoundSettledBy(r, clk.revision)
    BY <1>1, <2>1 DEF Settled, RoundSettledBy
  <2> QED
    BY <1>3, <2>2, SlotAssumption DEF PendingRounds
<1> QED
  BY <1>2, <1>3

LEMMA PresentPending ==
    ASSUME TypeOK, Shape, Linear, Born
    PROVE  PendingThen(clk.revision) =
               {o.at : o \in PendingOccs} \cup {a.at : a \in PendingActs}
                 \cup {opened[r] : r \in PendingRounds}
<1>1. {p \in occs : /\ OccBornBy(p, clk.revision)
                    /\ ~SettledBy(OccUnit(p), clk.revision)} = PendingOccs
  BY PresentSettled DEF Born, PendingOccs
<1>2. {b \in acts : /\ ActBornBy(b, clk.revision)
                    /\ ~SettledBy(ActUnit(b), clk.revision)} = PendingActs
  BY PresentSettled DEF Born, PendingActs
<1>3. {q \in Round : /\ opened[q] # None
                     /\ ~RoundSettledBy(q, clk.revision)} = PendingRounds
  BY PresentSettled DEF PendingRounds
<1> QED
  BY <1>1, <1>2, <1>3 DEF PendingThen

--------------------------------------------------------------------------------
(* A commit leaves what was pending before it as it was.                   *)

\* What an earlier revision knew to be settled, and what it knew at all, is
\* told from commits that are there already.
LEMMA ThenBySettled ==
    ASSUME NEW f, commits' = commits \cup {f}, f.base = clk.revision,
           clk.revision \in Nat, NEW n \in Nat, n <= clk.revision
    PROVE  /\ \A u : SettledBy(u, n)' <=> SettledBy(u, n)
           /\ \A r : RoundSettledBy(r, n)' <=> RoundSettledBy(r, n)
           /\ \A a : ActBornBy(a, n)' <=> ActBornBy(a, n)
<1>1. ~(f.base < n)
  OBVIOUS
<1> QED
  BY <1>1 DEF SettledBy, RoundSettledBy, ActBornBy

LEMMA ThenByWork ==
    ASSUME TypeOK, Shape, OpenCut, Linear, SealedCutRederives, Scheduled, Born,
           NEW w \in Worker, CommitWork(w), NEW n \in Nat, n <= clk.revision
    PROVE  PendingThen(n)' = PendingThen(n)
<1> DEFINE f == job[w].fence
<1>1. /\ commits' = commits \cup {f} /\ f.base = clk.revision
      /\ clk.revision \in Nat
  BY Publication DEF TypeOK, ClockState
<1>2. /\ occs' = occs \cup {Successor(o) : o \in Deferred(f)}
      /\ acts' = acts /\ opened' = opened
  BY WorkOfCycle
<1>3. \A o \in Deferred(f) :
         /\ o \in occs /\ Successor(o) \notin occs
         /\ \A g \in commits' : OccUnit(Successor(o)) \notin g.units
  BY SuccessorIsFresh
<1> HIDE DEF f
<1>4. \A g \in commits : Deferred(g)' = Deferred(g)
  BY <1>1, <1>2, <1>3 DEF Deferred
<1>5. \A o : OccBornBy(o, n)' <=> OccBornBy(o, n)
  <2>1. ~(f.base < n)
    BY <1>1
  <2> QED
    BY <1>1, <1>4, <2>1 DEF OccBornBy
<1>6. ASSUME NEW o \in Deferred(f) PROVE ~OccBornBy(Successor(o), n)
  <2>1. o \in occs /\ Successor(o) \notin occs
    BY <1>3
  <2>2. Successor(o) \notin Genesis
    <3>1. PICK p \in Genesis \cap occs : p.source = o.source
      BY <2>1 DEF Born
    <3>2. Successor(o).source = o.source
      BY DEF Successor
    <3> QED
      BY <2>1, <3>1, <3>2, GenesisAssumption
  <2>3. \A g \in commits : \A p \in Deferred(g) : Successor(p) \in occs
    BY DEF Scheduled, RecurrenceKept, Deferred, Settled
  <2> QED
    BY <2>1, <2>2, <2>3 DEF OccBornBy
<1>7. {p \in occs : OccBornBy(p, n) /\ ~SettledBy(OccUnit(p), n)}' =
      {p \in occs : OccBornBy(p, n) /\ ~SettledBy(OccUnit(p), n)}
  BY <1>1, <1>2, <1>5, <1>6, ThenBySettled
<1>8. {b \in acts : ActBornBy(b, n) /\ ~SettledBy(ActUnit(b), n)}' =
      {b \in acts : ActBornBy(b, n) /\ ~SettledBy(ActUnit(b), n)}
  BY <1>1, <1>2, ThenBySettled
<1>9. {q \in Round : opened[q] # None /\ ~RoundSettledBy(q, n)}' =
      {q \in Round : opened[q] # None /\ ~RoundSettledBy(q, n)}
  BY <1>1, <1>2, ThenBySettled
<1> QED
  BY <1>2, <1>7, <1>8, <1>9 DEF PendingThen

LEMMA ThenByAdvance ==
    ASSUME TypeOK, Shape, OpenCut, Linear, Born, NEW w \in Worker,
           CommitClockAdvance(w), NEW n \in Nat, n <= clk.revision
    PROVE  PendingThen(n)' = PendingThen(n)
<1> DEFINE f == job[w].fence
<1>1. /\ commits' = commits \cup {f} /\ f.base = clk.revision
      /\ clk.revision \in Nat
  BY Publication DEF TypeOK, ClockState
<1>2. /\ occs' = occs /\ opened' = opened
      /\ f.target.instant > clk.instant /\ f.target.instant \in Int
      /\ f \in fences /\ f.units = {}
      /\ acts \subseteq acts'
      /\ \A a \in acts' : a \in acts \/ a.at.instant = f.target.instant
  <2>1. occs' = occs /\ opened' = opened
    BY DEF CommitClockAdvance, ledger
  <2>2. f.target.instant > clk.instant /\ f \in fences /\ f.units = {}
    BY DEF CommitClockAdvance, CanCommitAdvance, CanPublish
  <2>3. f.target.instant \in Int
    BY <2>2 DEF TypeOK, Fence, Coordinate
  <2>4. /\ acts \subseteq acts'
        /\ \A a \in acts' : a \in acts \/ a.at.instant = f.target.instant
    BY DEF CommitClockAdvance
  <2> QED
    BY <2>1, <2>2, <2>3, <2>4
<1> HIDE DEF f
<1>3. \A g \in commits : Deferred(g)' = Deferred(g)
  BY <1>2 DEF Deferred
<1>4. \A o : OccBornBy(o, n)' <=> OccBornBy(o, n)
  <2>1. ~(f.base < n)
    BY <1>1
  <2> QED
    BY <1>1, <1>3, <2>1 DEF OccBornBy
<1>5. ASSUME NEW a \in acts' \ acts PROVE ~ActBornBy(a, n)
  <2>1. a.at.instant = f.target.instant
    BY <1>2
  <2>2. f.target.instant # Start
    BY <1>2, BoundsAssumption DEF Born, TypeOK, ClockState
  <2>3. \A g \in commits : g.kind = "advance" => g.target.instant # f.target.instant
    <3> TAKE g \in commits
    <3>1. g.kind = "advance" => g.target.instant <= clk.instant
      BY DEF Linear, BehindClock
    <3>2. g.target.instant \in Int /\ clk.instant \in Int
      BY CommitFields DEF Coordinate, TypeOK, ClockState
    <3> QED
      BY <1>2, <3>1, <3>2
  <2> QED
    BY <2>1, <2>2, <2>3 DEF ActBornBy
<1>6. {p \in occs : OccBornBy(p, n) /\ ~SettledBy(OccUnit(p), n)}' =
      {p \in occs : OccBornBy(p, n) /\ ~SettledBy(OccUnit(p), n)}
  BY <1>1, <1>2, <1>4, ThenBySettled
<1>7. {b \in acts : ActBornBy(b, n) /\ ~SettledBy(ActUnit(b), n)}' =
      {b \in acts : ActBornBy(b, n) /\ ~SettledBy(ActUnit(b), n)}
  BY <1>1, <1>2, <1>5, ThenBySettled
<1>8. {q \in Round : opened[q] # None /\ ~RoundSettledBy(q, n)}' =
      {q \in Round : opened[q] # None /\ ~RoundSettledBy(q, n)}
  BY <1>1, <1>2, ThenBySettled
<1> QED
  BY <1>2, <1>6, <1>7, <1>8 DEF PendingThen

\* A round that is declared later only adds its own coordinate.
LEMMA ThenByDeclare ==
    ASSUME TypeOK, Scheduled, NEW r \in Round, NEW c \in Openings,
           DeclareRound(r, c), NEW n
    PROVE  PendingThen(n)' = PendingThen(n) \cup {c}
<1>1. /\ opened[r] = None /\ opened' = [opened EXCEPT ![r] = c]
      /\ UNCHANGED <<occs, acts, commits>>
  BY DEF DeclareRound, schedule, journal
<1>2. c # None /\ opened \in [Round -> Coordinate \cup {None}]
  BY OpeningsAssumption, NoneAssumption DEF TypeOK
<1>3. ~RoundSettledBy(r, n)
  <2>1. \A f \in commits : r \in f.rounds => opened[r] = f.cycle
    BY DEF Scheduled, SettledOnTime
  <2>2. \A f \in commits : f.cycle # None
    BY CommitFields, NoneAssumption
  <2> QED
    BY <1>1, <2>1, <2>2 DEF RoundSettledBy
<1>4. /\ \A o : OccBornBy(o, n)' <=> OccBornBy(o, n)
      /\ \A a : ActBornBy(a, n)' <=> ActBornBy(a, n)
      /\ \A u : SettledBy(u, n)' <=> SettledBy(u, n)
      /\ \A q : RoundSettledBy(q, n)' <=> RoundSettledBy(q, n)
  BY <1>1 DEF OccBornBy, ActBornBy, SettledBy, RoundSettledBy, Deferred
<1>5. {p \in occs : OccBornBy(p, n) /\ ~SettledBy(OccUnit(p), n)}' =
      {p \in occs : OccBornBy(p, n) /\ ~SettledBy(OccUnit(p), n)}
  BY <1>1, <1>4
<1>6. {b \in acts : ActBornBy(b, n) /\ ~SettledBy(ActUnit(b), n)}' =
      {b \in acts : ActBornBy(b, n) /\ ~SettledBy(ActUnit(b), n)}
  BY <1>1, <1>4
<1> DEFINE Waiting == {q \in Round : opened[q] # None /\ ~RoundSettledBy(q, n)}
<1>7. Waiting' = Waiting \cup {r}
  BY <1>1, <1>2, <1>3, <1>4
<1>8. r \notin Waiting /\ Waiting \subseteq Round
  BY <1>1
<1>9. {opened[q] : q \in Waiting}' = {opened[q] : q \in Waiting} \cup {c}
  <2>1. \A q \in Waiting : opened'[q] = opened[q]
    BY <1>1, <1>2, <1>8
  <2>2. opened'[r] = c
    BY <1>1, <1>2
  <2> HIDE DEF Waiting
  <2> QED
    BY <1>7, <2>1, <2>2
<1> QED
  BY <1>1, <1>5, <1>6, <1>9 DEF PendingThen

--------------------------------------------------------------------------------
(* The invariants of the audit hold of every run.                          *)

LEMMA BornInit == Init => Born
BY BoundsAssumption DEF Init, Born, OccBornBy, ActBornBy

\* What was born stays born.
LEMMA BornStays ==
    ASSUME TypeOK, TypeOK', Born, commits \subseteq commits', occs \subseteq occs',
           clk.revision <= clk'.revision
    PROVE  /\ \A o \in occs :
                 /\ OccBornBy(o, clk.revision)'
                 /\ \E p \in Genesis \cap occs' : p.source = o.source
           /\ \A a \in acts : ActBornBy(a, clk.revision)'
<1>1. clk.revision \in Nat /\ clk'.revision \in Nat
  BY DEF TypeOK, ClockState
<1>2. \A f \in commits : f.base < clk.revision => f.base < clk'.revision
  BY <1>1, CommitFields
<1>3. \A f \in commits : Deferred(f) \subseteq Deferred(f)'
  BY DEF Deferred
<1>4. \A o \in occs : OccBornBy(o, clk.revision)'
  BY <1>2, <1>3 DEF Born, OccBornBy
<1>5. \A a \in acts : ActBornBy(a, clk.revision)'
  BY <1>2 DEF Born, ActBornBy
<1> QED
  BY <1>4, <1>5 DEF Born

LEMMA BornStep ==
    TypeOK /\ TypeOK' /\ Shape /\ OpenCut /\ Linear /\ SealedCutRederives
      /\ Scheduled /\ Born /\ [Next]_vars => Born'
<1> SUFFICES ASSUME TypeOK, TypeOK', Shape, OpenCut, Linear,
                    SealedCutRederives, Scheduled, Born, [Next]_vars
             PROVE  Born'
  OBVIOUS
<1>1. /\ clk.revision \in Nat /\ clk.instant \in Int /\ Start \in Int
      /\ Start <= clk.instant
  BY BoundsAssumption DEF TypeOK, ClockState, Born
<1>2. ASSUME NEW w \in Worker, CommitWork(w) PROVE Born'
  <2>0. PICK f : f = job[w].fence
    OBVIOUS
  <2>1. /\ commits' = commits \cup {f} /\ f.base = clk.revision
        /\ clk'.revision = clk.revision + 1
    BY <1>2, <2>0, Publication
  <2>2. clk'.instant = clk.instant
    BY <1>2 DEF CommitWork, ApplyWork
  <2>3. occs' = occs \cup {Successor(o) : o \in Deferred(f)} /\ acts' = acts
    BY <1>2, <2>0, WorkOfCycle
  <2>4. \A o \in Deferred(f) : o \in occs
    BY DEF Deferred
  <2>5. /\ \A o \in occs :
              /\ OccBornBy(o, clk.revision)'
              /\ \E p \in Genesis \cap occs' : p.source = o.source
        /\ \A a \in acts : ActBornBy(a, clk.revision)'
    <3>1. clk.revision <= clk'.revision
      BY <1>1, <2>1
    <3> QED
      BY <2>1, <2>3, <3>1, BornStays
  <2>6. ASSUME NEW o \in Deferred(f)
        PROVE  /\ OccBornBy(Successor(o), clk.revision)'
               /\ \E p \in Genesis \cap occs' : p.source = Successor(o).source
    <3>1. o \in Deferred(f)'
      BY <2>3 DEF Deferred
    <3>2. f \in commits' /\ f.base < clk'.revision
      BY <1>1, <2>1
    <3>3. Successor(o).source = o.source
      BY DEF Successor
    <3>4. OccBornBy(Successor(o), clk.revision)'
      BY <3>1, <3>2 DEF OccBornBy
    <3> QED
      BY <2>4, <2>5, <3>3, <3>4
  <2> QED
    BY <1>1, <2>2, <2>3, <2>5, <2>6 DEF Born
<1>3. ASSUME NEW w \in Worker, CommitClockAdvance(w) PROVE Born'
  <2> DEFINE f == job[w].fence
  <2>1. /\ commits' = commits \cup {f} /\ f.base = clk.revision
        /\ clk'.revision = clk.revision + 1
    BY <1>3, Publication
  <2>2. /\ f.kind = "advance" /\ clk'.instant = f.target.instant
        /\ f.target.instant > clk.instant /\ occs' = occs
        /\ \A a \in acts' : a \in acts \/ a.at.instant = f.target.instant
    BY <1>3 DEF CommitClockAdvance, CanCommitAdvance, ApplyAdvance
  <2>3. Start <= clk'.instant
    BY <1>1, <2>2 DEF TypeOK, ClockState
  <2> HIDE DEF f
  <2>4. f \in commits' /\ f.base < clk'.revision /\ clk.revision <= clk'.revision
    BY <1>1, <2>1
  <2>5. /\ \A o \in occs :
              /\ OccBornBy(o, clk.revision)'
              /\ \E p \in Genesis \cap occs' : p.source = o.source
        /\ \A a \in acts : ActBornBy(a, clk.revision)'
    BY <2>1, <2>2, <2>4, BornStays
  <2>6. \A a \in acts' : ActBornBy(a, clk.revision)'
    <3>1. \A a : a.at.instant = f.target.instant => ActBornBy(a, clk.revision)'
      BY <2>2, <2>4 DEF ActBornBy
    <3> QED
      BY <2>2, <2>5, <3>1
  <2> QED
    BY <2>2, <2>3, <2>5, <2>6 DEF Born
<1>4. ASSUME NEW o \in Genesis, Seed(o) PROVE Born'
  <2>1. /\ occs' = occs \cup {o} /\ UNCHANGED <<clk, acts, commits>>
    BY <1>4 DEF Seed, journal
  <2>2. /\ \A p \in occs :
              /\ OccBornBy(p, clk.revision)'
              /\ \E q \in Genesis \cap occs' : q.source = p.source
        /\ \A a \in acts : ActBornBy(a, clk.revision)'
    BY <1>1, <2>1, BornStays
  <2>3. OccBornBy(o, clk.revision)'
    BY DEF OccBornBy
  <2> QED
    BY <1>1, <2>1, <2>2, <2>3 DEF Born
<1>5. ASSUME UNCHANGED <<clk, occs, acts, commits>> PROVE Born'
  BY <1>5 DEF Born, OccBornBy, ActBornBy, Deferred
<1> QED
  BY <1>2, <1>3, <1>4, <1>5, StepCases
     DEF Admit, AbortFence, Retry, DeclareRound, Quiet, schedule, journal

\* Nothing that is declared or deferred later waits where an advance went.
LEMMA WaitedStays ==
    ASSUME TypeOK, Shape, OpenCut, Linear, NEW f \in commits, f.kind = "advance",
           WaitedFor(f.target)',
           \/ \E w \in Worker : CommitWork(w)
           \/ UNCHANGED <<occs, opened>>
    PROVE  WaitedFor(f.target)
<1>1. ASSUME NEW w \in Worker, CommitWork(w) PROVE WaitedFor(f.target)
  <2> DEFINE g == job[w].fence
  <2>1. /\ occs' = occs \cup {Successor(o) : o \in Deferred(g)}
        /\ opened' = opened /\ SuccessorsInFuture(g)
        /\ g.cycle.instant = clk.instant
    BY <1>1, Publication DEF CommitWork, CanCommitWork, ledger
  <2>2. f.target.instant <= clk.instant
    BY DEF Linear, BehindClock
  <2>3. f.target.instant \in Int /\ clk.instant \in Int
    BY CommitFields DEF Coordinate, TypeOK, ClockState
  <2> HIDE DEF g
  <2>4. ASSUME NEW o \in Deferred(g) PROVE Successor(o).at # f.target
    <3>1. o.due \in Int /\ o.every \in Nat
      BY OccurrenceFields DEF Deferred, TypeOK
    <3>2. Successor(o).at.instant = o.due + o.every
      BY DEF Successor
    <3>3. o.due + o.every > clk.instant
      BY <2>1 DEF SuccessorsInFuture
    <3> QED
      BY <2>2, <2>3, <3>1, <3>2, <3>3
  <2> QED
    BY <2>1, <2>4 DEF WaitedFor
<1>2. CASE UNCHANGED <<occs, opened>>
  BY <1>2 DEF WaitedFor
<1> QED
  BY <1>1, <1>2

\* The unit a publication selects is pending, and, of an advance to a unit that
\* was waiting, it is more than a cadence.
LEMMA SelectedIsPending ==
    ASSUME TypeOK, Shape, OpenCut, Linear, Scheduled, Born, NEW w \in Worker,
           CommitWork(w) \/ CommitClockAdvance(w)
    PROVE  LET f == job[w].fence IN
           /\ \A c \in PendingThen(clk.revision) : NotAfter(f.target, c)
           /\ f.kind = "work" \/ WaitedFor(f.target) =>
                 f.target \in PendingThen(clk.revision)
<1> DEFINE f == job[w].fence
           Due == {o.at : o \in PendingOccs} \cup {a.at : a \in PendingActs}
                    \cup {opened[r] : r \in PendingRounds}
<1>1. PendingThen(clk.revision) = Due
  BY PresentPending
<1>2. f \in fences /\ Smallest(Pending, f.target)
  BY DEF CommitWork, CommitClockAdvance, CanCommitWork, CanCommitAdvance,
         CanPublish, StillSelected, Picks
<1>3. Due \subseteq Pending
  BY DEF Pending
<1>4. \A c \in Due : NotAfter(f.target, c)
  BY <1>2, <1>3 DEF Smallest
<1>5. ASSUME f.kind = "work" PROVE f.target \in Due
  <2>1. /\ \A t \in Cadences : Precedes(f.cycle, At(trig[t].next, 0))
    BY <1>5 DEF CommitWork, CommitClockAdvance, CanCommitWork,
                CanCommitAdvance, CohortIsDue
  <2>2. f.target = f.cycle /\ f.cycle \in Coordinate
    BY <1>2, <1>5 DEF Shape, FenceShape, Targets, TypeOK, Fence
  <2>3. ~Precedes(f.cycle, f.cycle)
    BY <2>2 DEF Precedes, Coordinate
  <2> QED
    BY <1>2, <2>1, <2>2, <2>3 DEF Smallest, Pending
<1>6. ASSUME f.kind = "advance", WaitedFor(f.target) PROVE f.target \in Due
  <2>1. f.target.instant > clk.instant /\ clk.instant \in Int
    BY <1>6 DEF CommitWork, CommitClockAdvance, CanCommitWork,
                CanCommitAdvance, TypeOK, ClockState
  <2>2. f.target \in Coordinate
    BY <1>2 DEF TypeOK, Fence
  <2> HIDE DEF f
  <2>3. \A g \in commits : g.cycle # f.target
    <3> TAKE g \in commits
    <3>1. Precedes(g.cycle, Floor(clk)) /\ g.cycle \in Coordinate
      BY CommitFields DEF Linear, BehindClock
    <3> QED
      BY <2>1, <2>2, <3>1 DEF Precedes, Floor, Coordinate
  <2>4. CASE \E o \in occs : o.at = f.target
    <3>1. PICK o \in occs : o.at = f.target
      BY <2>4
    <3>2. ~Settled(OccUnit(o))
      BY <2>3, <3>1 DEF Settled, Scheduled, SettledOnTime
    <3> QED
      BY <3>1, <3>2 DEF PendingOccs
  <2>5. CASE \E r \in Round : opened[r] = f.target
    <3>1. PICK r \in Round : opened[r] = f.target
      BY <2>5
    <3>2. opened[r] # None
      BY <2>2, <3>1, NoneAssumption
    <3>3. ~RoundSettledBy(r, clk.revision)
      BY <2>3, <3>1 DEF RoundSettledBy, Scheduled, SettledOnTime
    <3>4. r \in PendingRounds
      BY <3>2, <3>3, PresentSettled
    <3> QED
      BY <3>1, <3>4
  <2> QED
    BY <1>6, <2>4, <2>5 DEF WaitedFor
<1>7. f.kind \in {"work", "advance"}
  BY <1>2 DEF TypeOK, Fence
<1> HIDE DEF f, Due
<1>8. /\ \A c \in PendingThen(clk.revision) : NotAfter(f.target, c)
      /\ f.kind = "work" \/ WaitedFor(f.target) =>
            f.target \in PendingThen(clk.revision)
  BY <1>1, <1>4, <1>5, <1>6, <1>7
<1> QED
  BY <1>8 DEF f

LEMMA ChosenPublication ==
    ASSUME TypeOK, Shape, OpenCut, Linear, SealedCutRederives, Scheduled, Born,
           Chosen, NEW w \in Worker, CommitWork(w) \/ CommitClockAdvance(w)
    PROVE  Chosen'
<1>1. PICK f : f = job[w].fence
  OBVIOUS
<1>2. /\ commits' = commits \cup {f} /\ f.base = clk.revision
      /\ f \in Fence /\ clk.revision \in Nat
      /\ f.kind = "advance" => CommitClockAdvance(w)
  BY <1>1, Publication DEF TypeOK, ClockState, CommitWork, CanCommitWork
<1>3. /\ \A c \in PendingThen(f.base) : NotAfter(f.target, c)
      /\ f.kind = "work" \/ WaitedFor(f.target) =>
            f.target \in PendingThen(f.base)
  BY <1>1, <1>2, SelectedIsPending
<1>4. \A n \in Nat : n <= clk.revision => PendingThen(n)' = PendingThen(n)
  BY ThenByWork, ThenByAdvance
<1>5. \A g \in commits : g.base \in Nat /\ g.base <= clk.revision
  BY <1>2, CommitFields DEF Linear, BehindClock
<1>6. CommitClockAdvance(w) => UNCHANGED <<occs, opened>>
  BY DEF CommitClockAdvance, ledger
<1>7. ASSUME NEW g \in commits
      PROVE  /\ \A c \in PendingThen(g.base)' : NotAfter(g.target, c)
             /\ g.kind = "work" \/ WaitedFor(g.target)' =>
                   g.target \in PendingThen(g.base)'
  <2>1. PendingThen(g.base)' = PendingThen(g.base)
    BY <1>4, <1>5
  <2>2. g.kind = "advance" /\ WaitedFor(g.target)' => WaitedFor(g.target)
    BY <1>6, WaitedStays
  <2>3. g.kind \in {"work", "advance"}
    BY CommitFields
  <2> QED
    BY <2>1, <2>2, <2>3 DEF Chosen
<1>8. PendingThen(f.base)' = PendingThen(f.base)
  BY <1>2, <1>4
<1>9. f.kind = "advance" /\ WaitedFor(f.target)' => WaitedFor(f.target)
  BY <1>2, <1>6 DEF WaitedFor
<1>10. f.kind \in {"work", "advance"}
  BY <1>2 DEF Fence
<1> QED
  BY <1>2, <1>3, <1>7, <1>8, <1>9, <1>10 DEF Chosen

LEMMA ChosenInit == Init => Chosen
BY DEF Init, Chosen

LEMMA ChosenStep ==
    TypeOK /\ Shape /\ OpenCut /\ Linear /\ SealedCutRederives
      /\ Scheduled /\ Born /\ Chosen /\ [Next]_vars => Chosen'
<1> SUFFICES ASSUME TypeOK, Shape, OpenCut, Linear, SealedCutRederives,
                    Scheduled, Born, Chosen, [Next]_vars
             PROVE  Chosen'
  OBVIOUS
<1>1. ASSUME NEW o \in Genesis, Seed(o) PROVE Chosen'
  <2>1. clk.revision = 0 /\ commits' = commits
    BY <1>1 DEF Seed, journal
  <2>2. commits = {}
    BY <2>1, CommitFields DEF Linear, BehindClock
  <2> QED
    BY <2>1, <2>2 DEF Chosen
<1>2. ASSUME NEW r \in Round, NEW c \in Openings, DeclareRound(r, c)
      PROVE  Chosen'
  <2>1. /\ BeyondSeals(c) /\ opened[r] = None
        /\ opened' = [opened EXCEPT ![r] = c] /\ UNCHANGED <<occs, commits>>
    BY <1>2 DEF DeclareRound, schedule, journal
  <2>2. c \in Coordinate /\ opened \in [Round -> Coordinate \cup {None}]
    BY OpeningsAssumption DEF TypeOK
  <2>3. ASSUME NEW f \in commits
        PROVE  /\ NotAfter(f.target, c) /\ f.target # c
               /\ PendingThen(f.base)' = PendingThen(f.base) \cup {c}
    <3>1. Precedes(f.target, c) /\ f.target \in Coordinate
      BY <2>1, CommitFields DEF BeyondSeals, Cut
    <3>2. NotAfter(f.target, c) /\ f.target # c
      BY <2>2, <3>1 DEF NotAfter, Precedes, Coordinate
    <3>3. PendingThen(f.base)' = PendingThen(f.base) \cup {c}
      BY <1>2, ThenByDeclare
    <3> QED
      BY <3>2, <3>3
  <2>4. \A p : WaitedFor(p)' => WaitedFor(p) \/ p = c
    BY <2>1, <2>2 DEF WaitedFor
  <2> QED
    BY <2>1, <2>3, <2>4 DEF Chosen
<1>3. ASSUME UNCHANGED <<occs, acts, opened, commits>> PROVE Chosen'
  <2>1. /\ \A o, n : OccBornBy(o, n)' <=> OccBornBy(o, n)
        /\ \A a, n : ActBornBy(a, n)' <=> ActBornBy(a, n)
        /\ \A u, n : SettledBy(u, n)' <=> SettledBy(u, n)
        /\ \A r, n : RoundSettledBy(r, n)' <=> RoundSettledBy(r, n)
    BY <1>3 DEF OccBornBy, ActBornBy, SettledBy, RoundSettledBy, Deferred
  <2>2. \A n : PendingThen(n)' = PendingThen(n)
    BY <1>3, <2>1 DEF PendingThen
  <2>3. \A c : WaitedFor(c)' <=> WaitedFor(c)
    BY <1>3 DEF WaitedFor
  <2> QED
    BY <1>3, <2>2, <2>3 DEF Chosen
<1> QED
  BY <1>1, <1>2, <1>3, ChosenPublication, StepCases
     DEF Admit, AbortFence, Retry, Quiet, schedule, ledger, journal

--------------------------------------------------------------------------------
(* A CLOCK_ADVANCE takes the ordinal after the clock it was planned at.    *)

Originates(j) ==
    /\ j.pc = "planned" /\ j.plan.kind = "advance" =>
          CycleOf(j.plan) = Floor(j.clk)
    /\ j.pc \in {"sealed", "built"} /\ j.fence.kind = "advance" =>
          j.fence.cycle = Floor(j.clk)

Origins == \A w \in Worker : Originates(job[w])

LEMMA OriginsInit == Init => Origins
BY DEF Init, Origins, Originates

LEMMA OriginsStep == TypeOK /\ Origins /\ [Next]_vars => Origins'
<1> SUFFICES ASSUME TypeOK, Origins, [Next]_vars PROVE Origins'
  OBVIOUS
<1>1. ASSUME NEW w \in Worker, NEW j, Originates(j),
             job' = [job EXCEPT ![w] = j]
      PROVE  Origins'
  BY <1>1 DEF Origins, TypeOK
<1>2. ASSUME NEW w \in Worker, NEW p \in Pending, Plan(w, p) PROVE Origins'
  <2> DEFINE plan == PlanFor(job[w].clk, p)
             j == [pc |-> "planned", clk |-> job[w].clk, plan |-> plan]
  <2>1. plan.kind = "advance" => CycleOf(plan) = Floor(job[w].clk)
    BY DEF PlanFor, CycleOf, Floor
  <2> HIDE DEF plan
  <2>2. Originates(j)
    BY <2>1 DEF Originates
  <2>3. job' = [job EXCEPT ![w] = j]
    BY <1>2 DEF Plan, plan
  <2> HIDE DEF j
  <2> QED
    BY <1>1, <2>2, <2>3
<1>3. ASSUME NEW w \in Worker, NEW a \in 0..MaxAttempt, Admit(w, a)
      PROVE  Origins'
  <2> DEFINE f == Derived(job[w].plan, job[w].clk.revision, a)
             j == [pc |-> "sealed", clk |-> job[w].clk, fence |-> f]
  <2>1. f.kind = job[w].plan.kind /\ f.cycle = CycleOf(job[w].plan)
    BY DEF Derived
  <2>2. job[w].pc = "planned" /\ job' = [job EXCEPT ![w] = j]
    BY <1>3 DEF Admit
  <2>3. f.kind = "advance" => f.cycle = Floor(job[w].clk)
    BY <2>1, <2>2 DEF Origins, Originates
  <2> HIDE DEF f
  <2>4. Originates(j)
    BY <2>3 DEF Originates
  <2> HIDE DEF j
  <2> QED
    BY <1>1, <2>2, <2>4
<1>4. ASSUME NEW w \in Worker, Build(w) PROVE Origins'
  <2> DEFINE j == [pc |-> "built", fence |-> job[w].fence, cut |-> inputs,
                   clk |-> IF job[w].fence.kind = "work" THEN clk
                                                         ELSE job[w].clk]
  <2>1. job[w].pc = "sealed" /\ job' = [job EXCEPT ![w] = j]
    BY <1>4 DEF Build
  <2>2. Originates(j)
    BY <2>1 DEF Origins, Originates
  <2> HIDE DEF j
  <2> QED
    BY <1>1, <2>1, <2>2
<1>5. ASSUME NEW w \in Worker,
             \/ LoadClock(w) \/ CommitWork(w) \/ CommitClockAdvance(w)
             \/ AbortFence(w, job[w].fence)
             \/ GiveUp(w) \/ Restart(w) \/ Crash(w)
      PROVE  Origins'
  <2>1. \/ job' = [job EXCEPT ![w] = [pc |-> "idle"]]
        \/ job' = [job EXCEPT ![w] = [pc |-> "down"]]
        \/ job' = [job EXCEPT ![w] = [pc |-> "loaded", clk |-> clk]]
    BY <1>5 DEF LoadClock, CommitWork, CommitClockAdvance, AbortFence, GiveUp,
                Restart, Crash, Free
  <2>2. /\ Originates([pc |-> "idle"]) /\ Originates([pc |-> "down"])
        /\ Originates([pc |-> "loaded", clk |-> clk])
    BY DEF Originates
  <2> QED
    BY <1>1, <2>1, <2>2
<1>6. ASSUME job' = job PROVE Origins'
  BY <1>6 DEF Origins
<1> QED
  BY <1>2, <1>3, <1>4, <1>5, <1>6
     DEF Next, Cycle, Abort, AbortCascade, Seed, DeclareRound, Dispatch,
         RevokeDispatch, Respond, Retry, vars

--------------------------------------------------------------------------------
(* The run has lived through its journal.                                  *)

LEMMA LivedInit == Init => \E h : Lived(h)
<1> SUFFICES ASSUME Init PROVE \E h : Lived(h)
  OBVIOUS
<1> DEFINE h == [n \in Nat |-> GenesisReplay]
<1>1. clk.revision = 0 /\ commits = {}
  BY DEF Init
<1>2. GenesisReplay = [accepted |-> TRUE, clk |-> clk, trig |-> trig, acts |-> acts]
  BY DEF Init, GenesisReplay
<1>3. Lived(h)
  BY <1>1, <1>2 DEF Lived
<1> QED
  BY <1>3

\* What a publication adds is the next state of the audit.
LEMMA LivesNext ==
    ASSUME TypeOK, Shape, OpenCut, Linear, Origins, NEW w \in Worker,
           CommitWork(w) \/ CommitClockAdvance(w),
           NEW s, s = [accepted |-> TRUE, clk |-> clk, trig |-> trig, acts |-> acts],
           NEW t,
           t = [accepted |-> TRUE, clk |-> clk', trig |-> trig', acts |-> acts'],
           NEW f, f = job[w].fence
    PROVE  Lives(s, f, t)'
<1>1. /\ f \in fences /\ f.base = clk.revision /\ f.cycle.instant = clk.instant
      /\ f.cycle.ordinal > clk.last /\ commits' = commits \cup {f}
      /\ f.kind \in {"work", "advance"}
  BY Publication DEF Fence
<1>2. ~OrdinalExhausted(clk) /\ NotAfter(Floor(clk), f.target)
  BY DEF CommitWork, CommitClockAdvance, CanCommitWork, CanCommitAdvance,
         StillSelected, Picks
<1>3. /\ s.clk = clk /\ s.trig = trig /\ s.acts = acts
      /\ clk.revision \in Nat /\ trig \in [Trigger -> Runtime]
  BY DEF TypeOK, ClockState
<1>4. ASSUME f.kind = "work"
      PROVE  /\ ~CascadeExceeded(Cardinality(
                    {g \in WorkAt(s.clk.instant)' : g.base < f.base}))
             /\ t = [accepted |-> TRUE, clk |-> ApplyWork(s.clk, f.cycle.ordinal),
                     trig |-> s.trig, acts |-> s.acts]
  <2>1. CommitWork(w)
    BY <1>4 DEF CommitClockAdvance, CanCommitAdvance
  <2>2. /\ ~Limited /\ clk' = ApplyWork(clk, f.cycle.ordinal)
        /\ trig' = trig /\ acts' = acts
    BY <2>1 DEF CommitWork, CanCommitWork
  <2>3. {g \in WorkAt(s.clk.instant)' : g.base < f.base} = WorkAt(clk.instant)
    <3>1. \A g \in commits : g.base < f.base
      BY <1>1 DEF Linear, BehindClock
    <3>2. ~(f.base < f.base)
      BY <1>1, <1>3
    <3> QED
      BY <1>1, <1>3, <3>1, <3>2 DEF WorkAt
  <2> QED
    BY <1>3, <2>2, <2>3 DEF Limited
<1>5. ASSUME f.kind = "advance", NEW to, to = f.target.instant
      PROVE  /\ f.cycle = At(s.clk.instant, s.clk.last + 1)
             /\ to > s.clk.instant
             /\ \A u \in Trigger : Evaluable(s.trig[u], f.base + 1)
             /\ ReplayFired(s, to) \subseteq acts'
             /\ t = [accepted |-> TRUE, clk |-> ApplyAdvance(s.clk, to),
                     trig |-> [u \in Trigger |->
                                  Evaluated(u, s.trig[u], to, f.base + 1)],
                     acts |-> s.acts \cup ReplayFired(s, to)]
  <2>1. CommitClockAdvance(w)
    BY <1>5 DEF CommitWork, CanCommitWork
  <2>2. /\ clk' = ApplyAdvance(clk, to) /\ to > clk.instant
        /\ \A u \in Trigger : Evaluable(trig[u], clk.revision + 1)
        /\ trig' = [u \in Trigger |-> Evaluated(u, trig[u], to, clk.revision + 1)]
        /\ acts' = acts \cup {[trigger |-> u, count |-> trig[u].count + 1,
                               at |-> At(to, 0)] :
                      u \in {v \in Trigger : Fires(Definition[v], trig[v], to)}}
    BY <1>5, <2>1 DEF CommitClockAdvance, CanCommitAdvance
  <2>3. acts' = s.acts \cup ReplayFired(s, to)
    BY <1>3, <2>2 DEF ReplayFired
  <2>4. f.cycle = At(clk.instant, clk.last + 1)
    BY <1>5, <2>1 DEF CommitClockAdvance, CanCommitAdvance, CanPublish, Origins,
                      Originates, Floor
  <2> QED
    BY <1>1, <1>3, <2>2, <2>3, <2>4
<1> QED
  BY <1>1, <1>2, <1>3, <1>4, <1>5 DEF Lives

LEMMA LivedPublication ==
    ASSUME TypeOK, Shape, OpenCut, Linear, Origins, NEW w \in Worker,
           CommitWork(w) \/ CommitClockAdvance(w), NEW h, Lived(h)
    PROVE  \E g : Lived(g)'
<1>1. PICK f : f = job[w].fence
  OBVIOUS
<1>2. PICK n \in Nat : n = clk.revision
  BY DEF TypeOK, ClockState
<1>3. PICK s : s = [accepted |-> TRUE, clk |-> clk, trig |-> trig, acts |-> acts]
  OBVIOUS
<1>4. PICK t : t = [accepted |-> TRUE, clk |-> clk', trig |-> trig', acts |-> acts']
  OBVIOUS
<1>5. /\ commits' = commits \cup {f} /\ f.base = n /\ clk'.revision = n + 1
  BY <1>1, <1>2, Publication
<1>6. Lives(s, f, t)'
  BY <1>1, <1>3, <1>4, LivesNext
<1>7. h[0] = GenesisReplay /\ h[n] = s
  BY <1>2, <1>3 DEF Lived
<1> DEFINE g == [i \in Nat |-> IF i = n + 1 THEN t ELSE h[i]]
<1>8. /\ n + 1 \in Nat /\ n # n + 1 /\ 0 # n + 1
      /\ g[n + 1] = t /\ g[0] = h[0]
  OBVIOUS
<1>9. g[n] = s
  BY <1>7, <1>8
<1>10. ASSUME NEW e \in commits PROVE Lives(g[e.base], e, g[e.base + 1])'
  <2>1. e.base \in Nat /\ e.base < n
    BY <1>2, CommitFields DEF Linear, BehindClock
  <2>2. /\ e.base + 1 \in Nat /\ e.base # n + 1 /\ e.base + 1 # n + 1
    BY <2>1
  <2>3. g[e.base] = h[e.base] /\ g[e.base + 1] = h[e.base + 1]
    BY <2>1, <2>2
  <2> HIDE DEF g
  <2>4. Lives(h[e.base], e, h[e.base + 1])
    BY DEF Lived
  <2>5. \A i : {d \in WorkAt(i)' : d.base < e.base} =
                   {d \in WorkAt(i) : d.base < e.base}
    <3>1. ~(f.base < e.base)
      BY <1>5, <2>1
    <3> QED
      BY <1>5, <3>1 DEF WorkAt
  <2>6. acts \subseteq acts'
    BY DEF CommitWork, CommitClockAdvance
  <2>7. Lives(h[e.base], e, h[e.base + 1])'
    BY <2>4, <2>5, <2>6 DEF Lives
  <2> QED
    BY <2>3, <2>7
<1> HIDE DEF g
<1>11. Lives(g[f.base], f, g[f.base + 1])'
  BY <1>5, <1>6, <1>8, <1>9
<1>12. Lived(g)'
  BY <1>4, <1>5, <1>7, <1>8, <1>10, <1>11 DEF Lived
<1> QED
  BY <1>12

LEMMA LivedStep ==
    TypeOK /\ Shape /\ OpenCut /\ Linear /\ Origins /\ (\E h : Lived(h))
      /\ [Next]_vars => (\E h : Lived(h))'
<1> SUFFICES ASSUME TypeOK, Shape, OpenCut, Linear, Origins, [Next]_vars,
                    NEW h, Lived(h)
             PROVE  \E g : Lived(g)'
  OBVIOUS
<1>1. ASSUME UNCHANGED <<clk, trig, acts, commits>> PROVE Lived(h)'
  BY <1>1 DEF Lived, Lives, WorkAt
<1> QED
  BY <1>1, LivedPublication, StepCases
     DEF Admit, AbortFence, Retry, Seed, DeclareRound, Quiet, schedule, journal

--------------------------------------------------------------------------------
(* The audit accepts the run.                                              *)

\* One commit a revision.
LEMMA CommitsCounted ==
    ASSUME TypeOK, Linear
    PROVE  Cardinality(commits) = clk.revision
<1> DEFINE n == clk.revision
           b == [i \in 0..(n - 1) |-> CommitAt(i)]
<1>1. n \in Nat
  BY DEF TypeOK, ClockState
<1>2. ASSUME NEW f \in commits PROVE f.base \in 0..(n - 1) /\ CommitAt(f.base) = f
  BY DEF Linear, OnePerRevision, CommitAt
<1>3. ASSUME NEW i \in 0..(n - 1)
      PROVE  CommitAt(i) \in commits /\ CommitAt(i).base = i
  BY DEF Linear, OnePerRevision, CommitAt
<1>4. b \in Injection(0..(n - 1), commits)
  BY <1>3 DEF Injection, IsInjective
<1>5. b \in Surjection(0..(n - 1), commits)
  BY <1>2, <1>3 DEF Surjection
<1>6. ExistsBijection(0..(n - 1), commits)
  BY <1>4, <1>5 DEF ExistsBijection, Bijection
<1>7. IsFiniteSet(0..(n - 1)) /\ Cardinality(0..(n - 1)) = n
  <2> HIDE DEF n
  <2>1. 0 \in Int /\ n - 1 \in Int
    BY <1>1
  <2>2. /\ IsFiniteSet(0..(n - 1))
        /\ Cardinality(0..(n - 1)) = IF 0 > n - 1 THEN 0 ELSE (n - 1) - 0 + 1
    BY <2>1, FS_Interval
  <2> QED
    BY <1>1, <2>2
<1> QED
  BY <1>6, <1>7, FS_Bijection

\* cycle_control verifies against the records it speaks of.
LEMMA ControlStands ==
    ASSUME TypeOK, Linear, ControlIsFold, AttemptsFollow
    PROVE  ControlVerifies
<1>1. CASE control.status = "idle"
  <2>1. fences = {} => clk.revision = 0
    BY DEF Linear, OnePerRevision, TypeOK, ClockState
  <2> QED
    BY <1>1, <2>1 DEF ControlVerifies
<1>2. CASE control.status # "idle"
  <2>1. PICK f : f = control.fence
    OBVIOUS
  <2>2. /\ f \in fences
        /\ control = IF f \in retries THEN Authorized(f)
                     ELSE IF f \in aborts THEN Halted(f) ELSE InFlight(f)
    BY <1>2, <2>1, TipOfFold DEF IsTip, Open
  <2>3. f.attempt > 0 =>
            \E g \in retries \cap aborts :
                g.cycle = f.cycle /\ g.attempt + 1 = f.attempt
    <3> SUFFICES ASSUME f.attempt > 0
                 PROVE  \E g \in retries \cap aborts :
                            g.cycle = f.cycle /\ g.attempt + 1 = f.attempt
      OBVIOUS
    <3>1. PICK g \in retries : g.attempt = f.attempt - 1 /\ SameCut(f, g)
      BY <2>2 DEF AttemptsFollow
    <3>2. g \in aborts /\ g \in Fence /\ f \in Fence
      BY <2>2 DEF TypeOK
    <3>3. g.cycle = f.cycle
      BY <3>1, <3>2, CutFields DEF SameCut
    <3>4. f.attempt \in Int
      BY <3>2, BoundsAssumption DEF Fence
    <3> QED
      BY <3>1, <3>2, <3>3, <3>4
  <2>4. CASE f \in retries
    <3>1. control = Authorized(f) /\ f \in aborts
      BY <2>2, <2>4 DEF TypeOK
    <3> QED
      BY <2>4, <3>1 DEF ControlVerifies, Authorized
  <2>5. CASE f \notin retries /\ f \in aborts
    <3>1. control = Halted(f)
      BY <2>2, <2>5
    <3> QED
      BY <2>5, <3>1 DEF ControlVerifies, Halted
  <2>6. CASE f \notin retries /\ f \notin aborts
    <3>1. /\ control.status = "inflight" /\ control.next = f.attempt
          /\ control.fence = f
      BY <2>2, <2>6 DEF InFlight
    <3> QED
      BY <2>2, <2>3, <3>1 DEF ControlVerifies
  <2> QED
    BY <2>4, <2>5, <2>6
<1> QED
  BY <1>1, <1>2

\* A state of an audit that has found nothing wrong.
Clean(s) ==
    s = [accepted |-> TRUE, clk |-> s.clk, trig |-> s.trig, acts |-> s.acts]

LEMMA CleanRecord ==
    ASSUME NEW c, NEW r, NEW a
    PROVE  Clean([accepted |-> TRUE, clk |-> c, trig |-> r, acts |-> a])
BY DEF Clean

\* One commit is accepted when its choice is.
LEMMA StepAccepted ==
    ASSUME TypeOK, Shape, Chosen, NEW s, NEW t, NEW f \in commits,
           Clean(s), Lives(s, f, t), f.kind = "advance" => WaitedFor(f.target)
    PROVE  t = IF f.kind = "work" THEN ReplayWork(s, f) ELSE ReplayAdvance(s, f)
<1>1. /\ f \in fences /\ f.kind \in {"work", "advance"}
      /\ f.kind = "work" => f.target = f.cycle
  BY CommitFields DEF Shape, FenceShape, Targets
<1>2. Picks(s.clk, PendingThen(s.clk.revision), f.target)
  BY <1>1 DEF Lives, Chosen, Picks, Smallest
<1>3. CASE f.kind = "work"
  <2>1. WorkAccepted(s, f)
    BY <1>1, <1>2, <1>3 DEF Lives, WorkAccepted
  <2>2. s.accepted = TRUE
    BY DEF Clean
  <2>3. (s.accepted /\ WorkAccepted(s, f)) = TRUE
    BY <2>1, <2>2
  <2> QED
    BY <1>3, <2>3 DEF Lives, ReplayWork
<1>4. CASE f.kind = "advance"
  <2>1. AdvanceAccepted(s, f)
    BY <1>1, <1>2, <1>4 DEF Lives, AdvanceAccepted
  <2>2. s.accepted = TRUE
    BY DEF Clean
  <2>3. (s.accepted /\ AdvanceAccepted(s, f)) = TRUE
    BY <2>1, <2>2
  <2> QED
    BY <1>4, <2>3 DEF Lives, ReplayAdvance
<1> QED
  BY <1>1, <1>3, <1>4

Audited == Born /\ Chosen /\ Origins /\ \E h : Lived(h)

LEMMA AuditAccepts ==
    ASSUME TypeOK, Shape, Linear, ControlIsFold, AttemptsFollow, Audited,
           \A f \in commits : f.kind = "advance" => WaitedFor(f.target)
    PROVE  Replays
<1>1. PICK h : Lived(h)
  BY DEF Audited
<1>2. PICK k \in Nat : k = clk.revision
  BY DEF TypeOK, ClockState
<1> DEFINE T == {n \in Nat : n <= k =>
                    /\ Replayed[n] = h[n]
                    /\ Clean(h[n])}
<1>3. 0 \in T
  <2>1. Clean(GenesisReplay)
    BY CleanRecord DEF GenesisReplay
  <2> QED
    BY <1>1, <2>1, ReplayIsFold DEF Lived
<1>4. ASSUME NEW n \in Nat, n \in T PROVE n + 1 \in T
  <2> SUFFICES ASSUME n + 1 <= k
               PROVE  /\ Replayed[n + 1] = h[n + 1]
                      /\ Clean(h[n + 1])
    OBVIOUS
  <2>1. n \in 0..(k - 1) /\ n <= k
    BY <1>2
  <2>2. PICK f \in commits : f.base = n
    BY <1>2, <2>1 DEF Linear, OnePerRevision
  <2>3. CommitAt(n) = f
    BY <2>2 DEF CommitAt, Linear, OnePerRevision
  <2>4. /\ Replayed[n] = h[n]
        /\ Clean(h[n])
    BY <1>4, <2>1
  <2>5. Lives(h[n], f, h[n + 1])
    BY <1>1, <2>2 DEF Lived
  <2>6. h[n + 1] = IF f.kind = "work" THEN ReplayWork(h[n], f)
                                      ELSE ReplayAdvance(h[n], f)
    BY <2>4, <2>5, StepAccepted DEF Audited
  <2>7. Replayed[n + 1] = h[n + 1]
    BY <2>3, <2>4, <2>6, ReplayIsFold DEF ReplayStep
  <2>8. Clean(h[n + 1])
    <3>1. f.kind \in {"work", "advance"}
      BY CommitFields
    <3> QED
      BY <2>5, <3>1, CleanRecord DEF Lives
  <2> QED
    BY <2>7, <2>8
<1> HIDE DEF T
<1>5. Nat \subseteq T
  BY <1>3, <1>4, EveryNumber
<1>6. Replayed[k] = h[k]
  BY <1>5 DEF T
<1>7. Replayed[k] = [accepted |-> TRUE, clk |-> clk, trig |-> trig, acts |-> acts]
  BY <1>1, <1>2, <1>6 DEF Lived
<1> QED
  BY <1>2, <1>7, CommitsCounted, ControlStands DEF Replays

\* A run that never advanced for a beat alone replays from its journal at any
\* moment: the fold of the audit over the commits ends at the clock, triggers
\* and activations of the store, and each commit is of the smallest unit the
\* audit finds pending at its revision.
THEOREM RunsReplay == Spec => []JournalReplays
<1>1. Spec => [](TypeOK /\ Shape /\ OpenCut /\ Linear)
  BY TypeInit, TypeStep, ShapeInit, ShapeStep, OpenCutInit, OpenCutStep,
     LinearInit, LinearStep, PTL DEF Spec
<1>2. Spec => [](Born /\ Chosen)
  BY <1>1, SealedCutStays, ScheduleHolds, BornInit, BornStep, ChosenInit,
     ChosenStep, PTL DEF Spec
<1>3. Spec => [](Origins /\ \E h : Lived(h))
  BY <1>1, OriginsInit, OriginsStep, LivedInit, LivedStep, PTL DEF Spec
<1>4. TypeOK /\ Shape /\ Linear /\ ControlIsFold /\ AttemptsFollow /\ Born
        /\ Chosen /\ Origins /\ (\E h : Lived(h)) => JournalReplays
  BY AuditAccepts DEF Audited, JournalReplays
<1> QED
  BY <1>1, <1>2, <1>3, <1>4, ControlFolds, AttemptsInOrder, PTL

================================================================================
