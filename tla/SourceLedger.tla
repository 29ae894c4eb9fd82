----------------------------- MODULE SourceLedger ------------------------------
(***************************************************************************)
(* The exogenous half of the input ledger: several processes, each with a  *)
(* Ledger of its own over one store, declare sources, append inputs and    *)
(* close coordinates, while the coordinators among them derive, seal and   *)
(* terminate cycles from the stored prefix.                                *)
(*                                                                         *)
(* A Ledger keeps a view of the store that it refreshes only when it is    *)
(* opened; every write is checked twice, against the view by               *)
(* internal/csf/inputledger and against the store by the SQLite adapter.   *)
(* System work is the set Agenda of its coordinates; attempts and retries  *)
(* of a cycle, modelled in CausalCycle, share one fence here because they  *)
(* seal the same cut.                                                      *)
(***************************************************************************)
EXTENDS CausalClock, Sequences, FiniteSets

CONSTANTS
    Process,      \* processes with a Ledger over the store
    Driver,       \* those of them that drive the cycles of the run
    Source,       \* exogenous sources of the run
    Key,          \* producer keys of inputs and of closures
    Span,         \* coordinates that producers name
    Agenda,       \* coordinates of the pending system work
    TopInstant, TopOrdinal,  \* the last coordinate a record can hold
    Down          \* the view of a process that is not running

ASSUME TopAssumption == TopInstant \in Nat /\ TopOrdinal \in Nat

\* The coordinates a record can hold.
Grid == {At(t, n) : t \in 0..TopInstant, n \in 0..TopOrdinal}

ASSUME SpanAssumption == Span \subseteq Grid /\ Agenda \subseteq Grid
ASSUME DriverAssumption == Driver \subseteq Process

VARIABLES
    declared,  \* source declarations of the store
    stream,    \* per source: its records in the order of their receipts
    view,      \* per process: its Ledger, or Down
    clk,       \* the run's clock
    settled,   \* system work that a committed cycle settled
    fences,    \* admission fences of the decision ledger
    audit,     \* kinds of the other records of the decision ledger
    control,   \* the fence in flight and what became of it
    job        \* per process: what its coordinator holds

file == <<declared, stream>>
run  == <<clk, settled, fences, audit, control>>
vars == <<file, view, run, job>>

--------------------------------------------------------------------------------
(* Records: an input carries its eligibility, a closure the coordinate it  *)
(* closes through.                                                         *)

Entry == [kind : {"input", "closure"}, key : Key, at : Grid,
          final : BOOLEAN]

Input(k, at) ==
    [kind |-> "input", key |-> k, at |-> at, final |-> FALSE]
Closure(k, at, final) ==
    [kind |-> "closure", key |-> k, at |-> at, final |-> final]

Stored(s)    == {stream[s][i] : i \in DOMAIN stream[s]}
Closures(E)  == {e \in E : e.kind = "closure"}
Inputs(E)    == {e \in E : e.kind = "input"}
Final(E)     == \E c \in Closures(E) : c.final
Has(E, k, d) == \E e \in E : e.kind = k /\ e.key = d

InputsUpTo(s, c) == {e \in Inputs(Stored(s)) : NotAfter(e.at, c)}

\* Variant: the first open coordinate is the closed one.
NextOpenClosed(c) == c

\* Variant: no coordinate is the last one.
NextOpenEndless(c) ==
    IF c.ordinal < TopOrdinal THEN At(c.instant, c.ordinal + 1)
                              ELSE At(c.instant + 1, 0)

\* nextOpen: the coordinate after a closed prefix; the last one is its own.
NextOpen(c) ==
    CASE c.ordinal < TopOrdinal -> At(c.instant, c.ordinal + 1)
      [] c.ordinal >= TopOrdinal /\ c.instant < TopInstant -> At(c.instant + 1, 0)
      [] OTHER -> c

\* Where an input that asks for a coordinate goes, given the known closures.
Normalised(E, asked) ==
    LET open == {asked} \cup {NextOpen(c.at) : c \in Closures(E)}
    IN  CHOOSE x \in open : \A y \in open : NotAfter(y, x)

--------------------------------------------------------------------------------
(* Fences and the first closure that covers a coordinate.                  *)

Covers(e, c) == e.kind = "closure" /\ (e.final \/ NotAfter(c, e.at))
Covering(s, c) == {i \in DOMAIN stream[s] : Covers(stream[s][i], c)}

\* Variant: the latest covering closure is the proof.
ProofLatest(c) ==
    [s \in Source |-> IF s \in declared
        THEN CHOOSE i \in Covering(s, c) : \A j \in Covering(s, c) : j <= i
        ELSE 0]

\* The closure proofs of a fence: one receipt of every declared source.
Proof(c) ==
    [s \in Source |-> IF s \in declared
        THEN CHOOSE i \in Covering(s, c) : \A j \in Covering(s, c) : i <= j
        ELSE 0]

\* ErrWaitingForClosure is not raised.
AllCover(c) == \A s \in declared : Covering(s, c) # {}

DueInputs(c) == UNION {{<<s, e.key>> : e \in InputsUpTo(s, c)} : s \in Source}

Fence == [kind : {"work", "advance"}, cycle : Coordinate, target : Coordinate,
          inputs : SUBSET (Source \X Key),
          proof : [Source -> Nat]]

CycleOf(plan) == At(plan.from, plan.origin)

Derived(plan) ==
    [kind |-> plan.kind, cycle |-> CycleOf(plan), target |-> plan.target,
     inputs |-> DueInputs(CycleOf(plan)), proof |-> Proof(plan.target)]

Derivable(plan) ==
    /\ AllCover(plan.target)
    /\ plan.kind = "advance" => DueInputs(CycleOf(plan)) = {}

--------------------------------------------------------------------------------
(* What the stores accept.                                                 *)

\* verifyIngressClockFloor.
AboveFloor(c) == ~OrdinalExhausted(clk) /\ NotAfter(Floor(clk), c)

\* The scan of AppendIngress: a CycleCommit is passed over, any other record
\* that is not a fence is an error.
ScanReads == audit \subseteq {"commit"}
BeyondSeals(c) == \A f \in fences : Precedes(f.target, c)

\* Variant: the store trusts the lifecycle the Ledger has checked.
LifecycleTrusted(s, e) == s \in declared

\* validateCausalIngress.
Lifecycle(s, e) ==
    /\ s \in declared
    /\ ~Final(Stored(s))
    /\ \A c \in Closures(Stored(s)) :
          IF e.kind = "input" THEN Precedes(c.at, e.at) ELSE NotAfter(c.at, e.at)

\* A record identity has one receipt: a second one is refused.
NotYetStored(s, e) == ~Has(Stored(s), e.kind, e.key)

Accepts(s, e) ==
    /\ NotYetStored(s, e)
    /\ Lifecycle(s, e)
    /\ AboveFloor(e.at)
    /\ ScanReads /\ BeyondSeals(e.at)

\* restore: what Open demands of the receipts of every source.
Restorable(q) ==
    \A i, j \in DOMAIN q : i < j =>
        /\ ~(q[i].kind = q[j].kind /\ q[i].key = q[j].key)
        /\ ~q[i].final
        /\ q[i].kind = "closure" =>
              IF q[j].kind = "input" THEN Precedes(q[i].at, q[j].at)
                                     ELSE NotAfter(q[i].at, q[j].at)

RestoreAccepts ==
    \A s \in Source : Restorable(stream[s]) /\ (stream[s] # <<>> => s \in declared)

--------------------------------------------------------------------------------
Job ==
    [pc : {"idle"}]
      \cup [pc : {"planned"}, plan : CyclePlan]
      \cup [pc : {"derived"}, fence : Fence,
            seen : (SUBSET Source) \X [Source -> Seq(Entry)]]
      \cup [pc : {"sealed"}, fence : Fence]

Ledger == [roster : SUBSET Source, known : [Source -> SUBSET Entry],
           frozen : BOOLEAN]

Fresh == [roster |-> {}, known |-> [s \in Source |-> {}], frozen |-> FALSE]

Init ==
    /\ declared = {}
    /\ stream = [s \in Source |-> <<>>]
    /\ view = [p \in Process |-> Fresh]
    /\ clk = [instant |-> 0, revision |-> 0, last |-> -1]
    /\ settled = {} /\ fences = {} /\ audit = {}
    /\ control = <<"idle">>
    /\ job = [p \in Process |-> [pc |-> "idle"]]

--------------------------------------------------------------------------------
(* The operations of a Ledger.  A call that finds its producer key in the  *)
(* view returns the stored record, or a collision, and changes nothing.    *)

Up(p) == view[p] # Down

DeclareSource(p, s) ==
    /\ Up(p) /\ ~view[p].frozen
    /\ s \notin view[p].roster
    /\ fences = {}
    /\ declared' = declared \cup {s}
    /\ view' = [view EXCEPT ![p].roster = @ \cup {s}]
    /\ UNCHANGED <<stream, run, job>>

\* appendIngress: the record, its receipt and the cursor in one transaction.
Publish(p, s, e) ==
    /\ Accepts(s, e)
    /\ stream' = [stream EXCEPT ![s] = Append(@, e)]
    /\ view' = [view EXCEPT ![p].known[s] = @ \cup {e}]
    /\ UNCHANGED <<declared, run, job>>

AppendInput(p, s, k, asked) ==
    /\ Up(p) /\ s \in view[p].roster
    /\ ~Has(view[p].known[s], "input", k)
    /\ ~Final(view[p].known[s])
    /\ Publish(p, s, Input(k, Normalised(view[p].known[s], asked)))

CloseSource(p, s, k, at, final) ==
    /\ Up(p) /\ s \in view[p].roster
    /\ ~Has(view[p].known[s], "closure", k)
    /\ ~Final(view[p].known[s])
    /\ \A c \in Closures(view[p].known[s]) : NotAfter(c.at, at)
    /\ Publish(p, s, Closure(k, at, final))

\* Open restores the stored prefix; a non-empty one freezes the source set.
Open(p) ==
    /\ ~Up(p)
    /\ RestoreAccepts
    /\ view' = [view EXCEPT ![p] =
          [roster |-> declared, known |-> [s \in Source |-> Stored(s)],
           frozen |-> declared # {}]]
    /\ UNCHANGED <<file, run, job>>

Crash(p) ==
    /\ Up(p)
    /\ view' = [view EXCEPT ![p] = Down]
    /\ job' = [job EXCEPT ![p] = [pc |-> "idle"]]
    /\ UNCHANGED <<file, run>>

--------------------------------------------------------------------------------
(* A coordinator.  Exogenous inputs are pending until the end of the run:  *)
(* no WORK handler settles one.                                            *)

Step(p, j) == job' = [job EXCEPT ![p] = j]

\* Variant: exogenous inputs do not take part in the minimum.
PendingWithoutInputs == Agenda \ settled

Pending ==
    (Agenda \ settled) \cup {e.at : e \in UNION {Inputs(Stored(s)) : s \in Source}}

Plan(p, c) ==
    /\ Up(p) /\ job[p].pc = "idle"
    /\ Picks(clk, Pending, c)
    /\ Step(p, [pc |-> "planned", plan |-> PlanFor(clk, c)])
    /\ UNCHANGED <<file, view, run>>

\* AdmissionView and DeriveWithContext, from the prefix stored now.
Derive(p) ==
    LET plan == job[p].plan IN
    /\ job[p].pc = "planned"
    /\ Derivable(plan)
    /\ RestoreAccepts
    /\ Step(p, [pc |-> "derived", fence |-> Derived(plan), seen |-> file])
    /\ UNCHANGED <<file, view, run>>

\* Variant: the input prefix is not compared.
PrefixTrusted(p) == TRUE

\* AppendFenceIfPrefix: nothing was written since the fence was derived.
PrefixUnchanged(p) == job[p].seen = file

ControlAdmits(f) ==
    \/ control = <<"idle">>
    \/ control \in {<<"inflight", f>>, <<"authorized", f>>}

SealFence(p) ==
    LET f == job[p].fence IN
    /\ job[p].pc = "derived"
    /\ PrefixUnchanged(p)
    /\ f.cycle.instant = clk.instant /\ clk.last < f.cycle.ordinal
    /\ ControlAdmits(f)
    /\ fences' = fences \cup {f}
    /\ control' = <<"inflight", f>>
    /\ view' = [view EXCEPT ![p].frozen = TRUE]
    /\ Step(p, [pc |-> "sealed", fence |-> f])
    /\ UNCHANGED <<file, clk, settled, audit>>

Rederives(f) ==
    /\ AllCover(f.target)
    /\ f.inputs = DueInputs(f.cycle)
    /\ f.proof = Proof(f.target)

\* A WORK cohort commits only when a handler claims every unit of it.
Handled(f) == f.inputs = {}

CanCommit(f) ==
    /\ control = <<"inflight", f>>
    /\ Picks(clk, Pending, f.target)
    /\ Rederives(f)

CommitWork(p) ==
    LET f == job[p].fence IN
    /\ job[p].pc = "sealed" /\ f.kind = "work"
    /\ CanCommit(f)
    /\ Handled(f)
    /\ clk' = ApplyWork(clk, f.cycle.ordinal)
    /\ settled' = settled \cup {a \in Agenda : NotAfter(a, f.cycle)}
    /\ audit' = audit \cup {"commit", "decision"}
    /\ control' = <<"idle">>
    /\ Step(p, [pc |-> "idle"])
    /\ UNCHANGED <<file, view, fences>>

CommitAdvance(p) ==
    LET f == job[p].fence IN
    /\ job[p].pc = "sealed" /\ f.kind = "advance"
    /\ CanCommit(f)
    /\ clk' = ApplyAdvance(clk, f.target.instant)
    /\ audit' = audit \cup {"commit"}
    /\ control' = <<"idle">>
    /\ Step(p, [pc |-> "idle"])
    /\ UNCHANGED <<file, view, settled, fences>>

\* CommitCycleAbort, then the operator's AuthorizeAttemptRetry.
Abort(p) ==
    LET f == job[p].fence IN
    /\ job[p].pc = "sealed" /\ f.kind = "work"
    /\ control = <<"inflight", f>>
    /\ audit' = audit \cup {"abort"}
    /\ control' = <<"halted", f>>
    /\ Step(p, [pc |-> "idle"])
    /\ UNCHANGED <<file, view, clk, settled, fences>>

Retry(f) ==
    /\ control = <<"halted", f>>
    /\ audit' = audit \cup {"retry"}
    /\ control' = <<"authorized", f>>
    /\ UNCHANGED <<file, view, clk, settled, fences, job>>

\* The call returns an error and its caller starts over.
GiveUp(p) ==
    /\ \/ job[p].pc = "planned" /\ ~Derivable(job[p].plan)
       \/ job[p].pc = "derived" /\ ~(PrefixUnchanged(p) /\ ControlAdmits(job[p].fence))
       \/ job[p].pc = "sealed" /\ control # <<"inflight", job[p].fence>>
    /\ Step(p, [pc |-> "idle"])
    /\ UNCHANGED <<file, view, run>>

Drive(p) ==
    \/ \E c \in Pending : Plan(p, c)
    \/ Derive(p) \/ SealFence(p)
    \/ CommitWork(p) \/ CommitAdvance(p)
    \/ GiveUp(p)

Produce(p) ==
    \/ \E s \in Source : DeclareSource(p, s)
    \/ \E s \in Source, k \in Key, c \in Span : AppendInput(p, s, k, c)
    \/ \E s \in Source, k \in Key, c \in Span, f \in BOOLEAN :
          CloseSource(p, s, k, c, f)

Next ==
    \/ \E p \in Process :
          Produce(p) \/ Open(p) \/ Crash(p)
    \/ \E p \in Driver : Drive(p) \/ Abort(p)
    \/ \E f \in fences : Retry(f)

Spec == Init /\ [][Next]_vars

\* Every producer closes its source for good, every process that died is
\* started again, crashes end, and the driver keeps calling its coordinator.
CloseForGood(p, s) == \E k \in Key, c \in Span : CloseSource(p, s, k, c, TRUE)

FairSpec ==
    /\ Spec
    /\ \A p \in Process : WF_vars(Open(p))
    /\ \A p \in Driver : WF_vars(Drive(p))
    /\ \A p \in Process, s \in Source :
          WF_vars(DeclareSource(p, s)) /\ WF_vars(CloseForGood(p, s))
    /\ <>[](\A p \in Process : Up(p))

--------------------------------------------------------------------------------
(* Properties.                                                             *)

\* Every record, view, fence and job has the shape the code gives it.
TypeOK ==
    /\ declared \subseteq Source
    /\ stream \in [Source -> Seq(Entry)]
    /\ view \in [Process -> Ledger \cup {Down}]
    /\ clk \in ClockState
    /\ settled \subseteq Agenda
    /\ fences \subseteq Fence
    /\ audit \subseteq {"commit", "decision", "abort", "retry"}
    /\ control \in {<<"idle">>}
          \cup ({"inflight", "halted", "authorized"} \X Fence)
    /\ job \in [Process -> Job]

\* Whatever the processes wrote from their stale views, and wherever they died,
\* the store can be opened again: restore rejects no source history, so no
\* record has two receipts, none follows a final closure, and no input lies
\* under a closure that was stored before it.
Reopenable == RestoreAccepts

\* A sealed cut can be derived again at any later time: the admitted inputs of
\* its cycle and the first covering closure of every source are still those
\* the fence recorded, however far the sources have moved since.
SealedCutStands == \A f \in fences : Rederives(f)

\* The clock never passes an exogenous input: every committed cycle lies before
\* each stored input, because no handler settles one and the selection of the
\* next cycle counts them all.
NoInputPassedOver ==
    \A s \in Source : \A e \in Inputs(Stored(s)) : NotAfter(Floor(clk), e.at)

\* The coordinate a current Ledger gives a late input is one the store takes:
\* past every closure of its source it is past every seal and the clock floor
\* too, so once a cycle was sealed an input is never refused for being late.
LateInputFits ==
    \A s \in declared, c \in Span :
        LET at == Normalised(Stored(s), c)
            closed == Closures(Stored(s))
        IN  /\ fences # {} /\ ~Final(closed)
            /\ \A e \in closed : e.at # At(TopInstant, TopOrdinal)
            => /\ \A e \in closed : Precedes(e.at, at)
               /\ BeyondSeals(at)
               /\ NotAfter(Floor(clk), at)

\* Every declared source whose producer keeps closing it is closed at last,
\* unless the producer has no closure key of the instance left.
SourcesFinish ==
    \A s \in Source : s \in declared ~>
        \/ Final(Stored(s))
        \/ \A k \in Key : Has(Stored(s), "closure", k)

\* What the coordinator may rely on: SourceContract, where a source is the
\* frontier its closures have reached.
Frontier(s) ==
    LET closed == Closures(Stored(s)) IN
    IF Final(closed) THEN <<"shut">>
    ELSE IF closed = {} THEN <<"open">>
    ELSE <<"through", CHOOSE c \in {e.at : e \in closed} :
                         \A e \in closed : NotAfter(e.at, c)>>

Contract == INSTANCE SourceContract WITH
    Point <- Grid,
    roster <- declared,
    frontier <- [s \in Source |-> Frontier(s)],
    placed <- UNION {{[source |-> s, key |-> e.key, at |-> e.at] :
                         e \in Inputs(Stored(s))} : s \in Source},
    sealed <- {f.target : f \in fences}

\* The ledger, its stale views and its crashes implement the contract.
ImplementsContract == Contract!Spec

================================================================================
