--------------------------- MODULE SourceLedgerProofs ---------------------------
(***************************************************************************)
(* Theorems of SourceLedger, for every set of processes, sources, keys and *)
(* coordinates: the store restores, what is sealed stands, no input is     *)
(* passed over, and the ledger implements SourceContract.                  *)
(***************************************************************************)
EXTENDS SourceLedger, FiniteSetTheorems, TLAPS

USE DEF At

--------------------------------------------------------------------------------
(* Least and greatest elements.                                            *)

\* A set of natural numbers has a least element.
LEMMA LeastNumber ==
    ASSUME NEW T, T \subseteq Nat, T # {}
    PROVE  \E n \in T : \A m \in T : n <= m
<1> DEFINE R == {x \in Nat \X Nat : x[1] < x[2]}
<1>1. IsWellFoundedOn(R, Nat)
  BY NatLessThanWellFounded DEF OpToRel
<1>2. PICK n \in T : \A m \in T : <<m, n>> \notin R
  BY <1>1, WFMin
<1>3. ASSUME NEW m \in T PROVE n <= m
  <2>1. n \in Nat /\ m \in Nat /\ ~(m < n)
    BY <1>2
  <2> QED
    BY <2>1
<1> QED
  BY <1>2, <1>3

\* The order on coordinates, as arithmetic.
LEMMA Order ==
    ASSUME NEW p \in Coordinate, NEW q \in Coordinate
    PROVE  /\ Precedes(p, q) <=>
                 \/ p.instant < q.instant
                 \/ p.instant = q.instant /\ p.ordinal < q.ordinal
           /\ NotAfter(p, q) <=>
                 \/ p.instant < q.instant
                 \/ p.instant = q.instant /\ p.ordinal <= q.ordinal
           /\ NotAfter(p, q) /\ NotAfter(q, p) => p = q
           /\ p.instant \in Int /\ p.ordinal \in Nat
BY DEF Coordinate, Precedes, NotAfter

\* The coordinates a record can hold.
LEMMA GridFields ==
    ASSUME NEW p \in Grid
    PROVE  /\ p \in Coordinate
           /\ p.instant \in 0..TopInstant /\ p.ordinal \in 0..TopOrdinal
BY TopAssumption DEF Grid, Coordinate

\* Whatever coordinates of records are compared, one of them is the last.
LEMMA LastOfGrid ==
    ASSUME NEW S, S \subseteq Grid, S # {}
    PROVE  \E x \in S : \A y \in S : NotAfter(y, x)
<1> DEFINE late == {TopInstant - y.instant : y \in S}
<1>1. late \subseteq Nat /\ late # {}
  BY GridFields, TopAssumption
<1>2. PICK n \in late : \A m \in late : n <= m
  BY <1>1, LeastNumber
<1>3. PICK z \in S : n = TopInstant - z.instant
  BY <1>2
<1> DEFINE last == {TopOrdinal - y.ordinal : y \in {y \in S : y.instant = z.instant}}
<1>4. last \subseteq Nat /\ last # {}
  BY GridFields, TopAssumption
<1>5. PICK k \in last : \A m \in last : k <= m
  BY <1>4, LeastNumber
<1>6. PICK x \in S : x.instant = z.instant /\ k = TopOrdinal - x.ordinal
  BY <1>5
<1>7. ASSUME NEW y \in S PROVE NotAfter(y, x)
  <2>1. TopInstant - z.instant <= TopInstant - y.instant
    BY <1>2, <1>3
  <2>2. y.instant = x.instant => TopOrdinal - x.ordinal <= TopOrdinal - y.ordinal
    BY <1>5, <1>6
  <2> QED
    BY <1>6, <2>1, <2>2, GridFields, TopAssumption, Order
<1> QED
  BY <1>7

\* A late input asks for a coordinate of the grid and gets one, not before what
\* it asked for nor before the coordinate after a closure.
LEMMA NormalisedIsLast ==
    ASSUME NEW E, E \subseteq Entry, NEW c \in Grid
    PROVE  /\ Normalised(E, c) \in Grid
           /\ NotAfter(c, Normalised(E, c))
           /\ \A e \in Closures(E) : NotAfter(NextOpen(e.at), Normalised(E, c))
<1> DEFINE open == {c} \cup {NextOpen(e.at) : e \in Closures(E)}
<1>1. ASSUME NEW e \in Closures(E) PROVE NextOpen(e.at) \in Grid
  <2>1. e.at \in Grid
    BY DEF Closures, Entry
  <2>2. e.at.instant \in 0..TopInstant /\ e.at.ordinal \in 0..TopOrdinal
    BY <2>1, GridFields
  <2>3. CASE e.at.ordinal < TopOrdinal
    <3>1. e.at.ordinal + 1 \in 0..TopOrdinal
      BY <2>2, <2>3, TopAssumption
    <3>2. NextOpen(e.at) = At(e.at.instant, e.at.ordinal + 1)
      BY <2>2, <2>3, TopAssumption DEF NextOpen
    <3> QED
      BY <2>2, <3>1, <3>2 DEF Grid
  <2>4. CASE e.at.ordinal >= TopOrdinal /\ e.at.instant < TopInstant
    <3>1. e.at.instant + 1 \in 0..TopInstant /\ 0 \in 0..TopOrdinal
      BY <2>2, <2>4, TopAssumption
    <3>2. NextOpen(e.at) = At(e.at.instant + 1, 0)
      BY <2>2, <2>4, TopAssumption DEF NextOpen
    <3> QED
      BY <3>1, <3>2 DEF Grid
  <2>5. CASE ~(e.at.ordinal < TopOrdinal)
             /\ ~(e.at.ordinal >= TopOrdinal /\ e.at.instant < TopInstant)
    BY <2>1, <2>5 DEF NextOpen
  <2> QED
    BY <2>2, <2>3, <2>4, <2>5, TopAssumption
<1>2. open \subseteq Grid /\ open # {}
  BY <1>1
<1>3. \E x \in open : \A y \in open : NotAfter(y, x)
  BY <1>2, LastOfGrid
<1>4. Normalised(E, c) = CHOOSE x \in open : \A y \in open : NotAfter(y, x)
  BY DEF Normalised
<1> QED
  BY <1>2, <1>3, <1>4

\* The coordinate after one that is not the last lies behind it.
LEMMA NextOpenIsBehind ==
    ASSUME NEW c \in Grid, c # At(TopInstant, TopOrdinal)
    PROVE  Precedes(c, NextOpen(c)) /\ NextOpen(c) \in Coordinate
<1>1. c.instant \in 0..TopInstant /\ c.ordinal \in 0..TopOrdinal
  BY GridFields
<1>2. c.ordinal < TopOrdinal \/ c.instant < TopInstant
  BY <1>1, TopAssumption DEF Grid
<1>3. CASE c.ordinal < TopOrdinal
  BY <1>1, <1>3 DEF NextOpen, Precedes, Coordinate
<1>4. CASE ~(c.ordinal < TopOrdinal)
  BY <1>1, <1>2, <1>4, TopAssumption DEF NextOpen, Precedes, Coordinate
<1> QED
  BY <1>3, <1>4

--------------------------------------------------------------------------------
(* The invariant.  A fence is a cut of the grid: its cycle does not lie    *)
(* after its target, and a WORK cycle is its target.                       *)

Cut(kind, cycle, target) ==
    /\ target \in Grid
    /\ NotAfter(cycle, target)
    /\ kind = "work" => cycle = target

FenceCut(f) == Cut(f.kind, f.cycle, f.target)

\* Only closures are final.
InputsOpen == \A s \in Source : \A e \in Inputs(Stored(s)) : ~e.final

\* What is planned, derived, sealed or stored is a cut.
Cuts ==
    /\ \A f \in fences : FenceCut(f)
    /\ \A p \in Process :
          /\ job[p].pc = "planned" =>
                Cut(job[p].plan.kind, CycleOf(job[p].plan), job[p].plan.target)
          /\ job[p].pc = "derived" => FenceCut(job[p].fence)

\* The fence in flight was stored at the present clock, which has not moved.
FenceOfClock ==
    control # <<"idle">> =>
        /\ control[2] \in fences
        /\ control[2].cycle.instant = clk.instant
        /\ clk.last < control[2].cycle.ordinal

\* What a coordinator read of the store lies behind it, and while it is still
\* all there is the fence derived from it can be derived again.
ReadBehind ==
    \A p \in Process : job[p].pc = "derived" =>
        /\ job[p].seen[1] \subseteq declared
        /\ \A s \in Source : Len(job[p].seen[2][s]) <= Len(stream[s])
        /\ job[p].seen = file => Rederives(job[p].fence)

\* The floor of the clock has not passed the coordinate after some fence's
\* target, unless nothing was committed yet.
FloorSealed ==
    \/ Floor(clk) = At(0, 0)
    \/ \E f \in fences :
          NotAfter(Floor(clk), At(f.target.instant, f.target.ordinal + 1))

\* A coordinator that holds something has a Ledger: a crash takes both.
DriversRun == \A p \in Process : job[p].pc # "idle" => view[p] \in Ledger

Kept ==
    /\ TypeOK /\ DriversRun /\ InputsOpen /\ Cuts /\ FenceOfClock
    /\ Reopenable /\ ReadBehind /\ SealedCutStands
    /\ NoInputPassedOver /\ FloorSealed

--------------------------------------------------------------------------------
(* What the operators of the ledger return.                                *)

LEMMA StoredTyped ==
    ASSUME TypeOK, NEW s \in Source
    PROVE  /\ stream[s] \in Seq(Entry) /\ Len(stream[s]) \in Nat
           /\ DOMAIN stream[s] = 1..Len(stream[s])
           /\ Stored(s) \subseteq Entry
           /\ Inputs(Stored(s)) \subseteq Entry /\ Closures(Stored(s)) \subseteq Entry
<1>1. stream[s] \in Seq(Entry)
  BY DEF TypeOK
<1>2. DOMAIN stream[s] = 1..Len(stream[s]) /\ Len(stream[s]) \in Nat
  BY <1>1
<1>3. Stored(s) \subseteq Entry
  BY <1>1, <1>2 DEF Stored
<1> QED
  BY <1>1, <1>2, <1>3 DEF Inputs, Closures

LEMMA EntryFields ==
    ASSUME NEW e \in Entry
    PROVE  e.at \in Grid /\ e.key \in Key /\ e.kind \in {"input", "closure"} /\ e.final \in BOOLEAN
BY DEF Entry

\* The closure proof of a covered cut is, of every declared source, its first
\* covering closure.
LEMMA ProofIsFirst ==
    ASSUME TypeOK, NEW c, AllCover(c)
    PROVE  /\ Proof(c) \in [Source -> Nat]
           /\ \A s \in declared :
                 /\ Proof(c)[s] \in Covering(s, c)
                 /\ \A j \in Covering(s, c) : Proof(c)[s] <= j
<1>1. ASSUME NEW s \in declared
      PROVE  /\ Proof(c)[s] \in Covering(s, c)
             /\ \A j \in Covering(s, c) : Proof(c)[s] <= j
             /\ Proof(c)[s] \in Nat
  <2>1. s \in Source
    BY DEF TypeOK
  <2>2. Covering(s, c) \subseteq Nat
    BY <2>1, StoredTyped DEF Covering
  <2>3. \E i \in Covering(s, c) : \A j \in Covering(s, c) : i <= j
    BY <2>2, LeastNumber DEF AllCover
  <2>4. Proof(c)[s] = CHOOSE i \in Covering(s, c) : \A j \in Covering(s, c) : i <= j
    BY <2>1 DEF Proof
  <2> QED
    BY <2>2, <2>3, <2>4
<1>2. ASSUME NEW s \in Source PROVE Proof(c)[s] \in Nat
  <2>1. CASE s \in declared
    BY <1>1, <2>1
  <2>2. CASE s \notin declared
    BY <2>2 DEF Proof
  <2> QED
    BY <2>1, <2>2
<1>3. Proof(c) = [s \in Source |-> Proof(c)[s]]
  BY DEF Proof
<1> QED
  BY <1>1, <1>2, <1>3

LEMMA PendingOnGrid ==
    ASSUME TypeOK
    PROVE  Pending \subseteq Grid
<1>1. \A s \in Source : \A e \in Inputs(Stored(s)) : e.at \in Grid
  BY StoredTyped, EntryFields
<1> QED
  BY <1>1, SpanAssumption DEF Pending

LEMMA PlanIsCut ==
    ASSUME TypeOK, NEW c, Picks(clk, Pending, c)
    PROVE  /\ PlanFor(clk, c) \in CyclePlan
           /\ Cut(PlanFor(clk, c).kind, CycleOf(PlanFor(clk, c)), PlanFor(clk, c).target)
<1>1. c \in Grid /\ NotAfter(Floor(clk), c)
  BY PendingOnGrid DEF Picks, Smallest
<1>2. c \in Coordinate /\ c.instant \in Int /\ c.ordinal \in Nat
  BY <1>1, GridFields DEF Coordinate
<1>3. clk.instant \in Int /\ clk.last + 1 \in Nat
  BY DEF TypeOK, ClockState
<1>4. CASE c.instant = clk.instant
  <2>1. PlanFor(clk, c) = [kind |-> "work", from |-> clk.instant, to |-> clk.instant,
                           origin |-> c.ordinal, target |-> c]
    BY <1>4 DEF PlanFor
  <2>2. CycleOf(PlanFor(clk, c)) = c
    BY <2>1, <1>4, <1>2 DEF CycleOf, Coordinate
  <2> QED
    BY <2>1, <2>2, <1>1, <1>2, <1>3, Order DEF CyclePlan, Cut
<1>5. CASE c.instant # clk.instant
  <2>1. PlanFor(clk, c) = [kind |-> "advance", from |-> clk.instant, to |-> c.instant,
                           origin |-> clk.last + 1, target |-> c]
    BY <1>5 DEF PlanFor
  <2>2. CycleOf(PlanFor(clk, c)) = Floor(clk)
    BY <2>1 DEF CycleOf, Floor
  <2> QED
    BY <2>1, <2>2, <1>1, <1>2, <1>3 DEF CyclePlan, Cut
<1> QED
  BY <1>4, <1>5

LEMMA DueTyped ==
    ASSUME TypeOK, NEW c
    PROVE  DueInputs(c) \subseteq Source \X Key
<1>1. \A s \in Source : \A e \in InputsUpTo(s, c) : e.key \in Key
  BY StoredTyped, EntryFields DEF InputsUpTo
<1> QED
  BY <1>1 DEF DueInputs

LEMMA DerivedSound ==
    ASSUME TypeOK, NEW plan \in CyclePlan, Derivable(plan)
    PROVE  Derived(plan) \in Fence /\ Rederives(Derived(plan))
<1>1. CycleOf(plan) \in Coordinate /\ plan.target \in Coordinate
      /\ plan.kind \in {"work", "advance"}
  BY DEF CycleOf, CyclePlan, Coordinate
<1>2. AllCover(plan.target) /\ Proof(plan.target) \in [Source -> Nat]
  BY ProofIsFirst DEF Derivable
<1>3. DueInputs(CycleOf(plan)) \subseteq Source \X Key
  BY DueTyped
<1> QED
  BY <1>1, <1>2, <1>3 DEF Derived, Fence, Rederives

\* A step of a Ledger that stores something stores one record of its shape.
Publishes(p, s, e) ==
    /\ e \in Entry /\ (e.kind = "input" => ~e.final)
    /\ Publish(p, s, e)

LEMMA ProducerPublishes ==
    ASSUME TypeOK, NEW p \in Process, NEW s \in Source, NEW k \in Key, NEW c \in Span
    PROVE  /\ AppendInput(p, s, k, c) => \E e : Publishes(p, s, e) /\ Up(p)
           /\ \A f \in BOOLEAN :
                 CloseSource(p, s, k, c, f) => \E e : Publishes(p, s, e) /\ Up(p)
<1>1. c \in Grid
  BY SpanAssumption
<1>2. ASSUME AppendInput(p, s, k, c) PROVE \E e : Publishes(p, s, e) /\ Up(p)
  <2>1. view[p] \in Ledger /\ view[p].known[s] \subseteq Entry
    BY <1>2 DEF AppendInput, Up, TypeOK, Ledger
  <2>2. Normalised(view[p].known[s], c) \in Grid
    BY <1>1, <2>1, NormalisedIsLast
  <2>3. Input(k, Normalised(view[p].known[s], c)) \in Entry
    BY <2>2 DEF Input, Entry
  <2> QED
    BY <1>2, <2>3 DEF AppendInput, Publishes, Input
<1>3. ASSUME NEW f \in BOOLEAN, CloseSource(p, s, k, c, f)
      PROVE  \E e : Publishes(p, s, e) /\ Up(p)
  <2>1. Closure(k, c, f) \in Entry /\ Closure(k, c, f).kind # "input"
    BY <1>1 DEF Closure, Entry
  <2> QED
    BY <1>3, <2>1 DEF CloseSource, Publishes
<1> QED
  BY <1>2, <1>3

\* The steps of the system, with what a Ledger stores named.
LEMMA Steps ==
    ASSUME TypeOK, [Next]_vars
    PROVE  \/ UNCHANGED vars
           \/ \E p \in Process, s \in Source : DeclareSource(p, s)
           \/ \E p \in Process, s \in Source, e \in Entry : Publishes(p, s, e) /\ Up(p)
           \/ \E p \in Process : Open(p) \/ Crash(p)
           \/ \E p \in Process : (\E c : Plan(p, c)) \/ Derive(p) \/ GiveUp(p)
           \/ \E p \in Process :
                 SealFence(p) \/ CommitWork(p) \/ CommitAdvance(p) \/ Abort(p)
           \/ \E f \in fences : Retry(f)
<1>1. CASE \E p \in Process : Produce(p)
  <2>1. PICK p \in Process : Produce(p)
    BY <1>1
  <2>2. \A s \in Source : \A e : Publishes(p, s, e) => e \in Entry
    BY DEF Publishes
  <2> QED
    BY <2>1, <2>2, ProducerPublishes DEF Produce
<1>2. CASE \E p \in Driver : Drive(p) \/ Abort(p)
  BY <1>2, DriverAssumption DEF Drive
<1> QED
  BY <1>1, <1>2 DEF Next

--------------------------------------------------------------------------------
(* What a stored record changes.                                           *)

Rows(q) == {q[i] : i \in DOMAIN q}

SameUpTo(n, q, w) == \A i \in 1..n : w[i] = q[i]

\* A row more, seen from the set of the rows.
LEMMA RowsOf ==
    ASSUME NEW n \in Nat, NEW q, NEW w, NEW e,
           DOMAIN q = 1..n, DOMAIN w = 1..(n + 1), w[n + 1] = e,
           SameUpTo(n, q, w)
    PROVE  Rows(w) = Rows(q) \cup {e}
<1>1. 1..(n + 1) = 1..n \cup {n + 1}
  OBVIOUS
<1>2. {q[i] : i \in 1..n} = {w[i] : i \in 1..n}
  BY DEF SameUpTo
<1>3. {w[i] : i \in 1..(n + 1)} = {w[i] : i \in 1..n} \cup {w[n + 1]}
  BY <1>1, Zenon
<1> QED
  BY <1>2, <1>3 DEF Rows

LEMMA LenIsNat ==
    ASSUME NEW S, NEW q \in Seq(S)
    PROVE  Len(q) \in Nat /\ DOMAIN q = 1..Len(q)
OBVIOUS

LEMMA Grown ==
    ASSUME TypeOK, NEW p, NEW s \in Source, NEW e \in Entry, Publishes(p, s, e)
    PROVE  /\ stream' \in [Source -> Seq(Entry)]
           /\ stream'[s] = Append(stream[s], e)
           /\ Len(stream'[s]) = Len(stream[s]) + 1
           /\ stream'[s][Len(stream[s]) + 1] = e
           /\ \A i \in 1..Len(stream[s]) : stream'[s][i] = stream[s][i]
           /\ Stored(s)' = Stored(s) \cup {e}
           /\ \A r \in Source : r # s =>
                 stream'[r] = stream[r] /\ Stored(r)' = Stored(r)
<1>1. stream[s] \in Seq(Entry) /\ stream' = [stream EXCEPT ![s] = Append(@, e)]
  BY DEF TypeOK, Publishes, Publish
<1>2. stream'[s] = Append(stream[s], e) /\ stream' \in [Source -> Seq(Entry)]
  BY <1>1 DEF TypeOK
<1>3. /\ Len(stream'[s]) = Len(stream[s]) + 1
      /\ stream'[s][Len(stream[s]) + 1] = e
      /\ \A i \in 1..Len(stream[s]) : stream'[s][i] = stream[s][i]
  BY <1>1, <1>2
<1>4. Stored(s)' = Stored(s) \cup {e}
  <2>1. DOMAIN stream'[s] = 1..(Len(stream[s]) + 1) /\ DOMAIN stream[s] = 1..Len(stream[s])
        /\ Len(stream[s]) \in Nat
    BY <1>1, <1>2, <1>3
  <2> DEFINE n == Len(stream[s])
  <2>2. Stored(s)' = Rows(stream'[s])
    BY DEF Stored, Rows
  <2>3. Stored(s) = Rows(stream[s])
    BY DEF Stored, Rows
  <2>4. /\ n \in Nat /\ DOMAIN stream[s] = 1..n /\ DOMAIN stream'[s] = 1..(n + 1)
        /\ stream'[s][n + 1] = e /\ SameUpTo(n, stream[s], stream'[s])
    BY <1>3, <2>1 DEF SameUpTo
  <2> HIDE DEF n
  <2>5. Rows(stream'[s]) = Rows(stream[s]) \cup {e}
    BY <2>4, RowsOf
  <2> QED
    BY <2>2, <2>3, <2>5
<1>5. \A r \in Source : r # s => stream'[r] = stream[r]
  BY <1>1 DEF TypeOK
<1>6. \A r \in Source : r # s => Stored(r)' = Stored(r)
  BY <1>5 DEF Stored
<1> QED
  BY <1>2, <1>3, <1>4, <1>5, <1>6

LEMMA JobFields ==
    ASSUME TypeOK, NEW p \in Process
    PROVE  /\ job[p].pc = "planned" => job[p].plan \in CyclePlan
           /\ job[p].pc = "derived" =>
                 /\ job[p].fence \in Fence
                 /\ job[p].seen \in (SUBSET Source) \X [Source -> Seq(Entry)]
           /\ job[p].pc = "sealed" => job[p].fence \in Fence
<1>1. job[p] \in Job
  BY DEF TypeOK
<1> QED
  BY <1>1 DEF Job

LEMMA FenceFields ==
    ASSUME NEW f \in Fence
    PROVE  /\ f.kind \in {"work", "advance"}
           /\ f.cycle \in Coordinate /\ f.target \in Coordinate
           /\ f.inputs \subseteq Source \X Key
           /\ f.proof \in [Source -> Nat]
BY DEF Fence

--------------------------------------------------------------------------------
(* Types.                                                                  *)

LEMMA TypeInit == Init => TypeOK /\ DriversRun
BY DEF Init, TypeOK, DriversRun, Ledger, Fresh, ClockState, Job

LEMMA TypeStep == TypeOK /\ DriversRun /\ [Next]_vars => TypeOK'
<1> SUFFICES ASSUME TypeOK, DriversRun, [Next]_vars PROVE TypeOK'
  OBVIOUS
<1>1. CASE UNCHANGED vars
  BY <1>1 DEF vars, file, run, TypeOK
<1>2. ASSUME NEW p \in Process, NEW s \in Source, DeclareSource(p, s) PROVE TypeOK'
  <2>1. view[p] \in Ledger
    BY <1>2 DEF DeclareSource, Up, TypeOK
  <2>2. view' \in [Process -> Ledger \cup {Down}]
    BY <1>2, <2>1 DEF DeclareSource, TypeOK, Ledger
  <2> QED
    BY <1>2, <2>2 DEF DeclareSource, run, TypeOK
<1>3. ASSUME NEW p \in Process, NEW s \in Source, NEW e \in Entry,
             Publishes(p, s, e), Up(p)
      PROVE  TypeOK'
  <2>1. view[p] \in Ledger
    BY <1>3 DEF Up, TypeOK
  <2>2. view' = [view EXCEPT ![p].known[s] = @ \cup {e}]
    BY <1>3 DEF Publishes, Publish
  <2>3. [view[p] EXCEPT !.known[s] = @ \cup {e}] \in Ledger
    BY <2>1 DEF Ledger
  <2>4. view' \in [Process -> Ledger \cup {Down}]
    BY <2>2, <2>3 DEF TypeOK
  <2>5. stream' \in [Source -> Seq(Entry)]
    BY <1>3, Grown
  <2> QED
    BY <1>3, <2>4, <2>5 DEF Publishes, Publish, run, TypeOK
<1>4. ASSUME NEW p \in Process, Open(p) PROVE TypeOK'
  <2>1. [s \in Source |-> Stored(s)] \in [Source -> SUBSET Entry]
    BY StoredTyped
  <2>2. [roster |-> declared, known |-> [s \in Source |-> Stored(s)],
         frozen |-> declared # {}] \in Ledger
    BY <2>1 DEF Ledger, TypeOK
  <2> QED
    BY <1>4, <2>2 DEF Open, file, run, TypeOK
<1>5. ASSUME NEW p \in Process, Crash(p) PROVE TypeOK'
  BY <1>5 DEF Crash, file, run, TypeOK, Job
<1>6. ASSUME NEW p \in Process, NEW c, Plan(p, c) PROVE TypeOK'
  <2>1. [pc |-> "planned", plan |-> PlanFor(clk, c)] \in Job
    BY <1>6, PlanIsCut DEF Plan, Job
  <2> QED
    BY <1>6, <2>1 DEF Plan, Step, file, run, TypeOK
<1>7. ASSUME NEW p \in Process, Derive(p) PROVE TypeOK'
  <2>1. Derived(job[p].plan) \in Fence
    BY <1>7, JobFields, DerivedSound DEF Derive
  <2>2. file \in (SUBSET Source) \X [Source -> Seq(Entry)]
    BY DEF file, TypeOK
  <2>3. [pc |-> "derived", fence |-> Derived(job[p].plan), seen |-> file] \in Job
    BY <2>1, <2>2 DEF Job
  <2> QED
    BY <1>7, <2>3 DEF Derive, Step, file, run, TypeOK
<1>8. ASSUME NEW p \in Process, GiveUp(p) PROVE TypeOK'
  BY <1>8 DEF GiveUp, Step, file, run, TypeOK, Job
<1>9. ASSUME NEW p \in Process, SealFence(p) PROVE TypeOK'
  <2>1. job[p].fence \in Fence /\ view[p] \in Ledger
    BY <1>9, JobFields DEF SealFence, DriversRun
  <2>2. [pc |-> "sealed", fence |-> job[p].fence] \in Job
    BY <2>1 DEF Job
  <2>3. [view[p] EXCEPT !.frozen = TRUE] \in Ledger
    BY <2>1 DEF Ledger
  <2>4. control' \in {"inflight", "halted", "authorized"} \X Fence
    BY <1>9, <2>1 DEF SealFence
  <2> QED
    BY <1>9, <2>1, <2>2, <2>3, <2>4 DEF SealFence, Step, file, TypeOK
<1>10. ASSUME NEW p \in Process, CommitWork(p) \/ CommitAdvance(p) PROVE TypeOK'
  <2>1. job[p].fence \in Fence
    BY <1>10, JobFields DEF CommitWork, CommitAdvance
  <2>2. clk' \in ClockState
    BY <1>10, <2>1, FenceFields
       DEF CommitWork, CommitAdvance, ApplyWork, ApplyAdvance, TypeOK, ClockState, Coordinate
  <2>3. job' = [job EXCEPT ![p] = [pc |-> "idle"]] /\ [pc |-> "idle"] \in Job
    BY <1>10 DEF CommitWork, CommitAdvance, Step, Job
  <2> QED
    BY <1>10, <2>2, <2>3 DEF CommitWork, CommitAdvance, file, TypeOK
<1>11. ASSUME NEW p \in Process, Abort(p) PROVE TypeOK'
  <2>1. job[p].fence \in Fence /\ job' \in [Process -> Job]
    BY <1>11, JobFields DEF Abort, Step, TypeOK, Job
  <2> QED
    BY <1>11, <2>1 DEF Abort, file, TypeOK
<1>12. ASSUME NEW f \in fences, Retry(f) PROVE TypeOK'
  BY <1>12 DEF Retry, file, TypeOK
<1> QED
  BY <1>1, <1>2, <1>3, <1>4, <1>5, <1>6, <1>7, <1>8, <1>9, <1>10, <1>11, <1>12, Steps

\* What keeps a coordinator's Ledger: its view stays one and it holds what it
\* held, or it lets go.
LEMMA RunStep == TypeOK /\ DriversRun /\ [Next]_vars => DriversRun'
<1> SUFFICES ASSUME TypeOK, DriversRun, [Next]_vars PROVE DriversRun'
  OBVIOUS
<1>1. CASE UNCHANGED vars
  BY <1>1 DEF vars, DriversRun
<1>2. ASSUME job' = job, \A q \in Process : view[q] \in Ledger => view'[q] \in Ledger
      PROVE  DriversRun'
  BY <1>2 DEF DriversRun
<1>3. ASSUME view' = view, NEW p \in Process, NEW j, Step(p, j),
             view[p] \in Ledger \/ j.pc = "idle"
      PROVE  DriversRun'
  <2>1. job'[p] = j /\ \A q \in Process : q # p => job'[q] = job[q]
    BY <1>3 DEF Step, TypeOK
  <2> QED
    BY <1>3, <2>1 DEF DriversRun
<1>4. ASSUME NEW p \in Process, NEW s \in Source, DeclareSource(p, s) PROVE DriversRun'
  <2>1. \A q \in Process : view[q] \in Ledger => view'[q] \in Ledger
    <3>1. view[p] \in Ledger
      BY <1>4 DEF DeclareSource, Up, TypeOK
    <3>2. [view[p] EXCEPT !.roster = @ \cup {s}] \in Ledger
      BY <3>1 DEF Ledger
    <3> QED
      BY <1>4, <3>2 DEF DeclareSource, TypeOK
  <2> QED
    BY <1>2, <1>4, <2>1 DEF DeclareSource
<1>5. ASSUME NEW p \in Process, NEW s \in Source, NEW e \in Entry,
             Publishes(p, s, e), Up(p)
      PROVE  DriversRun'
  <2>1. \A q \in Process : view[q] \in Ledger => view'[q] \in Ledger
    <3>1. view[p] \in Ledger
      BY <1>5 DEF Up, TypeOK
    <3>2. [view[p] EXCEPT !.known[s] = @ \cup {e}] \in Ledger
      BY <3>1 DEF Ledger
    <3> QED
      BY <1>5, <3>2 DEF Publishes, Publish, TypeOK
  <2> QED
    BY <1>2, <1>5, <2>1 DEF Publishes, Publish
<1>6. ASSUME NEW p \in Process, Open(p) PROVE DriversRun'
  <2>1. [s \in Source |-> Stored(s)] \in [Source -> SUBSET Entry]
    BY StoredTyped
  <2>2. [roster |-> declared, known |-> [s \in Source |-> Stored(s)],
         frozen |-> declared # {}] \in Ledger
    BY <2>1 DEF Ledger, TypeOK
  <2> QED
    BY <1>2, <1>6, <2>2 DEF Open, TypeOK
<1>7. ASSUME NEW p \in Process, Crash(p) PROVE DriversRun'
  BY <1>7 DEF Crash, DriversRun, TypeOK
<1>8. ASSUME NEW p \in Process,
             (\E c : Plan(p, c)) \/ Derive(p) \/ GiveUp(p)
               \/ CommitWork(p) \/ CommitAdvance(p) \/ Abort(p)
      PROVE  DriversRun'
  <2>1. view' = view
    BY <1>8 DEF Plan, Derive, GiveUp, CommitWork, CommitAdvance, Abort
  <2>2. CASE \E c : Plan(p, c)
    <3>1. view[p] \in Ledger
      BY <2>2 DEF Plan, Up, TypeOK
    <3> QED
      BY <1>3, <2>1, <2>2, <3>1 DEF Plan
  <2>3. CASE Derive(p)
    <3>1. view[p] \in Ledger
      BY <2>3 DEF Derive, DriversRun
    <3> QED
      BY <1>3, <2>1, <2>3, <3>1 DEF Derive
  <2>4. CASE GiveUp(p) \/ CommitWork(p) \/ CommitAdvance(p) \/ Abort(p)
    <3>1. Step(p, [pc |-> "idle"])
      BY <2>4 DEF GiveUp, CommitWork, CommitAdvance, Abort
    <3> QED
      BY <1>3, <2>1, <3>1
  <2> QED
    BY <1>8, <2>2, <2>3, <2>4
<1>9. ASSUME NEW p \in Process, SealFence(p) PROVE DriversRun'
  <2>1. view[p] \in Ledger
    BY <1>9 DEF SealFence, DriversRun
  <2>2. [view[p] EXCEPT !.frozen = TRUE] \in Ledger
    BY <2>1 DEF Ledger
  <2>3. view'[p] \in Ledger /\ \A q \in Process : q # p => view'[q] = view[q]
    BY <1>9, <2>2 DEF SealFence, TypeOK
  <2>4. \A q \in Process : q # p => job'[q] = job[q]
    BY <1>9 DEF SealFence, Step, TypeOK
  <2> QED
    BY <2>3, <2>4 DEF DriversRun
<1>10. ASSUME NEW f \in fences, Retry(f) PROVE DriversRun'
  BY <1>2, <1>10 DEF Retry
<1> QED
  BY <1>1, <1>4, <1>5, <1>6, <1>7, <1>8, <1>9, <1>10, Steps

--------------------------------------------------------------------------------
(* Sealed cuts.                                                            *)

\* What can be derived depends on the stored records only.
LEMMA SameFile ==
    ASSUME UNCHANGED file, NEW f
    PROVE  Rederives(f)' = Rederives(f)
<1>1. declared' = declared /\ stream' = stream
  BY DEF file
<1>2. AllCover(f.target)' = AllCover(f.target)
  BY <1>1 DEF AllCover, Covering
<1>3. Proof(f.target)' = Proof(f.target)
  BY <1>1 DEF Proof, Covering
<1>4. DueInputs(f.cycle)' = DueInputs(f.cycle)
  BY <1>1 DEF DueInputs, InputsUpTo, Stored
<1> QED
  BY <1>2, <1>3, <1>4 DEF Rederives

LEMMA PrecedesTransitive ==
    ASSUME NEW a \in Coordinate, NEW b \in Coordinate, NEW c \in Coordinate
    PROVE  /\ NotAfter(a, b) /\ Precedes(b, c) => Precedes(a, c)
           /\ Precedes(a, b) /\ NotAfter(b, c) => Precedes(a, c)
           /\ NotAfter(a, b) /\ NotAfter(b, c) => NotAfter(a, c)
           /\ Precedes(a, b) => NotAfter(a, b)
BY DEF Coordinate, Precedes, NotAfter

\* The coverings of a cut grow at the end of a stream only.
LEMMA CoveringGrows ==
    ASSUME TypeOK, NEW p, NEW s \in Source, NEW e \in Entry, Publishes(p, s, e),
           NEW r \in Source, NEW c
    PROVE  /\ Covering(r, c) \subseteq Covering(r, c)'
           /\ \A i \in Covering(r, c)', j \in Covering(r, c) :
                 i \in Covering(r, c) \/ j <= i
           /\ Covering(r, c) \subseteq Nat /\ Covering(r, c)' \subseteq Nat
<1>1. CASE r # s
  <2>1. stream'[r] = stream[r]
    BY <1>1, Grown
  <2> QED
    BY <2>1, StoredTyped DEF Covering
<1>2. CASE r = s
  <2>1. /\ DOMAIN stream[s] = 1..Len(stream[s]) /\ Len(stream[s]) \in Nat
    BY StoredTyped
  <2>2. stream'[s] \in Seq(Entry) /\ Len(stream'[s]) = Len(stream[s]) + 1
    BY Grown
  <2>3. DOMAIN stream'[s] = 1..(Len(stream[s]) + 1)
    BY <2>2
  <2>4. \A i \in 1..Len(stream[s]) : stream'[s][i] = stream[s][i]
    BY Grown
  <2> QED
    BY <1>2, <2>1, <2>3, <2>4 DEF Covering
<1> QED
  BY <1>1, <1>2

\* A record past the target of a fence changes nothing that it recorded.
LEMMA CutStays ==
    ASSUME TypeOK, NEW p, NEW s \in Source, NEW e \in Entry, Publishes(p, s, e),
           NEW f \in Fence, FenceCut(f), Precedes(f.target, e.at), Rederives(f)
    PROVE  Rederives(f)'
<1>1. AllCover(f.target) /\ declared' = declared /\ declared \subseteq Source
  BY DEF Rederives, Publishes, Publish, TypeOK
<1>2. AllCover(f.target)'
  BY <1>1, CoveringGrows DEF AllCover
<1>3. Proof(f.target)' = Proof(f.target)
  <2>1. ASSUME NEW r \in declared
        PROVE  Proof(f.target)'[r] = Proof(f.target)[r]
    <3> DEFINE m == Proof(f.target)[r]
    <3>1. r \in Source /\ m \in Covering(r, f.target)
          /\ \A j \in Covering(r, f.target) : m <= j
      BY <1>1, <2>1, ProofIsFirst
    <3>2. m \in Covering(r, f.target)' /\ \A j \in Covering(r, f.target)' : m <= j
      BY <3>1, CoveringGrows
    <3>3. Proof(f.target)'[r] = CHOOSE i \in Covering(r, f.target)' :
                                   \A j \in Covering(r, f.target)' : i <= j
      BY <1>1, <3>1 DEF Proof
    <3> HIDE DEF m
    <3>4. Covering(r, f.target)' \subseteq Nat
      BY <3>1, CoveringGrows
    <3>5. (CHOOSE i \in Covering(r, f.target)' : \A j \in Covering(r, f.target)' : i <= j) = m
      BY <3>2, <3>4
    <3> QED
      BY <3>3, <3>5 DEF m
  <2>2. ASSUME NEW r \in Source PROVE Proof(f.target)'[r] = Proof(f.target)[r]
    <3>1. CASE r \in declared
      BY <2>1, <3>1
    <3>2. CASE r \notin declared
      BY <1>1, <3>2 DEF Proof
    <3> QED
      BY <3>1, <3>2
  <2>3. /\ Proof(f.target) = [r \in Source |-> Proof(f.target)[r]]
        /\ Proof(f.target)' = [r \in Source |-> Proof(f.target)'[r]]
    BY DEF Proof
  <2> QED
    BY <2>2, <2>3
<1>4. DueInputs(f.cycle)' = DueInputs(f.cycle)
  <2>1. ~NotAfter(e.at, f.cycle)
    <3>1. f.cycle \in Coordinate /\ f.target \in Coordinate /\ e.at \in Coordinate
      BY FenceFields, EntryFields, GridFields
    <3> QED
      BY <3>1, PrecedesTransitive DEF FenceCut, Cut, NotAfter
  <2>2. \A r \in Source : InputsUpTo(r, f.cycle)' = InputsUpTo(r, f.cycle)
    <3>1. InputsUpTo(s, f.cycle)' = InputsUpTo(s, f.cycle)
      <4>1. Stored(s)' = Stored(s) \cup {e}
        BY Grown
      <4> QED
        BY <2>1, <4>1 DEF InputsUpTo, Inputs
    <3>2. \A r \in Source : r # s => Stored(r)' = Stored(r)
      BY Grown
    <3> QED
      BY <3>1, <3>2 DEF InputsUpTo
  <2> QED
    BY <2>2 DEF DueInputs
<1> QED
  BY <1>2, <1>3, <1>4 DEF Rederives

--------------------------------------------------------------------------------
(* The fence in flight, and the cuts.                                      *)

\* Who changes the records, the fences, the clock and the fence in flight.
LEMMA Movers ==
    ASSUME TypeOK, [Next]_vars
    PROVE  /\ \/ UNCHANGED file
              \/ \E p \in Process, s \in Source : DeclareSource(p, s)
              \/ \E p \in Process, s \in Source, e \in Entry : Publishes(p, s, e)
           /\ \/ UNCHANGED <<fences, clk, control>>
              \/ \E p \in Process :
                    SealFence(p) \/ CommitWork(p) \/ CommitAdvance(p) \/ Abort(p)
              \/ \E f \in fences : Retry(f)
<1>1. ASSUME NEW p \in Process
      PROVE  /\ \A s \in Source : DeclareSource(p, s) => UNCHANGED <<fences, clk, control>>
             /\ \A s \in Source, e \in Entry :
                   Publishes(p, s, e) => UNCHANGED <<fences, clk, control>>
             /\ Open(p) \/ Crash(p) => UNCHANGED <<fences, clk, control>> /\ UNCHANGED file
             /\ (\E c : Plan(p, c)) \/ Derive(p) \/ GiveUp(p) =>
                   UNCHANGED <<fences, clk, control>> /\ UNCHANGED file
             /\ SealFence(p) \/ CommitWork(p) \/ CommitAdvance(p) \/ Abort(p) =>
                   UNCHANGED file
  BY DEF DeclareSource, Publishes, Publish, Open, Crash, Plan, Derive, GiveUp, SealFence,
         CommitWork, CommitAdvance, Abort, run
<1>2. \A f \in fences : Retry(f) => UNCHANGED file
  BY DEF Retry
<1>3. UNCHANGED vars => UNCHANGED <<fences, clk, control>> /\ UNCHANGED file
  BY DEF vars, run
<1> QED
  BY <1>1, <1>2, <1>3, Steps

LEMMA FencesGrow ==
    ASSUME TypeOK, [Next]_vars
    PROVE  fences \subseteq fences'
<1>1. \A p \in Process : SealFence(p) \/ CommitWork(p) \/ CommitAdvance(p) \/ Abort(p)
         => fences \subseteq fences'
  BY DEF SealFence, CommitWork, CommitAdvance, Abort
<1>2. \A f \in fences : Retry(f) => fences \subseteq fences'
  BY DEF Retry
<1> QED
  BY <1>1, <1>2, Movers

LEMMA FenceOfClockStep ==
    ASSUME TypeOK, FenceOfClock, [Next]_vars
    PROVE  FenceOfClock'
<1>1. CASE UNCHANGED <<fences, clk, control>>
  BY <1>1 DEF FenceOfClock
<1>2. ASSUME NEW p \in Process, SealFence(p) PROVE FenceOfClock'
  BY <1>2 DEF SealFence, FenceOfClock
<1>3. ASSUME NEW p \in Process, CommitWork(p) \/ CommitAdvance(p) PROVE FenceOfClock'
  BY <1>3 DEF CommitWork, CommitAdvance, FenceOfClock
<1>4. ASSUME NEW p \in Process, Abort(p) PROVE FenceOfClock'
  BY <1>4 DEF Abort, FenceOfClock
<1>5. ASSUME NEW f \in fences, Retry(f) PROVE FenceOfClock'
  BY <1>5 DEF Retry, FenceOfClock
<1> QED
  BY <1>1, <1>2, <1>3, <1>4, <1>5, Movers

LEMMA CutsStep ==
    ASSUME TypeOK, Cuts, [Next]_vars
    PROVE  Cuts'
<1>1. ASSUME UNCHANGED fences, NEW p \in Process, NEW j, Step(p, j),
             j.pc = "planned" => Cut(j.plan.kind, CycleOf(j.plan), j.plan.target),
             j.pc = "derived" => FenceCut(j.fence)
      PROVE  Cuts'
  <2>1. job'[p] = j /\ \A q \in Process : q # p => job'[q] = job[q]
    BY <1>1 DEF Step, TypeOK
  <2> QED
    BY <1>1, <2>1 DEF Cuts
<1>2. CASE UNCHANGED <<fences, job>>
  BY <1>2 DEF Cuts
<1>3. ASSUME NEW p \in Process, Crash(p) PROVE Cuts'
  <2>1. Step(p, [pc |-> "idle"]) /\ UNCHANGED fences
    BY <1>3 DEF Crash, Step, run
  <2> QED
    BY <1>1, <2>1
<1>4. ASSUME NEW p \in Process, NEW c, Plan(p, c) PROVE Cuts'
  <2> DEFINE j == [pc |-> "planned", plan |-> PlanFor(clk, c)]
  <2>1. Step(p, j) /\ UNCHANGED fences /\ Picks(clk, Pending, c)
    BY <1>4 DEF Plan, run
  <2>2. Cut(j.plan.kind, CycleOf(j.plan), j.plan.target)
    BY <2>1, PlanIsCut
  <2> QED
    BY <1>1, <2>1, <2>2
<1>5. ASSUME NEW p \in Process, Derive(p) PROVE Cuts'
  <2> DEFINE j == [pc |-> "derived", fence |-> Derived(job[p].plan), seen |-> file]
  <2>1. Step(p, j) /\ UNCHANGED fences
    BY <1>5 DEF Derive, run
  <2>2. FenceCut(j.fence)
    BY <1>5 DEF Derive, Derived, FenceCut, Cuts
  <2> QED
    BY <1>1, <2>1, <2>2
<1>6. ASSUME NEW p \in Process,
             GiveUp(p) \/ CommitWork(p) \/ CommitAdvance(p) \/ Abort(p)
      PROVE  Cuts'
  <2>1. Step(p, [pc |-> "idle"]) /\ UNCHANGED fences
    BY <1>6 DEF GiveUp, CommitWork, CommitAdvance, Abort, run
  <2> QED
    BY <1>1, <2>1
<1>7. ASSUME NEW p \in Process, SealFence(p) PROVE Cuts'
  <2>1. FenceCut(job[p].fence) /\ fences' = fences \cup {job[p].fence}
    BY <1>7 DEF SealFence, Cuts
  <2>2. job'[p].pc = "sealed" /\ \A q \in Process : q # p => job'[q] = job[q]
    BY <1>7 DEF SealFence, Step, TypeOK
  <2> QED
    BY <2>1, <2>2 DEF Cuts
<1>8. \A p \in Process, s \in Source : DeclareSource(p, s) => UNCHANGED <<fences, job>>
  BY DEF DeclareSource, run
<1>9. \A p \in Process, s \in Source, e \in Entry :
         Publishes(p, s, e) => UNCHANGED <<fences, job>>
  BY DEF Publishes, Publish, run
<1>10. \A p \in Process : Open(p) => UNCHANGED <<fences, job>>
  BY DEF Open, run
<1>11. \A f \in fences : Retry(f) => UNCHANGED <<fences, job>>
  BY DEF Retry
<1>12. UNCHANGED vars => UNCHANGED <<fences, job>>
  BY DEF vars, run
<1> QED
  BY <1>2, <1>3, <1>4, <1>5, <1>6, <1>7, <1>8, <1>9, <1>10, <1>11, <1>12, Steps

--------------------------------------------------------------------------------
(* Restoring.                                                              *)

LEMMA RestoreStep ==
    ASSUME TypeOK, InputsOpen, Reopenable, [Next]_vars
    PROVE  InputsOpen' /\ Reopenable'
<1>1. CASE UNCHANGED file
  BY <1>1 DEF file, InputsOpen, Stored, Reopenable, RestoreAccepts
<1>2. ASSUME NEW p \in Process, NEW s \in Source, DeclareSource(p, s)
      PROVE  InputsOpen' /\ Reopenable'
  BY <1>2 DEF DeclareSource, InputsOpen, Stored, Reopenable, RestoreAccepts
<1>3. ASSUME NEW p \in Process, NEW s \in Source, NEW e \in Entry, Publishes(p, s, e)
      PROVE  InputsOpen' /\ Reopenable'
  <2>1. /\ s \in declared /\ declared' = declared
        /\ ~Has(Stored(s), e.kind, e.key)
        /\ ~Final(Stored(s))
        /\ \A c \in Closures(Stored(s)) :
              IF e.kind = "input" THEN Precedes(c.at, e.at) ELSE NotAfter(c.at, e.at)
        /\ e.kind = "input" => ~e.final
    BY <1>3 DEF Publishes, Publish, Accepts, NotYetStored, Lifecycle
  <2>2. /\ Stored(s)' = Stored(s) \cup {e}
        /\ \A r \in Source : r # s => stream'[r] = stream[r] /\ Stored(r)' = Stored(r)
    BY <1>3, Grown
  <2>5. /\ stream'[s] \in Seq(Entry) /\ Len(stream'[s]) = Len(stream[s]) + 1
        /\ stream'[s][Len(stream[s]) + 1] = e
        /\ \A i \in 1..Len(stream[s]) : stream'[s][i] = stream[s][i]
    BY <1>3, Grown, ZenonT(60)
  <2>3. InputsOpen'
    BY <2>1, <2>2 DEF InputsOpen, Inputs
  <2>4. Restorable(stream'[s])
    <3> DEFINE n == Len(stream[s])
    <3>1. /\ n \in Nat /\ DOMAIN stream[s] = 1..n
          /\ DOMAIN stream'[s] = 1..(n + 1)
          /\ stream'[s][n + 1] = e
          /\ \A i \in 1..n : stream'[s][i] = stream[s][i]
      <4>1. DOMAIN stream'[s] = 1..(n + 1)
        BY <2>5, LenIsNat
      <4> QED
        BY <2>5, <4>1, StoredTyped
    <3>2. Restorable(stream[s])
      BY DEF Reopenable, RestoreAccepts
    <3>3. ASSUME NEW i \in 1..n
          PROVE  /\ ~(stream[s][i].kind = e.kind /\ stream[s][i].key = e.key)
                 /\ ~stream[s][i].final
                 /\ stream[s][i].kind = "closure" =>
                       IF e.kind = "input" THEN Precedes(stream[s][i].at, e.at)
                                           ELSE NotAfter(stream[s][i].at, e.at)
      <4>1. stream[s][i] \in Stored(s) /\ stream[s][i] \in Entry
        BY <3>1, StoredTyped DEF Stored
      <4>2. stream[s][i].kind \in {"input", "closure"}
        BY <4>1, EntryFields
      <4>3. ~stream[s][i].final
        BY <2>1, <4>1, <4>2 DEF InputsOpen, Inputs, Final, Closures
      <4> QED
        BY <2>1, <4>1, <4>3 DEF Has, Closures
    <3> HIDE DEF n
    <3>4. ASSUME NEW i \in 1..(n + 1), NEW j \in 1..(n + 1), i < j
          PROVE  /\ ~(stream'[s][i].kind = stream'[s][j].kind
                        /\ stream'[s][i].key = stream'[s][j].key)
                 /\ ~stream'[s][i].final
                 /\ stream'[s][i].kind = "closure" =>
                       IF stream'[s][j].kind = "input"
                       THEN Precedes(stream'[s][i].at, stream'[s][j].at)
                       ELSE NotAfter(stream'[s][i].at, stream'[s][j].at)
      <4>1. i \in 1..n /\ stream'[s][i] = stream[s][i]
        BY <3>1, <3>4
      <4>2. CASE j = n + 1
        BY <3>1, <3>3, <4>1, <4>2
      <4>3. CASE j # n + 1
        <5>1. j \in 1..n /\ stream'[s][j] = stream[s][j]
          BY <3>1, <3>4, <4>3
        <5>2. i \in DOMAIN stream[s] /\ j \in DOMAIN stream[s]
          BY <3>1, <4>1, <5>1
        <5> QED
          BY <3>2, <3>4, <4>1, <5>1, <5>2 DEF Restorable
      <4> QED
        BY <4>2, <4>3
    <3> QED
      BY <3>1, <3>4 DEF Restorable
  <2> QED
    BY <2>1, <2>2, <2>3, <2>4 DEF Reopenable, RestoreAccepts
<1> QED
  BY <1>1, <1>2, <1>3, Movers

--------------------------------------------------------------------------------
(* What is sealed stands.                                                  *)

\* Declaring a source the store does not know yet, or publishing, leaves a
\* prefix that nobody has read.
LEMMA ReadBehindStep ==
    ASSUME TypeOK, Cuts, ReadBehind, [Next]_vars
    PROVE  ReadBehind'
<1>1. ASSUME NEW p \in Process, NEW s \in Source, DeclareSource(p, s) PROVE ReadBehind'
  <2>1. declared' = declared \cup {s} /\ UNCHANGED <<stream, job>>
    BY <1>1 DEF DeclareSource
  <2>2. ASSUME NEW q \in Process, job[q].pc = "derived", job[q].seen = file'
        PROVE  Rederives(job[q].fence)'
    <3>1. job[q].seen[1] = declared'
      BY <2>2 DEF file
    <3>2. declared' = declared
      BY <2>1, <2>2, <3>1 DEF ReadBehind
    <3>3. UNCHANGED file /\ Rederives(job[q].fence)
      BY <2>1, <2>2, <3>2 DEF file, ReadBehind
    <3>4. PICK f : f = job[q].fence
      OBVIOUS
    <3>5. Rederives(f)'
      BY <3>3, <3>4, SameFile
    <3>6. job'[q].fence = f
      BY <2>1, <3>4
    <3> QED
      BY <2>1, <3>4, <3>5, <3>6 DEF Rederives, AllCover, Covering, Proof
  <2> QED
    BY <2>1, <2>2 DEF ReadBehind
<1>2. ASSUME NEW p \in Process, NEW s \in Source, NEW e \in Entry, Publishes(p, s, e)
      PROVE  ReadBehind'
  <2>1. UNCHANGED <<declared, job>>
    BY <1>2 DEF Publishes, Publish
  <2>2. /\ Len(stream'[s]) = Len(stream[s]) + 1
        /\ \A r \in Source : Len(stream[r]) \in Nat
        /\ \A r \in Source : r # s => stream'[r] = stream[r]
    BY <1>2, Grown, StoredTyped
  <2>3. ASSUME NEW q \in Process, job[q].pc = "derived" PROVE job[q].seen # file'
    <3>1. Len(job[q].seen[2][s]) <= Len(stream[s])
          /\ job[q].seen \in (SUBSET Source) \X [Source -> Seq(Entry)]
      BY <2>3, JobFields DEF ReadBehind
    <3>2. job[q].seen[2][s] \in Seq(Entry)
      BY <3>1
    <3>3. Len(job[q].seen[2][s]) \in Nat
      BY <3>2, LenIsNat
    <3>4. job[q].seen[2][s] # stream'[s]
      BY <2>2, <3>1, <3>3
    <3> QED
      BY <3>4 DEF file
  <2>4. ASSUME NEW q \in Process, job[q].pc = "derived", NEW r \in Source
        PROVE  Len(job[q].seen[2][r]) <= Len(stream'[r])
    <3>1. Len(job[q].seen[2][r]) <= Len(stream[r])
          /\ job[q].seen \in (SUBSET Source) \X [Source -> Seq(Entry)]
      BY <2>4, JobFields DEF ReadBehind
    <3>2. job[q].seen[2][r] \in Seq(Entry)
      BY <3>1
    <3>3. Len(job[q].seen[2][r]) \in Nat
      BY <3>2, LenIsNat
    <3>4. Len(stream[r]) \in Nat /\ Len(stream'[r]) >= Len(stream[r])
      BY <2>2
    <3> QED
      BY <3>1, <3>3, <3>4
  <2> QED
    BY <2>1, <2>3, <2>4 DEF ReadBehind
<1>3. ASSUME UNCHANGED file, NEW p \in Process, NEW j, Step(p, j),
             j.pc = "derived" => /\ j.seen = file
                                 /\ Rederives(j.fence)
      PROVE  ReadBehind'
  <2>1. job'[p] = j /\ \A q \in Process : q # p => job'[q] = job[q]
    BY <1>3 DEF Step, TypeOK
  <2>2. \A f : Rederives(f)' = Rederives(f)
    BY <1>3, SameFile
  <2>3. declared' = declared /\ stream' = stream /\ \A r \in Source : Len(stream[r]) \in Nat
    BY <1>3, StoredTyped DEF file
  <2>4. ASSUME NEW q \in Process, job'[q].pc = "derived"
        PROVE  /\ job'[q].seen[1] \subseteq declared
               /\ \A r \in Source : Len(job'[q].seen[2][r]) <= Len(stream[r])
               /\ job'[q].seen = file => Rederives(job'[q].fence)
    <3>1. CASE q = p
      BY <1>3, <2>1, <2>3, <2>4, <3>1 DEF file
    <3>2. CASE q # p
      BY <2>1, <2>4, <3>2 DEF ReadBehind
    <3> QED
      BY <3>1, <3>2
  <2>5. ASSUME NEW q \in Process, job'[q].pc = "derived", job'[q].seen = file'
        PROVE  Rederives(job[q].fence)'
    <3>1. PICK f : f = job'[q].fence
      OBVIOUS
    <3>2. Rederives(f)'
      BY <1>3, <2>2, <2>4, <2>5, <3>1
    <3> QED
      BY <3>1, <3>2 DEF Rederives, AllCover, Covering, Proof
  <2> QED
    BY <2>3, <2>4, <2>5 DEF ReadBehind
<1>4. CASE UNCHANGED <<file, job>>
  <2>1. ASSUME NEW q \in Process, job[q].pc = "derived", job[q].seen = file
        PROVE  Rederives(job[q].fence)'
    <3>1. PICK f : f = job[q].fence
      OBVIOUS
    <3>2. Rederives(f)'
      BY <1>4, <2>1, <3>1, SameFile DEF ReadBehind
    <3> QED
      BY <1>4, <3>1, <3>2 DEF Rederives, AllCover, Covering, Proof
  <2> QED
    BY <1>4, <2>1 DEF ReadBehind, file
<1>5. ASSUME NEW p \in Process, Derive(p) PROVE ReadBehind'
  <2> DEFINE j == [pc |-> "derived", fence |-> Derived(job[p].plan), seen |-> file]
  <2>1. Step(p, j) /\ UNCHANGED file
    BY <1>5 DEF Derive
  <2>2. Rederives(j.fence)
    BY <1>5, JobFields, DerivedSound DEF Derive
  <2> QED
    BY <1>3, <2>1, <2>2
<1>6. \A p \in Process : \A c : Plan(p, c) =>
         Step(p, [pc |-> "planned", plan |-> PlanFor(clk, c)]) /\ UNCHANGED file
  BY DEF Plan
<1>7. \A p \in Process : GiveUp(p) \/ CommitWork(p) \/ CommitAdvance(p) \/ Abort(p) \/ Crash(p) =>
         Step(p, [pc |-> "idle"]) /\ UNCHANGED file
  BY DEF GiveUp, CommitWork, CommitAdvance, Abort, Crash, Step
<1>8. \A p \in Process : SealFence(p) =>
         Step(p, [pc |-> "sealed", fence |-> job[p].fence]) /\ UNCHANGED file
  BY DEF SealFence
<1>9. (\E f \in fences : Retry(f)) \/ UNCHANGED vars \/ (\E p \in Process : Open(p))
         => UNCHANGED <<file, job>>
  BY DEF Retry, vars, Open
<1>10. ASSUME NEW p \in Process, (\E c : Plan(p, c)) \/ GiveUp(p) \/ Crash(p)
            \/ SealFence(p) \/ CommitWork(p) \/ CommitAdvance(p) \/ Abort(p)
      PROVE  ReadBehind'
  BY <1>3, <1>6, <1>7, <1>8, <1>10
<1> QED
  BY <1>1, <1>2, <1>4, <1>5, <1>9, <1>10, Steps

LEMMA SealedCutStep ==
    ASSUME TypeOK, Cuts, ReadBehind, SealedCutStands, [Next]_vars
    PROVE  SealedCutStands'
<1>1. ASSUME NEW p \in Process, NEW s \in Source, DeclareSource(p, s)
      PROVE  SealedCutStands'
  BY <1>1 DEF DeclareSource, run, SealedCutStands
<1>2. ASSUME NEW p \in Process, NEW s \in Source, NEW e \in Entry, Publishes(p, s, e)
      PROVE  SealedCutStands'
  <2>1. fences' = fences /\ fences \subseteq Fence
        /\ \A f \in fences : Precedes(f.target, e.at) /\ FenceCut(f)
    BY <1>2 DEF Publishes, Publish, run, Accepts, BeyondSeals, Cuts, TypeOK
  <2>2. \A f \in fences : Rederives(f)'
    BY <1>2, <2>1, CutStays DEF SealedCutStands
  <2> QED
    BY <2>1, <2>2 DEF SealedCutStands
<1>3. CASE UNCHANGED file
  <2>1. ASSUME NEW f \in fences' PROVE Rederives(f)
    <3>1. CASE f \in fences
      BY <3>1 DEF SealedCutStands
    <3>2. CASE f \notin fences
      <4>1. PICK p \in Process : SealFence(p)
        BY <2>1, <3>2, Movers DEF CommitWork, CommitAdvance, Abort, Retry
      <4>2. f = job[p].fence
        BY <2>1, <3>2, <4>1 DEF SealFence
      <4> QED
        BY <4>1, <4>2 DEF SealFence, PrefixUnchanged, ReadBehind
    <3> QED
      BY <3>1, <3>2
  <2>2. \A f \in fences' : Rederives(f)'
    BY <1>3, <2>1, SameFile
  <2> QED
    BY <2>2 DEF SealedCutStands
<1> QED
  BY <1>1, <1>2, <1>3, Movers

--------------------------------------------------------------------------------
(* The clock and the inputs.                                               *)

\* Stored inputs that are not due at a coordinate lie after it.
LEMMA NothingDue ==
    ASSUME TypeOK, NEW c, DueInputs(c) = {}, NEW s \in Source, NEW e \in Inputs(Stored(s))
    PROVE  Precedes(c, e.at)
<1>1. ASSUME NotAfter(e.at, c) PROVE FALSE
  <2>1. e \in InputsUpTo(s, c)
    BY <1>1 DEF InputsUpTo
  <2> DEFINE due(r) == {<<r, d.key>> : d \in InputsUpTo(r, c)}
  <2>2. <<s, e.key>> \in due(s)
    BY <2>1
  <2>3. DueInputs(c) = UNION {due(r) : r \in Source}
    BY DEF DueInputs
  <2> HIDE DEF due
  <2> QED
    BY <2>2, <2>3
<1> QED
  BY <1>1 DEF NotAfter

\* A committed fence was sealed at the clock it commits to.
LEMMA CommitsFence ==
    ASSUME TypeOK, Cuts, FenceOfClock, NEW p \in Process,
           CommitWork(p) \/ CommitAdvance(p)
    PROVE  /\ job[p].fence \in fences /\ job[p].fence \in Fence
           /\ FenceCut(job[p].fence)
           /\ job[p].fence.cycle.instant = clk.instant
           /\ UNCHANGED <<file, fences>>
<1>1. control = <<"inflight", job[p].fence>>
  BY DEF CommitWork, CommitAdvance, CanCommit
<1>2. job[p].fence \in fences /\ job[p].fence.cycle.instant = clk.instant
  BY <1>1 DEF FenceOfClock
<1> QED
  BY <1>2 DEF Cuts, TypeOK, CommitWork, CommitAdvance

LEMMA NoInputPassedStep ==
    ASSUME TypeOK, Cuts, FenceOfClock, NoInputPassedOver, [Next]_vars
    PROVE  NoInputPassedOver'
<1>1. ASSUME UNCHANGED clk, UNCHANGED file PROVE NoInputPassedOver'
  BY <1>1 DEF NoInputPassedOver, file, Stored
<1>2. ASSUME NEW p \in Process, NEW s \in Source, DeclareSource(p, s)
      PROVE  NoInputPassedOver'
  BY <1>2 DEF DeclareSource, run, NoInputPassedOver, Stored
<1>3. ASSUME NEW p \in Process, NEW s \in Source, NEW e \in Entry, Publishes(p, s, e)
      PROVE  NoInputPassedOver'
  <2>1. clk' = clk /\ NotAfter(Floor(clk), e.at)
    BY <1>3 DEF Publishes, Publish, run, Accepts, AboveFloor
  <2>2. Stored(s)' = Stored(s) \cup {e} /\ \A r \in Source : r # s => Stored(r)' = Stored(r)
    BY <1>3, Grown
  <2> QED
    BY <2>1, <2>2 DEF NoInputPassedOver, Inputs
<1>4. ASSUME NEW p \in Process, CommitWork(p) PROVE NoInputPassedOver'
  <2> DEFINE f == job[p].fence
  <2>1. f \in Fence /\ f.cycle.instant = clk.instant /\ stream' = stream
    BY <1>4, CommitsFence DEF file
  <2>2. DueInputs(f.cycle) = {}
    BY <1>4 DEF CommitWork, CanCommit, Rederives, Handled
  <2>3. Floor(clk)' = At(clk.instant, f.cycle.ordinal + 1)
    BY <1>4 DEF CommitWork, ApplyWork, Floor
  <2> HIDE DEF f
  <2>4. ASSUME NEW s \in Source, NEW e \in Inputs(Stored(s))
        PROVE  NotAfter(Floor(clk)', e.at)
    <3>1. Precedes(f.cycle, e.at)
      BY <2>2, NothingDue
    <3>2. e.at \in Coordinate /\ f.cycle \in Coordinate
      BY <2>1, FenceFields, StoredTyped, EntryFields, GridFields
    <3> QED
      BY <2>1, <2>3, <3>1, <3>2 DEF Precedes, NotAfter, Coordinate
  <2> QED
    BY <2>1, <2>4 DEF NoInputPassedOver, Stored
<1>5. ASSUME NEW p \in Process, CommitAdvance(p) PROVE NoInputPassedOver'
  <2> DEFINE f == job[p].fence
  <2>1. f \in Fence /\ stream' = stream
    BY <1>5, CommitsFence DEF file
  <2>2. Picks(clk, Pending, f.target)
    BY <1>5 DEF CommitAdvance, CanCommit
  <2>3. Floor(clk)' = At(f.target.instant, 0)
    BY <1>5 DEF CommitAdvance, ApplyAdvance, Floor
  <2> HIDE DEF f
  <2>4. ASSUME NEW s \in Source, NEW e \in Inputs(Stored(s))
        PROVE  NotAfter(Floor(clk)', e.at)
    <3>1. e.at \in Pending
      BY DEF Pending
    <3>2. NotAfter(f.target, e.at)
      BY <2>2, <3>1 DEF Picks, Smallest
    <3>3. e.at \in Coordinate /\ f.target \in Coordinate
      BY <2>1, FenceFields, StoredTyped, EntryFields, GridFields
    <3> QED
      BY <2>3, <3>2, <3>3 DEF Precedes, NotAfter, Coordinate
  <2> QED
    BY <2>1, <2>4 DEF NoInputPassedOver, Stored
<1>6. ASSUME NEW p \in Process, SealFence(p) \/ Abort(p) PROVE UNCHANGED clk /\ UNCHANGED file
  BY <1>6 DEF SealFence, Abort
<1>7. ASSUME NEW f \in fences, Retry(f) PROVE UNCHANGED clk /\ UNCHANGED file
  BY <1>7 DEF Retry
<1> QED
  BY <1>1, <1>2, <1>3, <1>4, <1>5, <1>6, <1>7, Movers

LEMMA FloorSealedStep ==
    ASSUME TypeOK, Cuts, FenceOfClock, FloorSealed, [Next]_vars
    PROVE  FloorSealed'
<1>1. CASE UNCHANGED clk
  BY <1>1, FencesGrow DEF FloorSealed
<1>2. ASSUME NEW p \in Process, CommitWork(p) \/ CommitAdvance(p) PROVE FloorSealed'
  <2> DEFINE f == job[p].fence
  <2>1. f \in fences' /\ f \in Fence /\ FenceCut(f) /\ f.cycle.instant = clk.instant
    BY <1>2, CommitsFence
  <2>2. f.target \in Coordinate
    BY <2>1, FenceFields
  <2>3. NotAfter(Floor(clk)', At(f.target.instant, f.target.ordinal + 1))
    <3>1. CASE CommitWork(p)
      <4>1. f.cycle = f.target /\ Floor(clk)' = At(clk.instant, f.cycle.ordinal + 1)
        BY <2>1, <3>1 DEF CommitWork, ApplyWork, Floor, FenceCut, Cut
      <4> QED
        BY <2>1, <2>2, <4>1 DEF NotAfter, Precedes, Coordinate
    <3>2. CASE CommitAdvance(p)
      <4>1. Floor(clk)' = At(f.target.instant, 0)
        BY <3>2 DEF CommitAdvance, ApplyAdvance, Floor
      <4> QED
        BY <2>2, <4>1 DEF NotAfter, Precedes, Coordinate
    <3> QED
      BY <1>2, <3>1, <3>2
  <2> QED
    BY <2>1, <2>3 DEF FloorSealed
<1>3. ASSUME NEW p \in Process, SealFence(p) \/ Abort(p) PROVE UNCHANGED clk
  BY <1>3 DEF SealFence, Abort
<1>4. ASSUME NEW f \in fences, Retry(f) PROVE UNCHANGED clk
  BY <1>4 DEF Retry
<1> QED
  BY <1>1, <1>2, <1>3, <1>4, Movers

\* Past every closure of an unfinished source is past every seal and the floor.
LEMMA LateInputs ==
    ASSUME TypeOK, SealedCutStands, Cuts, FloorSealed
    PROVE  LateInputFits
<1> SUFFICES ASSUME NEW s \in declared, NEW c \in Span,
                    fences # {}, ~Final(Closures(Stored(s))),
                    \A e \in Closures(Stored(s)) : e.at # At(TopInstant, TopOrdinal)
             PROVE  LET at == Normalised(Stored(s), c) IN
                    /\ \A e \in Closures(Stored(s)) : Precedes(e.at, at)
                    /\ BeyondSeals(at)
                    /\ NotAfter(Floor(clk), at)
  BY DEF LateInputFits
<1> DEFINE at == Normalised(Stored(s), c)
<1>1. s \in Source /\ Stored(s) \subseteq Entry /\ c \in Grid
  BY StoredTyped, SpanAssumption DEF TypeOK
<1>2. at \in Grid /\ \A e \in Closures(Stored(s)) : NotAfter(NextOpen(e.at), at)
  BY <1>1, NormalisedIsLast
<1> HIDE DEF at
<1>3. ASSUME NEW e \in Closures(Stored(s))
      PROVE  Precedes(e.at, at) /\ e.at \in Coordinate
  <2>1. e.at \in Grid
    BY <1>1, EntryFields DEF Closures
  <2>2. Precedes(e.at, NextOpen(e.at)) /\ NextOpen(e.at) \in Coordinate
    BY <2>1, NextOpenIsBehind
  <2> QED
    BY <1>2, <2>1, <2>2, GridFields, PrecedesTransitive
<1>4. ASSUME NEW f \in fences
      PROVE  Precedes(f.target, at) /\ f.target \in Coordinate
  <2>1. AllCover(f.target) /\ f.target \in Coordinate
    BY FenceFields DEF SealedCutStands, Rederives, TypeOK
  <2>2. PICK i \in DOMAIN stream[s] : Covers(stream[s][i], f.target)
    BY <2>1 DEF AllCover, Covering
  <2>3. stream[s][i] \in Closures(Stored(s))
    BY <2>2 DEF Covers, Stored, Closures
  <2>4. NotAfter(f.target, stream[s][i].at)
    BY <2>2, <2>3 DEF Covers, Final, Closures
  <2> QED
    BY <1>2, <1>3, <2>1, <2>3, <2>4, GridFields, PrecedesTransitive
<1>5. NotAfter(Floor(clk), at)
  <2>1. at \in Coordinate /\ at.instant \in 0..TopInstant /\ at.ordinal \in 0..TopOrdinal
    BY <1>2, GridFields
  <2>2. CASE Floor(clk) = At(0, 0)
    BY <2>1, <2>2, TopAssumption DEF NotAfter, Precedes
  <2>3. CASE Floor(clk) # At(0, 0)
    <3>1. PICK f \in fences :
             NotAfter(Floor(clk), At(f.target.instant, f.target.ordinal + 1))
      BY <2>3 DEF FloorSealed
    <3>2. Floor(clk) \in Coordinate
      BY DEF TypeOK, ClockState, Floor, Coordinate
    <3> QED
      BY <1>4, <2>1, <3>1, <3>2 DEF NotAfter, Precedes, Coordinate
  <2> QED
    BY <2>2, <2>3
<1> QED
  BY <1>3, <1>4, <1>5 DEF at, BeyondSeals

--------------------------------------------------------------------------------
(* The theorems.                                                           *)

LEMMA KeptInit == Init => Kept
<1> SUFFICES ASSUME Init PROVE Kept
  OBVIOUS
<1>1. TypeOK /\ DriversRun
  BY TypeInit
<1>2. \A s \in Source : stream[s] = <<>> /\ Stored(s) = {}
  BY DEF Init, Stored
<1>3. Reopenable
  BY <1>2 DEF Reopenable, RestoreAccepts, Restorable
<1>4. Floor(clk) = At(0, 0)
  BY DEF Init, Floor
<1>5. InputsOpen /\ NoInputPassedOver
  BY <1>2 DEF InputsOpen, NoInputPassedOver, Inputs
<1>6. Cuts /\ FenceOfClock /\ ReadBehind /\ SealedCutStands
  BY DEF Init, Cuts, FenceOfClock, ReadBehind, SealedCutStands
<1> QED
  BY <1>1, <1>3, <1>4, <1>5, <1>6 DEF Kept, FloorSealed

LEMMA KeptStep == Kept /\ [Next]_vars => Kept'
BY TypeStep, RunStep, CutsStep, FenceOfClockStep, RestoreStep, ReadBehindStep,
   SealedCutStep, NoInputPassedStep, FloorSealedStep DEF Kept

\* Every record, view, fence and job of the ledger has its shape in every
\* reachable state: in particular no cut is derived without a proof of every source.
THEOREM LedgerTyped == Spec => []TypeOK
BY KeptInit, KeptStep, PTL DEF Spec, Kept

\* Whatever the processes wrote from stale views and wherever they crashed,
\* Open accepts what the store holds.
THEOREM AlwaysReopenable == Spec => []Reopenable
BY KeptInit, KeptStep, PTL DEF Spec, Kept

\* The inputs and the closure proofs of every sealed fence can be derived again
\* from any later prefix of the sources.
THEOREM SealedCutsStand == Spec => []SealedCutStands
BY KeptInit, KeptStep, PTL DEF Spec, Kept

\* No committed cycle lies at or after a stored input, which no handler settles.
THEOREM NoInputIsPassedOver == Spec => []NoInputPassedOver
BY KeptInit, KeptStep, PTL DEF Spec, Kept

\* Once a cycle was sealed, the coordinate an unfinished source gives a late
\* input is beyond every seal and the floor: the store refuses none for lateness.
THEOREM LateInputsFit == Spec => []LateInputFits
<1>1. Kept => LateInputFits
  BY LateInputs DEF Kept
<1> QED
  BY KeptInit, KeptStep, <1>1, PTL DEF Spec

--------------------------------------------------------------------------------
(* The ledger implements SourceContract.                                   *)

\* The frontier of a source, from the set of its closures.
FrontierOf(closed) ==
    IF Final(closed) THEN <<"shut">>
    ELSE IF closed = {} THEN <<"open">>
    ELSE <<"through", CHOOSE c \in {e.at : e \in closed} :
                         \A e \in closed : NotAfter(e.at, c)>>

LEMMA FrontierIs ==
    /\ \A s : Frontier(s) = FrontierOf(Closures(Stored(s)))
    /\ \A s : Frontier(s)' = FrontierOf(Closures(Stored(s))')
BY DEF Frontier, FrontierOf

\* A source is shut, or open, or closed through its last closure.
LEMMA FrontierCases ==
    ASSUME NEW E, E \subseteq Entry
    PROVE  /\ Final(E) => FrontierOf(Closures(E)) = <<"shut">>
           /\ ~Final(E) /\ Closures(E) = {} => FrontierOf(Closures(E)) = <<"open">>
           /\ ~Final(E) /\ Closures(E) # {} =>
                 \E c \in Grid :
                    /\ FrontierOf(Closures(E)) = <<"through", c>>
                    /\ \E e \in Closures(E) : e.at = c
                    /\ \A e \in Closures(E) : NotAfter(e.at, c)
<1>1. Final(Closures(E)) <=> Final(E)
  BY DEF Final, Closures
<1>2. CASE Final(E) \/ Closures(E) = {}
  BY <1>1, <1>2 DEF FrontierOf
<1>3. CASE ~Final(E) /\ Closures(E) # {}
  <2> DEFINE ats == {e.at : e \in Closures(E)}
  <2>1. ats \subseteq Grid /\ ats # {}
    BY <1>3, EntryFields DEF Closures
  <2>2. PICK top \in ats : \A y \in ats : NotAfter(y, top)
    BY <2>1, LastOfGrid
  <2> DEFINE m == CHOOSE c \in ats : \A e \in Closures(E) : NotAfter(e.at, c)
  <2>3. m \in ats /\ \A e \in Closures(E) : NotAfter(e.at, m)
    <3>1. top \in ats /\ \A e \in Closures(E) : NotAfter(e.at, top)
      BY <2>2
    <3> QED
      BY <3>1
  <2>4. FrontierOf(Closures(E)) = <<"through", m>>
    BY <1>1, <1>3 DEF FrontierOf
  <2> HIDE DEF m
  <2> QED
    BY <1>3, <2>1, <2>3, <2>4
<1> QED
  BY <1>2, <1>3

\* What the map of the refinement reads: the barred variables of a step.
Placed(s) == {[source |-> s, key |-> e.key, at |-> e.at] : e \in Inputs(Stored(s))}
AllPlaced == UNION {Placed(s) : s \in Source}
Frontiers == [s \in Source |-> Frontier(s)]
Targets   == {f.target : f \in fences}

LEMMA SameBar ==
    ASSUME UNCHANGED <<file, fences>>
    PROVE  UNCHANGED <<declared, Frontiers, AllPlaced, Targets>>
<1>1. \A s \in Source : Stored(s)' = Stored(s)
  BY DEF file, Stored
<1>2. \A s \in Source : Frontier(s)' = Frontier(s)
  BY <1>1, FrontierIs
<1>3. AllPlaced' = AllPlaced
  BY <1>1 DEF AllPlaced, Placed
<1> QED
  BY <1>2, <1>3 DEF file, Frontiers, Targets

LEMMA DeclareMaps ==
    ASSUME TypeOK, NEW p \in Process, NEW s \in Source, DeclareSource(p, s)
    PROVE  /\ Targets = {}
           /\ declared' = declared \cup {s}
           /\ UNCHANGED <<Frontiers, AllPlaced, Targets>>
<1>1. fences = {} /\ UNCHANGED <<fences, stream>> /\ declared' = declared \cup {s}
  BY DEF DeclareSource, run
<1>2. \A r \in Source : Stored(r)' = Stored(r)
  BY <1>1 DEF Stored
<1>3. \A r \in Source : Frontier(r)' = Frontier(r)
  BY <1>2, FrontierIs
<1>4. AllPlaced' = AllPlaced
  BY <1>2 DEF AllPlaced, Placed
<1> QED
  BY <1>1, <1>3, <1>4 DEF Frontiers, Targets

LEMMA InputMaps ==
    ASSUME TypeOK, NEW p \in Process, NEW s \in Source, NEW e \in Entry,
           Publishes(p, s, e), e.kind = "input"
    PROVE  /\ s \in declared
           /\ Contract!LeavesOpen(Frontiers[s], e.at)
           /\ \A x \in AllPlaced : ~(x.source = s /\ x.key = e.key)
           /\ AllPlaced' = AllPlaced \cup {[source |-> s, key |-> e.key, at |-> e.at]}
           /\ UNCHANGED <<declared, Frontiers, Targets>>
<1>1. /\ s \in declared /\ UNCHANGED <<declared, fences>>
      /\ ~Has(Stored(s), "input", e.key)
      /\ ~Final(Stored(s))
      /\ \A c \in Closures(Stored(s)) : Precedes(c.at, e.at)
  BY DEF Publishes, Publish, Accepts, NotYetStored, Lifecycle, run
<1>2. Stored(s)' = Stored(s) \cup {e} /\ \A r \in Source : r # s => Stored(r)' = Stored(r)
  BY Grown
<1>3. Contract!LeavesOpen(Frontiers[s], e.at)
  <2>1. Stored(s) \subseteq Entry /\ Frontiers[s] = FrontierOf(Closures(Stored(s)))
    BY StoredTyped, FrontierIs DEF Frontiers
  <2>2. CASE Closures(Stored(s)) = {}
    BY <1>1, <2>1, <2>2, FrontierCases DEF Contract!LeavesOpen
  <2>3. CASE Closures(Stored(s)) # {}
    <3>1. PICK d \in Closures(Stored(s)) : Frontiers[s] = <<"through", d.at>>
      BY <1>1, <2>1, <2>3, FrontierCases
    <3> QED
      BY <1>1, <3>1 DEF Contract!LeavesOpen, Contract!Precedes, Precedes
  <2> QED
    BY <2>2, <2>3
<1>4. UNCHANGED Frontiers
  <2>1. Closures(Stored(s))' = Closures(Stored(s))
    BY <1>2 DEF Closures
  <2>2. \A r \in Source : Frontier(r)' = Frontier(r)
    BY <1>2, <2>1, FrontierIs
  <2> QED
    BY <2>2 DEF Frontiers
<1>5. \A x \in AllPlaced : ~(x.source = s /\ x.key = e.key)
  <2>1. ASSUME NEW r \in Source, NEW x \in Placed(r), x.source = s, x.key = e.key
        PROVE  FALSE
    BY <1>1, <2>1 DEF Placed, Has, Inputs
  <2> QED
    BY <2>1 DEF AllPlaced
<1>6. AllPlaced' = AllPlaced \cup {[source |-> s, key |-> e.key, at |-> e.at]}
  <2>1. Inputs(Stored(s))' = Inputs(Stored(s)) \cup {e}
    BY <1>2 DEF Inputs
  <2>2. Placed(s)' = Placed(s) \cup {[source |-> s, key |-> e.key, at |-> e.at]}
    BY <2>1 DEF Placed
  <2>3. \A r \in Source : r # s => Placed(r)' = Placed(r)
    BY <1>2 DEF Placed
  <2> QED
    BY <2>2, <2>3 DEF AllPlaced
<1> QED
  BY <1>1, <1>3, <1>4, <1>5, <1>6 DEF Targets

LEMMA ClosureMaps ==
    ASSUME TypeOK, NEW p \in Process, NEW s \in Source, NEW e \in Entry,
           Publishes(p, s, e), e.kind = "closure"
    PROVE  \E x \in Contract!Extent :
              /\ s \in declared
              /\ ~Contract!Shut(Frontiers[s])
              /\ x # <<"open">>
              /\ x[1] = "through" => Contract!Beyond(x, Frontiers[s])
              /\ Frontiers' = [Frontiers EXCEPT ![s] = x]
              /\ UNCHANGED <<declared, AllPlaced, Targets>>
<1> DEFINE x == FrontierOf(Closures(Stored(s))')
<1>1. /\ s \in declared /\ UNCHANGED <<declared, fences>>
      /\ ~Final(Stored(s)) /\ Stored(s) \subseteq Entry
  BY StoredTyped DEF Publishes, Publish, Accepts, Lifecycle, run
<1>2. Stored(s)' = Stored(s) \cup {e} /\ \A r \in Source : r # s => Stored(r)' = Stored(r)
  BY Grown
<1>3. AllPlaced' = AllPlaced
  <2>1. Inputs(Stored(s))' = Inputs(Stored(s))
    BY <1>2 DEF Inputs
  <2>2. \A r \in Source : Placed(r)' = Placed(r)
    BY <1>2, <2>1 DEF Placed
  <2> QED
    BY <2>2 DEF AllPlaced
<1>4. Frontiers' = [Frontiers EXCEPT ![s] = x]
  <2>1. \A r \in Source : r # s => Frontier(r)' = Frontier(r)
    BY <1>2, FrontierIs
  <2>2. Frontier(s)' = x
    BY FrontierIs
  <2> HIDE DEF x
  <2> QED
    BY <2>1, <2>2 DEF Frontiers
<1>5. Stored(s)' \subseteq Entry /\ e \in Closures(Stored(s))'
      /\ Closures(Stored(s)) \subseteq Closures(Stored(s))'
  BY <1>1, <1>2 DEF Closures
<1>6. /\ Final(Stored(s)') => x = <<"shut">>
      /\ ~Final(Stored(s)') =>
            \E c \in Grid : /\ x = <<"through", c>>
                            /\ \A d \in Closures(Stored(s))' : NotAfter(d.at, c)
  <2>1. PICK E : E = Stored(s)'
    OBVIOUS
  <2>2. Closures(E) # {} /\ E \subseteq Entry /\ Closures(E) = Closures(Stored(s))'
    BY <1>5, <2>1 DEF Closures
  <2> QED
    BY <2>1, <2>2, FrontierCases
<1> HIDE DEF x
<1>7. x \in Contract!Extent /\ x # <<"open">>
  BY <1>6 DEF Contract!Extent
<1>8. Frontiers[s] = FrontierOf(Closures(Stored(s)))
  BY FrontierIs DEF Frontiers
<1>9. CASE Closures(Stored(s)) = {}
  <2>1. Frontiers[s] = <<"open">>
    BY <1>1, <1>8, <1>9, FrontierCases
  <2>2. ~Contract!Shut(Frontiers[s]) /\ Contract!Beyond(x, Frontiers[s])
    BY <2>1 DEF Contract!Shut, Contract!Beyond
  <2> QED
    BY <1>1, <1>3, <1>4, <1>7, <2>2 DEF Targets
<1>10. CASE Closures(Stored(s)) # {}
  <2>1. PICK d \in Closures(Stored(s)) : Frontiers[s] = <<"through", d.at>>
    BY <1>1, <1>8, <1>10, FrontierCases
  <2>2. ~Contract!Shut(Frontiers[s])
    BY <2>1 DEF Contract!Shut
  <2>3. ASSUME x[1] = "through" PROVE Contract!Beyond(x, Frontiers[s])
    <3>1. PICK c \in Grid : x = <<"through", c>> /\ NotAfter(d.at, c)
      BY <1>5, <1>6, <2>3
    <3> QED
      BY <2>1, <3>1 DEF Contract!Beyond, Contract!Precedes, NotAfter, Precedes
  <2> QED
    BY <1>1, <1>3, <1>4, <1>7, <2>2, <2>3 DEF Targets
<1> QED
  BY <1>9, <1>10

LEMMA SealMaps ==
    ASSUME TypeOK, Cuts, ReadBehind, NEW p \in Process, SealFence(p)
    PROVE  \E c \in Grid :
              /\ \A s \in declared : Contract!Reaches(Frontiers[s], c)
              /\ Targets' = Targets \cup {c}
              /\ UNCHANGED <<declared, Frontiers, AllPlaced>>
<1> DEFINE c == job[p].fence.target
<1>1. c \in Grid /\ AllCover(c) /\ UNCHANGED file
  BY DEF SealFence, PrefixUnchanged, ReadBehind, Rederives, Cuts, FenceCut, Cut
<1>2. Targets' = Targets \cup {c}
  BY DEF SealFence, Targets
<1> HIDE DEF c
<1>3. ASSUME NEW s \in declared PROVE Contract!Reaches(Frontiers[s], c)
  <2>1. s \in Source /\ Stored(s) \subseteq Entry
    BY StoredTyped DEF TypeOK
  <2>2. Frontiers[s] = FrontierOf(Closures(Stored(s)))
    BY <2>1, FrontierIs DEF Frontiers
  <2>3. PICK i \in DOMAIN stream[s] : Covers(stream[s][i], c)
    BY <1>1 DEF AllCover, Covering
  <2>4. stream[s][i] \in Closures(Stored(s))
    BY <2>3 DEF Covers, Stored, Closures
  <2>5. CASE Final(Stored(s))
    BY <2>1, <2>2, <2>5, FrontierCases DEF Contract!Reaches, Contract!Shut
  <2>6. CASE ~Final(Stored(s))
    <3>1. NotAfter(c, stream[s][i].at)
      BY <2>3, <2>4, <2>6 DEF Covers, Final, Closures
    <3>2. PICK d \in Grid : Frontiers[s] = <<"through", d>> /\ NotAfter(stream[s][i].at, d)
      BY <2>1, <2>2, <2>4, <2>6, FrontierCases
    <3>3. stream[s][i].at \in Coordinate /\ c \in Coordinate /\ d \in Coordinate
      BY <1>1, <2>1, <2>4, EntryFields, GridFields DEF Closures
    <3>4. NotAfter(c, d)
      BY <3>1, <3>2, <3>3, PrecedesTransitive
    <3> QED
      BY <3>2, <3>4 DEF Contract!Reaches, Contract!NotAfter, Contract!Precedes, NotAfter, Precedes
  <2> QED
    BY <2>5, <2>6
<1>4. UNCHANGED <<declared, Frontiers, AllPlaced>>
  <2>1. \A s \in Source : Stored(s)' = Stored(s)
    BY <1>1 DEF file, Stored
  <2>2. \A s \in Source : Frontier(s)' = Frontier(s)
    BY <2>1, FrontierIs
  <2>3. AllPlaced' = AllPlaced
    BY <2>1 DEF AllPlaced, Placed
  <2> QED
    BY <1>1, <2>2, <2>3 DEF file, Frontiers
<1> QED
  BY <1>1, <1>2, <1>3, <1>4

LEMMA ContractInit == Init => Contract!Init
<1> SUFFICES ASSUME Init PROVE Contract!Init
  OBVIOUS
<1>1. \A s \in Source : Stored(s) = {} /\ Closures(Stored(s)) = {} /\ Inputs(Stored(s)) = {}
  BY DEF Init, Stored, Closures, Inputs
<1>2. \A s \in Source : Frontier(s) = <<"open">>
  BY <1>1, FrontierIs, FrontierCases DEF Final, Closures, FrontierOf
<1>3. [s \in Source |-> Frontier(s)] = [s \in Source |-> <<"open">>]
  BY <1>2
<1>4. UNION {{[source |-> s, key |-> e.key, at |-> e.at] : e \in Inputs(Stored(s))} : s \in Source} = {}
  BY <1>1
<1>5. declared = {} /\ {f.target : f \in fences} = {}
  BY DEF Init
<1> QED
  BY <1>3, <1>4, <1>5 DEF Contract!Init

LEMMA ContractStep ==
    ASSUME Kept, [Next]_vars
    PROVE  [Contract!Next]_<<declared, Frontiers, AllPlaced, Targets>>
<1> USE DEF Kept
<1>1. CASE UNCHANGED <<file, fences>>
  BY <1>1, SameBar
<1>2. ASSUME NEW p \in Process, NEW s \in Source, DeclareSource(p, s)
      PROVE  Contract!Declare(s)
  BY <1>2, DeclareMaps DEF Contract!Declare, Frontiers, AllPlaced, Placed, Targets
<1>3. ASSUME NEW p \in Process, NEW s \in Source, NEW e \in Entry,
             Publishes(p, s, e), e.kind = "input"
      PROVE  Contract!PlaceInput(s, e.key, e.at)
  BY <1>3, InputMaps DEF Contract!PlaceInput, Frontiers, AllPlaced, Placed, Targets
<1>4. ASSUME NEW p \in Process, NEW s \in Source, NEW e \in Entry,
             Publishes(p, s, e), e.kind = "closure"
      PROVE  \E x \in Contract!Extent : Contract!Extend(s, x)
  BY <1>4, ClosureMaps DEF Contract!Extend, Frontiers, AllPlaced, Placed, Targets
<1>5. ASSUME NEW p \in Process, SealFence(p)
      PROVE  \E c \in Grid : Contract!Seal(c)
  BY <1>5, SealMaps DEF Contract!Seal, Frontiers, AllPlaced, Placed, Targets
<1>6. \A p \in Process : CommitWork(p) \/ CommitAdvance(p) \/ Abort(p)
         => UNCHANGED <<file, fences>>
  BY DEF CommitWork, CommitAdvance, Abort
<1>7. \A f \in fences : Retry(f) => UNCHANGED <<file, fences>>
  BY DEF Retry
<1> QED
  BY <1>1, <1>2, <1>3, <1>4, <1>5, <1>6, <1>7, Movers, EntryFields DEF Contract!Next

\* The ledger, with its stale views, its crashes and its fences, implements the
\* contract the coordinator relies on.
THEOREM LedgerImplementsContract == Spec => ImplementsContract
<1>1. Kept /\ [Next]_vars => [Contract!Next]_<<declared, Frontiers, AllPlaced, Targets>>
  BY ContractStep
<1>2. Kept /\ [Next]_vars =>
         [Contract!Next]_<<declared, [s \in Source |-> Frontier(s)],
                           UNION {{[source |-> s, key |-> e.key, at |-> e.at] :
                                     e \in Inputs(Stored(s))} : s \in Source},
                           {f.target : f \in fences}>>
  BY <1>1 DEF Frontiers, AllPlaced, Placed, Targets
<1> QED
  BY KeptInit, KeptStep, ContractInit, <1>2,
     PTL DEF Spec, ImplementsContract, Contract!Spec, Contract!vars

LEMMA SealKeepsInputs ==
    ASSUME Kept, [Next]_vars, NEW c \in Targets
    PROVE  Contract!Due(c)' = Contract!Due(c)
<1> USE DEF Kept
<1>1. PICK f \in fences : c = f.target
  BY DEF Targets
<1>2. f \in Fence /\ c \in Coordinate
  BY <1>1, FenceFields DEF TypeOK
<1>3. CASE AllPlaced' = AllPlaced
  BY <1>3 DEF AllPlaced, Placed, Contract!Due
<1>4. ASSUME NEW p \in Process, NEW s \in Source, NEW e \in Entry,
             Publishes(p, s, e), e.kind = "input"
      PROVE  Contract!Due(c)' = Contract!Due(c)
  <2>1. AllPlaced' = AllPlaced \cup {[source |-> s, key |-> e.key, at |-> e.at]}
    BY <1>4, InputMaps
  <2>2. Precedes(c, e.at)
    BY <1>1, <1>4 DEF Publishes, Publish, Accepts, BeyondSeals
  <2>3. ~Contract!NotAfter(e.at, c)
    BY <2>2 DEF Contract!NotAfter, Contract!Precedes, Precedes
  <2> QED
    BY <2>1, <2>3 DEF AllPlaced, Placed, Contract!Due
<1>5. ASSUME NEW p \in Process, NEW s \in Source, NEW e \in Entry,
             Publishes(p, s, e), e.kind = "closure"
      PROVE  AllPlaced' = AllPlaced
  BY <1>5, ClosureMaps
<1>6. ASSUME NEW p \in Process, NEW s \in Source, DeclareSource(p, s)
      PROVE  AllPlaced' = AllPlaced
  BY <1>6, DeclareMaps
<1>7. CASE UNCHANGED file
  <2>1. \A s \in Source : Stored(s)' = Stored(s)
    BY <1>7 DEF file, Stored
  <2>2. AllPlaced' = AllPlaced
    BY <2>1 DEF AllPlaced, Placed
  <2> QED
    BY <1>3, <2>2
<1> QED
  BY <1>3, <1>4, <1>5, <1>6, <1>7, Movers, EntryFields

\* The admitted inputs of a sealed coordinate never change, in the ledger itself
\* as in its contract: no order of late appends and closures adds one.
THEOREM SealedInputsAreFinal == Spec => Contract!SealedMembershipStands
<1>1. Kept /\ [Next]_vars =>
         [\A c \in {f.target : f \in fences} : Contract!Due(c)' = Contract!Due(c)]_(Contract!vars)
  BY SealKeepsInputs DEF Targets
<1> QED
  BY KeptInit, KeptStep, <1>1, PTL DEF Spec, Contract!SealedMembershipStands

================================================================================
