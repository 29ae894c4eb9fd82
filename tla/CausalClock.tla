------------------------------ MODULE CausalClock ------------------------------
(***************************************************************************)
(* The causal scheduling coordinate of a run and the pure rules over it:   *)
(* the order on coordinates, the choice of the next cycle, the clock       *)
(* transition of each kind of cycle and the same-instant cascade limit.    *)
(* Translated from internal/csf/domain/types.go and internal/csf/clock.    *)
(***************************************************************************)
EXTENDS Integers

CONSTANTS
    MaxOrdinal,    \* math.MaxInt64: the last ordinal a clock state can hold
    CascadeLimit   \* MaxSameInstantWorkV1: WORK cycles allowed at one instant

ASSUME MaxOrdinalAssumption == MaxOrdinal \in Nat
ASSUME CascadeLimitAssumption == CascadeLimit \in Nat \ {0}

--------------------------------------------------------------------------------
(* Eligibility coordinates, ordered by instant and then by cycle ordinal.  *)

Coordinate == [instant : Int, ordinal : Nat]

At(t, n) == [instant |-> t, ordinal |-> n]

Precedes(p, q) ==
    \/ p.instant < q.instant
    \/ p.instant = q.instant /\ p.ordinal < q.ordinal

NotAfter(p, q) == ~Precedes(q, p)

--------------------------------------------------------------------------------
(* The clock state.  last = -1 says that no cycle was committed yet at the *)
(* present instant.                                                        *)

ClockState == [instant : Int, revision : Nat, last : Nat \cup {-1}]

\* Variant: the last committed coordinate itself is still open.
FloorAtLast(c) == At(c.instant, c.last)

\* The coordinate after the state: nothing pending may lie before it.
Floor(c) == At(c.instant, c.last + 1)

\* The error of coordinateAfterState: no ordinal is left at this instant.
OrdinalExhausted(c) == c.last >= MaxOrdinal

CyclePlan == [kind : {"work", "advance"}, from : Int, to : Int,
              origin : Nat, target : Coordinate]

\* The plan for p, the smallest pending coordinate: WORK at p when p is at the
\* present instant (holes are jumped), a CLOCK_ADVANCE to p's instant otherwise.
PlanFor(c, p) ==
    IF p.instant = c.instant
    THEN [kind |-> "work", from |-> c.instant, to |-> c.instant,
          origin |-> p.ordinal, target |-> p]
    ELSE [kind |-> "advance", from |-> c.instant, to |-> p.instant,
          origin |-> c.last + 1, target |-> p]

\* Variant: whatever of the pending work was read first.
AnyPending(pending, p) == p \in pending

Smallest(pending, p) ==
    /\ p \in pending
    /\ \A q \in pending : NotAfter(p, q)

\* clock.Next, as a relation: p is what Next picks, and Next raises no error.
Picks(c, pending, p) ==
    /\ ~OrdinalExhausted(c)
    /\ Smallest(pending, p)
    /\ NotAfter(Floor(c), p)

--------------------------------------------------------------------------------
(* What a committed cycle does to the clock.                               *)

ApplyAdvance(c, to) ==
    [instant |-> to, revision |-> c.revision + 1, last |-> -1]

\* Variant: the ordinal of the committed cycle is not recorded.
ApplyWorkForgetful(c, ordinal) ==
    [instant |-> c.instant, revision |-> c.revision + 1, last |-> c.last]

ApplyWork(c, ordinal) ==
    [instant |-> c.instant, revision |-> c.revision + 1, last |-> ordinal]

\* n WORK cycles were committed at the present instant.
CascadeExceeded(n) == n >= CascadeLimit

================================================================================
