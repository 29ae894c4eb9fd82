---------------------------- MODULE SourceContract -----------------------------
(***************************************************************************)
(* What exogenous sources promise the coordinator.  A declared source has  *)
(* a frontier that only moves forward; it places inputs beyond it; a       *)
(* coordinate is sealed once every source's frontier has reached it, and   *)
(* the roster is fixed by the first seal.                                  *)
(***************************************************************************)
EXTENDS CausalClock

CONSTANTS
    Source, Key,
    Point        \* the coordinates that records can hold

\* What the theorems about the contract assume of Point.
PointAssumption == Point \subseteq Coordinate

VARIABLES
    roster,    \* declared sources
    frontier,  \* per source: open, closed through a coordinate, or shut
    placed,    \* exogenous inputs
    sealed     \* sealed coordinates

vars == <<roster, frontier, placed, sealed>>

Place == [source : Source, key : Key, at : Point]
Extent == {<<"open">>, <<"shut">>} \cup ({"through"} \X Point)

Shut(x) == x = <<"shut">>

\* The frontier x leaves c open, or has reached it.
LeavesOpen(x, c) == x = <<"open">> \/ (x[1] = "through" /\ Precedes(x[2], c))
Reaches(x, c) == Shut(x) \/ (x[1] = "through" /\ NotAfter(c, x[2]))

TypeOK ==
    /\ roster \subseteq Source
    /\ frontier \in [Source -> Extent]
    /\ placed \subseteq Place
    /\ sealed \subseteq Point

Init ==
    /\ roster = {} /\ placed = {} /\ sealed = {}
    /\ frontier = [s \in Source |-> <<"open">>]

Declare(s) ==
    /\ sealed = {}
    /\ roster' = roster \cup {s}
    /\ UNCHANGED <<frontier, placed, sealed>>

PlaceInput(s, k, c) ==
    /\ s \in roster
    /\ LeavesOpen(frontier[s], c)
    /\ \A x \in placed : ~(x.source = s /\ x.key = k)
    /\ placed' = placed \cup {[source |-> s, key |-> k, at |-> c]}
    /\ UNCHANGED <<roster, frontier, sealed>>

\* The frontier x does not fall behind the frontier y.
Beyond(x, y) == ~(y[1] = "through" /\ Precedes(x[2], y[2]))

Extend(s, x) ==
    /\ s \in roster
    /\ ~Shut(frontier[s])
    /\ x # <<"open">>
    /\ x[1] = "through" => Beyond(x, frontier[s])
    /\ frontier' = [frontier EXCEPT ![s] = x]
    /\ UNCHANGED <<roster, placed, sealed>>

Seal(c) ==
    /\ \A s \in roster : Reaches(frontier[s], c)
    /\ sealed' = sealed \cup {c}
    /\ UNCHANGED <<roster, frontier, placed>>

Next ==
    \/ \E s \in Source : Declare(s)
    \/ \E s \in Source, k \in Key, c \in Point : PlaceInput(s, k, c)
    \/ \E s \in Source, x \in Extent : Extend(s, x)
    \/ \E c \in Point : Seal(c)

Spec == Init /\ [][Next]_vars

\* The inputs due at c.
Due(c) == {x \in placed : NotAfter(x.at, c)}

\* The membership of a sealed coordinate is final: no input becomes due at it
\* later, in whatever order sources place inputs and move their frontiers.
SealedMembershipStands == [][\A c \in sealed : Due(c)' = Due(c)]_vars

================================================================================
