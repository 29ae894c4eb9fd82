------------------------- MODULE SourceContractProofs --------------------------
(***************************************************************************)
(* The membership of a sealed coordinate is final.  The frontier of every  *)
(* source of the roster has reached each sealed coordinate, so that an     *)
(* input placed later lies beyond all of them.                             *)
(***************************************************************************)
EXTENDS SourceContract, TLAPS

\* Every placed input is of a source of the roster.
PlacedByRoster == \A x \in placed : x.source \in roster

\* No source of the roster can place an input at a sealed coordinate.
SealsReached == \A c \in sealed, s \in roster : Reaches(frontier[s], c)

SealInv == TypeOK /\ PlacedByRoster /\ SealsReached

\* What a frontier leaves open lies beyond everything it has reached.
LEMMA OpenIsBeyond ==
    ASSUME PointAssumption,
           NEW x \in Extent, NEW c \in Coordinate, NEW d \in Coordinate,
           Reaches(x, c), LeavesOpen(x, d)
    PROVE  Precedes(c, d)
<1>1. ~Shut(x)
  BY DEF LeavesOpen, Shut
<1>2. x[1] = "through" /\ NotAfter(c, x[2])
  BY <1>1 DEF Reaches
<1>3. x[2] \in Coordinate /\ Precedes(x[2], d)
  BY <1>1, <1>2 DEF PointAssumption, Extent, LeavesOpen, Shut
<1> QED
  BY <1>2, <1>3 DEF NotAfter, Precedes, Coordinate

\* A frontier that does not fall behind keeps what it has reached.
LEMMA FrontierKeeps ==
    ASSUME PointAssumption,
           NEW x \in Extent, NEW y \in Extent, NEW c \in Coordinate,
           ~Shut(y), x # <<"open">>, x[1] = "through" => Beyond(x, y),
           Reaches(y, c)
    PROVE  Reaches(x, c)
<1>1. CASE Shut(x)
  BY <1>1 DEF Reaches
<1>2. CASE ~Shut(x)
  <2>1. /\ x[1] = "through" /\ x[2] \in Coordinate
    BY <1>2 DEF PointAssumption, Extent, Shut
  <2>2. /\ y[1] = "through" /\ NotAfter(c, y[2])
    BY DEF Reaches
  <2>3. y[2] \in Coordinate
    BY <2>2 DEF PointAssumption, Extent
  <2>4. ~Precedes(x[2], y[2])
    BY <2>1, <2>2 DEF Beyond
  <2>5. NotAfter(c, x[2])
    BY <2>1, <2>2, <2>3, <2>4 DEF NotAfter, Precedes, Coordinate
  <2> QED
    BY <2>1, <2>5 DEF Reaches
<1> QED
  BY <1>1, <1>2

LEMMA SealInit == Init => SealInv
BY DEF Init, SealInv, TypeOK, PlacedByRoster, SealsReached, Extent, Place

LEMMA SealStep ==
    ASSUME PointAssumption
    PROVE  SealInv /\ [Next]_vars => SealInv'
<1> SUFFICES ASSUME SealInv, [Next]_vars
             PROVE  SealInv'
  OBVIOUS
<1> USE DEF SealInv
<1>1. CASE UNCHANGED vars
  BY <1>1 DEF vars, TypeOK, PlacedByRoster, SealsReached
<1>2. ASSUME NEW s \in Source, Declare(s)
      PROVE  SealInv'
  BY <1>2 DEF Declare, TypeOK, PlacedByRoster, SealsReached
<1>3. ASSUME NEW s \in Source, NEW k \in Key, NEW c \in Point, PlaceInput(s, k, c)
      PROVE  SealInv'
  BY <1>3 DEF PlaceInput, TypeOK, PlacedByRoster, SealsReached, Place
<1>4. ASSUME NEW s \in Source, NEW x \in Extent, Extend(s, x)
      PROVE  SealInv'
  <2>1. TypeOK' /\ PlacedByRoster'
    BY <1>4 DEF Extend, TypeOK, PlacedByRoster
  <2>2. \A c \in sealed : Reaches(frontier[s], c) => Reaches(x, c)
    BY <1>4, FrontierKeeps DEF PointAssumption, Extend, TypeOK
  <2>3. SealsReached'
    BY <1>4, <2>2 DEF Extend, TypeOK, SealsReached
  <2> QED
    BY <2>1, <2>3
<1>5. ASSUME NEW c \in Point, Seal(c)
      PROVE  SealInv'
  BY <1>5 DEF Seal, TypeOK, PlacedByRoster, SealsReached
<1> QED
  BY <1>1, <1>2, <1>3, <1>4, <1>5 DEF Next

LEMMA SealKeepsDue ==
    ASSUME PointAssumption
    PROVE  SealInv /\ [Next]_vars => [\A c \in sealed : Due(c)' = Due(c)]_vars
<1> SUFFICES ASSUME SealInv, Next, NEW c \in sealed
             PROVE  Due(c)' = Due(c)
  BY DEF SealInv
<1>1. CASE placed' = placed
  BY <1>1 DEF Due
<1>2. ASSUME NEW s \in Source, NEW k \in Key, NEW d \in Point, PlaceInput(s, k, d)
      PROVE  Due(c)' = Due(c)
  <2>1. /\ c \in Coordinate /\ d \in Coordinate /\ frontier[s] \in Extent
    BY DEF PointAssumption, SealInv, TypeOK
  <2>2. Reaches(frontier[s], c) /\ LeavesOpen(frontier[s], d)
    BY <1>2 DEF SealInv, SealsReached, PlaceInput
  <2>3. ~NotAfter(d, c)
    BY <2>1, <2>2, OpenIsBeyond DEF NotAfter
  <2>4. placed' = placed \cup {[source |-> s, key |-> k, at |-> d]}
    BY <1>2 DEF PlaceInput
  <2> QED
    BY <2>3, <2>4 DEF Due
<1> QED
  BY <1>1, <1>2 DEF Next, Declare, Extend, Seal

\* Whatever sources place and close after a coordinate was sealed, no input
\* becomes due at it: a sealed cycle has the same inputs for ever.
THEOREM SealedForGood ==
    ASSUME PointAssumption
    PROVE  Spec => SealedMembershipStands
BY SealInit, SealStep, SealKeepsDue, PTL DEF Spec, SealedMembershipStands

================================================================================
