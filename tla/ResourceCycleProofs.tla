--------------------------- MODULE ResourceCycleProofs ---------------------------
(***************************************************************************)
(* Theorems of ResourceCycle, for every set of workers and every cohort,   *)
(* stock, seed and agenda: the verdicts of the workers are sound and agree,*)
(* the stock is accounted for, and everything admitted is decided once.    *)
(***************************************************************************)
EXTENDS ResourceCycle, FiniteSetTheorems, TLAPS

--------------------------------------------------------------------------------
(* The invariant.                                                          *)

Event   == [kind : {"resource.consumed", "lifecycle"}, origin : Unit]
Told(u) == [kind |-> "lifecycle", origin |-> u]

Held      == {verdict[w] : w \in Worker} \ {None}
Won       == {d \in decisions : d.status = "COMMIT"}
Consuming == {i \in DOMAIN events : events[i].kind = "resource.consumed"}

\* An attempt is of a cycle that has its answers, and comes after the aborted.
Attempted ==
    /\ control.phase # "idle" =>
          Open /\ \A r \in Slots(Cycle) : answer[r] # None
    /\ control.phase = "idle" => control.attempt = 0
    /\ control.phase \in {"halted", "authorized"} => control.attempt < MaxAttempt
    /\ \A a \in aborts :
          /\ a[1] <= Cycle
          /\ a[1] = Cycle =>
                IF control.phase \in {"halted", "authorized"}
                THEN a[2] <= control.attempt ELSE a[2] < control.attempt

\* A verdict is of a cycle that had its answers, and it is still sound; one of
\* the open cycle is what any worker would find now.
Evaluated(v) ==
    /\ v.cycle <= Cycle /\ v.cycle \in DOMAIN genesis.agenda
    /\ \A r \in Slots(v.cycle) : answer[r] # None
    /\ Sound(v)
    /\ v.cycle = Cycle =>
          /\ control.phase # "idle" /\ Proposing(Cycle) # {}
          /\ v = Run(Cycle, v.attempt)

\* Verdicts of one cycle agree with one another and with what was committed.
Agreeing ==
    /\ \A u, v \in Held : u.cycle = v.cycle => u.status = v.status
    /\ \A v \in Held : \A d \in decisions :
          d.cycle = v.cycle /\ d.unit \in Round => d.status = v.status[d.unit]

\* Nothing is recorded or told of a cycle that is not committed.
Recorded ==
    /\ \A d \in decisions :
          d.cycle \in 1..revision /\ d.unit \in genesis.agenda[d.cycle]
    /\ \A i \in DOMAIN events : events[i].kind = "lifecycle" =>
          \E c \in 1..revision : events[i].origin \in genesis.agenda[c]

\* Everything a committed cycle admitted is recorded and told, and once.
Single ==
    /\ \A c \in 1..revision : \A u \in genesis.agenda[c] :
          /\ \E d \in decisions : d.cycle = c /\ d.unit = u
          /\ \E i \in DOMAIN events : events[i] = Told(u)
    /\ \A d, e \in decisions : d.cycle = e.cycle =>
          d.attempt = e.attempt /\ (d.unit = e.unit => d = e)
    /\ \A d \in decisions : <<d.cycle, d.attempt>> \notin aborts
    /\ \A i, j \in DOMAIN events :
          events[i].kind = "lifecycle" /\ events[i] = events[j] => i = j

\* Nothing was spent yet, or the last unit was, by one proposal for it.
Spent ==
    \/ stock = genesis.stock /\ Won = {} /\ Consuming = {}
    \/ /\ stock = 0 /\ genesis.stock = 1
       /\ \E d \in decisions, i \in DOMAIN events :
             /\ Won = {d} /\ Consuming = {i}
             /\ events[i].origin = d.unit
             /\ d.unit \in Round /\ answer[d.unit] \in Offers
             /\ answer[d.unit].amount = 1

Agreed ==
    /\ TypeOK /\ events \in Seq(Event) /\ DOMAIN verdict = Worker
    /\ Attempted
    /\ \A v \in Held : Evaluated(v)
    /\ Agreeing
    /\ Recorded /\ Single
    /\ Spent

--------------------------------------------------------------------------------
(* Canonical order.                                                        *)

\* A set of natural numbers with 0 and every successor has them all.
LEMMA AllNumbers ==
    ASSUME NEW T, 0 \in T, \A n \in Nat : n \in T => n + 1 \in T
    PROVE  Nat \subseteq T
<1> SUFFICES ASSUME Nat \ T # {} PROVE FALSE
  OBVIOUS
<1> DEFINE R == {x \in Nat \X Nat : x[1] < x[2]}
<1>1. IsWellFoundedOn(R, Nat)
  BY NatLessThanWellFounded DEF OpToRel
<1>2. PICK n \in Nat \ T : \A m \in Nat \ T : <<m, n>> \notin R
  BY <1>1, WFMin
<1>3. n # 0 /\ n - 1 \in Nat
  BY <1>2
<1>4. \A m \in Nat \ T : ~(m < n)
  BY <1>2
<1>5. n - 1 \in T
  BY <1>3, <1>4
<1>6. (n - 1) + 1 = n
  BY <1>3
<1> QED
  BY <1>3, <1>5, <1>6

InOrder(q, S) ==
    /\ q \in Bijection(1..Cardinality(S), S)
    /\ \A i, j \in 1..Cardinality(S) : i < j => Before(q[i], q[j])

\* The units among the first k of the order.
Leading(k) == {Order[i] : i \in 1..k}

LEMMA OrderType ==
    /\ IsFiniteSet(Unit) /\ Order \in Seq(Unit)
    /\ Len(Order) \in Nat /\ Leading(Len(Order)) = Unit
<1>1. Order \in Seq(Unit) /\ Len(Order) \in Nat
  BY OrderAssumption
<1>2. Leading(Len(Order)) = Unit
  BY <1>1, OrderAssumption DEF Leading
<1>3. Order \in Surjection(1..Len(Order), Unit)
  BY <1>1, OrderAssumption DEF Surjection
<1>4. IsFiniteSet(1..Len(Order))
  BY <1>1, FS_Interval
<1>5. IsFiniteSet(Unit)
  BY <1>3, <1>4, FS_Surjection
<1> QED
  BY <1>1, <1>2, <1>5

LEMMA Finite ==
    ASSUME NEW S \in SUBSET Unit
    PROVE  IsFiniteSet(S) /\ Cardinality(S) \in Nat
BY OrderType, FS_Subset, FS_CardinalityType

\* A unit that comes after those of an ordered set is put at its end.
LEMMA OrderedAppend ==
    ASSUME NEW k \in Nat, k + 1 <= Len(Order),
           NEW S \in SUBSET Leading(k + 1),
           NEW q, InOrder(q, S \ {Order[k + 1]}),
           S \ {Order[k + 1]} \subseteq Leading(k),
           Order[k + 1] \in S
    PROVE  \E p : InOrder(p, S)
<1> DEFINE u == Order[k + 1]
           R == S \ {u}
           n == Cardinality(R)
           p == [i \in 1..(n + 1) |-> IF i = n + 1 THEN u ELSE q[i]]
<1>1. S \in SUBSET Unit
  BY OrderType DEF Leading
<1>2. /\ n \in Nat /\ IsFiniteSet(S)
      /\ Cardinality(S) = n + 1
  <2>1. IsFiniteSet(S) /\ IsFiniteSet(R) /\ n \in Nat /\ Cardinality(S) \in Nat
    BY <1>1, Finite
  <2>2. n = Cardinality(S) - 1
    BY <2>1, FS_RemoveElement
  <2> QED
    BY <2>1, <2>2
<1>3. q \in [1..n -> R] /\ (\A i, j \in 1..n : q[i] = q[j] => i = j)
  BY DEF InOrder, Bijection, Injection, IsInjective
<1>4. \A r \in R : \E i \in 1..n : q[i] = r
  BY DEF InOrder, Bijection, Surjection
<1>5. \A i, j \in 1..n : i < j => Before(q[i], q[j])
  BY DEF InOrder
<1> HIDE DEF n, R, u
<1>6. u \in S /\ R = S \ {u}
  BY DEF u, R
<1>7. p \in [1..(n + 1) -> S]
  BY <1>2, <1>3, <1>6
<1>8. \A i, j \in 1..(n + 1) : p[i] = p[j] => i = j
  BY <1>2, <1>3, <1>6
<1>9. \A s \in S : \E i \in 1..(n + 1) : p[i] = s
  <2> SUFFICES ASSUME NEW s \in S PROVE \E i \in 1..(n + 1) : p[i] = s
    OBVIOUS
  <2>1. CASE s = u
    BY <2>1, <1>2
  <2>2. CASE s # u
    <3>1. PICK i \in 1..n : q[i] = s
      BY <2>2, <1>4, <1>6
    <3>2. i \in 1..(n + 1) /\ p[i] = s
      BY <3>1, <1>2
    <3> QED
      BY <3>2
  <2> QED
    BY <2>1, <2>2
<1>10. \A r \in R : Before(r, u)
  <2> SUFFICES ASSUME NEW r \in R PROVE Before(r, u)
    OBVIOUS
  <2>1. PICK i \in 1..k : r = Order[i]
    BY DEF R, u, Leading
  <2>2. DOMAIN Order = 1..Len(Order) /\ Len(Order) \in Nat
    BY OrderType
  <2>3. i \in DOMAIN Order /\ k + 1 \in DOMAIN Order /\ i < k + 1
    BY <2>2
  <2> QED
    BY <2>1, <2>3 DEF Before, u
<1>11. \A i, j \in 1..(n + 1) : i < j => Before(p[i], p[j])
  <2> SUFFICES ASSUME NEW i \in 1..(n + 1), NEW j \in 1..(n + 1), i < j
               PROVE  Before(p[i], p[j])
    OBVIOUS
  <2>1. i \in 1..n /\ p[i] = q[i] /\ q[i] \in R
    BY <1>2, <1>3
  <2>2. CASE j = n + 1
    BY <2>1, <2>2, <1>10
  <2>3. CASE j # n + 1
    BY <2>1, <2>3, <1>2, <1>5
  <2> QED
    BY <2>2, <2>3
<1>12. InOrder(p, S)
  BY <1>2, <1>7, <1>8, <1>9, <1>11
     DEF InOrder, Bijection, Injection, Surjection, IsInjective
<1> QED
  BY <1>12

LEMMA OrderExists ==
    ASSUME NEW S \in SUBSET Unit
    PROVE  \E q : InOrder(q, S)
<1> DEFINE P(k) == k <= Len(Order) =>
                      \A R \in SUBSET Leading(k) : \E q : InOrder(q, R)
           T == {k \in Nat : P(k)}
<1>1. P(0)
  <2> SUFFICES ASSUME NEW R \in SUBSET Leading(0) PROVE \E q : InOrder(q, R)
    OBVIOUS
  <2>1. R = {} /\ Cardinality(R) = 0
    BY FS_EmptySet DEF Leading
  <2>2. InOrder(<< >>, R)
    BY <2>1 DEF InOrder, Bijection, Injection, Surjection, IsInjective
  <2> QED
    BY <2>2
<1>2. ASSUME NEW k \in Nat, P(k) PROVE P(k + 1)
  <2> SUFFICES ASSUME k + 1 <= Len(Order), NEW R \in SUBSET Leading(k + 1)
               PROVE  \E q : InOrder(q, R)
    OBVIOUS
  <2>01. k <= Len(Order)
    BY OrderType
  <2>0. \A Q \in SUBSET Leading(k) : \E q : InOrder(q, Q)
    BY <1>2, <2>01
  <2>1. R \ {Order[k + 1]} \in SUBSET Leading(k)
    <3> SUFFICES ASSUME NEW r \in R, r # Order[k + 1] PROVE r \in Leading(k)
      OBVIOUS
    <3>1. PICK i \in 1..(k + 1) : r = Order[i]
      BY DEF Leading
    <3>2. i \in 1..k
      BY <3>1
    <3> QED
      BY <3>1, <3>2 DEF Leading
  <2>2. PICK q : InOrder(q, R \ {Order[k + 1]})
    BY <2>0, <2>1
  <2>3. CASE Order[k + 1] \in R
    BY <2>1, <2>2, <2>3, OrderedAppend
  <2>4. CASE Order[k + 1] \notin R
    <3>1. R \ {Order[k + 1]} = R
      BY <2>4
    <3> QED
      BY <3>1, <2>2
  <2> QED
    BY <2>3, <2>4
<1> HIDE DEF P
<1>3. 0 \in T /\ \A k \in Nat : k \in T => k + 1 \in T
  BY <1>1, <1>2
<1> HIDE DEF T
<1>4. Len(Order) \in T
  BY <1>3, AllNumbers, OrderType
<1>5. P(Len(Order))
  BY <1>4 DEF T
<1>6. Len(Order) <= Len(Order)
  BY OrderType
<1>7. S \in SUBSET Leading(Len(Order))
  BY OrderType
<1> QED
  BY <1>5, <1>6, <1>7 DEF P

\* The sorted units of a set are those units, each of them once.
LEMMA SortedIs ==
    ASSUME NEW S \in SUBSET Unit
    PROVE  /\ IsFiniteSet(S) /\ Cardinality(S) \in Nat
           /\ Sorted(S) \in [1..Cardinality(S) -> S]
           /\ \A i, j \in 1..Cardinality(S) : Sorted(S)[i] = Sorted(S)[j] => i = j
           /\ \A u \in S : \E i \in 1..Cardinality(S) : Sorted(S)[i] = u
<1>1. Sorted(S) \in Bijection(1..Cardinality(S), S)
  BY OrderExists DEF Sorted, InOrder
<1> QED
  BY <1>1, Finite DEF Bijection, Injection, Surjection, IsInjective

LEMMA FirstIs ==
    ASSUME NEW S \in SUBSET Unit, S # {}
    PROVE  First(S) \in S
<1>1. Cardinality(S) # 0 /\ Cardinality(S) \in Nat
  BY Finite, FS_EmptySet
<1> QED
  BY <1>1, SortedIs DEF First

--------------------------------------------------------------------------------
(* Sums of claims.                                                         *)

One(T) == CHOOSE r \in T : TRUE

\* f holds the sum over every set of C, each from that over one unit less.
Sums(a, C, f) ==
    f = [T \in C |-> IF T = {} THEN 0 ELSE a[One(T)].amount + f[T \ {One(T)}]]

SumsOver(a, S, f) == Sums(a, SUBSET S, f)

Total(a, S) == (CHOOSE f : SumsOver(a, S, f))[S]

LEMMA ClaimedIs ==
    \A S : Claimed(S) = Total(answer, S) /\ Claimed(S)' = Total(answer', S)
<1>1. \A S : Claimed(S) = Total(answer, S)
  BY DEF Claimed, Total, SumsOver, Sums, One, MapThenSumSet, MapThenFoldSet
<1>2. \A S : Claimed(S)' = Total(answer', S)
  BY DEF Claimed, Total, SumsOver, Sums, One, MapThenSumSet, MapThenFoldSet
<1> QED
  BY <1>1, <1>2

LEMMA OneLess ==
    ASSUME NEW T, IsFiniteSet(T), T # {}
    PROVE  /\ One(T) \in T /\ IsFiniteSet(T \ {One(T)})
           /\ Cardinality(T) \in Nat /\ Cardinality(T) > 0
           /\ Cardinality(T \ {One(T)}) = Cardinality(T) - 1
<1>1. One(T) \in T
  BY DEF One
<1>2. Cardinality(T) \in Nat /\ Cardinality(T) # 0
  BY FS_CardinalityType, FS_EmptySet
<1> QED
  BY <1>1, <1>2, FS_RemoveElement

UpTo(S, k) == {T \in SUBSET S : Cardinality(T) <= k}

LEMMA SumsUpTo ==
    ASSUME NEW a, NEW S, IsFiniteSet(S), NEW k \in Nat
    PROVE  \E f : Sums(a, UpTo(S, k), f)
<1> DEFINE C(n) == UpTo(S, n)
           P(n) == \E f : Sums(a, C(n), f)
           N == {n \in Nat : P(n)}
<1>0. \A T \in SUBSET S : /\ IsFiniteSet(T) /\ Cardinality(T) \in Nat
                          /\ Cardinality(T) = 0 => T = {}
  BY FS_Subset, FS_CardinalityType, FS_EmptySet
<1>1. P(0)
  <2>1. \A T \in C(0) : T = {}
    BY <1>0 DEF UpTo
  <2>2. Sums(a, C(0), [T \in C(0) |-> 0])
    BY <2>1 DEF Sums
  <2> QED
    BY <2>2
<1>2. ASSUME NEW n \in Nat, P(n) PROVE P(n + 1)
  <2>1. PICK f : Sums(a, C(n), f)
    BY <1>2
  <2> DEFINE next(T) ==
               IF T = {} THEN 0 ELSE a[One(T)].amount + f[T \ {One(T)}]
             g == [T \in C(n + 1) |-> next(T)]
  <2>2. \A T \in C(n) : T \in C(n + 1) /\ g[T] = f[T]
    <3> SUFFICES ASSUME NEW T \in C(n) PROVE T \in C(n + 1) /\ g[T] = f[T]
      OBVIOUS
    <3>1. T \in C(n + 1)
      BY <1>0 DEF UpTo
    <3>2. f[T] = next(T)
      BY <2>1 DEF Sums
    <3> QED
      BY <3>1, <3>2
  <2>3. \A T \in C(n + 1) : T # {} => T \ {One(T)} \in C(n)
    <3> SUFFICES ASSUME NEW T \in C(n + 1), T # {} PROVE T \ {One(T)} \in C(n)
      OBVIOUS
    <3>1. Cardinality(T \ {One(T)}) = Cardinality(T) - 1 /\ Cardinality(T) \in Nat
      BY <1>0, OneLess DEF UpTo
    <3> QED
      BY <3>1 DEF UpTo
  <2>4. \A T \in C(n + 1) :
           next(T) = IF T = {} THEN 0 ELSE a[One(T)].amount + g[T \ {One(T)}]
    BY <2>2, <2>3
  <2>5. Sums(a, C(n + 1), g)
    <3> HIDE DEF next, C
    <3>1. g = [T \in C(n + 1) |->
                  IF T = {} THEN 0 ELSE a[One(T)].amount + g[T \ {One(T)}]]
      BY <2>4
    <3> QED
      BY <3>1 DEF Sums
  <2> QED
    BY <2>5
<1> HIDE DEF P
<1>3. 0 \in N /\ \A n \in Nat : n \in N => n + 1 \in N
  BY <1>1, <1>2
<1> HIDE DEF N
<1>4. k \in N
  BY <1>3, AllNumbers
<1> QED
  BY <1>4 DEF N, P

LEMMA SumsExist ==
    ASSUME NEW a, NEW S, IsFiniteSet(S)
    PROVE  SumsOver(a, S, CHOOSE f : SumsOver(a, S, f))
<1>1. Cardinality(S) \in Nat
  BY FS_CardinalityType
<1>2. UpTo(S, Cardinality(S)) = SUBSET S
  BY FS_Subset DEF UpTo
<1>3. \E f : Sums(a, UpTo(S, Cardinality(S)), f)
  BY <1>1, SumsUpTo
<1>4. \E f : SumsOver(a, S, f)
  BY <1>2, <1>3 DEF SumsOver
<1> QED
  BY <1>4

\* The sum over a set is that of its claims, wherever it is computed.
LEMMA SumsAgree ==
    ASSUME NEW a, NEW b, NEW S, IsFiniteSet(S), NEW U \in SUBSET S,
           \A r \in U : a[r].amount = b[r].amount,
           NEW f, SumsOver(a, S, f), NEW g, SumsOver(b, U, g)
    PROVE  \A T \in SUBSET U : f[T] = g[T]
<1> DEFINE P(n) == \A T \in SUBSET U : Cardinality(T) = n => f[T] = g[T]
           N == {n \in Nat : P(n)}
<1>0. \A T \in SUBSET U : /\ IsFiniteSet(T) /\ Cardinality(T) \in Nat
                          /\ Cardinality(T) = 0 <=> T = {}
  BY FS_Subset, FS_CardinalityType, FS_EmptySet
<1>1. P(0)
  BY <1>0 DEF SumsOver, Sums
<1>2. ASSUME NEW n \in Nat, P(n) PROVE P(n + 1)
  <2> SUFFICES ASSUME NEW T \in SUBSET U, Cardinality(T) = n + 1
               PROVE  f[T] = g[T]
    OBVIOUS
  <2>1. T # {} /\ IsFiniteSet(T)
    BY <1>0
  <2>2. One(T) \in T /\ Cardinality(T \ {One(T)}) = n
    <3>1. One(T) \in T /\ Cardinality(T \ {One(T)}) = (n + 1) - 1
      BY <2>1, OneLess
    <3> QED
      BY <3>1
  <2>3. f[T \ {One(T)}] = g[T \ {One(T)}]
    BY <1>2, <2>2
  <2>4. f[T] = a[One(T)].amount + f[T \ {One(T)}]
    BY <2>1 DEF SumsOver, Sums
  <2>5. g[T] = b[One(T)].amount + g[T \ {One(T)}]
    BY <2>1 DEF SumsOver, Sums
  <2> QED
    BY <2>2, <2>3, <2>4, <2>5
<1> HIDE DEF P
<1>3. 0 \in N /\ \A n \in Nat : n \in N => n + 1 \in N
  BY <1>1, <1>2
<1> HIDE DEF N
<1>4. Nat \subseteq N
  BY <1>3, AllNumbers
<1> QED
  BY <1>0, <1>4 DEF N, P

LEMMA TotalAgrees ==
    ASSUME NEW a, NEW b, NEW S, IsFiniteSet(S),
           \A r \in S : a[r].amount = b[r].amount
    PROVE  Total(a, S) = Total(b, S)
<1> DEFINE F == CHOOSE f : SumsOver(a, S, f)
           G == CHOOSE f : SumsOver(b, S, f)
<1>1. SumsOver(a, S, F) /\ SumsOver(b, S, G)
  BY SumsExist
<1> HIDE DEF F, G
<1>2. S \in SUBSET S
  OBVIOUS
<1>3. \A T \in SUBSET S : F[T] = G[T]
  BY <1>1, <1>2, SumsAgree
<1> QED
  BY <1>3 DEF Total, F, G

LEMMA TotalIs ==
    ASSUME NEW a, NEW S, IsFiniteSet(S)
    PROVE  Total(a, S) = IF S = {} THEN 0
                         ELSE a[One(S)].amount + Total(a, S \ {One(S)})
<1> DEFINE F == CHOOSE f : SumsOver(a, S, f)
           R == S \ {One(S)}
           G == CHOOSE f : SumsOver(a, R, f)
<1>1. CASE S = {}
  <2>1. SumsOver(a, S, F)
    BY SumsExist
  <2> HIDE DEF F
  <2>2. S \in SUBSET S
    OBVIOUS
  <2>3. F[S] = 0
    BY <1>1, <2>1, <2>2 DEF SumsOver, Sums
  <2> QED
    BY <1>1, <2>3 DEF Total, F
<1>2. CASE S # {}
  <2>1. IsFiniteSet(R) /\ R \in SUBSET S
    BY <1>2, OneLess
  <2>2. SumsOver(a, S, F) /\ SumsOver(a, R, G)
    BY <2>1, SumsExist
  <2> HIDE DEF F, G
  <2>3. F[S] = a[One(S)].amount + F[R]
    BY <1>2, <2>2 DEF SumsOver, Sums
  <2>4. \A T \in SUBSET R : F[T] = G[T]
    BY <2>1, <2>2, SumsAgree
  <2>5. F[R] = G[R]
    BY <2>4
  <2>6. Total(a, S) = F[S] /\ Total(a, R) = G[R]
    BY DEF Total, F, G
  <2> QED
    BY <1>2, <2>3, <2>5, <2>6
<1> QED
  BY <1>1, <1>2

LEMMA TotalOfFew ==
    ASSUME NEW a
    PROVE  /\ Total(a, {}) = 0
           /\ \A r : a[r].amount \in Nat => Total(a, {r}) = a[r].amount
<1>1. Total(a, {}) = 0
  BY TotalIs, FS_EmptySet
<1>2. ASSUME NEW r, a[r].amount \in Nat PROVE Total(a, {r}) = a[r].amount
  <2>1. IsFiniteSet({r}) /\ {r} # {} /\ One({r}) = r
    BY FS_Singleton DEF One
  <2>2. {r} \ {r} = {}
    OBVIOUS
  <2>3. Total(a, {r}) = a[r].amount + Total(a, {})
    BY <2>1, <2>2, TotalIs
  <2> QED
    BY <1>1, <1>2, <2>3
<1> QED
  BY <1>1, <1>2

LEMMA TotalOfTwo ==
    ASSUME NEW a, NEW S, IsFiniteSet(S), Cardinality(S) = 2,
           \A r \in S : a[r].amount = 1
    PROVE  Total(a, S) = 2
<1>1. S # {} /\ One(S) \in S /\ Cardinality(S \ {One(S)}) = 1
  BY OneLess, FS_EmptySet
<1>2. PICK r : S \ {One(S)} = {r}
  BY <1>1, FS_RemoveElement, FS_Singleton
<1>3. Total(a, {r}) = 1
  <2>1. a[r].amount = 1
    BY <1>2
  <2> QED
    BY <2>1, TotalOfFew
<1> QED
  BY <1>1, <1>2, <1>3, TotalIs

LEMMA TotalType ==
    ASSUME NEW a, NEW S, IsFiniteSet(S), \A r \in S : a[r].amount \in Nat
    PROVE  Total(a, S) \in Nat
<1> DEFINE P(n) == \A T \in SUBSET S : Cardinality(T) = n => Total(a, T) \in Nat
           N == {n \in Nat : P(n)}
<1>0. \A T \in SUBSET S : /\ IsFiniteSet(T) /\ Cardinality(T) \in Nat
                          /\ Cardinality(T) = 0 <=> T = {}
  BY FS_Subset, FS_CardinalityType, FS_EmptySet
<1>1. P(0)
  BY <1>0, TotalOfFew
<1>2. ASSUME NEW n \in Nat, P(n) PROVE P(n + 1)
  <2> SUFFICES ASSUME NEW T \in SUBSET S, Cardinality(T) = n + 1
               PROVE  Total(a, T) \in Nat
    OBVIOUS
  <2>1. T # {} /\ IsFiniteSet(T)
    BY <1>0
  <2>2. One(T) \in T /\ Cardinality(T \ {One(T)}) = n
    <3>1. One(T) \in T /\ Cardinality(T \ {One(T)}) = (n + 1) - 1
      BY <2>1, OneLess
    <3> QED
      BY <3>1
  <2>3. Total(a, T \ {One(T)}) \in Nat
    BY <1>2, <2>2
  <2>4. Total(a, T) = a[One(T)].amount + Total(a, T \ {One(T)})
    BY <2>1, TotalIs
  <2> QED
    BY <2>2, <2>3, <2>4
<1> HIDE DEF P
<1>3. 0 \in N /\ \A n \in Nat : n \in N => n + 1 \in N
  BY <1>1, <1>2
<1> HIDE DEF N
<1>4. Nat \subseteq N
  BY <1>3, AllNumbers
<1> QED
  BY <1>0, <1>4 DEF N, P

--------------------------------------------------------------------------------
(* The kernel.                                                             *)

Answered(c) ==
    c \in DOMAIN genesis.agenda /\ \A r \in Slots(c) : answer[r] # None

LEMMA RoundsFinite ==
    ASSUME NEW S \in SUBSET Round
    PROVE  IsFiniteSet(S) /\ Cardinality(S) \in Nat /\ S \in SUBSET Unit
<1>1. S \in SUBSET Unit
  BY DEF Unit
<1> QED
  BY <1>1, Finite

LEMMA GenesisType ==
    ASSUME TypeOK
    PROVE  /\ genesis.stock \in Nat /\ stock \in Nat /\ stock <= genesis.stock
           /\ genesis.agenda \in Seq(SUBSET Unit)
           /\ Len(genesis.agenda) \in Nat
           /\ DOMAIN genesis.agenda = 1..Len(genesis.agenda)
           /\ \A c \in DOMAIN genesis.agenda : genesis.agenda[c] \in SUBSET Unit
           /\ \A c, d \in DOMAIN genesis.agenda :
                 c # d => genesis.agenda[c] \cap genesis.agenda[d] = {}
           /\ genesis.seed \in [kSubset(2, Round) -> {0, 1}]
           /\ revision \in Nat /\ revision <= Len(genesis.agenda)
<1>1. genesis.stock \in Stocks /\ genesis.seed \in Seeds /\ genesis.agenda \in Agendas
  BY DEF TypeOK
<1>2. genesis.stock \in Nat /\ stock \in 0..genesis.stock
  BY <1>1, ResourceBoundsAssumption DEF TypeOK
<1>3. genesis.agenda \in Seq(SUBSET Unit)
  BY <1>1, AgendasAssumption
<1>4. \A c, d \in DOMAIN genesis.agenda :
         c # d => genesis.agenda[c] \cap genesis.agenda[d] = {}
  BY <1>1, AgendasAssumption
<1>5. genesis.seed \in [kSubset(2, Round) -> {0, 1}]
  BY <1>1, SeedsAssumption
<1>6. revision \in 0..Len(genesis.agenda)
  BY DEF TypeOK
<1> QED
  BY <1>2, <1>3, <1>4, <1>5, <1>6

LEMMA KernelSets ==
    ASSUME TypeOK, NEW c, Answered(c)
    PROVE  /\ Slots(c) \in SUBSET Round
           /\ Proposing(c) \in SUBSET Slots(c)
           /\ Resolvable(c) \in SUBSET Proposing(c)
           /\ Candidates(c) \in SUBSET Resolvable(c)
           /\ Viable(c) = {r \in Candidates(c) : answer[r].amount <= stock}
           /\ \A r \in Proposing(c) :
                 /\ answer[r] \in Offers /\ answer[r].amount \in Nat
                 /\ answer[r].amount > 0
<1>1. Slots(c) \in SUBSET Round
  BY DEF Slots
<1>2. \A r \in Proposing(c) : answer[r] \in Offers
  BY <1>1 DEF Proposing, Answered, TypeOK
<1>3. \A x \in Offers : x.amount \in Nat /\ x.amount > 0
  BY OffersAssumption DEF Offer
<1> QED
  BY <1>1, <1>2, <1>3 DEF Proposing, Resolvable, Candidates, Viable

LEMMA SameKeyIs ==
    /\ \A r : SameKey(r, r)
    /\ \A q, r : SameKey(q, r) => SameKey(r, q)
    /\ \A p, q, r : SameKey(p, q) /\ SameKey(q, r) => SameKey(p, r)
BY DEF SameKey

\* The units with one key have one canonical unit, which is one of them.
LEMMA CanonicalIs ==
    ASSUME TypeOK, NEW c, Answered(c)
    PROVE  /\ \A r \in Resolvable(c) :
                 /\ Canonical(c, r) \in Candidates(c)
                 /\ SameKey(Canonical(c, r), r)
           /\ \A q, r \in Candidates(c) : SameKey(q, r) => q = r
<1> DEFINE class(r) == {q \in Resolvable(c) : SameKey(q, r)}
<1>1. \A r \in Resolvable(c) : First(class(r)) \in class(r)
  <2> SUFFICES ASSUME NEW r \in Resolvable(c) PROVE First(class(r)) \in class(r)
    OBVIOUS
  <2>1. class(r) \in SUBSET Unit /\ r \in class(r)
    BY KernelSets, SameKeyIs, RoundsFinite
  <2> HIDE DEF class
  <2> QED
    BY <2>1, FirstIs
<1>2. \A q, r \in Resolvable(c) : SameKey(q, r) => class(q) = class(r)
  BY SameKeyIs
<1>3. \A r : Canonical(c, r) = First(class(r))
  BY DEF Canonical
<1>4. \A q, r \in Resolvable(c) : SameKey(q, r) => Canonical(c, q) = Canonical(c, r)
  BY <1>2, <1>3
<1>5. \A r \in Resolvable(c) :
         Canonical(c, r) \in Resolvable(c) /\ SameKey(Canonical(c, r), r)
  BY <1>1, <1>3
<1> HIDE DEF class
<1>6. \A r \in Resolvable(c) : Canonical(c, Canonical(c, r)) = Canonical(c, r)
  BY <1>4, <1>5
<1> QED
  BY <1>4, <1>5, <1>6 DEF Candidates

LEMMA DrawIs ==
    ASSUME TypeOK, NEW S \in SUBSET Round, Cardinality(S) = 2, NEW n
    PROVE  Draw(n, S) \in S
<1>1. genesis.seed[S] \in {0, 1}
  BY GenesisType DEF kSubset
<1>2. Sorted(S) \in [1..2 -> S]
  BY RoundsFinite, SortedIs
<1>3. genesis.seed[S] + 1 \in 1..2
  BY <1>1
<1> QED
  BY <1>2, <1>3 DEF Draw

\* Winners are viable, they leave the stock a natural number, and whoever else
\* was a candidate asked for more than they leave.
LEMMA WinnersAre ==
    ASSUME TypeOK, NEW c, Answered(c), NEW n, ~Indeterminate(c)
    PROVE  /\ Winners(c, n) \in SUBSET Candidates(c)
           /\ Claimed(Winners(c, n)) \in Nat
           /\ Claimed(Winners(c, n)) <= stock
           /\ \A r \in Candidates(c) \ Winners(c, n) :
                 answer[r].amount > stock - Claimed(Winners(c, n))
<1> DEFINE S == Viable(c)
           W == Winners(c, n)
<1>1. /\ S \in SUBSET Round /\ S \in SUBSET Candidates(c)
      /\ \A r \in Candidates(c) : answer[r].amount \in Nat /\ answer[r].amount > 0
      /\ \A r \in Candidates(c) \ S : answer[r].amount > stock
      /\ stock \in Nat
  BY KernelSets, GenesisType
<1>2. IsFiniteSet(S) /\ \A r \in S : answer[r].amount \in Nat
  BY <1>1, RoundsFinite
<1>3. CASE Exhausted(S)
  <2>1. Cardinality(S) = 2 /\ \A r \in S : answer[r].amount = stock
    BY <1>3 DEF Indeterminate, Resolvers
  <2>2. W = {Draw(n, S)}
    BY <1>3 DEF Winners
  <2>3. Draw(n, S) \in S
    BY <1>1, <2>1, DrawIs
  <2>4. Claimed(W) = stock
    BY <2>1, <2>2, <2>3, <1>1, ClaimedIs, TotalOfFew
  <2>5. W \in SUBSET Candidates(c)
    BY <1>1, <2>2, <2>3
  <2>6. stock - Claimed(W) = 0
    BY <1>1, <2>4
  <2>7. \A r \in Candidates(c) : answer[r].amount > 0
    BY <1>1
  <2> QED
    BY <1>1, <2>4, <2>5, <2>6, <2>7
<1>4. CASE ~Exhausted(S)
  <2>1. W = S
    BY <1>4 DEF Winners
  <2>2. Claimed(S) \in Nat
    BY <1>2, ClaimedIs, TotalType
  <2>3. Claimed(S) <= stock
    BY <1>1, <1>4, <2>2 DEF Exhausted
  <2> HIDE DEF W, S
  <2> QED
    BY <1>1, <2>1, <2>2, <2>3 DEF W
<1> QED
  BY <1>3, <1>4

LEMMA WinnersOfAnyAttempt == \A c, m, n : Winners(c, m) = Winners(c, n)
BY DEF Winners, Draw

\* A cohort that is left alone.
LEMMA UndecidedIs ==
    ASSUME TypeOK, NEW c, Answered(c), NEW n \in Nat,
           KeyConflict(c) \/ Indeterminate(c)
    PROVE  /\ Run(c, n) \in Verdict /\ Sound(Run(c, n))
           /\ Run(c, n).cycle = c /\ Run(c, n).attempt = n
           /\ Run(c, n).post = stock
           /\ Run(c, n).failure # "NONE" /\ Run(c, n).status = << >>
<1>1. PICK f \in {"IDEMPOTENCY_CONFLICT", "INDETERMINATE_FACET"} :
         Run(c, n) = [cycle |-> c, attempt |-> n, stock |-> stock, post |-> stock,
                      failure |-> f, status |-> << >>]
  BY DEF Run
<1>2. c \in Nat /\ stock \in Nat
  BY GenesisType DEF Answered
<1>3. << >> \in [{} -> Status] /\ {} \in SUBSET Round
  OBVIOUS
<1>4. << >> \in UNION {[S -> Status] : S \in SUBSET Round}
  BY <1>3
<1>5. Run(c, n) \in Verdict
  <2> DEFINE st == << >>
  <2> HIDE DEF st
  <2>1. st \in UNION {[S -> Status] : S \in SUBSET Round}
    BY <1>4 DEF st
  <2>2. Run(c, n) = [cycle |-> c, attempt |-> n, stock |-> stock, post |-> stock,
                     failure |-> f, status |-> st]
    BY <1>1 DEF st
  <2> QED
    BY <1>2, <2>1, <2>2 DEF Verdict
<1>6. DOMAIN << >> = {}
  OBVIOUS
<1>7. /\ Run(c, n).post = stock /\ Run(c, n).stock = stock
      /\ Run(c, n).status = << >> /\ Run(c, n).failure # "NONE"
      /\ Run(c, n).cycle = c /\ Run(c, n).attempt = n
  BY <1>1
<1> HIDE DEF Run
<1>8. Claimed({}) = 0
  BY ClaimedIs, TotalOfFew
<1>9. stock = stock - 0
  BY <1>2
<1>10. Sound(Run(c, n))
  <2>1. \A s : {r \in DOMAIN Run(c, n).status : Run(c, n).status[r] = s} = {}
    BY <1>6, <1>7
  <2> QED
    BY <1>7, <1>8, <1>9, <2>1 DEF Sound
<1> QED
  BY <1>5, <1>7, <1>10

LEMMA DecidedIs ==
    ASSUME TypeOK, NEW c, Answered(c), NEW n \in Nat,
           ~KeyConflict(c), ~Indeterminate(c)
    PROVE  /\ Run(c, n) \in Verdict /\ Sound(Run(c, n))
           /\ Run(c, n).cycle = c /\ Run(c, n).attempt = n
           /\ Run(c, n).post = stock - Claimed(Winners(c, n))
           /\ Run(c, n).post \in 0..stock
           /\ Run(c, n).failure = "NONE"
           /\ Run(c, n).status = [r \in Slots(c) |-> StatusOf(c, n, r)]
           /\ {r \in Slots(c) : Run(c, n).status[r] = "COMMIT"} = Winners(c, n)
<1> DEFINE v == Run(c, n)
           W == Winners(c, n)
           status == [r \in Slots(c) |-> StatusOf(c, n, r)]
           having(s) == {r \in DOMAIN v.status : v.status[r] = s}
<1>1. v = [cycle |-> c, attempt |-> n, stock |-> stock, post |-> stock - Claimed(W),
           failure |-> "NONE", status |-> status]
  BY DEF Run
<1>2. c \in Nat /\ stock \in Nat
  BY GenesisType DEF Answered
<1>3. Claimed(W) \in Nat /\ Claimed(W) <= stock
  BY WinnersAre
<1>4. stock - Claimed(W) \in 0..stock
  BY <1>2, <1>3
<1>5. \A r \in Slots(c) :
         /\ StatusOf(c, n, r) \in Status
         /\ StatusOf(c, n, r) = "COMMIT" <=> r \in W
         /\ StatusOf(c, n, r) = "REJECT" <=> r \in Candidates(c) \ W
         /\ StatusOf(c, n, r) = "DEDUPLICATED" <=>
               r \in Proposing(c) /\ r \notin Candidates(c)
  <2>1. W \in SUBSET Candidates(c) /\ Candidates(c) \in SUBSET Proposing(c)
    BY WinnersAre, KernelSets
  <2> HIDE DEF W
  <2> QED
    BY <2>1 DEF StatusOf, Status, W
<1>6. status \in UNION {[S -> Status] : S \in SUBSET Round}
  <2>1. Slots(c) \in SUBSET Round /\ status \in [Slots(c) -> Status]
    BY <1>5, KernelSets
  <2> HIDE DEF status
  <2> QED
    BY <2>1
<1>7. DOMAIN status = Slots(c) /\ \A r \in Slots(c) : status[r] = StatusOf(c, n, r)
  OBVIOUS
<1> HIDE DEF status
<1>8. /\ v.cycle = c /\ v.attempt = n /\ v.stock = stock
      /\ v.post = stock - Claimed(W) /\ v.failure = "NONE" /\ v.status = status
  BY <1>1
<1>9. v \in Verdict
  BY <1>1, <1>2, <1>4, <1>6 DEF Verdict
<1> HIDE DEF v
<1>10. /\ having("COMMIT") = W
       /\ having("REJECT") = Candidates(c) \ W
       /\ having("DEDUPLICATED") = Proposing(c) \ Candidates(c)
  <2>1. /\ W \in SUBSET Slots(c) /\ Candidates(c) \in SUBSET Slots(c)
        /\ Proposing(c) \in SUBSET Slots(c)
    BY WinnersAre, KernelSets
  <2> HIDE DEF W
  <2> QED
    BY <1>5, <1>7, <1>8, <2>1
<1>11. \A r \in Candidates(c) \ W : answer[r].amount > v.post
  BY <1>8, WinnersAre
<1>12. \A r \in Proposing(c) \ Candidates(c) :
          \E q \in Candidates(c) :
              SameKey(q, r) /\ answer[q].amount = answer[r].amount
  <2> SUFFICES ASSUME NEW r \in Proposing(c)
               PROVE  \E q \in Candidates(c) :
                          SameKey(q, r) /\ answer[q].amount = answer[r].amount
    OBVIOUS
  <2>1. r \in Resolvable(c)
    BY DEF Indeterminate
  <2>2. Canonical(c, r) \in Candidates(c) /\ SameKey(Canonical(c, r), r)
    BY <2>1, CanonicalIs
  <2>3. answer[Canonical(c, r)].amount = answer[r].amount
    BY <2>1 DEF KeyConflict
  <2> QED
    BY <2>2, <2>3
<1>13. \A q, r \in W : SameKey(q, r) => q = r
  BY WinnersAre, CanonicalIs
<1>14. W \cup (Candidates(c) \ W) = Candidates(c)
  BY WinnersAre
<1>15. Sound(v)
  <2> HIDE DEF W
  <2> QED
    BY <1>7, <1>8, <1>10, <1>11, <1>12, <1>13, <1>14 DEF Sound
<1>16. {r \in Slots(c) : v.status[r] = "COMMIT"} = W
  BY <1>7, <1>8, <1>10
<1> QED
  BY <1>4, <1>8, <1>9, <1>15, <1>16 DEF v, status

\* What the kernel finds is sound, and it is the same in every attempt.
LEMMA RunIs ==
    ASSUME TypeOK, NEW c, Answered(c), NEW n \in Nat
    PROVE  /\ Run(c, n) \in Verdict /\ Sound(Run(c, n))
           /\ Run(c, n).cycle = c /\ Run(c, n).attempt = n
           /\ Run(c, n).post \in 0..stock
           /\ \A m \in Nat : Run(c, m).status = Run(c, n).status
<1>1. CASE KeyConflict(c) \/ Indeterminate(c)
  <2>1. stock \in 0..stock
    BY GenesisType
  <2> QED
    BY <1>1, <2>1, UndecidedIs
<1>2. CASE ~KeyConflict(c) /\ ~Indeterminate(c)
  <2>1. \A m \in Nat, r \in Slots(c) : StatusOf(c, m, r) = StatusOf(c, n, r)
    BY WinnersOfAnyAttempt DEF StatusOf
  <2>2. \A m \in Nat : [r \in Slots(c) |-> StatusOf(c, m, r)]
                          = [r \in Slots(c) |-> StatusOf(c, n, r)]
    BY <2>1
  <2>3. \A m \in Nat : Run(c, m).status = [r \in Slots(c) |-> StatusOf(c, m, r)]
    BY <1>2, DecidedIs
  <2>4. \A m \in Nat : Run(c, m).status = Run(c, n).status
    BY <2>2, <2>3
  <2>5. /\ Run(c, n) \in Verdict /\ Sound(Run(c, n))
        /\ Run(c, n).cycle = c /\ Run(c, n).attempt = n
        /\ Run(c, n).post \in 0..stock
    BY <1>2, DecidedIs
  <2> QED
    BY <2>4, <2>5
<1> QED
  BY <1>1, <1>2

\* A batch that the handlers take has one winner, and takes the last unit.
LEMMA TakenIs ==
    ASSUME TypeOK, NEW c, Answered(c), NEW n \in Nat, Takes(c),
           Run(c, n).failure = "NONE"
    PROVE  \E r \in Slots(c) :
              /\ answer[r] \in Offers /\ answer[r].amount = 1
              /\ Run(c, n).post = 0
              /\ {q \in Slots(c) : Run(c, n).status[q] = "COMMIT"} = {r}
<1>1. ~KeyConflict(c) /\ ~Indeterminate(c)
  BY UndecidedIs
<1>2. /\ stock = 1 /\ Slots(c) \in SUBSET Round /\ Resolvable(c) = Slots(c)
      /\ \A r \in Slots(c) : answer[r].amount = 1 /\ answer[r] \in Offers
  BY KernelSets DEF Takes, UnitClaimed, Resolvable, Proposing
<1>3. \A q, r \in Slots(c) : SameKey(q, r) => q = r
  <2>1. CASE Contest(Slots(c))
    BY <2>1 DEF Contest, SameKey
  <2>2. CASE SingleClaim(Slots(c))
    BY <1>2, <2>2, RoundsFinite, FS_Singleton DEF SingleClaim
  <2> QED
    BY <2>1, <2>2 DEF Takes
<1>4. Candidates(c) = Slots(c) /\ Viable(c) = Slots(c)
  <2>1. \A r \in Slots(c) : Canonical(c, r) = r
    BY <1>2, <1>3, CanonicalIs, KernelSets
  <2>2. Candidates(c) = Slots(c)
    BY <1>2, <2>1 DEF Candidates
  <2> QED
    BY <1>2, <2>2 DEF Viable
<1>5. PICK r \in Slots(c) : Winners(c, n) = {r}
  <2>1. CASE SingleClaim(Slots(c))
    <3>1. PICK r : Slots(c) = {r}
      BY <1>2, <2>1, RoundsFinite, FS_Singleton DEF SingleClaim
    <3>2. Claimed(Slots(c)) = 1
      <4>1. answer[r].amount = 1
        BY <1>2, <3>1
      <4> QED
        BY <3>1, <4>1, ClaimedIs, TotalOfFew
    <3> QED
      BY <1>2, <1>4, <3>1, <3>2 DEF Winners, Exhausted
  <2>2. CASE Contest(Slots(c))
    <3>1. Cardinality(Slots(c)) = 2 /\ IsFiniteSet(Slots(c))
      BY <1>2, <2>2, RoundsFinite DEF Contest
    <3>2. Claimed(Slots(c)) = 2
      BY <1>2, <3>1, ClaimedIs, TotalOfTwo
    <3>3. Winners(c, n) = {Draw(n, Slots(c))}
      BY <1>2, <1>4, <3>2 DEF Winners, Exhausted
    <3> QED
      BY <1>2, <3>1, <3>3, DrawIs
  <2> QED
    BY <2>1, <2>2 DEF Takes
<1>6. Claimed(Winners(c, n)) = 1
  BY <1>2, <1>5, ClaimedIs, TotalOfFew
<1>7. /\ Run(c, n).post = stock - Claimed(Winners(c, n))
      /\ {q \in Slots(c) : Run(c, n).status[q] = "COMMIT"} = Winners(c, n)
  BY <1>1, DecidedIs
<1>8. Run(c, n).post = 0
  BY <1>2, <1>6, <1>7
<1> QED
  BY <1>2, <1>5, <1>7, <1>8

--------------------------------------------------------------------------------
(* What a step leaves alone.                                               *)

\* The kernel depends on the answers, the stock and the genesis only.
LEMMA KernelStays ==
    ASSUME genesis' = genesis, answer' = answer, stock' = stock
    PROVE  /\ \A c : Slots(c)' = Slots(c) /\ Proposing(c)' = Proposing(c)
           /\ \A c, n : Run(c, n)' = Run(c, n)
<1>1. \A c : Slots(c)' = Slots(c)
  BY DEF Slots
<1>2. \A c : Proposing(c)' = Proposing(c)
  BY <1>1 DEF Proposing
<1>3. \A c : Resolvable(c)' = Resolvable(c)
  BY <1>2 DEF Resolvable
<1>4. \A q, r : SameKey(q, r)' = SameKey(q, r)
  BY DEF SameKey
<1>5. \A c, r : Canonical(c, r)' = Canonical(c, r)
  BY <1>3, <1>4 DEF Canonical
<1>6. \A c : KeyConflict(c)' = KeyConflict(c)
  BY <1>3, <1>5 DEF KeyConflict
<1>7. \A c : Candidates(c)' = Candidates(c)
  BY <1>3, <1>5 DEF Candidates
<1>8. \A S : Claimed(S)' = Claimed(S)
  BY ClaimedIs
<1>9. \A c : Viable(c)' = Viable(c)
  BY <1>7 DEF Viable
<1>10. \A S : Exhausted(S)' = Exhausted(S)
  BY <1>8 DEF Exhausted
<1>11. \A S : Resolvers(S)' = Resolvers(S)
  BY DEF Resolvers
<1>12. \A n, S : Draw(n, S)' = Draw(n, S)
  BY DEF Draw
<1>13. \A c, n : Winners(c, n)' = Winners(c, n)
  BY <1>9, <1>10, <1>12 DEF Winners
<1>14. \A c : Indeterminate(c)' = Indeterminate(c)
  BY <1>2, <1>3, <1>8, <1>9, <1>10, <1>11 DEF Indeterminate
<1>15. \A c, n, r : StatusOf(c, n, r)' = StatusOf(c, n, r)
  BY <1>2, <1>7, <1>13 DEF StatusOf
<1>16. \A c, n : Run(c, n)' = Run(c, n)
  BY <1>1, <1>6, <1>8, <1>13, <1>14, <1>15 DEF Run
<1> QED
  BY <1>1, <1>2, <1>16

LEMMA HeldAre ==
    ASSUME TypeOK
    PROVE  \A v \in Held : v \in Verdict
BY DEF TypeOK, Held

\* A verdict stays sound as long as the answers of its cycle stay.
LEMMA SoundStays ==
    ASSUME genesis' = genesis,
           \A r \in Round : answer[r] # None => answer'[r] = answer[r]
    PROVE  \A v \in Verdict :
              Sound(v) /\ (\A r \in Slots(v.cycle) : answer[r] # None) => Sound(v)'
<1> SUFFICES ASSUME NEW v \in Verdict, Sound(v),
                    \A r \in Slots(v.cycle) : answer[r] # None
             PROVE  Sound(v)'
  OBVIOUS
<1> DEFINE D == DOMAIN v.status
           having(s) == {r \in DOMAIN v.status : v.status[r] = s}
<1>1. Slots(v.cycle) \subseteq Round /\ Slots(v.cycle)' = Slots(v.cycle)
  BY DEF Slots
<1>2. D \in SUBSET Round
  BY DEF Verdict
<1>3. D \subseteq Slots(v.cycle)
  <2>1. CASE v.failure = "NONE"
    BY <2>1 DEF Sound
  <2>2. CASE v.failure # "NONE"
    <3>1. v.status = << >>
      BY <2>2 DEF Sound
    <3>2. DOMAIN << >> = {}
      OBVIOUS
    <3> QED
      BY <3>1, <3>2
  <2> QED
    BY <2>1, <2>2
<1>4. \A r \in D : answer'[r] = answer[r]
  BY <1>1, <1>3
<1>5. \A q, r \in D : SameKey(q, r)' <=> SameKey(q, r)
  BY <1>4 DEF SameKey
<1>6. Claimed(having("COMMIT"))' = Claimed(having("COMMIT"))
  <2>1. having("COMMIT") \in SUBSET D
    OBVIOUS
  <2>2. IsFiniteSet(having("COMMIT"))
    BY <1>2, <2>1, RoundsFinite
  <2>3. \A r \in having("COMMIT") : answer[r].amount = answer'[r].amount
    BY <1>4
  <2> HIDE DEF having
  <2> QED
    BY <2>2, <2>3, ClaimedIs, TotalAgrees
<1> QED
  BY <1>1, <1>4, <1>5, <1>6 DEF Sound

--------------------------------------------------------------------------------
(* What the invariant gives.                                               *)

LEMMA AgreedVerdicts == Agreed => VerdictsAgree
<1> SUFFICES ASSUME Agreed, NEW w \in Worker, verdict[w] # None
             PROVE  /\ Sound(verdict[w])
                    /\ \A x \in Worker :
                          verdict[x] # None /\ verdict[x].cycle = verdict[w].cycle =>
                              verdict[x].status = verdict[w].status
                    /\ \A d \in decisions :
                          d.cycle = verdict[w].cycle /\ d.unit \in Round =>
                              d.status = verdict[w].status[d.unit]
  BY DEF VerdictsAgree
<1>1. verdict[w] \in Held /\ \A x \in Worker : verdict[x] # None => verdict[x] \in Held
  BY DEF Held
<1>2. Sound(verdict[w])
  BY <1>1 DEF Agreed, Evaluated
<1> QED
  BY <1>1, <1>2 DEF Agreed, Agreeing

LEMMA AgreedOnce == Agreed => DecidedOnce
<1> SUFFICES ASSUME Agreed, NEW c \in DOMAIN genesis.agenda
             PROVE  LET made == {d \in decisions : d.cycle = c} IN
                    /\ \A u \in genesis.agenda[c] :
                          LET told == {i \in DOMAIN events :
                                          events[i] = [kind |-> "lifecycle", origin |-> u]}
                          IN  /\ Cardinality({d \in made : d.unit = u}) =
                                    IF c <= revision THEN 1 ELSE 0
                              /\ Cardinality(told) = IF c <= revision THEN 1 ELSE 0
                    /\ \A d, e \in made :
                          d.attempt = e.attempt /\ <<c, d.attempt>> \notin aborts
  BY DEF DecidedOnce
<1> DEFINE made == {d \in decisions : d.cycle = c}
           told(u) == {i \in DOMAIN events : events[i] = [kind |-> "lifecycle", origin |-> u]}
<1>0. /\ revision \in Nat /\ c \in Nat /\ c >= 1
      /\ \A b \in 1..revision : b \in DOMAIN genesis.agenda
      /\ \A b, d \in DOMAIN genesis.agenda :
            b # d => genesis.agenda[b] \cap genesis.agenda[d] = {}
  BY GenesisType DEF Agreed
<1>1. ASSUME NEW d \in made, NEW e \in made
      PROVE  d.attempt = e.attempt /\ <<c, d.attempt>> \notin aborts
  BY DEF Agreed, Single
<1>2. ASSUME NEW u \in genesis.agenda[c], c <= revision
      PROVE  Cardinality({d \in made : d.unit = u}) = 1 /\ Cardinality(told(u)) = 1
  <2>1. c \in 1..revision
    BY <1>0, <1>2
  <2>2. PICK d \in decisions : d.cycle = c /\ d.unit = u
    BY <2>1 DEF Agreed, Single
  <2>3. {e \in made : e.unit = u} = {d}
    BY <2>2 DEF Agreed, Single
  <2>4. PICK i \in DOMAIN events : events[i] = Told(u)
    BY <2>1 DEF Agreed, Single
  <2>5. told(u) = {i}
    BY <2>4 DEF Agreed, Single, Told
  <2> QED
    BY <2>3, <2>5, FS_Singleton
<1>3. ASSUME NEW u \in genesis.agenda[c], ~(c <= revision)
      PROVE  Cardinality({d \in made : d.unit = u}) = 0 /\ Cardinality(told(u)) = 0
  <2>1. made = {}
    BY <1>0, <1>3 DEF Agreed, Recorded
  <2>2. told(u) = {}
    <3> SUFFICES ASSUME NEW i \in DOMAIN events,
                        events[i] = [kind |-> "lifecycle", origin |-> u]
                 PROVE  FALSE
      OBVIOUS
    <3>1. PICK b \in 1..revision : u \in genesis.agenda[b]
      BY DEF Agreed, Recorded
    <3> QED
      BY <1>0, <1>3, <3>1
  <2>3. {d \in made : d.unit = u} = {}
    BY <2>1
  <2> QED
    BY <2>2, <2>3, FS_EmptySet
<1> QED
  BY <1>1, <1>2, <1>3

LEMMA AgreedStock == Agreed => StockAccounted
<1> SUFFICES ASSUME Agreed PROVE StockAccounted
  OBVIOUS
<1> DEFINE spenders == {d.unit : d \in Won}
           origins == {events[i].origin : i \in Consuming}
<1>0. genesis.stock \in Nat
  BY GenesisType DEF Agreed
<1>1. /\ genesis.stock = stock + Claimed(spenders)
      /\ origins = spenders
      /\ Cardinality(Consuming) = Cardinality(Won)
  <2>1. CASE stock = genesis.stock /\ Won = {} /\ Consuming = {}
    <3>1. spenders = {} /\ origins = {}
      BY <2>1
    <3>2. Claimed({}) = 0
      BY ClaimedIs, TotalOfFew
    <3>3. Claimed(spenders) = 0
      BY <3>1, <3>2
    <3> HIDE DEF spenders, origins
    <3> QED
      BY <1>0, <2>1, <3>1, <3>3
  <2>2. ASSUME stock = 0, genesis.stock = 1,
               NEW d \in decisions, NEW i \in DOMAIN events,
               Won = {d}, Consuming = {i}, events[i].origin = d.unit,
               answer[d.unit].amount = 1
        PROVE  /\ genesis.stock = stock + Claimed(spenders)
               /\ origins = spenders
               /\ Cardinality(Consuming) = Cardinality(Won)
    <3>1. spenders = {d.unit} /\ origins = {d.unit}
      BY <2>2
    <3>2. Claimed({d.unit}) = 1
      BY <2>2, ClaimedIs, TotalOfFew
    <3>3. Cardinality(Consuming) = 1 /\ Cardinality(Won) = 1
      BY <2>2, FS_Singleton
    <3> QED
      BY <2>2, <3>1, <3>2, <3>3
  <2> QED
    BY <2>1, <2>2 DEF Agreed, Spent
<1> QED
  BY <1>1 DEF StockAccounted, Won, Consuming

LEMMA Begins == Init => Agreed
<1> SUFFICES ASSUME Init PROVE Agreed
  OBVIOUS
<1>1. /\ genesis.stock \in Nat /\ genesis.agenda \in Seq(SUBSET Unit)
      /\ Len(genesis.agenda) \in Nat
  <2>1. genesis.stock \in Stocks /\ genesis.agenda \in Agendas
    BY DEF Init
  <2>2. genesis.stock \in Nat
    BY <2>1, ResourceBoundsAssumption
  <2>3. genesis.agenda \in Seq(SUBSET Unit)
    BY <2>1, AgendasAssumption
  <2> QED
    BY <2>2, <2>3
<1>2. Held = {} /\ events = << >> /\ decisions = {} /\ aborts = {} /\ revision = 0
  BY DEF Init, Held
<1>3. control \in [phase : {"idle", "in_flight", "halted", "authorized"},
                   attempt : 0..MaxAttempt]
  BY ResourceBoundsAssumption DEF Init
<1>4. TypeOK
  BY <1>1, <1>2, <1>3 DEF Init, TypeOK
<1>5. events \in Seq(Event) /\ DOMAIN events = {} /\ DOMAIN verdict = Worker
  BY <1>2 DEF Init
<1>6. Attempted
  BY <1>2 DEF Init, Attempted
<1>7. Agreeing /\ Recorded /\ Single
  BY <1>2, <1>5 DEF Agreeing, Recorded, Single
<1>8. Spent
  BY <1>2, <1>5 DEF Init, Spent, Won, Consuming
<1> QED
  BY <1>2, <1>4, <1>5, <1>6, <1>7, <1>8 DEF Agreed

--------------------------------------------------------------------------------
(* Every step keeps the invariant.                                         *)

LEMMA EvaluatedStays ==
    ASSUME Agreed, genesis' = genesis, answer' = answer,
           stock' = stock, revision' = revision,
           control.phase # "idle" => control'.phase # "idle"
    PROVE  \A v \in Held : Evaluated(v)'
<1> SUFFICES ASSUME NEW v \in Held PROVE Evaluated(v)'
  OBVIOUS
<1>1. Evaluated(v) /\ v \in Verdict
  BY HeldAre DEF Agreed
<1>2. Sound(v)'
  BY <1>1, SoundStays DEF Evaluated
<1>3. Cycle' = Cycle
  BY DEF Cycle
<1>4. /\ \A c : Slots(c)' = Slots(c) /\ Proposing(c)' = Proposing(c)
      /\ \A c, n : Run(c, n)' = Run(c, n)
  BY KernelStays
<1>5. v.cycle = Cycle =>
         Proposing(Cycle)' # {} /\ v = Run(Cycle, v.attempt)'
  BY <1>1, <1>3, <1>4 DEF Evaluated
<1> QED
  BY <1>1, <1>2, <1>3, <1>4, <1>5 DEF Evaluated

LEMMA StepRespond ==
    ASSUME Agreed, NEW r \in Round, NEW x \in Offers \cup {Declined}, Respond(r, x)
    PROVE  Agreed'
<1>0. /\ UNCHANGED <<genesis, world, control, aborts, verdict>>
      /\ answer' = [answer EXCEPT ![r] = x] /\ answer[r] = None
      /\ r \in Slots(Cycle)
  BY DEF Respond
<1>1. TypeOK' /\ events' \in Seq(Event)
  <2>1. answer' \in [Round -> Offers \cup {Declined, None}]
    BY <1>0 DEF Agreed, TypeOK
  <2> QED
    BY <1>0, <2>1 DEF Agreed, TypeOK, world
<1>2. Cycle' = Cycle /\ Open' = Open /\ \A c : Slots(c)' = Slots(c)
  BY <1>0 DEF Cycle, Open, Slots, world
<1>3. control.phase = "idle"
  BY <1>0 DEF Agreed, Attempted
<1>4. Attempted'
  BY <1>0, <1>2, <1>3 DEF Agreed, Attempted
<1>5. \A q \in Round : answer[q] # None => answer'[q] = answer[q]
  BY <1>0 DEF Agreed, TypeOK
<1>6. Held' = Held /\ DOMAIN verdict' = Worker
  BY <1>0 DEF Held, Agreed
<1>7. \A v \in Held : Evaluated(v)'
  <2> SUFFICES ASSUME NEW v \in Held PROVE Evaluated(v)'
    OBVIOUS
  <2>1. Evaluated(v) /\ v \in Verdict
    BY HeldAre DEF Agreed
  <2>2. Sound(v)'
    BY <1>0, <1>5, <2>1, SoundStays DEF Evaluated
  <2>3. v.cycle # Cycle
    BY <1>3, <2>1 DEF Evaluated
  <2>4. \A q \in Slots(v.cycle) : q \in Round /\ answer[q] # None
    BY <2>1 DEF Slots, Evaluated
  <2>5. \A q \in Slots(v.cycle) : answer'[q] # None
    BY <1>5, <2>4
  <2> QED
    BY <1>0, <1>2, <2>1, <2>2, <2>3, <2>5 DEF Evaluated
<1>8. Agreeing' /\ Recorded' /\ Single'
  BY <1>0, <1>6 DEF Agreed, Agreeing, Recorded, Single, world
<1>9. Spent'
  <2>1. \A q \in Round : answer[q] \in Offers => answer'[q] = answer[q]
    BY <1>5, AbsentAssumption
  <2> QED
    BY <1>0, <2>1 DEF Agreed, Spent, Won, Consuming, world
<1> QED
  BY <1>1, <1>4, <1>6, <1>7, <1>8, <1>9 DEF Agreed

LEMMA StepSealFence ==
    ASSUME Agreed, SealFence
    PROVE  Agreed'
<1>0. /\ UNCHANGED <<genesis, world, answer, aborts, verdict>>
      /\ Open /\ \A r \in Slots(Cycle) : answer[r] # None
      /\ control.phase \in {"idle", "authorized"}
      /\ control' = [phase |-> "in_flight",
                     attempt |-> IF control.phase = "idle" THEN 0
                                 ELSE control.attempt + 1]
  BY DEF SealFence
<1>1. /\ control'.phase = "in_flight"
      /\ control'.attempt = IF control.phase = "idle" THEN 0
                            ELSE control.attempt + 1
      /\ control.attempt \in 0..MaxAttempt /\ control'.attempt \in 0..MaxAttempt
  <2>1. control.attempt \in 0..MaxAttempt /\ MaxAttempt \in Nat
    BY ResourceBoundsAssumption DEF Agreed, TypeOK
  <2>2. control.phase = "authorized" => control.attempt < MaxAttempt
    BY DEF Agreed, Attempted
  <2>3. control'.phase = "in_flight"
    BY <1>0
  <2>4. control'.attempt = IF control.phase = "idle" THEN 0
                           ELSE control.attempt + 1
    BY <1>0
  <2> QED
    BY <1>0, <2>1, <2>2, <2>3, <2>4
<1>2. TypeOK' /\ events' \in Seq(Event)
  <2>1. control' \in [phase : {"idle", "in_flight", "halted", "authorized"},
                      attempt : 0..MaxAttempt]
    BY <1>0, <1>1
  <2> QED
    BY <1>0, <2>1 DEF Agreed, TypeOK, world
<1>3. Cycle' = Cycle /\ Open' = Open /\ \A c : Slots(c)' = Slots(c)
  BY <1>0 DEF Cycle, Open, Slots, world
<1>4. Attempted'
  <2>1. \A a \in aborts : a[2] \in Nat
    BY ResourceBoundsAssumption DEF Agreed, TypeOK
  <2>2. \A a \in aborts : a[1] <= Cycle /\ (a[1] = Cycle => a[2] < control'.attempt)
    BY <1>0, <1>1, <2>1 DEF Agreed, Attempted
  <2> QED
    BY <1>0, <1>1, <1>3, <2>2 DEF Attempted
<1>5. Held' = Held /\ DOMAIN verdict' = Worker
  BY <1>0 DEF Held, Agreed
<1>6. \A v \in Held : Evaluated(v)'
  BY <1>0, <1>1, EvaluatedStays DEF world
<1>7. Agreeing' /\ Recorded' /\ Single' /\ Spent'
  BY <1>0, <1>5 DEF Agreed, Agreeing, Recorded, Single, Spent, Won, Consuming, world
<1> QED
  BY <1>2, <1>4, <1>5, <1>6, <1>7 DEF Agreed

LEMMA StepAbort ==
    ASSUME Agreed, Abort
    PROVE  Agreed'
<1>0. /\ UNCHANGED <<genesis, world, answer, verdict>>
      /\ control.phase = "in_flight" /\ control.attempt < MaxAttempt
      /\ aborts' = aborts \cup {<<Cycle, control.attempt>>}
      /\ control' = [control EXCEPT !.phase = "halted"]
  BY DEF Abort, InFlight
<1>1. /\ control'.phase = "halted" /\ control'.attempt = control.attempt
      /\ control.attempt \in 0..MaxAttempt
      /\ control' \in [phase : {"idle", "in_flight", "halted", "authorized"},
                       attempt : 0..MaxAttempt]
  BY <1>0 DEF Agreed, TypeOK
<1>2. /\ Cycle \in 1..Len(genesis.agenda) /\ Open
      /\ \A r \in Slots(Cycle) : answer[r] # None
      /\ revision \in Nat /\ Cycle = revision + 1
  <2>1. Open /\ \A r \in Slots(Cycle) : answer[r] # None
    BY <1>0 DEF Agreed, Attempted
  <2>2. revision \in Nat
    BY GenesisType DEF Agreed
  <2> QED
    BY <2>1, <2>2 DEF Open, Cycle
<1>3. TypeOK' /\ events' \in Seq(Event)
  <2>1. aborts' \subseteq (1..Len(genesis.agenda)) \X (0..MaxAttempt)
    BY <1>0, <1>1, <1>2 DEF Agreed, TypeOK
  <2> QED
    BY <1>0, <1>1, <2>1 DEF Agreed, TypeOK, world
<1>4. Cycle' = Cycle /\ Open' = Open /\ \A c : Slots(c)' = Slots(c)
  BY <1>0 DEF Cycle, Open, Slots, world
<1>5. Attempted'
  <2>1. \A a \in aborts : a[2] \in Nat
    BY ResourceBoundsAssumption DEF Agreed, TypeOK
  <2>2. \A a \in aborts : a[1] <= Cycle /\ (a[1] = Cycle => a[2] < control.attempt)
    BY <1>0 DEF Agreed, Attempted
  <2>3. \A a \in aborts' : a[1] <= Cycle /\ (a[1] = Cycle => a[2] <= control.attempt)
    BY <1>0, <1>1, <1>2, <2>1, <2>2
  <2> QED
    BY <1>0, <1>1, <1>2, <1>4, <2>3 DEF Attempted
<1>6. Held' = Held /\ DOMAIN verdict' = Worker
  BY <1>0 DEF Held, Agreed
<1>7. \A v \in Held : Evaluated(v)'
  BY <1>0, <1>1, EvaluatedStays DEF world
<1>8. Agreeing' /\ Recorded' /\ Spent'
  BY <1>0, <1>6 DEF Agreed, Agreeing, Recorded, Spent, Won, Consuming, world
<1>9. Single'
  <2>1. \A d \in decisions : d.cycle # Cycle
    BY <1>2 DEF Agreed, Recorded
  <2>2. \A d \in decisions : <<d.cycle, d.attempt>> \notin aborts'
    BY <1>0, <2>1 DEF Agreed, Single
  <2> QED
    BY <1>0, <2>2 DEF Agreed, Single, world
<1> QED
  BY <1>3, <1>5, <1>6, <1>7, <1>8, <1>9 DEF Agreed

LEMMA StepRetry ==
    ASSUME Agreed, Retry
    PROVE  Agreed'
<1>0. /\ UNCHANGED <<genesis, world, answer, aborts, verdict>>
      /\ control.phase = "halted"
      /\ control' = [control EXCEPT !.phase = "authorized"]
  BY DEF Retry
<1>1. /\ control'.phase = "authorized" /\ control'.attempt = control.attempt
      /\ control' \in [phase : {"idle", "in_flight", "halted", "authorized"},
                       attempt : 0..MaxAttempt]
  BY <1>0 DEF Agreed, TypeOK
<1>2. TypeOK' /\ events' \in Seq(Event)
  BY <1>0, <1>1 DEF Agreed, TypeOK, world
<1>3. Cycle' = Cycle /\ Open' = Open /\ \A c : Slots(c)' = Slots(c)
  BY <1>0 DEF Cycle, Open, Slots, world
<1>4. Attempted'
  BY <1>0, <1>1, <1>3 DEF Agreed, Attempted
<1>5. Held' = Held /\ DOMAIN verdict' = Worker
  BY <1>0 DEF Held, Agreed
<1>6. \A v \in Held : Evaluated(v)'
  BY <1>0, <1>1, EvaluatedStays DEF world
<1>7. Agreeing' /\ Recorded' /\ Single' /\ Spent'
  BY <1>0, <1>5 DEF Agreed, Agreeing, Recorded, Single, Spent, Won, Consuming, world
<1> QED
  BY <1>2, <1>4, <1>5, <1>6, <1>7 DEF Agreed

LEMMA StepEvaluate ==
    ASSUME Agreed, NEW w \in Worker, Evaluate(w)
    PROVE  Agreed'
<1>0. /\ UNCHANGED <<genesis, world, answer, control, aborts>>
      /\ control.phase = "in_flight" /\ Proposing(Cycle) # {}
      /\ verdict' = [verdict EXCEPT ![w] = Run(Cycle, control.attempt)]
  BY DEF Evaluate, InFlight
<1>1. /\ Answered(Cycle) /\ revision \in Nat /\ Cycle = revision + 1
      /\ control.attempt \in Nat
  <2>1. Open /\ \A r \in Slots(Cycle) : answer[r] # None
    BY <1>0 DEF Agreed, Attempted
  <2>2. revision \in Nat /\ DOMAIN genesis.agenda = 1..Len(genesis.agenda)
    BY GenesisType DEF Agreed
  <2>3. control.attempt \in Nat
    BY ResourceBoundsAssumption DEF Agreed, TypeOK
  <2> QED
    BY <2>1, <2>2, <2>3 DEF Open, Cycle, Answered
<1>2. PICK v : v = Run(Cycle, control.attempt)
  OBVIOUS
<1>3. /\ v \in Verdict /\ Sound(v)
      /\ v.cycle = Cycle /\ v.attempt = control.attempt
      /\ \A m \in Nat : Run(Cycle, m).status = v.status
  BY <1>1, <1>2, RunIs DEF Agreed
<1>4. verdict' = [verdict EXCEPT ![w] = v]
  BY <1>0, <1>2
<1>5. Held' \subseteq Held \cup {v} /\ DOMAIN verdict' = Worker
  BY <1>4 DEF Held, Agreed
<1>6. TypeOK' /\ events' \in Seq(Event)
  <2>1. \A x \in Worker : verdict'[x] # None => verdict'[x] \in Verdict
    BY <1>3, <1>4 DEF Agreed, TypeOK
  <2> QED
    BY <1>0, <2>1 DEF Agreed, TypeOK, world
<1>7. Cycle' = Cycle /\ Open' = Open /\ \A c : Slots(c)' = Slots(c)
  BY <1>0 DEF Cycle, Open, Slots, world
<1>8. Attempted'
  BY <1>0, <1>7 DEF Agreed, Attempted
<1>9. Evaluated(v)
  BY <1>0, <1>1, <1>2, <1>3 DEF Evaluated, Answered
<1>10. \A u \in Held' : Evaluated(u)'
  <2>1. \A u \in Held : Evaluated(u)'
    BY <1>0, EvaluatedStays DEF world
  <2>2. Evaluated(v)'
    <3>1. Sound(v)'
      BY <1>0, <1>3, <1>9, SoundStays DEF Evaluated
    <3>2. /\ \A c : Slots(c)' = Slots(c) /\ Proposing(c)' = Proposing(c)
          /\ \A c, n : Run(c, n)' = Run(c, n)
      BY <1>0, KernelStays DEF world
    <3>3. Proposing(Cycle)' # {} /\ v = Run(Cycle, v.attempt)'
      BY <1>0, <1>2, <1>3, <1>7, <3>2
    <3> QED
      BY <1>0, <1>7, <1>9, <3>1, <3>3 DEF Evaluated
  <2> QED
    BY <1>5, <2>1, <2>2
<1>11. \A u \in Held : u.cycle = v.cycle => u.status = v.status
  <2> SUFFICES ASSUME NEW u \in Held, u.cycle = Cycle PROVE u.status = v.status
    BY <1>3
  <2>1. u = Run(Cycle, u.attempt) /\ u.attempt \in Nat
    BY HeldAre DEF Agreed, Evaluated, Verdict
  <2> QED
    BY <1>3, <2>1
<1>12. Agreeing'
  <2>1. \A d \in decisions : d.cycle # v.cycle
    BY <1>1, <1>3 DEF Agreed, Recorded
  <2>2. \A t, u \in Held' : t.cycle = u.cycle => t.status = u.status
    BY <1>5, <1>11 DEF Agreed, Agreeing
  <2>3. \A u \in Held' : \A d \in decisions :
           d.cycle = u.cycle /\ d.unit \in Round => d.status = u.status[d.unit]
    BY <1>5, <2>1 DEF Agreed, Agreeing
  <2> QED
    BY <1>0, <2>2, <2>3 DEF Agreeing, world
<1>13. Recorded' /\ Single' /\ Spent'
  BY <1>0 DEF Agreed, Recorded, Single, Spent, Won, Consuming, world
<1> QED
  BY <1>5, <1>6, <1>8, <1>10, <1>12, <1>13 DEF Agreed

LEMMA StepRefused ==
    ASSUME Agreed, NEW w \in Worker, Refused(w)
    PROVE  Agreed'
<1>0. /\ UNCHANGED <<genesis, world, answer, control, aborts>>
      /\ verdict' = [verdict EXCEPT ![w] = None]
  BY DEF Refused
<1>1. Held' \subseteq Held /\ DOMAIN verdict' = Worker
  BY <1>0 DEF Held, Agreed
<1>2. TypeOK' /\ events' \in Seq(Event)
  <2>1. \A x \in Worker : verdict'[x] # None => verdict'[x] \in Verdict
    BY <1>0 DEF Agreed, TypeOK
  <2> QED
    BY <1>0, <2>1 DEF Agreed, TypeOK, world
<1>3. Cycle' = Cycle /\ Open' = Open /\ \A c : Slots(c)' = Slots(c)
  BY <1>0 DEF Cycle, Open, Slots, world
<1>4. Attempted'
  BY <1>0, <1>3 DEF Agreed, Attempted
<1>5. \A v \in Held' : Evaluated(v)'
  BY <1>0, <1>1, EvaluatedStays DEF world
<1>6. Agreeing'
  BY <1>0, <1>1 DEF Agreed, Agreeing, world
<1>7. Recorded' /\ Single' /\ Spent'
  BY <1>0 DEF Agreed, Recorded, Single, Spent, Won, Consuming, world
<1> QED
  BY <1>1, <1>2, <1>4, <1>5, <1>6, <1>7 DEF Agreed

\* One record for each unit of cycle c, all of attempt n.
Records(D, c, n) ==
    /\ \A d \in D :
          /\ d \in [cycle : Nat, attempt : Nat, unit : Unit,
                    status : Status \cup {"LIFECYCLE"}]
          /\ d.cycle = c /\ d.attempt = n /\ d.unit \in genesis.agenda[c]
    /\ \A u \in genesis.agenda[c] : \E d \in D : d.unit = u
    /\ \A d, e \in D : d.unit = e.unit => d = e

\* One lifecycle event for each unit of cycle c.
Tells(P, c) ==
    /\ P \in Seq(Event)
    /\ \A i \in DOMAIN P :
          P[i].kind = "lifecycle" => P[i].origin \in genesis.agenda[c]
    /\ \A u \in genesis.agenda[c] : \E i \in DOMAIN P : P[i] = Told(u)
    /\ \A i, j \in DOMAIN P :
          P[i].kind = "lifecycle" /\ P[i] = P[j] => i = j

LEMMA DecisionsAre ==
    ASSUME TypeOK, NEW c \in DOMAIN genesis.agenda, NEW n \in Nat, NEW status,
           \A r \in Slots(c) : status[r] \in Status
    PROVE  /\ Records(Decisions(c, n, status), c, n)
           /\ \A d \in Decisions(c, n, status) :
                 IF d.unit \in Round
                 THEN d.unit \in Slots(c) /\ d.status = status[d.unit]
                 ELSE d.status = "LIFECYCLE"
<1> DEFINE D == Decisions(c, n, status)
           rec(u, s) == [cycle |-> c, attempt |-> n, unit |-> u, status |-> s]
<1>1. c \in Nat /\ genesis.agenda[c] \in SUBSET Unit
  BY GenesisType
<1>2. \A d : d \in D <=>
         \/ \E r \in Slots(c) : d = rec(r, status[r])
         \/ \E s \in genesis.agenda[c] \ Round : d = rec(s, "LIFECYCLE")
  BY DEF Decisions
<1>3. \A d \in D :
         /\ d = rec(d.unit, d.status) /\ d.unit \in genesis.agenda[c]
         /\ IF d.unit \in Round
            THEN d.unit \in Slots(c) /\ d.status = status[d.unit]
            ELSE d.status = "LIFECYCLE"
  BY <1>2 DEF Slots
<1>4. \A u \in genesis.agenda[c] : \E d \in D : d.unit = u
  <2> SUFFICES ASSUME NEW u \in genesis.agenda[c] PROVE \E d \in D : d.unit = u
    OBVIOUS
  <2>1. CASE u \in Round
    <3>1. u \in Slots(c)
      BY <2>1 DEF Slots
    <3>2. rec(u, status[u]) \in D /\ rec(u, status[u]).unit = u
      BY <1>2, <3>1
    <3> HIDE DEF rec, D
    <3> QED
      BY <3>2
  <2>2. CASE u \notin Round
    <3>1. rec(u, "LIFECYCLE") \in D /\ rec(u, "LIFECYCLE").unit = u
      BY <1>2, <2>2
    <3> HIDE DEF rec, D
    <3> QED
      BY <3>1
  <2> QED
    BY <2>1, <2>2
<1> HIDE DEF D
<1>5. \A d \in D : d.status \in Status \cup {"LIFECYCLE"}
  BY <1>3
<1>6. \A d \in D : /\ d \in [cycle : Nat, attempt : Nat, unit : Unit,
                             status : Status \cup {"LIFECYCLE"}]
                   /\ d.cycle = c /\ d.attempt = n
  BY <1>1, <1>3, <1>5
<1>7. \A d, e \in D : d.unit = e.unit => d = e
  <2> SUFFICES ASSUME NEW d \in D, NEW e \in D, d.unit = e.unit PROVE d = e
    OBVIOUS
  <2>1. d.status = e.status
    BY <1>3
  <2> QED
    BY <1>3, <2>1
<1> QED
  BY <1>3, <1>4, <1>6, <1>7 DEF Records, D

LEMMA LifecycleIs ==
    ASSUME TypeOK, NEW c \in DOMAIN genesis.agenda
    PROVE  /\ Tells(Lifecycle(c), c)
           /\ \A i \in DOMAIN Lifecycle(c) : Lifecycle(c)[i].kind = "lifecycle"
<1> DEFINE U == genesis.agenda[c]
           q == Sorted(U)
           L == Lifecycle(c)
<1>1. U \in SUBSET Unit
  BY GenesisType
<1>2. /\ Cardinality(U) \in Nat /\ q \in [1..Cardinality(U) -> U]
      /\ \A i, j \in 1..Cardinality(U) : q[i] = q[j] => i = j
      /\ \A u \in U : \E i \in 1..Cardinality(U) : q[i] = u
  BY <1>1, SortedIs
<1>3. L = [i \in 1..Cardinality(U) |-> Told(q[i])]
  BY <1>2 DEF Lifecycle, Told
<1> HIDE DEF L, q, U
<1>4. \A u, v : Told(u) = Told(v) => u = v
  BY DEF Told
<1>5. \A u : Told(u).kind = "lifecycle" /\ Told(u).origin = u
  BY DEF Told
<1>6. \A u \in U : Told(u) \in Event
  BY <1>1 DEF Told, Event
<1>7. DOMAIN L = 1..Cardinality(U) /\ \A i \in 1..Cardinality(U) : L[i] = Told(q[i])
  BY <1>3
<1>8. L \in Seq(Event)
  BY <1>2, <1>3, <1>6
<1>9. \A i \in DOMAIN L : L[i].kind = "lifecycle" /\ L[i].origin \in U
  BY <1>2, <1>5, <1>7
<1>10. \A u \in U : \E i \in DOMAIN L : L[i] = Told(u)
  BY <1>2, <1>7
<1>11. \A i, j \in DOMAIN L : L[i] = L[j] => i = j
  BY <1>2, <1>4, <1>7
<1> QED
  BY <1>8, <1>9, <1>10, <1>11 DEF Tells, L, U

\* A first event of another kind.
LEMMA ConsumedFirstTells ==
    ASSUME NEW P, NEW c, Tells(P, c), NEW e \in Event, e.kind = "resource.consumed",
           \A i \in DOMAIN P : P[i].kind = "lifecycle"
    PROVE  /\ Tells(<<e>> \o P, c)
           /\ 1 \in DOMAIN (<<e>> \o P) /\ (<<e>> \o P)[1] = e
           /\ \A i \in DOMAIN (<<e>> \o P) :
                 (<<e>> \o P)[i].kind = "resource.consumed" => i = 1
<1> DEFINE Q == <<e>> \o P
<1>1. /\ P \in Seq(Event) /\ Len(P) \in Nat /\ DOMAIN P = 1..Len(P)
      /\ Q \in Seq(Event) /\ Len(Q) = Len(P) + 1 /\ DOMAIN Q = 1..(Len(P) + 1)
  BY DEF Tells
<1>2. Q[1] = e /\ \A i \in 2..(Len(P) + 1) : i - 1 \in DOMAIN P /\ Q[i] = P[i - 1]
  BY <1>1
<1>3. \A i \in DOMAIN P : i + 1 \in DOMAIN Q /\ Q[i + 1] = P[i]
  BY <1>1
<1> HIDE DEF Q
<1>4. \A i \in DOMAIN Q : i = 1 \/ i \in 2..(Len(P) + 1)
  BY <1>1
<1>5. \A i \in DOMAIN Q : Q[i].kind = "lifecycle" => i \in 2..(Len(P) + 1)
  BY <1>2, <1>4
<1>6. \A i \in DOMAIN Q : Q[i].kind = "lifecycle" => Q[i].origin \in genesis.agenda[c]
  BY <1>2, <1>5 DEF Tells
<1>7. \A u \in genesis.agenda[c] : \E i \in DOMAIN Q : Q[i] = Told(u)
  BY <1>3 DEF Tells
<1>8. \A i, j \in DOMAIN Q : Q[i].kind = "lifecycle" /\ Q[i] = Q[j] => i = j
  <2> SUFFICES ASSUME NEW i \in DOMAIN Q, NEW j \in DOMAIN Q,
                      Q[i].kind = "lifecycle", Q[i] = Q[j]
               PROVE  i = j
    OBVIOUS
  <2>1. i \in 2..(Len(P) + 1) /\ j \in 2..(Len(P) + 1)
    BY <1>5
  <2>2. i - 1 \in DOMAIN P /\ j - 1 \in DOMAIN P /\ P[i - 1] = P[j - 1]
        /\ P[i - 1].kind = "lifecycle"
    BY <1>2, <2>1
  <2>3. i - 1 = j - 1
    BY <2>2 DEF Tells
  <2> QED
    BY <2>1, <2>3
<1>9. \A i \in DOMAIN Q : Q[i].kind = "resource.consumed" => i = 1
  BY <1>2, <1>4
<1>10. Tells(Q, c)
  BY <1>1, <1>6, <1>7, <1>8 DEF Tells
<1> QED
  BY <1>1, <1>2, <1>9, <1>10 DEF Q

\* What every commit does to the records and the events of the run.
LEMMA PublishKeeps ==
    ASSUME Agreed, InFlight, NEW D, NEW P,
           Records(D, Cycle, control.attempt), Tells(P, Cycle), Publish(D, P)
    PROVE  /\ Attempted' /\ Recorded' /\ Single'
           /\ revision' \in 0..Len(genesis.agenda)
           /\ decisions' \subseteq [cycle : Nat, attempt : Nat, unit : Unit,
                                    status : Status \cup {"LIFECYCLE"}]
           /\ control' \in [phase : {"idle", "in_flight", "halted", "authorized"},
                            attempt : 0..MaxAttempt]
           /\ events' \in Seq(Event)
           /\ Cycle' = Cycle + 1 /\ \A c : Slots(c)' = Slots(c)
           /\ Cycle \in DOMAIN genesis.agenda
           /\ \A d \in decisions : d.cycle # Cycle
<1>0. /\ revision' = revision + 1 /\ decisions' = decisions \cup D
      /\ events' = events \o P /\ control' = [phase |-> "idle", attempt |-> 0]
      /\ UNCHANGED <<genesis, answer, aborts>>
      /\ control.phase = "in_flight"
  BY DEF Publish, InFlight
<1>1. /\ revision \in Nat /\ Cycle = revision + 1 /\ Cycle \in Nat
      /\ Cycle \in DOMAIN genesis.agenda
      /\ Len(genesis.agenda) \in Nat /\ revision + 1 <= Len(genesis.agenda)
      /\ \A c \in 1..revision : c \in DOMAIN genesis.agenda
      /\ control'.phase = "idle" /\ control'.attempt = 0
  <2>1. Open
    BY <1>0 DEF Agreed, Attempted
  <2>2. revision \in Nat /\ DOMAIN genesis.agenda = 1..Len(genesis.agenda)
        /\ Len(genesis.agenda) \in Nat
    BY GenesisType DEF Agreed
  <2>3. control'.phase = "idle" /\ control'.attempt = 0
    BY <1>0
  <2> QED
    BY <2>1, <2>2, <2>3 DEF Open, Cycle
<1>2. Cycle' = Cycle + 1 /\ \A c : Slots(c)' = Slots(c)
  BY <1>0, <1>1 DEF Cycle, Slots
<1>3. Attempted'
  <2>1. \A a \in aborts : a[1] \in Nat /\ a[1] <= Cycle
    BY DEF Agreed, TypeOK, Attempted
  <2>2. \A a \in aborts : a[1] <= Cycle' /\ a[1] # Cycle'
    BY <1>1, <1>2, <2>1
  <2> QED
    BY <1>0, <1>1, <2>2 DEF Attempted
<1>4. control' \in [phase : {"idle", "in_flight", "halted", "authorized"},
                    attempt : 0..MaxAttempt]
  BY <1>0, ResourceBoundsAssumption
<1>5. decisions' \subseteq [cycle : Nat, attempt : Nat, unit : Unit,
                            status : Status \cup {"LIFECYCLE"}]
  BY <1>0 DEF Agreed, TypeOK, Records
<1>6. \A d \in decisions : d.cycle \in 1..revision /\ d.unit \in genesis.agenda[d.cycle]
  BY DEF Agreed, Recorded
<1>7. \A d \in D : /\ d.cycle = Cycle /\ d.attempt = control.attempt
                   /\ d.unit \in genesis.agenda[Cycle]
  BY DEF Records
<1>8. /\ events \in Seq(Event) /\ P \in Seq(Event)
      /\ Len(events) \in Nat /\ Len(P) \in Nat
      /\ DOMAIN events = 1..Len(events) /\ DOMAIN P = 1..Len(P)
  BY DEF Agreed, Tells
<1>9. /\ events' \in Seq(Event) /\ Len(events') = Len(events) + Len(P)
      /\ DOMAIN events' = 1..(Len(events) + Len(P))
      /\ \A i \in DOMAIN events : i \in DOMAIN events' /\ events'[i] = events[i]
      /\ \A i \in DOMAIN P : /\ Len(events) + i \in DOMAIN events'
                             /\ events'[Len(events) + i] = P[i]
  BY <1>0, <1>8
<1>10. \A i \in DOMAIN events' :
          i \in DOMAIN events \/ \E k \in DOMAIN P : i = Len(events) + k
  <2> SUFFICES ASSUME NEW i \in DOMAIN events', i \notin DOMAIN events
               PROVE  \E k \in DOMAIN P : i = Len(events) + k
    OBVIOUS
  <2>1. i - Len(events) \in DOMAIN P /\ i = Len(events) + (i - Len(events))
    BY <1>8, <1>9
  <2> QED
    BY <2>1
<1>11. \A i \in DOMAIN events : events[i].kind = "lifecycle" =>
          \E c \in 1..revision : events[i].origin \in genesis.agenda[c]
  BY DEF Agreed, Recorded
<1>12. \A i \in DOMAIN P : P[i].kind = "lifecycle" =>
          P[i].origin \in genesis.agenda[Cycle]
  BY DEF Tells
<1>13. 1..revision' = (1..revision) \cup {Cycle}
  BY <1>0, <1>1
<1>14. Recorded'
  <2>1. \A d \in decisions' :
           d.cycle \in 1..revision' /\ d.unit \in genesis.agenda[d.cycle]
    BY <1>0, <1>6, <1>7, <1>13
  <2>2. \A i \in DOMAIN events' : events'[i].kind = "lifecycle" =>
           \E c \in 1..revision' : events'[i].origin \in genesis.agenda[c]
    <3> SUFFICES ASSUME NEW i \in DOMAIN events', events'[i].kind = "lifecycle"
                 PROVE  \E c \in 1..revision' : events'[i].origin \in genesis.agenda[c]
      OBVIOUS
    <3>1. CASE i \in DOMAIN events
      BY <3>1, <1>9, <1>11, <1>13
    <3>2. ASSUME NEW k \in DOMAIN P, i = Len(events) + k
          PROVE  events'[i].origin \in genesis.agenda[Cycle]
      BY <3>2, <1>9, <1>12
    <3> QED
      BY <3>1, <3>2, <1>10, <1>13
  <2> QED
    BY <1>0, <2>1, <2>2 DEF Recorded
<1>15. \A d \in decisions : d.cycle # Cycle
  BY <1>1, <1>6
<1>16. Single'
  <2>1. \A c \in 1..revision' : \A u \in genesis.agenda[c] :
           /\ \E d \in decisions' : d.cycle = c /\ d.unit = u
           /\ \E i \in DOMAIN events' : events'[i] = Told(u)
    <3> SUFFICES ASSUME NEW c \in 1..revision', NEW u \in genesis.agenda[c]
                 PROVE  /\ \E d \in decisions' : d.cycle = c /\ d.unit = u
                        /\ \E i \in DOMAIN events' : events'[i] = Told(u)
      OBVIOUS
    <3>1. CASE c \in 1..revision
      <4>1. PICK d \in decisions : d.cycle = c /\ d.unit = u
        BY <3>1 DEF Agreed, Single
      <4>2. PICK i \in DOMAIN events : events[i] = Told(u)
        BY <3>1 DEF Agreed, Single
      <4> QED
        BY <1>0, <1>9, <4>1, <4>2
    <3>2. CASE c = Cycle
      <4>1. PICK d \in D : d.unit = u
        BY <3>2 DEF Records
      <4>2. PICK i \in DOMAIN P : P[i] = Told(u)
        BY <3>2 DEF Tells
      <4> QED
        BY <1>0, <1>7, <1>9, <3>2, <4>1, <4>2
    <3> QED
      BY <3>1, <3>2, <1>13
  <2>2. \A d, e \in decisions' : d.cycle = e.cycle =>
           d.attempt = e.attempt /\ (d.unit = e.unit => d = e)
    <3>1. \A d, e \in decisions : d.cycle = e.cycle =>
             d.attempt = e.attempt /\ (d.unit = e.unit => d = e)
      BY DEF Agreed, Single
    <3>2. \A d, e \in D : d.attempt = e.attempt /\ (d.unit = e.unit => d = e)
      BY <1>7 DEF Records
    <3> QED
      BY <1>0, <1>7, <1>15, <3>1, <3>2
  <2>3. \A d \in decisions' : <<d.cycle, d.attempt>> \notin aborts
    <3>1. <<Cycle, control.attempt>> \notin aborts
      <4> SUFFICES ASSUME <<Cycle, control.attempt>> \in aborts PROVE FALSE
        OBVIOUS
      <4>1. control.attempt < control.attempt
        BY <1>0 DEF Agreed, Attempted
      <4>2. control.attempt \in Nat
        BY ResourceBoundsAssumption DEF Agreed, TypeOK
      <4> QED
        BY <4>1, <4>2
    <3> QED
      BY <1>0, <1>7, <3>1 DEF Agreed, Single
  <2>4. \A i, j \in DOMAIN events' :
           events'[i].kind = "lifecycle" /\ events'[i] = events'[j] => i = j
    <3> SUFFICES ASSUME NEW i \in DOMAIN events', NEW j \in DOMAIN events',
                        events'[i].kind = "lifecycle", events'[i] = events'[j]
                 PROVE  i = j
      OBVIOUS
    <3>1. \A b \in 1..revision :
             genesis.agenda[b] \cap genesis.agenda[Cycle] = {}
      <4>1. \A b \in 1..revision : b \in DOMAIN genesis.agenda /\ b # Cycle
        BY <1>1
      <4> QED
        BY <1>1, <4>1, GenesisType DEF Agreed
    <3>2. CASE i \in DOMAIN events /\ j \in DOMAIN events
      BY <3>2, <1>9 DEF Agreed, Single
    <3>3. ASSUME NEW a \in DOMAIN P, NEW b \in DOMAIN P,
                 i = Len(events) + a, j = Len(events) + b
          PROVE  i = j
      <4>1. P[a].kind = "lifecycle" /\ P[a] = P[b]
        BY <3>3, <1>9
      <4> QED
        BY <3>3, <4>1 DEF Tells
    <3>4. \A a \in DOMAIN events, b \in DOMAIN P :
             events[a].kind = "lifecycle" => events[a] # P[b]
      BY <1>11, <1>12, <3>1
    <3>5. CASE i \in DOMAIN events /\ j \notin DOMAIN events
      BY <3>4, <3>5, <1>9, <1>10
    <3>6. CASE i \notin DOMAIN events /\ j \in DOMAIN events
      BY <3>4, <3>6, <1>9, <1>10
    <3> QED
      BY <3>2, <3>3, <3>5, <3>6, <1>10
  <2> QED
    BY <1>0, <2>1, <2>2, <2>3, <2>4 DEF Single
<1> QED
  BY <1>0, <1>1, <1>2, <1>3, <1>4, <1>5, <1>9, <1>14, <1>15, <1>16

\* The verdicts that are held after a commit are of a committed cycle.
LEMMA EvaluatedOfPast ==
    ASSUME Agreed, genesis' = genesis, answer' = answer, revision' = revision + 1
    PROVE  \A v \in Held : Evaluated(v)'
<1> SUFFICES ASSUME NEW v \in Held PROVE Evaluated(v)'
  OBVIOUS
<1>1. Evaluated(v) /\ v \in Verdict
  BY HeldAre DEF Agreed
<1>2. Sound(v)'
  BY <1>1, SoundStays DEF Evaluated
<1>3. revision \in Nat /\ v.cycle \in Nat
  BY <1>1, GenesisType DEF Agreed, Verdict
<1>4. v.cycle <= Cycle' /\ v.cycle # Cycle'
  BY <1>1, <1>3 DEF Evaluated, Cycle
<1>5. Slots(v.cycle)' = Slots(v.cycle)
  BY DEF Slots
<1> QED
  BY <1>1, <1>2, <1>4, <1>5 DEF Evaluated

LEMMA StepCommitNoProposal ==
    ASSUME Agreed, CommitNoProposal
    PROVE  Agreed'
<1> DEFINE status == [r \in Slots(Cycle) |-> "NO_PROPOSAL"]
           D == Decisions(Cycle, control.attempt, status)
           P == Lifecycle(Cycle)
<1>0. /\ InFlight /\ Proposing(Cycle) = {} /\ Publish(D, P)
      /\ UNCHANGED <<stock, verdict>>
  BY DEF CommitNoProposal
<1>1. TypeOK /\ Cycle \in DOMAIN genesis.agenda /\ control.attempt \in Nat
  <2>1. Open
    BY <1>0 DEF Agreed, Attempted, InFlight
  <2>2. control.attempt \in Nat
    BY ResourceBoundsAssumption DEF Agreed, TypeOK
  <2> QED
    BY <2>1, <2>2, GenesisType DEF Agreed, Open, Cycle
<1>2. \A r \in Slots(Cycle) : status[r] = "NO_PROPOSAL" /\ status[r] \in Status
  BY DEF Status
<1> HIDE DEF status
<1>3. /\ Records(D, Cycle, control.attempt)
      /\ \A d \in D : IF d.unit \in Round
                      THEN d.unit \in Slots(Cycle) /\ d.status = status[d.unit]
                      ELSE d.status = "LIFECYCLE"
  BY <1>1, <1>2, DecisionsAre
<1>4. Tells(P, Cycle) /\ \A i \in DOMAIN P : P[i].kind = "lifecycle"
  BY <1>1, LifecycleIs
<1>5. \A d \in D : d.cycle = Cycle /\ d.status # "COMMIT"
  BY <1>2, <1>3 DEF Records
<1> HIDE DEF D, P
<1>6. /\ Attempted' /\ Recorded' /\ Single'
      /\ revision' \in 0..Len(genesis.agenda)
      /\ decisions' \subseteq [cycle : Nat, attempt : Nat, unit : Unit,
                               status : Status \cup {"LIFECYCLE"}]
      /\ control' \in [phase : {"idle", "in_flight", "halted", "authorized"},
                       attempt : 0..MaxAttempt]
      /\ events' \in Seq(Event)
  BY <1>0, <1>3, <1>4, PublishKeeps
<1>7. /\ decisions' = decisions \cup D /\ events' = events \o P
      /\ UNCHANGED <<genesis, answer, aborts>> /\ revision' = revision + 1
  BY <1>0 DEF Publish
<1>8. TypeOK'
  <2>1. \A i \in DOMAIN events' : events'[i] \in Event
    BY <1>6
  <2> QED
    BY <1>0, <1>6, <1>7, <2>1 DEF Agreed, TypeOK, Event
<1>9. Held' = Held /\ DOMAIN verdict' = Worker
  BY <1>0 DEF Held, Agreed
<1>10. \A v \in Held : Evaluated(v)'
  BY <1>7, EvaluatedOfPast
<1>11. \A v \in Held : v.cycle # Cycle
  BY <1>0 DEF Agreed, Evaluated
<1>12. Agreeing'
  BY <1>5, <1>7, <1>9, <1>11 DEF Agreed, Agreeing
<1>13. Spent'
  <2>1. Won' = Won
    BY <1>5, <1>7 DEF Won
  <2>2. /\ events \in Seq(Event) /\ P \in Seq(Event)
        /\ Len(events) \in Nat /\ Len(P) \in Nat
        /\ DOMAIN events = 1..Len(events) /\ DOMAIN P = 1..Len(P)
    BY <1>4 DEF Agreed, Tells
  <2>3. /\ DOMAIN events' = 1..(Len(events) + Len(P))
        /\ \A i \in DOMAIN events : i \in DOMAIN events' /\ events'[i] = events[i]
        /\ \A i \in DOMAIN events' : i \notin DOMAIN events =>
              i - Len(events) \in DOMAIN P /\ events'[i] = P[i - Len(events)]
    BY <1>7, <2>2
  <2>4. Consuming' = Consuming
    BY <1>4, <2>3 DEF Consuming
  <2>5. CASE stock = genesis.stock /\ Won = {} /\ Consuming = {}
    BY <1>0, <1>7, <2>1, <2>4, <2>5 DEF Spent
  <2>6. ASSUME stock = 0, genesis.stock = 1,
               NEW d \in decisions, NEW i \in DOMAIN events,
               Won = {d}, Consuming = {i}, events[i].origin = d.unit,
               d.unit \in Round, answer[d.unit] \in Offers,
               answer[d.unit].amount = 1
        PROVE  Spent'
    <3>1. d \in decisions' /\ i \in DOMAIN events' /\ events'[i].origin = d.unit
      BY <1>7, <2>3, <2>6
    <3>2. stock' = 0 /\ genesis' = genesis /\ answer' = answer
      BY <1>0, <1>7, <2>6
    <3> QED
      BY <2>1, <2>4, <2>6, <3>1, <3>2 DEF Spent
  <2> QED
    BY <2>5, <2>6 DEF Agreed, Spent
<1> QED
  BY <1>6, <1>8, <1>9, <1>10, <1>12, <1>13 DEF Agreed

LEMMA StepCommitResource ==
    ASSUME Agreed, NEW w \in Worker, CommitResource(w)
    PROVE  Agreed'
<1>1. PICK v : v = verdict[w]
  OBVIOUS
<1> DEFINE e == ResourceConsumed(v)
           D == Decisions(v.cycle, v.attempt, v.status)
           L == Lifecycle(v.cycle)
           P == <<e>> \o L
<1>0. /\ v # None /\ v.cycle = Cycle /\ InFlight /\ v.attempt = control.attempt
      /\ v.failure = "NONE" /\ Takes(Cycle)
      /\ stock' = v.post /\ Publish(D, P)
      /\ verdict' = [verdict EXCEPT ![w] = None]
  BY <1>1 DEF CommitResource, CanCommit
<1>2. /\ v \in Held /\ v \in Verdict /\ Evaluated(v) /\ TypeOK
      /\ control.attempt \in Nat
  <2>1. v \in Held
    BY <1>0, <1>1 DEF Held
  <2>2. control.attempt \in Nat
    BY ResourceBoundsAssumption DEF Agreed, TypeOK
  <2> QED
    BY <2>1, <2>2, HeldAre DEF Agreed
<1>3. /\ Answered(Cycle) /\ Cycle \in DOMAIN genesis.agenda
      /\ v = Run(Cycle, v.attempt) /\ v.attempt \in Nat
      /\ DOMAIN v.status = Slots(Cycle) /\ Slots(Cycle) \subseteq Round
  BY <1>0, <1>2 DEF Evaluated, Answered, Sound, Slots
<1>4. PICK r \in Slots(Cycle) :
         /\ answer[r] \in Offers /\ answer[r].amount = 1
         /\ v.post = 0
         /\ {q \in Slots(Cycle) : v.status[q] = "COMMIT"} = {r}
  BY <1>0, <1>2, <1>3, TakenIs
<1>5. \A q \in Slots(Cycle) : v.status[q] \in Status
  BY <1>2, <1>3 DEF Verdict
<1>6. /\ Records(D, Cycle, control.attempt)
      /\ \A d \in D : IF d.unit \in Round
                      THEN d.unit \in Slots(Cycle) /\ d.status = v.status[d.unit]
                      ELSE d.status = "LIFECYCLE"
  BY <1>0, <1>2, <1>3, <1>5, DecisionsAre
<1>7. Tells(L, Cycle) /\ \A i \in DOMAIN L : L[i].kind = "lifecycle"
  BY <1>0, <1>2, <1>3, LifecycleIs
<1>8. e.kind = "resource.consumed" /\ e.origin = r /\ e \in Event
  <2>1. (CHOOSE q \in DOMAIN v.status : v.status[q] = "COMMIT") = r
    BY <1>3, <1>4
  <2>2. r \in Unit
    BY <1>3 DEF Unit
  <2> QED
    BY <2>1, <2>2 DEF ResourceConsumed, Event
<1> HIDE DEF e, D, L
<1>9. /\ Tells(P, Cycle) /\ 1 \in DOMAIN P /\ P[1] = e
      /\ \A i \in DOMAIN P : P[i].kind = "resource.consumed" => i = 1
  BY <1>7, <1>8, ConsumedFirstTells
<1> HIDE DEF P
<1>10. /\ Attempted' /\ Recorded' /\ Single'
       /\ revision' \in 0..Len(genesis.agenda)
       /\ decisions' \subseteq [cycle : Nat, attempt : Nat, unit : Unit,
                                status : Status \cup {"LIFECYCLE"}]
       /\ control' \in [phase : {"idle", "in_flight", "halted", "authorized"},
                        attempt : 0..MaxAttempt]
       /\ events' \in Seq(Event)
  BY <1>0, <1>6, <1>9, PublishKeeps
<1>11. /\ decisions' = decisions \cup D /\ events' = events \o P
       /\ UNCHANGED <<genesis, answer, aborts>> /\ revision' = revision + 1
  BY <1>0 DEF Publish
<1>12. Held' \subseteq Held /\ DOMAIN verdict' = Worker
  BY <1>0 DEF Held, Agreed
<1>13. TypeOK'
  <2>1. \A i \in DOMAIN events' : events'[i] \in Event
    BY <1>10
  <2>2. \A x \in Worker : verdict'[x] # None => verdict'[x] \in Verdict
    BY <1>0 DEF Agreed, TypeOK
  <2>3. stock' \in 0..genesis.stock
    BY <1>0, <1>2, <1>4, GenesisType
  <2> QED
    BY <1>10, <1>11, <2>1, <2>2, <2>3 DEF Agreed, TypeOK, Event
<1>14. \A u \in Held' : Evaluated(u)'
  BY <1>11, <1>12, EvaluatedOfPast
<1>15. Agreeing'
  <2>1. \A u \in Held : u.cycle = Cycle => u.status = v.status
    BY <1>0, <1>2 DEF Agreed, Agreeing
  <2>2. \A d \in D : d.cycle = Cycle /\ (d.unit \in Round => d.status = v.status[d.unit])
    BY <1>6 DEF Records
  <2>3. \A u \in Held' : \A d \in decisions' :
           d.cycle = u.cycle /\ d.unit \in Round => d.status = u.status[d.unit]
    BY <1>11, <1>12, <2>1, <2>2 DEF Agreed, Agreeing
  <2> QED
    BY <1>12, <2>3 DEF Agreed, Agreeing
<1>16. Spent'
  <2>1. /\ stock = 1 /\ genesis.stock = 1 /\ Won = {} /\ Consuming = {}
        /\ stock' = 0 /\ genesis' = genesis /\ answer' = answer
    BY <1>0, <1>4, <1>11 DEF Takes, Agreed, Spent
  <2>2. PICK d \in D : d.unit = r
    BY <1>6 DEF Records, Slots
  <2>3. r \in Round /\ v.status[r] = "COMMIT"
    BY <1>3, <1>4
  <2>4. d.status = "COMMIT" /\ d \in decisions'
    BY <1>6, <1>11, <2>2, <2>3
  <2>5. \A c \in D : c.status = "COMMIT" => c = d
    <3> SUFFICES ASSUME NEW c \in D, c.status = "COMMIT" PROVE c = d
      OBVIOUS
    <3>1. c.unit \in Slots(Cycle) /\ v.status[c.unit] = "COMMIT"
      BY <1>6
    <3>2. c.unit = r
      BY <1>4, <3>1
    <3> QED
      BY <1>6, <2>2, <3>2 DEF Records
  <2>6. Won' = {d}
    BY <1>11, <2>1, <2>4, <2>5 DEF Won
  <2>7. /\ events \in Seq(Event) /\ P \in Seq(Event)
        /\ Len(events) \in Nat /\ Len(P) \in Nat
        /\ DOMAIN events = 1..Len(events) /\ DOMAIN P = 1..Len(P)
    BY <1>9 DEF Agreed, Tells
  <2>8. /\ DOMAIN events' = 1..(Len(events) + Len(P))
        /\ \A i \in DOMAIN events : events'[i] = events[i]
        /\ \A i \in DOMAIN events' : i \notin DOMAIN events =>
              i - Len(events) \in DOMAIN P /\ events'[i] = P[i - Len(events)]
    BY <1>11, <2>7
  <2>9. /\ Len(events) + 1 \in DOMAIN events'
        /\ events'[Len(events) + 1] = e
    BY <1>9, <1>11, <2>7, <2>8
  <2>10. Consuming' = {Len(events) + 1}
    <3>1. \A i \in DOMAIN events' :
             events'[i].kind = "resource.consumed" => i = Len(events) + 1
      <4> SUFFICES ASSUME NEW i \in DOMAIN events',
                          events'[i].kind = "resource.consumed"
                   PROVE  i = Len(events) + 1
        OBVIOUS
      <4>1. i \notin DOMAIN events
        BY <2>1, <2>8 DEF Consuming
      <4>2. i - Len(events) = 1
        BY <1>9, <2>8, <4>1
      <4> QED
        BY <2>7, <2>8, <4>2
    <3> QED
      BY <1>8, <2>9, <3>1 DEF Consuming
  <2> QED
    BY <1>4, <1>8, <2>1, <2>2, <2>3, <2>4, <2>6, <2>9, <2>10 DEF Spent
<1> QED
  BY <1>10, <1>12, <1>13, <1>14, <1>15, <1>16 DEF Agreed

\* Nothing changes when nothing happens.
LEMMA StepStutter ==
    ASSUME Agreed, UNCHANGED vars
    PROVE  Agreed'
<1>0. UNCHANGED <<genesis, world, answer, control, aborts, verdict>>
  BY DEF vars
<1>1. TypeOK' /\ events' \in Seq(Event)
  BY <1>0 DEF Agreed, TypeOK, world
<1>2. Cycle' = Cycle /\ Open' = Open /\ \A c : Slots(c)' = Slots(c)
  BY <1>0 DEF Cycle, Open, Slots, world
<1>3. Attempted'
  BY <1>0, <1>2 DEF Agreed, Attempted
<1>4. Held' = Held /\ DOMAIN verdict' = Worker
  BY <1>0 DEF Held, Agreed
<1>5. \A v \in Held : Evaluated(v)'
  BY <1>0, EvaluatedStays DEF world
<1>6. Agreeing' /\ Recorded' /\ Single' /\ Spent'
  BY <1>0, <1>4 DEF Agreed, Agreeing, Recorded, Single, Spent, Won, Consuming, world
<1> QED
  BY <1>1, <1>3, <1>4, <1>5, <1>6 DEF Agreed

LEMMA Invariance == Spec => []Agreed
<1>1. Agreed /\ [Next]_vars => Agreed'
  <2> SUFFICES ASSUME Agreed, [Next]_vars PROVE Agreed'
    OBVIOUS
  <2>1. ASSUME NEW r \in Round, NEW x \in Offers \cup {Declined}, Respond(r, x)
        PROVE  Agreed'
    BY <2>1, StepRespond
  <2>2. CASE SealFence
    BY <2>2, StepSealFence
  <2>3. CASE Abort
    BY <2>3, StepAbort
  <2>4. CASE Retry
    BY <2>4, StepRetry
  <2>5. CASE CommitNoProposal
    BY <2>5, StepCommitNoProposal
  <2>6. ASSUME NEW w \in Worker, Evaluate(w) PROVE Agreed'
    BY <2>6, StepEvaluate
  <2>7. ASSUME NEW w \in Worker, CommitResource(w) PROVE Agreed'
    BY <2>7, StepCommitResource
  <2>8. ASSUME NEW w \in Worker, Refused(w) PROVE Agreed'
    BY <2>8, StepRefused
  <2>9. CASE UNCHANGED vars
    BY <2>9, StepStutter
  <2> QED
    BY <2>1, <2>2, <2>3, <2>4, <2>5, <2>6, <2>7, <2>8, <2>9 DEF Next
<1> QED
  BY <1>1, Begins, PTL DEF Spec

--------------------------------------------------------------------------------
(* The theorems.                                                           *)

\* Every variable stays within what the store can hold: above all the stock,
\* which no batch of any worker makes negative.
THEOREM ResourcesTyped == Spec => []TypeOK
<1>1. Agreed => TypeOK
  BY DEF Agreed
<1> QED
  BY <1>1, Invariance, PTL

\* However many workers evaluate a cohort and in whichever attempts, their
\* verdicts are sound, and they agree with one another and with what the store
\* committed.
THEOREM WorkersAgree == Spec => []VerdictsAgree
BY Invariance, AgreedVerdicts, PTL

\* The stock that is gone is what winning proposals claimed, and there is one
\* resource.consumed event for each of them and for nobody else.
THEOREM NothingIsSpentTwice == Spec => []StockAccounted
BY Invariance, AgreedStock, PTL

\* A unit of a committed cycle has one decision and one lifecycle event, of one
\* attempt that was not aborted; a unit of an open cycle has none.
THEOREM EverythingIsDecidedOnce == Spec => []DecidedOnce
BY Invariance, AgreedOnce, PTL

================================================================================
