---------------------------- MODULE SlotLedgerProofs ----------------------------
(***************************************************************************)
(* Theorems of SlotLedger, for every deployment of a run, every set of     *)
(* slots and answers and every bound: the chain of dispatches holds, the   *)
(* answers agree, and a Ledger that is alone on its file is as a reopened  *)
(* one and implements SlotContract.                                        *)
(***************************************************************************)
EXTENDS SlotLedger, FiniteSetTheorems, TLAPS

--------------------------------------------------------------------------------
(* Induction over the rows of a file.                                      *)

\* A set of natural numbers with 0 and every successor has them all.
LEMMA AllNumbers ==
    ASSUME NEW T, 0 \in T, \A n \in Nat : n \in T => n + 1 \in T
    PROVE  Nat \subseteq T
<1> SUFFICES ASSUME Nat \ T # {} PROVE FALSE
  OBVIOUS
<1> DEFINE R == {x \in Nat \X Nat : x[1] < x[2]}
<1>1. IsWellFoundedOn(R, Nat)
  BY NatLessThanWellFounded DEF OpToRel
<1>2. PICK n \in Nat \ T : \A m \in Nat \ T : <<m, n>> \notin R
  BY <1>1, WFMin
<1>3. n # 0 /\ n - 1 \in Nat
  BY <1>2
<1>4. \A m \in Nat \ T : ~(m < n)
  BY <1>2
<1>5. n - 1 \in T
  BY <1>3, <1>4
<1>6. (n - 1) + 1 = n
  BY <1>3
<1> QED
  BY <1>3, <1>5, <1>6

--------------------------------------------------------------------------------
(* The fold of Open.                                                       *)

\* f holds the states of the slot after each of the first k rows of q.
FoldsTo(f, q, k) ==
    f = [n \in 0..k |->
            IF n = 0 THEN EmptySlot
            ELSE RestoreRow(f[n - 1], {q[i] : i \in 1..(n - 1)}, q[n])]

Fold(q) == CHOOSE f : FoldsTo(f, q, Len(q))

Folded(q) == Fold(q)[Len(q)]

LEMMA RestoreIs ==
    /\ \A s : RestoreSlot(s) = Folded(file[s])
    /\ \A s : RestoreSlot(s)' = Folded(file'[s])
BY DEF RestoreSlot, Folded, Fold, FoldsTo

LEMMA FoldExists ==
    ASSUME NEW q, NEW k \in Nat
    PROVE  \E f : FoldsTo(f, q, k)
<1> DEFINE T == {n \in Nat : \E f : FoldsTo(f, q, n)}
<1>1. 0 \in T
  <2>1. FoldsTo([n \in 0..0 |-> EmptySlot], q, 0)
    BY DEF FoldsTo
  <2> QED
    BY <2>1
<1>2. ASSUME NEW n \in Nat, n \in T PROVE n + 1 \in T
  <2>1. PICK f : FoldsTo(f, q, n)
    BY <1>2
  <2> DEFINE g == [i \in 0..(n + 1) |->
                     IF i = n + 1
                     THEN RestoreRow(f[n], {q[j] : j \in 1..n}, q[n + 1])
                     ELSE f[i]]
  <2>2. ASSUME NEW i \in 0..(n + 1)
        PROVE  g[i] = IF i = 0 THEN EmptySlot
                      ELSE RestoreRow(g[i - 1], {q[j] : j \in 1..(i - 1)}, q[i])
    <3>1. CASE i = n + 1
      <4>1. i - 1 = n /\ i # 0 /\ i - 1 \in 0..(n + 1) /\ i - 1 # n + 1
        BY <3>1
      <4>2. g[i - 1] = f[n]
        BY <4>1
      <4> QED
        BY <3>1, <4>1, <4>2
    <3>2. CASE i # n + 1 /\ i # 0
      <4>1. i \in 0..n /\ i - 1 \in 0..n /\ i - 1 # n + 1
        BY <3>2
      <4>2. g[i] = f[i] /\ g[i - 1] = f[i - 1]
        BY <3>2, <4>1
      <4>3. f[i] = RestoreRow(f[i - 1], {q[j] : j \in 1..(i - 1)}, q[i])
        BY <2>1, <3>2, <4>1 DEF FoldsTo
      <4> QED
        BY <3>2, <4>2, <4>3
    <3>3. CASE i = 0
      BY <2>1, <3>3 DEF FoldsTo
    <3> QED
      BY <3>1, <3>2, <3>3
  <2>3. FoldsTo(g, q, n + 1)
    BY <2>2 DEF FoldsTo
  <2> QED
    BY <2>3
<1> HIDE DEF T
<1>3. Nat \subseteq T
  BY <1>1, <1>2, AllNumbers
<1> QED
  BY <1>3 DEF T

\* The states after the rows that two folds share are the same.
Shared(q, r, k) == \A i \in 1..k : q[i] = r[i]

LEMMA FoldUnique ==
    ASSUME NEW q, NEW r, NEW k \in Nat, NEW l \in Nat, k <= l, Shared(q, r, k),
           NEW f, FoldsTo(f, q, k), NEW g, FoldsTo(g, r, l)
    PROVE  \A n \in 0..k : f[n] = g[n]
<1> DEFINE T == {n \in Nat : n <= k => f[n] = g[n]}
<1>1. 0 \in T
  BY DEF FoldsTo
<1>2. ASSUME NEW n \in Nat, n \in T PROVE n + 1 \in T
  <2> SUFFICES ASSUME n + 1 <= k PROVE f[n + 1] = g[n + 1]
    OBVIOUS
  <2>5. \A i \in 1..k : q[i] = r[i]
    BY DEF Shared
  <2>1. f[n] = g[n] /\ n + 1 \in 0..k /\ n + 1 \in 0..l /\ (n + 1) - 1 = n /\ n + 1 # 0
    BY <1>2
  <2>2. q[n + 1] = r[n + 1] /\ {q[i] : i \in 1..n} = {r[i] : i \in 1..n}
    BY <2>5
  <2>3. f[n + 1] = RestoreRow(f[n], {q[i] : i \in 1..n}, q[n + 1])
    BY <2>1 DEF FoldsTo
  <2>4. g[n + 1] = RestoreRow(g[n], {r[i] : i \in 1..n}, r[n + 1])
    BY <2>1 DEF FoldsTo
  <2> QED
    BY <2>1, <2>2, <2>3, <2>4
<1> HIDE DEF T
<1>3. Nat \subseteq T
  BY <1>1, <1>2, AllNumbers
<1> QED
  BY <1>3 DEF T

\* Open reads a file row by row.
LEMMA FoldRows ==
    ASSUME NEW q, Len(q) \in Nat
    PROVE  FoldsTo(Fold(q), q, Len(q))
BY FoldExists DEF Fold

LEMMA FoldEmpty == Folded(<<>>) = EmptySlot
BY FoldRows DEF Folded, FoldsTo

LEMMA FoldAppend ==
    ASSUME NEW q \in Seq(Record), NEW r \in Record
    PROVE  Folded(Append(q, r)) = RestoreRow(Folded(q), {q[i] : i \in DOMAIN q}, r)
<1> DEFINE n == Len(q)
           w == Append(q, r)
<1>1. /\ n \in Nat /\ DOMAIN q = 1..n /\ Len(w) = n + 1 /\ w[n + 1] = r
      /\ \A i \in 1..n : q[i] = w[i]
  OBVIOUS
<1> HIDE DEF n, w
<1>2. FoldsTo(Fold(q), q, n) /\ FoldsTo(Fold(w), w, n + 1)
  BY <1>1, FoldRows DEF n
<1>3. Fold(q)[n] = Fold(w)[n]
  <2>1. n + 1 \in Nat /\ n <= n + 1 /\ n \in 0..n
    BY <1>1
  <2>2. Shared(q, w, n)
    BY <1>1 DEF Shared
  <2>3. \A m \in 0..n : Fold(q)[m] = Fold(w)[m]
    <3>1. PICK f, g, k : f = Fold(q) /\ g = Fold(w) /\ k = n + 1
      OBVIOUS
    <3>2. FoldsTo(f, q, n) /\ FoldsTo(g, w, k) /\ k \in Nat /\ n <= k
      BY <1>2, <2>1, <3>1
    <3>3. \A m \in 0..n : f[m] = g[m]
      BY <1>1, <2>2, <3>2, FoldUnique
    <3> QED
      BY <3>1, <3>3
  <2> QED
    BY <2>1, <2>3
<1>4. Fold(w)[n + 1] = RestoreRow(Fold(w)[n], {w[i] : i \in 1..n}, w[n + 1])
  <2>1. n + 1 \in 0..(n + 1) /\ n + 1 # 0 /\ (n + 1) - 1 = n
    BY <1>1
  <2> QED
    BY <1>2, <2>1 DEF FoldsTo
<1>5. {w[i] : i \in 1..n} = {q[i] : i \in DOMAIN q}
  BY <1>1
<1> QED
  BY <1>1, <1>3, <1>4, <1>5 DEF Folded, n, w

--------------------------------------------------------------------------------
(* The invariant.                                                          *)

\* The dispatches of a slot are numbered from 0, without a gap.
Numbered(s) ==
    /\ IsFiniteSet(Dispatched(s))
    /\ {d.ordinal : d \in Dispatched(s)} = 0..(Cardinality(Dispatched(s)) - 1)

\* What Open makes of a file is a slot state, and its answer is in the file.
FoldSound(s) ==
    /\ RestoreSlot(s) \in SlotState
    /\ RestoreSlot(s).response # NoAnswer => RestoreSlot(s).response \in AnswersOf(s)

OneAnswer(s) == \A r, q \in AnswersOf(s) : r = q

ViewsAnswered ==
    \A s \in Slot, p \in Process :
        Up(p) /\ view[p].slot[s].response # NoAnswer =>
            view[p].slot[s].response \in AnswersOf(s)

\* No cycle past the last one is sealed.
InBound == sealed <= LastCycle

Chained ==
    /\ TypeOK /\ InBound /\ ChainHolds /\ ViewsAnswered
    /\ \A s \in Slot : Numbered(s) /\ FoldSound(s) /\ OneAnswer(s)

\* The file of a Ledger that is alone tells the state of its slot: the last
\* dispatch, whether it is revoked, and the answer.
Retold(s) ==
    LET st == RestoreSlot(s) IN
    /\ st # Refused
    /\ st.dispatch = NoDispatch => Dispatched(s) = {}
    /\ st.dispatch # NoDispatch =>
          /\ st.dispatch \in Dispatched(s)
          /\ \A d \in Dispatched(s) : d.ordinal <= st.dispatch.ordinal
    /\ \A r \in RevokeRecord : Holds(s, r) =>
          /\ r.of \in Dispatched(s)
          /\ r.of = st.dispatch => st.revoked
    /\ st.response = NoAnswer => AnswersOf(s) = {}

AsReopened ==
    Alone => /\ \A s \in Slot : Retold(s)
             /\ \A p \in crew : Up(p) => view[p] = Restored

--------------------------------------------------------------------------------
(* What a call puts into the file.                                         *)

LEMMA FileTyped ==
    ASSUME TypeOK, NEW s \in Slot
    PROVE  /\ file[s] \in Seq(Record) /\ Len(file[s]) \in Nat
           /\ DOMAIN file[s] = 1..Len(file[s])
           /\ \A i \in DOMAIN file[s] : file[s][i] \in Record
<1>1. file[s] \in Seq(Record)
  BY DEF TypeOK
<1> QED
  BY <1>1

LEMMA RecordKinds ==
    ASSUME NEW r \in Record
    PROVE  /\ r.of \in Dispatch
           /\ r.kind \in {"dispatch", "revoke", "answer"}
           /\ r.kind = "dispatch" => r = [kind |-> "dispatch", of |-> r.of]
           /\ r.kind = "revoke" <=> r \in RevokeRecord
           /\ r.kind = "answer" <=> r \in AnswerRecord
BY DEF Record, DispatchRecord, RevokeRecord, AnswerRecord

\* A Ledger writes the record r and puts its slot into the state st.
Puts(p, s, r, st) ==
    /\ Up(p) /\ r \in Record /\ st \in SlotState
    /\ Records(p, s, r, st)

LEMMA FileGrows ==
    ASSUME TypeOK, NEW p, NEW s \in Slot, NEW r \in Record, NEW st, Puts(p, s, r, st)
    PROVE  /\ file' \in [Slot -> Seq(Record)]
           /\ Holds(s, r) => file' = file
           /\ ~Holds(s, r) =>
                 /\ file'[s] = Append(file[s], r)
                 /\ DOMAIN file'[s] = 1..(Len(file[s]) + 1)
                 /\ file'[s][Len(file[s]) + 1] = r
                 /\ \A i \in 1..Len(file[s]) : file'[s][i] = file[s][i]
           /\ \A t \in Slot : t # s => file'[t] = file[t]
<1>1. file' = [file EXCEPT ![s] = Written(s, r)] /\ file[s] \in Seq(Record)
  BY FileTyped DEF Puts, Records
<1>2. CASE Holds(s, r)
  <2>1. file' = [file EXCEPT ![s] = file[s]]
    BY <1>1, <1>2 DEF Written
  <2>2. file' = file
    BY <2>1 DEF TypeOK
  <2> QED
    BY <1>2, <2>2 DEF TypeOK
<1>3. CASE ~Holds(s, r)
  <2>1. file' = [file EXCEPT ![s] = Append(file[s], r)]
    BY <1>1, <1>3 DEF Written
  <2>2. Append(file[s], r) \in Seq(Record) /\ Len(Append(file[s], r)) = Len(file[s]) + 1
    BY <1>1
  <2>3. file' \in [Slot -> Seq(Record)] /\ file'[s] = Append(file[s], r)
        /\ \A t \in Slot : t # s => file'[t] = file[t]
    BY <2>1, <2>2 DEF TypeOK
  <2>4. DOMAIN file'[s] = 1..(Len(file[s]) + 1)
    BY <2>2, <2>3
  <2>5. file'[s][Len(file[s]) + 1] = r
        /\ \A i \in 1..Len(file[s]) : file'[s][i] = file[s][i]
    BY <1>1, <2>3
  <2> QED
    BY <1>3, <2>3, <2>4, <2>5
<1> QED
  BY <1>2, <1>3

LEMMA HoldsMore ==
    ASSUME TypeOK, NEW p, NEW s \in Slot, NEW r \in Record, NEW st, Puts(p, s, r, st)
    PROVE  /\ \A x : Holds(s, x)' <=> Holds(s, x) \/ x = r
           /\ Dispatched(s)' = IF r.kind = "dispatch" THEN Dispatched(s) \cup {r.of}
                                                      ELSE Dispatched(s)
           /\ AnswersOf(s)' = IF r.kind = "answer" THEN AnswersOf(s) \cup {r}
                                                   ELSE AnswersOf(s)
           /\ \A t \in Slot : t # s => /\ Dispatched(t)' = Dispatched(t)
                                       /\ AnswersOf(t)' = AnswersOf(t)
                                       /\ \A x : Holds(t, x)' <=> Holds(t, x)
<1>1. \A x : Holds(s, x)' <=> Holds(s, x) \/ x = r
  <2>1. CASE Holds(s, r)
    <3>1. file' = file
      BY <2>1, FileGrows
    <3> QED
      BY <2>1, <3>1 DEF Holds
  <2>2. CASE ~Holds(s, r)
    <3>1. DOMAIN file[s] = 1..Len(file[s]) /\ Len(file[s]) \in Nat
      BY FileTyped
    <3>2. 1..(Len(file[s]) + 1) = 1..Len(file[s]) \cup {Len(file[s]) + 1}
      BY <3>1
    <3>3. /\ DOMAIN file'[s] = 1..(Len(file[s]) + 1)
          /\ file'[s][Len(file[s]) + 1] = r
          /\ \A i \in 1..Len(file[s]) : file'[s][i] = file[s][i]
      BY <2>2, FileGrows
    <3> QED
      BY <3>1, <3>2, <3>3 DEF Holds
  <2> QED
    BY <2>1, <2>2
<1>2. Dispatched(s)' = IF r.kind = "dispatch" THEN Dispatched(s) \cup {r.of} ELSE Dispatched(s)
  <2>1. \A d : [kind |-> "dispatch", of |-> d] = r <=> r.kind = "dispatch" /\ r.of = d
    BY RecordKinds
  <2> QED
    BY <1>1, <2>1, RecordKinds DEF Dispatched
<1>3. AnswersOf(s)' = IF r.kind = "answer" THEN AnswersOf(s) \cup {r} ELSE AnswersOf(s)
  BY <1>1, RecordKinds DEF AnswersOf
<1>4. ASSUME NEW t \in Slot, t # s
      PROVE  /\ Dispatched(t)' = Dispatched(t)
             /\ AnswersOf(t)' = AnswersOf(t)
             /\ \A x : Holds(t, x)' <=> Holds(t, x)
  <2>1. file'[t] = file[t]
    BY <1>4, FileGrows
  <2> QED
    BY <2>1 DEF Dispatched, AnswersOf, Holds
<1> QED
  BY <1>1, <1>2, <1>3, <1>4

\* The Ledger that calls.
LEMMA Caller ==
    ASSUME TypeOK, NEW p \in crew
    PROVE  /\ p \in Process
           /\ Up(p) => view[p] \in Ledger
           /\ Up(p) => \A s \in Slot : view[p].slot[s] \in SlotState
<1>1. p \in Process
  BY CrewAssumption DEF TypeOK
<1>2. Up(p) => view[p] \in Ledger
  BY <1>1 DEF TypeOK, Up
<1> QED
  BY <1>1, <1>2 DEF Ledger

\* The calls that write a record, by its kind.
DispatchPut(p, s, d) ==
    Puts(p, s, [kind |-> "dispatch", of |-> d],
         [view[p].slot[s] EXCEPT !.dispatch = d, !.revoked = FALSE])

RevokePut(p, s, x) ==
    Puts(p, s, [kind |-> "revoke", of |-> view[p].slot[s].dispatch, reason |-> x],
         [view[p].slot[s] EXCEPT !.revoked = TRUE])

AnswerPut(p, s, a) ==
    LET r == [kind |-> "answer", of |-> view[p].slot[s].dispatch, answer |-> a]
    IN  Puts(p, s, r, [view[p].slot[s] EXCEPT !.response = r])

LEMMA CallsPut ==
    ASSUME TypeOK, NEW p \in crew, NEW s \in Slot
    PROVE  /\ \A d \in Dispatch : RegisterDispatch(p, s, d) => DispatchPut(p, s, d)
           /\ \A x \in Reason : RevokeDispatch(p, s, x) => RevokePut(p, s, x)
           /\ \A a \in Answer : Respond(p, s, a) => AnswerPut(p, s, a)
<1>1. ASSUME NEW d \in Dispatch, RegisterDispatch(p, s, d) PROVE DispatchPut(p, s, d)
  <2>1. Up(p) /\ view[p].slot[s] \in SlotState
    BY <1>1, Caller DEF RegisterDispatch
  <2>2. [view[p].slot[s] EXCEPT !.dispatch = d, !.revoked = FALSE] \in SlotState
    BY <2>1 DEF SlotState
  <2>3. [kind |-> "dispatch", of |-> d] \in Record
    BY DEF Record, DispatchRecord
  <2> QED
    BY <1>1, <2>1, <2>2, <2>3 DEF RegisterDispatch, DispatchPut, Puts
<1>2. ASSUME NEW x \in Reason, RevokeDispatch(p, s, x) PROVE RevokePut(p, s, x)
  <2>1. Up(p) /\ view[p].slot[s] \in SlotState /\ view[p].slot[s].dispatch # NoDispatch
    BY <1>2, Caller DEF RevokeDispatch, Revocable
  <2>2. [view[p].slot[s] EXCEPT !.revoked = TRUE] \in SlotState
    BY <2>1 DEF SlotState
  <2>3. view[p].slot[s].dispatch \in Dispatch
    BY <2>1 DEF SlotState
  <2>4. [kind |-> "revoke", of |-> view[p].slot[s].dispatch, reason |-> x] \in Record
    BY <2>3 DEF Record, RevokeRecord
  <2> QED
    BY <1>2, <2>1, <2>2, <2>4 DEF RevokeDispatch, RevokePut, Puts
<1>3. ASSUME NEW a \in Answer, Respond(p, s, a) PROVE AnswerPut(p, s, a)
  <2> DEFINE r == [kind |-> "answer", of |-> view[p].slot[s].dispatch, answer |-> a]
  <2>1. Up(p) /\ view[p].slot[s] \in SlotState /\ view[p].slot[s].dispatch # NoDispatch
    BY <1>3, Caller DEF Respond, Answerable
  <2>2. view[p].slot[s].dispatch \in Dispatch
    BY <2>1 DEF SlotState
  <2>3. r \in AnswerRecord /\ r \in Record
    BY <2>2 DEF Record, AnswerRecord
  <2>4. [view[p].slot[s] EXCEPT !.response = r] \in SlotState
    BY <2>1, <2>3 DEF SlotState
  <2> QED
    BY <1>3, <2>1, <2>3, <2>4 DEF Respond, AnswerPut, Puts
<1> QED
  BY <1>1, <1>2, <1>3

LEMMA Steps ==
    ASSUME TypeOK, [Next]_vars
    PROVE  \/ \E p \in crew, s \in Slot :
                 \/ \E d \in Dispatch : RegisterDispatch(p, s, d)
                 \/ \E x \in Reason : RevokeDispatch(p, s, x)
                 \/ \E a \in Answer : Respond(p, s, a)
           \/ \E p \in crew : DeclareRound(p) \/ Open(p) \/ Crash(p)
           \/ UNCHANGED <<crew, declared, file, view>>
BY DEF Next, SealCycle, CommitCycle, CompletePerception, vars, run

LEMMA RestoreGrows ==
    ASSUME TypeOK, NEW p, NEW s \in Slot, NEW r \in Record, NEW st, Puts(p, s, r, st)
    PROVE  /\ Holds(s, r) => RestoreSlot(s)' = RestoreSlot(s)
           /\ ~Holds(s, r) =>
                 RestoreSlot(s)' =
                    RestoreRow(RestoreSlot(s), {file[s][i] : i \in DOMAIN file[s]}, r)
           /\ \A t \in Slot : t # s => RestoreSlot(t)' = RestoreSlot(t)
<1>1. CASE Holds(s, r)
  <2>1. file' = file
    BY <1>1, FileGrows
  <2> QED
    BY <1>1, <2>1, RestoreIs
<1>2. CASE ~Holds(s, r)
  <2>1. file'[s] = Append(file[s], r) /\ file[s] \in Seq(Record)
    BY <1>2, FileGrows, FileTyped
  <2>2. Folded(file'[s]) = RestoreRow(Folded(file[s]), {file[s][i] : i \in DOMAIN file[s]}, r)
    BY <2>1, FoldAppend
  <2>3. \A t \in Slot : t # s => file'[t] = file[t]
    BY FileGrows
  <2> QED
    BY <1>2, <2>2, <2>3, RestoreIs
<1> QED
  BY <1>1, <1>2

--------------------------------------------------------------------------------
(* Types, and the fold.                                                    *)

LEMMA RowTyped ==
    ASSUME NEW st \in SlotState, NEW E, NEW r \in Record
    PROVE  /\ RestoreRow(st, E, r) \in SlotState
           /\ \/ RestoreRow(st, E, r).response \in {NoAnswer, st.response}
              \/ RestoreRow(st, E, r).response = r /\ r.kind = "answer"
<1>1. Refused \in SlotState /\ Refused.response = NoAnswer
  BY DEF Refused, SlotState
<1>2. CASE st = Refused
  BY <1>1, <1>2 DEF RestoreRow
<1>3. ASSUME st # Refused, r.kind = "dispatch"
      PROVE  RestoreRow(st, E, r) = RestoreDispatch(st, r.of)
  BY <1>3 DEF RestoreRow
<1>4. CASE st # Refused /\ r.kind = "dispatch"
  <2>1. RestoreDispatch(st, r.of) \in SlotState
    BY RecordKinds DEF RestoreDispatch, SlotState
  <2>2. RestoreDispatch(st, r.of).response = NoAnswer
    BY DEF RestoreDispatch
  <2> QED
    BY <1>3, <1>4, <2>1, <2>2
<1>5. ASSUME st # Refused, r.kind = "answer"
      PROVE  RestoreRow(st, E, r) \in {Refused, [st EXCEPT !.response = r]}
  BY <1>5 DEF RestoreRow
<1>6. CASE st # Refused /\ r.kind = "answer"
  <2>1. r \in AnswerRecord
    BY <1>6, RecordKinds
  <2>2. [st EXCEPT !.response = r] \in SlotState /\ [st EXCEPT !.response = r].response = r
    BY <2>1 DEF SlotState
  <2> QED
    BY <1>1, <1>5, <1>6, <2>2
<1>7. ASSUME st # Refused, r.kind = "revoke"
      PROVE  RestoreRow(st, E, r) \in {Refused, [st EXCEPT !.revoked = TRUE]}
  BY <1>7 DEF RestoreRow
<1>8. CASE st # Refused /\ r.kind = "revoke"
  <2>1. /\ [st EXCEPT !.revoked = TRUE] \in SlotState
        /\ [st EXCEPT !.revoked = TRUE].response = st.response
    BY DEF SlotState
  <2> QED
    BY <1>1, <1>7, <1>8, <2>1
<1> QED
  BY <1>2, <1>4, <1>6, <1>8, RecordKinds

LEMMA FoldSoundStep ==
    ASSUME TypeOK, \A s \in Slot : FoldSound(s), [Next]_vars
    PROVE  \A s \in Slot : FoldSound(s)'
<1>1. CASE UNCHANGED file
  <2>1. \A s \in Slot : RestoreSlot(s)' = RestoreSlot(s) /\ AnswersOf(s)' = AnswersOf(s)
    BY <1>1, RestoreIs DEF AnswersOf, Holds
  <2> QED
    BY <2>1 DEF FoldSound
<1>2. ASSUME NEW p, NEW s \in Slot, NEW r \in Record, NEW st, Puts(p, s, r, st)
      PROVE  \A t \in Slot : FoldSound(t)'
  <2>1. ASSUME NEW t \in Slot, t # s PROVE FoldSound(t)'
    <3>1. RestoreSlot(t)' = RestoreSlot(t)
      BY <1>2, <2>1, RestoreGrows
    <3>2. AnswersOf(t)' = AnswersOf(t)
      BY <1>2, <2>1, HoldsMore
    <3> QED
      BY <3>1, <3>2 DEF FoldSound
  <2>2. FoldSound(s)'
    <3>1. AnswersOf(s)' = IF r.kind = "answer" THEN AnswersOf(s) \cup {r} ELSE AnswersOf(s)
      BY <1>2, HoldsMore
    <3>2. CASE Holds(s, r)
      <4>1. RestoreSlot(s)' = RestoreSlot(s)
        BY <1>2, <3>2, RestoreGrows
      <4> QED
        BY <3>1, <4>1 DEF FoldSound
    <3>3. CASE ~Holds(s, r)
      <4> DEFINE E == {file[s][i] : i \in DOMAIN file[s]}
      <4>1. RestoreSlot(s)' = RestoreRow(RestoreSlot(s), E, r)
        BY <1>2, <3>3, RestoreGrows
      <4>2. RestoreSlot(s) \in SlotState
        BY DEF FoldSound
      <4> HIDE DEF E
      <4>3. /\ RestoreSlot(s)' \in SlotState
            /\ \/ RestoreSlot(s)'.response \in {NoAnswer, RestoreSlot(s).response}
               \/ RestoreSlot(s)'.response = r /\ r.kind = "answer"
        BY <4>1, <4>2, RowTyped
      <4> QED
        BY <3>1, <4>3 DEF FoldSound
    <3> QED
      BY <3>2, <3>3
  <2> QED
    BY <2>1, <2>2
<1>3. \A p \in crew : DeclareRound(p) \/ Open(p) \/ Crash(p) => UNCHANGED file
  BY DEF DeclareRound, Open, Crash
<1>4. ASSUME NEW p \in crew, NEW s \in Slot,
             \/ \E d \in Dispatch : RegisterDispatch(p, s, d)
             \/ \E x \in Reason : RevokeDispatch(p, s, x)
             \/ \E a \in Answer : Respond(p, s, a)
      PROVE  \E r \in Record : \E st : Puts(p, s, r, st)
  BY <1>4, CallsPut DEF DispatchPut, RevokePut, AnswerPut, Puts
<1> QED
  BY <1>1, <1>2, <1>3, <1>4, Steps

LEMMA TypeInit == Init => TypeOK /\ InBound
<1> SUFFICES ASSUME Init PROVE TypeOK /\ InBound
  OBVIOUS
<1>1. EmptySlot \in SlotState
  BY DEF EmptySlot, SlotState
<1>2. Fresh \in Ledger
  BY <1>1 DEF Fresh, Ledger
<1>3. file \in [Slot -> Seq(Record)] /\ view \in [Process -> Ledger \cup {Down}]
  BY <1>2 DEF Init
<1>4. /\ cycle \in 0..LastCycle /\ sealed \in cycle..(cycle + 1)
      /\ perceived \in 0..cycle /\ sealed <= LastCycle
  BY BoundAssumption DEF Init
<1>5. crew \in Crews /\ declared \in BOOLEAN
  BY DEF Init
<1> QED
  BY <1>3, <1>4, <1>5 DEF TypeOK, InBound

LEMMA TypeStep ==
    ASSUME TypeOK, InBound, \A s \in Slot : FoldSound(s), [Next]_vars
    PROVE  TypeOK' /\ InBound'
<1>1. ASSUME NEW p \in crew, NEW s \in Slot, NEW r \in Record, NEW st, Puts(p, s, r, st)
      PROVE  TypeOK' /\ InBound'
  <2>1. file' \in [Slot -> Seq(Record)]
    BY <1>1, FileGrows
  <2>2. view[p] \in Ledger /\ st \in SlotState
    BY <1>1, Caller DEF Puts
  <2>3. [view[p] EXCEPT !.slot[s] = st] \in Ledger
    BY <2>2 DEF Ledger
  <2>4. view' \in [Process -> Ledger \cup {Down}]
    BY <1>1, <2>3 DEF Puts, Records, TypeOK, InBound
  <2> QED
    BY <1>1, <2>1, <2>4 DEF Puts, Records, run, TypeOK, InBound
<1>2. ASSUME NEW p \in crew, DeclareRound(p) PROVE TypeOK' /\ InBound'
  <2>1. view[p] \in Ledger
    BY <1>2, Caller DEF DeclareRound
  <2>2. [view[p] EXCEPT !.round = TRUE] \in Ledger
    BY <2>1 DEF Ledger
  <2> QED
    BY <1>2, <2>2 DEF DeclareRound, run, TypeOK, InBound
<1>3. ASSUME NEW p \in crew, Open(p) PROVE TypeOK' /\ InBound'
  <2>1. [s \in Slot |-> RestoreSlot(s)] \in [Slot -> SlotState]
    BY DEF FoldSound
  <2>2. Restored \in Ledger
    BY <2>1 DEF Restored, Ledger, TypeOK
  <2> QED
    BY <1>3, <2>2 DEF Open, run, TypeOK, InBound
<1>4. ASSUME NEW p \in crew, Crash(p) PROVE TypeOK' /\ InBound'
  BY <1>4 DEF Crash, run, TypeOK, InBound
<1>5. CASE SealCycle
  BY <1>5, BoundAssumption DEF SealCycle, TypeOK, InBound
<1>6. CASE CommitCycle
  BY <1>6, BoundAssumption DEF CommitCycle, TypeOK, InBound
<1>7. CASE CompletePerception
  BY <1>7, BoundAssumption DEF CompletePerception, Unperceived, TypeOK, InBound
<1>8. CASE UNCHANGED vars
  BY <1>8 DEF vars, run, TypeOK, InBound
<1>9. ASSUME NEW p \in crew, NEW s \in Slot,
             \/ \E d \in Dispatch : RegisterDispatch(p, s, d)
             \/ \E x \in Reason : RevokeDispatch(p, s, x)
             \/ \E a \in Answer : Respond(p, s, a)
      PROVE  TypeOK' /\ InBound'
  <2>1. \E r \in Record : \E st : Puts(p, s, r, st)
    BY <1>9, CallsPut DEF DispatchPut, RevokePut, AnswerPut, Puts
  <2> QED
    BY <1>1, <2>1
<1> QED
  BY <1>2, <1>3, <1>4, <1>5, <1>6, <1>7, <1>8, <1>9 DEF Next

--------------------------------------------------------------------------------
(* The chain of dispatches.                                                *)

\* A dispatch that is new to the file extends the chain, whatever view asked.
LEMMA NumberedStep ==
    ASSUME TypeOK, \A s \in Slot : Numbered(s), [Next]_vars
    PROVE  \A s \in Slot : Numbered(s)'
<1>1. ASSUME NEW t \in Slot, Dispatched(t)' = Dispatched(t) PROVE Numbered(t)'
  BY <1>1 DEF Numbered
<1>2. CASE UNCHANGED file
  <2>1. \A t \in Slot : Dispatched(t)' = Dispatched(t)
    BY <1>2 DEF Dispatched, Holds
  <2> QED
    BY <1>1, <2>1
<1>3. ASSUME NEW p \in crew, NEW s \in Slot, NEW r \in Record, NEW st,
             Puts(p, s, r, st), r.kind # "dispatch"
      PROVE  \A t \in Slot : Numbered(t)'
  <2>1. \A t \in Slot : Dispatched(t)' = Dispatched(t)
    BY <1>3, HoldsMore
  <2> QED
    BY <1>1, <2>1
<1>4. ASSUME NEW p \in crew, NEW s \in Slot, NEW d \in Dispatch, RegisterDispatch(p, s, d)
      PROVE  \A t \in Slot : Numbered(t)'
  <2>1. DispatchPut(p, s, d)
    BY <1>4, CallsPut
  <2>2. /\ Dispatched(s)' = Dispatched(s) \cup {d}
        /\ \A t \in Slot : t # s => Dispatched(t)' = Dispatched(t)
    <3>1. [kind |-> "dispatch", of |-> d] \in Record
      BY DEF Record, DispatchRecord
    <3> QED
      BY <2>1, <3>1, HoldsMore DEF DispatchPut
  <2>3. Numbered(s)'
    <3>1. CASE d \in Dispatched(s)
      <4>1. Dispatched(s)' = Dispatched(s)
        BY <2>2, <3>1
      <4> QED
        BY <1>1, <4>1
    <3>2. CASE d \notin Dispatched(s)
      <4> DEFINE D == Dispatched(s)
                 n == Cardinality(D)
      <4>1. ChainTakes(s, d.ordinal) /\ d.ordinal \in Nat
        BY <1>4, <3>2 DEF RegisterDispatch, FileTakesDispatch, Dispatch
      <4>2. IsFiniteSet(D) /\ n \in Nat /\ {x.ordinal : x \in D} = 0..(n - 1)
        BY FS_CardinalityType DEF Numbered
      <4>3. d.ordinal = n
        <5>1. CASE d.ordinal = 0
          BY <4>1, <5>1, FS_EmptySet DEF ChainTakes
        <5>2. CASE d.ordinal # 0
          BY <4>1, <5>2 DEF ChainTakes
        <5> QED
          BY <5>1, <5>2
      <4>4. IsFiniteSet(D \cup {d}) /\ Cardinality(D \cup {d}) = n + 1
        BY <3>2, <4>2, FS_AddElement
      <4> HIDE DEF D, n
      <4>5. {x.ordinal : x \in D \cup {d}} = {x.ordinal : x \in D} \cup {d.ordinal}
        OBVIOUS
      <4>6. {x.ordinal : x \in D \cup {d}} = 0..n
        BY <4>2, <4>3, <4>5
      <4>7. Dispatched(s)' = D \cup {d} /\ (n + 1) - 1 = n
        BY <2>2, <4>2 DEF D
      <4> QED
        BY <4>4, <4>6, <4>7 DEF Numbered
    <3> QED
      BY <3>1, <3>2
  <2> QED
    BY <1>1, <2>2, <2>3
<1>5. ASSUME NEW p \in crew, NEW s \in Slot,
             \/ \E x \in Reason : RevokeDispatch(p, s, x)
             \/ \E a \in Answer : Respond(p, s, a)
      PROVE  \E r \in Record : \E st : Puts(p, s, r, st) /\ r.kind # "dispatch"
  BY <1>5, CallsPut DEF RevokePut, AnswerPut, Puts
<1>6. \A p \in crew : DeclareRound(p) \/ Open(p) \/ Crash(p) => UNCHANGED file
  BY DEF DeclareRound, Open, Crash
<1> QED
  BY <1>2, <1>3, <1>4, <1>5, <1>6, Steps

\* What ChainHolds says of the row j of q.
RowChained(q, j) ==
    q[j].kind = "dispatch" =>
        LET n == q[j].of.ordinal
            before == {q[i] : i \in 1..(j - 1)}
        IN  /\ \A r \in before : r.kind = "dispatch" => r.of.ordinal < n
            /\ n > 0 => \E r \in before : r.kind = "revoke" /\ r.of.ordinal = n - 1

LEMMA ChainIs ==
    /\ ChainHolds <=> \A s \in Slot : \A j \in DOMAIN file[s] : RowChained(file[s], j)
    /\ ChainHolds' <=> \A s \in Slot : \A j \in DOMAIN file'[s] : RowChained(file'[s], j)
BY DEF ChainHolds, RowChained

LEMMA ChainStep ==
    ASSUME TypeOK, ChainHolds, \A s \in Slot : Numbered(s), [Next]_vars
    PROVE  ChainHolds'
<1>1. CASE UNCHANGED file
  BY <1>1 DEF ChainHolds
<1>2. ASSUME NEW p \in crew, NEW s \in Slot, NEW r \in Record, NEW st,
             Puts(p, s, r, st),
             r.kind = "dispatch" /\ ~Holds(s, r) => ChainTakes(s, r.of.ordinal)
      PROVE  ChainHolds'
  <2>1. CASE Holds(s, r)
    BY <1>1, <1>2, <2>1, FileGrows
  <2>2. CASE ~Holds(s, r)
    <3> DEFINE n == Len(file[s])
    <3>1. /\ n \in Nat /\ DOMAIN file[s] = 1..n /\ DOMAIN file'[s] = 1..(n + 1)
          /\ file'[s][n + 1] = r
          /\ \A i \in 1..n : file'[s][i] = file[s][i]
          /\ \A t \in Slot : t # s => file'[t] = file[t]
      <4>1. n \in Nat /\ DOMAIN file[s] = 1..n
        BY FileTyped
      <4>2. /\ ~Holds(s, r) =>
                  /\ file'[s] = Append(file[s], r)
                  /\ DOMAIN file'[s] = 1..(Len(file[s]) + 1)
                  /\ file'[s][Len(file[s]) + 1] = r
                  /\ \A i \in 1..Len(file[s]) : file'[s][i] = file[s][i]
            /\ \A t \in Slot : t # s => file'[t] = file[t]
        BY <1>2, FileGrows
      <4> QED
        BY <2>2, <4>1, <4>2
    <3> HIDE DEF n
    <3>2. ASSUME NEW j \in 1..n PROVE RowChained(file'[s], j)
      <4>1. RowChained(file[s], j)
        BY <3>1, ChainIs
      <4>4. 1..(j - 1) \subseteq 1..n
        BY <3>1
      <4>2. file'[s][j] = file[s][j] /\ \A i \in 1..(j - 1) : file'[s][i] = file[s][i]
        BY <3>1, <4>4
      <4>3. {file'[s][i] : i \in 1..(j - 1)} = {file[s][i] : i \in 1..(j - 1)}
        BY <4>2
      <4> QED
        BY <4>1, <4>2, <4>3 DEF RowChained
    <3>3. RowChained(file'[s], n + 1)
      <4> SUFFICES ASSUME r.kind = "dispatch" PROVE RowChained(file'[s], n + 1)
        BY <3>1 DEF RowChained
      <4> DEFINE m == r.of.ordinal
                 before == {file'[s][i] : i \in 1..n}
      <4>1. ChainTakes(s, m) /\ m \in Nat /\ r.of \in Dispatch
        BY <1>2, <2>2, RecordKinds DEF Dispatch
      <4>2. \A x \in before : Holds(s, x) /\ x \in Record
        BY <3>1, FileTyped DEF Holds
      <4>3. \A x : Holds(s, x) => x \in before
        BY <3>1 DEF Holds
      <4> HIDE DEF before
      <4>4. ASSUME NEW x \in before, x.kind = "dispatch" PROVE x.of.ordinal < m
        <5>1. x.of \in Dispatched(s)
          BY <4>2, <4>4, RecordKinds DEF Dispatched
        <5>2. m # 0 /\ Cardinality(Dispatched(s)) = m
          BY <4>1, <5>1 DEF ChainTakes
        <5>3. x.of.ordinal \in 0..(m - 1)
          BY <5>1, <5>2 DEF Numbered
        <5> QED
          BY <4>1, <5>3
      <4>5. ASSUME m > 0
            PROVE  \E x \in before : x.kind = "revoke" /\ x.of.ordinal = m - 1
        <5>1. PICK d \in Dispatched(s) : d.ordinal = m - 1 /\ RevokedInFile(s, d)
          BY <4>1, <4>5 DEF ChainTakes
        <5>2. PICK y \in Reason : Holds(s, [kind |-> "revoke", of |-> d, reason |-> y])
          BY <5>1 DEF RevokedInFile
        <5>3. [kind |-> "revoke", of |-> d, reason |-> y] \in before
          BY <4>3, <5>2
        <5> QED
          BY <5>1, <5>3
      <4>6. (n + 1) - 1 = n /\ file'[s][n + 1] = r
        BY <3>1
      <4> QED
        BY <4>4, <4>5, <4>6 DEF RowChained, before
    <3>4. \A j \in DOMAIN file'[s] : RowChained(file'[s], j)
      <4>1. \A j \in 1..(n + 1) : j \in 1..n \/ j = n + 1
        BY <3>1
      <4> QED
        BY <3>1, <3>2, <3>3, <4>1
    <3>5. ASSUME NEW t \in Slot, t # s
          PROVE  \A j \in DOMAIN file'[t] : RowChained(file'[t], j)
      BY <3>1, <3>5, ChainIs
    <3> QED
      BY <3>4, <3>5, ChainIs
  <2> QED
    BY <2>1, <2>2
<1>3. ASSUME NEW p \in crew, NEW s \in Slot, NEW d \in Dispatch, RegisterDispatch(p, s, d)
      PROVE  ChainHolds'
  <2> DEFINE r == [kind |-> "dispatch", of |-> d]
  <2>1. r \in Record /\ r.kind = "dispatch" /\ r.of = d
    BY DEF Record, DispatchRecord
  <2>2. ~Holds(s, r) => ChainTakes(s, d.ordinal)
    BY <1>3 DEF RegisterDispatch, FileTakesDispatch, Dispatched
  <2>3. DispatchPut(p, s, d)
    BY <1>3, CallsPut
  <2> QED
    BY <1>2, <2>1, <2>2, <2>3 DEF DispatchPut
<1>4. ASSUME NEW p \in crew, NEW s \in Slot,
             \/ \E x \in Reason : RevokeDispatch(p, s, x)
             \/ \E a \in Answer : Respond(p, s, a)
      PROVE  \E r \in Record : \E st : Puts(p, s, r, st) /\ r.kind # "dispatch"
  BY <1>4, CallsPut DEF RevokePut, AnswerPut, Puts
<1>5. \A p \in crew : DeclareRound(p) \/ Open(p) \/ Crash(p) => UNCHANGED file
  BY DEF DeclareRound, Open, Crash
<1> QED
  BY <1>1, <1>2, <1>3, <1>4, <1>5, Steps

--------------------------------------------------------------------------------
(* The answers.                                                            *)

\* What a call does to the views.
LEMMA ViewMoves ==
    ASSUME TypeOK, NEW p \in crew, NEW s \in Slot, NEW r \in Record, NEW st,
           Puts(p, s, r, st)
    PROVE  /\ view'[p].slot[s] = st
           /\ \A t \in Slot : t # s => view'[p].slot[t] = view[p].slot[t]
           /\ \A q \in Process : q # p => view'[q] = view[q]
<1>1. view[p] \in Ledger /\ p \in Process
  BY Caller DEF Puts
<1>2. view' = [view EXCEPT ![p].slot[s] = st]
  BY DEF Puts, Records
<1>3. view'[p] = [view[p] EXCEPT !.slot[s] = st] /\ \A q \in Process : q # p => view'[q] = view[q]
  BY <1>1, <1>2 DEF TypeOK
<1> QED
  BY <1>1, <1>3 DEF Ledger

LEMMA AnswersStep ==
    ASSUME TypeOK, ViewsAnswered, \A s \in Slot : FoldSound(s) /\ OneAnswer(s), [Next]_vars
    PROVE  ViewsAnswered' /\ \A s \in Slot : OneAnswer(s)'
<1>1. ASSUME UNCHANGED file,
             UNCHANGED view \/ \E p \in crew : DeclareRound(p) \/ Open(p) \/ Crash(p)
      PROVE  ViewsAnswered' /\ \A s \in Slot : OneAnswer(s)'
  <2>1. \A s \in Slot : AnswersOf(s)' = AnswersOf(s) /\ OneAnswer(s)'
    BY <1>1 DEF AnswersOf, Holds, OneAnswer
  <2>2. CASE UNCHANGED view
    BY <2>1, <2>2 DEF ViewsAnswered, Up
  <2>3. ASSUME NEW p \in crew, DeclareRound(p) PROVE ViewsAnswered'
    <3>1. p \in Process /\ view[p] \in Ledger /\ Up(p)
      BY <2>3, Caller DEF DeclareRound
    <3>2. view'[p].slot = view[p].slot /\ \A q \in Process : q # p => view'[q] = view[q]
      BY <2>3, <3>1 DEF DeclareRound, TypeOK, Ledger
    <3> QED
      BY <2>1, <3>1, <3>2 DEF ViewsAnswered, Up
  <2>4. ASSUME NEW p \in crew, Open(p) PROVE ViewsAnswered'
    <3>1. p \in Process
      BY Caller
    <3>2. view'[p] = Restored /\ \A q \in Process : q # p => view'[q] = view[q]
      BY <2>4, <3>1 DEF Open, TypeOK
    <3>3. \A s \in Slot : view'[p].slot[s] = RestoreSlot(s)
      BY <3>2 DEF Restored
    <3> QED
      BY <2>1, <3>2, <3>3 DEF ViewsAnswered, FoldSound, Up
  <2>5. ASSUME NEW p \in crew, Crash(p) PROVE ViewsAnswered'
    <3>1. p \in Process
      BY Caller
    <3>2. view'[p] = Down /\ \A q \in Process : q # p => view'[q] = view[q]
      BY <2>5, <3>1 DEF Crash, TypeOK
    <3> QED
      BY <2>1, <3>2 DEF ViewsAnswered, Up
  <2> QED
    BY <1>1, <2>1, <2>2, <2>3, <2>4, <2>5
<1>2. ASSUME NEW p \in crew, NEW s \in Slot, NEW r \in Record, NEW st, Puts(p, s, r, st),
             IF r.kind = "answer" THEN AnswersOf(s) \subseteq {r} /\ st.response = r
                                  ELSE st.response = view[p].slot[s].response
      PROVE  ViewsAnswered' /\ \A t \in Slot : OneAnswer(t)'
  <2>1. p \in Process /\ Up(p)
    BY <1>2, Caller DEF Puts
  <2>2. Puts(p, s, r, st)
    BY <1>2
  <2>3. /\ view'[p].slot[s] = st
        /\ \A t \in Slot : t # s => view'[p].slot[t] = view[p].slot[t]
        /\ \A q \in Process : q # p => view'[q] = view[q]
    BY <2>2, ViewMoves
  <2>4. /\ AnswersOf(s)' = IF r.kind = "answer" THEN AnswersOf(s) \cup {r} ELSE AnswersOf(s)
        /\ \A t \in Slot : t # s => AnswersOf(t)' = AnswersOf(t)
    BY <2>2, HoldsMore
  <2>5. \A t \in Slot : OneAnswer(t)'
    <3>1. OneAnswer(s)'
      BY <1>2, <2>4 DEF OneAnswer
    <3>2. \A t \in Slot : t # s => OneAnswer(t)'
      BY <2>4 DEF OneAnswer
    <3> QED
      BY <3>1, <3>2
  <2>6. ASSUME NEW q \in Process, NEW t \in Slot, Up(q)', view'[q].slot[t].response # NoAnswer
        PROVE  view'[q].slot[t].response \in AnswersOf(t)'
    <3>1. CASE q = p /\ t = s
      BY <1>2, <2>1, <2>3, <2>4, <2>6, <3>1 DEF ViewsAnswered
    <3>2. CASE q = p /\ t # s
      BY <2>1, <2>3, <2>4, <2>6, <3>2 DEF ViewsAnswered
    <3>3. CASE q # p
      <4>1. Up(q) /\ view'[q] = view[q]
        BY <2>3, <2>6, <3>3 DEF Up
      <4> QED
        BY <2>4, <2>6, <4>1 DEF ViewsAnswered
    <3> QED
      BY <3>1, <3>2, <3>3
  <2> QED
    BY <2>5, <2>6 DEF ViewsAnswered
<1>3. ASSUME NEW p \in crew, NEW s \in Slot, NEW d \in Dispatch, RegisterDispatch(p, s, d)
      PROVE  ViewsAnswered' /\ \A t \in Slot : OneAnswer(t)'
  <2>1. DispatchPut(p, s, d) /\ view[p].slot[s] \in SlotState
    BY <1>3, CallsPut, Caller DEF RegisterDispatch
  <2> DEFINE r == [kind |-> "dispatch", of |-> d]
             st == [view[p].slot[s] EXCEPT !.dispatch = d, !.revoked = FALSE]
  <2>2. Puts(p, s, r, st) /\ r \in Record
    BY <2>1 DEF DispatchPut, Puts
  <2>3. st.response = view[p].slot[s].response /\ r.kind # "answer"
    BY <2>1 DEF SlotState
  <2> HIDE DEF r, st
  <2> QED
    BY <1>2, <2>2, <2>3
<1>4. ASSUME NEW p \in crew, NEW s \in Slot, NEW x \in Reason, RevokeDispatch(p, s, x)
      PROVE  ViewsAnswered' /\ \A t \in Slot : OneAnswer(t)'
  <2>1. RevokePut(p, s, x) /\ view[p].slot[s] \in SlotState
    BY <1>4, CallsPut, Caller DEF RevokeDispatch
  <2> DEFINE r == [kind |-> "revoke", of |-> view[p].slot[s].dispatch, reason |-> x]
             st == [view[p].slot[s] EXCEPT !.revoked = TRUE]
  <2>2. Puts(p, s, r, st) /\ r \in Record
    BY <2>1 DEF RevokePut, Puts
  <2>3. st.response = view[p].slot[s].response /\ r.kind # "answer"
    BY <2>1 DEF SlotState
  <2> HIDE DEF r, st
  <2> QED
    BY <1>2, <2>2, <2>3
<1>5. ASSUME NEW p \in crew, NEW s \in Slot, NEW a \in Answer, Respond(p, s, a)
      PROVE  ViewsAnswered' /\ \A t \in Slot : OneAnswer(t)'
  <2>1. AnswerPut(p, s, a) /\ view[p].slot[s] \in SlotState
    BY <1>5, CallsPut, Caller DEF Respond
  <2> DEFINE r == [kind |-> "answer", of |-> view[p].slot[s].dispatch, answer |-> a]
             st == [view[p].slot[s] EXCEPT !.response = r]
  <2>2. Puts(p, s, r, st) /\ r \in Record
    BY <2>1 DEF AnswerPut, Puts
  <2>3. st.response = r /\ r.kind = "answer" /\ AnswersOf(s) \subseteq {r}
    BY <1>5, <2>1 DEF SlotState, Respond, WinsSlot
  <2> HIDE DEF r, st
  <2> QED
    BY <1>2, <2>2, <2>3
<1>6. \A p \in crew : DeclareRound(p) \/ Open(p) \/ Crash(p) => UNCHANGED file
  BY DEF DeclareRound, Open, Crash
<1> QED
  BY <1>1, <1>3, <1>4, <1>5, <1>6, Steps

--------------------------------------------------------------------------------
(* A Ledger alone on its file.                                             *)

LEMMA AloneIs ==
    ASSUME TypeOK, Alone
    PROVE  \E p : crew = {p}
BY CrewAssumption, FS_Singleton DEF TypeOK, Alone

LEMMA NoSuchDispatch == NoDispatch \notin Dispatch
BY BoundAssumption DEF NoDispatch, Dispatch

\* What one accepted row does to the state of its slot.
LEMMA DispatchRow ==
    ASSUME NEW st \in SlotState, st # Refused, NEW E, NEW d
    PROVE  RestoreRow(st, E, [kind |-> "dispatch", of |-> d]) =
              [dispatch |-> d, revoked |-> FALSE, response |-> NoAnswer]
BY DEF RestoreRow, RestoreDispatch

LEMMA RevokeRow ==
    ASSUME NEW st \in SlotState, st # Refused, NEW E, NEW x
    PROVE  RestoreRow(st, E, [kind |-> "revoke", of |-> st.dispatch, reason |-> x]) =
              [st EXCEPT !.revoked = TRUE]
BY DEF RestoreRow

LEMMA AnswerRow ==
    ASSUME NEW st \in SlotState, st # Refused, NEW E, NEW r, r.kind = "answer",
           [kind |-> "dispatch", of |-> r.of] \in E
    PROVE  RestoreRow(st, E, r) = [st EXCEPT !.response = r]
BY DEF RestoreRow

\* The state a Ledger that is alone holds of a slot.
LEMMA AloneHolds ==
    ASSUME TypeOK, \A s \in Slot : FoldSound(s), AsReopened, Alone,
           NEW p \in crew, Up(p), NEW s \in Slot
    PROVE  /\ view[p].slot[s] = RestoreSlot(s)
           /\ Retold(s)
           /\ RestoreSlot(s) \in SlotState
<1>1. view[p] = Restored /\ Retold(s)
  BY DEF AsReopened
<1>2. view[p].slot[s] = RestoreSlot(s)
  BY <1>1 DEF Restored
<1>3. RestoreSlot(s) \in SlotState
  BY DEF FoldSound
<1> QED
  BY <1>1, <1>2, <1>3

\* The state of a slot from its parts, and the retelling of it.
RetoldAs(s, st) ==
    /\ st # Refused
    /\ st.dispatch = NoDispatch => Dispatched(s) = {}
    /\ st.dispatch # NoDispatch =>
          /\ st.dispatch \in Dispatched(s)
          /\ \A d \in Dispatched(s) : d.ordinal <= st.dispatch.ordinal
    /\ \A r \in RevokeRecord : Holds(s, r) =>
          /\ r.of \in Dispatched(s)
          /\ r.of = st.dispatch => st.revoked
    /\ st.response = NoAnswer => AnswersOf(s) = {}

LEMMA RetoldIs ==
    /\ \A s : Retold(s) <=> RetoldAs(s, RestoreSlot(s))
    /\ \A s : Retold(s)' <=> RetoldAs(s, RestoreSlot(s))'
BY DEF Retold, RetoldAs

LEMMA DispatchRetold ==
    ASSUME TypeOK, \A s \in Slot : FoldSound(s), AsReopened, Alone,
           NEW p \in crew, NEW s \in Slot, NEW d \in Dispatch, RegisterDispatch(p, s, d)
    PROVE  /\ RestoreSlot(s)' = [view[p].slot[s] EXCEPT !.dispatch = d, !.revoked = FALSE]
           /\ RetoldAs(s, RestoreSlot(s))'
<1> DEFINE cur == RestoreSlot(s)
           r   == [kind |-> "dispatch", of |-> d]
           new == [dispatch |-> d, revoked |-> FALSE, response |-> NoAnswer]
           E   == {file[s][i] : i \in DOMAIN file[s]}
<1>1. Up(p) /\ view[p].slot[s] = cur /\ RetoldAs(s, cur) /\ cur \in SlotState
  BY AloneHolds, RetoldIs DEF RegisterDispatch
<1>2. /\ cur.response = NoAnswer
      /\ IF cur.dispatch = NoDispatch THEN d.ordinal = 0
         ELSE cur.revoked /\ d.ordinal = cur.dispatch.ordinal + 1
  BY <1>1 DEF RegisterDispatch, ViewTakesDispatch
<1>3. DispatchPut(p, s, d) /\ r \in Record
  BY CallsPut DEF Record, DispatchRecord
<1> HIDE DEF cur
<1>4. \A x \in Dispatched(s) : x.ordinal < d.ordinal
  <2>1. \A x \in Dispatched(s) : x \in Dispatch /\ x.ordinal \in Nat
    BY DEF Dispatched, Dispatch
  <2> QED
    BY <1>1, <1>2, <2>1 DEF RetoldAs
<1>5. d \notin Dispatched(s) /\ ~Holds(s, r) /\ d.ordinal \in Nat
  BY <1>4 DEF Dispatched, Dispatch
<1>6. RestoreSlot(s)' = new
  <2>1. RestoreSlot(s)' = RestoreRow(cur, E, r)
    BY <1>3, <1>5, RestoreGrows DEF DispatchPut, cur
  <2>2. cur # Refused
    BY <1>1 DEF RetoldAs
  <2> HIDE DEF E
  <2>3. RestoreRow(cur, E, r) = new
    BY <1>1, <2>2, DispatchRow
  <2> QED
    BY <2>1, <2>3
<1>7. new = [cur EXCEPT !.dispatch = d, !.revoked = FALSE]
  <2> DEFINE put == [cur EXCEPT !.dispatch = d, !.revoked = FALSE]
  <2>1. put \in SlotState /\ put.dispatch = d /\ put.revoked = FALSE /\ put.response = NoAnswer
    BY <1>1, <1>2 DEF SlotState
  <2>2. new \in SlotState
    BY DEF SlotState
  <2> HIDE DEF put
  <2>3. put = new
    BY <2>1, <2>2 DEF SlotState
  <2> QED
    BY <2>3 DEF put
<1>8. /\ Dispatched(s)' = Dispatched(s) \cup {d}
      /\ AnswersOf(s)' = AnswersOf(s)
      /\ \A x : Holds(s, x)' <=> Holds(s, x) \/ x = r
  BY <1>3, HoldsMore DEF DispatchPut
<1>9. RetoldAs(s, RestoreSlot(s))'
  <2>1. new # Refused /\ d # NoDispatch
    BY NoSuchDispatch DEF Refused
  <2>2. \A x \in Dispatched(s)' : x.ordinal <= d.ordinal
    <3>1. \A x \in Dispatched(s) : x.ordinal \in Nat
      BY DEF Dispatched, Dispatch
    <3> QED
      BY <1>4, <1>5, <1>8, <3>1
  <2>3. ASSUME NEW x \in RevokeRecord, Holds(s, x)'
        PROVE  x.of \in Dispatched(s) /\ x.of # d
    <3>1. x # r
      BY DEF RevokeRecord
    <3> QED
      BY <1>1, <1>5, <1>8, <2>3, <3>1 DEF RetoldAs
  <2>4. AnswersOf(s)' = {}
    BY <1>1, <1>2, <1>8 DEF RetoldAs
  <2>5. RestoreSlot(s)'.dispatch = d /\ RestoreSlot(s)' # Refused
    BY <1>6, <2>1
  <2> HIDE DEF new
  <2> QED
    BY <1>8, <2>1, <2>2, <2>3, <2>4, <2>5 DEF RetoldAs
<1> QED
  BY <1>1, <1>6, <1>7, <1>9

LEMMA RevokeRetold ==
    ASSUME TypeOK, \A s \in Slot : FoldSound(s), AsReopened, Alone,
           NEW p \in crew, NEW s \in Slot, NEW y \in Reason, RevokeDispatch(p, s, y)
    PROVE  /\ RestoreSlot(s)' = [view[p].slot[s] EXCEPT !.revoked = TRUE]
           /\ RetoldAs(s, RestoreSlot(s))'
<1> DEFINE cur == RestoreSlot(s)
           r   == [kind |-> "revoke", of |-> cur.dispatch, reason |-> y]
           new == [cur EXCEPT !.revoked = TRUE]
           E   == {file[s][i] : i \in DOMAIN file[s]}
<1>1. Up(p) /\ view[p].slot[s] = cur /\ RetoldAs(s, cur) /\ cur \in SlotState
  BY AloneHolds, RetoldIs DEF RevokeDispatch
<1>2. cur.dispatch # NoDispatch /\ ~cur.revoked /\ cur.response = NoAnswer
  BY <1>1 DEF RevokeDispatch, Revocable
<1>3. RevokePut(p, s, y)
  BY CallsPut
<1>4. Puts(p, s, r, new)
  BY <1>1, <1>3 DEF RevokePut
<1> HIDE DEF cur
<1>5. r \in Record /\ r \in RevokeRecord
  <2>1. cur.dispatch \in Dispatch
    BY <1>1, <1>2 DEF SlotState
  <2> QED
    BY <2>1 DEF Record, RevokeRecord
<1>6. ~Holds(s, r)
  BY <1>1, <1>2, <1>5 DEF RetoldAs
<1>7. RestoreSlot(s)' = new
  <2>1. RestoreSlot(s)' = RestoreRow(cur, E, r)
    BY <1>4, <1>5, <1>6, RestoreGrows DEF cur
  <2>2. cur # Refused
    BY <1>1 DEF RetoldAs
  <2> HIDE DEF E
  <2>3. RestoreRow(cur, E, r) = new
    BY <1>1, <2>2, RevokeRow
  <2> QED
    BY <2>1, <2>3
<1>8. /\ Dispatched(s)' = Dispatched(s)
      /\ AnswersOf(s)' = AnswersOf(s)
      /\ \A x : Holds(s, x)' <=> Holds(s, x) \/ x = r
  <2>1. r.kind = "revoke"
    OBVIOUS
  <2> HIDE DEF new, r
  <2> QED
    BY <1>4, <1>5, <2>1, HoldsMore
<1>9. new.dispatch = cur.dispatch /\ new.revoked = TRUE /\ new.response = cur.response
      /\ new # Refused
  BY <1>1, <1>2 DEF SlotState, Refused
<1>10. RetoldAs(s, RestoreSlot(s))'
  <2> HIDE DEF new
  <2>1. \A x \in RevokeRecord : Holds(s, x)' => x.of \in Dispatched(s)
    BY <1>1, <1>2, <1>8 DEF RetoldAs
  <2> QED
    BY <1>1, <1>2, <1>7, <1>8, <1>9, <2>1 DEF RetoldAs
<1> QED
  BY <1>1, <1>7, <1>10

LEMMA AnswerRetold ==
    ASSUME TypeOK, \A s \in Slot : FoldSound(s), AsReopened, Alone,
           NEW p \in crew, NEW s \in Slot, NEW a \in Answer, Respond(p, s, a)
    PROVE  /\ RestoreSlot(s)' = [view[p].slot[s] EXCEPT !.response =
                [kind |-> "answer", of |-> view[p].slot[s].dispatch, answer |-> a]]
           /\ RetoldAs(s, RestoreSlot(s))'
<1> DEFINE cur == RestoreSlot(s)
           r   == [kind |-> "answer", of |-> cur.dispatch, answer |-> a]
           new == [cur EXCEPT !.response = r]
           E   == {file[s][i] : i \in DOMAIN file[s]}
<1>1. Up(p) /\ view[p].slot[s] = cur /\ RetoldAs(s, cur) /\ cur \in SlotState
  BY AloneHolds, RetoldIs DEF Respond
<1>2. cur.dispatch # NoDispatch /\ ~cur.revoked /\ cur.response = NoAnswer
  BY <1>1 DEF Respond, Answerable
<1>3. AnswerPut(p, s, a)
  BY CallsPut
<1>4. Puts(p, s, r, new)
  BY <1>1, <1>3 DEF AnswerPut
<1> HIDE DEF cur
<1>5. r \in Record /\ r \in AnswerRecord /\ r \notin RevokeRecord
  <2>1. cur.dispatch \in Dispatch
    BY <1>1, <1>2 DEF SlotState
  <2> QED
    BY <2>1 DEF Record, AnswerRecord, RevokeRecord
<1>6. ~Holds(s, r)
  BY <1>1, <1>2, <1>5 DEF RetoldAs, AnswersOf
<1>7. RestoreSlot(s)' = new
  <2>1. RestoreSlot(s)' = RestoreRow(cur, E, r)
    BY <1>4, <1>5, <1>6, RestoreGrows DEF cur
  <2>2. cur # Refused
    BY <1>1 DEF RetoldAs
  <2>3. [kind |-> "dispatch", of |-> r.of] \in E
    BY <1>1, <1>2 DEF RetoldAs, Dispatched, Holds
  <2>5. r.kind = "answer"
    OBVIOUS
  <2> HIDE DEF E, r
  <2>4. RestoreRow(cur, E, r) = new
    BY <1>1, <2>2, <2>3, <2>5, AnswerRow
  <2> QED
    BY <2>1, <2>4
<1>8. /\ Dispatched(s)' = Dispatched(s)
      /\ \A x : Holds(s, x)' <=> Holds(s, x) \/ x = r
  <2>1. r.kind # "dispatch"
    OBVIOUS
  <2> HIDE DEF r, new
  <2> QED
    BY <1>4, <1>5, <2>1, HoldsMore
<1>9. new.dispatch = cur.dispatch /\ new.revoked = cur.revoked /\ new.response = r
      /\ r # NoAnswer /\ new # Refused
  BY <1>1, <1>2 DEF SlotState, Refused, NoAnswer
<1>10. RetoldAs(s, RestoreSlot(s))'
  <2> HIDE DEF new, r
  <2>1. \A x \in RevokeRecord : Holds(s, x)' => Holds(s, x)
    BY <1>5, <1>8
  <2> QED
    BY <1>1, <1>2, <1>7, <1>8, <1>9, <2>1 DEF RetoldAs
<1> QED
  BY <1>1, <1>7, <1>10

\* A call of the Ledger that is alone leaves it as a reopened one.
LEMMA PutReopens ==
    ASSUME TypeOK, TypeOK', \A t \in Slot : FoldSound(t) /\ FoldSound(t)',
           AsReopened, Alone, NEW p \in crew, NEW s \in Slot, NEW r \in Record, NEW st,
           Puts(p, s, r, st), RestoreSlot(s)' = st, RetoldAs(s, RestoreSlot(s))'
    PROVE  AsReopened'
<1>1. /\ crew' = crew /\ crew = {p} /\ Up(p) /\ p \in Process
      /\ declared' = declared
  <2>1. \E x : crew = {x}
    BY AloneIs
  <2> QED
    BY <2>1, Caller DEF Puts, Records, run
<1>2. \A t \in Slot : Retold(t)'
  <2>1. ASSUME NEW t \in Slot, t # s PROVE Retold(t)'
    <3>1. RestoreSlot(t)' = RestoreSlot(t)
      BY <2>1, RestoreGrows
    <3>2. /\ Dispatched(t)' = Dispatched(t) /\ AnswersOf(t)' = AnswersOf(t)
          /\ \A x : Holds(t, x)' <=> Holds(t, x)
      BY <2>1, HoldsMore
    <3>3. Retold(t)
      BY DEF AsReopened
    <3> QED
      BY <3>1, <3>2, <3>3 DEF Retold
  <2> QED
    BY <2>1, RetoldIs
<1>3. view[p] = Restored
  BY <1>1 DEF AsReopened
<1>4. view'[p] = Restored'
  <2>1. view'[p].round = declared'
    <3>1. view' = [view EXCEPT ![p].slot[s] = st]
      BY DEF Puts, Records
    <3>2. view'[p].round = view[p].round
      BY <1>1, <3>1, Caller DEF TypeOK, Ledger
    <3> QED
      BY <1>1, <1>3, <3>2 DEF Restored
  <2>2. ASSUME NEW t \in Slot PROVE view'[p].slot[t] = RestoreSlot(t)'
    <3>1. CASE t = s
      <4>1. view'[p].slot[s] = st
        BY ViewMoves
      <4> QED
        BY <3>1, <4>1
    <3>2. CASE t # s
      <4>1. view'[p].slot[t] = view[p].slot[t]
        BY <3>2, ViewMoves
      <4>2. RestoreSlot(t)' = RestoreSlot(t)
        BY <3>2, RestoreGrows
      <4>3. view[p].slot[t] = RestoreSlot(t)
        BY <1>3 DEF Restored
      <4> QED
        BY <4>1, <4>2, <4>3
    <3> QED
      BY <3>1, <3>2
  <2>3. view'[p] \in Ledger
    <3>1. view' = [view EXCEPT ![p].slot[s] = st]
      BY DEF Puts, Records
    <3>2. view[p] \in Ledger /\ st \in SlotState
      BY <1>1, Caller DEF Puts
    <3> QED
      BY <1>1, <3>1, <3>2 DEF TypeOK, Ledger
  <2>4. view'[p] = [round |-> view'[p].round, slot |-> view'[p].slot]
        /\ view'[p].slot = [t \in Slot |-> view'[p].slot[t]]
    BY <2>3 DEF Ledger
  <2>5. view'[p].slot = [t \in Slot |-> RestoreSlot(t)']
    BY <2>2, <2>4
  <2> QED
    BY <2>1, <2>4, <2>5 DEF Restored
<1> QED
  BY <1>1, <1>2, <1>4 DEF AsReopened

LEMMA AsReopenedInit == Init => AsReopened
<1> SUFFICES ASSUME Init PROVE AsReopened
  OBVIOUS
<1>1. \A s \in Slot : RestoreSlot(s) = EmptySlot
  BY RestoreIs, FoldEmpty DEF Init
<1>2. \A s \in Slot : Dispatched(s) = {} /\ AnswersOf(s) = {} /\ \A x : ~Holds(s, x)
  BY DEF Init, Dispatched, AnswersOf, Holds
<1>3. EmptySlot # Refused
  BY DEF EmptySlot, Refused
<1>4. \A s \in Slot : Retold(s)
  BY <1>1, <1>2, <1>3 DEF Retold, EmptySlot
<1>5. \A p \in crew : view[p] = Restored
  <2>1. \A p \in crew : p \in Process
    BY CrewAssumption DEF Init
  <2>2. \A p \in crew : view[p] = Fresh
    BY <2>1 DEF Init
  <2> QED
    BY <1>1, <2>2 DEF Restored, Fresh, Init
<1> QED
  BY <1>4, <1>5 DEF AsReopened

\* Nobody joins or leaves the crew.
LEMMA CrewStands == ASSUME TypeOK, [Next]_vars PROVE crew' = crew
<1>1. ASSUME NEW p \in crew, DeclareRound(p) \/ Open(p) \/ Crash(p)
      PROVE  crew' = crew
  BY <1>1 DEF DeclareRound, Open, Crash, run
<1>2. ASSUME NEW p \in crew, NEW s \in Slot,
             \/ \E d \in Dispatch : RegisterDispatch(p, s, d)
             \/ \E x \in Reason : RevokeDispatch(p, s, x)
             \/ \E a \in Answer : Respond(p, s, a)
      PROVE  crew' = crew
  <2>1. \A r, st : Records(p, s, r, st) => crew' = crew
    BY DEF Records, run
  <2> QED
    BY <1>2, <2>1 DEF RegisterDispatch, RevokeDispatch, Respond
<1> QED
  BY <1>1, <1>2, Steps

LEMMA AsReopenedStep ==
    ASSUME TypeOK, TypeOK', \A t \in Slot : FoldSound(t) /\ FoldSound(t)',
           AsReopened, [Next]_vars
    PROVE  AsReopened'
<1>1. crew' = crew /\ (Alone' <=> Alone)
  <2>1. crew' = crew
    BY CrewStands
  <2> QED
    BY <2>1 DEF Alone
<1> SUFFICES ASSUME Alone PROVE AsReopened'
  BY <1>1 DEF AsReopened
<1>2. ASSUME UNCHANGED file PROVE \A s \in Slot : Retold(s)' /\ RestoreSlot(s)' = RestoreSlot(s)
  <2>1. \A s \in Slot : RestoreSlot(s)' = RestoreSlot(s)
    BY <1>2, RestoreIs
  <2>2. \A s \in Slot : /\ Dispatched(s)' = Dispatched(s) /\ AnswersOf(s)' = AnswersOf(s)
                        /\ \A x : Holds(s, x)' <=> Holds(s, x)
    BY <1>2 DEF Dispatched, AnswersOf, Holds
  <2> QED
    BY <2>1, <2>2 DEF AsReopened, Retold
<1>3. CASE UNCHANGED <<crew, declared, file, view>>
  <2>1. Restored' = Restored
    BY <1>2, <1>3 DEF Restored
  <2> QED
    BY <1>2, <1>3, <2>1 DEF AsReopened, Up
<1>4. ASSUME NEW p \in crew, DeclareRound(p) \/ Open(p) \/ Crash(p) PROVE AsReopened'
  <2>1. UNCHANGED file /\ crew = {p} /\ p \in Process
    <3>1. \E x : crew = {x}
      BY AloneIs
    <3> QED
      BY <1>4, <3>1, Caller DEF DeclareRound, Open, Crash
  <2>2. CASE DeclareRound(p)
    <3>1. view'[p] = [view[p] EXCEPT !.round = TRUE] /\ declared' = TRUE
      BY <2>1, <2>2 DEF DeclareRound, TypeOK
    <3>2. view[p] = Restored
      BY <2>2 DEF AsReopened, DeclareRound
    <3>3. view'[p] = [round |-> TRUE, slot |-> [s \in Slot |-> RestoreSlot(s)]]
      <4> DEFINE f == [s \in Slot |-> RestoreSlot(s)]
      <4>1. view[p] = [round |-> declared, slot |-> f]
        BY <3>2 DEF Restored
      <4> HIDE DEF f
      <4>2. view[p] \in Ledger /\ view[p].slot = f
        BY <2>2, <4>1, Caller DEF DeclareRound
      <4>3. /\ view'[p] \in Ledger
            /\ view'[p].round = TRUE /\ view'[p].slot = view[p].slot
        BY <3>1, <4>2 DEF Ledger
      <4>5. view'[p] = [round |-> view'[p].round, slot |-> view'[p].slot]
        BY <4>3 DEF Ledger
      <4>4. view'[p] = [round |-> TRUE, slot |-> f]
        BY <4>2, <4>3, <4>5
      <4> QED
        BY <4>4 DEF f
    <3>4. view'[p] = Restored'
      BY <1>2, <2>1, <3>1, <3>3 DEF Restored
    <3> QED
      BY <1>1, <1>2, <2>1, <3>4 DEF AsReopened
  <2>3. CASE Open(p)
    <3>1. view'[p] = Restored /\ declared' = declared
      BY <2>1, <2>3 DEF Open, TypeOK
    <3>2. Restored' = Restored
      BY <1>2, <2>1, <3>1 DEF Restored
    <3> QED
      BY <1>1, <1>2, <2>1, <3>1, <3>2 DEF AsReopened
  <2>4. CASE Crash(p)
    <3>1. ~Up(p)'
      BY <2>1, <2>4 DEF Crash, Up, TypeOK
    <3> QED
      BY <1>1, <1>2, <2>1, <3>1 DEF AsReopened
  <2> QED
    BY <1>4, <2>2, <2>3, <2>4
<1>5. ASSUME NEW p \in crew, NEW s \in Slot, NEW d \in Dispatch, RegisterDispatch(p, s, d)
      PROVE  AsReopened'
  <2> DEFINE r  == [kind |-> "dispatch", of |-> d]
             st == [view[p].slot[s] EXCEPT !.dispatch = d, !.revoked = FALSE]
  <2>1. Puts(p, s, r, st) /\ r \in Record
    BY <1>5, CallsPut DEF DispatchPut, Puts
  <2>2. RestoreSlot(s)' = st /\ RetoldAs(s, RestoreSlot(s))'
    BY <1>5, DispatchRetold
  <2> HIDE DEF r, st
  <2> QED
    BY <2>1, <2>2, PutReopens
<1>6. ASSUME NEW p \in crew, NEW s \in Slot, NEW x \in Reason, RevokeDispatch(p, s, x)
      PROVE  AsReopened'
  <2> DEFINE r  == [kind |-> "revoke", of |-> view[p].slot[s].dispatch, reason |-> x]
             st == [view[p].slot[s] EXCEPT !.revoked = TRUE]
  <2>1. Puts(p, s, r, st) /\ r \in Record
    BY <1>6, CallsPut DEF RevokePut, Puts
  <2>2. RestoreSlot(s)' = st /\ RetoldAs(s, RestoreSlot(s))'
    BY <1>6, RevokeRetold
  <2> HIDE DEF r, st
  <2> QED
    BY <2>1, <2>2, PutReopens
<1>7. ASSUME NEW p \in crew, NEW s \in Slot, NEW a \in Answer, Respond(p, s, a)
      PROVE  AsReopened'
  <2> DEFINE r  == [kind |-> "answer", of |-> view[p].slot[s].dispatch, answer |-> a]
             st == [view[p].slot[s] EXCEPT !.response = r]
  <2>1. Puts(p, s, r, st) /\ r \in Record
    BY <1>7, CallsPut DEF AnswerPut, Puts
  <2>2. RestoreSlot(s)' = st /\ RetoldAs(s, RestoreSlot(s))'
    BY <1>7, AnswerRetold
  <2> HIDE DEF r, st
  <2> QED
    BY <2>1, <2>2, PutReopens
<1> QED
  BY <1>3, <1>4, <1>5, <1>6, <1>7, Steps

--------------------------------------------------------------------------------
(* The theorems.                                                           *)

Reopened == Chained /\ AsReopened

LEMMA ReopenedInit == Init => Reopened
<1> SUFFICES ASSUME Init PROVE Reopened
  OBVIOUS
<1>1. TypeOK /\ InBound /\ AsReopened
  BY TypeInit, AsReopenedInit
<1>2. \A s \in Slot : file[s] = <<>>
  BY DEF Init
<1>3. \A s \in Slot : Dispatched(s) = {} /\ AnswersOf(s) = {}
  BY <1>2 DEF Dispatched, AnswersOf, Holds
<1>4. ChainHolds
  BY <1>2 DEF ChainHolds
<1>5. \A s \in Slot : RestoreSlot(s) = EmptySlot
  BY <1>2, RestoreIs, FoldEmpty
<1>6. ViewsAnswered
  <2>1. \A p \in Process : Up(p) => view[p] = Fresh
    BY DEF Init, Up
  <2> QED
    BY <2>1 DEF ViewsAnswered, Fresh, EmptySlot
<1>7. ASSUME NEW s \in Slot PROVE Numbered(s) /\ FoldSound(s) /\ OneAnswer(s)
  <2>1. IsFiniteSet({}) /\ Cardinality({}) = 0
    BY FS_EmptySet
  <2>2. Numbered(s)
    BY <1>3, <2>1 DEF Numbered
  <2>3. FoldSound(s)
    <3>1. EmptySlot \in SlotState /\ EmptySlot.response = NoAnswer
      BY DEF EmptySlot, SlotState
    <3> QED
      BY <1>5, <3>1 DEF FoldSound
  <2>4. OneAnswer(s)
    BY <1>3 DEF OneAnswer
  <2> QED
    BY <2>2, <2>3, <2>4
<1> QED
  BY <1>1, <1>4, <1>6, <1>7 DEF Reopened, Chained

LEMMA ReopenedStep == Reopened /\ [Next]_vars => Reopened'
<1> SUFFICES ASSUME Reopened, [Next]_vars PROVE Reopened'
  OBVIOUS
<1>1. TypeOK /\ InBound /\ ChainHolds /\ ViewsAnswered /\ AsReopened
  BY DEF Reopened, Chained
<1>2. \A s \in Slot : Numbered(s) /\ FoldSound(s) /\ OneAnswer(s)
  BY DEF Reopened, Chained
<1>3. TypeOK' /\ InBound'
  BY <1>1, <1>2, TypeStep
<1>4. \A s \in Slot : Numbered(s)'
  BY <1>1, <1>2, NumberedStep
<1>5. \A s \in Slot : FoldSound(s)'
  BY <1>1, <1>2, FoldSoundStep
<1>6. ViewsAnswered' /\ \A s \in Slot : OneAnswer(s)'
  BY <1>1, <1>2, AnswersStep
<1>7. ChainHolds'
  BY <1>1, <1>2, ChainStep
<1>8. AsReopened'
  BY <1>1, <1>2, <1>3, <1>5, AsReopenedStep
<1> QED
  BY <1>3, <1>4, <1>5, <1>6, <1>7, <1>8 DEF Reopened, Chained

LEMMA AlwaysReopened == Spec => []Reopened
BY ReopenedInit, ReopenedStep, PTL DEF Spec

\* Every record, every view and every counter of the Ledgers has its type: what
\* Open makes of a file is a slot state whatever rows the file holds.
THEOREM SlotsTyped == Spec => []TypeOK
<1>1. Reopened => TypeOK
  BY DEF Reopened, Chained
<1> QED
  BY <1>1, AlwaysReopened, PTL

\* The dispatches of a slot are one chain, however stale the views of the Ledgers
\* that share the file are: verifyDispatchAuthority asks the file itself.
THEOREM DispatchesChain == Spec => []ChainHolds
<1>1. Reopened => ChainHolds
  BY DEF Reopened, Chained
<1> QED
  BY <1>1, AlwaysReopened, PTL

\* A slot has at most one answer, and no Ledger that runs believes in another.
THEOREM SlotsAnsweredOnce == Spec => []AnswersAgree
<1>1. ASSUME Reopened PROVE AnswersAgree
  <2>1. ASSUME NEW s \in Slot PROVE Cardinality(AnswersOf(s)) <= 1
    <3>1. CASE AnswersOf(s) = {}
      BY <3>1, FS_EmptySet
    <3>2. CASE AnswersOf(s) # {}
      <4>1. PICK r : r \in AnswersOf(s)
        BY <3>2
      <4>2. AnswersOf(s) = {r}
        BY <1>1, <4>1 DEF Reopened, Chained, OneAnswer
      <4>3. Cardinality({r}) = 1
        BY FS_Singleton
      <4> QED
        BY <4>2, <4>3
    <3> QED
      BY <3>1, <3>2
  <2>2. ViewsAnswered
    BY <1>1 DEF Reopened, Chained
  <2> QED
    BY <2>1, <2>2 DEF AnswersAgree, ViewsAnswered
<1> QED
  BY <1>1, AlwaysReopened, PTL

\* A Ledger that is alone holds what Open would make of its file at any moment, and
\* Open refuses no file it has written.
THEOREM NothingLostByReopening == Spec => []ReopenedAsLeft
<1>1. Reopened => ReopenedAsLeft
  BY DEF Reopened, AsReopened, Retold, RestoreAccepts, ReopenedAsLeft
<1> QED
  BY <1>1, AlwaysReopened, PTL

--------------------------------------------------------------------------------
(* SlotContract.                                                           *)

\* The slots of the contract.
Slots == [s \in Slot |-> IF Alone THEN Phase(s) ELSE [phase |-> "unasked"]]

\* The phase a slot state stands for.
PhaseOf(st) ==
    CASE st.dispatch = NoDispatch -> [phase |-> "unasked"]
      [] st.response # NoAnswer ->
            [phase |-> "filled", request |-> st.dispatch.ordinal,
             answer |-> st.response.answer]
      [] st.revoked -> [phase |-> "revoked", request |-> st.dispatch.ordinal]
      [] OTHER -> [phase |-> "asked", request |-> st.dispatch.ordinal]

LEMMA PhaseIs ==
    /\ \A s : Phase(s) = PhaseOf(RestoreSlot(s))
    /\ \A s : Phase(s)' = PhaseOf(RestoreSlot(s)')
BY DEF Phase, PhaseOf

\* A call of the Ledger that is alone moves the phase of its slot.
LEMMA PutMoves ==
    ASSUME TypeOK, Alone, NEW p \in crew, NEW s \in Slot, NEW r \in Record, NEW st,
           Puts(p, s, r, st), RestoreSlot(s)' = st
    PROVE  Slots' = [Slots EXCEPT ![s] = PhaseOf(st)]
<1>1. Alone'
  BY DEF Alone, Puts, Records, run
<1>2. \A t \in Slot : t # s => Phase(t)' = Phase(t)
  BY RestoreGrows, PhaseIs
<1>3. Phase(s)' = PhaseOf(st)
  BY PhaseIs
<1> QED
  BY <1>1, <1>2, <1>3 DEF Slots

LEMMA ContractStep == Reopened /\ [Next]_vars => [Contract!Next]_Slots
<1> SUFFICES ASSUME Reopened, [Next]_vars PROVE [Contract!Next]_Slots
  OBVIOUS
<1>1. TypeOK /\ AsReopened /\ \A s \in Slot : FoldSound(s)
  BY DEF Reopened, Chained
<1>2. crew' = crew /\ (Alone' <=> Alone)
  <2>1. crew' = crew
    BY <1>1, CrewStands
  <2> QED
    BY <2>1 DEF Alone
<1>3. CASE ~Alone
  BY <1>2, <1>3 DEF Slots
<1>4. CASE Alone /\ UNCHANGED file
  <2>1. \A s \in Slot : Phase(s)' = Phase(s)
    BY <1>4, RestoreIs, PhaseIs
  <2> QED
    BY <1>2, <1>4, <2>1 DEF Slots
<1>5. \A p \in crew : DeclareRound(p) \/ Open(p) \/ Crash(p) => UNCHANGED file
  BY DEF DeclareRound, Open, Crash
<1>6. ASSUME Alone, NEW p \in crew, NEW s \in Slot, NEW d \in Dispatch,
             RegisterDispatch(p, s, d)
      PROVE  Contract!Ask(s)
  <2> DEFINE cur == RestoreSlot(s)
             r   == [kind |-> "dispatch", of |-> d]
             st  == [view[p].slot[s] EXCEPT !.dispatch = d, !.revoked = FALSE]
  <2>1. Puts(p, s, r, st) /\ r \in Record
    BY <1>1, <1>6, CallsPut DEF DispatchPut, Puts
  <2>2. RestoreSlot(s)' = st
    BY <1>1, <1>6, DispatchRetold
  <2>3. view[p].slot[s] = cur /\ cur \in SlotState
    BY <1>1, <1>6, AloneHolds DEF RegisterDispatch
  <2>4. /\ cur.response = NoAnswer
        /\ IF cur.dispatch = NoDispatch THEN d.ordinal = 0
           ELSE cur.revoked /\ d.ordinal = cur.dispatch.ordinal + 1
    BY <1>6, <2>3 DEF RegisterDispatch, ViewTakesDispatch
  <2>5. st.dispatch = d /\ st.revoked = FALSE /\ st.response = NoAnswer
    BY <2>3, <2>4 DEF SlotState
  <2>6. d # NoDispatch
    BY NoSuchDispatch
  <2> HIDE DEF r, st, cur
  <2>7. PhaseOf(st) = [phase |-> "asked", request |-> d.ordinal]
    BY <2>5, <2>6 DEF PhaseOf
  <2>8. Slots' = [Slots EXCEPT ![s] = [phase |-> "asked", request |-> d.ordinal]]
    BY <1>1, <1>6, <2>1, <2>2, <2>7, PutMoves
  <2>12. cur # Refused
    BY <1>1, <1>6, AloneHolds DEF RegisterDispatch, Retold, cur
  <2>9. Slots[s] = PhaseOf(cur)
    BY <1>6, PhaseIs DEF Slots, cur
  <2>10. CASE cur.dispatch = NoDispatch
    <3>2. cur = [dispatch |-> cur.dispatch, revoked |-> cur.revoked,
                 response |-> cur.response]
          /\ cur.revoked \in BOOLEAN
      BY <2>3 DEF SlotState
    <3>3. cur.revoked = FALSE
      BY <2>4, <2>10, <2>12, <3>2 DEF Refused
    <3>1. Slots[s] = [phase |-> "unasked"]
      BY <2>4, <2>9, <2>10, <3>3 DEF PhaseOf
    <3> QED
      BY <2>4, <2>8, <2>10, <3>1
         DEF Contract!Ask, Contract!Unasked, Contract!Asked, Slots
  <2>11. CASE cur.dispatch # NoDispatch
    <3>1. Slots[s] = [phase |-> "revoked", request |-> cur.dispatch.ordinal]
      BY <2>4, <2>9, <2>11 DEF PhaseOf
    <3>2. Slots[s].phase = "revoked" /\ Slots[s].request + 1 = d.ordinal
      BY <2>4, <2>11, <3>1
    <3> QED
      BY <2>8, <3>2 DEF Contract!Ask, Contract!Asked, Slots
  <2> QED
    BY <2>10, <2>11
<1>7. ASSUME Alone, NEW p \in crew, NEW s \in Slot, NEW x \in Reason, RevokeDispatch(p, s, x)
      PROVE  Contract!Revoke(s)
  <2> DEFINE cur == RestoreSlot(s)
             r   == [kind |-> "revoke", of |-> view[p].slot[s].dispatch, reason |-> x]
             st  == [view[p].slot[s] EXCEPT !.revoked = TRUE]
  <2>1. Puts(p, s, r, st) /\ r \in Record
    BY <1>1, <1>7, CallsPut DEF RevokePut, Puts
  <2>2. RestoreSlot(s)' = st
    BY <1>1, <1>7, RevokeRetold
  <2>3. view[p].slot[s] = cur /\ cur \in SlotState
    BY <1>1, <1>7, AloneHolds DEF RevokeDispatch
  <2>4. cur.dispatch # NoDispatch /\ ~cur.revoked /\ cur.response = NoAnswer
    BY <1>7, <2>3 DEF RevokeDispatch, Revocable
  <2>5. st.dispatch = cur.dispatch /\ st.revoked = TRUE /\ st.response = NoAnswer
    BY <2>3, <2>4 DEF SlotState
  <2> HIDE DEF r, st, cur
  <2>6. PhaseOf(st) = [phase |-> "revoked", request |-> cur.dispatch.ordinal]
    BY <2>4, <2>5 DEF PhaseOf
  <2>7. Slots[s].phase = "asked" /\ Slots[s].request = cur.dispatch.ordinal
    BY <1>7, <2>4, PhaseIs DEF Slots, cur, PhaseOf
  <2>8. Slots' = [Slots EXCEPT ![s] = [phase |-> "revoked", request |-> cur.dispatch.ordinal]]
    BY <1>1, <1>7, <2>1, <2>2, <2>6, PutMoves
  <2> QED
    BY <2>7, <2>8 DEF Contract!Revoke, Contract!Revoked, Slots
<1>8. ASSUME Alone, NEW p \in crew, NEW s \in Slot, NEW a \in Answer, Respond(p, s, a)
      PROVE  Contract!Fill(s, a)
  <2> DEFINE cur == RestoreSlot(s)
             r   == [kind |-> "answer", of |-> view[p].slot[s].dispatch, answer |-> a]
             st  == [view[p].slot[s] EXCEPT !.response = r]
  <2>1. Puts(p, s, r, st) /\ r \in Record
    BY <1>1, <1>8, CallsPut DEF AnswerPut, Puts
  <2>2. RestoreSlot(s)' = st
    BY <1>1, <1>8, AnswerRetold
  <2>3. view[p].slot[s] = cur /\ cur \in SlotState
    BY <1>1, <1>8, AloneHolds DEF Respond
  <2>4. cur.dispatch # NoDispatch /\ ~cur.revoked /\ cur.response = NoAnswer
    BY <1>8, <2>3 DEF Respond, Answerable
  <2>5. r # NoAnswer /\ r.answer = a
    BY DEF NoAnswer
  <2>6. st.dispatch = cur.dispatch /\ st.response = r /\ ~st.revoked
    BY <2>3, <2>4 DEF SlotState
  <2> HIDE DEF r, st, cur
  <2>7. PhaseOf(st) = [phase |-> "filled", request |-> cur.dispatch.ordinal, answer |-> a]
    BY <2>4, <2>5, <2>6 DEF PhaseOf
  <2>8. Slots[s].phase = "asked" /\ Slots[s].request = cur.dispatch.ordinal
    BY <1>8, <2>4, PhaseIs DEF Slots, cur, PhaseOf
  <2>9. Slots' = [Slots EXCEPT ![s] =
                    [phase |-> "filled", request |-> cur.dispatch.ordinal, answer |-> a]]
    BY <1>1, <1>8, <2>1, <2>2, <2>7, PutMoves
  <2> QED
    BY <2>8, <2>9 DEF Contract!Fill, Contract!Filled, Slots
<1> QED
  BY <1>1, <1>3, <1>4, <1>5, <1>6, <1>7, <1>8, Steps DEF Contract!Next

\* A Ledger that is alone on its file implements SlotContract, over all its crashes
\* and reopenings: a slot is asked again only after a revocation, and an answer fills
\* the open request.
THEOREM LedgerImplementsSlots == Spec => ImplementsSlots
<1>1. Init => Contract!Init
  <2> SUFFICES ASSUME Init PROVE Contract!Init
    OBVIOUS
  <2>1. \A s \in Slot : RestoreSlot(s) = EmptySlot
    BY RestoreIs, FoldEmpty DEF Init
  <2>2. \A s \in Slot : Phase(s) = [phase |-> "unasked"]
    BY <2>1 DEF Phase, EmptySlot
  <2> QED
    BY <2>2 DEF Contract!Init, Contract!Unasked
<1>2. Reopened /\ [Next]_vars => [Contract!Next]_Slots
  BY ContractStep
<1> QED
  BY <1>1, <1>2, AlwaysReopened, PTL DEF Spec, ImplementsSlots, Contract!Spec, Slots

\* What SlotContract promises holds of a Ledger that is alone on its file.
\* A filled slot keeps its request and its answer.
FilledStands == \A s \in Slot : Slots[s].phase = "filled" => Slots'[s] = Slots[s]

\* A revoked slot changes only by being asked, under the next request number.
AskedOnce ==
    \A s \in Slot : Slots[s].phase = "revoked" /\ Slots'[s] # Slots[s] =>
        /\ Slots'[s].phase = "asked"
        /\ Slots'[s].request = Slots[s].request + 1

LEMMA ContractKeeps == [Contract!Next]_Slots => FilledStands /\ AskedOnce
<1> SUFFICES ASSUME [Contract!Next]_Slots, NEW s \in Slot
             PROVE  /\ Slots[s].phase = "filled" => Slots'[s] = Slots[s]
                    /\ Slots[s].phase = "revoked" /\ Slots'[s] # Slots[s] =>
                          /\ Slots'[s].phase = "asked"
                          /\ Slots'[s].request = Slots[s].request + 1
  BY DEF FilledStands, AskedOnce
<1>1. CASE UNCHANGED Slots
  BY <1>1
<1>2. ASSUME NEW t \in Slot, NEW x, Slots' = [Slots EXCEPT ![t] = x]
      PROVE  Slots'[t] = x /\ (s # t => Slots'[s] = Slots[s])
  BY <1>2 DEF Slots
<1>3. ASSUME NEW t \in Slot, Contract!Ask(t)
      PROVE  /\ Slots[s].phase = "filled" => Slots'[s] = Slots[s]
             /\ Slots[s].phase = "revoked" /\ Slots'[s] # Slots[s] =>
                   /\ Slots'[s].phase = "asked"
                   /\ Slots'[s].request = Slots[s].request + 1
  <2>1. CASE Slots[t] = Contract!Unasked /\ Slots' = [Slots EXCEPT ![t] = Contract!Asked(0)]
    <3>1. Slots[t].phase = "unasked"
      BY <2>1 DEF Contract!Unasked
    <3>2. s # t => Slots'[s] = Slots[s]
      BY <2>1, <1>2
    <3> QED
      BY <3>1, <3>2
  <2>2. CASE /\ Slots[t].phase = "revoked"
             /\ Slots' = [Slots EXCEPT ![t] = Contract!Asked(Slots[t].request + 1)]
    <3>1. /\ Slots'[t] = Contract!Asked(Slots[t].request + 1)
          /\ s # t => Slots'[s] = Slots[s]
      BY <2>2, <1>2
    <3> QED
      BY <2>2, <3>1 DEF Contract!Asked
  <2> QED
    BY <1>3, <2>1, <2>2 DEF Contract!Ask, Slots
<1>4. ASSUME NEW t \in Slot, Contract!Revoke(t) \/ \E a \in Answer : Contract!Fill(t, a)
      PROVE  /\ Slots[s].phase = "filled" => Slots'[s] = Slots[s]
             /\ Slots[s].phase = "revoked" => Slots'[s] = Slots[s]
  <2>1. Slots[t].phase = "asked"
    BY <1>4 DEF Contract!Revoke, Contract!Fill, Slots
  <2>2. \E x : Slots' = [Slots EXCEPT ![t] = x]
    BY <1>4 DEF Contract!Revoke, Contract!Fill, Slots
  <2>3. s # t => Slots'[s] = Slots[s]
    BY <1>2, <2>2
  <2> QED
    BY <2>1, <2>3
<1>5. (\E t \in Slot : \/ Contract!Ask(t)
                       \/ Contract!Revoke(t)
                       \/ \E a \in Answer : Contract!Fill(t, a)) \/ UNCHANGED Slots
  BY DEF Contract!Next, Slots
<1> QED
  BY <1>1, <1>3, <1>4, <1>5

\* Over every call, crash and reopening of a Ledger alone on its file, an answered
\* slot stays answered as it was, and no request number is used twice.
THEOREM AnswersAreFinal == Spec => [][FilledStands /\ AskedOnce]_vars
<1>1. Reopened /\ [Next]_vars => [FilledStands /\ AskedOnce]_vars
  BY ContractStep, ContractKeeps
<1> QED
  BY <1>1, AlwaysReopened, PTL DEF Spec

================================================================================
