------------------------------ MODULE SlotLedger -------------------------------
(***************************************************************************)
(* The slots of a decision round in the input ledger.  Processes, each     *)
(* with a Ledger of its own over one SQLite file, declare the round,       *)
(* dispatch its slots, revoke dispatches and record answers, while the run *)
(* goes from cycle to cycle.                                               *)
(*                                                                         *)
(* A Ledger decides from its view, which only its own calls and Open       *)
(* change; the file decides again, for a dispatch from the whole chain of  *)
(* the slot, for an answer by the key of the slot alone and for a          *)
(* revocation not at all.                                                  *)
(***************************************************************************)
EXTENDS Naturals, Sequences, FiniteSets

CONSTANTS
    Process,
    Crews,      \* the sets of them that may share the file of a run
    Slot,       \* the slots of the round
    Answer,     \* what an actor may answer
    Reason,     \* reasons and policies of a revocation
    RoundCycle, \* the cycle the round becomes eligible at
    LastCycle,  \* bound: committed cycles
    LastRetry,  \* bound: the largest ordinal of a dispatch
    Down        \* the view of a process that is not running

ASSUME CrewAssumption ==
    \A c \in Crews : c \subseteq Process /\ IsFiniteSet(c)

ASSUME BoundAssumption ==
    RoundCycle \in Nat /\ LastCycle \in Nat /\ LastRetry \in Nat

VARIABLES
    crew,       \* the processes of this deployment of the run
    declared,   \* the declaration of the round is in the file
    file,       \* per slot: its records in the order of their rows
    cycle,      \* committed cycles of the run
    sealed,     \* sealed ones: cycle, or cycle + 1 while one is in flight
    perceived,  \* committed cycles whose perception tasks are complete
    view        \* per process: its Ledger, or Down

run  == <<crew, cycle, sealed, perceived>>
vars == <<declared, file, run, view>>

--------------------------------------------------------------------------------
(* Records.  The identity of a dispatch is its cycle, slot and ordinal; of *)
(* a revocation, its whole content; of an answer, its dispatch and kind.   *)

Dispatch == [cycle : 0..LastCycle, ordinal : 0..LastRetry]

DispatchRecord == [kind : {"dispatch"}, of : Dispatch]
RevokeRecord   == [kind : {"revoke"}, of : Dispatch, reason : Reason]
AnswerRecord   == [kind : {"answer"}, of : Dispatch, answer : Answer]
Record == DispatchRecord \cup RevokeRecord \cup AnswerRecord

Holds(s, r) == \E i \in DOMAIN file[s] : file[s][i] = r
Dispatched(s) == {d \in Dispatch : Holds(s, [kind |-> "dispatch", of |-> d])}
RevokedInFile(s, d) == \E r \in Reason :
                           Holds(s, [kind |-> "revoke", of |-> d, reason |-> r])
AnswersOf(s) == {r \in AnswerRecord : Holds(s, r)}

\* Append: a record that is already there is not written twice.
Written(s, r) == IF Holds(s, r) THEN file[s] ELSE Append(file[s], r)

\* slotState.
NoDispatch == [cycle |-> 0, ordinal |-> LastRetry + 1]
NoAnswer   == [kind |-> "none"]
SlotState  == [dispatch : Dispatch \cup {NoDispatch}, revoked : BOOLEAN,
               response : AnswerRecord \cup {NoAnswer}]
EmptySlot  == [dispatch |-> NoDispatch, revoked |-> FALSE, response |-> NoAnswer]

Ledger == [round : BOOLEAN, slot : [Slot -> SlotState]]
Fresh  == [round |-> FALSE, slot |-> [s \in Slot |-> EmptySlot]]

--------------------------------------------------------------------------------
(* Open: the fold of the file, row by row, which may be refused.           *)

Refused == [dispatch |-> NoDispatch, revoked |-> TRUE, response |-> NoAnswer]

\* Variant: a new dispatch keeps the marks of the one it replaces.
RestoreDispatchKept(state, d) == [state EXCEPT !.dispatch = d]

\* restoreDispatch: the slot starts over with the new dispatch.
RestoreDispatch(state, d) ==
    [dispatch |-> d, revoked |-> FALSE, response |-> NoAnswer]

\* One row: an answer may name any dispatch read so far, a revocation only the
\* last one of its slot (findDispatchState).
RestoreRow(state, earlier, r) ==
    IF state = Refused THEN Refused
    ELSE CASE r.kind = "dispatch" -> RestoreDispatch(state, r.of)
           [] r.kind = "answer" /\ [kind |-> "dispatch", of |-> r.of] \in earlier ->
                 [state EXCEPT !.response = r]
           [] r.kind = "revoke" /\ state.dispatch = r.of ->
                 [state EXCEPT !.revoked = TRUE]
           [] OTHER -> Refused

RestoreSlot(s) ==
    LET upTo[n \in 0..Len(file[s])] ==
            IF n = 0 THEN EmptySlot
            ELSE RestoreRow(upTo[n - 1], {file[s][i] : i \in 1..(n - 1)}, file[s][n])
    IN  upTo[Len(file[s])]

Restored == [round |-> declared, slot |-> [s \in Slot |-> RestoreSlot(s)]]

RestoreAccepts == \A s \in Slot : RestoreSlot(s) # Refused

--------------------------------------------------------------------------------
Init ==
    /\ crew \in Crews
    /\ declared = FALSE
    /\ file = [s \in Slot |-> <<>>]
    /\ cycle = 0 /\ sealed = 0 /\ perceived = 0
    /\ view = [p \in Process |-> IF p \in crew THEN Fresh ELSE Down]

Up(p) == view[p] # Down

\* The Ledger p puts the record r behind its slot state st.
Records(p, s, r, st) ==
    /\ file' = [file EXCEPT ![s] = Written(s, r)]
    /\ view' = [view EXCEPT ![p].slot[s] = st]
    /\ UNCHANGED <<declared, run>>

\* The store: the round lies past the clock and past every seal.
DeclareRound(p) ==
    /\ Up(p) /\ ~view[p].round
    /\ cycle <= RoundCycle /\ sealed <= RoundCycle
    /\ declared' = TRUE
    /\ view' = [view EXCEPT ![p].round = TRUE]
    /\ UNCHANGED <<file, run>>

\* RegisterDispatch, against the view: the slot is new to it or revoked in it.
ViewTakesDispatch(p, s, d) ==
    LET st == view[p].slot[s] IN
    /\ view[p].round
    /\ st.response = NoAnswer
    /\ IF st.dispatch = NoDispatch THEN d.ordinal = 0
       ELSE st.revoked /\ d.ordinal = st.dispatch.ordinal + 1

\* Variant: the Ledger has seen the revocation, the file is not asked.
ChainTrusted(s, n) == TRUE

\* verifyDispatchAuthority: the ordinals of the slot so far, the last revoked.
ChainTakes(s, n) ==
    IF n = 0 THEN Dispatched(s) = {}
    ELSE /\ Cardinality(Dispatched(s)) = n
         /\ \E d \in Dispatched(s) : d.ordinal = n - 1 /\ RevokedInFile(s, d)

\* verifyPriorPerceptionEmpty.
Perceived(base) == perceived >= base

\* A dispatch is stored for the current cycle, or was stored before.
FileTakesDispatch(s, d) ==
    /\ Perceived(d.cycle)
    /\ \/ d \in Dispatched(s)
       \/ /\ d.cycle = cycle
          /\ declared
          /\ ChainTakes(s, d.ordinal)

RegisterDispatch(p, s, d) ==
    /\ Up(p)
    /\ ViewTakesDispatch(p, s, d)
    /\ FileTakesDispatch(s, d)
    /\ Records(p, s, [kind |-> "dispatch", of |-> d],
          [view[p].slot[s] EXCEPT !.dispatch = d, !.revoked = FALSE])

Revocable(p, s) ==
    LET st == view[p].slot[s] IN
    st.dispatch # NoDispatch /\ ~st.revoked /\ st.response = NoAnswer

RevokeDispatch(p, s, reason) ==
    LET st == view[p].slot[s] IN
    /\ Up(p)
    /\ Revocable(p, s)
    /\ Records(p, s, [kind |-> "revoke", of |-> st.dispatch, reason |-> reason],
          [st EXCEPT !.revoked = TRUE])

\* Variant: a late answer is taken although its dispatch was revoked.
AnswerableLate(p, s) == view[p].slot[s].dispatch # NoDispatch

Answerable(p, s) == view[p].slot[s].dispatch # NoDispatch /\ ~view[p].slot[s].revoked

\* Variant: the answer is appended without the key of its slot.
UncheckedSlot(s, r) == TRUE

\* AppendIfAbsent: the slot is free, or filled with the same answer.
WinsSlot(s, r) == AnswersOf(s) \subseteq {r}

\* An answer that repeats the one in the view changes nothing; another one is
\* ErrSlotFilled.
Respond(p, s, answer) ==
    LET st == view[p].slot[s]
        r  == [kind |-> "answer", of |-> st.dispatch, answer |-> answer]
    IN  /\ Up(p)
        /\ Answerable(p, s)
        /\ st.response = NoAnswer
        /\ WinsSlot(s, r)
        /\ Records(p, s, r, [st EXCEPT !.response = r])

Open(p) ==
    /\ ~Up(p)
    /\ RestoreAccepts
    /\ view' = [view EXCEPT ![p] = Restored]
    /\ UNCHANGED <<declared, file, run>>

Crash(p) ==
    /\ Up(p)
    /\ view' = [view EXCEPT ![p] = Down]
    /\ UNCHANGED <<declared, file, run>>

--------------------------------------------------------------------------------
(* The run: a cycle is sealed and committed, its perception is completed.  *)

SealCycle ==
    /\ sealed = cycle /\ cycle < LastCycle
    /\ sealed' = sealed + 1
    /\ UNCHANGED <<crew, declared, file, view, cycle, perceived>>

CommitCycle ==
    /\ sealed = cycle + 1
    /\ cycle' = sealed
    /\ UNCHANGED <<crew, declared, file, view, sealed, perceived>>

\* A commit whose perception tasks are open is left.
Unperceived == perceived < cycle

CompletePerception ==
    /\ Unperceived
    /\ perceived' = perceived + 1
    /\ UNCHANGED <<crew, declared, file, view, cycle, sealed>>

Next ==
    \/ \E p \in crew :
          \/ DeclareRound(p) \/ Open(p) \/ Crash(p)
          \/ \E s \in Slot :
                \/ \E d \in Dispatch : RegisterDispatch(p, s, d)
                \/ \E r \in Reason : RevokeDispatch(p, s, r)
                \/ \E a \in Answer : Respond(p, s, a)
    \/ SealCycle \/ CommitCycle \/ CompletePerception

Spec == Init /\ [][Next]_vars

--------------------------------------------------------------------------------
(* Properties.                                                             *)

\* Every record, view and counter has the shape the code gives it.
TypeOK ==
    /\ crew \in Crews
    /\ declared \in BOOLEAN
    /\ file \in [Slot -> Seq(Record)]
    /\ cycle \in 0..LastCycle /\ sealed \in cycle..(cycle + 1)
    /\ perceived \in 0..cycle
    /\ view \in [Process -> Ledger \cup {Down}]

\* However stale the views are, the dispatches of a slot are one chain: their
\* ordinals follow each other, and each was stored after its predecessor had
\* been revoked in the file.
ChainHolds ==
    \A s \in Slot : \A j \in DOMAIN file[s] :
        file[s][j].kind = "dispatch" =>
            LET n == file[s][j].of.ordinal
                before == {file[s][i] : i \in 1..(j - 1)}
            IN  /\ \A r \in before : r.kind = "dispatch" => r.of.ordinal < n
                /\ n > 0 => \E r \in before : r.kind = "revoke" /\ r.of.ordinal = n - 1

\* A slot has one answer, and every Ledger that believes the slot filled holds
\* the very answer the file holds.
AnswersAgree ==
    \A s \in Slot :
        /\ Cardinality(AnswersOf(s)) <= 1
        /\ \A p \in Process : Up(p) /\ view[p].slot[s].response # NoAnswer =>
              view[p].slot[s].response \in AnswersOf(s)

\* A Ledger that is alone on its file holds what a reopened one would, and the
\* file can be opened again: a crash at any point loses nothing and revives
\* nothing.
Alone == Cardinality(crew) = 1

ReopenedAsLeft ==
    Alone => RestoreAccepts /\ \A p \in crew : Up(p) => view[p] = Restored

\* SlotContract, for a Ledger alone on its file.
Phase(s) ==
    LET st == RestoreSlot(s) IN
    CASE st.dispatch = NoDispatch -> [phase |-> "unasked"]
      [] st.response # NoAnswer ->
            [phase |-> "filled", request |-> st.dispatch.ordinal,
             answer |-> st.response.answer]
      [] st.revoked -> [phase |-> "revoked", request |-> st.dispatch.ordinal]
      [] OTHER -> [phase |-> "asked", request |-> st.dispatch.ordinal]

Contract == INSTANCE SlotContract WITH
    Reply <- Answer,
    slot <- [s \in Slot |-> IF Alone THEN Phase(s) ELSE [phase |-> "unasked"]]

\* A Ledger alone on its file, with its crashes, implements the contract.
ImplementsSlots == Contract!Spec

================================================================================
