----------------------------- MODULE EpistemicRun -----------------------------
(***************************************************************************)
(* What the actors of a run come to know, and when.  Every commit publishes *)
(* events and, for each of them, a perception task in the outbox; workers  *)
(* complete the tasks and write evidence for the one actor an event is      *)
(* addressed to; a slot is dispatched to its actor only behind a barrier    *)
(* over the tasks of every earlier commit, and the dispatch is what lets    *)
(* the actor read an inbox.  Actors answer with nothing or with a message, *)
(* which one cycle sends and a later cycle delivers or drops.              *)
(*                                                                         *)
(* Every action is one SQLite transaction.  A cycle is taken at its commit: *)
(* CausalCycle shows that the cut its fence sealed still derives there, and *)
(* that one of the competing workers commits it.  Each round has one slot, *)
(* which is all that a send admits.                                        *)
(***************************************************************************)
EXTENDS CausalClock, Sequences, FiniteSets

CONSTANTS
    Actor,
    Round,       \* decision rounds, of one slot each
    Owner,       \* the actor that each round is sealed for
    Openings,    \* coordinates at which each round may be declared
    Letters,     \* the communication proposals an actor may author
    Start,       \* initial instant of the run
    Horizon,     \* bound: no plan reaches beyond this instant
    MaxDispatch, \* bound: dispatches of one slot
    None

\* A proposal names its recipient, its channel and when it is due; what it
\* alleges is opaque here.
Letter == [to : Actor, channel : {"school.message.v1", "school.drop.v1"},
           due : Int]

ASSUME OwnerAssumption == Owner \in [Round -> Actor]
ASSUME RunOpeningsAssumption == Openings \in [Round -> SUBSET Coordinate]
ASSUME LettersAssumption == Letters \subseteq Letter
ASSUME RunBoundsAssumption ==
    Start \in Int /\ Horizon \in Int /\ MaxDispatch \in Nat

VARIABLES
    clk,       \* clock_states
    journal,   \* committed_cycles: the commit of revision i is journal[i]
    opened,    \* round declarations of input_ledger: coordinate, or None
    seat,      \* dispatch, revocation and answer of each round's slot
    transit,   \* communication_transmissions, by the round of the proposal
    outbox,    \* causal_outbox: the perception tasks
    receipts,  \* causal_outbox: their completions
    evidence   \* evidence_ledger and evidence_routes

asking == <<opened, seat>>
known  == <<receipts, evidence>>
vars   == <<clk, journal, asking, transit, outbox, known>>

--------------------------------------------------------------------------------
(* Records.                                                                *)

Commit == [cycle : Coordinate, rounds : SUBSET Round,
           letter : Round \cup {None}]

\* The outbox holds one task per event; source is the round whose answer, or
\* whose message, the event is about.
EventType == {"clock.advanced", "round.consumed", "communication.sent",
              "communication.delivered", "communication.delivery_failed"}
Task == [revision : Nat \ {0}, type : EventType, source : Round \cup {None}]

Receipt  == [task : Task, holders : SUBSET Actor]
Evidence == [task : Task, holder : Actor, kind : {"observation", "input"}]

Transmission == [status : {"transit", "delivered", "failed"}, by : Actor,
                 letter : Letter, sent : Nat \ {0}]

\* None stands for a row that is absent.
ASSUME NoneAssumption ==
    None \notin Coordinate \cup Letter \cup Round \cup Transmission

SeatState == [status : {"none", "open", "revoked", "filled"},
              cycle : Coordinate, base : Nat, answer : Letters \cup {None},
              count : 0..MaxDispatch]

Vacant == [status |-> "none", cycle |-> At(Start, 0), base |-> 0,
           answer |-> None, count |-> 0]

--------------------------------------------------------------------------------
(* What is pending.                                                        *)

Closed(r) == \E i \in DOMAIN journal : r \in journal[i].rounds

OpenRounds == {r \in Round : opened[r] # None /\ ~Closed(r)}

InTransit == {r \in Round : transit[r] # None /\ transit[r].status = "transit"}

DueAt(r) == At(transit[r].letter.due, 0)

Pending == {opened[r] : r \in OpenRounds} \cup {DueAt(r) : r \in InTransit}

DueRounds(c)  == {r \in OpenRounds : NotAfter(opened[r], c)}
DueLetters(c) == {r \in InTransit : NotAfter(DueAt(r), c)}

Answered(r, c) ==
    /\ seat[r].status = "filled"
    /\ seat[r].cycle = c /\ seat[r].base = clk.revision

WorkAt(t) == {i \in DOMAIN journal : /\ journal[i].cycle.instant = t
                                     /\ \/ journal[i].rounds # {}
                                        \/ journal[i].letter # None}

Limited == CascadeExceeded(Cardinality(WorkAt(clk.instant)))

\* The coordinate c is where the next WORK cycle is, and it can be sealed.
Sealable(c) ==
    /\ Picks(clk, Pending, c)
    /\ c.instant = clk.instant
    /\ \A r \in DueRounds(c) : Answered(r, c)
    /\ ~Limited

--------------------------------------------------------------------------------
(* Perception.                                                             *)

\* Variant: a sent message is not registered as an internal event.
InvisibleLess == {"clock.advanced", "communication.delivery_failed"}

\* registeredInvisibleEngineEvent: nobody observes these.
Invisible ==
    {"clock.advanced", "communication.sent", "communication.delivery_failed"}

\* Whom the projection of a task addresses: the owner of the sealed round, the
\* recipient of the message.
Holders(t) ==
    CASE t.type = "round.consumed" -> {Owner[t.source]}
      [] t.type = "communication.delivered" -> {transit[t.source].letter.to}
      [] OTHER                              -> {}

EvidenceFor(t) == {e \in evidence : e.task = t}

\* The completion a worker writes, and the pair of records it rests on.
ReceiptOf(t)  == [task |-> t, holders |-> Holders(t)]
EvidenceOf(t) ==
    {[task |-> t, holder |-> a, kind |-> k] :
        a \in Holders(t), k \in {"observation", "input"}}

\* Variant: the tasks of the last commit are not asked for.
PerceivedBefore(base) ==
    \A t \in outbox : t.revision < base =>
        ReceiptOf(t) \in receipts /\ EvidenceFor(t) = EvidenceOf(t)

\* verifyPriorPerceptionEmpty: no commit up to base is missing, and each of its
\* tasks has exactly the completion and the evidence its event asks for.
Perceived(base) ==
    /\ base <= Len(journal)
    /\ \A t \in outbox : t.revision <= base =>
          ReceiptOf(t) \in receipts /\ EvidenceFor(t) = EvidenceOf(t)

--------------------------------------------------------------------------------
(* The inbox of an actor.                                                  *)

\* BindActorInbox, for the latest dispatch of the round.
Bindable(r) ==
    LET x == seat[r] IN
    /\ x.status # "none"
    /\ \/ \E i \in DOMAIN journal :
             journal[i].cycle = x.cycle /\ i = x.base + 1
       \/ /\ \A i \in DOMAIN journal : journal[i].cycle # x.cycle
          /\ x.base = clk.revision /\ x.cycle = Floor(clk)

\* readAddressedEvidence, as the context boundary presents it.
Inbox(r) ==
    {t \in outbox : /\ t.revision <= seat[r].base
                    /\ [task |-> t, holder |-> Owner[r], kind |-> "input"]
                          \in evidence}

--------------------------------------------------------------------------------
Init ==
    /\ clk = [instant |-> Start, revision |-> 0, last |-> -1]
    /\ journal = << >>
    /\ opened = [r \in Round |-> None]
    /\ seat = [r \in Round |-> Vacant]
    /\ transit = [r \in Round |-> None]
    /\ outbox = {} /\ receipts = {} /\ evidence = {}

--------------------------------------------------------------------------------
(* Rounds, dispatches and answers.                                         *)

DeclareRound(r, c) ==
    /\ opened[r] = None
    /\ ~OrdinalExhausted(clk) /\ NotAfter(Floor(clk), c)
    /\ opened' = [opened EXCEPT ![r] = c]
    /\ UNCHANGED <<clk, journal, seat, transit, outbox, known>>

\* appendDispatchGuarded: the slot is asked for the cycle after the clock, and
\* the barrier is checked in the transaction that stores the dispatch.
CanDispatch(r) ==
    /\ opened[r] # None
    /\ seat[r].status \in {"none", "revoked"} /\ seat[r].count < MaxDispatch
    /\ ~OrdinalExhausted(clk)
    /\ Perceived(clk.revision)

Dispatch(r) ==
    /\ CanDispatch(r)
    /\ seat' = [seat EXCEPT ![r] =
                   [status |-> "open", cycle |-> Floor(clk),
                    base |-> clk.revision, answer |-> None,
                    count |-> seat[r].count + 1]]
    /\ UNCHANGED <<clk, journal, opened, transit, outbox, known>>

\* The last dispatch that the bound leaves is not revoked.
Revoke(r) ==
    /\ seat[r].status = "open" /\ seat[r].count < MaxDispatch
    /\ seat' = [seat EXCEPT ![r].status = "revoked"]
    /\ UNCHANGED <<clk, journal, opened, transit, outbox, known>>

Respond(r, x) ==
    /\ seat[r].status = "open"
    /\ seat' = [seat EXCEPT ![r].status = "filled", ![r].answer = x]
    /\ UNCHANGED <<clk, journal, opened, transit, outbox, known>>

--------------------------------------------------------------------------------
(* Commits.  Each publishes its events, and a task for each of them.       *)

\* Variant: a task carries the revision its event was decided on.
TasksAtBase(events) ==
    {[revision |-> clk.revision, type |-> e[1], source |-> e[2]] : e \in events}

Tasks(events) ==
    {[revision |-> clk.revision + 1, type |-> e[1], source |-> e[2]] :
        e \in events}

Publish(c, rounds, letter, events) ==
    /\ journal' = Append(journal,
                     [cycle |-> c, rounds |-> rounds, letter |-> letter])
    /\ outbox' = outbox \cup Tasks(events)
    /\ UNCHANGED <<asking, known>>

CommitClockAdvance(p) ==
    /\ Picks(clk, Pending, p)
    /\ p.instant > clk.instant /\ p.instant <= Horizon
    /\ clk' = ApplyAdvance(clk, p.instant)
    /\ Publish(Floor(clk), {}, None, {<<"clock.advanced", None>>})
    /\ UNCHANGED transit

\* CommitNoProposal: rounds only, and nobody proposed anything.
CanClose(c) ==
    /\ Sealable(c)
    /\ DueLetters(c) = {}
    /\ \A r \in DueRounds(c) : seat[r].answer = None

CommitNoProposal(c) ==
    /\ CanClose(c)
    /\ clk' = ApplyWork(clk, c.ordinal)
    /\ Publish(c, DueRounds(c), None,
               {<<"round.consumed", r>> : r \in DueRounds(c)})
    /\ UNCHANGED transit

\* CommitCommunicationSend: a single proposal and nothing else; a proposal
\* that is not due after the instant it is authored at is no message.
CanSend(c, r) ==
    /\ Sealable(c)
    /\ DueLetters(c) = {} /\ DueRounds(c) = {r}
    /\ seat[r].answer # None /\ seat[r].answer.due > c.instant

SendEvents(r) == {<<"communication.sent", r>>, <<"round.consumed", r>>}

CommitCommunicationSend(c, r) ==
    /\ CanSend(c, r)
    /\ clk' = ApplyWork(clk, c.ordinal)
    /\ Publish(c, {r}, None, SendEvents(r))
    /\ transit' = [transit EXCEPT ![r] =
                      [status |-> "transit", by |-> Owner[r],
                       letter |-> seat[r].answer, sent |-> clk.revision + 1]]

\* CommitCommunicationDue: a single delivery occurrence and nothing else.
CanSettle(c, r) ==
    /\ Sealable(c)
    /\ DueRounds(c) = {} /\ DueLetters(c) = {r}
    /\ transit[r].letter.due <= clk.instant
    /\ transit[r].sent <= clk.revision

\* PlanDueDelivery: the channel alone decides.
Outcome(channel) ==
    IF channel = "school.message.v1" THEN "delivered" ELSE "failed"

\* Variant: the status of the transmission is not updated.
CommitDueForgets(c, r) ==
    /\ CanSettle(c, r)
    /\ clk' = ApplyWork(clk, c.ordinal)
    /\ Publish(c, {}, r, {<<"communication.delivered", r>>})
    /\ UNCHANGED transit

CommitCommunicationDue(c, r) ==
    LET outcome == Outcome(transit[r].letter.channel) IN
    /\ CanSettle(c, r)
    /\ clk' = ApplyWork(clk, c.ordinal)
    /\ Publish(c, {}, r,
               {<<IF outcome = "delivered" THEN "communication.delivered"
                  ELSE "communication.delivery_failed", r>>})
    /\ transit' = [transit EXCEPT ![r].status = outcome]

--------------------------------------------------------------------------------
(* Perception workers.  A worker that fails leaves nothing, one that comes *)
(* second finds the same records, so both are steps that change nothing.   *)

\* A task has one completion: another one for it is a collision.
Completes(t, receipt) ==
    /\ \A x \in receipts : x.task = t => x = receipt
    /\ receipts' = receipts \cup {receipt}

CompleteInternalPerception(t) ==
    /\ t.type \in Invisible
    /\ EvidenceFor(t) = {}
    /\ Completes(t, [task |-> t, holders |-> {}])
    /\ UNCHANGED <<clk, journal, asking, transit, outbox, evidence>>

\* Variant: the completion is written in a transaction of its own.
DeliverInPieces(t) ==
    \/ /\ evidence' = evidence \cup EvidenceOf(t)
       /\ UNCHANGED receipts
    \/ /\ Completes(t, ReceiptOf(t))
       /\ UNCHANGED evidence

\* Observation, knowledge input, their routes and the completion together.
Deliver(t) ==
    /\ evidence' = evidence \cup EvidenceOf(t)
    /\ Completes(t, ReceiptOf(t))

DeliverRoundPerception(t) ==
    /\ t.type = "round.consumed"
    /\ Deliver(t)
    /\ UNCHANGED <<clk, journal, asking, transit, outbox>>

DeliverCommunicationPerception(t) ==
    /\ t.type = "communication.delivered"
    /\ transit[t.source].status = "delivered"
    /\ Deliver(t)
    /\ UNCHANGED <<clk, journal, asking, transit, outbox>>

--------------------------------------------------------------------------------
Drive ==
    \E p \in Pending :
        \/ CommitClockAdvance(p)
        \/ CommitNoProposal(p)
        \/ \E r \in Round :
              CommitCommunicationSend(p, r) \/ CommitCommunicationDue(p, r)

Perceive(t) ==
    \/ CompleteInternalPerception(t)
    \/ DeliverRoundPerception(t)
    \/ DeliverCommunicationPerception(t)

Answer(r) == \E x \in Letters \cup {None} : Respond(r, x)

Next ==
    \/ Drive
    \/ \E t \in outbox : Perceive(t)
    \/ \E r \in Round : \/ \E c \in Openings[r] : DeclareRound(r, c)
                       \/ Dispatch(r) \/ Revoke(r) \/ Answer(r)

Spec == Init /\ [][Next]_vars

\* The driver keeps committing what can be committed and the outbox is worked
\* off; the caller of a round asks its actor, and the actor answers.
Fairness ==
    /\ WF_vars(Drive)
    /\ WF_vars(\E t \in outbox : Perceive(t))
    /\ \A r \in Round : WF_vars(Dispatch(r)) /\ WF_vars(Answer(r))

FairSpec == Spec /\ Fairness

--------------------------------------------------------------------------------
(* Properties.                                                             *)

TypeOK ==
    /\ clk \in ClockState
    /\ \A i \in DOMAIN journal : journal[i] \in Commit
    /\ Len(journal) = clk.revision
    /\ opened \in [Round -> Coordinate \cup {None}]
    /\ seat \in [Round -> SeatState]
    /\ transit \in [Round -> Transmission \cup {None}]
    /\ outbox \subseteq Task
    /\ receipts \subseteq Receipt
    /\ evidence \subseteq Evidence

\* What the commits up to a revision have for an actor: the closing of its
\* rounds and the messages that reached it.
AddressedTo(a, base) ==
    {[revision |-> i[1], type |-> "round.consumed", source |-> i[2]] :
        i \in {j \in (1..base) \X Round :
                  j[2] \in journal[j[1]].rounds /\ Owner[j[2]] = a}}
    \cup
    {[revision |-> i[1], type |-> "communication.delivered", source |-> i[2]] :
        i \in {j \in (1..base) \X Round :
                  /\ journal[j[1]].letter = j[2]
                  /\ transit[j[2]].letter.to = a
                  /\ transit[j[2]].letter.channel = "school.message.v1"}}

\* A dispatch that still binds reads an inbox, and it holds exactly what the
\* commits up to the dispatch's revision have for the actor: nothing is missing
\* because a worker is behind, nothing is of a later commit or of somebody
\* else, however many cycles and deliveries came in between.
InboxExact ==
    \A r \in Round : Bindable(r) =>
        /\ Perceived(seat[r].base)
        /\ Inbox(r) = AddressedTo(Owner[r], seat[r].base)

\* A message is sent by one commit and settled by at most one, a later one, at
\* exactly the coordinate it is due; it is in transit until then.
MessagesSettledOnce ==
    \A r \in Round : transit[r] # None =>
        LET settled == {i \in DOMAIN journal : journal[i].letter = r} IN
        /\ r \in journal[transit[r].sent].rounds
        /\ Cardinality(settled) <= 1
        /\ transit[r].status = "transit" <=> settled = {}
        /\ \A i \in settled :
              /\ i > transit[r].sent
              /\ journal[i].cycle = At(transit[r].letter.due, 0)

\* Evidence exists only together with the completion that lists it: an actor
\* never holds one record of a pair, nor a pair whose task is still open.
EvidenceAttested ==
    \A e \in evidence :
        /\ ReceiptOf(e.task) \in receipts
        /\ EvidenceFor(e.task) = EvidenceOf(e.task)

\* The next cycle is at the present instant and every slot of it was answered,
\* and no terminal takes it: it mixes a message with other units, or one of
\* its answers is for another cycle or no message that can be sent.
Jammed ==
    \E c \in Pending :
        /\ Picks(clk, Pending, c)
        /\ c.instant = clk.instant
        /\ \A r \in DueRounds(c) : seat[r].status = "filled"
        /\ ~(CanClose(c) \/ \E r \in Round : CanSend(c, r) \/ CanSettle(c, r))

\* A message that is due within the horizon is always settled in the end, and
\* the rounds in front of it get their dispatch, unless the run jams.
MessagesSettle ==
    []<>(Jammed \/ \A r \in InTransit : transit[r].letter.due > Horizon)

================================================================================
