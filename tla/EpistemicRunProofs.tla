--------------------------- MODULE EpistemicRunProofs ---------------------------
(***************************************************************************)
(* Theorems of EpistemicRun, for every set of actors, rounds and letters   *)
(* and every bound: what an actor finds in its inbox, that a message is    *)
(* settled once, and that evidence never comes without its completion.     *)
(***************************************************************************)
EXTENDS EpistemicRun, FiniteSetTheorems, TLAPS

USE DEF At

--------------------------------------------------------------------------------
(* The invariant.                                                          *)

Consumed(i, r)  == [revision |-> i, type |-> "round.consumed", source |-> r]
Delivered(i, r) == [revision |-> i, type |-> "communication.delivered", source |-> r]

Arrives(r) == transit[r].letter.channel = "school.message.v1"

\* The outbox has exactly the tasks that the commits call for.
Posted ==
    /\ \A t \in outbox :
          /\ t.revision \in 1..Len(journal)
          /\ t.type \in {"round.consumed", "communication.delivered"} =>
                t.source \in Round
    /\ \A i \in 1..Len(journal), r \in Round :
          /\ Consumed(i, r) \in outbox <=> r \in journal[i].rounds
          /\ Delivered(i, r) \in outbox <=> journal[i].letter = r /\ Arrives(r)

\* A message was sent by a commit, and only what was sent is settled.
Sent ==
    /\ \A r \in Round : transit[r] # None => transit[r].sent \in 1..Len(journal)
    /\ \A i \in 1..Len(journal) :
          journal[i].letter # None => transit[journal[i].letter] # None

\* Evidence is about published events.
Filed == \A e \in evidence : e.task \in outbox

\* What a slot was asked for had been perceived, and it stays perceived.
SeatsPerceived ==
    \A r \in Round : seat[r].status # "none" => Perceived(seat[r].base)

Consistent ==
    /\ TypeOK /\ journal \in Seq(Commit)
    /\ Posted /\ Sent /\ MessagesSettledOnce
    /\ Filed /\ EvidenceAttested
    /\ SeatsPerceived

--------------------------------------------------------------------------------
(* What the operators return.                                              *)

LEMMA FloorType ==
    ASSUME NEW c \in ClockState
    PROVE  Floor(c) \in Coordinate
BY DEF ClockState, Floor, Coordinate

LEMMA ApplyType ==
    ASSUME NEW c \in ClockState
    PROVE  /\ \A n \in Nat : /\ ApplyWork(c, n) \in ClockState
                             /\ ApplyWork(c, n).revision = c.revision + 1
           /\ \A t \in Int : /\ ApplyAdvance(c, t) \in ClockState
                             /\ ApplyAdvance(c, t).revision = c.revision + 1
BY DEF ClockState, ApplyWork, ApplyAdvance

\* Two coordinates that do not precede each other are the same.
LEMMA OneCoordinate ==
    ASSUME NEW p \in Coordinate, NEW q \in Coordinate, NotAfter(p, q), NotAfter(q, p)
    PROVE  p = q
<1>1. p.instant = q.instant /\ p.ordinal = q.ordinal
  BY DEF NotAfter, Precedes, Coordinate
<1>2. /\ p = [instant |-> p.instant, ordinal |-> p.ordinal]
      /\ q = [instant |-> q.instant, ordinal |-> q.ordinal]
  BY DEF Coordinate
<1> QED
  BY <1>1, <1>2

\* What was sent, by whom and to whom.
LEMMA TransitType ==
    ASSUME TypeOK, NEW r \in Round, transit[r] # None
    PROVE  /\ transit[r] \in Transmission
           /\ transit[r].letter.to \in Actor /\ transit[r].letter.due \in Int
           /\ DueAt(r) \in Coordinate
<1>1. transit[r] \in Transmission
  BY DEF TypeOK
<1>2. transit[r].letter \in Letter
  BY <1>1 DEF Transmission
<1> QED
  BY <1>1, <1>2 DEF Letter, DueAt, Coordinate

LEMMA PendingType == TypeOK => Pending \subseteq Coordinate
<1> SUFFICES ASSUME TypeOK PROVE Pending \subseteq Coordinate
  OBVIOUS
<1>1. \A r \in OpenRounds : opened[r] \in Coordinate
  BY DEF TypeOK, OpenRounds
<1>2. \A r \in InTransit : DueAt(r) \in Coordinate
  BY TransitType DEF InTransit
<1> QED
  BY <1>1, <1>2 DEF Pending

\* The records of one event.
LEMMA EvidenceTyped ==
    ASSUME NEW t \in Task, Holders(t) \subseteq Actor
    PROVE  /\ ReceiptOf(t) \in Receipt
           /\ EvidenceOf(t) \subseteq Evidence
           /\ \A e \in EvidenceOf(t) : e.task = t
           /\ \A a : [task |-> t, holder |-> a, kind |-> "input"] \in EvidenceOf(t)
                        <=> a \in Holders(t)
<1>1. ReceiptOf(t) \in Receipt
  BY DEF ReceiptOf, Receipt
<1>2. EvidenceOf(t) \subseteq Evidence
  BY DEF EvidenceOf, Evidence
<1>3. \A e \in EvidenceOf(t) : e.task = t
  BY DEF EvidenceOf
<1>4. ASSUME NEW a
      PROVE  [task |-> t, holder |-> a, kind |-> "input"] \in EvidenceOf(t)
                <=> a \in Holders(t)
  <2> DEFINE e == [task |-> t, holder |-> a, kind |-> "input"]
  <2>1. ASSUME a \in Holders(t) PROVE e \in EvidenceOf(t)
    BY <2>1 DEF EvidenceOf
  <2>2. ASSUME e \in EvidenceOf(t) PROVE a \in Holders(t)
    <3>1. PICK b \in Holders(t), k \in {"observation", "input"} :
             e = [task |-> t, holder |-> b, kind |-> k]
      BY <2>2 DEF EvidenceOf
    <3> QED
      BY <3>1
  <2> QED
    BY <2>1, <2>2
<1> QED
  BY <1>1, <1>2, <1>3, <1>4

--------------------------------------------------------------------------------
(* What a commit does, whichever it is.                                    *)

\* The commit after the present one, of the rounds R and the letter l, posts the
\* tasks T; transit is moved by the sending or the settlement of one message.
Commits(c, R, l, T) ==
    /\ c \in Coordinate /\ R \subseteq Round /\ l \in Round \cup {None}
    /\ journal' = Append(journal, [cycle |-> c, rounds |-> R, letter |-> l])
    /\ clk' \in ClockState /\ clk'.revision = clk.revision + 1
    /\ outbox' = outbox \cup T
    /\ UNCHANGED <<asking, known>>

TasksFor(R, l, T) ==
    /\ \A t \in T :
          /\ t \in Task /\ t.revision = clk.revision + 1
          /\ t.type \in {"round.consumed", "communication.delivered"} =>
                t.source \in Round
    /\ \A r \in Round :
          /\ Consumed(clk.revision + 1, r) \in T <=> r \in R
          /\ Delivered(clk.revision + 1, r) \in T <=> l = r /\ Arrives(r)

\* No message moves, one is sent, or one is settled.
Still(l) == l = None /\ transit' = transit

Sends(R, r) ==
    /\ r \in R /\ R \subseteq OpenRounds
    /\ \E x \in Transmission :
          /\ x.status = "transit" /\ x.sent = clk.revision + 1
          /\ transit' = [transit EXCEPT ![r] = x]

Settles(c, l) ==
    /\ l \in InTransit /\ c = DueAt(l) /\ transit[l].sent <= clk.revision
    /\ \E s \in {"delivered", "failed"} : transit' = [transit EXCEPT ![l].status = s]

Moves(c, R, l) ==
    \/ Still(l)
    \/ l = None /\ \E r \in Round : Sends(R, r)
    \/ Settles(c, l)

LEMMA AdvanceCommits ==
    ASSUME TypeOK, NEW p \in Pending, CommitClockAdvance(p)
    PROVE  \E c, R, l, T : Commits(c, R, l, T) /\ TasksFor(R, l, T) /\ Moves(c, R, l)
<1> DEFINE T == Tasks({<<"clock.advanced", None>>})
<1>1. p.instant \in Int /\ clk \in ClockState /\ clk.revision \in Nat
  BY PendingType DEF TypeOK, Coordinate, ClockState
<1>2. Commits(Floor(clk), {}, None, T)
  BY <1>1, FloorType, ApplyType DEF CommitClockAdvance, Publish, Commits
<1>3. TasksFor({}, None, T)
  <2>1. T = {[revision |-> clk.revision + 1, type |-> "clock.advanced", source |-> None]}
    BY DEF Tasks
  <2>2. \A r \in Round : None # r
    BY NoneAssumption
  <2> HIDE DEF T
  <2> QED
    BY <1>1, <2>1, <2>2 DEF TasksFor, Task, EventType, Consumed, Delivered
<1>4. Still(None)
  BY DEF CommitClockAdvance, Still
<1> HIDE DEF T
<1> QED
  BY <1>2, <1>3, <1>4 DEF Moves

\* The coordinate of a WORK cycle.
LEMMA SealableAt ==
    ASSUME TypeOK, NEW c \in Pending, Sealable(c)
    PROVE  /\ c \in Coordinate /\ c.ordinal \in Nat
           /\ clk \in ClockState /\ clk.revision \in Nat
           /\ DueRounds(c) \subseteq Round /\ DueRounds(c) \subseteq OpenRounds
           /\ \A q \in Pending : NotAfter(c, q)
<1>1. c \in Coordinate
  BY PendingType
<1>2. \A q \in Pending : NotAfter(c, q)
  BY DEF Sealable, Picks, Smallest
<1> QED
  BY <1>1, <1>2 DEF Coordinate, TypeOK, ClockState, DueRounds, OpenRounds

LEMMA NoProposalCommits ==
    ASSUME TypeOK, NEW p \in Pending, CommitNoProposal(p)
    PROVE  \E c, R, l, T : Commits(c, R, l, T) /\ TasksFor(R, l, T) /\ Moves(c, R, l)
<1> DEFINE R == DueRounds(p)
           T == Tasks({<<"round.consumed", r>> : r \in R})
<1>1. /\ p \in Coordinate /\ p.ordinal \in Nat /\ clk \in ClockState /\ clk.revision \in Nat
      /\ R \subseteq Round
  BY SealableAt DEF CommitNoProposal, CanClose
<1>2. Commits(p, R, None, T)
  BY <1>1, ApplyType DEF CommitNoProposal, Publish, Commits
<1>3. TasksFor(R, None, T)
  <2>1. T = {Consumed(clk.revision + 1, r) : r \in R}
    <3> HIDE DEF R
    <3> DEFINE EV == {<<"round.consumed", r>> : r \in R}
    <3>2. \A e : e \in EV <=> \E r \in R : e = <<"round.consumed", r>>
      OBVIOUS
    <3>3. T = {[revision |-> clk.revision + 1, type |-> e[1], source |-> e[2]] : e \in EV}
      BY DEF Tasks
    <3> HIDE DEF EV, T
    <3>1. \A x : x \in T <=> \E r \in R : x = Consumed(clk.revision + 1, r)
      <4>1. ASSUME NEW x \in T PROVE \E r \in R : x = Consumed(clk.revision + 1, r)
        <5>1. PICK e \in EV : x = [revision |-> clk.revision + 1, type |-> e[1], source |-> e[2]]
          BY <3>3
        <5>2. PICK r \in R : e = <<"round.consumed", r>>
          BY <3>2
        <5> QED
          BY <5>1, <5>2 DEF Consumed
      <4>2. ASSUME NEW r \in R PROVE Consumed(clk.revision + 1, r) \in T
        <5>1. <<"round.consumed", r>> \in EV
          BY <3>2
        <5> QED
          BY <3>3, <5>1 DEF Consumed
      <4> QED
        BY <4>1, <4>2
    <3> QED
      BY <3>1
  <2>2. \A r \in Round : None # r
    BY NoneAssumption
  <2> HIDE DEF T, R
  <2>3. \A x \in T : /\ x \in Task /\ x.revision = clk.revision + 1
                      /\ x.type = "round.consumed" /\ x.source \in R
    BY <1>1, <2>1 DEF Task, EventType, Consumed
  <2>4. \A r \in Round : Consumed(clk.revision + 1, r) \in T <=> r \in R
    BY <2>1 DEF Consumed
  <2>5. \A r \in Round : Delivered(clk.revision + 1, r) \notin T
    BY <2>3 DEF Delivered
  <2> QED
    BY <1>1, <2>2, <2>3, <2>4, <2>5 DEF TasksFor
<1>4. Still(None)
  BY DEF CommitNoProposal, Still
<1> HIDE DEF T, R
<1> QED
  BY <1>2, <1>3, <1>4 DEF Moves

LEMMA SendCommits ==
    ASSUME TypeOK, NEW p \in Pending, NEW r \in Round, CommitCommunicationSend(p, r)
    PROVE  \E c, R, l, T : Commits(c, R, l, T) /\ TasksFor(R, l, T) /\ Moves(c, R, l)
<1> DEFINE T == Tasks(SendEvents(r))
           x == [status |-> "transit", by |-> Owner[r],
                 letter |-> seat[r].answer, sent |-> clk.revision + 1]
<1>1. /\ p \in Coordinate /\ p.ordinal \in Nat /\ clk \in ClockState /\ clk.revision \in Nat
      /\ {r} \subseteq OpenRounds
  BY SealableAt DEF CommitCommunicationSend, CanSend
<1>2. Commits(p, {r}, None, T)
  <2> HIDE DEF x
  <2>1. clk' \in ClockState /\ clk'.revision = clk.revision + 1
    <3>1. clk' = ApplyWork(clk, p.ordinal)
      BY DEF CommitCommunicationSend
    <3> QED
      BY <1>1, <3>1, ApplyType
  <2> QED
    BY <1>1, <2>1 DEF CommitCommunicationSend, Publish, Commits
<1>3. TasksFor({r}, None, T)
  <2>1. T = {[revision |-> clk.revision + 1, type |-> "communication.sent", source |-> r],
             Consumed(clk.revision + 1, r)}
    BY DEF Tasks, SendEvents, Consumed
  <2>2. \A q \in Round : None # q
    BY NoneAssumption
  <2> HIDE DEF T
  <2> QED
    BY <1>1, <2>1, <2>2 DEF TasksFor, Task, EventType, Consumed, Delivered
<1>4. Sends({r}, r)
  <2>1. seat[r].answer \in Letter
    <3>1. seat[r].answer \in Letters \cup {None} /\ seat[r].answer # None
      BY DEF TypeOK, SeatState, CommitCommunicationSend, CanSend
    <3> QED
      BY <3>1, LettersAssumption
  <2>2. x \in Transmission
    BY <1>1, <2>1, OwnerAssumption DEF Transmission
  <2>3. transit' = [transit EXCEPT ![r] = x] /\ x.status = "transit" /\ x.sent = clk.revision + 1
    BY DEF CommitCommunicationSend
  <2> HIDE DEF x
  <2> QED
    BY <1>1, <2>2, <2>3 DEF Sends
<1> HIDE DEF T
<1> QED
  BY <1>2, <1>3, <1>4 DEF Moves

LEMMA DueCommits ==
    ASSUME TypeOK, NEW p \in Pending, NEW r \in Round, CommitCommunicationDue(p, r)
    PROVE  \E c, R, l, T : Commits(c, R, l, T) /\ TasksFor(R, l, T) /\ Moves(c, R, l)
<1> DEFINE o == Outcome(transit[r].letter.channel)
           e == IF o = "delivered" THEN "communication.delivered"
                ELSE "communication.delivery_failed"
           T == Tasks({<<e, r>>})
<1>1. /\ p \in Coordinate /\ p.ordinal \in Nat /\ clk \in ClockState /\ clk.revision \in Nat
      /\ \A q \in Pending : NotAfter(p, q)
  BY SealableAt DEF CommitCommunicationDue, CanSettle
<1>2. Commits(p, {}, r, T)
  BY <1>1, ApplyType DEF CommitCommunicationDue, Publish, Commits
<1>3. o \in {"delivered", "failed"} /\ (o = "delivered" <=> Arrives(r))
  BY DEF Outcome, Arrives
<1>4. TasksFor({}, r, T)
  <2>1. T = {[revision |-> clk.revision + 1, type |-> e, source |-> r]}
    BY DEF Tasks
  <2>2. IF Arrives(r) THEN e = "communication.delivered" ELSE e = "communication.delivery_failed"
    BY <1>3
  <2> HIDE DEF T, e
  <2> QED
    BY <1>1, <2>1, <2>2 DEF TasksFor, Task, EventType, Consumed, Delivered
<1>5. Settles(p, r)
  <2>1. r \in DueLetters(p) /\ transit[r].sent <= clk.revision
    BY DEF CommitCommunicationDue, CanSettle
  <2>2. r \in InTransit /\ NotAfter(DueAt(r), p) /\ DueAt(r) \in Pending
    BY <2>1 DEF DueLetters, Pending
  <2>3. DueAt(r) \in Coordinate /\ NotAfter(p, DueAt(r))
    BY <1>1, <2>2, PendingType
  <2>4. p = DueAt(r)
    BY <1>1, <2>2, <2>3, OneCoordinate
  <2>5. transit' = [transit EXCEPT ![r].status = o]
    BY DEF CommitCommunicationDue
  <2> HIDE DEF o
  <2> QED
    BY <1>3, <2>1, <2>2, <2>4, <2>5 DEF Settles
<1> HIDE DEF T
<1> QED
  BY <1>2, <1>4, <1>5 DEF Moves

LEMMA DriveCommits ==
    ASSUME TypeOK, Drive
    PROVE  \E c, R, l, T : Commits(c, R, l, T) /\ TasksFor(R, l, T) /\ Moves(c, R, l)
BY AdvanceCommits, NoProposalCommits, SendCommits, DueCommits DEF Drive

--------------------------------------------------------------------------------
(* The journal and the outbox after a commit.                              *)

LEMMA JournalGrows ==
    ASSUME TypeOK, journal \in Seq(Commit), NEW c, NEW R, NEW l, NEW T,
           Commits(c, R, l, T)
    PROVE  /\ journal' \in Seq(Commit) /\ clk.revision = Len(journal) /\ Len(journal) \in Nat
           /\ Len(journal') = Len(journal) + 1
           /\ DOMAIN journal = 1..Len(journal) /\ DOMAIN journal' = 1..(Len(journal) + 1)
           /\ \A i \in 1..Len(journal) : journal'[i] = journal[i] /\ journal[i] \in Commit
           /\ journal'[Len(journal) + 1] = [cycle |-> c, rounds |-> R, letter |-> l]
           /\ journal'[Len(journal) + 1].rounds = R /\ journal'[Len(journal) + 1].letter = l
<1> DEFINE x == [cycle |-> c, rounds |-> R, letter |-> l]
<1>1. x \in Commit /\ journal' = Append(journal, x)
  BY DEF Commits, Commit
<1>2. clk.revision = Len(journal)
  BY DEF TypeOK
<1> HIDE DEF x
<1>3. /\ journal' \in Seq(Commit) /\ Len(journal) \in Nat
      /\ Len(journal') = Len(journal) + 1
      /\ DOMAIN journal = 1..Len(journal) /\ DOMAIN journal' = 1..(Len(journal) + 1)
      /\ \A i \in 1..Len(journal) : journal'[i] = journal[i] /\ journal[i] \in Commit
      /\ journal'[Len(journal) + 1] = x
  BY <1>1
<1>4. x.rounds = R /\ x.letter = l
  BY DEF x
<1> QED
  BY <1>2, <1>3, <1>4 DEF x

\* A message keeps its letter, and only the settled one leaves the transit.
LEMMA TransitMoves ==
    ASSUME TypeOK, journal \in Seq(Commit), Sent, MessagesSettledOnce,
           NEW c, NEW R, NEW l, NEW T, Commits(c, R, l, T), Moves(c, R, l)
    PROVE  /\ transit' \in [Round -> Transmission \cup {None}]
           /\ \A r \in Round : transit[r] # None =>
                 /\ transit'[r] # None
                 /\ transit'[r].letter = transit[r].letter
                 /\ transit'[r].sent = transit[r].sent
                 /\ r # l => transit'[r].status = transit[r].status
           /\ \A r \in Round : r = l =>
                 /\ transit[r] # None /\ transit[r].status = "transit"
                 /\ transit'[r].status # "transit"
                 /\ c = DueAt(r)
           /\ \A r \in Round : transit[r] = None /\ transit'[r] # None =>
                 /\ r \in R /\ r # l
                 /\ transit'[r].sent = Len(journal) + 1
                 /\ transit'[r].status = "transit"
<1>1. \A r \in Round : r # None
  BY NoneAssumption
<1>2. \A r \in Round : transit[r] # None => transit[r] \in Transmission
  BY TransitType
<1>3. clk.revision = Len(journal)
  BY DEF TypeOK
<1>4. CASE Still(l)
  BY <1>1, <1>4 DEF Still, TypeOK
<1>5. ASSUME l = None, NEW q \in Round, Sends(R, q)
      PROVE  /\ transit' \in [Round -> Transmission \cup {None}]
             /\ transit[q] = None /\ q \in R
             /\ transit'[q].sent = Len(journal) + 1 /\ transit'[q].status = "transit"
             /\ \A r \in Round : r # q => transit'[r] = transit[r]
  <2>1. PICK x \in Transmission : /\ x.status = "transit" /\ x.sent = clk.revision + 1
                                  /\ transit' = [transit EXCEPT ![q] = x]
    BY <1>5 DEF Sends
  <2>2. transit[q] = None
    <3>1. ~Closed(q) /\ q \in R
      BY <1>5 DEF Sends, OpenRounds
    <3>2. ASSUME transit[q] # None PROVE FALSE
      <4>1. transit[q].sent \in 1..Len(journal) /\ q \in journal[transit[q].sent].rounds
        BY <3>2 DEF Sent, MessagesSettledOnce
      <4>2. DOMAIN journal = 1..Len(journal)
        OBVIOUS
      <4> QED
        BY <3>1, <4>1, <4>2 DEF Closed
    <3> QED
      BY <3>2
  <2> QED
    BY <1>3, <1>5, <2>1, <2>2 DEF Sends, TypeOK
<1>6. ASSUME Settles(c, l)
      PROVE  /\ transit' \in [Round -> Transmission \cup {None}]
             /\ l \in Round /\ c = DueAt(l)
             /\ transit[l] # None /\ transit[l].status = "transit"
             /\ transit'[l] # None /\ transit'[l].letter = transit[l].letter
             /\ transit'[l].sent = transit[l].sent /\ transit'[l].status # "transit"
             /\ \A r \in Round : r # l => transit'[r] = transit[r]
  <2>1. l \in Round /\ transit[l] # None /\ transit[l].status = "transit" /\ c = DueAt(l)
    BY <1>6 DEF Settles, InTransit
  <2>2. PICK s \in {"delivered", "failed"} : transit' = [transit EXCEPT ![l].status = s]
    BY <1>6 DEF Settles
  <2> DEFINE x == [transit[l] EXCEPT !.status = s]
  <2>3. x \in Transmission /\ x.status = s /\ x.letter = transit[l].letter
        /\ x.sent = transit[l].sent
    BY <1>2, <2>1 DEF Transmission
  <2>4. x # None
    <3>1. [transit EXCEPT ![l].status = s][l] = x
      BY <2>1 DEF TypeOK
    <3> QED
      BY <2>3, NoneAssumption
  <2>5. transit' = [transit EXCEPT ![l] = x]
    BY <2>2
  <2> HIDE DEF x
  <2> QED
    BY <2>1, <2>3, <2>4, <2>5 DEF TypeOK
<1> QED
  BY <1>1, <1>4, <1>5, <1>6 DEF Moves

\* The tasks of a commit are new to the outbox, and the old ones stay.
LEMMA PostedCommit ==
    ASSUME TypeOK, journal \in Seq(Commit), Posted, Sent, MessagesSettledOnce,
           NEW c, NEW R, NEW l, NEW T, Commits(c, R, l, T), TasksFor(R, l, T), Moves(c, R, l)
    PROVE  Posted'
<1> DEFINE n == Len(journal)
<1>1. /\ n \in Nat /\ clk.revision = n /\ Len(journal') = n + 1
      /\ \A i \in 1..n : journal'[i] = journal[i]
      /\ journal'[n + 1].rounds = R /\ journal'[n + 1].letter = l
  BY JournalGrows
<1>2. /\ outbox' = outbox \cup T
      /\ \A t \in T : /\ t.revision = n + 1
                      /\ t.type \in {"round.consumed", "communication.delivered"} =>
                            t.source \in Round
      /\ \A r \in Round : /\ Consumed(n + 1, r) \in T <=> r \in R
                          /\ Delivered(n + 1, r) \in T <=> l = r /\ Arrives(r)
  BY <1>1 DEF Commits, TasksFor
<1>3. \A r \in Round : transit[r] # None => (Arrives(r)' <=> Arrives(r))
  BY TransitMoves DEF Arrives
<1>4. \A r \in Round : l = r => transit[r] # None
  BY TransitMoves
<1>5. \A i \in 1..n : journal[i].letter # None => transit[journal[i].letter] # None
  BY DEF Sent
<1>6. \A r \in Round : r # None
  BY NoneAssumption
<1> HIDE DEF n
<1>7. 1..(n + 1) = (1..n) \cup {n + 1} /\ n + 1 \notin 1..n
  BY <1>1
<1>8. \A t \in outbox' : /\ t.revision \in 1..(n + 1)
                         /\ t.type \in {"round.consumed", "communication.delivered"} =>
                               t.source \in Round
  BY <1>2, <1>7 DEF Posted, n
<1>9. ASSUME NEW i \in 1..n, NEW r \in Round
      PROVE  /\ Consumed(i, r) \in outbox' <=> r \in journal'[i].rounds
             /\ Delivered(i, r) \in outbox' <=> journal'[i].letter = r /\ Arrives(r)'
  <2>1. Consumed(i, r) \notin T /\ Delivered(i, r) \notin T
    <3>1. Consumed(i, r).revision = i /\ Delivered(i, r).revision = i
      BY DEF Consumed, Delivered
    <3> QED
      BY <1>2, <1>7, <3>1
  <2>2. /\ Consumed(i, r) \in outbox <=> r \in journal[i].rounds
        /\ Delivered(i, r) \in outbox <=> journal[i].letter = r /\ Arrives(r)
    BY DEF Posted, n
  <2>3. journal[i].letter = r => (Arrives(r)' <=> Arrives(r))
    BY <1>3, <1>5, <1>6
  <2> QED
    BY <1>1, <1>2, <2>1, <2>2, <2>3
<1>10. ASSUME NEW r \in Round
       PROVE  /\ Consumed(n + 1, r) \in outbox' <=> r \in journal'[n + 1].rounds
              /\ Delivered(n + 1, r) \in outbox' <=> journal'[n + 1].letter = r /\ Arrives(r)'
  <2>1. Consumed(n + 1, r) \notin outbox /\ Delivered(n + 1, r) \notin outbox
    <3>1. Consumed(n + 1, r).revision = n + 1 /\ Delivered(n + 1, r).revision = n + 1
      BY DEF Consumed, Delivered
    <3> QED
      BY <1>7, <3>1 DEF Posted, n
  <2>2. l = r => (Arrives(r)' <=> Arrives(r))
    BY <1>3, <1>4
  <2> QED
    BY <1>1, <1>2, <2>1, <2>2
<1> QED
  BY <1>1, <1>7, <1>8, <1>9, <1>10 DEF Posted

LEMMA SentCommit ==
    ASSUME TypeOK, journal \in Seq(Commit), Sent, MessagesSettledOnce,
           NEW c, NEW R, NEW l, NEW T, Commits(c, R, l, T), Moves(c, R, l)
    PROVE  Sent'
<1> DEFINE n == Len(journal)
<1>1. /\ n \in Nat /\ Len(journal') = n + 1
      /\ \A i \in 1..n : journal'[i] = journal[i] /\ journal[i] \in Commit
      /\ journal'[n + 1].letter = l
  BY JournalGrows
<1>2. l \in Round \cup {None}
  BY DEF Commits
<1>3. \A r \in Round : transit'[r] # None =>
         (transit[r] # None /\ transit'[r].sent = transit[r].sent) \/ transit'[r].sent = n + 1
  BY TransitMoves
<1>4. \A r \in Round : transit[r] # None => transit'[r] # None
  BY TransitMoves
<1>5. \A r \in Round : r = l => transit[r] # None
  BY TransitMoves
<1>6. /\ \A r \in Round : transit[r] # None => transit[r].sent \in 1..n
      /\ \A i \in 1..n : journal[i].letter # None => transit[journal[i].letter] # None
  BY DEF Sent
<1> HIDE DEF n
<1>7. 1..(n + 1) = (1..n) \cup {n + 1}
  BY <1>1
<1>8. \A i \in 1..n : journal[i].letter \in Round \cup {None}
  BY <1>1 DEF Commit
<1>9. \A r \in Round : transit'[r] # None => transit'[r].sent \in 1..(n + 1)
  BY <1>3, <1>6, <1>7
<1>10. \A i \in 1..(n + 1) : journal'[i].letter # None => transit'[journal'[i].letter] # None
  BY <1>1, <1>2, <1>4, <1>5, <1>6, <1>7, <1>8
<1> QED
  BY <1>1, <1>9, <1>10 DEF Sent

LEMMA SettledCommit ==
    ASSUME TypeOK, journal \in Seq(Commit), Sent, MessagesSettledOnce,
           NEW c, NEW R, NEW l, NEW T, Commits(c, R, l, T), Moves(c, R, l)
    PROVE  MessagesSettledOnce'
<1> DEFINE n == Len(journal)
           by(q) == {i \in DOMAIN journal : journal[i].letter = q}
<1>1. /\ n \in Nat /\ DOMAIN journal = 1..n /\ DOMAIN journal' = 1..(n + 1)
      /\ \A i \in 1..n : journal'[i] = journal[i]
      /\ journal'[n + 1] = [cycle |-> c, rounds |-> R, letter |-> l]
  BY JournalGrows
<1> SUFFICES ASSUME NEW r \in Round, transit'[r] # None
             PROVE  LET settled == {i \in DOMAIN journal' : journal'[i].letter = r} IN
                    /\ r \in journal'[transit'[r].sent].rounds
                    /\ Cardinality(settled) <= 1
                    /\ transit'[r].status = "transit" <=> settled = {}
                    /\ \A i \in settled :
                          /\ i > transit'[r].sent
                          /\ journal'[i].cycle = At(transit'[r].letter.due, 0)
  BY DEF MessagesSettledOnce
<1> DEFINE S == {i \in DOMAIN journal' : journal'[i].letter = r}
<1>2. /\ \A i \in 1..n : i \in S <=> i \in by(r)
      /\ n + 1 \in S <=> r = l
      /\ S \subseteq 1..(n + 1)
  BY <1>1
<1>3. by(r) \subseteq 1..n /\ 1..(n + 1) = (1..n) \cup {n + 1} /\ n + 1 \notin 1..n
  BY <1>1
<1>4. S = IF r = l THEN by(r) \cup {n + 1} ELSE by(r)
  BY <1>2, <1>3
<1>5. CASE transit[r] # None
  <2>1. /\ r \in journal[transit[r].sent].rounds /\ Cardinality(by(r)) <= 1
        /\ transit[r].status = "transit" <=> by(r) = {}
        /\ \A i \in by(r) : /\ i > transit[r].sent
                            /\ journal[i].cycle = At(transit[r].letter.due, 0)
    BY <1>5 DEF MessagesSettledOnce
  <2>2. transit[r].sent \in 1..n
    BY <1>5 DEF Sent
  <2>3. /\ transit'[r].letter = transit[r].letter /\ transit'[r].sent = transit[r].sent
        /\ r # l => transit'[r].status = transit[r].status
        /\ r = l => /\ transit[r].status = "transit" /\ transit'[r].status # "transit"
                    /\ c = At(transit[r].letter.due, 0)
    BY <1>5, TransitMoves DEF DueAt
  <2> HIDE DEF n, S, by
  <2>4. Cardinality({n + 1}) = 1
    BY FS_Singleton
  <2>5. Cardinality(S) <= 1
    <3>1. CASE r = l
      <4>1. S = {n + 1}
        BY <1>4, <2>1, <2>3, <3>1
      <4> QED
        BY <2>4, <4>1
    <3>2. CASE r # l
      BY <1>4, <2>1, <3>2
    <3> QED
      BY <3>1, <3>2
  <2>6. transit'[r].status = "transit" <=> S = {}
    BY <1>4, <2>1, <2>3
  <2>7. r \in journal'[transit'[r].sent].rounds
    BY <1>1, <2>1, <2>2, <2>3
  <2>8. ASSUME NEW i \in S
        PROVE  i > transit'[r].sent /\ journal'[i].cycle = At(transit'[r].letter.due, 0)
    <3>1. CASE i \in by(r)
      <4>1. i \in 1..n
        BY <1>3, <3>1
      <4> QED
        BY <1>1, <2>1, <2>3, <3>1, <4>1
    <3>2. CASE i = n + 1 /\ r = l
      <4>1. n + 1 > transit[r].sent
        BY <1>1, <2>2
      <4> QED
        BY <1>1, <2>3, <3>2, <4>1
    <3> QED
      BY <1>4, <3>1, <3>2
  <2> QED
    BY <2>5, <2>6, <2>7, <2>8 DEF S
<1>6. CASE transit[r] = None
  <2>1. r \in R /\ r # l /\ transit'[r].sent = n + 1 /\ transit'[r].status = "transit"
    BY <1>6, TransitMoves
  <2>2. by(r) = {}
    <3>1. \A i \in 1..n : journal[i].letter # None => transit[journal[i].letter] # None
      BY DEF Sent
    <3>2. r # None
      BY NoneAssumption
    <3> QED
      BY <1>6, <3>1, <3>2
  <2>3. S = {} /\ Cardinality({}) = 0
    BY <1>4, <2>1, <2>2, FS_EmptySet
  <2>4. r \in journal'[transit'[r].sent].rounds
    BY <1>1, <2>1
  <2> HIDE DEF S, by
  <2>5. Cardinality(S) <= 1
    BY <2>3
  <2> QED
    BY <2>1, <2>3, <2>4, <2>5 DEF S
<1> QED
  BY <1>5, <1>6

--------------------------------------------------------------------------------
(* Evidence.                                                               *)

\* Whom a posted task addresses.
LEMMA Addressed ==
    ASSUME TypeOK, journal \in Seq(Commit), Posted, Sent, NEW t \in outbox
    PROVE  /\ t \in Task
           /\ t.type = "round.consumed" =>
                 t.source \in Round /\ t = Consumed(t.revision, t.source)
           /\ t.type = "communication.delivered" =>
                 /\ t.source \in Round /\ t = Delivered(t.revision, t.source)
                 /\ transit[t.source] # None
           /\ Holders(t) \subseteq Actor
<1>1. t \in Task /\ t.revision \in 1..Len(journal)
      /\ (t.type \in {"round.consumed", "communication.delivered"} => t.source \in Round)
  BY DEF TypeOK, Posted
<1>2. t = [revision |-> t.revision, type |-> t.type, source |-> t.source]
  BY <1>1 DEF Task
<1>3. ASSUME t.type = "communication.delivered" PROVE transit[t.source] # None
  <2>1. Delivered(t.revision, t.source) \in outbox
    BY <1>2, <1>3 DEF Delivered
  <2>2. journal[t.revision].letter = t.source /\ t.source # None
    BY <1>1, <1>3, <2>1, NoneAssumption DEF Posted
  <2> QED
    BY <1>1, <2>2 DEF Sent
<1>4. Holders(t) \subseteq Actor
  <2>1. CASE t.type = "round.consumed"
    BY <1>1, <2>1, OwnerAssumption DEF Holders
  <2>2. CASE t.type = "communication.delivered"
    BY <1>1, <1>3, <2>2, TransitType DEF Holders
  <2>3. CASE t.type # "round.consumed" /\ t.type # "communication.delivered"
    BY <2>3 DEF Holders
  <2> QED
    BY <2>1, <2>2, <2>3
<1> QED
  BY <1>1, <1>2, <1>3, <1>4 DEF Consumed, Delivered

\* Whom a task addresses is settled when it is posted.
LEMMA HoldersStay ==
    ASSUME TypeOK, journal \in Seq(Commit), Posted, Sent,
           \A r \in Round : transit[r] # None => transit'[r].letter = transit[r].letter
    PROVE  \A t \in outbox : /\ Holders(t)' = Holders(t)
                             /\ ReceiptOf(t)' = ReceiptOf(t)
                             /\ EvidenceOf(t)' = EvidenceOf(t)
<1> SUFFICES ASSUME NEW t \in outbox
             PROVE  /\ Holders(t)' = Holders(t)
                    /\ ReceiptOf(t)' = ReceiptOf(t)
                    /\ EvidenceOf(t)' = EvidenceOf(t)
  OBVIOUS
<1>1. Holders(t)' = Holders(t)
  <2>1. CASE t.type = "round.consumed"
    BY <2>1 DEF Holders
  <2>2. CASE t.type = "communication.delivered"
    <3>1. t.source \in Round /\ transit[t.source] # None
      BY <2>2, Addressed
    <3>2. transit'[t.source].letter.to = transit[t.source].letter.to
      BY <3>1
    <3> QED
      BY <2>2, <3>2 DEF Holders
  <2>3. CASE t.type # "round.consumed" /\ t.type # "communication.delivered"
    BY <2>3 DEF Holders
  <2> QED
    BY <2>1, <2>2, <2>3
<1> QED
  BY <1>1 DEF ReceiptOf, EvidenceOf

\* What a worker that completes the task t leaves.
Learns(t) ==
    /\ evidence' = evidence \cup EvidenceOf(t)
    /\ receipts' = receipts \cup {ReceiptOf(t)}
    /\ UNCHANGED <<clk, journal, asking, transit, outbox>>

LEMMA Perceives ==
    ASSUME NEW t \in outbox, Perceive(t)
    PROVE  Learns(t)
<1>1. CASE CompleteInternalPerception(t)
  <2>1. Holders(t) = {}
    BY <1>1 DEF CompleteInternalPerception, Invisible, Holders
  <2>2. EvidenceOf(t) = {} /\ ReceiptOf(t) = [task |-> t, holders |-> {}]
    BY <2>1 DEF EvidenceOf, ReceiptOf
  <2> QED
    BY <1>1, <2>2 DEF CompleteInternalPerception, Completes, Learns
<1>2. CASE DeliverRoundPerception(t) \/ DeliverCommunicationPerception(t)
  BY <1>2 DEF DeliverRoundPerception, DeliverCommunicationPerception, Deliver, Completes,
              Learns
<1> QED
  BY <1>1, <1>2 DEF Perceive

\* Completing a task touches the records of that task only.
LEMMA LearnsOne ==
    ASSUME TypeOK, journal \in Seq(Commit), Posted, Sent, Filed, NEW t \in outbox, Learns(t)
    PROVE  /\ t \in Task /\ Holders(t) \subseteq Actor
           /\ \A e \in EvidenceOf(t) : e.task = t
           /\ \A x \in outbox : /\ Holders(x)' = Holders(x)
                                /\ ReceiptOf(x)' = ReceiptOf(x)
                                /\ EvidenceOf(x)' = EvidenceOf(x)
           /\ \A x : x # t => EvidenceFor(x)' = EvidenceFor(x)
           /\ EvidenceFor(t)' = EvidenceFor(t) \cup EvidenceOf(t)
<1>1. t \in Task /\ Holders(t) \subseteq Actor
  BY Addressed
<1>2. \A e \in EvidenceOf(t) : e.task = t
  BY <1>1, EvidenceTyped
<1>3. \A x \in outbox : /\ Holders(x)' = Holders(x)
                        /\ ReceiptOf(x)' = ReceiptOf(x)
                        /\ EvidenceOf(x)' = EvidenceOf(x)
  BY HoldersStay DEF Learns
<1>4. evidence' = evidence \cup EvidenceOf(t)
  BY DEF Learns
<1>5. EvidenceFor(t)' = EvidenceFor(t) \cup EvidenceOf(t)
  BY <1>2, <1>4 DEF EvidenceFor
<1>6. \A x : x # t => EvidenceFor(x)' = EvidenceFor(x)
  BY <1>2, <1>4 DEF EvidenceFor
<1> QED
  BY <1>1, <1>2, <1>3, <1>5, <1>6

LEMMA AttestedLearn ==
    ASSUME TypeOK, journal \in Seq(Commit), Posted, Sent, Filed, EvidenceAttested,
           NEW t \in outbox, Learns(t)
    PROVE  Filed' /\ EvidenceAttested'
<1>1. /\ evidence' = evidence \cup EvidenceOf(t) /\ outbox' = outbox
      /\ receipts' = receipts \cup {ReceiptOf(t)}
  BY DEF Learns
<1>2. /\ \A e \in EvidenceOf(t) : e.task = t
      /\ \A x \in outbox : ReceiptOf(x)' = ReceiptOf(x) /\ EvidenceOf(x)' = EvidenceOf(x)
      /\ \A x : x # t => EvidenceFor(x)' = EvidenceFor(x)
      /\ EvidenceFor(t)' = EvidenceFor(t) \cup EvidenceOf(t)
  BY LearnsOne
<1>3. Filed'
  BY <1>1, <1>2 DEF Filed
<1>4. ASSUME NEW e \in evidence'
      PROVE  ReceiptOf(e.task)' \in receipts' /\ EvidenceFor(e.task)' = EvidenceOf(e.task)'
  <2>1. CASE e.task = t
    <3>1. EvidenceFor(t) = {} \/ EvidenceFor(t) = EvidenceOf(t)
      BY DEF EvidenceAttested, EvidenceFor
    <3> QED
      BY <1>1, <1>2, <2>1, <3>1
  <2>2. CASE e.task # t
    <3>1. e \in evidence /\ e.task \in outbox
      BY <1>1, <1>2, <2>2 DEF Filed
    <3>2. ReceiptOf(e.task) \in receipts /\ EvidenceFor(e.task) = EvidenceOf(e.task)
      BY <3>1 DEF EvidenceAttested
    <3> QED
      BY <1>1, <1>2, <2>2, <3>1, <3>2
  <2> QED
    BY <2>1, <2>2
<1> QED
  BY <1>3, <1>4 DEF EvidenceAttested

LEMMA AttestedCommit ==
    ASSUME TypeOK, journal \in Seq(Commit), Posted, Sent, Filed, EvidenceAttested,
           UNCHANGED known, outbox \subseteq outbox',
           \A r \in Round : transit[r] # None => transit'[r].letter = transit[r].letter
    PROVE  Filed' /\ EvidenceAttested'
<1>1. evidence' = evidence /\ receipts' = receipts
  BY DEF known
<1>2. \A x : EvidenceFor(x)' = EvidenceFor(x)
  BY <1>1 DEF EvidenceFor
<1>3. \A x \in outbox : ReceiptOf(x)' = ReceiptOf(x) /\ EvidenceOf(x)' = EvidenceOf(x)
  BY HoldersStay
<1>4. Filed'
  BY <1>1 DEF Filed
<1> QED
  BY <1>1, <1>2, <1>3, <1>4 DEF EvidenceAttested, Filed

--------------------------------------------------------------------------------
(* The barrier.                                                            *)

\* What has been perceived stays perceived, whoever works on the outbox.
LEMMA PerceivedLearn ==
    ASSUME TypeOK, journal \in Seq(Commit), Posted, Sent, Filed, EvidenceAttested,
           NEW t \in outbox, Learns(t), NEW base, Perceived(base)
    PROVE  Perceived(base)'
<1>1. outbox' = outbox /\ journal' = journal /\ receipts' = receipts \cup {ReceiptOf(t)}
  BY DEF Learns
<1>2. /\ \A x \in outbox : ReceiptOf(x)' = ReceiptOf(x) /\ EvidenceOf(x)' = EvidenceOf(x)
      /\ \A x : x # t => EvidenceFor(x)' = EvidenceFor(x)
      /\ EvidenceFor(t)' = EvidenceFor(t) \cup EvidenceOf(t)
  BY LearnsOne
<1>3. ASSUME NEW x \in outbox, x.revision <= base
      PROVE  ReceiptOf(x)' \in receipts' /\ EvidenceFor(x)' = EvidenceOf(x)'
  <2>1. ReceiptOf(x) \in receipts /\ EvidenceFor(x) = EvidenceOf(x)
    BY <1>3 DEF Perceived
  <2> QED
    BY <1>1, <1>2, <2>1
<1> QED
  BY <1>1, <1>3 DEF Perceived

LEMMA PerceivedCommit ==
    ASSUME TypeOK, journal \in Seq(Commit), Posted, Sent, MessagesSettledOnce,
           NEW c, NEW R, NEW l, NEW T, Commits(c, R, l, T), TasksFor(R, l, T), Moves(c, R, l),
           NEW base \in Nat, Perceived(base)
    PROVE  Perceived(base)'
<1>1. /\ Len(journal) \in Nat /\ clk.revision = Len(journal)
      /\ Len(journal') = Len(journal) + 1
  BY JournalGrows
<1>2. base <= Len(journal)
  BY DEF Perceived
<1>3. /\ outbox' = outbox \cup T /\ evidence' = evidence /\ receipts' = receipts
      /\ \A x \in T : x.revision = Len(journal) + 1
  BY <1>1 DEF Commits, TasksFor, known
<1>4. \A x \in outbox : ReceiptOf(x)' = ReceiptOf(x) /\ EvidenceOf(x)' = EvidenceOf(x)
  <2>1. \A r \in Round : transit[r] # None => transit'[r].letter = transit[r].letter
    BY TransitMoves
  <2> QED
    BY <2>1, HoldersStay
<1>5. \A x : EvidenceFor(x)' = EvidenceFor(x)
  BY <1>3 DEF EvidenceFor
<1>6. \A x \in outbox' : x.revision <= base => x \in outbox
  BY <1>1, <1>2, <1>3
<1>7. base <= Len(journal')
  BY <1>1, <1>2
<1> QED
  BY <1>3, <1>4, <1>5, <1>6, <1>7 DEF Perceived

--------------------------------------------------------------------------------
(* The rounds.                                                             *)

Asks(r) == (\E c \in Openings[r] : DeclareRound(r, c)) \/ Dispatch(r) \/ Revoke(r) \/ Answer(r)

LEMMA Steps ==
    ASSUME [Next]_vars
    PROVE  \/ Drive
           \/ \E t \in outbox : Perceive(t)
           \/ \E r \in Round : Asks(r)
           \/ UNCHANGED vars
BY DEF Next, Asks

\* Asking and answering leaves what has happened alone.
LEMMA AsksOnly ==
    ASSUME NEW r, Asks(r) \/ UNCHANGED vars
    PROVE  UNCHANGED <<clk, journal, transit, outbox, receipts, evidence>>
BY DEF Asks, DeclareRound, Dispatch, Revoke, Answer, Respond, vars, known

LEMMA TypeAsk ==
    ASSUME TypeOK, NEW r \in Round, Asks(r)
    PROVE  TypeOK'
<1>1. clk \in ClockState /\ seat \in [Round -> SeatState] /\ seat[r] \in SeatState
  BY DEF TypeOK
<1>2. UNCHANGED <<clk, journal, transit, outbox, receipts, evidence>>
  BY AsksOnly
<1>3. ASSUME NEW c \in Openings[r], DeclareRound(r, c) PROVE TypeOK'
  <2>1. c \in Coordinate
    BY <1>3, RunOpeningsAssumption
  <2>2. opened' \in [Round -> Coordinate \cup {None}] /\ seat' = seat
    BY <1>3, <2>1 DEF DeclareRound, TypeOK
  <2> QED
    BY <1>2, <2>2 DEF TypeOK
<1>4. ASSUME NEW x \in SeatState, opened' = opened, seat' = [seat EXCEPT ![r] = x] PROVE TypeOK'
  <2>1. seat' \in [Round -> SeatState]
    BY <1>1, <1>4
  <2> QED
    BY <1>2, <1>4, <2>1 DEF TypeOK
<1>5. CASE Dispatch(r)
  <2> DEFINE x == [status |-> "open", cycle |-> Floor(clk), base |-> clk.revision,
                   answer |-> None, count |-> seat[r].count + 1]
  <2>1. seat[r].count + 1 \in 0..MaxDispatch
    BY <1>1, <1>5, RunBoundsAssumption DEF Dispatch, CanDispatch, SeatState
  <2>2. Floor(clk) \in Coordinate /\ clk.revision \in Nat
    BY <1>1, FloorType DEF ClockState
  <2>3. x \in SeatState
    BY <2>1, <2>2 DEF SeatState
  <2>4. opened' = opened /\ seat' = [seat EXCEPT ![r] = x]
    BY <1>5 DEF Dispatch
  <2> HIDE DEF x
  <2> QED
    BY <1>4, <2>3, <2>4
<1>6. CASE Revoke(r)
  <2> DEFINE x == [seat[r] EXCEPT !.status = "revoked"]
  <2>1. x \in SeatState
    BY <1>1 DEF SeatState
  <2>2. opened' = opened /\ seat' = [seat EXCEPT ![r] = x]
    BY <1>6 DEF Revoke
  <2> HIDE DEF x
  <2> QED
    BY <1>4, <2>1, <2>2
<1>7. CASE Answer(r)
  <2>1. PICK y \in Letters \cup {None} : Respond(r, y)
    BY <1>7 DEF Answer
  <2>2. seat' \in [Round -> SeatState] /\ opened' = opened
    BY <1>1, <2>1 DEF Respond, SeatState
  <2> QED
    BY <1>2, <2>2 DEF TypeOK
<1> QED
  BY <1>3, <1>5, <1>6, <1>7 DEF Asks

LEMMA TypeLearn ==
    ASSUME TypeOK, journal \in Seq(Commit), Posted, Sent, NEW t \in outbox, Learns(t)
    PROVE  TypeOK'
<1>1. ReceiptOf(t) \in Receipt /\ EvidenceOf(t) \subseteq Evidence
  BY Addressed, EvidenceTyped
<1> QED
  BY <1>1 DEF Learns, TypeOK, asking

LEMMA TypeCommit ==
    ASSUME TypeOK, journal \in Seq(Commit), Sent, MessagesSettledOnce,
           NEW c, NEW R, NEW l, NEW T, Commits(c, R, l, T), TasksFor(R, l, T), Moves(c, R, l)
    PROVE  TypeOK' /\ journal' \in Seq(Commit)
<1>1. /\ journal' \in Seq(Commit) /\ clk.revision = Len(journal)
      /\ Len(journal') = Len(journal) + 1
  BY JournalGrows
<1>2. /\ clk' \in ClockState /\ clk'.revision = clk.revision + 1
      /\ opened' = opened /\ seat' = seat /\ receipts' = receipts /\ evidence' = evidence
      /\ outbox' = outbox \cup T
  BY DEF Commits, asking, known
<1>3. transit' \in [Round -> Transmission \cup {None}]
  BY TransitMoves
<1>4. T \subseteq Task
  BY DEF TasksFor
<1>5. \A i \in DOMAIN journal' : journal'[i] \in Commit
  BY <1>1
<1> QED
  BY <1>1, <1>2, <1>3, <1>4, <1>5 DEF TypeOK

\* A slot is asked behind the barrier.
LEMMA SeatsAsk ==
    ASSUME TypeOK, SeatsPerceived, NEW r \in Round, Asks(r)
    PROVE  SeatsPerceived'
<1>1. UNCHANGED <<clk, journal, transit, outbox, receipts, evidence>>
  BY AsksOnly
<1>2. \A b \in Nat : Perceived(b) => Perceived(b)'
  BY <1>1 DEF Perceived, ReceiptOf, EvidenceFor, EvidenceOf, Holders
<1>3. \A q \in Round : seat[q] \in SeatState /\ seat[q].base \in Nat
  BY DEF TypeOK, SeatState
<1>4. \A q \in Round : q # r => seat'[q] = seat[q]
  BY DEF Asks, DeclareRound, Dispatch, Revoke, Answer, Respond, TypeOK
<1>5. seat'[r].status # "none" =>
         \/ seat[r].status # "none" /\ seat'[r].base = seat[r].base
         \/ seat'[r].base = clk.revision /\ Perceived(clk.revision)
  <2>1. CASE \E c \in Openings[r] : DeclareRound(r, c)
    BY <2>1 DEF DeclareRound
  <2>2. CASE Dispatch(r)
    <3>1. seat'[r].base = clk.revision
      BY <2>2 DEF Dispatch, TypeOK
    <3> QED
      BY <2>2, <3>1 DEF Dispatch, CanDispatch
  <2>3. CASE Revoke(r)
    BY <1>3, <2>3 DEF Revoke, TypeOK, SeatState
  <2>4. CASE Answer(r)
    BY <1>3, <2>4 DEF Answer, Respond, TypeOK, SeatState
  <2> QED
    BY <2>1, <2>2, <2>3, <2>4 DEF Asks
<1>6. clk.revision \in Nat
  BY DEF TypeOK, ClockState
<1>7. \A q \in Round : seat'[q].status # "none" =>
         \E b \in Nat : b = seat'[q].base /\ Perceived(b)
  BY <1>3, <1>4, <1>5, <1>6 DEF SeatsPerceived
<1> QED
  BY <1>2, <1>7 DEF SeatsPerceived, Perceived

LEMMA SeatsStay ==
    ASSUME TypeOK, SeatsPerceived, UNCHANGED seat, \A b \in Nat : Perceived(b) => Perceived(b)'
    PROVE  SeatsPerceived'
<1>1. \A q \in Round : seat[q].base \in Nat
  BY DEF TypeOK, SeatState
<1>2. \A q \in Round : seat'[q].status # "none" =>
         \E b \in Nat : b = seat'[q].base /\ Perceived(b)
  BY <1>1 DEF SeatsPerceived
<1> QED
  BY <1>2 DEF SeatsPerceived, Perceived

--------------------------------------------------------------------------------
(* The theorems.                                                           *)

LEMMA ConsistentInit == Init => Consistent
<1> SUFFICES ASSUME Init PROVE Consistent
  OBVIOUS
<1>1. journal = <<>> /\ journal \in Seq(Commit) /\ Len(journal) = 0 /\ DOMAIN journal = {}
  BY DEF Init
<1>2. Vacant \in SeatState
  BY RunBoundsAssumption DEF Vacant, SeatState, Coordinate
<1>3. clk \in ClockState /\ clk.revision = 0
  BY RunBoundsAssumption DEF Init, ClockState
<1>4. TypeOK
  BY <1>1, <1>2, <1>3 DEF Init, TypeOK
<1>5. Posted /\ Sent /\ MessagesSettledOnce /\ Filed /\ EvidenceAttested
  BY <1>1 DEF Init, Posted, Sent, MessagesSettledOnce, Filed, EvidenceAttested
<1>6. SeatsPerceived
  BY DEF Init, SeatsPerceived, Vacant
<1> QED
  BY <1>1, <1>4, <1>5, <1>6 DEF Consistent

\* Whether messages are settled once is told from the journal and the messages.
SettledIn(j, messages) ==
    \A r \in Round : messages[r] # None =>
        LET settled == {i \in DOMAIN j : j[i].letter = r} IN
        /\ r \in j[messages[r].sent].rounds
        /\ Cardinality(settled) <= 1
        /\ messages[r].status = "transit" <=> settled = {}
        /\ \A i \in settled :
              /\ i > messages[r].sent
              /\ j[i].cycle = At(messages[r].letter.due, 0)

LEMMA OnlyTheJournalSettles ==
    ASSUME UNCHANGED <<journal, transit>>
    PROVE  MessagesSettledOnce' <=> MessagesSettledOnce
<1>1. MessagesSettledOnce <=> SettledIn(journal, transit)
  BY Zenon DEF MessagesSettledOnce, SettledIn
<1>2. MessagesSettledOnce' <=> SettledIn(journal', transit')
  BY Zenon DEF MessagesSettledOnce, SettledIn
<1>3. journal' = journal /\ transit' = transit
  OBVIOUS
<1> QED
  BY <1>1, <1>2, <1>3

LEMMA ConsistentStep == Consistent /\ [Next]_vars => Consistent'
<1> SUFFICES ASSUME Consistent, [Next]_vars PROVE Consistent'
  OBVIOUS
<1>1. /\ TypeOK /\ journal \in Seq(Commit)
      /\ Posted /\ Sent /\ MessagesSettledOnce
      /\ Filed /\ EvidenceAttested
      /\ SeatsPerceived
  BY DEF Consistent
<1>2. ASSUME UNCHANGED <<clk, journal, transit, outbox>>
      PROVE  journal' \in Seq(Commit) /\ Posted' /\ Sent' /\ MessagesSettledOnce'
  <2>1. journal' \in Seq(Commit) /\ Posted' /\ Sent'
    BY <1>1, <1>2 DEF Posted, Sent, Arrives
  <2>2. UNCHANGED <<journal, transit>>
    BY <1>2
  <2>3. MessagesSettledOnce' <=> MessagesSettledOnce
    BY <2>2, OnlyTheJournalSettles
  <2> QED
    BY <1>1, <2>1, <2>3
<1>3. ASSUME UNCHANGED <<transit, outbox, receipts, evidence>>
      PROVE  Filed' /\ EvidenceAttested'
  BY <1>1, <1>3 DEF Filed, EvidenceAttested, ReceiptOf, EvidenceFor, EvidenceOf, Holders
<1>4. CASE UNCHANGED vars
  <2>1. UNCHANGED <<clk, journal, transit, outbox, receipts, evidence, opened, seat>>
    BY <1>4 DEF vars, asking, known
  <2>2. TypeOK'
    BY <1>1, <2>1 DEF TypeOK
  <2>3. SeatsPerceived'
    <3>1. \A t : /\ ReceiptOf(t)' = ReceiptOf(t) /\ EvidenceFor(t)' = EvidenceFor(t)
                 /\ EvidenceOf(t)' = EvidenceOf(t)
      BY <2>1 DEF ReceiptOf, EvidenceFor, EvidenceOf, Holders
    <3>2. \A n : Perceived(n)' <=> Perceived(n)
      BY <2>1, <3>1 DEF Perceived
    <3> QED
      BY <1>1, <2>1, <3>2 DEF SeatsPerceived
  <2> QED
    BY <1>2, <1>3, <2>1, <2>2, <2>3 DEF Consistent
<1>5. ASSUME NEW r \in Round, Asks(r) PROVE Consistent'
  <2>1. UNCHANGED <<clk, journal, transit, outbox, receipts, evidence>>
    BY <1>5, AsksOnly
  <2>2. TypeOK' /\ SeatsPerceived'
    BY <1>1, <1>5, TypeAsk, SeatsAsk
  <2> QED
    BY <1>2, <1>3, <2>1, <2>2 DEF Consistent
<1>6. ASSUME NEW t \in outbox, Perceive(t) PROVE Consistent'
  <2>1. Learns(t)
    BY <1>6, Perceives
  <2>2. UNCHANGED <<clk, journal, transit, outbox>> /\ UNCHANGED seat
    BY <2>1 DEF Learns, asking
  <2>3. TypeOK'
    BY <1>1, <2>1, TypeLearn
  <2>4. Filed' /\ EvidenceAttested'
    BY <1>1, <2>1, AttestedLearn
  <2>5. \A b \in Nat : Perceived(b) => Perceived(b)'
    BY <1>1, <2>1, PerceivedLearn
  <2>6. SeatsPerceived'
    BY <1>1, <2>2, <2>5, SeatsStay
  <2> QED
    BY <1>2, <2>2, <2>3, <2>4, <2>6 DEF Consistent
<1>7. CASE Drive
  <2>1. PICK c, R, l, T : Commits(c, R, l, T) /\ TasksFor(R, l, T) /\ Moves(c, R, l)
    BY <1>1, <1>7, DriveCommits
  <2>2. TypeOK' /\ journal' \in Seq(Commit)
    BY <1>1, <2>1, TypeCommit
  <2>3. Posted' /\ Sent' /\ MessagesSettledOnce'
    BY <1>1, <2>1, PostedCommit, SentCommit, SettledCommit
  <2>4. Filed' /\ EvidenceAttested'
    <3>1. \A r \in Round : transit[r] # None => transit'[r].letter = transit[r].letter
      BY <1>1, <2>1, TransitMoves
    <3>2. UNCHANGED known /\ outbox \subseteq outbox'
      BY <2>1 DEF Commits
    <3> QED
      BY <1>1, <3>1, <3>2, AttestedCommit
  <2>5. \A b \in Nat : Perceived(b) => Perceived(b)'
    BY <1>1, <2>1, PerceivedCommit
  <2>6. SeatsPerceived'
    <3>1. UNCHANGED seat
      BY <2>1 DEF Commits, asking
    <3> QED
      BY <1>1, <2>5, <3>1, SeatsStay
  <2> QED
    BY <2>2, <2>3, <2>4, <2>6 DEF Consistent
<1> QED
  BY <1>4, <1>5, <1>6, <1>7, Steps

LEMMA AlwaysConsistent == Spec => []Consistent
BY ConsistentInit, ConsistentStep, PTL DEF Spec

\* Every row of the run has its type: the clock, the journal, the seats, the
\* transmissions, the outbox and the evidence.
THEOREM RunTyped == Spec => []TypeOK
<1>1. Consistent => TypeOK
  BY DEF Consistent
<1> QED
  BY <1>1, AlwaysConsistent, PTL

\* A message is sent by one commit and settled by at most one, a later one, at the
\* coordinate it is due.
THEOREM MessagesAreSettledOnce == Spec => []MessagesSettledOnce
<1>1. Consistent => MessagesSettledOnce
  BY DEF Consistent
<1> QED
  BY <1>1, AlwaysConsistent, PTL

\* Evidence exists only together with the completion that lists it.
THEOREM EvidenceIsAttested == Spec => []EvidenceAttested
<1>1. Consistent => EvidenceAttested
  BY DEF Consistent
<1> QED
  BY <1>1, AlwaysConsistent, PTL

\* What the commits have for an actor.
LEMMA AddressedIs ==
    ASSUME NEW a, NEW b \in Nat, NEW t
    PROVE  t \in AddressedTo(a, b) <=>
              \E i \in 1..b, r \in Round :
                 \/ t = Consumed(i, r) /\ r \in journal[i].rounds /\ Owner[r] = a
                 \/ /\ t = Delivered(i, r) /\ journal[i].letter = r /\ Arrives(r)
                    /\ transit[r].letter.to = a
<1> DEFINE P == {j \in (1..b) \X Round : j[2] \in journal[j[1]].rounds /\ Owner[j[2]] = a}
           Q == {j \in (1..b) \X Round : /\ journal[j[1]].letter = j[2]
                                         /\ transit[j[2]].letter.to = a
                                         /\ transit[j[2]].letter.channel = "school.message.v1"}
<1>1. t \in AddressedTo(a, b) <=>
         \/ \E j \in P : t = Consumed(j[1], j[2])
         \/ \E j \in Q : t = Delivered(j[1], j[2])
  BY DEF AddressedTo, Consumed, Delivered
<1>2. (\E j \in P : t = Consumed(j[1], j[2])) <=>
         \E i \in 1..b, r \in Round :
            t = Consumed(i, r) /\ r \in journal[i].rounds /\ Owner[r] = a
  <2>1. ASSUME NEW j \in P, t = Consumed(j[1], j[2])
        PROVE  \E i \in 1..b, r \in Round :
                  t = Consumed(i, r) /\ r \in journal[i].rounds /\ Owner[r] = a
    BY <2>1
  <2>2. ASSUME NEW i \in 1..b, NEW r \in Round,
               t = Consumed(i, r), r \in journal[i].rounds, Owner[r] = a
        PROVE  \E j \in P : t = Consumed(j[1], j[2])
    <3>1. <<i, r>> \in P /\ <<i, r>>[1] = i /\ <<i, r>>[2] = r
      BY <2>2
    <3> QED
      BY <2>2, <3>1
  <2> QED
    BY <2>1, <2>2
<1>3. (\E j \in Q : t = Delivered(j[1], j[2])) <=>
         \E i \in 1..b, r \in Round :
            /\ t = Delivered(i, r) /\ journal[i].letter = r /\ Arrives(r)
            /\ transit[r].letter.to = a
  <2>1. ASSUME NEW j \in Q, t = Delivered(j[1], j[2])
        PROVE  \E i \in 1..b, r \in Round :
                  /\ t = Delivered(i, r) /\ journal[i].letter = r /\ Arrives(r)
                  /\ transit[r].letter.to = a
    BY <2>1 DEF Arrives
  <2>2. ASSUME NEW i \in 1..b, NEW r \in Round, t = Delivered(i, r),
               journal[i].letter = r, Arrives(r), transit[r].letter.to = a
        PROVE  \E j \in Q : t = Delivered(j[1], j[2])
    <3>1. <<i, r>> \in Q /\ <<i, r>>[1] = i /\ <<i, r>>[2] = r
      BY <2>2 DEF Arrives
    <3> QED
      BY <2>2, <3>1
  <2> QED
    BY <2>1, <2>2
<1> HIDE DEF P, Q
<1> QED
  BY <1>1, <1>2, <1>3

\* An inbox holds exactly what the commits up to the dispatch have for its actor: the
\* barrier was passed when the slot was asked, and what lies before it never changes.
THEOREM InboxesExact == Spec => []InboxExact
<1>1. ASSUME Consistent, NEW r \in Round, Bindable(r)
      PROVE  Perceived(seat[r].base) /\ Inbox(r) = AddressedTo(Owner[r], seat[r].base)
  <2> DEFINE a == Owner[r]
             b == seat[r].base
  <2>1. /\ TypeOK /\ journal \in Seq(Commit) /\ Posted /\ Sent
        /\ Perceived(b) /\ b \in Nat /\ b <= Len(journal) /\ Len(journal) \in Nat
    BY <1>1 DEF Consistent, Bindable, SeatsPerceived, TypeOK, SeatState, Perceived
  <2> HIDE DEF a, b
  <2>2. 1..b \subseteq 1..Len(journal)
    BY <2>1
  <2>3. \A t : t \in Inbox(r) <=> t \in outbox /\ t.revision \in 1..b /\ a \in Holders(t)
    <3>1. ASSUME NEW t \in outbox, t.revision <= b
          PROVE  [task |-> t, holder |-> a, kind |-> "input"] \in evidence <=> a \in Holders(t)
      <4>1. EvidenceFor(t) = EvidenceOf(t)
        BY <2>1, <3>1 DEF Perceived
      <4>2. t \in Task /\ Holders(t) \subseteq Actor
        BY <2>1, Addressed
      <4>3. [task |-> t, holder |-> a, kind |-> "input"] \in EvidenceOf(t) <=> a \in Holders(t)
        BY <4>2, EvidenceTyped
      <4>4. [task |-> t, holder |-> a, kind |-> "input"] \in EvidenceFor(t)
               <=> [task |-> t, holder |-> a, kind |-> "input"] \in evidence
        BY DEF EvidenceFor
      <4> QED
        BY <4>1, <4>3, <4>4
    <3>2. \A t \in outbox : t.revision \in 1..b <=> t.revision <= b
      BY <2>1 DEF Posted
    <3> QED
      BY <3>1, <3>2 DEF Inbox, a, b
  <2>4. ASSUME NEW t \in outbox, t.revision \in 1..b, a \in Holders(t)
        PROVE  t \in AddressedTo(a, b)
    <3>1. CASE t.type = "round.consumed"
      <4>1. t.source \in Round /\ t = Consumed(t.revision, t.source)
        BY <2>1, <3>1, Addressed
      <4>2. t.source \in journal[t.revision].rounds /\ Owner[t.source] = a
        BY <2>1, <2>2, <2>4, <3>1, <4>1 DEF Posted, Holders
      <4> QED
        BY <2>1, <2>4, <4>1, <4>2, AddressedIs
    <3>2. CASE t.type = "communication.delivered"
      <4>1. t.source \in Round /\ t = Delivered(t.revision, t.source)
        BY <2>1, <3>2, Addressed
      <4>2. /\ journal[t.revision].letter = t.source /\ Arrives(t.source)
            /\ transit[t.source].letter.to = a
        BY <2>1, <2>2, <2>4, <3>2, <4>1 DEF Posted, Holders
      <4> QED
        BY <2>1, <2>4, <4>1, <4>2, AddressedIs
    <3>3. CASE t.type # "round.consumed" /\ t.type # "communication.delivered"
      BY <2>4, <3>3 DEF Holders
    <3> QED
      BY <3>1, <3>2, <3>3
  <2>5. ASSUME NEW t \in AddressedTo(a, b)
        PROVE  t \in outbox /\ t.revision \in 1..b /\ a \in Holders(t)
    <3>1. PICK i \in 1..b, q \in Round :
             \/ t = Consumed(i, q) /\ q \in journal[i].rounds /\ Owner[q] = a
             \/ /\ t = Delivered(i, q) /\ journal[i].letter = q /\ Arrives(q)
                /\ transit[q].letter.to = a
      BY <2>1, <2>5, AddressedIs
    <3>2. t \in outbox
      BY <2>1, <2>2, <3>1 DEF Posted
    <3>3. t.revision = i /\ t.source = q
      BY <3>1 DEF Consumed, Delivered
    <3>4. a \in Holders(t)
      BY <3>1 DEF Holders, Consumed, Delivered
    <3> QED
      BY <3>2, <3>3, <3>4
  <2>6. Inbox(r) = AddressedTo(a, b)
    BY <2>3, <2>4, <2>5
  <2> QED
    BY <2>1, <2>6 DEF a, b
<1>2. Consistent => InboxExact
  BY <1>1 DEF InboxExact
<1> QED
  BY <1>2, AlwaysConsistent, PTL

--------------------------------------------------------------------------------
(* The slot of each round keeps the promise of SlotContract, which         *)
(* SlotLedger keeps with the rows of one file.                             *)

SeatPhase(x) ==
    CASE x.status = "none" -> [phase |-> "unasked"]
      [] x.status = "open" -> [phase |-> "asked", request |-> x.count - 1]
      [] x.status = "revoked" -> [phase |-> "revoked", request |-> x.count - 1]
      [] OTHER -> [phase |-> "filled", request |-> x.count - 1, answer |-> x.answer]

SeatPhases == [q \in Round |-> SeatPhase(seat[q])]

RoundSlots == INSTANCE SlotContract
    WITH Slot <- Round, Reply <- Letters \cup {None}, slot <- SeatPhases

\* A slot that was asked has a number of dispatches, one that was not has none.
SeatsCounted ==
    \A q \in Round :
        IF seat[q].status = "none" THEN seat[q].count = 0 ELSE seat[q].count > 0

LEMMA SeatCases ==
    ASSUME TypeOK, [Next]_vars
    PROVE  \/ \E r \in Round : Dispatch(r) \/ Revoke(r) \/ Answer(r)
           \/ UNCHANGED seat
<1>1. Drive => UNCHANGED seat
  BY DriveCommits DEF Commits, asking
<1>2. \A t \in outbox : Perceive(t) => UNCHANGED seat
  BY Perceives DEF Learns, asking
<1>3. \A r, c : DeclareRound(r, c) => UNCHANGED seat
  BY DEF DeclareRound
<1>4. UNCHANGED vars => UNCHANGED seat
  BY DEF vars, asking
<1> QED
  BY <1>1, <1>2, <1>3, <1>4, Steps DEF Asks

\* The seat that a call leaves.
LEMMA SeatCalls ==
    ASSUME TypeOK, NEW r \in Round
    PROVE  LET x == seat[r] IN
           /\ x \in SeatState /\ x.count \in Nat
           /\ Dispatch(r) =>
                 /\ x.status \in {"none", "revoked"}
                 /\ \E y : /\ seat' = [seat EXCEPT ![r] = y]
                           /\ y.status = "open" /\ y.count = x.count + 1
           /\ Revoke(r) =>
                 /\ x.status = "open"
                 /\ \E y : /\ seat' = [seat EXCEPT ![r] = y]
                           /\ y.status = "revoked" /\ y.count = x.count
           /\ Answer(r) =>
                 /\ x.status = "open"
                 /\ \E y, a : /\ seat' = [seat EXCEPT ![r] = y]
                              /\ y.status = "filled" /\ y.count = x.count
                              /\ a \in Letters \cup {None} /\ y.answer = a
<1> DEFINE x == seat[r]
<1>1. x \in SeatState
  BY DEF TypeOK
<1>2. x.count \in Nat
  BY <1>1, RunBoundsAssumption DEF SeatState
<1>3. ASSUME Dispatch(r)
      PROVE  /\ x.status \in {"none", "revoked"}
             /\ \E y : /\ seat' = [seat EXCEPT ![r] = y]
                       /\ y.status = "open" /\ y.count = x.count + 1
  <2>1. PICK y : y = [status |-> "open", cycle |-> Floor(clk),
                      base |-> clk.revision, answer |-> None, count |-> x.count + 1]
    OBVIOUS
  <2>2. seat' = [seat EXCEPT ![r] = y] /\ x.status \in {"none", "revoked"}
    BY <1>3, <2>1 DEF Dispatch, CanDispatch
  <2>3. y.status = "open" /\ y.count = x.count + 1
    BY <2>1
  <2> QED
    BY <2>2, <2>3
<1>4. ASSUME Revoke(r)
      PROVE  /\ x.status = "open"
             /\ \E y : /\ seat' = [seat EXCEPT ![r] = y]
                       /\ y.status = "revoked" /\ y.count = x.count
  <2>1. PICK y : y = [x EXCEPT !.status = "revoked"]
    OBVIOUS
  <2>2. y.status = "revoked" /\ y.count = x.count
    BY <1>1, <2>1 DEF SeatState
  <2>3. x.status = "open" /\ seat' = [seat EXCEPT ![r] = y]
    BY <1>4, <2>1 DEF Revoke
  <2> QED
    BY <2>2, <2>3
<1>5. ASSUME Answer(r)
      PROVE  /\ x.status = "open"
             /\ \E y, a : /\ seat' = [seat EXCEPT ![r] = y]
                          /\ y.status = "filled" /\ y.count = x.count
                          /\ a \in Letters \cup {None} /\ y.answer = a
  <2>1. PICK a \in Letters \cup {None} : Respond(r, a)
    BY <1>5 DEF Answer
  <2>2. PICK y : y = [x EXCEPT !.status = "filled", !.answer = a]
    OBVIOUS
  <2>3. y.status = "filled" /\ y.count = x.count /\ y.answer = a
    BY <1>1, <2>2 DEF SeatState
  <2>4. x.status = "open" /\ seat' = [seat EXCEPT ![r] = y]
    BY <1>1, <2>1, <2>2 DEF Respond, TypeOK
  <2> QED
    BY <2>3, <2>4
<1> QED
  BY <1>1, <1>2, <1>3, <1>4, <1>5

LEMMA SeatsCountedStep ==
    TypeOK /\ SeatsCounted /\ [Next]_vars => SeatsCounted'
<1> SUFFICES ASSUME TypeOK, SeatsCounted, [Next]_vars PROVE SeatsCounted'
  OBVIOUS
<1>1. ASSUME NEW r \in Round, NEW y, seat' = [seat EXCEPT ![r] = y],
             y.status # "none", y.count > 0
      PROVE  SeatsCounted'
  BY <1>1 DEF SeatsCounted, TypeOK
<1>2. ASSUME NEW r \in Round, Dispatch(r) \/ Revoke(r) \/ Answer(r)
      PROVE  SeatsCounted'
  <2>1. PICK x, y : /\ x = seat[r] /\ seat' = [seat EXCEPT ![r] = y]
                    /\ \/ y.status = "open" /\ y.count = x.count + 1
                       \/ /\ y.status \in {"revoked", "filled"}
                          /\ y.count = x.count /\ x.status = "open"
    BY <1>2, SeatCalls
  <2>2. x.count \in Nat /\ (x.status = "open" => x.count > 0)
    BY <2>1, SeatCalls DEF SeatsCounted
  <2>3. y.status # "none" /\ y.count > 0
    BY <2>1, <2>2
  <2> QED
    BY <1>1, <2>1, <2>3
<1>3. CASE UNCHANGED seat
  BY <1>3 DEF SeatsCounted
<1> QED
  BY <1>2, <1>3, SeatCases

LEMMA RoundSlotsStep ==
    TypeOK /\ SeatsCounted /\ [Next]_vars => [RoundSlots!Next]_SeatPhases
<1> SUFFICES ASSUME TypeOK, SeatsCounted, [Next]_vars
             PROVE  [RoundSlots!Next]_SeatPhases
  OBVIOUS
<1>1. ASSUME NEW r \in Round, NEW y, seat' = [seat EXCEPT ![r] = y]
      PROVE  SeatPhases' = [SeatPhases EXCEPT ![r] = SeatPhase(y)]
  BY <1>1 DEF SeatPhases, TypeOK
<1>2. \A r \in Round : /\ SeatPhases[r] = SeatPhase(seat[r])
                       /\ seat[r].count \in Nat
  BY SeatCalls DEF SeatPhases
<1>3. ASSUME NEW r \in Round, Dispatch(r)
      PROVE  RoundSlots!Ask(r)
  <2>1. PICK x, y : /\ x = seat[r] /\ x.status \in {"none", "revoked"}
                    /\ seat' = [seat EXCEPT ![r] = y]
                    /\ y.status = "open" /\ y.count = x.count + 1
    BY <1>3, SeatCalls
  <2>2. y.count - 1 = x.count
    BY <1>2, <2>1
  <2>3. SeatPhase(y) = [phase |-> "asked", request |-> x.count]
    BY <2>1, <2>2 DEF SeatPhase
  <2>4. SeatPhases' = [SeatPhases EXCEPT ![r] = [phase |-> "asked", request |-> x.count]]
    <3>1. SeatPhases' = [SeatPhases EXCEPT ![r] = SeatPhase(y)]
      BY <1>1, <2>1
    <3> QED
      BY <2>3, <3>1, Zenon
  <2>5. CASE x.status = "none"
    <3>1. x.count = 0 /\ SeatPhases[r] = [phase |-> "unasked"]
      BY <1>2, <2>1, <2>5 DEF SeatsCounted, SeatPhase
    <3> QED
      BY <2>4, <3>1 DEF RoundSlots!Ask, RoundSlots!Asked, RoundSlots!Unasked
  <2>6. CASE x.status = "revoked"
    <3>1. SeatPhases[r] = [phase |-> "revoked", request |-> x.count - 1]
      BY <1>2, <2>1, <2>6 DEF SeatPhase
    <3>2. SeatPhases[r].phase = "revoked" /\ SeatPhases[r].request + 1 = x.count
      BY <1>2, <2>1, <3>1
    <3> QED
      BY <2>4, <3>2 DEF RoundSlots!Ask, RoundSlots!Asked
  <2> QED
    BY <2>1, <2>5, <2>6
<1>4. ASSUME NEW r \in Round, Revoke(r)
      PROVE  RoundSlots!Revoke(r)
  <2>1. PICK x, y : /\ x = seat[r] /\ x.status = "open"
                    /\ seat' = [seat EXCEPT ![r] = y]
                    /\ y.status = "revoked" /\ y.count = x.count
    BY <1>4, SeatCalls
  <2>2. /\ SeatPhase(y) = [phase |-> "revoked", request |-> x.count - 1]
        /\ SeatPhases[r] = [phase |-> "asked", request |-> x.count - 1]
    BY <1>2, <2>1 DEF SeatPhase
  <2>3. SeatPhases' = [SeatPhases EXCEPT ![r] =
                          [phase |-> "revoked", request |-> x.count - 1]]
    <3>1. SeatPhases' = [SeatPhases EXCEPT ![r] = SeatPhase(y)]
      BY <1>1, <2>1
    <3> QED
      BY <2>2, <3>1, Zenon
  <2> QED
    BY <2>2, <2>3 DEF RoundSlots!Revoke, RoundSlots!Revoked
<1>5. ASSUME NEW r \in Round, Answer(r)
      PROVE  \E a \in Letters \cup {None} : RoundSlots!Fill(r, a)
  <2>1. PICK x, y, a : /\ x = seat[r] /\ x.status = "open"
                       /\ seat' = [seat EXCEPT ![r] = y]
                       /\ y.status = "filled" /\ y.count = x.count
                       /\ a \in Letters \cup {None} /\ y.answer = a
    BY <1>5, SeatCalls
  <2>2. /\ SeatPhase(y) = [phase |-> "filled", request |-> x.count - 1, answer |-> a]
        /\ SeatPhases[r] = [phase |-> "asked", request |-> x.count - 1]
    BY <1>2, <2>1 DEF SeatPhase
  <2>3. SeatPhases' = [SeatPhases EXCEPT ![r] =
                [phase |-> "filled", request |-> x.count - 1, answer |-> a]]
    <3>1. SeatPhases' = [SeatPhases EXCEPT ![r] = SeatPhase(y)]
      BY <1>1, <2>1
    <3> QED
      BY <2>2, <3>1, Zenon
  <2>4. RoundSlots!Fill(r, a)
    BY <2>2, <2>3 DEF RoundSlots!Fill, RoundSlots!Filled
  <2> QED
    BY <2>1, <2>4
<1>6. CASE UNCHANGED seat
  BY <1>6 DEF SeatPhases
<1> QED
  BY <1>3, <1>4, <1>5, <1>6, SeatCases DEF RoundSlots!Next

\* An actor is asked, the question is revoked and asked again under the next
\* number, and the slot is filled once, with the actor's answer to the open
\* question, whatever is committed and perceived meanwhile.
THEOREM QuestionsImplementSlots == Spec => RoundSlots!Spec
<1>1. Init => SeatsCounted /\ RoundSlots!Init
  BY DEF Init, Vacant, SeatsCounted, SeatPhases, SeatPhase, RoundSlots!Init,
         RoundSlots!Unasked
<1> QED
  BY <1>1, RunTyped, SeatsCountedStep, RoundSlotsStep, PTL
     DEF Spec, RoundSlots!Spec

================================================================================
