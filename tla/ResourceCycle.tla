---------------------------- MODULE ResourceCycle ----------------------------
(***************************************************************************)
(* Proposals for the last unit of a resource.  When every slot of a cycle  *)
(* has its answer the cycle is sealed; workers then evaluate its cohort    *)
(* with the decision kernel, each on its own, and one of them commits what *)
(* it holds: the stock, one decision for every admitted unit and the       *)
(* events, in one transaction.  Meanwhile the attempt may be aborted and   *)
(* authorised again, so a worker may come with the verdict of an attempt   *)
(* that is over.                                                           *)
(*                                                                         *)
(* A round has one slot.  Its handlers grant access to every actor that    *)
(* proposes and prohibit nobody, so those two facets never block here.     *)
(* When each cycle is due is CausalCycle's subject: here it is a place in  *)
(* the agenda.                                                             *)
(***************************************************************************)
EXTENDS Integers, Sequences, FiniteSetsExt

CONSTANTS
    Worker,
    Round,       \* decision rounds, of one slot each
    Source,      \* co-admitted occurrences and trigger activations
    Owner,       \* the actor of each round
    Order,       \* canonical order of the identities of rounds and sources
    Offers,      \* the resource proposals an actor may make
    Agendas,     \* the units that each cycle of a run admits
    Stocks,      \* the stock a run may begin with
    Seeds,       \* world seeds: the bit each conflict draws
    MaxInt,      \* stands for the largest signed 64-bit claim
    MaxAttempt,  \* bound: the last attempt of a cycle is not aborted
    Declined,
    None

Unit == Round \cup Source

Offer == [registered : BOOLEAN, amount : Nat \ {0}, key : STRING]

ASSUME OrderAssumption ==
    /\ Round \cap Source = {}
    /\ Order \in Seq(Unit) /\ Len(Order) = Cardinality(Unit)
    /\ \A u \in Unit : \E i \in DOMAIN Order : Order[i] = u
ASSUME OffersAssumption == Offers \subseteq Offer
\* A round or a source is admitted by one cycle: CausalCycle's SettledOnce.
ASSUME AgendasAssumption ==
    /\ Agendas \subseteq Seq(SUBSET Unit)
    /\ \A agenda \in Agendas : \A c, d \in DOMAIN agenda :
          c # d => agenda[c] \cap agenda[d] = {}
ASSUME SeedsAssumption == Seeds \subseteq [kSubset(2, Round) -> {0, 1}]
ASSUME ResourceBoundsAssumption ==
    Stocks \subseteq Nat /\ MaxInt \in Nat /\ MaxAttempt \in Nat
ASSUME AbsentAssumption == Declined \notin Offers /\ None \notin Offers

VARIABLES
    genesis,    \* what the run begins with: stock, seed and agenda
    revision,   \* commits so far; the open cycle is the next of the agenda
    stock,      \* the WorldState of this revision
    answer,     \* the responses of the input ledger
    control,    \* cycle_control_state: phase and attempt of the open cycle
    aborts,     \* decision_ledger: the abort envelopes
    decisions,  \* decision_ledger: the decision records
    events,     \* event_store, in logical sequence
    verdict     \* what each worker has evaluated and not yet committed

world == <<revision, stock, decisions, events>>
vars  == <<genesis, world, answer, control, aborts, verdict>>

--------------------------------------------------------------------------------
(* The cohort.                                                             *)

Before(u, v) == \E i, j \in DOMAIN Order : i < j /\ Order[i] = u /\ Order[j] = v

Sorted(S) ==
    CHOOSE q \in Bijection(1..Cardinality(S), S) :
        \A i, j \in 1..Cardinality(S) : i < j => Before(q[i], q[j])

First(S) == Sorted(S)[1]

Cycle == revision + 1
Open  == Cycle <= Len(genesis.agenda)

Slots(c) == genesis.agenda[c] \cap Round

Proposing(c) == {r \in Slots(c) : answer[r] # Declined}

--------------------------------------------------------------------------------
(* The decision kernel.                                                    *)

Status == {"NO_PROPOSAL", "DEDUPLICATED", "COMMIT", "REJECT"}

Verdict == [cycle : Nat, attempt : Nat, stock : Nat, post : Nat,
            failure : {"NONE", "IDEMPOTENCY_CONFLICT", "INDETERMINATE_FACET"},
            status : UNION {[S -> Status] : S \in SUBSET Round}]

Resolvable(c) == {r \in Proposing(c) : answer[r].registered}

\* The namespace of a key is its actor; the logical operation is the rest.  The
\* producer scope, a part of it too, is the same for every proposal here.
SameKey(q, r) ==
    q = r \/ /\ answer[r].key # "" /\ answer[q].key = answer[r].key
             /\ Owner[q] = Owner[r]

\* resolveAliases: the first unit of the fence with the same key.
Canonical(c, r) == First({q \in Resolvable(c) : SameKey(q, r)})

KeyConflict(c) ==
    \E r \in Resolvable(c) : answer[Canonical(c, r)].amount # answer[r].amount

Candidates(c) == {r \in Resolvable(c) : Canonical(c, r) = r}

Claimed(S) == MapThenSumSet(LAMBDA r : answer[r].amount, S)

Viable(c) == {r \in Candidates(c) : answer[r].amount <= stock}

\* Variant: one claim too many is let through.
ExhaustedLate(S) == Claimed(S) > stock + 1

Exhausted(S) == Claimed(S) > stock

\* Two claims of the whole stock are the only conflict there is a resolver for.
Resolvers(S) ==
    /\ Cardinality(S) = 2
    /\ \A r \in S : answer[r].amount = stock

\* Variant: the attempt is part of what the draw is named after.
DrawOfAttempt(attempt, S) ==
    Sorted(S)[((genesis.seed[S] + attempt) % 2) + 1]

\* namedDraw: the substream is named after the conflict, which is the cycle and
\* its candidates; only the identity of the draw's record has the attempt.
Draw(attempt, S) == Sorted(S)[genesis.seed[S] + 1]

Winners(c, attempt) ==
    LET S == Viable(c) IN
    IF Exhausted(S) THEN {Draw(attempt, S)} ELSE S

\* A proposal of no registered schema, claims beyond the integers, or a
\* conflict without a resolver leave the whole cohort undecided.
Indeterminate(c) ==
    LET S == Viable(c) IN
    \/ Resolvable(c) # Proposing(c)
    \/ Claimed(S) > MaxInt
    \/ Exhausted(S) /\ ~Resolvers(S)

StatusOf(c, attempt, r) ==
    LET winners == Winners(c, attempt) IN
    CASE r \notin Proposing(c)            -> "NO_PROPOSAL"
      [] r \in winners                   -> "COMMIT"
      [] r \in Candidates(c) \ winners   -> "REJECT"
      [] OTHER                           -> "DEDUPLICATED"

\* decision.Run
Run(c, attempt) ==
    LET undecided(failure) ==
            [cycle |-> c, attempt |-> attempt, stock |-> stock, post |-> stock,
             failure |-> failure, status |-> << >>]
    IN  IF KeyConflict(c) THEN undecided("IDEMPOTENCY_CONFLICT")
        ELSE IF Indeterminate(c) THEN undecided("INDETERMINATE_FACET")
        ELSE [cycle |-> c, attempt |-> attempt, stock |-> stock,
              post |-> stock - Claimed(Winners(c, attempt)), failure |-> "NONE",
              status |-> [r \in Slots(c) |-> StatusOf(c, attempt, r)]]

--------------------------------------------------------------------------------
(* What the terminal handlers take.                                        *)

SingleClaim(S) == Cardinality(S) = 1

\* Two actors, who then give no keys.
Contest(S) ==
    /\ Cardinality(S) = 2
    /\ Cardinality({Owner[r] : r \in S}) = 2
    /\ \A r \in S : answer[r].key = ""

UnitClaimed(r) ==
    answer[r] # Declined /\ answer[r].registered /\ answer[r].amount = 1

\* Variant: a contest is not taken.
TakesOne(c) ==
    /\ stock = 1 /\ \A r \in Slots(c) : UnitClaimed(r)
    /\ SingleClaim(Slots(c))

\* One unit, one claim for it or two, and nobody who declined.
Takes(c) ==
    /\ stock = 1 /\ \A r \in Slots(c) : UnitClaimed(r)
    /\ SingleClaim(Slots(c)) \/ Contest(Slots(c))

InFlight == control.phase = "in_flight"

Init ==
    /\ genesis \in [stock : Stocks, seed : Seeds, agenda : Agendas]
    /\ revision = 0
    /\ stock = genesis.stock
    /\ answer = [r \in Round |-> None]
    /\ control = [phase |-> "idle", attempt |-> 0]
    /\ aborts = {} /\ decisions = {} /\ events = << >>
    /\ verdict = [w \in Worker |-> None]

--------------------------------------------------------------------------------
(* From the answers to the fence, and the attempts.                        *)

\* An answer is given for the cycle after the clock, and is never changed.
Respond(r, x) ==
    /\ Open /\ r \in Slots(Cycle) /\ answer[r] = None
    /\ answer' = [answer EXCEPT ![r] = x]
    /\ UNCHANGED <<genesis, world, control, aborts, verdict>>

SealFence ==
    /\ Open /\ \A r \in Slots(Cycle) : answer[r] # None
    /\ control.phase \in {"idle", "authorized"}
    /\ control' = [phase |-> "in_flight",
                   attempt |-> IF control.phase = "idle" THEN 0
                               ELSE control.attempt + 1]
    /\ UNCHANGED <<genesis, world, answer, aborts, verdict>>

Abort ==
    /\ InFlight /\ control.attempt < MaxAttempt
    /\ aborts' = aborts \cup {<<Cycle, control.attempt>>}
    /\ control' = [control EXCEPT !.phase = "halted"]
    /\ UNCHANGED <<genesis, world, answer, verdict>>

Retry ==
    /\ control.phase = "halted"
    /\ control' = [control EXCEPT !.phase = "authorized"]
    /\ UNCHANGED <<genesis, world, answer, aborts, verdict>>

--------------------------------------------------------------------------------
(* Workers.                                                                *)

\* FromPersistedFence and Run, on the revision and the stock read there.
Evaluate(w) ==
    /\ verdict[w] = None
    /\ InFlight /\ Proposing(Cycle) # {}
    /\ verdict' = [verdict EXCEPT ![w] = Run(Cycle, control.attempt)]
    /\ UNCHANGED <<genesis, world, answer, control, aborts>>

\* Variant: the store does not ask which attempt a batch is of.
CanCommitAnyAttempt(v) ==
    /\ v.cycle = Cycle /\ InFlight
    /\ v.failure = "NONE" /\ Takes(v.cycle)

\* The clock and the base state the worker read, and the fence it was given,
\* are those of the store, inside the transaction.
CanCommit(v) ==
    /\ v.cycle = Cycle /\ InFlight /\ v.attempt = control.attempt
    /\ v.failure = "NONE" /\ Takes(v.cycle)

Decisions(c, attempt, status) ==
    {[cycle |-> c, attempt |-> attempt, unit |-> r, status |-> status[r]] :
        r \in Slots(c)}
    \cup
    {[cycle |-> c, attempt |-> attempt, unit |-> s, status |-> "LIFECYCLE"] :
        s \in genesis.agenda[c] \ Round}

\* Phase 2 of the events: every round and source of the cohort, by identity.
Lifecycle(c) ==
    LET units == Sorted(genesis.agenda[c]) IN
    [i \in DOMAIN units |-> [kind |-> "lifecycle", origin |-> units[i]]]

\* Variant: the event names the first candidate.
ConsumedFirst(v) ==
    [kind |-> "resource.consumed", origin |-> First(DOMAIN v.status)]

\* Phase 1: MaterializeResource names the one candidate that won.
ResourceConsumed(v) ==
    [kind |-> "resource.consumed",
     origin |-> CHOOSE r \in DOMAIN v.status : v.status[r] = "COMMIT"]

\* What every commit does besides its decisions and events.
Publish(records, published) ==
    /\ revision' = revision + 1
    /\ decisions' = decisions \cup records
    /\ events' = events \o published
    /\ control' = [phase |-> "idle", attempt |-> 0]
    /\ UNCHANGED <<genesis, answer, aborts>>

CommitResource(w) ==
    LET v == verdict[w] IN
    /\ v # None /\ CanCommit(v)
    /\ stock' = v.post
    /\ Publish(Decisions(v.cycle, v.attempt, v.status),
               <<ResourceConsumed(v)>> \o Lifecycle(v.cycle))
    /\ verdict' = [verdict EXCEPT ![w] = None]

\* CommitNoProposal and its hybrid: nobody proposed anything.
CommitNoProposal ==
    /\ InFlight /\ Proposing(Cycle) = {}
    /\ Publish(Decisions(Cycle, control.attempt,
                         [r \in Slots(Cycle) |-> "NO_PROPOSAL"]),
               Lifecycle(Cycle))
    /\ UNCHANGED <<stock, verdict>>

\* The store refuses a batch of an attempt that is over: its worker drops it.
Refused(w) ==
    /\ verdict[w] # None
    /\ <<verdict[w].cycle, verdict[w].attempt>> # <<Cycle, control.attempt>>
    /\ verdict' = [verdict EXCEPT ![w] = None]
    /\ UNCHANGED <<genesis, world, answer, control, aborts>>

Next ==
    \/ \E r \in Round, x \in Offers \cup {Declined} : Respond(r, x)
    \/ SealFence \/ Abort \/ Retry
    \/ CommitNoProposal
    \/ \E w \in Worker : Evaluate(w) \/ CommitResource(w) \/ Refused(w)

Spec == Init /\ [][Next]_vars

\* Somebody keeps evaluating and committing; nobody has to abort or to retry.
Fairness ==
    /\ WF_vars(\E w \in Worker : Evaluate(w))
    /\ WF_vars(\E w \in Worker : CommitResource(w))
    /\ WF_vars(\E w \in Worker : Refused(w))

FairSpec == Spec /\ Fairness

--------------------------------------------------------------------------------
(* Properties.                                                             *)

TypeOK ==
    /\ genesis \in [stock : Stocks, seed : Seeds, agenda : Agendas]
    /\ revision \in 0..Len(genesis.agenda)
    /\ stock \in 0..genesis.stock
    /\ answer \in [Round -> Offers \cup {Declined, None}]
    /\ control \in [phase : {"idle", "in_flight", "halted", "authorized"},
                    attempt : 0..MaxAttempt]
    /\ aborts \subseteq (1..Len(genesis.agenda)) \X (0..MaxAttempt)
    /\ decisions \subseteq [cycle : Nat, attempt : Nat, unit : Unit,
                            status : Status \cup {"LIFECYCLE"}]
    /\ \A i \in DOMAIN events :
          events[i] \in [kind : {"resource.consumed", "lifecycle"}, origin : Unit]
    /\ \A w \in Worker : verdict[w] # None => verdict[w] \in Verdict

\* Over the whole run, the stock that is gone is the stock that was claimed by
\* winning proposals, and the events tell it: one resource.consumed for each of
\* them and for nobody else, however many workers, attempts and cycles.
StockAccounted ==
    LET consumed == {i \in DOMAIN events : events[i].kind = "resource.consumed"}
        won == {d \in decisions : d.status = "COMMIT"}
    IN  /\ genesis.stock = stock + Claimed({d.unit : d \in won})
        /\ {events[i].origin : i \in consumed} = {d.unit : d \in won}
        /\ Cardinality(consumed) = Cardinality(won)

\* Each unit of a committed cycle has one decision and one lifecycle event, all
\* decisions of a cycle are of one attempt, and it is not one that was aborted;
\* an open cycle has none, whatever its attempts evaluated.
DecidedOnce ==
    \A c \in DOMAIN genesis.agenda :
        LET made == {d \in decisions : d.cycle = c} IN
        /\ \A u \in genesis.agenda[c] :
              LET told == {i \in DOMAIN events :
                              events[i] = [kind |-> "lifecycle", origin |-> u]}
              IN  /\ Cardinality({d \in made : d.unit = u}) =
                        IF c <= revision THEN 1 ELSE 0
                  /\ Cardinality(told) = IF c <= revision THEN 1 ELSE 0
        /\ \A d, e \in made :
              d.attempt = e.attempt /\ <<c, d.attempt>> \notin aborts

\* What a verdict must be: it spends no more than there is, it serves one
\* logical operation once, nobody is turned away who could have been served as
\* well, and an undecided cohort is left alone.
Sound(v) ==
    LET with(s) == {r \in DOMAIN v.status : v.status[r] = s} IN
    /\ v.post = v.stock - Claimed(with("COMMIT"))
    /\ \A r \in with("REJECT") : answer[r].amount > v.post
    /\ \A r \in with("DEDUPLICATED") :
          \E q \in with("COMMIT") \cup with("REJECT") :
              /\ SameKey(q, r) /\ answer[q].amount = answer[r].amount
    /\ \A q, r \in with("COMMIT") : SameKey(q, r) => q = r
    /\ IF v.failure = "NONE" THEN DOMAIN v.status = Slots(v.cycle)
       ELSE v.status = << >>

\* Every verdict is sound, and who wins depends neither on the worker nor on
\* the attempt: workers agree with one another and with what was committed.
VerdictsAgree ==
    \A w \in Worker : verdict[w] # None =>
        LET v == verdict[w] IN
        /\ Sound(v)
        /\ \A x \in Worker :
              verdict[x] # None /\ verdict[x].cycle = v.cycle =>
                  verdict[x].status = v.status
        /\ \A d \in decisions :
              d.cycle = v.cycle /\ d.unit \in Round =>
                  d.status = v.status[d.unit]

\* The last unit is there, and one actor or two actors ask for just that.
LastUnitAsked ==
    /\ Open /\ stock = 1
    /\ Slots(Cycle) # {} /\ Cardinality(Slots(Cycle)) <= 2
    /\ \A r \in Slots(Cycle) :
          answer[r] = [registered |-> TRUE, amount |-> 1, key |-> ""]
    /\ \A q, r \in Slots(Cycle) : Owner[q] = Owner[r] => q = r

\* An attempt at such a cycle ends: in a commit, unless it is aborted.
ContestsEnd == (InFlight /\ LastUnitAsked) ~> ~InFlight

================================================================================
