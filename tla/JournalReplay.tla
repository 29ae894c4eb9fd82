---------------------------- MODULE JournalReplay ----------------------------
(***************************************************************************)
(* ReplayClock: the audit that rebuilds the clock and the triggers of a    *)
(* run from its journal alone, and accepts the file only if every          *)
(* committed cycle is the one the clock would have chosen at its revision  *)
(* and the outcome is what the file holds.  Nothing of the run is stored   *)
(* per revision: what was pending then is told from what was committed     *)
(* since.  The audit reads a file that nobody writes meanwhile.            *)
(***************************************************************************)
EXTENDS CausalCycle

--------------------------------------------------------------------------------
(* What was pending at an earlier revision.                                *)

SettledBy(u, revision) ==
    \E f \in commits : f.base < revision /\ u \in f.units

\* historicalWorkRounds: a round leaves with the cycle that took it.
RoundSettledBy(r, revision) ==
    \E f \in commits : f.base < revision /\ r \in f.rounds

\* Variant: every durable row was there since genesis.
AlwaysThere(x, revision) == TRUE

\* A successor is born of the commit that deferred its predecessor.
OccBornBy(o, revision) ==
    \/ o \in Genesis
    \/ \E f \in commits : /\ f.base < revision
                          /\ \E p \in Deferred(f) : Successor(p) = o

\* An activation is born of genesis or of the advance to its instant.
ActBornBy(a, revision) ==
    \/ a.at.instant = Start
    \/ \E f \in commits : /\ f.base < revision
                          /\ f.kind = "advance"
                          /\ f.target.instant = a.at.instant

\* replayAdvanceInputs: cadences are dropped, whatever their next beat was.
PendingThen(revision) ==
    {o.at : o \in {p \in occs : /\ OccBornBy(p, revision)
                                /\ ~SettledBy(OccUnit(p), revision)}}
      \cup {a.at : a \in {b \in acts : /\ ActBornBy(b, revision)
                                       /\ ~SettledBy(ActUnit(b), revision)}}
      \cup {opened[r] : r \in {q \in Round : /\ opened[q] # None
                                             /\ ~RoundSettledBy(q, revision)}}

--------------------------------------------------------------------------------
(* The fold over the journal, one revision at a time.                      *)

CommitAt(revision) == CHOOSE f \in commits : f.base = revision

GenesisReplay ==
    [accepted |-> TRUE,
     clk  |-> [instant |-> Start, revision |-> 0, last |-> -1],
     trig |-> [t \in Trigger |-> Evaluated(t, Unevaluated, Start, 0)],
     acts |-> {[trigger |-> t, count |-> 1, at |-> At(Start, 0)] :
                  t \in {u \in Trigger :
                            Fires(Definition[u], Unevaluated, Start)}}]

\* replayNoProposalCommit: the clock takes the ordinal of the cycle.
WorkAccepted(s, f) ==
    LET earlier == {g \in WorkAt(s.clk.instant) : g.base < s.clk.revision} IN
    /\ ~CascadeExceeded(Cardinality(earlier))
    /\ f \in fences
    /\ f.cycle.ordinal > s.clk.last
    /\ Picks(s.clk, PendingThen(s.clk.revision), f.cycle)
    /\ f.cycle.instant = s.clk.instant

ReplayWork(s, f) ==
    [accepted |-> s.accepted /\ WorkAccepted(s, f),
     clk  |-> ApplyWork(s.clk, f.cycle.ordinal),
     trig |-> s.trig,
     acts |-> s.acts]

ReplayFired(s, to) ==
    {[trigger |-> t, count |-> s.trig[t].count + 1, at |-> At(to, 0)] :
        t \in {u \in Trigger : Fires(Definition[u], s.trig[u], to)}}

AdvanceAccepted(s, f) ==
    /\ f \in fences
    /\ f.cycle = At(s.clk.instant, s.clk.last + 1)
    /\ f.target.instant > s.clk.instant
    /\ Picks(s.clk, PendingThen(s.clk.revision), f.target)
    /\ \A t \in Trigger : Evaluable(s.trig[t], s.clk.revision + 1)
    /\ ReplayFired(s, f.target.instant) \subseteq acts

\* Every trigger is evaluated again at the destination.
ReplayAdvance(s, f) ==
    LET to == f.target.instant IN
    [accepted |-> s.accepted /\ AdvanceAccepted(s, f),
     clk  |-> ApplyAdvance(s.clk, to),
     trig |-> [t \in Trigger |->
                  Evaluated(t, s.trig[t], to, s.clk.revision + 1)],
     acts |-> s.acts \cup ReplayFired(s, to)]

Replayed[n \in Nat] ==
    IF n = 0
    THEN GenesisReplay
    ELSE LET f == CommitAt(n - 1) IN
         IF f.kind = "work" THEN ReplayWork(Replayed[n - 1], f)
                            ELSE ReplayAdvance(Replayed[n - 1], f)

\* VerifyCycleControl: an active control points at a fence of the journal,
\* and at the abort and the retry record that its status speaks of.
ControlVerifies ==
    LET f == control.fence
        Before(g) == g.cycle = f.cycle /\ g.attempt + 1 = f.attempt
    IN
    CASE control.status = "idle"       -> fences = {} => clk.revision = 0
      [] control.status = "inflight"   ->
            /\ f \in fences /\ control.next = f.attempt
            /\ f.attempt > 0 => \E g \in retries \cap aborts : Before(g)
      [] control.status = "halted"     ->
            f \in aborts /\ control.next = f.attempt + 1
      [] control.status = "authorized" ->
            f \in retries \cap aborts /\ control.next = f.attempt + 1

\* ReplayClock returns a report and no error.
Replays ==
    LET s == Replayed[Cardinality(commits)] IN
    /\ s.accepted
    /\ s.clk = clk
    /\ s.trig = trig
    /\ s.acts = acts
    /\ ControlVerifies

--------------------------------------------------------------------------------
(* Properties.                                                             *)

\* A run replays from its journal, repetitions of a trigger included (ADR
\* 0008, section 4.2: "edge/rearm/repeat também sejam replayable").
RepeatsReplay == Replays

\* The advance went where an occurrence or a round was waiting.
WaitedFor(c) ==
    c \in {o.at : o \in occs} \cup {opened[r] : r \in Round}

\* A run that never advanced for a beat alone replays at any moment, a sealed,
\* halted or authorised cycle included: late declarations, successors and
\* activations never show at a revision that did not know them.
JournalReplays ==
    (\A f \in commits : f.kind = "advance" => WaitedFor(f.target)) => Replays

================================================================================
