----------------------------- MODULE MCCausalCycle -----------------------------
(* Instances of CausalCycle for TLC.                                       *)
EXTENDS JournalReplay, TLC

CONSTANTS w1, w2, r1, r2, s1, s2, bell, term, dawn, beat

\* A daily bell that ends after its third day.
BellOnly ==
    {[source |-> bell, due |-> 0, at |-> At(0, 0), every |-> 1, left |-> 3]}

TermOnly ==
    {[source |-> term, due |-> 2, at |-> At(2, 0), every |-> 0, left |-> 0]}

\* A bell as fast as the beat of the trigger, and a single occurrence at the
\* third ordinal of the instant at which dawn breaks.
BellAndLateTerm ==
    {[source |-> bell, due |-> 0, at |-> At(0, 0), every |-> 2, left |-> 0],
     [source |-> term, due |-> 1, at |-> At(1, 2), every |-> 0, left |-> 0]}

\* Two triggers that wait for the first instant.
DawnAndLateBeat ==
    (dawn :> [policy |-> "rising", threshold |-> 1, initial |-> FALSE,
              every |-> 0])
      @@ (beat :> [policy |-> "repeat", threshold |-> 1, initial |-> FALSE,
                   every |-> 2])

DawnAndBeat ==
    (dawn :> [policy |-> "rising", threshold |-> 1, initial |-> FALSE,
              every |-> 0])
      @@ (beat :> [policy |-> "repeat", threshold |-> 0, initial |-> FALSE,
                   every |-> 2])

NoDefinition == <<>>

FewOpenings == {At(0, 0), At(0, 1), At(1, 0)}
DawnOpenings == {At(1, 1)}
NoOpenings == {}

================================================================================
