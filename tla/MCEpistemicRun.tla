--------------------------- MODULE MCEpistemicRun ---------------------------
(* Two actors, of whom one has two rounds, who may write to each other.    *)
EXTENDS EpistemicRun, TLC

CONSTANTS ana, ben, r1, r2, r3

Owners == r1 :> ana @@ r2 :> ben @@ r3 :> ana

ThreeOpenings ==
    r1 :> {At(0, 0)} @@ r2 :> {At(0, 1), At(1, 1)} @@ r3 :> {At(0, 0), At(0, 1), At(1, 1)}

TwoLetters ==
    {[to |-> ben, channel |-> "school.message.v1", due |-> 1],
     [to |-> ana, channel |-> "school.drop.v1", due |-> 2]}

================================================================================
