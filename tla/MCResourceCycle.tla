--------------------------- MODULE MCResourceCycle ---------------------------
(* Ana has two rounds, Ben one; they meet in a cohort of two or of three.  *)
EXTENDS ResourceCycle, TLC

CONSTANTS ana, ben, r1, r2, r3, s1

Owners == r1 :> ana @@ r2 :> ben @@ r3 :> ana

Identities == <<r2, s1, r1, r3>>

Claims ==
    {[registered |-> TRUE, amount |-> n, key |-> k] : n \in {1, 2}, k \in {"", "key"}}
    \cup {[registered |-> FALSE, amount |-> 1, key |-> ""]}

TwoAgendas == {<<{r1, r2, s1}, {r3}>>, <<{s1}, {r1, r2, r3}>>}

TwoSeeds == {[p \in kSubset(2, {r1, r2, r3}) |-> b] : b \in {0, 1}}

================================================================================
