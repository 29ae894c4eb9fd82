----------------------------- MODULE MCSlotLedger ------------------------------
(* Instances of SlotLedger for TLC.                                        *)
EXTENDS SlotLedger, TLC

CONSTANTS p1, p2, s1, s2, act, wait, late, other

OneOrTwo == {{p1}, {p1, p2}}

Symmetry == Permutations(Slot) \cup Permutations(Answer) \cup Permutations(Reason)

================================================================================
