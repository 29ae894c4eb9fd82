---------------------------- MODULE MCSourceLedger -----------------------------
(* Instances of SourceLedger for TLC.                                      *)
EXTENDS SourceLedger, TLC

CONSTANTS p1, p2, s1, s2, k1, k2

\* Processes that only produce are alike, and so are drivers, sources and keys.
Symmetry == Permutations(Process \ Driver) \cup Permutations(Driver)
              \cup Permutations(Source) \cup Permutations(Key)

NearSpan == {At(0, 0), At(1, 0)}
FarSpan  == {At(0, 0), At(1, 1)}
OneDay   == {At(1, 0)}
NoAgenda == {}
Today    == {At(0, 0)}

================================================================================
