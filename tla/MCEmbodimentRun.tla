--------------------------- MODULE MCEmbodimentRun ---------------------------
EXTENDS EmbodimentRun, TLC

Symmetry == Permutations(Process) \cup Permutations(Version)

================================================================================
