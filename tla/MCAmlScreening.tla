--------------------------- MODULE MCAmlScreening ----------------------------
EXTENDS AmlScreening, TLC

\* Workers and lists are alike, and the properties of the run are invariants.
Symmetry == Permutations(Workers) \cup Permutations(Lists)
=============================================================================
