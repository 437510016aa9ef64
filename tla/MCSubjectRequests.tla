------------------------- MODULE MCSubjectRequests -------------------------
EXTENDS SubjectRequests, TLC

\* The workers are alike, and the properties of the run are about safety.
Symmetry == Permutations(Threads)
=============================================================================
