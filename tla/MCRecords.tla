------------------------------ MODULE MCRecords ------------------------------
\* Instances of Records for TLC.  There is one user: no statement concerns two.
EXTENDS Records, TLC

CONSTANTS ann, k1, k2, i1, i2, i3

Symmetry == Permutations(Calls) \cup Permutations(RowIds)
==============================================================================
