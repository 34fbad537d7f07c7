--------------------------- MODULE MCSharedState ---------------------------
EXTENDS SharedState, TLC

\* The values and the key-encryption keys are interchangeable.
Interchangeable == Permutations(Values) \cup Permutations(Keks)
=============================================================================
