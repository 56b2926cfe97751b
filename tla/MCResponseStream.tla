--------------------------- MODULE MCResponseStream ---------------------------
\* Model values of the ResponseStream runs.
EXTENDS ResponseStream, TLC

Symmetry == Permutations(Tasks)
==============================================================================
