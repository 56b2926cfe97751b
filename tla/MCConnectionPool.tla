--------------------------- MODULE MCConnectionPool ---------------------------
\* Model values of the ConnectionPool runs.
EXTENDS ConnectionPool, TLC

Symmetry == Permutations(Requests)
==============================================================================
