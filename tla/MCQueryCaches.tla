--------------------------- MODULE MCQueryCaches ---------------------------
EXTENDS QueryCaches, TLC

\* Futures and documents are interchangeable.
Symmetry == Permutations(Handlers) \cup Permutations(Docs)
=============================================================================
