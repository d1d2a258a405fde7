------------------------- MODULE MCInMemoryLimiter -------------------------
\* InMemoryLimiter for TLC: calls are interchangeable.
EXTENDS InMemoryLimiter, TLC

Symmetry == Permutations(Req)
=============================================================================
