--------------------------- MODULE MCRedisLimiter ---------------------------
\* RedisLimiter for TLC: calls are interchangeable.
EXTENDS RedisLimiter, TLC

Symmetry == Permutations(Req)
=============================================================================
