--------------------------- MODULE MCAccessTokens ---------------------------
\* AccessTokens for TLC: users, grants and uses can each be permuted.
EXTENDS AccessTokens, TLC

Symmetry == Permutations(User) \cup Permutations(Grant) \cup Permutations(Use)
=============================================================================
