----------------------------- MODULE MCSessions -----------------------------
\* Sessions for TLC: requests are interchangeable, and so are users.
EXTENDS Sessions, TLC

Symmetry == Permutations(Req) \cup Permutations(User)
=============================================================================
