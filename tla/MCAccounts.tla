----------------------------- MODULE MCAccounts -----------------------------
\* Accounts for TLC: requests, addresses and passwords are interchangeable.
EXTENDS Accounts, TLC

Symmetry == Permutations(Req) \cup Permutations(Email) \cup Permutations(Password)
=============================================================================
