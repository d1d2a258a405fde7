-------------------------- MODULE MCPooledSessions --------------------------
(***************************************************************************)
(* PooledSessions for TLC: a login of its own comes first, so that there   *)
(* is a session whose row the others can lock and wait for; they present   *)
(* tokens this server issued; and sessions run out and users are blocked   *)
(* only so often.                                                          *)
(***************************************************************************)
EXTENDS PooledSessions

CONSTANTS
    First,     \* the request that creates the session
    MaxChanges \* bound: how often a session runs out or a user is blocked

ASSUME MCAssumption == First \in Req /\ MaxChanges \in Nat

VARIABLE changes

mcVars == <<poolVars, changes>>

MCInit == PoolInit /\ changes = 0

\* Nobody else arrives before the first session has been delivered.
FirstComesFirst == First \in Delivered \/ \A r \in Req \ {First} : pc'[r] = "idle"

\* Bound: the tokens presented are those of clients.  One that was never issued
\* takes the path of one that a refresh has replaced.
TokensAreIssued == \A r \in Req : op'[r] \in {"refresh", "logout"} => token'[r] # None

IsChange == ~(blocked' \subseteq blocked) \/ ~(expired' \subseteq expired)

MCNext ==
    /\ PoolNext
    /\ FirstComesFirst /\ TokensAreIssued
    /\ changes' = changes + IF IsChange THEN 1 ELSE 0
    /\ changes' <= MaxChanges

FairMCSpec == MCInit /\ [][MCNext]_mcVars /\ Fairness
=============================================================================
