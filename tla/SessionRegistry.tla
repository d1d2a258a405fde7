-------------------------- MODULE SessionRegistry --------------------------
(***************************************************************************)
(* What the table auth_sessions promises to the rest of the program, with  *)
(* no requests, transactions or clocks in it: a register of sessions, each *)
(* with the one token that refreshes it.                                   *)
(*                                                                         *)
(* A session is opened once, closed at most once and never reopened; its   *)
(* token is replaced only by a token that was never in use before, so a    *)
(* token that has been replaced refreshes nothing ever again.              *)
(***************************************************************************)
CONSTANTS Session, Token, NoToken

VARIABLES
    open,    \* sessions whose revoked_at is NULL
    closed,  \* sessions whose revoked_at is set
    key,     \* the token of each session (NoToken before it is opened)
    spent    \* tokens that have been handed to the table, or thrown away

vars == <<open, closed, key, spent>>

Init ==
    /\ open = {}
    /\ closed = {}
    /\ key = [s \in Session |-> NoToken]
    /\ spent = {}

\* A login: s opens with a fresh token and closes the sessions in E.
Open(s, t, E) ==
    /\ s \notin open \cup closed
    /\ t \notin spent
    /\ open' = (open \ E) \cup {s}
    /\ closed' = closed \cup E
    /\ key' = [key EXCEPT ![s] = t]
    /\ spent' = spent \cup {t}

\* A refresh: the token of s gives way to a fresh one.  s may have been closed
\* in the meantime; it stays closed.
Rotate(s, t) ==
    /\ s \in open \cup closed
    /\ t \notin spent
    /\ key' = [key EXCEPT ![s] = t]
    /\ spent' = spent \cup {t}
    /\ UNCHANGED <<open, closed>>

\* A logout.
Close(s) ==
    /\ s \in open
    /\ open' = open \ {s}
    /\ closed' = closed \cup {s}
    /\ UNCHANGED <<key, spent>>

\* The fresh token of a request that was refused, failed or rolled back.
Discard(t) ==
    /\ t \notin spent
    /\ spent' = spent \cup {t}
    /\ UNCHANGED <<open, closed, key>>

Next ==
    \/ \E s \in Session, t \in Token :
          \/ \E E \in SUBSET open : Open(s, t, E)
          \/ Rotate(s, t)
    \/ \E s \in Session : Close(s)
    \/ \E t \in Token : Discard(t)

Spec == Init /\ [][Next]_vars
=============================================================================
