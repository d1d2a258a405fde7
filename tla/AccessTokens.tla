----------------------------- MODULE AccessTokens -----------------------------
(***************************************************************************)
(* The access tokens (internal/auth/tokens.go) and the endpoints they open *)
(* (middlewares/auth.go, routes/router.go).                                *)
(*                                                                         *)
(* A login or a refresh reads the status of its user, does its work in the *)
(* database, and only then signs a token, which nothing can take back: the *)
(* middleware looks at the signature and the expiry and not at the user.   *)
(* How long a blocked user keeps getting in is the subject of this module; *)
(* Sessions says what becomes of the refresh tokens.                       *)
(*                                                                         *)
(* Time is counted in ticks, Sec to the second.  A JWT carries its expiry  *)
(* in whole seconds.  The write timeout of the server, which runs from the *)
(* moment the request was read, bounds how old a status can be when the    *)
(* token signed on its strength reaches the client.                        *)
(***************************************************************************)
EXTENDS Integers

CONSTANTS
    User,
    Grant,        \* logins and refreshes, and the access tokens they sign
    Use,          \* requests to protected endpoints
    None,         \* the id of no user, or a token with a wrong signature
    Sec,          \* ticks to the second
    TTL,          \* AccessTokenTTL, in seconds
    WriteTimeout, \* http.Server.WriteTimeout, in ticks
    MaxTime       \* bound on the clock

ASSUME AccessTokensAssumption ==
    /\ None \notin User \cup Grant
    /\ Sec \in Nat \ {0} /\ TTL \in Nat \ {0}
    /\ WriteTimeout \in Nat /\ MaxTime \in Nat

VARIABLES
    now,
    blocked,  \* users whose status is "blocked"
    since,    \* history: when each of them was blocked
    pc,       \* "idle", "status", "sign", "write" or "done"
    subject,  \* the user of a grant, and the claim "sub" of its token
    readAt,   \* when the request was read
    signedAt, \* when its token was signed
    exp,      \* the claim "exp", in seconds
    resp,     \* the answer to a grant; "lost" is one written too late
    used,     \* the answer to a use
    usedAt,   \* when it was let in or turned away
    from,     \* the token it presented
    late      \* history: how long its user had been blocked then

grants == <<pc, subject, readAt, signedAt, exp, resp>>
uses == <<used, usedAt, from, late>>
vars == <<now, blocked, since, grants, uses>>

TypeOK ==
    /\ now \in Nat /\ blocked \subseteq User /\ since \in [User -> Nat]
    /\ pc \in [Grant -> {"idle", "status", "sign", "write", "done"}]
    /\ subject \in [Grant -> User \cup {None}]
    /\ readAt \in [Grant -> Nat] /\ signedAt \in [Grant -> Nat]
    /\ exp \in [Grant -> Int]
    /\ resp \in [Grant -> {"none", "ok", "user_blocked", "lost"}]
    /\ used \in [Use -> {"none", "ok", "invalid_token", "expired_token"}]
    /\ usedAt \in [Use -> Nat] /\ late \in [Use -> Int]
    /\ from \in [Use -> Grant \cup {None}]

Init ==
    /\ now = 0 /\ blocked = {} /\ since = [u \in User |-> 0]
    /\ pc = [g \in Grant |-> "idle"] /\ subject = [g \in Grant |-> None]
    /\ readAt = [g \in Grant |-> 0] /\ signedAt = [g \in Grant |-> 0]
    /\ exp = [g \in Grant |-> 0] /\ resp = [g \in Grant |-> "none"]
    /\ used = [r \in Use |-> "none"]
    /\ usedAt = [r \in Use |-> 0] /\ from = [r \in Use |-> None]
    /\ late = [r \in Use |-> 0]

-----------------------------------------------------------------------------
\* A login or a refresh.

Goto(g, c) == pc' = [pc EXCEPT ![g] = c]

Answer(g, a) == Goto(g, "done") /\ resp' = [resp EXCEPT ![g] = a]

\* http.Server reads the request, and its write deadline starts to run.
Arrive(g, u) ==
    /\ pc[g] = "idle"
    /\ subject' = [subject EXCEPT ![g] = u]
    /\ readAt' = [readAt EXCEPT ![g] = now]
    /\ Goto(g, "status")
    /\ UNCHANGED <<now, blocked, since, signedAt, exp, resp, uses>>

ReadStatusUnchecked(g) ==
    /\ pc[g] = "status"
    /\ Goto(g, "sign")
    /\ UNCHANGED <<now, blocked, since, subject, readAt, signedAt, exp, resp, uses>>

ReadStatus(g) ==
    /\ pc[g] = "status"
    /\ \/ subject[g] \in blocked /\ Answer(g, "user_blocked")
       \/ subject[g] \notin blocked /\ Goto(g, "sign") /\ UNCHANGED resp
    /\ UNCHANGED <<now, blocked, since, subject, readAt, signedAt, exp, uses>>

\* jwt.NewNumericDate drops the fraction of a second.
NumericDate(t) == t \div Sec

GenerateAccessToken(g) ==
    /\ pc[g] = "sign"
    /\ signedAt' = [signedAt EXCEPT ![g] = now]
    /\ exp' = [exp EXCEPT ![g] = NumericDate(now + TTL * Sec)]
    /\ Goto(g, "write")
    /\ UNCHANGED <<now, blocked, since, subject, readAt, resp, uses>>

\* An answer written after the deadline does not reach the client.
Write(g) ==
    /\ pc[g] = "write"
    /\ \/ now <= readAt[g] + WriteTimeout /\ Answer(g, "ok")
       \/ now >= readAt[g] + WriteTimeout /\ Answer(g, "lost")
    /\ UNCHANGED <<now, blocked, since, subject, readAt, signedAt, exp, uses>>

-----------------------------------------------------------------------------
\* A request to a protected endpoint.

\* RegisteredClaims: valid as long as the clock is before "exp".
ExpiredOneSecondLate(g) == now >= (exp[g] + 1) * Sec
Expired(g) == now >= exp[g] * Sec

\* ValidateAccessToken on the token of g, or on one that was not signed here.
Validate(g) ==
    IF g = None THEN "invalid_token"
    ELSE IF Expired(g) THEN "expired_token" ELSE "ok"

\* The middleware: it asks the token, and neither a session nor a user row.
Auth(r, g) ==
    /\ used[r] = "none"
    /\ from' = [from EXCEPT ![r] = g]
    /\ used' = [used EXCEPT ![r] = Validate(g)]
    /\ usedAt' = [usedAt EXCEPT ![r] = now]
    /\ late' = [late EXCEPT ![r] =
                  IF g # None /\ subject[g] \in blocked THEN now - since[subject[g]] ELSE 0]
    /\ UNCHANGED <<now, blocked, since, grants>>

-----------------------------------------------------------------------------

\* users.status is only written by hand, in the database.
Block(u) ==
    /\ u \notin blocked
    /\ blocked' = blocked \cup {u}
    /\ since' = [since EXCEPT ![u] = now]
    /\ UNCHANGED <<now, grants, uses>>

Unblock(u) ==
    /\ u \in blocked
    /\ blocked' = blocked \ {u}
    /\ UNCHANGED <<now, since, grants, uses>>

Tick ==
    /\ now < MaxTime
    /\ now' = now + 1
    /\ UNCHANGED <<blocked, since, grants, uses>>

\* A client presents a token it was sent, or one of its own making.
Next ==
    \/ \E g \in Grant :
          \/ \E u \in User : Arrive(g, u)
          \/ ReadStatus(g) \/ GenerateAccessToken(g) \/ Write(g)
    \/ \E r \in Use, g \in {h \in Grant : resp[h] = "ok"} \cup {None} : Auth(r, g)
    \/ \E u \in User : Block(u) \/ Unblock(u)
    \/ Tick

Spec == Init /\ [][Next]_vars

-----------------------------------------------------------------------------

\* A blocked user is locked out in a bounded time: whoever is let in has been
\* blocked for less than the lifetime of a token and the write timeout, though
\* a login that read the status before may sign its token long after.
BlockedOutSoon ==
    \A r \in Use : used[r] = "ok" => late[r] < TTL * Sec + WriteTimeout

\* A token lives for the expires_in seconds the client is told, give or take
\* the second that the expiry is rounded down to.
ExpiresInHonest ==
    \A r \in Use : LET g == from[r] IN
        /\ used[r] = "ok" => usedAt[r] < signedAt[g] + TTL * Sec
        /\ used[r] = "expired_token" => usedAt[r] > signedAt[g] + (TTL - 1) * Sec
=============================================================================
