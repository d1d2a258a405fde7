------------------------------ MODULE Sessions ------------------------------
(***************************************************************************)
(* Logging in, refreshing and logging out (internal/auth/service.go) over  *)
(* the table auth_sessions (internal/repositories/session.go).             *)
(*                                                                         *)
(* Every HTTP request runs in a goroutine of its own and talks to Postgres *)
(* through a pool; what separates two steps of a request here is a return  *)
(* from the database, after which any other request may run.  A login      *)
(* revokes and inserts in one READ COMMITTED transaction: its UPDATE sees  *)
(* the rows committed when it starts, locks them until the transaction     *)
(* ends, and nobody sees its INSERT before COMMIT.  The other statements   *)
(* are transactions of their own.                                          *)
(*                                                                         *)
(* A request is used once.  The session a login creates is named by that   *)
(* login, and the random token a request draws is named by that request.   *)
(* A login starts here once its password and its verified address are      *)
(* accepted.  The platform is always "web" (service.go:249) and is left    *)
(* out.                                                                    *)
(*                                                                         *)
(* Two clocks say whether a session has run out: that of Postgres in the   *)
(* filters of SQL, and that of the server in Session.IsExpired.            *)
(*                                                                         *)
(* A few definitions are preceded by faulty variants of themselves, which  *)
(* nothing refers to: each breaks a property the way a plausible bug       *)
(* would, and shows that the property notices (README, "Faulty variants"). *)
(***************************************************************************)
CONSTANTS
    User,
    Req,       \* requests, the sessions they create and the tokens they draw
    None,      \* no session, no user, or a token this server never issued
    Overlap,   \* may two requests be in progress at the same time?
    Failures,  \* may a database call fail, or its answer be lost?
    ClocksAgree \* is a session that has run out by one clock out by the other?

ASSUME SessionsAssumption ==
    /\ None \notin Req \cup User
    /\ Overlap \in BOOLEAN
    /\ Failures \in BOOLEAN
    /\ ClocksAgree \in BOOLEAN

VARIABLES
    stored,   \* the rows of auth_sessions
    hash,     \* refresh_token_hash of each row (None where there is no row)
    revoked,  \* rows whose revoked_at is set
    expired,  \* rows whose expires_at has passed, by the clock of Postgres
    outdated, \* rows whose expires_at has passed, by the clock of the server
    stamp,    \* the login that wrote last_login_at of each user last
    blocked,  \* users whose status is "blocked"
    op,       \* what each request is: "login", "refresh" or "logout"
    pc,       \* the database call each request makes next
    user,     \* the user a request acts for
    token,    \* the refresh token a request presents
    sid,      \* the session a refresh or a logout has read
    target,   \* the rows the UPDATE of a login revokes, and locks
    resp,     \* the answer
    noted,    \* history: what held of the sessions when the request arrived
    barred,   \* history: users blocked ever since the request arrived
    lapsed    \* history: sessions that have ever been expired

table == <<stored, hash, revoked, expired, outdated>>
call == <<op, user, token, noted>>
vars == <<table, stamp, blocked, call, pc, sid, target, resp, barred, lapsed>>

Ops == {"login", "refresh", "logout"}
Calls == {"loginUser", "loginStamp", "loginBegin", "loginRevoke", "loginCommit",
          "refreshFind", "refreshUser", "refreshRotate",
          "logoutFind", "logoutRevoke"}
Refusals == {"user_blocked", "invalid_refresh_token", "session_expired"}

\* How a call whose effect is in the database may be answered: a later step
\* of the request, or the way back from the database, can still fail.
Applied == {"ok"} \cup IF Failures THEN {"internal_error"} ELSE {}

TypeOK ==
    /\ stored \subseteq Req
    /\ hash \in [Req -> Req \cup {None}]
    /\ \A s \in Req : hash[s] \in Req <=> s \in stored
    /\ revoked \subseteq stored
    /\ expired \cup outdated \subseteq stored
    /\ stamp \in [User -> Req \cup {None}]
    /\ blocked \subseteq User
    /\ op \in [Req -> Ops \cup {"none"}]
    /\ pc \in [Req -> Calls \cup {"idle", "done"}]
    /\ user \in [Req -> User \cup {None}]
    /\ token \in [Req -> Req \cup {None}]
    /\ sid \in [Req -> Req \cup {None}]
    /\ target \in [Req -> SUBSET stored]
    /\ resp \in [Req -> Refusals \cup {"none", "ok", "internal_error"}]
    /\ noted \in [Req -> SUBSET stored]
    /\ barred \in [Req -> SUBSET blocked]
    /\ lapsed \subseteq stored

-----------------------------------------------------------------------------

\* What the SQL filter "revoked_at IS NULL AND expires_at > NOW()" selects.
Active == stored \ (revoked \cup expired)

\* The same two tests made in Go on a row that was read.
IsRevokedIgnored(s) == FALSE
IsRevoked(s) == s \in revoked
IsExpired(s) == s \in outdated

\* GetByRefreshTokenHash: the rows with that hash, of which QueryRow takes one.
Find(t) == {s \in stored : hash[s] = t}

\* GetByID: of the user row only the status matters.
IsBlockedIgnored(u) == FALSE
IsBlocked(u) == u \in blocked

\* GenerateRandomToken: 256 random bits, never drawn twice.
NewToken(r) == r

\* The refresh tokens clients hold: those of the logins and refreshes answered
\* with 200.
Delivered ==
    {t \in Req : op[t] \in {"login", "refresh"} /\ pc[t] = "done" /\ resp[t] = "ok"}

\* A row written by a transaction that has not ended.
Locked(s) == \E q \in Req : pc[q] = "loginCommit" /\ s \in target[q]

Init ==
    /\ stored = {} /\ hash = [s \in Req |-> None]
    /\ revoked = {} /\ expired = {} /\ outdated = {} /\ blocked = {}
    /\ stamp = [u \in User |-> None]
    /\ op = [r \in Req |-> "none"] /\ pc = [r \in Req |-> "idle"]
    /\ user = [r \in Req |-> None] /\ token = [r \in Req |-> None]
    /\ sid = [r \in Req |-> None] /\ target = [r \in Req |-> {}]
    /\ resp = [r \in Req |-> "none"] /\ noted = [r \in Req |-> {}]
    /\ barred = [r \in Req |-> {}] /\ lapsed = {}

Goto(r, c) == pc' = [pc EXCEPT ![r] = c]

Answer(r, a) ==
    /\ Goto(r, "done")
    /\ resp' = [resp EXCEPT ![r] = a]

-----------------------------------------------------------------------------
\* Requests arriving.

Arrive(r, o, u, t, seen, first) ==
    /\ pc[r] = "idle"
    /\ Overlap \/ \A q \in Req : pc[q] \in {"idle", "done"}
    /\ op' = [op EXCEPT ![r] = o]
    /\ user' = [user EXCEPT ![r] = u]
    /\ token' = [token EXCEPT ![r] = t]
    /\ noted' = [noted EXCEPT ![r] = seen]
    /\ barred' = [barred EXCEPT ![r] = blocked]
    /\ Goto(r, first)
    /\ UNCHANGED <<table, stamp, blocked, sid, target, resp, lapsed>>

\* A login notes the sessions there are.
ArriveLogin(r, u) == Arrive(r, "login", u, None, stored, "loginUser")

\* A refresh notes the sessions that are revoked.
ArriveRefresh(r, t) == Arrive(r, "refresh", None, t, revoked, "refreshFind")

\* A logout notes the sessions its token stands for.
ArriveLogout(r, t) == Arrive(r, "logout", None, t, Find(t), "logoutFind")

-----------------------------------------------------------------------------
\* Login, from the read of the user row on.

\* GetByID, and the check of the status it returns.
CheckUser(r, next) ==
    /\ \/ IsBlocked(user[r]) /\ Answer(r, "user_blocked")
       \/ ~IsBlocked(user[r]) /\ Goto(r, next) /\ UNCHANGED resp
    /\ UNCHANGED <<table, stamp, blocked, call, sid, target, barred, lapsed>>

LoginReadUser(r) == pc[r] = "loginUser" /\ CheckUser(r, "loginStamp")

UpdateLastLoginOnce(u, r) ==
    stamp' = [stamp EXCEPT ![u] = IF @ = None THEN r ELSE @]

\* last_login_at.  The time is taken before the statement runs: what matters of
\* it is whose it is.
UpdateLastLogin(u, r) == stamp' = [stamp EXCEPT ![u] = r]

LoginStamp(r) ==
    /\ pc[r] = "loginStamp"
    /\ UpdateLastLogin(user[r], r)
    /\ \/ Goto(r, "loginBegin") /\ UNCHANGED resp
       \/ Failures /\ Answer(r, "internal_error")
    /\ UNCHANGED <<table, blocked, call, sid, target, barred, lapsed>>

\* The rows RevokeActiveSessionsByPlatform selects.
SelectedExpired(r) == {s \in expired \ revoked : user[s] = user[r]}
SelectedOfAnyUser(r) == Active
Selected(r) == {s \in Active : user[s] = user[r]}

\* BEGIN, and the snapshot of the UPDATE: the rows committed by now.
LoginBegin(r) ==
    /\ pc[r] = "loginBegin"
    /\ target' = [target EXCEPT ![r] = Selected(r)]
    /\ Goto(r, "loginRevoke")
    /\ UNCHANGED <<table, stamp, blocked, call, sid, resp, barred, lapsed>>

\* The UPDATE returns once it holds the lock of every row it selected.
LoginRevoke(r) ==
    /\ pc[r] = "loginRevoke"
    /\ \A s \in target[r] : ~Locked(s)
    /\ Goto(r, "loginCommit")
    /\ UNCHANGED <<table, stamp, blocked, call, sid, target, resp, barred, lapsed>>

CreateSessionWithoutHash(r) ==
    /\ stored' = stored \cup {r}
    /\ UNCHANGED hash
CreateSession(r) ==
    /\ stored' = stored \cup {r}
    /\ hash' = [hash EXCEPT ![r] = NewToken(r)]

\* INSERT and COMMIT: both statements of the transaction show at once.
LoginCommit(r, a) ==
    /\ pc[r] = "loginCommit"
    /\ CreateSession(r)
    /\ revoked' = revoked \cup target[r]
    /\ Answer(r, a)
    /\ UNCHANGED <<expired, outdated, stamp, blocked, call, sid, target, barred, lapsed>>

-----------------------------------------------------------------------------
\* Refresh.

RefreshFind(r) ==
    /\ pc[r] = "refreshFind"
    /\ \/ /\ Find(token[r]) = {}
          /\ Answer(r, "invalid_refresh_token")
          /\ UNCHANGED <<sid, user>>
       \/ \E s \in Find(token[r]) :
             /\ sid' = [sid EXCEPT ![r] = s]
             /\ user' = [user EXCEPT ![r] = user[s]]
             /\ \/ IsRevoked(s) /\ Answer(r, "invalid_refresh_token")
                \/ ~IsRevoked(s) /\ IsExpired(s) /\ Answer(r, "session_expired")
                \/ ~IsRevoked(s) /\ ~IsExpired(s) /\ Goto(r, "refreshUser") /\ UNCHANGED resp
    /\ UNCHANGED <<table, stamp, blocked, op, token, noted, target, barred, lapsed>>

RefreshReadUserTooLate(r) ==
    /\ pc[r] = "refreshUser"
    /\ \/ /\ IsBlocked(user[r])
          /\ hash' = [hash EXCEPT ![sid[r]] = NewToken(r)]
          /\ Answer(r, "user_blocked")
       \/ ~IsBlocked(user[r]) /\ Goto(r, "refreshRotate") /\ UNCHANGED <<hash, resp>>
    /\ UNCHANGED <<stored, revoked, expired, outdated, stamp, blocked, call, sid, target,
                   barred, lapsed>>

RefreshReadUser(r) == pc[r] = "refreshUser" /\ CheckUser(r, "refreshRotate")

UpdateRefreshTokenAllOfUser(s, t) ==
    /\ hash' = [q \in Req |-> IF q \in stored /\ user[q] = user[s] THEN t ELSE hash[q]]
    /\ expired' = expired \ {s}
    /\ outdated' = outdated \ {s}
    /\ UNCHANGED <<stored, revoked>>

UpdateRefreshTokenWholeRow(s, t) ==
    /\ hash' = [hash EXCEPT ![s] = t]
    /\ expired' = expired \ {s}
    /\ outdated' = outdated \ {s}
    /\ revoked' = revoked \ {s}
    /\ UNCHANGED stored

\* By id alone: neither revoked_at nor the hash the session was found by is
\* looked at again.  The new expires_at is in the future by either clock.
UpdateRefreshToken(s, t) ==
    /\ hash' = [hash EXCEPT ![s] = t]
    /\ expired' = expired \ {s}
    /\ outdated' = outdated \ {s}
    /\ UNCHANGED <<stored, revoked>>

RefreshRotate(r, a) ==
    /\ pc[r] = "refreshRotate"
    /\ ~Locked(sid[r])
    /\ UpdateRefreshToken(sid[r], NewToken(r))
    /\ Answer(r, a)
    /\ UNCHANGED <<stamp, blocked, call, sid, target, barred, lapsed>>

-----------------------------------------------------------------------------
\* Logout.

LogoutFindActive(r) ==
    /\ pc[r] = "logoutFind"
    /\ \/ /\ Find(token[r]) \cap Active = {}
          /\ Answer(r, "ok")
          /\ UNCHANGED sid
       \/ \E s \in Find(token[r]) \cap Active :
             /\ sid' = [sid EXCEPT ![r] = s]
             /\ Goto(r, "logoutRevoke")
             /\ UNCHANGED resp
    /\ UNCHANGED <<table, stamp, blocked, call, target, barred, lapsed>>

LogoutFind(r) ==
    /\ pc[r] = "logoutFind"
    /\ \/ /\ Find(token[r]) = {}
          /\ Answer(r, "ok")
          /\ UNCHANGED sid
       \/ \E s \in Find(token[r]) :
             /\ sid' = [sid EXCEPT ![r] = s]
             /\ Goto(r, "logoutRevoke")
             /\ UNCHANGED resp
    /\ UNCHANGED <<table, stamp, blocked, call, target, barred, lapsed>>

\* By id, whether it is active or not.
Revoke(s) == revoked' = revoked \cup {s}

LogoutRevoke(r, a) ==
    /\ pc[r] = "logoutRevoke"
    /\ ~Locked(sid[r])
    /\ Revoke(sid[r])
    /\ Answer(r, a)
    /\ UNCHANGED <<stored, hash, expired, outdated, stamp, blocked, call, sid, target,
                   barred, lapsed>>

-----------------------------------------------------------------------------
\* Failures, the clock and the administrator.

\* A call fails before it has an effect (an error, a cancelled context, a
\* deadlock broken by Postgres): the transaction, if any, is rolled back.
Fail(r) ==
    /\ Failures
    /\ pc[r] \notin {"idle", "done"}
    /\ Answer(r, "internal_error")
    /\ UNCHANGED <<table, stamp, blocked, call, sid, target, barred, lapsed>>

\* One clock, or both, pass the expires_at of a row.  They are never at the
\* same point: the clocks are those of two machines, and at the very instant
\* SQL finds the session expired (expires_at > NOW()) and Go (After) does not.
Expire(s) ==
    /\ s \in stored
    /\ \/ /\ s \notin expired
          /\ expired' = expired \cup {s}
          /\ outdated' = IF ClocksAgree THEN outdated \cup {s} ELSE outdated
          /\ lapsed' = lapsed \cup {s}
       \/ /\ ~ClocksAgree /\ s \notin outdated
          /\ outdated' = outdated \cup {s}
          /\ UNCHANGED <<expired, lapsed>>
    /\ UNCHANGED <<stored, hash, revoked, stamp, blocked, call, pc, sid, target, resp, barred>>

\* users.status is only written by hand, in the database.
Block(u) ==
    /\ blocked' = blocked \cup {u}
    /\ UNCHANGED <<table, stamp, call, pc, sid, target, resp, barred, lapsed>>

Unblock(u) ==
    /\ blocked' = blocked \ {u}
    /\ barred' = [q \in Req |-> barred[q] \ {u}]
    /\ UNCHANGED <<table, stamp, call, pc, sid, target, resp, lapsed>>

-----------------------------------------------------------------------------

\* Everything a request does by itself, short of failing.
Step(r) ==
    \/ LoginReadUser(r) \/ LoginStamp(r) \/ LoginBegin(r) \/ LoginRevoke(r)
    \/ RefreshFind(r) \/ RefreshReadUser(r)
    \/ LogoutFind(r)
    \/ \E a \in Applied : LoginCommit(r, a) \/ RefreshRotate(r, a) \/ LogoutRevoke(r, a)

Next ==
    \/ \E r \in Req :
          \/ \E u \in User : ArriveLogin(r, u)
          \/ \E t \in Delivered \cup {None} : ArriveRefresh(r, t) \/ ArriveLogout(r, t)
          \/ Step(r)
          \/ Fail(r)
          \/ Expire(r)
    \/ \E u \in User : Block(u) \/ Unblock(u)

Spec == Init /\ [][Next]_vars

-----------------------------------------------------------------------------
\* What must hold whatever requests overlap.

\* A refresh token stands for at most one session.  The column has an index
\* but no UNIQUE constraint, and GetByRefreshTokenHash takes the first row.
OneSessionPerToken ==
    \A s1, s2 \in stored : hash[s1] = hash[s2] => s1 = s2

\* A session that was revoked before a refresh arrived is not refreshed by it,
\* whichever token the refresh presents.
NoRefreshAfterRevocation ==
    \A r \in Req :
        op[r] = "refresh" /\ resp[r] = "ok" => sid[r] \notin noted[r]

\* No login and no refresh succeeds for a user who was blocked from its arrival
\* to its answer, though both look at the status only once, before they write.
BlockedUserGetsNothing ==
    \A r \in Req :
        op[r] \in {"login", "refresh"} /\ resp[r] = "ok" => user[r] \notin barred[r]

\* last_login_at is never that of a login that was over when the login of some
\* session of the user arrived: every login writes it before its session is
\* there, and one that is over does not write it again.  Of logins that overlap
\* it may be that of either.
LastLoginKeepsUp ==
    \A s \in stored : stamp[user[s]] \notin noted[s] \cup {None}

\* Two sessions of a user can be used at the same time only if their logins
\* overlapped, or if one of the two had run out for Postgres and a refresh that
\* had read it before, or whose server's clock was behind, brought it back.
OnlyOverlapLeavesTwo ==
    \A s1, s2 \in Active :
        s1 # s2 /\ user[s1] = user[s2]
            => \/ s1 \notin noted[s2] /\ s2 \notin noted[s1]
               \/ {s1, s2} \cap lapsed # {}

\* A session is revoked only by a later login of its own user, which created
\* another, or by a logout that found it by its token; nobody else's request
\* ends it, and none that failed before its transaction was committed.
OnlyOwnSessionsEnd ==
    \A s \in revoked : \E r \in Req :
        /\ pc[r] = "done"
        /\ \/ op[r] = "login" /\ user[r] = user[s] /\ r \in stored \ {s}
           \/ op[r] = "logout" /\ sid[r] = s

\* The hash in a row is that of a token sent to a client, unless the answer
\* that carried it was a 500: a refusal (blocked, expired, revoked, unknown)
\* never locks a client out by replacing its token.
TokenReachesClient ==
    \A s \in stored : pc[hash[s]] = "done" /\ resp[hash[s]] \in Applied

\* After a logout is answered with 200 the token it presented refreshes
\* nothing, whether or not the logout found it: a replaced token never returns.
LogoutKillsToken ==
    \A r \in Req :
        op[r] = "logout" /\ resp[r] = "ok" => Find(token[r]) \subseteq revoked

-----------------------------------------------------------------------------
\* What holds only when requests do not overlap.

\* session.go:186: RevokeActiveSessionsByPlatform is "Used to enforce
\* single-session-per-platform before creating a new session."
SingleSessionPerPlatform ==
    \A s1, s2 \in Active : user[s1] = user[s2] => s1 = s2

\* handlers.go:188: logout is to "Revoke the current session/refresh token".
\* The session the presented token stood for when the logout arrived is
\* revoked when it is answered with 200.
LogoutEndsSession ==
    \A r \in Req :
        op[r] = "logout" /\ resp[r] = "ok" => noted[r] \subseteq revoked

-----------------------------------------------------------------------------

\* The table seen without requests: a register of sessions and their tokens.
Registry ==
    INSTANCE SessionRegistry WITH
        Session <- Req, Token <- Req, NoToken <- None,
        open <- stored \ revoked, closed <- revoked, key <- hash,
        spent <- {t \in Req : pc[t] = "done" /\ op[t] # "logout"}

\* The table implements the register.
ImplementsRegistry == Registry!Spec
=============================================================================
