--------------------------- MODULE SessionsProofs ---------------------------
(***************************************************************************)
(* Proofs about Sessions and PooledSessions, for every set of users and    *)
(* requests and every bound of the pool.                                   *)
(***************************************************************************)
EXTENDS PooledSessions, FiniteSetTheorems, TLAPS

USE DEF IsBlocked, CheckUser, CreateSession, UpdateLastLogin, UpdateRefreshToken, Revoke,
        Ops, Calls, Refusals, IsRevoked, IsExpired, Selected

-----------------------------------------------------------------------------
(***************************************************************************)
(* Where a request can stand, and what it holds there.  TypeOK is not      *)
(* inductive without it: a rotation keeps the domain of hash only because  *)
(* the session it read is still in the table.                              *)
(***************************************************************************)

LoginCalls == {"loginUser", "loginStamp", "loginBegin", "loginRevoke", "loginCommit"}
RefreshCalls == {"refreshFind", "refreshUser", "refreshRotate"}
LogoutCalls == {"logoutFind", "logoutRevoke"}

Place(r) ==
    /\ pc[r] = "idle" <=> op[r] = "none"
    /\ pc[r] \in LoginCalls => op[r] = "login"
    /\ pc[r] \in RefreshCalls => op[r] = "refresh"
    /\ pc[r] \in LogoutCalls => op[r] = "logout"
    /\ pc[r] # "done" <=> resp[r] = "none"
    /\ op[r] = "login" => user[r] \in User

Holds(r) ==
    /\ pc[r] \in {"refreshUser", "refreshRotate", "logoutRevoke"} => sid[r] \in stored
    /\ pc[r] \in {"refreshUser", "refreshRotate"} => user[r] = user[sid[r]]

\* Rows are created by logins that have ended.
Rows == \A s \in stored : op[s] = "login" /\ pc[s] = "done"

Base ==
    /\ TypeOK
    /\ Rows
    /\ \A r \in Req : Place(r) /\ Holds(r)

LEMMA InitBase == Init => Base
  BY SessionsAssumption
  DEF Init, Base, TypeOK, Rows, Place, Holds, LoginCalls, RefreshCalls, LogoutCalls

LEMMA StepBase ==
  ASSUME Base, [Next]_vars
  PROVE  Base'
<1> USE SessionsAssumption
    DEF Base, TypeOK, Rows, Place, Holds, LoginCalls, RefreshCalls, LogoutCalls
<1>1. ASSUME NEW r \in Req, NEW u \in User, ArriveLogin(r, u)
      PROVE  Base'
  BY <1>1 DEF ArriveLogin, Arrive, Goto, table
<1>2. ASSUME NEW r \in Req, NEW t \in Delivered \cup {None}, ArriveRefresh(r, t)
      PROVE  Base'
  BY <1>2 DEF ArriveRefresh, Arrive, Goto, table, Delivered
<1>3. ASSUME NEW r \in Req, NEW t \in Delivered \cup {None}, ArriveLogout(r, t)
      PROVE  Base'
  BY <1>3 DEF ArriveLogout, Arrive, Goto, table, Find, Delivered
<1>4. ASSUME NEW r \in Req, LoginReadUser(r)
      PROVE  Base'
  BY <1>4 DEF LoginReadUser, Answer, Goto, table, call
<1>5. ASSUME NEW r \in Req, LoginBegin(r)
      PROVE  Base'
  BY <1>5 DEF LoginBegin, Goto, table, call, Active
<1>6. ASSUME NEW r \in Req, LoginRevoke(r)
      PROVE  Base'
  BY <1>6 DEF LoginRevoke, Goto, table, call
<1>7. ASSUME NEW r \in Req, NEW a \in Applied, LoginCommit(r, a)
      PROVE  Base'
  BY <1>7 DEF LoginCommit, Answer, Goto, call, Applied, NewToken
<1>8. ASSUME NEW r \in Req, RefreshFind(r)
      PROVE  Base'
  <2>1. CASE Find(token[r]) = {} /\ Answer(r, "invalid_refresh_token")
                /\ UNCHANGED <<sid, user>>
    BY <1>8, <2>1 DEF RefreshFind, Answer, Goto, table
  <2>2. ASSUME NEW s \in Find(token[r]),
               sid' = [sid EXCEPT ![r] = s],
               user' = [user EXCEPT ![r] = user[s]],
               \/ Answer(r, "invalid_refresh_token")
               \/ Answer(r, "session_expired")
               \/ Goto(r, "refreshUser") /\ UNCHANGED resp
        PROVE  Base'
    <3>1. s \in stored /\ s # r /\ user[s] \in User
      BY <1>8, <2>2 DEF RefreshFind, Find
    <3>2. TypeOK' /\ Rows'
      BY <1>8, <2>2, <3>1 DEF RefreshFind, Answer, Goto, table
    <3>3. \A q \in Req : Place(q)'
      BY <1>8, <2>2, <3>1 DEF RefreshFind, Answer, Goto, table
    <3>4. \A q \in Req : Holds(q)'
      BY <1>8, <2>2, <3>1 DEF RefreshFind, Answer, Goto, table
    <3> QED
      BY <3>2, <3>3, <3>4
  <2> QED
    BY <1>8, <2>1, <2>2 DEF RefreshFind
<1>9. ASSUME NEW r \in Req, RefreshReadUser(r)
      PROVE  Base'
  BY <1>9 DEF RefreshReadUser, Answer, Goto, table, call
<1>10. ASSUME NEW r \in Req, NEW a \in Applied, RefreshRotate(r, a)
      PROVE  Base'
  BY <1>10 DEF RefreshRotate, Answer, Goto, call, Applied, NewToken
<1>11. ASSUME NEW r \in Req, LogoutFind(r)
      PROVE  Base'
  BY <1>11 DEF LogoutFind, Answer, Goto, table, call, Find
<1>12. ASSUME NEW r \in Req, NEW a \in Applied, LogoutRevoke(r, a)
      PROVE  Base'
  BY <1>12 DEF LogoutRevoke, Answer, Goto, call, Applied
<1>13. ASSUME NEW r \in Req, Fail(r)
      PROVE  Base'
  BY <1>13 DEF Fail, Answer, Goto, table, call
<1>14. ASSUME NEW s \in Req, Expire(s)
      PROVE  Base'
  BY <1>14 DEF Expire, call
<1>15. ASSUME NEW u \in User, Block(u) \/ Unblock(u)
      PROVE  Base'
  BY <1>15 DEF Block, Unblock, table, call
<1>16. CASE UNCHANGED vars
  BY <1>16 DEF vars, table, call
<1>17. ASSUME NEW r \in Req, LoginStamp(r)
      PROVE  Base'
  BY <1>17 DEF LoginStamp, Answer, Goto, table, call
<1> QED
  BY <1>1, <1>2, <1>3, <1>4, <1>5, <1>6, <1>7, <1>8, <1>9, <1>10, <1>11, <1>12, <1>13, <1>14, <1>15, <1>16, <1>17 DEF Next, Step

-----------------------------------------------------------------------------
(***************************************************************************)
(* Tokens.  The hash in a row is the token of a request that is over, and  *)
(* the request that writes a hash is not over yet: a rotation never writes *)
(* a hash that is, or was, anybody's.                                      *)
(***************************************************************************)

Tokens ==
    /\ OneSessionPerToken
    /\ TokenReachesClient
    /\ \A s \in stored : op[hash[s]] \in {"login", "refresh"}
    /\ \A r \in Req :
          /\ token[r] \in Req => pc[token[r]] = "done"
          /\ pc[r] = "logoutRevoke" => Find(token[r]) \subseteq {sid[r]}
    /\ LogoutKillsToken

LEMMA StepTokens ==
  ASSUME Base, Base', Tokens, [Next]_vars
  PROVE  Tokens'
<1> USE SessionsAssumption
    DEF Base, TypeOK, Rows, Place, Holds, LoginCalls, RefreshCalls, LogoutCalls,
        Tokens, OneSessionPerToken, TokenReachesClient, LogoutKillsToken, Find,
        Answer, Goto, table, call, NewToken
<1>1. ASSUME NEW r \in Req, NEW u \in User, ArriveLogin(r, u)
      PROVE  Tokens'
  BY <1>1 DEF ArriveLogin, Arrive
<1>2. ASSUME NEW r \in Req, NEW t \in Delivered \cup {None}, ArriveRefresh(r, t)
      PROVE  Tokens'
  BY <1>2 DEF ArriveRefresh, Arrive, Delivered
<1>3. ASSUME NEW r \in Req, NEW t \in Delivered \cup {None}, ArriveLogout(r, t)
      PROVE  Tokens'
  BY <1>3 DEF ArriveLogout, Arrive, Delivered
<1>4. ASSUME NEW r \in Req, LoginReadUser(r)
      PROVE  Tokens'
  BY <1>4 DEF LoginReadUser
<1>5. ASSUME NEW r \in Req, LoginBegin(r)
      PROVE  Tokens'
  BY <1>5 DEF LoginBegin
<1>6. ASSUME NEW r \in Req, LoginRevoke(r)
      PROVE  Tokens'
  BY <1>6 DEF LoginRevoke
<1>7. ASSUME NEW r \in Req, NEW a \in Applied, LoginCommit(r, a)
      PROVE  Tokens'
  BY <1>7 DEF LoginCommit
<1>8. ASSUME NEW r \in Req, RefreshFind(r)
      PROVE  Tokens'
  BY <1>8, SMTT(60) DEF RefreshFind
<1>9. ASSUME NEW r \in Req, RefreshReadUser(r)
      PROVE  Tokens'
  BY <1>9, SMTT(60) DEF RefreshReadUser
<1>10. ASSUME NEW r \in Req, NEW a \in Applied, RefreshRotate(r, a)
      PROVE  Tokens'
  BY <1>10 DEF RefreshRotate
<1>11. ASSUME NEW r \in Req, LogoutFind(r)
      PROVE  Tokens'
  BY <1>11 DEF LogoutFind
<1>12. ASSUME NEW r \in Req, NEW a \in Applied, LogoutRevoke(r, a)
      PROVE  Tokens'
  BY <1>12 DEF LogoutRevoke
<1>13. ASSUME NEW r \in Req, Fail(r)
      PROVE  Tokens'
  BY <1>13 DEF Fail
<1>14. ASSUME NEW s \in Req, Expire(s)
      PROVE  Tokens'
  BY <1>14 DEF Expire
<1>15. ASSUME NEW u \in User, Block(u) \/ Unblock(u)
      PROVE  Tokens'
  BY <1>15 DEF Block, Unblock
<1>16. CASE UNCHANGED vars
  BY <1>16 DEF vars
<1>17. ASSUME NEW r \in Req, LoginStamp(r)
      PROVE  Tokens'
  BY <1>17 DEF LoginStamp
<1> QED
  BY <1>1, <1>2, <1>3, <1>4, <1>5, <1>6, <1>7, <1>8, <1>9, <1>10, <1>11, <1>12, <1>13, <1>14, <1>15, <1>16, <1>17
  DEF Next, Step

-----------------------------------------------------------------------------
(***************************************************************************)
(* What a request knew when it arrived.  Revocation is final, so what a    *)
(* refresh finds unrevoked was unrevoked when it arrived; and a request    *)
(* that got past the status check acts for a user seen unblocked since it  *)
(* arrived.                                                                *)
(***************************************************************************)

History ==
    /\ \A r \in Req :
          /\ op[r] = "refresh" => noted[r] \subseteq revoked
          /\ pc[r] \in {"refreshUser", "refreshRotate"} => sid[r] \notin noted[r]
          /\ pc[r] \in {"loginStamp", "loginBegin", "loginRevoke", "loginCommit", "refreshRotate"}
                => user[r] \notin barred[r]
    /\ NoRefreshAfterRevocation
    /\ BlockedUserGetsNothing

LEMMA StepHistory ==
  ASSUME Base, Base', History, [Next]_vars
  PROVE  History'
<1> USE SessionsAssumption
    DEF Base, TypeOK, Rows, Place, Holds, LoginCalls, RefreshCalls, LogoutCalls,
        History, NoRefreshAfterRevocation, BlockedUserGetsNothing, Find, Active,
        Answer, Goto, table, call
<1>1. ASSUME NEW r \in Req, NEW u \in User, ArriveLogin(r, u)
      PROVE  History'
  BY <1>1 DEF ArriveLogin, Arrive
<1>2. ASSUME NEW r \in Req, NEW t \in Delivered \cup {None}, ArriveRefresh(r, t)
      PROVE  History'
  BY <1>2 DEF ArriveRefresh, Arrive, Delivered
<1>3. ASSUME NEW r \in Req, NEW t \in Delivered \cup {None}, ArriveLogout(r, t)
      PROVE  History'
  BY <1>3 DEF ArriveLogout, Arrive, Delivered
<1>4. ASSUME NEW r \in Req, LoginReadUser(r)
      PROVE  History'
  BY <1>4 DEF LoginReadUser
<1>5. ASSUME NEW r \in Req, LoginBegin(r)
      PROVE  History'
  BY <1>5 DEF LoginBegin
<1>6. ASSUME NEW r \in Req, LoginRevoke(r)
      PROVE  History'
  BY <1>6 DEF LoginRevoke
<1>7. ASSUME NEW r \in Req, NEW a \in Applied, LoginCommit(r, a)
      PROVE  History'
  BY <1>7 DEF LoginCommit
<1>8. ASSUME NEW r \in Req, RefreshFind(r)
      PROVE  History'
  <2>1. \A q \in Req \ {r} : UNCHANGED <<op[q], pc[q], sid[q], user[q], resp[q], noted[q], barred[q]>>
    BY <1>8 DEF RefreshFind
  <2>2. op[r] = "refresh" /\ UNCHANGED <<op, revoked, noted, barred>>
    BY <1>8 DEF RefreshFind
  <2>3. /\ pc'[r] \in {"done", "refreshUser"} /\ resp'[r] # "ok"
        /\ pc'[r] = "refreshUser" => sid'[r] \notin revoked
    BY <1>8 DEF RefreshFind
  <2>4. (\A q \in Req :
          /\ op[q] = "refresh" => noted[q] \subseteq revoked
          /\ pc[q] \in {"refreshUser", "refreshRotate"} => sid[q] \notin noted[q]
          /\ pc[q] \in {"loginStamp", "loginBegin", "loginRevoke", "loginCommit", "refreshRotate"}
                => user[q] \notin barred[q])'
    <3>1. ASSUME NEW q \in Req \ {r}
          PROVE  (/\ op[q] = "refresh" => noted[q] \subseteq revoked
                  /\ pc[q] \in {"refreshUser", "refreshRotate"} => sid[q] \notin noted[q]
                  /\ pc[q] \in {"loginStamp", "loginBegin", "loginRevoke", "loginCommit", "refreshRotate"}
                        => user[q] \notin barred[q])'
      BY <2>1, <2>2
    <3>2. (/\ op[r] = "refresh" => noted[r] \subseteq revoked
           /\ pc[r] \in {"refreshUser", "refreshRotate"} => sid[r] \notin noted[r]
           /\ pc[r] \in {"loginStamp", "loginBegin", "loginRevoke", "loginCommit", "refreshRotate"}
                 => user[r] \notin barred[r])'
      BY <2>2, <2>3
    <3> QED
      BY <3>1, <3>2
  <2>5. NoRefreshAfterRevocation'
    BY <2>1, <2>2, <2>3
  <2>6. BlockedUserGetsNothing'
    BY <2>1, <2>2, <2>3
  <2> QED
    BY <2>4, <2>5, <2>6
<1>9. ASSUME NEW r \in Req, RefreshReadUser(r)
      PROVE  History'
  BY <1>9 DEF RefreshReadUser
<1>10. ASSUME NEW r \in Req, NEW a \in Applied, RefreshRotate(r, a)
      PROVE  History'
  BY <1>10 DEF RefreshRotate
<1>11. ASSUME NEW r \in Req, LogoutFind(r)
      PROVE  History'
  BY <1>11 DEF LogoutFind
<1>12. ASSUME NEW r \in Req, NEW a \in Applied, LogoutRevoke(r, a)
      PROVE  History'
  BY <1>12 DEF LogoutRevoke
<1>13. ASSUME NEW r \in Req, Fail(r)
      PROVE  History'
  BY <1>13 DEF Fail
<1>14. ASSUME NEW s \in Req, Expire(s)
      PROVE  History'
  BY <1>14 DEF Expire
<1>15. ASSUME NEW u \in User, Block(u) \/ Unblock(u)
      PROVE  History'
  BY <1>15 DEF Block, Unblock
<1>16. CASE UNCHANGED vars
  BY <1>16 DEF vars
<1>17. ASSUME NEW r \in Req, LoginStamp(r)
      PROVE  History'
  BY <1>17 DEF LoginStamp
<1> QED
  BY <1>1, <1>2, <1>3, <1>4, <1>5, <1>6, <1>7, <1>8, <1>9, <1>10, <1>11, <1>12, <1>13, <1>14, <1>15, <1>16, <1>17
  DEF Next, Step

-----------------------------------------------------------------------------
(***************************************************************************)
(* What a login leaves behind.  Of the sessions of its user that were in   *)
(* the table when it arrived, each one is revoked, or is a target of its   *)
(* UPDATE that its COMMIT will revoke, or had run out when it looked.      *)
(***************************************************************************)

Successor ==
    /\ expired \subseteq lapsed
    /\ \A r \in Req : pc[r] \in {"loginRevoke", "loginCommit"} =>
          \A s \in noted[r] : user[s] = user[r] => s \in revoked \cup lapsed \cup target[r]
    /\ \A r \in stored :
          \A s \in noted[r] : user[s] = user[r] => s \in revoked \cup lapsed

LEMMA StepSuccessor ==
  ASSUME Base, Base', Successor, [Next]_vars
  PROVE  Successor'
<1> USE SessionsAssumption
    DEF Base, TypeOK, Rows, Place, Holds, LoginCalls, RefreshCalls, LogoutCalls,
        Successor, Find, Active, Answer, Goto, table, call
<1>1. ASSUME NEW r \in Req, NEW u \in User, ArriveLogin(r, u)
      PROVE  Successor'
  BY <1>1 DEF ArriveLogin, Arrive
<1>2. ASSUME NEW r \in Req, NEW t \in Delivered \cup {None}, ArriveRefresh(r, t)
      PROVE  Successor'
  BY <1>2 DEF ArriveRefresh, Arrive, Delivered
<1>3. ASSUME NEW r \in Req, NEW t \in Delivered \cup {None}, ArriveLogout(r, t)
      PROVE  Successor'
  BY <1>3 DEF ArriveLogout, Arrive, Delivered
<1>4. ASSUME NEW r \in Req, LoginReadUser(r)
      PROVE  Successor'
  BY <1>4 DEF LoginReadUser
<1>5. ASSUME NEW r \in Req, LoginBegin(r)
      PROVE  Successor'
  BY <1>5 DEF LoginBegin
<1>6. ASSUME NEW r \in Req, LoginRevoke(r)
      PROVE  Successor'
  BY <1>6 DEF LoginRevoke
<1>7. ASSUME NEW r \in Req, NEW a \in Applied, LoginCommit(r, a)
      PROVE  Successor'
  BY <1>7 DEF LoginCommit
<1>8. ASSUME NEW r \in Req, RefreshFind(r)
      PROVE  Successor'
  BY <1>8, SMTT(60) DEF RefreshFind
<1>9. ASSUME NEW r \in Req, RefreshReadUser(r)
      PROVE  Successor'
  BY <1>9 DEF RefreshReadUser
<1>10. ASSUME NEW r \in Req, NEW a \in Applied, RefreshRotate(r, a)
      PROVE  Successor'
  BY <1>10 DEF RefreshRotate
<1>11. ASSUME NEW r \in Req, LogoutFind(r)
      PROVE  Successor'
  BY <1>11 DEF LogoutFind
<1>12. ASSUME NEW r \in Req, NEW a \in Applied, LogoutRevoke(r, a)
      PROVE  Successor'
  BY <1>12 DEF LogoutRevoke
<1>13. ASSUME NEW r \in Req, Fail(r)
      PROVE  Successor'
  BY <1>13 DEF Fail
<1>14. ASSUME NEW s \in Req, Expire(s)
      PROVE  Successor'
  BY <1>14 DEF Expire
<1>15. ASSUME NEW u \in User, Block(u) \/ Unblock(u)
      PROVE  Successor'
  BY <1>15 DEF Block, Unblock
<1>16. CASE UNCHANGED vars
  BY <1>16 DEF vars
<1>17. ASSUME NEW r \in Req, LoginStamp(r)
      PROVE  Successor'
  BY <1>17 DEF LoginStamp
<1> QED
  BY <1>1, <1>2, <1>3, <1>4, <1>5, <1>6, <1>7, <1>8, <1>9, <1>10, <1>11, <1>12, <1>13, <1>14, <1>15, <1>16, <1>17
  DEF Next, Step

LEMMA SuccessorOverlap == Successor => OnlyOverlapLeavesTwo
  BY DEF Successor, OnlyOverlapLeavesTwo, Active

-----------------------------------------------------------------------------
(***************************************************************************)
(* Who revokes.  The targets of a login are sessions of its own user.      *)
(***************************************************************************)

Reasons ==
    /\ \A r \in Req : pc[r] \in {"loginRevoke", "loginCommit"} =>
          \A s \in target[r] : user[s] = user[r]
    /\ OnlyOwnSessionsEnd

LEMMA StepReasons ==
  ASSUME Base, Base', Reasons, [Next]_vars
  PROVE  Reasons'
<1> USE SessionsAssumption
    DEF Base, TypeOK, Rows, Place, Holds, LoginCalls, RefreshCalls, LogoutCalls,
        Reasons, OnlyOwnSessionsEnd, Find, Active, Answer, Goto, table, call
<1>1. ASSUME NEW r \in Req, NEW u \in User, ArriveLogin(r, u)
      PROVE  Reasons'
  BY <1>1 DEF ArriveLogin, Arrive
<1>2. ASSUME NEW r \in Req, NEW t \in Delivered \cup {None}, ArriveRefresh(r, t)
      PROVE  Reasons'
  BY <1>2 DEF ArriveRefresh, Arrive, Delivered
<1>3. ASSUME NEW r \in Req, NEW t \in Delivered \cup {None}, ArriveLogout(r, t)
      PROVE  Reasons'
  BY <1>3 DEF ArriveLogout, Arrive, Delivered
<1>4. ASSUME NEW r \in Req, LoginReadUser(r)
      PROVE  Reasons'
  BY <1>4 DEF LoginReadUser
<1>5. ASSUME NEW r \in Req, LoginBegin(r)
      PROVE  Reasons'
  BY <1>5 DEF LoginBegin
<1>6. ASSUME NEW r \in Req, LoginRevoke(r)
      PROVE  Reasons'
  BY <1>6 DEF LoginRevoke
<1>7. ASSUME NEW r \in Req, NEW a \in Applied, LoginCommit(r, a)
      PROVE  Reasons'
  BY <1>7 DEF LoginCommit
<1>8. ASSUME NEW r \in Req, RefreshFind(r)
      PROVE  Reasons'
  BY <1>8, SMTT(60) DEF RefreshFind
<1>9. ASSUME NEW r \in Req, RefreshReadUser(r)
      PROVE  Reasons'
  BY <1>9 DEF RefreshReadUser
<1>10. ASSUME NEW r \in Req, NEW a \in Applied, RefreshRotate(r, a)
      PROVE  Reasons'
  BY <1>10 DEF RefreshRotate
<1>11. ASSUME NEW r \in Req, LogoutFind(r)
      PROVE  Reasons'
  BY <1>11 DEF LogoutFind
<1>12. ASSUME NEW r \in Req, NEW a \in Applied, LogoutRevoke(r, a)
      PROVE  Reasons'
  BY <1>12 DEF LogoutRevoke
<1>13. ASSUME NEW r \in Req, Fail(r)
      PROVE  Reasons'
  BY <1>13 DEF Fail
<1>14. ASSUME NEW s \in Req, Expire(s)
      PROVE  Reasons'
  BY <1>14 DEF Expire
<1>15. ASSUME NEW u \in User, Block(u) \/ Unblock(u)
      PROVE  Reasons'
  BY <1>15 DEF Block, Unblock
<1>16. CASE UNCHANGED vars
  BY <1>16 DEF vars
<1>17. ASSUME NEW r \in Req, LoginStamp(r)
      PROVE  Reasons'
  BY <1>17 DEF LoginStamp
<1> QED
  BY <1>1, <1>2, <1>3, <1>4, <1>5, <1>6, <1>7, <1>8, <1>9, <1>10, <1>11, <1>12, <1>13, <1>14, <1>15, <1>16, <1>17
  DEF Next, Step

-----------------------------------------------------------------------------
(***************************************************************************)
(* last_login_at.  A login that has stamped its user keeps, in the column, *)
(* its own stamp or that of a login that was not over when it arrived.     *)
(***************************************************************************)

Stamps ==
    \A r \in Req :
        pc[r] \in {"loginBegin", "loginRevoke", "loginCommit"} \/ r \in stored
            => stamp[user[r]] \notin noted[r] \cup {None}

LEMMA StepStamps ==
  ASSUME Base, Base', Stamps, [Next]_vars
  PROVE  Stamps'
<1> USE SessionsAssumption
    DEF Base, TypeOK, Rows, Place, Holds, LoginCalls, RefreshCalls, LogoutCalls,
        Stamps, Find, Active, Answer, Goto, table, call
<1>1. ASSUME NEW r \in Req, NEW u \in User, ArriveLogin(r, u)
      PROVE  Stamps'
  BY <1>1 DEF ArriveLogin, Arrive
<1>2. ASSUME NEW r \in Req, NEW t \in Delivered \cup {None}, ArriveRefresh(r, t)
      PROVE  Stamps'
  BY <1>2 DEF ArriveRefresh, Arrive, Delivered
<1>3. ASSUME NEW r \in Req, NEW t \in Delivered \cup {None}, ArriveLogout(r, t)
      PROVE  Stamps'
  BY <1>3 DEF ArriveLogout, Arrive, Delivered
<1>4. ASSUME NEW r \in Req, LoginReadUser(r)
      PROVE  Stamps'
  BY <1>4 DEF LoginReadUser
<1>5. ASSUME NEW r \in Req, LoginBegin(r)
      PROVE  Stamps'
  BY <1>5 DEF LoginBegin
<1>6. ASSUME NEW r \in Req, LoginRevoke(r)
      PROVE  Stamps'
  BY <1>6 DEF LoginRevoke
<1>7. ASSUME NEW r \in Req, NEW a \in Applied, LoginCommit(r, a)
      PROVE  Stamps'
  BY <1>7 DEF LoginCommit
<1>8. ASSUME NEW r \in Req, RefreshFind(r)
      PROVE  Stamps'
  BY <1>8 DEF RefreshFind
<1>9. ASSUME NEW r \in Req, RefreshReadUser(r)
      PROVE  Stamps'
  BY <1>9 DEF RefreshReadUser
<1>10. ASSUME NEW r \in Req, NEW a \in Applied, RefreshRotate(r, a)
      PROVE  Stamps'
  BY <1>10 DEF RefreshRotate
<1>11. ASSUME NEW r \in Req, LogoutFind(r)
      PROVE  Stamps'
  BY <1>11 DEF LogoutFind
<1>12. ASSUME NEW r \in Req, NEW a \in Applied, LogoutRevoke(r, a)
      PROVE  Stamps'
  BY <1>12 DEF LogoutRevoke
<1>13. ASSUME NEW r \in Req, Fail(r)
      PROVE  Stamps'
  BY <1>13 DEF Fail
<1>14. ASSUME NEW s \in Req, Expire(s)
      PROVE  Stamps'
  BY <1>14 DEF Expire
<1>15. ASSUME NEW u \in User, Block(u) \/ Unblock(u)
      PROVE  Stamps'
  BY <1>15 DEF Block, Unblock
<1>16. CASE UNCHANGED vars
  BY <1>16 DEF vars
<1>17. ASSUME NEW r \in Req, LoginStamp(r)
      PROVE  Stamps'
  BY <1>17 DEF LoginStamp
<1> QED
  BY <1>1, <1>2, <1>3, <1>4, <1>5, <1>6, <1>7, <1>8, <1>9, <1>10, <1>11, <1>12, <1>13, <1>14, <1>15, <1>16, <1>17
  DEF Next, Step

-----------------------------------------------------------------------------
(***************************************************************************)
(* Requests one at a time.  The session a refresh has found is then the    *)
(* only one of its user that is active, and stays so until the rotation;   *)
(* the targets of a login are all the active sessions of its user until    *)
(* the COMMIT; and the session a logout noted is the one it finds.         *)
(***************************************************************************)

IsBusy(r) == pc[r] \notin {"idle", "done"}

Alone ==
    /\ \A q, r \in Req : IsBusy(q) /\ IsBusy(r) => q = r
    /\ expired = outdated
    /\ SingleSessionPerPlatform
    /\ LogoutEndsSession
    /\ \A r \in Req :
          /\ pc[r] \in {"refreshUser", "refreshRotate"} =>
                \A s \in stored :
                    user[s] = user[sid[r]] => s \in {sid[r]} \cup revoked \cup expired
          /\ pc[r] \in {"loginRevoke", "loginCommit"} =>
                \A s \in Active : user[s] = user[r] => s \in target[r]
          /\ pc[r] = "logoutFind" => noted[r] = Find(token[r])
          /\ pc[r] = "logoutRevoke" => noted[r] \subseteq {sid[r]}

LEMMA StepAlone ==
  ASSUME Base, Base', Tokens, Alone, ~Overlap, ClocksAgree, [Next]_vars
  PROVE  Alone'
<1> USE SessionsAssumption
    DEF Base, TypeOK, Rows, Place, Holds, LoginCalls, RefreshCalls, LogoutCalls,
        Tokens, OneSessionPerToken, Alone, IsBusy, SingleSessionPerPlatform,
        LogoutEndsSession, Find, Active, Answer, Goto, table, call, NewToken
<1>1. ASSUME NEW r \in Req, NEW u \in User, ArriveLogin(r, u)
      PROVE  Alone'
  BY <1>1 DEF ArriveLogin, Arrive
<1>2. ASSUME NEW r \in Req, NEW t \in Delivered \cup {None}, ArriveRefresh(r, t)
      PROVE  Alone'
  BY <1>2 DEF ArriveRefresh, Arrive, Delivered
<1>3. ASSUME NEW r \in Req, NEW t \in Delivered \cup {None}, ArriveLogout(r, t)
      PROVE  Alone'
  BY <1>3 DEF ArriveLogout, Arrive, Delivered
<1>4. ASSUME NEW r \in Req, LoginReadUser(r)
      PROVE  Alone'
  BY <1>4, SMTT(60) DEF LoginReadUser
<1>5. ASSUME NEW r \in Req, LoginBegin(r)
      PROVE  Alone'
  BY <1>5 DEF LoginBegin
<1>6. ASSUME NEW r \in Req, LoginRevoke(r)
      PROVE  Alone'
  BY <1>6 DEF LoginRevoke
<1>7. ASSUME NEW r \in Req, NEW a \in Applied, LoginCommit(r, a)
      PROVE  Alone'
  BY <1>7 DEF LoginCommit
<1>8. ASSUME NEW r \in Req, RefreshFind(r)
      PROVE  Alone'
  BY <1>8, SMTT(60) DEF RefreshFind
<1>9. ASSUME NEW r \in Req, RefreshReadUser(r)
      PROVE  Alone'
  BY <1>9, SMTT(60) DEF RefreshReadUser
<1>10. ASSUME NEW r \in Req, NEW a \in Applied, RefreshRotate(r, a)
      PROVE  Alone'
  BY <1>10 DEF RefreshRotate
<1>11. ASSUME NEW r \in Req, LogoutFind(r)
      PROVE  Alone'
  BY <1>11 DEF LogoutFind
<1>12. ASSUME NEW r \in Req, NEW a \in Applied, LogoutRevoke(r, a)
      PROVE  Alone'
  BY <1>12 DEF LogoutRevoke
<1>13. ASSUME NEW r \in Req, Fail(r)
      PROVE  Alone'
  BY <1>13 DEF Fail
<1>14. ASSUME NEW s \in Req, Expire(s)
      PROVE  Alone'
  <2>1. /\ expired' = expired \cup {s} /\ outdated' = outdated \cup {s}
        /\ UNCHANGED <<stored, hash, revoked, op, pc, user, token, sid, target, resp, noted>>
    BY <1>14 DEF Expire
  <2>2. expired' = outdated' /\ expired \subseteq expired'
    BY <2>1
  <2> QED
    BY <2>1, <2>2
<1>15. ASSUME NEW u \in User, Block(u) \/ Unblock(u)
      PROVE  Alone'
  BY <1>15 DEF Block, Unblock
<1>16. CASE UNCHANGED vars
  BY <1>16 DEF vars
<1>17. ASSUME NEW r \in Req, LoginStamp(r)
      PROVE  Alone'
  BY <1>17, SMTT(60) DEF LoginStamp
<1> HIDE DEF Base, TypeOK, Rows, Place, Holds, Tokens, Alone, Answer, Goto, table, call
<1> QED
  BY <1>1, <1>2, <1>3, <1>4, <1>5, <1>6, <1>7, <1>8, <1>9, <1>10, <1>11, <1>12,
     <1>13, <1>14, <1>15, <1>16, <1>17
  DEF Next, Step

-----------------------------------------------------------------------------
(***************************************************************************)
(* The theorems.                                                           *)
(***************************************************************************)

IInv == Base /\ Tokens /\ History /\ Successor /\ Reasons /\ Stamps

LEMMA InitIInv == Init => IInv
<1> SUFFICES ASSUME Init PROVE IInv
  OBVIOUS
<1>1. Base
  BY InitBase
<1>2. Tokens
  BY SessionsAssumption
  DEF Init, Tokens, OneSessionPerToken, TokenReachesClient, LogoutKillsToken
<1>3. History
  BY DEF Init, History, NoRefreshAfterRevocation, BlockedUserGetsNothing
<1>4. Successor /\ Reasons /\ Stamps
  BY DEF Init, Successor, Reasons, Stamps, OnlyOwnSessionsEnd
<1> QED
  BY <1>1, <1>2, <1>3, <1>4 DEF IInv

LEMMA SpecIInv == Spec => []IInv
<1>1. IInv /\ [Next]_vars => IInv'
  BY StepBase, StepTokens, StepHistory, StepSuccessor, StepReasons, StepStamps DEF IInv
<1> QED
  BY InitIInv, <1>1, PTL DEF Spec

\* Every variable keeps its type: every row has a hash, nothing that is not a
\* row is revoked, expired, locked or remembered.
THEOREM TypesHold == Spec => []TypeOK
<1>1. IInv => TypeOK
  BY DEF IInv, Base
<1> QED
  BY SpecIInv, <1>1, PTL

\* However requests overlap and fail, a refresh token stands for one session:
\* GetByRefreshTokenHash cannot find two rows.
THEOREM TokensHold == Spec => []OneSessionPerToken
<1>1. IInv => OneSessionPerToken
  BY DEF IInv, Tokens
<1> QED
  BY SpecIInv, <1>1, PTL

\* A refusal replaces no token: what the table holds was sent to a client, unless
\* the answer was a 500.
THEOREM ClientsKeepTokens == Spec => []TokenReachesClient
<1>1. IInv => TokenReachesClient
  BY DEF IInv, Tokens
<1> QED
  BY SpecIInv, <1>1, PTL

\* A token a logout has presented refreshes nothing once the logout is answered
\* with 200.
THEOREM LogoutsHold == Spec => []LogoutKillsToken
<1>1. IInv => LogoutKillsToken
  BY DEF IInv, Tokens
<1> QED
  BY SpecIInv, <1>1, PTL

\* However requests overlap, no refresh succeeds on a session revoked before
\* the refresh arrived: the check is made once, before the write, and still
\* covers everything the request could know on arrival.
THEOREM ChecksHold == Spec => []NoRefreshAfterRevocation
<1>1. IInv => NoRefreshAfterRevocation
  BY DEF IInv, History
<1> QED
  BY SpecIInv, <1>1, PTL

\* No login or refresh succeeds for a user blocked from its arrival to its
\* answer.
THEOREM BlocksHold == Spec => []BlockedUserGetsNothing
<1>1. IInv => BlockedUserGetsNothing
  BY DEF IInv, History
<1> QED
  BY SpecIInv, <1>1, PTL

\* Two active sessions of one user come from overlapping logins, or from a
\* session that had run out and was brought back; nothing else defeats the
\* revocation that every login makes.
THEOREM TwoSessionsExplained == Spec => []OnlyOverlapLeavesTwo
<1>1. IInv => OnlyOverlapLeavesTwo
  BY SuccessorOverlap DEF IInv
<1> QED
  BY SpecIInv, <1>1, PTL

\* A session is revoked only by a login of its own user or by a logout that
\* presented its token.
THEOREM RevocationsExplained == Spec => []OnlyOwnSessionsEnd
<1>1. IInv => OnlyOwnSessionsEnd
  BY DEF IInv, Reasons
<1> QED
  BY SpecIInv, <1>1, PTL

\* last_login_at is never behind: it is not that of a login that was over when
\* the login of some session of the user arrived.
THEOREM StampsHold == Spec => []LastLoginKeepsUp
<1>1. IInv => LastLoginKeepsUp
  BY DEF IInv, Base, TypeOK, Stamps, LastLoginKeepsUp
<1> QED
  BY SpecIInv, <1>1, PTL

\* When requests do not overlap and the clocks agree, the code keeps both
\* promises that overlapping requests break: a user has at most one active session, and a logout ends
\* the session its token stood for.  Failures at any call change nothing.
THEOREM AloneHolds ==
  ASSUME ~Overlap, ClocksAgree
  PROVE  Spec => [](SingleSessionPerPlatform /\ LogoutEndsSession)
<1>1. Init => Alone
  BY DEF Init, Alone, IsBusy, SingleSessionPerPlatform, LogoutEndsSession, Active
<1>2. IInv /\ Alone /\ [Next]_vars /\ IInv' => Alone'
  BY StepAlone DEF IInv
<1>3. Alone => SingleSessionPerPlatform /\ LogoutEndsSession
  BY DEF Alone
<1> QED
  BY SpecIInv, <1>1, <1>2, <1>3, PTL DEF Spec

-----------------------------------------------------------------------------
(***************************************************************************)
(* The table implements the register.                                      *)
(***************************************************************************)

LEMMA StepRegistry ==
  ASSUME Base, Base', Tokens, [Next]_vars
  PROVE  [Registry!Next]_(Registry!vars)
<1> DEFINE spent == {t \in Req : pc[t] = "done" /\ op[t] # "logout"}
<1> USE SessionsAssumption
    DEF Base, TypeOK, Rows, Place, Holds, LoginCalls, RefreshCalls, LogoutCalls,
        Answer, Goto, table, call, NewToken, Registry!vars
\* The answer of any request but a logout spends its token.
<1>a. ASSUME NEW r \in Req, pc[r] \notin {"idle", "done"}, op[r] # "logout", op' = op,
             pc' = [pc EXCEPT ![r] = "done"]
      PROVE  r \notin spent /\ spent' = spent \cup {r}
  BY <1>a
<1>b. ASSUME NEW r \in Req, NEW c, c # "done", op' = op, pc[r] # "done",
             pc' = [pc EXCEPT ![r] = c]
      PROVE  spent' = spent
  BY <1>b
<1>c. ASSUME NEW r \in Req, pc[r] # "done", op[r] = "logout", op' = op,
             pc' = [pc EXCEPT ![r] = "done"]
      PROVE  spent' = spent
  BY <1>c
<1>d. ASSUME NEW s \in Req, NEW t \in Req, NEW E \in SUBSET (stored \ revoked),
             Registry!Open(s, t, E)
      PROVE  Registry!Next
  BY <1>d DEF Registry!Next
<1>e. \A s, t \in Req : Registry!Rotate(s, t) => Registry!Next
  BY DEF Registry!Next
<1>f. \A s \in Req : Registry!Close(s) \/ Registry!Discard(s) => Registry!Next
  BY DEF Registry!Next
<1>1. ASSUME NEW r \in Req, NEW u \in User, ArriveLogin(r, u)
      PROVE  [Registry!Next]_(Registry!vars)
  BY <1>1 DEF ArriveLogin, Arrive
<1>2. ASSUME NEW r \in Req, NEW t \in Delivered \cup {None}, ArriveRefresh(r, t)
      PROVE  [Registry!Next]_(Registry!vars)
  BY <1>2 DEF ArriveRefresh, Arrive
<1>3. ASSUME NEW r \in Req, NEW t \in Delivered \cup {None}, ArriveLogout(r, t)
      PROVE  [Registry!Next]_(Registry!vars)
  BY <1>3 DEF ArriveLogout, Arrive
<1>4. ASSUME NEW r \in Req, LoginReadUser(r)
      PROVE  [Registry!Next]_(Registry!vars)
  <2>1. CASE Answer(r, "user_blocked")
    <3>1. r \notin spent /\ spent' = spent \cup {r}
      BY <1>4, <2>1, <1>a DEF LoginReadUser
    <3>2. Registry!Discard(r)
      BY <1>4, <3>1 DEF LoginReadUser, Registry!Discard
    <3> QED
      BY <3>2, <1>f
  <2>2. CASE Goto(r, "loginStamp")
    <3>1. spent' = spent
      BY <1>4, <2>2, <1>b DEF LoginReadUser
    <3> QED
      BY <1>4, <3>1 DEF LoginReadUser
  <2> QED
    BY <1>4, <2>1, <2>2 DEF LoginReadUser
<1>5. ASSUME NEW r \in Req, LoginBegin(r)
      PROVE  [Registry!Next]_(Registry!vars)
  <2>1. spent' = spent
    BY <1>5, <1>b DEF LoginBegin
  <2> QED
    BY <1>5, <2>1 DEF LoginBegin
<1>6. ASSUME NEW r \in Req, LoginRevoke(r)
      PROVE  [Registry!Next]_(Registry!vars)
  <2>1. spent' = spent
    BY <1>6, <1>b DEF LoginRevoke
  <2> QED
    BY <1>6, <2>1 DEF LoginRevoke
<1>7. ASSUME NEW r \in Req, NEW a \in Applied, LoginCommit(r, a)
      PROVE  [Registry!Next]_(Registry!vars)
  <2>1. r \notin spent /\ spent' = spent \cup {r}
    BY <1>7, <1>a DEF LoginCommit
  <2>2. r \notin stored /\ target[r] \subseteq stored
    BY <1>7 DEF LoginCommit
  <2>3. PICK E \in SUBSET (stored \ revoked) : E = target[r] \ revoked
    BY <2>2
  <2>4. Registry!Open(r, r, E)
    BY <1>7, <2>1, <2>2, <2>3 DEF LoginCommit, Registry!Open
  <2> QED
    BY <2>4, <1>d
<1>8. ASSUME NEW r \in Req, RefreshFind(r)
      PROVE  [Registry!Next]_(Registry!vars)
  <2>1. ASSUME NEW a, Answer(r, a)
        PROVE  [Registry!Next]_(Registry!vars)
    <3>1. r \notin spent /\ spent' = spent \cup {r}
      BY <1>8, <2>1, <1>a DEF RefreshFind
    <3>2. Registry!Discard(r)
      BY <1>8, <3>1 DEF RefreshFind, Registry!Discard
    <3> QED
      BY <3>2, <1>f
  <2>2. CASE Goto(r, "refreshUser")
    <3>1. spent' = spent
      BY <1>8, <2>2, <1>b DEF RefreshFind
    <3> QED
      BY <1>8, <3>1 DEF RefreshFind
  <2>3. \/ Answer(r, "invalid_refresh_token")
        \/ Answer(r, "session_expired")
        \/ Goto(r, "refreshUser")
    BY <1>8 DEF RefreshFind
  <2> QED
    BY <2>1, <2>2, <2>3
<1>9. ASSUME NEW r \in Req, RefreshReadUser(r)
      PROVE  [Registry!Next]_(Registry!vars)
  <2>1. CASE Answer(r, "user_blocked")
    <3>1. r \notin spent /\ spent' = spent \cup {r}
      BY <1>9, <2>1, <1>a DEF RefreshReadUser
    <3>2. Registry!Discard(r)
      BY <1>9, <3>1 DEF RefreshReadUser, Registry!Discard
    <3> QED
      BY <3>2, <1>f
  <2>2. CASE Goto(r, "refreshRotate")
    <3>1. spent' = spent
      BY <1>9, <2>2, <1>b DEF RefreshReadUser
    <3> QED
      BY <1>9, <3>1 DEF RefreshReadUser
  <2> QED
    BY <1>9, <2>1, <2>2 DEF RefreshReadUser
<1>10. ASSUME NEW r \in Req, NEW a \in Applied, RefreshRotate(r, a)
       PROVE  [Registry!Next]_(Registry!vars)
  <2>1. r \notin spent /\ spent' = spent \cup {r}
    BY <1>10, <1>a DEF RefreshRotate
  <2>2. sid[r] \in stored
    BY <1>10 DEF RefreshRotate
  <2>3. Registry!Rotate(sid[r], r)
    BY <1>10, <2>1, <2>2 DEF RefreshRotate, Registry!Rotate
  <2> QED
    BY <2>2, <2>3, <1>e
<1>11. ASSUME NEW r \in Req, LogoutFind(r)
       PROVE  [Registry!Next]_(Registry!vars)
  <2>1. spent' = spent
    BY <1>11, <1>b, <1>c DEF LogoutFind
  <2> QED
    BY <1>11, <2>1 DEF LogoutFind
<1>12. ASSUME NEW r \in Req, NEW a \in Applied, LogoutRevoke(r, a)
       PROVE  [Registry!Next]_(Registry!vars)
  <2>1. spent' = spent
    BY <1>12, <1>c DEF LogoutRevoke
  <2>2. sid[r] \in stored
    BY <1>12 DEF LogoutRevoke
  <2>3. Registry!Close(sid[r]) \/ UNCHANGED Registry!vars
    BY <1>12, <2>1, <2>2 DEF LogoutRevoke, Registry!Close
  <2> QED
    BY <2>2, <2>3, <1>f
<1>13. ASSUME NEW r \in Req, Fail(r)
       PROVE  [Registry!Next]_(Registry!vars)
  <2>1. CASE op[r] = "logout"
    <3>1. spent' = spent
      BY <1>13, <2>1, <1>c DEF Fail
    <3> QED
      BY <1>13, <3>1 DEF Fail
  <2>2. CASE op[r] # "logout"
    <3>1. r \notin spent /\ spent' = spent \cup {r}
      BY <1>13, <2>2, <1>a DEF Fail
    <3>2. Registry!Discard(r)
      BY <1>13, <3>1 DEF Fail, Registry!Discard
    <3> QED
      BY <3>2, <1>f
  <2> QED
    BY <2>1, <2>2
<1>14. ASSUME NEW s \in Req, Expire(s)
       PROVE  [Registry!Next]_(Registry!vars)
  BY <1>14 DEF Expire
<1>15. ASSUME NEW u \in User, Block(u) \/ Unblock(u)
       PROVE  [Registry!Next]_(Registry!vars)
  BY <1>15 DEF Block, Unblock
<1>16. CASE UNCHANGED vars
  BY <1>16 DEF vars
<1>17. ASSUME NEW r \in Req, LoginStamp(r)
       PROVE  [Registry!Next]_(Registry!vars)
  <2>1. CASE Answer(r, "internal_error")
    <3>1. r \notin spent /\ spent' = spent \cup {r}
      BY <1>17, <2>1, <1>a DEF LoginStamp
    <3>2. Registry!Discard(r)
      BY <1>17, <3>1 DEF LoginStamp, Registry!Discard
    <3> QED
      BY <3>2, <1>f
  <2>2. CASE Goto(r, "loginBegin")
    <3>1. spent' = spent
      BY <1>17, <2>2, <1>b DEF LoginStamp
    <3> QED
      BY <1>17, <3>1 DEF LoginStamp
  <2> QED
    BY <1>17, <2>1, <2>2 DEF LoginStamp
<1> HIDE DEF Base, TypeOK, Rows, Place, Holds, Answer, Goto, table, call, Registry!vars
<1> QED
  BY <1>1, <1>2, <1>3, <1>4, <1>5, <1>6, <1>7, <1>8, <1>9, <1>10, <1>11, <1>12,
     <1>13, <1>14, <1>15, <1>16, <1>17
  DEF Next, Step

\* Seen without requests, the table is a register in which a session is opened
\* once and closed for good, and every token is new when it is written.
THEOREM RegistryImplemented == Spec => ImplementsRegistry
<1>1. Init => Registry!Init
  BY DEF Init, Registry!Init
<1>2. IInv /\ IInv' /\ [Next]_vars => [Registry!Next]_(Registry!vars)
  BY StepRegistry DEF IInv
<1> QED
  BY SpecIInv, <1>1, <1>2, PTL DEF Spec, ImplementsRegistry, Registry!Spec

-----------------------------------------------------------------------------
(***************************************************************************)
(* PooledSessions.                                                         *)
(*                                                                         *)
(* The pool takes nothing away from Sessions and adds nothing to it: each  *)
(* of its steps is one of Sessions, or changes no variable of it.          *)
(***************************************************************************)

\* What the pool lets happen is something Sessions describes, so everything
\* proved of Sessions holds over a pool of any size.
THEOREM PoolImplementsSessions == PoolSpec => Spec
<1>1. PoolInit => Init
  BY DEF PoolInit
<1>2. ASSUME [PoolNext]_poolVars
      PROVE  [Next]_vars
  <2>1. ASSUME NEW r \in Req, Acquire(r)
        PROVE  [Next]_vars
    BY <2>1 DEF Acquire
  <2>2. ASSUME NEW r \in Req, PoolStep(r) \/ PoolFail(r)
        PROVE  Next
    BY <2>2 DEF PoolStep, PoolFail, Next
  <2>3. ASSUME NEW r \in Req,
               \/ \E u \in User : ArriveLogin(r, u)
               \/ \E t \in Delivered \cup {None} : ArriveRefresh(r, t) \/ ArriveLogout(r, t)
               \/ Expire(r)
        PROVE  Next
    BY <2>3 DEF Next
  <2>4. ASSUME NEW u \in User, Block(u) \/ Unblock(u)
        PROVE  Next
    BY <2>4 DEF Next
  <2>5. CASE UNCHANGED poolVars
    BY <2>5 DEF poolVars
  <2> QED
    BY <1>2, <2>1, <2>2, <2>3, <2>4, <2>5 DEF PoolNext
<1> QED
  BY <1>1, <1>2, PTL DEF PoolSpec, Spec

-----------------------------------------------------------------------------
\* Connections.

Connected == conn \subseteq Req /\ ConnectionsReturn /\ LockersConnected

\* A request that takes a step keeps its connection within the transaction, and
\* gives it back with every other statement and with its answer.
LEMMA StepConnected ==
  ASSUME Base, Base', Connected, [PoolNext]_poolVars
  PROVE  Connected'
<1> USE PoolAssumption DEF Connected, ConnectionsReturn, LockersConnected, InProgress, InTransaction
<1>1. ASSUME NEW r \in Req, Acquire(r)
      PROVE  Connected'
  <2>1. IsFiniteSet(conn') /\ Cardinality(conn') = Cardinality(conn) + 1
    BY <1>1, FS_AddElement DEF Acquire
  <2>2. Cardinality(conn) \in Nat
    BY FS_CardinalityType
  <2>3. Cardinality(conn') <= MaxOpenConns
    BY <1>1, <2>1, <2>2 DEF Acquire, IsFree
  <2> QED
    BY <1>1, <2>1, <2>3 DEF Acquire, vars
\* Releasing a connection, or not, keeps the bound.
<1>2. ASSUME NEW r \in Req, conn' = conn \/ conn' = conn \ {r}
      PROVE  IsFiniteSet(conn') /\ Cardinality(conn') <= MaxOpenConns
  <2>1. IsFiniteSet(conn \ {r}) /\ Cardinality(conn \ {r}) <= Cardinality(conn)
    <3>1. conn \ {r} \in SUBSET conn
      OBVIOUS
    <3> QED
      BY <3>1, FS_Subset
  <2>2. Cardinality(conn) \in Nat /\ Cardinality(conn \ {r}) \in Nat
    BY <2>1, FS_CardinalityType
  <2>3. CASE conn' = conn
    BY <2>3
  <2>4. CASE conn' = conn \ {r}
    <3>1. Cardinality(conn \ {r}) <= MaxOpenConns
      BY <2>1, <2>2
    <3> QED
      BY <2>1, <2>4, <3>1
  <2> QED
    BY <1>2, <2>3, <2>4
<1>3. ASSUME NEW r \in Req, PoolStep(r)
      PROVE  Connected'
  <2>1. /\ \A q \in Req \ {r} : pc'[q] = pc[q]
        /\ InTransaction(pc'[r]) => r \in conn
        /\ pc'[r] # "idle"
    BY <1>3 DEF PoolStep, HasConnection, Step, LoginReadUser, LoginStamp, LoginBegin, LoginRevoke,
       LoginCommit, RefreshFind, RefreshReadUser, RefreshRotate, LogoutFind, LogoutRevoke,
       CheckUser, Answer, Goto, Base, TypeOK
  <2>2. conn' = IF InTransaction(pc'[r]) THEN conn ELSE conn \ {r}
    BY <1>3 DEF PoolStep, ReleaseAfter
  <2> QED
    BY <1>2, <2>1, <2>2
<1>4. ASSUME NEW r \in Req, PoolFail(r)
      PROVE  Connected'
  <2>1. /\ \A q \in Req \ {r} : pc'[q] = pc[q]
        /\ pc'[r] = "done" /\ conn' = conn \ {r}
    BY <1>4 DEF PoolFail, GiveUp, Fail, Answer, Goto, Base, TypeOK
  <2> QED
    BY <1>2, <2>1
<1>5. ASSUME NEW r \in Req, UNCHANGED conn,
             \/ \E u \in User : ArriveLogin(r, u)
             \/ \E t \in Delivered \cup {None} : ArriveRefresh(r, t) \/ ArriveLogout(r, t)
             \/ Expire(r)
      PROVE  Connected'
  <2>1. /\ \A q \in Req \ {r} : pc'[q] = pc[q]
        /\ pc'[r] = pc[r] \/ pc'[r] \in {"loginUser", "refreshFind", "logoutFind"}
    BY <1>5 DEF ArriveLogin, ArriveRefresh, ArriveLogout, Arrive, Expire, Goto, Base, TypeOK
  <2> QED
    BY <1>5, <2>1
<1>6. ASSUME NEW u \in User, Block(u) \/ Unblock(u), UNCHANGED conn
      PROVE  Connected'
  BY <1>6 DEF Block, Unblock
<1>7. CASE UNCHANGED poolVars
  BY <1>7 DEF poolVars, vars
<1> QED
  BY <1>1, <1>3, <1>4, <1>5, <1>6, <1>7 DEF PoolNext

LEMMA PoolBase == PoolSpec => []Base
<1>1. IInv => Base
  BY DEF IInv
<1> QED
  BY PoolImplementsSessions, SpecIInv, <1>1, PTL

\* A pool of any size keeps its bound and loses no connection to a failure, and
\* whoever holds the row locks of a transaction holds a connection with them.
THEOREM ConnectionsHold == PoolSpec => [](ConnectionsReturn /\ LockersConnected)
<1>1. PoolInit => Connected
  <2>1. IsFiniteSet({}) /\ Cardinality({}) = 0
    BY FS_EmptySet
  <2> QED
    BY <2>1, PoolAssumption
    DEF PoolInit, Init, Connected, ConnectionsReturn, LockersConnected, InTransaction
<1>2. Base /\ Base' /\ Connected /\ [PoolNext]_poolVars => Connected'
  BY StepConnected
<1>3. Connected => ConnectionsReturn /\ LockersConnected
  BY DEF Connected
<1> QED
  BY PoolBase, <1>1, <1>2, <1>3, PTL DEF PoolSpec

-----------------------------------------------------------------------------
\* What a request in progress waits for: the row locks of a login that has not
\* ended, with a connection in hand, or a connection.
WaitsForLock(r) ==
    \/ pc[r] = "loginRevoke" /\ \E s \in target[r] : Locked(s)
    \/ pc[r] \in {"refreshRotate", "logoutRevoke"} /\ Locked(sid[r])
WaitsForConnection(r) == r \notin conn /\ ~IsFree

NotAllWait ==
    (\E r \in Req : InProgress(r)) =>
        \E r \in Req : InProgress(r) /\ ~WaitsForLock(r) /\ ~WaitsForConnection(r)

\* Requests never wait in a circle: as long as one is in progress, there is one
\* that neither a row lock nor the pool holds up, however small the pool and
\* however many logins, refreshes and logouts want the same session (the
\* transaction of Login takes its connection before its first lock).
THEOREM SomebodyMoves == PoolSpec => []NotAllWait
<1>1. ASSUME ConnectionsReturn, LockersConnected
      PROVE  NotAllWait
  <2> SUFFICES ASSUME NEW r \in Req, InProgress(r)
               PROVE  \E q \in Req : InProgress(q) /\ ~WaitsForLock(q) /\ ~WaitsForConnection(q)
    BY DEF NotAllWait
  \* The one that holds a lock has nothing to wait for.
  <2>1. ASSUME NEW s, Locked(s)
        PROVE  \E q \in Req : InProgress(q) /\ ~WaitsForLock(q) /\ ~WaitsForConnection(q)
    <3>1. PICK q \in Req : pc[q] = "loginCommit"
      BY <2>1 DEF Locked
    <3> QED
      BY <1>1, <3>1 DEF LockersConnected, InTransaction, InProgress, WaitsForLock, WaitsForConnection
  \* Nor has one that holds a connection, but for a lock.
  <2>2. ASSUME NEW q \in Req, InProgress(q), ~WaitsForConnection(q)
        PROVE  \E p \in Req : InProgress(p) /\ ~WaitsForLock(p) /\ ~WaitsForConnection(p)
    BY <2>1, <2>2 DEF WaitsForLock
  <2>3. CASE WaitsForConnection(r)
    <3>1. conn # {}
      <4>1. ~(Cardinality(conn) < MaxOpenConns) /\ MaxOpenConns > 0
        BY <2>3, PoolAssumption DEF WaitsForConnection, IsFree
      <4>2. Cardinality({}) = 0
        BY FS_EmptySet
      <4> QED
        BY <4>1, <4>2
    <3>2. PICK q \in conn : TRUE
      BY <3>1
    <3>3. q \in Req /\ InProgress(q)
      BY <1>1, <3>2 DEF ConnectionsReturn
    <3> QED
      BY <2>2, <3>2, <3>3 DEF WaitsForConnection
  <2> QED
    BY <2>2, <2>3
<1> QED
  BY <1>1, ConnectionsHold, PTL
=============================================================================
