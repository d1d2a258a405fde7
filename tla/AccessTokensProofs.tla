-------------------------- MODULE AccessTokensProofs --------------------------
(***************************************************************************)
(* For every lifetime of a token and every write timeout: a blocked user   *)
(* is locked out in a bounded time, and expires_in is honest.              *)
(***************************************************************************)
EXTENDS AccessTokens, TLAPS

USE AccessTokensAssumption

\* A grant that has read the status of its user and not been turned away.
Trusted(g) == pc[g] \in {"sign", "write"} \/ resp[g] = "ok"

\* ... and has signed its token.
Signed(g) == pc[g] = "write" \/ resp[g] = "ok"

\* Only a grant that is done has an answer.
Answered == \A g \in Grant : resp[g] # "none" => pc[g] = "done"

\* A status that was trusted was read after the request was: the user can only
\* have been blocked since.
StatusIsRecent ==
    \A g \in Grant :
        /\ readAt[g] <= now
        /\ pc[g] # "idle" => subject[g] \in User
        /\ Trusted(g) /\ subject[g] \in blocked => readAt[g] <= since[subject[g]]

\* What a token says of its expiry, and when it can have reached the client.
TokensExpire ==
    \A g \in Grant :
        /\ signedAt[g] <= now
        /\ Signed(g) => /\ exp[g] * Sec <= signedAt[g] + TTL * Sec
                        /\ exp[g] * Sec > signedAt[g] + TTL * Sec - Sec
        /\ resp[g] = "ok" => signedAt[g] <= readAt[g] + WriteTimeout

\* A token that was used was delivered.
FromDelivered ==
    \A r \in Use : used[r] \in {"ok", "expired_token"} =>
        from[r] \in Grant /\ resp[from[r]] = "ok"

\* What was let in, and what turned away.
UsesExplained == BlockedOutSoon /\ ExpiresInHonest

IInv ==
    /\ TypeOK /\ Answered /\ StatusIsRecent /\ TokensExpire /\ FromDelivered
    /\ UsesExplained

-----------------------------------------------------------------------------

\* Rounding down to a whole number of seconds loses less than a second.
LEMMA Rounding ==
    ASSUME NEW t \in Nat
    PROVE  /\ NumericDate(t) \in Int
           /\ NumericDate(t) * Sec <= t
           /\ NumericDate(t) * Sec > t - Sec
<1>1. t \div Sec \in Int /\ Sec * (t \div Sec) <= t /\ t < Sec * (t \div Sec) + Sec
  BY SMTT(30)
<1>2. Sec * (t \div Sec) = (t \div Sec) * Sec
  BY <1>1, SMT
<1> QED BY <1>1, <1>2, SMT DEF NumericDate

LEMMA InitIInv == Init => IInv
BY SMT DEF Init, IInv, TypeOK, Answered, StatusIsRecent, TokensExpire, FromDelivered,
           UsesExplained, BlockedOutSoon, ExpiresInHonest, Trusted, Signed

LEMMA StepTypes ==
    ASSUME TypeOK, [Next]_vars
    PROVE  TypeOK'
<1> USE DEF TypeOK, Goto, Answer
<1>1. ASSUME NEW g \in Grant, NEW u \in User, Arrive(g, u)
      PROVE  TypeOK'
  BY <1>1 DEF Arrive, uses
<1>2. ASSUME NEW g \in Grant, ReadStatus(g)
      PROVE  TypeOK'
  BY <1>2 DEF ReadStatus, uses
<1>3. ASSUME NEW g \in Grant, GenerateAccessToken(g)
      PROVE  TypeOK'
  <2>1. now + TTL * Sec \in Nat
    BY SMT
  <2>2. NumericDate(now + TTL * Sec) \in Int
    BY <2>1, Rounding
  <2> QED BY <1>3, <2>2 DEF GenerateAccessToken, uses
<1>4. ASSUME NEW g \in Grant, Write(g)
      PROVE  TypeOK'
  BY <1>4 DEF Write, uses
<1>5. ASSUME NEW r \in Use, NEW g \in Grant \cup {None},
             g # None => resp[g] = "ok", Auth(r, g)
      PROVE  TypeOK'
  <2>1. Validate(g) \in {"none", "ok", "invalid_token", "expired_token"}
    BY DEF Validate
  <2>2. CASE g # None /\ subject[g] \in blocked
    <3>1. now - since[subject[g]] \in Int
      BY <2>2
    <3> QED BY <1>5, <2>1, <2>2, <3>1 DEF Auth, grants
  <2>3. CASE ~(g # None /\ subject[g] \in blocked)
    BY <1>5, <2>1, <2>3 DEF Auth, grants
  <2> QED BY <2>2, <2>3
<1>6. ASSUME NEW u \in User, Block(u) \/ Unblock(u)
      PROVE  TypeOK'
  BY <1>6 DEF Block, Unblock, grants, uses
<1>7. CASE Tick
  BY <1>7 DEF Tick, grants, uses
<1>8. CASE UNCHANGED vars
  BY <1>8 DEF vars, grants, uses
<1> QED BY <1>1, <1>2, <1>3, <1>4, <1>5, <1>6, <1>7, <1>8 DEF Next

LEMMA StepAnswered ==
    ASSUME TypeOK, Answered, [Next]_vars
    PROVE  Answered'
<1> USE DEF TypeOK, Answered, Goto, Answer
<1>1. ASSUME NEW g \in Grant, NEW u \in User, Arrive(g, u)
      PROVE  Answered'
  BY <1>1 DEF Arrive
<1>2. ASSUME NEW g \in Grant, ReadStatus(g) \/ GenerateAccessToken(g) \/ Write(g)
      PROVE  Answered'
  BY <1>2 DEF ReadStatus, GenerateAccessToken, Write
<1>3. CASE UNCHANGED <<pc, resp>>
  BY <1>3
<1> QED BY <1>1, <1>2, <1>3 DEF Next, Auth, Block, Unblock, Tick, vars, grants

\* The clock and the times of blocking only move on, and the only step that
\* makes a grant trusted reads that its user is not blocked.
LEMMA StepStatus ==
    ASSUME TypeOK, Answered, StatusIsRecent, [Next]_vars
    PROVE  StatusIsRecent'
<1> USE DEF TypeOK, Answered, StatusIsRecent, Trusted, Goto, Answer
<1>1. ASSUME NEW g \in Grant, NEW u \in User, Arrive(g, u)
      PROVE  StatusIsRecent'
  BY <1>1 DEF Arrive, uses
<1>2. ASSUME NEW g \in Grant, ReadStatus(g)
      PROVE  StatusIsRecent'
  BY <1>2 DEF ReadStatus, uses
<1>3. ASSUME NEW g \in Grant, GenerateAccessToken(g) \/ Write(g)
      PROVE  StatusIsRecent'
  BY <1>3 DEF GenerateAccessToken, Write, uses
<1>4. ASSUME NEW r \in Use, NEW g \in Grant \cup {None}, Auth(r, g)
      PROVE  StatusIsRecent'
  BY <1>4 DEF Auth, grants
<1>5. ASSUME NEW u \in User, Block(u) \/ Unblock(u)
      PROVE  StatusIsRecent'
  BY <1>5 DEF Block, Unblock, grants, uses
<1>6. CASE Tick \/ UNCHANGED vars
  BY <1>6 DEF Tick, vars, grants, uses
<1> QED BY <1>1, <1>2, <1>3, <1>4, <1>5, <1>6 DEF Next

\* A token is signed with a rounded expiry, and delivered before the deadline.
LEMMA StepTokens ==
    ASSUME TypeOK, Answered, TokensExpire, StatusIsRecent, [Next]_vars
    PROVE  TokensExpire'
<1> USE DEF TypeOK, Answered, TokensExpire, Signed, Goto, Answer
<1>1. ASSUME NEW g \in Grant, NEW u \in User, Arrive(g, u)
      PROVE  TokensExpire'
  BY <1>1 DEF Arrive
<1>2. ASSUME NEW g \in Grant, ReadStatus(g)
      PROVE  TokensExpire'
  BY <1>2 DEF ReadStatus
<1>3. ASSUME NEW g \in Grant, GenerateAccessToken(g)
      PROVE  TokensExpire'
  <2>1. now + TTL * Sec \in Nat
    BY SMT
  <2>2. /\ exp'[g] \in Int /\ signedAt'[g] = now
        /\ exp'[g] * Sec <= now + TTL * Sec
        /\ exp'[g] * Sec > now + TTL * Sec - Sec
    BY <1>3, <2>1, Rounding DEF GenerateAccessToken
  <2>3. pc[g] = "sign" /\ resp' = resp /\ resp[g] = "none" /\ UNCHANGED <<now, readAt>>
    BY <1>3 DEF GenerateAccessToken
  <2>4. ASSUME NEW h \in Grant, h # g
        PROVE  exp'[h] = exp[h] /\ signedAt'[h] = signedAt[h] /\ pc'[h] = pc[h]
    BY <1>3, <2>4 DEF GenerateAccessToken
  <2> QED BY <2>2, <2>3, <2>4
<1>4. ASSUME NEW g \in Grant, Write(g)
      PROVE  TokensExpire'
  BY <1>4 DEF Write
<1>5. CASE UNCHANGED <<now, grants>>
  BY <1>5 DEF grants
<1>6. CASE Tick
  BY <1>6 DEF Tick, grants
<1> QED BY <1>1, <1>2, <1>3, <1>4, <1>5, <1>6 DEF Next, Auth, Block, Unblock, vars

\* A token that was presented is never signed again.
LEMMA StepFrom ==
    ASSUME TypeOK, Answered, FromDelivered, [Next]_vars
    PROVE  FromDelivered'
<1> USE DEF TypeOK, Answered, FromDelivered, Goto, Answer
<1>1. ASSUME NEW g \in Grant, NEW u \in User, Arrive(g, u)
      PROVE  FromDelivered'
  BY <1>1 DEF Arrive, uses
<1>2. ASSUME NEW g \in Grant, ReadStatus(g) \/ GenerateAccessToken(g) \/ Write(g)
      PROVE  FromDelivered'
  BY <1>2 DEF ReadStatus, GenerateAccessToken, Write, uses
<1>3. ASSUME NEW r \in Use, NEW g \in Grant \cup {None},
             g # None => resp[g] = "ok", Auth(r, g)
      PROVE  FromDelivered'
  BY <1>3 DEF Auth, grants, Validate
<1>4. CASE UNCHANGED <<grants, uses>>
  BY <1>4 DEF grants, uses
<1> QED BY <1>1, <1>2, <1>3, <1>4 DEF Next, Block, Unblock, Tick, vars

\* What the next use adds, and that no later step takes away what it meant.
LEMMA StepUses ==
    ASSUME IInv, [Next]_vars
    PROVE  UsesExplained'
<1> USE DEF IInv, TypeOK, UsesExplained, BlockedOutSoon, ExpiresInHonest
<1>1. ASSUME NEW r \in Use, NEW g \in Grant \cup {None},
             g # None => resp[g] = "ok", Auth(r, g)
      PROVE  UsesExplained'
  <2>1. /\ used'[r] = Validate(g) /\ usedAt'[r] = now /\ from'[r] = g
        /\ late'[r] = IF g # None /\ subject[g] \in blocked THEN now - since[subject[g]] ELSE 0
        /\ UNCHANGED grants
    BY <1>1 DEF Auth
  <2>2. ASSUME NEW q \in Use, q # r
        PROVE  /\ used'[q] = used[q] /\ usedAt'[q] = usedAt[q]
               /\ from'[q] = from[q] /\ late'[q] = late[q]
    BY <1>1, <2>2 DEF Auth
  <2>3. TTL * Sec \in Nat /\ TTL * Sec > 0 /\ (TTL - 1) * Sec = TTL * Sec - Sec
    BY SMT
  <2>4. ASSUME Validate(g) \in {"ok", "expired_token"}
        PROVE  /\ g \in Grant /\ subject[g] \in User
               /\ exp[g] * Sec \in Int /\ readAt[g] <= now
               /\ exp[g] * Sec <= signedAt[g] + TTL * Sec
               /\ exp[g] * Sec > signedAt[g] + TTL * Sec - Sec
               /\ signedAt[g] <= readAt[g] + WriteTimeout
               /\ subject[g] \in blocked => readAt[g] <= since[subject[g]]
    <3>1. g \in Grant /\ resp[g] = "ok" /\ pc[g] = "done"
      BY <1>1, <2>4 DEF Validate, Answered
    <3>2. exp[g] \in Int /\ exp[g] * Sec \in Int
      BY <3>1, SMT
    <3> QED BY <3>1, <3>2 DEF StatusIsRecent, TokensExpire, Trusted, Signed
  <2>5. CASE Validate(g) = "ok"
    <3>1. now < exp[g] * Sec
      BY <2>5, <2>4 DEF Validate, Expired
    <3>2. now < signedAt[g] + TTL * Sec
      BY <2>3, <2>4, <2>5, <3>1
    <3>3. late'[r] < TTL * Sec + WriteTimeout
      BY <2>1, <2>3, <2>4, <2>5, <3>2
    <3> QED BY <2>1, <2>2, <2>5, <3>2, <3>3 DEF grants
  <2>6. CASE Validate(g) = "expired_token"
    <3>1. now >= exp[g] * Sec
      BY <2>6, <2>4 DEF Validate, Expired
    <3>2. now > signedAt[g] + (TTL - 1) * Sec
      BY <2>3, <2>4, <2>6, <3>1
    <3> QED BY <2>1, <2>2, <2>6, <3>2 DEF grants
  <2>7. CASE Validate(g) \notin {"ok", "expired_token"}
    BY <2>1, <2>2, <2>7 DEF grants
  <2> QED BY <2>5, <2>6, <2>7
<1>2. ASSUME NEW g \in Grant, GenerateAccessToken(g)
      PROVE  UsesExplained'
  <2>1. pc[g] = "sign" /\ UNCHANGED uses
    BY <1>2 DEF GenerateAccessToken
  <2>2. \A h \in Grant : h # g => signedAt'[h] = signedAt[h]
    BY <1>2 DEF GenerateAccessToken
  <2>3. \A q \in Use : used[q] \in {"ok", "expired_token"} => from[q] \in Grant /\ from[q] # g
    BY <2>1 DEF FromDelivered, Answered
  <2> QED BY <2>1, <2>2, <2>3 DEF uses
<1>3. CASE UNCHANGED <<signedAt, uses>>
  BY <1>3 DEF uses
<1> QED BY <1>1, <1>2, <1>3 DEF Next, Arrive, ReadStatus, Write, Block, Unblock, Tick, vars, grants

-----------------------------------------------------------------------------

\* The invariant that the two theorems rest on: what a status, a token and an
\* answer say of the times at which they were made.
THEOREM InvariantHolds == Spec => []IInv
<1>1. IInv /\ [Next]_vars => IInv'
  BY StepTypes, StepAnswered, StepStatus, StepTokens, StepFrom, StepUses DEF IInv
<1> QED BY InitIInv, <1>1, PTL DEF Spec

\* A blocked user is let in for less than the lifetime of a token and the write
\* timeout, whatever the rest of the login or the refresh waited for.
THEOREM LockedOut == Spec => []BlockedOutSoon
<1>1. IInv => BlockedOutSoon
  BY DEF IInv, UsesExplained
<1> QED BY InvariantHolds, <1>1, PTL

\* A token is valid for expires_in seconds, and for no more than a second less.
THEOREM LifetimeHonest == Spec => []ExpiresInHonest
<1>1. IInv => ExpiresInHonest
  BY DEF IInv, UsesExplained
<1> QED BY InvariantHolds, <1>1, PTL
=============================================================================
