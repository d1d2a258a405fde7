---------------------------- MODULE AccountsProofs ----------------------------
(***************************************************************************)
(* For any addresses and any number of requests: what the tables of the    *)
(* accounts promise however registrations, seeds, resends, verifications   *)
(* and logins interleave and fail.                                         *)
(***************************************************************************)
EXTENDS Accounts, TLAPS

RegisterCalls == {"registerExists", "registerUser", "registerIdentity"}
TokenCalls == {"tokenCreate", "tokenSend"}
VerifyCalls == {"verifyFind", "verifyConsume", "verifyRead", "verifyMark"}
SeedCalls == {"seedUser", "seedIdentity"}

\* Which request is where, and what it was given.
Place(r) ==
    /\ pc[r] \in RegisterCalls => op[r] = "register"
    /\ pc[r] \in TokenCalls => op[r] \in {"register", "resend"}
    /\ pc[r] = "resendFind" => op[r] = "resend"
    /\ pc[r] \in VerifyCalls => op[r] = "verify"
    /\ pc[r] = "loginFind" => op[r] = "login"
    /\ pc[r] \in SeedCalls => op[r] = "seed"
    /\ pc[r] = "idle" <=> op[r] = "none"
    /\ resp[r] # "none" => pc[r] = "done"
    /\ op[r] \in {"register", "resend", "seed", "login"} => email[r] \in Email
    /\ op[r] \in {"register", "seed"} => word[r] \in Password
    /\ op[r] = "verify" => token[r] \in mailed \cup {None} /\ noted[r] \subseteq consumed

Places == \A r \in Req : Place(r)

\* A user is named by the request that wrote its row, for the address of that
\* request: no two addresses have the same user.
OwnersAreRequests ==
    \A e \in Email : owner[e] # None =>
        /\ email[owner[e]] = e
        /\ op[owner[e]] \in {"register", "seed"}
        /\ pc[owner[e]] \notin {"idle", "registerExists", "registerUser", "seedUser"}

\* A request that has its user in hand holds the user of its address.
SubjectsOwn ==
    \A r \in Req :
        /\ pc[r] \in {"registerIdentity", "seedIdentity"} \cup TokenCalls =>
              subject[r] # None /\ subject[r] = owner[email[r]]
        /\ pc[r] \in TokenCalls => idUser[email[r]] = subject[r]
        /\ pc[r] = "tokenSend" => r \in tokens

\* A token was made for the user of the address it was mailed to, who has an
\* identity.
TokensOwn ==
    \A t \in tokens :
        /\ op[t] \in {"register", "resend"}
        /\ pc[t] \in {"tokenSend", "done"}
        /\ holder[t] # None
        /\ holder[t] = owner[email[t]] /\ holder[t] = idUser[email[t]]

\* What a verification has in hand.
VerifiersHold ==
    \A r \in Req :
        /\ pc[r] \in {"verifyConsume", "verifyRead", "verifyMark"} =>
              token[r] \in tokens \ noted[r]
        /\ pc[r] \in {"verifyRead", "verifyMark"} => token[r] \in consumed
        /\ op[r] = "verify" /\ resp[r] = "ok" => token[r] \in tokens
        /\ pc[r] = "verifyMark" =>
              email[r] \in Email /\ idUser[email[r]] = holder[token[r]]

Base ==
    /\ TypeOK /\ Places /\ OwnersAreRequests /\ IdentityOfOwner /\ SubjectsOwn
    /\ TokensOwn /\ VerifiersHold

-----------------------------------------------------------------------------

LEMMA InitBase == Init => Base
<1> SUFFICES ASSUME Init PROVE Base
  OBVIOUS
<1> USE AccountsAssumption DEF Init
<1>1. TypeOK
  BY DEF TypeOK
<1>2. Places
  BY DEF Places, Place, RegisterCalls, TokenCalls, VerifyCalls, SeedCalls
<1>3. OwnersAreRequests /\ IdentityOfOwner /\ SubjectsOwn /\ TokensOwn /\ VerifiersHold
  BY DEF OwnersAreRequests, IdentityOfOwner, SubjectsOwn, TokensOwn, VerifiersHold, TokenCalls
<1> QED
  BY <1>1, <1>2, <1>3 DEF Base

LEMMA StepBase ==
    ASSUME Base, [Next]_vars
    PROVE  Base'
<1> USE AccountsAssumption
    DEF Base, TypeOK, Places, Place, OwnersAreRequests, IdentityOfOwner, SubjectsOwn, TokensOwn,
        VerifiersHold, RegisterCalls, TokenCalls, VerifyCalls, SeedCalls, Ops, Calls, Refusals,
        Answer, Goto, Proceed, Swallow, ids, rows, call, EmailExists, HasIdentity, Unverified
<1>1. ASSUME NEW r \in Req, NEW e \in Email, NEW w \in Password,
             ArriveRegister(r, e, w) \/ ArriveLogin(r, e, w) \/ StartSeed(r, e, w)
      PROVE  Base'
  <2>1. TypeOK' /\ Places'
    BY <1>1, SMTT(60) DEF ArriveRegister, ArriveLogin, StartSeed, Arrive
  <2>2. OwnersAreRequests' /\ IdentityOfOwner'
    BY <1>1, SMTT(60) DEF ArriveRegister, ArriveLogin, StartSeed, Arrive
  <2>3. SubjectsOwn'
    BY <1>1, SMTT(60) DEF ArriveRegister, ArriveLogin, StartSeed, Arrive
  <2>4. TokensOwn' /\ VerifiersHold'
    BY <1>1, SMTT(60) DEF ArriveRegister, ArriveLogin, StartSeed, Arrive
  <2> QED
    BY <2>1, <2>2, <2>3, <2>4
<1>2. ASSUME NEW r \in Req, NEW e \in Email, ArriveResend(r, e)
      PROVE  Base'
  <2>1. TypeOK' /\ Places'
    BY <1>2, SMTT(60) DEF ArriveResend, Arrive
  <2>2. OwnersAreRequests' /\ IdentityOfOwner'
    BY <1>2, SMTT(60) DEF ArriveResend, Arrive
  <2>3. SubjectsOwn'
    BY <1>2, SMTT(60) DEF ArriveResend, Arrive
  <2>4. TokensOwn' /\ VerifiersHold'
    BY <1>2, SMTT(60) DEF ArriveResend, Arrive
  <2> QED
    BY <2>1, <2>2, <2>3, <2>4
<1>3. ASSUME NEW r \in Req, NEW t \in mailed \cup {None}, ArriveVerify(r, t)
      PROVE  Base'
  BY <1>3, SMTT(60) DEF ArriveVerify, Arrive
<1>4. ASSUME NEW r \in Req, RegisterExists(r)
      PROVE  Base'
  BY <1>4, SMTT(60) DEF RegisterExists
<1>5. ASSUME NEW r \in Req, NEW a \in Applied, RegisterUser(r, a)
      PROVE  Base'
  BY <1>5, SMTT(60) DEF RegisterUser, Duplicate, CreateUser, Applied
<1>6. ASSUME NEW r \in Req, NEW a \in Applied, RegisterIdentity(r, a)
      PROVE  Base'
  <2>1. TypeOK' /\ Places'
    BY <1>6, SMTT(60) DEF RegisterIdentity, CreateIdentity, Applied
  <2>2. OwnersAreRequests' /\ IdentityOfOwner'
    BY <1>6, SMTT(60) DEF RegisterIdentity, CreateIdentity, Applied
  <2>3. SubjectsOwn'
    BY <1>6, SMTT(60) DEF RegisterIdentity, CreateIdentity, Applied
  <2>4. TokensOwn' /\ VerifiersHold'
    BY <1>6, SMTT(60) DEF RegisterIdentity, CreateIdentity, Applied
  <2> QED
    BY <2>1, <2>2, <2>3, <2>4
<1>7. ASSUME NEW r \in Req, NEW a \in Applied, TokenCreate(r, a)
      PROVE  Base'
  BY <1>7, SMTT(60) DEF TokenCreate, CreateToken
<1>8. ASSUME NEW r \in Req, TokenSend(r)
      PROVE  Base'
  BY <1>8, SMTT(60) DEF TokenSend
<1>9. ASSUME NEW r \in Req, ResendFind(r)
      PROVE  Base'
  BY <1>9, SMTT(60) DEF ResendFind
<1>10. ASSUME NEW r \in Req, VerifyFind(r)
      PROVE  Base'
  BY <1>10, SMTT(60) DEF VerifyFind, IsConsumed, IsExpired
<1>11. ASSUME NEW r \in Req, NEW a \in Applied, VerifyConsume(r, a)
      PROVE  Base'
  BY <1>11, SMTT(60) DEF VerifyConsume, MarkConsumed, Applied
<1>12. ASSUME NEW r \in Req, VerifyRead(r)
      PROVE  Base'
  <2>1. TypeOK' /\ Places'
    BY <1>12, SMTT(60) DEF VerifyRead, IdentitiesOf
  <2>2. OwnersAreRequests' /\ IdentityOfOwner'
    BY <1>12, SMTT(60) DEF VerifyRead, IdentitiesOf
  <2>3. SubjectsOwn'
    BY <1>12, SMTT(60) DEF VerifyRead, IdentitiesOf
  <2>4. TokensOwn' /\ VerifiersHold'
    BY <1>12, SMTT(60) DEF VerifyRead, IdentitiesOf
  <2> QED
    BY <2>1, <2>2, <2>3, <2>4
<1>13. ASSUME NEW r \in Req, NEW a \in Applied, VerifyMark(r, a)
      PROVE  Base'
  BY <1>13, SMTT(60) DEF VerifyMark, UpdateVerifiedAt, Applied
<1>14. ASSUME NEW r \in Req, LoginFind(r)
      PROVE  Base'
  <2>1. TypeOK' /\ Places'
    BY <1>14, SMTT(60) DEF LoginFind
  <2>2. OwnersAreRequests' /\ IdentityOfOwner'
    BY <1>14, SMTT(60) DEF LoginFind
  <2>3. SubjectsOwn'
    BY <1>14, SMTT(60) DEF LoginFind
  <2>4. TokensOwn' /\ VerifiersHold'
    BY <1>14, SMTT(60) DEF LoginFind
  <2> QED
    BY <2>1, <2>2, <2>3, <2>4
<1>15. ASSUME NEW r \in Req, NEW a \in Applied, SeedUser(r, a)
      PROVE  Base'
  BY <1>15, SMTT(60) DEF SeedUser, Applied
<1>16. ASSUME NEW r \in Req, NEW a \in Applied, SeedIdentity(r, a)
      PROVE  Base'
  BY <1>16, SMTT(60) DEF SeedIdentity, Applied
<1>17. ASSUME NEW r \in Req, Fail(r) \/ Die(r)
      PROVE  Base'
  BY <1>17, SMTT(60) DEF Fail, Die, Swallowed
<1>18. ASSUME NEW t \in Req, Expire(t)
      PROVE  Base'
  BY <1>18, SMTT(60) DEF Expire
<1>19. CASE UNCHANGED vars
  BY <1>19, SMTT(60) DEF vars
<1> HIDE DEF Base
<1> QED
  BY <1>1, <1>2, <1>3, <1>4, <1>5, <1>6, <1>7, <1>8, <1>9, <1>10, <1>11, <1>12, <1>13, <1>14,
     <1>15, <1>16, <1>17, <1>18, <1>19 DEF Next, Step

LEMMA BaseHolds == Spec => []Base
<1>1. Base /\ [Next]_vars => Base'
  BY StepBase
<1> QED
  BY <1>1, InitBase, PTL DEF Spec

\* The identity of an address belongs to the user of that address.
THEOREM IdentitiesHold == Spec => []IdentityOfOwner
<1>1. Base => IdentityOfOwner
  BY DEF Base
<1> QED
  BY <1>1, BaseHolds, PTL

-----------------------------------------------------------------------------


\* What no step takes back.
Kept ==
    /\ \A e \in Email : owner[e] # None => owner'[e] = owner[e]
    /\ \A e \in Email : idUser[e] # None => idUser'[e] = idUser[e]
    /\ \A t \in tokens : holder'[t] = holder[t]
    /\ tokens \subseteq tokens' /\ consumed \subseteq consumed' /\ mailed \subseteq mailed'
    /\ verified \subseteq verified' /\ seeded \subseteq seeded' /\ dropped \subseteq dropped'
    /\ \A r \in Req : op[r] # "none" =>
          op'[r] = op[r] /\ token'[r] = token[r] /\ noted'[r] = noted[r]
    /\ \A r \in Req : op[r] \notin {"none", "verify"} => email'[r] = email[r]
    /\ \A r \in Req : pc[r] = "done" => pc'[r] = "done" /\ resp'[r] = resp[r]

\* Where an orphan, a used token, a verification and an answer come from.
Caused ==
    /\ \A e \in Email : owner'[e] # owner[e] => \E r \in Req :
          /\ email'[r] = e /\ op'[r] \in {"register", "seed"}
          /\ pc'[r] \in {"registerIdentity", "seedIdentity"} \/ CutShort(r)'
    /\ \A r \in Req : pc[r] \in {"registerIdentity", "seedIdentity"} =>
          pc'[r] = pc[r] \/ CutShort(r)' \/ idUser'[email[r]] # None
    /\ \A t \in consumed' \ consumed : \E r \in Req :
          /\ op'[r] = "verify" /\ token'[r] = t
          /\ pc'[r] = "verifyRead" \/ CutShort(r)'
    /\ \A r \in Req : pc[r] \in {"verifyRead", "verifyMark"} =>
          \/ pc'[r] \in {"verifyRead", "verifyMark"} \/ CutShort(r)'
          \/ pc[r] = "verifyMark" /\ email[r] \in verified'
    /\ \A e \in verified' \ verified :
          e \in seeded' \/ \E r \in Req : pc[r] = "verifyMark" /\ email[r] = e
    /\ \A r \in Req : op'[r] = "verify" /\ resp'[r] = "ok" =>
          resp[r] = "ok" \/ (pc[r] = "verifyMark" /\ email[r] \in verified')
    /\ \A r \in Req : op[r] = "none" /\ op'[r] = "resend" =>
          resp'[r] = "none" /\ noted'[r] \subseteq Unverified
    /\ \A r \in Req : op[r] = "resend" /\ resp[r] = "none" /\ resp'[r] # "none" =>
          /\ resp'[r] = "ok"
          /\ \/ r \in mailed' \cup dropped' \/ email[r] \in verified'
             \/ idUser[email[r]] = None

LEMMA StepKept ==
    ASSUME Base, [Next]_vars
    PROVE  Kept
<1> USE AccountsAssumption
    DEF Kept, Base, TypeOK, Places, Place, RegisterCalls, TokenCalls, VerifyCalls,
        SeedCalls, Answer, Goto, Proceed, Swallow, ids, rows, call, HasIdentity
<1>1. ASSUME NEW r \in Req, NEW e \in Email, NEW w \in Password,
             ArriveRegister(r, e, w) \/ ArriveLogin(r, e, w) \/ StartSeed(r, e, w)
      PROVE  Kept
  BY <1>1, SMTT(60) DEF ArriveRegister, ArriveLogin, StartSeed, Arrive
<1>2. ASSUME NEW r \in Req, NEW e \in Email, ArriveResend(r, e)
      PROVE  Kept
  BY <1>2, SMTT(60) DEF ArriveResend, Arrive
<1>3. ASSUME NEW r \in Req, NEW t \in mailed \cup {None}, ArriveVerify(r, t)
      PROVE  Kept
  BY <1>3, SMTT(60) DEF ArriveVerify, Arrive
<1>4. ASSUME NEW r \in Req, RegisterExists(r)
      PROVE  Kept
  BY <1>4, SMTT(60) DEF RegisterExists
<1>5. ASSUME NEW r \in Req, NEW a \in Applied, RegisterUser(r, a)
      PROVE  Kept
  BY <1>5, SMTT(60) DEF RegisterUser, Duplicate, CreateUser, Applied
<1>6. ASSUME NEW r \in Req, NEW a \in Applied, RegisterIdentity(r, a)
      PROVE  Kept
  BY <1>6, SMTT(60) DEF RegisterIdentity, CreateIdentity, Applied, SubjectsOwn
<1>7. ASSUME NEW r \in Req, NEW a \in Applied, TokenCreate(r, a)
      PROVE  Kept
  BY <1>7, SMTT(60) DEF TokenCreate, CreateToken, TokensOwn
<1>8. ASSUME NEW r \in Req, TokenSend(r)
      PROVE  Kept
  BY <1>8, SMTT(60) DEF TokenSend
<1>9. ASSUME NEW r \in Req, ResendFind(r)
      PROVE  Kept
  BY <1>9, SMTT(60) DEF ResendFind
<1>10. ASSUME NEW r \in Req, VerifyFind(r)
      PROVE  Kept
  BY <1>10, SMTT(60) DEF VerifyFind, IsConsumed, IsExpired
<1>11. ASSUME NEW r \in Req, NEW a \in Applied, VerifyConsume(r, a)
      PROVE  Kept
  BY <1>11, SMTT(60) DEF VerifyConsume, MarkConsumed, Applied
<1>12. ASSUME NEW r \in Req, VerifyRead(r)
      PROVE  Kept
  BY <1>12, SMTT(60) DEF VerifyRead, IdentitiesOf, VerifiersHold, TokensOwn
<1>13. ASSUME NEW r \in Req, NEW a \in Applied, VerifyMark(r, a)
      PROVE  Kept
  BY <1>13, SMTT(60) DEF VerifyMark, UpdateVerifiedAt, Applied
<1>14. ASSUME NEW r \in Req, LoginFind(r)
      PROVE  Kept
  BY <1>14, SMTT(60) DEF LoginFind
<1>15. ASSUME NEW r \in Req, NEW a \in Applied, SeedUser(r, a)
      PROVE  Kept
  BY <1>15, SMTT(60) DEF SeedUser, Applied
<1>16. ASSUME NEW r \in Req, NEW a \in Applied, SeedIdentity(r, a)
      PROVE  Kept
  BY <1>16, SMTT(60) DEF SeedIdentity, Applied, SubjectsOwn
<1>17. ASSUME NEW r \in Req, Fail(r) \/ Die(r)
      PROVE  Kept
  BY <1>17, SMTT(60) DEF Fail, Die, Swallowed
<1>18. ASSUME NEW t \in Req, Expire(t)
      PROVE  Kept
  BY <1>18, SMTT(60) DEF Expire
<1>19. CASE UNCHANGED vars
  BY <1>19, SMTT(60) DEF vars
<1> HIDE DEF Kept
<1> QED
  BY <1>1, <1>2, <1>3, <1>4, <1>5, <1>6, <1>7, <1>8, <1>9, <1>10, <1>11, <1>12, <1>13, <1>14,
     <1>15, <1>16, <1>17, <1>18, <1>19 DEF Next, Step

LEMMA StepCaused ==
    ASSUME Base, [Next]_vars
    PROVE  Caused
<1> USE AccountsAssumption
    DEF Caused, Base, TypeOK, Places, Place, RegisterCalls, TokenCalls, VerifyCalls,
        SeedCalls, Answer, Goto, Proceed, Swallow, ids, rows, call, HasIdentity, CutShort, Unverified
<1>1. ASSUME NEW r \in Req, NEW e \in Email, NEW w \in Password,
             ArriveRegister(r, e, w) \/ ArriveLogin(r, e, w) \/ StartSeed(r, e, w)
      PROVE  Caused
  BY <1>1, SMTT(60) DEF ArriveRegister, ArriveLogin, StartSeed, Arrive
<1>2. ASSUME NEW r \in Req, NEW e \in Email, ArriveResend(r, e)
      PROVE  Caused
  BY <1>2, SMTT(60) DEF ArriveResend, Arrive
<1>3. ASSUME NEW r \in Req, NEW t \in mailed \cup {None}, ArriveVerify(r, t)
      PROVE  Caused
  BY <1>3, SMTT(60) DEF ArriveVerify, Arrive
<1>4. ASSUME NEW r \in Req, RegisterExists(r)
      PROVE  Caused
  BY <1>4, SMTT(60) DEF RegisterExists
<1>5. ASSUME NEW r \in Req, NEW a \in Applied, RegisterUser(r, a)
      PROVE  Caused
  BY <1>5, SMTT(60) DEF RegisterUser, Duplicate, CreateUser, Applied
<1>6. ASSUME NEW r \in Req, NEW a \in Applied, RegisterIdentity(r, a)
      PROVE  Caused
  BY <1>6, SMTT(60) DEF RegisterIdentity, CreateIdentity, Applied, SubjectsOwn
<1>7. ASSUME NEW r \in Req, NEW a \in Applied, TokenCreate(r, a)
      PROVE  Caused
  BY <1>7, SMTT(60) DEF TokenCreate, CreateToken, TokensOwn
<1>8. ASSUME NEW r \in Req, TokenSend(r)
      PROVE  Caused
  BY <1>8, SMTT(60) DEF TokenSend
<1>9. ASSUME NEW r \in Req, ResendFind(r)
      PROVE  Caused
  BY <1>9, SMTT(60) DEF ResendFind
<1>10. ASSUME NEW r \in Req, VerifyFind(r)
      PROVE  Caused
  BY <1>10, SMTT(60) DEF VerifyFind, IsConsumed, IsExpired
<1>11. ASSUME NEW r \in Req, NEW a \in Applied, VerifyConsume(r, a)
      PROVE  Caused
  BY <1>11, SMTT(60) DEF VerifyConsume, MarkConsumed, Applied
<1>12. ASSUME NEW r \in Req, VerifyRead(r)
      PROVE  Caused
  BY <1>12, SMTT(60) DEF VerifyRead, IdentitiesOf, VerifiersHold, TokensOwn
<1>13. ASSUME NEW r \in Req, NEW a \in Applied, VerifyMark(r, a)
      PROVE  Caused
  BY <1>13, SMTT(60) DEF VerifyMark, UpdateVerifiedAt, Applied
<1>14. ASSUME NEW r \in Req, LoginFind(r)
      PROVE  Caused
  BY <1>14, SMTT(60) DEF LoginFind
<1>15. ASSUME NEW r \in Req, NEW a \in Applied, SeedUser(r, a)
      PROVE  Caused
  BY <1>15, SMTT(60) DEF SeedUser, Applied
<1>16. ASSUME NEW r \in Req, NEW a \in Applied, SeedIdentity(r, a)
      PROVE  Caused
  BY <1>16, SMTT(60) DEF SeedIdentity, Applied, SubjectsOwn
<1>17. ASSUME NEW r \in Req, Fail(r) \/ Die(r)
      PROVE  Caused
  <2>1. CASE Die(r)
    BY <2>1, SMTT(60) DEF Die
  <2>2. CASE Fail(r) /\ pc[r] \in Swallowed
    BY <2>2, SMTT(60) DEF Fail, Swallowed
  <2>3. CASE Fail(r) /\ pc[r] \notin Swallowed
    BY <2>3, SMTT(60) DEF Fail, Swallowed, Calls
  <2> QED
    BY <1>17, <2>1, <2>2, <2>3
<1>18. ASSUME NEW t \in Req, Expire(t)
      PROVE  Caused
  BY <1>18, SMTT(60) DEF Expire
<1>19. CASE UNCHANGED vars
  BY <1>19, SMTT(60) DEF vars
<1> HIDE DEF Caused
<1> QED
  BY <1>1, <1>2, <1>3, <1>4, <1>5, <1>6, <1>7, <1>8, <1>9, <1>10, <1>11, <1>12, <1>13, <1>14,
     <1>15, <1>16, <1>17, <1>18, <1>19 DEF Next, Step

-----------------------------------------------------------------------------

\* Whoever verifies an address held a token mailed to it, for its user.
LEMMA StepMailbox ==
    ASSUME Base, Kept, Caused, TypeOK', OnlyMailboxVerifies
    PROVE  OnlyMailboxVerifies'
<1> USE AccountsAssumption DEF OnlyMailboxVerifies, Base, TypeOK
<1> SUFFICES ASSUME NEW e \in verified', e \notin seeded'
             PROVE  \E t \in consumed' \cap mailed' : email'[t] = e /\ holder'[t] = idUser'[e]
  OBVIOUS
<1>1. \A t \in tokens : email'[t] = email[t] /\ holder'[t] = holder[t]
  BY DEF Kept, TokensOwn
<1>2. CASE e \in verified
  <2>1. PICK t \in consumed \cap mailed : email[t] = e /\ holder[t] = idUser[e]
    BY <1>2 DEF Kept
  <2> QED
    BY <1>1, <1>2, <2>1 DEF Kept
<1>3. CASE e \notin verified
  <2>1. PICK r \in Req : pc[r] = "verifyMark" /\ email[r] = e
    BY <1>3 DEF Caused
  <2>2. token[r] \in consumed \cap mailed
    BY <2>1 DEF VerifiersHold, Places, Place, VerifyCalls
  <2>3. e \in Email /\ idUser[e] = holder[token[r]] /\ idUser[e] # None
    BY <2>1, <2>2 DEF VerifiersHold, TokensOwn
  <2>4. email[token[r]] = e
    <3>1. owner[e] = holder[token[r]] /\ owner[email[token[r]]] = holder[token[r]]
      BY <2>2, <2>3 DEF IdentityOfOwner, TokensOwn
    <3>2. email[token[r]] \in Email
      BY <2>2 DEF TokensOwn, Places, Place
    <3> QED
      BY <2>3, <3>1, <3>2 DEF OwnersAreRequests
  <2> QED
    BY <1>1, <2>2, <2>3, <2>4 DEF Kept
<1> QED
  BY <1>2, <1>3

\* A token that was free when its verification arrived, and an identity that
\* was there before the token.
LEMMA StepVerified ==
    ASSUME Base, Base', Kept, Caused, VerifiedWhenToldSo
    PROVE  VerifiedWhenToldSo'
<1> USE AccountsAssumption DEF VerifiedWhenToldSo, Base, TypeOK, Places, Place
<1> SUFFICES ASSUME NEW r \in Req, op'[r] = "verify", resp'[r] = "ok"
             PROVE  /\ token'[r] \notin noted'[r]
                    /\ \E e \in verified' : idUser'[e] = holder'[token'[r]]
  OBVIOUS
<1>1. CASE resp[r] = "ok"
  <2>1. op[r] = "verify" /\ token'[r] = token[r] /\ noted'[r] = noted[r]
    BY <1>1 DEF Kept
  <2>2. PICK e \in verified : idUser[e] = holder[token[r]]
    BY <1>1, <2>1
  <2>3. idUser[e] # None /\ e \in Email
    BY <2>2
  <2>4. token[r] \in tokens
    BY <1>1, <2>1 DEF VerifiersHold
  <2> QED
    BY <1>1, <2>1, <2>2, <2>3, <2>4 DEF Kept
<1>2. CASE pc[r] = "verifyMark" /\ email[r] \in verified'
  <2>1. /\ token[r] \in tokens \ noted[r] /\ token'[r] = token[r] /\ noted'[r] = noted[r]
        /\ email[r] \in Email /\ idUser[email[r]] = holder[token[r]]
    BY <1>2 DEF VerifiersHold, Kept, VerifyCalls
  <2> QED
    BY <1>2, <2>1 DEF Kept
<1> QED
  BY <1>1, <1>2 DEF Caused

\* A used token has a verification that is at work, was cut short, or is done.
LEMMA StepUsed ==
    ASSUME Base, Base', Kept, Caused, UsedTokenExplained
    PROVE  UsedTokenExplained'
<1> USE AccountsAssumption DEF UsedTokenExplained, Base, TypeOK, Places, Place
<1> SUFFICES ASSUME NEW t \in consumed'
             PROVE  \/ \E e \in verified' : idUser'[e] = holder'[t]
                    \/ \E r \in Req :
                          /\ op'[r] = "verify" /\ token'[r] = t
                          /\ pc'[r] \in {"verifyRead", "verifyMark"} \/ CutShort(r)'
  OBVIOUS
<1>1. CASE t \notin consumed
  BY <1>1 DEF Caused
<1>2. CASE \E e \in verified : idUser[e] = holder[t]
  BY <1>2 DEF Kept
<1>3. ASSUME t \in consumed,
             NEW r \in Req, op[r] = "verify", token[r] = t,
             pc[r] \in {"verifyRead", "verifyMark"} \/ CutShort(r)
      PROVE  \/ \E e \in verified' : idUser'[e] = holder'[t]
             \/ \E q \in Req :
                   /\ op'[q] = "verify" /\ token'[q] = t
                   /\ pc'[q] \in {"verifyRead", "verifyMark"} \/ CutShort(q)'
  <2>1. op'[r] = "verify" /\ token'[r] = t
    BY <1>3 DEF Kept
  <2>2. CASE CutShort(r)
    BY <1>3, <2>1, <2>2 DEF Kept, CutShort
  <2>3. CASE pc'[r] \in {"verifyRead", "verifyMark"} \/ CutShort(r)'
    BY <2>1, <2>3
  <2>4. CASE pc[r] = "verifyMark" /\ email[r] \in verified'
    BY <1>3, <2>4 DEF VerifiersHold, Kept
  <2> QED
    BY <1>3, <2>2, <2>3, <2>4 DEF Caused
<1> QED
  BY <1>1, <1>2, <1>3

LEMMA StepOrphan ==
    ASSUME Base, Base', Kept, Caused, OrphanExplained
    PROVE  OrphanExplained'
<1> USE AccountsAssumption DEF OrphanExplained, Base, TypeOK, Places, Place, RegisterCalls, SeedCalls
<1> SUFFICES ASSUME NEW e \in Email, owner'[e] # None, idUser'[e] = None
             PROVE  \E r \in Req :
                       /\ email'[r] = e /\ op'[r] \in {"register", "seed"}
                       /\ pc'[r] \in {"registerIdentity", "seedIdentity"} \/ CutShort(r)'
  OBVIOUS
<1>1. idUser[e] = None
  BY DEF Kept
<1>2. CASE owner[e] = None
  BY <1>2 DEF Caused
<1>3. CASE owner[e] # None
  <2>1. PICK r \in Req :
           /\ email[r] = e /\ op[r] \in {"register", "seed"}
           /\ pc[r] \in {"registerIdentity", "seedIdentity"} \/ CutShort(r)
    BY <1>1, <1>3
  <2>2. email'[r] = e /\ op'[r] \in {"register", "seed"}
    BY <2>1 DEF Kept
  <2>3. pc'[r] \in {"registerIdentity", "seedIdentity"} \/ CutShort(r)'
    <3>1. CASE CutShort(r)
      BY <3>1 DEF CutShort, Kept
    <3>2. CASE pc[r] \in {"registerIdentity", "seedIdentity"}
      BY <2>1, <3>2 DEF Caused
    <3> QED
      BY <2>1, <3>1, <3>2
  <2> QED
    BY <2>2, <2>3
<1> QED
  BY <1>2, <1>3

\* An address that waited for its verification has an identity.
WaitersHaveIdentity ==
    \A r \in Req : op[r] = "resend" =>
        \A e \in Email \cap noted[r] : idUser[e] # None

LEMMA StepResend ==
    ASSUME Base, Base', Kept, Caused, WaitersHaveIdentity, ResendTruthful
    PROVE  WaitersHaveIdentity' /\ ResendTruthful'
<1> USE AccountsAssumption DEF WaitersHaveIdentity, ResendTruthful, Base, TypeOK, Places, Place
<1>1. WaitersHaveIdentity'
  BY SMTT(30) DEF Kept, Caused, Unverified
<1>2. ASSUME NEW r \in Req, op'[r] = "resend", resp'[r] # "none"
      PROVE  /\ resp'[r] = "ok"
             /\ email'[r] \in noted'[r] =>
                   r \in mailed' \cup dropped' \/ email'[r] \in verified'
  <2>1. op[r] = "resend" /\ noted'[r] = noted[r] /\ email'[r] = email[r]
    BY <1>2 DEF Kept, Caused
  <2>2. CASE resp[r] = "none"
    BY <1>2, <2>1, <2>2 DEF Caused
  <2>3. CASE resp[r] # "none"
    BY <1>2, <2>1, <2>3 DEF Kept
  <2> QED
    BY <2>2, <2>3
<1> QED
  BY <1>1, <1>2

-----------------------------------------------------------------------------

\* What each request left behind explains the rows, and its answer.
Explained ==
    /\ OnlyMailboxVerifies /\ VerifiedWhenToldSo /\ UsedTokenExplained
    /\ OrphanExplained /\ WaitersHaveIdentity /\ ResendTruthful

LEMMA ExplainedHolds == Spec => []Explained
<1>1. Init => Explained
  BY AccountsAssumption DEF Init, Explained, OnlyMailboxVerifies, VerifiedWhenToldSo,
     UsedTokenExplained, OrphanExplained, WaitersHaveIdentity, ResendTruthful
<1>2. Base /\ Base' /\ Explained /\ [Next]_vars => Explained'
  <2> SUFFICES ASSUME Base, Base', Explained, [Next]_vars
               PROVE  Explained'
    OBVIOUS
  <2>1. Kept /\ Caused /\ TypeOK'
    BY StepKept, StepCaused DEF Base
  <2> QED
    BY <2>1, StepMailbox, StepVerified, StepUsed, StepOrphan, StepResend DEF Explained
<1> QED
  BY <1>1, <1>2, BaseHolds, PTL DEF Spec

\* An address that is verified, and not by the seed command, is one whose
\* mailbox the token was sent to: service.go of verification goes from the
\* token to its user and to an identity, and never arrives at another address.
THEOREM MailboxHolds == Spec => []OnlyMailboxVerifies
<1>1. Explained => OnlyMailboxVerifies
  BY DEF Explained
<1> QED
  BY <1>1, ExplainedHolds, PTL

\* A verification answered with 200 has verified its address with a token that
\* was unused when it arrived.
THEOREM VerificationsHold == Spec => []VerifiedWhenToldSo
<1>1. Explained => VerifiedWhenToldSo
  BY DEF Explained
<1> QED
  BY <1>1, ExplainedHolds, PTL

\* A used token has verified its user, unless a failure burnt it.
THEOREM UsedTokensHold == Spec => []UsedTokenExplained
<1>1. Explained => UsedTokenExplained
  BY DEF Explained
<1> QED
  BY <1>1, ExplainedHolds, PTL

\* An address without an identity is left behind by nothing but a failure.
THEOREM OrphansHold == Spec => []OrphanExplained
<1>1. Explained => OrphanExplained
  BY DEF Explained
<1> QED
  BY <1>1, ExplainedHolds, PTL

\* A resend that says 200 has sent a mail, or none was due, or a failure was
\* dropped.
THEOREM ResendsHold == Spec => []ResendTruthful
<1>1. Explained => ResendTruthful
  BY DEF Explained
<1> QED
  BY <1>1, ExplainedHolds, PTL
-----------------------------------------------------------------------------

\* The stages of an address, one by one.
LEMMA Stages ==
    \A e \in Email :
        /\ e \in verified => stage[e] = "verified"
        /\ e \notin verified /\ idUser[e] # None => stage[e] = "unverified"
        /\ e \notin verified /\ idUser[e] = None /\ owner[e] # None => stage[e] = "reserved"
        /\ e \notin verified /\ idUser[e] = None /\ owner[e] = None => stage[e] = "free"
  BY DEF stage

LEMMA StagesNext ==
    \A e \in Email :
        /\ e \in verified' => stage'[e] = "verified"
        /\ e \notin verified' /\ idUser'[e] # None => stage'[e] = "unverified"
        /\ e \notin verified' /\ idUser'[e] = None /\ owner'[e] # None =>
              stage'[e] = "reserved"
        /\ e \notin verified' /\ idUser'[e] = None /\ owner'[e] = None => stage'[e] = "free"
  BY DEF stage

\* A step that changes one address moves that address alone.
LEMMA OneMoves ==
    ASSUME NEW d \in Email, NEW to, stage'[d] = to,
           \A e \in Email \ {d} :
              /\ e \in verified' <=> e \in verified
              /\ idUser'[e] = idUser[e] /\ owner'[e] = owner[e]
    PROVE  stage' = [stage EXCEPT ![d] = to]
  BY DEF stage

LEMMA LifecycleStep ==
    ASSUME Base, [Next]_vars
    PROVE  [Lifecycle!Next]_(Lifecycle!vars)
<1> USE AccountsAssumption
<1>0. ASSUME UNCHANGED ids PROVE UNCHANGED Lifecycle!vars
  BY <1>0 DEF ids, Lifecycle!vars, stage
<1>1. ASSUME NEW r \in Req,
             \/ \E e \in Email, w \in Password :
                   ArriveRegister(r, e, w) \/ ArriveLogin(r, e, w) \/ StartSeed(r, e, w)
             \/ \E e \in Email : ArriveResend(r, e)
             \/ \E t \in mailed \cup {None} : ArriveVerify(r, t)
             \/ RegisterExists(r) \/ TokenSend(r) \/ ResendFind(r)
             \/ VerifyFind(r) \/ VerifyRead(r) \/ LoginFind(r)
             \/ \E a \in Applied : TokenCreate(r, a) \/ VerifyConsume(r, a)
             \/ Fail(r) \/ Die(r) \/ Expire(r)
      PROVE  UNCHANGED ids
  BY <1>1 DEF ArriveRegister, ArriveLogin, StartSeed, ArriveResend, ArriveVerify, Arrive,
     RegisterExists, TokenSend, ResendFind, VerifyFind, VerifyRead, LoginFind, TokenCreate,
     VerifyConsume, Fail, Die, Expire
<1>2. ASSUME NEW r \in Req, NEW a \in Applied, RegisterUser(r, a)
      PROVE  [Lifecycle!Next]_(Lifecycle!vars)
  <2>1. CASE Duplicate(email[r])
    BY <1>0, <1>2, <2>1 DEF RegisterUser, ids
  <2>2. CASE ~Duplicate(email[r])
    <3>1. email[r] \in Email /\ owner[email[r]] = None /\ idUser[email[r]] = None
      BY <1>2, <2>2 DEF RegisterUser, Duplicate, Base, Places, Place, RegisterCalls,
         IdentityOfOwner
    <3>2. /\ owner' = [owner EXCEPT ![email[r]] = r]
          /\ UNCHANGED <<idUser, password, verified>>
      BY <1>2, <2>2 DEF RegisterUser, CreateUser
    <3>3. email[r] \notin verified /\ owner \in [Email -> Req \cup {None}]
      BY <3>1 DEF Base, TypeOK
    <3>4. stage[email[r]] = "free" /\ stage'[email[r]] = "reserved"
      BY <3>1, <3>2, <3>3, Stages, StagesNext
    <3>5. stage' = [stage EXCEPT ![email[r]] = "reserved"]
      BY <3>1, <3>2, <3>3, <3>4, OneMoves
    <3>6. Lifecycle!Reserve(email[r])
      BY <3>2, <3>4, <3>5 DEF Lifecycle!Reserve, Lifecycle!Move
    <3> QED
      BY <3>1, <3>6 DEF Lifecycle!Next
  <2> QED
    BY <2>1, <2>2
<1>3. ASSUME NEW r \in Req, NEW a \in Applied, RegisterIdentity(r, a)
      PROVE  [Lifecycle!Next]_(Lifecycle!vars)
  <2>1. CASE HasIdentity(email[r])
    BY <1>0, <1>3, <2>1 DEF RegisterIdentity, ids
  <2>2. CASE ~HasIdentity(email[r])
    <3>1. /\ email[r] \in Email /\ word[r] \in Password /\ idUser[email[r]] = None
          /\ subject[r] # None /\ owner[email[r]] = subject[r]
      BY <1>3, <2>2 DEF RegisterIdentity, HasIdentity, Base, Places, Place, RegisterCalls,
         SubjectsOwn
    <3>2. /\ idUser' = [idUser EXCEPT ![email[r]] = subject[r]]
          /\ password' = [password EXCEPT ![email[r]] = word[r]]
          /\ UNCHANGED <<owner, verified>>
      BY <1>3, <2>2 DEF RegisterIdentity, CreateIdentity
    <3>3. email[r] \notin verified /\ idUser \in [Email -> Req \cup {None}]
      BY <3>1 DEF Base, TypeOK
    <3>4. stage[email[r]] = "reserved" /\ stage'[email[r]] = "unverified"
      BY <3>1, <3>2, <3>3, Stages, StagesNext
    <3>5. stage' = [stage EXCEPT ![email[r]] = "unverified"]
      BY <3>1, <3>2, <3>3, <3>4, OneMoves
    <3>6. Lifecycle!Establish(email[r], word[r])
      BY <3>2, <3>4, <3>5 DEF Lifecycle!Establish, Lifecycle!Move
    <3> QED
      BY <3>1, <3>6 DEF Lifecycle!Next
  <2> QED
    BY <2>1, <2>2
<1>4. ASSUME NEW r \in Req, NEW a \in Applied, VerifyMark(r, a)
      PROVE  [Lifecycle!Next]_(Lifecycle!vars)
  <2>1. email[r] \in Email /\ idUser[email[r]] # None
    BY <1>4 DEF VerifyMark, Base, VerifiersHold, TokensOwn
  <2>2. verified' = verified \cup {email[r]} /\ UNCHANGED <<owner, idUser, password>>
    BY <1>4 DEF VerifyMark, UpdateVerifiedAt
  <2>3. stage[email[r]] \in {"unverified", "verified"} /\ stage'[email[r]] = "verified"
    BY <2>1, <2>2, Stages, StagesNext
  <2>4. stage' = [stage EXCEPT ![email[r]] = "verified"]
    BY <2>1, <2>2, <2>3, OneMoves
  <2>5. Lifecycle!Verify(email[r])
    BY <2>2, <2>3, <2>4 DEF Lifecycle!Verify, Lifecycle!Move
  <2> QED
    BY <2>1, <2>5 DEF Lifecycle!Next
<1>5. ASSUME NEW r \in Req, NEW a \in Applied, SeedUser(r, a)
      PROVE  [Lifecycle!Next]_(Lifecycle!vars)
  <2>1. /\ owner' = [owner EXCEPT ![email[r]] = IF @ = None THEN r ELSE @]
        /\ UNCHANGED <<idUser, password, verified>>
    BY <1>5 DEF SeedUser
  <2>2. email[r] \in Email /\ owner \in [Email -> Req \cup {None}]
    BY <1>5 DEF SeedUser, Base, TypeOK, Places, Place, SeedCalls
  <2>3. CASE owner[email[r]] # None
    <3>1. owner' = owner
      BY <2>1, <2>2, <2>3
    <3> QED
      BY <1>0, <2>1, <3>1 DEF ids
  <2>4. CASE owner[email[r]] = None
    <3>1. idUser[email[r]] = None /\ email[r] \notin verified
      BY <2>2, <2>4 DEF Base, TypeOK, IdentityOfOwner
    <3>2. stage[email[r]] = "free" /\ stage'[email[r]] = "reserved"
      BY <2>1, <2>2, <2>4, <3>1, Stages, StagesNext
    <3>3. stage' = [stage EXCEPT ![email[r]] = "reserved"]
      BY <2>1, <2>2, <3>2, OneMoves
    <3>4. Lifecycle!Reserve(email[r])
      BY <2>1, <3>2, <3>3 DEF Lifecycle!Reserve, Lifecycle!Move
    <3> QED
      BY <2>2, <3>4 DEF Lifecycle!Next
  <2> QED
    BY <2>3, <2>4
<1>6. ASSUME NEW r \in Req, NEW a \in Applied, SeedIdentity(r, a)
      PROVE  [Lifecycle!Next]_(Lifecycle!vars)
  <2>1. /\ idUser' = [idUser EXCEPT ![email[r]] = IF @ = None THEN subject[r] ELSE @]
        /\ password' = [password EXCEPT ![email[r]] = word[r]]
        /\ verified' = verified \cup {email[r]} /\ UNCHANGED owner
    BY <1>6 DEF SeedIdentity
  <2>2. /\ email[r] \in Email /\ word[r] \in Password /\ owner[email[r]] # None
        /\ idUser \in [Email -> Req \cup {None}]
    BY <1>6 DEF SeedIdentity, Base, TypeOK, Places, Place, SeedCalls, SubjectsOwn
  <2>3. /\ stage[email[r]] \in {"reserved", "unverified", "verified"}
        /\ stage'[email[r]] = "verified"
    BY <2>1, <2>2, Stages, StagesNext
  <2>4. stage' = [stage EXCEPT ![email[r]] = "verified"]
    BY <2>1, <2>2, <2>3, OneMoves
  <2>5. Lifecycle!Seed(email[r], word[r])
    BY <2>1, <2>3, <2>4 DEF Lifecycle!Seed, Lifecycle!Move
  <2> QED
    BY <2>2, <2>5 DEF Lifecycle!Next
<1>7. CASE UNCHANGED vars
  BY <1>0, <1>7 DEF vars
<1> QED
  BY <1>0, <1>1, <1>2, <1>3, <1>4, <1>5, <1>6, <1>7 DEF Next, Step

\* The tables implement the life of an address: taken once, given a password
\* once, verified, and never taken back; only the seed command replaces a
\* password.
THEOREM LifecycleImplemented == Spec => ImplementsLifecycle
<1>1. Init => Lifecycle!Init
  BY AccountsAssumption DEF Init, Lifecycle!Init, stage
<1> QED
  BY <1>1, LifecycleStep, BaseHolds, PTL DEF Spec, ImplementsLifecycle, Lifecycle!Spec
=============================================================================
