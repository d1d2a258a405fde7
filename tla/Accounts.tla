------------------------------ MODULE Accounts ------------------------------
(***************************************************************************)
(* Registering an address, verifying it and being let in                   *)
(* (internal/auth/service.go, internal/verification/service.go), over the  *)
(* tables users, user_identities and email_verification_tokens, and the    *)
(* seed command (cmd/seed), which writes the same tables from a process of *)
(* its own.                                                                *)
(*                                                                         *)
(* None of these operations is a transaction: every statement commits by   *)
(* itself, and between two of them other requests run, the process may     *)
(* stop, or the client may go away and cancel the rest.                    *)
(*                                                                         *)
(* A request is used once.  The user a request creates, and the            *)
(* verification token it creates, are named by that request.  Addresses    *)
(* are the normalised ones.  Only identities of the provider "password"    *)
(* exist, so an address has at most one.  A login ends here once its       *)
(* password and the address are accepted; Sessions takes it from there.    *)
(*                                                                         *)
(* Faulty variants of some definitions stand before them, as in Sessions.  *)
(***************************************************************************)
CONSTANTS
    Email,
    Password,
    Req,       \* requests, the users and the verification tokens they create
    None,      \* no user, no password, or a token this server never issued
    Failures   \* may a call fail, or its answer be lost?

ASSUME AccountsAssumption ==
    /\ None \notin Req \cup Password \cup Email
    /\ Failures \in BOOLEAN

VARIABLES
    owner,     \* users: the user of each address (email is UNIQUE), or None
    idUser,    \* user_identities: user_id of the identity of each address
    password,  \* ... its password
    verified,  \* ... the addresses whose identity has verified_at set
    tokens,    \* the rows of email_verification_tokens
    holder,    \* ... their user_id
    consumed,  \* ... those with consumed_at set
    expired,   \* ... those whose expires_at has passed
    mailed,    \* tokens whose link has reached the mailbox
    op,        \* what each request is
    pc,        \* the call it makes next
    email,     \* the address it is about
    word,      \* the password it presents
    token,     \* the verification token it presents
    subject,   \* the user it has created or read
    resp,      \* the answer
    noted,     \* history, when it arrived: the tokens consumed (a verify) or the
               \* addresses to verify (a resend)
    dropped,   \* history: the requests for which a failure was swallowed
    seeded     \* history: addresses the seed command has written

ids == <<owner, idUser, password, verified>>
rows == <<tokens, holder, consumed, expired>>
call == <<op, word, token, noted>>
vars == <<ids, rows, mailed, call, pc, email, subject, resp, dropped, seeded>>

Ops == {"register", "verify", "resend", "login", "seed"}
Calls == {"registerExists", "registerUser", "registerIdentity",
          "tokenCreate", "tokenSend", "resendFind",
          "verifyFind", "verifyConsume", "verifyRead", "verifyMark",
          "loginFind", "seedUser", "seedIdentity"}
Refusals == {"email_already_exists", "invalid_credentials", "email_not_verified",
             "invalid_token", "token_used", "token_expired"}

\* Calls whose failure the service reports as success: Register logs it, the
\* handler of resend drops it.
SwallowedMail == {"tokenSend"}
SwallowedInRegister == {"tokenCreate", "tokenSend", "resendFind", "registerIdentity"}
Swallowed == {"tokenCreate", "tokenSend", "resendFind"}

\* The addresses whose identity waits for a verification.
Unverified == {e \in Email : idUser[e] # None} \ verified

Applied == {"ok"} \cup IF Failures THEN {"internal_error"} ELSE {}

TypeOK ==
    /\ owner \in [Email -> Req \cup {None}]
    /\ idUser \in [Email -> Req \cup {None}]
    /\ password \in [Email -> Password \cup {None}]
    /\ \A e \in Email : idUser[e] = None <=> password[e] = None
    /\ verified \subseteq {e \in Email : idUser[e] # None}
    /\ tokens \subseteq Req
    /\ holder \in [Req -> Req \cup {None}]
    /\ \A t \in Req : holder[t] # None <=> t \in tokens
    /\ consumed \subseteq tokens /\ expired \subseteq tokens /\ mailed \subseteq tokens
    /\ op \in [Req -> Ops \cup {"none"}]
    /\ pc \in [Req -> Calls \cup {"idle", "done"}]
    /\ email \in [Req -> Email \cup {None}]
    /\ word \in [Req -> Password \cup {None}]
    /\ token \in [Req -> Req \cup {None}]
    /\ subject \in [Req -> Req \cup {None}]
    /\ resp \in [Req -> Refusals \cup {"none", "ok", "internal_error"}]
    /\ noted \in [Req -> SUBSET (Email \cup consumed)]
    /\ dropped \subseteq {r \in Req : op[r] \in {"register", "resend"}}
    /\ seeded \subseteq verified

Init ==
    /\ owner = [e \in Email |-> None] /\ idUser = [e \in Email |-> None]
    /\ password = [e \in Email |-> None] /\ verified = {}
    /\ tokens = {} /\ holder = [t \in Req |-> None]
    /\ consumed = {} /\ expired = {} /\ mailed = {}
    /\ op = [r \in Req |-> "none"] /\ pc = [r \in Req |-> "idle"]
    /\ email = [r \in Req |-> None] /\ word = [r \in Req |-> None]
    /\ token = [r \in Req |-> None] /\ subject = [r \in Req |-> None]
    /\ resp = [r \in Req |-> "none"] /\ noted = [r \in Req |-> {}]
    /\ dropped = {} /\ seeded = {}

Goto(r, c) == pc' = [pc EXCEPT ![r] = c]

Answer(r, a) ==
    /\ Goto(r, "done")
    /\ resp' = [resp EXCEPT ![r] = a]

\* A statement that took effect: its answer arrives and the request goes on, or
\* the answer is lost.
Proceed(r, a, c) ==
    \/ a = "ok" /\ Goto(r, c) /\ UNCHANGED resp
    \/ a # "ok" /\ Answer(r, a)

\* A failure the client is not told of.
Swallow(r) ==
    /\ Answer(r, "ok")
    /\ dropped' = dropped \cup {r}

-----------------------------------------------------------------------------
\* The statements of the repositories.

EmailExists(e) == owner[e] # None

\* GetByProviderAndEmail finds a row.
HasIdentity(e) == idUser[e] # None

\* GetByUserID: the addresses of the identities of a user.
IdentitiesOfNobody(u) == {}
IdentitiesOfAll(u) == {e \in Email : HasIdentity(e)}
IdentitiesOf(u) == {e \in Email : idUser[e] = u}

IsConsumedIgnored(t) == FALSE
IsConsumed(t) == t \in consumed
IsExpired(t) == t \in expired

\* users.email is UNIQUE.
DuplicateAccepted(e) == FALSE
Duplicate(e) == owner[e] # None

CreateUser(r) ==
    /\ owner' = [owner EXCEPT ![email[r]] = r]
    /\ subject' = [subject EXCEPT ![r] = r]

CreateIdentity(r) ==
    /\ idUser' = [idUser EXCEPT ![email[r]] = subject[r]]
    /\ password' = [password EXCEPT ![email[r]] = word[r]]

CreateToken(r) ==
    /\ tokens' = tokens \cup {r}
    /\ holder' = [holder EXCEPT ![r] = subject[r]]

\* By id alone: whether the token is still unused is not asked.
MarkConsumed(t) == consumed' = consumed \cup {t}

UpdateVerifiedAt(e) == verified' = verified \cup {e}

-----------------------------------------------------------------------------

Arrive(r, o, e, w, t, seen, first) ==
    /\ pc[r] = "idle"
    /\ op' = [op EXCEPT ![r] = o]
    /\ email' = [email EXCEPT ![r] = e]
    /\ word' = [word EXCEPT ![r] = w]
    /\ token' = [token EXCEPT ![r] = t]
    /\ noted' = [noted EXCEPT ![r] = seen]
    /\ Goto(r, first)
    /\ UNCHANGED <<ids, rows, mailed, subject, resp, dropped, seeded>>

ArriveRegister(r, e, w) == Arrive(r, "register", e, w, None, {}, "registerExists")
ArriveLogin(r, e, w) == Arrive(r, "login", e, w, None, {}, "loginFind")
ArriveResend(r, e) == Arrive(r, "resend", e, None, None, Unverified, "resendFind")
ArriveVerify(r, t) == Arrive(r, "verify", None, None, t, consumed, "verifyFind")
StartSeed(r, e, w) == Arrive(r, "seed", e, w, None, {}, "seedUser")

-----------------------------------------------------------------------------
\* Registration: EmailExists, INSERT users, INSERT user_identities, and then
\* the token and the mail.

RegisterExists(r) ==
    /\ pc[r] = "registerExists"
    /\ \/ EmailExists(email[r]) /\ Answer(r, "email_already_exists")
       \/ ~EmailExists(email[r]) /\ Goto(r, "registerUser") /\ UNCHANGED resp
    /\ UNCHANGED <<ids, rows, mailed, call, email, subject, dropped, seeded>>

RegisterUser(r, a) ==
    /\ pc[r] = "registerUser"
    /\ \/ /\ Duplicate(email[r])
          /\ Answer(r, "email_already_exists")
          /\ UNCHANGED <<owner, subject>>
       \/ /\ ~Duplicate(email[r])
          /\ CreateUser(r)
          /\ Proceed(r, a, "registerIdentity")
    /\ UNCHANGED <<idUser, password, verified, rows, mailed, call, email, dropped, seeded>>

RegisterIdentityUpsert(r, a) ==
    /\ pc[r] = "registerIdentity"
    /\ CreateIdentity(r)
    /\ verified' = verified \ {email[r]}
    /\ Proceed(r, a, "tokenCreate")
    /\ UNCHANGED <<owner, rows, mailed, call, email, subject, dropped, seeded>>

RegisterIdentity(r, a) ==
    /\ pc[r] = "registerIdentity"
    /\ \/ /\ HasIdentity(email[r])
          /\ Answer(r, "email_already_exists")
          /\ UNCHANGED <<idUser, password>>
       \/ /\ ~HasIdentity(email[r])
          /\ CreateIdentity(r)
          /\ Proceed(r, a, "tokenCreate")
    /\ UNCHANGED <<owner, verified, rows, mailed, call, email, subject, dropped, seeded>>

-----------------------------------------------------------------------------
\* CreateAndSendToken, for a registration and for a resend.

\* An answer that is lost here still lets the request succeed, without a mail.
TokenCreate(r, a) ==
    /\ pc[r] = "tokenCreate"
    /\ CreateToken(r)
    /\ \/ a = "ok" /\ Goto(r, "tokenSend") /\ UNCHANGED <<resp, dropped>>
       \/ a # "ok" /\ Swallow(r)
    /\ UNCHANGED <<ids, consumed, expired, mailed, call, email, subject, seeded>>

\* The mail provider takes the mail, and it arrives.
TokenSend(r) ==
    /\ pc[r] = "tokenSend"
    /\ mailed' = mailed \cup {r}
    /\ Answer(r, "ok")
    /\ UNCHANGED <<ids, rows, call, email, subject, dropped, seeded>>

ResendFindAny(r) ==
    /\ pc[r] = "resendFind"
    /\ subject' = [subject EXCEPT ![r] = owner[email[r]]]
    /\ \/ owner[email[r]] = None /\ Answer(r, "ok")
       \/ owner[email[r]] # None /\ Goto(r, "tokenCreate") /\ UNCHANGED resp
    /\ UNCHANGED <<ids, rows, mailed, call, email, dropped, seeded>>

ResendFind(r) ==
    /\ pc[r] = "resendFind"
    /\ \/ /\ ~HasIdentity(email[r]) \/ email[r] \in verified
          /\ Answer(r, "ok")
          /\ UNCHANGED subject
       \/ /\ HasIdentity(email[r]) /\ email[r] \notin verified
          /\ subject' = [subject EXCEPT ![r] = idUser[email[r]]]
          /\ Goto(r, "tokenCreate")
          /\ UNCHANGED resp
    /\ UNCHANGED <<ids, rows, mailed, call, email, dropped, seeded>>

-----------------------------------------------------------------------------
\* Verification: find the token, mark it consumed, read the identities of its
\* user, set verified_at.

VerifyFind(r) ==
    /\ pc[r] = "verifyFind"
    /\ \/ token[r] \notin tokens /\ Answer(r, "invalid_token")
       \/ IsConsumed(token[r]) /\ Answer(r, "token_used")
       \/ ~IsConsumed(token[r]) /\ IsExpired(token[r]) /\ Answer(r, "token_expired")
       \/ /\ token[r] \in tokens /\ ~IsConsumed(token[r]) /\ ~IsExpired(token[r])
          /\ Goto(r, "verifyConsume") /\ UNCHANGED resp
    /\ UNCHANGED <<ids, rows, mailed, call, email, subject, dropped, seeded>>

VerifyConsume(r, a) ==
    /\ pc[r] = "verifyConsume"
    /\ MarkConsumed(token[r])
    /\ Proceed(r, a, "verifyRead")
    /\ UNCHANGED <<ids, tokens, holder, expired, mailed, call, email, subject, dropped, seeded>>

\* With no identity of the provider the verification succeeds without
\* verifying anything.
VerifyRead(r) ==
    /\ pc[r] = "verifyRead"
    /\ \/ /\ IdentitiesOf(holder[token[r]]) = {}
          /\ Answer(r, "ok")
          /\ UNCHANGED email
       \/ \E e \in IdentitiesOf(holder[token[r]]) :
             /\ email' = [email EXCEPT ![r] = e]
             /\ Goto(r, "verifyMark")
             /\ UNCHANGED resp
    /\ UNCHANGED <<ids, rows, mailed, call, subject, dropped, seeded>>

VerifyMark(r, a) ==
    /\ pc[r] = "verifyMark"
    /\ UpdateVerifiedAt(email[r])
    /\ Answer(r, a)
    /\ UNCHANGED <<owner, idUser, password, rows, mailed, call, email, subject, dropped, seeded>>

-----------------------------------------------------------------------------

\* The first half of Login, on the one identity row it reads.
LoginFind(r) ==
    /\ pc[r] = "loginFind"
    /\ \/ /\ ~HasIdentity(email[r]) \/ password[email[r]] # word[r]
          /\ Answer(r, "invalid_credentials")
          /\ UNCHANGED subject
       \/ /\ HasIdentity(email[r]) /\ password[email[r]] = word[r]
          /\ \/ email[r] \notin verified /\ Answer(r, "email_not_verified")
             \/ email[r] \in verified /\ Answer(r, "ok")
          /\ subject' = [subject EXCEPT ![r] = idUser[email[r]]]
    /\ UNCHANGED <<ids, rows, mailed, call, email, dropped, seeded>>

-----------------------------------------------------------------------------
\* The seed command: both inserts are upserts.

SeedUser(r, a) ==
    /\ pc[r] = "seedUser"
    /\ owner' = [owner EXCEPT ![email[r]] = IF @ = None THEN r ELSE @]
    /\ subject' = [subject EXCEPT ![r] = owner'[email[r]]]
    /\ Proceed(r, a, "seedIdentity")
    /\ UNCHANGED <<idUser, password, verified, rows, mailed, call, email, dropped, seeded>>

\* On conflict the row keeps its user_id and takes the password.
SeedIdentity(r, a) ==
    /\ pc[r] = "seedIdentity"
    /\ idUser' = [idUser EXCEPT ![email[r]] = IF @ = None THEN subject[r] ELSE @]
    /\ password' = [password EXCEPT ![email[r]] = word[r]]
    /\ verified' = verified \cup {email[r]}
    /\ seeded' = seeded \cup {email[r]}
    /\ Answer(r, a)
    /\ UNCHANGED <<owner, rows, mailed, call, email, subject, dropped>>

-----------------------------------------------------------------------------

\* A call fails before it has an effect.
Fail(r) ==
    /\ Failures
    /\ pc[r] \notin {"idle", "done"}
    /\ \/ pc[r] \in Swallowed /\ Swallow(r)
       \/ pc[r] \notin Swallowed /\ Answer(r, "internal_error") /\ UNCHANGED dropped
    /\ UNCHANGED <<ids, rows, mailed, call, email, subject, seeded>>

\* The process stops, and nothing is answered.
Die(r) ==
    /\ Failures
    /\ pc[r] \notin {"idle", "done"}
    /\ Goto(r, "done")
    /\ UNCHANGED <<ids, rows, mailed, call, email, subject, resp, dropped, seeded>>

Expire(t) ==
    /\ t \in tokens \ expired
    /\ expired' = expired \cup {t}
    /\ UNCHANGED <<ids, tokens, holder, consumed, mailed, call, pc, email, subject, resp, dropped, seeded>>

Step(r) ==
    \/ RegisterExists(r) \/ TokenSend(r) \/ ResendFind(r)
    \/ VerifyFind(r) \/ VerifyRead(r) \/ LoginFind(r)
    \/ \E a \in Applied :
          \/ RegisterUser(r, a) \/ RegisterIdentity(r, a) \/ TokenCreate(r, a)
          \/ VerifyConsume(r, a) \/ VerifyMark(r, a)
          \/ SeedUser(r, a) \/ SeedIdentity(r, a)

\* A client can only present a token that was mailed, or make one up.
Next ==
    \E r \in Req :
        \/ \E e \in Email :
              \/ \E w \in Password :
                    ArriveRegister(r, e, w) \/ ArriveLogin(r, e, w) \/ StartSeed(r, e, w)
              \/ ArriveResend(r, e)
        \/ \E t \in mailed \cup {None} : ArriveVerify(r, t)
        \/ Step(r)
        \/ Fail(r) \/ Die(r)
        \/ Expire(r)

Spec == Init /\ [][Next]_vars

-----------------------------------------------------------------------------

\* The identity of an address belongs to the user of that address, whichever
\* of the registrations and seeds that race for it writes which of the rows.
IdentityOfOwner ==
    \A e \in Email : idUser[e] # None => idUser[e] = owner[e]

\* An address is verified only if the seed command vouched for it, or a token
\* mailed to that very address, for that user, was presented.
OnlyMailboxVerifies ==
    \A e \in verified \ seeded :
        \E t \in consumed \cap mailed : email[t] = e /\ holder[t] = idUser[e]

\* A verification answered with 200 has verified the address of its token, and
\* the token had not been used before it arrived: the last line of VerifyToken,
\* which returns success without an update because the user has no password
\* identity, is never reached, and no token works a second time.
VerifiedWhenToldSo ==
    \A r \in Req :
        op[r] = "verify" /\ resp[r] = "ok" =>
            /\ token[r] \notin noted[r]
            /\ \E e \in verified : idUser[e] = holder[token[r]]

CutShort(r) == pc[r] = "done" /\ resp[r] \in {"none", "internal_error"}

\* A used token has verified its user, or the request that used it is still at
\* work or was cut short between the two updates: only a failure burns a token.
UsedTokenExplained ==
    \A t \in consumed :
        \/ \E e \in verified : idUser[e] = holder[t]
        \/ \E r \in Req :
              /\ op[r] = "verify" /\ token[r] = t
              /\ pc[r] \in {"verifyRead", "verifyMark"} \/ CutShort(r)

\* An address with a user and no identity, which can neither register nor log
\* in, is one whose registration or seed is at work or was cut short.
OrphanExplained ==
    \A e \in Email :
        owner[e] # None /\ idUser[e] = None
            => \E r \in Req :
                  /\ email[r] = e /\ op[r] \in {"register", "seed"}
                  /\ \/ pc[r] \in {"registerIdentity", "seedIdentity"}
                     \/ CutShort(r)

\* handlers.go:180: "Always return success to avoid leaking account existence".
\* A resend that is answered is answered with 200, and yet the answer is true:
\* if the address waited for a verification when the resend arrived, then a mail
\* is out, or it has been verified since, or a failure was dropped.
ResendTruthful ==
    \A r \in Req : op[r] = "resend" /\ resp[r] # "none" =>
        /\ resp[r] = "ok"
        /\ email[r] \in noted[r] => r \in mailed \cup dropped \/ email[r] \in verified

\* The stage of an address, seen without requests and tokens.
stage == [e \in Email |->
            IF e \in verified THEN "verified"
            ELSE IF idUser[e] # None THEN "unverified"
            ELSE IF owner[e] # None THEN "reserved" ELSE "free"]

Lifecycle == INSTANCE AccountLifecycle WITH NoPassword <- None, word <- password

\* The tables implement the life of an address: no step takes it back, and only
\* the seed command replaces a password.
ImplementsLifecycle == Lifecycle!Spec
=============================================================================
