# A verification development of the ALumiEye API server

TLA+ models of the server in `src/`, the TLC runs that check them, and TLAPS
proofs of what matters most.  Paths below are relative to the repository's `src/`.

## 1. The system

A Go HTTP server (chi, fx) over PostgreSQL, with an external market data service
(eyebroker), a mail provider (Resend), and a command that seeds accounts.

| Component | Code | State | Operations | What makes it hard |
|---|---|---|---|---|
| Sessions | `internal/auth/service.go`, `internal/repositories/session.go` | table `auth_sessions`, `last_login_at` | login, refresh, logout | every request is a goroutine; the login is one READ COMMITTED transaction, the rest single statements; rows are read and written by id later; two clocks |
| Accounts | `internal/auth/service.go`, `internal/verification/service.go`, `cmd/seed` | tables `users`, `user_identities`, `email_verification_tokens` | register, verify, resend, login, seed | no operation is a transaction; the seed is another process; failures between statements; mail |
| Database pool | `pkg/db/postgres.go` | the connections in use | take, give back | waiting for a connection while others wait for row locks |
| Access tokens | `internal/auth/tokens.go`, `middlewares/auth.go` | none (the token is the state) | sign, validate | nothing takes a token back; whole seconds; the status was read earlier |
| In-memory limiter | `pkg/ratelimit/inmemory.go` | a map of token buckets | Allow, cleanup | the mutex is released between look-up and bucket; restarts forget the map |
| Redis limiter | `pkg/ratelimit/redis.go` | a sorted set per key | Allow (a script) | clocks of several instances, equal milliseconds, retries |
| Server | `cmd/api/main.go`, `pkg/email`, the ping of `pkg/db` | the process | start, serve, stop | five deadlines, mail without one |
| HTTP chain | `middlewares/`, `routes/`, the handlers | the response being written | one request, in and out | what is logged and answered when a handler panics |
| E-mail addresses | `internal/auth/types.go`, `normalizeEmail` | none | validate, normalise | blanks, capitals and boundaries |
| Market data | `internal/signals`, `internal/positions`, their repositories | none | list, get | paging while the list changes, failures upstream |
| Configuration | `internal/config` | `Config` | Load | four sources, nothing is ever reported |
| Password hashing, migration tool, API documentation, HTTP client helper | `internal/platform/crypto/password.go`, `cmd/migrate`, `docs`, `pkg/httpclient` | | | not modelled, see below |

How they interact: a request passes the middlewares (Http), where a limiter
stands before each public endpoint and the token check before each protected
one.  A login starts in Accounts (password and verified address), goes on in
Sessions (session and refresh token), over the pool, and ends in AccessTokens.
The handlers of market data call eyebroker; registration and resend call the mail
provider inside the request.  Server is about all requests, whatever they do, and
Config about what all of them are configured with.  `PooledSessions` extends
`Sessions`, and `Http` extends `EmailAddress`; the other modules share no
variables: each starts from what the one before hands over, which the header of
the module says.

Properties that make each part correct, and the hazards they answer, are listed
with their lines under `hazards` in `PROJECT.json`.

## 2. The modules

| Module | What it is |
|---|---|
| `SessionRegistry` | abstract: what `auth_sessions` promises, without requests or transactions |
| `Sessions` | login, refresh, logout; refines `SessionRegistry` |
| `PooledSessions` | `Sessions` over a bounded pool of connections |
| `AccountLifecycle` | abstract: the life of an e-mail address |
| `Accounts` | register, verify, resend, login, seed; refines `AccountLifecycle` |
| `AccessTokens` | signing, validating, blocking, with a clock |
| `Bucket` | abstract: one token bucket kept for ever |
| `InMemoryLimiter` | the map, the mutex and the cleanup goroutine; refines `Bucket` |
| `RedisLimiter` | the script, the clocks |
| `Server` | starting, serving and stopping, with deadlines |
| `EmailAddress`, `Http` | operators on addresses; one request through the middlewares |
| `Market` | query checks, forwarding, a client that pages |
| `Config` | Load, step by step |
| `SessionsProofs`, `AccountsProofs`, `AccessTokensProofs`, `InMemoryLimiterProofs`, `RedisLimiterProofs`, `ServerProofs`, `HttpProofs`, `MarketProofs` | theorems about the modules they are named for; `SessionsProofs` also about `PooledSessions`, `ServerProofs` also about `Config` |
| `MC*` | for TLC: five of these with their symmetry, and `PooledSessions` with a first session and a bound on what changes around it; the others are run as they are |

`map` in `PROJECT.json` names the lines each definition stands for.

### State and actions

*Sessions.*  A request has a program counter that names the database call it
makes next; one action is one call together with the Go code up to the next.
Rows are sets: `stored`, `revoked`, and `hash` for the refresh token.  A row has
run out by the clock of PostgreSQL (`expired`, which the filters of SQL use) or by
that of the server (`outdated`, which `IsExpired` uses); `ClocksAgree` makes them
the same.  `stamp` is `last_login_at`.  A session and a token are named by the
request that creates them.  The login transaction is `LoginBegin` (BEGIN and the
snapshot of the UPDATE: `target`), `LoginRevoke` (the UPDATE returns when it holds
the locks of `target`) and `LoginCommit` (INSERT and COMMIT).  `Fail` is a call
that fails before it has an effect; an effect whose answer is lost is the answer
`internal_error` of the action itself.  `noted`, `barred` and `lapsed` are history.

*PooledSessions.*  `conn` are the requests that hold a connection.  A single
statement gives it back when it returns; the login keeps its own from BEGIN to
COMMIT or ROLLBACK.  `Acquire` hands a free one to any of the waiters.

*Accounts.*  The same shape as Sessions, one action per statement.  `Proceed` is
what follows a statement that took effect.  `Swallowed` are the calls whose
failure the client does not hear of, `dropped` the requests it happened to.
A process that stops between two statements is a request that fails there.
`mailed` are the tokens that reached a mailbox; a client can present only these,
or one it made up.

*AccessTokens.*  A grant (login or refresh) arrives, reads the status, signs and
writes; a use presents a delivered token.  `late` records how long its user had
been blocked.  `exp` is in seconds, the clock in ticks of 1/`Sec` second.

*InMemoryLimiter.*  `Lookup` is the half of `Allow` under the mutex, `Take` the
other half; `Sweep` a round of the cleanup goroutine; `Restart` forgets the map.
`Stall` bounds the time between the halves.  *RedisLimiter.*  `Call` reads a
clock, `Script` runs; `AnswerLost` is a script that ran without the client
hearing of it, which may run again.  `Skew` and `Delay` bound how far clocks are
apart and how long a call is under way.

*Server.*  The process is `starting` until the ping of the database is answered
(`Connect`) or fails (`StartFails`).  A request works (in the database, or at
eyebroker), sends mail if it is of that kind, and replies.  `phase` is where the
process is on its way down; `crashed` is an exit without the hooks
(`ListenerFails` is the `log.Fatal` of the listener).

*Http.*  `layer` is the middleware or handler the request is in, `mode` whether it
is on its way in, on its way out, or unwinding the stack in a panic.  There is an
action for what each layer does on the way in (`TraceID`, `CORS`, `Wrap`, `Guard`,
and `Refuse`, `Serve` and `Panic` of a handler) and on the way out (`Recover`,
`Complete`).  `status` and `wroteHeader` are the `responseWriter` of Logging, which
only the layers inside of it see; `sent` is what is on the wire.

*Market.*  `Handle` checks and forwards; `ListAnswered`, `GetAnswered` and
`CallFails` are the outcomes of the call; `walk` is a client that pages by
offset, while eyebroker adds items (`Add`) and closes positions (`Close`).  The rank
of an item is how many that match stand up to it in eyebroker's list; a page is
the set of the items whose ranks `offset` and `limit` span, since the order within a
page makes no difference to what the client has seen.

*Config.*  `Give` puts a value in the environment, in `.env` or in one of two YAML
files; then `Load` runs: `LoadDotenv`, `ReadFile`, `ReadEnvironment` (`step` says which
is next).

### Abstractions

* Platform is always "web"; user agent and IP address are left out.
* A lock wait takes all its locks at once; a deadlock that PostgreSQL breaks is a `Fail`.
* Random tokens never collide; hashes are injective; passwords are compared as such.
* Each limiter is about one key: entries of different keys never meet.
* How many idle connections the pool keeps, and how long one lives, is left out:
  it changes only how fast a connection is had.
* In `Server` a tick is five seconds: ping 5 s, eyebroker 10 s, write timeout
  15 s, Shutdown 30 s, fx 15 s (its default).  Handlers compute in no time.
* An address is a sequence over five characters: blank, dot, at sign, a capital,
  and any other.  A text of the configuration can only be told from others.
* `Http` takes what a limiter, the token check or a service decides as a choice;
  `RealIP`, which changes only the address the limiter and the log see, is left out.
* External, modelled from how the code uses them: PostgreSQL's locks and isolation,
  `database/sql`, `golang.org/x/time/rate`, Redis, the JWT library, `net/http`, fx,
  eyebroker, the mail provider, the administrator who blocks users by SQL.

### Not modelled

* *Password hashing* is a pure function (Argon2id with a salt, encoded as text)
  with no state and no failure its callers tell apart; the models compare
  passwords, which is what `VerifyPassword` does for its callers.
* *The migration tool* parses its arguments and makes one call of golang-migrate,
  which holds the version table and its locks.  Nothing of this repository has a
  state there.
* *The API documentation* is generated, and `pkg/httpclient` has no caller.
* Repository methods no code calls (`RevokeAllForUser`, `UpdateLastUsed`,
  `UpdatePasswordHash` and a few more, named in `PROJECT.json`) are steps the
  program never takes.
* The width of `ip_address` (section 6) is a matter of the length of strings.

### Faulty variants

Some definitions are preceded by a variant of themselves with a plausible bug (a
dropped filter, a check that is made too late, a wrong bound).  Nothing in the
models uses them.  `mutants` in `PROJECT.json` says which property notices which
variant when it takes the place of the definition: it is the test of the tests.

## 3. The runs

Each run has a `.cfg` of its name.

| Run | Shows |
|---|---|
| `SessionsRaces` | two users, three requests in any order and overlap, with failures, expiry by two clocks and blocking: a token stands for one session; a session revoked before a refresh arrived is not refreshed; two active sessions of a user need overlapping logins or an expired session; the stored token was sent to a client unless a 500 was; a logged-out token is dead; blocked users get nothing; only one's own sessions end; `last_login_at` is not set back; `SessionRegistry` is implemented |
| `PooledSessions` | a user with a session, and three more requests that share two connections: no failure loses one, and every request is answered, though those that wait for row locks hold connections that others wait for |
| `SessionsTwoLogins` | **violated**: overlapping logins leave two sessions |
| `SessionsLogoutRace` | **violated**: a logout that meets a refresh ends nothing |
| `AccountsRaces` | two addresses, two passwords, three requests: the identity belongs to the owner; success means verified; a used token has verified, and only failures burn one or leave an orphan; only a token mailed to an address verifies it; a resend says the truth but for dropped failures; `AccountLifecycle` is implemented |
| `LimiterBound` | the limiter admits no more and refuses no more than one bucket kept for ever, which it implements; a restart adds one burst |
| `RedisClocks` | with clocks that differ by `Skew` and scripts delayed by `Delay`, at most Limit milliseconds are counted in a window shortened by both; who is refused met Limit milliseconds of other calls in a window lengthened by both, or one less if its own first run was counted and its answer lost |
| `AccessTokensBlocked` | a blocked user is locked out within token lifetime + write timeout; `expires_in` is honest |
| `ServerStop` | the database outlives the handlers; market requests are answered in time even if eyebroker is silent during a stop; the exit cuts only what was waited for; the start ends, and the process that is told to stop exits |
| `HttpChain` | every request but a preflight is logged once, with the status its client was sent, panics included; every answer has its trace and CORS headers; 5xx is sent for faults of the server and for nothing else; exactly the addresses may register |
| `MarketWalk` | paging by offset misses at most one item for each that dropped out of the list, and sees only what was asked for |
| `ConfigLoad` | the environment wins; what the file sets takes effect; of a half-read file the sections app, server and logging take effect together or not at all; lifetimes are positive |

The violated properties are quoted from comments; `findings` in `PROJECT.json`
has the two sides of each.

### Bounds

* Sessions: three requests of two users.  A violation of these properties needs a
  login to create the session and one or two requests that interfere with it;
  `SessionsProofs` covers every number.  In the two violated runs nothing fails
  and the clocks agree, so that the counterexamples are races and nothing else.
* PooledSessions: one user, four requests and two connections, without symmetry
  (it is not sound for liveness).  A row lock needs a session, so the first request
  creates one before the others arrive (`FirstComesFirst`); of these, a login can
  then hold the lock of its row, a logout or a refresh wait for it with the other
  connection, and a third request wait for a connection.  Any call may fail; one
  session may run out, or the user be blocked, once (`MaxChanges`), and tokens that
  were never issued are not presented (`TokensAreIssued`): neither has a bearing on
  who waits, and `SessionsRaces` has both without a bound.
* Accounts: three requests: registration, resend and verification, or
  registration, verification and login, or a seed in the place of any of them,
  and two registrations and a seed of one address.
* LimiterBound: Limit 2, one token every 2 ticks, 11 ticks, one restart: the
  cleanup (every two windows) runs and the bucket is used before and after.
  `Stall` is 2, half a window: a goroutine that sleeps between look-up and bucket
  for more than that is outside of the run, and for more than a window outside
  of the theorems.
* Redis: four calls, Limit 2, Window 5, `Skew` 1 and `Delay` 1, seven ticks: the
  shortened window is 3, in which Limit + 1 milliseconds fit, and the key expires
  within the run.
* AccessTokens: two ticks to the second, TTL two seconds, seven ticks: a token is
  signed off a second's boundary, and expires within the run.
* Server: two requests, seven ticks: enough for a request read before the stop to
  see every deadline.  `Signal` is taken only when the stop can still end before
  `MaxTime`, so the clock never cuts a stop short.
* Http: every route, and every address of up to 7 characters where `MaxLength` is 6
  (254 in the code); everything else about a request is finite.
* Market: three items in two markets, pages of one or two; every limit from -1 to
  one beyond the maximum.
* Config: three values given at once, of eight settings and keys of every kind
  (`Studied`); a duration counts two units to the number in an int64 of ten values,
  so that 3 of them overflow.

Deadlock is checked for Sessions, PooledSessions, Http and Market.  Elsewhere the
supply of requests is finite, the clock is bounded, or the server starts once, and
a state without a next step is the end of the run.

### Fairness

`PooledSessions!Fairness` is weak fairness for what each request does next: the
steps of one that holds a connection (the Go scheduler runs its goroutine, and
PostgreSQL answers), or its `Acquire` (a connection that stays free goes to
whoever keeps waiting).  It
has none for arrivals, failures, expiry or the administrator.  A connection that
is handed to somebody else again and again could keep one waiter from ever getting
it; here the requests that can come before it are finitely many.
`Server!FairSpec` has weak fairness for the end of the ping, handlers, the stop
hooks, fx and the clock, and **not** for the mail provider: nothing makes it
answer.

## 4. The proofs

Every theorem is for all values of the constants that satisfy the `ASSUME`s of the
modules (constants are numbers where numbers are meant, units of time and limits
are positive, `None` is none of the ids, and a key that is absent is no number and
no flag), which TLC evaluates in every run.
Assumptions beyond these are hypotheses of the theorem.  Few of the properties are
inductive by themselves; what is added, and why, follows.

**`SessionsProofs`** — `TypesHold`, `TokensHold`, `ClientsKeepTokens`, `LogoutsHold`,
`ChecksHold`, `BlocksHold`, `TwoSessionsExplained`, `RevocationsExplained`, `StampsHold`
for the invariants of the run; `AloneHolds`: with `~Overlap` and `ClocksAgree`, the
single session and the effective logout, which the two violated runs refute of
overlapping requests; `RegistryImplemented`, the refinement.  `IInv` adds what a
request in the middle of its work knows: that a token in the table, or presented,
was drawn by a request that is done (so a token about to be drawn is fresh, which
carries `OneSessionPerToken` and the refinement), whose session a refresh or a
logout has read, which sessions a login that has taken its snapshot is going to
revoke (`Successor`, `Reasons`), and who wrote `last_login_at` (`Stamps`).  One lemma
per part and one step per action.

Of the pool: `PoolImplementsSessions`: whatever happens over a pool is a behaviour of
`Sessions`, so all of the above holds over a pool of any size; `ConnectionsHold`: the
bound is kept, no failure loses a connection, and whoever holds the locks of a
transaction has a connection (`LockersConnected`).  `SomebodyMoves` draws the
conclusion: while a request is in progress, there is one that neither a row lock
nor the pool holds up (`NotAllWait`), so requests never wait in a circle.

**`AccountsProofs`** — `IdentitiesHold`, `MailboxHolds`, `VerificationsHold`,
`UsedTokensHold`, `OrphansHold`, `ResendsHold`, `LifecycleImplemented`.  `Base` is the
heart: a user is named by the request that wrote its row for the address of that
request, so two addresses never share one (`OwnersAreRequests`); a request that has
a user in hand holds that of its address (`SubjectsOwn`); a token is held by the
user of the address it was mailed to (`TokensOwn`).  `Kept` and `Caused` add what never
goes away, and who used a token or left an address without an identity.

**`AccessTokensProofs`** — `LockedOut`, `LifetimeHonest`.  A grant that got past the
check of the status read it after its request was read (`StatusIsRecent`), so a
block of its user came later; the token it signs expires no later than its
lifetime after the signing, and no more than a second earlier (`TokensExpire`);
and it is delivered only if it was signed before the write deadline
(`FromDelivered`).

**`InMemoryLimiterProofs`**, under `StallIsShort` (a call stays between its halves for
at most a window) — `BucketImplemented`: an entry the cleanup removes has not been
used for a window, so its bucket is full like a new one (`EntryIsRecent`), and a
call that still holds it is not so old (`CallsHoldEntry`).  `AdmissionsBounded` and
`RefusalsHold` follow an account of the bucket: what it holds and what was taken
since any time are at most what it held then and was given since (`Balance`); and
at some time it was full and has wasted nothing since (`Thrifty`).

**`RedisLimiterProofs`**, for every skew and delay — `LimitHolds`, `RefusalsHold`.  A
time that was counted stays in the set until it is a window old by the clock
furthest ahead (`CountedKept`), and the key never expires before its members
would be dropped (`MembersCounted`).  A member of the set at a refusal is the time
of a call that was counted, and at most one of them is that of the refused call
itself, which is the exception `RefusalJustified` makes for a call sent again.

**`ServerProofs`**, under `DeadlinesOrdered` (eyebroker's timeout is shorter than the
write timeout and than that of fx, which is shorter than Shutdown's wait) —
`DatabaseHolds`, `MarketHolds`, `CutsHold`.  No timer that is due lets the clock pass
(`TimersRun`), and as fx ends the process before Shutdown gives up, the database is
closed only after the last request (`Drained`).

**`HttpProofs`** — `AddressesHold`, for e-mails of any length: `isValidEmail` accepts
exactly the addresses, and normalising an address gives an address that
normalising leaves alone.  The lemmas say what `First`, `Last`, `Trim` and `ToLower`
return.  `LogsHold`, `HeadersHold` and `BlamesHold` are about the chain, and one
invariant carries them (`Chain`): in which layers a request can be that enters,
leaves or panics (`Place`); that the headers are set before anybody can answer
(`HeadersSet`); that Logging knows what is sent, because all who answer but CORS are
inside of it, and what is sent first is all that is sent (`Answered`); and whom a
status blames (`Blamed`).

**`MarketProofs`**, for lists of any length and pages of any size — `MissesHold`,
`SeesHold`, and `GrowingListsAreSeen` for a list nothing dropped out of.  The
lemmas are about ranks: those of the items that match are different numbers from 1
to how many match (`RankIs`, `RanksDiffer`), so a page is no longer than its limit
(`PageSize`), and moving the offset by the length of a page skips nothing that was
not on it (`PageReaches`).  Adding an item keeps the order of the others
(`AddKeeps`), so nothing slips before the offset (`RanksRise`); an item that drops
out lowers ranks by one, so at most one does (`RanksFall`).  The invariant is then
that of what was due, no more items before the offset are missing from what was
seen than have dropped out (`Behind`), of a page on its way as of one that was
taken (`Arriving`).

**`ServerProofs`, about Config** — `EnvironmentOutranks`, `FileHeeded`, `SectionsHold`,
`LifetimesHold`, for any texts and numbers given in all places at once and any width
of a duration.  What is given does not change while `Load` runs, so the invariant
(`Loading`) says of each step what `Config` is as a function of it: `FromFile`, and over
it `FromEnvironment`.  `FileLifetimeIgnored` says exactly when the line
`conn_max_lifetime_minutes` counts (section 6).

Only model-checked: liveness (`EveryRequestAnswered`, `StartAndStopEnd`), which rests
on fairness and is out of this prover's reach.  `SomebodyMoves` and `TimersRun` are the
safety half of the two.  Every invariant and action property the runs check, the
two violated ones aside, is proved.

## 5. What is left

* A composition of Accounts, Sessions and AccessTokens: from registration to a
  protected endpoint.  Each of the three starts from what the one before hands
  over; what crosses the borders (a user who is verified, a session) is only
  named in their headers.
* `PooledSessions` with two users and more connections, and with the requests of
  Accounts in the same pool.

## 6. Noticed while reading

* `README.md` shows tokens in the answer to a registration; the code answers with
  a message only (`internal/auth/service.go:107`).
* `conn_max_lifetime_minutes` of `config.yml` takes effect only where the
  environment sets a number that is not positive: `internal/config/config.go:159`
  defaults to 5 whatever the file says.  `FileTakesEffect` excepts it, and
  `FileLifetimeIgnored` is the proof.
* `.env.example:4–5` sets `APP_ENV` and `LOG_FORMAT`; the code takes both from
  `config.yml` only.
* `ip_address VARCHAR(45)` holds an address without a port;
  `internal/auth/handlers.go:298` stores one with a port.  A full IPv6 address with
  its port does not fit.
* The in-memory limiter admits a full bucket and its refill, up to 2 Limit - 1
  requests in one window, where `pkg/ratelimit/ratelimit.go:17` speaks of "max
  requests allowed per window".  `BurstPlusRate` is what it does keep.
* `pkg/ratelimit/redis.go:36` says "Accurate across multiple instances/pods";
  `AtMostLimitStamps` needs a window shortened by the skew of their clocks, and
  counts requests of one millisecond once: they are one member of the set.
* A call of the Redis limiter whose answer is lost, and which go-redis sends again,
  may be refused because of itself: its member is already in the set, and the script
  compares ZCARD with the limit before ZADD, which would not add it twice
  (`pkg/ratelimit/redis.go:26`).  With a limit of 1 every such call is refused.
  `RefusalJustified` names the exception.
* One mistyped number in `config.yml` takes the sections app, server and logging
  out of effect, and not email and database (`internal/config/config.go:122`), which
  are read from what could be parsed.
* A registration that fails between its statements leaves a user without an
  identity, and the address is refused as already registered from then on
  (`OrphanExplained`).
* A resend answers "a verification email has been sent" also when an unverified
  account was found and its mail failed (`internal/auth/handlers.go:178`).
* The mail is sent with `http.DefaultClient`, which has no timeout, before the
  answer: a provider slower than the write timeout costs the client its answer
  (`pkg/email/resend_sender.go:73`).
* Paging by offset skips an item when one before it leaves the filter
  (`internal/positions/handler.go:111`); `WalkMissesFew` says how many at most.
* `/api/v1/users/{id}` answers 200 for every id; its documentation has a 404
  (`routes/router.go:116`).
