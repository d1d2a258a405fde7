----------------------------- MODULE ServerProofs -----------------------------
(***************************************************************************)
(* For any number of requests and any deadlines in the order of those of   *)
(* the server: the database outlives the requests, eyebroker's silence     *)
(* leaves nobody without an answer, and a stop cuts only what it has       *)
(* waited for as long as it can.  And whatever settings are given, in all  *)
(* the places they can be: which of them the server starts with.           *)
(***************************************************************************)
EXTENDS Server, Config, TLAPS

LEMMA DeadlinesAreNumbers ==
    /\ PingTimeout \in Nat /\ Upstream \in Nat /\ WriteTimeout \in Nat
    /\ Grace \in Nat /\ StopTimeout \in Nat /\ MaxTime \in Nat
  BY ServerAssumption

USE DeadlinesAreNumbers

\* The order of the deadlines: config.go and main.go give eyebroker 10 seconds,
\* an answer 15, fx its default of 15, and Shutdown 30.
DeadlinesOrdered ==
    Upstream < WriteTimeout /\ Upstream < StopTimeout /\ StopTimeout < Grace

\* The times that are noted have passed, and no timer is overdue.
TimersRun ==
    /\ stopAt <= now
    /\ Stopping => now <= stopAt + StopTimeout
    /\ \A r \in Req :
          /\ readAt[r] <= now
          /\ kind[r] = "market" /\ InProgress(r) => now <= readAt[r] + Upstream
          /\ Stopping /\ InProgress(r) => readAt[r] <= stopAt

\* Whatever a request does, it does of a kind.
KindsKnown == \A r \in Req : InProgress(r) => kind[r] \in Kinds

\* Before it listens, and from the moment Shutdown returns, the process has no
\* request in progress.
Drained == phase \in {"starting", "closing", "closed", "down"} => \A r \in Req : ~InProgress(r)

\* Requests are cut by the exit, and only by it.
CutsAreLast ==
    \A r \in Req : resp[r] = "cut" =>
        phase = "down" /\ (crashed \/ endedAt[r] - stopAt >= StopTimeout)

IInv == TypeOK /\ KindsKnown /\ TimersRun /\ Drained /\ CutsAreLast /\ MarketAnswered

-----------------------------------------------------------------------------

LEMMA InitInv == Init => IInv
<1> SUFFICES ASSUME Init PROVE IInv
  OBVIOUS
<1> USE DEF Init, InProgress, Stopping, Time
<1>1. TypeOK
  <2>1. crashed \in BOOLEAN /\ (crashed => phase = "down")
    BY Zenon
  <2> QED
    BY <2>1 DEF TypeOK
<1>2. KindsKnown /\ TimersRun /\ Drained
  BY DEF KindsKnown, TimersRun, Drained
<1>3. CutsAreLast /\ MarketAnswered
  BY DEF CutsAreLast, MarketAnswered
<1> QED
  BY <1>1, <1>2, <1>3 DEF IInv

\* Start-up touches no request.
LEMMA StartStep ==
    ASSUME IInv, Connect \/ StartFails
    PROVE  IInv'
<1> USE DEF IInv, TypeOK, InProgress, Stopping, Connect, StartFails, Time
<1>1. TypeOK'
  <2>1. CASE Connect
    BY <2>1
  <2>2. CASE StartFails
    <3>1. crashed' \in BOOLEAN /\ phase' = "down"
      BY <2>2, Zenon
    <3>2. \A r \in Req : ~InProgress(r)'
      BY <2>2, SMT DEF Drained
    <3> QED
      BY <2>2, <3>1, <3>2
  <2> QED
    BY <2>1, <2>2
<1>2. KindsKnown' /\ TimersRun' /\ Drained'
  BY DEF KindsKnown, TimersRun, Drained
<1>3. CutsAreLast' /\ MarketAnswered'
  BY DEF CutsAreLast, MarketAnswered
<1> QED
  BY <1>1, <1>2, <1>3

LEMMA AcceptStep ==
    ASSUME IInv, NEW r \in Req, NEW k \in Kinds, Accept(r, k)
    PROVE  IInv'
  BY SMT DEF Accept, Goto, IInv, TypeOK, KindsKnown, TimersRun, Drained, CutsAreLast,
         MarketAnswered, InProgress, Stopping, Time, Kinds

LEMMA WorkStep ==
    ASSUME IInv, NEW r \in Req, WorkEnds(r) \/ MailEnds(r)
    PROVE  IInv'
  BY SMT DEF WorkEnds, MailEnds, Goto, IInv, TypeOK, KindsKnown, TimersRun, Drained, CutsAreLast,
         MarketAnswered, InProgress, Stopping, Time, Kinds

\* An answer on market data is written before the write deadline.
LEMMA ReplyStep ==
    ASSUME DeadlinesOrdered, IInv, NEW r \in Req, Reply(r)
    PROVE  IInv'
  BY SMT DEF Reply, Goto, DeadlinesOrdered, IInv, TypeOK, KindsKnown, TimersRun, Drained,
         CutsAreLast, MarketAnswered, InProgress, Stopping, Time, Kinds

\* Shutdown gives up too late to be the end: fx has ended the process by then.
LEMMA StopStep ==
    ASSUME DeadlinesOrdered, IInv, Signal \/ ShutdownReturns \/ CloseDatabase
    PROVE  IInv'
<1> USE DEF IInv, TypeOK, InProgress, Stopping, Time
<1>1. CASE Signal
  BY <1>1 DEF Signal, KindsKnown, TimersRun, Drained, CutsAreLast, MarketAnswered
<1>2. CASE ShutdownReturns
  BY <1>2 DEF ShutdownReturns, DeadlinesOrdered, KindsKnown, TimersRun, Drained, CutsAreLast,
              MarketAnswered
<1>3. CASE CloseDatabase
  BY <1>3 DEF CloseDatabase, KindsKnown, TimersRun, Drained, CutsAreLast, MarketAnswered
<1> QED
  BY <1>1, <1>2, <1>3

\* What the exit cuts has taken longer than eyebroker may.
LEMMA ExitStep ==
    ASSUME DeadlinesOrdered, IInv, Exit
    PROVE  IInv'
  BY SMT DEF Exit, MayExit, Die, DeadlinesOrdered, IInv, TypeOK, KindsKnown, TimersRun, Drained,
         CutsAreLast, MarketAnswered, InProgress, Stopping, Time, Kinds

LEMMA CrashStep == IInv /\ ListenerFails => IInv'
  BY SMT DEF ListenerFails, Die, IInv, TypeOK, KindsKnown, TimersRun, Drained, CutsAreLast,
         MarketAnswered, InProgress, Stopping, Time, Kinds

LEMMA TickStep == IInv /\ Tick => IInv'
  BY SMT DEF Tick, WithinTimeout, IInv, TypeOK, KindsKnown, TimersRun, Drained, CutsAreLast,
         MarketAnswered, InProgress, Stopping, Time, Kinds

LEMMA InvStep ==
    ASSUME DeadlinesOrdered, IInv, [Next]_vars
    PROVE  IInv'
<1>1. CASE UNCHANGED vars
  BY <1>1, SMT DEF vars, IInv, TypeOK, KindsKnown, TimersRun, Drained, CutsAreLast,
         MarketAnswered, InProgress, Stopping
<1>2. CASE \E r \in Req : (\E k \in Kinds : Accept(r, k)) \/ Step(r) \/ MailEnds(r)
  BY <1>2, AcceptStep, WorkStep, ReplyStep DEF Step
<1>3. CASE Connect \/ StartFails \/ ListenerFails
  BY <1>3, StartStep, CrashStep
<1>4. CASE Signal \/ ShutdownReturns \/ CloseDatabase \/ Exit
  BY <1>4, StopStep, ExitStep
<1>5. CASE Tick
  BY <1>5, TickStep
<1> QED
  BY <1>1, <1>2, <1>3, <1>4, <1>5 DEF Next

LEMMA InvHolds == ASSUME DeadlinesOrdered PROVE Spec => []IInv
<1>1. IInv /\ [Next]_vars => IInv'
  BY InvStep
<1> QED
  BY <1>1, InitInv, PTL DEF Spec

-----------------------------------------------------------------------------

\* No handler finds the database closed under it, if fx is less patient than
\* Shutdown: neither the hooks nor their order are enough, for Shutdown may
\* give up before the requests are done.
THEOREM DatabaseHolds ==
    ASSUME DeadlinesOrdered
    PROVE  Spec => []DatabaseOutlivesRequests
<1>1. IInv => DatabaseOutlivesRequests
  BY DEF IInv, Drained, DatabaseOutlivesRequests
<1> QED
  BY <1>1, InvHolds, PTL

\* A silent eyebroker, a stop and the write deadline together leave no request
\* for market data without an answer, unless the process crashes.
THEOREM MarketHolds ==
    ASSUME DeadlinesOrdered
    PROVE  Spec => []MarketAnswered
<1>1. IInv => MarketAnswered
  BY DEF IInv
<1> QED
  BY <1>1, InvHolds, PTL

\* A stop cuts only requests it has waited for as long as fx lets it.
THEOREM CutsHold ==
    ASSUME DeadlinesOrdered
    PROVE  Spec => []OnlyLongRequestsAreCut
<1>1. IInv => OnlyLongRequestsAreCut
  BY DEF IInv, CutsAreLast, OnlyLongRequestsAreCut
<1> QED
  BY <1>1, InvHolds, PTL

-----------------------------------------------------------------------------
(***************************************************************************)
(* Config.  What is given does not change while Load runs, so that each of *)
(* its steps leaves behind a function of what is given and of the one      *)
(* before: the invariant says which.                                       *)
(***************************************************************************)

\* Each variable of the environment is the process's own, or else one of .env.
EnvironmentRead ==
    \A k \in EnvKeys :
        /\ Says("process", k) # Absent => env[k] = Says("process", k)
        /\ env[k] \in {Says("process", k), Says(".env", k)}

FromFile(s) == IF Taken(configPath, s) THEN Value(s, Says(configPath, s)) ELSE Defaults[s]

FromEnvironment(s) ==
    CASE s = "DatabaseURL" -> IF IsGiven(env[s]) THEN env[s] ELSE buildDatabaseURL
      [] s \in Defaulted -> getEnv(s)
      [] s = "EyebrokerAPIURL" -> IF IsGiven(env[s]) THEN env[s] ELSE FromFile(s)
      [] s \in PoolSizes -> getEnvAsInt(s, FromFile(s))
      [] s = "DBConnMaxLifetime" ->
            IF getEnvAsInt(s, 2) > 0 THEN Duration(getEnvAsInt(s, 2)) ELSE FromFile(s)
      [] OTHER -> FromFile(s)

Loading ==
    /\ step \in {"setup", "dotenv", "file", "environment", "ready"}
    /\ step # "setup" => EnvironmentRead
    /\ step \in {"setup", "dotenv", "file"} => cfg = Defaults
    /\ step = "environment" => cfg = [s \in Settings |-> FromFile(s)]
    /\ step = "ready" => cfg = [s \in Settings |-> FromEnvironment(s)]

LEMMA SourcesSame ==
    ASSUME UNCHANGED <<given, lost, env>>
    PROVE  /\ EnvironmentRead <=> EnvironmentRead'
           /\ \A s : FromFile(s)' = FromFile(s)
           /\ \A s : FromEnvironment(s)' = FromEnvironment(s)
<1>1. EnvironmentRead <=> EnvironmentRead'
  BY DEF EnvironmentRead, Says
<1>2. \A s : FromFile(s)' = FromFile(s)
  BY DEF FromFile, Taken, configPath, Mistyped, Says
<1>3. \A s : FromEnvironment(s)' = FromEnvironment(s)
  BY <1>2 DEF FromEnvironment, getEnv, getEnvAsInt, buildDatabaseURL
<1> QED
  BY <1>1, <1>2, <1>3

LEMMA StepLoading == Loading /\ [LoadNext]_loadVars => Loading'
<1> SUFFICES ASSUME Loading, [LoadNext]_loadVars PROVE Loading'
  OBVIOUS
<1> USE DEF Loading
<1>1. ASSUME NEW p \in Places, NEW v \in Values(p[2]), Give(p, v)
      PROVE  Loading'
  BY <1>1 DEF Give
<1>2. CASE Start
  BY <1>2 DEF Start, EnvironmentRead, Says
<1>3. CASE LoadDotenv
  BY <1>3 DEF LoadDotenv, Dotenv, EnvironmentRead, Says
<1>4. CASE ReadFile
  BY <1>4 DEF ReadFile, EnvironmentRead, Says, FromFile, Taken, configPath, Mistyped
<1>5. CASE ReadEnvironment
  <2>1. /\ UNCHANGED <<given, lost, env>> /\ step' = "ready" /\ EnvironmentRead
        /\ \A s \in Settings : cfg[s] = FromFile(s)
    BY <1>5 DEF ReadEnvironment
  <2>2. cfg' = [s \in Settings |-> FromEnvironment(s)]
    BY <1>5, <2>1 DEF ReadEnvironment, FromEnvironment, PoolSize
  <2>3. cfg' = [s \in Settings |-> FromEnvironment(s)']
    BY <2>1, <2>2, SourcesSame
  <2> QED
    BY <2>1, <2>3, SourcesSame
<1>6. CASE UNCHANGED loadVars
  <2>1. UNCHANGED <<given, lost, env, cfg, step>>
    BY <1>6 DEF loadVars
  <2>2. /\ [s \in Settings |-> FromFile(s)]' = [s \in Settings |-> FromFile(s)]
        /\ [s \in Settings |-> FromEnvironment(s)]' = [s \in Settings |-> FromEnvironment(s)]
    BY <2>1, SourcesSame
  <2> QED
    BY <2>1, <2>2, SourcesSame
<1> QED
  BY <1>1, <1>2, <1>3, <1>4, <1>5, <1>6 DEF LoadNext

LEMMA LoadHolds == LoadSpec => []Loading
<1>1. LoadInit => Loading
  BY DEF LoadInit, Loading
<1> QED
  BY <1>1, StepLoading, PTL DEF LoadSpec

LEMMA Loaded ==
    ASSUME Loading, step = "ready"
    PROVE  EnvironmentRead /\ \A s \in Settings : cfg[s] = FromEnvironment(s)
  BY DEF Loading

\* The environment of the process outranks .env and the file, for every
\* setting it can make (Load reads it last, and godotenv keeps what is there).
THEOREM EnvironmentOutranks == LoadSpec => []EnvironmentWins
<1>1. Loading => EnvironmentWins
  BY Loaded, ConfigAssumption
     DEF EnvironmentWins, EnvironmentRead, FromEnvironment, EnvSettings, Settings, PoolSizes,
         Defaulted, getEnv, getEnvAsInt, IsGiven, EnvKeys
<1> QED
  BY <1>1, LoadHolds, PTL

\* What the file says and the environment does not takes effect: sections app,
\* server and logging of a file that is well typed, and sections email and
\* database of any (Load, and getEnvAsInt with what the file said).
THEOREM FileHeeded == LoadSpec => []FileTakesEffect
<1>1. Loading => FileTakesEffect
  BY Loaded, ConfigAssumption
     DEF FileTakesEffect, Sets, InEffect, Sections, Checked, FromEnvironment, FromFile, Taken,
         Mistyped, Value, FileKeys, EnvKeys, EnvSettings, Settings, Numbers, Durations,
         ServerTTLs, AppTexts, PoolSizes, Defaulted, getEnvAsInt, IsGiven, IsPositive
<1> QED
  BY <1>1, LoadHolds, PTL

\* The sections app, server and logging take effect together or not at all,
\* whatever is given and wherever: one of them that does shows that nothing in
\* the file is mistyped (the error of yaml.Unmarshal), so the others do too.
THEOREM SectionsHold == LoadSpec => []SectionsTogether
<1>1. ASSUME Loading, step = "ready"
      PROVE  \A s \in Sections : cfg[s] = FromFile(s)
  BY <1>1, Loaded
     DEF FromEnvironment, Sections, FileKeys, EnvSettings, Settings, Numbers, Durations,
         ServerTTLs, AppTexts, PoolSizes, Defaulted
<1>2. ASSUME Loading, step = "ready", NEW s \in Sections, cfg[s] # Defaults[s]
      PROVE  ~Mistyped(configPath)
  <2>1. Taken(configPath, s)
    BY <1>1, <1>2 DEF FromFile
  <2>2. s \in Checked
    BY <1>2 DEF Sections, Checked
  <2> QED
    BY <2>1, <2>2 DEF Taken
<1>3. ASSUME Loading, step = "ready", ~Mistyped(configPath), NEW s \in Sections, Sets(s)
      PROVE  InEffect(s)
  <2>1. Taken(configPath, s)
    BY <1>3
       DEF Sets, Taken, Sections, FileKeys, Numbers, Durations, ServerTTLs, AppTexts, PoolSizes,
           IsGiven, IsPositive
  <2> QED
    BY <1>1, <1>3, <2>1 DEF FromFile, InEffect
<1>4. Loading => SectionsTogether
  BY <1>2, <1>3 DEF SectionsTogether
<1> QED
  BY <1>4, LoadHolds, PTL

\* A number of Units that fits is its own Duration.
LEMMA DurationFits ==
    ASSUME NEW n \in Int, n > 0, n * Unit < Half
    PROVE  Duration(n) > 0
<1>1. Unit \in Int /\ Unit >= 1 /\ Half \in Nat
  BY ConfigAssumption
<1>2. PICK y \in Int : y = n * Unit
  BY <1>1
<1>3. y >= 1
  BY <1>1, <1>2
<1>4. y + Half \in 0 .. 2 * Half - 1
  BY <1>1, <1>2, <1>3
<1>5. (y + Half) % (2 * Half) = y + Half
  BY <1>1, <1>4
<1>6. Duration(n) = ((y + Half) % (2 * Half)) - Half
  BY <1>2 DEF Duration
<1> QED
  BY <1>1, <1>2, <1>3, <1>5, <1>6

\* A lifetime that is zero or negative is one that somebody gave, too long for
\* a time.Duration (time.Duration(n) * time.Minute; what is given is taken only
\* if it is positive).
THEOREM LifetimesHold == LoadSpec => []LifetimesPositive
<1>1. ASSUME Loading
      PROVE  LifetimesPositive
  <2> SUFFICES ASSUME step = "ready", NEW s \in Durations
               PROVE  \/ cfg[s] > 0
                      \/ \E p \in DOMAIN given : p[2] = s /\ given[p] \in Number /\ given[p] * Unit >= Half
    BY DEF LifetimesPositive
  <2> DEFINE TooLong == \E p \in DOMAIN given : p[2] = s /\ given[p] \in Number /\ given[p] * Unit >= Half
  \* What a line of a file or a variable says.
  <2>1. ASSUME NEW f, NEW n, n = Says(f, s), n \in Number, n > 0
        PROVE  Duration(n) > 0 \/ TooLong
    <3>1. n \in Int /\ n # Absent /\ Unit \in Nat /\ Half \in Nat
      BY <2>1, ConfigAssumption
    <3>2. n * Unit \in Int
      BY <3>1
    <3>3. CASE n * Unit < Half
      BY <2>1, <3>1, <3>3, DurationFits
    <3>4. CASE n * Unit >= Half
      <4>1. <<f, s>> \in DOMAIN given /\ given[<<f, s>>] = n
        BY <2>1, <3>1 DEF Says
      <4> QED
        BY <2>1, <3>4, <4>1
    <3> QED
      BY <3>1, <3>2, <3>3, <3>4
  <2>2. Duration(2) > 0
    BY ConfigAssumption, DurationFits
  <2>3. FromFile(s) > 0 \/ TooLong
    <3>1. Defaults[s] = Duration(2)
      BY DEF Defaults, Settings, FileKeys, Numbers, Durations, ServerTTLs, Value
    <3>2. CASE Taken(configPath, s)
      <4>1. Says(configPath, s) \in Number /\ Says(configPath, s) > 0
        BY <3>2 DEF Taken, Numbers, Durations, ServerTTLs, IsPositive
      <4>2. FromFile(s) = Duration(Says(configPath, s))
        BY <3>2 DEF FromFile, Value
      <4> QED
        BY <2>1, <4>1, <4>2
    <3>3. CASE ~Taken(configPath, s)
      BY <2>2, <3>1, <3>3 DEF FromFile
    <3> QED
      BY <3>2, <3>3
  <2>4. ASSUME s = "DBConnMaxLifetime", getEnvAsInt(s, 2) > 0
        PROVE  Duration(getEnvAsInt(s, 2)) > 0 \/ TooLong
    <3>1. CASE env[s] \in Number
      <4>1. env[s] > 0 /\ env[s] \in {Says("process", s), Says(".env", s)}
        BY <2>4, <3>1, Loaded, <1>1 DEF getEnvAsInt, EnvironmentRead, EnvKeys, EnvSettings
      <4> QED
        BY <2>1, <3>1, <4>1 DEF getEnvAsInt
    <3>2. CASE env[s] \notin Number
      BY <2>2, <3>2 DEF getEnvAsInt
    <3> QED
      BY <3>1, <3>2
  <2>5. cfg[s] = IF s = "DBConnMaxLifetime" /\ getEnvAsInt(s, 2) > 0
                 THEN Duration(getEnvAsInt(s, 2)) ELSE FromFile(s)
    BY <1>1, Loaded
       DEF FromEnvironment, Durations, ServerTTLs, Settings, FileKeys, Numbers, Defaulted, PoolSizes
  <2> QED
    BY <2>3, <2>4, <2>5
<1> QED
  BY <1>1, LoadHolds, PTL

\* The lifetime of a connection is the one of the environment, or 5 minutes:
\* what the file says of it counts only where the environment says a number that
\* is not positive (config.go:159).
LifetimeOfConnections ==
    step = "ready" =>
        LET s == "DBConnMaxLifetime" IN
        cfg[s] = CASE env[s] \notin Number -> Duration(2)
                   [] env[s] \in Number /\ env[s] > 0 -> Duration(env[s])
                   [] OTHER -> FromFile(s)

\* A line conn_max_lifetime_minutes is thus lost on a server whose environment
\* does not say DB_CONN_MAX_LIFETIME_MINUTES (Load).
THEOREM FileLifetimeIgnored == LoadSpec => []LifetimeOfConnections
<1>1. ASSUME Loading
      PROVE  LifetimeOfConnections
  <2> SUFFICES ASSUME step = "ready" PROVE LifetimeOfConnections
    BY DEF LifetimeOfConnections
  <2> DEFINE s == "DBConnMaxLifetime"
  <2>1. cfg[s] = IF getEnvAsInt(s, 2) > 0 THEN Duration(getEnvAsInt(s, 2)) ELSE FromFile(s)
    BY <1>1, Loaded
       DEF FromEnvironment, Durations, ServerTTLs, Settings, FileKeys, Numbers, Defaulted, PoolSizes
  <2> QED
    BY <2>1, ConfigAssumption DEF LifetimeOfConnections, getEnvAsInt
<1> QED
  BY <1>1, LoadHolds, PTL
=============================================================================
