------------------------------- MODULE Config -------------------------------
(***************************************************************************)
(* How the server finds its settings when it starts (internal/config):     *)
(* the file .env is added to the environment of the process, the YAML file *)
(* that CONFIG_PATH names is read over the built-in defaults, and the      *)
(* environment is read over both.  Nothing is ever reported: what cannot   *)
(* be read or parsed is skipped, and the server starts with the rest.      *)
(*                                                                         *)
(* A setting has the name of its field in Config, whatever its key is      *)
(* called in the file or in the environment.  A text is a value that can   *)
(* only be told from others, a number a small one, and a duration is a     *)
(* number of Units in an int64, of which there are 2 * Half.               *)
(*                                                                         *)
(* Faulty variants of some definitions stand before them.                  *)
(***************************************************************************)
EXTENDS Integers, FiniteSets

CONSTANTS
    Text,     \* texts that are not empty
    Number,   \* numbers that fit an int
    Absent,   \* no such key
    Empty,    \* the empty text
    Junk,     \* a text that is not a number
    Default,  \* the built-in text of a setting
    Unit, Half,
    Studied,  \* the settings and keys that may be given
    MaxGiven  \* bound: how many of them are given at once

ASSUME ConfigAssumption ==
    /\ Number \subseteq Int /\ Absent \notin Number
    /\ Unit \in Nat \ {0} /\ Half \in Nat /\ Half > 2 * Unit
    /\ MaxGiven \in Nat

AppTexts == {"AppEnv", "Port", "ServiceName"}
ServerTTLs == {"AccessTokenTTL", "RefreshTokenTTL"}
PoolSizes == {"DBMaxOpenConns", "DBMaxIdleConns"}
Parts == {"DB_HOST", "DB_PORT", "DB_USER", "DB_PASSWORD", "DB_NAME", "DB_SSL_MODE"}

\* The sections app, server and logging, which Load reads only if the whole
\* file is well typed.
CheckedButFormat == AppTexts \cup ServerTTLs \cup {"LogLevel"}
Checked == AppTexts \cup ServerTTLs \cup {"LogLevel", "LogFormat"}

Durations == ServerTTLs \cup {"EmailVerificationTTL", "DBConnMaxLifetime"}
Numbers == Durations \cup PoolSizes
FileKeys == AppTexts \cup {"LogLevel", "LogFormat"} \cup Numbers

\* What is taken from the environment as soon as it is there, even if empty.
Defaulted == {"JWTSecret", "ResendAPIKey", "EmailFrom", "AppVerifyURLBase"}
EnvSettings == Defaulted \cup {"DatabaseURL", "EyebrokerAPIURL", "DBConnMaxLifetime"} \cup PoolSizes
EnvKeys == EnvSettings \cup Parts \cup {"CONFIG_PATH"}

Settings == FileKeys \cup EnvSettings
Files == {"config.yml", "other.yml"}

\* Where a value can be given, and which ones.
Places == ({"process", ".env"} \X EnvKeys) \cup (Files \X FileKeys)
Values(key) ==
    {Empty} \cup CASE key = "CONFIG_PATH" -> {"other.yml"}
                   [] key \in Numbers -> Number \cup {Junk}
                   [] OTHER -> Text

VARIABLES
    given, \* the values that are given, by place
    lost,  \* files that are missing or cannot be parsed
    env,   \* the environment of the process
    cfg,   \* Config
    step   \* the one of Load that is next

loadVars == <<given, lost, env, cfg, step>>

Says(f, k) == IF <<f, k>> \in DOMAIN given THEN given[<<f, k>>] ELSE Absent

\* time.Duration(n) * time.Minute, in 64 bits.
Duration(n) == ((n * Unit + Half) % (2 * Half)) - Half

IsGiven(v) == v \notin {Absent, Empty}
IsPositiveUnchecked(v) == v \in Number
IsPositive(v) == v \in Number /\ v > 0

Value(s, v) ==
    CASE s \in Durations -> Duration(v)
      [] s \notin Durations /\ v = Absent -> Empty
      [] OTHER -> v

Defaults ==
    [s \in Settings |-> CASE s \in Numbers -> Value(s, 2)
                          [] s = "LogFormat" -> Empty
                          [] OTHER -> Default]

LoadInit ==
    /\ given = [p \in {} |-> Absent]
    /\ lost \in {{}, {".env"}, {"config.yml"}}
    /\ env = [k \in EnvKeys |-> Absent]
    /\ cfg = Defaults
    /\ step = "setup"

-----------------------------------------------------------------------------

\* The administrator writes a line of a file, or sets a variable.
Give(p, v) ==
    /\ step = "setup"
    /\ p[2] \in Studied
    /\ p \notin DOMAIN given /\ Cardinality(DOMAIN given) < MaxGiven
    /\ given' = [q \in DOMAIN given \cup {p} |-> IF q = p THEN v ELSE given[q]]
    /\ UNCHANGED <<lost, env, cfg, step>>

\* The process starts, with its environment.
Start ==
    /\ step = "setup"
    /\ env' = [k \in EnvKeys |-> Says("process", k)]
    /\ step' = "dotenv"
    /\ UNCHANGED <<given, lost, cfg>>

OverloadDotenv ==
    [k \in EnvKeys |-> IF Says(".env", k) = Absent THEN env[k] ELSE Says(".env", k)]

\* godotenv.Load keeps what the process has, be it empty.
Dotenv ==
    [k \in EnvKeys |-> IF env[k] = Absent THEN Says(".env", k) ELSE env[k]]

LoadDotenv ==
    /\ step = "dotenv"
    /\ env' = IF ".env" \in lost THEN env ELSE Dotenv
    /\ step' = "file"
    /\ UNCHANGED <<given, lost, cfg>>

configPath == IF IsGiven(env["CONFIG_PATH"]) THEN env["CONFIG_PATH"] ELSE "config.yml"

\* yaml.Unmarshal goes on after a scalar of the wrong type, and reports it.
Mistyped(f) == \E s \in Numbers : Says(f, s) = Junk

\* Load takes this setting from that file.
Taken(f, s) ==
    /\ f \notin lost
    /\ s \in FileKeys
    /\ s \in Checked => ~Mistyped(f)
    /\ CASE s \in Numbers -> IsPositive(Says(f, s))
         [] s = "LogFormat" -> TRUE
         [] OTHER -> IsGiven(Says(f, s))

ReadFile ==
    /\ step = "file"
    /\ cfg' = [s \in Settings |->
                 IF Taken(configPath, s) THEN Value(s, Says(configPath, s)) ELSE cfg[s]]
    /\ step' = "environment"
    /\ UNCHANGED <<given, lost, env>>

getEnv(k) == IF env[k] = Absent THEN Default ELSE env[k]
getEnvAsInt(k, n) == IF env[k] \in Number THEN env[k] ELSE n

buildDatabaseURL == [p \in Parts |-> getEnv(p)]

PoolSizeOrDefault(s) == getEnvAsInt(s, 2)
PoolSize(s) == getEnvAsInt(s, cfg[s])

ReadEnvironment ==
    /\ step = "environment"
    /\ cfg' = [s \in Settings |->
          CASE s = "DatabaseURL" -> IF IsGiven(env[s]) THEN env[s] ELSE buildDatabaseURL
            [] s \in Defaulted -> getEnv(s)
            [] s = "EyebrokerAPIURL" -> IF IsGiven(env[s]) THEN env[s] ELSE cfg[s]
            [] s \in PoolSizes -> PoolSize(s)
            [] s = "DBConnMaxLifetime" ->
                  IF getEnvAsInt(s, 2) > 0 THEN Duration(getEnvAsInt(s, 2)) ELSE cfg[s]
            [] OTHER -> cfg[s]]
    /\ step' = "ready"
    /\ UNCHANGED <<given, lost, env>>

LoadNext ==
    \/ \E p \in Places : \E v \in Values(p[2]) : Give(p, v)
    \/ Start \/ LoadDotenv \/ ReadFile \/ ReadEnvironment

LoadSpec == LoadInit /\ [][LoadNext]_loadVars

-----------------------------------------------------------------------------

\* What the environment of the process sets, neither .env nor the YAML file
\* takes back.
EnvironmentWins ==
    step = "ready" => \A s \in EnvSettings :
        LET v == Says("process", s) IN
        CASE s = "DBConnMaxLifetime" -> v \in Number /\ v > 0 => cfg[s] = Duration(v)
          [] s \in PoolSizes -> v \in Number => cfg[s] = v
          [] s \in Defaulted -> v # Absent => cfg[s] = v
          [] OTHER -> v \notin {Absent, Empty} => cfg[s] = v

\* The sections app, server and logging of the file.
Sections == AppTexts \cup ServerTTLs \cup {"LogLevel", "LogFormat"}

\* The file in use sets this setting to something that can be used.
Sets(s) ==
    LET v == Says(configPath, s) IN
    /\ configPath \notin lost
    /\ IF s \in Numbers THEN v \in Number /\ v > 0 ELSE v \notin {Absent, Empty}

InEffect(s) == cfg[s] = Value(s, Says(configPath, s))

\* What the file in use sets and the environment leaves alone takes effect, the
\* sections app, server and logging only if the file has no mistyped number, and
\* the sections email and database even then.  The exception is the line
\* conn_max_lifetime_minutes, which does not: config.go:159 falls back to 5 and
\* not to it.
FileTakesEffect ==
    step = "ready" => \A s \in FileKeys \ {"DBConnMaxLifetime"} :
        /\ Sets(s)
        /\ s \in EnvKeys => env[s] = Absent
        /\ s \in Sections => \A n \in Numbers : Says(configPath, n) # Junk
        => InEffect(s)

\* Of a file that can be read only in part, the sections app, server and logging
\* take effect together or not at all: if one of their settings is not the
\* built-in one, all that the file sets in them are in effect.  The server never
\* runs in the environment that the file names with token lifetimes or a logging
\* that it does not.
SectionsTogether ==
    step = "ready" /\ (\E s \in Sections : cfg[s] # Defaults[s]) =>
        \A s \in Sections : Sets(s) => InEffect(s)

\* No lifetime is zero or negative, whatever is given, but one that was given
\* and is too long for a time.Duration.
LifetimesPositive ==
    step = "ready" => \A s \in Durations :
        \/ cfg[s] > 0
        \/ \E p \in DOMAIN given : p[2] = s /\ given[p] \in Number /\ given[p] * Unit >= Half
=============================================================================
