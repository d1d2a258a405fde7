SPECIFICATION LoadSpec
CONSTANTS
    Text = {t1, t2}
    Number = {0, 1, 3}
    Absent = Absent
    Empty = Empty
    Junk = Junk
    Default = Default
    Unit = 2
    Half = 5
    Studied = {"AppEnv", "LogFormat", "AccessTokenTTL", "DBMaxOpenConns", "DBConnMaxLifetime", "DatabaseURL", "JWTSecret", "CONFIG_PATH"}
    MaxGiven = 3
INVARIANTS
    EnvironmentWins
    FileTakesEffect
    SectionsTogether
    LifetimesPositive
CHECK_DEADLOCK FALSE
