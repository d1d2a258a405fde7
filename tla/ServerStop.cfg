\* One tick is five seconds.
CONSTANTS
    Req = {r1, r2}
    PingTimeout = 1
    Upstream = 2
    WriteTimeout = 3
    Grace = 6
    StopTimeout = 3
    MaxTime = 7
SPECIFICATION FairSpec
INVARIANTS DatabaseOutlivesRequests MarketAnswered OnlyLongRequestsAreCut
PROPERTY StartAndStopEnd
CHECK_DEADLOCK FALSE
