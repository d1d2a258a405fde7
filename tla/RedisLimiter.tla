---------------------------- MODULE RedisLimiter ----------------------------
(***************************************************************************)
(* The Redis rate limiter (pkg/ratelimit/redis.go) for one key, shared by  *)
(* the instances of the server.                                            *)
(*                                                                         *)
(* A call reads its own clock, and then has Redis run a script that works  *)
(* on a sorted set with that time as "now": it drops what is older than a  *)
(* window, counts the rest, and adds the time if there is room.  Scripts   *)
(* run one at a time, but not in the order in which the clocks were read,  *)
(* and the clocks need not agree.  A member of the set is its own score,   *)
(* so the set is a set of times.                                           *)
(***************************************************************************)
EXTENDS Integers, FiniteSets

CONSTANTS
    Req,      \* calls of Allow
    Limit,    \* Config.Limit
    Window,   \* Config.Window, in milliseconds
    Skew,     \* how far the clock of an instance may be ahead of Redis
    Delay,    \* how long a call may take to reach Redis
    Failures, \* may Redis fail to answer?
    MaxTime   \* bound on the clock

ASSUME RedisLimiterAssumption ==
    /\ Limit \in Nat \ {0} /\ Window \in Nat \ {0}
    /\ Skew \in Nat /\ Delay \in Nat /\ MaxTime \in Nat
    /\ Failures \in BOOLEAN

VARIABLES
    now,      \* the clock of Redis
    zset,     \* the sorted set
    expireAt, \* when PEXPIRE removes it
    pc,       \* "idle", "sent" or "done"
    since,    \* when a call read its clock, by the clock of Redis
    stamp,    \* what it read
    resp,     \* its answer; "open" is a request let through unchecked
    counted   \* history: the calls whose time was added

vars == <<now, zset, expireAt, pc, since, stamp, resp, counted>>

Stamps == 0 .. MaxTime + Skew

Init ==
    /\ now = 0 /\ zset = {} /\ expireAt = 0
    /\ pc = [r \in Req |-> "idle"]
    /\ since = [r \in Req |-> 0] /\ stamp = [r \in Req |-> 0]
    /\ resp = [r \in Req |-> "none"] /\ counted = {}

-----------------------------------------------------------------------------

\* time.Now().UnixMilli(), on the instance that serves the request.
Call(r) ==
    /\ pc[r] = "idle"
    /\ pc' = [pc EXCEPT ![r] = "sent"]
    /\ since' = [since EXCEPT ![r] = now]
    /\ \E ahead \in 0 .. Skew : stamp' = [stamp EXCEPT ![r] = now + ahead]
    /\ UNCHANGED <<now, zset, expireAt, resp, counted>>

Return(r, a) ==
    /\ pc' = [pc EXCEPT ![r] = "done"]
    /\ resp' = [resp EXCEPT ![r] = a]

\* ZREMRANGEBYSCORE key -inf now-window
RecentForEver(t) == zset
Recent(t) == {m \in zset : m > t - Window}

\* ZCARD key < limit
Full(t) == Cardinality(Recent(t)) >= Limit

ExecuteExpiringWithFirst(r) ==
    LET t == stamp[r] IN
    /\ zset' = IF Full(t) THEN Recent(t) ELSE Recent(t) \cup {t}
    /\ expireAt' = IF zset = {} THEN now + Window ELSE expireAt
    /\ counted' = IF Full(t) THEN counted ELSE counted \cup {r}

\* The script: ZREMRANGEBYSCORE, ZCARD, and ZADD with PEXPIRE if there is room.
Execute(r) ==
    LET t == stamp[r] IN
    /\ zset' = IF Full(t) THEN Recent(t) ELSE Recent(t) \cup {t}
    /\ expireAt' = IF Full(t) THEN expireAt ELSE now + Window
    /\ counted' = IF Full(t) THEN counted ELSE counted \cup {r}

\* Redis runs the script and its answer arrives.
Script(r) ==
    /\ pc[r] = "sent"
    /\ Execute(r)
    /\ Return(r, IF Full(stamp[r]) THEN "refused" ELSE "allowed")
    /\ UNCHANGED <<now, since, stamp>>

\* It runs, and the answer is lost: the client library sends the same call
\* again, or gives up and the request is let through.
AnswerLost(r) ==
    /\ Failures
    /\ pc[r] = "sent"
    /\ Execute(r)
    /\ Return(r, "open") \/ UNCHANGED <<pc, resp>>
    /\ UNCHANGED <<now, since, stamp>>

\* Redis cannot be reached: the request is let through.
FailOpen(r) ==
    /\ Failures
    /\ pc[r] = "sent"
    /\ Return(r, "open")
    /\ UNCHANGED <<now, zset, expireAt, since, stamp, counted>>

\* The clock of Redis, and the keys that expire with it.
Tick ==
    /\ now < MaxTime
    /\ \A r \in Req : pc[r] = "sent" => now < since[r] + Delay
    /\ now' = now + 1
    /\ zset' = IF now' >= expireAt THEN {} ELSE zset
    /\ UNCHANGED <<expireAt, pc, since, stamp, resp, counted>>

Next ==
    \/ \E r \in Req : Call(r) \/ Script(r) \/ AnswerLost(r) \/ FailOpen(r)
    \/ Tick

Spec == Init /\ [][Next]_vars

-----------------------------------------------------------------------------

\* The different times these calls had, from the given one on, for so long.
TimesOf(calls, from, length) ==
    {stamp[r] : r \in {q \in calls : from <= stamp[q] /\ stamp[q] < from + length}}

\* Those that were counted.
Counted(from, length) == TimesOf(counted, from, length)

\* However clocks and delays put the scripts out of order, and whatever is sent
\* twice, at most Limit different milliseconds are counted in any time that is
\* shorter than the window by the skew and the delay.
AtMostLimitStamps ==
    \A from \in Stamps : Cardinality(Counted(from, Window - Skew - Delay)) <= Limit

\* Who is refused came when other calls filled a window, give or take the same
\* skew and delay: nobody is refused for calls that are older, nor for how often
\* others were sent.  One exception: a call whose answer is lost after it was
\* counted, and that is sent again, finds its own member in the set (ZCARD comes
\* before ZADD, which would not add it twice), and one call less of others is
\* enough to have it refused.
RefusalJustified ==
    \A r \in Req : resp[r] = "refused" =>
        Cardinality(TimesOf(counted \ {r}, stamp[r] - Window + 1, Window + Skew + Delay))
            >= IF r \in counted THEN Limit - 1 ELSE Limit
=============================================================================
