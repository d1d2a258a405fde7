--------------------------- MODULE InMemoryLimiter ---------------------------
(***************************************************************************)
(* The in-memory rate limiter (pkg/ratelimit/inmemory.go) for one key: the *)
(* entries of different keys never meet.                                   *)
(*                                                                         *)
(* Allow looks the entry up under the mutex of the map and asks the token  *)
(* bucket after releasing it; a goroutine removes entries nobody has seen  *)
(* for two windows, to bound the memory, and may run between the two.  The *)
(* promise is that removing an entry changes no answer: a bucket nobody    *)
(* used for that long is full, like a new one.                             *)
(*                                                                         *)
(* Time is a count of ticks up to MaxTime.  rate.Limiter counts in         *)
(* fractions of a token; with one token every Interval ticks these are     *)
(* parts of 1/Interval.  A bucket is named by the call that made it.       *)
(* The map is in memory: the process may stop and start again, and then    *)
(* the limit starts anew.                                                  *)
(***************************************************************************)
EXTENDS Integers, FiniteSets

CONSTANTS
    Req,       \* calls of Allow
    None,      \* no bucket
    Limit,     \* Config.Limit, the burst of each bucket
    Interval,  \* ticks per token: Config.Window / Config.Limit
    Stall,     \* how long a call may stay between the look-up and the bucket
    MaxRestarts,
    MaxTime    \* bounds on the restarts and on the clock

ASSUME LimiterAssumption ==
    /\ None \notin Req
    /\ Limit \in Nat \ {0} /\ Interval \in Nat \ {0}
    /\ Stall \in Nat /\ MaxRestarts \in Nat /\ MaxTime \in Nat

Window == Limit * Interval
Full == Limit * Interval

VARIABLES
    now,
    entry,     \* the bucket in the map, or None
    lastSeen,  \* entry.lastSeen
    sweepAt,   \* when the cleanup goroutine wakes up
    level,     \* tokens of each bucket when it was last used
    last,      \* when that was
    pc,        \* "idle", "bucket" or "done"
    bucket,    \* the bucket a call has found
    since,     \* when it found it
    resp,      \* its answer
    at,        \* history: when it was answered
    restarts   \* when the process was restarted

vars == <<now, entry, lastSeen, sweepAt, level, last, pc, bucket, since, resp, at, restarts>>

Init ==
    /\ now = 0 /\ lastSeen = 0 /\ sweepAt = 2 * Window
    /\ entry = None
    /\ level = [b \in Req |-> 0] /\ last = [b \in Req |-> 0]
    /\ pc = [r \in Req |-> "idle"] /\ bucket = [r \in Req |-> None]
    /\ since = [r \in Req |-> 0] /\ at = [r \in Req |-> 0]
    /\ resp = [r \in Req |-> "none"] /\ restarts = {}

-----------------------------------------------------------------------------

\* What a bucket holds now: rate.Limiter refills it when it is asked.
Tokens(b) ==
    LET refilled == level[b] + (now - last[b])
    IN  IF refilled < Full THEN refilled ELSE Full

\* Allow, under the mutex of the map: a new entry starts with a full bucket.
Lookup(r) ==
    /\ pc[r] = "idle"
    /\ \/ entry # None /\ bucket' = [bucket EXCEPT ![r] = entry]
          /\ UNCHANGED <<entry, level, last>>
       \/ /\ entry = None
          /\ entry' = r
          /\ bucket' = [bucket EXCEPT ![r] = r]
          /\ level' = [level EXCEPT ![r] = Full]
          /\ last' = [last EXCEPT ![r] = now]
    /\ lastSeen' = now
    /\ since' = [since EXCEPT ![r] = now]
    /\ pc' = [pc EXCEPT ![r] = "bucket"]
    /\ UNCHANGED <<now, sweepAt, resp, at, restarts>>

\* The call returns: what it held is forgotten.
Return(r) ==
    /\ at' = [at EXCEPT ![r] = now]
    /\ pc' = [pc EXCEPT ![r] = "done"]
    /\ bucket' = [bucket EXCEPT ![r] = None]
    /\ since' = [since EXCEPT ![r] = 0]
    /\ UNCHANGED <<now, entry, lastSeen, sweepAt, restarts>>

TakeForFree(r) ==
    /\ pc[r] = "bucket"
    /\ resp' = [resp EXCEPT ![r] = "allowed"]
    /\ UNCHANGED <<level, last>>
    /\ Return(r)

TakeEvenIfRefused(r) ==
    /\ pc[r] = "bucket"
    /\ LET b == bucket[r]
           left == Tokens(b) - Interval
       IN  /\ resp' = [resp EXCEPT ![r] = IF left >= 0 THEN "allowed" ELSE "refused"]
           /\ level' = [level EXCEPT ![b] = IF left >= 0 THEN left ELSE 0]
           /\ last' = [last EXCEPT ![b] = now]
    /\ Return(r)

\* limiter.Allow, after the mutex was released, on the bucket found then.
Take(r) ==
    /\ pc[r] = "bucket"
    /\ LET b == bucket[r]
       IN  \/ /\ Tokens(b) >= Interval
              /\ resp' = [resp EXCEPT ![r] = "allowed"]
              /\ level' = [level EXCEPT ![b] = Tokens(b) - Interval]
              /\ last' = [last EXCEPT ![b] = now]
           \/ /\ Tokens(b) < Interval
              /\ resp' = [resp EXCEPT ![r] = "refused"]
              /\ UNCHANGED <<level, last>>
    /\ Return(r)

\* An entry is stale when nobody has looked it up for more than two windows.
StaleEarly == now - lastSeen >= Interval
Stale == now - lastSeen > 2 * Window

\* One round of the cleanup goroutine, and its next sleep.
Sweep ==
    /\ now >= sweepAt
    /\ entry' = IF Stale THEN None ELSE entry
    /\ sweepAt' = now + 2 * Window
    /\ UNCHANGED <<now, lastSeen, level, last, pc, bucket, since, resp, at, restarts>>

\* The clock; no call stays between its two halves longer than Stall.
Tick ==
    /\ now < MaxTime
    /\ \A r \in Req : pc[r] = "bucket" => now < since[r] + Stall
    /\ now' = now + 1
    /\ UNCHANGED <<entry, lastSeen, sweepAt, level, last, pc, bucket, since, resp, at, restarts>>

\* The process is replaced by another one, with an empty map: a call in between
\* its two halves is never answered.
Restart ==
    /\ Cardinality(restarts) < MaxRestarts /\ now \notin restarts
    /\ restarts' = restarts \cup {now}
    /\ entry' = None /\ lastSeen' = 0
    /\ sweepAt' = now + 2 * Window
    /\ level' = [b \in Req |-> 0] /\ last' = [b \in Req |-> 0]
    /\ pc' = [r \in Req |-> IF pc[r] = "bucket" THEN "done" ELSE pc[r]]
    /\ bucket' = [r \in Req |-> None] /\ since' = [r \in Req |-> 0]
    /\ UNCHANGED <<now, resp, at>>

Next == (\E r \in Req : Lookup(r) \/ Take(r)) \/ Sweep \/ Restart \/ Tick

Spec == Init /\ [][Next]_vars

-----------------------------------------------------------------------------

Admitted(from, to) == {r \in Req : resp[r] = "allowed" /\ from <= at[r] /\ at[r] <= to}

\* Over any stretch of time no more is admitted than a full bucket and its
\* refill allow, and a full bucket for every restart, whatever entries are
\* removed and made again in between.
BurstPlusRate ==
    \A r, q \in Admitted(0, now) :
        at[r] <= at[q] =>
            Interval * Cardinality(Admitted(at[r], at[q]))
                <= Full * (1 + Cardinality(restarts \cap (at[r] .. at[q]))) + (at[q] - at[r])

\* Nobody is refused who need not be: before a refusal there is a stretch in
\* which everything the bucket could give was taken.
RefusalJustified ==
    \A r \in Req : resp[r] = "refused" =>
        \E from \in 0 .. at[r] :
            Interval * Cardinality(Admitted(from, at[r]))
                > Full + (at[r] - from) - Interval

\* The map with its cleanup is one bucket kept for ever.
Kept == INSTANCE Bucket WITH level <- IF entry = None THEN Full ELSE Tokens(entry)

ImplementsBucket == Kept!Spec
=============================================================================
