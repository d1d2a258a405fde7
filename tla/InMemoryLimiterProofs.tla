------------------------- MODULE InMemoryLimiterProofs -------------------------
(***************************************************************************)
(* For any limit, any window and any number of calls: the map with its     *)
(* cleanup is one token bucket kept for ever, what that bucket admits and  *)
(* whom it refuses, as long as no call stays between its two halves for    *)
(* more than a window.                                                     *)
(***************************************************************************)
EXTENDS InMemoryLimiter, FiniteSetTheorems, TLAPS

\* The two halves of Allow are instructions apart, and a window is minutes.
StallIsShort == Stall <= Window

Types ==
    /\ now \in Nat /\ lastSeen \in Nat
    /\ entry \in Req \cup {None}
    /\ level \in [Req -> Nat] /\ last \in [Req -> Nat]
    /\ pc \in [Req -> {"idle", "bucket", "done"}]
    /\ bucket \in [Req -> Req \cup {None}] /\ since \in [Req -> Nat]

\* The bucket in the map was used last not long after it was looked up, and
\* holds no more than a full one.
EntryIsRecent ==
    entry # None =>
        /\ lastSeen <= now
        /\ last[entry] <= now /\ last[entry] <= lastSeen + Stall
        /\ level[entry] <= Full

\* A call in between its halves holds the bucket that is in the map: it has not
\* been there long enough for the cleanup to remove it.
CallsHoldEntry ==
    \A r \in Req : pc[r] = "bucket" =>
        /\ entry # None /\ bucket[r] = entry
        /\ since[r] <= lastSeen /\ now <= since[r] + Stall

IInv == Types /\ EntryIsRecent /\ CallsHoldEntry

LEMMA Numbers ==
    /\ Full \in Nat /\ Window = Full
    /\ Limit \in Nat /\ Interval \in Nat /\ Stall \in Nat /\ None \notin Req
  BY LimiterAssumption DEF Full, Window

-----------------------------------------------------------------------------

LEMMA InitInv == Init => IInv
  BY Numbers DEF Init, IInv, Types, EntryIsRecent, CallsHoldEntry

LEMMA StepInv ==
    ASSUME StallIsShort, IInv, [Next]_vars
    PROVE  IInv'
<1> USE Numbers DEF IInv, Types, EntryIsRecent, CallsHoldEntry
<1>1. ASSUME NEW r \in Req, Lookup(r)
      PROVE  IInv'
  BY <1>1, SMTT(60) DEF Lookup
<1>2. ASSUME NEW r \in Req, Take(r)
      PROVE  IInv'
  BY <1>2, SMTT(60) DEF Take, Return, Tokens
<1>3. CASE Sweep
  BY <1>3, SMTT(60) DEF Sweep, Stale, StallIsShort
<1>4. CASE Restart
  BY <1>4, SMTT(60) DEF Restart
<1>5. CASE Tick
  BY <1>5, SMTT(60) DEF Tick
<1>6. CASE UNCHANGED vars
  BY <1>6, SMTT(60) DEF vars
<1> HIDE DEF IInv
<1> QED
  BY <1>1, <1>2, <1>3, <1>4, <1>5, <1>6 DEF Next

LEMMA InvHolds == ASSUME StallIsShort PROVE Spec => []IInv
<1>1. IInv /\ [Next]_vars => IInv'
  BY StepInv
<1> QED
  BY <1>1, InitInv, PTL DEF Spec

-----------------------------------------------------------------------------

\* What the bucket that is kept for ever holds.
KeptLevel == IF entry = None THEN Full ELSE Tokens(entry)

\* A new entry starts as full as the kept bucket, which has had nothing taken
\* from it since it was full; and a stale entry is one that has been refilled
\* for a whole window.
LEMMA QuietLevel ==
    ASSUME StallIsShort, IInv, (\E r \in Req : Lookup(r)) \/ Sweep \/ UNCHANGED vars
    PROVE  KeptLevel' = KeptLevel /\ UNCHANGED <<now, resp, at, restarts>>
<1> USE Numbers DEF IInv, Types, EntryIsRecent, CallsHoldEntry
<1>1. ASSUME NEW r \in Req, Lookup(r)
      PROVE  KeptLevel' = KeptLevel /\ UNCHANGED <<now, resp, at, restarts>>
  BY <1>1, SMTT(60) DEF Lookup, KeptLevel, Tokens
<1>2. ASSUME Sweep
      PROVE  KeptLevel' = KeptLevel /\ UNCHANGED <<now, resp, at, restarts>>
  BY <1>2, SMTT(60) DEF Sweep, Stale, StallIsShort, KeptLevel, Tokens
<1>3. ASSUME UNCHANGED vars
      PROVE  KeptLevel' = KeptLevel /\ UNCHANGED <<now, resp, at, restarts>>
  BY <1>3 DEF vars, KeptLevel, Tokens
<1> QED
  BY <1>1, <1>2, <1>3

\* A call takes a token of the bucket that is kept, if it holds one.
LEMMA TakeLevel ==
    ASSUME IInv, NEW r \in Req, Take(r)
    PROVE  \/ /\ KeptLevel >= Interval /\ KeptLevel' = KeptLevel - Interval
              /\ resp' = [resp EXCEPT ![r] = "allowed"]
           \/ /\ KeptLevel < Interval /\ KeptLevel' = KeptLevel
              /\ resp' = [resp EXCEPT ![r] = "refused"]
  BY Numbers, SMTT(60)
  DEF IInv, Types, EntryIsRecent, CallsHoldEntry, Take, Return, KeptLevel, Tokens

LEMMA RestartLevel == Restart => KeptLevel' = Full /\ restarts' # restarts
  BY DEF Restart, KeptLevel

LEMMA TickLevel ==
    ASSUME IInv, Tick
    PROVE  KeptLevel' = (IF KeptLevel < Full THEN KeptLevel + 1 ELSE Full) /\ restarts' = restarts
  BY Numbers, SMTT(60) DEF IInv, Types, EntryIsRecent, CallsHoldEntry, Tick, KeptLevel, Tokens

LEMMA LevelStep ==
    ASSUME StallIsShort, IInv, [Next]_vars
    PROVE  \/ KeptLevel' = (IF KeptLevel < Full THEN KeptLevel + 1 ELSE Full) /\ restarts' = restarts
           \/ KeptLevel >= Interval /\ KeptLevel' = KeptLevel - Interval /\ restarts' = restarts
           \/ KeptLevel' = Full /\ restarts' # restarts
           \/ KeptLevel' = KeptLevel /\ restarts' = restarts
<1>1. ASSUME NEW r \in Req, Take(r)
      PROVE  restarts' = restarts
  BY <1>1 DEF Take, Return
<1> QED
  BY <1>1, QuietLevel, TakeLevel, RestartLevel, TickLevel DEF Next

\* Removing entries changes no answer: the map of inmemory.go with its cleanup
\* goroutine implements one bucket that is kept for ever.
THEOREM BucketImplemented ==
    ASSUME StallIsShort
    PROVE  Spec => ImplementsBucket
<1>1. Init => Kept!Init
  BY DEF Init, Kept!Init, Full, Kept!Full
<1>2. IInv /\ [Next]_vars =>
         [Kept!Next]_<<IF entry = None THEN Full ELSE Tokens(entry), restarts>>
  BY LevelStep DEF KeptLevel, Kept!Next, Kept!Tick, Kept!Admit, Kept!Restart, Full, Kept!Full
<1> QED
  BY <1>1, <1>2, InvHolds, PTL DEF Spec, ImplementsBucket, Kept!Spec

-----------------------------------------------------------------------------

\* What was taken from the bucket in a stretch of time, and what it was given:
\* it starts full, and every restart fills it.
Used(from, to) == Interval * Cardinality(Admitted(from, to))
Given(from, to) == Full * (1 + Cardinality(restarts \cap (from .. to)))

\* Only a call that is done has an answer, and answers and restarts are past.
Answers ==
    /\ resp \in [Req -> {"none", "allowed", "refused"}] /\ at \in [Req -> Nat]
    /\ restarts \subseteq 0 .. now
    /\ \A r \in Req : at[r] <= now /\ (pc[r] # "done" => resp[r] = "none")
    /\ IsFiniteSet({r \in Req : resp[r] = "allowed"})

\* What the bucket holds and what was taken from it came from a full bucket,
\* the restarts and the refill; over any stretch that is past, too.
Balance ==
    /\ \A from \in 0 .. now : Used(from, now) + KeptLevel <= Given(from, now) + (now - from)
    /\ \A from, to \in 0 .. now : from <= to => Used(from, to) <= Given(from, to) + (to - from)

\* The bucket was full at some time, and has wasted nothing since.
Thrifty == \E from \in 0 .. now : Used(from, now) + KeptLevel >= Full + (now - from)

\* The sums of the balance, one admission and one restart at a time.
LEMMA Sums ==
    /\ \A c \in Nat : Interval * c \in Nat /\ Full * (1 + c) \in Nat
    /\ \A c \in Nat : Interval * (c + 1) = Interval * c + Interval
    /\ \A c \in Nat : Full * (1 + (c + 1)) = Full * (1 + c) + Full
    /\ Interval * 0 = 0 /\ Full * (1 + 0) = Full
<1> HIDE DEF Full
<1> QED
  BY Numbers, SMTT(60)

LEMMA Monotone ==
    ASSUME NEW c \in Nat, NEW d \in Nat, c <= d
    PROVE  Interval * c <= Interval * d
<1>1. d = c + (d - c) /\ d - c \in Nat
  OBVIOUS
<1>2. \A k \in Nat : Interval * (c + k) = Interval * c + Interval * k /\ Interval * k >= 0 /\ Interval * c \in Nat
  BY Numbers, SMTT(60)
<1> QED
  BY <1>1, <1>2, Numbers

LEMMA Finite ==
    ASSUME Answers, Types, NEW from \in Nat, NEW to \in Nat
    PROVE  /\ IsFiniteSet(Admitted(from, to)) /\ Cardinality(Admitted(from, to)) \in Nat
           /\ Cardinality(restarts \cap (from .. to)) \in Nat
           /\ IsFiniteSet(restarts \cap (from .. to))
           /\ Used(from, to) \in Nat /\ Given(from, to) \in Nat
<1>1. Admitted(from, to) \in SUBSET {r \in Req : resp[r] = "allowed"}
  BY DEF Admitted
<1>2. IsFiniteSet(Admitted(from, to)) /\ Cardinality(Admitted(from, to)) \in Nat
  BY <1>1, FS_Subset, FS_CardinalityType DEF Answers
<1>3. IsFiniteSet(from .. to) /\ restarts \cap (from .. to) \in SUBSET (from .. to)
  BY FS_Interval
<1>4. /\ IsFiniteSet(restarts \cap (from .. to))
      /\ Cardinality(restarts \cap (from .. to)) \in Nat
  BY <1>3, FS_Subset, FS_CardinalityType
<1> QED
  BY <1>2, <1>4, Sums DEF Used, Given

Account == IInv /\ Answers /\ Balance /\ Thrifty

LEMMA InitAccount == Init => Answers /\ Balance /\ Thrifty
<1> SUFFICES ASSUME Init PROVE Answers /\ Balance /\ Thrifty
  OBVIOUS
<1>1. {r \in Req : resp[r] = "allowed"} = {}
  BY DEF Init
<1>2. Answers
  BY <1>1, FS_EmptySet DEF Init, Answers
<1>3. Admitted(0, 0) = {} /\ restarts \cap (0 .. 0) = {} /\ now = 0 /\ KeptLevel = Full
  BY DEF Init, Admitted, KeptLevel
<1>4. Used(0, 0) = 0 /\ Given(0, 0) = Full
  BY <1>3, FS_EmptySet, Sums DEF Used, Given
<1>5. Balance /\ Thrifty
  BY <1>3, <1>4, Numbers DEF Balance, Thrifty
<1> QED
  BY <1>2, <1>5

LEMMA StepAnswers ==
    ASSUME IInv, Answers, [Next]_vars
    PROVE  Answers'
<1> USE Numbers DEF IInv, Types, Answers
<1>1. ASSUME NEW r \in Req, Lookup(r)
      PROVE  Answers'
  BY <1>1 DEF Lookup
<1>2. ASSUME NEW r \in Req, Take(r)
      PROVE  Answers'
  <2>1. {q \in Req : resp'[q] = "allowed"} \in SUBSET ({q \in Req : resp[q] = "allowed"} \cup {r})
    BY <1>2 DEF Take
  <2>2. IsFiniteSet({q \in Req : resp'[q] = "allowed"})
    <3>1. IsFiniteSet({q \in Req : resp[q] = "allowed"} \cup {r})
      BY FS_AddElement
    <3> QED
      BY <2>1, <3>1, FS_Subset
  <2>3. resp' \in [Req -> {"none", "allowed", "refused"}]
    BY <1>2 DEF Take
  <2> QED
    BY <1>2, <2>2, <2>3 DEF Take, Return
<1>3. CASE Sweep \/ UNCHANGED vars
  BY <1>3 DEF Sweep, vars
<1>4. CASE Restart
  BY <1>4 DEF Restart
<1>5. CASE Tick
  BY <1>5 DEF Tick
<1> QED
  BY <1>1, <1>2, <1>3, <1>4, <1>5 DEF Next

LEMMA Levels ==
    ASSUME IInv
    PROVE  KeptLevel \in Nat /\ KeptLevel <= Full
  BY Numbers DEF IInv, Types, KeptLevel, Tokens, EntryIsRecent

\* A step at which nothing is admitted, refilled or restarted.
LEMMA QuietBalance ==
    ASSUME Balance, Thrifty, now' = now, restarts' = restarts, KeptLevel' = KeptLevel,
           \A from, to \in Nat : Admitted(from, to)' = Admitted(from, to), now \in Nat
    PROVE  Balance' /\ Thrifty'
<1>1. \A from, to \in Nat : Used(from, to)' = Used(from, to) /\ Given(from, to)' = Given(from, to)
  BY DEF Used, Given
<1>2. \A from \in Nat : Used(from, now)' = Used(from, now) /\ Given(from, now)' = Given(from, now)
  BY <1>1
<1> QED
  BY <1>1, <1>2 DEF Balance, Thrifty

\* A call that is admitted takes from the bucket what it adds to the sum.
LEMMA AdmitBalance ==
    ASSUME Account, NEW r \in Req, Take(r),
           KeptLevel >= Interval, KeptLevel' = KeptLevel - Interval,
           resp' = [resp EXCEPT ![r] = "allowed"]
    PROVE  Balance' /\ Thrifty'
<1> USE Numbers DEF Account
<1>0. Answers /\ Types
  BY DEF IInv
<1>1. /\ now \in Nat /\ now' = now /\ restarts' = restarts
      /\ at' = [at EXCEPT ![r] = now] /\ resp[r] = "none"
  BY DEF Take, Return, Answers, IInv, Types
<1>2. \A from, to \in Nat : Given(from, to)' = Given(from, to)
  BY <1>1 DEF Given
<1>3. ASSUME NEW from \in 0 .. now
      PROVE  Used(from, now)' = Used(from, now) + Interval /\ Given(from, now)' = Given(from, now)
  <2>1. Admitted(from, now)' = Admitted(from, now) \cup {r} /\ r \notin Admitted(from, now)
    BY <1>1 DEF Admitted, Answers
  <2>2. IsFiniteSet(Admitted(from, now)) /\ Cardinality(Admitted(from, now)) \in Nat
    <3>1. from \in Nat
      BY <1>1
    <3> QED
      BY <1>0, <1>1, <3>1, Finite
  <2>3. Cardinality(Admitted(from, now))' = Cardinality(Admitted(from, now)) + 1
    BY <2>1, <2>2, FS_AddElement
  <2> QED
    BY <1>1, <1>2, <2>2, <2>3, Sums DEF Used, Given
<1>4. ASSUME NEW from \in 0 .. now, NEW to \in 0 .. now, to # now
      PROVE  Used(from, to)' = Used(from, to)
  <2>1. from \in Nat /\ to \in Nat /\ to < now
    BY <1>1, <1>4
  <2>2. Admitted(from, to)' = Admitted(from, to)
    BY <1>1, <2>1 DEF Admitted, Answers
  <2> QED
    BY <2>2 DEF Used
<1>5. \A from, to \in Nat : Used(from, to) \in Nat /\ Given(from, to) \in Nat
  BY <1>0, Finite
<1>6. KeptLevel \in Nat /\ KeptLevel' \in Nat
  BY Levels
<1>7. \A from \in 0 .. now :
         Used(from, now)' + KeptLevel' <= Given(from, now)' + (now - from)
  BY <1>1, <1>3, <1>5, <1>6 DEF Balance
<1>8. \A from, to \in 0 .. now : from <= to => Used(from, to)' <= Given(from, to)' + (to - from)
  <2> SUFFICES ASSUME NEW from \in 0 .. now, NEW to \in 0 .. now, from <= to
               PROVE  Used(from, to)' <= Given(from, to)' + (to - from)
    OBVIOUS
  <2>1. CASE to = now
    <3>1. Used(from, now)' \in Nat /\ Given(from, now)' \in Nat
      <4>1. Used(from, now)' = Used(from, now) + Interval /\ Given(from, now)' = Given(from, now)
        BY <1>3
      <4>2. Used(from, now) \in Nat /\ Given(from, now) \in Nat
        <5>1. from \in Nat
          BY <1>1
        <5> QED
          BY <1>1, <1>5, <5>1
      <4> QED
        BY <4>1, <4>2
    <3>2. Used(from, now)' <= Given(from, now)' + (now - from)
      BY <1>1, <1>6, <1>7, <3>1
    <3> QED
      BY <1>1, <2>1, <3>2
  <2>2. CASE to # now
    BY <1>1, <1>2, <1>4, <2>2 DEF Balance
  <2> QED
    BY <2>1, <2>2
<1>9. Balance'
  BY <1>1, <1>7, <1>8 DEF Balance
<1>10. Thrifty'
  <2>1. PICK from \in 0 .. now : Used(from, now) + KeptLevel >= Full + (now - from)
    BY DEF Thrifty
  <2>2. Used(from, now)' + KeptLevel' >= Full + (now - from)
    BY <1>1, <1>3, <1>5, <1>6, <2>1
  <2> QED
    BY <1>1, <2>2 DEF Thrifty
<1> QED
  BY <1>9, <1>10

\* A restart fills the bucket once more.
LEMMA RestartBalance ==
    ASSUME Account, Restart
    PROVE  Balance' /\ Thrifty'
<1> USE Numbers DEF Account
<1>0. Answers /\ Types /\ KeptLevel \in Nat /\ KeptLevel' = Full
  BY Levels, RestartLevel DEF IInv
<1>1. /\ now \in Nat /\ now' = now /\ restarts' = restarts \cup {now} /\ now \notin restarts
      /\ UNCHANGED <<resp, at>>
  BY <1>0 DEF Restart, Types
<1>2. \A from, to \in Nat : Used(from, to)' = Used(from, to)
  BY <1>1 DEF Used, Admitted
<1>3. ASSUME NEW from \in 0 .. now
      PROVE  Given(from, now)' = Given(from, now) + Full
  <2>1. restarts' \cap (from .. now) = (restarts \cap (from .. now)) \cup {now}
    BY <1>1
  <2>2. from \in Nat
    BY <1>1
  <2>3. /\ IsFiniteSet(restarts \cap (from .. now))
        /\ Cardinality(restarts \cap (from .. now)) \in Nat
    BY <1>0, <1>1, <2>2, Finite
  <2>4. Cardinality(restarts' \cap (from .. now)) = Cardinality(restarts \cap (from .. now)) + 1
    BY <1>1, <2>1, <2>3, FS_AddElement
  <2> QED
    BY <1>1, <2>3, <2>4, Sums DEF Given
<1>4. ASSUME NEW from \in 0 .. now, NEW to \in 0 .. now, to # now
      PROVE  Given(from, to)' = Given(from, to)
  <2>1. restarts' \cap (from .. to) = restarts \cap (from .. to)
    BY <1>1, <1>4
  <2> QED
    BY <2>1 DEF Given
<1>5. ASSUME NEW from \in 0 .. now, NEW to \in 0 .. now
      PROVE  Used(from, to) \in Nat /\ Given(from, to) \in Nat /\ Used(from, to)' = Used(from, to)
  <2>1. from \in Nat /\ to \in Nat
    BY <1>1
  <2> QED
    BY <1>0, <1>2, <2>1, Finite
<1>6. ASSUME NEW from \in 0 .. now
      PROVE  Used(from, now)' + KeptLevel' <= Given(from, now)' + (now - from)
  <2>1. Used(from, now) \in Nat /\ Given(from, now) \in Nat /\ Used(from, now)' = Used(from, now)
    BY <1>1, <1>5
  <2>2. Used(from, now) + KeptLevel <= Given(from, now) + (now - from)
    BY DEF Balance
  <2> QED
    BY <1>0, <1>1, <1>3, <2>1, <2>2
<1>7. ASSUME NEW from \in 0 .. now, NEW to \in 0 .. now, from <= to
      PROVE  Used(from, to)' <= Given(from, to)' + (to - from)
  <2>1. Used(from, to) <= Given(from, to) + (to - from)
    BY <1>7 DEF Balance
  <2>2. CASE to = now
    BY <1>1, <1>3, <1>5, <2>1, <2>2
  <2>3. CASE to # now
    BY <1>4, <1>5, <2>1, <2>3
  <2> QED
    BY <2>2, <2>3
<1>8. Balance'
  BY <1>1, <1>6, <1>7 DEF Balance
<1>9. Thrifty'
  <2>1. Used(now, now)' \in Nat
    BY <1>1, <1>5
  <2>2. Used(now, now)' + KeptLevel' >= Full + (now - now)
    BY <1>0, <1>1, <2>1
  <2> QED
    BY <1>1, <2>2 DEF Thrifty
<1> QED
  BY <1>8, <1>9

\* A tick refills the bucket by one part, unless it is full.
LEMMA TickBalance ==
    ASSUME Account, Tick
    PROVE  Balance' /\ Thrifty'
<1> USE Numbers DEF Account
<1>0. /\ Answers /\ Types /\ KeptLevel \in Nat /\ KeptLevel <= Full
      /\ KeptLevel' = (IF KeptLevel < Full THEN KeptLevel + 1 ELSE Full)
  BY Levels, TickLevel DEF IInv
<1>1. /\ now \in Nat /\ now' = now + 1 /\ UNCHANGED <<resp, at, restarts>>
  BY <1>0 DEF Tick, Types
<1>2. ASSUME NEW from \in 0 .. now
      PROVE  Used(from, now)' = Used(from, now) /\ Given(from, now)' = Given(from, now)
  <2>1. Admitted(from, now)' = Admitted(from, now)
    BY <1>0, <1>1 DEF Admitted, Answers
  <2>2. restarts' \cap (from .. now') = restarts \cap (from .. now)
    BY <1>0, <1>1 DEF Answers
  <2> QED
    BY <2>1, <2>2 DEF Used, Given
<1>3. ASSUME NEW from, from = now'
      PROVE  Used(from, now)' = 0 /\ Given(from, now)' = Full
  <2>1. Admitted(from, now)' = {} /\ restarts' \cap (from .. now') = {}
    BY <1>0, <1>1, <1>3 DEF Admitted, Answers
  <2> QED
    BY <2>1, FS_EmptySet, Sums DEF Used, Given
<1>4. ASSUME NEW from, NEW to
      PROVE  Used(from, to)' = Used(from, to) /\ Given(from, to)' = Given(from, to)
  BY <1>1 DEF Used, Given, Admitted
<1>5. ASSUME NEW from \in 0 .. now
      PROVE  Used(from, now) \in Nat /\ Given(from, now) \in Nat
  <2>1. from \in Nat
    BY <1>1
  <2> QED
    BY <1>0, <1>1, <2>1, Finite
<1>6. 0 .. now' = (0 .. now) \cup {now'}
  BY <1>1
<1>7. ASSUME NEW from \in 0 .. now'
      PROVE  Used(from, now)' + KeptLevel' <= Given(from, now)' + (now' - from)
  <2>1. CASE from \in 0 .. now
    <3>1. Used(from, now) + KeptLevel <= Given(from, now) + (now - from)
      BY <2>1 DEF Balance
    <3>2. Used(from, now) \in Nat /\ Given(from, now) \in Nat
      BY <1>5, <2>1
    <3>3. Used(from, now)' = Used(from, now) /\ Given(from, now)' = Given(from, now)
      BY <1>2, <2>1
    <3> QED
      BY <1>0, <1>1, <2>1, <3>1, <3>2, <3>3
  <2>2. CASE from = now'
    BY <1>0, <1>1, <1>3, <2>2
  <2> QED
    BY <1>6, <2>1, <2>2
<1>8. ASSUME NEW from \in 0 .. now', NEW to \in 0 .. now', from <= to
      PROVE  Used(from, to)' <= Given(from, to)' + (to - from)
  <2>1. CASE to \in 0 .. now
    <3>1. from \in 0 .. now
      BY <1>1, <1>8, <2>1
    <3> QED
      BY <1>4, <1>8, <2>1, <3>1 DEF Balance
  <2>2. CASE to = now'
    <3>1. Used(from, now)' = Used(from, to)' /\ Given(from, now)' = Given(from, to)'
      BY <2>2 DEF Used, Given, Admitted
    <3>2. Used(from, now)' \in Nat /\ Given(from, now)' \in Nat
      BY <1>1, <1>2, <1>3, <1>5, <1>6
    <3> QED
      BY <1>0, <1>1, <1>7, <2>2, <3>1, <3>2
  <2> QED
    BY <1>6, <2>1, <2>2
<1>9. Balance'
  BY <1>7, <1>8 DEF Balance
<1>10. Thrifty'
  <2>1. CASE KeptLevel < Full
    <3>1. PICK from \in 0 .. now : Used(from, now) + KeptLevel >= Full + (now - from)
      BY DEF Thrifty
    <3>2. Used(from, now)' + KeptLevel' >= Full + (now' - from)
      BY <1>0, <1>1, <1>2, <1>5, <2>1, <3>1
    <3> QED
      BY <1>1, <3>2 DEF Thrifty
  <2>2. CASE ~(KeptLevel < Full)
    <3>1. PICK from \in 0 .. now' : from = now'
      BY <1>1
    <3>2. Used(from, now)' + KeptLevel' >= Full + (now' - from)
      BY <1>0, <1>1, <1>3, <2>2, <3>1
    <3> QED
      BY <3>1, <3>2 DEF Thrifty
  <2> QED
    BY <2>1, <2>2
<1> QED
  BY <1>9, <1>10

\* A call that is refused, and the other steps, move nothing.
LEMMA RefuseBalance ==
    ASSUME Account, NEW r \in Req, Take(r), KeptLevel' = KeptLevel,
           resp' = [resp EXCEPT ![r] = "refused"]
    PROVE  Balance' /\ Thrifty'
<1>1. /\ now \in Nat /\ now' = now /\ restarts' = restarts
      /\ at' = [at EXCEPT ![r] = now] /\ resp[r] = "none"
  BY DEF Account, Take, Return, Answers, IInv, Types
<1>2. \A from, to \in Nat : Admitted(from, to)' = Admitted(from, to)
  BY <1>1 DEF Admitted, Account, Answers
<1> QED
  BY <1>1, <1>2, QuietBalance DEF Account

LEMMA StepAccount ==
    ASSUME StallIsShort, Account, [Next]_vars
    PROVE  Account'
<1>1. IInv' /\ Answers'
  BY StepInv, StepAnswers DEF Account
<1>2. ASSUME NEW r \in Req, Take(r)
      PROVE  Balance' /\ Thrifty'
  BY <1>2, TakeLevel, AdmitBalance, RefuseBalance DEF Account
<1>3. ASSUME (\E r \in Req : Lookup(r)) \/ Sweep \/ UNCHANGED vars
      PROVE  Balance' /\ Thrifty'
  <2>1. KeptLevel' = KeptLevel /\ UNCHANGED <<now, resp, at, restarts>>
    BY <1>3, QuietLevel DEF Account
  <2>2. \A from, to \in Nat : Admitted(from, to)' = Admitted(from, to)
    BY <2>1 DEF Admitted
  <2> QED
    BY <2>1, <2>2, QuietBalance DEF Account, IInv, Types
<1> QED
  BY <1>1, <1>2, <1>3, RestartBalance, TickBalance DEF Account, Next

LEMMA AccountHolds == ASSUME StallIsShort PROVE Spec => []Account
<1>1. Init => Account
  BY InitInv, InitAccount DEF Account
<1>2. Account /\ [Next]_vars => Account'
  BY StepAccount
<1> QED
  BY <1>1, <1>2, PTL DEF Spec

-----------------------------------------------------------------------------

\* Over any stretch of time Allow admits no more than one full bucket, its
\* refill, and a full bucket for each restart.
THEOREM AdmissionsBounded ==
    ASSUME StallIsShort
    PROVE  Spec => []BurstPlusRate
<1>1. Account => BurstPlusRate
  <2> SUFFICES ASSUME Account,
                      NEW r \in Admitted(0, now), NEW q \in Admitted(0, now), at[r] <= at[q]
               PROVE  Interval * Cardinality(Admitted(at[r], at[q]))
                        <= Full * (1 + Cardinality(restarts \cap (at[r] .. at[q]))) + (at[q] - at[r])
    BY DEF BurstPlusRate
  <2>1. at[r] \in 0 .. now /\ at[q] \in 0 .. now
    BY DEF Admitted, Account, Answers, IInv, Types
  <2>2. Used(at[r], at[q]) <= Given(at[r], at[q]) + (at[q] - at[r])
    BY <2>1 DEF Account, Balance
  <2> QED
    BY <2>2 DEF Used, Given
<1> QED
  BY <1>1, AccountHolds, PTL

LEMMA StepRefusal ==
    ASSUME StallIsShort, Account, Account', RefusalJustified, [Next]_vars
    PROVE  RefusalJustified'
<1> USE Numbers
<1>0. Answers /\ Types /\ Answers' /\ Types'
  BY DEF Account, IInv
<1> SUFFICES ASSUME NEW r \in Req, resp'[r] = "refused"
             PROVE  \E from \in 0 .. at'[r] :
                      Interval * Cardinality(Admitted(from, at[r])') > Full + (at'[r] - from) - Interval
  BY DEF RefusalJustified, Admitted
\* Answers are never taken back.
<1>1. \A q \in Req : resp[q] # "none" => resp'[q] = resp[q] /\ at'[q] = at[q]
  <2>1. ASSUME NEW p \in Req, Take(p)
        PROVE  \A q \in Req : resp[q] # "none" => resp'[q] = resp[q] /\ at'[q] = at[q]
    BY <1>0, <2>1 DEF Take, Return, Answers, Types
  <2>2. ASSUME NEW p \in Req, Lookup(p)
        PROVE  UNCHANGED <<resp, at>>
    BY <2>2 DEF Lookup
  <2>3. Sweep \/ Restart \/ Tick \/ UNCHANGED vars => UNCHANGED <<resp, at>>
    BY DEF Sweep, Restart, Tick, vars
  <2> QED
    BY <2>1, <2>2, <2>3 DEF Next
<1>2. CASE resp[r] # "none"
  <2>1. resp[r] = "refused" /\ at'[r] = at[r] /\ at[r] \in Nat
    BY <1>0, <1>1, <1>2 DEF Answers
  <2>2. PICK from \in 0 .. at[r] :
           Interval * Cardinality(Admitted(from, at[r])) > Full + (at[r] - from) - Interval
    BY <2>1 DEF RefusalJustified
  <2> DEFINE A == Admitted(from, at[r])
             B == Admitted(from, at[r])'
  <2>3. A \subseteq B
    BY <1>1, <2>1 DEF Admitted
  <2>4. IsFiniteSet(B)
    <3>1. B \in SUBSET {q \in Req : resp'[q] = "allowed"}
      BY DEF Admitted
    <3>2. IsFiniteSet({q \in Req : resp'[q] = "allowed"})
      BY <1>0 DEF Answers
    <3> HIDE DEF B
    <3> QED
      BY <3>1, <3>2, FS_Subset
  <2>5. Cardinality(A) \in Nat /\ Cardinality(B) \in Nat /\ Cardinality(A) <= Cardinality(B)
    <3> HIDE DEF A, B
    <3> QED
      BY <2>3, <2>4, FS_Subset, FS_CardinalityType
  <2>6. Interval * Cardinality(A) <= Interval * Cardinality(B)
    BY <2>5, Monotone
  <2>7. Interval * Cardinality(A) \in Nat /\ Interval * Cardinality(B) \in Nat
    BY <2>5, Sums
  <2>8. Interval * Cardinality(B) > Full + (at'[r] - from) - Interval
    <3> HIDE DEF A, B
    <3>1. Interval * Cardinality(A) > Full + (at[r] - from) - Interval
      BY <2>2 DEF A
    <3> QED
      BY <2>1, <2>6, <2>7, <3>1
  <2> QED
    BY <2>1, <2>8
<1>3. CASE resp[r] = "none"
  <2>1. Take(r)
    <3>1. ASSUME NEW p \in Req, Take(p), p # r
          PROVE  FALSE
      BY <1>0, <1>3, <3>1 DEF Take, Return, Answers
    <3>2. ASSUME NEW p \in Req, Lookup(p)
          PROVE  FALSE
      BY <1>3, <3>2 DEF Lookup
    <3>3. ~(Sweep \/ Restart \/ Tick \/ UNCHANGED vars)
      BY <1>3 DEF Sweep, Restart, Tick, vars
    <3> QED
      BY <3>1, <3>2, <3>3 DEF Next
  <2>2. KeptLevel < Interval /\ resp' = [resp EXCEPT ![r] = "refused"]
    BY <1>0, <2>1, TakeLevel DEF Account, Answers
  <2>3. now \in Nat /\ at' = [at EXCEPT ![r] = now]
    BY <1>0, <2>1 DEF Take, Return, Types
  <2>4. PICK from \in 0 .. now : Used(from, now) + KeptLevel >= Full + (now - from)
    BY DEF Account, Thrifty
  <2>5. at'[r] = now /\ Admitted(from, at[r])' = Admitted(from, now)
    BY <1>0, <1>3, <2>2, <2>3 DEF Admitted, Answers
  <2>6. Used(from, now) \in Nat /\ KeptLevel \in Nat
    <3>1. from \in Nat
      BY <2>3
    <3> QED
      BY <1>0, <2>3, <3>1, Finite, Levels DEF Account
  <2>7. Used(from, now) > Full + (now - from) - Interval
    BY <2>2, <2>3, <2>4, <2>6
  <2> QED
    BY <2>5, <2>7 DEF Used
<1> QED
  BY <1>2, <1>3

\* Nobody is refused but when everything a bucket kept for ever could give was
\* taken.
THEOREM RefusalsHold ==
    ASSUME StallIsShort
    PROVE  Spec => []RefusalJustified
<1>1. Init => RefusalJustified
  BY DEF Init, RefusalJustified
<1>2. Account /\ Account' /\ RefusalJustified /\ [Next]_vars => RefusalJustified'
  BY StepRefusal
<1> QED
  BY <1>1, <1>2, AccountHolds, PTL DEF Spec
=============================================================================
