-------------------------- MODULE RedisLimiterProofs --------------------------
(***************************************************************************)
(* For any limit and window, any number of calls, and clocks and delays of *)
(* any size: how many milliseconds the sorted set counts, and who is       *)
(* refused, however the scripts are ordered, lost and sent again.          *)
(***************************************************************************)
EXTENDS RedisLimiter, FiniteSetTheorems, TLAPS

LEMMA Numbers ==
    /\ Limit \in Nat /\ Limit > 0 /\ Window \in Nat /\ Window > 0
    /\ Skew \in Nat /\ Delay \in Nat /\ MaxTime \in Nat
  BY RedisLimiterAssumption

Types ==
    /\ now \in Nat /\ expireAt \in Nat
    /\ zset \subseteq Nat /\ IsFiniteSet(zset)
    /\ pc \in [Req -> {"idle", "sent", "done"}]
    /\ since \in [Req -> Nat] /\ stamp \in [Req -> Nat]
    /\ resp \in [Req -> {"none", "allowed", "refused", "open"}]
    /\ counted \subseteq Req

\* A call is under way for no longer than Delay, and its stamp is ahead of the
\* clock of Redis by no more than Skew.
StampsAreRecent ==
    \A r \in Req :
        /\ pc[r] = "sent" => now <= since[r] + Delay
        /\ pc[r] # "idle" => /\ since[r] <= now
                             /\ since[r] <= stamp[r] /\ stamp[r] <= since[r] + Skew
        /\ r \in counted \/ resp[r] # "none" => pc[r] # "idle"

\* The set holds the stamps of calls that were counted, and its key does not
\* expire before the last of them is a window old.
MembersCounted ==
    /\ \A m \in zset : \E r \in counted : stamp[r] = m
    /\ \A m \in zset : m + Window <= expireAt + Skew
    /\ expireAt <= now + Window

\* A stamp that was counted stays in the set until it is a window old, by the
\* clock that is furthest ahead.
CountedKept == \A r \in counted : stamp[r] \in zset \/ stamp[r] + Window <= now + Skew

Base == Types /\ StampsAreRecent /\ MembersCounted /\ CountedKept

-----------------------------------------------------------------------------

LEMMA InitBase == Init => Base
  BY Numbers, FS_EmptySet
  DEF Init, Base, Types, StampsAreRecent, MembersCounted, CountedKept

\* The script keeps a finite set of the stamps that are not a window old, and
\* its own.
LEMMA RecentFinite ==
    ASSUME Types, NEW t \in Nat
    PROVE  IsFiniteSet(Recent(t)) /\ Recent(t) \subseteq zset /\ IsFiniteSet(Recent(t) \cup {t})
<1>1. Recent(t) \in SUBSET zset
  BY DEF Recent
<1>2. IsFiniteSet(Recent(t))
  BY <1>1, FS_Subset DEF Types
<1> QED
  BY <1>1, <1>2, FS_AddElement

LEMMA ExecuteBase ==
    ASSUME Base, NEW r \in Req, pc[r] = "sent", Execute(r),
           UNCHANGED <<now, since, stamp>>,
           \/ \E a \in {"allowed", "refused", "open"} : Return(r, a)
           \/ UNCHANGED <<pc, resp>>
    PROVE  Base'
<1> USE Numbers DEF Base
<1>0. stamp[r] \in Nat
  BY DEF Types
<1>1. IsFiniteSet(Recent(stamp[r])) /\ Recent(stamp[r]) \subseteq zset
      /\ IsFiniteSet(Recent(stamp[r]) \cup {stamp[r]})
  BY <1>0, RecentFinite
<1>2. Types'
  <2>1. zset' = Recent(stamp[r]) \/ zset' = Recent(stamp[r]) \cup {stamp[r]}
    BY DEF Execute
  <2>2. IsFiniteSet(zset') /\ zset' \subseteq Nat
    BY <1>0, <1>1, <2>1 DEF Types
  <2>3. expireAt' \in Nat /\ counted' \subseteq Req
    BY DEF Types, Execute
  <2> QED
    BY <2>2, <2>3 DEF Types, Return
<1>3. StampsAreRecent'
  BY <1>0 DEF Types, StampsAreRecent, Execute, Return
<1>4. stamp[r] <= now + Skew
  BY <1>0 DEF Types, StampsAreRecent
<1>5. MembersCounted'
  <2>0. now \in Nat /\ expireAt \in Nat /\ zset \subseteq Nat
    BY DEF Types
  <2>1. CASE Full(stamp[r])
    <3>1. zset' = Recent(stamp[r]) /\ expireAt' = expireAt /\ counted' = counted
      BY <2>1 DEF Execute
    <3> QED
      BY <1>1, <3>1 DEF MembersCounted
  <2>2. CASE ~Full(stamp[r])
    <3>1. /\ zset' = Recent(stamp[r]) \cup {stamp[r]}
          /\ expireAt' = now + Window /\ counted' = counted \cup {r}
      BY <2>2 DEF Execute
    <3>2. \A m \in zset' : \E q \in counted' : stamp[q] = m
      BY <1>1, <3>1 DEF MembersCounted
    <3>3. \A m \in zset' : m + Window <= expireAt' + Skew
      <4>1. expireAt <= now + Window /\ \A m \in zset : m + Window <= expireAt + Skew
        BY DEF MembersCounted
      <4>2. \A m \in zset : m + Window <= now + Window + Skew
        BY <2>0, <4>1
      <4>3. stamp[r] + Window <= now + Window + Skew
        BY <1>0, <1>4, <2>0
      <4> HIDE DEF Base
      <4> QED
        BY <1>1, <3>1, <4>2, <4>3
    <3> QED
      BY <2>0, <3>1, <3>2, <3>3 DEF MembersCounted
  <2> QED
    BY <2>1, <2>2
<1>6. CountedKept'
  BY <1>0, <1>4 DEF Types, CountedKept, Execute, Recent
<1> QED
  BY <1>2, <1>3, <1>5, <1>6

LEMMA StepBase ==
    ASSUME Base, [Next]_vars
    PROVE  Base'
<1> USE Numbers
<1> USE DEF Base, Types, StampsAreRecent, MembersCounted, CountedKept
<1>1. ASSUME NEW r \in Req, Call(r)
      PROVE  Base'
  BY <1>1, SMTT(30) DEF Call
<1>2. ASSUME NEW r \in Req, Script(r) \/ AnswerLost(r)
      PROVE  Base'
  <2> HIDE DEF Base, Types, StampsAreRecent, MembersCounted, CountedKept
  <2> QED
    BY <1>2, ExecuteBase DEF Script, AnswerLost
<1>3. ASSUME NEW r \in Req, FailOpen(r)
      PROVE  Base'
  BY <1>3, SMTT(30) DEF FailOpen, Return
<1>4. CASE Tick
  <2>1. IsFiniteSet(zset') /\ zset' \subseteq Nat
    BY <1>4, FS_EmptySet, Zenon DEF Tick
  <2>2. Types'
    BY <1>4, <2>1 DEF Tick
  <2>3. StampsAreRecent'
    BY <1>4 DEF Tick
  <2>4. MembersCounted'
    <3>1. zset' \subseteq zset /\ now' >= now /\ UNCHANGED <<expireAt, counted, stamp>>
      BY <1>4 DEF Tick
    <3>2. now \in Nat /\ now' \in Nat /\ expireAt \in Nat /\ MembersCounted
      BY <2>2
    <3> HIDE DEF Base, Types, StampsAreRecent, CountedKept
    <3>3. \A m \in zset' : \E q \in counted' : stamp'[q] = m
      BY <3>1, <3>2
    <3>4. \A m \in zset' : m + Window <= expireAt' + Skew
      BY <3>1, <3>2
    <3>5. expireAt' <= now' + Window
      BY <1>4, <3>2 DEF Tick
    <3> QED
      BY <3>3, <3>4, <3>5
  <2>5. CountedKept'
    BY <1>4 DEF Tick
  <2> QED
    BY <2>2, <2>3, <2>4, <2>5
<1>5. CASE UNCHANGED vars
  BY <1>5 DEF vars
<1> HIDE DEF Base
<1> QED
  BY <1>1, <1>2, <1>3, <1>4, <1>5 DEF Next

LEMMA BaseHolds == Spec => []Base
<1>1. Base /\ [Next]_vars => Base'
  BY StepBase
<1> QED
  BY <1>1, InitBase, PTL DEF Spec

-----------------------------------------------------------------------------

\* At most Limit stamps that were counted lie in any stretch of this length.
Stretch == Window - Skew - Delay
Bounded ==
    \A from \in Nat : IsFiniteSet(Counted(from, Stretch)) /\ Cardinality(Counted(from, Stretch)) <= Limit

LEMMA CountedFinite ==
    ASSUME Types, NEW from \in Int, NEW length \in Int
    PROVE  IsFiniteSet(Counted(from, length)) /\ Cardinality(Counted(from, length)) \in Nat
<1>1. Counted(from, length) \in SUBSET (from .. from + length)
  BY DEF Counted, TimesOf, Types
<1>2. IsFiniteSet(from .. from + length)
  BY FS_Interval
<1>3. IsFiniteSet(Counted(from, length))
  BY <1>1, <1>2, FS_Subset
<1> QED
  BY <1>3, FS_CardinalityType

\* Everything counted so near to the stamp of a call under way is still in the
\* set when its script runs: it was removed neither by another script nor with
\* the key.
LEMMA NearIsRecent ==
    ASSUME Base, NEW r \in Req, pc[r] = "sent",
           NEW from \in Int, from <= stamp[r], stamp[r] < from + Stretch
    PROVE  Counted(from, Stretch) \subseteq Recent(stamp[r])
<1> USE Numbers
<1> SUFFICES ASSUME NEW q \in counted, from <= stamp[q], stamp[q] < from + Stretch
             PROVE  stamp[q] \in Recent(stamp[r])
  BY DEF Counted, TimesOf
<1>1. stamp[r] \in Nat /\ stamp[q] \in Nat /\ now \in Nat /\ now <= stamp[r] + Delay
  BY DEF Base, Types, StampsAreRecent
<1>2. stamp[q] > stamp[r] - Window
  BY <1>1 DEF Stretch
<1>3. ~(stamp[q] + Window <= now + Skew)
  BY <1>1 DEF Stretch
<1> QED
  BY <1>2, <1>3 DEF Base, CountedKept, Recent

LEMMA ExecuteBounded ==
    ASSUME Base, Bounded, NEW r \in Req, pc[r] = "sent", Execute(r), UNCHANGED stamp
    PROVE  Bounded'
<1> USE Numbers
<1> SUFFICES ASSUME NEW from \in Nat
             PROVE  /\ IsFiniteSet(Counted(from, Stretch)')
                    /\ Cardinality(Counted(from, Stretch)') <= Limit
  BY DEF Bounded, Counted, TimesOf, Stretch
<1> DEFINE t == stamp[r]
           C == Counted(from, Stretch)
<1>0. IsFiniteSet(C) /\ Cardinality(C) \in Nat /\ Cardinality(C) <= Limit
  BY CountedFinite DEF Bounded, Base, Stretch
<1>1. t \in Nat
  BY DEF Base, Types
<1>2. CASE Full(t) \/ ~(from <= t /\ t < from + Stretch)
  <2>1. ASSUME Full(t)
        PROVE  C' = C
    BY <2>1 DEF Execute, Counted, TimesOf, Stretch
  <2>2. ASSUME ~(from <= t /\ t < from + Stretch)
        PROVE  C' = C
    <3>1. counted' = counted \/ counted' = counted \cup {r}
      BY DEF Execute
    <3>2. {q \in counted' : from <= stamp[q] /\ stamp[q] < from + Stretch} =
          {q \in counted : from <= stamp[q] /\ stamp[q] < from + Stretch}
      BY <2>2, <3>1
    <3> QED
      BY <3>2 DEF Counted, TimesOf, Stretch
  <2>3. C' = C
    BY <1>2, <2>1, <2>2
  <2> QED
    BY <1>0, <2>3
<1>3. CASE ~Full(t) /\ from <= t /\ t < from + Stretch
  <2>0. IsFiniteSet(Recent(t))
    BY <1>1, RecentFinite DEF Base
  <2>1. C \in SUBSET Recent(t)
    BY <1>3, NearIsRecent
  <2>2. Cardinality(C) <= Cardinality(Recent(t)) /\ Cardinality(Recent(t)) \in Nat
    BY <2>0, <2>1, FS_Subset, FS_CardinalityType
  <2>3. Cardinality(C) + 1 <= Limit
    BY <1>0, <1>3, <2>2 DEF Full
  <2>4. C' = C \cup {t}
    BY <1>3 DEF Execute, Counted, TimesOf, Stretch
  <2>5. IsFiniteSet(C \cup {t}) /\ Cardinality(C \cup {t}) <= Cardinality(C) + 1
    BY <1>0, FS_AddElement
  <2>6. Cardinality(C \cup {t}) \in Nat
    BY <2>5, FS_CardinalityType
  <2> QED
    BY <1>0, <2>3, <2>4, <2>5, <2>6
<1> QED
  BY <1>2, <1>3

LEMMA StepBounded ==
    ASSUME Base, Bounded, [Next]_vars
    PROVE  Bounded'
<1>1. ASSUME NEW r \in Req, Script(r) \/ AnswerLost(r)
      PROVE  Bounded'
  BY <1>1, ExecuteBounded DEF Script, AnswerLost
<1>2. CASE UNCHANGED counted /\ \A r \in counted : stamp'[r] = stamp[r]
  <2>1. \A from \in Nat : Counted(from, Stretch)' = Counted(from, Stretch)
    BY <1>2 DEF Counted, TimesOf, Stretch
  <2> QED
    BY <2>1 DEF Bounded
<1>3. ASSUME NEW r \in Req, Call(r)
      PROVE  UNCHANGED counted /\ \A q \in counted : stamp'[q] = stamp[q]
  BY <1>3 DEF Call, Base, Types, StampsAreRecent
<1>4. (\E r \in Req : FailOpen(r)) \/ Tick \/ UNCHANGED vars => UNCHANGED <<counted, stamp>>
  BY DEF FailOpen, Tick, vars
<1> QED
  BY <1>1, <1>2, <1>3, <1>4 DEF Next

\* In any time that is shorter than the window by the skew of the clocks and
\* the delay of the scripts no more than Limit milliseconds are counted:
\* "accurate across multiple instances" holds up to these two.
THEOREM LimitHolds == Spec => []AtMostLimitStamps
<1>1. Init => Bounded
  <2>1. ASSUME Init PROVE \A from \in Nat : Counted(from, Stretch) = {}
    BY <2>1 DEF Init, Counted, TimesOf
  <2> QED
    BY <2>1, FS_EmptySet, Numbers DEF Bounded
<1>2. Base /\ Bounded /\ [Next]_vars => Bounded'
  BY StepBounded
<1>3. Bounded => AtMostLimitStamps
  BY Numbers DEF Bounded, AtMostLimitStamps, Stamps, Stretch
<1> QED
  BY <1>1, <1>2, <1>3, BaseHolds, PTL DEF Spec

-----------------------------------------------------------------------------

LEMMA BetweenFinite ==
    ASSUME NEW S, NEW from \in Int, NEW to \in Int, S \subseteq from .. to
    PROVE  IsFiniteSet(S) /\ Cardinality(S) \in Nat
  BY FS_Interval, FS_Subset, FS_CardinalityType

\* What a refusal rests on is what the set held of others, and that only grows.
LEMMA StepRefusal ==
    ASSUME Base, Base', RefusalJustified, [Next]_vars
    PROVE  RefusalJustified'
<1> USE Numbers
<1> DEFINE Others(r) == TimesOf(counted \ {r}, stamp[r] - Window + 1, Window + Skew + Delay)
           Enough(r) == IF r \in counted THEN Limit - 1 ELSE Limit
<1> SUFFICES ASSUME NEW r \in Req, resp'[r] = "refused"
             PROVE  Cardinality(Others(r)') >= Enough(r)'
  BY DEF RefusalJustified
<1> DEFINE D == Others(r)'
<1>1. stamp[r] \in Nat /\ stamp'[r] \in Nat
  BY DEF Base, Types
<1>2. IsFiniteSet(D) /\ Cardinality(D) \in Nat
  <2>1. D \subseteq (stamp'[r] - Window + 1) .. (stamp'[r] + 1 + Skew + Delay)
    BY <1>1 DEF TimesOf, Base, Types
  <2>2. stamp'[r] - Window + 1 \in Int /\ stamp'[r] + 1 + Skew + Delay \in Int
    BY <1>1
  <2> HIDE DEF D
  <2> QED
    BY <2>1, <2>2, BetweenFinite
<1>3. ASSUME NEW S, S \subseteq D, NEW n \in Int, Cardinality(S) >= n
      PROVE  Cardinality(D) >= n
  <2> HIDE DEF D
  <2>1. Cardinality(S) <= Cardinality(D) /\ Cardinality(S) \in Nat
    BY <1>2, <1>3, FS_Subset, FS_CardinalityType
  <2> QED
    BY <1>2, <1>3, <2>1
<1>4. CASE resp[r] = "refused"
  <2>1. counted \subseteq counted' /\ \A q \in counted \cup {r} : stamp'[q] = stamp[q]
    <3>1. pc[r] # "idle" /\ \A q \in counted : pc[q] # "idle"
      BY <1>4 DEF Base, Types, StampsAreRecent
    <3>2. ASSUME NEW q \in Req, Call(q)
          PROVE  counted' = counted /\ \A p \in counted \cup {r} : stamp'[p] = stamp[p]
      BY <3>1, <3>2 DEF Call, Base, Types
    <3>3. ASSUME NEW q \in Req, Script(q) \/ AnswerLost(q) \/ FailOpen(q)
          PROVE  counted \subseteq counted' /\ stamp' = stamp
      BY <3>3 DEF Script, AnswerLost, FailOpen, Execute
    <3>4. Tick \/ UNCHANGED vars => counted' = counted /\ stamp' = stamp
      BY DEF Tick, vars
    <3> QED
      BY <3>2, <3>3, <3>4 DEF Next
  <2>2. Others(r) \subseteq D
    BY <2>1 DEF TimesOf
  <2>3. Cardinality(Others(r)) >= Enough(r)
    BY <1>4 DEF RefusalJustified
  <2>4. Enough(r) \in Int /\ Enough(r)' \in Int /\ Enough(r)' <= Enough(r)
    BY <2>1
  <2>5. Cardinality(D) >= Enough(r)
    <3> HIDE DEF D, Others, Enough
    <3> QED
      BY <1>3, <2>2, <2>3, <2>4
  <2> HIDE DEF Others, Enough
  <2> QED
    BY <1>2, <2>4, <2>5
<1>5. CASE resp[r] # "refused"
  <2>1. Script(r) /\ Full(stamp[r])
    BY <1>5 DEF Next, vars, Call, Script, AnswerLost, FailOpen, Tick, Return, Base, Types
  <2>2. counted' = counted /\ stamp' = stamp
    BY <2>1 DEF Script, Execute
  <2> DEFINE R == Recent(stamp[r])
  <2>3. ASSUME NEW m \in R, NEW q \in counted, q # r, stamp[q] = m
        PROVE  m \in D
    <3>1. m \in zset /\ m > stamp[r] - Window
      BY DEF Recent
    <3>2. m \in Nat /\ m <= now + Skew /\ now <= stamp[r] + Delay /\ now \in Nat
      BY <2>1, <3>1 DEF Base, Types, StampsAreRecent, MembersCounted, Script
    <3>3. m < stamp[r] - Window + 1 + (Window + Skew + Delay)
      BY <1>1, <3>2
    <3> QED
      BY <1>1, <2>2, <2>3, <3>1, <3>2, <3>3 DEF TimesOf
  <2>4. \A m \in R : \E q \in counted : stamp[q] = m
    BY DEF Base, MembersCounted, Recent
  <2>5. IsFiniteSet(R) /\ Cardinality(R) \in Nat /\ Cardinality(R) >= Limit
    BY <1>1, <2>1, RecentFinite, FS_CardinalityType DEF Full, Base
  <2>6. CASE r \notin counted
    <3>1. R \subseteq D
      BY <2>3, <2>4, <2>6
    <3>2. Enough(r)' = Limit
      BY <2>2, <2>6
    <3>3. Cardinality(D) >= Limit
      <4> HIDE DEF D, R
      <4> QED
        BY <1>3, <2>5, <3>1
    <3> QED
      BY <3>2, <3>3
  <2>7. CASE r \in counted
    <3>1. R \ {stamp[r]} \subseteq D
      BY <2>3, <2>4
    <3>2. Cardinality(R \ {stamp[r]}) >= Limit - 1
      <4> HIDE DEF R
      <4>1. Cardinality(R \ {stamp[r]}) >= Cardinality(R) - 1
        BY <2>5, FS_RemoveElement
      <4> DEFINE S == R \ {stamp[r]}
      <4>2. Cardinality(S) \in Nat
        BY <2>5, FS_RemoveElement, FS_CardinalityType
      <4> QED
        BY <2>5, <4>1, <4>2
    <3>3. Enough(r)' = Limit - 1
      BY <2>2, <2>7
    <3>4. Cardinality(D) >= Limit - 1
      <4> DEFINE S == R \ {stamp[r]}
      <4> HIDE DEF D, S
      <4> QED
        BY <1>3, <3>1, <3>2
    <3> QED
      BY <3>3, <3>4
  <2> QED
    BY <2>6, <2>7
<1> QED
  BY <1>4, <1>5

\* Whoever is refused came when others had filled a window, up to the skew and
\* the delay, or all but one of its places, if its own first run had taken that
\* one and its answer was lost.
THEOREM RefusalsHold == Spec => []RefusalJustified
<1>1. Init => RefusalJustified
  BY DEF Init, RefusalJustified
<1>2. Base /\ Base' /\ RefusalJustified /\ [Next]_vars => RefusalJustified'
  BY StepRefusal
<1> QED
  BY <1>1, <1>2, BaseHolds, PTL DEF Spec
=============================================================================
