----------------------------- MODULE MarketProofs -----------------------------
(***************************************************************************)
(* For any markets and items, pages of any size and lists of any length:   *)
(* what a client that pages through a list by its offset misses and sees   *)
(* while eyebroker adds items and closes positions.                        *)
(***************************************************************************)
EXTENDS Market, FiniteSetTheorems, SequenceTheorems, TLAPS

\* The items eyebroker lists: each in one market and in one place.
Listed ==
    /\ listing \in [MarketId -> Seq(Item)]
    /\ \A m, n \in MarketId : \A a \in DOMAIN listing[m], b \in DOMAIN listing[n] :
          listing[m][a] = listing[n][b] => m = n /\ a = b
    /\ \A m \in MarketId : IsFiniteSet(Items(m))

-----------------------------------------------------------------------------
\* Places in a list.

LEMMA Inserted ==
    ASSUME NEW S, NEW s \in Seq(S), NEW e \in S, NEW k \in 1 .. Len(s) + 1
    PROVE  /\ InsertAt(s, k, e) \in Seq(S)
           /\ Len(InsertAt(s, k, e)) = Len(s) + 1
           /\ \A j \in 1 .. Len(s) + 1 :
                 InsertAt(s, k, e)[j] = IF j < k THEN s[j] ELSE IF j = k THEN e ELSE s[j - 1]
<1> DEFINE front == SubSeq(s, 1, k - 1)
           back == SubSeq(s, k, Len(s))
<1>1. /\ front \in Seq(S) /\ Len(front) = k - 1
      /\ \A j \in 1 .. k - 1 : front[j] = s[j]
  OBVIOUS
<1>2. /\ back \in Seq(S) /\ Len(back) = Len(s) - k + 1
      /\ \A j \in 1 .. Len(s) - k + 1 : back[j] = s[k + j - 1]
  OBVIOUS
<1>3. /\ <<e>> \in Seq(S) /\ Len(<<e>>) = 1 /\ <<e>>[1] = e
  OBVIOUS
<1>4. InsertAt(s, k, e) = (front \o <<e>>) \o back
  BY DEF InsertAt
<1> HIDE DEF front, back
<1>5. /\ front \o <<e>> \in Seq(S) /\ Len(front \o <<e>>) = k
      /\ \A j \in 1 .. k : (front \o <<e>>)[j] = IF j < k THEN s[j] ELSE e
  BY <1>1, <1>3
<1>6. InsertAt(s, k, e) \in Seq(S) /\ Len(InsertAt(s, k, e)) = Len(s) + 1
  <2>1. /\ InsertAt(s, k, e) \in Seq(S)
        /\ Len(InsertAt(s, k, e)) = Len(front \o <<e>>) + Len(back)
    <3> DEFINE head == front \o <<e>>
    <3>1. head \in Seq(S) /\ back \in Seq(S) /\ InsertAt(s, k, e) = head \o back
      BY <1>2, <1>4, <1>5
    <3> HIDE DEF head
    <3>2. head \o back \in Seq(S) /\ Len(head \o back) = Len(head) + Len(back)
      BY <3>1, ConcatProperties
    <3> QED
      BY <3>1, <3>2 DEF head
  <2> QED
    <3>1. Len(s) \in Nat /\ k \in Nat /\ k + (Len(s) - k + 1) = Len(s) + 1
      OBVIOUS
    <3>2. Len(front \o <<e>>) = k /\ Len(back) = Len(s) - k + 1
      BY <1>2, <1>5
    <3> QED
      BY <2>1, <3>1, <3>2
<1>7. ASSUME NEW j \in 1 .. Len(s) + 1
      PROVE  InsertAt(s, k, e)[j] = IF j < k THEN s[j] ELSE IF j = k THEN e ELSE s[j - 1]
  <2>1. CASE j <= k
    BY <1>2, <1>4, <1>5, <2>1
  <2>2. CASE j > k
    <3>1. InsertAt(s, k, e)[j] = back[j - k]
      BY <1>2, <1>4, <1>5, <2>2
    <3> QED
      BY <1>2, <2>2, <3>1
  <2> QED
    BY <2>1, <2>2
<1> QED
  BY <1>6, <1>7

\* Items of a market are those with a place, and the places order them.
LEMMA Order ==
    ASSUME Listed, NEW m \in MarketId
    PROVE  /\ \A i \in Items(m) : NotAfter(m, i, i)
           /\ \A i, j \in Items(m) : NotAfter(m, i, j) \/ NotAfter(m, j, i)
           /\ \A i, j \in Items(m) : NotAfter(m, i, j) /\ NotAfter(m, j, i) => i = j
           /\ \A i, j, k \in Items(m) : NotAfter(m, i, j) /\ NotAfter(m, j, k) => NotAfter(m, i, k)
<1> DEFINE s == listing[m]
<1>1. s \in Seq(Item) /\ DOMAIN s = 1 .. Len(s) /\ Len(s) \in Nat
  BY DEF Listed
<1>2. \A a, b \in DOMAIN s : s[a] = s[b] => a = b
  BY DEF Listed
<1>3. \A i \in Items(m) : \E a \in DOMAIN s : s[a] = i
  BY DEF Items, ToSet
<1>4. \A i, j : NotAfter(m, i, j) <=> \E a, b \in DOMAIN s : a <= b /\ s[a] = i /\ s[b] = j
  BY DEF NotAfter
<1> HIDE DEF s
<1>5. \A i \in Items(m) : NotAfter(m, i, i)
  BY <1>1, <1>3, <1>4
<1>6. \A i, j \in Items(m) : NotAfter(m, i, j) \/ NotAfter(m, j, i)
  <2> SUFFICES ASSUME NEW i \in Items(m), NEW j \in Items(m)
               PROVE  NotAfter(m, i, j) \/ NotAfter(m, j, i)
    OBVIOUS
  <2>1. PICK a \in DOMAIN s : s[a] = i
    BY <1>3
  <2>2. PICK b \in DOMAIN s : s[b] = j
    BY <1>3
  <2>3. a <= b \/ b <= a
    BY <1>1
  <2> QED
    BY <1>4, <2>1, <2>2, <2>3
<1>7. \A i, j \in Items(m) : NotAfter(m, i, j) /\ NotAfter(m, j, i) => i = j
  <2> SUFFICES ASSUME NEW i \in Items(m), NEW j \in Items(m), NotAfter(m, i, j), NotAfter(m, j, i)
               PROVE  i = j
    OBVIOUS
  <2>1. PICK a \in DOMAIN s, b \in DOMAIN s : a <= b /\ s[a] = i /\ s[b] = j
    BY <1>4
  <2>2. PICK c \in DOMAIN s, d \in DOMAIN s : c <= d /\ s[c] = j /\ s[d] = i
    BY <1>4
  <2>3. a = d /\ b = c
    BY <1>2, <2>1, <2>2
  <2>4. a = b
    BY <1>1, <2>1, <2>2, <2>3
  <2> QED
    BY <2>1, <2>4
<1>8. \A i, j, k \in Items(m) : NotAfter(m, i, j) /\ NotAfter(m, j, k) => NotAfter(m, i, k)
  <2> SUFFICES ASSUME NEW i \in Items(m), NEW j \in Items(m), NEW k \in Items(m),
                      NotAfter(m, i, j), NotAfter(m, j, k)
               PROVE  NotAfter(m, i, k)
    OBVIOUS
  <2>1. PICK a \in DOMAIN s, b \in DOMAIN s : a <= b /\ s[a] = i /\ s[b] = j
    BY <1>4
  <2>2. PICK c \in DOMAIN s, d \in DOMAIN s : c <= d /\ s[c] = j /\ s[d] = k
    BY <1>4
  <2>3. b = c
    BY <1>2, <2>1, <2>2
  <2>4. a <= d
    BY <1>1, <2>1, <2>2, <2>3
  <2> QED
    BY <1>4, <2>1, <2>2, <2>4
<1> QED
  BY <1>5, <1>6, <1>7, <1>8

-----------------------------------------------------------------------------
\* Ranks: an item that matches has a rank of its own, up to how many match.

LEMMA RankIs ==
    ASSUME Listed, NEW m \in MarketId, NEW a
    PROVE  /\ IsFiniteSet(Matching(m, a)) /\ Cardinality(Matching(m, a)) \in Nat
           /\ \A j \in Matching(m, a) :
                 /\ IsFiniteSet(UpTo(m, a, j)) /\ j \in UpTo(m, a, j)
                 /\ Rank(m, a, j) \in 1 .. Cardinality(Matching(m, a))
<1>1. IsFiniteSet(Matching(m, a)) /\ Cardinality(Matching(m, a)) \in Nat
  BY FS_Subset, FS_CardinalityType DEF Listed, Matching
<1>2. ASSUME NEW j \in Matching(m, a)
      PROVE  /\ IsFiniteSet(UpTo(m, a, j)) /\ j \in UpTo(m, a, j)
             /\ Rank(m, a, j) \in 1 .. Cardinality(Matching(m, a))
  <2>1. UpTo(m, a, j) \in SUBSET Matching(m, a)
    BY DEF UpTo
  <2>2. IsFiniteSet(UpTo(m, a, j)) /\ Cardinality(UpTo(m, a, j)) <= Cardinality(Matching(m, a))
    BY <1>1, <2>1, FS_Subset
  <2>3. j \in UpTo(m, a, j)
    BY Order DEF UpTo, Matching
  <2>4. Cardinality(UpTo(m, a, j)) \in Nat /\ Cardinality(UpTo(m, a, j)) # 0
    BY <2>2, <2>3, FS_CardinalityType, FS_EmptySet
  <2> QED
    BY <1>1, <2>2, <2>3, <2>4 DEF Rank
<1> QED
  BY <1>1, <1>2

LEMMA RanksDiffer ==
    ASSUME Listed, NEW m \in MarketId, NEW a,
           NEW i \in Matching(m, a), NEW j \in Matching(m, a), Rank(m, a, i) = Rank(m, a, j)
    PROVE  i = j
<1>1. ASSUME NEW x \in Matching(m, a), NEW y \in Matching(m, a),
             Rank(m, a, x) = Rank(m, a, y), NotAfter(m, x, y)
      PROVE  x = y
  <2>1. x \in Items(m) /\ y \in Items(m) /\ Matching(m, a) \subseteq Items(m)
    BY DEF Matching
  <2>2. UpTo(m, a, x) \in SUBSET UpTo(m, a, y)
    BY <1>1, <2>1, Order DEF UpTo
  <2>3. UpTo(m, a, x) = UpTo(m, a, y)
    BY <1>1, <2>2, RankIs, FS_Subset DEF Rank
  <2>4. NotAfter(m, y, x)
    BY <2>3, RankIs DEF UpTo
  <2> QED
    BY <1>1, <2>1, <2>4, Order
<1>2. NotAfter(m, i, j) \/ NotAfter(m, j, i)
  BY Order DEF Matching
<1> QED
  BY <1>1, <1>2

\* A page is no longer than its limit.
LEMMA PageSize ==
    ASSUME Listed, NEW m \in MarketId, NEW a, NEW o \in Nat, NEW l \in Nat
    PROVE  /\ IsFiniteSet(Page(m, a, o, l))
           /\ Cardinality(Page(m, a, o, l)) \in 0 .. l
<1> DEFINE P == Page(m, a, o, l)
           f == [j \in P |-> Rank(m, a, j)]
<1>1. P \subseteq Matching(m, a)
  BY DEF Page
<1>2. f \in [P -> o + 1 .. o + l]
  BY DEF Page
<1>3. \A i, j \in P : f[i] = f[j] => i = j
  BY <1>1, RanksDiffer
<1>4. f \in Injection(P, o + 1 .. o + l)
  BY <1>2, <1>3 DEF Injection, IsInjective
<1>5. IsFiniteSet(o + 1 .. o + l) /\ Cardinality(o + 1 .. o + l) = l
  BY FS_Interval
<1>6. IsFiniteSet(P) /\ Cardinality(P) <= l
  BY <1>4, <1>5, FS_Injection
<1> QED
  BY <1>6, FS_CardinalityType

\* What is before an offset.
Before(m, a, o) == {j \in Matching(m, a) : Rank(m, a, j) <= o}

\* What a client that reads a page skips over is on it.
LEMMA PageReaches ==
    ASSUME Listed, NEW m \in MarketId, NEW a, NEW o \in Nat, NEW l \in Nat
    PROVE  Before(m, a, o + Cardinality(Page(m, a, o, l))) \subseteq Before(m, a, o) \cup Page(m, a, o, l)
<1>1. Cardinality(Page(m, a, o, l)) \in 0 .. l
  BY PageSize
<1>2. \A j \in Matching(m, a) : Rank(m, a, j) \in Nat
  BY RankIs
<1> QED
  BY <1>1, <1>2 DEF Before, Page

\* An offset that has reached the total is behind everything.
LEMMA TotalReached ==
    ASSUME Listed, NEW m \in MarketId, NEW a, NEW o \in Nat, o >= Cardinality(Matching(m, a))
    PROVE  Before(m, a, o) = Matching(m, a)
  BY RankIs DEF Before

-----------------------------------------------------------------------------
\* What adding an item and closing a position do to the order.

LEMMA AddKeeps ==
    ASSUME Listed, NEW m0 \in MarketId, NEW i0 \in Item,
           NEW k \in 1 .. Len(listing[m0]) + 1, NEW b \in BOOLEAN, Add(m0, i0, k, b)
    PROVE  /\ Listed'
           /\ \A m \in MarketId : i0 \notin Items(m)
           /\ \A m \in MarketId : Items(m)' = IF m = m0 THEN Items(m) \cup {i0} ELSE Items(m)
           /\ \A m \in MarketId : \A i, j : NotAfter(m, i, j) => NotAfter(m, i, j)'
<1> DEFINE s == listing[m0]
           t == InsertAt(s, k, i0)
           n == Len(s)
<1>1. s \in Seq(Item) /\ n \in Nat /\ DOMAIN s = 1 .. n
  BY DEF Listed
<1>2. /\ t \in Seq(Item) /\ Len(t) = n + 1 /\ DOMAIN t = 1 .. n + 1
      /\ \A j \in 1 .. n + 1 : t[j] = IF j < k THEN s[j] ELSE IF j = k THEN i0 ELSE s[j - 1]
  <2>1. t \in Seq(Item) /\ Len(t) = n + 1
        /\ \A j \in 1 .. n + 1 : t[j] = IF j < k THEN s[j] ELSE IF j = k THEN i0 ELSE s[j - 1]
    <3>1. s \in Seq(Item) /\ k \in 1 .. Len(s) + 1
      BY <1>1
    <3> HIDE DEF s
    <3> QED
      BY <3>1, Inserted
  <2> QED
    BY <2>1, LenProperties
<1>3. listing' = [listing EXCEPT ![m0] = t] /\ \A m \in MarketId : i0 \notin Items(m)
  BY DEF Add
<1>4. listing' \in [MarketId -> Seq(Item)] /\ listing'[m0] = t
      /\ \A m \in MarketId : m # m0 => listing'[m] = listing[m]
  BY <1>2, <1>3 DEF Listed
<1>5. \A m \in MarketId : \A a \in DOMAIN listing[m] : listing[m][a] # i0
  BY <1>3 DEF Items, ToSet
<1>6. k \in 1 .. n + 1
  OBVIOUS
<1> HIDE DEF s, t, n
\* Every place of t other than k is a place of s, and the other way round.
<1>7. \A j \in 1 .. n + 1 : j # k =>
         \E a \in 1 .. n : t[j] = s[a] /\ (a = IF j < k THEN j ELSE j - 1)
  BY <1>1, <1>2, <1>6
<1>8. \A a \in 1 .. n : \E j \in 1 .. n + 1 :
         t[j] = s[a] /\ j # k /\ (j = IF a < k THEN a ELSE a + 1)
  <2> SUFFICES ASSUME NEW a \in 1 .. n
               PROVE  \E j \in 1 .. n + 1 :
                         t[j] = s[a] /\ j # k /\ (j = IF a < k THEN a ELSE a + 1)
    OBVIOUS
  <2>1. CASE a < k
    BY <1>1, <1>2, <1>6, <2>1
  <2>2. CASE ~(a < k)
    <3>1. a + 1 \in 1 .. n + 1 /\ ~(a + 1 < k) /\ a + 1 # k /\ (a + 1) - 1 = a
      BY <1>1, <1>6, <2>2
    <3>2. t[a + 1] = s[a]
      BY <1>2, <3>1
    <3> QED
      BY <2>2, <3>1, <3>2
  <2> QED
    BY <2>1, <2>2
<1>9. t[k] = i0
  BY <1>2, <1>6
<1>10. \A m \in MarketId : Items(m)' = IF m = m0 THEN Items(m) \cup {i0} ELSE Items(m)
  <2>1. Items(m0) = {s[a] : a \in 1 .. n}
    BY <1>1 DEF Items, ToSet, s
  <2>2. Items(m0)' = {t[j] : j \in 1 .. n + 1}
    BY <1>2, <1>4 DEF Items, ToSet
  <2>3. Items(m0)' = Items(m0) \cup {i0}
    BY <2>1, <2>2, <1>6, <1>7, <1>8, <1>9
  <2>4. ASSUME NEW m \in MarketId, m # m0
        PROVE  Items(m)' = Items(m)
    BY <1>4, <2>4 DEF Items
  <2> QED
    BY <2>3, <2>4
<1>11. \A m \in MarketId : IsFiniteSet(Items(m)')
  <2> SUFFICES ASSUME NEW m \in MarketId PROVE IsFiniteSet(Items(m)')
    OBVIOUS
  <2>1. IsFiniteSet(Items(m))
    BY DEF Listed
  <2>2. IsFiniteSet(Items(m) \cup {i0})
    BY <2>1, FS_AddElement
  <2> QED
    BY <1>10, <2>1, <2>2
<1>12. \A m \in MarketId : \A i, j : NotAfter(m, i, j) => NotAfter(m, i, j)'
  <2>1. ASSUME NEW i, NEW j, NotAfter(m0, i, j)
        PROVE  NotAfter(m0, i, j)'
    <3>1. PICK a \in 1 .. n, b0 \in 1 .. n : a <= b0 /\ s[a] = i /\ s[b0] = j
      BY <1>1, <2>1 DEF NotAfter, s
    <3>2. PICK c \in 1 .. n + 1 : t[c] = i /\ c = IF a < k THEN a ELSE a + 1
      BY <1>8, <3>1
    <3>3. PICK d \in 1 .. n + 1 : t[d] = j /\ d = IF b0 < k THEN b0 ELSE b0 + 1
      BY <1>8, <3>1
    <3>4. c <= d
      BY <1>1, <1>6, <3>1, <3>2, <3>3
    <3> QED
      BY <1>2, <1>4, <3>2, <3>3, <3>4 DEF NotAfter
  <2>2. ASSUME NEW m \in MarketId, m # m0, NEW i, NEW j, NotAfter(m, i, j)
        PROVE  NotAfter(m, i, j)'
    BY <1>4, <2>2 DEF NotAfter
  <2> QED
    BY <2>1, <2>2
<1>13. ASSUME NEW m \in MarketId, NEW p \in MarketId,
              NEW a \in DOMAIN listing'[m], NEW c \in DOMAIN listing'[p],
              listing'[m][a] = listing'[p][c]
       PROVE  m = p /\ a = c
  <2>1. \A x \in 1 .. n, y \in 1 .. n : s[x] = s[y] => x = y
    <3>1. \A x \in DOMAIN listing[m0], y \in DOMAIN listing[m0] :
             listing[m0][x] = listing[m0][y] => x = y
      BY DEF Listed
    <3> QED
      BY <1>1, <3>1 DEF s
  <2>2. \A q \in MarketId : q # m0 => \A x \in 1 .. n, y \in DOMAIN listing[q] : s[x] # listing[q][y]
    BY <1>1 DEF Listed, s
  <2>3. \A q \in MarketId : q # m0 => \A x \in 1 .. n + 1, y \in DOMAIN listing[q] : t[x] # listing[q][y]
    BY <1>5, <1>7, <1>9, <2>2
  <2>4. CASE m = m0 /\ p = m0
    <3>1. a \in 1 .. n + 1 /\ c \in 1 .. n + 1 /\ t[a] = t[c]
      BY <1>2, <1>4, <1>13, <2>4
    <3>2. \A x \in 1 .. n + 1 : x # k => t[x] # t[k]
      <4>1. \A x \in 1 .. n : s[x] # i0
        BY <1>1, <1>5 DEF s
      <4> QED
        BY <1>7, <1>9, <4>1
    <3>3. CASE a # k /\ c # k
      <4>1. PICK x \in 1 .. n : t[a] = s[x] /\ (x = IF a < k THEN a ELSE a - 1)
        BY <1>7, <3>1, <3>3
      <4>2. PICK y \in 1 .. n : t[c] = s[y] /\ (y = IF c < k THEN c ELSE c - 1)
        BY <1>7, <3>1, <3>3
      <4>3. x = y
        BY <2>1, <3>1, <4>1, <4>2
      <4> QED
        BY <1>1, <1>6, <2>4, <3>1, <3>3, <4>1, <4>2, <4>3
    <3> QED
      BY <2>4, <3>1, <3>2, <3>3
  <2>5. CASE m = m0 /\ p # m0
    BY <1>2, <1>4, <1>13, <2>3, <2>5
  <2>6. CASE m # m0 /\ p = m0
    BY <1>2, <1>4, <1>13, <2>3, <2>6
  <2>7. CASE m # m0 /\ p # m0
    BY <1>4, <1>13, <2>7 DEF Listed
  <2> QED
    BY <2>4, <2>5, <2>6, <2>7
<1>14. Listed'
  BY <1>4, <1>11, <1>13 DEF Listed
<1> QED
  BY <1>3, <1>10, <1>12, <1>14

\* If nothing drops out of a list and the order is kept, ranks only rise.
LEMMA RanksRise ==
    ASSUME Listed, Listed', NEW m \in MarketId, NEW a,
           \A i, j : NotAfter(m, i, j) => NotAfter(m, i, j)',
           Matching(m, a) \subseteq Matching(m, a)', NEW o \in Nat
    PROVE  Before(m, a, o)' \cap Matching(m, a) \subseteq Before(m, a, o)
<1> SUFFICES ASSUME NEW j \in Matching(m, a), j \in Before(m, a, o)'
             PROVE  j \in Before(m, a, o)
  OBVIOUS
<1>1. UpTo(m, a, j) \in SUBSET (UpTo(m, a, j)')
  BY DEF UpTo
<1>2. IsFiniteSet(UpTo(m, a, j)')
  <2>1. IsFiniteSet(Items(m)') /\ UpTo(m, a, j)' \in SUBSET (Items(m)')
    BY DEF Listed, UpTo, Matching
  <2> QED
    BY <2>1, FS_Subset
<1>3. Cardinality(UpTo(m, a, j)) <= Cardinality(UpTo(m, a, j)')
  BY <1>1, <1>2, FS_Subset
<1>4. Cardinality(UpTo(m, a, j)) \in Nat /\ Cardinality(UpTo(m, a, j)') \in Nat
  BY <1>1, <1>2, FS_Subset, FS_CardinalityType
<1>5. Cardinality(UpTo(m, a, j)') <= o
  BY DEF Before, Rank
<1> QED
  BY <1>3, <1>4, <1>5 DEF Before, Rank

\* If one item drops out of a list, the ranks behind it fall by one, so that at
\* most one item slips before an offset.
LEMMA RanksFall ==
    ASSUME Listed, UNCHANGED listing, NEW m \in MarketId, NEW a, NEW i,
           Matching(m, a)' = Matching(m, a) \ {i}, NEW o \in Nat
    PROVE  \E x : Before(m, a, o)' \subseteq Before(m, a, o) \cup {x}
<1>1. ASSUME NEW j \in Matching(m, a)'
      PROVE  Rank(m, a, j) \in Nat /\ (Rank(m, a, j))' \in {Rank(m, a, j), Rank(m, a, j) - 1}
  <2>1. j \in Matching(m, a)
    BY <1>1
  <2>2. UpTo(m, a, j)' = UpTo(m, a, j) \ {i}
    BY DEF UpTo, NotAfter
  <2>3. IsFiniteSet(UpTo(m, a, j)) /\ Rank(m, a, j) \in Nat
    BY <2>1, RankIs
  <2> QED
    BY <2>2, <2>3, FS_RemoveElement DEF Rank
<1>2. CASE \E x \in Matching(m, a) : Rank(m, a, x) = o + 1
  <2>1. PICK x \in Matching(m, a) : Rank(m, a, x) = o + 1
    BY <1>2
  <2>2. ASSUME NEW j \in Before(m, a, o)', j \notin Before(m, a, o)
        PROVE  j = x
    <3>1. j \in Matching(m, a)' /\ (Rank(m, a, j))' <= o
      BY <2>2 DEF Before
    <3>2. j \in Matching(m, a) /\ ~(Rank(m, a, j) <= o)
      BY <2>2, <3>1 DEF Before
    <3>3. Rank(m, a, j) = o + 1
      BY <1>1, <3>1, <3>2
    <3> QED
      BY <2>1, <3>2, <3>3, RanksDiffer
  <2> QED
    BY <2>2
<1>3. CASE \A x \in Matching(m, a) : Rank(m, a, x) # o + 1
  <2>1. ASSUME NEW j \in Before(m, a, o)'
        PROVE  j \in Before(m, a, o)
    <3>1. j \in Matching(m, a)' /\ (Rank(m, a, j))' <= o
      BY <2>1 DEF Before
    <3>2. j \in Matching(m, a) /\ Rank(m, a, j) # o + 1
      BY <1>3, <3>1
    <3> QED
      BY <1>1, <3>1, <3>2 DEF Before
  <2> QED
    BY <2>1
<1> QED
  BY <1>2, <1>3

-----------------------------------------------------------------------------
\* The invariant.

\* Of what the client was due, no more items before this offset are missing from
\* what it has seen than have dropped out of the list.
Behind(o, seen) ==
    Cardinality((Before(walk.market, walk.active, o) \cap walk.due) \ seen)
        <= Cardinality(walk.left)

\* ... and no more in the whole list.
Through(seen) ==
    Cardinality((walk.due \ walk.left) \ seen) <= Cardinality(walk.left)

Listable == Matching(walk.market, walk.active) \cup walk.left

Walking ==
    walk # Nothing =>
        /\ walk \in [market : MarketId, active : Flags, offset : Nat, done : BOOLEAN,
                     seen : SUBSET Item, due : SUBSET Item, left : SUBSET Item]
        /\ walk.left \subseteq Items(walk.market) \ active
        /\ walk.active # TRUE => walk.left = {}
        /\ walk.due \cup walk.seen \subseteq Listable
        /\ Behind(walk.offset, walk.seen)
        /\ walk.done => Through(walk.seen)

\* The client asks for the page at its offset, and for nothing else.
Asking ==
    /\ walk # Nothing /\ query # Nothing =>
          \E l \in {Absent} \cup 1 .. MaxLimit :
             query = [op |-> "list", market |-> walk.market, limit |-> l,
                      offset |-> walk.offset, active |-> walk.active]
    /\ call # Nothing => query # Nothing /\ call = Forward(query)

\* A page on its way to the client: what it will be behind when it has taken it.
Arriving ==
    /\ answer # Nothing => query = Nothing
    /\ walk # Nothing /\ answer # Nothing /\ answer.code = 200 =>
          /\ IsFiniteSet(answer.items) /\ answer.items \subseteq Listable
          /\ Behind(walk.offset + Cardinality(answer.items), walk.seen \cup answer.items)
          /\ walk.offset + Cardinality(answer.items) >= answer.total
                => Through(walk.seen \cup answer.items)

IInv == Listed /\ Walking /\ Asking /\ Arriving

-----------------------------------------------------------------------------
\* What the steps of eyebroker do to what the client is behind.

LEMMA WalkFinite ==
    ASSUME Listed, Walking, walk # Nothing
    PROVE  /\ walk.market \in MarketId
           /\ Listable \subseteq Items(walk.market)
           /\ IsFiniteSet(Listable) /\ IsFiniteSet(walk.due) /\ IsFiniteSet(walk.left)
<1>1. walk.market \in MarketId /\ walk.left \subseteq Items(walk.market)
      /\ walk.due \subseteq Listable
  BY DEF Walking
<1>2. Listable \subseteq Items(walk.market)
  BY <1>1 DEF Listable, Matching
<1>3. IsFiniteSet(Items(walk.market))
  BY <1>1 DEF Listed
<1>4. walk.left \subseteq Items(walk.market) /\ walk.due \subseteq Items(walk.market)
  BY <1>1, <1>2
<1>5. IsFiniteSet(Listable) /\ IsFiniteSet(walk.due) /\ IsFiniteSet(walk.left)
  BY <1>2, <1>3, <1>4, FS_Subset
<1> QED
  BY <1>1, <1>2, <1>5

\* A larger list, in the same order, puts no more of what was due behind the client.
LEMMA NothingDrops ==
    ASSUME Listed, Listed', Walking, NEW w, walk = w, walk' = w, w # Nothing,
           \A i, j : NotAfter(w.market, i, j) => NotAfter(w.market, i, j)',
           Matching(w.market, w.active) \subseteq Matching(w.market, w.active)',
           w.left \cap active' = {},
           NEW o \in Nat, NEW seen
    PROVE  /\ Listable \subseteq Listable'
           /\ Behind(o, seen) => Behind(o, seen)'
           /\ Through(seen) => Through(seen)'
<1> DEFINE m == w.market
           a == w.active
<1>1. /\ m \in MarketId /\ w.due \subseteq Matching(m, a) \cup w.left /\ IsFiniteSet(w.due)
      /\ a # TRUE => w.left = {}
  BY WalkFinite DEF Walking, Listable
<1>2. Listable \subseteq Listable'
  BY DEF Listable
<1>3. Before(m, a, o)' \cap w.due \subseteq Before(m, a, o) \cap w.due
  <2> SUFFICES ASSUME NEW j \in w.due, j \in Before(m, a, o)'
               PROVE  j \in Before(m, a, o)
    OBVIOUS
  <2>1. j \notin w.left
    <3> SUFFICES ASSUME j \in w.left PROVE FALSE
      OBVIOUS
    <3>1. a = TRUE /\ j \notin active'
      BY <1>1
    <3>2. j \in Matching(m, a)'
      BY DEF Before
    <3> QED
      BY <3>1, <3>2, MarketAssumption DEF Matching, Matches
  <2>2. j \in Matching(m, a)
    BY <1>1, <2>1
  <2> QED
    BY <1>1, <2>2, RanksRise
<1>4. ASSUME Behind(o, seen)
      PROVE  Behind(o, seen)'
  <2> DEFINE B == (Before(m, a, o) \cap w.due) \ seen
             C == (Before(m, a, o)' \cap w.due) \ seen
  <2>1. C \in SUBSET B /\ B \in SUBSET w.due
    BY <1>3
  <2>2. IsFiniteSet(B) /\ Cardinality(C) <= Cardinality(B)
        /\ Cardinality(B) \in Nat /\ Cardinality(C) \in Nat
    BY <1>1, <2>1, FS_Subset, FS_CardinalityType
  <2>3. Cardinality(w.left) \in Nat /\ Cardinality(B) <= Cardinality(w.left)
    BY <1>4, WalkFinite, FS_CardinalityType DEF Behind
  <2>4. Cardinality(C) <= Cardinality(w.left)
    BY <2>2, <2>3
  <2> QED
    BY <2>4 DEF Behind
<1>5. Through(seen) => Through(seen)'
  BY DEF Through
<1> QED
  BY <1>2, <1>4, <1>5

\* One item that drops out puts at most one more of what was due behind the client.
LEMMA OneDrops ==
    ASSUME Listed, Walking, NEW w, walk = w, w # Nothing, w.active = TRUE,
           NEW i \in Items(w.market), Close(i), NEW o \in Nat, NEW seen
    PROVE  /\ Listable \subseteq Listable'
           /\ Behind(o, seen) => Behind(o, seen)'
           /\ Through(seen) => Through(seen)'
<1> DEFINE m == w.market
           left == w.left \cup {i}
<1>1. /\ m \in MarketId /\ i \in active /\ active' = active \ {i} /\ UNCHANGED listing
      /\ IsFiniteSet(w.due) /\ IsFiniteSet(w.left) /\ w.left \cap active = {}
  BY WalkFinite DEF Close, Walking
<1>2. walk'.market = m /\ walk'.active = TRUE /\ walk'.due = w.due /\ walk'.left = left
  <2>1. walk' = [w EXCEPT !.left = @ \cup {i}]
    BY DEF Close
  <2>2. w \in [market : MarketId, active : Flags, offset : Nat, done : BOOLEAN,
               seen : SUBSET Item, due : SUBSET Item, left : SUBSET Item]
    BY DEF Walking
  <2> QED
    BY <2>1, <2>2
<1>3. Matching(m, TRUE)' = Matching(m, TRUE) \ {i} /\ i \in Matching(m, TRUE)
  BY <1>1, MarketAssumption DEF Matching, Matches, Items
<1>4. Listable \subseteq Listable'
  BY <1>2, <1>3 DEF Listable
<1>5. IsFiniteSet(left) /\ Cardinality(left) = Cardinality(w.left) + 1
      /\ Cardinality(w.left) \in Nat
  BY <1>1, FS_AddElement, FS_CardinalityType
<1>6. ASSUME Behind(o, seen)
      PROVE  Behind(o, seen)'
  <2> DEFINE B == (Before(m, TRUE, o) \cap w.due) \ seen
             C == (Before(m, TRUE, o)' \cap w.due) \ seen
  <2>1. PICK x : Before(m, TRUE, o)' \subseteq Before(m, TRUE, o) \cup {x}
    BY <1>1, <1>3, RanksFall
  <2>2. C \in SUBSET (B \cup {x}) /\ B \in SUBSET w.due
    BY <2>1
  <2>3. IsFiniteSet(B) /\ Cardinality(B) \in Nat
    BY <1>1, <2>2, FS_Subset, FS_CardinalityType
  <2>4. IsFiniteSet(B \cup {x}) /\ Cardinality(B \cup {x}) <= Cardinality(B) + 1
        /\ Cardinality(B \cup {x}) \in Nat
    <3> HIDE DEF B
    <3>1. IsFiniteSet(B \cup {x})
          /\ Cardinality(B \cup {x}) = IF x \in B THEN Cardinality(B) ELSE Cardinality(B) + 1
      BY <2>3, FS_AddElement
    <3> QED
      BY <2>3, <3>1
  <2>5. Cardinality(C) <= Cardinality(B \cup {x}) /\ Cardinality(C) \in Nat
    BY <2>2, <2>4, FS_Subset, FS_CardinalityType
  <2>6. Cardinality(B) <= Cardinality(w.left)
    BY <1>6 DEF Behind
  <2>7. Cardinality(C) <= Cardinality(left)
    BY <1>5, <2>3, <2>4, <2>5, <2>6
  <2>8. Behind(o, seen)' <=> Cardinality(C) <= Cardinality(left)
    BY <1>2 DEF Behind
  <2> QED
    BY <2>7, <2>8
<1>7. ASSUME Through(seen)
      PROVE  Through(seen)'
  <2> DEFINE B == (w.due \ w.left) \ seen
             C == (w.due \ left) \ seen
  <2>1. C \in SUBSET B /\ B \in SUBSET w.due
    OBVIOUS
  <2>2. IsFiniteSet(B) /\ Cardinality(C) <= Cardinality(B)
        /\ Cardinality(B) \in Nat /\ Cardinality(C) \in Nat
    BY <1>1, <2>1, FS_Subset, FS_CardinalityType
  <2>3. Cardinality(B) <= Cardinality(w.left)
    BY <1>7 DEF Through
  <2>4. Cardinality(C) <= Cardinality(left)
    BY <1>5, <2>2, <2>3
  <2> QED
    BY <1>2, <2>4 DEF Through
<1> QED
  BY <1>4, <1>6, <1>7

-----------------------------------------------------------------------------
\* The steps.

\* The handlers touch neither eyebroker nor the client.
LEMMA Same ==
    ASSUME UNCHANGED <<listing, active, walk>>
    PROVE  /\ Listed => Listed'
           /\ Walking => Walking'
           /\ Listable' = Listable
           /\ \A o, seen : Behind(o, seen)' <=> Behind(o, seen)
           /\ \A seen : Through(seen)' <=> Through(seen)
<1>1. (Listed => Listed') /\ Listable' = Listable
  BY DEF Listed, Items, Listable, Matching, Matches
<1>2. \A o, seen : Behind(o, seen)' <=> Behind(o, seen)
  BY DEF Behind, Before, Rank, UpTo, NotAfter, Matching, Matches, Items
<1>3. \A seen : Through(seen)' <=> Through(seen)
  BY DEF Through
<1>4. Walking => Walking'
  <2> SUFFICES ASSUME Walking, walk' # Nothing
               PROVE  Walking'
    BY DEF Walking
  <2>1. PICK o, seen : o = walk.offset /\ seen = walk.seen
    OBVIOUS
  <2>2. Behind(o, seen)' /\ (walk.done => Through(seen)')
    BY <1>2, <1>3, <2>1 DEF Walking
  <2>3. Behind(walk.offset, walk.seen)' /\ (walk.done => Through(walk.seen)')
    BY <2>1, <2>2 DEF Behind, Through
  <2> QED
    BY <1>1, <2>3 DEF Walking, Items
<1> QED
  BY <1>1, <1>2, <1>3, <1>4

\* What is asked of a step of eyebroker.
Bearable ==
    /\ UNCHANGED <<query, call, answer>>
    /\ walk' # Nothing =>
          /\ walk # Nothing
          /\ walk' \in [market : {walk.market}, active : {walk.active}, offset : {walk.offset},
                        done : {walk.done}, seen : {walk.seen}, due : {walk.due},
                        left : SUBSET Item]
          /\ walk'.left \subseteq Items(walk.market)' \ active'
          /\ walk.active # TRUE => walk'.left = {}
          /\ Listable \subseteq Listable'
          /\ \A o \in Nat : \A seen : Behind(o, seen) => Behind(o, seen)'
          /\ \A seen : Through(seen) => Through(seen)'

LEMMA Kept ==
    ASSUME Walking, Asking, Arriving, Bearable
    PROVE  Walking' /\ Asking' /\ Arriving'
<1>1. CASE walk' = Nothing
  <2>1. Walking'
    BY <1>1 DEF Walking
  <2>2. Asking' /\ Arriving'
    BY <1>1 DEF Asking, Arriving, Bearable, Forward
  <2> QED
    BY <2>1, <2>2
<1>2. CASE walk' # Nothing
  <2>1. /\ walk # Nothing /\ UNCHANGED <<query, call, answer>>
        /\ walk' \in [market : {walk.market}, active : {walk.active}, offset : {walk.offset},
                      done : {walk.done}, seen : {walk.seen}, due : {walk.due},
                      left : SUBSET Item]
        /\ walk'.left \subseteq Items(walk.market)' \ active'
        /\ walk.active # TRUE => walk'.left = {}
        /\ Listable \subseteq Listable'
        /\ \A o \in Nat : \A seen : Behind(o, seen) => Behind(o, seen)'
        /\ \A seen : Through(seen) => Through(seen)'
    BY <1>2 DEF Bearable
  <2>2. /\ walk \in [market : MarketId, active : Flags, offset : Nat, done : BOOLEAN,
                     seen : SUBSET Item, due : SUBSET Item, left : SUBSET Item]
        /\ walk.due \cup walk.seen \subseteq Listable
        /\ Behind(walk.offset, walk.seen)
        /\ walk.done => Through(walk.seen)
    BY <2>1 DEF Walking
  <2>3. /\ walk'.market = walk.market /\ walk'.active = walk.active
        /\ walk'.offset = walk.offset /\ walk'.done = walk.done
        /\ walk'.seen = walk.seen /\ walk'.due = walk.due /\ walk'.left \in SUBSET Item
    BY <2>1
  <2>4. Behind(walk.offset, walk.seen)' /\ (walk.done => Through(walk.seen)')
    <3>1. PICK o, seen : o = walk.offset /\ seen = walk.seen
      OBVIOUS
    <3>2. Behind(o, seen)' /\ (walk.done => Through(seen)')
      BY <2>1, <2>2, <3>1
    <3> QED
      BY <2>3, <3>1, <3>2 DEF Behind, Through
  <2>5. walk' \in [market : MarketId, active : Flags, offset : Nat, done : BOOLEAN,
                   seen : SUBSET Item, due : SUBSET Item, left : SUBSET Item]
    BY <2>1, <2>2
  <2>6. Walking'
    <3>1. Behind(walk.offset, walk.seen)' /\ (walk'.done => Through(walk.seen)')
      BY <2>3, <2>4
    <3>2. (walk.due \cup walk.seen \subseteq Listable)'
      BY <2>1, <2>2, <2>3
    <3>3. (walk.left \subseteq Items(walk.market) \ active)'
      BY <2>1, <2>3 DEF Items
    <3> QED
      BY <2>1, <2>3, <2>5, <3>1, <3>2, <3>3 DEF Walking
  <2>7. Asking'
    BY <2>1, <2>3 DEF Asking, Forward
  <2>8. Arriving'
    <3> SUFFICES ASSUME answer # Nothing, answer.code = 200
                 PROVE  (/\ IsFiniteSet(answer.items) /\ answer.items \subseteq Listable
                         /\ Behind(walk.offset + Cardinality(answer.items), walk.seen \cup answer.items)
                         /\ walk.offset + Cardinality(answer.items) >= answer.total
                               => Through(walk.seen \cup answer.items))'
      BY <2>1 DEF Arriving
    <3>1. /\ IsFiniteSet(answer.items) /\ answer.items \subseteq Listable
          /\ Behind(walk.offset + Cardinality(answer.items), walk.seen \cup answer.items)
          /\ walk.offset + Cardinality(answer.items) >= answer.total
                => Through(walk.seen \cup answer.items)
      BY <2>1 DEF Arriving
    <3>2. PICK o, seen : o = walk.offset + Cardinality(answer.items)
                         /\ seen = walk.seen \cup answer.items
      OBVIOUS
    <3>3. o \in Nat
      BY <2>2, <3>1, <3>2, FS_CardinalityType
    <3>4. Behind(o, seen)' /\ (o >= answer.total => Through(seen)')
      BY <2>1, <3>1, <3>2, <3>3
    <3>5. /\ o = walk'.offset + Cardinality(answer'.items)
          /\ seen = walk'.seen \cup answer'.items /\ answer'.total = answer.total
      BY <2>1, <2>3, <3>2
    <3>6. (Behind(walk.offset + Cardinality(answer.items), walk.seen \cup answer.items))'
      BY <3>4, <3>5 DEF Behind
    <3>7. (walk.offset + Cardinality(answer.items) >= answer.total
                => Through(walk.seen \cup answer.items))'
      BY <3>4, <3>5 DEF Through
    <3>8. (IsFiniteSet(answer.items) /\ answer.items \subseteq Listable)'
      BY <2>1, <3>1
    <3> QED
      BY <3>6, <3>7, <3>8
  <2> QED
    BY <2>6, <2>7, <2>8
<1> QED
  BY <1>1, <1>2

LEMMA StepAdd ==
    ASSUME IInv, NEW m \in MarketId, NEW i \in Item, NEW b \in BOOLEAN,
           NEW k \in 1 .. Len(listing[m]) + 1, Add(m, i, k, b)
    PROVE  IInv'
<1>1. /\ Listed' /\ \A n \in MarketId : i \notin Items(n)
      /\ \A n \in MarketId : Items(n)' = IF n = m THEN Items(n) \cup {i} ELSE Items(n)
      /\ \A n \in MarketId : \A x, y : NotAfter(n, x, y) => NotAfter(n, x, y)'
  BY AddKeeps DEF IInv
<1>2. active' \in {active, active \cup {i}} /\ UNCHANGED <<query, call, answer, walk>>
  BY DEF Add
<1>3. Bearable
  <2> SUFFICES ASSUME walk # Nothing
               PROVE  /\ walk \in [market : {walk.market}, active : {walk.active},
                                   offset : {walk.offset}, done : {walk.done},
                                   seen : {walk.seen}, due : {walk.due}, left : SUBSET Item]
                      /\ walk.left \subseteq Items(walk.market)' \ active'
                      /\ walk.active # TRUE => walk.left = {}
                      /\ Listable \subseteq Listable'
                      /\ \A o \in Nat : \A seen : Behind(o, seen) => Behind(o, seen)'
                      /\ \A seen : Through(seen) => Through(seen)'
    BY <1>2 DEF Bearable
  <2>1. PICK w : w = walk
    OBVIOUS
  <2>2. /\ w \in [market : MarketId, active : Flags, offset : Nat, done : BOOLEAN,
                  seen : SUBSET Item, due : SUBSET Item, left : SUBSET Item]
        /\ w.left \subseteq Items(w.market) \ active
        /\ w.active # TRUE => w.left = {}
    BY <2>1 DEF IInv, Walking
  <2>3. i \notin Items(w.market) /\ Items(w.market) \subseteq Items(w.market)'
    BY <1>1, <2>2
  <2>4. w.left \cap active' = {} /\ w.left \subseteq Items(w.market)' \ active'
    BY <1>2, <2>2, <2>3
  <2>5. Matching(w.market, w.active) \subseteq Matching(w.market, w.active)'
    <3> SUFFICES ASSUME NEW j \in Matching(w.market, w.active)
                 PROVE  j \in Matching(w.market, w.active)'
      OBVIOUS
    <3>1. j \in Items(w.market) /\ j # i
      BY <2>3 DEF Matching
    <3>2. j \in Items(w.market)' /\ (j \in active' <=> j \in active)
      BY <1>2, <2>3, <3>1
    <3> QED
      BY <3>1, <3>2 DEF Matching, Matches
  <2>6. Listed /\ Walking /\ w.market \in MarketId /\ walk' = w /\ w # Nothing
    BY <1>2, <2>1, <2>2 DEF IInv
  <2>7. \A x, y : NotAfter(w.market, x, y) => NotAfter(w.market, x, y)'
    BY <1>1, <2>6
  <2>8. \A o \in Nat : \A seen : /\ Listable \subseteq Listable'
                                 /\ Behind(o, seen) => Behind(o, seen)'
                                 /\ Through(seen) => Through(seen)'
    BY <1>1, <2>1, <2>4, <2>5, <2>6, <2>7, NothingDrops
  <2>9. w \in [market : {w.market}, active : {w.active}, offset : {w.offset},
               done : {w.done}, seen : {w.seen}, due : {w.due}, left : SUBSET Item]
    BY <2>2
  <2>10. 0 \in Nat
    OBVIOUS
  <2> QED
    <3>1. walk.left \subseteq Items(walk.market)' \ active'
      BY <2>1, <2>4, <2>6 DEF Items
    <3>2. /\ Listable \subseteq Listable'
          /\ \A o \in Nat : \A seen : Behind(o, seen) => Behind(o, seen)'
          /\ \A seen : Through(seen) => Through(seen)'
      BY <2>8, <2>10
    <3> QED
      BY <2>1, <2>2, <2>9, <3>1, <3>2
<1> QED
  BY <1>1, <1>3, Kept DEF IInv

LEMMA StepClose ==
    ASSUME IInv, NEW i \in Item, Close(i)
    PROVE  IInv'
<1>1. /\ i \in active /\ active' = active \ {i} /\ UNCHANGED <<listing, query, call, answer>>
  BY DEF Close
<1>2. Listed'
  BY <1>1 DEF IInv, Listed, Items
<1>3. Bearable
  <2>1. PICK w : w = walk
    OBVIOUS
  <2>2. CASE walk = Nothing
    BY <1>1, <2>2 DEF Bearable, Close
  <2>3. CASE w # Nothing
    <3>1. /\ w \in [market : MarketId, active : Flags, offset : Nat, done : BOOLEAN,
                    seen : SUBSET Item, due : SUBSET Item, left : SUBSET Item]
          /\ w.left \subseteq Items(w.market) \ active
          /\ w.active # TRUE => w.left = {}
      BY <2>1, <2>3 DEF IInv, Walking
    <3>2. 0 \in Nat /\ Listed /\ Walking /\ Items(w.market)' = Items(w.market)
      BY <1>1 DEF IInv, Items
    <3>3. CASE w.active = TRUE /\ i \in Items(w.market)
      <4>1. walk' = [w EXCEPT !.left = @ \cup {i}]
        BY <2>1, <2>3, <3>3 DEF Close
      <4>2. /\ walk' \in [market : {w.market}, active : {w.active}, offset : {w.offset},
                          done : {w.done}, seen : {w.seen}, due : {w.due}, left : SUBSET Item]
            /\ walk'.left = w.left \cup {i} /\ walk'.market = w.market
        BY <3>1, <4>1
      <4>3. \A o \in Nat : \A seen : /\ Listable \subseteq Listable'
                                     /\ Behind(o, seen) => Behind(o, seen)'
                                     /\ Through(seen) => Through(seen)'
        BY <2>1, <2>3, <3>2, <3>3, OneDrops
      <4>4. walk'.left \subseteq Items(walk.market)' \ active'
        BY <1>1, <2>1, <3>1, <3>2, <3>3, <4>2 DEF Items
      <4> QED
        BY <1>1, <2>1, <2>3, <3>2, <3>3, <4>2, <4>3, <4>4 DEF Bearable
    <3>4. CASE ~(w.active = TRUE /\ i \in Items(w.market))
      <4>1. walk' = w
        BY <2>1, <3>4 DEF Close
      <4>2. Matching(w.market, w.active) \subseteq Matching(w.market, w.active)'
        <5>1. CASE w.active = Absent
          BY <3>2, <5>1 DEF Matching, Matches
        <5>2. CASE w.active = TRUE
          <6>1. \A j \in Items(w.market) : j \in active => j \in active'
            BY <1>1, <3>4, <5>2
          <6>2. \A j : Matches(j, TRUE) <=> j \in active
            BY MarketAssumption DEF Matches
          <6>3. \A j : Matches(j, TRUE)' <=> j \in active'
            BY MarketAssumption DEF Matches
          <6> QED
            BY <3>2, <5>2, <6>1, <6>2, <6>3 DEF Matching
        <5>3. CASE w.active = FALSE
          <6>0. Absent # FALSE
            BY MarketAssumption
          <6>1. \A j : Matches(j, FALSE) <=> j \notin active
            <7>1. \A j : ((j \in active) = FALSE) <=> j \notin active
              BY SMT
            <7> QED
              BY <6>0, <7>1 DEF Matches
          <6>2. \A j : Matches(j, FALSE)' <=> j \notin active'
            <7>1. \A j : ((j \in active') = FALSE) <=> j \notin active'
              BY SMT
            <7> QED
              BY <6>0, <7>1 DEF Matches
          <6> QED
            BY <1>1, <3>2, <5>3, <6>1, <6>2 DEF Matching
        <5> QED
          BY <3>1, <5>1, <5>2, <5>3 DEF Flags
      <4>3. \A x, y : NotAfter(w.market, x, y) => NotAfter(w.market, x, y)'
        BY <1>1 DEF NotAfter
      <4>4. w.left \cap active' = {} /\ w.left \subseteq Items(w.market) \ active'
        BY <1>1, <3>1
      <4>5. \A o \in Nat : \A seen : /\ Listable \subseteq Listable'
                                     /\ Behind(o, seen) => Behind(o, seen)'
                                     /\ Through(seen) => Through(seen)'
        BY <1>2, <2>1, <2>3, <3>2, <4>1, <4>2, <4>3, <4>4, NothingDrops
      <4>6. w \in [market : {w.market}, active : {w.active}, offset : {w.offset},
                   done : {w.done}, seen : {w.seen}, due : {w.due}, left : SUBSET Item]
        BY <3>1
      <4>7. walk'.left \subseteq Items(walk.market)' \ active'
        BY <2>1, <3>2, <4>1, <4>4 DEF Items
      <4> QED
        BY <1>1, <2>1, <2>3, <3>1, <3>2, <4>1, <4>5, <4>6, <4>7 DEF Bearable
    <3> QED
      BY <3>3, <3>4
  <2> QED
    BY <2>1, <2>2, <2>3
<1> QED
  BY <1>2, <1>3, Kept DEF IInv

\* A page moves the offset behind what was on it, and what it skips over was on it.
LEMMA PageArrives ==
    ASSUME Listed, Walking, NEW w, walk = w, w # Nothing, NEW l \in Nat, NEW P,
           P = Page(w.market, w.active, w.offset, l)
    PROVE  /\ IsFiniteSet(P) /\ P \subseteq Listable
           /\ Behind(w.offset + Cardinality(P), w.seen \cup P)
           /\ w.offset + Cardinality(P) >= Cardinality(Matching(w.market, w.active))
                 => Through(w.seen \cup P)
<1> DEFINE m == w.market
           a == w.active
           o == w.offset + Cardinality(P)
           B == (Before(m, a, w.offset) \cap w.due) \ w.seen
           C == (Before(m, a, o) \cap w.due) \ (w.seen \cup P)
<1>1. /\ m \in MarketId /\ w.offset \in Nat /\ IsFiniteSet(w.due) /\ IsFiniteSet(w.left)
      /\ w.due \subseteq Matching(m, a) \cup w.left
      /\ Cardinality(B) <= Cardinality(w.left)
  BY WalkFinite DEF Walking, Listable, Behind
<1>2. IsFiniteSet(P) /\ Cardinality(P) \in Nat /\ P \subseteq Matching(m, a)
  <2>1. IsFiniteSet(Page(m, a, w.offset, l)) /\ Cardinality(Page(m, a, w.offset, l)) \in 0 .. l
    BY <1>1, PageSize
  <2>2. Page(m, a, w.offset, l) \subseteq Matching(m, a)
    BY DEF Page
  <2> QED
    BY <2>1, <2>2
<1>3. Before(m, a, o) \subseteq Before(m, a, w.offset) \cup P
  BY <1>1, PageReaches
<1>4. C \in SUBSET B /\ B \in SUBSET w.due
  BY <1>3
<1>5. /\ IsFiniteSet(C) /\ Cardinality(C) <= Cardinality(B)
      /\ Cardinality(B) \in Nat /\ Cardinality(C) \in Nat /\ Cardinality(w.left) \in Nat
  BY <1>1, <1>4, FS_Subset, FS_CardinalityType
<1>6. Cardinality(C) <= Cardinality(w.left)
  BY <1>1, <1>5
<1>7. Behind(o, w.seen \cup P)
  BY <1>6 DEF Behind
<1>8. ASSUME o >= Cardinality(Matching(m, a))
      PROVE  Through(w.seen \cup P)
  <2> DEFINE D == (w.due \ w.left) \ (w.seen \cup P)
  <2>1. Before(m, a, o) = Matching(m, a)
    BY <1>1, <1>2, <1>8, TotalReached
  <2>2. D \in SUBSET C
    BY <1>1, <2>1
  <2>3. Cardinality(D) <= Cardinality(C) /\ Cardinality(D) \in Nat
    BY <1>5, <2>2, FS_Subset, FS_CardinalityType
  <2>4. Cardinality(D) <= Cardinality(w.left)
    BY <1>5, <1>6, <2>3
  <2> QED
    BY <2>4 DEF Through
<1> QED
  BY <1>2, <1>7, <1>8 DEF Listable

LEMMA InitHolds == Init => IInv
<1> SUFFICES ASSUME Init PROVE IInv
  OBVIOUS
<1>1. Listed
  <2>1. /\ listing \in [MarketId -> Seq(Item)]
        /\ \A m \in MarketId : listing[m] = << >> /\ DOMAIN listing[m] = {} /\ Items(m) = {}
    BY DEF Init, Items, ToSet
  <2>2. IsFiniteSet({})
    BY FS_EmptySet
  <2> QED
    BY <2>1, <2>2 DEF Listed
<1> QED
  BY <1>1 DEF Init, IInv, Walking, Asking, Arriving

LEMMA StepHandle ==
    ASSUME IInv, Handle \/ CallFails
    PROVE  IInv'
<1>1. UNCHANGED <<listing, active, walk>>
  BY DEF Handle, CallFails
<1>2. Listed' /\ Walking'
  BY <1>1, Same DEF IInv
<1>3. CASE \E c \in {400, 500} : Answer([code |-> c])
  BY <1>2, <1>3 DEF Answer, IInv, Asking, Arriving
<1>4. CASE /\ query # Nothing /\ call = Nothing
           /\ call' = Forward(query) /\ UNCHANGED <<query, answer>>
  <2>1. answer' = Nothing
    BY <1>4 DEF IInv, Arriving
  <2>2. Asking'
    BY <1>1, <1>4 DEF IInv, Asking, Forward
  <2> QED
    BY <1>2, <2>1, <2>2 DEF IInv, Arriving
<1> QED
  BY <1>3, <1>4 DEF Handle, CallFails

LEMMA StepAnswered ==
    ASSUME IInv, ListAnswered \/ GetAnswered
    PROVE  IInv'
<1>1. UNCHANGED <<listing, active, walk>> /\ query' = Nothing /\ call' = Nothing /\ call # Nothing
  BY DEF ListAnswered, GetAnswered, Answer
<1>2. Listed' /\ Walking' /\ Asking'
  BY <1>1, Same DEF IInv, Asking
<1>3. CASE walk = Nothing
  BY <1>1, <1>2, <1>3 DEF IInv, Arriving
<1>4. CASE walk # Nothing
  <2>1. PICK l \in {Absent} \cup 1 .. MaxLimit :
           query = [op |-> "list", market |-> walk.market, limit |-> l,
                    offset |-> walk.offset, active |-> walk.active]
    BY <1>1, <1>4 DEF IInv, Asking
  <2>2. call = Forward(query)
    BY <1>1 DEF IInv, Asking
  <2>3. walk.offset \in Nat /\ walk.offset # Absent
    BY <1>4, MarketAssumption DEF IInv, Walking
  <2>4. PICK w : w = walk
    OBVIOUS
  <2>5. PICK n : n = Given(l, DefaultLimit)
    OBVIOUS
  <2>6. n \in Nat
    BY <2>5, MarketAssumption DEF Given
  <2>7. call = [op |-> "list", market |-> w.market, limit |-> n,
                offset |-> w.offset, active |-> w.active]
    BY <2>1, <2>2, <2>3, <2>4, <2>5 DEF Forward, Given
  <2>8. ListAnswered
    BY <2>7 DEF GetAnswered
  <2>9. PICK P : P = Page(w.market, w.active, w.offset, n)
    OBVIOUS
  <2>10. answer' = [code |-> 200, items |-> P, total |-> Cardinality(Matching(w.market, w.active))]
    BY <2>7, <2>8, <2>9 DEF ListAnswered, Answer
  <2>11. /\ IsFiniteSet(P) /\ P \subseteq Listable
         /\ Behind(w.offset + Cardinality(P), w.seen \cup P)
         /\ w.offset + Cardinality(P) >= Cardinality(Matching(w.market, w.active))
               => Through(w.seen \cup P)
    BY <1>4, <2>4, <2>6, <2>9, PageArrives DEF IInv
  <2>12. PICK o, seen : o = w.offset + Cardinality(P) /\ seen = w.seen \cup P
    OBVIOUS
  <2>13. Behind(o, seen)' /\ (Through(seen) => Through(seen)') /\ Listable' = Listable
    BY <1>1, <2>11, <2>12, Same
  <2>14. /\ walk' = w /\ answer'.items = P
         /\ answer'.total = Cardinality(Matching(w.market, w.active))
    BY <1>1, <2>4, <2>10
  <2>15. (Behind(walk.offset + Cardinality(answer.items), walk.seen \cup answer.items))'
    BY <2>12, <2>13, <2>14 DEF Behind
  <2>16. (walk.offset + Cardinality(answer.items) >= answer.total
             => Through(walk.seen \cup answer.items))'
    BY <2>11, <2>12, <2>13, <2>14 DEF Through
  <2>17. (IsFiniteSet(answer.items) /\ answer.items \subseteq Listable)'
    BY <2>11, <2>13, <2>14
  <2>18. Arriving'
    BY <1>1, <2>15, <2>16, <2>17 DEF Arriving
  <2> QED
    BY <1>2, <2>18 DEF IInv
<1> QED
  BY <1>3, <1>4

LEMMA StepAsk ==
    ASSUME IInv, \/ \E m \in MarketId \cup {Junk} : Ask(m)
                 \/ \E l \in {Absent} \cup 1 .. MaxLimit : NextPage(l)
                 \/ EndWalk
    PROVE  IInv'
<1>1. UNCHANGED <<listing, active, call>>
  BY DEF Ask, NextPage, EndWalk
<1>2. CASE \E m \in MarketId \cup {Junk} : Ask(m)
  <2>1. /\ UNCHANGED walk /\ walk = Nothing /\ query = Nothing /\ call = Nothing
        /\ answer' = Nothing
    BY <1>2 DEF Ask, IInv, Asking
  <2> QED
    BY <1>1, <2>1, Same DEF IInv, Walking, Asking, Arriving
<1>3. CASE \E l \in {Absent} \cup 1 .. MaxLimit : NextPage(l)
  <2>1. /\ UNCHANGED <<walk, answer>> /\ query = Nothing /\ call = Nothing /\ answer = Nothing
        /\ \E l \in {Absent} \cup 1 .. MaxLimit :
              query' = [op |-> "list", market |-> walk.market, limit |-> l,
                        offset |-> walk.offset, active |-> walk.active]
    BY <1>3 DEF NextPage, IInv, Asking
  <2>2. Listed' /\ Walking'
    BY <1>1, <2>1, Same DEF IInv
  <2>3. Asking' /\ Arriving'
    BY <1>1, <2>1 DEF Asking, Arriving
  <2> QED
    BY <2>2, <2>3 DEF IInv
<1>4. CASE EndWalk
  <2>1. walk' = Nothing /\ UNCHANGED <<query, answer>>
    BY <1>4 DEF EndWalk
  <2> QED
    BY <1>1, <2>1 DEF IInv, Listed, Items, Walking, Asking, Arriving, Forward
<1> QED
  BY <1>2, <1>3, <1>4

LEMMA StepStartWalk ==
    ASSUME IInv, NEW m \in MarketId, NEW a \in Flags, StartWalk(m, a)
    PROVE  IInv'
<1>1. /\ UNCHANGED <<listing, active, query, call>> /\ query = Nothing /\ call = Nothing
      /\ answer' = Nothing
      /\ walk' = [market |-> m, active |-> a, offset |-> 0, done |-> FALSE,
                  seen |-> {}, due |-> Matching(m, a), left |-> {}]
  BY DEF StartWalk, IInv, Asking
<1>2. Listed' /\ Items(m)' = Items(m) /\ Matching(m, a)' = Matching(m, a)
  BY <1>1 DEF IInv, Listed, Items, Matching, Matches
<1>3. Matching(m, a) \subseteq Item
  BY DEF Matching, Items, ToSet, IInv, Listed
<1>4. Before(m, a, 0)' = {}
  <2>1. Before(m, a, 0)' = Before(m, a, 0)
    BY <1>1 DEF Before, Rank, UpTo, NotAfter, Matching, Matches, Items
  <2>2. \A j \in Matching(m, a) : ~(Rank(m, a, j) <= 0)
    BY RankIs DEF IInv
  <2> QED
    BY <2>1, <2>2 DEF Before
<1>5. Behind(0, {})'
  <2>1. ((Before(walk.market, walk.active, 0) \cap walk.due) \ {})' = {} /\ walk'.left = {}
    BY <1>1, <1>4 DEF Before
  <2> QED
    BY <2>1, FS_EmptySet DEF Behind
<1>6. Walking'
  <2>1. (/\ walk.market = m /\ walk.active = a /\ walk.offset = 0 /\ walk.done = FALSE
         /\ walk.seen = {} /\ walk.due = Matching(m, a) /\ walk.left = {})'
    BY <1>1, <1>2
  <2>2. (Behind(walk.offset, walk.seen))'
    BY <1>5, <2>1 DEF Behind
  <2>3. (walk \in [market : MarketId, active : Flags, offset : Nat, done : BOOLEAN,
                   seen : SUBSET Item, due : SUBSET Item, left : SUBSET Item])'
    BY <1>1, <1>3
  <2>4. (walk.due \cup walk.seen \subseteq Listable)'
    BY <1>2, <2>1 DEF Listable
  <2> QED
    BY <2>1, <2>2, <2>3, <2>4 DEF Walking
<1> QED
  BY <1>1, <1>2, <1>6 DEF IInv, Asking, Arriving

LEMMA StepTakePage ==
    ASSUME IInv, TakePage
    PROVE  IInv'
<1>1. /\ UNCHANGED <<listing, active, query, call>> /\ answer' = Nothing
      /\ query = Nothing /\ call = Nothing /\ walk # Nothing /\ answer # Nothing
  BY DEF TakePage, IInv, Asking, Arriving
<1>2. Listed' /\ Asking' /\ Arriving'
  BY <1>1 DEF IInv, Listed, Items, Asking, Arriving
<1>3. CASE UNCHANGED walk
  BY <1>1, <1>2, <1>3, Same DEF IInv
<1>4. CASE answer.code = 200
  <2>1. PICK w, P, o, seen : /\ w = walk /\ P = answer.items
                             /\ o = w.offset + Cardinality(P) /\ seen = w.seen \cup P
    OBVIOUS
  <2>2. walk' = [w EXCEPT !.seen = seen, !.offset = o, !.done = o >= answer.total]
    BY <1>1, <1>4, <2>1 DEF TakePage
  <2>3. /\ IsFiniteSet(P) /\ P \subseteq Listable /\ Behind(o, seen)
        /\ o >= answer.total => Through(seen)
    BY <1>1, <1>4, <2>1 DEF IInv, Arriving
  <2>4. /\ w \in [market : MarketId, active : Flags, offset : Nat, done : BOOLEAN,
                  seen : SUBSET Item, due : SUBSET Item, left : SUBSET Item]
        /\ w.left \subseteq Items(w.market) \ active
        /\ w.active # TRUE => w.left = {}
        /\ w.due \cup w.seen \subseteq Listable
    BY <1>1, <2>1 DEF IInv, Walking
  <2>5. o \in Nat /\ P \subseteq Item
    <3>1. Listable \subseteq Items(w.market) /\ Items(w.market) \subseteq Item
      BY <1>1, <2>1, <2>4, WalkFinite DEF IInv, Listed, Items, ToSet
    <3> QED
      BY <2>1, <2>3, <2>4, <3>1, FS_CardinalityType
  <2>6. /\ walk'.market = w.market /\ walk'.active = w.active /\ walk'.due = w.due
        /\ walk'.left = w.left /\ walk'.seen = seen /\ walk'.offset = o
        /\ walk'.done = (o >= answer.total)
        /\ walk' \in [market : MarketId, active : Flags, offset : Nat, done : BOOLEAN,
                      seen : SUBSET Item, due : SUBSET Item, left : SUBSET Item]
    <3>1. seen \in SUBSET Item /\ (o >= answer.total) \in BOOLEAN
      BY <2>1, <2>4, <2>5
    <3> QED
      BY <2>2, <2>4, <2>5, <3>1
  <2>7. Listable' = Listable
    BY <1>1, <2>1, <2>6 DEF Listable, Matching, Matches, Items
  <2>8. Behind(o, seen)' /\ (walk'.done => Through(seen)')
    BY <1>1, <2>1, <2>3, <2>6
       DEF Behind, Through, Before, Rank, UpTo, NotAfter, Matching, Matches, Items
  <2>9. (Behind(walk.offset, walk.seen) /\ (walk.done => Through(walk.seen)))'
    BY <2>6, <2>8 DEF Behind, Through
  <2>10. (walk.left \subseteq Items(walk.market) \ active)'
    BY <1>1, <2>4, <2>6 DEF Items
  <2>11. (walk.due \cup walk.seen \subseteq Listable)'
    BY <2>1, <2>3, <2>4, <2>6, <2>7
  <2>12. Walking'
    BY <2>4, <2>6, <2>9, <2>10, <2>11 DEF Walking
  <2> QED
    BY <1>2, <2>12 DEF IInv
<1> QED
  BY <1>3, <1>4 DEF TakePage

LEMMA Inductive == IInv /\ [Next]_vars => IInv'
<1> SUFFICES ASSUME IInv, [Next]_vars PROVE IInv'
  OBVIOUS
<1>1. CASE Handle \/ CallFails
  BY <1>1, StepHandle
<1>2. CASE ListAnswered \/ GetAnswered
  BY <1>2, StepAnswered
<1>3. ASSUME NEW m \in MarketId, NEW i \in Item, NEW a \in BOOLEAN,
             NEW k \in 1 .. Len(listing[m]) + 1, Add(m, i, k, a)
      PROVE  IInv'
  BY <1>3, StepAdd
<1>4. ASSUME NEW i \in Item, Close(i)
      PROVE  IInv'
  BY <1>4, StepClose
<1>5. CASE \/ \E m \in MarketId \cup {Junk} : Ask(m)
           \/ \E l \in {Absent} \cup 1 .. MaxLimit : NextPage(l)
           \/ EndWalk
  BY <1>5, StepAsk
<1>6. ASSUME NEW m \in MarketId, NEW a \in Flags, StartWalk(m, a)
      PROVE  IInv'
  BY <1>6, StepStartWalk
<1>7. CASE TakePage
  BY <1>7, StepTakePage
<1>8. CASE UNCHANGED vars
  <2>1. Listed' /\ Walking'
    BY <1>8, Same DEF vars, IInv
  <2>2. Asking'
    BY <1>8 DEF vars, IInv, Asking, Forward
  <2>3. Bearable
    <3> SUFFICES ASSUME walk # Nothing PROVE Bearable
      BY <1>8 DEF vars, Bearable
    <3>1. /\ Listable' = Listable
          /\ \A o, seen : Behind(o, seen)' <=> Behind(o, seen)
          /\ \A seen : Through(seen)' <=> Through(seen)
      BY <1>8, Same DEF vars
    <3>2. /\ walk \in [market : MarketId, active : Flags, offset : Nat, done : BOOLEAN,
                       seen : SUBSET Item, due : SUBSET Item, left : SUBSET Item]
          /\ walk.left \subseteq Items(walk.market) \ active
          /\ walk.active # TRUE => walk.left = {}
      BY DEF IInv, Walking
    <3>3. walk \in [market : {walk.market}, active : {walk.active}, offset : {walk.offset},
                    done : {walk.done}, seen : {walk.seen}, due : {walk.due}, left : SUBSET Item]
      BY <3>2
    <3> QED
      BY <1>8, <3>1, <3>2, <3>3 DEF vars, Bearable, Items
  <2> QED
    BY <2>1, <2>3, Kept DEF IInv
<1> QED
  BY <1>1, <1>2, <1>3, <1>4, <1>5, <1>6, <1>7, <1>8 DEF Next

LEMMA Invariant == Spec => []IInv
  BY InitHolds, Inductive, PTL DEF Spec

-----------------------------------------------------------------------------
\* The theorems.

\* A client that has paged through a list, with pages of any size and lists of any
\* length, has missed at most as many items as have dropped out of it meanwhile,
\* whatever was added and whichever calls failed (Handler.List, and the offset
\* and limit it forwards).
THEOREM MissesHold == Spec => []WalkMissesFew
<1>1. IInv => WalkMissesFew
  BY DEF IInv, Walking, Through, WalkMissesFew
<1> QED
  BY <1>1, Invariant, PTL

\* It has seen only items of its market that were, since it started, in the state of
\* activity it asked for (is_active is passed on if it was given, FALSE too).
THEOREM SeesHold == Spec => []WalkSeesOnlyMatching
<1>1. IInv => WalkSeesOnlyMatching
  BY DEF IInv, Walking, Listable, WalkSeesOnlyMatching
<1> QED
  BY <1>1, Invariant, PTL

\* A list that only grows is seen whole, as one without a filter is: pages by
\* offset lose items to closed positions and to nothing else.
NothingMissed ==
    walk # Nothing /\ walk.done /\ walk.left = {} => walk.due \subseteq walk.seen

\* What the paging of Handler.List guarantees where no position is closed.
THEOREM GrowingListsAreSeen == Spec => []NothingMissed
<1>1. ASSUME IInv
      PROVE  NothingMissed
  <2> SUFFICES ASSUME walk # Nothing, walk.done, walk.left = {}
               PROVE  walk.due \subseteq walk.seen
    BY DEF NothingMissed
  <2> DEFINE missed == walk.due \ walk.seen
  <2>1. IsFiniteSet(missed)
    <3>1. IsFiniteSet(walk.due) /\ missed \in SUBSET walk.due
      BY <1>1, WalkFinite DEF IInv
    <3> QED
      BY <3>1, FS_Subset
  <2>2. Cardinality((walk.due \ {}) \ walk.seen) <= Cardinality({})
    BY <1>1 DEF IInv, Walking, Through
  <2>3. Cardinality(missed) = 0
    <3>1. (walk.due \ {}) \ walk.seen = missed /\ Cardinality({}) = 0
      BY FS_EmptySet
    <3>2. Cardinality(missed) \in Nat /\ Cardinality(missed) <= 0
      BY <2>1, <2>2, <3>1, FS_CardinalityType
    <3> QED
      BY <3>2
  <2> QED
    BY <2>1, <2>3, FS_EmptySet
<1> QED
  BY <1>1, Invariant, PTL
=============================================================================
