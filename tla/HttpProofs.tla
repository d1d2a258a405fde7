------------------------------ MODULE HttpProofs ------------------------------
(***************************************************************************)
(* For emails of any length: isValidEmail (internal/auth/types.go) accepts *)
(* exactly the addresses, and normalizeEmail makes of an address another   *)
(* one, which it leaves alone.                                             *)
(***************************************************************************)
EXTENDS Http, SequenceTheorems, WellFoundedInduction, TLAPS

-----------------------------------------------------------------------------
\* First and Last are there: a set of positions has a least and a greatest one.

LEMMA LessIsWellFounded == IsWellFoundedOn({p \in Nat \X Nat : p[1] < p[2]}, Nat)
  BY NatLessThanWellFounded DEF OpToRel

LEMMA Least ==
    ASSUME NEW S, S \subseteq Nat, S # {}
    PROVE  \E x \in S : \A y \in S : x <= y
<1>1. PICK x \in S : \A y \in S : <<y, x>> \notin {p \in Nat \X Nat : p[1] < p[2]}
  BY LessIsWellFounded, WFMin, Zenon
<1>2. ASSUME NEW y \in S
      PROVE  x <= y
  <2>1. <<y, x>> \in Nat \X Nat /\ <<y, x>>[1] = y /\ <<y, x>>[2] = x
    OBVIOUS
  <2>2. ~(y < x)
    BY <1>1, <2>1
  <2> QED
    BY <2>2
<1> QED
  BY <1>2

LEMMA Greatest ==
    ASSUME NEW n \in Nat, NEW S, S \subseteq 0 .. n, S # {}
    PROVE  \E x \in S : \A y \in S : x >= y
<1> DEFINE T == {k \in 0 .. n : n - k \in S}
<1>1. PICK s \in S : s \in 0 .. n
  OBVIOUS
<1>2. n - s \in T
  BY <1>1
<1>3. T \subseteq Nat /\ T # {}
  BY <1>2
<1>4. PICK t \in T : \A y \in T : t <= y
  <2> HIDE DEF T
  <2> QED
    BY <1>3, Least
<1>5. ASSUME NEW y \in S
      PROVE  n - t >= y
  <2>1. n - y \in T
    BY <1>5
  <2> QED
    BY <1>4, <2>1
<1> QED
  BY <1>4, <1>5

LEMMA FirstIs ==
    ASSUME NEW s \in Seq(Chars), NEW c, Has(s, c)
    PROVE  /\ First(s, c) \in 1 .. Len(s) /\ s[First(s, c)] = c
           /\ \A j \in 1 .. First(s, c) - 1 : s[j] # c
<1> DEFINE S == {i \in DOMAIN s : s[i] = c}
<1>1. DOMAIN s = 1 .. Len(s) /\ Len(s) \in Nat
  BY LenProperties
<1>2. S \subseteq Nat /\ S # {}
  BY <1>1 DEF Has
<1>3. PICK i \in S : \A j \in S : i <= j
  <2> HIDE DEF S
  <2> QED
    BY <1>2, Least
<1>4. i \in DOMAIN s /\ s[i] = c /\ \A j \in 1 .. i - 1 : s[j] # c
  BY <1>1, <1>3
<1> QED
  BY <1>1, <1>4 DEF First

LEMMA LastIs ==
    ASSUME NEW s \in Seq(Chars), NEW c, Has(s, c)
    PROVE  /\ Last(s, c) \in 1 .. Len(s) /\ s[Last(s, c)] = c
           /\ \A j \in Last(s, c) + 1 .. Len(s) : s[j] # c
<1> DEFINE S == {i \in DOMAIN s : s[i] = c}
<1>1. DOMAIN s = 1 .. Len(s) /\ Len(s) \in Nat
  BY LenProperties
<1>2. S \subseteq 0 .. Len(s) /\ S # {}
  BY <1>1 DEF Has
<1>3. PICK i \in S : \A j \in S : i >= j
  <2> HIDE DEF S
  <2> QED
    BY <1>1, <1>2, Greatest
<1>4. i \in DOMAIN s /\ s[i] = c /\ \A j \in i + 1 .. Len(s) : s[j] # c
  BY <1>1, <1>3
<1> QED
  BY <1>1, <1>4 DEF Last

-----------------------------------------------------------------------------

\* What Trim leaves begins and ends with no blank.
LEMMA TrimIs ==
    ASSUME NEW s \in Seq(Chars)
    PROVE  /\ Trim(s) \in Seq(Chars)
           /\ Trim(s) # << >> => /\ Len(Trim(s)) \in Nat \ {0}
                                 /\ Trim(s)[1] # Blank /\ Trim(s)[Len(Trim(s))] # Blank
<1> DEFINE word == {i \in DOMAIN s : s[i] # Blank}
<1>1. DOMAIN s = 1 .. Len(s) /\ Len(s) \in Nat /\ \A i \in 1 .. Len(s) : s[i] \in Chars
  BY LenProperties, ElementOfSeq
<1>2. CASE word = {}
  BY <1>2, EmptySeq DEF Trim
<1>3. CASE word # {}
  <2>1. word \subseteq Nat /\ word \subseteq 0 .. Len(s)
    BY <1>1
  <2>2. \E i \in word : \A j \in word : i <= j
    <3> HIDE DEF word
    <3> QED
      BY <1>3, <2>1, Least
  <2>3. \E i \in word : \A j \in word : i >= j
    <3> HIDE DEF word
    <3> QED
      BY <1>1, <1>3, <2>1, Greatest
  <2>4. PICK m \in word, n \in word : m <= n /\ Trim(s) = SubSeq(s, m, n)
    BY <1>3, <2>2, <2>3 DEF Trim
  <2>5. /\ m \in Nat \ {0} /\ n \in Nat \ {0} /\ n <= Len(s) /\ m <= n
        /\ s[m] # Blank /\ s[n] # Blank
    BY <1>1, <2>4
  <2> HIDE DEF word
  <2>6. m \in Int /\ n \in Int /\ \A i \in m .. n : s[i] \in Chars
    BY <1>1, <2>5
  <2>7. /\ Trim(s) \in Seq(Chars) /\ Len(Trim(s)) = n - m + 1
        /\ \A i \in 1 .. n - m + 1 : Trim(s)[i] = s[m + i - 1]
    BY <2>4, <2>5, <2>6, SubSeqProperties
  <2>8. /\ n - m + 1 \in Nat \ {0} /\ m + 1 - 1 = m /\ m + (n - m + 1) - 1 = n
        /\ 1 \in 1 .. n - m + 1 /\ n - m + 1 \in 1 .. n - m + 1
    BY <2>5
  <2>9. Trim(s)[1] = s[m] /\ Trim(s)[n - m + 1] = s[n]
    BY <2>7, <2>8
  <2> QED
    BY <2>5, <2>7, <2>8, <2>9
<1> QED
  BY <1>2, <1>3

\* The check of isValidEmail on an address without blanks around it.
LEMMA ChecksAddress ==
    ASSUME NEW e \in Seq(Chars)
    PROVE  (/\ Len(e) >= 3 /\ Len(e) <= MaxLength
            /\ Has(e, "@") /\ First(e, "@") > 1 /\ First(e, "@") < Len(e)
            /\ DotInside(SubSeq(e, First(e, "@"), Len(e))))
           <=> IsAddress(e) /\ Len(e) <= MaxLength
<1>1. DOMAIN e = 1 .. Len(e) /\ Len(e) \in Nat /\ \A i \in 1 .. Len(e) : e[i] \in Chars
  BY LenProperties, ElementOfSeq
<1> DEFINE at == First(e, "@")
           domain == SubSeq(e, at, Len(e))
<1>2. ASSUME Has(e, "@")
      PROVE  /\ at \in 1 .. Len(e) /\ e[at] = "@" /\ \A i \in 1 .. at - 1 : e[i] # "@"
             /\ domain \in Seq(Chars) /\ Len(domain) = Len(e) - at + 1
             /\ DOMAIN domain = 1 .. Len(e) - at + 1
             /\ \A i \in 1 .. Len(e) - at + 1 : domain[i] = e[at + i - 1]
  <2>1. at \in 1 .. Len(e) /\ e[at] = "@" /\ \A i \in 1 .. at - 1 : e[i] # "@"
    BY <1>2, FirstIs
  <2> HIDE DEF at
  <2>2. at \in Int /\ Len(e) \in Int /\ at <= Len(e) /\ \A i \in at .. Len(e) : e[i] \in Chars
    BY <1>1, <2>1
  <2>3. /\ domain \in Seq(Chars) /\ Len(domain) = Len(e) - at + 1
        /\ \A i \in 1 .. Len(e) - at + 1 : domain[i] = e[at + i - 1]
    BY <2>2, SubSeqProperties
  <2>4. DOMAIN domain = 1 .. Len(domain)
    <3> HIDE DEF domain
    <3> QED
      BY <2>3, LenProperties
  <2> QED
    BY <2>1, <2>3, <2>4
<1>3. ASSUME Has(e, "@"), at > 1, DotInside(domain)
      PROVE  IsAddress(e)
  <2> HIDE DEF at, domain
  <2> DEFINE d == Last(domain, ".")
             dot == at + d - 1
  <2>1. d \in 1 .. Len(domain) /\ domain[d] = "." /\ \A j \in d + 1 .. Len(domain) : domain[j] # "."
    BY <1>2, <1>3, LastIs DEF DotInside
  <2>2. d > 2 /\ d < Len(domain)
    BY <1>3 DEF DotInside
  <2> HIDE DEF d
  <2>3. at \in DOMAIN e /\ dot \in DOMAIN e /\ dot > at + 1 /\ dot < Len(e) /\ e[dot] = "."
    BY <1>1, <1>2, <1>3, <2>1, <2>2
  <2>4. ASSUME NEW i \in dot + 1 .. Len(e)
        PROVE  e[i] # "."
    <3>1. i - at + 1 \in d + 1 .. Len(domain) /\ at + (i - at + 1) - 1 = i
      BY <1>1, <1>2, <1>3, <2>1
    <3>2. i - at + 1 \in 1 .. Len(e) - at + 1
      BY <1>1, <1>2, <1>3, <2>1, <3>1
    <3> QED
      BY <1>2, <1>3, <2>1, <3>1, <3>2
  <2> QED
    BY <1>2, <1>3, <2>3, <2>4 DEF IsAddress
<1>4. ASSUME IsAddress(e)
      PROVE  /\ Has(e, "@") /\ at > 1 /\ at < Len(e) /\ Len(e) >= 3
             /\ DotInside(domain)
  <2>1. PICK a \in DOMAIN e, dot \in DOMAIN e :
           /\ e[a] = "@" /\ a > 1 /\ \A i \in 1 .. a - 1 : e[i] # "@"
           /\ e[dot] = "." /\ dot > a + 1 /\ dot < Len(e)
           /\ \A i \in dot + 1 .. Len(e) : e[i] # "."
    BY <1>4 DEF IsAddress
  <2>2. Has(e, "@")
    BY <2>1 DEF Has
  <2> HIDE DEF at, domain
  <2>3. at = a
    BY <1>1, <1>2, <2>1, <2>2
  <2>0. /\ domain \in Seq(Chars) /\ Len(domain) = Len(e) - a + 1
        /\ DOMAIN domain = 1 .. Len(e) - a + 1
        /\ \A i \in 1 .. Len(e) - a + 1 : domain[i] = e[a + i - 1]
    BY <1>2, <2>2, <2>3
  <2> DEFINE k == dot - a + 1
             d == Last(domain, ".")
  <2>4. k \in 1 .. Len(domain) /\ a + k - 1 = dot /\ k > 2 /\ k < Len(domain)
    <3>1. Len(domain) = Len(e) - a + 1
      BY <2>0
    <3>2. a \in Nat /\ dot \in Nat /\ Len(e) \in Nat /\ dot > a + 1 /\ dot < Len(e)
      BY <1>1, <2>1
    <3> HIDE DEF d
    <3> QED
      BY <3>1, <3>2
  <2>5. domain[k] = "." /\ Has(domain, ".")
    <3>1. domain[k] = e[a + k - 1] /\ k \in DOMAIN domain
      BY <2>0, <2>4
    <3>2. domain[k] = "."
      BY <2>1, <2>4, <3>1
    <3> HIDE DEF k
    <3> QED
      BY <3>1, <3>2 DEF Has
  <2>6. d \in 1 .. Len(domain) /\ domain[d] = "." /\ \A j \in d + 1 .. Len(domain) : domain[j] # "."
    BY <2>0, <2>5, LastIs
  <2> HIDE DEF d
  <2>7. d = k
    <3>1. ~(k > d)
      BY <2>0, <2>4, <2>5, <2>6
    <3>2. ~(k < d)
      <4>1. SUFFICES ASSUME k < d PROVE FALSE
        OBVIOUS
      <4>2. a + d - 1 \in dot + 1 .. Len(e) /\ domain[d] = e[a + d - 1]
        <5>1. domain[d] = e[a + d - 1]
          BY <2>0, <2>6
        <5>2. a \in Nat /\ dot \in Nat /\ d \in Nat /\ d <= Len(e) - a + 1 /\ Len(e) \in Nat
          BY <1>1, <2>0, <2>1, <2>6
        <5>3. dot - a + 1 < d
          BY <4>1
        <5>4. a + d - 1 >= dot + 1 /\ a + d - 1 <= Len(e) /\ a + d - 1 \in Int
          BY <5>2, <5>3, SMTT(60)
        <5>5. a + d - 1 \in dot + 1 .. Len(e)
          BY <5>2, <5>4
        <5> QED
          BY <5>1, <5>5
      <4> QED
        BY <2>1, <2>6, <4>2
    <3> QED
      BY <1>1, <2>0, <2>4, <2>6, <3>1, <3>2
  <2> QED
    BY <1>1, <2>1, <2>2, <2>3, <2>4, <2>5, <2>7 DEF DotInside, d
<1> QED
  BY <1>3, <1>4

-----------------------------------------------------------------------------

\* What begins and ends with no blank is left alone by Trim.
LEMMA TrimLeaves ==
    ASSUME NEW e \in Seq(Chars), e # << >>, e[1] # Blank, e[Len(e)] # Blank
    PROVE  Trim(e) = e
<1> DEFINE word == {i \in DOMAIN e : e[i] # Blank}
<1>1. DOMAIN e = 1 .. Len(e) /\ Len(e) \in Nat \ {0}
  BY LenProperties, EmptySeq
<1>2. 1 \in word /\ Len(e) \in word /\ \A i \in word : i \in Nat /\ 1 <= i /\ i <= Len(e)
  BY <1>1
<1> HIDE DEF word
<1>3. (CHOOSE i \in word : \A j \in word : i <= j) = 1
  BY <1>1, <1>2
<1>4. (CHOOSE i \in word : \A j \in word : i >= j) = Len(e)
  BY <1>1, <1>2
<1>5. Trim(e) = SubSeq(e, 1, Len(e))
  BY <1>2, <1>3, <1>4 DEF Trim, word
<1> QED
  BY <1>5, SubSeqFull

LEMMA BlankIsOther == Blank # "a"
  BY Zenon DEF Blank

LEMMA LowerIs ==
    ASSUME NEW e \in Seq(Chars)
    PROVE  /\ ToLower(e) \in Seq(Chars) /\ Len(ToLower(e)) = Len(e)
           /\ DOMAIN ToLower(e) = DOMAIN e
           /\ \A i \in DOMAIN e : ToLower(e)[i] = IF e[i] = "A" THEN "a" ELSE e[i]
<1>1. DOMAIN e = 1 .. Len(e) /\ Len(e) \in Nat /\ \A i \in 1 .. Len(e) : e[i] \in Chars
  BY LenProperties, ElementOfSeq
<1>2. ToLower(e) \in [1 .. Len(e) -> Chars]
  BY <1>1 DEF ToLower, Chars
<1>3. ToLower(e) \in Seq(Chars)
  BY <1>1, <1>2, SeqDef
<1>4. DOMAIN ToLower(e) = 1 .. Len(e) /\ DOMAIN ToLower(e) = 1 .. Len(ToLower(e))
      /\ Len(ToLower(e)) \in Nat
  BY <1>2, <1>3, LenProperties
<1>5. Len(ToLower(e)) = Len(e)
  <2> HIDE DEF ToLower
  <2>1. 1 .. Len(e) = 1 .. Len(ToLower(e))
    BY <1>4
  <2> QED
    BY <1>1, <1>4, <2>1
<1> QED
  BY <1>1, <1>3, <1>4, <1>5 DEF ToLower

\* What is stored of an address is one as well, and normalising it again, as a
\* resend does, changes nothing.
LEMMA NormalIs ==
    ASSUME NEW s \in Seq(Chars), IsAddress(Trim(s))
    PROVE  IsAddress(normalizeEmail(s)) /\ normalizeEmail(normalizeEmail(s)) = normalizeEmail(s)
<1> DEFINE e == Trim(s)
           n == ToLower(e)
<1>1. e \in Seq(Chars) /\ normalizeEmail(s) = n
  BY TrimIs DEF normalizeEmail
<1>2. PICK at \in DOMAIN e, dot \in DOMAIN e :
         /\ e[at] = "@" /\ at > 1 /\ \A i \in 1 .. at - 1 : e[i] # "@"
         /\ e[dot] = "." /\ dot > at + 1 /\ dot < Len(e)
         /\ \A i \in dot + 1 .. Len(e) : e[i] # "."
  BY DEF IsAddress
<1> HIDE DEF e
<1>3. DOMAIN e = 1 .. Len(e) /\ Len(e) \in Nat /\ e # << >>
  BY <1>1, <1>2, LenProperties, EmptySeq
<1>4. e[1] # Blank /\ e[Len(e)] # Blank
  BY <1>3, TrimIs DEF e
<1>5. /\ n \in Seq(Chars) /\ Len(n) = Len(e) /\ DOMAIN n = DOMAIN e
      /\ \A i \in DOMAIN e : n[i] = IF e[i] = "A" THEN "a" ELSE e[i]
  BY <1>1, LowerIs
<1> HIDE DEF n
<1>6. IsAddress(n)
  <2>1. n[at] = "@" /\ n[dot] = "."
    BY <1>2, <1>5
  <2>2. \A i \in 1 .. at - 1 : n[i] # "@"
    BY <1>2, <1>3, <1>5
  <2>3. \A i \in dot + 1 .. Len(n) : n[i] # "."
    BY <1>2, <1>3, <1>5
  <2> QED
    BY <1>2, <1>5, <2>1, <2>2, <2>3 DEF IsAddress
<1>7. Trim(n) = n
  <2>1. n # << >> /\ 1 \in DOMAIN e /\ Len(e) \in DOMAIN e
    BY <1>2, <1>3, <1>5, EmptySeq
  <2>2. n[1] # Blank /\ n[Len(n)] # Blank
    BY <1>4, <1>5, <2>1, BlankIsOther
  <2> QED
    BY <1>5, <2>1, <2>2, TrimLeaves
<1>8. ToLower(n) = n
  <2>1. \A i \in DOMAIN n : n[i] # "A"
    BY <1>5
  <2>2. n = [i \in DOMAIN n |-> n[i]]
    BY <1>5, LenProperties
  <2> QED
    BY <2>1, <2>2 DEF ToLower
<1> QED
  BY <1>1, <1>6, <1>7, <1>8 DEF normalizeEmail

-----------------------------------------------------------------------------

\* Only a registration that gets as far as Validate has an address, and it is
\* refused exactly if isValidEmail refuses the address.
Validated ==
    /\ mode = "enter" => address = NoAddress
    /\ address # NoAddress => address \in Seq(Chars) /\ (outcome # "malformed" <=> isValidEmail(address))

LEMMA AddressesAreTexts == Addresses \subseteq Seq(Chars)
  BY SeqDef DEF Addresses

LEMMA StepValidated == ASSUME Validated, [Next]_vars PROVE Validated'
<1> USE DEF Validated
<1>1. ASSUME NEW r \in Routes, NEW p \in BOOLEAN, Arrive(r, p)
      PROVE  Validated'
  BY <1>1 DEF Arrive
<1>2. CASE TraceID \/ CORS \/ Wrap
  BY <1>2 DEF TraceID, CORS, Wrap, Pass, Return, Entering
<1>3. CASE Guard
  BY <1>3 DEF Guard, Respond, Pass, Return, Entering
<1>4. CASE Refuse
  BY <1>4, AddressesAreTexts DEF Refuse, Respond, Return, Entering
<1>5. ASSUME NEW o \in Outcomes, Serve(o)
      PROVE  Validated'
  <2>1. o # "malformed"
    BY <1>5 DEF Serve, Results
  <2> QED
    BY <1>5, <2>1, AddressesAreTexts DEF Serve, Respond, Return
<1>6. CASE Panic
  BY <1>6 DEF Panic, Unwind, Entering
<1>7. CASE Recover \/ Unwinding \/ Complete \/ Leave \/ UNCHANGED vars
  BY <1>7 DEF Recover, Unwinding, Complete, Leave, Return, Unwind, vars
<1> QED
  BY <1>1, <1>2, <1>3, <1>4, <1>5, <1>6, <1>7 DEF Next

\* Register lets an email pass if and only if it is an address when stripped of
\* blanks, and not too long, and stores an address that normalising leaves
\* alone: for emails of any length.
THEOREM AddressesHold == Spec => []AddressesChecked
<1>1. Init => Validated
  BY DEF Init, Validated
<1>2. Validated /\ [Next]_vars => Validated'
  BY StepValidated
<1>3. Validated => AddressesChecked
  <2> SUFFICES ASSUME Validated, address # NoAddress PROVE AddressesChecked
    BY DEF AddressesChecked
  <2>1. address \in Seq(Chars) /\ (outcome # "malformed" <=> isValidEmail(address))
    BY DEF Validated
  <2>2. isValidEmail(address) <=> IsAddress(Trim(address)) /\ Len(Trim(address)) <= MaxLength
    BY <2>1, TrimIs, ChecksAddress DEF isValidEmail
  <2> QED
    BY <2>1, <2>2, NormalIs DEF AddressesChecked
<1> QED
  BY <1>1, <1>2, <1>3, PTL DEF Spec

-----------------------------------------------------------------------------
\* What the client is sent and what is logged.

\* Where a request can be: a panic unwinds the handler and the guard only.
Place ==
    /\ layer \in 0 .. 6
    /\ route \in Routes
    /\ preflight \in BOOLEAN
    /\ mode \in {"idle", "enter", "leave", "panic"}
    /\ mode = "idle" => layer = 0
    /\ mode = "enter" => layer >= 1
    /\ mode = "panic" => layer \in {4, 5}
    /\ mode = "leave" => layer <= 5
    /\ preflight => (mode = "enter" => layer <= 2) /\ (mode = "leave" => layer <= 1) /\ mode # "panic"
    /\ mode = "leave" /\ layer = 1 => sent # 0

\* TraceID and CORS have set their headers before anybody answers.
HeadersSet ==
    /\ mode = "enter" =>
          headers = CASE layer = 1 -> {} [] layer = 2 -> {"trace"} [] OTHER -> {"trace", "cors"}
    /\ mode \in {"leave", "panic"} => headers = {"trace", "cors"}
    /\ sent # 0 => sentHeaders = {"trace", "cors"}

\* Logging sees what is sent, as all who answer but CORS are inside of it.
Answered ==
    /\ sent \in Nat /\ wroteHeader \in BOOLEAN
    /\ mode = "enter" => sent = 0 /\ ~wroteHeader
    /\ mode = "leave" => sent # 0
    /\ ~preflight => (wroteHeader <=> sent # 0)
    /\ wroteHeader => status = sent
    /\ mode = "panic" /\ sent # 0 => route = "docs"

Logged ==
    /\ untraced = FALSE
    /\ lines = IF mode = "leave" /\ layer < 3 /\ ~preflight THEN <<sent>> ELSE <<>>

\* Whom the answer blames.
Blamed ==
    /\ mode = "enter" => outcome = "none"
    /\ mode = "panic" => outcome = "panic"
    /\ mode = "leave" =>
          IF outcome \in {"error", "panic"}
          THEN sent = 500 \/ route \in {"resend-verification-email", "docs"}
          ELSE sent < 500

Chain == Place /\ HeadersSet /\ Answered /\ Logged /\ Blamed

LEMMA LayersAre ==
    /\ Layers[1] = "TraceID" /\ Layers[2] = "CORS" /\ Layers[3] = "Logging"
    /\ Layers[4] = "Recovery" /\ Layers[5] = "Guard" /\ Layers[6] = "Handler"
  BY DEF Layers

LEMMA WithinIs ==
    ASSUME layer \in 0 .. 6
    PROVE  /\ Within("TraceID") <=> layer > 1
           /\ Within("Logging") <=> layer > 3
<1>1. 1 .. layer - 1 \subseteq 1 .. 6
  OBVIOUS
<1>2. \A i \in 1 .. 6 : (Layers[i] = "TraceID" <=> i = 1) /\ (Layers[i] = "Logging" <=> i = 3)
  <2> SUFFICES ASSUME NEW i \in 1 .. 6
               PROVE  (Layers[i] = "TraceID" <=> i = 1) /\ (Layers[i] = "Logging" <=> i = 3)
    OBVIOUS
  <2>1. i = 1 \/ i = 2 \/ i = 3 \/ i = 4 \/ i = 5 \/ i = 6
    OBVIOUS
  <2> QED
    BY <2>1, LayersAre
<1>3. Within("TraceID") <=> 1 \in 1 .. layer - 1
  BY <1>1, <1>2 DEF Within
<1>4. Within("Logging") <=> 3 \in 1 .. layer - 1
  BY <1>1, <1>2 DEF Within
<1> QED
  BY <1>3, <1>4

\* Which layer a request that enters is in.
LEMMA EnteringIs ==
    ASSUME layer \in 0 .. 6, mode = "enter" => layer >= 1
    PROVE  /\ Entering("TraceID") => layer = 1
           /\ Entering("CORS") => layer = 2
           /\ Entering("Logging") => layer = 3
           /\ Entering("Recovery") => layer = 4
           /\ Entering("Guard") => layer = 5
           /\ Entering("Handler") => layer = 6
<1> SUFFICES ASSUME mode = "enter"
             PROVE  /\ Entering("TraceID") => layer = 1
                    /\ Entering("CORS") => layer = 2
                    /\ Entering("Logging") => layer = 3
                    /\ Entering("Recovery") => layer = 4
                    /\ Entering("Guard") => layer = 5
                    /\ Entering("Handler") => layer = 6
  BY DEF Entering
<1>1. layer = 1 \/ layer = 2 \/ layer = 3 \/ layer = 4 \/ layer = 5 \/ layer = 6
  OBVIOUS
<1> QED
  BY <1>1, LayersAre DEF Entering

\* The first status written inside of Logging is the one that is sent, and the
\* one Logging knows.
LEMMA HeaderWritten ==
    ASSUME Chain, layer >= 4, ~preflight, sent = 0,
           headers = {"trace", "cors"}, NEW s \in Nat \ {0}, WriteHeader(s)
    PROVE  /\ sent' = s /\ status' = s /\ wroteHeader'
           /\ sentHeaders' = {"trace", "cors"}
<1>1. Within("Logging")
  BY WithinIs DEF Chain, Place
<1>2. ~wroteHeader
  BY DEF Chain, Answered
<1> QED
  BY <1>1, <1>2 DEF WriteHeader, SendHeader

\* Once something has been sent, nothing else is.
LEMMA HeaderKept ==
    ASSUME Chain, layer >= 4, ~preflight, sent # 0, NEW s, WriteHeader(s)
    PROVE  UNCHANGED <<status, wroteHeader, sent, sentHeaders>>
<1>1. Within("Logging")
  BY WithinIs DEF Chain, Place
<1>2. wroteHeader
  BY DEF Chain, Answered
<1> QED
  BY <1>1, <1>2 DEF WriteHeader, writer, wire

\* A service's fault becomes a 500, and nothing else does, but for a resend.
LEMMA StatusBlames ==
    ASSUME route \in Routes, NEW o \in Outcomes, o \in Results \/ o \in {"limited", "unauthorized", "malformed"}
    PROVE  /\ StatusOf(o) \in Nat \ {0}
           /\ o = "error" => StatusOf(o) = 500 \/ route = "resend-verification-email"
           /\ o # "error" => StatusOf(o) < 500
           /\ o # "panic" /\ o # "none"
<1>1. CASE o \in {"limited", "unauthorized", "malformed", "ok", "not_found"}
  BY <1>1 DEF StatusOf
<1>2. CASE o \notin {"limited", "unauthorized", "malformed", "ok", "not_found"}
  <2>1. CASE route = "register"
    BY <1>2, <2>1 DEF StatusOf, Results, handleAuthError
  <2>2. CASE route = "login"
    BY <1>2, <2>2 DEF StatusOf, Results, handleAuthError
  <2>3. CASE route = "refresh"
    BY <1>2, <2>3 DEF StatusOf, Results, handleAuthError
  <2>4. CASE route = "verify-email"
    BY <1>2, <2>4 DEF StatusOf, Results, handleVerifyError
  <2>5. CASE route = "positions"
    BY <1>2, <2>5 DEF StatusOf, Results, handleAuthError
  <2>6. CASE route \in {"resend-verification-email", "logout", "me", "signals"}
    BY <1>2, <2>6 DEF StatusOf, Results, handleAuthError
  <2>7. CASE route = "unknown"
    BY <1>2, <2>7 DEF StatusOf, Results, handleAuthError
  <2>8. CASE route \in {"users", "health", "docs"}
    BY <1>2, <2>8 DEF StatusOf, Results, handleAuthError
  <2> QED
    BY <2>1, <2>2, <2>3, <2>4, <2>5, <2>6, <2>7, <2>8 DEF Routes, Limited, Protected
<1> QED
  BY <1>1, <1>2

\* The guard or the handler answers.
LEMMA StepRespond ==
    ASSUME Chain, mode = "enter", layer \in {5, 6},
           NEW o \in Outcomes, o \in Results \/ o \in {"limited", "unauthorized", "malformed"},
           Respond(o), UNCHANGED <<route, preflight, headers, log>>
    PROVE  Chain'
<1>1. sent = 0 /\ headers = {"trace", "cors"} /\ ~preflight /\ route \in Routes
  BY DEF Chain, Place, HeadersSet, Answered
<1>2. /\ sent' = StatusOf(o) /\ status' = StatusOf(o) /\ wroteHeader'
      /\ sentHeaders' = {"trace", "cors"} /\ StatusOf(o) \in Nat \ {0}
  BY <1>1, StatusBlames, HeaderWritten DEF Respond
<1>3. layer' \in {4, 5} /\ mode' = "leave" /\ outcome' = o
  BY DEF Respond, Return
<1>4. Blamed'
  BY <1>1, <1>2, <1>3, StatusBlames DEF Blamed
<1>5. Logged'
  BY <1>3 DEF Chain, Logged, log
<1> QED
  BY <1>1, <1>2, <1>3, <1>4, <1>5 DEF Chain, Place, HeadersSet, Answered

LEMMA StepChain == ASSUME Chain, [Next]_vars PROVE Chain'
<1> USE DEF Chain, Place, HeadersSet, Answered, Logged, Blamed
<1>0. layer \in 0 .. 6 /\ (mode = "enter" => layer >= 1)
  OBVIOUS
<1>1. ASSUME NEW r \in Routes, NEW p \in BOOLEAN, Arrive(r, p)
      PROVE  Chain'
  <2>1. Place' /\ HeadersSet'
    BY <1>1 DEF Arrive
  <2>2. Answered' /\ Logged' /\ Blamed'
    BY <1>1 DEF Arrive
  <2> QED
    BY <2>1, <2>2
<1>2. CASE TraceID
  BY <1>0, <1>2, EnteringIs DEF TraceID, Pass, Entering, writer, wire, log
<1>3. CASE CORS
  <2>1. mode = "enter" /\ layer = 2 /\ sent = 0
    BY <1>0, <1>3, EnteringIs DEF CORS, Entering
  <2>2. headers' = {"trace", "cors"}
    <3>1. headers = {"trace"} /\ headers' = headers \cup {"cors"}
      BY <1>3, <2>1 DEF CORS
    <3> QED
      BY <3>1
  <2>3. CASE preflight /\ Return
    <3>1. /\ layer' = 1 /\ mode' = "leave" /\ preflight' = TRUE
          /\ sent' = 200 /\ sentHeaders' = {"trace", "cors"}
          /\ UNCHANGED <<route, status, wroteHeader, lines, untraced, outcome>>
      BY <1>3, <2>1, <2>2, <2>3 DEF CORS, Pass, Return, writer, log
    <3>2. Place' /\ HeadersSet'
      BY <2>1, <2>2, <2>3, <3>1
    <3>3. Answered'
      BY <2>1, <2>3, <3>1
    <3>4. Logged' /\ Blamed'
      BY <2>1, <2>3, <3>1
    <3> QED
      BY <3>2, <3>3, <3>4
  <2>4. CASE ~preflight /\ Pass /\ UNCHANGED wire
    BY <1>3, <2>1, <2>2, <2>4 DEF CORS, Pass, writer, wire, log
  <2> QED
    BY <1>3, <2>3, <2>4 DEF CORS
<1>4. CASE Wrap
  BY <1>0, <1>4, EnteringIs DEF Wrap, Pass, Entering, writer, wire, log
<1>5. CASE Guard
  <2>1. mode = "enter" /\ layer = 5
    BY <1>0, <1>5, EnteringIs DEF Guard, Entering
  <2>2. CASE Pass /\ UNCHANGED <<writer, wire, outcome>>
    BY <1>5, <2>1, <2>2 DEF Guard, Pass, writer, wire, log
  <2>3. ASSUME NEW o \in {"limited", "unauthorized"}, Respond(o)
        PROVE  Chain'
    BY <1>5, <2>1, <2>3, StepRespond DEF Guard, Outcomes
  <2> QED
    BY <1>5, <2>2, <2>3 DEF Guard
<1>6. CASE Refuse
  <2>1. mode = "enter" /\ layer = 6
    BY <1>0, <1>6, EnteringIs DEF Refuse, Entering
  <2> QED
    BY <1>6, <2>1, StepRespond DEF Refuse, Outcomes
<1>7. ASSUME NEW o \in Outcomes, Serve(o)
      PROVE  Chain'
  <2>1. mode = "enter" /\ layer = 6
    BY <1>0, <1>7, EnteringIs DEF Serve, Entering
  <2> QED
    BY <1>7, <2>1, StepRespond DEF Serve
<1>8. CASE Panic
  <2>1. mode = "enter" /\ layer \in {5, 6}
    BY <1>0, <1>8, EnteringIs DEF Panic, Entering
  <2>2. CASE UNCHANGED <<writer, wire>>
    BY <1>8, <2>1, <2>2 DEF Panic, Unwind, writer, wire, log
  <2>3. CASE route = "docs" /\ WriteHeader(200)
    <3>1. sent = 0 /\ ~preflight /\ headers = {"trace", "cors"} /\ layer >= 4
      BY <2>1
    <3>2. sent' = 200 /\ status' = 200 /\ wroteHeader' /\ sentHeaders' = {"trace", "cors"}
      <4> HIDE DEF Chain
      <4> QED
        BY <2>3, <3>1, HeaderWritten
    <3> QED
      BY <1>8, <2>1, <2>3, <3>1, <3>2 DEF Panic, Unwind, log
  <2> QED
    BY <1>8, <2>2, <2>3 DEF Panic
<1>9. CASE Recover
  <2>1. layer = 4 /\ ~preflight
    BY <1>9, LayersAre DEF Recover
  <2>2. Within("TraceID")
    BY <2>1, WithinIs
  <2>3. CASE sent = 0
    <3>1. sent' = 500 /\ status' = 500 /\ wroteHeader' /\ sentHeaders' = {"trace", "cors"}
      <4>1. headers = {"trace", "cors"} /\ layer >= 4 /\ WriteHeader(500)
        BY <1>9, <2>1 DEF Recover
      <4> HIDE DEF Chain
      <4> QED
        BY <2>1, <2>3, <4>1, HeaderWritten
    <3> QED
      BY <1>9, <2>1, <2>2, <3>1 DEF Recover, Return
  <2>4. CASE sent # 0
    <3>1. UNCHANGED <<status, wroteHeader, sent, sentHeaders>>
      <4>1. layer >= 4 /\ WriteHeader(500)
        BY <1>9, <2>1 DEF Recover
      <4> HIDE DEF Chain
      <4> QED
        BY <2>1, <2>4, <4>1, HeaderKept
    <3> QED
      BY <1>9, <2>1, <2>2, <2>4, <3>1 DEF Recover, Return
  <2> QED
    BY <2>3, <2>4
<1>10. CASE Unwinding
  <2>1. layer = 5
    BY <1>10, LayersAre DEF Unwinding
  <2> QED
    BY <1>10, <2>1 DEF Unwinding, Unwind, writer, wire, log
<1>11. CASE Complete
  <2>1. layer = 3
    <3>1. layer = 1 \/ layer = 2 \/ layer = 3 \/ layer = 4 \/ layer = 5 \/ layer = 6
      BY <1>11 DEF Complete
    <3> QED
      BY <1>11, <3>1, LayersAre DEF Complete
  <2>2. Within("TraceID") /\ ~preflight
    BY <1>11, <2>1, WithinIs DEF Complete
  <2>3. lines' = <<sent>> /\ status = sent
    BY <1>11, <2>1, <2>2 DEF Complete
  <2> QED
    BY <1>11, <2>1, <2>2, <2>3 DEF Complete, Return, writer, wire
<1>12. CASE Leave
  <2>1. layer # 3 /\ layer # 0
    BY <1>12, LayersAre DEF Leave
  <2> QED
    BY <1>12, <2>1 DEF Leave, Return, writer, wire, log
<1>13. CASE UNCHANGED vars
  BY <1>13 DEF vars, writer, wire, log
<1> QED
  BY <1>1, <1>2, <1>3, <1>4, <1>5, <1>6, <1>7, <1>8, <1>9, <1>10, <1>11, <1>12, <1>13 DEF Next

LEMMA ChainHolds == Spec => []Chain
<1>1. Init => Chain
  <2> SUFFICES ASSUME Init PROVE Chain
    OBVIOUS
  <2>1. Place
    <3>1. route \in Routes
      BY DEF Init, Routes
    <3>2. layer = 0 /\ mode = "idle" /\ preflight = FALSE
      BY DEF Init
    <3>3. layer \in 0 .. 6 /\ mode \in {"idle", "enter", "leave", "panic"}
      BY <3>2
    <3>4. mode # "enter" /\ mode # "leave" /\ mode # "panic"
      BY <3>2
    <3>5. preflight \in BOOLEAN /\ ~preflight
      BY <3>2, Zenon
    <3> QED
      BY <3>1, <3>2, <3>3, <3>4, <3>5, Zenon DEF Place
  <2>2. HeadersSet
    BY DEF Init, HeadersSet
  <2>3. Answered
    BY DEF Init, Answered
  <2>4. Logged /\ Blamed
    BY DEF Init, Logged, Blamed
  <2> QED
    BY <2>1, <2>2, <2>3, <2>4 DEF Chain
<1>2. Chain /\ [Next]_vars => Chain'
  BY StepChain
<1> QED
  BY <1>1, <1>2, PTL DEF Spec

\* The log of a request other than a preflight is one line, and has the status
\* its client was sent, whoever answered and whatever panicked (Logging).
THEOREM LogsHold == Spec => []LoggedAsSent
<1>1. Chain => LoggedAsSent
  BY DEF Chain, Place, Logged, LoggedAsSent, Over
<1> QED
  BY <1>1, ChainHolds, PTL

\* Every request is answered, and every answer has the headers of TraceID and of
\* CORS, which enclose whoever may answer.
THEOREM HeadersHold == Spec => []AnswersReadable
<1>1. Chain => AnswersReadable
  BY DEF Chain, Place, HeadersSet, Answered, AnswersReadable, Over
<1> QED
  BY <1>1, ChainHolds, PTL

\* A 5xx stands for a fault of the server, and a fault of the server for a 500, but
\* for a resend and for an answer a panic cut short (the handlers' error mappings).
THEOREM BlamesHold == Spec => []FaultsAreOurs
<1>1. Chain => FaultsAreOurs
  BY DEF Chain, Place, Blamed, FaultsAreOurs, Over
<1> QED
  BY <1>1, ChainHolds, PTL
=============================================================================
