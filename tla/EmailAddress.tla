---------------------------- MODULE EmailAddress ----------------------------
(***************************************************************************)
(* Addresses as sequences of characters: isValidEmail                      *)
(* (internal/auth/types.go) and normalizeEmail (internal/auth/service.go   *)
(* and internal/verification/service.go).  A blank, a dot and an at sign   *)
(* stand for themselves, "A" for any capital and "a" for any other         *)
(* character.  Positions count from 1, where those of the code count       *)
(* from 0.                                                                 *)
(***************************************************************************)
EXTENDS Naturals, Sequences, FiniteSets

CONSTANT MaxLength   \* 254 in the code

ASSUME MaxLengthAssumption == MaxLength \in Nat

Blank == " "
Chars == {"a", "A", "@", ".", Blank}

Has(s, c) == \E i \in DOMAIN s : s[i] = c
First(s, c) == CHOOSE i \in DOMAIN s : s[i] = c /\ \A j \in 1 .. i - 1 : s[j] # c
Last(s, c) == CHOOSE i \in DOMAIN s : s[i] = c /\ \A j \in i + 1 .. Len(s) : s[j] # c

\* strings.TrimSpace
Trim(s) ==
    LET word == {i \in DOMAIN s : s[i] # Blank} IN
    IF word = {} THEN << >>
    ELSE SubSeq(s, CHOOSE i \in word : \A j \in word : i <= j,
                   CHOOSE i \in word : \A j \in word : i >= j)

ToLower(s) == [i \in DOMAIN s |-> IF s[i] = "A" THEN "a" ELSE s[i]]

normalizeEmail(s) == ToLower(Trim(s))

\* The last dot of what follows the at sign, counting the at sign as well.
DotAnywhere(domain) == Has(domain, ".") /\ Last(domain, ".") < Len(domain)
DotInside(domain) == Has(domain, ".") /\ Last(domain, ".") > 2 /\ Last(domain, ".") < Len(domain)

isValidEmail(s) ==
    LET e == Trim(s) IN
    /\ Len(e) >= 3 /\ Len(e) <= MaxLength
    /\ Has(e, "@") /\ First(e, "@") > 1 /\ First(e, "@") < Len(e)
    /\ DotInside(SubSeq(e, First(e, "@"), Len(e)))

\* What an address is: a local part without an at sign, an at sign, a host, a
\* dot, and a last label without a dot; the parts are not empty.
IsAddress(s) ==
    \E at, dot \in DOMAIN s :
        /\ s[at] = "@" /\ at > 1 /\ \A i \in 1 .. at - 1 : s[i] # "@"
        /\ s[dot] = "." /\ dot > at + 1 /\ dot < Len(s)
        /\ \A i \in dot + 1 .. Len(s) : s[i] # "."
=============================================================================
