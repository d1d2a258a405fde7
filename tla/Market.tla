-------------------------------- MODULE Market --------------------------------
(***************************************************************************)
(* Listing positions and signals, and looking up one position: the         *)
(* handlers check a query and forward it to the HTTP API of eyebroker,     *)
(* whose answer they pass on (internal/positions, internal/signals,        *)
(* internal/repositories/position.go and signal.go).  The two lists differ *)
(* in MaxLimit and in that only positions can be filtered by is_active;    *)
(* the filters status and symbol are passed on as they come and left out.  *)
(*                                                                         *)
(* A client pages through a list by its offset, as the API documents it,   *)
(* while eyebroker adds items and closes positions.  eyebroker is          *)
(* external: it is taken to list the items of a market in some order that  *)
(* adding one keeps, to honour limit, offset and is_active, and to count   *)
(* what matches.                                                           *)
(***************************************************************************)
EXTENDS Integers, Sequences, FiniteSets, SequencesExt

CONSTANTS
    Item, MarketId,
    DefaultLimit, MaxLimit,
    Absent,  \* the value of a parameter that is not in the query
    Junk,    \* one that is no integer, no boolean, or no known market
    Nothing  \* no query, no call, no walk, no answer

ASSUME MarketAssumption ==
    /\ DefaultLimit \in Nat \ {0} /\ MaxLimit \in Nat
    /\ DefaultLimit <= MaxLimit
    /\ Absent \notin Int \cup BOOLEAN

VARIABLES
    listing,  \* eyebroker: the items of each market, in the order it lists them
    active,   \* eyebroker: the items that are active
    query,    \* the query the handler works on
    call,     \* the query it has sent to eyebroker
    answer,   \* what it has answered
    walk      \* the client: which list it pages through, how far it is, the
              \* items it has seen, those the list had when it started, and
              \* those that have dropped out of the list since

vars == <<listing, active, query, call, answer, walk>>

Items(m) == ToSet(listing[m])
Matches(i, a) == a = Absent \/ (i \in active) = a
Matching(m, a) == {i \in Items(m) : Matches(i, a)}

Limits == {Absent, Junk} \cup -1 .. MaxLimit + 1
Offsets == {Absent, Junk} \cup -1 .. MaxLimit
Flags == {Absent, TRUE, FALSE}

Init ==
    /\ listing = [m \in MarketId |-> <<>>] /\ active = {}
    /\ query = Nothing /\ call = Nothing /\ answer = Nothing /\ walk = Nothing

-----------------------------------------------------------------------------
\* The handlers.

\* strconv.Atoi and the bounds that follow it.
IsLimit(l) == l \in {Absent} \cup 1 .. MaxLimit
IsOffset(o) == o \in {Absent} \cup Nat

IsValid(q) ==
    /\ q.market # Junk
    /\ IF q.op = "get" THEN q.id # Junk
       ELSE IsLimit(q.limit) /\ IsOffset(q.offset) /\ q.active # Junk

Given(v, default) == IF v = Absent THEN default ELSE v

ForwardWithoutFalse(q) ==
    IF q.op = "get" THEN q
    ELSE [q EXCEPT !.limit = Given(q.limit, DefaultLimit),
                   !.offset = Given(q.offset, 0),
                   !.active = IF q.active = TRUE THEN TRUE ELSE Absent]
ForwardPages(q) ==
    IF q.op = "get" THEN q
    ELSE [q EXCEPT !.limit = Given(q.limit, DefaultLimit),
                   !.offset = Given(q.offset, 0) * Given(q.limit, DefaultLimit)]

\* What is sent to eyebroker: the defaults are filled in, and is_active is left
\* out if it was not given.
Forward(q) ==
    IF q.op = "get" THEN q
    ELSE [q EXCEPT !.limit = Given(q.limit, DefaultLimit),
                   !.offset = Given(q.offset, 0)]

Answer(a) == answer' = a /\ query' = Nothing /\ call' = Nothing

\* The handler checks the query, and calls eyebroker or answers 400.
Handle ==
    /\ query # Nothing /\ call = Nothing
    /\ \/ ~IsValid(query) /\ Answer([code |-> 400])
       \/ IsValid(query) /\ call' = Forward(query) /\ UNCHANGED <<query, answer>>
    /\ UNCHANGED <<listing, active, walk>>

\* What matches, up to an item, in the order of the list; and the page that
\* limit and offset cut out of it, of which the order is left out.
NotAfter(m, i, j) ==
    \E a, b \in DOMAIN listing[m] : a <= b /\ listing[m][a] = i /\ listing[m][b] = j
UpTo(m, a, j) == {i \in Matching(m, a) : NotAfter(m, i, j)}
Rank(m, a, j) == Cardinality(UpTo(m, a, j))
Page(m, a, offset, limit) ==
    {j \in Matching(m, a) : Rank(m, a, j) \in offset + 1 .. offset + limit}

\* eyebroker lists a page, and the handler passes it on.
ListAnswered ==
    /\ call # Nothing /\ call.op = "list"
    /\ Answer([code |-> 200,
               items |-> Page(call.market, call.active, call.offset, call.limit),
               total |-> Cardinality(Matching(call.market, call.active))])
    /\ UNCHANGED <<listing, active, walk>>

\* eyebroker looks a position up: its 404 becomes a 404 here.
GetAnswered ==
    /\ call # Nothing /\ call.op = "get"
    /\ \/ call.id \in Items(call.market) /\ Answer([code |-> 200, items |-> {call.id}])
       \/ call.id \notin Items(call.market) /\ Answer([code |-> 404])
    /\ UNCHANGED <<listing, active, walk>>

\* No connection, no answer in time, another status, or not the JSON expected.
CallFails ==
    /\ call # Nothing
    /\ Answer([code |-> 500])
    /\ UNCHANGED <<listing, active, walk>>

-----------------------------------------------------------------------------
\* eyebroker and the client.

Add(m, i, k, a) ==
    /\ \A n \in MarketId : i \notin Items(n)
    /\ listing' = [listing EXCEPT ![m] = InsertAt(@, k, i)]
    /\ active' = IF a THEN active \cup {i} ELSE active
    /\ UNCHANGED <<query, call, answer, walk>>

\* A position is closed: a list of the active ones loses it.
Close(i) ==
    /\ i \in active
    /\ active' = active \ {i}
    /\ walk' = IF walk # Nothing /\ walk.active = TRUE /\ i \in Items(walk.market)
               THEN [walk EXCEPT !.left = @ \cup {i}] ELSE walk
    /\ UNCHANGED <<listing, query, call, answer>>

\* A query outside a walk, whatever its parameters.
Ask(m) ==
    /\ query = Nothing /\ walk = Nothing
    /\ \/ \E l \in Limits, o \in Offsets, a \in Flags \cup {Junk} :
            query' = [op |-> "list", market |-> m, limit |-> l, offset |-> o, active |-> a]
       \/ \E i \in Item \cup {Junk} : query' = [op |-> "get", market |-> m, id |-> i]
    /\ answer' = Nothing
    /\ UNCHANGED <<listing, active, call, walk>>

StartWalk(m, a) ==
    /\ query = Nothing /\ walk = Nothing
    /\ walk' = [market |-> m, active |-> a, offset |-> 0, done |-> FALSE,
                seen |-> {}, due |-> Matching(m, a), left |-> {}]
    /\ answer' = Nothing
    /\ UNCHANGED <<listing, active, query, call>>

NextPage(l) ==
    /\ walk # Nothing /\ ~walk.done /\ query = Nothing /\ answer = Nothing
    /\ query' = [op |-> "list", market |-> walk.market, limit |-> l,
                 offset |-> walk.offset, active |-> walk.active]
    /\ UNCHANGED <<listing, active, call, answer, walk>>

\* The client takes a page; after a failure it asks for it again.
TakePage ==
    /\ walk # Nothing /\ answer # Nothing
    /\ \/ /\ answer.code = 200
          /\ LET reached == walk.offset + Cardinality(answer.items)
             IN  walk' = [walk EXCEPT !.seen = @ \cup answer.items,
                                      !.offset = reached,
                                      !.done = reached >= answer.total]
       \/ answer.code # 200 /\ UNCHANGED walk
    /\ answer' = Nothing
    /\ UNCHANGED <<listing, active, query, call>>

EndWalk ==
    /\ walk # Nothing /\ walk.done
    /\ walk' = Nothing
    /\ UNCHANGED <<listing, active, query, call, answer>>

Next ==
    \/ Handle \/ ListAnswered \/ GetAnswered \/ CallFails
    \/ \E m \in MarketId, i \in Item, a \in BOOLEAN :
          \E k \in 1 .. Len(listing[m]) + 1 : Add(m, i, k, a)
    \/ \E i \in Item : Close(i)
    \/ \E m \in MarketId \cup {Junk} : Ask(m)
    \/ \E m \in MarketId, a \in Flags : StartWalk(m, a)
    \/ \E l \in {Absent} \cup 1 .. MaxLimit : NextPage(l)
    \/ TakePage
    \/ EndWalk

Spec == Init /\ [][Next]_vars

-----------------------------------------------------------------------------

\* A client that has paged to the end has missed at most one item of those that
\* were there when it started for each one that dropped out of the list
\* meanwhile: paging by offset can skip as many and never more, whatever was
\* added and whichever calls failed.  If none dropped out, it has seen them all.
WalkMissesFew ==
    walk # Nothing /\ walk.done =>
        Cardinality((walk.due \ walk.left) \ walk.seen) <= Cardinality(walk.left)

\* It has seen only items of the market that have been, since it started, in the
\* state of activity it asked for.
WalkSeesOnlyMatching ==
    walk # Nothing => walk.seen \subseteq Matching(walk.market, walk.active) \cup walk.left

=============================================================================
