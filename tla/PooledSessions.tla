--------------------------- MODULE PooledSessions ---------------------------
(***************************************************************************)
(* Sessions over the connection pool of database/sql (pkg/db/postgres.go): *)
(* at most MaxOpenConns connections are in use, and a call that finds none *)
(* free waits for one, however long (the context of a request has no       *)
(* deadline).                                                              *)
(*                                                                         *)
(* A statement of its own gives its connection back when it returns; the   *)
(* transaction of a login keeps one from BEGIN to COMMIT or ROLLBACK.  A   *)
(* refresh or a logout that waits for a row lock keeps its connection, so  *)
(* that enough of them leave none: what must not happen is that the logins *)
(* they wait for are themselves waiting for a connection.                  *)
(***************************************************************************)
EXTENDS Sessions, Integers, FiniteSets

CONSTANT MaxOpenConns

ASSUME PoolAssumption == MaxOpenConns \in Nat \ {0}

VARIABLE conn  \* the requests that hold a connection

poolVars == <<vars, conn>>

PoolInit == Init /\ conn = {}

InProgress(r) == pc[r] \notin {"idle", "done"}
InTransaction(c) == c \in {"loginRevoke", "loginCommit"}

IsFree == Cardinality(conn) < MaxOpenConns

\* A free connection goes to any request that waits for one: since Go 1.22 the
\* pool serves its waiters in no particular order.
Acquire(r) ==
    /\ InProgress(r) /\ r \notin conn
    /\ IsFree
    /\ conn' = conn \cup {r}
    /\ UNCHANGED vars

HasConnectionForEach(r) == r \in conn /\ (InTransaction(pc[r]) => IsFree)
HasConnection(r) == r \in conn

ReleaseAfter(r) == conn' = IF InTransaction(pc'[r]) THEN conn ELSE conn \ {r}

PoolStep(r) ==
    /\ HasConnection(r)
    /\ Step(r)
    /\ ReleaseAfter(r)

GiveUpWithoutRollback(r) ==
    conn' = IF InTransaction(pc[r]) THEN conn ELSE conn \ {r}
GiveUp(r) == conn' = conn \ {r}

\* A call fails while it waits for a connection, or with one, which goes back:
\* in the transaction it is the deferred Rollback that returns it.
PoolFail(r) == Fail(r) /\ GiveUp(r)

PoolNext ==
    \/ \E r \in Req :
          \/ Acquire(r) \/ PoolStep(r) \/ PoolFail(r)
          \/ /\ \/ \E u \in User : ArriveLogin(r, u)
                \/ \E t \in Delivered \cup {None} : ArriveRefresh(r, t) \/ ArriveLogout(r, t)
                \/ Expire(r)
             /\ UNCHANGED conn
    \/ \E u \in User : (Block(u) \/ Unblock(u)) /\ UNCHANGED conn

PoolSpec == PoolInit /\ [][PoolNext]_poolVars

\* A request that holds a connection runs on, and a connection that stays free
\* is given to whoever keeps waiting.
Fairness == \A r \in Req : WF_poolVars(Acquire(r) \/ PoolStep(r))

FairPoolSpec == PoolSpec /\ Fairness

-----------------------------------------------------------------------------

\* The pool keeps its bound, and a request that has been answered has given its
\* connection back, however it failed: none is lost.
ConnectionsReturn ==
    /\ conn \subseteq {r \in Req : InProgress(r)}
    /\ IsFiniteSet(conn) /\ Cardinality(conn) <= MaxOpenConns

\* Whoever holds, or waits for, the row locks of a transaction has a connection:
\* those who wait for a connection keep nobody from answering.
LockersConnected == \A r \in Req : InTransaction(pc[r]) => r \in conn

\* Every request is answered, though some wait for a connection while others
\* wait, with a connection in hand, for the row locks of a login, and any of them
\* may fail.  A request is used once, so this is to say that in the end none is
\* left in progress.
EveryRequestAnswered == <>[](\A r \in Req : ~InProgress(r))
=============================================================================
