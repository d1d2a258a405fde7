-------------------------------- MODULE Server --------------------------------
(***************************************************************************)
(* The life of the server process (cmd/api/main.go): it connects to the    *)
(* database, serves requests, is told to stop, waits for the requests in   *)
(* progress, closes the database and exits.  It also exits, without any of *)
(* that, if the database does not answer or the listener fails.            *)
(*                                                                         *)
(* Five deadlines meet here.  The ping of the database gives up after      *)
(* PingTimeout.  The client of eyebroker gives up after                    *)
(* Upstream, the HTTP server writes nothing after WriteTimeout, Shutdown   *)
(* waits for Grace, and fx, which runs the stop hooks last one first, ends *)
(* the process after StopTimeout whatever they do.  Mail is sent with      *)
(* http.DefaultClient and without the context of the request: nothing      *)
(* bounds it.                                                              *)
(*                                                                         *)
(* A request either works in the database, asks eyebroker, or sends mail   *)
(* after its work in the database.  What a handler computes takes no time. *)
(***************************************************************************)
EXTENDS Integers

CONSTANTS
    Req,
    PingTimeout,  \* how long Connect waits for the database
    Upstream,     \* the timeout of the eyebroker clients
    WriteTimeout, \* http.Server.WriteTimeout
    Grace,        \* how long Shutdown waits
    StopTimeout,  \* how long fx lets the stop hooks run
    MaxTime       \* bound on the clock

ASSUME ServerAssumption ==
    {PingTimeout, Upstream, WriteTimeout, Grace, StopTimeout, MaxTime} \subseteq Nat

VARIABLES
    now,
    phase,   \* "starting", "serving", "draining" (in Shutdown), "closing",
             \* "closed" or "down"
    crashed, \* history: did the process exit without running its hooks?
    stopAt,  \* when the process was told to stop
    kind,    \* what a request does: "database", "market" or "mail"
    pc,      \* "idle", "working", "mailing", "replying" or "done"
    readAt,  \* when the request was read
    resp,    \* "sent", "lost" (written too late) or "cut" (by the exit)
    endedAt  \* history: when the handler returned, or was cut short

vars == <<now, phase, crashed, stopAt, kind, pc, readAt, resp, endedAt>>

Time == 0 .. MaxTime
Kinds == {"database", "market", "mail"}
Stopping == phase \in {"draining", "closing", "closed"}
InProgress(r) == pc[r] \in {"working", "mailing", "replying"}

TypeOK ==
    /\ now \in Time /\ stopAt \in Time
    /\ phase \in {"starting", "serving", "draining", "closing", "closed", "down"}
    /\ crashed \in BOOLEAN /\ (crashed => phase = "down")
    /\ kind \in [Req -> Kinds \cup {"none"}]
    /\ pc \in [Req -> {"idle", "working", "mailing", "replying", "done"}]
    /\ \A r \in Req : pc[r] = "mailing" => kind[r] = "mail"
    /\ readAt \in [Req -> Time] /\ endedAt \in [Req -> Time]
    /\ resp \in [Req -> {"none", "sent", "lost", "cut"}]
    /\ \A r \in Req : pc[r] = "done" <=> resp[r] # "none"
    /\ phase = "down" => \A r \in Req : ~InProgress(r)

Init ==
    /\ now = 0 /\ phase = "starting" /\ crashed = FALSE /\ stopAt = 0
    /\ kind = [r \in Req |-> "none"] /\ pc = [r \in Req |-> "idle"]
    /\ readAt = [r \in Req |-> 0] /\ endedAt = [r \in Req |-> 0]
    /\ resp = [r \in Req |-> "none"]

Goto(r, c) == pc' = [pc EXCEPT ![r] = c]

-----------------------------------------------------------------------------
\* Starting.

\* The database answers the ping, and the server listens.
Connect ==
    /\ phase = "starting"
    /\ phase' = "serving"
    /\ UNCHANGED <<now, crashed, stopAt, kind, pc, readAt, resp, endedAt>>

\* The database refuses or is silent, and provideDatabase panics; or a signal
\* comes, for which nobody listens yet.
StartFails ==
    /\ phase = "starting"
    /\ phase' = "down" /\ crashed' = TRUE
    /\ UNCHANGED <<now, stopAt, kind, pc, readAt, resp, endedAt>>

-----------------------------------------------------------------------------
\* Requests.

\* The server reads a request; from Shutdown on it takes no more.
Accept(r, k) ==
    /\ phase = "serving"
    /\ pc[r] = "idle"
    /\ kind' = [kind EXCEPT ![r] = k]
    /\ readAt' = [readAt EXCEPT ![r] = now]
    /\ Goto(r, "working")
    /\ UNCHANGED <<now, phase, crashed, stopAt, resp, endedAt>>

\* The database, or eyebroker, answers or fails.
WorkEnds(r) ==
    /\ pc[r] = "working"
    /\ phase # "down"
    /\ Goto(r, IF kind[r] = "mail" THEN "mailing" ELSE "replying")
    /\ UNCHANGED <<now, phase, crashed, stopAt, kind, readAt, resp, endedAt>>

\* The mail provider answers or fails.
MailEnds(r) ==
    /\ pc[r] = "mailing"
    /\ Goto(r, "replying")
    /\ UNCHANGED <<now, phase, crashed, stopAt, kind, readAt, resp, endedAt>>

\* The handler writes its answer and returns; net/http flushes it, or fails to
\* because the write deadline has passed.
Reply(r) ==
    /\ pc[r] = "replying"
    /\ Goto(r, "done")
    /\ endedAt' = [endedAt EXCEPT ![r] = now]
    /\ \/ now <= readAt[r] + WriteTimeout /\ resp' = [resp EXCEPT ![r] = "sent"]
       \/ now >= readAt[r] + WriteTimeout /\ resp' = [resp EXCEPT ![r] = "lost"]
    /\ UNCHANGED <<now, phase, crashed, stopAt, kind, readAt>>

-----------------------------------------------------------------------------
\* Stopping.

\* SIGINT or SIGTERM: fx calls the stop hook of the server.
Signal ==
    /\ phase = "serving"
    /\ now + StopTimeout <= MaxTime
    /\ phase' = "draining"
    /\ stopAt' = now
    /\ UNCHANGED <<now, crashed, kind, pc, readAt, resp, endedAt>>

ShutdownReturnsAtOnce ==
    /\ phase = "draining"
    /\ phase' = "closing"
    /\ UNCHANGED <<now, crashed, stopAt, kind, pc, readAt, resp, endedAt>>

\* Shutdown returns when no request is in progress, or gives up.
ShutdownReturns ==
    /\ phase = "draining"
    /\ (\A r \in Req : ~InProgress(r)) \/ now >= stopAt + Grace
    /\ phase' = "closing"
    /\ UNCHANGED <<now, crashed, stopAt, kind, pc, readAt, resp, endedAt>>

\* The stop hook of the database, which was appended before that of the server.
CloseDatabase ==
    /\ phase = "closing"
    /\ phase' = "closed"
    /\ UNCHANGED <<now, crashed, stopAt, kind, pc, readAt, resp, endedAt>>

\* The process is gone and its handlers with it.
Die ==
    /\ phase' = "down"
    /\ pc' = [r \in Req |-> IF InProgress(r) THEN "done" ELSE pc[r]]
    /\ resp' = [r \in Req |-> IF InProgress(r) THEN "cut" ELSE resp[r]]
    /\ endedAt' = [r \in Req |-> IF InProgress(r) THEN now ELSE endedAt[r]]
    /\ UNCHANGED <<now, stopAt, kind, readAt>>

\* main returns when the hooks have, or fx exits in the midst of them.
MayExitWhenClosed == phase = "closed"
MayExit == phase = "closed" \/ (Stopping /\ now >= stopAt + StopTimeout)

Exit == MayExit /\ Die /\ UNCHANGED crashed

\* log.Fatal: the port is taken, or the listener fails later.
ListenerFails == phase = "serving" /\ Die /\ crashed' = TRUE

-----------------------------------------------------------------------------

\* How long a request may still wait for eyebroker.
WithinTimeoutOfDefaultClient(r) == TRUE
WithinTimeout(r) ==
    (kind[r] = "market" /\ pc[r] = "working") => now < readAt[r] + Upstream

\* The clock, which no timer that is due lets pass, and no handler that has
\* nothing to wait for.
Tick ==
    /\ now < MaxTime
    /\ \A r \in Req : WithinTimeout(r) /\ pc[r] # "replying"
    /\ phase = "starting" => now < PingTimeout
    /\ Stopping => now < stopAt + StopTimeout
    /\ now' = now + 1
    /\ UNCHANGED <<phase, crashed, stopAt, kind, pc, readAt, resp, endedAt>>

Step(r) == WorkEnds(r) \/ Reply(r)

Next ==
    \/ \E r \in Req : (\E k \in Kinds : Accept(r, k)) \/ Step(r) \/ MailEnds(r)
    \/ Connect \/ StartFails \/ ListenerFails
    \/ Signal \/ ShutdownReturns \/ CloseDatabase \/ Exit
    \/ Tick

Spec == Init /\ [][Next]_vars

\* The ping ends, handlers run, the database answers or fails, eyebroker does or its client
\* times out, the hooks and fx run, and the clock moves on.  Nothing makes the
\* mail provider answer.
FairSpec ==
    /\ Spec
    /\ WF_vars(Connect \/ StartFails)
    /\ \A r \in Req : WF_vars(Step(r))
    /\ WF_vars(ShutdownReturns) /\ WF_vars(CloseDatabase) /\ WF_vars(Exit)
    /\ WF_vars(Tick)

-----------------------------------------------------------------------------

\* No handler finds the database closed under it: the hooks run in the order
\* that closes the server first, and where Shutdown gives up before it is idle
\* the process is gone before the next hook runs.
DatabaseOutlivesRequests ==
    phase = "closed" => \A r \in Req : ~InProgress(r)

\* A request for market data is answered in time, even if eyebroker is silent
\* and the process is told to stop meanwhile: its timeout is the shortest.  Only
\* a process that crashes leaves it without an answer.
MarketAnswered ==
    \A r \in Req : kind[r] = "market" /\ pc[r] = "done" => resp[r] = "sent" \/ crashed

\* A process that is stopped cuts only requests it has waited for as long as it
\* can.
OnlyLongRequestsAreCut ==
    \A r \in Req : resp[r] = "cut" => crashed \/ endedAt[r] - stopAt >= StopTimeout

\* A process never hangs in its start, and one that is told to stop exits,
\* whatever its handlers wait for.
StartAndStopEnd ==
    /\ (phase = "starting") ~> (phase # "starting")
    /\ (phase = "draining") ~> (phase = "down")
=============================================================================
