-------------------------------- MODULE Http --------------------------------
(***************************************************************************)
(* One request on its way through the middlewares (middlewares/,           *)
(* cmd/api/main.go) to its handler (internal/auth/handlers.go) and back:   *)
(* what is written to the client, with which status and headers, and what  *)
(* is logged of it, whatever fails or panics.                              *)
(*                                                                         *)
(* The middlewares are layers of a stack.  A request is passed on to the   *)
(* next layer, comes back through all of them, or unwinds them by a panic. *)
(* Limiters, tokens and services answer as they like: InMemoryLimiter,     *)
(* AccessTokens, Sessions and Accounts say when they do.  RealIP, which    *)
(* changes only the address the limiter and the log see, is left out.      *)
(*                                                                         *)
(* Faulty variants of some definitions stand before them.                  *)
(***************************************************************************)
EXTENDS EmailAddress

CONSTANT Longest   \* bound: the length of the addresses that are tried

Limited == {"register", "login", "verify-email", "resend-verification-email", "refresh"}
Protected == {"me", "users", "signals", "positions"}
Routes == Limited \cup Protected \cup {"logout", "health", "docs", "unknown"}

LayersCORSInside == <<"TraceID", "Logging", "Recovery", "Guard", "CORS", "Handler">>
Layers == <<"TraceID", "CORS", "Logging", "Recovery", "Guard", "Handler">>

NoAddress == << >>
Addresses == UNION {[1 .. n -> Chars] : n \in 0 .. Longest}

VARIABLES
    route,
    preflight,   \* is the method OPTIONS?
    layer,       \* the layer the request is in; 0 is net/http
    mode,        \* is it entering that layer, back in it, or unwinding it?
    headers,     \* the headers set on the response so far
    status,      \* responseWriter, which Logging wraps the response in
    wroteHeader,
    sent,        \* the status on the wire, or 0
    sentHeaders, \* ... and the headers that went with it
    lines,       \* the lines "Request completed" in the log: their status
    untraced,    \* does a line in the log have no trace_id?
    address,     \* the email of a registration that got as far as Validate
    outcome      \* history: what the guard, the service or a panic made of it

writer == <<status, wroteHeader>>
wire == <<sent, sentHeaders>>
log == <<lines, untraced>>
vars == <<route, preflight, layer, mode, headers, writer, wire, log, address, outcome>>

Outcomes == {"none", "limited", "unauthorized", "malformed", "ok", "email_already_exists",
             "invalid_credentials", "email_not_verified", "user_blocked",
             "invalid_refresh_token", "session_expired", "session_revoked",
             "invalid_token", "token_used", "token_expired", "not_found", "error", "panic"}

Init ==
    /\ route = "health" /\ preflight = FALSE
    /\ layer = 0 /\ mode = "idle"
    /\ headers = {} /\ status = 200 /\ wroteHeader = FALSE
    /\ sent = 0 /\ sentHeaders = {}
    /\ lines = << >> /\ untraced = FALSE
    /\ address = NoAddress /\ outcome = "none"

\* The next request, on a connection of its own.
Arrive(r, p) ==
    /\ layer = 0
    /\ route' = r /\ preflight' = p
    /\ layer' = 1 /\ mode' = "enter"
    /\ headers' = {} /\ status' = 200 /\ wroteHeader' = FALSE
    /\ sent' = 0 /\ sentHeaders' = {}
    /\ lines' = << >> /\ untraced' = FALSE
    /\ address' = NoAddress /\ outcome' = "none"

-----------------------------------------------------------------------------

Entering(l) == mode = "enter" /\ Layers[layer] = l
Pass == layer' = layer + 1 /\ mode' = "enter"
Return == layer' = layer - 1 /\ mode' = "leave"
Unwind == layer' = layer - 1 /\ mode' = "panic"

\* Is this layer inside of that one?
Within(l) == \E i \in 1 .. layer - 1 : Layers[i] = l

\* WriteHeader of net/http: only the first call counts.
SendHeader(s) ==
    IF sent = 0 THEN sent' = s /\ sentHeaders' = headers ELSE UNCHANGED wire

WriteHeaderTwice(s) ==
    /\ IF Within("Logging") THEN status' = s /\ wroteHeader' = TRUE ELSE UNCHANGED writer
    /\ SendHeader(s)

\* WriteHeader of the response as this layer sees it.
WriteHeader(s) ==
    IF Within("Logging")
    THEN IF wroteHeader THEN UNCHANGED <<writer, wire>>
         ELSE status' = s /\ wroteHeader' = TRUE /\ SendHeader(s)
    ELSE SendHeader(s) /\ UNCHANGED writer

TraceID ==
    /\ Entering("TraceID")
    /\ headers' = headers \cup {"trace"}
    /\ Pass
    /\ UNCHANGED <<route, preflight, writer, wire, log, address, outcome>>

\* A preflight ends here, before it is logged.
CORS ==
    /\ Entering("CORS")
    /\ headers' = headers \cup {"cors"}
    /\ \/ preflight /\ Return /\ sent' = 200 /\ sentHeaders' = headers'
       \/ ~preflight /\ Pass /\ UNCHANGED wire
    /\ UNCHANGED <<route, preflight, writer, log, address, outcome>>

\* Logging wraps the response, and Recovery arms its recover.
Wrap ==
    /\ Entering("Logging") \/ Entering("Recovery")
    /\ Pass
    /\ UNCHANGED <<route, preflight, headers, writer, wire, log, address, outcome>>

-----------------------------------------------------------------------------
\* What the handlers make of an outcome.

handleAuthErrorLumped(o) ==
    CASE o \in {"invalid_credentials", "invalid_refresh_token", "session_expired"} -> 401
      [] o \in {"email_not_verified", "user_blocked"} -> 403
      [] o = "email_already_exists" -> 409
      [] OTHER -> 500

handleAuthError(o) ==
    CASE o \in {"invalid_credentials", "invalid_refresh_token", "session_expired",
                "session_revoked"} -> 401
      [] o \in {"email_not_verified", "user_blocked"} -> 403
      [] o = "email_already_exists" -> 409
      [] OTHER -> 500

handleVerifyError(o) ==
    CASE o \in {"invalid_token", "token_used"} -> 400
      [] o = "token_expired" -> 410
      [] OTHER -> 500

StatusOf(o) ==
    CASE o = "ok" -> IF route = "register" THEN 201 ELSE 200
      [] o = "malformed" -> 400
      [] o = "unauthorized" -> 401
      [] o = "not_found" -> 404
      [] o = "limited" -> 429
      [] OTHER -> CASE route = "verify-email" -> handleVerifyError(o)
                    [] route = "resend-verification-email" -> 200
                    [] OTHER -> handleAuthError(o)

\* What the service of a route may return.
Results ==
    CASE route = "register" -> {"ok", "email_already_exists", "error"}
      [] route = "login" -> {"ok", "invalid_credentials", "email_not_verified", "user_blocked", "error"}
      [] route = "refresh" -> {"ok", "invalid_refresh_token", "session_expired",
                               "session_revoked", "user_blocked", "error"}
      [] route = "verify-email" -> {"ok", "invalid_token", "token_used", "token_expired", "error"}
      [] route = "positions" -> {"ok", "not_found", "error"}
      [] route \in {"resend-verification-email", "logout", "me", "signals"} -> {"ok", "error"}
      [] route = "unknown" -> {"not_found"}
      [] OTHER -> {"ok"}

Respond(o) ==
    /\ outcome' = o
    /\ WriteHeader(StatusOf(o))
    /\ Return

-----------------------------------------------------------------------------

\* RateLimit or Auth, if the route has one.
Guard ==
    /\ Entering("Guard")
    /\ \/ Pass /\ UNCHANGED <<writer, wire, outcome>>
       \/ route \in Limited /\ Respond("limited")
       \/ route \in Protected /\ Respond("unauthorized")
    /\ UNCHANGED <<route, preflight, headers, log, address>>

\* Decode and Validate; the query of the market data.  Logout takes any body.
Refuse ==
    /\ Entering("Handler")
    /\ route \in Limited \cup {"signals", "positions"}
    /\ Respond("malformed")
    /\ \/ UNCHANGED address
       \/ route = "register" /\ address' \in {e \in Addresses : ~isValidEmail(e)}
    /\ UNCHANGED <<route, preflight, headers, log>>

Serve(o) ==
    /\ Entering("Handler")
    /\ o \in Results
    /\ Respond(o)
    /\ address' \in IF route = "register" THEN {e \in Addresses : isValidEmail(e)} ELSE {NoAddress}
    /\ UNCHANGED <<route, preflight, headers, log>>

\* A guard or a handler panics; that of the documentation, which is not ours,
\* perhaps when it has begun to answer.
Panic ==
    /\ Entering("Guard") \/ Entering("Handler")
    /\ outcome' = "panic"
    /\ Unwind
    /\ \/ UNCHANGED <<writer, wire>>
       \/ Entering("Handler") /\ route = "docs" /\ WriteHeader(200)
    /\ UNCHANGED <<route, preflight, headers, log, address>>

-----------------------------------------------------------------------------

\* Recovery logs the panic and answers for the handler.
Recover ==
    /\ mode = "panic" /\ layer > 0 /\ Layers[layer] = "Recovery"
    /\ WriteHeader(500)
    /\ untraced' = (untraced \/ ~Within("TraceID"))
    /\ Return
    /\ UNCHANGED <<route, preflight, headers, lines, address, outcome>>

\* No other layer has anything to do in a panic.
Unwinding ==
    /\ mode = "panic" /\ layer > 0 /\ Layers[layer] # "Recovery"
    /\ Unwind
    /\ UNCHANGED <<route, preflight, headers, writer, wire, log, address, outcome>>

Complete ==
    /\ mode = "leave" /\ layer > 0 /\ Layers[layer] = "Logging"
    /\ lines' = Append(lines, status)
    /\ untraced' = (untraced \/ ~Within("TraceID"))
    /\ Return
    /\ UNCHANGED <<route, preflight, headers, writer, wire, address, outcome>>

Leave ==
    /\ mode = "leave" /\ layer > 0 /\ Layers[layer] # "Logging"
    /\ Return
    /\ UNCHANGED <<route, preflight, headers, writer, wire, log, address, outcome>>

Next ==
    \/ \E r \in Routes, p \in BOOLEAN : Arrive(r, p)
    \/ TraceID \/ CORS \/ Wrap \/ Guard \/ Refuse
    \/ \E o \in Outcomes : Serve(o)
    \/ Panic \/ Recover \/ Unwinding \/ Complete \/ Leave

Spec == Init /\ [][Next]_vars

-----------------------------------------------------------------------------

Over == layer = 0 /\ mode # "idle"

\* A request other than a preflight leaves one line "Request completed", with
\* the status its client was sent: of a panic the one Recovery answers with,
\* unless the handler had begun another answer.  Every line has a trace_id.
LoggedAsSent == Over => ~untraced /\ lines = IF preflight THEN <<>> ELSE <<sent>>

\* Whoever answers, guard, handler or Recovery, the browser may read the answer
\* and the client find its trace.
AnswersReadable == Over => sent # 0 /\ sentHeaders = {"trace", "cors"}

\* A client is told of a fault of the server when there was one, and only then:
\* every refusal of a service has a status of its own, however deep it arose.
\* The exceptions are a resend, on purpose, and an answer a panic cut short.
FaultsAreOurs ==
    Over => IF outcome \in {"error", "panic"}
            THEN sent = 500 \/ route \in {"resend-verification-email", "docs"}
            ELSE sent < 500

\* An email passes Validate if and only if it is an address when stripped of
\* blanks, and not too long; what is then stored is an address as well, and
\* normalising it again, as a resend does, changes nothing.
AddressesChecked ==
    LET e == normalizeEmail(address) IN
    address # NoAddress =>
        /\ outcome # "malformed" <=> IsAddress(Trim(address)) /\ Len(Trim(address)) <= MaxLength
        /\ outcome # "malformed" => IsAddress(e) /\ normalizeEmail(e) = e
=============================================================================
