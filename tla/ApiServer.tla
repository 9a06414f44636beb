----------------------------- MODULE ApiServer ------------------------------
(***************************************************************************)
(* The demo HTTP server (http-api-server.js): its request handler, called  *)
(* for one request at a time, and its clients: curl, as the README shows   *)
(* it, and requests as the off-chain worker builds them, with the stored   *)
(* key as the whole Authorization header.                                  *)
(*                                                                         *)
(* An uncommented definition just above an operator is that operator with  *)
(* a plausible mistake in it; no specification uses it.                    *)
(***************************************************************************)
EXTENDS FiniteSets

CONSTANTS
    Clients,  \* connections that carry one request at a time
    Keys,     \* what may be configured (env API_KEY) or presented as key
    Nothing   \* no request, no answer, no header

VARIABLES
    validKey,  \* VALID_API_KEY, fixed when the process starts
    listening, \* server.listen has called back
    request,   \* the request a client has sent and not yet got answered
    answer     \* what it was answered, with the request that it answers

vars == <<validKey, listening, request, answer>>

Methods == {"GET", "OPTIONS"}
Paths == {"/api/data", "/basic-auth", "/api/health", "/elsewhere"}

\* An Authorization header: the key alone, after "Bearer ", or after another
\* scheme; white space around it does not matter.
Headers == [scheme : {"bare", "bearer", "basic"}, key : Keys]
Requests == [method : Methods, path : Paths, auth : Headers \cup {Nothing}]
Bodies == {"data", "healthy", "unauthorized", "not_found", "empty"}
Answers == [to : Requests, code : {200, 401, 404}, body : Bodies]

TypeOK ==
    /\ validKey \in Keys
    /\ listening \in BOOLEAN
    /\ request \in [Clients -> Requests \cup {Nothing}]
    /\ answer \in [Clients -> Answers \cup {Nothing}]

Init ==
    /\ validKey \in Keys
    /\ listening = FALSE
    /\ request = [c \in Clients |-> Nothing]
    /\ answer = [c \in Clients |-> Nothing]

AuthorizedBearerOnly(q) ==
    q.auth # Nothing /\ q.auth.scheme = "bearer" /\ q.auth.key = validKey

\* (authHeader || '').replace('Bearer ', '').trim() === VALID_API_KEY
Authorized(q) ==
    q.auth # Nothing /\ q.auth.scheme # "basic" /\ q.auth.key = validKey

Route(path) ==
    CASE path \in {"/api/data", "/basic-auth"} -> [code |-> 200, body |-> "data"]
      [] path = "/api/health" -> [code |-> 200, body |-> "healthy"]
      [] OTHER -> [code |-> 404, body |-> "not_found"]

\* Preflight first, then the key, then the route.
Respond(q) ==
    IF q.method = "OPTIONS" THEN [code |-> 200, body |-> "empty"]
    ELSE IF ~Authorized(q) THEN [code |-> 401, body |-> "unauthorized"]
    ELSE Route(q.path)

Listen ==
    /\ ~listening
    /\ listening' = TRUE
    /\ UNCHANGED <<validKey, request, answer>>

Send(c, q) ==
    /\ listening /\ request[c] = Nothing
    /\ request' = [request EXCEPT ![c] = q]
    /\ answer' = [answer EXCEPT ![c] = Nothing]
    /\ UNCHANGED <<validKey, listening>>

\* curl, with any method, path and header.
Curl(c) == \E q \in Requests : Send(c, q)

\* The request pallet-ocw builds: GET /basic-auth, with the key itself as the
\* Authorization header.  A hypothetical client: as it is built the worker's URL
\* names another host and its HTTP is disabled; the server has a route for it.
Worker(c, k) == Send(c,
    [method |-> "GET", path |-> "/basic-auth", auth |-> [scheme |-> "bare", key |-> k]])

Handle(c) ==
    /\ request[c] # Nothing
    /\ answer' = [answer EXCEPT ![c] =
           [to |-> request[c], code |-> Respond(request[c]).code,
            body |-> Respond(request[c]).body]]
    /\ request' = [request EXCEPT ![c] = Nothing]
    /\ UNCHANGED <<validKey, listening>>

Next == Listen \/ \E c \in Clients : Curl(c) \/ Handle(c) \/ \E k \in Keys : Worker(c, k)

Spec == Init /\ [][Next]_vars

-----------------------------------------------------------------------------
Answered == {c \in Clients : answer[c] # Nothing}

\* Protected data is returned only to a GET that presented the configured key,
\* whatever the route, and on every route but one the two headers in use, the key
\* after "Bearer " (README.md:122) and the key alone (pallet-ocw lib.rs:173),
\* authenticate alike: exactly when it is the configured key
\* (http-api-server.js:36,41).  About GET /api/health without a key it says
\* nothing: README.md:320 and http-api-server.js:73,101 want no check there, and
\* line 41 makes one.
KeyDecides ==
    \A c \in Answered :
        LET q == answer[c].to
            right == q.auth # Nothing /\ q.auth.key = validKey
        IN  /\ answer[c].body = "data" => right
            /\ /\ q.method = "GET" /\ q.path # "/api/health"
               /\ q.auth # Nothing /\ q.auth.scheme \in {"bare", "bearer"}
               => (answer[c].code # 401 <=> right)
=============================================================================
