-------------------------------- MODULE Demo --------------------------------
(***************************************************************************)
(* The demo with its server: RUN.sh, the node and the chain of DemoRun,    *)
(* and the request handler of ApiServer as long as the process that RUN.sh *)
(* started is up.  The server takes its key from the environment; the key  *)
(* that RUN.sh injects is DemoKey.  A request as the worker builds it      *)
(* carries the key that a node has stored (hypothetically: as it is built  *)
(* the worker names another host); anybody may send another with curl.     *)
(***************************************************************************)
EXTENDS DemoRun

CONSTANTS Clients, Keys, Nothing, DemoKey

ASSUME KeyAssumption == DemoKey \in Keys

VARIABLES validKey, listening, request, answer

Api == INSTANCE ApiServer

apiVars == <<validKey, listening, request, answer>>
allVars == <<vars, apiVars>>

DemoTypeOK == TypeOK /\ Api!TypeOK

DemoInit == Init /\ Api!Init

\* A process that ends takes its connections with it.
RunStep ==
    /\ Next
    /\ IF api' = "dead" /\ api = "up"
       THEN /\ listening' = FALSE
            /\ request' = [c \in Clients |-> Nothing]
            /\ UNCHANGED <<validKey, answer>>
       ELSE UNCHANGED apiVars

\* Bound of this model: a client sends one request.
Ask(c) ==
    /\ answer[c] = Nothing
    /\ Api!Curl(c) \/ (keys # {} /\ Api!Worker(c, DemoKey))

ServerStep ==
    /\ api = "up" /\ UNCHANGED vars
    /\ Api!Listen \/ \E c \in Clients : Ask(c) \/ Api!Handle(c)

DemoNext == RunStep \/ ServerStep

DemoSpec ==
    /\ DemoInit /\ [][DemoNext]_allVars
    /\ WF_vars(Script /\ RunStep) /\ WF_vars(Launch /\ RunStep)
    /\ WF_vars(NodeReady /\ RunStep)

-----------------------------------------------------------------------------
\* In the whole demo, with the server coming and going, the key alone decides
\* who gets data, and both headers in use carry it (http-api-server.js:36,41).
KeyDecides == Api!KeyDecides
=============================================================================
