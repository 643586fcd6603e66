------------------------------ MODULE McpProbe ------------------------------
(***************************************************************************)
(* The end-to-end probe of the public MCP route, one request a step.  Every *)
(* request passes the gateway client, which on the external lane accepts    *)
(* only an answer with the dataplane's mark.                                *)
(***************************************************************************)
EXTENDS StackLifecycle

VARIABLE target    \* what is behind the public route of the lane under test

Target == [guarded  : {"401", "403", "200"},      \* answer without Authorization
           ready    : BOOLEAN,                    \* does it know the server yet?
           backend  : {"dataplane", "fallback"},  \* the mark nginx puts on answers
           says     : {"little", "introduction", "all"},   \* what of its part it does
           tool     : {"works", "errors", "unknown", "none"}]   \* what it can offer to call

Innocent == [guarded |-> "401", ready |-> TRUE, backend |-> "dataplane",
             says |-> "all", tool |-> "works"]

ProbeInit == target = Innocent

ProbeGoto(step) == Proceed(step) /\ UNCHANGED target
ProbeFails      == StackFails /\ UNCHANGED target

----------------------------------------------------------------------------
\* One request.

\* The probe says of every header whether it is sent; only its first request has no Authorization.
Authorized == at # "anonymous"

\* The answer of a route that checks tokens and knows its servers.
Status == CASE ~Authorized                   -> target.guarded
            [] Authorized /\ target.ready    -> "200"
            [] Authorized /\ ~target.ready   -> "404"

\* The probe keeps the path of the configured base URL, the client does not, and compares.
SameEndpoint == ~setting.path

\* The mark is checked before the body is read, whatever the status.
Identified == External => target.backend = "dataplane"

\* An answer the gateway client hands on.
Answered == SameEndpoint /\ stack[Lane].up = "full" /\ Identified

\* The introduction of a server says all it has to.
Introduced == target.says # "little"

\* One with status 200 and a JSON-RPC result in it.
Result(fine) == Answered /\ Status = "200" /\ fine

----------------------------------------------------------------------------
\* The generation with sessions.

Anonymous ==
  /\ at = "anonymous"
  /\ \/ Answered /\ Status \in {"401", "403"} /\ ProbeGoto("initialize")
     \/ ProbeFails

\* Repeated until it is answered with 200 or the time for the configuration is over; an error of
\* the transport ends it at once.  The answer has to name the version and the session.
Initialize ==
  /\ at = "initialize"
  /\ \/ Result(Introduced) /\ ProbeGoto("initialized")
     \/ ProbeFails

\* accepted_empty: the notification has to be answered with 202 and nothing.
Initialized ==
  /\ at = "initialized"
  /\ \/ Answered /\ target.ready /\ target.says = "all" /\ ProbeGoto("list")
     \/ ProbeFails

\* A list without tools is an error.
Listed == Result(target.tool # "none")

\* tool_call_args: the probe knows arguments for a few tools.  Without one of them it ends.
Callable        == target.tool \notin {"unknown", "none"}
AfterList(call) == IF Callable THEN call ELSE "revoke"

ListTools ==
  /\ at = "list" /\ Routed
  /\ \/ Listed /\ ProbeGoto(AfterList("call"))
     \/ ProbeFails

CallTool ==
  /\ at = "call"
  /\ \/ Result(target.tool = "works") /\ ProbeGoto("revoke")
     \/ ProbeFails

----------------------------------------------------------------------------
\* The stateless generation.

AnonymousStateless ==
  /\ at = "anonymous"
  /\ \/ Answered /\ Status = "401" /\ ProbeGoto("discover")
     \/ ProbeFails

\* The counterpart of Initialize: the answer has to support the version that was asked for.
Discover ==
  /\ at = "discover"
  /\ \/ Result(Introduced) /\ ProbeGoto("list stateless")
     \/ ProbeFails

ListStateless ==
  /\ at = "list stateless" /\ Routed
  /\ \/ Listed /\ ProbeGoto(AfterList("call stateless"))
     \/ ProbeFails

CallStateless ==
  /\ at = "call stateless"
  /\ \/ Result(target.tool = "works") /\ ProbeGoto("revoke")
     \/ ProbeFails

\* A standalone stack's tools are known from its configuration.
MockedCatalog ==
  /\ ~Routed
  /\ \/ at = "list" /\ ProbeGoto(AfterList("call"))
     \/ at = "list stateless" /\ ProbeGoto(AfterList("call stateless"))

ProbeNext == \/ Anonymous \/ Initialize \/ Initialized \/ ListTools \/ CallTool
             \/ AnonymousStateless \/ Discover \/ ListStateless \/ CallStateless
             \/ MockedCatalog

\* The publisher reaches the dataplane.
BecomesReady == /\ at \in {"anonymous", "initialize", "discover"} /\ ~target.ready
                /\ target' = [target EXCEPT !.ready = TRUE]
                /\ UNCHANGED <<commandVars, stackVars>>
=============================================================================
