-------------------------------- MODULE Gateway --------------------------------
(***************************************************************************)
(* The client program against the gateway: runClient of cmd/eacg-client    *)
(* discovers, lists tools and calls one, each with an HTTP request of its  *)
(* own, and protocol/mcphttp builds a new MCP server for each of them,     *)
(* with the tools its caller may see then.  What becomes of a tool call in *)
(* the engine is Execution, whose call c is the one client c makes.        *)
(*                                                                         *)
(* The server keeps nothing between requests, while the rights behind a    *)
(* credential may change.  The SDK is external: it refuses a call to a     *)
(* tool its server does not hold.                                          *)
(***************************************************************************)
EXTENDS Execution

CONSTANTS
  Configs,      \* records [action, tool]: what a client is started with
  Holders,      \* the principals a credential may stand for
  NoHolder,     \* what it stands for when it is revoked
  VersionSets   \* the sets of protocol versions the gateway may be set to

Required == "2026-07-28"   \* requiredProtocolVersion

ASSUME GatewayAssumption ==
  /\ \A f \in Configs : f.action \in {"flow", "discover", "list", "call"}
  /\ Holders \subseteq Principal /\ NoHolder \notin Holders
  /\ \A h \in Holders, f \in Configs : [principal |-> h, tool |-> f.tool] \in Requests

VARIABLES
  phase,     \* where each client program is
  config,    \* clientConfig
  holder,    \* who its credential stands for at the moment
  seen,      \* the tools tools/list has shown
  versions   \* the gateway's protocol versions

clientVars == <<phase, config, holder, seen, versions>>
allVars == <<vars, clientVars>>

In(c, p) == phase[c] = p
Move(c, p) == phase' = [phase EXCEPT ![c] = p]

-------------------------------------------------------------------------------
\* The gateway: one server per request

\* principalFromRequest : authentication found a valid principal
Authenticated(c) == holder[c] # NoHolder /\ Valid(holder[c])

\* Registry.Visible
VisibleTo(p) ==
  {n \in DOMAIN Table : AllowsPrincipal(Table[n], p) /\ HasAllRoles(p, Table[n].roles)}

\* Mutated form of ServerTools: the server built for tools/list is kept.
Mut_CachedServer(c) ==
  IF seen[c] # {} THEN seen[c] ELSE IF Authenticated(c) THEN VisibleTo(holder[c]) ELSE {}

\* buildServer : the tools of the server for a request c sends now
ServerTools(c) == IF Authenticated(c) THEN VisibleTo(holder[c]) ELSE {}

\* resultPolicyMiddleware : what server/discover tells a client
Discovered(c) == IF Authenticated(c) THEN versions ELSE {}

-------------------------------------------------------------------------------
\* runClient

NextPhase(c) ==
  CASE config[c].action = "discover" -> "succeeded"
    [] config[c].action = "call" -> "calling"
    [] OTHER -> "listing"

\* Connect negotiates the version runClient asks for
Connect(c) ==
  /\ In(c, "started")
  /\ Required \in Discovered(c)
  /\ Move(c, NextPhase(c))
  /\ UNCHANGED <<vars, config, holder, seen, versions>>

\* Otherwise the SDK falls back to initialize, which strictTransport does not
\* send, or the request was not authenticated
ConnectRefused(c) ==
  /\ In(c, "started")
  /\ Required \notin Discovered(c)
  /\ Move(c, "failed")
  /\ UNCHANGED <<vars, config, holder, seen, versions>>

ListTools(c) ==
  /\ In(c, "listing")
  /\ Authenticated(c)
  /\ seen' = [seen EXCEPT ![c] = ServerTools(c)]
  /\ Move(c, IF config[c].action = "list" THEN "succeeded" ELSE "calling")
  /\ UNCHANGED <<vars, config, holder, versions>>

\* tools/call reaches the handler registerTool has installed.  The client
\* asks for the tool it is configured with, whether or not it was listed.
CallTool(c) ==
  /\ In(c, "calling")
  /\ config[c].tool \in ServerTools(c)
  /\ Authenticated(c)
  /\ Begin(c)
  /\ request'[c] = [principal |-> holder[c], tool |-> config[c].tool]
  /\ Move(c, "waiting")
  /\ UNCHANGED <<config, holder, seen, versions>>

\* The request's server does not hold the tool: the SDK answers for itself
UnknownTool(c) ==
  /\ In(c, "calling")
  /\ config[c].tool \notin ServerTools(c)
  /\ Move(c, "failed")
  /\ UNCHANGED <<vars, config, holder, seen, versions>>

\* Mutated form of Answered: IsError is not looked at.
Mut_IgnoresIsError(c) ==
  /\ In(c, "waiting") /\ At(c, "returned")
  /\ Move(c, IF answer[c] = "aborted" THEN "failed" ELSE "succeeded")
  /\ UNCHANGED <<vars, config, holder, seen, versions>>

\* The result arrives: runClient fails when IsError is set, or when the
\* connection was closed by a panic
Answered(c) ==
  /\ In(c, "waiting") /\ At(c, "returned")
  /\ Move(c, IF answer[c] = "value" THEN "succeeded" ELSE "failed")
  /\ UNCHANGED <<vars, config, holder, seen, versions>>

\* A request or its answer is lost, or the program's timeout passes
GivesUp(c) ==
  /\ phase[c] \notin {"succeeded", "failed"}
  /\ Move(c, "failed")
  /\ UNCHANGED <<vars, config, holder, seen, versions>>

-------------------------------------------------------------------------------

\* The key is changed, disabled or enabled again; a token is exchanged
RightsChange(c) ==
  /\ \E h \in Holders \union {NoHolder} : holder' = [holder EXCEPT ![c] = h]
  /\ UNCHANGED <<vars, phase, config, seen, versions>>

\* The engine, the handler and the context of the call go on by themselves;
\* that the client is gone is noticed when it is
CallStep(c) ==
  /\ \/ EngineStep(c) \/ HandlerStep(c) \/ DeadlinePasses(c)
     \/ In(c, "failed") /\ ClientLeaves(c)
  /\ UNCHANGED clientVars

GatewayInit ==
  /\ Init
  /\ phase = [c \in Calls |-> "started"]
  /\ config \in [Calls -> Configs]
  /\ holder \in [Calls -> Holders]
  /\ seen = [c \in Calls |-> {}]
  /\ versions \in VersionSets

ClientStep(c) ==
  \/ Connect(c) \/ ConnectRefused(c) \/ ListTools(c) \/ CallTool(c)
  \/ UnknownTool(c) \/ Answered(c) \/ GivesUp(c)

GatewayNext == \E c \in Calls : ClientStep(c) \/ CallStep(c) \/ RightsChange(c)

GatewaySpec == GatewayInit /\ [][GatewayNext]_allVars

-------------------------------------------------------------------------------
\* Properties

\* The program's exit code is the truth about its call: 0 says that the tool
\* it was configured with ran, once, for a caller who had the right when it
\* was called, and that the audit says so; and it has no call behind it that
\* it was not asked to make.  Lost answers, panics and rights that change
\* between the requests included; only what 1 means is left open.
ExitTellsTruth ==
  \A c \in Calls :
    /\ In(c, "succeeded") /\ config[c].action \in {"flow", "call"} =>
         /\ runs[c] = 1 /\ Len(events[c]) = 1
         /\ events[c][1].success /\ events[c][1].allowed
         /\ events[c][1].request.tool = config[c].tool
         /\ Authorised(events[c][1].request)
    /\ config[c].action \in {"discover", "list"} => runs[c] = 0 /\ events[c] = <<>>

\* The engine decides again what the request's server has decided, with other
\* code, and always comes to the same result: it never refuses a call that
\* gets to it.
EngineAgreesWithServer == \A c \in Calls : At(c, "authorize") => Refusal(request[c]) = {}

===============================================================================
