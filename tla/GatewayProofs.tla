----------------------------- MODULE GatewayProofs -----------------------------
(***************************************************************************)
(* What Gateway guarantees for any number of clients, any configurations,  *)
(* any table and any change of rights.                                     *)
(***************************************************************************)
EXTENDS Gateway, ExecutionProofs

\* The clients and the server only restrict which calls are made: whatever
\* Execution guarantees, it guarantees here.
THEOREM EngineInGateway == GatewaySpec => Spec
  <1>1. GatewayInit => Init
    BY DEF GatewayInit
  <1>2. ASSUME [GatewayNext]_allVars PROVE [Next]_vars
    <2>1. CASE UNCHANGED allVars
      BY <2>1 DEF allVars
    <2>2. ASSUME NEW c \in Calls, CallTool(c) PROVE [Next]_vars
      BY <2>2 DEF CallTool, Next
    <2>3. ASSUME NEW c \in Calls, CallStep(c) PROVE [Next]_vars
      BY <2>3 DEF CallStep, Next
    <2>4. ASSUME NEW c \in Calls, ClientStep(c), ~CallTool(c) PROVE [Next]_vars
      BY <2>4 DEF ClientStep, Connect, ConnectRefused, ListTools, UnknownTool, Answered, GivesUp
    <2>5. ASSUME NEW c \in Calls, RightsChange(c) PROVE [Next]_vars
      BY <2>5 DEF RightsChange
    <2> QED
      BY <1>2, <2>1, <2>2, <2>3, <2>4, <2>5 DEF GatewayNext
  <1> QED
    BY <1>1, <1>2, PTL DEF GatewaySpec, Spec

-------------------------------------------------------------------------------
\* The inductive invariant: how the client's phase and its call's label belong
\* together.

\* The call of a client
Behind(c) ==
  \* has not begun before the client makes it,
  /\ phase[c] \in {"started", "listing", "calling"} => pc[c] = "idle"
  \* is only made by a client that was told to, for its tool,
  /\ config[c].action \in {"discover", "list"} => pc[c] = "idle" /\ phase[c] # "calling"
  /\ config[c].action = "discover" => phase[c] # "listing"
  /\ pc[c] # "idle" => request[c].tool = config[c].tool
  \* is one the engine admits,
  /\ pc[c] = "authorize" => Refusal(request[c]) = {}
  \* and is what the client's success stands for.
  /\ phase[c] = "waiting" => config[c].action \in {"flow", "call"}
  /\ phase[c] = "succeeded" /\ config[c].action \in {"flow", "call"} =>
       pc[c] = "returned" /\ answer[c] = "value"

ClientTypes ==
  /\ phase \in [Calls -> {"started", "listing", "calling", "waiting", "succeeded", "failed"}]
  /\ config \in [Calls -> Configs]
  /\ holder \in [Calls -> Holders \union {NoHolder}]

GInv == ClientTypes /\ \A c \in Calls : Behind(c)

\* Every client starts without a call.
LEMMA GInvInit == GatewayInit => GInv
  BY DEF GatewayInit, Init, GInv, ClientTypes, Behind

\* The two decisions about a call agree: a tool of the request's server is one
\* the engine admits its caller to.
LEMMA ServedIsAdmitted ==
  ASSUME ClientTypes, NEW c \in Calls, config[c].tool \in ServerTools(c), Authenticated(c)
  PROVE  Refusal([principal |-> holder[c], tool |-> config[c].tool]) = {}
  <1> DEFINE q == [principal |-> holder[c], tool |-> config[c].tool]
  <1>1. holder[c] \in Holders /\ config[c] \in Configs
    BY DEF ClientTypes, Authenticated
  <1>2. q \in Requests
    BY <1>1, GatewayAssumption
  <1>3. Authorised(q)
    BY DEF ServerTools, VisibleTo, Authorised, Exists
  <1> HIDE DEF q
  <1>4. Refusal(q) = {}
    BY <1>2, <1>3, RefusedUnlessAuthorised
  <1> QED
    BY <1>4 DEF q

\* A client's own step leaves the other clients and their calls as they are.
LEMMA OtherClients ==
  ASSUME GInv, TypeInv, NEW c \in Calls, NEW d \in Calls, c # d,
         ClientStep(c) \/ CallStep(c) \/ RightsChange(c)
  PROVE  Behind(d)'
  <1>1. /\ pc'[d] = pc[d] /\ request'[d] = request[d] /\ answer'[d] = answer[d]
        /\ phase'[d] = phase[d] /\ config'[d] = config[d]
    <2>1. CASE CallStep(c)
      BY <2>1 DEF CallStep, TypeInv, TypeOK, Goto, EngineStep, HandlerStep, Refuse, Admit,
             RejectInput, EnterHandler, HandlerReturns, HandlerFails, HandlerGivesUp,
             HandlerPanics, RejectOutput, SecureOutput, Audit, Reply, ClientLeaves,
             DeadlinePasses, clientVars
    <2>2. CASE CallTool(c)
      BY <2>2 DEF CallTool, Begin, TypeInv, TypeOK, Goto, GInv, ClientTypes, Move
    <2>3. CASE ClientStep(c) /\ ~CallTool(c)
      BY <2>3 DEF ClientStep, Connect, ConnectRefused, ListTools, UnknownTool, Answered,
             GivesUp, Move, GInv, ClientTypes, vars
    <2>4. CASE RightsChange(c)
      BY <2>4 DEF RightsChange, vars
    <2> QED
      BY <2>1, <2>2, <2>3, <2>4
  <1> QED
    BY <1>1 DEF GInv, Behind

\* One case per action of the client; the call's own steps keep its request.
LEMMA GInvStep == GInv /\ IInv /\ [GatewayNext]_allVars => GInv'
  <1> SUFFICES ASSUME GInv, IInv, [GatewayNext]_allVars PROVE GInv'
    OBVIOUS
  <1> USE DEF GInv
  <1>t. TypeInv
    BY DEF IInv
  <1>u. CASE UNCHANGED allVars
    BY <1>u DEF allVars, vars, clientVars, ClientTypes, Behind
  <1>n. ASSUME NEW c \in Calls, ClientStep(c) \/ CallStep(c) \/ RightsChange(c)
        PROVE  GInv'
    <2>o. \A d \in Calls : d # c => Behind(d)'
      BY <1>n, <1>t, OtherClients
    <2> SUFFICES ClientTypes' /\ Behind(c)'
      BY <2>o
    <2>1. CASE Connect(c)
      BY <2>1, GatewayAssumption DEF Connect, NextPhase, In, Move, vars, ClientTypes, Behind
    <2>2. CASE ConnectRefused(c)
      BY <2>2 DEF ConnectRefused, Move, In, vars, ClientTypes, Behind
    <2>3. CASE ListTools(c)
      BY <2>3, GatewayAssumption DEF ListTools, Move, In, vars, ClientTypes, Behind
    <2>4. CASE CallTool(c)
      <3>1. /\ phase'[c] = "waiting" /\ pc[c] = "idle" /\ pc'[c] = "authorize"
            /\ UNCHANGED <<config, holder>>
        BY <2>4, <1>t DEF CallTool, Begin, Move, At, Goto, ClientTypes, TypeInv, TypeOK
      <3>2. request'[c] = [principal |-> holder[c], tool |-> config[c].tool]
        BY <2>4 DEF CallTool
      <3>3. Refusal(request'[c]) = {}
        BY <2>4, <3>2, ServedIsAdmitted DEF CallTool
      <3>4. config[c].action \in {"flow", "call"}
        BY <2>4, GatewayAssumption DEF CallTool, In, ClientTypes, Behind
      <3>5. phase' \in [Calls -> {"started", "listing", "calling", "waiting", "succeeded", "failed"}]
        BY <2>4 DEF CallTool, Move, ClientTypes
      <3> QED
        BY <3>1, <3>2, <3>3, <3>4, <3>5 DEF ClientTypes, Behind
    <2>5. CASE UnknownTool(c)
      BY <2>5 DEF UnknownTool, Move, In, vars, ClientTypes, Behind
    <2>6. CASE Answered(c)
      BY <2>6 DEF Answered, Move, In, At, vars, ClientTypes, Behind
    <2>7. CASE GivesUp(c)
      BY <2>7 DEF GivesUp, Move, vars, ClientTypes, Behind
    <2>8. CASE CallStep(c)
      <3>1. UNCHANGED <<phase, config, holder>>
        BY <2>8 DEF CallStep, clientVars
      <3>2. /\ request'[c] = request[c] /\ pc[c] # "idle" /\ pc'[c] # "idle"
            /\ pc'[c] = "authorize" => pc[c] = "authorize"
            /\ pc[c] = "returned" => pc'[c] = "returned" /\ answer'[c] = answer[c]
        <4>1. ctx[c] = "live" => pc[c] # "idle"
          BY DEF IInv, Progress, Early
        <4> QED
          BY <2>8, <1>t, <4>1 DEF CallStep, EngineStep, HandlerStep, Refuse, Admit, RejectInput,
                 EnterHandler, HandlerReturns, HandlerFails, HandlerGivesUp, HandlerPanics,
                 RejectOutput, SecureOutput, Audit, Reply, ClientLeaves, DeadlinePasses, At, Goto,
                 TypeInv, TypeOK
      <3> QED
        BY <3>1, <3>2 DEF ClientTypes, Behind
    <2>9. CASE RightsChange(c)
      BY <2>9 DEF RightsChange, vars, ClientTypes, Behind
    <2> QED
      BY <1>n, <2>1, <2>2, <2>3, <2>4, <2>5, <2>6, <2>7, <2>8, <2>9 DEF ClientStep
  <1> QED
    BY <1>u, <1>n DEF GatewayNext

\* The invariant holds in every reachable state.
LEMMA GatewayInvariant == GatewaySpec => [](GInv /\ IInv)
  <1>1. GatewaySpec => []IInv
    BY EngineInGateway, Invariant, PTL
  <1>2. GatewayInit => GInv
    BY GInvInit
  <1>3. GInv /\ IInv /\ [GatewayNext]_allVars => GInv'
    BY GInvStep
  <1> QED
    BY <1>1, <1>2, <1>3, PTL DEF GatewaySpec

-------------------------------------------------------------------------------
\* What the invariants imply

\* The engine never refuses a call that gets to it: the server built for the
\* request had decided the same with other code (buildServer and Execute).
THEOREM EngineAgreesWithServerHolds == GatewaySpec => []EngineAgreesWithServer
  <1>1. GInv => EngineAgreesWithServer
    BY DEF GInv, Behind, EngineAgreesWithServer, At
  <1> QED
    BY <1>1, GatewayInvariant, PTL

\* A call that was answered with a value ran once, for an authorised caller,
\* and its one event says so.
LEMMA ValueIsRecorded ==
  ASSUME IInv, NEW c \in Calls, pc[c] = "returned", answer[c] = "value"
  PROVE  /\ runs[c] = 1 /\ events[c] = <<AuditEvent(c)>>
         /\ err[c] = {} /\ allowed[c] /\ Authorised(request[c])
  <1>1. events[c] = <<AuditEvent(c)>>
    BY DEF IInv, Outcome, Audited
  <1>2. ~panicked[c] /\ err[c] = {}
    BY ToolErrorKinds DEF IInv, Outcome
  <1>3. allowed[c] /\ runs[c] = 1
    BY <1>2 DEF IInv, Decision, Late, Early
  <1>4. Authorised(request[c])
    BY <1>3, LetInIsAuthorised DEF Early
  <1> QED
    BY <1>1, <1>2, <1>3, <1>4

\* Exit code 0 of runClient is the truth about its call, whatever is lost,
\* panics or changes between its requests.
THEOREM ExitTellsTruthHolds == GatewaySpec => []ExitTellsTruth
  <1>1. ASSUME GInv, IInv PROVE ExitTellsTruth
    <2> SUFFICES ASSUME NEW c \in Calls
                 PROVE  /\ In(c, "succeeded") /\ config[c].action \in {"flow", "call"} =>
                             /\ runs[c] = 1 /\ Len(events[c]) = 1
                             /\ events[c][1].success /\ events[c][1].allowed
                             /\ events[c][1].request.tool = config[c].tool
                             /\ Authorised(events[c][1].request)
                        /\ config[c].action \in {"discover", "list"} =>
                             runs[c] = 0 /\ events[c] = <<>>
      BY DEF ExitTellsTruth
    <2>1. Behind(c)
      BY <1>1 DEF GInv
    <2>2. ASSUME In(c, "succeeded"), config[c].action \in {"flow", "call"}
          PROVE  /\ runs[c] = 1 /\ Len(events[c]) = 1
                 /\ events[c][1].success /\ events[c][1].allowed
                 /\ events[c][1].request.tool = config[c].tool
                 /\ Authorised(events[c][1].request)
      <3>1. pc[c] = "returned" /\ answer[c] = "value" /\ request[c].tool = config[c].tool
        BY <2>1, <2>2 DEF Behind, In
      <3>2. /\ runs[c] = 1 /\ events[c] = <<AuditEvent(c)>>
            /\ err[c] = {} /\ allowed[c] /\ Authorised(request[c])
        BY <1>1, <3>1, ValueIsRecorded
      <3>3. /\ AuditEvent(c).success /\ AuditEvent(c).allowed
            /\ AuditEvent(c).request = request[c]
        BY <3>2, FieldsOfEvent
      <3>4. Len(events[c]) = 1 /\ events[c][1] = AuditEvent(c)
        BY <3>2
      <3> QED
        BY <3>1, <3>2, <3>3, <3>4
    <2>3. ASSUME config[c].action \in {"discover", "list"}
          PROVE  runs[c] = 0 /\ events[c] = <<>>
      BY <1>1, <2>1, <2>3 DEF Behind, IInv, Progress, Outcome, Early, Audited
    <2> QED
      BY <2>2, <2>3
  <1> QED
    BY <1>1, GatewayInvariant, PTL

===============================================================================
