------------------------------ MODULE Execution ------------------------------
(***************************************************************************)
(* execution.Engine.Execute with the two pieces of code around it: the     *)
(* typed capability it calls (capability.Execute) and the tool handler     *)
(* that calls it (registerTool and toolError in protocol/mcphttp).  Calls  *)
(* run side by side; the table of capabilities is frozen.                  *)
(*                                                                         *)
(* An error is the set of the sentinel errors that errors.Is finds in it,  *)
(* together with "error"; nil is the empty set.                            *)
(***************************************************************************)
EXTENDS Capability, Sequences

CONSTANTS
  Calls,          \* the tool calls
  Requests,       \* records [principal, tool]: who asks for which tool
  NoRequest,      \* what a call holds before it has begun
  Table,          \* Table[name] : the descriptor of the capability so named
  Heeding,        \* the tools whose handler returns once its context is done
  HandlerErrors   \* the errors a handler may return

Sentinels == {"not_found", "forbidden", "invalid_input", "invalid_output",
              "deadline", "canceled"}
Errors == {e \in SUBSET ({"error"} \union Sentinels) : e # {} => "error" \in e}

ASSUME ExecutionAssumption ==
  /\ DOMAIN Table \subseteq Nat
  /\ Table \in [DOMAIN Table -> Descriptor]
  /\ Requests \subseteq [principal : Principal, tool : Nat]
  /\ NoRequest \notin Requests
  /\ Heeding \subseteq DOMAIN Table
  /\ HandlerErrors \subseteq Errors \ {{}}

VARIABLES
  pc,        \* where each call is
  request,   \* execution.Request
  allowed,   \* event.Allowed
  gone,      \* the caller's context is done: the client has left
  ctx,       \* the execution context: none, live, deadline or canceled
  runs,      \* how often the handler has been entered
  err,       \* the named result err
  panicked,  \* the handler panicked: Execute is unwinding
  events,    \* the audit events that name the call
  answer     \* what registerTool's handler returned to the SDK

vars == <<pc, request, allowed, gone, ctx, runs, err, panicked, events, answer>>

Labels == {"idle", "authorize", "decode", "handler", "output", "deferred",
           "reply", "returned"}
At(c, label) == pc[c] = label
Goto(c, label) == pc' = [pc EXCEPT ![c] = label]

Exists(n) == n \in DOMAIN Table

-------------------------------------------------------------------------------
\* Authorisation

\* Mutated form of Refusal: the roles are only looked at in tools/list.
Mut_NoSecondCheck(q) ==
  IF ~Valid(q.principal) THEN {"error", "forbidden"}
  ELSE IF ~Exists(q.tool) THEN {"error", "not_found"}
  ELSE {}

\* Execute's early returns: the error it refuses the request with, or {}
Refusal(q) ==
  IF ~Valid(q.principal) THEN {"error", "forbidden"}
  ELSE IF ~Exists(q.tool) THEN {"error", "not_found"}
  ELSE IF ~(/\ AllowsPrincipal(Table[q.tool], q.principal)
            /\ HasAllRoles(q.principal, Table[q.tool].roles))
  THEN {"error", "forbidden"}
  ELSE {}

\* errorCode : the audit's stable code
ErrorCode(e) ==
  IF "not_found" \in e THEN "not_found"
  ELSE IF "forbidden" \in e THEN "forbidden"
  ELSE IF "invalid_input" \in e THEN "invalid_input"
  ELSE IF "invalid_output" \in e THEN "invalid_output"
  ELSE IF "deadline" \in e THEN "timeout"
  ELSE IF "canceled" \in e THEN "canceled"
  ELSE "execution_error"

\* Mutated form of ToolError: a canceled call is reported as a timeout.
Mut_CanceledIsTimeout(e) ==
  IF "forbidden" \in e THEN "forbidden"
  ELSE IF "not_found" \in e THEN "not_found"
  ELSE IF "invalid_input" \in e THEN "invalid_input"
  ELSE IF e \intersect {"deadline", "canceled"} # {} THEN "timeout"
  ELSE "failed"

\* toolError : what the caller is told.  It tries the sentinels in another
\* order than errorCode, and hides an invalid output behind the generic text.
ToolError(e) ==
  IF "forbidden" \in e THEN "forbidden"
  ELSE IF "not_found" \in e THEN "not_found"
  ELSE IF "invalid_input" \in e THEN "invalid_input"
  ELSE IF "deadline" \in e THEN "timeout"
  ELSE IF "canceled" \in e THEN "canceled"
  ELSE "failed"

-------------------------------------------------------------------------------

Init ==
  /\ pc = [c \in Calls |-> "idle"]
  /\ request = [c \in Calls |-> NoRequest]
  /\ allowed = [c \in Calls |-> FALSE]
  /\ gone = [c \in Calls |-> FALSE]
  /\ ctx = [c \in Calls |-> "none"]
  /\ runs = [c \in Calls |-> 0]
  /\ err = [c \in Calls |-> {}]
  /\ panicked = [c \in Calls |-> FALSE]
  /\ events = [c \in Calls |-> <<>>]
  /\ answer = [c \in Calls |-> "none"]

\* registerTool's handler is called by the SDK and calls Execute
Begin(c) ==
  /\ At(c, "idle")
  /\ \E q \in Requests : request' = [request EXCEPT ![c] = q]
  /\ Goto(c, "authorize")
  /\ UNCHANGED <<allowed, gone, ctx, runs, err, panicked, events, answer>>

\* Invalid principal, unknown capability or missing right: return early
Refuse(c) ==
  /\ At(c, "authorize")
  /\ Refusal(request[c]) # {}
  /\ err' = [err EXCEPT ![c] = Refusal(request[c])]
  /\ Goto(c, "deferred")
  /\ UNCHANGED <<request, allowed, gone, ctx, runs, panicked, events, answer>>

\* event.Allowed = true, and a context with the engine's timeout, which is
\* canceled from the start when the caller's already is
Admit(c) ==
  /\ At(c, "authorize")
  /\ Refusal(request[c]) = {}
  /\ allowed' = [allowed EXCEPT ![c] = TRUE]
  /\ ctx' = [ctx EXCEPT ![c] = IF gone[c] THEN "canceled" ELSE "live"]
  /\ Goto(c, "decode")
  /\ UNCHANGED <<request, gone, runs, err, panicked, events, answer>>

\* Mutated form of RejectInput: an empty result is returned without the error.
Mut_DropsError(c) ==
  /\ At(c, "decode")
  /\ Goto(c, "output")
  /\ UNCHANGED <<request, allowed, gone, ctx, runs, err, panicked, events, answer>>

\* capability.Execute: the arguments do not decode or break the input schema
RejectInput(c) ==
  /\ At(c, "decode")
  /\ err' = [err EXCEPT ![c] = {"error", "invalid_input"}]
  /\ Goto(c, "deferred")
  /\ UNCHANGED <<request, allowed, gone, ctx, runs, panicked, events, answer>>

\* The business handler is entered; nobody looks at the context before
EnterHandler(c) ==
  /\ At(c, "decode")
  /\ runs' = [runs EXCEPT ![c] = @ + 1]
  /\ Goto(c, "handler")
  /\ UNCHANGED <<request, allowed, gone, ctx, err, panicked, events, answer>>

\* It returns a value, in time or late: the engine does not look at the clock
HandlerReturns(c) ==
  /\ At(c, "handler")
  /\ Goto(c, "output")
  /\ UNCHANGED <<request, allowed, gone, ctx, runs, err, panicked, events, answer>>

\* It returns an error of its own choice
HandlerFails(c) ==
  /\ At(c, "handler")
  /\ \E e \in HandlerErrors : err' = [err EXCEPT ![c] = e]
  /\ Goto(c, "deferred")
  /\ UNCHANGED <<request, allowed, gone, ctx, runs, panicked, events, answer>>

\* Mutated form of HandlerGivesUp: it does not wait for its context.
Mut_GivesUpEarly(c) ==
  /\ At(c, "handler")
  /\ request[c].tool \in Heeding
  /\ err' = [err EXCEPT ![c] = {"error", ctx[c]}]
  /\ Goto(c, "deferred")
  /\ UNCHANGED <<request, allowed, gone, ctx, runs, panicked, events, answer>>

\* It notices that its context is done and returns ctx.Err()
HandlerGivesUp(c) ==
  /\ At(c, "handler")
  /\ request[c].tool \in Heeding
  /\ ctx[c] \in {"deadline", "canceled"}
  /\ err' = [err EXCEPT ![c] = {"error", ctx[c]}]
  /\ Goto(c, "deferred")
  /\ UNCHANGED <<request, allowed, gone, ctx, runs, panicked, events, answer>>

\* It panics: the deferred functions run, with err still nil
HandlerPanics(c) ==
  /\ At(c, "handler")
  /\ panicked' = [panicked EXCEPT ![c] = TRUE]
  /\ Goto(c, "deferred")
  /\ UNCHANGED <<request, allowed, gone, ctx, runs, err, events, answer>>

\* The output breaks its schema, or secureOutput refuses it: too large, or
\* not an object although a white list is set
RejectOutput(c) ==
  /\ At(c, "output")
  /\ err' = [err EXCEPT ![c] = {"error", "invalid_output"}]
  /\ Goto(c, "deferred")
  /\ UNCHANGED <<request, allowed, gone, ctx, runs, panicked, events, answer>>

\* The output is filtered and becomes the result
SecureOutput(c) ==
  /\ At(c, "output")
  /\ Goto(c, "deferred")
  /\ UNCHANGED <<request, allowed, gone, ctx, runs, err, panicked, events, answer>>

-------------------------------------------------------------------------------
\* The deferred functions, in the order they run

\* Mutated form of Canceled: nobody cancels the context when Execute returns.
Mut_NoCancel(context) == context

\* cancel() : ends the context unless it has ended, stops its timer
Canceled(context) == IF context = "live" THEN "canceled" ELSE context

\* Mutated form of AuditContextDone: the audit is given the caller's context.
Mut_AuditUsesCallersContext(c) == gone[c]

\* The context audit.Write gets, from context.WithoutCancel, is never done
AuditContextDone(c) == FALSE

\* Mutated form of AuditEvent: Allowed is set before the rights are checked.
Mut_AllowedTooEarly(c) ==
  [request |-> request[c], allowed |-> Exists(request[c].tool), success |-> err[c] = {},
   code |-> IF err[c] = {} THEN "" ELSE ErrorCode(err[c])]

AuditEvent(c) ==
  [request |-> request[c], allowed |-> allowed[c], success |-> err[c] = {},
   code |-> IF err[c] = {} THEN "" ELSE ErrorCode(err[c])]

\* cancel() and the audit.  A sink that honours its context writes nothing
\* when that is done; the engine ignores what Write returns.
Audit(c) ==
  /\ At(c, "deferred")
  /\ ctx' = [ctx EXCEPT ![c] = Canceled(ctx[c])]
  /\ events' = [events EXCEPT ![c] =
       IF AuditContextDone(c) THEN @ ELSE Append(@, AuditEvent(c))]
  /\ Goto(c, "reply")
  /\ UNCHANGED <<request, allowed, gone, runs, err, panicked, answer>>

\* Execute has returned: registerTool's handler builds the result; a panic
\* leaves it, and the SDK gets no result
Reply(c) ==
  /\ At(c, "reply")
  /\ answer' = [answer EXCEPT ![c] =
       IF panicked[c] THEN "aborted"
       ELSE IF err[c] = {} THEN "value"
       ELSE ToolError(err[c])]
  /\ Goto(c, "returned")
  /\ UNCHANGED <<request, allowed, gone, ctx, runs, err, panicked, events>>

-------------------------------------------------------------------------------
\* What happens around a call

\* Mutated form of ClientLeaves: the caller's context is not passed on.
Mut_CancelNotPropagated(c) ==
  /\ pc[c] \notin {"idle", "returned"} /\ ~gone[c]
  /\ gone' = [gone EXCEPT ![c] = TRUE]
  /\ UNCHANGED <<pc, request, allowed, ctx, runs, err, panicked, events, answer>>

\* The client closes its connection: the request's context is canceled, and
\* with it the execution context
ClientLeaves(c) ==
  /\ pc[c] \notin {"idle", "returned"} /\ ~gone[c]
  /\ gone' = [gone EXCEPT ![c] = TRUE]
  /\ ctx' = [ctx EXCEPT ![c] = Canceled(@)]
  /\ UNCHANGED <<pc, request, allowed, runs, err, panicked, events, answer>>

\* Mutated form of DeadlinePasses: the execution context has no timeout.
Mut_NoTimeout(c) == ctx[c] = "none" /\ UNCHANGED vars

\* The engine's timeout passes
DeadlinePasses(c) ==
  /\ ctx[c] = "live"
  /\ ctx' = [ctx EXCEPT ![c] = "deadline"]
  /\ UNCHANGED <<pc, request, allowed, gone, runs, err, panicked, events, answer>>

-------------------------------------------------------------------------------

HandlerStep(c) ==
  HandlerReturns(c) \/ HandlerFails(c) \/ HandlerGivesUp(c) \/ HandlerPanics(c)

EngineStep(c) ==
  \/ Refuse(c) \/ Admit(c) \/ RejectInput(c) \/ EnterHandler(c)
  \/ RejectOutput(c) \/ SecureOutput(c) \/ Audit(c) \/ Reply(c)

Next ==
  \E c \in Calls :
    Begin(c) \/ EngineStep(c) \/ HandlerStep(c) \/ ClientLeaves(c) \/ DeadlinePasses(c)

\* A call that has begun keeps running outside its handler, its timer fires
\* at the latest when the timeout has passed, and the handler of a heeding
\* tool returns once it is told to.  No other handler need ever return.
Fairness ==
  \A c \in Calls :
    /\ WF_vars(EngineStep(c))
    /\ WF_vars(DeadlinePasses(c))
    /\ WF_vars(HandlerGivesUp(c))

Spec == Init /\ [][Next]_vars
FairSpec == Spec /\ Fairness

-------------------------------------------------------------------------------
\* Properties

Codes == {"", "not_found", "forbidden", "invalid_input", "invalid_output",
          "timeout", "canceled", "execution_error"}
Answers == {"none", "value", "aborted", "forbidden", "not_found",
            "invalid_input", "timeout", "canceled", "failed"}
Event == [request : Requests, allowed : BOOLEAN, success : BOOLEAN, code : Codes]

\* Every variable keeps its type.
TypeOK ==
  /\ pc \in [Calls -> Labels]
  /\ request \in [Calls -> Requests \union {NoRequest}]
  /\ allowed \in [Calls -> BOOLEAN]
  /\ gone \in [Calls -> BOOLEAN]
  /\ ctx \in [Calls -> {"none", "live", "deadline", "canceled"}]
  /\ runs \in [Calls -> Nat]
  /\ err \in [Calls -> Errors]
  /\ panicked \in [Calls -> BOOLEAN]
  /\ events \in [Calls -> Seq(Event)]
  /\ answer \in [Calls -> Answers]

\* The rights a request needs, as tools/list decides them (Registry.Visible)
Authorised(q) ==
  /\ Exists(q.tool)
  /\ AllowsPrincipal(Table[q.tool], q.principal)
  /\ HasAllRoles(q.principal, Table[q.tool].roles)

\* The business handler is entered at most once per call, and only for a
\* caller to whom tools/list would show the tool.
OnlyAuthorisedRun ==
  \A c \in Calls : runs[c] <= 1 /\ (runs[c] = 1 => Authorised(request[c]))

\* When the caller gets an answer exactly one audit event names the call,
\* also when the client had left, the deadline had passed or the handler
\* panicked; before the deferred functions run there is none.
AuditedOnce ==
  \A c \in Calls :
    Len(events[c]) = IF pc[c] \in {"reply", "returned"} THEN 1 ELSE 0

\* The event names the caller and the tool, says whether the caller was let
\* in, and its code says how far the call got: a refused call never ran, and
\* one that was let in but never ran had an invalid input.
AuditTellsHowFar ==
  \A c \in Calls : \A k \in 1..Len(events[c]) :
    LET e == events[c][k] IN
      /\ e.request = request[c]
      /\ e.allowed <=> Authorised(e.request)
      /\ ~e.allowed => e.code \in {"not_found", "forbidden"} /\ runs[c] = 0
      /\ e.allowed /\ runs[c] = 0 => e.code = "invalid_input"

\* What the caller is told for an audit code
PublicText(code) ==
  IF code \in {"invalid_output", "execution_error"} THEN "failed" ELSE code

\* The error wraps one sentinel at most
OneSentinel(e) == \A s, t \in e \ {"error"} : s = t

\* The audit and the caller hear the same story, although they classify the
\* error separately: unless the handler's error wraps several sentinels, the
\* text the caller gets is the one the recorded code stands for.
AnswerMatchesAudit ==
  \A c \in Calls :
    At(c, "returned") /\ ~panicked[c] /\ OneSentinel(err[c]) =>
      \A k \in 1..Len(events[c]) :
        /\ events[c][k].success <=> answer[c] = "value"
        /\ ~events[c][k].success => answer[c] = PublicText(events[c][k].code)

\* The handler's context ends when its caller leaves and when the call is
\* over, so that nothing a handler started with it outlives the call, and no
\* timer is left behind.
ContextEnds ==
  \A c \in Calls : gone[c] \/ pc[c] \in {"reply", "returned"} => ctx[c] # "live"

\* The engine's promise to the rest of the gateway.
Contract ==
  INSTANCE ToolContract WITH
    MayRun <- {q \in Requests : Authorised(q)},
    asked <- request,
    ran <- [c \in Calls |-> runs[c] > 0],
    record <- [c \in Calls |->
                 IF events[c] = <<>> THEN "none"
                 ELSE IF events[c][1].allowed THEN "allowed" ELSE "refused"],
    answer <- [c \in Calls |->
                 IF answer[c] \in {"none", "value", "aborted"} THEN answer[c] ELSE "error"]

\* Execution implements ToolContract.
ImplementsContract == Contract!Spec

\* A call to a tool that heeds its context is answered, whatever else its
\* handler does and whether or not the client stays.
HeedingCallsReturn ==
  \A c \in Calls :
    (At(c, "authorize") /\ (Exists(request[c].tool) => request[c].tool \in Heeding))
      ~> At(c, "returned")

\* An audit event that says success stands for a value the caller got.
SuccessMeansValue ==
  \A c \in Calls : At(c, "returned") =>
    \A k \in 1..Len(events[c]) : events[c][k].success => answer[c] = "value"

===============================================================================
