----------------------------- MODULE AppLifecycle -----------------------------
(***************************************************************************)
(* eacg.App (app.go): goroutines that register capabilities, build the     *)
(* handler, call Run and call Stop, and HTTP requests that are in flight   *)
(* meanwhile.  Every section under App.mu is one action.                   *)
(*                                                                         *)
(* net/http.Server is external.  Each Run call would have its own server,  *)
(* which is named by its runner.  Shutdown refuses new requests and makes  *)
(* ListenAndServe return ErrServerClosed at once, before or after it has   *)
(* begun to serve; Shutdown itself waits for the requests in flight.       *)
(***************************************************************************)
EXTENDS Naturals, FiniteSets

CONSTANTS
  Tools,     \* the capabilities the program registers, one at a time
  Runners,   \* the goroutines that call Run, each once
  Stoppers,  \* the goroutines that call Stop, each once
  Clients,   \* the HTTP requests
  None       \* no server

ASSUME AppAssumption ==
  /\ Runners \intersect Stoppers = {}
  /\ None \notin Runners

VARIABLES
  configOK,  \* mcphttp.New accepts the configuration
  frozen, tools,          \* the registry: Registry.frozen and what it holds
  handler, ready, server, \* the fields of App under mu
  pc, result,             \* where each runner and stopper is, what it returned
  canceled,               \* the runners whose context is done
  saw,                    \* the server a Stop call has read
  listen,                 \* what the goroutine in Run does with each server
  sends,                  \* the value ListenAndServe returned to it
  channel,                \* the content of each runner's errChannel
  shut,                   \* the servers on which Shutdown was called
  where, finished         \* the server each request is at; the requests answered

registryVars == <<frozen, tools>>
appVars == <<handler, ready, server>>
callVars == <<pc, result, canceled, saw>>
serverVars == <<listen, sends, channel, shut>>
requestVars == <<where, finished>>
vars == <<configOK, registryVars, appVars, callVars, serverVars, requestVars>>

Threads == Runners \union Stoppers

At(t, label) == pc[t] = label
Goto(t, label) == pc' = [pc EXCEPT ![t] = label]
Return(t, value) ==
  /\ result' = [result EXCEPT ![t] = value]
  /\ Goto(t, "done")

InFlight(r) == {c \in Clients : where[c] = r}

Init ==
  /\ configOK \in BOOLEAN
  /\ frozen = FALSE /\ tools = {}
  /\ handler = FALSE /\ ready = FALSE /\ server = None
  /\ pc = [t \in Threads |-> "idle"]
  /\ result = [t \in Threads |-> "none"]
  /\ canceled = {}
  /\ saw = [t \in Threads |-> None]
  /\ listen = [r \in Runners |-> "none"]
  /\ sends = [r \in Runners |-> "none"]
  /\ channel = [r \in Runners |-> {}]
  /\ shut = {}
  /\ where = [c \in Clients |-> None]
  /\ finished = {}

-------------------------------------------------------------------------------
\* Registering and building the handler

\* RegisterCapability with one item that does not collide
RegisterCapability(i) ==
  /\ ~frozen /\ i \notin tools
  /\ tools' = tools \union {i}
  /\ UNCHANGED <<configOK, frozen, appVars, callVars, serverVars, requestVars>>

\* Mutated form of BuildHandler: the registry is not frozen.
Mut_BuildWithoutFreeze ==
  /\ frozen' = frozen
  /\ handler' = (handler \/ configOK)
  /\ ready' = IF handler THEN ready ELSE configOK

\* Mutated form of BuildHandler: every call declares the app ready.
Mut_EveryCallSetsReady ==
  /\ frozen' = TRUE
  /\ handler' = (handler \/ configOK)
  /\ ready' = (handler \/ configOK)

\* The body of Handler: a handler that exists is returned as it is; otherwise
\* the registry is frozen first, for good even when the configuration is bad
BuildHandler ==
  /\ frozen' = TRUE
  /\ handler' = (handler \/ configOK)
  /\ ready' = IF handler THEN ready ELSE configOK

\* Handler called for an external server or a test
CallHandler ==
  /\ BuildHandler
  /\ UNCHANGED <<configOK, tools, server, callVars, serverVars, requestVars>>

-------------------------------------------------------------------------------
\* Run

RunBegin(r) ==
  /\ At(r, "idle")
  /\ BuildHandler
  /\ IF handler' THEN Goto(r, "claim") /\ UNCHANGED result
                 ELSE Return(r, "error")
  /\ UNCHANGED <<configOK, tools, server, canceled, saw, serverVars, requestVars>>

\* Mutated form of AlreadyStarted: a second Run starts a second server.
Mut_StartsAgain == FALSE

AlreadyStarted == server # None

RunRefused(r) ==
  /\ At(r, "claim") /\ AlreadyStarted
  /\ Return(r, "already")
  /\ UNCHANGED <<configOK, registryVars, appVars, canceled, saw, serverVars, requestVars>>

\* The server is published in App, and a goroutine starts it
RunClaims(r) ==
  /\ At(r, "claim") /\ ~AlreadyStarted
  /\ server' = r
  /\ listen' = [listen EXCEPT ![r] = "starting"]
  /\ Goto(r, "select")
  /\ UNCHANGED <<configOK, registryVars, handler, ready, result, canceled, saw,
                 sends, channel, shut, requestVars>>

\* The select of Run: ListenAndServe has returned, or the context is done
RunReceives(r) ==
  /\ At(r, "select") /\ channel[r] # {}
  /\ channel' = [channel EXCEPT ![r] = {}]
  /\ Return(r, IF channel[r] = {"closed"} THEN "nil" ELSE "error")
  /\ UNCHANGED <<configOK, registryVars, appVars, canceled, saw, listen, sends,
                 shut, requestVars>>

RunCanceled(r) ==
  /\ At(r, "select") /\ r \in canceled
  /\ Goto(r, "stop")
  /\ UNCHANGED <<configOK, registryVars, appVars, result, canceled, saw,
                 serverVars, requestVars>>

\* The program cancels the context of a Run, at any time
Cancel(r) ==
  /\ r \notin canceled
  /\ canceled' = canceled \union {r}
  /\ UNCHANGED <<configOK, registryVars, appVars, pc, result, saw, serverVars, requestVars>>

-------------------------------------------------------------------------------
\* The goroutine of Run, around net/http's ListenAndServe

\* It listens and serves, unless Shutdown came first
ServerListens(r) ==
  /\ listen[r] = "starting" /\ r \notin shut
  /\ listen' = [listen EXCEPT ![r] = "serving"]
  /\ UNCHANGED <<configOK, registryVars, appVars, callVars, sends, channel, shut, requestVars>>

\* It returns ErrServerClosed because Shutdown was called
ServerCloses(r) ==
  /\ listen[r] \in {"starting", "serving"} /\ r \in shut
  /\ listen' = [listen EXCEPT ![r] = "returned"]
  /\ sends' = [sends EXCEPT ![r] = "closed"]
  /\ UNCHANGED <<configOK, registryVars, appVars, callVars, channel, shut, requestVars>>

\* It returns another error: the address is taken, which a server that is
\* shut down meanwhile may still report, or accepting fails
ServerFails(r) ==
  /\ listen[r] = "starting" \/ (listen[r] = "serving" /\ r \notin shut)
  /\ listen' = [listen EXCEPT ![r] = "returned"]
  /\ sends' = [sends EXCEPT ![r] = "failed"]
  /\ UNCHANGED <<configOK, registryVars, appVars, callVars, channel, shut, requestVars>>

\* Mutated form of ChannelTakes: errChannel has no buffer, so that a send
\* waits for the select.
Mut_Unbuffered(r) == At(r, "select") /\ channel[r] = {}

\* errChannel holds one value without a receiver
ChannelTakes(r) == channel[r] = {}

\* The goroutine sends what ListenAndServe returned, and ends
ServerReports(r) ==
  /\ listen[r] = "returned" /\ ChannelTakes(r)
  /\ channel' = [channel EXCEPT ![r] = {sends[r]}]
  /\ listen' = [listen EXCEPT ![r] = "ended"]
  /\ UNCHANGED <<configOK, registryVars, appVars, callVars, sends, shut, requestVars>>

-------------------------------------------------------------------------------
\* Stop, called by a stopper or by a Run whose context is done

StopCalled(t) ==
  \/ t \in Stoppers /\ At(t, "idle")
  \/ t \in Runners /\ At(t, "stop")

\* Mutated form of StopBegin: a missing server is not noticed.
Mut_NoServerCheck(t) ==
  /\ StopCalled(t)
  /\ ready' = FALSE
  /\ saw' = [saw EXCEPT ![t] = server]
  /\ Goto(t, "shutdown") /\ UNCHANGED result
  /\ UNCHANGED <<configOK, registryVars, handler, server, canceled, serverVars, requestVars>>

\* Under mu: read the server, not ready any more
StopBegin(t) ==
  /\ StopCalled(t)
  /\ ready' = FALSE
  /\ saw' = [saw EXCEPT ![t] = server]
  /\ IF server = None THEN Return(t, "nil")
                      ELSE Goto(t, "shutdown") /\ UNCHANGED result
  /\ UNCHANGED <<configOK, registryVars, handler, server, canceled, serverVars, requestVars>>

\* server.Shutdown starts
ShutdownBegin(t) ==
  /\ At(t, "shutdown")
  /\ shut' = shut \union {saw[t]}
  /\ Goto(t, "drain")
  /\ UNCHANGED <<configOK, registryVars, appVars, result, canceled, saw,
                 listen, sends, channel, requestVars>>

\* Mutated form of Quiet: the server is closed instead of drained.
Mut_DoesNotWait(r) == TRUE

\* What Shutdown waits for: nobody serves, and every request is answered
Quiet(r) == listen[r] # "serving" /\ InFlight(r) = {}

ShutdownDone(t) ==
  /\ At(t, "drain") /\ Quiet(saw[t])
  /\ Return(t, "nil")
  /\ UNCHANGED <<configOK, registryVars, appVars, canceled, saw, serverVars, requestVars>>

\* Mutated form of ShutdownTimesOut: Stop waits without a limit.
Mut_NoTimeout(t) == FALSE /\ UNCHANGED vars

\* Mutated form of ShutdownTimesOut: the error of Shutdown is dropped.
Mut_SwallowsTimeout(t) ==
  /\ At(t, "drain")
  /\ Return(t, "nil")
  /\ UNCHANGED <<configOK, registryVars, appVars, canceled, saw, serverVars, requestVars>>

\* ShutdownTimeout passes, or the context given to Stop is done
ShutdownTimesOut(t) ==
  /\ At(t, "drain")
  /\ Return(t, "timeout")
  /\ UNCHANGED <<configOK, registryVars, appVars, canceled, saw, serverVars, requestVars>>

-------------------------------------------------------------------------------
\* HTTP requests

Arrive(c) ==
  /\ where[c] = None /\ c \notin finished
  /\ \E r \in Runners :
       /\ listen[r] = "serving" /\ r \notin shut
       /\ where' = [where EXCEPT ![c] = r]
  /\ UNCHANGED <<configOK, registryVars, appVars, callVars, serverVars, finished>>

Finish(c) ==
  /\ where[c] # None
  /\ where' = [where EXCEPT ![c] = None]
  /\ finished' = finished \union {c}
  /\ UNCHANGED <<configOK, registryVars, appVars, callVars, serverVars>>

-------------------------------------------------------------------------------

RunStep(r) == RunBegin(r) \/ RunRefused(r) \/ RunClaims(r) \/ RunReceives(r) \/ RunCanceled(r)
ServerStep(r) == ServerListens(r) \/ ServerCloses(r) \/ ServerFails(r) \/ ServerReports(r)
StopStep(t) == StopBegin(t) \/ ShutdownBegin(t) \/ ShutdownDone(t) \/ ShutdownTimesOut(t)

Next ==
  \/ \E i \in Tools : RegisterCapability(i)
  \/ CallHandler
  \/ \E r \in Runners : RunStep(r) \/ Cancel(r) \/ ServerStep(r)
  \/ \E t \in Threads : StopStep(t)
  \/ \E c \in Clients : Arrive(c) \/ Finish(c)

\* A call that has begun goes on, and so does the goroutine with its server.
\* Nobody has to call anything, and a request need never be answered: what
\* bounds a shutdown is its timeout.
Fairness ==
  /\ \A r \in Runners :
       /\ WF_vars(RunRefused(r) \/ RunClaims(r) \/ RunReceives(r) \/ RunCanceled(r))
       /\ WF_vars(ServerStep(r))
       /\ WF_vars(StopStep(r))
  /\ \A t \in Stoppers :
       WF_vars(ShutdownBegin(t) \/ ShutdownDone(t) \/ ShutdownTimesOut(t))

Spec == Init /\ [][Next]_vars
FairSpec == Spec /\ Fairness

-------------------------------------------------------------------------------
\* Properties

\* Every variable keeps its type.
TypeOK ==
  /\ {configOK, frozen, handler, ready} \subseteq BOOLEAN
  /\ tools \subseteq Tools
  /\ server \in Runners \union {None}
  /\ pc \in [Threads -> {"idle", "claim", "select", "stop", "shutdown", "drain", "done"}]
  /\ result \in [Threads -> {"none", "nil", "error", "already", "timeout"}]
  /\ canceled \subseteq Runners
  /\ saw \in [Threads -> Runners \union {None}]
  /\ listen \in [Runners -> {"none", "starting", "serving", "returned", "ended"}]
  /\ sends \in [Runners -> {"none", "closed", "failed"}]
  /\ channel \in [Runners -> SUBSET {"closed", "failed"}]
  /\ shut \subseteq Runners
  /\ where \in [Clients -> Runners \union {None}]
  /\ finished \subseteq Clients

\* However many goroutines call Run, and although each unlocks App.mu between
\* building the handler and claiming the server, one server at most is ever
\* started, it is the one Stop will find, and it only serves a built handler.
OneServer ==
  \A r \in Runners : listen[r] # "none" => r = server /\ handler /\ frozen

\* Nobody serves on the server and it has no request in flight
Drained(r) == listen[r] # "serving" /\ InFlight(r) = {}

\* A shutdown that reports success has left nothing behind: the server it
\* found takes no request any more and has none in flight.
StopDrains ==
  \A t \in Threads :
    At(t, "done") /\ saw[t] # None /\ result[t] = "nil" => Drained(saw[t]) /\ saw[t] \in shut

\* A Run that returned nil has drained its server, as long as nobody calls
\* Stop beside it.
RunDrains ==
  (\A s \in Stoppers : At(s, "idle")) =>
    \A r \in Runners : At(r, "done") /\ result[r] = "nil" => Drained(r)

\* The tools a handler offers are those that were registered when it was
\* built, however late another goroutine still registers.
ServedToolsFixed == [][handler => tools' = tools]_vars

\* An application that has a handler and was stopped never claims to be ready
\* again, whoever calls Handler or Run afterwards.
NeverReadyAgain == [][handler /\ ~ready => ~ready']_vars

\* Once Shutdown has been called on a server, the goroutine that runs it
\* ends, also when Run has left the select and nobody reads errChannel.
GoroutineEnds == \A r \in Runners : r \in shut ~> listen[r] \in {"none", "ended"}

\* A Run whose context is done returns, although requests may hang for ever.
CanceledRunReturns ==
  \A r \in Runners : (r \in canceled /\ At(r, "select")) ~> At(r, "done")

\* A server that takes requests and that nobody is shutting down reports
\* itself ready, as "readiness tells whether the application has completed
\* its initialisation" says.
ServingIsReady ==
  \A r \in Runners :
    listen[r] = "serving" /\ (\A t \in Threads : ~At(t, "shutdown")) /\ r \notin shut
      => ready

\* "Run starts the HTTP server and stops gracefully when the context ends":
\* a Run that returns nil after its context ended has no request in flight.
RunIsGraceful ==
  [][\A r \in Runners :
       r \in canceled /\ ~At(r, "done") /\ pc'[r] = "done" /\ result'[r] = "nil"
         => InFlight(r) = {}]_vars

===============================================================================
