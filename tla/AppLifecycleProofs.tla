-------------------------- MODULE AppLifecycleProofs --------------------------
(***************************************************************************)
(* What App guarantees for any number of goroutines that call Run and      *)
(* Stop, any number of requests and any capabilities.                      *)
(***************************************************************************)
EXTENDS AppLifecycle, TLAPS

\* The fields of App: a server needs a handler, and a handler a frozen registry
Fields ==
  /\ handler => frozen
  /\ server # None => handler

\* A runner and the server it would start
Running(r) ==
  \* It has built the handler before it goes on,
  /\ pc[r] = "claim" => handler
  \* it is past its claim with the server of App only,
  /\ pc[r] \in {"select", "stop", "shutdown", "drain"} => server = r
  /\ server = r <=> listen[r] # "none"
  /\ server = r => pc[r] \notin {"idle", "claim"}
  \* which alone can be shut down,
  /\ r \in shut => server = r
  \* and its goroutine reports what ListenAndServe returned, ErrServerClosed
  \* only then.
  /\ listen[r] = "returned" => sends[r] # "none"
  /\ sends[r] = "closed" \/ "closed" \in channel[r] => r \in shut

\* A call of Stop and the server it has read
Stopping(t) ==
  /\ saw[t] # None => saw[t] = server
  /\ pc[t] \in {"idle", "claim", "select", "stop"} => saw[t] = None
  /\ pc[t] \in {"shutdown", "drain"} => saw[t] # None
  /\ pc[t] = "drain" => saw[t] \in shut
  \* A shutdown that has succeeded stays so.
  /\ pc[t] = "done" /\ saw[t] # None /\ result[t] = "nil" =>
       Drained(saw[t]) /\ saw[t] \in shut

\* As long as no other goroutine calls Stop, a runner is past its select when
\* its server is shut down
Alone ==
  (\A s \in Stoppers : pc[s] = "idle") =>
    \A r \in Runners :
      /\ r \in shut => pc[r] \in {"drain", "done"}
      /\ pc[r] = "done" /\ result[r] = "nil" => Drained(r) /\ r \in shut

Linked ==
  /\ Fields
  /\ \A r \in Runners : Running(r)
  /\ \A t \in Threads : Stopping(t)
  /\ Alone

\* The inductive invariant
IInv == TypeOK /\ Linked

-------------------------------------------------------------------------------
\* Every action keeps the types: what a shutdown closes is a server that Stop
\* has found, and what errChannel takes is what ListenAndServe returned.
LEMMA TypeStep == IInv /\ [Next]_vars => TypeOK'
  <1> SUFFICES ASSUME IInv, [Next]_vars PROVE TypeOK'
    OBVIOUS
  <1>0. TypeOK /\ (\A r \in Runners : Running(r)) /\ (\A t \in Threads : Stopping(t))
    BY DEF IInv, Linked
  <1> USE <1>0 DEF TypeOK, Threads
  <1>1. CASE UNCHANGED vars
    BY <1>1 DEF vars, registryVars, appVars, callVars, serverVars, requestVars
  <1> USE DEF registryVars, appVars, callVars, serverVars, requestVars
  <1>2. ASSUME NEW i \in Tools, RegisterCapability(i) PROVE TypeOK'
    BY <1>2 DEF RegisterCapability
  <1>3. CASE CallHandler
    BY <1>3 DEF CallHandler, BuildHandler
  <1>4. ASSUME NEW r \in Runners, RunStep(r) PROVE TypeOK'
    <2>1. CASE RunBegin(r)
      BY <2>1 DEF RunBegin, BuildHandler, Goto, Return
    <2>2. CASE RunRefused(r)
      BY <2>2 DEF RunRefused, Goto, Return
    <2>3. CASE RunClaims(r)
      BY <2>3 DEF RunClaims, Goto
    <2>4. CASE RunReceives(r)
      BY <2>4 DEF RunReceives, Goto, Return
    <2>5. CASE RunCanceled(r)
      BY <2>5 DEF RunCanceled, Goto
    <2> QED
      BY <1>4, <2>1, <2>2, <2>3, <2>4, <2>5 DEF RunStep
  <1>5. ASSUME NEW r \in Runners, Cancel(r) PROVE TypeOK'
    BY <1>5 DEF Cancel
  <1>6. ASSUME NEW r \in Runners, ServerStep(r) PROVE TypeOK'
    <2>1. CASE ServerListens(r) \/ ServerCloses(r) \/ ServerFails(r)
      BY <2>1 DEF ServerListens, ServerCloses, ServerFails
    <2>2. CASE ServerReports(r)
      BY <2>2 DEF ServerReports, Running
    <2> QED
      BY <1>6, <2>1, <2>2 DEF ServerStep
  <1>7. ASSUME NEW t \in Threads, StopStep(t) PROVE TypeOK'
    <2>1. CASE StopBegin(t)
      BY <2>1 DEF StopBegin, Goto, Return
    <2>2. CASE ShutdownBegin(t)
      BY <2>2 DEF ShutdownBegin, Goto, At, Stopping
    <2>3. CASE ShutdownDone(t) \/ ShutdownTimesOut(t)
      BY <2>3 DEF ShutdownDone, ShutdownTimesOut, Goto, Return
    <2> QED
      BY <1>7, <2>1, <2>2, <2>3 DEF StopStep
  <1>8. ASSUME NEW c \in Clients, Arrive(c) \/ Finish(c) PROVE TypeOK'
    BY <1>8 DEF Arrive, Finish
  <1> QED
    BY <1>1, <1>2, <1>3, <1>4, <1>5, <1>6, <1>7, <1>8 DEF Next

\* Nothing is linked before the first call.
LEMMA InvInit == Init => IInv
  <1> SUFFICES ASSUME Init PROVE TypeOK /\ Linked
    BY DEF IInv
  <1>1. TypeOK
    BY DEF Init, TypeOK
  <1>2. Linked
    BY AppAssumption DEF Init, Linked, Fields, Running, Stopping, Alone, Threads
  <1> QED
    BY <1>1, <1>2

\* One case per action, with what it disturbs.
LEMMA LinkedStep == IInv /\ [Next]_vars => Linked'
  <1> SUFFICES ASSUME IInv, [Next]_vars PROVE Linked'
    OBVIOUS
  <1>0. TypeOK /\ Linked
    BY DEF IInv
  <1> USE <1>0, AppAssumption
      DEF TypeOK, Threads, Linked, Fields, Running, Stopping, Alone, Drained, InFlight
  <1>1. CASE UNCHANGED vars
    BY <1>1 DEF vars, registryVars, appVars, callVars, serverVars, requestVars
  <1> USE DEF registryVars, appVars, callVars, serverVars, requestVars, At, Goto, Return
  <1>2. ASSUME NEW i \in Tools, RegisterCapability(i) PROVE Linked'
    BY <1>2 DEF RegisterCapability
  <1>3. CASE CallHandler
    BY <1>3 DEF CallHandler, BuildHandler
  <1>4. ASSUME NEW r \in Runners, RunStep(r) PROVE Linked'
    <2>1. CASE RunBegin(r)
      BY <2>1 DEF RunBegin, BuildHandler
    <2>2. CASE RunRefused(r)
      BY <2>2 DEF RunRefused, AlreadyStarted
    <2>3. CASE RunClaims(r)
      BY <2>3 DEF RunClaims, AlreadyStarted
    <2>4. CASE RunReceives(r)
      BY <2>4 DEF RunReceives
    <2>5. CASE RunCanceled(r)
      BY <2>5 DEF RunCanceled
    <2> QED
      BY <1>4, <2>1, <2>2, <2>3, <2>4, <2>5 DEF RunStep
  <1>5. ASSUME NEW r \in Runners, Cancel(r) PROVE Linked'
    BY <1>5 DEF Cancel
  <1>6. ASSUME NEW r \in Runners, ServerStep(r) PROVE Linked'
    <2>1. CASE ServerListens(r)
      BY <2>1 DEF ServerListens
    <2>2. CASE ServerCloses(r)
      BY <2>2 DEF ServerCloses
    <2>3. CASE ServerFails(r)
      BY <2>3 DEF ServerFails
    <2>4. CASE ServerReports(r)
      BY <2>4 DEF ServerReports
    <2> QED
      BY <1>6, <2>1, <2>2, <2>3, <2>4 DEF ServerStep
  <1>7. ASSUME NEW t \in Threads, StopStep(t) PROVE Linked'
    <2>1. CASE StopBegin(t)
      BY <2>1 DEF StopBegin, StopCalled
    <2>2. CASE ShutdownBegin(t)
      BY <2>2 DEF ShutdownBegin
    <2>3. CASE ShutdownDone(t)
      BY <2>3 DEF ShutdownDone, Quiet
    <2>4. CASE ShutdownTimesOut(t)
      BY <2>4 DEF ShutdownTimesOut
    <2> QED
      BY <1>7, <2>1, <2>2, <2>3, <2>4 DEF StopStep
  <1>8. ASSUME NEW c \in Clients, Arrive(c) PROVE Linked'
    BY <1>8 DEF Arrive
  <1>9. ASSUME NEW c \in Clients, Finish(c) PROVE Linked'
    BY <1>9 DEF Finish
  <1> QED
    BY <1>1, <1>2, <1>3, <1>4, <1>5, <1>6, <1>7, <1>8, <1>9 DEF Next
-------------------------------------------------------------------------------
\* The invariant holds in every reachable state.
LEMMA Invariant == Spec => []IInv
  <1>1. IInv /\ [Next]_vars => IInv'
    BY TypeStep, LinkedStep DEF IInv
  <1> QED
    BY <1>1, InvInit, PTL DEF Spec

\* Every variable of the application keeps its type.
THEOREM TypeCorrect == Spec => []TypeOK
  <1>1. IInv => TypeOK
    BY DEF IInv
  <1> QED
    BY <1>1, Invariant, PTL

\* One server at most is ever started, however many goroutines call Run and in
\* whatever order they pass the two sections of App.mu; it is the server that
\* Stop finds, with a handler over a frozen registry.
THEOREM OneServerHolds == Spec => []OneServer
  <1>1. IInv => OneServer
    BY AppAssumption DEF IInv, Linked, Fields, Running, OneServer
  <1> QED
    BY <1>1, Invariant, PTL

\* A shutdown that reports success has left nothing behind, in this state and
\* in all later ones.
THEOREM StopDrainsHolds == Spec => []StopDrains
  <1>1. IInv => StopDrains
    BY DEF IInv, Linked, Stopping, StopDrains, At
  <1> QED
    BY <1>1, Invariant, PTL

\* A Run that returns nil has drained its server when nobody else calls Stop:
\* it has not read ErrServerClosed from errChannel, because only its own
\* shutdown could have caused that.
THEOREM RunDrainsHolds == Spec => []RunDrains
  <1>1. IInv => RunDrains
    BY DEF IInv, Linked, Alone, RunDrains, At
  <1> QED
    BY <1>1, Invariant, PTL

\* Once a handler exists no step changes the registered tools.
THEOREM ServedToolsFixedHolds == Spec => ServedToolsFixed
  <1>1. IInv /\ [Next]_vars => [handler => tools' = tools]_vars
    <2> SUFFICES ASSUME IInv, [Next]_vars, handler PROVE tools' = tools
      OBVIOUS
    <2>1. frozen
      BY DEF IInv, Linked, Fields
    <2> QED
      BY <2>1 DEF Next, RegisterCapability, CallHandler, RunStep, RunBegin, RunRefused, RunClaims,
             RunReceives, RunCanceled, Cancel, ServerStep, ServerListens, ServerCloses,
             ServerFails, ServerReports, StopStep, StopBegin, ShutdownBegin, ShutdownDone,
             ShutdownTimesOut, Arrive, Finish, vars, registryVars
  <1> QED
    BY <1>1, Invariant, PTL DEF Spec, ServedToolsFixed

\* No step makes an application ready that has a handler and is not: the first
\* Handler decides, Stop withdraws, and nothing gives readiness back.
THEOREM NeverReadyAgainHolds == Spec => NeverReadyAgain
  <1>1. [Next]_vars => [handler /\ ~ready => ~ready']_vars
    BY DEF Next, RegisterCapability, CallHandler, BuildHandler, RunStep, RunBegin, RunRefused,
           RunClaims, RunReceives, RunCanceled, Cancel, ServerStep, ServerListens, ServerCloses,
           ServerFails, ServerReports, StopStep, StopBegin, ShutdownBegin, ShutdownDone,
           ShutdownTimesOut, Arrive, Finish, vars, appVars
  <1> QED
    BY <1>1, PTL DEF Spec, NeverReadyAgain

===============================================================================
