-------------------------- MODULE HttpConnectorProofs --------------------------
(***************************************************************************)
(* What HttpConnector guarantees for any number of connectors and calls,   *)
(* any configurations, requests and redirects, and any size of an int.     *)
(***************************************************************************)
EXTENDS HttpConnector, FiniteSetTheorems, TLAPS

-------------------------------------------------------------------------------
\* The inductive invariant

\* Every variable is a function of connectors or of calls.
Shapes ==
  /\ connector = [k \in Connectors |-> connector[k]]
  /\ stage \in [Calls -> {"idle", "sending", "redirected", "reading", "returned"}]
  /\ by = [c \in Calls |-> by[c]]
  /\ url = [c \in Calls |-> url[c]]
  /\ sent = [c \in Calls |-> sent[c]]
  /\ hops \in [Calls -> Nat]
  /\ timer = [c \in Calls |-> timer[c]]
  /\ ctx \in [Calls -> {"live", "deadline", "canceled"}]
  /\ status = [c \in Calls |-> status[c]]
  /\ read \in [Calls -> Nat]
  /\ ended \in [Calls -> BOOLEAN]
  /\ err = [c \in Calls |-> err[c]]
  /\ shared \in Clients

\* The connector's own policy is the first and, unless the caller gave a
\* client, the only one.
PolicyOf(k, b) ==
  /\ DOMAIN b.policy \in {1..1, 1..2}
  /\ b.policy[1] = k
  /\ 2 \in DOMAIN b.policy => b.policy[2] = Caller /\ b.own

\* What New makes of a configuration
Sound(k) ==
  Ready(k) =>
    /\ connector[k].base \in URL /\ BaseAccepted(connector[k].base)
    /\ connector[k].limit \in 1..MaxInt
    /\ PolicyOf(k, connector[k])

\* What an error of a call that has returned says
ErrorTrue(c) ==
  /\ "unsafe" \in err[c] => ~Inside(connector[by[c]].base, url[c])
  /\ "redirects" \in err[c] => hops[c] = 10
  /\ "caller" \in err[c] => connector[by[c]].own
  /\ connector[by[c]].limit < MaxInt =>
       /\ err[c] = {} => ended[c] /\ read[c] <= connector[by[c]].limit /\ status[c] = "2xx"
       /\ "too_large" \in err[c] <=> read[c] > connector[by[c]].limit

CallInv(c) ==
  /\ At(c, "idle") => sent[c] = {} /\ hops[c] = 0
  /\ ~At(c, "idle") => by[c] \in Connectors /\ Ready(by[c])
  /\ stage[c] \in {"idle", "sending", "redirected"} => read[c] = 0 /\ ~ended[c]
  /\ ~At(c, "returned") => err[c] = {}
  /\ At(c, "reading") =>
       /\ status[c] \in {"2xx", "other"}
       /\ connector[by[c]].limit < MaxInt => read[c] <= connector[by[c]].limit + 1
  /\ At(c, "returned") => ErrorTrue(c)
  /\ OriginKept(c)

CInv == Shapes /\ (\A k \in Connectors : Sound(k)) /\ (\A c \in Calls : CallInv(c))

\* Nothing is built, sent or returned at first.
LEMMA CInvInit == Init => CInv
  BY DEF Init, CInv, Shapes, Sound, CallInv, OriginKept, Ready, NoConnector, At

-------------------------------------------------------------------------------
\* What New and CheckRedirect do

\* A connector that New builds is sound, also one built from a client that
\* others were built from.
LEMMA BuiltIsSound ==
  ASSUME NEW k \in Connectors, NEW config \in Configs, BaseAccepted(config.base),
         shared \in Clients, NEW b, b = Build(k, config)
  PROVE  /\ b.state = "ready" /\ b.base \in URL /\ BaseAccepted(b.base)
         /\ b.limit \in 1..MaxInt
         /\ PolicyOf(k, b)
  <1>1. b.state = "ready" /\ b.base = config.base /\ b.own = config.client
    BY DEF Build
  <1>2. b.limit \in 1..MaxInt
    BY ConnectorAssumption DEF Build, OrDefault, DefaultLimit
  <1>3. PolicyOf(k, b)
    <2>1. CloneHTTPClient(config).policy \in {<<>>, IF config.client THEN <<Caller>> ELSE <<>>}
      <3>1. CASE config.client
        BY <3>1, ConnectorAssumption DEF CloneHTTPClient
      <3>2. CASE ~config.client
        BY <3>2 DEF CloneHTTPClient
      <3> QED
        BY <3>1, <3>2
    <2>2. b.policy = <<k>> \o CloneHTTPClient(config).policy
      BY DEF Build
    <2>3. CASE CloneHTTPClient(config).policy = <<>>
      BY <2>2, <2>3 DEF PolicyOf
    <2>4. CASE CloneHTTPClient(config).policy = <<Caller>> /\ config.client
      <3>1. DOMAIN b.policy = 1..2 /\ b.policy[1] = k /\ b.policy[2] = Caller
        BY <2>2, <2>4
      <3> QED
        BY <1>1, <2>4, <3>1 DEF PolicyOf
    <2> QED
      BY <2>1, <2>3, <2>4
  <1>4. b.base \in URL /\ BaseAccepted(b.base)
    BY <1>1, ConnectorAssumption
  <1> QED
    BY <1>1, <1>2, <1>3, <1>4

\* What the policies of a sound connector say of a redirect: one is followed
\* only below ten requests and inside the connector's origin, and each verdict
\* has its cause.
LEMMA VerdictsOf ==
  ASSUME NEW k \in Connectors, Ready(k), Sound(k), NEW u, NEW n \in Nat,
         NEW v \in Verdicts(k, u, n)
  PROVE  /\ v = "follow" => ~u.user /\ SameOrigin(connector[k].base, u) /\ n < MaxVia
         /\ v = "unsafe" => u.user \/ ~SameOrigin(connector[k].base, u)
         /\ v = "redirects" => n >= MaxVia
         /\ v = "caller" => connector[k].own
         /\ v \in {"follow", "last", "unsafe", "redirects", "caller"}
  <1> DEFINE policy == connector[k].policy
             objects == {i \in DOMAIN policy :
                           policy[i] # Caller /\ Objection(policy[i], u, n) # "none"}
  <1>1. /\ DOMAIN policy \in {1..1, 1..2} /\ policy[1] = k
        /\ 2 \in DOMAIN policy => policy[2] = Caller /\ connector[k].own
    BY DEF Sound, PolicyOf
  <1>2. k # Caller
    BY ConnectorAssumption
  <1>3. objects = IF Objection(k, u, n) # "none" THEN {1} ELSE {}
    BY <1>1, <1>2
  <1>4. Objection(k, u, n) \in {"none", "unsafe", "redirects"}
    BY DEF Objection
  <1>5. CASE Objection(k, u, n) # "none"
    <2>1. (CHOOSE i \in objects : \A j \in objects : i <= j) = 1
      BY <1>3, <1>5
    <2>2. v = Objection(policy[1], u, n)
      BY <1>3, <1>5, <2>1 DEF Verdicts
    <2>3. v = Objection(k, u, n)
      BY <1>1, <2>2
    <2> QED
      BY <1>4, <1>5, <2>3 DEF Objection
  <1>6. CASE Objection(k, u, n) = "none"
    <2>1. v \in IF \E i \in DOMAIN policy : policy[i] = Caller
                THEN {"follow", "caller", "last"} ELSE {"follow"}
      BY <1>3, <1>6 DEF Verdicts
    <2>2. (\E i \in DOMAIN policy : policy[i] = Caller) => connector[k].own
      BY <1>1, <1>2
    <2>3. ~u.user /\ SameOrigin(connector[k].base, u) /\ n < MaxVia
      BY <1>6 DEF Objection, MaxVia
    <2> QED
      BY <2>1, <2>2, <2>3
  <1> QED
    BY <1>5, <1>6

\* The code's test for the same origin is what the property asks for.
LEMMA InsideIsSameOrigin ==
  ASSUME NEW base, NEW u
  PROVE  Inside(base, u) <=> ~u.user /\ SameOrigin(base, u)
  BY DEF Inside, SameOrigin

\* A path never leads a request out of the origin.
LEMMA TargetIsInside ==
  ASSUME NEW k \in Connectors, Ready(k), Sound(k), NEW q \in Requests
  PROVE  Inside(connector[k].base, Target(k, q))
  <1> DEFINE b == connector[k].base
             u == Target(k, q)
  <1>1. b \in URL /\ ~b.user
    BY DEF Sound, BaseAccepted
  <1>2. u = [b EXCEPT !.path = Joined(@, q.path)]
    BY DEF Target
  <1> HIDE DEF b, u
  <1>3. u.scheme = b.scheme /\ u.host = b.host /\ u.port = b.port /\ u.user = b.user
    BY <1>1, <1>2 DEF URL
  <1>4. Inside(b, u)
    BY <1>1, <1>3 DEF Inside, EffectivePort
  <1> QED
    BY <1>4 DEF b, u

-------------------------------------------------------------------------------
\* The invariant is kept

\* Building a connector does not disturb the calls, which use others.
LEMMA NewKeeps ==
  ASSUME CInv, NEW k \in Connectors, New(k)
  PROVE  CInv'
  <1>1. PICK config \in Configs :
          connector' = [connector EXCEPT ![k] =
            IF BaseAccepted(config.base) THEN Build(k, config) ELSE [state |-> "refused"]]
    BY DEF New
  <1>2. /\ connector[k].state # "ready"
        /\ UNCHANGED <<shared, stage, by, url, sent, hops, timer, ctx, status, read, ended, err>>
    BY DEF New, NoConnector, call
  <1>3. Shapes'
    BY <1>1, <1>2 DEF CInv, Shapes
  <1>4. \A j \in Connectors : j # k => connector'[j] = connector[j]
    BY <1>1 DEF CInv, Shapes
  <1>5. Sound(k)'
    <2>1. CASE BaseAccepted(config.base)
      <3>1. connector'[k] = Build(k, config)
        BY <1>1, <2>1 DEF CInv, Shapes
      <3> QED
        BY <2>1, <3>1, BuiltIsSound DEF Sound, CInv, Shapes
    <2>2. CASE ~BaseAccepted(config.base)
      BY <1>1, <2>2 DEF CInv, Shapes, Sound, Ready
    <2> QED
      BY <2>1, <2>2
  <1>6. ASSUME NEW j \in Connectors PROVE Sound(j)'
    <2>1. CASE j = k
      BY <1>5, <2>1
    <2>2. CASE j # k
      BY <1>4, <2>2 DEF CInv, Sound, Ready
    <2> QED
      BY <2>1, <2>2
  <1>7. ASSUME NEW c \in Calls PROVE CallInv(c)'
    <2>1. CASE At(c, "idle")
      BY <1>2, <2>1 DEF CInv, CallInv, OriginKept, At
    <2>2. CASE ~At(c, "idle")
      <3>1. connector'[by[c]] = connector[by[c]]
        BY <1>2, <1>4, <2>2 DEF CInv, CallInv, Ready
      <3> QED
        BY <1>2, <3>1 DEF CInv, CallInv, ErrorTrue, OriginKept, At, Ready
    <2> QED
      BY <2>1, <2>2
  <1> QED
    BY <1>3, <1>6, <1>7 DEF CInv

CallStep(c) ==
  \/ InvokeFails(c) \/ Invoke(c) \/ ContextEnds(c)
  \/ Downstream(c) \/ ClientStep(c) \/ TimerFires(c)

\* Sending keeps them functions of calls.
LEMMA SendShapes ==
  ASSUME Shapes, NEW c \in Calls, NEW u, Send(c, u)
  PROVE  /\ url' = [d \in Calls |-> url'[d]]
         /\ sent' = [d \in Calls |-> sent'[d]]
         /\ hops' \in [Calls -> Nat]
         /\ stage' \in [Calls -> {"idle", "sending", "redirected", "reading", "returned"}]
  <1>1. url' = [d \in Calls |-> url'[d]]
    BY DEF Shapes, Send
  <1>2. sent' = [d \in Calls |-> sent'[d]]
    BY DEF Shapes, Send
  <1>3. hops' \in [Calls -> Nat]
    BY DEF Shapes, Send
  <1>4. stage' \in [Calls -> {"idle", "sending", "redirected", "reading", "returned"}]
    BY DEF Shapes, Send, Goto
  <1> QED
    BY <1>1, <1>2, <1>3, <1>4

\* Every step keeps every variable a function of connectors or of calls.
LEMMA ShapesStep ==
  ASSUME Shapes, NEW c \in Calls, CallStep(c)
  PROVE  Shapes'
  <1>1. CASE InvokeFails(c)
    BY <1>1 DEF Shapes, InvokeFails, Return, Goto
  <1>2. CASE Invoke(c)
    BY <1>2, SendShapes DEF Shapes, Invoke
  <1>3. CASE ContextEnds(c)
    BY <1>3 DEF Shapes, ContextEnds
  <1>4. CASE Responds(c)
    BY <1>4 DEF Shapes, Responds, Goto
  <1>5. CASE Redirects(c)
    BY <1>5 DEF Shapes, Redirects, Goto
  <1>6. CASE ConnectionFails(c)
    BY <1>6 DEF Shapes, ConnectionFails, Return, Goto
  <1>7. CASE BodyByte(c)
    BY <1>7 DEF Shapes, BodyByte
  <1>8. CASE BodyEnds(c)
    BY <1>8 DEF Shapes, BodyEnds
  <1>9. CASE BodyFails(c)
    BY <1>9 DEF Shapes, BodyFails, Return, Goto
  <1>10. CASE Follow(c)
    BY <1>10, SendShapes DEF Shapes, Follow
  <1>11. CASE RefuseRedirect(c)
    BY <1>11 DEF Shapes, RefuseRedirect, Return, Goto
  <1>12. CASE UseLast(c)
    BY <1>12 DEF Shapes, UseLast, Goto
  <1>13. CASE GivesUp(c)
    BY <1>13 DEF Shapes, GivesUp, Return, Goto
  <1>14. CASE Finish(c)
    BY <1>14 DEF Shapes, Finish, Return, Goto
  <1>15. CASE TimerFires(c)
    BY <1>15 DEF Shapes, TimerFires
  <1> QED
    BY <1>1, <1>2, <1>3, <1>4, <1>5, <1>6, <1>7, <1>8,
       <1>9, <1>10, <1>11, <1>12, <1>13, <1>14, <1>15
    DEF CallStep, Downstream, ClientStep

\* A step of one call changes no connector and no other call.
LEMMA OtherCalls ==
  ASSUME Shapes, NEW c \in Calls, NEW d \in Calls, c # d, CallInv(d), CallStep(c)
  PROVE  Shapes' /\ connector' = connector /\ CallInv(d)'
  <1>1. /\ UNCHANGED <<shared, connector>>
        /\ stage'[d] = stage[d] /\ by'[d] = by[d] /\ url'[d] = url[d] /\ sent'[d] = sent[d]
        /\ hops'[d] = hops[d] /\ status'[d] = status[d] /\ read'[d] = read[d]
        /\ ended'[d] = ended[d] /\ err'[d] = err[d]
    BY DEF Shapes, CallStep, InvokeFails, Invoke, ContextEnds, Downstream, Responds, Redirects,
           ConnectionFails, BodyByte, BodyEnds, BodyFails, ClientStep, Follow, RefuseRedirect,
           UseLast, GivesUp, Finish, TimerFires, Send, Return, Goto
  <1>2. Shapes'
    BY ShapesStep
  <1> QED
    BY <1>1, <1>2 DEF CallInv, At, Ready, ErrorTrue, OriginKept

\* Sending to u inside the origin, before ten requests were sent.
LEMMA SendKeeps ==
  ASSUME Shapes, NEW c \in Calls, NEW u, Send(c, u), OriginKept(c), hops[c] < 10,
         UNCHANGED connector, Inside(connector[by'[c]].base, u),
         sent[c] = {} \/ by'[c] = by[c]
  PROVE  OriginKept(c)' /\ stage'[c] = "sending"
  <1>1. /\ sent'[c] = sent[c] \union {u} /\ hops'[c] = hops[c] + 1
        /\ stage'[c] = "sending"
    BY DEF Shapes, Send, Goto
  <1>2. hops[c] \in Nat
    BY DEF Shapes
  <1> QED
    BY <1>1, <1>2 DEF OriginKept

\* Returning an error that tells the truth.
LEMMA ReturnKeeps ==
  ASSUME Shapes, NEW c \in Calls, NEW e, Return(c, e), CallInv(c),
         UNCHANGED <<connector, url, sent, hops, status, read, ended>>,
         by'[c] \in Connectors, Ready(by'[c]), by'[c] = by[c] \/ sent[c] = {},
         "unsafe" \notin e, "redirects" \notin e, "caller" \notin e,
         connector[by'[c]].limit < MaxInt =>
           /\ e = {} => ended[c] /\ read[c] <= connector[by'[c]].limit /\ status[c] = "2xx"
           /\ "too_large" \in e <=> read[c] > connector[by'[c]].limit
  PROVE  CallInv(c)'
  <1>1. stage'[c] = "returned" /\ err'[c] = e
    BY DEF Shapes, Return, Goto
  <1>2. ErrorTrue(c)'
    BY <1>1 DEF ErrorTrue
  <1>3. OriginKept(c)'
    BY DEF OriginKept, CallInv
  <1> QED
    BY <1>1, <1>2, <1>3 DEF CallInv, At, Ready

\* While the body is read, no more than the limit was.
LEMMA ReadingIsBelow ==
  ASSUME Shapes, NEW c \in Calls, Reading(c), connector[by[c]].limit \in 1..MaxInt,
         connector[by[c]].limit < MaxInt
  PROVE  read[c] \in Nat /\ read[c] <= connector[by[c]].limit /\ ~ended[c]
  <1>1. ReadLimit(by[c]) = connector[by[c]].limit + 1
    BY ConnectorAssumption DEF ReadLimit, Wrap
  <1> QED
    BY <1>1 DEF Reading, Shapes

\* One case per action of a call.
LEMMA CallKeeps ==
  ASSUME CInv, NEW c \in Calls, CallStep(c)
  PROVE  CallInv(c)'
  <1>s. Shapes /\ CallInv(c) /\ UNCHANGED connector
    <2>1. UNCHANGED connector
      BY DEF CallStep, InvokeFails, Invoke, ContextEnds, Downstream, Responds, Redirects,
             ConnectionFails, BodyByte, BodyEnds, BodyFails, ClientStep, Follow, RefuseRedirect,
             UseLast, GivesUp, Finish, TimerFires
    <2> QED
      BY <2>1 DEF CInv
  <1>k. ~At(c, "idle") =>
          /\ by[c] \in Connectors /\ Ready(by[c]) /\ Sound(by[c])
          /\ connector[by[c]].limit \in 1..MaxInt
    BY <1>s DEF CInv, CallInv, Sound
  <1> USE <1>s DEF CallInv
  <1>1. CASE InvokeFails(c)
    <2>1. PICK k \in Connectors, e \in {{"path"}, {"body"}} :
            Ready(k) /\ by' = [by EXCEPT ![c] = k] /\ Return(c, e)
      BY <1>1 DEF InvokeFails
    <2>2. /\ by'[c] = k /\ sent[c] = {} /\ read[c] = 0
          /\ UNCHANGED <<url, sent, hops, status, read, ended>>
      BY <1>1, <2>1 DEF InvokeFails, Shapes, At
    <2>3. connector[k].limit \in 1..MaxInt
      BY <2>1 DEF CInv, Sound
    <2> QED
      BY <2>1, <2>2, <2>3, ReturnKeeps
  <1>2. CASE Invoke(c)
    <2>1. PICK k \in Connectors, q \in Requests :
            /\ Ready(k) /\ by' = [by EXCEPT ![c] = k] /\ Send(c, Target(k, q))
      BY <1>2 DEF Invoke
    <2>2. by'[c] = k /\ At(c, "idle")
      BY <1>2, <2>1 DEF Shapes, Invoke
    <2>3. Inside(connector[k].base, Target(k, q))
      BY <2>1, TargetIsInside DEF CInv
    <2>4. OriginKept(c)' /\ stage'[c] = "sending"
      BY <2>1, <2>2, <2>3, SendKeeps
    <2>5. UNCHANGED <<read, ended, err>>
      BY <1>2 DEF Invoke
    <2> QED
      BY <2>1, <2>2, <2>4, <2>5 DEF At, Ready
  <1>3. CASE ContextEnds(c)
    BY <1>3 DEF Shapes, ContextEnds, At, Ready, ErrorTrue, OriginKept
  <1>4. CASE Responds(c)
    BY <1>4, <1>k DEF Shapes, Responds, Goto, At, Ready, OriginKept
  <1>5. CASE Redirects(c)
    BY <1>5 DEF Shapes, Redirects, Goto, At, Ready, OriginKept
  <1>6. CASE ConnectionFails(c)
    <2>1. /\ ~At(c, "idle") /\ read[c] = 0 /\ Return(c, {"upstream"})
          /\ UNCHANGED <<by, url, sent, hops, status, read, ended>>
      BY <1>6 DEF ConnectionFails, At
    <2> QED
      BY <1>k, <2>1, ReturnKeeps
  <1>7. CASE BodyByte(c)
    <2>1. /\ Reading(c) /\ At(c, "reading") /\ read'[c] = read[c] + 1
          /\ UNCHANGED <<stage, by, sent, hops, status, ended, err>>
      BY <1>7 DEF Shapes, BodyByte, Reading
    <2>2. connector[by[c]].limit < MaxInt => read'[c] <= connector[by[c]].limit + 1
      BY <1>k, <2>1, ReadingIsBelow DEF At
    <2>3. OriginKept(c)'
      BY <2>1 DEF OriginKept
    <2> QED
      BY <2>1, <2>2, <2>3 DEF At, Ready
  <1>8. CASE BodyEnds(c)
    BY <1>8, <1>k DEF Shapes, BodyEnds, Reading, At, Ready, OriginKept
  <1>9. CASE BodyFails(c)
    <2>1. /\ Reading(c) /\ ~At(c, "idle") /\ Return(c, {"read"})
          /\ UNCHANGED <<by, url, sent, hops, status, read, ended>>
      BY <1>9 DEF BodyFails, Reading, At
    <2> QED
      BY <1>k, <2>1, ReadingIsBelow, ReturnKeeps
  <1>10. CASE Follow(c)
    <2>1. /\ ~At(c, "idle") /\ hops[c] \in Nat /\ "follow" \in Verdicts(by[c], url[c], hops[c])
          /\ UNCHANGED <<by, read, ended, err>> /\ Send(c, url[c])
      BY <1>10 DEF Follow, Shapes, At
    <2>2. Inside(connector[by[c]].base, url[c]) /\ hops[c] < 10
      BY <1>k, <2>1, VerdictsOf, InsideIsSameOrigin DEF MaxVia
    <2>3. OriginKept(c)' /\ stage'[c] = "sending"
      BY <2>1, <2>2, SendKeeps
    <2> QED
      BY <1>10, <1>k, <2>1, <2>3 DEF Follow, At, Ready
  <1>11. CASE RefuseRedirect(c)
    <2>1. PICK v \in Verdicts(by[c], url[c], hops[c]) \ {"follow", "last"} :
            Return(c, {"upstream", v})
      BY <1>11 DEF RefuseRedirect
    <2>2. /\ At(c, "redirected") /\ hops[c] \in Nat
          /\ UNCHANGED <<by, url, sent, hops, status, read, ended>>
      BY <1>11 DEF RefuseRedirect, Shapes
    <2>3. stage'[c] = "returned" /\ err'[c] = {"upstream", v}
      BY <2>1 DEF Return, Goto, Shapes
    <2>4. /\ v = "unsafe" => ~Inside(connector[by[c]].base, url[c])
          /\ v = "redirects" => hops[c] >= 10
          /\ v = "caller" => connector[by[c]].own
          /\ v \in {"unsafe", "redirects", "caller"}
      BY <1>k, <2>1, <2>2, VerdictsOf, InsideIsSameOrigin DEF MaxVia, At
    <2> QED
      BY <1>k, <2>2, <2>3, <2>4 DEF At, Ready, ErrorTrue, OriginKept
  <1>12. CASE UseLast(c)
    BY <1>12, <1>k DEF Shapes, UseLast, Goto, At, Ready, OriginKept
  <1>13. CASE GivesUp(c)
    <2>1. PICK e \in {{"upstream", "deadline"}, {"upstream", "canceled"},
                      {"read", "deadline"}, {"read", "canceled"}} : Return(c, e)
      BY <1>13 DEF GivesUp, Causes, Shapes
    <2>2. /\ ~At(c, "idle")
          /\ Reading(c) \/ read[c] = 0
          /\ UNCHANGED <<by, url, sent, hops, status, read, ended>>
      BY <1>13 DEF GivesUp, At, Reading
    <2> QED
      BY <1>k, <2>1, <2>2, ReadingIsBelow, ReturnKeeps, SMTT(30)
  <1>14. CASE Finish(c)
    <2> DEFINE limit == connector[by[c]].limit
    <2>1. PICK e : /\ Return(c, e)
                   /\ e \in {{"too_large"}, {"upstream", "status"}, {"upstream", "json"}, {}}
                   /\ e = {"too_large"} <=> read[c] > limit
                   /\ e = {} => status[c] = "2xx"
      BY <1>14 DEF Finish
    <2>2. /\ At(c, "reading") /\ ~Reading(c) /\ ~At(c, "idle") /\ read[c] \in Nat
          /\ UNCHANGED <<by, url, sent, hops, status, read, ended>>
      BY <1>14 DEF Finish, At, Shapes
    <2>3. limit < MaxInt => ended[c] \/ read[c] > limit
      BY <1>k, <2>2, ConnectorAssumption DEF Reading, ReadLimit, Wrap, At
    <2> QED
      BY <1>k, <2>1, <2>2, <2>3, ReturnKeeps
  <1>15. CASE TimerFires(c)
    BY <1>15 DEF Shapes, TimerFires, At, Ready, ErrorTrue, OriginKept
  <1> QED
    BY <1>1, <1>2, <1>3, <1>4, <1>5, <1>6, <1>7, <1>8,
       <1>9, <1>10, <1>11, <1>12, <1>13, <1>14, <1>15
    DEF CallStep, Downstream, ClientStep

\* Every step keeps the invariant.
LEMMA CInvStep == CInv /\ [Next]_vars => CInv'
  <1> SUFFICES ASSUME CInv, [Next]_vars PROVE CInv'
    OBVIOUS
  <1>1. CASE UNCHANGED vars
    <2>1. Shapes'
      BY <1>1 DEF vars, call, CInv, Shapes
    <2>2. \A k \in Connectors : Sound(k)'
      BY <1>1 DEF vars, CInv, Sound, Ready
    <2>3. \A c \in Calls : CallInv(c)'
      BY <1>1 DEF vars, call, CInv, CallInv, ErrorTrue, OriginKept, Ready, At
    <2> QED
      BY <2>1, <2>2, <2>3 DEF CInv
  <1>2. ASSUME NEW k \in Connectors, New(k) PROVE CInv'
    BY <1>2, NewKeeps
  <1>3. ASSUME NEW c \in Calls, CallStep(c) PROVE CInv'
    <2>1. CallInv(c)'
      BY <1>3, CallKeeps
    <2>2. Shapes'
      BY <1>3, ShapesStep DEF CInv
    <2>3. connector' = connector
      BY <1>3 DEF CallStep, InvokeFails, Invoke, ContextEnds, Downstream, Responds, Redirects,
             ConnectionFails, BodyByte, BodyEnds, BodyFails, ClientStep, Follow, RefuseRedirect,
             UseLast, GivesUp, Finish, TimerFires
    <2>4. \A d \in Calls : d # c => CallInv(d)'
      BY <1>3, OtherCalls DEF CInv
    <2>5. \A k \in Connectors : Sound(k)'
      BY <2>3 DEF CInv, Sound, Ready
    <2> QED
      BY <2>1, <2>2, <2>4, <2>5 DEF CInv
  <1> QED
    BY <1>1, <1>2, <1>3 DEF Next, CallStep

\* The invariant holds in every reachable state.
LEMMA Invariant == Spec => []CInv
  BY CInvInit, CInvStep, PTL DEF Spec

-------------------------------------------------------------------------------
\* Type correctness

\* One case per action of a call.
LEMMA TypeStep == CInv /\ TypeOK /\ [Next]_vars => TypeOK'
  <1> SUFFICES ASSUME CInv, TypeOK, [Next]_vars PROVE TypeOK'
    OBVIOUS
  <1> USE DEF TypeOK
  <1>1. CASE UNCHANGED vars
    BY <1>1 DEF vars, call
  <1>2. ASSUME NEW k \in Connectors, New(k) PROVE TypeOK'
    BY <1>2 DEF New, call
  <1>3. ASSUME NEW c \in Calls, CallStep(c) PROVE TypeOK'
    <2>1. CASE InvokeFails(c)
      BY <1>3, <2>1 DEF InvokeFails, Return, Goto, Errors
    <2>2. CASE Invoke(c)
      BY <1>3, <2>2 DEF Invoke, Send, Goto
    <2>3. CASE ContextEnds(c)
      BY <1>3, <2>3 DEF ContextEnds
    <2>4. CASE Responds(c)
      BY <1>3, <2>4 DEF Responds, Goto
    <2>5. CASE Redirects(c)
      BY <1>3, <2>5 DEF Redirects, Goto
    <2>6. CASE ConnectionFails(c)
      BY <1>3, <2>6 DEF ConnectionFails, Return, Goto, Errors
    <2>7. CASE BodyByte(c)
      BY <1>3, <2>7 DEF BodyByte
    <2>8. CASE BodyEnds(c)
      BY <1>3, <2>8 DEF BodyEnds
    <2>9. CASE BodyFails(c)
      BY <1>3, <2>9 DEF BodyFails, Return, Goto, Errors
    <2>10. CASE Follow(c)
      BY <1>3, <2>10 DEF Follow, Send, Goto
    <2>11. CASE RefuseRedirect(c)
      <3>1. PICK v \in Verdicts(by[c], url[c], hops[c]) \ {"follow", "last"} :
              Return(c, {"upstream", v})
        BY <2>11 DEF RefuseRedirect
      <3>2. v \in {"unsafe", "redirects", "caller"}
        BY <1>3, <2>11, VerdictsOf DEF RefuseRedirect, CInv, CallInv, At
      <3> QED
        BY <1>3, <2>11, <3>1, <3>2 DEF RefuseRedirect, Return, Goto, Errors
    <2>12. CASE UseLast(c)
      BY <1>3, <2>12 DEF UseLast, Goto
    <2>13. CASE GivesUp(c)
      BY <1>3, <2>13 DEF GivesUp, Return, Goto, Causes, Errors
    <2>14. CASE Finish(c)
      BY <1>3, <2>14 DEF Finish, Return, Goto, Errors
    <2>15. CASE TimerFires(c)
      BY <1>3, <2>15 DEF TimerFires
    <2> QED
      BY <1>3, <2>1, <2>2, <2>3, <2>4, <2>5, <2>6, <2>7, <2>8,
         <2>9, <2>10, <2>11, <2>12, <2>13, <2>14, <2>15
      DEF CallStep, Downstream, ClientStep
  <1> QED
    BY <1>1, <1>2, <1>3 DEF Next, CallStep

\* Every variable of a call keeps its type, for any number of calls.
THEOREM TypeCorrect == Spec => []TypeOK
  <1>1. Init => TypeOK
    BY DEF Init, TypeOK, Errors
  <1> QED
    BY <1>1, TypeStep, Invariant, PTL DEF Spec

-------------------------------------------------------------------------------
\* What path.Join leaves

\* How many of a set of positions come up to i
Rank(I, i) == Cardinality({j \in I : j <= i})

\* Positions between two bounds are finitely many.
LEMMA PositionsAreFinite ==
  ASSUME NEW l \in Int, NEW m \in Int, NEW I \in SUBSET (l..m)
  PROVE  IsFiniteSet(I) /\ Cardinality(I) \in Nat
  <1>1. IsFiniteSet(l..m)
    BY FS_Interval
  <1>2. IsFiniteSet(I)
    BY <1>1, FS_Subset
  <1> QED
    BY <1>2, FS_CardinalityType

\* Different positions of a finite set have different ranks.
LEMMA RankIsInjective ==
  ASSUME NEW m \in Nat, NEW I \in SUBSET (1..m), NEW i \in I, NEW k \in I, i # k
  PROVE  Rank(I, i) # Rank(I, k)
  <1>1. IsFiniteSet(I)
    BY 1 \in Int, m \in Int, PositionsAreFinite, Zenon
  <1>2. ASSUME NEW x \in I, NEW y \in I, x < y
        PROVE  Rank(I, x) # Rank(I, y)
    <2> DEFINE X == {j \in I : j <= x}
               Y == {j \in I : j <= y}
    <2>1. X \in SUBSET Y /\ X # Y
      <3>1. y \in Y /\ y \notin X
        BY <1>2
      <3>2. \A j \in 1..m : j <= x => j <= y
        BY <1>2
      <3> QED
        BY <3>1, <3>2
    <2>2. IsFiniteSet(Y)
      BY <1>1, FS_Subset
    <2> HIDE DEF X, Y
    <2>3. Cardinality(Y) # Cardinality(X)
      BY <2>1, <2>2, FS_Subset
    <2> QED
      BY <2>3 DEF Rank, X, Y
  <1>3. i < k \/ k < i
    OBVIOUS
  <1> QED
    BY <1>2, <1>3

\* Every rank up to the size of the set is somebody's, and Nth finds who.
LEMMA NthHasRank ==
  ASSUME NEW m \in Nat, NEW I \in SUBSET (1..m), NEW n \in 1..Cardinality(I)
  PROVE  Nth(I, n) \in I /\ Rank(I, Nth(I, n)) = n
  <1> DEFINE size == Cardinality(I)
             rank == [i \in I |-> Rank(I, i)]
             others == 1..size \ {n}
  <1>1. IsFiniteSet(I) /\ size \in Nat
    BY 1 \in Int, m \in Int, PositionsAreFinite, Zenon
  <1>2. ASSUME NEW i \in I PROVE Rank(I, i) \in 1..size
    <2> DEFINE upto == {j \in I : j <= i}
    <2>1. IsFiniteSet(upto) /\ Cardinality(upto) <= size /\ Cardinality(upto) \in Nat
      BY <1>1, FS_Subset, FS_CardinalityType
    <2>2. i \in upto
      OBVIOUS
    <2>3. Cardinality(upto) # 0
      BY <2>1, <2>2, FS_EmptySet
    <2> HIDE DEF upto, size
    <2>4. Cardinality(upto) \in 1..size
      BY <1>1, <2>1, <2>3
    <2> QED
      BY <2>4 DEF Rank, upto
  <1>3. \E i \in I : Rank(I, i) = n
    <2> SUFFICES ASSUME \A i \in I : Rank(I, i) # n PROVE FALSE
      OBVIOUS
    <2>1. rank \in [I -> others]
      BY <1>2
    <2>2. IsFiniteSet(others) /\ Cardinality(others) = size - 1
      <3>1. IsFiniteSet(1..size) /\ Cardinality(1..size) = size
        <4> HIDE DEF size
        <4> QED
          BY <1>1, FS_Interval
      <3> HIDE DEF size
      <3>2. n \in 1..size
        BY DEF size
      <3> QED
        BY <3>1, <3>2, FS_RemoveElement
    <2>3. Cardinality(others) < Cardinality(I)
      BY <1>1, <2>2
    <2> HIDE DEF others, rank
    <2>4. \E x, y \in I : x # y /\ rank[x] = rank[y]
      BY <1>1, <2>1, <2>2, <2>3, FS_PigeonHole
    <2> QED
      BY <2>4, RankIsInjective DEF rank
  <1> QED
    BY <1>3 DEF Nth, Rank

\* Positions added behind all others do not change who comes n-th.
LEMMA NthOfLower ==
  ASSUME NEW m \in Nat, NEW I \in SUBSET (1..m), NEW l \in Nat, NEW J,
         J = {i \in I : i <= l}, NEW n \in 1..Cardinality(J)
  PROVE  /\ Cardinality(J) \in Nat /\ Cardinality(I) \in Nat
         /\ Cardinality(J) <= Cardinality(I)
         /\ Nth(I, n) = Nth(J, n) /\ Nth(J, n) \in J
  <1>1. /\ J \in SUBSET I /\ J \in SUBSET (1..m)
        /\ IsFiniteSet(I) /\ IsFiniteSet(J)
    <2>1. J \in SUBSET I /\ J \in SUBSET (1..m)
      OBVIOUS
    <2> QED
      BY <2>1, 1 \in Int, m \in Int, PositionsAreFinite, Zenon
  <1>2. /\ Cardinality(J) \in Nat /\ Cardinality(I) \in Nat
        /\ Cardinality(J) <= Cardinality(I)
    BY <1>1, FS_Subset, FS_CardinalityType
  <1>3. n \in 1..Cardinality(I)
    BY <1>2
  <1>4. Nth(J, n) \in J /\ Rank(J, Nth(J, n)) = n
    BY <1>1, NthHasRank
  <1>5. Nth(I, n) \in I /\ Rank(I, Nth(I, n)) = n
    BY <1>3, NthHasRank
  <1>6. ASSUME NEW x \in J PROVE Rank(I, x) = Rank(J, x)
    <2>1. x \in Int /\ l \in Int /\ x <= l
      BY <1>6
    <2>2. \A j \in I : j \in Int /\ (j <= x => j <= l)
      BY <2>1
    <2>3. {j \in I : j <= x} = {j \in J : j <= x}
      BY <2>2
    <2> QED
      BY <2>3 DEF Rank
  <1>7. Rank(I, Nth(J, n)) = n /\ Nth(J, n) \in I
    BY <1>1, <1>4, <1>6
  <1>8. Nth(I, n) = Nth(J, n)
    BY <1>5, <1>7, RankIsInjective
  <1> QED
    BY <1>2, <1>4, <1>8

\* A relative path without ".." leaves of the base what stays of it alone.
LEMMA BaseStays ==
  ASSUME NEW S, NEW b \in Seq(S), NEW r \in Seq(S), \A i \in 1..Len(r) : r[i] # ".."
  PROVE  Staying(b) = {i \in Staying(b \o r) : i <= Len(b)}
  <1> DEFINE p == b \o r
             Up(q, i, j) == {k \in i+1..j : q[k] = ".."}
             Names(q, i, j) == {k \in i+1..j : IsName(q[k])}
  <1>1. /\ Len(b) \in Nat /\ Len(r) \in Nat /\ Len(p) = Len(b) + Len(r)
        /\ \A k \in 1..Len(b) : p[k] = b[k]
        /\ \A k \in Len(b)+1..Len(p) : p[k] = r[k - Len(b)]
    OBVIOUS
  <1>2. \A k \in Len(b)+1..Len(p) : p[k] # ".."
    BY <1>1
  <1> HIDE DEF p
  <1>3. ASSUME NEW i \in 1..Len(b), NEW j \in i..Len(b)
        PROVE  Up(p, i, j) = Up(b, i, j) /\ Names(p, i, j) = Names(b, i, j)
    BY <1>1
  <1>4. ASSUME NEW i \in 1..Len(b), NEW j \in Len(b)..Len(p)
        PROVE  /\ Up(p, i, j) = Up(b, i, Len(b))
               /\ Names(b, i, Len(b)) \in SUBSET Names(p, i, j)
    BY <1>1, <1>2
  <1>5. ASSUME NEW i \in 1..Len(b), NEW j \in Int, NEW q
        PROVE  IsFiniteSet(Names(q, i, j)) /\ Cardinality(Names(q, i, j)) \in Nat
               /\ IsFiniteSet(Up(q, i, j)) /\ Cardinality(Up(q, i, j)) \in Nat
    <2>1. /\ Up(q, i, j) \in SUBSET ((i+1)..j) /\ Names(q, i, j) \in SUBSET ((i+1)..j)
          /\ i + 1 \in Int
      BY <1>1
    <2> QED
      BY <2>1, PositionsAreFinite
  <1>6. ASSUME NEW i \in 1..Len(b)
        PROVE  Stays(b, i) <=> Stays(p, i)
    <2>1. Stays(b, i) <=> /\ IsName(b[i])
                          /\ \A j \in i..Len(b) :
                               Cardinality(Up(b, i, j)) <= Cardinality(Names(b, i, j))
      BY DEF Stays
    <2>2. Stays(p, i) <=> /\ IsName(p[i])
                          /\ \A j \in i..Len(p) :
                               Cardinality(Up(p, i, j)) <= Cardinality(Names(p, i, j))
      BY DEF Stays
    <2>3. p[i] = b[i]
      BY <1>1
    <2>4. ASSUME NEW j \in i..Len(b)
          PROVE  /\ j \in i..Len(p)
                 /\ Cardinality(Up(p, i, j)) = Cardinality(Up(b, i, j))
                 /\ Cardinality(Names(p, i, j)) = Cardinality(Names(b, i, j))
      <3>1. j \in i..Len(p)
        BY <1>1
      <3> QED
        BY <1>3, <3>1
    <2>5. ASSUME NEW j \in i..Len(p), j \notin i..Len(b),
                 Cardinality(Up(b, i, Len(b))) <= Cardinality(Names(b, i, Len(b)))
          PROVE  Cardinality(Up(p, i, j)) <= Cardinality(Names(p, i, j))
      <3>1. j \in Len(b)..Len(p) /\ j \in Int
        BY <1>1, <2>5
      <3>2. /\ Up(p, i, j) = Up(b, i, Len(b))
            /\ Names(b, i, Len(b)) \in SUBSET Names(p, i, j)
        BY <1>4, <3>1
      <3>3. /\ IsFiniteSet(Names(p, i, j))
            /\ Cardinality(Names(p, i, j)) \in Nat /\ Cardinality(Names(b, i, Len(b))) \in Nat
            /\ Cardinality(Up(p, i, j)) \in Nat
        <4>1. Len(b) \in Int
          BY <1>1
        <4> HIDE DEF Up, Names
        <4> QED
          BY <1>5, <3>1, <4>1
      <3> HIDE DEF Up, Names
      <3>4. Cardinality(Names(b, i, Len(b))) <= Cardinality(Names(p, i, j))
        BY <3>2, <3>3, FS_Subset
      <3> QED
        BY <2>5, <3>2, <3>3, <3>4
    <2>6. Len(b) \in i..Len(b)
      BY <1>1
    <2> HIDE DEF Up, Names
    <2> QED
      BY <2>1, <2>2, <2>3, <2>4, <2>5, <2>6
  <1>7. \A i : i \in 1..Len(b) <=> i \in 1..Len(p) /\ i <= Len(b)
    BY <1>1
  <1> QED
    BY <1>6, <1>7 DEF Staying, p

\* So the base's own path begins the path of the request.
LEMMA JoinedBelowBase ==
  ASSUME NEW S, NEW b \in Seq(S), NEW r \in Seq(S), \A i \in 1..Len(r) : r[i] # ".."
  PROVE  IsPrefix(Joined(b, <<>>), Joined(b, r))
  <1> DEFINE p == b \o r
             I == Staying(p)
             J == Staying(b)
             short == Joined(b, <<>>)
             long == Joined(b, r)
  <1>1. b \o <<>> = b
    OBVIOUS
  <1>2. /\ Len(b) \in Nat /\ Len(p) \in Nat
        /\ \A k \in 1..Len(b) : p[k] = b[k]
    OBVIOUS
  <1>3. /\ J = {i \in I : i <= Len(b)} /\ I \in SUBSET (1..Len(p)) /\ J \in SUBSET (1..Len(b))
    BY BaseStays DEF Staying
  <1>4. short = [n \in 1..Cardinality(J) |-> b[Nth(J, n)]]
    BY <1>1 DEF Joined
  <1>5. long = [n \in 1..Cardinality(I) |-> p[Nth(I, n)]]
    BY DEF Joined
  <1> HIDE DEF p, I, J, short, long
  <1>6. /\ Cardinality(J) \in Nat /\ Cardinality(I) \in Nat /\ Cardinality(J) <= Cardinality(I)
    <2>1. J \in SUBSET I
      BY <1>3
    <2>2. /\ IsFiniteSet(I) /\ Cardinality(I) \in Nat
          /\ IsFiniteSet(J) /\ Cardinality(J) \in Nat
      <3>1. 1 \in Int /\ Len(p) \in Int /\ Len(b) \in Int
        BY <1>2
      <3> QED
        BY <1>3, <3>1, PositionsAreFinite, Zenon
    <2> QED
      BY <2>1, <2>2, FS_Subset
  <1>7. ASSUME NEW n \in 1..Cardinality(J)
        PROVE  n \in 1..Cardinality(I) /\ short[n] = long[n]
    <2>1. n \in 1..Cardinality(I)
      BY <1>6
    <2>2. Nth(I, n) = Nth(J, n) /\ Nth(J, n) \in J
      <3> DEFINE l == Len(b)
                 m == Len(p)
      <3>1. J = {i \in I : i <= l} /\ I \in SUBSET (1..m)
        BY <1>3
      <3>2. l \in Nat /\ m \in Nat
        BY <1>2
      <3> HIDE DEF l, m
      <3> QED
        BY <3>1, <3>2, NthOfLower, ZenonT(40)
    <2>3. p[Nth(I, n)] = b[Nth(J, n)]
      BY <1>2, <1>3, <2>2
    <2> QED
      BY <1>4, <1>5, <2>1, <2>3
  <1>8. Len(short) = Cardinality(J) /\ Len(long) = Cardinality(I)
    BY <1>4, <1>5, <1>6
  <1>9. SubSeq(short, 1, Len(short)) = SubSeq(long, 1, Len(short))
    <2>1. SubSeq(short, 1, Len(short)) = [n \in 1..Cardinality(J) |-> short[n]]
      BY <1>4, <1>6, <1>8
    <2>2. SubSeq(long, 1, Len(short)) = [n \in 1..Cardinality(J) |-> long[n]]
      BY <1>5, <1>6, <1>8
    <2> QED
      BY <1>7, <2>1, <2>2
  <1> QED
    BY <1>6, <1>8, <1>9 DEF IsPrefix, short, long

-------------------------------------------------------------------------------
\* The first request

Underway == {"sending", "redirected", "reading"}

\* The first request started below the base URL, and a call under way has sent
\* one, so that no redirect is taken for the first.
BelowBase(c) == FirstBelowBase(c) /\ (stage[c] \in Underway => hops[c] >= 1)

BInv == \A c \in Calls : BelowBase(c)

\* The first request of a call goes below its connector's base URL.
LEMMA TargetIsBelowBase ==
  ASSUME NEW k \in Connectors, connector[k].base \in URL, NEW q \in Requests, ~Refused(q)
  PROVE  IsPrefix(Joined(connector[k].base.path, <<>>), Target(k, q).path)
  <1> DEFINE b == connector[k].base
             joined == Joined(b.path, q.path)
  <1>1. b.path \in Seq(STRING) /\ q.path \in Seq(STRING)
    BY ConnectorAssumption DEF URL
  <1>2. \A i \in 1..Len(q.path) : q.path[i] # ".."
    BY <1>1 DEF Refused, Upward
  <1>3. IsPrefix(Joined(b.path, <<>>), joined)
    BY <1>1, <1>2, JoinedBelowBase
  <1> HIDE DEF joined
  <1>4. [b EXCEPT !.path = joined].path = joined
    BY DEF URL
  <1>5. Target(k, q) = [b EXCEPT !.path = joined]
    BY DEF Target, joined
  <1> QED
    BY <1>3, <1>4, <1>5

\* All steps of a call but sending leave what was sent, and none of them
\* starts a call.
LEMMA SendsNothing ==
  ASSUME Shapes, NEW c \in Calls, CallStep(c), ~Invoke(c), ~Follow(c)
  PROVE  /\ UNCHANGED <<connector, sent, hops>>
         /\ by' = [by EXCEPT ![c] = by'[c]]
         /\ ~At(c, "idle") => by' = by
         /\ stage'[c] \in Underway => stage[c] \in Underway
         /\ \A d \in Calls \ {c} : stage'[d] = stage[d]
  <1> USE DEF Underway, At, Goto, Return, Shapes
  <1>1. CASE InvokeFails(c)
    BY <1>1 DEF InvokeFails
  <1>2. CASE ContextEnds(c) \/ TimerFires(c) \/ BodyByte(c) \/ BodyEnds(c)
    BY <1>2 DEF ContextEnds, TimerFires, BodyByte, BodyEnds
  <1>3. CASE Responds(c) \/ Redirects(c) \/ ConnectionFails(c)
    BY <1>3 DEF Responds, Redirects, ConnectionFails
  <1>4. CASE BodyFails(c) \/ Finish(c)
    BY <1>4 DEF BodyFails, Finish
  <1>5. CASE RefuseRedirect(c) \/ UseLast(c)
    BY <1>5 DEF RefuseRedirect, UseLast
  <1>6. CASE GivesUp(c)
    BY <1>6 DEF GivesUp
  <1> QED
    BY <1>1, <1>2, <1>3, <1>4, <1>5, <1>6 DEF CallStep, Downstream, ClientStep

\* No step sends a first request elsewhere.
LEMMA BInvStep == CInv /\ BInv /\ [Next]_vars => BInv'
  <1> SUFFICES ASSUME CInv, BInv, [Next]_vars PROVE BInv'
    OBVIOUS
  <1>s. Shapes /\ (\A k \in Connectors : Sound(k)) /\ (\A c \in Calls : CallInv(c))
    BY DEF CInv
  <1>1. CASE UNCHANGED vars
    BY <1>1 DEF vars, call, BInv, BelowBase, FirstBelowBase
  <1>2. ASSUME NEW k \in Connectors, New(k) PROVE BInv'
    <2> SUFFICES ASSUME NEW c \in Calls PROVE BelowBase(c)'
      BY DEF BInv
    <2>1. UNCHANGED <<stage, by, sent, hops>> /\ ~Ready(k)
      BY <1>2 DEF New, call, NoConnector, Ready
    <2>2. At(c, "idle") \/ connector'[by[c]] = connector[by[c]]
      <3>1. ~At(c, "idle") => by[c] \in Connectors /\ by[c] # k
        <4>1. CallInv(c)
          BY <1>s
        <4> QED
          BY <2>1, <4>1 DEF CallInv, Ready
      <3>2. \A l \in Connectors : l # k => connector'[l] = connector[l]
        BY <1>s, <1>2 DEF New, Shapes
      <3> QED
        BY <3>1, <3>2
    <2>3. At(c, "idle") => hops[c] = 0
      BY <1>s DEF CallInv
    <2> QED
      BY <2>1, <2>2, <2>3 DEF BInv, BelowBase, FirstBelowBase
  <1>3. ASSUME NEW c \in Calls, CallStep(c) PROVE BInv'
    <2> SUFFICES ASSUME NEW d \in Calls PROVE BelowBase(d)'
      BY DEF BInv
    <2>1. CASE ~Invoke(c) /\ ~Follow(c)
      <3>1. /\ UNCHANGED <<connector, sent, hops>>
            /\ by'[d] = by[d] \/ At(d, "idle")
            /\ stage'[d] \in Underway => stage[d] \in Underway
        BY <1>s, <1>3, <2>1, SendsNothing DEF Shapes
      <3>2. At(d, "idle") => hops[d] = 0
        BY <1>s DEF CallInv
      <3> QED
        BY <3>1, <3>2 DEF BInv, BelowBase, FirstBelowBase
    <2>2. CASE d # c
      <3>1. CASE Invoke(c) \/ Follow(c)
        BY <1>s, <2>2, <3>1 DEF Shapes, Invoke, Follow, Send, Goto, BInv, BelowBase, FirstBelowBase
      <3> QED
        BY <2>1, <3>1
    <2>3. CASE d = c /\ Invoke(c)
      <3>1. PICK k \in Connectors, q \in Requests :
              Ready(k) /\ ~Refused(q) /\ by' = [by EXCEPT ![c] = k] /\ Send(c, Target(k, q))
        BY <2>3 DEF Invoke
      <3>2. sent[c] = {} /\ hops[c] = 0
        BY <1>s, <2>3 DEF Invoke, CallInv
      <3>3. UNCHANGED connector /\ by'[c] = k /\ sent'[c] = {Target(k, q)} /\ hops'[c] = 1
        BY <1>s, <2>3, <3>1, <3>2 DEF Invoke, Send, Shapes
      <3>4. IsPrefix(Joined(connector[k].base.path, <<>>), Target(k, q).path)
        BY <1>s, <3>1, TargetIsBelowBase DEF Sound
      <3> QED
        BY <2>3, <3>3, <3>4 DEF BelowBase, FirstBelowBase
    <2>4. CASE d = c /\ Follow(c)
      <3>1. hops[c] \in Nat /\ hops[c] >= 1
        BY <1>s, <2>4 DEF Shapes, Follow, At, BInv, BelowBase, Underway
      <3>2. hops'[c] = hops[c] + 1
        BY <1>s, <2>4 DEF Follow, Send, Shapes
      <3> QED
        BY <2>4, <3>1, <3>2 DEF BelowBase, FirstBelowBase
    <2> QED
      BY <2>1, <2>2, <2>3, <2>4
  <1> QED
    BY <1>1, <1>2, <1>3 DEF Next, CallStep

-------------------------------------------------------------------------------
\* What the invariant implies

\* Whatever path a tool asks for and wherever downstream redirects, Invoke
\* sends at most ten requests, all of them to the origin its connector was
\* configured with, and the first below the path it was configured with.
THEOREM StaysInOriginHolds == Spec => []StaysInOrigin
  <1>1. Init => BInv
    BY DEF Init, BInv, BelowBase, FirstBelowBase, Underway
  <1>2. CInv /\ BInv => StaysInOrigin
    BY DEF CInv, CallInv, BInv, BelowBase, StaysInOrigin
  <1> QED
    BY <1>1, <1>2, BInvStep, Invariant, PTL DEF Spec

\* A redirect is refused for a cause in this connector's own configuration,
\* whatever other connectors were built from the same http.Client.
THEOREM RefusedForOwnCauseHolds == Spec => []RefusedForOwnCause
  <1>1. ASSUME CInv, NEW c \in Calls
        PROVE  /\ "unsafe" \in err[c] => ~Inside(connector[by[c]].base, url[c])
               /\ "redirects" \in err[c] => hops[c] = 10
               /\ "caller" \in err[c] => connector[by[c]].own
    BY <1>1 DEF CInv, CallInv, ErrorTrue
  <1>2. CInv => RefusedForOwnCause
    BY <1>1 DEF RefusedForOwnCause
  <1> QED
    BY <1>2, Invariant, PTL

\* A response that Invoke returns is whole and within the limit, for every
\* limit but the largest int64, and ErrResponseTooLarge is the truth.
THEOREM ResponseWholeHolds == Spec => []ResponseWhole
  <1>1. CInv => ResponseWhole
    BY DEF CInv, CallInv, ErrorTrue, ResponseWhole
  <1> QED
    BY <1>1, Invariant, PTL

===============================================================================
