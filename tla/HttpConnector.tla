---------------------------- MODULE HttpConnector ----------------------------
(***************************************************************************)
(* connector/httpconnector: connectors built by New, some of them from one *)
(* http.Client of the caller, and the downstream calls Invoke makes with   *)
(* them.  net/http is external: its Client sends, follows redirects while  *)
(* CheckRedirect lets it, and ends everything when its Timeout passes.     *)
(*                                                                         *)
(* A path is its sequence of segments.  Hosts are compared without case: a *)
(* host stands for all its spellings, and 0 for a port that is not given.  *)
(* A body is the number of bytes read of it so far.  An error is the set   *)
(* of what errors.Is, or its text, tells of it.  Header fields are left    *)
(* out.                                                                    *)
(***************************************************************************)
EXTENDS Integers, Sequences, FiniteSets, SequencesExt

CONSTANTS
  Connectors,  \* what New may build
  Configs,     \* records [base, timeout, limit, client]; client : the
               \* caller's http.Client is given
  Clients,     \* what that client may be: records [timeout, policy]
  Calls,       \* calls of Invoke
  Requests,    \* records [path, absolute, encodes]
  Locations,   \* where downstream may redirect to
  MaxInt       \* the largest int64

DefaultTimeout == 5
DefaultLimit == 3   \* stands for the 1 MiB of the code

URL == [scheme : STRING, host : STRING, port : Nat, user : BOOLEAN, path : Seq(STRING)]

Caller == "caller"   \* the redirect policy the caller's client came with

ASSUME ConnectorAssumption ==
  /\ MaxInt \in Nat /\ DefaultLimit < MaxInt
  /\ Caller \notin Connectors
  /\ \A c \in Configs : c.base \in URL /\ c.limit \in -MaxInt..MaxInt
  /\ \A q \in Requests : q.path \in Seq(STRING)
  /\ Clients \subseteq [timeout : Int, policy : {<<>>, <<Caller>>}]

VARIABLES
  shared,     \* the caller's http.Client, which several New may be given
  connector,  \* each Connector
  stage,      \* where each call is
  by,         \* the connector it uses
  url,        \* the request being sent, or the redirect's Location
  sent,       \* every URL a request of this call was sent to
  hops,       \* how many that were: len(via) at the next redirect
  timer,      \* http.Client.Timeout: "off", "set" or "fired"
  ctx,        \* the caller's context: "live", "deadline" or "canceled"
  status,     \* "none", "2xx" or "other"
  read,       \* bytes of the response read
  ended,      \* the response's end was seen
  err         \* the error Invoke returns; nil is {}

call == <<stage, by, url, sent, hops, timer, ctx, status, read, ended, err>>
vars == <<shared, connector, call>>

At(c, s) == stage[c] = s
Goto(c, s) == stage' = [stage EXCEPT ![c] = s]

NoConnector == [state |-> "none"]
Ready(k) == connector[k].state = "ready"

\* int64 arithmetic
Wrap(n) == IF n > MaxInt THEN n - 2 * (MaxInt + 1) ELSE n

-------------------------------------------------------------------------------
\* New

\* The base URL is http or https, names a host and no user
BaseAccepted(base) ==
  base.scheme \in {"http", "https"} /\ ~base.user /\ base.host # ""

OrDefault(n, default) == IF n <= 0 THEN default ELSE n

\* Mutated form of CloneHTTPClient: the caller's client is used without a
\* timeout of its own.
Mut_NoTimeout(config) ==
  IF config.client THEN shared ELSE [timeout |-> OrDefault(config.timeout, DefaultTimeout), policy |-> <<>>]

\* cloneHTTPClient : a new client, or a copy of the caller's
CloneHTTPClient(config) ==
  LET timeout == OrDefault(config.timeout, DefaultTimeout)
  IN IF config.client
     THEN [shared EXCEPT !.timeout = OrDefault(@, timeout)]
     ELSE [timeout |-> timeout, policy |-> <<>>]

\* New : connector k with its own policy before the client's
Build(k, config) ==
  LET client == CloneHTTPClient(config)
  IN [state |-> "ready", base |-> config.base, own |-> config.client,
      limit |-> OrDefault(config.limit, DefaultLimit),
      timeout |-> client.timeout, policy |-> <<k>> \o client.policy]

\* Mutated form of New: the caller's client is changed and not copied.
Mut_SharedClient(k) ==
  /\ connector[k] = NoConnector
  /\ \E config \in Configs :
       /\ BaseAccepted(config.base)
       /\ connector' = [connector EXCEPT ![k] = Build(k, config)]
       /\ shared' = IF config.client THEN [shared EXCEPT !.policy = <<k>> \o @] ELSE shared
  /\ UNCHANGED call

New(k) ==
  /\ connector[k] = NoConnector
  /\ \E config \in Configs :
       connector' = [connector EXCEPT ![k] =
         IF BaseAccepted(config.base) THEN Build(k, config) ELSE [state |-> "refused"]]
  /\ UNCHANGED <<shared, call>>

-------------------------------------------------------------------------------
\* secureRedirectPolicy

\* effectivePort
EffectivePort(u) ==
  IF u.port # 0 THEN u.port
  ELSE IF u.scheme = "http" THEN 80
  ELSE IF u.scheme = "https" THEN 443
  ELSE 0

\* Mutated form of SameOrigin: the port is not compared.
Mut_AnyPort(a, b) == a.scheme = b.scheme /\ a.host = b.host

\* sameOrigin
SameOrigin(a, b) ==
  /\ a.scheme = b.scheme
  /\ a.host = b.host
  /\ EffectivePort(a) = EffectivePort(b)

MaxVia == 10

\* What connector k's policy says of a redirect to u after n requests
Objection(k, u, n) ==
  IF u.user \/ ~SameOrigin(connector[k].base, u) THEN "unsafe"
  ELSE IF n >= MaxVia THEN "redirects"
  ELSE "none"

\* CheckRedirect of connector k: its own policy, then the caller's, which may
\* follow, refuse, or return http.ErrUseLastResponse
Verdicts(k, u, n) ==
  LET policy == connector[k].policy
      objects == {i \in DOMAIN policy :
                    policy[i] # Caller /\ Objection(policy[i], u, n) # "none"}
      first == CHOOSE i \in objects : \A j \in objects : i <= j
  IN IF objects # {} THEN {Objection(policy[first], u, n)}
     ELSE IF \E i \in DOMAIN policy : policy[i] = Caller
          THEN {"follow", "caller", "last"}
          ELSE {"follow"}

-------------------------------------------------------------------------------
\* Invoke, up to sending

\* path.Join keeps a segment that is a name, unless a later ".." takes it back:
\* one up to which there were more ".." than names since.
IsName(s) == s \notin {"", ".", ".."}

Stays(p, i) ==
  /\ IsName(p[i])
  /\ \A j \in i..Len(p) :
       Cardinality({k \in i+1..j : p[k] = ".."}) <= Cardinality({k \in i+1..j : IsName(p[k])})

Staying(p) == {i \in 1..Len(p) : Stays(p, i)}

\* The n-th of a set of positions
Nth(I, n) == CHOOSE i \in I : Cardinality({j \in I : j <= i}) = n

\* path.Join : the segments of both that stay, in their order
Joined(base, relative) ==
  LET p == base \o relative
      I == Staying(p)
  IN [n \in 1..Cardinality(I) |-> p[Nth(I, n)]]

\* Segments that are or, read with "\" as a separator, contain ".."
Upward == {"..", "a\\.."}

\* resolveURL returns an error: the path names a host or climbs
Refused(q) ==
  q.absolute \/ \E i \in DOMAIN q.path : q.path[i] \in Upward

\* resolveURL : the base URL with the request's path below its own
Target(k, q) == [connector[k].base EXCEPT !.path = Joined(@, q.path)]

Send(c, u) ==
  /\ url' = [url EXCEPT ![c] = u]
  /\ sent' = [sent EXCEPT ![c] = @ \union {u}]
  /\ hops' = [hops EXCEPT ![c] = @ + 1]
  /\ Goto(c, "sending")

Return(c, e) ==
  /\ err' = [err EXCEPT ![c] = e]
  /\ Goto(c, "returned")

\* resolveURL or marshalBody fails: nothing is sent
InvokeFails(c) ==
  /\ At(c, "idle")
  /\ \E k \in Connectors, q \in Requests :
       /\ Ready(k)
       /\ Refused(q) \/ ~q.encodes
       /\ by' = [by EXCEPT ![c] = k]
       /\ Return(c, IF Refused(q) THEN {"path"} ELSE {"body"})
  /\ UNCHANGED <<shared, connector, url, sent, hops, timer, ctx, status, read, ended>>

\* client.Do starts, with the client's deadline
Invoke(c) ==
  /\ At(c, "idle")
  /\ \E k \in Connectors, q \in Requests :
       /\ Ready(k)
       /\ ~Refused(q) /\ q.encodes
       /\ by' = [by EXCEPT ![c] = k]
       /\ timer' = [timer EXCEPT ![c] = IF connector[k].timeout > 0 THEN "set" ELSE "off"]
       /\ Send(c, Target(k, q))
  /\ UNCHANGED <<shared, connector, ctx, status, read, ended, err>>

-------------------------------------------------------------------------------
\* Downstream and http.Client

\* A response that is no redirect: Do returns it
Responds(c) ==
  /\ At(c, "sending")
  /\ \E s \in {"2xx", "other"} : status' = [status EXCEPT ![c] = s]
  /\ Goto(c, "reading")
  /\ UNCHANGED <<shared, connector, by, url, sent, hops, timer, ctx, read, ended, err>>

\* A redirect
Redirects(c) ==
  /\ At(c, "sending")
  /\ \E l \in Locations : url' = [url EXCEPT ![c] = l]
  /\ Goto(c, "redirected")
  /\ UNCHANGED <<shared, connector, by, sent, hops, timer, ctx, status, read, ended, err>>

\* The connection fails
ConnectionFails(c) ==
  /\ At(c, "sending")
  /\ Return(c, {"upstream"})
  /\ UNCHANGED <<shared, connector, by, url, sent, hops, timer, ctx, status, read, ended>>

Follow(c) ==
  /\ At(c, "redirected")
  /\ "follow" \in Verdicts(by[c], url[c], hops[c])
  /\ Send(c, url[c])
  /\ UNCHANGED <<shared, connector, by, timer, ctx, status, read, ended, err>>

\* CheckRedirect returns an error: Do closes the body and returns that error
RefuseRedirect(c) ==
  /\ At(c, "redirected")
  /\ \E v \in Verdicts(by[c], url[c], hops[c]) \ {"follow", "last"} :
       Return(c, {"upstream", v})
  /\ UNCHANGED <<shared, connector, by, url, sent, hops, timer, ctx, status, read, ended>>

\* It returns http.ErrUseLastResponse: Do returns the redirect as the response
UseLast(c) ==
  /\ At(c, "redirected")
  /\ "last" \in Verdicts(by[c], url[c], hops[c])
  /\ status' = [status EXCEPT ![c] = "other"]
  /\ Goto(c, "reading")
  /\ UNCHANGED <<shared, connector, by, url, sent, hops, timer, ctx, read, ended, err>>

\* Mutated form of ReadLimit: the byte that tells too much is not read.
Mut_NoExtraByte(k) == connector[k].limit

\* What io.LimitReader lets through at most
ReadLimit(k) == Wrap(connector[k].limit + 1)

Reading(c) == At(c, "reading") /\ ~ended[c] /\ read[c] < ReadLimit(by[c])

BodyByte(c) ==
  /\ Reading(c)
  /\ read' = [read EXCEPT ![c] = @ + 1]
  /\ UNCHANGED <<shared, connector, stage, by, url, sent, hops, timer, ctx, status, ended, err>>

BodyEnds(c) ==
  /\ Reading(c)
  /\ ended' = [ended EXCEPT ![c] = TRUE]
  /\ UNCHANGED <<shared, connector, stage, by, url, sent, hops, timer, ctx, status, read, err>>

\* The connection breaks in the body
BodyFails(c) ==
  /\ Reading(c)
  /\ Return(c, {"read"})
  /\ UNCHANGED <<shared, connector, by, url, sent, hops, timer, ctx, status, read, ended>>

\* Why waiting may end: the caller's context, or the client's timeout, which
\* says that it is context.DeadlineExceeded as well
Causes(c) == ({ctx[c]} \ {"live"}) \union (IF timer[c] = "fired" THEN {"deadline"} ELSE {})

\* Do or the body's reader returns because of it
GivesUp(c) ==
  /\ At(c, "sending") \/ Reading(c)
  /\ \E cause \in Causes(c) :
       Return(c, {IF At(c, "sending") THEN "upstream" ELSE "read", cause})
  /\ UNCHANGED <<shared, connector, by, url, sent, hops, timer, ctx, status, read, ended>>

\* The body was read: Invoke judges size, status and JSON, in this order
Finish(c) ==
  /\ At(c, "reading") /\ ~Reading(c)
  /\ \E json \in BOOLEAN :
       Return(c, IF read[c] > connector[by[c]].limit THEN {"too_large"}
                 ELSE IF status[c] # "2xx" THEN {"upstream", "status"}
                 ELSE IF read[c] > 0 /\ ~json THEN {"upstream", "json"}
                 ELSE {})
  /\ UNCHANGED <<shared, connector, by, url, sent, hops, timer, ctx, status, read, ended>>

TimerFires(c) ==
  /\ stage[c] \in {"sending", "redirected", "reading"}
  /\ timer[c] = "set"
  /\ timer' = [timer EXCEPT ![c] = "fired"]
  /\ UNCHANGED <<shared, connector, stage, by, url, sent, hops, ctx, status, read, ended, err>>

\* The call's own deadline passes, or its client leaves
ContextEnds(c) ==
  /\ ~At(c, "returned") /\ ctx[c] = "live"
  /\ \E cause \in {"deadline", "canceled"} : ctx' = [ctx EXCEPT ![c] = cause]
  /\ UNCHANGED <<shared, connector, stage, by, url, sent, hops, timer, status, read, ended, err>>

-------------------------------------------------------------------------------

Init ==
  /\ shared \in Clients
  /\ connector = [k \in Connectors |-> NoConnector]
  /\ stage = [c \in Calls |-> "idle"]
  /\ by = [c \in Calls |-> Caller]
  /\ url = [c \in Calls |-> <<>>]
  /\ sent = [c \in Calls |-> {}]
  /\ hops = [c \in Calls |-> 0]
  /\ timer = [c \in Calls |-> "off"]
  /\ ctx = [c \in Calls |-> "live"]
  /\ status = [c \in Calls |-> "none"]
  /\ read = [c \in Calls |-> 0]
  /\ ended = [c \in Calls |-> FALSE]
  /\ err = [c \in Calls |-> {}]

Downstream(c) ==
  \/ Responds(c) \/ Redirects(c) \/ ConnectionFails(c)
  \/ BodyByte(c) \/ BodyEnds(c) \/ BodyFails(c)

ClientStep(c) ==
  Follow(c) \/ RefuseRedirect(c) \/ UseLast(c) \/ GivesUp(c) \/ Finish(c)

Next ==
  \/ \E k \in Connectors : New(k)
  \/ \E c \in Calls :
       \/ InvokeFails(c) \/ Invoke(c) \/ ContextEnds(c)
       \/ Downstream(c) \/ ClientStep(c) \/ TimerFires(c)

\* The program's own steps go on and a timer that was set fires.  Downstream
\* need never answer, and the caller's context need never end.
Fairness ==
  \A c \in Calls : WF_vars(ClientStep(c)) /\ WF_vars(TimerFires(c))

Spec == Init /\ [][Next]_vars
FairSpec == Spec /\ Fairness

-------------------------------------------------------------------------------
\* Properties

Errors == SUBSET {"path", "body", "upstream", "unsafe", "redirects", "caller",
                  "status", "json", "read", "deadline", "canceled", "too_large"}

\* Every variable of a call keeps its type.
TypeOK ==
  /\ stage \in [Calls -> {"idle", "sending", "redirected", "reading", "returned"}]
  /\ by \in [Calls -> Connectors \union {Caller}]
  /\ hops \in [Calls -> Nat]
  /\ timer \in [Calls -> {"off", "set", "fired"}]
  /\ ctx \in [Calls -> {"live", "deadline", "canceled"}]
  /\ status \in [Calls -> {"none", "2xx", "other"}]
  /\ read \in [Calls -> Nat]
  /\ ended \in [Calls -> BOOLEAN]
  /\ err \in [Calls -> Errors]

Inside(base, u) == u.scheme = base.scheme /\ u.host = base.host /\ ~u.user
                   /\ EffectivePort(u) = EffectivePort(base)

\* What was sent for c stayed with the connector's origin
OriginKept(c) == hops[c] <= 10 /\ \A u \in sent[c] : Inside(connector[by[c]].base, u)

\* It started below the connector's base URL
FirstBelowBase(c) ==
  hops[c] = 1 =>
    \A u \in sent[c] : IsPrefix(Joined(connector[by[c]].base.path, <<>>), u.path)

\* Whatever path a tool asks for and wherever downstream redirects, Invoke
\* sends at most ten requests, all to the origin the connector was configured
\* with, and the first of them below the path it was configured with.
StaysInOrigin == \A c \in Calls : OriginKept(c) /\ FirstBelowBase(c)

\* A redirect is refused for a reason in this connector's own configuration,
\* also when another connector was built from the same http.Client before or
\* since: it left this base's origin, ten requests were sent, or this
\* connector was given the caller's client and that has a policy.
RefusedForOwnCause ==
  \A c \in Calls :
    LET k == connector[by[c]] IN
      /\ "unsafe" \in err[c] => ~Inside(k.base, url[c])
      /\ "redirects" \in err[c] => hops[c] = 10
      /\ "caller" \in err[c] => k.own

\* A response that Invoke returns is one whose end was seen, of at most the
\* configured size; and the size is what an ErrResponseTooLarge is about.
\* (A limit of MaxInt is the exception: see the README.)
ResponseWhole ==
  \A c \in Calls :
    At(c, "returned") /\ connector[by[c]].limit < MaxInt =>
      LET limit == connector[by[c]].limit IN
        /\ err[c] = {} => ended[c] /\ read[c] <= limit /\ status[c] = "2xx"
        /\ "too_large" \in err[c] <=> read[c] > limit

\* Every Invoke returns, whatever downstream does: keep silent, send without
\* end or redirect in a circle, and whether or not its caller has a deadline.
InvokeReturns == \A c \in Calls : ~At(c, "idle") ~> At(c, "returned")

===============================================================================
