# EACG: formal models

EACG is a Go library for an enterprise gateway that offers read-only business
capabilities as MCP tools over stateless HTTP. This directory holds TLA+ models
of it, TLC configurations that check them on small instances, and proofs that
TLAPS checks for every value of the constants. `PROJECT.json` lists which lines
each definition stands for, what each run checks, and which hazard of the code
each property is for. All names of operators follow the Go names where they can.

- [Inventory](#inventory)
- [Modules and how they correspond to the code](#modules)
- [Runs, bounds and fairness](#runs)
- [What is proved](#proofs)
- [Where code and documentation disagree](#findings)
- [Only model-checked, and not modelled](#limits)
- [Plan](#plan)

<a name="inventory"></a>
## Inventory

A request travels through these parts, outermost first; one goroutine serves it.

```
net/http.Server (App.Run)
  requestContextMiddleware, CrossOriginProtection
    credentialHeaderMiddleware -> SDK RequireBearerToken -> adaptAuthenticator
        -> APIKeyAuthenticator / JWTAuthenticator -> APIKeyStore
      protocolMiddleware
        SDK Streamable HTTP handler -> New's getServer -> buildServer
            -> Registry.Visible           (tools/list)
            -> registerTool's handler     (tools/call)
                -> Engine.Execute -> Registry.GetByName, typedCapability.Execute,
                   secureOutput, audit.Sink.Write
```

| Component | State | Operations | Interacts by | What is hard | What makes it correct |
|---|---|---|---|---|---|
| **App** (`app.go`) | `handler`, `ready`, `server` under `mu`; a goroutine and `errChannel` per `Run` | `RegisterCapability`, `Handler`, `Run`, `Stop`, `/health`, `/ready` | calls Registry and mcphttp; goroutine and channel; `http.Server` | `Run` takes `mu` twice; `Stop` may fall between; `Shutdown` makes `ListenAndServe` return before requests are drained; nobody may read the channel | one server; a reported shutdown is complete; the goroutine ends; the tools served never change |
| **Registry** (`registry/registry.go`) | `byID`, `byName`, `ordered`, `frozen` under an RWMutex | `Register`, `Freeze`, `GetByName`, `Visible`, `List` | shared by registering goroutines, `Handler`, and every request | validation before the lock, three indexes that must agree, batches that fail half-way | the indexes agree; accepted items stay; frozen means frozen; readers see no half-made registration |
| **Predicates** (`identity/principal.go`, `capability/capability.go`) | none | `Principal.Valid`, `HasAllRoles`, `Descriptor.Validate`, `AllowsPrincipal` | called by Registry and Engine | decided twice, in list and call | both decisions agree |
| **Execution engine** (`execution/engine.go`) with the typed capability and tool handler | per call: `event`, `err`, a context with timeout, deferred functions | `Execute`, `secureOutput`, `errorCode`; `toolError` | calls handler and audit sink; contexts from HTTP | deadline, client and handler race; panics; two classifications of one error; audit after cancellation | only authorised handlers run, once; exactly one audit event; the caller is told what was audited; contexts end |
| **Protocol middleware** (`protocol/mcphttp/handler.go`) | none between requests; consumes and restores the body | `normalizeProtocolVersions`, `protocolMiddleware`, `readLegacyEnvelope`, `resultPolicyMiddleware` | between authentication and the SDK | the version may be in header, body or both; limits at a boundary | what is forwarded was negotiated; the body is whole; the limit is exact |
| **Authentication** (`identity/`, `mcphttp`) | the key store under an RWMutex; the clock | `Put`, `LookupByDigest`, both `Authenticate`, `adaptAuthenticator`, header middlewares | middleware chain; store shared with administrators | three readings of the clock; keys change between steps; leeway | admitted only as the one credential's holder, never past an expiry; refused only for a cause |
| **Output policy** (`secureOutput`, `redactSecrets`) | the decoded document | limit, white list, redaction | called by `Execute` | recursion through arrays and nested fields in a map's random order; the warning is carried up | no secret leaves, all else does |
| **HTTP connector** (`connector/httpconnector`) | base URL, limit, a copy of an `http.Client` | `New`, `Invoke`, `CheckRedirect` | called by business handlers; `http.Client` | several connectors made from one client; redirects; a limit read with one byte more; endless bodies | stays inside its origin; answers whole or not at all; returns |
| **Client program** (`cmd/eacg-client`) | what `runClient` has discovered and listed; per request the body while it is traced | `runClient`, `strictTransport.RoundTrip` | HTTP to the gateway, each request to a server of its own | rights change between its requests; its checks must match the server's; the trace reads the body | its exit code is the truth; strict requests pass; tracing is transparent |
| **Audit sinks** (`audit/audit.go`) | a log or a slice | `Write` | called by the engine | context already done | see the engine |
| **Example server, token tool** (`cmd/`) | none of its own | wiring, configuration | | | |

<a name="modules"></a>
## Modules and how they correspond to the code

**`Capability`** – predicates only: `Valid`, `HasAllRoles`, `Validates`,
`AllowsPrincipal` and `NormalizedIdentityRequirement`, used by `Registry`,
`Execution` and `Authentication`. A string is empty or not, which is all the
code asks; names and IDs are numbers so that they can be sorted.

**`Registry`** – the four fields of the Go struct and its RWMutex. A `Register`
call is `RejectInvalid` before the lock or `RegisterLock`, then `RegisterRefused`
(an error) or `RegisterInsert` (both maps) and `RegisterOrder` (append, sort,
unlock). Splitting the critical section at its assignments makes the lock do the
work in the model that it does in the code: `CanRLock` mutated to `TRUE` breaks
the properties. The lock has Go's writer preference (`Lock` is announced in
`writer` before the readers inside have left). `StableSorts(s)` is the set of
results a stable sort by name may have. `RegisterCapability` is the loop around
it, over a list of items. `Visible` filters the ordered list; the model returns
the set it selects, since order is a property of the list itself.

**`Execution`** – any number of calls side by side. A label of `pc` is the point
the call has reached in `Execute`: the early returns (`Refuse`), the context with
timeout (`Admit`), the typed capability (`RejectInput`, `EnterHandler`,
`RejectOutput`), the four ways a business handler ends (`HandlerReturns`,
`HandlerFails`, `HandlerGivesUp`, `HandlerPanics`), `SecureOutput`, and the
deferred `cancel` and audit (`Audit`), then `registerTool`'s answer (`Reply`).
`ClientLeaves` and `DeadlinePasses` may happen at any moment. An error is the set
of sentinels `errors.Is` finds in it, so that an error that wraps several is
there. The two deferred functions are one action: between them nothing else of
the call can be seen but its context.

**`ToolContract`** – the abstract specification of a tool call: ask, run at most
once and only when authorised, record once, answer once and after the record, a
value only after a run. `Execution` implements it under the mapping in
`Execution!Contract` (checked and proved).

**`AppLifecycle`** – each section under `App.mu` is one action (`BuildHandler`,
`RunClaims`, `StopBegin`); the goroutine of `Run` and its buffered channel are
`ServerListens` to `ServerReports`, `select` is `RunReceives`/`RunCanceled`;
`http.Server` is external: `Shutdown` refuses new requests, makes
`ListenAndServe` return at once, and waits for what is in flight or a timeout.
The registry inside it is its two facts that matter here, frozen or not and
which tools; `Registry` has the rest.

**`ProtocolMiddleware`** – `New`'s normalisation, then one request through
`protocolMiddleware`: header checks, `readLegacyEnvelope` with its four outcomes,
version, method, forward. A body is a sequence of bytes with what it decodes to;
reading it consumes it, `Restored` is what the middleware puts back, and the SDK
behind reads that. `limit + 1` is int64 addition (`Wrap`).

**`StrictClient`** – extends it with `strictTransport.RoundTrip`: its checks, the
trace that reads ahead and replays (`ReadAhead`, `Unread`, `Replayed`) for request
and response, and sending, beside other clients that send what they like.

**`Authentication`** – one request's way to a principal: header middleware
(`Begin`), subject header, `LookupByDigest`, `validateAPIKeyRecord` with its own
reading of the clock, or the JWT's; `Authentication.Valid` with another reading
(`Verify`); the SDK's expiry check with a third (`Admit`). `Put` and `Tick` come
in between anywhere. `window` and `began` are history variables: what the store
has held under the request's key since the request began, and when that was.

**`OutputPolicy`** – `secureOutput` with the inside of `redactSecrets`. A document
is a function from paths to kinds, so that nesting needs no recursion: a call of
`redactSecrets` for a value is the action `RedactSecrets(p)` for its path, and
`todo` holds the calls still to come. The code makes them depth first in the
order Go's map iteration happens to have; the model allows any order. `Decoded`
is the loss that decoding to `any` brings to integers above 2^53. Words of a
name stand for what lower case and `-`/`_` leave of it, which is what
`sensitiveKey` compares. Sizes are counted in entries.

**`HttpConnector`** – `New` for several connectors, some from the same
`http.Client` (`shared`), and `Invoke` through `resolveURL`, `marshalBody`,
`client.Do`, `io.ReadAll` over `io.LimitReader`, and the three tests at its end.
`client.Do` is external: `Send`, `Follow` and what downstream does
(`Downstream`), with the code's `secureRedirectPolicy` in `Verdicts` deciding.
`timer` is `http.Client.Timeout`, which covers redirects and the body; `ctx` is the
caller's own context. `Joined` is `path.Join` over segments: it says which segments
stay instead of walking over them, so that it can be reasoned about, and
`MCHttpConnector` compares it with the walk (`Cleaned`) for every path of up to
seven segments. Header fields and the query are left out.

**`Gateway`** – extends `Execution` by what calls it: `runClient` of the client
program with its requests (`Connect`, `ListTools`, `CallTool`), the server
`buildServer` makes for each of them from `Registry.Visible` (`ServerTools`), and
rights that change in between (`RightsChange`). `CallTool` is the moment a
request's tool is looked up in its own server and `registerTool`'s handler
begins; all else of the call is `Execution`'s.

**`MCRegistry`**, **`MCExecution`**, **`MCStrictClient`**, **`MCAuthentication`**,
**`MCOutputPolicy`**, **`MCHttpConnector`** and **`MCGateway`** give the constants small
values. **`RegistryProofs`**, **`ExecutionProofs`**, **`GatewayProofs`**,
**`AppLifecycleProofs`**, **`StrictClientProofs`** (middleware and client),
**`AuthenticationProofs`**, **`HttpConnectorProofs`** and **`OutputPolicyProofs`** hold the
theorems.

Operators named `Mut_...` are not part of a model: each is a mistake somebody
could make in the definition after it, kept to show that a property notices.

<a name="runs"></a>
## Runs, bounds and fairness

| Run | Instance | Checks |
|---|---|---|
| `registry` | five capabilities, of which two collide by ID and two by name and one is invalid; four batches, also with a nil item; two registrars, one freezer, one reader | `TypeOK`, `IndexesAgree`, `AcceptedItemsStay`, `FrozenForGood`, `VisibleCoversKnown`, `RegistrationReturns` |
| `execution` | two calls; users with and without the role, a service, a principal without tenant; a restricted tool whose handler heeds its context, an open one that need not, and an unknown name; every sentinel as handler error, and an error with two | `TypeOK`, `OnlyAuthorisedRun`, `AuditedOnce`, `AuditTellsHowFar`, `AnswerMatchesAudit`, `ContextEnds`, `ImplementsContract`, `HeedingCallsReturn` |
| `execution_panic` | one call | finding: `SuccessMeansValue` |
| `app` | two `Run`, one `Stop`, two requests, one tool, valid and invalid configuration | `TypeOK`, `OneServer`, `StopDrains`, `RunDrains`, `ServedToolsFixed`, `NeverReadyAgain`, `GoroutineEnds`, `CanceledRunReturns` |
| `app_serving_ready`, `app_run_graceful` | as `app` | findings: `ServingIsReady`, `RunIsGraceful` |
| `protocol` | seven version lists (unset, empty, duplicate, unknown, both orders), limits −1, unset, 3, 4; 23 header combinations × 20 bodies of 0 to 5 bytes; trace on and off with a cap of 2 | `TypeOK`, `ForwardedWasNegotiated`, `BodyLimitExact`, `AdvertisedIsAccepted`, `StrictRequestsPass`, `TraceTransparent` |
| `protocol_huge_limit` | the same with `MaxInt` as the limit | finding: `BodyLimitExact` |
| `authentication` | API keys in a custom header or as bearer, and JWTs; three credentials, four key records, one request, time 1 to 4 | `TypeOK`, `AdmittedByOwnCredential`, `RefusedForCause`, `NotPastExpiry` |
| `output` | every document of depth two over four names, with arrays of objects inside and numbers beyond 2^53; four white lists; a limit some documents exceed | `NoSecretLeaves`, `RestIsKept` |
| `connector` | two connectors for two origins, from one client with or without timeout and policy of its own, or from none; refused base URLs; paths that climb, name a host, or are empty; redirects inside, to another port, host and scheme, and with a user; one call | `StaysInOrigin`, `RefusedForOwnCause`, `ResponseWhole`, `InvokeReturns` |
| `gateway` | one client, started in each of the four ways for a restricted, an open and an unknown tool; rights that change at any moment; a gateway with and without the version it asks for | `ExitTellsTruth`, `EngineAgreesWithServer` |

What the properties say is in the comment above each definition.

**Why the bounds are enough to be of interest.** Registry: two registrars, a
freezer and a reader are the smallest set in which a registration meets another
one, a freeze and a reader at every step, and the colliding items reach every
refusal; what the bound leaves open is closed by the proofs. Execution: calls
share nothing but the frozen table, so a second call only shows that they do not
disturb each other. App: two `Run` and one `Stop` give every order of the five
critical sections; two requests let one finish while another hangs. Protocol:
the middleware keeps no state between requests, so one request at a time is the
general case; bodies have lengths below, at, just above and well above limit and
cap. Authentication: requests share only store and clock, and every property is
about one request, so one is enough; keys and tokens end inside the range of the
clock (`MaxTime` 4), the lease of 2 also. Output: an entry is decided by its own name and the
entries above it, so depth two with an array in between has every case; the
proofs close the rest. Connector: a second connector is what could disturb a
call's own; eleven redirects happen, since downstream may redirect in a circle; the
limits are the default (3), 2 and `MaxInt` − 1, and bodies go on until the reader
stops. Gateway: clients share nothing but the frozen table. `MaxTime`, and
`MaxInt` (7 for the middleware, 5 for the connector) in place of 2^63 − 1, are the only
artificial bounds on numbers; nothing else counts up.

**Deadlock.** `registry` checks for it: a reader can always come, so a state
in which nobody can move would mean a lock that was not released. The others stop
by design (every call returned, the clock at its bound, `New` refused the
configuration) and say `CHECK_DEADLOCK FALSE`.

**Fairness.** Each liveness property is checked under weak fairness of what the
Go runtime, `time` or `net/http` keeps going, and of nothing a user may omit:

- `Registry!Fairness`: a goroutine inside a call goes on when it can. The RWMutex
  is modelled with writer preference, hence weak fairness of `RegisterLock` is
  enough: nobody but finitely many other writers can keep it out. Starting a
  call is not fair.
- `Execution!Fairness`: the engine's own code goes on, the timer of a live
  context fires, and a handler of a *heeding* tool notices that its context is
  done. A handler of another tool may hang for ever, as it may in the code: the
  engine waits for it.
- `AppLifecycle!Fairness`: a `Run` or `Stop` that has begun goes on, the goroutine
  with its server too, and a shutdown's timeout passes. A request need never be
  answered.

- `HttpConnector!Fairness`: the connector's and `http.Client`'s own steps go on,
  and a timer that was set fires. Downstream need never answer nor end a body,
  and the caller's context need never end: `InvokeReturns` rests on the timeout
  `New` sees to, or, in a redirect circle, on the limit of ten.

`ProtocolMiddleware`, `Authentication` and `OutputPolicy` are straight-line code
without waiting for each other, and state safety only; so does `Gateway`, whose
liveness is that of `Execution`.

<a name="proofs"></a>
## What is proved

Every invariant and every action property of the runs that pass is a theorem.
TLAPS checks them for any number of calls, threads, requests, clients, connectors, capabilities and batches, any
table, any document, any body and any path. The assumptions are those named in
the modules (`RegistryAssumption`, `ExecutionAssumption`, `GatewayAssumption`,
`AppAssumption`, `ProtocolAssumption`, `StrictAssumption`, `AuthenticationAssumption`,
`ConnectorAssumption`, `OutputAssumption`): the constants have their types, the sets of goroutines are
disjoint, there is some request to make, a document holds every prefix of its
paths, and the default limit of a response is below the largest int64.

`ExecutionProofs`: `TypeCorrect`, `OnlyAuthorisedRunHolds`, `AuditedOnceHolds`,
`AuditTellsHowFarHolds`, `AnswerMatchesAuditHolds`, `ContextEndsHolds`,
`ContractImplemented`. None of the properties is inductive: that an event says
`allowed` exactly for an authorised caller depends on what is known of the call
at each label. The invariant `IInv` says this per call: `Progress` (before the decision
nothing has happened; after it the call is let in, has no error until something
fails, has run its handler or was refused its input) and what the recorded event
then is. Each property follows from it at once, and so does the step simulation
of `ToolContract`, where every action maps to one abstract action or a stutter.
The lemma `RefusedUnlessAuthorised` is the agreement of `tools/list` and
`tools/call`: `Execute` refuses exactly the requests whose tool `Visible` would
not show, although it tests `Principal.Valid` and `Visible` does not.

`RegistryProofs`: `TypeCorrect`, `IndexesAgreeHolds`, `AcceptedItemsStayHolds`,
`FrozenForGoodHolds`, `VisibleCoversKnownHolds`. `IInv` adds to the properties
what carries them: where threads of each kind can be and how far their batch is
(`TypeInv`), that whoever is inside a critical section holds the lock
(`LockInv`, from which `LockStep` shows that a reader and a registrar between
its two writes exclude each other), and that what a reader knows is in the list.
`SortedList` is about the sort itself: any arrangement it may return holds the
same items and is strictly sorted when no two names are equal. `InsertKeepsIndexes`
and `OrderKeepsIndexes` are the two halves of a registration, `OtherSteps` says
that no other step touches the table.

`GatewayProofs`: `EngineInGateway` shows `GatewaySpec => Spec`: clients, changing rights
and per-request servers only choose which calls are made, so every theorem
about `Execution` holds in the gateway, and `IInv` can be used. `GInv` adds how a
client's phase and its call's label belong together. `EngineAgreesWithServerHolds`
is `ServedIsAdmitted`, which rests on `RefusedUnlessAuthorised`, at the one step
where a call begins. `ExitTellsTruthHolds` joins `GInv` (success means the value
arrived) and `IInv` (a value arrives only after one run with an event that says so).

`AppLifecycleProofs`: `TypeCorrect`, `OneServerHolds`, `StopDrainsHolds`,
`RunDrainsHolds`, `ServedToolsFixedHolds`, `NeverReadyAgainHolds`. Here not even the
types are inductive: that a shutdown closes a server and `errChannel` takes what
`ListenAndServe` returned depends on how far `Run` is. `Running(r)` ties a runner's
label to `server`, `listen`, `shut` and its channel; `Stopping(t)` says that the server
a `Stop` has read stays the one `App` has, because nothing ever takes it back.
`RunDrains` needs more, since `RunReceives` returns nil without draining anything: `Alone`
says that without a `Stop` beside it a server is shut down only by its own `Run`,
which is then past its `select` (finding 2 is what happens otherwise).

`AuthenticationProofs`: `TypeCorrect`, `AdmittedByOwnCredentialHolds`,
`RefusedForCauseHolds`, `NotPastExpiryHolds`. `Request(r)` says of a request on its way
that its credential is the one it carries, that `window` holds what the store has
now (so a key looked up, disabled or replaced later was one the request may be
judged by), and what the result rests on: a record the store held (`Granted`, with an
end no later than the key's and no earlier than key or lease justify) or a signed
token (`Signed`). The clock may advance between any two of its readings; a refusal
for time stays justified because it never goes back. `NotPastExpiry` is the step `Admit`, from
`Granted` or `Signed`. That principals are built from keys and tokens only is all
the typing of `result` says.

`StrictClientProofs`: `TypeCorrect`, `ForwardedWasNegotiatedHolds`,
`BodyLimitExactHolds`, `BodyIsWhole`, `AdvertisedIsAcceptedHolds`, `StrictRequestsPassHolds`,
`TraceTransparentHolds`. `StrictClient` extends `ProtocolMiddleware`, so the theorems are
about the middleware with the client beside all others. `Negotiated` says at each
label how far the version is known and from which of header and body; `Bodies` that the body there is still the one
that was sent, which `readLegacyEnvelope` takes and puts back, and `Client` the same for the
trace; `StrictOnWay` that a request the client's checks let out is on none of the
paths of 2025 and meets no refusal but those the property names. `NormalizedList` is
about `normalizeProtocolVersions`: whatever list it is given, one of four comes out.
`BodyLimitExactHolds` has the premise `limit < MaxInt`, and needs it: finding 4 is the
other case. `BodyIsWhole` is what holds without it. `ForwardedWasNegotiatedHolds` says
what each version is judged by: header and body for 2025, the headers alone for
2026. That header and body of a 2026 request agree, or that it has a version
header at all, the middleware does not guarantee (see after the findings).

`HttpConnectorProofs`: `TypeCorrect`, `StaysInOriginHolds`,
`RefusedForOwnCauseHolds`, `ResponseWholeHolds`. `CInv` says of a connector what `New`
made of it (`Sound`: its own policy comes first, its limit is positive) and of a
call what it has sent and read so far. `VerdictsOf` is what the chain of policies
decides. That the limit was not exceeded while reading, `ReadingIsBelow`, needs
`limit + 1` not to overflow; the theorem has that premise as the property has.
That the first request is below the base URL is a fact about `path.Join`,
`JoinedBelowBase`: a relative path without `..` takes nothing of the base back
(`BaseStays`), and what it adds comes behind all of it (`NthOfLower`, where the
pigeonhole principle does the work of an induction). `BInv` carries it to every
state: a call under way has sent a request, so no redirect is taken for the first.

`OutputPolicyProofs`: `TypeCorrect`, `NoSecretLeavesHolds`, `RestIsKeptHolds`, for
documents of any depth although the search is recursive in the code: `Redacting` says that
whatever has a secret's name either was replaced or has a prefix that is still
to be searched (`Searched`), and that nothing else was touched (`Kept`).
`RedactKeeps` is the step: what a call does not replace it hands on.

<a name="findings"></a>
## Where code and documentation disagree

1. `app_serving_ready`: a `Stop` between the two critical sections of `Run`
   finds no server, stops nothing and returns nil; `Run` then serves for ever,
   and `/ready` answers 503 for good (`app.go:161-176`, `199-204`).
2. `app_run_graceful`: with a `Stop` beside a `Run` whose context ends,
   `ListenAndServe` returns at once, and `Run` may return nil from `errChannel`
   while requests are in flight (`app.go:186`).
3. `execution_panic`: a panicking handler leaves `err` nil when the deferred
   audit runs: the event says success (`engine.go:86-93`).
4. `protocol_huge_limit`: with the largest int64 as `MaxRequestBodyBytes`,
   `limit + 1` is negative, nothing is read, and every legacy request is
   refused as malformed (`handler.go:631`).

Two more are seen in the models without a run of their own. A request without a
version header whose body is an `initialize` that names 2026-07-28 is forwarded when
its `Mcp-Method` header is in order, say `tools/list` (`handler.go:528-600`). The
architecture document requires the version header for 2026-07-28 (lines 47-49), lets
only the first `initialize` of 2025 omit it (line 57, as `CHANGELOG.md:31` and
`README.md:131` do), and says that the middleware refuses methods of another
version (line 89), which `initialize` is. `ForwardedWasNegotiated` says how far the
middleware goes: for 2026 it judges headers and never the body. What the SDK behind
it makes of such a request is external. And `MaxResponseBytes` set to the largest
int64 makes `maxResponseBytes+1` negative: nothing is read, and `Invoke` returns an
empty response without an error (`connector.go:168`; the exception in
`ResponseWhole`, the same mistake as finding 4).

What the models also show, and no document contradicts: the leeway of a JWT's
expiry never lets a request in, since `Authentication.Valid` compares again without
it (`NotPastExpiry`), so it only shifts `nbf`; an error that wraps both `ErrNotFound`
and `ErrForbidden` is audited as one and reported as the other (the premise
`OneSentinel` of `AnswerMatchesAudit`); a `Handler` that fails leaves the registry
frozen (`BuildHandler`); and a key that is disabled while a request is being
authenticated stops the next request, not this one (`window` in
`AdmittedByOwnCredential`).

From the later modules: `secureOutput` measures before the white list and the
redaction (`engine.go:145`): a large field nobody would see causes a refusal, and what
leaves may be larger than what was measured. The policy counts requests, so
nine redirects are followed and the tenth is refused, as in `net/http`, while the text of
the error says more than ten (`connector.go:106`). A call to a tool its caller may
not see does not get to the engine, and so leaves no audit event: the server
built for the request does not hold the tool (`UnknownTool`). The engine's own
refusal is a second line that, with the frozen table, is never needed
(`EngineAgreesWithServer`).

<a name="limits"></a>
## Only model-checked, and not modelled

Only model-checked: all liveness (`RegistrationReturns`, `HeedingCallsReturn`,
`GoroutineEnds`, `CanceledRunReturns`, `InvokeReturns`), which is out of the prover's
reach, and that `Joined` is what a walk over the segments computes
(`JoinedAsFolded`), which would take an induction over sequences. The properties
of the four findings do not hold, so there is nothing to prove of them.

Abstracted: JSON and JSON Schema (a choice to accept or refuse), cryptography and
digests, header syntax, log lines, wording of errors. In `Execution`, `secureOutput` is
a choice between refusing and passing an output; `OutputPolicy` has its inside.
`requestContextMiddleware` and `CrossOriginProtection` decide nothing the properties
speak of. `Registry.List` has no caller. The SDK and `net/http` are external and
modelled from how the code uses them.

Left out for good: header fields and the query of a downstream request (data
that no decision depends on), `SetLogger`, `valueOrID`, schemas of typed capabilities,
cache scopes of results, and the configuration, printing and trace redaction of the
client program, the example server and the token tool, which are I/O and wiring.

<a name="plan"></a>
## Plan

Done, in this order: `Capability`, `Registry`, `ToolContract`, `Execution` with the
refinement, `AppLifecycle`, the proofs of the two core modules,
`ProtocolMiddleware` with `StrictClient`, `Authentication`, `HttpConnector`, `OutputPolicy`,
`Gateway`, the proofs of these three, and those of `AppLifecycle`, `Authentication` and
`StrictClient`.

Next, all of it proofs:

1. An atomic table as the abstract specification of `Registry`, in which a
   registration is one step and a reader sees the whole table, and the proof that
   `Registry`, with its lock and its two writes, implements it.
2. `Gateway` with `Registry` in place of its fixed table, of which it needs only that a
   frozen table stays (`FrozenForGoodHolds`).
