-------------------------- MODULE ProtocolMiddleware --------------------------
(***************************************************************************)
(* protocolMiddleware of protocol/mcphttp/handler.go: it stands between    *)
(* authentication and the SDK's handler, negotiates the MCP version of a   *)
(* request from its headers or, for the 2025 version, from its body, and   *)
(* passes on what the negotiated version allows.                           *)
(*                                                                         *)
(* A body is the sequence of its bytes, which matter only by their number  *)
(* and order, with what they decode to.  Reading a body consumes it.       *)
(***************************************************************************)
EXTENDS Integers, SequencesExt

CONSTANTS
  Requests,      \* what clients send, see Request
  Configured,    \* values of Config.ProtocolVersions
  NilList,       \* Config.ProtocolVersions when it is not set
  Limits,        \* values of Config.MaxRequestBodyBytes
  DefaultLimit,  \* defaultMaxRequestBody
  MaxInt,        \* the largest int64
  Invalid        \* header values that validHTTPValue refuses

V26 == "2026-07-28"
V25 == "2025-06-18"

\* The fields of an http.Request that the middleware reads.  versions,
\* methods and names are the values of the Mcp-Protocol-Version, Mcp-Method
\* and Mcp-Name headers, session tells whether Mcp-Session-Id or
\* Last-Event-ID is there; the body holds a method and params.protocolVersion
\* when it is JSON of that shape.
Request ==
  [http : {"POST", "GET"}, versions : Seq(STRING), methods : Seq(STRING),
   names : Seq(STRING), session : BOOLEAN, bytes : Seq(Nat), json : BOOLEAN,
   method : STRING, version : STRING]

ASSUME ProtocolAssumption ==
  /\ MaxInt \in Nat \ {0}
  /\ DefaultLimit \in 0..MaxInt
  /\ Limits \subseteq -MaxInt..MaxInt
  /\ Requests # {} /\ Requests \subseteq Request
  /\ \A c \in Configured : c = NilList \/ c \in Seq(STRING)

VARIABLES
  versions,  \* config.ProtocolVersions after New
  limit,     \* config.MaxRequestBodyBytes after New
  stage,     \* where the program is
  req,       \* the request being handled
  body,      \* what request.Body still delivers
  requested, \* requestedVersion
  envelope,  \* what readLegacyEnvelope decoded, or NoEnvelope
  answer,    \* the response
  got        \* the body the SDK read

config == <<versions, limit>>
request == <<req, body, requested, envelope>>
serverVars == <<config, stage, request, answer, got>>

NoEnvelope == [method |-> "", version |-> "", read |-> FALSE]

-------------------------------------------------------------------------------
\* New and normalizeProtocolVersions

DefaultVersions == <<V26, V25>>

ValidVersions(c) ==
  c # NilList => c # <<>> /\ ToSet(c) \subseteq ToSet(DefaultVersions) /\ IsInjective(c)

\* Mutated form of Normalize: the list is kept in the order it was given.
Mut_AsGiven(c) == IF c = NilList THEN DefaultVersions ELSE c

\* A default version is appended to the result when c has enabled it
Kept(v, c) == IF v \in ToSet(c) THEN <<v>> ELSE <<>>

Normalize(c) == IF c = NilList THEN DefaultVersions ELSE Kept(V26, c) \o Kept(V25, c)

Enabled == ToSet(versions)

\* Between two requests
AnyRequest == CHOOSE r \in Requests : TRUE

ServerInit ==
  /\ versions = <<>> /\ limit = 0 /\ stage = "new"
  /\ req = AnyRequest /\ body = <<>>
  /\ requested = "" /\ envelope = NoEnvelope /\ answer = "none" /\ got = <<>>

\* Mutated form of New: a negative limit is not refused.
Mut_NegativeLimit(c, l) ==
  /\ stage = "new"
  /\ ValidVersions(c)
  /\ versions' = Normalize(c)
  /\ limit' = IF l = 0 THEN DefaultLimit ELSE l
  /\ stage' = "ready"
  /\ UNCHANGED <<request, answer, got>>

New(c, l) ==
  /\ stage = "new"
  /\ ValidVersions(c) /\ l >= 0
  /\ versions' = Normalize(c)
  /\ limit' = IF l = 0 THEN DefaultLimit ELSE l
  /\ stage' = "ready"
  /\ UNCHANGED <<request, answer, got>>

NewFails(c, l) ==
  /\ stage = "new"
  /\ ~ValidVersions(c) \/ l < 0
  /\ stage' = "failed"
  /\ UNCHANGED <<config, request, answer, got>>

-------------------------------------------------------------------------------
\* One request

\* A request arrives with the bytes b as its body
Arrive(r, b) ==
  /\ stage = "ready"
  /\ req' = r /\ body' = b
  /\ stage' = "headers"
  /\ UNCHANGED <<config, requested, envelope, answer, got>>

\* ServeHTTP has returned; nothing of the request is kept
Done ==
  /\ stage = "answered"
  /\ req' = AnyRequest /\ body' = <<>>
  /\ requested' = "" /\ envelope' = NoEnvelope /\ answer' = "none" /\ got' = <<>>
  /\ stage' = "ready"
  /\ UNCHANGED config

Refuse(a) ==
  /\ answer' = a
  /\ stage' = "answered"
  /\ UNCHANGED <<config, request, got>>

HeaderRefusal ==
  IF req.http # "POST" THEN "method not allowed"
  ELSE IF req.session THEN "session header"
  ELSE IF Len(req.versions) > 1 THEN "unsupported" ELSE "none"

RefuseHeaders ==
  /\ stage = "headers" /\ HeaderRefusal # "none"
  /\ Refuse(HeaderRefusal)

\* The version is in the header, or the body has to be read for it
PassHeaders ==
  /\ stage = "headers" /\ HeaderRefusal = "none"
  /\ IF req.versions = <<>> THEN stage' = "read" /\ UNCHANGED requested
     ELSE stage' = "version" /\ requested' = req.versions[1]
  /\ UNCHANGED <<config, req, body, envelope, answer, got>>

\* int64 addition
Wrap(i) == IF i > MaxInt THEN i - 2 * (MaxInt + 1) ELSE i

\* Mutated form of Window: the reader stops at the limit itself.
Mut_WindowIsLimit == limit

\* io.LimitReader(request.Body, maxRequestBody+1)
Window == Wrap(limit + 1)

\* What io.ReadAll gets through it
Data == SubSeq(body, 1, IF Window < Len(body) THEN Window ELSE Len(body))

\* json.Unmarshal : a body that was cut is not JSON
Decodes == Data # <<>> /\ Data = req.bytes /\ req.json

\* readLegacyEnvelope : the connection breaks while the body is read
ReadFails ==
  /\ stage = "read"
  /\ Refuse("unreadable")

\* readLegacyEnvelope : the body is longer than the limit
ReadTooLarge ==
  /\ stage = "read" /\ Len(Data) > limit
  /\ Refuse("too large")

\* readLegacyEnvelope : not a request
ReadMalformed ==
  /\ stage = "read" /\ Len(Data) <= limit /\ ~Decodes
  /\ Refuse("malformed")

\* request.Body after readLegacyEnvelope
Restored == Data

\* readLegacyEnvelope returns.  Without a version header the body must be an
\* initialize, and names the version.
ReadEnvelope ==
  /\ stage = "read" /\ Len(Data) <= limit /\ Decodes
  /\ envelope' = [method |-> req.method, version |-> req.version, read |-> TRUE]
  /\ body' = Restored
  /\ IF req.versions # <<>>
     THEN stage' = "legacy" /\ UNCHANGED <<requested, answer>>
     ELSE /\ requested' = req.version
          /\ IF req.method = "initialize"
             THEN stage' = "version" /\ UNCHANGED answer
             ELSE stage' = "answered" /\ answer' = "unsupported"
  /\ UNCHANGED <<config, req, got>>

RefuseVersion ==
  /\ stage = "version" /\ requested \notin Enabled
  /\ Refuse("unsupported")

\* The 2025 version needs the envelope, the 2026 version the headers
PassVersion ==
  /\ stage = "version" /\ requested \in Enabled
  /\ stage' = IF requested # V25 THEN "modern"
              ELSE IF envelope.read THEN "legacy" ELSE "read"
  /\ UNCHANGED <<config, request, answer, got>>

LegacyMethods ==
  {"initialize", "notifications/initialized", "ping", "tools/list", "tools/call"}

\* Mutated form of LegacyRefusal: initialize may name another version.
Mut_AnyInitialize ==
  IF envelope.method \notin LegacyMethods THEN "method not found" ELSE "none"

LegacyRefusal ==
  IF envelope.method \notin LegacyMethods THEN "method not found"
  ELSE IF envelope.method = "initialize" /\ envelope.version # requested
  THEN "unsupported" ELSE "none"

RemovedMethods ==
  {"initialize", "notifications/initialized", "ping", "logging/setLevel",
   "resources/subscribe", "resources/unsubscribe"}

OneValidValue(s) == Len(s) = 1 /\ s[1] \notin Invalid

ModernRefusal ==
  IF ~OneValidValue(req.methods) THEN "method header"
  ELSE IF req.methods[1] \in RemovedMethods THEN "method not found"
  ELSE IF req.methods[1] = "tools/call" /\ ~OneValidValue(req.names)
  THEN "name header" ELSE "none"

Refusal == IF stage = "legacy" THEN LegacyRefusal ELSE ModernRefusal

RefuseMethod ==
  /\ stage \in {"legacy", "modern"} /\ Refusal # "none"
  /\ Refuse(Refusal)

\* next.ServeHTTP
Forward ==
  /\ stage \in {"legacy", "modern"} /\ Refusal = "none"
  /\ stage' = "sdk"
  /\ UNCHANGED <<config, request, answer, got>>

\* The SDK's handler reads the body, under the same limit, and answers
Serve ==
  /\ stage = "sdk"
  /\ IF Len(body) > limit THEN answer' = "too large" /\ UNCHANGED got
     ELSE answer' = "served" /\ got' = body
  /\ stage' = "answered"
  /\ UNCHANGED <<config, request>>

Configure == \E c \in Configured, l \in Limits : New(c, l) \/ NewFails(c, l)

Handle ==
  \/ RefuseHeaders \/ PassHeaders
  \/ ReadFails \/ ReadTooLarge \/ ReadMalformed \/ ReadEnvelope
  \/ RefuseVersion \/ PassVersion
  \/ RefuseMethod \/ Forward \/ Serve

-------------------------------------------------------------------------------
\* Properties

\* The version a request names: the SDK reads header and body again by itself
NamedVersion == IF req.versions = <<>> THEN req.version ELSE req.versions[1]

\* Every variable keeps its type; what was negotiated so far and what was
\* decoded belong to the request at hand.
ServerTypeOK ==
  /\ versions \in Seq({V26, V25})
  /\ limit \in 0..MaxInt
  /\ stage \in {"new", "failed", "ready", "headers", "read", "version", "legacy", "modern",
                "sdk", "answered"}
  /\ req \in Requests
  /\ body \in Seq(Nat) /\ got \in Seq(Nat)
  /\ requested \in {"", NamedVersion}
  /\ envelope \in {NoEnvelope, [method |-> req.method, version |-> req.version, read |-> TRUE]}
  /\ answer \in {"none", "method not allowed", "session header", "unsupported", "unreadable",
                 "too large", "malformed", "method not found", "method header", "name header",
                 "served"}

\* What reaches the SDK was negotiated.  The version that the middleware settled
\* on is enabled, and is the one in the only version header or, without one, the
\* one that the body of an initialize names.  For 2025 the body is judged: its
\* method is allowed, and an initialize names 2025 too.  For 2026 the headers
\* are, and they alone: one valid method that was not removed, and for a tool
\* call one valid name.  The body of a 2026 request may say something else, and
\* an initialize that names 2026 needs no version header: see the README.
ForwardedWasNegotiated ==
  stage = "sdk" =>
    /\ Len(req.versions) <= 1
    /\ requested = NamedVersion /\ requested \in Enabled
    /\ req.versions = <<>> => req.method = "initialize"
    /\ requested = V25 =>
         /\ req.method \in LegacyMethods
         /\ req.method = "initialize" => req.version = V25
    /\ requested = V26 =>
         /\ OneValidValue(req.methods) /\ req.methods[1] \notin RemovedMethods
         /\ req.methods[1] = "tools/call" => OneValidValue(req.names)

\* The body that the middleware consumed is there again for the SDK, byte for
\* byte, and the limit is exact on both ways to the SDK: a body of that length
\* passes, and one byte more is refused as too large.
BodyLimitExact ==
  /\ answer = "served" => got = req.bytes /\ Len(got) <= limit
  /\ answer = "too large" => Len(req.bytes) > limit
  /\ answer = "malformed" => Len(req.bytes) <= limit /\ ~(req.json /\ req.bytes # <<>>)

\* The list of versions, which discovery and every refusal show, is ordered
\* from new to old, and a request that names one of them in its header is not
\* refused for its version, unless it is an initialize whose body names another.
AdvertisedIsAccepted ==
  /\ versions \in {<<>>, <<V26>>, <<V25>>, <<V26, V25>>}
  /\ answer = "unsupported" /\ Len(req.versions) = 1 /\ req.versions[1] \in Enabled =>
       req.method = "initialize" /\ req.version # req.versions[1]

===============================================================================
