----------------------------- MODULE StrictClient -----------------------------
(***************************************************************************)
(* strictTransport of cmd/eacg-client/transport.go, which checks, traces   *)
(* and sends the requests of the client program, together with the server  *)
(* behind it.  Other clients send to the same server what they like.       *)
(***************************************************************************)
EXTENDS ProtocolMiddleware

CONSTANTS
  Blank,     \* header values that are empty but for white space
  TraceCap,  \* maxTraceBodyBytes
  Replies    \* the bodies of responses

ASSUME StrictAssumption ==
  /\ TraceCap \in Nat
  /\ Replies \subseteq Seq(Nat)

VARIABLES
  tracing,   \* whether config.trace is set
  cstage,    \* where RoundTrip is
  creq,      \* the request the SDK of the client handed to RoundTrip
  cbody,     \* what the body of that request, then of the response, delivers
  shown,     \* the last preview written to the trace
  reply      \* the body the server sent

clientVars == <<tracing, cstage, creq, cbody, shown, reply>>
vars == <<serverVars, clientVars>>

NoPreview == [bytes |-> <<>>, truncated |-> FALSE]

Init ==
  /\ ServerInit
  /\ tracing \in BOOLEAN
  /\ cstage = "idle" /\ creq = AnyRequest /\ cbody = <<>>
  /\ shown = NoPreview /\ reply = <<>>

-------------------------------------------------------------------------------
\* validateProtocolRequest

\* Mutated form of RemovedClientMethods: ping is missing.
Mut_PingAllowed ==
  {"initialize", "notifications/initialized", "logging/setLevel",
   "resources/subscribe", "resources/unsubscribe"}

RemovedClientMethods ==
  {"initialize", "notifications/initialized", "ping", "logging/setLevel",
   "resources/subscribe", "resources/unsubscribe"}

OneValue(s) == Len(s) = 1 /\ s[1] \notin Blank

Strict(r) ==
  /\ r.http = "POST"
  /\ r.versions = <<V26>>
  /\ OneValue(r.methods) /\ r.methods[1] \notin RemovedClientMethods
  /\ r.methods[1] = "tools/call" => OneValue(r.names)
  /\ ~r.session

\* readPreview : the head of the body is read ahead, shown up to the cap, and
\* put before the rest again
UpTo(s, n) == SubSeq(s, 1, IF Len(s) > n THEN n ELSE Len(s))

ReadAhead(s) == UpTo(s, TraceCap + 1)
Unread(s) == SubSeq(s, Len(ReadAhead(s)) + 1, Len(s))

Preview(s) ==
  [bytes |-> UpTo(ReadAhead(s), TraceCap), truncated |-> Len(ReadAhead(s)) > TraceCap]

\* Mutated form of Replayed: what was shown is replayed, not what was read.
Mut_ReplayShown(s) == Preview(s).bytes \o Unread(s)

Replayed(s) == ReadAhead(s) \o Unread(s)

-------------------------------------------------------------------------------
\* RoundTrip

Submit(r) ==
  /\ cstage = "idle" /\ stage = "ready"
  /\ creq' = r /\ cbody' = r.bytes
  /\ cstage' = IF Strict(r) THEN "checked" ELSE "failed"
  /\ UNCHANGED <<serverVars, tracing, shown, reply>>

\* traceRequest and traceResponse
Trace(from, to) ==
  /\ cstage = from
  /\ IF tracing THEN shown' = Preview(cbody) /\ cbody' = Replayed(cbody)
     ELSE UNCHANGED <<shown, cbody>>
  /\ cstage' = to
  /\ UNCHANGED <<serverVars, tracing, creq, reply>>

TraceRequest == Trace("checked", "traced")

\* base.RoundTrip
Send ==
  /\ cstage = "traced"
  /\ Arrive(creq, cbody)
  /\ cstage' = "sent"
  /\ UNCHANGED <<tracing, creq, cbody, shown, reply>>

ReceiveResponse ==
  /\ cstage = "sent" /\ stage = "answered"
  /\ \E b \in Replies : reply' = b /\ cbody' = b
  /\ cstage' = "response"
  /\ UNCHANGED <<serverVars, tracing, creq, shown>>

TraceResponse == Trace("response", "returned")

\* A body breaks while it is read for the trace, or the connection does :
\* RoundTrip returns an error, whatever the server has done
RoundTripFails ==
  /\ cstage \in {"traced", "sent"} \/ (tracing /\ cstage \in {"checked", "response"})
  /\ cstage' = "failed"
  /\ UNCHANGED <<serverVars, tracing, creq, cbody, shown, reply>>

\* The caller is done with the response or the error
Return ==
  /\ cstage \in {"returned", "failed"}
  /\ cstage' = "idle"
  /\ creq' = AnyRequest /\ cbody' = <<>> /\ shown' = NoPreview /\ reply' = <<>>
  /\ UNCHANGED <<serverVars, tracing>>

\* Another client
SendOther(r) ==
  /\ cstage = "idle"
  /\ Arrive(r, r.bytes)
  /\ UNCHANGED clientVars

ServerStep ==
  /\ Configure \/ Handle \/ (Done /\ cstage # "sent")
  /\ UNCHANGED clientVars

Next ==
  \/ ServerStep
  \/ \E r \in Requests : Submit(r) \/ SendOther(r)
  \/ TraceRequest \/ Send \/ ReceiveResponse \/ TraceResponse
  \/ RoundTripFails \/ Return

Spec == Init /\ [][Next]_vars

-------------------------------------------------------------------------------
\* Properties

\* Every variable keeps its type.
TypeOK ==
  /\ ServerTypeOK
  /\ tracing \in BOOLEAN
  /\ cstage \in {"idle", "checked", "traced", "sent", "response", "returned", "failed"}
  /\ creq \in Requests
  /\ cbody \in Seq(Nat) /\ reply \in Seq(Nat)
  /\ shown \in [bytes : Seq(Nat), truncated : BOOLEAN]

\* The two ends agree on the 2026 version: what the client's own checks let
\* out never fails the server's, unless that version is switched off, a
\* header value is one that HTTP does not carry, or the body is too large.
StrictRequestsPass ==
  cstage = "sent" /\ stage = "answered" =>
    \/ answer = "served"
    \/ answer = "unsupported" /\ V26 \notin Enabled
    \/ answer \in {"method header", "name header"}
       /\ (ToSet(creq.methods) \union ToSet(creq.names)) \intersect Invalid # {}
    \/ answer = "too large" /\ Len(creq.bytes) > limit

ShowsHead(whole) ==
  /\ Len(shown.bytes) <= TraceCap
  /\ IsPrefix(shown.bytes, whole)
  /\ shown.truncated <=> shown.bytes # whole

\* Tracing changes nothing: the server gets the bytes that were submitted and
\* the caller the bytes that were sent back, while the trace shows no more than
\* its cap of them, from the first on, and says when it left something out.
TraceTransparent ==
  /\ cstage = "sent" /\ answer = "served" => got = creq.bytes
  /\ cstage = "returned" => cbody = reply
  /\ tracing /\ cstage \in {"traced", "sent"} => ShowsHead(creq.bytes)
  /\ tracing /\ cstage = "returned" => ShowsHead(reply)

===============================================================================
