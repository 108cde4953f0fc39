-------------------------- MODULE StrictClientProofs --------------------------
(***************************************************************************)
(* What the protocol middleware and the strict client guarantee for any    *)
(* requests, limits, replies and header values.                            *)
(***************************************************************************)
EXTENDS StrictClient, SequenceTheorems, TLAPS

VersionLists == {<<>>, <<V26>>, <<V25>>, <<V26, V25>>}

EnvelopeOf(r) == [method |-> r.method, version |-> r.version, read |-> TRUE]

\* How far the negotiation has come
Negotiated ==
  /\ stage # "answered" => answer = "none"
  /\ stage \in {"new", "failed", "ready", "headers"} => requested = "" /\ envelope = NoEnvelope
  \* The body is read before the version is known, or because it is V25.
  /\ stage = "read" =>
       /\ envelope = NoEnvelope
       /\ IF req.versions = <<>> THEN requested = ""
          ELSE requested = NamedVersion /\ requested = V25 /\ requested \in Enabled
  /\ stage = "version" =>
       /\ requested = NamedVersion
       /\ IF req.versions = <<>> THEN envelope = EnvelopeOf(req) /\ req.method = "initialize"
          ELSE envelope = NoEnvelope
  /\ stage \in {"read", "version", "legacy", "modern"} => Len(req.versions) <= 1
  /\ stage \in {"legacy", "modern"} =>
       /\ requested = NamedVersion /\ requested \in Enabled
       /\ req.versions = <<>> => req.method = "initialize"
  /\ stage = "legacy" => requested = V25 /\ envelope = EnvelopeOf(req)
  /\ stage = "modern" => requested # V25
  /\ ForwardedWasNegotiated

\* Where the body of the request is
Bodies ==
  /\ stage \in {"headers", "read", "version", "legacy", "modern", "sdk"} => body = req.bytes
  /\ limit < MaxInt => BodyLimitExact
  /\ answer = "served" => got = req.bytes
  /\ answer = "too large" => Len(req.bytes) > limit

\* How a request that the client's checks let out can be answered
StrictAnswer(r) ==
  \/ answer = "served"
  \/ answer = "unsupported" /\ V26 \notin Enabled
  \/ answer \in {"method header", "name header"}
     /\ (ToSet(r.methods) \union ToSet(r.names)) \intersect Invalid # {}
  \/ answer = "too large" /\ Len(r.bytes) > limit

StrictOnWay ==
  Strict(req) =>
    /\ stage \notin {"read", "legacy"}
    /\ stage = "answered" => StrictAnswer(req)

\* The client's own request
Client ==
  /\ cstage \in {"checked", "traced", "sent"} => Strict(creq) /\ cbody = creq.bytes
  /\ cstage = "sent" =>
       /\ req = creq
       /\ stage \in {"headers", "read", "version", "legacy", "modern", "sdk", "answered"}
  /\ cstage \in {"response", "returned"} => cbody = reply
  /\ tracing /\ cstage \in {"traced", "sent"} => ShowsHead(creq.bytes)
  /\ tracing /\ cstage = "returned" => ShowsHead(reply)

\* The inductive invariant
ServerInv == Negotiated /\ Bodies /\ AdvertisedIsAccepted /\ StrictOnWay
IInv == TypeOK /\ ServerInv /\ Client
-------------------------------------------------------------------------------
\* Operators of the model

\* One version after the other
LEMMA TwoVersions == <<V26>> \o <<V25>> = <<V26, V25>>
  <1> DEFINE both == <<V26>> \o <<V25>>
  <1>1. <<V26>> \in Seq({V26, V25}) /\ <<V25>> \in Seq({V26, V25})
    OBVIOUS
  <1>2. Len(<<V26>>) = 1 /\ Len(<<V25>>) = 1
    OBVIOUS
  <1>3. both \in Seq({V26, V25}) /\ Len(both) = 2 /\ both[1] = V26 /\ both[2] = V25
    BY <1>1, <1>2
  <1> HIDE DEF both
  <1>4. both = [i \in 1..2 |-> both[i]]
    BY <1>3
  <1>5. <<V26, V25>> = [i \in 1..2 |-> <<V26, V25>>[i]]
    OBVIOUS
  <1>6. \A i \in 1..2 : both[i] = <<V26, V25>>[i]
    BY <1>3
  <1>7. both = <<V26, V25>>
    BY <1>4, <1>5, <1>6
  <1> QED
    BY <1>7 DEF both

\* Whatever order a configuration has, the versions are kept from new to old.
LEMMA NormalizedList == \A c : Normalize(c) \in VersionLists
  <1> TAKE c
  <1>1. CASE c = NilList
    BY <1>1 DEF Normalize, DefaultVersions, VersionLists
  <1>2. CASE c # NilList
    <2>1. Kept(V26, c) \in {<<>>, <<V26>>} /\ Kept(V25, c) \in {<<>>, <<V25>>}
      BY DEF Kept
    <2>2. <<>> \o <<>> = <<>> /\ <<V26>> \o <<>> = <<V26>> /\ <<>> \o <<V25>> = <<V25>>
      OBVIOUS
    <2>3. Normalize(c) = Kept(V26, c) \o Kept(V25, c)
      BY <1>2 DEF Normalize
    <2> QED
      BY <2>1, <2>2, <2>3, TwoVersions DEF VersionLists
  <1> QED
    BY <1>1, <1>2

\* Each of these lists is a sequence of versions.
LEMMA ListsAreSequences == VersionLists \subseteq Seq({V26, V25})
  <1>1. <<>> \in Seq({V26, V25}) /\ <<V26>> \in Seq({V26, V25})
    OBVIOUS
  <1>2. <<V25>> \in Seq({V26, V25}) /\ <<V26, V25>> \in Seq({V26, V25})
    OBVIOUS
  <1> QED
    BY <1>1, <1>2 DEF VersionLists

\* The limit that New settles on is a limit.
LEMMA LimitInRange ==
  ASSUME NEW l \in Limits, l >= 0
  PROVE  (IF l = 0 THEN DefaultLimit ELSE l) \in 0..MaxInt
  <1>1. MaxInt \in Nat /\ DefaultLimit \in 0..MaxInt /\ l \in -MaxInt..MaxInt
    BY ProtocolAssumption
  <1> QED
    BY <1>1

\* A list of versions holds the two versions only.
LEMMA EnabledVersions ==
  ASSUME versions \in VersionLists
  PROVE  versions \in Seq({V26, V25}) /\ Enabled \subseteq {V26, V25}
  <1>1. versions \in Seq({V26, V25})
    BY ListsAreSequences
  <1>2. \A i \in DOMAIN versions : versions[i] \in {V26, V25}
    BY <1>1
  <1> QED
    BY <1>1, <1>2 DEF Enabled, ToSet

\* The head of a sequence
LEMMA HeadOf ==
  ASSUME NEW s \in Seq(Nat), NEW n \in Nat
  PROVE  /\ UpTo(s, n) \in Seq(Nat)
         /\ Len(UpTo(s, n)) = IF Len(s) > n THEN n ELSE Len(s)
         /\ \A i \in 1..Len(UpTo(s, n)) : UpTo(s, n)[i] = s[i]
         /\ Len(s) <= n => UpTo(s, n) = s
  <1> DEFINE k == IF Len(s) > n THEN n ELSE Len(s)
  <1>1. k \in 0..Len(s) /\ k \in Int
    OBVIOUS
  <1>2. \A i \in 1..k : s[i] \in Nat
    BY <1>1
  <1>3. UpTo(s, n) = SubSeq(s, 1, k)
    BY DEF UpTo
  <1> HIDE DEF k
  <1>4. /\ SubSeq(s, 1, k) \in Seq(Nat)
        /\ Len(SubSeq(s, 1, k)) = IF 1 <= k THEN k - 1 + 1 ELSE 0
        /\ \A i \in 1..(k - 1 + 1) : SubSeq(s, 1, k)[i] = s[1 + i - 1]
    BY <1>1, <1>2, SubSeqProperties
  <1>5. Len(SubSeq(s, 1, k)) = k /\ \A i \in 1..k : SubSeq(s, 1, k)[i] = s[i]
    BY <1>1, <1>4
  <1>6. Len(s) <= n => SubSeq(s, 1, k) = s
    BY SubSeqFull DEF k
  <1> QED
    BY <1>3, <1>4, <1>5, <1>6 DEF k

\* Sequences with the same elements are the same.
LEMMA SameElements ==
  ASSUME NEW s \in Seq(Nat), NEW t \in Seq(Nat), Len(s) = Len(t),
         \A i \in 1..Len(s) : s[i] = t[i]
  PROVE  s = t
  OBVIOUS

\* Reading a head and putting it back leaves a body as it was.
LEMMA ReplayedIsWhole ==
  ASSUME NEW s \in Seq(Nat)
  PROVE  Replayed(s) = s
  <1> DEFINE k == Len(ReadAhead(s))
  <1>1. TraceCap + 1 \in Nat
    BY StrictAssumption
  <1>2. k \in 0..Len(s) /\ ReadAhead(s) \in Seq(Nat)
    BY <1>1, HeadOf DEF ReadAhead
  <1>3. ReadAhead(s) = SubSeq(s, 1, k)
    <2>1. k = IF Len(s) > TraceCap + 1 THEN TraceCap + 1 ELSE Len(s)
      BY <1>1, HeadOf DEF ReadAhead
    <2> QED
      BY <2>1 DEF ReadAhead, UpTo
  <1>4. Replayed(s) = SubSeq(s, 1, k) \o SubSeq(s, k + 1, Len(s))
    BY <1>3 DEF Replayed, Unread
  <1> HIDE DEF k
  <1>5. SubSeq(s, 1, k) \o SubSeq(s, k + 1, Len(s)) = SubSeq(s, 1, Len(s))
    <2>1. 1 \in 1..(Len(s) + 1) /\ k \in (1 - 1)..Len(s) /\ Len(s) \in k..Len(s)
      BY <1>2
    <2> QED
      BY <2>1, ConcatAdjacentSubSeq
  <1> QED
    BY <1>4, <1>5, SubSeqFull

\* A preview is the head of a body, and says when it is not all of it.
LEMMA PreviewShowsHead ==
  ASSUME NEW s \in Seq(Nat)
  PROVE  /\ Preview(s) \in [bytes : Seq(Nat), truncated : BOOLEAN]
         /\ Len(Preview(s).bytes) <= TraceCap
         /\ IsPrefix(Preview(s).bytes, s)
         /\ Preview(s).truncated <=> Preview(s).bytes # s
  <1> DEFINE a == ReadAhead(s)
             b == UpTo(a, TraceCap)
  <1>1. TraceCap \in Nat /\ TraceCap + 1 \in Nat
    BY StrictAssumption
  <1>2. /\ a \in Seq(Nat) /\ Len(a) = IF Len(s) > TraceCap + 1 THEN TraceCap + 1 ELSE Len(s)
        /\ \A i \in 1..Len(a) : a[i] = s[i]
        /\ Len(s) <= TraceCap + 1 => a = s
    BY <1>1, HeadOf DEF ReadAhead
  <1> HIDE DEF a
  <1>3. /\ b \in Seq(Nat) /\ Len(b) = IF Len(a) > TraceCap THEN TraceCap ELSE Len(a)
        /\ \A i \in 1..Len(b) : b[i] = a[i]
        /\ Len(a) <= TraceCap => b = a
    BY <1>1, <1>2, HeadOf
  <1>4. Preview(s) = [bytes |-> b, truncated |-> Len(a) > TraceCap]
    BY DEF Preview, a
  <1> HIDE DEF b
  <1>5. Len(b) <= TraceCap /\ Len(b) <= Len(s) /\ Len(b) <= Len(a)
    BY <1>1, <1>2, <1>3
  <1>6. SubSeq(s, 1, Len(b)) = b
    <2>1. \A i \in 1..Len(b) : b[i] = s[i]
      BY <1>2, <1>3, <1>5
    <2>2. UpTo(s, Len(b)) = SubSeq(s, 1, Len(b)) /\ Len(UpTo(s, Len(b))) = Len(b)
      BY <1>3, <1>5, HeadOf DEF UpTo
    <2> QED
      BY <1>3, <2>1, <2>2, HeadOf, SameElements
  <1>7. IsPrefix(b, s)
    BY <1>3, <1>5, <1>6, SubSeqFull DEF IsPrefix
  <1>8. Len(a) > TraceCap <=> b # s
    BY <1>1, <1>2, <1>3
  <1>9. Preview(s).bytes = b /\ Preview(s).truncated = (Len(a) > TraceCap)
    BY <1>4
  <1>10. Preview(s) \in [bytes : Seq(Nat), truncated : BOOLEAN]
    BY <1>3, <1>4
  <1> QED
    BY <1>5, <1>7, <1>8, <1>9, <1>10

\* What is read of a body through the window: all of it, when that is no
\* longer than the limit and the window has not wrapped.
LEMMA DataOfBody ==
  ASSUME TypeOK
  PROVE  /\ Data \in Seq(Nat) /\ Len(Data) <= Len(body)
         /\ limit < MaxInt /\ Len(Data) <= limit => Data = body
  <1> DEFINE n == IF Window < Len(body) THEN Window ELSE Len(body)
  <1>1. limit \in Int /\ MaxInt \in Int /\ body \in Seq(Nat) /\ limit <= MaxInt /\ limit >= 0
    <2>1. MaxInt \in Nat
      BY ProtocolAssumption
    <2>2. limit \in 0..MaxInt /\ body \in Seq(Nat)
      BY DEF TypeOK, ServerTypeOK
    <2> QED
      BY <2>1, <2>2
  <1>2. Window \in Int /\ (limit < MaxInt => Window = limit + 1)
    BY <1>1 DEF Window, Wrap
  <1>3. n \in Int /\ n <= Len(body)
    BY <1>1, <1>2
  <1>4. Data = SubSeq(body, 1, n)
    BY DEF Data
  <1>5. \A i \in 1..n : body[i] \in Nat
    BY <1>1, <1>3
  <1>6. limit < MaxInt => n = IF limit + 1 < Len(body) THEN limit + 1 ELSE Len(body)
    BY <1>2
  <1> HIDE DEF n
  <1>7. Data \in Seq(Nat) /\ Len(Data) = IF 1 <= n THEN n - 1 + 1 ELSE 0
    BY <1>3, <1>4, <1>5, SubSeqProperties
  <1>8. Len(Data) <= Len(body)
    BY <1>1, <1>3, <1>7
  <1>9. ASSUME limit < MaxInt, Len(Data) <= limit PROVE Data = body
    <2>1. n = Len(body)
      BY <1>1, <1>3, <1>6, <1>7, <1>9
    <2> QED
      BY <1>1, <1>4, <2>1, SubSeqFull
  <1> QED
    BY <1>7, <1>8, <1>9
-------------------------------------------------------------------------------
\* The values of a request
LEMMA RequestTypes ==
  ASSUME NEW r \in Requests
  PROVE  /\ r.versions \in Seq(STRING) /\ r.methods \in Seq(STRING) /\ r.names \in Seq(STRING)
         /\ r.bytes \in Seq(Nat)
         /\ r.versions = <<>> <=> Len(r.versions) = 0
  <1>1. r \in Request
    BY ProtocolAssumption
  <1> QED
    BY <1>1 DEF Request

\* What the client lets out has the 2026 version, a method that it did not
\* remove, and a name where one is needed; what is wrong with the values of its
\* headers for the server is that HTTP does not carry them.
LEMMA StrictRequest ==
  ASSUME NEW r \in Requests, Strict(r)
  PROVE  /\ r.http = "POST" /\ ~r.session
         /\ Len(r.versions) = 1 /\ ~(Len(r.versions) > 1) /\ r.versions # <<>>
         /\ r.versions[1] = V26 /\ r.methods[1] \notin RemovedMethods
         /\ ~OneValidValue(r.methods) => ToSet(r.methods) \intersect Invalid # {}
         /\ r.methods[1] = "tools/call" /\ ~OneValidValue(r.names) =>
              ToSet(r.names) \intersect Invalid # {}
  <1>1. Len(r.versions) = 1 /\ r.versions # <<>> /\ r.versions[1] = V26
    BY DEF Strict
  <1>2. ASSUME NEW t \in Seq(STRING), OneValue(t), ~OneValidValue(t)
        PROVE  ToSet(t) \intersect Invalid # {}
    <2>1. 1 \in DOMAIN t /\ t[1] \in Invalid
      BY <1>2 DEF OneValue, OneValidValue
    <2> QED
      BY <2>1 DEF ToSet
  <1>3. OneValue(r.methods) /\ (r.methods[1] = "tools/call" => OneValue(r.names))
    BY DEF Strict
  <1> QED
    BY <1>1, <1>2, <1>3, RequestTypes DEF Strict, RemovedClientMethods, RemovedMethods

\* Every step of the middleware and of the SDK behind it keeps what is said of
\* the request.
LEMMA HandleStep == TypeOK /\ ServerInv /\ Handle => ServerInv'
  <1> SUFFICES ASSUME TypeOK, ServerInv, Handle
               PROVE  Negotiated' /\ Bodies' /\ AdvertisedIsAccepted' /\ StrictOnWay'
    BY DEF ServerInv
  <1>0. Negotiated /\ Bodies /\ AdvertisedIsAccepted /\ StrictOnWay
    BY DEF ServerInv
  <1>e. Enabled \subseteq {V26, V25}
    BY <1>0, EnabledVersions DEF AdvertisedIsAccepted, VersionLists
  <1>r. /\ req \in Requests /\ req.versions \in Seq(STRING) /\ req.bytes \in Seq(Nat)
        /\ req.versions = <<>> <=> Len(req.versions) = 0
    BY RequestTypes DEF TypeOK, ServerTypeOK
  <1>n. limit \in Nat /\ body \in Seq(Nat)
    <2>1. limit \in 0..MaxInt /\ body \in Seq(Nat)
      BY DEF TypeOK, ServerTypeOK
    <2> QED
      BY <2>1, ProtocolAssumption
  <1>s. Strict(req) =>
          /\ req.http = "POST" /\ ~req.session
          /\ Len(req.versions) = 1 /\ ~(Len(req.versions) > 1) /\ req.versions # <<>>
          /\ req.versions[1] = V26 /\ req.methods[1] \notin RemovedMethods
          /\ ~OneValidValue(req.methods) => ToSet(req.methods) \intersect Invalid # {}
          /\ req.methods[1] = "tools/call" /\ ~OneValidValue(req.names) =>
               ToSet(req.names) \intersect Invalid # {}
    BY <1>r, StrictRequest
  <1>l. /\ Len(req.versions) > 1 => Len(req.versions) # 1
        /\ Len(Data) > limit => Len(body) > limit
        /\ ~(Len(body) > limit) => Len(body) <= limit
    <2>1. Len(req.versions) \in Nat /\ Len(body) \in Nat /\ Len(Data) \in Nat
      BY <1>r, <1>n, DataOfBody
    <2>2. Len(Data) <= Len(body)
      BY DataOfBody
    <2>3. limit \in Nat
      BY <1>n
    <2>4. Len(req.versions) > 1 => Len(req.versions) # 1
      <3>1. \A n \in Nat : n > 1 => n # 1
        OBVIOUS
      <3> QED
        BY <2>1, <3>1, Zenon
    <2>5. Len(Data) > limit => Len(body) > limit
      BY <2>1, <2>2, <2>3
    <2>6. ~(Len(body) > limit) => Len(body) <= limit
      BY <2>1, <2>3
    <2> QED
      BY <2>4, <2>5, <2>6
  <1>f. UNCHANGED <<versions, limit, req>>
    BY DEF Handle, RefuseHeaders, PassHeaders, ReadFails, ReadTooLarge, ReadMalformed,
           ReadEnvelope, RefuseVersion, PassVersion, RefuseMethod, Forward, Serve, Refuse,
           config, request
  <1>g. Strict(req)' = Strict(req)
    BY <1>f DEF Strict
  <1> USE <1>0, <1>e, <1>r, <1>n, <1>s, <1>f, <1>g DEF NamedVersion, EnvelopeOf, NoEnvelope, Enabled, config
  <1>1. CASE RefuseHeaders
    <2>h. /\ answer' = HeaderRefusal /\ HeaderRefusal # "none" /\ stage' = "answered"
          /\ UNCHANGED <<requested, envelope, body>>
      BY <1>1 DEF RefuseHeaders, Refuse, request
    <2>k. HeaderRefusal = "unsupported" => Len(req.versions) > 1
      BY DEF HeaderRefusal
    <2>l. HeaderRefusal = "unsupported" => Len(req.versions) # 1
      BY <2>k, <1>l
    <2>m. ASSUME Strict(req) PROVE FALSE
      <3>1. req.http = "POST" /\ ~req.session /\ ~(Len(req.versions) > 1)
        BY <2>m
      <3> QED
        BY <2>h, <3>1 DEF HeaderRefusal
    <2>1. Negotiated'
      BY <1>1 DEF RefuseHeaders, HeaderRefusal, Refuse, request, Negotiated, ForwardedWasNegotiated
    <2>2. Bodies'
      BY <1>1 DEF RefuseHeaders, HeaderRefusal, Refuse, request, Bodies, BodyLimitExact
    <2>3. AdvertisedIsAccepted'
      BY <2>h, <2>l DEF AdvertisedIsAccepted
    <2>4. StrictOnWay'
      BY <2>m DEF StrictOnWay
    <2> QED
      BY <2>1, <2>2, <2>3, <2>4
  <1>2. CASE PassHeaders
    <2>h. ~(Len(req.versions) > 1)
      BY <1>2 DEF PassHeaders, HeaderRefusal
    <2>k. Len(req.versions) <= 1
      BY <2>h, <1>l
    <2>1. Negotiated'
      BY <1>2, <2>k DEF PassHeaders, HeaderRefusal, Negotiated, ForwardedWasNegotiated
    <2>2. Bodies'
      BY <1>2 DEF PassHeaders, HeaderRefusal, Bodies, BodyLimitExact
    <2>3. AdvertisedIsAccepted'
      BY <1>2 DEF PassHeaders, HeaderRefusal, AdvertisedIsAccepted, Negotiated
    <2>4. StrictOnWay'
      BY <1>2 DEF PassHeaders, HeaderRefusal, StrictOnWay, StrictAnswer, Negotiated
    <2> QED
      BY <2>1, <2>2, <2>3, <2>4
  <1>3. CASE ReadFails
    <2>1. Negotiated'
      BY <1>3 DEF ReadFails, Refuse, request, Negotiated, ForwardedWasNegotiated
    <2>2. Bodies'
      BY <1>3 DEF ReadFails, Refuse, request, Bodies, BodyLimitExact
    <2>3. AdvertisedIsAccepted'
      BY <1>3 DEF ReadFails, Refuse, request, AdvertisedIsAccepted, Negotiated
    <2>4. StrictOnWay'
      BY <1>3 DEF ReadFails, Refuse, request, StrictOnWay, StrictAnswer, Negotiated
    <2> QED
      BY <2>1, <2>2, <2>3, <2>4
  <1>4. CASE ReadTooLarge
    <2>h. Len(req.bytes) > limit /\ stage' = "answered" /\ answer' = "too large" /\ UNCHANGED got
      <3>1. /\ stage = "read" /\ Len(Data) > limit
            /\ stage' = "answered" /\ answer' = "too large" /\ UNCHANGED got
        BY <1>4 DEF ReadTooLarge, Refuse
      <3>2. body = req.bytes
        BY <3>1 DEF Bodies
      <3> QED
        BY <3>1, <3>2, <1>l
    <2>1. Negotiated'
      BY <1>4 DEF ReadTooLarge, Refuse, request, Negotiated, ForwardedWasNegotiated
    <2>2. Bodies'
      BY <2>h DEF Bodies, BodyLimitExact
    <2>3. AdvertisedIsAccepted'
      BY <1>4 DEF ReadTooLarge, Refuse, request, AdvertisedIsAccepted, Negotiated
    <2>4. StrictOnWay'
      BY <1>4 DEF ReadTooLarge, Refuse, request, StrictOnWay, StrictAnswer, Negotiated
    <2> QED
      BY <2>1, <2>2, <2>3, <2>4
  <1>5. CASE ReadMalformed
    <2>1. Negotiated'
      BY <1>5 DEF ReadMalformed, Decodes, Refuse, request, Negotiated, ForwardedWasNegotiated
    <2>2. Bodies'
      BY <1>5, DataOfBody DEF ReadMalformed, Decodes, Refuse, request, Bodies, BodyLimitExact
    <2>3. AdvertisedIsAccepted'
      BY <1>5 DEF ReadMalformed, Decodes, Refuse, request, AdvertisedIsAccepted, Negotiated
    <2>4. StrictOnWay'
      BY <1>5 DEF ReadMalformed, Decodes, Refuse, request, StrictOnWay, StrictAnswer, Negotiated
    <2> QED
      BY <2>1, <2>2, <2>3, <2>4
  <1>6. CASE ReadEnvelope
    <2>h. answer' = "unsupported" => req.versions = <<>>
      BY <1>6 DEF ReadEnvelope, Negotiated
    <2>1. Negotiated'
      BY <1>6 DEF ReadEnvelope, Decodes, Restored, Negotiated, ForwardedWasNegotiated
    <2>2. Bodies'
      BY <1>6, DataOfBody DEF ReadEnvelope, Decodes, Restored, Bodies, BodyLimitExact
    <2>3. AdvertisedIsAccepted'
      BY <2>h DEF AdvertisedIsAccepted
    <2>4. StrictOnWay'
      BY <1>6 DEF ReadEnvelope, Decodes, Restored, StrictOnWay, StrictAnswer, Negotiated
    <2> QED
      BY <2>1, <2>2, <2>3, <2>4
  <1>7. CASE RefuseVersion
    <2>1. Negotiated'
      BY <1>7 DEF RefuseVersion, Refuse, request, Negotiated, ForwardedWasNegotiated
    <2>2. Bodies'
      BY <1>7 DEF RefuseVersion, Refuse, request, Bodies, BodyLimitExact
    <2>3. AdvertisedIsAccepted'
      BY <1>7 DEF RefuseVersion, Refuse, request, AdvertisedIsAccepted, Negotiated
    <2>4. StrictOnWay'
      BY <1>7 DEF RefuseVersion, Refuse, request, StrictOnWay, StrictAnswer, Negotiated
    <2> QED
      BY <2>1, <2>2, <2>3, <2>4
  <1>8. CASE PassVersion
    <2>h. /\ requested = NamedVersion /\ requested \in Enabled
          /\ UNCHANGED <<requested, envelope, body, answer, got>>
          /\ req.versions = <<>> => envelope = EnvelopeOf(req) /\ req.method = "initialize"
          /\ req.versions # <<>> => envelope = NoEnvelope
          /\ envelope.read <=> req.versions = <<>>
          /\ Len(req.versions) <= 1 /\ UNCHANGED req
      <3>1. /\ stage = "version" /\ requested \in Enabled
            /\ UNCHANGED <<req, requested, envelope, body, answer, got>>
        BY <1>8 DEF PassVersion, request
      <3>2. /\ requested = NamedVersion /\ Len(req.versions) <= 1
            /\ req.versions = <<>> => envelope = EnvelopeOf(req) /\ req.method = "initialize"
            /\ req.versions # <<>> => envelope = NoEnvelope
        BY <3>1 DEF Negotiated
      <3>3. EnvelopeOf(req).read /\ ~NoEnvelope.read
        OBVIOUS
      <3> QED
        BY <3>1, <3>2, <3>3
    <2>k. stage' = IF requested # V25 THEN "modern"
                   ELSE IF req.versions = <<>> THEN "legacy" ELSE "read"
      BY <1>8, <2>h DEF PassVersion
    <2>m. answer = "none"
      BY <1>8 DEF PassVersion, Negotiated
    <2>n. Strict(req) => requested # V25
      BY <2>h DEF V25, V26
    <2>1. Negotiated'
      BY <2>h, <2>k, <2>m DEF Negotiated, ForwardedWasNegotiated
    <2>2. Bodies'
      BY <1>8 DEF PassVersion, request, Bodies, BodyLimitExact
    <2>3. AdvertisedIsAccepted'
      BY <1>8 DEF PassVersion, request, AdvertisedIsAccepted, Negotiated
    <2>4. StrictOnWay'
      BY <2>k, <2>n DEF StrictOnWay
    <2> QED
      BY <2>1, <2>2, <2>3, <2>4
  <1>9. CASE RefuseMethod
    <2>h. answer' = Refusal /\ stage' = "answered" /\ stage \in {"legacy", "modern"}
      BY <1>9 DEF RefuseMethod, Refuse
    <2>k. Refusal = "unsupported" =>
            stage = "legacy" /\ envelope.method = "initialize" /\ envelope.version # requested
      BY DEF Refusal, LegacyRefusal, ModernRefusal
    <2>l. Refusal = "unsupported" /\ Len(req.versions) = 1 =>
            req.method = "initialize" /\ req.version # req.versions[1]
      BY <2>h, <2>k DEF Negotiated
    <2>1. Negotiated'
      BY <1>9 DEF RefuseMethod, Refusal, LegacyRefusal, ModernRefusal, OneValidValue, Refuse, request, Negotiated, ForwardedWasNegotiated
    <2>2. Bodies'
      BY <1>9 DEF RefuseMethod, Refusal, LegacyRefusal, ModernRefusal, OneValidValue, Refuse, request, Bodies, BodyLimitExact
    <2>3. AdvertisedIsAccepted'
      BY <2>h, <2>l DEF AdvertisedIsAccepted
    <2>4. StrictOnWay'
      BY <1>9 DEF RefuseMethod, Refusal, LegacyRefusal, ModernRefusal, OneValidValue, Refuse, request, StrictOnWay, StrictAnswer, Negotiated
    <2> QED
      BY <2>1, <2>2, <2>3, <2>4
  <1>10. CASE Forward
    <2>h. /\ requested = NamedVersion /\ requested \in Enabled
          /\ req.versions = <<>> => req.method = "initialize"
          /\ UNCHANGED <<requested, envelope, body, answer, got>>
          /\ answer = "none" /\ stage' = "sdk"
          /\ Len(req.versions) <= 1 /\ UNCHANGED req
      BY <1>10 DEF Forward, request, Negotiated
    <2>k. ASSUME stage = "legacy" PROVE ForwardedWasNegotiated'
      <3>1. LegacyRefusal = "none" /\ requested = V25 /\ envelope = EnvelopeOf(req)
        BY <1>10, <2>k DEF Forward, Refusal, Negotiated
      <3>2. req.method \in LegacyMethods /\ (req.method = "initialize" => req.version = V25)
        BY <3>1 DEF LegacyRefusal
      <3> QED
        BY <2>h, <3>1, <3>2 DEF V25, V26, ForwardedWasNegotiated
    <2>l. ASSUME stage = "modern" PROVE ForwardedWasNegotiated'
      <3>1. ModernRefusal = "none" /\ requested # V25
        BY <1>10, <2>l DEF Forward, Refusal, Negotiated
      <3> QED
        BY <2>h, <3>1 DEF ModernRefusal, ForwardedWasNegotiated
    <2>1. Negotiated'
      <3>1. stage \in {"legacy", "modern"}
        BY <1>10 DEF Forward
      <3> QED
        BY <2>h, <2>k, <2>l, <3>1 DEF Negotiated
    <2>2. Bodies'
      BY <1>10 DEF Forward, Refusal, LegacyRefusal, ModernRefusal, request, Bodies, BodyLimitExact
    <2>3. AdvertisedIsAccepted'
      BY <1>10 DEF Forward, Refusal, LegacyRefusal, ModernRefusal, request, AdvertisedIsAccepted, Negotiated
    <2>4. StrictOnWay'
      BY <1>10 DEF Forward, Refusal, LegacyRefusal, ModernRefusal, request, StrictOnWay, StrictAnswer, Negotiated
    <2> QED
      BY <2>1, <2>2, <2>3, <2>4
  <1>11. CASE Serve
    <2>h. stage = "sdk" /\ stage' = "answered" /\ body = req.bytes
      BY <1>11 DEF Serve, Bodies
    <2>k. \/ Len(req.bytes) > limit /\ answer' = "too large" /\ UNCHANGED got
          \/ Len(req.bytes) <= limit /\ answer' = "served" /\ got' = req.bytes
      BY <1>11, <2>h, <1>l DEF Serve
    <2>1. Negotiated'
      BY <1>11 DEF Serve, request, Negotiated, ForwardedWasNegotiated
    <2>2. Bodies'
      BY <2>h, <2>k DEF Bodies, BodyLimitExact
    <2>3. AdvertisedIsAccepted'
      BY <1>11 DEF Serve, request, AdvertisedIsAccepted, Negotiated
    <2>4. StrictOnWay'
      BY <2>h, <2>k DEF StrictOnWay, StrictAnswer
    <2> QED
      BY <2>1, <2>2, <2>3, <2>4
  <1> QED
    BY <1>1, <1>2, <1>3, <1>4, <1>5, <1>6, <1>7, <1>8, <1>9, <1>10, <1>11 DEF Handle
\* A request arrives with its body, or the server is done with one.
LEMMA ArriveStep ==
  ASSUME TypeOK, ServerInv, NEW r \in Requests, Arrive(r, r.bytes)
  PROVE  ServerInv'
  BY DEF ServerInv, Arrive, config, Negotiated, Bodies, BodyLimitExact, AdvertisedIsAccepted,
         StrictOnWay, ForwardedWasNegotiated, NamedVersion, Enabled, NoEnvelope

\* When a request has been answered, nothing of it is kept.
LEMMA DoneStep == ServerInv /\ Done => ServerInv'
  BY DEF ServerInv, Done, config, Negotiated, Bodies, BodyLimitExact, AdvertisedIsAccepted,
         StrictOnWay, ForwardedWasNegotiated, NamedVersion, Enabled, NoEnvelope

\* A server is configured before the first request.
LEMMA ConfigureStep == TypeOK /\ ServerInv /\ Configure => ServerInv'
  <1> SUFFICES ASSUME TypeOK, ServerInv, NEW c \in Configured, NEW l \in Limits,
                      New(c, l) \/ NewFails(c, l)
               PROVE  ServerInv'
    BY DEF Configure
  <1>1. /\ stage = "new" /\ stage' \in {"ready", "failed"}
        /\ UNCHANGED <<req, body, requested, envelope, answer, got>>
    BY DEF New, NewFails, config, request
  <1>2. versions' \in VersionLists
    BY NormalizedList DEF New, NewFails, config, ServerInv, AdvertisedIsAccepted, VersionLists
  <1>3. answer = "none" /\ requested = "" /\ envelope = NoEnvelope
    BY <1>1 DEF ServerInv, Negotiated
  <1> QED
    BY <1>1, <1>2, <1>3
       DEF ServerInv, Negotiated, Bodies, BodyLimitExact, AdvertisedIsAccepted, VersionLists,
           StrictOnWay, ForwardedWasNegotiated, NoEnvelope

\* What is said of the server depends on its variables only.
LEMMA SameServer == ServerInv /\ UNCHANGED serverVars => ServerInv'
  <1> SUFFICES ASSUME ServerInv, UNCHANGED serverVars PROVE ServerInv'
    OBVIOUS
  <1>1. UNCHANGED <<versions, limit, stage, req, body, requested, envelope, answer, got>>
    BY DEF serverVars, config, request
  <1>2. Negotiated'
    BY <1>1 DEF ServerInv, Negotiated, ForwardedWasNegotiated, NamedVersion, Enabled
  <1>3. Bodies'
    BY <1>1 DEF ServerInv, Bodies, BodyLimitExact
  <1>4. AdvertisedIsAccepted'
    BY <1>1 DEF ServerInv, AdvertisedIsAccepted, Enabled
  <1>5. StrictOnWay'
    BY <1>1 DEF ServerInv, StrictOnWay, StrictAnswer, Enabled, Strict
  <1> QED
    BY <1>2, <1>3, <1>4, <1>5 DEF ServerInv

-------------------------------------------------------------------------------
\* Every action keeps the types
LEMMA TypeStep == IInv /\ [Next]_vars => TypeOK'
  <1> SUFFICES ASSUME IInv, [Next]_vars PROVE TypeOK'
    OBVIOUS
  <1>0. TypeOK /\ Negotiated /\ Bodies /\ Client /\ versions \in VersionLists
    BY DEF IInv, ServerInv, AdvertisedIsAccepted, VersionLists
  <1>a. AnyRequest \in Requests
    BY ProtocolAssumption DEF AnyRequest
  <1>b. \A r \in Requests : r.bytes \in Seq(Nat)
    BY RequestTypes
  <1>c. <<>> \in Seq(Nat)
    OBVIOUS
  <1>d. \A s \in Seq(Nat) :
          Replayed(s) = s /\ Preview(s) \in [bytes : Seq(Nat), truncated : BOOLEAN]
    BY ReplayedIsWhole, PreviewShowsHead
  <1>e. Replies \subseteq Seq(Nat) /\ NoPreview \in [bytes : Seq(Nat), truncated : BOOLEAN]
    BY <1>c, StrictAssumption DEF NoPreview
  <1> USE <1>0 DEF TypeOK, ServerTypeOK, NamedVersion
  <1>1. CASE UNCHANGED vars
    <2>1. /\ UNCHANGED <<versions, limit, stage, req, body, requested, envelope, answer, got>>
          /\ UNCHANGED <<tracing, cstage, creq, cbody, shown, reply>>
      BY <1>1 DEF vars, serverVars, clientVars, config, request
    <2>2. NamedVersion' = NamedVersion
      BY <2>1
    <2>3. ServerTypeOK'
      <3> HIDE DEF NamedVersion
      <3> QED
        BY <2>1, <2>2
    <2> QED
      BY <2>1, <2>3
  <1>2. CASE Configure /\ UNCHANGED clientVars
    <2> SUFFICES ASSUME NEW c \in Configured, NEW l \in Limits, New(c, l) \/ NewFails(c, l)
                 PROVE  TypeOK'
      BY <1>2 DEF Configure
    <2>1. versions' \in Seq({V26, V25})
      <3>1. New(c, l) => versions' \in VersionLists
        BY NormalizedList DEF New
      <3> QED
        BY <3>1, ListsAreSequences DEF NewFails, config
    <2>2. limit' \in 0..MaxInt
      <3>2. CASE New(c, l)
        BY <3>2, LimitInRange DEF New
      <3>3. CASE NewFails(c, l)
        BY <3>3 DEF NewFails, config
      <3> QED
        BY <3>2, <3>3
    <2>3. UNCHANGED <<req, body, requested, envelope, answer, got, clientVars>>
          /\ stage' \in {"ready", "failed"}
      BY <1>2 DEF New, NewFails, request
    <2> QED
      BY <2>1, <2>2, <2>3, ZenonT(40) DEF clientVars
  <1>3. CASE Handle /\ UNCHANGED clientVars
    <2> USE <1>3 DEF clientVars, config, request
    <2>1. CASE RefuseHeaders
      BY <2>1 DEF RefuseHeaders, HeaderRefusal, Refuse
    <2>2. CASE PassHeaders
      BY <2>2, ZenonT(40) DEF PassHeaders
    <2>3. CASE ReadFails \/ ReadTooLarge \/ ReadMalformed \/ RefuseVersion
      BY <2>3 DEF ReadFails, ReadTooLarge, ReadMalformed, RefuseVersion, Refuse
    <2>4. CASE ReadEnvelope
      BY <2>4, DataOfBody DEF ReadEnvelope, Restored, Negotiated
    <2>5. CASE PassVersion \/ Forward
      <3>1. stage' \in {"read", "legacy", "modern", "sdk"}
        BY <2>5 DEF PassVersion, Forward
      <3>2. /\ UNCHANGED <<versions, limit, req, body, requested, envelope, answer, got>>
            /\ UNCHANGED <<tracing, cstage, creq, cbody, shown, reply>>
        BY <2>5 DEF PassVersion, Forward
      <3>3. NamedVersion' = NamedVersion
        BY <3>2
      <3>4. ServerTypeOK'
        <4> HIDE DEF NamedVersion
        <4> QED
          BY <3>1, <3>2, <3>3
      <3> QED
        BY <3>2, <3>4
    <2>6. CASE RefuseMethod
      BY <2>6 DEF RefuseMethod, Refusal, LegacyRefusal, ModernRefusal, Refuse
    <2>7. CASE Serve
      BY <2>7 DEF Serve
    <2> QED
      BY <2>1, <2>2, <2>3, <2>4, <2>5, <2>6, <2>7 DEF Handle
  <1>4. CASE Done /\ UNCHANGED clientVars
    BY <1>4, <1>a, <1>c DEF Done, config, clientVars
  <1>5. ASSUME NEW r \in Requests, SendOther(r) PROVE TypeOK'
    BY <1>5, <1>b DEF SendOther, Arrive, Negotiated, config, clientVars
  <1>6. ASSUME NEW r \in Requests, Submit(r) PROVE TypeOK'
    BY <1>6, <1>b DEF Submit, serverVars, config, request
  <1>7. CASE TraceRequest \/ TraceResponse
    <2>1. shown' \in {shown, Preview(cbody)} /\ cbody' \in {cbody, Replayed(cbody)}
      BY <1>7 DEF TraceRequest, TraceResponse, Trace
    <2>2. cbody' \in Seq(Nat) /\ shown' \in [bytes : Seq(Nat), truncated : BOOLEAN]
      BY <1>d, <2>1
    <2>3. /\ UNCHANGED <<versions, limit, stage, req, body, requested, envelope, answer, got>>
          /\ UNCHANGED <<tracing, creq, reply>> /\ cstage' \in {"traced", "returned"}
      BY <1>7 DEF TraceRequest, TraceResponse, Trace, serverVars, config, request
    <2> QED
      BY <2>2, <2>3
  <1>8. CASE Send
    BY <1>8, <1>b DEF Send, Arrive, Negotiated, config
  <1>9. CASE ReceiveResponse
    BY <1>9, <1>e DEF ReceiveResponse, serverVars, config, request
  <1>10. CASE RoundTripFails
    BY <1>10 DEF RoundTripFails, serverVars, config, request
  <1>11. CASE Return
    BY <1>11, <1>a, <1>c, <1>e DEF Return, serverVars, config, request
  <1> QED
    BY <1>1, <1>2, <1>3, <1>4, <1>5, <1>6, <1>7, <1>8, <1>9, <1>10, <1>11 DEF Next, ServerStep
-------------------------------------------------------------------------------
\* The initial states, and what the client's steps keep

\* Neither end has a request.
LEMMA InvInit == Init => IInv
  <1> SUFFICES ASSUME Init PROVE TypeOK /\ ServerInv /\ Client
    BY DEF IInv
  <1>1. AnyRequest \in Requests
    BY ProtocolAssumption DEF AnyRequest
  <1>2. <<>> \in Seq(Nat) /\ <<>> \in Seq({V26, V25}) /\ 0 \in 0..MaxInt
    <2>1. MaxInt \in Nat
      BY ProtocolAssumption
    <2> QED
      BY <2>1
  <1>3. TypeOK
    BY <1>1, <1>2 DEF Init, ServerInit, TypeOK, ServerTypeOK, NoPreview, NamedVersion
  <1>4. ServerInv
    BY DEF Init, ServerInit, ServerInv, Negotiated, Bodies, BodyLimitExact, AdvertisedIsAccepted,
           StrictOnWay, ForwardedWasNegotiated
  <1>5. Client
    BY DEF Init, ServerInit, Client
  <1> QED
    BY <1>3, <1>4, <1>5

\* Every action keeps what is said of the server.
LEMMA ServerInvStep == IInv /\ [Next]_vars => ServerInv'
  <1> SUFFICES ASSUME TypeOK, ServerInv, Client, [Next]_vars PROVE ServerInv'
    BY DEF IInv
  <1>1. ASSUME ServerStep PROVE ServerInv'
    BY <1>1, HandleStep, DoneStep, ConfigureStep DEF ServerStep
  <1>2. ASSUME NEW r \in Requests, SendOther(r) PROVE ServerInv'
    BY <1>2, ArriveStep DEF SendOther
  <1>3. CASE Send
    <2>1. cbody = creq.bytes /\ creq \in Requests
      BY <1>3 DEF Send, Client, TypeOK
    <2> QED
      BY <1>3, <2>1, ArriveStep DEF Send
  <1>4. ASSUME UNCHANGED serverVars PROVE ServerInv'
    BY <1>4, SameServer
  <1>5. \/ ServerStep \/ (\E r \in Requests : SendOther(r)) \/ Send \/ UNCHANGED serverVars
    BY DEF Next, vars, Submit, TraceRequest, TraceResponse, Trace, ReceiveResponse,
           RoundTripFails, Return
  <1> QED
    BY <1>1, <1>2, <1>3, <1>4, <1>5

\* Every action keeps what is said of the client's own request.
LEMMA ClientStep == IInv /\ [Next]_vars => Client'
  <1> SUFFICES ASSUME TypeOK, ServerInv, Client, [Next]_vars PROVE Client'
    BY DEF IInv
  <1>a. cbody \in Seq(Nat) /\ (\A r \in Requests : Strict(r)' = Strict(r))
    BY DEF TypeOK, Strict
  <1>b. Replayed(cbody) = cbody
    BY <1>a, ReplayedIsWhole
  <1>c. ASSUME NEW whole, UNCHANGED shown, ShowsHead(whole) PROVE ShowsHead(whole)'
    BY <1>c DEF ShowsHead
  <1>1. CASE UNCHANGED vars
    BY <1>1 DEF vars, serverVars, clientVars, Client, ShowsHead, Strict, config, request
  <1>2. CASE ServerStep
    <2>1. UNCHANGED clientVars
      BY <1>2 DEF ServerStep
    <2>2. ASSUME cstage = "sent"
          PROVE  /\ req' = req
                 /\ stage' \in {"headers", "read", "version", "legacy", "modern", "sdk", "answered"}
      <3>1. stage \in {"headers", "read", "version", "legacy", "modern", "sdk", "answered"}
        BY <2>2 DEF Client
      <3>2. Handle
        BY <1>2, <2>2, <3>1 DEF ServerStep, Configure, New, NewFails
      <3> QED
        BY <3>2 DEF Handle, RefuseHeaders, PassHeaders, ReadFails, ReadTooLarge, ReadMalformed,
               ReadEnvelope, RefuseVersion, PassVersion, RefuseMethod, Forward, Serve, Refuse,
               request
    <2> QED
      BY <2>1, <2>2 DEF clientVars, Client, ShowsHead, Strict
  <1>3. ASSUME NEW r \in Requests, Submit(r) PROVE Client'
    BY <1>3 DEF Submit, Client, Strict
  <1>4. ASSUME NEW r \in Requests, SendOther(r) PROVE Client'
    BY <1>4 DEF SendOther, Arrive, clientVars, Client
  <1>5. CASE TraceRequest
    <2>1. tracing => shown' = Preview(creq.bytes)
      BY <1>5 DEF TraceRequest, Trace, Client
    <2>2. /\ cstage = "checked" /\ cstage' = "traced" /\ UNCHANGED <<tracing, creq, reply>>
          /\ cbody' = cbody /\ cbody = creq.bytes
      BY <1>5, <1>b DEF TraceRequest, Trace, Client
    <2>3. tracing => ShowsHead(creq.bytes)'
      BY <1>a, <2>1, <2>2, PreviewShowsHead DEF ShowsHead
    <2> QED
      BY <1>a, <2>2, <2>3 DEF Client, TypeOK
  <1>6. CASE TraceResponse
    <2>1. tracing => shown' = Preview(reply)
      BY <1>6 DEF TraceResponse, Trace, Client
    <2>2. /\ cstage = "response" /\ cstage' = "returned" /\ UNCHANGED <<tracing, creq, reply>>
          /\ cbody' = cbody /\ cbody = reply
      BY <1>6, <1>b DEF TraceResponse, Trace, Client
    <2>3. tracing => ShowsHead(reply)'
      BY <1>a, <2>1, <2>2, PreviewShowsHead DEF ShowsHead
    <2> QED
      BY <2>2, <2>3 DEF Client
  <1>7. CASE Send
    BY <1>7 DEF Send, Arrive, Client, ShowsHead, Strict
  <1>8. CASE ReceiveResponse
    BY <1>8 DEF ReceiveResponse, Client
  <1>9. CASE RoundTripFails \/ Return
    BY <1>9 DEF RoundTripFails, Return, Client
  <1> QED
    BY <1>1, <1>2, <1>3, <1>4, <1>5, <1>6, <1>7, <1>8, <1>9 DEF Next
-------------------------------------------------------------------------------
\* The invariant holds in every reachable state.
LEMMA Invariant == Spec => []IInv
  <1>1. IInv /\ [Next]_vars => IInv'
    BY TypeStep, ServerInvStep, ClientStep DEF IInv
  <1> QED
    BY <1>1, InvInit, PTL DEF Spec

\* Every variable of the middleware and the client keeps its type.
THEOREM TypeCorrect == Spec => []TypeOK
  <1>1. IInv => TypeOK
    BY DEF IInv
  <1> QED
    BY <1>1, Invariant, PTL

\* What reaches the SDK was negotiated: by headers and body for 2025, by the
\* headers alone for 2026.
THEOREM ForwardedWasNegotiatedHolds == Spec => []ForwardedWasNegotiated
  <1>1. IInv => ForwardedWasNegotiated
    BY DEF IInv, ServerInv, Negotiated
  <1> QED
    BY <1>1, Invariant, PTL

\* The SDK gets the body that was sent, and the limit is exact.  The one limit
\* that does not have this property is the largest int64, for which the window
\* of the reader wraps to a negative number.
THEOREM BodyLimitExactHolds == Spec => [](limit < MaxInt => BodyLimitExact)
  <1>1. IInv => (limit < MaxInt => BodyLimitExact)
    BY DEF IInv, ServerInv, Bodies
  <1> QED
    BY <1>1, Invariant, PTL

\* For every limit, what the SDK answers was computed from the bytes that were
\* sent, and a body that is refused as too large is.
THEOREM BodyIsWhole ==
  Spec => []((answer = "served" => got = req.bytes) /\ (answer = "too large" => Len(req.bytes) > limit))
  <1>1. IInv => (answer = "served" => got = req.bytes) /\ (answer = "too large" => Len(req.bytes) > limit)
    BY DEF IInv, ServerInv, Bodies
  <1> QED
    BY <1>1, Invariant, PTL

\* The advertised versions are ordered, and a request that names one of them is
\* not refused for it.
THEOREM AdvertisedIsAcceptedHolds == Spec => []AdvertisedIsAccepted
  <1>1. IInv => AdvertisedIsAccepted
    BY DEF IInv, ServerInv
  <1> QED
    BY <1>1, Invariant, PTL

\* The checks of the client imply those of the server.
THEOREM StrictRequestsPassHolds == Spec => []StrictRequestsPass
  <1>1. IInv => StrictRequestsPass
    BY DEF IInv, ServerInv, StrictOnWay, StrictAnswer, Client, StrictRequestsPass
  <1> QED
    BY <1>1, Invariant, PTL

\* Tracing changes neither the request nor the response, and shows a head of each.
THEOREM TraceTransparentHolds == Spec => []TraceTransparent
  <1>1. IInv => TraceTransparent
    BY DEF IInv, ServerInv, Bodies, Client, TraceTransparent
  <1> QED
    BY <1>1, Invariant, PTL

===============================================================================
