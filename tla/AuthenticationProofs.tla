------------------------- MODULE AuthenticationProofs -------------------------
(***************************************************************************)
(* What the authentication of a request guarantees for any number of       *)
(* requests, any keys, tokens and configurations, and any leases.          *)
(***************************************************************************)
EXTENDS Authentication, TLAPS

\* The service a key stands for, in the state of the store that granted it
Granted(r, rec) ==
  /\ Storable(rec) /\ ~rec.disabled
  /\ result[r].principal = ServicePrincipal(rec)
  \* The authentication ends with the key or with the lease, and later than 0.
  /\ result[r].expires > 0
  /\ rec.exp # NoExpiry => result[r].expires <= rec.exp
  /\ (rec.exp # NoExpiry /\ result[r].expires = rec.exp) \/ result[r].expires >= began[r] + Lease

\* The user a token stands for
Signed(r, c) ==
  /\ c.signed /\ Valid(c.principal) /\ c.nbf <= now + Leeway
  /\ result[r] = [principal |-> c.principal, expires |-> c.exp]

\* A request that is being authenticated
InProgress == {"subject", "lookup", "validate", "parse", "verify", "sdk"}

\* A request, its credential and what was found under it
Request(r) ==
  /\ began[r] <= now
  /\ pc[r] \in InProgress \union {"admitted"} =>
       CredentialOK(ask[r]) /\ cred[r] = CredentialOf(ask[r]) /\ cred[r] \in Credentials
  /\ pc[r] \in InProgress => store[cred[r]] \in window[r]
  /\ pc[r] = "parse" => config.kind = "jwt"
  /\ pc[r] \in {"lookup", "validate"} => config.kind = "api_key"
  /\ pc[r] = "validate" => record[r] \in window[r] \ {None} /\ Storable(record[r])
  /\ pc[r] \in {"verify", "sdk", "admitted"} =>
       IF config.kind = "jwt" THEN Signed(r, Claims[cred[r]])
                              ELSE \E rec \in window[r] \ {None} : Granted(r, rec)
  /\ pc[r] = "refused" => Cause(r) /\ (CredentialOK(ask[r]) => cred[r] \in Credentials)

\* The inductive invariant
IInv == TypeOK /\ \A r \in Readers : Request(r)
-------------------------------------------------------------------------------
\* Operators of the model

\* A request with an acceptable credential sends that credential and no other.
LEMMA OneCredential ==
  ASSUME config \in Configs, NEW a \in Asks, CredentialOK(a)
  PROVE  CredentialOf(a) \in Credentials /\ Sent(a) = {CredentialOf(a)}
  <1>1. a \in Ask
    BY AuthenticationAssumption
  <1>2. CASE config.custom
    <2>1. a.bearer = None /\ Len(a.custom) = 1 /\ a.custom \in Seq(Credentials)
      BY <1>1, <1>2 DEF CredentialOK, Ask
    <2>2. DOMAIN a.custom = {1} /\ a.custom[1] \in Credentials
      BY <2>1
    <2>3. ToSet(a.custom) = {a.custom[1]}
      BY <2>2 DEF ToSet
    <2> QED
      BY <1>2, <2>1, <2>2, <2>3 DEF CredentialOf, Sent
  <1>3. CASE ~config.custom
    BY <1>1, <1>3 DEF CredentialOK, CredentialOf, Sent, Ask
  <1> QED
    BY <1>2, <1>3

\* A record that is complete makes a valid principal.
LEMMA ServiceIsValid ==
  ASSUME NEW rec, Storable(rec)
  PROVE  Valid(ServicePrincipal(rec))
  BY DEF Storable, ServicePrincipal, Valid, SubjectService

\* An authentication ends after the moment it is made and no later than its
\* key, and it lasts for the lease unless the key ends first.
LEMMA ExpiryOfKey ==
  ASSUME NEW rec \in Records, NEW t \in Nat, Usable(rec, t)
  PROVE  /\ ExpiresAt(rec, t) \in Nat /\ ExpiresAt(rec, t) > t
         /\ rec.exp # NoExpiry => ExpiresAt(rec, t) <= rec.exp
         /\ \/ rec.exp # NoExpiry /\ ExpiresAt(rec, t) = rec.exp
            \/ ExpiresAt(rec, t) = t + Lease
  BY AuthenticationAssumption DEF Record, Usable, ExpiresAt, NoExpiry

\* What is a number
LEMMA Numbers ==
  ASSUME TypeOK
  PROVE  /\ now \in Nat /\ now \in 1..MaxTime /\ now \in 0..MaxTime /\ MaxTime \in Nat
         /\ \A r \in Readers : began[r] \in Nat /\ result[r].expires \in Nat
         /\ Lease \in Nat \ {0} /\ Leeway \in Nat
         /\ \A rec \in Records : rec.exp \in Nat
         /\ \A c \in Credentials : Claims[c].exp \in Nat /\ Claims[c].nbf \in Nat
  <1>1. MaxTime \in Nat /\ Lease \in Nat \ {0} /\ Leeway \in Nat
    BY AuthenticationAssumption
  <1>2. now \in 1..MaxTime
    BY DEF TypeOK
  <1>3. now \in Nat /\ now \in 0..MaxTime
    BY <1>1, <1>2
  <1>4. ASSUME NEW r \in Readers PROVE began[r] \in Nat /\ result[r].expires \in Nat
    <2>1. began[r] \in 0..MaxTime /\ result[r] \in [principal : Principals \union {None}, expires : Nat]
      BY DEF TypeOK
    <2> QED
      BY <1>1, <2>1
  <1>5. \A rec \in Records : rec.exp \in Nat
    BY AuthenticationAssumption DEF Record
  <1>6. \A c \in Credentials : Claims[c].exp \in Nat /\ Claims[c].nbf \in Nat
    BY AuthenticationAssumption DEF Claim
  <1> QED
    BY <1>1, <1>2, <1>3, <1>4, <1>5, <1>6

-------------------------------------------------------------------------------
\* No request has begun.
LEMMA InvInit == Init => IInv
  <1> SUFFICES ASSUME Init PROVE TypeOK /\ \A r \in Readers : Request(r)
    BY DEF IInv
  <1>1. AnyAsk \in Asks
    BY AuthenticationAssumption DEF AnyAsk
  <1>2. TypeOK
    BY <1>1, AuthenticationAssumption DEF Init, TypeOK, NoResult
  <1>3. \A r \in Readers : Request(r)
    BY DEF Init, Request, InProgress
  <1> QED
    BY <1>2, <1>3

\* Every action keeps the types.
LEMMA TypeStep == IInv /\ [Next]_vars => TypeOK'
  <1> SUFFICES ASSUME IInv, [Next]_vars PROVE TypeOK'
    OBVIOUS
  <1>0. TypeOK /\ \A r \in Readers : Request(r)
    BY DEF IInv
  <1>t. now \in Nat /\ now \in 1..MaxTime /\ now \in 0..MaxTime /\ MaxTime \in Nat
    BY <1>0, Numbers
  <1> USE <1>0 DEF TypeOK
  <1>1. CASE UNCHANGED vars
    BY <1>1 DEF vars, request
  <1>2. ASSUME NEW r \in Readers, NEW a \in Asks, Begin(r, a) PROVE TypeOK'
    <2>1. CredentialOf(a) \in Credentials
      BY <1>2, OneCredential DEF Begin
    <2>2. store[CredentialOf(a)] \in Records \union {None}
      BY <2>1
    <2> QED
      BY <1>2, <1>t, <2>1, <2>2 DEF Begin, Goto
  <1>3. ASSUME NEW r \in Readers, NEW a \in Asks, RefuseCredential(r, a) PROVE TypeOK'
    BY <1>3 DEF RefuseCredential, Refuse, Goto
  <1>4. ASSUME NEW r \in Readers, Step(r) PROVE TypeOK'
    <2>1. CASE ReadSubject(r)
      BY <2>1 DEF ReadSubject, Refuse, Goto
    <2>2. CASE LookupRefused(r) \/ LookupFails(r)
      BY <2>2 DEF LookupRefused, LookupFails, Refuse, Goto
    <2>3. CASE LookupByDigest(r)
      <3>1. cred[r] \in Credentials
        BY <2>3 DEF LookupByDigest, At, Request, InProgress
      <3> QED
        BY <2>3, <3>1 DEF LookupByDigest, Goto
    <2>4. CASE ValidateRecord(r)
      <3>1. record[r] \in Records /\ Storable(record[r])
        BY <2>4 DEF ValidateRecord, At, Request
      <3>2. now \in Nat /\ (Usable(record[r], now) => ExpiresAt(record[r], now) \in Nat)
        BY <1>t, <3>1, ExpiryOfKey
      <3>3. CASE Usable(record[r], now)
        <4>1. [principal |-> ServicePrincipal(record[r]), expires |-> ExpiresAt(record[r], now)]
                \in [principal : Principals \union {None}, expires : Nat]
          BY <3>1, <3>2, <3>3 DEF Principals
        <4> QED
          BY <2>4, <3>3, <4>1 DEF ValidateRecord, Goto
      <3>4. CASE ~Usable(record[r], now)
        BY <2>4, <3>4 DEF ValidateRecord, Refuse, Goto
      <3> QED
        BY <3>3, <3>4
    <2>5. CASE ParseToken(r)
      <3>1. cred[r] \in Credentials /\ Claims[cred[r]] \in Claim
        BY <2>5, AuthenticationAssumption DEF ParseToken, At, Request, InProgress
      <3> QED
        <4> DEFINE c == Claims[cred[r]]
        <4>1. [principal |-> c.principal, expires |-> c.exp]
                \in [principal : Principals \union {None}, expires : Nat]
          BY <3>1 DEF Claim, Principals
        <4>2. CASE TokenOK(c) /\ Valid(c.principal)
          BY <2>5, <4>1, <4>2 DEF ParseToken, Goto
        <4>3. CASE ~(TokenOK(c) /\ Valid(c.principal))
          BY <2>5, <4>3 DEF ParseToken, Refuse, Goto
        <4> QED
          BY <4>2, <4>3
    <2>6. CASE Verify(r) \/ Admit(r)
      BY <2>6 DEF Verify, Admit, Refuse, Goto
    <2> QED
      BY <1>4, <2>1, <2>2, <2>3, <2>4, <2>5, <2>6 DEF Step
  <1>5. ASSUME NEW c \in Credentials, NEW rec \in Records, Put(c, rec) PROVE TypeOK'
    BY <1>5 DEF Put, Storable
  <1>6. CASE Tick
    <2>1. now' \in 1..MaxTime
      <3> HIDE <1>0 DEF TypeOK
      <3> QED
        BY <1>6, <1>t DEF Tick
    <2> QED
      BY <1>6, <2>1 DEF Tick, request
  <1> QED
    BY <1>1, <1>2, <1>3, <1>4, <1>5, <1>6 DEF Next
-------------------------------------------------------------------------------
\* Every action keeps what is said of a request

\* What Request says of r depends on these values only.
LEMMA SameRequest ==
  ASSUME NEW d \in Readers, Request(d),
         UNCHANGED <<config, store, now>>,
         pc'[d] = pc[d], ask'[d] = ask[d], cred'[d] = cred[d], record'[d] = record[d],
         result'[d] = result[d], outcome'[d] = outcome[d], window'[d] = window[d],
         began'[d] = began[d]
  PROVE  Request(d)'
  BY DEF Request, InProgress, Granted, Signed, Cause, CredentialOK, CredentialOf, SubjectOK

\* A step of one request leaves the others as they are.
LEMMA OtherRequests ==
  ASSUME IInv, NEW r \in Readers, NEW d \in Readers, r # d,
         Step(r) \/ \E a \in Asks : Begin(r, a) \/ RefuseCredential(r, a)
  PROVE  Request(d)'
  <1> DEFINE Same ==
        /\ pc'[d] = pc[d] /\ ask'[d] = ask[d] /\ cred'[d] = cred[d] /\ record'[d] = record[d]
        /\ result'[d] = result[d] /\ outcome'[d] = outcome[d] /\ window'[d] = window[d]
        /\ began'[d] = began[d] /\ UNCHANGED <<config, store, now>>
  <1> USE DEF TypeOK, Refuse, Goto
  <1>t. TypeOK
    BY DEF IInv
  <1>1. ASSUME NEW a \in Asks, Begin(r, a) PROVE Request(d)'
    <2>1. Same
      BY <1>t, <1>1 DEF Begin
    <2> QED
      BY <2>1, SameRequest DEF IInv
  <1>2. ASSUME NEW a \in Asks, RefuseCredential(r, a) PROVE Request(d)'
    <2>1. Same
      BY <1>t, <1>2 DEF RefuseCredential
    <2> QED
      BY <2>1, SameRequest DEF IInv
  <1>3. CASE ReadSubject(r)
    <2>1. Same
      BY <1>t, <1>3 DEF ReadSubject
    <2> QED
      BY <2>1, SameRequest DEF IInv
  <1>4. CASE LookupRefused(r) \/ LookupFails(r) \/ LookupByDigest(r)
    <2>1. Same
      BY <1>t, <1>4 DEF LookupRefused, LookupFails, LookupByDigest
    <2> QED
      BY <2>1, SameRequest DEF IInv
  <1>5. CASE ValidateRecord(r)
    <2>1. Same
      BY <1>t, <1>5 DEF ValidateRecord
    <2> QED
      BY <2>1, SameRequest DEF IInv
  <1>6. CASE ParseToken(r)
    <2>1. Same
      BY <1>t, <1>6 DEF ParseToken
    <2> QED
      BY <2>1, SameRequest DEF IInv
  <1>7. CASE Verify(r) \/ Admit(r)
    <2>1. Same
      BY <1>t, <1>7 DEF Verify, Admit
    <2> QED
      BY <2>1, SameRequest DEF IInv
  <1> QED
    BY <1>1, <1>2, <1>3, <1>4, <1>5, <1>6, <1>7 DEF Step

\* A key that is put in the store is seen by every request that uses it.
LEMMA PutStep ==
  ASSUME IInv, NEW c \in Credentials, NEW rec \in Records, Put(c, rec), NEW d \in Readers
  PROVE  Request(d)'
  <1>0. TypeOK /\ Request(d)
    BY DEF IInv
  <1>1. /\ UNCHANGED <<config, now, pc, ask, cred, record, result, outcome, began>>
        /\ window[d] \subseteq window'[d]
        /\ pc[d] \in {"admitted", "refused"} => window'[d] = window[d]
    BY DEF Put
  <1>2. pc[d] \in InProgress => store'[cred[d]] \in window'[d]
    BY <1>0 DEF Put, InProgress, Request, TypeOK
  <1>3. pc[d] = "refused" => (Cause(d) /\ (CredentialOK(ask[d]) => cred[d] \in Credentials))'
    BY <1>0, <1>1 DEF Request, Cause, CredentialOK, SubjectOK
  <1>4. (\E k \in window[d] \ {None} : Granted(d, k)) =>
           (\E k \in window[d] \ {None} : Granted(d, k))'
    BY <1>1 DEF Granted
  <1>5. Signed(d, Claims[cred[d]]) => Signed(d, Claims[cred[d]])'
    BY <1>1 DEF Signed
  <1> QED
    BY <1>0, <1>1, <1>2, <1>3, <1>4, <1>5 DEF Request, InProgress, CredentialOK, CredentialOf

\* What was true of a token or a key while time passed remains so.
LEMMA TickStep ==
  ASSUME IInv, Tick, NEW d \in Readers
  PROVE  Request(d)'
  <1>0. TypeOK /\ Request(d)
    BY DEF IInv
  <1>1. /\ UNCHANGED <<config, store, pc, ask, cred, record, result, outcome, window, began>>
        /\ now' = now + 1
    BY DEF Tick, request
  <1>2. /\ now \in Nat /\ began[d] \in Nat /\ Lease \in Nat /\ Leeway \in Nat
        /\ \A k \in Records : k.exp \in Nat
        /\ \A c \in Credentials : Claims[c].exp \in Nat /\ Claims[c].nbf \in Nat
    BY <1>0, Numbers
  <1>5. (\E k \in window[d] \ {None} : Granted(d, k)) =>
           (\E k \in window[d] \ {None} : Granted(d, k))'
    BY <1>1 DEF Granted
  <1>6. cred[d] \in Credentials /\ Signed(d, Claims[cred[d]]) => Signed(d, Claims[cred[d]])'
    BY <1>1, <1>2 DEF Signed
  <1>7. CredentialOK(ask[d])' = CredentialOK(ask[d]) /\ SubjectOK(ask[d])' = SubjectOK(ask[d])
    BY <1>1 DEF CredentialOK, SubjectOK
  <1>8. Cause(d) /\ (CredentialOK(ask[d]) => cred[d] \in Credentials) => Cause(d)'
    <2> SUFFICES ASSUME Cause(d), CredentialOK(ask[d]) => cred[d] \in Credentials,
                        ~(~CredentialOK(ask[d]) \/ ~SubjectOK(ask[d]) \/ outcome[d] = "backend")
                 PROVE  Cause(d)'
      BY <1>1, <1>7 DEF Cause
    <2>1. CASE config.kind = "api_key"
      <3>1. \A k \in window[d] : k # None => k.exp \in Nat
        BY <1>0, <1>2 DEF TypeOK
      <3> QED
        BY <1>1, <1>2, <2>1, <3>1 DEF Cause
    <2>2. CASE config.kind = "jwt"
      <3> DEFINE c == Claims[cred[d]]
      <3>1. c.exp \in Nat
        BY <1>2
      <3>2. ~c.signed \/ ~Valid(c.principal) \/ now >= c.exp \/ began[d] + Leeway < c.nbf
        BY <2>2 DEF Cause
      <3>3. now >= c.exp => now' >= c.exp
        BY <1>1, <1>2, <3>1
      <3> QED
        BY <1>1, <2>2, <3>2, <3>3 DEF Cause
    <2> QED
      BY <2>1, <2>2 DEF Cause
  <1>9. began'[d] <= now'
    BY <1>0, <1>1, <1>2 DEF Request
  <1> QED
    BY <1>0, <1>1, <1>5, <1>6, <1>7, <1>8, <1>9 DEF Request, InProgress, CredentialOf
\* One case per action of the request itself.
LEMMA OwnStep ==
  ASSUME IInv, NEW r \in Readers,
         Step(r) \/ \E a \in Asks : Begin(r, a) \/ RefuseCredential(r, a)
  PROVE  Request(r)'
  <1>0. TypeOK /\ Request(r)
    BY DEF IInv
  <1>n. /\ now \in Nat /\ began[r] \in Nat /\ result[r].expires \in Nat
        /\ Lease \in Nat \ {0} /\ Leeway \in Nat
        /\ \A k \in Records : k.exp \in Nat
        /\ \A c \in Credentials : Claims[c].exp \in Nat /\ Claims[c].nbf \in Nat
    BY <1>0, Numbers
  <1>k. config.kind \in {"api_key", "jwt"}
    BY <1>0, AuthenticationAssumption DEF TypeOK, Config
  <1>c. UNCHANGED <<config, store, now>>
    BY DEF Step, Begin, RefuseCredential, ReadSubject, LookupRefused, LookupFails,
           LookupByDigest, ValidateRecord, ParseToken, Verify, Admit
  <1>1. ASSUME NEW a \in Asks, Begin(r, a) PROVE Request(r)'
    <2>1. /\ pc'[r] = "subject" /\ ask'[r] = a /\ cred'[r] = CredentialOf(a)
          /\ window'[r] = {store[CredentialOf(a)]} /\ began'[r] = now
      BY <1>0, <1>1 DEF Begin, Goto, TypeOK
    <2>2. CredentialOK(a) /\ CredentialOf(a) \in Credentials
      BY <1>0, <1>1, OneCredential DEF Begin, TypeOK
    <2> QED
      BY <1>n, <1>c, <2>1, <2>2 DEF Request, InProgress, CredentialOK, CredentialOf
  <1>2. ASSUME NEW a \in Asks, RefuseCredential(r, a) PROVE Request(r)'
    <2>1. pc'[r] = "refused" /\ ask'[r] = a /\ began'[r] = began[r] /\ ~CredentialOK(a)
      BY <1>0, <1>2 DEF RefuseCredential, Refuse, Goto, TypeOK
    <2>2. ~CredentialOK(ask[r])'
      BY <1>c, <2>1 DEF CredentialOK
    <2> QED
      BY <1>0, <1>c, <2>1, <2>2 DEF Request, InProgress, Cause
  <1> USE <1>0, <1>c DEF Goto, Refuse, At
  <1>3. CASE ReadSubject(r)
    <2>1. UNCHANGED <<ask, cred, record, result, window, began>> /\ pc[r] = "subject"
      BY <1>3 DEF ReadSubject, TypeOK
    <2>2. CASE SubjectOK(ask[r])
      <3>1. pc'[r] = IF config.kind = "jwt" THEN "parse" ELSE "lookup"
        BY <1>3, <2>2 DEF ReadSubject, TypeOK
      <3> QED
        BY <1>k, <2>1, <3>1 DEF Request, InProgress, CredentialOK, CredentialOf
    <2>3. CASE ~SubjectOK(ask[r])
      <3>1. pc'[r] = "refused" /\ ~SubjectOK(ask[r])'
        BY <1>3, <2>1, <2>3 DEF ReadSubject, SubjectOK, TypeOK
      <3> QED
        BY <2>1, <3>1 DEF Request, InProgress, Cause
    <2> QED
      BY <2>2, <2>3
  <1>4. CASE LookupRefused(r)
    <2>1. /\ UNCHANGED <<ask, cred, record, result, window, began>> /\ pc[r] = "lookup"
          /\ pc'[r] = "refused" /\ (cred[r] \in Invalid \/ store[cred[r]] = None)
      BY <1>4 DEF LookupRefused, TypeOK
    <2> QED
      BY <2>1 DEF Request, InProgress, Cause, CredentialOK, SubjectOK
  <1>5. CASE LookupFails(r)
    <2>1. /\ UNCHANGED <<ask, cred, record, result, window, began>> /\ pc[r] = "lookup"
          /\ pc'[r] = "refused" /\ outcome'[r] = "backend"
      BY <1>5 DEF LookupFails, TypeOK
    <2> QED
      BY <2>1 DEF Request, InProgress, Cause
  <1>6. CASE LookupByDigest(r)
    <2>1. /\ UNCHANGED <<ask, cred, result, outcome, window, began>> /\ pc[r] = "lookup"
          /\ pc'[r] = "validate" /\ record'[r] = store[cred[r]] /\ store[cred[r]] # None
      BY <1>6 DEF LookupByDigest, TypeOK
    <2>2. cred[r] \in Credentials /\ Storable(store[cred[r]])
      BY <2>1 DEF Request, InProgress, Storable, TypeOK
    <2> QED
      BY <2>1, <2>2 DEF Request, InProgress, CredentialOK, CredentialOf
  <1>7. CASE ValidateRecord(r)
    <2>1. /\ UNCHANGED <<ask, cred, record, window, began>> /\ pc[r] = "validate"
          /\ config.kind = "api_key" /\ Storable(record[r])
          /\ record[r] \in window[r] \ {None} /\ record[r] \in Records
      BY <1>7 DEF ValidateRecord, Request, TypeOK
    <2>2. CASE Usable(record[r], now)
      <3>1. /\ pc'[r] = "verify" /\ result'[r] = [principal |-> ServicePrincipal(record[r]),
                                                  expires |-> ExpiresAt(record[r], now)]
        BY <1>7, <2>2 DEF ValidateRecord, TypeOK
      <3>2. Granted(r, record[r])'
        BY <1>n, <2>1, <2>2, <3>1, ExpiryOfKey DEF Granted, Request, Usable
      <3> QED
        BY <2>1, <3>1, <3>2 DEF Request, InProgress, CredentialOK, CredentialOf
    <2>3. CASE ~Usable(record[r], now)
      <3>1. pc'[r] = "refused"
        BY <1>7, <2>3 DEF ValidateRecord, TypeOK
      <3>2. record[r].disabled \/ (record[r].exp # NoExpiry /\ now >= record[r].exp)
        BY <1>n, <2>1, <2>3 DEF Usable
      <3> QED
        BY <2>1, <3>1, <3>2 DEF Request, InProgress, Cause
    <2> QED
      BY <2>2, <2>3
  <1>8. CASE ParseToken(r)
    <2> DEFINE c == Claims[cred[r]]
    <2>1. /\ UNCHANGED <<ask, cred, record, window, began>> /\ pc[r] = "parse"
          /\ config.kind = "jwt" /\ cred[r] \in Credentials /\ began[r] <= now
      BY <1>8 DEF ParseToken, Request, InProgress
    <2>2. CASE TokenOK(c) /\ Valid(c.principal)
      <3>1. pc'[r] = "verify" /\ result'[r] = [principal |-> c.principal, expires |-> c.exp]
        BY <1>8, <2>2 DEF ParseToken, TypeOK
      <3>2. Signed(r, c)'
        BY <2>1, <2>2, <3>1 DEF Signed, TokenOK
      <3> QED
        BY <2>1, <3>1, <3>2 DEF Request, InProgress, CredentialOK, CredentialOf
    <2>3. CASE ~(TokenOK(c) /\ Valid(c.principal))
      <3>1. pc'[r] = "refused"
        BY <1>8, <2>3 DEF ParseToken, TypeOK
      <3>2. ~c.signed \/ ~Valid(c.principal) \/ now >= c.exp \/ began[r] + Leeway < c.nbf
        BY <1>n, <2>1, <2>3 DEF TokenOK
      <3> QED
        BY <2>1, <3>1, <3>2 DEF Request, InProgress, Cause
    <2> QED
      BY <2>2, <2>3
  <1>9. CASE Verify(r) \/ Admit(r)
    <2>1. /\ UNCHANGED <<ask, cred, record, result, window, began>> /\ pc[r] \in {"verify", "sdk"}
          /\ pc'[r] \in {"sdk", "admitted", "refused"}
      BY <1>9 DEF Verify, Admit, TypeOK
    <2>2. CASE pc'[r] # "refused"
      <3>1. (\E k \in window[r] \ {None} : Granted(r, k)) =>
               (\E k \in window[r] \ {None} : Granted(r, k))'
        BY <2>1 DEF Granted
      <3>2. Signed(r, Claims[cred[r]]) => Signed(r, Claims[cred[r]])'
        BY <2>1 DEF Signed
      <3> QED
        BY <2>1, <2>2, <3>1, <3>2 DEF Request, InProgress, CredentialOK, CredentialOf
    <2>3. CASE pc'[r] = "refused"
      <3>1. ~Valid(result[r].principal) \/ result[r].expires = 0 \/ now >= result[r].expires
        <4>1. CASE Verify(r)
          <5>1. ~AuthenticationValid(result[r])
            BY <2>3, <4>1 DEF Verify, TypeOK
          <5> QED
            BY <1>n, <5>1 DEF AuthenticationValid
        <4>2. CASE Admit(r)
          <5>1. ~(now <= result[r].expires /\ Valid(result[r].principal))
            BY <2>3, <4>2 DEF Admit, TypeOK
          <5> QED
            BY <1>n, <5>1
        <4> QED
          BY <1>9, <4>1, <4>2
      <3>2. Cause(r)'
        <4>1. CASE config.kind = "jwt"
          <5>1. Signed(r, Claims[cred[r]]) /\ cred[r] \in Credentials
            BY <2>1, <4>1 DEF Request, InProgress
          <5>2. ~Valid(Claims[cred[r]].principal) \/ now >= Claims[cred[r]].exp
            BY <1>n, <3>1, <5>1 DEF Signed
          <5> QED
            BY <2>1, <4>1, <5>2 DEF Cause
        <4>2. CASE config.kind = "api_key"
          <5>1. PICK k \in window[r] \ {None} : Granted(r, k)
            BY <2>1, <4>2 DEF Request
          <5>k. k \in Records
            BY DEF TypeOK
          <5>2. Valid(result[r].principal) /\ now >= result[r].expires /\ k.exp \in Nat
            BY <1>n, <3>1, <5>1, <5>k, ServiceIsValid DEF Granted
          <5>3. now >= began[r] + Lease \/ (k.exp # NoExpiry /\ now >= k.exp)
            BY <1>n, <5>1, <5>2 DEF Granted
          <5> QED
            BY <2>1, <4>2, <5>1, <5>3 DEF Cause
        <4> QED
          BY <1>k, <4>1, <4>2
      <3> QED
        BY <2>1, <2>3, <3>2 DEF Request, InProgress
    <2> QED
      BY <2>2, <2>3
  <1> QED
    BY <1>1, <1>2, <1>3, <1>4, <1>5, <1>6, <1>7, <1>8, <1>9 DEF Step
-------------------------------------------------------------------------------
\* The invariant holds in every reachable state.
LEMMA Invariant == Spec => []IInv
  <1>1. IInv /\ [Next]_vars => IInv'
    <2> SUFFICES ASSUME IInv, [Next]_vars PROVE TypeOK' /\ \A d \in Readers : Request(d)'
      BY DEF IInv
    <2>1. TypeOK'
      BY TypeStep
    <2>2. ASSUME NEW d \in Readers PROVE Request(d)'
      <3>1. CASE UNCHANGED vars
        BY <3>1, SameRequest DEF vars, request, IInv
      <3>2. ASSUME NEW r \in Readers,
                   Step(r) \/ \E a \in Asks : Begin(r, a) \/ RefuseCredential(r, a)
            PROVE  Request(d)'
        BY <3>2, OwnStep, OtherRequests
      <3>3. ASSUME NEW c \in Credentials, NEW rec \in Records, Put(c, rec) PROVE Request(d)'
        BY <3>3, PutStep
      <3>4. CASE Tick
        BY <3>4, TickStep
      <3> QED
        BY <3>1, <3>2, <3>3, <3>4 DEF Next
    <2> QED
      BY <2>1, <2>2
  <1> QED
    BY <1>1, InvInit, PTL DEF Spec

\* Every variable of the authentication keeps its type.
THEOREM TypeCorrect == Spec => []TypeOK
  <1>1. IInv => TypeOK
    BY DEF IInv
  <1> QED
    BY <1>1, Invariant, PTL

\* Whoever is let in is who the one credential of the request stands for,
\* however the store changes while the request is on its way.
THEOREM AdmittedByOwnCredentialHolds == Spec => []AdmittedByOwnCredential
  <1>1. IInv => AdmittedByOwnCredential
    <2> SUFFICES ASSUME IInv, NEW r \in Readers, pc[r] \in {"sdk", "admitted"}
                 PROVE  /\ Sent(ask[r]) = {cred[r]}
                        /\ IF config.kind = "jwt"
                           THEN /\ Claims[cred[r]].signed
                                /\ result[r].principal = Claims[cred[r]].principal
                           ELSE \E rec \in window[r] \ {None} :
                                  ~rec.disabled /\ result[r].principal = ServicePrincipal(rec)
      BY DEF AdmittedByOwnCredential
    <2>1. CredentialOK(ask[r]) /\ cred[r] = CredentialOf(ask[r])
      BY DEF IInv, Request, InProgress
    <2>2. Sent(ask[r]) = {cred[r]}
      BY <2>1, OneCredential DEF IInv, TypeOK
    <2>3. CASE config.kind = "jwt"
      <3>1. Signed(r, Claims[cred[r]])
        BY <2>3 DEF IInv, Request
      <3> QED
        BY <2>2, <2>3, <3>1 DEF Signed
    <2>4. CASE config.kind # "jwt"
      <3>1. \E rec \in window[r] \ {None} : Granted(r, rec)
        BY <2>4 DEF IInv, Request
      <3> QED
        BY <2>2, <2>4, <3>1 DEF Granted
    <2> QED
      BY <2>3, <2>4
  <1> QED
    BY <1>1, Invariant, PTL

\* A request is refused for a cause of its own only.
THEOREM RefusedForCauseHolds == Spec => []RefusedForCause
  <1>1. IInv => RefusedForCause
    BY DEF IInv, Request, RefusedForCause, At
  <1> QED
    BY <1>1, Invariant, PTL

\* No request gets past the verifier with a credential that is over: the
\* second comparison with the clock makes up for the time since the first.
THEOREM NotPastExpiryHolds == Spec => NotPastExpiry
  <1>1. IInv /\ [Next]_vars =>
          [\A r \in Readers : At(r, "verify") /\ pc'[r] = "sdk" =>
             IF config.kind = "jwt"
             THEN now < Claims[cred[r]].exp /\ Claims[cred[r]].nbf <= now + Leeway
             ELSE /\ now < result[r].expires
                  /\ \E rec \in window[r] \ {None} :
                       ~rec.disabled /\ (rec.exp # NoExpiry => now < rec.exp)]_vars
    <2> SUFFICES ASSUME IInv, Next, NEW r \in Readers, pc[r] = "verify", pc'[r] = "sdk"
                 PROVE  IF config.kind = "jwt"
                        THEN now < Claims[cred[r]].exp /\ Claims[cred[r]].nbf <= now + Leeway
                        ELSE /\ now < result[r].expires
                             /\ \E rec \in window[r] \ {None} :
                                  ~rec.disabled /\ (rec.exp # NoExpiry => now < rec.exp)
      BY DEF At, vars, request
    <2>0. TypeOK /\ Request(r)
      BY DEF IInv
    <2>1. Verify(r)
      <3> USE <2>0 DEF TypeOK, Goto, Refuse, At
      <3>1. ~UNCHANGED pc
        OBVIOUS
      <3>2. PICK d \in Readers : Step(d) \/ \E a \in Asks : Begin(d, a) \/ RefuseCredential(d, a)
        BY <3>1 DEF Next, Put, Tick, request
      <3>3. d = r
        BY <3>2 DEF Step, Begin, RefuseCredential, ReadSubject, LookupRefused, LookupFails,
               LookupByDigest, ValidateRecord, ParseToken, Verify, Admit
      <3> QED
        BY <3>2, <3>3 DEF Step, Begin, RefuseCredential, ReadSubject, LookupRefused, LookupFails,
               LookupByDigest, ValidateRecord, ParseToken, Admit
    <2>2. AuthenticationValid(result[r])
      BY <2>0, <2>1 DEF Verify, Refuse, Goto, TypeOK
    <2>3. now < result[r].expires
      BY <2>0, <2>2, Numbers DEF AuthenticationValid
    <2>4. CASE config.kind = "jwt"
      BY <2>0, <2>3, <2>4 DEF Request, Signed
    <2>5. CASE config.kind # "jwt"
      <3>1. PICK rec \in window[r] \ {None} : Granted(r, rec)
        BY <2>0, <2>5 DEF Request
      <3>2. rec \in Records
        BY <2>0 DEF TypeOK
      <3>3. rec.exp # NoExpiry => now < rec.exp
        BY <2>0, <2>3, <3>1, <3>2, Numbers DEF Granted
      <3> QED
        BY <2>3, <2>5, <3>1, <3>3 DEF Granted
    <2> QED
      BY <2>4, <2>5
  <1> QED
    BY <1>1, Invariant, PTL DEF Spec, NotPastExpiry

===============================================================================
