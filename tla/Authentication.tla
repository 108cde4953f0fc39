---------------------------- MODULE Authentication ----------------------------
(***************************************************************************)
(* How a request comes by its principal: the header middlewares and the    *)
(* token verifier of protocol/mcphttp/handler.go, the API key and JWT      *)
(* authenticators of package identity with MemoryAPIKeyStore, and the      *)
(* SDK's bearer middleware around them.  Keys are stored, disabled and     *)
(* replaced, and time passes, between any two steps of a request.          *)
(*                                                                         *)
(* Credentials are members of a set; the digest of a key is as good as the *)
(* key, since SHA-256 is taken to be injective on them.                    *)
(***************************************************************************)
EXTENDS Capability, SequencesExt

CONSTANTS
  Readers,      \* the requests
  Asks,         \* what their headers may be, see Ask
  Credentials,  \* the values a credential header may have
  None,         \* no credential, or no record
  Invalid,      \* credentials and subjects that validHTTPValue and validCredential refuse
  Records,      \* values of APIKeyRecord, see Record
  Claims,       \* Claims[c] : the JWT that c is, see Claim
  Configs,      \* see Config
  Lease,        \* APIKeyAuthenticatorConfig.AuthenticationLease
  Leeway,       \* the 30 s of jwt.WithLeeway
  MaxTime       \* bound of the clock

\* The headers of a request: the token of an Authorization header or None, the
\* values of the custom credential header and those of the subject header
Ask == [bearer : Credentials \union {None}, custom : Seq(Credentials), subjects : Seq(STRING)]

\* identity.APIKeyRecord ; a key that does not expire has the zero time
NoExpiry == 0
Record == [id : STRING, tenant : STRING, client : STRING, roles : SUBSET Roles,
           disabled : BOOLEAN, exp : Nat]

\* A token: `signed` when signature, algorithm, issuer and audience are right
\* and an expiry is there
Claim == [signed : BOOLEAN, nbf : Nat, exp : Nat, principal : Principal]

\* Config.CredentialHeader and Config.SubjectHeader are set; the authenticator
Config == [custom : BOOLEAN, subject : BOOLEAN, kind : {"api_key", "jwt"}]

ASSUME AuthenticationAssumption ==
  /\ None \notin Credentials
  /\ Asks \subseteq Ask /\ Asks # {}
  /\ Records \subseteq Record
  /\ Claims \in [Credentials -> Claim]
  /\ Configs \subseteq Config
  /\ Lease \in Nat \ {0} /\ Leeway \in Nat /\ MaxTime \in Nat \ {0}

VARIABLES
  config,   \* mcphttp.Config
  store,    \* MemoryAPIKeyStore.records
  now,      \* the clock
  pc,       \* where each request is
  ask,      \* its headers
  cred,     \* its credential
  record,   \* what LookupByDigest returned to it
  result,   \* its Authentication
  outcome,  \* how it was refused
  window,   \* history: what the store held under its credential since it began
  began     \* history: when it began

request == <<pc, ask, cred, record, result, outcome, window, began>>
vars == <<config, store, now, request>>

NoResult == [principal |-> None, expires |-> 0]
AnyAsk == CHOOSE a \in Asks : TRUE

Init ==
  /\ config \in Configs
  /\ store = [c \in Credentials |-> None]
  /\ now = 1
  /\ pc = [r \in Readers |-> "idle"]
  /\ ask = [r \in Readers |-> AnyAsk]
  /\ cred = [r \in Readers |-> None]
  /\ record = [r \in Readers |-> None]
  /\ result = [r \in Readers |-> NoResult]
  /\ outcome = [r \in Readers |-> "none"]
  /\ window = [r \in Readers |-> {}]
  /\ began = [r \in Readers |-> 0]

At(r, label) == pc[r] = label
Goto(r, label) == pc' = [pc EXCEPT ![r] = label]

Refuse(r, why) ==
  /\ Goto(r, "refused")
  /\ outcome' = [outcome EXCEPT ![r] = why]

-------------------------------------------------------------------------------
\* The store and the clock

\* Mutated form of Storable: Put does not look at the identity.
Mut_StoresAnything(rec) == TRUE

\* validAPIKeyIdentity
Storable(rec) == rec.id # "" /\ rec.tenant # "" /\ rec.client # ""

\* MemoryAPIKeyStore.Put ; it refuses other records and changes nothing
Put(c, rec) ==
  /\ Storable(rec)
  /\ store' = [store EXCEPT ![c] = rec]
  /\ window' = [r \in Readers |->
       IF cred[r] = c /\ pc[r] \notin {"admitted", "refused"}
       THEN window[r] \union {rec} ELSE window[r]]
  /\ UNCHANGED <<config, now, pc, ask, cred, record, result, outcome, began>>

Tick ==
  /\ now < MaxTime
  /\ now' = now + 1
  /\ UNCHANGED <<config, store, request>>

-------------------------------------------------------------------------------
\* The credential of a request

\* credentialHeaderMiddleware, or the SDK's reading of the Authorization header
CredentialOK(a) ==
  IF config.custom
  THEN a.bearer = None /\ Len(a.custom) = 1 /\ a.custom[1] \notin Invalid
  ELSE a.bearer # None

CredentialOf(a) == IF config.custom THEN a.custom[1] ELSE a.bearer

\* subjectFromRequest
SubjectOK(a) == config.subject => Len(a.subjects) = 1 /\ a.subjects[1] \notin Invalid

Begin(r, a) ==
  /\ At(r, "idle")
  /\ CredentialOK(a)
  /\ ask' = [ask EXCEPT ![r] = a]
  /\ cred' = [cred EXCEPT ![r] = CredentialOf(a)]
  /\ window' = [window EXCEPT ![r] = {store[CredentialOf(a)]}]
  /\ began' = [began EXCEPT ![r] = now]
  /\ Goto(r, "subject")
  /\ UNCHANGED <<config, store, now, record, result, outcome>>

RefuseCredential(r, a) ==
  /\ At(r, "idle")
  /\ ~CredentialOK(a)
  /\ ask' = [ask EXCEPT ![r] = a]
  /\ Refuse(r, "credential")
  /\ UNCHANGED <<config, store, now, cred, record, result, window, began>>

\* Authenticate is called, or subjectFromRequest failed
ReadSubject(r) ==
  /\ At(r, "subject")
  /\ IF SubjectOK(ask[r])
     THEN Goto(r, IF config.kind = "jwt" THEN "parse" ELSE "lookup") /\ UNCHANGED outcome
     ELSE Refuse(r, "subject")
  /\ UNCHANGED <<config, store, now, ask, cred, record, result, window, began>>

-------------------------------------------------------------------------------
\* APIKeyAuthenticator.Authenticate

\* An invalid credential or an unknown key
LookupRefused(r) ==
  /\ At(r, "lookup")
  /\ cred[r] \in Invalid \/ store[cred[r]] = None
  /\ Refuse(r, "unauthenticated")
  /\ UNCHANGED <<config, store, now, ask, cred, record, result, window, began>>

\* Any other error of an APIKeyStore
LookupFails(r) ==
  /\ At(r, "lookup")
  /\ cred[r] \notin Invalid
  /\ Refuse(r, "backend")
  /\ UNCHANGED <<config, store, now, ask, cred, record, result, window, began>>

LookupByDigest(r) ==
  /\ At(r, "lookup")
  /\ cred[r] \notin Invalid /\ store[cred[r]] # None
  /\ record' = [record EXCEPT ![r] = store[cred[r]]]
  /\ Goto(r, "validate")
  /\ UNCHANGED <<config, store, now, ask, cred, result, outcome, window, began>>

\* Mutated form of Usable: a disabled key is good.
Mut_DisabledIsGood(rec, t) == Storable(rec) /\ (rec.exp = NoExpiry \/ rec.exp > t)

\* validateAPIKeyRecord
Usable(rec, t) ==
  /\ Storable(rec)
  /\ ~rec.disabled
  /\ rec.exp = NoExpiry \/ rec.exp > t

ServicePrincipal(rec) ==
  [subject |-> SubjectService, tenant |-> rec.tenant, user |-> "",
   client |-> rec.client, roles |-> rec.roles]

\* Mutated form of ExpiresAt: a key without expiry ends at the zero time.
Mut_ZeroIsEarlier(rec, t) == IF rec.exp < t + Lease THEN rec.exp ELSE t + Lease

ExpiresAt(rec, t) ==
  IF rec.exp # NoExpiry /\ rec.exp < t + Lease THEN rec.exp ELSE t + Lease

\* The clock is read after the lookup
ValidateRecord(r) ==
  /\ At(r, "validate")
  /\ IF Usable(record[r], now)
     THEN /\ result' = [result EXCEPT ![r] = [principal |-> ServicePrincipal(record[r]),
                                              expires |-> ExpiresAt(record[r], now)]]
          /\ Goto(r, "verify")
          /\ UNCHANGED outcome
     ELSE Refuse(r, "unauthenticated") /\ UNCHANGED result
  /\ UNCHANGED <<config, store, now, ask, cred, record, window, began>>

-------------------------------------------------------------------------------
\* JWTAuthenticator.Authenticate

TokenOK(c) == c.signed /\ now < c.exp + Leeway /\ c.nbf <= now + Leeway

ParseToken(r) ==
  /\ At(r, "parse")
  /\ LET c == Claims[cred[r]] IN
       IF TokenOK(c) /\ Valid(c.principal)
       THEN /\ result' = [result EXCEPT ![r] = [principal |-> c.principal, expires |-> c.exp]]
            /\ Goto(r, "verify")
            /\ UNCHANGED outcome
       ELSE Refuse(r, "unauthenticated") /\ UNCHANGED result
  /\ UNCHANGED <<config, store, now, ask, cred, record, window, began>>

-------------------------------------------------------------------------------
\* adaptAuthenticator after Authenticate, the SDK's check and New's server

\* Mutated form of AuthenticationValid: the expiry is not compared again.
Mut_ExpiryNotCompared(res) == Valid(res.principal) /\ res.expires # 0

\* Authentication.Valid
AuthenticationValid(res) == Valid(res.principal) /\ res.expires # 0 /\ res.expires > now

Verify(r) ==
  /\ At(r, "verify")
  /\ IF AuthenticationValid(result[r])
     THEN Goto(r, "sdk") /\ UNCHANGED outcome
     ELSE Refuse(r, "invalid")
  /\ UNCHANGED <<config, store, now, ask, cred, record, result, window, began>>

\* RequireBearerToken refuses a token that has expired meanwhile; New takes
\* the principal out of the others
Admit(r) ==
  /\ At(r, "sdk")
  /\ IF now <= result[r].expires /\ Valid(result[r].principal)
     THEN Goto(r, "admitted") /\ UNCHANGED outcome
     ELSE Refuse(r, "expired")
  /\ UNCHANGED <<config, store, now, ask, cred, record, result, window, began>>

-------------------------------------------------------------------------------

Step(r) ==
  \/ ReadSubject(r)
  \/ LookupRefused(r) \/ LookupFails(r) \/ LookupByDigest(r) \/ ValidateRecord(r)
  \/ ParseToken(r)
  \/ Verify(r) \/ Admit(r)

Next ==
  \/ \E r \in Readers : Step(r) \/ \E a \in Asks : Begin(r, a) \/ RefuseCredential(r, a)
  \/ \E c \in Credentials, rec \in Records : Put(c, rec)
  \/ Tick

Spec == Init /\ [][Next]_vars

-------------------------------------------------------------------------------
\* Properties

\* The principals that the keys and the tokens stand for
Principals ==
  {ServicePrincipal(rec) : rec \in Records} \union {Claims[c].principal : c \in Credentials}

\* Every variable keeps its type, the store holds complete records only, and an
\* authentication names a principal of a key or a token.
TypeOK ==
  /\ config \in Configs
  /\ store \in [Credentials -> {rec \in Records : rec.id # "" /\ rec.tenant # "" /\ rec.client # ""}
                               \union {None}]
  /\ now \in 1..MaxTime
  /\ pc \in [Readers -> {"idle", "subject", "lookup", "validate", "parse", "verify", "sdk",
                         "admitted", "refused"}]
  /\ ask \in [Readers -> Asks]
  /\ cred \in [Readers -> Credentials \union {None}]
  /\ record \in [Readers -> Records \union {None}]
  /\ result \in [Readers -> [principal : Principals \union {None}, expires : Nat]]
  /\ outcome \in [Readers -> {"none", "credential", "subject", "unauthenticated", "backend",
                              "invalid", "expired"}]
  /\ window \in [Readers -> SUBSET (Records \union {None})]
  /\ began \in [Readers -> 0..MaxTime]

\* Every credential that a request carries where one is looked for
Sent(a) ==
  ({a.bearer} \ {None}) \union (IF config.custom THEN ToSet(a.custom) ELSE {})

\* Whoever is let in is who the one credential of the request stands for: a
\* service whose key the store held, enabled, at some moment since the request
\* began, with the roles it had there, or the user of a signed token.  So a key
\* that is disabled or whose roles change is so for every request begun later.
AdmittedByOwnCredential ==
  \A r \in Readers : pc[r] \in {"sdk", "admitted"} =>
    /\ Sent(ask[r]) = {cred[r]}
    /\ IF config.kind = "jwt"
       THEN Claims[cred[r]].signed /\ result[r].principal = Claims[cred[r]].principal
       ELSE \E rec \in window[r] \ {None} :
              ~rec.disabled /\ result[r].principal = ServicePrincipal(rec)

\* No request gets past the verifier at or after the expiry of its credential,
\* although key and token were checked at an earlier reading of the clock, and
\* the token with a leeway; nor when the lease that began with it is over.
NotPastExpiry ==
  [][\A r \in Readers : At(r, "verify") /\ pc'[r] = "sdk" =>
       IF config.kind = "jwt"
       THEN now < Claims[cred[r]].exp /\ Claims[cred[r]].nbf <= now + Leeway
       ELSE /\ now < result[r].expires
            /\ \E rec \in window[r] \ {None} : ~rec.disabled /\ (rec.exp # NoExpiry => now < rec.exp)]_vars

\* Why a request may be refused: headers that do not name one credential and
\* one subject, a failing store, a key that was unknown, disabled or expired at
\* some moment of the request, a lease that ran out, or a bad token
Cause(r) ==
  \/ ~CredentialOK(ask[r]) \/ ~SubjectOK(ask[r])
  \/ outcome[r] = "backend"
  \/ /\ config.kind = "api_key"
     /\ \/ cred[r] \in Invalid
        \/ now >= began[r] + Lease
        \/ \E rec \in window[r] :
             rec # None => rec.disabled \/ (rec.exp # NoExpiry /\ now >= rec.exp)
  \/ /\ config.kind = "jwt"
     /\ LET c == Claims[cred[r]] IN
          \/ ~c.signed \/ ~Valid(c.principal)
          \/ now >= c.exp \/ began[r] + Leeway < c.nbf

\* No request is refused without a cause of its own, whatever happens to keys
\* and clock between the steps of its authentication.
RefusedForCause == \A r \in Readers : At(r, "refused") => Cause(r)

===============================================================================
