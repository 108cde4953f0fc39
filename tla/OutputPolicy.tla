----------------------------- MODULE OutputPolicy -----------------------------
(***************************************************************************)
(* execution.secureOutput: what becomes of the value a capability returned *)
(* before it leaves the gateway.  The value is encoded, decoded, measured, *)
(* cut down to the white list and searched for secrets by redactSecrets,   *)
(* which calls itself for every field and element.                         *)
(*                                                                         *)
(* A document is a function from paths to kinds; a path is the sequence of *)
(* steps from the root, <<>>.  A step is a field's name or an array's      *)
(* element.  A name is the sequence of words it has between "-" and "_",   *)
(* in lower case, and how it is spelled, which alone tells two names of    *)
(* the same words apart; an element has no words.                          *)
(***************************************************************************)
EXTENDS Naturals, Sequences, FiniteSets, SequencesExt

CONSTANTS
  Values,      \* the documents that capabilities return
  WhiteLists,  \* sets of names: AllowedOutputFields, {} when there is none
  Limit        \* the largest encoding, in entries; 1 MiB in the code

Kinds == {"object", "array", "scalar", "big", "rounded", "[REDACTED]"}

Step == [words : Seq(STRING), spelled : STRING]
Path == Seq(Step)

ASSUME OutputAssumption ==
  /\ Limit \in Nat
  /\ \A v \in Values : /\ DOMAIN v \subseteq Path /\ <<>> \in DOMAIN v
                       /\ \A p \in DOMAIN v : \A k \in 0..Len(p) : SubSeq(p, 1, k) \in DOMAIN v
                       /\ \A p \in DOMAIN v : v[p] \in Kinds \ {"rounded", "[REDACTED]"}
  /\ WhiteLists \subseteq SUBSET Step

VARIABLES
  pc,        \* "encode", "filter", "redact", "returned" or "refused"
  produced,  \* ExecutionResult.Value
  allowed,   \* Descriptor.AllowedOutputFields
  document,  \* what the value was decoded to
  todo,      \* the paths that calls of redactSecrets are still to be made for
  changed    \* one of the calls made so far has changed something

vars == <<pc, produced, allowed, document, todo, changed>>

-------------------------------------------------------------------------------

\* encoding/json decodes every number to a float64: integers beyond 2^53 are
\* rounded
Decoded(kind) == IF kind = "big" THEN "rounded" ELSE kind

SecretWords == {<<"password">>, <<"secret">>, <<"token">>,
                <<"api", "key">>, <<"access", "key">>}

\* sensitiveKey : in lower case and with "_" for "-" the name is one of these,
\* or ends with "_" and one of these
SensitiveKey(step) == \E w \in SecretWords : IsSuffix(w, step.words)

\* Mutated form of Entries: arrays are not searched.
Mut_SkipsArrays(d, p) ==
  {q \in DOMAIN d : d[p] # "array" /\ q # <<>> /\ Front(q) = p}

\* What redactSecrets iterates over: the fields or elements of the value at p
Entries(d, p) == {q \in DOMAIN d : q # <<>> /\ Front(q) = p}

Secrets(d, p) == {q \in Entries(d, p) : SensitiveKey(Last(q))}

\* document with every secret in S replaced, whatever it held
Redacted(S) ==
  [q \in {r \in DOMAIN document : \A s \in S : ~IsStrictPrefix(s, r)} |->
     IF q \in S THEN "[REDACTED]" ELSE document[q]]

-------------------------------------------------------------------------------

Init ==
  /\ pc = "encode"
  /\ produced \in Values
  /\ allowed \in WhiteLists
  /\ document = <<>>
  /\ todo = {}
  /\ changed = FALSE

\* The value cannot be encoded, or its encoding is too large: all of it is
\* measured, also what the white list is going to drop
RefuseEncoding ==
  /\ pc = "encode"
  /\ pc' = "refused"
  /\ UNCHANGED <<produced, allowed, document, todo, changed>>

Encode ==
  /\ pc = "encode"
  /\ Cardinality(DOMAIN produced) <= Limit
  /\ document' = [p \in DOMAIN produced |-> Decoded(produced[p])]
  /\ pc' = "filter"
  /\ UNCHANGED <<produced, allowed, todo, changed>>

\* A white list, but the document is no object
RefuseShape ==
  /\ pc = "filter"
  /\ allowed # {} /\ document[<<>>] # "object"
  /\ pc' = "refused"
  /\ UNCHANGED <<produced, allowed, document, todo, changed>>

Passes(p) == allowed = {} \/ p = <<>> \/ Head(p) \in allowed

\* Fields that are not on the list are deleted with all they hold; then
\* redactSecrets is called with the document
Filter ==
  /\ pc = "filter"
  /\ allowed = {} \/ document[<<>>] = "object"
  /\ document' = [p \in {q \in DOMAIN document : Passes(q)} |-> document[p]]
  /\ todo' = {<<>>}
  /\ pc' = "redact"
  /\ UNCHANGED <<produced, allowed, changed>>

\* Mutated form of RedactSecrets: a nested call's answer replaces what was
\* known.
Mut_ForgetsChange(p) ==
  /\ pc = "redact" /\ p \in todo
  /\ document' = Redacted(Secrets(document, p))
  /\ todo' = (todo \ {p}) \union (Entries(document, p) \ Secrets(document, p))
  /\ changed' = (Secrets(document, p) # {})
  /\ UNCHANGED <<pc, produced, allowed>>

\* redactSecrets for the value at p: its secrets are replaced, and a call is
\* made for every other entry.  The code makes these calls depth first, in
\* the random order of a map's iteration; here any order is allowed.
RedactSecrets(p) ==
  /\ pc = "redact" /\ p \in todo
  /\ document' = Redacted(Secrets(document, p))
  /\ todo' = (todo \ {p}) \union (Entries(document, p) \ Secrets(document, p))
  /\ changed' = (changed \/ Secrets(document, p) # {})
  /\ UNCHANGED <<pc, produced, allowed>>

\* The document leaves, with a warning when something was changed
Leave ==
  /\ pc = "redact" /\ todo = {}
  /\ pc' = "returned"
  /\ UNCHANGED <<produced, allowed, document, todo, changed>>

Next ==
  RefuseEncoding \/ Encode \/ RefuseShape \/ Filter \/ (\E p \in todo : RedactSecrets(p)) \/ Leave

Spec == Init /\ [][Next]_vars

-------------------------------------------------------------------------------
\* Properties

\* Every variable keeps its type.
TypeOK ==
  /\ pc \in {"encode", "filter", "redact", "returned", "refused"}
  /\ produced \in Values /\ allowed \in WhiteLists
  /\ DOMAIN document \subseteq DOMAIN produced
  /\ \A p \in DOMAIN document : document[p] \in Kinds
  /\ todo \subseteq DOMAIN produced
  /\ changed \in BOOLEAN

\* The steps of p, the last one included, that name a secret
SecretSteps(p) == {i \in 1..Len(p) : SensitiveKey(p[i])}

\* Of a document that leaves, every field with a secret's name shows only that
\* it was redacted, at whatever depth and also inside arrays and inside fields
\* the white list names; and no other top-level field than those the white
\* list names is there.
NoSecretLeaves ==
  pc = "returned" =>
    \A p \in DOMAIN document :
      /\ SecretSteps(p) # {} => SecretSteps(p) = {Len(p)} /\ document[p] = "[REDACTED]"
      /\ allowed = {} \/ p = <<>> \/ p[1] \in allowed

\* Nothing else is lost or changed: an entry on the white list with no secret
\* on its path leaves as it was decoded, secrets leave a trace, and the caller
\* is warned exactly when one was there.
RestIsKept ==
  pc = "returned" =>
    /\ \A p \in DOMAIN produced :
         Passes(p) /\ SecretSteps(p) \subseteq {Len(p)} =>
           /\ p \in DOMAIN document
           /\ SecretSteps(p) = {} => document[p] = Decoded(produced[p])
    /\ changed <=> \E p \in DOMAIN produced : Passes(p) /\ SecretSteps(p) # {}

===============================================================================
