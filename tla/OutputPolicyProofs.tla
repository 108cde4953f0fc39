-------------------------- MODULE OutputPolicyProofs --------------------------
(***************************************************************************)
(* What OutputPolicy guarantees for all documents, of any depth and width, *)
(* for all white lists and any limit.                                      *)
(***************************************************************************)
EXTENDS OutputPolicy, SequenceTheorems, TLAPS

-------------------------------------------------------------------------------
\* Paths

\* The prefix of p that is one step longer than its prefix of length k.
LEMMA NextPrefix ==
  ASSUME NEW p \in Path, NEW k \in 0..(Len(p) - 1), NEW e, e = SubSeq(p, 1, k + 1)
  PROVE  /\ e \in Path /\ Len(e) = k + 1 /\ e # <<>>
         /\ Front(e) = SubSeq(p, 1, k)
         /\ Last(e) = p[k + 1]
         /\ k + 1 = Len(p) => e = p
         /\ k + 1 < Len(p) => IsStrictPrefix(e, p)
  <1>1. /\ e \in Path /\ Len(e) = k + 1
        /\ \A i \in 1..(k + 1) : e[i] = p[i]
    <2>1. \A i \in 1..(k + 1) : p[i] \in Step
      BY DEF Path
    <2>2. /\ SubSeq(p, 1, k + 1) \in Seq(Step)
          /\ Len(SubSeq(p, 1, k + 1)) = (IF 1 <= k + 1 THEN (k + 1) - 1 + 1 ELSE 0)
          /\ \A i \in 1..((k + 1) - 1 + 1) : SubSeq(p, 1, k + 1)[i] = p[1 + i - 1]
      BY <2>1, SubSeqProperties DEF Path
    <2> QED
      BY <2>2 DEF Path
  <1>2. Front(e) = SubSeq(p, 1, k)
    <2>1. Front(e) = SubSeq(e, 1, k)
      BY <1>1 DEF Front
    <2>2. CASE k = 0
      BY <2>1, <2>2, SubSeqEmpty
    <2>3. CASE k > 0
      <3>1. SubSeq(SubSeq(p, 1, k + 1), 1, k) = SubSeq(p, 1, k)
        <4>1. p \in Seq(Step) /\ 1 \in 1..Len(p) /\ k + 1 \in 1..Len(p)
          BY <2>3 DEF Path
        <4>2. 1 \in 1..((k + 1) - 1 + 1) /\ k \in 1..((k + 1) - 1 + 1)
          BY <2>3
        <4>3. SubSeq(SubSeq(p, 1, k + 1), 1, k) = SubSeq(p, 1 + 1 - 1, 1 + k - 1)
          BY <4>1, <4>2, SubSeqOfSubSeq
        <4> QED
          BY <4>3
      <3> QED
        BY <2>1, <3>1
    <2> QED
      BY <2>2, <2>3
  <1>3. Last(e) = p[k + 1] /\ e # <<>>
    BY <1>1 DEF Last
  <1>4. k + 1 = Len(p) => e = p
    BY SubSeqFull DEF Path
  <1>5. k + 1 < Len(p) => IsStrictPrefix(e, p)
    <2>1. SubSeq(e, 1, Len(e)) = e
      BY <1>1, SubSeqFull DEF Path
    <2> QED
      BY <1>1, <2>1 DEF IsStrictPrefix, IsPrefix
  <1> QED
    BY <1>1, <1>2, <1>3, <1>4, <1>5

\* A strict prefix of p is one of p's prefixes, and ends with one of its steps.
LEMMA StrictPrefix ==
  ASSUME NEW s \in Path, NEW p \in Path, s # <<>>, IsStrictPrefix(s, p)
  PROVE  Len(s) \in 1..(Len(p) - 1) /\ s = SubSeq(p, 1, Len(s)) /\ Last(s) = p[Len(s)]
  <1>1. SubSeq(s, 1, Len(s)) = s /\ SubSeq(p, 1, Len(p)) = p
    BY SubSeqFull DEF Path
  <1>2. Len(s) \in 1..(Len(p) - 1)
    BY <1>1 DEF IsStrictPrefix, IsPrefix, Path
  <1>3. s = SubSeq(p, 1, Len(s))
    BY <1>1 DEF IsStrictPrefix, IsPrefix
  <1>4. Last(s) = p[Len(s)]
    <2>1. PICK k \in 0..(Len(p) - 1) : k + 1 = Len(s)
      BY <1>2
    <2>2. s = SubSeq(p, 1, k + 1)
      BY <1>3, <2>1
    <2>3. Last(s) = p[k + 1]
      BY <2>2, NextPrefix
    <2> QED
      BY <2>1, <2>3
  <1> QED
    BY <1>2, <1>3, <1>4

\* A strict prefix of one of p's prefixes is a strict prefix of p.
LEMMA PrefixOfPrefix ==
  ASSUME NEW p \in Path, NEW k \in 0..Len(p), NEW q \in Path, q = SubSeq(p, 1, k),
         NEW s \in Path, s # <<>>, IsStrictPrefix(s, q)
  PROVE  IsStrictPrefix(s, p)
  <1>1. Len(s) \in 1..(Len(q) - 1) /\ s = SubSeq(q, 1, Len(s))
    BY StrictPrefix
  <1>2. Len(q) = k
    <2>1. k > 0
      BY <1>1, SubSeqEmpty DEF Path
    <2>2. PICK j \in 0..(Len(p) - 1) : j + 1 = k
      BY <2>1
    <2>3. q = SubSeq(p, 1, j + 1)
      BY <2>2
    <2> QED
      BY <2>2, <2>3, NextPrefix
  <1>3. SubSeq(q, 1, Len(s)) = SubSeq(p, 1, Len(s))
    <2>1. p \in Seq(Step) /\ 1 \in 1..Len(p) /\ k \in 1..Len(p)
      BY <1>1, <1>2 DEF Path
    <2>2. 1 \in 1..(k - 1 + 1) /\ Len(s) \in 1..(k - 1 + 1)
      BY <1>1, <1>2
    <2>3. SubSeq(SubSeq(p, 1, k), 1, Len(s)) = SubSeq(p, 1 + 1 - 1, 1 + Len(s) - 1)
      BY <2>1, <2>2, SubSeqOfSubSeq
    <2> QED
      BY <1>1, <2>3
  <1>4. PICK j \in 0..(Len(p) - 1) : j + 1 = Len(s) /\ j + 1 < Len(p)
    <2>1. Len(s) \in 1..(k - 1) /\ k <= Len(p) /\ Len(p) \in Nat
      BY <1>1, <1>2 DEF Path
    <2>2. (Len(s) - 1) \in 0..(Len(p) - 1) /\ (Len(s) - 1) + 1 = Len(s) /\ Len(s) < Len(p)
      BY <2>1
    <2> QED
      BY <2>2
  <1>5. s = SubSeq(p, 1, j + 1)
    BY <1>1, <1>3, <1>4
  <1> QED
    BY <1>4, <1>5, NextPrefix

\* The empty prefix, and the first step of a longer one.
LEMMA PrefixEnds ==
  ASSUME NEW p \in Path, NEW k \in 0..Len(p)
  PROVE  /\ k = 0 => SubSeq(p, 1, k) = <<>>
         /\ k = Len(p) => SubSeq(p, 1, k) = p
         /\ k > 0 => (SubSeq(p, 1, k) # <<>> /\ Head(SubSeq(p, 1, k)) = Head(p))
  <1>1. k = 0 => SubSeq(p, 1, k) = <<>>
    BY SubSeqEmpty
  <1>2. k = Len(p) => SubSeq(p, 1, k) = p
    BY SubSeqFull DEF Path
  <1>3. CASE k > 0
    <2>1. 1 \in 1..Len(p) /\ k \in 1..Len(p)
      BY <1>3
    <2>2. Head(SubSeq(p, 1, k)) = p[1]
      BY <2>1, HeadTailOfSubSeq DEF Path
    <2>3. SubSeq(p, 1, k) # <<>>
      BY <2>1 DEF Path
    <2>4. Head(p) = p[1]
      BY <2>1 DEF Path
    <2> QED
      BY <1>1, <1>2, <1>3, <2>2, <2>3, <2>4
  <1>4. CASE k = 0
    BY <1>1, <1>2, <1>4
  <1> QED
    BY <1>3, <1>4

-------------------------------------------------------------------------------
\* The inductive invariant

\* Of what has a secret's name, a prefix is still to be searched, or it is the
\* last step and was replaced.
Searched(p) ==
  \A i \in SecretSteps(p) :
    \/ i = Len(p) /\ document[p] = "[REDACTED]"
    \/ \E k \in 0..(i - 1) : SubSeq(p, 1, k) \in todo

\* What passes and is not below a secret is there.
Kept(p) ==
  Passes(p) /\ SecretSteps(p) \subseteq {Len(p)} =>
    /\ p \in DOMAIN document
    /\ SecretSteps(p) = {} => document[p] = Decoded(produced[p])

SecretProduced == \E p \in DOMAIN produced : Passes(p) /\ SecretSteps(p) # {}

\* While redactSecrets is at work, and afterwards
Redacting ==
  /\ DOMAIN document \subseteq {p \in DOMAIN produced : Passes(p)}
  /\ \A p \in DOMAIN document : \A k \in 0..Len(p) : SubSeq(p, 1, k) \in DOMAIN document
  /\ \A p \in DOMAIN document : Searched(p)
  /\ \A p \in DOMAIN produced : Kept(p)
  /\ changed => SecretProduced
  /\ ~changed => \A p \in DOMAIN produced :
       Passes(p) => p \in DOMAIN document /\ document[p] = Decoded(produced[p])
  /\ todo \subseteq DOMAIN produced
  /\ \A p \in DOMAIN document : document[p] \in Kinds
  /\ pc = "returned" => todo = {}

IInv ==
  /\ pc \in {"encode", "filter", "redact", "returned", "refused"}
  /\ produced \in Values /\ allowed \in WhiteLists /\ changed \in BOOLEAN
  /\ pc \in {"encode", "filter"} => todo = {} /\ ~changed
  /\ pc = "encode" => document = <<>>
  /\ pc = "filter" => document = [p \in DOMAIN produced |-> Decoded(produced[p])]
  /\ pc \in {"redact", "returned"} => Redacting
  /\ pc = "refused" => TypeOK

\* Nothing is decoded at first.
LEMMA InvInit == Init => IInv
  BY DEF Init, IInv

\* What is produced is a document: with a path, all its prefixes are there.
LEMMA ProducedIsDocument ==
  ASSUME IInv, NEW p \in DOMAIN produced
  PROVE  /\ p \in Path /\ \A k \in 0..Len(p) : SubSeq(p, 1, k) \in DOMAIN produced
         /\ <<>> \in DOMAIN produced
         /\ produced[p] \in Kinds \ {"rounded", "[REDACTED]"}
  BY OutputAssumption DEF IInv

\* A value has the type of a document before the search, too.
LEMMA InvTypes == IInv => TypeOK
  <1> SUFFICES ASSUME IInv PROVE TypeOK
    OBVIOUS
  <1>1. CASE pc = "encode"
    BY <1>1 DEF IInv, TypeOK
  <1>2. CASE pc = "filter"
    <2>1. \A p \in DOMAIN produced : Decoded(produced[p]) \in Kinds
      BY ProducedIsDocument DEF Decoded, Kinds
    <2> QED
      BY <1>2, <2>1 DEF IInv, TypeOK
  <1>3. CASE pc \in {"redact", "returned"}
    BY <1>3 DEF IInv, TypeOK, Redacting
  <1> QED
    BY <1>1, <1>2, <1>3 DEF IInv

-------------------------------------------------------------------------------
\* The steps

\* The white list leaves a document, and the search starts at its root.
LEMMA FilterKeeps ==
  ASSUME IInv, Filter
  PROVE  Redacting'
  <1>1. /\ pc = "filter" /\ pc' = "redact" /\ todo' = {<<>>}
        /\ document = [p \in DOMAIN produced |-> Decoded(produced[p])]
        /\ document' = [p \in {q \in DOMAIN produced : Passes(q)} |-> Decoded(produced[p])]
        /\ ~changed /\ UNCHANGED <<produced, allowed, changed>>
    BY DEF Filter, IInv
  <1>2. \A p : Passes(p)' = Passes(p)
    BY <1>1 DEF Passes
  <1>3. ASSUME NEW p \in DOMAIN produced, Passes(p), NEW k \in 0..Len(p)
        PROVE  SubSeq(p, 1, k) \in DOMAIN produced /\ Passes(SubSeq(p, 1, k))
    <2>1. p \in Path /\ SubSeq(p, 1, k) \in DOMAIN produced
      BY ProducedIsDocument
    <2>2. CASE k = 0
      BY <2>1, <2>2, PrefixEnds DEF Passes
    <2>3. CASE k > 0
      <3>1. p # <<>>
        BY <2>1, <2>3 DEF Path
      <3> QED
        BY <1>3, <2>1, <2>3, <3>1, PrefixEnds DEF Passes
    <2> QED
      BY <2>1, <2>2, <2>3
  <1>4. \A p \in DOMAIN document' : Searched(p)'
    <2>1. ASSUME NEW p \in DOMAIN produced, NEW i \in SecretSteps(p)
          PROVE  \E k \in 0..(i - 1) : SubSeq(p, 1, k) \in todo'
      <3>1. p \in Path /\ 0 \in 0..(i - 1)
        BY ProducedIsDocument DEF SecretSteps
      <3>2. SubSeq(p, 1, 0) = <<>>
        BY SubSeqEmpty
      <3> QED
        BY <1>1, <3>1, <3>2
    <2> QED
      BY <1>1, <2>1 DEF Searched
  <1>5. \A p \in DOMAIN produced' : Kept(p)'
    BY <1>1, <1>2 DEF Kept
  <1>6. \A p \in DOMAIN document' : document'[p] \in Kinds
    BY <1>1, ProducedIsDocument DEF Decoded, Kinds
  <1>7. todo' \subseteq DOMAIN produced'
    BY <1>1, OutputAssumption DEF IInv
  <1>8. \A p \in DOMAIN document' : \A k \in 0..Len(p) : SubSeq(p, 1, k) \in DOMAIN document'
    BY <1>1, <1>3
  <1> QED
    BY <1>1, <1>2, <1>4, <1>5, <1>6, <1>7, <1>8 DEF Redacting

\* One call of redactSecrets: what it does not replace it hands on.
LEMMA RedactKeeps ==
  ASSUME IInv, NEW t \in todo, RedactSecrets(t)
  PROVE  Redacting'
  <1> DEFINE S == Secrets(document, t)
             stays(p) == \A s \in S : ~IsStrictPrefix(s, p)
  <1>1. /\ Redacting /\ pc = "redact" /\ UNCHANGED <<pc, produced, allowed>>
        /\ document' = [q \in {r \in DOMAIN document : stays(r)} |->
                         IF q \in S THEN "[REDACTED]" ELSE document[q]]
        /\ todo' = (todo \ {t}) \union (Entries(document, t) \ S)
        /\ changed' = (changed \/ S # {})
    BY DEF RedactSecrets, Redacted, IInv
  <1>2. \A p : Passes(p)' = Passes(p)
    BY <1>1 DEF Passes
  <1>3. /\ DOMAIN document \subseteq DOMAIN produced
        /\ DOMAIN produced \subseteq Path
        /\ t \in Path
    BY <1>1, ProducedIsDocument DEF Redacting
  <1>4. ASSUME NEW s \in S
        PROVE  /\ s \in DOMAIN document /\ s \in Path /\ s # <<>>
               /\ Front(s) = t /\ SensitiveKey(Last(s))
               /\ Len(s) \in SecretSteps(s)
    <2>1. s \in DOMAIN document /\ s # <<>> /\ Front(s) = t /\ SensitiveKey(Last(s))
      BY DEF Secrets, Entries
    <2>2. s \in Path
      BY <1>3, <2>1
    <2>3. Len(s) \in 1..Len(s) /\ Last(s) = s[Len(s)]
      BY <2>1, <2>2 DEF Path, Last
    <2> QED
      BY <2>1, <2>2, <2>3 DEF SecretSteps
  \* What is below a secret has a secret step before its last.
  <1>5. ASSUME NEW p \in Path, ~stays(p)
        PROVE  \E i \in SecretSteps(p) : i < Len(p)
    <2>1. PICK s \in S : IsStrictPrefix(s, p)
      BY <1>5
    <2>2. Len(s) \in 1..(Len(p) - 1) /\ Last(s) = p[Len(s)]
      BY <1>4, <2>1, StrictPrefix
    <2>3. Len(s) \in SecretSteps(p)
      <3>1. SensitiveKey(p[Len(s)])
        BY <1>4, <2>2
      <3>2. Len(s) \in 1..Len(p)
        BY <2>2 DEF Path
      <3> QED
        BY <3>1, <3>2 DEF SecretSteps
    <2> QED
      BY <2>2, <2>3 DEF Path
  <1> HIDE DEF S
  <1>6. \A p \in DOMAIN document' : p \in DOMAIN document /\ p \in Path /\ stays(p)
    BY <1>1, <1>3
  <1>7. \A p \in DOMAIN document' : Searched(p)'
    <2> SUFFICES ASSUME NEW p \in DOMAIN document', NEW i \in SecretSteps(p)
                 PROVE  \/ i = Len(p) /\ document'[p] = "[REDACTED]"
                        \/ \E k \in 0..(i - 1) : SubSeq(p, 1, k) \in todo'
      BY DEF Searched
    <2>1. i \in 1..Len(p) /\ SensitiveKey(p[i])
      BY DEF SecretSteps
    <2>2. CASE i = Len(p) /\ document[p] = "[REDACTED]"
      BY <1>1, <1>6, <2>2
    <2>3. ASSUME NEW k \in 0..(i - 1), SubSeq(p, 1, k) \in todo, SubSeq(p, 1, k) # t
          PROVE  SubSeq(p, 1, k) \in todo'
      BY <1>1, <2>3
    <2>4. ASSUME NEW k \in 0..(i - 1), SubSeq(p, 1, k) = t
          PROVE  \/ i = Len(p) /\ document'[p] = "[REDACTED]"
                 \/ \E j \in 0..(i - 1) : SubSeq(p, 1, j) \in todo'
      <3> DEFINE e == SubSeq(p, 1, k + 1)
      <3>1. k \in 0..(Len(p) - 1) /\ k + 1 \in 0..Len(p) /\ p \in Path /\ p \in DOMAIN document
        BY <1>6, <2>1 DEF Path
      <3>2. /\ e # <<>> /\ Front(e) = t /\ Last(e) = p[k + 1]
            /\ k + 1 = Len(p) => e = p
            /\ k + 1 < Len(p) => IsStrictPrefix(e, p)
        BY <2>4, <3>1, NextPrefix
      <3>3. e \in Entries(document, t)
        BY <1>1, <3>1, <3>2 DEF Redacting, Entries
      <3>4. CASE e \in S
        <4>1. ~IsStrictPrefix(e, p)
          BY <1>6, <3>4
        <4>2. k + 1 = Len(p) /\ e = p
          BY <3>1, <3>2, <4>1 DEF Path
        <4>3. i = Len(p)
          BY <2>1, <4>2 DEF Path
        <4> QED
          BY <1>1, <1>6, <3>4, <4>2, <4>3
      <3>5. CASE e \notin S
        <4>1. e \in todo'
          BY <1>1, <3>3, <3>5
        <4>2. k + 1 # i
          <5>1. ~SensitiveKey(Last(e))
            BY <3>3, <3>5 DEF S, Secrets
          <5> QED
            BY <2>1, <3>2, <5>1
        <4>3. k + 1 \in 0..(i - 1)
          BY <2>1, <4>2
        <4> QED
          BY <4>1, <4>3
      <3> QED
        BY <3>4, <3>5
    <2> QED
      BY <1>1, <1>6, <2>2, <2>3, <2>4 DEF Redacting, Searched
  <1>8. \A p \in DOMAIN produced' : Kept(p)'
    <2> SUFFICES ASSUME NEW p \in DOMAIN produced, Passes(p), SecretSteps(p) \subseteq {Len(p)}
                 PROVE  /\ p \in DOMAIN document'
                        /\ SecretSteps(p) = {} => document'[p] = Decoded(produced[p])
      BY <1>1, <1>2 DEF Kept
    <2>1. p \in DOMAIN document /\ (SecretSteps(p) = {} => document[p] = Decoded(produced[p]))
      BY <1>1 DEF Redacting, Kept
    <2>2. stays(p)
      BY <1>3, <1>5
    <2>3. SecretSteps(p) = {} => p \notin S
      BY <1>4
    <2> QED
      BY <1>1, <2>1, <2>2, <2>3
  <1>9. changed' => SecretProduced'
    <2>1. S # {} => SecretProduced
      BY <1>1, <1>4 DEF Redacting, SecretProduced
    <2>2. SecretProduced' = SecretProduced
      BY <1>1, <1>2 DEF SecretProduced
    <2> QED
      BY <1>1, <2>1, <2>2 DEF Redacting
  <1>10. ~changed' => \A p \in DOMAIN produced' :
           Passes(p)' => p \in DOMAIN document' /\ document'[p] = Decoded(produced'[p])
    <2>1. S = {} => document' = [q \in DOMAIN document |-> document[q]]
      BY <1>1
    <2> QED
      BY <1>1, <1>2, <2>1 DEF Redacting, IInv
  <1>11. \A p \in DOMAIN document' : \A k \in 0..Len(p) : SubSeq(p, 1, k) \in DOMAIN document'
    <2> SUFFICES ASSUME NEW p \in DOMAIN document', NEW k \in 0..Len(p)
                 PROVE  SubSeq(p, 1, k) \in DOMAIN document'
      OBVIOUS
    <2> DEFINE q == SubSeq(p, 1, k)
    <2>1. q \in DOMAIN document /\ q \in Path
      BY <1>1, <1>3, <1>6 DEF Redacting
    <2>2. ASSUME NEW s \in S, IsStrictPrefix(s, q) PROVE IsStrictPrefix(s, p)
      BY <1>4, <1>6, <2>1, <2>2, PrefixOfPrefix
    <2> QED
      BY <1>1, <1>6, <2>1, <2>2
  <1>12. todo' \subseteq DOMAIN produced'
    BY <1>1, <1>3 DEF Redacting, Entries
  <1>13. \A p \in DOMAIN document' : document'[p] \in Kinds
    BY <1>1, <1>6 DEF Redacting, Kinds
  <1>14. DOMAIN document' \subseteq {p \in DOMAIN produced' : Passes(p)'}
    BY <1>1, <1>2, <1>6 DEF Redacting
  <1> QED
    BY <1>1, <1>7, <1>8, <1>9, <1>10, <1>11, <1>12, <1>13, <1>14 DEF Redacting

\* One case per action.
LEMMA InvStep == IInv /\ [Next]_vars => IInv'
  <1> SUFFICES ASSUME IInv, [Next]_vars PROVE IInv'
    OBVIOUS
  <1>1. CASE UNCHANGED vars
    <2>1. \A p : Passes(p)' = Passes(p)
      BY <1>1 DEF vars, Passes
    <2>2. Redacting => Redacting'
      BY <1>1, <2>1 DEF vars, Redacting, Searched, Kept, SecretProduced
    <2>3. TypeOK => TypeOK'
      BY <1>1 DEF vars, TypeOK
    <2> QED
      BY <1>1, <2>2, <2>3 DEF vars, IInv
  <1>2. CASE RefuseEncoding
    <2>1. TypeOK'
      BY <1>2, InvTypes DEF RefuseEncoding, TypeOK
    <2> QED
      BY <1>2, <2>1 DEF RefuseEncoding, IInv
  <1>3. CASE Encode
    BY <1>3 DEF Encode, IInv
  <1>4. CASE RefuseShape
    <2>1. TypeOK'
      BY <1>4, InvTypes DEF RefuseShape, TypeOK
    <2> QED
      BY <1>4, <2>1 DEF RefuseShape, IInv
  <1>5. CASE Filter
    BY <1>5, FilterKeeps DEF Filter, IInv
  <1>6. ASSUME NEW t \in todo, RedactSecrets(t) PROVE IInv'
    <2>1. Redacting' /\ pc' = "redact" /\ UNCHANGED <<produced, allowed>>
      BY <1>6, RedactKeeps DEF RedactSecrets
    <2>2. changed' \in BOOLEAN
      BY <1>6 DEF RedactSecrets, IInv
    <2> QED
      BY <2>1, <2>2 DEF IInv
  <1>7. CASE Leave
    <2>1. \A p : Passes(p)' = Passes(p)
      BY <1>7 DEF Leave, Passes
    <2>2. Redacting'
      BY <1>7, <2>1 DEF Leave, IInv, Redacting, Searched, Kept, SecretProduced
    <2> QED
      BY <1>7, <2>2 DEF Leave, IInv
  <1> QED
    BY <1>1, <1>2, <1>3, <1>4, <1>5, <1>6, <1>7 DEF Next

\* The invariant holds in every reachable state.
LEMMA Invariant == Spec => []IInv
  BY InvInit, InvStep, PTL DEF Spec

-------------------------------------------------------------------------------
\* What the invariant implies

\* Every variable keeps its type, for documents of any depth.
THEOREM TypeCorrect == Spec => []TypeOK
  BY InvTypes, Invariant, PTL

\* No field with a secret's name leaves with its value, at any depth and in
\* any order of the search, and nothing that is not on the white list.
THEOREM NoSecretLeavesHolds == Spec => []NoSecretLeaves
  <1>1. ASSUME IInv, pc = "returned", NEW p \in DOMAIN document
        PROVE  /\ SecretSteps(p) # {} =>
                    SecretSteps(p) = {Len(p)} /\ document[p] = "[REDACTED]"
               /\ allowed = {} \/ p = <<>> \/ p[1] \in allowed
    <2>1. Redacting /\ todo = {}
      BY <1>1 DEF IInv, Redacting
    <2>2. Searched(p) /\ Passes(p) /\ p \in Path
      BY <1>1, <2>1, ProducedIsDocument DEF Redacting
    <2>3. \A i \in SecretSteps(p) : i = Len(p) /\ document[p] = "[REDACTED]"
      BY <2>1, <2>2 DEF Searched
    <2>4. allowed = {} \/ p = <<>> \/ p[1] \in allowed
      BY <2>2 DEF Passes, Path
    <2> QED
      BY <2>3, <2>4
  <1>2. IInv => NoSecretLeaves
    BY <1>1 DEF NoSecretLeaves
  <1> QED
    BY <1>2, Invariant, PTL

\* The rest leaves as it was decoded, and the warning is the truth.
THEOREM RestIsKeptHolds == Spec => []RestIsKept
  <1>1. ASSUME IInv, pc = "returned" PROVE changed <=> SecretProduced
    <2>1. Redacting /\ todo = {}
      BY <1>1 DEF IInv, Redacting
    <2>2. ASSUME ~changed, NEW p \in DOMAIN produced, Passes(p)
          PROVE  SecretSteps(p) = {}
      <3>1. p \in DOMAIN document /\ document[p] = Decoded(produced[p])
        BY <2>1, <2>2 DEF Redacting
      <3>2. document[p] # "[REDACTED]"
        BY <1>1, <3>1, ProducedIsDocument DEF Decoded
      <3> QED
        BY <2>1, <3>1, <3>2 DEF Redacting, Searched
    <2> QED
      BY <1>1, <2>1, <2>2 DEF Redacting, SecretProduced, IInv
  <1>2. ASSUME IInv, pc = "returned" PROVE \A p \in DOMAIN produced : Kept(p)
    BY <1>2 DEF IInv, Redacting
  <1>3. IInv => RestIsKept
    BY <1>1, <1>2 DEF RestIsKept, SecretProduced, Kept
  <1> QED
    BY <1>3, Invariant, PTL

===============================================================================
