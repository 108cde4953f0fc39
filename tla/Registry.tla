------------------------------- MODULE Registry -------------------------------
(***************************************************************************)
(* registry.Registry and App.RegisterCapability (registry/registry.go,     *)
(* app.go): the thread-safe table of capabilities, shared by goroutines    *)
(* that register batches of capabilities, goroutines that freeze it        *)
(* (App.Handler) and requests that read it (Visible behind tools/list,     *)
(* GetByName behind tools/call).                                           *)
(*                                                                         *)
(* The RWMutex is modelled with its writer preference: Lock announces      *)
(* itself first, which stops new readers, and enters when the readers that *)
(* are inside have left.  A critical section is split at its assignments,  *)
(* so that nothing but the lock hides a half-made registration.            *)
(***************************************************************************)
EXTENDS Capability, Sequences, FiniteSets

CONSTANTS
  Item,        \* the capability.Capability values of the program
  Nil,         \* a nil capability
  Desc,        \* Desc[i] : what i.Descriptor() returns
  Principals,  \* the callers
  Batches,     \* the argument lists of RegisterCapability
  Registrars,  \* the goroutines that call RegisterCapability
  Freezers,    \* the goroutines that call App.Handler
  Readers      \* the requests that read the table

NoItem == Nil  \* what a Go map returns for a key that is absent

IDs == {Desc[i].id : i \in Item}
Names == {Desc[i].name : i \in Item}
Threads == Registrars \union Freezers \union Readers

ASSUME RegistryAssumption ==
  /\ Nil \notin Item
  /\ Desc \in [Item -> Descriptor]
  /\ Principals \subseteq Principal
  /\ Batches \subseteq Seq(Item \union {Nil})
  /\ Registrars \intersect Freezers = {}
  /\ Registrars \intersect Readers = {}
  /\ Freezers \intersect Readers = {}

VARIABLES
  frozen, byID, byName, ordered,  \* the fields of Registry
  writer,   \* the thread that called Lock on mu: a set of at most one
  inside,   \* the readers that hold mu
  pc,       \* where each thread is
  batch,    \* the argument list of each registrar
  pos,      \* the element of it that is being registered
  outcome,  \* what RegisterCapability returned
  caller,   \* the principal of the request each reader serves
  shown,    \* what Visible last returned to each reader
  known     \* the capabilities each reader has been handed so far

table == <<frozen, byID, byName, ordered>>
lock == <<writer, inside>>
calls == <<batch, pos, outcome>>
reads == <<caller, shown, known>>
vars == <<table, lock, pc, calls, reads>>

-------------------------------------------------------------------------------
\* sync.RWMutex : Lock announces the writer, RLock waits for no announced
\* writer, the writer enters when no reader is inside.

CanLock == writer = {}

\* Mutated form of CanRLock: the table is read without taking the lock.
Mut_ReadUnlocked == TRUE

CanRLock == writer = {}

\* Mutated form of Unlock: a return path that forgets to unlock.
Mut_KeepLock == UNCHANGED writer

Unlock == writer' = {}

Entered(t) == writer = {t} /\ inside = {}

At(t, label) == pc[t] = label
Goto(t, label) == pc' = [pc EXCEPT ![t] = label]

-------------------------------------------------------------------------------
\* sort.SliceStable by name: the arrangements of s it may return.  q says
\* which element of s each position of the result holds.

Arrangements(n) ==
  {q \in [1..n -> 1..n] :
     /\ \A i, j \in 1..n : q[i] = q[j] => i = j
     /\ \A j \in 1..n : \E i \in 1..n : q[i] = j}

NameOf(i) == Desc[i].name

\* Mutated form of StableSorts: the sort is left out.
Mut_NoSort(s) == {s}

StableSorts(s) ==
  {[i \in 1..Len(s) |-> s[q[i]]] : q \in
     {q \in Arrangements(Len(s)) : \A i, j \in 1..Len(s) : i < j =>
        \/ NameOf(s[q[i]]) < NameOf(s[q[j]])
        \/ NameOf(s[q[i]]) = NameOf(s[q[j]]) /\ q[i] < q[j]}}

\* Registry.Visible's filter
IsVisibleTo(p, i) ==
  /\ AllowsPrincipal(Desc[i], p)
  /\ HasAllRoles(p, Desc[i].roles)

\* The members of the ordered list; what Visible returns has its order
Listed == {ordered[k] : k \in 1..Len(ordered)}

VisibleTo(p) == {i \in Listed : IsVisibleTo(p, i)}

-------------------------------------------------------------------------------
\* registry.New, before any call

Init ==
  /\ frozen = FALSE
  /\ byID = [d \in IDs |-> NoItem]
  /\ byName = [n \in Names |-> NoItem]
  /\ ordered = <<>>
  /\ writer = {} /\ inside = {}
  /\ pc = [t \in Threads |-> "idle"]
  /\ batch = [t \in Registrars |-> <<>>]
  /\ pos = [t \in Registrars |-> 1]
  /\ outcome = [t \in Registrars |-> "none"]
  /\ caller \in [Readers -> Principals]
  /\ shown = [r \in Readers |-> {}]
  /\ known = [r \in Readers |-> {}]

-------------------------------------------------------------------------------
\* App.RegisterCapability and Registry.Register

Current(t) == batch[t][pos[t]]

\* What Register checks before it locks
Acceptable(i) == i # Nil /\ Validates(Desc[i])

\* RegisterCapability starts on an argument list
StartBatch(t) ==
  /\ At(t, "idle")
  /\ \E b \in Batches : batch' = [batch EXCEPT ![t] = b]
  /\ Goto(t, "next")
  /\ UNCHANGED <<table, lock, pos, outcome, reads>>

\* The loop over the items ends
BatchDone(t) ==
  /\ At(t, "next")
  /\ pos[t] > Len(batch[t])
  /\ outcome' = [outcome EXCEPT ![t] = "ok"]
  /\ Goto(t, "done")
  /\ UNCHANGED <<table, lock, batch, pos, reads>>

\* Register refuses a nil item or an invalid descriptor, before it locks
RejectInvalid(t) ==
  /\ At(t, "next")
  /\ pos[t] <= Len(batch[t])
  /\ ~Acceptable(Current(t))
  /\ outcome' = [outcome EXCEPT ![t] = "invalid"]
  /\ Goto(t, "done")
  /\ UNCHANGED <<table, lock, batch, pos, reads>>

\* The descriptor is valid: call mu.Lock
RegisterLock(t) ==
  /\ At(t, "next")
  /\ pos[t] <= Len(batch[t])
  /\ Acceptable(Current(t))
  /\ CanLock
  /\ writer' = {t}
  /\ Goto(t, "check")
  /\ UNCHANGED <<table, inside, calls, reads>>

\* Mutated forms of Refusal: the frozen flag, or the names, are not looked at.
Mut_IgnoresFreeze(i) ==
  IF byID[Desc[i].id] # NoItem \/ byName[Desc[i].name] # NoItem
  THEN "duplicate" ELSE "none"

Mut_IgnoresNames(i) ==
  IF frozen THEN "frozen"
  ELSE IF byID[Desc[i].id] # NoItem THEN "duplicate" ELSE "none"

\* Why Register refuses a valid item once it holds the lock
Refusal(i) ==
  IF frozen THEN "frozen"
  ELSE IF byID[Desc[i].id] # NoItem \/ byName[Desc[i].name] # NoItem
  THEN "duplicate" ELSE "none"

\* Mutated form of RegisterRefused: RegisterCapability goes on with the rest.
Mut_RefusedGoesOn(t) ==
  /\ At(t, "check") /\ Entered(t)
  /\ Refusal(Current(t)) # "none"
  /\ pos' = [pos EXCEPT ![t] = @ + 1]
  /\ Unlock
  /\ Goto(t, "next")
  /\ UNCHANGED <<table, inside, batch, outcome, reads>>

\* Register returns an error, and RegisterCapability with it: the items
\* before this one stay registered, those after it are never tried
RegisterRefused(t) ==
  /\ At(t, "check") /\ Entered(t)
  /\ Refusal(Current(t)) # "none"
  /\ outcome' = [outcome EXCEPT ![t] = Refusal(Current(t))]
  /\ Unlock
  /\ Goto(t, "done")
  /\ UNCHANGED <<table, inside, batch, pos, reads>>

\* Register writes both maps
RegisterInsert(t) ==
  /\ At(t, "check") /\ Entered(t)
  /\ Refusal(Current(t)) = "none"
  /\ LET d == Desc[Current(t)] IN
       /\ byID' = [byID EXCEPT ![d.id] = Current(t)]
       /\ byName' = [byName EXCEPT ![d.name] = Current(t)]
  /\ Goto(t, "order")
  /\ UNCHANGED <<frozen, ordered, lock, calls, reads>>

\* Register appends the item, sorts the list, unlocks; on to the next item
RegisterOrder(t) ==
  /\ At(t, "order")
  /\ \E s \in StableSorts(Append(ordered, Current(t))) : ordered' = s
  /\ pos' = [pos EXCEPT ![t] = @ + 1]
  /\ Unlock
  /\ Goto(t, "next")
  /\ UNCHANGED <<frozen, byID, byName, inside, batch, outcome, reads>>

-------------------------------------------------------------------------------
\* Registry.Freeze, called by App.Handler

FreezeLock(t) ==
  /\ At(t, "idle") /\ CanLock
  /\ writer' = {t}
  /\ Goto(t, "freeze")
  /\ UNCHANGED <<table, inside, calls, reads>>

Freeze(t) ==
  /\ At(t, "freeze") /\ Entered(t)
  /\ frozen' = TRUE
  /\ Unlock
  /\ Goto(t, "done")
  /\ UNCHANGED <<byID, byName, ordered, inside, calls, reads>>

-------------------------------------------------------------------------------
\* Registry.Visible and Registry.GetByName

RLock(r) ==
  /\ At(r, "idle") /\ CanRLock
  /\ inside' = inside \union {r}
  /\ \E label \in {"scan", "get"} : Goto(r, label)
  /\ UNCHANGED <<table, writer, calls, reads>>

Visible(r) ==
  /\ At(r, "scan")
  /\ shown' = [shown EXCEPT ![r] = VisibleTo(caller[r])]
  /\ known' = [known EXCEPT ![r] = @ \union VisibleTo(caller[r])]
  /\ inside' = inside \ {r}
  /\ Goto(r, "idle")
  /\ UNCHANGED <<table, writer, calls, caller>>

\* Mutated form of GetByName: `exists` is not looked at.
Mut_HandsOutNil(r) ==
  /\ At(r, "get")
  /\ \E n \in Names : known' = [known EXCEPT ![r] = @ \union {byName[n]}]
  /\ inside' = inside \ {r}
  /\ Goto(r, "idle")
  /\ UNCHANGED <<table, writer, calls, caller, shown>>

GetByName(r) ==
  /\ At(r, "get")
  /\ \E n \in Names :
       known' = [known EXCEPT ![r] = @ \union ({byName[n]} \ {NoItem})]
  /\ inside' = inside \ {r}
  /\ Goto(r, "idle")
  /\ UNCHANGED <<table, writer, calls, caller, shown>>

-------------------------------------------------------------------------------

RegistrarStep(t) ==
  \/ StartBatch(t) \/ BatchDone(t) \/ RejectInvalid(t) \/ RegisterLock(t)
  \/ RegisterRefused(t) \/ RegisterInsert(t) \/ RegisterOrder(t)

FreezerStep(t) == FreezeLock(t) \/ Freeze(t)

ReaderLeaves(r) == Visible(r) \/ GetByName(r)

Next ==
  \/ \E t \in Registrars : RegistrarStep(t)
  \/ \E t \in Freezers : FreezerStep(t)
  \/ \E r \in Readers : RLock(r) \/ ReaderLeaves(r)

\* The Go scheduler runs every goroutine that can run.  Nobody has to start
\* a call or a request, so neither StartBatch, FreezeLock nor RLock is fair.
Fairness ==
  /\ \A t \in Registrars :
       WF_vars(BatchDone(t) \/ RejectInvalid(t) \/ RegisterLock(t)
               \/ RegisterRefused(t) \/ RegisterInsert(t) \/ RegisterOrder(t))
  /\ \A t \in Freezers : WF_vars(Freeze(t))
  /\ \A r \in Readers : WF_vars(ReaderLeaves(r))

Spec == Init /\ [][Next]_vars
FairSpec == Spec /\ Fairness

-------------------------------------------------------------------------------
\* Properties

RegistrarLabels == {"idle", "next", "check", "order", "done"}

\* Every variable keeps its type.
TypeOK ==
  /\ frozen \in BOOLEAN
  /\ byID \in [IDs -> Item \union {NoItem}]
  /\ byName \in [Names -> Item \union {NoItem}]
  /\ ordered \in Seq(Item)
  /\ writer \subseteq Registrars \union Freezers
  /\ inside \subseteq Readers
  /\ pc \in [Threads -> RegistrarLabels \union {"freeze", "scan", "get"}]
  /\ batch \in [Registrars -> Seq(Item \union {Nil})]
  /\ pos \in [Registrars -> Nat \ {0}]
  /\ outcome \in [Registrars -> {"none", "ok", "invalid", "frozen", "duplicate"}]
  /\ caller \in [Readers -> Principals]
  /\ shown \in [Readers -> SUBSET Item]
  /\ known \in [Readers -> SUBSET Item]

\* The item a registrar has put into the maps but not yet into the list
InFlight == {Current(t) : t \in {u \in Registrars : At(u, "order")}}

\* The three indexes hold the same capabilities, each under its own ID and
\* its own name, and the list is strictly sorted by name, so that tools/list
\* and tools/call can never disagree about which tools exist and the order
\* does not depend on the order of registration.
IndexesAgree ==
  /\ \A d \in IDs : byID[d] # NoItem => Desc[byID[d]].id = d
  /\ \A n \in Names : byName[n] # NoItem => Desc[byName[n]].name = n
  /\ \A i \in Item :
       /\ byID[Desc[i].id] = i <=> byName[Desc[i].name] = i
       /\ byID[Desc[i].id] = i <=> i \in Listed \union InFlight
  /\ \A j, k \in 1..Len(ordered) : j < k => NameOf(ordered[j]) < NameOf(ordered[k])

\* Whoever is told "ok" has every item of the call in the table, and whoever
\* gets an error has every item before the refused one in it: no interleaving
\* with another batch or with Freeze loses an item that Register accepted.
AcceptedItemsStay ==
  \A t \in Registrars :
    /\ \A k \in 1..(pos[t] - 1) : batch[t][k] \in Listed
    /\ outcome[t] = "ok" => pos[t] = Len(batch[t]) + 1

\* Once the table is frozen no step changes what it holds, also when the
\* step belongs to a registration that had passed validation before.
FrozenForGood == [][frozen => UNCHANGED table]_vars

\* A request that has been handed a capability its caller may see finds it
\* in every list it reads later: a reader never looks at a registration that
\* is half made, and no capability is ever taken back or replaced.
VisibleCoversKnown ==
  [][\A r \in Readers : At(r, "scan") /\ pc'[r] # "scan" =>
       {i \in known[r] : IsVisibleTo(caller[r], i)} \subseteq shown'[r]]_vars

\* Every RegisterCapability call returns, although readers come and go
\* without end.
RegistrationReturns ==
  \A t \in Registrars : At(t, "next") ~> At(t, "done")

===============================================================================
