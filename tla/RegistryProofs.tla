---------------------------- MODULE RegistryProofs ----------------------------
(***************************************************************************)
(* What Registry guarantees for any capabilities, any batches and any      *)
(* number of registrars, freezers and readers.                             *)
(***************************************************************************)
EXTENDS Registry, SequenceTheorems, TLAPS

\* Where each kind of thread can be
LabelsOK ==
  /\ \A t \in Registrars : pc[t] \in RegistrarLabels
  /\ \A t \in Freezers : pc[t] \in {"idle", "freeze", "done"}
  /\ \A r \in Readers : pc[r] \in {"idle", "scan", "get"}

\* Where a registrar stands in its batch
BatchOK ==
  \A t \in Registrars :
    /\ pc[t] = "idle" => pos[t] = 1
    /\ pos[t] <= Len(batch[t]) + 1
    /\ pc[t] \in {"check", "order"} =>
         pos[t] <= Len(batch[t]) /\ Current(t) \in Item /\ Acceptable(Current(t))
    /\ outcome[t] # "none" => pc[t] = "done"

TypeInv == TypeOK /\ LabelsOK /\ BatchOK

-------------------------------------------------------------------------------
\* The stable sort

\* Whatever arrangement the sort picks, it is a sequence of the same items,
\* and strictly sorted when no two of them have the same name.
LEMMA SortedList ==
  ASSUME NEW s \in Seq(Item), NEW u \in StableSorts(s)
  PROVE  /\ u \in Seq(Item) /\ Len(u) = Len(s)
         /\ {u[k] : k \in 1..Len(u)} = {s[k] : k \in 1..Len(s)}
         /\ (\A j, k \in 1..Len(s) : j # k => NameOf(s[j]) # NameOf(s[k]))
              => \A j, k \in 1..Len(u) : j < k => NameOf(u[j]) < NameOf(u[k])
  <1> DEFINE n == Len(s)
  <1>1. PICK q \in Arrangements(n) :
          /\ u = [i \in 1..n |-> s[q[i]]]
          /\ \A i, j \in 1..n : i < j =>
               \/ NameOf(s[q[i]]) < NameOf(s[q[j]])
               \/ NameOf(s[q[i]]) = NameOf(s[q[j]]) /\ q[i] < q[j]
    BY DEF StableSorts
  <1>2. /\ n \in Nat /\ s \in [1..n -> Item]
    OBVIOUS
  <1>3. /\ q \in [1..n -> 1..n]
        /\ \A i, j \in 1..n : q[i] = q[j] => i = j
        /\ \A j \in 1..n : \E i \in 1..n : q[i] = j
    BY DEF Arrangements
  <1>4. u \in [1..n -> Item]
    BY <1>1, <1>2, <1>3
  <1>5. u \in Seq(Item) /\ Len(u) = n
    BY <1>2, <1>4, IsASeq
  <1>6. {u[k] : k \in 1..n} = {s[k] : k \in 1..n}
    <2>1. ASSUME NEW k \in 1..n PROVE u[k] \in {s[j] : j \in 1..n}
      <3>1. q[k] \in 1..n
        BY <1>3
      <3>2. u[k] = s[q[k]]
        BY <1>1
      <3> QED BY <3>1, <3>2
    <2>2. ASSUME NEW j \in 1..n PROVE s[j] \in {u[k] : k \in 1..n}
      <3>1. PICK k \in 1..n : q[k] = j
        BY <1>3
      <3>2. u[k] = s[j]
        BY <1>1, <3>1
      <3> QED BY <3>2
    <2> QED BY <2>1, <2>2
  <1>7. ASSUME \A j, k \in 1..n : j # k => NameOf(s[j]) # NameOf(s[k]),
               NEW j \in 1..n, NEW k \in 1..n, j < k
        PROVE  NameOf(u[j]) < NameOf(u[k])
    <2>1. q[j] # q[k] /\ q[j] \in 1..n /\ q[k] \in 1..n
      <3>1. j # k
        BY <1>7
      <3> QED BY <1>3, <3>1
    <2>2. NameOf(s[q[j]]) # NameOf(s[q[k]])
      BY <1>7, <2>1
    <2> QED BY <1>1, <1>7, <2>2
  <1> QED BY <1>5, <1>6, <1>7

-------------------------------------------------------------------------------
\* Type correctness

\* Before the first call every variable has its type.
LEMMA TypeInit == Init => TypeInv
  <1> SUFFICES ASSUME Init PROVE TypeInv
    OBVIOUS
  <1>1. TypeOK
    <2>1. ordered \in Seq(Item) /\ <<>> \in Seq(Item \union {Nil})
      BY DEF Init
    <2>2. batch \in [Registrars -> Seq(Item \union {Nil})]
      BY <2>1 DEF Init
    <2>3. pos \in [Registrars -> Nat \ {0}]
      BY DEF Init
    <2> QED BY <2>1, <2>2, <2>3 DEF Init, TypeOK, RegistrarLabels, Threads
  <1>2. LabelsOK
    BY DEF Init, LabelsOK, RegistrarLabels, Threads
  <1>3. ASSUME NEW t \in Registrars
        PROVE  pc[t] = "idle" /\ pos[t] = 1 /\ batch[t] = <<>> /\ outcome[t] = "none"
    BY <1>3 DEF Init, Threads
  <1>4. BatchOK
    BY <1>3 DEF BatchOK
  <1> QED BY <1>1, <1>2, <1>4 DEF TypeInv

\* Each element of a batch that is not nil is an item.
LEMMA CurrentIsItem ==
  ASSUME TypeOK, NEW t \in Registrars, pos[t] <= Len(batch[t]), Acceptable(Current(t))
  PROVE  Current(t) \in Item
  <1>1. pos[t] \in 1..Len(batch[t]) /\ batch[t] \in Seq(Item \union {Nil})
    BY DEF TypeOK
  <1>2. batch[t][pos[t]] \in Item \union {Nil}
    BY <1>1
  <1> QED BY <1>2 DEF Acceptable, Current

\* A step of a registrar leaves the labels, batches and positions of every
\* other thread alone.
LEMMA TypeStep == TypeInv /\ [Next]_vars => TypeInv'
  <1> SUFFICES ASSUME TypeInv, [Next]_vars PROVE TypeInv'
    OBVIOUS
  <1>r. /\ Registrars \intersect Freezers = {}
        /\ Registrars \intersect Readers = {}
        /\ Freezers \intersect Readers = {}
    BY RegistryAssumption
  <1> USE <1>r DEF TypeInv, At, Goto, Threads, RegistrarLabels
  <1>u. CASE UNCHANGED vars
    BY <1>u DEF vars, table, lock, calls, reads, TypeOK, LabelsOK, BatchOK, Current
  <1>1. ASSUME NEW t \in Registrars, StartBatch(t) PROVE TypeInv'
    <2>1. PICK b \in Batches : batch' = [batch EXCEPT ![t] = b]
      BY <1>1 DEF StartBatch
    <2>2. b \in Seq(Item \union {Nil})
      BY RegistryAssumption
    <2>3. TypeOK'
      BY <1>1, <2>1, <2>2 DEF StartBatch, TypeOK, table, lock, reads
    <2>4. LabelsOK'
      BY <1>1 DEF StartBatch, TypeOK, LabelsOK
    <2>5. pos[t] = 1 /\ outcome[t] = "none" /\ pc'[t] = "next" /\ batch'[t] = b
      BY <1>1, <2>1 DEF StartBatch, BatchOK, TypeOK
    <2>6. Len(b) \in Nat
      BY <2>2
    <2>7. BatchOK'
      BY <1>1, <2>1, <2>5, <2>6 DEF StartBatch, TypeOK, BatchOK, Current
    <2> QED BY <2>3, <2>4, <2>7
  <1>2. ASSUME NEW t \in Registrars, BatchDone(t) \/ RejectInvalid(t) PROVE TypeInv'
    <2>3. TypeOK'
      BY <1>2 DEF BatchDone, RejectInvalid, TypeOK, table, lock, reads
    <2>4. LabelsOK'
      BY <1>2 DEF BatchDone, RejectInvalid, TypeOK, LabelsOK
    <2>7. BatchOK'
      BY <1>2 DEF BatchDone, RejectInvalid, TypeOK, BatchOK, Current
    <2> QED BY <2>3, <2>4, <2>7
  <1>3. ASSUME NEW t \in Registrars, RegisterLock(t) PROVE TypeInv'
    <2>3. TypeOK'
      BY <1>3 DEF RegisterLock, TypeOK, table, calls, reads
    <2>4. LabelsOK'
      BY <1>3 DEF RegisterLock, TypeOK, LabelsOK
    <2>5. Current(t) \in Item /\ pos[t] <= Len(batch[t]) /\ Acceptable(Current(t))
      BY <1>3, CurrentIsItem DEF RegisterLock
    <2>6. /\ pc'[t] = "check" /\ \A u \in Registrars \ {t} : pc'[u] = pc[u]
          /\ UNCHANGED <<batch, pos, outcome>>
          /\ pc[t] = "next"
      BY <1>3 DEF RegisterLock, TypeOK, calls
    <2>7. BatchOK'
      BY <2>5, <2>6 DEF BatchOK, Current, Acceptable
    <2> QED BY <2>3, <2>4, <2>7
  <1>4. ASSUME NEW t \in Registrars, RegisterRefused(t) PROVE TypeInv'
    <2>3. TypeOK'
      BY <1>4 DEF RegisterRefused, Refusal, Unlock, TypeOK, table, reads
    <2>4. LabelsOK'
      BY <1>4 DEF RegisterRefused, TypeOK, LabelsOK
    <2>7. BatchOK'
      BY <1>4 DEF RegisterRefused, TypeOK, BatchOK, Current
    <2> QED BY <2>3, <2>4, <2>7
  <1>5. ASSUME NEW t \in Registrars, RegisterInsert(t) PROVE TypeInv'
    <2>1. Current(t) \in Item
      BY <1>5 DEF RegisterInsert, BatchOK
    <2>2. Desc[Current(t)].id \in IDs /\ Desc[Current(t)].name \in Names
      BY <2>1 DEF IDs, Names
    <2>3. TypeOK'
      BY <1>5, <2>1, <2>2 DEF RegisterInsert, TypeOK, lock, calls, reads
    <2>4. LabelsOK'
      BY <1>5 DEF RegisterInsert, TypeOK, LabelsOK
    <2>6. /\ pc'[t] = "order" /\ \A u \in Registrars \ {t} : pc'[u] = pc[u]
          /\ UNCHANGED <<batch, pos, outcome>>
          /\ pc[t] = "check"
      BY <1>5 DEF RegisterInsert, TypeOK, calls
    <2>7. BatchOK'
      BY <2>6 DEF BatchOK, Current, Acceptable
    <2> QED BY <2>3, <2>4, <2>7
  <1>6. ASSUME NEW t \in Registrars, RegisterOrder(t) PROVE TypeInv'
    <2>1. Current(t) \in Item /\ pos[t] <= Len(batch[t])
      BY <1>6 DEF RegisterOrder, BatchOK
    <2>2. Append(ordered, Current(t)) \in Seq(Item)
      BY <2>1 DEF TypeOK
    <2>3. ordered' \in Seq(Item)
      BY <1>6, <2>2, SortedList DEF RegisterOrder
    <2>4. pos[t] \in Nat \ {0} /\ pos'[t] = pos[t] + 1 /\ Len(batch[t]) \in Nat
      BY <1>6 DEF RegisterOrder, TypeOK
    <2>5. pos' \in [Registrars -> Nat \ {0}]
      BY <1>6 DEF RegisterOrder, TypeOK
    <2>6. TypeOK'
      BY <1>6, <2>3, <2>5 DEF RegisterOrder, Unlock, TypeOK, reads
    <2>7. LabelsOK'
      <3>1. pc' = [pc EXCEPT ![t] = "next"]
        BY <1>6 DEF RegisterOrder
      <3> QED BY <3>1 DEF TypeOK, LabelsOK
    <2>8. /\ pc'[t] = "next" /\ \A u \in Registrars \ {t} : pc'[u] = pc[u] /\ pos'[u] = pos[u]
          /\ UNCHANGED <<batch, outcome>>
          /\ outcome[t] = "none"
      BY <1>6 DEF RegisterOrder, TypeOK, BatchOK
    <2>9. pos'[t] <= Len(batch[t]) + 1
      BY <2>1, <2>4
    <2>10. BatchOK'
      BY <2>8, <2>9 DEF BatchOK, Current, Acceptable
    <2> QED BY <2>6, <2>7, <2>10
  <1>7. ASSUME NEW t \in Freezers, FreezerStep(t) PROVE TypeInv'
    <2>3. TypeOK'
      BY <1>7 DEF FreezerStep, FreezeLock, Freeze, Unlock, TypeOK, table, calls, reads
    <2>4. LabelsOK'
      <3>1. \E l \in {"freeze", "done"} : pc' = [pc EXCEPT ![t] = l]
        BY <1>7 DEF FreezerStep, FreezeLock, Freeze
      <3> QED BY <3>1 DEF TypeOK, LabelsOK
    <2>7. BatchOK'
      BY <1>7 DEF FreezerStep, FreezeLock, Freeze, TypeOK, BatchOK, Current, calls
    <2> QED BY <2>3, <2>4, <2>7
  <1>8. ASSUME NEW r \in Readers, RLock(r) \/ ReaderLeaves(r) PROVE TypeInv'
    <2>1. VisibleTo(caller[r]) \subseteq Item
      BY DEF VisibleTo, Listed, TypeOK
    <2>2. CASE RLock(r)
      <3>1. TypeOK' /\ LabelsOK'
        BY <2>2 DEF RLock, TypeOK, LabelsOK, table, calls, reads
      <3>2. BatchOK'
        BY <2>2 DEF RLock, TypeOK, BatchOK, Current, calls
      <3> QED BY <3>1, <3>2
    <2>3. CASE Visible(r)
      <3>1. TypeOK' /\ LabelsOK'
        BY <2>3, <2>1 DEF Visible, TypeOK, LabelsOK, table, calls
      <3>2. BatchOK'
        BY <2>3 DEF Visible, TypeOK, BatchOK, Current, calls
      <3> QED BY <3>1, <3>2
    <2>4. CASE GetByName(r)
      <3>1. TypeOK' /\ LabelsOK'
        BY <2>4 DEF GetByName, TypeOK, LabelsOK, table, calls
      <3>2. BatchOK'
        BY <2>4 DEF GetByName, TypeOK, BatchOK, Current, calls
      <3> QED BY <3>1, <3>2
    <2> QED BY <1>8, <2>2, <2>3, <2>4 DEF ReaderLeaves
  <1> QED
    BY <1>u, <1>1, <1>2, <1>3, <1>4, <1>5, <1>6, <1>7, <1>8 DEF Next, RegistrarStep

\* Every variable of Registry keeps its type.
THEOREM TypeCorrect == Spec => []TypeOK
  <1>1. Spec => []TypeInv
    BY TypeInit, TypeStep, PTL DEF Spec
  <1>2. TypeInv => TypeOK
    BY DEF TypeInv
  <1> QED BY <1>1, <1>2, PTL

-------------------------------------------------------------------------------
\* The lock

Holding == {"check", "order", "freeze"}
Reading == {"scan", "get"}

\* One writer at most has announced itself; a registration that is half made
\* excludes every reader, and the table was not frozen when it began.
LockInv ==
  /\ \A t \in Threads : t \in writer <=> pc[t] \in Holding
  /\ \A t, u \in writer : t = u
  /\ \A r \in Readers : r \in inside <=> pc[r] \in Reading
  /\ \A t \in Registrars : pc[t] = "order" => inside = {} /\ ~frozen

\* Before the first call nobody is in a critical section.
LEMMA LockInit == Init => LockInv
  BY DEF Init, LockInv, Holding, Reading, Threads

\* Every step keeps the lock: the writer's own steps keep or release it,
\* nobody enters while a writer has announced itself.
LEMMA LockStep == TypeInv /\ LockInv /\ [Next]_vars => LockInv'
  <1> SUFFICES ASSUME TypeInv, LockInv, [Next]_vars PROVE LockInv'
    OBVIOUS
  <1>r. /\ Registrars \intersect Freezers = {}
        /\ Registrars \intersect Readers = {}
        /\ Freezers \intersect Readers = {}
    BY RegistryAssumption
  <1>p. /\ pc \in [Threads -> RegistrarLabels \union {"freeze", "scan", "get"}]
        /\ LabelsOK /\ writer \subseteq Registrars \union Freezers /\ inside \subseteq Readers
    BY DEF TypeInv, TypeOK
  <1> USE <1>r, <1>p DEF LockInv, Holding, Reading, At, Goto, Threads, RegistrarLabels, LabelsOK
  <1>u. CASE UNCHANGED vars
    BY <1>u DEF vars, table, lock, calls, reads
  <1>1. ASSUME NEW t \in Registrars, RegistrarStep(t) PROVE LockInv'
    <2>1. CASE StartBatch(t) \/ BatchDone(t) \/ RejectInvalid(t)
      BY <2>1 DEF StartBatch, BatchDone, RejectInvalid, table, lock
    <2>2. CASE RegisterLock(t)
      BY <2>2 DEF RegisterLock, CanLock, table
    <2>3. CASE RegisterRefused(t)
      BY <2>3 DEF RegisterRefused, Entered, Unlock, table
    <2>4. CASE RegisterInsert(t)
      BY <2>4 DEF RegisterInsert, Entered, Refusal, lock
    <2>5. CASE RegisterOrder(t)
      <3>1. /\ pc' = [pc EXCEPT ![t] = "next"] /\ writer' = {} /\ UNCHANGED <<frozen, inside>>
            /\ t \in writer
        BY <2>5 DEF RegisterOrder, Unlock
      <3> QED BY <3>1
    <2> QED BY <1>1, <2>1, <2>2, <2>3, <2>4, <2>5 DEF RegistrarStep
  <1>2. ASSUME NEW t \in Freezers, FreezerStep(t) PROVE LockInv'
    <2>1. CASE FreezeLock(t)
      BY <2>1 DEF FreezeLock, CanLock, table
    <2>2. CASE Freeze(t)
      BY <2>2 DEF Freeze, Entered, Unlock
    <2> QED BY <1>2, <2>1, <2>2 DEF FreezerStep
  <1>3. ASSUME NEW r \in Readers, RLock(r) \/ ReaderLeaves(r) PROVE LockInv'
    <2>1. CASE RLock(r)
      BY <2>1 DEF RLock, CanRLock, table
    <2>2. CASE Visible(r) \/ GetByName(r)
      BY <2>2 DEF Visible, GetByName, table
    <2> QED BY <1>3, <2>1, <2>2 DEF ReaderLeaves
  <1> QED BY <1>u, <1>1, <1>2, <1>3 DEF Next

-------------------------------------------------------------------------------
\* The indexes

\* What the properties below follow from, with the labels, the batches and
\* the lock.
IInv ==
  /\ TypeInv /\ LockInv
  /\ IndexesAgree
  /\ \A t \in Registrars : pc[t] = "order" => Current(t) \notin Listed
  /\ AcceptedItemsStay
  /\ \A r \in Readers : known[r] \subseteq Listed

\* Only RegisterInsert and RegisterOrder touch the indexes and what is in
\* flight between them.
LEMMA OtherSteps ==
  ASSUME TypeInv, [Next]_vars,
         ~\E t \in Registrars : RegisterInsert(t) \/ RegisterOrder(t)
  PROVE  /\ UNCHANGED <<byID, byName, ordered, pos>>
         /\ InFlight' = InFlight
         /\ \A t \in Registrars : pc'[t] = "order" <=> pc[t] = "order"
         /\ \A t \in Registrars : pc[t] # "idle" => batch'[t] = batch[t]
  <1>r. /\ Registrars \intersect Freezers = {}
        /\ Registrars \intersect Readers = {}
    BY RegistryAssumption
  <1>1. \/ UNCHANGED vars
        \/ \E t \in Registrars : \/ StartBatch(t) \/ BatchDone(t) \/ RejectInvalid(t)
                                 \/ RegisterLock(t) \/ RegisterRefused(t)
        \/ \E t \in Freezers : FreezerStep(t)
        \/ \E r \in Readers : RLock(r) \/ ReaderLeaves(r)
    BY DEF Next, RegistrarStep
  <1>2. UNCHANGED <<byID, byName, ordered, pos>>
    BY <1>1 DEF vars, table, calls, StartBatch, BatchDone, RejectInvalid, RegisterLock,
       RegisterRefused, FreezerStep, FreezeLock, Freeze, RLock, ReaderLeaves, Visible, GetByName
  <1>3. \A t \in Registrars : pc'[t] = "order" <=> pc[t] = "order"
    BY <1>1, <1>r
       DEF TypeInv, TypeOK, At, Goto, Threads, vars, StartBatch, BatchDone, RejectInvalid,
       RegisterLock, RegisterRefused, FreezerStep, FreezeLock, Freeze, RLock, ReaderLeaves,
       Visible, GetByName
  <1>4. \A t \in Registrars : pc[t] # "idle" => batch'[t] = batch[t]
    BY <1>1
       DEF TypeInv, TypeOK, At, vars, calls, StartBatch, BatchDone, RejectInvalid,
       RegisterLock, RegisterRefused, FreezerStep, FreezeLock, Freeze, RLock, ReaderLeaves,
       Visible, GetByName
  <1>5. InFlight' = InFlight
    <2>1. \A t \in Registrars : pc[t] = "order" => Current(t)' = Current(t)
      BY <1>2, <1>4 DEF Current
    <2> QED BY <1>3, <2>1 DEF InFlight, At
  <1> QED BY <1>2, <1>3, <1>4, <1>5

\* The item in flight is the current one of the registrar at "order".
LEMMA OneInFlight ==
  ASSUME TypeInv, LockInv, NEW t \in Registrars, pc[t] = "order"
  PROVE  InFlight = {Current(t)}
  <1>1. \A u \in Registrars : pc[u] = "order" => u = t
    BY DEF LockInv, Holding, Threads
  <1> QED BY <1>1 DEF InFlight, At

\* While nobody is between the maps and the list nothing is in flight.
LEMMA NoneInFlight ==
  ASSUME \A t \in Registrars : pc[t] # "order"
  PROVE  InFlight = {}
  BY DEF InFlight, At

\* Appending and sorting adds the current item to the list.
LEMMA OrderAdds ==
  ASSUME TypeInv, NEW t \in Registrars, RegisterOrder(t)
  PROVE  /\ Listed' = Listed \union {Current(t)}
         /\ ordered' \in StableSorts(Append(ordered, Current(t)))
         /\ Append(ordered, Current(t)) \in Seq(Item)
         /\ Current(t) \in Item
  <1>1. Current(t) \in Item /\ ordered \in Seq(Item)
    BY DEF TypeInv, TypeOK, BatchOK, RegisterOrder, At
  <1> DEFINE s == Append(ordered, Current(t))
  <1>2. /\ s \in Seq(Item) /\ Len(s) = Len(ordered) + 1 /\ Len(ordered) \in Nat
        /\ s[Len(ordered) + 1] = Current(t)
        /\ \A k \in 1..Len(ordered) : s[k] = ordered[k]
    BY <1>1
  <1>3. ordered' \in StableSorts(s)
    BY DEF RegisterOrder
  <1>4. Listed' = {s[k] : k \in 1..Len(s)}
    BY <1>2, <1>3, SortedList DEF Listed
  <1>5. {s[k] : k \in 1..Len(s)} = Listed \union {Current(t)}
    <2> HIDE DEF s
    <2>1. 1..Len(s) = (1..Len(ordered)) \union {Len(ordered) + 1}
      BY <1>2
    <2> QED BY <1>2, <2>1 DEF Listed
  <1> QED BY <1>1, <1>2, <1>3, <1>4, <1>5

\* Writing the maps keeps them in step with each other and with the list and
\* what is in flight: neither the ID nor the name was taken.
LEMMA InsertKeepsIndexes ==
  ASSUME IInv, TypeInv', LockInv', NEW t \in Registrars, RegisterInsert(t)
  PROVE  IndexesAgree' /\ Current(t)' \notin Listed'
  <1> DEFINE x == Current(t)
  <1>1. x \in Item /\ pc[t] = "check" /\ pc'[t] = "order"
    BY DEF IInv, TypeInv, TypeOK, BatchOK, RegisterInsert, At, Goto, Threads
  <1>2. /\ byID \in [IDs -> Item \union {NoItem}] /\ byName \in [Names -> Item \union {NoItem}]
        /\ NoItem \notin Item
        /\ \A i \in Item : Desc[i].id \in IDs /\ Desc[i].name \in Names
    BY RegistryAssumption DEF IInv, TypeInv, TypeOK, IDs, Names, NoItem
  <1>3. /\ byID' = [byID EXCEPT ![Desc[x].id] = x]
        /\ byName' = [byName EXCEPT ![Desc[x].name] = x]
        /\ byID[Desc[x].id] = NoItem /\ byName[Desc[x].name] = NoItem
        /\ UNCHANGED <<ordered, batch, pos>>
    BY DEF RegisterInsert, Refusal, calls
  <1>4. Listed' = Listed /\ Current(t)' = x
    BY <1>3 DEF Listed, Current
  <1>5. InFlight = {}
    <2>1. \A u \in Registrars : pc[u] # "order"
      BY <1>1 DEF IInv, LockInv, Holding, Threads
    <2> QED BY <2>1, NoneInFlight
  <1>6. InFlight' = {x}
    <2>1. \A u \in Registrars : pc'[u] = "order" => u = t
      BY <1>1 DEF LockInv, Holding, Threads
    <2> QED BY <1>1, <1>4, <2>1 DEF InFlight, At
  <1>7. x \notin Listed
    BY <1>1, <1>2, <1>3, <1>5 DEF IInv, IndexesAgree
  <1>8. /\ \A d \in IDs : byID'[d] # NoItem => Desc[byID'[d]].id = d
        /\ \A n \in Names : byName'[n] # NoItem => Desc[byName'[n]].name = n
    BY <1>1, <1>2, <1>3 DEF IInv, IndexesAgree
  <1>9. ASSUME NEW i \in Item
        PROVE  /\ byID'[Desc[i].id] = i <=> byName'[Desc[i].name] = i
               /\ byID'[Desc[i].id] = i <=> i \in Listed' \union InFlight'
    <2>1. /\ byID[Desc[i].id] = i <=> byName[Desc[i].name] = i
          /\ byID[Desc[i].id] = i <=> i \in Listed
      BY <1>5 DEF IInv, IndexesAgree
    <2>2. CASE i = x
      BY <1>1, <1>2, <1>3, <1>6, <2>2
    <2>3. CASE i # x
      <3>1. byID'[Desc[i].id] = i <=> byID[Desc[i].id] = i
        BY <1>1, <1>2, <1>3, <2>3
      <3>2. byName'[Desc[i].name] = i <=> byName[Desc[i].name] = i
        BY <1>1, <1>2, <1>3, <2>3
      <3> QED BY <1>4, <1>6, <2>1, <2>3, <3>1, <3>2
    <2> QED BY <2>2, <2>3
  <1>10. \A j, k \in 1..Len(ordered') : j < k => NameOf(ordered'[j]) < NameOf(ordered'[k])
    BY <1>3 DEF IInv, IndexesAgree
  <1> QED BY <1>4, <1>7, <1>8, <1>9, <1>10 DEF IndexesAgree

\* Appending and sorting moves what was in flight into the list: no item of
\* the list has its name, so the sorted list is strictly sorted.
LEMMA OrderKeepsIndexes ==
  ASSUME IInv, TypeInv', LockInv', NEW t \in Registrars, RegisterOrder(t)
  PROVE  IndexesAgree' /\ InFlight' = {}
  <1> DEFINE x == Current(t)
             s == Append(ordered, x)
  <1>1. /\ Listed' = Listed \union {x}
        /\ ordered' \in StableSorts(s)
        /\ s \in Seq(Item)
        /\ x \in Item
    BY OrderAdds DEF IInv
  <1>2. pc[t] = "order" /\ pc'[t] = "next" /\ UNCHANGED <<byID, byName>>
        /\ \A u \in Registrars \ {t} : pc'[u] = pc[u]
    BY DEF RegisterOrder, At, Goto, IInv, TypeInv, TypeOK, Threads
  <1>3. InFlight = {x}
    BY <1>2, OneInFlight DEF IInv
  <1>4. InFlight' = {}
    <2>1. \A u \in Registrars : pc'[u] # "order"
      BY <1>2 DEF IInv, LockInv, Holding, Threads
    <2> QED BY <2>1 DEF InFlight, At
  <1>5. x \notin Listed
    BY <1>2 DEF IInv
  <1>6. \A j, k \in 1..Len(s) : j # k => NameOf(s[j]) # NameOf(s[k])
    <2> DEFINE n == Len(ordered)
    <2>1. ordered \in Seq(Item) /\ n \in Nat
      BY DEF IInv, TypeInv, TypeOK
    <2>2. Len(s) = n + 1 /\ s[n + 1] = x /\ \A k \in 1..n : s[k] = ordered[k]
      BY <1>1, <2>1
    <2>3. \A j \in 1..n : NameOf(ordered[j]) # NameOf(x)
      <3> SUFFICES ASSUME NEW j \in 1..n, NameOf(ordered[j]) = NameOf(x) PROVE FALSE
        OBVIOUS
      <3>1. ordered[j] \in Item /\ ordered[j] \in Listed
        BY <2>1 DEF Listed
      <3>2. byName[NameOf(ordered[j])] = ordered[j] /\ byName[NameOf(x)] = x
        BY <1>1, <1>3, <3>1 DEF IInv, IndexesAgree, NameOf
      <3> QED BY <1>5, <3>1, <3>2
    <2>4. \A j, k \in 1..n : j < k => NameOf(ordered[j]) < NameOf(ordered[k])
      BY DEF IInv, IndexesAgree
    <2>5. \A j \in 1..n : NameOf(ordered[j]) \in Nat
      <3>1. \A j \in 1..n : ordered[j] \in Item
        BY <2>1
      <3> QED BY <3>1, RegistryAssumption DEF NameOf, Descriptor
    <2>6. \A j, k \in 1..n : j # k => NameOf(ordered[j]) # NameOf(ordered[k])
      BY <2>1, <2>4, <2>5
    <2> HIDE DEF s, n
    <2>7. \A j \in 1..(n + 1) : j \in 1..n \/ j = n + 1
      BY <2>1
    <2> QED BY <2>2, <2>3, <2>6, <2>7
  <1>7. \A j, k \in 1..Len(ordered') : j < k => NameOf(ordered'[j]) < NameOf(ordered'[k])
    BY <1>1, <1>6, SortedList
  <1>8. \A i \in Item : byID'[Desc[i].id] = i <=> i \in Listed' \union InFlight'
    BY <1>1, <1>2, <1>3, <1>4 DEF IInv, IndexesAgree
  <1> QED BY <1>2, <1>4, <1>7, <1>8 DEF IInv, IndexesAgree

\* Before the first call the table is empty and no item was accepted.
LEMMA InvInit == Init => IInv
  <1> SUFFICES ASSUME Init PROVE IInv
    OBVIOUS
  <1>1. TypeInv /\ LockInv
    BY TypeInit, LockInit
  <1>2. Listed = {} /\ Len(ordered) = 0
    BY DEF Init, Listed
  <1>3. \A t \in Registrars : pc[t] = "idle"
    BY DEF Init, Threads
  <1>4. InFlight = {}
    BY <1>3, NoneInFlight
  <1>5. NoItem \notin Item
    BY RegistryAssumption DEF NoItem
  <1>6. \A i \in Item : Desc[i].id \in IDs /\ Desc[i].name \in Names
    BY DEF IDs, Names
  <1>7. /\ \A d \in IDs : byID[d] = NoItem
        /\ \A n \in Names : byName[n] = NoItem
    BY DEF Init
  <1>8. IndexesAgree
    BY <1>2, <1>4, <1>5, <1>6, <1>7 DEF IndexesAgree
  <1>9. AcceptedItemsStay
    BY DEF Init, AcceptedItemsStay
  <1>10. \A r \in Readers : known[r] \subseteq Listed
    BY DEF Init
  <1> QED BY <1>1, <1>3, <1>8, <1>9, <1>10 DEF IInv

\* Every step keeps the invariant.
LEMMA InvStep == IInv /\ [Next]_vars => IInv'
  <1> SUFFICES ASSUME IInv, [Next]_vars PROVE IInv'
    OBVIOUS
  <1>t. TypeInv' /\ LockInv'
    BY TypeStep, LockStep DEF IInv
  <1>r. Registrars \intersect Freezers = {} /\ Registrars \intersect Readers = {}
    BY RegistryAssumption
  <1>1. ASSUME NEW t \in Registrars, RegisterInsert(t) PROVE IInv'
    <2>1. IndexesAgree' /\ Current(t)' \notin Listed'
      BY <1>1, <1>t, InsertKeepsIndexes
    <2>2. \A u \in Registrars : pc'[u] = "order" => u = t
      BY <1>1, <1>t DEF LockInv, Holding, Threads, RegisterInsert, At, Goto, IInv, TypeInv, TypeOK
    <2>3. UNCHANGED <<ordered, batch, pos, outcome, known>>
      BY <1>1 DEF RegisterInsert, calls, reads
    <2>4. AcceptedItemsStay' /\ \A r \in Readers : known'[r] \subseteq Listed'
      BY <2>3 DEF IInv, AcceptedItemsStay, Listed
    <2> QED BY <1>t, <2>1, <2>2, <2>4 DEF IInv
  <1>2. ASSUME NEW t \in Registrars, RegisterOrder(t) PROVE IInv'
    <2>1. IndexesAgree' /\ InFlight' = {}
      BY <1>2, <1>t, OrderKeepsIndexes
    <2>2. \A u \in Registrars : pc'[u] # "order"
      BY <2>1 DEF InFlight, At
    <2>3. Listed' = Listed \union {Current(t)}
      BY <1>2, OrderAdds DEF IInv
    <2>4. /\ UNCHANGED <<batch, outcome, known>>
          /\ pos' = [pos EXCEPT ![t] = @ + 1]
          /\ outcome[t] = "none"
      BY <1>2 DEF RegisterOrder, reads, IInv, TypeInv, BatchOK, At
    <2>5. pos \in [Registrars -> Nat \ {0}]
      BY DEF IInv, TypeInv, TypeOK
    <2>6. AcceptedItemsStay'
      <3> SUFFICES ASSUME NEW u \in Registrars
                   PROVE  /\ \A k \in 1..(pos'[u] - 1) : batch'[u][k] \in Listed'
                          /\ outcome'[u] = "ok" => pos'[u] = Len(batch'[u]) + 1
        BY DEF AcceptedItemsStay
      <3>1. CASE u = t
        <4>1. pos'[u] - 1 = pos[t] /\ pos[t] \in Nat \ {0}
          BY <2>4, <2>5, <3>1
        <4>2. \A k \in 1..pos[t] : k \in 1..(pos[t] - 1) \/ k = pos[t]
          BY <2>5
        <4>3. \A k \in 1..(pos[t] - 1) : batch[t][k] \in Listed
          BY DEF IInv, AcceptedItemsStay
        <4> QED BY <2>3, <2>4, <3>1, <4>1, <4>2, <4>3 DEF Current
      <3>2. CASE u # t
        BY <2>3, <2>4, <2>5, <3>2 DEF IInv, AcceptedItemsStay
      <3> QED BY <3>1, <3>2
    <2>7. \A r \in Readers : known'[r] \subseteq Listed'
      BY <2>3, <2>4 DEF IInv
    <2> QED BY <1>t, <2>1, <2>2, <2>6, <2>7 DEF IInv
  <1>3. ASSUME ~\E t \in Registrars : RegisterInsert(t) \/ RegisterOrder(t) PROVE IInv'
    <2>1. /\ UNCHANGED <<byID, byName, ordered, pos>>
          /\ InFlight' = InFlight
          /\ \A t \in Registrars : pc'[t] = "order" <=> pc[t] = "order"
          /\ \A t \in Registrars : pc[t] # "idle" => batch'[t] = batch[t]
      BY <1>3, OtherSteps DEF IInv
    <2>2. Listed' = Listed
      BY <2>1 DEF Listed
    <2>3. IndexesAgree'
      BY <2>1, <2>2 DEF IInv, IndexesAgree
    <2>4. \A t \in Registrars : pc'[t] = "order" => Current(t)' \notin Listed'
      BY <2>1, <2>2 DEF IInv, Current
    <2>5. AcceptedItemsStay'
      <3> SUFFICES ASSUME NEW t \in Registrars
                   PROVE  /\ \A k \in 1..(pos'[t] - 1) : batch'[t][k] \in Listed'
                          /\ outcome'[t] = "ok" => pos'[t] = Len(batch'[t]) + 1
        BY DEF AcceptedItemsStay
      <3>1. CASE pc[t] = "idle"
        <4>1. pos[t] = 1 /\ outcome[t] = "none"
          BY <3>1 DEF IInv, TypeInv, BatchOK
        <4>2. outcome'[t] = "none"
          BY <1>3, <1>r, <3>1, <4>1
             DEF Next, RegistrarStep, IInv, TypeInv, TypeOK, At, vars, calls, StartBatch,
             BatchDone, RejectInvalid, RegisterLock, RegisterRefused, FreezerStep,
             FreezeLock, Freeze, RLock, ReaderLeaves, Visible, GetByName
        <4> QED BY <2>1, <4>1, <4>2
      <3>2. CASE pc[t] # "idle"
        <4>1. batch'[t] = batch[t] /\ pos'[t] = pos[t]
          BY <2>1, <3>2
        <4>2. outcome'[t] = "ok" => outcome[t] = "ok" \/ BatchDone(t)
          BY <1>3
             DEF Next, RegistrarStep, IInv, TypeInv, TypeOK, vars, calls, StartBatch,
             BatchDone, RejectInvalid, RegisterLock, RegisterRefused, Refusal, FreezerStep,
             FreezeLock, Freeze, RLock, ReaderLeaves, Visible, GetByName
        <4>3. BatchDone(t) => pos[t] = Len(batch[t]) + 1
          <5>1. /\ pos[t] \in Nat /\ Len(batch[t]) \in Nat /\ pos[t] <= Len(batch[t]) + 1
            BY DEF IInv, TypeInv, TypeOK, BatchOK
          <5>2. BatchDone(t) => pos[t] > Len(batch[t])
            BY DEF BatchDone
          <5> QED BY <5>1, <5>2
        <4> QED BY <2>2, <4>1, <4>2, <4>3 DEF IInv, AcceptedItemsStay
      <3> QED BY <3>1, <3>2
    <2>6. \A r \in Readers : known'[r] \subseteq Listed'
      <3> SUFFICES ASSUME NEW r \in Readers PROVE known'[r] \subseteq Listed
        BY <2>2
      <3>1. known[r] \subseteq Listed
        BY DEF IInv
      <3>2. \/ known'[r] = known[r]
            \/ Visible(r) /\ known'[r] = known[r] \union VisibleTo(caller[r])
            \/ GetByName(r) /\ \E n \in Names : known'[r] = known[r] \union ({byName[n]} \ {NoItem})
        <4>0. known \in [Readers -> SUBSET Item]
          BY DEF IInv, TypeInv, TypeOK
        <4>1. CASE known' = known
          BY <4>1
        <4>2. ASSUME NEW q \in Readers, Visible(q) PROVE <3>2!1 \/ <3>2!2
          <5>1. known' = [known EXCEPT ![q] = @ \union VisibleTo(caller[q])]
            BY <4>2 DEF Visible
          <5> QED BY <4>0, <4>2, <5>1
        <4>3. ASSUME NEW q \in Readers, GetByName(q) PROVE <3>2!1 \/ <3>2!3
          <5>1. PICK n \in Names :
                  known' = [known EXCEPT ![q] = @ \union ({byName[n]} \ {NoItem})]
            BY <4>3 DEF GetByName
          <5>2. q # r => known'[r] = known[r]
            BY <4>0, <5>1
          <5>3. q = r => known'[r] = known[r] \union ({byName[n]} \ {NoItem})
            BY <4>0, <5>1
          <5> QED BY <4>3, <5>2, <5>3
        <4>4. \/ known' = known
              \/ \E q \in Readers : Visible(q) \/ GetByName(q)
          BY <1>3
             DEF Next, RegistrarStep, vars, reads, StartBatch, BatchDone, RejectInvalid,
             RegisterLock, RegisterRefused, FreezerStep, FreezeLock, Freeze, RLock,
             ReaderLeaves
        <4> QED BY <4>1, <4>2, <4>3, <4>4
      <3>3. VisibleTo(caller[r]) \subseteq Listed
        BY DEF VisibleTo
      <3>4. GetByName(r) => InFlight = {}
        <4> SUFFICES ASSUME GetByName(r) PROVE \A t \in Registrars : pc[t] # "order"
          BY NoneInFlight
        <4>1. r \in inside
          BY DEF GetByName, At, IInv, LockInv, Reading
        <4> QED BY <4>1 DEF IInv, LockInv
      <3>5. ASSUME GetByName(r), NEW n \in Names, byName[n] # NoItem
            PROVE  byName[n] \in Listed
        <4>1. byName[n] \in Item /\ Desc[byName[n]].name = n
          BY <3>5 DEF IInv, TypeInv, TypeOK, IndexesAgree
        <4> QED BY <3>4, <3>5, <4>1 DEF IInv, IndexesAgree
      <3> QED BY <3>1, <3>2, <3>3, <3>5
    <2> QED BY <1>t, <2>3, <2>4, <2>5, <2>6 DEF IInv
  <1> QED BY <1>1, <1>2, <1>3

\* The invariant from which the properties below follow.
LEMMA Invariant == Spec => []IInv
  BY InvInit, InvStep, PTL DEF Spec

\* tools/list and tools/call agree on the table, whatever was registered by
\* whom in which order.
THEOREM IndexesAgreeHolds == Spec => []IndexesAgree
  <1>1. IInv => IndexesAgree
    BY DEF IInv
  <1> QED BY <1>1, Invariant, PTL

\* No interleaving loses an item that Register accepted.
THEOREM AcceptedItemsStayHolds == Spec => []AcceptedItemsStay
  <1>1. IInv => AcceptedItemsStay
    BY DEF IInv
  <1> QED BY <1>1, Invariant, PTL

\* A frozen table never changes.
THEOREM FrozenForGoodHolds == Spec => FrozenForGood
  <1>1. ASSUME IInv, [Next]_vars, frozen PROVE UNCHANGED table
    <2>1. \A t \in Registrars : ~RegisterInsert(t)
      BY <1>1 DEF RegisterInsert, Refusal
    <2>2. \A t \in Registrars : ~RegisterOrder(t)
      BY <1>1 DEF RegisterOrder, At, IInv, LockInv
    <2>3. UNCHANGED <<byID, byName, ordered>>
      BY <1>1, <2>1, <2>2, OtherSteps DEF IInv
    <2>4. frozen' = frozen
      BY <1>1, <2>1, <2>2
         DEF Next, RegistrarStep, vars, table, StartBatch, BatchDone, RejectInvalid, RegisterLock,
         RegisterRefused, FreezerStep, FreezeLock, Freeze, RLock, ReaderLeaves, Visible,
         GetByName, IInv, TypeInv, TypeOK
    <2> QED BY <2>3, <2>4 DEF table
  <1>2. IInv /\ [Next]_vars => [frozen => UNCHANGED table]_vars
    BY <1>1
  <1> QED BY <1>2, Invariant, PTL DEF Spec, FrozenForGood

\* A reader finds in every list what it was handed before and may see.
THEOREM VisibleCoversKnownHolds == Spec => VisibleCoversKnown
  <1> DEFINE Covers(r) ==
        At(r, "scan") /\ pc'[r] # "scan" =>
          {i \in known[r] : IsVisibleTo(caller[r], i)} \subseteq shown'[r]
  <1>1. ASSUME IInv, Next, NEW r \in Readers, At(r, "scan"), pc'[r] # "scan"
        PROVE  {i \in known[r] : IsVisibleTo(caller[r], i)} \subseteq shown'[r]
    <2>1. Visible(r)
      BY <1>1, RegistryAssumption
         DEF Next, RegistrarStep, IInv, TypeInv, TypeOK, LabelsOK, At, Goto, Threads, StartBatch,
         BatchDone, RejectInvalid, RegisterLock, RegisterRefused, RegisterInsert,
         RegisterOrder, FreezerStep, FreezeLock, Freeze, RLock, ReaderLeaves, GetByName, Visible
    <2>2. shown'[r] = VisibleTo(caller[r])
      <3>1. shown' = [shown EXCEPT ![r] = VisibleTo(caller[r])]
        BY <2>1 DEF Visible
      <3>2. shown \in [Readers -> SUBSET Item]
        BY <1>1 DEF IInv, TypeInv, TypeOK
      <3> QED BY <3>1, <3>2
    <2>3. known[r] \subseteq Listed
      BY <1>1 DEF IInv
    <2> QED BY <2>2, <2>3 DEF VisibleTo
  <1>2. IInv /\ [Next]_vars => [\A r \in Readers : Covers(r)]_vars
    BY <1>1
  <1> QED BY <1>2, Invariant, PTL DEF Spec, VisibleCoversKnown
===============================================================================
