-------------------------- MODULE RepositoryProofs --------------------------
(***************************************************************************)
(* The contract of Repository keeps receipts, resources and audit records  *)
(* consistent and never rewrites history, for any scopes, keys and         *)
(* transactions; repository.Memory, the file prototype and the PostgreSQL  *)
(* store implement it.  R is the contract, with the contents of the memory *)
(* for its own; the proofs about the file use those about the memory it    *)
(* extends; Contract is the same for the PostgreSQL store.                 *)
(***************************************************************************)
EXTENDS FileRepository, PostgresRepository, FiniteSetTheorems, TLAPS

-----------------------------------------------------------------------------
(* Facts about the transaction of Store. *)

(* The fields of the contents after a transaction. *)
LEMMA AppliedFields ==
    ASSUME NEW store \in StoreState, NEW t \in Transaction,
           NEW written \in Versions
    PROVE  LET d == applied(store, t.operation, t.mutations, written)
           IN /\ d \in StoreState
              /\ d.version = written
              /\ d.audit = store.audit \cup {written}
              /\ d.operations[t.operation.id].version = written
              /\ \A o \in CommandIds : o # t.operation.id =>
                                         d.operations[o] = store.operations[o]
              /\ \A k \in Keys : \/ d.resources[k].version = written
                                 \/ d.resources[k] = store.resources[k]
<1> DEFINE resource(k) == [version |-> written, payload |-> t.mutations[k].payload,
                           deleted |-> t.mutations[k].change = "delete"]
           d == applied(store, t.operation, t.mutations, written)
<1>1. /\ t.operation.id \in CommandIds
      /\ t.operation.digest \in Digests
      /\ \A k \in Keys : t.mutations[k].payload \in Payloads \cup {NoPayload}
  BY DEF Transaction, Operation, Mutations, Mutation
<1>2. /\ store.resources \in [Keys -> Resource]
      /\ store.operations \in [CommandIds -> Receipt]
      /\ store.audit \in SUBSET Versions
  BY DEF StoreState
<1>3. \A k \in Keys : resource(k) \in Resource /\ resource(k).version = written
  BY <1>1 DEF Resource
<1>4. [digest |-> t.operation.digest, version |-> written] \in Receipt
  BY <1>1 DEF Receipt
<1>5. d.resources = [k \in Keys |-> IF k \in Written(t.mutations)
                                    THEN resource(k) ELSE store.resources[k]]
  BY DEF applied
<1>6. d.operations = [o \in CommandIds |-> IF o = t.operation.id
                        THEN [digest |-> t.operation.digest, version |-> written]
                        ELSE store.operations[o]]
  BY DEF applied
<1>7. d.version = written /\ d.audit = store.audit \cup {written}
  BY DEF applied
<1> HIDE DEF resource
<1>8. d.resources \in [Keys -> Resource]
  BY <1>2, <1>3, <1>5
<1>9. d.operations \in [CommandIds -> Receipt]
  BY <1>2, <1>4, <1>6
<1>10. d = [version |-> d.version, resources |-> d.resources,
            operations |-> d.operations, audit |-> d.audit]
  BY DEF applied
<1> HIDE DEF d
<1>11. d \in StoreState
  BY <1>2, <1>7, <1>8, <1>9, <1>10 DEF StoreState
<1>12. \A k \in Keys : \/ d.resources[k].version = written
                       \/ d.resources[k] = store.resources[k]
  BY <1>3, <1>5
<1>13. /\ d.operations[t.operation.id].version = written
       /\ \A o \in CommandIds : o # t.operation.id =>
                                  d.operations[o] = store.operations[o]
  BY <1>1, <1>6
<1> QED
  BY <1>7, <1>11, <1>12, <1>13 DEF d

(* Versions are natural numbers. *)
LEMMA VersionTypes ==
    ASSUME NEW store \in StoreState
    PROVE  /\ store.version \in Nat
           /\ \A o \in CommandIds : store.operations[o].version \in Nat
           /\ \A k \in Keys : store.resources[k].version \in Nat
<1>1. /\ store.version \in Versions
      /\ store.operations \in [CommandIds -> Receipt]
      /\ store.resources \in [Keys -> Resource]
  BY DEF StoreState
<1>2. \A r \in Receipt : r.version \in Versions
  BY DEF Receipt
<1>3. \A r \in Resource : r.version \in Versions
  BY DEF Resource
<1> QED
  BY <1>1, <1>2, <1>3, StoreAssumption

(* The empty contents are well-formed and consistent. *)
LEMMA EmptyConsistent == EmptyStore \in StoreState /\ Consistent(EmptyStore)
BY StoreAssumption DEF EmptyStore, StoreState, NoResource, Resource, NoReceipt,
   Receipt, Consistent, Receipts

(* No resource is above the version of its scope. *)
LEMMA ResourcesBelow ==
    ASSUME NEW store \in StoreState, Consistent(store)
    PROVE  \A k \in Keys : store.resources[k].version <= store.version
BY VersionTypes DEF Consistent, Receipts

(* A new transaction at a higher version keeps the contents consistent. *)
LEMMA AppliedConsistent ==
    ASSUME NEW store \in StoreState, NEW t \in Transaction,
           NEW written \in Versions, Consistent(store),
           written > store.version, Replay(store, t.operation) = "absent"
    PROVE  Consistent(applied(store, t.operation, t.mutations, written))
<1> DEFINE d == applied(store, t.operation, t.mutations, written)
           id == t.operation.id
<1>1. /\ id \in CommandIds
      /\ store.operations[id].version = 0
  BY DEF Replay, Transaction, Operation
<1>2. /\ store.version \in Nat /\ written \in Nat /\ written # 0
      /\ \A o \in CommandIds : store.operations[o].version \in Nat
      /\ \A k \in Keys : store.resources[k].version \in Nat
  BY VersionTypes, StoreAssumption
<1>3. /\ d.version = written
      /\ d.audit = store.audit \cup {written}
      /\ d.operations[id].version = written
      /\ \A o \in CommandIds : o # id => d.operations[o] = store.operations[o]
      /\ \A k \in Keys : \/ d.resources[k].version = written
                          \/ d.resources[k] = store.resources[k]
  BY <1>1, AppliedFields
<1> HIDE DEF d
<1>4. Receipts(d) = Receipts(store) \cup {id} /\ id \notin Receipts(store)
  BY <1>1, <1>2, <1>3 DEF Receipts
<1>5. \A o \in Receipts(store) : /\ o \in CommandIds /\ o # id
                                 /\ d.operations[o] = store.operations[o]
                                 /\ store.operations[o].version <= store.version
  BY <1>3, <1>4 DEF Receipts, Consistent
<1>6. d.audit = {d.operations[o].version : o \in Receipts(d)}
  <2>1. store.audit = {store.operations[o].version : o \in Receipts(store)}
    BY DEF Consistent
  <2>2. \A v : v \in d.audit <=> v = written \/ \E o \in Receipts(store) :
                                                  v = store.operations[o].version
    BY <1>3, <2>1
  <2>3. \A v : v \in {d.operations[o].version : o \in Receipts(d)}
              <=> v = written \/ \E o \in Receipts(store) :
                                    v = store.operations[o].version
    BY <1>3, <1>4, <1>5
  <2> QED
    BY <2>2, <2>3
<1>7. \A o, p \in Receipts(d) :
        d.operations[o].version = d.operations[p].version => o = p
  <2> SUFFICES ASSUME NEW o \in Receipts(d), NEW p \in Receipts(d),
                      d.operations[o].version = d.operations[p].version
               PROVE  o = p
    OBVIOUS
  <2>1. CASE o = id \/ p = id
    BY <1>2, <1>3, <1>4, <1>5, <2>1
  <2>2. CASE o # id /\ p # id
    BY <1>4, <1>5, <2>2 DEF Consistent
  <2> QED
    BY <2>1, <2>2
<1>8. \A o \in Receipts(d) : d.operations[o].version <= d.version
  BY <1>2, <1>3, <1>4, <1>5
<1>9. \A k \in Keys : d.resources[k].version # 0 =>
        \E o \in Receipts(d) : d.operations[o].version = d.resources[k].version
  <2> SUFFICES ASSUME NEW k \in Keys, d.resources[k].version # 0
               PROVE  \E o \in Receipts(d) :
                        d.operations[o].version = d.resources[k].version
    OBVIOUS
  <2>1. CASE d.resources[k].version = written
    BY <1>3, <1>4, <2>1
  <2>2. CASE d.resources[k] = store.resources[k]
    <3>1. PICK o \in Receipts(store) :
            store.operations[o].version = store.resources[k].version
      BY <2>2 DEF Consistent
    <3> QED
      BY <1>4, <1>5, <2>2, <3>1
  <2> QED
    BY <1>3, <2>1, <2>2
<1> QED
  BY <1>6, <1>7, <1>8, <1>9 DEF Consistent, d

(* A new transaction extends the contents that it finds. *)
LEMMA AppliedExtends ==
    ASSUME NEW store \in StoreState, NEW t \in Transaction,
           NEW written \in Versions, Consistent(store),
           written > store.version, Replay(store, t.operation) = "absent"
    PROVE  Extends(store, applied(store, t.operation, t.mutations, written))
<1> DEFINE d == applied(store, t.operation, t.mutations, written)
<1>1. /\ d.version = written
      /\ d.audit = store.audit \cup {written}
      /\ \A o \in CommandIds : o # t.operation.id =>
                                d.operations[o] = store.operations[o]
      /\ \A k \in Keys : \/ d.resources[k].version = written
                          \/ d.resources[k] = store.resources[k]
  BY AppliedFields
<1>2. t.operation.id \notin Receipts(store)
  BY DEF Replay, Receipts
<1>3. \A k \in Keys : store.resources[k].version <= store.version
  BY ResourcesBelow
<1>4. /\ store.version \in Nat /\ written \in Nat
      /\ \A k \in Keys : store.resources[k].version \in Nat
  BY VersionTypes, StoreAssumption
<1> HIDE DEF d
<1>5. \A o \in Receipts(store) : d.operations[o] = store.operations[o]
  BY <1>1, <1>2 DEF Receipts
<1>6. \A k \in Keys : \/ d.resources[k] = store.resources[k]
                      \/ d.resources[k].version > store.resources[k].version
  BY <1>1, <1>3, <1>4
<1>7. d.version >= store.version /\ store.audit \subseteq d.audit
  BY <1>1, <1>4
<1> QED
  BY <1>5, <1>6, <1>7 DEF Extends, d

(* What one accepted transaction does to the contents of all the scopes:   *)
(* they stay well-formed and consistent, and history is kept.              *)
LEMMA CommitKeeps ==
    ASSUME NEW old \in [Scopes -> StoreState], NEW new,
           \A u \in Scopes : Consistent(old[u]),
           NEW s \in Scopes, NEW t \in Transactions, NEW written \in Versions,
           written > old[s].version, Accepted(old[s], t.operation, t.mutations),
           new = [old EXCEPT ![s] = applied(old[s], t.operation, t.mutations, written)]
    PROVE  /\ new \in [Scopes -> StoreState]
           /\ \A u \in Scopes : Consistent(new[u])
           /\ Kept(old, new)
<1> DEFINE d == applied(old[s], t.operation, t.mutations, written)
<1>1. t \in Transaction /\ old[s] \in StoreState /\ Consistent(old[s])
  BY TransactionsAssumption
<1>2. Replay(old[s], t.operation) = "absent"
  BY DEF Accepted
<1>3. d \in StoreState
  BY <1>1, AppliedFields
<1>4. Consistent(d)
  BY <1>1, <1>2, AppliedConsistent
<1>5. Extends(old[s], d)
  BY <1>1, <1>2, AppliedExtends
<1> HIDE DEF d
<1>6. new = [old EXCEPT ![s] = d]
  BY DEF d
<1>7. new \in [Scopes -> StoreState] /\ \A u \in Scopes : Consistent(new[u])
  BY <1>3, <1>4, <1>6
<1>8. \A u \in Scopes : new[u] = IF u = s THEN d ELSE old[u]
  BY <1>6
<1>9. ASSUME NEW u \in Scopes, u # s PROVE Extends(old[u], new[u])
  <2>1. old[u].version \in Nat
    BY VersionTypes
  <2> QED
    BY <1>8, <1>9, <2>1 DEF Extends
<1>10. Kept(old, new)
  BY <1>5, <1>8, <1>9 DEF Kept
<1> QED
  BY <1>7, <1>10

-----------------------------------------------------------------------------
(* The contract's definitions are the adapter's. *)
LEMMA SameDefinitions ==
    /\ R!EmptyStore = EmptyStore
    /\ R!StoreState = StoreState
    /\ \A store, operation, mutations :
         R!Accepted(store, operation, mutations)
           = Accepted(store, operation, mutations)
    /\ \A store, operation, mutations, v :
         R!applied(store, operation, mutations, v)
           = applied(store, operation, mutations, v)
    /\ \A store : R!Consistent(store) = Consistent(store)
    /\ \A old, new : R!Kept(old, new) = Kept(old, new)
<1>1. R!EmptyStore = EmptyStore
  BY Zenon DEF R!EmptyStore, EmptyStore, R!NoResource, NoResource, R!NoReceipt, NoReceipt
<1>2. R!StoreState = StoreState
  BY Zenon DEF R!StoreState, StoreState, R!Resource, Resource, R!Receipt, Receipt
<1>3. \A mutations : R!Written(mutations) = Written(mutations)
  BY Zenon DEF R!Written, Written
<1>4. \A store, operation, mutations :
         R!Accepted(store, operation, mutations)
           = Accepted(store, operation, mutations)
  BY <1>3 DEF R!Accepted, Accepted, R!ValidateTransaction, ValidateTransaction,
     R!Replay, Replay, R!Conflicts, Conflicts, R!Actual, Actual
<1>5. \A store, operation, mutations, v :
         R!applied(store, operation, mutations, v)
           = applied(store, operation, mutations, v)
  <2> TAKE store, operation, mutations, v
  <2>1. R!Written(mutations) = Written(mutations)
    BY <1>3, Zenon
  <2> QED
    BY <2>1, Zenon DEF R!applied, applied
<1>6. \A store : R!Receipts(store) = Receipts(store)
  BY Zenon DEF R!Receipts, Receipts
<1>7. \A store : R!Consistent(store) = Consistent(store)
  BY <1>6 DEF R!Consistent, Consistent
<1>8. \A old, new : R!Kept(old, new) = Kept(old, new)
  BY <1>6 DEF R!Kept, Kept, R!Extends, Extends
<1> QED
  BY <1>1, <1>2, <1>4, <1>5, <1>7, <1>8, Zenon

-----------------------------------------------------------------------------
(* The contract. *)

ContractInv == R!StoresTypeOK /\ R!ReceiptsConsistent

(* What one step of the contract does, for the invariant and the history. *)
LEMMA ContractStep ==
    ASSUME ContractInv, [R!Next]_stores
    PROVE  ContractInv' /\ [R!Kept(stores, stores')]_stores
<1> USE SameDefinitions DEF R!StoresTypeOK, R!ReceiptsConsistent, ContractInv
<1>1. CASE UNCHANGED stores
  BY <1>1
<1>2. ASSUME NEW s \in Scopes, NEW t \in Transactions, NEW v \in Versions,
             R!Commit(s, t, v)
      PROVE  ContractInv' /\ R!Kept(stores, stores')
  BY <1>2, CommitKeeps DEF R!Commit
<1> QED
  BY <1>1, <1>2 DEF R!Next

(* The invariant of the contract. *)
LEMMA ContractInvariance == R!Spec => []ContractInv
<1>1. R!Init => ContractInv
  BY EmptyConsistent, SameDefinitions
     DEF R!Init, ContractInv, R!StoresTypeOK, R!ReceiptsConsistent
<1>2. ContractInv /\ [R!Next]_stores => ContractInv'
  BY ContractStep
<1> QED
  BY <1>1, <1>2, PTL DEF R!Spec

(* The contents of every scope keep the shape of the Go types, whatever    *)
(* adapter implements the contract.                                        *)
THEOREM ContractTypeCorrect == R!Spec => []R!StoresTypeOK
BY ContractInvariance, PTL DEF ContractInv

(* Receipts, resources and audit records of a scope always agree, whatever *)
(* versions an adapter hands out as long as they grow.                     *)
THEOREM ContractReceiptsConsistent == R!Spec => []R!ReceiptsConsistent
BY ContractInvariance, PTL DEF ContractInv

(* No transaction removes or rewrites a receipt, an audit record or a      *)
(* version, or reaches into another scope.                                 *)
THEOREM ContractKeepsHistory == R!Spec => R!HistoryKept
<1>1. ContractInv /\ [R!Next]_stores => [R!Kept(stores, stores')]_stores
  BY ContractStep
<1> QED
  BY <1>1, ContractInvariance, PTL DEF R!Spec, R!HistoryKept

-----------------------------------------------------------------------------
(***************************************************************************)
(* repository.Memory implements the Repository contract.  A commit takes   *)
(* the next value of a counter all scopes share; the contract asks for a   *)
(* version above the scope's own, so the invariant that carries the proof  *)
(* is that the counter is never below the version of a scope.  With it the *)
(* adapter keeps receipts consistent and history as it was written.        *)
(***************************************************************************)

IInv == TypeOK /\ CounterAbove /\ ReceiptsConsistent

(* A step keeps the counter at or above every scope, the contents          *)
(* consistent, and what was written before.                                *)
LEMMA StepInv ==
    ASSUME IInv, [Next]_vars
    PROVE  IInv' /\ [Kept(stores, stores')]_stores
<1> USE SameDefinitions DEF R!StoresTypeOK
<1>1. CASE UNCHANGED vars
  BY <1>1, Zenon DEF IInv, TypeOK, CounterAbove, ReceiptsConsistent, vars
<1>2. ASSUME NEW s \in Scopes, NEW t \in Transactions, Commit(s, t),
             ~UNCHANGED vars
      PROVE  IInv' /\ Kept(stores, stores')
  <2> DEFINE d == applied(stores[s], t.operation, t.mutations, version + 1)
  <2>1. /\ version + 1 \in Versions
        /\ version' = version + 1
        /\ stores' = [stores EXCEPT ![s] = d]
        /\ Accepted(stores[s], t.operation, t.mutations)
    BY <1>2, Zenon DEF Commit
  <2>2. t \in Transaction /\ stores \in [Scopes -> StoreState] /\ version \in Nat
    BY TransactionsAssumption, StoreAssumption, Zenon DEF IInv, TypeOK
  <2>3. d.version = version + 1
    BY <2>1, <2>2, AppliedFields
  <2>4. \A u \in Scopes : stores[u].version \in Nat /\ stores[u].version <= version
    BY <2>2, StoreAssumption, Zenon DEF IInv, CounterAbove, StoreState
  <2>5. version + 1 > stores[s].version
    BY <2>2, <2>4
  <2>6. \A u \in Scopes : Consistent(stores[u])
    BY Zenon DEF IInv, ReceiptsConsistent
  <2>7. /\ stores' \in [Scopes -> StoreState]
        /\ \A u \in Scopes : Consistent(stores'[u])
        /\ Kept(stores, stores')
    BY <2>1, <2>2, <2>5, <2>6, CommitKeeps, Zenon
  <2> HIDE DEF d
  <2>8. TypeOK'
    BY <2>1, <2>7, Zenon DEF TypeOK
  <2>9. CounterAbove'
    BY <2>1, <2>2, <2>3, <2>4 DEF CounterAbove
  <2> QED
    BY <2>7, <2>8, <2>9, Zenon DEF IInv, ReceiptsConsistent
<1> QED
  BY <1>1, <1>2, Zenon DEF Next, vars

(* The invariant of the memory repository. *)
LEMMA Invariance == Spec => []IInv
<1>1. ASSUME Init PROVE IInv
  <2>1. /\ stores \in [Scopes -> StoreState]
        /\ \A s \in Scopes : stores[s] = EmptyStore
    BY <1>1, EmptyConsistent, Zenon DEF Init
  <2>2. TypeOK
    BY <1>1, <2>1, StoreAssumption, SameDefinitions, Zenon DEF Init, TypeOK, R!StoresTypeOK
  <2>3. EmptyStore.version = 0
    BY Zenon DEF EmptyStore
  <2>4. CounterAbove
    BY <1>1, <2>1, <2>3 DEF Init, CounterAbove
  <2>5. ReceiptsConsistent
    BY <2>1, EmptyConsistent, Zenon DEF ReceiptsConsistent
  <2> QED
    BY <2>2, <2>4, <2>5, Zenon DEF IInv
<1>2. IInv /\ [Next]_vars => IInv'
  BY StepInv, Zenon
<1> QED
  BY <1>1, <1>2, PTL DEF Spec

(* The receipts, resources and audit records of a tenant agree after any   *)
(* commits of any tenants.                                                 *)
THEOREM ReceiptsAreConsistent == Spec => []ReceiptsConsistent
BY Invariance, PTL DEF IInv

(* No commit rewrites a receipt, an audit record or an older version, and  *)
(* none reaches into the scope of another tenant.                          *)
THEOREM HistoryIsKept == Spec => HistoryKept
<1>1. IInv /\ [Next]_vars => [Kept(stores, stores')]_stores
  BY StepInv, Zenon
<1> QED
  BY <1>1, Invariance, PTL DEF Spec, HistoryKept

(* Every behaviour of the in-memory adapter is a behaviour of the          *)
(* Repository contract, for any scopes, keys and transactions.             *)
THEOREM MemoryImplementsRepository == Spec => ImplementsRepository
<1>1. Init => R!Init
  BY SameDefinitions, Zenon DEF Init, R!Init
<1>2. IInv /\ [Next]_vars => [R!Next]_stores
  <2> SUFFICES ASSUME IInv, Next, ~UNCHANGED vars
               PROVE  R!Next
    BY Zenon DEF vars
  <2>1. PICK s \in Scopes, t \in Transactions : Commit(s, t)
    BY Zenon DEF Next
  <2>2. /\ Accepted(stores[s], t.operation, t.mutations)
        /\ version + 1 \in Versions
        /\ stores' = [stores EXCEPT ![s] =
              applied(stores[s], t.operation, t.mutations, version + 1)]
    BY <2>1, Zenon DEF Commit
  <2>3. stores[s].version \in Nat /\ stores[s].version <= version /\ version \in Nat
    BY StoreAssumption, SameDefinitions, Zenon DEF IInv, TypeOK, CounterAbove,
       R!StoresTypeOK, StoreState
  <2>4. version + 1 > stores[s].version
    BY <2>3
  <2>5. R!Commit(s, t, version + 1)
    BY <2>2, <2>4, SameDefinitions, Zenon DEF R!Commit
  <2> QED
    BY <2>2, <2>5, Zenon DEF R!Next
<1> QED
  BY <1>1, <1>2, Invariance, PTL DEF Spec, ImplementsRepository, R!Spec

-----------------------------------------------------------------------------
(***************************************************************************)
(* A crash or a failed write at any point of a commit loses nothing that   *)
(* was reported and leaves a file that can be read again: the file holds   *)
(* either what is in memory, or that and one transaction which the memory  *)
(* would accept.  Both are sound contents, so loadState accepts the file,  *)
(* and reading it is either no step of the Repository contract or the one  *)
(* commit that was interrupted.                                            *)
(***************************************************************************)

(* The contents the state in memory would be written as. *)
Memory == [version |-> version, stores |-> stores]

(* What makes contents sound, in memory or on disk.  The counter is above  *)
(* every scope, so a new version is in no scope's audit log; receipts are  *)
(* finitely many, so they can be counted.                                  *)
Sound(d) ==
    /\ d.version \in Versions
    /\ d.stores \in [Scopes -> StoreState]
    /\ \A s \in Scopes : /\ d.stores[s].version <= d.version
                         /\ Consistent(d.stores[s])
                         /\ IsFiniteSet(Receipts(d.stores[s]))
    /\ \A s, u \in Scopes :
         s # u => d.stores[s].audit \cap d.stores[u].audit = {}

(* The file is one interrupted commit ahead of the memory. *)
Ahead == \E s \in Scopes, t \in Transactions :
           /\ Accepted(stores[s], t.operation, t.mutations)
           /\ version + 1 \in Versions
           /\ disk = next(s, t)

FileInv == Sound(Memory) /\ (disk = Memory \/ Ahead)

-----------------------------------------------------------------------------

(* A receipt is added for the operation of the transaction. *)
LEMMA AppliedReceipts ==
    ASSUME NEW store \in StoreState, NEW t \in Transaction,
           NEW v \in Versions, v # 0
    PROVE  Receipts(applied(store, t.operation, t.mutations, v))
             = Receipts(store) \cup {t.operation.id}
<1> DEFINE d == applied(store, t.operation, t.mutations, v)
<1>1. t.operation.id \in CommandIds
  BY Zenon DEF Transaction, Operation
<1>2. /\ d.operations[t.operation.id].version = v
      /\ \A o \in CommandIds : o # t.operation.id =>
                                 d.operations[o] = store.operations[o]
  BY AppliedFields
<1> HIDE DEF d
<1> QED
  BY <1>1, <1>2, Zenon DEF Receipts, d

(* Every audit record is at or below the version of its scope. *)
LEMMA AuditBelow ==
    ASSUME NEW store \in StoreState, Consistent(store)
    PROVE  \A v \in store.audit : v \in Nat /\ 0 < v /\ v <= store.version
<1>1. \A o \in Receipts(store) : /\ store.operations[o].version \in Nat
                                 /\ store.operations[o].version # 0
                                 /\ store.operations[o].version <= store.version
  BY VersionTypes, Zenon DEF Consistent, Receipts
<1> QED
  BY <1>1 DEF Consistent

(* There are as many audit records as receipts. *)
LEMMA AuditCount ==
    ASSUME NEW store, Consistent(store), IsFiniteSet(Receipts(store))
    PROVE  Cardinality(Receipts(store)) = Cardinality(store.audit)
<1> DEFINE f == [o \in Receipts(store) |-> store.operations[o].version]
<1>1. f \in Bijection(Receipts(store), store.audit)
  BY DEF Consistent, Bijection, Injection, Surjection, IsInjective
<1>2. ExistsBijection(Receipts(store), store.audit)
  BY <1>1, Zenon DEF ExistsBijection
<1> QED
  BY <1>2, FS_Bijection, Zenon

(* diskToState accepts sound contents. *)
LEMMA SoundLoadable ==
    ASSUME NEW d, Sound(d)
    PROVE  Loadable(d)
<1>1. ASSUME NEW s \in Scopes
      PROVE  LET store == d.stores[s]
             IN /\ store.version <= d.version
                /\ \A k \in Keys : store.resources[k].version <= store.version
                /\ \A o \in CommandIds : store.operations[o].version <= store.version
                /\ \A v \in store.audit : 0 < v /\ v <= store.version
                /\ Cardinality(Receipts(store)) = Cardinality(store.audit)
  <2>1. d.stores[s] \in StoreState /\ Consistent(d.stores[s])
    BY Zenon DEF Sound
  <2>2. \A k \in Keys : d.stores[s].resources[k].version <= d.stores[s].version
    BY <2>1, ResourcesBelow, Zenon
  <2>3. \A o \in CommandIds : d.stores[s].operations[o].version <= d.stores[s].version
    <3>1. \A o \in Receipts(d.stores[s]) :
            d.stores[s].operations[o].version <= d.stores[s].version
      BY <2>1, Zenon DEF Consistent
    <3>2. \A o \in CommandIds \ Receipts(d.stores[s]) :
            d.stores[s].operations[o].version = 0
      BY Zenon DEF Receipts
    <3>3. d.stores[s].version \in Nat
      BY <2>1, VersionTypes, Zenon
    <3> QED
      BY <3>1, <3>2, <3>3
  <2>4. \A v \in d.stores[s].audit : 0 < v /\ v <= d.stores[s].version
    BY <2>1, AuditBelow, Zenon
  <2>5. Cardinality(Receipts(d.stores[s])) = Cardinality(d.stores[s].audit)
    BY <2>1, AuditCount, Zenon DEF Sound
  <2> QED
    BY <2>2, <2>3, <2>4, <2>5, Zenon DEF Sound
<1>2. \A s, u \in Scopes : s # u => d.stores[s].audit \cap d.stores[u].audit = {}
  BY Zenon DEF Sound
<1> QED
  BY <1>1, <1>2, Zenon DEF Loadable, Receipts

(* A transaction the memory accepts makes sound contents of sound ones,    *)
(* and is a commit of the contract.                                        *)
LEMMA NextSound ==
    ASSUME Sound(Memory), version + 1 \in Versions,
           NEW s \in Scopes, NEW t \in Transactions,
           Accepted(stores[s], t.operation, t.mutations)
    PROVE  Sound(next(s, t)) /\ version + 1 > stores[s].version
<1> DEFINE a == applied(stores[s], t.operation, t.mutations, version + 1)
           new == next(s, t).stores
<1>1. /\ version \in Nat /\ stores \in [Scopes -> StoreState]
      /\ \A u \in Scopes : /\ stores[u].version <= version
                           /\ Consistent(stores[u])
                           /\ IsFiniteSet(Receipts(stores[u]))
      /\ \A u, w \in Scopes : u # w => stores[u].audit \cap stores[w].audit = {}
      /\ t \in Transaction
  BY StoreAssumption, TransactionsAssumption, Zenon DEF Sound, Memory
<1>2. \A u \in Scopes : stores[u].version \in Nat
  BY <1>1, VersionTypes, Zenon
<1>3. version + 1 > stores[s].version
  BY <1>1, <1>2
<1>4. next(s, t).version = version + 1 /\ new = [stores EXCEPT ![s] = a]
  BY Zenon DEF next
<1>5. a.version = version + 1 /\ a.audit = stores[s].audit \cup {version + 1}
  BY <1>1, AppliedFields
<1>6. IsFiniteSet(Receipts(a))
  <2>1. Receipts(a) = Receipts(stores[s]) \cup {t.operation.id}
    BY <1>1, AppliedReceipts
  <2>2. IsFiniteSet(Receipts(stores[s]))
    BY <1>1, Zenon
  <2>3. IsFiniteSet(Receipts(stores[s]) \cup {t.operation.id})
    BY <2>2, FS_AddElement, Zenon
  <2> QED
    BY <2>1, <2>3, Zenon
<1>7. new \in [Scopes -> StoreState] /\ \A u \in Scopes : Consistent(new[u])
  BY <1>1, <1>3, <1>4, CommitKeeps, Zenon
<1> HIDE DEF a, new
<1>8. \A u \in Scopes : new[u] = IF u = s THEN a ELSE stores[u]
  BY <1>1, <1>4, Zenon
<1>9. \A u \in Scopes : new[u].version <= version + 1 /\ IsFiniteSet(Receipts(new[u]))
  BY <1>1, <1>2, <1>5, <1>6, <1>8
<1>10. \A u \in Scopes : version + 1 \notin stores[u].audit
  BY <1>1, <1>2, AuditBelow
<1>11. \A u, w \in Scopes : u # w => new[u].audit \cap new[w].audit = {}
  BY <1>1, <1>5, <1>8, <1>10
<1> QED
  BY <1>3, <1>4, <1>7, <1>9, <1>11, Zenon DEF Sound, new

(* Whatever the file holds, it is sound. *)
LEMMA DiskSound == ASSUME FileInv PROVE Sound(disk)
BY NextSound, Zenon DEF FileInv, Ahead

(* The contents of memory and file after a step, and what the step was     *)
(* for the contract.                                                       *)
LEMMA FileStep ==
    ASSUME FileInv, [FileNext]_fileVars
    PROVE  FileInv' /\ [R!Next]_stores
<1> DEFINE Committed(s, t) ==
             /\ Accepted(stores[s], t.operation, t.mutations)
             /\ version + 1 \in Versions
             /\ Memory' = next(s, t)
<1>1. ASSUME NEW s \in Scopes, NEW t \in Transactions, Committed(s, t)
      PROVE  Sound(Memory)' /\ R!Next
  <2>1. Sound(next(s, t)) /\ version + 1 > stores[s].version
    BY <1>1, NextSound, Zenon DEF FileInv
  <2>2. Sound(Memory')
    BY <1>1, <2>1, Zenon
  <2>3. stores' = [stores EXCEPT ![s] =
                     applied(stores[s], t.operation, t.mutations, version + 1)]
    BY <1>1, Zenon DEF Memory, next
  <2>4. R!Commit(s, t, version + 1)
    BY <1>1, <2>1, <2>3, SameDefinitions, Zenon DEF R!Commit
  <2> QED
    BY <1>1, <2>2, <2>4, Zenon DEF R!Next, Sound
<1>2. ASSUME UNCHANGED vars, disk' = disk
      PROVE  FileInv' /\ UNCHANGED stores
  <2>1. Memory' = Memory /\ (Ahead => Ahead')
    BY <1>2, Zenon DEF Memory, Ahead, next, vars
  <2> QED
    BY <1>2, <2>1, Zenon DEF FileInv, Sound, vars
<1>3. ASSUME NEW s \in Scopes, NEW t \in Transactions, FileCommit(s, t)
      PROVE  FileInv' /\ [R!Next]_stores
  <2>1. CASE Commit(s, t) /\ vars' = vars /\ disk' = disk
    BY <1>2, <2>1, Zenon
  <2>2. CASE /\ Commit(s, t) /\ vars' # vars
             /\ disk' = [version |-> version', stores |-> stores']
    <3>1. Committed(s, t)
      BY <2>2, Zenon DEF Commit, next, Memory, vars
    <3>2. disk' = Memory'
      BY <2>2, Zenon DEF Memory
    <3> QED
      BY <1>1, <3>1, <3>2, Zenon DEF FileInv
  <2>3. CASE /\ Accepted(stores[s], t.operation, t.mutations)
             /\ PersistFails(s, t) /\ UNCHANGED vars
    <3>1. CASE disk' = disk
      BY <1>2, <2>3, <3>1, Zenon
    <3>2. CASE disk' = next(s, t)
      <4>1. Ahead'
        BY <2>3, <3>2, Zenon DEF Ahead, PersistFails, next, vars
      <4>2. Sound(Memory)' /\ UNCHANGED stores
        BY <2>3, Zenon DEF FileInv, Sound, Memory, vars
      <4> QED
        BY <4>1, <4>2, Zenon DEF FileInv
    <3> QED
      BY <2>3, <3>1, <3>2, Zenon DEF PersistFails
  <2> QED
    BY <1>3, <2>1, <2>2, <2>3, Zenon DEF FileCommit
<1>4. CASE Exit
  BY <1>2, <1>4, Zenon DEF Exit, vars
<1>5. CASE Open
  <2>1. CASE disk = Memory
    BY <1>2, <1>5, <2>1, Zenon DEF Open, Memory, vars
  <2>2. CASE Ahead
    <3>1. PICK s \in Scopes, t \in Transactions :
            /\ Accepted(stores[s], t.operation, t.mutations)
            /\ version + 1 \in Versions
            /\ disk = next(s, t)
      BY <2>2, Zenon DEF Ahead
    <3>2. Memory' = disk
      BY <1>5, <3>1, Zenon DEF Open, Memory, next
    <3> QED
      BY <1>1, <1>5, <3>1, <3>2, Zenon DEF FileInv, Open
  <2> QED
    BY <2>1, <2>2, Zenon DEF FileInv
<1>6. CASE UNCHANGED fileVars
  BY <1>2, <1>6, Zenon DEF fileVars, vars
<1> QED
  BY <1>3, <1>4, <1>5, <1>6, Zenon DEF FileNext

(* The invariant of the file repository. *)
LEMMA FileInvariance == FileSpec => []FileInv
<1>1. ASSUME FileInit PROVE FileInv
  <2>1. Memory = newState /\ disk = Memory
    BY <1>1, Zenon DEF FileInit, Init, newState, Memory
  <2>2. /\ EmptyStore \in StoreState /\ Consistent(EmptyStore)
        /\ EmptyStore.version = 0 /\ EmptyStore.audit = {}
    BY EmptyConsistent, Zenon DEF EmptyStore
  <2>3. Receipts(EmptyStore) = {}
    BY Zenon DEF Receipts, EmptyStore, NoReceipt
  <2>4. /\ newState.version = 0 /\ newState.stores \in [Scopes -> StoreState]
        /\ \A s \in Scopes : newState.stores[s] = EmptyStore
    BY <2>2, Zenon DEF newState
  <2>5. Sound(newState)
    BY <2>2, <2>3, <2>4, StoreAssumption, FS_EmptySet DEF Sound
  <2> QED
    BY <2>1, <2>5, Zenon DEF FileInv
<1>2. FileInv /\ [FileNext]_fileVars => FileInv'
  BY FileStep, Zenon
<1> QED
  BY <1>1, <1>2, PTL DEF FileSpec

-----------------------------------------------------------------------------

(* The receipts, resources and audit records of a tenant agree, whichever  *)
(* commits were interrupted and however often the process came back.       *)
THEOREM FileReceiptsAreConsistent == FileSpec => []ReceiptsConsistent
<1>1. FileInv => ReceiptsConsistent
  BY Zenon DEF FileInv, Sound, Memory, ReceiptsConsistent
<1> QED
  BY <1>1, FileInvariance, PTL

(* loadState accepts every file a commit leaves, interrupted or not. *)
THEOREM FilesAreLoadable == FileSpec => []AlwaysLoadable
<1>1. FileInv => AlwaysLoadable
  BY DiskSound, SoundLoadable, Zenon DEF AlwaysLoadable
<1> QED
  BY <1>1, FileInvariance, PTL

(* With crashes, failed writes and restarts the adapter does what the      *)
(* Repository contract says: an interrupted commit happens as a whole, at  *)
(* the restart that reads it, or not at all.                               *)
THEOREM FileImplementsRepository == FileSpec => ImplementsRepository
<1>1. FileInit => R!Init
  BY SameDefinitions, Zenon DEF FileInit, Init, R!Init
<1>2. FileInv /\ [FileNext]_fileVars => [R!Next]_stores
  BY FileStep, Zenon
<1> QED
  BY <1>1, <1>2, FileInvariance, PTL DEF FileSpec, ImplementsRepository, R!Spec

-----------------------------------------------------------------------------
(* Interleaved SQL transactions implement the Repository contract, for any *)
(* number of connections and scopes.  What a transaction has read stays    *)
(* true until it commits, because it holds the row of its scope from the   *)
(* moment it took its version: no other connection can commit there.  The  *)
(* invariant says so of every connection: the version taken is the next    *)
(* one of the committed rows, the operation still has no receipt, and,     *)
(* once the writes are done, no mutation is stale.                         *)

Working == [step : {"reserve", "claim", "check", "commit"}, scope : Scopes,
            t : Transactions, version : Nat, checked : SUBSET Keys]

(* A working transaction x of connection c, against the committed rows and *)
(* the locks.                                                              *)
Current(x, c, rows, locks) ==
    /\ x \in Working
    /\ ValidateTransaction(x.t.mutations)
    /\ x.step # "reserve" => /\ locks[x.scope] = c
                             /\ x.version = rows[x.scope].version + 1
                             /\ x.version \in Versions
    /\ x.step \in {"check", "commit"} =>
         Replay(rows[x.scope], x.t.operation) = "absent"
    /\ x.step = "commit" => Conflicts(rows[x.scope], x.t.mutations) = {}

TxOK(x, c, rows, locks) ==
    \/ x = Idle
    \/ x.step = "read" /\ x.rows \in StoreState /\ Consistent(x.rows)
    \/ Current(x, c, rows, locks)

RowsOK(rows) ==
    /\ rows \in [Scopes -> StoreState]
    /\ \A s \in Scopes : /\ Consistent(rows[s])
                         /\ rows[s].audit = 1..rows[s].version

ViewOK == /\ view \in [Connections -> StoreState]
          /\ \A c \in Connections : Consistent(view[c])

PostgresInv ==
    /\ RowsOK(stores)
    /\ lock \in [Scopes -> Connections \cup {NoConnection}]
    /\ tx = [c \in Connections |-> tx[c]]
    /\ \A c \in Connections : TxOK(tx[c], c, stores, lock)
    /\ ViewOK

-----------------------------------------------------------------------------

(* The contract's definitions are the adapter's. *)
LEMMA SameContract ==
    /\ Contract!EmptyStore = EmptyStore
    /\ \A store, operation, mutations :
         Contract!Accepted(store, operation, mutations)
           = Accepted(store, operation, mutations)
    /\ \A store, operation, mutations, v :
         Contract!applied(store, operation, mutations, v)
           = applied(store, operation, mutations, v)
<1>1. Contract!EmptyStore = EmptyStore
  BY Zenon DEF Contract!EmptyStore, EmptyStore, Contract!NoResource, NoResource, Contract!NoReceipt, NoReceipt
<1>2. \A mutations : Contract!Written(mutations) = Written(mutations)
  BY Zenon DEF Contract!Written, Written
<1>3. \A store, operation, mutations :
         Contract!Accepted(store, operation, mutations)
           = Accepted(store, operation, mutations)
  BY <1>2 DEF Contract!Accepted, Accepted, Contract!ValidateTransaction, ValidateTransaction,
     Contract!Replay, Replay, Contract!Conflicts, Conflicts, Contract!Actual, Actual
<1>4. \A store, operation, mutations, v :
         Contract!applied(store, operation, mutations, v)
           = applied(store, operation, mutations, v)
  <2> TAKE store, operation, mutations, v
  <2>1. Contract!Written(mutations) = Written(mutations)
    BY <1>2, Zenon
  <2> QED
    BY <2>1, Zenon DEF Contract!applied, applied
<1> QED
  BY <1>1, <1>3, <1>4, Zenon

(* A connection does not notice changes to rows it has not locked. *)
LEMMA Unnoticed ==
    ASSUME NEW x, NEW c, NEW rows, NEW locks, NEW newRows, NEW newLocks,
           TxOK(x, c, rows, locks),
           \A s \in Scopes : locks[s] = c => /\ newLocks[s] = c
                                             /\ newRows[s] = rows[s]
    PROVE  TxOK(x, c, newRows, newLocks)
<1>1. CASE Current(x, c, rows, locks)
  <2>1. x.scope \in Scopes
    BY <1>1, Zenon DEF Current, Working
  <2>2. x.step = "reserve" \/ newRows[x.scope] = rows[x.scope]
    BY <1>1, <2>1, Zenon DEF Current
  <2> QED
    BY <1>1, <2>1, <2>2, Zenon DEF Current, TxOK
<1> QED
  BY <1>1, Zenon DEF TxOK

(* A step of one connection that leaves the committed rows alone. *)
LEMMA Continue ==
    ASSUME PostgresInv, NEW c \in Connections, NEW x,
           tx' = [tx EXCEPT ![c] = x], TxOK(x, c, stores, lock'),
           lock' \in [Scopes -> Connections \cup {NoConnection}],
           \A s \in Scopes : lock[s] # c /\ lock[s] # NoConnection => lock'[s] = lock[s],
           stores' = stores, ViewOK'
    PROVE  PostgresInv'
<1>1. ASSUME NEW b \in Connections PROVE TxOK(tx'[b], b, stores', lock')
  <2>1. CASE b = c
    BY <2>1, Zenon DEF PostgresInv
  <2>2. CASE b # c
    <3>1. tx'[b] = tx[b] /\ TxOK(tx[b], b, stores, lock)
      BY <2>2, Zenon DEF PostgresInv
    <3>2. \A s \in Scopes : lock[s] = b => lock'[s] = b /\ stores'[s] = stores[s]
      BY <2>2, ConnectionsAssumption, Zenon
    <3> QED
      BY <3>1, <3>2, Unnoticed
  <2> QED
    BY <2>1, <2>2, Zenon
<1>2. tx' = [b \in Connections |-> tx'[b]]
  BY Zenon DEF PostgresInv
<1> QED
  BY <1>1, <1>2, Zenon DEF PostgresInv

(* A transaction that ends without a commit. *)
LEMMA EndStep ==
    ASSUME PostgresInv, NEW c \in Connections, End(c), UNCHANGED <<stores, view>>
    PROVE  PostgresInv'
<1>1. TxOK(Idle, c, stores, lock')
  BY Zenon DEF TxOK
<1>2. lock' \in [Scopes -> Connections \cup {NoConnection}]
  BY Zenon DEF End, PostgresInv
<1>3. \A s \in Scopes : lock[s] # c => lock'[s] = lock[s]
  BY Zenon DEF End
<1>4. ViewOK'
  BY Zenon DEF PostgresInv, ViewOK
<1> QED
  BY <1>1, <1>2, <1>3, <1>4, Continue, Zenon DEF End

(* COMMIT: the rows a transaction was computed from are still there, so it *)
(* is one commit of the contract, and nobody else was looking at them.     *)
LEMMA CommitStep ==
    ASSUME PostgresInv, NEW c \in Connections, CommitTx(c)
    PROVE  PostgresInv' /\ Contract!Next
<1> DEFINE x == tx[c]
           s == x.scope
           a == applied(stores[s], x.t.operation, x.t.mutations, x.version)
<1>1. Current(x, c, stores, lock) /\ x.step = "commit"
  BY DEF CommitTx, At, PostgresInv, TxOK, Idle
<1>2. /\ s \in Scopes /\ x.t \in Transactions /\ x.t \in Transaction
      /\ lock[s] = c
      /\ x.version = stores[s].version + 1 /\ x.version \in Versions
      /\ Accepted(stores[s], x.t.operation, x.t.mutations)
  BY <1>1, TransactionsAssumption, Zenon DEF Current, Working, Accepted
<1>3. /\ stores \in [Scopes -> StoreState]
      /\ \A u \in Scopes : /\ Consistent(stores[u])
                           /\ stores[u].audit = 1..stores[u].version
  BY Zenon DEF PostgresInv, RowsOK
<1>4. stores[s].version \in Nat
  BY <1>2, <1>3, VersionTypes, Zenon
<1>5. stores' = [stores EXCEPT ![s] = a] /\ view' = view /\ End(c)
  BY Zenon DEF CommitTx
<1>6. a.version = x.version /\ a.audit = stores[s].audit \cup {x.version}
  BY Zenon DEF applied
<1>7. /\ stores' \in [Scopes -> StoreState]
      /\ \A u \in Scopes : Consistent(stores'[u])
  BY <1>2, <1>3, <1>4, <1>5, CommitKeeps
<1>8. Contract!Next
  <2>1. x.version > stores[s].version
    BY <1>2, <1>4
  <2>2. Contract!Commit(s, x.t, x.version)
    BY <1>2, <1>5, <2>1, SameContract, Zenon DEF Contract!Commit
  <2> QED
    BY <1>2, <2>2, Zenon DEF Contract!Next
<1> HIDE DEF a, s, x
<1>9. \A u \in Scopes : stores'[u] = IF u = s THEN a ELSE stores[u]
  BY <1>3, <1>5, Zenon
<1>10. RowsOK(stores')
  <2>1. a.audit = 1..a.version
    BY <1>2, <1>3, <1>4, <1>6
  <2> QED
    BY <1>3, <1>7, <1>9, <2>1, Zenon DEF RowsOK
<1>11. ASSUME NEW b \in Connections PROVE TxOK(tx'[b], b, stores', lock')
  <2>1. CASE b = c
    BY <1>5, <2>1, Zenon DEF End, TxOK, PostgresInv
  <2>2. CASE b # c
    <3>1. tx'[b] = tx[b] /\ TxOK(tx[b], b, stores, lock)
      BY <1>5, <2>2, Zenon DEF End, PostgresInv
    <3>2. \A u \in Scopes : lock[u] = b => lock'[u] = b /\ stores'[u] = stores[u]
      BY <1>2, <1>5, <1>9, <2>2, Zenon DEF End
    <3> QED
      BY <3>1, <3>2, Unnoticed
  <2> QED
    BY <2>1, <2>2, Zenon
<1>12. /\ tx' = [b \in Connections |-> tx'[b]]
       /\ lock' \in [Scopes -> Connections \cup {NoConnection}]
       /\ ViewOK'
  BY <1>5, Zenon DEF End, PostgresInv, ViewOK
<1> QED
  BY <1>8, <1>10, <1>11, <1>12, Zenon DEF PostgresInv

(* A statement of a working transaction that leaves the rows alone. *)
LEMMA StatementStep ==
    ASSUME PostgresInv, NEW c \in Connections,
           \/ reserveScopeVersion(c) \/ insertOperationClaim(c)
           \/ lockResourceVersion(c) \/ applyMutation(c) \/ Abort(c)
    PROVE  PostgresInv' /\ stores' = stores
<1> DEFINE x == tx[c]
<1>1. stores' = stores /\ view' = view
  BY Zenon DEF reserveScopeVersion, insertOperationClaim, lockResourceVersion,
     applyMutation, Abort
<1>2. ASSUME End(c) PROVE PostgresInv'
  BY <1>1, <1>2, EndStep, Zenon
<1>3. ASSUME NEW y, tx' = [tx EXCEPT ![c] = y], Current(y, c, stores, lock),
             lock' = lock
      PROVE  PostgresInv'
  <2>1. TxOK(y, c, stores, lock') /\ ViewOK'
    BY <1>1, <1>3, Zenon DEF TxOK, PostgresInv, ViewOK
  <2>2. lock' \in [Scopes -> Connections \cup {NoConnection}]
    BY <1>3, Zenon DEF PostgresInv
  <2> QED
    BY <1>1, <1>3, <2>1, <2>2, Continue, Zenon
<1>4. ASSUME x.step \in {"reserve", "claim", "check", "commit"}
      PROVE  Current(x, c, stores, lock)
  BY <1>4 DEF PostgresInv, TxOK, Idle
<1>5. tx = [b \in Connections |-> tx[b]]
  BY Zenon DEF PostgresInv
<1>6. CASE reserveScopeVersion(c) /\ ~End(c)
  <2> DEFINE y == [x EXCEPT !.step = "claim", !.version = stores[x.scope].version + 1]
  <2>1. /\ Current(x, c, stores, lock)
        /\ lock[x.scope] = NoConnection
        /\ stores[x.scope].version + 1 \in Versions
        /\ lock' = [lock EXCEPT ![x.scope] = c]
        /\ tx' = [tx EXCEPT ![c] = y]
    BY <1>4, <1>5, <1>6, Zenon DEF reserveScopeVersion, At, Rows
  <2>2. x \in Working /\ ValidateTransaction(x.t.mutations)
    BY <2>1, Zenon DEF Current
  <2>3. /\ y \in Working /\ y.t = x.t /\ y.scope = x.scope /\ y.step = "claim"
        /\ y.version = stores[x.scope].version + 1
    BY <2>1, <2>2, StoreAssumption, Zenon DEF Working
  <2>4. lock' \in [Scopes -> Connections \cup {NoConnection}] /\ lock'[x.scope] = c
    BY <2>1, <2>2, Zenon DEF PostgresInv, Working
  <2> HIDE DEF y
  <2>5. Current(y, c, stores, lock')
    BY <2>1, <2>2, <2>3, <2>4, Zenon DEF Current
  <2>6. TxOK(y, c, stores, lock') /\ ViewOK'
    BY <1>1, <2>5, Zenon DEF TxOK, PostgresInv, ViewOK
  <2>7. \A s \in Scopes : lock[s] # NoConnection => lock'[s] = lock[s]
    BY <2>1, Zenon DEF PostgresInv
  <2> QED
    BY <1>1, <2>1, <2>4, <2>6, <2>7, Continue, Zenon
<1>7. CASE insertOperationClaim(c) /\ ~End(c)
  <2> DEFINE y == [x EXCEPT !.step = "check"]
  <2>1. /\ Current(x, c, stores, lock) /\ x.step = "claim" /\ lock' = lock
        /\ Replay(stores[x.scope], x.t.operation) = "absent"
        /\ tx' = [tx EXCEPT ![c] = y]
    BY <1>4, <1>5, <1>7, Zenon DEF insertOperationClaim, At, Rows, Goto
  <2>2. /\ y \in Working /\ y.t = x.t /\ y.scope = x.scope /\ y.step = "check"
        /\ y.version = x.version
    BY <2>1, Zenon DEF Current, Working
  <2> HIDE DEF y
  <2>3. Current(y, c, stores, lock)
    BY <2>1, <2>2, Zenon DEF Current
  <2> QED
    BY <1>1, <1>3, <2>1, <2>3, Zenon
<1>8. CASE lockResourceVersion(c) /\ ~End(c)
  <2>1. PICK k \in Written(x.t.mutations) :
          tx' = [tx EXCEPT ![c].checked = @ \cup {k}] /\ lock' = lock
    BY <1>8, Zenon DEF lockResourceVersion
  <2> DEFINE y == [x EXCEPT !.checked = @ \cup {k}]
  <2>2. /\ Current(x, c, stores, lock) /\ x.step = "check"
        /\ tx' = [tx EXCEPT ![c] = y]
    BY <1>4, <1>5, <1>8, <2>1, Zenon DEF lockResourceVersion, At
  <2>3. k \in Keys /\ x \in Working
    BY <2>2, Zenon DEF Written, Current
  <2>4. /\ y \in Working /\ y.t = x.t /\ y.scope = x.scope /\ y.step = "check"
        /\ y.version = x.version
    BY <2>2, <2>3, Zenon DEF Working
  <2> HIDE DEF y
  <2>5. Current(y, c, stores, lock)
    BY <2>2, <2>4, Zenon DEF Current
  <2> QED
    BY <1>1, <1>3, <2>1, <2>2, <2>5, Zenon
<1>9. CASE applyMutation(c) /\ ~End(c)
  <2> DEFINE y == [x EXCEPT !.step = "commit"]
  <2>1. /\ Current(x, c, stores, lock) /\ x.step = "check" /\ lock' = lock
        /\ Conflicts(stores[x.scope], x.t.mutations) = {}
        /\ tx' = [tx EXCEPT ![c] = y]
    BY <1>4, <1>5, <1>9, Zenon DEF applyMutation, At, Rows, Goto
  <2>2. /\ y \in Working /\ y.t = x.t /\ y.scope = x.scope /\ y.step = "commit"
        /\ y.version = x.version
    BY <2>1, Zenon DEF Current, Working
  <2> HIDE DEF y
  <2>3. Current(y, c, stores, lock)
    BY <2>1, <2>2, Zenon DEF Current
  <2> QED
    BY <1>1, <1>3, <2>1, <2>3, Zenon
<1>10. CASE Abort(c)
  BY <1>2, <1>10, Zenon DEF Abort
<1> QED
  BY <1>1, <1>2, <1>6, <1>7, <1>8, <1>9, <1>10, Zenon

(* A transaction begins; a snapshot is read and returned. *)
LEMMA OtherStep ==
    ASSUME PostgresInv, NEW c \in Connections,
           \/ \E s \in Scopes, t \in Transactions : Begin(c, s, t)
           \/ \E s \in Scopes : readScopeVersion(c, s)
           \/ Snapshot(c)
    PROVE  PostgresInv' /\ stores' = stores
<1>1. stores' = stores /\ lock' = lock
  BY Zenon DEF Begin, readScopeVersion, Snapshot
<1>2. ASSUME NEW x, tx' = [tx EXCEPT ![c] = x], TxOK(x, c, stores, lock), ViewOK'
      PROVE  PostgresInv'
  <2>1. lock' \in [Scopes -> Connections \cup {NoConnection}]
    BY <1>1, Zenon DEF PostgresInv
  <2> QED
    BY <1>1, <1>2, <2>1, Continue, Zenon
<1>3. ASSUME NEW s \in Scopes, NEW t \in Transactions, Begin(c, s, t)
      PROVE  PostgresInv'
  <2> DEFINE x == [step |-> "reserve", scope |-> s, t |-> t, version |-> 0,
                   checked |-> {}]
  <2>1. x \in Working /\ x.step = "reserve" /\ x.t = t
    BY Zenon DEF Working
  <2>2. tx' = [tx EXCEPT ![c] = x] /\ ValidateTransaction(t.mutations) /\ ViewOK'
    BY <1>3, Zenon DEF Begin, PostgresInv, ViewOK
  <2> HIDE DEF x
  <2>3. TxOK(x, c, stores, lock)
    BY <2>1, <2>2, Zenon DEF TxOK, Current
  <2> QED
    BY <1>2, <2>2, <2>3, Zenon
<1>4. ASSUME NEW s \in Scopes, readScopeVersion(c, s)
      PROVE  PostgresInv'
  <2> DEFINE x == [step |-> "read", scope |-> s, rows |-> stores[s]]
  <2>1. tx' = [tx EXCEPT ![c] = x] /\ ViewOK'
    BY <1>4, Zenon DEF readScopeVersion, PostgresInv, ViewOK
  <2>2. TxOK(x, c, stores, lock)
    BY Zenon DEF TxOK, PostgresInv, RowsOK
  <2> QED
    BY <1>2, <2>1, <2>2, Zenon
<1>5. CASE Snapshot(c)
  <2>1. tx[c].rows \in StoreState /\ Consistent(tx[c].rows)
    BY <1>5 DEF Snapshot, At, PostgresInv, TxOK, Idle, Current, Working
  <2>2. ViewOK'
    BY <1>5, <2>1, Zenon DEF Snapshot, PostgresInv, ViewOK
  <2>3. tx' = [tx EXCEPT ![c] = Idle] /\ TxOK(Idle, c, stores, lock)
    BY <1>5, Zenon DEF Snapshot, TxOK
  <2> QED
    BY <1>1, <1>2, <2>2, <2>3, Zenon
<1> QED
  BY <1>1, <1>3, <1>4, <1>5, Zenon

(* A step of the transactions keeps their invariant, and is a step or a    *)
(* stutter of the contract.                                                *)
LEMMA PostgresStep ==
    ASSUME PostgresInv, [PostgresNext]_postgresVars
    PROVE  PostgresInv' /\ [Contract!Next]_stores
<1>1. CASE UNCHANGED postgresVars
  BY <1>1, Zenon DEF postgresVars, PostgresInv, ViewOK
<1>2. CASE PostgresNext
  BY <1>2, CommitStep, StatementStep, OtherStep, Zenon DEF PostgresNext
<1> QED
  BY <1>1, <1>2, Zenon

(* The invariant of the transactions. *)
LEMMA PostgresInvariance == PostgresSpec => []PostgresInv
<1>1. ASSUME PostgresInit PROVE PostgresInv
  <2>1. EmptyStore \in StoreState /\ Consistent(EmptyStore)
    BY EmptyConsistent, Zenon
  <2>2. EmptyStore.version = 0 /\ EmptyStore.audit = {} /\ 1..0 = {}
    BY DEF EmptyStore
  <2>3. RowsOK(stores)
    BY <1>1, <2>1, <2>2, Zenon DEF PostgresInit, RowsOK
  <2> QED
    BY <1>1, <2>1, <2>3, Zenon DEF PostgresInit, PostgresInv, ViewOK, TxOK
<1>2. PostgresInv /\ [PostgresNext]_postgresVars => PostgresInv'
  BY PostgresStep, Zenon
<1> QED
  BY <1>1, <1>2, PTL DEF PostgresSpec

-----------------------------------------------------------------------------

(* Every COMMIT of every interleaving of SQL transactions is one commit of *)
(* the Repository contract, and no other statement changes what is         *)
(* visible.                                                                *)
THEOREM PostgresImplementsRepository == PostgresSpec => ImplementsContract
<1>1. PostgresInit => Contract!Init
  BY SameContract, Zenon DEF PostgresInit, Contract!Init
<1>2. PostgresInv /\ [PostgresNext]_postgresVars => [Contract!Next]_stores
  BY PostgresStep, Zenon
<1> QED
  BY <1>1, <1>2, PostgresInvariance, PTL DEF PostgresSpec, ImplementsContract, Contract!Spec

(* reserveScopeVersion leaves no gap: transactions that are replayed,      *)
(* refused or broken take their increment of the counter back.             *)
THEOREM VersionsAreDense == PostgresSpec => []VersionsDense
<1>1. PostgresInv => VersionsDense
  BY Zenon DEF PostgresInv, RowsOK, VersionsDense, StoreState
<1> QED
  BY <1>1, PostgresInvariance, PTL

(* Snapshot returns the rows of one moment, whatever commits while it      *)
(* reads.                                                                  *)
THEOREM SnapshotsAreConsistent == PostgresSpec => []SnapshotConsistent
<1>1. PostgresInv => SnapshotConsistent
  BY ResourcesBelow, Zenon DEF PostgresInv, ViewOK, SnapshotConsistent
<1> QED
  BY <1>1, PostgresInvariance, PTL

=============================================================================
