----------------------------- MODULE Repository -----------------------------
(***************************************************************************)
(* What repository.Repository promises: a transaction either takes effect  *)
(* as a whole, at a version above every earlier one of its scope, or not   *)
(* at all; an operation identifier takes effect once; a transaction never  *)
(* overwrites a resource that changed after its author read it.            *)
(*                                                                         *)
(* The adapters (MemoryRepository, PostgresRepository, FileRepository)     *)
(* implement this specification.                                           *)
(***************************************************************************)
EXTENDS Tenants

Init == stores = [s \in Scopes |-> EmptyStore]

(* The version is left to the adapter: some count per scope, some over all. *)
Commit(s, t, version) ==
    /\ version > stores[s].version
    /\ Accepted(stores[s], t.operation, t.mutations)
    /\ stores' = [stores EXCEPT ![s] =
                    applied(stores[s], t.operation, t.mutations, version)]

Next == \E s \in Scopes, t \in Transactions, version \in Versions :
          Commit(s, t, version)

Spec == Init /\ [][Next]_stores

-----------------------------------------------------------------------------

(* The contents have the shape of the Go types. *)
StoresTypeOK == stores \in [Scopes -> StoreState]

(* Receipts, resources and audit records of every scope agree. *)
ReceiptsConsistent == \A s \in Scopes : Consistent(stores[s])

(* No commit rewrites what an earlier one has written. *)
HistoryKept == [][Kept(stores, stores')]_stores

=============================================================================
