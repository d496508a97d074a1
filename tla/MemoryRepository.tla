-------------------------- MODULE MemoryRepository --------------------------
(***************************************************************************)
(* repository.Memory, the reference adapter.  The backend's mutex makes    *)
(* Commit one step; the version counter is shared by all scopes.           *)
(***************************************************************************)
EXTENDS Tenants

VARIABLE version     \* MemoryBackend.version; stores are its maps and audit log

vars == <<version, stores>>

Init ==
    /\ version = 0
    /\ stores = [s \in Scopes |-> EmptyStore]

(* Everything but an accepted transaction is answered without a change:    *)
(* invalid input, a replayed or conflicting operation, a stale mutation.   *)
(* Versions bounds the counter.                                            *)
Commit(s, t) ==
    IF /\ Accepted(stores[s], t.operation, t.mutations)
       /\ version + 1 \in Versions
    THEN /\ version' = version + 1
         /\ stores' = [stores EXCEPT ![s] =
                         applied(stores[s], t.operation, t.mutations, version')]
    ELSE UNCHANGED vars

Next == \E s \in Scopes, t \in Transactions : Commit(s, t)

Spec == Init /\ [][Next]_vars

-----------------------------------------------------------------------------

R == INSTANCE Repository

(* The counter is at or above every version handed out in any scope. *)
CounterAbove == \A s \in Scopes : stores[s].version <= version

TypeOK == version \in Versions /\ R!StoresTypeOK

(* Receipts, resources and audit records agree, in every scope. *)
ReceiptsConsistent == \A s \in Scopes : Consistent(stores[s])

(* No commit rewrites what an earlier one has written, or reaches into     *)
(* another tenant's scope, although all share one counter.                 *)
HistoryKept == [][Kept(stores, stores')]_stores

(* Memory does what the Repository contract says. *)
ImplementsRepository == R!Spec

=============================================================================
