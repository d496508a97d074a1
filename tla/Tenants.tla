------------------------------ MODULE Tenants -------------------------------
(* What the repository contract and its adapters have in common: tenants   *)
(* and the transactions that services commit in their scopes.              *)
EXTENDS Store

CONSTANTS
    Scopes,          \* tenants
    Transactions     \* what services ask to commit

ASSUME TransactionsAssumption == Transactions \subseteq Transaction

VARIABLE stores      \* what each scope holds: [Scopes -> StoreState]

-----------------------------------------------------------------------------
(* What holds of the contents of a scope, and of two contents in turn. *)

Receipts(store) == {o \in CommandIds : store.operations[o].version # 0}

(* A receipt and the mutations of its operation share one commit version:  *)
(* the audit log has exactly the versions of the receipts, no two          *)
(* operations share one, every resource was written by an operation that   *)
(* has a receipt, and nothing is above the version of the scope.  These    *)
(* are also the checks diskToState and the schema's foreign keys make.     *)
Consistent(store) ==
    /\ store.audit = {store.operations[o].version : o \in Receipts(store)}
    /\ \A o, p \in Receipts(store) :
         store.operations[o].version = store.operations[p].version => o = p
    /\ \A o \in Receipts(store) : store.operations[o].version <= store.version
    /\ \A k \in Keys : store.resources[k].version # 0 =>
         \E o \in Receipts(store) :
            store.operations[o].version = store.resources[k].version

(* Receipts and audit records stay, versions of a scope and of a resource  *)
(* only grow, a resource whose version stays keeps its contents.           *)
Extends(old, new) ==
    /\ old.audit \subseteq new.audit
    /\ new.version >= old.version
    /\ \A o \in Receipts(old) : new.operations[o] = old.operations[o]
    /\ \A k \in Keys : \/ new.resources[k] = old.resources[k]
                       \/ new.resources[k].version > old.resources[k].version

(* History is never rewritten, and no step touches two scopes. *)
Kept(old, new) ==
    /\ \A s, u \in Scopes : (new[s] # old[s] /\ new[u] # old[u]) => s = u
    /\ \A s \in Scopes : Extends(old[s], new[s])

=============================================================================
