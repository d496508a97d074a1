------------------------- MODULE PostgresRepository -------------------------
(***************************************************************************)
(* postgres.Store: several connections of several replicas run Commit and  *)
(* Snapshot against one database, one SQL statement per step.              *)
(*                                                                         *)
(* What the database does is taken from how the code relies on it: the     *)
(* upsert of reserveScopeVersion locks the scope's row until the           *)
(* transaction ends and waits for it in line; a statement sees committed   *)
(* rows only; a transaction's writes appear together or not at all; a      *)
(* REPEATABLE READ transaction reads the rows of one moment.  Row locks on *)
(* resources add nothing once the scope is locked and are left out.        *)
(***************************************************************************)
EXTENDS Tenants, FiniteSets

CONSTANTS Connections, NoConnection

ASSUME ConnectionsAssumption == NoConnection \notin Connections

(* stores are the committed rows. *)
VARIABLES
    lock,       \* the connection that holds the scope's row
    tx,         \* the transaction of each connection
    view        \* the last snapshot returned on each connection

postgresVars == <<stores, lock, tx, view>>

Idle == [step |-> "idle"]

PostgresInit ==
    /\ stores = [s \in Scopes |-> EmptyStore]
    /\ lock = [s \in Scopes |-> NoConnection]
    /\ tx = [c \in Connections |-> Idle]
    /\ view = [c \in Connections |-> EmptyStore]

-----------------------------------------------------------------------------
(* Commit. *)

At(c, step) == tx[c].step = step

Goto(c, step) == tx' = [tx EXCEPT ![c].step = step]

Rows(c) == stores[tx[c].scope]

(* The deferred Rollback, on any return: what was written is discarded and *)
(* the lock is given up.  After a COMMIT it does nothing.                  *)
End(c) ==
    /\ tx' = [tx EXCEPT ![c] = Idle]
    /\ lock' = [s \in Scopes |-> IF lock[s] = c THEN NoConnection ELSE lock[s]]

Begin(c, s, t) ==
    /\ At(c, "idle")
    /\ ValidateTransaction(t.mutations)
    /\ tx' = [tx EXCEPT ![c] = [step |-> "reserve", scope |-> s, t |-> t,
                                version |-> 0, checked |-> {}]]
    /\ UNCHANGED <<stores, lock, view>>

(* Mutant: the version is read and not locked. *)
reserveScopeVersion_unlocked(c) ==
    /\ At(c, "reserve")
    /\ Rows(c).version + 1 \in Versions
    /\ tx' = [tx EXCEPT ![c].step = "claim", ![c].version = Rows(c).version + 1]
    /\ UNCHANGED <<stores, lock, view>>

(* The scope's counter is incremented in the transaction.  A counter that  *)
(* cannot grow is an error.                                                *)
reserveScopeVersion(c) ==
    /\ At(c, "reserve")
    /\ lock[tx[c].scope] = NoConnection
    /\ IF Rows(c).version + 1 \in Versions
       THEN /\ lock' = [lock EXCEPT ![tx[c].scope] = c]
            /\ tx' = [tx EXCEPT ![c].step = "claim",
                                ![c].version = Rows(c).version + 1]
       ELSE End(c)
    /\ UNCHANGED <<stores, view>>

(* Mutants: a replayed operation returns without ending its transaction;   *)
(* it commits the transaction, and with it the incremented counter.        *)
insertOperationClaim_leak(c) ==
    /\ At(c, "claim")
    /\ IF Replay(Rows(c), tx[c].t.operation) = "absent"
       THEN Goto(c, "check")
       ELSE tx' = [tx EXCEPT ![c] = Idle]
    /\ UNCHANGED <<stores, lock, view>>

insertOperationClaim_commit(c) ==
    /\ At(c, "claim")
    /\ IF Replay(Rows(c), tx[c].t.operation) = "absent"
       THEN Goto(c, "check") /\ UNCHANGED <<stores, lock>>
       ELSE /\ stores' = [stores EXCEPT ![tx[c].scope].version = tx[c].version]
            /\ End(c)
    /\ UNCHANGED view

(* The receipt is inserted unless there is one: then the operation was     *)
(* committed before, and the call returns its result or a conflict.        *)
insertOperationClaim(c) ==
    /\ At(c, "claim")
    /\ IF Replay(Rows(c), tx[c].t.operation) = "absent"
       THEN Goto(c, "check") /\ UNCHANGED lock
       ELSE End(c)
    /\ UNCHANGED <<stores, view>>

(* One SELECT ... FOR UPDATE per mutation; a stale one ends the call. *)
lockResourceVersion(c) ==
    /\ At(c, "check")
    /\ \E k \in Written(tx[c].t.mutations) \ tx[c].checked :
         IF k \in Conflicts(Rows(c), tx[c].t.mutations)
         THEN End(c)
         ELSE /\ tx' = [tx EXCEPT ![c].checked = @ \cup {k}]
              /\ UNCHANGED lock
    /\ UNCHANGED <<stores, view>>

(* The writes, each with its own test of the expected version. *)
applyMutation(c) ==
    /\ At(c, "check")
    /\ tx[c].checked = Written(tx[c].t.mutations)
    /\ IF Conflicts(Rows(c), tx[c].t.mutations) = {}
       THEN Goto(c, "commit") /\ UNCHANGED lock
       ELSE End(c)
    /\ UNCHANGED <<stores, view>>

(* The rows become visible together.  The caller may not learn of it: the  *)
(* connection may break before the answer arrives.                         *)
CommitTx(c) ==
    /\ At(c, "commit")
    /\ stores' = [stores EXCEPT ![tx[c].scope] =
         applied(@, tx[c].t.operation, tx[c].t.mutations, tx[c].version)]
    /\ End(c)
    /\ UNCHANGED view

(* Cancellation, a lost connection or a dead replica. *)
Abort(c) ==
    /\ tx[c].step \notin {"idle", "read"}
    /\ End(c)
    /\ UNCHANGED <<stores, view>>

-----------------------------------------------------------------------------
(* Snapshot: readScopeVersion fixes the moment, the second query reads. *)

readScopeVersion(c, s) ==
    /\ At(c, "idle")
    /\ tx' = [tx EXCEPT ![c] = [step |-> "read", scope |-> s, rows |-> stores[s]]]
    /\ UNCHANGED <<stores, lock, view>>

(* Mutant: the second query runs at READ COMMITTED. *)
Snapshot_committed(c) ==
    /\ At(c, "read")
    /\ view' = [view EXCEPT ![c] = [Rows(c) EXCEPT !.version = tx[c].rows.version]]
    /\ tx' = [tx EXCEPT ![c] = Idle]
    /\ UNCHANGED <<stores, lock>>

Snapshot(c) ==
    /\ At(c, "read")
    /\ view' = [view EXCEPT ![c] = tx[c].rows]
    /\ tx' = [tx EXCEPT ![c] = Idle]
    /\ UNCHANGED <<stores, lock>>

-----------------------------------------------------------------------------

PostgresNext == \E c \in Connections :
    \/ \E s \in Scopes, t \in Transactions : Begin(c, s, t)
    \/ reserveScopeVersion(c)
    \/ insertOperationClaim(c)
    \/ lockResourceVersion(c)
    \/ applyMutation(c)
    \/ CommitTx(c)
    \/ Abort(c)
    \/ \E s \in Scopes : readScopeVersion(c, s)
    \/ Snapshot(c)

(* A connection goes on with the statements of its transaction, and the    *)
(* database grants a row lock to whoever waits for it long enough.         *)
Fairness == \A c \in Connections :
    /\ SF_postgresVars(reserveScopeVersion(c))
    /\ WF_postgresVars(\/ insertOperationClaim(c) \/ lockResourceVersion(c)
               \/ applyMutation(c) \/ CommitTx(c) \/ Snapshot(c))

PostgresSpec == PostgresInit /\ [][PostgresNext]_postgresVars /\ Fairness

-----------------------------------------------------------------------------

Contract == INSTANCE Repository

(* Rows, transactions and locks have their types. *)
PostgresTypeOK ==
    /\ Contract!StoresTypeOK
    /\ lock \in [Scopes -> Connections \cup {NoConnection}]
    /\ \A c \in Connections :
         tx[c].step \in {"idle", "reserve", "claim", "check", "commit", "read"}

(* Interleaved transactions do what the Repository contract says: every    *)
(* COMMIT is one whole transaction on contents nobody else has changed,    *)
(* and no other statement changes what is visible.                         *)
ImplementsContract == Contract!Spec

(* The versions of a scope are dense up to the last one there is: a        *)
(* replayed, refused or broken transaction takes its increment of the      *)
(* counter back with it, and the counter never passes its end.             *)
VersionsDense == \A s \in Scopes :
    /\ stores[s].audit = 1..stores[s].version
    /\ stores[s].audit \subseteq Versions

(* A snapshot shows one moment: no resource in it is newer than the        *)
(* version it is labelled with, and the operations it reflects are all     *)
(* those up to that version.                                               *)
SnapshotConsistent == \A c \in Connections : Consistent(view[c])
    /\ \A k \in Keys : view[c].resources[k].version <= view[c].version

(* Every transaction comes to an end: scope locks are taken before any     *)
(* other and are always given up, so nobody waits for ever.                *)
TransactionsEnd == \A c \in Connections :
    tx[c].step # "idle" ~> tx[c].step = "idle"

=============================================================================
