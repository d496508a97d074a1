--------------------------- MODULE FileRepository ---------------------------
(***************************************************************************)
(* fileprototype.Store: MemoryRepository, with its contents rewritten to a *)
(* file by every commit (temporary file, sync, rename, directory sync)     *)
(* before the state in memory is replaced.  The process may die between    *)
(* any two of these steps, and each may fail.  An error after the rename   *)
(* leaves the file ahead of the memory until the next commit overwrites it *)
(* or a restart reads it.                                                  *)
(***************************************************************************)
EXTENDS MemoryRepository, FiniteSets

VARIABLES
    disk,        \* what loadState would read: [version, stores]
    open

fileVars == <<version, stores, disk, open>>

newState == [version |-> 0, stores |-> [s \in Scopes |-> EmptyStore]]

FileInit == Init /\ disk = newState /\ open = TRUE

(* Commit's next: a copy of the state with the transaction applied. *)
next(s, t) ==
    [version |-> version + 1,
     stores |-> [stores EXCEPT ![s] =
                   applied(@, t.operation, t.mutations, version + 1)]]

(* persistState fails, or the process dies in it, before or after the      *)
(* rename.                                                                 *)
PersistFails(s, t) ==
    /\ version + 1 \in Versions
    /\ disk' \in {disk, next(s, t)}
    /\ open' \in BOOLEAN

(* Mutants: the memory is replaced before the file is known to be written; *)
(* the file keeps the old counter.                                         *)
FileCommit_early(s, t) ==
    /\ open
    /\ Commit(s, t)
    /\ disk' \in {disk, [version |-> version', stores |-> stores']}
    /\ open' \in BOOLEAN

FileCommit_counter(s, t) ==
    /\ open
    /\ Commit(s, t)
    /\ disk' = [version |-> version, stores |-> stores']
    /\ UNCHANGED open

(* The memory changes as the reference adapter's does, and the file with   *)
(* it; or the file could not be replaced, and the memory stays as it was.  *)
FileCommit(s, t) ==
    /\ open
    /\ \/ /\ Commit(s, t)
          /\ disk' = IF vars' = vars THEN disk
                     ELSE [version |-> version', stores |-> stores']
          /\ UNCHANGED open
       \/ /\ Accepted(stores[s], t.operation, t.mutations)
          /\ PersistFails(s, t)
          /\ UNCHANGED vars

Exit ==
    /\ open
    /\ open' = FALSE
    /\ UNCHANGED <<version, stores, disk>>

(* The checks of diskToState. *)
Loadable(d) ==
    LET receipts(s) == {o \in CommandIds : d.stores[s].operations[o].version # 0}
    IN /\ \A s \in Scopes :
            LET store == d.stores[s]
            IN /\ store.version <= d.version
               /\ \A k \in Keys : store.resources[k].version <= store.version
               /\ \A o \in CommandIds : store.operations[o].version <= store.version
               /\ \A v \in store.audit : 0 < v /\ v <= store.version
               /\ Cardinality(receipts(s)) = Cardinality(store.audit)
       /\ \A s, u \in Scopes :
            s # u => d.stores[s].audit \cap d.stores[u].audit = {}

Open ==
    /\ ~open
    /\ Loadable(disk)
    /\ version' = disk.version
    /\ stores' = disk.stores
    /\ open' = TRUE
    /\ UNCHANGED disk

FileNext ==
    \/ \E s \in Scopes, t \in Transactions : FileCommit(s, t)
    \/ Exit
    \/ Open

FileSpec == FileInit /\ [][FileNext]_fileVars

-----------------------------------------------------------------------------

(* loadState never refuses a file that Commit has written.  The properties *)
(* of MemoryRepository are checked of the memory: nobody reads it while    *)
(* the process is down, and a transaction whose write was interrupted has  *)
(* happened or not when the file is read again; none that was reported is  *)
(* lost.                                                                   *)
AlwaysLoadable == Loadable(disk)

=============================================================================
