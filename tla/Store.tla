------------------------------- MODULE Store --------------------------------
(***************************************************************************)
(* The contents of one tenant scope of a repository (internal/repository)  *)
(* and the transaction on it, as functions of the contents.  A transaction *)
(* is an operation (identifier and digest of the command) and a mutation   *)
(* per resource key.  A resource that was never written has version 0.     *)
(*                                                                         *)
(* The adapters differ in how they choose the next version and in what can *)
(* fail between the steps of a transaction; they share these definitions.  *)
(***************************************************************************)
EXTENDS Naturals

CONSTANTS
    Versions,      \* repository.Version
    Keys,          \* (kind, id) of the resources of a scope
    Payloads,      \* encoded resource contents
    NoPayload,     \* the empty payload of a tombstone
    CommandIds,    \* domain.OperationID of service commands
    Digests,       \* digests of canonical command payloads
    NoDigest

ASSUME StoreAssumption ==
    /\ Versions \subseteq Nat
    /\ 0 \in Versions
    /\ NoPayload \notin Payloads
    /\ NoDigest \notin Digests

Resource == [version : Versions, payload : Payloads \cup {NoPayload}, deleted : BOOLEAN]

NoResource == [version |-> 0, payload |-> NoPayload, deleted |-> FALSE]

(* An operation receipt; version 0 where there is none. *)
Receipt == [digest : Digests \cup {NoDigest}, version : Versions]

NoReceipt == [digest |-> NoDigest, version |-> 0]

Operation == [id : CommandIds, digest : Digests]

Mutation == [change : {"none", "put", "delete"}, expected : Versions,
             payload : Payloads \cup {NoPayload}]

NoMutation == [change |-> "none", expected |-> 0, payload |-> NoPayload]

Mutations == [Keys -> Mutation]

Transaction == [operation : Operation, mutations : Mutations]

(* audit is the set of versions that have an audit record. *)
StoreState ==
    [version : Versions, resources : [Keys -> Resource],
     operations : [CommandIds -> Receipt], audit : SUBSET Versions]

EmptyStore ==
    [version |-> 0, resources |-> [k \in Keys |-> NoResource],
     operations |-> [o \in CommandIds |-> NoReceipt], audit |-> {}]

-----------------------------------------------------------------------------

Written(mutations) == {k \in Keys : mutations[k].change # "none"}

ValidateTransaction(mutations) ==
    /\ Written(mutations) # {}
    /\ \A k \in Written(mutations) :
         mutations[k].change = "delete" <=> mutations[k].payload = NoPayload

(* Replay: what the receipt of the operation says, "absent" without one. *)
Replay(store, operation) ==
    LET receipt == store.operations[operation.id]
    IN IF receipt.version = 0 THEN "absent"
       ELSE IF receipt.digest # operation.digest THEN "IdempotencyConflict"
       ELSE "replayed"

(* The version a mutation's ExpectedVersion is compared with. *)
Actual(store, k) == store.resources[k].version

Conflicts(store, mutations) ==
    {k \in Written(mutations) : Actual(store, k) # mutations[k].expected}

(* Mutant: the operation leaves no receipt. *)
applied_unreceipted(store, operation, mutations, version) ==
    [version |-> version,
     resources |-> [k \in Keys |->
        IF k \in Written(mutations)
        THEN [version |-> version, payload |-> mutations[k].payload,
              deleted |-> mutations[k].change = "delete"]
        ELSE store.resources[k]],
     operations |-> store.operations,
     audit |-> store.audit \cup {version}]

(* The contents after the transaction: resources, receipt and audit record *)
(* carry the same version.                                                 *)
applied(store, operation, mutations, version) ==
    [version |-> version,
     resources |-> [k \in Keys |->
        IF k \in Written(mutations)
        THEN [version |-> version, payload |-> mutations[k].payload,
              deleted |-> mutations[k].change = "delete"]
        ELSE store.resources[k]],
     operations |-> [o \in CommandIds |->
        IF o = operation.id
        THEN [digest |-> operation.digest, version |-> version]
        ELSE store.operations[o]],
     audit |-> store.audit \cup {version}]

(* The transaction goes through: new operation, valid, no conflict. *)
Accepted(store, operation, mutations) ==
    /\ ValidateTransaction(mutations)
    /\ Replay(store, operation) = "absent"
    /\ Conflicts(store, mutations) = {}

=============================================================================
