------------------------- MODULE SmallTransactions --------------------------
(* A small set of transactions on two resources, for the MC modules of the *)
(* repository adapters.                                                    *)
EXTENDS Store

CONSTANTS MaxVersion, k1, k2

MCVersions == 0..MaxVersion

(* Commands that create, replace and delete, on one resource or on both,   *)
(* and two different commands under each identifier.                       *)
put(v, p) == [change |-> "put", expected |-> v, payload |-> p]

delete(v) == [change |-> "delete", expected |-> v, payload |-> NoPayload]

Effects ==
    {[k1 |-> put(0, p), k2 |-> NoMutation] : p \in Payloads}
    \cup {[k1 |-> put(v, p), k2 |-> put(0, p)] : v \in 0..1, p \in Payloads}
    \cup {[k1 |-> delete(v), k2 |-> NoMutation] : v \in 1..2}

MCTransactions ==
    {[operation |-> [id |-> o, digest |-> d],
      mutations |-> [k \in Keys |-> IF k = k1 THEN e.k1 ELSE e.k2]] :
       o \in CommandIds, d \in Digests, e \in Effects}

=============================================================================
