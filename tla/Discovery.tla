------------------------------ MODULE Discovery ------------------------------
(***************************************************************************)
(* internal/discovery: the tickets a placement search is given.            *)
(*                                                                         *)
(* SelectWindow scans the canonical queue; BuildIndex and IndexWindow are  *)
(* the partitioned index that must return the same window.  A window is    *)
(* [tickets, truncated].  A queue is canonical: sorted by QueueBefore.     *)
(***************************************************************************)
EXTENDS Objective

skillBandWidth == 100
latencyBandWidth == 25

(* compareQueueOrder: oldest first, then by identifier. *)
QueueBefore(left, right) ==
    \/ left.enqueuedAt < right.enqueuedAt
    \/ left.enqueuedAt = right.enqueuedAt /\ left.id < right.id

SortTickets(tickets) == SortSeq(tickets, QueueBefore)

MaxPartySize(slots) == Max({0} \cup {slots[team] : team \in DOMAIN slots})

(* The oldest fitting prefix of a queue; no limit returns the queue as it  *)
(* is.  Truncated says that a fitting ticket was left out.                 *)
SelectWindow(queue, slots, limit) ==
    LET fits(ticket) == PartySize(ticket) <= MaxPartySize(slots)
        fitting == SelectSeq(queue, fits)
    IN  IF limit <= 0
        THEN [tickets |-> queue, truncated |-> FALSE]
        ELSE [tickets |-> SubSeq(fitting, 1, Min({limit, Len(fitting)})),
              truncated |-> Len(fitting) > limit]

-----------------------------------------------------------------------------
(* The index.  The role hash of a party is abstracted to the bag of its    *)
(* roles: a collision of hashes only merges two partitions.                *)

partitionKey(ticket) ==
    [size |-> PartySize(ticket),
     skillBand |-> (TotalSkill(ticket) \div PartySize(ticket))
                     \div skillBandWidth,
     roleProfile |-> ToBag([i \in DOMAIN ticket.players |->
                              ticket.players[i].role]),
     latencyBand |-> MaxOver(LAMBDA p : p.latency, ticket.players)
                       \div latencyBandWidth]

(* Partitions keep the queue's order; the positions that fit each party    *)
(* size are cached unless there are more than cachedSizes of them (16 in   *)
(* the code).                                                              *)
BuildIndex(queue, cachedSizes) ==
    LET all == {queue[i] : i \in DOMAIN queue}
        keys == {partitionKey(ticket) : ticket \in all}
        sizes == {key.size : key \in keys}
        ofKey(key) == SelectSeq(queue, LAMBDA t : partitionKey(t) = key)
        positions(size) ==
            SelectSeq([i \in DOMAIN queue |-> i],
                      LAMBDA i : PartySize(queue[i]) <= size)
    IN  [queue |-> queue,
         partitions |-> {ofKey(key) : key \in keys},
         thresholds |-> IF Cardinality(sizes) <= cachedSizes
                        THEN [size \in sizes |-> positions(size)]
                        ELSE <<>>]

(* The cursor whose head is first in the queue's order is popped until the *)
(* window is full or every partition is used up.                           *)
RECURSIVE MergeHeads(_, _, _)
MergeHeads(partitions, selected, limit) ==
    IF partitions = {}
    THEN [tickets |-> selected, truncated |-> FALSE]
    ELSE IF Len(selected) = limit
    THEN [tickets |-> selected, truncated |-> TRUE]
    ELSE LET first == CHOOSE p \in partitions :
                        \A other \in partitions \ {p} :
                          QueueBefore(Head(p), Head(other))
             rest == IF Len(first) > 1 THEN {Tail(first)} ELSE {}
         IN  MergeHeads((partitions \ {first}) \cup rest,
                        Append(selected, Head(first)), limit)

(* Mutant: the cached positions of the largest size, not of the largest    *)
(* that fits.                                                              *)
IndexWindow_largest(index, slots, limit) ==
    LET cached == index.thresholds[Max(DOMAIN index.thresholds)]
    IN  IF limit <= 0 \/ index.thresholds = <<>>
        THEN SelectWindow(index.queue, slots, limit)
        ELSE [tickets |-> [i \in 1 .. Min({limit, Len(cached)}) |->
                             index.queue[cached[i]]],
              truncated |-> Len(cached) > limit]

(* Index.SelectWindow. *)
IndexWindow(index, slots, limit) ==
    LET size == MaxPartySize(slots)
        reached == {s \in DOMAIN index.thresholds : s <= size}
        cached == index.thresholds[Max(reached)]
        fitting == {p \in index.partitions : PartySize(Head(p)) <= size}
    IN  CASE limit <= 0 ->
               [tickets |-> index.queue, truncated |-> FALSE]
          [] limit > 0 /\ index.thresholds = <<>> ->
               MergeHeads(fitting, <<>>, limit)
          [] limit > 0 /\ index.thresholds # <<>> /\ reached = {} ->
               [tickets |-> <<>>, truncated |-> FALSE]
          [] OTHER ->
               [tickets |-> [i \in 1 .. Min({limit, Len(cached)}) |->
                               index.queue[cached[i]]],
                truncated |-> Len(cached) > limit]
=============================================================================
