------------------------------ MODULE Service -------------------------------
(***************************************************************************)
(* The services of internal/service over one tenant scope.  Any number of  *)
(* calls run at once, on any replicas: they share nothing but the          *)
(* repository.  A step of a call is one use of the repository (Replay,     *)
(* Snapshot or Commit) with the local work around it; between two steps of *)
(* a call the other calls go on.  A call may die anywhere, and a client    *)
(* may send a command again at any time, also while it is still running.   *)
(***************************************************************************)
EXTENDS ReservationHandlers, PlanningHandlers

CONSTANTS
    Calls,           \* calls that may run at once
    MaxAttempts,     \* maxReservationAttempts, maxPolicyCommitAttempts, ...
    Workloads,       \* what may go on in the scope; in each of them:
    Sent(_),         \*   the commands that clients send
    Imports(_),      \*   the imports that operators start, before anything else
    Contents(_),     \*   the contents that earlier commands left
    MaxClock(_),     \*   bound on time
    MaxSkew(_)       \*   how far the clocks of replicas differ

VARIABLES
    workload,
    store,           \* the scope in the repository
    calls,           \* [Calls -> Call]
    clock

vars == <<workload, store, calls, clock>>

PCs == {"idle", "expire", "expireOne", "expireCommit", "read", "commit",
        "recheck", "invalidate", "invalidateCommit", "load", "complete",
        "completeCommit", "importRead", "importStart", "importBatch",
        "importComplete"}

Failures == FailureCodes \cup {"none", "NotFound", "Internal", "ClockBehind", "Unavailable",
                            "LegacyImportIncomplete", "LegacyImportTargetUsed"}

Answer == [failure : Failures, record : Payloads \cup {NoPayload}]

NoAnswer == [failure |-> "none", record |-> NoPayload]

(* An idle call keeps its last command and the answer to it.  failure is   *)
(* what a call answers when its receipt is not there after a failed commit; *)
(* started and batch are the progress of an import (see LegacyImport).     *)
Call ==
    [pc : PCs, command : Commands \cup {NoPayload}, at : Nat, due : SUBSET ReservationIds,
     conflicted : BOOLEAN, sweeps : Nat, attempts : Nat, failure : Failures,
     reservation : ReservationIds \cup {NoID}, operation : Operation \cup {NoPayload},
     changes : SUBSET [key : Keys, change : {"put", "delete"}, expected : Nat,
                       payload : Payloads \cup {NoPayload}],
     record : Payloads \cup {NoPayload}, started : Nat, batch : Nat, answer : Answer]

NoCall ==
    [pc |-> "idle", command |-> NoPayload, at |-> 0, due |-> {}, conflicted |-> FALSE,
     sweeps |-> 0, attempts |-> 0, failure |-> "none", reservation |-> NoID,
     operation |-> NoPayload, changes |-> {}, record |-> NoPayload,
     started |-> 0, batch |-> 0, answer |-> NoAnswer]

Init ==
    /\ workload \in Workloads
    /\ store = Contents(workload)
    /\ calls = [c \in Calls |-> NoCall]
    /\ clock = 0

-----------------------------------------------------------------------------
(* Local steps of a call. *)

operation(command) == [id |-> command.operation, digest |-> command]

(* The call ends with an answer. *)
Answered(call, failure, record) ==
    [NoCall EXCEPT !.command = call.command,
                   !.answer = [failure |-> failure, record |-> record]]

Failed(call, failure) == Answered(call, failure, NoPayload)

(* replayedMutation, replayedAssignmentMutation, resumeCapturedOperation:  *)
(* what a call does when it finds the receipt of its operation.  Results   *)
(* are never changed, so reading the result is not a step of its own.      *)
Replayed(call) ==
    IF call.command.kind = "planning_run.execute"
    THEN [NoCall EXCEPT !.command = call.command, !.pc = "load"]
    ELSE IF call.command.kind \in {"reservation.reserve", "reservation.cancel",
                                   "reservation.confirm", "assignment.acknowledge"}
      THEN IF Live(store, "operation_result", call.command.operation)
           THEN Answered(call, "none",
                         Read(store, "operation_result", call.command.operation).record)
           ELSE Failed(call, "Internal")
    ELSE Answered(call, "none", NoPayload)

(* Past expireDue: the next attempt, unless there were too many. *)
Expired(call) ==
    IF call.attempts = MaxAttempts THEN Failed(call, "ReservationConflict")
    ELSE [call EXCEPT !.pc = "read", !.due = {}, !.conflicted = FALSE, !.sweeps = 0]

(* One reservation of a sweep of expireDue is done. *)
Swept(call, conflict) ==
    LET due == call.due \ {call.reservation}
        conflicted == call.conflicted \/ conflict
        next == [call EXCEPT !.due = due, !.conflicted = conflicted, !.changes = {},
                             !.operation = NoPayload, !.reservation = NoID,
                             !.pc = "expireOne"]
    IN IF due # {} THEN next
       ELSE IF ~conflicted THEN Expired(next)
       ELSE IF call.sweeps + 1 = MaxAttempts THEN Failed(call, "StaleSnapshot")
       ELSE [next EXCEPT !.pc = "expire", !.sweeps = @ + 1, !.conflicted = FALSE]

(* The handler of a command, on the snapshot s.  Get and Snapshot of       *)
(* Reservations are "reservation.list": they expire what is due, and have  *)
(* no receipt.  The other reads change nothing and are left out.           *)
Handle(s, command, at) ==
    CASE command.kind = "match_ticket.put" ->
           {PutMatchTicket(s, command.ticket, command.value)}
      [] command.kind = "match_ticket.cancel" ->
           {CancelMatchTicket(s, command.ticket, command.revision)}
      [] command.kind = "backfill_ticket.put" ->
           {PutBackfillTicket(s, command.ticket, command.value)}
      [] command.kind = "backfill_ticket.cancel" ->
           {CancelBackfillTicket(s, command.ticket, command.revision,
                                 command.rosterVersion)}
      [] command.kind = "policy.put" ->
           {PutPolicy(s, command.policy, command.fingerprint)}
      [] command.kind = "planning_run.execute" ->
           {Capture(s, command.run, command.policy, at)}
      [] command.kind = "reservation.reserve" ->
           Reserve(s, command.operation, command.reservation, command.proposal, at)
      [] command.kind = "reservation.cancel" ->
           {Cancel(s, command.operation, command.reservation)}
      [] command.kind = "reservation.confirm" ->
           {Confirm(s, command.operation, command.reservation, command.assignment, at)}
      [] command.kind = "assignment.acknowledge" ->
           {Acknowledge(s, command.assignment, command.request, at)}
      [] command.kind = "reservation.list" -> {Refuse("listed")}

(* What a call does when its commit conflicts on some keys. *)
Conflicted(call, conflicts) ==
    LET kind == call.command.kind
        again(failure) == [call EXCEPT !.pc = "recheck", !.failure = failure]
    IN CASE kind \in {"match_ticket.put", "match_ticket.cancel"} ->
              Failed(call, "InvalidRevision")
         [] kind = "backfill_ticket.put" -> Failed(call, mapBackfillConflict(conflicts))
         [] kind = "backfill_ticket.cancel" -> Failed(call, "StaleSnapshot")
         [] kind = "policy.put" ->
              IF call.attempts + 1 = MaxAttempts THEN Failed(call, "StaleSnapshot")
              ELSE [call EXCEPT !.pc = "read", !.attempts = @ + 1,
                                !.changes = {}, !.operation = NoPayload]
         [] kind = "reservation.cancel" -> Failed(call, "ReservationConflict")
         [] kind \in {"reservation.reserve", "reservation.confirm"} ->
              again("ReservationConflict")
         [] kind = "assignment.acknowledge" -> again("InvalidTransition")
         [] kind = "planning_run.execute" -> again("InvalidRevision")

-----------------------------------------------------------------------------
(* Steps. *)

At(c, pc) == calls[c].pc = pc

Become(c, call) == calls' = [calls EXCEPT ![c] = call]

Readings ==
    LET skew == MaxSkew(workload)
    IN {at \in 0..(clock + skew) : clock <= at + skew}

Expires(command) ==
    command.kind \in {"reservation.reserve", "reservation.cancel",
                      "reservation.confirm", "reservation.list"}

(* The version of the last import that was completed in the scope, or 0. *)
ImportedUpTo ==
    LET completed == {i \in ImportIds :
                        /\ Exists(store, "legacy_import", i)
                        /\ Read(store, "legacy_import", i).state = "completed"}
    IN IF completed = {} THEN 0
       ELSE VersionOf(store, "legacy_import",
                      CHOOSE i \in completed : \A j \in completed :
                        VersionOf(store, "legacy_import", j) <= VersionOf(store, "legacy_import", i))

(* A scope that is imported is opened to clients only when the import is   *)
(* complete (RequireLegacyImportCompleted, which the operator runs).       *)
Serving == Imports(workload) # {} => ImportedUpTo # 0

(* A call reads the clock and looks for the receipt of its operation. *)
Begin(c, command, at) ==
    LET call == [NoCall EXCEPT !.command = command, !.at = at,
                               !.pc = IF Expires(command) THEN "expire" ELSE "read"]
        replay == Replay(store, operation(command))
    IN /\ Serving
       /\ At(c, "idle")
       /\ Become(c, CASE replay = "absent" -> call
                      [] replay = "replayed" -> Replayed(call)
                      [] OTHER -> Failed(call, replay))
       /\ UNCHANGED <<store, clock>>

ExpireDue(c) ==
    LET due == Due(store, calls[c].at)
    IN /\ At(c, "expire")
       /\ Become(c, IF due = {} THEN Expired(calls[c])
                    ELSE [calls[c] EXCEPT !.pc = "expireOne", !.due = due])
       /\ UNCHANGED <<store, clock>>

ExpireOne(c, r) ==
    LET call == [calls[c] EXCEPT !.reservation = r]
        outcome == EndActive(store, r, "expired")
    IN /\ At(c, "expireOne")
       /\ r \in call.due
       /\ Become(c, CASE outcome.failure = "done" -> Swept(call, FALSE)
                      [] outcome.failure = "none" ->
                           [call EXCEPT !.pc = "expireCommit",
                                        !.operation = expireOperation(store, r),
                                        !.changes = outcome.changes]
                      [] OTHER -> Failed(call, outcome.failure))
       /\ UNCHANGED <<store, clock>>

(* repository.Commit: store and outcome. *)
Committed(op, mutations) ==
    store' = IF Accepted(store, op, mutations)
             THEN applied(store, op, mutations, store.version + 1) ELSE store

CommitOutcome(op, mutations) ==
    LET replay == Replay(store, op)
    IN IF replay = "IdempotencyConflict" THEN replay
       ELSE IF replay = "replayed" \/ Conflicts(store, mutations) = {} THEN "none"
       ELSE "conflict"

ExpireCommit(c) ==
    LET call == calls[c]
        mutations == Normalized(call.changes)
        outcome == CommitOutcome(call.operation, mutations)
    IN /\ At(c, "expireCommit")
       /\ Committed(call.operation, mutations)
       /\ Become(c, IF outcome = "IdempotencyConflict" THEN Failed(call, outcome)
                    ELSE Swept(call, outcome = "conflict"))
       /\ UNCHANGED clock

(* The snapshot on which the handler decides. *)
ReadSnapshot(c) ==
    LET call == calls[c]
    IN /\ At(c, "read")
       /\ \E outcome \in Handle(store, call.command, call.at) :
            Become(c,
              CASE outcome.failure = "none" ->
                     [call EXCEPT !.pc = "commit", !.changes = outcome.changes,
                                  !.operation = operation(call.command),
                                  !.record = outcome.record]
                [] outcome.failure = "listed" -> Answered(call, "none", NoPayload)
                [] outcome.failure = "stale" -> [call EXCEPT !.pc = "invalidate"]
                [] outcome.failure = "registered" ->
                     [call EXCEPT !.pc = "recheck", !.failure = "InvalidRevision"]
                [] OTHER -> Failed(call, outcome.failure))
       /\ UNCHANGED <<store, clock>>

(* A commit that finds its receipt answers the record that was built here. *)
Commit(c) ==
    LET call == calls[c]
        mutations == Normalized(call.changes)
        outcome == CommitOutcome(call.operation, mutations)
    IN /\ At(c, "commit")
       /\ Committed(call.operation, mutations)
       /\ Become(c, CASE outcome = "IdempotencyConflict" -> Failed(call, outcome)
                      [] outcome = "conflict" ->
                           Conflicted(call, Conflicts(store, mutations))
                      [] OTHER ->
                           IF call.command.kind = "planning_run.execute"
                           THEN Replayed(call) ELSE Answered(call, "none", call.record))
       /\ UNCHANGED clock

(* The connection breaks during the commit, which took effect or did not.  *)
(* Confirm and Acknowledge then look for their receipt.                    *)
CommitLost(c) ==
    LET call == calls[c]
    IN /\ At(c, "commit")
       /\ \/ Committed(call.operation, Normalized(call.changes))
          \/ UNCHANGED store
       /\ Become(c, IF call.command.kind \in {"reservation.confirm", "assignment.acknowledge"}
                    THEN [call EXCEPT !.pc = "recheck", !.failure = "Unavailable"]
                    ELSE Failed(call, "Unavailable"))
       /\ UNCHANGED clock

(* After a failed commit: the receipt may be there by now. *)
Recheck(c) ==
    LET call == calls[c]
        replay == Replay(store, operation(call.command))
    IN /\ At(c, "recheck")
       /\ Become(c, CASE replay = "replayed" -> Replayed(call)
                      [] replay = "IdempotencyConflict" -> Failed(call, replay)
                      [] OTHER ->
                           IF call.command.kind = "reservation.reserve"
                           THEN [call EXCEPT !.pc = "expire", !.attempts = @ + 1,
                                             !.changes = {}, !.operation = NoPayload,
                                             !.record = NoPayload, !.failure = "none"]
                           ELSE Failed(call, call.failure))
       /\ UNCHANGED <<store, clock>>

(* Confirm found stale demand and gives the reservation up. *)
Invalidate(c) ==
    LET call == calls[c]
        r == call.command.reservation
        outcome == EndActive(store, r, "cancelled")
    IN /\ At(c, "invalidate")
       /\ Become(c, CASE outcome.failure = "done" -> Failed(call, "StaleSnapshot")
                      [] outcome.failure = "none" ->
                           [call EXCEPT !.pc = "invalidateCommit",
                                        !.operation = invalidateOperation(store, r),
                                        !.changes = outcome.changes]
                      [] OTHER -> Failed(call, outcome.failure))
       /\ UNCHANGED <<store, clock>>

InvalidateCommit(c) ==
    LET call == calls[c]
        mutations == Normalized(call.changes)
        outcome == CommitOutcome(call.operation, mutations)
    IN /\ At(c, "invalidateCommit")
       /\ Committed(call.operation, mutations)
       /\ Become(c, CASE outcome = "conflict" -> Failed(call, "ReservationConflict")
                      [] outcome = "none" -> Failed(call, "StaleSnapshot")
                      [] OTHER -> Failed(call, outcome))
       /\ UNCHANGED clock

-----------------------------------------------------------------------------
(* The second half of a planning run. *)

(* The run and its snapshot agree on the version and the policy. *)
RefersToSnapshot(run) ==
    LET initial == Read(store, "planning_run", run)
        captured == Read(store, "planning_snapshot", run)
    IN /\ Live(store, "planning_snapshot", run)
       /\ captured.version = initial.version
       /\ captured.input.run = run
       /\ captured.input.policy = initial.policy
       /\ captured.input.fingerprint = initial.fingerprint

(* load and plan: a completed run is answered, a captured one is planned   *)
(* from what was captured.                                                 *)
Load(c, at) ==
    LET call == calls[c]
        run == call.command.run
        initial == Read(store, "planning_run", run)
        input == Read(store, "planning_snapshot", run).input
        batch == Plan(input)
        completed == CompletedRun(initial, batch, at)
    IN /\ At(c, "load")
       /\ Become(c,
            IF ~Live(store, "planning_run", run) THEN Failed(call, "NotFound")
            ELSE IF ~RefersToSnapshot(run) THEN Failed(call, "Internal")
            ELSE IF initial.status = "completed" THEN Answered(call, "none", initial)
            ELSE IF ~validatePlanningBatch(input, batch) THEN Failed(call, "Internal")
            ELSE IF ~validatePlanningRun(completed) THEN Failed(call, "ClockBehind")
            ELSE [call EXCEPT !.pc = "complete", !.record = completed])
       /\ UNCHANGED <<store, clock>>

(* Mutant: the demand of now is planned, not what was captured. *)
Complete_current(c) ==
    LET call == calls[c]
        run == call.command.run
        current == Read(store, "planning_run", run)
        batch == Plan(planningInput(store, run, call.command.policy, current.capturedAt))
    IN /\ At(c, "complete")
       /\ Become(c,
            IF current.status = "completed" THEN Answered(call, "none", current)
            ELSE [call EXCEPT !.pc = "completeCommit",
                              !.operation = completeOperation(run, call.record, batch),
                              !.changes = completeMutations(store, run, call.record, batch)])
       /\ UNCHANGED <<store, clock>>

Complete(c) ==
    LET call == calls[c]
        run == call.command.run
        current == Read(store, "planning_run", run)
        batch == Plan(Read(store, "planning_snapshot", run).input)
    IN /\ At(c, "complete")
       /\ Become(c,
            IF ~Live(store, "planning_run", run) THEN Failed(call, "Internal")
            ELSE IF current.status = "completed" THEN Answered(call, "none", current)
            ELSE [call EXCEPT !.pc = "completeCommit",
                              !.operation = completeOperation(run, call.record, batch),
                              !.changes = completeMutations(store, run, call.record, batch)])
       /\ UNCHANGED <<store, clock>>

(* Mutant: the answer is the run as this call completed it. *)
CompleteCommit_own(c) ==
    LET call == calls[c]
        mutations == Normalized(call.changes)
    IN /\ At(c, "completeCommit")
       /\ Committed(call.operation, mutations)
       /\ Become(c, IF CommitOutcome(call.operation, mutations) = "none"
                    THEN Answered(call, "none", call.record)
                    ELSE Failed(call, "StaleSnapshot"))
       /\ UNCHANGED clock

(* The answer is the run as it is stored, whoever completed it. *)
CompleteCommit(c) ==
    LET call == calls[c]
        mutations == Normalized(call.changes)
        outcome == CommitOutcome(call.operation, mutations)
    IN /\ At(c, "completeCommit")
       /\ Committed(call.operation, mutations)
       /\ Become(c, CASE outcome = "none" ->
                           Answered(call, "none",
                                    store'.resources[<<"planning_run", call.command.run>>].payload)
                      [] outcome = "conflict" ->
                           IF call.attempts + 1 = MaxAttempts
                           THEN Failed(call, "StaleSnapshot")
                           ELSE [call EXCEPT !.pc = "complete", !.attempts = @ + 1,
                                             !.changes = {}, !.operation = NoPayload]
                      [] OTHER -> Failed(call, outcome))
       /\ UNCHANGED clock

(* The replica stops, or a use of the repository fails. *)
Die(c) ==
    /\ ~At(c, "idle")
    /\ Become(c, Failed(calls[c], "Unavailable"))
    /\ UNCHANGED <<store, clock>>

Tick ==
    /\ clock < MaxClock(workload)
    /\ clock' = clock + 1
    /\ UNCHANGED <<store, calls>>

(* What a call does when nothing fails. *)
Step(c) ==
    \/ ExpireDue(c)
    \/ \E r \in ReservationIds : ExpireOne(c, r)
    \/ ExpireCommit(c)
    \/ ReadSnapshot(c)
    \/ Commit(c)
    \/ Recheck(c)
    \/ Invalidate(c)
    \/ InvalidateCommit(c)
    \/ \E at \in Readings : Load(c, at)
    \/ Complete(c)
    \/ CompleteCommit(c)

Next ==
    /\ \/ \E c \in Calls :
            \/ \E command \in Sent(workload), at \in Readings : Begin(c, command, at)
            \/ Step(c)
            \/ CommitLost(c)
            \/ Die(c)
       \/ Tick
    /\ UNCHANGED workload

Spec == Init /\ [][Next]_vars

-----------------------------------------------------------------------------

(* The contents of the scope and the calls have the shape of the Go types. *)
TypeOK ==
    /\ workload \in Workloads
    /\ store \in StoreState
    /\ calls \in [Calls -> Call]
    /\ clock \in Nat

(* The claim of a ticket is live exactly while an active reservation names *)
(* the ticket, and carries that reservation and its revision.  So no two   *)
(* active reservations share a ticket, and none is left locked.            *)
ReservationClaimsExact == Serving => ClaimsExact(store)

(* A ticket identifier belongs to one kind of demand for ever, and a       *)
(* session is claimed exactly by its live backfill ticket.                 *)
DemandClaimsExact == Serving => DemandExact(store)

(* Confirmed reservations and assignments come in pairs, of one proposal;  *)
(* what the reservation named was consumed by the very commit that         *)
(* confirmed it (if it was not imported), so no ticket is assigned twice.  *)
AssignmentsPaired == Serving => Paired(store, ImportedUpTo)

(* The consistency errors of the handlers (a claim that is missing or      *)
(* belongs to another resource, a result that is missing) are never met.   *)
NoConsistencyError == \A c \in Calls : calls[c].answer.failure # "Internal"

(* A result that was stored is never changed; a reservation that ended and *)
(* an assignment that was acknowledged keep their state; a ticket only     *)
(* moves to a higher revision and is gone for good once it is gone; a      *)
(* policy version keeps its content.                                       *)
EndedIsFinal == [][
    \A k \in Keys : store.resources[k].version # 0 =>
      Follows(k[1], store.resources[k], store'.resources[k])
    ]_vars

(* A run and its results appear together: a completed run has exactly the  *)
(* proposals and unmatched tickets that the planner makes of what was      *)
(* captured, whoever completed it and however often it was retried.        *)
RunsAtomic == Serving => \A run \in RunIds : RunExact(store, run)

(* Success is only reported of what was committed: the receipt of the      *)
(* command is there, also where a retry loop was gone through or used up,  *)
(* and the answer to a planning command is the run as it is stored, for    *)
(* all its retries alike.                                                  *)
SuccessRecorded ==
    \A c \in Calls :
      LET command == calls[c].command
      IN (/\ At(c, "idle")
          /\ command \in Sent(workload)
          /\ command.kind # "reservation.list"
          /\ calls[c].answer.failure = "none") =>
            /\ Replay(store, operation(command)) = "replayed"
            /\ command.kind = "planning_run.execute" =>
                 calls[c].answer.record = Read(store, "planning_run", command.run)

(* The steps after which a call commits. *)
Committing == {"expireCommit", "commit", "invalidateCommit", "completeCommit"}

(* What a handler prepares from a snapshot would be accepted on that       *)
(* snapshot: the versions it expects are those of the resources, of their  *)
(* tombstones and of released claims, and the services' own operations     *)
(* have no receipt yet.  So a conflict is always the commit of another     *)
(* call, a retry loop is used up only by that many of them, and expiry and *)
(* completion are not skipped as done.                                     *)
FreshCommitsSucceed == [][
    \A c \in Calls :
      LET call == calls'[c]
      IN (call.pc \in Committing /\ calls[c].pc \notin Committing) =>
           /\ CommitOutcome(call.operation, Normalized(call.changes)) # "conflict"
           /\ call.pc # "commit" => Replay(store, call.operation) = "absent"
    ]_vars

-----------------------------------------------------------------------------
(* What the documents say and the code does not do. *)

(* docs/service-authority.md: the answer to a repeated command is the one  *)
(* that was stored with the first.                                         *)
AnswersStored ==
    \A c \in Calls :
      (/\ At(c, "idle")
       /\ calls[c].answer.failure = "none"
       /\ calls[c].answer.record \in Reservation \cup Assignment) =>
         calls[c].answer.record
           = Read(store, "operation_result", calls[c].command.operation).record

=============================================================================
