---------------------------- MODULE ServiceProofs ----------------------------
(***************************************************************************)
(* Proofs of the safety properties of Service, from the invariant of       *)
(* ServiceInvariant: the handlers prepare Pending changes (HandlerProofs), *)
(* which keep the scope Sound and leave Pending what other calls have      *)
(* prepared (ChangesProofs), so every step of a call keeps the invariant   *)
(* (IInvNext).                                                             *)
(***************************************************************************)
EXTENDS ServiceInvariant, ChangesProofs, HandlerProofs

-----------------------------------------------------------------------------
(* Calls. *)

(* What the commands of each kind carry. *)
LEMMA CommandFields ==
    ASSUME NEW command \in ClientCommands
    PROVE  /\ command.kind \in {"match_ticket.put", "match_ticket.cancel",
                "backfill_ticket.put", "backfill_ticket.cancel", "policy.put",
                "planning_run.execute", "reservation.reserve", "reservation.cancel",
                "reservation.confirm", "assignment.acknowledge", "reservation.list"}
           /\ command.operation \in OperationIds
           /\ command.kind = "match_ticket.put" =>
                command.ticket \in TicketIds /\ command.value \in StoredMatch
           /\ command.kind = "match_ticket.cancel" => command.ticket \in TicketIds
           /\ command.kind = "backfill_ticket.put" =>
                command.ticket \in TicketIds /\ command.value \in StoredBackfill
           /\ command.kind = "backfill_ticket.cancel" => command.ticket \in TicketIds
           /\ command.kind = "policy.put" =>
                command.policy \in PolicyVersions /\ command.fingerprint \in Fingerprints
           /\ command.kind = "planning_run.execute" => command.run \in RunIds
           /\ command.kind = "reservation.reserve" =>
                command.reservation \in ReservationIds /\ command.proposal \in ProposalIds
           /\ command.kind = "reservation.cancel" => command.reservation \in ReservationIds
           /\ command.kind = "reservation.confirm" =>
                command.reservation \in ReservationIds /\ command.assignment \in AssignmentIds
           /\ command.kind = "assignment.acknowledge" =>
                command.assignment \in AssignmentIds /\ command.request \in AcknowledgmentRequest
BY Zenon DEF ClientCommands

(* Whatever a handler of the services prepares on sound contents is        *)
(* pending.                                                                *)
LEMMA HandlePending ==
    ASSUME NEW s, Sound(s), NEW command \in ClientCommands, NEW at,
           NEW outcome \in Handle(s, command, at), outcome.failure = "none"
    PROVE  Pending(s, outcome.changes) /\ command.kind # "reservation.list"
<1>. DEFINE kind == command.kind
<1>1. CASE kind = "match_ticket.put"
  BY <1>1, CommandFields, PutMatchPending, Zenon DEF Handle
<1>2. CASE kind = "match_ticket.cancel"
  BY <1>2, CommandFields, CancelMatchPending, Zenon DEF Handle
<1>3. CASE kind = "backfill_ticket.put"
  BY <1>3, CommandFields, PutBackfillPending, Zenon DEF Handle
<1>4. CASE kind = "backfill_ticket.cancel"
  BY <1>4, CommandFields, CancelBackfillPending, Zenon DEF Handle
<1>5. CASE kind = "policy.put"
  BY <1>5, CommandFields, PutPolicyPending, Zenon DEF Handle
<1>6. CASE kind = "planning_run.execute"
  BY <1>6, CommandFields, CapturePending, Zenon DEF Handle
<1>7. CASE kind = "reservation.reserve"
  BY <1>7, CommandFields, ReservePending, Zenon DEF Handle
<1>8. CASE kind = "reservation.cancel"
  BY <1>8, CommandFields, CancelPending, Zenon DEF Handle
<1>9. CASE kind = "reservation.confirm"
  BY <1>9, CommandFields, ConfirmPending, Zenon DEF Handle
<1>10. CASE kind = "assignment.acknowledge"
  BY <1>10, CommandFields, AcknowledgePending, Zenon DEF Handle
<1>11. CASE kind = "reservation.list"
  BY <1>11 DEF Handle, Refuse
<1>. QED
  BY <1>1, <1>2, <1>3, <1>4, <1>5, <1>6, <1>7, <1>8, <1>9, <1>10, <1>11, CommandFields,
     Zenon

(* A refusal that makes Confirm give the reservation up. *)
LEMMA StaleConfirm ==
    ASSUME NEW s, NEW command \in ClientCommands, NEW at,
           NEW outcome \in Handle(s, command, at), outcome.failure = "stale"
    PROVE  command.kind = "reservation.confirm"
<1>. DEFINE kind == command.kind
<1>1. kind # "match_ticket.put"
  BY DEF Handle, PutMatchTicket, Refuse, Accept
<1>2. kind # "match_ticket.cancel"
  BY DEF Handle, CancelMatchTicket, Refuse, Accept
<1>3. kind # "backfill_ticket.put"
  BY DEF Handle, PutBackfillTicket, Refuse, Accept
<1>4. kind # "backfill_ticket.cancel"
  BY DEF Handle, CancelBackfillTicket, Refuse, Accept
<1>5. kind # "policy.put"
  BY DEF Handle, PutPolicy, Refuse, Accept
<1>6. kind # "planning_run.execute"
  BY DEF Handle, Capture, Refuse, Accept
<1>7. kind # "reservation.reserve"
  BY DEF Handle, Reserve, ReserveFailures, Refuse, Accept
<1>8. kind # "reservation.cancel"
  BY DEF Handle, Cancel, Refuse, Accept
<1>9. kind # "assignment.acknowledge"
  <2>1. ASSUME NEW demand, NEW request
        PROVE  ValidateAssignmentAcknowledgment(demand, request) # "stale"
    BY Zenon DEF ValidateAssignmentAcknowledgment, validateAcknowledgedBackfillVersions
  <2>. QED BY <2>1 DEF Handle, Acknowledge, Refuse, Accept
<1>10. kind # "reservation.list"
  BY DEF Handle, Refuse
<1>. QED BY <1>1, <1>2, <1>3, <1>4, <1>5, <1>6, <1>7, <1>8, <1>9, <1>10, CommandFields,
            Zenon

(* What a call has prepared and planned survives the commits of others. *)
LEMMA CallStable ==
    ASSUME NEW s, NEW d, NEW ch, Sound(s), Effect(s, d, ch), Pending(s, ch),
           NEW w \in Workloads, NEW call, CallOK(s, w, call)
    PROVE  CallOK(d, w, call)
<1>1. \A m \in ch : Prepared(s, m)
  BY Zenon DEF Pending
<1>2. Pending(s, call.changes) => Pending(d, call.changes)
  BY <1>1, PendingStable, Zenon
<1>3. ASSUME call.pc \in {"complete", "completeCommit"}
      PROVE  Planned(d, call)
  <2>. DEFINE run == call.command.run
  <2>1. call.command \in ClientCommands /\ call.command.kind = "planning_run.execute"
    BY <1>3, SentAssumption, Zenon DEF CallOK
  <2>2. <<"planning_snapshot", run>> \in Keys
    BY <2>1, CommandFields, KeyOf, Zenon
  <2>3. Planned(s, call)
    BY <1>3, Zenon DEF CallOK
  <2>4. Exists(s, "planning_snapshot", run) /\ "planning_snapshot" \in Unchanging
    BY <2>3, Zenon DEF Planned, Live, Unchanging
  <2>5. Get(d, "planning_snapshot", run) = Get(s, "planning_snapshot", run)
    BY <1>1, <2>2, <2>4, UnchangingStays
  <2>. QED BY <2>3, <2>5, Zenon DEF Planned, Live, Exists, Read
<1>. QED BY <1>2, <1>3, Zenon DEF CallOK

(* A call that is answered has prepared nothing. *)
LEMMA AnsweredOK ==
    ASSUME NEW s, NEW w, NEW call, NEW failure, NEW record
    PROVE  /\ CallOK(s, w, Answered(call, failure, record))
           /\ CallOK(s, w, Failed(call, failure))
BY Zenon DEF CallOK, Answered, Failed, NoCall

(* So it is for a call that has yet to read. *)
LEMMA WaitingOK ==
    ASSUME NEW s, NEW w, NEW call, DOMAIN call = DOMAIN NoCall, call.command \in Sent(w),
           call.pc \in {"expire", "expireOne", "read", "recheck"}
    PROVE  CallOK(s, w, call)
BY Zenon DEF CallOK

(* A call that finds its receipt is answered or loads the run. *)
LEMMA ReplayedOK ==
    ASSUME NEW s, NEW w, NEW call, call.command \in Sent(w)
    PROVE  CallOK(s, w, Replayed(call))
<1>1. CASE call.command.kind = "planning_run.execute"
  <2>. DEFINE new == [NoCall EXCEPT !.command = call.command, !.pc = "load"]
  <2>1. Replayed(call) = new
    BY <1>1, Zenon DEF Replayed
  <2>2. new.command = call.command /\ new.pc = "load" /\ DOMAIN new = DOMAIN NoCall
    BY Zenon DEF NoCall
  <2>. HIDE DEF new
  <2>. QED BY <1>1, <2>1, <2>2, Zenon DEF CallOK
<1>2. CASE call.command.kind # "planning_run.execute"
  BY <1>2, AnsweredOK, Zenon DEF Replayed
<1>. QED BY <1>1, <1>2, Zenon

(* Past expireDue a call reads or gives up. *)
LEMMA ExpiredOK ==
    ASSUME NEW s, NEW w, NEW call, DOMAIN call = DOMAIN NoCall, call.command \in Sent(w)
    PROVE  CallOK(s, w, Expired(call))
<1>. DEFINE new == [call EXCEPT !.pc = "read", !.due = {}, !.conflicted = FALSE, !.sweeps = 0]
<1>1. DOMAIN new = DOMAIN NoCall /\ new.command = call.command /\ new.pc = "read"
  BY Zenon DEF NoCall
<1>2. CallOK(s, w, new)
  BY <1>1, WaitingOK, Zenon
<1>. QED BY <1>2, AnsweredOK, Zenon DEF Expired

(* After one reservation of a sweep a call goes on with the sweep. *)
LEMMA SweptOK ==
    ASSUME NEW s, NEW w, NEW call, DOMAIN call = DOMAIN NoCall, call.command \in Sent(w),
           NEW conflict
    PROVE  CallOK(s, w, Swept(call, conflict))
<1>. DEFINE due == call.due \ {call.reservation}
            conflicted == call.conflicted \/ conflict
            next == [call EXCEPT !.due = due, !.conflicted = conflicted, !.changes = {},
                                 !.operation = NoPayload, !.reservation = NoID,
                                 !.pc = "expireOne"]
            again == [next EXCEPT !.pc = "expire", !.sweeps = @ + 1, !.conflicted = FALSE]
<1>1. DOMAIN next = DOMAIN NoCall /\ next.command = call.command /\ next.pc = "expireOne"
  BY Zenon DEF NoCall
<1>2. DOMAIN again = DOMAIN NoCall /\ again.command = call.command /\ again.pc = "expire"
  BY <1>1, Zenon DEF NoCall
<1>3. CallOK(s, w, next) /\ CallOK(s, w, again)
  BY <1>1, <1>2, WaitingOK, Zenon
<1>4. CallOK(s, w, Expired(next))
  BY <1>1, ExpiredOK, Zenon
<1>5. CallOK(s, w, Failed(call, "StaleSnapshot"))
  BY AnsweredOK, Zenon
<1>6. Swept(call, conflict) \in {next, Expired(next), Failed(call, "StaleSnapshot"), again}
  BY Zenon DEF Swept
<1>. QED BY <1>3, <1>4, <1>5, <1>6, Zenon

(* A call whose commit conflicts is answered or starts again. *)
LEMMA ConflictedOK ==
    ASSUME NEW s, NEW w, NEW call, DOMAIN call = DOMAIN NoCall, call.command \in Sent(w),
           call.command \in ClientCommands, call.command.kind # "reservation.list",
           NEW conflicts
    PROVE  CallOK(s, w, Conflicted(call, conflicts))
<1>. DEFINE again(failure) == [call EXCEPT !.pc = "recheck", !.failure = failure]
            read == [call EXCEPT !.pc = "read", !.attempts = @ + 1,
                                 !.changes = {}, !.operation = NoPayload]
            kind == call.command.kind
<1>1. ASSUME NEW failure
      PROVE  CallOK(s, w, again(failure))
  <2>1. /\ DOMAIN again(failure) = DOMAIN NoCall
        /\ again(failure).command = call.command
        /\ again(failure).pc = "recheck"
    BY Zenon DEF NoCall
  <2>. QED BY <2>1, WaitingOK, Zenon
<1>2. CallOK(s, w, read)
  <2>1. DOMAIN read = DOMAIN NoCall /\ read.command = call.command /\ read.pc = "read"
    BY Zenon DEF NoCall
  <2>. QED BY <2>1, WaitingOK, Zenon
<1>3. \A failure : CallOK(s, w, Failed(call, failure))
  BY AnsweredOK, Zenon
<1>4. \/ \E failure : Conflicted(call, conflicts) = Failed(call, failure)
      \/ \E failure : Conflicted(call, conflicts) = again(failure)
      \/ Conflicted(call, conflicts) = read
  <2>1. CASE kind \in {"match_ticket.put", "match_ticket.cancel"}
    BY <2>1, Zenon DEF Conflicted
  <2>2. CASE kind = "backfill_ticket.put"
    BY <2>2, Zenon DEF Conflicted
  <2>3. CASE kind = "backfill_ticket.cancel"
    BY <2>3, Zenon DEF Conflicted
  <2>4. CASE kind = "policy.put"
    BY <2>4, Zenon DEF Conflicted
  <2>5. CASE kind = "reservation.cancel"
    BY <2>5, Zenon DEF Conflicted
  <2>6. CASE kind \in {"reservation.reserve", "reservation.confirm"}
    BY <2>6, Zenon DEF Conflicted
  <2>7. CASE kind = "assignment.acknowledge"
    BY <2>7, Zenon DEF Conflicted
  <2>8. CASE kind = "planning_run.execute"
    BY <2>8, Zenon DEF Conflicted
  <2>. QED BY <2>1, <2>2, <2>3, <2>4, <2>5, <2>6, <2>7, <2>8, CommandFields, Zenon
<1>. HIDE DEF again, read
<1>. QED BY <1>1, <1>2, <1>3, <1>4, Zenon

-----------------------------------------------------------------------------
(* The steps. *)

(* Repository.Commit refuses its changes as a whole or writes them all: the*)
(* contents stay or become the Effect of the changes.                      *)
LEMMA CommitEffect ==
    ASSUME NEW op, NEW ch, Committed(op, Normalized(ch)),
           \A m \in ch : m.change \in {"put", "delete"}
    PROVE  store' = store \/ Effect(store, store', ch)
BY AppliedEffect, Zenon DEF Committed

(* What the invariant says of one call. *)
LEMMA CallFacts ==
    ASSUME IInv, NEW c \in Calls
    PROVE  /\ workload \in Workloads
           /\ Sound(store)
           /\ CallOK(store, workload, calls[c])
           /\ DOMAIN calls[c] = DOMAIN NoCall
           /\ calls[c].pc # "idle" =>
                calls[c].command \in Sent(workload) /\ calls[c].command \in ClientCommands
BY SentAssumption, Zenon DEF IInv, CallOK

(* One call goes on. *)
LEMMA CallStep ==
    ASSUME IInv, NEW c \in Calls, NEW new, Become(c, new), UNCHANGED <<workload, store>>,
           CallOK(store, workload, new)
    PROVE  IInv'
<1>1. /\ workload' \in Workloads
      /\ Sound(store')
      /\ DOMAIN calls' = Calls
  BY Zenon DEF IInv, Become
<1>2. ASSUME NEW x \in Calls
      PROVE  CallOK(store', workload', calls'[x])
  <2>1. CallOK(store, workload, calls'[x])
    BY Zenon DEF IInv, Become
  <2>. QED BY <2>1, Zenon
<1>. QED BY <1>1, <1>2, Zenon DEF IInv

(* One call commits what it has prepared and goes on. *)
LEMMA CommitStep ==
    ASSUME IInv, NEW c \in Calls, NEW new, Become(c, new), UNCHANGED workload,
           NEW op, NEW ch, Pending(store, ch),
           Committed(op, Normalized(ch)) \/ UNCHANGED store,
           CallOK(store', workload, new)
    PROVE  IInv'
<1>1. \A m \in ch : m.change \in {"put", "delete"}
  BY Zenon DEF Pending, Prepared
<1>2. store' = store \/ Effect(store, store', ch)
  BY <1>1, CommitEffect, Zenon
<1>3. Sound(store) /\ workload \in Workloads
  BY Zenon DEF IInv
<1>4. Sound(store')
  BY <1>2, <1>3, SoundStep, Zenon
<1>5. ASSUME NEW x \in Calls
      PROVE  CallOK(store', workload', calls'[x])
  <2>1. CallOK(store, workload, calls[x])
    BY Zenon DEF IInv
  <2>2. CallOK(store', workload, calls[x])
    BY <1>2, <1>3, <2>1, CallStable, Zenon
  <2>3. CallOK(store', workload, calls'[x])
    BY <2>2, Zenon DEF IInv, Become
  <2>. QED BY <2>3, Zenon
<1>6. DOMAIN calls' = Calls
  BY Zenon DEF IInv, Become
<1>. QED BY <1>3, <1>4, <1>5, <1>6, Zenon DEF IInv

(* A client sends a command. *)
LEMMA BeginStep ==
    ASSUME IInv, UNCHANGED workload, NEW c \in Calls, NEW command \in Sent(workload), NEW at,
           Begin(c, command, at)
    PROVE  IInv'
<1>. DEFINE call == [NoCall EXCEPT !.command = command, !.at = at,
                                   !.pc = IF Expires(command) THEN "expire" ELSE "read"]
            replay == Replay(store, operation(command))
            new == CASE replay = "absent" -> call
                     [] replay = "replayed" -> Replayed(call)
                     [] OTHER -> Failed(call, replay)
<1>1. Become(c, new) /\ UNCHANGED store
  BY Zenon DEF Begin
<1>2. DOMAIN call = DOMAIN NoCall /\ call.command = command /\ call.pc \in {"expire", "read"}
  BY Zenon DEF NoCall
<1>. HIDE DEF call
<1>3. CallOK(store, workload, call)
  BY <1>2, WaitingOK, Zenon
<1>4. CallOK(store, workload, Replayed(call))
  BY <1>2, ReplayedOK, Zenon
<1>5. CallOK(store, workload, Failed(call, replay))
  BY AnsweredOK, Zenon
<1>6. new \in {call, Replayed(call), Failed(call, replay)}
  BY Zenon
<1>7. CallOK(store, workload, new)
  BY <1>3, <1>4, <1>5, <1>6, Zenon
<1>. HIDE DEF new
<1>. QED BY <1>1, <1>7, CallStep, Zenon

(* expireDue lists the due reservations. *)
LEMMA ExpireDueStep ==
    ASSUME IInv, UNCHANGED workload, NEW c \in Calls, ExpireDue(c)
    PROVE  IInv'
<1>. DEFINE due == Due(store, calls[c].at)
            one == [calls[c] EXCEPT !.pc = "expireOne", !.due = due]
            new == IF due = {} THEN Expired(calls[c]) ELSE one
<1>1. Become(c, new) /\ UNCHANGED store /\ calls[c].pc # "idle"
  BY Zenon DEF ExpireDue, At
<1>2. DOMAIN calls[c] = DOMAIN NoCall /\ calls[c].command \in Sent(workload)
  BY <1>1, CallFacts, Zenon
<1>3. DOMAIN one = DOMAIN NoCall /\ one.command = calls[c].command /\ one.pc = "expireOne"
  BY <1>2, Zenon DEF NoCall
<1>4. CallOK(store, workload, one)
  BY <1>2, <1>3, WaitingOK, Zenon
<1>5. CallOK(store, workload, Expired(calls[c]))
  BY <1>2, ExpiredOK, Zenon
<1>. HIDE DEF one
<1>6. CallOK(store, workload, new)
  BY <1>4, <1>5, Zenon
<1>. HIDE DEF new
<1>. QED BY <1>1, <1>6, CallStep, Zenon

(* expireDue prepares the end of one reservation. *)
LEMMA ExpireOneStep ==
    ASSUME IInv, UNCHANGED workload, NEW c \in Calls, NEW r \in ReservationIds, ExpireOne(c, r)
    PROVE  IInv'
<1>. DEFINE call == [calls[c] EXCEPT !.reservation = r]
            outcome == EndActive(store, r, "expired")
            commit == [call EXCEPT !.pc = "expireCommit",
                                   !.operation = expireOperation(store, r),
                                   !.changes = outcome.changes]
            new == CASE outcome.failure = "done" -> Swept(call, FALSE)
                     [] outcome.failure = "none" -> commit
                     [] OTHER -> Failed(call, outcome.failure)
<1>1. Become(c, new) /\ UNCHANGED store /\ calls[c].pc # "idle"
  BY Zenon DEF ExpireOne, At
<1>2. /\ DOMAIN calls[c] = DOMAIN NoCall
      /\ calls[c].command \in Sent(workload)
      /\ Sound(store)
  BY <1>1, CallFacts, Zenon
<1>3. DOMAIN call = DOMAIN NoCall /\ call.command = calls[c].command
  BY <1>2, Zenon DEF NoCall
<1>. HIDE DEF call
<1>4. /\ DOMAIN commit = DOMAIN NoCall
      /\ commit.command = calls[c].command
      /\ commit.pc = "expireCommit"
      /\ commit.changes = outcome.changes
  BY <1>3, Zenon DEF NoCall
<1>5. outcome.failure = "none" => Pending(store, outcome.changes)
  BY <1>2, EndActivePending, Zenon
<1>. HIDE DEF commit
<1>6. outcome.failure = "none" => CallOK(store, workload, commit)
  BY <1>2, <1>4, <1>5, Zenon DEF CallOK
<1>7. CallOK(store, workload, Swept(call, FALSE))
  BY <1>2, <1>3, SweptOK, Zenon
<1>8. CallOK(store, workload, Failed(call, outcome.failure))
  BY AnsweredOK, Zenon
<1>. HIDE DEF outcome
<1>9. CallOK(store, workload, new)
  BY <1>6, <1>7, <1>8, Zenon
<1>. HIDE DEF new
<1>. QED BY <1>1, <1>9, CallStep, Zenon

(* expireDue commits that end. *)
LEMMA ExpireCommitStep ==
    ASSUME IInv, UNCHANGED workload, NEW c \in Calls, ExpireCommit(c)
    PROVE  IInv'
<1>. DEFINE call == calls[c]
            mutations == Normalized(call.changes)
            outcome == CommitOutcome(call.operation, mutations)
            new == IF outcome = "IdempotencyConflict" THEN Failed(call, outcome)
                   ELSE Swept(call, outcome = "conflict")
<1>1. Become(c, new) /\ Committed(call.operation, mutations) /\ call.pc = "expireCommit"
  BY Zenon DEF ExpireCommit, At
<1>2. /\ DOMAIN call = DOMAIN NoCall
      /\ call.command \in Sent(workload)
      /\ Pending(store, call.changes)
  BY <1>1, CallFacts, Zenon DEF CallOK
<1>3. CallOK(store', workload, Swept(call, outcome = "conflict"))
  BY <1>2, SweptOK, Zenon
<1>4. CallOK(store', workload, Failed(call, outcome))
  BY AnsweredOK, Zenon
<1>. HIDE DEF call, outcome
<1>5. CallOK(store', workload, new)
  BY <1>3, <1>4, Zenon
<1>. HIDE DEF new
<1>. QED BY <1>1, <1>2, <1>5, CommitStep, Zenon

(* The handler of a command reads and prepares. *)
LEMMA ReadSnapshotStep ==
    ASSUME IInv, UNCHANGED workload, NEW c \in Calls, ReadSnapshot(c)
    PROVE  IInv'
<1>. DEFINE call == calls[c]
<1>1. PICK outcome \in Handle(store, call.command, call.at) :
        Become(c,
          CASE outcome.failure = "none" ->
                 [call EXCEPT !.pc = "commit", !.changes = outcome.changes,
                              !.operation = operation(call.command),
                              !.record = outcome.record]
            [] outcome.failure = "listed" -> Answered(call, "none", NoPayload)
            [] outcome.failure = "stale" -> [call EXCEPT !.pc = "invalidate"]
            [] outcome.failure = "registered" ->
                 [call EXCEPT !.pc = "recheck", !.failure = "InvalidRevision"]
            [] OTHER -> Failed(call, outcome.failure))
  BY Zenon DEF ReadSnapshot
<1>. DEFINE commit == [call EXCEPT !.pc = "commit", !.changes = outcome.changes,
                                   !.operation = operation(call.command),
                                   !.record = outcome.record]
            stale == [call EXCEPT !.pc = "invalidate"]
            recheck == [call EXCEPT !.pc = "recheck", !.failure = "InvalidRevision"]
            new == CASE outcome.failure = "none" -> commit
                     [] outcome.failure = "listed" -> Answered(call, "none", NoPayload)
                     [] outcome.failure = "stale" -> stale
                     [] outcome.failure = "registered" -> recheck
                     [] OTHER -> Failed(call, outcome.failure)
<1>2. Become(c, new) /\ UNCHANGED store /\ call.pc # "idle"
  BY <1>1, Zenon DEF ReadSnapshot, At
<1>3. /\ DOMAIN call = DOMAIN NoCall
      /\ call.command \in Sent(workload)
      /\ call.command \in ClientCommands
      /\ Sound(store)
  BY <1>2, CallFacts, Zenon
<1>. HIDE DEF call
<1>4. /\ DOMAIN commit = DOMAIN NoCall
      /\ commit.command = call.command
      /\ commit.pc = "commit"
      /\ commit.changes = outcome.changes
  BY <1>3, Zenon DEF NoCall
<1>5. DOMAIN stale = DOMAIN NoCall /\ stale.command = call.command /\ stale.pc = "invalidate"
  BY <1>3, Zenon DEF NoCall
<1>6. DOMAIN recheck = DOMAIN NoCall /\ recheck.command = call.command /\ recheck.pc = "recheck"
  BY <1>3, Zenon DEF NoCall
<1>. HIDE DEF commit, stale, recheck
<1>7. outcome.failure = "none" => CallOK(store, workload, commit)
  <2>1. outcome.failure = "none" =>
          Pending(store, outcome.changes) /\ call.command.kind # "reservation.list"
    BY <1>3, HandlePending, Zenon
  <2>. QED BY <1>3, <1>4, <2>1, Zenon DEF CallOK
<1>8. outcome.failure = "stale" => CallOK(store, workload, stale)
  <2>1. outcome.failure = "stale" => call.command.kind = "reservation.confirm"
    BY <1>3, StaleConfirm, Zenon
  <2>. QED BY <1>3, <1>5, <2>1, Zenon DEF CallOK
<1>9. CallOK(store, workload, recheck)
  BY <1>3, <1>6, WaitingOK, Zenon
<1>10. /\ CallOK(store, workload, Answered(call, "none", NoPayload))
       /\ CallOK(store, workload, Failed(call, outcome.failure))
  BY AnsweredOK, Zenon
<1>11. CallOK(store, workload, new)
  BY <1>7, <1>8, <1>9, <1>10, Zenon
<1>. HIDE DEF new
<1>. QED BY <1>2, <1>11, CallStep, Zenon

(* A command commits. *)
LEMMA CommitCallStep ==
    ASSUME IInv, UNCHANGED workload, NEW c \in Calls, Commit(c)
    PROVE  IInv'
<1>. DEFINE call == calls[c]
            mutations == Normalized(call.changes)
            outcome == CommitOutcome(call.operation, mutations)
            conflicted == Conflicted(call, Conflicts(store, mutations))
            done == IF call.command.kind = "planning_run.execute"
                    THEN Replayed(call) ELSE Answered(call, "none", call.record)
            new == CASE outcome = "IdempotencyConflict" -> Failed(call, outcome)
                     [] outcome = "conflict" -> conflicted
                     [] OTHER -> done
<1>1. Become(c, new) /\ Committed(call.operation, mutations) /\ call.pc = "commit"
  BY Zenon DEF Commit, At
<1>2. /\ DOMAIN call = DOMAIN NoCall
      /\ call.command \in Sent(workload)
      /\ call.command \in ClientCommands
      /\ call.command.kind # "reservation.list"
      /\ Pending(store, call.changes)
  BY <1>1, CallFacts, Zenon DEF CallOK
<1>3. CallOK(store', workload, conflicted)
  BY <1>2, ConflictedOK, Zenon
<1>4. CallOK(store', workload, done)
  BY <1>2, ReplayedOK, AnsweredOK, Zenon
<1>5. CallOK(store', workload, Failed(call, outcome))
  BY AnsweredOK, Zenon
<1>. HIDE DEF call, outcome, conflicted, done
<1>6. CallOK(store', workload, new)
  BY <1>3, <1>4, <1>5, Zenon
<1>. HIDE DEF new
<1>. QED BY <1>1, <1>2, <1>6, CommitStep, Zenon

(* The commit of a command fails, having been applied or not. *)
LEMMA CommitLostStep ==
    ASSUME IInv, UNCHANGED workload, NEW c \in Calls, CommitLost(c)
    PROVE  IInv'
<1>. DEFINE call == calls[c]
            recheck == [call EXCEPT !.pc = "recheck", !.failure = "Unavailable"]
            new == IF call.command.kind \in {"reservation.confirm", "assignment.acknowledge"}
                   THEN recheck ELSE Failed(call, "Unavailable")
<1>1. /\ Become(c, new)
      /\ call.pc = "commit"
      /\ Committed(call.operation, Normalized(call.changes)) \/ UNCHANGED store
  BY Zenon DEF CommitLost, At
<1>2. /\ DOMAIN call = DOMAIN NoCall
      /\ call.command \in Sent(workload)
      /\ Pending(store, call.changes)
  BY <1>1, CallFacts, Zenon DEF CallOK
<1>. HIDE DEF call
<1>3. DOMAIN recheck = DOMAIN NoCall /\ recheck.command = call.command /\ recheck.pc = "recheck"
  BY <1>2, Zenon DEF NoCall
<1>4. CallOK(store', workload, recheck) /\ CallOK(store', workload, Failed(call, "Unavailable"))
  BY <1>2, <1>3, WaitingOK, AnsweredOK, Zenon
<1>. HIDE DEF recheck
<1>5. CallOK(store', workload, new)
  BY <1>4, Zenon
<1>. HIDE DEF new
<1>. QED BY <1>1, <1>2, <1>5, CommitStep, Zenon

(* A command looks for its receipt after a failure. *)
LEMMA RecheckStep ==
    ASSUME IInv, UNCHANGED workload, NEW c \in Calls, Recheck(c)
    PROVE  IInv'
<1>. DEFINE call == calls[c]
            replay == Replay(store, operation(call.command))
            expire == [call EXCEPT !.pc = "expire", !.attempts = @ + 1, !.changes = {},
                                   !.operation = NoPayload, !.record = NoPayload,
                                   !.failure = "none"]
            again == IF call.command.kind = "reservation.reserve"
                     THEN expire ELSE Failed(call, call.failure)
            new == CASE replay = "replayed" -> Replayed(call)
                     [] replay = "IdempotencyConflict" -> Failed(call, replay)
                     [] OTHER -> again
<1>1. Become(c, new) /\ UNCHANGED store /\ call.pc # "idle"
  BY Zenon DEF Recheck, At
<1>2. DOMAIN call = DOMAIN NoCall /\ call.command \in Sent(workload)
  BY <1>1, CallFacts, Zenon
<1>. HIDE DEF call
<1>3. DOMAIN expire = DOMAIN NoCall /\ expire.command = call.command /\ expire.pc = "expire"
  BY <1>2, Zenon DEF NoCall
<1>4. CallOK(store, workload, expire)
  BY <1>2, <1>3, WaitingOK, Zenon
<1>. HIDE DEF expire, replay
<1>5. CallOK(store, workload, again)
  BY <1>4, AnsweredOK, Zenon
<1>6. CallOK(store, workload, Replayed(call)) /\ CallOK(store, workload, Failed(call, replay))
  BY <1>2, ReplayedOK, AnsweredOK, Zenon
<1>. HIDE DEF again
<1>7. CallOK(store, workload, new)
  BY <1>5, <1>6, Zenon
<1>. HIDE DEF new
<1>. QED BY <1>1, <1>7, CallStep, Zenon

(* Confirm prepares to give a stale reservation up. *)
LEMMA InvalidateStep ==
    ASSUME IInv, UNCHANGED workload, NEW c \in Calls, Invalidate(c)
    PROVE  IInv'
<1>. DEFINE call == calls[c]
            r == call.command.reservation
            outcome == EndActive(store, r, "cancelled")
            commit == [call EXCEPT !.pc = "invalidateCommit",
                                   !.operation = invalidateOperation(store, r),
                                   !.changes = outcome.changes]
            new == CASE outcome.failure = "done" -> Failed(call, "StaleSnapshot")
                     [] outcome.failure = "none" -> commit
                     [] OTHER -> Failed(call, outcome.failure)
<1>1. Become(c, new) /\ UNCHANGED store /\ call.pc = "invalidate"
  BY Zenon DEF Invalidate, At
<1>2. /\ DOMAIN call = DOMAIN NoCall
      /\ call.command \in Sent(workload)
      /\ call.command \in ClientCommands
      /\ call.command.kind = "reservation.confirm"
      /\ Sound(store)
  BY <1>1, CallFacts, Zenon DEF CallOK
<1>3. r \in ReservationIds
  BY <1>2, CommandFields, Zenon
<1>4. outcome.failure = "none" => Pending(store, outcome.changes)
  BY <1>2, <1>3, EndActivePending, Zenon
<1>. HIDE DEF call, outcome
<1>5. /\ DOMAIN commit = DOMAIN NoCall
      /\ commit.command = call.command
      /\ commit.pc = "invalidateCommit"
      /\ commit.changes = outcome.changes
  BY <1>2, Zenon DEF NoCall
<1>. HIDE DEF commit
<1>6. outcome.failure = "none" => CallOK(store, workload, commit)
  BY <1>2, <1>4, <1>5, Zenon DEF CallOK
<1>7. \A failure : CallOK(store, workload, Failed(call, failure))
  BY AnsweredOK, Zenon
<1>8. CallOK(store, workload, new)
  BY <1>6, <1>7, Zenon
<1>. HIDE DEF new
<1>. QED BY <1>1, <1>8, CallStep, Zenon

(* Confirm gives the reservation up. *)
LEMMA InvalidateCommitStep ==
    ASSUME IInv, UNCHANGED workload, NEW c \in Calls, InvalidateCommit(c)
    PROVE  IInv'
<1>. DEFINE call == calls[c]
            mutations == Normalized(call.changes)
            outcome == CommitOutcome(call.operation, mutations)
            new == CASE outcome = "conflict" -> Failed(call, "ReservationConflict")
                     [] outcome = "none" -> Failed(call, "StaleSnapshot")
                     [] OTHER -> Failed(call, outcome)
<1>1. Become(c, new) /\ Committed(call.operation, mutations) /\ call.pc = "invalidateCommit"
  BY Zenon DEF InvalidateCommit, At
<1>2. Pending(store, call.changes)
  BY <1>1, CallFacts, Zenon DEF CallOK
<1>3. \A failure : CallOK(store', workload, Failed(call, failure))
  BY AnsweredOK, Zenon
<1>. HIDE DEF call, outcome
<1>4. CallOK(store', workload, new)
  BY <1>3, Zenon
<1>. HIDE DEF new
<1>. QED BY <1>1, <1>2, <1>4, CommitStep, Zenon

(* The captured run is loaded and planned. *)
LEMMA LoadStep ==
    ASSUME IInv, UNCHANGED workload, NEW c \in Calls, NEW at, Load(c, at)
    PROVE  IInv'
<1>. DEFINE call == calls[c]
            run == call.command.run
            initial == Read(store, "planning_run", run)
            input == Read(store, "planning_snapshot", run).input
            batch == Plan(input)
            completed == CompletedRun(initial, batch, at)
            go == /\ Live(store, "planning_run", run)
                  /\ RefersToSnapshot(run)
                  /\ validatePlanningBatch(input, batch)
            plan == [call EXCEPT !.pc = "complete", !.record = completed]
            new == IF ~Live(store, "planning_run", run) THEN Failed(call, "NotFound")
                   ELSE IF ~RefersToSnapshot(run) THEN Failed(call, "Internal")
                   ELSE IF initial.status = "completed" THEN Answered(call, "none", initial)
                   ELSE IF ~validatePlanningBatch(input, batch) THEN Failed(call, "Internal")
                   ELSE IF ~validatePlanningRun(completed) THEN Failed(call, "ClockBehind")
                   ELSE plan
<1>1. Become(c, new) /\ UNCHANGED store /\ call.pc = "load"
  BY Zenon DEF Load, At
<1>2. /\ DOMAIN call = DOMAIN NoCall
      /\ call.command \in Sent(workload)
      /\ call.command \in ClientCommands
      /\ call.command.kind = "planning_run.execute"
      /\ Sound(store)
  BY <1>1, CallFacts, Zenon DEF CallOK
<1>3. run \in RunIds /\ <<"planning_run", run>> \in Keys
  BY <1>2, CommandFields, KeyOf, Zenon
<1>. HIDE DEF call
<1>4. ASSUME go
      PROVE  CallOK(store, workload, plan)
  <2>1. DOMAIN initial = RunFields
    <3>1. ValueOK("planning_run", initial)
      BY <1>2, <1>3, <1>4, Zenon DEF Sound, Live, Exists, Read, Get
    <3>. QED BY <3>1, Zenon DEF ValueOK
  <2>. HIDE DEF initial, input, batch
  <2>2. /\ DOMAIN completed = RunFields
        /\ completed.status = "completed"
        /\ completed.proposals = Cardinality(Proposed(batch))
        /\ completed.unmatched = Cardinality(batch.unmatched)
    BY <2>1, Zenon DEF CompletedRun, RunFields
  <2>. HIDE DEF completed
  <2>3. /\ DOMAIN plan = DOMAIN NoCall
        /\ plan.command = call.command
        /\ plan.pc = "complete"
        /\ plan.record = completed
    BY <1>2, Zenon DEF NoCall
  <2>4. Live(store, "planning_snapshot", run)
    BY <1>4, Zenon DEF RefersToSnapshot
  <2>5. validatePlanningBatch(input, batch)
    BY <1>4, Zenon
  <2>. HIDE DEF plan
  <2>6. Planned(store, plan)
    BY <2>2, <2>3, <2>4, <2>5, Zenon DEF Planned, input, batch
  <2>. QED BY <1>2, <2>3, <2>6, Zenon DEF CallOK
<1>5. /\ \A failure : CallOK(store, workload, Failed(call, failure))
      /\ CallOK(store, workload, Answered(call, "none", initial))
  BY AnsweredOK, Zenon
<1>. HIDE DEF plan, completed, initial, input, batch
<1>6. CallOK(store, workload, new)
  BY <1>4, <1>5, Zenon
<1>. HIDE DEF new
<1>. QED BY <1>1, <1>6, CallStep, Zenon

(* The completion of the run is prepared. *)
LEMMA CompleteStep ==
    ASSUME IInv, UNCHANGED workload, NEW c \in Calls, Complete(c)
    PROVE  IInv'
<1>. DEFINE call == calls[c]
            run == call.command.run
            current == Read(store, "planning_run", run)
            batch == Plan(Read(store, "planning_snapshot", run).input)
            changes == completeMutations(store, run, call.record, batch)
            commit == [call EXCEPT !.pc = "completeCommit",
                                   !.operation = completeOperation(run, call.record, batch),
                                   !.changes = changes]
            new == IF ~Live(store, "planning_run", run) THEN Failed(call, "Internal")
                   ELSE IF current.status = "completed" THEN Answered(call, "none", current)
                   ELSE commit
<1>1. Become(c, new) /\ UNCHANGED store /\ call.pc = "complete"
  BY Zenon DEF Complete, At
<1>2. /\ DOMAIN call = DOMAIN NoCall
      /\ call.command \in Sent(workload)
      /\ call.command \in ClientCommands
      /\ call.command.kind = "planning_run.execute"
      /\ Planned(store, call)
      /\ Sound(store)
  BY <1>1, CallFacts, Zenon DEF CallOK
<1>3. run \in RunIds
  BY <1>2, CommandFields, Zenon
<1>. HIDE DEF call
<1>4. (Live(store, "planning_run", run) /\ current.status # "completed") =>
        Pending(store, changes)
  BY <1>2, <1>3, CompletePending, Zenon DEF Planned
<1>. HIDE DEF changes
<1>5. /\ DOMAIN commit = DOMAIN NoCall
      /\ commit.command = call.command
      /\ commit.record = call.record
      /\ commit.pc = "completeCommit"
      /\ commit.changes = changes
  BY <1>2, Zenon DEF NoCall
<1>. HIDE DEF commit
<1>6. Planned(store, commit)
  BY <1>2, <1>5, Zenon DEF Planned
<1>7. Pending(store, changes) => CallOK(store, workload, commit)
  BY <1>2, <1>5, <1>6, Zenon DEF CallOK
<1>8. /\ CallOK(store, workload, Failed(call, "Internal"))
      /\ CallOK(store, workload, Answered(call, "none", current))
  BY AnsweredOK, Zenon
<1>. HIDE DEF current
<1>9. CallOK(store, workload, new)
  BY <1>4, <1>7, <1>8, Zenon
<1>. HIDE DEF new
<1>. QED BY <1>1, <1>9, CallStep, Zenon

(* The completion of the run commits. *)
LEMMA CompleteCommitStep ==
    ASSUME IInv, UNCHANGED workload, NEW c \in Calls, CompleteCommit(c)
    PROVE  IInv'
<1>. DEFINE call == calls[c]
            mutations == Normalized(call.changes)
            outcome == CommitOutcome(call.operation, mutations)
            stored == store'.resources[<<"planning_run", call.command.run>>].payload
            again == [call EXCEPT !.pc = "complete", !.attempts = @ + 1,
                                  !.changes = {}, !.operation = NoPayload]
            retry == IF call.attempts + 1 = MaxAttempts THEN Failed(call, "StaleSnapshot")
                     ELSE again
            new == CASE outcome = "none" -> Answered(call, "none", stored)
                     [] outcome = "conflict" -> retry
                     [] OTHER -> Failed(call, outcome)
<1>1. Become(c, new) /\ Committed(call.operation, mutations) /\ call.pc = "completeCommit"
  BY Zenon DEF CompleteCommit, At
<1>2. /\ DOMAIN call = DOMAIN NoCall
      /\ call.command \in Sent(workload)
      /\ call.command.kind = "planning_run.execute"
      /\ Pending(store, call.changes)
      /\ Sound(store)
      /\ workload \in Workloads
      /\ CallOK(store, workload, call)
  BY <1>1, CallFacts, Zenon DEF CallOK
<1>3. CallOK(store', workload, call)
  <2>1. \A m \in call.changes : m.change \in {"put", "delete"}
    BY <1>2, Zenon DEF Pending, Prepared
  <2>2. store' = store \/ Effect(store, store', call.changes)
    BY <1>1, <2>1, CommitEffect, Zenon
  <2>. QED BY <1>2, <2>2, CallStable, Zenon
<1>4. Planned(store', call)
  BY <1>1, <1>3, Zenon DEF CallOK
<1>. HIDE DEF call
<1>5. /\ DOMAIN again = DOMAIN NoCall
      /\ again.command = call.command
      /\ again.record = call.record
      /\ again.pc = "complete"
  BY <1>2, Zenon DEF NoCall
<1>. HIDE DEF again, stored, outcome
<1>6. Planned(store', again)
  BY <1>4, <1>5, Zenon DEF Planned
<1>7. CallOK(store', workload, again)
  BY <1>2, <1>5, <1>6, Zenon DEF CallOK
<1>8. /\ \A failure : CallOK(store', workload, Failed(call, failure))
      /\ CallOK(store', workload, Answered(call, "none", stored))
  BY AnsweredOK, Zenon
<1>9. CallOK(store', workload, new)
  BY <1>7, <1>8, Zenon
<1>. HIDE DEF new
<1>. QED BY <1>1, <1>2, <1>9, CommitStep, Zenon

(* The process of a call dies. *)
LEMMA DieStep ==
    ASSUME IInv, UNCHANGED workload, NEW c \in Calls, Die(c)
    PROVE  IInv'
<1>1. CallOK(store, workload, Failed(calls[c], "Unavailable"))
  BY AnsweredOK, Zenon
<1>. QED BY <1>1, CallStep, Zenon DEF Die

(* Time passes or nothing happens. *)
LEMMA UnchangedStep ==
    ASSUME IInv, UNCHANGED <<workload, store, calls>>
    PROVE  IInv'
<1>1. /\ workload' \in Workloads
      /\ Sound(store')
      /\ DOMAIN calls' = Calls
  BY Zenon DEF IInv
<1>2. \A c \in Calls : CallOK(store', workload', calls'[c])
  BY Zenon DEF IInv
<1>. QED BY <1>1, <1>2, Zenon DEF IInv

(* Every step keeps the invariant. *)
LEMMA IInvNext ==
    ASSUME IInv, [Next]_vars
    PROVE  IInv'
<1>1. CASE UNCHANGED vars
  BY <1>1, UnchangedStep, Zenon DEF vars
<1>2. CASE Next
  <2>1. UNCHANGED workload
    BY <1>2, Zenon DEF Next
  <2>2. CASE Tick
    BY <2>1, <2>2, UnchangedStep, Zenon DEF Tick
  <2>3. ASSUME NEW c \in Calls, NEW command \in Sent(workload), NEW at, Begin(c, command, at)
        PROVE  IInv'
    BY <2>1, <2>3, BeginStep, Zenon
  <2>4. ASSUME NEW c \in Calls, Step(c)
        PROVE  IInv'
    BY <2>1, <2>4, ExpireDueStep, ExpireOneStep, ExpireCommitStep, ReadSnapshotStep,
       CommitCallStep, RecheckStep, InvalidateStep, InvalidateCommitStep, LoadStep,
       CompleteStep, CompleteCommitStep, Zenon DEF Step
  <2>5. ASSUME NEW c \in Calls, CommitLost(c)
        PROVE  IInv'
    BY <2>1, <2>5, CommitLostStep, Zenon
  <2>6. ASSUME NEW c \in Calls, Die(c)
        PROVE  IInv'
    BY <2>1, <2>6, DieStep, Zenon
  <2>. QED BY <1>2, <2>2, <2>3, <2>4, <2>5, <2>6, Zenon DEF Next
<1>. QED BY <1>1, <1>2, Zenon

(* Sound contents and no calls satisfy the invariant. *)
LEMMA IInvInit ==
    ASSUME Init
    PROVE  IInv
<1>1. workload \in Workloads /\ Sound(store)
  BY ContentsAssumption, Zenon DEF Init
<1>2. DOMAIN calls = Calls
  BY Zenon DEF Init
<1>3. ASSUME NEW c \in Calls
      PROVE  CallOK(store, workload, calls[c])
  BY Zenon DEF Init, CallOK, NoCall
<1>. QED BY <1>1, <1>2, <1>3, Zenon DEF IInv

(* Every behaviour of the services keeps the inductive invariant. *)
THEOREM ServiceInvariantHolds == Spec => []IInv
<1>1. Init => IInv
  BY IInvInit, Zenon
<1>2. IInv /\ [Next]_vars => IInv'
  BY IInvNext, Zenon
<1>. QED BY <1>1, <1>2, PTL DEF Spec

(* An active reservation holds exactly the claims on the tickets it names, *)
(* at their revisions, and every claim is held by an active reservation:   *)
(* whatever calls interleave, die or retry.                                *)
THEOREM ReservationClaimsExactHolds == Spec => []ReservationClaimsExact
<1>1. IInv => ReservationClaimsExact
  BY Zenon DEF IInv, Sound, ReservationClaimsExact
<1>. QED BY <1>1, ServiceInvariantHolds, PTL

(* Tickets have exactly the identities and session claims that             *)
(* PutMatchTicket and PutBackfillTicket made for them: no ticket is both a *)
(* match and a backfill ticket, no session has two backfills.              *)
THEOREM DemandClaimsExactHolds == Spec => []DemandClaimsExact
<1>1. IInv => DemandClaimsExact
  BY Zenon DEF IInv, Sound, DemandClaimsExact
<1>. QED BY <1>1, ServiceInvariantHolds, PTL

(* Confirmed reservations and assignments come in pairs of one proposal,   *)
(* and the commit that confirmed consumed every ticket of the pair: no     *)
(* ticket is assigned twice.                                               *)
THEOREM AssignmentsPairedHolds == Spec => []AssignmentsPaired
<1>1. ASSUME IInv
      PROVE  AssignmentsPaired
  <2>1. Sound(store)
    BY <1>1, Zenon DEF IInv
  <2>2. Paired(store, 0)
    BY <2>1, Zenon DEF Sound
  <2>3. \A r \in ReservationIds : ~(VersionOf(store, "reservation", r) < 0)
    <3>1. ASSUME NEW r \in ReservationIds
          PROVE  VersionOf(store, "reservation", r) \in Nat
      <4>1. <<"reservation", r>> \in Keys
        BY KeyOf, Zenon
      <4>. QED BY <2>1, <4>1, Zenon DEF Sound, VersionOf, Get
    <3>. QED BY <3>1
  <2>4. Paired(store, ImportedUpTo)
    BY <2>2, <2>3, Zenon DEF Paired
  <2>. QED BY <2>4, Zenon DEF AssignmentsPaired
<1>. QED BY <1>1, ServiceInvariantHolds, PTL

(* A completed run has exactly the results that the planner makes of its   *)
(* snapshot, and a run that is not completed has none, whichever calls     *)
(* resumed it.                                                             *)
THEOREM RunsAtomicHolds == Spec => []RunsAtomic
<1>1. IInv => RunsAtomic
  BY Zenon DEF IInv, Sound, RunsAtomic
<1>. QED BY <1>1, ServiceInvariantHolds, PTL

(* Every step leaves the contents as they are or commits pending changes. *)
LEMMA StoreStep ==
    ASSUME IInv, [Next]_vars
    PROVE  store' = store \/ \E ch : Pending(store, ch) /\ Effect(store, store', ch)
<1>1. CASE UNCHANGED vars
  BY <1>1, Zenon DEF vars
<1>2. CASE Next
  <2>1. ASSUME NEW c \in Calls, Committed(calls[c].operation, Normalized(calls[c].changes)),
               calls[c].pc \in {"expireCommit", "commit", "invalidateCommit", "completeCommit"}
        PROVE  store' = store \/ \E ch : Pending(store, ch) /\ Effect(store, store', ch)
    <3>1. Pending(store, calls[c].changes)
      BY <2>1, CallFacts, Zenon DEF CallOK
    <3>2. \A m \in calls[c].changes : m.change \in {"put", "delete"}
      BY <3>1, Zenon DEF Pending, Prepared
    <3>. QED BY <2>1, <3>1, <3>2, CommitEffect, Zenon
  <2>2. ASSUME NEW c \in Calls, CommitLost(c) \/ Step(c)
        PROVE  \/ store' = store
               \/ /\ Committed(calls[c].operation, Normalized(calls[c].changes))
                  /\ calls[c].pc \in {"expireCommit", "commit", "invalidateCommit",
                                      "completeCommit"}
    BY <2>2, Zenon DEF CommitLost, Step, ExpireDue, ExpireOne, ExpireCommit, ReadSnapshot,
       Commit, Recheck, Invalidate, InvalidateCommit, Load, Complete, CompleteCommit, At
  <2>3. ASSUME NEW c \in Calls,
               Die(c) \/ \E command \in Sent(workload), at \in Readings : Begin(c, command, at)
        PROVE  store' = store
    BY <2>3, Zenon DEF Die, Begin
  <2>4. Tick => store' = store
    BY Zenon DEF Tick
  <2>. QED BY <1>2, <2>1, <2>2, <2>3, <2>4, Zenon DEF Next
<1>. QED BY <1>1, <1>2, Zenon

(* What has ended is final: no step of any call writes a result, a receipt *)
(* or a captured snapshot again, changes an ended reservation, an          *)
(* acknowledged assignment or a completed run, or lowers the revision of a *)
(* ticket.                                                                 *)
THEOREM EndedIsFinalHolds == Spec => EndedIsFinal
<1>1. ASSUME IInv, [Next]_vars
      PROVE  [\A k \in Keys : store.resources[k].version # 0 =>
                Follows(k[1], store.resources[k], store'.resources[k])]_vars
  <2>1. ASSUME NEW k \in Keys, store.resources[k].version # 0
        PROVE  Follows(k[1], store.resources[k], store'.resources[k])
    <3>1. CASE store' = store
      BY <3>1, FollowsSelf, Zenon
    <3>2. ASSUME NEW ch, Pending(store, ch), Effect(store, store', ch)
          PROVE  Follows(k[1], store.resources[k], store'.resources[k])
      BY <2>1, <3>2, FollowsStep, Zenon
    <3>. QED BY <1>1, <3>1, <3>2, StoreStep, Zenon
  <2>. QED BY <2>1, Zenon
<1>. QED BY <1>1, ServiceInvariantHolds, PTL DEF Spec, EndedIsFinal

==============================================================================
