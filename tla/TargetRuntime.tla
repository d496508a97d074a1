--------------------------- MODULE TargetRuntime ---------------------------
(***************************************************************************)
(* The service process around the target API: serviceapp starts and stops  *)
(* it, targetruntime admits a bounded number of requests and gives each a  *)
(* deadline, targetapi authenticates and answers them, and every           *)
(* repository call takes one connection of a bounded pool.                 *)
(*                                                                         *)
(* The identity provider and the database may hang, fail, or take effect   *)
(* without an answer.  What is called with the context of the request      *)
(* returns when that ends; the deferred Rollback of a transaction has a    *)
(* context that does not end.  A client has one request under way at a     *)
(* time.                                                                   *)
(***************************************************************************)
EXTENDS TargetAPI, FiniteSets

CONSTANTS
    Clients, NoRequest,
    MaxInFlight,        \* -max-in-flight
    MaxConnections,     \* -postgres-max-conns
    MaxVersion,         \* bound: writes are sent up to this repository version
    Workloads,
    Contents(_),        \* what the repository holds when the process starts
    Commands(_)         \* what each client may send

ASSUME TargetRuntimeAssumption ==
    /\ MaxInFlight \in Nat \ {0}
    /\ MaxConnections \in Nat \ {0}
    /\ MaxVersion \in Nat

VARIABLES
    workload,   \* which commands the clients send
    scopes,     \* the repository, by tenant
    phase,      \* of the process
    permits,    \* tokens in the admission channel
    request,    \* the request of each client that is in the process
    listing     \* what each client has read, and the cursor it holds

vars == <<workload, scopes, phase, permits, request, listing>>

NoListing == [items |-> <<>>, expected |-> <<>>, cursor |-> NoCursor]

Init ==
    /\ workload \in Workloads
    /\ scopes = Contents(workload)
    /\ phase = "starting"
    /\ permits = 0
    /\ request = [c \in Clients |-> NoRequest]
    /\ listing = [c \in Clients |-> NoListing]

InProcess(c) == request[c] # NoRequest

At(c, pc) == InProcess(c) /\ request[c].pc = pc

Goto(c, pc) == request' = [request EXCEPT ![c].pc = pc]

Command(c) == request[c].command

Scope(c) == scopes[Command(c).tenant]

Expired(c) == InProcess(c) /\ request[c].expired

(* The readiness probe is outside the admission. *)
Probe(c) == Command(c).kind = "ready"

Connections == {c \in Clients : At(c, "call") \/ At(c, "rollback")}

(* The handler returns: the answer is written and the deferred functions   *)
(* run, the permit's among them.                                           *)
Return(c) ==
    /\ request' = [request EXCEPT ![c] = NoRequest]
    /\ permits' = IF Probe(c) THEN permits ELSE permits - 1

-----------------------------------------------------------------------------
(* Requests. *)

Writes == {c \in Clients : InProcess(c) /\ Command(c).kind \in {"put", "delete", "run"}}

Room(t) == scopes[t].version + 2 * Cardinality({c \in Writes : Command(c).tenant = t}) < MaxVersion

Send(c, command, cursor) ==
    /\ phase = "serving"
    /\ ~InProcess(c)
    /\ command.kind \in {"put", "delete", "run"} => Room(command.tenant)
    /\ request' = [request EXCEPT ![c] =
                       [pc |-> IF command.kind = "ready" THEN "acquire" ELSE "arrived",
                        command |-> command, cursor |-> cursor, expired |-> FALSE]]
    /\ UNCHANGED <<workload, scopes, phase, permits, listing>>

(* newAdmissionMiddleware: a permit at once or ResourceExhausted. *)
Admit(c) ==
    /\ At(c, "arrived")
    /\ \/ /\ permits < MaxInFlight
          /\ permits' = permits + 1
          /\ Goto(c, "authenticate")
       \/ /\ permits = MaxInFlight
          /\ request' = [request EXCEPT ![c] = NoRequest]
          /\ UNCHANGED permits
    /\ UNCHANGED <<workload, scopes, phase, listing>>

(* Mutant: the readiness probe has no timeout. *)
Deadline_probe(c) ==
    /\ InProcess(c) /\ ~At(c, "arrived")
    /\ ~Probe(c)
    /\ ~Expired(c)
    /\ request' = [request EXCEPT ![c].expired = TRUE]
    /\ UNCHANGED <<workload, scopes, phase, permits, listing>>

(* withTimeout, and the timeout of the readiness probe: the context of the *)
(* request ends.  What the handler is waiting for has to notice.           *)
Deadline(c) ==
    /\ InProcess(c) /\ ~At(c, "arrived")
    /\ ~Expired(c)
    /\ request' = [request EXCEPT ![c].expired = TRUE]
    /\ UNCHANGED <<workload, scopes, phase, permits, listing>>

(* authenticate and authorize.  A provider whose keys are at hand answers  *)
(* whatever the deadline; Unauthenticated, PermissionDenied and            *)
(* AuthenticationUnavailable are one to the process.                       *)
Authenticate(c) ==
    /\ At(c, "authenticate")
    /\ Goto(c, "handle")
    /\ UNCHANGED <<workload, scopes, phase, permits, listing>>

AuthenticateFails(c) ==
    /\ At(c, "authenticate")
    /\ Return(c)
    /\ UNCHANGED <<workload, scopes, phase, listing>>

(* What a handler does before it calls the repository: the path, the       *)
(* query, the body and the cursor are checked (InvalidInput).  A client    *)
(* whose page is refused gives its listing up.                             *)
Handle(c) ==
    /\ At(c, "handle")
    /\ IF \/ Command(c).kind = "malformed"
          \/ Command(c).kind = "list" /\ ~decode(request[c].cursor, Command(c).binding)
       THEN Return(c) /\ listing' = [listing EXCEPT ![c] = NoListing]
       ELSE Goto(c, "acquire") /\ UNCHANGED <<permits, listing>>
    /\ UNCHANGED <<workload, scopes, phase>>

Acquire(c) ==
    /\ At(c, "acquire")
    /\ ~Expired(c)
    /\ phase # "closing"
    /\ Cardinality(Connections) < MaxConnections
    /\ Goto(c, "call")
    /\ UNCHANGED <<workload, scopes, phase, permits, listing>>

(* No connection before the deadline, a pool that is closed, or a database *)
(* that cannot be reached.                                                 *)
AcquireFails(c) ==
    /\ At(c, "acquire")
    /\ Return(c)
    /\ UNCHANGED <<workload, scopes, phase, listing>>

(* The scopes a commit may leave. *)
Committed(c) ==
    CASE Command(c).kind = "put" -> {put(Scope(c), Command(c).id)}
      [] Command(c).kind = "delete" ->
           {IF Scope(c).tickets[Command(c).id] = 0 THEN Scope(c) ELSE delete(Scope(c), Command(c).id)}
      [] Command(c).kind = "run" -> execute(Scope(c), Command(c).run)

Stores(c, scope) == scopes' = [scopes EXCEPT ![Command(c).tenant] = scope]

Write(c) ==
    /\ At(c, "call")
    /\ c \in Writes
    /\ \E scope \in Committed(c) :
          /\ Stores(c, scope)
          /\ IF Command(c).kind = "run" /\ scope.runs[Command(c).run].status = "captured"
             THEN Goto(c, "acquire") /\ UNCHANGED permits
             ELSE Return(c)
    /\ UNCHANGED <<workload, phase, listing>>

(* A page read without a cursor starts the client's listing again. *)
List(c) ==
    /\ At(c, "call")
    /\ Command(c).kind = "list"
    /\ LET cursor == request[c].cursor
           page == list(Scope(c), Command(c).binding, Command(c).limit, cursor)
       IN  /\ Return(c)
           /\ listing' = CASE page.code # "OK" -> [listing EXCEPT ![c] = NoListing]
                           [] cursor = NoCursor ->
                                [listing EXCEPT ![c] = [items |-> page.items,
                                                        expected |-> Records(Scope(c), Command(c).binding),
                                                        cursor |-> page.next]]
                           [] OTHER ->
                                [listing EXCEPT ![c].items = @ \o page.items,
                                                ![c].cursor = page.next]
    /\ UNCHANGED <<workload, scopes, phase>>

Ping(c) ==
    /\ At(c, "call")
    /\ Probe(c)
    /\ Return(c)
    /\ UNCHANGED <<workload, scopes, phase, listing>>

(* A statement fails with its connection, or the deadline ends it and with *)
(* it the connection: nothing is left to roll back.  A commit may have     *)
(* taken effect all the same.                                              *)
CallFails(c) ==
    /\ At(c, "call")
    /\ \/ UNCHANGED scopes
       \/ c \in Writes /\ \E scope \in Committed(c) : Stores(c, scope)
    /\ Return(c)
    /\ UNCHANGED <<workload, phase, listing>>

(* The transaction of a Snapshot or a Commit is left before its end, on a  *)
(* connection that works: a conflict, a receipt that is found, a statement *)
(* that is refused, a deadline between two statements, a panic.  The       *)
(* deferred Rollback is sent.                                              *)
Abort(c) ==
    /\ At(c, "call")
    /\ ~Probe(c)
    /\ Goto(c, "rollback")
    /\ UNCHANGED <<workload, scopes, phase, permits, listing>>

(* The database answers the Rollback, or the connection breaks.  A service *)
(* that met a conflict may read again.                                     *)
Rollback(c) ==
    /\ At(c, "rollback")
    /\ \/ Return(c)
       \/ c \in Writes /\ Goto(c, "acquire") /\ UNCHANGED permits
    /\ UNCHANGED <<workload, scopes, phase, listing>>

(* Mutant: the permit is given back after the handler and not by a         *)
(* deferred function, so that a panic keeps it.                            *)
Panic_kept(c) ==
    /\ At(c, "authenticate") \/ At(c, "handle") \/ At(c, "call")
    /\ ~Probe(c)
    /\ request' = [request EXCEPT ![c] = NoRequest]
    /\ UNCHANGED <<workload, scopes, phase, permits, listing>>

(* recoverPanics. *)
Panic(c) ==
    /\ At(c, "authenticate") \/ At(c, "handle") \/ At(c, "call")
    /\ ~Probe(c)
    /\ Return(c)
    /\ UNCHANGED <<workload, scopes, phase, listing>>

-----------------------------------------------------------------------------
(* The process. *)

(* The repository is opened, the identity provider found and the listener  *)
(* bound, or the process ends.                                             *)
Start ==
    /\ phase = "starting"
    /\ phase' \in {"serving", "exited"}
    /\ UNCHANGED <<workload, scopes, permits, request, listing>>

(* The signal: Shutdown closes the listener and waits for the requests. *)
Signal ==
    /\ phase = "serving"
    /\ phase' = "draining"
    /\ UNCHANGED <<workload, scopes, permits, request, listing>>

Drained ==
    /\ phase = "draining"
    /\ \A c \in Clients : ~InProcess(c)
    /\ phase' = "exited"
    /\ UNCHANGED <<workload, scopes, permits, request, listing>>

(* Shutdown's own timeout, or a listener that fails: the deferred Close of *)
(* the pool runs while requests are still served.                          *)
Close ==
    /\ phase \in {"serving", "draining"}
    /\ phase' = "closing"
    /\ UNCHANGED <<workload, scopes, permits, request, listing>>

(* Closing the pool waits for its connections.  The process takes the rest *)
(* of its requests along.                                                  *)
Exit ==
    /\ phase = "closing"
    /\ Connections = {}
    /\ phase' = "exited"
    /\ permits' = 0
    /\ request' = [c \in Clients |-> NoRequest]
    /\ UNCHANGED <<workload, scopes, listing>>

Restart ==
    /\ phase = "exited"
    /\ phase' = "starting"
    /\ UNCHANGED <<workload, scopes, permits, request, listing>>

Serve(c) ==
    \/ Admit(c) \/ Deadline(c)
    \/ Authenticate(c) \/ AuthenticateFails(c)
    \/ Handle(c) \/ Panic(c)
    \/ Acquire(c) \/ AcquireFails(c)
    \/ Write(c) \/ List(c) \/ Ping(c) \/ CallFails(c)
    \/ Abort(c) \/ Rollback(c)

Next ==
    \/ \E c \in Clients : \E command \in Commands(workload)[c] :
          \/ Send(c, command, NoCursor)
          \/ /\ command.kind = "list"
             /\ listing[c].cursor # NoCursor
             /\ Send(c, command, listing[c].cursor)
    \/ \E c \in Clients : Serve(c)
    \/ Start \/ Signal \/ Drained \/ Close \/ Exit \/ Restart

(* What the process does by itself: it admits and handles, its timers      *)
(* fire, what was called with the context of the request returns when the  *)
(* context ends (a repository call returns or comes to its Rollback), and  *)
(* shutdown and exit go on.  Nothing is assumed of the provider, the       *)
(* database or the clients; above all not that a Rollback is answered.     *)
Fairness ==
    /\ \A c \in Clients :
          /\ WF_vars(Admit(c))
          /\ WF_vars(Deadline(c))
          /\ WF_vars(Handle(c))
          /\ WF_vars(Expired(c) /\ AuthenticateFails(c))
          /\ WF_vars((Expired(c) \/ phase = "closing") /\ AcquireFails(c))
          /\ WF_vars(Expired(c) /\ (CallFails(c) \/ Abort(c)))
    /\ WF_vars(Start)
    /\ WF_vars(Drained)
    /\ WF_vars(phase = "draining" /\ Close)
    /\ WF_vars(Exit)

Spec == Init /\ [][Next]_vars /\ Fairness

-----------------------------------------------------------------------------
(* Pages put together are one snapshot: what a client has read from a      *)
(* listing's start through the cursors it was given is what the first page *)
(* began with, up to where it is, and all of it once there is no cursor    *)
(* left.  Commits between the pages, another page size, a cursor used for  *)
(* another listing or after a restart of the process never lead to a       *)
(* record twice, a gap or a foreign record (the list handlers and          *)
(* cursorCodec.decode).                                                    *)
ListingExact ==
    \A c \in Clients :
        /\ IsPrefix(listing[c].items, listing[c].expected)
        /\ listing[c].cursor = NoCursor => listing[c].items = listing[c].expected

(* The cursor of a completed run's result stays good: whatever is          *)
(* committed between the pages, a client that goes on with it for the same *)
(* listing is never told to start again (listPlanningRunProposals).        *)
ResultCursorsKept ==
    [][\A c \in Clients :
          /\ InProcess(c) /\ Command(c).kind = "list"
          /\ Command(c).binding.kind = "proposal"
          /\ request[c].cursor # NoCursor
          /\ request[c].cursor.binding = Command(c).binding
          => listing'[c] # NoListing]_vars

(* No Rollback stays without an answer for ever. *)
RollbacksEnd == \A c \in Clients : []<>~At(c, "rollback")

(* Admission recovers from saturation, if the database ends every Rollback *)
(* it is sent: a process that has given out all its permits gets one back, *)
(* even if the provider and every other call of the database hang          *)
(* (newAdmissionMiddleware with withTimeout).                              *)
AdmissionRecovers == RollbacksEnd => ((permits = MaxInFlight) ~> (permits < MaxInFlight))

(* On the same condition, a process that has begun to stop ends, although  *)
(* closing the pool waits for every repository call (runWithIdentity's     *)
(* return with the deferred Close).                                        *)
ShutdownEnds == RollbacksEnd => ((phase \in {"draining", "closing"}) ~> (phase = "exited"))

(* The request timeout is "maximum target API operation duration"          *)
(* (serviceapp's flag): a request whose deadline has passed leaves the     *)
(* process.  The Rollback under context.Background() refutes it.           *)
DeadlineEndsRequests == \A c \in Clients : Expired(c) ~> ~InProcess(c)
=============================================================================
