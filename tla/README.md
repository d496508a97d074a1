# Formal specifications of sema

TLA+ models of the match composition engine in `src/`, the TLC runs that check
them on small instances, and TLAPS proofs of the properties that matter most.
`PROJECT.json` maps every definition to the lines it translates, lists the runs,
the mutants that show that each property can fail, the hazards of the code and
the findings.

## The system

sema turns submitted demand (match tickets of parties, backfill tickets of
running sessions) into matches. There are two runtimes around one core.

| Part | Source | What it does |
| --- | --- | --- |
| domain | `internal/domain` | entities, validation, failure codes |
| planner | `internal/planner`, `objective`, `constraint`, `discovery` | pure function from a snapshot of demand to a batch of proposals |
| oracle, frontier | `internal/evaluation` | exhaustive references that judge a batch of the planner |
| coordinator | `internal/coordinator` | in-memory tickets, reservations with a TTL, assignments, acknowledgments |
| engine, policy catalog | `internal/engine`, `internal/policy` | planner and coordinator behind one interface |
| durable runtime | `internal/durable` | the engine behind an append-only journal that is replayed at start |
| v0 HTTP adapter | `internal/httpapi` | the durable runtime over HTTP |
| repository | `internal/repository` and adapters | tenant-scoped transactions with receipts, expected versions and an audit log |
| services | `internal/service` | tickets, planning runs, reservations, assignments and policies over a repository, on any number of replicas |
| v0 import | `internal/service/legacy_import.go`, `internal/durable/legacy.go` | the state of a v0 journal, written into an empty tenant scope |
| target API and process | `internal/targetapi`, `targetruntime`, `serviceapp`, `authn/oidc`, `observability` | the services over authenticated HTTP |
| tools | `flow`, `league`, `lab`, `simulation`, harnesses, `cmd` | simulators, load drivers, terminal tools |

The life of demand is the same in both runtimes: a ticket is submitted and may
be replaced at a higher revision or cancelled; a plan proposes matches on a
snapshot; a proposal is reserved for a limited time; a reservation is
confirmed, which consumes the tickets and makes an assignment, or cancelled, or
expires; the assignment is delivered and acknowledged.

## Modules

| Module | Models | Uses |
| --- | --- | --- |
| `Domain` | entities and validation of `internal/domain` | |
| `CoordinatorState` | the coordinator's methods, as functions of its struct | `Domain` |
| `Coordinator` | the coordinator as a process, with its properties | `CoordinatorState` |
| `CoordinatorProofs` | proofs of its invariants and action properties | `Coordinator` |
| `Journal` | the engine, the events of the journal and their replay | `CoordinatorState` |
| `Durable` | runtime, recovery, faults | `Journal` |
| `LegacyModel` | what the importer rebuilds from a journal | `Journal` |
| `ImportSource` | the importer reading what `Durable` has left | `Durable`, `LegacyModel` |
| `RecordProofs`, `ReplayProofs` | lemmas on one record of a journal, and on a journal's replay and import | `LegacyModel`, `CoordinatorProofs` |
| `DurableProofs` | proofs about the durable runtime and the import of its journal | `ImportSource`, `ReplayProofs` |
| `Store` | the contents of one tenant scope and a transaction on it | |
| `Tenants` | tenant scopes and the transactions committed in them | `Store` |
| `Repository` | the contract all adapters implement | `Tenants` |
| `MemoryRepository` | the reference adapter | `Tenants`, `Repository` |
| `PostgresRepository` | the PostgreSQL adapter, statement by statement | `Tenants`, `Repository` |
| `FileRepository` | the file prototype with its fault points, around the reference adapter | `MemoryRepository` |
| `RepositoryProofs` | proofs about the contract, and that the three adapters implement it | `FileRepository`, `PostgresRepository` |
| `Resources` | what the services store under which key | `Domain`, `Store` |
| `Consistency` | how the resources of a scope belong together: what handlers check, and what must hold | `Resources` |
| `DemandHandlers`, `ReservationHandlers`, `PlanningHandlers` | the service methods, from the snapshot they read to the mutations they commit | `Consistency` |
| `Service` | concurrent service calls on any replicas | the handlers |
| `Changes` | what makes prepared mutations safe to commit later | `Consistency` |
| `ServiceInvariant` | the inductive invariant of `Service` | `Service`, `Changes` |
| `ChangesProofs`, `HandlerProofs`, `ServiceProofs` | proofs about commits, about the handlers and about `Service` | `ServiceInvariant` |
| `LegacyImport` | the resources an import writes, and importers beside service calls | `Service` |
| `Objective` | constraints, evaluation and comparison of a match | |
| `Discovery` | the candidate window: partitioned index and linear scan | `Objective` |
| `Candidates` | the search that places tickets on teams, and the generation of candidate proposals | `Discovery` |
| `Batch` | selection of a batch among the candidates | `Candidates` |
| `Frontier` | the exhaustive oracle and the Pareto comparison | `Batch` |
| `Planner` | `Plan`, from snapshot to batch, with its properties | `Frontier` |
| `TargetAPI` | a tenant scope as the target API serves it: listings, cursors, writes | |
| `TargetRuntime` | the service process around it | `TargetAPI` |
| `MC*`, `SmallTransactions` | instances for TLC | |

### Coordinator

The struct of `coordinator.go` is a record. A Go map is a total function that
reads as the zero value where the map has no entry; the zero value never
validates, so `revision # 0` and `status # "absent"` are the code's `exists`.
Each method is an operator `Op(c, ...)` that returns the struct after the call
and the failure code; the order of its tests is the order of the code's early
returns, because a refused call may still have changed the struct (expiry runs
first, and a stale `Confirm` cancels the reservation). `Coordinator` makes one
action of each method. The mutex makes a call one step. Callers choose `now`,
which need not increase from call to call.

### Durable runtime

`Durable` runs the same operators on `engine` and journals accepted calls
(`Journal` has the events and what replaying one does). The v0 handlers read the
clock before they wait for the runtime's lock, so a call may carry an older time
than the one before it, by at most `skew`.
`file` is what a reader of the journal would see, `survivors` what it may hold
after the machine has gone down, `status` whether a process has it open. An
accepted call ends in one of three ways: written, synced and reported
(`Persisted`); an error, after which the journal is cut back or not, reloaded
and replayed, or else the runtime is poisoned (`AppendFailed`); or the death of
the process somewhere in between (`DiedInAppend`). A refused call changes the
engine and leaves no record, as in the code. `Open` replays. A torn record
reads as no record, which is what `recoverRecords` makes of it. The planner is
represented by the input it was given: a batch is the set of unreserved tickets
with their revisions. `promised`, `answered`, `unrecorded` and `outrun` are
history.

### v0 import

An import has two halves. `LegacyModel` is `buildLegacyImportModel`: the events
of a journal are run on a coordinator of its own, as recovery does, and beside
it the importer keeps maps of tickets, plans, proposals, reservations, claims
and assignments, with checks that recovery does not make. `ImportSource` applies
it to every journal that a stopped runtime of `Durable` can leave, so that
importer and recovery are compared on the same bytes. `LegacyImport` turns the
maps into resources and writes them: a look at the scope, a start
marker, batches in the fixed order, a completion marker, each a transaction with
an operation identity of its own. Importers run beside service calls, may die and
may lose answers.

### Repository and adapters

`Store` holds what the adapters share: the resources, the receipts, the audit
log of a scope, and when a transaction is accepted. `Repository` is the
abstract specification: an accepted transaction takes effect in one step at any
version above the scope's. Each adapter has the contract as a property under a
refinement mapping (`ImplementsRepository`, and `ImplementsContract` of
`PostgresRepository`):

* `MemoryRepository`: the identity; the counter is shared by all scopes.
* `PostgresRepository`: committed rows. The database is modelled from how the
  code relies on it: the upsert of the scope row locks it until the end of the
  transaction; statements see committed rows; a REPEATABLE READ transaction
  reads one moment. Resource row locks add nothing once the scope is locked.
* `FileRepository`: the memory while a process has the store open, otherwise
  the file. A failed commit whose rename took place is invisible until a
  restart shows it; the refinement says this is a commit at the restart.

### Services

A service method reads the clock, looks for the receipt of its operation, reads
a snapshot, decides, and commits mutations with the versions it expects. The
decision is a function of snapshot and command (`DemandHandlers`,
`ReservationHandlers`, `PlanningHandlers`), with the early returns of the code
in its order. `Service` runs calls on one tenant's store: each use of the
repository is a step, and other calls go on in between. `calls[c].pc` is where a
call is: the sweep that expires due reservations (`expire`, `expireOne`,
`expireCommit`), the snapshot (`read`), the commit, the second look for a
receipt after a failed commit (`recheck`), the release of a stale reservation
(`invalidate`, `invalidateCommit`), and the second half of a planning run
(`load`, `complete`, `completeCommit`). A call may die at any step (`Die`) and a
commit may lose its answer (`CommitLost`); a command may be sent again at any
time, also while it runs. A commit is one step because the adapters implement
the contract. The digest of an operation is the command itself. The planner is
a constant operator `Plan` of the captured input; the TLC instance has one run
propose one ticket and another run two, so that proposals overlap. Of the reads
only those of reservations change the store, by expiring; they are the command
`reservation.list`.

### Planner

The planner is a pure function, and its modules are operators in the order in
which `Plan` uses them. Everything that decides is kept: the limits a policy
implies, which tickets are in the window, the shapes that are filled, the order
in which tickets and teams are tried, the teams that are skipped as equal, the
evaluation with its relaxation steps and wait priority, the ranking of
candidates, branch and bound over them or the Pareto search of small queues, and
where each budget ends a search. A search over teams is a recursive operator that
returns what the Go closure accumulates. Times are milliseconds, skills and
latencies integers. Proposal identities are hashes and are replaced by the
content they are computed from. `Planner` runs the three stages of `Plan` as
steps, so that each intermediate result is computed once and can be looked at.
`Frontier` has the oracle that enumerates every match and the frontier of every
disjoint batch, from the code of `internal/evaluation`.

### Target API and process

`TargetAPI` is one tenant scope with what a page depends on: a version, tickets
with the version that wrote them, and runs with the version that completed them.
A cursor is the record that `cursorCodec` seals: the listing it belongs to, a
fence and a position. The five collections are fenced by the scope's version and
share one handler shape, for which match tickets stand; the result lists are
fenced by the run's. `TargetRuntime` follows a request through admission,
authentication, the checks of the handler, the wait for a connection and the
call, with a deadline that may end the context anywhere; and the process through
start, signal, drain, forced close of the pool, exit and restart. The identity
provider and the database may answer, fail, take effect without an answer, or
hang until the context ends. A transaction that is left before its end is rolled
back first (`Abort`, `Rollback`), and that call does not have the context of the
request: `Commit` and `Snapshot` defer `tx.Rollback(context.Background())`, so
nothing but an answer or a broken connection ends it, and the request keeps its
permit and its connection until then.

## Runs

| Run | Shows | States |
| --- | --- | --- |
| `coordinator` | reservation indexes, player ownership, supply and demand apart, pairing of assignments, consistent acknowledgments, idempotent retries; reservations and assignments are one-way and a confirm consumes exactly its proposal | 49 k |
| `durable` | no reported mutation is lost, the journal replays but for two causes that are named, replay agrees with the engine; the importer accepts what recovery accepts and makes the same of it | 263 k |
| `durable_stale_confirm` | finding 1 | |
| `durable_plan_retry` | finding 2 | |
| `durable_import` | finding 4 | |
| `postgres_commit` | refinement, dense versions, consistent snapshots, every transaction ends | 91 k |
| `file_repository` | refinement across write errors and process death, for two tenants with one version counter; receipts, resources and audit agree; the file can always be loaded | 5 k |
| `service` | a ticket's claim is live exactly while an active reservation names it; identifiers and sessions are claimed by their tickets; confirmed reservations and assignments are paired and consumed their tickets in the same commit; a run and its results appear together and are those of the captured input; a success that is answered has its receipt, and a run is answered as it is stored; a call's commit never fails against the state it has read; no consistency error; what ended stays; an import that completes left exactly the journal's resources | 132 k |
| `service_twins` | finding 3 | |
| `planner` | batches are valid and account for every ticket; selection is optimal among the candidates; solos are served on the frontier; the oldest priority ticket is served; no budget changes a batch silently; a single match is an optimal one; index and scan agree | 10 k |
| `target` | pages put together are one snapshot; cursors of results stay good; if every `Rollback` is answered or its connection breaks, admission recovers from saturation and a process that is stopped ends | 158 k |
| `target_deadline` | finding 5 | |

The run `service` has seven workloads, one of which is chosen at the start:
`reservations` (two proposals that share a ticket are reserved, confirmed,
cancelled and expired), `replaced` (one proposal is, while its ticket is
replaced), `delivery` (a backfill
whose roster moves, up to two competing acknowledgments, while reads expire what
is due), `demand` (match and backfill tickets compete for an identifier and a
session), `policies` (one policy is put with different contents at the same
time), `planning` (runs are captured, interrupted and resumed while a
ticket and the policy change) and `import` (importers of a journal compete with
each other and with an importer of another journal, and clients go on with what
was imported).

The run `durable` has six: `expiry`, `planning` and `delivery` have every fault
and differ in what clients do; `skewed` has calls that are journaled out of the
order of their times; `import` and `import_backfill` have longer journals, written
without a fault, in which only planned proposals are reserved.

### Bounds

* Coordinator: two tickets, two players and two reservations are the least with
  which two reservations can compete for part of each other's tickets; two
  revisions make a proposal stale; times run past one expiry. Proposals are of
  both tickets, of a replaced one, or fill a vacancy of the first session; the
  second session is there for demand to move to. Larger sets only repeat these
  conflicts, and all properties of the run are proved for all sizes.
* Durable: five records are long enough for submit, reserve, end of the
  reservation, and another reservation or a replacement, with a crash anywhere;
  `unsynced` bounds how many contents the disk may hold at once, two being one
  unsynced record. Journals to import have six records (`import`) or seven
  (`import_backfill`), so that a plan, its reservation, a confirmation, its retry
  and a new ticket fit. `skew` is 1 in one workload, `skewed`, which has no
  unsynced records, and 0 elsewhere. Time passes where reservations are to expire,
  so not in `delivery` and `import_backfill`.
* Repository: two keys, two operations, two scopes; `MaxVersion` 3 is a create,
  a change and a delete. `Versions` also is where a counter is exhausted; the
  PostgreSQL run has `MaxVersion` 2 and three operations so that it happens.
* Service: two calls at once, which is the least for every race of the code,
  with any number of calls one after the other; the state before is made by
  running commands through the same handlers. `MaxAttempts` is 2 (the code has
  8). With it the loop of `Policies.Put` is exhausted (`policies`), and the loop
  of `expireDue` makes a second round. The loops of `Reserve` and of the
  completion of a run are not exhausted: two calls at a time do not conflict
  twice in a row there, and a completion that conflicts finds the run completed
  and answers that. `TTL` and `MaxClock` are 1: a
  reservation made at 0 is due at 1. `MaxSkew` is 1 in the workload `planning`,
  where completion times must differ. Calls are symmetric.
  Imported journals have enough resources for `MaxBatches` 4 batches of
  `BatchSize` 5.
* Planner: 2.5 thousand snapshots in six families (`duels`, `pairs`, `vacancies`,
  `roles`, `rosters`, `bands`): four or five tickets, which leave two matches that compete
  for a third, whole parties beside solos, up to two vacancies, required roles,
  uneven rosters, tickets of equal times in several partitions of the index;
  each with no relaxation, with a gap that opens, and with wait
  priority; under the default limits and with each limit small enough to bind.
* Target: three clients, two permits and one connection, so that requests wait
  for admission and for the pool; three identifiers give listings of up to three
  pages; `MaxVersion` 4 leaves room for two writes between pages.

Deadlock is checked everywhere but in `planner`, where a plan ends.

### Fairness

`Service` has safety properties only and assumes none. In `PostgresRepository` a
connection goes on with the statements of its transaction (weak fairness: the Go code is sequential, and
every statement has an answer or an error). PostgreSQL queues the waiters of a
row lock, so a connection that waits while the lock is freed again and again
gets it (strong fairness of `reserveScopeVersion`). `Abort` is not fair: nobody
relies on connections breaking.

`TargetRuntime` assumes of the process that it goes on with what it does alone
(admit, check a request, start, notice that it is drained, exit), that its timers
fire (request deadlines, the shutdown timeout), and that what was called with the
context of a request comes back when the context has ended or the pool is
closing, which is what `net/http`, go-oidc and pgx promise: authentication, the
wait for a connection, a statement, the ping of the probe. A repository call that
comes back so returns, or goes on to its `Rollback`. Of the `Rollback` nothing is
assumed, since it has no deadline; nor of the identity provider, the database and
the clients, which may hang for ever. `AdmissionRecovers` and `ShutdownEnds`
therefore have the premise `RollbacksEnd`, that no request stays in its
`Rollback`; finding 5 is what happens without it.

## Findings

1. `durable_stale_confirm`. A `Confirm` refused for stale input cancels the
   reservation in the engine and returns an error, so nothing is journaled. A
   later `Reserve` of the same tickets succeeds and is journaled. Replay finds
   the tickets still reserved and fails, and the runtime cannot be opened
   again. `docs/durable-runtime.md:34` promises that the reserve, confirm and
   cancel contract holds across a restart.
2. `durable_plan_retry`. A plan record that was written and never synced is
   accepted at start and used to answer a retry, with no sync in between; a
   power failure then loses a plan that was answered, and the same snapshot
   identifier is planned again with another batch.
3. `service_twins`. A `Reserve` or `Confirm` whose commit finds the receipt of a
   concurrent delivery of the same command answers the record it built itself,
   with its own clock reading, instead of the stored result.
4. `durable_import`. A repeated `Confirm` is answered with the assignment it has
   already made, and that answer is journaled too. At every such event the
   importer deletes the tickets of the assignment; one that was submitted again
   in between is live in the v0 runtime and gone after the import.
5. `target_deadline`. A request whose deadline passes between two statements of a
   transaction goes on to a `Rollback` under `context.Background()`
   (`postgres.go:207` and `:276`). If the database does not answer, the request
   keeps its permit and its connection for ever, although `-request-timeout` is
   the "maximum target API operation duration" (`serviceapp/app.go:234`) and
   `docs/remote-runtime.md:52` gives an API operation a deadline of five seconds.
   When the process is then stopped, the drain runs into its timeout and
   `pool.Close` waits for the connection, so the process does not end by itself
   within the ten seconds of `docs/operations-runbook.md:17`.

`RestartSucceedsUnlessStale` and `RecoveryAgrees` say what does hold. Two kinds
of calls break recovery: the stale `Confirm` of finding 1, and a call with an
older time that is accepted after a call with a later time has expired a
reservation, because the expiry leaves no record and the replay meets the
reservation still active (`outrun`). Nothing else does; expiry without a record is
harmless as long as times are journaled in order.

`ImportAccepts` names one more journal: an identifier that was a match ticket
and later a backfill ticket, or the reverse, is legal in the v0 runtime, replays,
and is refused by the importer.

A repeated `Reserve` is not answered with its reservation once that has been
cancelled or has expired (`coordinator.go:215-218` refuses it), although
`docs/lifecycle.md:59` says without exception that it is. `RetriesIdempotent` says
what the code does: such a retry succeeds exactly while the reservation stands.

A batch of the planner need not be on the Pareto frontier that
`evaluation.CompareBatchFrontier` computes: with parties, roles or rosters the
search skips teams of equal size and skill although they differ
(`docs/matcher-conformance.md:14` has no such exception for roles), and beyond the
small queues of the expanded search a weighted score is maximised instead.
`SolosOnFrontier` and `BestMatchFound` say where the reference
is reached; `Uniform` in them excludes roles and rosters.

The models of the services keep three more peculiarities of the code that no
run singles out. `Reserve` does not compare ticket versions in its commit, so a
reservation may be made of a revision that is gone; `AssignmentsPaired` shows
that no assignment comes of it. A retry that looks for its receipt before the
first delivery commits and reads its snapshot after is refused with
`InvalidRevision`; planning runs look for the receipt again, the others do not.
A planning run captures reserved demand too, unlike the coordinator's snapshot.

## Proofs

All proofs are for arbitrary constants, under the named assumptions of the
modules that declare them (the empty identifier is no identifier, inputs have
their types, versions are naturals that include 0).

* `CoordinatorProofs`: type correctness and the six safety invariants of
  `Coordinator`. Their conjunction is inductive except that exclusivity follows
  from the exactness of the index: two active reservations that name one ticket
  would both be its index entry. `AssignmentsPaired` needs that a confirmed
  reservation is never touched again, which rests on the type of statuses and
  on `Due` and `Cancel` selecting active reservations only. One lemma per
  helper (`endReservations`, `expireLocked`, `consume`) says what it keeps; one
  lemma per method shows that it keeps the invariant; the theorems follow. The
  action properties `LifecycleOneWay` and `ConfirmConsumesExactly` follow from
  one description of a step (`Moves`): each reservation stays, ends, is confirmed
  while its proposal is consumed, or is made of a valid proposal; and each
  assignment stays, is made, or has its delivery settled (`AssignmentMove`).
  `RetriesIdempotent` is an invariant: a `Confirm`, `Cancel` or acknowledgment that
  has succeeded is repeatable in every later state, because what it left behind
  (`Retryable`) is final; a `Reserve` is repeatable exactly while its reservation
  stands, since expiry has been applied before it is looked at.
* `RecordProofs`, `ReplayProofs`, `DurableProofs`: `ReportedSurvives`,
  `RestartSucceedsUnlessStale`, `RecoveryAgrees` and `ImportAgrees`, for journals
  of any length and any workload. An induction over journals is out of the
  prover's reach, so the invariant is about every journal that a failure may
  leave (`survivors`), and a step appends one record: each of them is `Written`,
  that is, the recursion of its replay and of its import is well defined
  (`Replayable`, `Appliable`), and where both succeed the importer's maps mirror
  its engine and the replay follows that engine. `Follows` says how a replay may
  differ from an engine: the demand, the assignments and the policies are the
  same, and a reservation may be less far along, because an expiry leaves no
  record and a refused `Confirm` withdraws a reservation without one (`Lags`). The
  work is in what each call does to that difference: one that both accept keeps
  it, one that the live engine refuses adds what it withdrew, and one whose time
  is not before an expiry already made is answered alike by a replay that knows of
  every withdrawal (`SameAnswer`), which is why a restart succeeds but for the two
  causes. The calls of the coordinator keep `IInv`, so `CoordinatorProofs` is what
  this rests on.
* `RepositoryProofs` has four parts. First, what one accepted transaction does to
  the contents of a scope (`AppliedConsistent`, `AppliedExtends`) and of all scopes
  (`CommitKeeps`): a transaction at a version above the scope's own has a version
  that no receipt has, and an operation without a receipt overwrites none. So the
  contract keeps its type, `ReceiptsConsistent` (inductive together with the type)
  and `HistoryKept` (an action property that needs the invariant: no resource is
  above the version of its scope).
  Second, the reference adapter implements the contract, and keeps
  `ReceiptsConsistent` and `HistoryKept`. The inductive invariant is that the
  shared counter is at or above the version of every scope (`CounterAbove`), so
  the next value is above the scope's own, as the contract and `CommitKeeps` ask.
  Third, so does the file prototype, through every fault point and restart. The
  file holds what is in memory, or that and one transaction the memory would
  accept (`Ahead`); both are `Sound`, and sound contents pass the checks of
  `diskToState`, which is `AlwaysLoadable`. For the check that no version is used
  twice the invariant has the audit logs of two scopes apart, which rests on the
  shared counter.
  Fourth, the statements of interleaved PostgreSQL transactions implement the
  contract, versions are dense and snapshots consistent, for any number of
  connections. What a transaction has read stays true until it commits
  (`Current`), because it holds the row of its scope from the moment it took its
  version.
* `ChangesProofs`, `HandlerProofs`, `ServiceProofs`: `ReservationClaimsExact`,
  `DemandClaimsExact`, `AssignmentsPaired`, `RunsAtomic` and `EndedIsFinal` of
  `Service`, for any number of concurrent calls, tickets, sessions, runs and any
  planner. Nothing is locked here, so the invariant (`IInv`) has to say of a call
  that waits to commit why its commit will do no harm, although the snapshot it
  decided on is gone. It does so in conditional form (`Prepared`): *while the
  resource of a change still has the version the change expects*, it is what the
  handler saw. A commit of another call gives a new version to what it writes, so
  it makes the condition false or leaves the resource alone (`PendingStable`).
  Beside that, the changes of one call are of a shape that keeps resources
  together (`ClaimChanges`, `DemandChanges`, `AssignmentChanges`, `RunChanges`):
  a reservation starts or ends with all its claims, a ticket comes with its
  identity, a confirmation removes the tickets, a completion writes all results.
  `ChangesProofs` shows that changes with both, when the repository accepts them,
  keep the scope `Sound` (`SoundStep`) and change no resource in a way it may not
  (`FollowsStep`); `HandlerProofs` that every handler prepares such changes from a
  sound snapshot, one lemma per handler; `ServiceProofs` goes through the steps of
  a call. The proof shows where an expected version is needed and where it is not:
  `Reserve` does not compare the versions of tickets, and need not, because
  `Confirm` does. Two assumptions on the constants: what is sent are commands of
  the API with decoded values (`SentAssumption`), and a scope in use from the start
  has sound contents (`ContentsAssumption`; the empty scope has). The theorems are
  about `Service!Spec`; that the properties hold beside importers (`ImportSpec`) is
  checked by the run.

Only model-checked:

* `ImportAccepts`, which compares the importer's own checks with those of recovery
  and depends on the planner behind them, and `ImportExact`;
* `NoConsistencyError`, `SuccessRecorded` and `FreshCommitsSucceed` of `Service`,
  which need an invariant about receipts and the resources written with them, and
  about the versions of what a handler prepares;
* the planner, which is recursive, and the pages of the target API, which are
  sorted sequences;
* liveness (fairness and ENABLED are out of the prover's reach).

## Not modelled

Formatting, decoding and wire types; audit and read-only calls; loss of an
unsynced directory entry in the file prototype (the prototype's own tests kill
the process, not the machine); migration; tools, harnesses and commands. The
components list of `PROJECT.json` has a reason for each.

## Plan

1. Proofs: `NoConsistencyError` and `SuccessRecorded`, from an invariant that ties a
   receipt to the resources that were committed with it; `FreshCommitsSucceed`; the service
   theorems for `ImportSpec`.
2. Models: the flow simulator as a client of the coordinator, migration.
