# A TLA+ verification of EngramMesh

EngramMesh records *episodes* of what agents and users did, derives *claims* from
them, and runs *executions*, either in its own process or as Temporal workflows.
The Python services are in `services/src/engrammesh`. This directory holds TLA+
modules of the parts that change shared state, TLC configurations that check them on
small instances, and TLAPS proofs for instances of any size.

Commands, run here:

```
tlc -config EpisodeIngest.cfg MCEpisodeIngest     # one run of PROJECT.json
tlapm EpisodeIngestProofs.tla                     # one proof module
```

`PROJECT.json` lists the runs, the theorems, the hazards, the source lines of every
definition, and for every checked property a *mutant*: a definition with a plausible
bug, kept beside the original and marked `\* Mutant`, under which TLC finds the
property violated. Mutants are not part of any specification.

## Inventory of the system

| Component | State | Operations | What is hard |
|---|---|---|---|
| Episode ingest, PostgreSQL | `memory_episodes`, `memory_episode_idempotency`, `memory_outbox_events`, an advisory lock per key | `RecordEpisodeHandler.handle` | concurrent calls of several processes with one key; lost acknowledgements; three tables in one transaction |
| Episode ingest, in memory | one committed state, one lock | the same | staged copies |
| Memory outbox relay | `published_at` of outbox rows | fetch, dispatch, mark; a polling loop | failures in the middle of a batch, several relays, redelivery |
| Inbox | `memory_inbox_events` | `try_record`, process, `remove_record` | the row is committed before the work it stands for |
| Claim extraction | `memory_claim_proposals`, outbox | one transaction for each event | repeated and concurrent deliveries |
| Runtime store and in-process orchestrator | `runtime_start_idempotency`, `runtime_execution_snapshots`, `runtime_outbox_events`, one asyncio lock per process | start, cancel, get, list | read, decide and write over READ COMMITTED, several processes |
| Temporal orchestrator | the index row and the workflow, two stores | start, replay, rollback, get, cancel | remote calls that fail ambiguously, no common transaction |
| Temporal workflow and activities | workflow snapshot and cancel flag, events, projection | three advances, a cancellation, a signal, a query | retries, attempts that outlive their timeout, late projections |
| Runtime outbox relay | `published_at` | fetch, dispatch, mark | the code of the memory relay over another table, without an inbox |
| Application lifecycle | pools, handlers, flags of `AppRuntime` | startup, shutdown, readiness | partial failures |
| Connection pools, migrations | a pool, a migrated flag, the migrations table | open, close, first use | races within and between processes |
| Reads | none | get, list with cursors | pages over rows that move |
| Plans and nodes | none (immutable values) | validation, transitions | acyclicity |
| HTTP API | none of its own | eight endpoints: record, start, cancel, get, list | two mappers on one way; which failure becomes which status; a key that two callers share |
| Authentication and authorization | the principal of a request, a context variable | verify, bind, authorize | whose key is trusted where; three places that resolve the actor |
| Settings | none (read once) | validation, choice of the verifier | combinations of settings |

Interactions: HTTP handlers call application handlers; a recording and an extraction
write to the memory outbox inside their transactions; the relay reads that outbox and
calls the inbox, which calls the extraction; the orchestrators write the index, the
snapshots and the runtime outbox; the Temporal worker writes snapshots and events from
another process.

## Modules

| Module | Models | Checked by |
|---|---|---|
| `EpisodeLedger` | what recording promises: every call takes effect in one instant | `LedgerSpec` in `episode_ingest` |
| `EpisodeIngest` | the transaction of a recording, statement by statement | `episode_ingest` |
| `EpisodeIngestProofs` | | TLAPS |
| `ClaimFeed` | what the memory outbox and its consumers promise: one claim of an episode, announced with it; delivered before published | `FeedSpec` in `pipeline_relays` |
| `MemoryPipeline` | outbox, relay, inbox, extraction | `pipeline_errors`, `pipeline_relays`, `pipeline_interrupt` |
| `MemoryPipelineProofs` | | TLAPS |
| `ExecutionStates` | the table of legal status changes, snapshots and events | through the modules that follow |
| `ExecutionLedger` | what starting and cancelling promise, atomically | `LedgerSpec` in `runtime_store` |
| `RuntimeStore` | `PostgresRuntimeDatabase` under the in-process orchestrator | `runtime_store`, `runtime_store_cancels` |
| `RuntimeStoreProofs` | | TLAPS |
| `TemporalStart` | registration, `start_workflow`, rollback and replay | `temporal_start`, `temporal_start_rollback` |
| `TemporalStartProofs` | | TLAPS |
| `ExecutionHistory` | what an execution promises its followers: an event log and a register of the projection that both only move on | `HistorySpec` in `temporal_lifecycle` |
| `TemporalLifecycle` | workflow, activity attempts, projection, cancellation | `temporal_lifecycle` |
| `TemporalLifecycleProofs` | | TLAPS |
| `DatabasePool` | the two database classes: pool, migrations, borrowing | through the next |
| `AppLifecycle` | `AppRuntime`: startup, shutdown, cached handlers, requests over `DatabasePool` | `app_lifecycle` |
| `AppLifecycleProofs` | | TLAPS |
| `KeysetPaging` | the listings of episodes, claims and executions, page by page | `keyset_paging` |
| `KeysetPagingProofs` | | TLAPS |
| `AccessPolicy` | settings, tokens, scopes, actors, authorization, statuses: what is decided before a store call | through the next |
| `RequestAccess` | concurrent requests to the endpoints, from validation to response, over the stores' rows | `request_access` |
| `RequestAccessProofs` | | TLAPS |

`MC*` modules give the constants their small values.

### EpisodeIngest

A call draws its episode id (the model uses the call itself), opens a READ COMMITTED
transaction, takes the advisory lock of tenant and key, looks for the idempotency row,
and either replays or refuses, or inserts episode, idempotency row and event. `staged[c]`
holds the rows its open transaction has written, which nobody else sees; `Commit` moves
them to the tables. An insert into a unique index waits while another transaction holds
the same key, and what the code would do on a violation is in the model, although the
properties say that it never happens. `Hash` is `hashtext()`: the run makes the two
keys collide. `Interrupt` ends a call at any point: a crash, a cancellation, a lost
connection; before the commit the transaction is rolled back, after it the caller
merely never learns.

### MemoryPipeline

The relay's batch, the event it is busy with, and the point it has reached are
`batch`, `todo` and `stage`. Every store call is a step. Two kinds of fault: `"error"`,
a call or the processor raises, and `"interrupt"`, the process ends, its task is
cancelled, or the connection is lost after a commit. Which of `inbox.enabled` and
`claim_extraction.enabled` are set is chosen initially. A recording is one step here;
`EpisodeIngest` justifies that.

The runtime outbox has a relay of its own, `RelayRuntimeOutboxEventsHandler`, whose
handler, store and loop are line by line those of the memory relay; it has no inbox.
The initial states with `"inbox"` disabled are its model.

The run `pipeline_interrupt` shows that an inbox row does not mean that its event was
processed, which `services/README.md:643` recommends to rely on: with an interruption
between `try_record` and the processor the redelivery finds the row, skips the
processor, and the event is marked published. This is why `InboxMeansProcessed` and
`PublishedWasExtracted` are checked, and proved, for the fault kind `"error"` alone.

The documentation requires a single active relay; the code does not enforce it. With
several, an inbox row still means that its event was processed or that a relay is about
to, but the second relay takes the row for the former, delivers and marks the event
published while the first is still at work. Nothing is lost as long as the first does not
fail: that is `PublishedIsInProcess`, until the first fault. With a fault the claim is
lost, so `PublishedWasExtracted` needs the single relay. What holds for any relays and
faults is `ClaimFeed`, which the pipeline implements.

### RuntimeStore

`_load_state` is two statements, of which the first is the step `LoadIndex` and the
second is part of the step that decides. `plan[c]` is the difference that
`_persist_state` writes: index row, snapshot, events. `ClaimKey` and `LoseKey` are the
two outcomes of `INSERT ... ON CONFLICT DO NOTHING`; losing keeps the process lock and
loads the state again, at most `MaxTries` times. `StageRows` is the `UPDATE` or `INSERT`
of the snapshot, which waits for a row that another transaction has updated and then
overwrites it. `updated_at` is left out.

`Earlier` executions stand for rows that a deployment with Temporal has projected, in
any status such a worker writes; their revisions are counted from the one they are
found in.

The store implements `ExecutionLedger` with one weakness that the ledger states: two
processes may cancel one execution, each from the snapshot it has read, and the second
overwrites the first and announces the same transitions again, under new event ids
(`CancelAgain`). `runtime_store_cancels` shows this against `database.py:134`. What
survives is checked in `runtime_store`: the events of an execution are still a gap-free
legal path, copies of a revision agree (`HistoryIsAPath`) and come from different
processes only (`CopiesCrossProcesses`). That callers agree, that the three tables move together
and that a terminal snapshot never changes is what implementing the ledger means.
`TypeOK` bounds the tries by two of the five: one lost race is enough.
`NoCircularWait` says that process locks, unique keys and rows never wait for each
other in a circle.

### TemporalStart

The index is written in one step (its statements are those of `RuntimeStore`), and
every remote call is a step. `faulty`, chosen initially, selects among a refused start,
a start whose answer is lost, a failing query, and the end of the caller's process. A
workflow closes whenever it likes, and its id may be used again, as the client's
default policy allows.

Where registrations are not taken back (no `"refused"` and no `"lost"`), a key has one
execution and conflicts are real; with every fault, nobody is told of an execution that
does not exist or that ran another spec. `temporal_start_rollback` shows the
disagreement with `services/README.md:375`: a slow first call registers, a replay finds
no workflow, starts it and answers; the first call's start is refused, it deletes the
registration, and the next call makes a second execution. With a lost answer two calls
are enough. A third way, not the subject of a run: without any fault the first call may
come to `start_workflow` after the replay's workflow has closed, and runs it again.

### TemporalLifecycle

One execution: executions share nothing. An attempt carries the list of writes it has
still to do, computed from the snapshot it was given, and its result. A timeout gives
the attempt up without stopping it, so its writes may come at any later time. The
server takes the result of the awaited attempt only. A limitation to know: an activity
publishes before its transition is committed, so when all attempts of an activity fail
the workflow fails with a transition announced that it never made. `Settles` therefore
speaks of behaviours with fewer faults than attempts.

Events, workflow snapshot and projection implement `ExecutionHistory`: the log gains only
the next legal change after its last state, the workflow follows what was announced, and
the projection takes announced states of growing revision, although late attempts write
old ones.

### DatabasePool and AppLifecycle

`DatabasePool` is one request's way through `connection()`: the migrations under the
object's lock, the look at the pool, the use. `saw` is what the migrating transaction
read in the migrations table: one that found versions missing fails when another object
of the same schema has committed them meanwhile, and its request with it. `AppLifecycle`
instantiates it for the objects that `startup()` builds, named by their class and the
call that built them. `held` are the objects in the fields of `AppRuntime`, `handlers`
what the cached handlers use; `_started` is not kept, because it is set and cleared
together with `_database`. `faulty` selects among raising opens, closes and migrations,
and `"retry"`, a caller that calls `startup()` again after it has raised.
`check_ready` is one of the requests of kind `"memory"`.

`NothingForgotten` names its two exceptions: a raising `close()` keeps `shutdown()` from
the rest, whose fields are already cleared, and a retried startup replaces
`_runtime_database` and the snapshot writer without closing them. Three facts the model
also makes visible are not the subject of a run: `services/README.md:395` calls runtime
startup independent of memory, but without the memory database it ends in
`runtime_storage_unconfigured` (third disjunct of `BuildRuntime`); `/ready` answers
`ready` as soon as the memory part is up, although `services/README.md:887` says that
`runtime_not_started` means that `startup()` has not completed; and `server.py` calls
`startup()` outside its `try`, so a failed one is never followed by `shutdown()`.

### KeysetPaging

A client lists the scope `Asked` and follows `next_cursor`. `rows` are the committed
rows; the query of a page is one statement and therefore one step. `Remaining` is its
`WHERE`, `IsPage` its `ORDER BY` and `LIMIT`; the row fetched beyond the limit only
tells whether there is a next page. A cursor is the sort key itself: its encoding keeps
the microseconds that the column has. Stamps are taken before the inserting transaction
and by several processes, so a row may appear anywhere in the order, also behind the
client, which is why `NothingMissed` speaks of rows that were there at the first page.
Executions are sorted by `updated_at`, which changes: one that is updated between two
pages may be missed, and one whose update carries an earlier stamp (a cancellation
reads its clock before it waits for the database) may be listed twice. `stable`,
`twice` and `regressed` only record this for the properties.

### AccessPolicy and RequestAccess

`AccessPolicy` is what the bootstrap package decides from settings and a request alone:
the operators named `...Refusal` return the error code of the first check that fails, in
the order of the code, and `Status` is `register_exception_handlers`. A configuration is
reduced to the facts that are decided by; a token to the key that has signed it and the
principal it names; a request to its identities, its idempotency key and one flaw at
most. `blank` is a flaw the schemas let pass and a domain class refuses.

`RequestAccess` has a task for each request. `Receive` is FastAPI's validation, which
comes before authentication. Between the verified token and the store call no `await`
suspends a task, so correlation id, mapping, accessor and authorization are one step
with it (`RefuseRequest`, `Call`); `principal[t]` is the context variable, bound until
`Respond`. A store call is one step: `EpisodeIngest`, `RuntimeStore` and `TemporalStart`
open it up. `FailCall` is a call that raises before or after its transaction has
committed. `Extract` and `Finish` are the pipeline and the orchestrator. Claims are the
episode's, one for each; pages are left to `KeysetPaging`.

`NothingWithoutEntitlement` relates every row and every response to the request behind
it; `CreatedOnce` relates two tasks; `RefusedForCause` says when a 4xx is deserved. The
latter has two exceptions, which the code does not document:

* Every authenticated read of claims is refused. `get_claim` and `list_claims` resolve
  the actor and pass both it and the principal to a mapper that resolves the actor again
  and refuses one next to a principal: 422 `actor_id_not_allowed` (`app.py:204`, `:239`).
  The endpoints of episodes and executions do not pass the principal on. Without OIDC
  claims can be read, in development and test only. `services/README.md:1037` and
  `docs/rfcs/2026-09-08-claim-read-http-api.md:14` describe authenticated claim reads.
* A key endpoint that does not answer makes `PyJWKClient` raise a `PyJWTError`, which is
  answered like a bad signature: 401 `invalid_token`.

Two more facts the model shows without being the subject of a property: a blank field or
a naive `observed_at` of an episode, and a blank `workspace_id` of a query, end in 500
`internal_error` where other bodies end in 422; and in staging and production without
OIDC nobody is authorized at all. `ClaimsUnavailable` has a status but no store that a
server uses raises it.

## Runs and bounds

| Run | Instance | Why it is enough |
|---|---|---|
| `episode_ingest` | 3 calls, 2 tenants, 2 keys with one lock, 2 fingerprints | a winner, a replay and a conflict, next to a call of another key or tenant |
| `pipeline_errors` | 2 episodes, 2 stamps, batches of 2, 2 errors, 1 relay | a failure in the middle of a batch, and one while it is repeated |
| `pipeline_relays` | 2 relays, 1 fault of either kind | both relays hold the same batch |
| `pipeline_interrupt` | 1 episode, 1 interruption | the shortest way to lose a claim |
| `runtime_store` | 3 calls, 2 processes, 1 key, 2 specs, 1 earlier execution | two starts race while a third call cancels; calls of one process and of two |
| `runtime_store_cancels` | 2 calls, 2 processes | two cancellations |
| `temporal_start` | 3 calls, 2 keys, 2 specs, any of 4 kinds of fault | a registrant, a replay that adopts, a replay or retry after both |
| `temporal_start_rollback` | 3 calls, 1 key, 1 spec, refused starts | the same, with one fault |
| `temporal_lifecycle` | 1 cancel call, 3 attempts, 3 faults | exhausting an activity, or leaving attempts of several activities behind |
| `app_lifecycle` | 2 requests, 2 startups, 9 pairs of settings and faults | two objects migrate one schema, requests of the first start live on in the second |
| `keyset_paging` | 4 ids, 2 stamps, 2 scopes, limits 1 and 2 | ties of stamps, three pages, rows before and behind the cursor |
| `request_access` | 2 requests, 2 tenants, subjects and actors, 1 key, 8 configurations of which 3 do not start | one task sends anything (a flaw only where the identities agree), the other creates something well formed: each property relates one row or response to another request |

Bounds of the models themselves: `MaxFaults` in `MemoryPipeline` and
`TemporalLifecycle`, `MaxStarts` in `AppLifecycle`, and the finite sets of calls. Everything else is finite by itself.

Deadlock is not checked where the system may stop: calls end, relays may be down,
workflows close. That nothing waits for ever is what `EveryCallEnds`,
`NoCircularWait` and the other liveness properties say. `RuntimeStore`,
`TemporalStart`, `KeysetPaging` and `RequestAccess` state no fairness.

## Fairness

* `EpisodeIngest`: a call that has begun takes its next step unless the database makes it
  wait; whether it is interrupted is left open.
* `MemoryPipeline`: the relay loop goes on; it is restarted after a fault, since the
  loop ends with the exception and an operator or supervisor starts it again. Recordings
  and faults are not fair.
* `TemporalLifecycle`: the workflow and activity workers make progress. Callers and
  faults are not fair.
* `AppLifecycle`: strong fairness for a request under way and for `shutdown()`, because
  `asyncio.Lock` serves its waiters in order. Starts, shutdowns and new requests are not
  fair.

## Proofs

What TLAPS proves holds for any number of calls, processes, keys, relays, tasks,
attempts, events and faults. With the exceptions named at the end of this section, every
invariant, action property and refinement of a passing run is a theorem. The inductive
invariant of a component stands in its module or at the head of its proofs.

* `EpisodeIngestProofs`: `IInv` is inductive. The tables alone are not enough: that a key
  has one episode follows only with `LockExcludes` (transactions on a key do not
  overlap), `StagedByPhase` (a transaction has written what its phase says) and
  `AbsenceHolds` (what the read under the lock found missing is still missing). From it:
  `AtomicRecording`, `AgreedAnswers`, `NoIntegrityErrors`, and the step simulation
  `ImplementsLedger`. The ledger's steps are few, so more is proved along them:
  `KeysHaveOneRequest` (whoever was acknowledged under a key sent one and the same
  request, and a conflict is met with other fields of a committed episode) and the action
  property `EpisodesStay`.
* `MemoryPipelineProofs`: `PipelineInv` (ids are unique, batches come from the outbox,
  what a relay has dispatched was delivered) gives `AtMostOneProposal` and
  `AtLeastOnceDelivery` for any number of relays and either kind of fault.
  Without interruptions an inbox row means, for any number of relays, that its
  event was processed, or is in the hands of a relay that will process it or remove the row:
  `InboxRows`. `ExtractionInv` adds what a single relay keeps, and gives
  `NoEpisodeDropped`; these conditions are hypotheses of the theorems. `FaultFreeInv`
  is what all relays keep before the first fault: an event whose inbox row is there
  and whose claim is not is at a relay between the two, which is why
  `PublishedInProcess` holds. `ImplementsFeed` maps every step to one of `ClaimFeed` or to none.
* `RuntimeStoreProofs`: `StoreInv` is inductive. Writers of several processes read what
  others are about to overwrite, so the difficulty is what a plan means when it commits.
  `Lives` is the answer for cancellations: all of those of one execution start from one
  first snapshot, so whoever commits later writes the row, and announces the
  transitions, that are there already; `CancelHolds` says that a plan was made from
  that snapshot and that no earlier one came from the same process. `RetriesKnow` (a
  lost race is remembered: the winner's row is in the index and in what the retry loads)
  bounds the tries by two; `ClaimsHold` (a claimed key is in no committed row and in no
  other claim) is the unique index at work. From it: `History`, `Copies` and, step by
  step with `Cancel` or `CancelAgain` for a commit, `ImplementsLedger`.
  `NobodyInACircle` is the argument behind `NoCircularWait` with the guards written out:
  a staged write waits for nobody, a claimed one for a staged one only, a deciding one
  for those, and a lock is waited for while a write of its process is under way; it adds
  that the read after a write always finds its execution. Along the steps of the ledger two
  more results are short: `Agreement`, that whatever a caller was told of the tables stays
  so (`AnswersStand`), hence all callers of one key agree; and `NothingTakenBack`, that no
  step drops a key or an event, or replaces a snapshot but by a later revision
  and from a status that may be cancelled, although the code writes back a
  difference to a state that others have overtaken.
* `TemporalStartProofs`: `StartInv` is inductive. `CallsInOrder` (what a call knows in each
  phase), `RowOfKey` (the index has one row of a key), `Registered` and
  `ConflictsAreReal` are what `OwnSpecs`, `OneExecution` and `RealConflicts` need: an
  answer is for a workflow of the caller's spec whatever fails, and, where registrations
  are not taken back, a key has one execution and a conflict a reason.
  `ReplaysToldTheSame` is the other side of the run `temporal_start_rollback`: with
  `KeyOfExecution` (a call is at work on an execution of its own key), callers of one key
  are told one execution unless a start is refused or lost. `RegistrationsKept` says
  that a row goes only in the rollback of the call that wrote it.
* `TemporalLifecycleProofs`: `LifecycleInv` is inductive. Late attempts hold old
  snapshots and have writes left, so the invariant gives every state a `goal`, the
  snapshot or the result of the activity the workflow waits for or has given up, and
  `Heading(goal)` says that everything anybody holds or has written lies on the one way
  there: `Working` ties an attempt to its writes (what is left of them, and that the
  others are in the outbox), `Reported` ties the projection and the starter's report to
  an announced revision. The goal changes only when the workflow schedules an activity, and
  then the old one was its snapshot, so all earlier work is on the new way too. From it:
  `OnePath`, `Announced`, `CancelFinal`, and the action property `Monotone`, for every
  `MaxAttempts` and `MaxFaults`. `ImplementsHistory` is the simulation of
  `ExecutionHistory`: the announced events are a first part of the way to the goal, so an
  attempt that writes adds the one that follows them, or one that is there.
* `AppLifecycleProofs`: `RuntimeInv` is inductive, in two halves. `FlagsTrue` (a set flag, and
  a user past the migrations, mean a complete schema) concerns the users of the pools,
  `FieldsFollow`, `NothingReplaced` and `CacheFollows` the fields at each await of
  `startup()`: a retried one never finds an orchestrator, and nothing but the memory
  handler is cached before there is one. From it: `Migrated`, `Closed`, `Usable`, for
  every combination of settings and faults, also those the run leaves out.
* `KeysetPagingProofs`: `PagingInv` says that every stable row the client was not given
  is behind its cursor and that no row it was given is, unless it was set back. The
  proofs of a page need that the order is total and transitive, which the tie-break by
  id gives. `OrderedListing`: what a page adds follows what earlier pages gave, but for
  rows that were set back.
* `RequestAccessProofs`: `AccessInv` is inductive. Between a request's checks and its
  effect other tasks write, so it needs `Cleared` (a task at the store has passed every
  check as the principal its context variable holds), `OneRow` (rows of one key are
  one) and `ToldOfRows` (who was told that a create succeeded can find its row, with its own
  subject and actor). From it: `Entitlement`, `Created`, `Refusals`, and of every step, that it
  changes rows of an entitled request's scope only and replaces no row but an open
  execution (`Confinement`). `Claims`: every claim is of an episode of its own tenant
  and subject.

Assumptions of the proofs are the `ASSUME`s of the modules, on constants only; TLC
evaluates them in the runs.

Only model-checked:

* the liveness properties `EveryCallEnds`, `EventuallyPublished`, `EventuallyClaimed`,
  `Settles` and `EveryWaitEnds`: fairness is out of the prover's reach;
* `NoCircularWait`, which says `ENABLED`; `NobodyInACircle` is what can be proved of it;
* the disagreements that the three runs with an expected violation exhibit.

## Not modelled

* The in-memory unit of work and the in-process runtime database: stand-ins for tests,
  which no server composes. Their listings are in `KeysetPaging`.
* The worker's `main`: one task that opens, polls and closes; what it runs is in
  `TemporalLifecycle`.
* Plans and nodes: immutable values validated when they are made; no application code
  builds one yet, so they have no behaviour.
* Event schemas, snapshot codecs and row mappers: conversions of immutable data,
  abstracted by the modules that use them.
* Logging, telemetry and the repository's policy scripts.
* The retention of closed workflows by the Temporal server, and `updated_at`.

## Plan

Every module that models a component has its proofs, and every abstract specification
the simulation by its detailed one. When plans are used by application code, `PlanDag`:
the cycle check against reachability.
