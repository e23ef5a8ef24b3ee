# Glyphflow in TLA+

A model of Glyphflow's control plane and its workers: how runs are created,
dispatched to runners, executed, reported on, retried, cancelled and
reconciled, and the services around them: schedules, the fleet, queues and dead
letters, leases, tasks and secrets, accounts and sessions, the audited API,
retention. Paths are relative to `src/backend/internal/` unless they start with
`cmd/`, `docs/` or `README.md`; the lines each definition models are in
`PROJECT.json`.

## The system

Glyphflow runs tasks on enrolled machines. One control-plane process (replicas
are unsupported) keeps everything in a SQL database; workers keep a local
SQLite file. They talk over NATS JetStream, at least once in each direction.

| Part | State | Operations | Talks to | What is hard |
|---|---|---|---|---|
| Run store (`store/runs.go`) | runs, execution_attempts, runners.active_count, resource_leases, dispatch_outbox, event_inbox | create, claim, start claim, apply event, cancel, retry, two reconcile passes | dispatcher, start-claim server, HTTP handlers, scheduler | seven paths end an attempt and race; late and repeated events; deadlines |
| Dispatcher (`controlplane/dispatcher.go`) | none of its own | every 500 ms: claim waiting, claim cancelling, reconcile, publish outbox; consume events | run store, queue | a crash between publish and mark; order of passes |
| Start-claim server (`controlplane/start_claim.go`) | none | grant or refuse a start | run store, worker | a claim racing the start deadline |
| Schedules (`store/schedules.go`, `controlplane/schedule_runner.go`) | schedules, schedule_versions, the runs they create | create, update, enable, delete, poll | run store, HTTP handlers | catch-up after outages, overlap decided from moving runs, edits during a poll |
| Projection (`controlplane/projection.go`, `projection_service.go`) | a snapshot in memory | refresh, check a schedule | schedules, tasks | a check that is used later; refreshes in any order |
| Runner fleet (`store/runners.go`, `controlplane/heartbeat.go`) | runners, pools, sessions, keys, enrollments | enroll, heartbeat, drain, revoke, archive | run store (placement), worker | archive or re-enrollment with messages in flight |
| Worker (`worker/runtime.go`, `worker/store.go`, `worker/worker.go`) | order inbox, event outbox, boot id, processes, output buffers | accept, start, output, finish, cancel, recover | queue, start-claim server | crash and restart between any two steps |
| Queue and dead letters (`queue/nats.go`, `store/dead_letters.go`) | streams, consumers, dead letters | publish, deliver, ack, nak, dead-letter, retry, reconcile | all | redelivery, duplicates, retries that race |
| Resource leases API (`store/resources.go`) | resources, resource_leases | acquire, release, create, delete | shares rows with the run store | two writers of one row |
| Tasks, variables, secrets (`store/tasks.go`, `variables.go`, `secrets.go`) | versions, references, encrypted values | create, version, rename, delete | scheduler, secret delivery | checks in one transaction, writes in another |
| Secret delivery (`controlplane/secrets.go`) | none | authorize, read, reply | run store, worker | secrets that change while they are read |
| Accounts and roles (`api/auth_service.go`, `platform/admin.go`) | users, role_assignments, identities; the administrator guard in memory | register, grant, revoke, disable, SSO login | sessions | a copy in memory of what the tables say |
| Settings, providers, roles (`api/auth_admin.go`, `roles.go`) | config, sso_providers, roles; a copy in memory | change, delete | accounts | two writes per change, restarts |
| Sessions (`store/sessions.go`, `sso_state.go`) | auth_sessions, sso_authorization_states | login, refresh, logout, revoke | accounts | replayed and concurrent refreshes |
| HTTP API (`api/api.go`, `audit.go`) | lockdown switch, audit_events | gate, authorize, audit, handle | all stores | audit around a handler, failing appends |
| Storage (`platform/storage.go`, `store/retention.go`) | monitor state, legal holds | observe, admit, purge, critical cleanup | run store | stale readings, rows put on hold late |
| Protocol, configuration, metrics, user interfaces | - | - | - | sequential |

What makes each correct: *run store* - one live attempt per run, slots and
leases accounted exactly, history never rewritten, nothing in flight for ever;
*schedules* - each occurrence at most once, none lost that the policy keeps, no
flood, no starvation; *worker* - every accepted order ends in one reported
outcome across restarts, output complete below its limit; *queue* - a message
is applied or dead-lettered, never silently lost; *fleet* - only the key that
is bound now speaks for a runner, an archived one has no authority; *leases* -
one holder, fresh tokens; *tasks* - what a version names exists; *accounts* -
an administrator remains; *sessions* - a token is used once and revocation is
final; *API* - no change without its audit event, lockdown holds; *storage* -
nothing is deleted that may not be, an emergency lasts.

## Modules

### RunStore

One action per transaction of the run store. State: `run` and `att` (the two
tables; `att[r]` is in `attempt_number` order), `activeCount`, `leases` (ACTIVE
rows), `fence` (`next_fencing_token`), `fleet` (what placement and signature
checks read of a runner). The outbox row of an attempt is its `execute` and
`cancel` fields. `event_inbox` is subsumed by the sequence test of
`ApplyRunEvent`, since an id in the inbox has a sequence already applied.

Timestamps are only compared with the clock, so the model keeps the time left
of each; `Tick` lowers all and 0 means passed. Timers nothing reads again are
set to 0 (`SettledRow`, `LeaveFlight`), which identifies states the code cannot
tell apart.

| Action | Code |
|---|---|
| `Create`, `Retry`, `RequestCancellation` | HTTP handlers and `TaskStore.Delete` |
| `ClaimWaiting`, `ClaimCancelling`, `PublishExecute`, `PublishCancel` | dispatcher passes |
| `ReconcileTimedOutDispatches`, `ReconcileStaleCancellations` | one row of each reconcile batch |
| `ClaimStart` | start-claim server |
| `EventAccepted` ... `EventUnknown` | `ApplyRunEvent` by event type |
| `ScheduleReplacement` | the REPLACE branch of `createDueRun`, one row |
| `Archive`, `SetReady` | runner store |

Runners are not trusted to be orderly: any event with any of its sequence
numbers may arrive at any time and any number of times.

Abstracted: which exit codes are retryable (`retryable` is either), placement
by pool and capability (`ready`), log chunks and metrics, batches (one row per
step: the rows of a batch do not depend on each other). The `Transition` method
is not modelled: the store implements the two interfaces the handler tries
first. The operator's lease API is in Leases, the fleet in Fleet.

### Execution, RunStoreRefinement

`Execution` is the promise of the run store without tables, messages, timers
or cancellation: a run is new, queued, executing in one place, failed or final.
`Submit`, `Begin`, `End`, `Withdraw` and `Resume` say that it executes in one
place at a time, at most `MaxAttempts` times, within the runner's capacity, and
that only a failed run is taken up again. `RunStoreRefinement` maps the tables
to it: a run executes while its newest attempt is active, whatever the state in
its own row. The property `ImplementsExecution` (run_store) says that each of
the run store's transactions is a step of `Execution` or none.

### Schedule

State: `now`, `sched` (row and current version), `runs` (created by each
schedule), `edit` (a next fire computed by an HTTP handler and not yet stored),
`poll` (clock reading, transactions left) and `panicked`.

Time is counted in occurrences: `NextFire(k) = k + 1` stands for the cron
search, whose only property used is that it returns a later occurrence.
`CreateDueRun(s)` is the whole transaction: order by next fire, the query's
exclusions, SKIP, REPLACE, `chooseDueOccurrence`, the insert with its
idempotency key and the next-fire update. `Missed` follows the code as it is:
the loop body declares a second `current`, so the list is the first occurrence
followed by copies of the second.

`RunMoves` is what RunStore does to a run's state, the four settled states
merged in CLOSED. The branch for a NULL `next_fire_at` is left out: every
writer of that column stores a value. FAIL_AND_ALERT only discards, like
SKIP_ALL; the editor's "mark the missed schedule as failed" has no state in
the code to compare with.

### Worker

One worker process and its SQLite file. Durable state: `inbox` (order_inbox:
state and executor boot), `outbox` (event_outbox, state channel), `savedBoot`
(the row worker.boot). Volatile: `mode`, `boot`, `pc` (the next step of the
handler of each delivery), `active` and `cancelled` (ActiveOrders), `exit`. The
environment is `msg` and `cancel` (the two JetStream messages of an order) and
`sent` (events that reached the stream); `starts` counts processes started.

`handleExecution` is one action per durable write, because the process may die
between any two: `StartReply` (verification, secrets, start claim),
`AcceptOrder`, `ClaimOrder`, `PersistAccepted`, `MarkProcessStarted`,
`PersistStarted`, `StartProcess`, `ProcessExits`, `PersistTerminal`,
`FinishOrder`. `StoreFails` and `ClaimOrderFails` are the error returns, the
second one because the code takes a failed claim for a duplicate. `TakeCancel`
is the cancel branch of `Handle`. `Publish` is one iteration of
`PublishPendingEvents`; `CompactPublishedEvents`, its last statement, is an
action of its own because its cutoff is a day: it deletes any published row
that the statement may delete, at any later time. `Stop` and `Stopped` are the
orderly end (context cancelled, handlers waited for), `Crash` any other, and
`Boot` recovery and the saving of the boot id.

Deliveries are numbered; a redelivery may come while an earlier handler runs
(keep-alives are best effort), and both need one of the `Capacity` slots.
Abstracted: log chunks (no decision reads them; a failing chunk write is an
exit with "failed"), capacity updates, signatures. An event published twice,
after a crash between publish and mark, is the same member of `sent`.

### Access: Accounts, SignIn, Sessions, Gateway, Storage

| Module | State | Actions |
|---|---|---|
| Accounts | `status`, `assigned`, `identity`, `mapping` (tables); `up`, `sysAdmins`, `guard` (memory); `job` (the request a handler is in) | `StartAccounts` with `EnsureBootstrap`, `Register`/`Provision`/`AddAdministrator`, `GrantRole`/`AssignRole`, `RevokeRole`/`UnassignRole`, `DisableUser`/`DisableAccount`, `ApproveUser`..., `LoginOIDC`/`AdmitOIDC`/`SyncOIDC`, `LinkOIDC`, `UnlinkOIDC`, `CrashAccounts` |
| SignIn | `stored` and `settings` (table and memory), `provider`, `roles`, `change` | check, `StoreSettings`, `ApplySettings`; `SaveProviderRow`, `SaveProviderMap`; `CreateRole`, `DeleteRole`; stop and start |
| Sessions | `session`, `challenge`, `call` (a transaction with its row lock) | `PasswordLogin`, `OIDCCallback`/`OIDCExchange`, `IssueTokens`, `Refresh`/`Rotate`/`RotateReplay`, `RevokeSession`, `RevokeUser`/`Sweep`, `DeleteOlderThan` |
| Gateway | `lockdown` (table and memory), `entity`, `inBody` (the row's name is in the body), `hit`, `trail`, `live` | `PassLockdown`, `Deny`, `AuditBefore`, `RecordAccepted`, `Handle` or `StoreLockdown`/`SetLockdownScheduler`, `RecordCompleted`; `ReserveLiveLog`, `AppendLiveLog`; restart |
| Storage | `free`, `monitor`, `admission`, `record`, `cleanup` | `ReadSize`, `EnsureStorageAvailable`; `StartPurge`, `CommitPurge`, `ReadPressure`, `JudgePressure`, `JudgeFree`, `CommitBatch`, `CleanupFails` |

A request is a handler that takes one statement, transaction or locked section
of its method at a time. What a handler read earlier is part of its record, and
what it does later uses that, stale or not. The database is at READ COMMITTED:
an `UPDATE` of many rows works on the rows that exist when it starts and waits
for locked ones (`Sweep`), and two that wait for each other end with one of
them aborted (`SweepDeadlock`).

History variables (`drift`, `clash`, `burned`, `crossed`, `late`, and their like
below) say only that one of the races occurred in which the code keeps less; a
property with such a condition states precisely what is needed for the
guarantee. `drift`, for instance, is set when two requests work on one account,
or when SSO claims, the spelling of a role or a changed configuration make the
guard and the tables disagree, or when the sessions of an account being disabled
cannot be revoked (`LogoutAllFails`), which the code does not prevent
(*Findings*).

In Gateway a read for the audit may fail (`FoundBefore`, `FoundAfter`), a
handler may change its row and still answer with an error, and a row named in
the request's body, as a provider is, is not found again after the handler has
consumed the body.

### Estate: Fleet, RunnerPools, Capacity, Leases, DeadLetters, Catalog, SecretDelivery, Projection, RunLogs

| Module | State | Actions |
|---|---|---|
| Fleet | `runner`, `token`, `key`, `boots` (worker starts with their sessions), `machine` (local store), `beats`, `verified` | `CreateEnrollment`, `Download`, `SendEnrollment` (with `ConsumeEnrollment`), `SaveSigningKey`, `SaveConnection`, `StartWorker`, `Beat`, `VerifyBeat`, `RecordBeat`, `MarkStale`, `SetDesiredState`, `Archive` |
| RunnerPools | `pool`, `member`, `workload` and what is under way | `CheckRunners`, `CheckTasks`, `DeletePool`; `FindPool`, `JoinPool`; `NamePool`, `InsertVersion`; `UpdatePool` |
| Capacity | `stored`, `control` (stream), `size`, `slots`, `busy`, `executing` | `UpdateCapacity`, `PublishRunnerCapacity`, `ApplyRunnerControl`, `StartRunner`, `PlaceOrder`, `TakeSlot`, `FinishOrder`, `LoseOrder` |
| Leases | `fencing`, `lease`, `claim` (the dispatcher's transaction), `client` | `PickRun`, `ExpireLease`, `TakeToken`, `CommitClaim`, `RollbackClaim`, `FinishAttempt`; `LockResource`, `AcquireLease`, `ReleaseLease`; resources created and deleted |
| DeadLetters | `message`, `letter`, `retry` | `Deliver`, `HandlerSucceeds`, `HandlerFailsEarly`/`Last`/`WithoutSink`, `LoseDelivery`; `BeginRetry`, `PublishRetry`, `MarkRetryPublished`/`Failed`, `DropRetry`, `Reconcile` |
| Catalog | `task` (versions with references), `variable`, `named` (secrets), `edit` | create and version in two steps, rename and delete of variables, secrets and tasks |
| SecretDelivery | `secret` (stored value and integrity status), `fetch`, `upsert`, `found` (records read and not yet marked) | `Upsert`, `FindUpserted`, `ValidateStoredSecret`, `DropSecret`, `Spoil`; `FetchSecrets`, `AuthorizeSecretRequest`, `FindSecret`, `ReadSecret`, `DecryptSecret`, `SecretResponse`, `FetchTimeout` |
| Projection | `plan`, `job`, `snapshot`, `mutex`, `planner` | `ReadTask`, `CheckSchedule`, `WriteSchedule`, `SetScheduleEnabled`, `DeleteSchedule`, `NewTaskVersion`, `Refresh`, `SetSnapshot`, `RefreshFailed` |
| RunLogs | `exec` (pipe, buffers, counters), `outbox`, `inFlight`, `chunk`, `reader` | `WriteOutput`, `ReceivePiece`, `FlushTick`, `ProcessExits`, `FinishExecution`, `LoseExecutor`; `PublishLogEvent`, `ApplyLogEvent`, `GiveUpLogEvent`; `ReadLogs` |

`Leases` opens up what RunStore takes in one step: the statements of
`ClaimWaiting` interleave with the operator's API under the row locks and the
unique index of the schema. `Projection` contains the sweep over event times as
an operator (`ConflictsForResource`) and compares it with the definition of an
overlap (`SweepIsExact`). `RunLogs` names each byte by its stream and place, so
that loss, repetition and reordering are visible, and gives it a kind (`Text`):
plain, NUL, or part of a character of two bytes. A piece of output becomes a
JSON string, in which a byte outside a whole character is replaced
(`LostBytes`); PostgreSQL refuses NUL in jsonb and in `convert_from`, SQLite
does not (`Postgres`). In `Projection` a handler reads the task, checks under
the mutex, writes, reads back and refreshes in steps of their own, and the read
back may fail after the commit (`HandlerGoesOn`). In `SecretDelivery` every
reader, a request that validates what it stored and the server that delivers,
holds the record it read until it marks the row, and values are replaced,
deleted and damaged (`Spoil`) in between; the server takes one request after
the other, since one NATS subscription calls its handler in turn.

The parts of one MC module share no variable. Where one reads what another
writes, it allows for every value at any time (a login is admitted at any time
in Sessions; approval may be required or not in Accounts), which is more than
the other part does. So a behaviour of the composition is checked by letting
each behaviour follow one part: `part` is chosen in the initial state and a step
of another part would change nothing the properties of this one mention.
`projection` and `sweep` are two instances of Projection: overlapping requests
with one pattern of fire times, and two patterns with one request at a time.

### Proof modules

`RunStoreProofs`, `ExecutionProofs` (the refinement), `WorkerProofs`,
`ScheduleProofs`, `AccessProofs` (the five modules of *access* and `MCAccess`),
`EstateProofs` (Capacity, RunnerPools, SecretDelivery, Catalog, Leases),
`ProjectionProofs` and `FleetProofs` (DeadLetters, Fleet, RunLogs, and
`MCEstate` with the theorems of the two before). See *Proofs*.

## Runs

| Run | Instance | Shows |
|---|---|---|
| run_store | 2 runs needing one resource, 1 runner with 2 slots, 1 attempt each | slots and leases when two runs compete; every step implements Execution |
| run_retry | 1 run, 2 attempts, 2 runners, deadline passed or long, fairness | one live attempt, frozen history, attempt limit and final states across retry, archive, late events; every run in flight settles with silent runners |
| run_replace | 1 run with a REPLACE schedule | *violation*: a queued run is left CANCELLING for good |
| schedule | 1 schedule, 48 policy combinations, 4 occurrences, 2 versions | once per occurrence, none lost, missed ones discarded where the policy says so, bounded backlog, also across edits that overlap a poll |
| schedule_live | 2 schedules, 2 transactions per poll, fairness | no starvation by other schedules, budget or failing polls |
| schedule_skip | 1 schedule, SKIP | *violation*: a run is created while another one is active (dispatched) |
| schedule_limit_one | 1 schedule, RUN_UP_TO_N with limit 1 | *violation*: the scheduler panics |
| worker | 1 order, 2 deliveries, 3 process starts, failing writes | executed at most once, fresh sequence numbers, no closed order without outcome, the saved boot recovered |
| worker_live | 1 order, 1 slot, 2 deliveries, 1 restart, fairness | a claimed order gets an outcome in the stream; a cancel order is handled; an orderly stop leaves no order open |
| worker_third_boot | 1 order, 3 process starts | *violation*: an order of the second process is never recovered |
| access | see below | `AdministratorsRemain`, `SignInWorks`, `TokensHold`, `RequestsAccountable`, `StorageGuarded` |
| estate | see below | `KeysDecide`, `DeletedPoolsUnused`, `CapacityAgrees`, `LeasesHold`, `LettersAccounted`, `VersionsResolve`, `SecretsSound`, `ConflictsFound`, `OutputComplete` |

The properties of *access* and *estate* are conjunctions of named parts, one
per module, each part stated in a comment of the module:

| Property | Parts |
|---|---|
| `AdministratorsRemain` | the guard counts real administrators only; one administrator remains; a configured system administrator keeps the role and the account |
| `SignInWorks` | a login method remains, in the tables and in memory; a restart brings back no replaced setting; mapped roles exist |
| `TokensHold` | a refresh token is exchanged once and a family has one live session; a replay ends its family; an SSO state admits one session; revoked stays revoked |
| `RequestsAccountable` | no change without its audit event; the versions recorded are those the request found and made, both of them where the row is named in the path and could be read; a failed append silences nothing; a stored lockdown lets no write in |
| `StorageGuarded` | no admission between 5 % and a reading above 10 %; only settled, old, unheld rows are deleted, early only in a critical cleanup |
| `KeysDecide` | ONLINE means one connected start with the bound key; archived and revoked runners do not come back; only the bound key connects |
| `LeasesHold` | one ACTIVE lease per resource, with the newest token; tokens are not handed out twice; an unexpired lease is not taken over |
| `LettersAccounted` | a message whose deliveries are used up has a letter, or a notice where the consumer has no sink; it is put back once per claim; one marked published was published; a closed one stays closed |
| `VersionsResolve` | every `$ENV:` name of a version is protected by its reference; the secrets of the newest version exist |
| `SecretsSound` | the values of all secrets or of none; no status for a deleted secret; a status is that of the stored value, unless the value was replaced between being read and marked, or damaged since |
| `ConflictsFound` | the sweep is exact; the snapshot is current unless a handler or a refresh failed after a write; one-at-a-time changes admit no conflict |
| `OutputComplete` | nothing below the limit is lost; JSON replaces bytes of UTF-8 output only in characters that were cut; consecutive chunks continue each other; the limit cuts exactly; a reader misses nothing |

Bounds. Two runs are enough for every pairwise conflict over slots and leases;
two attempts for every confusion of an old attempt with a new one; delays of 0
to 3 ticks order every pair of deadlines both ways (start deadline before and
after the lease, the stale limit and the cancellation delay). For schedules
four occurrences allow an outage of three, which reaches each branch of
`chooseDueOccurrence` twice; MissedLimit 4 puts limits 1, 2 and 4 on both sides
of it; a poll budget of 2 lets the budget end a poll with work left. For the
worker two deliveries make every race between handlers of one order, three
process starts every relation of an order's boot to the saved and the current
one; a process does not die in its last boot, so the end of the last recovery is
reached.

*access*: two accounts (one may be the bootstrap account, one a configured
system administrator) and two requests at once, so that two can each remove one
of two administrators; three sessions, the least in which a used token, its
successor and one more are there; three requests at the gateway, one of them a
write, which so meets two setting changes; free space of 4, 8 and 30 %, on both sides of
the 5, 10 and 15 % limits; a run and an audit event under retention.
*estate*: one runner with two machines, two tokens and two boots (an old key and
its replacement); two pools; three capacity updates of which two overlap; two
resources and two attempts (lock order); a message to the control plane or to a
worker, two deliveries, three attempts of a retry and two administrators, where
a letter's copy is not retried again; two versions of a task with two variables
and two secrets; two secrets, two orders and one administrator who stores values again and again; two schedules of two
resources in a window of four; four bytes of output in characters of one and
two bytes with a NUL among them, a limit of three, chunks of two, so that a
chunk, a flush and the limit each cut a character.

Symmetry. In *access* the two handlers (accounts, sessions, gateway), in
*estate* the values `k1`, `k2` and `n1`, `n2` (updates, pools, copies, orders,
schedules and the like) are interchangeable: no definition names them. These
runs check only invariants and action properties, for which TLC's symmetry
reduction is sound.

Deadlock is checked in the runs of RunStore and Schedule. In the others an
instance ends when its deliveries, restarts, tokens or requests are used up,
and in *access* a start that finds no default role ends the process.

Fairness. RunStore: time passes and each reconcile pass reaches a row that
stays due, because the dispatcher loop runs them on every tick and is restarted
when it fails. Nothing is assumed of runners or operators. Schedule: polls
start and end, and creation is strongly fair, which says that not every poll
fails (storage pressure and database errors are transient). Nothing is assumed
of runs, so `CatchesUp` allows a schedule to be blocked by its own work. Worker:
it is started again when down, handlers, the publisher and the start-claim
request go on (each has a timeout), and a queued cancel order is strongly fair:
slots are a Go channel, which serves waiting senders in order. worker_live
allows one restart and no failing write, since the third start and a failed
write do leave orders open (worker_third_boot, and the note on
`worker/runtime.go:213`). The services of *access* and *estate* promise nothing
in time that an administrator does not ask for, so only safety is stated there.

## Proofs

`RunStoreProofs` proves, for any sets of runs, runners and resources and any
limits and delays satisfying the named assumptions, everything the run_store
and run_retry runs check, the refinement (below) and `RunsSettle` apart: `TypeCorrect`, `OneActiveAttempt`,
`FlightHasAttempt`, `AttemptsWithinLimit`, `ExclusiveLeases`, `SlotsExact`,
`HistoryNeverRewritten` and `ClosedRunsFinal`. `OnlyReplaceStrands` is the
other side of run_replace: where no schedule replaces its runs, a CANCELLING run
always has an attempt that can end it.

The inductive invariant is `TypeOK /\ Coherent`. `Coherent` says for each run
how its state and its attempts go together: only the last attempt may be
active, and it is active exactly in the in-flight states (up to the REPLACE
exception), the attempt count is within the limit, and a queued run has one
left. Each property alone is not inductive: that a timeout leaves no live
attempt needs that there was only one, which needs that a claim found none,
which needs that queued runs have none. `StepKinds` classifies each step per
run as quiet, settling or claiming; leases and slots are then proved from the
classification rather than from twenty actions, slots by the cardinality of
the set of runs active on a runner, which a step changes by at most one member.

`ExecutionProofs` proves `RunStoreImplementsExecution`, the refinement, from
the same assumptions. Two classifications of a step meet there: `StepKinds`
says what it does to the attempts, `RunMoves` what it does to the states of the
runs (opened or withdrawn while the attempts stay as they are, or carried by an
active attempt). Creating and resuming map to `Submit` and `Resume`, a
cancellation or an archival to one `Withdraw` of every queued run it cancels, a
settled attempt to `End`, a dispatch to `Begin`, everything else to a stutter.
`Begin` is where the invariants are needed: `SlotsAccounted` turns
`active_count` into the number of runs executing on the runner, and `Coherent`
gives a WAITING run, whose attempts the claim does not count, an empty history.

`WorkerProofs` proves, for any sets of orders and any capacity, number of
deliveries and of restarts, with and without failing writes, what the worker
run checks: `WorkerTypeCorrect`, `AtMostOneStart`, `FreshSequences`,
`OutcomeBeforeClose` and `SavedBootClosed`.

Its inductive invariant adds three parts to the properties. `Handlers`: at most
one handler owns an order (is past `ClaimOrder`), the order is then open and
claimed by the current boot, and no process was started before `StartProcess`.
`Boots`: boot ids grow and no inbox row names a later one. `Books`: the number
of an event follows from its kind, the outbox keeps the newest event of each
order whatever was published and compacted, and an owner has an outcome on
record exactly when it is about to close. `SequencesFresh` needs the second
clause of `Books` (`MAX(channel_sequence) + 1` is computed from the outbox
alone), `ClosedIsReported` the third, and both need the single owner. Recovery
and the handlers never work on the same order, because handlers end with their
process. Steps of an owner are proved once (`OwnerStep`, `OwnerQuiet`,
`OwnerRecords`) and instantiated for each of them.

`StopsClean` adds, for a store that takes every write (`~StoreMayFail`, the
condition of worker_live), that an orderly stop leaves no order open. It needs
that every order the process has open is in the hands of a handler
(`OpenHandled`) and that a delivery still to come has none (`NotYetDelivered`).

`ScheduleProofs` proves what the schedule run checks, for any schedules,
definitions, edits, poll budget and missed limit: `TypeCorrect`,
`OccurrencesRunOnce`, `RunAllLosesNone`, `MissedAreDiscarded`,
`BacklogBounded`. Every step is classified per schedule (`StepOf`: kept, version
saved, removed, skipped, a run moved, or a trigger fired), and
`chooseDueOccurrence` is reduced to one fact: it runs the due occurrence, the
one after it or none, and the due one if it is the newest or the policy runs
all. The inductive part, `Coherent`, is that a poll's clock reading is not ahead
of the clock (without it a trigger could pass over the newest occurrence) and
that no run is of a version still to be saved (without it an edit could inherit
a backlog). `OnlyLimitOnePanics` is the other side of schedule_limit_one: if no
definition has RUN_UP_TO_N with a limit of 1, the scheduler never panics.

`ProjectionProofs` proves `ConflictsAlwaysFound`, all three parts of
`ConflictsFound`, for any schedules, tasks, resources and requests.

- The sweep is a recursive function over the times. That such a function exists
  (`SweepExists`) and what it has after each time (`SweepSound`) are proved by
  induction in a form the provers take: `AllNumbers` says that a set of numbers
  with 0 and every successor is all of them, and follows from a least
  counterexample (`LeastNumber`, from the library's WFMin). `SweepSound` says
  that the active occurrences are those under way, that every time in a conflict
  is busy and each of its occurrences overlaps another, that a busy time so far
  is covered by a conflict with all that is under way then, and that the open
  conflict ends at the next event. The last part is what makes an extension
  sound: without it a conflict could be drawn across a time that is not busy.
  At the last event nothing is open, which gives `SweepExact`.
- The snapshot: whatever was written after a refresh read the schedules has a
  handler that will refresh again (`RefreshOwed`), unless that handler failed to
  read back what it wrote (`skipped`).
- Admission: unless something went unchecked there is one writer at most, and
  the schedules are clear with its candidate in place of the schedule it writes
  (`Admitted`). The check looks only at conflicts that the candidate takes part
  in; `CandidateClear` shows that this is enough when the others were clear.
  The history variable `unchecked` is raised by exactly the three things that
  break the argument: two handlers between check and write, a task version
  saved after a handler has read the task, a disabled schedule enabled again.

`EstateProofs`. `CapacitySettles` follows an undisturbed change (`ChangeOnItsWay`:
not begun, written and not published, or alone in the stream).
`DeletionsSpareUsedPools` states what each of the three statements of a deletion
has established (`PoolGuarded`). `SecretsAreSound` accounts for every secret of
an order while it is read (`RowWhole`) and uses that a record nobody overtook is
the one that is stored (`ReadAsStored`). `VersionsAlwaysResolve` extends the property
to versions that are not committed (`ReferencesHeld`) and says what a request
keeps true of the secrets it was checked against, with one open transaction per
task (`EditsSound`). `LeasesAreSafe` describes each step by what becomes of each
lease and which leases are new (`LeasesChange`); the inductive part,
`ClaimsCurrent`, says that what the dispatcher's open transaction and the API
requests have read under their row locks is still so.

`FleetProofs`. `LettersAreAccounted`: a letter is put back by the request that
holds its newest claim, one request at a time (`LettersOnRecord`). As the code is,
only the claim that opened it has a payload. `KeysAlwaysDecide`:
`RunnerSound` for each runner, with what tokens and machines refer to
(`FleetKept`). `OutputAlwaysComplete`, the longest of them: the invariant
`LogsSound` asserts two witnesses, B, which counts the bytes in the first n log
events of each stream, and L, which counts the bytes written up to each piece in
the channel. Relative to them the executor is sound (`ExecSound`: events, buffer,
channel and output follow each other byte by byte until it stops), and so are the
tables (`TablesSound`: an event and a row hold exactly their stretch, every
number in use is that of an event or of a row, no accepted byte is lost without
a failed write, events leave in the order of their numbers, rows applied in order
have no gaps). The arithmetic of cutting a buffer into chunks is `PartsCover`; that
JSON loses only what a cut separated is `LostArePlaces` and `CutsLose`.
`EstateTypeCorrect` combines the type theorems of the nine parts: every behaviour
of `MCEstate` is one of each part (`EstateParts`).

`AccessProofs`. `StorageIsGuarded`: an emergency is in the monitor's memory and
rows a statement has chosen stay deletable but for a later hold
(`PressureKept`). `SignInAlwaysWorks`: without an overlap what a pending change
was checked against still holds (`ChangesSound`). `TokensAlwaysHold`: rows only
fade (`Fades`) or join with a fresh number, a live row has no successor
(`RowsSound`), and SSO states in use are consumed (`StatesSpent`).
`RequestsAreAccountable`: events come in their order, the version of the row
counts the writes and a request knows the one it made (`HitSound`, `RequestsSound`), the setting and its copy agree
unless one change is between its writes (`LockdownSound`).
`AdministratorsAlwaysRemain`: what a request relies on in any case (`JobSafe`)
and while it has its account for itself (`JobSure`). `AccessTypeCorrect` combines
the type theorems.

Assumptions beyond finiteness and sizes above zero, each named in its module and
evaluated by TLC: a run's task takes time (`JobChoices` of Projection; the
projection refuses a duration that is not positive), the definitions a request carries are
definitions (`TaskDefinitionsAssumption` of Catalog), the requests at the
gateway are a finite set (`HitsAssumption`; the version of a row counts writes),
the cleanup has a round (`MaxRounds` of Storage).

Only model-checked: `RunsSettle`, `CatchesUp`, `OutcomeSent` and
`CancelHandled` (liveness, out of the prover's reach).

## Findings

With a run and a quoted line each, in `PROJECT.json`: REPLACE leaves a queued
run CANCELLING for good; DISPATCHED runs are not counted as active; catch-up
limit 1 panics; the worker keeps the boot id of its first process and recovers
nothing of later ones.

Without a run of their own, five more places where the code does not do what a
document says. The models take the code's steps, and each property named asks
for no more than the code keeps, as its comment says:

| Code | Document | In the model |
|---|---|---|
| The loop over missed occurrences declares a second `current` (`store/schedules.go:414`), so RUN_LATEST runs the second of three or more | "RUN_LATEST: run only the latest missed occurrence." (`src/frontend/src/schedule-pages.tsx:41`) | `Missed`; `MissedDiscarded` |
| `DisableUser` stores the state and then revokes the sessions; when that fails, `AdministratorGuard.Remove` (`platform/admin.go:41`) keeps the disabled account counted, and the last administrator may go | "The administrator guard prevents removing the last administrator" (`docs/ADMIN-GUIDE.md:155`) | `LogoutAllFails`; `LastAdministratorStays` |
| `auditBeforeProvider` (`api/api.go:746`) reads the body again, which the handler has consumed, so a provider's update is recorded without the values after it | "before/after values for write operations" (`CHANGELOG.md:96`) | `inBody`, `FoundAfter`; `SnapshotsFit` |
| `BeginRetry` decrypts the payload only of a letter that is OPEN (`store/dead_letters.go:212`); later attempts have nothing to publish | "at most 10 attempts" (`docs/DEV-PROFILE.md:21`) | `CarriesPayload`; `OneCopyPerClaim` |
| An integrity status is written by id for the record read before (`controlplane/secret_delivery.go:70`), so a value replaced in between may be marked failed although it decrypts | "Integrity failed means the stored ciphertext could not be authenticated/decrypted" (`docs/ADMIN-GUIDE.md:113`) | `DecryptSecret`; `StatusTellsStored` |

Met while modelling, in the models as the code has them (a history variable
exempts the race where a property would otherwise fail), without a run of their
own:

- *Schedules.* The shadowed `current` (`store/schedules.go:414`) makes
  RUN_UP_TO_N, too, run other occurrences than the editor says; REPLACE
  with a discarding misfire policy cancels the active run and creates none
  (`store/schedules.go:361`); an update of a schedule enables it again.
- *Worker.* A cancel order handled before the process is registered
  (`worker/runtime.go:140`) is acknowledged and the process runs; a failed write
  in `ClaimOrder` drops the order (`worker/runtime.go:213`).
- *Accounts.* The guard keeps counting an administrator who lost the role
  through SSO claims or a changed group mapping, and two requests for one
  account can leave it wrong until the next start; the default role can be
  deleted, after which the control plane does not start.
- *SignIn.* Two changes at once, one turning passwords off and one disabling the
  provider, can leave no login method.
- *Gateway.* Lockdown guards the HTTP API only: scheduler and dispatcher never
  read it (`api/api.go:416`), while `docs/OPERATIONS-RUNBOOK.md:46` speaks of
  "scheduler lockdown"; a write past the gate still executes; overlapping
  changes of the setting leave memory and table different
  (`api/auth_service.go:239`).
- *Fleet.* Placement goes by the fresh session, not by observed_state or the
  pool's state; a redelivered heartbeat of an older boot takes the session back
  for a while; a stop between consuming a token and saving the connection
  strands the machine (`cmd/worker/run.go:107`). A pool deleted during an
  enrollment or while a version names it is used although deleted.
- *Capacity.* Raising it never gives the running worker more slots
  (`cmd/worker/run.go:230`); overlapping updates may be published in the other
  order; a failed publish leaves only the row changed; a restart falls back to
  the enrolled number until the next command.
- *Leases.* Dispatcher and API lock in different orders, so one may be aborted.
- *Dead letters.* The consumers of a worker have no sink (`queue/nats.go:336`),
  so an order whose deliveries are used up leaves a notice and no letter; a
  letter discarded between `BeginRetry` and the publish is still published; a
  sink that fails on the last delivery loses the message.
- *Catalog.* A rename can miss a version being inserted; a secret can be deleted
  between the check and the commit of a version that names it, and deletion
  looks at current versions only; an empty resource list is taken as "inherit"
  (`api/operations.go:172`).
- *Projection.* Two schedules checked at once are both admitted, and enabling
  one is not checked (`README.md:49`); a failed refresh, or a handler that cannot
  read back the row it wrote (`store/schedules.go:194`), leaves the snapshot old
  for up to half an hour; a version saved between the read of a task and the
  check (`api/operations.go:258`) is checked as it was.
- *Storage.* A restart forgets an emergency; the size is read before the mutex
  is taken; a hold set after rows were chosen does not keep them.
- *Run logs.* Sequences start again with each attempt, so a reader that goes on
  after N misses the second attempt's first N chunks; a chunk stored after a
  higher one was read is missed; beyond the read limit the whole log is refused.
  A character cut by a chunk, a flush or the limit loses its bytes
  (`worker/runtime.go:261`, `protocol/binary_codec.go:18`). With PostgreSQL a NUL
  byte makes every later read of its stream fail (`store/runs.go:1293`), and a
  terminal event that carries one is never applied (`store/runs.go:1024`).
- *Secret delivery.* The answer to a request whose runner has given up is still
  computed, and marks the secrets.

## Not modelled

- Protocol: framing and Ed25519 signatures. A verified message is a typed
  record (what JSON does to output is in RunLogs); keys are modelled where they decide (Archive, Fleet).
- The cron search, backoff arithmetic and time zones: `NextFire` and
  `RetryDelay` are constants with the property the callers use.
- Password hashing, the permissions of a role, paging, decoding and CORS; the
  repositories in memory, which are not used with a database.
- The rate limiter (`platform/rate_limit.go`): one map under one mutex, no
  interaction with other state.
- Configuration read from the environment, metrics, certificates, artifact
  building: input and output without decisions over time.
- The web, desktop and terminal interfaces. Their texts are quoted where a
  violation run compares the code with them.
- Replicas of the control plane, which the documentation excludes.

## Plan

Done: the components above, their runs, and proofs of every safety property the
runs check.

Next, in this order:

1. System: RunStore, a lossy and duplicating queue and Worker together, for the
   end-to-end outcome of an order.
2. The cron search and the backoff as operators with reference definitions;
   with `AllNumbers` what their recursion computes can be proved too.
