# Verification of the sdcorejs-nestjs core

TLA+ models, TLC runs and TLAPS proofs for the parts of this NestJS library that
keep state which several processes share, or that decide what crosses a trust
boundary: the file lifecycle of `UploadedFileService`, the publication coordinator,
the cluster lease of `JobSchedulerService`, the caches, the scoped repository with
its history, request identity, and outbound HTTP. Paths below are relative to the
repository root.

## 1. Inventory of the system

The library is a set of NestJS modules that an application embeds. Application
instances share a PostgreSQL database (through TypeORM), an object store (S3 or a
local directory) and optionally Redis. There is no other coordination: every
multi-instance guarantee comes from single SQL statements whose WHERE clause is a
compare-and-swap.

| Component | State | Operations | Hard behaviour |
| --- | --- | --- | --- |
| Upload and deletion outbox (`features/uploaded-file/services/uploaded-file.service.ts`) | `uploaded_file` rows with the markers `uploadPendingAt`, `deletionPendingAt`, `deletedAt`, `expiredAt`, `isUsed`; objects in storage; `lastDeletionClaimAt` per instance | upload, temporary upload, delete, deleteById, markUsed, useFiles, changeFiles, retry sweep, expiry sweep, purge, tombstone retirement | interleaved requests and sweeps, crash between storage and database, lost answers, statements and writes that take effect late, leases that end while the holder sleeps |
| Direct uploads (same service, controller) | the same rows with `status`, `pendingKey`, `uploadExpiredAt`; staging and final objects | initiate, PUT content, complete, abort, expiry of initiated uploads, staging cleanup | completion lease against expiry sweep, promote that is not atomic, client that PUTs after abort |
| Storage drivers (`local.service.ts`, `aws.service.ts`) | objects | write, put, promote, delete, head, download | partial batch deletes, non-atomic link/unlink |
| Cleanup job (`uploaded-file-cleanup.job.ts`) | cron registration | pending track (retry, purge), temporary track | overlapping runs of several instances |
| Job scheduler (`features/job-scheduler`) | one row per `lockKey`: status, `ownerToken`, `modifiedAt` | acquire, heartbeat, complete, fail, release, runExclusive | lost lease, late heartbeat, lost answers, differing lease options |
| Publication coordinator (`features/uploaded-file/publication`) | intents with a lease, kept by an application-supplied repository | stage, retire, run, project | deadline against a PUT that is still under way |
| Cache, single flight (`services/cache`, `utils/single-flight.service.ts`) | backend entries, flights per key | get, set, del, load; HTTP interceptor | load that overlaps del, timeouts |
| Scoped repository, history (`core/orm`, `core/tenancy`, `features/action-history`) | application tables, history rows | create, update, delete, restore, import under tenant scope | batch count checks, transactions owned by the caller |
| Context and guards (`core/context`, `auth`) | request-local identity and permissions | resolve identity, check permissions | two guards with different principals on one request |
| HTTP client (`services/http`) | none | propagate headers, redirect policy | cross-origin redirects |
| Action history reads and snapshots (`features/action-history`) | history rows | record, page, sanitize | pages that shift while rows are added, images with shared and cyclic objects |
| Validation, OOXML and local paths, remote fetch (`features/uploaded-file`) | the local tree; none otherwise | validate, resolve, fetch | directories created concurrently, names rebound between lookup and connection, containers that disagree with themselves |
| Filter query builder (`core/orm/utils`) | none | clean, scope and translate filters | SQL's three-valued logic |
| JWKS keys (`auth/jwt`) | bounded cache of clients per issuer | choose the key of a token | keys rotated and clients evicted during a lookup |
| i18n, queue adapters, class validation, module wiring | none that outlives a call | adapters and configuration | |

How they interact: the cleanup job calls the sweeps of `UploadedFileService` inside
`JobSchedulerService.runExclusive` if the scheduler is present; the service's own
compare-and-swap claims remain the correctness boundary, so the outbox is modelled
*without* assuming that sweeps exclude each other. Mutations of the scoped
repository record history in their own transaction. Guards and the gateway fill
the request context that the repository, the file reads, the cache key and the HTTP
client take their scope from. A publication copies a ready file to a public key
under a lease of its own.

What makes the modelled components correct:

* **Outbox**: a row that readers see has its bytes; bytes have a row that leads to
  them; a deleted row stays deleted; two deleters never mistake each other's claim
  for their own; abandoned bytes and claims are eventually cleaned up.
* **Job scheduler**: a live owner keeps its lease; at most one run of a key is
  recorded successful and that record is final; no claim of a dead owner blocks a
  run forever.
* **Direct uploads**: what becomes readable is the version that was verified; a
  running completion keeps its row; promoted bytes have a row; every upload settles.
* **Publication**: a URL is shown only for an intact object of the current
  assignment, a retirement is final, foreign objects are left alone.
* **Cache**: one factory per process and key, no answer older than everything that was
  stored or on its way when the call began, a stale write-back expires, answers only for
  the audience that the key names.
* **Scoped repository, filters, history**: reads, joins and changes stay within the
  request's scope; batches are atomic; rows and their history change together, and no
  entry holds an image or a tenant of another scope.
* **Identity, keys, HTTP**: no request passes with somebody else's permissions, no
  token is checked with another issuer's key, no identity goes to an untrusted origin.

## 2. Modules

| Module | Models | Theorems |
| --- | --- | --- |
| `StoredFile` | the abstract life of a file that `UploadedFile` implements | |
| `UploadedFile` | upload and deletion outbox | `UploadedFileProofs` |
| `DirectUpload` | direct and managed uploads over both drivers | `DirectUploadProofs` |
| `SweepBatch` | how the bounded sweeps of the cleanup job share their batches | `PagingProofs` |
| `FileAccess` | reads of files: scope, policy, lookup, streaming, signed URLs | `FileGateProofs` |
| `UploadValidation` | configuration, types, sizes and bytes of every entry point, clone from URL | `FileGateProofs` |
| `RemoteFetch` | `secureFetchRemote` | |
| `LocalPath` | `SafeLocalPathResolver` | |
| `OoxmlContainer` | `validateOoxmlContainer` | |
| `Publication` | publication coordinator | `PublicationProofs` |
| `LeaseLock` | the abstract lock that `JobScheduler` implements | |
| `JobScheduler` | job scheduler lease | `ServiceProofs` |
| `Cache`, `MemoryCache`, `RedisCache`, `CacheInterceptor` | cache service with single flight, its two backends, the HTTP interceptor's key | `ServiceProofs` (`Cache`) |
| `ScopedRepository` | scoped repository, service and recorded history | `ScopedRepositoryProofs` |
| `FilterQuery` | filter query builder | |
| `HistorySnapshot`, `ActionHistory` | sanitizer of history images, paged history reads | `PagingProofs` (`ActionHistory`) |
| `RequestIdentity`, `JwksKeys` | context, identity and guards; the key that verifies a token | `IdentityProofs` |
| `HttpPropagation` | headers of outbound calls and redirects | `IdentityProofs` |

The instances for TLC are in the MC modules. `MCUploadedFile` and `MCJobScheduler`
extend one component each. `MCUploads` (what comes in and goes out), `MCPublication`
(publication and sweep batches), `MCServices` (job lease and caches) and `MCRequests`
(what serves a request) hold several components that share no state, so that a product
of them would only multiply their states: a behaviour of such a module is a behaviour of
one component, chosen by `part`, while the others rest in an initial state. A component
that theorems are about is EXTENDed with variables of its own, so that the run checks the
very definition the theorem states; the others, and second configurations of the same
component, are INSTANCEs over shared variables `v1`, `v2`, ... that stay at `Rest` when
they are not used. The configuration lists the `Parts` of a run; a property over instances
says for every part what it must satisfy, in terms of the predicates that the component's
module defines and comments. The assumptions a proof makes about a component's constants
are a definition of its module (`ConstantsOK`, `AccessConstants`, `PagesConstants`, ...);
the MC modules ASSUME it, so TLC evaluates it. `MCSettles` adds fairness and checks what
must happen in the end.

Definitions with a comment "Mutant of X" are plausible bugs of X. No
specification uses them; replacing X by its mutant must violate the property that
`PROJECT.json` pairs it with, which shows that the property depends on X.

### 2.1 UploadedFile

**State.** `row[f]` is the row of file `f` (`saved` is FALSE before the INSERT),
reduced to its lifecycle columns; SQL NULL in a marker is 0. `obj[f]` says whether
storage holds the object of `f`'s generated key. `task[p]` is the local state of a
process: `pc` is the await it is suspended at, `files`, `uploadPendingAt` and
`claim` are the arguments of `deleteAndFinalizePendingRows`, `snap` what its last
SELECT returned, `tries` the loop counter of
`deleteWrittenObjectWhenActivationIsImpossible`. `mark[f]` is the uploader's
`activationMarker`. `lateWrite` and `lateActivate` hold writes and activation
UPDATEs that were given up by their caller (timeout, crash) and may still be
executed. Each process belongs to a service instance; a crash ends all of them.

**Granularity.** One step is one database statement or transaction, or one storage
call, together with the code up to the next await. A claim's timestamp is computed
in the step that executes its UPDATE; a worker may sleep any time before and after.
Calls have three outcomes: answered, executed with the answer lost, not executed.

| Action | Code |
| --- | --- |
| `saveRow`, `writeObject`, `activatePendingUpload` | `uploadLegacy`, `uploadTemporaryLegacy` (`Activated` distinguishes the two activations) |
| `confirmedActiveUpload` | the re-read after a failed activation |
| `cleanupFailedUpload` | the claim that settles a failed upload |
| `settleRead`, `settleClaim` | `deleteWrittenObjectWhenActivationIsImpossible`, three attempts |
| `deleteReferences` | `delete`, and `deleteById` of an active row |
| `unsafeSystemPurgeUnusedBefore`, `cleanupExpiredTemporaryFiles` | the claims of the purge and of the temporary track |
| `markUsed` | `markUsed`, `useFiles` |
| `retrySelect`, `retryClaim` | `unsafeSystemRetryPendingDeletions`: SELECT, then the exact claim |
| `unsafeSystemRetireUploadTombstone` | the operator's conversion of a tombstone; its guard is the documented precondition (producer stopped, no write can complete) |
| `storageDelete`, `finalizePendingRows`, `clearFinalizedDeletionClaim`, `releaseDeletionClaim` | `deleteAndFinalizePendingRows` |
| `landWrite`, `landActivation`, `crash`, `tick` | environment |

**Timestamps.** Markers are written and compared as JavaScript Dates and are exact.
`deletedAt` is written by the database clock: it has a millisecond and a
sub-millisecond part, and `AsDate` drops the latter when the row is read, as the
PostgreSQL driver does. `SubMs` is the set of sub-millisecond parts that occur.

**Abstractions.** Tenant, department and user columns of the criteria, validation,
names, metadata and the age cutoff of the purge are left out (a purge may pick any
unused permanent row). The sweep takes one eligible row at a time; the quota
arithmetic that fills its batch is `SweepBatch`'s. `deleteById` can only name
files that were once active, because clients learn no other ids from the operations
of this module. `lastClaim` is forgotten when it can no longer be the maximum in
`nextDeletionClaim`, which changes no claim.

**Abstract file.** `StoredFile` is what callers rely on, without markers, leases, claims
or sweeps: a file is absent, hidden, visible, dead or forgotten, and its bytes are stored
or not. It is shown at most once and only with its bytes, its bytes are erased only when
it is dead, and it is forgotten (no marker leads to its key any more) only without them.
One step may concern several files. `UploadedFile!StoredFiles` instantiates it:
`StageOf` reads the stage off a row's markers, `obj` is `stored`; `ImplementsStoredFile`
is checked by `upload_batch` and proved. A forgotten file may be condemned once more: an
uploader that looks after its own failed activation claims its row whatever became of it.

### 2.2 JobScheduler

Rows of different `lockKey`s never meet, so one row is modelled. `modifiedAt` is only
compared with `CURRENT_TIMESTAMP`, so the row carries its `age`. `call` is the
synchronous beginning of `runExclusive`; `acquireInsert` and `acquireReclaim` are the
two statements of `acquire`; `start` arms the interval; `fnSettles` ends `fn`;
`complete` and `fail` (also `release`) are the finalizing statements with their lost
or failed variants: a zero-row `complete` is `LostJobLeaseError` and skips `fail`, a
failed one goes to `fail`. `fireHeartbeat` sends a heartbeat and `heartbeat(t)`
executes it later, possibly after its sender is gone. `prompt` is the set of nodes
that have kept the delay bound `Latency` since their call; `stall` takes a node out
of it. Time may not pass a prompt node's deadline (`OnTime`).

**Abstract lock.** `LeaseLock` states what a caller may rely on without rows, clocks
or statements: `holder`, the set `protected` of tokens whose workers rely on holding
the lock, and `winner`. A protected holder is displaced by nobody, a takeover brings
a token that is not the holder's, the run ends once and by its holder.
`JobScheduler!Lock` instantiates it (holder and winner are the row's `ownerToken`
while RUNNING and SUCCESS, protected are the tokens of prompt, heartbeating nodes
whose `fn` has not settled), and `ImplementsLeaseLock` is checked and proved.

### 2.3 DirectUpload

One row with its staging and final object; a content is a version. Every process
serves requests (`initiate`, PUT, `complete`, `abort`, `deleteById`, `uploadManaged`)
and runs the sweeps (expiry, completed staging, temporary, retry), one await per
step. `Kind` selects the driver: S3 copies and keeps the staging object, the local
driver links and unlinks. `Outlive = FALSE` assumes that a completion ends within its
activation lease (section 4 says what happens otherwise). A PUT is the client's own and
needs only the signed URL.

### 2.4 SweepBatch

`kind` says which query of the pending track selects a row, `wait` its marker
relative to now. A run is `Batches` sweeps of three parts (expired direct uploads,
completed staging, outbox), each with its `limit`; between runs `Period` passes. The
outbox batch is computed as in the code: settled rows first, half of the rest for
each kind of tombstone, then what is left over. Rows of `Poison` always fail, others
at most `MaxRefusals` times. A run is assumed to end within the one-minute backoff; if
more rows keep failing than one run's batches hold, tombstones do starve, by the
documented priority of settled deletions.

### 2.5 Publication

Repository and object ports belong to the consumer and are external: they are modelled
from their contract and from the in-memory ports of the conformance suite. Calls of a
runner that reached its deadline or crashed are in `late` and may still be executed.
Leases are kept as time left. A ready row whose assignment changes without `stage` or
`retire` is not retired: the consumer must unlink, as the contract says. The text of
descriptors and keys is abstracted.

### 2.6 Caches

`Cache` follows one key: `load` joins or opens a flight, the backend executes the get
(`getReads`) and its answer arrives later (`get`), so that callers join a flight whose
answer was read before their call; the factory reads, answers, throws or has no value
(`factoryUndefined`, which is not cached), and a write is executed (`setWrites`) before it
is acknowledged (`set`). A timed-out backend operation is not cancelled. The floor of a
call is the oldest of what is around it (`Around`): the source, the entry, the answer of
the get flight it joins, loads under way and unfinished writes.
`MemoryCache` is the least-recently-used Map, `RedisCache` the SCAN loops of `clear`
and `size` against any batches SCAN may return. `CacheInterceptor` models key material
as it is hashed (type markers and lengths), with the hash taken as injective; roles are
sorted and keep their repetitions.

### 2.7 ScopedRepository, FilterQuery, history

`ScopedRepository` runs mutations as statements of READ COMMITTED transactions, own or
supplied by the caller (which is assumed to roll back after an error), with row
locks, scope predicates, audited grants and history in the same transaction. `create`
takes any id: `save()` reads the row with that id first and then inserts (`saveInserts`)
or updates by id alone (`saveUpdates`), setting the columns in which the entity differs
from what it read (`Merged`); `over` remembers such rows. An update without content by a
request without user is an empty patch: it issues no UPDATE, compares no count
(`skipWrite`) and records what an unlocked read finds. The log is the set of entries each
commit adds; no property depends on the order in which commits add them, which the code
does not store. `FilterQuery`
evaluates the generated condition in SQL's three-valued logic against every row;
timestamp units, JSON paths and LIKE text are abstracted, filters and order are
explored apart. It is recursive (groups nest), so it is only model-checked.
`HistorySnapshot` walks a heap of objects with an explicit stack; a key is the
sequence of its words. `ActionHistory` pages while rows are inserted; rows may share their
`createdAt`, and every query puts tied rows in an order of its own (`Orders`). Query
numbers count halves so that fractions occur.

### 2.8 Identity, keys and HTTP

`RequestIdentity` runs the middleware, an optional `InternalGuard` and up to three
`AuthGuard`s that may verify different principals; Passport and the JWT library are
external. `JwksKeys` is the client cache with `getSigningKey` as an await.
`HttpPropagation` rewrites headers before the call and before every hop, after the
consumer's hook; a hook that rewrites the target itself is left out.

### 2.9 Reads, validation, fetch, paths, containers

`FileAccess` awaits the policy, the lookup and the signature, with a clock in half
seconds because lifetimes are rounded to seconds. `UploadValidation` takes bytes as
what the detectors see of them. `RemoteFetch` computes the address classification on
16-bit groups and rebinds names at any time. `LocalPath` inspects and creates parents
one by one in a tree with links. `OoxmlContainer` reads entries whose central and
local headers agree or not.

## 3. Runs

| Run | Bounds | Shows |
| --- | --- | --- |
| `upload_outbox` | 1 file, 2 workers, 2 instances, 2 faults, leases of one tick, backoff of half a tick, 5 ticks, sub-millisecond parts {0,1} | `TypeOK`, `ActiveHasBytes`, `NoOrphan`, `ClaimsDistinct`, `NoResurrection` |
| `upload_batch` | a permanent and a temporary file, 1 fault before the last of 2 ticks | `ImplementsStoredFile` with batch claims, partial deletes, purge and expiry |
| `upload_recovery` | 1 file, 1 sweeping worker, 2 faults up to time 9, whole-millisecond `deletedAt` | `BytesReclaimed`, `DeletionSettles` |
| `upload_recovery_submillisecond` | the same with sub-millisecond `deletedAt` | violation of `BytesReclaimed` |
| `upload_late_write` | `LateWrites = TRUE`, 1 fault | violation of `NoOrphan` |
| `shared_services` | 2 nodes, 4 tokens, lease 5, heartbeat 2, latency 1, 2 faults; 3 cache callers on 2 nodes; both cache backends; keys chosen to collide | `TypeOK`, `LiveOwnerKept`, `SingleWinner`, `SuccessIsFinal`, `ImplementsLeaseLock`; `LoadShared`, `CachesKeep` |
| `job_mixed_leases` | n1 with lease 7, n2 with lease 3, no faults | violation of `LiveOwnerKept` |
| `file_uploads` | direct uploads over S3 (temporary) and local storage, and `uploadManaged`: 2 instances that may do everything, 1 fault, 2 contents, leases of 2 ticks, 7 ticks; reads of one file by one request with every kind of row, context and policy while the row changes; every configuration, entry point and kind of bytes of an upload; containers of up to 3 entries around every limit; both sides of every blocked address range, redirect chains with rebound names; 2 path operations with common parents, files and links | `TypeOK`, `ReadyIsVerified`, `CompletionsRespected`, `NoOrphanFinal` over S3, the last three over the other deployments (`DeploymentsAlike`); `FileAnswers`, `StoredIsChecked`, `InputsConfined` |
| `file_publication` | 2 runners of one intent, 3 tokens, 1 fault, 1 late call; replacement by a second generation; batches of 3 over 5 rows, 3 of which always fail | `ProjectedIsPublished`, `GenerationsKept`, `BatchShared` |
| `settles` | an upload with a client and a sweeper, 1 fault, sweeps to time 17; a publishing worker, 1 fault, 1 late call; a full batch of failing rows; 2 callers of a cache that expires and of one that is down; 2 tokens over a cache of one client; 2 path operations; 2 job nodes, 3 tokens, shortest lease with a heartbeat, 1 fault | `UploadSettles`, `PublicationConverges`, `Served`, `StaleExpires`, `CallsEnd`, `NoStuckClaim` |
| `requests` | 3 guards with principals of every kind; 3 tokens of 4 issuers over a cache of 2 clients; calls of 3 hops in 6 configurations; two requests of two tenants, one of them with allowed values or a grant, on a row of each tenant, with batches, empty patches and creates of any id, and every kind of context and grant on 3 ids; 2 filters or groups on every row; images of 3 objects; pages of histories of up to 3 rows with 2 stamps while rows are added | `InboundIdentity`, `IssuerKeys`, `OutboundIdentity`, `HistoryKept`, `ScopeKept`, `RequestsScoped`, `SnapshotSafe`, `HistoryPages` |
| `repository_rows_stay` | the two requests and rows of `requests` | violation of `RowsStay` |

What the properties of the runs with parts say, and the step a bug would need:

* `ReadyIsVerified`: a PUT between HEAD and promotion, or a second completer, must not
  get other bytes shown. `CompletionsRespected`: neither a sweep nor a deletion takes a
  row from a completer within its lease, and a failed `uploadManaged` is aborted.
  `NoOrphanFinal`: bytes at the final key have a ready row or one a sweep finds.
* `FileAnswers`: policy, lookup and stream are separate awaits; the answer is for a file
  in scope that was active, and reports no lifetime beyond the file's.
* `ProjectedIsPublished`, `GenerationsKept`: abandoned PUTs, deletions and commits arrive
  late; a URL is shown only for the bytes described, a retired generation stays retired,
  objects of another descriptor are left alone.
* `BatchShared`, `Served`: the quota arithmetic wastes no place, and the backoff lets every
  due row be tried although others fail forever.
* `StoredIsChecked`: the checks of all entry points agree on type, size and visibility.
  `InputsConfined`: a fetch connects only to the address that was checked, a key resolves
  inside the root, and no public address or concurrent write is refused; a container that
  is accepted has one consistent view within its limits.
* `InboundIdentity`, `OutboundIdentity`: several guards, a gateway and redirects; identity
  and secrets of one principal or origin never serve another, nor codes of one user
  another user. `IssuerKeys`: clients are evicted between the lookup of a key and its use.
* `ScopeKept`: reads and committed changes stay in scope or under an audited grant, no
  update, deletion or restore moves a row, and a batch is applied whole, whatever commits
  between its count and its write. A row that a `create` was given the id of is excepted:
  that is violation 4. `HistoryKept`: each commit that changes a row brings an entry with
  the committed content, each entry is of an operation that succeeded in that commit, and
  its images and tenant are in the request's scope or grant, although `fromData`, the
  resource scope and the image of an empty patch are read without a lock.
  `RequestsScoped`: client filters and single requests do not leave the scope.
* `SnapshotSafe`, `HistoryPages`: shared and cyclic images; rows added while paging, ties
  among them. A row that shares its `createdAt` with another of the resource may be
  skipped (section 4), every other one is seen.
* `LoadShared` is about joining flights that have read already, `NoStuckClaim` about a
  claim whose owner died or lost its answer: it is taken over or ends.
* `StaleExpires`, `CachesKeep`, `CallsEnd`: overlapping
  loads and invalidations, timeouts, eviction, SCAN batches and colliding keys.

**Why the bounds are enough to be interesting.** All actions fire. One file with two
workers and its uploader is enough for three processes to contend for one row, on
different instances at the same instant, and five ticks are enough for a lease to
end, the row to be taken over, released and taken over again while the first holder
sleeps. The clock advances by `TickMs` milliseconds at once so that `+ 1` of a claim
and `- 1` of a retirement stay distinguishable from a lease. Uploads start at
`LastUpload` at the latest: with a single file, time before its upload has no
effect. `MaxFaults` and `LastFault` bound the injected faults. In `MCJobScheduler` and
`MCServices` tokens are interchangeable, hence the symmetry set, in `MCUploads` processes
and contents, and in `MCPublication` runners, generations and descriptors (no symmetry is
used with liveness).
Elsewhere the bounds are the smallest at which the race or border in question occurs
twice: two processes for a race of two, three for one that needs a third to observe
it, one fault because each recovery path starts with one, values on both sides of a
limit. `CHECK_DEADLOCK FALSE` where the modelled clock ends at `MaxTime`, where a
request ends with its answer, or where a system without pending work may rest, which
is so in every run of the modules with parts; `job_mixed_leases` checks deadlock.

**Fairness.** Upload: started handlers run on (every await settles or the process
dies), the cron keeps sweeping, time passes; users, the operator and late effects
owe nothing. `PromptSweeps` lets the clock wait until an eligible row was swept: the
clock is finite, and without it time could run out before the cron's next tick.
It waits only for rows that a claim can match, so it hides no stuck row.
The fairness of the other components is stated in `MCSettles`. Job
scheduler: nodes keep calling (every cron tick does), `fn` settles, statements and
heartbeats under way are executed, time passes; crashes, stalls and failures are not fair
and bounded, and no node owes a heartbeat. Direct uploads: started handlers run on, sweepers keep sweeping, time passes (strong
fairness, as it waits for sweeps that come and go). Publication: calls are answered or
abandoned, the consumer's worker keeps starting runs and offering claims for every
generation (strong fairness: other runners' leases interrupt it), late calls arrive,
time passes; with `Prompt`, reaching the deadline counts as a fault. Cache: callers,
factories, timers and late operations go on, the backend itself owes nothing. Sweeps:
the cron keeps running. Local paths and JWKS: awaited calls settle.

## 4. What the violations show

1. **`upload_recovery_submillisecond`.** A producer crashes while its write is under
   way, a sweep soft-deletes the row (keeping both markers), the write lands. The next
   sweep reads the tombstone and claims it with `deletedAt = <Date>`; the column has
   microseconds that the Date lost, so the UPDATE matches nothing, now and ever. The
   same criterion is used at lines 477, 1760 and 1996 of the service. The integration
   tests use pg-mem, whose timestamps are Dates.
2. **`upload_late_write`.** A write that was reported failed and is executed after the
   cleanup had settled, soft-deleted and cleared the row leaves bytes that nothing
   refers to, against the comment of `uploadLegacy`. (If the producer *crashes*
   instead, the marker stays and the tombstone is swept again: that part holds.)
3. **`job_mixed_leases`.** The reclaim compares with the caller's `leaseMs`; the row
   does not record its owner's. Changing `leaseMs` in a rolling deployment lets new
   nodes take rows from healthy old ones.
4. **`repository_rows_stay`.** `create` hands the entity with its id to `save()`
   (`base-repository.ts:623`), which updates an existing row by id without the scope
   predicate of the other mutations and writes the caller's scope columns. The row of
   another tenant is overwritten and moved, against `site/examples/tenant-crud.md:90-91`.
   `ScopeKept` and `HistoryKept` except exactly the rows a `create` found (`over`).

Further observations met while modelling, which no run states. The models contain the
behaviour; the properties above are stated so that they hold of the code as it is.

* A completion that failed and was given back for a retry has an elapsed upload marker
  (`uploaded-file.service.ts:1920`): the retry sweep may claim and delete it while its
  upload URL is still valid.
* The local driver unlinks the staging file when it promotes (`:888`); a completion that
  fails after that is marked retryable, but no retry passes the verification of the
  staging object (`:814`), and a sweep settles the row.
* A PUT to the local target that passed its checks (`:989`) writes after `deleteById` or
  `abortUpload` deleted the staging file: nothing leads to that file any more.
* `uploadManaged` returns two promises without `await` over the local driver (`:1111`), so
  their rejection bypasses the `catch` that aborts the upload. `CompletionsRespected`
  states the abort for S3.
* A completer does not look at its lease again before it promotes (`:875`). With
  `Outlive = TRUE`, a deletion that took the row may already have deleted the final key.
* Reads that a later statement relies on without a lock: the `fromData` of a concurrent
  update (`base-repository.ts:649`), the `toData` of an empty patch (`:657`), and the
  `deletable` flag of `BaseService.delete` (`base-service.ts:65`). So the images of
  successive entries of a row need not chain, and the newest one need not be its content.
* History rows are ordered by `createdAt` alone (`action-history.service.ts:180`), which is
  the start of their transaction: rows of one transaction tie, OFFSET pages may order them
  differently, and a client may see one twice and another never.
* A caller that joins a get flight may get a value that was read before the last `del`
  was executed and before its own call (`cache.service.ts:70`).
* Codes are remembered for a user (`auth.guard.ts:108`): a later guard that verifies the
  same user in another tenant keeps them.
* Custom identity values are merged, never cleared, when a later guard establishes another
  principal (`context.service.ts:53`).
* The lifetime of a signed URL is computed before the driver loads its client and signs
  (`uploaded-file.service.ts:736`).
* An object that two fields of an image share is redacted the second time, without a
  cycle (`action-history.service.ts:243`); a throwing policy and a resource without rows
  are not answered as 404 (`:164`), as `site/api/features/action-history.md:122` says.
* The JWKS client cache that the comment calls LRU is first-in first-out
  (`keycloak-jwt.strategy.ts:97`).
* The sweep of completed staging has no claim and no backoff (`:1802`): a full batch of
  objects that cannot be deleted is selected by every sweep. The documented backoff
  covers the deletion outbox, which `Served` shows.

## 5. Proofs

All theorems hold for every value of the constants that satisfies the modules'
assumptions: any number of files, workers, instances, nodes, tokens and faults. In the
table, "constants" is the predicate on the constants in the component's module
(`ConstantsOK` or `...Constants`). It only says that the constants are well formed:
durations and limits are numbers, every process has an instance, absent values differ
from present ones, a context has a value or `None` for every custom key a configuration
names, seeded rows are rows of a finite table.

| Theorem | Statement | Hypothesis |
| --- | --- | --- |
| `UploadedFileProofs!TypeCorrect` | `Spec => []TypeOK` | |
| `UploadedFileProofs!ActiveBytes` | `Spec => []ActiveHasBytes` | |
| `UploadedFileProofs!Resurrection` | `Spec => NoResurrection` | |
| `UploadedFileProofs!NoOrphans` | `Spec => []NoOrphan` | `LateWrites = FALSE` |
| `UploadedFileProofs!StoredRefinement` | `Spec => ImplementsStoredFile` | `LateWrites = FALSE` |
| `UploadedFileProofs!ClaimTokens` | `Spec => []ClaimsDistinct` | `[]Paced` |
| `DirectUploadProofs!TypeCorrect` | `Spec => []TypeOK` | constants, `~Outlive` |
| `DirectUploadProofs!ReadyVerified` | `Spec => []ReadyIsVerified` | constants, `~Outlive` |
| `DirectUploadProofs!Completions` | `Spec => []CompletionsRespected` | constants, `~Outlive` |
| `DirectUploadProofs!FinalTracked` | `Spec => []NoOrphanFinal` | constants, `~Outlive` |
| `FileGateProofs!Answers` | `AccessSpec => []FileAnswers` | constants |
| `FileGateProofs!Checked` | `ValidationSpec => []StoredIsChecked` | constants |
| `PublicationProofs!TypeCorrect` | `Spec => []TypeOK` | constants |
| `PublicationProofs!Projection` | `Spec => []ProjectedIsPublished` | constants |
| `PublicationProofs!Generations` | `Spec => GenerationsKept` | constants |
| `PagingProofs!BatchesShared` | `SweepSpec => []BatchShared` | constants |
| `PagingProofs!Pages` | `PagesSpec => []HistoryPages` | constants |
| `ServiceProofs!TypeCorrect` | `Spec => []TypeOK` (job scheduler) | |
| `ServiceProofs!LiveOwner` | `Spec => []LiveOwnerKept` | `SoundTiming` |
| `ServiceProofs!SuccessFinal` | `Spec => SuccessIsFinal` | |
| `ServiceProofs!Winner` | `Spec => []SingleWinner` | |
| `ServiceProofs!Refinement` | `Spec => ImplementsLeaseLock` | `SoundTiming` |
| `ServiceProofs!SharedLoads` | `CacheSpec => []LoadShared` | constants |
| `ScopedRepositoryProofs!History` | `RepositorySpec => HistoryKept` | constants |
| `ScopedRepositoryProofs!Scope` | `RepositorySpec => ScopeKept` | constants |
| `IdentityProofs!Inbound` | `IdentitySpec => []InboundIdentity` | constants |
| `IdentityProofs!TokenKeys` | `KeysSpec => []IssuerKeys` | constants |
| `IdentityProofs!Outbound` | `HttpSpec => []OutboundIdentity` | constants |

`~Outlive` (a completion ends within its lease) is needed: section 4 says what the code
does without it.

**Outbox.** `ActiveHasBytes` is not inductive: a sleeping deleter could empty the key
of a row that has become active. `BytesInv` adds that every row in a deleter's hands
is *dead* (claimed or soft-deleted), whoever owns the claim now (`Deleter`), that an
activation which is under way or was executed is of bytes that exist or of a dead row
(`Landed`), and that rows are born before their bytes (`Born`). The step from a dead
row back to an active one is impossible because every UPDATE that restores
`deletedAt` sets a claim at the same time, and releases write a marker in the future:
no argument about leases or clocks is needed, so sleeping past a lease is harmless.
`NoOrphan` needs in addition that the upload marker stays while bytes may still
arrive (`Writing`) and that a deleter which is going to drop the last marker has
emptied the key for good (`Emptied`). `Writing` fails with `LateWrites`, which is
violation 2 above. The proof first describes the effect of one step on one row, object and
process (`RowStep`, `ObjStep`, `TaskStep`, `UploaderStep`), one case per action; the
invariants are then shown from these effects.

**Abstract file.** That every step of the outbox is a step of `StoredFile` follows from the
same effects and `OrphanInv`. The invariants say what a state may be, the refinement what a
step may do: `Publish` needs `Landed` (an activation is of bytes that exist), `Erase` needs
`Deleter` (only keys of dead rows are emptied), `Forget` needs `Emptied` (the last marker
is dropped only when the key is empty for good), and `Store` needs `Writing` (bytes arrive
only at a key that a marker leads to). A lost answer, a crash, a sweep that finds nothing
and the clock are stutters.

**Claims.** Markers do not only grow: a release writes `now + Backoff`, which may lie
before claims of the past, and the operator's retirement writes one before the present.
So `ClaimsDistinct` needs a reason why a row never gets a value again that a deleter
which lost it still holds. `Ordered` gives it: a held claim is below `now + ClaimLease`
and with it below all future ones, or it is the row's own marker, or the uploader has
ended, so that only a sweep can claim the row and only after its marker elapsed, and the
held claim is at most a lease beyond that marker (`Below`). Two smaller facts are needed:
a sweep claims what it saw elapsed (`Selected`), and a soft-deleted row without a claim
has no upload marker (`Cleared`). `ClaimStep` reduces every action to its effect on
claims: one process takes rows, gives rows up, the operator retires one, or none of
these. The hypothesis `Paced` says that `lastDeletionClaimAt` of no instance is ahead of
`now + ClaimLease` by more than `Backoff`. It is needed: a claim is the latest of
`now + lease`, the instance's last claim plus 1 and the expected marker plus 1, so an
instance that issues claims faster than one per millisecond runs ahead of the clock,
and with a lease and a backoff of 1 TLC finds another instance issuing the same value
after the row was released. With the code's equal leases and its backoff of 60 000 ms
this takes tens of thousands of claims ahead of the clock. On the instance of `upload_outbox`
TLC finds `Paced` and the inductive invariant `TokenInv` true in every state, so there
the hypothesis excludes nothing.

**Job scheduler.** `LiveOwnerKept` needs a bound on the age of a prompt owner's row:
at most the time since its last heartbeat was sent plus `Latency`, or, while one is
on its way, a heartbeat more (`AgeBound`). With `2 * HeartbeatMs < LeaseMs` and a
latency of at most half a heartbeat this stays within the lease, so `Reclaimable` is
false for everyone who passes the same lease. `SoundTiming` is that hypothesis;
`job_mixed_leases` shows that equal leases are needed. The refinement adds `NewToken`,
that a call which is still acquiring brings a token the row does not carry: a claim is
then a `Take` of a lock that nobody relies on, `complete` and `fail` of the owner are
`Finish` and `GiveUp`, and every other step only shrinks the set of protected tokens.

**Publication.** A URL is projected from a committed intent, so the proof is about who
may commit. `Stored` says that whoever is about to commit, a run or a call it gave up
on, saw its rendition stored, or that the intent has become final and the commit will
not be fenced in. What is stored stays stored because objects are removed only by
retiring runs, which work on intents that are final for good (`Owns`, `Abandoned`), and
because tokens of runs and of abandoned calls are distinct (`Distinct`): a late call
carries a token that no newer claim has. Each action is reduced to its `Effect` on one
generation: it keeps the descriptor and the finality, changes the token to its own or
to none, keeps what is stored and touches nothing foreign. Both theorems follow from
effects. No argument about the lease's length is needed.

**Direct uploads.** The invariant has one part per role. A completion is within its
lease and owns the row once it has claimed it (`Completion`); what a process has read
excludes a completion that runs now (`Snapshot`); a deleter's row is dead for good, and
its final object is gone before its row (`Deletion`); an upload that was not handed out
is known to its initiator only (`Private`); there is one holder (`OneHolder`).
`ReadyIsVerified` follows because the promoted bytes are those the holder verified and
only a deleter of a dead row or the holder touches the final object (`FinalKept`). Each
action is shown to keep a dead row dead and the markers of a running completion
(`RowKept`, `Spared`). The lease matters only where `Completion` claims it: time may not
pass a running completion's lease, which is `~Outlive`.

**Scoped repository.** The invariant says what holds of one transaction (`TxInv`), of two
(`Apart`: they wrote different rows, by the row locks) and of the committed table
(`TableShape`). For one transaction: its calls were allowed and their grants audited
(`Allowed`); every row it wrote was in scope or granted before and is now, or a create
found it (`WritesInScope`); a batch is written whole (`WholeBatch`); what it has read and
will record as an image is in scope or granted, although it was read without a lock
(`Images`); its entries belong to operations that succeeded (`Founded`); and every row it
wrote has an entry with the written content, is imported, found by a create, still to be
recorded, or unchanged in content (`Recorded`). What other transactions commit between two
statements cannot take a row that was written (`CommitOther`, from `Apart`), and what was
read stays what it was. A commit adds the transaction's own entries (`Follows`). Nothing
is said about the order of entries or about the newest one: with unlocked reads and a
`createdAt` of the transaction's start the code promises nothing there.

**Identity.** After every guard the store and the request describe one principal:
where the gateway's fields are kept (`Sources`), that a gateway which named a user or
tenant is obeyed by every later guard (`Bound`), that codes were granted to the user
they are kept for, in whichever tenant (`Owned`), and that they are the ones checked
(`Admitted`). Nothing of
the headers is anywhere without trust (`Untrusted`). The interesting case is a second
`AuthGuard` with another principal, where permissions of the first are dropped or kept.

**Token keys.** Between the choice of a client and the use of its key the client may be
evicted and keys rotated. `ClientsOwn` says that the map holds at most `MAX_CLIENTS`
clients, one per trusted issuer; `RequestsOwn` that a request carries a client of the
issuer of its own token, whatever the map holds by then, and a key of that client.

**Reads of files.** `OnItsWay` says what a request knows at each await: its scope is the one
it captured, and the row it looked up was in that scope and usable at the time of the
lookup, although it may be claimed or deleted now. `SameOwners` says that no step changes
the columns a scope is compared with, `RowKept` that a temporary file is private and has
an expiry once it is ready. The rounding of
lifetimes to seconds is the arithmetic part.

**Validation.** What is stored depends on a configuration normalised earlier and, for
`putUploadContent`, on a row accepted by an earlier request: `ConfigOK` bounds what
normalisation accepted, `AcceptedOK` what `initiate` accepted under it. `StoredOK` and
`AcceptedCompletes` then follow from what `validateUploadBuffer` returns.

**Batches and pages.** Both rest on one fact about finite strict orders, which the provers
cannot get by induction: the ranks of the elements of a set of n elements are exactly
0 .. n - 1 (`RanksTaken`). Ranks are distinct and below n, and an injection between
finite sets of one size is onto. So the `Oldest(k)` of a set are min(k, size) rows, and
the quotas of a batch add up (`UnresolvedFills`). For pages `Position` counts the
strictly newer rows: in whatever order a query puts tied rows, an untied row stands at its
position (`OrderIs`), a page holds the untied rows at its positions (`PageHolds`), and an
insertion only moves rows back (`PositionGrows`). Hence the invariant `Seen`: the untied rows
that were there when the client began and that it has not got lie behind the pages it has
asked for, so when a page is empty there are none. The hypothesis in `PagesCover` that the
history fits below the largest offset is needed: beyond it `pageNumber` is cut off and the
same page is answered again.

**HTTP.** One lemma about the header rewrite of a hop (`Rewrite`) says what is left of
any headers for a trusted and for an untrusted origin. With `Recorded` (the last hop
is what is on the wire) the four properties carry over a chain of any length; that a
lost secret stays lost needs the previous hop's property again, since a hop starts
from the headers of the last one.

**Cache.** `NoOlderThanCall` is about several versions in flight. `NotBefore` says that
nothing a caller can still be handed (source, entry, the answer of its node's get flight,
loads, unfinished writes) is older than its floor; every caller in a call keeps `NotBefore` of its floor (`FloorsHold`). A
step only copies what is in sight. The floor is a minimum of a set of numbers, which
exists because the naturals are well founded. `OneFactory` needs that flights have
callers (`FlightsUsed`).

**Only model-checked.**

* Liveness under fairness is out of the prover's reach: `BytesReclaimed`,
  `DeletionSettles`, `NoStuckClaim` and the properties of `settles`.
* What a recursive operator computes needs induction over data, which the provers cannot
  do: `RequestsScoped` (`FilterQuery`), `CachesKeep` (`CacheInterceptor`).
* `SnapshotSafe` (a graph walked with a stack), `InputsConfined` (address
  classification, links in a tree, layout of a container) and the backends in `CachesKeep`
  have no proof; `DeploymentsAlike` instantiates the theorems of `DirectUploadProofs`,
  which hold for both drivers, with other constants.

## 6. Not modelled

* Queue adapters, i18n catalogues, class-validator decorators, module wiring, cron
  registration: adapters and configuration without protocol state.
* Storage SDK calls and stream plumbing below write, put, promote, delete, HEAD and
  sign; selection of the cache backend and JSON encoding of cached values.
* Passport, the JWT library, axios, follow-redirects, PostgreSQL, Redis and S3 are
  external: they appear as the library uses them.
* Clock skew between instances: one clock is modelled. A holder may act arbitrarily
  late, which covers leases that end early for their holder.
* The SQL isolation of the multi-statement transactions of `UploadedFileService`:
  `delete`, the purge and `markUsed` verify the affected count of one UPDATE that
  repeats all criteria and roll back otherwise, so they are one step.
  (`ScopedRepository` does model statements of open transactions.)
* `fn` of `runExclusive` that never settles: by design the run stays locked.
* Direct uploads: a `promote` that is executed after it was reported failed (the analogue
  of violation 2); a failed local write that leaves a partial staging file
  (`local.service.ts:42-45`). `managedStream` reads its row and puts the content in one
  step (`uploaded-file.service.ts:1106-1107`).
* Outbox: `lastClaim` is remembered when the UPDATE matched, the code remembers every
  claim it computed (`:397`), which only makes claims larger; `cleanupExpiredTemporaryFiles`
  selects and claims in one step, where the claim repeats the criteria of the SELECT.
* Reads of files: `markUsed` and `useFiles` act on the row as its environment; overrides of
  department and user in `resolveScope` (`:165-166`); the local driver's branch of a signed
  URL (`:719`) and a failing `createDownloadUrl`, which is answered as 404 (`:744`).
* Publication: a `record` that throws reaches the `catch`, which records once more
  (`coordinator.ts:277-287`); the model ends the run with the first one.
* Local paths: `realpath` and `assertContained` (`local-path.ts:96-97`) are folded into the
  environment; a link to a directory inside the root, which the code accepts, is refused
  in the model.
* Token keys: `uriFromIssuer` (`keycloak-jwt.strategy.ts:51,114`) is the identity; an
  application's own function could merge issuers. A client answers with a key that is
  published when it answers; no property tells a rotated-out key of the same issuer apart.
* Filters: `IN` on an operand column that is no array, answered with 400
  (`filter-query-builder.ts:342`); timestamp units and JSON paths.
* Scoped repository: an explicit `null` for an optional scope column in a create onto an
  existing row counts as not given; the order in which transactions add entries.
* That codes found for a user in one tenant are not used for the same user in another is
  not stated: the code remembers them by user (`auth.guard.ts:108`).
* A failed creation of the local root is remembered for the life of the process;
  nothing in the repository says what should happen.

## 7. Plan

1. Proofs of `SnapshotSafe` and of the parts of `InputsConfined`: the walk of the
   sanitizer as a worklist over a finite heap, the confinement of resolved paths.
2. `DirectUpload` as a second implementation of `StoredFile`: its staging and final object
   would be two files of one row.
3. The composition of `JobScheduler` and `SweepBatch` when two instances' runs overlap.
