# SerialCommander Web API: a TLA+ verification project

SerialCommander's Web API stores *scenarios* (the configuration files of a serial console),
serves them to the web application, and brokers *remote sessions*, in which a host shares a
serial device with stations over MQTT. This directory holds TLA+ models of its concurrent
parts and its file checks, the TLC configurations that check them on small instances, and proofs
checked by TLAPS.

All paths below are relative to the repository (`src/` is its root).

## 1. The system

One Node.js process runs the API (`pm2.config.js`: one instance, fork mode). Inside it, code
runs to the next `await` without interruption; at every `await` another request, timer or job
may run. The process talks to MySQL (rows), Redis (queues, sessions, leases, counters),
Firestore (scenario contents) and Mosquitto (a password file and a signal). Each of them may
refuse a call, or perform it and lose the answer; the process may die between any two calls.

| Component | State | Operations | Interacts with |
|---|---|---|---|
| Scenario outbox (`kernels/scenarioSyncQueue.js`, `syncJob.js`, `scenarioSyncStatus.js`) | three Redis lists (queue, processing, DLQ), a status hash, a lock key, a circuit key, a failure counter in memory | enqueue, claim, ack, requeue, bury, release; open and close the circuit | pushed to by the CRUD handlers and the reconcilers; writes Firestore; marks rows |
| Watermark (`kernels/scenarioSyncWatermark.js`) | `Scenarios.SyncedAt` against `ModifiedAt` | conditional mark; scan for rows that are behind | worker (mark), timer (scan) |
| DLQ reconciliation (`kernels/scenarioDlqReconcile.js`) | none of its own | read an entry, compare with the row, remove, enqueue again | worker's timer and an admin route |
| Scenario CRUD (`modules/config/services/scenarioCrud.js`, `scenarioSharing.js`, `admin/services/adminService.js`) | the `Scenarios` table | create, update, delete, share, approve, admin delete | outbox |
| Content store and cache (`scenarioFirestoreService.js`) | Firestore documents; a Redis cache | batched set and delete; cached read | worker, handlers |
| Remote sessions (`kernels/remoteSession/*`, `modules/remote/*`) | a Redis key per session with a TTL, a set of session ids, a MySQL fallback table, short codes | create, verify/join, kick and rotate the invite, end | broker users |
| Broker users (`mosquittoPasswdSync.js`, `mosquittoReload.js`, `passwdFileIO.js`) | the password file, a write queue, a debounced reload timer | upsert, ensure, remove, clean up | remote sessions; the clean-up job |
| Authentication (`modules/auth/*`) | users, refresh tokens, one-time codes, pending registrations | register, activate, login, refresh, logout, reset | mail |
| Scheduled jobs (`kernels/jobs/*`) | a Redis lease | acquire, run, release | clean-ups |
| Rate limiter (`kernels/middlewares/simpleRateLimit.js`) | a Redis counter, or one in memory | count, answer | every route |
| Validators (`scenarioFlowValidator.js`, `scenarioFileValidator.js`, `scenarioValidation.js`) | none | pure functions | CRUD |
| Images (`modules/upload/*`, `kernels/storage/*`) | objects in the configured storage | upload, delete by URL | CRUD |
| Draft shares (`scenarioDraftShareService.js`) | rows under random codes, with an expiry | create, open, clean up | a job |
| Lists (`scenarioCrud.js`, `userActivityService.js`) | none of their own | count and fetch a page | - |

What is hard here: the outbox is at-least-once over three stores with no common transaction, so
it rests on a watermark, retries and reconciliation to make good whatever a failure lost;
handlers read a row, await, and use what they read; remote sessions are changed by hosts,
stations and expiry at once, while a file outside Redis must follow; leases and locks expire
under their holders.

What makes each component correct:

* outbox and watermark - no save drops from sight, Firestore ends with the row's content, a
  deleted row leaves no document;
* remote sessions - a kicked station's invite is dead, two updates never lose one another, an
  ended session leaves no broker user;
* broker users - the file holds the users of the live sessions, a write is reloaded in the end;
* authentication - a token is used once, a code once, one account per registration;
* jobs and limiter - one runner at a time while the lease holds, no more than the limit per
  window;
* validators - a scenario that is accepted has only references that resolve.

## 2. The modules

| Module | Role |
|---|---|
| `ScenarioOutbox` | the outbox, its worker, the reconcilers, the watermark and the CRUD handlers that feed it |
| `MCScenarioOutbox` | instances of it for TLC (`outbox_*.cfg`) |
| `ContentMirror` | what the outbox promises, without its lists and its worker: works done at least once; `ScenarioOutbox` implements it |
| `SequenceLemmas` | lemmas on the sequence operators the model uses |
| `ScenarioOutboxProofs` | its theorems and their proofs |
| `RemoteSession` | one remote session: its record, invites and stations, under create, join, kick, end and expiry |
| `StationRecord` | what a session's record promises: every join, kick and end in one step; `RemoteSession` implements it |
| `MCRemoteSession` | instances of it for TLC (`remote_*.cfg`) |
| `RemoteSessionProofs` | its theorems and their proofs |
| `BrokerUsers` | the broker's users: the password file, its write queue, the debounced reload, the hourly clean-up, under sessions that come and go |
| `UserTable` | what the password file promises: one edit at a time, loaded as a whole; `BrokerUsers` implements it |
| `MCBrokerUsers` | instances of it for TLC (`broker_*.cfg`) |
| `JobLease` | the lease around an hourly job, with several replicas |
| `RateLimit` | the rate limiter for one key, in Redis and in memory |
| `RefreshTokens` | the refresh tokens of one user: login, refresh, logout, cookies |
| `Accounts` | one e-mail address from a registration, or Google, to an account |
| `PasswordResets` | the reset codes of one account |
| `ContentView` | what a reader sees of a scenario: column, document and cache |
| `FeatureImages` | images, the rows that show them, and what removes them |
| `ShareLinks` | sharing a scenario by a six-digit code |
| `DraftShares` | drafts under random codes, their expiry and clean-up |
| `ScenarioFile` | a scenario as a file: check, save, export, import |
| `ListPages` | lists read page by page while they change |
| `MCServices` | the eleven of them in one instance for TLC (`services.cfg`) |
| `BrokerUsersProofs` | theorems and proofs of `BrokerUsers` |
| `LeaseLimitProofs` | those of `JobLease` and `RateLimit` |
| `AuthProofs` | those of `RefreshTokens`, `Accounts` and `PasswordResets` |
| `ContentProofs` | those of `ContentView`, `DraftShares`, `ShareLinks`, `FeatureImages`, `ListPages` and `ScenarioFile` |
| `ServicesProofs` | those of `MCServices`: the run implements each component, so their theorems hold of it |

`RemoteSession` and `BrokerUsers` are two views of the same sessions. The first opens the record
and its compare-and-set and leaves the broker out; the second keeps of a session only that its
key, its index entry or its row exists, and opens the path to the broker. They meet in create,
verify and end, which appear in both, and share no other state: nothing of the record but its
id and its password, which never changes, reaches the password file.

### ScenarioOutbox and the code

| Variables | In the program |
|---|---|
| `now`, `row` | MySQL's clock and the columns of `Scenarios` that matter: existence, content, `ModifiedAt`, `SyncedAt` |
| `saves` | the number of contents submitted; the version number of the newest |
| `queue`, `processing`, `dlq` | the Redis lists of the same names; head = the end RPOPLPUSH takes from |
| `status`, `lock`, `circuit` | the hash `scenario:sync:status`, the keys `sync:lock` and `sync:firestore:circuit_open` |
| `doc`, `uploaded` | the Firestore documents; a history of what Firestore ever accepted |
| `pc`, `held`, `entry` | where each HTTP request or reconcile pass is, the job it is preparing, the DLQ entry it works on |
| `wpc`, `batch`, `todo`, `failures` | the worker's place in `processQueueBatch`, the claimed jobs, the rest of its loop, `consecutiveFirestoreFailures` |

A content is a version number, fresh for each save: the properties ask *which* content is
where, never what it says. One action stands for the code between two awaits on shared state.
`UpdateFind`, `UpdateCommit`, `UpdateReread`, `Enqueue` and `SetPending` are `updateScenario`
cut at its awaits; `ClaimBatch`, `BatchSaveScenarioContent`, `BatchDeleteScenarioContent`,
`AckOne`, `AckDone`, `MarkScenariosSynced`, `ReleaseOutboxLock` are `processQueueBatch`;
`RequeueOne`, `RequeueDone` its catch block; `DlqRead` and `DlqRemove` are `reconcileDlqItem`;
`WatermarkRead` is `reconcileUnsyncedScenarios` for one row. A claim is one action because only
this worker takes from the queue, and jobs pushed during the claim are simply claimed later;
`ClaimFails` covers the claim that stops half way.

Failures are actions of their own: `EnqueueFails` (refused, or done with its answer lost),
`ClaimFails`, `FirestoreFails` (refused or done), `AckFails`, `RequeueFails` (on either side of
the LREM), a mark that skips rows (second disjunct of `MarkScenariosSynced`), and `Crash`,
which empties what lives in memory, also between the LREM and the LPUSH of a requeued job.

Constants that are assumptions:

* `OneWriter` - the client that edits a scenario waits for each answer. The web application
  does; two browser tabs do not. With FALSE, TLC breaks `WatermarkSound`,
  `SnapshotNamesContent` and `NoOrphan` (two updates, whose second `findOne` reads the other's
  `ModifiedAt`); the hazards name the lines.
* `FreshSecond` - no two saves of one row in one second of the DATETIME column. With FALSE the
  mark of the first save covers the second.
* `Skew` - how far the API host's clock is ahead of MySQL's; it matters because only the
  INSERT takes `ModifiedAt` from the host.

Bounds: `MaxSaves`, `MaxFaults`, and `MaxQueue` (the reconcile pass adds no job above it; the
code has a page size instead). The clock stops once no comparison in the code could change.

### RemoteSession and the code

| Variables | In the program |
|---|---|
| `redis` | the key `remote:session:<id>`: the join challenge and the station map |
| `mysql` | the challenge in the fallback row of `remote_sessions`, written when the SET at creation fails and never updated |
| `codes` | the challenges for which a short code was stored |
| `issued`, `drawn` | random draws: challenges are numbered, station ids are drawn once |
| `call` | each request's place, and the locals it keeps across awaits: `raw`, `applied`, the attempts of `casUpdateSession` |
| `dead`, `valid`, `mapped`, `joined`, `targets`, `kicked`, `answered`, `deleted` | histories the properties speak of |

`CasRead`, `CasSwap`, `CasLoses` and `CasFails` are one attempt of `casUpdateSession`, with the
updaters of `kickAndRotateInvite` and `addStationMapping` as `Updated`; the flag `applied` lives
in the closure and survives from one attempt to the next, as in the code. A join first runs
`LUA_ADD_STATION_MAPPING` (`RegisterStation`) and falls back to the compare-and-set when the
script throws (`RegisterFails`). Failures: SET, GET, either script, the short code, DEL - each
refused, or done with its answer lost - and `Crash`.

`OneKick` is an assumption on the client: the host's page waits for the answer before it kicks
the same station again. Bounds: `MaxChallenges`, `MaxFaults`; `CasMaxRetries` is the code's
constant, smaller in the instances.

### BrokerUsers and the code

| Variables | In the program |
|---|---|
| `keys`, `index`, `rows` | the session keys, the set `remote:sessions`, the rows of the fallback table |
| `file`, `broker` | the users in the password file; those the broker has read |
| `writes` | `_writeQueue` as the queue of those waiting to edit the file |
| `timer`, `waiters`, `hups` | `_hupDebounceTimer`, `_hupWaiters`, and the reloads that have started |
| `expired`, `purged` | the rest of the loop of `cleanupExpiredUsers`, and whether it removed a user |
| `call` | each request's place, and the clean-up's |
| `created`, `known`, `ready`, `misread`, `halfEnded` | histories |

An edit is a read and a replacement of the file with other steps in between (`BeginEdit`,
`EndEdit`): the four ways of editing the code tries in turn all have that shape. `HupFires`
empties the list of waiters before the reload, so that who comes during it waits for the next.
`DockerCli` and `HostReload` say which ways to reload are configured: the requests' reload uses
either, the clean-up's only docker.

`EndDelete` is `deleteSession` and what `endRemoteSession` does next. `DeleteSession` has two ways
to go: the DEL is done, with the SREM behind it if there was a key, and the row goes; or the fault
"delete" leaves any of key, index entry and row, since a DEL that throws is logged, a DELETE of
MySQL is swallowed and the SREM is not waited for. In both the user's removal follows. `halfEnded`
remembers the sessions of the second.

### JobLease and RateLimit and the code

| Variables | In the program |
|---|---|
| `lease` | the key `lock:auth_code_cleanup`: whose value, and what is left of its PX |
| `runner` | each replica's place in `runScheduledWorkWithLease`, `acquiredLock`, and the time since its SET |
| `counter`, `bucket` | the limiter's key in Redis with its TTL; the entry of `memoryBuckets` |
| `slot` | the requests between INCR, PEXPIRE and PTTL |
| `granted`, `lost`, `restarted` | the ages of what each store admitted; a lost PEXPIRE; a process that died (histories) |

`Acquire`, `FinishWork`, `UnlockGet` and `UnlockDel` are the calls of the lease; it is never
renewed. Failures: a SET done whose answer is lost, Redis out of reach (the job then runs
without the lock, in strict mode too), GET or DEL refused or done unanswered, a crash. That the
key outlives the job, `WorkMax + UnlockMax < LeaseTtl`, is an assumption: nothing in the code
enforces it, 55 minutes against a few DELETE statements do.

### RefreshTokens, Accounts and PasswordResets and the code

| Variables | In the program |
|---|---|
| `stored`, `expired`, `issued` | the keys `auth:refresh:<user>:<token id>`, tokens past their seven days, tokens drawn |
| `cookie`, `call` | the cookie of each browser; each request's place, the token it came with, the one it issues |
| `user`, `pending`, `legacyCodes` | the rows of `Users`, `PendingRegistrations` and `EmailVerificationCodes` with one e-mail |
| `drawn`, `mailed`, `request` | codes drawn and mailed; each request's place and the row it has read |
| `resets`, `elsewhere`, `caller` | the account's `PasswordResets`; codes that the unique index refuses; each request's place |
| `inbox`, `password` | codes that reached the user; the row whose code set the password |
| `wanted`, `overlapped`, `revoked`, `registered`, `usable`, `changes`, `dependable` | histories |

Each request is cut at its awaits, so that what it read may be old when it writes. Statements,
mails, Redis calls and the process may fail between any two steps; answers may be lost on their
way to the browser. Codes and tokens are drawn fresh, except that a reset code may equal one in
use, which the unique index refuses.

### ContentView, FeatureImages, ShareLinks, DraftShares and ListPages and the code

| Variables | In the program |
|---|---|
| `column`, `document`, `cached` | `Scenarios.Content`, the Firestore document, the key `scenario:content:cache:<id>` |
| `unsynced` | jobs of the outbox that have still to commit, or to invalidate the cache |
| `reader` | each read's place, what it holds, and the save it started after |
| `objects`, `uploaded`, `featureImage`, `editor` | the storage, what was ever stored in it, the URL in each row, each save's or deletion's place |
| `used`, `entangled` | histories: the URLs rows have had; the images of two rows, two spellings, overlapping requests or an administrator's deletion |
| `shareRow`, `toggle`, `told` | `IsShared` and `ShareCode`, each toggle and the row it read, what its owner was last told |
| `draftRows`, `opening` | `ScenarioDraftShares`; readers that found an expired row and have still to delete it |
| `list`, `listed`, `page` | which list is read, its rows in order, the client's place with limit, offset and what it got |

Here `ContentView` abstracts the outbox to "jobs, in any order": what it needs of the outbox is
only that documents lag. The drivers of the storages succeed or fail; S3's never deletes.

A row of `FeatureImages` holds a URL, not an object. `Shows` says which object a browser gets for
it, `Names` which one `extractDeletableObject` finds in it, if any: the same for the URL that an
upload answered, none for S3, and possibly the same for another spelling of that URL, which a
client may save as well. `Commit` is the transaction of `updateScenario` or `deleteScenario`,
`Unlink` the `deleteImageByUrl` behind it, `DeleteSharedConfig` the administrator's deletion, which
has none.

### ScenarioFile and the code

A file is a record of JSON values, each reduced to what the code looks at: its `typeof`, the
number and the text it converts to. `FileErrs` and `FileWarns` are `validateScenarioFile` and
`validateScenarioFlow`, `Refused` is `normalizeScenarioPayload`, `Columns` what `createScenario`
stores, `Storable` whether the columns take it (MySQL in strict mode: no text beyond its STRING(n),
no object or array where Sequelize writes a text, no number beyond INT), and `ShownBanners` what an
export gives back. A save that either refuses changes nothing. Numbers are tenths, so that fractions
exist; `MaxInteger` stands for the largest INT.

### Properties

Of `ScenarioOutbox`, beside `TypeOK`:

* `WatermarkSound` - a row no pass will look at again (`SyncedAt >= ModifiedAt`) holds a content
  Firestore has accepted. This is what the whole design rests on.
* `SnapshotNamesContent` - a job whose snapshot of `ModifiedAt` is the row's current one carries
  the row's current content, in whatever list or variable the job is: the premise of the
  conditional UPDATE.
* `EventuallySynced` - a row that is behind catches up, is saved again, or is deleted.
* `NoOrphan` - a document without a row always has its delete job on the way.
* `DeleteMirrored` - a deleted row's document is gone in the end.
* `AtLeastOnce` - every behaviour is one of `ContentMirror`: a job leaves the lists only when
  Firestore has what it asks for, or for the dead letters, or with a requeue that stops halfway;
  and Firestore holds nothing that was not accepted. The mapping: `queued` and `buried` are the
  jobs in the lists, without order and number, `mirror` and `stored` the documents.
* `EventuallyMirrored` - Firestore ends up holding each row's content. It does not: see 5.

Of `RemoteSession`, beside `TypeOK`:

* `StationsKept` - no update is lost: a station whose mapping the store confirmed is in the
  record until a kick names it.
* `KickIsReal` - a kick that is answered took the station out, and the invite it hands over is
  one the record has had.
* `OldInviteStaysDead` - no join is admitted with an invite that a kick replaced. The fallback
  row is the exception the property names: it keeps the invite of the creation.
* `EndedStaysEnded` - no late update brings back a session whose DEL was confirmed.
* `RecordIsAtomic` - every behaviour is one of `StationRecord`, where joins, kicks and ends are
  single steps: the awaits, retries, fallbacks and lost answers between them cannot be told from
  the record. Who was put out is mapped to the stations kicks have named and the record lacks.

Of `BrokerUsers`, beside `TypeOK`:

* `CredentialsWork` - who was told that the broker has its user can connect while Redis lists the
  session, as long as the clean-up read the live sessions from Redis. A session its host has ended
  with a failing DEL is excepted: it lives on without its user (see 5).
* `EditsInTurn` - every behaviour is one of `UserTable`: each change of the file is one edit that
  was asked for, made to the file as it stands, although whole files are read and rewritten; the
  broker goes by a file that was complete; a crash forgets what was asked for.
* `LiveUsersKept` - the same of every stored session, whatever the clean-up read. It does not hold:
  see 5.
* `EventuallyRevoked` - the broker forgets the user of a session that is over, for good.

Of the services, beside `ServicesTypeOK`; each names in its comment the cases it excepts:

* `LockedRunsAlone`, `LeaseJobComesRound` - replicas with the lock run alone and delete no
  successor's lock; a lock left behind does not stop the job for good.
* `AdmissionsBounded`, `RefusalsEnd` - in any stretch of one window the limiter admits at most two
  limits from Redis, and outside production two more from the memory of a process that has not
  died since; no refusal lasts for ever unless a PEXPIRE was lost.
* `DeadTokensStayDead`, `StaysLoggedIn` - a revoked refresh token is never accepted in production;
  a browser that sends one request at a time is never left with a revoked one.
* `OpenedStays`, `PasswordOfCode`, `MailedCodeWorks` - what is still under way changes no opened
  account; the password is the one registered with the code; the newest mailed code works.
* `CodeResetsOnce`, `LastCodeWorks` - a reset code works once; the newest one stays until then.
* `ReadsSeeSaves`, `OldBlocksShown` - a read never goes back behind a save; blocks of the older
  version show until they are saved.
* `ShownImageExists`, `ReplacedImageGone` - an image on show exists; the image that a row's URL
  named goes when the row has that URL no longer. Entangled images are excepted from both; among
  them are those of rows an administrator has deleted, which stay (see 5).
* `OwnerToldTruth` - a code opens the scenario it was answered for, and none opens a stopped one.
* `DraftsOpen` - a draft opens until its days are over.
* `CleanFilesSave`, `CleanFlowRuns`, `ExportRestores` - neither `normalizeScenarioPayload` nor the
  columns refuse a file without a warning, its flow runs, and what is exported and imported is what
  was saved. The gaps of the check are listed in `Unchecked`: they are where the warnings and the
  save disagree. Each of them is real: without any one of them TLC breaks `CleanFilesSave`.
* `NothingHidden` - a client that follows `hasMore` gets every row that was there all the time.

## 3. Runs and bounds

| Run | Expected | Shows | Bounds |
|---|---|---|---|
| `outbox_watermark` | pass | `TypeOK`, `WatermarkSound`, `SnapshotNamesContent` under any two failures of any kind | 1 scenario, 1 request, 1 pass, 2 saves, batches of 2, 1 retry |
| `outbox_recovery` | pass | `EventuallySynced`, `AtLeastOnce` after any one failure, with deletes | no retry, so a failing job goes to the DLQ at once |
| `outbox_delete` | pass | `NoOrphan`, `DeleteMirrored` with saves and deletes of two scenarios in one batch | 2 scenarios, Firestore and ack failures |
| `outbox_reorder` | violation | `EventuallyMirrored` | 1 Firestore failure |
| `outbox_degraded` | violation | `DeleteMirrored` when an enqueue fails | 1 enqueue failure |
| `outbox_clock` | violation | `WatermarkSound` with `Skew = 1` | |
| `remote_session` | pass | `TypeOK`, `StationsKept`, `KickIsReal`, `EndedStaysEnded`, `OldInviteStaysDead`, `RecordIsAtomic` under any two failures of any kind | 3 requests, 3 stations, 3 invites, 2 attempts |
| `remote_kick` | violation | `KickIsReal` when a station is kicked twice at once, without a failure | 2 requests, 1 station |
| `broker_users` | pass | `TypeOK`, `CredentialsWork`, `EditsInTurn` under any one failure of any kind, a failing DEL included | 2 sessions, 2 requests |
| `broker_revoked` | pass | `EventuallyRevoked` under failures of Redis | 1 session, 2 requests, 2 failures |
| `broker_cleanup` | violation | `LiveUsersKept` after one failed SMEMBERS | 1 session, 1 request |
| `services` | pass | the properties of the services, each component in turn | two of each actor, 1 or 2 failures |

Why these are enough: jobs of different scenarios meet only inside a batch, hence two scenarios
where deletes and saves share one and a single scenario elsewhere; two saves give an old and a
new version, the least that can be confused; two failures let a second one strike the recovery
from the first. A retry limit of 1 has both a retry and a burial. In `remote_session` three
requests are two that race and one that makes the first of them lose twice, so that the attempts
run out; three invites are the first and two rotations. Stations and requests are
interchangeable, hence the symmetry. In `broker_users` two sessions are the least whose edits
can overwrite each other, and a second request is what comes during a reload. The proofs remove
the bounds for the safety properties: section 4.

`services` chooses one component at the start (`focus`) and lets it move; the others rest. They
share no variable, so that their interleavings would repeat states and show nothing. Its bounds:
two replicas, slots, requests, callers, readers, editors and toggles, since every hazard there is
one request between two calls of another; a lease of four ticks around work of at most two and
unlocking of one, which leaves room for a lock left behind to expire in time for the other
replica; a window of two ticks and a limit of two, so that admissions of two windows meet; three
refresh tokens (a login, a rotation and one more), two registration codes beside that of the older
version and two reset codes, which may collide with each other and with those of other accounts;
two scenarios with two images, of which one is S3's and the other has two spellings of its URL,
and three saves or deletions, so that a third meets two that overlap; two codes and three drafts;
two edits of a file that starts without fault, or of an empty form, from values at every boundary
of the checks and of the columns, hence every pair of faults; lists of up to four rows, limits of
one to three, two changes. Where failures pile up on each other two are allowed (lease), or five
(limiter: each admission from memory takes a failure of Redis, and one more is needed for a crash
among them), elsewhere one.

`CHECK_DEADLOCK FALSE` everywhere: users may stop, and with an empty queue, synchronised rows
and a still clock, or a session that is over and all ids drawn, nothing is left to do; a poll
that finds nothing is a stuttering step.

Fairness (`FairSpec` of `ScenarioOutbox`) is what the process gives: a handler that has started
goes on (Node's event loop), `setInterval` polls for ever, the clock and the TTLs run, the
reconcile timer comes round. Strong fairness is asked only of `WatermarkRead` for each scenario: a
pass comes again and again, and the conditions that disable it for a while (the circuit key, a
busy queue) come and go between passes, so a scan in the end meets a moment when they hold. It
orders by `ModifiedAt` and takes a page; in these instances all rows fit in one. No user is
obliged to act and no failure is obliged to occur. In `BrokerUsers` fairness is weak everywhere:
started handlers go on, the head of the write queue finishes, timers fire, and the hourly clean-up
comes round; an action of each stays enabled until it is taken.

In `services` fairness is asked of the lease (a replica that can take the lock does, runs go on,
time passes: timers, the event loop and Redis give that) and of the limiter (requests that have
begun go on, time passes). `RefusalsEnd` obliges no client to come back.

`broker_revoked` leaves out failures of the reload and crashes: after the clean-up has removed a
user from the file, a reload that fails is not tried again before some other edit, so the broker
may keep that user for as long as nothing else happens. The hazards name the line.

## 4. What is proved

`ScenarioOutboxProofs`, for every set of scenarios, requests and passes, every batch size, retry
limit, number of failures and saves (assumption: `OutboxAssumption` of `ScenarioOutbox`):

* `TypeCorrect == Spec => []TypeOK`;
* `WatermarkIsSound` and `SnapshotsNameContents`, under
  `Orderly == OneWriter /\ FreshSecond /\ Skew = 0`: `Spec => []WatermarkSound` and
  `Spec => []SnapshotNamesContent`. The three conjuncts are the conditions without which TLC
  finds counterexamples.

`TypeOK` is not inductive: a handler about to push must hold a job, so `TypeInv` adds
`HandlersHoldJobs`. The inductive invariant `SyncInv` then adds

1. `ClockSound` - no `ModifiedAt` lies in the future, and versions in the table are at most
   `saves`, so the next save is fresh in content and, by `FreshSecond`, in time;
2. `ListsSound` and `HeldSound` - every job, wherever it is, is *sound*: if its snapshot is its
   row's present `ModifiedAt`, its content is the row's; a job being prepared is sound too or
   is still waiting for its snapshot, in which case...
3. `OneAtATime` - ...no other handler is working on that row;
4. `BatchWritten` - what the worker is about to mark Firestore has accepted;
5. `WatermarkSound`.

A save makes every older job harmless, since its snapshot differs from the new `ModifiedAt`;
the mark compares snapshots, so by 2 a match names the row's own content, which by 4 has been
uploaded. A job without a snapshot (the row had gone at the second `findOne`) can only concern a
row that never comes back, so it marks nothing. The proof has one step for each action;
`SequenceLemmas` says what appending, dropping and removing do to the elements of a list.

`OutboxDeliversAtLeastOnce == Spec => AtLeastOnce` needs no such hypothesis: every step of the
outbox is a step of `ContentMirror` or leaves it alone, for all values of the constants and under
every failure. What the mapping needs of the past is `DeliveryInv`: the batch is in `processing`
until Firestore has written it (`BatchInHand`), and what the acknowledgement removes is of the
batch (`AckInBatch`) and was carried out - uploaded, or gone (`SyncsDone`, `DeletesDone`). A job is
lost only while `halfway` is TRUE, which is mapped to the worker putting a failed batch back: LREM
and LPUSH are two calls, and a failure between them loses the job. Burying and taking over are left
free, since the DLQ is repaired by the reconcilers, not by the queue. The theorem says nothing of
order: `outbox_reorder` shows that there is none.

`RemoteSessionProofs`, for any number of requests, stations, attempts, invites and failures of
every kind (assumption: `RemoteAssumption`):

* `TypeCorrect`, `StationsAreKept`, `EndedSessionsStayEnded` and `OldInvitesStayDead`;
* `KicksAreReal`, under `OneKick`, without which `remote_kick` is a counterexample.

Their common invariant, `SessionInv`, adds to what each request holds at its awaits
(`CallsSound`) and to the emptiness before the creation (`NothingYet`)

1. `InvitesSound` - a replaced invite is never the record's, and the invites that kicks under way
   are to install are new and different: hence a swap can only move forward;
2. `JoinsSound` - a station id belongs to one join and to none once it was answered: hence no
   late join puts a kicked station back;
3. `KicksSound` - who is kicked has joined; under `OneKick`, the station of a kick that has still
   to swap is in the record, so the flag `applied` tells the truth about the last attempt too.

The compare-and-set enters in one place: a swap happens only on the record that was read.

`RecordIsKeptAtomic == Spec => RecordIsAtomic` follows from the same invariant: a swap admits one
station or puts out one with a new invite (the record that was read, and still is the record, has
the station, and by `InvitesSound` never had the invite), a script call admits one, creation opens,
DEL and expiry close, and every other await is a stutter. It needs no `OneKick`: two kicks of one
station spoil an answer, not the record.

`NoOrphanStays == ASSUME DeletesEnqueued PROVE Spec /\ []QueueFits => []NoOrphan`. The two
hypotheses are where the property ends, and the instance of `outbox_delete` satisfies them:
`DeletesEnqueued` leaves out what loses or displaces a deletion by itself - an enqueue that fails
(`outbox_degraded`), a crash before the push, overlapping writers, the reconcilers - and
`QueueFits` says that a claim takes the whole queue and no deletion is buried. `OrphanInv` adds to
the types what each list may hold of a gone row (`TrafficFits`, `HeldJobsFit`), that an upsert
which could bring a document back has a deletion behind it (`DeleteFollows`, where the order of
the two groups in a batch enters, `BatchDecides`), and that a requeue loses none
(`RequeueCovers`).

`BrokerUsersProofs`, for any number of sessions, requests and failures (assumption:
`BrokerAssumption`): `BrokerTypeCorrect` and `CredentialsAlwaysWork`. Of `BrokerInv`

1. `InLine` and `EditorsFile` make the write queue a lock: whoever edits is its head, and what it
   read is still the file, so that no edit loses another's;
2. `HupsApart` - who waits for a reload waits for one only, which starts after its edit: with
   `Written`, the reload it is told of has read its user;
3. `FreshUntouched` - nothing but its own creation knows of a session not yet announced, so no
   removal can be on the way for it; `RemovalsOver` - removals concern sessions that are over,
   unless the clean-up was told wrongly (`misread`), or that their host has ended with a failing
   DEL (`halfEnded`).

`EditsAreInTurn == Spec => EditsInTurn` rests on 1: an edit that ends rewrites what it read, which
by `EditorsFile` is the file as it stands, so its effect is that of the one edit it was asked for.

`LiveUsersAreKept` is `LiveUsersKept` under one hypothesis, that `Faults` has none of "save",
"index" and "members": no SET or SADD of a session and no SMEMBERS fails. Edits, reloads and the
process still may. `ToldAreListed` says that whoever was told of its user is in the index the
clean-up reads, or its session is over. Each of the three is needed: TLC finds a counterexample
with any one of them allowed to fail once. A failing DEL is allowed, and what it leaves, a session
whose host has ended it, is excepted by the property itself.

`LeaseLimitProofs` has two parts. Of `JobLease`, for any number of replicas and failures and all
durations (assumption: `LeaseAssumption`): `LeaseTypeCorrect` and `LockedRunsAreAlone`. `LeaseInv`
says that the lock's remaining life and its holder's age add up to the TTL (`HoldersSound`): time
can pass under a holder only while at least one more tick is left, so the key cannot expire before
it is given back. `UnlocksSound` says that only a holder unlocks.

Of `RateLimit`, for any limit, window, failures and requests (assumption: `RateAssumption`):
`AdmissionsStayBounded`. What a store admitted over the last window splits in two (`Windowed`): a
part that the present count has counted, and an older part that is within the limit itself and all
from before the present window opened. When a window is over, the older part has aged out
(`WindowedOver`) and what was counted becomes the older part (`WindowedAnew`). An earlier form of
the property bounded Redis and memory together and held in TLC only because too few failures were
allowed: a process that dies forgets its buckets. It now excepts that case, and TLC is given
failures enough to reach it.

`AuthProofs` has three parts. Of `RefreshTokens`, for any number of browsers, requests, tokens and
failures, besides `TokenTypeCorrect`:

* `RevokedTokensStayDead` - what must be excluded is that a SET stores a token that was revoked in
  the meantime; `FreshSound` says that a token whose SET is still to come is known to its own call
  alone, no cookie and no other request, and `DrawnSound` that tokens not drawn are known to
  nobody;
* `BrowserStaysLoggedIn` - `LoginInv` adds that tokens of different browsers differ
  (`TokensApart`, `NewApart`), that a browser which never overlapped has one call, carrying its
  cookie (`OneAtATime`), and that its cookie is good unless that call is about to replace it
  (`Served`).

Of `PasswordResets` and `Accounts`, for any number of requests, codes, rows and failures, besides
`ResetTypeCorrect` and `AccountTypeCorrect`:

* `CodesResetOnce` - `WritersSound`: a request about to write the password has marked its row, no
  row with its id can be found unused, and no other request writes for it; `ChangesSound`: a row
  that changed the password never comes back, since ids are given once (`IdsSound`);
* `LastCodeKept` - `LastCodeInv`: while a code is to be depended on, nobody is between the
  deletion and the insertion of another;
* `OpenedAccountsStay` and `CodeKeepsPassword` - `AccountInv`: a code drawn and not mailed is known
  to its request alone (`CodesApart`), every row, also one in a request's hands, stands beside the
  password registered with its code (`PasswordsMatch`), a confirmation goes on with the row its
  code was found in (`Activating`), and whoever has got past the removal of the older version's
  account cannot meet another unverified one (`Unverifieds`);
* `MailedCodeKept` - `MailInv`: while a code is counted on, no registration or resend is under way
  and no request is at a step that would spoil it (`UsableSound`); a request that is alone finds
  what it has seen unchanged (`AloneSound`).

`ContentProofs`, each for sets of any size and any number of changes and failures:

* `ReadsSeeTheirSaves`, `OldBlocksStayShown` - `ViewInv`: only the older version's row sends a read
  past MySQL, so such a read has no save to go behind (`FloorsKept`); the document and the cache
  hold its blocks or a save, never the empty answer of a failed read (`CopiesFull`);
* `DraftsStayOpen` - who is about to delete by code deletes no row whose days are not over, unless
  the code was drawn again (`OpeningSound`);
* `OwnersAreToldTruth` - codes in use differ (`CodesUnique`, the unique index); a scenario that
  nobody contends for has one toggle (`TogglesSound`); what was told is what the row says
  (`ToldSound`);
* `ShownImagesExist`, `ReplacedImagesGo` - `ImageInv`: a save holds the URL the row still has, or
  its images are entangled (`ReadsCurrent`), so what it is about to delete no row shows
  (`UnlinksUnshown`); for any set of URLs, whatever they show and name;
* `PagesHideNothing` - `PageInv`: what was there all the time is got or lies ahead of the place
  reached (`LiesAhead`), and the count of a page covers the list (`CountReaches`);
* `CleanFilesAreSaved`, `CleanFlowsLeadOn` - `CleanFilesSave`, with the gaps that `Unchecked`
  lists, and `CleanFlowRuns` follow from the checks themselves, for files of any length whose
  values have the types `FileAssumption` lists;
* `ExportsRestore` - `FileInv`: what a row holds is what `normalizeScenarioPayload` lets through and
  has brought to its stored form (`SetFits`), and `Banner1` and `Banner2` repeat the banners
  (`BannersFit`); normalising such a value again changes nothing. `Texts`, the banners that are
  texts, is stated by rank rather than with SelectSeq, whose recursion the provers cannot unfold
  for a list of any length; `RankExists` and `TextsAre` say that it is a list, and that a list it
  gives back unchanged consists of texts.

`ServicesProofs` makes one system of these. `ServicesImplementEach`: every behaviour of
`MCServices` is one of each of its components' specifications, since a step moves one component
and leaves the variables of the others alone. So `ServicesTypeCorrect` (`ServicesTypeOK`) and
`ServicesStaySafe` (all its other safety properties) follow from the components' theorems, for
every value of the constants. Of the run's properties only its two liveness properties,
`RefusalsEnd` and `LeaseJobComesRound`, stay with TLC.

Assumptions are those named in the modules, no others. Some of them say that distinct things are
distinct (`NoRow` is no image, no two items of a list have the same place in its order), which
model values give TLC anyway, and that three literals are strings, which the provers are not told.

Only model-checked:

* the liveness properties (`EventuallySynced`, `DeleteMirrored`, `EventuallyRevoked`,
  `LeaseJobComesRound`, `RefusalsEnd`): fairness is beyond the prover;
* the violations, which are counterexamples.

Every invariant and every other action property that a passing run checks is stated by a theorem:
for all values of the constants, save that `WatermarkSound` and `SnapshotNamesContent` (`Orderly`),
`NoOrphan` (`DeletesEnqueued`, `QueueFits`) and `KickIsReal` (`OneKick`) carry the conditions named
above, which the runs that check them meet too.

## 5. Where the code and its promises part

* `outbox_reorder` - a failed upsert is requeued with LPUSH behind newer jobs, or ends in the
  same batch as a newer one; the older content is then written last, and the watermark has
  caught up, so nothing repairs it.
* `outbox_degraded` - a delete whose enqueue failed is answered "degraded", to be synchronised
  later; the reconcile scan reads rows, and that row is gone.
* `outbox_clock` - creation stamps `ModifiedAt` with the host's clock, later saves with MySQL's.
  With the host ahead, an edit may look older than the mark of the creation.

* `remote_kick` - two kicks of one station at once: the second reads the station, loses its swap
  to the first, finds the station gone at its next attempt, and still answers "kicked" with an
  invite that is in no record, because `applied` keeps its value between attempts.
* `broker_cleanup` - when SMEMBERS fails, the clean-up takes the rows of MySQL for the live
  sessions. Sessions created while Redis worked have no row, so it deletes the users of all of
  them.

Beside these runs, four things that properties had to except:

* `remoteSessionStore.js:243` - `endRemoteSession` is documented (`remoteSessionService.js:240`) to
  make every later verification answer 404. A DEL that fails is only logged, the broker's user is
  removed all the same and the host is answered "ended": the session can still be verified, and
  between the removal and a verification that writes the user again its stations cannot connect.
  Without the exception `halfEnded`, `CredentialsWork` fails in `broker_users`.
* `adminService.js:15` - an administrator's deletion of a shared scenario removes no image, although
  `objectUploadService.js:47-48` has the stored URL for the deletion of the old object "khi thay ảnh
  / xóa scenario": the object stays for good, without any failure.
* `scenarioCrud.js:152` - a save compares URLs, not objects: another spelling of a row's own URL (a
  query behind a Cloudinary one) shows the same image and has it deleted. And since the decoding of
  the key (`objectUploadService.js:69`) lies outside the `try`, a URL with a malformed escape makes
  a save or deletion fail after its commit.
* `scenarioFileValidator.js` - `Unchecked` of `ScenarioFile`: what the file check lets pass in
  silence and the save refuses, with a 400 (`StopBits` of 1.5, a `NewLine` or `FlowControl` of any
  value) or with an error of the database (a Name, Description or banner beyond its column, an
  object among the first two banners, a baud rate beyond INT).

Hazards that hold by an assumption or by the absence of a failure, rather than contradict
something the repository says, are listed in `PROJECT.json` with their lines.

Hazards beyond those in `PROJECT.json`, seen in the code and without a property:

* `scenarioDlqReconcile.js:35` - a delete that ended in the DLQ is confirmed because the row is
  gone, although the document is not.
* `scenarioSyncWatermark.js:89` and `:106` - rows whose content never parses fill the first page of
  every pass; a row deleted between the scan and the push is recreated as a document.
* `scenarioSyncQueue.js:75` and `:177` - "pending" is written after the push, perhaps over
  "success"; the lock lives ten seconds whatever the batch takes, and is deleted unconditionally,
  which matters with a second replica only.
* `scenarioFirestoreService.js:160` - a delete is acknowledged undone while Firebase is not
  configured.
* `remoteSessionRedisOps.js:17` - a TTL rounded to 0 becomes a full one.
* `refreshTokenService.js:8` - nothing revokes the other sessions of a user after a reset of the
  password; `s3ObjectStorage.js:110` - S3 objects are never deleted.

## 6. Plan

Done: the outbox with the watermark, the reconcilers and the CRUD handlers; the remote session;
the broker's users; the eleven services; the three refinements (`ContentMirror`, `StationRecord`,
`UserTable`); the theorems of section 4. What would come next:

1. `NoOrphan` beyond `DeletesEnqueued`, with the reconcilers, once a row that is gone leaves a
   trace they can read: today they cannot repair a deletion that was lost (`outbox_degraded`).
2. `ContentView` over `ContentMirror`: that the outbox is one of the "jobs, in any order" that
   `ContentView` supposes.
3. A property for the activities' pages (`userActivityService.js:108`), once their offset is a
   number.

## 7. Not modelled

Users' profiles, YouTube and the administration of users (single statements, or calls of one
service), HTTP plumbing (routes, middlewares, request rules, API documentation), start-up,
configuration, metrics and logging, migrations and scripts, the legacy `SyncJobs` table (no
longer written). Of the outbox: contents that fail to parse (every content of the model parses),
Firestore not configured, metrics, the wording of answers, and a second API replica.

Of the services: access tokens (a JWT keeps no state); a user deleted under a refresh; the length
limit of Content (a LONGTEXT); a MySQL that is not in strict mode and cuts what is too long; which
spellings of a URL show one object, and the error of a malformed one; the five attempts to draw a
share code (`ShareTries`, two in the instance); UUIDs drawn twice; the warnings of
`validateScenario`, the line and column of a fault, flows that are not objects; `limit=0` of the
activities, whose pages never end; rows of one second, whose order MySQL leaves open, and the
order by name; the internals of the storage drivers.

Of the remote session: the remaining life of a key (the TTL is read and written back by the
compare-and-set, rounded; a key may live on for a full TTL when less than half a second was
left), `blockUser` and `removeStationMapping`, which no request calls, the in-memory store of
development, and the invitation e-mail. Of the broker's users: the password hash, the choice
among the ways to edit the file (one edit, which may fail), and what clients do on the broker.
