--------------------------- MODULE ScenarioOutbox ---------------------------
(***************************************************************************)
(* The pipeline that mirrors a scenario's content from MySQL to Firestore: *)
(* the CRUD handlers (scenarioCrud.js), the Redis outbox they push jobs to *)
(* (scenarioSyncQueue.js), the worker that drains it (syncJob.js), the     *)
(* SyncedAt watermark (scenarioSyncWatermark.js) and the reconciliation of *)
(* the dead-letter queue (scenarioDlqReconcile.js).                        *)
(*                                                                         *)
(* One API process runs (pm2.config.js: instances 1, fork), so there is    *)
(* one worker; its handlers and reconcilers interleave at every await.     *)
(* Contents are version numbers: each save carries a fresh one.            *)
(***************************************************************************)
EXTENDS Integers, Sequences, FiniteSets, SequencesExt

CONSTANTS
    Scenario,          \* scenario ids (UUIDs: an id is never used again)
    Request,           \* HTTP requests that may be in flight at once
    Reconciler,        \* reconcile passes that may overlap: the worker's, an admin's
    NoJob,             \* "no job held"
    BatchSize,         \* SCENARIO_OUTBOX_BATCH_SIZE
    MaxRetry,          \* MAX_RETRY_COUNT
    CircuitThreshold,  \* CIRCUIT_FAILURE_THRESHOLD
    Grace,             \* RECONCILE_GRACE_SEC, in ticks of the DATETIME clock
    Skew,              \* how far the API host's clock is ahead of MySQL's
    OneWriter,         \* TRUE: a scenario's client waits for each answer
    FreshSecond,       \* TRUE: no two saves of a scenario in one DATETIME second
    Operations,        \* the optional operations this instance exercises
    Faults,            \* the kinds of failure this instance exercises
    MaxSaves,          \* bound: contents saved
    MaxQueue,          \* bound: queue length above which reconcile adds no job
    MaxFaults          \* bound: failures

OperationKinds == {"delete", "share", "adminDelete", "dlq", "watermark"}
FaultKinds == {"enqueue", "claim", "firestore", "ack", "requeue", "mark", "crash"}

ASSUME OutboxAssumption ==
    /\ Request \cap Reconciler = {}
    /\ NoJob \notin [action: {"sync", "delete"}, scenario: Scenario, content: Nat,
                     modifiedAt: Nat \cup {-1}, retry: Nat]
    /\ BatchSize \in Nat \ {0}
    /\ MaxRetry \in Nat
    /\ CircuitThreshold \in Nat \ {0}
    /\ Grace \in Nat
    /\ Skew \in Nat
    /\ {OneWriter, FreshSecond} \subseteq BOOLEAN
    /\ Operations \subseteq OperationKinds
    /\ Faults \subseteq FaultKinds
    /\ {MaxSaves, MaxQueue, MaxFaults} \subseteq Nat

VARIABLES
    now,         \* MySQL's clock, in seconds (DATETIME keeps no fraction)
    saves,       \* number of contents submitted so far: the last version
    row,         \* the Scenarios table
    queue,       \* queue:scenario_sync, in the order RPOPLPUSH takes jobs
    processing,  \* queue:scenario_sync:processing
    dlq,         \* queue:scenario_sync:dlq
    status,      \* the hash scenario:sync:status
    lock,        \* whether the key sync:lock exists
    circuit,     \* whether the key sync:firestore:circuit_open exists
    doc,         \* the Firestore collection: a version, or NoDoc
    uploaded,    \* history: the versions Firestore has ever accepted
    pc,          \* what each request or reconcile pass does next
    held,        \* the job a request or reconcile pass is preparing
    entry,       \* the DLQ entry a reconcile pass is working on
    wpc,         \* what the worker does next
    batch,       \* the jobs the worker claimed
    todo,        \* the claimed jobs its ack or requeue loop has still to visit
    failures,    \* consecutiveFirestoreFailures, up to the threshold
    faults       \* number of failures so far (bound)

mysql == <<now, saves, row>>
redis == <<queue, processing, dlq, status, lock, circuit>>
firestore == <<doc, uploaded>>
handlers == <<pc, held, entry>>
worker == <<wpc, batch, todo, failures>>
vars == <<mysql, redis, firestore, handlers, worker, faults>>

Actor == Request \cup Reconciler

NoDoc == 0
NoTime == -1                  \* SQL NULL: below every DATETIME
Time == Nat \cup {NoTime}

Job == [action: {"sync", "delete"}, scenario: Scenario, content: Nat,
        modifiedAt: Time, retry: Nat]

\* Slip: the default "retryCount || 0" of buildMessage forgotten.
SyncJobWithoutRetry(s, version, t) ==
    [action |-> "sync", scenario |-> s, content |-> version, modifiedAt |-> t]

SyncJob(s, version, t) ==
    [action |-> "sync", scenario |-> s, content |-> version, modifiedAt |-> t, retry |-> 0]

DeleteJob(s) ==
    [action |-> "delete", scenario |-> s, content |-> NoDoc, modifiedAt |-> NoTime, retry |-> 0]

Row == [state: {"none", "live", "gone"}, content: Nat, modifiedAt: Time, syncedAt: Time]

NoRow(state) ==
    [state |-> state, content |-> NoDoc, modifiedAt |-> NoTime, syncedAt |-> NoTime]

Live(s) == row[s].state = "live"

\* The WHERE clause of the watermark scan: SyncedAt IS NULL OR SyncedAt < ModifiedAt.
Unsynced(s) == Live(s) /\ row[s].syncedAt < row[s].modifiedAt

Syncs(s) == {j \in ToSet(batch) : j.action = "sync" /\ j.scenario = s}
\* Slip: a batch folded to one job per scenario, the upsert kept.
DeletesOfUnsaved(s) ==
    {j \in ToSet(batch) : j.action = "delete" /\ j.scenario = s /\ Syncs(s) = {}}

Deletes(s) == {j \in ToSet(batch) : j.action = "delete" /\ j.scenario = s}

\* A failure of the given kind happens, within the bound.
Fault(kind) ==
    /\ kind \in Faults
    /\ faults < MaxFaults
    /\ faults' = faults + 1

MysqlType ==
    /\ now \in Nat /\ saves \in Nat
    /\ row \in [Scenario -> Row]

RedisType ==
    /\ queue \in Seq(Job) /\ processing \in Seq(Job) /\ dlq \in Seq(Job)
    /\ status \in [Scenario -> {"none", "pending", "degraded", "success", "failed"}]
    /\ lock \in BOOLEAN /\ circuit \in BOOLEAN

FirestoreType ==
    /\ doc \in [Scenario -> Nat]
    /\ uploaded \in [Scenario -> SUBSET Nat]

HandlersType ==
    /\ pc \in [Actor -> {"idle", "update", "reread", "remove", "push", "status"}]
    /\ held \in [Actor -> Job \cup {NoJob}]
    /\ entry \in [Actor -> Job \cup {NoJob}]

WorkerType ==
    /\ wpc \in {"idle", "upsert", "delete", "ack", "mark", "requeue", "release"}
    /\ batch \in Seq(Job) /\ todo \in Seq(Job)
    /\ failures \in Nat

TypeOK ==
    MysqlType /\ RedisType /\ FirestoreType /\ HandlersType /\ WorkerType /\ faults \in Nat

Init ==
    /\ now = 0 /\ saves = 0 /\ faults = 0
    /\ row = [s \in Scenario |-> NoRow("none")]
    /\ queue = <<>> /\ processing = <<>> /\ dlq = <<>>
    /\ status = [s \in Scenario |-> "none"]
    /\ lock = FALSE /\ circuit = FALSE
    /\ doc = [s \in Scenario |-> NoDoc]
    /\ uploaded = [s \in Scenario |-> {}]
    /\ pc = [a \in Actor |-> "idle"]
    /\ held = [a \in Actor |-> NoJob]
    /\ entry = [a \in Actor |-> NoJob]
    /\ wpc = "idle" /\ batch = <<>> /\ todo = <<>>
    /\ failures = 0

-----------------------------------------------------------------------------
(* The request handlers of scenarioCrud.js.                                *)

Goto(a, next, job) ==
    /\ pc' = [pc EXCEPT ![a] = next]
    /\ held' = [held EXCEPT ![a] = job]

\* Whether request r may start on s: under OneWriter the client is not
\* already waiting for an answer about s.
MayStart(r, s) ==
    /\ pc[r] = "idle"
    /\ OneWriter => \A q \in Request : pc[q] # "idle" => held[q].scenario # s

\* createScenario: the INSERT carries ModifiedAt = DataTypes.NOW, the API
\* host's clock, and the job carries the same value.
CreateScenario(r, s) ==
    /\ MayStart(r, s)
    /\ row[s].state = "none"
    /\ saves < MaxSaves
    /\ saves' = saves + 1
    /\ row' = [row EXCEPT ![s] = [state |-> "live", content |-> saves + 1,
                                  modifiedAt |-> now + Skew, syncedAt |-> NoTime]]
    /\ Goto(r, "push", SyncJob(s, saves + 1, now + Skew))
    /\ UNCHANGED <<now, redis, firestore, entry, worker, faults>>

\* updateScenario up to its first await: the row exists and is the user's.
UpdateFind(r, s) ==
    /\ MayStart(r, s)
    /\ Live(s)
    /\ saves < MaxSaves
    /\ saves' = saves + 1
    /\ Goto(r, "update", SyncJob(s, saves + 1, NoTime))
    /\ UNCHANGED <<now, row, redis, firestore, entry, worker, faults>>

\* The UPDATE transaction; MySQL sets ModifiedAt. Nothing checks that a row
\* was affected: one deleted in between is updated zero times, without an error.
UpdateCommit(r) ==
    /\ pc[r] = "update"
    /\ LET s == held[r].scenario IN
         \/ /\ Live(s)
            /\ FreshSecond => now # row[s].modifiedAt
            /\ row' = [row EXCEPT ![s].content = held[r].content, ![s].modifiedAt = now]
         \/ /\ ~Live(s)
            /\ UNCHANGED row
    /\ pc' = [pc EXCEPT ![r] = "reread"]
    /\ UNCHANGED <<now, saves, redis, firestore, held, entry, worker, faults>>

\* The second findOne: ModifiedAt as it is now, or null when the row is gone.
UpdateReread(r) ==
    /\ pc[r] = "reread"
    /\ LET s == held[r].scenario IN
         Goto(r, "push", SyncJob(s, held[r].content,
                                 IF Live(s) THEN row[s].modifiedAt ELSE NoTime))
    /\ UNCHANGED <<mysql, redis, firestore, entry, worker, faults>>

\* deleteScenario: DESTROY, then a delete job. With no row it answers 404.
DeleteScenario(r, s) ==
    /\ "delete" \in Operations
    /\ MayStart(r, s)
    /\ Live(s)
    /\ row' = [row EXCEPT ![s] = NoRow("gone")]
    /\ Goto(r, "push", DeleteJob(s))
    /\ UNCHANGED <<now, saves, redis, firestore, entry, worker, faults>>

\* shareScenario and approveSharedConfig save other columns: ModifiedAt moves
\* (ON UPDATE CURRENT_TIMESTAMP), nothing is enqueued.
ShareScenario(s) ==
    /\ "share" \in Operations
    /\ Live(s)
    /\ saves < MaxSaves
    /\ saves' = saves + 1
    /\ row' = [row EXCEPT ![s].modifiedAt = now]
    /\ UNCHANGED <<now, redis, firestore, handlers, worker, faults>>

\* adminService.deleteSharedConfig destroys the row and enqueues nothing.
DeleteSharedConfig(s) ==
    /\ "adminDelete" \in Operations
    /\ Live(s)
    /\ row' = [row EXCEPT ![s] = NoRow("gone")]
    /\ UNCHANGED <<now, saves, redis, firestore, handlers, worker, faults>>

\* One second passes. Seconds that no comparison in the code could tell apart
\* (later than every ModifiedAt by more than the grace period) are left out.
Tick ==
    /\ \E s \in Scenario : Live(s) /\ now <= row[s].modifiedAt + Grace
    /\ now' = now + 1
    /\ UNCHANGED <<saves, row, redis, firestore, handlers, worker, faults>>

-----------------------------------------------------------------------------
(* enqueue: LPUSH, then the status hash.                                   *)

Enqueue(a) ==
    /\ pc[a] = "push"
    /\ queue' = Append(queue, held[a])
    /\ pc' = [pc EXCEPT ![a] = "status"]
    /\ UNCHANGED <<mysql, processing, dlq, status, lock, circuit, firestore, held, entry,
                   worker, faults>>

\* Redis refuses the LPUSH, or takes it and its answer is lost. A handler
\* answers "degraded" and tries to record it; a reconcile pass only reports it.
EnqueueFails(a) ==
    /\ pc[a] = "push"
    /\ Fault("enqueue")
    /\ queue' \in {queue, Append(queue, held[a])}
    /\ \/ UNCHANGED status
       \/ a \in Request /\ status' = [status EXCEPT ![held[a].scenario] = "degraded"]
    /\ Goto(a, "idle", NoJob)
    /\ UNCHANGED <<mysql, processing, dlq, lock, circuit, firestore, entry, worker>>

SetPending(a) ==
    /\ pc[a] = "status"
    /\ status' = [status EXCEPT ![held[a].scenario] = "pending"]
    /\ Goto(a, "idle", NoJob)
    /\ UNCHANGED <<mysql, queue, processing, dlq, lock, circuit, firestore, entry, worker,
                   faults>>

-----------------------------------------------------------------------------
(* The worker: processQueueBatch. A poll that finds the lock taken or the  *)
(* queue empty leaves everything as it was and is no step here.            *)

\* recordFirestoreBatchFailure; its key expires by itself (CircuitExpires).
RecordFailure ==
    /\ failures' = IF failures < CircuitThreshold THEN failures + 1 ELSE failures
    /\ circuit' = (circuit \/ failures + 1 >= CircuitThreshold)

MinOf(m, n) == IF m <= n THEN m ELSE n

\* RPOPLPUSH n times: the n oldest jobs move from queue to processing.
Move(n) ==
    /\ queue' = SubSeq(queue, n + 1, Len(queue))
    /\ processing' = processing \o SubSeq(queue, 1, n)

ClaimBatch ==
    /\ wpc = "idle" /\ ~lock /\ queue # <<>>
    /\ lock' = TRUE
    /\ LET n == MinOf(BatchSize, Len(queue)) IN
         /\ Move(n)
         /\ batch' = SubSeq(queue, 1, n)
    /\ wpc' = "upsert"
    /\ UNCHANGED <<mysql, dlq, status, circuit, firestore, handlers, todo, failures, faults>>

\* A RPOPLPUSH throws after n jobs moved: claimedRaws is still empty, so those
\* jobs stay in processing and nobody requeues them.
ClaimFails ==
    /\ wpc = "idle" /\ ~lock /\ queue # <<>>
    /\ Fault("claim")
    /\ lock' = TRUE
    /\ \E n \in 1..MinOf(BatchSize, Len(queue)) : Move(n)
    /\ wpc' = "release"
    /\ RecordFailure
    /\ UNCHANGED <<mysql, dlq, status, firestore, handlers, batch, todo>>

\* One Firestore batch of set(): of two writes to one document the later wins.
ApplyUpserts ==
    /\ doc' = [s \in Scenario |->
                 LET I == {i \in DOMAIN batch : batch[i] \in Syncs(s)} IN
                 IF I = {} THEN doc[s]
                 ELSE batch[CHOOSE i \in I : \A k \in I : k <= i].content]
    /\ uploaded' = [s \in Scenario |-> uploaded[s] \cup {j.content : j \in Syncs(s)}]

\* Slip: an early return taken for success, as batchDelete has without a client.
ApplyNoDelete ==
    UNCHANGED firestore

ApplyDeletes ==
    /\ doc' = [s \in Scenario |-> IF Deletes(s) # {} THEN NoDoc ELSE doc[s]]
    /\ UNCHANGED uploaded

BatchSaveScenarioContent ==
    /\ wpc = "upsert"
    /\ ApplyUpserts
    /\ wpc' = "delete"
    /\ UNCHANGED <<mysql, redis, handlers, batch, todo, failures, faults>>

BatchDeleteScenarioContent ==
    /\ wpc = "delete"
    /\ ApplyDeletes
    /\ wpc' = "ack"
    /\ todo' = batch
    /\ UNCHANGED <<mysql, redis, handlers, batch, failures, faults>>

\* commit() throws: refused, or applied with its answer lost.
FirestoreFails ==
    /\ \/ /\ wpc = "upsert"
          /\ \E s \in Scenario : Syncs(s) # {}
          /\ ApplyUpserts \/ UNCHANGED firestore
       \/ /\ wpc = "delete"
          /\ \E s \in Scenario : Deletes(s) # {}
          /\ ApplyDeletes \/ UNCHANGED firestore
    /\ Fault("firestore")
    /\ wpc' = "requeue"
    /\ todo' = batch
    /\ RecordFailure
    /\ UNCHANGED <<mysql, queue, processing, dlq, status, lock, handlers, batch>>

\* Slip: ackBatch empties the list instead of taking its jobs out of it.
AckAll ==
    /\ wpc = "ack" /\ todo # <<>>
    /\ processing' = <<>>
    /\ todo' = Tail(todo)
    /\ UNCHANGED <<mysql, queue, dlq, status, lock, circuit, firestore, handlers, wpc, batch,
                   failures, faults>>

\* One turn of ackBatch's loop.
AckOne ==
    /\ wpc = "ack" /\ todo # <<>>
    /\ processing' = RemoveFirst(processing, Head(todo))
    /\ todo' = Tail(todo)
    /\ UNCHANGED <<mysql, queue, dlq, status, lock, circuit, firestore, handlers, wpc, batch,
                   failures, faults>>

\* The loop is over; the status of every job's scenario becomes success.
AckDone ==
    /\ wpc = "ack" /\ todo = <<>>
    /\ status' = [s \in Scenario |-> IF Syncs(s) \cup Deletes(s) # {} THEN "success" ELSE status[s]]
    /\ wpc' = "mark"
    /\ UNCHANGED <<mysql, queue, processing, dlq, lock, circuit, firestore, handlers, batch,
                   todo, failures, faults>>

\* An LREM throws: the whole batch is requeued, what was acked included.
AckFails ==
    /\ wpc = "ack" /\ todo # <<>>
    /\ Fault("ack")
    /\ todo' = batch
    /\ wpc' = "requeue"
    /\ RecordFailure
    /\ UNCHANGED <<mysql, queue, processing, dlq, status, lock, firestore, handlers, batch>>

\* Slip: the condition AND ModifiedAt = snapshot forgotten.
MarkAnyVersion(J) ==
    row' = [s \in Scenario |->
              IF Live(s) /\ J \cap Syncs(s) # {}
              THEN [row[s] EXCEPT !.syncedAt = row[s].modifiedAt] ELSE row[s]]

\* The two UPDATEs of markScenariosSynced for the jobs J: with a snapshot, only
\* WHERE ModifiedAt = snapshot; without one, SyncedAt = NOW().
Mark(J) ==
    row' = [s \in Scenario |->
              IF ~Live(s) THEN row[s]
              ELSE IF \E j \in J \cap Syncs(s) : j.modifiedAt = row[s].modifiedAt
              THEN [row[s] EXCEPT !.syncedAt = row[s].modifiedAt]
              ELSE IF \E j \in J \cap Syncs(s) : j.modifiedAt = NoTime
              THEN [row[s] EXCEPT !.syncedAt = now]
              ELSE row[s]]

\* Each UPDATE is best effort: those that fail are skipped.
MarkScenariosSynced ==
    /\ wpc = "mark"
    /\ \/ Mark(ToSet(batch)) /\ UNCHANGED faults
       \/ Fault("mark") /\ \E J \in SUBSET ToSet(batch) : Mark(J)
    /\ wpc' = "release"
    /\ batch' = <<>>
    /\ failures' = 0
    /\ UNCHANGED <<now, saves, redis, firestore, handlers, todo>>

\* One turn of requeueBatch's loop: LREM, then DLQ after MaxRetry retries, else
\* LPUSH with one retry more, behind every job that is already queued.
RequeueOne ==
    /\ wpc = "requeue" /\ todo # <<>>
    /\ LET j == Head(todo) IN
         /\ processing' = RemoveFirst(processing, j)
         /\ \/ /\ j.retry >= MaxRetry
               /\ dlq' = Append(dlq, j)
               /\ status' = [status EXCEPT ![j.scenario] = "failed"]
               /\ UNCHANGED queue
            \/ /\ j.retry < MaxRetry
               /\ queue' = Append(queue, [j EXCEPT !.retry = j.retry + 1])
               /\ UNCHANGED <<dlq, status>>
    /\ todo' = Tail(todo)
    /\ UNCHANGED <<mysql, lock, circuit, firestore, handlers, wpc, batch, failures, faults>>

RequeueDone ==
    /\ wpc = "requeue" /\ todo = <<>>
    /\ wpc' = "release"
    /\ batch' = <<>>
    /\ UNCHANGED <<mysql, redis, firestore, handlers, todo, failures, faults>>

\* requeueBatch throws, before or after the LREM of the job it is at: the error
\* is only logged and what is left of the batch stays where it is.
RequeueFails ==
    /\ wpc = "requeue" /\ todo # <<>>
    /\ Fault("requeue")
    /\ processing' \in {processing, RemoveFirst(processing, Head(todo))}
    /\ todo' = <<>>
    /\ batch' = <<>>
    /\ wpc' = "release"
    /\ UNCHANGED <<mysql, queue, dlq, status, lock, circuit, firestore, handlers, failures>>

ReleaseOutboxLock ==
    /\ wpc = "release"
    /\ lock' = FALSE
    /\ wpc' = "idle"
    /\ UNCHANGED <<mysql, queue, processing, dlq, status, circuit, firestore, handlers, batch,
                   todo, failures, faults>>

\* EX OUTBOX_LOCK_TTL_SEC. Within one process the flag "processing" excludes a
\* second batch whatever the key says, so only the key of a dead run matters.
LockExpires ==
    /\ lock /\ wpc = "idle"
    /\ lock' = FALSE
    /\ UNCHANGED <<mysql, queue, processing, dlq, status, circuit, firestore, handlers, worker,
                   faults>>

\* EX CIRCUIT_TTL_SEC.
CircuitExpires ==
    /\ circuit
    /\ circuit' = FALSE
    /\ UNCHANGED <<mysql, queue, processing, dlq, status, lock, firestore, handlers, worker,
                   faults>>

\* The process dies and is started again: every handler, pass and batch in
\* memory is gone, Redis, MySQL and Firestore are as they were. Between the
\* LREM and the LPUSH of a requeued job ("requeue") that job is in no list.
Crash ==
    /\ Fault("crash")
    /\ pc' = [a \in Actor |-> "idle"]
    /\ held' = [a \in Actor |-> NoJob]
    /\ entry' = [a \in Actor |-> NoJob]
    /\ wpc' = "idle" /\ batch' = <<>> /\ todo' = <<>>
    /\ failures' = 0
    /\ \/ UNCHANGED processing
       \/ /\ "requeue" \in Faults /\ wpc = "requeue" /\ todo # <<>>
          /\ processing' = RemoveFirst(processing, Head(todo))
    /\ UNCHANGED <<mysql, queue, dlq, status, lock, circuit, firestore>>

-----------------------------------------------------------------------------
(* The reconcile passes.                                                   *)

\* Slip: the DLQ entry's own content pushed again, with the row's ModifiedAt.
DlqReadOldContent(c, i) ==
    /\ "dlq" \in Operations
    /\ pc[c] = "idle"
    /\ i \in DOMAIN dlq
    /\ LET s == dlq[i].scenario IN
         Goto(c, "remove",
              IF dlq[i].action = "delete"
              THEN IF Live(s) THEN DeleteJob(s) ELSE NoJob
              ELSE IF Live(s) THEN SyncJob(s, dlq[i].content, row[s].modifiedAt)
                   ELSE DeleteJob(s))
    /\ entry' = [entry EXCEPT ![c] = dlq[i]]
    /\ UNCHANGED <<mysql, redis, firestore, worker, faults>>

\* reconcileDlqItem up to findByPk: what will replace the entry is settled now.
DlqRead(c, i) ==
    /\ "dlq" \in Operations
    /\ pc[c] = "idle"
    /\ i \in DOMAIN dlq
    /\ LET s == dlq[i].scenario IN
         Goto(c, "remove",
              IF dlq[i].action = "delete"
              THEN IF Live(s) THEN DeleteJob(s) ELSE NoJob
              ELSE IF Live(s) THEN SyncJob(s, row[s].content, row[s].modifiedAt)
                   ELSE DeleteJob(s))
    /\ entry' = [entry EXCEPT ![c] = dlq[i]]
    /\ UNCHANGED <<mysql, redis, firestore, worker, faults>>

\* removeFromDlq; a delete whose row is gone counts as confirmed and is dropped.
DlqRemove(c) ==
    /\ pc[c] = "remove"
    /\ dlq' = RemoveFirst(dlq, entry[c])
    /\ entry' = [entry EXCEPT ![c] = NoJob]
    /\ \/ /\ held[c] = NoJob
          /\ status' = [status EXCEPT ![entry[c].scenario] = "success"]
          /\ pc' = [pc EXCEPT ![c] = "idle"]
       \/ /\ held[c] # NoJob
          /\ pc' = [pc EXCEPT ![c] = "push"]
          /\ UNCHANGED status
    /\ UNCHANGED <<mysql, queue, processing, lock, circuit, firestore, held, worker, faults>>

\* Slip: the scan looks for SyncedAt IS NULL only.
WatermarkReadNull(c, s) ==
    /\ "watermark" \in Operations
    /\ pc[c] = "idle"
    /\ ~circuit
    /\ Live(s) /\ row[s].syncedAt = NoTime
    /\ row[s].modifiedAt < now - Grace
    /\ Len(queue) < MaxQueue
    /\ Goto(c, "push", SyncJob(s, row[s].content, row[s].modifiedAt))
    /\ UNCHANGED <<mysql, redis, firestore, entry, worker, faults>>

\* reconcileUnsyncedScenarios, for one of the rows it selects.
WatermarkRead(c, s) ==
    /\ "watermark" \in Operations
    /\ pc[c] = "idle"
    /\ ~circuit
    /\ Unsynced(s)
    /\ row[s].modifiedAt < now - Grace
    /\ Len(queue) < MaxQueue
    /\ Goto(c, "push", SyncJob(s, row[s].content, row[s].modifiedAt))
    /\ UNCHANGED <<mysql, redis, firestore, entry, worker, faults>>

-----------------------------------------------------------------------------
User ==
    \/ \E r \in Request, s \in Scenario :
         CreateScenario(r, s) \/ UpdateFind(r, s) \/ DeleteScenario(r, s)
    \/ \E s \in Scenario : ShareScenario(s) \/ DeleteSharedConfig(s)

Handler(a) ==
    UpdateCommit(a) \/ UpdateReread(a) \/ DlqRemove(a) \/ Enqueue(a) \/ SetPending(a)

Worker ==
    \/ ClaimBatch \/ BatchSaveScenarioContent \/ BatchDeleteScenarioContent
    \/ AckOne \/ AckDone \/ MarkScenariosSynced
    \/ RequeueOne \/ RequeueDone \/ ReleaseOutboxLock

Expiry == LockExpires \/ CircuitExpires

Failure ==
    \/ \E a \in Actor : EnqueueFails(a)
    \/ ClaimFails \/ FirestoreFails \/ AckFails \/ RequeueFails \/ Crash

Reconcile(c) ==
    \/ \E i \in DOMAIN dlq : DlqRead(c, i)
    \/ \E s \in Scenario : WatermarkRead(c, s)

Next ==
    \/ User
    \/ Tick
    \/ \E a \in Actor : Handler(a)
    \/ Worker
    \/ Expiry
    \/ Failure
    \/ \E c \in Reconciler : Reconcile(c)

Spec == Init /\ [][Next]_vars

\* A handler that started runs on; setInterval polls for ever, so the worker
\* and the passes of its reconcilers come round again; the clock and the TTLs
\* run. Nothing obliges a user to act, and no failure is obliged to happen.
Fairness ==
    /\ WF_vars(Tick)
    /\ WF_vars(Worker)
    /\ WF_vars(LockExpires)
    /\ WF_vars(CircuitExpires)
    /\ \A a \in Actor : WF_vars(Handler(a))
    /\ WF_vars(\E c \in Reconciler, i \in DOMAIN dlq : DlqRead(c, i))
    /\ \A s \in Scenario : SF_vars(\E c \in Reconciler : WatermarkRead(c, s))

FairSpec == Spec /\ Fairness

-----------------------------------------------------------------------------
(* Properties.                                                             *)

\* A row whose watermark has caught up (so that no reconcile pass will ever look
\* at it again) holds a content Firestore has accepted: what the header of
\* scenarioSyncWatermark.js says SyncedAt >= ModifiedAt means. No save is lost
\* from sight whatever fails: the enqueue, the batch, the ack, the process.
WatermarkSound ==
    \A s \in Scenario : Live(s) /\ ~Unsynced(s) => row[s].content \in uploaded[s]

\* The jobs on their way, wherever they are: in a list, claimed or being prepared.
Carried ==
    ToSet(queue) \cup ToSet(processing) \cup ToSet(dlq) \cup ToSet(batch) \cup ToSet(todo)
      \cup ({held[a] : a \in Actor} \ {NoJob})

\* A snapshot of ModifiedAt identifies a content: a job whose snapshot is the
\* row's current ModifiedAt carries the row's current content. This is what makes
\* the conditional UPDATE of markScenariosSynced a correct check.
SnapshotNamesContent ==
    \A j \in Carried :
        j.action = "sync" /\ Live(j.scenario) /\ j.modifiedAt = row[j.scenario].modifiedAt
            => j.content = row[j.scenario].content

\* The safety net works: a row that is behind catches up, is saved again or is
\* deleted; a stranded, lost, buried or degraded job is made good by a pass.
EventuallySynced ==
    \A s \in Scenario, v \in 1..MaxSaves :
        (Unsynced(s) /\ row[s].content = v) ~> ~(Unsynced(s) /\ row[s].content = v)

\* Firestore ends up as a mirror of the table: the content of each live row, no
\* document for any other.
Mirrored(s) == doc[s] = (IF Live(s) THEN row[s].content ELSE NoDoc)
EventuallyMirrored == \A s \in Scenario : <>[]Mirrored(s)

\* A document without a row never stays behind unnoticed: the job that will
\* delete it is queued, claimed or about to be pushed. Within one batch that
\* rests on deletes being applied after upserts.
DeleteOnItsWay(s) ==
    \/ \E j \in ToSet(queue) \cup ToSet(batch) : j.action = "delete" /\ j.scenario = s
    \/ \E r \in Request : pc[r] = "push" /\ held[r] = DeleteJob(s)
NoOrphan == \A s \in Scenario : ~Live(s) /\ doc[s] # NoDoc => DeleteOnItsWay(s)

\* A deletion the API accepted reaches Firestore in the end.
DeleteMirrored ==
    \A s \in Scenario : (row[s].state = "gone") ~> (doc[s] = NoDoc)

\* What a job asks for, without the snapshot and the retries.
Asked(j) == [action |-> j.action, scenario |-> j.scenario, content |-> j.content]
Works(list) == {Asked(j) : j \in ToSet(list)}

\* The lists of Redis and the Firestore collection as ContentMirror sees them.
Outbox == INSTANCE ContentMirror WITH
    queued <- Works(queue) \cup Works(processing),
    buried <- Works(dlq),
    stored <- uploaded,
    mirror <- doc,
    halfway <- "requeue" \in Faults /\ wpc = "requeue"

\* No job is dropped before Firestore has what it asks for, whatever batch, ack,
\* requeue or process fails, and nothing reaches Firestore that was not enqueued:
\* the at-least-once queue of ContentMirror, which loses a job only when a
\* requeue stops between its LREM and its LPUSH.
AtLeastOnce == Outbox!MirrorSpec
=============================================================================
