------------------------ MODULE ScenarioOutboxProofs ------------------------
(***************************************************************************)
(* Theorems about the synchronisation pipeline of ScenarioOutbox, for      *)
(* every value of its constants.                                           *)
(*                                                                         *)
(* TypeInv, the type invariant with what a handler holds at each of its    *)
(* awaits, is inductive by itself.                                         *)
(*                                                                         *)
(* SyncInv is the strengthening that makes WatermarkSound inductive: a     *)
(* mark compares a job's snapshot with the row's ModifiedAt, so every job, *)
(* wherever it is, must be one a snapshot of the table could have made     *)
(* (SoundJobs), and what reaches the mark must have been written           *)
(* (BatchWritten).                                                         *)
(*                                                                         *)
(* OrphanInv makes NoOrphan inductive: a delete job must be shown to be    *)
(* applied after every upsert it is behind, through claims, failed batches *)
(* and requeues.                                                           *)
(***************************************************************************)
EXTENDS ScenarioOutbox, SequenceLemmas

\* What a handler or a pass holds at each of its awaits.
HandlersHoldJobs ==
    \A a \in Actor :
        /\ pc[a] = "idle" => held[a] = NoJob
        /\ pc[a] \in {"update", "reread", "push", "status"} => held[a] \in Job
        /\ pc[a] \in {"update", "reread"} => a \in Request /\ held[a].action = "sync"
                                               /\ held[a].modifiedAt = NoTime
        /\ pc[a] = "remove" => a \in Reconciler /\ entry[a] \in Job

TypeInv == TypeOK /\ HandlersHoldJobs

\* The jobs the code builds are jobs, with the fields they were built from.
LEMMA JobTypes ==
    /\ \A s \in Scenario, v \in Nat, t \in Time :
         /\ SyncJob(s, v, t) \in Job
         /\ SyncJob(s, v, t).action = "sync"
         /\ SyncJob(s, v, t).scenario = s
         /\ SyncJob(s, v, t).content = v
         /\ SyncJob(s, v, t).modifiedAt = t
    /\ \A s \in Scenario :
         /\ DeleteJob(s) \in Job
         /\ DeleteJob(s).action = "delete"
         /\ DeleteJob(s).scenario = s
    /\ NoJob \notin Job
    /\ NoTime \in Time
BY OutboxAssumption DEF SyncJob, DeleteJob, Job, Time, NoTime, NoDoc

\* The fields of a job.
LEMMA JobFields ==
    ASSUME NEW j \in Job
    PROVE  /\ j.action \in {"sync", "delete"} /\ j.scenario \in Scenario
           /\ j.content \in Nat /\ j.modifiedAt \in Time /\ j.retry \in Nat
BY DEF Job

\* A part of the state that does not change keeps its type.
LEMMA UnchangedTypes ==
    /\ MysqlType /\ UNCHANGED mysql => MysqlType'
    /\ RedisType /\ UNCHANGED redis => RedisType'
    /\ FirestoreType /\ UNCHANGED firestore => FirestoreType'
    /\ HandlersType /\ UNCHANGED handlers => HandlersType'
    /\ WorkerType /\ UNCHANGED worker => WorkerType'
BY DEF mysql, redis, firestore, handlers, worker,
       MysqlType, RedisType, FirestoreType, HandlersType, WorkerType

\* The initial state has the types.
LEMMA TypeInvInit == Init => TypeInv
<1> SUFFICES ASSUME Init PROVE TypeInv
  OBVIOUS
<1>1. MysqlType /\ faults \in Nat
  BY DEF Init, MysqlType, NoRow, Row, Time, NoDoc, NoTime
<1>2. RedisType
  BY EmptySeq DEF Init, RedisType
<1>3. FirestoreType
  BY DEF Init, FirestoreType, NoDoc
<1>4. HandlersType /\ HandlersHoldJobs
  BY DEF Init, HandlersType, HandlersHoldJobs
<1>5. WorkerType
  BY EmptySeq DEF Init, WorkerType
<1> QED BY <1>1, <1>2, <1>3, <1>4, <1>5 DEF TypeInv, TypeOK

\* Handlers that do not move hold what they held.
LEMMA UnchangedHandlers ==
    TypeInv /\ UNCHANGED handlers => HandlersType' /\ HandlersHoldJobs'
BY DEF TypeInv, TypeOK, HandlersType, HandlersHoldJobs, handlers

\* createScenario keeps the types.
LEMMA CreateScenarioType ==
    ASSUME TypeInv, NEW r \in Request, NEW s \in Scenario, CreateScenario(r, s)
    PROVE  TypeInv'
<1>1. SyncJob(s, saves + 1, now + Skew) \in Job
  BY JobTypes, OutboxAssumption DEF TypeInv, TypeOK, MysqlType, Time
<1>2. MysqlType'
  BY OutboxAssumption DEF TypeInv, TypeOK, MysqlType, CreateScenario, Row, Time, NoTime
<1>3. HandlersType' /\ HandlersHoldJobs'
  BY <1>1 DEF TypeInv, TypeOK, HandlersType, HandlersHoldJobs, CreateScenario, Goto, Actor
<1> QED BY <1>2, <1>3, UnchangedTypes DEF CreateScenario, TypeInv, TypeOK
\* updateScenario, its first read keeps the types.
LEMMA UpdateFindType ==
    ASSUME TypeInv, NEW r \in Request, NEW s \in Scenario, UpdateFind(r, s)
    PROVE  TypeInv'
<1> DEFINE j == SyncJob(s, saves + 1, NoTime)
<1>1. j \in Job /\ j.action = "sync" /\ j.modifiedAt = NoTime
  BY JobTypes DEF TypeInv, TypeOK, MysqlType
<1>2. MysqlType'
  BY DEF TypeInv, TypeOK, MysqlType, UpdateFind
<1>3. HandlersType' /\ HandlersHoldJobs'
  <2> HIDE DEF j
  <2>1. Goto(r, "update", j) /\ entry' = entry
    BY DEF UpdateFind, j
  <2> QED BY <1>1, <2>1 DEF TypeInv, TypeOK, HandlersType, HandlersHoldJobs, Goto, Actor
<1> QED BY <1>2, <1>3, UnchangedTypes DEF UpdateFind, TypeInv, TypeOK

\* updateScenario, its transaction keeps the types.
LEMMA UpdateCommitType ==
    ASSUME TypeInv, NEW r \in Actor, UpdateCommit(r)
    PROVE  TypeInv'
<1>1. held[r] \in Job /\ r \in Request /\ held[r].action = "sync" /\ held[r].modifiedAt = NoTime
  BY DEF UpdateCommit, TypeInv, HandlersHoldJobs
<1>2. MysqlType'
  BY <1>1, JobFields DEF TypeInv, TypeOK, MysqlType, UpdateCommit, Row, Time
<1>3. HandlersType' /\ HandlersHoldJobs'
  BY <1>1 DEF TypeInv, TypeOK, HandlersType, HandlersHoldJobs, UpdateCommit, Actor
<1> QED BY <1>2, <1>3, UnchangedTypes DEF UpdateCommit, TypeInv, TypeOK

\* updateScenario, its second read keeps the types.
LEMMA UpdateRereadType ==
    ASSUME TypeInv, NEW r \in Actor, UpdateReread(r)
    PROVE  TypeInv'
<1> DEFINE s == held[r].scenario
           j == SyncJob(s, held[r].content, IF Live(s) THEN row[s].modifiedAt ELSE NoTime)
<1>1. held[r] \in Job
  BY DEF UpdateReread, TypeInv, HandlersHoldJobs
<1>2. s \in Scenario /\ held[r].content \in Nat /\ row[s].modifiedAt \in Time
  BY <1>1, JobFields DEF TypeInv, TypeOK, MysqlType, Row
<1>3. j \in Job
  BY <1>2, JobTypes
<1>4. HandlersType' /\ HandlersHoldJobs'
  <2> HIDE DEF j
  <2>1. Goto(r, "push", j) /\ entry' = entry
    BY DEF UpdateReread, j
  <2> QED BY <1>3, <2>1 DEF TypeInv, TypeOK, HandlersType, HandlersHoldJobs, Goto, Actor
<1> QED BY <1>4, UnchangedTypes DEF UpdateReread, TypeInv, TypeOK

\* deleteScenario keeps the types.
LEMMA DeleteScenarioType ==
    ASSUME TypeInv, NEW r \in Request, NEW s \in Scenario, DeleteScenario(r, s)
    PROVE  TypeInv'
<1>1. DeleteJob(s) \in Job
  BY JobTypes
<1>2. MysqlType'
  BY DEF TypeInv, TypeOK, MysqlType, DeleteScenario, NoRow, Row, Time, NoTime, NoDoc
<1>3. HandlersType' /\ HandlersHoldJobs'
  BY <1>1 DEF TypeInv, TypeOK, HandlersType, HandlersHoldJobs, DeleteScenario, Goto, Actor
<1> QED BY <1>2, <1>3, UnchangedTypes DEF DeleteScenario, TypeInv, TypeOK

\* The steps that change nothing but the table or the clock.
LEMMA TableOnlyType ==
    ASSUME TypeInv,
           Tick \/ \E s \in Scenario : ShareScenario(s) \/ DeleteSharedConfig(s)
    PROVE  TypeInv'
<1>1. CASE Tick
  <2>1. MysqlType'
    BY <1>1 DEF TypeInv, TypeOK, MysqlType, Tick
  <2> QED BY <1>1, <2>1, UnchangedTypes, UnchangedHandlers DEF Tick, TypeInv, TypeOK
<1>2. ASSUME NEW s \in Scenario, ShareScenario(s)
      PROVE  TypeInv'
  <2>1. MysqlType'
    BY <1>2 DEF TypeInv, TypeOK, MysqlType, ShareScenario, Row, Time
  <2> QED BY <1>2, <2>1, UnchangedTypes, UnchangedHandlers DEF ShareScenario, TypeInv, TypeOK
<1>3. ASSUME NEW s \in Scenario, DeleteSharedConfig(s)
      PROVE  TypeInv'
  <2>1. MysqlType'
    BY <1>3 DEF TypeInv, TypeOK, MysqlType, DeleteSharedConfig, NoRow, Row, Time, NoTime, NoDoc
  <2> QED BY <1>3, <2>1, UnchangedTypes, UnchangedHandlers DEF DeleteSharedConfig, TypeInv, TypeOK
<1> QED BY <1>1, <1>2, <1>3

\* enqueue, whether it succeeds or fails, keeps the types.
LEMMA EnqueueType ==
    ASSUME TypeInv, NEW a \in Actor, Enqueue(a)
    PROVE  TypeInv'
<1>1. held[a] \in Job
  BY DEF Enqueue, TypeInv, HandlersHoldJobs
<1>2. queue' \in Seq(Job)
  BY <1>1, AppendElements DEF Enqueue, TypeInv, TypeOK, RedisType
<1>3. RedisType'
  BY <1>2 DEF TypeInv, TypeOK, RedisType, Enqueue
<1>4. HandlersType' /\ HandlersHoldJobs'
  BY <1>1 DEF TypeInv, TypeOK, HandlersType, HandlersHoldJobs, Enqueue
<1> QED BY <1>3, <1>4, UnchangedTypes DEF Enqueue, TypeInv, TypeOK

\* An enqueue that fails keeps the types.
LEMMA EnqueueFailsType ==
    ASSUME TypeInv, NEW a \in Actor, EnqueueFails(a)
    PROVE  TypeInv'
<1>1. held[a] \in Job
  BY DEF EnqueueFails, TypeInv, HandlersHoldJobs
<1>2. queue' \in Seq(Job)
  <2>1. queue \in Seq(Job)
    BY DEF TypeInv, TypeOK, RedisType
  <2>2. Append(queue, held[a]) \in Seq(Job)
    BY <1>1, <2>1, AppendElements
  <2> QED BY <2>1, <2>2 DEF EnqueueFails
<1>3. RedisType'
  BY <1>2 DEF TypeInv, TypeOK, RedisType, EnqueueFails
<1>4. HandlersType' /\ HandlersHoldJobs'
  BY JobTypes DEF TypeInv, TypeOK, HandlersType, HandlersHoldJobs, EnqueueFails, Goto
<1>5. faults' \in Nat
  BY DEF EnqueueFails, Fault, TypeInv, TypeOK
<1> QED BY <1>3, <1>4, <1>5, UnchangedTypes DEF EnqueueFails, TypeInv, TypeOK

\* enqueue, its status write keeps the types.
LEMMA SetPendingType ==
    ASSUME TypeInv, NEW a \in Actor, SetPending(a)
    PROVE  TypeInv'
<1>1. RedisType'
  BY DEF TypeInv, TypeOK, RedisType, SetPending
<1>2. HandlersType' /\ HandlersHoldJobs'
  BY JobTypes DEF TypeInv, TypeOK, HandlersType, HandlersHoldJobs, SetPending, Goto
<1> QED BY <1>1, <1>2, UnchangedTypes DEF SetPending, TypeInv, TypeOK

\* recordFirestoreBatchFailure keeps the types of the counter and the key.
LEMMA RecordFailureType ==
    ASSUME TypeInv, RecordFailure
    PROVE  failures' \in Nat /\ circuit' \in BOOLEAN
BY OutboxAssumption DEF RecordFailure, TypeInv, TypeOK, RedisType, WorkerType

\* RPOPLPUSH moves jobs: what is in the two lists afterwards was in one of them.
LEMMA MoveType ==
    ASSUME TypeInv, NEW n \in 0..Len(queue), Move(n)
    PROVE  /\ queue' \in Seq(Job) /\ processing' \in Seq(Job)
           /\ SubSeq(queue, 1, n) \in Seq(Job)
           /\ ToSet(queue') \subseteq ToSet(queue)
           /\ ToSet(processing') \subseteq ToSet(processing) \cup ToSet(queue)
           /\ ToSet(SubSeq(queue, 1, n)) \subseteq ToSet(queue)
<1> DEFINE old == SubSeq(queue, 1, n)
           rest == SubSeq(queue, n + 1, Len(queue))
<1>1. queue \in Seq(Job) /\ processing \in Seq(Job) /\ Len(queue) \in Nat
  BY DEF TypeInv, TypeOK, RedisType
<1>2. old \in Seq(Job) /\ ToSet(old) \subseteq ToSet(queue)
  BY <1>1, SubSeqElements
<1>3. rest \in Seq(Job) /\ ToSet(rest) \subseteq ToSet(queue)
  <2>1. n + 1 \in Int /\ 1 <= n + 1 /\ Len(queue) \in Int
    BY <1>1
  <2> QED BY <1>1, <2>1, SubSeqElements
<1>4. /\ processing \o old \in Seq(Job)
      /\ ToSet(processing \o old) = ToSet(processing) \cup ToSet(old)
  <2> HIDE DEF old
  <2> QED BY <1>1, <1>2, ConcatElements
<1> QED BY <1>2, <1>3, <1>4 DEF Move

\* claimBatch keeps the types.
LEMMA ClaimBatchType ==
    ASSUME TypeInv, ClaimBatch
    PROVE  TypeInv'
<1> DEFINE n == MinOf(BatchSize, Len(queue))
<1>1. n \in 0..Len(queue)
  BY OutboxAssumption DEF MinOf, TypeInv, TypeOK, RedisType
<1>2. Move(n) /\ batch' = SubSeq(queue, 1, n)
  BY DEF ClaimBatch
<1>3. RedisType'
  <2> HIDE DEF n
  <2> QED BY <1>1, <1>2, MoveType DEF ClaimBatch, TypeInv, TypeOK, RedisType
<1>4. WorkerType'
  <2> HIDE DEF n
  <2> QED BY <1>1, <1>2, MoveType DEF ClaimBatch, TypeInv, TypeOK, WorkerType
<1> QED BY <1>3, <1>4, UnchangedTypes, UnchangedHandlers DEF ClaimBatch, TypeInv, TypeOK

\* A claimBatch that throws keeps the types.
LEMMA ClaimFailsType ==
    ASSUME TypeInv, ClaimFails
    PROVE  TypeInv'
<1>1. PICK n \in 1..MinOf(BatchSize, Len(queue)) : Move(n)
  BY DEF ClaimFails
<1>2. n \in 0..Len(queue)
  BY OutboxAssumption DEF MinOf, TypeInv, TypeOK, RedisType
<1>3. queue' \in Seq(Job) /\ processing' \in Seq(Job)
  BY <1>1, <1>2, MoveType
<1>4. RecordFailure /\ faults' \in Nat
  BY DEF ClaimFails, Fault, TypeInv, TypeOK
<1>5. RedisType'
  BY <1>3, <1>4, RecordFailureType DEF ClaimFails, TypeInv, TypeOK, RedisType
<1>6. WorkerType'
  BY <1>4, RecordFailureType DEF ClaimFails, TypeInv, TypeOK, WorkerType
<1> QED BY <1>4, <1>5, <1>6, UnchangedTypes, UnchangedHandlers DEF ClaimFails, TypeInv, TypeOK

\* A Firestore batch writes versions: the last upsert of a scenario exists.
LEMMA ApplyType ==
    ASSUME TypeInv, ApplyUpserts \/ ApplyDeletes
    PROVE  FirestoreType'
<1>1. \A s \in Scenario : \A j \in Syncs(s) : j \in Job /\ j.content \in Nat
  BY ElementsInRange, JobFields DEF Syncs, TypeInv, TypeOK, WorkerType
<1>2. CASE ApplyUpserts
  <2>1. uploaded' \in [Scenario -> SUBSET Nat]
    BY <1>1, <1>2 DEF ApplyUpserts, TypeInv, TypeOK, FirestoreType
  <2> DEFINE I(s) == {i \in DOMAIN batch : batch[i] \in Syncs(s)}
             last(s) == CHOOSE i \in I(s) : \A k \in I(s) : k <= i
  <2>2. ASSUME NEW s \in Scenario, I(s) # {}
        PROVE  batch[last(s)].content \in Nat
    <3>1. Len(batch) \in Nat /\ I(s) \subseteq 1..Len(batch)
      BY DEF TypeInv, TypeOK, WorkerType
    <3>2. \E i \in I(s) : \A k \in I(s) : k <= i
      <4> HIDE DEF I
      <4> QED BY <2>2, <3>1, LargestExists
    <3>3. last(s) \in I(s)
      BY <3>2
    <3> QED BY <1>1, <3>3
  <2>3. doc' = [s \in Scenario |-> IF I(s) = {} THEN doc[s] ELSE batch[last(s)].content]
    BY <1>2 DEF ApplyUpserts
  <2>4. doc' \in [Scenario -> Nat]
    <3> HIDE DEF I, last
    <3> QED BY <2>2, <2>3 DEF TypeInv, TypeOK, FirestoreType
  <2> QED BY <2>1, <2>4 DEF FirestoreType
<1>3. CASE ApplyDeletes
  BY <1>3 DEF ApplyDeletes, NoDoc, TypeInv, TypeOK, FirestoreType
<1> QED BY <1>2, <1>3

\* batchSaveScenarioContent keeps the types.
LEMMA BatchSaveType ==
    ASSUME TypeInv, BatchSaveScenarioContent
    PROVE  TypeInv'
<1>1. WorkerType'
  BY DEF BatchSaveScenarioContent, TypeInv, TypeOK, WorkerType
<1> QED BY <1>1, ApplyType, UnchangedTypes, UnchangedHandlers
        DEF BatchSaveScenarioContent, TypeInv, TypeOK

\* batchDeleteScenarioContent keeps the types.
LEMMA BatchDeleteType ==
    ASSUME TypeInv, BatchDeleteScenarioContent
    PROVE  TypeInv'
<1>1. WorkerType'
  BY DEF BatchDeleteScenarioContent, TypeInv, TypeOK, WorkerType
<1> QED BY <1>1, ApplyType, UnchangedTypes, UnchangedHandlers
        DEF BatchDeleteScenarioContent, TypeInv, TypeOK

\* A Firestore batch that fails keeps the types.
LEMMA FirestoreFailsType ==
    ASSUME TypeInv, FirestoreFails
    PROVE  TypeInv'
<1>1. RecordFailure /\ faults' \in Nat
  BY DEF FirestoreFails, Fault, TypeInv, TypeOK
<1>2. FirestoreType'
  BY ApplyType, UnchangedTypes DEF FirestoreFails, TypeInv, TypeOK
<1>3. RedisType'
  BY <1>1, RecordFailureType DEF FirestoreFails, TypeInv, TypeOK, RedisType
<1>4. WorkerType'
  BY <1>1, RecordFailureType DEF FirestoreFails, TypeInv, TypeOK, WorkerType
<1> QED BY <1>1, <1>2, <1>3, <1>4, UnchangedTypes, UnchangedHandlers
        DEF FirestoreFails, TypeInv, TypeOK

\* ackBatch, one job keeps the types.
LEMMA AckOneType ==
    ASSUME TypeInv, AckOne
    PROVE  TypeInv'
<1>1. processing' \in Seq(Job)
  BY RemoveFirstElements DEF AckOne, TypeInv, TypeOK, RedisType
<1>2. RedisType'
  BY <1>1 DEF AckOne, TypeInv, TypeOK, RedisType
<1>3. todo' \in Seq(Job)
  BY HeadTailElements DEF AckOne, TypeInv, TypeOK, WorkerType
<1>4. WorkerType'
  BY <1>3 DEF AckOne, TypeInv, TypeOK, WorkerType
<1> QED BY <1>2, <1>4, UnchangedTypes, UnchangedHandlers DEF AckOne, TypeInv, TypeOK

\* ackBatch, its end keeps the types.
LEMMA AckDoneType ==
    ASSUME TypeInv, AckDone
    PROVE  TypeInv'
<1>1. RedisType'
  BY DEF AckDone, TypeInv, TypeOK, RedisType
<1>2. WorkerType'
  BY DEF AckDone, TypeInv, TypeOK, WorkerType
<1> QED BY <1>1, <1>2, UnchangedTypes, UnchangedHandlers DEF AckDone, TypeInv, TypeOK

\* An ackBatch that throws keeps the types.
LEMMA AckFailsType ==
    ASSUME TypeInv, AckFails
    PROVE  TypeInv'
<1>1. RecordFailure /\ faults' \in Nat
  BY DEF AckFails, Fault, TypeInv, TypeOK
<1>2. RedisType'
  BY <1>1, RecordFailureType DEF AckFails, TypeInv, TypeOK, RedisType
<1>3. WorkerType'
  BY <1>1, RecordFailureType DEF AckFails, TypeInv, TypeOK, WorkerType
<1> QED BY <1>1, <1>2, <1>3, UnchangedTypes, UnchangedHandlers DEF AckFails, TypeInv, TypeOK

\* markScenariosSynced keeps the types.
LEMMA MarkScenariosSyncedType ==
    ASSUME TypeInv, MarkScenariosSynced
    PROVE  TypeInv'
<1>1. PICK J : Mark(J)
  BY DEF MarkScenariosSynced
<1>2. MysqlType'
  BY <1>1 DEF Mark, MarkScenariosSynced, TypeInv, TypeOK, MysqlType, Row, Time
<1>3. faults' \in Nat
  BY DEF MarkScenariosSynced, Fault, TypeInv, TypeOK
<1>4. WorkerType'
  BY EmptySeq DEF MarkScenariosSynced, TypeInv, TypeOK, WorkerType
<1> QED BY <1>2, <1>3, <1>4, UnchangedTypes, UnchangedHandlers
        DEF MarkScenariosSynced, TypeInv, TypeOK

\* requeueBatch, one job keeps the types.
LEMMA RequeueOneType ==
    ASSUME TypeInv, RequeueOne
    PROVE  TypeInv'
<1> DEFINE j == Head(todo)
           again == [j EXCEPT !.retry = j.retry + 1]
<1>1. j \in Job /\ todo' \in Seq(Job)
  BY HeadTailElements, ElementsInRange DEF RequeueOne, TypeInv, TypeOK, WorkerType
<1>2. again \in Job
  <2> HIDE DEF j
  <2> QED BY <1>1 DEF Job
<1>3. processing' \in Seq(Job)
  BY RemoveFirstElements DEF RequeueOne, TypeInv, TypeOK, RedisType
<1>4. /\ queue \in Seq(Job) /\ dlq \in Seq(Job)
      /\ Append(queue, again) \in Seq(Job) /\ Append(dlq, j) \in Seq(Job)
  <2> HIDE DEF again, j
  <2>1. queue \in Seq(Job) /\ dlq \in Seq(Job)
    BY DEF TypeInv, TypeOK, RedisType
  <2> QED BY <1>1, <1>2, <2>1, AppendElements
<1>5. \/ dlq' = Append(dlq, j) /\ queue' = queue
      \/ dlq' = dlq /\ queue' = Append(queue, again)
  BY DEF RequeueOne
<1>6. /\ lock' = lock /\ circuit' = circuit
      /\ status' = status \/ status' = [status EXCEPT ![j.scenario] = "failed"]
  BY DEF RequeueOne
<1>7. RedisType'
  <2> HIDE DEF again, j
  <2> QED BY <1>3, <1>4, <1>5, <1>6 DEF TypeInv, TypeOK, RedisType
<1>8. WorkerType'
  BY <1>1 DEF RequeueOne, TypeInv, TypeOK, WorkerType
<1> QED BY <1>7, <1>8, UnchangedTypes, UnchangedHandlers DEF RequeueOne, TypeInv, TypeOK

\* requeueBatch, its end keeps the types.
LEMMA RequeueDoneType ==
    ASSUME TypeInv, RequeueDone
    PROVE  TypeInv'
<1>1. WorkerType'
  BY EmptySeq DEF RequeueDone, TypeInv, TypeOK, WorkerType
<1> QED BY <1>1, UnchangedTypes, UnchangedHandlers DEF RequeueDone, TypeInv, TypeOK

\* A requeueBatch that throws keeps the types.
LEMMA RequeueFailsType ==
    ASSUME TypeInv, RequeueFails
    PROVE  TypeInv'
<1>1. processing' \in Seq(Job)
  BY RemoveFirstElements DEF RequeueFails, TypeInv, TypeOK, RedisType
<1>2. RedisType'
  BY <1>1 DEF RequeueFails, TypeInv, TypeOK, RedisType
<1>3. WorkerType' /\ faults' \in Nat
  BY EmptySeq DEF RequeueFails, Fault, TypeInv, TypeOK, WorkerType
<1> QED BY <1>2, <1>3, UnchangedTypes, UnchangedHandlers DEF RequeueFails, TypeInv, TypeOK

\* The steps that only drop a Redis key.
LEMMA KeysType ==
    ASSUME TypeInv, ReleaseOutboxLock \/ LockExpires \/ CircuitExpires
    PROVE  TypeInv'
<1>1. RedisType'
  BY DEF ReleaseOutboxLock, LockExpires, CircuitExpires, TypeInv, TypeOK, RedisType
<1>2. WorkerType'
  BY DEF ReleaseOutboxLock, LockExpires, CircuitExpires, worker, TypeInv, TypeOK, WorkerType
<1> QED BY <1>1, <1>2, UnchangedTypes, UnchangedHandlers
        DEF ReleaseOutboxLock, LockExpires, CircuitExpires, TypeInv, TypeOK

\* A crash keeps the types.
LEMMA CrashType ==
    ASSUME TypeInv, Crash
    PROVE  TypeInv'
<1>1. processing' \in Seq(Job)
  BY RemoveFirstElements DEF Crash, TypeInv, TypeOK, RedisType
<1>2. RedisType'
  BY <1>1 DEF Crash, TypeInv, TypeOK, RedisType
<1>3. HandlersType' /\ HandlersHoldJobs'
  BY DEF Crash, TypeInv, TypeOK, HandlersType, HandlersHoldJobs
<1>4. WorkerType' /\ faults' \in Nat
  BY EmptySeq DEF Crash, Fault, TypeInv, TypeOK, WorkerType
<1> QED BY <1>2, <1>3, <1>4, UnchangedTypes DEF Crash, TypeInv, TypeOK

\* reconcileDlqItem, its read keeps the types.
LEMMA DlqReadType ==
    ASSUME TypeInv, NEW c \in Reconciler, NEW i \in DOMAIN dlq, DlqRead(c, i)
    PROVE  TypeInv'
<1> DEFINE s == dlq[i].scenario
           j == IF dlq[i].action = "delete"
                THEN IF Live(s) THEN DeleteJob(s) ELSE NoJob
                ELSE IF Live(s) THEN SyncJob(s, row[s].content, row[s].modifiedAt)
                     ELSE DeleteJob(s)
<1>1. dlq[i] \in Job /\ s \in Scenario
  BY ElementOfSeq, JobFields DEF TypeInv, TypeOK, RedisType
<1>2. row[s].content \in Nat /\ row[s].modifiedAt \in Time
  BY <1>1 DEF TypeInv, TypeOK, MysqlType, Row
<1>3. j \in Job \cup {NoJob}
  BY <1>1, <1>2, JobTypes
<1>4. Goto(c, "remove", j) /\ entry' = [entry EXCEPT ![c] = dlq[i]]
  BY DEF DlqRead
<1>5. HandlersType' /\ HandlersHoldJobs'
  <2> HIDE DEF j
  <2> QED BY <1>1, <1>3, <1>4 DEF TypeInv, TypeOK, HandlersType, HandlersHoldJobs, Goto, Actor
<1> QED BY <1>5, UnchangedTypes DEF DlqRead, TypeInv, TypeOK

\* reconcileDlqItem, its removal keeps the types.
LEMMA DlqRemoveType ==
    ASSUME TypeInv, NEW c \in Actor, DlqRemove(c)
    PROVE  TypeInv'
<1>1. dlq' \in Seq(Job)
  BY RemoveFirstElements DEF DlqRemove, TypeInv, TypeOK, RedisType
<1>2. RedisType'
  BY <1>1 DEF DlqRemove, TypeInv, TypeOK, RedisType
<1>3. HandlersType' /\ HandlersHoldJobs'
  BY JobTypes DEF DlqRemove, TypeInv, TypeOK, HandlersType, HandlersHoldJobs
<1> QED BY <1>2, <1>3, UnchangedTypes DEF DlqRemove, TypeInv, TypeOK

\* reconcileUnsyncedScenarios keeps the types.
LEMMA WatermarkReadType ==
    ASSUME TypeInv, NEW c \in Reconciler, NEW s \in Scenario, WatermarkRead(c, s)
    PROVE  TypeInv'
<1> DEFINE j == SyncJob(s, row[s].content, row[s].modifiedAt)
<1>1. j \in Job
  BY JobTypes DEF TypeInv, TypeOK, MysqlType, Row
<1>2. Goto(c, "push", j) /\ entry' = entry
  BY DEF WatermarkRead
<1>3. HandlersType' /\ HandlersHoldJobs'
  <2> HIDE DEF j
  <2> QED BY <1>1, <1>2 DEF TypeInv, TypeOK, HandlersType, HandlersHoldJobs, Goto, Actor
<1> QED BY <1>3, UnchangedTypes DEF WatermarkRead, TypeInv, TypeOK

\* Every step of the pipeline keeps TypeInv.
LEMMA TypeInvStep == TypeInv /\ [Next]_vars => TypeInv'
<1> SUFFICES ASSUME TypeInv, [Next]_vars PROVE TypeInv'
  OBVIOUS
<1>1. CASE UNCHANGED vars
  BY <1>1, UnchangedTypes, UnchangedHandlers DEF vars, TypeInv, TypeOK
<1>2. CASE User
  BY <1>2, CreateScenarioType, UpdateFindType, DeleteScenarioType, TableOnlyType DEF User
<1>3. CASE Tick
  BY <1>3, TableOnlyType
<1>4. ASSUME NEW a \in Actor, Handler(a)
      PROVE  TypeInv'
  BY <1>4, UpdateCommitType, UpdateRereadType, DlqRemoveType, EnqueueType, SetPendingType
     DEF Handler
<1>5. CASE Worker
  BY <1>5, ClaimBatchType, BatchSaveType, BatchDeleteType, AckOneType, AckDoneType,
     MarkScenariosSyncedType, RequeueOneType, RequeueDoneType, KeysType DEF Worker
<1>6. CASE Expiry
  BY <1>6, KeysType DEF Expiry
<1>7. CASE Failure
  BY <1>7, EnqueueFailsType, ClaimFailsType, FirestoreFailsType, AckFailsType,
     RequeueFailsType, CrashType DEF Failure
<1>8. ASSUME NEW c \in Reconciler, Reconcile(c)
      PROVE  TypeInv'
  BY <1>8, DlqReadType, WatermarkReadType DEF Reconcile
<1> QED BY <1>1, <1>2, <1>3, <1>4, <1>5, <1>6, <1>7, <1>8 DEF Next

\* The pipeline keeps its types, for every instance: each Redis list holds jobs
\* only, in every interleaving and under every failure.
THEOREM TypeCorrect == Spec => []TypeOK
<1>1. TypeInv => TypeOK
  BY DEF TypeInv
<1> QED BY <1>1, TypeInvInit, TypeInvStep, PTL DEF Spec
-----------------------------------------------------------------------------
(* The watermark.                                                          *)

\* The conditions under which a snapshot of ModifiedAt identifies a content.
Orderly == OneWriter /\ FreshSecond /\ Skew = 0

\* No ModifiedAt is in the future, no watermark is ahead of its ModifiedAt.
ClockSound ==
    \A s \in Scenario : Live(s) =>
        row[s].modifiedAt \in 0..now /\ row[s].syncedAt <= row[s].modifiedAt

\* The jobs that are no lie about the table: the row exists or existed, and
\* an upsert of a live row is not younger than the row and, if as old, equal to it.
SoundJobs ==
    {j \in Job :
        /\ row[j.scenario].state # "none"
        /\ j.action = "sync" /\ Live(j.scenario) =>
             /\ j.modifiedAt \in 0..row[j.scenario].modifiedAt
             /\ j.modifiedAt = row[j.scenario].modifiedAt
                  => j.content = row[j.scenario].content}

\* The jobs in Redis or in the worker's memory.
Listed ==
    ToSet(queue) \cup ToSet(processing) \cup ToSet(dlq) \cup ToSet(batch) \cup ToSet(todo)

ListsSound == Listed \subseteq SoundJobs

\* Between the commit and the second read, the row holds what was committed.
HeldSound ==
    \A a \in Actor :
        /\ pc[a] \in {"remove", "push", "status"} => held[a] \in SoundJobs \cup {NoJob}
        /\ pc[a] \in {"update", "reread"} => row[held[a].scenario].state # "none"
        /\ pc[a] = "reread" /\ Live(held[a].scenario) =>
             held[a].content = row[held[a].scenario].content

\* No two requests in flight are about one scenario.
OneAtATime ==
    \A q, r \in Request :
        q # r /\ pc[q] # "idle" /\ pc[r] # "idle" => held[q].scenario # held[r].scenario

\* Past its upserts, the batch is in Firestore.
BatchWritten ==
    wpc \in {"delete", "ack", "mark"} =>
        \A j \in ToSet(batch) : j.action = "sync" => j.content \in uploaded[j.scenario]

\* The inductive invariant.
SyncInv ==
    /\ TypeInv /\ ClockSound /\ ListsSound /\ HeldSound /\ OneAtATime /\ BatchWritten
    /\ WatermarkSound

\* The initial state satisfies the inductive invariant.
LEMMA SyncInvInit == Init => SyncInv
<1> SUFFICES ASSUME Init PROVE SyncInv
  OBVIOUS
<1>1. ClockSound /\ WatermarkSound
  BY DEF Init, ClockSound, WatermarkSound, Live, NoRow
<1>2. ListsSound
  BY EmptyElements DEF Init, ListsSound, Listed
<1>3. HeldSound /\ OneAtATime
  BY DEF Init, HeldSound, OneAtATime, Actor
<1>4. BatchWritten
  BY DEF Init, BatchWritten
<1> QED BY <1>1, <1>2, <1>3, <1>4, TypeInvInit DEF SyncInv

\* Facts about the sequences and the rows, in the form the steps use.
LEMMA RowFields ==
    ASSUME TypeInv, NEW s \in Scenario
    PROVE  /\ row[s].state \in {"none", "live", "gone"} /\ row[s].content \in Nat
           /\ row[s].modifiedAt \in Time /\ row[s].syncedAt \in Time
BY DEF TypeInv, TypeOK, MysqlType, Row

\* A row change no sound job can become a lie by.
RowKept(s) ==
    \/ row[s].state = "none"
    \/ /\ row'[s].state # "none"
       /\ Live(s)' =>
            /\ Live(s)
            /\ row[s].modifiedAt <= row'[s].modifiedAt
            /\ row'[s].modifiedAt = row[s].modifiedAt => row'[s].content = row[s].content

\* A step that keeps every row in the sense of RowKept keeps sound jobs sound.
LEMMA SoundJobsKept ==
    ASSUME TypeInv, TypeInv', \A s \in Scenario : RowKept(s)
    PROVE  SoundJobs \subseteq SoundJobs'
<1> SUFFICES ASSUME NEW j \in SoundJobs PROVE j \in SoundJobs'
  OBVIOUS
<1>1. j \in Job /\ j.scenario \in Scenario /\ j.modifiedAt \in Time
  BY JobFields DEF SoundJobs
<1>2. RowKept(j.scenario)
  BY <1>1
<1> DEFINE old == row[j.scenario]
           new == row'[j.scenario]
<1>3. old.modifiedAt \in Time /\ new.modifiedAt \in Time
  BY <1>1 DEF TypeInv, TypeOK, MysqlType, Row
<1>4. /\ old.state # "none"
      /\ j.action = "sync" /\ old.state = "live" =>
           /\ j.modifiedAt \in 0..old.modifiedAt
           /\ j.modifiedAt = old.modifiedAt => j.content = old.content
  BY DEF SoundJobs, Live
<1>5. /\ new.state # "none"
      /\ new.state = "live" =>
           /\ old.state = "live"
           /\ old.modifiedAt <= new.modifiedAt
           /\ new.modifiedAt = old.modifiedAt => new.content = old.content
  BY <1>2, <1>4 DEF RowKept, Live
<1>6. j.action = "sync" /\ new.state = "live" =>
           /\ j.modifiedAt \in 0..new.modifiedAt
           /\ j.modifiedAt = new.modifiedAt => j.content = new.content
  <2> HIDE DEF old, new
  <2> QED BY <1>1, <1>3, <1>4, <1>5 DEF Time, NoTime
<1> QED BY <1>1, <1>5, <1>6 DEF SoundJobs, Live

\* With the table and the clock as they were, what is said of them still holds.
LEMMA TableKept ==
    ASSUME row' = row, now' = now
    PROVE  /\ SoundJobs' = SoundJobs
           /\ ClockSound => ClockSound'
           /\ WatermarkSound /\ UNCHANGED uploaded => WatermarkSound'
BY DEF SoundJobs, ClockSound, WatermarkSound, Unsynced, Live

\* BatchWritten speaks of the batch, the worker and the uploads only.
LEMMA WorkerKept ==
    ASSUME BatchWritten, UNCHANGED <<wpc, batch, uploaded>>
    PROVE  BatchWritten'
BY DEF BatchWritten

\* HeldSound and OneAtATime speak of the handlers and the table only.
LEMMA HandlersKept ==
    ASSUME UNCHANGED <<row, pc, held>>
    PROVE  /\ HeldSound => HeldSound'
           /\ OneAtATime => OneAtATime'
BY DEF HeldSound, OneAtATime, SoundJobs, Live

\* Handlers that only prepare a job: UpdateFind, UpdateReread and the passes.
LEMMA PrepareSafe ==
    ASSUME SyncInv, TypeInv', NEW a \in Actor, NEW next, NEW j, Goto(a, next, j),
           UNCHANGED <<now, row, redis, firestore, worker>>,
           next \in {"update", "remove", "push"},
           next \in {"remove", "push"} => j \in SoundJobs \cup {NoJob},
           next = "update" => row[j.scenario].state # "none",
           a \in Request => \A q \in Request :
               q # a /\ pc[q] # "idle" => held[q].scenario # j.scenario
    PROVE  SyncInv'
<1>1. SoundJobs' = SoundJobs /\ ClockSound' /\ WatermarkSound'
  BY TableKept DEF SyncInv, firestore
<1>2. ListsSound'
  BY <1>1 DEF SyncInv, ListsSound, Listed, redis, worker
<1>3. BatchWritten'
  BY WorkerKept DEF SyncInv, firestore, worker
<1>4. /\ pc'[a] = next /\ held'[a] = j
      /\ \A b \in Actor \ {a} : pc'[b] = pc[b] /\ held'[b] = held[b]
  BY DEF Goto, SyncInv, TypeInv, TypeOK, HandlersType
<1>5. HeldSound'
  BY <1>1, <1>4 DEF SyncInv, HeldSound, Live
<1>6. OneAtATime'
  BY <1>4, OutboxAssumption DEF SyncInv, OneAtATime, Actor
<1> QED BY <1>1, <1>2, <1>3, <1>5, <1>6 DEF SyncInv

\* updateScenario, its first read keeps SyncInv.
LEMMA UpdateFindSafe ==
    ASSUME Orderly, SyncInv, NEW r \in Request, NEW s \in Scenario, UpdateFind(r, s)
    PROVE  SyncInv'
<1> DEFINE j == SyncJob(s, saves + 1, NoTime)
<1>1. TypeInv'
  BY UpdateFindType DEF SyncInv
<1>2. Goto(r, "update", j) /\ UNCHANGED <<now, row, redis, firestore, worker>>
  BY DEF UpdateFind
<1>3. j.scenario = s
  BY JobTypes DEF SyncInv, TypeInv, TypeOK, MysqlType
<1>4. row[s].state # "none"
  BY DEF UpdateFind, Live
<1>5. \A q \in Request : pc[q] # "idle" => held[q].scenario # s
  BY DEF UpdateFind, MayStart, Orderly
<1> HIDE DEF j
<1> QED BY <1>1, <1>2, <1>3, <1>4, <1>5, PrepareSafe DEF Actor

\* updateScenario, its second read keeps SyncInv.
LEMMA UpdateRereadSafe ==
    ASSUME Orderly, SyncInv, NEW r \in Actor, UpdateReread(r)
    PROVE  SyncInv'
<1> DEFINE s == held[r].scenario
           t == IF Live(s) THEN row[s].modifiedAt ELSE NoTime
           j == SyncJob(s, held[r].content, t)
<1>1. TypeInv'
  BY UpdateRereadType DEF SyncInv
<1>2. Goto(r, "push", j) /\ UNCHANGED <<now, row, redis, firestore, worker>>
  BY DEF UpdateReread, mysql
<1>3. /\ held[r] \in Job /\ pc[r] = "reread" /\ r \in Request
      /\ s \in Scenario /\ held[r].content \in Nat
  BY JobFields DEF UpdateReread, SyncInv, TypeInv, HandlersHoldJobs
<1>4. t \in Time
  BY <1>3, RowFields, JobTypes DEF SyncInv
<1>5. /\ j \in Job /\ j.action = "sync" /\ j.scenario = s
      /\ j.content = held[r].content /\ j.modifiedAt = t
  BY <1>3, <1>4, JobTypes
<1>6. /\ row[s].state # "none"
      /\ Live(s) => held[r].content = row[s].content /\ row[s].modifiedAt \in 0..now
  BY <1>3 DEF SyncInv, HeldSound, ClockSound
<1>7. j \in SoundJobs
  <2> HIDE DEF j, s
  <2> QED BY <1>3, <1>5, <1>6 DEF SoundJobs
<1>8. \A q \in Request : q # r /\ pc[q] # "idle" => held[q].scenario # j.scenario
  BY <1>3, <1>5 DEF SyncInv, OneAtATime
<1> HIDE DEF j, s
<1> QED BY <1>1, <1>2, <1>7, <1>8, PrepareSafe

\* A job made from a live row as it is now.
LEMMA SyncJobOfRow ==
    ASSUME SyncInv, NEW s \in Scenario, Live(s)
    PROVE  SyncJob(s, row[s].content, row[s].modifiedAt) \in SoundJobs
<1> DEFINE j == SyncJob(s, row[s].content, row[s].modifiedAt)
<1>1. /\ j \in Job /\ j.scenario = s
      /\ j.content = row[s].content /\ j.modifiedAt = row[s].modifiedAt
  BY RowFields, JobTypes DEF SyncInv
<1>2. row[s].modifiedAt \in 0..now
  BY DEF SyncInv, ClockSound
<1> HIDE DEF j
<1>3. j \in SoundJobs
  BY <1>1, <1>2 DEF SoundJobs, Live
<1> QED BY <1>3 DEF j

\* reconcileDlqItem, its read keeps SyncInv.
LEMMA DlqReadSafe ==
    ASSUME SyncInv, NEW c \in Reconciler, NEW i \in DOMAIN dlq, DlqRead(c, i)
    PROVE  SyncInv'
<1> DEFINE s == dlq[i].scenario
           j == IF dlq[i].action = "delete"
                THEN IF Live(s) THEN DeleteJob(s) ELSE NoJob
                ELSE IF Live(s) THEN SyncJob(s, row[s].content, row[s].modifiedAt)
                     ELSE DeleteJob(s)
<1>1. TypeInv'
  BY DlqReadType DEF SyncInv
<1>2. Goto(c, "remove", j) /\ UNCHANGED <<now, row, redis, firestore, worker>>
  BY DEF DlqRead, mysql
<1>3. dlq[i] \in SoundJobs
  BY DEF SyncInv, ListsSound, Listed, ToSet
<1>4. s \in Scenario /\ row[s].state # "none"
  BY <1>3, JobFields DEF SoundJobs
<1>5. DeleteJob(s) \in SoundJobs
  BY <1>4, JobTypes DEF SoundJobs
<1>6. Live(s) => SyncJob(s, row[s].content, row[s].modifiedAt) \in SoundJobs
  BY <1>4, SyncJobOfRow
<1>7. j \in SoundJobs \cup {NoJob}
  BY <1>5, <1>6
<1>8. c \notin Request
  BY OutboxAssumption
<1> HIDE DEF j, s
<1> QED BY <1>1, <1>2, <1>7, <1>8, PrepareSafe DEF Actor

\* reconcileUnsyncedScenarios keeps SyncInv.
LEMMA WatermarkReadSafe ==
    ASSUME SyncInv, NEW c \in Reconciler, NEW s \in Scenario, WatermarkRead(c, s)
    PROVE  SyncInv'
<1> DEFINE j == SyncJob(s, row[s].content, row[s].modifiedAt)
<1>1. TypeInv'
  BY WatermarkReadType DEF SyncInv
<1>2. Goto(c, "push", j) /\ UNCHANGED <<now, row, redis, firestore, worker>>
  BY DEF WatermarkRead, mysql
<1>3. Live(s)
  BY DEF WatermarkRead, Unsynced
<1>4. j \in SoundJobs
  BY <1>3, SyncJobOfRow
<1>5. c \notin Request
  BY OutboxAssumption
<1> HIDE DEF j
<1> QED BY <1>1, <1>2, <1>4, <1>5, PrepareSafe DEF Actor

\* The table changes under handlers that stay where they are.
LEMMA HandlersAcross ==
    ASSUME SyncInv, SoundJobs \subseteq SoundJobs', UNCHANGED <<pc, held>>,
           HandlersHoldJobs,
           \A s \in Scenario : row[s].state # "none" =>
               row'[s].state # "none" /\ (Live(s)' => Live(s) /\ row'[s].content = row[s].content)
    PROVE  HeldSound' /\ OneAtATime'
<1>1. \A a \in Actor : pc[a] \in {"update", "reread"} => held[a].scenario \in Scenario
  BY JobFields DEF HandlersHoldJobs
<1>2. HeldSound'
  BY <1>1 DEF SyncInv, HeldSound, Live
<1> QED BY <1>2 DEF SyncInv, OneAtATime

\* Steps that change the table and leave handlers, lists and worker alone.
LEMMA TableStepSafe ==
    ASSUME SyncInv, TypeInv', \A s \in Scenario : RowKept(s),
           UNCHANGED <<redis, firestore, handlers, worker>>,
           \A s \in Scenario : row[s].state # "none" =>
               row'[s].state # "none" /\ (Live(s)' => Live(s) /\ row'[s].content = row[s].content),
           ClockSound', WatermarkSound'
    PROVE  SyncInv'
<1>1. SoundJobs \subseteq SoundJobs'
  BY SoundJobsKept DEF SyncInv
<1>2. ListsSound'
  BY <1>1 DEF SyncInv, ListsSound, Listed, redis, worker
<1>3. HeldSound' /\ OneAtATime'
  BY <1>1, HandlersAcross DEF SyncInv, TypeInv, handlers
<1>4. BatchWritten'
  BY WorkerKept DEF SyncInv, worker, firestore
<1> QED BY <1>2, <1>3, <1>4 DEF SyncInv

\* The clock keeps SyncInv.
LEMMA TickSafe ==
    ASSUME SyncInv, Tick
    PROVE  SyncInv'
<1>1. TypeInv'
  BY TableOnlyType DEF SyncInv
<1>2. row' = row /\ now' = now + 1 /\ now \in Nat
  BY DEF Tick, SyncInv, TypeInv, TypeOK, MysqlType
<1>3. ClockSound'
  <2> SUFFICES ASSUME NEW s \in Scenario, Live(s)
               PROVE  row[s].modifiedAt \in 0..(now + 1) /\ row[s].syncedAt <= row[s].modifiedAt
    BY <1>2 DEF ClockSound, Live
  <2> QED BY <1>2 DEF SyncInv, ClockSound
<1>4. WatermarkSound'
  BY <1>2 DEF Tick, SyncInv, WatermarkSound, Unsynced, Live, firestore
<1>5. \A s \in Scenario : RowKept(s)
  BY <1>2, RowFields DEF SyncInv, RowKept, Live, Time, NoTime
<1> QED BY <1>1, <1>2, <1>3, <1>4, <1>5, TableStepSafe DEF Tick, Live

\* shareScenario and approveSharedConfig keeps SyncInv.
LEMMA ShareScenarioSafe ==
    ASSUME SyncInv, NEW s \in Scenario, ShareScenario(s)
    PROVE  SyncInv'
<1>1. TypeInv'
  BY TableOnlyType DEF SyncInv
<1>2. /\ row' = [row EXCEPT ![s].modifiedAt = now] /\ now' = now /\ now \in Nat
      /\ uploaded' = uploaded
  BY DEF ShareScenario, SyncInv, TypeInv, TypeOK, MysqlType, firestore
<1>3. \A t \in Scenario : /\ row'[t].state = row[t].state
                          /\ row'[t].content = row[t].content
                          /\ row'[t].syncedAt = row[t].syncedAt
                          /\ row'[t].modifiedAt = IF t = s THEN now ELSE row[t].modifiedAt
  BY <1>2 DEF SyncInv, TypeInv, TypeOK, MysqlType, Row
<1>4. \A t \in Scenario : Live(t) => /\ row[t].modifiedAt \in 0..now
                                     /\ row[t].syncedAt <= row[t].modifiedAt
                                     /\ row[t].syncedAt \in Time
  BY RowFields DEF SyncInv, ClockSound
<1>5. ClockSound'
  <2> SUFFICES ASSUME NEW t \in Scenario, row[t].state = "live"
               PROVE  row'[t].modifiedAt \in 0..now /\ row'[t].syncedAt <= row'[t].modifiedAt
    BY <1>2, <1>3 DEF ClockSound, Live
  <2> QED BY <1>2, <1>3, <1>4 DEF Live, Time, NoTime
<1>6. \A t \in Scenario : RowKept(t)
  <2> SUFFICES ASSUME NEW t \in Scenario, row[t].state = "live"
               PROVE  row[t].modifiedAt <= row'[t].modifiedAt
    BY <1>3 DEF RowKept, Live
  <2> QED BY <1>2, <1>3, <1>4 DEF Live
<1>7. WatermarkSound'
  <2> SUFFICES ASSUME NEW t \in Scenario, row[t].state = "live",
                      ~(row'[t].syncedAt < row'[t].modifiedAt)
               PROVE  row[t].content \in uploaded[t]
    BY <1>2, <1>3 DEF WatermarkSound, Unsynced, Live
  <2>1. ~(row[t].syncedAt < row[t].modifiedAt)
    BY <1>2, <1>3, <1>4 DEF Live, Time, NoTime
  <2> QED BY <2>1 DEF SyncInv, WatermarkSound, Unsynced, Live
<1>8. \A t \in Scenario : row[t].state # "none" =>
        row'[t].state # "none" /\ (Live(t)' => Live(t) /\ row'[t].content = row[t].content)
  BY <1>3 DEF Live
<1> QED BY <1>1, <1>5, <1>6, <1>7, <1>8, TableStepSafe DEF ShareScenario

\* A row that goes away takes every promise about its content along.
LEMMA RowGone ==
    ASSUME SyncInv, NEW s \in Scenario, Live(s), now' = now, uploaded' = uploaded,
           row' = [row EXCEPT ![s] = NoRow("gone")]
    PROVE  /\ ClockSound' /\ WatermarkSound'
           /\ \A t \in Scenario : RowKept(t)
           /\ \A t \in Scenario : row[t].state # "none" =>
                row'[t].state # "none" /\ (Live(t)' => Live(t) /\ row'[t].content = row[t].content)
<1>1. /\ row'[s].state = "gone"
      /\ \A t \in Scenario \ {s} : row'[t] = row[t]
  BY DEF SyncInv, TypeInv, TypeOK, MysqlType, NoRow
<1>2. \A t \in Scenario : row[t].modifiedAt <= row[t].modifiedAt
  BY RowFields DEF SyncInv, Time, NoTime
<1>3. \A t \in Scenario : RowKept(t)
  BY <1>1, <1>2 DEF RowKept, Live
<1>4. ClockSound' /\ WatermarkSound'
  BY <1>1 DEF SyncInv, ClockSound, WatermarkSound, Unsynced, Live
<1> QED BY <1>1, <1>3, <1>4 DEF Live

\* deleteSharedConfig keeps SyncInv.
LEMMA DeleteSharedConfigSafe ==
    ASSUME SyncInv, NEW s \in Scenario, DeleteSharedConfig(s)
    PROVE  SyncInv'
<1>1. TypeInv'
  BY TableOnlyType DEF SyncInv
<1> QED BY <1>1, RowGone, TableStepSafe DEF DeleteSharedConfig, firestore

\* createScenario keeps SyncInv.
LEMMA CreateScenarioSafe ==
    ASSUME Orderly, SyncInv, NEW r \in Request, NEW s \in Scenario, CreateScenario(r, s)
    PROVE  SyncInv'
<1> DEFINE j == SyncJob(s, saves + 1, now)
           new == [state |-> "live", content |-> saves + 1, modifiedAt |-> now,
                   syncedAt |-> NoTime]
<1>1. TypeInv'
  BY CreateScenarioType DEF SyncInv
<1>2. /\ row[s].state = "none" /\ now \in Nat /\ saves \in Nat
      /\ row' = [row EXCEPT ![s] = new]
      /\ Goto(r, "push", j)
      /\ UNCHANGED <<now, redis, firestore, entry, worker>>
  BY DEF CreateScenario, Orderly, SyncInv, TypeInv, TypeOK, MysqlType
<1>3. row'[s] = new /\ \A t \in Scenario \ {s} : row'[t] = row[t]
  BY <1>2 DEF SyncInv, TypeInv, TypeOK, MysqlType
<1>4. \A t \in Scenario : RowKept(t)
  <2>1. \A t \in Scenario : row[t].modifiedAt <= row[t].modifiedAt
    BY RowFields DEF SyncInv, Time, NoTime
  <2> QED BY <1>2, <1>3, <2>1 DEF RowKept, Live
<1>5. SoundJobs \subseteq SoundJobs'
  BY <1>1, <1>4, SoundJobsKept DEF SyncInv
<1>6. /\ j \in Job /\ j.scenario = s /\ j.action = "sync"
      /\ j.content = saves + 1 /\ j.modifiedAt = now
  BY <1>2, JobTypes DEF Time
<1>7. j \in SoundJobs'
  <2> HIDE DEF j
  <2> QED BY <1>2, <1>3, <1>6 DEF SoundJobs, Live
<1>8. ListsSound'
  BY <1>2, <1>5 DEF SyncInv, ListsSound, Listed, redis, worker
<1>9. ClockSound' /\ WatermarkSound'
  BY <1>2, <1>3 DEF SyncInv, ClockSound, WatermarkSound, Unsynced, Live, NoTime, firestore
<1> HIDE DEF j
<1>10. /\ pc'[r] = "push" /\ held'[r] = j
       /\ \A b \in Actor \ {r} : pc'[b] = pc[b] /\ held'[b] = held[b]
  BY <1>2 DEF Goto, SyncInv, TypeInv, TypeOK, HandlersType, Actor
<1>11. \A a \in Actor : pc[a] \in {"update", "reread"} =>
         /\ held[a].scenario \in Scenario
         /\ row'[held[a].scenario] = row[held[a].scenario]
  BY <1>2, <1>3, JobFields DEF SyncInv, HeldSound, TypeInv, HandlersHoldJobs
<1>12. HeldSound'
  BY <1>5, <1>7, <1>10, <1>11 DEF SyncInv, HeldSound, Live
<1>13. OneAtATime'
  <2>1. \A q \in Request : pc[q] # "idle" => held[q].scenario # s
    BY DEF CreateScenario, MayStart, Orderly
  <2> QED BY <1>6, <1>10, <2>1 DEF SyncInv, OneAtATime, Actor
<1>14. BatchWritten'
  BY <1>2, WorkerKept DEF SyncInv, worker, firestore
<1> QED BY <1>1, <1>8, <1>9, <1>12, <1>13, <1>14 DEF SyncInv

\* deleteScenario keeps SyncInv.
LEMMA DeleteScenarioSafe ==
    ASSUME Orderly, SyncInv, NEW r \in Request, NEW s \in Scenario, DeleteScenario(r, s)
    PROVE  SyncInv'
<1>1. TypeInv'
  BY DeleteScenarioType DEF SyncInv
<1>2. /\ Live(s)
      /\ row' = [row EXCEPT ![s] = NoRow("gone")]
      /\ Goto(r, "push", DeleteJob(s))
      /\ UNCHANGED <<now, redis, firestore, entry, worker>>
  BY DEF DeleteScenario
<1>3. /\ ClockSound' /\ WatermarkSound'
      /\ \A t \in Scenario : RowKept(t)
      /\ \A t \in Scenario : row[t].state # "none" =>
           row'[t].state # "none" /\ (Live(t)' => Live(t) /\ row'[t].content = row[t].content)
  BY <1>2, RowGone DEF firestore
<1>4. SoundJobs \subseteq SoundJobs'
  BY <1>1, <1>3, SoundJobsKept DEF SyncInv
<1>5. DeleteJob(s) \in SoundJobs'
  BY <1>2, <1>3, JobTypes DEF SoundJobs, Live
<1>6. ListsSound'
  BY <1>2, <1>4 DEF SyncInv, ListsSound, Listed, redis, worker
<1>7. /\ pc'[r] = "push" /\ held'[r] = DeleteJob(s)
      /\ \A b \in Actor \ {r} : pc'[b] = pc[b] /\ held'[b] = held[b]
  BY <1>2 DEF Goto, SyncInv, TypeInv, TypeOK, HandlersType, Actor
<1>8. \A a \in Actor : pc[a] \in {"update", "reread"} => held[a].scenario \in Scenario
  BY JobFields DEF SyncInv, TypeInv, HandlersHoldJobs
<1>9. HeldSound'
  BY <1>3, <1>4, <1>5, <1>7, <1>8 DEF SyncInv, HeldSound, Live
<1>10. OneAtATime'
  <2>1. \A q \in Request : pc[q] # "idle" => held[q].scenario # s
    BY DEF DeleteScenario, MayStart, Orderly
  <2> QED BY <1>7, <2>1, JobTypes DEF SyncInv, OneAtATime, Actor
<1>11. BatchWritten'
  BY <1>2, WorkerKept DEF SyncInv, worker, firestore
<1> QED BY <1>1, <1>3, <1>6, <1>9, <1>10, <1>11 DEF SyncInv

\* updateScenario, its transaction keeps SyncInv.
LEMMA UpdateCommitSafe ==
    ASSUME Orderly, SyncInv, NEW r \in Actor, UpdateCommit(r)
    PROVE  SyncInv'
<1> DEFINE s == held[r].scenario
           v == held[r].content
<1>1. TypeInv'
  BY UpdateCommitType DEF SyncInv
<1>2. /\ pc[r] = "update" /\ r \in Request /\ s \in Scenario /\ v \in Nat /\ now \in Nat
      /\ row[s].state # "none"
  BY JobFields
     DEF UpdateCommit, SyncInv, TypeInv, HandlersHoldJobs, HeldSound, TypeOK, MysqlType
<1>3. /\ \/ /\ Live(s) /\ now # row[s].modifiedAt
            /\ row' = [row EXCEPT ![s].content = v, ![s].modifiedAt = now]
         \/ ~Live(s) /\ row' = row
      /\ UNCHANGED <<now, redis, firestore, held, worker>>
  BY DEF UpdateCommit, Orderly
<1> HIDE DEF s, v
<1>4. /\ \A t \in Scenario \ {s} : row'[t] = row[t]
      /\ row'[s].state = row[s].state
      /\ ~Live(s) => row'[s] = row[s]
      /\ Live(s) => /\ row'[s].content = v
                    /\ row'[s].modifiedAt = now
                    /\ row'[s].syncedAt = row[s].syncedAt
  BY <1>2, <1>3 DEF SyncInv, TypeInv, TypeOK, MysqlType, Row
<1>5. Live(s) => row[s].modifiedAt < now /\ row[s].syncedAt < now
  <2> SUFFICES ASSUME Live(s) PROVE row[s].modifiedAt < now /\ row[s].syncedAt < now
    OBVIOUS
  <2>1. row[s].modifiedAt \in 0..now /\ row[s].syncedAt <= row[s].modifiedAt
    BY <1>2 DEF SyncInv, ClockSound
  <2>2. row[s].syncedAt \in Int
    BY <1>2, RowFields DEF SyncInv, Time, NoTime
  <2> QED BY <1>2, <1>3, <2>1, <2>2
<1>6. \A t \in Scenario : RowKept(t)
  <2>1. \A t \in Scenario : row[t].modifiedAt \in Int
    BY RowFields DEF SyncInv, Time, NoTime
  <2> QED BY <1>2, <1>4, <1>5, <2>1 DEF RowKept, Live
<1>7. SoundJobs \subseteq SoundJobs'
  BY <1>1, <1>6, SoundJobsKept DEF SyncInv
<1>8. ListsSound'
  BY <1>3, <1>7 DEF SyncInv, ListsSound, Listed, redis, worker
<1>9. ClockSound'
  <2>1. \A t \in Scenario : row[t].syncedAt \in Int
    BY RowFields DEF SyncInv, Time, NoTime
  <2> QED BY <1>2, <1>3, <1>4, <1>5, <2>1 DEF SyncInv, ClockSound, Live
<1>10. WatermarkSound'
  BY <1>2, <1>3, <1>4, <1>5 DEF SyncInv, WatermarkSound, Unsynced, Live, firestore
<1>11. /\ pc'[r] = "reread" /\ held' = held
       /\ \A b \in Actor \ {r} : pc'[b] = pc[b]
  BY <1>3 DEF UpdateCommit, SyncInv, TypeInv, TypeOK, HandlersType
<1>12. \A a \in Actor \ {r} : pc[a] \in {"update", "reread"} =>
         /\ held[a].scenario \in Scenario \ {s}
         /\ row'[held[a].scenario] = row[held[a].scenario]
  BY <1>2, <1>4, JobFields DEF s, SyncInv, OneAtATime, TypeInv, HandlersHoldJobs
<1>13. HeldSound'
  BY <1>2, <1>4, <1>7, <1>11, <1>12 DEF s, v, SyncInv, HeldSound, Live
<1>14. OneAtATime'
  BY <1>2, <1>11 DEF SyncInv, OneAtATime, Actor
<1>15. BatchWritten'
  BY <1>3, WorkerKept DEF SyncInv, worker, firestore
<1> QED BY <1>1, <1>8, <1>9, <1>10, <1>13, <1>14, <1>15 DEF SyncInv

\* Steps that leave the table alone.
LEMMA ListStepSafe ==
    ASSUME SyncInv, TypeInv', UNCHANGED mysql,
           \A s \in Scenario : uploaded[s] \subseteq uploaded'[s],
           Listed' \subseteq SoundJobs, HeldSound', OneAtATime', BatchWritten'
    PROVE  SyncInv'
<1>1. SoundJobs' = SoundJobs /\ ClockSound'
  BY TableKept DEF SyncInv, mysql
<1>2. WatermarkSound'
  BY DEF mysql, SyncInv, WatermarkSound, Unsynced, Live
<1>3. ListsSound'
  BY <1>1 DEF ListsSound
<1> QED BY <1>1, <1>2, <1>3 DEF SyncInv

\* ... made by the worker, with the handlers where they are.
LEMMA WorkerStepSafe ==
    ASSUME SyncInv, TypeInv', UNCHANGED <<mysql, handlers>>,
           \A s \in Scenario : uploaded[s] \subseteq uploaded'[s],
           Listed' \subseteq SoundJobs, BatchWritten'
    PROVE  SyncInv'
<1>1. HeldSound' /\ OneAtATime'
  BY HandlersKept DEF SyncInv, mysql, handlers
<1> QED BY <1>1, ListStepSafe

\* A handler that moves on with the job it holds, or drops it.
LEMMA HeldStep ==
    ASSUME SyncInv, TypeInv', row' = row, NEW a \in Actor,
           pc'[a] \in {"idle", "push", "status"}, pc[a] \in {"remove", "push", "status"},
           held'[a] \in {held[a], NoJob}, pc'[a] # "idle" => held'[a] = held[a],
           \A b \in Actor \ {a} : pc'[b] = pc[b] /\ held'[b] = held[b]
    PROVE  HeldSound' /\ OneAtATime'
<1>1. SoundJobs' = SoundJobs
  BY DEF SoundJobs, Live
<1>2. HeldSound'
  BY <1>1 DEF SyncInv, HeldSound, Live
<1>3. OneAtATime'
  BY DEF SyncInv, OneAtATime, Actor
<1> QED BY <1>2, <1>3

\* enqueue, whether it succeeds or fails, keeps SyncInv.
LEMMA EnqueueSafe ==
    ASSUME SyncInv, NEW a \in Actor, Enqueue(a) \/ EnqueueFails(a)
    PROVE  SyncInv'
<1>1. TypeInv'
  BY EnqueueType, EnqueueFailsType DEF SyncInv
<1>2. /\ pc[a] = "push" /\ held[a] \in Job /\ held[a] \in SoundJobs /\ queue \in Seq(Job)
  BY JobTypes DEF Enqueue, EnqueueFails, SyncInv, TypeInv, HandlersHoldJobs, HeldSound,
                  TypeOK, RedisType
<1>3. ToSet(Append(queue, held[a])) = ToSet(queue) \cup {held[a]}
  BY <1>2, AppendElements
<1>4. /\ queue' \in {queue, Append(queue, held[a])}
      /\ UNCHANGED <<processing, dlq, worker, mysql, firestore>>
  BY DEF Enqueue, EnqueueFails
<1>5. Listed' \subseteq SoundJobs
  BY <1>2, <1>3, <1>4 DEF SyncInv, ListsSound, Listed, worker
<1>6. /\ pc'[a] \in {"idle", "status"} /\ held'[a] \in {held[a], NoJob}
      /\ pc'[a] # "idle" => held'[a] = held[a]
      /\ \A b \in Actor \ {a} : pc'[b] = pc[b] /\ held'[b] = held[b]
  BY DEF Enqueue, EnqueueFails, Goto, SyncInv, TypeInv, TypeOK, HandlersType
<1>7. HeldSound' /\ OneAtATime'
  BY <1>1, <1>2, <1>4, <1>6, HeldStep DEF mysql
<1>8. BatchWritten'
  BY <1>4, WorkerKept DEF SyncInv, worker, firestore
<1> QED BY <1>1, <1>4, <1>5, <1>7, <1>8, ListStepSafe DEF firestore

\* enqueue, its status write keeps SyncInv.
LEMMA SetPendingSafe ==
    ASSUME SyncInv, NEW a \in Actor, SetPending(a)
    PROVE  SyncInv'
<1>1. TypeInv'
  BY SetPendingType DEF SyncInv
<1>2. Listed' \subseteq SoundJobs
  BY DEF SetPending, SyncInv, ListsSound, Listed, worker
<1>3. /\ pc[a] = "status" /\ pc'[a] = "idle" /\ held'[a] = NoJob
      /\ \A b \in Actor \ {a} : pc'[b] = pc[b] /\ held'[b] = held[b]
  BY DEF SetPending, Goto, SyncInv, TypeInv, TypeOK, HandlersType
<1>4. HeldSound' /\ OneAtATime'
  BY <1>1, <1>3, HeldStep DEF SetPending, mysql
<1>5. BatchWritten'
  BY WorkerKept DEF SetPending, SyncInv, worker, firestore
<1> QED BY <1>1, <1>2, <1>4, <1>5, ListStepSafe DEF SetPending, firestore

\* reconcileDlqItem, its removal keeps SyncInv.
LEMMA DlqRemoveSafe ==
    ASSUME SyncInv, NEW c \in Actor, DlqRemove(c)
    PROVE  SyncInv'
<1>1. TypeInv'
  BY DlqRemoveType DEF SyncInv
<1>2. ToSet(dlq') \subseteq ToSet(dlq)
  BY RemoveFirstElements DEF DlqRemove, SyncInv, TypeInv, TypeOK, RedisType
<1>3. Listed' \subseteq SoundJobs
  BY <1>2 DEF DlqRemove, SyncInv, ListsSound, Listed, worker
<1>4. /\ pc[c] = "remove" /\ pc'[c] \in {"idle", "push"} /\ held' = held
      /\ \A b \in Actor \ {c} : pc'[b] = pc[b]
  BY DEF DlqRemove, SyncInv, TypeInv, TypeOK, HandlersType
<1>5. HeldSound' /\ OneAtATime'
  BY <1>1, <1>4, HeldStep DEF DlqRemove, mysql
<1>6. BatchWritten'
  BY WorkerKept DEF DlqRemove, SyncInv, worker, firestore
<1> QED BY <1>1, <1>3, <1>5, <1>6, ListStepSafe DEF DlqRemove, firestore

\* claimBatch, whether it succeeds or throws, keeps SyncInv.
LEMMA ClaimSafe ==
    ASSUME SyncInv, ClaimBatch \/ ClaimFails
    PROVE  SyncInv'
<1>1. TypeInv'
  BY ClaimBatchType, ClaimFailsType DEF SyncInv
<1>2. PICK n \in 0..Len(queue) :
        Move(n) /\ (batch' = batch \/ batch' = SubSeq(queue, 1, n))
  <2>1. ASSUME ClaimBatch
        PROVE  \E n \in 0..Len(queue) : Move(n) /\ batch' = SubSeq(queue, 1, n)
    <3>1. MinOf(BatchSize, Len(queue)) \in 0..Len(queue)
      BY OutboxAssumption DEF MinOf, SyncInv, TypeInv, TypeOK, RedisType
    <3> QED BY <2>1, <3>1 DEF ClaimBatch
  <2>2. ASSUME ClaimFails
        PROVE  \E n \in 0..Len(queue) : Move(n) /\ batch' = batch
    <3>1. 1..MinOf(BatchSize, Len(queue)) \subseteq 0..Len(queue)
      BY OutboxAssumption DEF MinOf, SyncInv, TypeInv, TypeOK, RedisType
    <3> QED BY <2>2, <3>1 DEF ClaimFails
  <2> QED BY <2>1, <2>2
<1>3. /\ ToSet(queue') \subseteq ToSet(queue)
      /\ ToSet(processing') \subseteq ToSet(processing) \cup ToSet(queue)
      /\ ToSet(SubSeq(queue, 1, n)) \subseteq ToSet(queue)
  BY <1>2, MoveType DEF SyncInv
<1>4. UNCHANGED <<mysql, firestore, handlers, dlq, todo>> /\ wpc' \in {"upsert", "release"}
  BY DEF ClaimBatch, ClaimFails
<1>5. Listed' \subseteq SoundJobs
  BY <1>2, <1>3, <1>4 DEF SyncInv, ListsSound, Listed
<1>6. BatchWritten'
  BY <1>4 DEF BatchWritten
<1> QED BY <1>1, <1>4, <1>5, <1>6, WorkerStepSafe DEF firestore

\* A Firestore batch, whether it succeeds or fails, keeps SyncInv.
LEMMA FirestoreStepSafe ==
    ASSUME SyncInv,
           BatchSaveScenarioContent \/ BatchDeleteScenarioContent \/ FirestoreFails
    PROVE  SyncInv'
<1>1. TypeInv'
  BY BatchSaveType, BatchDeleteType, FirestoreFailsType DEF SyncInv
<1>2. UNCHANGED <<mysql, handlers, queue, processing, dlq, batch>> /\ todo' \in {todo, batch}
  BY DEF BatchSaveScenarioContent, BatchDeleteScenarioContent, FirestoreFails, redis
<1>3. Listed' \subseteq SoundJobs
  BY <1>2 DEF SyncInv, ListsSound, Listed
<1>4. \A s \in Scenario : uploaded[s] \subseteq uploaded'[s]
  BY DEF BatchSaveScenarioContent, BatchDeleteScenarioContent, FirestoreFails, ApplyUpserts,
         ApplyDeletes, firestore
<1>5. BatchWritten'
  <2>1. CASE BatchSaveScenarioContent
    <3> SUFFICES ASSUME NEW j \in ToSet(batch), j.action = "sync"
                 PROVE  j.content \in uploaded'[j.scenario]
      BY <1>2 DEF BatchWritten
    <3>1. j.scenario \in Scenario
      BY ElementsInRange, JobFields DEF SyncInv, TypeInv, TypeOK, WorkerType
    <3> QED BY <2>1, <3>1 DEF BatchSaveScenarioContent, ApplyUpserts, Syncs
  <2>2. CASE BatchDeleteScenarioContent
    BY <2>2 DEF BatchDeleteScenarioContent, ApplyDeletes, SyncInv, BatchWritten
  <2>3. CASE FirestoreFails
    BY <2>3 DEF FirestoreFails, BatchWritten
  <2> QED BY <2>1, <2>2, <2>3
<1> QED BY <1>1, <1>2, <1>3, <1>4, <1>5, WorkerStepSafe

\* ackBatch keeps SyncInv.
LEMMA AckSafe ==
    ASSUME SyncInv, AckOne \/ AckDone \/ AckFails
    PROVE  SyncInv'
<1>1. TypeInv'
  BY AckOneType, AckDoneType, AckFailsType DEF SyncInv
<1>2. ToSet(processing') \subseteq ToSet(processing)
  BY RemoveFirstElements DEF AckOne, AckDone, AckFails, SyncInv, TypeInv, TypeOK, RedisType
<1>3. ToSet(todo') \subseteq ToSet(todo) \cup ToSet(batch)
  BY HeadTailElements DEF AckOne, AckDone, AckFails, SyncInv, TypeInv, TypeOK, WorkerType
<1>4. /\ UNCHANGED <<mysql, firestore, handlers, queue, dlq, batch>>
      /\ wpc = "ack" /\ wpc' \in {"ack", "mark", "requeue"}
  BY DEF AckOne, AckDone, AckFails
<1>5. Listed' \subseteq SoundJobs
  BY <1>2, <1>3, <1>4 DEF SyncInv, ListsSound, Listed
<1>6. BatchWritten'
  BY <1>4 DEF SyncInv, BatchWritten, firestore
<1> QED BY <1>1, <1>4, <1>5, <1>6, WorkerStepSafe DEF firestore

\* requeueBatch keeps SyncInv.
LEMMA RequeueSafe ==
    ASSUME SyncInv, RequeueOne \/ RequeueDone \/ RequeueFails
    PROVE  SyncInv'
<1>1. TypeInv'
  BY RequeueOneType, RequeueDoneType, RequeueFailsType DEF SyncInv
<1>2. /\ ToSet(processing') \subseteq ToSet(processing)
  BY RemoveFirstElements
     DEF RequeueOne, RequeueDone, RequeueFails, redis, SyncInv, TypeInv, TypeOK, RedisType
<1>3. ToSet(todo') \subseteq ToSet(todo) /\ ToSet(batch') \subseteq ToSet(batch)
  BY HeadTailElements, EmptyElements
     DEF RequeueOne, RequeueDone, RequeueFails, SyncInv, TypeInv, TypeOK, WorkerType
<1>4. ToSet(queue') \cup ToSet(dlq') \subseteq SoundJobs
  <2>1. CASE UNCHANGED <<queue, dlq>>
    BY <2>1 DEF SyncInv, ListsSound, Listed
  <2>2. CASE RequeueOne
    <3> DEFINE j == Head(todo)
               again == [j EXCEPT !.retry = j.retry + 1]
    <3>1. j \in ToSet(todo)
      BY <2>2, HeadTailElements DEF RequeueOne, SyncInv, TypeInv, TypeOK, WorkerType
    <3>2. j \in SoundJobs
      BY <3>1 DEF SyncInv, ListsSound, Listed
    <3> HIDE DEF j
    <3>3. j \in Job
      BY <3>2 DEF SoundJobs
    <3>4. /\ again \in Job /\ again.action = j.action /\ again.scenario = j.scenario
          /\ again.content = j.content /\ again.modifiedAt = j.modifiedAt
      BY <3>3 DEF Job
    <3> HIDE DEF again
    <3>5. again \in SoundJobs
      BY <3>2, <3>4 DEF SoundJobs, Live
    <3>6. /\ queue \in Seq(Job) /\ dlq \in Seq(Job)
          /\ ToSet(queue) \cup ToSet(dlq) \subseteq SoundJobs
      BY DEF SyncInv, ListsSound, Listed, TypeInv, TypeOK, RedisType
    <3>7. /\ ToSet(Append(queue, again)) = ToSet(queue) \cup {again}
          /\ ToSet(Append(dlq, j)) = ToSet(dlq) \cup {j}
      BY <3>3, <3>4, <3>6, AppendElements
    <3>8. \/ dlq' = Append(dlq, j) /\ queue' = queue
          \/ dlq' = dlq /\ queue' = Append(queue, again)
      BY <2>2 DEF RequeueOne, j, again
    <3> QED BY <3>2, <3>5, <3>6, <3>7, <3>8
  <2> QED BY <2>1, <2>2 DEF RequeueDone, RequeueFails, redis
<1>5. /\ UNCHANGED <<mysql, firestore, handlers>> /\ wpc' \in {"requeue", "release"}
  BY DEF RequeueOne, RequeueDone, RequeueFails
<1>6. Listed' \subseteq SoundJobs
  BY <1>2, <1>3, <1>4 DEF SyncInv, ListsSound, Listed
<1>7. BatchWritten'
  BY <1>5 DEF BatchWritten
<1> QED BY <1>1, <1>5, <1>6, <1>7, WorkerStepSafe DEF firestore

\* A Redis key that goes away keeps SyncInv.
LEMMA KeysSafe ==
    ASSUME SyncInv, ReleaseOutboxLock \/ LockExpires \/ CircuitExpires
    PROVE  SyncInv'
<1>1. TypeInv'
  BY KeysType DEF SyncInv
<1>2. /\ UNCHANGED <<mysql, firestore, handlers, queue, processing, dlq, batch, todo>>
      /\ wpc' = wpc \/ wpc' = "idle"
  BY DEF ReleaseOutboxLock, LockExpires, CircuitExpires, worker
<1>3. Listed' \subseteq SoundJobs
  BY <1>2 DEF SyncInv, ListsSound, Listed
<1>4. BatchWritten'
  BY <1>2 DEF SyncInv, BatchWritten, firestore
<1> QED BY <1>1, <1>2, <1>3, <1>4, WorkerStepSafe DEF firestore

\* A crash keeps SyncInv.
LEMMA CrashSafe ==
    ASSUME SyncInv, Crash
    PROVE  SyncInv'
<1>1. TypeInv'
  BY CrashType DEF SyncInv
<1>2. ToSet(processing') \subseteq ToSet(processing)
  BY RemoveFirstElements DEF Crash, SyncInv, TypeInv, TypeOK, RedisType
<1>3. Listed' \subseteq SoundJobs
  BY <1>2, EmptyElements DEF Crash, SyncInv, ListsSound, Listed
<1>4. HeldSound' /\ OneAtATime' /\ BatchWritten'
  BY DEF Crash, HeldSound, OneAtATime, BatchWritten, Actor
<1> QED BY <1>1, <1>3, <1>4, ListStepSafe DEF Crash, firestore

\* The mark: a row whose ModifiedAt equals a job's snapshot holds that job's
\* content (SoundJobs), and Firestore has it (BatchWritten).
LEMMA MarkSafe ==
    ASSUME SyncInv, MarkScenariosSynced
    PROVE  SyncInv'
<1>1. TypeInv'
  BY MarkScenariosSyncedType DEF SyncInv
<1>2. PICK J : Mark(J)
  BY DEF MarkScenariosSynced
<1>3. /\ wpc = "mark" /\ wpc' = "release" /\ batch' = <<>>
      /\ UNCHANGED <<now, redis, firestore, handlers, todo>>
  BY DEF MarkScenariosSynced
<1> DEFINE Hit(s) == Live(s) /\ \E j \in J \cap Syncs(s) : j.modifiedAt = row[s].modifiedAt
<1>4. ASSUME NEW s \in Scenario, Live(s), NEW j \in Syncs(s)
      PROVE  /\ j.modifiedAt \in 0..row[s].modifiedAt
             /\ j.modifiedAt = row[s].modifiedAt => row[s].content \in uploaded[s]
  <2>1. j \in ToSet(batch) /\ j.action = "sync" /\ j.scenario = s
    BY <1>4 DEF Syncs
  <2>2. j \in SoundJobs
    BY <2>1 DEF SyncInv, ListsSound, Listed
  <2>3. j.content \in uploaded[s]
    BY <1>3, <2>1 DEF SyncInv, BatchWritten
  <2> QED BY <1>4, <2>1, <2>2, <2>3 DEF SoundJobs
<1>5. \A s \in Scenario :
        row'[s] = IF Hit(s) THEN [row[s] EXCEPT !.syncedAt = row[s].modifiedAt] ELSE row[s]
  BY <1>2, <1>4 DEF Mark, NoTime
<1>6. \A s \in Scenario : Hit(s) => Live(s) /\ row[s].content \in uploaded[s]
  BY <1>4
<1> HIDE DEF Hit
<1>7. \A s \in Scenario :
        /\ row'[s].state = row[s].state /\ row'[s].content = row[s].content
        /\ row'[s].modifiedAt = row[s].modifiedAt
        /\ row'[s].syncedAt = IF Hit(s) THEN row[s].modifiedAt ELSE row[s].syncedAt
  BY <1>5 DEF SyncInv, TypeInv, TypeOK, MysqlType, Row
<1>8. \A s \in Scenario : row[s].modifiedAt \in Int
  BY RowFields DEF SyncInv, Time, NoTime
<1>9. ClockSound' /\ WatermarkSound'
  BY <1>3, <1>6, <1>7, <1>8 DEF SyncInv, ClockSound, WatermarkSound, Unsynced, Live, firestore
<1>10. SoundJobs \subseteq SoundJobs'
  BY <1>1, <1>7, <1>8, SoundJobsKept DEF SyncInv, RowKept, Live
<1>11. ListsSound'
  BY <1>3, <1>10, EmptyElements DEF SyncInv, ListsSound, Listed, redis
<1>12. HeldSound' /\ OneAtATime'
  BY <1>3, <1>7, <1>10, HandlersAcross DEF SyncInv, TypeInv, handlers, Live
<1>13. BatchWritten'
  BY <1>3 DEF BatchWritten
<1> QED BY <1>1, <1>9, <1>11, <1>12, <1>13 DEF SyncInv

\* Every step of the pipeline keeps SyncInv when clients and clocks are orderly.
LEMMA SyncInvStep ==
    ASSUME Orderly
    PROVE  SyncInv /\ [Next]_vars => SyncInv'
<1> SUFFICES ASSUME SyncInv, [Next]_vars PROVE SyncInv'
  OBVIOUS
<1>1. CASE UNCHANGED vars
  <2>1. TypeInv'
    BY <1>1, TypeInvStep DEF SyncInv
  <2>2. Listed' \subseteq SoundJobs /\ BatchWritten'
    BY <1>1 DEF vars, redis, worker, firestore, SyncInv, ListsSound, Listed, BatchWritten
  <2> QED BY <1>1, <2>1, <2>2, WorkerStepSafe DEF vars, firestore
<1>2. CASE User
  BY <1>2, CreateScenarioSafe, UpdateFindSafe, DeleteScenarioSafe, ShareScenarioSafe,
     DeleteSharedConfigSafe DEF User
<1>3. CASE Tick
  BY <1>3, TickSafe
<1>4. ASSUME NEW a \in Actor, Handler(a)
      PROVE  SyncInv'
  BY <1>4, UpdateCommitSafe, UpdateRereadSafe, DlqRemoveSafe, EnqueueSafe, SetPendingSafe
     DEF Handler
<1>5. CASE Worker
  BY <1>5, ClaimSafe, FirestoreStepSafe, AckSafe, MarkSafe, RequeueSafe, KeysSafe DEF Worker
<1>6. CASE Expiry
  BY <1>6, KeysSafe DEF Expiry
<1>7. CASE Failure
  BY <1>7, EnqueueSafe, ClaimSafe, FirestoreStepSafe, AckSafe, RequeueSafe, CrashSafe
     DEF Failure
<1>8. ASSUME NEW c \in Reconciler, Reconcile(c)
      PROVE  SyncInv'
  BY <1>8, DlqReadSafe, WatermarkReadSafe DEF Reconcile
<1> QED BY <1>1, <1>2, <1>3, <1>4, <1>5, <1>6, <1>7, <1>8 DEF Next

\* WatermarkSound for any number of scenarios, requests, passes, jobs and failures,
\* any batch size and retry bound: no step, crash or lost answer makes the scan of
\* reconcileUnsyncedScenarios overlook a row whose content Firestore has not got.
THEOREM WatermarkIsSound ==
    ASSUME Orderly
    PROVE  Spec => []WatermarkSound
<1>1. SyncInv => WatermarkSound
  BY DEF SyncInv
<1> QED BY <1>1, SyncInvInit, SyncInvStep, PTL DEF Spec

\* SnapshotNamesContent likewise: a job whose snapshot is the ModifiedAt of its live
\* row carries the content of that row, so markScenariosSynced marks the right one.
THEOREM SnapshotsNameContents ==
    ASSUME Orderly
    PROVE  Spec => []SnapshotNamesContent
<1>1. SyncInv => SnapshotNamesContent
  <2> SUFFICES ASSUME SyncInv, NEW j \in Carried, j.action = "sync", Live(j.scenario),
                      j.modifiedAt = row[j.scenario].modifiedAt
               PROVE  j.content = row[j.scenario].content
    BY DEF SnapshotNamesContent
  <2>1. CASE j \in SoundJobs
    BY <2>1 DEF SoundJobs
  <2>2. CASE j \notin SoundJobs
    <3>1. j \notin Listed
      BY <2>2 DEF SyncInv, ListsSound
    <3>2. PICK a \in Actor : j = held[a] /\ held[a] # NoJob
      BY <3>1 DEF Carried, Listed
    <3>3. pc[a] \in {"update", "reread"}
      BY <2>2, <3>2 DEF SyncInv, TypeInv, TypeOK, HandlersType, HandlersHoldJobs, HeldSound
    <3>4. j.modifiedAt = NoTime /\ j \in Job
      BY <3>2, <3>3 DEF SyncInv, TypeInv, HandlersHoldJobs
    <3>5. j.scenario \in Scenario
      BY <3>4, JobFields
    <3>6. row[j.scenario].modifiedAt \in 0..now
      BY <3>5 DEF SyncInv, ClockSound
    <3>7. now \in Nat
      BY DEF SyncInv, TypeInv, TypeOK, MysqlType
    <3> QED BY <3>4, <3>6, <3>7 DEF NoTime
  <2> QED BY <2>1, <2>2
<1> QED BY <1>1, SyncInvInit, SyncInvStep, PTL DEF Spec
-----------------------------------------------------------------------------
(* Orphans: documents without a row.                                       *)

\* The runs of events in which every deletion is pushed and every push is seen
\* through: clients that wait, no row destroyed by an administrator, no reconcile
\* pass, and failures after which the worker still has its batch.
DeletesEnqueued ==
    /\ OneWriter
    /\ Operations \subseteq {"delete", "share"}
    /\ Faults \subseteq {"firestore", "ack", "mark"}

\* A claim takes the whole queue, and no delete job has used up its retries.
QueueFits == Len(queue) <= BatchSize /\ \A j \in ToSet(dlq) : j.action # "delete"

HasSync(J, s) == \E j \in J : j.action = "sync" /\ j.scenario = s
HasDelete(J, s) == \E j \in J : j.action = "delete" /\ j.scenario = s
Traffic == ToSet(queue) \cup ToSet(batch)

\* Whose jobs the handlers hold: a save's row is live, a deletion's row is gone.
HeldJobsFit ==
    /\ \A c \in Reconciler : pc[c] = "idle"
    /\ \A r \in Request : pc[r] # "idle" =>
         \/ held[r].action = "sync" /\ Live(held[r].scenario)
         \/ /\ held[r].action = "delete" /\ held[r] = DeleteJob(held[r].scenario)
            /\ row[held[r].scenario].state = "gone"

\* A row that was never created has no job and no document; a delete job's row is gone.
TrafficFits ==
    /\ \A j \in Traffic :
         row[j.scenario].state # "none" /\ (j.action = "delete" => row[j.scenario].state = "gone")
    /\ \A s \in Scenario : row[s].state = "none" => doc[s] = NoDoc

\* While a deletion is being carried out, no upsert of the scenario waits in the
\* queue; once it has been, there is no document.
BatchDecides ==
    \A s \in Scenario : HasDelete(ToSet(batch), s) =>
        /\ wpc \in {"upsert", "delete", "ack", "mark"} => ~HasSync(ToSet(queue), s)
        /\ wpc \in {"ack", "mark"} => doc[s] = NoDoc

\* What is requeued, or still to be, covers every deletion of the batch.
RequeueCovers ==
    /\ wpc \in {"idle", "release"} => batch = <<>>
    /\ wpc = "requeue" =>
         /\ ToSet(todo) \subseteq ToSet(batch)
         /\ \A s \in Scenario :
              HasDelete(ToSet(batch), s) => HasDelete(ToSet(todo) \cup ToSet(queue), s)

\* A gone row's document, and every upsert that could bring it back, is followed
\* by a delete job.
DeleteFollows ==
    \A s \in Scenario :
        row[s].state = "gone" /\ (doc[s] # NoDoc \/ HasSync(Traffic, s)) => DeleteOnItsWay(s)

\* The inductive invariant.
OrphanInv ==
    /\ TypeInv /\ OneAtATime /\ HeldJobsFit /\ TrafficFits /\ BatchDecides
    /\ RequeueCovers /\ DeleteFollows

\* The initial state satisfies it.
LEMMA OrphanInvInit == Init => OrphanInv
<1> SUFFICES ASSUME Init PROVE OrphanInv
  OBVIOUS
<1>1. OneAtATime /\ HeldJobsFit
  BY DEF Init, OneAtATime, HeldJobsFit, Actor
<1>2. ToSet(queue) = {} /\ ToSet(batch) = {} /\ batch = <<>> /\ wpc = "idle"
  BY EmptyElements DEF Init
<1>3. \A s \in Scenario : row[s].state = "none" /\ doc[s] = NoDoc
  BY DEF Init, NoRow
<1>4. TrafficFits /\ BatchDecides /\ RequeueCovers /\ DeleteFollows
  BY <1>2, <1>3 DEF TrafficFits, BatchDecides, RequeueCovers, DeleteFollows, Traffic, HasDelete
<1> QED BY <1>1, <1>4, TypeInvInit DEF OrphanInv

\* What the lists hold are jobs.
LEMMA TrafficTypes ==
    ASSUME TypeInv
    PROVE  /\ ToSet(queue) \subseteq Job /\ ToSet(batch) \subseteq Job /\ ToSet(todo) \subseteq Job
           /\ \A j \in Job : j.scenario \in Scenario /\ j.action \in {"sync", "delete"}
BY ElementsInRange, JobFields DEF TypeInv, TypeOK, RedisType, WorkerType

\* Steps that leave the lists, the worker and the documents alone: rows may be
\* created, and deleted when the delete job is about to be pushed.
LEMMA QuietTraffic ==
    ASSUME OrphanInv, UNCHANGED <<queue, batch, todo, doc, wpc>>,
           \A s \in Scenario :
             \/ row'[s].state = row[s].state
             \/ row[s].state = "none" /\ row'[s].state = "live"
             \/ row[s].state = "live" /\ row'[s].state = "gone" /\ DeleteOnItsWay(s)',
           \A s \in Scenario : DeleteOnItsWay(s) => DeleteOnItsWay(s)'
    PROVE  TrafficFits' /\ BatchDecides' /\ RequeueCovers' /\ DeleteFollows'
<1>1. Traffic' = Traffic /\ \A j \in Traffic : j.scenario \in Scenario
  BY TrafficTypes DEF OrphanInv, Traffic
<1>2. TrafficFits'
  BY <1>1 DEF OrphanInv, TrafficFits
<1>3. BatchDecides' /\ RequeueCovers'
  BY DEF OrphanInv, BatchDecides, RequeueCovers
<1>4. DeleteFollows'
  BY <1>1 DEF OrphanInv, DeleteFollows, TrafficFits
<1> QED BY <1>2, <1>3, <1>4

\* A step of one request on the scenario s, no other request being about s.
LEMMA RequestMoves ==
    ASSUME OrphanInv, NEW r \in Request, NEW s \in Scenario,
           \A a \in Actor \ {r} : pc'[a] = pc[a] /\ held'[a] = held[a],
           \A q \in Request \ {r} : pc[q] # "idle" => held[q].scenario # s,
           pc'[r] # "idle" =>
             \/ held'[r].action = "sync" /\ held'[r].scenario = s /\ row'[s].state = "live"
             \/ held'[r] = DeleteJob(s) /\ row'[s].state = "gone",
           \A t \in Scenario \ {s} : row'[t].state = row[t].state
    PROVE  OneAtATime' /\ HeldJobsFit'
<1>1. DeleteJob(s).scenario = s /\ DeleteJob(s).action = "delete"
  BY JobTypes
<1>2. OneAtATime'
  BY <1>1 DEF OrphanInv, OneAtATime, Actor
<1>3. \A c \in Reconciler : pc'[c] = "idle"
  BY OutboxAssumption DEF OrphanInv, HeldJobsFit, Actor
<1>4. ASSUME NEW q \in Request, pc'[q] # "idle"
      PROVE  \/ held'[q].action = "sync" /\ row'[held'[q].scenario].state = "live"
             \/ /\ held'[q].action = "delete" /\ held'[q] = DeleteJob(held'[q].scenario)
                /\ row'[held'[q].scenario].state = "gone"
  <2>1. CASE q = r
    BY <1>1, <1>4, <2>1 DEF Live
  <2>2. CASE q # r
    <3>1. pc'[q] = pc[q] /\ held'[q] = held[q] /\ pc[q] # "idle" /\ held[q].scenario # s
      BY <1>4, <2>2 DEF Actor
    <3>2. held[q].scenario \in Scenario
      <4>1. q \in Actor
        BY DEF Actor
      <4>2. pc[q] \in {"update", "reread", "push", "status"}
        BY <3>1, <4>1, OutboxAssumption
           DEF OrphanInv, TypeInv, TypeOK, HandlersType, HandlersHoldJobs
      <4> QED BY <4>1, <4>2, JobFields DEF OrphanInv, TypeInv, HandlersHoldJobs
    <3>3. row'[held[q].scenario].state = row[held[q].scenario].state
      BY <3>1, <3>2
    <3>4. \/ held[q].action = "sync" /\ row[held[q].scenario].state = "live"
          \/ /\ held[q].action = "delete" /\ held[q] = DeleteJob(held[q].scenario)
             /\ row[held[q].scenario].state = "gone"
      BY <3>1 DEF OrphanInv, HeldJobsFit, Live
    <3> QED BY <3>1, <3>3, <3>4
  <2> QED BY <2>1, <2>2
<1> QED BY <1>2, <1>3, <1>4 DEF HeldJobsFit, Live

\* Handlers that stand still, while no row comes or goes.
LEMMA HandlersStay ==
    ASSUME OrphanInv, UNCHANGED <<pc, held>>,
           \A s \in Scenario : row'[s].state = row[s].state
    PROVE  /\ OneAtATime' /\ HeldJobsFit'
<1>1. OneAtATime'
  BY DEF OrphanInv, OneAtATime
<1>2. \A r \in Request : pc[r] # "idle" => held[r].scenario \in Scenario
  <2> SUFFICES ASSUME NEW r \in Request, pc[r] # "idle" PROVE held[r].scenario \in Scenario
    OBVIOUS
  <2>1. r \in Actor
    BY DEF Actor
  <2>2. pc[r] \in {"update", "reread", "push", "status"}
    BY <2>1, OutboxAssumption DEF OrphanInv, TypeInv, TypeOK, HandlersType, HandlersHoldJobs
  <2> QED BY <2>1, <2>2, JobFields DEF OrphanInv, TypeInv, HandlersHoldJobs
<1>3. HeldJobsFit'
  BY <1>2 DEF OrphanInv, HeldJobsFit, Live
<1> QED BY <1>1, <1>3

\* createScenario keeps OrphanInv.
LEMMA CreateScenarioOrphan ==
    ASSUME DeletesEnqueued, OrphanInv, NEW r \in Request, NEW s \in Scenario,
           CreateScenario(r, s)
    PROVE  OrphanInv'
<1> DEFINE j == SyncJob(s, saves + 1, now + Skew)
<1>1. j.scenario = s /\ j.action = "sync"
  BY DEF SyncJob
<1> HIDE DEF j
<1>2. /\ pc' = [pc EXCEPT ![r] = "push"] /\ held' = [held EXCEPT ![r] = j] /\ pc[r] = "idle"
      /\ row[s].state = "none" /\ row'[s].state = "live"
      /\ \A t \in Scenario \ {s} : row'[t].state = row[t].state
      /\ UNCHANGED <<redis, firestore, worker>>
  BY DEF CreateScenario, Goto, MayStart, j, OrphanInv, TypeInv, TypeOK, MysqlType
<1>3. /\ pc'[r] = "push" /\ held'[r] = j
      /\ \A a \in Actor \ {r} : pc'[a] = pc[a] /\ held'[a] = held[a]
  BY <1>2 DEF Actor, OrphanInv, TypeInv, TypeOK, HandlersType
<1>4. \A q \in Request \ {r} : pc[q] # "idle" => held[q].scenario # s
  BY DEF CreateScenario, MayStart, DeletesEnqueued
<1>5. OneAtATime' /\ HeldJobsFit'
  BY <1>1, <1>2, <1>3, <1>4, RequestMoves
<1>6. \A t \in Scenario : DeleteOnItsWay(t) => DeleteOnItsWay(t)'
  BY <1>2, <1>3 DEF DeleteOnItsWay, redis, worker, Actor
<1>7. TrafficFits' /\ BatchDecides' /\ RequeueCovers' /\ DeleteFollows'
  BY <1>2, <1>6, QuietTraffic DEF redis, firestore, worker
<1>8. TypeInv'
  BY CreateScenarioType DEF OrphanInv
<1> QED BY <1>5, <1>7, <1>8 DEF OrphanInv

\* updateScenario, its first read keeps OrphanInv.
LEMMA UpdateFindOrphan ==
    ASSUME DeletesEnqueued, OrphanInv, NEW r \in Request, NEW s \in Scenario, UpdateFind(r, s)
    PROVE  OrphanInv'
<1> DEFINE j == SyncJob(s, saves + 1, NoTime)
<1>1. j.scenario = s /\ j.action = "sync"
  BY DEF SyncJob
<1> HIDE DEF j
<1>2. /\ pc' = [pc EXCEPT ![r] = "update"] /\ held' = [held EXCEPT ![r] = j] /\ pc[r] = "idle"
      /\ row[s].state = "live" /\ row' = row
      /\ UNCHANGED <<redis, firestore, worker>>
  BY DEF UpdateFind, Goto, MayStart, j, Live
<1>3. /\ pc'[r] = "update" /\ held'[r] = j
      /\ \A a \in Actor \ {r} : pc'[a] = pc[a] /\ held'[a] = held[a]
  BY <1>2 DEF Actor, OrphanInv, TypeInv, TypeOK, HandlersType
<1>4. \A q \in Request \ {r} : pc[q] # "idle" => held[q].scenario # s
  BY DEF UpdateFind, MayStart, DeletesEnqueued
<1>5. OneAtATime' /\ HeldJobsFit'
  BY <1>1, <1>2, <1>3, <1>4, RequestMoves
<1>6. \A t \in Scenario : DeleteOnItsWay(t) => DeleteOnItsWay(t)'
  BY <1>2, <1>3 DEF DeleteOnItsWay, redis, worker, Actor
<1>7. TrafficFits' /\ BatchDecides' /\ RequeueCovers' /\ DeleteFollows'
  BY <1>2, <1>6, QuietTraffic DEF redis, firestore, worker
<1>8. TypeInv'
  BY UpdateFindType DEF OrphanInv
<1> QED BY <1>5, <1>7, <1>8 DEF OrphanInv

\* The steps of a request that already holds a job of its scenario.
LEMMA RequestSteps ==
    ASSUME OrphanInv, NEW r \in Actor,
           UpdateCommit(r) \/ UpdateReread(r) \/ SetPending(r)
    PROVE  OrphanInv'
<1> DEFINE s == held[r].scenario
<1>1. r \in Request /\ pc[r] # "idle" /\ held[r] \in Job /\ s \in Scenario
  BY JobFields DEF UpdateCommit, UpdateReread, SetPending, OrphanInv, TypeInv, HandlersHoldJobs,
                   HeldJobsFit, Actor
<1>2. \A q \in Request \ {r} : pc[q] # "idle" => held[q].scenario # s
  BY <1>1 DEF OrphanInv, OneAtATime
<1>3. \A t \in Scenario : row'[t].state = row[t].state
  <2>1. row \in [Scenario -> Row]
    BY DEF OrphanInv, TypeInv, TypeOK, MysqlType
  <2>2. CASE UpdateCommit(r)
    <3> HIDE DEF s
    <3>1. CASE Live(s)
      <4>1. row' = [row EXCEPT ![s].content = held[r].content, ![s].modifiedAt = now]
        BY <2>2, <3>1 DEF UpdateCommit, s
      <4> QED BY <1>1, <2>1, <4>1 DEF Row
    <3>2. CASE ~Live(s)
      BY <2>2, <3>2 DEF UpdateCommit, s
    <3> QED BY <3>1, <3>2
  <2>3. CASE UpdateReread(r) \/ SetPending(r)
    BY <2>3 DEF UpdateReread, SetPending, mysql
  <2> QED BY <2>2, <2>3
<1>4. /\ \A a \in Actor \ {r} : pc'[a] = pc[a] /\ held'[a] = held[a]
      /\ pc[r] = "push" => FALSE
      /\ pc'[r] # "idle" => held'[r].action = "sync" /\ held'[r].scenario = s /\ Live(s)
  <2>1. CASE UpdateCommit(r)
    BY <1>1, <2>1 DEF UpdateCommit, OrphanInv, TypeInv, TypeOK, HandlersType, HandlersHoldJobs,
                      HeldJobsFit, DeleteJob
  <2>2. CASE UpdateReread(r)
    BY <1>1, <2>2 DEF UpdateReread, Goto, SyncJob, OrphanInv, TypeInv, TypeOK, HandlersType,
                      HandlersHoldJobs, HeldJobsFit, DeleteJob
  <2>3. CASE SetPending(r)
    BY <1>1, <2>3 DEF SetPending, Goto, OrphanInv, TypeInv, TypeOK, HandlersType
  <2> QED BY <2>1, <2>2, <2>3
<1>5. OneAtATime' /\ HeldJobsFit'
  <2> HIDE DEF s
  <2>1. pc'[r] # "idle" =>
          held'[r].action = "sync" /\ held'[r].scenario = s /\ row'[s].state = "live"
    BY <1>1, <1>3, <1>4 DEF Live
  <2> QED BY <1>1, <1>2, <1>3, <1>4, <2>1, RequestMoves
<1>6. UNCHANGED <<queue, batch, todo, wpc, doc>>
  BY DEF UpdateCommit, UpdateReread, SetPending, redis, worker, firestore
<1>7. \A t \in Scenario : DeleteOnItsWay(t) => DeleteOnItsWay(t)'
  BY <1>4, <1>6 DEF DeleteOnItsWay, Actor
<1>8. TrafficFits' /\ BatchDecides' /\ RequeueCovers' /\ DeleteFollows'
  BY <1>3, <1>6, <1>7, QuietTraffic
<1>9. TypeInv'
  BY UpdateCommitType, UpdateRereadType, SetPendingType DEF OrphanInv
<1> QED BY <1>5, <1>8, <1>9 DEF OrphanInv

\* deleteScenario keeps OrphanInv: its request holds the delete job from then on.
LEMMA DeleteScenarioOrphan ==
    ASSUME DeletesEnqueued, OrphanInv, NEW r \in Request, NEW s \in Scenario,
           DeleteScenario(r, s)
    PROVE  OrphanInv'
<1> DEFINE j == DeleteJob(s)
<1> HIDE DEF j
<1>1. /\ pc' = [pc EXCEPT ![r] = "push"] /\ held' = [held EXCEPT ![r] = j] /\ pc[r] = "idle"
      /\ row[s].state = "live" /\ row'[s].state = "gone"
      /\ \A t \in Scenario \ {s} : row'[t].state = row[t].state
      /\ UNCHANGED <<redis, firestore, worker>>
  BY DEF DeleteScenario, Goto, MayStart, Live, NoRow, j, OrphanInv, TypeInv, TypeOK, MysqlType
<1>2. /\ pc'[r] = "push" /\ held'[r] = j
      /\ \A a \in Actor \ {r} : pc'[a] = pc[a] /\ held'[a] = held[a]
  BY <1>1 DEF Actor, OrphanInv, TypeInv, TypeOK, HandlersType
<1>3. \A q \in Request \ {r} : pc[q] # "idle" => held[q].scenario # s
  BY DEF DeleteScenario, MayStart, DeletesEnqueued
<1>4. OneAtATime' /\ HeldJobsFit'
  BY <1>1, <1>2, <1>3, RequestMoves DEF j
<1>5. DeleteOnItsWay(s)'
  BY <1>2 DEF DeleteOnItsWay, j
<1>6. \A t \in Scenario : DeleteOnItsWay(t) => DeleteOnItsWay(t)'
  BY <1>1, <1>2 DEF DeleteOnItsWay, redis, worker, Actor
<1>7. TrafficFits' /\ BatchDecides' /\ RequeueCovers' /\ DeleteFollows'
  BY <1>1, <1>5, <1>6, QuietTraffic DEF redis, firestore, worker
<1>8. TypeInv'
  BY DeleteScenarioType DEF OrphanInv
<1> QED BY <1>4, <1>7, <1>8 DEF OrphanInv

\* The clock, a share and the keys that expire keep OrphanInv.
LEMMA BystanderOrphan ==
    ASSUME OrphanInv,
           \/ Tick \/ LockExpires \/ CircuitExpires \/ UNCHANGED vars
           \/ \E s \in Scenario : ShareScenario(s)
    PROVE  OrphanInv'
<1>1. /\ UNCHANGED <<pc, held, queue, batch, todo, wpc, doc>>
      /\ \A s \in Scenario : row'[s].state = row[s].state
  <2>1. CASE Tick \/ LockExpires \/ CircuitExpires \/ UNCHANGED vars
    BY <2>1 DEF Tick, LockExpires, CircuitExpires, vars, redis, handlers, firestore, worker, mysql
  <2>2. ASSUME NEW s \in Scenario, ShareScenario(s)
        PROVE  /\ UNCHANGED <<pc, held, queue, batch, todo, wpc, doc>>
               /\ \A t \in Scenario : row'[t].state = row[t].state
    <3>1. row \in [Scenario -> Row] /\ row' = [row EXCEPT ![s].modifiedAt = now]
      BY <2>2 DEF ShareScenario, OrphanInv, TypeInv, TypeOK, MysqlType
    <3>2. \A t \in Scenario : row'[t].state = row[t].state
      BY <3>1 DEF Row
    <3> QED BY <2>2, <3>2 DEF ShareScenario, redis, handlers, firestore, worker
  <2> QED BY <2>1, <2>2
<1>2. \A t \in Scenario : DeleteOnItsWay(t) => DeleteOnItsWay(t)'
  BY <1>1 DEF DeleteOnItsWay
<1>3. TypeInv'
  BY TableOnlyType, KeysType, UnchangedTypes, UnchangedHandlers
     DEF OrphanInv, vars, TypeInv, TypeOK
<1> QED BY <1>1, <1>2, <1>3, QuietTraffic, HandlersStay DEF OrphanInv

\* enqueue keeps OrphanInv: no upsert is pushed once the row is gone.
LEMMA EnqueueOrphan ==
    ASSUME OrphanInv, NEW r \in Actor, Enqueue(r)
    PROVE  OrphanInv'
<1> DEFINE j == held[r]
<1>1. r \in Request /\ pc[r] = "push" /\ j \in Job /\ j.scenario \in Scenario
  BY JobFields DEF Enqueue, OrphanInv, TypeInv, HandlersHoldJobs, HeldJobsFit, Actor
<1>2. /\ pc'[r] = "status" /\ held' = held /\ \A a \in Actor \ {r} : pc'[a] = pc[a]
      /\ UNCHANGED <<row, doc, batch, todo, wpc>>
  BY DEF Enqueue, mysql, firestore, worker, OrphanInv, TypeInv, TypeOK, HandlersType
<1>3. ToSet(queue') = ToSet(queue) \cup {j}
  BY <1>1, AppendElements DEF Enqueue, OrphanInv, TypeInv, TypeOK, RedisType
<1>4. \/ j.action = "sync" /\ row[j.scenario].state = "live"
      \/ j.action = "delete" /\ j = DeleteJob(j.scenario) /\ row[j.scenario].state = "gone"
  BY <1>1 DEF OrphanInv, HeldJobsFit, Live
<1>5. \A q \in Request \ {r} : pc[q] # "idle" => held[q].scenario # j.scenario
  BY <1>1 DEF OrphanInv, OneAtATime
<1>6. OneAtATime' /\ HeldJobsFit'
  BY <1>1, <1>2, <1>4, <1>5, RequestMoves
<1>7. \A s \in Scenario : DeleteOnItsWay(s) => DeleteOnItsWay(s)'
  <2> SUFFICES ASSUME NEW s \in Scenario, DeleteOnItsWay(s) PROVE DeleteOnItsWay(s)'
    OBVIOUS
  <2>1. CASE j = DeleteJob(s)
    BY <1>3, <2>1, JobTypes DEF DeleteOnItsWay
  <2>2. CASE j # DeleteJob(s)
    BY <1>2, <1>3, <2>2 DEF DeleteOnItsWay, Actor
  <2> QED BY <2>1, <2>2
<1> HIDE DEF j
<1>8. TrafficFits'
  BY <1>2, <1>3, <1>4 DEF OrphanInv, TrafficFits, Traffic
<1>9. BatchDecides'
  <2> SUFFICES ASSUME NEW s \in Scenario, HasDelete(ToSet(batch), s)
               PROVE  /\ wpc \in {"upsert", "delete", "ack", "mark"} => ~HasSync(ToSet(queue'), s)
                      /\ wpc \in {"ack", "mark"} => doc[s] = NoDoc
    BY <1>2 DEF BatchDecides
  <2>1. row[s].state = "gone"
    BY DEF OrphanInv, TrafficFits, Traffic, HasDelete
  <2>2. ~(j.action = "sync" /\ j.scenario = s)
    BY <1>4, <2>1
  <2> QED BY <1>3, <2>2 DEF OrphanInv, BatchDecides, HasSync
<1>10. RequeueCovers'
  BY <1>2, <1>3 DEF OrphanInv, RequeueCovers, HasDelete
<1>11. DeleteFollows'
  <2> SUFFICES ASSUME NEW s \in Scenario, row[s].state = "gone",
                      doc[s] # NoDoc \/ HasSync(Traffic', s)
               PROVE  DeleteOnItsWay(s)'
    BY <1>2 DEF DeleteFollows
  <2>1. doc[s] # NoDoc \/ HasSync(Traffic, s)
    BY <1>2, <1>3, <1>4 DEF Traffic, HasSync
  <2> QED BY <1>7, <2>1 DEF OrphanInv, DeleteFollows
<1>12. TypeInv'
  BY EnqueueType DEF OrphanInv
<1> QED BY <1>6, <1>8, <1>9, <1>10, <1>11, <1>12 DEF OrphanInv

\* The worker's steps leave the handlers alone and create or delete no row. What
\* such a step must not do is stated of the lists as sets.
LEMMA WorkerStepOrphan ==
    ASSUME OrphanInv, TypeInv', UNCHANGED <<pc, held>>,
           \A s \in Scenario : row'[s].state = row[s].state,
           TrafficFits', BatchDecides', RequeueCovers', DeleteFollows'
    PROVE  OrphanInv'
BY HandlersStay DEF OrphanInv

\* All of a sequence, and what is left of it then.
LEMMA WholeSubSeq ==
    ASSUME NEW S, NEW q \in Seq(S)
    PROVE  SubSeq(q, 1, Len(q)) = q /\ SubSeq(q, Len(q) + 1, Len(q)) = <<>>
OBVIOUS

\* claimBatch takes the whole queue, so an upsert and a deletion of one scenario
\* that are on their way together end up in one batch.
LEMMA ClaimBatchOrphan ==
    ASSUME OrphanInv, QueueFits, ClaimBatch
    PROVE  OrphanInv'
<1>1. queue \in Seq(Job) /\ Len(queue) \in Nat
  BY DEF OrphanInv, TypeInv, TypeOK, RedisType
<1>2. MinOf(BatchSize, Len(queue)) = Len(queue)
  BY <1>1, OutboxAssumption DEF MinOf, QueueFits
<1>3. /\ queue' = SubSeq(queue, Len(queue) + 1, Len(queue)) /\ batch' = SubSeq(queue, 1, Len(queue))
      /\ wpc = "idle" /\ wpc' = "upsert" /\ UNCHANGED <<row, doc, pc, held>>
  BY <1>2 DEF ClaimBatch, Move, mysql, firestore, handlers
<1>4. queue' = <<>> /\ batch' = queue /\ batch = <<>>
  BY <1>1, <1>3, WholeSubSeq DEF OrphanInv, RequeueCovers
<1>5. ToSet(queue') = {} /\ ToSet(batch) = {} /\ ToSet(batch') = ToSet(queue)
  BY <1>4, EmptyElements
<1>6. TrafficFits' /\ BatchDecides' /\ RequeueCovers' /\ DeleteFollows'
  BY <1>3, <1>5 DEF OrphanInv, TrafficFits, BatchDecides, RequeueCovers, DeleteFollows, Traffic,
                    HasSync, DeleteOnItsWay
<1> QED BY <1>3, <1>6, WorkerStepOrphan, ClaimBatchType DEF OrphanInv

\* What the two Firestore batches do to a document.
LEMMA AppliedTo ==
    ASSUME NEW s \in Scenario
    PROVE  /\ ApplyUpserts /\ doc'[s] # doc[s] => HasSync(ToSet(batch), s)
           /\ ApplyDeletes => doc'[s] = doc[s] \/ doc'[s] = NoDoc
           /\ ApplyDeletes /\ HasDelete(ToSet(batch), s) => doc'[s] = NoDoc
<1>1. ASSUME ApplyUpserts, doc'[s] # doc[s]
      PROVE  HasSync(ToSet(batch), s)
  <2> DEFINE I == {i \in DOMAIN batch : batch[i] \in Syncs(s)}
  <2>1. I # {}
    BY <1>1 DEF ApplyUpserts
  <2>2. Syncs(s) # {}
    BY <2>1
  <2> QED BY <2>2 DEF Syncs, HasSync
<1>2. ApplyDeletes => doc'[s] = doc[s] \/ doc'[s] = NoDoc
  BY DEF ApplyDeletes
<1>3. ApplyDeletes /\ HasDelete(ToSet(batch), s) => doc'[s] = NoDoc
  BY DEF ApplyDeletes, Deletes, HasDelete
<1> QED BY <1>1, <1>2, <1>3

\* The two Firestore batches keep OrphanInv, deletes after upserts.
LEMMA FirestoreStepOrphan ==
    ASSUME OrphanInv, BatchSaveScenarioContent \/ BatchDeleteScenarioContent \/ FirestoreFails
    PROVE  OrphanInv'
<1>1. UNCHANGED <<row, queue, pc, held, batch>>
  BY DEF BatchSaveScenarioContent, BatchDeleteScenarioContent, FirestoreFails, mysql, redis,
         handlers
<1>2. TypeInv'
  BY BatchSaveType, BatchDeleteType, FirestoreFailsType DEF OrphanInv
<1>3. \A s \in Scenario : doc'[s] # doc[s] => doc'[s] = NoDoc \/ HasSync(ToSet(batch), s)
  BY AppliedTo DEF BatchSaveScenarioContent, BatchDeleteScenarioContent, FirestoreFails, firestore
<1>4. TrafficFits'
  BY <1>1, <1>3 DEF OrphanInv, TrafficFits, Traffic, HasSync
<1>5. DeleteFollows'
  <2>1. \A s \in Scenario : doc'[s] # NoDoc => doc[s] # NoDoc \/ HasSync(Traffic, s)
    BY <1>3 DEF HasSync, Traffic
  <2> QED BY <1>1, <2>1 DEF OrphanInv, DeleteFollows, DeleteOnItsWay, Traffic
<1>6. BatchDecides' /\ RequeueCovers'
  <2>1. CASE BatchSaveScenarioContent
    BY <1>1, <2>1 DEF BatchSaveScenarioContent, OrphanInv, BatchDecides, RequeueCovers
  <2>2. CASE BatchDeleteScenarioContent
    BY <1>1, <2>2, AppliedTo
       DEF BatchDeleteScenarioContent, OrphanInv, BatchDecides, RequeueCovers
  <2>3. CASE FirestoreFails
    <3>1. wpc' = "requeue" /\ todo' = batch
      BY <2>3 DEF FirestoreFails
    <3> QED BY <1>1, <3>1 DEF BatchDecides, RequeueCovers, HasDelete
  <2> QED BY <2>1, <2>2, <2>3
<1> QED BY <1>1, <1>2, <1>4, <1>5, <1>6, WorkerStepOrphan

\* ackBatch keeps OrphanInv.
LEMMA AckOrphan ==
    ASSUME OrphanInv, AckOne \/ AckDone \/ AckFails
    PROVE  OrphanInv'
<1>1. /\ UNCHANGED <<row, queue, pc, held, batch, doc>>
      /\ wpc = "ack" /\ wpc' \in {"ack", "mark", "requeue"}
      /\ wpc' = "requeue" => todo' = batch
  BY DEF AckOne, AckDone, AckFails, mysql, handlers, firestore
<1>2. TypeInv'
  BY AckOneType, AckDoneType, AckFailsType DEF OrphanInv
<1>3. TrafficFits' /\ DeleteFollows' /\ BatchDecides'
  BY <1>1 DEF OrphanInv, TrafficFits, DeleteFollows, DeleteOnItsWay, Traffic, BatchDecides
<1>4. RequeueCovers'
  BY <1>1 DEF RequeueCovers, HasDelete
<1> QED BY <1>1, <1>2, <1>3, <1>4, WorkerStepOrphan

\* The steps that let go of the batch: what of it the queue does not hold has been
\* carried out.
LEMMA BatchOverOrphan ==
    ASSUME OrphanInv, MarkScenariosSynced \/ RequeueDone
    PROVE  OrphanInv'
<1>1. /\ UNCHANGED <<queue, pc, held, doc, todo>> /\ batch' = <<>> /\ wpc' = "release"
      /\ wpc = "mark" \/ (wpc = "requeue" /\ todo = <<>>)
  BY DEF MarkScenariosSynced, RequeueDone, redis, handlers, firestore
<1>2. TypeInv'
  BY MarkScenariosSyncedType, RequeueDoneType DEF OrphanInv
<1>3. \A s \in Scenario : row'[s].state = row[s].state
  <2>1. CASE RequeueDone
    BY <2>1 DEF RequeueDone, mysql
  <2>2. CASE MarkScenariosSynced
    <3>1. PICK J : Mark(J)
      BY <2>2 DEF MarkScenariosSynced
    <3> QED BY <3>1 DEF Mark, OrphanInv, TypeInv, TypeOK, MysqlType, Row
  <2> QED BY <2>1, <2>2
<1>4. ToSet(batch') = {}
  BY <1>1, EmptyElements
<1>5. TrafficFits'
  BY <1>1, <1>3, <1>4, TrafficTypes DEF OrphanInv, TrafficFits, Traffic
<1>6. BatchDecides' /\ RequeueCovers'
  BY <1>1, <1>4 DEF BatchDecides, RequeueCovers, HasDelete
<1>7. \A s \in Scenario : HasDelete(ToSet(batch), s) =>
          HasDelete(ToSet(queue), s) \/ (doc[s] = NoDoc /\ ~HasSync(ToSet(queue), s))
  BY <1>1, EmptyElements DEF OrphanInv, RequeueCovers, BatchDecides, HasDelete
<1>8. DeleteFollows'
  <2> SUFFICES ASSUME NEW s \in Scenario, row[s].state = "gone",
                      doc[s] # NoDoc \/ HasSync(ToSet(queue), s)
               PROVE  DeleteOnItsWay(s)'
    BY <1>1, <1>3, <1>4 DEF DeleteFollows, Traffic
  <2>1. DeleteOnItsWay(s)
    BY DEF OrphanInv, DeleteFollows, Traffic, HasSync
  <2>2. HasDelete(ToSet(queue), s) \/ \E r \in Request : pc[r] = "push" /\ held[r] = DeleteJob(s)
    BY <1>7, <2>1 DEF DeleteOnItsWay, HasDelete
  <2> QED BY <1>1, <2>2 DEF DeleteOnItsWay, HasDelete
<1> QED BY <1>1, <1>2, <1>3, <1>5, <1>6, <1>8, WorkerStepOrphan

\* requeueBatch, one job: a deletion goes back to the queue, never to the DLQ.
LEMMA RequeueOneOrphan ==
    ASSUME OrphanInv, QueueFits', RequeueOne
    PROVE  OrphanInv'
<1> DEFINE j == Head(todo)
           again == [j EXCEPT !.retry = j.retry + 1]
<1>1. /\ UNCHANGED <<row, pc, held, doc, batch, wpc>> /\ wpc = "requeue"
      /\ todo \in Seq(Job) /\ todo # <<>> /\ todo' = Tail(todo)
      /\ queue \in Seq(Job) /\ dlq \in Seq(Job)
  BY DEF RequeueOne, mysql, handlers, firestore, OrphanInv, TypeInv, TypeOK, RedisType, WorkerType
<1>2. /\ ToSet(todo') \subseteq ToSet(todo) /\ ToSet(todo) \subseteq ToSet(todo') \cup {j}
      /\ j \in ToSet(todo)
  BY <1>1, HeadTailElements, HeadOrTail
<1>3. j \in ToSet(batch) /\ j \in Job
  BY <1>1, <1>2, TrafficTypes DEF OrphanInv, RequeueCovers
<1>4. \/ dlq' = Append(dlq, j) /\ queue' = queue
      \/ queue' = Append(queue, again)
  BY DEF RequeueOne
<1> HIDE DEF j
<1>5. again \in Job /\ again.action = j.action /\ again.scenario = j.scenario
  BY <1>3 DEF Job
<1> HIDE DEF again
<1>6. \/ j.action # "delete" /\ ToSet(queue') = ToSet(queue)
      \/ ToSet(queue') = ToSet(queue) \cup {again}
  <2>1. ToSet(Append(queue, again)) = ToSet(queue) \cup {again}
    BY <1>1, <1>5, AppendElements
  <2>2. ToSet(Append(dlq, j)) = ToSet(dlq) \cup {j}
    BY <1>1, <1>3, AppendElements
  <2> QED BY <1>4, <2>1, <2>2 DEF QueueFits
<1>7. TrafficFits'
  BY <1>1, <1>3, <1>5, <1>6 DEF OrphanInv, TrafficFits, Traffic
<1>8. BatchDecides'
  BY <1>1 DEF BatchDecides
<1>9. RequeueCovers'
  <2>1. ToSet(todo') \subseteq ToSet(batch)
    BY <1>1, <1>2 DEF OrphanInv, RequeueCovers
  <2>2. ASSUME NEW s \in Scenario, HasDelete(ToSet(batch), s)
        PROVE  HasDelete(ToSet(todo') \cup ToSet(queue'), s)
    <3>1. PICK d \in ToSet(todo) \cup ToSet(queue) : d.action = "delete" /\ d.scenario = s
      BY <1>1, <2>2 DEF OrphanInv, RequeueCovers, HasDelete
    <3>2. d \in ToSet(todo') \cup ToSet(queue') \/ (d = j /\ again \in ToSet(queue'))
      BY <1>2, <1>6, <3>1
    <3> QED BY <1>5, <3>1, <3>2 DEF HasDelete
  <2> QED BY <1>1, <2>1, <2>2 DEF RequeueCovers
<1>10. DeleteFollows'
  <2>1. \A s \in Scenario : HasSync(Traffic', s) => HasSync(Traffic, s)
    BY <1>1, <1>3, <1>5, <1>6 DEF Traffic, HasSync
  <2>2. \A s \in Scenario : DeleteOnItsWay(s) => DeleteOnItsWay(s)'
    BY <1>1, <1>6 DEF DeleteOnItsWay
  <2> QED BY <1>1, <2>1, <2>2 DEF OrphanInv, DeleteFollows
<1> QED BY <1>1, <1>7, <1>8, <1>9, <1>10, WorkerStepOrphan, RequeueOneType DEF OrphanInv

\* The end of a run keeps OrphanInv: its batch is over.
LEMMA ReleaseOrphan ==
    ASSUME OrphanInv, ReleaseOutboxLock
    PROVE  OrphanInv'
<1>1. UNCHANGED <<row, queue, pc, held, batch, doc, todo>> /\ wpc = "release" /\ wpc' = "idle"
  BY DEF ReleaseOutboxLock, mysql, handlers, firestore
<1>2. TrafficFits' /\ DeleteFollows' /\ BatchDecides' /\ RequeueCovers'
  BY <1>1 DEF OrphanInv, TrafficFits, DeleteFollows, DeleteOnItsWay, Traffic, BatchDecides,
              RequeueCovers
<1> QED BY <1>1, <1>2, WorkerStepOrphan, KeysType DEF OrphanInv

\* Every step keeps OrphanInv as long as the queue fits.
LEMMA OrphanInvStep ==
    ASSUME DeletesEnqueued
    PROVE  OrphanInv /\ QueueFits /\ QueueFits' /\ [Next]_vars => OrphanInv'
<1> SUFFICES ASSUME OrphanInv, QueueFits, QueueFits', [Next]_vars PROVE OrphanInv'
  OBVIOUS
<1>1. CASE UNCHANGED vars \/ Tick \/ Expiry
  BY <1>1, BystanderOrphan DEF Expiry
<1>2. CASE User
  BY <1>2, CreateScenarioOrphan, UpdateFindOrphan, DeleteScenarioOrphan, BystanderOrphan
     DEF User, DeleteSharedConfig, DeletesEnqueued
<1>3. ASSUME NEW a \in Actor, Handler(a)
      PROVE  OrphanInv'
  <2>1. ~DlqRemove(a)
    BY DEF DlqRemove, OrphanInv, TypeInv, HandlersHoldJobs, HeldJobsFit
  <2> QED BY <1>3, <2>1, RequestSteps, EnqueueOrphan DEF Handler
<1>4. CASE Worker
  BY <1>4, ClaimBatchOrphan, FirestoreStepOrphan, AckOrphan, BatchOverOrphan, RequeueOneOrphan,
     ReleaseOrphan DEF Worker
<1>5. CASE Failure
  <2>1. FirestoreFails \/ AckFails
    BY <1>5 DEF Failure, EnqueueFails, ClaimFails, RequeueFails, Crash, Fault, DeletesEnqueued
  <2> QED BY <2>1, FirestoreStepOrphan, AckOrphan
<1>6. ~(\E c \in Reconciler : Reconcile(c))
  BY DEF Reconcile, DlqRead, WatermarkRead, DeletesEnqueued
<1> QED BY <1>1, <1>2, <1>3, <1>4, <1>5, <1>6 DEF Next

\* NoOrphan for any number of scenarios and requests, any batch size and retry bound,
\* and every interleaving: whatever Firestore refuses or does without answering, and
\* whichever ack is lost, a document without a row is followed by its delete job. The
\* hypotheses are the limits of that: a claim smaller than the queue lets an upsert be
\* requeued behind the deletion it preceded, and a buried deletion is nobody's to retry.
THEOREM NoOrphanStays ==
    ASSUME DeletesEnqueued
    PROVE  Spec /\ []QueueFits => []NoOrphan
<1>1. OrphanInv => NoOrphan
  <2> SUFFICES ASSUME OrphanInv, NEW s \in Scenario, ~Live(s), doc[s] # NoDoc
               PROVE  DeleteOnItsWay(s)
    BY DEF NoOrphan
  <2>1. row[s].state = "gone"
    BY RowFields DEF OrphanInv, TrafficFits, Live
  <2> QED BY <2>1 DEF OrphanInv, DeleteFollows
<1> QED BY <1>1, OrphanInvInit, OrphanInvStep, PTL DEF Spec

-----------------------------------------------------------------------------
(* Refinement: the outbox is the at-least-once queue of ContentMirror.      *)

\* What the worker knows of its batch at each of its awaits: until Firestore has
\* taken it, every job of it is in the processing list; what ackBatch takes out
\* of that list was carried out.
BatchInHand ==
    wpc \in {"upsert", "delete"} => ToSet(batch) \subseteq ToSet(processing)

SyncsDone ==
    wpc \in {"delete", "ack"} =>
        \A j \in ToSet(batch) : j.action = "sync" => j.content \in uploaded[j.scenario]

DeletesDone ==
    wpc = "ack" => \A j \in ToSet(batch) : j.action = "delete" => doc[j.scenario] = NoDoc

AckInBatch ==
    wpc = "ack" => ToSet(todo) \subseteq ToSet(batch)

DeliveryInv == TypeInv /\ BatchInHand /\ SyncsDone /\ DeletesDone /\ AckInBatch

\* The initial state satisfies it: the worker is idle.
LEMMA DeliveryInvInit == Init => DeliveryInv
BY TypeInvInit DEF Init, DeliveryInv, BatchInHand, SyncsDone, DeletesDone, AckInBatch

\* Whoever is not the worker leaves it alone, and so does the worker between batches.
LEMMA BatchAlone ==
    ASSUME DeliveryInv, TypeInv',
           \/ UNCHANGED <<wpc, batch, todo, processing, doc, uploaded>>
           \/ wpc' \in {"idle", "mark", "requeue", "release"}
    PROVE  DeliveryInv'
BY DEF DeliveryInv, BatchInHand, SyncsDone, DeletesDone, AckInBatch

\* claimBatch: what it claims is in the processing list.
LEMMA ClaimDelivers ==
    ASSUME DeliveryInv, ClaimBatch
    PROVE  DeliveryInv'
<1> DEFINE n == MinOf(BatchSize, Len(queue))
<1>1. n \in 0..Len(queue)
  BY OutboxAssumption DEF MinOf, DeliveryInv, TypeInv, TypeOK, RedisType
<1>2. Move(n) /\ batch' = SubSeq(queue, 1, n) /\ wpc' = "upsert"
  BY DEF ClaimBatch
<1> HIDE DEF n
<1>3. SubSeq(queue, 1, n) \in Seq(Job) /\ processing \in Seq(Job)
  BY <1>1, <1>2, MoveType DEF DeliveryInv, TypeInv, TypeOK, RedisType
<1>4. ToSet(batch') \subseteq ToSet(processing')
  <2> DEFINE old == SubSeq(queue, 1, n)
  <2>1. old \in Seq(Job) /\ batch' = old /\ processing' = processing \o old
    BY <1>2, <1>3 DEF Move
  <2> HIDE DEF old
  <2> QED BY <1>3, <2>1, ConcatElements
<1>5. TypeInv'
  BY ClaimBatchType DEF DeliveryInv
<1> QED BY <1>2, <1>4, <1>5 DEF DeliveryInv, BatchInHand, SyncsDone, DeletesDone, AckInBatch

\* A Firestore batch that succeeds carries out its part of the claimed jobs.
LEMMA FirestoreDelivers ==
    ASSUME DeliveryInv, BatchSaveScenarioContent \/ BatchDeleteScenarioContent
    PROVE  DeliveryInv'
<1>1. TypeInv' /\ UNCHANGED <<batch, processing>>
  BY BatchSaveType, BatchDeleteType
     DEF DeliveryInv, BatchSaveScenarioContent, BatchDeleteScenarioContent, redis
<1>2. \A j \in ToSet(batch) : j.scenario \in Scenario
  BY ElementsInRange, JobFields DEF DeliveryInv, TypeInv, TypeOK, WorkerType
<1>3. CASE BatchSaveScenarioContent
  <2>1. \A j \in ToSet(batch) : j.action = "sync" => j.content \in uploaded'[j.scenario]
    BY <1>2, <1>3 DEF BatchSaveScenarioContent, ApplyUpserts, Syncs
  <2>2. wpc = "upsert" /\ wpc' = "delete"
    BY <1>3 DEF BatchSaveScenarioContent
  <2> QED BY <1>1, <2>1, <2>2
          DEF DeliveryInv, BatchInHand, SyncsDone, DeletesDone, AckInBatch
<1>4. CASE BatchDeleteScenarioContent
  <2>1. \A j \in ToSet(batch) : j.action = "delete" => doc'[j.scenario] = NoDoc
    BY <1>2, <1>4 DEF BatchDeleteScenarioContent, ApplyDeletes, Deletes
  <2>2. wpc = "delete" /\ wpc' = "ack" /\ todo' = batch /\ uploaded' = uploaded
    BY <1>4 DEF BatchDeleteScenarioContent, ApplyDeletes
  <2> QED BY <1>1, <2>1, <2>2
          DEF DeliveryInv, BatchInHand, SyncsDone, DeletesDone, AckInBatch
<1> QED BY <1>3, <1>4

\* One turn of ackBatch's loop.
LEMMA AckDelivers ==
    ASSUME DeliveryInv, AckOne
    PROVE  DeliveryInv'
<1>1. TypeInv' /\ UNCHANGED <<wpc, batch, doc, uploaded>> /\ wpc = "ack"
  BY AckOneType DEF DeliveryInv, AckOne, firestore
<1>2. ToSet(todo') \subseteq ToSet(todo)
  BY HeadTailElements DEF AckOne, DeliveryInv, TypeInv, TypeOK, WorkerType
<1> QED BY <1>1, <1>2 DEF DeliveryInv, BatchInHand, SyncsDone, DeletesDone, AckInBatch

\* Every step keeps DeliveryInv.
LEMMA DeliveryInvStep == DeliveryInv /\ [Next]_vars => DeliveryInv'
<1> SUFFICES ASSUME DeliveryInv, [Next]_vars PROVE DeliveryInv'
  OBVIOUS
<1>1. TypeInv'
  BY TypeInvStep DEF DeliveryInv
<1>2. CASE UNCHANGED vars
  BY <1>1, <1>2, BatchAlone DEF vars, redis, firestore, worker
<1>3. CASE User \/ Tick \/ Expiry
  BY <1>1, <1>3, BatchAlone
     DEF User, CreateScenario, UpdateFind, DeleteScenario, ShareScenario, DeleteSharedConfig,
         Tick, Expiry, LockExpires, CircuitExpires, redis, firestore, worker
<1>4. ASSUME NEW a \in Actor, Handler(a)
      PROVE  DeliveryInv'
  BY <1>1, <1>4, BatchAlone
     DEF Handler, UpdateCommit, UpdateReread, DlqRemove, Enqueue, SetPending, redis, firestore,
         worker
<1>5. ASSUME NEW c \in Reconciler, Reconcile(c)
      PROVE  DeliveryInv'
  BY <1>1, <1>5, BatchAlone DEF Reconcile, DlqRead, WatermarkRead, redis, firestore, worker
<1>6. CASE Worker
  <2>1. CASE ClaimBatch \/ BatchSaveScenarioContent \/ BatchDeleteScenarioContent \/ AckOne
    BY <2>1, ClaimDelivers, FirestoreDelivers, AckDelivers
  <2>2. CASE AckDone \/ MarkScenariosSynced \/ RequeueOne \/ RequeueDone \/ ReleaseOutboxLock
    <3>1. wpc' \in {"idle", "mark", "requeue", "release"}
      BY <2>2 DEF AckDone, MarkScenariosSynced, RequeueOne, RequeueDone, ReleaseOutboxLock
    <3> QED BY <1>1, <3>1, BatchAlone
  <2> QED BY <1>6, <2>1, <2>2 DEF Worker
<1>7. CASE Failure
  <2>1. CASE \E a \in Actor : EnqueueFails(a)
    BY <1>1, <2>1, BatchAlone DEF EnqueueFails, firestore, worker
  <2>2. CASE ClaimFails \/ FirestoreFails \/ AckFails \/ RequeueFails \/ Crash
    <3>1. wpc' \in {"idle", "mark", "requeue", "release"}
      BY <2>2 DEF ClaimFails, FirestoreFails, AckFails, RequeueFails, Crash
    <3> QED BY <1>1, <3>1, BatchAlone
  <2> QED BY <1>7, <2>1, <2>2 DEF Failure
<1> QED BY <1>2, <1>3, <1>4, <1>5, <1>6, <1>7 DEF Next

\* The works of a list, as it grows and shrinks.
LEMMA WorksAppended ==
    ASSUME NEW l \in Seq(Job), NEW j \in Job
    PROVE  Works(Append(l, j)) = Works(l) \cup {Asked(j)}
BY AppendElements DEF Works

LEMMA WorksRemoved ==
    ASSUME NEW l \in Seq(Job), NEW j
    PROVE  Works(RemoveFirst(l, j)) \in {Works(l), Works(l) \ {Asked(j)}}
<1> DEFINE m == RemoveFirst(l, j)
<1>1. ToSet(m) \subseteq ToSet(l) /\ ToSet(l) \subseteq ToSet(m) \cup {j}
  BY RemoveFirstElements, RemoveFirstKeeps
<1> HIDE DEF m
<1>2. Works(m) \subseteq Works(l) /\ Works(l) \subseteq Works(m) \cup {Asked(j)}
  BY <1>1 DEF Works
<1>3. Works(m) \in {Works(l), Works(l) \ {Asked(j)}}
  BY <1>2
<1> QED BY <1>3 DEF m

LEMMA WorksMoved ==
    ASSUME TypeInv, NEW n \in 0..Len(queue), Move(n)
    PROVE  Works(queue') \cup Works(processing') = Works(queue) \cup Works(processing)
<1> DEFINE old == SubSeq(queue, 1, n)
           rest == SubSeq(queue, n + 1, Len(queue))
<1>1. queue \in Seq(Job) /\ processing \in Seq(Job) /\ old \in Seq(Job)
  BY MoveType DEF TypeInv, TypeOK, RedisType
<1>2. ToSet(queue) = ToSet(old) \cup ToSet(rest)
  BY <1>1, CutElements
<1>3. queue' = rest /\ processing' = processing \o old
  BY DEF Move
<1> HIDE DEF old, rest
<1>4. ToSet(processing') = ToSet(processing) \cup ToSet(old)
  BY <1>1, <1>3, ConcatElements
<1> QED BY <1>2, <1>3, <1>4 DEF Works

\* The works of the lists, and of a job that may enter them.
LEMMA WorkTypes ==
    /\ \A j \in Job : Asked(j) \in Outbox!Work
    /\ TypeInv => Works(queue) \cup Works(processing) \cup Works(dlq) \subseteq Outbox!Work
<1>1. \A j \in Job : Asked(j) \in Outbox!Work
  BY JobFields DEF Asked, Outbox!Work
<1>2. TypeInv => ToSet(queue) \cup ToSet(processing) \cup ToSet(dlq) \subseteq Job
  BY ElementsInRange DEF TypeInv, TypeOK, RedisType
<1> QED BY <1>1, <1>2 DEF Works

\* A step of the mirror, or none.
MirrorStep == [Outbox!MirrorNext]_Outbox!ours

\* Whoever touches no list and no document takes no step of it.
LEMMA MirrorUnchanged ==
    ASSUME UNCHANGED <<queue, processing, dlq, firestore>>
    PROVE  MirrorStep
BY DEF MirrorStep, Outbox!ours, firestore, Works

\* Lists that hold what they held, and one work more.
LEMMA MirrorAccepts ==
    ASSUME NEW w \in Outbox!Work, UNCHANGED <<dlq, firestore>>,
           Works(queue)' \cup Works(processing)'
             \in {Works(queue) \cup Works(processing),
                  (Works(queue) \cup Works(processing)) \cup {w}}
    PROVE  MirrorStep
<1> DEFINE q == Works(queue) \cup Works(processing)
<1>1. Works(dlq)' = Works(dlq) /\ doc' = doc /\ uploaded' = uploaded
  BY DEF Works, firestore
<1>2. CASE q' = q
  BY <1>1, <1>2 DEF MirrorStep, Outbox!ours
<1>3. CASE q' = q \cup {w}
  <2>1. Outbox!Accept(w) /\ w \in q'
    BY <1>1, <1>3 DEF Outbox!Accept
  <2> QED BY <2>1 DEF MirrorStep, Outbox!MirrorNext
<1> QED BY <1>2, <1>3

\* The producers: what a handler or a pass pushes is accepted.
LEMMA EnqueueAccepts ==
    ASSUME DeliveryInv, NEW a \in Actor, Enqueue(a) \/ EnqueueFails(a)
    PROVE  MirrorStep
<1>1. held[a] \in Job /\ queue \in Seq(Job)
  BY DEF Enqueue, EnqueueFails, DeliveryInv, TypeInv, HandlersHoldJobs, TypeOK, RedisType
<1>2. queue' \in {queue, Append(queue, held[a])} /\ UNCHANGED <<processing, dlq, firestore>>
  BY DEF Enqueue, EnqueueFails
<1>3. Works(Append(queue, held[a])) = Works(queue) \cup {Asked(held[a])}
  BY <1>1, WorksAppended
<1>4. Works(processing)' = Works(processing)
  BY <1>2
<1>5. Works(queue)' \in {Works(queue), Works(queue) \cup {Asked(held[a])}}
  BY <1>2, <1>3
<1> QED BY <1>1, <1>2, <1>4, <1>5, WorkTypes, MirrorAccepts

\* The claim: jobs change lists, whether the claim is completed or not.
LEMMA ClaimKeepsWorks ==
    ASSUME DeliveryInv, ClaimBatch \/ ClaimFails
    PROVE  MirrorStep
<1>1. TypeInv
  BY DEF DeliveryInv
<1>2. PICK n \in 0..Len(queue) : Move(n)
  <2>1. MinOf(BatchSize, Len(queue)) \in 0..Len(queue)
    BY <1>1, OutboxAssumption DEF MinOf, TypeInv, TypeOK, RedisType
  <2>2. CASE ClaimBatch
    BY <2>1, <2>2 DEF ClaimBatch
  <2>3. CASE ClaimFails
    <3>1. PICK n \in 1..MinOf(BatchSize, Len(queue)) : Move(n)
      BY <2>3 DEF ClaimFails
    <3>2. n \in 0..Len(queue)
      BY <1>1, <2>1 DEF TypeInv, TypeOK, RedisType
    <3> QED BY <3>1, <3>2
  <2> QED BY <2>2, <2>3
<1>3. Works(queue') \cup Works(processing') = Works(queue) \cup Works(processing)
  BY <1>1, <1>2, WorksMoved
<1>4. UNCHANGED <<dlq, firestore>>
  BY DEF ClaimBatch, ClaimFails
<1> QED BY <1>3, <1>4 DEF MirrorStep, Outbox!ours, Works, firestore

\* The batch of upserts writes works that are queued, and one of a scenario's stays.
LEMMA UpsertsWrite ==
    ASSUME DeliveryInv, wpc = "upsert", ApplyUpserts, UNCHANGED <<queue, processing, dlq>>
    PROVE  MirrorStep
<1> DEFINE W == {Asked(j) : j \in {k \in ToSet(batch) : k.action = "sync"}}
           Contents(s) == {w.content : w \in {v \in W : v.scenario = s}}
           I(s) == {i \in DOMAIN batch : batch[i] \in Syncs(s)}
           last(s) == CHOOSE i \in I(s) : \A k \in I(s) : k <= i
<1>1. W \subseteq Works(queue) \cup Works(processing) /\ \A w \in W : w.action = "sync"
  <2>1. ToSet(batch) \subseteq ToSet(processing)
    BY DEF DeliveryInv, BatchInHand
  <2>2. W \subseteq Works(processing)
    BY <2>1 DEF Works
  <2>3. \A w \in W : w.action = "sync"
    BY DEF Asked
  <2> QED BY <2>2, <2>3
<1>2. \A s \in Scenario : Contents(s) = {j.content : j \in Syncs(s)}
  <2> SUFFICES ASSUME NEW s \in Scenario PROVE Contents(s) = {j.content : j \in Syncs(s)}
    OBVIOUS
  <2>1. \A j : /\ Asked(j).scenario = j.scenario /\ Asked(j).content = j.content
    BY DEF Asked
  <2>2. {j.content : j \in Syncs(s)} \subseteq Contents(s)
    <3> SUFFICES ASSUME NEW j \in Syncs(s) PROVE j.content \in Contents(s)
      OBVIOUS
    <3>1. Asked(j) \in {v \in W : v.scenario = s}
      BY <2>1 DEF Syncs
    <3> QED BY <2>1, <3>1
  <2>3. Contents(s) \subseteq {j.content : j \in Syncs(s)}
    <3> SUFFICES ASSUME NEW w \in W, w.scenario = s
                 PROVE  w.content \in {j.content : j \in Syncs(s)}
      OBVIOUS
    <3>1. PICK j \in ToSet(batch) : j.action = "sync" /\ w = Asked(j)
      OBVIOUS
    <3>2. j \in Syncs(s) /\ w.content = j.content
      BY <2>1, <3>1 DEF Syncs
    <3> QED BY <3>2
  <2> QED BY <2>2, <2>3
<1>3. batch \in Seq(Job) /\ Len(batch) \in Nat /\ doc \in [Scenario -> Nat]
  BY DEF DeliveryInv, TypeInv, TypeOK, WorkerType, FirestoreType
<1>4. /\ doc' = [s \in Scenario |-> IF I(s) = {} THEN doc[s] ELSE batch[last(s)].content]
      /\ uploaded' = [s \in Scenario |-> uploaded[s] \cup {j.content : j \in Syncs(s)}]
  BY DEF ApplyUpserts
<1>5. doc' \in [Scenario -> Nat]
  BY ApplyType DEF DeliveryInv, FirestoreType
<1>6. ASSUME NEW s \in Scenario
      PROVE  doc'[s] \in IF Contents(s) = {} THEN {doc[s]} ELSE Contents(s)
  <2>1. I(s) = {} <=> Syncs(s) = {}
    <3>1. ToSet(batch) = {batch[i] : i \in DOMAIN batch}
      BY <1>3, ElementsByIndex
    <3>2. Syncs(s) \subseteq ToSet(batch)
      BY DEF Syncs
    <3> QED BY <3>1, <3>2
  <2>2. CASE I(s) = {}
    BY <1>2, <1>4, <2>1, <2>2
  <2>3. CASE I(s) # {}
    <3>1. I(s) \subseteq 1..Len(batch)
      BY <1>3
    <3>2. \E i \in I(s) : \A k \in I(s) : k <= i
      BY <1>3, <2>3, <3>1, LargestExists
    <3>3. last(s) \in I(s)
      BY <3>2
    <3>4. doc'[s] = batch[last(s)].content
      BY <1>4, <2>3
    <3> HIDE DEF last
    <3>5. batch[last(s)] \in Syncs(s)
      BY <3>3
    <3> QED BY <1>2, <2>1, <2>3, <3>4, <3>5
  <2> QED BY <2>2, <2>3
<1>7. uploaded' = [s \in Scenario |-> uploaded[s] \cup Contents(s)]
  BY <1>2, <1>4
<1>8. UNCHANGED <<Works(queue) \cup Works(processing), Works(dlq)>>
  BY DEF Works
<1> HIDE DEF Contents
<1>9. \E V \in SUBSET (Works(queue) \cup Works(processing)) : Outbox!Write(V)
  <2> HIDE DEF W
  <2>1. Outbox!Write(W)
    BY <1>1, <1>5, <1>6, <1>7, <1>8 DEF Outbox!Write, Contents
  <2> QED BY <1>1, <2>1
<1> QED BY <1>9 DEF MirrorStep, Outbox!MirrorNext

\* The batch of deletes erases the scenarios a queued work says are to go.
LEMMA DeletesErase ==
    ASSUME DeliveryInv, wpc = "delete", ApplyDeletes, UNCHANGED <<queue, processing, dlq>>
    PROVE  MirrorStep
<1> DEFINE S == {s \in Scenario : Deletes(s) # {}}
<1>1. ASSUME NEW s \in S
      PROVE  \E w \in Works(queue) \cup Works(processing) : w.action = "delete" /\ w.scenario = s
  <2>1. PICK j \in Deletes(s) : TRUE
    OBVIOUS
  <2>2. j \in ToSet(processing) /\ j.action = "delete" /\ j.scenario = s
    BY <2>1 DEF Deletes, DeliveryInv, BatchInHand
  <2>3. Asked(j) \in Works(processing) /\ Asked(j).action = "delete" /\ Asked(j).scenario = s
    BY <2>2 DEF Works, Asked
  <2> QED BY <2>3
<1>2. /\ doc' = [s \in Scenario |-> IF s \in S THEN NoDoc ELSE doc[s]]
      /\ uploaded' = uploaded
  BY DEF ApplyDeletes
<1>3. UNCHANGED <<Works(queue) \cup Works(processing), Works(dlq)>>
  BY DEF Works
<1>4. S \in SUBSET Scenario
  OBVIOUS
<1> HIDE DEF S
<1>5. Outbox!Erase(S)
  BY <1>1, <1>2, <1>3 DEF Outbox!Erase
<1> QED BY <1>4, <1>5 DEF MirrorStep, Outbox!MirrorNext

\* What Firestore does with a batch, whatever it answers.
LEMMA FirestoreStepsMirror ==
    ASSUME DeliveryInv,
           BatchSaveScenarioContent \/ BatchDeleteScenarioContent \/ FirestoreFails
    PROVE  MirrorStep
<1>1. UNCHANGED <<queue, processing, dlq>>
  BY DEF BatchSaveScenarioContent, BatchDeleteScenarioContent, FirestoreFails, redis
<1>2. \/ wpc = "upsert" /\ ApplyUpserts
      \/ wpc = "delete" /\ ApplyDeletes
      \/ UNCHANGED firestore
  BY DEF BatchSaveScenarioContent, BatchDeleteScenarioContent, FirestoreFails
<1> QED BY <1>1, <1>2, UpsertsWrite, DeletesErase, MirrorUnchanged

\* A job that leaves the processing list: its work is queued still, or no more.
LEMMA OneLeaves ==
    ASSUME TypeInv, NEW j, processing' = RemoveFirst(processing, j), queue' = queue
    PROVE  Works(queue)' \cup Works(processing)'
             \in {Works(queue) \cup Works(processing),
                  (Works(queue) \cup Works(processing)) \ {Asked(j)}}
<1>1. processing \in Seq(Job)
  BY DEF TypeInv, TypeOK, RedisType
<1>2. Works(processing)' \in {Works(processing), Works(processing) \ {Asked(j)}}
  BY <1>1, WorksRemoved
<1>3. Works(queue)' = Works(queue)
  OBVIOUS
<1> QED BY <1>2, <1>3

\* ackBatch settles what Firestore has.
LEMMA AckSettles ==
    ASSUME DeliveryInv, AckOne
    PROVE  MirrorStep
<1> DEFINE j == Head(todo)
           q == Works(queue) \cup Works(processing)
<1>1. j \in ToSet(batch)
  BY HeadTailElements DEF AckOne, DeliveryInv, AckInBatch, TypeInv, TypeOK, WorkerType
<1>2. /\ processing' = RemoveFirst(processing, j) /\ queue' = queue
      /\ UNCHANGED <<dlq, doc, uploaded>> /\ wpc = "ack"
  BY DEF AckOne, firestore
<1> HIDE DEF j
<1>3. j \in Job
  BY <1>1, ElementsInRange DEF DeliveryInv, TypeInv, TypeOK, WorkerType
<1>4. Outbox!Done(Asked(j))
  BY <1>1, <1>2, <1>3, JobFields
     DEF Outbox!Done, Asked, DeliveryInv, SyncsDone, DeletesDone
<1>5. q' \in {q, q \ {Asked(j)}}
  BY <1>2, OneLeaves DEF DeliveryInv
<1>6. Works(dlq)' = Works(dlq)
  BY <1>2
<1> HIDE DEF q
<1>7. \E W \in SUBSET q : (\A w \in W : Outbox!Done(w)) /\ q' = q \ W
  <2>1. CASE q' = q
    <3> WITNESS {} \in SUBSET q
    <3> QED BY <2>1
  <2>2. CASE q' = q \ {Asked(j)}
    <3> WITNESS q \cap {Asked(j)} \in SUBSET q
    <3> QED BY <1>4, <2>2
  <2> QED BY <1>5, <2>1, <2>2
<1>8. \E W \in SUBSET q : Outbox!Settle(W)
  BY <1>2, <1>6, <1>7 DEF q, Outbox!Settle
<1> QED BY <1>8 DEF q, MirrorStep, Outbox!MirrorNext

\* requeueBatch, one job: it is queued again, or buried.
LEMMA RequeueReturns ==
    ASSUME DeliveryInv, RequeueOne
    PROVE  MirrorStep
<1> DEFINE j == Head(todo)
           again == [j EXCEPT !.retry = j.retry + 1]
           q == Works(queue) \cup Works(processing)
<1>1. todo \in Seq(Job) /\ todo # <<>> /\ queue \in Seq(Job) /\ dlq \in Seq(Job)
      /\ processing \in Seq(Job)
  BY DEF RequeueOne, DeliveryInv, TypeInv, TypeOK, RedisType, WorkerType
<1>2. j \in Job
  BY <1>1, HeadTailElements, ElementsInRange
<1>3. /\ processing' = RemoveFirst(processing, j)
      /\ doc' = doc /\ uploaded' = uploaded
      /\ \/ dlq' = Append(dlq, j) /\ queue' = queue
         \/ queue' = Append(queue, again) /\ dlq' = dlq
  BY DEF RequeueOne, firestore
<1> HIDE DEF j
<1>4. again \in Job /\ Asked(again) = Asked(j) /\ Asked(j) \in Outbox!Work
  BY <1>2, WorkTypes DEF Job, Asked
<1> HIDE DEF again
<1>5. CASE dlq' = Append(dlq, j) /\ queue' = queue
  <2>1. q' \in {q, q \ {Asked(j)}}
    BY <1>3, <1>5, OneLeaves DEF DeliveryInv
  <2>2. Works(dlq)' = Works(dlq) \cup {Asked(j)}
    BY <1>1, <1>2, <1>5, WorksAppended
  <2> HIDE DEF q
  <2>3. Outbox!Bury(Asked(j)) /\ Asked(j) \in Works(dlq)'
    BY <1>3, <1>4, <2>1, <2>2 DEF q, Outbox!Bury
  <2> QED BY <2>3 DEF MirrorStep, Outbox!MirrorNext
<1>6. CASE queue' = Append(queue, again) /\ dlq' = dlq
  <2>1. Works(queue)' = Works(queue) \cup {Asked(j)}
    BY <1>1, <1>4, <1>6, WorksAppended
  <2>2. Works(processing)' \in {Works(processing), Works(processing) \ {Asked(j)}}
    BY <1>1, <1>3, WorksRemoved
  <2>3. q' = q \cup {Asked(j)}
    BY <2>1, <2>2
  <2> QED BY <1>3, <1>4, <1>6, <2>3, MirrorAccepts DEF firestore
<1> QED BY <1>3, <1>5, <1>6

\* The pass takes an entry out of the dead letters.
LEMMA DlqRemoveTakesOver ==
    ASSUME DeliveryInv, NEW c \in Actor, DlqRemove(c)
    PROVE  MirrorStep
<1>1. dlq \in Seq(Job) /\ dlq' = RemoveFirst(dlq, entry[c])
      /\ UNCHANGED <<queue, processing, firestore>>
  BY DEF DlqRemove, DeliveryInv, TypeInv, TypeOK, RedisType
<1> DEFINE w == Asked(entry[c])
<1>2. Works(dlq)' \in {Works(dlq), Works(dlq) \ {w}}
  BY <1>1, WorksRemoved
<1>3. Works(queue)' \cup Works(processing)' = Works(queue) \cup Works(processing)
  BY <1>1
<1>4. doc' = doc /\ uploaded' = uploaded
  BY <1>1 DEF firestore
<1> HIDE DEF w
<1>5. CASE Works(dlq)' = Works(dlq)
  BY <1>3, <1>4, <1>5 DEF MirrorStep, Outbox!ours
<1>6. CASE w \in Works(dlq) /\ Works(dlq)' = Works(dlq) \ {w}
  <2>1. Outbox!TakeOver(w)
    BY <1>3, <1>4, <1>6 DEF Outbox!TakeOver
  <2> QED BY <1>6, <2>1 DEF MirrorStep, Outbox!MirrorNext
<1> QED BY <1>2, <1>5, <1>6

\* A requeue that stops halfway loses the work it is at, or none.
LEMMA HalfwayLoses ==
    ASSUME DeliveryInv, RequeueFails \/ Crash
    PROVE  MirrorStep
<1>1. UNCHANGED <<queue, dlq, firestore>>
  BY DEF RequeueFails, Crash
<1>2. CASE processing' = processing
  BY <1>1, <1>2, MirrorUnchanged
<1>3. CASE /\ "requeue" \in Faults /\ wpc = "requeue"
           /\ processing' = RemoveFirst(processing, Head(todo))
  <2> DEFINE w == Asked(Head(todo))
             q == Works(queue) \cup Works(processing)
  <2>1. q' \in {q, q \ {w}}
    BY <1>1, <1>3, OneLeaves DEF DeliveryInv
  <2>2. Works(dlq)' = Works(dlq) /\ doc' = doc /\ uploaded' = uploaded
    BY <1>1 DEF firestore
  <2> HIDE DEF w, q
  <2>3. CASE q' = q
    BY <2>2, <2>3 DEF q, MirrorStep, Outbox!ours
  <2>4. CASE w \in q /\ q' = q \ {w}
    <3>1. Outbox!Lose(w)
      BY <1>3, <2>2, <2>4 DEF q, Outbox!Lose
    <3> QED BY <2>4, <3>1 DEF q, MirrorStep, Outbox!MirrorNext
  <2> QED BY <2>1, <2>3, <2>4
<1> QED BY <1>2, <1>3 DEF RequeueFails, Crash, Fault

\* Every step of the pipeline is a step of the mirror, or none.
LEMMA StepMirrors == DeliveryInv /\ [Next]_vars => MirrorStep
<1> SUFFICES ASSUME DeliveryInv, [Next]_vars PROVE MirrorStep
  OBVIOUS
<1>1. CASE UNCHANGED vars \/ User \/ Tick \/ Expiry
  BY <1>1, MirrorUnchanged
     DEF vars, User, CreateScenario, UpdateFind, DeleteScenario, ShareScenario,
         DeleteSharedConfig, Tick, Expiry, LockExpires, CircuitExpires, redis
<1>2. ASSUME NEW a \in Actor, Handler(a)
      PROVE  MirrorStep
  <2>1. CASE UpdateCommit(a) \/ UpdateReread(a) \/ SetPending(a)
    BY <2>1, MirrorUnchanged DEF UpdateCommit, UpdateReread, SetPending, redis
  <2> QED BY <1>2, <2>1, EnqueueAccepts, DlqRemoveTakesOver DEF Handler
<1>3. CASE Worker
  <2>1. CASE AckDone \/ MarkScenariosSynced \/ RequeueDone \/ ReleaseOutboxLock
    BY <2>1, MirrorUnchanged DEF AckDone, MarkScenariosSynced, RequeueDone, ReleaseOutboxLock,
                                 redis
  <2> QED BY <1>3, <2>1, ClaimKeepsWorks, FirestoreStepsMirror, AckSettles, RequeueReturns
          DEF Worker
<1>4. CASE Failure
  <2>1. CASE AckFails
    BY <2>1, MirrorUnchanged DEF AckFails
  <2> QED BY <1>4, <2>1, EnqueueAccepts, ClaimKeepsWorks, FirestoreStepsMirror, HalfwayLoses
          DEF Failure
<1>5. ASSUME NEW c \in Reconciler, Reconcile(c)
      PROVE  MirrorStep
  BY <1>5, MirrorUnchanged DEF Reconcile, DlqRead, WatermarkRead, redis
<1> QED BY <1>1, <1>2, <1>3, <1>4, <1>5 DEF Next

\* For any scenarios, requests, batches and reconcile passes, and whatever claim, batch,
\* ack or process fails: a job leaves the outbox only when Firestore has what it asks
\* for, or for the dead letters, and Firestore takes nothing that was not enqueued. A
\* requeue that stops between LREM and LPUSH is the one way to lose a job.
THEOREM OutboxDeliversAtLeastOnce == Spec => AtLeastOnce
<1>1. Init => Outbox!MirrorInit
  BY EmptyElements DEF Init, Outbox!MirrorInit, Works
<1>2. DeliveryInv /\ [Next]_vars => [Outbox!MirrorNext]_Outbox!ours
  BY StepMirrors DEF MirrorStep
<1> QED BY <1>1, <1>2, DeliveryInvInit, DeliveryInvStep, PTL
        DEF Spec, AtLeastOnce, Outbox!MirrorSpec
=============================================================================
