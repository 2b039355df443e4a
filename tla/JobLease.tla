------------------------------ MODULE JobLease ------------------------------
(***************************************************************************)
(* runScheduledWorkWithLease (kernels/jobs/redisJobLease.js) as the hourly *)
(* clean-up of expired codes uses it (kernels/jobs/authCodeCleanupJob.js): *)
(* several replicas fire the same timer, SET NX PX lets one of them run    *)
(* the job, and a GET followed by a DEL gives the lock back.               *)
(***************************************************************************)
EXTENDS Naturals

CONSTANTS
    Replica,        \* processes that run the timer
    NoReplica,      \* nobody
    LeaseTtl,       \* lockTtlMs, in ticks
    WorkMax,        \* the longest a run of the job takes
    UnlockMax,      \* the longest GET and DEL take after it
    MaxLeaseFaults  \* bound: refused calls, lost answers and crashes

\* The lock outlives the job and its unlocking. The code does not enforce it: 55
\* minutes against a handful of DELETE statements.
ASSUME LeaseAssumption ==
    /\ NoReplica \notin Replica
    /\ LeaseTtl \in Nat /\ WorkMax \in Nat /\ UnlockMax \in Nat /\ MaxLeaseFaults \in Nat
    /\ WorkMax + UnlockMax < LeaseTtl

VARIABLES
    lease,          \* the key lock:auth_code_cleanup: its value, and the ticks it has left
    runner,         \* each replica's place in runScheduledWorkWithLease
    leaseFaults

leaseVars == <<lease, runner, leaseFaults>>

Free == [value |-> NoReplica, ttl |-> 0]

\* A replica between two runs; `locked` is acquiredLock, `age` counts from SET.
Off == [pc |-> "idle", locked |-> FALSE, age |-> 0]

Working == {r \in Replica : runner[r].pc = "working"}
Unlocking == {r \in Replica : runner[r].pc \in {"get", "del"}}

LeaseTypeOK ==
    /\ lease \in [value : Replica \cup {NoReplica}, ttl : 0..LeaseTtl]
    /\ runner \in [Replica -> [pc : {"idle", "working", "get", "del"}, locked : BOOLEAN,
                               age : 0..(WorkMax + UnlockMax)]]
    /\ leaseFaults \in 0..MaxLeaseFaults

LeaseInit ==
    /\ lease = Free
    /\ runner = [r \in Replica |-> Off]
    /\ leaseFaults = 0

LeaseFault ==
    /\ leaseFaults < MaxLeaseFaults
    /\ leaseFaults' = leaseFaults + 1

StopRunning(r) == runner' = [runner EXCEPT ![r] = Off]

-----------------------------------------------------------------------------
\* Slip: SET without NX.
AcquireAnyhow(r) ==
    /\ runner[r].pc = "idle"
    /\ lease' = [value |-> r, ttl |-> LeaseTtl]
    /\ runner' = [runner EXCEPT ![r] = [pc |-> "working", locked |-> TRUE, age |-> 0]]
    /\ UNCHANGED leaseFaults

\* The timer fires and SET NX PX succeeds. When another replica holds the lock the
\* run is skipped, which changes nothing.
Acquire(r) ==
    /\ runner[r].pc = "idle"
    /\ lease = Free
    /\ lease' = [value |-> r, ttl |-> LeaseTtl]
    /\ runner' = [runner EXCEPT ![r] = [pc |-> "working", locked |-> TRUE, age |-> 0]]
    /\ UNCHANGED leaseFaults

\* SET was done but its answer is lost: runOnce logs the exception, and the lock
\* stays without a holder.
AcquireFails(r) ==
    /\ runner[r].pc = "idle"
    /\ lease = Free
    /\ LeaseFault
    /\ lease' = [value |-> r, ttl |-> LeaseTtl]
    /\ UNCHANGED runner

\* Redis cannot be reached: the job runs without the lock, strict mode or not.
RunUnlocked(r) ==
    /\ runner[r].pc = "idle"
    /\ LeaseFault
    /\ runner' = [runner EXCEPT ![r] = [pc |-> "working", locked |-> FALSE, age |-> 0]]
    /\ UNCHANGED lease

\* The job ends or throws; the finally block looks at the lock only when it was taken.
FinishWork(r) ==
    /\ runner[r].pc = "working"
    /\ IF runner[r].locked THEN runner' = [runner EXCEPT ![r].pc = "get"] ELSE StopRunning(r)
    /\ UNCHANGED <<lease, leaseFaults>>

UnlockGet(r) ==
    /\ runner[r].pc = "get"
    /\ IF lease.value = r THEN runner' = [runner EXCEPT ![r].pc = "del"] ELSE StopRunning(r)
    /\ UNCHANGED <<lease, leaseFaults>>

\* DEL removes whatever the key holds by then.
UnlockDel(r) ==
    /\ runner[r].pc = "del"
    /\ lease' = Free
    /\ StopRunning(r)
    /\ UNCHANGED leaseFaults

\* GET or DEL is refused, or DEL done with its answer lost: logged and left.
UnlockFails(r) ==
    /\ r \in Unlocking
    /\ LeaseFault
    /\ lease' \in {lease} \cup IF runner[r].pc = "del" THEN {Free} ELSE {}
    /\ StopRunning(r)

ReplicaCrash(r) ==
    /\ runner[r].pc # "idle"
    /\ LeaseFault
    /\ StopRunning(r)
    /\ UNCHANGED lease

\* Slip: SET without PX.
LeaseTickWithoutTtl ==
    /\ \A r \in Working : runner[r].age < WorkMax
    /\ \A r \in Unlocking : runner[r].age < WorkMax + UnlockMax
    /\ lease' = lease
    /\ runner' = [r \in Replica |->
                    IF runner[r].pc = "idle" THEN runner[r]
                    ELSE [runner[r] EXCEPT !.age = @ + 1]]
    /\ UNCHANGED leaseFaults

\* Time passes; the key expires. A run takes at most WorkMax, its unlocking UnlockMax.
LeaseTick ==
    /\ \A r \in Working : runner[r].age < WorkMax
    /\ \A r \in Unlocking : runner[r].age < WorkMax + UnlockMax
    /\ lease' = IF lease.ttl > 1 THEN [lease EXCEPT !.ttl = @ - 1] ELSE Free
    /\ runner' = [r \in Replica |->
                    IF runner[r].pc = "idle" THEN runner[r]
                    ELSE [runner[r] EXCEPT !.age = @ + 1]]
    /\ UNCHANGED leaseFaults

RunStep(r) == FinishWork(r) \/ UnlockGet(r) \/ UnlockDel(r)

LeaseNext ==
    \/ \E r \in Replica :
          \/ Acquire(r) \/ AcquireFails(r) \/ RunUnlocked(r)
          \/ RunStep(r)
          \/ UnlockFails(r) \/ ReplicaCrash(r)
    \/ LeaseTick

LeaseSpec == LeaseInit /\ [][LeaseNext]_leaseVars

\* Timers fire again and again, runs go on and end, time passes.
LeaseFairness ==
    /\ \A r \in Replica : WF_leaseVars(Acquire(r)) /\ WF_leaseVars(RunStep(r))
    /\ WF_leaseVars(LeaseTick)

-----------------------------------------------------------------------------
(* Properties.                                                             *)

\* Two replicas that took the lock never run the job at once, and none of them runs
\* or unlocks on a lock that has passed to another: the DEL that follows the GET
\* cannot hit a successor's lock (redisJobLease.js:76-91).
LockedRunsAlone ==
    \A r \in Replica :
        runner[r].locked =>
            /\ lease.value = r
            /\ \A q \in Replica : runner[q].locked => q = r

\* The job comes round again whoever crashed, whatever answer was lost and whatever
\* lock was left behind: the TTL frees it (redisJobLease.js:77).
JobComesRound == []<>(Working # {})
=============================================================================
