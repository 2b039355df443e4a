-------------------------- MODULE LeaseLimitProofs --------------------------
(***************************************************************************)
(* Theorems about the two components that count time in a Redis key:       *)
(*  - JobLease, for any number of replicas and failures and for all        *)
(*    durations under which the lock outlives the job and its unlocking:   *)
(*    the lock excludes;                                                   *)
(*  - RateLimit, for any limit, window, failures and requests under way:   *)
(*    no window's length sees more than twice the limit admitted.          *)
(***************************************************************************)
EXTENDS JobLease, RateLimit, SequenceLemmas, TLAPS

-----------------------------------------------------------------------------
(* The lease: the inductive invariant.                                     *)

\* Who took the lock has it still, and its life and the holder's age add up.
HoldersSound ==
    \A r \in Replica :
        runner[r].locked =>
            /\ runner[r].pc # "idle"
            /\ lease.value = r
            /\ lease.ttl + runner[r].age = LeaseTtl

\* Only a holder unlocks.
UnlocksSound == \A r \in Unlocking : runner[r].locked

LeaseInv == LeaseTypeOK /\ HoldersSound /\ UnlocksSound

\* The invariant about one replica: a step that leaves a replica alone and the lock
\* as it is keeps it.
Sound(r) ==
    /\ runner[r].locked =>
         /\ runner[r].pc # "idle"
         /\ lease.value = r
         /\ lease.ttl + runner[r].age = LeaseTtl
    /\ runner[r].pc \in {"get", "del"} => runner[r].locked

LEMMA SoundSuffices == LeaseInv <=> LeaseTypeOK /\ \A r \in Replica : Sound(r)
BY DEF LeaseInv, HoldersSound, UnlocksSound, Unlocking, Sound

\* Two holders are one.
LEMMA OneHolder ==
  ASSUME LeaseInv, NEW q \in Replica, NEW r \in Replica, runner[q].locked, runner[r].locked
  PROVE  q = r
BY DEF LeaseInv, HoldersSound

\* A free lock has no holder.
LEMMA FreeHasNoHolder ==
  ASSUME LeaseInv, lease = Free, NEW r \in Replica
  PROVE  ~runner[r].locked
BY LeaseAssumption DEF LeaseInv, HoldersSound, Free

\* The lock has ticks left as long as time may pass under its holder.
LEMMA HeldOutlivesTick ==
  ASSUME LeaseInv, LeaseTick, NEW r \in Replica, runner[r].locked
  PROVE  lease.ttl > 1
<1>1. /\ lease.ttl \in Nat /\ runner[r].age \in Nat
      /\ runner[r].pc \in {"working", "get", "del"}
      /\ lease.ttl + runner[r].age = LeaseTtl
  BY LeaseAssumption DEF LeaseInv, LeaseTypeOK, HoldersSound
<1>2. runner[r].age < WorkMax + UnlockMax
  BY <1>1, LeaseAssumption DEF LeaseTick, Working, Unlocking
<1> QED BY <1>1, <1>2, LeaseAssumption

-----------------------------------------------------------------------------
(* Each step keeps the invariant.                                          *)

LEMMA InitLease == LeaseInit => LeaseInv
BY LeaseAssumption DEF LeaseInit, LeaseInv, LeaseTypeOK, HoldersSound, UnlocksSound, Unlocking,
                       Free, Off

LEMMA AcquireKeeps ==
  ASSUME LeaseInv, NEW r \in Replica, Acquire(r) \/ AcquireFails(r)
  PROVE  LeaseInv'
<1>1. lease' = [value |-> r, ttl |-> LeaseTtl] /\ lease = Free /\ runner[r].pc = "idle"
  BY DEF Acquire, AcquireFails
<1>2. \A q \in Replica : ~runner[q].locked
  BY <1>1, FreeHasNoHolder
<1>3. LeaseTypeOK'
  <2>1. lease' \in [value : Replica \cup {NoReplica}, ttl : 0..LeaseTtl]
    BY <1>1, LeaseAssumption
  <2>2. runner' \in [Replica -> [pc : {"idle", "working", "get", "del"}, locked : BOOLEAN,
                                age : 0..(WorkMax + UnlockMax)]]
    <3>1. 0 \in 0..(WorkMax + UnlockMax)
      BY LeaseAssumption
    <3>2. [pc |-> "working", locked |-> TRUE, age |-> 0]
            \in [pc : {"idle", "working", "get", "del"}, locked : BOOLEAN,
                 age : 0..(WorkMax + UnlockMax)]
      BY <3>1
    <3>3. CASE Acquire(r)
      BY <3>2, <3>3 DEF LeaseInv, LeaseTypeOK, Acquire
    <3>4. CASE AcquireFails(r)
      BY <3>4 DEF LeaseInv, LeaseTypeOK, AcquireFails
    <3> QED BY <3>3, <3>4
  <2>3. leaseFaults' \in 0..MaxLeaseFaults
    BY LeaseAssumption DEF LeaseInv, LeaseTypeOK, Acquire, AcquireFails, LeaseFault
  <2> QED BY <2>1, <2>2, <2>3 DEF LeaseTypeOK
<1>4. \A q \in Replica : Sound(q)'
  BY <1>1, <1>2, LeaseAssumption
     DEF Sound, LeaseInv, LeaseTypeOK, UnlocksSound, Unlocking, Acquire, AcquireFails
<1> QED BY <1>3, <1>4, SoundSuffices DEF LeaseInv, HoldersSound, UnlocksSound, Unlocking, Sound

\* A replica that stops, or runs without the lock, takes nothing from the holder.
LEMMA LetGoKeeps ==
  ASSUME LeaseInv, NEW r \in Replica, runner' = [runner EXCEPT ![r] = Off],
         leaseFaults' \in 0..MaxLeaseFaults,
         lease' = lease \/ (lease' = Free /\ runner[r].locked)
  PROVE  LeaseInv'
<1>1. LeaseTypeOK'
  BY LeaseAssumption DEF LeaseInv, LeaseTypeOK, Off, Free
<1>2. ASSUME NEW q \in Replica PROVE Sound(q)'
  BY <1>2, OneHolder DEF Sound, LeaseInv, LeaseTypeOK, HoldersSound, UnlocksSound, Unlocking, Off
<1> QED BY <1>1, <1>2 DEF LeaseInv, HoldersSound, UnlocksSound, Unlocking, Sound

LEMMA RunKeeps ==
  ASSUME LeaseInv, NEW r \in Replica,
         RunUnlocked(r) \/ RunStep(r) \/ UnlockFails(r) \/ ReplicaCrash(r)
  PROVE  LeaseInv'
<1>1. CASE RunUnlocked(r)
  BY <1>1, LeaseAssumption
     DEF RunUnlocked, LeaseFault, LeaseInv, LeaseTypeOK, HoldersSound, UnlocksSound, Unlocking
<1>2. CASE FinishWork(r)
  <2>1. CASE runner[r].locked
    BY <1>2, <2>1 DEF FinishWork, LeaseInv, LeaseTypeOK, HoldersSound, UnlocksSound, Unlocking
  <2>2. CASE ~runner[r].locked
    BY <1>2, <2>2, LetGoKeeps DEF FinishWork, StopRunning, LeaseInv, LeaseTypeOK
  <2> QED BY <2>1, <2>2
<1>3. CASE UnlockGet(r)
  <2>1. runner[r].locked /\ lease.value = r
    BY <1>3 DEF UnlockGet, LeaseInv, HoldersSound, UnlocksSound, Unlocking
  <2> QED
    BY <1>3, <2>1 DEF UnlockGet, LeaseInv, LeaseTypeOK, HoldersSound, UnlocksSound, Unlocking
<1>4. CASE UnlockDel(r)
  BY <1>4, LetGoKeeps DEF UnlockDel, StopRunning, LeaseInv, LeaseTypeOK, UnlocksSound, Unlocking
<1>5. CASE UnlockFails(r)
  <2>1. lease' = lease \/ lease' = Free
    BY <1>5 DEF UnlockFails
  <2>2. runner[r].locked /\ leaseFaults' \in 0..MaxLeaseFaults
    BY <1>5, LeaseAssumption
       DEF UnlockFails, LeaseFault, LeaseInv, LeaseTypeOK, UnlocksSound
  <2> QED BY <1>5, <2>1, <2>2, LetGoKeeps DEF UnlockFails, StopRunning
<1>6. CASE ReplicaCrash(r)
  <2>1. leaseFaults' \in 0..MaxLeaseFaults
    BY <1>6, LeaseAssumption DEF ReplicaCrash, LeaseFault, LeaseInv, LeaseTypeOK
  <2> QED BY <1>6, <2>1, LetGoKeeps DEF ReplicaCrash, StopRunning
<1> QED BY <1>1, <1>2, <1>3, <1>4, <1>5, <1>6 DEF RunStep

LEMMA TickKeeps ==
  ASSUME LeaseInv, LeaseTick
  PROVE  LeaseInv'
<1>1. ASSUME NEW r \in Replica
      PROVE  /\ runner'[r].pc = runner[r].pc /\ runner'[r].locked = runner[r].locked
             /\ runner'[r].pc = "idle" => runner'[r] = runner[r]
             /\ runner'[r].pc # "idle" => runner'[r].age = runner[r].age + 1
  BY <1>1 DEF LeaseTick, LeaseInv, LeaseTypeOK
<1>2. LeaseTypeOK'
  <2>1. lease' \in [value : Replica \cup {NoReplica}, ttl : 0..LeaseTtl]
    BY LeaseAssumption DEF LeaseTick, LeaseInv, LeaseTypeOK, Free
  <2>2. ASSUME NEW r \in Replica
        PROVE  runner'[r] \in [pc : {"idle", "working", "get", "del"}, locked : BOOLEAN,
                               age : 0..(WorkMax + UnlockMax)]
    <3>1. CASE runner[r].pc = "idle"
      BY <2>2, <3>1, <1>1 DEF LeaseInv, LeaseTypeOK
    <3>2. CASE runner[r].pc # "idle"
      <4>1. runner[r].age + 1 \in 0..(WorkMax + UnlockMax)
        BY <2>2, <3>2, LeaseAssumption DEF LeaseTick, LeaseInv, LeaseTypeOK, Working, Unlocking
      <4>2. runner'[r] = [runner[r] EXCEPT !.age = @ + 1]
        BY <2>2, <3>2 DEF LeaseTick
      <4> QED BY <4>1, <4>2 DEF LeaseInv, LeaseTypeOK
    <3> QED BY <3>1, <3>2
  <2>3. DOMAIN runner' = Replica /\ runner' = [r \in Replica |-> runner'[r]]
    BY DEF LeaseTick
  <2> QED BY <2>1, <2>2, <2>3 DEF LeaseTick, LeaseInv, LeaseTypeOK
<1>3. ASSUME NEW r \in Replica PROVE Sound(r)'
  <2>1. runner[r].pc \in {"get", "del"} => runner[r].locked
    BY <1>3 DEF LeaseInv, UnlocksSound, Unlocking
  <2>2. CASE runner[r].locked
    <3>1. lease.ttl > 1
      BY <1>3, <2>2, HeldOutlivesTick
    <3>2. lease' = [lease EXCEPT !.ttl = @ - 1]
      BY <3>1 DEF LeaseTick
    <3>3. lease'.value = lease.value /\ lease'.ttl = lease.ttl - 1
      BY <3>2 DEF LeaseInv, LeaseTypeOK
    <3>4. /\ runner[r].pc # "idle" /\ lease.value = r
          /\ lease.ttl + runner[r].age = LeaseTtl
          /\ lease.ttl \in Nat /\ runner[r].age \in Nat
      BY <1>3, <2>2, LeaseAssumption DEF LeaseInv, LeaseTypeOK, HoldersSound
    <3>5. runner'[r].age = runner[r].age + 1 /\ runner'[r].pc # "idle"
      BY <1>1, <1>3, <3>4
    <3>6. lease'.ttl + runner'[r].age = LeaseTtl
      BY <3>3, <3>4, <3>5, LeaseAssumption
    <3> QED BY <1>1, <1>3, <2>1, <2>2, <3>3, <3>4, <3>5, <3>6 DEF Sound
  <2>3. CASE ~runner[r].locked
    BY <1>1, <1>3, <2>1, <2>3 DEF Sound
  <2> QED BY <2>2, <2>3
<1> QED BY <1>2, <1>3 DEF LeaseInv, HoldersSound, UnlocksSound, Unlocking, Sound

LEMMA LeaseInvariant == LeaseSpec => []LeaseInv
<1>1. LeaseInv /\ [LeaseNext]_leaseVars => LeaseInv'
  <2> SUFFICES ASSUME LeaseInv, [LeaseNext]_leaseVars PROVE LeaseInv'
    OBVIOUS
  <2>1. ASSUME NEW r \in Replica, Acquire(r) \/ AcquireFails(r) PROVE LeaseInv'
    BY <2>1, AcquireKeeps
  <2>2. ASSUME NEW r \in Replica,
               RunUnlocked(r) \/ RunStep(r) \/ UnlockFails(r) \/ ReplicaCrash(r)
        PROVE  LeaseInv'
    BY <2>2, RunKeeps
  <2>3. CASE LeaseTick
    BY <2>3, TickKeeps
  <2>4. CASE UNCHANGED leaseVars
    BY <2>4 DEF leaseVars, LeaseInv, LeaseTypeOK, HoldersSound, UnlocksSound, Unlocking
  <2> QED BY <2>1, <2>2, <2>3, <2>4 DEF LeaseNext
<1> QED BY <1>1, InitLease, PTL DEF LeaseSpec

-----------------------------------------------------------------------------
(* The theorems.                                                           *)

\* The lock's value and remaining life, and every replica's place and age, stay in
\* their ranges (redisJobLease.js:38-98).
THEOREM LeaseTypeCorrect == LeaseSpec => []LeaseTypeOK
<1>1. LeaseInv => LeaseTypeOK
  BY DEF LeaseInv
<1> QED BY <1>1, LeaseInvariant, PTL

\* Two replicas that took the lock never run the job at once, and the DEL that follows
\* the GET cannot hit a successor's lock (redisJobLease.js:76-91).
THEOREM LockedRunsAreAlone == LeaseSpec => []LockedRunsAlone
<1>1. LeaseInv => LockedRunsAlone
  BY OneHolder DEF LeaseInv, HoldersSound, LockedRunsAlone
<1> QED BY <1>1, LeaseInvariant, PTL

-----------------------------------------------------------------------------
(* The limiter: the inductive invariant.                                   *)

\* The newest first.
Sorted(ages) == \A i, j \in 1..Len(ages) : i <= j => ages[i] <= ages[j]

\* What a store handed out over the last Window ticks splits in two: a part its present
\* count has counted, and an older part, all of it from before the present window opened
\* and itself no more than a window may hold.
Windowed(ages, count, open) ==
    \E m \in 0..Len(ages) :
        /\ m <= count /\ m <= MaxRequests
        /\ Len(ages) <= m + MaxRequests
        /\ \A i \in 1..Len(ages) : i > m => ages[i] >= open

\* Ticks since the window of the Redis key opened; a key that has not got its PEXPIRE
\* yet says nothing of it.
Opened == IF counter.ttl = NoExpiry THEN 0 ELSE Window - counter.ttl

RedisWindowed == Windowed(granted["redis"], counter.count, Opened)
MemoryWindowed ==
    ~restarted => Windowed(granted["memory"], bucket.count, Window - bucket.left)

AllSorted == \A store \in Stores : Sorted(granted[store])
RedisAlone == production => granted["memory"] = <<>>

RateInv == RateTypeOK /\ AllSorted /\ RedisWindowed /\ MemoryWindowed /\ RedisAlone

-----------------------------------------------------------------------------
(* The limiter: its operators.                                             *)

LEMMA RateNumbers ==
    /\ MaxRequests \in Nat /\ MaxRequests >= 1
    /\ Window \in Nat /\ Window >= 1
    /\ MaxRateFaults \in Nat
BY RateAssumption

\* In a sorted sequence, those that stay within the window come first.
LEMMA RecentIs ==
    ASSUME NEW ages \in Seq(Ages), Sorted(ages)
    PROVE  /\ Recent(ages) \in 0..Len(ages)
           /\ \A i \in 1..Len(ages) : i <= Recent(ages) <=> ages[i] + 1 < Window
<1> DEFINE Leaving == {i \in 1..Len(ages) : ~(ages[i] + 1 < Window)}
           P(n) == \A i \in 1..Len(ages) : i <= n <=> ages[i] + 1 < Window
<1>1. Len(ages) \in Nat
  OBVIOUS
<1>2. \A i \in 1..Len(ages) : ages[i] \in Nat
  BY RateNumbers DEF Ages
<1>3. \E n \in 0..Len(ages) : P(n)
  <2>1. CASE Leaving = {}
    <3>1. P(Len(ages))
      BY <2>1, <1>1
    <3>2. Len(ages) \in 0..Len(ages)
      BY <1>1
    <3> QED BY <3>1, <3>2
  <2>2. CASE Leaving # {}
    <3>1. PICK k \in Leaving : \A i \in Leaving : k <= i
      <4>1. Leaving \subseteq Nat
        BY <1>1
      <4> QED BY <4>1, <2>2, SmallestExists
    <3>2. k \in 1..Len(ages) /\ ~(ages[k] + 1 < Window)
      BY <3>1
    <3>3. k - 1 \in 0..Len(ages)
      BY <3>2, <1>1
    <3>4. ASSUME NEW i \in 1..Len(ages)
          PROVE  i <= k - 1 <=> ages[i] + 1 < Window
      <4>1. CASE i <= k - 1
        <5>1. ~(k <= i)
          BY <4>1, <3>2, <1>1
        <5>2. i \notin Leaving
          BY <5>1, <3>1
        <5>3. ages[i] + 1 < Window
          BY <5>2
        <5> QED BY <5>3, <4>1
      <4>2. CASE ~(i <= k - 1)
        <5>1. k <= i
          BY <4>2, <3>2, <1>1
        <5>2. ages[k] <= ages[i]
          BY <5>1, <3>2 DEF Sorted
        <5>3. ages[k] \in Nat /\ ages[i] \in Nat
          BY <1>2, <3>2
        <5>4. ~(ages[i] + 1 < Window)
          BY <5>2, <5>3, <3>2, RateNumbers
        <5> QED BY <5>4, <4>2
      <4> QED BY <4>1, <4>2
    <3>5. P(k - 1)
      BY <3>4
    <3> QED BY <3>3, <3>5
  <2> QED BY <2>1, <2>2
<1>4. Recent(ages) = CHOOSE n \in 0..Len(ages) : P(n)
  BY DEF Recent
<1> HIDE DEF P
<1>5. Recent(ages) \in 0..Len(ages) /\ P(Recent(ages))
  BY <1>3, <1>4
<1> QED BY <1>5 DEF P

\* A tick drops the oldest and ages the rest.
LEMMA AgedIs ==
    ASSUME NEW ages \in Seq(Ages), Sorted(ages)
    PROVE  /\ Aged(ages) \in Seq(Ages) /\ Sorted(Aged(ages))
           /\ Len(Aged(ages)) \in 0..Len(ages)
           /\ \A i \in 1..Len(Aged(ages)) : Aged(ages)[i] = ages[i] + 1
<1> DEFINE n == Recent(ages)
<1>1. Len(ages) \in Nat
  OBVIOUS
<1>2. n \in 0..Len(ages) /\ \A i \in 1..Len(ages) : i <= n <=> ages[i] + 1 < Window
  BY RecentIs
<1>3. Aged(ages) = [i \in 1..n |-> ages[i] + 1]
  BY DEF Aged
<1> HIDE DEF n
<1>4. n \in Nat
  BY <1>1, <1>2
<1>5. ASSUME NEW i \in 1..n PROVE i \in 1..Len(ages) /\ ages[i] + 1 \in Ages
  <2>1. i \in 1..Len(ages)
    BY <1>1, <1>2, <1>4
  <2>2. ages[i] \in Nat /\ ages[i] + 1 < Window
    BY <2>1, <1>2, RateNumbers DEF Ages
  <2> QED BY <2>1, <2>2, RateNumbers DEF Ages
<1>6. Aged(ages) \in Seq(Ages) /\ Len(Aged(ages)) = n
  BY <1>3, <1>4, <1>5
<1>7. \A i \in 1..n : Aged(ages)[i] = ages[i] + 1
  BY <1>3
<1>8. Sorted(Aged(ages))
  <2> SUFFICES ASSUME NEW i \in 1..n, NEW j \in 1..n, i <= j
               PROVE  Aged(ages)[i] <= Aged(ages)[j]
    BY <1>6 DEF Sorted
  <2>1. ages[i] <= ages[j]
    BY <1>5 DEF Sorted
  <2>2. ages[i] \in Nat /\ ages[j] \in Nat
    BY <1>5, RateNumbers DEF Ages
  <2>3. ages[i] + 1 <= ages[j] + 1
    BY <2>1, <2>2
  <2> QED BY <2>3, <1>7
<1> QED BY <1>2, <1>6, <1>7, <1>8

\* A place handed out now comes first.
LEMMA GrantedIs ==
    ASSUME NEW ages \in Seq(Ages), Sorted(ages)
    PROVE  /\ <<0>> \o ages \in Seq(Ages) /\ Sorted(<<0>> \o ages)
           /\ Len(<<0>> \o ages) = Len(ages) + 1
           /\ \A i \in 2..(Len(ages) + 1) : (<<0>> \o ages)[i] = ages[i - 1]
<1> DEFINE new == <<0>> \o ages
<1>1. 0 \in Ages
  BY RateNumbers DEF Ages
<1>2. Len(ages) \in Nat
  OBVIOUS
<1>3. <<0>> \in Seq(Ages) /\ Len(<<0>>) = 1
  BY <1>1
<1>4. new \in Seq(Ages) /\ Len(new) = Len(ages) + 1
  BY <1>3, <1>2
<1>5. new[1] = 0 /\ \A i \in 2..(Len(ages) + 1) : new[i] = ages[i - 1]
  BY <1>3, <1>2
<1> HIDE DEF new
<1>6. ASSUME NEW i \in 1..Len(new), NEW j \in 1..Len(new), i <= j
      PROVE  new[i] <= new[j]
  <2>1. CASE i = 1
    <3>1. new[j] \in Ages
      BY <1>4
    <3>2. new[j] \in Nat
      BY <3>1, RateNumbers DEF Ages
    <3> QED BY <2>1, <3>2, <1>5
  <2>2. CASE i # 1
    <3>1. i \in 2..(Len(ages) + 1) /\ j \in 2..(Len(ages) + 1)
      BY <2>2, <1>6, <1>4, <1>2
    <3>2. i - 1 \in 1..Len(ages) /\ j - 1 \in 1..Len(ages) /\ i - 1 <= j - 1
      BY <3>1, <1>6, <1>2
    <3>3. ages[i - 1] <= ages[j - 1]
      BY <3>2 DEF Sorted
    <3> QED BY <3>1, <3>3, <1>5
  <2> QED BY <2>1, <2>2
<1>7. Sorted(new)
  BY <1>6 DEF Sorted
<1> QED BY <1>4, <1>5, <1>7 DEF new

-----------------------------------------------------------------------------
(* The limiter: Windowed, through each kind of step.                       *)

\* Counting more, or a window that opens later, splits the same way.
LEMMA WindowedLater ==
    ASSUME NEW ages \in Seq(Ages), NEW count \in Nat, NEW open \in Int, NEW more \in Nat,
           NEW less \in Int, Windowed(ages, count, open), count <= more, less <= open
    PROVE  Windowed(ages, more, less)
<1>1. PICK m \in 0..Len(ages) :
        /\ m <= count /\ m <= MaxRequests
        /\ Len(ages) <= m + MaxRequests
        /\ \A i \in 1..Len(ages) : i > m => ages[i] >= open
  BY DEF Windowed
<1>2. Len(ages) \in Nat
  OBVIOUS
<1>3. m \in Nat
  BY <1>2
<1>4. m <= more
  BY <1>1, <1>3
<1>5. ASSUME NEW i \in 1..Len(ages), i > m PROVE ages[i] >= less
  <2>1. ages[i] >= open
    BY <1>1, <1>5
  <2>2. ages[i] \in Int
    BY RateNumbers DEF Ages
  <2> QED BY <2>1, <2>2
<1> QED BY <1>1, <1>4, <1>5 DEF Windowed

\* A place that the count counts.
LEMMA WindowedGrant ==
    ASSUME NEW ages \in Seq(Ages), Sorted(ages), NEW count \in Nat, NEW open \in Int,
           Windowed(ages, count, open), count + 1 <= MaxRequests
    PROVE  Windowed(<<0>> \o ages, count + 1, open)
<1> DEFINE new == <<0>> \o ages
<1>1. PICK m \in 0..Len(ages) :
        /\ m <= count /\ m <= MaxRequests
        /\ Len(ages) <= m + MaxRequests
        /\ \A i \in 1..Len(ages) : i > m => ages[i] >= open
  BY DEF Windowed
<1>2. Len(ages) \in Nat
  OBVIOUS
<1>3. m \in Nat
  BY <1>2
<1>4. Len(new) = Len(ages) + 1 /\ \A i \in 2..(Len(ages) + 1) : new[i] = ages[i - 1]
  BY GrantedIs
<1> HIDE DEF new
<1>5. /\ m + 1 \in 0..Len(new) /\ m + 1 <= count + 1 /\ m + 1 <= MaxRequests
      /\ Len(new) <= m + 1 + MaxRequests
  BY <1>1, <1>2, <1>3, <1>4, RateNumbers
<1>6. ASSUME NEW i \in 1..Len(new), i > m + 1 PROVE new[i] >= open
  <2>1. i \in 2..(Len(ages) + 1) /\ i - 1 \in 1..Len(ages) /\ i - 1 > m
    BY <1>6, <1>2, <1>3, <1>4
  <2> QED BY <2>1, <1>1, <1>4
<1>7. Windowed(new, count + 1, open)
  BY <1>5, <1>6 DEF Windowed
<1> QED BY <1>7 DEF new

\* A window that opened a whole window ago, or has not opened at all, leaves room for
\* one more: what is there is within the limit.
LEMMA WindowedOver ==
    ASSUME NEW ages \in Seq(Ages), NEW count \in Nat, NEW open \in Int,
           Windowed(ages, count, open), open >= Window
    PROVE  Len(ages) <= MaxRequests
<1>1. PICK m \in 0..Len(ages) :
        /\ m <= count /\ m <= MaxRequests
        /\ Len(ages) <= m + MaxRequests
        /\ \A i \in 1..Len(ages) : i > m => ages[i] >= open
  BY DEF Windowed
<1>2. Len(ages) \in Nat
  OBVIOUS
<1>3. ASSUME m < Len(ages) PROVE FALSE
  <2>1. Len(ages) \in 1..Len(ages)
    BY <1>2, <1>3
  <2>2. ages[Len(ages)] >= open
    <3>1. Len(ages) > m
      BY <1>2, <1>3
    <3> QED BY <2>1, <3>1, <1>1
  <2>3. ages[Len(ages)] \in 0..(Window - 1)
    <3>1. \A i \in 1..Len(ages) : ages[i] \in Ages
      OBVIOUS
    <3> QED BY <2>1, <3>1 DEF Ages
  <2>4. open >= Window
    OBVIOUS
  <2>5. ASSUME NEW age \in 0..(Window - 1) PROVE ~(age >= open)
    BY <2>4, RateNumbers
  <2> QED BY <2>2, <2>3, <2>5
<1> QED BY <1>1, <1>2, <1>3, RateNumbers

\* What is within the limit splits with nothing counted yet.
LEMMA WindowedAnew ==
    ASSUME NEW ages \in Seq(Ages), Len(ages) <= MaxRequests
    PROVE  Windowed(ages, 0, 0)
<1>1. Len(ages) \in Nat /\ 0 \in 0..Len(ages)
  OBVIOUS
<1>2. \A i \in 1..Len(ages) : ages[i] >= 0
  BY RateNumbers DEF Ages
<1>3. 0 <= MaxRequests /\ Len(ages) <= 0 + MaxRequests /\ 0 <= 0
  BY <1>1, RateNumbers
<1> QED BY <1>1, <1>2, <1>3 DEF Windowed

\* A tick.
LEMMA WindowedTick ==
    ASSUME NEW ages \in Seq(Ages), Sorted(ages), NEW count \in Nat, NEW open \in Int,
           Windowed(ages, count, open)
    PROVE  Windowed(Aged(ages), count, open + 1)
<1> DEFINE new == Aged(ages)
           n == Len(new)
<1>1. PICK m \in 0..Len(ages) :
        /\ m <= count /\ m <= MaxRequests
        /\ Len(ages) <= m + MaxRequests
        /\ \A i \in 1..Len(ages) : i > m => ages[i] >= open
  BY DEF Windowed
<1>2. Len(ages) \in Nat
  OBVIOUS
<1>3. m \in Nat
  BY <1>2
<1>4. n \in 0..Len(ages) /\ \A i \in 1..n : new[i] = ages[i] + 1
  BY AgedIs
<1>5. new \in Seq(Ages)
  BY AgedIs
<1> HIDE DEF new
<1>6. n \in Nat /\ n <= Len(ages)
  BY <1>2, <1>4
<1>7. CASE n <= m
  <2>1. n \in 0..n /\ n <= count /\ n <= MaxRequests /\ n <= n + MaxRequests
    BY <1>1, <1>3, <1>6, <1>7, RateNumbers
  <2>2. \A i \in 1..n : ~(i > n)
    BY <1>6
  <2> QED BY <2>1, <2>2 DEF Windowed, new
<1>8. CASE ~(n <= m)
  <2>1. m \in 0..n /\ n <= m + MaxRequests
    BY <1>1, <1>2, <1>3, <1>6, <1>8, RateNumbers
  <2>2. ASSUME NEW i \in 1..n, i > m PROVE new[i] >= open + 1
    <3>1. i \in 1..Len(ages)
      BY <1>2, <1>6
    <3>2. ages[i] >= open /\ new[i] = ages[i] + 1
      BY <3>1, <2>2, <1>1, <1>4
    <3>3. ages[i] \in Int
      BY <3>1, RateNumbers DEF Ages
    <3> QED BY <3>2, <3>3
  <2>3. \A i \in 1..Len(new) : i > m => new[i] >= open + 1
    BY <2>2
  <2>4. m \in 0..Len(new) /\ Len(new) <= m + MaxRequests
    BY <2>1
  <2>5. Windowed(new, count, open + 1)
    BY <2>3, <2>4, <1>1 DEF Windowed
  <2> QED BY <2>5 DEF new
<1> QED BY <1>7, <1>8

-----------------------------------------------------------------------------
(* The limiter: the inductive invariant, one step at a time.               *)

\* The counter and the bucket are made of whole numbers.
LEMMA CounterIs ==
    ASSUME RateTypeOK
    PROVE  /\ counter.count \in 0..CountBound /\ counter.count \in Nat
           /\ counter.ttl = NoExpiry \/ counter.ttl \in 1..Window
           /\ counter = [count |-> counter.count, ttl |-> counter.ttl]
           /\ bucket.count \in 0..MaxRequests /\ bucket.count \in Nat
           /\ bucket.left \in -1..Window /\ bucket.left \in Int
           /\ bucket = [count |-> bucket.count, left |-> bucket.left]
           /\ Opened \in Int
           /\ granted["redis"] \in Seq(Ages) /\ granted["memory"] \in Seq(Ages)
<1>1. counter \in [count : 0..CountBound, ttl : {NoExpiry} \cup 1..Window]
  BY DEF RateTypeOK
<1>2. bucket \in [count : 0..MaxRequests, left : -1..Window]
  BY DEF RateTypeOK
<1>3. counter.count \in 0..CountBound /\ counter.ttl \in {NoExpiry} \cup 1..Window
      /\ counter = [count |-> counter.count, ttl |-> counter.ttl]
  BY <1>1
<1>4. bucket.count \in 0..MaxRequests /\ bucket.left \in -1..Window
      /\ bucket = [count |-> bucket.count, left |-> bucket.left]
  BY <1>2
<1>5. counter.count \in Nat
  BY <1>3, RateNumbers DEF CountBound
<1>6. bucket.count \in Nat /\ bucket.left \in Int
  BY <1>4, RateNumbers
<1>7. counter.ttl = NoExpiry \/ counter.ttl \in 1..Window
  BY <1>3
<1>8. Opened \in Int
  BY <1>7, RateNumbers DEF Opened
<1>9. granted["redis"] \in Seq(Ages) /\ granted["memory"] \in Seq(Ages)
  BY DEF RateTypeOK, Stores
<1> QED BY <1>3, <1>4, <1>5, <1>6, <1>7, <1>8, <1>9

\* A place handed out keeps the types and the order, and leaves the other store alone.
LEMMA GrantKeeps ==
    ASSUME RateTypeOK, AllSorted, NEW store \in Stores, Grant(store)
    PROVE  /\ granted' \in [Stores -> Seq(Ages)] /\ AllSorted'
           /\ granted'[store] = <<0>> \o granted[store]
           /\ \A other \in Stores : other # store => granted'[other] = granted[other]
<1>1. granted \in [Stores -> Seq(Ages)]
  BY DEF RateTypeOK
<1>2. granted[store] \in Seq(Ages) /\ Sorted(granted[store])
  BY <1>1 DEF AllSorted
<1>3. <<0>> \o granted[store] \in Seq(Ages) /\ Sorted(<<0>> \o granted[store])
  BY <1>2, GrantedIs
<1>4. granted' = [granted EXCEPT ![store] = <<0>> \o granted[store]]
  BY DEF Grant
<1> DEFINE new == <<0>> \o granted[store]
<1>5. new = <<0>> \o granted[store] /\ new \in Seq(Ages) /\ Sorted(new)
  BY <1>3
<1> HIDE DEF new
<1>6. granted' = [granted EXCEPT ![store] = new]
  BY <1>4, <1>5
<1>7. granted' \in [Stores -> Seq(Ages)] /\ granted'[store] = new
      /\ \A other \in Stores : other # store => granted'[other] = granted[other]
  BY <1>1, <1>5, <1>6
<1>8. ASSUME NEW other \in Stores PROVE Sorted(granted'[other])
  BY <1>5, <1>7 DEF AllSorted
<1> QED BY <1>5, <1>7, <1>8 DEF AllSorted

\* INCR: one more than before, up to the bound, and the same time left.
LEMMA IncrementedIs ==
    ASSUME RateTypeOK
    PROVE  /\ Incremented \in [count : 0..CountBound, ttl : {NoExpiry} \cup 1..Window]
           /\ Incremented.ttl = counter.ttl
           /\ Incremented.count \in Nat /\ counter.count <= Incremented.count
           /\ Incremented.count <= MaxRequests => Incremented.count = counter.count + 1
<1> DEFINE c == counter.count
           d == IF c = CountBound THEN c ELSE c + 1
<1>1. c \in 0..CountBound /\ c \in Nat /\ counter.ttl \in {NoExpiry} \cup 1..Window
      /\ counter = [count |-> c, ttl |-> counter.ttl]
  BY CounterIs
<1>2. Incremented = [count |-> d, ttl |-> counter.ttl]
  BY <1>1 DEF Incremented
<1>3. c \in Nat /\ c <= MaxRequests + 1
  BY <1>1, RateNumbers DEF CountBound
<1>4. d \in 0..CountBound /\ d \in Nat /\ c <= d /\ (d <= MaxRequests => d = c + 1)
  BY <1>3, RateNumbers DEF CountBound
<1> HIDE DEF c, d
<1> QED BY <1>1, <1>2, <1>4 DEF c

\* What a step that leaves the Redis key with no less count, the same time left and the
\* same grants does not disturb.
LEMMA RedisKeeps ==
    ASSUME RateTypeOK, RedisWindowed, counter'.ttl = counter.ttl, counter'.count \in Nat,
           counter.count <= counter'.count, granted'["redis"] = granted["redis"]
    PROVE  RedisWindowed'
<1>1. Opened' = Opened
  BY DEF Opened
<1>2. counter.count \in Nat /\ Opened \in Int /\ granted["redis"] \in Seq(Ages)
  BY CounterIs
<1>3. Windowed(granted["redis"], counter'.count, Opened)
  BY <1>2, WindowedLater DEF RedisWindowed
<1> QED BY <1>1, <1>3 DEF RedisWindowed

LEMMA InitRate == RateInit => RateInv
<1> SUFFICES ASSUME RateInit PROVE RateInv
  OBVIOUS
<1> USE DEF RateInit
<1>1. counter \in [count : 0..CountBound, ttl : {NoExpiry} \cup 1..Window]
      /\ counter.count = 0 /\ Opened = 0
  BY RateNumbers DEF NoCounter, CountBound, Opened
<1>2. bucket \in [count : 0..MaxRequests, left : -1..Window]
      /\ bucket.count = 0 /\ bucket.left = -1
  BY RateNumbers DEF NoBucket
<1>3. granted \in [Stores -> Seq(Ages)]
      /\ granted["redis"] = <<>> /\ granted["memory"] = <<>>
  BY DEF Stores
<1>4. slot \in [Slot -> {"idle", "pexpire", "pttl"}] /\ rateFaults \in 0..MaxRateFaults
  BY RateNumbers
<1>5. RateTypeOK
  BY <1>1, <1>2, <1>3, <1>4 DEF RateTypeOK
<1>6. \A store \in Stores : granted[store] = <<>>
  OBVIOUS
<1>7. Sorted(<<>>) /\ \A open \in Int : Windowed(<<>>, 0, open)
  BY RateNumbers DEF Sorted, Windowed
<1>8. AllSorted
  BY <1>6, <1>7 DEF AllSorted
<1>9. RedisWindowed
  BY <1>1, <1>3, <1>7 DEF RedisWindowed
<1>10. Window - bucket.left \in Int
  BY <1>2, RateNumbers
<1>11. MemoryWindowed
  BY <1>2, <1>3, <1>7, <1>10 DEF MemoryWindowed
<1>12. RedisAlone
  BY <1>3 DEF RedisAlone
<1> QED BY <1>5, <1>8, <1>9, <1>11, <1>12 DEF RateInv

LEMMA IncrKeeps ==
    ASSUME RateInv, NEW q \in Slot, Incr(q)
    PROVE  RateInv'
<1> DEFINE c == Incremented
<1>1. RateTypeOK /\ AllSorted /\ RedisWindowed /\ MemoryWindowed /\ RedisAlone
  BY DEF RateInv
<1>2. counter' = c /\ UNCHANGED <<production, bucket, lost, restarted, rateFaults>>
  BY DEF Incr
<1>3. /\ c \in [count : 0..CountBound, ttl : {NoExpiry} \cup 1..Window]
      /\ c.ttl = counter.ttl
      /\ c.count \in Nat /\ counter.count <= c.count
      /\ c.count <= MaxRequests => c.count = counter.count + 1
  BY <1>1, IncrementedIs
<1>4. slot' \in [Slot -> {"idle", "pexpire", "pttl"}]
  BY <1>1 DEF Incr, RateTypeOK
<1>5. IF c.count > MaxRequests THEN UNCHANGED granted ELSE Grant("redis")
  BY <1>2 DEF Incr
<1> HIDE DEF c
<1>6. granted' \in [Stores -> Seq(Ages)] /\ AllSorted' /\ granted'["memory"] = granted["memory"]
  <2>1. CASE UNCHANGED granted
    BY <2>1, <1>1 DEF RateTypeOK, AllSorted
  <2>2. CASE Grant("redis")
    BY <2>2, <1>1, GrantKeeps DEF Stores
  <2> QED BY <2>1, <2>2, <1>5
<1>7. RateTypeOK'
  BY <1>1, <1>2, <1>3, <1>4, <1>6 DEF RateTypeOK
<1>8. RedisWindowed'
  <2>1. CASE UNCHANGED granted
    BY <2>1, <1>1, <1>2, <1>3, RedisKeeps
  <2>2. CASE ~(c.count > MaxRequests)
    <3>1. c.count <= MaxRequests
      BY <2>2, <1>3, RateNumbers
    <3>2. c.count = counter.count + 1
      BY <3>1, <1>3
    <3>3. granted'["redis"] = <<0>> \o granted["redis"]
      BY <2>2, <1>1, <1>5, GrantKeeps DEF Stores
    <3>4. counter.count \in Nat /\ Opened \in Int /\ granted["redis"] \in Seq(Ages)
      BY <1>1, CounterIs
    <3>5. Sorted(granted["redis"])
      BY <1>1 DEF AllSorted, Stores
    <3>6. counter.count + 1 <= MaxRequests
      BY <3>1, <3>2
    <3>7. Windowed(<<0>> \o granted["redis"], counter.count + 1, Opened)
      BY <3>4, <3>5, <3>6, <1>1, WindowedGrant DEF RedisWindowed
    <3>8. Opened' = Opened
      BY <1>2, <1>3 DEF Opened
    <3> QED BY <3>2, <3>3, <3>7, <3>8, <1>2 DEF RedisWindowed
  <2> QED BY <2>1, <2>2, <1>5
<1>9. MemoryWindowed' /\ RedisAlone'
  BY <1>1, <1>2, <1>6 DEF MemoryWindowed, RedisAlone
<1> QED BY <1>6, <1>7, <1>8, <1>9 DEF RateInv

LEMMA PexpireKeeps ==
    ASSUME RateInv, NEW q \in Slot, Pexpire(q)
    PROVE  RateInv'
<1>1. RateTypeOK /\ AllSorted /\ RedisWindowed /\ MemoryWindowed /\ RedisAlone
  BY DEF RateInv
<1>2. UNCHANGED <<production, bucket, granted, lost, restarted, rateFaults>>
  BY DEF Pexpire
<1>3. slot' \in [Slot -> {"idle", "pexpire", "pttl"}]
  BY <1>1 DEF Pexpire, RateTypeOK
<1>4. \/ counter' = counter
      \/ counter' = [count |-> counter.count, ttl |-> Window]
  <2>1. counter = [count |-> counter.count, ttl |-> counter.ttl]
    BY <1>1, CounterIs
  <2>2. counter' = counter \/ counter' = [counter EXCEPT !.ttl = Window]
    BY DEF Pexpire
  <2>3. [counter EXCEPT !.ttl = Window] = [count |-> counter.count, ttl |-> Window]
    BY <2>1
  <2> QED BY <2>2, <2>3
<1>5. counter.count \in 0..CountBound /\ counter.count \in Nat /\ Opened \in Int
      /\ granted["redis"] \in Seq(Ages)
  BY <1>1, CounterIs
<1>6. counter' \in [count : 0..CountBound, ttl : {NoExpiry} \cup 1..Window]
  <2>1. Window \in 1..Window
    BY RateNumbers
  <2>2. CASE counter' = counter
    BY <2>2, <1>1 DEF RateTypeOK
  <2>3. CASE counter' = [count |-> counter.count, ttl |-> Window]
    BY <2>1, <2>3, <1>5
  <2> QED BY <2>2, <2>3, <1>4
<1>7. RateTypeOK'
  BY <1>1, <1>2, <1>3, <1>6 DEF RateTypeOK
<1>8. RedisWindowed'
  <2>1. CASE counter' = counter
    BY <2>1, <1>1, <1>2 DEF RedisWindowed, Opened
  <2>2. CASE counter' = [count |-> counter.count, ttl |-> Window]
    <3>1. counter'.count = counter.count /\ counter'.ttl = Window
      BY <2>2
    <3>2. Opened' = 0
      BY <3>1, RateNumbers DEF Opened
    <3>3. 0 <= Opened
      <4>1. counter.ttl = NoExpiry \/ counter.ttl \in 1..Window
        BY <1>1, CounterIs
      <4> QED BY <4>1, RateNumbers DEF Opened
    <3>4. counter.count <= counter.count /\ 0 \in Int
      BY <1>5
    <3>5. Windowed(granted["redis"], counter.count, 0)
      BY <1>1, <1>5, <3>3, <3>4, WindowedLater DEF RedisWindowed
    <3> QED BY <3>1, <3>2, <3>5, <1>2 DEF RedisWindowed
  <2> QED BY <2>1, <2>2, <1>4
<1>9. AllSorted' /\ MemoryWindowed' /\ RedisAlone'
  BY <1>1, <1>2 DEF AllSorted, MemoryWindowed, RedisAlone
<1> QED BY <1>7, <1>8, <1>9 DEF RateInv

LEMMA PttlKeeps ==
    ASSUME RateInv, NEW q \in Slot, Pttl(q)
    PROVE  RateInv'
<1>1. RateTypeOK /\ AllSorted /\ RedisWindowed /\ MemoryWindowed /\ RedisAlone
  BY DEF RateInv
<1>2. UNCHANGED <<production, counter, bucket, granted, lost, restarted, rateFaults>>
  BY DEF Pttl
<1>3. RateTypeOK'
  BY <1>1, <1>2 DEF Pttl, Answered, RateTypeOK
<1>4. AllSorted' /\ RedisWindowed' /\ MemoryWindowed' /\ RedisAlone'
  BY <1>1, <1>2 DEF AllSorted, RedisWindowed, Opened, MemoryWindowed, RedisAlone
<1> QED BY <1>3, <1>4 DEF RateInv

\* checkMemoryLimit: a bucket that is over leaves at most a limit's worth behind, and
\* the one it opens counts from 1.
LEMMA MemoryKeeps ==
    ASSUME RateTypeOK, AllSorted, MemoryWindowed, CountInMemory, restarted' = restarted
    PROVE  /\ granted' \in [Stores -> Seq(Ages)] /\ AllSorted'
           /\ bucket' \in [count : 0..MaxRequests, left : -1..Window]
           /\ granted'["redis"] = granted["redis"]
           /\ MemoryWindowed'
<1>1. granted["memory"] \in Seq(Ages) /\ bucket.count \in Nat /\ bucket.left \in Int
      /\ bucket.left \in -1..Window
      /\ bucket = [count |-> bucket.count, left |-> bucket.left]
  BY CounterIs
<1>2. Sorted(granted["memory"])
  BY DEF AllSorted, Stores
<1>3. Window - bucket.left \in Int
  BY <1>1, RateNumbers
<1>4. "memory" \in Stores /\ "redis" \in Stores /\ "redis" # "memory"
  BY DEF Stores
<1>5. CASE UNCHANGED <<bucket, granted>>
  BY <1>5 DEF RateTypeOK, AllSorted, MemoryWindowed
<1>6. CASE bucket.left < 0 /\ bucket' = [count |-> 1, left |-> Window] /\ Grant("memory")
  <2>1. /\ granted' \in [Stores -> Seq(Ages)] /\ AllSorted'
        /\ granted'["memory"] = <<0>> \o granted["memory"]
        /\ granted'["redis"] = granted["redis"]
    BY <1>4, <1>6, GrantKeeps
  <2>2. bucket' \in [count : 0..MaxRequests, left : -1..Window]
    <3>1. 1 \in 0..MaxRequests /\ Window \in -1..Window
      BY RateNumbers
    <3> QED BY <3>1, <1>6
  <2>3. bucket'.count = 1 /\ bucket'.left = Window
    BY <1>6
  <2>4. ASSUME ~restarted PROVE Windowed(<<0>> \o granted["memory"], 1, 0)
    <3>1. Windowed(granted["memory"], bucket.count, Window - bucket.left)
      BY <2>4 DEF MemoryWindowed
    <3>2. Window - bucket.left >= Window
      BY <1>1, <1>6, RateNumbers
    <3>3. Len(granted["memory"]) <= MaxRequests
      BY <3>1, <3>2, <1>1, <1>3, WindowedOver
    <3>4. Windowed(granted["memory"], 0, 0)
      BY <3>3, <1>1, WindowedAnew
    <3>5. 0 \in Nat /\ 0 \in Int /\ 0 + 1 <= MaxRequests /\ 0 + 1 = 1
      BY RateNumbers
    <3>6. Windowed(<<0>> \o granted["memory"], 0 + 1, 0)
      BY <3>4, <3>5, <1>1, <1>2, WindowedGrant
    <3> QED BY <3>5, <3>6
  <2>5. Window - Window = 0
    BY RateNumbers
  <2>6. MemoryWindowed'
    BY <2>1, <2>3, <2>4, <2>5 DEF MemoryWindowed
  <2> QED BY <2>1, <2>2, <2>6
<1>7. CASE /\ ~(bucket.count >= MaxRequests)
           /\ bucket' = [bucket EXCEPT !.count = @ + 1] /\ Grant("memory")
  <2>1. /\ granted' \in [Stores -> Seq(Ages)] /\ AllSorted'
        /\ granted'["memory"] = <<0>> \o granted["memory"]
        /\ granted'["redis"] = granted["redis"]
    BY <1>4, <1>7, GrantKeeps
  <2>2. bucket.count + 1 \in 0..MaxRequests /\ bucket.count + 1 <= MaxRequests
    BY <1>1, <1>7, RateNumbers
  <2>3. bucket' = [count |-> bucket.count + 1, left |-> bucket.left]
    BY <1>1, <1>7
  <2>4. bucket' \in [count : 0..MaxRequests, left : -1..Window]
    BY <2>2, <2>3, <1>1
  <2>5. bucket'.count = bucket.count + 1 /\ bucket'.left = bucket.left
    BY <2>3
  <2>6. ASSUME ~restarted
        PROVE  Windowed(<<0>> \o granted["memory"], bucket.count + 1, Window - bucket.left)
    <3>1. Windowed(granted["memory"], bucket.count, Window - bucket.left)
      BY <2>6 DEF MemoryWindowed
    <3> QED BY <3>1, <2>2, <1>1, <1>2, <1>3, WindowedGrant
  <2>7. MemoryWindowed'
    BY <2>1, <2>5, <2>6 DEF MemoryWindowed
  <2> QED BY <2>1, <2>4, <2>7
<1> QED BY <1>5, <1>6, <1>7 DEF CountInMemory

LEMMA RedisFailsKeeps ==
    ASSUME RateInv, NEW q \in Slot, RedisFails(q)
    PROVE  RateInv'
<1>1. RateTypeOK /\ AllSorted /\ RedisWindowed /\ MemoryWindowed /\ RedisAlone
  BY DEF RateInv
<1>2. slot' \in [Slot -> {"idle", "pexpire", "pttl"}] /\ production' = production
      /\ restarted' = restarted
  BY <1>1 DEF RedisFails, Answered, RateTypeOK
<1>3. rateFaults' \in 0..MaxRateFaults /\ lost' \in BOOLEAN
  <2>1. rateFaults \in Nat /\ rateFaults' = rateFaults + 1 /\ rateFaults < MaxRateFaults
    BY <1>1, RateNumbers DEF RedisFails, RateFault, RateTypeOK
  <2>2. lost' \in BOOLEAN
    BY <1>1 DEF RedisFails, RateTypeOK
  <2>3. rateFaults' \in 0..MaxRateFaults
    BY <2>1, RateNumbers
  <2> QED BY <2>2, <2>3
<1>4. /\ counter' \in [count : 0..CountBound, ttl : {NoExpiry} \cup 1..Window]
      /\ counter'.ttl = counter.ttl /\ counter'.count \in Nat
      /\ counter.count <= counter'.count
  <2>1. counter' = counter \/ counter' = Incremented
    BY DEF RedisFails
  <2>2. CASE counter' = counter
    <3>1. counter.count \in Nat /\ counter.count <= counter.count
      BY <1>1, CounterIs
    <3> QED BY <2>2, <3>1, <1>1 DEF RateTypeOK
  <2>3. CASE counter' = Incremented
    BY <2>3, <1>1, IncrementedIs
  <2> QED BY <2>1, <2>2, <2>3
<1>5. \/ production /\ UNCHANGED <<bucket, granted>>
      \/ ~production /\ CountInMemory
  BY DEF RedisFails
<1>6. /\ granted' \in [Stores -> Seq(Ages)] /\ AllSorted'
      /\ bucket' \in [count : 0..MaxRequests, left : -1..Window]
      /\ granted'["redis"] = granted["redis"]
      /\ MemoryWindowed' /\ RedisAlone'
  <2>1. CASE production /\ UNCHANGED <<bucket, granted>>
    BY <2>1, <1>1, <1>2 DEF RateTypeOK, AllSorted, MemoryWindowed, RedisAlone
  <2>2. CASE ~production /\ CountInMemory
    <3>1. RedisAlone'
      BY <2>2, <1>2 DEF RedisAlone
    <3> QED BY <2>2, <3>1, <1>1, <1>2, MemoryKeeps
  <2> QED BY <2>1, <2>2, <1>5
<1>7. RateTypeOK'
  BY <1>1, <1>2, <1>3, <1>4, <1>6 DEF RateTypeOK
<1>8. RedisWindowed'
  BY <1>1, <1>4, <1>6, RedisKeeps
<1> QED BY <1>6, <1>7, <1>8 DEF RateInv

LEMMA CrashKeeps ==
    ASSUME RateInv, RateCrash
    PROVE  RateInv'
<1>1. RateTypeOK /\ AllSorted /\ RedisWindowed /\ MemoryWindowed /\ RedisAlone
  BY DEF RateInv
<1>2. /\ UNCHANGED <<production, counter, granted>> /\ restarted' = TRUE
      /\ bucket' = NoBucket /\ slot' = [q \in Slot |-> "idle"]
  BY DEF RateCrash
<1>3. rateFaults' \in 0..MaxRateFaults
  <2>1. rateFaults \in Nat /\ rateFaults' = rateFaults + 1 /\ rateFaults < MaxRateFaults
    BY <1>1, RateNumbers DEF RateCrash, RateFault, RateTypeOK
  <2> QED BY <2>1, RateNumbers
<1>4. lost' \in BOOLEAN
  BY <1>1 DEF RateCrash, RateTypeOK
<1>5. bucket' \in [count : 0..MaxRequests, left : -1..Window]
  BY <1>2, RateNumbers DEF NoBucket
<1>6. slot' \in [Slot -> {"idle", "pexpire", "pttl"}]
  BY <1>2
<1>7. RateTypeOK'
  BY <1>1, <1>2, <1>3, <1>4, <1>5, <1>6 DEF RateTypeOK
<1>8. AllSorted' /\ RedisWindowed' /\ MemoryWindowed' /\ RedisAlone'
  BY <1>1, <1>2 DEF AllSorted, RedisWindowed, Opened, MemoryWindowed, RedisAlone
<1> QED BY <1>7, <1>8 DEF RateInv

LEMMA RateTickKeeps ==
    ASSUME RateInv, RateTick
    PROVE  RateInv'
<1> DEFINE redis == granted["redis"]
           memory == granted["memory"]
<1>1. RateTypeOK /\ AllSorted /\ RedisWindowed /\ MemoryWindowed /\ RedisAlone
  BY DEF RateInv
<1>2. UNCHANGED <<production, slot, lost, restarted, rateFaults>>
  BY DEF RateTick
<1>3. /\ redis \in Seq(Ages) /\ memory \in Seq(Ages) /\ Sorted(redis) /\ Sorted(memory)
  BY <1>1, CounterIs DEF AllSorted, Stores
<1>4. granted' = [store \in Stores |-> Aged(granted[store])]
  BY DEF RateTick
<1>5. granted'["redis"] = Aged(redis) /\ granted'["memory"] = Aged(memory)
  BY <1>4 DEF Stores
<1>6. ASSUME NEW store \in Stores
      PROVE  Aged(granted[store]) \in Seq(Ages) /\ Sorted(Aged(granted[store]))
  <2>1. granted[store] \in Seq(Ages) /\ Sorted(granted[store])
    BY <1>1 DEF RateTypeOK, AllSorted
  <2> QED BY <2>1, AgedIs
<1>7. granted' \in [Stores -> Seq(Ages)] /\ AllSorted'
  <2>1. granted' \in [Stores -> Seq(Ages)]
    BY <1>4, <1>6
  <2>2. \A store \in Stores : granted'[store] = Aged(granted[store])
    BY <1>4
  <2>3. AllSorted'
    BY <1>6, <2>2 DEF AllSorted
  <2> QED BY <2>1, <2>3
<1>8. /\ counter.count \in 0..CountBound /\ counter.count \in Nat
      /\ counter.ttl = NoExpiry \/ counter.ttl \in 1..Window
      /\ counter = [count |-> counter.count, ttl |-> counter.ttl]
      /\ Opened \in Int
  BY <1>1, CounterIs
<1>9. Windowed(Aged(redis), counter.count, Opened + 1)
  BY <1>1, <1>3, <1>8, WindowedTick DEF RedisWindowed
<1>10. Aged(redis) \in Seq(Ages) /\ Aged(memory) \in Seq(Ages)
  BY <1>3, AgedIs
<1>11. /\ counter' \in [count : 0..CountBound, ttl : {NoExpiry} \cup 1..Window]
       /\ RedisWindowed'
  <2>1. CASE counter.ttl = NoExpiry
    <3>1. counter' = counter
      BY <2>1 DEF RateTick, NoExpiry
    <3>2. Opened = 0 /\ counter'.ttl = NoExpiry
      BY <2>1, <3>1 DEF Opened
    <3>3. Opened' = 0
      BY <3>2 DEF Opened
    <3>4. counter.count <= counter.count /\ 0 <= 0 + 1 /\ 0 \in Int /\ 0 + 1 \in Int
      BY <1>8
    <3>5. Windowed(Aged(redis), counter.count, 0)
      BY <1>8, <1>9, <1>10, <3>2, <3>4, WindowedLater
    <3> QED BY <1>1, <1>5, <3>1, <3>3, <3>5 DEF RedisWindowed, RateTypeOK
  <2>2. CASE counter.ttl = 1
    <3>1. counter.ttl # NoExpiry
      BY <2>2 DEF NoExpiry
    <3>2. counter' = NoCounter
      BY <2>2, <3>1 DEF RateTick
    <3>3. Opened + 1 >= Window /\ Opened + 1 \in Int
      BY <2>2, <3>1, RateNumbers DEF Opened
    <3>4. Len(Aged(redis)) <= MaxRequests
      BY <1>8, <1>9, <1>10, <3>3, WindowedOver
    <3>5. Windowed(Aged(redis), 0, 0)
      BY <3>4, <1>10, WindowedAnew
    <3>6. counter'.count = 0 /\ Opened' = 0
      BY <3>2 DEF NoCounter, Opened
    <3>7. counter' \in [count : 0..CountBound, ttl : {NoExpiry} \cup 1..Window]
      BY <3>2, RateNumbers DEF NoCounter, CountBound
    <3> QED BY <3>5, <3>6, <3>7, <1>5 DEF RedisWindowed
  <2>3. CASE counter.ttl # NoExpiry /\ counter.ttl # 1
    <3>1. counter.ttl \in 1..Window /\ counter.ttl - 1 \in 1..Window
      BY <2>3, <1>8, RateNumbers
    <3>2. counter' = [counter EXCEPT !.ttl = @ - 1]
      BY <2>3 DEF RateTick
    <3>3. counter' = [count |-> counter.count, ttl |-> counter.ttl - 1]
      BY <3>2, <1>8
    <3>4. counter'.count = counter.count /\ counter'.ttl = counter.ttl - 1
      BY <3>3
    <3>5. counter.ttl - 1 # NoExpiry
      BY <3>1, RateNumbers DEF NoExpiry
    <3>6. Window - (counter.ttl - 1) = Window - counter.ttl + 1
      BY <3>1, RateNumbers
    <3>7. Opened' = Opened + 1
      <4>1. Opened = Window - counter.ttl
        BY <2>3 DEF Opened
      <4>2. Opened' = Window - (counter.ttl - 1)
        BY <3>4, <3>5 DEF Opened
      <4> QED BY <4>1, <4>2, <3>6
    <3>8. counter' \in [count : 0..CountBound, ttl : {NoExpiry} \cup 1..Window]
      BY <3>1, <3>3, <1>8
    <3> QED BY <1>5, <1>9, <3>4, <3>7, <3>8 DEF RedisWindowed
  <2> QED BY <2>1, <2>2, <2>3
<1>12. /\ bucket.count \in 0..MaxRequests /\ bucket.count \in Nat
       /\ bucket.left \in -1..Window /\ bucket.left \in Int
       /\ bucket = [count |-> bucket.count, left |-> bucket.left]
  BY <1>1, CounterIs
<1>13. Window - bucket.left \in Int
  BY <1>12, RateNumbers
<1>14. ASSUME ~restarted
       PROVE  Windowed(Aged(memory), bucket.count, Window - bucket.left + 1)
  BY <1>1, <1>3, <1>12, <1>13, <1>14, WindowedTick DEF MemoryWindowed
<1>15. bucket' \in [count : 0..MaxRequests, left : -1..Window] /\ MemoryWindowed'
  <2>1. CASE bucket.left < 0
    <3>1. bucket' = bucket
      BY <2>1 DEF RateTick
    <3>2. ASSUME ~restarted
          PROVE  Windowed(Aged(memory), bucket.count, Window - bucket.left)
      <4>1. bucket.count <= bucket.count /\ Window - bucket.left <= Window - bucket.left + 1
            /\ Window - bucket.left + 1 \in Int
        BY <1>12, RateNumbers
      <4> QED BY <1>10, <1>12, <1>13, <1>14, <3>2, <4>1, WindowedLater
    <3> QED BY <1>1, <1>2, <1>5, <3>1, <3>2 DEF MemoryWindowed, RateTypeOK
  <2>2. CASE ~(bucket.left < 0)
    <3>1. bucket' = [bucket EXCEPT !.left = @ - 1]
      BY <2>2 DEF RateTick
    <3>2. bucket' = [count |-> bucket.count, left |-> bucket.left - 1]
      BY <3>1, <1>12
    <3>3. bucket.left - 1 \in -1..Window
      BY <2>2, <1>12, RateNumbers
    <3>4. bucket' \in [count : 0..MaxRequests, left : -1..Window]
      BY <3>2, <3>3, <1>12
    <3>5. bucket'.count = bucket.count /\ bucket'.left = bucket.left - 1
      BY <3>2
    <3>6. Window - (bucket.left - 1) = Window - bucket.left + 1
      BY <1>12, RateNumbers
    <3>7. MemoryWindowed'
      BY <1>2, <1>5, <1>14, <3>5, <3>6 DEF MemoryWindowed
    <3> QED BY <3>4, <3>7
  <2> QED BY <2>1, <2>2
<1>16. RateTypeOK'
  BY <1>1, <1>2, <1>7, <1>11, <1>15 DEF RateTypeOK
<1>17. RedisAlone'
  <2>1. ASSUME production PROVE Aged(memory) = <<>>
    <3>1. Len(memory) = 0
      BY <2>1, <1>1 DEF RedisAlone
    <3>2. Len(Aged(memory)) \in 0..Len(memory)
      BY <1>3, AgedIs
    <3>3. Len(Aged(memory)) = 0
      BY <3>1, <3>2
    <3> QED BY <3>3, <1>10
  <2> QED BY <2>1, <1>2, <1>5 DEF RedisAlone
<1> QED BY <1>7, <1>11, <1>15, <1>16, <1>17 DEF RateInv

LEMMA RateInvariant == RateSpec => []RateInv
<1>1. RateInit => RateInv
  BY InitRate
<1>2. RateInv /\ [RateNext]_rateVars => RateInv'
  <2> SUFFICES ASSUME RateInv, [RateNext]_rateVars PROVE RateInv'
    OBVIOUS
  <2>1. ASSUME NEW q \in Slot, Incr(q) PROVE RateInv'
    BY <2>1, IncrKeeps
  <2>2. ASSUME NEW q \in Slot, Serve(q) PROVE RateInv'
    BY <2>2, PexpireKeeps, PttlKeeps DEF Serve
  <2>3. ASSUME NEW q \in Slot, RedisFails(q) PROVE RateInv'
    BY <2>3, RedisFailsKeeps
  <2>4. CASE RateCrash
    BY <2>4, CrashKeeps
  <2>5. CASE RateTick
    BY <2>5, RateTickKeeps
  <2>6. CASE UNCHANGED rateVars
    BY <2>6 DEF rateVars, RateInv, RateTypeOK, AllSorted, RedisWindowed, Opened,
                MemoryWindowed, RedisAlone
  <2> QED BY <2>1, <2>2, <2>3, <2>4, <2>5, <2>6 DEF RateNext
<1> QED BY <1>1, <1>2, PTL DEF RateSpec

\* The two parts of a split are each within the limit.
LEMMA WindowedBounds ==
    ASSUME NEW ages \in Seq(Ages), NEW count \in Nat, NEW open \in Int,
           Windowed(ages, count, open)
    PROVE  Len(ages) <= 2 * MaxRequests
<1>1. PICK m \in 0..Len(ages) : m <= MaxRequests /\ Len(ages) <= m + MaxRequests
  BY DEF Windowed
<1>2. Len(ages) \in Nat /\ m \in Nat
  BY <1>1
<1> QED BY <1>1, <1>2, RateNumbers

LEMMA RateInvBounds == RateInv => AdmissionsBounded
<1> SUFFICES ASSUME RateInv PROVE AdmissionsBounded
  OBVIOUS
<1>1. RateTypeOK /\ RedisWindowed /\ MemoryWindowed /\ RedisAlone
  BY DEF RateInv
<1>2. /\ counter.count \in Nat /\ Opened \in Int
      /\ bucket.count \in Nat /\ bucket.left \in Int
      /\ granted["redis"] \in Seq(Ages) /\ granted["memory"] \in Seq(Ages)
  BY <1>1, CounterIs
<1>3. Window - bucket.left \in Int
  BY <1>2, RateNumbers
<1>4. Len(granted["redis"]) <= 2 * MaxRequests
  BY <1>1, <1>2, WindowedBounds DEF RedisWindowed
<1>5. ~restarted => Len(granted["memory"]) <= 2 * MaxRequests
  BY <1>1, <1>2, <1>3, WindowedBounds DEF MemoryWindowed
<1> QED BY <1>1, <1>4, <1>5 DEF AdmissionsBounded, RedisAlone

\* No stretch of one window's length sees more than twice the limit admitted, whatever
\* fails and however requests interleave (simpleRateLimit.js, checkRedisLimit and
\* checkMemoryLimit).
THEOREM AdmissionsStayBounded == RateSpec => [](RateTypeOK /\ AdmissionsBounded)
<1>1. RateInv => RateTypeOK /\ AdmissionsBounded
  BY RateInvBounds DEF RateInv
<1> QED BY <1>1, RateInvariant, PTL
=============================================================================
