------------------------------ MODULE RateLimit ------------------------------
(***************************************************************************)
(* The limiter in front of the routes (kernels/middlewares/                *)
(* simpleRateLimit.js) for one key, that is one path and one user or       *)
(* address: INCR, then PEXPIRE for the first request of a window, then     *)
(* PTTL; outside production a counter in memory when Redis fails.          *)
(***************************************************************************)
EXTENDS Integers, FiniteSets, Sequences

CONSTANTS
    Slot,           \* requests under way at once
    MaxRequests,    \* requests admitted in a window
    Window,         \* windowMs, in ticks
    RateFaults,     \* what may fail: "incr", "pexpire", "pttl", "crash"
    MaxRateFaults   \* bound on the failures

ASSUME RateAssumption ==
    /\ IsFiniteSet(Slot) /\ Slot # {}
    /\ MaxRequests \in Nat \ {0} /\ Window \in Nat \ {0} /\ MaxRateFaults \in Nat
    /\ RateFaults \subseteq {"incr", "pexpire", "pttl", "crash"}

VARIABLES
    production,     \* NODE_ENV = production
    counter,        \* the Redis key: the count, and the ticks it has left (NoExpiry: no TTL)
    bucket,         \* memoryBuckets: the count, and resetAt - now (below 0: over)
    slot,           \* each request's place between its calls
    granted,        \* history: by store, the ages of the places handed out over the last
                    \* Window ticks, the newest first
    lost,           \* history: a key was left without its PEXPIRE
    restarted,      \* history: the process has died, with its memory
    rateFaults

rateVars == <<production, counter, bucket, slot, granted, lost, restarted, rateFaults>>

NoExpiry == -1
NoCounter == [count |-> 0, ttl |-> NoExpiry]
NoBucket == [count |-> 0, left |-> -1]

\* More requests than this in one window change no comparison.
CountBound == MaxRequests + 1

Ages == 0..(Window - 1)
Stores == {"redis", "memory"}

\* How many of the ages, newest first, are still within the window a tick later.
Recent(ages) ==
    CHOOSE n \in 0..Len(ages) : \A i \in 1..Len(ages) : i <= n <=> ages[i] + 1 < Window

Aged(ages) == [i \in 1..Recent(ages) |-> ages[i] + 1]

RateTypeOK ==
    /\ production \in BOOLEAN
    /\ counter \in [count : 0..CountBound, ttl : {NoExpiry} \cup 1..Window]
    /\ bucket \in [count : 0..MaxRequests, left : -1..Window]
    /\ slot \in [Slot -> {"idle", "pexpire", "pttl"}]
    /\ granted \in [Stores -> Seq(Ages)]
    /\ lost \in BOOLEAN /\ restarted \in BOOLEAN
    /\ rateFaults \in 0..MaxRateFaults

RateInit ==
    /\ production \in BOOLEAN
    /\ counter = NoCounter
    /\ bucket = NoBucket
    /\ slot = [q \in Slot |-> "idle"]
    /\ granted = [store \in Stores |-> <<>>]
    /\ lost = FALSE /\ restarted = FALSE
    /\ rateFaults = 0

RateFault(kind) ==
    /\ kind \in RateFaults
    /\ rateFaults < MaxRateFaults
    /\ rateFaults' = rateFaults + 1

Answered(q) == slot' = [slot EXCEPT ![q] = "idle"]

Grant(store) == granted' = [granted EXCEPT ![store] = <<0>> \o @]

-----------------------------------------------------------------------------
Incremented == [counter EXCEPT !.count = IF @ = CountBound THEN @ ELSE @ + 1]

\* Slip: the count compared is the one before the increment.
IncrReadFirst(q) ==
    /\ slot[q] = "idle"
    /\ counter' = Incremented
    /\ slot' = [slot EXCEPT ![q] = IF counter'.count = 1 THEN "pexpire" ELSE "pttl"]
    /\ IF counter.count > MaxRequests THEN UNCHANGED granted ELSE Grant("redis")
    /\ UNCHANGED <<production, bucket, lost, restarted, rateFaults>>

\* Slip: PEXPIRE waits for a count of 0, which INCR never answers.
IncrFromZero(q) ==
    /\ slot[q] = "idle"
    /\ counter' = Incremented
    /\ slot' = [slot EXCEPT ![q] = IF counter'.count = 0 THEN "pexpire" ELSE "pttl"]
    /\ IF counter'.count > MaxRequests THEN UNCHANGED granted ELSE Grant("redis")
    /\ UNCHANGED <<production, bucket, lost, restarted, rateFaults>>

\* client.incr. The count decides whether the request is admitted; only the one that
\* counts 1 goes on to PEXPIRE.
Incr(q) ==
    /\ slot[q] = "idle"
    /\ counter' = Incremented
    /\ slot' = [slot EXCEPT ![q] = IF counter'.count = 1 THEN "pexpire" ELSE "pttl"]
    /\ IF counter'.count > MaxRequests THEN UNCHANGED granted ELSE Grant("redis")
    /\ UNCHANGED <<production, bucket, lost, restarted, rateFaults>>

\* Slip: the window converted to milliseconds twice.
PexpireMilliseconds(q) ==
    /\ slot[q] = "pexpire"
    /\ counter' = IF counter = NoCounter THEN counter ELSE [counter EXCEPT !.ttl = 1000 * Window]
    /\ slot' = [slot EXCEPT ![q] = "pttl"]
    /\ UNCHANGED <<production, bucket, granted, lost, restarted, rateFaults>>

Pexpire(q) ==
    /\ slot[q] = "pexpire"
    /\ counter' = IF counter = NoCounter THEN counter ELSE [counter EXCEPT !.ttl = Window]
    /\ slot' = [slot EXCEPT ![q] = "pttl"]
    /\ UNCHANGED <<production, bucket, granted, lost, restarted, rateFaults>>

\* PTTL, only to tell the client when to come back, and the answer.
Pttl(q) ==
    /\ slot[q] = "pttl"
    /\ Answered(q)
    /\ UNCHANGED <<production, counter, bucket, granted, lost, restarted, rateFaults>>

\* checkMemoryLimit, when Redis answered nothing and this is not production.
CountInMemory ==
    \/ /\ bucket.left < 0
       /\ bucket' = [count |-> 1, left |-> Window]
       /\ Grant("memory")
    \/ /\ bucket.left >= 0
       /\ IF bucket.count >= MaxRequests
          THEN UNCHANGED <<bucket, granted>>
          ELSE bucket' = [bucket EXCEPT !.count = @ + 1] /\ Grant("memory")

\* A call throws, refused or done with its answer lost, and checkRedisLimit answers
\* null: 503 in production.
RedisFails(q) ==
    /\ \/ /\ slot[q] = "idle" /\ RateFault("incr")
          /\ counter' \in {counter, Incremented}
          /\ lost' = (lost \/ (counter' # counter /\ counter'.count = 1))
       \/ /\ slot[q] = "pexpire" /\ RateFault("pexpire")
          /\ lost' = TRUE
          /\ UNCHANGED counter
       \/ /\ slot[q] = "pttl" /\ RateFault("pttl")
          /\ UNCHANGED <<counter, lost>>
    /\ Answered(q)
    /\ \/ production /\ UNCHANGED <<bucket, granted>>
       \/ ~production /\ CountInMemory
    /\ UNCHANGED <<production, restarted>>

\* The process dies, with its memory and the requests in it.
RateCrash ==
    /\ RateFault("crash")
    /\ lost' = (lost \/ \E q \in Slot : slot[q] = "pexpire")
    /\ slot' = [q \in Slot |-> "idle"]
    /\ bucket' = NoBucket
    /\ restarted' = TRUE
    /\ UNCHANGED <<production, counter, granted>>

RateTick ==
    /\ counter' = CASE counter.ttl = NoExpiry -> counter
                    [] counter.ttl = 1 -> NoCounter
                    [] OTHER -> [counter EXCEPT !.ttl = @ - 1]
    /\ bucket' = IF bucket.left < 0 THEN bucket ELSE [bucket EXCEPT !.left = @ - 1]
    /\ granted' = [store \in Stores |-> Aged(granted[store])]
    /\ UNCHANGED <<production, slot, lost, restarted, rateFaults>>

Serve(q) == Pexpire(q) \/ Pttl(q)

RateNext ==
    \/ \E q \in Slot : Incr(q) \/ Serve(q) \/ RedisFails(q)
    \/ RateCrash
    \/ RateTick

RateSpec == RateInit /\ [][RateNext]_rateVars

\* Requests that started go on, and time passes. No client has to send one.
RateFairness ==
    /\ \A q \in Slot : WF_rateVars(Serve(q))
    /\ WF_rateVars(RateTick)

-----------------------------------------------------------------------------
(* Properties.                                                             *)

\* No stretch of one window's length, wherever it starts, sees more than twice the limit
\* admitted: the end of one window and the start of the next. The memory fallback, outside
\* production, at most doubles it; a process that restarts has forgotten what it admitted
\* and is excepted (simpleRateLimit.js:78-126).
AdmissionsBounded ==
    /\ Len(granted["redis"]) <= 2 * MaxRequests
    /\ ~restarted => Len(granted["memory"]) <= 2 * MaxRequests
    /\ production => granted["memory"] = <<>>

\* A client that is refused is admitted again one day: no count outlives its window,
\* as long as every PEXPIRE follows its INCR. Nothing repairs a key that lost it
\* (simpleRateLimit.js:88-91).
RefusalsEnd == []<>(counter.count < MaxRequests \/ lost)
=============================================================================
