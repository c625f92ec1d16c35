------------------------------ MODULE RateLimiter ------------------------------
(***************************************************************************)
(* DistributedRateLimiter (services/orchestrator/redis_rate_limit.py), for *)
(* one client key: orchestrator processes that share one Redis, or, after  *)
(* a failed ping at start-up, count on their own.                          *)
(*                                                                         *)
(* Every await is a point where other requests run and where the request   *)
(* may end: a connection error, a cancellation, a crash of the process.    *)
(* Time is a tick that ages what is remembered; a minute is Minute ticks.  *)
(* A limit of 0 or less switches the limiter off before this code.         *)
(***************************************************************************)
EXTENDS Integers, Sequences, FiniteSets, SequencesExt

CONSTANTS
    Callers,    \* requests of the client, each repeated
    Processes,  \* orchestrator processes
    Home,       \* the process that gets a request
    Limit,      \* limit_per_minute
    Minute,     \* 60 seconds, in ticks
    NoOne,      \* nobody holds a lock
    MayFail     \* can a request end at an await?

ASSUME HomeAssumption == Home \in [Callers -> Processes] /\ NoOne \notin Callers
ASSUME LimitAssumption == Limit \in Nat \ {0} /\ Minute \in Nat \ {0} /\ MayFail \in BOOLEAN

VARIABLES
    mode,    \* per process: "redis", or "local" without a client
    count,   \* the Redis counter, 0 when the key does not exist; it stays
             \* at TooMany, the code only compares it with the limit
    ttl,     \* its time to live, -1 when it has none
    limiterLock, \* per process: _lock
    step,    \* per request: how far it is, "refused" if its last try was
    current, \* per request: what INCR returned
    bucket,  \* per process: ages of the timestamps in its local bucket
    ages     \* history: ages of the requests Redis admitted, below a minute

limiterVars == <<mode, count, ttl, limiterLock, step, current, bucket, ages>>

TooMany == Limit + 2
Counted(n) == IF n < TooMany THEN n + 1 ELSE n

\* initialize: the client is kept if the ping answers.
LimiterInit ==
    /\ mode \in [Processes -> {"redis", "local"}]
    /\ count = 0 /\ ttl = -1
    /\ limiterLock = [p \in Processes |-> NoOne]
    /\ step = [r \in Callers |-> "idle"] /\ current = [r \in Callers |-> 0]
    /\ bucket = [p \in Processes |-> <<>>]
    /\ ages = <<>>

At(r, s) == step[r] = s
Asks(r) == step[r] \in {"idle", "refused"}
Holds(r) == step[r] \in {"incr", "expire", "ttl"}

\* _check_local_fallback: the timestamps of the last minute, its start included.
Recent(times) ==
    LET kept[i \in 0 .. Len(times)] ==
            IF i = 0 THEN <<>>
            ELSE IF times[i] <= Minute THEN Append(kept[i - 1], times[i]) ELSE kept[i - 1]
    IN  kept[Len(times)]

CheckLocal(r) ==
    LET p == Home[r]  recent == Recent(bucket[p]) IN
    /\ Asks(r) /\ mode[p] = "local"
    /\ \/ /\ Len(recent) >= Limit
          /\ bucket' = [bucket EXCEPT ![p] = recent]
          /\ step' = [step EXCEPT ![r] = "refused"]
       \/ /\ Len(recent) < Limit
          /\ bucket' = [bucket EXCEPT ![p] = Append(recent, 0)]
          /\ step' = [step EXCEPT ![r] = "idle"]
    /\ UNCHANGED <<mode, count, ttl, limiterLock, current, ages>>

\* async with self._lock
AcquireLimiter(r) ==
    /\ Asks(r) /\ mode[Home[r]] = "redis" /\ limiterLock[Home[r]] = NoOne
    /\ limiterLock' = [limiterLock EXCEPT ![Home[r]] = r]
    /\ step' = [step EXCEPT ![r] = "incr"]
    /\ UNCHANGED <<mode, count, ttl, current, bucket, ages>>

\* What INCR returned against the limit, and whether EXPIRE follows.
AdmitsOneMore(value) == value <= Limit + 1   \* mutant: off by one
Admits(value) == value <= Limit
EveryTime(value) == value > 0   \* mutant: each request renews the lifetime
CreatedKey(value) == value = 1

Incr(r) ==
    LET value == Counted(count) IN
    /\ At(r, "incr")
    /\ count' = value
    /\ current' = [current EXCEPT ![r] = value]
    /\ step' = [step EXCEPT ![r] = IF CreatedKey(value) THEN "expire" ELSE "ttl"]
    /\ ages' = IF Admits(value) THEN Append(ages, 0) ELSE ages
    /\ UNCHANGED <<mode, ttl, limiterLock, bucket>>

\* EXPIRE, by the request that created the key.
Expire(r) ==
    /\ At(r, "expire")
    /\ ttl' = Minute
    /\ step' = [step EXCEPT ![r] = "ttl"]
    /\ UNCHANGED <<mode, count, limiterLock, current, bucket, ages>>

\* TTL, which only Retry-After needs; the lock is released.
Decide(r) ==
    /\ At(r, "ttl")
    /\ step' = [step EXCEPT ![r] = IF Admits(current[r]) THEN "idle" ELSE "refused"]
    /\ current' = [current EXCEPT ![r] = 0]
    /\ limiterLock' = [limiterLock EXCEPT ![Home[r]] = NoOne]
    /\ UNCHANGED <<mode, count, ttl, bucket, ages>>

\* The request ends at an await; its INCR may have reached Redis.
Lost(r) == At(r, "incr") /\ count' = Counted(count)
FailCheck(r) ==
    /\ MayFail /\ Holds(r)
    /\ Lost(r) \/ UNCHANGED count
    /\ step' = [step EXCEPT ![r] = "idle"]
    /\ current' = [current EXCEPT ![r] = 0]
    /\ limiterLock' = [limiterLock EXCEPT ![Home[r]] = NoOne]
    /\ UNCHANGED <<mode, ttl, bucket, ages>>

\* A process that answers nobody is stopped and started again.
Restart(p) ==
    /\ MayFail /\ limiterLock[p] = NoOne
    /\ \E m \in {"redis", "local"} : mode' = [mode EXCEPT ![p] = m]
    /\ bucket' = [bucket EXCEPT ![p] = <<>>]
    /\ UNCHANGED <<count, ttl, limiterLock, step, current, ages>>

\* A tick: the key expires, what is remembered ages.
Older(times) == [i \in DOMAIN times |-> IF times[i] > Minute THEN times[i] ELSE times[i] + 1]
Tick ==
    /\ ttl' = IF ttl > 1 THEN ttl - 1 ELSE -1
    /\ count' = IF ttl = 1 THEN 0 ELSE count
    /\ bucket' = [p \in Processes |-> Older(bucket[p])]
    /\ \E n \in 0 .. Len(ages) :   \* those at the front have left the minute
          /\ \A i \in DOMAIN ages : Older(ages)[i] >= Minute <=> i <= n
          /\ ages' = SubSeq(Older(ages), n + 1, Len(ages))
    /\ UNCHANGED <<mode, limiterLock, step, current>>

CheckStep(r) == CheckLocal(r) \/ AcquireLimiter(r) \/ Incr(r) \/ Expire(r) \/ Decide(r)
LimiterNext ==
    \/ Tick
    \/ \E r \in Callers : CheckStep(r) \/ FailCheck(r)
    \/ \E p \in Processes : Restart(p)
LimiterSpec == LimiterInit /\ [][LimiterNext]_limiterVars

\* Time passes; each request runs on and is repeated; asyncio.Lock is fair.
LimiterFairSpec ==
    /\ LimiterSpec
    /\ WF_limiterVars(Tick)
    /\ \A r \in Callers : WF_limiterVars(CheckStep(r)) /\ SF_limiterVars(AcquireLimiter(r))

-----------------------------------------------------------------------------

LimiterTypeOK ==
    /\ mode \in [Processes -> {"redis", "local"}]
    /\ count \in 0 .. TooMany /\ ttl \in {-1} \cup 1 .. Minute
    /\ limiterLock \in [Processes -> Callers \cup {NoOne}]
    /\ step \in [Callers -> {"idle", "incr", "expire", "ttl", "refused"}]
    /\ current \in [Callers -> 0 .. TooMany]
    /\ bucket \in [Processes -> Seq(0 .. Minute + 1)]
    /\ ages \in Seq(0 .. Minute - 1)

\* Redis never admits more than twice limit_per_minute in any minute (one
\* fixed window may end in it and the next begin), however INCR and EXPIRE of
\* the processes interleave and fail, and a process counting on its own never
\* more than the limit.
MinuteLimit ==
    /\ LimiterTypeOK
    /\ Len(ages) <= 2 * Limit
    /\ \A p \in Processes : Len(Recent(bucket[p])) <= Limit

\* The key was created but the request that had to give it a lifetime ended.
Stuck == count > 0 /\ ttl = -1 /\ \A r \in Callers : step[r] # "expire"

HasRoom(p) == IF mode[p] = "redis" THEN count < Limit ELSE Len(Recent(bucket[p])) < Limit

\* A client that is refused finds room again however often it and the others
\* keep asking: asking never extends the wait. Only a key left without a
\* lifetime is the exception.
Forgiven == \A r \in Callers : At(r, "refused") ~> (HasRoom(Home[r]) \/ Stuck)

-----------------------------------------------------------------------------
(***************************************************************************)
(* Refuted: "limit_per_minute", and a limit that always ends.              *)
(***************************************************************************)

\* The name limit_per_minute, read as a promise: violated across the boundary
\* of two fixed windows.
PerMinute == Len(ages) <= Limit

\* A counter always gets its lifetime: violated by a request that ends
\* between INCR and EXPIRE.
AlwaysExpires == ~Stuck
=============================================================================
