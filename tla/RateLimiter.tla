----------------------------- MODULE RateLimiter -----------------------------
(***************************************************************************)
(* RateLimiter of app/core/rate_limiter.py for one key: a sliding window   *)
(* in the memory of the process, a fixed window in Redis, and the fallback *)
(* from Redis to memory.  The handlers that call hit() run in threads, so  *)
(* hits overlap: a thread reads the time before it takes the lock of the   *)
(* in-memory limiter, and between the commands of the Redis limiter others *)
(* send theirs.  Redis may fail at any command, having executed it or not. *)
(***************************************************************************)
EXTENDS Integers, Sequences, FiniteSets

CONSTANTS
  Threads,  \* threads that call hit()
  NULL,     \* no time to live, no answer
  RedisUrl, \* whether REDIS_URL is set
  Limit,    \* limit
  Window,   \* window_seconds
  MaxDelay, \* how long a thread may wait for the lock with the time it read
  MaxClock, \* bound on the clock
  MaxCount  \* bound on the count in Redis

ASSUME LimiterAssumption ==
  /\ RedisUrl \in BOOLEAN
  /\ Limit \in Nat \ {0} /\ Window \in Nat \ {0}
  /\ MaxDelay \in Nat /\ MaxClock \in Nat /\ MaxCount \in Nat
  /\ NULL \notin Int

VARIABLES
  clock,
  backend,  \* RateLimiter._backend, chosen when the process starts
  bucket,   \* _events[key] of the in-memory limiter
  redis,    \* the key in Redis: its count and when it expires
  thread,   \* what each thread is doing, the time it read, its last answer
  admitted, \* history: when each limiter admitted a hit
  lost      \* history: the first INCR of a window was not followed by EXPIRE

vars == <<clock, backend, bucket, redis, thread, admitted, lost>>

Stages == {"idle", "expire", "ttl", "memory"}
Backends == {"redis", "memory"}
NoKey == [count |-> 0, expires |-> NULL]
Idle == [stage |-> "idle", now |-> 0, retry |-> NULL]

(* __init__: the in-memory limiter, or Redis if it answers a ping. *)
InitialBackend == IF RedisUrl THEN Backends ELSE {"memory"}

Init ==
  /\ clock = 0
  /\ backend \in InitialBackend
  /\ bucket = <<>>
  /\ redis = NoKey
  /\ thread = [h \in Threads |-> Idle]
  /\ admitted = [b \in Backends |-> <<>>]
  /\ lost = FALSE

Tick ==
  /\ clock < MaxClock
  /\ \A h \in Threads :
       thread[h].stage # "idle" => clock < thread[h].now + MaxDelay
  /\ clock' = clock + 1
  /\ redis' = IF redis.expires = clock' THEN NoKey ELSE redis
  /\ UNCHANGED <<backend, bucket, thread, admitted, lost>>

(* The process restarts: its memory is gone, the key in Redis is not. *)
Restart ==
  /\ backend' \in InitialBackend
  /\ bucket' = <<>>
  /\ thread' = [h \in Threads |-> Idle]
  /\ admitted' = [admitted EXCEPT !["memory"] = <<>>]
  /\ lost' = (lost \/ \E h \in Threads : thread[h].stage = "expire")
  /\ UNCHANGED <<clock, redis>>

Enter(h, stage) ==
  thread' = [thread EXCEPT ![h] = [stage |-> stage, now |-> clock, retry |-> NULL]]

Answer(h, retry) ==
  thread' = [thread EXCEPT ![h] = [stage |-> "idle", now |-> 0, retry |-> retry]]

Admit(b) == admitted' = [admitted EXCEPT ![b] = Append(@, clock)]

Max2(a, b) == IF a >= b THEN a ELSE b

-----------------------------------------------------------------------------
(* _InMemoryRateLimiter.hit reads the time ...                             *)
MemoryHit(h) ==
  /\ thread[h].stage = "idle" /\ backend = "memory"
  /\ Enter(h, "memory")
  /\ UNCHANGED <<clock, backend, bucket, redis, admitted, lost>>

(* Mutant of Dropped: events are dropped a tick early.                     *)
DroppedEarly(b, threshold) ==
  SelectSeq(b, LAMBDA t : t > threshold + 1)

(* ... and under the lock drops the old events at the head of the deque,   *)
(* which is ordered by lock, not by time.                                  *)
Dropped(b, threshold) ==
  LET stale == CHOOSE n \in 0 .. Len(b) :
                 /\ \A i \in 1 .. n : b[i] <= threshold
                 /\ n < Len(b) => b[n + 1] > threshold
  IN  SubSeq(b, stale + 1, Len(b))

(* Mutants of RetryAfter: operands swapped, rounded down.                  *)
RetryAfterSwapped(b, now) == now - b[1] - Window

RetryAfterShort(b, now) == Max2(1, Window - (now - b[1]) - 1)

RetryAfter(b, now) == Max2(1, Window - (now - b[1]))

MemoryDecide(h) ==
  LET now  == thread[h].now
      kept == Dropped(bucket, now - Window)
  IN  /\ thread[h].stage = "memory"
      /\ IF Len(kept) >= Limit
           THEN /\ bucket' = kept
                /\ Answer(h, RetryAfter(kept, now))
                /\ UNCHANGED admitted
           ELSE /\ bucket' = Append(kept, now)
                /\ Answer(h, NULL)
                /\ Admit("memory")
      /\ UNCHANGED <<clock, backend, redis, lost>>

-----------------------------------------------------------------------------
(* _RedisRateLimiter.hit: INCR, which creates a key without a time to live *)
Incremented == [redis EXCEPT !.count = @ + 1]

AfterIncr(h, count) ==
  \/ /\ count = 1
     /\ Enter(h, "expire")
     /\ UNCHANGED admitted
  \/ /\ count \in 2 .. Limit
     /\ Answer(h, NULL)
     /\ Admit("redis")
  \/ /\ count > Limit
     /\ count # 1
     /\ Enter(h, "ttl")
     /\ UNCHANGED admitted

RedisIncr(h) ==
  /\ thread[h].stage = "idle" /\ backend = "redis"
  /\ redis.count < MaxCount
  /\ redis' = Incremented
  /\ AfterIncr(h, redis'.count)
  /\ UNCHANGED <<clock, backend, bucket, lost>>

(* Mutants of Expiring: the key without its prefix, half the window.       *)
ExpiringOther == redis

ExpiringEarly == [redis EXCEPT !.expires = clock + Window \div 2]

(* ... EXPIRE, after the first INCR of a window (limit is at least 1) ...  *)
Expiring == [redis EXCEPT !.expires = clock + Window]

RedisExpire(h) ==
  /\ thread[h].stage = "expire"
  /\ redis' = Expiring
  /\ Answer(h, NULL)
  /\ Admit("redis")
  /\ UNCHANGED <<clock, backend, bucket, lost>>

(* ... and TTL, when the count is over the limit.  A key without a time to *)
(* live has TTL -1, one that has expired meanwhile -2.                     *)
RedisTtl(h) ==
  /\ thread[h].stage = "ttl"
  /\ Answer(h, IF redis.expires = NULL THEN 1 ELSE Max2(1, redis.expires - clock))
  /\ UNCHANGED <<clock, backend, bucket, redis, admitted, lost>>

(* A RedisError sends the hit to the in-memory limiter. *)
RedisIncrFails(h) ==
  /\ thread[h].stage = "idle" /\ backend = "redis"
  /\ redis' \in {redis, Incremented}
  /\ redis'.count <= MaxCount
  /\ lost' = (lost \/ (redis' # redis /\ redis'.count = 1))
  /\ Enter(h, "memory")
  /\ UNCHANGED <<clock, backend, bucket, admitted>>

RedisExpireFails(h) ==
  /\ thread[h].stage = "expire"
  /\ redis' \in {redis, Expiring}
  /\ lost' = (lost \/ redis' = redis)
  /\ Enter(h, "memory")
  /\ UNCHANGED <<clock, backend, bucket, admitted>>

RedisTtlFails(h) ==
  /\ thread[h].stage = "ttl"
  /\ Enter(h, "memory")
  /\ UNCHANGED <<clock, backend, bucket, redis, admitted, lost>>

-----------------------------------------------------------------------------
Hit(h) ==
  \/ MemoryHit(h) \/ MemoryDecide(h)
  \/ RedisIncr(h) \/ RedisExpire(h) \/ RedisTtl(h)
  \/ RedisIncrFails(h) \/ RedisExpireFails(h) \/ RedisTtlFails(h)

Next == (\E h \in Threads : Hit(h)) \/ Tick \/ Restart

Spec == Init /\ [][Next]_vars
-----------------------------------------------------------------------------
TypeOK ==
  /\ clock \in 0 .. MaxClock
  /\ backend \in InitialBackend
  /\ bucket \in Seq(0 .. MaxClock) /\ Len(bucket) <= Limit
  /\ redis \in [count : 0 .. MaxCount, expires : Nat \cup {NULL}]
  /\ thread \in [Threads -> [stage : Stages, now : 0 .. MaxClock,
                             retry : Nat \cup {NULL}]]
  /\ admitted \in [Backends -> Seq(0 .. MaxClock)]
  /\ lost \in BOOLEAN

(* How many hits b admitted in the `length` ticks that end with `end`. *)
AdmittedIn(b, end, length) ==
  Cardinality({i \in DOMAIN admitted[b] : admitted[b][i] \in end - length + 1 .. end})

(* The sliding window of the in-memory limiter.  Threads append times out  *)
(* of order and a late thread prunes with a threshold of its own, so limit *)
(* hits per window_seconds is not guaranteed; what is guaranteed is limit  *)
(* hits per window_seconds less the longest wait for the lock.             *)
MemoryWindowBound ==
  \A end \in 0 .. MaxClock : AdmittedIn("memory", end, Window - MaxDelay) <= Limit

(* The fixed window of Redis admits at most twice the limit per window, and *)
(* a failing Redis adds no more than the in-memory limit.                  *)
RedisWindowBound ==
  \A end \in 0 .. MaxClock : AdmittedIn("redis", end, Window) <= 2 * Limit

(* A rejected client is told to wait for at least a second, and for no      *)
(* longer than a window and the delay; and if the in-memory limiter        *)
(* rejects it, that is enough: if nobody hits the key meanwhile, a client  *)
(* that has waited is admitted, although the event that Retry-After was    *)
(* computed from need not be the oldest.                                   *)
RetryAfterRight ==
  [][\A h \in Threads :
       LET now   == thread[h].now
           retry == thread'[h].retry
       IN  retry # NULL /\ thread'[h] # thread[h] =>
             /\ retry \in 1 .. Window + MaxDelay
             /\ thread[h].stage = "memory" =>
                  Len(Dropped(bucket', now + retry - Window)) < Limit]_vars

(* A key in Redis has a time to live, or the EXPIRE is on its way, or it   *)
(* was lost to a RedisError or a crash.  In that last case the key never   *)
(* expires and, once over the limit, everyone is rejected for good.        *)
ExpiryPending ==
  redis.count > 0 /\ redis.expires = NULL =>
    lost \/ \E h \in Threads : thread[h].stage = "expire"

(* "limiter backend mode is surfaced through monitoring": backend_name is  *)
(* memory while a hit is decided by the in-memory limiter.                 *)
BackendSurfaced ==
  \A h \in Threads : thread[h].stage = "memory" => backend = "memory"
=============================================================================
