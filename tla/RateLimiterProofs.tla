-------------------------- MODULE RateLimiterProofs --------------------------
(***************************************************************************)
(* What the rate limiter promises, for every limit, window, delay and      *)
(* number of threads: the types of its state, keys in Redis that expire, a *)
(* Retry-After that suffices, and how many hits each limiter admits per    *)
(* window.                                                                 *)
(***************************************************************************)
EXTENDS RateLimiter, FiniteSetTheorems, SequenceTheorems, WellFoundedInduction, TLAPS

USE LimiterAssumption

(* A set of natural numbers that has an element has a least one.           *)
LEMMA Least ==
  ASSUME NEW S \in SUBSET Nat, S # {}
  PROVE  \E n \in S : \A m \in S : n <= m
<1>1. PICK n \in S : \A m \in S : <<m, n>> \notin OpToRel(<, Nat)
  BY WFMin, NatLessThanWellFounded
<1>2. \A m \in S : ~(m < n)
  BY <1>1 DEF OpToRel
<1>. QED
  BY <1>2

(* The loop that drops old events stops at the first that is not old.      *)
LEMMA DroppedHead ==
  ASSUME NEW b \in Seq(Nat), NEW threshold \in Int
  PROVE  \E n \in 0 .. Len(b) :
           /\ Dropped(b, threshold) = SubSeq(b, n + 1, Len(b))
           /\ \A i \in 1 .. n : b[i] <= threshold
           /\ n < Len(b) => b[n + 1] > threshold
<1> DEFINE S == {n \in 0 .. Len(b) : n < Len(b) => b[n + 1] > threshold}
           stops(n) == /\ \A i \in 1 .. n : b[i] <= threshold
                       /\ n < Len(b) => b[n + 1] > threshold
<1>1. S \in SUBSET Nat /\ Len(b) \in S
  OBVIOUS
<1>2. PICK n \in S : \A m \in S : n <= m
  BY <1>1, Least
<1>3. \A i \in 1 .. n : b[i] <= threshold
  <2> SUFFICES ASSUME NEW i \in 1 .. n PROVE b[i] <= threshold
    OBVIOUS
  <2>1. Len(b) \in Nat /\ n \in 0 .. Len(b) /\ i \in 1 .. Len(b)
    BY <1>2
  <2>2. i - 1 \in 0 .. Len(b) /\ i - 1 < Len(b) /\ (i - 1) + 1 = i /\ ~(n <= i - 1)
    BY <2>1
  <2>3. i - 1 \notin S
    BY <1>2, <2>2
  <2>4. ~(b[i] > threshold)
    BY <2>2, <2>3
  <2>5. b[i] \in Nat
    BY <2>1
  <2>. QED
    BY <2>4, <2>5
<1>4. \E m \in 0 .. Len(b) : stops(m)
  BY <1>2, <1>3
<1> DEFINE stale == CHOOSE m \in 0 .. Len(b) : stops(m)
<1>5. stale \in 0 .. Len(b) /\ stops(stale)
  BY <1>4
<1>6. Dropped(b, threshold) = SubSeq(b, stale + 1, Len(b))
  BY DEF Dropped
<1>. QED
  BY <1>5, <1>6

(* What it leaves is a tail of the events, the first of them not old.      *)
LEMMA DroppedTail ==
  ASSUME NEW b \in Seq(0 .. MaxClock), NEW threshold \in Int
  PROVE  LET d == Dropped(b, threshold)
         IN  /\ d \in Seq(0 .. MaxClock)
             /\ Len(d) > 0 => d[1] > threshold
             /\ \E n \in 0 .. Len(b) :
                  /\ Len(d) = Len(b) - n
                  /\ \A i \in 1 .. Len(d) : d[i] = b[n + i]
                  /\ \A i \in 1 .. n : b[i] <= threshold
<1> DEFINE d == Dropped(b, threshold)
<1>1. b \in Seq(Nat)
  OBVIOUS
<1>2. PICK n \in 0 .. Len(b) :
           /\ d = SubSeq(b, n + 1, Len(b))
           /\ \A i \in 1 .. n : b[i] <= threshold
           /\ n < Len(b) => b[n + 1] > threshold
  BY <1>1, DroppedHead
<1> HIDE DEF d
<1>3. d \in Seq(0 .. MaxClock) /\ Len(d) = Len(b) - n
  <2>1. /\ Len(b) \in Nat /\ n + 1 \in 1 .. Len(b) + 1 /\ Len(b) \in n .. Len(b)
        /\ \A i \in n + 1 .. Len(b) : b[i] \in 0 .. MaxClock
    OBVIOUS
  <2>. QED
    BY <1>2, <2>1, SubSeqProperties
<1>4. \A i \in 1 .. Len(d) : d[i] = b[n + i]
  BY <1>2, <1>3
<1>5. Len(d) > 0 => d[1] > threshold
  BY <1>2, <1>3, <1>4
<1>. QED
  BY <1>2, <1>3, <1>4, <1>5 DEF d

-----------------------------------------------------------------------------
(* A thread decides with a time it has read at most MaxDelay ago; no event *)
(* is in the future, and no key in Redis lives for more than a window.     *)
TimesRead ==
  \A h \in Threads : thread[h].stage # "idle" =>
    thread[h].now <= clock /\ clock <= thread[h].now + MaxDelay

EventsPast == \A i \in 1 .. Len(bucket) : bucket[i] <= clock

ExpiresInTime == redis.expires # NULL => redis.expires <= clock + Window

LimiterInv == TypeOK /\ TimesRead /\ EventsPast /\ ExpiresInTime

(* What a thread does next, or answers its client, concerns it alone.      *)
Thread == [stage : Stages, now : 0 .. MaxClock, retry : Nat \cup {NULL}]

(* A hit that goes on does so with the time it has just read, ...          *)
LEMMA Entered ==
  ASSUME TypeOK, NEW h \in Threads, NEW stage \in Stages, Enter(h, stage)
  PROVE  /\ thread' \in [Threads -> Thread]
         /\ thread'[h].stage = stage /\ thread'[h].now = clock /\ thread'[h].retry = NULL
         /\ \A g \in Threads : g # h => thread'[g] = thread[g]
<1> DEFINE new == [stage |-> stage, now |-> clock, retry |-> NULL]
<1>1. new \in Thread /\ new.stage = stage /\ new.now = clock /\ new.retry = NULL
  BY DEF TypeOK, Thread
<1>2. thread \in [Threads -> Thread] /\ thread' = [thread EXCEPT ![h] = new]
  BY DEF TypeOK, Thread, Enter
<1> HIDE DEF new
<1>. QED
  BY <1>1, <1>2

(* ... and one that is answered keeps the answer.                          *)
LEMMA Answered ==
  ASSUME TypeOK, NEW h \in Threads, NEW retry \in Nat \cup {NULL}, Answer(h, retry)
  PROVE  /\ thread' \in [Threads -> Thread]
         /\ thread'[h].stage = "idle" /\ thread'[h].retry = retry
         /\ \A g \in Threads : g # h => thread'[g] = thread[g]
<1> DEFINE new == [stage |-> "idle", now |-> 0, retry |-> retry]
<1>1. new \in Thread /\ new.stage = "idle" /\ new.retry = retry
  BY DEF Thread, Stages
<1>2. thread \in [Threads -> Thread] /\ thread' = [thread EXCEPT ![h] = new]
  BY DEF TypeOK, Thread, Answer
<1> HIDE DEF new
<1>. QED
  BY <1>1, <1>2

(* The decision of the in-memory limiter: what its bucket holds is a tail  *)
(* of what it held, and the time of a hit that is admitted.                *)
LEMMA DecideType ==
  ASSUME LimiterInv, NEW h \in Threads, MemoryDecide(h)
  PROVE  /\ bucket' \in Seq(0 .. MaxClock) /\ Len(bucket') <= Limit
         /\ \A i \in 1 .. Len(bucket') : bucket'[i] <= clock
         /\ \E retry \in Nat \cup {NULL} :
              /\ Answer(h, retry)
              /\ retry = NULL => Admit("memory")
              /\ retry # NULL => UNCHANGED admitted
<1> DEFINE now == thread[h].now
           kept == Dropped(bucket, now - Window)
<1>1. /\ now \in 0 .. MaxClock /\ now <= clock /\ clock \in 0 .. MaxClock
      /\ bucket \in Seq(0 .. MaxClock) /\ Len(bucket) <= Limit
  BY DEF MemoryDecide, LimiterInv, TimesRead, TypeOK
<1>2. now - Window \in Int
  BY <1>1
<1>3. /\ kept \in Seq(0 .. MaxClock)
      /\ \E n \in 0 .. Len(bucket) :
           /\ Len(kept) = Len(bucket) - n
           /\ \A i \in 1 .. Len(kept) : kept[i] = bucket[n + i]
  BY <1>1, <1>2, DroppedTail
<1>4. \/ /\ Len(kept) >= Limit /\ bucket' = kept
         /\ Answer(h, RetryAfter(kept, now)) /\ UNCHANGED admitted
      \/ /\ ~(Len(kept) >= Limit) /\ bucket' = Append(kept, now)
         /\ Answer(h, NULL) /\ Admit("memory")
  BY DEF MemoryDecide
<1> HIDE DEF now, kept
<1>5. Len(kept) \in Nat /\ Len(kept) <= Limit /\ \A i \in 1 .. Len(kept) : kept[i] <= clock
  <2>1. PICK n \in 0 .. Len(bucket) :
           /\ Len(kept) = Len(bucket) - n
           /\ \A i \in 1 .. Len(kept) : kept[i] = bucket[n + i]
    BY <1>3
  <2>2. Len(bucket) \in Nat /\ Len(kept) \in Nat
    BY <1>1, <1>3
  <2>3. \A i \in 1 .. Len(kept) : n + i \in 1 .. Len(bucket)
    BY <2>1, <2>2
  <2>4. \A i \in 1 .. Len(kept) : kept[i] <= clock
    BY <2>1, <2>3 DEF LimiterInv, EventsPast
  <2>. QED
    BY <1>1, <2>1, <2>2, <2>4
<1>6. CASE /\ Len(kept) >= Limit /\ bucket' = kept
           /\ Answer(h, RetryAfter(kept, now)) /\ UNCHANGED admitted
  <2>1. kept[1] \in Nat
    BY <1>3, <1>5, <1>6
  <2>2. RetryAfter(kept, now) \in Nat /\ RetryAfter(kept, now) # NULL
    BY <1>1, <2>1 DEF RetryAfter, Max2
  <2>. QED
    BY <1>3, <1>5, <1>6, <2>2
<1>7. CASE /\ ~(Len(kept) >= Limit) /\ bucket' = Append(kept, now)
           /\ Answer(h, NULL) /\ Admit("memory")
  <2>1. /\ bucket' \in Seq(0 .. MaxClock) /\ Len(bucket') = Len(kept) + 1
        /\ \A i \in 1 .. Len(bucket') :
             bucket'[i] = IF i <= Len(kept) THEN kept[i] ELSE now
    BY <1>1, <1>3, <1>7
  <2>2. Len(bucket') <= Limit
    BY <1>5, <1>7, <2>1
  <2>3. ASSUME NEW i \in 1 .. Len(bucket') PROVE bucket'[i] <= clock
    <3>1. CASE i <= Len(kept)
      <4>1. i \in 1 .. Len(kept) /\ bucket'[i] = kept[i]
        BY <1>5, <2>1, <3>1
      <4>. QED
        BY <1>5, <4>1
    <3>2. CASE ~(i <= Len(kept))
      BY <1>1, <2>1, <3>2
    <3>. QED
      BY <3>1, <3>2
  <2>. QED
    BY <1>7, <2>1, <2>2, <2>3
<1>. QED
  BY <1>4, <1>6, <1>7

(* INCR adds to the count and keeps the time to live, EXPIRE sets it.      *)
LEMMA KeyType ==
  ASSUME TypeOK
  PROVE  /\ Incremented \in [count : Nat, expires : Nat \cup {NULL}]
         /\ Incremented.count = redis.count + 1 /\ Incremented.expires = redis.expires
         /\ Expiring \in [count : 0 .. MaxCount, expires : Nat \cup {NULL}]
         /\ Expiring.count = redis.count /\ Expiring.expires = clock + Window
<1>1. redis \in [count : 0 .. MaxCount, expires : Nat \cup {NULL}] /\ clock + Window \in Nat
  BY DEF TypeOK
<1>2. /\ Incremented \in [count : Nat, expires : Nat \cup {NULL}]
      /\ Incremented.count = redis.count + 1 /\ Incremented.expires = redis.expires
  BY <1>1 DEF Incremented
<1>3. /\ Expiring \in [count : 0 .. MaxCount, expires : Nat \cup {NULL}]
      /\ Expiring.count = redis.count /\ Expiring.expires = clock + Window
  BY <1>1 DEF Expiring
<1>. QED
  BY <1>2, <1>3

(* A hit that is admitted is recorded with the time.                       *)
LEMMA Admitted ==
  ASSUME TypeOK, NEW b \in Backends, Admit(b)
  PROVE  /\ admitted' \in [Backends -> Seq(0 .. MaxClock)]
         /\ admitted'[b] = Append(admitted[b], clock)
         /\ \A c \in Backends : c # b => admitted'[c] = admitted[c]
<1>1. /\ clock \in 0 .. MaxClock /\ admitted \in [Backends -> Seq(0 .. MaxClock)]
      /\ admitted' = [admitted EXCEPT ![b] = Append(@, clock)]
  BY DEF TypeOK, Admit
<1>2. Append(admitted[b], clock) \in Seq(0 .. MaxClock)
  BY <1>1, AppendProperties
<1>. QED
  BY <1>1, <1>2

(* What the steps of a thread do to the parts of the state it may change.  *)
LEMMA HitType ==
  ASSUME LimiterInv, NEW h \in Threads, Hit(h)
  PROVE  /\ UNCHANGED <<clock, backend>>
         /\ thread' \in [Threads -> Thread]
         /\ thread'[h].stage # "idle" => thread'[h].now = clock
         /\ \A g \in Threads : g # h => thread'[g] = thread[g]
         /\ redis' \in [count : 0 .. MaxCount, expires : Nat \cup {NULL}]
         /\ redis'.expires \in {redis.expires, clock + Window}
         /\ bucket' \in Seq(0 .. MaxClock) /\ Len(bucket') <= Limit
         /\ \A i \in 1 .. Len(bucket') : bucket'[i] <= clock
         /\ admitted' \in [Backends -> Seq(0 .. MaxClock)]
         /\ lost' \in BOOLEAN
<1>1. /\ TypeOK /\ clock \in 0 .. MaxClock /\ NULL \in Nat \cup {NULL}
      /\ Backends = {"redis", "memory"} /\ Stages = {"idle", "expire", "ttl", "memory"}
      /\ redis \in [count : 0 .. MaxCount, expires : Nat \cup {NULL}]
      /\ bucket \in Seq(0 .. MaxClock) /\ Len(bucket) <= Limit
      /\ \A i \in 1 .. Len(bucket) : bucket[i] <= clock
      /\ admitted \in [Backends -> Seq(0 .. MaxClock)] /\ lost \in BOOLEAN
  BY DEF LimiterInv, TypeOK, EventsPast, Backends, Stages
<1>2. CASE MemoryHit(h)
  BY <1>1, <1>2, Entered DEF MemoryHit
<1>3. CASE MemoryDecide(h)
  <2>1. PICK retry \in Nat \cup {NULL} :
           /\ Answer(h, retry)
           /\ retry = NULL => Admit("memory")
           /\ retry # NULL => UNCHANGED admitted
    BY <1>3, DecideType
  <2>2. admitted' \in [Backends -> Seq(0 .. MaxClock)]
    BY <1>1, <2>1, Admitted
  <2>3. /\ thread' \in [Threads -> Thread] /\ thread'[h].stage = "idle"
        /\ \A g \in Threads : g # h => thread'[g] = thread[g]
    BY <1>1, <2>1, Answered
  <2>4. UNCHANGED <<clock, backend, redis, lost>>
    BY <1>3 DEF MemoryDecide
  <2>. QED
    BY <1>1, <1>3, <2>2, <2>3, <2>4, DecideType
<1>4. CASE RedisIncr(h)
  <2>1. /\ redis' \in [count : 0 .. MaxCount, expires : Nat \cup {NULL}]
        /\ redis'.expires = redis.expires
    <3>1. redis' = Incremented /\ redis.count < MaxCount
      BY <1>4 DEF RedisIncr
    <3>2. Incremented.count \in 0 .. MaxCount
      BY <1>1, <3>1, KeyType
    <3> HIDE DEF Incremented
    <3>. QED
      BY <1>1, <3>1, <3>2, KeyType
  <2>2. UNCHANGED <<clock, backend, bucket, lost>>
    BY <1>4 DEF RedisIncr
  <2>3. \/ \E stage \in {"expire", "ttl"} : Enter(h, stage) /\ UNCHANGED admitted
        \/ Answer(h, NULL) /\ Admit("redis")
    BY <1>4 DEF RedisIncr, AfterIncr
  <2>4. CASE \E stage \in {"expire", "ttl"} : Enter(h, stage) /\ UNCHANGED admitted
    BY <1>1, <2>1, <2>2, <2>4, Entered
  <2>5. CASE Answer(h, NULL) /\ Admit("redis")
    BY <1>1, <2>1, <2>2, <2>5, Answered, Admitted
  <2>. QED
    BY <2>3, <2>4, <2>5
<1>5. CASE RedisExpire(h)
  <2>1. /\ redis' = Expiring /\ Answer(h, NULL) /\ Admit("redis")
        /\ UNCHANGED <<clock, backend, bucket, lost>>
    BY <1>5 DEF RedisExpire
  <2>. QED
    BY <1>1, <2>1, KeyType, Answered, Admitted
<1>6. CASE RedisTtl(h)
  <2>1. \E retry \in Nat \cup {NULL} : Answer(h, retry)
    <3>1. (IF redis.expires = NULL THEN 1 ELSE Max2(1, redis.expires - clock)) \in Nat
      BY <1>1 DEF Max2
    <3>. QED
      BY <1>6, <3>1 DEF RedisTtl
  <2>2. UNCHANGED <<clock, backend, bucket, redis, admitted, lost>>
    BY <1>6 DEF RedisTtl
  <2>. QED
    BY <1>1, <2>1, <2>2, Answered
<1>7. CASE RedisIncrFails(h)
  <2>1. /\ redis' \in [count : 0 .. MaxCount, expires : Nat \cup {NULL}]
        /\ redis'.expires = redis.expires
    <3>1. redis' \in {redis, Incremented} /\ redis'.count <= MaxCount
      BY <1>7 DEF RedisIncrFails
    <3>2. CASE redis' = Incremented
      BY <1>1, <3>1, <3>2, KeyType
    <3>. QED
      BY <1>1, <3>1, <3>2
  <2>2. Enter(h, "memory") /\ UNCHANGED <<clock, backend, bucket, admitted>>
    BY <1>7 DEF RedisIncrFails
  <2>3. lost' \in BOOLEAN
    BY <1>1, <1>7 DEF RedisIncrFails
  <2>. QED
    BY <1>1, <2>1, <2>2, <2>3, Entered
<1>8. CASE RedisExpireFails(h)
  <2>1. redis' \in {redis, Expiring} /\ lost' \in BOOLEAN /\ Enter(h, "memory")
        /\ UNCHANGED <<clock, backend, bucket, admitted>>
    BY <1>1, <1>8 DEF RedisExpireFails
  <2>. QED
    BY <1>1, <2>1, KeyType, Entered
<1>9. CASE RedisTtlFails(h)
  BY <1>1, <1>9, Entered DEF RedisTtlFails
<1>. QED
  BY <1>2, <1>3, <1>4, <1>5, <1>6, <1>7, <1>8, <1>9 DEF Hit

(* A step of the clock or of the process.                                  *)
LEMMA WorldType ==
  ASSUME LimiterInv, Tick \/ Restart
  PROVE  LimiterInv'
<1>1. /\ TypeOK /\ clock \in 0 .. MaxClock
      /\ redis \in [count : 0 .. MaxCount, expires : Nat \cup {NULL}]
      /\ NoKey \in [count : 0 .. MaxCount, expires : Nat \cup {NULL}]
      /\ Idle \in Thread /\ Idle.stage = "idle"
  BY DEF LimiterInv, TypeOK, NoKey, Idle, Thread, Stages
<1>2. CASE Tick
  <2>1. /\ clock' \in 0 .. MaxClock /\ clock' = clock + 1
        /\ redis' \in {redis, NoKey} /\ NoKey.expires = NULL
        /\ UNCHANGED <<backend, bucket, thread, admitted, lost>>
    BY <1>1, <1>2 DEF Tick, NoKey
  <2>2. TypeOK'
    BY <1>1, <2>1 DEF TypeOK
  <2>3. TimesRead'
    <3> SUFFICES ASSUME NEW h \in Threads, thread[h].stage # "idle"
                 PROVE  thread[h].now <= clock' /\ clock' <= thread[h].now + MaxDelay
      BY <2>1 DEF TimesRead
    <3>1. thread[h].now \in 0 .. MaxClock /\ thread[h].now <= clock
          /\ clock < thread[h].now + MaxDelay
      BY <1>1, <1>2 DEF Tick, LimiterInv, TimesRead, TypeOK
    <3>. QED
      BY <1>1, <2>1, <3>1
  <2>4. EventsPast'
    <3> SUFFICES ASSUME NEW i \in 1 .. Len(bucket) PROVE bucket[i] <= clock'
      BY <2>1 DEF EventsPast
    <3>1. bucket[i] \in 0 .. MaxClock /\ bucket[i] <= clock
      BY <1>1 DEF LimiterInv, EventsPast, TypeOK
    <3>. QED
      BY <1>1, <2>1, <3>1
  <2>5. ExpiresInTime'
    <3> SUFFICES ASSUME redis'.expires # NULL PROVE redis'.expires <= clock' + Window
      BY DEF ExpiresInTime
    <3>1. redis' = redis /\ redis.expires \in Nat /\ redis.expires <= clock + Window
      BY <1>1, <2>1 DEF LimiterInv, ExpiresInTime
    <3>. QED
      BY <1>1, <2>1, <3>1
  <2>. QED
    BY <2>2, <2>3, <2>4, <2>5 DEF LimiterInv
<1>3. CASE Restart
  <2>1. /\ backend' \in InitialBackend /\ bucket' = <<>>
        /\ thread' = [h \in Threads |-> Idle] /\ UNCHANGED <<clock, redis>>
        /\ lost' \in BOOLEAN
    BY <1>1, <1>3 DEF Restart, TypeOK
  <2>2. admitted' \in [Backends -> Seq(0 .. MaxClock)]
    <3>1. <<>> \in Seq(0 .. MaxClock) /\ admitted' = [admitted EXCEPT !["memory"] = <<>>]
      BY <1>3, EmptySeq DEF Restart
    <3>. QED
      BY <1>1, <3>1 DEF TypeOK
  <2>3. TypeOK'
    BY <1>1, <2>1, <2>2 DEF TypeOK, Thread
  <2>4. TimesRead' /\ EventsPast' /\ ExpiresInTime'
    BY <1>1, <2>1 DEF LimiterInv, TimesRead, EventsPast, ExpiresInTime
  <2>. QED
    BY <2>3, <2>4 DEF LimiterInv
<1>. QED
  BY <1>2, <1>3

(* The invariant is inductive, ...                                         *)
LEMMA LimiterStep == LimiterInv /\ [Next]_vars => LimiterInv'
<1> SUFFICES ASSUME LimiterInv, [Next]_vars PROVE LimiterInv'
  OBVIOUS
<1>1. CASE UNCHANGED vars
  BY <1>1 DEF vars, LimiterInv, TypeOK, TimesRead, EventsPast, ExpiresInTime
<1>2. ASSUME NEW h \in Threads, Hit(h) PROVE LimiterInv'
  <2>1. clock \in 0 .. MaxClock /\ clock' = clock
    BY <1>2, HitType DEF LimiterInv, TypeOK
  <2>2. TypeOK'
    BY <1>2, HitType DEF LimiterInv, TypeOK, Thread
  <2>3. TimesRead'
    <3> SUFFICES ASSUME NEW g \in Threads, thread'[g].stage # "idle"
                 PROVE  thread'[g].now <= clock /\ clock <= thread'[g].now + MaxDelay
      BY <2>1 DEF TimesRead
    <3>1. CASE g = h
      BY <1>2, <2>1, <3>1, HitType
    <3>2. CASE g # h
      BY <1>2, <3>2, HitType DEF LimiterInv, TimesRead
    <3>. QED
      BY <3>1, <3>2
  <2>4. EventsPast'
    BY <1>2, <2>1, HitType DEF EventsPast
  <2>5. ExpiresInTime'
    BY <1>2, <2>1, HitType DEF LimiterInv, ExpiresInTime
  <2>. QED
    BY <2>2, <2>3, <2>4, <2>5 DEF LimiterInv
<1>3. CASE Tick \/ Restart
  BY <1>3, WorldType
<1>. QED
  BY <1>1, <1>2, <1>3 DEF Next

(* ... and holds in every reachable state.                                 *)
LEMMA LimiterAlways == Spec => []LimiterInv
<1>1. Init => LimiterInv
  <2> SUFFICES ASSUME Init PROVE LimiterInv
    OBVIOUS
  <2>1. /\ clock = 0 /\ bucket = <<>> /\ redis = NoKey /\ lost = FALSE
        /\ backend \in InitialBackend
        /\ thread = [h \in Threads |-> Idle] /\ admitted = [b \in Backends |-> <<>>]
    BY DEF Init
  <2>2. /\ NoKey \in [count : 0 .. MaxCount, expires : Nat \cup {NULL}]
        /\ Idle \in Thread /\ <<>> \in Seq(0 .. MaxClock) /\ Len(<<>>) = 0
    BY EmptySeq DEF NoKey, Idle, Thread, Stages
  <2>4. TypeOK
    <3>1. clock \in 0 .. MaxClock /\ bucket \in Seq(0 .. MaxClock) /\ Len(bucket) <= Limit
      BY <2>1, <2>2
    <3>2. thread \in [Threads -> Thread] /\ admitted \in [Backends -> Seq(0 .. MaxClock)]
      BY <2>1, <2>2
    <3>3. redis \in [count : 0 .. MaxCount, expires : Nat \cup {NULL}] /\ lost \in BOOLEAN
      BY <2>1, <2>2
    <3>. QED
      BY <2>1, <3>1, <3>2, <3>3 DEF TypeOK, Thread
  <2>3. TimesRead /\ EventsPast /\ ExpiresInTime
    BY <2>1 DEF TimesRead, EventsPast, ExpiresInTime, Idle, NoKey
  <2>. QED
    BY <2>3, <2>4 DEF LimiterInv
<1>. QED
  BY <1>1, LimiterStep, PTL DEF Spec

(* The state of the limiters keeps its types; the bucket in memory never   *)
(* holds more events than the limit.                                       *)
THEOREM LimiterTypes == Spec => []TypeOK
<1>1. LimiterInv => TypeOK
  BY DEF LimiterInv
<1>. QED
  BY <1>1, LimiterAlways, PTL

-----------------------------------------------------------------------------
(* A key in Redis has a time to live, or the thread that created it is     *)
(* about to set one, or that EXPIRE was lost to an error or a crash.       *)
THEOREM KeysExpire == Spec => []ExpiryPending
<1>1. Init => ExpiryPending
  BY DEF Init, ExpiryPending, NoKey
<1>2. LimiterInv /\ ExpiryPending /\ [Next]_vars => ExpiryPending'
  <2> SUFFICES ASSUME LimiterInv, ExpiryPending, [Next]_vars,
                      redis'.count > 0, redis'.expires = NULL, ~lost'
               PROVE  \E h \in Threads : thread'[h].stage = "expire"
    BY DEF ExpiryPending
  <2>1. /\ TypeOK /\ NULL \notin Int
        /\ redis \in [count : 0 .. MaxCount, expires : Nat \cup {NULL}]
        /\ clock + Window \in Nat /\ Stages = {"idle", "expire", "ttl", "memory"}
    BY DEF LimiterInv, TypeOK, Stages
  <2>2. CASE UNCHANGED vars
    BY <2>2 DEF vars, ExpiryPending
  <2>3. CASE Tick
    BY <2>1, <2>3 DEF Tick, NoKey, ExpiryPending
  <2>4. CASE Restart
    BY <2>4 DEF Restart, ExpiryPending
  <2>5. ASSUME NEW h \in Threads, Hit(h)
        PROVE  \E g \in Threads : thread'[g].stage = "expire"
    <3>1. redis' # Expiring
      BY <2>1, KeyType
    <3>2. CASE RedisIncr(h) /\ redis'.count = 1
      <4>1. Enter(h, "expire")
        BY <2>1, <3>2 DEF RedisIncr, AfterIncr
      <4>. QED
        BY <2>1, <4>1, Entered
    <3>3. CASE thread[h].stage = "expire"
      <4>1. RedisExpire(h) \/ RedisExpireFails(h)
        BY <2>5, <3>3
           DEF Hit, MemoryHit, MemoryDecide, RedisIncr, RedisTtl, RedisIncrFails,
               RedisTtlFails
      <4>. QED
        BY <3>1, <4>1 DEF RedisExpire, RedisExpireFails
    <3>4. CASE thread[h].stage # "expire" /\ ~(RedisIncr(h) /\ redis'.count = 1)
      <4>1. redis.count > 0 /\ redis.expires = NULL /\ ~lost
        <5>1. CASE redis' = redis /\ (lost => lost')
          BY <5>1
        <5>2. CASE redis' = Incremented /\ (lost => lost') /\ redis'.count # 1
          BY <2>1, <5>2, KeyType
        <5>3. CASE RedisIncr(h)
          BY <3>4, <5>2, <5>3 DEF RedisIncr
        <5>4. CASE RedisIncrFails(h)
          BY <5>1, <5>2, <5>4 DEF RedisIncrFails
        <5>5. CASE MemoryHit(h) \/ MemoryDecide(h) \/ RedisTtl(h) \/ RedisTtlFails(h)
          BY <5>1, <5>5 DEF MemoryHit, MemoryDecide, RedisTtl, RedisTtlFails
        <5>. QED
          BY <2>5, <3>4, <5>3, <5>4, <5>5 DEF Hit, RedisExpire, RedisExpireFails
      <4>2. PICK g \in Threads : thread[g].stage = "expire"
        BY <4>1 DEF ExpiryPending
      <4>3. g # h /\ thread'[g] = thread[g]
        BY <2>5, <3>4, <4>2, HitType
      <4>. QED
        BY <4>2, <4>3
    <3>. QED
      BY <3>2, <3>3, <3>4
  <2>. QED
    BY <2>2, <2>3, <2>4, <2>5 DEF Next
<1>. QED
  BY <1>1, <1>2, LimiterAlways, PTL DEF Spec

-----------------------------------------------------------------------------
(* A rejection by the in-memory limiter names a time at which the event it *)
(* was computed from, at least, will have been dropped.                    *)
LEMMA RejectedWaits ==
  ASSUME LimiterInv, NEW h \in Threads, MemoryDecide(h), thread'[h].retry # NULL
  PROVE  LET now   == thread[h].now
             retry == thread'[h].retry
         IN  /\ retry \in 1 .. Window + MaxDelay
             /\ Len(Dropped(bucket', now + retry - Window)) < Limit
<1> DEFINE now == thread[h].now
           retry == thread'[h].retry
           kept == Dropped(bucket, now - Window)
<1>1. /\ now \in 0 .. MaxClock /\ now <= clock /\ clock <= now + MaxDelay
      /\ clock \in 0 .. MaxClock /\ bucket \in Seq(0 .. MaxClock)
      /\ Len(bucket) <= Limit /\ TypeOK /\ now - Window \in Int
  BY DEF MemoryDecide, LimiterInv, TimesRead, TypeOK
<1>2. /\ kept \in Seq(0 .. MaxClock)
      /\ Len(kept) > 0 => kept[1] > now - Window
  BY <1>1, DroppedTail
<1>3. /\ \A i \in 1 .. Len(bucket') : bucket'[i] <= clock
      /\ Len(bucket') <= Limit /\ bucket' \in Seq(0 .. MaxClock)
  BY DecideType
<1>4. ~Answer(h, NULL)
  BY <1>1, Answered
<1>5. Len(kept) >= Limit /\ bucket' = kept /\ Answer(h, RetryAfter(kept, now))
  BY <1>4 DEF MemoryDecide
<1> HIDE DEF kept, now, retry
<1>6. /\ Len(kept) \in Nat /\ Len(kept) > 0 /\ Len(kept) <= Limit
      /\ kept[1] \in 0 .. MaxClock /\ kept[1] > now - Window /\ kept[1] <= clock
  BY <1>2, <1>3, <1>5
<1>7. RetryAfter(kept, now) = Window - (now - kept[1])
  BY <1>1, <1>6 DEF RetryAfter, Max2
<1>8. retry = Window - (now - kept[1])
  <2>1. Window - (now - kept[1]) \in Nat
    BY <1>1, <1>6
  <2>. QED
    BY <1>1, <1>5, <1>7, <2>1, Answered DEF retry
<1> DEFINE head == kept[1]
<1>a. /\ head \in Int /\ now \in Int /\ clock \in Int /\ Window \in Int /\ MaxDelay \in Int
      /\ head > now - Window /\ head <= clock /\ clock <= now + MaxDelay
      /\ retry = Window - (now - head)
  BY <1>1, <1>6, <1>8, LimiterAssumption
<1> HIDE DEF head
<1>9. retry \in 1 .. Window + MaxDelay
  <2>1. retry \in Int /\ 1 <= retry /\ retry <= Window + MaxDelay
    BY <1>a
  <2>. QED
    BY <1>a, <2>1
<1>10. now + retry - Window = kept[1]
  <2>1. now + retry - Window = head
    BY <1>a
  <2>. QED
    BY <2>1 DEF head
<1>11. Len(Dropped(kept, kept[1])) < Limit
  <2> DEFINE left == Dropped(kept, kept[1])
  <2>1. kept[1] \in Int
    BY <1>6
  <2>2. /\ left \in Seq(0 .. MaxClock)
        /\ Len(left) > 0 => left[1] > kept[1]
        /\ \E n \in 0 .. Len(kept) :
             /\ Len(left) = Len(kept) - n
             /\ \A i \in 1 .. Len(left) : left[i] = kept[n + i]
    BY <1>2, <2>1, DroppedTail
  <2> HIDE DEF left
  <2>3. PICK n \in 0 .. Len(kept) : /\ Len(left) = Len(kept) - n
                                   /\ \A i \in 1 .. Len(left) : left[i] = kept[n + i]
    BY <2>2
  <2>4. n # 0
    BY <1>6, <2>2, <2>3
  <2>. QED
    BY <1>6, <2>3, <2>4 DEF left
<1>. QED
  BY <1>5, <1>9, <1>10, <1>11 DEF now, retry

(* Of all steps, two reject a client.                                      *)
LEMMA WhoRejects ==
  ASSUME LimiterInv, [Next]_vars, NEW h \in Threads,
         thread'[h].retry # NULL, thread'[h] # thread[h]
  PROVE  MemoryDecide(h) \/ RedisTtl(h)
<1>1. TypeOK /\ Stages = {"idle", "expire", "ttl", "memory"} /\ NULL \in Nat \cup {NULL}
  BY DEF LimiterInv, Stages
<1>2. ASSUME NEW g \in Threads, Hit(g) PROVE g = h
  BY <1>2, HitType
<1>3. ASSUME NEW stage \in Stages PROVE ~Enter(h, stage)
  BY <1>1, <1>3, Entered
<1>4. ~Answer(h, NULL)
  BY <1>1, Answered
<1>5. ~(MemoryHit(h) \/ RedisExpire(h) \/ RedisIncrFails(h) \/ RedisExpireFails(h)
        \/ RedisTtlFails(h))
  BY <1>1, <1>3, <1>4
     DEF MemoryHit, RedisExpire, RedisIncrFails, RedisExpireFails, RedisTtlFails
<1>6. ~RedisIncr(h)
  BY <1>1, <1>3, <1>4 DEF RedisIncr, AfterIncr
<1>7. ~(UNCHANGED vars \/ Tick \/ Restart)
  BY DEF vars, Tick, Restart, Idle
<1>. QED
  BY <1>2, <1>5, <1>6, <1>7 DEF Next, Hit

(* A rejected client is told to wait between a second and a window plus    *)
(* the delay, and if nobody else hits the key, it is admitted then.        *)
THEOREM RetrySuffices == Spec => RetryAfterRight
<1>1. ASSUME LimiterInv, [Next]_vars, NEW h \in Threads,
             thread'[h].retry # NULL, thread'[h] # thread[h]
      PROVE  /\ thread'[h].retry \in 1 .. Window + MaxDelay
             /\ thread[h].stage = "memory" =>
                  Len(Dropped(bucket', thread[h].now + thread'[h].retry - Window)) < Limit
  <2>1. CASE MemoryDecide(h)
    BY <1>1, <2>1, RejectedWaits
  <2>2. CASE RedisTtl(h)
    <3> DEFINE retry == IF redis.expires = NULL THEN 1 ELSE Max2(1, redis.expires - clock)
    <3>1. /\ TypeOK /\ redis.expires \in Nat \cup {NULL} /\ clock \in Nat
          /\ redis.expires # NULL => redis.expires <= clock + Window
      BY <1>1 DEF LimiterInv, TypeOK, ExpiresInTime
    <3>2. retry \in 1 .. Window /\ retry \in Nat
      BY <3>1 DEF Max2
    <3>3. Answer(h, retry) /\ thread[h].stage = "ttl"
      BY <2>2 DEF RedisTtl
    <3> HIDE DEF retry
    <3>4. thread'[h].retry = retry
      BY <3>1, <3>2, <3>3, Answered
    <3>. QED
      BY <3>2, <3>3, <3>4
  <2>. QED
    BY <1>1, <2>1, <2>2, WhoRejects
<1>2. LimiterInv /\ [Next]_vars =>
        [\A h \in Threads :
           LET now   == thread[h].now
               retry == thread'[h].retry
           IN  retry # NULL /\ thread'[h] # thread[h] =>
                 /\ retry \in 1 .. Window + MaxDelay
                 /\ thread[h].stage = "memory" =>
                      Len(Dropped(bucket', now + retry - Window)) < Limit]_vars
  BY <1>1
<1>. QED
  BY <1>2, LimiterAlways, PTL DEF Spec, RetryAfterRight

-----------------------------------------------------------------------------
(* The hits that are counted: those of a window, and those among the first *)
(* p that are younger than t.                                              *)
Hits(a, end, length) == {i \in DOMAIN a : a[i] \in end - length + 1 .. end}

Recent(a, p, t) == {i \in 1 .. p : a[i] > t}

(* They are finitely many.                                                 *)
LEMMA Counted ==
  ASSUME NEW a \in Seq(Nat), NEW p \in Nat
  PROVE  /\ \A end, length : /\ IsFiniteSet(Hits(a, end, length))
                            /\ Cardinality(Hits(a, end, length)) \in Nat
         /\ \A t : /\ IsFiniteSet(Recent(a, p, t))
                  /\ Cardinality(Recent(a, p, t)) \in Nat
<1>1. ASSUME NEW end, NEW length PROVE IsFiniteSet(Hits(a, end, length))
  <2>1. Hits(a, end, length) \subseteq 1 .. Len(a) /\ Len(a) \in Nat
    BY DEF Hits
  <2>2. IsFiniteSet(1 .. Len(a))
    BY <2>1, FS_Interval
  <2>. QED
    BY <2>1, <2>2, FS_Subset
<1>2. ASSUME NEW t PROVE IsFiniteSet(Recent(a, p, t))
  <2>1. Recent(a, p, t) \subseteq 1 .. p
    BY DEF Recent
  <2>2. IsFiniteSet(1 .. p)
    BY FS_Interval
  <2>. QED
    BY <2>1, <2>2, FS_Subset
<1>. QED
  BY <1>1, <1>2, FS_CardinalityType

(* Two parts that may overlap are no larger than their bounds together.    *)
LEMMA Overlap ==
  ASSUME NEW first \in Nat, NEW second \in Nat, NEW both \in Nat, NEW some \in Nat,
         NEW whole \in Int, NEW m \in Nat, NEW n \in Nat,
         whole = first + second - both, some <= whole, first <= m, second <= n
  PROVE  some <= m + n
OBVIOUS

(* One more hit keeps the count of every window within M + N, if at most M *)
(* of the first p hits are in a window that ends with it, and it is one of *)
(* at most N others.                                                       *)
LEMMA OneMoreHit ==
  ASSUME NEW a \in Seq(Nat), NEW now \in Nat, NEW p \in 0 .. Len(a), NEW length \in Int,
         NEW M \in Nat, NEW N \in Nat, NEW end \in Nat,
         Cardinality(Recent(a, p, now - length)) <= M,
         Len(a) + 1 - p <= N,
         Cardinality(Hits(a, end, length)) <= M + N
  PROVE  Cardinality(Hits(Append(a, now), end, length)) <= M + N
<1> DEFINE b == Append(a, now)
           R == Recent(a, p, now - length)
           I == p + 1 .. Len(a) + 1
<1>1. /\ Len(a) \in Nat /\ b \in Seq(Nat) /\ Len(b) = Len(a) + 1
      /\ \A i \in 1 .. Len(a) : b[i] = a[i]
      /\ b[Len(a) + 1] = now
      /\ DOMAIN a = 1 .. Len(a) /\ DOMAIN b = 1 .. Len(a) + 1
  OBVIOUS
<1> HIDE DEF b
<1>2. CASE now \notin end - length + 1 .. end
  <2>1. Hits(b, end, length) = Hits(a, end, length)
    <3> DEFINE E == end - length + 1 .. end
    <3>1. \A i \in 1 .. Len(a) + 1 : i \in 1 .. Len(a) \/ i = Len(a) + 1
      BY <1>1
    <3>2. \A i \in 1 .. Len(a) : i \in 1 .. Len(a) + 1
      BY <1>1
    <3>3. b[Len(a) + 1] \notin E
      BY <1>1, <1>2
    <3>4. Hits(b, end, length) = {i \in 1 .. Len(a) + 1 : b[i] \in E}
          /\ Hits(a, end, length) = {i \in 1 .. Len(a) : a[i] \in E}
      BY <1>1 DEF Hits
    <3> DEFINE D == 1 .. Len(a)
               D2 == 1 .. Len(a) + 1
    <3>5. /\ \A i \in D2 : i \in D \/ b[i] \notin E
          /\ \A i \in D : i \in D2 /\ b[i] = a[i]
      BY <1>1, <3>1, <3>2, <3>3
    <3> HIDE DEF D, D2, E
    <3>6. {i \in D2 : b[i] \in E} = {i \in D : a[i] \in E}
      BY <3>5
    <3>. QED
      BY <3>4, <3>6 DEF D, D2
  <2>. QED
    BY <2>1 DEF b
<1>3. CASE now \in end - length + 1 .. end
  <2>1. Hits(b, end, length) \subseteq R \cup I
    <3> SUFFICES ASSUME NEW i \in 1 .. Len(a) + 1, b[i] \in end - length + 1 .. end,
                        i \notin I
                 PROVE  i \in R
      BY <1>1 DEF Hits
    <3>1. i \in 1 .. p /\ i \in 1 .. Len(a)
      <4>1. Len(a) \in Nat /\ p \in 0 .. Len(a) /\ i \in 1 .. Len(a) + 1
        BY <1>1
      <4>2. ~(i \in p + 1 .. Len(a) + 1)
        OBVIOUS
      <4>. QED
        BY <4>1, <4>2
    <3>2. b[i] = a[i] /\ a[i] \in Nat
      BY <1>1, <3>1
    <3>3. a[i] > now - length
      BY <1>3, <3>2
    <3>. QED
      BY <3>1, <3>3 DEF Recent
  <2>2. /\ IsFiniteSet(I) /\ Cardinality(I) = Len(a) + 1 - p
    <3>1. p + 1 \in Int /\ Len(a) + 1 \in Int /\ ~(p + 1 > Len(a) + 1)
          /\ (Len(a) + 1) - (p + 1) + 1 = Len(a) + 1 - p
      BY <1>1
    <3>. QED
      BY <3>1, FS_Interval
  <2>3. IsFiniteSet(R) /\ Cardinality(R) \in Nat
    BY Counted
  <2> HIDE DEF R, I
  <2>4. /\ IsFiniteSet(R \cup I)
        /\ Cardinality(R \cup I) = Cardinality(R) + Cardinality(I) - Cardinality(R \cap I)
    BY <2>2, <2>3, FS_Union
  <2>5. Cardinality(R \cap I) \in Nat /\ Cardinality(R \cup I) \in Nat
    BY <2>3, <2>4, FS_Intersection, FS_CardinalityType
  <2>6. Cardinality(Hits(b, end, length)) <= Cardinality(R \cup I)
    BY <2>1, <2>4, FS_Subset
  <2>7. Cardinality(Hits(b, end, length)) \in Nat
    BY <1>1, Counted
  <2>8. Cardinality(R) <= M /\ Cardinality(I) <= N /\ Cardinality(I) \in Nat
    BY <2>2, FS_CardinalityType DEF R
  <2> DEFINE r == Cardinality(R)
             later == Cardinality(I)
             both == Cardinality(R \cap I)
             all == Cardinality(R \cup I)
             hits == Cardinality(Hits(b, end, length))
  <2>9. /\ r \in Nat /\ both \in Nat /\ all \in Nat /\ hits \in Nat
        /\ all = r + later - both /\ hits <= all
        /\ r <= M /\ later <= N /\ later \in Nat
    BY <2>3, <2>4, <2>5, <2>6, <2>7, <2>8
  <2> HIDE DEF r, later, both, all, hits
  <2>10. hits <= M + N
    BY <2>9, Overlap
  <2>. QED
    BY <2>10 DEF b, hits
<1>. QED
  BY <1>2, <1>3

-----------------------------------------------------------------------------
(* The bucket holds the times that the last hits admitted had read, and    *)
(* the hits before them are older than a window less the delay.            *)
MemoryInv ==
  LET a == admitted["memory"]
  IN  \E p \in 0 .. Len(a) :
        /\ Len(bucket) = Len(a) - p
        /\ \A i \in 1 .. Len(bucket) : a[p + i] <= bucket[i] + MaxDelay
        /\ \A i \in 1 .. p : a[i] <= clock - (Window - MaxDelay)

(* A decision keeps this, and no window gets too many hits.                *)
LEMMA MemoryDecided ==
  ASSUME LimiterInv, MemoryInv, MemoryWindowBound, NEW h \in Threads, MemoryDecide(h)
  PROVE  MemoryInv' /\ MemoryWindowBound'
<1> DEFINE now == thread[h].now
           kept == Dropped(bucket, now - Window)
           a == admitted["memory"]
           a2 == admitted'["memory"]
           length == Window - MaxDelay
<1>1. /\ now \in 0 .. MaxClock /\ now <= clock /\ clock <= now + MaxDelay
      /\ clock \in 0 .. MaxClock /\ bucket \in Seq(0 .. MaxClock)
      /\ Len(bucket) <= Limit /\ TypeOK /\ now - Window \in Int
      /\ a \in Seq(0 .. MaxClock) /\ "memory" \in Backends
  BY DEF MemoryDecide, LimiterInv, TimesRead, TypeOK, Backends
<1>2. PICK p \in 0 .. Len(a) :
        /\ Len(bucket) = Len(a) - p
        /\ \A i \in 1 .. Len(bucket) : a[p + i] <= bucket[i] + MaxDelay
        /\ \A i \in 1 .. p : a[i] <= clock - length
  BY DEF MemoryInv
<1>3. kept \in Seq(0 .. MaxClock)
  BY <1>1, DroppedTail
<1>4. PICK n \in 0 .. Len(bucket) :
        /\ Len(kept) = Len(bucket) - n
        /\ \A i \in 1 .. Len(kept) : kept[i] = bucket[n + i]
        /\ \A i \in 1 .. n : bucket[i] <= now - Window
  BY <1>1, DroppedTail
<1>5. \/ /\ bucket' = kept /\ a2 = a
      \/ /\ ~(Len(kept) >= Limit) /\ bucket' = Append(kept, now) /\ a2 = Append(a, clock)
  BY <1>1, Admitted DEF MemoryDecide
<1>6. clock' = clock
  BY DEF MemoryDecide
<1> HIDE DEF now, kept, a, a2
<1>7. /\ Len(a) \in Nat /\ Len(bucket) \in Nat /\ Len(kept) \in Nat /\ length \in Int
      /\ p + n \in 0 .. Len(a) /\ Len(kept) = Len(a) - (p + n)
  BY <1>1, <1>2, <1>3, <1>4
<1>8. ASSUME NEW i \in 1 .. Len(kept) PROVE a[p + n + i] <= kept[i] + MaxDelay
  <2>1. n + i \in 1 .. Len(bucket) /\ kept[i] = bucket[n + i]
    BY <1>4, <1>7
  <2>2. a[p + (n + i)] <= bucket[n + i] + MaxDelay
    BY <1>2, <2>1
  <2>3. p + (n + i) = p + n + i
    OBVIOUS
  <2>. QED
    BY <2>1, <2>2, <2>3
<1>9. ASSUME NEW i \in 1 .. p + n PROVE a[i] <= clock - length
  <2>1. CASE i \in 1 .. p
    BY <1>2, <2>1
  <2>2. CASE i \notin 1 .. p
    <3>1. i - p \in 1 .. n /\ i - p \in 1 .. Len(bucket) /\ p + (i - p) = i
          /\ i \in 1 .. Len(a)
      <4>1. p \in Nat /\ n \in Nat /\ i \in Nat /\ p < i /\ i <= p + n
            /\ p + n <= Len(a) /\ n <= Len(bucket) /\ Len(a) \in Nat /\ Len(bucket) \in Nat
        BY <1>7, <2>2
      <4>. QED
        BY <4>1
    <3>2. bucket[i - p] <= now - Window /\ a[i] <= bucket[i - p] + MaxDelay
      BY <1>2, <1>4, <3>1
    <3>3. bucket[i - p] \in Int /\ a[i] \in Int
      <4>1. ASSUME NEW q \in Seq(0 .. MaxClock), NEW j \in 1 .. Len(q) PROVE q[j] \in Int
        OBVIOUS
      <4>. QED
        BY <1>1, <3>1, <4>1
    <3>4. /\ now \in Int /\ clock \in Int /\ now <= clock
          /\ Window \in Int /\ MaxDelay \in Int
      BY <1>1, LimiterAssumption
    <3> DEFINE event == bucket[i - p]
               hit == a[i]
    <3>5. event \in Int /\ hit \in Int /\ event <= now - Window /\ hit <= event + MaxDelay
      BY <3>2, <3>3
    <3> HIDE DEF event, hit
    <3>6. hit <= clock - (Window - MaxDelay)
      BY <3>4, <3>5
    <3>. QED
      BY <3>6 DEF hit, length
  <2>. QED
    BY <2>1, <2>2
<1>10. CASE bucket' = kept /\ a2 = a
  <2>1. MemoryInv'
    BY <1>6, <1>7, <1>8, <1>9, <1>10 DEF MemoryInv, a, a2
  <2>2. MemoryWindowBound'
    BY <1>10 DEF MemoryWindowBound, AdmittedIn, a, a2
  <2>. QED
    BY <2>1, <2>2
<1>11. CASE /\ ~(Len(kept) >= Limit) /\ bucket' = Append(kept, now)
            /\ a2 = Append(a, clock)
  <2>1. /\ Len(bucket') = Len(kept) + 1 /\ Len(a2) = Len(a) + 1
        /\ \A i \in 1 .. Len(kept) : bucket'[i] = kept[i]
        /\ bucket'[Len(kept) + 1] = now
        /\ \A i \in 1 .. Len(a) : a2[i] = a[i]
        /\ a2[Len(a) + 1] = clock
    BY <1>1, <1>3, <1>11
  <2>2. ASSUME NEW i \in 1 .. Len(kept) + 1
        PROVE  a2[p + n + i] <= bucket'[i] + MaxDelay
    <3>1. CASE i \in 1 .. Len(kept)
      <4>1. p + n + i \in 1 .. Len(a)
        BY <1>7, <3>1
      <4>. QED
        BY <1>8, <2>1, <3>1, <4>1
    <3>2. CASE i \notin 1 .. Len(kept)
      <4>1. i = Len(kept) + 1
        BY <1>7, <3>2
      <4>2. p + n \in Nat /\ p + n + i = Len(a) + 1
        BY <1>7, <4>1
      <4>. QED
        BY <1>1, <2>1, <4>1, <4>2
    <3>. QED
      BY <3>1, <3>2
  <2>3. ASSUME NEW i \in 1 .. p + n PROVE a2[i] <= clock - length
    BY <1>7, <1>9, <2>1
  <2>4. MemoryInv'
    <3>1. p + n \in 0 .. Len(a2) /\ Len(bucket') = Len(a2) - (p + n)
      BY <1>7, <2>1
    <3>. QED
      BY <1>6, <2>1, <2>2, <2>3, <3>1 DEF MemoryInv, a2
  <2>5. ASSUME NEW end \in 0 .. MaxClock PROVE Cardinality(Hits(a2, end, length)) <= Limit
    <3>1. Recent(a, p + n, clock - length) = {}
      <4>1. \A i \in 1 .. p + n : a[i] \in Nat /\ ~(a[i] > clock - length)
        <5>1. \A i \in 1 .. p + n : i \in 1 .. Len(a)
          BY <1>7
        <5>. QED
          BY <1>1, <1>9, <5>1
      <4>. QED
        BY <4>1 DEF Recent
    <3>2. Cardinality(Recent(a, p + n, clock - length)) <= 0
      BY <3>1, FS_EmptySet
    <3>3. Cardinality(Hits(a, end, length)) <= Limit
      BY DEF MemoryWindowBound, AdmittedIn, Hits, a
    <3>4. a \in Seq(Nat) /\ clock \in Nat /\ end \in Nat /\ Limit \in Nat
          /\ 0 + Limit = Limit /\ Len(a) + 1 - (p + n) <= Limit
      BY <1>1, <1>7, <1>11
    <3>5. Cardinality(Hits(Append(a, clock), end, length)) <= 0 + Limit
      BY <1>7, <3>2, <3>3, <3>4, OneMoreHit
    <3>. QED
      BY <1>11, <3>4, <3>5
  <2>6. MemoryWindowBound'
    BY <2>5 DEF MemoryWindowBound, AdmittedIn, Hits, a2
  <2>. QED
    BY <2>4, <2>6
<1>. QED
  BY <1>5, <1>10, <1>11

(* The steps that do not decide a hit in memory change neither the bucket  *)
(* nor the hits admitted in memory; with time, they only get older.        *)
LEMMA MemorySame ==
  ASSUME LimiterInv, MemoryInv, MemoryWindowBound, bucket' = bucket,
         admitted'["memory"] = admitted["memory"], clock' \in {clock, clock + 1}
  PROVE  MemoryInv' /\ MemoryWindowBound'
<1> DEFINE a == admitted["memory"]
           length == Window - MaxDelay
<1>1. clock \in Int /\ length \in Int /\ a \in Seq(0 .. MaxClock)
  BY DEF LimiterInv, TypeOK, Backends
<1>2. PICK p \in 0 .. Len(a) :
        /\ Len(bucket) = Len(a) - p
        /\ \A i \in 1 .. Len(bucket) : a[p + i] <= bucket[i] + MaxDelay
        /\ \A i \in 1 .. p : a[i] <= clock - length
  BY DEF MemoryInv
<1>3. ASSUME NEW i \in 1 .. p PROVE a[i] <= clock' - length
  <2>1. Len(a) \in Nat /\ i \in 1 .. Len(a) /\ p \in 0 .. Len(a)
    BY <1>1
  <2>2. a[i] \in Int
    BY <1>1, <2>1
  <2>3. a[i] <= clock - length
    BY <1>2
  <2> HIDE DEF a, length
  <2>. QED
    BY <1>1, <2>2, <2>3
<1>4. MemoryInv'
  BY <1>2, <1>3 DEF MemoryInv
<1>5. MemoryWindowBound'
  BY DEF MemoryWindowBound, AdmittedIn
<1>. QED
  BY <1>4, <1>5

(* The in-memory limiter admits at most limit hits in any window less the  *)
(* delay.                                                                  *)
THEOREM MemoryBounded == Spec => []MemoryWindowBound
<1>1. ASSUME NEW end, NEW length
      PROVE  Cardinality({i \in DOMAIN <<>> : <<>>[i] \in end - length + 1 .. end}) <= Limit
  <2>1. {i \in DOMAIN <<>> : <<>>[i] \in end - length + 1 .. end} = {}
    OBVIOUS
  <2>. QED
    BY <2>1, FS_EmptySet
<1>2. Len(<<>>) = 0 /\ 0 \in 0 .. 0 /\ 0 - 0 = 0
  OBVIOUS
<1>3. Init => MemoryInv /\ MemoryWindowBound
  <2> SUFFICES ASSUME Init PROVE MemoryInv /\ MemoryWindowBound
    OBVIOUS
  <2>1. bucket = <<>> /\ admitted["memory"] = <<>>
    BY DEF Init, Backends
  <2>. QED
    BY <1>1, <1>2, <2>1 DEF MemoryInv, MemoryWindowBound, AdmittedIn
<1>4. LimiterInv /\ MemoryInv /\ MemoryWindowBound /\ [Next]_vars
        => MemoryInv' /\ MemoryWindowBound'
  <2> SUFFICES ASSUME LimiterInv, MemoryInv, MemoryWindowBound, [Next]_vars
               PROVE  MemoryInv' /\ MemoryWindowBound'
    OBVIOUS
  <2>1. CASE Restart
    <3>1. bucket' = <<>> /\ admitted'["memory"] = <<>>
      BY <2>1 DEF Restart, LimiterInv, TypeOK, Backends
    <3>. QED
      BY <1>1, <1>2, <3>1 DEF MemoryInv, MemoryWindowBound, AdmittedIn
  <2>2. CASE UNCHANGED vars \/ Tick
    BY <2>2, MemorySame DEF vars, Tick
  <2>3. ASSUME NEW h \in Threads, Hit(h), ~MemoryDecide(h)
        PROVE  MemoryInv' /\ MemoryWindowBound'
    <3>1. bucket' = bucket /\ clock' = clock
      BY <2>3, HitType DEF Hit, MemoryHit, RedisIncr, RedisExpire, RedisTtl,
                           RedisIncrFails, RedisExpireFails, RedisTtlFails
    <3>2. UNCHANGED admitted \/ Admit("redis")
      BY <2>3 DEF Hit, MemoryHit, RedisIncr, AfterIncr, RedisExpire, RedisTtl,
                  RedisIncrFails, RedisExpireFails, RedisTtlFails
    <3>3. admitted'["memory"] = admitted["memory"]
      BY <3>2, Admitted DEF LimiterInv, Backends
    <3>. QED
      BY <3>1, <3>3, MemorySame
  <2>. QED
    BY <2>1, <2>2, <2>3, MemoryDecided DEF Next
<1>. QED
  BY <1>3, <1>4, LimiterAlways, PTL DEF Spec

-----------------------------------------------------------------------------
(* A thread that is about to set the time to live is alone with it, and    *)
(* owes the hit it was counted for; only a key has a time to live.         *)
Owing(h) == thread[h].stage = "expire"

Owed == IF \E h \in Threads : Owing(h) THEN 1 ELSE 0

KeyInv ==
  /\ redis.count = 0 => redis.expires = NULL
  /\ \A h \in Threads : Owing(h) =>
       /\ redis.count > 0 /\ redis.expires = NULL
       /\ \A g \in Threads : Owing(g) => g = h

Past(a, now) == \A i \in 1 .. Len(a) : a[i] <= now

AtMostTwice(a) ==
  \A end \in 0 .. MaxClock : Cardinality(Hits(a, end, Window)) <= 2 * Limit

AdmittedPast == Past(admitted["redis"], clock)

(* The hits in a, split at p: those after p were counted by the key there  *)
(* is; those up to p by earlier keys, which were gone a window before this *)
(* key goes, and no more than limit of them are of the last window.        *)
Parted(a, p, key, owed, now) ==
  /\ p \in 0 .. Len(a)
  /\ Len(a) - p + owed <= key.count /\ Len(a) - p + owed <= Limit
  /\ key.expires # NULL => \A i \in 1 .. p : a[i] + Window <= key.expires
  /\ Cardinality(Recent(a, p, now - Window)) <= Limit

RedisInv == \E p \in Nat : Parted(admitted["redis"], p, redis, Owed, clock)

(* What each step of a thread does to the key, to the hits admitted and to *)
(* the debt.                                                               *)
LEMMA KeyMoves ==
  ASSUME LimiterInv, KeyInv, NEW h \in Threads, Hit(h)
  PROVE  LET a == admitted["redis"]
             c == redis.count
         IN  /\ KeyInv'
             /\ redis'.expires \in {redis.expires, clock + Window}
             /\ \/ /\ redis'.count \in {c, c + 1} /\ Owed' <= Owed
                   /\ admitted'["redis"] = a
                \/ /\ c = 0 /\ redis'.count = 1 /\ Owed' = 1
                   /\ admitted'["redis"] = a
                \/ /\ redis'.count = c + 1 /\ c + 1 <= Limit /\ Owed' = Owed
                   /\ admitted'["redis"] = Append(a, clock)
                \/ /\ redis'.count = c /\ Owed = 1 /\ Owed' = 0
                   /\ admitted'["redis"] = Append(a, clock)
<1> DEFINE a == admitted["redis"]
           c == redis.count
<1>1. /\ TypeOK /\ c \in Nat /\ NULL \notin Int /\ NULL \in Nat \cup {NULL}
      /\ clock + Window \in Nat
      /\ Backends = {"redis", "memory"} /\ Stages = {"idle", "expire", "ttl", "memory"}
      /\ redis \in [count : 0 .. MaxCount, expires : Nat \cup {NULL}]
      /\ Owed \in {0, 1} /\ Owed' \in {0, 1}
  BY DEF LimiterInv, TypeOK, Backends, Stages, Owed
<1>2. \A g \in Threads : g # h => (Owing(g)' <=> Owing(g))
  BY HitType DEF Owing
<1>3. redis'.expires \in {redis.expires, clock + Window}
  BY HitType
<1>4. ASSUME ~Owing(h), ~Owing(h)' PROVE Owed' = Owed
  BY <1>2, <1>4 DEF Owed
<1>5. ASSUME Owing(h), ~Owing(h)' PROVE Owed = 1 /\ Owed' = 0
  BY <1>2, <1>5 DEF Owed, KeyInv
<1>6. ASSUME ~Owing(h)', redis'.expires = redis.expires, redis'.count \in {c, c + 1},
             redis'.count # c => redis'.count > 1 \/ redis.expires = NULL
      PROVE  KeyInv'
  BY <1>1, <1>2, <1>6 DEF KeyInv
<1>7. ASSUME Owing(h), ~Owing(h)', redis' \in {redis, Expiring}
      PROVE  KeyInv' /\ redis'.count = c
  <2>1. redis'.count = c /\ c > 0
    BY <1>1, <1>7, KeyType DEF KeyInv
  <2>2. \A g \in Threads : ~Owing(g)'
    BY <1>2, <1>7 DEF KeyInv
  <2>. QED
    BY <2>1, <2>2 DEF KeyInv
<1>8. CASE MemoryHit(h) \/ MemoryDecide(h) \/ RedisTtl(h) \/ RedisTtlFails(h)
  <2>1. redis' = redis /\ ~Owing(h)
    BY <1>8 DEF MemoryHit, MemoryDecide, RedisTtl, RedisTtlFails, Owing
  <2>2. thread'[h].stage \in {"idle", "memory"}
    <3>1. CASE MemoryDecide(h)
      BY <1>1, <3>1, DecideType, Answered
    <3>2. CASE RedisTtl(h)
      <4>1. (IF redis.expires = NULL THEN 1 ELSE Max2(1, redis.expires - clock))
              \in Nat \cup {NULL}
        BY <1>1 DEF Max2, TypeOK
      <4>. QED
        BY <1>1, <3>2, <4>1, Answered DEF RedisTtl
    <3>3. CASE MemoryHit(h) \/ RedisTtlFails(h)
      BY <1>1, <3>3, Entered DEF MemoryHit, RedisTtlFails
    <3>. QED
      BY <1>8, <3>1, <3>2, <3>3
  <2>3. admitted'["redis"] = a
    BY <1>1, <1>8, Admitted DEF MemoryHit, MemoryDecide, RedisTtl, RedisTtlFails
  <2>4. ~Owing(h)'
    BY <2>2 DEF Owing
  <2>. QED
    BY <1>1, <1>3, <1>4, <1>6, <2>1, <2>3, <2>4
<1>9. CASE RedisIncr(h)
  <2>1. redis'.count = c + 1 /\ redis'.expires = redis.expires
    BY <1>1, <1>9, KeyType DEF RedisIncr
  <2>2. ~Owing(h)
    BY <1>9 DEF RedisIncr, Owing
  <2>3. CASE c = 0
    <3>1. Enter(h, "expire") /\ admitted'["redis"] = a
      BY <1>1, <1>9, <2>1, <2>3 DEF RedisIncr, AfterIncr
    <3>2. Owing(h)' /\ \A g \in Threads : g # h => ~Owing(g)'
      BY <1>1, <1>2, <2>3, <3>1, Entered DEF Owing, KeyInv
    <3>3. Owed' = 1
      BY <3>2 DEF Owed
    <3>4. KeyInv'
      BY <1>1, <2>1, <2>3, <3>2 DEF KeyInv
    <3>. QED
      BY <1>3, <2>1, <2>3, <3>1, <3>3, <3>4
  <2>4. CASE c # 0
    <3>1. \/ /\ c + 1 <= Limit /\ Answer(h, NULL) /\ Admit("redis")
          \/ /\ Enter(h, "ttl") /\ admitted'["redis"] = a
      BY <1>1, <1>9, <2>1, <2>4 DEF RedisIncr, AfterIncr
    <3>2. ~Owing(h)'
      BY <1>1, <3>1, Answered, Entered DEF Owing
    <3>3. KeyInv' /\ Owed' = Owed
      BY <1>1, <1>4, <1>6, <2>1, <2>2, <2>4, <3>2
    <3>4. Admit("redis") => admitted'["redis"] = Append(a, clock)
      BY <1>1, Admitted
    <3>. QED
      BY <1>1, <1>3, <2>1, <3>1, <3>3, <3>4
  <2>. QED
    BY <2>3, <2>4
<1>10. CASE RedisIncrFails(h)
  <2>1. redis'.expires = redis.expires /\ redis'.count \in {c, c + 1}
    BY <1>1, <1>10, KeyType DEF RedisIncrFails
  <2>2. ~Owing(h) /\ ~Owing(h)' /\ admitted'["redis"] = a
    BY <1>1, <1>10, Entered DEF RedisIncrFails, Owing
  <2>3. KeyInv'
    BY <1>1, <1>6, <2>1, <2>2 DEF KeyInv
  <2>. QED
    BY <1>1, <1>3, <1>4, <2>1, <2>2, <2>3
<1>11. CASE RedisExpire(h)
  <2>1. Owing(h) /\ ~Owing(h)' /\ redis' = Expiring
    BY <1>1, <1>11, Answered DEF RedisExpire, Owing
  <2>2. admitted'["redis"] = Append(a, clock)
    BY <1>1, <1>11, Admitted DEF RedisExpire
  <2>. QED
    BY <1>3, <1>5, <1>7, <2>1, <2>2
<1>12. CASE RedisExpireFails(h)
  <2>1. Owing(h) /\ ~Owing(h)' /\ redis' \in {redis, Expiring} /\ admitted'["redis"] = a
    BY <1>1, <1>12, Entered DEF RedisExpireFails, Owing
  <2>. QED
    BY <1>3, <1>5, <1>7, <2>1
<1>. QED
  BY <1>8, <1>9, <1>10, <1>11, <1>12 DEF Hit

(* What Append does.                                                       *)
LEMMA Appended ==
  ASSUME NEW a \in Seq(Nat), NEW now \in Nat
  PROVE  LET b == Append(a, now)
         IN  /\ Len(a) \in Nat /\ Len(b) \in Nat /\ Len(b) = Len(a) + 1 /\ b # a
             /\ \A i \in 1 .. Len(a) : b[i] = a[i] /\ a[i] \in Nat
             /\ b[Len(a) + 1] = now
OBVIOUS

(* A step of a thread keeps the split, and with it the bound: at most limit *)
(* hits on each side of it.                                                *)
LEMMA PartedHit ==
  ASSUME NEW a, NEW a2, NEW now, NEW p, NEW key, NEW key2, NEW owed, NEW owed2,
         a \in Seq(Nat), a2 \in Seq(Nat), now \in Nat, p \in Nat,
         owed \in {0, 1}, owed2 \in {0, 1},
         key.count \in Nat, key2.count \in Nat, key.expires \in Nat \cup {NULL},
         Parted(a, p, key, owed, now),
         Past(a, now), AtMostTwice(a),
         key2.expires \in {key.expires, now + Window},
         a2 \in {a, Append(a, now)},
         Len(a2) - p + owed2 <= key2.count, Len(a2) - p + owed2 <= Limit
  PROVE  /\ Parted(a2, p, key2, owed2, now)
         /\ Past(a2, now) /\ AtMostTwice(a2)
<1>0. Past(a2, now)
  <2>1. CASE a2 = a
    BY <2>1
  <2>2. CASE a2 = Append(a, now)
    <3>1. Len(a2) = Len(a) + 1 /\ Len(a) \in Nat /\ now <= now /\ a2[Len(a) + 1] = now
          /\ \A i \in 1 .. Len(a) : a2[i] = a[i]
      BY <2>2, Appended
    <3>2. ASSUME NEW i \in 1 .. Len(a) + 1 PROVE a2[i] <= now
      <4>1. CASE i \in 1 .. Len(a)
        <5>1. a2[i] = a[i] /\ a[i] <= now
          BY <3>1, <4>1 DEF Past
        <5>. QED
          BY <5>1
      <4>2. CASE i = Len(a) + 1
        BY <3>1, <4>2
      <4>. QED
        BY <3>1, <4>1, <4>2
    <3>. QED
      BY <3>1, <3>2 DEF Past
  <2>. QED
    BY <2>1, <2>2
<1>1. /\ Len(a) \in Nat /\ Len(a2) \in Nat /\ p \in 0 .. Len(a) /\ Len(a) <= Len(a2)
      /\ \A i \in 1 .. Len(a) : a2[i] = a[i] /\ a[i] \in Nat
      /\ a2 # a => Len(a2) = Len(a) + 1
  <2>1. Len(a) \in Nat /\ p \in 0 .. Len(a)
    BY DEF Parted
  <2>2. CASE a2 = a
    <3>1. \A i \in 1 .. Len(a) : a[i] \in Nat
      BY Appended
    <3>2. Len(a2) = Len(a) /\ Len(a) <= Len(a2) /\ \A i \in 1 .. Len(a) : a2[i] = a[i]
      BY <2>1, <2>2
    <3>. QED
      BY <2>1, <2>2, <3>1, <3>2
  <2>3. CASE a2 = Append(a, now)
    <3>1. Len(a2) = Len(a) + 1 /\ \A i \in 1 .. Len(a) : a2[i] = a[i] /\ a[i] \in Nat
      BY <2>3, Appended
    <3>2. Len(a2) \in Nat /\ Len(a) <= Len(a2)
      BY <2>1, <3>1
    <3>. QED
      BY <2>1, <3>1, <3>2
  <2>. QED
    BY <2>2, <2>3
<1>2. p \in 0 .. Len(a2)
  BY <1>1
<1>3. \A i \in 1 .. p : i \in 1 .. Len(a) /\ a2[i] = a[i] /\ a[i] \in Nat
  <2>1. Len(a) \in Nat /\ p \in 0 .. Len(a)
    BY <1>1
  <2>2. \A i \in 1 .. p : i \in 1 .. Len(a)
    BY <2>1
  <2>. QED
    BY <1>1, <2>2
<1>4. ASSUME key2.expires # NULL, NEW i \in 1 .. p PROVE a2[i] + Window <= key2.expires
  <2>1. CASE key2.expires = key.expires
    BY <1>3, <1>4, <2>1 DEF Parted
  <2>2. CASE key2.expires = now + Window
    <3>1. i \in 1 .. Len(a) /\ a2[i] = a[i] /\ a[i] \in Nat
      BY <1>3
    <3>2. a[i] <= now
      BY <3>1 DEF Past
    <3>. QED
      BY <2>2, <3>1, <3>2
  <2>. QED
    BY <2>1, <2>2
<1>5. Recent(a2, p, now - Window) = Recent(a, p, now - Window)
  BY <1>3 DEF Recent
<1>6. Cardinality(Recent(a2, p, now - Window)) <= Limit
  BY <1>5 DEF Parted
<1>7. ASSUME NEW end \in 0 .. MaxClock PROVE Cardinality(Hits(a2, end, Window)) <= 2 * Limit
  <2>1. CASE a2 = a
    BY <2>1 DEF AtMostTwice
  <2>2. CASE a2 # a
    <3>1. a2 = Append(a, now) /\ Len(a) + 1 - p <= Limit
      <4>1. Len(a2) = Len(a) + 1 /\ a2 = Append(a, now)
        BY <1>1, <2>2
      <4>2. Len(a2) - p + owed2 <= Limit /\ Len(a2) \in Nat /\ 0 <= owed2 /\ owed2 \in Nat
        BY <1>1
      <4>3. Len(a2) - p <= Limit
        BY <4>2
      <4>. QED
        BY <4>1, <4>3
    <3>2. /\ Limit \in Nat /\ Window \in Int /\ end \in Nat /\ p \in 0 .. Len(a)
          /\ 2 * Limit = Limit + Limit
      BY <1>1
    <3>3. Cardinality(Hits(a, end, Window)) <= Limit + Limit
      BY <3>2 DEF AtMostTwice
    <3>4. Cardinality(Recent(a, p, now - Window)) <= Limit
      BY DEF Parted
    <3>5. Cardinality(Hits(Append(a, now), end, Window)) <= Limit + Limit
      BY <3>1, <3>2, <3>3, <3>4, OneMoreHit
    <3>. QED
      BY <3>1, <3>2, <3>5
  <2>. QED
    BY <2>1, <2>2
<1>8. AtMostTwice(a2)
  BY <1>7 DEF AtMostTwice
<1>. QED
  BY <1>0, <1>2, <1>4, <1>6, <1>8 DEF Parted

(* As time passes hits leave the window; when the key expires, the hits it *)
(* counted join the earlier ones, which are then out of the window.        *)
LEMMA PartedTick ==
  ASSUME NEW a \in Seq(Nat), NEW now \in Nat, NEW p \in Nat, NEW owed \in {0, 1},
         NEW key, key.count \in Nat, key.expires \in Nat \cup {NULL},
         Parted(a, p, key, owed, now)
  PROVE  /\ Parted(a, p, key, owed, now + 1)
         /\ key.expires = now + 1 /\ owed = 0 => Parted(a, Len(a), NoKey, 0, now + 1)
<1>1. /\ Len(a) \in Nat /\ p \in 0 .. Len(a)
      /\ \A i \in 1 .. Len(a) : a[i] \in Nat
      /\ \A i \in 1 .. p : i \in 1 .. Len(a)
  BY DEF Parted
<1>2. Cardinality(Recent(a, p, (now + 1) - Window)) <= Limit
  <2>1. Recent(a, p, (now + 1) - Window) \subseteq Recent(a, p, now - Window)
    BY <1>1 DEF Recent
  <2>2. IsFiniteSet(Recent(a, p, now - Window))
    BY Counted
  <2>3. /\ Cardinality(Recent(a, p, (now + 1) - Window)) \in Nat
        /\ Cardinality(Recent(a, p, now - Window)) \in Nat
    BY Counted
  <2>4. Cardinality(Recent(a, p, now - Window)) <= Limit
    BY DEF Parted
  <2>. QED
    BY <2>1, <2>2, <2>3, <2>4, FS_Subset
<1>3. Parted(a, p, key, owed, now + 1)
  BY <1>2 DEF Parted
<1>4. ASSUME key.expires = now + 1, owed = 0 PROVE Parted(a, Len(a), NoKey, 0, now + 1)
  <2> DEFINE I == p + 1 .. Len(a)
  <2>1. \A i \in 1 .. p : a[i] + Window <= now + 1
    BY <1>4 DEF Parted
  <2>2. Recent(a, Len(a), (now + 1) - Window) \subseteq I
    <3> SUFFICES ASSUME NEW i \in 1 .. Len(a), a[i] > (now + 1) - Window
                 PROVE  i \in I
      BY DEF Recent
    <3>1. i \notin 1 .. p
      BY <1>1, <2>1
    <3>. QED
      BY <1>1, <3>1
  <2>3. IsFiniteSet(I) /\ Cardinality(I) <= Limit
    <3>1. p + 1 \in Int /\ Len(a) \in Int /\ Len(a) - p <= Limit
      BY <1>1, <1>4 DEF Parted
    <3>2. CASE p = Len(a)
      <4>1. I = {}
        BY <1>1, <3>2
      <4> HIDE DEF I
      <4>. QED
        BY <4>1, FS_EmptySet
    <3>3. CASE p # Len(a)
      <4>1. ~(p + 1 > Len(a)) /\ Len(a) - (p + 1) + 1 = Len(a) - p
        BY <1>1, <3>3
      <4>2. IsFiniteSet(I) /\ Cardinality(I) = Len(a) - p
        BY <3>1, <4>1, FS_Interval
      <4>. QED
        BY <3>1, <4>2
    <3>. QED
      BY <3>2, <3>3
  <2>4. Cardinality(Recent(a, Len(a), (now + 1) - Window)) <= Cardinality(I)
    BY <2>2, <2>3, FS_Subset
  <2>5. Cardinality(Recent(a, Len(a), (now + 1) - Window)) \in Nat /\ Cardinality(I) \in Nat
    BY <1>1, <2>3, Counted, FS_CardinalityType
  <2> HIDE DEF I
  <2>6. Cardinality(Recent(a, Len(a), (now + 1) - Window)) <= Limit
    BY <2>3, <2>4, <2>5
  <2>7. NoKey.count = 0 /\ NoKey.expires = NULL /\ Len(a) - Len(a) + 0 = 0
    BY <1>1 DEF NoKey
  <2>. QED
    BY <1>1, <2>6, <2>7 DEF Parted
<1>. QED
  BY <1>3, <1>4

RedisAll == KeyInv /\ AdmittedPast /\ RedisInv /\ RedisWindowBound

(* A step of a thread keeps all of this, ...                               *)
LEMMA RedisHit ==
  ASSUME LimiterInv, RedisAll, NEW h \in Threads, Hit(h)
  PROVE  RedisAll'
<1> DEFINE a == admitted["redis"]
           a2 == admitted'["redis"]
           c == redis.count
           c2 == redis'.count
<1>1. /\ c \in Nat /\ c2 \in Nat /\ redis.expires \in Nat \cup {NULL}
      /\ a \in Seq(Nat) /\ a2 \in Seq(Nat) /\ clock \in Nat /\ clock' = clock
      /\ Owed \in {0, 1} /\ Owed' \in {0, 1}
  <2>1. /\ TypeOK /\ clock' = clock
        /\ redis' \in [count : 0 .. MaxCount, expires : Nat \cup {NULL}]
        /\ admitted' \in [Backends -> Seq(0 .. MaxClock)]
    BY HitType DEF LimiterInv
  <2>2. /\ redis.count \in Nat /\ redis'.count \in Nat
        /\ redis.expires \in Nat \cup {NULL} /\ clock \in Nat
    BY <2>1 DEF TypeOK
  <2>3. a \in Seq(Nat) /\ a2 \in Seq(Nat)
    BY <2>1 DEF TypeOK, Backends
  <2>. QED
    BY <2>1, <2>2, <2>3 DEF Owed
<1>2. /\ KeyInv'
      /\ redis'.expires \in {redis.expires, clock + Window}
      /\ \/ c2 \in {c, c + 1} /\ Owed' <= Owed /\ a2 = a
         \/ c = 0 /\ c2 = 1 /\ Owed' = 1 /\ a2 = a
         \/ c2 = c + 1 /\ c + 1 <= Limit /\ Owed' = Owed /\ a2 = Append(a, clock)
         \/ c2 = c /\ Owed = 1 /\ Owed' = 0 /\ a2 = Append(a, clock)
  BY KeyMoves DEF RedisAll
<1>3. PICK p \in Nat : Parted(a, p, redis, Owed, clock)
  BY DEF RedisAll, RedisInv
<1>4. Past(a, clock) /\ AtMostTwice(a)
  BY DEF RedisAll, AdmittedPast, AtMostTwice, RedisWindowBound, AdmittedIn, Hits
<1> HIDE DEF a, a2, c, c2
<1>5. /\ p \in 0 .. Len(a) /\ Len(a) \in Nat
      /\ Len(a) - p + Owed <= c /\ Len(a) - p + Owed <= Limit
  BY <1>1, <1>3 DEF Parted, c
<1>6. /\ a2 \in {a, Append(a, clock)}
      /\ Len(a2) - p + Owed' <= c2 /\ Len(a2) - p + Owed' <= Limit
  <2>1. CASE c2 \in {c, c + 1} /\ Owed' <= Owed /\ a2 = a
    BY <1>1, <1>5, <2>1
  <2>2. CASE c = 0 /\ c2 = 1 /\ Owed' = 1 /\ a2 = a
    BY <1>1, <1>5, <2>2
  <2>3. ASSUME a2 = Append(a, clock) PROVE Len(a2) = Len(a) + 1
    BY <1>1, <2>3, Appended
  <2>4. CASE c2 = c + 1 /\ c + 1 <= Limit /\ Owed' = Owed /\ a2 = Append(a, clock)
    <3>1. Len(a2) = Len(a) + 1
      BY <2>3, <2>4
    <3>2. Len(a2) - p + Owed' <= c2 /\ c2 <= Limit
      BY <1>1, <1>5, <2>4, <3>1
    <3>3. Len(a2) - p + Owed' <= Limit
      BY <1>1, <1>5, <3>1, <3>2
    <3>. QED
      BY <2>4, <3>2, <3>3
  <2>5. CASE c2 = c /\ Owed = 1 /\ Owed' = 0 /\ a2 = Append(a, clock)
    <3>1. Len(a2) = Len(a) + 1
      BY <2>3, <2>5
    <3>2. Len(a2) - p + Owed' = Len(a) - p + Owed
      BY <1>1, <1>5, <2>5, <3>1
    <3>. QED
      BY <1>5, <2>5, <3>2
  <2>. QED
    BY <1>2, <2>1, <2>2, <2>4, <2>5
<1>7. /\ Parted(a2, p, redis', Owed', clock)
      /\ Past(a2, clock) /\ AtMostTwice(a2)
  <2>1. redis.count \in Nat /\ redis'.count \in Nat /\ Len(a2) - p + Owed' <= redis'.count
    BY <1>1, <1>6 DEF c, c2
  <2>2. /\ redis.expires \in Nat \cup {NULL}
        /\ redis'.expires \in {redis.expires, clock + Window}
        /\ a \in Seq(Nat) /\ a2 \in Seq(Nat) /\ clock \in Nat
        /\ Owed \in {0, 1} /\ Owed' \in {0, 1}
    BY <1>1, <1>2
  <2>3. a2 \in {a, Append(a, clock)} /\ Len(a2) - p + Owed' <= Limit
    BY <1>6
  <2>. QED
    BY <1>3, <1>4, <2>1, <2>2, <2>3, PartedHit
<1>8. AdmittedPast' /\ RedisInv' /\ RedisWindowBound'
  BY <1>1, <1>3, <1>7
     DEF a2, AdmittedPast, AtMostTwice, RedisInv, RedisWindowBound, AdmittedIn, Hits
<1>. QED
  BY <1>2, <1>8 DEF RedisAll

(* ... and so do time and a restart.                                       *)
LEMMA RedisWorld ==
  ASSUME LimiterInv, RedisAll, Tick \/ Restart
  PROVE  RedisAll'
<1> DEFINE a == admitted["redis"]
<1>1. /\ redis.count \in Nat /\ redis.expires \in Nat \cup {NULL} /\ NULL \notin Int
      /\ a \in Seq(Nat) /\ clock \in Nat /\ Owed \in {0, 1}
      /\ NoKey.count = 0 /\ NoKey.expires = NULL
  BY DEF LimiterInv, TypeOK, Owed, Backends, NoKey
<1>2. PICK p \in Nat : Parted(a, p, redis, Owed, clock)
  BY DEF RedisAll, RedisInv
<1>3. admitted'["redis"] = a
  BY DEF Tick, Restart, LimiterInv, TypeOK, Backends
<1>4. RedisWindowBound'
  BY <1>3 DEF RedisAll, RedisWindowBound, AdmittedIn
<1>5. Len(a) \in Nat /\ \A i \in 1 .. Len(a) : a[i] <= clock /\ a[i] \in Nat
  BY <1>1, Appended DEF RedisAll, AdmittedPast, Past
<1>6. CASE Tick
  <2>1. clock' = clock + 1 /\ Owed' = Owed
    BY <1>6 DEF Tick, Owed, Owing
  <2>2. AdmittedPast'
    BY <1>1, <1>3, <1>5, <2>1 DEF AdmittedPast, Past
  <2>3. /\ Parted(a, p, redis, Owed, clock + 1)
        /\ redis.expires = clock + 1 /\ Owed = 0 => Parted(a, Len(a), NoKey, 0, clock + 1)
    BY <1>1, <1>2, PartedTick
  <2>4. CASE redis.expires = clock + 1
    <3>1. redis' = NoKey
      BY <1>6, <2>1, <2>4 DEF Tick
    <3>2. \A h \in Threads : ~Owing(h) /\ ~Owing(h)'
      BY <1>1, <1>6, <2>4 DEF RedisAll, KeyInv, Owing, Tick
    <3>3. Owed = 0 /\ Owed' = 0
      BY <3>2 DEF Owed
    <3>4. KeyInv'
      BY <1>1, <3>1, <3>2 DEF KeyInv
    <3>5. RedisInv'
      BY <1>3, <1>5, <2>1, <2>3, <2>4, <3>1, <3>3 DEF RedisInv
    <3>. QED
      BY <1>4, <2>2, <3>4, <3>5 DEF RedisAll
  <2>5. CASE redis.expires # clock + 1
    <3>1. redis' = redis
      BY <1>6, <2>1, <2>5 DEF Tick
    <3>2. KeyInv'
      BY <1>6, <3>1 DEF Tick, RedisAll, KeyInv, Owing
    <3>3. RedisInv'
      BY <1>2, <1>3, <2>1, <2>3, <3>1 DEF RedisInv
    <3>. QED
      BY <1>4, <2>2, <3>2, <3>3 DEF RedisAll
  <2>. QED
    BY <2>4, <2>5
<1>7. CASE Restart
  <2>1. UNCHANGED <<clock, redis>> /\ \A h \in Threads : ~Owing(h)'
    BY <1>7 DEF Restart, Owing, Idle
  <2>2. Owed' = 0
    BY <2>1 DEF Owed
  <2>3. KeyInv' /\ AdmittedPast'
    BY <1>3, <2>1 DEF RedisAll, KeyInv, AdmittedPast
  <2>4. Parted(a, p, redis, 0, clock)
    <3>1. /\ Len(a) - p + Owed <= redis.count /\ Len(a) - p + Owed <= Limit
          /\ p \in 0 .. Len(a)
      BY <1>2 DEF Parted
    <3>2. Len(a) - p + 0 <= redis.count /\ Len(a) - p + 0 <= Limit
      BY <1>1, <1>5, <3>1
    <3>. QED
      BY <1>2, <3>2 DEF Parted
  <2>5. RedisInv'
    BY <1>2, <1>3, <2>1, <2>2, <2>4 DEF RedisInv
  <2>. QED
    BY <1>4, <2>3, <2>5 DEF RedisAll
<1>. QED
  BY <1>6, <1>7

(* Redis admits at most twice the limit in any window, although its errors *)
(* may leave a key that was counted without an EXPIRE, or an EXPIRE that   *)
(* was executed without its hit.                                           *)
THEOREM RedisBounded == Spec => []RedisWindowBound
<1>1. Init => RedisAll
  <2> SUFFICES ASSUME Init PROVE RedisAll
    OBVIOUS
  <2>1. /\ clock = 0 /\ redis.count = 0 /\ redis.expires = NULL
        /\ admitted["redis"] = <<>> /\ \A h \in Threads : ~Owing(h)
    BY DEF Init, NoKey, Idle, Owing, Backends
  <2>2. Owed = 0 /\ KeyInv
    BY <2>1 DEF Owed, KeyInv
  <2>3. Len(<<>>) = 0 /\ DOMAIN <<>> = {} /\ Cardinality({}) = 0 /\ 1 .. 0 = {}
    BY FS_EmptySet
  <2>4. AdmittedPast
    BY <2>1, <2>3 DEF AdmittedPast, Past
  <2>5. RedisInv
    <3> DEFINE t == 0 - Window
    <3>1. Recent(<<>>, 0, t) = {}
      BY <2>3 DEF Recent
    <3> HIDE DEF t
    <3>2. Parted(<<>>, 0, redis, 0, 0)
      <4>1. /\ 0 \in 0 .. Len(<<>>) /\ Len(<<>>) - 0 + 0 <= redis.count
            /\ Len(<<>>) - 0 + 0 <= Limit
        BY <2>1, <2>3
      <4>2. Cardinality(Recent(<<>>, 0, t)) <= Limit
        BY <3>1, FS_EmptySet
      <4>. QED
        BY <2>1, <4>1, <4>2 DEF Parted, t
    <3>. QED
      BY <2>1, <2>2, <3>2 DEF RedisInv
  <2>6. RedisWindowBound
    <3>1. \A end : {i \in DOMAIN <<>> : <<>>[i] \in end - Window + 1 .. end} = {}
      BY <2>3
    <3>. QED
      BY <2>1, <2>3, <3>1 DEF RedisWindowBound, AdmittedIn
  <2>. QED
    BY <2>2, <2>4, <2>5, <2>6 DEF RedisAll
<1>2. LimiterInv /\ RedisAll /\ [Next]_vars => RedisAll'
  <2>1. ASSUME RedisAll, UNCHANGED vars PROVE RedisAll'
    BY <2>1 DEF vars, RedisAll, KeyInv, AdmittedPast, RedisInv, RedisWindowBound, AdmittedIn,
                Owed, Owing
  <2>. QED
    BY <2>1, RedisHit, RedisWorld DEF Next
<1>3. RedisAll => RedisWindowBound
  BY DEF RedisAll
<1>. QED
  BY <1>1, <1>2, <1>3, LimiterAlways, PTL DEF Spec

=============================================================================
