------------------------ MODULE ConnectionPoolProofs ------------------------
(***************************************************************************)
(* The connections that are in use never exceed the pool, and the event    *)
(* loop waits for the pool a bounded number of times in a row, for any     *)
(* number of requests, connections, threads and users.                     *)
(***************************************************************************)
EXTENDS ConnectionPool, FiniteSetTheorems, TLAPS

Request == [kind : Kinds \cup {NULL}, stage : Stages, connected : BOOLEAN,
            left : 0 .. Users + 1]

(* What a request's stage says of it: only coroutines call Redis and the   *)
(* database from the event loop, only a sync reloads, and a sync that      *)
(* works has a user to work on.                                            *)
Sane(s) ==
  /\ s.stage \in Blocking \cup {"fetching", "fetched"} => s.kind \in Coroutines
  /\ s.stage = "reload" => s.kind = "daily_sync"
  /\ s.kind = "daily_sync" => s.left <= Users
  /\ s.kind = "daily_sync" /\ s.stage \in {"reload", "fetching", "fetched"} =>
       s.left >= 1

(* Each wait of a sync that keeps the event loop has cost it a user, the   *)
(* first one that whose commit expired the others.  Others wait once.      *)
WaitsPaid ==
  /\ \A r \in Requests :
       request[r].stage = "reload" => waits + request[r].left <= Users
  /\ (\A r \in Requests : request[r].stage # "reload") => waits <= 1

PoolInv ==
  /\ PoolTypeOK
  /\ waits \in Nat
  /\ IsFiniteSet(Connected)
  /\ \A r \in Requests : Sane(request[r])
  /\ WaitsPaid

(* What a step of r may do to the event loop.                              *)
Quiet(r, new) ==
  /\ request[r].stage \notin Blocking /\ new.stage \notin Blocking
  /\ UNCHANGED <<loop, waits>>

Calls(r, new) ==
  /\ LoopFree
  /\ new.stage = "hit_on_loop"
  /\ loop' = r /\ UNCHANGED waits

Blocks(r, new) ==
  /\ LoopFree \/ request[r].stage = "hit_on_loop"
  /\ new.stage \in Blocking
  /\ new.stage = "reload" => new.left < Users
  /\ Block(r)

Frees(r, new) ==
  /\ request[r].stage \in Blocking /\ new.stage \notin Blocking
  /\ Unblock

Retries(r, new) ==
  /\ request[r].stage = "reload" /\ new.stage = "reload"
  /\ new.left = request[r].left - 1
  /\ waits' = waits + 1 /\ UNCHANGED loop

-----------------------------------------------------------------------------
(* The pool grows by at most the connection that was free.                 *)
LEMMA PoolNotExceeded ==
  ASSUME PoolAssumption, PoolInv, NEW r \in Requests, NEW new \in Request,
         Update(r, new),
         new.connected => request[r].connected \/ FreeConnection
  PROVE  IsFiniteSet(Connected') /\ Cardinality(Connected') <= PoolSize
<1>1. IsFiniteSet(Connected) /\ Cardinality(Connected) <= PoolSize
  BY DEF PoolInv, PoolTypeOK
<1>2. Cardinality(Connected) \in Nat /\ PoolSize \in Nat
  BY <1>1, FS_CardinalityType DEF PoolAssumption
<1>3. \A q \in Requests : request'[q] = IF q = r THEN new ELSE request[q]
  BY DEF Update, PoolInv, PoolTypeOK
<1>4. CASE new.connected /\ ~request[r].connected
  <2>1. Connected' = Connected \cup {r}
    BY <1>3, <1>4 DEF Connected
  <2>2. r \notin Connected
    BY <1>4 DEF Connected
  <2>3. /\ IsFiniteSet(Connected \cup {r})
        /\ Cardinality(Connected \cup {r}) = Cardinality(Connected) + 1
    BY <1>1, <2>2, FS_AddElement
  <2>4. Cardinality(Connected) < PoolSize
    BY <1>4 DEF FreeConnection
  <2> QED
    BY <1>2, <2>1, <2>3, <2>4
<1>5. CASE ~(new.connected /\ ~request[r].connected)
  <2>1. Connected' \subseteq Connected
    BY <1>3, <1>5 DEF Connected
  <2>2. IsFiniteSet(Connected') /\ Cardinality(Connected') <= Cardinality(Connected)
    BY <1>1, <2>1, FS_Subset
  <2>3. Cardinality(Connected') \in Nat
    BY <2>2, FS_CardinalityType
  <2> QED
    BY <1>1, <1>2, <2>2, <2>3
<1> QED
  BY <1>4, <1>5

(* A step of one request preserves the invariant if what it makes of the   *)
(* request makes sense and it treats the pool and the event loop well.     *)
LEMMA RequestStep ==
  ASSUME PoolAssumption, PoolInv, NEW r \in Requests, NEW new \in Request,
         Update(r, new), Sane(new),
         new.connected => request[r].connected \/ FreeConnection,
         \/ Quiet(r, new) \/ Calls(r, new) \/ Blocks(r, new)
         \/ Frees(r, new) \/ Retries(r, new)
  PROVE  PoolInv'
<1>1. \A q \in Requests : request'[q] = IF q = r THEN new ELSE request[q]
  BY DEF Update, PoolInv, PoolTypeOK
<1>2. request' \in [Requests -> Request]
  BY DEF Update, PoolInv, PoolTypeOK, Request
<1>3. IsFiniteSet(Connected') /\ Cardinality(Connected') <= PoolSize
  BY PoolNotExceeded
<1>4. \A q \in Requests : Sane(request'[q])
  BY <1>1 DEF PoolInv
<1>5. /\ loop = NULL => waits = 0
      /\ waits \in Nat /\ Users \in Nat /\ NULL \notin Requests
      /\ \A q \in Requests : loop = q <=> request[q].stage \in Blocking
      /\ \A q \in Requests : request[q].left \in 0 .. Users + 1
  BY DEF PoolInv, PoolTypeOK, PoolAssumption, LoopFree
<1>6. /\ \A q \in Requests : loop' = q <=> request'[q].stage \in Blocking
      /\ loop' = NULL => waits' = 0
      /\ waits' \in Nat
      /\ WaitsPaid'
  <2>1. CASE Quiet(r, new)
    <3>1. request[r].stage # "reload" /\ new.stage # "reload"
      BY <2>1 DEF Quiet, Blocking
    <3>2. WaitsPaid'
      BY <1>1, <2>1, <3>1 DEF Quiet, WaitsPaid, PoolInv
    <3> QED
      BY <1>1, <1>5, <2>1, <3>2 DEF Quiet
  <2>0. CASE Calls(r, new)
    <3>1. \A q \in Requests : request[q].stage \notin Blocking
      BY <1>5, <2>0 DEF Calls, LoopFree
    <3>2. loop' = r /\ waits' = 0 /\ new.stage \in Blocking /\ new.stage # "reload"
      BY <1>5, <2>0 DEF Calls, LoopFree, Blocking
    <3>3. WaitsPaid'
      BY <1>1, <3>1, <3>2 DEF WaitsPaid, Blocking
    <3> QED
      BY <1>1, <1>5, <3>1, <3>2, <3>3
  <2>2. CASE Blocks(r, new)
    <3>1. \A q \in Requests : q # r => request[q].stage \notin Blocking
      <4>1. CASE LoopFree
        BY <1>5, <4>1 DEF LoopFree
      <4>2. CASE request[r].stage = "hit_on_loop"
        BY <1>5, <4>2 DEF Blocking
      <4> QED
        BY <2>2, <4>1, <4>2 DEF Blocks
    <3>2. loop' = r /\ waits' = 1 /\ new.left \in Nat
      BY <2>2 DEF Blocks, Block, Request
    <3>3. \A q \in Requests :
            request'[q].stage = "reload" => waits' + request'[q].left <= Users
      BY <1>1, <1>5, <2>2, <3>1, <3>2 DEF Blocks, Blocking
    <3> QED
      BY <1>1, <1>5, <2>2, <3>1, <3>2, <3>3 DEF Blocks, WaitsPaid
  <2>3. CASE Frees(r, new)
    <3>1. \A q \in Requests : request'[q].stage \notin Blocking
      BY <1>1, <1>5, <2>3 DEF Frees
    <3>2. loop' = NULL /\ waits' = 0
      BY <2>3 DEF Frees, Unblock
    <3> QED
      BY <1>5, <3>1, <3>2 DEF WaitsPaid, Blocking
  <2>4. CASE Retries(r, new)
    <3>1. loop = r
      BY <1>5, <2>4 DEF Retries, Blocking
    <3>2. waits + request[r].left <= Users
      BY <2>4 DEF Retries, PoolInv, WaitsPaid
    <3>3. waits' + request'[r].left <= Users
      BY <1>1, <1>5, <2>4, <3>2 DEF Retries
    <3>4. \A q \in Requests : request'[q].stage = "reload" => q = r
      BY <1>1, <1>5, <3>1 DEF Blocking
    <3>5. WaitsPaid'
      BY <1>1, <2>4, <3>3, <3>4 DEF Retries, WaitsPaid
    <3> QED
      BY <1>1, <1>5, <2>4, <3>1, <3>5 DEF Retries, Blocking
  <2> QED
    BY <2>0, <2>1, <2>2, <2>3, <2>4
<1> QED
  BY <1>2, <1>3, <1>4, <1>6 DEF PoolInv, PoolTypeOK, Request, LoopFree

-----------------------------------------------------------------------------
(* At the start nobody holds or waits for anything.                        *)
LEMMA PoolInvInit ==
  ASSUME PoolAssumption, Init
  PROVE  PoolInv
<1>1. Connected = {}
  BY DEF Connected, Init, Idle
<1>2. IsFiniteSet(Connected) /\ Cardinality(Connected) = 0
  BY <1>1, FS_EmptySet
<1> QED
  BY <1>2 DEF Init, Idle, PoolAssumption, PoolInv, PoolTypeOK, LoopFree, Sane, WaitsPaid,
       Kinds, Stages, Blocking, Coroutines

(* A step that serves a request: the event loop's, ...                     *)
LEMMA DispatchStep ==
  ASSUME PoolAssumption, PoolInv, NEW r \in Requests, Dispatch(r)
  PROVE  PoolInv'
<1> DEFINE s == request[r]
<1>1. s \in Request /\ Sane(s) /\ Users \in Nat
  BY DEF PoolInv, PoolTypeOK, Request, PoolAssumption
<1>2. CASE StartHandler(r)
  <2>1. PICK stage \in {"hit_on_loop", "probing", "hit", "checkout"} :
          /\ Update(r, [s EXCEPT !.stage = stage])
          /\ stage = "hit_on_loop" <=> s.kind \in Coroutines
    <3> DEFINE stages == CASE s.kind \in Coroutines -> {"hit_on_loop"}
                           [] s.kind = "monitor"    -> {"probing"}
                           [] OTHER                 -> {"hit", "checkout"}
    <3>1. PICK stage \in stages : Update(r, [s EXCEPT !.stage = stage])
      BY <1>2 DEF StartHandler
    <3>2. /\ stage \in {"hit_on_loop", "probing", "hit", "checkout"}
          /\ stage = "hit_on_loop" <=> s.kind \in Coroutines
      <4>1. CASE s.kind \in Coroutines
        <5>1. stages = {"hit_on_loop"}
          BY <4>1 DEF Coroutines
        <5> QED
          BY <3>1, <4>1, <5>1
      <4>2. CASE s.kind \notin Coroutines
        <5>1. stages \in {{"probing"}, {"hit", "checkout"}}
          BY <4>2
        <5> HIDE DEF stages
        <5> QED
          BY <3>1, <4>2, <5>1
      <4> QED
        BY <4>1, <4>2
    <3> QED
      BY <3>1, <3>2
  <2> DEFINE new == [s EXCEPT !.stage = stage]
  <2>2. new \in Request /\ Sane(new) /\ (new.connected => s.connected)
    BY <1>1, <2>1 DEF Request, Stages, Sane, Blocking
  <2>3. Quiet(r, new) \/ Calls(r, new)
    <3>1. /\ s.stage = "queued" /\ LoopFree /\ new.stage = stage /\ UNCHANGED waits
          /\ loop' = IF s.kind \in Coroutines THEN r ELSE NULL
      BY <1>1, <1>2 DEF StartHandler, Request
    <3> QED
      BY <2>1, <3>1 DEF Quiet, Calls, Blocking, LoopFree
  <2> HIDE DEF new
  <2> QED
    BY <2>1, <2>2, <2>3, RequestStep DEF new
<1>3. CASE Resume(r)
  <2>1. PICK stage \in {"validate", "closing"} :
          Update(r, [s EXCEPT !.stage = stage])
    BY <1>3 DEF Resume
  <2> DEFINE new == [s EXCEPT !.stage = stage]
  <2>2. new \in Request /\ Sane(new) /\ (new.connected => s.connected)
    BY <1>1 DEF Request, Stages, Sane, Blocking
  <2>3. Quiet(r, new)
    BY <1>1, <1>3 DEF Resume, Quiet, Blocking, Request
  <2> QED
    BY <2>1, <2>2, <2>3, RequestStep
<1>4. CASE Validate(r)
  <2> DEFINE new == [s EXCEPT !.stage = "closing"]
  <2>1. new \in Request /\ Sane(new) /\ (new.connected => s.connected)
    BY <1>1 DEF Request, Stages, Sane, Blocking
  <2>2. Update(r, new) /\ Quiet(r, new)
    BY <1>1, <1>4 DEF Validate, Quiet, Blocking, Request
  <2> QED
    BY <2>1, <2>2, RequestStep
<1>5. CASE Close(r)
  <2>1. Idle \in Request /\ Sane(Idle) /\ ~Idle.connected
    BY <1>1 DEF Idle, Request, Stages, Sane, Blocking, Kinds, Coroutines, PoolAssumption
  <2>2. Update(r, Idle) /\ Quiet(r, Idle)
    BY <1>5 DEF Close, Quiet, Blocking, Idle
  <2> QED
    BY <2>1, <2>2, RequestStep
<1>6. CASE CreateStores(r)
  <2> DEFINE stored == [s EXCEPT !.stage = "refresh", !.connected = FALSE]
             failed == [s EXCEPT !.stage = "closing"]
  <2>1. /\ stored \in Request /\ Sane(stored) /\ ~stored.connected
        /\ failed \in Request /\ Sane(failed) /\ (failed.connected => s.connected)
    BY <1>1, <1>6 DEF CreateStores, Request, Stages, Sane, Blocking, Coroutines
  <2>2. \/ Update(r, stored) /\ Blocks(r, stored)
        \/ Update(r, failed) /\ Quiet(r, failed)
    BY <1>1, <1>6 DEF CreateStores, Blocks, Quiet, Blocking, Request
  <2> QED
    BY <2>1, <2>2, RequestStep
<1>7. CASE SyncStores(r)
  <2> DEFINE left == s.left - 1
             stored == [s EXCEPT !.left = left, !.connected = FALSE,
                          !.stage = IF left > 0 THEN "reload" ELSE "closing"]
             failed == [s EXCEPT !.left = left,
                          !.stage = IF left > 0 THEN "fetching" ELSE "closing"]
  <2>1. s.stage = "fetched" /\ s.kind = "daily_sync" /\ LoopFree
    BY <1>7 DEF SyncStores
  <2>2. left \in Nat /\ left < Users /\ left <= Users + 1
    BY <1>1, <2>1 DEF Sane, Request
  <2>3. /\ stored \in Request /\ Sane(stored) /\ ~stored.connected
        /\ failed \in Request /\ Sane(failed) /\ (failed.connected => s.connected)
    <3> HIDE DEF left
    <3>0. left \in 0 .. Users + 1
      BY <1>1, <2>2
    <3>1. stored \in Request /\ failed \in Request
      BY <1>1, <3>0 DEF Request, Stages, Blocking
    <3>2. /\ stored.kind = s.kind /\ stored.left = left /\ ~stored.connected
          /\ stored.stage = IF left > 0 THEN "reload" ELSE "closing"
          /\ failed.kind = s.kind /\ failed.left = left
          /\ failed.stage = IF left > 0 THEN "fetching" ELSE "closing"
          /\ failed.connected = s.connected
      BY <1>1 DEF Request
    <3> HIDE DEF stored, failed
    <3>3. Sane(stored) /\ Sane(failed)
      BY <1>1, <2>1, <2>2, <3>2 DEF Sane, Coroutines
    <3> QED
      BY <3>1, <3>2, <3>3
  <2>4. \/ Update(r, stored)
           /\ IF left > 0 THEN Block(r) ELSE UNCHANGED <<loop, waits>>
        \/ Update(r, failed) /\ UNCHANGED <<loop, waits>>
    BY <1>7 DEF SyncStores
  <2>5. CASE Update(r, stored)
             /\ IF left > 0 THEN Block(r) ELSE UNCHANGED <<loop, waits>>
    <3>1. Blocks(r, stored) \/ Quiet(r, stored)
      BY <1>1, <2>1, <2>2, <2>5 DEF Blocks, Quiet, Blocking, Request
    <3> HIDE DEF stored
    <3> QED
      BY <2>3, <2>5, <3>1, RequestStep
  <2>6. CASE Update(r, failed) /\ UNCHANGED <<loop, waits>>
    <3>1. Quiet(r, failed)
      BY <1>1, <2>1, <2>6 DEF Quiet, Blocking, Request
    <3> HIDE DEF failed
    <3> QED
      BY <2>3, <2>6, <3>1, RequestStep
  <2> QED
    BY <2>4, <2>5, <2>6
<1> QED
  BY <1>2, <1>3, <1>4, <1>5, <1>6, <1>7 DEF Dispatch

(* ... and those of Redis, the pool, the threads and LeetCode.             *)
LEMMA ProgressStep ==
  ASSUME PoolAssumption, PoolInv, NEW r \in Requests, Progress(r)
  PROVE  PoolInv'
<1> DEFINE s == request[r]
<1>1. s \in Request /\ Sane(s) /\ Users \in Nat
  BY DEF PoolInv, PoolTypeOK, Request, PoolAssumption
<1>2. CASE CheckoutInThread(r)
  <2> DEFINE new == [s EXCEPT !.stage = "running", !.connected = TRUE]
  <2>1. new \in Request /\ Sane(new)
    BY <1>1 DEF Request, Stages, Sane, Blocking
  <2>2. Update(r, new) /\ Quiet(r, new) /\ FreeConnection
    BY <1>1, <1>2 DEF CheckoutInThread, Quiet, Blocking, Request
  <2> QED
    BY <2>1, <2>2, RequestStep
<1>3. CASE CheckoutOnLoop(r)
  <2> DEFINE after == CASE s.stage = "refresh"      -> {"closing"}
                        [] s.kind = "create_user"   -> {"fetching", "closing"}
                        [] s.kind = "daily_sync"    ->
                             {IF s.left > 0 THEN "fetching" ELSE "closing"}
  <2>1. s.stage \in Blocking /\ FreeConnection /\ s.kind \in Coroutines
    BY <1>1, <1>3 DEF CheckoutOnLoop, Sane
  <2>2. PICK stage \in after :
          Update(r, [s EXCEPT !.stage = stage, !.connected = TRUE])
    BY <1>3 DEF CheckoutOnLoop
  <2> DEFINE new == [s EXCEPT !.stage = stage, !.connected = TRUE]
  <2>3. stage \in {"fetching", "closing"}
    BY <2>1, <2>2 DEF Coroutines
  <2>4. s.kind = "daily_sync" /\ stage = "fetching" => s.left > 0
    BY <2>2
  <2>5. new \in Request /\ Sane(new)
    <3>1. new \in Request
      BY <1>1, <2>3 DEF Request, Stages
    <3>2. new.stage = stage /\ new.kind = s.kind /\ new.left = s.left
      BY <1>1 DEF Request
    <3>3. s.left \in Nat
      BY <1>1 DEF Request
    <3> HIDE DEF new
    <3>4. Sane(new)
      BY <1>1, <2>1, <2>3, <2>4, <3>2, <3>3 DEF Sane
    <3> QED
      BY <3>1, <3>4
  <2>6. Frees(r, new)
    BY <1>1, <1>3, <2>1, <2>3 DEF CheckoutOnLoop, Frees, Blocking, Request
  <2> HIDE DEF after
  <2> QED
    BY <2>1, <2>2, <2>5, <2>6, RequestStep
<1>4. CASE ThreadTimeout(r)
  <2> DEFINE new == [s EXCEPT !.stage = "returned"]
  <2>1. new \in Request /\ Sane(new) /\ (new.connected => s.connected)
    BY <1>1 DEF Request, Stages, Sane, Blocking
  <2>2. Update(r, new) /\ Quiet(r, new)
    BY <1>1, <1>4 DEF ThreadTimeout, TimedOut, Quiet, Blocking, Request
  <2> QED
    BY <2>1, <2>2, RequestStep
<1>5. CASE LoopTimeout(r)
  <2> DEFINE new == [s EXCEPT !.stage = "closing"]
  <2>1. new \in Request /\ Sane(new) /\ (new.connected => s.connected)
    BY <1>1 DEF Request, Stages, Sane, Blocking
  <2>2. Update(r, new) /\ Frees(r, new)
    BY <1>1, <1>5 DEF LoopTimeout, TimedOut, Frees, Blocking, Request
  <2> QED
    BY <2>1, <2>2, RequestStep
<1>6. CASE SyncTimeout(r)
  <2> DEFINE left == s.left - 1
             new == [s EXCEPT !.left = left,
                              !.stage = IF left > 0 THEN "reload" ELSE "closing"]
  <2>1. /\ s.stage = "reload" /\ s.kind = "daily_sync" /\ Update(r, new)
        /\ IF left > 0 THEN waits' = waits + 1 /\ UNCHANGED loop ELSE Unblock
    BY <1>1, <1>6 DEF SyncTimeout, TimedOut, Skip, Sane
  <2>2. left \in Nat /\ left <= Users /\ left <= Users + 1
    BY <1>1, <2>1 DEF Sane, Request
  <2>3. new \in Request /\ Sane(new) /\ (new.connected => s.connected)
    <3> HIDE DEF left
    <3>0. left \in 0 .. Users + 1
      BY <1>1, <2>2
    <3>1. new \in Request
      BY <1>1, <3>0 DEF Request, Stages, Blocking
    <3>2. /\ new.kind = s.kind /\ new.left = left /\ new.connected = s.connected
          /\ new.stage = IF left > 0 THEN "reload" ELSE "closing"
      BY <1>1 DEF Request
    <3> HIDE DEF new
    <3>3. Sane(new)
      BY <1>1, <2>1, <2>2, <3>2 DEF Sane, Coroutines
    <3> QED
      BY <3>1, <3>2, <3>3
  <2>4. Retries(r, new) \/ Frees(r, new)
    BY <1>1, <2>1, <2>2 DEF Retries, Frees, Blocking, Request
  <2> HIDE DEF new
  <2> QED
    BY <2>1, <2>3, <2>4, RequestStep
<1>7. CASE Return(r)
  <2> DEFINE new == [s EXCEPT !.stage = "returned"]
  <2>1. new \in Request /\ Sane(new) /\ (new.connected => s.connected)
    BY <1>1 DEF Request, Stages, Sane, Blocking
  <2>2. Update(r, new) /\ Quiet(r, new)
    BY <1>1, <1>7 DEF Return, Quiet, Blocking, Request
  <2> QED
    BY <2>1, <2>2, RequestStep
<1>8. CASE Commit(r)
  <2> DEFINE last == [s EXCEPT !.stage = "returned", !.connected = FALSE]
             next == [s EXCEPT !.stage = "checkout", !.connected = FALSE,
                               !.left = s.left - 1]
  <2>1. s.stage = "running" /\ s.kind = "writer" /\ UNCHANGED <<loop, waits>>
    BY <1>8 DEF Commit
  <2>2. Update(r, last) \/ (s.left > 0 /\ Update(r, next))
    BY <1>8 DEF Commit
  <2>3. last \in Request /\ Sane(last) /\ ~last.connected /\ Quiet(r, last)
    BY <1>1, <2>1 DEF Request, Stages, Sane, Quiet, Blocking
  <2>4. s.left > 0 =>
          next \in Request /\ Sane(next) /\ ~next.connected /\ Quiet(r, next)
    <3> SUFFICES ASSUME s.left > 0
                 PROVE  next \in Request /\ Sane(next) /\ ~next.connected /\ Quiet(r, next)
      OBVIOUS
    <3>1. s.left \in 0 .. Users + 1 /\ s.left - 1 \in 0 .. Users + 1
      BY <1>1 DEF Request
    <3>2. next \in Request
      BY <1>1, <3>1 DEF Request, Stages
    <3>3. next.kind = s.kind /\ next.stage = "checkout" /\ ~next.connected
      BY <1>1 DEF Request
    <3> HIDE DEF next
    <3>4. Sane(next) /\ Quiet(r, next)
      BY <2>1, <3>3 DEF Sane, Quiet, Blocking
    <3> QED
      BY <3>2, <3>3, <3>4
  <2> HIDE DEF last, next
  <2> QED
    BY <2>2, <2>3, <2>4, RequestStep
<1>9. CASE ProbeEnds(r)
  <2> DEFINE new == [s EXCEPT !.stage = "returned"]
  <2>1. new \in Request /\ Sane(new) /\ (new.connected => s.connected)
    BY <1>1 DEF Request, Stages, Sane, Blocking
  <2>2. Update(r, new) /\ Quiet(r, new)
    BY <1>1, <1>9 DEF ProbeEnds, Quiet, Blocking, Request
  <2> QED
    BY <2>1, <2>2, RequestStep
<1>10. CASE Answer(r)
  <2> DEFINE new == [s EXCEPT !.stage = "fetched"]
  <2>1. new \in Request /\ Sane(new) /\ (new.connected => s.connected)
    BY <1>1, <1>10 DEF Answer, Request, Stages, Sane, Blocking
  <2>2. Update(r, new) /\ Quiet(r, new)
    BY <1>1, <1>10 DEF Answer, Quiet, Blocking, Request
  <2> QED
    BY <2>1, <2>2, RequestStep
<1>11. CASE HitInThread(r)
  <2>1. PICK stage \in {"checkout", "returned"} : Update(r, [s EXCEPT !.stage = stage])
    BY <1>11 DEF HitInThread
  <2> DEFINE new == [s EXCEPT !.stage = stage]
  <2>2. new \in Request /\ Sane(new) /\ (new.connected => s.connected)
    BY <1>1, <2>1 DEF Request, Stages, Sane, Blocking
  <2>3. Quiet(r, new)
    BY <1>1, <1>11, <2>1 DEF HitInThread, Quiet, Blocking, Request
  <2> QED
    BY <2>1, <2>2, <2>3, RequestStep
<1>12. CASE HitOnLoop(r)
  <2> DEFINE passed  == [s EXCEPT !.stage = "select"]
             refused == [s EXCEPT !.stage = "closing"]
  <2>1. /\ passed \in Request /\ Sane(passed) /\ (passed.connected => s.connected)
        /\ refused \in Request /\ Sane(refused) /\ (refused.connected => s.connected)
    BY <1>1, <1>12 DEF HitOnLoop, Request, Stages, Sane, Blocking
  <2>2. \/ Update(r, passed) /\ Blocks(r, passed)
        \/ Update(r, refused) /\ Frees(r, refused)
    BY <1>1, <1>12 DEF HitOnLoop, Blocks, Frees, Blocking, Request
  <2> QED
    BY <2>1, <2>2, RequestStep
<1> QED
  BY <1>2, <1>3, <1>4, <1>5, <1>6, <1>7, <1>8, <1>9, <1>10, <1>11, <1>12 DEF Progress

(* A request that arrives holds nothing yet.                               *)
LEMMA ArriveStep ==
  ASSUME PoolAssumption, PoolInv, NEW r \in Requests, NEW k \in Kinds, Arrive(r, k)
  PROVE  PoolInv'
<1> DEFINE left == CASE k = "writer"     -> 1
                     [] k = "daily_sync" -> Users
                     [] OTHER            -> 0
           new == [Idle EXCEPT !.kind = k, !.stage = "queued", !.left = left]
<1>1. left \in 0 .. Users + 1 /\ (k = "daily_sync" => left = Users)
  BY DEF PoolAssumption
<1> HIDE DEF left
<1>2. new \in Request /\ Sane(new) /\ ~new.connected
  <2>1. new \in Request
    BY <1>1 DEF Idle, Request, Stages
  <2>2. new.kind = k /\ new.stage = "queued" /\ new.left = left /\ ~new.connected
    BY DEF Idle
  <2> HIDE DEF new
  <2>3. Sane(new)
    BY <1>1, <2>2 DEF Sane, Blocking, PoolAssumption
  <2> QED
    BY <2>1, <2>2, <2>3
<1>3. Update(r, new)
  BY DEF Arrive, left
<1>4. Quiet(r, new)
  BY DEF Arrive, Quiet, Blocking, Idle
<1> HIDE DEF new
<1> QED
  BY <1>2, <1>3, <1>4, RequestStep

(* The cleanup waits once, and no request waits on the event loop then.    *)
LEMMA CleanupStep ==
  ASSUME PoolAssumption, PoolInv, CleanupBegin \/ CleanupEnd
  PROVE  PoolInv'
<1>1. UNCHANGED request /\ Connected' = Connected
  BY DEF CleanupBegin, CleanupEnd, Connected
<1>2. \A r \in Requests : request[r].stage \notin Blocking
  BY DEF CleanupBegin, CleanupEnd, PoolInv, PoolTypeOK, LoopFree, PoolAssumption
<1>3. \/ loop' = Cleanup /\ waits' = 1
      \/ loop' = NULL /\ waits' = 0
  BY DEF CleanupBegin, CleanupEnd, Block, Unblock
<1> QED
  BY <1>1, <1>2, <1>3 DEF PoolInv, PoolTypeOK, LoopFree, WaitsPaid, Blocking, PoolAssumption

(* So every step keeps the invariant, ...                                  *)
LEMMA PoolInvInductive ==
  ASSUME PoolAssumption, PoolInv, [Next]_vars
  PROVE  PoolInv'
<1>1. ASSUME NEW r \in Requests, NEW k \in Kinds, Arrive(r, k)
      PROVE  PoolInv'
  BY <1>1, ArriveStep
<1>2. ASSUME NEW r \in Requests, Progress(r)
      PROVE  PoolInv'
  BY <1>2, ProgressStep
<1>3. ASSUME NEW r \in Requests, Dispatch(r)
      PROVE  PoolInv'
  BY <1>3, DispatchStep
<1>4. CASE CleanupBegin \/ CleanupEnd
  BY <1>4, CleanupStep
<1>5. CASE UNCHANGED vars
  BY <1>5 DEF vars, PoolInv, PoolTypeOK, LoopFree, WaitsPaid, Connected
<1> QED
  BY <1>1, <1>2, <1>3, <1>4, <1>5 DEF Next

-----------------------------------------------------------------------------
(* ... and it holds in every reachable state.                              *)
LEMMA PoolInvAlways ==
  ASSUME PoolAssumption
  PROVE  Spec => []PoolInv
<1>1. Init => PoolInv
  BY PoolInvInit
<1>2. PoolInv /\ [Next]_vars => PoolInv'
  BY PoolInvInductive
<1> QED
  BY <1>1, <1>2, PTL DEF Spec

(* However requests overlap, time out and fail, the sessions of get_db,    *)
(* of coroutines and of handlers never hold more connections than the pool *)
(* has, and who blocks the event loop is in a call that waits.             *)
THEOREM PoolRespected ==
  ASSUME PoolAssumption
  PROVE  Spec => []PoolTypeOK
<1>1. PoolInv => PoolTypeOK
  BY DEF PoolInv
<1> QED
  BY <1>1, PoolInvAlways, PTL

(* The event loop never waits for the pool more often in a row than a sync *)
(* has users left after its first commit, and but for a sync only once.    *)
THEOREM LoopWaits ==
  ASSUME PoolAssumption
  PROVE  Spec => []LoopWaitsBounded
<1>1. PoolInv => LoopWaitsBounded
  <2> SUFFICES ASSUME PoolInv
               PROVE  LoopWaitsBounded
    OBVIOUS
  <2>1. waits \in Nat /\ Users \in Nat
    BY DEF PoolInv, PoolAssumption
  <2>2. CASE waits <= 1
    BY <2>1, <2>2 DEF LoopWaitsBounded
  <2>3. CASE ~(waits <= 1)
    <3>1. PICK r \in Requests : request[r].stage = "reload"
      BY <2>3 DEF PoolInv, WaitsPaid
    <3>2. request[r].left \in 0 .. Users + 1 /\ request[r].left >= 1
      BY <3>1 DEF PoolInv, PoolTypeOK, Sane
    <3>3. waits + request[r].left <= Users /\ waits > 1
      BY <2>1, <2>3, <3>1 DEF PoolInv, WaitsPaid
    <3> QED
      BY <2>1, <3>2, <3>3 DEF LoopWaitsBounded
  <2> QED
    BY <2>2, <2>3
<1> QED
  BY <1>1, PoolInvAlways, PTL
=============================================================================
