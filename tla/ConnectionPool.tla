--------------------------- MODULE ConnectionPool ---------------------------
(***************************************************************************)
(* What requests wait for: the event loop, the threads that run the        *)
(* synchronous handlers, and the connections of app/db/session.py's pool.  *)
(*                                                                         *)
(* create_user and daily_sync are coroutines that call the database, and   *)
(* before it Redis, synchronously; the background cleanup calls the        *)
(* database so.  While one of them waits for Redis, which has no timeout,  *)
(* or for a connection, the event loop stands still.  Coroutines keep      *)
(* their connection while they wait for LeetCode.  Handlers that only read *)
(* keep it until get_db closes the session, for which the event loop, and  *)
(* before that a thread to validate the response, must be free.  So        *)
(* everyone may wait for everyone, until the pool's timeout.               *)
(*                                                                         *)
(* FastAPI, AnyIO's thread limiter and SQLAlchemy's pool are external.     *)
(***************************************************************************)
EXTENDS Naturals, FiniteSets

CONSTANTS
  Requests,  \* requests served at the same time
  Cleanup,   \* the background cleanup, when it is what the event loop runs
  NULL,
  PoolSize,  \* connections of the pool, overflow included
  Threads,   \* threads of AnyIO's limiter
  Users      \* users that a sync finds

ASSUME PoolAssumption ==
  /\ PoolSize \in Nat \ {0} /\ Threads \in Nat \ {0} /\ Users \in Nat
  /\ Cleanup \notin Requests /\ NULL \notin Requests \cup {Cleanup}

VARIABLES
  request,  \* what each request is, does, and holds
  loop,     \* who blocks the event loop, or NULL
  waits     \* history: waits for a connection since the loop last was free

vars == <<request, loop, waits>>

(* Handlers that commit last or read last, the monitor, and coroutines.    *)
Kinds == {"writer", "reader", "monitor", "create_user", "daily_sync"}
Coroutines == {"create_user", "daily_sync"}

(* hit waits for Redis in a thread, and checkout for a connection.  The    *)
(* coroutines wait for both on the event loop: for Redis first, then for a *)
(* connection in their first query, and again after a commit, when         *)
(* create_user refreshes its user and the sync reloads the next one's.     *)
Blocking == {"hit_on_loop", "select", "refresh", "reload"}
Stages == {"idle", "queued", "hit", "checkout", "running", "probing", "returned",
           "validate", "fetching", "fetched", "closing"} \cup Blocking

(* left: transactions of a writer, users of a sync that are still to do.   *)
Idle == [kind |-> NULL, stage |-> "idle", connected |-> FALSE, left |-> 0]

Connected == {r \in Requests : request[r].connected}

(* Mutant of FreeConnection: one connection too many.                      *)
FreeConnectionOver == Cardinality(Connected) <= PoolSize

FreeConnection == Cardinality(Connected) < PoolSize

(* A thread is given back when its caller resumes, on the event loop.      *)
InThread == {"hit", "checkout", "running", "probing", "returned"}
FreeThread ==
  Cardinality({r \in Requests : request[r].stage \in InThread}) < Threads

LoopFree == loop = NULL

Init ==
  /\ request = [r \in Requests |-> Idle]
  /\ loop = NULL
  /\ waits = 0

Update(r, new) == request' = [request EXCEPT ![r] = new]

(* r waits for a connection on the event loop, and blocks it.              *)
Block(r) == loop' = r /\ waits' = 1
Unblock == loop' = NULL /\ waits' = 0

-----------------------------------------------------------------------------
(* A request arrives; its dependencies need a thread, and so does a        *)
(* synchronous handler.  A writer has up to two transactions.              *)
Arrive(r, k) ==
  /\ LoopFree
  /\ request[r].stage = "idle"
  /\ Update(r, [Idle EXCEPT !.kind = k, !.stage = "queued",
                            !.left = CASE k = "writer"     -> 1
                                       [] k = "daily_sync" -> Users
                                       [] OTHER            -> 0])
  /\ UNCHANGED <<loop, waits>>

StartHandler(r) ==
  LET k == request[r].kind
      stages == CASE k \in Coroutines -> {"hit_on_loop"}
                  [] k = "monitor"    -> {"probing"}
                  [] OTHER            -> {"hit", "checkout"}
  IN  /\ LoopFree /\ FreeThread
      /\ request[r].stage = "queued"
      /\ \E stage \in stages : Update(r, [request[r] EXCEPT !.stage = stage])
      /\ loop' = IF k \in Coroutines THEN r ELSE NULL
      /\ UNCHANGED waits

(* rate_limiter.hit returns, and the handler goes on, or it is a 429.  It  *)
(* has no timeout: it lasts as long as Redis takes, or its connection.     *)
HitInThread(r) ==
  /\ request[r].stage = "hit"
  /\ \E stage \in {"checkout", "returned"} :
       Update(r, [request[r] EXCEPT !.stage = stage])
  /\ UNCHANGED <<loop, waits>>

HitOnLoop(r) ==
  /\ request[r].stage = "hit_on_loop"
  /\ \/ Update(r, [request[r] EXCEPT !.stage = "select"]) /\ Block(r)
     \/ Update(r, [request[r] EXCEPT !.stage = "closing"]) /\ Unblock

(* The pool gives r a connection. *)
CheckoutInThread(r) ==
  /\ request[r].stage = "checkout" /\ FreeConnection
  /\ Update(r, [request[r] EXCEPT !.stage = "running", !.connected = TRUE])
  /\ UNCHANGED <<loop, waits>>

(* The query of a coroutine: a name that is taken, or no users, ends it.   *)
CheckoutOnLoop(r) ==
  LET s == request[r]
      after == CASE s.stage = "refresh"      -> {"closing"}
                 [] s.kind = "create_user"   -> {"fetching", "closing"}
                 [] s.kind = "daily_sync"    -> {IF s.left > 0 THEN "fetching"
                                                              ELSE "closing"}
  IN  /\ s.stage \in Blocking \ {"hit_on_loop"} /\ FreeConnection
      /\ \E stage \in after :
           Update(r, [s EXCEPT !.stage = stage, !.connected = TRUE])
      /\ Unblock

(* Mutant of TimedOut: the pool waits for ever.                            *)
NeverTimedOut(r, S) == FALSE

(* The pool's timeout, in a wait of S: the request fails, ...              *)
TimedOut(r, S) == request[r].stage \in S /\ ~FreeConnection

ThreadTimeout(r) ==
  /\ TimedOut(r, {"checkout"})
  /\ Update(r, [request[r] EXCEPT !.stage = "returned"])
  /\ UNCHANGED <<loop, waits>>

LoopTimeout(r) ==
  /\ TimedOut(r, {"select", "refresh"})
  /\ Update(r, [request[r] EXCEPT !.stage = "closing"])
  /\ Unblock

(* Mutant of Skip: the user whose reload failed is tried again.            *)
SkipNot(left) == left

(* ... except in run_daily_sync, which counts an error for the user and    *)
(* goes on to the next one's username without an await in between.         *)
Skip(left) == left - 1

SyncTimeout(r) ==
  LET left == Skip(request[r].left)
  IN  /\ TimedOut(r, {"reload"})
      /\ Update(r, [request[r] EXCEPT !.left = left,
                                      !.stage = IF left > 0 THEN "reload" ELSE "closing"])
      /\ IF left > 0 THEN waits' = waits + 1 /\ UNCHANGED loop ELSE Unblock

-----------------------------------------------------------------------------
(* A handler that has read returns with its connection, ...                *)
Return(r) ==
  /\ request[r].stage = "running" /\ request[r].kind = "reader"
  /\ Update(r, [request[r] EXCEPT !.stage = "returned"])
  /\ UNCHANGED <<loop, waits>>

(* ... one that commits gives it back, and may begin a second transaction. *)
Commit(r) ==
  LET s == request[r]
  IN  /\ s.stage = "running" /\ s.kind = "writer"
      /\ \/ Update(r, [s EXCEPT !.stage = "returned", !.connected = FALSE])
         \/ /\ s.left > 0
            /\ Update(r, [s EXCEPT !.stage = "checkout", !.connected = FALSE,
                                   !.left = s.left - 1])
      /\ UNCHANGED <<loop, waits>>

(* The monitor probes URLs.  One may be its own, which takes the event     *)
(* loop and another thread to answer: then it is the timeout of the probe  *)
(* that ends it, so the probe ends whoever holds them.                     *)
ProbeEnds(r) ==
  /\ request[r].stage = "probing"
  /\ Update(r, [request[r] EXCEPT !.stage = "returned"])
  /\ UNCHANGED <<loop, waits>>

(* The handler's task resumes.  The response is validated in a thread if   *)
(* the handler declares its type and has not raised.                       *)
Resume(r) ==
  /\ LoopFree
  /\ request[r].stage = "returned"
  /\ \E stage \in {"validate", "closing"} :
       Update(r, [request[r] EXCEPT !.stage = stage])
  /\ UNCHANGED <<loop, waits>>

Validate(r) ==
  /\ LoopFree /\ FreeThread
  /\ request[r].stage = "validate"
  /\ Update(r, [request[r] EXCEPT !.stage = "closing"])
  /\ UNCHANGED <<loop, waits>>

(* get_db closes the session, and the response is sent.                    *)
Close(r) ==
  /\ LoopFree
  /\ request[r].stage = "closing"
  /\ Update(r, Idle)
  /\ UNCHANGED <<loop, waits>>

-----------------------------------------------------------------------------
(* LeetCode answers a coroutine, or its client gives up after 20 seconds.  *)
Answer(r) ==
  /\ request[r].stage = "fetching"
  /\ Update(r, [request[r] EXCEPT !.stage = "fetched"])
  /\ UNCHANGED <<loop, waits>>

(* create_user stores the user, commits and reads it again; an error ends  *)
(* it, its connection still held.                                          *)
CreateStores(r) ==
  /\ LoopFree
  /\ request[r].stage = "fetched" /\ request[r].kind = "create_user"
  /\ \/ /\ Update(r, [request[r] EXCEPT !.stage = "refresh", !.connected = FALSE])
        /\ Block(r)
     \/ /\ Update(r, [request[r] EXCEPT !.stage = "closing"])
        /\ UNCHANGED <<loop, waits>>

(* run_daily_sync stores a snapshot and commits, which expires the users:  *)
(* the next one's username is read again.  After an error the transaction  *)
(* goes on.                                                                *)
SyncStores(r) ==
  LET s    == request[r]
      left == s.left - 1
  IN  /\ LoopFree
      /\ s.stage = "fetched" /\ s.kind = "daily_sync"
      /\ \/ /\ Update(r, [s EXCEPT !.left = left, !.connected = FALSE,
                            !.stage = IF left > 0 THEN "reload" ELSE "closing"])
            /\ IF left > 0 THEN Block(r) ELSE UNCHANGED <<loop, waits>>
         \/ /\ Update(r, [s EXCEPT !.left = left,
                            !.stage = IF left > 0 THEN "fetching" ELSE "closing"])
            /\ UNCHANGED <<loop, waits>>

(* The background cleanup, which gives its connection back before the      *)
(* event loop does anything else.                                          *)
CleanupBegin ==
  /\ LoopFree
  /\ Block(Cleanup)
  /\ UNCHANGED request

CleanupEnd ==
  /\ loop = Cleanup
  /\ Unblock
  /\ UNCHANGED request

-----------------------------------------------------------------------------
(* What Redis, the pool, the threads and LeetCode do, and what the event   *)
(* loop does.  A blocked cleanup gets its connection or its timeout.       *)
Progress(r) ==
  \/ HitInThread(r) \/ HitOnLoop(r)
  \/ CheckoutInThread(r) \/ CheckoutOnLoop(r)
  \/ ThreadTimeout(r) \/ LoopTimeout(r) \/ SyncTimeout(r)
  \/ Return(r) \/ Commit(r) \/ ProbeEnds(r) \/ Answer(r)

Dispatch(r) ==
  \/ StartHandler(r) \/ Resume(r) \/ Validate(r) \/ Close(r)
  \/ CreateStores(r) \/ SyncStores(r)

Next ==
  \/ \E r \in Requests, k \in Kinds : Arrive(r, k)
  \/ \E r \in Requests : Progress(r) \/ Dispatch(r)
  \/ CleanupBegin \/ CleanupEnd

(* A wait for a connection ends, at the latest by its timeout, and threads *)
(* run.  Redis answers or its connection fails, which is assumed: the code *)
(* sets no timeout.  The event loop serves its ready tasks, and the        *)
(* limiter those that wait for a thread, first come first served.          *)
Spec ==
  /\ Init /\ [][Next]_vars
  /\ \A r \in Requests : WF_vars(Progress(r)) /\ SF_vars(Dispatch(r))
  /\ WF_vars(CleanupEnd)

-----------------------------------------------------------------------------
(* Requests and the event loop keep their types, the pool and the threads  *)
(* are not exceeded, and who blocks the loop is waiting.                   *)
PoolTypeOK ==
  /\ request \in [Requests -> [kind : Kinds \cup {NULL}, stage : Stages,
                               connected : BOOLEAN, left : 0 .. Users + 1]]
  /\ Cardinality(Connected) <= PoolSize
  /\ \A r \in Requests : loop = r <=> request[r].stage \in Blocking
  /\ LoopFree => waits = 0

(* Every request is answered, although all connections may be held by      *)
(* coroutines that wait for LeetCode and by handlers that have returned    *)
(* and wait for the event loop or a thread, while the event loop and all   *)
(* threads wait for a connection: the pool's timeout dissolves the knot.   *)
RequestsEnd ==
  \A r \in Requests : request[r].stage # "idle" ~> request[r].stage = "idle"

(* The event loop waits for the pool once in a row; but when a sync finds  *)
(* no connection after a commit, once for each of the users that follow,   *)
(* for it does not await in between.  How long Redis, or a query that got  *)
(* its connection, keeps the loop is up to them: this bounds the pool's    *)
(* timeouts only.                                                          *)
LoopWaitsBounded == waits <= IF Users > 2 THEN Users - 1 ELSE 1
=============================================================================
