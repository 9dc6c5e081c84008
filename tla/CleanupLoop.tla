----------------------------- MODULE CleanupLoop -----------------------------
(***************************************************************************)
(* The life of the process as app/main.py runs it: the cleanup at startup, *)
(* the background loop that repeats it, shutdown; and the status the       *)
(* cleanups leave for the monitor (app/core/refresh_token_maintenance.py). *)
(*                                                                         *)
(* The startup and the loop run on the event loop and block it while they  *)
(* clean up; logins clean up in threads of their own meanwhile.            *)
(***************************************************************************)
EXTENDS Naturals

CONSTANTS
  Rows,      \* refresh tokens
  Threads,   \* threads that serve logins
  EventLoop, \* the thread of the event loop
  NULL,      \* no row, None
  Interval,  \* refresh_token_cleanup_interval_minutes
  Lifetime,  \* jwt_refresh_token_expire_days, in ticks of the clock
  Retention, \* refresh_token_cleanup_retention_days, in ticks
  MaxDelay,  \* bound on the time from reading the clock to the COMMIT
  MaxClock   \* bound on the clock

ASSUME LoopAssumption ==
  /\ Interval \in Nat /\ Lifetime \in Nat /\ Retention \in Nat
  /\ MaxDelay \in Nat /\ MaxClock \in Nat
  /\ EventLoop \notin Threads /\ NULL \notin Nat

VARIABLES
  clock,
  rows,   \* the time from which the cleanup deletes each row, NULL for no row
  status, \* _LAST_CLEANUP_STATE; its message is set exactly when ok is not
  phase,  \* of the process: what lifespan is doing
  loop,   \* the task of _refresh_token_cleanup_loop
  job     \* the cleanup that each thread runs, and the time it read

vars == <<clock, rows, status, phase, loop, job>>

Times == 0 .. MaxClock
Workers == Threads \cup {EventLoop}
Phases == {"startup", "running", "stopping", "stopped"}
LoopStates == {"runnable", "cleaning", "waiting", "ended"}

NoJob == [stage |-> "idle", now |-> 0]
NeverRun == [ok |-> TRUE, last_run_at |-> NULL]

Init ==
  /\ clock = 0
  /\ rows = [r \in Rows |-> NULL]
  /\ status = NeverRun
  /\ phase = "startup"
  /\ loop = "runnable"
  /\ job = [w \in Workers |-> NoJob]

-----------------------------------------------------------------------------
(* Time passes, and handlers store rows and revoke them.                   *)
Tick ==
  /\ clock < MaxClock
  /\ clock' = clock + 1
  /\ UNCHANGED <<rows, status, phase, loop, job>>

StoreRow(r, now) ==
  /\ phase = "running"
  /\ rows[r] = NULL
  /\ rows' = [rows EXCEPT ![r] = now + Lifetime + Retention]
  /\ UNCHANGED <<clock, status, phase, loop, job>>

RevokeRow(r, now) ==
  /\ phase = "running"
  /\ rows[r] # NULL /\ rows[r] > now + Retention
  /\ rows' = [rows EXCEPT ![r] = now + Retention]
  /\ UNCHANGED <<clock, status, phase, loop, job>>

(* The handlers have read the time before they commit.                     *)
Write ==
  \E r \in Rows, now \in Times :
    /\ now <= clock /\ clock <= now + MaxDelay
    /\ StoreRow(r, now) \/ RevokeRow(r, now)

-----------------------------------------------------------------------------
(* cleanup_refresh_tokens reads the time, ...                              *)
Begin(w) == job' = [job EXCEPT ![w] = [stage |-> "delete", now |-> clock]]

Due(r, now) == rows[r] # NULL /\ rows[r] <= now

(* ... deletes and commits, ...                                            *)
Delete(w) ==
  /\ job[w].stage = "delete"
  /\ rows' = [r \in Rows |-> IF Due(r, job[w].now) THEN NULL ELSE rows[r]]
  /\ job' = [job EXCEPT ![w].stage = "report"]
  /\ UNCHANGED <<clock, status, phase, loop>>

(* A database error: the login fails, the event loop catches it.           *)
DeleteFails(w) ==
  /\ job[w].stage = "delete"
  /\ job' = [job EXCEPT ![w] = IF w = EventLoop THEN [@ EXCEPT !.stage = "failed"]
                                               ELSE NoJob]
  /\ UNCHANGED <<clock, rows, status, phase, loop>>

(* When the event loop is done with a cleanup, startup is over, or the     *)
(* background loop waits for the interval.                                 *)
Finish(w, after) ==
  /\ job' = [job EXCEPT ![w] = NoJob]
  /\ IF w = EventLoop /\ phase = "startup"
       THEN phase' = "running" /\ UNCHANGED loop
       ELSE /\ loop' = IF w = EventLoop THEN after ELSE loop
            /\ UNCHANGED phase
  /\ UNCHANGED <<clock, rows>>

(* Mutant of Reported: the time of the next run.                           *)
ReportedNext(now) == [ok |-> TRUE, last_run_at |-> now + Interval]

(* Mutant of Reported: the time is read again.                             *)
ReportedNow(now) == [ok |-> TRUE, last_run_at |-> clock]

Reported(now) == [ok |-> TRUE, last_run_at |-> now]

(* ... and updates the status with the time it read.                       *)
Report(w) ==
  /\ job[w].stage = "report"
  /\ status' = Reported(job[w].now)
  /\ Finish(w, "waiting")

(* Mutant of AfterFailure: the error escapes and ends the loop.            *)
AfterFailureEnds == "ended"

AfterFailure == "waiting"

(* mark_cleanup_failure reads the time anew.                               *)
MarkFailure(w) ==
  /\ job[w].stage = "failed"
  /\ status' = [ok |-> FALSE, last_run_at |-> clock]
  /\ Finish(w, AfterFailure)

-----------------------------------------------------------------------------
(* Who cleans up: the startup, ...                                         *)
StartupBegin ==
  /\ phase = "startup"
  /\ job[EventLoop].stage = "idle"
  /\ Begin(EventLoop)
  /\ UNCHANGED <<clock, rows, status, phase, loop>>

(* ... the loop, unless the interval turns it off; its task first runs     *)
(* when the startup awaits, ...                                            *)
LoopBegin ==
  /\ phase = "running"
  /\ loop = "runnable"
  /\ IF Interval > 0
       THEN loop' = "cleaning" /\ Begin(EventLoop)
       ELSE loop' = "ended" /\ UNCHANGED job
  /\ UNCHANGED <<clock, rows, status, phase>>

(* ... again after each interval, ...                                      *)
LoopTimeout ==
  /\ phase = "running"
  /\ loop = "waiting"
  /\ loop' = "runnable"
  /\ UNCHANGED <<clock, rows, status, phase, job>>

(* ... and logins.                                                         *)
LoginBegin(w) ==
  /\ phase = "running"
  /\ job[w].stage = "idle"
  /\ Begin(w)
  /\ UNCHANGED <<clock, rows, status, phase, loop>>

(* Shutdown, once the event loop is free: the loop is told to stop and     *)
(* its task cancelled.  A task that waits, or has not begun, is cancelled; *)
(* one whose timeout has come finds the event set.                         *)
Shutdown ==
  /\ phase = "running"
  /\ job[EventLoop].stage = "idle"
  /\ phase' = "stopping"
  /\ UNCHANGED <<clock, rows, status, loop, job>>

(* Mutant of Cancelled: a task that waits is not cancelled.                *)
CancelledRunnable == {"runnable"}

Cancelled == {"runnable", "waiting"}

LoopCancelled ==
  /\ phase = "stopping"
  /\ loop \in Cancelled
  /\ loop' = "ended"
  /\ UNCHANGED <<clock, rows, status, phase, job>>

Stopped ==
  /\ phase = "stopping"
  /\ loop = "ended"
  /\ phase' = "stopped"
  /\ UNCHANGED <<clock, rows, status, loop, job>>

(* The process is started again, after a shutdown or a crash.              *)
Restart ==
  /\ status' = NeverRun
  /\ phase' = "startup"
  /\ loop' = "runnable"
  /\ job' = [w \in Workers |-> NoJob]
  /\ UNCHANGED <<clock, rows>>

-----------------------------------------------------------------------------
Clean(w) == Delete(w) \/ DeleteFails(w) \/ Report(w) \/ MarkFailure(w)

Lifespan == StartupBegin \/ LoopBegin \/ LoopTimeout \/ LoopCancelled \/ Stopped

Next ==
  \/ Tick
  \/ Write
  \/ \E w \in Workers : Clean(w)
  \/ \E w \in Threads : LoginBegin(w)
  \/ Lifespan
  \/ Shutdown
  \/ Restart

Spec == Init /\ [][Next]_vars

(* The event loop runs what is ready, timers included, and of the cleanups *)
(* it tries again and again, some reach the database.                      *)
FairSpec ==
  /\ Spec
  /\ WF_vars(Clean(EventLoop)) /\ WF_vars(Lifespan)
  /\ SF_vars(Delete(EventLoop))
-----------------------------------------------------------------------------
(* The process, the rows and the status keep their types, and the event    *)
(* loop does one thing at a time.                                          *)
TypeOK ==
  /\ clock \in Times
  /\ rows \in [Rows -> Nat \cup {NULL}]
  /\ status \in [ok : BOOLEAN, last_run_at : Times \cup {NULL}]
  /\ phase \in Phases /\ loop \in LoopStates
  /\ job \in [Workers -> [stage : {"idle", "delete", "report", "failed"}, now : Times]]
  /\ loop = "cleaning" => phase = "running" /\ job[EventLoop].stage # "idle"

(* Nothing was left to do at that time: no row was due.  But one that was  *)
(* revoked or stored by a handler that had read the clock before may be,   *)
(* if the handler took longer than the retention.                          *)
Cleaned(time) ==
  \A r \in Rows : rows[r] # NULL =>
    rows[r] > time \/ rows[r] + MaxDelay >= time + Retention

(* The monitor can trust the status: if the last cleanup was ok, no row    *)
(* that was due at last_run_at is left, although cleanups overlap, report  *)
(* in another order than they delete, and fail; but for what a handler     *)
(* committed that had read the clock more than the retention before.       *)
OkMeansClean ==
  status.ok /\ status.last_run_at # NULL => Cleaned(status.last_run_at)

(* If the loop is turned on, no failure of it is the last: a row that is   *)
(* due goes in the end, or the process is stopped.                         *)
DueRowsGo ==
  Interval > 0 =>
    \A r \in Rows :
      rows[r] # NULL /\ rows[r] <= clock ~> rows[r] = NULL \/ phase = "stopped"

(* Shutdown ends, whatever the loop is doing when it is told to.           *)
ShutdownEnds == phase = "stopping" ~> phase # "stopping"
=============================================================================
