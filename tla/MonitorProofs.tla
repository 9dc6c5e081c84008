---------------------------- MODULE MonitorProofs ----------------------------
(***************************************************************************)
(* The cleanup status and the monitor's report can be trusted, for any     *)
(* number of rows, threads and probes, any interval, lifetime and          *)
(* retention, none included, and any delay of the handlers that commit.    *)
(***************************************************************************)
EXTENDS Monitor, TLAPS

USE LoopAssumption, MonitorAssumption

(* Cleaned, of a table.                                                    *)
NoneDue(table, time) ==
  \A r \in Rows : table[r] # NULL =>
    table[r] > time \/ table[r] + MaxDelay >= time + Retention

(* Why a status that says ok is true however cleanups overlap: from the    *)
(* moment a cleanup has deleted until it reports, what was due at the time *)
(* it read stays away, because a row that is stored or revoked later has   *)
(* its retention before it, less the delay of its handler; and the time it *)
(* read is not of the future.                                              *)
CleanupsHonest ==
  \A w \in Workers :
    /\ job[w].now <= clock
    /\ job[w].stage = "report" => NoneDue(rows, job[w].now)

(* The status is true, and only during the startup it is of no cleanup.    *)
Trusted(state, table, time) ==
  /\ state.last_run_at # NULL => state.last_run_at <= time
  /\ state.ok /\ state.last_run_at # NULL => NoneDue(table, state.last_run_at)

LoopInv ==
  /\ TypeOK
  /\ CleanupsHonest
  /\ Trusted(status, rows, clock)
  /\ status.ok /\ status.last_run_at = NULL => phase = "startup"

-----------------------------------------------------------------------------
(* Time does not run backwards.                                            *)
LEMMA ClockRuns ==
  ASSUME TypeOK, [Next]_vars
  PROVE  clock \in Nat /\ clock' \in Nat /\ clock <= clock'
<1>1. CASE UNCHANGED clock
  BY <1>1 DEF TypeOK, Times
<1>2. CASE Tick
  BY <1>2 DEF Tick, TypeOK, Times
<1>. QED
  BY <1>1, <1>2 DEF Next, Write, StoreRow, RevokeRow, Clean, Delete, DeleteFails,
     Report, MarkFailure, Finish, LoginBegin, Lifespan, StartupBegin, LoopBegin,
     LoopTimeout, LoopCancelled, Stopped, Shutdown, Restart, vars

(* Rows that are stored, revoked or deleted leave nothing due at a time    *)
(* that is not of the future.                                              *)
LEMMA NothingDueAgain ==
  ASSUME TypeOK, [Next]_vars, NEW time \in Nat, time <= clock, NoneDue(rows, time)
  PROVE  NoneDue(rows', time) /\ clock <= clock'
<1>1. CASE UNCHANGED rows /\ clock \in Nat /\ clock' \in {clock, clock + 1}
  BY <1>1 DEF NoneDue
<1>2. CASE Write
  <2>1. PICK r \in Rows, now \in Times :
          now <= clock /\ clock <= now + MaxDelay /\ (StoreRow(r, now) \/ RevokeRow(r, now))
    BY <1>2 DEF Write
  <2>2. /\ now + Lifetime + Retention + MaxDelay >= time + Retention
        /\ now + Retention + MaxDelay >= time + Retention
        /\ now \in Nat /\ clock' = clock /\ clock \in Nat
    BY <2>1 DEF StoreRow, RevokeRow, TypeOK, Times
  <2>. QED
    BY <2>1, <2>2 DEF StoreRow, RevokeRow, NoneDue, TypeOK
<1>3. ASSUME NEW w \in Workers, Delete(w)
      PROVE  NoneDue(rows', time) /\ clock <= clock'
  BY <1>3 DEF Delete, NoneDue, TypeOK, Times
<1>4. ASSUME Tick \/ (\E w \in Workers : DeleteFails(w) \/ Report(w) \/ MarkFailure(w))
             \/ (\E w \in Threads : LoginBegin(w)) \/ Lifespan \/ Shutdown \/ Restart
             \/ UNCHANGED vars
      PROVE  UNCHANGED rows /\ clock \in Nat /\ clock' \in {clock, clock + 1}
  BY <1>4 DEF Tick, DeleteFails, Report, MarkFailure, Finish, LoginBegin, Lifespan,
              StartupBegin, LoopBegin, LoopTimeout, LoopCancelled, Stopped, Shutdown,
              Restart, vars, TypeOK, Times
<1>. QED
  BY <1>1, <1>2, <1>3, <1>4 DEF Next, Clean

(* What was trusted stays true.                                            *)
LEMMA StillTrusted ==
  ASSUME TypeOK, [Next]_vars,
         NEW state \in [ok : BOOLEAN, last_run_at : Times \cup {NULL}],
         Trusted(state, rows, clock)
  PROVE  Trusted(state, rows', clock')
<1>1. CASE state.last_run_at = NULL
  BY <1>1 DEF Trusted
<1>2. CASE state.last_run_at # NULL
  <2>1. state.last_run_at \in Nat /\ state.last_run_at <= clock /\ clock \in Nat
    BY <1>2 DEF Trusted, TypeOK, Times
  <2>2. clock <= clock' /\ clock' \in Nat
    BY ClockRuns
  <2>. QED
    BY <1>2, <2>1, <2>2, NothingDueAgain DEF Trusted
<1>. QED
  BY <1>1, <1>2

-----------------------------------------------------------------------------
(* What a call of the cleanup is doing.                                    *)
Job == [stage : {"idle", "delete", "report", "failed"}, now : Times]

(* Every step keeps the types; the loop waits while it is cleaning up.     *)
LEMMA LoopTypes ==
  ASSUME TypeOK, [Next]_vars
  PROVE  TypeOK'
<1> USE DEF TypeOK, Times
<1>1. CASE Tick
  BY <1>1 DEF Tick
<1>2. CASE Write
  BY <1>2 DEF Write, StoreRow, RevokeRow
<1>3. ASSUME NEW w \in Workers, Clean(w) PROVE TypeOK'
  <2>1. CASE Delete(w)
    BY <2>1 DEF Delete
  <2>2. CASE DeleteFails(w)
    BY <2>2 DEF DeleteFails, NoJob
  <2>3. CASE Report(w) \/ MarkFailure(w)
    <3>1. status' \in [ok : BOOLEAN, last_run_at : Times \cup {NULL}]
      <4>1. job[w].now \in Times /\ clock \in Times
        OBVIOUS
      <4>2. status' = [ok |-> TRUE, last_run_at |-> job[w].now]
            \/ status' = [ok |-> FALSE, last_run_at |-> clock]
        BY <2>3 DEF Report, MarkFailure, Reported
      <4>3. \A b \in BOOLEAN, time \in Times :
              [ok |-> b, last_run_at |-> time]
                \in [ok : BOOLEAN, last_run_at : Times \cup {NULL}]
        OBVIOUS
      <4>. QED
        BY <4>1, <4>2, <4>3
    <3>2. /\ UNCHANGED <<clock, rows>> /\ job' = [job EXCEPT ![w] = NoJob]
          /\ phase' \in Phases /\ loop' \in LoopStates
          /\ loop' = "cleaning" =>
               loop = "cleaning" /\ phase' = phase /\ w # EventLoop
      <4>1. ASSUME NEW after \in {"waiting"}, Finish(w, after)
            PROVE  /\ UNCHANGED <<clock, rows>> /\ job' = [job EXCEPT ![w] = NoJob]
                   /\ phase' \in Phases /\ loop' \in LoopStates
                   /\ loop' = "cleaning" =>
                        loop = "cleaning" /\ phase' = phase /\ w # EventLoop
        BY <4>1 DEF Finish, Phases, LoopStates
      <4>. QED
        BY <2>3, <4>1 DEF Report, MarkFailure, AfterFailure
    <3>3. job' \in [Workers -> Job]
      BY <3>2 DEF NoJob, Job
    <3>4. w # EventLoop => job'[EventLoop] = job[EventLoop]
      BY <3>2 DEF Workers
    <3>. QED
      BY <3>1, <3>2, <3>3, <3>4 DEF Job
  <2>. QED
    BY <1>3, <2>1, <2>2, <2>3 DEF Clean
<1>4. ASSUME NEW w \in Threads, LoginBegin(w) PROVE TypeOK'
  BY <1>4 DEF LoginBegin, Begin, Workers
<1>5. CASE StartupBegin \/ LoopBegin
  BY <1>5 DEF StartupBegin, LoopBegin, Begin, Workers, LoopStates
<1>6. CASE LoopTimeout \/ LoopCancelled \/ Stopped \/ Shutdown
  BY <1>6 DEF LoopTimeout, LoopCancelled, Stopped, Shutdown, Phases, LoopStates
<1>7. CASE Restart
  BY <1>7 DEF Restart, NeverRun, NoJob, Phases, LoopStates
<1>8. CASE UNCHANGED vars
  BY <1>8 DEF vars
<1>. QED
  BY <1>1, <1>2, <1>3, <1>4, <1>5, <1>6, <1>7, <1>8 DEF Next, Lifespan

(* A cleanup that moves deletes, fails, ends or begins with the time.      *)
LEMMA JobMoves ==
  ASSUME TypeOK, [Next]_vars, NEW w \in Workers
  PROVE  \/ job'[w] = job[w] \/ Delete(w)
         \/ job'[w] \in {NoJob, [job[w] EXCEPT !.stage = "failed"],
                         [stage |-> "delete", now |-> clock]}
<1>1. job \in [Workers -> Job]
  BY DEF TypeOK, Job
<1>2. ASSUME NEW v \in Workers, Clean(v)
      PROVE  \/ job'[w] = job[w] \/ Delete(w)
             \/ job'[w] \in {NoJob, [job[w] EXCEPT !.stage = "failed"]}
  BY <1>1, <1>2 DEF Clean, Delete, DeleteFails, Report, MarkFailure, Finish
<1>3. ASSUME NEW v \in Workers, Begin(v)
      PROVE  job'[w] = job[w] \/ job'[w] = [stage |-> "delete", now |-> clock]
  BY <1>1, <1>3 DEF Begin
<1>4. CASE UNCHANGED job
  BY <1>4
<1>5. CASE Restart
  BY <1>5 DEF Restart
<1>. QED
  BY <1>2, <1>3, <1>4, <1>5
     DEF Next, Tick, Write, StoreRow, RevokeRow, LoginBegin, Lifespan, StartupBegin, LoopBegin,
         LoopTimeout, LoopCancelled, Stopped, Shutdown, vars, Workers

(* Every step keeps the cleanups honest: one that deletes takes all that   *)
(* was due when it read the time.                                          *)
LEMMA CleanupsStayHonest ==
  ASSUME LoopInv, [Next]_vars, NEW w \in Workers
  PROVE  job'[w].now <= clock' /\ (job'[w].stage = "report" => NoneDue(rows', job'[w].now))
<1>1. TypeOK /\ job \in [Workers -> Job]
  BY DEF LoopInv, TypeOK, Job
<1>2. clock \in Nat /\ clock' \in Nat /\ clock <= clock'
  BY <1>1, ClockRuns
<1>3. job[w] \in Job /\ job[w].now \in Nat /\ job[w].now <= clock
  BY <1>1 DEF LoopInv, CleanupsHonest, Job, Times
<1>4. CASE job'[w] = job[w]
  <2>1. ASSUME job[w].stage = "report" PROVE NoneDue(rows', job[w].now)
    BY <1>1, <1>3, <2>1, NothingDueAgain DEF LoopInv, CleanupsHonest
  <2>. QED
    BY <1>2, <1>3, <1>4, <2>1
<1>5. CASE Delete(w)
  <2>1. job'[w].now = job[w].now /\ clock' = clock
    BY <1>1, <1>5 DEF Delete, Job
  <2>2. \A r \in Rows : rows'[r] # NULL =>
          rows'[r] = rows[r] /\ rows[r] \in Nat /\ ~(rows[r] <= job[w].now)
    BY <1>1, <1>5 DEF Delete, Due, TypeOK
  <2>3. \A r \in Rows : rows'[r] # NULL => rows'[r] > job[w].now
    BY <1>3, <2>2
  <2>. QED
    BY <1>3, <2>1, <2>3 DEF NoneDue
<1>6. CASE job'[w] \in {NoJob, [job[w] EXCEPT !.stage = "failed"],
                        [stage |-> "delete", now |-> clock]}
  BY <1>2, <1>3, <1>6 DEF NoJob, Job
<1>. QED
  BY <1>1, <1>4, <1>5, <1>6, JobMoves

(* The status stays true when a cleanup reports, and a startup is over     *)
(* only once it has reported or failed.                                    *)
LEMMA StatusStaysTrue ==
  ASSUME LoopInv, [Next]_vars
  PROVE  /\ Trusted(status, rows, clock)'
         /\ (status.ok /\ status.last_run_at = NULL => phase = "startup")'
<1>1. /\ TypeOK /\ job \in [Workers -> Job]
      /\ clock \in Nat /\ clock' \in Nat /\ clock <= clock'
  BY ClockRuns DEF LoopInv, TypeOK, Job
<1>2. CASE status' = status /\ (phase = "startup" => phase' = "startup")
  <2>1. Trusted(status, rows', clock')
    BY <1>1, StillTrusted DEF LoopInv, TypeOK
  <2>. QED
    BY <1>2, <2>1 DEF LoopInv
<1>3. ASSUME NEW w \in Workers, Report(w) \/ MarkFailure(w)
      PROVE  /\ Trusted(status, rows, clock)'
             /\ status'.last_run_at # NULL
  <2>1. job[w].now \in Nat /\ job[w].now <= clock
    BY <1>1 DEF LoopInv, CleanupsHonest, Job, Times
  <2>2. UNCHANGED <<clock, rows>>
    BY <1>3 DEF Report, MarkFailure, Finish
  <2>3. CASE Report(w)
    BY <1>1, <2>1, <2>2, <2>3 DEF Report, Reported, Trusted, LoopInv, CleanupsHonest
  <2>4. CASE MarkFailure(w)
    BY <1>1, <2>2, <2>4 DEF MarkFailure, Trusted
  <2>. QED
    BY <1>3, <2>3, <2>4
<1>4. CASE Restart
  BY <1>4 DEF Restart, NeverRun, Trusted
<1>. QED
  BY <1>2, <1>3, <1>4
     DEF Next, Tick, Write, StoreRow, RevokeRow, Clean, Delete, DeleteFails, LoginBegin,
         Lifespan, StartupBegin, LoopBegin, LoopTimeout, LoopCancelled, Stopped,
         Shutdown, vars

(* It holds when the process starts.                                       *)
LEMMA LoopInvInit == Init => LoopInv
BY DEF Init, LoopInv, TypeOK, CleanupsHonest, Trusted, NeverRun, NoJob, Times, Phases,
       LoopStates

(* So cleanups that overlap, fail and report out of order keep it all.     *)
LEMMA LoopInvStays == LoopInv /\ [Next]_vars => LoopInv'
<1> SUFFICES ASSUME LoopInv, [Next]_vars PROVE LoopInv'
  OBVIOUS
<1>1. TypeOK'
  BY LoopTypes DEF LoopInv
<1>2. CleanupsHonest'
  BY CleanupsStayHonest DEF CleanupsHonest
<1>. QED
  BY <1>1, <1>2, StatusStaysTrue DEF LoopInv

-----------------------------------------------------------------------------
(* The monitor's report holds a status that was true when it was read, and *)
(* is ok only if that status is.                                           *)
Reports == [stage : ReportStages,
            cleanup : [ok : BOOLEAN, last_run_at : Times \cup {NULL}],
            extra : Nat, left : Nat, failures : Nat, overall_ok : BOOLEAN]

ReportHonest ==
  /\ report \in Reports
  /\ Trusted(report.cleanup, rows, clock)
  /\ report.stage # "none" => ~(report.cleanup.ok /\ report.cleanup.last_run_at = NULL)
  /\ report.overall_ok => report.stage # "none" /\ report.cleanup.ok

MonitorInv == LoopInv /\ ReportHonest

(* The steps of the request: the status is read once the startup is over,  *)
(* and the report keeps it.                                                *)
LEMMA RequestHonest ==
  ASSUME MonitorInv, MonitorStep
  PROVE  ReportHonest'
<1> USE DEF MonitorInv, ReportHonest
<1>1. UNCHANGED vars
  BY DEF MonitorStep, MonitorBegin, Probe, ReportBuilt, MonitorRespond
<1>2. UNCHANGED <<rows, clock, phase, status>>
  BY <1>1 DEF vars
<1>3. ASSUME NEW extra \in 0 .. MaxExtraChecks, MonitorBegin(extra)
      PROVE  ReportHonest'
  <2>1. /\ status \in [ok : BOOLEAN, last_run_at : Times \cup {NULL}]
        /\ Trusted(status, rows, clock)
        /\ ~(status.ok /\ status.last_run_at = NULL)
    BY <1>3 DEF LoopInv, TypeOK, MonitorBegin
  <2>2. report' = [stage |-> "external", cleanup |-> status, extra |-> extra,
                   left |-> ExternalChecks, failures |-> 0, overall_ok |-> FALSE]
    BY <1>3 DEF MonitorBegin, NoReport
  <2>3. report' \in Reports
    <3>1. "external" \in ReportStages /\ extra \in Nat /\ 0 \in Nat /\ FALSE \in BOOLEAN
      BY DEF ReportStages
    <3>. QED
      BY <2>1, <2>2, <3>1 DEF Reports
  <2>. QED
    BY <1>2, <2>1, <2>2, <2>3
<1>4. CASE Probe
  <2>1. PICK failed \in {0, 1} :
          report' = [report EXCEPT !.left = report.left - 1,
                                   !.failures = report.failures + failed]
    BY <1>4 DEF Probe
  <2>2. report.left - 1 \in Nat /\ report.failures + failed \in Nat
    <3>1. report.left \in Nat \ {0} /\ report.failures \in Nat
      BY <1>4 DEF Probe, Reports
    <3>. QED
      BY <3>1
  <2>3. /\ report' \in Reports
        /\ report'.stage = report.stage /\ report'.cleanup = report.cleanup
        /\ report'.overall_ok = report.overall_ok
    BY <2>1, <2>2 DEF Reports
  <2>. QED
    BY <1>2, <2>3
<1>5. CASE ReportBuilt
  BY <1>2, <1>5 DEF ReportBuilt, OverallOk, Reports, ReportStages
<1>6. CASE MonitorRespond
  BY <1>2, <1>6 DEF MonitorRespond, Reports, ReportStages
<1>. QED
  BY <1>3, <1>4, <1>5, <1>6 DEF MonitorStep

(* Other steps leave the report alone, or take it with the process.        *)
LEMMA ReportStays ==
  ASSUME MonitorInv, [Next]_vars, report' \in {report, NoReport}
  PROVE  ReportHonest'
<1>1. CASE report' = report
  <2>1. TypeOK /\ report.cleanup \in [ok : BOOLEAN, last_run_at : Times \cup {NULL}]
    BY DEF MonitorInv, LoopInv, ReportHonest, Reports
  <2>2. Trusted(report.cleanup, rows', clock')
    BY <2>1, StillTrusted DEF MonitorInv, ReportHonest
  <2>. QED
    BY <1>1, <2>2 DEF MonitorInv, ReportHonest
<1>2. CASE report' = NoReport
  <2>1. NoReport \in Reports
    BY DEF NoReport, NeverRun, Reports, ReportStages
  <2>. QED
    BY <1>2, <2>1 DEF ReportHonest, NoReport, NeverRun, Trusted
<1>. QED
  BY <1>1, <1>2

(* All of this is kept, by the cleanups and by the requests.               *)
THEOREM MonitorInductive == MonitorSpec => []MonitorInv
<1>1. MonitorInit => MonitorInv
  <2> SUFFICES ASSUME MonitorInit PROVE MonitorInv
    OBVIOUS
  <2>1. NoReport \in Reports
    BY DEF NoReport, NeverRun, Reports, ReportStages
  <2>. QED
    BY <2>1, LoopInvInit DEF MonitorInit, MonitorInv, ReportHonest, NoReport, NeverRun, Trusted
<1>2. MonitorInv /\ [MonitorNext]_monitor_vars => MonitorInv'
  <2> SUFFICES ASSUME MonitorInv, [MonitorNext]_monitor_vars PROVE MonitorInv'
    OBVIOUS
  <2>1. MonitorStep => UNCHANGED vars
    BY DEF MonitorStep, MonitorBegin, Probe, ReportBuilt, MonitorRespond
  <2>2. [Next]_vars
    BY <2>1 DEF MonitorNext, monitor_vars
  <2>3. ReportHonest'
    BY <2>2, RequestHonest, ReportStays DEF MonitorNext, monitor_vars
  <2>. QED
    BY <2>2, <2>3, LoopInvStays DEF MonitorInv
<1>. QED
  BY <1>1, <1>2, PTL DEF MonitorSpec

(* The process, the rows and the status keep their types, and while the    *)
(* loop cleans up the process runs and the event loop does nothing else.   *)
THEOREM MonitorTypes == MonitorSpec => []TypeOK
<1>1. MonitorInv => TypeOK
  BY DEF MonitorInv, LoopInv
<1>. QED
  BY <1>1, MonitorInductive, PTL

(* A status that is ok is true: no row that was due at last_run_at is      *)
(* left, for any number of cleanups that overlap, fail, and report in      *)
(* another order than they delete, and any retention; but for what a       *)
(* handler committed that had read the clock more than that before.        *)
THEOREM StatusIsTrue == MonitorSpec => []OkMeansClean
<1>1. MonitorInv => OkMeansClean
  BY DEF MonitorInv, LoopInv, Trusted, NoneDue, Cleaned, OkMeansClean
<1>. QED
  BY <1>1, MonitorInductive, PTL

(* An ok report is true in the same way when it is sent, however long its  *)
(* probes take.                                                            *)
THEOREM ReportIsTrue == MonitorSpec => []MonitorHonest
<1>1. MonitorInv => MonitorHonest
  BY DEF MonitorInv, ReportHonest, Trusted, NoneDue, Cleaned, MonitorHonest
<1>. QED
  BY <1>1, MonitorInductive, PTL

=============================================================================
