------------------------------- MODULE Monitor -------------------------------
(***************************************************************************)
(* GET /health/monitor beside the cleanups it reports on: app/api/routes/  *)
(* health.py and app/core/monitoring.py.  The handler runs in a thread.    *)
(* It reads the cleanup status first, then probes URLs one after the other *)
(* (those of the configuration, then those of the request), each for up to *)
(* monitor_http_timeout_seconds, and then answers: the status it reports   *)
(* is as old as its probes take.                                           *)
(***************************************************************************)
EXTENDS CleanupLoop

CONSTANTS
  ExternalChecks,   \* how many URLs MONITOR_CHECK_URLS lists
  MaxExtraChecks    \* bound on the URLs a request lists in extra_urls

ASSUME MonitorAssumption == ExternalChecks \in Nat /\ MaxExtraChecks \in Nat

VARIABLE report   \* the report of the request that is served, or was last

monitor_vars == <<vars, report>>

ReportStages == {"none", "external", "extra", "sent"}

(* cleanup is the check refresh_cleanup_job, left how many probes are to   *)
(* be done, failures how many have failed, overall_ok what is reported.    *)
NoReport == [stage |-> "none", cleanup |-> NeverRun, extra |-> 0, left |-> 0,
             failures |-> 0, overall_ok |-> FALSE]

MonitorInit == Init /\ report = NoReport

(* The status is read; extra is how many URLs the request lists.           *)
MonitorBegin(extra) ==
  /\ phase = "running"
  /\ report.stage \in {"none", "sent"}
  /\ report' = [NoReport EXCEPT !.stage = "external", !.cleanup = status,
                                !.extra = extra, !.left = ExternalChecks]
  /\ UNCHANGED vars

(* _check_http_url: an answer of 2xx, or another one, or an error, all of  *)
(* which are caught.                                                       *)
Probe ==
  /\ report.stage \in {"external", "extra"} /\ report.left > 0
  /\ \E failed \in {0, 1} :
       report' = [report EXCEPT !.left = @ - 1, !.failures = @ + failed]
  /\ UNCHANGED vars

(* Mutant of OverallOk: the cleanup is not among the checks.               *)
OverallProbes(r) == r.failures = 0

(* build_monitor_report: all its checks are ok; that of the rate limiter   *)
(* always is.                                                              *)
OverallOk(r) == r.cleanup.ok /\ r.failures = 0

ReportBuilt ==
  /\ report.stage = "external" /\ report.left = 0
  /\ report' = [report EXCEPT !.stage = "extra", !.left = report.extra, !.extra = 0,
                              !.failures = 0, !.overall_ok = OverallOk(report)]
  /\ UNCHANGED vars

(* monitor_status: the extra checks can only spoil the report.             *)
MonitorRespond ==
  /\ report.stage = "extra" /\ report.left = 0
  /\ report' = [report EXCEPT !.stage = "sent", !.failures = 0,
                              !.overall_ok = @ /\ report.failures = 0]
  /\ UNCHANGED vars

MonitorStep ==
  \/ \E extra \in 0 .. MaxExtraChecks : MonitorBegin(extra)
  \/ Probe
  \/ ReportBuilt
  \/ MonitorRespond

(* A restart takes the request with it.                                    *)
MonitorNext ==
  \/ MonitorStep
  \/ Next /\ report' = IF phase' = "startup" THEN NoReport ELSE report

MonitorSpec ==
  /\ MonitorInit /\ [][MonitorNext]_monitor_vars
  /\ WF_vars(Clean(EventLoop)) /\ WF_vars(Lifespan)
  /\ SF_vars(Delete(EventLoop))
-----------------------------------------------------------------------------
(* An ok report is true when it is sent, although its probes took time and *)
(* cleanups ran, overlapped and failed meanwhile: a cleanup has run since  *)
(* the process started, and no row due at the time the report gives for it *)
(* is left in the table, but for what a handler committed that had read    *)
(* the clock more than the retention before.                               *)
MonitorHonest ==
  report.stage = "sent" /\ report.overall_ok =>
    /\ report.cleanup.last_run_at # NULL
    /\ Cleaned(report.cleanup.last_run_at)
=============================================================================
