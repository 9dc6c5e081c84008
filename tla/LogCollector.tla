---------------------------- MODULE LogCollector ----------------------------
(***************************************************************************)
(* The records that requests log, on their way to the monitor: the trace   *)
(* id of app/core/tracing.py, the security events of                       *)
(* app/core/security_audit.py and the buffer of app/core/log_collector.py, *)
(* wired together in app/main.py.                                          *)
(*                                                                         *)
(* A record goes to its logger, if the logger's level lets it pass, then   *)
(* to the handlers of the root logger.  The filters of the root logger see *)
(* only what is logged through the root logger itself; that is how         *)
(* Python's logging, which is external, propagates records.                *)
(***************************************************************************)
EXTENDS Naturals, SequencesExt

CONSTANTS
  Tasks,      \* requests served at the same time, each in its own context
  Traces,     \* trace ids: of an X-Trace-Id header, or new ones
  NULL,       \* no trace id
  RootLevel,  \* the root logger's level, which the others inherit: WARNING
              \* by default, and main.py sets none
  MaxEntries, \* _MAX_ENTRIES
  MaxRecords  \* bound on the records that are logged

VARIABLES
  trace,   \* TRACE_ID in each task's context
  logs,    \* _logs
  emitted  \* history: the trace id in whose context each record was logged

vars == <<trace, logs, emitted>>

Loggers == {"root", "security", "library"}
INFO == 20
WARNING == 30

Init ==
  /\ trace = [t \in Tasks |-> NULL]
  /\ logs = <<>>
  /\ emitted = <<>>

(* trace_id_middleware, before and after the handler.                      *)
Enter(t, x) ==
  /\ trace[t] = NULL
  /\ trace' = [trace EXCEPT ![t] = x]
  /\ UNCHANGED <<logs, emitted>>

Leave(t) ==
  /\ trace[t] # NULL
  /\ trace' = [trace EXCEPT ![t] = NULL]
  /\ UNCHANGED <<logs, emitted>>

(* TraceIdFilter sets record.trace_id on the records it is applied to.     *)
Filtered(t, logger) == IF logger = "root" THEN trace[t] ELSE NULL

(* InMemoryLogHandler.emit: the deque drops its oldest entry when full.    *)
Appended(entry) ==
  LET all == Append(logs, entry)
  IN  IF Len(all) > MaxEntries THEN Tail(all) ELSE all

Log(t, logger, level) ==
  /\ level >= RootLevel
  /\ Len(emitted) < MaxRecords
  /\ logs' = Appended([logger |-> logger, level |-> level,
                       trace_id |-> Filtered(t, logger)])
  /\ emitted' = Append(emitted, trace[t])
  /\ UNCHANGED trace

(* log_security_event, in a request; and what libraries log, in requests   *)
(* and in the background.                                                  *)
LogSecurityEvent(t) == trace[t] # NULL /\ Log(t, "security", INFO)

LogOther(t) == \E logger \in {"root", "library"} : Log(t, logger, WARNING)

(* get_recent_logs: the newest first.                                      *)
RecentLogs(limit) ==
  LET first == IF limit < Len(logs) THEN Len(logs) - limit + 1 ELSE 1
  IN  IF limit <= 0 THEN <<>> ELSE Reverse(SubSeq(logs, first, Len(logs)))

Next ==
  \E t \in Tasks :
    \/ \E x \in Traces : Enter(t, x)
    \/ Leave(t)
    \/ LogSecurityEvent(t)
    \/ LogOther(t)

Spec == Init /\ [][Next]_vars
-----------------------------------------------------------------------------
(* "Attach trace_id to logging records when available": a log entry that   *)
(* the monitor shows carries the trace id of the request it comes from.    *)
TraceIdsAttached ==
  LET recent == RecentLogs(MaxEntries)
  IN  \A i \in 1 .. Len(recent) :
        recent[i].trace_id = emitted[Len(emitted) + 1 - i]
=============================================================================
