------------------------------ MODULE EventLogs ------------------------------
(***************************************************************************)
(* The life of one event log: the request that uploads it, the task that     *)
(* processes the file, the mapping of its columns, the tasks that compute    *)
(* its statistics, and its deletion.  Messages of the broker are taken by    *)
(* any worker in any order, failed tasks are tried again, and a task that a  *)
(* worker has taken dies with the worker.                                    *)
(*                                                                         *)
(* A session's UPDATE has only the columns whose values differ from those    *)
(* it loaded.  Statistics are named after the mapping they are of.           *)
(***************************************************************************)
EXTENDS Service, FiniteSets

CONSTANTS
  Mappings,   \* column mappings a user may choose
  Raw,        \* the number of rows of the file
  Unset,      \* SQL NULL
  JobTries,   \* runs of a task: the first and its retries
  MaxMapped   \* bound of the mappings set

ASSUME EventLogsAssumption ==
  /\ Raw \notin Mappings /\ Unset \notin Mappings \cup {Raw}
  /\ JobTries \in Nat \ {0} /\ MaxMapped \in Nat

VARIABLES
  log,      \* the event_logs row and its file
  upload,   \* where the upload request is
  removal,  \* where the delete request is
  jobs,     \* messages and running tasks
  mapped,   \* mappings set so far
  spoilt,   \* a statistics task overlapped something, failed or died
  lost      \* the process died that was to process the file

logVars == <<log, upload, removal, jobs, mapped, spoilt, lost>>

NoLog == [exists |-> FALSE, file |-> FALSE, status |-> "processing",
          mapping |-> Unset, events |-> Unset, cases |-> Unset]

LogRow == [exists : BOOLEAN, file : BOOLEAN, status : {"processing", "ready", "error"},
           mapping : Mappings \cup {Unset}, events : Mappings \cup {Raw, Unset},
           cases : Mappings \cup {Unset}]

\* "row" is the row as the task loaded it.
Job(kind, stage, tries, row, others) ==
  [n |-> CHOOSE n \in 1..(Cardinality(others) + 1) : \A j \in others : j.n # n,
   kind |-> kind, stage |-> stage, tries |-> tries, row |-> row]

LogTypeOK ==
  /\ log \in LogRow
  /\ upload \in {"new", "stored", "inline", "over"}
  /\ removal \in {"none", "unlinked"}
  /\ \A j \in jobs : /\ j.kind \in {"process", "stats"} /\ j.stage \in {"queued", "loaded"}
                     /\ j.tries \in 1..JobTries /\ j.row \in LogRow
  /\ mapped \in 0..MaxMapped /\ spoilt \in BOOLEAN /\ lost \in BOOLEAN

LogInit ==
  /\ log = NoLog
  /\ upload = "new" /\ removal = "none"
  /\ jobs = {} /\ mapped = 0 /\ spoilt = FALSE /\ lost = FALSE

Logging == On("logs") /\ NoFault

Loaded(kinds) == {j \in jobs : j.stage = "loaded" /\ j.kind \in kinds}

----------------------------------------------------------------------------
(* upload_event_log                                                         *)

\* The file is written, then the row.
StoreUpload ==
  /\ upload = "new"
  /\ \/ Logging /\ log' = [NoLog EXCEPT !.file = TRUE, !.exists = TRUE] /\ upload' = "stored"
     \/ On("logs") /\ Fault /\ log' = [NoLog EXCEPT !.file = TRUE] /\ upload' = "over"
  /\ UNCHANGED <<removal, jobs, mapped, spoilt, lost>>

\* A standard log goes to the broker; an object-centric one, or one the broker
\* does not take, is processed by the request itself.
HandOver ==
  /\ Logging /\ upload = "stored"
  /\ jobs' = jobs \cup {Job("process", "queued", 1, NoLog, jobs)}
  /\ upload' = "over"
  /\ UNCHANGED <<log, removal, mapped, spoilt, lost>>

TakeInline ==
  /\ On("logs") /\ upload = "stored"
  /\ Fault \/ NoFault
  /\ upload' = "inline"
  /\ UNCHANGED <<log, removal, jobs, mapped, spoilt, lost>>

\* The request still has the row as it stored it.
ProcessInline ==
  /\ Logging /\ upload = "inline"
  /\ upload' = "over"
  /\ log' \in IF ~log.exists THEN {log}
              ELSE {[log EXCEPT !.status = "error"]}
                     \cup (IF log.file THEN {[log EXCEPT !.status = "ready", !.events = Raw]}
                           ELSE {})
  /\ spoilt' = (spoilt \/ mapped > 0)
  /\ UNCHANGED <<removal, jobs, mapped, lost>>

----------------------------------------------------------------------------
(* process_uploaded_file and compute_event_log_stats                        *)

Ended(j) == jobs' = jobs \ {j}

\* self.retry: a new message, until there were max_retries.
Again(j) ==
  jobs' = IF j.tries < JobTries
          THEN (jobs \ {j}) \cup {[j EXCEPT !.stage = "queued", !.tries = @ + 1, !.row = NoLog]}
          ELSE jobs \ {j}

Load(j) == jobs' = (jobs \ {j}) \cup {[j EXCEPT !.stage = "loaded", !.row = log]}

\* Two tasks at work on the row at one time.
Crossed == spoilt' = (spoilt \/ Loaded({"process", "stats"}) # {})

\* Mutant: a missing file is logged only.
FileMissingUnsaid == UNCHANGED log

FileMissing == log' = [log EXCEPT !.status = "error"]

ProcessLoad(j) ==
  /\ Logging /\ j.kind = "process" /\ j.stage = "queued"
  /\ \/ ~log.exists /\ Ended(j) /\ UNCHANGED <<log, spoilt>>
     \/ log.exists /\ ~log.file /\ Ended(j) /\ FileMissing /\ UNCHANGED spoilt
     \/ log.exists /\ log.file /\ Load(j) /\ Crossed /\ UNCHANGED log
  /\ UNCHANGED <<upload, removal, mapped, lost>>

Changed(j, column, value) == IF j.row[column] = value THEN log[column] ELSE value

\* Done; an UPDATE of a row that is gone raises.
ProcessCommit(j) ==
  /\ Logging /\ j.kind = "process" /\ j.stage = "loaded"
  /\ IF log.exists
     THEN /\ log' = [log EXCEPT !.events = Changed(j, "events", Raw),
                                !.status = Changed(j, "status", "ready")]
          /\ Ended(j)
     ELSE UNCHANGED log /\ Again(j)
  /\ spoilt' = (spoilt \/ mapped > 0)
  /\ UNCHANGED <<upload, removal, mapped, lost>>

\* The file cannot be read: the status says so, and the task tries again.
ProcessFail(j) ==
  /\ Logging /\ j.kind = "process" /\ j.stage = "loaded"
  /\ log' = IF log.exists THEN [log EXCEPT !.status = Changed(j, "status", "error")] ELSE log
  /\ Again(j)
  /\ UNCHANGED <<upload, removal, mapped, spoilt, lost>>

\* The commit fails, and with it the session that would say so.
ProcessCommitFails(j) ==
  /\ On("logs") /\ Fault /\ j.kind = "process" /\ j.stage = "loaded"
  /\ Again(j)
  /\ lost' = (lost \/ j.tries = JobTries)
  /\ UNCHANGED <<log, upload, removal, mapped, spoilt>>

\* Mutant: statistics are computed once.
StatsWantedOnce == log.exists /\ log.mapping # Unset /\ log.file /\ log.cases = Unset

StatsWanted == log.exists /\ log.mapping # Unset /\ log.file

StatsLoad(j) ==
  /\ Logging /\ j.kind = "stats" /\ j.stage = "queued"
  /\ \/ StatsWanted /\ Load(j) /\ Crossed
     \/ ~StatsWanted /\ Ended(j) /\ UNCHANGED spoilt
  /\ UNCHANGED <<log, upload, removal, mapped, lost>>

StatsCommit(j) ==
  /\ Logging /\ j.kind = "stats" /\ j.stage = "loaded"
  /\ IF log.exists
     THEN /\ log' = [log EXCEPT !.events = Changed(j, "events", j.row.mapping),
                                !.cases = Changed(j, "cases", j.row.mapping)]
          /\ Ended(j)
     ELSE UNCHANGED log /\ Again(j)
  /\ UNCHANGED <<upload, removal, mapped, spoilt, lost>>

\* The file does not fit the mapping, or the commit fails.
StatsFail(j) ==
  /\ Logging /\ j.kind = "stats" /\ j.stage = "loaded"
  /\ Again(j)
  /\ spoilt' = (spoilt \/ j.tries = JobTries)
  /\ UNCHANGED <<log, upload, removal, mapped, lost>>

\* A task is acknowledged when it is taken: it dies with its worker; so does
\* the request with its process.
WorkerDies ==
  /\ On("logs") /\ Fault
  /\ \/ \E j \in Loaded({"process", "stats"}) :
          /\ Ended(j)
          /\ spoilt' = TRUE
          /\ lost' = (lost \/ j.kind = "process")
          /\ UNCHANGED upload
     \/ /\ upload \in {"stored", "inline"}
        /\ upload' = "over" /\ lost' = TRUE
        /\ UNCHANGED <<jobs, spoilt>>
  /\ UNCHANGED <<log, removal, mapped>>

JobStep(j) ==
  \/ ProcessLoad(j) \/ ProcessCommit(j) \/ ProcessFail(j) \/ ProcessCommitFails(j)
  \/ StatsLoad(j) \/ StatsCommit(j) \/ StatsFail(j)

----------------------------------------------------------------------------
(* set_column_mapping and delete_event_log                                  *)

\* Committed first, then queued; without a broker the request computes the
\* statistics itself and does not try again.
SetMapping(m) ==
  /\ log.exists /\ log.file /\ mapped < MaxMapped /\ upload = "over"
  /\ log' = [log EXCEPT !.mapping = m]
  /\ mapped' = mapped + 1
  /\ \/ Logging /\ jobs' = jobs \cup {Job("stats", "queued", 1, NoLog, jobs)}
     \/ On("logs") /\ Fault /\ jobs' = jobs \cup {Job("stats", "loaded", JobTries, log', jobs)}
  /\ spoilt' = (spoilt \/ \E j \in jobs : j.kind = "process" \/ j.stage = "loaded")
  /\ UNCHANGED <<upload, removal, lost>>

\* The file first.
Unlink ==
  /\ Logging /\ log.exists /\ removal = "none" /\ upload # "new"
  /\ log' = [log EXCEPT !.file = FALSE]
  /\ removal' = "unlinked"
  /\ UNCHANGED <<upload, jobs, mapped, spoilt, lost>>

DeleteLog ==
  /\ removal = "unlinked"
  /\ removal' = "none"
  /\ \/ Logging /\ log' = [log EXCEPT !.exists = FALSE]
     \/ On("logs") /\ Fault /\ UNCHANGED log
  /\ UNCHANGED <<upload, jobs, mapped, spoilt, lost>>

----------------------------------------------------------------------------

LogNext ==
  \/ StoreUpload \/ HandOver \/ TakeInline \/ ProcessInline
  \/ \E j \in jobs : JobStep(j)
  \/ WorkerDies
  \/ \E m \in Mappings : SetMapping(m)
  \/ Unlink \/ DeleteLog

\* Requests go on and workers take messages.
LogFairness ==
  /\ WF_logVars(HandOver \/ TakeInline \/ ProcessInline)
  /\ WF_logVars(\E j \in jobs : JobStep(j))

----------------------------------------------------------------------------
(* What must hold                                                           *)

\* When all tasks are through, a log with a file has the statistics of the
\* mapping that was set last, unless tasks overlapped, failed or died (compute_event_log_stats).
StatsFit ==
  log.exists /\ log.file /\ log.mapping # Unset /\ jobs = {} /\ ~spoilt
    => log.cases = log.mapping /\ log.events = log.mapping

\* An uploaded log does not stay "processing", unless the process died that
\* worked on it or the database refused all it tried (process_uploaded_file).
UploadsSettle ==
  log.exists /\ log.status = "processing"
    ~> ~log.exists \/ log.status # "processing" \/ lost

=============================================================================
