------------------------------ MODULE Services ------------------------------
(***************************************************************************)
(* The smaller services side by side.  They meet only in the database, the   *)
(* broker and the network, whose failures each module has for itself; one    *)
(* is chosen at the start, the others stay as they are.                     *)
(***************************************************************************)
EXTENDS CaptureAgent, EventLogs, Notices, LiveMetrics, PagedFetch

vars == <<serviceVars, captureVars, logVars, reportVars, alertVars, liveVars, hubVars, fetchVars>>

TypeOK ==
  /\ service \in DOMAIN MaxFaults /\ faults \in 0..MaxFaults[service]
  /\ CaptureTypeOK /\ LogTypeOK /\ ReportTypeOK /\ AlertTypeOK
  /\ LiveTypeOK /\ HubTypeOK /\ FetchTypeOK

\* The fetch is the only service with a choice to begin with.
Init ==
  /\ service \in DOMAIN MaxFaults /\ faults = 0
  /\ CaptureInit /\ LogInit /\ ReportInit /\ AlertInit /\ LiveInit /\ HubInit /\ FetchInit
  /\ service # "fetch" => origin.keys = {} /\ origin.cap = 1 /\ origin.paging = "token" /\ fetch.max = 0

Next ==
  \/ CaptureNext /\ UNCHANGED <<logVars, reportVars, alertVars, liveVars, hubVars, fetchVars>>
  \/ LogNext /\ UNCHANGED <<captureVars, reportVars, alertVars, liveVars, hubVars, fetchVars>>
  \/ ReportNext /\ UNCHANGED <<captureVars, logVars, alertVars, liveVars, hubVars, fetchVars>>
  \/ AlertNext /\ UNCHANGED <<captureVars, logVars, reportVars, liveVars, hubVars, fetchVars>>
  \/ LiveNext /\ UNCHANGED <<captureVars, logVars, reportVars, alertVars, hubVars, fetchVars>>
  \/ HubNext /\ UNCHANGED <<captureVars, logVars, reportVars, alertVars, liveVars, fetchVars>>
  \/ FetchNext /\ UNCHANGED <<captureVars, logVars, reportVars, alertVars, liveVars, hubVars>>

Fairness ==
  /\ CaptureFairness /\ LogFairness /\ ReportFairness /\ AlertFairness /\ FetchFairness

Spec == Init /\ [][Next]_vars /\ Fairness

----------------------------------------------------------------------------
(* What the services promise alike; the parts are in their modules.          *)

\* The server has what the agent captured, in order and not twice, and counts it
\* right (agent.py _flush, task_mining.py ingest_events).
RecordingFits == StoredInOrder /\ EventCountFits

\* What was mailed or notified is recorded once the task is through, unless it
\* was done twice at a time or its commit failed (send_scheduled_report,
\* evaluate_alerts: the message first, the commit at the end).
NoticesRecorded == MailsCounted /\ AlertsRecorded

\* Who listens stays in the list, and gets the totals (LiveMetrics.broadcast).
LiveRight == ListenersKept /\ UpdatesReach

\* What is begun ends, whatever fails on the way: the agent that is told to stop,
\* the processing of an upload and a fetch (agent.py run, process_uploaded_file,
\* paginate).
TasksEnd == AgentEnds /\ UploadsSettle /\ FetchEnds

\* What is due is sent, whatever its neighbours do and however the commits fail
\* (dispatch_scheduled_reports, evaluate_alerts).
NoticesSent == DueReportsSent /\ BreachesTold

=============================================================================
