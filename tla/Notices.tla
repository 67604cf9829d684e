------------------------------- MODULE Notices -------------------------------
(***************************************************************************)
(* One scheduled report.  Every five minutes beat queues it if it is due by  *)
(* its last_sent_at; a worker renders it, mails it, and only then commits    *)
(* that it was sent.  Users have it sent at once, switch it and delete it.   *)
(* Its event log is ready and it has recipients: it is never skipped.        *)
(***************************************************************************)
EXTENDS Service

CONSTANTS
  Period,   \* the report's frequency, in days
  MaxSends, \* bound of the messages and tasks at one time
  MaxMails, \* bound of the mails
  MaxDay    \* bound of the clock

ASSUME ReportAssumption ==
  Period \in Nat \ {0} /\ MaxSends \in Nat /\ MaxMails \in Nat /\ MaxDay \in Nat

VARIABLES
  day,      \* from 1
  report,   \* the scheduled_reports row
  sends,    \* messages and running tasks
  mails,    \* how many went out, and when the last one did
  doubled   \* a report was queued beside another send, or by hand

reportVars == <<day, report, sends, mails, doubled>>

\* last_sent_at before the first mail.
Never == 0

ReportRow == [exists : BOOLEAN, active : BOOLEAN, last : Nat, count : Nat]

Send0(stage, count, others) ==
  [n |-> CHOOSE n \in 1..(Cardinality(others) + 1) : \A s \in others : s.n # n,
   stage |-> stage, count |-> count]

ReportTypeOK ==
  /\ day \in 1..(MaxDay + 1)
  /\ report \in ReportRow
  /\ \A s \in sends : s.stage \in {"queued", "loaded", "mailed"} /\ s.count \in Nat
  /\ mails \in [times : 0..MaxMails, at : Nat] /\ mails.at <= day
  /\ doubled \in BOOLEAN

ReportInit ==
  /\ day = 1
  /\ report = [exists |-> TRUE, active |-> TRUE, last |-> Never, count |-> 0]
  /\ sends = {}
  /\ mails = [times |-> 0, at |-> Never]
  /\ doubled = FALSE

Reporting == On("report") /\ NoFault

NextDay ==
  /\ Reporting /\ day <= MaxDay
  /\ day' = day + 1
  /\ UNCHANGED <<report, sends, mails, doubled>>

----------------------------------------------------------------------------

\* Mutant: due by the days of the calendar it has seen, not by their distance.
DueEarly == report.last = Never \/ day - report.last >= Period - 1

Due == report.last = Never \/ day - report.last >= Period

Queue ==
  /\ Cardinality(sends) < MaxSends
  /\ sends' = sends \cup {Send0("queued", 0, sends)}
  /\ UNCHANGED <<day, report, mails>>

\* Mutant: only what was never sent is looked for.
DispatchReportFirst ==
  /\ Reporting
  /\ report.exists /\ report.active /\ report.last = Never
  /\ Queue
  /\ doubled' = (doubled \/ sends # {})

\* dispatch_scheduled_reports: it stays due until a send has committed.
DispatchReport ==
  /\ Reporting
  /\ report.exists /\ report.active /\ Due
  /\ Queue
  /\ doubled' = (doubled \/ sends # {})

\* trigger_send: due or not, active or not.
SendNow ==
  /\ Reporting /\ report.exists
  /\ Queue
  /\ doubled' = TRUE

Advance(s, stage, count) ==
  sends' = (sends \ {s}) \cup {[s EXCEPT !.stage = stage, !.count = count]}

\* send_scheduled_report: loaded if it is still there and active; whether it
\* is due is not looked at again.
LoadReport(s) ==
  /\ Reporting /\ s.stage = "queued"
  /\ IF report.exists /\ report.active THEN Advance(s, "loaded", report.count)
                                       ELSE sends' = sends \ {s}
  /\ UNCHANGED <<day, report, mails, doubled>>

SendMail(s) ==
  /\ Reporting /\ s.stage = "loaded" /\ mails.times < MaxMails
  /\ mails' = [times |-> mails.times + 1, at |-> day]
  /\ Advance(s, "mailed", s.count)
  /\ UNCHANGED <<day, report, doubled>>

\* Mutant: the row says it was sent before a mail server has taken it.
MarkSentFirst(s) ==
  /\ Reporting /\ s.stage = "loaded"
  /\ report' = [report EXCEPT !.last = day, !.count = s.count + 1]
  /\ sends' = sends \ {s}
  /\ UNCHANGED <<day, mails, doubled>>

\* The commit; an UPDATE of a row that is gone raises.
MarkSent(s) ==
  /\ Reporting /\ s.stage = "mailed"
  /\ report' = IF report.exists THEN [report EXCEPT !.last = day, !.count = s.count + 1]
                                ELSE report
  /\ sends' = sends \ {s}
  /\ UNCHANGED <<day, mails, doubled>>

\* The mail server or the database refuses, or the worker dies.
SendFails(s) ==
  /\ On("report") /\ Fault /\ s.stage # "queued"
  /\ sends' = sends \ {s}
  /\ UNCHANGED <<day, report, mails, doubled>>

SwitchReport ==
  /\ Reporting /\ report.exists
  /\ report' = [report EXCEPT !.active = ~@]
  /\ UNCHANGED <<day, sends, mails, doubled>>

DeleteReport ==
  /\ Reporting /\ report.exists
  /\ report' = [report EXCEPT !.exists = FALSE]
  /\ UNCHANGED <<day, sends, mails, doubled>>

SendStep(s) == LoadReport(s) \/ SendMail(s) \/ MarkSent(s)

ReportNext ==
  \/ NextDay \/ DispatchReport \/ SendNow
  \/ \E s \in sends : SendStep(s) \/ SendFails(s)
  \/ SwitchReport \/ DeleteReport

\* Beat fires and workers take messages.
ReportFairness ==
  /\ WF_reportVars(DispatchReport)
  /\ WF_reportVars(\E s \in sends : SendStep(s))

----------------------------------------------------------------------------
(* What must hold                                                           *)

\* Two mails of a report are its period apart, unless a message was queued
\* while another was under way or by hand, or a send failed after its mail
\* (dispatch_scheduled_reports).
MailsSpaced ==
  [][mails'.times # mails.times /\ mails.times # 0
       => doubled \/ faults > 0 \/ day - mails.at >= Period]_reportVars

\* send_count never exceeds the mails, and is their number once every send is
\* through, unless sends overlapped or failed or the row is gone.
MailsCounted ==
  /\ report.count <= mails.times
  /\ sends = {} /\ ~doubled /\ faults = 0 /\ report.exists => report.count = mails.times

\* A report that is due is sent, unless it is switched off or deleted
\* meanwhile (dispatch_scheduled_reports asks again until it was sent).
DueReportsSent ==
  On("report") /\ report.exists /\ report.active /\ Due
    ~> ~Due \/ ~report.exists \/ ~report.active \/ mails.times = MaxMails

----------------------------------------------------------------------------
(***************************************************************************)
(* The alerts of one project.  Every five minutes a task loads the active    *)
(* ones, evaluates and notifies one by one, and commits all of them at the   *)
(* end; the sweep over the anomaly subscriptions has the same form.  Users   *)
(* switch and delete alerts meanwhile.                                      *)
(***************************************************************************)

CONSTANTS
  Alerts,     \* the project's alerts
  Breaching,  \* those whose condition holds
  Faulty,     \* those whose evaluation raises, e.g. on an unreadable file
  AlertTasks  \* evaluate_alerts and check_anomaly_subscriptions, at one time

ASSUME AlertsAssumption == Breaching \subseteq Alerts /\ Faulty \subseteq Alerts

VARIABLES
  alert,   \* the alerts rows
  sweep,   \* per task: where it is and what it has in its session
  told,    \* alerts of the table that have been notified
  undone   \* a run was rolled back or died

alertVars == <<alert, sweep, told, undone>>

NoAlert == [exists |-> FALSE, active |-> FALSE, triggered |-> FALSE]

NoSweep == [pc |-> "idle", todo |-> {}, seen |-> {}, fired |-> {}]

AlertTypeOK ==
  /\ alert \in [Alerts -> [exists : BOOLEAN, active : BOOLEAN, triggered : BOOLEAN]]
  /\ sweep \in [AlertTasks -> [pc : {"idle", "queued", "running"}, todo : SUBSET Alerts,
                               seen : SUBSET Alerts, fired : SUBSET Alerts]]
  /\ \A t \in AlertTasks : sweep[t].fired \subseteq sweep[t].seen
  /\ told \subseteq Alerts /\ undone \in BOOLEAN

AlertInit ==
  /\ alert = [a \in Alerts |-> [exists |-> TRUE, active |-> TRUE, triggered |-> FALSE]]
  /\ sweep = [t \in AlertTasks |-> NoSweep]
  /\ told = {}
  /\ undone = FALSE

Alerting == On("alerts") /\ NoFault

Watched(a) == alert[a].exists /\ alert[a].active

----------------------------------------------------------------------------

\* scheduled_alert_check: a project with an active alert is queued.
DispatchAlerts(t) ==
  /\ Alerting /\ sweep[t].pc = "idle"
  /\ \E a \in Alerts : Watched(a)
  /\ sweep' = [sweep EXCEPT ![t].pc = "queued"]
  /\ UNCHANGED <<alert, told, undone>>

\* The active alerts are loaded once.
StartSweep(t) ==
  /\ Alerting /\ sweep[t].pc = "queued"
  /\ sweep' = [sweep EXCEPT ![t] = [NoSweep EXCEPT !.pc = "running",
                                                   !.todo = {a \in Alerts : Watched(a)}]]
  /\ UNCHANGED <<alert, told, undone>>

\* Mutant: an exception ends the run.
SkipAlertsAfter(t, a) ==
  /\ a \in Faulty
  /\ sweep' = [sweep EXCEPT ![t].todo = {}]
  /\ UNCHANGED told

\* Its log cannot be read: on with the next.
SkipAlert(t, a) ==
  /\ a \in Faulty
  /\ sweep' = [sweep EXCEPT ![t].todo = @ \ {a}]
  /\ UNCHANGED told

CheckAlert(t, a) ==
  /\ a \notin Faulty \cup Breaching
  /\ sweep' = [sweep EXCEPT ![t].todo = @ \ {a}, ![t].seen = @ \cup {a}]
  /\ UNCHANGED told

\* Mutant: an alert is taken for fired only when its message is through.
NotifyAlertOnce(t, a) ==
  /\ a \in Breaching \ Faulty
  /\ sweep' = [sweep EXCEPT ![t].todo = @ \ {a}, ![t].seen = @ \cup {a}]
  /\ told' = told \cup {a}

\* last_triggered is set in the session, and the message goes out at once.
NotifyAlert(t, a) ==
  /\ a \in Breaching \ Faulty
  /\ sweep' = [sweep EXCEPT ![t].todo = @ \ {a}, ![t].seen = @ \cup {a},
                            ![t].fired = @ \cup {a}]
  /\ told' = told \cup {a}

VisitAlert(t) ==
  /\ Alerting /\ sweep[t].pc = "running"
  /\ \E a \in sweep[t].todo : SkipAlert(t, a) \/ CheckAlert(t, a) \/ NotifyAlert(t, a)
  /\ UNCHANGED <<alert, undone>>

\* One commit for all.
CommitSweep(t) ==
  /\ Alerting /\ sweep[t].pc = "running" /\ sweep[t].todo = {}
  /\ \A a \in sweep[t].fired : alert[a].exists
  /\ alert' = [a \in Alerts |-> [alert[a] EXCEPT !.triggered = @ \/ a \in sweep[t].fired]]
  /\ sweep' = [sweep EXCEPT ![t] = NoSweep]
  /\ UNCHANGED <<told, undone>>

\* An UPDATE of a row that is gone raises, at the commit or when the session
\* flushes before it reads the next log: nothing of the run is kept, and what
\* is left of it is not visited.  A changed last_value is an UPDATE as well.
RollbackSweep(t) ==
  /\ Alerting /\ sweep[t].pc = "running"
  /\ \E a \in sweep[t].seen : ~alert[a].exists
  /\ sweep' = [sweep EXCEPT ![t] = NoSweep]
  /\ undone' = TRUE
  /\ UNCHANGED <<alert, told>>

\* The commit fails or the worker dies.
SweepDies(t) ==
  /\ On("alerts") /\ Fault /\ sweep[t].pc = "running"
  /\ sweep' = [sweep EXCEPT ![t] = NoSweep]
  /\ undone' = TRUE
  /\ UNCHANGED <<alert, told>>

SwitchAlert(a) ==
  /\ Alerting /\ alert[a].exists
  /\ alert' = [alert EXCEPT ![a].active = ~@]
  /\ UNCHANGED <<sweep, told, undone>>

DeleteAlert(a) ==
  /\ Alerting /\ alert[a].exists
  /\ alert' = [alert EXCEPT ![a] = NoAlert]
  /\ told' = told \ {a}
  /\ UNCHANGED <<sweep, undone>>

SweepStep(t) == StartSweep(t) \/ VisitAlert(t) \/ CommitSweep(t)

AlertNext ==
  \/ \E t \in AlertTasks : DispatchAlerts(t) \/ SweepStep(t) \/ RollbackSweep(t) \/ SweepDies(t)
  \/ \E a \in Alerts : SwitchAlert(a) \/ DeleteAlert(a)

\* Beat fires, and some worker goes on.
AlertFairness ==
  /\ WF_alertVars(\E t \in AlertTasks : DispatchAlerts(t))
  /\ WF_alertVars(\E t \in AlertTasks : SweepStep(t) \/ RollbackSweep(t))

----------------------------------------------------------------------------
(* What must hold                                                           *)

\* Who was notified sees when in the table, once no run has it in its session,
\* unless a run was rolled back or died after the message (evaluate_alerts:
\* the messages first, one commit at the end).
AlertsRecorded ==
  \A a \in Alerts :
    a \in told /\ alert[a].exists /\ ~undone
      => alert[a].triggered \/ \E t \in AlertTasks : a \in sweep[t].fired

\* An alert whose condition holds is notified, whatever the others of its
\* project do: one that raises does not end the run (evaluate_alerts).
BreachesTold ==
  \A a \in Breaching \ Faulty :
    On("alerts") /\ Watched(a) ~> a \in told \/ ~Watched(a)

=============================================================================
