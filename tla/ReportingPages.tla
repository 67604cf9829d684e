--------------------------- MODULE ReportingPages ---------------------------
(***************************************************************************)
(* pages/ScheduledReportsPage.tsx: the report schedules of the project in    *)
(* the address, one form to create and one to edit, and per row pause,       *)
(* delete and "send now".                                                    *)
(***************************************************************************)
EXTENDS Spa

ReportsUi == [project : Projects, rows : [Items -> Nat], loading : BOOLEAN,
              error : BOOLEAN, form : Items \cup {"new", "closed"}, saving : BOOLEAN,
              sending : Items \cup {None}, toggling : Items \cup {None},
              deleting : Items \cup {None}]

ReportsInit(p) ==
  /\ page = "reports"
  /\ db = FirstRows
  /\ ui = [project |-> p, rows |-> NoRows, loading |-> TRUE, error |-> FALSE,
           form |-> "closed", saving |-> FALSE, sending |-> None,
           toggling |-> None, deleting |-> None]
  /\ calls = {Request("loadReports", p, None, {})}

\* A spinner or an error takes the place of the whole page.
ReportsShown == ~ui.loading /\ ~ui.error

ReportShown(r) == ReportsShown /\ ui.form = "closed" /\ ui.rows[r] # 0

\* The address changes, or Retry after an error: load().
LoadReports(p) ==
  /\ p # ui.project \/ (ui.error /\ ~ui.loading)
  /\ ui' = [ui EXCEPT !.project = p, !.loading = TRUE, !.error = FALSE]
  /\ Send("loadReports", p, None)
  /\ Calling

ReportsLoaded(c) ==
  /\ ui' = [ui EXCEPT !.loading = FALSE,
                      !.rows = IF c.stage = "ok" THEN c.ans.rows ELSE @,
                      !.error = @ \/ c.stage = "failed"]
  /\ Done(c) /\ Handling

OpenReportForm(f) ==
  /\ f = "new" \/ (f \in Items /\ ui.rows[f] # 0)
  /\ ReportsShown /\ ui.form = "closed"
  /\ ui' = [ui EXCEPT !.form = f]
  /\ Local

CloseReportForm ==
  /\ ReportsShown /\ ui.form # "closed"
  /\ ui' = [ui EXCEPT !.form = "closed"]
  /\ Local

\* onSave of ReportForm: handleCreate or handleEdit, one flag for both.
SaveReport ==
  /\ ReportsShown /\ ui.form # "closed" /\ ~ui.saving
  /\ ui' = [ui EXCEPT !.saving = TRUE]
  /\ IF ui.form = "new"
     THEN Send("createReport", ui.project, None)
     ELSE Send("updateReport", ui.form, None)
  /\ Calling

\* setReports adds the created row to whatever is listed by then; the form of
\* the same kind closes, whichever row it is about.
ReportCreated(c) ==
  /\ ui' = IF c.stage = "ok"
           THEN [ui EXCEPT !.saving = FALSE, !.rows[c.ans.id] = 1,
                           !.form = IF @ = "new" THEN "closed" ELSE @]
           ELSE [ui EXCEPT !.saving = FALSE]
  /\ Done(c) /\ Handling

ReportUpdated(c) ==
  /\ ui' = IF c.stage = "ok"
           THEN [ui EXCEPT !.saving = FALSE,
                           !.rows[c.on] = IF @ = 0 THEN 0 ELSE c.ans.row,
                           !.form = IF @ \in Items THEN "closed" ELSE @]
           ELSE [ui EXCEPT !.saving = FALSE]
  /\ Done(c) /\ Handling

DeleteReport(r) ==
  /\ ReportShown(r) /\ ui.deleting # r
  /\ ui' = [ui EXCEPT !.deleting = r]
  /\ Send("deleteReport", r, None)
  /\ Calling

ReportDeleted(c) ==
  /\ ui' = [ui EXCEPT !.deleting = None,
                      !.rows[c.on] = IF c.stage = "ok" THEN 0 ELSE @]
  /\ Done(c) /\ Handling

ToggleReport(r) ==
  /\ ReportShown(r) /\ ui.toggling # r
  /\ ui' = [ui EXCEPT !.toggling = r]
  /\ Send("toggleReport", r, None)
  /\ Calling

ReportToggled(c) ==
  /\ ui' = [ui EXCEPT !.toggling = None,
                      !.rows[c.on] = IF c.stage = "ok" /\ @ # 0 THEN c.ans.row ELSE @]
  /\ Done(c) /\ Handling

SendReport(r) ==
  /\ ReportShown(r) /\ ui.sending # r
  /\ ui' = [ui EXCEPT !.sending = r]
  /\ Send("sendReport", r, None)
  /\ Calling

ReportSent(c) ==
  /\ ui' = [ui EXCEPT !.sending = None]
  /\ Done(c) /\ Handling

----------------------------------------------------------------------------

\* api/scheduled_reports.py; sending is left to a worker.
ReportsServer(c) ==
  LET r == c.on
  IN  CASE c.op = "loadReports" -> {Outcome(db, [rows |-> RowsOf(r, db)])}
        [] c.op = "createReport" ->
             {Outcome([db EXCEPT ![i] = 1], [id |-> i]) : i \in Vacant(r, db)}
        [] OTHER ->
             {IF db[r] = 0 THEN NotFound
              ELSE CASE c.op = "deleteReport" -> Outcome([db EXCEPT ![r] = 0], Ok)
                     [] c.op = "sendReport" -> Outcome(db, Ok)
                     [] OTHER -> Outcome([db EXCEPT ![r] = @ + 1], [row |-> db[r] + 1])}

ReportsClicks ==
  \/ \E p \in Projects : LoadReports(p)
  \/ \E f \in Items \cup {"new"} : OpenReportForm(f)
  \/ CloseReportForm \/ SaveReport
  \/ \E r \in Items : DeleteReport(r) \/ ToggleReport(r) \/ SendReport(r)

ReportsAnswers ==
  \/ \E c \in Settled("loadReports") : ReportsLoaded(c)
  \/ \E c \in Settled("createReport") : ReportCreated(c)
  \/ \E c \in Settled("updateReport") : ReportUpdated(c)
  \/ \E c \in Settled("deleteReport") : ReportDeleted(c)
  \/ \E c \in Settled("toggleReport") : ReportToggled(c)
  \/ \E c \in Settled("sendReport") : ReportSent(c)

ReportsNext ==
  /\ page = "reports"
  /\ \/ ReportsClicks
     \/ ReportsAnswers
     \/ \E c \in calls : \E o \in ReportsServer(c) : Serve(c, o)

----------------------------------------------------------------------------
(***************************************************************************)
(* pages/AlertsPage.tsx with components/Alerts/AlertConfig.tsx: every alert   *)
(* of the user, a form to create one, and per alert test and delete.         *)
(***************************************************************************)

AlertsUi == [rows : [Items -> Nat], loading : BOOLEAN, form : BOOLEAN]

AlertsInit ==
  /\ page = "alerts"
  /\ db = FirstRows
  /\ ui = [rows |-> NoRows, loading |-> TRUE, form |-> FALSE]
  /\ calls = {Request("loadAlerts", None, None, {})}

AlertShown(a) == ui.rows[a] # 0 /\ ~ui.loading /\ ~ui.form

\* loadAlerts; after a save it is awaited, then the form is closed.
AlertsLoaded(c) ==
  /\ ui' = [ui EXCEPT !.loading = FALSE,
                      !.form = @ /\ c.arg # "save",
                      !.rows = IF c.stage = "ok" THEN c.ans.rows ELSE @]
  /\ Done(c) /\ Handling

\* openCreateWithChannel, from the header or the card of a channel.
OpenAlertForm ==
  /\ ~ui.form /\ ~ui.loading
  /\ ui' = [ui EXCEPT !.form = TRUE]
  /\ Local

CloseAlertForm ==
  /\ ui.form /\ ~ui.loading
  /\ ui' = [ui EXCEPT !.form = FALSE]
  /\ Local

\* handleSave of the form once it is valid; no save is kept from starting
\* while another is under way.
SaveAlert ==
  /\ ui.form /\ ~ui.loading
  /\ Send("createAlert", None, None)
  /\ UNCHANGED ui /\ Calling

AlertSaved(c) ==
  /\ IF c.stage = "ok"
     THEN ui' = [ui EXCEPT !.loading = TRUE] /\ Then(c, "loadAlerts", None, "save")
     ELSE UNCHANGED ui /\ Done(c)
  /\ Handling

TestAlert(a) ==
  /\ AlertShown(a)
  /\ Send("testAlert", a, None)
  /\ UNCHANGED ui /\ Calling

\* A notification only.
AlertTested(c) == UNCHANGED ui /\ Done(c) /\ Handling

DeleteAlert(a) ==
  /\ AlertShown(a)
  /\ Send("deleteAlert", a, None)
  /\ UNCHANGED ui /\ Calling

AlertDeleted(c) ==
  /\ ui' = IF c.stage = "ok" THEN [ui EXCEPT !.rows[c.on] = 0] ELSE ui
  /\ Done(c) /\ Handling

----------------------------------------------------------------------------

\* api/alerts.py; a test sends a drill and stores nothing.
AlertsServer(c) ==
  CASE c.op = "loadAlerts" -> {Outcome(db, [rows |-> db])}
    [] c.op = "createAlert" ->
         {Outcome([db EXCEPT ![i] = 1], Ok) : i \in {j \in Items : db[j] = 0}}
    [] OTHER ->
         {IF db[c.on] = 0 THEN NotFound
          ELSE Outcome(IF c.op = "deleteAlert" THEN [db EXCEPT ![c.on] = 0] ELSE db, Ok)}

AlertsClicks ==
  \/ OpenAlertForm \/ CloseAlertForm \/ SaveAlert
  \/ \E a \in Items : TestAlert(a) \/ DeleteAlert(a)

AlertsAnswers ==
  \/ \E c \in Settled("loadAlerts") : AlertsLoaded(c)
  \/ \E c \in Settled("createAlert") : AlertSaved(c)
  \/ \E c \in Settled("testAlert") : AlertTested(c)
  \/ \E c \in Settled("deleteAlert") : AlertDeleted(c)

AlertsNext ==
  /\ page = "alerts"
  /\ \/ AlertsClicks
     \/ AlertsAnswers
     \/ \E c \in calls : \E o \in AlertsServer(c) : Serve(c, o)

=============================================================================
