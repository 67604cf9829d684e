------------------------------ MODULE WebPages ------------------------------
(***************************************************************************)
(* Every modelled page of the web client, one of them mounted.               *)
(***************************************************************************)
EXTENDS ActionRulesPage, ReportingPages, KpisPage, RowPages,
        ConnectorPages, ProjectPages,
        DashboardPages, LogBuilderPage, ProcessViewPage, AnalysisViews, UploadPage,
        ChatPages, OcelPages, GovernancePages, SessionPage, AccountPages, ShellPage, HeaderPage,
        MapScenes, PulsePage

TypeOK ==
  ui \in CASE page = "rules" -> RulesUi
           [] page = "reports" -> ReportsUi
           [] page = "kpis" -> KpisUi
           [] page = "alerts" -> AlertsUi
           [] page = "initiatives" -> InitiativesUi
           [] page = "inbox" -> InboxUi
           [] page = "changes" -> ChangesUi
           [] page = "templates" -> TemplatesUi
           [] page = "mining" -> MiningUi
           [] page = "journeys" -> JourneysUi
           [] page = "connectors" -> ConnectorsUi
           [] page = "projects" -> ProjectsUi
           [] page = "dashboards" -> DashboardsUi
           [] page = "editor" -> EditorUi
           [] page = "builder" -> BuilderUi
           [] page = "process" -> ProcessUi
           [] page = "views" -> ViewsUi
           [] page = "store" -> StoreUi
           [] page = "upload" -> UploadUi
           [] page = "chat" -> ChatUi
           [] page = "ocpm" -> OcpmUi
           [] page = "governance" -> GovernanceUi
           [] page = "session" -> SessionUi
           [] page = "account" -> AccountUi
           [] page = "project" -> ProjectUi
           [] page = "shell" -> ShellUi
           [] page = "header" -> HeaderUi
           [] page = "flat" -> FlatUi
           [] page = "webgl" -> WebglUi
           [] page = "city" -> CityUi
           [] page = "pulse" -> PulseUi
           [] page = "form" -> ConnectorFormUi
           [] page = "benchmark" -> BenchmarkUi

\* The address names a project for some pages; one may open with a form.
Init ==
  /\ clicks = 0 /\ faults = 0 /\ clash = FALSE
  /\ \/ RulesInit \/ KpisInit \/ AlertsInit \/ InboxInit \/ ChangesInit
     \/ TemplatesInit \/ ConnectorsInit \/ ProjectsInit \/ DashboardsInit \/ EditorInit
     \/ BuilderInit \/ EntriesInit \/ CapabilitiesInit \/ SettingsInit \/ UsersInit
     \/ KeysInit \/ ConnectorFormInit
     \/ \E log \in Projects : ProcessInit(log)
     \/ \E view \in DOMAIN Views, log \in Projects : ViewsInit(view, log)
     \/ \E view \in MiningViews, log \in Projects : StoreInit(view, log)
     \/ \E kind \in Chats, log \in Projects \cup {None}, asked \in BOOLEAN : ChatInit(kind, log, asked)
     \/ \E route \in Projects \cup {None} : OcpmInit(route)
     \/ \E last \in Projects \cup {None}, log \in Existing \cup {None} :
          /\ last = None <=> log = None
          /\ ShellInit(last, log, {p \in Projects : log = None \/ {p} # {last, ProjectOf[log]}})
     \/ \E at \in Addresses, last \in Existing \cup {None}, off \in BOOLEAN :
          at # Login /\ HeaderInit(at, last, off)
     \/ \E m \in GivenMaps : FlatInit(m) \/ WebglInit(m) \/ CityInit(m)
     \/ \E log \in Projects, kept \in BOOLEAN, bare \in SUBSET Projects :
          PulseInit(log, kept, bare)
     \/ \E p \in Projects : BenchmarkInit(p)
     \/ \E p \in Projects : ProjectInit(p)
     \/ \E path \in Paths \ {"register"}, t \in Existing \cup {None}, demo \in BOOLEAN :
          SessionInit(path, t, demo)
     \/ \E p \in Projects : UploadInit(p)
     \/ \E p \in Projects : ReportsInit(p) \/ MiningInit(p) \/ JourneysInit(p)
     \/ \E p \in Projects, prefill \in BOOLEAN : InitiativesInit(p, prefill)

Next ==
  \/ RulesNext \/ ReportsNext \/ KpisNext \/ AlertsNext \/ InitiativesNext \/ InboxNext
  \/ ChangesNext \/ TemplatesNext \/ MiningNext \/ JourneysNext \/ ConnectorsNext
  \/ ProjectsNext \/ DashboardsNext \/ EditorNext \/ BuilderNext \/ ProcessNext
  \/ ViewsNext \/ StoreNext \/ UploadNext \/ ChatNext \/ OcpmNext \/ GovernanceNext
  \/ SessionNext \/ AccountNext \/ ProjectNext \/ ShellNext \/ HeaderNext \/ FlatNext
  \/ WebglNext \/ CityNext \/ PulseNext
  \/ ConnectorFormNext \/ BenchmarkNext
  \/ \E c \in calls : Refuse(c)

Spec == Init /\ [][Next]_spaVars

----------------------------------------------------------------------------
(* What must hold                                                           *)

ViewFollows ==
  IF Is("asked") THEN ui.shown \in {None, ui.asked}
  ELSE ui.shown = KeyOf(ui) /\ ui.rest = KeyOf(ui)

ListsFollow ==
  CASE page = "rules" -> ui.project = None \/ ui.rows = RowsOf(ui.project, db.row)
    [] page \in {"reports", "initiatives"} -> ui.rows = RowsOf(ui.project, db)
    [] page = "kpis" ->
         ui.project = None \/
           ui.rows = [k \in Items |-> IF ProjectOf[k] = ui.project THEN db[k] ELSE NoKpi]
    [] page = "mining" ->
         ui.patterns = [p \in Projects |-> IF p = ui.project THEN db[p] ELSE 0]
    [] page = "journeys" ->
         \A j \in Items : ProjectOf[j] = ui.project => ui.list[j] = db[j]
    [] page = "changes" ->
         \A r \in Items : ui.rows[r] = db[r] \/ (ui.rows[r] = 0 /\ ui.filter # 0)
    [] page \in {"projects", "dashboards"} -> ui.left \/ ui.rows = db
    [] page = "editor" -> ui.error \/ ui.widgets = db.widgets
    [] page = "builder" -> ui.left \/ BuilderFollows
    [] page = "process" -> ui.map = ScopeOf(ui)
    [] page = "views" -> ViewFollows
    [] page = "store" -> ui.result[ui.view] = ui.log
    [] page = "upload" -> MappingsFit
    [] page = "chat" -> ChatFollows
    [] page = "ocpm" -> OcpmFollows
    [] page = "session" -> SessionFollows
    [] page = "account" -> AccountFollows
    [] page = "project" -> ProjectFollows
    [] page = "shell" -> ShellFollows
    [] page = "header" -> HeaderFollows
    [] page = "flat" -> FlatSettled
    [] page \in {"webgl", "city"} -> TRUE
    [] page = "pulse" -> PulseFollows
    [] page = "form" -> FormFollows
    [] page = "benchmark" -> BenchmarkFollows
    [] OTHER -> ui.rows = db

PanesFollow ==
  /\ page = "inbox" => /\ ui.summary = db
                       /\ (ui.selected # None => db[ui.selected] # 0)
  /\ page = "journeys" /\ ui.selected # None =>
       ui.selected.row = ui.list[ui.selected.id]
  /\ page = "editor" /\ ui.versions.open /\ ~ui.versions.error =>
       ui.versions.list = db.versions

\* When every call has been answered, none failed and no two about the same
\* thing overlapped, a page shows what is stored: each handler replaces, adds
\* or removes a row, or loads the list again, as the API has done.
SettledIsStored == Quiet /\ Orderly => ListsFollow /\ PanesFollow

\* The flags that show a spinner or disable a button.
FlagsOf ==
  CASE page = "rules" -> {ui.loading, ui.saving, ui.running # None}
    [] page = "reports" -> {ui.loading, ui.saving, ui.sending # None, ui.toggling # None,
                            ui.deleting # None}
    [] page = "kpis" -> {ui.loading, ui.creating, ui.editing, ui.computing # {}}
    [] page = "initiatives" -> {ui.loading, ui.creating}
    [] page = "changes" -> {ui.loading, ui.creating, ui.busy # None}
    [] page = "templates" -> {ui.loading, ui.saving}
    [] page = "mining" -> {ui.loading, ui.mining, ui.linking}
    [] page = "journeys" -> {ui.loading, ui.saving, ui.stageSaving}
    [] page = "projects" -> {ui.loading, ui.creating, ui.seeding, ui.importing,
                             ui.exporting # None}
    [] page = "dashboards" -> {ui.loading, ui.creating}
    [] page = "editor" ->
         IF ui.error THEN {}
         ELSE {ui.loading, ui.asking, ui.versions.loading, ui.versions.saving,
               ui.versions.restoring}
    [] page = "builder" -> {ui.uploading, ui.building, ui.suggesting}
    [] page = "process" -> {ui.logLoading, ui.loading}
    [] page = "views" -> {ui.loading}
    [] page = "store" -> {ui.busy[v] : v \in MiningViews} \cup {ui.exporting}
    [] page = "upload" -> {Here /\ ui.saving, Here /\ ui.status = "uploading"}
    [] page = "chat" -> {ui.loading} \cup {ui.messages[k].streaming : k \in DOMAIN ui.messages}
    [] page = "ocpm" -> {ui.uploading, ui.converting, ui.discovering, ui.logsLoading}
    [] page = "governance" -> {ui.loading}
    [] page = "session" -> {Waiting(ui), ui.session.signing, ui.busy}
    [] page = "account" -> AccountFlags
    [] page = "project" -> {~ui.left /\ (ui.loading \/ ui.listing)}
    [] page = "shell" -> {ui.listing}
    [] page = "header" -> {ui.search.loading}
    [] page = "webgl" -> {ui.flashing # {}}
    [] page \in {"flat", "city", "form"} -> {}
    [] page = "benchmark" -> {ui.loading, ui.running, ui.flattening # {}}
    [] OTHER -> {ui.loading}

\* However the calls fail and overlap, no flag outlives them: the page is never
\* left with a spinner or with a button disabled for good.
FlagsDown == Quiet => TRUE \notin FlagsOf

\* Requests of which a disabled button allows one at a time.
Guarded ==
  {{"createRule", "updateRule"}, {"createReport", "updateReport"}, {"createKpi"},
   {"createTemplate"}, {"createInitiative"}, {"createChange"}, {"minePatterns"},
   {"crossLink"}, {"createDashboard"}, {"seedSample"}, {"importProject"},
   {"restoreVersion"},
   {"buildLog"},
   {"uploadRaw"},
   {"exportPdf"},
   {"uploadLog"},
   {"setMapping"},
   {"chatStream", "agentRun"},
   {"extractLog"},
   {"convertLog"}}

\* What a form creates is not created twice by a second click, whatever else
\* the user does before the answer.
OneSave ==
  LET saves == InFlight(UNION Guarded)
  IN  \A c \in saves : \A d \in saves \ {c} : ~\E ops \in Guarded : {c.op, d.op} \subseteq ops

\* findSlot and repack keep the widgets of a dashboard apart, however the lists
\* that the handlers of several renders send replace each other; not so once two
\* of different sizes swap places, or the settings of a moved widget are saved.
WidgetsApart ==
  page = "editor" /\ ~db.loose =>
    \A i, j \in Placed(db.widgets) : i # j => ~Covers(db.widgets[i], db.widgets[j])

\* Signed in, the store and the requests hold the same token, however sign-ins,
\* sign-outs, expired tokens and reloads overlap: each place that drops or takes a
\* token treats both, or loads the page again, which asks for the profile.
OneSession ==
  page = "session" /\ Quiet /\ ui.session.token # None =>
    ui.session.kept = ui.session.token /\ ui.session.authed

\* However maps, settings and selections follow each other, each picture of a map has
\* on it what goes with the elements it draws (the comment at ProcessMap.tsx:776).
CanvasKeepsUp ==
  /\ page = "flat" => FlatRight
  /\ page = "webgl" => WebglRight
  /\ page = "city" => CityRight
  /\ page = "pulse" => PulseRight

\* simplifyGraph thins a map without blanking it or cutting off its first and last
\* activities, whatever is hidden.
EdgesKept == page = "flat" => MapAnchored

\* However the user goes to and fro between the sources, neither the draft of a
\* connector nor one that was saved carries the name or the port that the form had
\* filled in for another source.
DraftFits ==
  page = "form" =>
    /\ NamedAndPorted(ui.draft)
    /\ \A i \in Items : db[i] # None => NamedAndPorted(db[i])

\* UploadPage.tsx:199-201: once the mapping is saved, "take the user straight to
\* the first-value view"; with every call answered and none lost, nobody is left
\* at the mapper of a log whose mapping is stored.
SavedMappingOpens ==
  page = "upload" /\ Quiet /\ faults = 0 /\ MapperShown => db.mapping[ui.log] = None

\* Views without a cleanup that stay when what they show changes: the answer that
\* comes last is shown, not the one asked for last.
Racing ==
  {"casesAtRisk", "socialNetwork", "dottedChart", "rework", "usage", "lineage", "shared",
   "sustainability", "mission", "sna", "graph", "objects", "section", "ocelInsights",
   "happyPath", "cases", "caseDetail", "activity", "controller", "histogram", "treemap",
   "evolution", "quality_cost", "matrix", "stochastic", "whatIf", "candidates", "apps",
   "gantt", "teams", "auditLog"}

\* In every other view an answer that comes after another log was opened, or a
\* setting changed, does not replace the present one (useAnalysisData and its
\* like), unless a button asks for it; nor does one in the sidebar's switcher.
LateAnswersDropped ==
  /\ page = "views" /\ Quiet /\ faults = 0 /\ ui.view \notin Racing /\ ~Is("asked") =>
       ui.shown = KeyOf(ui) /\ ui.rest = KeyOf(ui)
  /\ page = "shell" /\ Quiet /\ faults = 0 => SwitcherRight

\* Views that keep the result of what was asked before, and those that keep an
\* error of it.
OnRequest ==
  {"comparison", "simulation", "fourEyes", "timedDeclare", "dp", "des", "states",
   "workflow"}

Lasting ==
  OnRequest \cup {"section", "insights", "evolution", "gantt", "desParameters", "mission",
                 "health"}

Grudging ==
  OnRequest \cup {"shared", "animation", "controller", "socialNetwork", "dottedChart",
                 "rework"}

\* However the calls fail, every other view shows a result of the log and the
\* setting on the screen, or none, and reports no failure of another.
ShowsItsLog ==
  page = "views" /\ Quiet /\ ~clash =>
    /\ ui.view \notin Lasting =>
         {Displayed(ui.shown), Displayed(ui.rest)} \subseteq {None, KeyOf(ui)}
    /\ ui.view \notin Grudging => ui.error \in {None, KeyOf(ui)}

=============================================================================
