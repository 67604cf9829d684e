--------------------------- MODULE WebPages_proofs ---------------------------
(***************************************************************************)
(* Proofs about WebPages: what holds of the session, the connector form, the *)
(* analysis views, the switcher, the pictures of a map and the widgets of a   *)
(* dashboard.  One page is mounted for good (PageStays), so the invariant is  *)
(* one of each page: a step of another page cannot be taken, and a refusal is *)
(* the only step that pages have in common.                                 *)
(***************************************************************************)
EXTENDS WebPages, FiniteSetTheorems, TLAPS

\* A record with these parts, whatever their values.
Shaped(r, parts) == DOMAIN r = parts /\ r = [x \in parts |-> r[x]]

\* A call has the parts that Request gave it.
IsCall(c) == Shaped(c, {"n", "op", "on", "arg", "stage", "ans"})

LEMMA RequestIs ==
  ASSUME NEW op, NEW on, NEW arg, NEW others
  PROVE  LET r == Request(op, on, arg, others)
         IN  /\ IsCall(r) /\ r.op = op /\ r.on = on /\ r.arg = arg
             /\ r.stage \in {"ok", "sent"} /\ (r.stage = "ok" => op \in Readings)
<1>1. ASSUME NEW n, NEW stage
      PROVE  LET r == [n |-> n, op |-> op, on |-> on, arg |-> arg, stage |-> stage, ans |-> None]
             IN  /\ IsCall(r) /\ r.op = op /\ r.on = on /\ r.arg = arg /\ r.stage = stage
  BY DEF IsCall, Shaped
<1>2. PICK n, stage : /\ Request(op, on, arg, others) =
                          [n |-> n, op |-> op, on |-> on, arg |-> arg, stage |-> stage, ans |-> None]
                      /\ stage = IF op \in Readings THEN "ok" ELSE "sent"
  BY DEF Request
<1> QED
  BY <1>1, <1>2

\* A call at another stage is the same call.
SameCall(d, c, stage) ==
  IsCall(d) /\ d.op = c.op /\ d.on = c.on /\ d.arg = c.arg /\ d.stage = stage

LEMMA AnsweredIs ==
  ASSUME NEW c, IsCall(c), NEW stage, NEW ans
  PROVE  SameCall([c EXCEPT !.stage = stage, !.ans = ans], c, stage)
BY DEF SameCall, IsCall, Shaped

LEMMA RefusedIs ==
  ASSUME NEW c, IsCall(c), NEW stage
  PROVE  SameCall([c EXCEPT !.stage = stage], c, stage)
BY DEF SameCall, IsCall, Shaped

-----------------------------------------------------------------------------
(* The page that is mounted stays mounted                                   *)

\* No click, answer, service or refusal of any page mounts another one.
LEMMA PageStays ==
  ASSUME [Next]_spaVars
  PROVE  page' = page
<1>1. RulesNext => page' = page
  BY DEF RulesNext, RulesClicks, ChooseRulesProject, Send, SendAlso, Calling, Click,
         OpenRuleForm, Local, CloseRuleForm, SaveRule, ToggleRule, RemoveRule,
         RunRule, ExpandHistory, RulesAnswers, RulesLoaded, Then, Done, Handling,
         RuleSaved, RuleToggled, RuleRemoved, RuleRan, HistoryLoaded, Serve
<1>2. ReportsNext => page' = page
  BY DEF ReportsNext, ReportsClicks, LoadReports, Send, SendAlso, Calling, Click,
         OpenReportForm, Local, CloseReportForm, SaveReport, DeleteReport,
         ToggleReport, SendReport, ReportsAnswers, ReportsLoaded, Done, Handling,
         ReportCreated, ReportUpdated, ReportDeleted, ReportToggled, ReportSent, Serve
<1>3. KpisNext => page' = page
  BY DEF KpisNext, KpisClicks, ChooseKpiProject, SendAlso, Calling, Click,
         RefreshKpis, Send, PickKpiLog, Local, OpenKpiForm, CloseKpiForm, CreateKpi,
         EditKpi, DeleteKpi, ComputeKpi, KpisAnswers, KpisLoaded, Done, Handling,
         KpiLogsLoaded, KpiCreated, KpiEdited, KpiDeleted, KpiComputed, Serve
<1>4. AlertsNext => page' = page
  BY DEF AlertsNext, AlertsClicks, OpenAlertForm, Local, Click, CloseAlertForm,
         SaveAlert, Send, SendAlso, Calling, TestAlert, DeleteAlert, AlertsAnswers,
         AlertsLoaded, Done, Handling, AlertSaved, Then, AlertTested, AlertDeleted,
         Serve
<1>5. InitiativesNext => page' = page
  BY DEF InitiativesNext, InitiativesClicks, GoToInitiatives, Send, SendAlso, Calling,
         Click, OpenInitiativeForm, Local, CloseInitiativeForm, CreateInitiative,
         MeasureInitiative, DeleteInitiative, InitiativesAnswers, InitiativesLoaded,
         Done, Handling, InitiativeCreated, Then, InitiativeChanged, Serve
<1>6. InboxNext => page' = page
  BY DEF InboxNext, InboxClicks, SelectTask, Local, Click, CloseTask, OpenTaskForm,
         CloseTaskForm, CreateTask, Send, SendAlso, Calling, ActOnTask, InboxAnswers,
         InboxLoaded, Done, Handling, TaskUpdated, Then, TaskDeleted, TaskCreated,
         SummaryLoaded, Serve
<1>7. ChangesNext => page' = page
  BY DEF ChangesNext, ChangesClicks, FilterChanges, LoadChanges, Send, SendAlso,
         Calling, Click, RetryChanges, OpenChangeForm, Local, CloseChangeModal,
         CreateChange, ConfirmReject, SubmitChange, ApproveChange, AskReject,
         ChangesAnswers, ChangesLoaded, Done, Handling, ChangeCreated, ChangeActed,
         Serve
<1>8. TemplatesNext => page' = page
  BY DEF TemplatesNext, TemplatesClicks, SeedTemplates, Send, SendAlso, Calling,
         Click, OpenTemplateForm, Local, CloseTemplateForm, CreateTemplate,
         TemplatesAnswers, TemplatesLoaded, Done, Handling, TemplatesSeeded, Then,
         TemplateCreated, Serve
<1>9. MiningNext => page' = page
  BY DEF MiningNext, MiningClicks, GoToMining, Calling, Click, SelectMiningLog, Local,
         MinePatterns, Send, SendAlso, CrossLink, MiningAnswers, PatternsLoaded, Done,
         Handling, MiningLogsLoaded, PatternsMined, Then, CrossLinked, Serve
<1>10. JourneysNext => page' = page
  BY DEF JourneysNext, JourneysClicks, LoadJourneys, Send, SendAlso, Calling, Click,
         OpenJourneyForm, Local, CloseJourneyForm, SaveJourney, AddStage,
         PersistStages, SelectJourney, DeleteJourney, EditStage, DeleteStage,
         JourneysAnswers, JourneysLoaded, Done, Handling, JourneySaved,
         JourneyDeleted, StagesSaved, Serve
<1>11. ConnectorsNext => page' = page
  BY DEF ConnectorsNext, ConnectorsClicks, OpenConnectorForm, Local, Click,
         CloseConnectorForm, SaveConnector, Send, SendAlso, Calling,
         StepConnectorForm, DeleteConnector, CheckConnector, ConnectorsAnswers,
         ConnectorsLoaded, Done, Handling, ConnectorSaved, Then, ConnectorChecked,
         ConnectorDeleted, Serve
<1>12. ProjectsNext => page' = page
  BY DEF ProjectsNext, ProjectsClicks, OpenProjectForm, Local, Click,
         CloseProjectForm, SeedSample, Send, SendAlso, Calling, ImportProject,
         CreateProject, ExportProject, DeleteProject, ProjectsAnswers,
         ProjectsFetched, Then, Done, Handling, ProjectCreated, SampleSeeded,
         SampleLogsListed, ProjectImported, ProjectExported, ProjectDeleted, Serve
<1>13. DashboardsNext => page' = page
  BY DEF DashboardsNext, DashboardsClicks, OpenDashboardForm, Local, Click,
         CloseDashboardForm, CreateDashboard, Send, SendAlso, Calling,
         DeleteDashboard, DashboardsAnswers, DashboardsLoaded, Done, Handling,
         DashboardCreated, DashboardDeleted, Serve
<1>14. EditorNext => page' = page
  BY DEF EditorNext, EditorClicks, ToggleEdit, Local, Click, OpenAdd, CloseAdd,
         ChooseAddMode, AskAI, Send, SendAlso, Calling, AddWidget, Put,
         AskDeleteWidget, OpenSettings, SwapWidgets, CancelDeleteWidget, DeleteWidget,
         CloseSettings, SaveSettings, ToggleVersions, RetryVersions, OpenVersionForm,
         SaveVersion, AskRestore, CloseVersionModal, ConfirmRestore, EditorAnswers,
         EditorLoaded, Done, Handling, AIAnswered, Then, WidgetsPut, VersionsLoaded,
         VersionSaved, VersionRestored, DropLate, Serve
<1>15. BuilderNext => page' = page
  BY DEF BuilderNext, BuilderClicks, ChooseFile, Send, SendAlso, Calling, Click,
         RemoveSource, SetJoin, Local, ResetBuilder, ApplyPack, ClearPack,
         SetBuildMode, SuggestMapping, ToggleObjectType, SetCaseId, AddEvent,
         BuildLog, RemoveEvent, UpdateEvent, BuilderAnswers, PacksLoaded, Done,
         Handling, TableUploaded, FirstUploaded, Then, NextUploaded, MappingSuggested,
         LogBuilt, Serve
<1>16. ProcessNext => page' = page
  BY DEF ProcessNext, ProcessClicks, RetryDiscovery, FetchDiscovery, SendAlso,
         Calling, Click, SetNoise, Rescoped, ClearChips, ChooseEngine, OpenLog,
         ChooseAlgorithm, FilterWith, FilterWithout, AddChip, ToggleChip, RemoveChip,
         ChooseTab, Local, ProcessAnswers, EventLogLoaded, Done, MapDiscovered
<1>17. ViewsNext => page' = page
  BY DEF ViewsNext, ViewsClicks, OpenOtherLog, Load, Calling, Click, ChangeSetting,
         Effect, Ask, Retry, ReloadPage, ViewsAnswers, LosePart, Analysed, Done,
         AnalysisFailed, Handling
<1>18. StoreNext => page' = page
  BY DEF StoreNext, StoreClicks, OpenMiningPage, FetchAnalysis, Calling, Click,
         RetryAnalysis, ExportConformancePdf, Send, SendAlso, StoreAnswers,
         AnalysisFetched, Done, Handling, PdfExported
<1>19. UploadNext => page' = page
  BY DEF UploadNext, UploadClicks, DropFile, Local, Click, RejectFile, RemoveFile,
         SendFile, Send, SendAlso, Calling, SubmitMapping, BackToUpload, ChooseColumn,
         ToggleAdditionalColumn, LeaveUpload, UploadAnswers, UploadProjectLoaded,
         Done, Handling, LogUploaded, Then, LogPreviewed, MappingSaved, UploadServer,
         Serve
<1>20. ChatNext => page' = page
  BY DEF ChatNext, ChatClicks, OpenPanel, SuggestionsAsked, Calling, Click, GoToLog,
         SetChatMode, Local, ClosePanel, TypeQuestion, AskQuestion, AskModel, Send,
         SendAlso, AskSuggestion, ClearChat, OpenCopilot, CloseCopilot, SendCopilot,
         ChatAnswers, AskFromAddress, Handling, Suggested, Done, ChunkRead,
         StreamLine, ToolStartRead, ToolResultRead, StreamRead, StreamBroken,
         StreamRefused, AgentRan, CopilotAnswered, ChatServer, Serve
<1>21. OcpmNext => page' = page
  BY DEF OcpmNext, OcpmClicks, VisitOcpm, AutoLoad, SendAlso, Calling, Click, PickLog,
         Local, SetPageTab, UploadOcel, Send, PickColumns, Convert, Flatten,
         ResetOcel, OcpmAnswers, OcpmLogsLoaded, Done, Handling, OcelStored, Then,
         OcelSummaryLoaded, OcelDiscovered, Flattened, OcpmServer, Serve
<1>22. GovernanceNext => page' = page
  BY DEF GovernanceNext, GovernanceClicks, NameCapability, Local, Click, CloseNaming,
         SubmitName, Send, SendAlso, Calling, CloseLinking, AddEntry,
         DeleteCapability, OpenLinking, Promote, ShowHistory, UpdateField, UnlinkLog,
         LinkLog, GovernanceAnswers, CapabilitiesLoaded, Done, Handling,
         CapabilityChanged, Then, EntriesLoaded, FieldUpdated, EntryChanged,
         HistoryShown, CapabilitiesServer, Serve, EntriesServer
<1>23. SessionNext => page' = page
  BY DEF SessionNext, SessionClicks, SubmitLogin, Further, Render, Overlapping,
         Calling, Click, SubmitRegister, SubmitActivate, FollowLink, OpenAddress,
         Reloaded, TokenExpires, SignOut, UseApp, SessionAnswers, DemoStatusKnown,
         Bootstrapped, Validate, Handling, DemoLoggedIn, ProfileKnown, Intercepted,
         LoginAnswered, Registered, Activated, Used, SessionServer, Serve
<1>24. AccountNext => page' = page
  BY DEF AccountNext, AccountClicks, OpenTab, SendAlso, Calling, Click, EditDraft,
         Local, TypeSecret, SaveProfile, Send, ChangePassword, SaveConfig,
         ClearApiKey, ActOnUser, NameKey, CreateKey, RevokeKey, AccountAnswers,
         ConfigLoaded, Done, Handling, ProfileSaved, PasswordChanged, ConfigSaved,
         UsersLoaded, UserActed, KeysLoaded, KeyCreated, Then, KeyRevoked,
         SettingsServer, Serve, UsersServer, KeysServer
<1>25. ProjectNext => page' = page
  BY DEF ProjectNext, ProjectClicks, OpenProject, Calling, Click, DeleteLog, Send,
         SendAlso, Finish, Poll, LeaveProject, Local, ProjectAnswers, ProjectKnown,
         Done, Handling, LogsKnown, LogDeleted, ProjectServer, Serve
<1>26. ShellNext => page' = page
  BY DEF ShellNext, ShellClicks, Navigate, Visit, Calling, Click, SwitcherLink,
         ToggleSidebar, OpenSidebar, Local, ClickSwitcher, ShellAnswers, LogResolved,
         Done, Then, SendAlso, ProjectSwitched, ProjectsPicked, Handling, ShellServer, Serve
<1>27. HeaderNext => page' = page
  BY DEF HeaderNext, HeaderClicks, FollowAddress, ChooseHit, Local, Click, TypeSearch,
         SearchArrow, StepTour, TypeInPalette, MoveInPalette, MenuArrow, FocusSearch,
         EscapeSearch, TogglePalette, OpenPalette, ClosePalette, PickAnalysis,
         BrowseProjects, UserMenu, GoToSettings, Leave, Calling, ComeBack, SendSearch,
         Handling, StartTour, SearchAnswered
<1>28. PulseNext => page' = page
  BY DEF PulseNext, OpenPulse, Send, SendAlso, Calling, Click, ChooseLens, Local,
         ReloadPulse, TogglePlay, PulseFrame, PulseDiscovered, Done
<1>29. FlatNext => page' = page
  BY DEF FlatNext, FlatClicks, GiveMap, Given, UpdateElements, SendAlso, Calling, Click,
         SetDetail, Local, SetLayout, Hide, TapNode, OpenMenu, TapEdge, HoverNode, TakeAway,
         ToggleCleanView, Restyle, ClearSelection, TapBackground, ShowDetails, CrossZoom,
         LayoutStops, Handling, LayoutForgotten, GrabCanvas
<1>30. WebglNext => page' = page
  BY DEF WebglNext, GiveGraph, Calling, Click, LeaveWebgl, SelectInWebgl, HoverWebgl,
         Flash, ResetFlashes, ToggleMinimap, Local, ToggleExport, FlashEnds, Handling
<1>31. CityNext => page' = page
  BY DEF CityNext, GiveCity, Local, Click, SelectTower, HoverTower, ChooseMetric, LeaveCity
<1>32. ConnectorFormNext => page' = page
  BY DEF ConnectorFormNext, ConnectorFormClicks, PickSource, Typing, Local, Click,
         GoToConnect, TypePort, FillPanel, GoToFinish, StepBack, CancelForm,
         NameColumns, SaveForm, Send, SendAlso, Calling, NameConnector, FillSetting,
         SetSapMode, RegistryLoaded, Done, Handling, FormSaved, Serve
<1>33. BenchmarkNext => page' = page
  BY DEF BenchmarkNext, BenchmarkClicks, OpenBenchmark, Send, SendAlso, Calling,
         Click, ToggleLog, Reselected, Compare, ToggleSlice, RetryBenchmark,
         BenchmarkAnswers, BenchmarkLogsLoaded, Done, Handling, SliceFlattened,
         Benchmarked, Serve
<1>34. ASSUME NEW c \in calls, Refuse(c) PROVE page' = page
  BY <1>34 DEF Refuse
<1> QED
  BY <1>1, <1>2, <1>3, <1>4, <1>5, <1>6, <1>7, <1>8, <1>9, <1>10, <1>11, <1>12, <1>13,
     <1>14, <1>15, <1>16, <1>17, <1>18, <1>19, <1>20, <1>21, <1>22, <1>23, <1>24,
     <1>25, <1>26, <1>27, <1>28, <1>29, <1>30, <1>31, <1>32, <1>33, <1>34 DEF Next, spaVars

-----------------------------------------------------------------------------
(* One session                                                              *)

\* What the session page keeps, and what its calls carry.
IsUi(u) ==
  /\ Shaped(u, {"path", "session", "busy", "error"})
  /\ Shaped(u.session, {"token", "kept", "user", "authed", "demo", "checked", "signing"})

Carries(c) == IsCall(c) /\ Shaped(c.arg, {"why", "token", "live"})

\* The calls that only a page that is being loaded makes, one after the other.
Boot(c) == c.op \in {"demoStatus", "demoLogin"} \/ c.arg.why = "demo"

Boots(s, c) ==
  /\ s.user = None
  /\ \/ c.op = "demoStatus" /\ ~s.authed
     \/ c.op = "demoLogin" /\ ~s.authed /\ s.token = None
     \/ c.op = "me" /\ c.arg.why = "demo" /\ s.authed /\ s.kept = s.token

\* A token in the store is the one the requests carry; where it has not been
\* accepted yet, its profile is awaited and nothing else can be done.
OneToken(s, cs) ==
  /\ s.kept = s.token
  /\ ~s.authed => s.user = None /\ \E c : cs = {c} /\ c.op = "me" /\ c.arg.why = "validate"

SessionOk(u, cs) ==
  /\ IsUi(u) /\ \A c \in cs : Carries(c)
  /\ IF u.session.checked
     THEN (\A c \in cs : ~Boot(c)) /\ (u.session.token # None => OneToken(u.session, cs))
     ELSE \E c : cs = {c} /\ Boots(u.session, c)

\* Whoever is signed in has left the login page, of which the interceptor only drops
\* the kept token.
SessionInv ==
  /\ SessionOk(ui, calls)
  /\ ui.session.checked /\ ui.session.token # None /\ ui.session.authed => ui.path # "login"

Muted(c) == [c EXCEPT !.arg.live = FALSE]

LEMMA MutedIs ==
  ASSUME NEW c, Carries(c)
  PROVE  Carries(Muted(c)) /\ Muted(c).op = c.op /\ Muted(c).arg.why = c.arg.why
  BY DEF Carries, IsCall, Muted, Shaped

\* It makes no difference whether the forms that calls wait for are still mounted.
LEMMA MutingKeeps ==
  ASSUME NEW u, NEW cs, SessionOk(u, cs)
  PROVE  SessionOk(u, {Muted(c) : c \in cs})
<1> DEFINE muted == {Muted(c) : c \in cs}
<1>1. \A c \in cs : Carries(Muted(c)) /\ Muted(c).op = c.op /\ Muted(c).arg.why = c.arg.why
  BY MutedIs DEF SessionOk
<1>2. \A c : cs = {c} => muted = {Muted(c)}
  OBVIOUS
<1>3. \A d \in muted : \E c \in cs : d = Muted(c)
  OBVIOUS
<1>4. \A d \in muted : Carries(d)
  BY <1>1, <1>3
<1> HIDE DEF muted
<1>5. CASE u.session.checked
  <2>1. \A d \in muted : ~Boot(d)
    BY <1>1, <1>3, <1>5 DEF SessionOk, Boot
  <2>2. u.session.token # None => OneToken(u.session, muted)
    BY <1>1, <1>2, <1>5 DEF SessionOk, OneToken
  <2> QED
    BY <1>4, <1>5, <2>1, <2>2 DEF SessionOk, muted
<1>6. CASE ~u.session.checked
  <2>1. PICK c : cs = {c} /\ Boots(u.session, c)
    BY <1>6 DEF SessionOk
  <2>2. Boots(u.session, Muted(c))
    BY <1>1, <2>1 DEF Boots
  <2> QED
    BY <1>2, <1>4, <1>6, <2>1, <2>2 DEF SessionOk, muted
<1> QED
  BY <1>5, <1>6

\* What is rendered after a step: the guards of the routes only lead on.
LEMMA RenderStep ==
  ASSUME NEW u, NEW cs, SessionOk(u, cs), Render(u, cs),
         u.path = "login" /\ ui.path = "app" => u.session.token = None
  PROVE  SessionInv'
<1>1. CASE ui' = u /\ calls' = cs /\ Led(u) = ui.path /\ ~Waiting(u)
  <2>1. u.session.token # None /\ u.session.authed => u.path # "login"
    BY <1>1 DEF Led
  <2> QED
    BY <1>1, <2>1 DEF SessionInv
<1>2. CASE /\ ui' = [u EXCEPT !.path = Led(u), !.busy = FALSE, !.error = FALSE]
           /\ calls' = {Muted(c) : c \in cs}
  <2>1. IsUi(ui') /\ ui'.session = u.session /\ ui'.path = Led(u)
    BY <1>2 DEF SessionOk, IsUi, Shaped
  <2>2. SessionOk(u, calls')
    BY <1>2, MutingKeeps
  <2>3. SessionOk(ui', calls')
    BY <2>1, <2>2 DEF SessionOk
  <2>4. u.session.checked /\ u.session.token # None /\ u.session.authed => Led(u) # "login"
    BY DEF Led, Waiting
  <2> QED
    BY <2>1, <2>3, <2>4 DEF SessionInv
<1> QED
  BY <1>1, <1>2 DEF Render, Muted

\* A reload starts the session over with what is stored.
LEMMA ReloadStep ==
  ASSUME NEW u, NEW path, Reloaded(u, path)
  PROVE  SessionInv'
<1> DEFINE r == Request("demoStatus", None, Carrying("demo", u.session.kept), {})
<1>1. calls' = {r} /\ ui' = Fresh(path, u.session.token, u.session.kept, u.session.demo)
  BY DEF Reloaded
<1>2. IsCall(r) /\ r.op = "demoStatus" /\ r.arg = Carrying("demo", u.session.kept)
  BY RequestIs
<1> HIDE DEF r
<1>3. Carries(r)
  BY <1>2 DEF Carries, Carrying, Shaped
<1>4. /\ IsUi(ui') /\ ~ui'.session.checked /\ ui'.session.user = None /\ ~ui'.session.authed
  BY <1>1 DEF Fresh, IsUi, Shaped
<1>5. Boots(ui'.session, r)
  BY <1>2, <1>4 DEF Boots
<1>6. SessionOk(ui', calls')
  BY <1>1, <1>3, <1>4, <1>5 DEF SessionOk
<1> QED
  BY <1>4, <1>6 DEF SessionInv

\* The profile is asked for, beside nothing.
LEMMA ValidateStep ==
  ASSUME NEW u, IsUi(u), u.session.checked, u.session.token # None, u.session.user = None,
         u.path = ui.path, Validate(u, "validate", {})
  PROVE  SessionInv'
<1> DEFINE v == [u EXCEPT !.session.kept = u.session.token]
           r == Request("me", None, Carrying("validate", u.session.token), {})
<1>1. Render(v, {r})
  BY DEF Validate, Further
<1>2. IsCall(r) /\ r.op = "me" /\ r.arg = Carrying("validate", u.session.token)
  BY RequestIs
<1>3. /\ IsUi(v) /\ v.session.checked /\ v.session.user = None
      /\ v.session.kept = v.session.token /\ v.path = ui.path
  BY DEF IsUi, Shaped
<1> HIDE DEF r, v
<1>4. Carries(r) /\ ~Boot(r) /\ r.arg.why = "validate"
  BY <1>2 DEF Carries, Carrying, Shaped, Boot
<1>5. OneToken(v.session, {r})
  BY <1>2, <1>3, <1>4 DEF OneToken
<1>6. SessionOk(v, {r})
  BY <1>3, <1>4, <1>5 DEF SessionOk
<1> QED
  BY <1>1, <1>3, <1>6, RenderStep

\* The page has been loaded.
LEMMA BootedStep ==
  ASSUME NEW u, IsUi(u), u.path = ui.path, Bootstrapped(u, {}),
         u.session.token # None /\ u.session.user # None
           => u.session.authed /\ u.session.kept = u.session.token
  PROVE  SessionInv'
<1> DEFINE v == [u EXCEPT !.session.checked = TRUE]
<1>1. /\ IsUi(v) /\ v.session.checked /\ v.path = ui.path
      /\ v.session.token = u.session.token /\ v.session.user = u.session.user
      /\ v.session.kept = u.session.kept /\ v.session.authed = u.session.authed
  BY DEF IsUi, Shaped
<1>2. IF v.session.token # None /\ v.session.user = None
      THEN Validate(v, "validate", {})
      ELSE Render(v, {})
  BY DEF Bootstrapped
<1> HIDE DEF v
<1>3. CASE v.session.token # None /\ v.session.user = None
  BY <1>1, <1>2, <1>3, ValidateStep
<1>4. CASE ~(v.session.token # None /\ v.session.user = None)
  <2>1. SessionOk(v, {})
    BY <1>1, <1>4 DEF SessionOk, OneToken
  <2> QED
    BY <1>1, <1>2, <1>4, <2>1, RenderStep
<1> QED
  BY <1>3, <1>4

LEMMA OtherChecked ==
  ASSUME SessionInv, NEW c \in calls, ~Boot(c)
  PROVE  ui.session.checked
BY DEF SessionInv, SessionOk, Boots, Boot

\* What the session is while something else than its being loaded goes on.
LEMMA OtherCall ==
  ASSUME SessionInv, NEW c \in calls, ~Boot(c), ~(c.op = "me" /\ c.arg.why = "validate")
  PROVE  /\ ui.session.checked
         /\ ui.session.token # None => ui.session.authed /\ ui.session.kept = ui.session.token
                                       /\ ui.path # "login"
<1>1. ui.session.checked
  BY DEF SessionInv, SessionOk, Boots, Boot
<1> QED
  BY <1>1 DEF SessionInv, SessionOk, OneToken

LEMMA OtherClick ==
  ASSUME SessionInv, ~Waiting(ui)
  PROVE  /\ ui.session.checked
         /\ ui.session.token # None => ui.session.authed /\ ui.session.kept = ui.session.token
                                       /\ ui.path # "login"
<1>1. ui.session.checked
  BY DEF Waiting
<1> QED
  BY <1>1 DEF SessionInv, SessionOk, OneToken, Waiting

\* The session is loaded and has no token, or one that was accepted and is kept.
Accepted(s) ==
  s.checked /\ (s.token # None => s.authed /\ s.kept = s.token)

\* What then stays in flight, with a call added.
LEMMA AcceptedOk ==
  ASSUME NEW u, IsUi(u), Accepted(u.session), NEW cs, \A c \in cs : Carries(c) /\ ~Boot(c)
  PROVE  SessionOk(u, cs)
BY DEF SessionOk, Accepted, OneToken

LEMMA CallsAccepted ==
  ASSUME SessionInv, ui.session.checked
  PROVE  \A c \in calls : Carries(c) /\ ~Boot(c)
BY DEF SessionInv, SessionOk

LEMMA AcceptedFurther ==
  ASSUME NEW u, IsUi(u), Accepted(u.session), NEW cs, \A c \in cs : Carries(c) /\ ~Boot(c),
         u.path = "login" /\ ui.path = "app" => u.session.token = None,
         NEW op, op \notin {"demoStatus", "demoLogin"}, NEW on, NEW arg,
         Shaped(arg, {"why", "token", "live"}), arg.why # "demo",
         Further(u, op, on, arg, cs)
  PROVE  SessionInv'
<1> DEFINE r == Request(op, on, arg, cs)
<1>1. Render(u, cs \cup {r})
  BY DEF Further
<1>2. IsCall(r) /\ r.op = op /\ r.arg = arg
  BY RequestIs
<1> HIDE DEF r
<1>3. Carries(r) /\ ~Boot(r)
  BY <1>2 DEF Carries, Boot
<1>4. \A c \in cs \cup {r} : Carries(c) /\ ~Boot(c)
  BY <1>3
<1>5. SessionOk(u, cs \cup {r})
  BY <1>4, AcceptedOk
<1> QED
  BY <1>1, <1>5, RenderStep

LEMMA AcceptedRender ==
  ASSUME NEW u, IsUi(u), Accepted(u.session), NEW cs, \A c \in cs : Carries(c) /\ ~Boot(c),
         u.path = "login" /\ ui.path = "app" => u.session.token = None,
         Render(u, cs)
  PROVE  SessionInv'
BY AcceptedOk, RenderStep

LEMMA CarryingIs ==
  ASSUME NEW why, NEW token
  PROVE  Shaped(Carrying(why, token), {"why", "token", "live"}) /\ Carrying(why, token).why = why
BY DEF Carrying, Shaped

\* What the user does.
LEMMA ClickStep ==
  ASSUME SessionInv, SessionClicks
  PROVE  SessionInv'
<1> USE DEF Accepted
<1>0. IsUi(ui)
  BY DEF SessionInv, SessionOk
<1>1. ASSUME NEW user \in Projects, NEW right \in BOOLEAN, SubmitLogin(user, right) PROVE SessionInv'
  <2> DEFINE u == [ui EXCEPT !.error = FALSE, !.session.signing = TRUE]
             on == IF right THEN user ELSE None
  <2>1. ~Waiting(ui) /\ Further(u, "login", on, Carrying("login", ui.session.kept), calls)
        /\ ui.path = "login"
    BY <1>1 DEF SubmitLogin, OnScreen
  <2>2. IsUi(u) /\ Accepted(u.session) /\ u.path = ui.path
    BY <1>0, <2>1, OtherClick DEF IsUi, Shaped
  <2> HIDE DEF u, on
  <2> QED
    BY <2>1, <2>2, OtherClick, CallsAccepted, CarryingIs, AcceptedFurther
<1>2. ASSUME NEW user \in Projects, SubmitRegister(user) PROVE SessionInv'
  <2> DEFINE u == [ui EXCEPT !.error = FALSE, !.busy = TRUE]
  <2>1. ~Waiting(ui) /\ Further(u, "register", user, Carrying("register", ui.session.kept), calls)
        /\ ui.path = "register"
    BY <1>2 DEF SubmitRegister, OnScreen
  <2>2. IsUi(u) /\ Accepted(u.session) /\ u.path = ui.path
    BY <1>0, <2>1, OtherClick DEF IsUi, Shaped
  <2> HIDE DEF u
  <2> QED
    BY <2>1, <2>2, OtherClick, CallsAccepted, CarryingIs, AcceptedFurther
<1>3. ASSUME NEW user \in Projects, SubmitActivate(user) PROVE SessionInv'
  <2> DEFINE u == [ui EXCEPT !.error = FALSE, !.busy = TRUE]
  <2>1. ~Waiting(ui) /\ Further(u, "activate", user, Carrying("activate", ui.session.kept), calls)
        /\ ui.path = "activate"
    BY <1>3 DEF SubmitActivate, OnScreen
  <2>2. IsUi(u) /\ Accepted(u.session) /\ u.path = ui.path
    BY <1>0, <2>1, OtherClick DEF IsUi, Shaped
  <2> HIDE DEF u
  <2> QED
    BY <2>1, <2>2, OtherClick, CallsAccepted, CarryingIs, AcceptedFurther
<1>4. ASSUME NEW path \in Paths, FollowLink(path) PROVE SessionInv'
  <2> DEFINE u == [ui EXCEPT !.path = path]
  <2>1. ~Waiting(ui) /\ Render(u, calls) /\ ui.path # "app"
    BY <1>4 DEF FollowLink
  <2>2. IsUi(u) /\ Accepted(u.session)
    BY <1>0, <2>1, OtherClick DEF IsUi, Shaped
  <2> HIDE DEF u
  <2> QED
    BY <2>1, <2>2, OtherClick, CallsAccepted, AcceptedRender
<1>5. ASSUME NEW path \in Paths, OpenAddress(path) PROVE SessionInv'
  BY <1>5, ReloadStep DEF OpenAddress
<1>6. ASSUME NEW t \in Items, TokenExpires(t) PROVE SessionInv'
  BY <1>6 DEF TokenExpires, SessionInv
<1>7. CASE SignOut
  <2> DEFINE u == [SignedOut(ui) EXCEPT !.session.kept = None, !.path = "login"]
  <2>1. ~Waiting(ui) /\ Further(u, "logout", None, Carrying("logout", u.session.kept), calls)
    BY <1>7 DEF SignOut, Inside, OnScreen
  <2>2. IsUi(u) /\ Accepted(u.session) /\ u.session.token = None
    BY <1>0, <2>1, OtherClick DEF IsUi, Shaped, SignedOut
  <2> HIDE DEF u
  <2> QED
    BY <2>1, <2>2, OtherClick, CallsAccepted, CarryingIs, AcceptedFurther
<1>8. CASE UseApp
  <2>1. ~Waiting(ui) /\ Further(ui, "use", None, Carrying("use", ui.session.kept), calls)
    BY <1>8 DEF UseApp, Inside, OnScreen
  <2>2. Accepted(ui.session)
    BY <2>1, OtherClick
  <2> QED
    BY <1>0, <2>1, <2>2, OtherClick, CallsAccepted, CarryingIs, AcceptedFurther
<1> QED
  BY <1>1, <1>2, <1>3, <1>4, <1>5, <1>6, <1>7, <1>8 DEF SessionClicks

\* The one call of a page that is being loaded.
LEMMA BootCall ==
  ASSUME SessionInv, NEW c \in calls, Boot(c)
  PROVE  ~ui.session.checked /\ calls = {c} /\ calls \ {c} = {} /\ Boots(ui.session, c)
<1>1. ~ui.session.checked
  BY DEF SessionInv, SessionOk
<1>2. PICK d : calls = {d} /\ Boots(ui.session, d)
  BY <1>1 DEF SessionInv, SessionOk
<1> QED
  BY <1>1, <1>2

\* The interceptor.
LEMMA InterceptedStep ==
  ASSUME SessionInv, NEW c \in calls, ~Boot(c), NEW u, IsUi(u), u.session.checked,
         ui.path = "login" => u.session.token = None, Intercepted(c, u)
  PROVE  SessionInv'
<1> DEFINE v == [u EXCEPT !.session.kept = None]
<1>1. IsUi(v) /\ v.session.checked /\ v.session.token = u.session.token
  BY DEF IsUi, Shaped
<1>2. CASE ui.path # "login"
  <2>1. Reloaded(v, "login")
    BY <1>2 DEF Intercepted
  <2> HIDE DEF v
  <2> QED
    BY <2>1, ReloadStep
<1>3. CASE ui.path = "login"
  <2>1. Render(v, calls \ {c})
    BY <1>3 DEF Intercepted, Boot
  <2>2. \A d \in calls \ {c} : Carries(d) /\ ~Boot(d)
    BY OtherChecked, CallsAccepted
  <2> HIDE DEF v
  <2> QED
    BY <1>1, <1>3, <2>1, <2>2, AcceptedRender DEF Accepted
<1> QED
  BY <1>2, <1>3

LEMMA LoginLostIs ==
  ASSUME NEW u, IsUi(u), NEW c
  PROVE  LET v == LoginLost(u, c)
         IN  /\ IsUi(v) /\ v.session.token = None /\ v.session.checked = u.session.checked
             /\ v.path = u.path
BY DEF LoginLost, IsUi, Shaped

LEMMA SignedInIs ==
  ASSUME NEW u, IsUi(u), NEW token
  PROVE  LET v == SignedIn(u, token)
         IN  /\ IsUi(v) /\ v.session.token = token /\ v.session.kept = token /\ v.session.authed
             /\ v.session.checked = u.session.checked /\ v.session.user = u.session.user
             /\ v.path = u.path
BY DEF SignedIn, IsUi, Shaped

\* The profile is lost or known, other than that of a demo session.
LEMMA LostIs ==
  ASSUME NEW u, IsUi(u), NEW c
  PROVE  LET v == Lost(u, c)
         IN  /\ IsUi(v) /\ v.session.checked = u.session.checked
             /\ v.path \in {u.path, "app"}
             /\ \/ v.session.token = None
                \/ c.arg.why \notin {"login", "register", "validate", "activate"} /\ v = u
<1>1. CASE c.arg.why \in {"login", "register"}
  BY <1>1, LoginLostIs DEF Lost
<1>2. CASE c.arg.why \in {"validate", "activate"}
  BY <1>2 DEF Lost, SignedOut, IsUi, Shaped
<1>3. CASE c.arg.why \notin {"login", "register", "validate", "activate"}
  BY <1>3 DEF Lost
<1> QED
  BY <1>1, <1>2, <1>3

LEMMA KnownIs ==
  ASSUME NEW u, IsUi(u), NEW c
  PROVE  LET v == Known(u, c)
         IN  /\ IsUi(v) /\ v.session.checked = u.session.checked
             /\ v.session.token = u.session.token /\ v.session.kept = u.session.kept
             /\ v.session.authed = u.session.authed \/ v.session.authed
             /\ c.arg.why = "validate" => v.session.authed
             /\ v.path \in {u.path, "app"}
<1>1. CASE c.arg.why \in {"login", "register"}
  BY <1>1 DEF Known, IsUi, Shaped
<1>2. CASE c.arg.why = "validate"
  BY <1>2 DEF Known, IsUi, Shaped
<1>3. CASE c.arg.why = "activate"
  BY <1>3 DEF Known, IsUi, Shaped
<1>4. CASE c.arg.why \notin {"login", "register", "validate", "activate"}
  BY <1>4 DEF Known, IsUi, Shaped
<1> QED
  BY <1>1, <1>2, <1>3, <1>4

\* The answers while the page is being loaded.
LEMMA BootStep ==
  ASSUME SessionInv, NEW c \in calls, Boot(c),
         \/ c.op = "demoStatus" /\ DemoStatusKnown(c)
         \/ c.op = "demoLogin" /\ DemoLoggedIn(c)
         \/ c.op = "me" /\ ProfileKnown(c)
  PROVE  SessionInv'
<1> DEFINE s == ui.session
<1>0. /\ IsUi(ui) /\ calls \ {c} = {} /\ Boots(s, c) /\ ~s.checked
  BY BootCall DEF SessionInv, SessionOk
<1>1. CASE c.op = "demoStatus" /\ DemoStatusKnown(c)
  <2>1. s.user = None /\ ~s.authed
    BY <1>0, <1>1 DEF Boots
  <2>2. CASE c.stage = "ok" /\ c.ans.demo /\ s.token = None
    <3> DEFINE r == Request("demoLogin", None, Carrying("demo", None), {})
    <3>1. Render(ui, {r})
      BY <1>0, <1>1, <2>2 DEF DemoStatusKnown, Further
    <3>2. Carries(r) /\ r.op = "demoLogin"
      BY RequestIs, CarryingIs DEF Carries
    <3> HIDE DEF r
    <3>3. SessionOk(ui, {r})
      BY <1>0, <2>1, <2>2, <3>2 DEF SessionOk, Boots
    <3> QED
      BY <3>1, <3>3, RenderStep
  <2>3. CASE ~(c.stage = "ok" /\ c.ans.demo /\ s.token = None)
    <3> DEFINE u == IF c.stage = "ok" THEN [ui EXCEPT !.session.demo = c.ans.demo] ELSE ui
    <3>1. Bootstrapped(u, {})
      BY <1>0, <1>1, <2>3 DEF DemoStatusKnown
    <3>2. IsUi(u) /\ u.path = ui.path /\ u.session.user = None
      BY <1>0, <2>1 DEF IsUi, Shaped
    <3> HIDE DEF u
    <3> QED
      BY <3>1, <3>2, BootedStep
  <2> QED
    BY <2>2, <2>3
<1>2. CASE c.op = "demoLogin" /\ DemoLoggedIn(c)
  <2> DEFINE u == [ui EXCEPT !.session.demo = TRUE]
  <2>1. IsUi(u) /\ u.path = ui.path /\ u.session.user = None /\ ~u.session.checked
    BY <1>0, <1>2 DEF Boots, IsUi, Shaped
  <2>2. IF c.stage = "failed" THEN Bootstrapped(u, {})
        ELSE Further(SignedIn(u, c.ans.token), "me", None, Carrying("demo", c.ans.token), {})
    BY <1>0, <1>2 DEF DemoLoggedIn
  <2> HIDE DEF u
  <2>3. CASE c.stage = "failed"
    BY <2>1, <2>2, <2>3, BootedStep
  <2>4. CASE c.stage # "failed"
    <3> DEFINE v == SignedIn(u, c.ans.token)
               r == Request("me", None, Carrying("demo", c.ans.token), {})
    <3>1. Render(v, {r})
      BY <2>2, <2>4 DEF Further
    <3>2. Carries(r) /\ r.op = "me" /\ r.arg.why = "demo"
      BY RequestIs, CarryingIs DEF Carries
    <3>3. /\ IsUi(v) /\ v.path = ui.path /\ v.session.user = None /\ ~v.session.checked
          /\ v.session.authed /\ v.session.kept = v.session.token
      BY <2>1, SignedInIs
    <3> HIDE DEF r, v
    <3>4. SessionOk(v, {r})
      BY <3>2, <3>3 DEF SessionOk, Boots
    <3> QED
      BY <3>1, <3>3, <3>4, RenderStep
  <2> QED
    BY <2>3, <2>4
<1>3. CASE c.op = "me" /\ ProfileKnown(c)
  <2>1. s.user = None /\ s.authed /\ s.kept = s.token /\ c.arg.why = "demo"
    BY <1>0, <1>3 DEF Boots
  <2>2. Lost(ui, c) = ui
    BY <2>1 DEF Lost
  <2>3. CASE Denied(c)
    <3> DEFINE v == [ui EXCEPT !.session.kept = None]
    <3>1. Intercepted(c, ui)
      BY <1>3, <2>2, <2>3 DEF ProfileKnown
    <3>2. IF ui.path # "login" THEN Reloaded(v, "login") ELSE Bootstrapped(v, {})
      BY <1>0, <2>1, <3>1 DEF Intercepted
    <3>3. IsUi(v) /\ v.path = ui.path /\ v.session.user = None
      BY <1>0, <2>1 DEF IsUi, Shaped
    <3> HIDE DEF v
    <3> QED
      BY <3>2, <3>3, ReloadStep, BootedStep
  <2>4. CASE ~Denied(c)
    <3> DEFINE u == IF c.stage = "ok" THEN Known(ui, c) ELSE ui
    <3>1. Bootstrapped(u, {})
      BY <1>0, <1>3, <2>1, <2>2, <2>4 DEF ProfileKnown
    <3>2. IsUi(u) /\ u.path = ui.path /\ u.session.authed /\ u.session.kept = u.session.token
      BY <1>0, <2>1 DEF Known, IsUi, Shaped
    <3> HIDE DEF u
    <3> QED
      BY <3>1, <3>2, BootedStep
  <2> QED
    BY <2>3, <2>4
<1> QED
  BY <1>1, <1>2, <1>3

\* The answers once it is loaded.
LEMMA AnswerStep ==
  ASSUME SessionInv, SessionAnswers
  PROVE  SessionInv'
<1>0. IsUi(ui)
  BY DEF SessionInv, SessionOk
<1> DEFINE others(c) == calls \ {c}
<1>a. ASSUME NEW c \in calls, ~Boot(c)
      PROVE  \A d \in others(c) : Carries(d) /\ ~Boot(d)
  BY <1>a, OtherChecked, CallsAccepted
<1>b. ASSUME NEW c \in calls, ~Boot(c)
      PROVE  Carries(c) /\ ui.session.checked
  BY <1>b, OtherChecked, CallsAccepted
<1> HIDE DEF others
<1>1. ASSUME NEW c \in Settled("demoStatus"), DemoStatusKnown(c) PROVE SessionInv'
  <2>1. c \in calls /\ c.op = "demoStatus" /\ Boot(c)
    BY DEF Settled, Answered, Refused, Boot
  <2> QED
    BY <1>1, <2>1, BootStep
<1>2. ASSUME NEW c \in Settled("demoLogin"), DemoLoggedIn(c) PROVE SessionInv'
  <2>1. c \in calls /\ c.op = "demoLogin" /\ Boot(c)
    BY DEF Settled, Answered, Refused, Boot
  <2> QED
    BY <1>2, <2>1, BootStep
<1>3. ASSUME NEW c \in Settled("me"), ProfileKnown(c) PROVE SessionInv'
  <2>1. c \in calls /\ c.op = "me"
    BY DEF Settled, Answered, Refused
  <2>2. CASE Boot(c)
    BY <1>3, <2>1, <2>2, BootStep
  <2>3. CASE ~Boot(c)
    <3>1. c.arg.why # "demo" /\ ui.session.checked
      BY <1>b, <2>1, <2>3 DEF Boot
    <3>2. ui.session.token # None => ui.session.kept = ui.session.token
      BY <3>1 DEF SessionInv, SessionOk, OneToken
    <3>3. CASE c.stage = "ok" /\ ~Denied(c)
      <4> DEFINE u == Known(ui, c)
      <4>1. Render(u, others(c))
        BY <1>3, <3>1, <3>3 DEF ProfileKnown, others
      <4>2. /\ IsUi(u) /\ u.session.checked /\ u.path \in {ui.path, "app"}
            /\ u.session.token # None => u.session.authed /\ u.session.kept = u.session.token
        <5>1. c.arg.why # "validate" /\ ui.session.token # None => ui.session.authed
          BY <2>1, <2>3, OtherCall
        <5> QED
          BY <1>0, <3>1, <3>2, <5>1, KnownIs
      <4> HIDE DEF u
      <4> QED
        BY <1>a, <2>1, <2>3, <4>1, <4>2, AcceptedRender DEF Accepted
    <3>4. CASE ~(c.stage = "ok" /\ ~Denied(c))
      <4> DEFINE u == Lost(ui, c)
      <4>1. IF Denied(c) THEN Intercepted(c, u) ELSE Render(u, others(c))
        BY <1>3, <3>1, <3>4 DEF ProfileKnown, others
      <4>2. /\ IsUi(u) /\ u.session.checked /\ u.path \in {ui.path, "app"}
            /\ u.session.token = None \/ (c.arg.why # "validate" /\ u = ui)
        BY <1>0, <3>1, LostIs
      <4> HIDE DEF u
      <4>3. /\ u.session.token # None => u.session.authed /\ u.session.kept = u.session.token
            /\ ui.path = "login" => u.session.token = None
        BY <2>1, <2>3, <4>2, OtherCall
      <4> QED
        BY <1>a, <2>1, <2>3, <4>1, <4>2, <4>3, InterceptedStep, AcceptedRender DEF Accepted
    <3> QED
      BY <3>3, <3>4
  <2> QED
    BY <2>2, <2>3
<1>4. ASSUME NEW c \in Settled("login"), LoginAnswered(c) PROVE SessionInv'
  <2> DEFINE lost == LoginLost(ui, c)
             in == SignedIn(ui, c.ans.token)
             arg == [c.arg EXCEPT !.token = c.ans.token]
  <2>1. c \in calls /\ c.op = "login"
    BY DEF Settled, Answered, Refused
  <2>2. CASE Boot(c)
    BY <2>1, <2>2, BootCall DEF Boots
  <2>3. CASE ~Boot(c)
    <3>1. Carries(c) /\ ui.session.checked /\ c.arg.why # "demo"
      BY <1>b, <2>1, <2>3 DEF Boot
    <3>2. IsUi(lost) /\ lost.session.token = None /\ lost.session.checked /\ lost.path = ui.path
      BY <1>0, <3>1, LoginLostIs
    <3>3. /\ IsUi(in) /\ in.session.checked /\ in.path = ui.path
          /\ in.session.authed /\ in.session.kept = in.session.token
      BY <1>0, <3>1, SignedInIs
    <3>4. Shaped(arg, {"why", "token", "live"}) /\ arg.why = c.arg.why
      BY <3>1 DEF Carries, Shaped
    <3>5. \/ Intercepted(c, lost)
          \/ Render(lost, others(c))
          \/ Further(in, "me", None, arg, others(c))
      BY <1>4 DEF LoginAnswered, others
    <3> HIDE DEF lost, in, arg
    <3>6. CASE Intercepted(c, lost)
      BY <2>1, <2>3, <3>2, <3>6, InterceptedStep
    <3>7. CASE Render(lost, others(c))
      BY <1>a, <2>1, <2>3, <3>2, <3>7, AcceptedRender DEF Accepted
    <3>8. CASE Further(in, "me", None, arg, others(c))
      BY <1>a, <2>1, <2>3, <3>1, <3>3, <3>4, <3>8, AcceptedFurther DEF Accepted
    <3> QED
      BY <3>5, <3>6, <3>7, <3>8
  <2> QED
    BY <2>2, <2>3
<1>5. ASSUME NEW c \in Settled("register"), Registered(c) PROVE SessionInv'
  <2> DEFINE u == [ui EXCEPT !.busy = @ /\ ~c.arg.live, !.error = @ \/ c.arg.live]
             v == [ui EXCEPT !.session.signing = TRUE]
  <2>1. c \in calls /\ c.op = "register"
    BY DEF Settled, Answered, Refused
  <2>2. CASE Boot(c)
    BY <2>1, <2>2, BootCall DEF Boots
  <2>3. CASE ~Boot(c)
    <3>1. Carries(c) /\ Accepted(ui.session) /\ c.arg.why # "demo"
      BY <1>b, <2>1, <2>3, OtherCall DEF Boot, Accepted
    <3>2. IsUi(u) /\ Accepted(u.session) /\ u.path = ui.path
      BY <1>0, <3>1 DEF IsUi, Shaped
    <3>3. IsUi(v) /\ Accepted(v.session) /\ v.path = ui.path
      BY <1>0, <3>1 DEF IsUi, Shaped, Accepted
    <3>4. Shaped(c.arg, {"why", "token", "live"})
      BY <3>1 DEF Carries
    <3>5. Render(u, others(c)) \/ Further(v, "login", c.on, c.arg, others(c))
      BY <1>5 DEF Registered, others
    <3> HIDE DEF u, v
    <3> QED
      BY <1>a, <2>1, <2>3, <3>1, <3>2, <3>3, <3>4, <3>5, AcceptedRender, AcceptedFurther
  <2> QED
    BY <2>2, <2>3
<1>6. ASSUME NEW c \in Settled("activate"), Activated(c) PROVE SessionInv'
  <2> DEFINE u == [ui EXCEPT !.busy = @ /\ ~c.arg.live, !.error = @ \/ c.arg.live]
             in == SignedIn(ui, c.ans.token)
             arg == [c.arg EXCEPT !.token = c.ans.token]
  <2>1. c \in calls /\ c.op = "activate"
    BY DEF Settled, Answered, Refused
  <2>2. CASE Boot(c)
    BY <2>1, <2>2, BootCall DEF Boots
  <2>3. CASE ~Boot(c)
    <3>1. Carries(c) /\ Accepted(ui.session) /\ c.arg.why # "demo"
      BY <1>b, <2>1, <2>3, OtherCall DEF Boot, Accepted
    <3>2. IsUi(u) /\ Accepted(u.session) /\ u.path = ui.path
      BY <1>0, <3>1 DEF IsUi, Shaped
    <3>3. IsUi(in) /\ Accepted(in.session) /\ in.path = ui.path
      BY <1>0, <3>1, SignedInIs DEF Accepted
    <3>4. Shaped(arg, {"why", "token", "live"}) /\ arg.why = c.arg.why
      BY <3>1 DEF Carries, Shaped
    <3>5. Render(u, others(c)) \/ Further(in, "me", None, arg, others(c))
      BY <1>6 DEF Activated, others
    <3> HIDE DEF u, in, arg
    <3> QED
      BY <1>a, <2>1, <2>3, <3>1, <3>2, <3>3, <3>4, <3>5, AcceptedRender, AcceptedFurther
  <2> QED
    BY <2>2, <2>3
<1>7. ASSUME NEW op \in {"use", "logout"}, NEW c \in Settled(op), Used(c) PROVE SessionInv'
  <2>1. c \in calls /\ c.op \in {"use", "logout"}
    BY DEF Settled, Answered, Refused
  <2>2. CASE Boot(c)
    BY <2>1, <2>2, BootCall DEF Boots
  <2>3. CASE ~Boot(c)
    <3>1. /\ Accepted(ui.session) /\ ui.session.checked
          /\ ui.path = "login" => ui.session.token = None
      BY <2>1, <2>3, OtherCall DEF Accepted
    <3>2. IF Denied(c) THEN Intercepted(c, ui) ELSE Render(ui, others(c))
      BY <1>7 DEF Used, others
    <3> QED
      BY <1>0, <1>a, <2>1, <2>3, <3>1, <3>2, InterceptedStep, AcceptedRender
  <2> QED
    BY <2>2, <2>3
<1> QED
  BY <1>1, <1>2, <1>3, <1>4, <1>5, <1>6, <1>7 DEF SessionAnswers

\* A call that is served or refused is the same call.
LEMMA ReplyStep ==
  ASSUME SessionInv, NEW c \in calls, NEW d, Carries(d), d.op = c.op, d.arg = c.arg,
         calls' = (calls \ {c}) \cup {d}, ui' = ui
  PROVE  SessionInv'
<1>1. \A e \in calls' : e = d \/ e \in calls
  OBVIOUS
<1>2. \A e : calls = {e} => e = c /\ calls' = {d}
  OBVIOUS
<1>3. \A e \in calls' : Carries(e)
  BY <1>1 DEF SessionInv, SessionOk
<1>4. CASE ui.session.checked
  <2>1. \A e \in calls' : ~Boot(e)
    BY <1>1, <1>4 DEF SessionInv, SessionOk, Boot
  <2>2. ui.session.token # None => OneToken(ui.session, calls')
    BY <1>2, <1>4 DEF SessionInv, SessionOk, OneToken
  <2> QED
    BY <1>3, <1>4, <2>1, <2>2 DEF SessionInv, SessionOk
<1>5. CASE ~ui.session.checked
  <2>1. PICK e : calls = {e} /\ Boots(ui.session, e)
    BY <1>5 DEF SessionInv, SessionOk
  <2>2. Boots(ui.session, d)
    BY <1>2, <2>1 DEF Boots
  <2> QED
    BY <1>2, <1>3, <1>5, <2>1, <2>2 DEF SessionInv, SessionOk
<1> QED
  BY <1>4, <1>5

LEMMA ServeStep ==
  ASSUME SessionInv, NEW c \in calls, NEW o, Serve(c, o)
  PROVE  SessionInv'
<1>1. PICK d, stage : /\ calls' = (calls \ {c}) \cup {d} /\ ui' = ui
                      /\ d = [c EXCEPT !.stage = stage, !.ans = o.ans]
  BY DEF Serve
<1>2. Carries(c) /\ IsCall(c)
  BY DEF SessionInv, SessionOk, Carries
<1>3. SameCall(d, c, stage)
  BY <1>1, <1>2, AnsweredIs
<1> QED
  BY <1>1, <1>2, <1>3, ReplyStep DEF Carries, SameCall

LEMMA RefuseStep ==
  ASSUME SessionInv, NEW c \in calls, Refuse(c)
  PROVE  SessionInv'
<1>1. PICK d : /\ calls' = (calls \ {c}) \cup {d} /\ ui' = ui
               /\ d = [c EXCEPT !.stage = "failed"]
  BY DEF Refuse
<1>2. Carries(c) /\ IsCall(c)
  BY DEF SessionInv, SessionOk, Carries
<1>3. SameCall(d, c, "failed")
  BY <1>1, <1>2, RefusedIs
<1> QED
  BY <1>1, <1>2, <1>3, ReplyStep DEF Carries, SameCall

LEMMA SessionStep ==
  ASSUME SessionInv, SessionNext
  PROVE  SessionInv'
<1>1. ASSUME NEW c \in calls, SessionServer(c) PROVE SessionInv'
  BY <1>1, ServeStep DEF SessionServer
<1> QED
  BY <1>1, ClickStep, AnswerStep DEF SessionNext

-----------------------------------------------------------------------------
(* The draft of a connector                                                 *)

DraftParts == {"type", "name", "port", "typed", "columns", "mode", "bag"}

\* What is sent is put together from the draft of the moment, and stored as it is.
FormInv ==
  /\ Shaped(ui, {"step", "draft", "listed", "left"}) /\ Shaped(ui.draft, DraftParts)
  /\ NamedAndPorted(ui.draft)
  /\ Shaped(db, Items) /\ \A i \in Items : db[i] # None => NamedAndPorted(db[i])
  /\ \A c \in calls : IsCall(c) /\ (c.stage = "sent" => NamedAndPorted(c.arg))

LEMMA TypedIs ==
  ASSUME FormInv, NEW draft, Shaped(draft, DraftParts), NamedAndPorted(draft),
         Typing(draft)
  PROVE  FormInv'
BY DEF Typing, Local, FormInv, Shaped, NamedAndPorted, IsCall

LEMMA RepickedFits ==
  ASSUME NEW draft, Shaped(draft, DraftParts), NamedAndPorted(draft), NEW type \in Picked
  PROVE  Shaped(Repicked(draft, type), DraftParts) /\ NamedAndPorted(Repicked(draft, type))
BY DEF Repicked, Shaped, DraftParts, NamedAndPorted, PortOf, Picked

\* A name or a port the user types is no source's.
LEMMA OwnIsNoSource == {"", "own"} \cap Sources = {}
BY DEF Sources, Databases, OwnPanels, Bagged

LEMMA FormClickStep ==
  ASSUME FormInv, ConnectorFormClicks
  PROVE  FormInv'
<1> DEFINE d == ui.draft
<1>0. Shaped(d, DraftParts) /\ NamedAndPorted(d)
  BY DEF FormInv
<1>1. ASSUME NEW t \in Picked, PickSource(t) PROVE FormInv'
  BY <1>0, <1>1, RepickedFits, TypedIs DEF PickSource
<1>2. CASE GoToConnect
  <2>1. LET u == [ui EXCEPT !.step = "connect", !.draft.name = IF @ = "" THEN ui.draft.type ELSE @]
        IN  /\ Shaped(u, {"step", "draft", "listed", "left"}) /\ Shaped(u.draft, DraftParts)
            /\ NamedAndPorted(u.draft)
    BY <1>0 DEF FormInv, Shaped, DraftParts, NamedAndPorted
  <2> QED
    BY <1>2, <2>1 DEF GoToConnect, Local, FormInv
<1>3. CASE TypePort
  <2>1. LET e == [d EXCEPT !.port = "own", !.typed = @ \cup {"database"}]
        IN  Shaped(e, DraftParts) /\ NamedAndPorted(e)
    BY <1>0 DEF Shaped, DraftParts, NamedAndPorted
  <2> QED
    BY <1>3, <2>1, TypedIs DEF TypePort
<1>4. CASE FillPanel
  <2>1. LET e == [d EXCEPT !.typed = @ \cup {PanelOf(d.type)}]
        IN  Shaped(e, DraftParts) /\ NamedAndPorted(e)
    BY <1>0 DEF Shaped, DraftParts, NamedAndPorted
  <2> QED
    BY <1>4, <2>1, TypedIs DEF FillPanel
<1>5. CASE GoToFinish \/ StepBack \/ CancelForm
  <2>1. /\ ui'.draft = ui.draft /\ Shaped(ui', {"step", "draft", "listed", "left"})
        /\ UNCHANGED <<db, calls>>
    BY <1>5 DEF GoToFinish, StepBack, CancelForm, Local, FormInv, Shaped
  <2> QED
    BY <2>1 DEF FormInv
<1>6. CASE NameColumns
  <2>1. LET e == [d EXCEPT !.columns = TRUE]
        IN  Shaped(e, DraftParts) /\ NamedAndPorted(e)
    BY <1>0 DEF Shaped, DraftParts, NamedAndPorted
  <2> QED
    BY <1>6, <2>1, TypedIs DEF NameColumns
<1>7. CASE SaveForm
  <2> DEFINE r == Request("createConnector", None, ConfigOf(d), calls)
  <2>1. calls' = calls \cup {r} /\ UNCHANGED <<ui, db>>
    BY <1>7 DEF SaveForm, Send, SendAlso, Calling
  <2>2. NamedAndPorted(ConfigOf(d))
    BY <1>0 DEF ConfigOf, NamedAndPorted, PortOf
  <2>3. IsCall(r) /\ r.arg = ConfigOf(d)
    BY RequestIs
  <2> HIDE DEF r
  <2> QED
    BY <2>1, <2>2, <2>3 DEF FormInv
<1>8. ASSUME NEW n \in {"", "own"}, NameConnector(n) PROVE FormInv'
  <2>1. LET e == [d EXCEPT !.name = n]
        IN  Shaped(e, DraftParts) /\ NamedAndPorted(e)
    BY <1>0, OwnIsNoSource DEF Shaped, DraftParts, NamedAndPorted
  <2> QED
    BY <1>8, <2>1, TypedIs DEF NameConnector
<1>9. ASSUME NEW k \in BagKeys, FillSetting(k) PROVE FormInv'
  <2>1. LET e == [d EXCEPT !.bag[k] = d.type, !.typed = @ \cup {"erp"}]
        IN  Shaped(e, DraftParts) /\ NamedAndPorted(e)
    BY <1>0 DEF Shaped, DraftParts, NamedAndPorted
  <2> QED
    BY <1>9, <2>1, TypedIs DEF FillSetting
<1>10. ASSUME NEW m \in SapModes, SetSapMode(m) PROVE FormInv'
  <2>1. LET e == [d EXCEPT !.mode = m]
        IN  Shaped(e, DraftParts) /\ NamedAndPorted(e)
    BY <1>0 DEF Shaped, DraftParts, NamedAndPorted
  <2> QED
    BY <1>10, <2>1, TypedIs DEF SetSapMode
<1> QED
  BY <1>1, <1>2, <1>3, <1>4, <1>5, <1>6, <1>7, <1>8, <1>9, <1>10 DEF ConnectorFormClicks

LEMMA FormRefuseStep ==
  ASSUME FormInv, NEW c \in calls, Refuse(c)
  PROVE  FormInv'
<1>1. PICK d : /\ calls' = (calls \ {c}) \cup {d} /\ UNCHANGED <<ui, db>>
               /\ d = [c EXCEPT !.stage = "failed"]
  BY DEF Refuse
<1>2. IsCall(c)
  BY DEF FormInv
<1>3. SameCall(d, c, "failed")
  BY <1>1, <1>2, RefusedIs
<1> QED
  BY <1>1, <1>3 DEF FormInv, SameCall

LEMMA FormStep ==
  ASSUME FormInv, ConnectorFormNext
  PROVE  FormInv'
<1>1. ASSUME NEW c \in calls, RegistryLoaded(c) \/ FormSaved(c) PROVE FormInv'
  <2>1. /\ ui'.draft = ui.draft /\ Shaped(ui', {"step", "draft", "listed", "left"})
        /\ calls' \subseteq calls /\ db' = db
    BY <1>1 DEF RegistryLoaded, FormSaved, Done, Handling, FormInv, Shaped
  <2> QED
    BY <2>1 DEF FormInv
<1>2. ASSUME NEW c \in calls, NEW o \in ConnectorFormServer(c), Serve(c, o) PROVE FormInv'
  <2>a. PICK stage : stage = (IF o.ans = None THEN "failed" ELSE "ok") /\ stage # "sent"
    OBVIOUS
  <2>b. PICK d : d = [c EXCEPT !.stage = stage, !.ans = o.ans]
    OBVIOUS
  <2>1. calls' = (calls \ {c}) \cup {d} /\ ui' = ui /\ db' = o.db /\ c.stage = "sent"
    BY <1>2, <2>a, <2>b DEF Serve
  <2>2. PICK i \in Items : o.db = [db EXCEPT ![i] = c.arg]
    BY DEF ConnectorFormServer, Outcome
  <2>3. Shaped(db', Items) /\ \A j \in Items : db'[j] = IF j = i THEN c.arg ELSE db[j]
    BY <2>1, <2>2 DEF FormInv, Shaped
  <2>4. IsCall(c)
    BY DEF FormInv
  <2>5. SameCall(d, c, stage)
    BY <2>b, <2>4, AnsweredIs
  <2> QED
    BY <2>a, <2>1, <2>3, <2>5 DEF FormInv, SameCall
<1>3. \A op : Settled(op) \subseteq calls
  BY DEF Settled, Answered, Refused
<1> QED
  BY <1>1, <1>2, <1>3, FormClickStep DEF ConnectorFormNext

-----------------------------------------------------------------------------
(***************************************************************************)
(* The views of one analysis.  Their proofs go by what the traits of a view  *)
(* exclude together; each of these facts is read off the table of the views. *)
(***************************************************************************)

ViewParts ==
  {"view", "log", "setting", "shown", "rest", "asked", "error", "loading", "retried"}

IsView(u) ==
  Shaped(u, ViewParts) /\ u.view \in DOMAIN Views /\ u.log \in Projects /\ u.setting \in BOOLEAN

\* A call of the view, whether its answer is still taken or not.
Asks(c, view) ==
  /\ IsCall(c) /\ Shaped(c.arg, {"key", "live", "blank"}) /\ c.on = view
  /\ c.arg.key \in Key /\ c.arg.live \in BOOLEAN

\* The calls whose answer is taken.
Live(cs) == {c \in cs : c.arg.live}

\* Nothing failed: what was asked for last is shown or will be.
LastShown(u, cs) ==
  /\ \A c \in Live(cs) : c.arg.key = KeyOf(u)
  /\ Live(cs) # {} \/ (u.shown = KeyOf(u) /\ u.rest = KeyOf(u))

\* What is shown without an error is of the present key, or nothing.
NoOther(u) == {u.shown, u.rest} \subseteq {None, KeyOf(u)} \/ (u.error # None /\ ~Is("lenient"))

\* Nothing overlapped: one call at a time, for the present key.
OwnShown(u, cs, stored) ==
  /\ \A c, d \in Live(cs) : c = d
  /\ \A c \in Live(cs) : c.arg.key = KeyOf(u) /\ (~Is("keepsError") => u.error = None)
  /\ ui.view \notin Lasting => Live(cs) # {} \/ NoOther(u)
  /\ ui.view \notin Grudging => u.error \in {None, KeyOf(u)}
  /\ Is("lenient") =>
       /\ u.error # None \/ u.shown = None => stored = {}
       /\ \A c \in cs : c.arg.live /\ (c.arg.blank => stored = {})

ViewsInv ==
  /\ IsView(ui) /\ faults \in Nat
  /\ \A c \in calls : /\ Asks(c, ui.view) /\ (c.stage # "ok" => faults # 0)
                      /\ (c.stage = "part" => Is("parts"))
  /\ Is("silent") /\ ~Is("lenient") => ui.error = None
  /\ ui.view \notin Racing /\ ~Is("asked") /\ faults = 0 => LastShown(ui, calls)
  /\ ~Is("asked") /\ ~clash => OwnShown(ui, calls, db)

\* What the traits of a view exclude together.
LEMMA TraitsFit ==
  ASSUME NEW v \in DOMAIN Views
  PROVE  /\ v \notin Racing /\ "asked" \notin Views[v] /\ "guarded" \notin Views[v] =>
              /\ Views[v] \cap {"setting", "held"} = {}
              /\ "keyed" \in Views[v] \/ "global" \in Views[v]
         /\ "regenerates" \in Views[v] => "asked" \in Views[v]
         /\ "asked" \in Views[v] => v \in Lasting \cap Grudging
         /\ v \notin Lasting =>
              /\ Views[v] \cap {"parts", "lenient"} = {}
              /\ "silent" \in Views[v] => "drops" \in Views[v]
         /\ v \notin Grudging =>
              /\ "keepsError" \notin Views[v]
              /\ "cached" \in Views[v] =>
                   \/ Views[v] \cap {"forgives", "lenient", "silent"} # {}
                   \/ /\ "keyed" \in Views[v]
                      /\ Views[v] \cap {"setting", "again", "refresh"} = {}
         /\ "lenient" \in Views[v] => "silent" \in Views[v]
         /\ "lenient" \in Views[v] =>
              Views[v] \cap {"clears", "drops", "keyed", "guarded", "setting", "again",
                             "refresh", "asked", "reload", "keepsError"} = {}
BY DEF Views, Racing, Lasting, Grudging, OnRequest, UseAnalysisData, Drift, CasesAtRisk,
       ModelHealth, SocialNetwork, DottedChart, Rework, Lineage, AutomationRoi, Overview,
       UsageAdmin, AuditLog, SharedDashboard, Comparison, CausalMap, ProcessAnimation,
       MissionControl, ProcessHealth, Simulation, Sustainability, HealthTab, Hub,
       FeatureExport, CaseOverlap, PerformanceDFG, EventuallyFollowsGraph,
       PerformanceSpectrum, BatchDetection, DeclareRules, LogSkeleton, CalendarHeatmap,
       TemporalProfile, AgentMining, OrgRoles, SNAView, FourEyes, ComplianceDashboard,
       OCPetriNetPanel, OPeraPerformancePanel, TemporalSummaryPanel,
       ConnectedComponentsPanel, ObjectGraphPanel, ObjectFeaturesPanel, StateAwarePanel,
       ImprovementReport, NarrativeBlock, ExplainDrawer, AnalysisSection,
       OCELInsightsPanel, DataQualityCard, InsightsPanel, QuickSnapshot, HappyPathView,
       BPMNViewer, CaseExplorer, CaseDetail, AnimationController, ActivityDetailModal,
       EdgeDetailModal, ActivityTreemapDrawer, AttributeHistogram, VariantExplainDrawer,
       VariantEvolution, RiskExplanationCard, CostOfQualityCard, DpBenchmarkPanel,
       ComplianceMatrix, SideBySideConformance, StochasticConformance, WhatIfSlider,
       AutomationCandidates, CaseGantt, InterAppGraph, AppTeamHeatmap, DESParameters,
       DESPanel, ExportWorkflow

LEMMA KeyIs ==
  ASSUME NEW u, IsView(u)
  PROVE  KeyOf(u) \in Key /\ KeyOf(u) # None
BY ViewsAssumption DEF KeyOf, Key, IsView

\* The calls of a view that stay in flight.
Staying(others) ==
  \A c \in others : /\ Asks(c, ui.view) /\ (c.stage # "ok" => faults # 0)
                    /\ (c.stage = "part" => Is("parts"))

\* What a load takes over of the state it starts in.
Loadable(u, others) ==
  /\ IsView(u) /\ u.view = ui.view /\ Staying(others)
  /\ Is("silent") /\ ~Is("lenient") => u.error = None
  /\ ui.view \notin Racing /\ ~Is("asked") /\ faults = 0 =>
       \A c \in Live(others) : c.arg.key = KeyOf(u)
  /\ ~Is("asked") /\ ~clash =>
       /\ Is("cached") /\ ~Is("forgives") /\ ui.view \notin Grudging =>
            u.error = None \/ Is("lenient")
       /\ Is("lenient") => /\ u.error # None \/ u.shown = None => db = {}
                           /\ \A c \in others : c.arg.live

LEMMA AskingIs ==
  ASSUME NEW u, IsView(u), NEW others
  PROVE  LET asking == [key |-> KeyOf(u), live |-> TRUE, blank |-> u.shown = None]
             r      == Request("analyse", u.view, asking, others)
         IN  /\ Asks(r, u.view) /\ r.stage = "ok" /\ r.arg = asking
             /\ r.arg.key = KeyOf(u) /\ r.arg.live /\ (r.arg.blank => u.shown = None)
<1> DEFINE asking == [key |-> KeyOf(u), live |-> TRUE, blank |-> u.shown = None]
           r      == Request("analyse", u.view, asking, others)
<1>1. Shaped(asking, {"key", "live", "blank"}) /\ asking.key = KeyOf(u) /\ asking.live
  BY DEF Shaped
<1>2. asking.blank => u.shown = None
  OBVIOUS
<1>3. IsCall(r) /\ r.on = u.view /\ r.arg = asking
  BY RequestIs
<1>4. r.stage = "ok"
  BY DEF Request, Readings
<1> HIDE DEF r, asking
<1>5. Asks(r, u.view)
  BY <1>1, <1>3, KeyIs DEF Asks
<1>6. /\ Asks(r, u.view) /\ r.stage = "ok" /\ r.arg = asking
      /\ r.arg.key = KeyOf(u) /\ r.arg.live /\ (r.arg.blank => u.shown = None)
  BY <1>1, <1>2, <1>3, <1>4, <1>5
<1> QED
  BY <1>6 DEF r, asking

LEMMA LoadKeeps ==
  ASSUME ViewsInv, NEW u, NEW others, Loadable(u, others), Load(u, others),
         UNCHANGED <<db, faults>>
  PROVE  ViewsInv'
<1>0. IsView(u) /\ u.view = ui.view /\ KeyOf(u) \in Key /\ KeyOf(u) # None
  BY KeyIs DEF Loadable
<1>1. CASE Cached(u)
  <2>1. PICK error : error = IF Is("forgives") THEN None ELSE u.error
    OBVIOUS
  <2>2. /\ ui' = [u EXCEPT !.shown = KeyOf(u), !.rest = KeyOf(u), !.loading = FALSE,
                           !.error = error]
        /\ calls' = others /\ clash' = Overlaps(others)
    BY <1>1, <2>1 DEF Load
  <2>3. /\ IsView(ui') /\ ui'.view = ui.view /\ KeyOf(ui') = KeyOf(u)
        /\ ui'.shown = KeyOf(u) /\ ui'.rest = KeyOf(u) /\ ui'.error = error
    BY <1>0, <2>2 DEF IsView, Shaped, ViewParts, KeyOf
  <2>4. Is("cached") /\ KeyOf(u) \in db
    BY <1>0, <1>1 DEF Cached, Is
  <2>5. Is("silent") /\ ~Is("lenient") => error = None
    BY <2>1 DEF Loadable
  <2>6. ui.view \notin Racing /\ ~Is("asked") /\ faults = 0 => LastShown(ui', others)
    BY <2>3 DEF Loadable, LastShown
  <2>7. ASSUME ~Is("asked"), ~clash'
        PROVE  OwnShown(ui, calls, db)'
    <3>1. ~clash /\ Live(others) = {}
      BY <2>2, <2>7 DEF Overlaps, Live
    <3>2. ui.view \notin Grudging => error = None
      BY <2>1, <2>4, <2>7, <3>1 DEF Loadable
    <3>3. Is("lenient") => error = None /\ others = {}
      BY <2>1, <2>4, <2>7, <3>1 DEF Loadable, Live
    <3> QED
      BY <1>0, <2>2, <2>3, <3>1, <3>2, <3>3 DEF OwnShown, NoOther, Is
  <2> QED
    BY <2>2, <2>3, <2>5, <2>6, <2>7 DEF ViewsInv, Loadable, Staying, Is
<1>2. CASE ~Cached(u)
  <2>1. PICK error, shown, rest : /\ error = IF Is("keepsError") THEN u.error ELSE None
                                  /\ shown = IF Is("clears") THEN None ELSE u.shown
                                  /\ rest = IF Is("clears") THEN None ELSE u.rest
    OBVIOUS
  <2>2. PICK r : /\ ui' = [u EXCEPT !.loading = TRUE, !.asked = KeyOf(u), !.error = error,
                                    !.shown = shown, !.rest = rest]
                 /\ calls' = others \cup {r} /\ clash' = Overlaps(others)
                 /\ Asks(r, u.view) /\ r.stage = "ok" /\ r.arg.key = KeyOf(u) /\ r.arg.live
                 /\ r.arg.blank => u.shown = None
    BY <1>0, <1>2, <2>1, AskingIs DEF Load
  <2>3. /\ IsView(ui') /\ ui'.view = ui.view /\ KeyOf(ui') = KeyOf(u)
        /\ ui'.shown = shown /\ ui'.rest = rest /\ ui'.error = error
    BY <1>0, <2>2 DEF IsView, Shaped, ViewParts, KeyOf
  <2>4. Is("silent") /\ ~Is("lenient") => error = None
    BY <2>1 DEF Loadable
  <2>5. ui.view \notin Racing /\ ~Is("asked") /\ faults = 0 => LastShown(ui', others \cup {r})
    BY <2>2, <2>3 DEF Loadable, LastShown, Live
  <2>6. ASSUME ~Is("asked"), ~clash'
        PROVE  OwnShown(ui, calls, db)'
    <3>1. ~clash /\ Live(others) = {}
      BY <2>2, <2>6 DEF Overlaps, Live
    <3>2. Live(others \cup {r}) = {r}
      BY <2>2, <3>1 DEF Live
    <3>3. ui.view \notin Grudging => error = None
      BY <1>0, <2>1, TraitsFit DEF Is, IsView
    <3>4. Is("lenient") => /\ error = None /\ others = {} /\ shown = u.shown
                           /\ shown = None => db = {}
      BY <1>0, <2>1, <2>6, <3>1, TraitsFit DEF Loadable, Live, Is, IsView
    <3> QED
      BY <1>0, <2>1, <2>2, <2>3, <3>2, <3>3, <3>4 DEF OwnShown, Is
  <2> QED
    BY <1>0, <2>2, <2>3, <2>4, <2>5, <2>6 DEF ViewsInv, Loadable, Staying, Is
<1> QED
  BY <1>1, <1>2

\* A call whose answer is no longer taken.
LEMMA DroppedStay ==
  ASSUME NEW others, Staying(others)
  PROVE  Staying(Dropped(others)) /\ Live(Dropped(others)) = {}
<1> SUFFICES ASSUME NEW d \in Dropped(others)
             PROVE  /\ Asks(d, ui.view) /\ ~d.arg.live /\ (d.stage # "ok" => faults # 0)
                    /\ (d.stage = "part" => Is("parts"))
  BY DEF Staying, Live
<1>1. PICK c \in others : d = [c EXCEPT !.arg.live = FALSE]
  BY DEF Dropped
<1>2. Asks(c, ui.view)
  BY DEF Staying
<1>3. PICK arg : arg = [c.arg EXCEPT !.live = FALSE]
  OBVIOUS
<1>4. Shaped(arg, {"key", "live", "blank"}) /\ arg.live = FALSE /\ arg.key = c.arg.key
  BY <1>2, <1>3 DEF Asks, Shaped
<1>5. d = [c EXCEPT !.arg = arg]
  BY <1>1, <1>3
<1>6. IsCall(d) /\ d.arg = arg /\ d.on = c.on /\ d.stage = c.stage
  BY <1>2, <1>5 DEF Asks, IsCall, Shaped
<1>7. (c.stage # "ok" => faults # 0) /\ (c.stage = "part" => Is("parts"))
  BY DEF Staying
<1> QED
  BY <1>2, <1>4, <1>6, <1>7 DEF Asks

\* An effect runs again for the log and the setting of u.
LEMMA EffectLoads ==
  ASSUME ViewsInv, NEW u, IsView(u), u.view = ui.view, u.shown = ui.shown, u.error = ui.error,
         ui.view \in Racing \/ Is("asked") \/ Is("guarded") \/ KeyOf(u) = KeyOf(ui),
         ~Is("keyed") \/ Is("setting") \/ Is("again") \/ Is("refresh")
  PROVE  Loadable(u, IF Is("guarded") THEN Dropped(calls) ELSE calls)
<1> DEFINE others == IF Is("guarded") THEN Dropped(calls) ELSE calls
<1>1. Staying(calls) /\ ui.view \in DOMAIN Views
  BY DEF ViewsInv, Staying, IsView
<1>2. Staying(others) /\ (Is("guarded") => Live(others) = {})
  BY <1>1, DroppedStay
<1>3. Is("lenient") => others = calls
  BY <1>1, TraitsFit DEF Is
<1>4. ~Is("guarded") => others = calls
  OBVIOUS
<1> HIDE DEF others
<1>5. ASSUME ui.view \notin Racing, ~Is("asked"), faults = 0
      PROVE  \A c \in Live(others) : c.arg.key = KeyOf(u)
  BY <1>2, <1>4, <1>5 DEF ViewsInv, LastShown
<1>6. ASSUME ~Is("asked"), Is("cached"), ~Is("forgives"), ui.view \notin Grudging
      PROVE  u.error = None \/ Is("lenient")
  BY <1>1, <1>6, TraitsFit DEF ViewsInv, Is
<1>7. ASSUME ~Is("asked"), ~clash, Is("lenient")
      PROVE  /\ u.error # None \/ u.shown = None => db = {}
             /\ \A c \in others : c.arg.live
  BY <1>3, <1>7 DEF ViewsInv, OwnShown
<1>8. Is("silent") /\ ~Is("lenient") => u.error = None
  BY DEF ViewsInv
<1>9. Loadable(u, others)
  BY <1>2, <1>5, <1>6, <1>7, <1>8 DEF Loadable
<1> QED
  BY <1>9 DEF others

\* A button asks.
LEMMA AskedLoads ==
  ASSUME ViewsInv, NEW u, IsView(u), u.view = ui.view, u.error = ui.error, Is("asked")
  PROVE  Loadable(u, calls)
BY DEF ViewsInv, Loadable, Staying

LEMMA MountedIs ==
  ASSUME NEW view \in DOMAIN Views, NEW log \in Projects
  PROVE  LET u == Mounted(view, log)
         IN  /\ IsView(u) /\ u.view = view /\ u.log = log /\ u.error = None
             /\ u.shown = None /\ u.rest = None
BY DEF Mounted, IsView, Shaped, ViewParts

\* What a view without a load under way becomes; only a button's may be without.
LEMMA AskedKeeps ==
  ASSUME ViewsInv, Is("asked"), IsView(ui'), ui'.view = ui.view,
         ui'.error \in {None, ui.error}, Staying(calls'), faults' = faults
  PROVE  ViewsInv'
BY DEF ViewsInv, Staying, Is

LEMMA OtherLogKeeps ==
  ASSUME ViewsInv, NEW log \in Projects, OpenOtherLog(log)
  PROVE  ViewsInv'
<1>1. IsView(ui) /\ Staying(calls) /\ ui.view \in DOMAIN Views
  BY DEF ViewsInv, Staying, IsView
<1>2. PICK setting : setting = (ui.setting /\ ~Is("held"))
  OBVIOUS
<1>3. PICK m : m = [ui EXCEPT !.log = log, !.setting = setting]
  OBVIOUS
<1>4. IsView(m) /\ m.view = ui.view /\ m.log = log /\ m.shown = ui.shown /\ m.error = ui.error
  BY <1>1, <1>2, <1>3 DEF IsView, Shaped, ViewParts
<1>5. PICK u, others : /\ u = Rekeyed(m)
                       /\ others = IF Is("keyed") THEN Dropped(calls) ELSE calls
  OBVIOUS
<1>6. /\ ~Is("global") /\ UNCHANGED <<db, faults>>
      /\ IF Is("asked") THEN ui' = u /\ calls' = others
         ELSE Load(u, IF Is("guarded") THEN Dropped(others) ELSE others)
  BY <1>2, <1>3, <1>5 DEF OpenOtherLog, Calling
<1>7. CASE Is("keyed")
  <2>1. /\ IsView(u) /\ u.view = ui.view /\ u.error = None /\ u.shown = None
    BY <1>1, <1>4, <1>5, <1>7, MountedIs DEF Rekeyed
  <2>2. /\ Staying(others) /\ Live(others) = {}
        /\ Staying(Dropped(others)) /\ Live(Dropped(others)) = {}
    BY <1>1, <1>5, <1>7, DroppedStay
  <2>3. ~Is("lenient")
    BY <1>1, <1>7, TraitsFit DEF Is
  <2>4. Loadable(u, others) /\ Loadable(u, Dropped(others))
    BY <2>1, <2>2, <2>3 DEF Loadable
  <2> QED
    BY <1>6, <2>1, <2>2, <2>4, LoadKeeps, AskedKeeps
<1>8. CASE ~Is("keyed")
  <2>1. u = m /\ others = calls
    BY <1>5, <1>8 DEF Rekeyed
  <2>2. ASSUME ~Is("asked")
        PROVE  Loadable(u, IF Is("guarded") THEN Dropped(calls) ELSE calls)
    <3>1. ui.view \in Racing \/ Is("guarded")
      BY <1>1, <1>6, <1>8, <2>2, TraitsFit DEF Is
    <3> QED
      BY <1>4, <1>8, <2>1, <3>1, EffectLoads
  <2> QED
    BY <1>1, <1>4, <1>6, <2>1, <2>2, LoadKeeps, AskedKeeps
<1> QED
  BY <1>7, <1>8

LEMMA SettingKeeps ==
  ASSUME ViewsInv, ChangeSetting
  PROVE  ViewsInv'
<1>1. IsView(ui) /\ Staying(calls) /\ ui.view \in DOMAIN Views /\ ui.setting \in BOOLEAN
  BY DEF ViewsInv, Staying, IsView
<1>2. PICK u : u = [ui EXCEPT !.setting = ~@]
  OBVIOUS
<1>3. /\ Is("setting") /\ UNCHANGED <<db, faults>>
      /\ \/ Generated /\ Load(u, calls)
         \/ Is("asked") /\ ui' = u /\ UNCHANGED <<calls, clash>>
         \/ ~Is("asked") /\ Effect(u)
  BY <1>2 DEF ChangeSetting, Calling
<1>4. IsView(u) /\ u.view = ui.view /\ u.shown = ui.shown /\ u.error = ui.error
  BY <1>1, <1>2 DEF IsView, Shaped, ViewParts
<1>5. CASE Generated /\ Load(u, calls)
  <2>1. Is("asked")
    BY <1>1, <1>5, TraitsFit DEF Generated, Is
  <2> QED
    BY <1>3, <1>4, <1>5, <2>1, AskedLoads, LoadKeeps
<1>6. CASE Is("asked") /\ ui' = u /\ UNCHANGED <<calls, clash>>
  BY <1>1, <1>3, <1>4, <1>6, AskedKeeps DEF Staying
<1>7. CASE ~Is("asked") /\ Effect(u)
  <2>1. ui.view \in Racing \/ Is("guarded")
    BY <1>1, <1>3, <1>7, TraitsFit DEF Is
  <2>2. Loadable(u, IF Is("guarded") THEN Dropped(calls) ELSE calls)
    BY <1>3, <1>4, <2>1, EffectLoads
  <2> QED
    BY <1>3, <1>7, <2>2, LoadKeeps DEF Effect
<1> QED
  BY <1>3, <1>5, <1>6, <1>7

LEMMA RetryKeeps ==
  ASSUME ViewsInv, Retry
  PROVE  ViewsInv'
<1>1. IsView(ui) /\ ui.view \in DOMAIN Views /\ ui.setting \in BOOLEAN
  BY DEF ViewsInv, IsView
<1>2. PICK setting : setting = (ui.setting /\ ~Is("held"))
  OBVIOUS
<1>3. PICK u : u = [ui EXCEPT !.retried = TRUE, !.setting = setting]
  OBVIOUS
<1>4. /\ IF Is("asked") THEN Load(ui, calls) ELSE Effect(u)
      /\ Is("refresh") \/ Is("again") \/ Is("asked")
  BY <1>1, <1>2, <1>3, TraitsFit DEF Retry, Calling, Generated, Is
<1>5. UNCHANGED <<db, faults>>
  BY DEF Retry, Calling
<1>6. /\ IsView(u) /\ u.view = ui.view /\ u.shown = ui.shown /\ u.error = ui.error
      /\ ~Is("held") => KeyOf(u) = KeyOf(ui)
  BY <1>1, <1>2, <1>3 DEF IsView, Shaped, ViewParts, KeyOf
<1>7. CASE Is("asked")
  BY <1>1, <1>4, <1>5, <1>7, AskedLoads, LoadKeeps
<1>8. CASE ~Is("asked")
  <2>1. ui.view \in Racing \/ Is("guarded") \/ ~Is("held")
    BY <1>1, <1>8, TraitsFit DEF Is
  <2>2. Loadable(u, IF Is("guarded") THEN Dropped(calls) ELSE calls)
    BY <1>4, <1>6, <1>8, <2>1, EffectLoads
  <2> QED
    BY <1>4, <1>5, <1>8, <2>2, LoadKeeps DEF Effect
<1> QED
  BY <1>7, <1>8

\* A view that asks as it is mounted: nothing is shown yet.
LEMMA FirstLoad ==
  ASSUME NEW log \in Projects, NEW u, NEW view \in DOMAIN Views, u = Mounted(view, log),
         ui' = [u EXCEPT !.loading = TRUE, !.asked = KeyOf(u)], db' = {}, faults' \in Nat,
         calls' = {Request("analyse", view, [key |-> KeyOf(u), live |-> TRUE, blank |-> TRUE],
                           {})}
  PROVE  ViewsInv'
<1>1. /\ IsView(u) /\ u.view = view /\ u.error = None /\ u.shown = None /\ u.rest = None
      /\ (u.shown = None) = TRUE
  BY MountedIs
<1>2. PICK r : /\ calls' = {r} /\ Asks(r, view) /\ r.stage = "ok" /\ r.arg.key = KeyOf(u)
               /\ r.arg.live
  BY <1>1, AskingIs
<1>3. /\ IsView(ui') /\ ui'.view = view /\ ui'.error = None /\ ui'.shown = None
      /\ KeyOf(ui') = KeyOf(u)
  BY <1>1 DEF IsView, Shaped, ViewParts, KeyOf
<1>4. Live(calls') = {r}
  BY <1>2 DEF Live
<1>5. LastShown(ui', calls')
  BY <1>2, <1>3, <1>4 DEF LastShown
<1>6. OwnShown(ui, calls, db)'
  BY <1>2, <1>3, <1>4 DEF OwnShown
<1> QED
  BY <1>2, <1>3, <1>5, <1>6 DEF ViewsInv, Is

\* A call that fails, or a part of it, is still the same call.
LEMMA LostKeeps ==
  ASSUME ViewsInv, NEW c \in calls, NEW d, NEW stage, SameCall(d, c, stage),
         stage = "part" => Is("parts"),
         calls' = (calls \ {c}) \cup {d}, faults' = faults + 1, UNCHANGED <<ui, db, clash>>
  PROVE  ViewsInv'
<1>1. /\ \A e \in calls : Asks(e, ui.view) /\ (e.stage = "part" => Is("parts"))
      /\ faults' \in Nat /\ faults' # 0
  BY DEF ViewsInv
<1>2. Asks(d, ui.view) /\ d.stage = stage /\ d.arg = c.arg
  BY <1>1 DEF SameCall, Asks
<1>3. /\ \A e \in calls' : Asks(e, ui.view) /\ (e.stage = "part" => Is("parts"))
  BY <1>1, <1>2
<1>4. Live(calls') = IF c.arg.live THEN (Live(calls) \ {c}) \cup {d} ELSE Live(calls) \ {c}
  BY <1>2 DEF Live
<1>5. ASSUME ~Is("asked"), ~clash
      PROVE  OwnShown(ui, calls', db)
  BY <1>2, <1>4, <1>5 DEF ViewsInv, OwnShown, Live
<1> QED
  BY <1>1, <1>3, <1>5 DEF ViewsInv, OwnShown, NoOther, Is

LEMMA PartKeeps ==
  ASSUME ViewsInv, NEW c \in calls, LosePart(c)
  PROVE  ViewsInv'
<1>1. PICK d : d = [c EXCEPT !.stage = "part"]
  OBVIOUS
<1>2. /\ Is("parts") /\ calls' = (calls \ {c}) \cup {d} /\ faults' = faults + 1
      /\ UNCHANGED <<ui, db, clash>>
  BY <1>1 DEF LosePart
<1>3. SameCall(d, c, "part")
  BY <1>1, RefusedIs DEF ViewsInv, Asks
<1> QED
  BY <1>2, <1>3, LostKeeps

LEMMA ViewRefused ==
  ASSUME ViewsInv, NEW c \in calls, Refuse(c)
  PROVE  ViewsInv'
<1>1. PICK d : d = [c EXCEPT !.stage = "failed"]
  OBVIOUS
<1>2. /\ calls' = (calls \ {c}) \cup {d} /\ faults' = faults + 1
      /\ UNCHANGED <<ui, db, clash>>
  BY <1>1 DEF Refuse
<1>3. SameCall(d, c, "failed")
  BY <1>1, RefusedIs DEF ViewsInv, Asks
<1> QED
  BY <1>2, <1>3, LostKeeps

\* An answer that is no longer taken; what it brought may be kept.
LEMMA LateKeeps ==
  ASSUME ViewsInv, NEW c \in calls, ~c.arg.live, calls' = calls \ {c},
         UNCHANGED <<ui, faults, clash>>
  PROVE  ViewsInv'
<1>1. Live(calls') = Live(calls)
  BY DEF Live
<1>2. ASSUME ~Is("asked"), ~clash
      PROVE  OwnShown(ui, calls', db')
  BY <1>1, <1>2 DEF ViewsInv, OwnShown
<1> QED
  BY <1>1, <1>2 DEF ViewsInv, OwnShown, LastShown, NoOther, Is

\* The answer that is taken: "error" is what is reported afterwards, "rest" the parts
\* that may fail.
LEMMA TakenKeeps ==
  ASSUME ViewsInv, NEW c \in calls, c.arg.live, calls' = calls \ {c},
         UNCHANGED <<faults, clash>>, NEW shown, NEW rest, NEW error,
         ui' = [ui EXCEPT !.shown = shown, !.loading = FALSE, !.rest = rest, !.error = error],
         Is("silent") /\ ~Is("lenient") => error = ui.error,
         error \in {ui.error, c.arg.key},
         faults = 0 => shown = c.arg.key /\ rest = c.arg.key,
         \/ {shown, rest} = {c.arg.key}
         \/ ui.view \in Lasting
         \/ {shown, rest} = {None} /\ error = ui.error
         \/ error = c.arg.key,
         Is("lenient") => /\ error = ui.error \/ (c.arg.blank /\ db' = db)
                          /\ shown = c.arg.key \/ (shown = ui.shown /\ db' = db)
  PROVE  ViewsInv'
<1>1. /\ IsView(ui) /\ faults \in Nat /\ \A d \in calls : Asks(d, ui.view)
      /\ c.arg.key # None
  BY ViewsAssumption DEF ViewsInv, Asks
<1>2. /\ IsView(ui') /\ ui'.view = ui.view /\ KeyOf(ui') = KeyOf(ui)
      /\ ui'.shown = shown /\ ui'.rest = rest /\ ui'.error = error
  BY <1>1 DEF IsView, Shaped, ViewParts, KeyOf
<1>3. Live(calls') = Live(calls) \ {c}
  BY DEF Live
<1>4. ASSUME ui.view \notin Racing, ~Is("asked"), faults = 0
      PROVE  LastShown(ui', calls')
  BY <1>2, <1>3, <1>4 DEF ViewsInv, LastShown, Live
<1>5. ASSUME ~Is("asked"), ~clash
      PROVE  OwnShown(ui, calls, db)'
  <2>1. /\ OwnShown(ui, calls, db) /\ c \in Live(calls)
    BY <1>5 DEF ViewsInv, Live
  <2>2. /\ c.arg.key = KeyOf(ui) /\ Live(calls') = {}
        /\ ~Is("keepsError") => ui.error = None
    BY <1>3, <2>1 DEF OwnShown
  <2>3. ui.view \notin Lasting => NoOther(ui')
    <3>1. CASE {shown, rest} = {c.arg.key} \/ error = c.arg.key
      BY <1>1, <1>2, <2>2, <3>1, TraitsFit DEF NoOther, Is, IsView
    <3>2. CASE {shown, rest} = {None} \/ ui.view \in Lasting
      BY <1>2, <3>2 DEF NoOther
    <3> QED
      BY <3>1, <3>2
  <2>4. ui.view \notin Grudging => error \in {None, KeyOf(ui)}
    BY <2>1, <2>2 DEF OwnShown
  <2>5. ASSUME Is("lenient")
        PROVE  /\ error # None \/ shown = None => db' = {}
               /\ \A d \in calls' : FALSE
    <3>1. ~Is("keepsError") /\ ui.error = None
      BY <1>1, <2>2, <2>5, TraitsFit DEF Is, IsView
    <3>2. \A d \in calls : d.arg.live /\ (d.arg.blank => db = {})
      BY <2>1, <2>5 DEF OwnShown
    <3>3. calls' = {}
      BY <2>2, <3>2 DEF Live
    <3> QED
      BY <1>1, <2>1, <2>5, <3>1, <3>2, <3>3 DEF OwnShown
  <2> QED
    BY <1>2, <2>2, <2>3, <2>4, <2>5 DEF OwnShown, NoOther, Is
<1>6. Is("silent") /\ ~Is("lenient") => error = None
  BY DEF ViewsInv
<1> QED
  BY <1>1, <1>2, <1>4, <1>5, <1>6 DEF ViewsInv, Is

LEMMA AnalysedKeeps ==
  ASSUME ViewsInv, NEW c \in calls, c.stage \in {"ok", "part"}, Analysed(c)
  PROVE  ViewsInv'
<1>1. calls' = calls \ {c} /\ UNCHANGED <<faults, clash>>
  BY DEF Analysed, Done
<1>2. CASE ~c.arg.live
  BY <1>1, <1>2, LateKeeps DEF Analysed
<1>3. CASE c.arg.live
  <2>1. PICK rest, error :
          /\ rest = IF c.stage = "ok" THEN c.arg.key ELSE ui.rest
          /\ error = IF c.stage = "part" /\ Is("lenient") /\ c.arg.blank
                     THEN c.arg.key ELSE ui.error
    OBVIOUS
  <2>2. ui' = [ui EXCEPT !.shown = c.arg.key, !.loading = FALSE, !.rest = rest,
                         !.error = error]
    BY <1>3, <2>1 DEF Analysed
  <2>3. /\ c.stage = "part" => Is("parts") /\ faults # 0 /\ ui.view \in DOMAIN Views
    BY DEF ViewsInv, IsView
  <2>4. c.stage = "part" => ui.view \in Lasting
    BY <2>3, TraitsFit DEF Is
  <2>5. c.stage = "part" => db' = db
    BY DEF Analysed
  <2>6. error = ui.error \/ (Is("lenient") /\ c.stage = "part" /\ c.arg.blank /\ error = c.arg.key)
    BY <2>1
  <2>7. \/ {c.arg.key, rest} = {c.arg.key}
        \/ ui.view \in Lasting
    BY <2>1, <2>4
  <2>8. faults = 0 => rest = c.arg.key
    BY <2>1, <2>3
  <2> QED
    BY <1>1, <1>3, <2>2, <2>5, <2>6, <2>7, <2>8, TakenKeeps
<1> QED
  BY <1>2, <1>3

LEMMA FailedKeeps ==
  ASSUME ViewsInv, NEW c \in calls, c.stage = "failed", AnalysisFailed(c)
  PROVE  ViewsInv'
<1>1. calls' = calls \ {c} /\ UNCHANGED <<db, faults, clash>>
  BY DEF AnalysisFailed, Done, Handling
<1>2. CASE ~c.arg.live
  BY <1>1, <1>2, LateKeeps DEF AnalysisFailed
<1>3. CASE c.arg.live
  <2>1. PICK shown, rest, error :
          /\ error = IF Told(c) THEN c.arg.key ELSE ui.error
          /\ shown = IF Is("drops") THEN None ELSE ui.shown
          /\ rest = IF Is("drops") THEN None ELSE ui.rest
    OBVIOUS
  <2>2. ui' = [ui EXCEPT !.loading = FALSE, !.error = error, !.shown = shown, !.rest = rest]
    BY <1>3, <2>1 DEF AnalysisFailed
  <2>3. ui' = [ui EXCEPT !.shown = shown, !.loading = FALSE, !.rest = rest, !.error = error]
    BY <2>2
  <2>4. faults # 0 /\ ui.view \in DOMAIN Views
    BY DEF ViewsInv, IsView
  <2>5. \/ ui.view \in Lasting
        \/ {shown, rest} = {None} /\ error = ui.error
        \/ error = c.arg.key
    BY <2>1, <2>4, TraitsFit DEF Told, Is
  <2>6. /\ Is("silent") /\ ~Is("lenient") => error = ui.error
        /\ error \in {ui.error, c.arg.key}
    BY <2>1 DEF Told
  <2>7. Is("lenient") => /\ error = ui.error \/ c.arg.blank
                         /\ shown = ui.shown
    BY <2>1, <2>4, TraitsFit DEF Told, Is
  <2> QED
    BY <1>1, <1>3, <2>3, <2>4, <2>5, <2>6, <2>7, TakenKeeps
<1> QED
  BY <1>2, <1>3

LEMMA ReloadKeeps ==
  ASSUME ViewsInv, ReloadPage
  PROVE  ViewsInv'
<1>1. ui.view \in DOMAIN Views /\ ui.log \in Projects /\ faults \in Nat
  BY DEF ViewsInv, IsView
<1>2. PICK u : u = Mounted(ui.view, ui.log)
  OBVIOUS
<1>3. /\ ui' = [u EXCEPT !.loading = TRUE, !.asked = KeyOf(u)]
      /\ calls' = {Request("analyse", ui.view,
                           [key |-> KeyOf(u), live |-> TRUE, blank |-> TRUE], {})}
      /\ db' = {} /\ faults' = faults
  BY <1>2 DEF ReloadPage
<1> QED
  BY <1>1, <1>2, <1>3, FirstLoad

LEMMA ViewsStep ==
  ASSUME ViewsInv, ViewsNext
  PROVE  ViewsInv'
<1>1. CASE Ask
  <2>1. IsView(ui) /\ Is("asked") /\ Load(ui, calls) /\ UNCHANGED <<db, faults>>
    BY <1>1 DEF Ask, Calling, ViewsInv
  <2> QED
    BY <2>1, AskedLoads, LoadKeeps
<1>2. CASE ViewsClicks
  BY <1>1, <1>2, OtherLogKeeps, SettingKeeps, RetryKeeps, ReloadKeeps DEF ViewsClicks
<1>3. CASE ViewsAnswers
  <2>1. ASSUME NEW c \in Refused("analyse") PROVE c \in calls /\ c.stage = "failed"
    BY DEF Refused
  <2> QED
    BY <1>3, <2>1, PartKeeps, AnalysedKeeps, FailedKeeps DEF ViewsAnswers
<1> QED
  BY <1>2, <1>3 DEF ViewsNext

LEMMA ViewsStart ==
  ASSUME NEW view \in DOMAIN Views, NEW log \in Projects, ViewsInit(view, log),
         clicks = 0, faults = 0
  PROVE  ViewsInv
<1>1. PICK u : u = Mounted(view, log)
  OBVIOUS
<1>2. /\ IsView(u) /\ u.view = view /\ u.error = None /\ u.shown = None /\ u.rest = None
      /\ (u.shown = None) = TRUE
  BY <1>1, MountedIs
<1>3. CASE "asked" \in Views[view]
  <2>1. ui = u /\ calls = {}
    BY <1>1, <1>3 DEF ViewsInit
  <2> QED
    BY <1>2, <1>3, <2>1 DEF ViewsInv, Is
<1>4. CASE "asked" \notin Views[view]
  <2>0. /\ calls = {Request("analyse", view,
                            [key |-> KeyOf(u), live |-> TRUE, blank |-> TRUE], {})}
        /\ db = {} /\ ui = [u EXCEPT !.loading = TRUE, !.asked = KeyOf(u)]
    BY <1>1, <1>4 DEF ViewsInit
  <2>1. PICK r : /\ calls = {r} /\ Asks(r, view) /\ r.stage = "ok" /\ r.arg.key = KeyOf(u)
                 /\ r.arg.live
    BY <1>2, <2>0, AskingIs
  <2>2. /\ IsView(ui) /\ ui.view = view /\ ui.error = None /\ ui.shown = None
        /\ KeyOf(ui) = KeyOf(u)
    BY <1>2, <2>0 DEF IsView, Shaped, ViewParts, KeyOf
  <2>3. Live(calls) = {r}
    BY <2>1 DEF Live
  <2>4. LastShown(ui, calls)
    BY <2>1, <2>2, <2>3 DEF LastShown
  <2>5. OwnShown(ui, calls, db)
    BY <2>0, <2>1, <2>2, <2>3 DEF OwnShown
  <2> QED
    BY <2>1, <2>2, <2>4, <2>5 DEF ViewsInv, Is
<1> QED
  BY <1>3, <1>4

\* What the invariant says once all is answered.
LEMMA ViewsMean ==
  ASSUME ViewsInv, Quiet
  PROVE  /\ faults = 0 /\ ui.view \notin Racing /\ ~Is("asked") =>
              ui.shown = KeyOf(ui) /\ ui.rest = KeyOf(ui)
         /\ ~clash /\ ui.view \notin Lasting =>
              {Displayed(ui.shown), Displayed(ui.rest)} \subseteq {None, KeyOf(ui)}
         /\ ~clash /\ ui.view \notin Grudging => ui.error \in {None, KeyOf(ui)}
<1>1. Live(calls) = {} /\ ui.view \in DOMAIN Views
  BY DEF Quiet, Live, ViewsInv, IsView
<1>2. Is("asked") => ui.view \in Lasting \cap Grudging
  BY <1>1, TraitsFit DEF Is
<1>3. ~Is("asked") /\ ~clash => OwnShown(ui, calls, db)
  BY DEF ViewsInv
<1>4. ASSUME ~clash, ui.view \notin Lasting
      PROVE  {Displayed(ui.shown), Displayed(ui.rest)} \subseteq {None, KeyOf(ui)}
  BY <1>1, <1>2, <1>3, <1>4 DEF OwnShown, NoOther, Displayed
<1>5. ASSUME ~clash, ui.view \notin Grudging
      PROVE  ui.error \in {None, KeyOf(ui)}
  BY <1>2, <1>3, <1>5 DEF OwnShown
<1> QED
  BY <1>1, <1>4, <1>5 DEF ViewsInv, LastShown

-----------------------------------------------------------------------------
(* The sidebar's switcher                                                   *)

IsLookUp(c) == c.op \in {"switchProject", "resolveLog"}

\* The calls whose answer the switcher takes.
LookUps(cs) == {c \in cs : IsLookUp(c) /\ c.arg.live}

ShellParts ==
  {"at", "pid", "project", "named", "lastProject", "lastLog", "listed", "listing", "sidebar",
   "dropdown"}

\* What an address can be made of.
IsShell(u) ==
  /\ Shaped(u, ShellParts) /\ u.at \in Routes
  /\ u.pid \in db \cup {None} /\ u.listed \subseteq db /\ u.lastLog \in Existing \cup {None}

\* The switcher shows the project of the address, or looks it up.
OnProject(u, ls, p) ==
  /\ p \in db /\ u.pid = p /\ u.lastProject = p
  /\ \/ ls = {} /\ u.project = p
     \/ \E c \in ls : ls = {c} /\ c.op = "switchProject" /\ c.on = p

\* The same of a log: first its project is looked up, then the project, which
\* may be none that is left.
OnLog(u, ls, i) ==
  LET p == ProjectOf[i]
  IN  /\ u.lastLog = i
      /\ \/ OnProject(u, ls, p) /\ u.named = i
         \/ ls = {} /\ p \notin db /\ u.pid = None /\ u.project = None
         \/ \E c \in ls : ls = {c} /\ c.op = "resolveLog" /\ c.on = i

Switching(u, ls) ==
  /\ u.at.kind = "project" => OnProject(u, ls, u.at.id)
  /\ u.at.kind = "log" => OnLog(u, ls, u.at.id)
  /\ u.at.kind \notin {"project", "log"} => ls = {} /\ u.pid = None /\ u.project = None

\* What the server answers when nothing fails.
Answers(c) ==
  /\ c.op = "switchProject" => (c.stage = "failed" => c.on \notin db)
  /\ c.op = "resolveLog" => /\ c.stage = "failed" => ProjectOf[c.on] \notin db
                            /\ c.stage = "ok" => ProjectOf[c.on] \in db
  /\ c.op = "pickProjects" => (c.stage = "ok" => c.ans.all = db)

ShellCalls(cs) ==
  \A c \in cs : /\ IsCall(c) /\ (IsLookUp(c) => Shaped(c.arg, {"live"}) /\ c.arg.live \in BOOLEAN)
                /\ Answers(c)

\* No lookup of the switcher is waited for, or this one.
NoneAwaited(cs) == ShellCalls(cs) /\ LookUps(cs) = {}

Awaited(cs, c, op, on) ==
  ShellCalls(cs) /\ LookUps(cs) = {c} /\ c.op = op /\ c.on = on

ShellOk(u, cs) ==
  db \subseteq Projects /\ IsShell(u) /\ ShellCalls(cs) /\ Switching(u, LookUps(cs))

ShellInv == faults \in Nat /\ (faults = 0 => ShellOk(ui, calls))


LEMMA RouteIs ==
  ASSUME NEW r \in Routes
  PROVE  /\ r.kind \in {"other", "picker", "project", "log"}
         /\ r.kind = "project" => r.id \in Projects
         /\ r.kind = "log" => r.id \in Existing
         /\ r = Picker <=> r.kind = "picker"
BY DEF Routes, Route, Elsewhere, Picker

LEMMA RoutesAre ==
  /\ Elsewhere \in Routes /\ Elsewhere.kind = "other"
  /\ Picker \in Routes /\ Picker.kind = "picker"
  /\ \A p \in Projects : /\ Route("project", p) \in Routes
                         /\ Route("project", p).kind = "project" /\ Route("project", p).id = p
  /\ \A i \in Existing : /\ Route("log", i) \in Routes
                         /\ Route("log", i).kind = "log" /\ Route("log", i).id = i
BY DEF Routes, Route, Elsewhere, Picker

\* The picker's choice is one of its list.
LEMMA TargetListed ==
  ASSUME NEW u, AutoTarget(u) # None
  PROVE  AutoTarget(u) \in u.listed
<1>1. CASE u.lastProject \in u.listed
  BY <1>1 DEF AutoTarget
<1>2. CASE u.lastProject \notin u.listed /\ Cardinality(u.listed) = 1
  <2>1. u.listed # {}
    BY <1>2, FS_EmptySet
  <2> QED
    BY <1>2, <2>1 DEF AutoTarget
<1> QED
  BY <1>1, <1>2 DEF AutoTarget

LEMMA HeadingIs ==
  ASSUME db \subseteq Projects, NEW u, IsShell(u), NEW r \in Routes
  PROVE  /\ Heading(u, r) \in Routes
         /\ Heading(u, r) = r \/ (/\ Heading(u, r).kind = "project"
                                  /\ Heading(u, r).id \in db)
BY TargetListed, RoutesAre DEF Heading, IsShell

\* What an address makes of the switcher.
LEMMA ArrivedIs ==
  ASSUME db \subseteq Projects, NEW u, IsShell(u), NEW r \in Routes,
         r.kind = "project" => r.id \in db
  PROVE  LET v  == Arrived(u, r)
             to == Heading(u, r)
         IN  /\ IsShell(v) /\ v.at = to /\ v.named = None /\ to \in Routes
             /\ to.kind = "project" => v.pid = to.id /\ v.lastProject = to.id /\ to.id \in db
             /\ to.kind = "log" => v.pid = u.pid /\ v.lastLog = to.id
             /\ to.kind \notin {"project", "log"} => v.pid = None /\ v.project = None
<1>1. PICK to : to = Heading(u, r)
  OBVIOUS
<1>2. to \in Routes /\ (to.kind = "project" => to.id \in db)
  BY <1>1, HeadingIs
<1>3. PICK on : on = IF to.kind = "project" THEN to.id ELSE None
  OBVIOUS
<1>4. PICK listing, pid, project, lastProject, lastLog :
        /\ listing = (u.listing \/ r = Picker)
        /\ pid = IF to.kind = "log" THEN u.pid ELSE on
        /\ project = IF r.kind \in {"log", "project"} THEN u.project ELSE None
        /\ lastProject = IF on = None THEN u.lastProject ELSE on
        /\ lastLog = IF to.kind = "log" THEN to.id ELSE u.lastLog
  OBVIOUS
<1>5. PICK v : v = [u EXCEPT !.at = to, !.listing = listing, !.named = None,
                             !.pid = pid, !.project = project,
                             !.lastProject = lastProject, !.lastLog = lastLog]
  OBVIOUS
<1>6. Arrived(u, r) = v
  BY <1>1, <1>3, <1>4, <1>5 DEF Arrived
<1>7. to.kind = "log" => to.id \in Existing
  BY <1>2, RouteIs
<1>8. /\ Shaped(v, ShellParts) /\ v.at = to /\ v.named = None /\ v.listed = u.listed /\ v.pid = pid
      /\ v.project = project /\ v.lastProject = lastProject /\ v.lastLog = lastLog
  BY <1>2, <1>5 DEF IsShell, Shaped, ShellParts
<1>9. to.kind = "project" => to.id # None
  BY <1>2, RouteIs, SpaAssumption
<1>10. IsShell(v)
  BY <1>2, <1>3, <1>4, <1>7, <1>8, <1>9 DEF IsShell
<1>11. to.kind \notin {"project", "log"} => to = r
  BY <1>1, HeadingIs
<1> QED
  BY <1>1, <1>2, <1>3, <1>4, <1>6, <1>8, <1>9, <1>10, <1>11

LEMMA CancelledAre ==
  ASSUME NEW others, ShellCalls(others)
  PROVE  NoneAwaited(Cancelled(others))
<1> SUFFICES ASSUME NEW d \in Cancelled(others)
             PROVE  /\ IsCall(d) /\ (IsLookUp(d) => Shaped(d.arg, {"live"}) /\ d.arg.live = FALSE)
                    /\ Answers(d)
  BY DEF NoneAwaited, ShellCalls, LookUps
<1>1. PICK c \in others : d = IF c.op \in {"switchProject", "resolveLog"}
                              THEN [c EXCEPT !.arg = [live |-> FALSE]] ELSE c
  BY DEF Cancelled
<1>2. IsCall(c) /\ Answers(c)
  BY DEF ShellCalls
<1>3. CASE IsLookUp(c)
  <2>1. PICK arg : arg = [live |-> FALSE]
    OBVIOUS
  <2>2. d = [c EXCEPT !.arg = arg]
    BY <1>1, <1>3, <2>1 DEF IsLookUp
  <2>3. /\ IsCall(d) /\ d.op = c.op /\ d.on = c.on /\ d.stage = c.stage /\ d.ans = c.ans
        /\ d.arg = arg
    BY <1>2, <2>2 DEF IsCall, Shaped
  <2>4. Shaped(arg, {"live"}) /\ arg.live = FALSE
    BY <2>1 DEF Shaped
  <2> QED
    BY <1>2, <2>3, <2>4 DEF Answers
<1>4. CASE ~IsLookUp(c)
  BY <1>1, <1>2, <1>4 DEF IsLookUp
<1> QED
  BY <1>3, <1>4

LEMMA LookUpIs ==
  ASSUME NEW others, NoneAwaited(others), NEW on
  PROVE  /\ NoneAwaited(LookUp(others, "pickProjects", on))
         /\ \E c : Awaited(LookUp(others, "switchProject", on), c, "switchProject", on)
         /\ \E c : Awaited(LookUp(others, "resolveLog", on), c, "resolveLog", on)
<1>1. PICK arg : arg = [live |-> TRUE]
  OBVIOUS
<1>2. Shaped(arg, {"live"}) /\ arg.live = TRUE
  BY <1>1 DEF Shaped
<1>3. ASSUME NEW op, op \in {"switchProject", "resolveLog", "pickProjects"}
      PROVE  \E r : /\ LookUp(others, op, on) = others \cup {r}
                    /\ IsCall(r) /\ r.op = op /\ r.on = on /\ r.arg = arg /\ r.stage = "sent"
  <2>1. PICK r : r = Request(op, on, arg, others)
    OBVIOUS
  <2>2. /\ IsCall(r) /\ r.op = op /\ r.on = on /\ r.arg = arg /\ r.stage = "sent"
    BY <1>3, <2>1, RequestIs DEF Readings
  <2>3. LookUp(others, op, on) = others \cup {r}
    BY <1>1, <2>1 DEF LookUp
  <2> QED
    BY <2>2, <2>3
<1>4. ASSUME NEW r, IsCall(r), r.arg = arg, r.stage = "sent"
      PROVE  ShellCalls(others \cup {r})
  BY <1>2, <1>4 DEF NoneAwaited, ShellCalls, Answers
<1>5. NoneAwaited(LookUp(others, "pickProjects", on))
  <2>1. PICK r : /\ LookUp(others, "pickProjects", on) = others \cup {r} /\ IsCall(r)
                 /\ r.op = "pickProjects" /\ r.arg = arg /\ r.stage = "sent"
    BY <1>3
  <2> QED
    BY <1>4, <2>1 DEF NoneAwaited, LookUps, IsLookUp
<1>6. ASSUME NEW op, op \in {"switchProject", "resolveLog"}
      PROVE  \E c : Awaited(LookUp(others, op, on), c, op, on)
  <2>1. PICK r : /\ LookUp(others, op, on) = others \cup {r} /\ IsCall(r)
                 /\ r.op = op /\ r.on = on /\ r.arg = arg /\ r.stage = "sent"
    BY <1>3, <1>6
  <2>2. LookUps(others \cup {r}) = {r}
    BY <1>2, <1>6, <2>1 DEF NoneAwaited, LookUps, IsLookUp
  <2> QED
    BY <1>4, <2>1, <2>2 DEF Awaited
<1> QED
  BY <1>5, <1>6

LEMMA OnceSettled ==
  ASSUME ShellInv, page = "shell", UNCHANGED <<page, db, faults>>,
         faults = 0 => ShellOk(ui', calls')
  PROVE  ShellInv'
BY DEF ShellInv, ShellOk, IsShell, ShellCalls, Answers, Switching, OnProject, OnLog, LookUps,
       IsLookUp

\* The address decides what is looked up; what was before is not taken any more.
LEMMA VisitIs ==
  ASSUME db \subseteq Projects, NEW u, IsShell(u), NEW r \in Routes,
         r.kind = "project" => r.id \in db, NEW others, ShellCalls(others),
         Visit(u, r, others)
  PROVE  ShellOk(ui', calls')
<1>1. PICK v, to : v = Arrived(u, r) /\ to = Heading(u, r)
  OBVIOUS
<1>2. /\ IsShell(v) /\ v.at = to /\ v.named = None /\ to \in Routes
      /\ to.kind = "project" => v.pid = to.id /\ v.lastProject = to.id /\ to.id \in db
      /\ to.kind = "log" => v.pid = u.pid /\ v.lastLog = to.id
      /\ to.kind \notin {"project", "log"} => v.pid = None /\ v.project = None
  BY <1>1, ArrivedIs
<1>3. PICK list : list = IF r = Picker THEN LookUp(Cancelled(others), "pickProjects", None)
                         ELSE Cancelled(others)
  OBVIOUS
<1>4. NoneAwaited(list)
  BY <1>3, CancelledAre, LookUpIs
<1>5. /\ ui' = v
      /\ calls' = CASE to.kind = "project" -> LookUp(list, "switchProject", to.id)
                    [] to.kind = "log" -> LookUp(list, "resolveLog", to.id)
                    [] OTHER -> list
  BY <1>1, <1>2, <1>3 DEF Visit
<1>6. CASE to.kind = "project"
  <2>1. PICK c : Awaited(calls', c, "switchProject", to.id)
    BY <1>4, <1>5, <1>6, LookUpIs
  <2> QED
    BY <1>2, <1>5, <1>6, <2>1 DEF Awaited, ShellOk, Switching, OnProject
<1>7. CASE to.kind = "log"
  <2>1. PICK c : Awaited(calls', c, "resolveLog", to.id)
    BY <1>4, <1>5, <1>7, LookUpIs
  <2> QED
    BY <1>2, <1>5, <1>7, <2>1 DEF Awaited, ShellOk, Switching, OnLog
<1>8. CASE to.kind \notin {"project", "log"}
  BY <1>2, <1>4, <1>5, <1>8 DEF NoneAwaited, ShellOk, Switching
<1> QED
  BY <1>6, <1>7, <1>8

\* The parts the switcher is made of.
SameSwitcher(v, u) ==
  /\ Shaped(v, ShellParts)
  /\ v.at = u.at /\ v.pid = u.pid /\ v.project = u.project /\ v.named = u.named
  /\ v.lastProject = u.lastProject /\ v.lastLog = u.lastLog /\ v.listed = u.listed

\* What is beside the switcher does not disturb it.
LEMMA BesideKeeps ==
  ASSUME NEW u, NEW cs, ShellOk(u, cs), NEW v, SameSwitcher(v, u),
         NEW ds, ShellCalls(ds), LookUps(ds) = LookUps(cs)
  PROVE  ShellOk(v, ds)
BY DEF ShellOk, SameSwitcher, IsShell, Switching, OnProject, OnLog

LEMMA OpenedIs ==
  ASSUME NEW u, Shaped(u, ShellParts), NEW x
  PROVE  /\ SameSwitcher(u, u)
         /\ SameSwitcher([u EXCEPT !.listing = x], u)
         /\ SameSwitcher([u EXCEPT !.sidebar = x], u)
         /\ SameSwitcher([u EXCEPT !.dropdown = x], u)
BY DEF SameSwitcher, Shaped, ShellParts

LEMMA SameThen ==
  ASSUME NEW u, NEW v, NEW w, SameSwitcher(v, u), SameSwitcher(w, v)
  PROVE  SameSwitcher(w, u)
BY DEF SameSwitcher

\* What a press of the mouse and a link do besides.
LEMMA PressedIs ==
  ASSUME NEW u, Shaped(u, ShellParts), NEW narrow
  PROVE  SameSwitcher(Pressed(u), u) /\ SameSwitcher(Linked(u, narrow), u)
BY OpenedIs DEF Pressed, Linked

\* A click that leaves the calls alone.
LEMMA ClickKeeps ==
  ASSUME ShellInv, page = "shell", UNCHANGED <<page, db, faults, calls>>,
         faults = 0 => SameSwitcher(ui', ui)
  PROVE  ShellInv'
BY BesideKeeps, OnceSettled DEF ShellInv, ShellOk

LEMMA WithoutIs ==
  ASSUME NEW cs, ShellCalls(cs), NEW c
  PROVE  /\ ShellCalls(cs \ {c})
         /\ ~IsLookUp(c) \/ ~c.arg.live => LookUps(cs \ {c}) = LookUps(cs)
         /\ LookUps(cs) = {c} => LookUps(cs \ {c}) = {}
BY DEF ShellCalls, LookUps

\* The shell that a link leaves behind is still one.
LEMMA SameIsShell ==
  ASSUME NEW u, IsShell(u), NEW v, SameSwitcher(v, u)
  PROVE  IsShell(v)
BY DEF IsShell, SameSwitcher

LEMMA NavigateKeeps ==
  ASSUME ShellInv, page = "shell", NEW r \in Routes, Navigate(r)
  PROVE  ShellInv'
<1> SUFFICES ASSUME faults = 0
             PROVE  ShellOk(ui', calls')
  BY OnceSettled DEF Navigate, Calling
<1>1. ShellOk(ui, calls) /\ IsShell(ui) /\ Shaped(ui, ShellParts)
  BY DEF ShellInv, ShellOk, IsShell
<1>2. PICK u : u \in {ui, Pressed(ui), Linked(Pressed(ui), TRUE)} /\ Visit(u, r, calls)
  BY DEF Navigate
<1>3. SameSwitcher(ui, ui) /\ SameSwitcher(Pressed(ui), ui) /\ Shaped(Pressed(ui), ShellParts)
  BY <1>1, OpenedIs, PressedIs DEF SameSwitcher
<1>4. SameSwitcher(Linked(Pressed(ui), TRUE), ui)
  BY <1>3, PressedIs, SameThen
<1>5. IsShell(u)
  BY <1>1, <1>2, <1>3, <1>4, SameIsShell
<1> QED
  BY <1>1, <1>2, <1>5, VisitIs DEF ShellOk, Navigate

LEMMA SwitcherLinkKeeps ==
  ASSUME ShellInv, page = "shell", NEW r \in Routes, NEW narrow, SwitcherLink(r, narrow)
  PROVE  ShellInv'
<1> SUFFICES ASSUME faults = 0
             PROVE  ShellOk(ui', calls')
  BY OnceSettled DEF SwitcherLink, Calling
<1>1. PICK v, u : v = [ui EXCEPT !.dropdown = FALSE] /\ u = Linked(v, narrow)
  OBVIOUS
<1>2. ShellOk(ui, calls) /\ IsShell(ui) /\ Shaped(ui, ShellParts)
  BY DEF ShellInv, ShellOk, IsShell
<1>3. SameSwitcher(v, ui) /\ Shaped(v, ShellParts)
  BY <1>1, <1>2, OpenedIs DEF SameSwitcher
<1>4. SameSwitcher(u, ui)
  BY <1>1, <1>3, PressedIs, SameThen
<1>5. IF r = ui.at THEN ui' = u /\ calls' = calls ELSE Visit(u, r, calls)
  BY <1>1 DEF SwitcherLink
<1>6. CASE r = ui.at
  BY <1>2, <1>4, <1>5, <1>6, BesideKeeps DEF ShellOk
<1>7. CASE r # ui.at
  <2>1. ui.pid # None /\ r = Route("project", ui.pid)
    BY <1>7 DEF SwitcherLink
  <2>2. ui.pid \in Projects /\ ui.pid \in db
    BY <1>2, <2>1 DEF IsShell, ShellOk
  <2> QED
    BY <1>2, <1>4, <1>5, <1>7, <2>1, <2>2, RoutesAre, SameIsShell, VisitIs DEF ShellOk
<1> QED
  BY <1>6, <1>7

\* Every other click is beside the switcher.
LEMMA OtherClickKeeps ==
  ASSUME ShellInv, page = "shell", ToggleSidebar \/ OpenSidebar \/ ClickSwitcher
  PROVE  ShellInv'
<1>1. UNCHANGED <<page, db, faults, calls>>
  BY DEF ToggleSidebar, OpenSidebar, ClickSwitcher, Local
<1> SUFFICES ASSUME faults = 0
             PROVE  SameSwitcher(ui', ui)
  BY <1>1, ClickKeeps
<1>2. Shaped(ui, ShellParts)
  BY DEF ShellInv, ShellOk, IsShell
<1>3. SameSwitcher(Pressed(ui), ui) /\ Shaped(Pressed(ui), ShellParts)
  BY <1>2, PressedIs DEF SameSwitcher
<1>4. PICK x : \/ ui' = [Pressed(ui) EXCEPT !.sidebar = x] \/ ui' = [ui EXCEPT !.sidebar = x]
               \/ ui' = [ui EXCEPT !.dropdown = x]
  BY DEF ToggleSidebar, OpenSidebar, ClickSwitcher
<1>5. SameSwitcher([Pressed(ui) EXCEPT !.sidebar = x], ui)
  BY <1>3, OpenedIs, SameThen
<1> QED
  BY <1>2, <1>4, <1>5, OpenedIs

LEMMA ResolvedKeeps ==
  ASSUME ShellInv, page = "shell", NEW c \in Settled("resolveLog"), LogResolved(c)
  PROVE  ShellInv'
<1> SUFFICES ASSUME faults = 0
             PROVE  ShellOk(ui', calls')
  BY OnceSettled DEF LogResolved, Handling
<1>1. /\ c \in calls /\ c.op = "resolveLog" /\ c.stage \in {"ok", "failed"} /\ IsLookUp(c)
      /\ ShellOk(ui, calls) /\ IsShell(ui) /\ ShellCalls(calls) /\ Shaped(ui, ShellParts)
  BY DEF Settled, Answered, Refused, ShellInv, ShellOk, IsLookUp, IsShell
<1>2. CASE ~c.arg.live
  <2>1. ui' = ui /\ calls' = calls \ {c}
    BY <1>2 DEF LogResolved, Done
  <2> QED
    BY <1>1, <1>2, <2>1, WithoutIs, OpenedIs, BesideKeeps
<1>3. CASE c.arg.live
  <2>1. c \in LookUps(calls)
    BY <1>1, <1>3 DEF LookUps
  <2>2. /\ LookUps(calls) = {c} /\ ui.at.kind = "log" /\ c.on = ui.at.id /\ ui.lastLog = c.on
    BY <1>1, <2>1 DEF ShellOk, Switching, OnProject, OnLog
  <2>3. NoneAwaited(calls \ {c})
    BY <1>1, <2>2, WithoutIs DEF NoneAwaited
  <2>4. CASE c.stage = "failed"
    <3>1. /\ ui' = [ui EXCEPT !.project = None, !.pid = None] /\ calls' = calls \ {c}
      BY <1>3, <2>4 DEF LogResolved, Done
    <3>2. /\ Shaped(ui', ShellParts) /\ ui'.at = ui.at /\ ui'.pid = None /\ ui'.project = None
          /\ ui'.lastLog = ui.lastLog /\ ui'.listed = ui.listed
      BY <1>1, <3>1 DEF Shaped, ShellParts
    <3>3. ProjectOf[c.on] \notin db
      BY <1>1, <2>4 DEF ShellCalls, Answers
    <3> QED
      BY <1>1, <2>2, <2>3, <3>1, <3>2, <3>3 DEF NoneAwaited, ShellOk, Switching, OnLog, IsShell
  <2>5. CASE c.stage = "ok"
    <3>1. PICK p : p = ProjectOf[c.on]
      OBVIOUS
    <3>2. /\ ui' = [ui EXCEPT !.named = c.on, !.pid = p, !.lastProject = p]
          /\ calls' = LookUp(calls \ {c}, "switchProject", p)
      BY <1>3, <2>5, <3>1 DEF LogResolved, Then, SendAlso, LookUp
    <3>3. /\ Shaped(ui', ShellParts) /\ ui'.at = ui.at /\ ui'.pid = p /\ ui'.lastProject = p
          /\ ui'.named = c.on /\ ui'.lastLog = ui.lastLog /\ ui'.listed = ui.listed
      BY <1>1, <3>2 DEF Shaped, ShellParts
    <3>4. p \in db
      BY <1>1, <2>5, <3>1 DEF ShellCalls, Answers
    <3>5. PICK d : Awaited(calls', d, "switchProject", p)
      BY <2>3, <3>2, LookUpIs
    <3>6. OnProject(ui', LookUps(calls'), p)
      BY <3>3, <3>4, <3>5 DEF Awaited, OnProject
    <3>7. OnLog(ui', LookUps(calls'), c.on)
      BY <2>2, <3>1, <3>3, <3>6 DEF OnLog
    <3>8. Switching(ui', LookUps(calls'))
      BY <2>2, <3>3, <3>7 DEF Switching
    <3>9. IsShell(ui')
      BY <1>1, <3>3, <3>4 DEF IsShell
    <3> QED
      BY <1>1, <3>5, <3>8, <3>9 DEF Awaited, ShellOk
  <2> QED
    BY <1>1, <2>4, <2>5
<1> QED
  BY <1>2, <1>3

LEMMA SwitchedKeeps ==
  ASSUME ShellInv, page = "shell", NEW c \in Settled("switchProject"), ProjectSwitched(c)
  PROVE  ShellInv'
<1> SUFFICES ASSUME faults = 0
             PROVE  ShellOk(ui', calls')
  BY OnceSettled DEF ProjectSwitched, Handling
<1>1. /\ c \in calls /\ c.op = "switchProject" /\ c.stage \in {"ok", "failed"} /\ IsLookUp(c)
      /\ ShellOk(ui, calls) /\ IsShell(ui) /\ ShellCalls(calls) /\ Shaped(ui, ShellParts)
  BY DEF Settled, Answered, Refused, ShellInv, ShellOk, IsLookUp, IsShell
<1>2. calls' = calls \ {c}
  BY DEF ProjectSwitched, Done
<1>3. CASE ~c.arg.live
  <2>1. ui' = ui
    BY <1>3 DEF ProjectSwitched
  <2> QED
    BY <1>1, <1>2, <1>3, <2>1, WithoutIs, OpenedIs, BesideKeeps
<1>4. CASE c.arg.live
  <2>1. c \in LookUps(calls)
    BY <1>1, <1>4 DEF LookUps
  <2>2. PICK p : /\ LookUps(calls) = {c} /\ c.on = p /\ OnProject(ui, {c}, p)
                 /\ \/ ui.at.kind = "project" /\ ui.at.id = p
                    \/ /\ ui.at.kind = "log" /\ ProjectOf[ui.at.id] = p /\ ui.named = ui.at.id
                       /\ ui.lastLog = ui.at.id
    <3>1. CASE ui.at.kind = "project"
      BY <1>1, <2>1, <3>1 DEF ShellOk, Switching, OnProject
    <3>2. CASE ui.at.kind = "log"
      BY <1>1, <2>1, <3>2 DEF ShellOk, Switching, OnLog, OnProject
    <3> QED
      BY <1>1, <2>1, <3>1, <3>2 DEF ShellOk, Switching
  <2>3. p \in db /\ ui.pid = p /\ ui.lastProject = p
    BY <2>2 DEF OnProject
  <2>4. c.stage = "ok"
    BY <1>1, <2>2, <2>3 DEF ShellCalls, Answers
  <2>5. ui' = [ui EXCEPT !.project = p]
    BY <1>4, <2>2, <2>4 DEF ProjectSwitched
  <2>6. /\ Shaped(ui', ShellParts) /\ ui'.at = ui.at /\ ui'.pid = p /\ ui'.lastProject = p
        /\ ui'.project = p /\ ui'.named = ui.named /\ ui'.lastLog = ui.lastLog
        /\ ui'.listed = ui.listed
    BY <1>1, <2>3, <2>5 DEF Shaped, ShellParts
  <2>7. NoneAwaited(calls')
    BY <1>1, <1>2, <2>2, WithoutIs DEF NoneAwaited
  <2>8. OnProject(ui', LookUps(calls'), p)
    BY <2>3, <2>6, <2>7 DEF NoneAwaited, OnProject
  <2>9. Switching(ui', LookUps(calls'))
    BY <2>2, <2>6, <2>8 DEF Switching, OnLog
  <2>10. IsShell(ui')
    BY <1>1, <2>3, <2>6 DEF IsShell
  <2> QED
    BY <1>1, <2>7, <2>9, <2>10 DEF NoneAwaited, ShellOk
<1> QED
  BY <1>3, <1>4

LEMMA PickedKeeps ==
  ASSUME ShellInv, page = "shell", NEW c \in Settled("pickProjects"), ProjectsPicked(c)
  PROVE  ShellInv'
<1> SUFFICES ASSUME faults = 0
             PROVE  ShellOk(ui', calls')
  BY OnceSettled DEF ProjectsPicked, Handling
<1>1. /\ c \in calls /\ c.op = "pickProjects" /\ ~IsLookUp(c)
      /\ ShellOk(ui, calls) /\ IsShell(ui) /\ ShellCalls(calls) /\ Shaped(ui, ShellParts)
      /\ c.stage = "ok" => c.ans.all = db
  BY DEF Settled, Answered, Refused, ShellInv, ShellOk, ShellCalls, Answers, IsLookUp, IsShell
<1>2. /\ ShellCalls(calls \ {c}) /\ LookUps(calls \ {c}) = LookUps(calls)
  BY <1>1, WithoutIs
<1>3. PICK listed : listed = IF c.stage = "ok" THEN c.ans.all ELSE ui.listed
  OBVIOUS
<1>4. PICK u : u = [ui EXCEPT !.listing = FALSE, !.listed = listed]
  OBVIOUS
<1>5. IF u.at = Picker /\ Heading(u, Picker) # Picker
      THEN Visit(u, Heading(u, Picker), calls \ {c}) ELSE ui' = u /\ calls' = calls \ {c}
  BY <1>3, <1>4 DEF ProjectsPicked, Done
<1>6. /\ Shaped(u, ShellParts) /\ u.at = ui.at /\ u.pid = ui.pid /\ u.project = ui.project
      /\ u.named = ui.named /\ u.lastProject = ui.lastProject /\ u.lastLog = ui.lastLog
      /\ u.listed = listed
  BY <1>1, <1>4 DEF Shaped, ShellParts
<1>7. IsShell(u)
  BY <1>1, <1>3, <1>6 DEF IsShell
<1>8. CASE u.at = Picker /\ Heading(u, Picker) # Picker
  <2>1. /\ Heading(u, Picker) \in Routes /\ Heading(u, Picker).kind = "project"
        /\ Heading(u, Picker).id \in db
    BY <1>1, <1>7, <1>8, HeadingIs, RoutesAre DEF ShellOk
  <2> QED
    BY <1>1, <1>2, <1>5, <1>7, <1>8, <2>1, VisitIs DEF ShellOk
<1>9. CASE ~(u.at = Picker /\ Heading(u, Picker) # Picker)
  BY <1>1, <1>2, <1>5, <1>6, <1>7, <1>9 DEF ShellOk, Switching, OnProject, OnLog
<1> QED
  BY <1>8, <1>9

\* A call that the server answered, or that failed with no failure counted.
LEMMA ServedKeeps ==
  ASSUME db \subseteq Projects, ShellOk(ui, calls), NEW c \in calls, NEW d, IsCall(d),
         d.op = c.op, d.on = c.on, d.arg = c.arg, Answers(d)
  PROVE  ShellOk(ui, (calls \ {c}) \cup {d})
<1>1. PICK ds : ds = (calls \ {c}) \cup {d}
  OBVIOUS
<1>2. IsShell(ui) /\ ShellCalls(calls) /\ SameSwitcher(ui, ui)
  BY OpenedIs DEF ShellOk, IsShell
<1>3. ShellCalls(ds)
  BY <1>1, <1>2 DEF ShellCalls, IsLookUp
<1>4. CASE IsLookUp(c) /\ c.arg.live
  <2>1. c \in LookUps(calls) /\ LookUps(ds) = (LookUps(calls) \ {c}) \cup {d}
    BY <1>1, <1>4 DEF LookUps, IsLookUp
  <2>2. LookUps(calls) = {c}
    BY <2>1 DEF ShellOk, Switching, OnProject, OnLog
  <2>3. LookUps(ds) = {d}
    BY <2>1, <2>2
  <2>4. ASSUME NEW p, OnProject(ui, {c}, p)
        PROVE  OnProject(ui, {d}, p)
    BY <2>4 DEF OnProject
  <2>5. ASSUME NEW i, OnLog(ui, {c}, i)
        PROVE  OnLog(ui, {d}, i)
    BY <2>4, <2>5 DEF OnLog
  <2> QED
    BY <1>1, <1>2, <1>3, <2>2, <2>3, <2>4, <2>5 DEF ShellOk, Switching
<1>5. CASE ~(IsLookUp(c) /\ c.arg.live)
  <2>1. LookUps(ds) = LookUps(calls)
    BY <1>1, <1>5 DEF LookUps, IsLookUp
  <2> QED
    BY <1>1, <1>2, <1>3, <2>1, BesideKeeps
<1> QED
  BY <1>4, <1>5

LEMMA ShellServeKeeps ==
  ASSUME ShellInv, page = "shell", NEW c \in calls, ShellServer(c)
  PROVE  ShellInv'
<1>1. PICK outcome :
        /\ Serve(c, outcome) /\ outcome.db = db
        /\ \/ /\ c.op = "switchProject"
              /\ outcome.ans = None => c.on \notin db
           \/ /\ c.op = "resolveLog"
              /\ outcome.ans = None <=> ProjectOf[c.on] \notin db
           \/ /\ c.op = "pickProjects" /\ outcome.ans.all = db
  <2>1. /\ Ok # None /\ Outcome(db, Ok).db = db /\ Outcome(db, Ok).ans = Ok
        /\ NotFound.db = db /\ NotFound.ans = None
    BY AnswerAssumption DEF Outcome, NotFound
  <2>2. ASSUME NEW x, x = [all |-> db]
        PROVE  Outcome(db, x).db = db /\ Outcome(db, x).ans.all = db
    BY <2>2 DEF Outcome
  <2>3. CASE c.op = "switchProject" /\ Serve(c, IF c.on \in db THEN Outcome(db, Ok) ELSE NotFound)
    BY <2>1, <2>3
  <2>4. CASE c.op = "resolveLog" /\ Serve(c, IF ProjectOf[c.on] \in db THEN Outcome(db, Ok) ELSE NotFound)
    BY <2>1, <2>4
  <2>5. CASE c.op = "pickProjects" /\ Serve(c, Outcome(db, [all |-> db]))
    BY <2>2, <2>5
  <2> QED
    BY <2>3, <2>4, <2>5 DEF ShellServer
<1>2. PICK d : d = [c EXCEPT !.stage = IF outcome.ans = None THEN "failed" ELSE "ok",
                             !.ans = outcome.ans]
  OBVIOUS
<1>3. UNCHANGED <<page, db, faults>> /\ ui' = ui /\ calls' = (calls \ {c}) \cup {d}
  BY <1>1, <1>2 DEF Serve
<1> SUFFICES ASSUME faults = 0
             PROVE  ShellOk(ui', calls')
  BY <1>3, OnceSettled
<1>4. ShellOk(ui, calls) /\ IsCall(c)
  BY DEF ShellInv, ShellOk, ShellCalls
<1>5. /\ IsCall(d) /\ d.op = c.op /\ d.on = c.on /\ d.arg = c.arg /\ d.ans = outcome.ans
      /\ d.stage = IF outcome.ans = None THEN "failed" ELSE "ok"
  BY <1>2, <1>4 DEF IsCall, Shaped
<1>6. Answers(d)
  BY <1>1, <1>5 DEF Answers
<1> QED
  BY <1>3, <1>4, <1>5, <1>6, ServedKeeps DEF ShellOk

\* A failure, after which nothing is said.
LEMMA ShellRefuseKeeps ==
  ASSUME ShellInv, NEW c \in calls, Refuse(c)
  PROVE  ShellInv'
BY DEF ShellInv, Refuse

LEMMA ShellStep ==
  ASSUME ShellInv, page = "shell", ShellNext
  PROVE  ShellInv'
<1>1. CASE ShellClicks
  BY <1>1, NavigateKeeps, SwitcherLinkKeeps, OtherClickKeeps DEF ShellClicks
<1>2. CASE ShellAnswers
  BY <1>2, ResolvedKeeps, SwitchedKeeps, PickedKeeps DEF ShellAnswers
<1>3. ASSUME NEW c \in calls, ShellServer(c)
      PROVE  ShellInv'
  BY <1>3, ShellServeKeeps
<1> QED
  BY <1>1, <1>2, <1>3 DEF ShellNext

LEMMA ShellStart ==
  ASSUME NEW last, NEW log \in Existing \cup {None}, NEW all \in SUBSET Projects,
         faults = 0, ShellInit(last, log, all)
  PROVE  ShellInv
<1>1. /\ Shaped(ui, ShellParts) /\ ui.at = Elsewhere /\ ui.pid = None /\ ui.project = None
      /\ ui.listed = {} /\ ui.lastLog = log
  <2>1. LET u == [at |-> Elsewhere, pid |-> None, project |-> None, named |-> None,
                  lastProject |-> last, lastLog |-> log, listed |-> {}, listing |-> FALSE,
                  sidebar |-> TRUE, dropdown |-> FALSE]
        IN  /\ Shaped(u, ShellParts) /\ u.at = Elsewhere /\ u.pid = None
            /\ u.project = None /\ u.listed = {} /\ u.lastLog = log
    BY DEF Shaped, ShellParts
  <2> QED
    BY <2>1 DEF ShellInit
<1>2. calls = {} /\ db = all
  BY DEF ShellInit
<1>3. NoneAwaited(calls) /\ IsShell(ui)
  BY <1>1, <1>2, RoutesAre DEF NoneAwaited, ShellCalls, LookUps, IsShell
<1> QED
  BY <1>1, <1>2, <1>3, RoutesAre DEF NoneAwaited, ShellInv, ShellOk, Switching

\* With nothing in flight the switcher is that of the address.
LEMMA ShellMeans ==
  ASSUME ShellInv, Quiet, faults = 0
  PROVE  SwitcherRight
<1>1. PICK at : at = ui.at /\ at \in Routes
  BY DEF ShellInv, ShellOk, IsShell
<1>2. LookUps(calls) = {} /\ ShellOk(ui, calls)
  BY DEF Quiet, LookUps, ShellInv
<1>3. CASE at.kind = "project"
  <2>1. ContextOf(ui.at) = at.id /\ at.id # None
    BY <1>1, <1>3, RouteIs, SpaAssumption DEF ContextOf
  <2> QED
    BY <1>1, <1>2, <1>3, <2>1 DEF ShellOk, Switching, OnProject, SwitcherRight
<1>4. CASE at.kind = "log"
  <2>1. ContextOf(ui.at) = ProjectOf[at.id] /\ ProjectOf[at.id] # None
    BY <1>1, <1>4, RouteIs, SpaAssumption DEF ContextOf
  <2> QED
    BY <1>1, <1>2, <1>4, <2>1 DEF ShellOk, Switching, OnLog, OnProject, SwitcherRight
<1>5. CASE at.kind \notin {"project", "log"}
  BY <1>1, <1>2, <1>5 DEF ShellOk, Switching, SwitcherRight, ContextOf
<1> QED
  BY <1>3, <1>4, <1>5

-----------------------------------------------------------------------------
(* The pictures of a map                                                    *)

\* A finite set of naturals has a least one: without, the numbers of those below
\* each would be too few.
LEMMA LeastIs ==
  ASSUME NEW S \in SUBSET Nat, IsFiniteSet(S), S # {}
  PROVE  \E k \in S : \A j \in S : ~(j < k)
<1> SUFFICES ASSUME \A k \in S : \E j \in S : j < k PROVE FALSE
  OBVIOUS
<1> DEFINE below(k) == {j \in S : j < k}
           rank     == [k \in S |-> Cardinality(below(k))]
           ranks    == 1..(Cardinality(S) - 1)
<1>1. Cardinality(S) \in Nat
  BY FS_CardinalityType
<1>2. ASSUME NEW x \in S, NEW y \in S, x < y
      PROVE  rank[x] < rank[y]
  <2>1. below(x) \subseteq below(y) /\ below(x) # below(y) /\ below(y) \subseteq S
    <3>1. x \in below(y) /\ x \notin below(x)
      BY <1>2
    <3>2. \A j \in below(x) : j \in below(y)
      BY <1>2
    <3> QED
      BY <3>1, <3>2
  <2>2. IsFiniteSet(below(y)) /\ IsFiniteSet(below(x))
    BY <2>1, FS_Subset
  <2> HIDE DEF below
  <2>3. Cardinality(below(x)) <= Cardinality(below(y)) /\ Cardinality(below(x)) # Cardinality(below(y))
    BY <2>1, <2>2, FS_Subset
  <2>4. Cardinality(below(x)) \in Nat /\ Cardinality(below(y)) \in Nat
    BY <2>2, FS_CardinalityType
  <2> QED
    BY <2>3, <2>4
<1>3. ASSUME NEW k \in S
      PROVE  Cardinality(below(k)) \in ranks
  <2>1. below(k) \subseteq S /\ below(k) # S /\ below(k) # {}
    <3>1. k \notin below(k)
      OBVIOUS
    <3> QED
      BY <3>1
  <2>2. IsFiniteSet(below(k)) /\ Cardinality(below(k)) < Cardinality(S)
    BY <2>1, FS_Subset, FS_CardinalityType
  <2>3. Cardinality(below(k)) \in Nat /\ Cardinality(below(k)) # 0
    BY <2>1, <2>2, FS_CardinalityType, FS_EmptySet
  <2> HIDE DEF below
  <2> QED
    BY <1>1, <2>2, <2>3
<1>4. rank \in [S -> ranks]
  BY <1>3
<1>5. IsFiniteSet(ranks) /\ Cardinality(ranks) < Cardinality(S)
  <2>1. Cardinality(S) # 0
    BY FS_EmptySet
  <2>2. Cardinality(S) - 1 \in Int /\ 1 \in Int
    BY <1>1
  <2>3. /\ IsFiniteSet(ranks)
        /\ Cardinality(ranks) = IF 1 > Cardinality(S) - 1 THEN 0 ELSE Cardinality(S) - 1 - 1 + 1
    BY <2>2, FS_Interval
  <2> QED
    BY <1>1, <2>1, <2>3
<1>6. \A x, y \in S : x # y => x < y \/ y < x
  OBVIOUS
<1>7. \A k \in S : rank[k] \in Nat
  BY <1>1, <1>4
<1> HIDE DEF rank, ranks
<1>8. PICK x \in S, y \in S : x # y /\ rank[x] = rank[y]
  BY <1>4, <1>5, FS_PigeonHole
<1> QED
  BY <1>2, <1>6, <1>7, <1>8

\* Of the edges that leave, or enter, the same activity the first is the strongest.
LEMMA StrongestIs ==
  ASSUME NEW m, NEW edges \in SUBSET Nat, IsFiniteSet(edges), NEW end, NEW k \in edges
  PROVE  \E j \in edges : m.edges[j][end] = m.edges[k][end] /\ Strongest(m, edges, j, end)
<1> DEFINE S == {j \in edges : m.edges[j][end] = m.edges[k][end]}
<1>1. IsFiniteSet(S)
  BY FS_Subset
<1>2. PICK j \in S : \A i \in S : ~(i < j)
  BY <1>1, LeastIs
<1> QED
  BY <1>2 DEF Strongest

\* What is drawn of a map, however little is kept and whatever is hidden.
LEMMA ElementsAre ==
  ASSUME NEW u, u.given \in GivenMaps
  PROVE  LET m     == u.given
             left  == {k \in DOMAIN m.edges : EndsOf(m, k) \cap u.hidden = {}}
             drawn == ElementsOf(u)
         IN  /\ drawn.nodes \subseteq m.nodes \ u.hidden
             /\ drawn.edges \subseteq Pairs
             /\ m.nodes \subseteq u.hidden \/ drawn.nodes # {}
             /\ \A e \in drawn.edges : {e[1], e[2]} \subseteq drawn.nodes
             /\ \A k \in left :
                  /\ m.edges[k][1] \in m.first => \E e \in drawn.edges : e[1] = m.edges[k][1]
                  /\ m.edges[k][2] \in m.last => \E e \in drawn.edges : e[2] = m.edges[k][2]
<1> DEFINE m     == u.given
           nodes == m.nodes \ u.hidden
           edges == Within(m, nodes)
           kept  == Kept(m, edges, TargetOf(u.complexity, Cardinality(edges)))
           drawn == Joined(m, kept)
<1>1. /\ ElementsOf(u).nodes = IF drawn = {} THEN nodes ELSE drawn
      /\ ElementsOf(u).edges = {m.edges[k] : k \in kept}
  BY DEF ElementsOf
<1>2. /\ m.edges \in Seq(Pairs)
      /\ \A k \in DOMAIN m.edges : EndsOf(m, k) \subseteq m.nodes
  BY MapAssumption DEF Maps
<1>3. edges \subseteq DOMAIN m.edges /\ edges \subseteq Nat /\ kept \subseteq edges
  BY <1>2 DEF Within, Kept
<1>4. IsFiniteSet(edges)
  <2>1. DOMAIN m.edges = 1..Len(m.edges) /\ Len(m.edges) \in Nat
    BY <1>2
  <2>2. IsFiniteSet(DOMAIN m.edges)
    BY <2>1, FS_Interval
  <2> QED
    BY <1>3, <2>2, FS_Subset
<1>5. \A k \in edges : EndsOf(m, k) \subseteq nodes
  BY DEF Within
<1>6. \A k \in kept : EndsOf(m, k) \subseteq drawn
  BY DEF Joined
<1>7. drawn \subseteq nodes
  BY <1>3, <1>5 DEF Joined
<1>8. \A k \in edges : m.edges[k] \in Pairs
  BY <1>2, <1>3
<1>9. ASSUME NEW k \in edges, m.edges[k][1] \in m.first
      PROVE  \E j \in kept : m.edges[j][1] = m.edges[k][1]
  <2>1. PICK j \in edges : m.edges[j][1] = m.edges[k][1] /\ Strongest(m, edges, j, 1)
    BY <1>3, <1>4, StrongestIs
  <2> QED
    BY <1>9, <2>1 DEF Kept
<1>10. ASSUME NEW k \in edges, m.edges[k][2] \in m.last
      PROVE  \E j \in kept : m.edges[j][2] = m.edges[k][2]
  <2>1. PICK j \in edges : m.edges[j][2] = m.edges[k][2] /\ Strongest(m, edges, j, 2)
    BY <1>3, <1>4, StrongestIs
  <2> QED
    BY <1>10, <2>1 DEF Kept
<1>11. ASSUME NEW k \in DOMAIN m.edges, EndsOf(m, k) \cap u.hidden = {}
       PROVE  k \in edges
  BY <1>2, <1>11 DEF Within
<1> HIDE DEF kept, edges
<1>12. \A k \in kept : {m.edges[k][1], m.edges[k][2]} \subseteq drawn
  BY <1>6 DEF EndsOf
<1> HIDE DEF drawn
<1>13. \A k \in kept : {m.edges[k][1], m.edges[k][2]} \subseteq ElementsOf(u).nodes
  BY <1>1, <1>12
<1> QED
  BY <1>1, <1>3, <1>7, <1>8, <1>9, <1>10, <1>11, <1>13


-----------------------------------------------------------------------------
(* The flat map                                                             *)

FlatParts ==
  {"given", "shown", "complexity", "clean", "layout", "hidden", "selected", "menu", "hover",
   "far", "cy", "fitted", "key", "waiting", "spread", "framed"}

DrawnParts == {"nodes", "edges", "far", "picked", "dimmed"}

IsFlat(u) == Shaped(u, FlatParts) /\ Shaped(u.cy, DrawnParts) /\ u.given \in GivenMaps

\* What is on the elements goes with the selection.
Marked(cy, selected) ==
  /\ cy.dimmed = Highlight(cy, selected).dimmed
  /\ cy.picked \in cy.edges \cup {Highlight(cy, selected).picked, None}
  /\ cy.picked = None => selected \notin cy.nodes

\* The elements are those of the map and of the settings.
Elements(u) ==
  u.cy.nodes = ElementsOf(u).nodes /\ u.cy.edges = ElementsOf(u).edges /\ u.cy.far = u.far

FlatOk(u, cs) ==
  /\ IsFlat(u)
  /\ IF u.shown THEN Elements(u) /\ Marked(u.cy, u.selected) ELSE u.cy = NoElements /\ cs = {}

FlatInv == FlatOk(ui, calls)

LEMMA HighlightIs ==
  ASSUME NEW cy, Shaped(cy, DrawnParts), NEW x
  PROVE  /\ Shaped(Highlight(cy, x), DrawnParts) /\ Highlight(cy, x).nodes = cy.nodes
         /\ Highlight(cy, x).edges = cy.edges /\ Highlight(cy, x).far = cy.far
         /\ x \in cy.nodes =>
              /\ Highlight(cy, x).picked = x
              /\ Highlight(cy, x).dimmed = cy.nodes \ (Neighbours(cy, x) \cup {x})
         /\ x \notin cy.nodes => Highlight(cy, x).picked = None /\ Highlight(cy, x).dimmed = {}
BY DEF Highlight, Shaped, DrawnParts

\* The highlight is of the nodes and edges alone.
LEMMA SameHighlight ==
  ASSUME NEW cy, NEW d, Shaped(cy, DrawnParts), Shaped(d, DrawnParts),
         d.nodes = cy.nodes, d.edges = cy.edges, NEW x
  PROVE  /\ Highlight(d, x).dimmed = Highlight(cy, x).dimmed
         /\ Highlight(d, x).picked = Highlight(cy, x).picked
<1>1. Neighbours(d, x) = Neighbours(cy, x)
  BY DEF Neighbours
<1>2. CASE x \in cy.nodes
  <2>1. /\ Highlight(cy, x).picked = x
        /\ Highlight(cy, x).dimmed = cy.nodes \ (Neighbours(cy, x) \cup {x})
    BY <1>2, HighlightIs
  <2>2. /\ Highlight(d, x).picked = x
        /\ Highlight(d, x).dimmed = d.nodes \ (Neighbours(d, x) \cup {x})
    BY <1>2, HighlightIs
  <2> QED
    BY <1>1, <2>1, <2>2
<1>3. CASE x \notin cy.nodes
  <2>1. Highlight(cy, x).picked = None /\ Highlight(cy, x).dimmed = {}
    BY <1>3, HighlightIs
  <2>2. Highlight(d, x).picked = None /\ Highlight(d, x).dimmed = {}
    BY <1>3, HighlightIs
  <2> QED
    BY <2>1, <2>2
<1> QED
  BY <1>2, <1>3

LEMMA HighlightMarks ==
  ASSUME NEW cy, Shaped(cy, DrawnParts), None \notin cy.nodes, NEW x
  PROVE  Marked(Highlight(cy, x), x)
<1> DEFINE h == Highlight(cy, x)
<1>1. /\ Shaped(h, DrawnParts) /\ h.nodes = cy.nodes /\ h.edges = cy.edges
      /\ h.picked = IF x \in cy.nodes THEN x ELSE None
  BY HighlightIs
<1> HIDE DEF h
<1>2. Highlight(h, x).dimmed = Highlight(cy, x).dimmed /\ Highlight(h, x).picked = Highlight(cy, x).picked
  BY <1>1, SameHighlight
<1>3. h.dimmed = Highlight(h, x).dimmed /\ h.picked = Highlight(h, x).picked
  BY <1>2 DEF h
<1>4. h.picked = None => x \notin h.nodes
  BY <1>1
<1> QED
  BY <1>3, <1>4 DEF Marked, h

LEMMA SameElements ==
  ASSUME NEW u, NEW v, v.given = u.given, v.hidden = u.hidden, v.complexity = u.complexity
  PROVE  ElementsOf(v) = ElementsOf(u)
BY DEF ElementsOf

\* An activity is not None.
LEMMA NodesAre ==
  ASSUME NEW u, u.given \in GivenMaps
  PROVE  None \notin ElementsOf(u).nodes /\ None \notin ElementsOf(u).edges
<1>1. ElementsOf(u).nodes \subseteq u.given.nodes /\ ElementsOf(u).edges \subseteq Pairs
  BY ElementsAre
<1>2. u.given.nodes \subseteq Items
  BY MapAssumption DEF Maps
<1> QED
  BY <1>1, <1>2, MapAssumption, SpaAssumption

\* The effect that updates the elements draws what it is given.
LEMMA DrawnOk ==
  ASSUME NEW u, IsFlat(u), u.shown, NEW cs
  PROVE  FlatOk(LaidOut([u EXCEPT !.cy = Drawn(u)]), cs)
<1> DEFINE a == Added(u)
           h == Highlight(a, u.selected)
           v == [u EXCEPT !.cy = h]
           w == LaidOut(v)
<1>1. /\ Shaped(a, DrawnParts) /\ a.nodes = ElementsOf(u).nodes /\ a.edges = ElementsOf(u).edges
      /\ a.far = u.far
  BY DEF Added, Shaped, DrawnParts
<1>2. /\ Shaped(h, DrawnParts) /\ h.nodes = a.nodes /\ h.edges = a.edges /\ h.far = a.far
      /\ Marked(h, u.selected)
  <2>1. None \notin a.nodes
    BY <1>1, NodesAre DEF IsFlat
  <2> HIDE DEF a
  <2> QED
    BY <1>1, <2>1, HighlightIs, HighlightMarks
<1>3. w = LaidOut([u EXCEPT !.cy = Drawn(u)])
  BY DEF Drawn
<1> HIDE DEF a, h
<1>4. /\ Shaped(v, FlatParts) /\ v.cy = h /\ v.given = u.given /\ v.hidden = u.hidden
      /\ v.complexity = u.complexity /\ v.selected = u.selected /\ v.far = u.far /\ v.shown
  BY DEF IsFlat, Shaped, FlatParts
<1> HIDE DEF v
<1>5. /\ Shaped(w, FlatParts) /\ w.cy = h /\ w.given = u.given /\ w.hidden = u.hidden
      /\ w.complexity = u.complexity /\ w.selected = u.selected /\ w.far = u.far /\ w.shown
  BY <1>4 DEF LaidOut, Shaped, FlatParts
<1> HIDE DEF w
<1>6. ElementsOf(w) = ElementsOf(u)
  BY <1>5, SameElements
<1> QED
  BY <1>1, <1>2, <1>3, <1>5, <1>6 DEF FlatOk, IsFlat, Elements

\* Other settings, or another map.
LEMMA GivenKeeps ==
  ASSUME NEW u, IsFlat(u), Given(u), ~u.shown => u.cy = NoElements /\ calls = {}
  PROVE  FlatInv'
<1>1. CASE u.shown
  <2>1. ui' = LaidOut([u EXCEPT !.cy = Drawn(u)])
    BY <1>1 DEF Given, UpdateElements
  <2> QED
    BY <1>1, <2>1, DrawnOk DEF FlatInv
<1>2. CASE ~u.shown
  BY <1>2 DEF Given, FlatInv, FlatOk
<1> QED
  BY <1>1, <1>2

\* Another selection is highlighted, the same one is left as it is.
LEMMA SelectedOk ==
  ASSUME NEW u, NEW cs, FlatOk(u, cs), NEW x
  PROVE  /\ FlatOk(Selected(u, x), cs)
         /\ Selected(u, x).selected = x /\ Selected(u, x).shown = u.shown
         /\ Selected(u, x).cy.nodes = u.cy.nodes /\ Selected(u, x).cy.edges = u.cy.edges
<1> DEFINE h == IF u.selected = x \/ ~u.shown THEN u.cy ELSE Highlight(u.cy, x)
           v == [u EXCEPT !.selected = x, !.cy = h]
<1>1. v = Selected(u, x)
  BY DEF Selected, FlatOk, IsFlat, Shaped, FlatParts
<1>2. Shaped(u, FlatParts) /\ Shaped(u.cy, DrawnParts) /\ u.given \in GivenMaps
  BY DEF FlatOk, IsFlat
<1>3. Shaped(h, DrawnParts) /\ h.nodes = u.cy.nodes /\ h.edges = u.cy.edges /\ h.far = u.cy.far
  BY <1>2, HighlightIs
<1>4. u.shown => Marked(h, x)
  <2>1. u.shown => None \notin u.cy.nodes
    BY <1>2, NodesAre DEF FlatOk, Elements
  <2> QED
    BY <1>2, <2>1, HighlightMarks DEF FlatOk
<1>5. ~u.shown => h = u.cy
  OBVIOUS
<1> HIDE DEF h
<1>6. /\ Shaped(v, FlatParts) /\ v.cy = h /\ v.selected = x /\ v.shown = u.shown /\ v.given = u.given
      /\ v.hidden = u.hidden /\ v.complexity = u.complexity /\ v.far = u.far
  BY <1>2 DEF Shaped, FlatParts
<1> HIDE DEF v
<1>7. ElementsOf(v) = ElementsOf(u)
  BY <1>6, SameElements
<1> QED
  BY <1>1, <1>2, <1>3, <1>4, <1>5, <1>6, <1>7 DEF FlatOk, IsFlat, Elements

\* What has the same parts as far as the picture goes is as good.
LEMMA SamePicture ==
  ASSUME NEW u, NEW v, NEW cs, NEW ds, FlatOk(u, cs), Shaped(v, FlatParts), ~u.shown => ds = {},
         v.given = u.given, v.hidden = u.hidden, v.complexity = u.complexity,
         v.shown = u.shown, v.cy = u.cy, v.far = u.far, v.selected = u.selected
  PROVE  FlatOk(v, ds)
<1>1. ElementsOf(v) = ElementsOf(u)
  BY SameElements
<1> QED
  BY <1>1 DEF FlatOk, IsFlat, Elements

LEMMA ShutOk ==
  ASSUME FlatInv
  PROVE  /\ FlatOk(Shut, calls) /\ Shut.shown = ui.shown /\ Shut.cy = ui.cy
         /\ Shut.selected = ui.selected
<1>1. /\ Shaped(Shut, FlatParts) /\ Shut.given = ui.given /\ Shut.hidden = ui.hidden
      /\ Shut.complexity = ui.complexity /\ Shut.shown = ui.shown /\ Shut.cy = ui.cy
      /\ Shut.far = ui.far /\ Shut.selected = ui.selected
  BY DEF Shut, FlatInv, FlatOk, IsFlat, Shaped, FlatParts
<1> QED
  BY <1>1, SamePicture DEF FlatInv, FlatOk

\* What the page gives.
LEMMA FlatGiven ==
  ASSUME FlatInv,
         \/ \E m \in GivenMaps : GiveMap(m)
         \/ \E d \in DetailLevels : SetDetail(d)
         \/ \E l \in MapLayouts : SetLayout(l)
         \/ \E s \in SUBSET Items : Hide(s)
         \/ ToggleCleanView \/ Restyle
  PROVE  FlatInv'
<1> DEFINE u == Shut
<1>1. FlatOk(u, calls) /\ Shaped(u, FlatParts) /\ Shaped(u.cy, DrawnParts) /\ u.given \in GivenMaps
  BY ShutOk DEF FlatOk, IsFlat
<1>2. ~u.shown => u.cy = NoElements /\ calls = {}
  BY <1>1 DEF FlatOk
<1>3. u.complexity = ui.complexity /\ u.clean = ui.clean
  BY DEF Shut, FlatInv, FlatOk, IsFlat, Shaped, FlatParts
<1> HIDE DEF u
<1>4. ASSUME NEW m \in GivenMaps, GiveMap(m) PROVE FlatInv'
  <2> DEFINE v == [u EXCEPT !.given = m, !.shown = TRUE]
  <2>1. IsFlat(v) /\ v.shown
    BY <1>1 DEF IsFlat, Shaped, FlatParts
  <2>2. Given(v)
    BY <1>4 DEF GiveMap, u
  <2> QED
    BY <2>1, <2>2, GivenKeeps
<1>5. ASSUME NEW d \in DetailLevels, SetDetail(d) PROVE FlatInv'
  <2> DEFINE v == [u EXCEPT !.complexity = d, !.clean = FALSE]
             w == [u EXCEPT !.clean = FALSE]
  <2>1. IsFlat(v) /\ v.shown = u.shown /\ v.cy = u.cy
    BY <1>1 DEF IsFlat, Shaped, FlatParts
  <2>2. FlatOk(w, calls)
    <3>1. /\ Shaped(w, FlatParts) /\ w.given = u.given /\ w.hidden = u.hidden
          /\ w.complexity = u.complexity /\ w.shown = u.shown /\ w.cy = u.cy
          /\ w.far = u.far /\ w.selected = u.selected
      BY <1>1 DEF Shaped, FlatParts
    <3> QED
      BY <1>1, <1>2, <3>1, SamePicture
  <2>3. Given(v) \/ (ui' = w /\ calls' = calls)
    BY <1>5 DEF SetDetail, Local, u
  <2> QED
    BY <1>2, <2>1, <2>2, <2>3, GivenKeeps DEF FlatInv
<1>6. ASSUME NEW l \in MapLayouts, SetLayout(l) PROVE FlatInv'
  <2> DEFINE v == [u EXCEPT !.layout = l]
  <2>1. IsFlat(v) /\ v.shown = u.shown /\ v.cy = u.cy
    BY <1>1 DEF IsFlat, Shaped, FlatParts
  <2>2. Given(v)
    BY <1>6 DEF SetLayout, u
  <2> QED
    BY <1>2, <2>1, <2>2, GivenKeeps
<1>7. ASSUME NEW s \in SUBSET Items, Hide(s) PROVE FlatInv'
  <2> DEFINE v == [u EXCEPT !.hidden = s]
  <2>1. IsFlat(v) /\ v.shown = u.shown /\ v.cy = u.cy
    BY <1>1 DEF IsFlat, Shaped, FlatParts
  <2>2. Given(v)
    BY <1>7 DEF Hide, u
  <2> QED
    BY <1>2, <2>1, <2>2, GivenKeeps
<1>8. ASSUME ToggleCleanView PROVE FlatInv'
  <2> DEFINE v == [u EXCEPT !.complexity = 100, !.clean = ~@]
             w == [u EXCEPT !.clean = ~@]
  <2>1. IsFlat(v) /\ v.shown = u.shown /\ v.cy = u.cy
    BY <1>1 DEF IsFlat, Shaped, FlatParts
  <2>2. FlatOk(w, calls)
    <3>1. /\ Shaped(w, FlatParts) /\ w.given = u.given /\ w.hidden = u.hidden
          /\ w.complexity = u.complexity /\ w.shown = u.shown /\ w.cy = u.cy
          /\ w.far = u.far /\ w.selected = u.selected
      BY <1>1 DEF Shaped, FlatParts
    <3> QED
      BY <1>1, <1>2, <3>1, SamePicture
  <2>3. Given(v) \/ (ui' = w /\ calls' = calls)
    BY <1>8 DEF ToggleCleanView, Local, u
  <2> QED
    BY <1>2, <2>1, <2>2, <2>3, GivenKeeps DEF FlatInv
<1>9. ASSUME Restyle PROVE FlatInv'
  BY <1>1, <1>2, <1>9, GivenKeeps DEF Restyle, IsFlat, u
<1> QED
  BY <1>4, <1>5, <1>6, <1>7, <1>8, <1>9

\* What the user does on the map.
LEMMA FlatTouched ==
  ASSUME FlatInv,
         \/ \E i \in Items : TapNode(i) \/ OpenMenu(i)
         \/ \E e \in ui.cy.edges : TapEdge(e)
         \/ \E x \in Items \cup {None} : HoverNode(x)
         \/ ClearSelection \/ TapBackground \/ ShowDetails \/ CrossZoom
  PROVE  FlatInv'
<1> DEFINE u == Shut
<1>1. /\ FlatOk(u, calls) /\ Shaped(u, FlatParts) /\ Shaped(u.cy, DrawnParts)
      /\ u.given \in GivenMaps /\ u.cy = ui.cy /\ u.shown = ui.shown /\ u.selected = ui.selected
  BY ShutOk DEF FlatOk, IsFlat
<1>2. /\ Shaped(ui, FlatParts) /\ Shaped(ui.cy, DrawnParts) /\ FlatOk(ui, calls)
      /\ (~ui.shown => calls = {} /\ ui.cy.nodes = {} /\ ui.cy.edges = {})
  BY DEF FlatInv, FlatOk, IsFlat, NoElements
<1>3. None \notin ui.cy.nodes /\ None \notin ui.cy.edges
  <2>1. ui.shown => ui.cy.nodes = ElementsOf(ui).nodes /\ ui.cy.edges = ElementsOf(ui).edges
    BY DEF FlatInv, FlatOk, Elements
  <2> QED
    BY <1>2, <2>1, NodesAre DEF FlatInv, FlatOk, IsFlat
<1> HIDE DEF u
\* What is picked is an edge, the selected activity, or nothing if none is selected.
<1>4. ASSUME NEW v, NEW p, FlatOk(v, calls), v.shown, ui' = [v EXCEPT !.cy.picked = p], calls' = calls,
             p \in v.cy.edges \cup {None} \/ (p = v.selected /\ p \in v.cy.nodes),
             p = None => v.selected \notin v.cy.nodes
      PROVE  FlatInv'
  <2> DEFINE d == [v.cy EXCEPT !.picked = p]
             w == [v EXCEPT !.cy = d]
  <2>1. Shaped(v, FlatParts) /\ Shaped(v.cy, DrawnParts) /\ Elements(v) /\ Marked(v.cy, v.selected)
    BY <1>4 DEF FlatOk, IsFlat
  <2>2. w = ui'
    BY <1>4, <2>1 DEF Shaped, FlatParts
  <2>3. /\ Shaped(d, DrawnParts) /\ d.nodes = v.cy.nodes /\ d.edges = v.cy.edges
        /\ d.dimmed = v.cy.dimmed /\ d.far = v.cy.far /\ d.picked = p
    BY <2>1 DEF Shaped, DrawnParts
  <2> HIDE DEF d
  <2>4. Highlight(v.cy, v.selected).picked = IF v.selected \in v.cy.nodes THEN v.selected ELSE None
    <3>1. v.selected \in v.cy.nodes => Highlight(v.cy, v.selected).picked = v.selected
      BY <2>1, HighlightIs
    <3>2. v.selected \notin v.cy.nodes => Highlight(v.cy, v.selected).picked = None
      BY <2>1, HighlightIs
    <3> QED
      BY <3>1, <3>2
  <2>5. /\ Highlight(d, v.selected).dimmed = Highlight(v.cy, v.selected).dimmed
        /\ Highlight(d, v.selected).picked = Highlight(v.cy, v.selected).picked
    BY <2>1, <2>3, SameHighlight
  <2>6. Marked(d, v.selected)
    BY <1>4, <2>1, <2>3, <2>4, <2>5 DEF Marked
  <2>7. /\ Shaped(w, FlatParts) /\ w.given = v.given /\ w.hidden = v.hidden /\ w.cy = d
        /\ w.complexity = v.complexity /\ w.shown = v.shown /\ w.far = v.far
        /\ w.selected = v.selected
    BY <2>1 DEF Shaped, FlatParts
  <2> HIDE DEF w
  <2>8. ElementsOf(w) = ElementsOf(v)
    BY <2>7, SameElements
  <2> QED
    BY <1>4, <2>1, <2>2, <2>3, <2>6, <2>7, <2>8 DEF FlatInv, FlatOk, IsFlat, Elements
<1>5. ASSUME NEW i \in Items, TapNode(i) PROVE FlatInv'
  <2> DEFINE v == Selected(u, i)
  <2>1. /\ FlatOk(v, calls) /\ v.selected = i /\ v.shown = u.shown
        /\ v.cy.nodes = u.cy.nodes /\ v.cy.edges = u.cy.edges
    BY <1>1, SelectedOk
  <2>2. i \in ui.cy.nodes /\ ui' = [v EXCEPT !.cy.picked = i] /\ calls' = calls
    BY <1>5 DEF TapNode, Local, u
  <2> HIDE DEF v
  <2>3. v.shown
    BY <1>1, <1>2, <2>1, <2>2
  <2> QED
    BY <1>1, <1>3, <1>4, <2>1, <2>2, <2>3
<1>6. ASSUME NEW e \in ui.cy.edges, TapEdge(e) PROVE FlatInv'
  <2>1. ui' = [u EXCEPT !.cy.picked = e] /\ calls' = calls
    BY <1>6 DEF TapEdge, Local, u
  <2>2. u.shown /\ e # None
    BY <1>1, <1>2, <1>3
  <2> QED
    BY <1>1, <1>4, <2>1, <2>2
<1>7. ASSUME TapBackground PROVE FlatInv'
  <2> DEFINE v == Selected(u, None)
  <2>1. /\ FlatOk(v, calls) /\ v.selected = None /\ v.shown = u.shown
        /\ v.cy.nodes = u.cy.nodes /\ v.cy.edges = u.cy.edges
    BY <1>1, SelectedOk
  <2>2. ui.shown /\ ui' = [v EXCEPT !.cy.picked = None] /\ calls' = calls
    BY <1>7 DEF TapBackground, Local, u
  <2> HIDE DEF v
  <2>3. v.shown /\ v.selected \notin v.cy.nodes
    BY <1>1, <1>3, <2>1, <2>2
  <2> QED
    BY <1>4, <2>1, <2>2, <2>3
<1>8. ASSUME ClearSelection \/ ShowDetails PROVE FlatInv'
  <2>1. \E x : ui' = Selected(u, x) /\ calls' = calls
    BY <1>8 DEF ClearSelection, ShowDetails, Local, u
  <2> QED
    BY <1>1, <2>1, SelectedOk DEF FlatInv
<1>9. ASSUME NEW i \in Items, OpenMenu(i) PROVE FlatInv'
  <2>1. /\ Shaped(ui', FlatParts) /\ ui'.given = ui.given /\ ui'.hidden = ui.hidden
        /\ ui'.complexity = ui.complexity /\ ui'.shown = ui.shown /\ ui'.cy = ui.cy
        /\ ui'.far = ui.far /\ ui'.selected = ui.selected /\ calls' = calls
    BY <1>2, <1>9 DEF OpenMenu, Local, Shaped, FlatParts
  <2> QED
    BY <1>2, <2>1, SamePicture DEF FlatInv
<1>10. ASSUME NEW x, HoverNode(x) PROVE FlatInv'
  <2>1. /\ Shaped(ui', FlatParts) /\ ui'.given = ui.given /\ ui'.hidden = ui.hidden
        /\ ui'.complexity = ui.complexity /\ ui'.shown = ui.shown /\ ui'.cy = ui.cy
        /\ ui'.far = ui.far /\ ui'.selected = ui.selected /\ calls' = calls
    BY <1>2, <1>10 DEF HoverNode, Local, Shaped, FlatParts
  <2> QED
    BY <1>2, <2>1, SamePicture DEF FlatInv
<1>11. ASSUME CrossZoom PROVE FlatInv'
  <2> DEFINE d == [ui.cy EXCEPT !.far = ~ui.far]
             w == [ui EXCEPT !.far = ~@, !.cy = d]
  <2>1. ui' = w /\ ui.shown /\ calls' = calls
    BY <1>2, <1>11 DEF CrossZoom, Local, Shaped, FlatParts
  <2>2. /\ Shaped(d, DrawnParts) /\ d.nodes = ui.cy.nodes /\ d.edges = ui.cy.edges
        /\ d.dimmed = ui.cy.dimmed /\ d.picked = ui.cy.picked /\ d.far = ~ui.far
    BY <1>2 DEF Shaped, DrawnParts
  <2> HIDE DEF d
  <2>3. /\ Highlight(d, ui.selected).dimmed = Highlight(ui.cy, ui.selected).dimmed
        /\ Highlight(d, ui.selected).picked = Highlight(ui.cy, ui.selected).picked
    BY <1>2, <2>2, SameHighlight
  <2>4. /\ Shaped(w, FlatParts) /\ w.given = ui.given /\ w.hidden = ui.hidden /\ w.cy = d
        /\ w.complexity = ui.complexity /\ w.shown = ui.shown /\ w.far = ~ui.far
        /\ w.selected = ui.selected
    BY <1>2 DEF Shaped, FlatParts
  <2> HIDE DEF w
  <2>5. ElementsOf(w) = ElementsOf(ui)
    BY <2>4, SameElements
  <2> QED
    BY <1>2, <2>1, <2>2, <2>3, <2>4, <2>5 DEF FlatInv, FlatOk, IsFlat, Elements, Marked
<1> QED
  BY <1>5, <1>6, <1>7, <1>8, <1>9, <1>10, <1>11

\* Layouts that stop or are forgotten, a canvas that goes, and the calls that fail of
\* which there is none.
LEMMA FlatLaidOut ==
  ASSUME FlatInv,
         \/ TakeAway
         \/ \E c \in calls : LayoutStops(c) \/ LayoutForgotten(c) \/ GrabCanvas(c) \/ Refuse(c)
  PROVE  FlatInv'
<1>1. FlatOk(ui, calls) /\ Shaped(ui, FlatParts) /\ Shaped(ui.cy, DrawnParts)
  BY DEF FlatInv, FlatOk, IsFlat
<1>2. ASSUME TakeAway PROVE FlatInv'
  <2>1. Shaped(Shut, FlatParts) /\ Shut.given \in GivenMaps
    BY ShutOk DEF FlatOk, IsFlat
  <2>2. ui' = Unmounted(Shut) /\ calls' = {}
    BY <1>2 DEF TakeAway
  <2>3. /\ Shaped(ui', FlatParts) /\ ui'.given = Shut.given /\ ui'.cy = NoElements /\ ~ui'.shown
    BY <2>1, <2>2 DEF Unmounted, Shaped, FlatParts
  <2>4. Shaped(NoElements, DrawnParts)
    BY DEF NoElements, Shaped, DrawnParts
  <2> QED
    BY <2>1, <2>2, <2>3, <2>4 DEF FlatInv, FlatOk, IsFlat
<1>3. ASSUME NEW c \in calls, LayoutStops(c) \/ LayoutForgotten(c) \/ GrabCanvas(c) \/ Refuse(c)
      PROVE  FlatInv'
  <2>1. ui.shown
    BY <1>1, <1>3 DEF FlatOk
  <2>2. /\ Shaped(ui', FlatParts) /\ ui'.given = ui.given /\ ui'.hidden = ui.hidden
        /\ ui'.complexity = ui.complexity /\ ui'.shown = ui.shown /\ ui'.cy = ui.cy
        /\ ui'.far = ui.far /\ ui'.selected = ui.selected
    <3>1. CASE LayoutStops(c)
      BY <1>1, <3>1 DEF LayoutStops, Shaped, FlatParts
    <3>2. CASE LayoutForgotten(c) \/ GrabCanvas(c) \/ Refuse(c)
      BY <1>1, <3>2 DEF LayoutForgotten, GrabCanvas, Refuse
    <3> QED
      BY <1>3, <3>1, <3>2
  <2> QED
    BY <1>1, <2>1, <2>2, SamePicture DEF FlatInv
<1> QED
  BY <1>2, <1>3

LEMMA FlatStep ==
  ASSUME FlatInv, FlatNext \/ \E c \in calls : Refuse(c)
  PROVE  FlatInv'
BY FlatGiven, FlatTouched, FlatLaidOut DEF FlatNext, FlatClicks

LEMMA FlatStart ==
  ASSUME NEW m \in GivenMaps, FlatInit(m)
  PROVE  FlatInv
<1> DEFINE u == [given |-> m, shown |-> TRUE, complexity |-> 80, clean |-> FALSE,
                 layout |-> "dagre", hidden |-> {}, selected |-> None, menu |-> None,
                 hover |-> None, far |-> FALSE, cy |-> NoElements, fitted |-> FALSE,
                 key |-> None, waiting |-> {}, spread |-> FALSE, framed |-> FALSE]
<1>1. Shaped(NoElements, DrawnParts)
  BY DEF NoElements, Shaped, DrawnParts
<1>2. Shaped(u, FlatParts) /\ u.given = m /\ u.cy = NoElements /\ u.shown
  BY DEF Shaped, FlatParts
<1>3. ui = LaidOut([u EXCEPT !.cy = Drawn(u)])
  BY DEF FlatInit
<1> HIDE DEF u
<1> QED
  BY <1>1, <1>2, <1>3, DrawnOk DEF FlatInv, IsFlat

LEMMA FlatMeans ==
  ASSUME FlatInv
  PROVE  FlatRight /\ MapAnchored
<1>1. FlatRight
  BY DEF FlatInv, FlatOk, Elements, Marked, FlatRight
<1>2. ui.shown => MapAnchored
  BY ElementsAre DEF FlatInv, FlatOk, IsFlat, Elements, MapAnchored
<1> QED
  BY <1>1, <1>2 DEF MapAnchored

-----------------------------------------------------------------------------
(* The WebGL map                                                            *)

WebglParts ==
  {"given", "shown", "hidden", "selected", "hovered", "graph", "flashing", "minimapOpen",
   "overview", "exportOpen", "broken"}

\* Every call is the timer of a flash, of which an activity has one.
Flashes(cs) ==
  /\ \A c \in cs : IsCall(c) /\ c.op = "flash"
  /\ \A c, d \in cs : c.on = d.on => c = d

\* The graph is the one of the map, and only what is on it flashes.
Graphed(u, cs) ==
  /\ Shaped(u, WebglParts)
  /\ u.graph = IF u.shown THEN BuiltGraph(u) ELSE NoGraph
  /\ u.flashing \subseteq u.graph.nodes
  /\ u.flashing = {c.on : c \in cs}
  /\ Flashes(cs)

Overviewed(u) == u.overview = IF u.minimapOpen THEN u.graph.nodes ELSE {}

WebglInv == Graphed(ui, calls) /\ Overviewed(ui)

LEMMA SameGraph ==
  ASSUME NEW u, NEW v, v.given = u.given, v.hidden = u.hidden
  PROVE  BuiltGraph(v) = BuiltGraph(u)
BY DEF BuiltGraph

\* Whatever is as it was as far as the graph goes.
LEMMA SameGraphed ==
  ASSUME NEW u, NEW v, NEW cs, Graphed(u, cs), Shaped(v, WebglParts), v.given = u.given,
         v.hidden = u.hidden, v.shown = u.shown, v.graph = u.graph, v.flashing = u.flashing
  PROVE  Graphed(v, cs)
<1>1. BuiltGraph(v) = BuiltGraph(u)
  BY SameGraph
<1> QED
  BY <1>1 DEF Graphed

LEMMA RedrawnIs ==
  ASSUME NEW u, NEW cs, Graphed(u, cs)
  PROVE  Graphed(Redrawn(u), cs) /\ Overviewed(Redrawn(u))
<1>1. /\ Shaped(Redrawn(u), WebglParts) /\ Redrawn(u).given = u.given /\ Redrawn(u).hidden = u.hidden
      /\ Redrawn(u).shown = u.shown /\ Redrawn(u).graph = u.graph /\ Redrawn(u).flashing = u.flashing
      /\ Redrawn(u).minimapOpen = u.minimapOpen
      /\ Redrawn(u).overview = IF u.minimapOpen THEN u.graph.nodes ELSE {}
  BY DEF Graphed, Redrawn, Shaped, WebglParts
<1> HIDE DEF Redrawn
<1> QED
  BY <1>1, SameGraphed DEF Overviewed

\* A canvas that is gone has nothing on it.
LEMMA GoneIs ==
  ASSUME NEW u, Shaped(u, WebglParts), NEW v, Shaped(v, WebglParts), ~v.shown, v.graph = NoGraph,
         v.flashing = {}, v.overview = {}
  PROVE  Graphed(v, {}) /\ Overviewed(v)
BY DEF Graphed, Overviewed, Flashes, NoGraph

\* Either the picture is right, or it has gone altogether.
LEMMA RenderedKeeps ==
  ASSUME NEW u, NEW cs, Graphed(u, cs), Rendered(u, cs)
  PROVE  WebglInv'
<1>1. CASE Throws(u)
  <2>1. ui' = [NoRenderer(u) EXCEPT !.broken = TRUE] /\ calls' = {}
    BY <1>1 DEF Rendered
  <2>2. /\ Shaped(ui', WebglParts) /\ ~ui'.shown /\ ui'.graph = NoGraph /\ ui'.flashing = {}
        /\ ui'.overview = {}
    BY <2>1 DEF Graphed, NoRenderer, Shaped, WebglParts
  <2> QED
    BY <2>1, <2>2, GoneIs DEF WebglInv
<1>2. CASE ~Throws(u)
  <2>1. ui' = Redrawn(u) /\ calls' = cs
    BY <1>2 DEF Rendered
  <2> QED
    BY <2>1, RedrawnIs DEF WebglInv
<1> QED
  BY <1>1, <1>2

\* A press of the mouse beside the menu.
LEMMA OffMenuIs ==
  ASSUME WebglInv, NEW u \in OffMenu(ui)
  PROVE  /\ Graphed(u, calls) /\ u.shown = ui.shown /\ u.graph = ui.graph
         /\ u.overview = ui.overview /\ u.minimapOpen = ui.minimapOpen
<1>1. /\ Shaped(u, WebglParts) /\ u.given = ui.given /\ u.hidden = ui.hidden
      /\ u.shown = ui.shown /\ u.graph = ui.graph /\ u.flashing = ui.flashing
      /\ u.overview = ui.overview /\ u.minimapOpen = ui.minimapOpen
  BY DEF WebglInv, Graphed, OffMenu, Shaped, WebglParts
<1> QED
  BY <1>1, SameGraphed DEF WebglInv

LEMMA GiveGraphKeeps ==
  ASSUME WebglInv, NEW m, NEW hidden, GiveGraph(m, hidden)
  PROVE  WebglInv'
<1>1. PICK u \in OffMenu(ui) :
        Rendered(RebuiltSigma([u EXCEPT !.given = m, !.hidden = hidden, !.shown = TRUE]), {})
  BY DEF GiveGraph
<1> DEFINE v == [u EXCEPT !.given = m, !.hidden = hidden, !.shown = TRUE]
           w == RebuiltSigma(v)
<1>2. Shaped(v, WebglParts) /\ v.shown
  BY OffMenuIs DEF Graphed, Shaped, WebglParts
<1> HIDE DEF v
<1>3. /\ Shaped(w, WebglParts) /\ w.shown /\ w.graph = BuiltGraph(v) /\ w.flashing = {}
      /\ w.given = v.given /\ w.hidden = v.hidden
  BY <1>2 DEF RebuiltSigma, Shaped, WebglParts
<1> HIDE DEF w
<1>4. BuiltGraph(w) = BuiltGraph(v)
  BY <1>3, SameGraph
<1>5. Graphed(w, {})
  BY <1>3, <1>4 DEF Graphed, Flashes
<1> QED
  BY <1>1, <1>5, RenderedKeeps DEF v, w

\* The selection and the pointer are not on the graph.
LEMMA FocusKeeps ==
  ASSUME WebglInv, NEW x, SelectInWebgl(x) \/ HoverWebgl(x)
  PROVE  WebglInv'
<1>1. CASE SelectInWebgl(x)
  <2>1. PICK u \in OffMenu(ui) : Rendered([u EXCEPT !.selected = x], calls)
    BY <1>1 DEF SelectInWebgl
  <2> DEFINE v == [u EXCEPT !.selected = x]
  <2>2. Graphed(u, calls)
    BY OffMenuIs
  <2>3. /\ Shaped(v, WebglParts) /\ v.given = u.given /\ v.hidden = u.hidden
        /\ v.shown = u.shown /\ v.graph = u.graph /\ v.flashing = u.flashing
    BY <2>2 DEF Graphed, Shaped, WebglParts
  <2> QED
    BY <2>1, <2>2, <2>3, SameGraphed, RenderedKeeps
<1>2. CASE HoverWebgl(x)
  <2> DEFINE v == [ui EXCEPT !.hovered = x]
  <2>1. Rendered(v, calls) /\ Graphed(ui, calls)
    BY <1>2 DEF HoverWebgl, WebglInv
  <2>2. /\ Shaped(v, WebglParts) /\ v.given = ui.given /\ v.hidden = ui.hidden
        /\ v.shown = ui.shown /\ v.graph = ui.graph /\ v.flashing = ui.flashing
    BY <2>1 DEF Graphed, Shaped, WebglParts
  <2> QED
    BY <2>1, <2>2, SameGraphed, RenderedKeeps
<1> QED
  BY <1>1, <1>2

\* A flash has one timer, which takes it away.
LEMMA FlashKeeps ==
  ASSUME WebglInv, NEW i, Flash(i)
  PROVE  WebglInv'
<1> DEFINE others == {c \in calls : c.on # i}
           r == Request("flash", i, None, others)
<1>1. /\ i \in ui.graph.nodes /\ ui' = [ui EXCEPT !.flashing = @ \cup {i}]
      /\ calls' = others \cup {r}
  BY DEF Flash, SendAlso
<1>2. IsCall(r) /\ r.op = "flash" /\ r.on = i
  BY RequestIs
<1> HIDE DEF r
<1>3. Graphed(ui, calls) /\ Overviewed(ui)
  BY DEF WebglInv
<1>4. /\ Shaped(ui', WebglParts) /\ ui'.given = ui.given /\ ui'.hidden = ui.hidden
      /\ ui'.shown = ui.shown /\ ui'.graph = ui.graph /\ ui'.flashing = ui.flashing \cup {i}
      /\ ui'.overview = ui.overview /\ ui'.minimapOpen = ui.minimapOpen
  BY <1>1, <1>3 DEF Graphed, Shaped, WebglParts
<1>5. ui'.flashing = {c.on : c \in calls'}
  <2>1. ui.flashing = {c.on : c \in calls}
    BY <1>3 DEF Graphed
  <2>2. {c.on : c \in calls'} = {c.on : c \in others} \cup {i}
    BY <1>1, <1>2
  <2>3. {c.on : c \in others} \cup {i} = {c.on : c \in calls} \cup {i}
    OBVIOUS
  <2> QED
    BY <1>4, <2>1, <2>2, <2>3
<1>6. Flashes(calls')
  BY <1>1, <1>2, <1>3 DEF Graphed, Flashes
<1>7. BuiltGraph(ui') = BuiltGraph(ui)
  BY <1>4, SameGraph
<1> QED
  BY <1>1, <1>3, <1>4, <1>5, <1>6, <1>7 DEF WebglInv, Graphed, Overviewed

LEMMA FlashEndKeeps ==
  ASSUME WebglInv, NEW c \in calls, FlashEnds(c)
  PROVE  WebglInv'
<1>1. ui' = [ui EXCEPT !.flashing = @ \ {c.on}] /\ calls' = calls \ {c}
  BY DEF FlashEnds, Done
<1>2. Graphed(ui, calls) /\ Overviewed(ui)
  BY DEF WebglInv
<1>3. /\ Shaped(ui', WebglParts) /\ ui'.given = ui.given /\ ui'.hidden = ui.hidden
      /\ ui'.shown = ui.shown /\ ui'.graph = ui.graph /\ ui'.flashing = ui.flashing \ {c.on}
      /\ ui'.overview = ui.overview /\ ui'.minimapOpen = ui.minimapOpen
  BY <1>1, <1>2 DEF Graphed, Shaped, WebglParts
<1>4. ui.flashing = {d.on : d \in calls} /\ \A d \in calls : d.on = c.on => d = c
  BY <1>2 DEF Graphed, Flashes
<1>5. {d.on : d \in calls'} = {d.on : d \in calls} \ {c.on}
  BY <1>1, <1>4
<1>6. Flashes(calls')
  BY <1>1, <1>2 DEF Graphed, Flashes
<1>7. BuiltGraph(ui') = BuiltGraph(ui)
  BY <1>3, SameGraph
<1> QED
  BY <1>2, <1>3, <1>4, <1>5, <1>6, <1>7 DEF WebglInv, Graphed, Overviewed

LEMMA WebglStep ==
  ASSUME WebglInv, WebglNext \/ \E c \in calls : Refuse(c)
  PROVE  WebglInv'
<1>1. Graphed(ui, calls) /\ Shaped(ui, WebglParts)
  BY DEF WebglInv, Graphed
<1>2. ASSUME NEW x, LeaveWebgl(x) PROVE WebglInv'
  <2>1. ui' = [NoRenderer(ui) EXCEPT !.selected = x] /\ calls' = {}
    BY <1>2 DEF LeaveWebgl
  <2>2. /\ Shaped(ui', WebglParts) /\ ~ui'.shown /\ ui'.graph = NoGraph /\ ui'.flashing = {}
        /\ ui'.overview = {}
    BY <1>1, <2>1 DEF NoRenderer, Shaped, WebglParts
  <2> QED
    BY <2>1, <2>2, GoneIs DEF WebglInv
<1>3. ASSUME ResetFlashes PROVE WebglInv'
  <2>1. ui' = [ui EXCEPT !.flashing = {}] /\ calls' = {}
    BY <1>3 DEF ResetFlashes
  <2>2. /\ Shaped(ui', WebglParts) /\ ui'.given = ui.given /\ ui'.hidden = ui.hidden
        /\ ui'.shown = ui.shown /\ ui'.graph = ui.graph /\ ui'.flashing = {}
        /\ ui'.overview = ui.overview /\ ui'.minimapOpen = ui.minimapOpen
    BY <1>1, <2>1 DEF Shaped, WebglParts
  <2>3. BuiltGraph(ui') = BuiltGraph(ui)
    BY <2>2, SameGraph
  <2> QED
    BY <2>1, <2>2, <2>3 DEF WebglInv, Graphed, Overviewed, Flashes
<1>4. ASSUME ToggleMinimap PROVE WebglInv'
  <2>1. PICK u \in OffMenu(ui) : ui' = Redrawn([u EXCEPT !.minimapOpen = ~@]) /\ calls' = calls
    BY <1>4 DEF ToggleMinimap, Local
  <2> DEFINE v == [u EXCEPT !.minimapOpen = ~@]
  <2>2. Graphed(u, calls)
    BY OffMenuIs
  <2>3. /\ Shaped(v, WebglParts) /\ v.given = u.given /\ v.hidden = u.hidden
        /\ v.shown = u.shown /\ v.graph = u.graph /\ v.flashing = u.flashing
    BY <2>2 DEF Graphed, Shaped, WebglParts
  <2> HIDE DEF v
  <2>4. Graphed(v, calls)
    BY <2>2, <2>3, SameGraphed
  <2> QED
    BY <2>1, <2>4, RedrawnIs DEF WebglInv, v
<1>5. ASSUME ToggleExport PROVE WebglInv'
  <2>1. ui' = [ui EXCEPT !.exportOpen = ~@] /\ calls' = calls
    BY <1>5 DEF ToggleExport, Local
  <2>2. /\ Shaped(ui', WebglParts) /\ ui'.given = ui.given /\ ui'.hidden = ui.hidden
        /\ ui'.shown = ui.shown /\ ui'.graph = ui.graph /\ ui'.flashing = ui.flashing
        /\ ui'.overview = ui.overview /\ ui'.minimapOpen = ui.minimapOpen
    BY <1>1, <2>1 DEF Shaped, WebglParts
  <2> QED
    BY <1>1, <2>1, <2>2, SameGraphed DEF WebglInv, Overviewed
<1>6. ASSUME NEW c \in calls, Refuse(c) PROVE FALSE
  BY <1>1, <1>6 DEF Graphed, Flashes, Refuse, Timers
<1> QED
  BY <1>2, <1>3, <1>4, <1>5, <1>6, GiveGraphKeeps, FocusKeeps, FlashKeeps, FlashEndKeeps DEF WebglNext

LEMMA WebglStart ==
  ASSUME NEW m, WebglInit(m)
  PROVE  WebglInv
<1> DEFINE u == [given |-> m, shown |-> TRUE, hidden |-> {}, selected |-> None,
                 hovered |-> None, graph |-> NoGraph, flashing |-> {}, minimapOpen |-> TRUE,
                 overview |-> {}, exportOpen |-> FALSE, broken |-> FALSE]
           w == RebuiltSigma(u)
<1>1. ui = Redrawn(w) /\ calls = {}
  BY DEF WebglInit
<1>2. Shaped(u, WebglParts) /\ u.shown
  BY DEF Shaped, WebglParts
<1> HIDE DEF u
<1>3. /\ Shaped(w, WebglParts) /\ w.shown /\ w.graph = BuiltGraph(u) /\ w.flashing = {}
      /\ w.given = u.given /\ w.hidden = u.hidden
  BY <1>2 DEF RebuiltSigma, Shaped, WebglParts
<1> HIDE DEF w
<1>4. BuiltGraph(w) = BuiltGraph(u)
  BY <1>3, SameGraph
<1>5. Graphed(w, {})
  BY <1>3, <1>4 DEF Graphed, Flashes
<1> QED
  BY <1>1, <1>5, RedrawnIs DEF WebglInv

LEMMA WebglMeans == WebglInv => WebglRight
BY DEF WebglInv, Graphed, Overviewed, WebglRight

-----------------------------------------------------------------------------
(* The city                                                                 *)

CityParts == {"given", "shown", "towers", "streets", "focus", "selected", "hover"}

IsCity(u) == Shaped(u, CityParts) /\ u.given \in GivenMaps

\* What the scene has, and what the panel tells of it.
Standing(u) ==
  /\ IsCity(u)
  /\ u.towers = IF u.shown THEN u.given.nodes ELSE {}
  /\ u.towers = {} => u.streets = {} /\ u.focus = None
  /\ u.towers # {} =>
       IF u.focus = None THEN u.selected = None
       ELSE u.focus \in u.towers /\ u.selected = [at |-> u.focus, near |-> Near(u, u.focus)]
  /\ \A e \in u.streets : {e[1], e[2]} \subseteq u.towers

CityInv == Standing(ui)

LEMMA StreetsAre ==
  ASSUME NEW m \in GivenMaps
  PROVE  \A e \in CityStreets(m) : {e[1], e[2]} \subseteq m.nodes
<1> DEFINE kept == Kept(m, DOMAIN m.edges, MaxStreets)
<1>1. kept \subseteq DOMAIN m.edges
  BY DEF Kept
<1>2. \A k \in kept : {m.edges[k][1], m.edges[k][2]} \subseteq m.nodes
  BY <1>1, MapAssumption DEF EndsOf
<1>3. \A e \in CityStreets(m) : \E k \in kept : e = m.edges[k]
  BY DEF CityStreets
<1> HIDE DEF kept
<1> QED
  BY <1>2, <1>3

LEMMA BuiltIs ==
  ASSUME NEW u, IsCity(u), u.shown
  PROVE  Standing(BuiltCity(u))
<1> DEFINE v == BuiltCity(u)
<1>1. CASE u.given.nodes = {}
  <2>1. /\ Shaped(v, CityParts) /\ v.given = u.given /\ v.shown /\ v.towers = {}
        /\ v.streets = {} /\ v.focus = None
    BY <1>1 DEF BuiltCity, IsCity, Shaped, CityParts
  <2> HIDE DEF v
  <2> QED
    BY <1>1, <2>1 DEF Standing, IsCity, v
<1>2. CASE u.given.nodes # {}
  <2>1. /\ Shaped(v, CityParts) /\ v.given = u.given /\ v.shown /\ v.towers = u.given.nodes
        /\ v.streets = CityStreets(u.given) /\ v.focus = None /\ v.selected = None
    BY <1>2 DEF BuiltCity, IsCity, Shaped, CityParts
  <2>2. \A e \in v.streets : {e[1], e[2]} \subseteq v.towers
    BY <2>1, StreetsAre DEF IsCity
  <2> HIDE DEF v
  <2> QED
    BY <1>2, <2>1, <2>2 DEF Standing, IsCity, v
<1> QED
  BY <1>1, <1>2

LEMMA NoCityIs ==
  ASSUME NEW m \in GivenMaps, NEW shown
  PROVE  /\ IsCity(NoCity(m, shown)) /\ NoCity(m, shown).shown = shown
         /\ NoCity(m, shown).given = m
         /\ ~shown => Standing(NoCity(m, shown))
<1>1. /\ Shaped(NoCity(m, shown), CityParts) /\ NoCity(m, shown).shown = shown
      /\ NoCity(m, shown).given = m /\ NoCity(m, shown).towers = {}
      /\ NoCity(m, shown).streets = {} /\ NoCity(m, shown).focus = None
  BY DEF NoCity, Shaped, CityParts
<1> QED
  BY <1>1 DEF IsCity, Standing

LEMMA CityStep ==
  ASSUME CityInv, CityNext \/ \E c \in calls : Refuse(c)
  PROVE  CityInv'
<1>1. IsCity(ui) /\ Shaped(ui, CityParts) /\ Standing(ui) /\ (ui.towers # {} => ui.shown)
  BY DEF CityInv, Standing, IsCity
<1>2. ASSUME NEW m \in GivenMaps, GiveCity(m) PROVE CityInv'
  <2> DEFINE v == [ui EXCEPT !.given = m]
  <2>1. ui' = BuiltCity(IF ui.shown THEN v ELSE NoCity(m, TRUE))
    BY <1>2 DEF GiveCity
  <2>2. IsCity(v) /\ v.shown = ui.shown
    BY <1>1 DEF IsCity, Shaped, CityParts
  <2> HIDE DEF v
  <2> QED
    BY <2>1, <2>2, BuiltIs, NoCityIs DEF CityInv
<1>3. ASSUME ChooseMetric PROVE CityInv'
  BY <1>1, <1>3, BuiltIs DEF ChooseMetric, CityInv
<1>4. ASSUME LeaveCity PROVE CityInv'
  BY <1>1, <1>4, NoCityIs DEF LeaveCity, CityInv, IsCity
<1>5. ASSUME NEW x, SelectTower(x) PROVE CityInv'
  <2> DEFINE told == IF x = None THEN None ELSE [at |-> x, near |-> Near(ui, x)]
  <2>1. /\ ui.towers # {} /\ x \in ui.towers \cup {None}
        /\ ui' = [ui EXCEPT !.focus = x, !.selected = told]
    BY <1>5 DEF SelectTower
  <2>2. told = IF x = None THEN None ELSE [at |-> x, near |-> Near(ui, x)]
    OBVIOUS
  <2> HIDE DEF told
  <2>3. /\ Shaped(ui', CityParts) /\ ui'.given = ui.given /\ ui'.shown = ui.shown
        /\ ui'.towers = ui.towers /\ ui'.streets = ui.streets /\ ui'.focus = x
        /\ ui'.selected = told
    BY <1>1, <2>1 DEF Shaped, CityParts
  <2>4. Near(ui', x) = Near(ui, x)
    BY <2>3 DEF Near
  <2>5. IF ui'.focus = None THEN ui'.selected = None
        ELSE /\ ui'.focus \in ui'.towers
             /\ ui'.selected = [at |-> ui'.focus, near |-> Near(ui', ui'.focus)]
    <3>1. CASE x = None
      BY <2>2, <2>3, <3>1
    <3>2. CASE x # None
      <4>1. ui'.selected = [at |-> x, near |-> Near(ui', x)]
        BY <2>2, <2>3, <2>4, <3>2
      <4> QED
        BY <2>1, <2>3, <3>2, <4>1
    <3> QED
      BY <3>1, <3>2
  <2>6. Standing(ui)'
    BY <1>1, <2>1, <2>3, <2>5 DEF Standing, IsCity
  <2> QED
    BY <2>6 DEF CityInv
<1>6. ASSUME NEW x, HoverTower(x) PROVE CityInv'
  <2>1. /\ Shaped(ui', CityParts) /\ ui'.given = ui.given /\ ui'.shown = ui.shown
        /\ ui'.towers = ui.towers /\ ui'.streets = ui.streets /\ ui'.focus = ui.focus
        /\ ui'.selected = ui.selected
    BY <1>1, <1>6 DEF HoverTower, Shaped, CityParts
  <2>2. Near(ui', ui.focus) = Near(ui, ui.focus)
    BY <2>1 DEF Near
  <2> QED
    BY <1>1, <2>1, <2>2 DEF CityInv, Standing, IsCity
<1>7. ASSUME NEW c \in calls, Refuse(c) PROVE CityInv'
  BY <1>1, <1>7 DEF Refuse, CityInv
<1> QED
  BY <1>2, <1>3, <1>4, <1>5, <1>6, <1>7 DEF CityNext

LEMMA CityStart ==
  ASSUME NEW m \in GivenMaps, CityInit(m)
  PROVE  CityInv
BY NoCityIs, BuiltIs DEF CityInit, CityInv

LEMMA CityMeans == CityInv => CityRight
BY DEF CityInv, Standing, CityRight

-----------------------------------------------------------------------------
(* The map with particles                                                   *)

PulseParts ==
  {"log", "map", "loading", "error", "lens", "playing", "graph", "particles", "back"}

\* The graph on the stage is the one of the map.
Built(u) ==
  OnStage(u) /\ ~u.back =>
    /\ u.graph = [map |-> u.map, lens |-> u.lens, here |-> TRUE]
    /\ u.particles \in {None, u.map}

PulseOk(u) ==
  /\ Shaped(u, PulseParts) /\ u.map \in PulseMap \cup {None} /\ u.lens \in Lenses
  /\ u.log \in Projects /\ Built(u)

\* Every map was discovered.
PulseInv ==
  /\ clicks \in Nat /\ PulseOk(ui)
  /\ Shaped(db, {"kept", "bare"}) /\ db.kept \in [Projects -> PulseMap \cup {None}]
  /\ \A c \in calls : IsCall(c) /\ c.arg \in PulseMap

LEMMA GraphIs ==
  ASSUME NEW map, NEW lens, NEW here, NEW l,
         NEW g, g = [map |-> map, lens |-> lens, here |-> here]
  PROVE  /\ [g EXCEPT !.lens = l] = [map |-> map, lens |-> l, here |-> here]
         /\ [g EXCEPT !.here = here] = g
<1>1. [g EXCEPT !.lens = l] = [map |-> map, lens |-> l, here |-> here]
  OBVIOUS
<1>2. [g EXCEPT !.here = here] = g
  OBVIOUS
<1> QED
  BY <1>1, <1>2

\* What a render leaves right: of the same map the graph that there is, of another one
\* a new graph.
LEMMA PulseRenderOk ==
  ASSUME PulseInv, NEW u, Shaped(u, PulseParts), u.map \in PulseMap \cup {None}, u.log \in Projects,
         u.lens = ui.lens, u.map = ui.map => u.graph = ui.graph /\ u.particles = ui.particles /\ u.back = ui.back
  PROVE  PulseOk(PulseRendered(u))
<1>0. ui.lens \in Lenses /\ Built(ui)
  BY DEF PulseInv, PulseOk
<1>1. CASE u.map # ui.map
  <2> DEFINE g == [map |-> u.map, lens |-> u.lens, here |-> TRUE]
             v == PulseRendered(u)
  <2>1. CASE OnStage(u)
    <3>1. v = [u EXCEPT !.graph = g, !.particles = None, !.back = FALSE]
      BY <1>1, <2>1 DEF PulseRendered, PulseBuilt
    <3> HIDE DEF g
    <3>2. /\ Shaped(v, PulseParts) /\ v.map = u.map /\ v.log = u.log /\ v.lens = u.lens
          /\ v.graph = g /\ v.particles = None
      BY <3>1 DEF Shaped, PulseParts
    <3> HIDE DEF v
    <3>3. Built(v)
      BY <3>2 DEF Built, g
    <3> QED
      BY <1>0, <3>2, <3>3 DEF PulseOk, v
  <2>2. CASE ~OnStage(u)
    <3>1. v = [u EXCEPT !.graph = None, !.back = FALSE]
      BY <1>1, <2>2 DEF PulseRendered, PulseBuilt
    <3>2. /\ Shaped(v, PulseParts) /\ v.map = u.map /\ v.log = u.log /\ v.lens = u.lens
          /\ v.loading = u.loading /\ v.error = u.error
      BY <3>1 DEF Shaped, PulseParts
    <3> HIDE DEF v
    <3>3. Built(v)
      BY <2>2, <3>2 DEF Built, OnStage
    <3> QED
      BY <1>0, <3>2, <3>3 DEF PulseOk, v
  <2> QED
    BY <2>1, <2>2
<1>2. CASE u.map = ui.map
  <2> DEFINE g == IF u.graph = None THEN None ELSE [u.graph EXCEPT !.here = @ /\ OnStage(u)]
             b == u.back \/ (OnStage(u) /\ ~OnStage(ui))
             v == [u EXCEPT !.graph = g, !.back = b]
  <2>1. PulseRendered(u) = v
    BY <1>2 DEF PulseRendered, Shaped, PulseParts
  <2> HIDE DEF g, b
  <2>2. /\ Shaped(v, PulseParts) /\ v.map = u.map /\ v.log = u.log /\ v.lens = u.lens
        /\ v.loading = u.loading /\ v.error = u.error /\ v.graph = g
        /\ v.particles = u.particles /\ v.back = b
    BY DEF Shaped, PulseParts
  <2> HIDE DEF v
  <2>3. OnStage(v) <=> OnStage(u)
    BY <2>2 DEF OnStage
  <2>4. ASSUME OnStage(v), ~v.back
        PROVE  v.graph = [map |-> v.map, lens |-> v.lens, here |-> TRUE] /\ v.particles \in {None, v.map}
    <3>1. OnStage(u) /\ OnStage(ui) /\ ~ui.back
      BY <1>2, <2>2, <2>3, <2>4 DEF b
    <3>2. u.graph = [map |-> u.map, lens |-> u.lens, here |-> TRUE] /\ u.particles \in {None, u.map}
      BY <1>0, <1>2, <3>1 DEF Built
    <3>3. [u.graph EXCEPT !.here = TRUE] = u.graph
      <4>1. PICK here : here = TRUE
        OBVIOUS
      <4>2. u.graph = [map |-> u.map, lens |-> u.lens, here |-> here]
        BY <3>2, <4>1, Zenon
      <4>3. [u.graph EXCEPT !.here = here] = u.graph
        BY <4>2, GraphIs
      <4> QED
        BY <4>1, <4>3, Zenon
    <3>4. (u.graph.here /\ OnStage(u)) = TRUE
      BY <3>1, <3>2
    <3>5. g = u.graph
      BY <3>3, <3>4, Zenon DEF g
    <3> QED
      BY <2>2, <3>2, <3>5
  <2>5. Built(v)
    BY <2>4 DEF Built
  <2> QED
    BY <1>0, <2>1, <2>2, <2>5 DEF PulseOk
<1> QED
  BY <1>1, <1>2

\* What is stored of the logs' maps does not change which of them have activities.
LEMMA SameStage ==
  ASSUME NEW u, PulseOk(u), ui' = u, db'.bare = db.bare
  PROVE  PulseOk(ui)'
BY DEF PulseOk, Built, OnStage

LEMMA AskedIs ==
  ASSUME NEW log \in Projects, NEW n \in Nat, NEW others
  PROVE  LET r == Request("discover", "pulse", [log |-> log, n |-> n], others)
         IN  IsCall(r) /\ r.arg \in PulseMap
BY RequestIs DEF PulseMap

LEMMA OpenPulseKeeps ==
  ASSUME PulseInv, NEW log \in Projects, OpenPulse(log)
  PROVE  PulseInv'
<1>0. /\ Shaped(ui, PulseParts) /\ ui.map \in PulseMap \cup {None}
      /\ db.kept[log] \in PulseMap \cup {None} /\ clicks \in Nat
  BY DEF PulseInv, PulseOk
<1>1. clicks' \in Nat /\ db' = db
  BY <1>0 DEF OpenPulse, Calling, Click
<1>2. CASE db.kept[log] # None
  <2> DEFINE v == [[ui EXCEPT !.log = log] EXCEPT !.map = db.kept[log], !.loading = FALSE]
  <2>1. ui' = PulseRendered(v) /\ calls' = calls
    BY <1>2 DEF OpenPulse
  <2>2. /\ Shaped(v, PulseParts) /\ v.map = db.kept[log] /\ v.log = log /\ v.lens = ui.lens
        /\ v.graph = ui.graph /\ v.particles = ui.particles /\ v.back = ui.back
    BY <1>0 DEF Shaped, PulseParts
  <2> HIDE DEF v
  <2>3. PulseOk(PulseRendered(v))
    BY <1>0, <2>2, PulseRenderOk
  <2> QED
    BY <1>1, <2>1, <2>3, SameStage DEF PulseInv
<1>3. CASE db.kept[log] = None
  <2> DEFINE v == [[ui EXCEPT !.log = log] EXCEPT !.loading = TRUE, !.error = FALSE]
             r == Request("discover", "pulse", [log |-> log, n |-> clicks + 1], calls)
  <2>1. ui' = PulseRendered(v) /\ calls' = calls \cup {r}
    BY <1>3 DEF OpenPulse, Send, SendAlso
  <2>2. /\ Shaped(v, PulseParts) /\ v.map = ui.map /\ v.log = log /\ v.lens = ui.lens
        /\ v.graph = ui.graph /\ v.particles = ui.particles /\ v.back = ui.back
    BY <1>0 DEF Shaped, PulseParts
  <2> HIDE DEF v
  <2>3. PulseOk(PulseRendered(v))
    BY <1>0, <2>2, PulseRenderOk
  <2>4. IsCall(r) /\ r.arg \in PulseMap
    BY <1>0, AskedIs
  <2> HIDE DEF r
  <2> QED
    BY <1>1, <2>1, <2>3, <2>4, SameStage DEF PulseInv
<1> QED
  BY <1>2, <1>3

LEMMA DiscoveredKeeps ==
  ASSUME PulseInv, NEW c \in calls, PulseDiscovered(c)
  PROVE  PulseInv'
<1>0. /\ Shaped(ui, PulseParts) /\ ui.map \in PulseMap \cup {None} /\ ui.log \in Projects
      /\ c.arg \in PulseMap /\ clicks' \in Nat /\ calls' = calls \ {c}
  BY DEF PulseInv, PulseOk, PulseDiscovered, Done
<1>1. CASE c.stage = "ok"
  <2> DEFINE v == [ui EXCEPT !.map = c.arg, !.loading = FALSE]
  <2>1. ui' = PulseRendered(v) /\ db' = [db EXCEPT !.kept[c.arg.log] = c.arg]
    BY <1>1 DEF PulseDiscovered
  <2>2. /\ Shaped(v, PulseParts) /\ v.map = c.arg /\ v.log = ui.log /\ v.lens = ui.lens
        /\ v.graph = ui.graph /\ v.particles = ui.particles /\ v.back = ui.back
    BY <1>0 DEF Shaped, PulseParts
  <2> HIDE DEF v
  <2>3. PulseOk(PulseRendered(v))
    BY <1>0, <2>2, PulseRenderOk
  <2>4. /\ Shaped(db', {"kept", "bare"}) /\ db'.kept = [db.kept EXCEPT ![c.arg.log] = c.arg]
        /\ db'.bare = db.bare
    BY <2>1 DEF PulseInv, Shaped
  <2>5. db'.kept \in [Projects -> PulseMap \cup {None}]
    BY <1>0, <2>4 DEF PulseInv
  <2> QED
    BY <1>0, <2>1, <2>3, <2>4, <2>5, SameStage DEF PulseInv
<1>2. CASE c.stage # "ok"
  <2> DEFINE v == [ui EXCEPT !.error = TRUE, !.loading = FALSE]
  <2>1. ui' = PulseRendered(v) /\ db' = db
    BY <1>2 DEF PulseDiscovered
  <2>2. /\ Shaped(v, PulseParts) /\ v.map = ui.map /\ v.log = ui.log /\ v.lens = ui.lens
        /\ v.graph = ui.graph /\ v.particles = ui.particles /\ v.back = ui.back
    BY <1>0 DEF Shaped, PulseParts
  <2> HIDE DEF v
  <2>3. PulseOk(PulseRendered(v))
    BY <1>0, <2>2, PulseRenderOk
  <2> QED
    BY <1>0, <2>1, <2>3, SameStage DEF PulseInv
<1> QED
  BY <1>1, <1>2

LEMMA PulseStep ==
  ASSUME PulseInv, PulseNext \/ \E c \in calls : Refuse(c)
  PROVE  PulseInv'
<1>0. Shaped(ui, PulseParts) /\ PulseOk(ui) /\ ui.log \in Projects /\ clicks \in Nat
  BY DEF PulseInv, PulseOk
<1>1. ASSUME NEW l \in Lenses, ChooseLens(l) PROVE PulseInv'
  <2> DEFINE g == IF ui.graph = None THEN None ELSE [ui.graph EXCEPT !.lens = l]
  <2>1. /\ ui' = [ui EXCEPT !.lens = l, !.graph = g] /\ clicks' \in Nat /\ db' = db
        /\ calls' = calls
    BY <1>0, <1>1 DEF ChooseLens, Local, Click
  <2> HIDE DEF g
  <2>2. /\ Shaped(ui', PulseParts) /\ ui'.map = ui.map /\ ui'.log = ui.log /\ ui'.lens = l
        /\ ui'.loading = ui.loading /\ ui'.error = ui.error /\ ui'.graph = g
        /\ ui'.particles = ui.particles /\ ui'.back = ui.back
    BY <1>0, <2>1 DEF Shaped, PulseParts
  <2>3. ASSUME OnStage(ui), ~ui.back
        PROVE  g = [map |-> ui.map, lens |-> l, here |-> TRUE] /\ ui.particles \in {None, ui.map}
    <3>1. /\ ui.graph = [map |-> ui.map, lens |-> ui.lens, here |-> TRUE]
          /\ ui.particles \in {None, ui.map}
      BY <1>0, <2>3 DEF PulseOk, Built
    <3>2. ui.graph \in PulseGraph
      BY <1>0, <2>3, <3>1 DEF PulseOk, OnStage, PulseGraph
    <3>3. ui.graph # None
      BY <3>2, PulseAssumption
    <3>4. [ui.graph EXCEPT !.lens = l] = [map |-> ui.map, lens |-> l, here |-> TRUE]
      <4>1. PICK here : here = TRUE
        OBVIOUS
      <4>2. ui.graph = [map |-> ui.map, lens |-> ui.lens, here |-> here]
        BY <3>1, <4>1, Zenon
      <4>3. [ui.graph EXCEPT !.lens = l] = [map |-> ui.map, lens |-> l, here |-> here]
        BY <4>2, GraphIs
      <4> QED
        BY <4>1, <4>3, Zenon
    <3>5. g = [ui.graph EXCEPT !.lens = l]
      BY <3>3 DEF g
    <3> QED
      BY <3>1, <3>4, <3>5
  <2>4. Built(ui)'
    BY <2>1, <2>2, <2>3 DEF Built, OnStage
  <2> QED
    BY <1>0, <2>1, <2>2, <2>4 DEF PulseInv, PulseOk
<1>2. ASSUME ReloadPulse PROVE PulseInv'
  <2> DEFINE r == AskPulse(ui.log, clicks + 1)
  <2>1. /\ ui' = PulseMounted(ui.log, None) /\ calls' = {r} /\ clicks' \in Nat
        /\ db' = [db EXCEPT !.kept = [p \in Projects |-> None]]
    BY <1>0, <1>2 DEF ReloadPulse, Click
  <2>2. IsCall(r) /\ r.arg \in PulseMap
    BY <1>0, AskedIs DEF AskPulse
  <2> HIDE DEF r
  <2>3. Shaped(db', {"kept", "bare"}) /\ db'.kept \in [Projects -> PulseMap \cup {None}]
    BY <2>1 DEF PulseInv, Shaped
  <2>4. /\ Shaped(ui', PulseParts) /\ ui'.map = None /\ ui'.log = ui.log /\ ui'.lens = "throughput"
        /\ ui'.loading
    BY <2>1 DEF PulseMounted, Shaped, PulseParts
  <2>5. Built(ui)' /\ "throughput" \in Lenses
    BY <2>4 DEF Built, OnStage, Lenses
  <2> QED
    BY <1>0, <2>1, <2>2, <2>3, <2>4, <2>5 DEF PulseInv, PulseOk
<1>3. ASSUME TogglePlay PROVE PulseInv'
  <2>1. /\ ui' = [ui EXCEPT !.playing = ~@] /\ clicks' \in Nat /\ db' = db /\ calls' = calls
    BY <1>0, <1>3 DEF TogglePlay, Local, Click
  <2>2. /\ Shaped(ui', PulseParts) /\ ui'.map = ui.map /\ ui'.log = ui.log /\ ui'.lens = ui.lens
        /\ ui'.loading = ui.loading /\ ui'.error = ui.error /\ ui'.graph = ui.graph
        /\ ui'.particles = ui.particles /\ ui'.back = ui.back
    BY <1>0, <2>1 DEF Shaped, PulseParts
  <2> QED
    BY <1>0, <2>1, <2>2 DEF PulseInv, PulseOk, Built, OnStage
<1>4. ASSUME PulseFrame PROVE PulseInv'
  <2>1. /\ ui' = [ui EXCEPT !.particles = ui.graph.map] /\ clicks' \in Nat /\ db' = db
        /\ calls' = calls
    BY <1>0, <1>4 DEF PulseFrame
  <2>2. /\ Shaped(ui', PulseParts) /\ ui'.map = ui.map /\ ui'.log = ui.log /\ ui'.lens = ui.lens
        /\ ui'.loading = ui.loading /\ ui'.error = ui.error /\ ui'.graph = ui.graph
        /\ ui'.particles = ui.graph.map /\ ui'.back = ui.back
    BY <1>0, <2>1 DEF Shaped, PulseParts
  <2> QED
    BY <1>0, <2>1, <2>2 DEF PulseInv, PulseOk, Built, OnStage
<1>5. ASSUME NEW c \in calls, Refuse(c) PROVE PulseInv'
  <2>1. /\ ui' = ui /\ db' = db /\ clicks' = clicks
        /\ calls' = (calls \ {c}) \cup {[c EXCEPT !.stage = "failed"]}
    BY <1>5 DEF Refuse
  <2>2. SameCall([c EXCEPT !.stage = "failed"], c, "failed")
    BY RefusedIs DEF PulseInv
  <2> QED
    BY <1>0, <2>1, <2>2 DEF PulseInv, PulseOk, Built, OnStage, SameCall
<1>6. ASSUME NEW c \in Settled("discover"), PulseDiscovered(c) PROVE PulseInv'
  BY <1>6, DiscoveredKeeps DEF Settled, Answered, Refused
<1> QED
  BY <1>1, <1>2, <1>3, <1>4, <1>5, <1>6, OpenPulseKeeps DEF PulseNext

LEMMA PulseStart ==
  ASSUME NEW log \in Projects, NEW kept, NEW bare, clicks = 0, PulseInit(log, kept, bare)
  PROVE  PulseInv
<1> DEFINE map == IF kept THEN [log |-> log, n |-> 0] ELSE None
           u == PulseMounted(log, map)
           g == [map |-> u.map, lens |-> u.lens, here |-> TRUE]
           r == AskPulse(log, 0)
<1>1. /\ db = [kept |-> [p \in Projects |-> IF p = log THEN map ELSE None], bare |-> bare]
      /\ ui = IF kept THEN PulseBuilt(u) ELSE u
      /\ calls = IF kept THEN {} ELSE {r}
  BY DEF PulseInit
<1>2. map \in PulseMap \cup {None} /\ (~kept => map = None)
  BY DEF PulseMap
<1>3. IsCall(r) /\ r.arg \in PulseMap
  BY AskedIs DEF AskPulse
<1> HIDE DEF map, r
<1>4. Shaped(db, {"kept", "bare"}) /\ db.kept \in [Projects -> PulseMap \cup {None}]
  BY <1>1, <1>2 DEF Shaped
<1>5. /\ Shaped(u, PulseParts) /\ u.map = map /\ u.log = log /\ u.lens = "throughput"
      /\ u.particles = None
  BY DEF PulseMounted, Shaped, PulseParts
<1>6. "throughput" \in Lenses
  BY DEF Lenses
<1> HIDE DEF u
<1>7. CASE kept /\ OnStage(u)
  <2>1. ui = [u EXCEPT !.graph = g, !.particles = None, !.back = FALSE]
    BY <1>1, <1>7 DEF PulseBuilt
  <2> HIDE DEF g
  <2>2. /\ Shaped(ui, PulseParts) /\ ui.map = u.map /\ ui.log = u.log /\ ui.lens = u.lens
        /\ ui.graph = g /\ ui.particles = None
    BY <1>5, <2>1 DEF Shaped, PulseParts
  <2>3. Built(ui)
    BY <2>2 DEF Built, g
  <2> QED
    BY <1>1, <1>2, <1>3, <1>4, <1>5, <1>6, <2>2, <2>3 DEF PulseInv, PulseOk
<1>8. CASE ~(kept /\ OnStage(u))
  <2>1. ui = u \/ ui = [u EXCEPT !.graph = None, !.back = FALSE]
    BY <1>1, <1>8 DEF PulseBuilt
  <2>2. /\ Shaped(ui, PulseParts) /\ ui.map = u.map /\ ui.log = u.log /\ ui.lens = u.lens
        /\ ui.loading = u.loading /\ ui.error = u.error
    BY <1>5, <2>1 DEF Shaped, PulseParts
  <2>3. ~OnStage(u)
    BY <1>2, <1>5, <1>8 DEF OnStage
  <2>4. Built(ui)
    BY <2>2, <2>3 DEF Built, OnStage
  <2> QED
    BY <1>1, <1>2, <1>3, <1>4, <1>5, <1>6, <2>2, <2>4 DEF PulseInv, PulseOk
<1> QED
  BY <1>7, <1>8

LEMMA PulseMeans == PulseInv => PulseRight
BY DEF PulseInv, PulseOk, Built, PulseRight

-----------------------------------------------------------------------------
(* The widgets of a dashboard                                               *)

\* One of finitely many has the greatest number: with the fewest above it.
LEMMA GreatestIs ==
  ASSUME NEW D, IsFiniteSet(D), D # {}, NEW f \in [D -> Nat]
  PROVE  \E k \in D : \A j \in D : f[j] <= f[k]
<1> DEFINE above(k) == {j \in D : f[k] < f[j]}
           counts   == {n \in 0..Cardinality(D) : \E k \in D : n = Cardinality(above(k))}
<1>1. ASSUME NEW k \in D PROVE Cardinality(above(k)) \in counts
  <2>1. IsFiniteSet(above(k)) /\ Cardinality(above(k)) <= Cardinality(D)
    BY FS_Subset
  <2>2. Cardinality(above(k)) \in Nat /\ Cardinality(D) \in Nat
    BY <2>1, FS_CardinalityType
  <2>3. Cardinality(above(k)) \in 0..Cardinality(D)
    BY <2>1, <2>2
  <2> HIDE DEF above
  <2> QED
    BY <2>3
<1>2. counts \in SUBSET Nat /\ IsFiniteSet(counts) /\ counts # {}
  <2>1. Cardinality(D) \in Nat
    BY FS_CardinalityType
  <2>2. IsFiniteSet(0..Cardinality(D)) /\ counts \in SUBSET (0..Cardinality(D))
    BY <2>1, FS_Interval
  <2>3. counts # {}
    BY <1>1
  <2> HIDE DEF counts
  <2> QED
    <3>1. IsFiniteSet(counts)
      BY <2>2, FS_Subset
    <3>2. counts \in SUBSET Nat
      BY <2>1, <2>2
    <3> QED
      BY <2>3, <3>1, <3>2
<1>3. PICK n \in counts : \A m \in counts : ~(m < n)
  BY <1>2, LeastIs
<1>4. PICK k \in D : n = Cardinality(above(k))
  OBVIOUS
<1>5. ASSUME NEW j \in D, f[k] < f[j] PROVE FALSE
  <2>1. \A i \in above(j) : i \in above(k)
    <3> TAKE i \in above(j)
    <3>1. f[i] \in Nat /\ f[j] \in Nat /\ f[k] \in Nat
      OBVIOUS
    <3> QED
      BY <1>5, <3>1
  <2>2. j \in above(k) /\ j \notin above(j)
    BY <1>5
  <2>3. IsFiniteSet(above(k)) /\ IsFiniteSet(above(j))
    BY FS_Subset
  <2>4. Cardinality(above(j)) < Cardinality(above(k))
    <3>1. above(j) \subseteq above(k) /\ above(j) # above(k)
      BY <2>1, <2>2
    <3> HIDE DEF above
    <3>2. /\ Cardinality(above(j)) <= Cardinality(above(k))
          /\ Cardinality(above(j)) # Cardinality(above(k))
      BY <2>3, <3>1, FS_Subset
    <3>3. Cardinality(above(j)) \in Nat /\ Cardinality(above(k)) \in Nat
      BY <2>3, FS_CardinalityType
    <3> QED
      BY <3>2, <3>3
  <2> QED
    BY <1>1, <1>3, <1>4, <2>4
<1>6. \A j \in D : f[j] \in Nat
  OBVIOUS
<1> QED
  BY <1>5, <1>6

\* A set of naturals up to n that has 0, and with each number the next, has them all.
LEMMA Climbing ==
  ASSUME NEW n \in Nat, NEW S \in SUBSET (0..n), 0 \in S,
         \A k \in 0..n : k \in S /\ k < n => k + 1 \in S
  PROVE  S = 0..n
<1> DEFINE rest == (0..n) \ S
<1> SUFFICES ASSUME rest # {} PROVE FALSE
  OBVIOUS
<1>1. IsFiniteSet(rest) /\ rest \in SUBSET Nat
  <2>1. IsFiniteSet(0..n)
    BY FS_Interval
  <2> QED
    BY <2>1, FS_Subset
<1>2. PICK k \in rest : \A j \in rest : ~(j < k)
  BY <1>1, LeastIs
<1>3. k # 0 /\ k - 1 \in 0..n /\ k - 1 < n /\ k - 1 < k /\ (k - 1) + 1 = k
  OBVIOUS
<1>4. k - 1 \in S
  BY <1>2, <1>3
<1> QED
  BY <1>3, <1>4

LEMMA PlacedAre ==
  ASSUME NEW layout \in Layouts
  PROVE  /\ Placed(layout) \subseteq Items /\ IsFiniteSet(Placed(layout))
         /\ \A i \in Placed(layout) : layout[i] \in Widget
         /\ WidgetsOf(layout) \subseteq Widget
<1>1. Placed(layout) \subseteq Items /\ \A i \in Placed(layout) : layout[i] \in Widget
  BY DEF Placed, Layouts
<1>2. IsFiniteSet(Placed(layout))
  <2>1. Placed(layout) \in SUBSET Items
    BY <1>1
  <2> QED
    BY <2>1, RowsAssumption, FS_Subset
<1> QED
  BY <1>1, <1>2 DEF WidgetsOf

\* All widgets of a layout end above its bottom, also when some are left out.
LEMMA BottomIs ==
  ASSUME NEW layout \in Layouts, NEW widgets \in SUBSET WidgetsOf(layout)
  PROVE  Bottom(widgets) \in Nat /\ \A u \in widgets : u.y + u.h <= Bottom(widgets)
<1> DEFINE ends == {0} \cup {u.y + u.h : u \in widgets}
           D    == {i \in Placed(layout) : layout[i] \in widgets}
           f    == [i \in D |-> layout[i].y + layout[i].h]
<1>1. \A u \in widgets : u \in Widget /\ u.y + u.h \in Nat
  BY PlacedAre DEF Widget
<1>2. ends \subseteq Nat
  BY <1>1
<1>3. \E b \in ends : \A u \in widgets : u.y + u.h <= b
  <2>1. CASE D = {}
    <3>1. widgets = {}
      BY <2>1 DEF WidgetsOf
    <3> QED
      BY <3>1
  <2>2. CASE D # {}
    <3>1. IsFiniteSet(D)
      BY PlacedAre, FS_Subset
    <3>2. f \in [D -> Nat]
      BY <1>1
    <3>3. PICK k \in D : \A j \in D : f[j] <= f[k]
      BY <2>2, <3>1, <3>2, GreatestIs
    <3>4. \A u \in widgets : \E j \in D : u = layout[j]
      BY DEF WidgetsOf
    <3>5. f[k] \in ends
      OBVIOUS
    <3>6. \A u \in widgets : u.y + u.h <= f[k]
      BY <3>3, <3>4
    <3> QED
      BY <3>5, <3>6
  <2> QED
    BY <2>1, <2>2
<1>4. Bottom(widgets) \in ends /\ \A u \in widgets : u.y + u.h <= Bottom(widgets)
  BY <1>3 DEF Bottom
<1> QED
  BY <1>2, <1>4

LEMMA LeastOf ==
  ASSUME NEW S \in SUBSET Nat, IsFiniteSet(S), S # {}
  PROVE  Least(S) \in S
<1>1. PICK n \in S : \A m \in S : ~(m < n)
  BY LeastIs
<1>2. \A m \in S : n <= m
  BY <1>1
<1> QED
  BY <1>2 DEF Least

LEMMA FirstIs ==
  ASSUME NEW m \in Nat, NEW n \in Nat, NEW places \in SUBSET ((0..m) \X (0..n)), places # {}
  PROVE  FirstOf(places) \in places
<1> DEFINE rows == {s[1] : s \in places}
           row  == Least(rows)
           columns == {s[2] : s \in {t \in places : t[1] = row}}
<1>1. rows \in SUBSET (0..m) /\ columns \in SUBSET (0..n)
  OBVIOUS
<1>2. IsFiniteSet(rows) /\ IsFiniteSet(columns) /\ rows \in SUBSET Nat /\ columns \in SUBSET Nat
  <2>1. IsFiniteSet(0..m) /\ IsFiniteSet(0..n)
    BY FS_Interval
  <2> HIDE DEF rows, columns
  <2>2. IsFiniteSet(rows) /\ IsFiniteSet(columns)
    BY <1>1, <2>1, FS_Subset
  <2> QED
    BY <1>1, <2>2
<1>3. row \in rows
  BY <1>2, LeastOf
<1>4. columns # {}
  BY <1>3
<1>5. Least(columns) \in columns
  BY <1>2, <1>4, LeastOf
<1>6. PICK t \in places : t[1] = row /\ t[2] = Least(columns)
  BY <1>5
<1>7. t = <<t[1], t[2]>>
  OBVIOUS
<1> QED
  BY <1>6, <1>7 DEF FirstOf

\* No widget of a layout covers another.
Apart(layout) ==
  layout \in Layouts /\ \A i, j \in Placed(layout) : i # j => ~Covers(layout[i], layout[j])

LEMMA CoversBoth ==
  ASSUME NEW a \in Widget, NEW b \in Widget
  PROVE  Covers(a, b) <=> Covers(b, a)
BY DEF Covers, Beside, Widget

\* A widget that is put where it covers none.
LEMMA PutApart ==
  ASSUME NEW layout, Apart(layout), NEW i \in Items, NEW w \in Widget,
         \A j \in Placed(layout) \ {i} : ~Covers(w, layout[j])
  PROVE  Apart([layout EXCEPT ![i] = w])
<1> DEFINE next == [layout EXCEPT ![i] = w]
<1>1. next \in Layouts /\ next[i] = w /\ \A j \in Items \ {i} : next[j] = layout[j]
  BY DEF Apart, Layouts
<1>2. \A j \in Placed(next) \ {i} : j \in Placed(layout) /\ j \in Items
  BY <1>1 DEF Placed
<1> HIDE DEF next
<1>3. ASSUME NEW j \in Placed(next), NEW k \in Placed(next), j # k
      PROVE  ~Covers(next[j], next[k])
  <2>1. layout \in Layouts /\ \A l \in Placed(layout) : layout[l] \in Widget
    BY PlacedAre DEF Apart
  <2>2. CASE j = i
    BY <1>1, <1>2, <1>3, <2>2
  <2>3. CASE k = i
    BY <1>1, <1>2, <1>3, <2>1, <2>3, CoversBoth
  <2>4. CASE j # i /\ k # i
    BY <1>1, <1>2, <1>3, <2>4 DEF Apart
  <2> QED
    BY <2>2, <2>3, <2>4
<1> QED
  BY <1>1, <1>3 DEF Apart, next

\* findSlot and the list that is sent with the new widget.
LEMMA NewApart ==
  ASSUME NEW layout, Apart(layout), NEW i \in Items, NEW size \in Sizes
  PROVE  Apart(WithNew(layout, i, size))
<1> DEFINE widgets == WidgetsOf(layout)
           free == {s \in (0..Bottom(widgets)) \X (0..(12 - size[1])) :
                      \A u \in widgets : ~Covers(NewWidget(size, s), u)}
           slot == FindSlot(layout, size)
           w    == NewWidget(size, slot)
<1>1. layout \in Layouts /\ widgets \subseteq Widget
  BY PlacedAre DEF Apart
<1>2. Bottom(widgets) \in Nat /\ \A u \in widgets : u.y + u.h <= Bottom(widgets)
  BY <1>1, BottomIs
<1>3. size[1] \in {3, 6} /\ size[2] \in {2, 3} /\ 12 - size[1] \in Nat
  BY DEF Sizes
<1>4. w \in Widget /\ \A u \in widgets : ~Covers(w, u)
  <2>1. CASE free = {}
    <3>1. slot = <<Bottom(widgets), 0>>
      BY <2>1 DEF FindSlot
    <3>2. w = [version |-> 1, x |-> 0, y |-> Bottom(widgets), w |-> size[1], h |-> size[2]]
      BY <3>1 DEF NewWidget
    <3> QED
      BY <1>1, <1>2, <1>3, <3>2 DEF Covers, Widget
  <2>2. CASE free # {}
    <3>1. slot = FirstOf(free)
      BY <2>2 DEF FindSlot
    <3>2. slot \in free
      <4>1. PICK m \in Nat, n \in Nat : m = Bottom(widgets) /\ n = 12 - size[1]
        BY <1>2, <1>3
      <4>2. free \in SUBSET ((0..m) \X (0..n))
        BY <4>1
      <4> HIDE DEF free, slot
      <4> QED
        BY <2>2, <3>1, <4>2, FirstIs
    <3>3. slot[1] \in Nat /\ slot[2] \in 0..11
      BY <1>2, <1>3, <3>2
    <3> QED
      BY <1>3, <3>2, <3>3 DEF NewWidget, Widget
  <2> QED
    BY <2>1, <2>2
<1>5. \A j \in Placed(layout) : layout[j] \in widgets
  BY DEF WidgetsOf
<1> HIDE DEF w
<1>6. Apart([layout EXCEPT ![i] = w])
  BY <1>4, <1>5, PutApart
<1> QED
  BY <1>6 DEF w, WithNew

\* Of some placed widgets one is after no other in repack's order: the one furthest
\* to the right of those furthest down.
LEMMA LastIs ==
  ASSUME NEW layout \in Layouts, NEW D \in SUBSET Placed(layout), D # {}
  PROVE  \E i \in D : \A j \in D : ~Above(layout[i], layout[j])
<1>1. \A i \in D : layout[i] \in Widget
  BY PlacedAre
<1>2. IsFiniteSet(D)
  BY PlacedAre, FS_Subset
<1> DEFINE f == [i \in D |-> layout[i].y]
<1>3. f \in [D -> Nat]
  BY <1>1 DEF Widget
<1>4. PICK k \in D : \A j \in D : f[j] <= f[k]
  BY <1>2, <1>3, GreatestIs
<1> DEFINE E == {j \in D : layout[j].y = layout[k].y}
           g == [i \in E |-> layout[i].x]
<1>5. IsFiniteSet(E) /\ E # {}
  BY <1>2, FS_Subset
<1>6. g \in [E -> Nat]
  BY <1>1 DEF Widget
<1>7. PICK i \in E : \A j \in E : g[j] <= g[i]
  <2> HIDE DEF E, g
  <2> QED
    BY <1>5, <1>6, GreatestIs
<1>8. ASSUME NEW j \in D PROVE ~Above(layout[i], layout[j])
  <2>1. layout[j].y <= layout[i].y
    BY <1>4
  <2>2. layout[j].y = layout[i].y => layout[j].x <= layout[i].x
    BY <1>7
  <2> QED
    BY <1>1, <2>1, <2>2 DEF Above, Widget
<1> QED
  BY <1>8

InRepackOrder(layout, s, n) ==
  \A j, k \in 1..n : j < k => s[j] # s[k] /\ ~Above(layout[s[k]], layout[s[j]])

\* Any of the placed widgets can be brought into that order.
LEMMA OrderExists ==
  ASSUME NEW layout \in Layouts, NEW D \in SUBSET Placed(layout)
  PROVE  \E s \in [1..Cardinality(D) -> D] : InRepackOrder(layout, s, Cardinality(D))
<1> DEFINE Sortable(C, n) == \E s \in [1..n -> C] : InRepackOrder(layout, s, n)
           N == Cardinality(D)
           S == {n \in 0..N : \A C \in SUBSET D : Cardinality(C) = n => Sortable(C, n)}
<1>1. IsFiniteSet(D) /\ N \in Nat
  BY PlacedAre, FS_Subset, FS_CardinalityType
<1>2. \A C \in SUBSET D : Sortable(C, 0)
  <2> TAKE C \in SUBSET D
  <2>1. 1..0 = {}
    OBVIOUS
  <2>2. [k \in 1..0 |-> CHOOSE i : i \in C] \in [1..0 -> C]
    BY <2>1
  <2> QED
    BY <2>1, <2>2 DEF InRepackOrder
<1>3. ASSUME NEW n \in 0..N, n \in S, n < N, NEW C \in SUBSET D, Cardinality(C) = n + 1
      PROVE  Sortable(C, n + 1)
  <2>1. IsFiniteSet(C) /\ C # {}
    <3>1. IsFiniteSet(C)
      BY <1>1, FS_Subset
    <3>2. n + 1 # 0
      BY <1>1
    <3> QED
      BY <1>3, <3>1, <3>2, FS_EmptySet
  <2>2. PICK i \in C : \A j \in C : ~Above(layout[i], layout[j])
    BY <2>1, LastIs
  <2>3. Cardinality(C \ {i}) = n /\ C \ {i} \in SUBSET D
    <3>1. Cardinality(C \ {i}) = Cardinality(C) - 1
      BY <2>1, FS_RemoveElement
    <3> QED
      BY <1>1, <1>3, <3>1
  <2>4. PICK s \in [1..n -> C \ {i}] : InRepackOrder(layout, s, n)
    BY <1>3, <2>3
  <2> DEFINE t == [k \in 1..(n + 1) |-> IF k = n + 1 THEN i ELSE s[k]]
  <2>5. t \in [1..(n + 1) -> C]
    <3> SUFFICES ASSUME NEW k \in 1..(n + 1) PROVE t[k] \in C
      BY Zenon
    <3>1. k = n + 1 \/ k \in 1..n
      BY <1>1
    <3> QED
      BY <3>1
  <2>6. InRepackOrder(layout, t, n + 1)
    <3> SUFFICES ASSUME NEW j \in 1..(n + 1), NEW k \in 1..(n + 1), j < k
                 PROVE  t[j] # t[k] /\ ~Above(layout[t[k]], layout[t[j]])
      BY DEF InRepackOrder
    <3>1. j \in 1..n /\ t[j] = s[j] /\ s[j] \in C \ {i}
      <4>1. j \in 1..n
        BY <1>1
      <4> QED
        BY <1>1, <4>1
    <3>2. CASE k = n + 1
      BY <2>2, <3>1, <3>2
    <3>3. CASE k \in 1..n
      <4>1. t[k] = s[k]
        BY <1>1, <3>3
      <4> QED
        BY <2>4, <3>1, <3>3, <4>1 DEF InRepackOrder
    <3> QED
      BY <1>1, <3>2, <3>3
  <2> QED
    BY <2>5, <2>6
<1>4. S \in SUBSET (0..N) /\ 0 \in S
  BY <1>1, <1>2
<1>5. \A n \in 0..N : n \in S /\ n < N => n + 1 \in S
  <2> TAKE n \in 0..N
  <2> SUFFICES ASSUME n \in S, n < N PROVE n + 1 \in S
    OBVIOUS
  <2>1. n + 1 \in 0..N
    BY <1>1
  <2> QED
    BY <1>3, <2>1
<1>6. N \in S
  <2> HIDE DEF S, N
  <2>1. S = 0..N
    BY <1>1, <1>4, <1>5, Climbing
  <2> QED
    BY <1>1, <2>1
<1> QED
  BY <1>6

LEMMA SortedIs ==
  ASSUME NEW layout \in Layouts
  PROVE  Sorted(layout) \in [1..Cardinality(Placed(layout)) -> Placed(layout)]
<1> DEFINE n == Cardinality(Placed(layout))
<1>1. PICK s \in [1..n -> Placed(layout)] : InRepackOrder(layout, s, n)
  BY OrderExists
<1> QED
  BY <1>1 DEF Sorted, InRepackOrder

\* The widgets are packed one after the other: each number of them is reached.
LEMMA PackedIs ==
  ASSUME NEW layout \in Layouts, NEW order
  PROVE  LET n == Cardinality(Placed(layout))
             p == Packed(layout, order)
         IN  n \in Nat /\ \A k \in 0..n : p[k] = IF k = 0 THEN NoWidgets
                                                 ELSE Lifted(layout, order[k], p[k - 1])
<1> DEFINE n == Cardinality(Placed(layout))
           Runs(f, m) == f = [k \in 0..m |-> IF k = 0 THEN NoWidgets
                                             ELSE Lifted(layout, order[k], f[k - 1])]
           S == {m \in 0..n : \E f : Runs(f, m)}
<1>1. n \in Nat
  BY PlacedAre, FS_CardinalityType
<1>2. 0 \in S
  <2>1. Runs([k \in 0..0 |-> NoWidgets], 0)
    OBVIOUS
  <2>2. 0 \in 0..n
    BY <1>1
  <2> HIDE DEF Runs, n
  <2> QED
    BY <2>1, <2>2
<1>3. ASSUME NEW m \in 0..n, m \in S, m < n PROVE m + 1 \in S
  <2>1. PICK f : Runs(f, m)
    BY <1>3
  <2> DEFINE g == [k \in 0..(m + 1) |-> IF k = m + 1 THEN Lifted(layout, order[k], f[m]) ELSE f[k]]
  <2>2. \A k \in 0..m : /\ g[k] = f[k]
                        /\ f[k] = IF k = 0 THEN NoWidgets ELSE Lifted(layout, order[k], f[k - 1])
    BY <1>1, <2>1
  <2>3. ASSUME NEW k \in 0..(m + 1)
        PROVE  g[k] = IF k = 0 THEN NoWidgets ELSE Lifted(layout, order[k], g[k - 1])
    <3>1. CASE k = m + 1
      <4>1. k # 0 /\ k - 1 = m /\ m \in 0..m
        BY <1>1, <3>1
      <4> QED
        BY <2>2, <3>1, <4>1
    <3>2. CASE k # m + 1
      <4>1. k \in 0..m /\ (k # 0 => k - 1 \in 0..m)
        BY <1>1, <3>2
      <4> HIDE DEF g
      <4> QED
        BY <2>2, <4>1
    <3> QED
      BY <3>1, <3>2
  <2>4. Runs(g, m + 1)
    BY <2>3
  <2>5. m + 1 \in 0..n
    BY <1>1, <1>3
  <2> QED
    BY <2>4, <2>5
<1>4. n \in S
  <2> HIDE DEF S, n
  <2>1. S \in SUBSET (0..n)
    BY DEF S
  <2>2. S = 0..n
    BY <1>1, <1>2, <1>3, <2>1, Climbing
  <2> QED
    BY <1>1, <2>2
<1>5. Runs(Packed(layout, order), n)
  <2>1. PICK f : Runs(f, n)
    BY <1>4
  <2>2. Packed(layout, order) = CHOOSE g : Runs(g, n)
    BY DEF Packed
  <2> HIDE DEF Runs
  <2> QED
    BY <2>1, <2>2
<1> QED
  BY <1>1, <1>5

\* Whatever the order, no widget that has been packed covers another.
LEMMA RepackApart ==
  ASSUME NEW layout \in Layouts
  PROVE  Apart(Repack(layout))
<1> DEFINE n == Cardinality(Placed(layout))
           p == Packed(layout, Sorted(layout))
           S == {k \in 0..n : Apart(p[k])}
<1>1. n \in Nat /\ \A k \in 0..n : p[k] = IF k = 0 THEN NoWidgets
                                          ELSE Lifted(layout, Sorted(layout)[k], p[k - 1])
  BY PackedIs
<1>2. Apart(NoWidgets)
  BY DEF Apart, NoWidgets, Layouts, Placed
<1>3. ASSUME NEW packed, Apart(packed), NEW i \in Placed(layout)
      PROVE  Apart(Lifted(layout, i, packed))
  <2> DEFINE over == {u \in WidgetsOf(packed) : Beside(u, layout[i])}
             w    == [layout[i] EXCEPT !.y = Bottom(over)]
  <2>1. packed \in Layouts
    BY <1>3 DEF Apart
  <2>2. Bottom(over) \in Nat /\ \A u \in over : u.y + u.h <= Bottom(over)
    BY <2>1, BottomIs
  <2>3. layout[i] \in Widget /\ i \in Items
    BY PlacedAre
  <2> HIDE DEF over
  <2>4. /\ w \in Widget /\ w.y = Bottom(over)
        /\ w.x = layout[i].x /\ w.w = layout[i].w
    BY <2>2, <2>3 DEF Widget
  <2> HIDE DEF w
  <2>5. ASSUME NEW j \in Placed(packed) PROVE ~Covers(w, packed[j])
    <3>1. packed[j] \in Widget /\ packed[j] \in WidgetsOf(packed)
      BY <2>1, PlacedAre DEF WidgetsOf
    <3>2. CASE Beside(packed[j], layout[i])
      <4>1. packed[j].y + packed[j].h <= w.y
        BY <2>2, <2>4, <3>1, <3>2 DEF over
      <4> QED
        BY <2>4, <3>1, <4>1 DEF Covers, Widget
    <3>3. CASE ~Beside(packed[j], layout[i])
      BY <2>3, <2>4, <3>1, <3>3 DEF Covers, Beside, Widget
    <3> QED
      BY <3>2, <3>3
  <2>6. Apart([packed EXCEPT ![i] = w])
    BY <1>3, <2>3, <2>4, <2>5, PutApart
  <2> QED
    BY <2>6 DEF w, over, Lifted
<1>4. ASSUME NEW k \in 0..n, Apart(p[k]), k < n PROVE Apart(p[k + 1])
  <2>1. k + 1 \in 0..n /\ k + 1 \in 1..n /\ k + 1 # 0 /\ (k + 1) - 1 = k
    BY <1>1, <1>4
  <2>2. Sorted(layout)[k + 1] \in Placed(layout)
    BY <2>1, SortedIs
  <2>3. p[k + 1] = Lifted(layout, Sorted(layout)[k + 1], p[k])
    BY <1>1, <2>1
  <2> QED
    BY <1>3, <1>4, <2>2, <2>3
<1>5. n \in S
  <2>1. S \in SUBSET (0..n) /\ 0 \in S
    BY <1>1, <1>2
  <2>2. \A k \in 0..n : k \in S /\ k < n => k + 1 \in S
    BY <1>1, <1>4
  <2> HIDE DEF S, n
  <2>3. S = 0..n
    BY <1>1, <2>1, <2>2, Climbing
  <2> QED
    BY <1>1, <2>3
<1> QED
  BY <1>5 DEF Repack

\* Two of one size change places.
LEMMA SwapApart ==
  ASSUME NEW layout, Apart(layout), NEW i \in Placed(layout), NEW j \in Placed(layout), i # j,
         layout[i].w = layout[j].w, layout[i].h = layout[j].h
  PROVE  Apart([layout EXCEPT ![i] = [layout[i] EXCEPT !.x = layout[j].x, !.y = layout[j].y],
                              ![j] = [layout[j] EXCEPT !.x = layout[i].x, !.y = layout[i].y]])
<1> DEFINE v == [layout[i] EXCEPT !.x = layout[j].x, !.y = layout[j].y]
           w == [layout[j] EXCEPT !.x = layout[i].x, !.y = layout[i].y]
           next == [layout EXCEPT ![i] = v, ![j] = w]
           from(k) == IF k = i THEN j ELSE IF k = j THEN i ELSE k
<1>1. layout \in Layouts /\ i \in Items /\ j \in Items
  BY PlacedAre DEF Apart
<1>2. \A k \in Placed(layout) : layout[k] \in Widget
  BY <1>1, PlacedAre
<1>3. v \in Widget /\ w \in Widget
  BY <1>2 DEF Widget
<1>4. /\ v.x = layout[j].x /\ v.y = layout[j].y /\ v.w = layout[j].w /\ v.h = layout[j].h
      /\ w.x = layout[i].x /\ w.y = layout[i].y /\ w.w = layout[i].w /\ w.h = layout[i].h
  BY <1>2 DEF Widget
<1> HIDE DEF v, w
<1>5. next \in Layouts /\ next[i] = v /\ next[j] = w /\ \A k \in Items \ {i, j} : next[k] = layout[k]
  BY <1>1, <1>3 DEF Layouts
<1> HIDE DEF next
<1>6. \A k \in Placed(next) : from(k) \in Placed(layout)
  BY <1>5 DEF Placed
<1>7. \A k \in Placed(next) : /\ next[k].x = layout[from(k)].x /\ next[k].y = layout[from(k)].y
                              /\ next[k].w = layout[from(k)].w /\ next[k].h = layout[from(k)].h
  <2> TAKE k \in Placed(next)
  <2>1. k \in Items
    BY DEF Placed
  <2> QED
    BY <1>4, <1>5, <2>1
<1>8. ASSUME NEW k \in Placed(next), NEW l \in Placed(next), k # l
      PROVE  ~Covers(next[k], next[l])
  <2>1. from(k) # from(l)
    BY <1>8
  <2>2. PICK a \in Placed(layout), b \in Placed(layout) : a = from(k) /\ b = from(l)
    BY <1>6
  <2> HIDE DEF from
  <2>3. ~Covers(layout[a], layout[b])
    BY <2>1, <2>2 DEF Apart
  <2> QED
    BY <1>7, <2>2, <2>3 DEF Covers, Beside
<1> QED
  BY <1>5, <1>8 DEF Apart, next, v, w

\* The settings of a widget that is where it was, at its size.
LEMMA SettingsApart ==
  ASSUME NEW layout, Apart(layout), NEW i \in Placed(layout), NEW old \in Widget,
         <<old.x, old.y, old.w, old.h>> = <<layout[i].x, layout[i].y, layout[i].w, layout[i].h>>
  PROVE  Apart([layout EXCEPT ![i] = [old EXCEPT !.version = @ + 1]])
<1> DEFINE w == [old EXCEPT !.version = @ + 1]
<1>1. i \in Items
  BY DEF Placed
<1>2. /\ w \in Widget /\ w.x = layout[i].x /\ w.y = layout[i].y
      /\ w.w = layout[i].w /\ w.h = layout[i].h
  BY DEF Widget
<1> HIDE DEF w
<1>3. \A j \in Placed(layout) \ {i} : ~Covers(w, layout[j])
  <2> TAKE j \in Placed(layout) \ {i}
  <2>1. ~Covers(layout[i], layout[j])
    BY DEF Apart
  <2> QED
    BY <1>2, <2>1 DEF Covers, Beside
<1>4. Apart([layout EXCEPT ![i] = w])
  BY <1>1, <1>2, <1>3, PutApart
<1> QED
  BY <1>4 DEF w

-----------------------------------------------------------------------------
(* The editor of a dashboard                                                *)

EditorParts == {"widgets", "loading", "error", "edit", "add", "asking", "settings", "confirm",
                "versions"}

PanelParts == {"open", "list", "loading", "error", "modal", "saving", "pending", "restoring"}

EditorCall(c) ==
  IsCall(c) /\ c.op \in {"loadDashboard", "loadVersions", "textToWidget", "putWidgets", "latePut",
                         "saveVersion", "lateVersion", "restoreVersion", "lateRestore"}

\* The layout a request carries: of the render of its click, or changed from it.
SendsApart(op, arg) ==
  /\ op \in {"textToWidget", "saveVersion", "lateVersion", "restoreVersion", "lateRestore"} =>
       Apart(arg.widgets)
  /\ op \in {"putWidgets", "latePut"} => arg.loose \/ Apart(arg.widgets)

\* And the layouts of its answer.
CallApart(c) ==
  /\ SendsApart(c.op, c.arg)
  /\ c.stage = "ok" =>
       /\ c.op \in {"loadDashboard", "putWidgets", "saveVersion"} => Apart(c.ans.widgets)
       /\ c.op = "loadVersions" => \A v \in c.ans.list : Apart(v)
       /\ c.op = "textToWidget" => c.ans.size \in Sizes

\* Every layout the page has: on the screen, in the panel, in a question it asks.
UiApart(u) ==
  /\ Shaped(u, EditorParts) /\ Shaped(u.versions, PanelParts)
  /\ Apart(u.widgets) /\ \A v \in u.versions.list : Apart(v)
  /\ u.versions.pending # None => Apart(u.versions.pending)
  /\ u.confirm # None => Apart(u.confirm.base)
  /\ u.settings # None => u.settings.widget \in Widget

\* Until a change that may leave two widgets on one place has been stored, no layout
\* has any: not what is stored, nor the page's, nor what is on its way.
EditorInv ==
  /\ Shaped(db, {"widgets", "versions", "loose"}) /\ \A c \in calls : EditorCall(c)
  /\ db.loose \/ /\ Apart(db.widgets) /\ \A v \in db.versions : Apart(v)
                 /\ UiApart(ui)
                 /\ \A c \in calls : CallApart(c)

\* A step that leaves the store alone.
LEMMA EditorKeeps ==
  ASSUME EditorInv, db' = db,
         \A c \in calls' : c \in calls \/ (EditorCall(c) /\ (db.loose \/ CallApart(c))),
         db.loose \/ UiApart(ui')
  PROVE  EditorInv'
BY DEF EditorInv

LEMMA SendsIs ==
  ASSUME NEW op, NEW on, NEW arg, NEW others,
         op \in {"loadDashboard", "loadVersions", "textToWidget", "putWidgets", "latePut",
                 "saveVersion", "lateVersion", "restoreVersion", "lateRestore"}
  PROVE  LET r == Request(op, on, arg, others)
         IN  EditorCall(r) /\ (SendsApart(op, arg) => CallApart(r))
<1>1. PICK r : r = Request(op, on, arg, others)
  OBVIOUS
<1>2. IsCall(r) /\ r.op = op /\ r.arg = arg /\ r.stage # "ok"
  BY <1>1, RequestIs DEF Readings
<1>3. EditorCall(r) /\ (SendsApart(op, arg) => CallApart(r))
  BY <1>2 DEF EditorCall, CallApart
<1> QED
  BY <1>1, <1>3

\* A click that sends a call or none.
LEMMA ClickedKeeps ==
  ASSUME EditorInv, db' = db,
         \/ calls' = calls
         \/ \E op, arg : /\ op \in {"loadVersions", "textToWidget", "putWidgets", "saveVersion",
                                    "restoreVersion"}
                         /\ db.loose \/ SendsApart(op, arg)
                         /\ Send(op, None, arg),
         db.loose \/ UiApart(ui')
  PROVE  EditorInv'
<1>1. CASE calls' = calls
  BY <1>1, EditorKeeps
<1>2. ASSUME NEW op, NEW arg, Send(op, None, arg), db.loose \/ SendsApart(op, arg),
             op \in {"loadVersions", "textToWidget", "putWidgets", "saveVersion", "restoreVersion"}
      PROVE  EditorInv'
  <2>1. calls' = calls \cup {Request(op, None, arg, calls)}
    BY <1>2 DEF Send, SendAlso
  <2>2. /\ EditorCall(Request(op, None, arg, calls))
        /\ db.loose \/ CallApart(Request(op, None, arg, calls))
    BY <1>2, SendsIs
  <2> QED
    BY <2>1, <2>2, EditorKeeps
<1> QED
  BY <1>1, <1>2

\* What the page has without layouts being touched.
LEMMA UiIs ==
  ASSUME NEW u, UiApart(u), NEW x
  PROVE  /\ UiApart([u EXCEPT !.edit = x]) /\ UiApart([u EXCEPT !.add = x])
         /\ UiApart([u EXCEPT !.asking = x]) /\ UiApart([u EXCEPT !.loading = x])
         /\ UiApart([u EXCEPT !.error = x]) /\ UiApart([u EXCEPT !.confirm = None])
         /\ UiApart([u EXCEPT !.settings = None])
BY DEF UiApart, Shaped, EditorParts

LEMMA PanelIs ==
  ASSUME NEW u, UiApart(u), NEW p, Shaped(p, PanelParts),
         \A v \in p.list : Apart(v), p.pending # None => Apart(p.pending)
  PROVE  UiApart([u EXCEPT !.versions = p])
BY DEF UiApart, Shaped, EditorParts

LEMMA PanelsAre ==
  /\ Shaped(ClosedVersions, PanelParts) /\ ClosedVersions.list = {} /\ ClosedVersions.pending = None
  /\ Shaped(OpenVersions, PanelParts) /\ OpenVersions.list = {} /\ OpenVersions.pending = None
BY DEF ClosedVersions, OpenVersions, Shaped, PanelParts

LEMMA EditorStartIs == UiApart(EditorStart)
<1>1. Apart(NoWidgets)
  BY DEF Apart, NoWidgets, Layouts, Placed
<1>2. /\ Shaped(EditorStart, EditorParts) /\ EditorStart.widgets = NoWidgets
      /\ EditorStart.settings = None /\ EditorStart.confirm = None
      /\ EditorStart.versions = ClosedVersions
  BY DEF EditorStart, Shaped, EditorParts
<1> QED
  BY <1>1, <1>2, PanelsAre DEF UiApart

LEMMA WidgetsAre ==
  ASSUME NEW u, UiApart(u), NEW layout, Apart(layout)
  PROVE  UiApart([u EXCEPT !.widgets = layout])
BY DEF UiApart, Shaped, EditorParts

\* The questions of the page.
LEMMA QuestionsAre ==
  ASSUME NEW u, UiApart(u), NEW i \in Items, u.widgets[i] # None
  PROVE  /\ UiApart([u EXCEPT !.confirm = [on |-> i, base |-> u.widgets]])
         /\ UiApart([u EXCEPT !.settings = [on |-> i, widget |-> u.widgets[i]]])
<1>1. PICK w : w = u.widgets[i]
  OBVIOUS
<1>2. w \in Widget
  BY <1>1 DEF UiApart, Apart, Layouts
<1> QED
  BY <1>1, <1>2 DEF UiApart, Shaped, EditorParts

\* Of the versions panel only what it lists and restores is a layout.
LEMMA PanelPartsAre ==
  ASSUME NEW u, UiApart(u), NEW x, NEW y
  PROVE  /\ UiApart([u EXCEPT !.versions.loading = x, !.versions.error = y])
         /\ UiApart([u EXCEPT !.versions.modal = x]) /\ UiApart([u EXCEPT !.versions.saving = x])
         /\ UiApart([u EXCEPT !.versions.saving = x, !.versions.modal = y])
         /\ UiApart([u EXCEPT !.versions.restoring = x])
         /\ UiApart([u EXCEPT !.versions.modal = x, !.versions.pending = None])
         /\ Apart(x) => UiApart([u EXCEPT !.versions.pending = x])
         /\ (\A v \in x : Apart(v)) => UiApart([u EXCEPT !.versions.loading = y, !.versions.list = x])
         /\ Apart(x) => UiApart([u EXCEPT !.versions.saving = FALSE, !.versions.modal = FALSE,
                                          !.versions.list = @ \cup {x}])
<1>1. PICK p : p = u.versions
  OBVIOUS
<1>2. /\ Shaped(u, EditorParts) /\ Shaped(p, PanelParts) /\ \A v \in p.list : Apart(v)
      /\ p.pending # None => Apart(p.pending)
  BY <1>1 DEF UiApart
<1>3. ASSUME NEW q, Shaped(q, PanelParts), \A v \in q.list : Apart(v),
             q.pending # None => Apart(q.pending)
      PROVE  UiApart([u EXCEPT !.versions = q])
  BY <1>3, PanelIs
<1>4. /\ UiApart([u EXCEPT !.versions = [p EXCEPT !.loading = x, !.error = y]])
      /\ UiApart([u EXCEPT !.versions = [p EXCEPT !.modal = x]])
      /\ UiApart([u EXCEPT !.versions = [p EXCEPT !.saving = x]])
      /\ UiApart([u EXCEPT !.versions = [p EXCEPT !.saving = x, !.modal = y]])
      /\ UiApart([u EXCEPT !.versions = [p EXCEPT !.restoring = x]])
      /\ UiApart([u EXCEPT !.versions = [p EXCEPT !.modal = x, !.pending = None]])
  BY <1>2, <1>3 DEF Shaped, PanelParts
<1>5. Apart(x) => UiApart([u EXCEPT !.versions = [p EXCEPT !.pending = x]])
  BY <1>2, <1>3 DEF Shaped, PanelParts
<1>6. (\A v \in x : Apart(v)) => UiApart([u EXCEPT !.versions = [p EXCEPT !.loading = y, !.list = x]])
  BY <1>2, <1>3 DEF Shaped, PanelParts
<1>7. Apart(x) => UiApart([u EXCEPT !.versions = [p EXCEPT !.saving = FALSE, !.modal = FALSE,
                                                         !.list = @ \cup {x}]])
  BY <1>2, <1>3 DEF Shaped, PanelParts
<1> HIDE DEF UiApart
<1>8. u.versions = p /\ DOMAIN u = EditorParts /\ u = [z \in EditorParts |-> u[z]]
  BY <1>1, <1>2 DEF Shaped
<1>9. /\ [u EXCEPT !.versions = [p EXCEPT !.loading = x, !.error = y]]
           = [u EXCEPT !.versions.loading = x, !.versions.error = y]
      /\ [u EXCEPT !.versions = [p EXCEPT !.modal = x]] = [u EXCEPT !.versions.modal = x]
      /\ [u EXCEPT !.versions = [p EXCEPT !.saving = x]] = [u EXCEPT !.versions.saving = x]
      /\ [u EXCEPT !.versions = [p EXCEPT !.saving = x, !.modal = y]]
           = [u EXCEPT !.versions.saving = x, !.versions.modal = y]
      /\ [u EXCEPT !.versions = [p EXCEPT !.restoring = x]] = [u EXCEPT !.versions.restoring = x]
      /\ [u EXCEPT !.versions = [p EXCEPT !.modal = x, !.pending = None]]
           = [u EXCEPT !.versions.modal = x, !.versions.pending = None]
      /\ [u EXCEPT !.versions = [p EXCEPT !.pending = x]] = [u EXCEPT !.versions.pending = x]
      /\ [u EXCEPT !.versions = [p EXCEPT !.loading = y, !.list = x]]
           = [u EXCEPT !.versions.loading = y, !.versions.list = x]
      /\ [u EXCEPT !.versions = [p EXCEPT !.saving = FALSE, !.modal = FALSE, !.list = @ \cup {x}]]
           = [u EXCEPT !.versions.saving = FALSE, !.versions.modal = FALSE,
                       !.versions.list = @ \cup {x}]
  BY <1>8 DEF EditorParts
<1> QED
  BY <1>4, <1>5, <1>6, <1>7, <1>9

\* Clicks that change the screen only.
LEMMA ScreenKeeps ==
  ASSUME EditorInv,
         \/ ToggleEdit \/ OpenAdd \/ CloseAdd \/ ChooseAddMode \/ CancelDeleteWidget
         \/ CloseSettings \/ OpenVersionForm \/ CloseVersionModal
         \/ \E i \in Items : AskDeleteWidget(i) \/ OpenSettings(i)
         \/ \E layout \in ui.versions.list : AskRestore(layout)
  PROVE  EditorInv'
<1>1. db' = db /\ calls' = calls
  BY DEF ToggleEdit, OpenAdd, CloseAdd, ChooseAddMode, CancelDeleteWidget, CloseSettings,
         OpenVersionForm, CloseVersionModal, AskDeleteWidget, OpenSettings, AskRestore, Local
<1> SUFFICES ASSUME ~db.loose PROVE UiApart(ui')
  BY <1>1, ClickedKeeps
<1>2. UiApart(ui) /\ \A v \in ui.versions.list : Apart(v)
  BY DEF EditorInv, UiApart
<1>3. CASE ToggleEdit \/ OpenAdd \/ CloseAdd \/ ChooseAddMode \/ CancelDeleteWidget \/ CloseSettings
  <2>1. PICK x : \/ ui' = [ui EXCEPT !.edit = x] \/ ui' = [ui EXCEPT !.add = x]
                 \/ ui' = [ui EXCEPT !.confirm = None] \/ ui' = [ui EXCEPT !.settings = None]
    BY <1>3 DEF ToggleEdit, OpenAdd, CloseAdd, ChooseAddMode, CancelDeleteWidget, CloseSettings
  <2>2. /\ UiApart([ui EXCEPT !.edit = x]) /\ UiApart([ui EXCEPT !.add = x])
        /\ UiApart([ui EXCEPT !.confirm = None]) /\ UiApart([ui EXCEPT !.settings = None])
    BY <1>2, UiIs
  <2> QED
    BY <2>1, <2>2, Zenon
<1>4. CASE OpenVersionForm \/ CloseVersionModal
  <2>1. /\ UiApart([ui EXCEPT !.versions.modal = TRUE])
        /\ UiApart([ui EXCEPT !.versions.modal = FALSE, !.versions.pending = None])
    BY <1>2, PanelPartsAre
  <2> QED
    BY <1>4, <2>1 DEF OpenVersionForm, CloseVersionModal
<1>5. ASSUME NEW i \in Items, AskDeleteWidget(i) \/ OpenSettings(i) PROVE UiApart(ui')
  <2>1. ui.widgets[i] # None
    BY <1>5 DEF AskDeleteWidget, OpenSettings
  <2>2. /\ UiApart([ui EXCEPT !.confirm = [on |-> i, base |-> ui.widgets]])
        /\ UiApart([ui EXCEPT !.settings = [on |-> i, widget |-> ui.widgets[i]]])
    BY <1>2, <2>1, QuestionsAre
  <2> QED
    BY <1>5, <2>2, Zenon DEF AskDeleteWidget, OpenSettings
<1>6. ASSUME NEW layout \in ui.versions.list, AskRestore(layout) PROVE UiApart(ui')
  BY <1>2, <1>6, PanelPartsAre DEF AskRestore
<1> QED
  BY <1>3, <1>4, <1>5, <1>6

\* Clicks that send the list of all widgets.
LEMMA ChangesKeep ==
  ASSUME EditorInv,
         \/ \E i \in Items, size \in Sizes : AddWidget(i, size)
         \/ \E i \in Items, j \in Items : SwapWidgets(i, j)
         \/ DeleteWidget \/ SaveSettings
  PROVE  EditorInv'
<1>1. /\ db' = db
      /\ ui' = ui \/ ui' = [ui EXCEPT !.confirm = None]
  BY DEF AddWidget, SwapWidgets, DeleteWidget, SaveSettings, Calling
<1>2. ~db.loose => UiApart(ui) /\ UiApart(ui')
  BY <1>1, UiIs DEF EditorInv
<1>3. ASSUME NEW layout, NEW after, NEW loose, Put(layout, after, loose),
             db.loose \/ loose \/ Apart(layout)
      PROVE  EditorInv'
  <2>1. PICK arg : arg = [widgets |-> layout, after |-> after, loose |-> loose]
    OBVIOUS
  <2>2. arg.widgets = layout /\ arg.loose = loose
    BY <2>1
  <2>3. Send("putWidgets", None, arg) /\ (db.loose \/ SendsApart("putWidgets", arg))
    BY <1>3, <2>1, <2>2 DEF Put, SendsApart
  <2> QED
    BY <1>1, <1>2, <2>3, ClickedKeeps
<1>4. ASSUME NEW i \in Items, NEW size \in Sizes, AddWidget(i, size) PROVE EditorInv'
  <2>1. db.loose \/ Apart(WithNew(ui.widgets, i, size))
    BY <1>2, NewApart DEF UiApart
  <2> QED
    BY <1>3, <1>4, <2>1 DEF AddWidget
<1>5. ASSUME NEW i \in Items, NEW j \in Items, SwapWidgets(i, j) PROVE EditorInv'
  <2> DEFINE a == ui.widgets[i]
             b == ui.widgets[j]
             next == [ui.widgets EXCEPT ![i] = [a EXCEPT !.x = b.x, !.y = b.y],
                                        ![j] = [b EXCEPT !.x = a.x, !.y = a.y]]
             loose == <<a.w, a.h>> # <<b.w, b.h>>
  <2>1. i # j /\ i \in Placed(ui.widgets) /\ j \in Placed(ui.widgets) /\ Put(next, "swap", loose)
    BY <1>5 DEF SwapWidgets, Placed
  <2>2. db.loose \/ loose \/ Apart(next)
    BY <1>2, <2>1, SwapApart DEF UiApart
  <2> QED
    BY <1>3, <2>1, <2>2
<1>6. CASE DeleteWidget
  <2> DEFINE base == [ui.confirm.base EXCEPT ![ui.confirm.on] = None]
  <2>1. Put(Repack(base), "delete", FALSE) /\ ui.confirm # None
    BY <1>6 DEF DeleteWidget
  <2>2. db.loose \/ base \in Layouts
    BY <1>2, <2>1 DEF UiApart, Apart, Layouts
  <2>3. db.loose \/ Apart(Repack(base))
    BY <2>2, RepackApart
  <2> QED
    BY <1>3, <2>1, <2>3
<1>7. CASE SaveSettings
  <2> DEFINE i    == ui.settings.on
             old  == ui.settings.widget
             now  == ui.widgets[i]
             next == [ui.widgets EXCEPT ![i] = [old EXCEPT !.version = @ + 1]]
             loose == <<old.x, old.y, old.w, old.h>> # <<now.x, now.y, now.w, now.h>>
  <2>1. CASE now = None
    <3>1. Put(ui.widgets, "settings", FALSE)
      BY <1>7, <2>1 DEF SaveSettings
    <3> QED
      BY <1>2, <1>3, <3>1 DEF UiApart
  <2>2. CASE now # None
    <3>1. Put(next, "settings", loose) /\ ui.settings # None
      BY <1>7, <2>2 DEF SaveSettings
    <3>2. ASSUME ~db.loose, ~loose PROVE Apart(next)
      <4>1. Apart(ui.widgets) /\ old \in Widget
        BY <1>2, <3>1, <3>2 DEF UiApart
      <4>2. CASE i \in Items
        BY <2>2, <3>2, <4>1, <4>2, SettingsApart DEF Placed
      <4>3. CASE i \notin Items
        <5>1. next = ui.widgets
          BY <4>1, <4>3 DEF Apart, Layouts
        <5> QED
          BY <4>1, <5>1
      <4> QED
        BY <4>2, <4>3
    <3> QED
      BY <1>3, <3>1, <3>2
  <2> QED
    BY <2>1, <2>2
<1> QED
  BY <1>4, <1>5, <1>6, <1>7

LEMMA RenamedIs ==
  ASSUME NEW c, EditorCall(c), NEW op \in {"latePut", "lateVersion", "lateRestore"}
  PROVE  LET d == [c EXCEPT !.op = op]
         IN  EditorCall(d) /\ (CallApart(c) /\ (SendsApart(c.op, c.arg) => SendsApart(op, c.arg)) => CallApart(d))
<1>1. PICK d : d = [c EXCEPT !.op = op]
  OBVIOUS
<1>2. IsCall(d) /\ d.op = op /\ d.arg = c.arg
  BY <1>1 DEF EditorCall, IsCall, Shaped
<1>3. EditorCall(d) /\ (CallApart(c) /\ (SendsApart(c.op, c.arg) => SendsApart(op, c.arg)) => CallApart(d))
  BY <1>2 DEF EditorCall, CallApart
<1> QED
  BY <1>1, <1>3

\* Calls that go on without the panel, or without the page, carry what they carried.
LEMMA LateAre ==
  ASSUME NEW cs, \A c \in cs : EditorCall(c)
  PROVE  /\ \A d \in WithoutPanel(cs) :
              EditorCall(d) /\ ((\A c \in cs : CallApart(c)) => CallApart(d))
         /\ \A d \in Abandoned(cs) :
              EditorCall(d) /\ ((\A c \in cs : CallApart(c)) => CallApart(d))
<1>1. ASSUME NEW d \in WithoutPanel(cs)
      PROVE  EditorCall(d) /\ ((\A c \in cs : CallApart(c)) => CallApart(d))
  <2>1. PICK c \in cs : \/ d = c
                        \/ c.op = "saveVersion" /\ d = [c EXCEPT !.op = "lateVersion"]
                        \/ c.op = "restoreVersion" /\ d = [c EXCEPT !.op = "lateRestore"]
    BY DEF WithoutPanel
  <2>2. c.op = "saveVersion" => (SendsApart(c.op, c.arg) => SendsApart("lateVersion", c.arg))
    BY DEF SendsApart
  <2>3. c.op = "restoreVersion" => (SendsApart(c.op, c.arg) => SendsApart("lateRestore", c.arg))
    BY DEF SendsApart
  <2> QED
    BY <2>1, <2>2, <2>3, RenamedIs
<1>2. ASSUME NEW d \in Abandoned(cs)
      PROVE  EditorCall(d) /\ ((\A c \in cs : CallApart(c)) => CallApart(d))
  <2>1. PICK c \in cs : \/ c.op = "putWidgets" /\ d = [c EXCEPT !.op = "latePut"]
                        \/ c.op = "saveVersion" /\ d = [c EXCEPT !.op = "lateVersion"]
    BY DEF Abandoned
  <2>2. c.op = "saveVersion" => (SendsApart(c.op, c.arg) => SendsApart("lateVersion", c.arg))
    BY DEF SendsApart
  <2>3. c.op = "putWidgets" => (SendsApart(c.op, c.arg) => SendsApart("latePut", c.arg))
    BY DEF SendsApart
  <2> QED
    BY <2>1, <2>2, <2>3, RenamedIs
<1> QED
  BY <1>1, <1>2

\* The other clicks that send a call.
LEMMA PanelKeeps ==
  ASSUME EditorInv,
         AskAI \/ ToggleVersions \/ RetryVersions \/ SaveVersion \/ ConfirmRestore
  PROVE  EditorInv'
<1>1. db' = db
  BY DEF AskAI, ToggleVersions, RetryVersions, SaveVersion, ConfirmRestore, Calling
<1>2. ~db.loose => /\ UiApart(ui) /\ Apart(ui.widgets)
                   /\ ui.versions.pending # None => Apart(ui.versions.pending)
  BY DEF EditorInv, UiApart
<1>3. SendsApart("loadVersions", None)
  BY DEF SendsApart
<1>4. ASSUME NEW arg, NEW layout, arg.widgets = layout, db.loose \/ Apart(layout),
             NEW op \in {"textToWidget", "saveVersion", "restoreVersion"}
      PROVE  db.loose \/ SendsApart(op, arg)
  BY <1>4 DEF SendsApart
<1>5. CASE AskAI
  <2>1. PICK arg : arg = [widgets |-> ui.widgets, after |-> "ask"]
    OBVIOUS
  <2>2. Send("textToWidget", None, arg) /\ ui' = [ui EXCEPT !.asking = TRUE]
    BY <1>5, <2>1 DEF AskAI
  <2>3. db.loose \/ UiApart(ui')
    BY <1>2, <2>2, UiIs
  <2>4. db.loose \/ SendsApart("textToWidget", arg)
    BY <1>2, <1>4, <2>1
  <2> QED
    BY <1>1, <2>2, <2>3, <2>4, ClickedKeeps
<1>6. CASE SaveVersion
  <2>1. PICK arg : arg = [widgets |-> ui.widgets]
    OBVIOUS
  <2>2. Send("saveVersion", None, arg) /\ ui' = [ui EXCEPT !.versions.saving = TRUE]
    BY <1>6, <2>1 DEF SaveVersion
  <2>3. db.loose \/ UiApart(ui')
    BY <1>2, <2>2, PanelPartsAre
  <2>4. db.loose \/ SendsApart("saveVersion", arg)
    BY <1>2, <1>4, <2>1
  <2> QED
    BY <1>1, <2>2, <2>3, <2>4, ClickedKeeps
<1>7. CASE ConfirmRestore
  <2>1. PICK arg : arg = [widgets |-> ui.versions.pending]
    OBVIOUS
  <2>2. /\ Send("restoreVersion", None, arg) /\ ui' = [ui EXCEPT !.versions.restoring = TRUE]
        /\ ui.versions.pending # None
    BY <1>7, <2>1 DEF ConfirmRestore
  <2>3. db.loose \/ UiApart(ui')
    BY <1>2, <2>2, PanelPartsAre
  <2>4. db.loose \/ SendsApart("restoreVersion", arg)
    BY <1>2, <1>4, <2>1, <2>2
  <2> QED
    BY <1>1, <2>2, <2>3, <2>4, ClickedKeeps
<1>8. CASE RetryVersions
  <2>1. /\ Send("loadVersions", None, None)
        /\ ui' = [ui EXCEPT !.versions.loading = TRUE, !.versions.error = FALSE]
    BY <1>8 DEF RetryVersions
  <2>2. db.loose \/ UiApart(ui')
    BY <1>2, <2>1, PanelPartsAre
  <2> QED
    BY <1>1, <1>3, <2>1, <2>2, ClickedKeeps
<1>9. CASE ToggleVersions
  <2>1. \/ ui' = [ui EXCEPT !.versions = ClosedVersions] /\ calls' = WithoutPanel(calls)
        \/ ui' = [ui EXCEPT !.versions = OpenVersions] /\ Send("loadVersions", None, None)
    BY <1>9 DEF ToggleVersions
  <2>2. ~db.loose => /\ UiApart([ui EXCEPT !.versions = ClosedVersions])
                     /\ UiApart([ui EXCEPT !.versions = OpenVersions])
    BY <1>2, PanelIs, PanelsAre
  <2>3. db.loose \/ UiApart(ui')
    BY <2>1, <2>2
  <2>4. \A d \in WithoutPanel(calls) : EditorCall(d) /\ (db.loose \/ CallApart(d))
    BY LateAre DEF EditorInv
  <2>5. CASE calls' = WithoutPanel(calls)
    BY <1>1, <2>3, <2>4, <2>5, EditorKeeps
  <2>6. CASE Send("loadVersions", None, None)
    BY <1>1, <1>3, <2>3, <2>6, ClickedKeeps
  <2> QED
    BY <2>1, <2>5, <2>6
<1> QED
  BY <1>5, <1>6, <1>7, <1>8, <1>9

LEMMA EditorAnswersKeep ==
  ASSUME EditorInv, page = "editor", EditorAnswers
  PROVE  EditorInv'
<1>1. ASSUME NEW op, NEW c \in Settled(op)
      PROVE  /\ c \in calls /\ EditorCall(c) /\ c.op = op
             /\ ~db.loose => CallApart(c) /\ UiApart(ui)
  BY DEF Settled, Answered, Refused, EditorInv
<1>2. ASSUME NEW c, db' = db, Done(c), db.loose \/ UiApart(ui')
      PROVE  EditorInv'
  BY <1>2, EditorKeeps DEF Done
<1>3. ASSUME NEW c \in Settled("loadDashboard"), EditorLoaded(c) PROVE EditorInv'
  <2>1. ASSUME ~db.loose PROVE UiApart(ui')
    <3>1. CASE c.stage = "ok"
      <4>1. PICK u : u = [ui EXCEPT !.loading = FALSE] /\ UiApart(u)
        BY <1>1, <2>1, UiIs
      <4>2. Apart(c.ans.widgets)
        BY <1>1, <2>1, <3>1 DEF CallApart
      <4>3. ui' = [u EXCEPT !.widgets = c.ans.widgets]
        BY <1>3, <3>1, <4>1 DEF EditorLoaded
      <4> QED
        BY <4>1, <4>2, <4>3, WidgetsAre
    <3>2. CASE c.stage # "ok"
      <4>1. PICK u : u = [ui EXCEPT !.loading = FALSE] /\ UiApart(u)
        BY <1>1, <2>1, UiIs
      <4>2. ui' = [u EXCEPT !.error = TRUE]
        BY <1>3, <3>2, <4>1 DEF EditorLoaded
      <4> QED
        BY <4>1, <4>2, UiIs
    <3> QED
      BY <3>1, <3>2
  <2> QED
    BY <1>2, <1>3, <2>1 DEF EditorLoaded, Handling
<1>4. ASSUME NEW c \in Settled("textToWidget"), AIAnswered(c) PROVE EditorInv'
  <2>1. CASE c.stage = "failed"
    <3>1. ui' = [ui EXCEPT !.asking = FALSE] /\ Done(c) /\ db' = db
      BY <1>4, <2>1 DEF AIAnswered, Handling
    <3> QED
      BY <1>1, <1>2, <3>1, UiIs
  <2>2. CASE c.stage # "failed"
    <3>0. PICK i \in Items :
            /\ Then(c, "putWidgets", None,
                    [widgets |-> WithNew(c.arg.widgets, i, c.ans.size), after |-> "ai",
                     loose |-> FALSE])
            /\ ui' = ui /\ db' = db
      BY <1>4, <2>2 DEF AIAnswered, Handling
    <3>1. PICK arg :
            /\ arg = [widgets |-> WithNew(c.arg.widgets, i, c.ans.size), after |-> "ai",
                      loose |-> FALSE]
            /\ Then(c, "putWidgets", None, arg) /\ ui' = ui /\ db' = db
      BY <3>0, Zenon
    <3>2. arg.widgets = WithNew(c.arg.widgets, i, c.ans.size)
      BY <3>1
    <3>3. ~db.loose => Apart(c.arg.widgets) /\ c.ans.size \in Sizes
      BY <1>1, <2>2 DEF CallApart, SendsApart, Settled, Answered, Refused
    <3>4. db.loose \/ SendsApart("putWidgets", arg)
      BY <3>2, <3>3, NewApart DEF SendsApart
    <3>5. calls' = (calls \ {c}) \cup {Request("putWidgets", None, arg, calls \ {c})}
      BY <3>1 DEF Then, SendAlso
    <3>6. /\ EditorCall(Request("putWidgets", None, arg, calls \ {c}))
          /\ db.loose \/ CallApart(Request("putWidgets", None, arg, calls \ {c}))
      BY <3>4, SendsIs
    <3> QED
      BY <1>1, <3>1, <3>5, <3>6, EditorKeeps
  <2> QED
    BY <2>1, <2>2
<1>5. ASSUME NEW c \in Settled("putWidgets"), WidgetsPut(c) PROVE EditorInv'
  <2>1. PICK x, y, z, u : /\ u = [ui EXCEPT !.add = x, !.settings = y, !.asking = z]
                          /\ y \in {None, ui.settings}
                          /\ ui' = IF c.stage = "ok" THEN [u EXCEPT !.widgets = c.ans.widgets]
                                   ELSE [u EXCEPT !.error = TRUE, !.versions = ClosedVersions]
    BY <1>5 DEF WidgetsPut
  <2>2. ASSUME ~db.loose PROVE UiApart(ui')
    <3>1. UiApart(u)
      BY <1>1, <2>1, <2>2 DEF UiApart, Shaped, EditorParts
    <3>2. c.stage = "ok" => Apart(c.ans.widgets)
      BY <1>1, <2>2 DEF CallApart
    <3>3. UiApart([[u EXCEPT !.error = TRUE] EXCEPT !.versions = ClosedVersions])
      BY <3>1, UiIs, PanelIs, PanelsAre
    <3> QED
      BY <2>1, <3>1, <3>2, <3>3, WidgetsAre
  <2>3. calls' = calls \ {c} \/ calls' = WithoutPanel(calls \ {c})
    BY <1>5 DEF WidgetsPut
  <2>4. \A d \in WithoutPanel(calls \ {c}) : EditorCall(d) /\ (db.loose \/ CallApart(d))
    <3>1. \A d \in calls \ {c} : EditorCall(d) /\ (db.loose \/ CallApart(d))
      BY DEF EditorInv
    <3> QED
      BY <3>1, LateAre
  <2> QED
    BY <1>5, <2>2, <2>3, <2>4, EditorKeeps DEF WidgetsPut, Handling
<1>6. ASSUME NEW c \in Settled("loadVersions"), VersionsLoaded(c) PROVE EditorInv'
  <2>1. ASSUME ~db.loose PROVE UiApart(ui')
    <3>1. CASE c.stage = "ok"
      <4>1. \A v \in c.ans.list : Apart(v)
        BY <1>1, <2>1, <3>1 DEF CallApart
      <4> QED
        BY <1>1, <1>6, <2>1, <3>1, <4>1, PanelPartsAre DEF VersionsLoaded
    <3>2. CASE c.stage # "ok"
      BY <1>1, <1>6, <2>1, <3>2, PanelPartsAre DEF VersionsLoaded
    <3> QED
      BY <3>1, <3>2
  <2> QED
    BY <1>2, <1>6, <2>1 DEF VersionsLoaded, Handling
<1>7. ASSUME NEW c \in Settled("saveVersion"), VersionSaved(c) PROVE EditorInv'
  <2>1. ASSUME ~db.loose PROVE UiApart(ui')
    <3>1. CASE c.stage = "ok"
      <4>1. Apart(c.ans.widgets)
        BY <1>1, <2>1, <3>1 DEF CallApart
      <4> QED
        BY <1>1, <1>7, <2>1, <3>1, <4>1, PanelPartsAre DEF VersionSaved
    <3>2. CASE c.stage # "ok"
      BY <1>1, <1>7, <2>1, <3>2, PanelPartsAre DEF VersionSaved
    <3> QED
      BY <3>1, <3>2
  <2> QED
    BY <1>2, <1>7, <2>1 DEF VersionSaved, Handling
<1>8. ASSUME NEW c \in Settled("restoreVersion") \cup Settled("lateRestore"), VersionRestored(c)
      PROVE EditorInv'
  <2>1. db' = db /\ (~db.loose => UiApart(ui))
    BY <1>1, <1>8 DEF VersionRestored, Handling
  <2>2. CASE c.stage = "ok"
    <3>1. ui' = EditorStart /\ UiApart(ui')
      BY <1>8, <2>2, EditorStartIs DEF VersionRestored
    <3>2. PICK others : /\ others = Abandoned(calls \ {c})
                        /\ calls' = others \cup {Request("loadDashboard", None, None, others)}
      BY <1>8, <2>2 DEF VersionRestored, SendAlso
    <3>3. \A d \in others : EditorCall(d) /\ (db.loose \/ CallApart(d))
      <4>1. \A d \in calls \ {c} : EditorCall(d) /\ (db.loose \/ CallApart(d))
        BY DEF EditorInv
      <4> QED
        BY <3>2, <4>1, LateAre
    <3>4. /\ EditorCall(Request("loadDashboard", None, None, others))
          /\ CallApart(Request("loadDashboard", None, None, others))
      BY SendsIs DEF SendsApart
    <3> QED
      BY <2>1, <3>1, <3>2, <3>3, <3>4, EditorKeeps
  <2>3. CASE c.stage # "ok"
    <3>1. Done(c) /\ (ui' = ui \/ ui' = [ui EXCEPT !.versions.restoring = FALSE])
      BY <1>8, <2>3 DEF VersionRestored
    <3>2. ~db.loose => UiApart([ui EXCEPT !.versions.restoring = FALSE])
      BY <2>1, PanelPartsAre
    <3> QED
      BY <1>2, <2>1, <3>1, <3>2
  <2> QED
    BY <2>2, <2>3
<1>9. ASSUME NEW c \in InFlight({"latePut", "lateVersion"}), DropLate(c) PROVE EditorInv'
  <2>1. Done(c) /\ ui' = ui /\ db' = db
    BY <1>9 DEF DropLate, Handling
  <2> QED
    BY <1>2, <2>1 DEF EditorInv
<1> QED
  BY <1>3, <1>4, <1>5, <1>6, <1>7, <1>8, <1>9 DEF EditorAnswers

\* What the server makes of one request: the store keeps layouts that were sent to it,
\* and answers with those it keeps.
LEMMA OutcomeApart ==
  ASSUME EditorInv, NEW c \in calls, NEW o \in EditorServer(c)
  PROVE  /\ Shaped(o.db, {"widgets", "versions", "loose"})
         /\ db.loose => o.db.loose
         /\ ~o.db.loose => /\ Apart(o.db.widgets) /\ \A v \in o.db.versions : Apart(v)
                           /\ c.op \in {"loadDashboard", "putWidgets", "saveVersion"} =>
                                Apart(o.ans.widgets)
                           /\ c.op = "loadVersions" => \A v \in o.ans.list : Apart(v)
                           /\ c.op = "textToWidget" => o.ans.size \in Sizes
<1>1. /\ Shaped(db, {"widgets", "versions", "loose"}) /\ EditorCall(c)
      /\ ~db.loose => /\ Apart(db.widgets) /\ \A v \in db.versions : Apart(v)
                      /\ SendsApart(c.op, c.arg)
  BY DEF EditorInv, CallApart
<1>2. ASSUME NEW store, NEW reply
      PROVE  Outcome(store, reply).db = store /\ Outcome(store, reply).ans = reply
  BY DEF Outcome
<1>3. CASE c.op = "loadDashboard"
  <2>1. o = Outcome(db, [widgets |-> db.widgets])
    BY <1>3 DEF EditorServer
  <2>2. o.db = db /\ o.ans.widgets = db.widgets
    BY <1>2, <2>1
  <2> QED
    BY <1>1, <1>3, <2>2
<1>4. CASE c.op = "loadVersions"
  <2>1. o = Outcome(db, [list |-> db.versions])
    BY <1>4 DEF EditorServer
  <2>2. o.db = db /\ o.ans.list = db.versions
    BY <1>2, <2>1
  <2> QED
    BY <1>1, <1>4, <2>2
<1>5. CASE c.op = "textToWidget"
  <2>1. PICK s \in Sizes : o = Outcome(db, [size |-> s])
    BY <1>5 DEF EditorServer
  <2>2. o.db = db /\ o.ans.size = s
    BY <1>2, <2>1
  <2> QED
    BY <1>1, <1>5, <2>2
<1>6. CASE c.op \in {"putWidgets", "latePut"}
  <2>1. PICK store : /\ store = [db EXCEPT !.widgets = c.arg.widgets, !.loose = @ \/ c.arg.loose]
                     /\ o = Outcome(store, [widgets |-> c.arg.widgets])
    BY <1>6 DEF EditorServer
  <2>2. o.db = store /\ o.ans.widgets = c.arg.widgets
    BY <1>2, <2>1
  <2>3. /\ Shaped(store, {"widgets", "versions", "loose"})
        /\ store.widgets = c.arg.widgets /\ store.versions = db.versions
        /\ store.loose = (db.loose \/ c.arg.loose)
    BY <1>1, <2>1 DEF Shaped
  <2> QED
    BY <1>1, <1>6, <2>2, <2>3 DEF SendsApart
<1>7. CASE c.op \in {"saveVersion", "lateVersion"}
  <2>1. PICK store : /\ store = [db EXCEPT !.versions = @ \cup {c.arg.widgets}]
                     /\ o = Outcome(store, [widgets |-> c.arg.widgets])
    BY <1>7 DEF EditorServer
  <2>2. o.db = store /\ o.ans.widgets = c.arg.widgets
    BY <1>2, <2>1
  <2>3. /\ Shaped(store, {"widgets", "versions", "loose"}) /\ store.loose = db.loose
        /\ store.widgets = db.widgets /\ store.versions = db.versions \cup {c.arg.widgets}
    BY <1>1, <2>1 DEF Shaped
  <2> QED
    BY <1>1, <1>7, <2>2, <2>3 DEF SendsApart
<1>8. CASE c.op \in {"restoreVersion", "lateRestore"}
  <2>1. PICK store : store = [db EXCEPT !.widgets = c.arg.widgets] /\ o = Outcome(store, Ok)
    BY <1>8 DEF EditorServer
  <2>2. o.db = store
    BY <1>2, <2>1
  <2>3. /\ Shaped(store, {"widgets", "versions", "loose"}) /\ store.loose = db.loose
        /\ store.widgets = c.arg.widgets /\ store.versions = db.versions
    BY <1>1, <2>1 DEF Shaped
  <2> QED
    BY <1>1, <1>8, <2>2, <2>3 DEF SendsApart
<1> QED
  BY <1>1, <1>3, <1>4, <1>5, <1>6, <1>7, <1>8 DEF EditorCall

LEMMA EditorServeKeeps ==
  ASSUME EditorInv, NEW c \in calls, NEW o \in EditorServer(c), Serve(c, o)
  PROVE  EditorInv'
<1>1. PICK d : d = [c EXCEPT !.stage = IF o.ans = None THEN "failed" ELSE "ok", !.ans = o.ans]
  OBVIOUS
<1>2. ui' = ui /\ db' = o.db /\ calls' = (calls \ {c}) \cup {d}
  BY <1>1 DEF Serve
<1>3. EditorCall(c)
  BY DEF EditorInv
<1>4. EditorCall(d) /\ d.op = c.op /\ d.arg = c.arg /\ d.ans = o.ans
  BY <1>1, <1>3 DEF EditorCall, IsCall, Shaped
<1>5. ASSUME ~o.db.loose PROVE CallApart(d)
  <2>1. SendsApart(c.op, c.arg)
    BY <1>5, OutcomeApart DEF EditorInv, CallApart
  <2> QED
    BY <1>4, <1>5, <2>1, OutcomeApart DEF CallApart
<1> QED
  BY <1>2, <1>4, <1>5, OutcomeApart DEF EditorInv

LEMMA EditorStep ==
  ASSUME EditorInv, page = "editor", EditorNext \/ \E c \in calls : Refuse(c)
  PROVE  EditorInv'
<1>1. CASE EditorClicks
  <2>1. ASSUME NEW i \in Items, NEW j \in Items, SwapWidgets(i, j) PROVE EditorInv'
    BY <2>1, ChangesKeep
  <2>2. ASSUME NEW i \in Items, NEW size \in Sizes, AddWidget(i, size) PROVE EditorInv'
    BY <2>2, ChangesKeep
  <2>3. ASSUME NEW i \in Items, AskDeleteWidget(i) \/ OpenSettings(i) PROVE EditorInv'
    BY <2>3, ScreenKeeps
  <2>4. ASSUME NEW layout \in ui.versions.list, AskRestore(layout) PROVE EditorInv'
    BY <2>4, ScreenKeeps
  <2> QED
    BY <1>1, <2>1, <2>2, <2>3, <2>4, ScreenKeeps, ChangesKeep, PanelKeeps DEF EditorClicks
<1>2. ASSUME NEW c \in calls, Refuse(c) PROVE EditorInv'
  <2>1. PICK d : d = [c EXCEPT !.stage = "failed"]
    OBVIOUS
  <2>2. ui' = ui /\ db' = db /\ calls' = (calls \ {c}) \cup {d}
    BY <1>2, <2>1 DEF Refuse
  <2>3. EditorCall(c) /\ (db.loose \/ (CallApart(c) /\ UiApart(ui)))
    BY DEF EditorInv
  <2>4. EditorCall(d) /\ d.op = c.op /\ d.arg = c.arg /\ d.stage = "failed"
    BY <2>1, <2>3 DEF EditorCall, IsCall, Shaped
  <2>5. db.loose \/ CallApart(d)
    BY <2>3, <2>4 DEF CallApart
  <2> QED
    BY <2>2, <2>3, <2>4, <2>5, EditorKeeps
<1> QED
  BY <1>1, <1>2, EditorAnswersKeep, EditorServeKeeps DEF EditorNext

LEMMA EditorOpened ==
  ASSUME EditorInit
  PROVE  EditorInv
<1>0. PICK first \in Existing, second \in Existing :
        db = [widgets |-> [i \in Items |-> IF i = first THEN NewWidget(<<3, 2>>, <<0, 0>>)
                                           ELSE IF i = second THEN NewWidget(<<6, 3>>, <<0, 3>>)
                                           ELSE None],
              versions |-> {NoWidgets}, loose |-> FALSE]
  BY DEF EditorInit
<1>1. PICK layout :
        /\ layout = [i \in Items |-> IF i = first THEN NewWidget(<<3, 2>>, <<0, 0>>)
                                     ELSE IF i = second THEN NewWidget(<<6, 3>>, <<0, 3>>)
                                     ELSE None]
        /\ db = [widgets |-> layout, versions |-> {NoWidgets}, loose |-> FALSE]
  BY <1>0, Zenon
<1>2. /\ Shaped(db, {"widgets", "versions", "loose"})
      /\ db.widgets = layout /\ db.versions = {NoWidgets}
  BY <1>1 DEF Shaped
<1>3. Apart(NoWidgets)
  BY DEF Apart, NoWidgets, Layouts, Placed
<1>4. Apart(layout)
  <2>1. PICK a, b : a = NewWidget(<<3, 2>>, <<0, 0>>) /\ b = NewWidget(<<6, 3>>, <<0, 3>>)
    OBVIOUS
  <2>2. a \in Widget /\ b \in Widget /\ ~Covers(a, b) /\ ~Covers(b, a)
    BY <2>1 DEF NewWidget, Widget, Covers, Beside
  <2>3. layout \in Layouts /\ \A i \in Placed(layout) : \/ i = first /\ layout[i] = a
                                                        \/ i = second /\ layout[i] = b
    BY <1>1, <2>1, <2>2 DEF Layouts, Placed
  <2> QED
    BY <2>2, <2>3 DEF Apart
<1>5. EditorCall(Request("loadDashboard", None, None, {}))
      /\ CallApart(Request("loadDashboard", None, None, {}))
  BY SendsIs DEF SendsApart
<1> QED
  BY <1>2, <1>3, <1>4, <1>5, EditorStartIs DEF EditorInv, EditorInit

LEMMA EditorMeans ==
  EditorInv => (~db.loose => \A i, j \in Placed(db.widgets) : i # j => ~Covers(db.widgets[i], db.widgets[j]))
BY DEF EditorInv, Apart

-----------------------------------------------------------------------------
(* The web client                                                           *)

WebInv ==
  /\ page = "session" => SessionInv
  /\ page = "form" => FormInv
  /\ page = "views" => ViewsInv
  /\ page = "shell" => ShellInv
  /\ page = "flat" => FlatInv
  /\ page = "webgl" => WebglInv
  /\ page = "city" => CityInv
  /\ page = "pulse" => PulseInv
  /\ page = "editor" => EditorInv

\* How these pages are opened.
LEMMA OpenedBy ==
  ASSUME Init
  PROVE  /\ clicks = 0 /\ faults = 0
         /\ page = "session" => \E path, t, demo : SessionInit(path, t, demo)
         /\ page = "form" => ConnectorFormInit
         /\ page = "views" => \E view \in DOMAIN Views, log \in Projects : ViewsInit(view, log)
         /\ page = "shell" => \E log \in Existing \cup {None}, all \in SUBSET Projects :
                               \E last : ShellInit(last, log, all)
         /\ page = "flat" => \E m \in GivenMaps : FlatInit(m)
         /\ page = "webgl" => \E m : WebglInit(m)
         /\ page = "city" => \E m \in GivenMaps : CityInit(m)
         /\ page = "pulse" => \E log \in Projects : \E kept, bare : PulseInit(log, kept, bare)
         /\ page = "editor" => EditorInit
<1>1. clicks = 0 /\ faults = 0
  BY DEF Init
<1>2. \/ \E path, t, demo : SessionInit(path, t, demo)
      \/ ConnectorFormInit
      \/ \E view \in DOMAIN Views, log \in Projects : ViewsInit(view, log)
      \/ \E log \in Existing \cup {None}, all \in SUBSET Projects :
           \E last : ShellInit(last, log, all)
      \/ \E m \in GivenMaps : FlatInit(m) \/ WebglInit(m) \/ CityInit(m)
      \/ \E log \in Projects : \E kept, bare : PulseInit(log, kept, bare)
      \/ EditorInit
      \/ page \notin {"session", "form", "views", "shell", "flat", "webgl", "city", "pulse", "editor"}
  <2>1. ASSUME NEW last \in Projects \cup {None}, NEW log \in Existing \cup {None},
               ShellInit(last, log, {p \in Projects : log = None \/ {p} # {last, ProjectOf[log]}})
        PROVE  \E seen \in Existing \cup {None}, all \in SUBSET Projects :
                 \E before : ShellInit(before, seen, all)
    <3>1. PICK all \in SUBSET Projects :
            all = {p \in Projects : log = None \/ {p} # {last, ProjectOf[log]}}
      OBVIOUS
    <3> QED
      BY <2>1, <3>1
  <2> QED
    BY <2>1 DEF Init, RulesInit, KpisInit, AlertsInit, InboxInit, ChangesInit,
       TemplatesInit, ConnectorsInit, ProjectsInit, DashboardsInit,
       BuilderInit, EntriesInit, CapabilitiesInit, SettingsInit, UsersInit,
       KeysInit, ProcessInit, StoreInit, ChatInit, OcpmInit, HeaderInit, BenchmarkInit, ProjectInit, UploadInit, ReportsInit, MiningInit,
       JourneysInit, InitiativesInit
<1>3. ASSUME NEW path, NEW t, NEW demo, SessionInit(path, t, demo)
      PROVE  page = "session"
  BY <1>3, Zenon DEF SessionInit
<1>4. ConnectorFormInit => page = "form"
  BY Zenon DEF ConnectorFormInit
<1>5. ASSUME NEW view, NEW log, ViewsInit(view, log)
      PROVE  page = "views"
  BY <1>5, Zenon DEF ViewsInit
<1>6. ASSUME NEW last, NEW log, NEW all, ShellInit(last, log, all)
      PROVE  page = "shell"
  BY <1>6, Zenon DEF ShellInit
<1>7. ASSUME NEW m
      PROVE  /\ FlatInit(m) => page = "flat"
             /\ WebglInit(m) => page = "webgl"
             /\ CityInit(m) => page = "city"
  BY Zenon DEF FlatInit, WebglInit, CityInit
<1>8. ASSUME NEW log, NEW kept, NEW bare, PulseInit(log, kept, bare)
      PROVE  page = "pulse"
  BY <1>8, Zenon DEF PulseInit
<1>9. EditorInit => page = "editor"
  BY Zenon DEF EditorInit
<1> QED
  BY <1>1, <1>2, <1>3, <1>4, <1>5, <1>6, <1>7, <1>8, <1>9

\* Whose steps change them.
LEMMA SteppedBy ==
  ASSUME Next
  PROVE  /\ page = "session" => SessionNext \/ \E c \in calls : Refuse(c)
         /\ page = "form" => ConnectorFormNext \/ \E c \in calls : Refuse(c)
         /\ page = "views" => ViewsNext \/ \E c \in calls : Refuse(c)
         /\ page = "shell" => ShellNext \/ \E c \in calls : Refuse(c)
         /\ page = "flat" => FlatNext \/ \E c \in calls : Refuse(c)
         /\ page = "webgl" => WebglNext \/ \E c \in calls : Refuse(c)
         /\ page = "city" => CityNext \/ \E c \in calls : Refuse(c)
         /\ page = "pulse" => PulseNext \/ \E c \in calls : Refuse(c)
         /\ page = "editor" => EditorNext \/ \E c \in calls : Refuse(c)
BY DEF Next, RulesNext, ReportsNext, KpisNext, AlertsNext, InitiativesNext,
     InboxNext, ChangesNext, TemplatesNext, MiningNext, JourneysNext,
     ConnectorsNext, ProjectsNext, DashboardsNext, EditorNext, BuilderNext,
     ProcessNext, ViewsNext, StoreNext, UploadNext, ChatNext, OcpmNext,
     GovernanceNext, SessionNext, AccountNext, ProjectNext, ShellNext, HeaderNext,
     FlatNext, WebglNext, CityNext, PulseNext, ConnectorFormNext, BenchmarkNext

LEMMA WebInvInit == Init => WebInv
<1> SUFFICES ASSUME Init PROVE WebInv
  OBVIOUS
<1>1. ASSUME page = "session" PROVE SessionInv
  <2>1. PICK path, t, demo : SessionInit(path, t, demo)
    BY <1>1, OpenedBy
  <2> DEFINE r == Request("demoStatus", None, Carrying("demo", t), {})
  <2>2. calls = {r} /\ ui = Fresh(path, t, t, FALSE)
    BY <2>1 DEF SessionInit
  <2>3. Carries(r) /\ r.op = "demoStatus"
    BY RequestIs, CarryingIs DEF Carries
  <2> HIDE DEF r
  <2>4. IsUi(ui) /\ ~ui.session.checked /\ ui.session.user = None /\ ~ui.session.authed
    BY <2>2 DEF Fresh, IsUi, Shaped
  <2>5. SessionOk(ui, calls)
    BY <2>2, <2>3, <2>4 DEF SessionOk, Boots
  <2> QED
    BY <2>4, <2>5 DEF SessionInv
<1>2. ASSUME page = "form" PROVE FormInv
  <2>1. ConnectorFormInit
    BY <1>2, OpenedBy
  <2> DEFINE r == Request("getRegistry", None, None, {})
  <2>2. calls = {r} /\ db = [i \in Items |-> None]
    BY <2>1 DEF ConnectorFormInit
  <2>3. IsCall(r) /\ r.stage = "ok"
    BY RequestIs DEF Request, Readings
  <2>4. /\ Shaped(ui, {"step", "draft", "listed", "left"}) /\ Shaped(ui.draft, DraftParts)
        /\ ui.draft.name = "" /\ ui.draft.port = "postgresql" /\ ui.draft.type = "postgresql"
    BY <2>1 DEF ConnectorFormInit, Shaped, DraftParts
  <2>5. NamedAndPorted(ui.draft)
    BY <2>4, OwnIsNoSource DEF NamedAndPorted, PortOf, Databases
  <2> HIDE DEF r
  <2> QED
    BY <2>2, <2>3, <2>4, <2>5 DEF FormInv, Shaped
<1>3. ASSUME page = "views" PROVE ViewsInv
  BY <1>3, OpenedBy, ViewsStart
<1>4. ASSUME page = "shell" PROVE ShellInv
  BY <1>4, OpenedBy, ShellStart
<1>5. ASSUME page = "flat" PROVE FlatInv
  BY <1>5, OpenedBy, FlatStart
<1>6. ASSUME page = "webgl" PROVE WebglInv
  BY <1>6, OpenedBy, WebglStart
<1>7. ASSUME page = "city" PROVE CityInv
  BY <1>7, OpenedBy, CityStart
<1>8. ASSUME page = "pulse" PROVE PulseInv
  BY <1>8, OpenedBy, PulseStart
<1>9. ASSUME page = "editor" PROVE EditorInv
  BY <1>9, OpenedBy, EditorOpened
<1> QED
  BY <1>1, <1>2, <1>3, <1>4, <1>5, <1>6, <1>7, <1>8, <1>9 DEF WebInv

\* The other pages keep the page.
LEMMA WebInvStep == WebInv /\ [Next]_spaVars => WebInv'
<1> SUFFICES ASSUME WebInv, [Next]_spaVars PROVE WebInv'
  OBVIOUS
<1>1. page' = page
  BY PageStays
<1>2. CASE UNCHANGED spaVars
  <2>1. /\ SessionInv => SessionInv'
        /\ FormInv => FormInv'
        /\ ViewsInv => ViewsInv'
        /\ ShellInv => ShellInv'
    BY <1>2 DEF spaVars, SessionInv, FormInv, ViewsInv, IsView, LastShown, OwnShown,
       NoOther, Is, ShellInv, ShellOk, IsShell, ShellCalls, Answers, Switching, OnProject, OnLog
  <2>2. /\ FlatInv => FlatInv'
        /\ WebglInv => WebglInv'
        /\ CityInv => CityInv'
        /\ PulseInv => PulseInv'
        /\ EditorInv => EditorInv'
    BY <1>2 DEF spaVars, FlatInv, WebglInv, CityInv, PulseInv, PulseOk, Built, OnStage, EditorInv
  <2> QED
    BY <1>1, <2>1, <2>2 DEF WebInv
<1>3. ASSUME page = "session", Next PROVE SessionInv'
  BY <1>3, SteppedBy, SessionStep, RefuseStep DEF WebInv
<1>4. ASSUME page = "form", Next PROVE FormInv'
  BY <1>4, SteppedBy, FormStep, FormRefuseStep DEF WebInv
<1>5. ASSUME page = "views", Next PROVE ViewsInv'
  BY <1>5, SteppedBy, ViewsStep, ViewRefused DEF WebInv
<1>6. ASSUME page = "shell", Next PROVE ShellInv'
  BY <1>6, SteppedBy, ShellStep, ShellRefuseKeeps DEF WebInv
<1>7. ASSUME page = "flat", Next PROVE FlatInv'
  BY <1>7, SteppedBy, FlatStep DEF WebInv
<1>8. ASSUME page = "webgl", Next PROVE WebglInv'
  BY <1>8, SteppedBy, WebglStep DEF WebInv
<1>9. ASSUME page = "city", Next PROVE CityInv'
  BY <1>9, SteppedBy, CityStep DEF WebInv
<1>10. ASSUME page = "pulse", Next PROVE PulseInv'
  BY <1>10, SteppedBy, PulseStep DEF WebInv
<1>11. ASSUME page = "editor", Next PROVE EditorInv'
  BY <1>11, SteppedBy, EditorStep DEF WebInv
<1> QED
  BY <1>1, <1>2, <1>3, <1>4, <1>5, <1>6, <1>7, <1>8, <1>9, <1>10, <1>11 DEF WebInv

\* Signed in, the store and the requests hold the same token once all is answered, for
\* any users and tokens, and however sign-ins, sign-outs, refusals and reloads overlap.
THEOREM SessionIsOne == Spec => []OneSession
<1>1. WebInv => OneSession
  BY DEF WebInv, SessionInv, SessionOk, OneToken, OneSession, Quiet
<1> QED
  BY <1>1, WebInvInit, WebInvStep, PTL DEF Spec

\* ConnectorForm.tsx: neither the draft nor what was saved carries the name or the port
\* of another source, for any number of steps, saves and refusals.
THEOREM DraftsFit == Spec => []DraftFits
<1>1. WebInv => DraftFits
  BY DEF WebInv, FormInv, DraftFits
<1> QED
  BY <1>1, WebInvInit, WebInvStep, PTL DEF Spec

\* useAnalysisData and the switcher: when nothing failed and all is answered, a view that
\* drops late answers shows the log and the setting it has, and the switcher the project
\* of the address, for any logs and projects and however often either was changed.
THEOREM LateAnswersAreDropped == Spec => []LateAnswersDropped
<1>1. WebInv => LateAnswersDropped
  BY ViewsMean, ShellMeans DEF WebInv, LateAnswersDropped
<1> QED
  BY <1>1, WebInvInit, WebInvStep, PTL DEF Spec

\* However the calls fail, a view shows a result of the log and the setting on the
\* screen, or none, and reports no failure of another.
THEOREM ViewsShowTheirLog == Spec => []ShowsItsLog
<1>1. WebInv => ShowsItsLog
  BY ViewsMean DEF WebInv, ShowsItsLog
<1> QED
  BY <1>1, WebInvInit, WebInvStep, PTL DEF Spec

\* ProcessMap.tsx, ProcessMapSigma.tsx, ProcessCityCanvas.tsx and ProcessPulsePage.tsx:
\* for any maps, and however these, the settings, the selections, timers and calls that
\* fail follow each other, a picture has on it what goes with the elements it draws.
THEOREM PicturesKeepUp == Spec => []CanvasKeepsUp
<1>1. WebInv => CanvasKeepsUp
  BY FlatMeans, WebglMeans, CityMeans, PulseMeans DEF WebInv, CanvasKeepsUp
<1> QED
  BY <1>1, WebInvInit, WebInvStep, PTL DEF Spec

\* simplifyGraph.ts: for any map of any size, any per cent and any choice of what is
\* hidden, the map is not blank, no edge hangs in the air and each first and last
\* activity that has an edge keeps one.
THEOREM AnchorsAreKept == Spec => []EdgesKept
<1>1. WebInv => EdgesKept
  BY FlatMeans DEF WebInv, EdgesKept
<1> QED
  BY <1>1, WebInvInit, WebInvStep, PTL DEF Spec

\* DashboardViewPage.tsx: however the lists of widgets that the handlers of several
\* renders, versions and restores send replace each other, for any number of widgets,
\* findSlot and repack leave no two of the stored ones on one place, until a swap of two
\* sizes, or the settings of a moved widget, are stored.
THEOREM WidgetsStayApart == Spec => []WidgetsApart
<1>1. WebInv => WidgetsApart
  BY EditorMeans DEF WebInv, WidgetsApart
<1> QED
  BY <1>1, WebInvInit, WebInvStep, PTL DEF Spec

=============================================================================
