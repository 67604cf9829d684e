-------------------------- MODULE WebFlags_proofs --------------------------
(***************************************************************************)
(* Proof that no flag outlives the calls.  Each page has an invariant of its *)
(* own: what shows a spinner or disables a button is up only as long as a    *)
(* call is in flight whose answer, or whose failure, takes it down.  Those   *)
(* are the calls of the handler that put it up and the ones it goes on with, *)
(* which carry its tag (Waits).  SavesInv says what the calls are.           *)
(***************************************************************************)
EXTENDS WebSaves_proofs, SequenceTheorems

-----------------------------------------------------------------------------
\* What is up waits for one of these calls.
Held(up, cs, ops) == up => \E c \in cs : c.op \in ops

\* Or for one that the handler goes on with.
HeldBy(up, cs, ops, then, args) ==
  up => \E c \in cs : c.op \in ops \/ (c.op \in then /\ c.arg \in args)

RulesFlags ==
  /\ {"loading", "saving", "running"} \subseteq DOMAIN ui
  /\ Held(ui.loading, calls, {"loadRules"})
  /\ HeldBy(ui.saving, calls, {"createRule", "updateRule"}, {"loadRules"}, {"save"})
  /\ ui.running # None => \E c \in calls : \/ c.op \in RunOps
                                           \/ c.op = "loadRules" /\ c.arg \in {"run"} \cup Items
                                           \/ c.op = "loadHistory" /\ c.arg = "run"

ReportsFlags ==
  /\ {"loading", "saving", "sending", "toggling", "deleting"} \subseteq DOMAIN ui
  /\ Held(ui.loading, calls, {"loadReports"})
  /\ Held(ui.saving, calls, {"createReport", "updateReport"})
  /\ Held(ui.sending # None, calls, {"sendReport"})
  /\ Held(ui.toggling # None, calls, {"toggleReport"})
  /\ Held(ui.deleting # None, calls, {"deleteReport"})

AlertsFlags == "loading" \in DOMAIN ui /\ Held(ui.loading, calls, {"loadAlerts"})

KpisFlags ==
  /\ {"loading", "creating", "editing", "computing"} \subseteq DOMAIN ui
  /\ Held(ui.loading, calls, {"loadKpis"})
  /\ Held(ui.creating, calls, {"createKpi"})
  /\ Held(ui.editing, calls, {"updateKpi"})
  /\ \A k \in ui.computing : \E c \in calls : c.op = "computeKpi" /\ c.on = k

JourneysFlags ==
  /\ {"loading", "saving", "stageSaving"} \subseteq DOMAIN ui
  /\ Held(ui.loading, calls, {"loadJourneys"})
  /\ Held(ui.saving, calls, {"createJourney", "updateJourney"})
  /\ Held(ui.stageSaving, calls, {"saveStages"})

LEMMA RulesFlagsStep ==
  ASSUME RulesFlags, RulesSaves, RulesClicks \/ RulesAnswers
  PROVE  RulesFlags'
<1> USE DEF RulesFlags, Held, HeldBy, Made, Done, RunOps
<1>1. ASSUME NEW p \in Projects, ChooseRulesProject(p) PROVE RulesFlags'
  BY <1>1, SendIs DEF ChooseRulesProject
<1>2. ASSUME \E f \in Items \cup {"new"} : OpenRuleForm(f) \/ CloseRuleForm PROVE RulesFlags'
  BY <1>2 DEF OpenRuleForm, CloseRuleForm, Local
<1>3. CASE SaveRule
  BY <1>3, SendIs DEF SaveRule
<1>4. ASSUME NEW r \in Items, ToggleRule(r) \/ RemoveRule(r) PROVE RulesFlags'
  BY <1>4, SendIs DEF ToggleRule, RemoveRule
<1>5. ASSUME NEW r \in Items, RunRule(r) PROVE RulesFlags'
  <2>1. PICK op \in RunOps : Send(op, r, ui.project)
    BY <1>5 DEF RunRule
  <2>2. PICK k : calls' = calls \cup {k} /\ Made(k, op, r, ui.project)
    BY <2>1, SendIs
  <2> QED
    BY <1>5, <2>1, <2>2 DEF RunRule
<1>6. ASSUME NEW r \in Items, ExpandHistory(r) PROVE RulesFlags'
  BY <1>6, SendIs DEF ExpandHistory, Local
<1>7. ASSUME NEW c \in calls, RulesLoaded(c), c.op = "loadRules" PROVE RulesFlags'
  <2>1. CASE c.arg \in Items
    <3>1. PICK r : calls' = (calls \ {c}) \cup {r} /\ Made(r, "loadHistory", c.arg, "run")
      BY <1>7, <2>1, ThenIs DEF RulesLoaded
    <3>2. c.arg # "save" /\ c.arg # "run"
      BY <2>1, SpaAssumption DEF Waits
    <3> QED
      BY <1>7, <3>1, <3>2 DEF RulesLoaded
  <2>2. CASE c.arg \notin Items
    BY <1>7, <2>2 DEF RulesLoaded
  <2> QED
    BY <2>1, <2>2
<1>8. ASSUME NEW c \in calls, RuleSaved(c), c.op \in {"createRule", "updateRule"}
      PROVE  RulesFlags'
  <2>1. CASE c.stage = "ok"
    <3>1. PICK r, on : calls' = (calls \ {c}) \cup {r} /\ Made(r, "loadRules", on, "save")
      BY <1>8, <2>1, ThenIs DEF RuleSaved
    <3> QED
      BY <1>8, <2>1, <3>1 DEF RuleSaved
  <2>2. CASE c.stage # "ok"
    BY <1>8, <2>2 DEF RuleSaved
  <2> QED
    BY <2>1, <2>2
<1>9. ASSUME NEW c \in calls, RuleToggled(c) \/ RuleRemoved(c),
             c.op \in {"toggleRule", "deleteRule"}
      PROVE  RulesFlags'
  BY <1>9 DEF RuleToggled, RuleRemoved
<1>10. ASSUME NEW c \in calls, RuleRan(c), c.op \in RunOps PROVE RulesFlags'
  <2>1. CASE c.stage = "ok"
    <3>1. PICK r, arg : calls' = (calls \ {c}) \cup {r} /\ Made(r, "loadRules", c.arg, arg)
                        /\ arg = IF c.op = "runOpenRule" THEN c.on ELSE "run"
      BY <1>10, <2>1, ThenIs DEF RuleRan
    <3>2. arg \in {"run"} \cup Items
      BY <3>1 DEF RulesSaves
    <3> QED
      BY <1>10, <2>1, <3>1, <3>2 DEF RuleRan
  <2>2. CASE c.stage # "ok"
    BY <1>10, <2>2 DEF RuleRan
  <2> QED
    BY <2>1, <2>2
<1>11. ASSUME NEW c \in calls, HistoryLoaded(c), c.op = "loadHistory" PROVE RulesFlags'
  BY <1>11 DEF HistoryLoaded
<1> HIDE DEF RulesFlags
<1> QED
  BY <1>1, <1>2, <1>3, <1>4, <1>5, <1>6, <1>7, <1>8, <1>9, <1>10, <1>11
     DEF RulesClicks, RulesAnswers, Settled, Answered, Refused

LEMMA ReportsFlagsStep ==
  ASSUME ReportsFlags, ReportsClicks \/ ReportsAnswers
  PROVE  ReportsFlags'
<1> USE DEF ReportsFlags, Held, Made, Done
<1>1. ASSUME NEW p \in Projects, LoadReports(p) PROVE ReportsFlags'
  BY <1>1, SendIs DEF LoadReports
<1>2. ASSUME CloseReportForm \/ \E f \in Items \cup {"new"} : OpenReportForm(f)
      PROVE  ReportsFlags'
  BY <1>2 DEF OpenReportForm, CloseReportForm, Local
<1>3. CASE SaveReport
  BY <1>3, SendIs DEF SaveReport
<1>4. ASSUME NEW r \in Items, DeleteReport(r) \/ ToggleReport(r) \/ SendReport(r)
      PROVE  ReportsFlags'
  BY <1>4, SendIs DEF DeleteReport, ToggleReport, SendReport
<1>5. ASSUME NEW c \in calls, \/ c.op = "createReport" /\ ReportCreated(c)
                              \/ c.op = "updateReport" /\ ReportUpdated(c)
      PROVE  ReportsFlags'
  BY <1>5 DEF ReportCreated, ReportUpdated
<1>6. ASSUME NEW c \in calls, \/ c.op = "loadReports" /\ ReportsLoaded(c)
                              \/ c.op = "deleteReport" /\ ReportDeleted(c)
      PROVE  ReportsFlags'
  BY <1>6 DEF ReportsLoaded, ReportDeleted
<1>7. ASSUME NEW c \in calls, \/ c.op = "toggleReport" /\ ReportToggled(c)
                              \/ c.op = "sendReport" /\ ReportSent(c)
      PROVE  ReportsFlags'
  BY <1>7 DEF ReportToggled, ReportSent
<1> HIDE DEF ReportsFlags
<1> QED
  BY <1>1, <1>2, <1>3, <1>4, <1>5, <1>6, <1>7
     DEF ReportsClicks, ReportsAnswers, Settled, Answered, Refused

LEMMA AlertsFlagsStep ==
  ASSUME AlertsFlags, AlertsClicks \/ AlertsAnswers
  PROVE  AlertsFlags'
<1> USE DEF AlertsFlags, Held, Made, Done
<1>1. CASE OpenAlertForm \/ CloseAlertForm \/ SaveAlert
  BY <1>1, SendIs DEF OpenAlertForm, CloseAlertForm, SaveAlert, Local
<1>2. ASSUME NEW a \in Items, TestAlert(a) \/ DeleteAlert(a) PROVE AlertsFlags'
  BY <1>2, SendIs DEF TestAlert, DeleteAlert
<1>3. ASSUME NEW c \in calls, \/ c.op = "loadAlerts" /\ AlertsLoaded(c)
                              \/ c.op = "createAlert" /\ AlertSaved(c)
      PROVE  AlertsFlags'
  <2>1. CASE AlertsLoaded(c)
    BY <2>1 DEF AlertsLoaded
  <2>2. CASE AlertSaved(c) /\ c.stage = "ok"
    BY <2>2, ThenIs DEF AlertSaved
  <2>3. CASE AlertSaved(c) /\ c.stage # "ok" /\ c.op = "createAlert"
    BY <2>3 DEF AlertSaved
  <2> QED
    BY <1>3, <2>1, <2>2, <2>3
<1>4. ASSUME NEW c \in calls, AlertTested(c) \/ AlertDeleted(c),
             c.op \in {"testAlert", "deleteAlert"}
      PROVE  AlertsFlags'
  BY <1>4 DEF AlertTested, AlertDeleted
<1> HIDE DEF AlertsFlags
<1> QED
  BY <1>1, <1>2, <1>3, <1>4 DEF AlertsClicks, AlertsAnswers, Settled, Answered, Refused

LEMMA KpisFlagsStep ==
  ASSUME KpisFlags, KpisClicks \/ KpisAnswers
  PROVE  KpisFlags'
<1> USE DEF KpisFlags, Held, Made, Done
<1>1. ASSUME NEW p \in Projects, ChooseKpiProject(p) PROVE KpisFlags'
  <2>1. PICK r : /\ calls' = calls \cup {Request("loadKpiLogs", p, None, calls)} \cup {r}
                 /\ Made(r, "loadKpis", p, None)
    BY <1>1, SendAlsoIs DEF ChooseKpiProject
  <2> QED
    BY <1>1, <2>1 DEF ChooseKpiProject
<1>2. CASE RefreshKpis
  BY <1>2, SendIs DEF RefreshKpis
<1>3. ASSUME PickKpiLog \/ CloseKpiForm \/ \E k \in Items \cup {None} : OpenKpiForm(k)
      PROVE  KpisFlags'
  BY <1>3 DEF PickKpiLog, CloseKpiForm, OpenKpiForm, Local
<1>4. CASE CreateKpi \/ EditKpi
  BY <1>4, SendIs DEF CreateKpi, EditKpi
<1>5. ASSUME NEW k \in Items, DeleteKpi(k) \/ ComputeKpi(k) PROVE KpisFlags'
  BY <1>5, SendIs DEF DeleteKpi, ComputeKpi
<1>6. ASSUME NEW c \in calls, \/ c.op = "createKpi" /\ KpiCreated(c)
                              \/ c.op = "updateKpi" /\ KpiEdited(c)
      PROVE  KpisFlags'
  BY <1>6 DEF KpiCreated, KpiEdited, ReplaceKpi
<1>7. ASSUME NEW c \in calls, \/ c.op = "loadKpis" /\ KpisLoaded(c)
                              \/ c.op = "loadKpiLogs" /\ KpiLogsLoaded(c)
                              \/ c.op = "deleteKpi" /\ KpiDeleted(c)
      PROVE  KpisFlags'
  BY <1>7 DEF KpisLoaded, KpiLogsLoaded, KpiDeleted
<1>8. ASSUME NEW c \in calls, c.op = "computeKpi", KpiComputed(c) PROVE KpisFlags'
  <2>1. /\ DOMAIN ui' = DOMAIN ui /\ ui'.computing = ui.computing \ {c.on}
        /\ ui'.loading = ui.loading /\ ui'.creating = ui.creating /\ ui'.editing = ui.editing
    BY <1>8 DEF KpiComputed, ReplaceKpi
  <2> QED
    BY <1>8, <2>1 DEF KpiComputed
<1> HIDE DEF KpisFlags
<1> QED
  BY <1>1, <1>2, <1>3, <1>4, <1>5, <1>6, <1>7, <1>8
     DEF KpisClicks, KpisAnswers, Settled, Answered, Refused

LEMMA JourneysFlagsStep ==
  ASSUME JourneysFlags, JourneysClicks \/ JourneysAnswers
  PROVE  JourneysFlags'
<1> USE DEF JourneysFlags, Held, Made, Done
<1>1. ASSUME NEW p \in Projects, LoadJourneys(p) PROVE JourneysFlags'
  BY <1>1, SendIs DEF LoadJourneys
<1>2. ASSUME CloseJourneyForm \/ (\E f \in Items \cup {"new"} : OpenJourneyForm(f))
             \/ \E j \in Items : SelectJourney(j)
      PROVE  JourneysFlags'
  BY <1>2 DEF CloseJourneyForm, OpenJourneyForm, SelectJourney, Local
<1>3. CASE SaveJourney
  BY <1>3, SendIs DEF SaveJourney
<1>4. ASSUME NEW j \in Items, DeleteJourney(j) PROVE JourneysFlags'
  BY <1>4, SendIs DEF DeleteJourney
<1>5. ASSUME AddStage \/ \E s \in StageIds : EditStage(s) \/ DeleteStage(s) PROVE JourneysFlags'
  <2>1. PICK stages : PersistStages(stages)
    BY <1>5 DEF AddStage, EditStage, DeleteStage
  <2> QED
    BY <2>1, SendIs DEF PersistStages
<1>6. ASSUME NEW c \in calls, c.op = "loadJourneys", JourneysLoaded(c) PROVE JourneysFlags'
  <2>1. /\ DOMAIN ui' = DOMAIN ui /\ ui'.loading = FALSE
        /\ ui'.saving = ui.saving /\ ui'.stageSaving = ui.stageSaving
    BY <1>6 DEF JourneysLoaded
  <2> QED
    BY <1>6, <2>1 DEF JourneysLoaded
<1>7. ASSUME NEW c \in calls, c.op \in {"createJourney", "updateJourney"}, JourneySaved(c)
      PROVE  JourneysFlags'
  BY <1>7 DEF JourneySaved
<1>8. ASSUME NEW c \in calls, c.op = "deleteJourney", JourneyDeleted(c) PROVE JourneysFlags'
  <2>1. /\ DOMAIN ui' = DOMAIN ui /\ ui'.loading = ui.loading
        /\ ui'.saving = ui.saving /\ ui'.stageSaving = ui.stageSaving
    BY <1>8 DEF JourneyDeleted
  <2> QED
    BY <1>8, <2>1 DEF JourneyDeleted
<1>9. ASSUME NEW c \in calls, c.op = "saveStages", StagesSaved(c) PROVE JourneysFlags'
  BY <1>9 DEF StagesSaved
<1> HIDE DEF JourneysFlags
<1> QED
  BY <1>1, <1>2, <1>3, <1>4, <1>5, <1>6, <1>7, <1>8, <1>9
     DEF JourneysClicks, JourneysAnswers, Settled, Answered, Refused

InitiativesFlags ==
  /\ {"loading", "creating"} \subseteq DOMAIN ui
  /\ Held(ui.loading, calls, {"loadInitiatives"})
  /\ HeldBy(ui.creating, calls, {"createInitiative"}, {"loadInitiatives"}, {"create"})

InboxFlags == "loading" \in DOMAIN ui /\ Held(ui.loading, calls, {"loadInbox"})

TemplatesFlags ==
  /\ {"loading", "saving"} \subseteq DOMAIN ui
  /\ Held(ui.loading, calls, {"loadTemplates"})
  /\ HeldBy(ui.saving, calls, {"createTemplate"}, {"loadTemplates"}, {"save"})

MiningFlags ==
  /\ {"loading", "mining", "linking"} \subseteq DOMAIN ui
  /\ Held(ui.loading, calls, {"loadPatterns"})
  /\ HeldBy(ui.mining, calls, {"minePatterns"}, {"loadPatterns"}, {"mine"})
  /\ Held(ui.linking, calls, {"crossLink"})

LEMMA InitiativesFlagsStep ==
  ASSUME InitiativesFlags, InitiativesClicks \/ InitiativesAnswers
  PROVE  InitiativesFlags'
<1> USE DEF InitiativesFlags, Held, HeldBy, Made, Done
<1>1. ASSUME NEW p \in Projects, GoToInitiatives(p) PROVE InitiativesFlags'
  BY <1>1, SendIs DEF GoToInitiatives
<1>2. CASE OpenInitiativeForm \/ CloseInitiativeForm
  BY <1>2 DEF OpenInitiativeForm, CloseInitiativeForm, Local
<1>3. CASE CreateInitiative
  BY <1>3, SendIs DEF CreateInitiative
<1>4. ASSUME NEW i \in Items, MeasureInitiative(i) \/ DeleteInitiative(i)
      PROVE  InitiativesFlags'
  BY <1>4, SendIs DEF MeasureInitiative, DeleteInitiative
<1>5. ASSUME NEW c \in calls, c.op = "loadInitiatives", InitiativesLoaded(c)
      PROVE  InitiativesFlags'
  BY <1>5 DEF InitiativesLoaded
<1>6. ASSUME NEW c \in calls, c.op = "createInitiative", InitiativeCreated(c)
      PROVE  InitiativesFlags'
  <2>1. CASE c.stage = "ok"
    BY <1>6, <2>1, ThenIs DEF InitiativeCreated
  <2>2. CASE c.stage # "ok"
    BY <1>6, <2>2 DEF InitiativeCreated
  <2> QED
    BY <2>1, <2>2
<1>7. ASSUME NEW c \in calls, c.op \in {"measureInitiative", "deleteInitiative"},
             InitiativeChanged(c)
      PROVE  InitiativesFlags'
  <2>1. CASE c.stage = "ok"
    BY <1>7, <2>1, ThenIs DEF InitiativeChanged
  <2>2. CASE c.stage # "ok"
    BY <1>7, <2>2 DEF InitiativeChanged
  <2> QED
    BY <2>1, <2>2
<1> HIDE DEF InitiativesFlags
<1> QED
  BY <1>1, <1>2, <1>3, <1>4, <1>5, <1>6, <1>7
     DEF InitiativesClicks, InitiativesAnswers, Settled, Answered, Refused

LEMMA InboxFlagsStep ==
  ASSUME InboxFlags, InboxClicks \/ InboxAnswers
  PROVE  InboxFlags'
<1> USE DEF InboxFlags, Held, Made, Done
<1>1. ASSUME NEW t \in Items, SelectTask(t) PROVE InboxFlags'
  BY <1>1 DEF SelectTask, Local
<1>2. CASE CloseTask \/ OpenTaskForm \/ CloseTaskForm
  BY <1>2 DEF CloseTask, OpenTaskForm, CloseTaskForm, Local
<1>3. CASE CreateTask
  <2>1. PICK p \in Projects : Send("createTask", p, None) /\ ui' = ui
    BY <1>3 DEF CreateTask
  <2> QED
    BY <2>1, SendIs
<1>4. ASSUME NEW op \in {"updateTask", "deleteTask"}, ActOnTask(op) PROVE InboxFlags'
  BY <1>4, SendIs DEF ActOnTask
<1>5. ASSUME NEW c \in calls, c.op = "loadInbox", InboxLoaded(c) PROVE InboxFlags'
  BY <1>5 DEF InboxLoaded
<1>6. ASSUME NEW c \in calls, c.op # "loadInbox",
             TaskUpdated(c) \/ TaskDeleted(c) \/ TaskCreated(c)
      PROVE  InboxFlags'
  <2>1. CASE c.stage = "ok"
    <3>1. PICK arg : Then(c, "loadSummary", None, arg)
      BY <1>6, <2>1 DEF TaskUpdated, TaskDeleted, TaskCreated
    <3>2. DOMAIN ui' = DOMAIN ui /\ ui'.loading = ui.loading
      BY <1>6, <2>1 DEF TaskUpdated, TaskDeleted, TaskCreated
    <3> QED
      BY <1>6, <3>1, <3>2, ThenIs
  <2>2. CASE c.stage # "ok"
    BY <1>6, <2>2 DEF TaskUpdated, TaskDeleted, TaskCreated
  <2> QED
    BY <2>1, <2>2
<1>7. ASSUME NEW c \in calls, c.op = "loadSummary", SummaryLoaded(c) PROVE InboxFlags'
  BY <1>7 DEF SummaryLoaded
<1> HIDE DEF InboxFlags
<1> QED
  BY <1>1, <1>2, <1>3, <1>4, <1>5, <1>6, <1>7
     DEF InboxClicks, InboxAnswers, Settled, Answered, Refused

LEMMA TemplatesFlagsStep ==
  ASSUME TemplatesFlags, TemplatesClicks \/ TemplatesAnswers
  PROVE  TemplatesFlags'
<1> USE DEF TemplatesFlags, Held, HeldBy, Made, Done
<1>1. CASE OpenTemplateForm \/ CloseTemplateForm
  BY <1>1 DEF OpenTemplateForm, CloseTemplateForm, Local
<1>2. CASE SeedTemplates \/ CreateTemplate
  BY <1>2, SendIs DEF SeedTemplates, CreateTemplate
<1>3. ASSUME NEW c \in calls, c.op = "loadTemplates", TemplatesLoaded(c) PROVE TemplatesFlags'
  BY <1>3 DEF TemplatesLoaded
<1>4. ASSUME NEW c \in calls, c.op = "seedTemplates", TemplatesSeeded(c) PROVE TemplatesFlags'
  <2>1. CASE c.stage = "ok"
    BY <1>4, <2>1, ThenIs DEF TemplatesSeeded
  <2>2. CASE c.stage # "ok"
    BY <1>4, <2>2 DEF TemplatesSeeded
  <2> QED
    BY <2>1, <2>2
<1>5. ASSUME NEW c \in calls, c.op = "createTemplate", TemplateCreated(c) PROVE TemplatesFlags'
  <2>1. CASE c.stage = "ok"
    BY <1>5, <2>1, ThenIs DEF TemplateCreated
  <2>2. CASE c.stage # "ok"
    BY <1>5, <2>2 DEF TemplateCreated
  <2> QED
    BY <2>1, <2>2
<1> HIDE DEF TemplatesFlags
<1> QED
  BY <1>1, <1>2, <1>3, <1>4, <1>5
     DEF TemplatesClicks, TemplatesAnswers, Settled, Answered, Refused

LEMMA MiningFlagsStep ==
  ASSUME MiningFlags, MiningClicks \/ MiningAnswers
  PROVE  MiningFlags'
<1> USE DEF MiningFlags, Held, HeldBy, Made, Done
<1>1. ASSUME NEW p \in Projects, GoToMining(p) PROVE MiningFlags'
  <2>1. \E r \in MiningLoads(p, calls) : r.op = "loadPatterns"
    BY RequestIs DEF MiningLoads
  <2> QED
    BY <1>1, <2>1 DEF GoToMining
<1>2. CASE SelectMiningLog
  BY <1>2 DEF SelectMiningLog, Local
<1>3. CASE MinePatterns \/ CrossLink
  BY <1>3, SendIs DEF MinePatterns, CrossLink
<1>4. ASSUME NEW c \in calls, c.op = "loadPatterns", PatternsLoaded(c) PROVE MiningFlags'
  BY <1>4 DEF PatternsLoaded
<1>5. ASSUME NEW c \in calls, c.op = "loadMiningLogs", MiningLogsLoaded(c) PROVE MiningFlags'
  BY <1>5 DEF MiningLogsLoaded
<1>6. ASSUME NEW c \in calls, c.op = "minePatterns", PatternsMined(c) PROVE MiningFlags'
  <2>1. CASE c.stage = "ok" /\ ~c.ans.message
    BY <1>6, <2>1, ThenIs DEF PatternsMined
  <2>2. CASE ~(c.stage = "ok" /\ ~c.ans.message)
    BY <1>6, <2>2 DEF PatternsMined
  <2> QED
    BY <2>1, <2>2
<1>7. ASSUME NEW c \in calls, c.op = "crossLink", CrossLinked(c) PROVE MiningFlags'
  BY <1>7 DEF CrossLinked
<1> HIDE DEF MiningFlags
<1> QED
  BY <1>1, <1>2, <1>3, <1>4, <1>5, <1>6, <1>7
     DEF MiningClicks, MiningAnswers, Settled, Answered, Refused

-----------------------------------------------------------------------------
(* Projects and connectors                                                  *)

ProjectsFlags ==
  /\ {"loading", "creating", "seeding", "importing", "exporting"} \subseteq DOMAIN ui
  /\ Held(ui.loading, calls, {"fetchProjects"})
  /\ Held(ui.creating, calls, {"createProject"})
  /\ HeldBy(ui.seeding, calls, {"seedSample", "sampleLogs"}, {"fetchProjects"}, Items)
  /\ HeldBy(ui.importing, calls, {"importProject"}, {"fetchProjects"}, {"import"})
  /\ Held(ui.exporting # None, calls, {"exportProject"})

\* Nothing of a page that was left is shown.
ProjectFlags ==
  /\ {"left", "loading", "listing", "watching", "maps"} \subseteq DOMAIN ui
  /\ ui.left \/ /\ Held(ui.loading, calls, {"getProject"})
                /\ Held(ui.listing, calls, {"listLogs"})

ConnectorsFlags == "loading" \in DOMAIN ui /\ Held(ui.loading, calls, {"loadConnectors"})

LEMMA ProjectsFlagsStep ==
  ASSUME ProjectsFlags, ProjectsSaves, ProjectsClicks \/ ProjectsAnswers
  PROVE  ProjectsFlags'
<1> USE DEF ProjectsFlags, Held, HeldBy, Made, Done
<1>0. "import" \notin Items
  BY SpaAssumption DEF Waits
<1>1. CASE OpenProjectForm \/ CloseProjectForm
  BY <1>1 DEF OpenProjectForm, CloseProjectForm, Local
<1>2. CASE SeedSample \/ ImportProject
  BY <1>2, SendIs DEF SeedSample, ImportProject
<1>3. ASSUME NEW enter, CreateProject(enter) PROVE ProjectsFlags'
  BY <1>3, SendIs DEF CreateProject
<1>4. ASSUME NEW i \in Items, ExportProject(i) \/ DeleteProject(i) PROVE ProjectsFlags'
  BY <1>4, SendIs, SpaAssumption DEF ExportProject, DeleteProject
<1>5. ASSUME NEW c \in calls, c.op = "fetchProjects", ProjectsFetched(c) PROVE ProjectsFlags'
  <2>1. PICK v : v = (ui.importing /\ c.arg # "import")
    OBVIOUS
  <2>2. v => ui.importing /\ c.arg # "import"
    BY <2>1, Zenon
  <2>3. /\ DOMAIN ui' = DOMAIN ui /\ ui'.loading = FALSE /\ ui'.importing = v
        /\ ui'.creating = ui.creating /\ ui'.seeding = ui.seeding
        /\ ui'.exporting = ui.exporting
    BY <1>5, <2>1 DEF ProjectsFetched
  <2>4. CASE c.arg \in Items
    <3>1. PICK r : calls' = (calls \ {c}) \cup {r} /\ Made(r, "sampleLogs", c.arg, None)
      BY <1>5, <2>4, ThenIs DEF ProjectsFetched
    <3> QED
      BY <1>5, <2>2, <2>3, <3>1
  <2>5. CASE c.arg \notin Items
    BY <1>5, <2>2, <2>3, <2>5 DEF ProjectsFetched
  <2> QED
    BY <2>4, <2>5
<1>6. ASSUME NEW c \in calls, \/ c.op = "createProject" /\ ProjectCreated(c)
                              \/ c.op = "deleteProject" /\ ProjectDeleted(c)
      PROVE  ProjectsFlags'
  BY <1>6 DEF ProjectCreated, ProjectDeleted
<1>7. ASSUME NEW c \in calls, \/ c.op = "exportProject" /\ ProjectExported(c)
                              \/ c.op = "sampleLogs" /\ SampleLogsListed(c)
      PROVE  ProjectsFlags'
  BY <1>7 DEF ProjectExported, SampleLogsListed
<1>8. ASSUME NEW c \in calls, c.op = "seedSample", SampleSeeded(c) PROVE ProjectsFlags'
  <2>1. CASE c.stage = "ok"
    <3>1. PICK i : i = c.ans.id /\ i \in Items
      BY <1>8, <2>1 DEF ProjectsSaves
    <3>2. PICK r : calls' = (calls \ {c}) \cup {r} /\ Made(r, "fetchProjects", None, i)
      BY <1>8, <2>1, <3>1, ThenIs DEF SampleSeeded
    <3> QED
      BY <1>8, <2>1, <3>1, <3>2 DEF SampleSeeded
  <2>2. CASE c.stage # "ok"
    BY <1>8, <2>2 DEF SampleSeeded
  <2> QED
    BY <2>1, <2>2
<1>9. ASSUME NEW c \in calls, c.op = "importProject", ProjectImported(c) PROVE ProjectsFlags'
  <2>1. CASE c.stage = "ok"
    BY <1>9, <2>1, ThenIs DEF ProjectImported
  <2>2. CASE c.stage # "ok"
    BY <1>9, <2>2 DEF ProjectImported
  <2> QED
    BY <2>1, <2>2
<1> HIDE DEF ProjectsFlags
<1> QED
  BY <1>1, <1>2, <1>3, <1>4, <1>5, <1>6, <1>7, <1>8, <1>9
     DEF ProjectsClicks, ProjectsAnswers, Settled, Answered, Refused

\* The interval's effect changes what belongs to the interval.
LEMMA WatchIs ==
  ASSUME NEW u, NEW anew, {"left", "loading", "listing", "watching", "maps"} \subseteq DOMAIN u
  PROVE  LET v == Watch(u, anew)
         IN  /\ {"left", "loading", "listing", "watching", "maps"} \subseteq DOMAIN v
             /\ v.left = u.left /\ v.loading = u.loading /\ v.listing = u.listing
BY DEF Watch

LEMMA ProjectFlagsStep ==
  ASSUME ProjectFlags, ProjectClicks \/ ProjectAnswers
  PROVE  ProjectFlags'
<1> DEFINE parts == {"left", "loading", "listing", "watching", "maps"}
<1> USE DEF ProjectFlags, Held, Made, Done
<1>1. ASSUME NEW p, OpenProject(p) PROVE ProjectFlags'
  <2>1. PICK g : g = Request("getProject", p, None, calls)
    OBVIOUS
  <2>2. PICK l : l = Request("listLogs", p, [map |-> 0], calls \cup {g})
    OBVIOUS
  <2>3. calls' = calls \cup {g, l} /\ g.op = "getProject" /\ l.op = "listLogs"
    BY <1>1, <2>1, <2>2, RequestIs DEF OpenProject
  <2>4. PICK u : /\ u = [ui EXCEPT !.address = p, !.loading = TRUE, !.listing = TRUE]
                 /\ ui' = Watch(u, TRUE)
    BY <1>1 DEF OpenProject
  <2>5. parts \subseteq DOMAIN u
    BY <2>4
  <2>6. PICK v : v = Watch(u, TRUE)
    OBVIOUS
  <2>7. parts \subseteq DOMAIN v
    BY <2>5, <2>6, WatchIs
  <2> QED
    BY <2>3, <2>4, <2>6, <2>7
<1>2. CASE Poll
  BY <1>2, SendIs DEF Poll
<1>3. CASE LeaveProject
  BY <1>3 DEF LeaveProject, Local
<1>4. ASSUME NEW i \in Items, DeleteLog(i) \/ Finish(i) PROVE ProjectFlags'
  BY <1>4, SendIs DEF DeleteLog, Finish
<1>5. ASSUME NEW c \in calls, c.op = "getProject", ProjectKnown(c) PROVE ProjectFlags'
  BY <1>5 DEF ProjectKnown
<1>6. ASSUME NEW c \in calls, c.op = "listLogs", LogsKnown(c) PROVE ProjectFlags'
  <2>1. CASE ui.left
    BY <1>6, <2>1 DEF LogsKnown
  <2>2. CASE ~ui.left
    <3>1. PICK rows : rows = IF c.stage = "ok" THEN c.ans.rows ELSE ui.rows
      OBVIOUS
    <3>2. PICK w : w = [ui EXCEPT !.rows = rows, !.listing = FALSE]
      OBVIOUS
    <3>3. parts \subseteq DOMAIN w /\ w.loading = ui.loading /\ w.listing = FALSE
      BY <3>2
    <3>4. PICK u : u = Watch(w, FALSE)
      OBVIOUS
    <3>5. parts \subseteq DOMAIN u /\ u.loading = ui.loading /\ u.listing = FALSE
      BY <3>3, <3>4, WatchIs
    <3>6. PICK k, x, y : ui' = IF k = 0 THEN u ELSE [u EXCEPT !.maps[k] = x, !.told = y]
      <4>1. ui' = IF c.arg.map = 0 THEN u
                  ELSE [u EXCEPT
                          !.maps[c.arg.map] =
                             [i \in Items |-> IF rows[i] = 0 THEN @[i] ELSE rows[i]],
                          !.told = [i \in Items |->
                             IF ui.maps[c.arg.map][i] = Processing /\ rows[i] = 2
                             THEN @[i] + 1 ELSE @[i]]]
        BY <1>6, <2>2, <3>1, <3>2, <3>4, Zenon DEF LogsKnown
      <4> QED
        BY <4>1, Zenon
    <3>7. parts \subseteq DOMAIN ui' /\ ui'.loading = ui.loading /\ ui'.listing = FALSE
      BY <3>5, <3>6
    <3> QED
      BY <1>6, <2>2, <3>7 DEF LogsKnown
  <2> QED
    BY <2>1, <2>2
<1>7. ASSUME NEW c \in calls, c.op = "deleteLog", LogDeleted(c) PROVE ProjectFlags'
  <2>1. \/ ui' = ui
        \/ ~ui.left /\ ui' = Watch([ui EXCEPT !.rows[c.on] = 0], FALSE)
    BY <1>7 DEF LogDeleted
  <2>2. CASE ui' = ui
    BY <1>7, <2>2 DEF LogDeleted
  <2>3. CASE ~ui.left /\ ui' = Watch([ui EXCEPT !.rows[c.on] = 0], FALSE)
    <3>1. PICK w : w = [ui EXCEPT !.rows[c.on] = 0] /\ ui' = Watch(w, FALSE)
      BY <2>3
    <3>2. parts \subseteq DOMAIN w /\ w.loading = ui.loading /\ w.listing = ui.listing
      BY <3>1
    <3>3. parts \subseteq DOMAIN ui' /\ ui'.loading = ui.loading /\ ui'.listing = ui.listing
      BY <3>1, <3>2, WatchIs
    <3> QED
      BY <1>7, <2>3, <3>3 DEF LogDeleted
  <2> QED
    BY <2>1, <2>2, <2>3
<1> HIDE DEF ProjectFlags
<1> QED
  BY <1>1, <1>2, <1>3, <1>4, <1>5, <1>6, <1>7
     DEF ProjectClicks, ProjectAnswers, Settled, Answered, Refused

LEMMA ConnectorsFlagsStep ==
  ASSUME ConnectorsFlags, ConnectorsClicks \/ ConnectorsAnswers
  PROVE  ConnectorsFlags'
<1> USE DEF ConnectorsFlags, Held, Made, Done
<1>1. ASSUME \/ OpenConnectorForm \/ CloseConnectorForm
             \/ \E to \in FormSteps : StepConnectorForm(to)
      PROVE  ConnectorsFlags'
  BY <1>1 DEF OpenConnectorForm, CloseConnectorForm, StepConnectorForm, Local
<1>2. CASE SaveConnector
  BY <1>2, SendIs DEF SaveConnector
<1>3. ASSUME NEW k \in Items, NEW op \in {"testConnector", "syncConnector"},
             DeleteConnector(k) \/ CheckConnector(op, k)
      PROVE  ConnectorsFlags'
  BY <1>3, SendIs DEF DeleteConnector, CheckConnector
<1>4. ASSUME NEW c \in calls, c.op = "loadConnectors", ConnectorsLoaded(c)
      PROVE  ConnectorsFlags'
  BY <1>4 DEF ConnectorsLoaded
<1>5. ASSUME NEW c \in calls, c.op = "createConnector", ConnectorSaved(c)
      PROVE  ConnectorsFlags'
  <2>1. CASE c.stage = "ok"
    BY <1>5, <2>1, ThenIs DEF ConnectorSaved
  <2>2. CASE c.stage # "ok"
    BY <1>5, <2>2 DEF ConnectorSaved
  <2> QED
    BY <2>1, <2>2
<1>6. ASSUME NEW c \in calls, c.op \in {"testConnector", "syncConnector", "deleteConnector"},
             ConnectorChecked(c) \/ ConnectorDeleted(c)
      PROVE  ConnectorsFlags'
  BY <1>6 DEF ConnectorChecked, ConnectorDeleted
<1> HIDE DEF ConnectorsFlags
<1> QED
  BY <1>1, <1>2, <1>3, <1>4, <1>5, <1>6
     DEF ConnectorsClicks, ConnectorsAnswers, Settled, Answered, Refused

-----------------------------------------------------------------------------
(* Dashboards                                                               *)

DashboardsFlags ==
  /\ {"loading", "creating"} \subseteq DOMAIN ui
  /\ Held(ui.loading, calls, {"loadDashboards"})
  /\ Held(ui.creating, calls, {"createDashboard"})

LEMMA DashboardsFlagsStep ==
  ASSUME DashboardsFlags, DashboardsClicks \/ DashboardsAnswers
  PROVE  DashboardsFlags'
<1> USE DEF DashboardsFlags, Held, Made, Done
<1>1. CASE OpenDashboardForm \/ CloseDashboardForm
  BY <1>1 DEF OpenDashboardForm, CloseDashboardForm, Local
<1>2. CASE CreateDashboard
  BY <1>2, SendIs DEF CreateDashboard
<1>3. ASSUME NEW d \in Items, DeleteDashboard(d) PROVE DashboardsFlags'
  BY <1>3, SendIs DEF DeleteDashboard
<1>4. ASSUME NEW c \in calls, c.op = "loadDashboards", DashboardsLoaded(c)
      PROVE  DashboardsFlags'
  BY <1>4 DEF DashboardsLoaded
<1>5. ASSUME NEW c \in calls, \/ c.op = "createDashboard" /\ DashboardCreated(c)
                              \/ c.op = "deleteDashboard" /\ DashboardDeleted(c)
      PROVE  DashboardsFlags'
  BY <1>5 DEF DashboardCreated, DashboardDeleted
<1> HIDE DEF DashboardsFlags
<1> QED
  BY <1>1, <1>2, <1>3, <1>4, <1>5
     DEF DashboardsClicks, DashboardsAnswers, Settled, Answered, Refused

\* The question to the assistant, or the widget that comes of it.
AwaitsOf(c) == c.op = "textToWidget" \/ (c.op = "putWidgets" /\ c.arg.after = "ai")

VersionsFlags ==
  LET parts == ui.versions
  IN  /\ {"loading", "saving", "restoring"} \subseteq DOMAIN parts
      /\ Held(parts.loading, calls, {"loadVersions"})
      /\ Held(parts.saving, calls, {"saveVersion"})
      /\ Held(parts.restoring, calls, {"restoreVersion"})

\* The error takes the place of all that waits.
EditorFlags ==
  /\ {"loading", "asking", "error", "versions"} \subseteq DOMAIN ui
  /\ VersionsFlags
  /\ ui.error \/ /\ Held(ui.loading, calls, {"loadDashboard"})
                 /\ ui.asking => \E c \in calls : AwaitsOf(c)

PanelOps == {"loadVersions", "saveVersion", "restoreVersion"}

\* What is not the panel's stays when it is closed.
LEMMA WithoutPanelKeeps ==
  ASSUME NEW cs, NEW c \in cs, c.op \notin PanelOps
  PROVE  c \in WithoutPanel(cs)
BY DEF WithoutPanel, PanelOps

\* A step of the page that leaves the panel alone.
EditorKept ==
  /\ {"loading", "asking", "error", "versions"} \subseteq DOMAIN ui'
  /\ ui'.versions = ui.versions /\ ui'.error = ui.error
  /\ ui'.loading = ui.loading /\ ui'.asking = ui.asking

\* The parts of the panel that wait.
SamePanel(v, w) ==
  /\ {"loading", "saving", "restoring"} \subseteq DOMAIN v
  /\ v.loading = w.loading /\ v.saving = w.saving /\ v.restoring = w.restoring

LEMMA EditorFlagsStep ==
  ASSUME EditorFlags, EditorClicks \/ EditorAnswers
  PROVE  EditorFlags'
<1> USE DEF EditorFlags, VersionsFlags, Held, Made, Done, AwaitsOf
<1>1. ASSUME EditorKept, calls \subseteq calls' PROVE EditorFlags'
  BY <1>1 DEF EditorKept
<1>2. ASSUME \/ ToggleEdit \/ OpenAdd \/ CloseAdd \/ ChooseAddMode \/ CancelDeleteWidget
             \/ CloseSettings \/ \E i \in Items : AskDeleteWidget(i) \/ OpenSettings(i)
      PROVE  EditorFlags'
  <2>1. calls' = calls /\ EditorKept
    BY <1>2 DEF ToggleEdit, OpenAdd, CloseAdd, ChooseAddMode, CancelDeleteWidget,
                CloseSettings, AskDeleteWidget, OpenSettings, Local, EditorKept
  <2> QED
    BY <1>1, <2>1
<1>3. CASE AskAI
  BY <1>3, SendIs DEF AskAI
<1>4. ASSUME NEW i \in Items, NEW size \in Sizes, AddWidget(i, size) PROVE EditorFlags'
  BY <1>1, <1>4, SendIs DEF AddWidget, Put, EditorKept
<1>5. ASSUME NEW i \in Items, NEW j \in Items, SwapWidgets(i, j) PROVE EditorFlags'
  BY <1>1, <1>5, SendIs DEF SwapWidgets, Put, EditorKept
<1>6. CASE DeleteWidget
  BY <1>1, <1>6, SendIs DEF DeleteWidget, Put, EditorKept
<1>7. CASE SaveSettings
  <2>1. \E layout, loose : Put(layout, "settings", loose)
    BY <1>7 DEF SaveSettings
  <2> QED
    BY <1>1, <1>7, <2>1, SendIs DEF SaveSettings, Put, EditorKept
<1>8. CASE ToggleVersions
  <2>1. PICK v : /\ v = IF ui.versions.open THEN ClosedVersions ELSE OpenVersions
                 /\ ui' = [ui EXCEPT !.versions = v]
    BY <1>8 DEF ToggleVersions
  <2>2. CASE ui.versions.open
    <3>1. /\ {"loading", "saving", "restoring"} \subseteq DOMAIN v
          /\ v.loading = FALSE /\ v.saving = FALSE /\ v.restoring = FALSE
      BY <2>1, <2>2 DEF ClosedVersions
    <3>2. \A c \in calls : c.op \notin PanelOps => c \in calls'
      BY <1>8, <2>2, WithoutPanelKeeps DEF ToggleVersions
    <3> QED
      BY <2>1, <3>1, <3>2 DEF PanelOps
  <2>3. CASE ~ui.versions.open
    <3>1. /\ {"loading", "saving", "restoring"} \subseteq DOMAIN v
          /\ v.saving = FALSE /\ v.restoring = FALSE
      BY <2>1, <2>3 DEF OpenVersions, ClosedVersions
    <3>2. PICK r : calls' = calls \cup {r} /\ Made(r, "loadVersions", None, None)
      BY <1>8, <2>3, SendIs DEF ToggleVersions
    <3> QED
      BY <2>1, <3>1, <3>2
  <2> QED
    BY <2>2, <2>3
<1>9. CASE RetryVersions
  <2>1. PICK r : calls' = calls \cup {r} /\ Made(r, "loadVersions", None, None)
    BY <1>9, SendIs DEF RetryVersions
  <2> QED
    BY <1>9, <2>1 DEF RetryVersions
<1>10. ASSUME \/ OpenVersionForm \/ CloseVersionModal
              \/ \E layout \in ui.versions.list : AskRestore(layout)
       PROVE  EditorFlags'
  <2>1. calls' = calls
    BY <1>10 DEF OpenVersionForm, CloseVersionModal, AskRestore, Local
  <2>2. /\ {"loading", "asking", "error", "versions"} \subseteq DOMAIN ui'
        /\ SamePanel(ui'.versions, ui.versions) /\ ui'.error = ui.error
        /\ ui'.loading = ui.loading /\ ui'.asking = ui.asking
    <3>1. CASE OpenVersionForm
      BY <3>1 DEF SamePanel, OpenVersionForm
    <3>2. CASE CloseVersionModal
      BY <3>2 DEF SamePanel, CloseVersionModal
    <3>3. CASE \E layout \in ui.versions.list : AskRestore(layout)
      BY <3>3 DEF SamePanel, AskRestore
    <3> QED
      BY <1>10, <3>1, <3>2, <3>3
  <2> QED
    BY <2>1, <2>2 DEF SamePanel
<1>11. CASE SaveVersion
  <2>1. PICK r, arg : calls' = calls \cup {r} /\ Made(r, "saveVersion", None, arg)
    BY <1>11, SendIs DEF SaveVersion
  <2> QED
    BY <1>11, <2>1 DEF SaveVersion
<1>12. CASE ConfirmRestore
  <2>1. PICK r, arg : calls' = calls \cup {r} /\ Made(r, "restoreVersion", None, arg)
    BY <1>12, SendIs DEF ConfirmRestore
  <2> QED
    BY <1>12, <2>1 DEF ConfirmRestore
<1>13. ASSUME NEW c \in calls, c.op = "loadDashboard", EditorLoaded(c) PROVE EditorFlags'
  BY <1>13 DEF EditorLoaded
<1>14. ASSUME NEW c \in calls, c.op = "textToWidget", AIAnswered(c) PROVE EditorFlags'
  <2>1. CASE c.stage = "failed"
    BY <1>14, <2>1 DEF AIAnswered
  <2>2. CASE c.stage # "failed"
    <3>1. PICK w : Then(c, "putWidgets", None, [widgets |-> w, after |-> "ai", loose |-> FALSE])
      BY <1>14, <2>2 DEF AIAnswered
    <3>2. PICK r : /\ calls' = (calls \ {c}) \cup {r} /\ r.op = "putWidgets"
                   /\ r.arg.after = "ai"
      BY <3>1, ThenIs
    <3>3. ui' = ui
      BY <1>14, <2>2 DEF AIAnswered
    <3> QED
      BY <1>14, <3>2, <3>3
  <2> QED
    BY <2>1, <2>2
<1>15. ASSUME NEW c \in calls, c.op = "putWidgets", WidgetsPut(c) PROVE EditorFlags'
  <2>1. PICK asking : asking = IF c.arg.after = "ai" THEN FALSE ELSE ui.asking
    OBVIOUS
  <2>2. PICK add, settings :
          LET closed == [ui EXCEPT !.add = add, !.settings = settings, !.asking = asking]
          IN  ui' = IF c.stage = "ok" THEN [closed EXCEPT !.widgets = c.ans.widgets]
                    ELSE [closed EXCEPT !.error = TRUE, !.versions = ClosedVersions]
    BY <1>15, <2>1, Zenon DEF WidgetsPut
  <2>3. CASE c.stage = "ok"
    <3>1. calls' = calls \ {c}
      BY <1>15, <2>3 DEF WidgetsPut
    <3>2. /\ {"loading", "asking", "error", "versions"} \subseteq DOMAIN ui'
          /\ ui'.versions = ui.versions /\ ui'.error = ui.error
          /\ ui'.loading = ui.loading /\ ui'.asking = asking
      BY <2>2, <2>3
    <3> QED
      BY <1>15, <2>1, <3>1, <3>2
  <2>4. CASE c.stage # "ok"
    BY <2>2, <2>4 DEF ClosedVersions
  <2> QED
    BY <2>3, <2>4
<1>16. ASSUME NEW c \in calls, c.op = "loadVersions", VersionsLoaded(c) PROVE EditorFlags'
  BY <1>16 DEF VersionsLoaded
<1>17. ASSUME NEW c \in calls, c.op = "saveVersion", VersionSaved(c) PROVE EditorFlags'
  BY <1>17 DEF VersionSaved
<1>18. ASSUME NEW c \in calls, VersionRestored(c), c.op \in {"restoreVersion", "lateRestore"}
       PROVE  EditorFlags'
  <2>1. CASE c.stage = "ok"
    <3>1. PICK r, cs : calls' = cs \cup {r} /\ Made(r, "loadDashboard", None, None)
      BY <1>18, <2>1, SendAlsoIs DEF VersionRestored
    <3>2. ui' = EditorStart
      BY <1>18, <2>1 DEF VersionRestored
    <3> QED
      BY <3>1, <3>2 DEF EditorStart, ClosedVersions
  <2>2. CASE c.stage # "ok" /\ c.op = "restoreVersion"
    BY <1>18, <2>2 DEF VersionRestored
  <2>3. CASE c.stage # "ok" /\ c.op = "lateRestore"
    BY <1>18, <2>3 DEF VersionRestored
  <2> QED
    BY <1>18, <2>1, <2>2, <2>3
<1>19. ASSUME NEW c \in calls, c.op \in {"latePut", "lateVersion"}, DropLate(c)
       PROVE  EditorFlags'
  BY <1>19 DEF DropLate
<1> HIDE DEF EditorFlags
<1> QED
  BY <1>2, <1>3, <1>4, <1>5, <1>6, <1>7, <1>8, <1>9, <1>10, <1>11, <1>12, <1>13, <1>14,
     <1>15, <1>16, <1>17, <1>18, <1>19
     DEF EditorClicks, EditorAnswers, Settled, Answered, Refused, InFlight

-----------------------------------------------------------------------------
(* The log builder                                                          *)

BuilderFlags ==
  /\ {"uploading", "building", "suggesting"} \subseteq DOMAIN ui
  /\ Held(ui.uploading, calls, {"uploadRaw"})
  /\ Held(ui.building, calls, {"buildLog"})
  /\ Held(ui.suggesting, calls, {"suggestMapping"})
  /\ \A c \in calls : c.op = "uploadRaw" => c.arg.mode \in {"standard", "ocel"}
  /\ "mode" \in DOMAIN ui /\ ui.mode \in {"standard", "ocel"}

\* What only changes the table of the form.
BuilderKept ==
  /\ calls' = calls
  /\ {"uploading", "building", "suggesting", "mode"} \subseteq DOMAIN ui'
  /\ ui'.uploading = ui.uploading /\ ui'.building = ui.building
  /\ ui'.suggesting = ui.suggesting /\ ui'.mode \in {"standard", "ocel"}

LEMMA BuilderFlagsStep ==
  ASSUME BuilderFlags, BuilderClicks \/ BuilderAnswers
  PROVE  BuilderFlags'
<1> USE DEF BuilderFlags, Held, Made, Done
<1>1. ASSUME BuilderKept PROVE BuilderFlags'
  BY <1>1 DEF BuilderKept
<1>2. ASSUME NEW t \in Items, ChooseFile(t) PROVE BuilderFlags'
  <2>1. PICK r : /\ calls' = calls \cup {r} /\ r.op = "uploadRaw"
                 /\ r.arg = [cols |-> WideColumns, mode |-> ui.mode]
    BY <1>2, SendIs DEF ChooseFile
  <2> QED
    BY <1>2, <2>1 DEF ChooseFile
<1>3. ASSUME NEW k, NEW t, RemoveSource(k) \/ SetJoin(k, t) PROVE BuilderFlags'
  <2>1. CASE RemoveSource(k)
    BY <1>1, <2>1 DEF RemoveSource, BuilderKept
  <2>2. CASE SetJoin(k, t)
    BY <1>1, <2>2 DEF SetJoin, Local, BuilderKept
  <2> QED
    BY <1>3, <2>1, <2>2
<1>4. ASSUME ResetBuilder \/ ApplyPack \/ ClearPack \/ SetBuildMode \/ AddEvent
      PROVE  BuilderFlags'
  BY <1>1, <1>4
     DEF ResetBuilder, ApplyPack, ClearPack, SetBuildMode, AddEvent, Local, BuilderKept
<1>5. ASSUME NEW t \in Items, ToggleObjectType(t) \/ SetCaseId(t) PROVE BuilderFlags'
  BY <1>1, <1>5 DEF ToggleObjectType, SetCaseId, Local, BuilderKept
<1>6. ASSUME NEW old, RemoveEvent(old) \/ \E t \in Items : UpdateEvent(old, t)
      PROVE  BuilderFlags'
  BY <1>1, <1>6 DEF RemoveEvent, UpdateEvent, Local, BuilderKept
<1>7. CASE SuggestMapping
  <2>1. PICK r, arg : calls' = calls \cup {r} /\ Made(r, "suggestMapping", None, arg)
    BY <1>7, SendIs DEF SuggestMapping
  <2> QED
    BY <1>7, <2>1 DEF SuggestMapping
<1>8. CASE BuildLog
  <2>1. PICK r, arg : calls' = calls \cup {r} /\ Made(r, "buildLog", None, arg)
    BY <1>8, SendIs DEF BuildLog
  <2> QED
    BY <1>8, <2>1 DEF BuildLog
<1>9. ASSUME NEW c \in calls, \/ c.op = "loadPacks" /\ PacksLoaded(c)
                              \/ c.op = "suggestMapping" /\ MappingSuggested(c)
      PROVE  BuilderFlags'
  BY <1>9 DEF PacksLoaded, MappingSuggested
<1>10. ASSUME NEW c \in calls, c.op = "uploadRaw", TableUploaded(c) PROVE BuilderFlags'
  <2>1. CASE c.stage = "failed" /\ ui' = [ui EXCEPT !.uploading = FALSE] /\ Done(c)
    BY <1>10, <2>1
  <2>2. CASE FirstUploaded(c)
    <3>1. PICK v : v = (ui.suggesting \/ c.arg.mode = "standard")
      OBVIOUS
    <3>2. v => ui.suggesting \/ c.arg.mode = "standard"
      BY <3>1, Zenon
    <3>3. /\ {"uploading", "building", "suggesting", "mode"} \subseteq DOMAIN ui'
          /\ ui'.uploading = FALSE /\ ui'.building = ui.building
          /\ ui'.suggesting = v /\ ui'.mode = ui.mode
      BY <2>2, <3>1 DEF FirstUploaded
    <3>4. CASE c.arg.mode = "ocel"
      BY <1>10, <2>2, <3>2, <3>3, <3>4 DEF FirstUploaded
    <3>5. CASE c.arg.mode # "ocel"
      <4>1. PICK r, arg : calls' = (calls \ {c}) \cup {r} /\ Made(r, "suggestMapping", None, arg)
        BY <2>2, <3>5, ThenIs DEF FirstUploaded
      <4> QED
        BY <1>10, <3>3, <4>1
    <3> QED
      BY <3>4, <3>5
  <2>3. CASE NextUploaded(c)
    BY <1>10, <2>3 DEF NextUploaded
  <2> QED
    BY <1>10, <2>1, <2>2, <2>3 DEF TableUploaded
<1>11. ASSUME NEW c \in calls, c.op = "buildLog", LogBuilt(c) PROVE BuilderFlags'
  BY <1>11 DEF LogBuilt
<1> HIDE DEF BuilderFlags
<1> QED
  BY <1>2, <1>3, <1>4, <1>5, <1>6, <1>7, <1>8, <1>9, <1>10, <1>11
     DEF BuilderClicks, BuilderAnswers, Settled, Answered, Refused

-----------------------------------------------------------------------------
(* The process map and the views                                            *)

ProcessFlags ==
  /\ {"loading", "logLoading"} \subseteq DOMAIN ui
  /\ Held(ui.loading, calls, {"discover"})
  /\ Held(ui.logLoading, calls, {"loadEventLog"})

\* What a page is shown as has nothing to do with what it waits for.
Awaits(u, v) ==
  /\ {"loading", "logLoading"} \subseteq DOMAIN u
  /\ u.loading = v.loading /\ u.logLoading = v.logLoading

LEMMA LandedAwaits ==
  ASSUME NEW u, {"loading", "logLoading"} \subseteq DOMAIN u
  PROVE  Awaits(Landed(u), u)
BY DEF Landed, Awaits

LEMMA FetchDiscoveryIs ==
  ASSUME NEW u, NEW key, NEW others, {"loading", "logLoading"} \subseteq DOMAIN u,
         FetchDiscovery(u, key, others)
  PROVE  /\ {"loading", "logLoading"} \subseteq DOMAIN ui' /\ ui'.logLoading = u.logLoading
         /\ others \subseteq calls' /\ Held(ui'.loading, calls', {"discover"})
<1>1. CASE key \in db.maps
  <2>1. PICK v : v = [u EXCEPT !.map = key, !.loading = FALSE]
    OBVIOUS
  <2>2. {"loading", "logLoading"} \subseteq DOMAIN v /\ v.loading = FALSE
        /\ v.logLoading = u.logLoading
    BY <2>1
  <2>3. PICK w : w = Landed(v)
    OBVIOUS
  <2>4. Awaits(w, v)
    BY <2>2, <2>3, LandedAwaits
  <2>5. ui' = w /\ calls' = others
    BY <1>1, <2>1, <2>3 DEF FetchDiscovery
  <2> QED
    BY <2>2, <2>4, <2>5 DEF Awaits, Held
<1>2. CASE key \notin db.maps
  <2>1. PICK v : v = [u EXCEPT !.loading = TRUE, !.error = FALSE]
    OBVIOUS
  <2>2. {"loading", "logLoading"} \subseteq DOMAIN v /\ v.logLoading = u.logLoading
    BY <2>1
  <2>3. PICK w : w = Landed(v)
    OBVIOUS
  <2>4. Awaits(w, v)
    BY <2>2, <2>3, LandedAwaits
  <2>5. ui' = w /\ SendAlso("discover", "map", key, others)
    BY <1>2, <2>1, <2>3 DEF FetchDiscovery
  <2>6. PICK r : calls' = others \cup {r} /\ Made(r, "discover", "map", key)
    BY <2>5, SendAlsoIs
  <2> QED
    BY <2>2, <2>4, <2>5, <2>6 DEF Awaits, Held, Made
<1> QED
  BY <1>1, <1>2

LEMMA ProcessFlagsStep ==
  ASSUME ProcessFlags, ProcessClicks \/ ProcessAnswers
  PROVE  ProcessFlags'
<1> USE DEF ProcessFlags, Held, Done
<1>1. ASSUME NEW u, Awaits(u, ui), Rescoped(u) PROVE ProcessFlags'
  <2>1. CASE FetchDiscovery(u, ScopeOf(u), calls)
    BY <1>1, <2>1, FetchDiscoveryIs DEF Awaits
  <2>2. CASE ui' = Landed(u) /\ UNCHANGED <<calls, clash>>
    <3>1. PICK w : w = Landed(u)
      OBVIOUS
    <3>2. Awaits(w, u)
      BY <1>1, <3>1, LandedAwaits DEF Awaits
    <3> QED
      BY <1>1, <2>2, <3>1, <3>2 DEF Awaits
  <2> QED
    BY <1>1, <2>1, <2>2 DEF Rescoped
<1>2. ASSUME NEW log, OpenLog(log) PROVE ProcessFlags'
  <2>1. PICK named : named = IF log \in db.logs THEN {}
                             ELSE {Request("loadEventLog", "log", log, calls)}
    OBVIOUS
  <2>2. PICK first : first = [ui EXCEPT !.log = log, !.logLoading = log \notin db.logs,
                                        !.eventLog = IF log \in db.logs THEN log ELSE @]
    OBVIOUS
  <2>3. {"loading", "logLoading"} \subseteq DOMAIN first
        /\ first.logLoading = (log \notin db.logs)
    BY <2>2
  <2>4. PICK opened : opened = Landed(first)
    OBVIOUS
  <2>5. Awaits(opened, first)
    BY <2>3, <2>4, LandedAwaits
  <2>6. PICK shown : shown = Shown(opened, ScopeOf(opened))
    OBVIOUS
  <2>7. Awaits(shown, opened)
    BY <2>5, <2>6 DEF Shown, Awaits
  <2>8. PICK wiped : wiped = WipeChips(shown)
    OBVIOUS
  <2>9. Awaits(wiped, shown)
    BY <2>7, <2>8 DEF WipeChips, Awaits
  <2>10. \E asked : FetchDiscovery(wiped, ScopeOf(wiped), calls \cup asked \cup named)
    BY <1>2, <2>1, <2>2, <2>4, <2>6, <2>8, Zenon DEF OpenLog
  <2>11. PICK others : /\ calls \cup named \subseteq others
                       /\ FetchDiscovery(wiped, ScopeOf(wiped), others)
    BY <2>10
  <2>12. /\ {"loading", "logLoading"} \subseteq DOMAIN ui'
         /\ ui'.logLoading = wiped.logLoading
         /\ others \subseteq calls' /\ Held(ui'.loading, calls', {"discover"})
    BY <2>9, <2>11, FetchDiscoveryIs DEF Awaits
  <2>13. ui'.logLoading = (log \notin db.logs)
    BY <2>3, <2>5, <2>7, <2>9, <2>12 DEF Awaits
  <2>14. log \notin db.logs => \E c \in named : c.op = "loadEventLog"
    BY <2>1, RequestIs
  <2> QED
    BY <2>11, <2>12, <2>13, <2>14
<1>3. ASSUME NEW a, ChooseAlgorithm(a) PROVE ProcessFlags'
  <2>1. PICK key : key = [ScopeOf(ui) EXCEPT !.algorithm = a]
    OBVIOUS
  <2>2. PICK shown : shown = Shown(ui, key)
    OBVIOUS
  <2>3. Awaits(shown, ui)
    BY <2>2 DEF Shown, Awaits
  <2>4. PICK u : u = [shown EXCEPT !.algorithm = a, !.noise = FALSE]
    OBVIOUS
  <2>5. Awaits(u, ui)
    BY <2>3, <2>4 DEF Awaits
  <2>6. PICK others : calls \subseteq others /\ FetchDiscovery(u, ScopeOf(u), others)
    <3>1. FetchDiscovery(u, ScopeOf(u), calls \cup Asked(key))
      BY <1>3, <2>1, <2>2, <2>4, Zenon DEF ChooseAlgorithm
    <3> QED
      BY <3>1
  <2>7. /\ {"loading", "logLoading"} \subseteq DOMAIN ui' /\ ui'.logLoading = u.logLoading
        /\ others \subseteq calls' /\ Held(ui'.loading, calls', {"discover"})
    BY <2>5, <2>6, FetchDiscoveryIs DEF Awaits
  <2> QED
    BY <2>5, <2>6, <2>7 DEF Awaits
<1>4. CASE RetryDiscovery
  BY <1>4, FetchDiscoveryIs DEF RetryDiscovery
<1>5. ASSUME SetNoise \/ ClearChips PROVE ProcessFlags'
  <2>1. PICK u : Rescoped(u) /\ (\/ u = [ui EXCEPT !.noise = ~ui.noise]
                                 \/ u = [ui EXCEPT !.chips = {}])
    BY <1>5 DEF SetNoise, ClearChips
  <2>2. Awaits(u, ui)
    BY <2>1 DEF Awaits
  <2> QED
    BY <1>1, <2>1, <2>2
<1>6. ASSUME NEW f, FilterWith(f) \/ FilterWithout(f) PROVE ProcessFlags'
  <2>1. PICK v, s : /\ v = [ui EXCEPT !.keep = s] \/ v = [ui EXCEPT !.without = s]
                    /\ Rescoped(ReflectPanel(v))
    BY <1>6 DEF FilterWith, FilterWithout
  <2>2. PICK u : u = ReflectPanel(v)
    OBVIOUS
  <2>3. Awaits(v, ui)
    BY <2>1 DEF Awaits
  <2>4. Awaits(u, ui)
    BY <2>2, <2>3 DEF Awaits, ReflectPanel
  <2> QED
    BY <1>1, <2>1, <2>2, <2>4
<1>7. ASSUME (\E f : AddChip(f)) \/ (\E chip : ToggleChip(chip) \/ RemoveChip(chip))
      PROVE  ProcessFlags'
  <2>1. PICK u, s : u = [ui EXCEPT !.chips = s] /\ Rescoped(u)
    BY <1>7 DEF AddChip, ToggleChip, RemoveChip
  <2>2. Awaits(u, ui)
    BY <2>1 DEF Awaits
  <2> QED
    BY <1>1, <2>1, <2>2
<1>8. ASSUME ChooseEngine \/ \E t : ChooseTab(t) PROVE ProcessFlags'
  BY <1>8 DEF ChooseEngine, ChooseTab, Local
<1>9. ASSUME NEW c \in calls, c.op = "loadEventLog", EventLogLoaded(c) PROVE ProcessFlags'
  BY <1>9 DEF EventLogLoaded
<1>10. ASSUME NEW c \in calls, c.op = "discover", MapDiscovered(c) PROVE ProcessFlags'
  <2>1. CASE c.stage = "ok"
    <3>1. PICK v : v = [ui EXCEPT !.map = c.arg, !.loading = FALSE]
      OBVIOUS
    <3>2. {"loading", "logLoading"} \subseteq DOMAIN v /\ v.loading = FALSE
          /\ v.logLoading = ui.logLoading
      BY <3>1
    <3>3. PICK w : w = Landed(v)
      OBVIOUS
    <3>4. Awaits(w, v)
      BY <3>2, <3>3, LandedAwaits
    <3>5. ui' = w /\ calls' = calls \ {c}
      BY <1>10, <2>1, <3>1, <3>3 DEF MapDiscovered
    <3> QED
      BY <1>10, <3>2, <3>4, <3>5 DEF Awaits
  <2>2. CASE c.stage # "ok"
    BY <1>10, <2>2 DEF MapDiscovered
  <2> QED
    BY <2>1, <2>2
<1> HIDE DEF ProcessFlags
<1> QED
  BY <1>2, <1>3, <1>4, <1>5, <1>6, <1>7, <1>8, <1>9, <1>10
     DEF ProcessClicks, ProcessAnswers, Settled, Answered, Refused

\* The load that the view waits for is the one whose answer it takes.
ViewsFlags ==
  /\ {"loading", "view", "log", "setting"} \subseteq DOMAIN ui
  /\ ui.loading => \E c \in calls : c.op = "analyse" /\ c.arg.live

StoreFlags ==
  /\ {"busy", "exporting", "view"} \subseteq DOMAIN ui
  /\ DOMAIN ui.busy = MiningViews
  /\ \A v \in MiningViews : ui.busy[v] => \E c \in calls : c.op = "getAnalysis" /\ c.on = v
  /\ Held(ui.exporting, calls, {"exportPdf"})

LEMMA LoadIs ==
  ASSUME NEW u, NEW others, Load(u, others), {"loading", "view", "log", "setting"} \subseteq DOMAIN u
  PROVE  ViewsFlags'
<1>1. CASE Cached(u)
  <2>1. PICK key, err : ui' = [u EXCEPT !.shown = key, !.rest = key, !.loading = FALSE,
                                        !.error = err]
    BY <1>1 DEF Load
  <2> QED
    BY <2>1 DEF ViewsFlags
<1>2. CASE ~Cached(u)
  <2>1. {"loading", "view", "log", "setting"} \subseteq DOMAIN ui'
    BY <1>2 DEF Load
  <2>2. PICK asking : asking = [key |-> KeyOf(u), live |-> TRUE, blank |-> u.shown = None]
    OBVIOUS
  <2>3. PICK r : r = Request("analyse", u.view, asking, others)
    OBVIOUS
  <2>4. calls' = others \cup {r}
    BY <1>2, <2>2, <2>3 DEF Load
  <2>5. r.op = "analyse" /\ r.arg = asking
    BY <2>3, RequestIs
  <2>6. r.arg.live
    BY <2>2, <2>5
  <2> QED
    BY <2>1, <2>4, <2>5, <2>6 DEF ViewsFlags
<1> QED
  BY <1>1, <1>2

LEMMA ViewsFlagsStep ==
  ASSUME ViewsFlags, Unguarded(calls), ViewsClicks \/ ViewsAnswers
  PROVE  ViewsFlags'
<1> DEFINE parts == {"loading", "view", "log", "setting"}
<1>0. parts \subseteq DOMAIN ui
  BY DEF ViewsFlags
<1>1. ASSUME NEW u, parts \subseteq DOMAIN u, Effect(u) PROVE ViewsFlags'
  BY <1>1, LoadIs DEF Effect
<1>2. ASSUME NEW log, OpenOtherLog(log) PROVE ViewsFlags'
  <2>1. PICK set : set = (ui.setting /\ ~Is("held"))
    OBVIOUS
  <2>2. PICK w : w = [ui EXCEPT !.log = log, !.setting = set]
    OBVIOUS
  <2>3. parts \subseteq DOMAIN w /\ w.loading = ui.loading
    BY <1>0, <2>2
  <2>4. PICK u : u = Rekeyed(w)
    OBVIOUS
  <2>5. parts \subseteq DOMAIN u /\ u.loading \in {ui.loading, FALSE}
        /\ (Is("keyed") => u.loading = FALSE)
    BY <2>3, <2>4 DEF Rekeyed, Mounted
  <2>6. PICK others : others = IF Is("keyed") THEN Dropped(calls) ELSE calls
    OBVIOUS
  <2>7. \/ ui' = u /\ calls' = others
        \/ \E cs : Load(u, cs)
    <3>1. IF Is("asked") THEN ui' = u /\ calls' = others /\ UNCHANGED clash
          ELSE Load(u, IF Is("guarded") THEN Dropped(others) ELSE others)
      BY <1>2, <2>1, <2>2, <2>4, <2>6, Zenon DEF OpenOtherLog
    <3> QED
      BY <3>1
  <2>8. CASE \E cs : Load(u, cs)
    BY <2>5, <2>8, LoadIs
  <2>9. CASE ui' = u /\ calls' = others
    <3>1. CASE Is("keyed")
      BY <2>5, <2>9, <3>1 DEF ViewsFlags
    <3>2. CASE ~Is("keyed")
      <4>1. calls' = calls
        BY <2>6, <2>9, <3>2
      <4> QED
        BY <2>5, <2>9, <4>1 DEF ViewsFlags
    <3> QED
      BY <3>1, <3>2
  <2> QED
    BY <2>7, <2>8, <2>9
<1>3. CASE ChangeSetting
  <2>1. PICK u : u = [ui EXCEPT !.setting = ~@]
    OBVIOUS
  <2>2. parts \subseteq DOMAIN u /\ u.loading = ui.loading
    BY <1>0, <2>1
  <2>3. Load(u, calls) \/ Effect(u) \/ (ui' = u /\ calls' = calls)
    BY <1>3, <2>1 DEF ChangeSetting
  <2>4. CASE ui' = u /\ calls' = calls
    BY <2>2, <2>4 DEF ViewsFlags
  <2> QED
    BY <1>1, <2>2, <2>3, <2>4, LoadIs
<1>4. CASE Ask
  BY <1>0, <1>4, LoadIs DEF Ask
<1>5. CASE Retry
  <2>1. PICK set : set = (ui.setting /\ ~Is("held"))
    OBVIOUS
  <2>2. PICK u : u = [ui EXCEPT !.retried = TRUE, !.setting = set]
    OBVIOUS
  <2>3. parts \subseteq DOMAIN u
    BY <1>0, <2>2
  <2>4. Load(ui, calls) \/ Effect(u)
    BY <1>5, <2>1, <2>2, Zenon DEF Retry
  <2> QED
    BY <1>0, <1>1, <2>3, <2>4, LoadIs
<1>6. CASE ReloadPage
  <2>1. PICK u : u = Mounted(ui.view, ui.log)
    OBVIOUS
  <2>2. parts \subseteq DOMAIN u
    BY <2>1 DEF Mounted
  <2>3. PICK asking : asking = [key |-> KeyOf(u), live |-> TRUE, blank |-> TRUE]
    OBVIOUS
  <2>4. PICK r : r = Request("analyse", ui.view, asking, {})
    OBVIOUS
  <2>5. calls' = {r} /\ ui' = [u EXCEPT !.loading = TRUE, !.asked = KeyOf(u)]
    BY <1>6, <2>1, <2>3, <2>4 DEF ReloadPage
  <2>6. r.op = "analyse" /\ r.arg = asking
    BY <2>4, RequestIs
  <2>7. r.arg.live
    BY <2>3, <2>6
  <2> QED
    BY <2>2, <2>5, <2>6, <2>7 DEF ViewsFlags
<1>7. ASSUME NEW c \in calls, LosePart(c) PROVE ViewsFlags'
  <2>1. IsCall(c)
    BY DEF Unguarded
  <2>2. PICK d : d = [c EXCEPT !.stage = "part"]
    OBVIOUS
  <2>3. SameCall(d, c, "part")
    BY <2>1, <2>2, RefusedIs
  <2>4. calls' = (calls \ {c}) \cup {d} /\ ui' = ui
    BY <1>7, <2>2 DEF LosePart
  <2> QED
    BY <2>3, <2>4 DEF ViewsFlags, SameCall
<1>8. ASSUME NEW c \in calls, Analysed(c) \/ AnalysisFailed(c) PROVE ViewsFlags'
  <2>1. calls' = calls \ {c}
    BY <1>8 DEF Analysed, AnalysisFailed, Done
  <2>2. CASE c.arg.live
    <3>1. parts \subseteq DOMAIN ui' /\ ui'.loading = FALSE
      BY <1>0, <1>8, <2>2 DEF Analysed, AnalysisFailed
    <3> QED
      BY <3>1 DEF ViewsFlags
  <2>3. CASE ~c.arg.live
    <3>1. ui' = ui
      BY <1>8, <2>3 DEF Analysed, AnalysisFailed
    <3> QED
      BY <2>1, <2>3, <3>1 DEF ViewsFlags
  <2> QED
    BY <2>2, <2>3
<1> QED
  BY <1>2, <1>3, <1>4, <1>5, <1>6, <1>7, <1>8 DEF ViewsClicks, ViewsAnswers, Refused

\* A view that is fetched is busy, the others stay as they were.
LEMMA FetchAnalysisIs ==
  ASSUME NEW u, {"busy", "exporting", "view"} \subseteq DOMAIN u, DOMAIN u.busy = MiningViews,
         NEW view, NEW log, NEW others, FetchAnalysis(u, view, log, others)
  PROVE  /\ {"busy", "exporting", "view"} \subseteq DOMAIN ui' /\ ui'.exporting = u.exporting
         /\ DOMAIN ui'.busy = MiningViews /\ others \subseteq calls'
         /\ \A v \in MiningViews :
              \/ ui'.busy[v] = u.busy[v]
              \/ v = view /\ \E c \in calls' : c.op = "getAnalysis" /\ c.on = v
<1>1. PICK owned : owned = Owned(u, log)
  OBVIOUS
<1>2. /\ {"busy", "exporting", "view"} \subseteq DOMAIN owned
      /\ owned.exporting = u.exporting /\ owned.busy = u.busy
  <2>1. PICK v : v = MiningDefaults(u)
    OBVIOUS
  <2>2. /\ {"busy", "exporting", "view"} \subseteq DOMAIN v
        /\ v.exporting = u.exporting /\ v.busy = u.busy
    BY <2>1 DEF MiningDefaults
  <2>3. owned = IF u.owner = log THEN u ELSE [v EXCEPT !.owner = log]
    BY <1>1, <2>1 DEF Owned
  <2> QED
    BY <2>2, <2>3
<1>3. CASE owned.result[view] # None
  <2>1. ui' = owned /\ calls' = others
    BY <1>1, <1>3 DEF FetchAnalysis
  <2> QED
    BY <1>2, <2>1
<1>4. CASE ~(owned.result[view] # None)
  <2>1. ui' = [owned EXCEPT !.busy[view] = TRUE, !.error = FALSE]
    BY <1>1, <1>4 DEF FetchAnalysis
  <2>2. PICK r : r = Request("getAnalysis", view, log, others)
    OBVIOUS
  <2>3. calls' = others \cup {r}
    BY <1>1, <1>4, <2>2 DEF FetchAnalysis
  <2>4. r.op = "getAnalysis" /\ r.on = view
    BY <2>2, RequestIs
  <2> QED
    BY <1>2, <2>1, <2>3, <2>4
<1> QED
  BY <1>3, <1>4

LEMMA StoreFlagsStep ==
  ASSUME StoreFlags, StoreClicks \/ StoreAnswers
  PROVE  StoreFlags'
<1> USE DEF StoreFlags, Held, Made, Done
<1>1. ASSUME NEW view \in MiningViews, NEW log \in Projects, OpenMiningPage(view, log)
      PROVE  StoreFlags'
  <2>1. PICK flag : flag = (ui.exporting /\ view = ui.view)
    OBVIOUS
  <2>2. PICK u : u = [ui EXCEPT !.view = view, !.log = log, !.exporting = flag]
    OBVIOUS
  <2>3. /\ {"busy", "exporting", "view"} \subseteq DOMAIN u /\ u.exporting = flag
        /\ u.busy = ui.busy
    BY <2>2
  <2>4. PICK others : others = IF view = ui.view THEN calls ELSE calls \ InFlight({"exportPdf"})
    OBVIOUS
  <2>5. FetchAnalysis(u, view, log, others)
    BY <1>1, <2>1, <2>2, <2>4, Zenon DEF OpenMiningPage
  <2>6. /\ {"busy", "exporting", "view"} \subseteq DOMAIN ui' /\ ui'.exporting = flag
        /\ DOMAIN ui'.busy = MiningViews /\ others \subseteq calls'
        /\ \A v \in MiningViews :
             \/ ui'.busy[v] = ui.busy[v]
             \/ v = view /\ \E c \in calls' : c.op = "getAnalysis" /\ c.on = v
    BY <2>3, <2>5, FetchAnalysisIs
  <2>7. \A c \in calls : c.op = "getAnalysis" => c \in others
    BY <2>4 DEF InFlight
  <2>8. flag => ui.exporting /\ others = calls
    BY <2>1, <2>4, Zenon
  <2> QED
    BY <2>6, <2>7, <2>8
<1>2. CASE RetryAnalysis
  <2>1. PICK view, log : FetchAnalysis(ui, view, log, calls)
    BY <1>2 DEF RetryAnalysis
  <2>2. /\ {"busy", "exporting", "view"} \subseteq DOMAIN ui' /\ ui'.exporting = ui.exporting
        /\ DOMAIN ui'.busy = MiningViews /\ calls \subseteq calls'
        /\ \A v \in MiningViews :
             \/ ui'.busy[v] = ui.busy[v]
             \/ v = view /\ \E c \in calls' : c.op = "getAnalysis" /\ c.on = v
    BY <2>1, FetchAnalysisIs
  <2> QED
    BY <2>2
<1>3. CASE ExportConformancePdf
  <2>1. PICK r, arg : calls' = calls \cup {r} /\ Made(r, "exportPdf", "pdf", arg)
    BY <1>3, SendIs DEF ExportConformancePdf
  <2> QED
    BY <1>3, <2>1 DEF ExportConformancePdf
<1>4. ASSUME NEW c \in calls, c.op = "getAnalysis", AnalysisFetched(c) PROVE StoreFlags'
  BY <1>4 DEF AnalysisFetched
<1>5. ASSUME NEW c \in calls, c.op = "exportPdf", PdfExported(c) PROVE StoreFlags'
  BY <1>5 DEF PdfExported
<1> HIDE DEF StoreFlags
<1> QED
  BY <1>1, <1>2, <1>3, <1>4, <1>5
     DEF StoreClicks, StoreAnswers, Settled, Answered, Refused

-----------------------------------------------------------------------------
(* The upload, the governance pages, object-centric logs                    *)

\* Nothing of a page that was left is shown.
UploadFlags ==
  /\ {"place", "saving", "status"} \subseteq DOMAIN ui
  /\ Held(Here /\ ui.saving, calls, {"setMapping"})
  /\ Held(ui.status = "uploading", calls, {"uploadLog", "previewLog"})

ChangesFlags ==
  /\ {"loading", "creating", "busy"} \subseteq DOMAIN ui
  /\ Held(ui.loading, calls, {"loadChanges"})
  /\ Held(ui.creating, calls, {"createChange"})
  /\ Held(ui.busy # None, calls, {"submitChange", "approveChange", "rejectChange"})

GovernanceFlags ==
  "loading" \in DOMAIN ui /\ Held(ui.loading, calls, {"listCapabilities", "listEntries"})

OcpmFlags ==
  /\ {"uploading", "converting", "discovering", "logsLoading"} \subseteq DOMAIN ui
  /\ HeldBy(ui.uploading, calls, {"uploadOcel"}, {"getSummary", "discoverOcel"}, {"upload"})
  /\ HeldBy(ui.converting, calls, {"convertLog"}, {"getSummary", "discoverOcel"}, {"convert"})
  /\ HeldBy(ui.discovering, calls, {"discoverOcel"}, {"getSummary"}, {"route"})
  /\ Held(ui.logsLoading, calls, {"loadOcpmLogs"})
  /\ \A c \in calls : /\ c.op = "uploadOcel" => c.arg = "upload"
                      /\ c.op = "convertLog" => c.arg = "convert"

LEMMA UploadFlagsStep ==
  ASSUME UploadFlags, UploadClicks \/ UploadAnswers
  PROVE  UploadFlags'
<1> USE DEF UploadFlags, Held, Made, Done, Here
<1>1. ASSUME (\E file \in File : DropFile(file)) \/ RejectFile \/ RemoveFile PROVE UploadFlags'
  BY <1>1 DEF DropFile, RejectFile, RemoveFile, Local
<1>2. CASE SendFile
  <2>1. PICK r, arg : calls' = calls \cup {r} /\ Made(r, "uploadLog", None, arg)
    BY <1>2, SendIs DEF SendFile
  <2> QED
    BY <1>2, <2>1 DEF SendFile
<1>3. CASE SubmitMapping
  <2>1. PICK r, on, arg : calls' = calls \cup {r} /\ Made(r, "setMapping", on, arg)
    BY <1>3, SendIs DEF SubmitMapping
  <2> QED
    BY <1>3, <2>1 DEF SubmitMapping
<1>4. CASE BackToUpload
  BY <1>4 DEF BackToUpload, NextStep, Local
<1>5. ASSUME NEW field, NEW n, ChooseColumn(field, n) PROVE UploadFlags'
  BY <1>5 DEF ChooseColumn, Local
<1>6. ASSUME NEW n, ToggleAdditionalColumn(n) PROVE UploadFlags'
  <2>1. PICK more : ui' = [ui EXCEPT !.additional = more]
    BY <1>6 DEF ToggleAdditionalColumn
  <2> QED
    BY <1>6, <2>1 DEF ToggleAdditionalColumn, Local
<1>7. ASSUME NEW place, LeaveUpload(place) PROVE UploadFlags'
  BY <1>7 DEF LeaveUpload, Local
<1>8. ASSUME NEW c \in calls, c.op = "getProject", UploadProjectLoaded(c) PROVE UploadFlags'
  BY <1>8 DEF UploadProjectLoaded
<1>9. ASSUME NEW c \in calls, c.op = "uploadLog", LogUploaded(c) PROVE UploadFlags'
  <2>1. CASE c.stage = "failed"
    <3>1. ui' = [ui EXCEPT !.status = "error", !.rejected = TRUE] /\ calls' = calls \ {c}
      BY <1>9, <2>1 DEF LogUploaded
    <3> QED
      BY <1>9, <3>1
  <2>2. CASE c.stage # "failed" /\ c.ans.type = "ocel"
    <3>1. PICK u : u = [ui EXCEPT !.log = c.ans.log]
      OBVIOUS
    <3>2. ui' = NextStep(u, "done") /\ calls' = calls \ {c}
      BY <1>9, <2>2, <3>1 DEF LogUploaded
    <3> QED
      BY <1>9, <3>1, <3>2 DEF NextStep
  <2>3. CASE c.stage # "failed" /\ c.ans.type # "ocel"
    <3>1. PICK r, on, arg : calls' = (calls \ {c}) \cup {r} /\ Made(r, "previewLog", on, arg)
      BY <1>9, <2>3, ThenIs DEF LogUploaded
    <3>2. ui' = [ui EXCEPT !.log = c.ans.log]
      BY <1>9, <2>3 DEF LogUploaded
    <3> QED
      BY <1>9, <3>1, <3>2
  <2> QED
    BY <2>1, <2>2, <2>3
<1>10. ASSUME NEW c \in calls, c.op = "previewLog", LogPreviewed(c) PROVE UploadFlags'
  <2>1. PICK shown, preview :
          /\ shown = ui \/ shown = [ui EXCEPT !.preview = preview]
          /\ ui' = Mapped(NextStep(shown, "mapping"))
    BY <1>10 DEF LogPreviewed
  <2>2. PICK u : u = NextStep(shown, "mapping")
    OBVIOUS
  <2>3. PICK picks : ui' = [u EXCEPT !.picks = picks, !.additional = {}]
    BY <2>1, <2>2 DEF Mapped
  <2>4. /\ {"place", "saving", "status"} \subseteq DOMAIN shown
        /\ shown.saving = ui.saving /\ shown.place = ui.place
    BY <2>1
  <2>5. /\ {"place", "saving", "status"} \subseteq DOMAIN ui' /\ ui'.status = "idle"
        /\ ui'.saving = ui.saving /\ ui'.place = ui.place
    BY <2>2, <2>3, <2>4 DEF NextStep
  <2>6. calls' = calls \ {c}
    BY <1>10 DEF LogPreviewed
  <2> QED
    BY <1>10, <2>5, <2>6
<1>11. ASSUME NEW c \in calls, c.op = "setMapping", MappingSaved(c) PROVE UploadFlags'
  <2>1. CASE c.stage = "ok"
    BY <1>11, <2>1 DEF MappingSaved
  <2>2. CASE c.stage # "ok"
    <3>1. PICK u : u = [ui EXCEPT !.saving = FALSE]
      OBVIOUS
    <3>2. ui' = Mapped(u) /\ calls' = calls \ {c}
      BY <1>11, <2>2, <3>1 DEF MappingSaved
    <3>3. PICK picks : ui' = [u EXCEPT !.picks = picks, !.additional = {}]
      BY <3>2 DEF Mapped
    <3>4. /\ {"place", "saving", "status"} \subseteq DOMAIN ui' /\ ui'.saving = FALSE
          /\ ui'.status = ui.status
      BY <3>1, <3>3
    <3> QED
      BY <1>11, <3>2, <3>4
  <2> QED
    BY <2>1, <2>2
<1> HIDE DEF UploadFlags
<1> QED
  BY <1>1, <1>2, <1>3, <1>4, <1>5, <1>6, <1>7, <1>8, <1>9, <1>10, <1>11
     DEF UploadClicks, UploadAnswers, Settled, Answered, Refused

LEMMA ChangesFlagsStep ==
  ASSUME ChangesFlags, ChangesClicks \/ ChangesAnswers
  PROVE  ChangesFlags'
<1> USE DEF ChangesFlags, Held, Made, Done
<1>1. ASSUME NEW s, LoadChanges(s) PROVE ChangesFlags'
  <2>1. PICK r, arg : calls' = calls \cup {r} /\ Made(r, "loadChanges", None, arg)
    BY <1>1, SendIs DEF LoadChanges
  <2> QED
    BY <1>1, <2>1 DEF LoadChanges
<1>2. ASSUME OpenChangeForm \/ CloseChangeModal \/ \E r \in Items : AskReject(r)
      PROVE  ChangesFlags'
  BY <1>2 DEF OpenChangeForm, CloseChangeModal, AskReject, Local
<1>3. CASE CreateChange
  BY <1>3, SendIs DEF CreateChange
<1>4. ASSUME NEW r \in Items, SubmitChange(r) \/ ApproveChange(r) PROVE ChangesFlags'
  BY <1>4, SendIs DEF SubmitChange, ApproveChange
<1>5. CASE ConfirmReject
  <2>1. PICK r, on : calls' = calls \cup {r} /\ Made(r, "rejectChange", on, None)
    BY <1>5, SendIs DEF ConfirmReject
  <2> QED
    BY <1>5, <2>1 DEF ConfirmReject
<1>6. ASSUME NEW c \in calls, c.op = "loadChanges", ChangesLoaded(c) PROVE ChangesFlags'
  BY <1>6 DEF ChangesLoaded
<1>7. ASSUME NEW c \in calls, c.op = "createChange", ChangeCreated(c) PROVE ChangesFlags'
  BY <1>7 DEF ChangeCreated
<1>8. ASSUME NEW c \in calls, c.op \in {"submitChange", "approveChange", "rejectChange"},
             ChangeActed(c)
      PROVE  ChangesFlags'
  <2>1. PICK reject, row :
          ui' = [ui EXCEPT !.busy = None, !.reject = reject, !.rows[c.on] = row]
    BY <1>8 DEF ChangeActed
  <2> QED
    BY <1>8, <2>1 DEF ChangeActed
<1> HIDE DEF ChangesFlags
<1> QED
  BY <1>1, <1>2, <1>3, <1>4, <1>5, <1>6, <1>7, <1>8
     DEF ChangesClicks, ChangesAnswers, FilterChanges, RetryChanges, Settled, Answered, Refused

LEMMA GovernanceFlagsStep ==
  ASSUME GovernanceFlags, GovernanceClicks \/ GovernanceAnswers
  PROVE  GovernanceFlags'
<1> USE DEF GovernanceFlags, Held, Made, Done
<1>1. ASSUME \/ CloseNaming \/ CloseLinking
             \/ \E i \in Items \cup {None} : NameCapability(i) \/ OpenLinking(i)
      PROVE  GovernanceFlags'
  BY <1>1 DEF CloseNaming, CloseLinking, NameCapability, OpenLinking, Local
<1>2. ASSUME ui' = ui, NEW op, NEW on, NEW arg, Send(op, on, arg) PROVE GovernanceFlags'
  BY <1>2, SendIs
<1>3. ASSUME SubmitName \/ AddEntry PROVE GovernanceFlags'
  BY <1>2, <1>3 DEF SubmitName, AddEntry
<1>4. ASSUME NEW i \in Items, DeleteCapability(i) \/ Promote(i) PROVE GovernanceFlags'
  BY <1>2, <1>4 DEF DeleteCapability, Promote
<1>5. ASSUME NEW i \in Items, NEW field, UpdateField(i, field) PROVE GovernanceFlags'
  <2>1. ui' = ui /\ \E arg : Send("updateEntry", i, arg)
    BY <1>5, Zenon DEF UpdateField
  <2> QED
    BY <1>2, <2>1
<1>6. ASSUME NEW log, LinkLog(log) \/ \E i \in Items : UnlinkLog(i, log) PROVE GovernanceFlags'
  BY <1>2, <1>6 DEF LinkLog, UnlinkLog
<1>7. ASSUME NEW i \in Items, ShowHistory(i) PROVE GovernanceFlags'
  <2>1. CASE ui.history[i] # None
    BY <1>7, <2>1 DEF ShowHistory
  <2>2. CASE ui.history[i] = None
    BY <1>2, <1>7, <2>2 DEF ShowHistory
  <2> QED
    BY <2>1, <2>2
<1>8. ASSUME NEW c \in calls, CapabilitiesLoaded(c) \/ EntriesLoaded(c) PROVE GovernanceFlags'
  BY <1>8 DEF CapabilitiesLoaded, EntriesLoaded
<1>9. ASSUME NEW c \in calls, CapabilityChanged(c), c.op \notin {"listCapabilities", "listEntries"}
      PROVE  GovernanceFlags'
  <2>1. "loading" \in DOMAIN ui' /\ ui'.loading = ui.loading
    BY <1>9 DEF CapabilityChanged
  <2>2. \A d \in calls : d # c => d \in calls'
    BY <1>9, ThenIs DEF CapabilityChanged
  <2> QED
    BY <1>9, <2>1, <2>2
<1>10. ASSUME NEW c \in calls, EntryChanged(c), c.op \notin {"listCapabilities", "listEntries"}
       PROVE  GovernanceFlags'
  <2>1. CASE c.stage = "failed"
    BY <1>10, <2>1 DEF EntryChanged
  <2>2. CASE c.stage # "failed"
    BY <1>10, <2>2, ThenIs DEF EntryChanged
  <2> QED
    BY <2>1, <2>2
<1>11. ASSUME NEW c \in calls, c.op \in {"updateEntry", "entryHistory"},
              FieldUpdated(c) \/ HistoryShown(c)
       PROVE  GovernanceFlags'
  <2>1. calls' = calls \ {c} /\ "loading" \in DOMAIN ui' /\ ui'.loading = ui.loading
    BY <1>11 DEF FieldUpdated, HistoryShown
  <2> QED
    BY <1>11, <2>1
<1> HIDE DEF GovernanceFlags
<1> QED
  BY <1>1, <1>3, <1>4, <1>5, <1>6, <1>7, <1>8, <1>9, <1>10, <1>11
     DEF GovernanceClicks, GovernanceAnswers, Settled, Answered, Refused

\* A handler that is through takes its own flag down.
LEMMA ThroughFlags ==
  ASSUME NEW u, {"uploading", "converting", "discovering", "logsLoading"} \subseteq DOMAIN u,
         NEW handler
  PROVE  LET v == Through(u, handler)
         IN  /\ {"uploading", "converting", "discovering", "logsLoading"} \subseteq DOMAIN v
             /\ v.uploading => u.uploading /\ handler # "upload"
             /\ v.converting => u.converting /\ handler # "convert"
             /\ v.discovering = u.discovering /\ v.logsLoading = u.logsLoading
<1>1. PICK up, on : /\ up = (u.uploading /\ handler # "upload")
                    /\ on = (u.converting /\ handler # "convert")
  OBVIOUS
<1>2. PICK v : v = [u EXCEPT !.uploading = up, !.converting = on]
  OBVIOUS
<1>3. v = Through(u, handler)
  BY <1>1, <1>2, Zenon DEF Through
<1>4. /\ {"uploading", "converting", "discovering", "logsLoading"} \subseteq DOMAIN v
      /\ v.uploading = up /\ v.converting = on
      /\ v.discovering = u.discovering /\ v.logsLoading = u.logsLoading
  BY <1>2
<1>5. /\ up => u.uploading /\ handler # "upload"
      /\ on => u.converting /\ handler # "convert"
  BY <1>1, Zenon
<1> QED
  BY <1>3, <1>4, <1>5, Zenon

LEMMA OcpmFlagsStep ==
  ASSUME OcpmFlags, OcpmClicks \/ OcpmAnswers
  PROVE  OcpmFlags'
<1> DEFINE flags == {"uploading", "converting", "discovering", "logsLoading"}
<1> USE DEF OcpmFlags, Held, HeldBy, Made, Done
<1>1. ASSUME NEW route, VisitOcpm(route) PROVE OcpmFlags'
  <2>1. PICK u : u = [ui EXCEPT !.route = route]
    OBVIOUS
  <2>2. AutoLoad(u, calls)
    BY <1>1, <2>1 DEF VisitOcpm
  <2>3. CASE u.route = None \/ u.summary # None
    BY <2>1, <2>2, <2>3 DEF AutoLoad
  <2>4. CASE ~(u.route = None \/ u.summary # None)
    <3>1. ui' = [u EXCEPT !.discovering = TRUE] /\ SendAlso("getSummary", u.route, "route", calls)
      BY <2>2, <2>4 DEF AutoLoad
    <3>2. PICK r, on : calls' = calls \cup {r} /\ Made(r, "getSummary", on, "route")
      BY <3>1, SendAlsoIs
    <3> QED
      BY <2>1, <3>1, <3>2
  <2> QED
    BY <2>3, <2>4
<1>2. ASSUME PickColumns \/ ResetOcel \/ \E x : PickLog(x) \/ SetPageTab(x) PROVE OcpmFlags'
  BY <1>2 DEF PickColumns, ResetOcel, PickLog, SetPageTab, Local
<1>3. CASE UploadOcel
  BY <1>3, SendIs DEF UploadOcel
<1>4. CASE Convert
  <2>1. PICK r, on : calls' = calls \cup {r} /\ Made(r, "convertLog", on, "convert")
    BY <1>4, SendIs DEF Convert
  <2> QED
    BY <1>4, <2>1 DEF Convert
<1>5. CASE Flatten
  <2>1. PICK r, on : calls' = calls \cup {r} /\ Made(r, "flatten", on, "flatten")
    BY <1>5, SendIs DEF Flatten
  <2> QED
    BY <1>5, <2>1 DEF Flatten
<1>6. ASSUME NEW c \in calls, \/ c.op = "loadOcpmLogs" /\ OcpmLogsLoaded(c)
                              \/ c.op = "flatten" /\ Flattened(c)
      PROVE  OcpmFlags'
  BY <1>6 DEF OcpmLogsLoaded, Flattened
<1>7. ASSUME NEW c \in calls, OcelStored(c), c.op \in {"uploadOcel", "convertLog"}
      PROVE  OcpmFlags'
  <2>1. CASE c.stage = "ok"
    <3>1. PICK r, on : calls' = (calls \ {c}) \cup {r} /\ Made(r, "getSummary", on, c.arg)
      BY <1>7, <2>1, ThenIs DEF OcelStored
    <3>2. ui' = ui
      BY <1>7, <2>1 DEF OcelStored
    <3> QED
      BY <1>7, <3>1, <3>2
  <2>2. CASE c.stage # "ok"
    <3>1. PICK v : v = Through(ui, c.arg)
      OBVIOUS
    <3>2. ui' = v /\ calls' = calls \ {c}
      BY <1>7, <2>2, <3>1 DEF OcelStored
    <3>3. /\ flags \subseteq DOMAIN v
          /\ v.uploading => ui.uploading /\ c.arg # "upload"
          /\ v.converting => ui.converting /\ c.arg # "convert"
          /\ v.discovering = ui.discovering /\ v.logsLoading = ui.logsLoading
      BY <3>1, ThroughFlags
    <3> QED
      BY <1>7, <3>2, <3>3
  <2> QED
    BY <2>1, <2>2
<1>8. ASSUME NEW c \in calls, OcelSummaryLoaded(c), c.op = "getSummary" PROVE OcpmFlags'
  <2>1. CASE c.stage = "ok"
    <3>1. PICK r, on : calls' = (calls \ {c}) \cup {r} /\ Made(r, "discoverOcel", on, c.arg)
      BY <1>8, <2>1, ThenIs DEF OcelSummaryLoaded
    <3>2. /\ flags \subseteq DOMAIN ui' /\ ui'.uploading = ui.uploading
          /\ ui'.converting = ui.converting /\ ui'.logsLoading = ui.logsLoading
      BY <1>8, <2>1 DEF OcelSummaryLoaded
    <3> QED
      BY <1>8, <3>1, <3>2
  <2>2. CASE c.stage # "ok"
    <3>1. PICK v : v = Through(ui, c.arg)
      OBVIOUS
    <3>2. /\ flags \subseteq DOMAIN v
          /\ v.uploading => ui.uploading /\ c.arg # "upload"
          /\ v.converting => ui.converting /\ c.arg # "convert"
          /\ v.discovering = ui.discovering /\ v.logsLoading = ui.logsLoading
      BY <3>1, ThroughFlags
    <3>3. PICK busy : busy = (v.discovering /\ c.arg # "route")
      OBVIOUS
    <3>4. busy => v.discovering /\ c.arg # "route"
      BY <3>3, Zenon
    <3>5. ui' = [v EXCEPT !.discovering = busy] /\ calls' = calls \ {c}
      BY <1>8, <2>2, <3>1, <3>3 DEF OcelSummaryLoaded
    <3>6. /\ flags \subseteq DOMAIN ui' /\ ui'.uploading = v.uploading
          /\ ui'.converting = v.converting /\ ui'.logsLoading = v.logsLoading
          /\ ui'.discovering = busy
      BY <3>2, <3>5
    <3> QED
      BY <1>8, <3>2, <3>4, <3>5, <3>6
  <2> QED
    BY <2>1, <2>2
<1>9. ASSUME NEW c \in calls, OcelDiscovered(c), c.op = "discoverOcel" PROVE OcpmFlags'
  <2>1. PICK v : v = Through(ui, c.arg)
    OBVIOUS
  <2>2. /\ flags \subseteq DOMAIN v
        /\ v.uploading => ui.uploading /\ c.arg # "upload"
        /\ v.converting => ui.converting /\ c.arg # "convert"
        /\ v.discovering = ui.discovering /\ v.logsLoading = ui.logsLoading
    BY <2>1, ThroughFlags
  <2>3. calls' = calls \ {c} /\ \E dfg : ui' = [v EXCEPT !.dfg = dfg, !.discovering = FALSE]
    BY <1>9, <2>1 DEF OcelDiscovered
  <2>4. /\ flags \subseteq DOMAIN ui' /\ ui'.uploading = v.uploading
        /\ ui'.converting = v.converting /\ ui'.logsLoading = v.logsLoading
        /\ ui'.discovering = FALSE
    BY <2>2, <2>3
  <2> QED
    BY <1>9, <2>2, <2>3, <2>4
<1> HIDE DEF OcpmFlags
<1> QED
  BY <1>1, <1>2, <1>3, <1>4, <1>5, <1>6, <1>7, <1>8, <1>9
     DEF OcpmClicks, OcpmAnswers, Settled, Answered, Refused

-----------------------------------------------------------------------------
(* The conversations                                                        *)

\* The calls that fill an answer, line by line or at once.
Fills == {"chatStream", "agentRun"}

\* What is written below a question is the assistant's, and is being written only
\* as long as there is a call for it.
Written(messages, cs) ==
  \A k \in DOMAIN messages :
    messages[k].streaming =>
      messages[k].role = "assistant" /\ \E c \in cs : c.op \in Fills /\ c.on = messages[k].of

ChatFlags ==
  /\ {"loading", "messages", "counter"} \subseteq DOMAIN ui
  /\ ui.counter \in Nat /\ ui.messages \in Seq(Message)
  /\ Held(ui.loading, calls, {"extractLog"} \cup Fills)
  /\ Written(ui.messages, calls)
  /\ \A c \in calls : c.op \in {"extractLog"} \cup Fills => c.on \in Nat

\* Every message of a sequence is changed, or not.
LEMMA MessagesMapped ==
  ASSUME NEW messages \in Seq(Message), NEW f, DOMAIN f = DOMAIN messages,
         f = [k \in DOMAIN messages |-> f[k]],
         \A k \in DOMAIN messages : f[k] \in Message
  PROVE  f \in Seq(Message)
<1>1. Len(messages) \in Nat /\ DOMAIN messages = 1..Len(messages)
  BY LenProperties
<1>2. f \in [1..Len(messages) -> Message]
  BY <1>1
<1> QED
  BY <1>1, <1>2, SeqDef

\* What closing the answers to a question does to a conversation.
ClosedFrom(u, n, v) ==
  /\ {"loading", "messages", "counter"} \subseteq DOMAIN v
  /\ v.loading = FALSE /\ v.counter = u.counter
  /\ v.messages \in Seq(Message) /\ DOMAIN v.messages = DOMAIN u.messages
  /\ \A k \in DOMAIN u.messages :
       \/ v.messages[k] = u.messages[k]
          /\ ~(u.messages[k].of = n /\ u.messages[k].role = "assistant")
       \/ v.messages[k].streaming = FALSE

Conversation(u) == {"loading", "messages", "counter"} \subseteq DOMAIN u /\ u.messages \in Seq(Message)

LEMMA ClosedIs ==
  ASSUME NEW u, Conversation(u), NEW n, NEW text \in Texts
  PROVE  ClosedFrom(u, n, Closed(u, n, text))
<1> USE DEF Conversation
<1>1. PICK f : f = [k \in DOMAIN u.messages |->
                      IF u.messages[k].of = n /\ u.messages[k].role = "assistant"
                      THEN [u.messages[k] EXCEPT !.text = text, !.streaming = FALSE]
                      ELSE u.messages[k]]
  OBVIOUS
<1>2. PICK v : v = [[u EXCEPT !.messages = f] EXCEPT !.loading = FALSE]
  OBVIOUS
<1>3. v = Closed(u, n, text)
  BY <1>1, <1>2 DEF Closed, WithAnswer
<1>4. \A k \in DOMAIN u.messages : u.messages[k] \in Message
  BY LenProperties, ElementOfSeq
<1>5. \A k \in DOMAIN u.messages : f[k] \in Message
  BY <1>1, <1>4 DEF Message
<1>6. f \in Seq(Message)
  BY <1>1, <1>5, MessagesMapped
<1>7. \A k \in DOMAIN u.messages :
        \/ f[k] = u.messages[k] /\ ~(u.messages[k].of = n /\ u.messages[k].role = "assistant")
        \/ f[k].streaming = FALSE
  BY <1>1, <1>4 DEF Message
<1>8. /\ {"loading", "messages", "counter"} \subseteq DOMAIN v
      /\ v.loading = FALSE /\ v.counter = u.counter /\ v.messages = f
  BY <1>2
<1>9. DOMAIN f = DOMAIN u.messages
  BY <1>1
<1> QED
  BY <1>3, <1>6, <1>7, <1>8, <1>9 DEF ClosedFrom

\* What follows is a question of this number, or an answer to it that is to come.
LEMMA MessagesAdded ==
  ASSUME NEW messages \in Seq(Message), NEW more \in Seq(Message), NEW cs,
         Written(messages, cs), Written(more, cs)
  PROVE  messages \o more \in Seq(Message) /\ Written(messages \o more, cs)
<1>1. PICK all : all = messages \o more
  OBVIOUS
<1>2. /\ all \in Seq(Message) /\ Len(all) = Len(messages) + Len(more)
      /\ \A k \in 1 .. Len(messages) + Len(more) :
           all[k] = IF k <= Len(messages) THEN messages[k] ELSE more[k - Len(messages)]
  BY <1>1, ConcatProperties
<1>3. /\ DOMAIN all = 1..Len(all) /\ DOMAIN messages = 1..Len(messages)
      /\ DOMAIN more = 1..Len(more) /\ Len(messages) \in Nat /\ Len(more) \in Nat
  BY <1>2, LenProperties
<1>4. ASSUME NEW k \in DOMAIN all
      PROVE  \/ k \in DOMAIN messages /\ all[k] = messages[k]
             \/ k - Len(messages) \in DOMAIN more /\ all[k] = more[k - Len(messages)]
  <2>1. k \in Nat /\ 1 <= k /\ k <= Len(messages) + Len(more)
    BY <1>2, <1>3
  <2>2. CASE k <= Len(messages)
    BY <1>2, <1>3, <2>1, <2>2
  <2>3. CASE ~(k <= Len(messages))
    BY <1>2, <1>3, <2>1, <2>3
  <2> QED
    BY <2>2, <2>3
<1>5. Written(all, cs)
  BY <1>4 DEF Written
<1> QED
  BY <1>1, <1>2, <1>5

LEMMA ChatFlagsStep ==
  ASSUME ChatFlags, ChatClicks \/ ChatAnswers
  PROVE  ChatFlags'
<1> USE DEF ChatFlags, Held, Made, Done, Fills
<1>1. ASSUME NEW cs, calls' = cs, \A c \in calls : c.op # "chatSuggestions" => c \in cs,
             \A c \in cs : c \in calls \/ c.op = "chatSuggestions",
             {"loading", "messages", "counter"} \subseteq DOMAIN ui', ui'.loading = ui.loading,
             ui'.messages \in {ui.messages, <<>>}, ui'.counter = ui.counter
      PROVE  ChatFlags'
  <2>1. <<>> \in Seq(Message) /\ DOMAIN <<>> = {}
    BY EmptySeq
  <2>2. Written(ui'.messages, calls')
    BY <1>1, <2>1 DEF Written
  <2> QED
    BY <1>1, <2>1, <2>2
<1>2. ASSUME NEW u, SuggestionsAsked(u),
             {"loading", "messages", "counter"} \subseteq DOMAIN ui', ui'.loading = ui.loading,
             ui'.messages = ui.messages, ui'.counter = ui.counter
      PROVE  ChatFlags'
  <2>1. PICK others : others = calls \ InFlight({"chatSuggestions"})
    OBVIOUS
  <2>2. PICK r : r = Request("chatSuggestions", u.log, None, others)
    OBVIOUS
  <2>3. r.op = "chatSuggestions"
    BY <2>2, RequestIs
  <2>4. calls' = others \/ calls' = others \cup {r}
    BY <1>2, <2>1, <2>2 DEF SuggestionsAsked
  <2>5. \A c \in others : c \in calls
    BY <2>1
  <2>6. \A c \in calls : c.op # "chatSuggestions" => c \in others
    BY <2>1 DEF InFlight
  <2> QED
    BY <1>1, <1>2, <2>3, <2>4, <2>5, <2>6
<1>3. ASSUME (\E prefill : OpenPanel(prefill)) \/ ClosePanel \/ \E log : GoToLog(log)
      PROVE  ChatFlags'
  <2>1. /\ {"loading", "messages", "counter"} \subseteq DOMAIN ui' /\ ui'.loading = ui.loading
        /\ ui'.messages = ui.messages /\ ui'.counter = ui.counter
        /\ \E u : SuggestionsAsked(u)
    BY <1>3 DEF OpenPanel, ClosePanel, GoToLog
  <2> QED
    BY <1>2, <2>1
<1>4. ASSUME TypeQuestion \/ ClearChat \/ CloseCopilot \/ OpenCopilot
             \/ \E mode : SetChatMode(mode)
      PROVE  ChatFlags'
  <2>1. /\ calls' = calls /\ {"loading", "messages", "counter"} \subseteq DOMAIN ui'
        /\ ui'.loading = ui.loading /\ ui'.counter = ui.counter
        /\ ui'.messages \in {ui.messages, <<>>}
    BY <1>4 DEF TypeQuestion, ClearChat, CloseCopilot, OpenCopilot, SetChatMode, Local
  <2> QED
    BY <1>1, <2>1
<1>5. ASSUME AskModel(ui) PROVE ChatFlags'
  <2>1. PICK n : n = ui.counter + 1 /\ n \in Nat
    OBVIOUS
  <2>2. PICK q, a : q = Question(n) /\ a = [Answer(n, "none") EXCEPT !.streaming = TRUE]
    OBVIOUS
  <2>3. /\ q \in Message /\ a \in Message /\ a.of = n /\ a.role = "assistant"
        /\ q.streaming = FALSE
    BY <2>1, <2>2 DEF Question, Answer, Message, Texts, Tools
  <2>4. PICK all : all = ui.messages \o <<q, a>>
    OBVIOUS
  <2>5. ui' = [ui EXCEPT !.question = FALSE, !.prefill = FALSE, !.counter = n,
                         !.messages = all, !.loading = TRUE]
    BY <1>5, <2>1, <2>2, <2>4 DEF AskModel
  <2>6. PICK op, arg : op \in Fills /\ Send(op, n, arg)
    BY <1>5, <2>1 DEF AskModel
  <2>7. PICK r : calls' = calls \cup {r} /\ Made(r, op, n, arg)
    BY <2>6, SendIs
  <2>8. Written(ui.messages, calls')
    BY <2>7 DEF Written
  <2>9. <<q, a>> \in Seq(Message) /\ Written(<<q, a>>, calls')
    BY <2>3, <2>6, <2>7 DEF Written
  <2>10. all \in Seq(Message) /\ Written(all, calls')
    BY <2>4, <2>8, <2>9, MessagesAdded
  <2> QED
    BY <2>1, <2>5, <2>6, <2>7, <2>10
<1>6. ASSUME AskQuestion \/ AskSuggestion \/ AskFromAddress PROVE ChatFlags'
  BY <1>5, <1>6 DEF AskQuestion, AskSuggestion, AskFromAddress
<1>7. CASE SendCopilot
  <2>1. PICK n : n = ui.counter + 1 /\ n \in Nat
    OBVIOUS
  <2>2. PICK q : q = Question(n)
    OBVIOUS
  <2>20. q \in Message /\ q.streaming = FALSE
    BY <2>1, <2>2 DEF Question, Message, Texts, Tools
  <2>3. PICK all : all = ui.messages \o <<q>>
    OBVIOUS
  <2>4. Append(ui.messages, q) = all
    BY <2>20, <2>3, AppendIsConcat
  <2>5. ui' = [ui EXCEPT !.question = FALSE, !.counter = n, !.loading = TRUE,
                         !.messages = all]
    BY <1>7, <2>1, <2>2, <2>4 DEF SendCopilot
  <2>6. PICK r : calls' = calls \cup {r} /\ Made(r, "extractLog", n, None)
    BY <1>7, <2>1, SendIs DEF SendCopilot
  <2>7. Written(ui.messages, calls') /\ <<q>> \in Seq(Message) /\ Written(<<q>>, calls')
    BY <2>20, <2>6 DEF Written
  <2>8. all \in Seq(Message) /\ Written(all, calls')
    BY <2>3, <2>7, MessagesAdded
  <2> QED
    BY <2>1, <2>5, <2>6, <2>8
<1>8. ASSUME NEW c \in calls, c.op = "chatSuggestions", Suggested(c) PROVE ChatFlags'
  <2>1. /\ calls' = calls \ {c} /\ {"loading", "messages", "counter"} \subseteq DOMAIN ui'
        /\ ui'.loading = ui.loading /\ ui'.counter = ui.counter
        /\ ui'.messages = ui.messages
    BY <1>8 DEF Suggested
  <2> QED
    BY <1>1, <1>8, <2>1
<1>9. \A k \in DOMAIN ui.messages : ui.messages[k] \in Message
  BY LenProperties, ElementOfSeq
<1>10. ASSUME NEW f, f = [k \in DOMAIN ui.messages |-> f[k]], calls' = calls,
              ui' = [ui EXCEPT !.messages = f],
              \A k \in DOMAIN ui.messages :
                \/ f[k] = ui.messages[k]
                \/ \E text \in Texts : f[k] = [ui.messages[k] EXCEPT !.text = text]
                \/ \E tool \in Tools : f[k] = [ui.messages[k] EXCEPT !.tool = tool]
       PROVE  ChatFlags'
  <2>1. \A k \in DOMAIN ui.messages : /\ f[k] \in Message /\ f[k].of = ui.messages[k].of
                                      /\ f[k].role = ui.messages[k].role
                                      /\ f[k].streaming = ui.messages[k].streaming
    BY <1>9, <1>10 DEF Message
  <2>2. DOMAIN f = DOMAIN ui.messages
    BY <1>10, Zenon
  <2>3. f \in Seq(Message)
    BY <1>10, <2>1, <2>2, MessagesMapped
  <2>4. Written(f, calls')
    BY <1>10, <2>1, <2>2 DEF Written
  <2>5. /\ {"loading", "messages", "counter"} \subseteq DOMAIN ui' /\ ui'.loading = ui.loading
        /\ ui'.counter = ui.counter /\ ui'.messages = f
    BY <1>10
  <2> QED
    BY <1>10, <2>3, <2>4, <2>5
<1>11. ASSUME NEW c \in calls, ChunkRead(c) \/ ToolStartRead(c) \/ ToolResultRead(c)
       PROVE  ChatFlags'
  <2>1. calls' = calls
    BY <1>11 DEF ChunkRead, ToolStartRead, ToolResultRead, StreamLine
  <2>2. CASE ChunkRead(c)
    <3>1. PICK f : f = [k \in DOMAIN ui.messages |->
                          IF ui.messages[k].of = c.on /\ ui.messages[k].role = "assistant"
                          THEN [ui.messages[k] EXCEPT
                                  !.text = IF ui.messages[k].text = "none" THEN "part" ELSE "all"]
                          ELSE ui.messages[k]]
      OBVIOUS
    <3>2. ui' = [ui EXCEPT !.messages = f]
      BY <2>2, <3>1 DEF ChunkRead, StreamLine, WithAnswer
    <3>3. ASSUME NEW k \in DOMAIN ui.messages
          PROVE  \/ f[k] = ui.messages[k]
                 \/ \E text \in Texts : f[k] = [ui.messages[k] EXCEPT !.text = text]
      BY <3>1 DEF Texts
    <3>4. f = [k \in DOMAIN ui.messages |-> f[k]]
      BY <3>1
    <3> HIDE DEF ChatFlags
    <3> QED
      BY <1>10, <2>1, <3>2, <3>3, <3>4
  <2>3. ASSUME NEW tool \in Tools,
               ui' = [ui EXCEPT !.messages =
                        [k \in DOMAIN ui.messages |->
                           IF ui.messages[k].of = c.on /\ ui.messages[k].role = "assistant"
                           THEN [ui.messages[k] EXCEPT !.tool = tool]
                           ELSE ui.messages[k]]]
        PROVE  ChatFlags'
    <3>1. PICK f : f = [k \in DOMAIN ui.messages |->
                          IF ui.messages[k].of = c.on /\ ui.messages[k].role = "assistant"
                          THEN [ui.messages[k] EXCEPT !.tool = tool]
                          ELSE ui.messages[k]]
      OBVIOUS
    <3>2. ui' = [ui EXCEPT !.messages = f]
      BY <2>3, <3>1
    <3>3. ASSUME NEW k \in DOMAIN ui.messages
          PROVE  \/ f[k] = ui.messages[k]
                 \/ \E given \in Tools : f[k] = [ui.messages[k] EXCEPT !.tool = given]
      BY <3>1
    <3>4. f = [k \in DOMAIN ui.messages |-> f[k]]
      BY <3>1
    <3> HIDE DEF ChatFlags
    <3> QED
      BY <1>10, <2>1, <3>2, <3>3, <3>4
  <2>4. CASE ToolStartRead(c)
    <3> HIDE DEF ChatFlags
    <3>1. "started" \in Tools
      BY DEF Tools
    <3> QED
      BY <2>3, <2>4, <3>1 DEF ToolStartRead, StreamLine, WithAnswer
  <2>5. CASE ToolResultRead(c)
    <3> HIDE DEF ChatFlags
    <3>1. "shown" \in Tools
      BY DEF Tools
    <3> QED
      BY <2>3, <2>5, <3>1 DEF ToolResultRead, StreamLine, WithAnswer
  <2> QED
    BY <1>11, <2>2, <2>4, <2>5
<1>12. ASSUME NEW c \in calls, NEW v, NEW text \in Texts, v = Closed(ui, c.on, text)
       PROVE  /\ {"loading", "messages", "counter"} \subseteq DOMAIN v
              /\ v.loading = FALSE /\ v.counter = ui.counter
              /\ v.messages \in Seq(Message) /\ DOMAIN v.messages = DOMAIN ui.messages
              /\ Written(v.messages, calls \ {c})
  <2>1. /\ {"loading", "messages", "counter"} \subseteq DOMAIN v
        /\ v.loading = FALSE /\ v.counter = ui.counter
        /\ v.messages \in Seq(Message) /\ DOMAIN v.messages = DOMAIN ui.messages
        /\ \A k \in DOMAIN ui.messages :
             \/ v.messages[k] = ui.messages[k]
                /\ ~(ui.messages[k].of = c.on /\ ui.messages[k].role = "assistant")
             \/ v.messages[k].streaming = FALSE
    <3>1. Conversation(ui)
      BY DEF Conversation
    <3>2. ClosedFrom(ui, c.on, v)
      BY <1>12, <3>1, ClosedIs
    <3> QED
      BY <3>2 DEF ClosedFrom
  <2>2. Written(v.messages, calls \ {c})
    BY <2>1 DEF Written
  <2> QED
    BY <2>1, <2>2
<1>13. ASSUME NEW c \in calls, StreamRead(c) \/ StreamRefused(c) \/ StreamBroken(c)
       PROVE  ChatFlags'
  <2>1. calls' = calls \ {c}
    BY <1>13 DEF StreamRead, StreamRefused, StreamBroken
  <2>2. PICK text \in Texts : ui' = Closed(ui, c.on, text)
    <3>1. CASE StreamBroken(c)
      <4>1. PICK m \in AnswerOf(c.on), reported \in BOOLEAN :
              ui' = Closed(ui, c.on, IF reported \/ (m.text = "none" /\ m.tool = "none")
                                     THEN "error" ELSE m.text)
        BY <3>1 DEF StreamBroken
      <4>2. m.text \in Texts
        BY <1>9 DEF AnswerOf, Message
      <4> QED
        BY <4>1, <4>2 DEF Texts
    <3> QED
      BY <1>13, <3>1 DEF StreamRead, StreamRefused, Texts
  <2> QED
    BY <1>12, <2>1, <2>2
<1>14. ASSUME NEW c \in calls, c.op = "agentRun", AgentRan(c) PROVE ChatFlags'
  <2>1. calls' = calls \ {c}
    BY <1>14 DEF AgentRan
  <2>2. CASE c.stage = "failed"
    <3>1. ui' = Closed(ui, c.on, "error")
      BY <1>14, <2>2 DEF AgentRan
    <3> QED
      BY <1>12, <2>1, <3>1 DEF Texts
  <2>3. CASE c.stage # "failed"
    <3>1. PICK v : v = Closed(ui, c.on, "all")
      OBVIOUS
    <3>2. /\ {"loading", "messages", "counter"} \subseteq DOMAIN v
          /\ v.loading = FALSE /\ v.counter = ui.counter
          /\ v.messages \in Seq(Message) /\ DOMAIN v.messages = DOMAIN ui.messages
          /\ Written(v.messages, calls \ {c})
      BY <1>12, <3>1 DEF Texts
    <3>3. PICK f : f = [k \in DOMAIN v.messages |->
                          IF v.messages[k].of = c.on /\ v.messages[k].role = "assistant"
                          THEN [v.messages[k] EXCEPT !.tool = "started"] ELSE v.messages[k]]
      OBVIOUS
    <3>4. ui' = [v EXCEPT !.messages = f]
      BY <1>14, <2>3, <3>1, <3>3 DEF AgentRan, WithAnswer
    <3>5. \A k \in DOMAIN v.messages : v.messages[k] \in Message
      BY <3>2, LenProperties, ElementOfSeq
    <3>6. \A k \in DOMAIN v.messages : /\ f[k] \in Message /\ f[k].of = v.messages[k].of
                                       /\ f[k].role = v.messages[k].role
                                       /\ f[k].streaming = v.messages[k].streaming
      BY <3>3, <3>5 DEF Message, Tools
    <3>7. DOMAIN f = DOMAIN v.messages /\ f = [k \in DOMAIN v.messages |-> f[k]]
      BY <3>3
    <3>8. f \in Seq(Message)
      BY <3>2, <3>6, <3>7, MessagesMapped
    <3>9. Written(f, calls')
      BY <2>1, <3>2, <3>6, <3>7 DEF Written
    <3>10. /\ {"loading", "messages", "counter"} \subseteq DOMAIN ui'
           /\ ui'.loading = FALSE /\ ui'.counter = ui.counter /\ ui'.messages = f
      BY <3>2, <3>4
    <3> QED
      BY <2>1, <3>8, <3>9, <3>10
  <2> QED
    BY <2>2, <2>3
<1>15. ASSUME NEW c \in calls, c.op = "extractLog", CopilotAnswered(c) PROVE ChatFlags'
  <2>10. PICK a : a = IF c.stage = "ok" THEN Answer(c.on, "all") ELSE Answer(c.on, "error")
    OBVIOUS
  <2>11. /\ ui'.messages = Append(ui.messages, a)
         /\ {"loading", "messages", "counter"} \subseteq DOMAIN ui'
         /\ ui'.loading = FALSE /\ ui'.counter = ui.counter
    <3>1. CASE c.stage = "ok"
      BY <1>15, <2>10, <3>1 DEF CopilotAnswered
    <3>2. CASE c.stage # "ok"
      BY <1>15, <2>10, <3>2 DEF CopilotAnswered
    <3> QED
      BY <3>1, <3>2
  <2>1. /\ a \in {Answer(c.on, "all"), Answer(c.on, "error")}
        /\ ui'.messages = Append(ui.messages, a)
        /\ {"loading", "messages", "counter"} \subseteq DOMAIN ui'
        /\ ui'.loading = FALSE /\ ui'.counter = ui.counter
    BY <2>10, <2>11
  <2>20. c.on \in Nat
    BY <1>15
  <2>21. PICK text \in {"all", "error"} : a = Answer(c.on, text)
    BY <2>1
  <2>2. a \in Message /\ a.streaming = FALSE
    BY <2>20, <2>21 DEF Answer, Message, Texts, Tools
  <2>3. calls' = calls \ {c}
    BY <1>15 DEF CopilotAnswered
  <2>4. Written(ui.messages, calls') /\ <<a>> \in Seq(Message) /\ Written(<<a>>, calls')
    BY <1>15, <2>2, <2>3 DEF Written
  <2>5. ui'.messages = ui.messages \o <<a>>
    BY <2>1, <2>2, AppendIsConcat
  <2>6. ui'.messages \in Seq(Message) /\ Written(ui'.messages, calls')
    BY <2>4, <2>5, MessagesAdded
  <2> QED
    BY <2>1, <2>3, <2>6
<1> HIDE DEF ChatFlags
<1> QED
  BY <1>3, <1>4, <1>6, <1>7, <1>8, <1>11, <1>13, <1>14, <1>15
     DEF ChatClicks, ChatAnswers, Settled, Answered, Refused

-----------------------------------------------------------------------------
(* Accounts                                                                 *)

\* A form that was left waits for nothing: its calls are not live any more.
AccountFlagsHeld ==
  /\ {"kind", "loading"} \subseteq DOMAIN ui
  /\ ui.loading => \E c \in calls : \/ c.op \in {"listUsers", "listKeys"}
                                    \/ c.op = "getConfig" /\ c.arg.live
  /\ ui.kind = "settings" =>
       /\ "saving" \in DOMAIN ui
       /\ ui.saving => \E c \in calls :
            c.op \in {"saveProfile", "changePassword", "saveConfig", "clearKey"} /\ c.arg.live
  /\ ui.kind = "users" =>
       /\ "updating" \in DOMAIN ui
       /\ Held(ui.updating # None, calls, {"changeRole", "changeStatus", "deleteUser"})
  /\ ui.kind \notin {"settings", "users"} =>
       /\ "creating" \in DOMAIN ui
       /\ ui.creating => \E c \in calls : \/ c.op = "createKey"
                                          \/ c.op = "listKeys" /\ c.arg.created

LEMMA AccountFlagsStep ==
  ASSUME AccountFlagsHeld, AccountClicks \/ AccountAnswers
  PROVE  AccountFlagsHeld'
<1> USE DEF AccountFlagsHeld, Held, Made, Done
<1>1. ASSUME NEW tab \in Tabs, OpenTab(tab) PROVE AccountFlagsHeld'
  <2>1. PICK left : /\ ui.kind = "settings" /\ ui' = Opened(tab, ui.user)
                    /\ IF tab = "ai" THEN SendAlso("getConfig", None, [live |-> TRUE], left)
                       ELSE calls' = left
    BY <1>1 DEF OpenTab
  <2>2. /\ {"kind", "loading", "saving"} \subseteq DOMAIN ui' /\ ui'.kind = "settings"
        /\ ui'.loading = (tab = "ai") /\ ui'.saving = FALSE
    BY <2>1 DEF Opened
  <2>3. tab = "ai" => \E c \in calls' : c.op = "getConfig" /\ c.arg.live
    <3>1. ASSUME tab = "ai" PROVE \E c \in calls' : c.op = "getConfig" /\ c.arg.live
      <4>1. PICK arg : arg = [live |-> TRUE] /\ SendAlso("getConfig", None, arg, left)
        BY <2>1, <3>1
      <4>2. PICK r : calls' = left \cup {r} /\ Made(r, "getConfig", None, arg)
        BY <4>1, SendAlsoIs
      <4> QED
        BY <4>1, <4>2
    <3> QED
      BY <3>1
  <2>4. ui'.loading => tab = "ai"
    BY <2>2
  <2>5. ui'.loading => \E c \in calls' : c.op = "getConfig" /\ c.arg.live
    BY <2>3, <2>4
  <2> QED
    BY <2>2, <2>5
<1>2. ASSUME EditDraft \/ TypeSecret \/ NameKey PROVE AccountFlagsHeld'
  <2>1. /\ calls' = calls /\ DOMAIN ui' = DOMAIN ui
        /\ ui'.kind = ui.kind /\ ui'.loading = ui.loading
        /\ "saving" \in DOMAIN ui => ui'.saving = ui.saving
        /\ "updating" \in DOMAIN ui => ui'.updating = ui.updating
        /\ "creating" \in DOMAIN ui => ui'.creating = ui.creating
    BY <1>2 DEF EditDraft, TypeSecret, NameKey, Local
  <2> QED
    BY <2>1
<1>3. ASSUME SaveProfile \/ ChangePassword \/ SaveConfig \/ ClearApiKey PROVE AccountFlagsHeld'
  <2>1. PICK op, arg :
          /\ op \in {"saveProfile", "changePassword", "saveConfig", "clearKey"} /\ arg.live
          /\ Send(op, None, arg)
          /\ ui.kind = "settings" /\ ui' = [ui EXCEPT !.saving = TRUE]
    BY <1>3 DEF SaveProfile, ChangePassword, SaveConfig, ClearApiKey, InTab
  <2>2. PICK r : calls' = calls \cup {r} /\ Made(r, op, None, arg)
    BY <2>1, SendIs
  <2> QED
    BY <2>1, <2>2
<1>4. ASSUME NEW op \in {"changeRole", "changeStatus", "deleteUser"}, NEW i \in Items,
             ActOnUser(op, i)
      PROVE  AccountFlagsHeld'
  <2>1. PICK arg : /\ ui.kind = "users" /\ ui' = [ui EXCEPT !.updating = i]
                   /\ Send(op, i, arg)
    BY <1>4 DEF ActOnUser
  <2>2. PICK r : calls' = calls \cup {r} /\ Made(r, op, i, arg)
    BY <2>1, SendIs
  <2> QED
    BY <2>1, <2>2
<1>5. CASE CreateKey
  BY <1>5, SendIs DEF CreateKey, KeysShown
<1>6. ASSUME NEW i \in Items, RevokeKey(i) PROVE AccountFlagsHeld'
  BY <1>6, SendIs DEF RevokeKey
<1>7. ASSUME NEW c \in calls, c.op = "getConfig", ConfigLoaded(c) PROVE AccountFlagsHeld'
  <2>1. calls' = calls \ {c}
    BY <1>7 DEF ConfigLoaded
  <2>2. CASE ~c.arg.live
    BY <1>7, <2>1, <2>2 DEF ConfigLoaded
  <2>3. CASE c.arg.live
    <3>1. \/ ui' = [ui EXCEPT !.loading = FALSE]
          \/ \E config, draft : ui' = [ui EXCEPT !.loading = FALSE, !.config = config,
                                                 !.draft = draft, !.secret = FALSE]
      BY <1>7, <2>3 DEF ConfigLoaded
    <3> QED
      BY <1>7, <2>1, <3>1
  <2> QED
    BY <2>2, <2>3
<1>8. ASSUME NEW c \in calls, c.op = "saveProfile", ProfileSaved(c) PROVE AccountFlagsHeld'
  <2>1. PICK user, saving : /\ ui' = [ui EXCEPT !.user = user, !.saving = saving]
                            /\ saving = (ui.saving /\ ~c.arg.live)
    BY <1>8 DEF ProfileSaved
  <2>2. (saving => ui.saving) /\ (saving => ~c.arg.live)
    BY <2>1
  <2>3. calls' = calls \ {c}
    BY <1>8 DEF ProfileSaved
  <2> QED
    BY <1>8, <2>1, <2>2, <2>3
<1>9. ASSUME NEW c \in calls,
             \/ c.op = "changePassword" /\ PasswordChanged(c)
             \/ c.op \in {"saveConfig", "clearKey"} /\ ConfigSaved(c)
      PROVE  AccountFlagsHeld'
  <2>1. calls' = calls \ {c}
    BY <1>9 DEF PasswordChanged, ConfigSaved
  <2>2. CASE ~c.arg.live
    BY <1>9, <2>1, <2>2 DEF PasswordChanged, ConfigSaved
  <2>3. CASE c.arg.live
    <3>1. /\ {"kind", "loading", "saving"} \cap DOMAIN ui \subseteq DOMAIN ui'
          /\ DOMAIN ui' = DOMAIN ui
          /\ ui'.kind = ui.kind /\ ui'.loading = ui.loading
          /\ "saving" \in DOMAIN ui => ui'.saving = FALSE
          /\ "updating" \in DOMAIN ui => ui'.updating = ui.updating
          /\ "creating" \in DOMAIN ui => ui'.creating = ui.creating
      BY <1>9, <2>3 DEF PasswordChanged, ConfigSaved
    <3> QED
      BY <1>9, <2>1, <3>1
  <2> QED
    BY <2>2, <2>3
<1>10. ASSUME NEW c \in calls, c.op = "listUsers", UsersLoaded(c) PROVE AccountFlagsHeld'
  BY <1>10 DEF UsersLoaded
<1>11. ASSUME NEW c \in calls, c.op \in {"changeRole", "changeStatus", "deleteUser"}, UserActed(c)
       PROVE  AccountFlagsHeld'
  <2>1. calls' = calls \ {c} /\ \/ ui' = [ui EXCEPT !.updating = None]
                                \/ \E row : ui' = [ui EXCEPT !.updating = None, !.rows[c.on] = row]
    BY <1>11 DEF UserActed
  <2> QED
    BY <1>11, <2>1
<1>12. ASSUME NEW c \in calls, c.op = "listKeys", KeysLoaded(c) PROVE AccountFlagsHeld'
  <2>1. PICK rows, creating : /\ ui' = [ui EXCEPT !.loading = FALSE, !.creating = creating,
                                                  !.rows = rows]
                              /\ creating = (ui.creating /\ ~c.arg.created)
    BY <1>12 DEF KeysLoaded
  <2>2. (creating => ui.creating) /\ (creating => ~c.arg.created)
    BY <2>1
  <2>3. calls' = calls \ {c}
    BY <1>12 DEF KeysLoaded
  <2> QED
    BY <1>12, <2>1, <2>2, <2>3
<1>13. ASSUME NEW c \in calls, c.op = "createKey", KeyCreated(c) PROVE AccountFlagsHeld'
  <2>1. CASE c.stage = "failed"
    BY <1>13, <2>1 DEF KeyCreated
  <2>2. CASE c.stage # "failed"
    <3>1. PICK r : calls' = (calls \ {c}) \cup {r} /\ Made(r, "listKeys", None, [created |-> TRUE])
      BY <1>13, <2>2, ThenIs DEF KeyCreated
    <3>2. PICK id : ui' = [ui EXCEPT !.revealed = id, !.named = FALSE, !.loading = TRUE]
      BY <1>13, <2>2 DEF KeyCreated
    <3>3. r.op = "listKeys" /\ r.arg.created
      BY <3>1
    <3> QED
      BY <1>13, <3>1, <3>2, <3>3
  <2> QED
    BY <2>1, <2>2
<1>14. ASSUME NEW c \in calls, c.op = "revokeKey", KeyRevoked(c) PROVE AccountFlagsHeld'
  <2>1. calls' = calls \ {c} /\ \/ ui' = ui
                                \/ \E id : ui' = [ui EXCEPT !.rows[c.on] = 0, !.revealed = id]
    BY <1>14 DEF KeyRevoked
  <2> QED
    BY <1>14, <2>1
<1> HIDE DEF AccountFlagsHeld
<1> QED
  BY <1>1, <1>2, <1>3, <1>4, <1>5, <1>6, <1>7, <1>8, <1>9, <1>10, <1>11, <1>12, <1>13, <1>14
     DEF AccountClicks, AccountAnswers, Settled, Answered, Refused

-----------------------------------------------------------------------------
(* The benchmark, the shell, the header and the pulse                        *)

BenchmarkHeld(u, cs) ==
  /\ {"loading", "running", "flattening", "selected"} \subseteq DOMAIN u
  /\ Held(u.loading, cs, {"loadEventLogs"}) /\ Held(u.running, cs, {"benchmark"})
  /\ \A s \in u.flattening : \E c \in cs : c.op = "flattenSlice" /\ c.on = s

BenchmarkFlags == BenchmarkHeld(ui, calls)

LEMMA ComparedFlags ==
  ASSUME NEW u, NEW cs, BenchmarkHeld(u, cs), Compare(u, cs) \/ Reselected(u, cs)
  PROVE  BenchmarkFlags'
<1> USE DEF BenchmarkHeld, BenchmarkFlags, Held, Made
<1>1. ASSUME Compare(u, cs), u.selected # {} PROVE BenchmarkFlags'
  <2>1. ui' = [u EXCEPT !.running = TRUE, !.error = FALSE]
    BY <1>1 DEF Compare
  <2>2. PICK r : calls' = cs \cup {r} /\ Made(r, "benchmark", "selection", [of |-> u.selected])
    BY <1>1, SendAlsoIs DEF Compare
  <2> QED
    BY <2>1, <2>2
<1>2. CASE Compare(u, cs)
  BY <1>1, <1>2 DEF Compare
<1> QED
  BY <1>2 DEF Reselected

LEMMA BenchmarkFlagsStep ==
  ASSUME BenchmarkFlags, BenchmarkClicks \/ BenchmarkAnswers
  PROVE  BenchmarkFlags'
<1> USE DEF BenchmarkHeld, BenchmarkFlags, Held, Made, Done
<1>1. ASSUME NEW p, OpenBenchmark(p) PROVE BenchmarkFlags'
  BY <1>1, SendIs DEF OpenBenchmark
<1>2. ASSUME NEW i, ToggleLog(i) PROVE BenchmarkFlags'
  <2>1. PICK u, set : u = [ui EXCEPT !.selected = set] /\ Reselected(u, calls)
    BY <1>2 DEF ToggleLog
  <2>2. BenchmarkHeld(u, calls)
    BY <2>1
  <2> QED
    BY <2>1, <2>2, ComparedFlags
<1>3. ASSUME NEW s, ToggleSlice(s) PROVE BenchmarkFlags'
  <2>1. CASE s \in ui.flat
    <3>1. PICK u, set : u = [ui EXCEPT !.selected = set] /\ Reselected(u, calls)
      BY <1>3, <2>1 DEF ToggleSlice
    <3>2. BenchmarkHeld(u, calls)
      BY <3>1
    <3> HIDE DEF BenchmarkHeld, BenchmarkFlags
    <3> QED
      BY <3>1, <3>2, ComparedFlags
  <2>2. CASE s \notin ui.flat
    BY <1>3, <2>2, SendIs DEF ToggleSlice
  <2> QED
    BY <2>1, <2>2
<1>4. CASE RetryBenchmark
  BY <1>4, ComparedFlags DEF RetryBenchmark
<1>5. ASSUME NEW c \in calls, c.op = "loadEventLogs", BenchmarkLogsLoaded(c) PROVE BenchmarkFlags'
  <2>1. CASE c.stage = "ok"
    <3>1. PICK first : Reselected([ui EXCEPT !.loading = FALSE, !.logs = c.on, !.selected = first],
                                  calls \ {c})
      BY <1>5, <2>1 DEF BenchmarkLogsLoaded
    <3>2. PICK u : u = [ui EXCEPT !.loading = FALSE, !.logs = c.on, !.selected = first]
      OBVIOUS
    <3>3. BenchmarkHeld(u, calls \ {c})
      BY <1>5, <3>2
    <3> HIDE DEF BenchmarkHeld, BenchmarkFlags
    <3> QED
      BY <3>1, <3>2, <3>3, ComparedFlags
  <2>2. CASE c.stage # "ok"
    BY <1>5, <2>2 DEF BenchmarkLogsLoaded
  <2> QED
    BY <2>1, <2>2
<1>6. ASSUME NEW c \in calls, c.op = "flattenSlice", SliceFlattened(c) PROVE BenchmarkFlags'
  <2>1. PICK idle : idle = [ui EXCEPT !.flattening = @ \ {c.on}]
    OBVIOUS
  <2>2. BenchmarkHeld(idle, calls \ {c})
    BY <1>6, <2>1
  <2>3. CASE c.stage = "ok"
    <3>1. PICK u, flat, set : /\ u = [idle EXCEPT !.flat = flat, !.selected = set]
                              /\ Reselected(u, calls \ {c})
      BY <1>6, <2>1, <2>3 DEF SliceFlattened
    <3>2. BenchmarkHeld(u, calls \ {c})
      BY <2>2, <3>1
    <3> HIDE DEF BenchmarkHeld, BenchmarkFlags
    <3> QED
      BY <3>1, <3>2, ComparedFlags
  <2>4. CASE c.stage # "ok"
    BY <1>6, <2>1, <2>2, <2>4 DEF SliceFlattened
  <2> QED
    BY <2>3, <2>4
<1>7. ASSUME NEW c \in calls, c.op = "benchmark", Benchmarked(c) PROVE BenchmarkFlags'
  BY <1>7 DEF Benchmarked
<1> HIDE DEF BenchmarkFlags
<1> QED
  BY <1>1, <1>2, <1>3, <1>4, <1>5, <1>6, <1>7
     DEF BenchmarkClicks, BenchmarkAnswers, Settled, Answered, Refused

ShellHeld(u, cs) == "listing" \in DOMAIN u /\ Held(u.listing, cs, {"pickProjects"})

ShellFlags == ShellHeld(ui, calls)

LEMMA VisitFlags ==
  ASSUME NEW u, NEW r, NEW cs, Unguarded(cs), ShellHeld(u, cs), Visit(u, r, cs)
  PROVE  ShellFlags'
<1>1. \A c \in cs : \E d \in Cancelled(cs) : d.op = c.op
  <2>1. ASSUME NEW c \in cs PROVE [c EXCEPT !.arg = [live |-> FALSE]].op = c.op
    BY <2>1 DEF Unguarded, IsCall, Shaped
  <2> QED
    BY <2>1 DEF Cancelled
<1>2. PICK list : /\ list = IF r = Picker THEN LookUp(Cancelled(cs), "pickProjects", None)
                            ELSE Cancelled(cs)
                  /\ list \subseteq calls'
  <2>3. PICK v : v = Arrived(u, r)
    OBVIOUS
  <2>4. PICK list : list = IF r = Picker THEN LookUp(Cancelled(cs), "pickProjects", None)
                           ELSE Cancelled(cs)
    OBVIOUS
  <2>1. calls' = CASE v.at.kind = "project" -> LookUp(list, "switchProject", v.at.id)
                   [] v.at.kind = "log" -> LookUp(list, "resolveLog", v.at.id)
                   [] OTHER -> list
    BY <2>3, <2>4 DEF Visit
  <2>2. calls' = list \/ \E op, on : calls' = LookUp(list, op, on)
    BY <2>1
  <2> QED
    BY <2>2, <2>4 DEF LookUp
<1>3. PICK listing : /\ "listing" \in DOMAIN ui' /\ ui'.listing = listing
                     /\ listing = (u.listing \/ r = Picker)
  <2>1. ui' = Arrived(u, r)
    BY DEF Visit
  <2>2. PICK listing : listing = (u.listing \/ r = Picker)
    OBVIOUS
  <2>4. PICK to, on : /\ to = Heading(u, r)
                      /\ on = IF to.kind = "project" THEN to.id ELSE None
    OBVIOUS
  <2>5. PICK pid, project, last, log :
          /\ pid = IF to.kind = "log" THEN u.pid ELSE on
          /\ project = IF r.kind \in {"log", "project"} THEN u.project ELSE None
          /\ last = IF on = None THEN u.lastProject ELSE on
          /\ log = IF to.kind = "log" THEN to.id ELSE u.lastLog
    OBVIOUS
  <2>3. ui' = [u EXCEPT !.at = to, !.listing = listing, !.named = None, !.pid = pid,
                        !.project = project, !.lastProject = last, !.lastLog = log]
    BY <2>1, <2>2, <2>4, <2>5, Zenon DEF Arrived
  <2> QED
    BY <2>2, <2>3 DEF ShellHeld
<1>4. listing => u.listing \/ r = Picker
  BY <1>3
<1>5. CASE r = Picker
  <2>1. PICK c : c = Request("pickProjects", None, [live |-> TRUE], Cancelled(cs))
    OBVIOUS
  <2>2. c \in calls' /\ c.op = "pickProjects"
    BY <1>2, <1>5, <2>1, RequestIs DEF LookUp
  <2> QED
    BY <1>3, <2>2 DEF ShellFlags, ShellHeld, Held
<1>6. CASE r # Picker
  BY <1>1, <1>2, <1>3, <1>4, <1>6 DEF ShellFlags, ShellHeld, Held
<1> QED
  BY <1>5, <1>6

LEMMA ShellFlagsStep ==
  ASSUME ShellFlags, Unguarded(calls), ShellClicks \/ ShellAnswers
  PROVE  ShellFlags'
<1> USE DEF ShellFlags, ShellHeld, Held, Made, Done
<1>1. ASSUME NEW u, NEW r, Visit(u, r, calls), "listing" \in DOMAIN u, u.listing = ui.listing
      PROVE  ShellFlags'
  BY <1>1, VisitFlags
<1>2. "listing" \in DOMAIN Pressed(ui) /\ Pressed(ui).listing = ui.listing
  BY DEF Pressed
<1>3. ASSUME NEW u, "listing" \in DOMAIN u, NEW narrow
      PROVE  "listing" \in DOMAIN Linked(u, narrow) /\ Linked(u, narrow).listing = u.listing
  BY <1>3 DEF Linked
<1>4. ASSUME NEW r, Navigate(r) PROVE ShellFlags'
  <2>1. PICK u \in {ui, Pressed(ui), Linked(Pressed(ui), TRUE)} : Visit(u, r, calls)
    BY <1>4 DEF Navigate
  <2>2. "listing" \in DOMAIN u /\ u.listing = ui.listing
    BY <1>2, <1>3, <2>1
  <2> HIDE DEF ShellFlags, ShellHeld
  <2> QED
    BY <1>1, <2>1, <2>2
<1>5. ASSUME NEW r, NEW narrow, SwitcherLink(r, narrow) PROVE ShellFlags'
  <2>1. PICK v : v = [ui EXCEPT !.dropdown = FALSE]
    OBVIOUS
  <2>2. PICK u : u = Linked(v, narrow)
    OBVIOUS
  <2>3. "listing" \in DOMAIN u /\ u.listing = ui.listing
    BY <1>3, <2>1, <2>2
  <2>4. Visit(u, r, calls) \/ (ui' = u /\ calls' = calls)
    BY <1>5, <2>1, <2>2 DEF SwitcherLink
  <2> QED
    BY <1>1, <2>3, <2>4
<1>6. ASSUME ToggleSidebar \/ OpenSidebar \/ ClickSwitcher PROVE ShellFlags'
  <2>1. calls' = calls
    BY <1>6 DEF ToggleSidebar, OpenSidebar, ClickSwitcher, Local
  <2>2. "listing" \in DOMAIN ui' /\ ui'.listing = ui.listing
    BY <1>6 DEF ToggleSidebar, OpenSidebar, ClickSwitcher, Pressed
  <2> QED
    BY <2>1, <2>2
<1>7. ASSUME NEW c \in calls, c.op = "resolveLog", LogResolved(c) PROVE ShellFlags'
  <2>1. "listing" \in DOMAIN ui' /\ ui'.listing = ui.listing
    BY <1>7 DEF LogResolved
  <2>2. calls \ {c} \subseteq calls'
    BY <1>7, ThenIs DEF LogResolved
  <2> QED
    BY <1>7, <2>1, <2>2
<1>8. ASSUME NEW c \in calls, c.op = "switchProject", ProjectSwitched(c) PROVE ShellFlags'
  BY <1>8 DEF ProjectSwitched
<1>9. ASSUME NEW c \in calls, c.op = "pickProjects", ProjectsPicked(c) PROVE ShellFlags'
  <2>1. PICK u, listed : u = [ui EXCEPT !.listing = FALSE, !.listed = listed]
                         /\ \/ ui' = u
                            \/ \E r : Visit(u, r, calls \ {c})
    BY <1>9 DEF ProjectsPicked
  <2>2. "listing" \in DOMAIN u /\ u.listing = FALSE
    BY <2>1
  <2>3. Unguarded(calls \ {c})
    BY DEF Unguarded
  <2> QED
    BY <2>1, <2>2, <2>3, VisitFlags
<1> HIDE DEF ShellFlags
<1> QED
  BY <1>4, <1>5, <1>6, <1>7, <1>8, <1>9
     DEF ShellClicks, ShellAnswers, Settled, Answered, Refused

HeaderFlags ==
  /\ "search" \in DOMAIN ui /\ "loading" \in DOMAIN ui.search
  /\ Held(ui.search.loading, calls, {"search"})

LEMMA HeaderFlagsStep ==
  ASSUME HeaderFlags, \/ HeaderClicks \/ SendSearch \/ StartTour
                      \/ \E c \in Settled("search") : SearchAnswered(c)
  PROVE  HeaderFlags'
<1> USE DEF HeaderFlags, Held, Made, Done
<1>1. ASSUME NEW u, NEW at, "search" \in DOMAIN u, "loading" \in DOMAIN u.search
      PROVE  LET v == Reached(u, at) IN "search" \in DOMAIN v /\ v.search = u.search
  <2>1. PICK log, due : Reached(u, at) = [u EXCEPT !.at = at, !.lastLog = log, !.tour.due = due]
    BY DEF Reached
  <2> QED
    BY <1>1, <2>1
<1>2. ASSUME NEW u, "search" \in DOMAIN u, "loading" \in DOMAIN u.search
      PROVE  LET v == Outside(u) IN /\ "search" \in DOMAIN v /\ "loading" \in DOMAIN v.search
                                    /\ v.search.loading = u.search.loading
  BY <1>2 DEF Outside
<1>3. "loading" \in DOMAIN NoSearch /\ NoSearch.loading = FALSE
  BY DEF NoSearch
<1>4. ASSUME NEW u, "search" \in DOMAIN u, "loading" \in DOMAIN u.search,
             u.search.loading \in {ui.search.loading, FALSE},
             ui' = u \/ (\E at : ui' = Reached(u, at)), calls' = calls
      PROVE  HeaderFlags'
  <2>1. "search" \in DOMAIN ui' /\ ui'.search = u.search
    BY <1>1, <1>4
  <2> QED
    BY <1>4, <2>1
<1>5. ASSUME NEW at, FollowAddress(at) PROVE HeaderFlags'
  <2>1. PICK u \in {ui, Outside(ui)} : ui' = Reached(u, at) /\ calls' = calls
    BY <1>5 DEF FollowAddress, Local
  <2>2. /\ "search" \in DOMAIN u /\ "loading" \in DOMAIN u.search
        /\ u.search.loading = ui.search.loading
    BY <1>2, <2>1
  <2> HIDE DEF HeaderFlags
  <2> QED
    BY <1>4, <2>1, <2>2
<1>6. ASSUME NEW at, ChooseHit(at) PROVE HeaderFlags'
  <2>1. PICK u, search : /\ search = [NoSearch EXCEPT !.due = ui.search.due]
                         /\ u = [ui EXCEPT !.search = search, !.menu = 0]
                         /\ ui' = Reached(u, at) /\ calls' = calls
    BY <1>6 DEF ChooseHit, Local
  <2>2. "loading" \in DOMAIN search /\ search.loading = FALSE
    BY <1>3, <2>1
  <2>3. "search" \in DOMAIN u /\ u.search = search
    BY <2>1
  <2> HIDE DEF HeaderFlags
  <2> QED
    BY <1>4, <2>1, <2>2, <2>3
<1>7. ASSUME NEW q, TypeSearch(q) PROVE HeaderFlags'
  <2>1. PICK search : /\ search = IF q = None THEN [NoSearch EXCEPT !.loading = ui.search.loading]
                                  ELSE [ui.search EXCEPT !.query = q, !.due = q, !.active = 0]
                      /\ ui' = [ui EXCEPT !.menu = 0, !.search = search] /\ calls' = calls
    BY <1>7 DEF TypeSearch, Local
  <2>2. "loading" \in DOMAIN search /\ search.loading = ui.search.loading
    <3>1. CASE q = None
      BY <1>3, <2>1, <3>1
    <3>2. CASE q # None
      BY <2>1, <3>2
    <3> QED
      BY <3>1, <3>2
  <2> QED
    BY <2>1, <2>2
<1>8. ASSUME NEW b, SearchArrow(b) PROVE HeaderFlags'
  <2>1. PICK k : ui' = [ui EXCEPT !.search.active = k] /\ calls' = calls
    BY <1>8 DEF SearchArrow, Local
  <2> QED
    BY <2>1
<1>9. ASSUME NEW b, StepTour(b) PROVE HeaderFlags'
  <2>1. PICK v : v = Outside(ui)
    OBVIOUS
  <2>2. /\ calls' = calls
        /\ \/ \E done : ui' = [v EXCEPT !.tour.done = done, !.tour.id = None, !.tour.step = 0]
           \/ ui' = [v EXCEPT !.tour.step = 2]
    BY <1>9, <2>1 DEF StepTour, Local
  <2>3. "search" \in DOMAIN v /\ "loading" \in DOMAIN v.search /\ v.search.loading = ui.search.loading
    BY <1>2, <2>1
  <2>4. "search" \in DOMAIN ui' /\ ui'.search = v.search
    BY <2>2, <2>3
  <2> QED
    BY <2>2, <2>3, <2>4
<1>10. ASSUME \/ \E q : TypeInPalette(q)
              \/ \E k : MoveInPalette(k) \/ MenuArrow(k)
              \/ TogglePalette
       PROVE  HeaderFlags'
  <2>1. calls' = calls /\ "search" \in DOMAIN ui' /\ ui'.search = ui.search
    BY <1>10 DEF TypeInPalette, MoveInPalette, MenuArrow, TogglePalette, Local
  <2> QED
    BY <2>1
<1>11. ASSUME FocusSearch \/ EscapeSearch PROVE HeaderFlags'
  <2>1. PICK open : /\ calls' = calls
                    /\ \/ ui' = [ui EXCEPT !.menu = 0, !.search.open = open]
                       \/ ui' = [ui EXCEPT !.search.active = 0, !.search.open = open]
    BY <1>11, Zenon DEF FocusSearch, EscapeSearch, Local
  <2> QED
    BY <2>1
<1>12. ASSUME OpenPalette \/ ClosePalette \/ UserMenu PROVE HeaderFlags'
  <2>1. PICK v \in {ui, Outside(ui)} :
          calls' = calls /\ \/ \E palette : ui' = [v EXCEPT !.palette = palette]
                            \/ \E menu : ui' = [v EXCEPT !.menu = menu]
    BY <1>12 DEF OpenPalette, ClosePalette, UserMenu, Local
  <2>2. "search" \in DOMAIN v /\ "loading" \in DOMAIN v.search /\ v.search.loading = ui.search.loading
    BY <1>2, <2>1
  <2>3. "search" \in DOMAIN ui' /\ ui'.search = v.search
    BY <2>1, <2>2
  <2> QED
    BY <2>1, <2>2, <2>3
<1>13. ASSUME PickAnalysis \/ BrowseProjects \/ GoToSettings \/ ComeBack PROVE HeaderFlags'
  <2>1. PICK v, to :
          v \in {ui, Outside(ui)} /\ calls' = calls /\ (ui' = Reached(v, to) \/ ui' = Reached([v EXCEPT !.palette = NoPalette], to))
    BY <1>13 DEF PickAnalysis, BrowseProjects, GoToSettings, ComeBack, Local
  <2>2. "search" \in DOMAIN v /\ "loading" \in DOMAIN v.search /\ v.search.loading = ui.search.loading
    BY <1>2, <2>1
  <2>3. PICK u : u = [v EXCEPT !.palette = NoPalette]
    OBVIOUS
  <2>4. "search" \in DOMAIN u /\ "loading" \in DOMAIN u.search /\ u.search.loading = ui.search.loading
    BY <2>2, <2>3
  <2> HIDE DEF HeaderFlags
  <2> QED
    BY <1>4, <2>1, <2>2, <2>3, <2>4
<1>14. CASE Leave
  <2>1. ui' = [ui EXCEPT !.at = Login, !.search = NoSearch, !.menu = 0,
                         !.tour.id = None, !.tour.due = None, !.tour.step = 0]
    BY <1>14 DEF Leave
  <2>2. "search" \in DOMAIN ui' /\ ui'.search = NoSearch
    BY <2>1
  <2> QED
    BY <1>3, <2>2
<1>15. CASE SendSearch
  <2>1. PICK r : calls' = calls \cup {r} /\ Made(r, "search", ui.search.due, None)
    BY <1>15, SendIs DEF SendSearch
  <2>2. ui' = [ui EXCEPT !.search.due = None, !.search.loading = TRUE]
    BY <1>15 DEF SendSearch
  <2> QED
    BY <2>1, <2>2
<1>16. CASE StartTour
  <2>1. calls' = calls /\ "search" \in DOMAIN ui' /\ ui'.search = ui.search
    BY <1>16 DEF StartTour
  <2> QED
    BY <2>1
<1>17. ASSUME NEW c \in calls, SearchAnswered(c) PROVE HeaderFlags'
  <2>1. PICK found, open : ui' = [ui EXCEPT !.search.loading = FALSE, !.search.found = found,
                                            !.search.open = open]
    BY <1>17, Zenon DEF SearchAnswered
  <2> QED
    BY <2>1
<1> HIDE DEF HeaderFlags
<1> QED
  BY <1>5, <1>6, <1>7, <1>8, <1>9, <1>10, <1>11, <1>12, <1>13, <1>14, <1>15, <1>16, <1>17
     DEF HeaderClicks, Settled, Answered, Refused

PulseFlags == "loading" \in DOMAIN ui /\ Held(ui.loading, calls, {"discover"})

LEMMA PulseFlagsStep ==
  ASSUME PulseFlags, PulseNext
  PROVE  PulseFlags'
<1> USE DEF PulseFlags, Held, Made, Done
<1>1. ASSUME NEW u, "loading" \in DOMAIN u
      PROVE  LET v == PulseRendered(u) IN "loading" \in DOMAIN v /\ v.loading = u.loading
  <2>1. CASE u.map # ui.map
    BY <1>1, <2>1 DEF PulseRendered, PulseBuilt
  <2>2. CASE u.map = ui.map
    <3>1. PICK graph, back : PulseRendered(u) = [u EXCEPT !.graph = graph, !.back = back]
      BY <2>2, Zenon DEF PulseRendered
    <3> QED
      BY <1>1, <3>1
  <2> QED
    BY <2>1, <2>2
<1>2. ASSUME NEW u, "loading" \in DOMAIN u, ui' = PulseRendered(u), u.loading = FALSE
      PROVE  PulseFlags'
  BY <1>1, <1>2
<1>3. ASSUME NEW log, OpenPulse(log) PROVE PulseFlags'
  <2>1. CASE db.kept[log] # None
    <3>1. PICK u : u = [[ui EXCEPT !.log = log] EXCEPT !.map = db.kept[log], !.loading = FALSE]
      OBVIOUS
    <3>2. ui' = PulseRendered(u)
      BY <1>3, <2>1, <3>1 DEF OpenPulse
    <3>3. "loading" \in DOMAIN u /\ u.loading = FALSE
      BY <3>1
    <3> HIDE DEF PulseFlags
    <3> QED
      BY <1>2, <3>2, <3>3
  <2>2. CASE db.kept[log] = None
    <3>1. PICK u : u = [[ui EXCEPT !.log = log] EXCEPT !.loading = TRUE, !.error = FALSE]
      OBVIOUS
    <3>2. ui' = PulseRendered(u)
      BY <1>3, <2>2, <3>1 DEF OpenPulse
    <3>3. "loading" \in DOMAIN ui'
      BY <1>1, <3>1, <3>2
    <3>4. PICK r : calls' = calls \cup {r} /\ Made(r, "discover", "pulse", [log |-> log, n |-> clicks + 1])
      BY <1>3, <2>2, SendIs DEF OpenPulse
    <3> QED
      BY <3>3, <3>4
  <2> QED
    BY <2>1, <2>2
<1>4. CASE ReloadPulse
  <2>1. PICK r : r = AskPulse(ui.log, clicks + 1)
    OBVIOUS
  <2>2. r.op = "discover" /\ calls' = {r}
    BY <1>4, <2>1, RequestIs DEF ReloadPulse, AskPulse
  <2>3. "loading" \in DOMAIN ui'
    BY <1>4 DEF ReloadPulse, PulseMounted
  <2> QED
    BY <2>2, <2>3
<1>5. ASSUME TogglePlay \/ PulseFrame \/ \E l : ChooseLens(l) PROVE PulseFlags'
  <2>1. calls' = calls /\ "loading" \in DOMAIN ui' /\ ui'.loading = ui.loading
    BY <1>5 DEF TogglePlay, PulseFrame, ChooseLens, Local
  <2> QED
    BY <2>1
<1>6. ASSUME NEW c, PulseDiscovered(c) PROVE PulseFlags'
  <2>1. PICK u : /\ u = [ui EXCEPT !.map = c.arg, !.loading = FALSE]
                    \/ u = [ui EXCEPT !.error = TRUE, !.loading = FALSE]
                 /\ ui' = PulseRendered(u)
    BY <1>6 DEF PulseDiscovered
  <2>2. "loading" \in DOMAIN u /\ u.loading = FALSE
    BY <2>1
  <2> HIDE DEF PulseFlags
  <2> QED
    BY <1>2, <2>1, <2>2
<1> HIDE DEF PulseFlags
<1> QED
  BY <1>3, <1>4, <1>5, <1>6 DEF PulseNext

-----------------------------------------------------------------------------
(* The session                                                              *)

\* The handlers of the forms, by what their calls carry.
Forms == {"login", "register", "activate"}

FormOps == {"me"} \cup Forms

SigningUp(u, cs) ==
  u.session.signing => \E c \in cs : c.op \in {"login", "me"} /\ c.arg.why \in {"login", "register"}

FormAwaits(cs) ==
  \E c \in cs : c.op \in FormOps /\ c.arg.live /\ c.arg.why \in {"register", "activate"}

\* A form that still waits is the one of the page that is shown.
LiveHere(path, cs) ==
  \A c \in cs : /\ c.arg.live /\ c.arg.why \in {"register", "activate"} => path = c.arg.why
                /\ c.op = "register" => c.arg.why = "register"

SessionFlags ==
  SigningUp(ui, calls) /\ (ui.busy => FormAwaits(calls)) /\ LiveHere(ui.path, calls)

\* What may be rendered: where nothing is awaited, the form goes away.
Ready(u, cs) ==
  /\ IsUi(u) /\ \A c \in cs : Carries(c)
  /\ SigningUp(u, cs) /\ LiveHere(ui.path, cs)
  /\ u.busy => FormAwaits(cs) \/ (u.path = "app" /\ ui.path \in {"register", "activate"})

LEMMA LedIs ==
  ASSUME NEW u, Led(u) \in {"register", "activate"}
  PROVE  u.path = Led(u)
BY DEF Led

LEMMA RenderFlags ==
  ASSUME NEW u, NEW cs, Ready(u, cs), Render(u, cs)
  PROVE  SessionFlags'
<1>1. CASE ui' = u /\ calls' = cs /\ Led(u) = ui.path
  <2>1. LiveHere(u.path, cs)
    BY <1>1, LedIs DEF Ready, LiveHere
  <2>2. u.busy => FormAwaits(cs)
    BY <1>1, LedIs DEF Ready
  <2> QED
    BY <1>1, <2>1, <2>2 DEF SessionFlags, Ready
<1>2. CASE /\ ui' = [u EXCEPT !.path = Led(u), !.busy = FALSE, !.error = FALSE]
           /\ calls' = {Muted(c) : c \in cs}
  <2>1. ui'.session = u.session /\ ui'.busy = FALSE
    BY <1>2 DEF Ready, IsUi, Shaped
  <2>2. \A c \in cs : /\ Carries(Muted(c)) /\ Muted(c).op = c.op
                      /\ Muted(c).arg.why = c.arg.why
    BY MutedIs DEF Ready
  <2>3. \A c \in cs : Muted(c).arg.live = FALSE
    BY DEF Ready, Carries, IsCall, Muted, Shaped
  <2>4. SigningUp(ui', calls')
    BY <1>2, <2>1, <2>2 DEF Ready, SigningUp
  <2>5. LiveHere(ui'.path, calls')
    BY <1>2, <2>2, <2>3 DEF Ready, LiveHere
  <2> QED
    BY <2>1, <2>4, <2>5 DEF SessionFlags
<1> QED
  BY <1>1, <1>2 DEF Render, Muted

LEMMA FurtherFlags ==
  ASSUME NEW u, NEW cs, NEW op, NEW on, NEW arg, Further(u, op, on, arg, cs),
         \A r : Made(r, op, on, arg) => Ready(u, cs \cup {r})
  PROVE  SessionFlags'
<1>1. PICK r : r = Request(op, on, arg, cs)
  OBVIOUS
<1>2. Made(r, op, on, arg)
  BY <1>1, RequestIs DEF Made
<1>3. Render(u, cs \cup {r})
  BY <1>1 DEF Further
<1> QED
  BY <1>2, <1>3, RenderFlags

\* One more call that is no form's.
LEMMA ReadyBeside ==
  ASSUME NEW u, NEW cs, Ready(u, cs), NEW r, Carries(r), r.op # "register",
         r.arg.why \notin {"register", "activate"}
  PROVE  Ready(u, cs \cup {r})
BY DEF Ready, SigningUp, FormAwaits, LiveHere

LEMMA CarriesIs ==
  ASSUME NEW r, NEW op, NEW on, NEW why, NEW token, Made(r, op, on, Carrying(why, token))
  PROVE  Carries(r) /\ r.op = op /\ r.arg.why = why /\ r.arg.live
BY DEF Made, Carries, Carrying, Shaped

LEMMA BesideFlags ==
  ASSUME NEW u, NEW cs, Ready(u, cs), NEW op, op # "register", NEW on, NEW token,
         NEW why, why \notin {"register", "activate"},
         Further(u, op, on, Carrying(why, token), cs)
  PROVE  SessionFlags'
<1>1. ASSUME NEW r, Made(r, op, on, Carrying(why, token)) PROVE Ready(u, cs \cup {r})
  BY <1>1, CarriesIs, ReadyBeside
<1> QED
  BY <1>1, FurtherFlags

\* Only what counts here.
LEMMA ReadyLike ==
  ASSUME NEW u, NEW cs, Ready(u, cs), NEW v, IsUi(v), v.session.signing = u.session.signing,
         v.busy = u.busy, v.path = u.path
  PROVE  Ready(v, cs)
BY DEF Ready, SigningUp

LEMMA BootstrappedFlags ==
  ASSUME NEW u, NEW cs, Ready(u, cs), Bootstrapped(u, cs)
  PROVE  SessionFlags'
<1>1. PICK v : v = [u EXCEPT !.session.checked = TRUE]
  OBVIOUS
<1>2. /\ IsUi(v) /\ v.session.signing = u.session.signing /\ v.busy = u.busy /\ v.path = u.path
  BY <1>1 DEF Ready, IsUi, Shaped
<1>3. Ready(v, cs)
  BY <1>2, ReadyLike
<1>4. CASE Validate(v, "validate", cs)
  <2>1. PICK w : w = [v EXCEPT !.session.kept = v.session.token]
    OBVIOUS
  <2>2. /\ IsUi(w) /\ w.session.signing = v.session.signing /\ w.busy = v.busy /\ w.path = v.path
    BY <1>2, <2>1 DEF IsUi, Shaped
  <2>3. Ready(w, cs)
    BY <1>3, <2>2, ReadyLike
  <2>4. Further(w, "me", None, Carrying("validate", v.session.token), cs)
    BY <1>4, <2>1 DEF Validate
  <2> QED
    BY <2>3, <2>4, BesideFlags
<1>5. CASE Render(v, cs)
  BY <1>3, <1>5, RenderFlags
<1> QED
  BY <1>1, <1>4, <1>5 DEF Bootstrapped

LEMMA ReloadedFlags ==
  ASSUME NEW u, NEW path, Reloaded(u, path)
  PROVE  SessionFlags'
<1>1. PICK r : r = Request("demoStatus", None, Carrying("demo", u.session.kept), {})
  OBVIOUS
<1>2. Made(r, "demoStatus", None, Carrying("demo", u.session.kept)) /\ calls' = {r}
  BY <1>1, RequestIs DEF Made, Reloaded
<1>3. r.op = "demoStatus" /\ r.arg.why = "demo"
  BY <1>2, CarriesIs
<1>4. ui'.session.signing = FALSE /\ ui'.busy = FALSE
  BY DEF Reloaded, Fresh
<1> QED
  BY <1>2, <1>3, <1>4 DEF SessionFlags, SigningUp, LiveHere

LEMMA InterceptedFlags ==
  ASSUME NEW c, NEW u, Ready(u, calls \ {c}), Intercepted(c, u)
  PROVE  SessionFlags'
<1>1. PICK v : v = [u EXCEPT !.session.kept = None]
  OBVIOUS
<1>2. /\ IsUi(v) /\ v.session.signing = u.session.signing /\ v.busy = u.busy /\ v.path = u.path
  BY <1>1 DEF Ready, IsUi, Shaped
<1>3. Ready(v, calls \ {c})
  BY <1>2, ReadyLike
<1>4. Reloaded(v, "login") \/ Bootstrapped(v, calls \ {c}) \/ Render(v, calls \ {c})
  BY <1>1 DEF Intercepted
<1> QED
  BY <1>3, <1>4, ReloadedFlags, BootstrappedFlags, RenderFlags

\* The handler of c is through: if the page waited for it, it does not any more.
LEMMA ReadyAfter ==
  ASSUME SessionFlags, SessionInv, NEW c \in calls, NEW u, IsUi(u),
         u.session.signing => /\ ui.session.signing
                              /\ ~(c.op \in {"login", "me"} /\ c.arg.why \in {"login", "register"}),
         u.busy => /\ ui.busy
                   /\ \/ ~(c.op \in FormOps /\ c.arg.live /\ c.arg.why \in {"register", "activate"})
                      \/ u.path = "app"
  PROVE  Ready(u, calls \ {c})
<1>1. \A d \in calls : Carries(d)
  BY DEF SessionInv, SessionOk
<1>2. SigningUp(u, calls \ {c})
  BY DEF SessionFlags, SigningUp
<1>3. LiveHere(ui.path, calls \ {c})
  BY DEF SessionFlags, LiveHere
<1>4. ASSUME u.busy, ~FormAwaits(calls \ {c})
      PROVE  u.path = "app" /\ ui.path \in {"register", "activate"}
  <2>1. c.op \in FormOps /\ c.arg.live /\ c.arg.why \in {"register", "activate"}
    BY <1>4 DEF SessionFlags, FormAwaits
  <2> QED
    BY <1>4, <2>1 DEF SessionFlags, LiveHere
<1> QED
  BY <1>1, <1>2, <1>3, <1>4 DEF Ready

\* Or it goes on with a call that carries the same.
LEMMA ReadyOn ==
  ASSUME SessionFlags, SessionInv, NEW c \in calls, NEW u, IsUi(u), NEW r, Carries(r),
         r.op \in {"login", "me"}, r.arg.why = c.arg.why, r.arg.live = c.arg.live,
         u.session.signing => ui.session.signing \/ r.arg.why \in {"login", "register"},
         u.busy => ui.busy
  PROVE  Ready(u, (calls \ {c}) \cup {r})
<1>1. \A d \in (calls \ {c}) \cup {r} : Carries(d)
  BY DEF SessionInv, SessionOk
<1>2. SigningUp(u, (calls \ {c}) \cup {r})
  BY DEF SessionFlags, SigningUp
<1>3. LiveHere(ui.path, (calls \ {c}) \cup {r})
  BY DEF SessionFlags, LiveHere
<1>4. u.busy => FormAwaits((calls \ {c}) \cup {r})
  <2>1. ASSUME u.busy PROVE FormAwaits((calls \ {c}) \cup {r})
    <3>1. PICK d \in calls : d.op \in FormOps /\ d.arg.live /\ d.arg.why \in {"register", "activate"}
      BY <2>1 DEF SessionFlags, FormAwaits
    <3>2. CASE d = c
      <4>1. r.arg.live
        BY <3>1, <3>2
      <4>2. r.arg.why \in {"register", "activate"}
        BY <3>1, <3>2
      <4>3. r.op \in FormOps
        BY DEF FormOps, Forms
      <4>4. r \in (calls \ {c}) \cup {r}
        OBVIOUS
      <4> QED
        BY <4>1, <4>2, <4>3, <4>4, Zenon DEF FormAwaits
    <3> QED
      BY <3>1, <3>2 DEF FormAwaits
  <2> QED
    BY <2>1
<1> QED
  BY <1>1, <1>2, <1>3, <1>4 DEF Ready

\* What the user does leaves what is awaited.
LEMMA ReadyStill ==
  ASSUME SessionFlags, SessionInv, NEW u, IsUi(u),
         u.session.signing => ui.session.signing, u.busy => ui.busy
  PROVE  Ready(u, calls)
BY DEF SessionFlags, SessionInv, SessionOk, Ready, SigningUp

LEMMA SessionClicksFlags ==
  ASSUME SessionFlags, SessionInv, SessionClicks
  PROVE  SessionFlags'
<1>0. IsUi(ui)
  BY DEF SessionInv, SessionOk
<1>1. ASSUME NEW user, NEW right, SubmitLogin(user, right) PROVE SessionFlags'
  <2>1. PICK u, on : /\ u = [ui EXCEPT !.error = FALSE, !.session.signing = TRUE]
                     /\ Further(u, "login", on, Carrying("login", ui.session.kept), calls)
    BY <1>1 DEF SubmitLogin
  <2>2. IsUi(u) /\ u.busy = ui.busy
    BY <1>0, <2>1 DEF IsUi, Shaped
  <2>3. ASSUME NEW r, Made(r, "login", on, Carrying("login", ui.session.kept))
        PROVE  Ready(u, calls \cup {r})
    <3>1. Carries(r) /\ r.op = "login" /\ r.arg.why = "login"
      BY <2>3, CarriesIs
    <3>2. \A d \in calls \cup {r} : Carries(d)
      BY <3>1 DEF SessionInv, SessionOk
    <3>3. SigningUp(u, calls \cup {r})
      BY <3>1 DEF SigningUp
    <3>4. LiveHere(ui.path, calls \cup {r})
      BY <3>1 DEF SessionFlags, LiveHere
    <3>5. u.busy => FormAwaits(calls \cup {r})
      BY <2>2 DEF SessionFlags, FormAwaits
    <3> QED
      BY <2>2, <3>2, <3>3, <3>4, <3>5 DEF Ready
  <2> QED
    BY <2>1, <2>3, FurtherFlags
<1>2. ASSUME NEW user, NEW form \in {"register", "activate"}, ui.path = form,
             Further([ui EXCEPT !.error = FALSE, !.busy = TRUE], form, user,
                     Carrying(form, ui.session.kept), calls)
      PROVE  SessionFlags'
  <2>1. PICK u : u = [ui EXCEPT !.error = FALSE, !.busy = TRUE]
    OBVIOUS
  <2>2. IsUi(u) /\ u.session = ui.session
    BY <1>0, <2>1 DEF IsUi, Shaped
  <2>3. ASSUME NEW r, Made(r, form, user, Carrying(form, ui.session.kept))
        PROVE  Ready(u, calls \cup {r})
    <3>1. Carries(r) /\ r.op = form /\ r.arg.why = form /\ r.arg.live
      BY <2>3, CarriesIs
    <3>2. \A d \in calls \cup {r} : Carries(d)
      BY <3>1 DEF SessionInv, SessionOk
    <3>3. SigningUp(u, calls \cup {r})
      BY <2>2 DEF SessionFlags, SigningUp
    <3>4. LiveHere(ui.path, calls \cup {r})
      BY <1>2, <3>1 DEF SessionFlags, LiveHere
    <3>5. FormAwaits(calls \cup {r})
      BY <3>1 DEF FormAwaits, FormOps, Forms
    <3> QED
      BY <2>2, <3>2, <3>3, <3>4, <3>5 DEF Ready
  <2> QED
    BY <1>2, <2>1, <2>3, FurtherFlags
<1>3. ASSUME NEW user, SubmitRegister(user) \/ SubmitActivate(user) PROVE SessionFlags'
  BY <1>2, <1>3 DEF SubmitRegister, SubmitActivate, OnScreen
<1>4. ASSUME NEW path, FollowLink(path) PROVE SessionFlags'
  <2>1. PICK u : u = [ui EXCEPT !.path = path] /\ Render(u, calls)
    BY <1>4 DEF FollowLink
  <2>2. IsUi(u) /\ u.busy = ui.busy /\ u.session = ui.session
    BY <1>0, <2>1 DEF IsUi, Shaped
  <2> QED
    BY <2>1, <2>2, ReadyStill, RenderFlags
<1>5. ASSUME NEW path, OpenAddress(path) PROVE SessionFlags'
  BY <1>5, ReloadedFlags DEF OpenAddress
<1>6. ASSUME NEW token, TokenExpires(token) PROVE SessionFlags'
  BY <1>6 DEF TokenExpires, SessionFlags, SigningUp
<1>7. CASE SignOut
  <2>1. PICK u : /\ u = [SignedOut(ui) EXCEPT !.session.kept = None, !.path = "login"]
                 /\ Further(u, "logout", None, Carrying("logout", u.session.kept), calls)
    BY <1>7 DEF SignOut
  <2>2. IsUi(u) /\ u.busy = ui.busy /\ u.session.signing = ui.session.signing
    BY <1>0, <2>1 DEF SignedOut, IsUi, Shaped
  <2>3. Ready(u, calls)
    BY <2>2, ReadyStill
  <2> QED
    BY <2>1, <2>3, BesideFlags
<1>8. CASE UseApp
  <2>1. Ready(ui, calls)
    BY <1>0, ReadyStill
  <2> QED
    BY <1>8, <2>1, BesideFlags DEF UseApp
<1> QED
  BY <1>1, <1>3, <1>4, <1>5, <1>6, <1>7, <1>8 DEF SessionClicks

\* What the answers make of the flags.
LEMMA LoginLostFlags ==
  ASSUME NEW u, IsUi(u), NEW c
  PROVE  LET v == LoginLost(u, c)
         IN  /\ IsUi(v) /\ v.session.signing = FALSE /\ v.path = u.path
             /\ v.busy => u.busy /\ ~c.arg.live
<1>1. PICK busy, error : /\ busy = IF c.arg.live THEN FALSE ELSE u.busy
                         /\ error = IF c.arg.live THEN TRUE ELSE u.error
  OBVIOUS
<1>2. PICK v : v = [u EXCEPT !.session.token = None, !.session.authed = FALSE,
                             !.session.user = None, !.session.signing = FALSE,
                             !.busy = busy, !.error = error]
  OBVIOUS
<1>3. LoginLost(u, c) = [u EXCEPT !.session.token = None, !.session.authed = FALSE,
                                  !.session.signing = FALSE, !.busy = busy, !.error = error]
  BY <1>1, Zenon DEF LoginLost
<1>4. LET w == LoginLost(u, c)
      IN  IsUi(w) /\ w.session.signing = FALSE /\ w.path = u.path /\ w.busy = busy
  BY <1>3 DEF IsUi, Shaped
<1>5. busy => u.busy /\ ~c.arg.live
  BY <1>1
<1> QED
  BY <1>4, <1>5

LEMMA LostFlags ==
  ASSUME NEW u, IsUi(u), NEW c
  PROVE  LET v == Lost(u, c)
         IN  /\ IsUi(v)
             /\ v.session.signing => u.session.signing /\ c.arg.why \notin {"login", "register"}
             /\ v.busy => /\ u.busy
                          /\ \/ ~(c.arg.live /\ c.arg.why \in {"register", "activate"})
                             \/ v.path = "app"
<1>1. CASE c.arg.why \in {"login", "register"}
  BY <1>1, LoginLostFlags DEF Lost
<1>2. CASE c.arg.why \in {"validate", "activate"}
  <2>1. PICK path : path = IF c.arg.why = "activate" THEN "app" ELSE u.path
    OBVIOUS
  <2>2. PICK w : w = SignedOut(u)
    OBVIOUS
  <2>3. IsUi(w) /\ w.session.signing = u.session.signing /\ w.busy = u.busy /\ w.path = u.path
    BY <2>2 DEF SignedOut, IsUi, Shaped
  <2>4. PICK v : v = [w EXCEPT !.session.kept = None, !.path = path]
    OBVIOUS
  <2>5. IsUi(v) /\ v.session.signing = u.session.signing /\ v.busy = u.busy /\ v.path = path
    BY <2>3, <2>4 DEF IsUi, Shaped
  <2>6. v = Lost(u, c)
    BY <1>2, <2>1, <2>2, <2>3, <2>4 DEF Lost, IsUi, Shaped
  <2>7. v.busy => v.path = "app" \/ c.arg.why = "validate"
    BY <1>2, <2>1, <2>5
  <2> QED
    BY <1>2, <2>5, <2>6, <2>7
<1>3. CASE c.arg.why \notin {"login", "register", "validate", "activate"}
  BY <1>3 DEF Lost
<1> QED
  BY <1>1, <1>2, <1>3

LEMMA KnownFlags ==
  ASSUME NEW u, IsUi(u), NEW c
  PROVE  LET v == Known(u, c)
         IN  /\ IsUi(v)
             /\ v.session.signing => u.session.signing /\ c.arg.why \notin {"login", "register"}
             /\ v.busy => /\ u.busy
                          /\ \/ ~(c.arg.live /\ c.arg.why \in {"register", "activate"})
                             \/ v.path = "app"
<1>1. CASE c.arg.why \in {"login", "register"}
  BY <1>1 DEF Known, IsUi, Shaped
<1>2. CASE c.arg.why = "validate"
  BY <1>2 DEF Known, IsUi, Shaped
<1>3. CASE c.arg.why = "activate"
  BY <1>3 DEF Known, IsUi, Shaped
<1>4. CASE c.arg.why \notin {"login", "register", "validate", "activate"}
  BY <1>4 DEF Known, IsUi, Shaped
<1> QED
  BY <1>1, <1>2, <1>3, <1>4

LEMMA SessionAnswersFlags ==
  ASSUME SessionFlags, SessionInv, SessionAnswers
  PROVE  SessionFlags'
<1>0. IsUi(ui)
  BY DEF SessionInv, SessionOk
<1>a. \A c \in calls : Carries(c)
  BY DEF SessionInv, SessionOk
<1>b. ASSUME NEW c \in calls, c.op \notin {"login", "me"} \cup FormOps, NEW u, IsUi(u),
             u.session.signing = ui.session.signing, u.busy = ui.busy
      PROVE  Ready(u, calls \ {c})
  BY <1>b, ReadyAfter
<1>1. ASSUME NEW c \in calls, c.op = "demoStatus", DemoStatusKnown(c) PROVE SessionFlags'
  <2>1. PICK u : /\ u = ui \/ u = [ui EXCEPT !.session.demo = c.ans.demo]
                 /\ \/ Further(ui, "demoLogin", None, Carrying("demo", None), calls \ {c})
                    \/ Bootstrapped(u, calls \ {c})
    BY <1>1 DEF DemoStatusKnown
  <2>2. IsUi(u) /\ u.session.signing = ui.session.signing /\ u.busy = ui.busy
    BY <1>0, <2>1 DEF IsUi, Shaped
  <2>3. Ready(u, calls \ {c}) /\ Ready(ui, calls \ {c})
    BY <1>0, <1>1, <1>b, <2>2 DEF FormOps, Forms
  <2> QED
    BY <2>1, <2>3, BesideFlags, BootstrappedFlags
<1>2. ASSUME NEW c \in calls, c.op = "demoLogin", DemoLoggedIn(c) PROVE SessionFlags'
  <2>1. PICK u, in : /\ u = [ui EXCEPT !.session.demo = TRUE] /\ in = SignedIn(u, c.ans.token)
                     /\ \/ Bootstrapped(u, calls \ {c})
                        \/ Further(in, "me", None, Carrying("demo", c.ans.token), calls \ {c})
    BY <1>2 DEF DemoLoggedIn
  <2>2. IsUi(u) /\ u.session.signing = ui.session.signing /\ u.busy = ui.busy
    BY <1>0, <2>1 DEF IsUi, Shaped
  <2>3. IsUi(in) /\ in.session.signing = ui.session.signing /\ in.busy = ui.busy
    BY <2>1, <2>2 DEF SignedIn, IsUi, Shaped
  <2>4. Ready(u, calls \ {c}) /\ Ready(in, calls \ {c})
    BY <1>2, <1>b, <2>2, <2>3 DEF FormOps, Forms
  <2> QED
    BY <2>1, <2>4, BesideFlags, BootstrappedFlags
<1>3. ASSUME NEW c \in calls, c.op = "me", ProfileKnown(c) PROVE SessionFlags'
  <2>1. PICK u : /\ u = Known(ui, c) \/ u = Lost(ui, c)
                 /\ \/ Intercepted(c, u) \/ Bootstrapped(u, calls \ {c}) \/ Render(u, calls \ {c})
    BY <1>3 DEF ProfileKnown
  <2>2. /\ IsUi(u)
        /\ u.session.signing => ui.session.signing /\ c.arg.why \notin {"login", "register"}
        /\ u.busy => /\ ui.busy
                     /\ \/ ~(c.arg.live /\ c.arg.why \in {"register", "activate"})
                        \/ u.path = "app"
    BY <1>0, <2>1, KnownFlags, LostFlags
  <2>3. Ready(u, calls \ {c})
    BY <2>2, ReadyAfter
  <2> QED
    BY <2>1, <2>3, InterceptedFlags, BootstrappedFlags, RenderFlags
<1>4. ASSUME NEW c \in calls, NEW u, NEW op \in {"login", "me"}, NEW on, NEW arg,
             Further(u, op, on, arg, calls \ {c}), IsUi(u), Shaped(arg, {"why", "token", "live"}),
             arg.why = c.arg.why, arg.live = c.arg.live, u.busy = ui.busy,
             u.session.signing => ui.session.signing \/ c.arg.why \in {"login", "register"}
      PROVE  SessionFlags'
  <2>1. ASSUME NEW r, Made(r, op, on, arg) PROVE Ready(u, (calls \ {c}) \cup {r})
    <3>1. Carries(r) /\ r.op = op /\ r.arg = arg
      BY <1>4, <2>1 DEF Made, Carries
    <3> QED
      BY <1>4, <3>1, ReadyOn
  <2> QED
    BY <1>4, <2>1, FurtherFlags
<1>5. ASSUME NEW c \in calls, NEW token
      PROVE  /\ LET arg == [c.arg EXCEPT !.token = token]
                IN  Shaped(arg, {"why", "token", "live"}) /\ arg.why = c.arg.why /\ arg.live = c.arg.live
             /\ LET in == SignedIn(ui, token)
                IN  IsUi(in) /\ in.session.signing = ui.session.signing /\ in.busy = ui.busy
  <2>1. Shaped(c.arg, {"why", "token", "live"})
    BY <1>a DEF Carries
  <2> QED
    BY <1>0, <2>1 DEF SignedIn, IsUi, Shaped
<1>6. ASSUME NEW c \in calls, c.op = "login", LoginAnswered(c) PROVE SessionFlags'
  <2>1. \/ Intercepted(c, LoginLost(ui, c)) \/ Render(LoginLost(ui, c), calls \ {c})
        \/ Further(SignedIn(ui, c.ans.token), "me", None, [c.arg EXCEPT !.token = c.ans.token],
                   calls \ {c})
    BY <1>6 DEF LoginAnswered
  <2>2. Ready(LoginLost(ui, c), calls \ {c})
    BY <1>0, LoginLostFlags, ReadyAfter
  <2> QED
    BY <1>4, <1>5, <2>1, <2>2, InterceptedFlags, RenderFlags
<1>7. ASSUME NEW c \in calls, c.op = "register" \/ c.op = "activate"
      PROVE  Ready([ui EXCEPT !.busy = @ /\ ~c.arg.live, !.error = @ \/ c.arg.live], calls \ {c})
  <2>0. PICK u : u = [ui EXCEPT !.busy = @ /\ ~c.arg.live, !.error = @ \/ c.arg.live]
    OBVIOUS
  <2>1. PICK busy, error : /\ busy = (ui.busy /\ ~c.arg.live) /\ error = (ui.error \/ c.arg.live)
    OBVIOUS
  <2>2. u = [ui EXCEPT !.busy = busy, !.error = error]
    BY <2>0, <2>1, Zenon
  <2>3. IsUi(u) /\ u.busy = busy /\ u.session = ui.session
    BY <1>0, <2>2 DEF IsUi, Shaped
  <2>4. busy => ui.busy /\ ~c.arg.live
    BY <2>1
  <2>5. c.op \notin {"login", "me"}
    BY <1>7
  <2>6. u.session.signing => ui.session.signing
    BY <2>3
  <2>7. u.busy => ui.busy /\ ~c.arg.live
    BY <2>3, <2>4
  <2>8. Ready(u, calls \ {c})
    BY <2>3, <2>5, <2>6, <2>7, ReadyAfter
  <2> QED
    BY <2>0, <2>8, Zenon
<1>8. ASSUME NEW c \in calls, c.op = "register", Registered(c) PROVE SessionFlags'
  <2>1. PICK u : u = [ui EXCEPT !.busy = @ /\ ~c.arg.live, !.error = @ \/ c.arg.live]
    OBVIOUS
  <2>2. PICK v : v = [ui EXCEPT !.session.signing = TRUE]
    OBVIOUS
  <2>3. Render(u, calls \ {c}) \/ Further(v, "login", c.on, c.arg, calls \ {c})
    BY <1>8, <2>1, <2>2 DEF Registered
  <2>4. Ready(u, calls \ {c})
    BY <1>7, <1>8, <2>1, Zenon
  <2>5. IsUi(v) /\ v.busy = ui.busy
    BY <1>0, <2>2 DEF IsUi, Shaped
  <2>6. c.arg.why = "register" /\ Shaped(c.arg, {"why", "token", "live"})
    BY <1>8, <1>a DEF SessionFlags, LiveHere, Carries
  <2> QED
    BY <1>4, <2>3, <2>4, <2>5, <2>6, RenderFlags
<1>9. ASSUME NEW c \in calls, c.op = "activate", Activated(c) PROVE SessionFlags'
  <2>1. PICK u : u = [ui EXCEPT !.busy = @ /\ ~c.arg.live, !.error = @ \/ c.arg.live]
    OBVIOUS
  <2>2. \/ Render(u, calls \ {c})
        \/ Further(SignedIn(ui, c.ans.token), "me", None, [c.arg EXCEPT !.token = c.ans.token],
                   calls \ {c})
    BY <1>9, <2>1, Zenon DEF Activated
  <2>3. Ready(u, calls \ {c})
    BY <1>7, <1>9, <2>1, Zenon
  <2> QED
    BY <1>4, <1>5, <2>2, <2>3, RenderFlags
<1>10. ASSUME NEW c \in calls, c.op \in {"use", "logout"}, Used(c) PROVE SessionFlags'
  <2>1. Ready(ui, calls \ {c})
    BY <1>0, <1>10, <1>b DEF FormOps, Forms
  <2> QED
    BY <1>10, <2>1, InterceptedFlags, RenderFlags DEF Used
<1> QED
  BY <1>1, <1>2, <1>3, <1>6, <1>8, <1>9, <1>10
     DEF SessionAnswers, Settled, Answered, Refused

-----------------------------------------------------------------------------
(* Every page                                                               *)

Unflagged == {"flat", "webgl", "city", "form"}

FlagsInv ==
  CASE page = "rules" -> RulesFlags
    [] page = "reports" -> ReportsFlags
    [] page = "kpis" -> KpisFlags
    [] page = "alerts" -> AlertsFlags
    [] page = "initiatives" -> InitiativesFlags
    [] page = "inbox" -> InboxFlags
    [] page = "changes" -> ChangesFlags
    [] page = "templates" -> TemplatesFlags
    [] page = "mining" -> MiningFlags
    [] page = "journeys" -> JourneysFlags
    [] page = "connectors" -> ConnectorsFlags
    [] page = "projects" -> ProjectsFlags
    [] page = "dashboards" -> DashboardsFlags
    [] page = "editor" -> EditorFlags
    [] page = "builder" -> BuilderFlags
    [] page = "process" -> ProcessFlags
    [] page = "views" -> ViewsFlags
    [] page = "store" -> StoreFlags
    [] page = "upload" -> UploadFlags
    [] page = "chat" -> ChatFlags
    [] page = "ocpm" -> OcpmFlags
    [] page = "governance" -> GovernanceFlags
    [] page = "session" -> SessionFlags
    [] page = "account" -> AccountFlagsHeld
    [] page = "project" -> ProjectFlags
    [] page = "shell" -> ShellFlags
    [] page = "header" -> HeaderFlags
    [] page = "pulse" -> PulseFlags
    [] page = "benchmark" -> BenchmarkFlags
    [] OTHER -> page \in Unflagged

LEMMA FlagsInvIs ==
  /\ page = "rules" => (FlagsInv <=> RulesFlags)
  /\ page = "reports" => (FlagsInv <=> ReportsFlags)
  /\ page = "kpis" => (FlagsInv <=> KpisFlags)
  /\ page = "alerts" => (FlagsInv <=> AlertsFlags)
  /\ page = "initiatives" => (FlagsInv <=> InitiativesFlags)
  /\ page = "inbox" => (FlagsInv <=> InboxFlags)
  /\ page = "changes" => (FlagsInv <=> ChangesFlags)
  /\ page = "templates" => (FlagsInv <=> TemplatesFlags)
  /\ page = "mining" => (FlagsInv <=> MiningFlags)
  /\ page = "journeys" => (FlagsInv <=> JourneysFlags)
  /\ page = "connectors" => (FlagsInv <=> ConnectorsFlags)
  /\ page = "projects" => (FlagsInv <=> ProjectsFlags)
  /\ page = "dashboards" => (FlagsInv <=> DashboardsFlags)
  /\ page = "editor" => (FlagsInv <=> EditorFlags)
  /\ page = "builder" => (FlagsInv <=> BuilderFlags)
  /\ page = "process" => (FlagsInv <=> ProcessFlags)
  /\ page = "views" => (FlagsInv <=> ViewsFlags)
  /\ page = "store" => (FlagsInv <=> StoreFlags)
  /\ page = "upload" => (FlagsInv <=> UploadFlags)
  /\ page = "chat" => (FlagsInv <=> ChatFlags)
  /\ page = "ocpm" => (FlagsInv <=> OcpmFlags)
  /\ page = "governance" => (FlagsInv <=> GovernanceFlags)
  /\ page = "session" => (FlagsInv <=> SessionFlags)
  /\ page = "account" => (FlagsInv <=> AccountFlagsHeld)
  /\ page = "project" => (FlagsInv <=> ProjectFlags)
  /\ page = "shell" => (FlagsInv <=> ShellFlags)
  /\ page = "header" => (FlagsInv <=> HeaderFlags)
  /\ page = "pulse" => (FlagsInv <=> PulseFlags)
  /\ page = "benchmark" => (FlagsInv <=> BenchmarkFlags)
  /\ page \in Unflagged => FlagsInv
BY DEF FlagsInv, Unflagged

\* Nothing but stages and answers of the calls is other than it was.
Alike(d, c) == d.op = c.op /\ d.on = c.on /\ d.arg = c.arg

SameCalls ==
  /\ ui' = ui /\ page' = page
  /\ \A c \in calls : \E d \in calls' : Alike(d, c)
  /\ \A d \in calls' : \E c \in calls : Alike(d, c)

LEMMA SameCallsKeep ==
  ASSUME FlagsInv, SameCalls
  PROVE  FlagsInv'
<1> USE DEF SameCalls, Alike, Held, HeldBy
<1>1. ASSUME RulesFlags PROVE RulesFlags'
  BY <1>1 DEF RulesFlags
<1>2. ASSUME ReportsFlags PROVE ReportsFlags'
  BY <1>2 DEF ReportsFlags
<1>3. ASSUME KpisFlags PROVE KpisFlags'
  BY <1>3 DEF KpisFlags
<1>4. ASSUME AlertsFlags \/ InboxFlags \/ ConnectorsFlags \/ PulseFlags \/ GovernanceFlags
      PROVE  /\ AlertsFlags => AlertsFlags'
             /\ InboxFlags => InboxFlags'
             /\ ConnectorsFlags => ConnectorsFlags'
             /\ PulseFlags => PulseFlags'
             /\ GovernanceFlags => GovernanceFlags'
  BY DEF AlertsFlags, InboxFlags, ConnectorsFlags, PulseFlags, GovernanceFlags
<1>5. ASSUME InitiativesFlags PROVE InitiativesFlags'
  BY <1>5 DEF InitiativesFlags
<1>6. ASSUME ChangesFlags PROVE ChangesFlags'
  BY <1>6 DEF ChangesFlags
<1>7. ASSUME TemplatesFlags PROVE TemplatesFlags'
  BY <1>7 DEF TemplatesFlags
<1>8. ASSUME MiningFlags PROVE MiningFlags'
  BY <1>8 DEF MiningFlags
<1>9. ASSUME JourneysFlags PROVE JourneysFlags'
  BY <1>9 DEF JourneysFlags
<1>10. ASSUME ProjectsFlags PROVE ProjectsFlags'
  BY <1>10 DEF ProjectsFlags
<1>11. ASSUME DashboardsFlags PROVE DashboardsFlags'
  BY <1>11 DEF DashboardsFlags
<1>12. ASSUME EditorFlags PROVE EditorFlags'
  BY <1>12 DEF EditorFlags, VersionsFlags, AwaitsOf
<1>13. ASSUME BuilderFlags PROVE BuilderFlags'
  BY <1>13 DEF BuilderFlags
<1>14. ASSUME ProcessFlags PROVE ProcessFlags'
  BY <1>14 DEF ProcessFlags
<1>15. ASSUME ViewsFlags PROVE ViewsFlags'
  BY <1>15 DEF ViewsFlags
<1>16. ASSUME StoreFlags PROVE StoreFlags'
  BY <1>16 DEF StoreFlags
<1>17. ASSUME UploadFlags PROVE UploadFlags'
  BY <1>17 DEF UploadFlags, Here
<1>18. ASSUME ChatFlags PROVE ChatFlags'
  BY <1>18 DEF ChatFlags, Written, Fills
<1>19. ASSUME OcpmFlags PROVE OcpmFlags'
  BY <1>19 DEF OcpmFlags
<1>20. ASSUME SessionFlags PROVE SessionFlags'
  BY <1>20 DEF SessionFlags, SigningUp, FormAwaits, LiveHere
<1>21. ASSUME AccountFlagsHeld PROVE AccountFlagsHeld'
  BY <1>21 DEF AccountFlagsHeld
<1>22. ASSUME ProjectFlags PROVE ProjectFlags'
  BY <1>22 DEF ProjectFlags
<1>23. ASSUME ShellFlags PROVE ShellFlags'
  BY <1>23 DEF ShellFlags, ShellHeld
<1>24. ASSUME HeaderFlags PROVE HeaderFlags'
  BY <1>24 DEF HeaderFlags
<1>25. ASSUME BenchmarkFlags PROVE BenchmarkFlags'
  BY <1>25 DEF BenchmarkFlags, BenchmarkHeld
<1> QED
  BY <1>1, <1>2, <1>3, <1>4, <1>5, <1>6, <1>7, <1>8, <1>9, <1>10, <1>11, <1>12, <1>13, <1>14,
     <1>15, <1>16, <1>17, <1>18, <1>19, <1>20, <1>21, <1>22, <1>23, <1>24, <1>25 DEF FlagsInv

LEMMA RepliedAlike ==
  ASSUME NEW c \in calls, Replied(c), page' = page
  PROVE  SameCalls
BY DEF Replied, Same, SameCalls, Alike

LEMMA AnsweredFlags ==
  ASSUME FlagsInv, SavesInv, page' = page, NEW c \in calls, Refuse(c) \/ \E o : Serve(c, o)
  PROVE  FlagsInv'
<1>1. IsCall(c)
  BY DEF SavesInv, RulesSaves, ReportsSaves, KpisSaves, TemplatesSaves, InitiativesSaves,
         ChangesSaves, MiningSaves, DashboardsSaves, ProjectsSaves, EditorSaves,
         BuilderSaves, StoreSaves, UploadSaves, ChatSaves, OcpmSaves, Calls, Unguarded
<1> QED
  BY <1>1, RepliedIs, RepliedAlike, SameCallsKeep

-----------------------------------------------------------------------------
(* How the pages are opened                                                 *)

LEMMA FlagsInit == Init => FlagsInv
<1> USE DEF Held, HeldBy, Made
<1>1. ASSUME RulesInit PROVE RulesFlags
  BY <1>1 DEF RulesInit, RulesFlags
<1>2. ASSUME NEW p, ReportsInit(p) PROVE ReportsFlags
  BY <1>2, FirstCall DEF ReportsInit, ReportsFlags
<1>3. ASSUME KpisInit PROVE KpisFlags
  BY <1>3 DEF KpisInit, KpisFlags
<1>4. ASSUME AlertsInit PROVE AlertsFlags
  BY <1>4, FirstCall DEF AlertsInit, AlertsFlags
<1>5. ASSUME NEW p, NEW prefill, InitiativesInit(p, prefill) PROVE InitiativesFlags
  BY <1>5, FirstCall DEF InitiativesInit, InitiativesFlags
<1>6. ASSUME InboxInit PROVE InboxFlags
  BY <1>6, FirstCall DEF InboxInit, InboxFlags
<1>7. ASSUME ChangesInit PROVE ChangesFlags
  BY <1>7, FirstCall DEF ChangesInit, ChangesFlags
<1>8. ASSUME TemplatesInit PROVE TemplatesFlags
  BY <1>8, FirstCall DEF TemplatesInit, TemplatesFlags
<1>9. ASSUME NEW p, MiningInit(p) PROVE MiningFlags
  BY <1>9, RequestIs DEF MiningInit, MiningFlags, MiningLoads
<1>10. ASSUME NEW p, JourneysInit(p) PROVE JourneysFlags
  BY <1>10, FirstCall DEF JourneysInit, JourneysFlags
<1>11. ASSUME ConnectorsInit PROVE ConnectorsFlags
  BY <1>11, FirstCall DEF ConnectorsInit, ConnectorsFlags
<1>12. ASSUME ProjectsInit PROVE ProjectsFlags
  BY <1>12, FirstCall DEF ProjectsInit, ProjectsFlags
<1>13. ASSUME DashboardsInit PROVE DashboardsFlags
  BY <1>13, FirstCall DEF DashboardsInit, DashboardsFlags
<1>14. ASSUME EditorInit PROVE EditorFlags
  BY <1>14, FirstCall DEF EditorInit, EditorFlags, VersionsFlags, EditorStart, ClosedVersions
<1>15. ASSUME BuilderInit PROVE BuilderFlags
  BY <1>15, FirstCall DEF BuilderInit, BuilderFlags
<1>16. ASSUME NEW log, ProcessInit(log) PROVE ProcessFlags
  <2>1. \E key : calls = {Request("loadEventLog", "log", log, {}),
                          Request("discover", "map", key, {})}
    BY <1>16 DEF ProcessInit
  <2> QED
    BY <1>16, <2>1, RequestIs DEF ProcessInit, ProcessFlags
<1>17. ASSUME NEW view, NEW log, ViewsInit(view, log) PROVE ViewsFlags
  <2>1. PICK u, key : /\ u = Mounted(view, log)
                      /\ \/ ui = u
                         \/ /\ ui = [u EXCEPT !.loading = TRUE, !.asked = key]
                            /\ calls = {Request("analyse", view,
                                                [key |-> key, live |-> TRUE, blank |-> TRUE], {})}
    BY <1>17 DEF ViewsInit
  <2>2. {"loading", "view", "log", "setting"} \subseteq DOMAIN u /\ u.loading = FALSE
    BY <2>1 DEF Mounted
  <2>3. CASE ui = u
    BY <2>2, <2>3 DEF ViewsFlags
  <2>4. CASE /\ ui = [u EXCEPT !.loading = TRUE, !.asked = key]
             /\ calls = {Request("analyse", view, [key |-> key, live |-> TRUE, blank |-> TRUE], {})}
    <3>1. PICK arg : arg = [key |-> key, live |-> TRUE, blank |-> TRUE]
      OBVIOUS
    <3>2. calls = {Request("analyse", view, arg, {})}
      BY <2>4, <3>1, Zenon
    <3>3. PICK r : calls = {r} /\ Made(r, "analyse", view, arg)
      BY <3>2, FirstCall
    <3>4. arg.live
      BY <3>1
    <3>5. {"loading", "view", "log", "setting"} \subseteq DOMAIN ui
      BY <2>2, <2>4
    <3> QED
      BY <3>3, <3>4, <3>5 DEF ViewsFlags
  <2> QED
    BY <2>1, <2>3, <2>4
<1>18. ASSUME NEW view, NEW log, StoreInit(view, log) PROVE StoreFlags
  <2>1. PICK r : calls = {r} /\ Made(r, "getAnalysis", view, log)
    BY <1>18, FirstCall DEF StoreInit
  <2>2. /\ {"busy", "exporting", "view"} \subseteq DOMAIN ui /\ ui.exporting = FALSE
        /\ ui.busy = [v \in MiningViews |-> v = view]
    BY <1>18 DEF StoreInit
  <2>3. ASSUME NEW v \in MiningViews, ui.busy[v] PROVE v = view
    BY <2>2, <2>3, Zenon
  <2> QED
    BY <2>1, <2>2, <2>3 DEF StoreFlags
<1>19. ASSUME NEW p, UploadInit(p) PROVE UploadFlags
  BY <1>19 DEF UploadInit, UploadFlags, Here
<1>20. ASSUME NEW kind, NEW log, NEW asked, ChatInit(kind, log, asked) PROVE ChatFlags
  <2>1. ui.messages = <<>> /\ <<>> \in Seq(Message) /\ DOMAIN ui.messages = {}
    BY <1>20 DEF ChatInit
  <2> QED
    BY <1>20, <2>1 DEF ChatInit, ChatFlags, Written
<1>21. ASSUME NEW route, OcpmInit(route) PROVE OcpmFlags
  <2>1. PICK k : k = Request("loadOcpmLogs", None, None, {})
    OBVIOUS
  <2>2. PICK r : r = Request("getSummary", route, "route", {k})
    OBVIOUS
  <2>3. calls = IF route = None THEN {k} ELSE {k} \cup {r}
    BY <1>21, <2>1, <2>2 DEF OcpmInit
  <2>4. Made(k, "loadOcpmLogs", None, None) /\ Made(r, "getSummary", route, "route")
    BY <2>1, <2>2, RequestIs
  <2>5. /\ {"uploading", "converting", "discovering", "logsLoading"} \subseteq DOMAIN ui
        /\ ui.uploading = FALSE /\ ui.converting = FALSE
        /\ ui.discovering => route # None
    BY <1>21 DEF OcpmInit
  <2> QED
    BY <2>3, <2>4, <2>5 DEF OcpmFlags
<1>22. ASSUME CapabilitiesInit \/ EntriesInit PROVE GovernanceFlags
  <2>1. PICK op \in {"listCapabilities", "listEntries"} : calls = {Request(op, None, None, {})}
    BY <1>22 DEF CapabilitiesInit, EntriesInit
  <2>2. "loading" \in DOMAIN ui
    BY <1>22 DEF CapabilitiesInit, EntriesInit
  <2> QED
    BY <2>1, <2>2, FirstCall DEF GovernanceFlags
<1>23. ASSUME NEW path, NEW t, NEW demo, SessionInit(path, t, demo) PROVE SessionFlags
  <2>1. PICK r : calls = {r} /\ Made(r, "demoStatus", None, Carrying("demo", t))
    BY <1>23, FirstCall DEF SessionInit
  <2>2. r.op = "demoStatus" /\ r.arg.why = "demo"
    BY <2>1, CarriesIs
  <2>3. ui.session.signing = FALSE /\ ui.busy = FALSE
    BY <1>23 DEF SessionInit, Fresh
  <2> QED
    BY <2>1, <2>2, <2>3 DEF SessionFlags, SigningUp, LiveHere
<1>24. ASSUME SettingsInit \/ UsersInit \/ KeysInit PROVE AccountFlagsHeld
  <2>1. CASE SettingsInit
    BY <2>1 DEF SettingsInit, Opened, AccountFlagsHeld
  <2>2. CASE UsersInit
    <3>1. PICK r : calls = {r} /\ Made(r, "listUsers", None, None)
      BY <2>2, FirstCall DEF UsersInit
    <3>2. /\ {"kind", "loading", "updating"} \subseteq DOMAIN ui /\ ui.kind = "users"
          /\ ui.updating = None
      BY <2>2 DEF UsersInit
    <3> QED
      BY <3>1, <3>2 DEF AccountFlagsHeld
  <2>3. CASE KeysInit
    <3>1. PICK arg : calls = {Request("listKeys", None, arg, {})}
      BY <2>3, Zenon DEF KeysInit
    <3>2. PICK r : calls = {r} /\ Made(r, "listKeys", None, arg)
      BY <3>1, FirstCall
    <3>3. {"kind", "loading", "creating"} \subseteq DOMAIN ui /\ ui.kind = "keys" /\ ui.creating = FALSE
      BY <2>3 DEF KeysInit
    <3> QED
      BY <3>2, <3>3 DEF AccountFlagsHeld
  <2> QED
    BY <1>24, <2>1, <2>2, <2>3
<1>25. ASSUME NEW p, ProjectInit(p) PROVE ProjectFlags
  <2>1. PICK k, r : /\ calls = {k, r} /\ Made(k, "getProject", p, None)
                    /\ Made(r, "listLogs", p, [map |-> 0])
    BY <1>25, RequestIs DEF ProjectInit
  <2> QED
    BY <1>25, <2>1 DEF ProjectInit, ProjectFlags
<1>26. ASSUME NEW last, NEW log, NEW all, ShellInit(last, log, all) PROVE ShellFlags
  BY <1>26 DEF ShellInit, ShellFlags, ShellHeld
<1>27. ASSUME NEW at, NEW last, NEW off, HeaderInit(at, last, off) PROVE HeaderFlags
  BY <1>27 DEF HeaderInit, HeaderFlags, Reached, NoSearch
<1>28. ASSUME NEW log \in Projects, NEW kept, NEW bare, PulseInit(log, kept, bare)
       PROVE  PulseFlags
  <2>1. CASE kept
    <3>1. PICK map : map = [log |-> log, n |-> 0] /\ ui = PulseBuilt(PulseMounted(log, map))
      BY <1>28, <2>1 DEF PulseInit
    <3>2. PICK u : u = PulseMounted(log, map)
      OBVIOUS
    <3>3. map # None
      BY <3>1, PulseAssumption DEF PulseMap
    <3>4. "loading" \in DOMAIN u /\ u.loading = FALSE
      BY <3>2, <3>3 DEF PulseMounted
    <3> QED
      BY <3>1, <3>2, <3>4 DEF PulseBuilt, PulseFlags
  <2>2. CASE ~kept
    <3>1. "loading" \in DOMAIN ui
      BY <1>28, <2>2 DEF PulseInit, PulseMounted
    <3>2. calls = {AskPulse(log, 0)}
      BY <1>28, <2>2 DEF PulseInit
    <3> QED
      BY <3>1, <3>2, FirstCall DEF PulseFlags, AskPulse
  <2> QED
    BY <2>1, <2>2
<1>29. ASSUME NEW p, BenchmarkInit(p) PROVE BenchmarkFlags
  BY <1>29, FirstCall DEF BenchmarkInit, BenchmarkFlags, BenchmarkHeld
<1> HIDE DEF Held, HeldBy, Made
<1>30. ASSUME \/ RulesInit \/ KpisInit \/ AlertsInit \/ InboxInit \/ ChangesInit
              \/ TemplatesInit \/ ConnectorsInit \/ ProjectsInit \/ DashboardsInit \/ EditorInit
              \/ BuilderInit \/ EntriesInit \/ CapabilitiesInit
       PROVE  FlagsInv
  BY <1>1, <1>3, <1>4, <1>6, <1>7, <1>8, <1>11, <1>12, <1>13, <1>14, <1>15, <1>22, <1>30,
     FlagsInvIs
     DEF RulesInit, KpisInit, AlertsInit, InboxInit, ChangesInit, TemplatesInit,
         ConnectorsInit, ProjectsInit, DashboardsInit, EditorInit, BuilderInit, EntriesInit,
         CapabilitiesInit
<1>31. ASSUME SettingsInit \/ UsersInit \/ KeysInit \/ ConnectorFormInit PROVE FlagsInv
  BY <1>24, <1>31, FlagsInvIs
     DEF SettingsInit, UsersInit, KeysInit, ConnectorFormInit, Unflagged
<1>32. ASSUME NEW p, \/ ReportsInit(p) \/ MiningInit(p) \/ JourneysInit(p) \/ UploadInit(p)
                     \/ ProjectInit(p) \/ BenchmarkInit(p) \/ ProcessInit(p) \/ OcpmInit(p)
       PROVE  FlagsInv
  BY <1>2, <1>9, <1>10, <1>16, <1>19, <1>21, <1>25, <1>29, <1>32, FlagsInvIs
     DEF ReportsInit, MiningInit, JourneysInit, UploadInit, ProjectInit, BenchmarkInit,
         ProcessInit, OcpmInit
<1>33. ASSUME NEW view, NEW log, ViewsInit(view, log) \/ StoreInit(view, log) PROVE FlagsInv
  BY <1>17, <1>18, <1>33, FlagsInvIs DEF ViewsInit, StoreInit
<1>34. ASSUME NEW p, NEW q, NEW r, \/ InitiativesInit(p, q) \/ ChatInit(p, q, r)
                                   \/ SessionInit(p, q, r) \/ ShellInit(p, q, r)
                                   \/ HeaderInit(p, q, r) \/ (p \in Projects /\ PulseInit(p, q, r))
       PROVE  FlagsInv
  <2>1. ASSUME InitiativesInit(p, q) PROVE FlagsInv
    BY <1>5, <2>1, FlagsInvIs DEF InitiativesInit
  <2>2. ASSUME ChatInit(p, q, r) PROVE FlagsInv
    BY <1>20, <2>2, FlagsInvIs DEF ChatInit
  <2>3. ASSUME SessionInit(p, q, r) PROVE FlagsInv
    BY <1>23, <2>3, FlagsInvIs DEF SessionInit
  <2>4. ASSUME ShellInit(p, q, r) PROVE FlagsInv
    BY <1>26, <2>4, FlagsInvIs DEF ShellInit
  <2>5. ASSUME HeaderInit(p, q, r) PROVE FlagsInv
    BY <1>27, <2>5, FlagsInvIs DEF HeaderInit
  <2>6. ASSUME p \in Projects, PulseInit(p, q, r) PROVE FlagsInv
    BY <1>28, <2>6, FlagsInvIs DEF PulseInit
  <2> QED
    BY <1>34, <2>1, <2>2, <2>3, <2>4, <2>5, <2>6
<1>35. ASSUME NEW m, FlatInit(m) \/ WebglInit(m) \/ CityInit(m) PROVE FlagsInv
  BY <1>35, FlagsInvIs DEF FlatInit, WebglInit, CityInit, Unflagged
<1>36. ASSUME Init
       PROVE  \/ RulesInit \/ KpisInit \/ AlertsInit \/ InboxInit \/ ChangesInit
              \/ TemplatesInit \/ ConnectorsInit \/ ProjectsInit \/ DashboardsInit \/ EditorInit
              \/ BuilderInit \/ EntriesInit \/ CapabilitiesInit
              \/ SettingsInit \/ UsersInit \/ KeysInit \/ ConnectorFormInit
              \/ \E p : \/ ReportsInit(p) \/ MiningInit(p) \/ JourneysInit(p) \/ UploadInit(p)
                       \/ ProjectInit(p) \/ BenchmarkInit(p) \/ ProcessInit(p) \/ OcpmInit(p)
              \/ \E view, log : ViewsInit(view, log) \/ StoreInit(view, log)
              \/ \E p, q, r : \/ InitiativesInit(p, q) \/ ChatInit(p, q, r)
                             \/ SessionInit(p, q, r) \/ ShellInit(p, q, r)
                             \/ HeaderInit(p, q, r) \/ (p \in Projects /\ PulseInit(p, q, r))
              \/ \E m : FlatInit(m) \/ WebglInit(m) \/ CityInit(m)
  BY <1>36 DEF Init
<1> QED
  BY <1>30, <1>31, <1>32, <1>33, <1>34, <1>35, <1>36

LEMMA FlagsStep ==
  ASSUME FlagsInv, SavesInv, WebInv, [Next]_spaVars
  PROVE  FlagsInv'
<1>1. page' = page
  BY PageStays
<1>2. /\ page = "rules" => (FlagsInv' <=> RulesFlags')
      /\ page = "reports" => (FlagsInv' <=> ReportsFlags')
      /\ page = "kpis" => (FlagsInv' <=> KpisFlags')
      /\ page = "alerts" => (FlagsInv' <=> AlertsFlags')
      /\ page = "initiatives" => (FlagsInv' <=> InitiativesFlags')
      /\ page = "inbox" => (FlagsInv' <=> InboxFlags')
      /\ page = "changes" => (FlagsInv' <=> ChangesFlags')
      /\ page = "templates" => (FlagsInv' <=> TemplatesFlags')
      /\ page = "mining" => (FlagsInv' <=> MiningFlags')
      /\ page = "journeys" => (FlagsInv' <=> JourneysFlags')
      /\ page = "connectors" => (FlagsInv' <=> ConnectorsFlags')
      /\ page = "projects" => (FlagsInv' <=> ProjectsFlags')
      /\ page = "dashboards" => (FlagsInv' <=> DashboardsFlags')
      /\ page = "editor" => (FlagsInv' <=> EditorFlags')
      /\ page = "builder" => (FlagsInv' <=> BuilderFlags')
      /\ page = "process" => (FlagsInv' <=> ProcessFlags')
      /\ page = "views" => (FlagsInv' <=> ViewsFlags')
      /\ page = "store" => (FlagsInv' <=> StoreFlags')
      /\ page = "upload" => (FlagsInv' <=> UploadFlags')
      /\ page = "chat" => (FlagsInv' <=> ChatFlags')
      /\ page = "ocpm" => (FlagsInv' <=> OcpmFlags')
      /\ page = "governance" => (FlagsInv' <=> GovernanceFlags')
      /\ page = "session" => (FlagsInv' <=> SessionFlags')
      /\ page = "account" => (FlagsInv' <=> AccountFlagsHeld')
      /\ page = "project" => (FlagsInv' <=> ProjectFlags')
      /\ page = "shell" => (FlagsInv' <=> ShellFlags')
      /\ page = "header" => (FlagsInv' <=> HeaderFlags')
      /\ page = "pulse" => (FlagsInv' <=> PulseFlags')
      /\ page = "benchmark" => (FlagsInv' <=> BenchmarkFlags')
      /\ page \in Unflagged => FlagsInv'
  BY <1>1 DEF FlagsInv, Unflagged
<1>3. CASE RulesNext
  BY <1>1, <1>2, <1>3, FlagsInvIs, SavesInvIs, RulesFlagsStep, AnsweredFlags
     DEF RulesNext
<1>4. CASE ReportsNext
  BY <1>1, <1>2, <1>4, FlagsInvIs, ReportsFlagsStep, AnsweredFlags
     DEF ReportsNext
<1>5. CASE KpisNext
  BY <1>1, <1>2, <1>5, FlagsInvIs, KpisFlagsStep, AnsweredFlags
     DEF KpisNext
<1>6. CASE AlertsNext
  BY <1>1, <1>2, <1>6, FlagsInvIs, AlertsFlagsStep, AnsweredFlags
     DEF AlertsNext
<1>7. CASE InitiativesNext
  BY <1>1, <1>2, <1>7, FlagsInvIs, InitiativesFlagsStep, AnsweredFlags
     DEF InitiativesNext
<1>8. CASE InboxNext
  BY <1>1, <1>2, <1>8, FlagsInvIs, InboxFlagsStep, AnsweredFlags
     DEF InboxNext
<1>9. CASE ChangesNext
  BY <1>1, <1>2, <1>9, FlagsInvIs, ChangesFlagsStep, AnsweredFlags
     DEF ChangesNext
<1>10. CASE TemplatesNext
  BY <1>1, <1>2, <1>10, FlagsInvIs, TemplatesFlagsStep, AnsweredFlags
     DEF TemplatesNext
<1>11. CASE MiningNext
  BY <1>1, <1>2, <1>11, FlagsInvIs, MiningFlagsStep, AnsweredFlags
     DEF MiningNext
<1>12. CASE JourneysNext
  BY <1>1, <1>2, <1>12, FlagsInvIs, JourneysFlagsStep, AnsweredFlags
     DEF JourneysNext
<1>13. CASE ConnectorsNext
  BY <1>1, <1>2, <1>13, FlagsInvIs, ConnectorsFlagsStep, AnsweredFlags
     DEF ConnectorsNext
<1>14. CASE ProjectsNext
  BY <1>1, <1>2, <1>14, FlagsInvIs, SavesInvIs, ProjectsFlagsStep, AnsweredFlags
     DEF ProjectsNext
<1>15. CASE DashboardsNext
  BY <1>1, <1>2, <1>15, FlagsInvIs, DashboardsFlagsStep, AnsweredFlags
     DEF DashboardsNext
<1>16. CASE EditorNext
  BY <1>1, <1>2, <1>16, FlagsInvIs, EditorFlagsStep, AnsweredFlags
     DEF EditorNext
<1>17. CASE BuilderNext
  BY <1>1, <1>2, <1>17, FlagsInvIs, BuilderFlagsStep, AnsweredFlags
     DEF BuilderNext
<1>18. CASE ProcessNext
  BY <1>1, <1>2, <1>18, FlagsInvIs, ProcessFlagsStep
     DEF ProcessNext
<1>19. CASE ViewsNext
  BY <1>1, <1>2, <1>19, FlagsInvIs, SavesInvIs, ViewsFlagsStep
     DEF ViewsNext, OtherPages
<1>20. CASE StoreNext
  BY <1>1, <1>2, <1>20, FlagsInvIs, StoreFlagsStep
     DEF StoreNext
<1>21. CASE UploadNext
  BY <1>1, <1>2, <1>21, FlagsInvIs, UploadFlagsStep, AnsweredFlags
     DEF UploadNext, UploadServer
<1>22. CASE ChatNext
  BY <1>1, <1>2, <1>22, FlagsInvIs, ChatFlagsStep, AnsweredFlags
     DEF ChatNext, ChatServer
<1>23. CASE OcpmNext
  BY <1>1, <1>2, <1>23, FlagsInvIs, OcpmFlagsStep, AnsweredFlags
     DEF OcpmNext, OcpmServer
<1>24. CASE GovernanceNext
  BY <1>1, <1>2, <1>24, FlagsInvIs, GovernanceFlagsStep, AnsweredFlags
     DEF GovernanceNext, CapabilitiesServer, EntriesServer
<1>25. CASE SessionNext
  <2>1. page = "session" /\ SessionFlags /\ SessionInv
    BY <1>25, FlagsInvIs DEF SessionNext, WebInv
  <2>2. CASE SessionClicks \/ SessionAnswers
    BY <1>2, <2>1, <2>2, SessionClicksFlags, SessionAnswersFlags
  <2>3. CASE \E c \in calls : SessionServer(c)
    BY <1>1, <2>3, AnsweredFlags DEF SessionServer
  <2> QED
    BY <1>25, <2>2, <2>3 DEF SessionNext
<1>26. CASE AccountNext
  BY <1>1, <1>2, <1>26, FlagsInvIs, AccountFlagsStep, AnsweredFlags
     DEF AccountNext, SettingsServer, UsersServer, KeysServer
<1>27. CASE ProjectNext
  BY <1>1, <1>2, <1>27, FlagsInvIs, ProjectFlagsStep, AnsweredFlags
     DEF ProjectNext, ProjectServer
<1>28. CASE ShellNext
  BY <1>1, <1>2, <1>28, FlagsInvIs, SavesInvIs, ShellFlagsStep, AnsweredFlags
     DEF ShellNext, ShellServer, OtherPages
<1>29. CASE HeaderNext
  BY <1>1, <1>2, <1>29, FlagsInvIs, HeaderFlagsStep
     DEF HeaderNext
<1>30. CASE PulseNext
  BY <1>1, <1>2, <1>30, FlagsInvIs, PulseFlagsStep
     DEF PulseNext
<1>31. CASE BenchmarkNext
  BY <1>1, <1>2, <1>31, FlagsInvIs, BenchmarkFlagsStep, AnsweredFlags
     DEF BenchmarkNext
<1>32. CASE FlatNext \/ WebglNext \/ CityNext \/ ConnectorFormNext
  BY <1>2, <1>32 DEF FlatNext, WebglNext, CityNext, ConnectorFormNext, Unflagged
<1>33. ASSUME NEW c \in calls, Refuse(c) PROVE FlagsInv'
  BY <1>1, <1>33, AnsweredFlags
<1>34. CASE UNCHANGED spaVars
  BY <1>34, SameCallsKeep DEF spaVars, SameCalls, Alike
<1> QED
    BY <1>3, <1>4, <1>5, <1>6, <1>7, <1>8, <1>9, <1>10, <1>11, <1>12, <1>13, <1>14, <1>15,
     <1>16, <1>17, <1>18, <1>19, <1>20, <1>21, <1>22, <1>23, <1>24, <1>25, <1>26, <1>27,
     <1>28, <1>29, <1>30, <1>31, <1>32, <1>33, <1>34 DEF Next

LEMMA FlagsMean ==
  ASSUME FlagsInv, WebInv
  PROVE  FlagsDown
<1> SUFFICES ASSUME calls = {} PROVE TRUE \notin FlagsOf
  BY DEF FlagsDown, Quiet
<1> USE DEF Held, HeldBy
<1>1. CASE page \in {"rules", "reports", "kpis", "initiatives", "changes"}
  BY <1>1 DEF FlagsInv, FlagsOf, RulesFlags, ReportsFlags, KpisFlags, InitiativesFlags, ChangesFlags
<1>2. CASE page \in {"templates", "mining", "journeys", "projects", "dashboards"}
  BY <1>2 DEF FlagsInv, FlagsOf, TemplatesFlags, MiningFlags, JourneysFlags, ProjectsFlags,
              DashboardsFlags
<1>3. CASE page = "editor"
  BY <1>3 DEF FlagsInv, FlagsOf, EditorFlags, VersionsFlags
<1>4. CASE page \in {"builder", "process", "views", "upload", "ocpm", "governance"}
  BY <1>4 DEF FlagsInv, FlagsOf, BuilderFlags, ProcessFlags, ViewsFlags, UploadFlags, OcpmFlags,
              GovernanceFlags
<1>5. CASE page = "store"
  BY <1>5 DEF FlagsInv, FlagsOf, StoreFlags
<1>6. CASE page = "chat"
  BY <1>6 DEF FlagsInv, FlagsOf, ChatFlags, Written
<1>7. CASE page = "session"
  <2>1. ~ui.busy /\ ~ui.session.signing
    BY <1>7 DEF FlagsInv, SessionFlags, SigningUp, FormAwaits
  <2>2. ~Waiting(ui)
    BY <1>7 DEF WebInv, SessionInv, SessionOk, OneToken, Waiting
  <2> QED
    BY <1>7, <2>1, <2>2 DEF FlagsOf
<1>8. CASE page = "account"
  BY <1>8 DEF FlagsInv, FlagsOf, AccountFlagsHeld, AccountFlags
<1>9. CASE page \in {"project", "shell", "header", "benchmark"}
  BY <1>9 DEF FlagsInv, FlagsOf, ProjectFlags, ShellFlags, ShellHeld, HeaderFlags, BenchmarkFlags,
              BenchmarkHeld
<1>10. CASE page = "webgl"
  BY <1>10 DEF FlagsOf, WebInv, WebglInv, Graphed
<1>11. CASE page \in {"flat", "city", "form"}
  BY <1>11 DEF FlagsOf
<1>12. CASE page \in {"alerts", "inbox", "connectors", "pulse"}
  BY <1>12 DEF FlagsInv, FlagsOf, AlertsFlags, InboxFlags, ConnectorsFlags, PulseFlags
<1> QED
  BY <1>1, <1>2, <1>3, <1>4, <1>5, <1>6, <1>7, <1>8, <1>9, <1>10, <1>11, <1>12
     DEF FlagsInv, Unflagged

\* However the calls of a page fail, are refused and overlap, when none is left no
\* spinner turns and no button stays disabled (the finally blocks, the resets in
\* the catches and the effects' cleanups of the pages and of the stores).
THEOREM FlagsComeDown == Spec => []FlagsDown
<1>1. FlagsInv /\ SavesInv /\ WebInv /\ [Next]_spaVars => FlagsInv'
  BY FlagsStep
<1>2. FlagsInv /\ WebInv => FlagsDown
  BY FlagsMean
<1>3. SavesInv /\ [Next]_spaVars => SavesInv'
  BY SavesStep
<1>4. WebInv /\ [Next]_spaVars => WebInv'
  BY WebInvStep
<1>5. Init => FlagsInv /\ SavesInv /\ WebInv
  BY FlagsInit, SavesInit, WebInvInit
<1> QED
  BY <1>1, <1>2, <1>3, <1>4, <1>5, PTL DEF Spec

=============================================================================
