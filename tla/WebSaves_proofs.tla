--------------------------- MODULE WebSaves_proofs ---------------------------
(***************************************************************************)
(* Proof that a page makes one save at a time.  A page with a button that is *)
(* disabled until the call it made is answered has an invariant of its own:  *)
(* the calls the handler waits for are at most one, and the flag that        *)
(* disables the button is up as long as there is one.  A handler that goes   *)
(* on with a second call before it clears its flag waits for that one too:   *)
(* such a call carries the handler's tag (Waits).  All other pages make none *)
(* of the guarded calls.                                                     *)
(***************************************************************************)
EXTENDS WebPages_proofs

-----------------------------------------------------------------------------
\* A call that was made of these.
Made(r, op, on, arg) == IsCall(r) /\ r.op = op /\ r.on = on /\ r.arg = arg

LEMMA SendAlsoIs ==
  ASSUME NEW op, NEW on, NEW arg, NEW others, SendAlso(op, on, arg, others)
  PROVE  \E r : calls' = others \cup {r} /\ Made(r, op, on, arg)
BY RequestIs DEF SendAlso, Made

LEMMA SendIs ==
  ASSUME NEW op, NEW on, NEW arg, Send(op, on, arg)
  PROVE  \E r : calls' = calls \cup {r} /\ Made(r, op, on, arg)
BY SendAlsoIs DEF Send

LEMMA ThenIs ==
  ASSUME NEW c, NEW op, NEW on, NEW arg, Then(c, op, on, arg)
  PROVE  \E r : calls' = (calls \ {c}) \cup {r} /\ Made(r, op, on, arg)
BY SendAlsoIs DEF Then

\* What is served or refused is the same call for those who wait.
Same(d, c) == IsCall(d) /\ d.op = c.op /\ d.on = c.on /\ d.arg = c.arg

LEMMA ServedIs ==
  ASSUME NEW c, NEW o, IsCall(c), Serve(c, o)
  PROVE  ui' = ui /\ \E d : calls' = (calls \ {c}) \cup {d} /\ Same(d, c)
<1>1. PICK d : d = [c EXCEPT !.stage = IF o.ans = None THEN "failed" ELSE "ok",
                        !.ans = o.ans]
  OBVIOUS
<1>2. ui' = ui /\ calls' = (calls \ {c}) \cup {d}
  BY <1>1, Zenon DEF Serve
<1>3. PICK stage : stage = IF o.ans = None THEN "failed" ELSE "ok"
  OBVIOUS
<1>4. d = [c EXCEPT !.stage = stage, !.ans = o.ans]
  BY <1>1, <1>3, Zenon
<1>5. SameCall(d, c, stage)
  BY <1>4, AnsweredIs
<1>6. Same(d, c)
  BY <1>5 DEF SameCall, Same
<1> QED
  BY <1>2, <1>6

LEMMA RefusedCallIs ==
  ASSUME NEW c, IsCall(c), Refuse(c)
  PROVE  ui' = ui /\ \E d : calls' = (calls \ {c}) \cup {d} /\ Same(d, c)
BY RefusedIs DEF SameCall, Same, Refuse

\* Whatever a disabled button allows one of at a time.
GuardedOps ==
  {"createRule", "updateRule", "createReport", "updateReport", "createKpi",
   "createTemplate", "createInitiative", "createChange", "minePatterns", "crossLink",
   "createDashboard", "seedSample", "importProject", "restoreVersion", "buildLog",
   "uploadRaw", "exportPdf", "uploadLog", "setMapping", "chatStream", "agentRun",
   "extractLog", "convertLog"}

LEMMA GuardedAre == UNION Guarded = GuardedOps
BY DEF Guarded, GuardedOps

\* The calls of a handler: those with these ops, and those it goes on with:
\* with the ops "then", and one of these arguments.
Waited(cs, ops, then, args) ==
  {c \in cs : c.op \in ops \/ (c.op \in then /\ c.arg \in args)}

\* The handler makes one call at a time, and is busy as long as it makes one.
Lone(cs, ops, then, args, busy) ==
  LET waited == Waited(cs, ops, then, args)
  IN  (\A c, d \in waited : c = d) /\ (waited # {} => busy)

Guards(flag, ops, then, args) == flag \in DOMAIN ui /\ Lone(calls, ops, then, args, ui[flag])

\* Calls, of the guarded ones only these.
Calls(cs, ops) == \A c \in cs : IsCall(c) /\ (c.op \in GuardedOps => c.op \in ops)

\* None of these calls is guarded.
Unguarded(cs) == \A c \in cs : IsCall(c) /\ c.op \notin GuardedOps

LEMMA CallsReplied ==
  ASSUME NEW cs, NEW ops, Calls(cs, ops), NEW c \in cs, NEW d, Same(d, c)
  PROVE  Calls((cs \ {c}) \cup {d}, ops)
BY DEF Calls, Same

LEMMA LoneReplied ==
  ASSUME NEW cs, NEW ops, NEW then, NEW args, NEW busy, Lone(cs, ops, then, args, busy),
         NEW c \in cs, NEW d, Same(d, c)
  PROVE  Lone((cs \ {c}) \cup {d}, ops, then, args, busy)
BY DEF Lone, Waited, Same

RulesSaves ==
  /\ Calls(calls, {"createRule", "updateRule"})
  /\ Guards("saving", {"createRule", "updateRule"}, {"loadRules"}, {"save"})
  /\ \A c \in calls : c.op = "runOpenRule" => c.on \in Items

ReportsSaves ==
  /\ Calls(calls, {"createReport", "updateReport"})
  /\ Guards("saving", {"createReport", "updateReport"}, {}, {})

KpisSaves == Calls(calls, {"createKpi"}) /\ Guards("creating", {"createKpi"}, {}, {})

TemplatesSaves ==
  /\ Calls(calls, {"createTemplate"})
  /\ Guards("saving", {"createTemplate"}, {"loadTemplates"}, {"save"})

InitiativesSaves ==
  /\ Calls(calls, {"createInitiative"})
  /\ Guards("creating", {"createInitiative"}, {"loadInitiatives"}, {"create"})

ChangesSaves == Calls(calls, {"createChange"}) /\ Guards("creating", {"createChange"}, {}, {})

MiningSaves ==
  /\ Calls(calls, {"minePatterns", "crossLink"})
  /\ Guards("mining", {"minePatterns"}, {"loadPatterns"}, {"mine"})
  /\ Guards("linking", {"crossLink"}, {}, {})

DashboardsSaves ==
  /\ Calls(calls, {"createDashboard"})
  /\ Guards("creating", {"createDashboard"}, {}, {})

ProjectsSaves ==
  /\ Calls(calls, {"seedSample", "importProject"})
  /\ Guards("seeding", {"seedSample", "sampleLogs"}, {"fetchProjects"}, Items)
  /\ Guards("importing", {"importProject"}, {"fetchProjects"}, {"import"})
  /\ \A c \in calls : c.op = "seedSample" /\ c.stage = "ok" => c.ans.id \in Items

EditorSaves ==
  /\ Calls(calls, {"restoreVersion"})
  /\ "versions" \in DOMAIN ui /\ {"open", "pending", "restoring"} \subseteq DOMAIN ui.versions
  /\ ui.versions.pending # None => ui.versions.open
  /\ Lone(calls, {"restoreVersion"}, {}, {}, ui.versions.open /\ ui.versions.restoring)

BuilderSaves ==
  /\ Calls(calls, {"uploadRaw", "buildLog"})
  /\ Guards("uploading", {"uploadRaw"}, {}, {})
  /\ Guards("building", {"buildLog"}, {}, {})

StoreSaves == Calls(calls, {"exportPdf"}) /\ Guards("exporting", {"exportPdf"}, {}, {})

UploadSaves ==
  /\ Calls(calls, {"uploadLog", "setMapping"})
  /\ Guards("saving", {"setMapping"}, {}, {})
  /\ {"step", "file", "status"} \subseteq DOMAIN ui
  /\ Lone(calls, {"uploadLog", "previewLog"}, {}, {},
          ui.step = "upload" /\ ui.file # None /\ ui.status = "uploading")

ChatSaves ==
  /\ Calls(calls, {"chatStream", "agentRun", "extractLog"})
  /\ Guards("loading", {"chatStream", "agentRun", "extractLog"}, {}, {})

OcpmSaves ==
  /\ Calls(calls, {"convertLog"})
  /\ Guards("converting", {"convertLog"}, {"getSummary", "discoverOcel"}, {"convert"})
  /\ \A c \in calls : c.op = "uploadOcel" => c.arg = "upload"

\* What disabled buttons keep of each page.
SavesInv ==
  CASE page = "rules" -> RulesSaves
    [] page = "reports" -> ReportsSaves
    [] page = "kpis" -> KpisSaves
    [] page = "templates" -> TemplatesSaves
    [] page = "initiatives" -> InitiativesSaves
    [] page = "changes" -> ChangesSaves
    [] page = "mining" -> MiningSaves
    [] page = "dashboards" -> DashboardsSaves
    [] page = "projects" -> ProjectsSaves
    [] page = "editor" -> EditorSaves
    [] page = "builder" -> BuilderSaves
    [] page = "store" -> StoreSaves
    [] page = "upload" -> UploadSaves
    [] page = "chat" -> ChatSaves
    [] page = "ocpm" -> OcpmSaves
    [] OTHER -> Unguarded(calls)

\* An answer or a refusal of the server.
Replied(c) == ui' = ui /\ \E d : calls' = (calls \ {c}) \cup {d} /\ Same(d, c)

LEMMA RepliedIs ==
  ASSUME NEW c \in calls, IsCall(c), Refuse(c) \/ \E o : Serve(c, o)
  PROVE  Replied(c)
BY ServedIs, RefusedCallIs DEF Replied

-----------------------------------------------------------------------------
(* The pages of rows *)

LEMMA RulesSavesStep ==
  ASSUME RulesSaves, RulesClicks \/ RulesAnswers
  PROVE  RulesSaves'
<1> USE DEF RulesSaves, Guards, Lone, Waited, Calls, Made, GuardedOps, Done
<1>1. ASSUME NEW p \in Projects, ChooseRulesProject(p) PROVE RulesSaves'
  <2>1. PICK r : calls' = calls \cup {r} /\ Made(r, "loadRules", p, None)
    BY <1>1, SendIs DEF ChooseRulesProject
  <2>2. "save" # None
    BY SpaAssumption DEF Waits
  <2> QED
    BY <1>1, <2>1, <2>2 DEF ChooseRulesProject
<1>2. ASSUME \E f \in Items \cup {"new"} : OpenRuleForm(f) \/ CloseRuleForm PROVE RulesSaves'
  BY <1>2 DEF OpenRuleForm, CloseRuleForm, Local
<1>3. CASE SaveRule
  BY <1>3, SendIs DEF SaveRule
<1>4. ASSUME NEW r \in Items, ToggleRule(r) \/ RemoveRule(r) PROVE RulesSaves'
  BY <1>4, SendIs DEF ToggleRule, RemoveRule
<1>5. ASSUME NEW r \in Items, RunRule(r) PROVE RulesSaves'
  <2>1. PICK op \in {"runOpenRule", "runRule"} : Send(op, r, ui.project)
    BY <1>5 DEF RunRule
  <2>2. PICK k : calls' = calls \cup {k} /\ Made(k, op, r, ui.project)
    BY <2>1, SendIs
  <2> QED
    BY <1>5, <2>2 DEF RunRule
<1>6. ASSUME NEW r \in Items, ExpandHistory(r) PROVE RulesSaves'
  BY <1>6, SendIs DEF ExpandHistory, Local
<1>7. ASSUME NEW c \in calls, RulesLoaded(c), c.op = "loadRules" PROVE RulesSaves'
  <2>1. CASE c.arg \in Items
    <3>1. PICK r : calls' = (calls \ {c}) \cup {r} /\ Made(r, "loadHistory", c.arg, "run")
      BY <1>7, <2>1, ThenIs DEF RulesLoaded
    <3>2. c.arg # "save"
      BY <2>1, SpaAssumption DEF Waits
    <3> QED
      BY <1>7, <3>1, <3>2 DEF RulesLoaded
  <2>2. CASE c.arg \notin Items
    BY <1>7, <2>2 DEF RulesLoaded
  <2> QED
    BY <2>1, <2>2
<1>8. ASSUME NEW c \in calls, RuleSaved(c), c.op \in {"createRule", "updateRule"} PROVE RulesSaves'
  <2>1. CASE c.stage = "ok"
    <3>1. PICK r, on : calls' = (calls \ {c}) \cup {r} /\ Made(r, "loadRules", on, "save")
      BY <1>8, <2>1, ThenIs DEF RuleSaved
    <3>2. ui'.saving = ui.saving /\ "saving" \in DOMAIN ui'
      BY <1>8, <2>1 DEF RuleSaved
    <3> QED
      BY <1>8, <3>1, <3>2
  <2>2. CASE c.stage # "ok"
    BY <1>8, <2>2 DEF RuleSaved
  <2> QED
    BY <2>1, <2>2
<1>9. ASSUME NEW c \in calls, RuleToggled(c) \/ RuleRemoved(c) PROVE RulesSaves'
  BY <1>9 DEF RuleToggled, RuleRemoved
<1>10. ASSUME NEW c \in calls, RuleRan(c), c.op \in RunOps PROVE RulesSaves'
  <2>1. CASE c.stage = "ok"
    <3>1. PICK r, arg : calls' = (calls \ {c}) \cup {r} /\ Made(r, "loadRules", c.arg, arg)
                        /\ arg = IF c.op = "runOpenRule" THEN c.on ELSE "run"
      BY <1>10, <2>1, ThenIs DEF RuleRan
    <3>2. arg # "save"
      BY <3>1, SpaAssumption DEF Waits
    <3> QED
      BY <1>10, <2>1, <3>1, <3>2 DEF RuleRan
  <2>2. CASE c.stage # "ok"
    BY <1>10, <2>2 DEF RuleRan
  <2> QED
    BY <2>1, <2>2
<1>11. ASSUME NEW c \in calls, HistoryLoaded(c) PROVE RulesSaves'
  BY <1>11 DEF HistoryLoaded
<1> HIDE DEF RulesSaves
<1> QED
  BY <1>1, <1>2, <1>3, <1>4, <1>5, <1>6, <1>7, <1>8, <1>9, <1>10, <1>11
     DEF RulesClicks, RulesAnswers, Settled, Answered, Refused

LEMMA ReportsSavesStep ==
  ASSUME ReportsSaves, ReportsClicks \/ ReportsAnswers
  PROVE  ReportsSaves'
<1> USE DEF ReportsSaves, Guards, Lone, Waited, Calls, Made, GuardedOps, Done
<1>1. ASSUME NEW p \in Projects, LoadReports(p) PROVE ReportsSaves'
  BY <1>1, SendIs DEF LoadReports
<1>2. ASSUME CloseReportForm \/ \E f \in Items \cup {"new"} : OpenReportForm(f)
      PROVE  ReportsSaves'
  BY <1>2 DEF OpenReportForm, CloseReportForm, Local
<1>3. CASE SaveReport
  BY <1>3, SendIs DEF SaveReport
<1>4. ASSUME NEW r \in Items, DeleteReport(r) \/ ToggleReport(r) \/ SendReport(r)
      PROVE  ReportsSaves'
  BY <1>4, SendIs DEF DeleteReport, ToggleReport, SendReport
<1>5. ASSUME NEW c \in calls, c.op = "createReport", ReportCreated(c) PROVE ReportsSaves'
  BY <1>5 DEF ReportCreated
<1>6. ASSUME NEW c \in calls, c.op = "updateReport", ReportUpdated(c) PROVE ReportsSaves'
  BY <1>6 DEF ReportUpdated
<1>7. ASSUME NEW c \in calls,
             ReportsLoaded(c) \/ ReportDeleted(c) \/ ReportToggled(c) \/ ReportSent(c)
      PROVE  ReportsSaves'
  BY <1>7 DEF ReportsLoaded, ReportDeleted, ReportToggled, ReportSent
<1> HIDE DEF ReportsSaves
<1> QED
  BY <1>1, <1>2, <1>3, <1>4, <1>5, <1>6, <1>7
     DEF ReportsClicks, ReportsAnswers, Settled, Answered, Refused

LEMMA KpisSavesStep ==
  ASSUME KpisSaves, KpisClicks \/ KpisAnswers
  PROVE  KpisSaves'
<1> USE DEF KpisSaves, Guards, Lone, Waited, Calls, Made, GuardedOps, Done
<1>1. ASSUME NEW p \in Projects, ChooseKpiProject(p) PROVE KpisSaves'
  <2>1. Made(Request("loadKpiLogs", p, None, calls), "loadKpiLogs", p, None)
    BY RequestIs
  <2>2. PICK k, r : /\ calls' = calls \cup {k} \cup {r}
                    /\ Made(k, "loadKpiLogs", p, None) /\ Made(r, "loadKpis", p, None)
    BY <1>1, <2>1, SendAlsoIs DEF ChooseKpiProject
  <2> QED
    BY <1>1, <2>2 DEF ChooseKpiProject
<1>2. CASE RefreshKpis
  BY <1>2, SendIs DEF RefreshKpis
<1>3. ASSUME PickKpiLog \/ CloseKpiForm \/ \E k \in Items \cup {None} : OpenKpiForm(k)
      PROVE  KpisSaves'
  BY <1>3 DEF PickKpiLog, CloseKpiForm, OpenKpiForm, Local
<1>4. CASE CreateKpi
  BY <1>4, SendIs DEF CreateKpi
<1>5. ASSUME EditKpi \/ \E k \in Items : DeleteKpi(k) \/ ComputeKpi(k) PROVE KpisSaves'
  <2>1. CASE EditKpi
    BY <2>1, SendIs DEF EditKpi
  <2>2. ASSUME NEW k \in Items, DeleteKpi(k) \/ ComputeKpi(k) PROVE KpisSaves'
    BY <2>2, SendIs DEF DeleteKpi, ComputeKpi
  <2> QED
    BY <1>5, <2>1, <2>2
<1>6. ASSUME NEW c \in calls, c.op = "createKpi", KpiCreated(c) PROVE KpisSaves'
  BY <1>6 DEF KpiCreated
<1>7. ASSUME NEW c \in calls, KpisLoaded(c) \/ KpiLogsLoaded(c) \/ KpiDeleted(c) PROVE KpisSaves'
  BY <1>7 DEF KpisLoaded, KpiLogsLoaded, KpiDeleted
<1>8. ASSUME NEW c \in calls, KpiEdited(c) \/ KpiComputed(c) PROVE KpisSaves'
  BY <1>8 DEF KpiEdited, KpiComputed, ReplaceKpi
<1> HIDE DEF KpisSaves
<1> QED
  BY <1>1, <1>2, <1>3, <1>4, <1>5, <1>6, <1>7, <1>8
     DEF KpisClicks, KpisAnswers, Settled, Answered, Refused

LEMMA TemplatesSavesStep ==
  ASSUME TemplatesSaves, TemplatesClicks \/ TemplatesAnswers
  PROVE  TemplatesSaves'
<1> USE DEF TemplatesSaves, Guards, Lone, Waited, Calls, Made, GuardedOps, Done
<1>0. "save" # None
  BY SpaAssumption DEF Waits
<1>1. CASE SeedTemplates
  BY <1>1, SendIs DEF SeedTemplates
<1>2. CASE OpenTemplateForm \/ CloseTemplateForm
  BY <1>2 DEF OpenTemplateForm, CloseTemplateForm, Local
<1>3. CASE CreateTemplate
  BY <1>3, SendIs DEF CreateTemplate
<1>4. ASSUME NEW c \in calls, c.op = "loadTemplates", TemplatesLoaded(c) PROVE TemplatesSaves'
  <2>1. CASE c.arg = "save"
    <3>1. \A d \in calls :
             d.op = "createTemplate" \/ (d.op = "loadTemplates" /\ d.arg = "save") => d = c
      BY <1>4, <2>1
    <3>2. calls' = calls \ {c} /\ "saving" \in DOMAIN ui'
      BY <1>4 DEF TemplatesLoaded
    <3>3. Waited(calls', {"createTemplate"}, {"loadTemplates"}, {"save"}) = {}
      BY <3>1, <3>2
    <3>4. Calls(calls', {"createTemplate"})
      BY <3>2
    <3> QED
      BY <3>2, <3>3, <3>4
  <2>2. CASE c.arg # "save"
    <3>1. PICK v : v = (ui.saving /\ c.arg # "save")
      OBVIOUS
    <3>2. ui.saving => v
      BY <2>2, <3>1, Zenon
    <3>3. ui'.saving = v /\ "saving" \in DOMAIN ui' /\ calls' = calls \ {c}
      BY <1>4, <3>1 DEF TemplatesLoaded
    <3> QED
      BY <1>4, <3>2, <3>3
  <2> QED
    BY <2>1, <2>2
<1>5. ASSUME NEW c \in calls, c.op = "seedTemplates", TemplatesSeeded(c) PROVE TemplatesSaves'
  <2>1. CASE c.stage = "ok"
    <3>1. PICK r : calls' = (calls \ {c}) \cup {r} /\ Made(r, "loadTemplates", None, None)
      BY <1>5, <2>1, ThenIs DEF TemplatesSeeded
    <3>2. ui'.saving = ui.saving /\ "saving" \in DOMAIN ui'
      BY <1>5, <2>1 DEF TemplatesSeeded
    <3> QED
      BY <1>0, <1>5, <3>1, <3>2
  <2>2. CASE c.stage # "ok"
    BY <1>5, <2>2 DEF TemplatesSeeded
  <2> QED
    BY <2>1, <2>2
<1>6. ASSUME NEW c \in calls, c.op = "createTemplate", TemplateCreated(c) PROVE TemplatesSaves'
  <2>1. CASE c.stage = "ok"
    <3>1. PICK r : calls' = (calls \ {c}) \cup {r} /\ Made(r, "loadTemplates", None, "save")
      BY <1>6, <2>1, ThenIs DEF TemplateCreated
    <3>2. ui'.saving = ui.saving /\ "saving" \in DOMAIN ui'
      BY <1>6, <2>1 DEF TemplateCreated
    <3> QED
      BY <1>6, <3>1, <3>2
  <2>2. CASE c.stage # "ok"
    BY <1>6, <2>2 DEF TemplateCreated
  <2> QED
    BY <2>1, <2>2
<1> HIDE DEF TemplatesSaves
<1> QED
  BY <1>1, <1>2, <1>3, <1>4, <1>5, <1>6
     DEF TemplatesClicks, TemplatesAnswers, Settled, Answered, Refused

LEMMA InitiativesSavesStep ==
  ASSUME InitiativesSaves, InitiativesClicks \/ InitiativesAnswers
  PROVE  InitiativesSaves'
<1> USE DEF InitiativesSaves, Guards, Lone, Waited, Calls, Made, GuardedOps, Done
<1>0. "create" # None
  BY SpaAssumption DEF Waits
<1>1. ASSUME NEW p \in Projects, GoToInitiatives(p) PROVE InitiativesSaves'
  BY <1>0, <1>1, SendIs DEF GoToInitiatives
<1>2. CASE OpenInitiativeForm \/ CloseInitiativeForm
  BY <1>2 DEF OpenInitiativeForm, CloseInitiativeForm, Local
<1>3. CASE CreateInitiative
  BY <1>3, SendIs DEF CreateInitiative
<1>4. ASSUME NEW i \in Items, MeasureInitiative(i) \/ DeleteInitiative(i) PROVE InitiativesSaves'
  BY <1>4, SendIs DEF MeasureInitiative, DeleteInitiative
<1>5. ASSUME NEW c \in calls, c.op = "loadInitiatives", InitiativesLoaded(c)
      PROVE  InitiativesSaves'
  <2>1. CASE c.arg = "create"
    <3>1. \A d \in calls :
             d.op = "createInitiative" \/ (d.op = "loadInitiatives" /\ d.arg = "create") => d = c
      BY <1>5, <2>1
    <3>2. calls' = calls \ {c} /\ "creating" \in DOMAIN ui'
      BY <1>5 DEF InitiativesLoaded
    <3>3. Waited(calls', {"createInitiative"}, {"loadInitiatives"}, {"create"}) = {}
      BY <3>1, <3>2
    <3>4. Calls(calls', {"createInitiative"})
      BY <3>2
    <3> QED
      BY <3>2, <3>3, <3>4
  <2>2. CASE c.arg # "create"
    <3>1. PICK v : v = (ui.creating /\ c.arg # "create")
      OBVIOUS
    <3>2. ui.creating => v
      BY <2>2, <3>1, Zenon
    <3>3. ui'.creating = v /\ "creating" \in DOMAIN ui' /\ calls' = calls \ {c}
      BY <1>5, <3>1 DEF InitiativesLoaded
    <3> QED
      BY <1>5, <3>2, <3>3
  <2> QED
    BY <2>1, <2>2
<1>6. ASSUME NEW c \in calls, c.op = "createInitiative", InitiativeCreated(c)
      PROVE  InitiativesSaves'
  <2>1. CASE c.stage = "ok"
    <3>1. PICK r : calls' = (calls \ {c}) \cup {r} /\ Made(r, "loadInitiatives", c.on, "create")
      BY <1>6, <2>1, ThenIs DEF InitiativeCreated
    <3>2. ui'.creating = ui.creating /\ "creating" \in DOMAIN ui'
      BY <1>6, <2>1 DEF InitiativeCreated
    <3> QED
      BY <1>6, <3>1, <3>2
  <2>2. CASE c.stage # "ok"
    BY <1>6, <2>2 DEF InitiativeCreated
  <2> QED
    BY <2>1, <2>2
<1>7. ASSUME NEW c \in calls, c.op \in {"measureInitiative", "deleteInitiative"},
             InitiativeChanged(c)
      PROVE  InitiativesSaves'
  <2>1. CASE c.stage = "ok"
    <3>1. PICK r : calls' = (calls \ {c}) \cup {r} /\ Made(r, "loadInitiatives", c.arg, None)
      BY <1>7, <2>1, ThenIs DEF InitiativeChanged
    <3>2. ui'.creating = ui.creating /\ "creating" \in DOMAIN ui'
      BY <1>7, <2>1 DEF InitiativeChanged
    <3> QED
      BY <1>0, <1>7, <3>1, <3>2
  <2>2. CASE c.stage # "ok"
    BY <1>7, <2>2 DEF InitiativeChanged
  <2> QED
    BY <2>1, <2>2
<1> HIDE DEF InitiativesSaves
<1> QED
  BY <1>1, <1>2, <1>3, <1>4, <1>5, <1>6, <1>7
     DEF InitiativesClicks, InitiativesAnswers, Settled, Answered, Refused

LEMMA ChangesSavesStep ==
  ASSUME ChangesSaves, ChangesClicks \/ ChangesAnswers
  PROVE  ChangesSaves'
<1> USE DEF ChangesSaves, Guards, Lone, Waited, Calls, Made, GuardedOps, Done
<1>1. ASSUME NEW s, LoadChanges(s) PROVE ChangesSaves'
  BY <1>1, SendIs DEF LoadChanges
<1>2. ASSUME OpenChangeForm \/ CloseChangeModal \/ \E r \in Items : AskReject(r)
      PROVE  ChangesSaves'
  BY <1>2 DEF OpenChangeForm, CloseChangeModal, AskReject, Local
<1>3. CASE CreateChange
  BY <1>3, SendIs DEF CreateChange
<1>4. CASE ConfirmReject
  BY <1>4, SendIs DEF ConfirmReject
<1>5. ASSUME NEW r \in Items, SubmitChange(r) \/ ApproveChange(r) PROVE ChangesSaves'
  BY <1>5, SendIs DEF SubmitChange, ApproveChange
<1>6. ASSUME NEW c \in calls, ChangesLoaded(c) \/ ChangeActed(c) PROVE ChangesSaves'
  BY <1>6 DEF ChangesLoaded, ChangeActed
<1>7. ASSUME NEW c \in calls, c.op = "createChange", ChangeCreated(c) PROVE ChangesSaves'
  BY <1>7 DEF ChangeCreated
<1> HIDE DEF ChangesSaves
<1> QED
  BY <1>1, <1>2, <1>3, <1>4, <1>5, <1>6, <1>7
     DEF ChangesClicks, ChangesAnswers, FilterChanges, RetryChanges, Settled, Answered, Refused

LEMMA MiningSavesStep ==
  ASSUME MiningSaves, MiningClicks \/ MiningAnswers
  PROVE  MiningSaves'
<1> USE DEF MiningSaves, Guards, Lone, Waited, Calls, Made, GuardedOps, Done
<1>1. ASSUME NEW p \in Projects, GoToMining(p) PROVE MiningSaves'
  <2>1. Made(Request("loadPatterns", p, None, calls), "loadPatterns", p, None)
    BY RequestIs
  <2>2. PICK pick : pick = IF ui.log = None THEN "pick" ELSE None
    OBVIOUS
  <2>3. Made(Request("loadMiningLogs", p, pick, calls), "loadMiningLogs", p, pick)
    BY RequestIs
  <2>4. PICK k, r : /\ calls' = calls \cup {k, r}
                    /\ Made(k, "loadPatterns", p, None) /\ Made(r, "loadMiningLogs", p, pick)
    BY <1>1, <2>1, <2>2, <2>3 DEF GoToMining, MiningLoads
  <2>5. "mine" # None
    BY SpaAssumption DEF Waits
  <2> QED
    BY <1>1, <2>4, <2>5 DEF GoToMining
<1>2. CASE SelectMiningLog
  BY <1>2 DEF SelectMiningLog, Local
<1>3. CASE MinePatterns
  BY <1>3, SendIs DEF MinePatterns
<1>4. CASE CrossLink
  BY <1>4, SendIs DEF CrossLink
<1>5. ASSUME NEW c \in calls, c.op = "loadPatterns", PatternsLoaded(c) PROVE MiningSaves'
  <2>1. /\ calls' = calls \ {c} /\ {"mining", "linking"} \subseteq DOMAIN ui'
        /\ ui'.linking = ui.linking
    BY <1>5 DEF PatternsLoaded
  <2>2. CASE c.arg = "mine"
    <3>1. \A d \in calls : d.op = "minePatterns" \/ (d.op = "loadPatterns" /\ d.arg = "mine")
                             => d = c
      BY <1>5, <2>2
    <3> QED
      BY <2>1, <3>1
  <2>3. CASE c.arg # "mine"
    <3>1. PICK v : v = (ui.mining /\ c.arg # "mine")
      OBVIOUS
    <3>2. ui.mining => v
      BY <2>3, <3>1, Zenon
    <3>3. ui'.mining = v
      BY <1>5, <3>1 DEF PatternsLoaded
    <3> QED
      BY <2>1, <3>2, <3>3
  <2> QED
    BY <2>2, <2>3
<1>6. ASSUME NEW c \in calls, c.op = "loadMiningLogs", MiningLogsLoaded(c) PROVE MiningSaves'
  BY <1>6 DEF MiningLogsLoaded
<1>7. ASSUME NEW c \in calls, c.op = "minePatterns", PatternsMined(c) PROVE MiningSaves'
  <2>1. CASE c.stage = "ok" /\ ~c.ans.message
    <3>1. PICK r : calls' = (calls \ {c}) \cup {r} /\ Made(r, "loadPatterns", c.on, "mine")
      BY <1>7, <2>1, ThenIs DEF PatternsMined
    <3>2. /\ {"mining", "linking"} \subseteq DOMAIN ui'
          /\ ui'.mining = ui.mining /\ ui'.linking = ui.linking
      BY <1>7, <2>1 DEF PatternsMined
    <3> QED
      BY <1>7, <3>1, <3>2
  <2>2. CASE ~(c.stage = "ok" /\ ~c.ans.message)
    BY <1>7, <2>2 DEF PatternsMined
  <2> QED
    BY <2>1, <2>2
<1>8. ASSUME NEW c \in calls, c.op = "crossLink", CrossLinked(c) PROVE MiningSaves'
  BY <1>8 DEF CrossLinked
<1> HIDE DEF MiningSaves
<1> QED
  BY <1>1, <1>2, <1>3, <1>4, <1>5, <1>6, <1>7, <1>8
     DEF MiningClicks, MiningAnswers, Settled, Answered, Refused

LEMMA DashboardsSavesStep ==
  ASSUME DashboardsSaves, DashboardsClicks \/ DashboardsAnswers
  PROVE  DashboardsSaves'
<1> USE DEF DashboardsSaves, Guards, Lone, Waited, Calls, Made, GuardedOps, Done
<1>1. CASE OpenDashboardForm \/ CloseDashboardForm
  BY <1>1 DEF OpenDashboardForm, CloseDashboardForm, Local
<1>2. CASE CreateDashboard
  BY <1>2, SendIs DEF CreateDashboard
<1>3. ASSUME NEW d \in Items, DeleteDashboard(d) PROVE DashboardsSaves'
  BY <1>3, SendIs DEF DeleteDashboard
<1>4. ASSUME NEW c \in calls, DashboardsLoaded(c) \/ DashboardDeleted(c) PROVE DashboardsSaves'
  BY <1>4 DEF DashboardsLoaded, DashboardDeleted
<1>5. ASSUME NEW c \in calls, c.op = "createDashboard", DashboardCreated(c)
      PROVE  DashboardsSaves'
  BY <1>5 DEF DashboardCreated
<1> HIDE DEF DashboardsSaves
<1> QED
  BY <1>1, <1>2, <1>3, <1>4, <1>5
     DEF DashboardsClicks, DashboardsAnswers, Settled, Answered, Refused

LEMMA ProjectsSavesStep ==
  ASSUME ProjectsSaves, ProjectsClicks \/ ProjectsAnswers
  PROVE  ProjectsSaves'
<1> USE DEF ProjectsSaves, Guards, Lone, Waited, Calls, Made, GuardedOps, Done
<1>0. None \notin Items /\ "import" \notin Items /\ "import" # None
  BY SpaAssumption DEF Waits
<1>1. CASE OpenProjectForm \/ CloseProjectForm
  BY <1>1 DEF OpenProjectForm, CloseProjectForm, Local
<1>2. CASE SeedSample
  <2>1. /\ ui' = [ui EXCEPT !.seeding = TRUE] /\ ~ui.seeding
        /\ Send("seedSample", None, None)
    BY <1>2 DEF SeedSample
  <2>2. PICK r : calls' = calls \cup {r} /\ Made(r, "seedSample", None, None) /\ r.stage # "ok"
    BY <2>1, RequestIs DEF Send, SendAlso, Readings
  <2> QED
    BY <1>0, <2>1, <2>2
<1>3. CASE ImportProject
  BY <1>0, <1>3, SendIs DEF ImportProject
<1>4. ASSUME NEW enter, CreateProject(enter) PROVE ProjectsSaves'
  BY <1>4, SendIs DEF CreateProject
<1>5. ASSUME NEW i \in Items, ExportProject(i) \/ DeleteProject(i) PROVE ProjectsSaves'
  BY <1>5, SendIs DEF ExportProject, DeleteProject
<1>6. ASSUME NEW c \in calls, c.op = "fetchProjects", ProjectsFetched(c) PROVE ProjectsSaves'
  <2>1. CASE c.arg \in Items
    <3>1. PICK r : calls' = (calls \ {c}) \cup {r} /\ Made(r, "sampleLogs", c.arg, None)
      BY <1>6, <2>1, ThenIs DEF ProjectsFetched
    <3>2. PICK v : v = (ui.importing /\ c.arg # "import")
      OBVIOUS
    <3>3. ui.importing => v
      BY <1>0, <2>1, <3>2, Zenon
    <3>4. /\ {"seeding", "importing"} \subseteq DOMAIN ui'
          /\ ui'.seeding = ui.seeding /\ ui'.importing = v
      BY <1>6, <3>2 DEF ProjectsFetched
    <3> QED
      BY <1>0, <1>6, <2>1, <3>1, <3>3, <3>4
  <2>2. CASE c.arg = "import"
    <3>1. \A d \in calls : d.op = "importProject" \/ (d.op = "fetchProjects" /\ d.arg = "import")
                             => d = c
      BY <1>6, <2>2
    <3>2. /\ {"seeding", "importing"} \subseteq DOMAIN ui'
          /\ ui'.seeding = ui.seeding /\ calls' = calls \ {c}
      BY <1>0, <1>6, <2>2 DEF ProjectsFetched
    <3> QED
      BY <3>1, <3>2
  <2>3. CASE c.arg # "import" /\ c.arg \notin Items
    <3>1. PICK v : v = (ui.importing /\ c.arg # "import")
      OBVIOUS
    <3>2. ui.importing => v
      BY <2>3, <3>1, Zenon
    <3>3. /\ {"seeding", "importing"} \subseteq DOMAIN ui' /\ calls' = calls \ {c}
          /\ ui'.seeding = ui.seeding /\ ui'.importing = v
      BY <1>6, <2>3, <3>1 DEF ProjectsFetched
    <3> QED
      BY <3>2, <3>3
  <2> QED
    BY <2>1, <2>2, <2>3
<1>7. ASSUME NEW c \in calls, ProjectCreated(c) \/ ProjectExported(c) \/ ProjectDeleted(c)
      PROVE  ProjectsSaves'
  BY <1>7 DEF ProjectCreated, ProjectExported, ProjectDeleted
<1>8. ASSUME NEW c \in calls, c.op = "seedSample", SampleSeeded(c) PROVE ProjectsSaves'
  <2>1. CASE c.stage = "ok"
    <3>1. PICK i : i = c.ans.id /\ i \in Items
      BY <1>8, <2>1
    <3>2. PICK r : calls' = (calls \ {c}) \cup {r} /\ Made(r, "fetchProjects", None, i)
      BY <1>8, <2>1, <3>1, ThenIs DEF SampleSeeded
    <3>3. /\ {"seeding", "importing"} \subseteq DOMAIN ui'
          /\ ui'.seeding = ui.seeding /\ ui'.importing = ui.importing
      BY <1>8, <2>1 DEF SampleSeeded
    <3> QED
      BY <1>0, <1>8, <3>1, <3>2, <3>3
  <2>2. CASE c.stage # "ok"
    BY <1>8, <2>2 DEF SampleSeeded
  <2> QED
    BY <2>1, <2>2
<1>9. ASSUME NEW c \in calls, c.op = "sampleLogs", SampleLogsListed(c) PROVE ProjectsSaves'
  BY <1>9 DEF SampleLogsListed
<1>10. ASSUME NEW c \in calls, c.op = "importProject", ProjectImported(c) PROVE ProjectsSaves'
  <2>1. CASE c.stage = "ok"
    <3>1. PICK r : calls' = (calls \ {c}) \cup {r} /\ Made(r, "fetchProjects", None, "import")
      BY <1>10, <2>1, ThenIs DEF ProjectImported
    <3>2. /\ {"seeding", "importing"} \subseteq DOMAIN ui'
          /\ ui'.seeding = ui.seeding /\ ui'.importing = ui.importing
      BY <1>10, <2>1 DEF ProjectImported
    <3> QED
      BY <1>0, <1>10, <3>1, <3>2
  <2>2. CASE c.stage # "ok"
    BY <1>10, <2>2 DEF ProjectImported
  <2> QED
    BY <2>1, <2>2
<1> HIDE DEF ProjectsSaves
<1> QED
  BY <1>1, <1>2, <1>3, <1>4, <1>5, <1>6, <1>7, <1>8, <1>9, <1>10
     DEF ProjectsClicks, ProjectsAnswers, Settled, Answered, Refused

-----------------------------------------------------------------------------
(* The editor of a dashboard                                                *)

\* A call that is taken for another: the same but for its op.
LEMMA TakenForIs ==
  ASSUME NEW c, IsCall(c), NEW op
  PROVE  IsCall([c EXCEPT !.op = op]) /\ [c EXCEPT !.op = op].op = op
BY DEF IsCall, Shaped

LEMMA WithoutPanelIs ==
  ASSUME NEW cs, Calls(cs, {"restoreVersion"})
  PROVE  Unguarded(WithoutPanel(cs))
<1> SUFFICES ASSUME NEW d \in WithoutPanel(cs) PROVE IsCall(d) /\ d.op \notin GuardedOps
  BY DEF Unguarded
<1>1. PICK c \in cs : d = IF c.op = "saveVersion" THEN [c EXCEPT !.op = "lateVersion"]
                          ELSE IF c.op = "restoreVersion" THEN [c EXCEPT !.op = "lateRestore"]
                          ELSE c
  BY DEF WithoutPanel
<1>2. IsCall(c) /\ (c.op \in GuardedOps => c.op = "restoreVersion")
  BY DEF Calls
<1>3. CASE c.op = "saveVersion"
  <2>1. d = [c EXCEPT !.op = "lateVersion"]
    BY <1>1, <1>3
  <2>2. IsCall(d) /\ d.op = "lateVersion"
    BY <1>2, <2>1, TakenForIs
  <2> QED
    BY <2>2 DEF GuardedOps
<1>4. CASE c.op = "restoreVersion"
  <2>1. d = [c EXCEPT !.op = "lateRestore"]
    BY <1>1, <1>4
  <2>2. IsCall(d) /\ d.op = "lateRestore"
    BY <1>2, <2>1, TakenForIs
  <2> QED
    BY <2>2 DEF GuardedOps
<1>5. CASE c.op \notin {"saveVersion", "restoreVersion"}
  BY <1>1, <1>2, <1>5
<1> QED
  BY <1>3, <1>4, <1>5

LEMMA AbandonedIs ==
  ASSUME NEW cs, \A c \in cs : IsCall(c)
  PROVE  Unguarded(Abandoned(cs))
<1> SUFFICES ASSUME NEW d \in Abandoned(cs) PROVE IsCall(d) /\ d.op \notin GuardedOps
  BY DEF Unguarded
<1>1. PICK c \in cs, op \in {"latePut", "lateVersion"} : d = [c EXCEPT !.op = op]
  BY DEF Abandoned
<1>2. IsCall(d) /\ d.op = op
  BY <1>1, TakenForIs
<1> QED
  BY <1>1, <1>2 DEF GuardedOps

LEMMA EditorUnguarded ==
  ASSUME Unguarded(calls')
  PROVE  /\ Calls(calls', {"restoreVersion"})
         /\ \A busy : Lone(calls', {"restoreVersion"}, {}, {}, busy)
<1>1. \A c \in calls' : IsCall(c) /\ c.op \notin GuardedOps /\ c.op # "restoreVersion"
  BY DEF Unguarded, GuardedOps
<1>2. Calls(calls', {"restoreVersion"})
  BY <1>1 DEF Calls
<1>3. Waited(calls', {"restoreVersion"}, {}, {}) = {}
  BY <1>1 DEF Waited
<1> QED
  BY <1>2, <1>3 DEF Lone

\* What the panel of the versions is to the calls.
PanelKept ==
  /\ "versions" \in DOMAIN ui'
          /\ {"open", "pending", "restoring"} \subseteq DOMAIN ui'.versions
  /\ ui'.versions.open = ui.versions.open /\ ui'.versions.restoring = ui.versions.restoring
  /\ ui'.versions.pending \in {ui.versions.pending, None}

LEMMA EditorSavesStep ==
  ASSUME EditorSaves, EditorClicks \/ EditorAnswers
  PROVE  EditorSaves'
<1> USE DEF EditorSaves, Lone, Waited, Calls, Made, GuardedOps, Done
<1>1. ASSUME NEW cs, calls' = cs, cs \subseteq calls, PanelKept PROVE EditorSaves'
  BY <1>1 DEF PanelKept
<1>2. ASSUME NEW op, NEW on, NEW arg, Send(op, on, arg), op \notin GuardedOps, PanelKept
      PROVE  EditorSaves'
  <2>1. PICK r : calls' = calls \cup {r} /\ Made(r, op, on, arg)
    BY <1>2, SendIs
  <2> QED
    BY <1>2, <2>1 DEF PanelKept
<1>3. ASSUME NEW layout, NEW after, NEW loose, Put(layout, after, loose), PanelKept
      PROVE  EditorSaves'
  BY <1>2, <1>3 DEF Put
<1>4. ASSUME ToggleEdit \/ OpenAdd \/ CloseAdd \/ ChooseAddMode \/ CancelDeleteWidget
             \/ CloseSettings \/ OpenVersionForm \/ CloseVersionModal
      PROVE  EditorSaves'
  <2>1. calls' = calls /\ PanelKept
    BY <1>4 DEF ToggleEdit, OpenAdd, CloseAdd, ChooseAddMode, CancelDeleteWidget,
                CloseSettings, OpenVersionForm, CloseVersionModal, Local, PanelKept
  <2> QED
    BY <1>1, <2>1
<1>5. ASSUME NEW i \in Items, AskDeleteWidget(i) \/ OpenSettings(i) PROVE EditorSaves'
  <2>1. calls' = calls /\ PanelKept
    BY <1>5 DEF AskDeleteWidget, OpenSettings, Local, PanelKept
  <2> QED
    BY <1>1, <2>1
<1>6. CASE AskAI
  BY <1>2, <1>6 DEF AskAI, PanelKept
<1>7. ASSUME NEW i \in Items, NEW size \in Sizes, AddWidget(i, size) PROVE EditorSaves'
  BY <1>3, <1>7 DEF AddWidget, PanelKept
<1>8. ASSUME NEW i \in Items, NEW j \in Items, SwapWidgets(i, j) PROVE EditorSaves'
  BY <1>3, <1>8 DEF SwapWidgets, PanelKept
<1>9. CASE DeleteWidget
  BY <1>3, <1>9 DEF DeleteWidget, PanelKept
<1>10. CASE SaveSettings
  <2>1. \E layout, loose : Put(layout, "settings", loose)
    BY <1>10 DEF SaveSettings
  <2>2. PanelKept
    BY <1>10 DEF SaveSettings, PanelKept
  <2> QED
    BY <1>3, <2>1, <2>2
<1>11. CASE ToggleVersions
  <2>1. CASE ui.versions.open
    <3>1. Unguarded(calls')
      BY <1>11, <2>1, WithoutPanelIs DEF ToggleVersions
    <3>2. /\ "versions" \in DOMAIN ui'
          /\ {"open", "pending", "restoring"} \subseteq DOMAIN ui'.versions
          /\ ui'.versions.pending = None
      BY <1>11, <2>1 DEF ToggleVersions, ClosedVersions
    <3> HIDE DEF Lone, Waited, Calls
    <3> QED
      BY <3>1, <3>2, EditorUnguarded
  <2>2. CASE ~ui.versions.open
    <3>1. Send("loadVersions", None, None)
      BY <1>11, <2>2 DEF ToggleVersions
    <3>2. PICK r : calls' = calls \cup {r} /\ Made(r, "loadVersions", None, None)
      BY <3>1, SendIs
    <3>3. PICK v : v = OpenVersions
      OBVIOUS
    <3>4. {"open", "pending", "restoring"} \subseteq DOMAIN v /\ v.pending = None
      BY <3>3 DEF OpenVersions, ClosedVersions
    <3>5. ui' = [ui EXCEPT !.versions = v]
      BY <1>11, <2>2, <3>3 DEF ToggleVersions
    <3> QED
      BY <2>2, <3>2, <3>4, <3>5
  <2> QED
    BY <2>1, <2>2
<1>12. CASE RetryVersions
  BY <1>2, <1>12 DEF RetryVersions, PanelKept
<1>13. CASE SaveVersion
  BY <1>2, <1>13 DEF SaveVersion, PanelKept
<1>14. ASSUME NEW layout, AskRestore(layout) PROVE EditorSaves'
  BY <1>14 DEF AskRestore, VersionsShown, Local
<1>15. CASE ConfirmRestore
  <2>1. PICK r, arg : calls' = calls \cup {r} /\ Made(r, "restoreVersion", None, arg)
    BY <1>15, SendIs DEF ConfirmRestore
  <2> QED
    BY <1>15, <2>1 DEF ConfirmRestore
<1>16. ASSUME NEW c \in calls, EditorLoaded(c) PROVE EditorSaves'
  <2>1. calls' = calls \ {c} /\ PanelKept
    BY <1>16 DEF EditorLoaded, PanelKept
  <2> QED
    BY <1>1, <2>1
<1>17. ASSUME NEW c \in calls, AIAnswered(c) PROVE EditorSaves'
  <2>1. CASE c.stage = "failed"
    <3>1. calls' = calls \ {c} /\ PanelKept
      BY <1>17, <2>1 DEF AIAnswered, PanelKept
    <3> QED
      BY <1>1, <3>1
  <2>2. CASE c.stage # "failed"
    <3>1. PICK arg : Then(c, "putWidgets", None, arg)
      BY <1>17, <2>2 DEF AIAnswered
    <3>2. PICK r : calls' = (calls \ {c}) \cup {r} /\ Made(r, "putWidgets", None, arg)
      BY <3>1, ThenIs
    <3>3. ui' = ui
      BY <1>17, <2>2 DEF AIAnswered
    <3> QED
      BY <3>2, <3>3
  <2> QED
    BY <2>1, <2>2
<1>18. ASSUME NEW c \in calls, WidgetsPut(c) PROVE EditorSaves'
  <2>1. PICK add, settings, asking :
          LET closed == [ui EXCEPT !.add = add, !.settings = settings, !.asking = asking]
          IN  ui' = IF c.stage = "ok" THEN [closed EXCEPT !.widgets = c.ans.widgets]
                    ELSE [closed EXCEPT !.error = TRUE, !.versions = ClosedVersions]
    BY <1>18, Zenon DEF WidgetsPut
  <2>2. CASE c.stage = "ok"
    <3>1. calls' = calls \ {c} /\ PanelKept
      BY <1>18, <2>1, <2>2 DEF WidgetsPut, PanelKept
    <3> QED
      BY <1>1, <3>1
  <2>3. CASE c.stage # "ok"
    <3>1. Calls(calls \ {c}, {"restoreVersion"})
      OBVIOUS
    <3>2. Unguarded(calls')
      BY <1>18, <2>3, <3>1, WithoutPanelIs DEF WidgetsPut
    <3>3. /\ "versions" \in DOMAIN ui'
          /\ {"open", "pending", "restoring"} \subseteq DOMAIN ui'.versions
          /\ ui'.versions.pending = None
      BY <2>1, <2>3 DEF ClosedVersions
    <3> HIDE DEF Lone, Waited, Calls
    <3> QED
      BY <3>2, <3>3, EditorUnguarded
  <2> QED
    BY <2>2, <2>3
<1>19. ASSUME NEW c \in calls, VersionsLoaded(c) \/ VersionSaved(c) \/ DropLate(c)
       PROVE  EditorSaves'
  <2>1. calls' = calls \ {c} /\ (VersionsLoaded(c) => PanelKept)
    BY <1>19 DEF VersionsLoaded, VersionSaved, DropLate, PanelKept
  <2>2. VersionSaved(c) => PanelKept
    BY <1>19 DEF VersionSaved, PanelKept
  <2>3. DropLate(c) => PanelKept
    BY <1>19 DEF DropLate, PanelKept
  <2> QED
    BY <1>1, <1>19, <2>1, <2>2, <2>3
<1>20. ASSUME NEW c \in calls, VersionRestored(c), c.op \in {"restoreVersion", "lateRestore"}
       PROVE  EditorSaves'
  <2>1. CASE c.stage = "ok"
    <3>1. PICK cs : cs = Abandoned(calls \ {c})
      OBVIOUS
    <3>2. Unguarded(cs)
      BY <3>1, AbandonedIs
    <3>3. PICK r : calls' = cs \cup {r} /\ Made(r, "loadDashboard", None, None)
      BY <1>20, <2>1, <3>1, SendAlsoIs DEF VersionRestored
    <3>4. Unguarded(calls')
      BY <3>2, <3>3 DEF Unguarded
    <3>5. /\ "versions" \in DOMAIN ui'
          /\ {"open", "pending", "restoring"} \subseteq DOMAIN ui'.versions
          /\ ui'.versions.pending = None
      BY <1>20, <2>1 DEF VersionRestored, EditorStart, ClosedVersions
    <3> HIDE DEF Lone, Waited, Calls
    <3> QED
      BY <3>4, <3>5, EditorUnguarded
  <2>2. CASE c.stage # "ok" /\ c.op = "restoreVersion"
    BY <1>20, <2>2 DEF VersionRestored
  <2>3. CASE c.stage # "ok" /\ c.op # "restoreVersion"
    <3>1. calls' = calls \ {c} /\ PanelKept
      BY <1>20, <2>3 DEF VersionRestored, PanelKept
    <3> QED
      BY <1>1, <3>1
  <2> QED
    BY <2>1, <2>2, <2>3
<1> HIDE DEF EditorSaves
<1> QED
  BY <1>4, <1>5, <1>6, <1>7, <1>8, <1>9, <1>10, <1>11, <1>12, <1>13, <1>14, <1>15,
     <1>16, <1>17, <1>18, <1>19, <1>20
     DEF EditorClicks, EditorAnswers, InFlight, Settled, Answered, Refused

-----------------------------------------------------------------------------
(* The other pages with a button that waits                                 *)

LEMMA BuilderSavesStep ==
  ASSUME BuilderSaves, BuilderClicks \/ BuilderAnswers
  PROVE  BuilderSaves'
<1> USE DEF BuilderSaves, Guards, Lone, Waited, Calls, Made, GuardedOps, Done
<1>1. ASSUME NEW t \in Items, ChooseFile(t) PROVE BuilderSaves'
  <2>1. PICK r, arg : calls' = calls \cup {r} /\ Made(r, "uploadRaw", t, arg)
    BY <1>1, SendIs DEF ChooseFile
  <2>2. ~ui.uploading /\ ui'.uploading /\ ui'.building = ui.building
        /\ {"uploading", "building"} \subseteq DOMAIN ui'
    BY <1>1 DEF ChooseFile, BuilderShown
  <2> QED
    BY <2>1, <2>2
<1>2. ASSUME calls' = calls, {"uploading", "building"} \subseteq DOMAIN ui',
             ui'.uploading = ui.uploading, ui'.building = ui.building
      PROVE  BuilderSaves'
  BY <1>2
<1>3. ASSUME NEW k, RemoveSource(k) \/ \E t \in Items \cup {None} : SetJoin(k, t)
      PROVE  BuilderSaves'
  <2>1. CASE RemoveSource(k)
    BY <2>1 DEF RemoveSource
  <2>2. ASSUME NEW t, SetJoin(k, t) PROVE BuilderSaves'
    BY <1>2, <2>2 DEF SetJoin, Local
  <2> QED
    BY <1>3, <2>1, <2>2
<1>4. ASSUME ResetBuilder \/ ApplyPack \/ ClearPack \/ SetBuildMode \/ AddEvent
      PROVE  BuilderSaves'
  BY <1>2, <1>4 DEF ResetBuilder, ApplyPack, ClearPack, SetBuildMode, AddEvent, Local
<1>5. ASSUME NEW t \in Items, ToggleObjectType(t) \/ SetCaseId(t) PROVE BuilderSaves'
  BY <1>2, <1>5 DEF ToggleObjectType, SetCaseId, Local
<1>6. ASSUME NEW old, RemoveEvent(old) \/ \E t \in Items : UpdateEvent(old, t)
      PROVE  BuilderSaves'
  BY <1>2, <1>6 DEF RemoveEvent, UpdateEvent, Local
<1>7. CASE SuggestMapping
  <2>1. PICK r, arg : calls' = calls \cup {r} /\ Made(r, "suggestMapping", None, arg)
    BY <1>7, SendIs DEF SuggestMapping
  <2> QED
    BY <1>7, <2>1 DEF SuggestMapping
<1>8. CASE BuildLog
  <2>1. PICK r, arg : calls' = calls \cup {r} /\ Made(r, "buildLog", None, arg)
    BY <1>8, SendIs DEF BuildLog
  <2> QED
    BY <1>8, <2>1 DEF BuildLog
<1>9. ASSUME NEW c \in calls, PacksLoaded(c) \/ MappingSuggested(c) PROVE BuilderSaves'
  <2>1. calls' = calls \ {c} /\ {"uploading", "building"} \subseteq DOMAIN ui'
        /\ ui'.uploading = ui.uploading /\ ui'.building = ui.building
    BY <1>9 DEF PacksLoaded, MappingSuggested
  <2> QED
    BY <2>1
<1>10. ASSUME NEW c \in calls, c.op = "uploadRaw", TableUploaded(c) PROVE BuilderSaves'
  <2>1. /\ {"uploading", "building"} \subseteq DOMAIN ui' /\ ui'.building = ui.building
    <3>1. CASE c.stage = "failed" /\ ui' = [ui EXCEPT !.uploading = FALSE]
      BY <3>1
    <3>2. CASE FirstUploaded(c)
      BY <3>2 DEF FirstUploaded
    <3>3. CASE NextUploaded(c)
      BY <3>3 DEF NextUploaded
    <3> QED
      BY <1>10, <3>1, <3>2, <3>3 DEF TableUploaded
  <2>2. calls' = calls \ {c} \/ \E arg : Then(c, "suggestMapping", None, arg)
    <3>1. CASE FirstUploaded(c)
      BY <3>1 DEF FirstUploaded
    <3>2. CASE NextUploaded(c)
      BY <3>2 DEF NextUploaded
    <3> QED
      BY <1>10, <3>1, <3>2 DEF TableUploaded
  <2>3. ASSUME NEW arg, Then(c, "suggestMapping", None, arg) PROVE BuilderSaves'
    <3>1. PICK r : calls' = (calls \ {c}) \cup {r} /\ Made(r, "suggestMapping", None, arg)
      BY <2>3, ThenIs
    <3> QED
      BY <1>10, <2>1, <3>1
  <2> QED
    BY <1>10, <2>1, <2>2, <2>3
<1>11. ASSUME NEW c \in calls, c.op = "buildLog", LogBuilt(c) PROVE BuilderSaves'
  BY <1>11 DEF LogBuilt
<1> HIDE DEF BuilderSaves
<1> QED
  BY <1>1, <1>3, <1>4, <1>5, <1>6, <1>7, <1>8, <1>9, <1>10, <1>11
     DEF BuilderClicks, BuilderAnswers, Settled, Answered, Refused

LEMMA FetchAnalysisKeeps ==
  ASSUME NEW u, "exporting" \in DOMAIN u, NEW view, NEW log, NEW others,
         FetchAnalysis(u, view, log, others)
  PROVE  /\ "exporting" \in DOMAIN ui' /\ ui'.exporting = u.exporting
         /\ \/ calls' = others
            \/ \E r : calls' = others \cup {r} /\ IsCall(r) /\ r.op = "getAnalysis"
<1>1. PICK owned : owned = Owned(u, log)
  OBVIOUS
<1>2. "exporting" \in DOMAIN owned /\ owned.exporting = u.exporting
  <2>1. PICK v : v = MiningDefaults(u)
    OBVIOUS
  <2>2. "exporting" \in DOMAIN v /\ v.exporting = u.exporting
    BY <2>1 DEF MiningDefaults
  <2>3. owned = IF u.owner = log THEN u ELSE [v EXCEPT !.owner = log]
    BY <1>1, <2>1 DEF Owned
  <2> QED
    BY <2>2, <2>3
<1>3. CASE owned.result[view] # None
  <2>1. ui' = owned /\ calls' = others
    BY <1>1, <1>3 DEF FetchAnalysis
  <2> QED
    BY <1>2, <2>1
<1>4. CASE ~(owned.result[view] # None)
  <2>1. ui' = [owned EXCEPT !.busy[view] = TRUE, !.error = FALSE]
    BY <1>1, <1>4 DEF FetchAnalysis
  <2>2. PICK r : r = Request("getAnalysis", view, log, others)
    OBVIOUS
  <2>3. calls' = others \cup {r}
    BY <1>1, <1>4, <2>2 DEF FetchAnalysis
  <2>4. IsCall(r) /\ r.op = "getAnalysis"
    BY <2>2, RequestIs
  <2> QED
    BY <1>2, <2>1, <2>3, <2>4
<1> QED
  BY <1>3, <1>4

LEMMA StoreSavesStep ==
  ASSUME StoreSaves, StoreClicks \/ StoreAnswers
  PROVE  StoreSaves'
<1> USE DEF StoreSaves, Guards, Lone, Waited, Calls, Made, GuardedOps, Done
<1>1. ASSUME NEW view \in MiningViews, NEW log \in Projects, OpenMiningPage(view, log)
      PROVE  StoreSaves'
  <2>1. PICK flag : flag = (ui.exporting /\ view = ui.view)
    OBVIOUS
  <2>2. PICK u : u = [ui EXCEPT !.view = view, !.log = log, !.exporting = flag]
    OBVIOUS
  <2>3. "exporting" \in DOMAIN u /\ u.exporting = flag
    BY <2>2
  <2>4. PICK others : others = IF view = ui.view THEN calls ELSE calls \ InFlight({"exportPdf"})
    OBVIOUS
  <2>5. FetchAnalysis(u, view, log, others)
    BY <1>1, <2>1, <2>2, <2>4, Zenon DEF OpenMiningPage
  <2>6. /\ "exporting" \in DOMAIN ui' /\ ui'.exporting = flag
        /\ \/ calls' = others
           \/ \E r : calls' = others \cup {r} /\ IsCall(r) /\ r.op = "getAnalysis"
    BY <2>3, <2>5, FetchAnalysisKeeps
  <2>7. CASE view = ui.view
    <3>1. ui.exporting => flag
      BY <2>1, <2>7, Zenon
    <3>2. others = calls
      BY <2>4, <2>7
    <3> QED
      BY <2>6, <3>1, <3>2
  <2>8. CASE view # ui.view
    <3>1. \A c \in others : c \in calls /\ c.op # "exportPdf"
      BY <2>4, <2>8 DEF InFlight
    <3> QED
      BY <2>6, <3>1
  <2> QED
    BY <2>7, <2>8
<1>2. CASE RetryAnalysis
  <2>1. PICK view, log : FetchAnalysis(ui, view, log, calls)
    BY <1>2 DEF RetryAnalysis
  <2>2. /\ "exporting" \in DOMAIN ui' /\ ui'.exporting = ui.exporting
        /\ \/ calls' = calls
           \/ \E r : calls' = calls \cup {r} /\ IsCall(r) /\ r.op = "getAnalysis"
    BY <2>1, FetchAnalysisKeeps
  <2> QED
    BY <2>2
<1>3. CASE ExportConformancePdf
  <2>1. PICK r, arg : calls' = calls \cup {r} /\ Made(r, "exportPdf", "pdf", arg)
    BY <1>3, SendIs DEF ExportConformancePdf
  <2> QED
    BY <1>3, <2>1 DEF ExportConformancePdf
<1>4. ASSUME NEW c \in calls, AnalysisFetched(c) PROVE StoreSaves'
  BY <1>4 DEF AnalysisFetched
<1>5. ASSUME NEW c \in calls, c.op = "exportPdf", PdfExported(c) PROVE StoreSaves'
  BY <1>5 DEF PdfExported
<1> HIDE DEF StoreSaves
<1> QED
  BY <1>1, <1>2, <1>3, <1>4, <1>5
     DEF StoreClicks, StoreAnswers, Settled, Answered, Refused

LEMMA UploadSavesStep ==
  ASSUME UploadSaves, UploadClicks \/ UploadAnswers
  PROVE  UploadSaves'
<1> USE DEF UploadSaves, Guards, Lone, Waited, Calls, Made, GuardedOps, Done
<1>1. CASE \E file \in File : DropFile(file)
  BY <1>1 DEF DropFile, Local
<1>2. CASE RejectFile
  BY <1>2 DEF RejectFile, Local
<1>3. CASE RemoveFile
  BY <1>3 DEF RemoveFile, Local
<1>4. CASE SendFile
  <2>1. PICK r, arg : calls' = calls \cup {r} /\ Made(r, "uploadLog", None, arg)
    BY <1>4, SendIs DEF SendFile
  <2> QED
    BY <1>4, <2>1 DEF SendFile
<1>5. CASE SubmitMapping
  <2>1. PICK r, on, arg : calls' = calls \cup {r} /\ Made(r, "setMapping", on, arg)
    BY <1>5, SendIs DEF SubmitMapping
  <2> QED
    BY <1>5, <2>1 DEF SubmitMapping, MapperShown
<1>6. CASE BackToUpload
  BY <1>6 DEF BackToUpload, MapperShown, NextStep, Local
<1>7. ASSUME NEW field, NEW n, ChooseColumn(field, n) PROVE UploadSaves'
  BY <1>7 DEF ChooseColumn, Local
<1>8. ASSUME NEW n, ToggleAdditionalColumn(n) PROVE UploadSaves'
  <2>1. PICK more : ui' = [ui EXCEPT !.additional = more]
    BY <1>8 DEF ToggleAdditionalColumn
  <2> QED
    BY <1>8, <2>1 DEF ToggleAdditionalColumn, Local
<1>9. ASSUME NEW place, LeaveUpload(place) PROVE UploadSaves'
  BY <1>9 DEF LeaveUpload, Local
<1>10. ASSUME NEW c \in calls, UploadProjectLoaded(c) PROVE UploadSaves'
  BY <1>10 DEF UploadProjectLoaded
<1>11. ASSUME NEW c \in calls, c.op = "uploadLog", LogUploaded(c) PROVE UploadSaves'
  <2>1. CASE c.stage = "failed"
    <3>1. ui' = [ui EXCEPT !.status = "error", !.rejected = TRUE] /\ calls' = calls \ {c}
      BY <1>11, <2>1 DEF LogUploaded
    <3> QED
      BY <1>11, <3>1
  <2>2. CASE c.stage # "failed" /\ c.ans.type = "ocel"
    <3>1. PICK u : u = [ui EXCEPT !.log = c.ans.log]
      OBVIOUS
    <3>2. ui' = NextStep(u, "done") /\ calls' = calls \ {c}
      BY <1>11, <2>2, <3>1 DEF LogUploaded
    <3> QED
      BY <1>11, <3>1, <3>2 DEF NextStep
  <2>3. CASE c.stage # "failed" /\ c.ans.type # "ocel"
    <3>1. PICK r, on, arg : calls' = (calls \ {c}) \cup {r} /\ Made(r, "previewLog", on, arg)
      BY <1>11, <2>3, ThenIs DEF LogUploaded
    <3>2. ui' = [ui EXCEPT !.log = c.ans.log]
      BY <1>11, <2>3 DEF LogUploaded
    <3> QED
      BY <1>11, <3>1, <3>2
  <2> QED
    BY <2>1, <2>2, <2>3
<1>12. ASSUME NEW c \in calls, c.op = "previewLog", LogPreviewed(c) PROVE UploadSaves'
  <2>1. PICK sample \in Samples :
          ui' = Mapped(NextStep(IF c.stage = "ok"
                                THEN [ui EXCEPT !.preview = [of |-> c.arg, sample |-> sample]]
                                ELSE ui, "mapping"))
    BY <1>12 DEF LogPreviewed
  <2>2. PICK shown : shown = IF c.stage = "ok"
                             THEN [ui EXCEPT !.preview = [of |-> c.arg, sample |-> sample]]
                             ELSE ui
    OBVIOUS
  <2>3. PICK u : u = NextStep(shown, "mapping")
    OBVIOUS
  <2>4. ui' = Mapped(u)
    BY <2>1, <2>2, <2>3
  <2>5. PICK picks : ui' = [u EXCEPT !.picks = picks, !.additional = {}]
    BY <2>4 DEF Mapped
  <2>6. {"saving", "step", "file", "status"} \subseteq DOMAIN shown /\ shown.saving = ui.saving
    BY <2>2
  <2>7. /\ {"saving", "step", "file", "status"} \subseteq DOMAIN ui' /\ ui'.saving = ui.saving
    BY <2>3, <2>5, <2>6 DEF NextStep
  <2>8. calls' = calls \ {c}
    BY <1>12 DEF LogPreviewed
  <2> QED
    BY <1>12, <2>7, <2>8
<1>13. ASSUME NEW c \in calls, c.op = "setMapping", MappingSaved(c) PROVE UploadSaves'
  <2>1. CASE c.stage = "ok"
    BY <1>13, <2>1 DEF MappingSaved
  <2>2. CASE c.stage # "ok"
    <3>1. PICK u : u = [ui EXCEPT !.saving = FALSE]
      OBVIOUS
    <3>2. ui' = Mapped(u) /\ calls' = calls \ {c}
      BY <1>13, <2>2, <3>1 DEF MappingSaved
    <3>3. PICK picks : ui' = [u EXCEPT !.picks = picks, !.additional = {}]
      BY <3>2 DEF Mapped
    <3>4. /\ {"saving", "step", "file", "status"} \subseteq DOMAIN ui' /\ ui'.step = ui.step
          /\ ui'.file = ui.file /\ ui'.status = ui.status
      BY <3>1, <3>3
    <3> QED
      BY <1>13, <3>2, <3>4
  <2> QED
    BY <2>1, <2>2
<1> HIDE DEF UploadSaves
<1> QED
  BY <1>1, <1>2, <1>3, <1>4, <1>5, <1>6, <1>7, <1>8, <1>9, <1>10, <1>11, <1>12, <1>13
     DEF UploadClicks, UploadAnswers, Settled, Answered, Refused

LEMMA ChatSavesStep ==
  ASSUME ChatSaves, ChatClicks \/ ChatAnswers
  PROVE  ChatSaves'
<1> USE DEF ChatSaves, Guards, Lone, Waited, Calls, Made, GuardedOps, Done
<1>1. ASSUME calls' \subseteq calls, "loading" \in DOMAIN ui', ui'.loading = ui.loading
      PROVE  ChatSaves'
  BY <1>1
<1>2. ASSUME NEW u, SuggestionsAsked(u), "loading" \in DOMAIN ui', ui'.loading = ui.loading
      PROVE  ChatSaves'
  <2>1. PICK others : others = calls \ InFlight({"chatSuggestions"})
    OBVIOUS
  <2>2. PICK r : r = Request("chatSuggestions", u.log, None, others)
    OBVIOUS
  <2>3. IsCall(r) /\ r.op = "chatSuggestions"
    BY <2>2, RequestIs
  <2>4. calls' = others \/ calls' = others \cup {r}
    BY <1>2, <2>1, <2>2 DEF SuggestionsAsked
  <2>5. others \subseteq calls
    BY <2>1
  <2> QED
    BY <1>2, <2>3, <2>4, <2>5
<1>3. ASSUME NEW prefill, OpenPanel(prefill) PROVE ChatSaves'
  <2>1. "loading" \in DOMAIN ui' /\ ui'.loading = ui.loading /\ \E u : SuggestionsAsked(u)
    BY <1>3 DEF OpenPanel
  <2> QED
    BY <1>2, <2>1
<1>4. ASSUME ClosePanel \/ \E log : GoToLog(log) PROVE ChatSaves'
  <2>1. "loading" \in DOMAIN ui' /\ ui'.loading = ui.loading /\ \E u : SuggestionsAsked(u)
    BY <1>4 DEF ClosePanel, GoToLog
  <2> QED
    BY <1>2, <2>1
<1>5. ASSUME TypeQuestion \/ ClearChat \/ CloseCopilot \/ OpenCopilot
             \/ \E mode : SetChatMode(mode)
      PROVE  ChatSaves'
  <2>1. calls' = calls /\ "loading" \in DOMAIN ui' /\ ui'.loading = ui.loading
    BY <1>5 DEF TypeQuestion, ClearChat, CloseCopilot, OpenCopilot, SetChatMode, Local
  <2> QED
    BY <1>1, <2>1
<1>6. ASSUME AskModel(ui), ~ui.loading PROVE ChatSaves'
  <2>1. PICK n, messages :
          ui' = [ui EXCEPT !.question = FALSE, !.prefill = FALSE, !.counter = n,
                           !.messages = messages, !.loading = TRUE]
    BY <1>6 DEF AskModel
  <2>2. PICK op, on, arg : op \in {"chatStream", "agentRun"} /\ Send(op, on, arg)
    BY <1>6 DEF AskModel
  <2>3. PICK r : calls' = calls \cup {r} /\ Made(r, op, on, arg)
    BY <2>2, SendIs
  <2>4. "loading" \in DOMAIN ui' /\ ui'.loading
    BY <2>1
  <2> QED
    BY <1>6, <2>2, <2>3, <2>4
<1>7. ASSUME AskQuestion \/ AskSuggestion \/ AskFromAddress PROVE ChatSaves'
  BY <1>6, <1>7 DEF AskQuestion, AskSuggestion, AskFromAddress, Asking
<1>8. CASE SendCopilot
  <2>1. PICK n, messages :
          ui' = [ui EXCEPT !.question = FALSE, !.counter = n, !.loading = TRUE,
                           !.messages = messages]
    BY <1>8 DEF SendCopilot
  <2>2. PICK on : Send("extractLog", on, None)
    BY <1>8 DEF SendCopilot
  <2>3. PICK r : calls' = calls \cup {r} /\ Made(r, "extractLog", on, None)
    BY <2>2, SendIs
  <2>4. "loading" \in DOMAIN ui' /\ ui'.loading /\ ~ui.loading
    BY <1>8, <2>1 DEF SendCopilot, Asking
  <2> QED
    BY <2>3, <2>4
<1>9. ASSUME NEW c \in calls, Suggested(c) PROVE ChatSaves'
  <2>1. calls' = calls \ {c} /\ "loading" \in DOMAIN ui' /\ ui'.loading = ui.loading
    BY <1>9 DEF Suggested
  <2> QED
    BY <1>1, <2>1
<1>10. ASSUME NEW c \in calls, ChunkRead(c) \/ ToolStartRead(c) \/ ToolResultRead(c)
       PROVE  ChatSaves'
  <2>1. PICK messages : ui' = [ui EXCEPT !.messages = messages]
    BY <1>10 DEF ChunkRead, ToolStartRead, ToolResultRead, StreamLine, WithAnswer
  <2>2. calls' = calls
    BY <1>10 DEF ChunkRead, ToolStartRead, ToolResultRead, StreamLine
  <2> QED
    BY <1>1, <2>1, <2>2
<1>11. ASSUME NEW c \in calls, c.op \in {"chatStream", "agentRun", "extractLog"},
              calls' = calls \ {c}, "loading" \in DOMAIN ui'
       PROVE  ChatSaves'
  BY <1>11
<1>12. ASSUME NEW u, NEW n, NEW text, "loading" \in DOMAIN u
       PROVE  "loading" \in DOMAIN Closed(u, n, text)
  <2>1. PICK messages :
          Closed(u, n, text) = [[u EXCEPT !.messages = messages] EXCEPT !.loading = FALSE]
    BY DEF Closed, WithAnswer
  <2> QED
    BY <1>12, <2>1
<1>13. ASSUME NEW c \in calls, c.op = "chatStream", StreamRead(c) \/ StreamRefused(c)
       PROVE  ChatSaves'
  <2>1. calls' = calls \ {c} /\ \E text : ui' = Closed(ui, c.on, text)
    BY <1>13 DEF StreamRead, StreamRefused
  <2> QED
    BY <1>11, <1>12, <1>13, <2>1
<1>14. ASSUME NEW c \in calls, c.op = "chatStream", StreamBroken(c) PROVE ChatSaves'
  <2>1. calls' = calls \ {c} /\ \E text : ui' = Closed(ui, c.on, text)
    BY <1>14 DEF StreamBroken
  <2> QED
    BY <1>11, <1>12, <1>14, <2>1
<1>15. ASSUME NEW c \in calls, c.op = "agentRun", AgentRan(c) PROVE ChatSaves'
  <2>1. calls' = calls \ {c}
    BY <1>15 DEF AgentRan
  <2>2. CASE c.stage = "failed"
    <3>1. ui' = Closed(ui, c.on, "error")
      BY <1>15, <2>2 DEF AgentRan
    <3> QED
      BY <1>11, <1>12, <1>15, <2>1, <3>1
  <2>3. CASE c.stage # "failed"
    <3>1. PICK u : u = Closed(ui, c.on, "all")
      OBVIOUS
    <3>2. PICK messages : ui' = [u EXCEPT !.messages = messages]
      BY <1>15, <2>3, <3>1 DEF AgentRan, WithAnswer
    <3>3. "loading" \in DOMAIN u
      BY <1>12, <3>1
    <3>4. "loading" \in DOMAIN ui'
      BY <3>2, <3>3
    <3> QED
      BY <1>11, <1>15, <2>1, <3>4
  <2> QED
    BY <2>2, <2>3
<1>16. ASSUME NEW c \in calls, c.op = "extractLog", CopilotAnswered(c) PROVE ChatSaves'
  <2>1. calls' = calls \ {c} /\ "loading" \in DOMAIN ui'
    BY <1>16 DEF CopilotAnswered
  <2> QED
    BY <1>11, <1>16, <2>1
<1> HIDE DEF ChatSaves
<1> QED
  BY <1>3, <1>4, <1>5, <1>7, <1>8, <1>9, <1>10, <1>13, <1>14, <1>15, <1>16
     DEF ChatClicks, ChatAnswers, Settled, Answered, Refused

LEMMA ThroughIs ==
  ASSUME NEW u, "converting" \in DOMAIN u, NEW handler
  PROVE  LET v == Through(u, handler)
         IN  /\ "converting" \in DOMAIN v
             /\ handler # "convert" => (u.converting => v.converting)
<1>1. PICK up, on : /\ up = (u.uploading /\ handler # "upload")
                    /\ on = (u.converting /\ handler # "convert")
  OBVIOUS
<1>2. PICK v : v = [u EXCEPT !.uploading = up, !.converting = on]
  OBVIOUS
<1>3. v = Through(u, handler)
  BY <1>1, <1>2, Zenon DEF Through
<1>4. "converting" \in DOMAIN v /\ v.converting = on
  BY <1>2
<1>5. handler # "convert" => (u.converting => on)
  BY <1>1, Zenon
<1> QED
  BY <1>3, <1>4, <1>5, Zenon

LEMMA OcpmSavesStep ==
  ASSUME OcpmSaves, OcpmClicks \/ OcpmAnswers
  PROVE  OcpmSaves'
<1> USE DEF OcpmSaves, Guards, Lone, Waited, Calls, Made, GuardedOps, Done
<1>1. ASSUME calls' = calls, "converting" \in DOMAIN ui', ui'.converting = ui.converting
      PROVE  OcpmSaves'
  BY <1>1
<1>2. ASSUME NEW route, VisitOcpm(route) PROVE OcpmSaves'
  <2>1. PICK u : u = [ui EXCEPT !.route = route]
    OBVIOUS
  <2>2. AutoLoad(u, calls)
    BY <1>2, <2>1 DEF VisitOcpm
  <2>3. CASE u.route = None \/ u.summary # None
    <3>1. ui' = u /\ calls' = calls
      BY <2>2, <2>3 DEF AutoLoad
    <3> QED
      BY <1>1, <2>1, <3>1
  <2>4. CASE ~(u.route = None \/ u.summary # None)
    <3>1. ui' = [u EXCEPT !.discovering = TRUE] /\ SendAlso("getSummary", u.route, "route", calls)
      BY <2>2, <2>4 DEF AutoLoad
    <3>2. PICK r, on : calls' = calls \cup {r} /\ Made(r, "getSummary", on, "route")
      BY <3>1, SendAlsoIs
    <3> QED
      BY <2>1, <3>1, <3>2
  <2> QED
    BY <2>3, <2>4
<1>3. ASSUME PickColumns \/ ResetOcel \/ \E x : PickLog(x) \/ SetPageTab(x) PROVE OcpmSaves'
  <2>1. calls' = calls /\ "converting" \in DOMAIN ui' /\ ui'.converting = ui.converting
    BY <1>3 DEF PickColumns, ResetOcel, PickLog, SetPageTab, Local
  <2> QED
    BY <1>1, <2>1
<1>4. CASE UploadOcel
  BY <1>4, SendIs DEF UploadOcel
<1>5. CASE Convert
  <2>1. PICK r, on : calls' = calls \cup {r} /\ Made(r, "convertLog", on, "convert")
    BY <1>5, SendIs DEF Convert
  <2> QED
    BY <1>5, <2>1 DEF Convert
<1>6. CASE Flatten
  <2>1. PICK r, on : calls' = calls \cup {r} /\ Made(r, "flatten", on, "flatten")
    BY <1>6, SendIs DEF Flatten
  <2> QED
    BY <1>6, <2>1 DEF Flatten
<1>7. ASSUME NEW c \in calls, OcpmLogsLoaded(c) \/ Flattened(c) PROVE OcpmSaves'
  <2>1. calls' = calls \ {c} /\ "converting" \in DOMAIN ui' /\ ui'.converting = ui.converting
    BY <1>7 DEF OcpmLogsLoaded, Flattened
  <2> QED
    BY <2>1
<1>8. ASSUME NEW c \in calls, calls' = calls \ {c}, "converting" \in DOMAIN ui',
             c.op \in {"uploadOcel", "convertLog", "getSummary", "discoverOcel"},
             c.arg # "convert" => (ui.converting => ui'.converting)
      PROVE  OcpmSaves'
  <2>1. CASE c.arg # "convert"
    BY <1>8, <2>1
  <2>2. CASE c.arg = "convert"
    <3>1. \A d \in Waited(calls, {"convertLog"}, {"getSummary", "discoverOcel"}, {"convert"}) : d = c
      BY <1>8, <2>2
    <3>2. Waited(calls', {"convertLog"}, {"getSummary", "discoverOcel"}, {"convert"}) = {}
      BY <1>8, <3>1
    <3> QED
      BY <1>8, <3>2
  <2> QED
    BY <2>1, <2>2
<1>9. ASSUME NEW c \in calls, NEW r, calls' = (calls \ {c}) \cup {r},
             c.op \in {"uploadOcel", "convertLog", "getSummary", "discoverOcel"},
             NEW op \in {"getSummary", "discoverOcel"}, NEW on, Made(r, op, on, c.arg),
             "converting" \in DOMAIN ui', ui'.converting = ui.converting
      PROVE  OcpmSaves'
  BY <1>9
<1>10. ASSUME NEW c \in calls, OcelStored(c), c.op \in {"uploadOcel", "convertLog"}
       PROVE  OcpmSaves'
  <2>1. CASE c.stage = "ok"
    <3>1. PICK r, on : calls' = (calls \ {c}) \cup {r} /\ Made(r, "getSummary", on, c.arg)
      BY <1>10, <2>1, ThenIs DEF OcelStored
    <3>2. ui' = ui
      BY <1>10, <2>1 DEF OcelStored
    <3> HIDE DEF Made, Lone, Waited, Calls
    <3> QED
      BY <1>9, <1>10, <3>1, <3>2
  <2>2. CASE c.stage # "ok"
    <3>1. ui' = Through(ui, c.arg) /\ calls' = calls \ {c}
      BY <1>10, <2>2 DEF OcelStored
    <3>2. "converting" \in DOMAIN ui' /\ (c.arg # "convert" => (ui.converting => ui'.converting))
      BY <3>1, ThroughIs
    <3> QED
      BY <1>8, <1>10, <3>1, <3>2
  <2> QED
    BY <2>1, <2>2
<1>11. ASSUME NEW c \in calls, OcelSummaryLoaded(c), c.op = "getSummary" PROVE OcpmSaves'
  <2>1. CASE c.stage = "ok"
    <3>1. PICK r, on : calls' = (calls \ {c}) \cup {r} /\ Made(r, "discoverOcel", on, c.arg)
      BY <1>11, <2>1, ThenIs DEF OcelSummaryLoaded
    <3>2. "converting" \in DOMAIN ui' /\ ui'.converting = ui.converting
      BY <1>11, <2>1 DEF OcelSummaryLoaded
    <3> HIDE DEF Made, Lone, Waited, Calls
    <3> QED
      BY <1>9, <1>11, <3>1, <3>2
  <2>2. CASE c.stage # "ok"
    <3>1. PICK v : v = Through(ui, c.arg)
      OBVIOUS
    <3>2. "converting" \in DOMAIN v /\ (c.arg # "convert" => (ui.converting => v.converting))
      BY <3>1, ThroughIs
    <3>3. calls' = calls \ {c} /\ \E on : ui' = [v EXCEPT !.discovering = on]
      BY <1>11, <2>2, <3>1 DEF OcelSummaryLoaded
    <3>4. "converting" \in DOMAIN ui' /\ ui'.converting = v.converting
      BY <3>2, <3>3
    <3> QED
      BY <1>8, <1>11, <3>2, <3>3, <3>4
  <2> QED
    BY <2>1, <2>2
<1>12. ASSUME NEW c \in calls, OcelDiscovered(c), c.op = "discoverOcel" PROVE OcpmSaves'
  <2>1. PICK v : v = Through(ui, c.arg)
    OBVIOUS
  <2>2. "converting" \in DOMAIN v /\ (c.arg # "convert" => (ui.converting => v.converting))
    BY <2>1, ThroughIs
  <2>3. calls' = calls \ {c} /\ \E dfg : ui' = [v EXCEPT !.dfg = dfg, !.discovering = FALSE]
    BY <1>12, <2>1 DEF OcelDiscovered
  <2>4. "converting" \in DOMAIN ui' /\ ui'.converting = v.converting
    BY <2>2, <2>3
  <2> QED
    BY <1>8, <1>12, <2>2, <2>3, <2>4
<1> HIDE DEF OcpmSaves
<1> QED
  BY <1>2, <1>3, <1>4, <1>5, <1>6, <1>7, <1>10, <1>11, <1>12
     DEF OcpmClicks, OcpmAnswers, Settled, Answered, Refused

-----------------------------------------------------------------------------
(* The pages that have nothing of the kind                                  *)

LEMMA RequestUnguarded ==
  ASSUME NEW cs, Unguarded(cs), NEW op, op \notin GuardedOps, NEW on, NEW arg, NEW others
  PROVE  Unguarded(cs \cup {Request(op, on, arg, others)})
BY RequestIs DEF Unguarded

LEMMA SendAlsoUnguarded ==
  ASSUME NEW others, Unguarded(others), NEW op, op \notin GuardedOps, NEW on, NEW arg,
         SendAlso(op, on, arg, others)
  PROVE  Unguarded(calls')
BY RequestUnguarded DEF SendAlso

\* What handlers do with their calls, where none is guarded.
LEMMA HandlersUnguarded ==
  ASSUME Unguarded(calls)
  PROVE  /\ UNCHANGED calls \/ Local => Unguarded(calls')
         /\ \A c : Done(c) => Unguarded(calls')
         /\ \A op, on, arg : Send(op, on, arg) /\ op \notin GuardedOps => Unguarded(calls')
         /\ \A c, op, on, arg : Then(c, op, on, arg) /\ op \notin GuardedOps => Unguarded(calls')
<1>1. \A cs : cs \subseteq calls => Unguarded(cs)
  BY DEF Unguarded
<1> QED
  BY <1>1, SendAlsoUnguarded DEF Local, Done, Send, Then

\* The component that waits for them is gone.
LEMMA MutedUnguarded ==
  ASSUME NEW cs, Unguarded(cs)
  PROVE  Unguarded({[c EXCEPT !.arg.live = FALSE] : c \in cs})
<1>1. ASSUME NEW c \in cs PROVE LET d == [c EXCEPT !.arg.live = FALSE]
                                IN  IsCall(d) /\ d.op = c.op
  BY <1>1 DEF Unguarded, IsCall, Shaped
<1> QED
  BY <1>1 DEF Unguarded

LEMMA AlertsUnguarded ==
  ASSUME Unguarded(calls), AlertsClicks \/ AlertsAnswers
  PROVE  Unguarded(calls')
BY HandlersUnguarded
   DEF AlertsClicks, OpenAlertForm, CloseAlertForm, SaveAlert, TestAlert, DeleteAlert,
       AlertsAnswers, AlertsLoaded, AlertSaved, AlertTested, AlertDeleted, GuardedOps

LEMMA InboxUnguarded ==
  ASSUME Unguarded(calls), InboxClicks \/ InboxAnswers
  PROVE  Unguarded(calls')
BY HandlersUnguarded
   DEF InboxClicks, SelectTask, CloseTask, OpenTaskForm, CloseTaskForm, CreateTask, ActOnTask,
       InboxAnswers, InboxLoaded, TaskUpdated, TaskDeleted, TaskCreated, SummaryLoaded,
       GuardedOps

LEMMA JourneysUnguarded ==
  ASSUME Unguarded(calls), JourneysClicks \/ JourneysAnswers
  PROVE  Unguarded(calls')
BY HandlersUnguarded
   DEF JourneysClicks, LoadJourneys, OpenJourneyForm, CloseJourneyForm, SaveJourney, AddStage,
       PersistStages, SelectJourney, DeleteJourney, EditStage, DeleteStage,
       JourneysAnswers, JourneysLoaded, JourneySaved, JourneyDeleted, StagesSaved,
       GuardedOps

LEMMA ConnectorsUnguarded ==
  ASSUME Unguarded(calls), ConnectorsClicks \/ ConnectorsAnswers
  PROVE  Unguarded(calls')
BY HandlersUnguarded
   DEF ConnectorsClicks, OpenConnectorForm, CloseConnectorForm, SaveConnector,
       StepConnectorForm, DeleteConnector, CheckConnector, ConnectorsAnswers,
       ConnectorsLoaded, ConnectorSaved, ConnectorChecked, ConnectorDeleted, GuardedOps

LEMMA FormUnguarded ==
  ASSUME Unguarded(calls), \/ ConnectorFormClicks
                           \/ \E c : RegistryLoaded(c) \/ FormSaved(c)
  PROVE  Unguarded(calls')
BY HandlersUnguarded
   DEF ConnectorFormClicks, PickSource, Typing, GoToConnect, TypePort, FillPanel, GoToFinish,
       StepBack, CancelForm, NameColumns, SaveForm, NameConnector, FillSetting, SetSapMode,
       RegistryLoaded, FormSaved, GuardedOps

LEMMA GovernanceUnguarded ==
  ASSUME Unguarded(calls), GovernanceClicks \/ GovernanceAnswers
  PROVE  Unguarded(calls')
BY HandlersUnguarded
   DEF GovernanceClicks, NameCapability, CloseNaming, SubmitName, CloseLinking, AddEntry,
       DeleteCapability, OpenLinking, Promote, ShowHistory, UpdateField, UnlinkLog, LinkLog,
       GovernanceAnswers, CapabilitiesLoaded, CapabilityChanged, EntriesLoaded,
       FieldUpdated, EntryChanged, HistoryShown, GuardedOps

LEMMA AccountUnguarded ==
  ASSUME Unguarded(calls), AccountClicks \/ AccountAnswers
  PROVE  Unguarded(calls')
<1>1. ASSUME NEW tab \in Tabs, OpenTab(tab) PROVE Unguarded(calls')
  <2>1. PICK left :
          Unguarded(left) /\ (calls' = left \/ \E arg : SendAlso("getConfig", None, arg, left))
    BY <1>1, MutedUnguarded DEF OpenTab
  <2> QED
    BY <2>1, SendAlsoUnguarded DEF GuardedOps
<1>2. ASSUME \/ EditDraft \/ TypeSecret \/ SaveProfile \/ ChangePassword \/ SaveConfig
             \/ ClearApiKey \/ NameKey \/ CreateKey \/ \E i : RevokeKey(i)
             \/ \E op \in {"changeRole", "changeStatus", "deleteUser"} : \E i : ActOnUser(op, i)
      PROVE  Unguarded(calls')
  BY <1>2, HandlersUnguarded
     DEF EditDraft, TypeSecret, SaveProfile, ChangePassword, SaveConfig, ClearApiKey, NameKey,
         CreateKey, RevokeKey, ActOnUser, GuardedOps
<1>3. CASE AccountAnswers
  BY <1>3, HandlersUnguarded
     DEF AccountAnswers, ConfigLoaded, ProfileSaved, PasswordChanged, ConfigSaved, UsersLoaded,
         UserActed, KeysLoaded, KeyCreated, KeyRevoked, GuardedOps
<1> QED
  BY <1>1, <1>2, <1>3 DEF AccountClicks

LEMMA ProjectUnguarded ==
  ASSUME Unguarded(calls), ProjectClicks \/ ProjectAnswers
  PROVE  Unguarded(calls')
<1>1. ASSUME NEW p, OpenProject(p) PROVE Unguarded(calls')
  <2>1. PICK g : g = Request("getProject", p, None, calls)
    OBVIOUS
  <2>2. Unguarded(calls \cup {g})
    BY <2>1, RequestUnguarded DEF GuardedOps
  <2>3. calls' = calls \cup {g} \cup {Request("listLogs", p, [map |-> 0], calls \cup {g})}
    BY <1>1, <2>1 DEF OpenProject
  <2> QED
    BY <2>2, <2>3, RequestUnguarded DEF GuardedOps
<1>2. ASSUME Poll \/ LeaveProject \/ \E i : DeleteLog(i) \/ Finish(i) PROVE Unguarded(calls')
  BY <1>2, HandlersUnguarded DEF Poll, LeaveProject, DeleteLog, Finish, GuardedOps
<1>3. CASE ProjectAnswers
  BY <1>3, HandlersUnguarded DEF ProjectAnswers, ProjectKnown, LogsKnown, LogDeleted
<1> QED
  BY <1>1, <1>2, <1>3 DEF ProjectClicks

LEMMA BenchmarkUnguarded ==
  ASSUME Unguarded(calls), BenchmarkClicks \/ BenchmarkAnswers
  PROVE  Unguarded(calls')
<1>1. \A cs : cs \subseteq calls => Unguarded(cs)
  BY DEF Unguarded
<1>2. ASSUME NEW new, NEW others, others \subseteq calls,
             Compare(new, others) \/ Reselected(new, others)
      PROVE  Unguarded(calls')
  BY <1>1, <1>2, SendAlsoUnguarded DEF Compare, Reselected, GuardedOps
<1>3. CASE BenchmarkClicks
  BY <1>2, <1>3, HandlersUnguarded
     DEF BenchmarkClicks, OpenBenchmark, ToggleLog, ToggleSlice, RetryBenchmark, GuardedOps
<1>4. CASE BenchmarkAnswers
  BY <1>2, <1>4, HandlersUnguarded
     DEF BenchmarkAnswers, BenchmarkLogsLoaded, SliceFlattened, Benchmarked
<1> QED
  BY <1>3, <1>4

LEMMA ProcessUnguarded ==
  ASSUME Unguarded(calls), ProcessClicks \/ ProcessAnswers
  PROVE  Unguarded(calls')
<1>1. ASSUME NEW u, NEW key, NEW others, Unguarded(others), FetchDiscovery(u, key, others)
      PROVE  Unguarded(calls')
  BY <1>1, SendAlsoUnguarded DEF FetchDiscovery, GuardedOps
<1>2. ASSUME NEW cs, Unguarded(cs), NEW key PROVE Unguarded(cs \cup Asked(key))
  BY <1>2, RequestUnguarded DEF Asked, GuardedOps
<1>3. ASSUME NEW u, Rescoped(u) PROVE Unguarded(calls')
  BY <1>1, <1>3 DEF Rescoped
<1>4. ASSUME NEW log, OpenLog(log) PROVE Unguarded(calls')
  <2>1. PICK u, v, key : LET asked == IF key = ScopeOf(v) THEN {} ELSE Asked(key)
                             named == IF log \in db.logs THEN {}
                                      ELSE {Request("loadEventLog", "log", log, calls)}
                         IN  FetchDiscovery(v, ScopeOf(v), calls \cup asked \cup named)
    BY <1>4, Zenon DEF OpenLog
  <2>2. PICK asked : /\ asked = {} \/ asked = Asked(key)
                     /\ FetchDiscovery(v, ScopeOf(v), calls \cup asked \cup
                          IF log \in db.logs THEN {}
                          ELSE {Request("loadEventLog", "log", log, calls)})
    BY <2>1
  <2>3. Unguarded(calls \cup asked)
    BY <1>2, <2>2
  <2>4. Unguarded(calls \cup asked \cup {Request("loadEventLog", "log", log, calls)})
    BY <2>3, RequestUnguarded DEF GuardedOps
  <2> QED
    BY <1>1, <2>2, <2>3, <2>4
<1>5. ASSUME NEW a, ChooseAlgorithm(a) PROVE Unguarded(calls')
  <2>1. PICK key, v : FetchDiscovery(v, ScopeOf(v), calls \cup Asked(key))
    BY <1>5, Zenon DEF ChooseAlgorithm
  <2> QED
    BY <1>1, <1>2, <2>1
<1>6. ASSUME RetryDiscovery \/ SetNoise \/ ClearChips PROVE Unguarded(calls')
  BY <1>1, <1>3, <1>6 DEF RetryDiscovery, SetNoise, ClearChips
<1>7. ASSUME NEW f, FilterWith(f) \/ FilterWithout(f) \/ AddChip(f) PROVE Unguarded(calls')
  BY <1>3, <1>7 DEF FilterWith, FilterWithout, AddChip
<1>8. ASSUME NEW chip, ToggleChip(chip) \/ RemoveChip(chip) PROVE Unguarded(calls')
  BY <1>3, <1>8 DEF ToggleChip, RemoveChip
<1>9. ASSUME ChooseEngine \/ \E t : ChooseTab(t) PROVE Unguarded(calls')
  BY <1>9, HandlersUnguarded DEF ChooseEngine, ChooseTab
<1>10. CASE ProcessAnswers
  BY <1>10, HandlersUnguarded DEF ProcessAnswers, EventLogLoaded, MapDiscovered
<1> QED
  BY <1>4, <1>5, <1>6, <1>7, <1>8, <1>9, <1>10 DEF ProcessClicks

LEMMA ViewsUnguarded ==
  ASSUME Unguarded(calls), ViewsClicks \/ ViewsAnswers
  PROVE  Unguarded(calls')
<1>1. ASSUME NEW u, NEW others, Unguarded(others), Load(u, others) PROVE Unguarded(calls')
  <2>1. CASE Cached(u)
    BY <1>1, <2>1 DEF Load
  <2>2. CASE ~Cached(u)
    <3>1. \E asking : calls' = others \cup {Request("analyse", u.view, asking, others)}
      BY <1>1, <2>2 DEF Load
    <3> QED
      BY <1>1, <3>1, RequestUnguarded DEF GuardedOps
  <2> QED
    BY <2>1, <2>2
<1>2. Unguarded(Dropped(calls))
  <2>1. PICK kept :
          kept \subseteq calls /\ Dropped(calls) = {[c EXCEPT !.arg.live = FALSE] : c \in kept}
    BY DEF Dropped
  <2>2. Unguarded(kept)
    BY <2>1 DEF Unguarded
  <2> QED
    BY <2>1, <2>2, MutedUnguarded
<1>3. Unguarded(Dropped(Dropped(calls)))
  <2>1. PICK kept : /\ kept \subseteq Dropped(calls)
                    /\ Dropped(Dropped(calls)) = {[c EXCEPT !.arg.live = FALSE] : c \in kept}
    BY DEF Dropped
  <2>2. Unguarded(kept)
    BY <1>2, <2>1 DEF Unguarded
  <2> QED
    BY <2>1, <2>2, MutedUnguarded
<1>4. ASSUME NEW u, Effect(u) PROVE Unguarded(calls')
  BY <1>1, <1>2, <1>4 DEF Effect
<1>5. ASSUME NEW log, OpenOtherLog(log) PROVE Unguarded(calls')
  <2>1. PICK u, others : /\ others = calls \/ others = Dropped(calls)
                         /\ \/ calls' = others
                            \/ Load(u, others) \/ Load(u, Dropped(others))
    BY <1>5 DEF OpenOtherLog
  <2> QED
    BY <1>1, <1>2, <1>3, <2>1
<1>6. ASSUME ChangeSetting \/ Ask \/ Retry PROVE Unguarded(calls')
  <2>1. \/ calls' = calls
        \/ \E u : Load(u, calls) \/ Effect(u)
    BY <1>6 DEF ChangeSetting, Ask, Retry
  <2> QED
    BY <1>1, <1>4, <2>1
<1>7. CASE ReloadPage
  <2>1. \E asking : calls' = {} \cup {Request("analyse", ui.view, asking, {})}
    BY <1>7 DEF ReloadPage
  <2>2. Unguarded({})
    BY DEF Unguarded
  <2> QED
    BY <2>1, <2>2, RequestUnguarded DEF GuardedOps
<1>8. ASSUME NEW c \in calls, LosePart(c) PROVE Unguarded(calls')
  <2>1. IsCall(c) /\ c.op \notin GuardedOps
    BY DEF Unguarded
  <2>2. PICK d : d = [c EXCEPT !.stage = "part"]
    OBVIOUS
  <2>3. SameCall(d, c, "part")
    BY <2>1, <2>2, RefusedIs
  <2>4. calls' = (calls \ {c}) \cup {d}
    BY <1>8, <2>2 DEF LosePart
  <2> QED
    BY <2>1, <2>3, <2>4 DEF Unguarded, SameCall
<1>9. ASSUME NEW c, Analysed(c) \/ AnalysisFailed(c) PROVE Unguarded(calls')
  BY <1>9, HandlersUnguarded DEF Analysed, AnalysisFailed
<1> QED
  BY <1>5, <1>6, <1>7, <1>8, <1>9 DEF ViewsClicks, ViewsAnswers

LEMMA CancelledUnguarded ==
  ASSUME NEW cs, Unguarded(cs)
  PROVE  Unguarded(Cancelled(cs))
<1>1. ASSUME NEW c \in cs PROVE LET d == [c EXCEPT !.arg = [live |-> FALSE]]
                                IN  IsCall(d) /\ d.op = c.op
  BY <1>1 DEF Unguarded, IsCall, Shaped
<1> QED
  BY <1>1 DEF Unguarded, Cancelled

LEMMA ShellUnguarded ==
  ASSUME Unguarded(calls), ShellClicks \/ ShellAnswers
  PROVE  Unguarded(calls')
<1>1. ASSUME NEW cs, Unguarded(cs), NEW op \in {"pickProjects", "switchProject", "resolveLog"},
             NEW on
      PROVE  Unguarded(LookUp(cs, op, on))
  BY <1>1, RequestUnguarded DEF LookUp, GuardedOps
<1>2. ASSUME NEW u, NEW r, NEW others, Unguarded(others), Visit(u, r, others)
      PROVE  Unguarded(calls')
  <2>1. PICK list : /\ list = LookUp(Cancelled(others), "pickProjects", None)
                       \/ list = Cancelled(others)
                    /\ \/ \E on : calls' = LookUp(list, "switchProject", on)
                       \/ \E on : calls' = LookUp(list, "resolveLog", on)
                       \/ calls' = list
    BY <1>2, Zenon DEF Visit
  <2>2. Unguarded(list)
    BY <1>1, <1>2, <2>1, CancelledUnguarded
  <2> QED
    BY <1>1, <2>1, <2>2
<1>3. ASSUME NEW r, Navigate(r) PROVE Unguarded(calls')
  BY <1>2, <1>3 DEF Navigate
<1>4. ASSUME NEW r, NEW narrow, SwitcherLink(r, narrow) PROVE Unguarded(calls')
  <2>1. (\E u : Visit(u, r, calls)) \/ UNCHANGED calls
    BY <1>4 DEF SwitcherLink
  <2> QED
    BY <1>2, <2>1, HandlersUnguarded
<1>5. ASSUME ToggleSidebar \/ OpenSidebar \/ ClickSwitcher PROVE Unguarded(calls')
  BY <1>5, HandlersUnguarded DEF ToggleSidebar, OpenSidebar, ClickSwitcher
<1>6. ASSUME NEW c, LogResolved(c) \/ ProjectSwitched(c) PROVE Unguarded(calls')
  BY <1>6, HandlersUnguarded DEF LogResolved, ProjectSwitched, GuardedOps
<1>7. ASSUME NEW c, ProjectsPicked(c) PROVE Unguarded(calls')
  <2>1. Unguarded(calls \ {c})
    BY DEF Unguarded
  <2> QED
    BY <1>2, <1>7, <2>1, HandlersUnguarded DEF ProjectsPicked
<1> QED
  BY <1>3, <1>4, <1>5, <1>6, <1>7 DEF ShellClicks, ShellAnswers

LEMMA HeaderUnguarded ==
  ASSUME Unguarded(calls), \/ HeaderClicks \/ SendSearch \/ StartTour
                           \/ \E c : SearchAnswered(c)
  PROVE  Unguarded(calls')
<1>1. CASE HeaderClicks
  <2>1. Local \/ calls' = {}
    BY <1>1
       DEF HeaderClicks, FollowAddress, ChooseHit, TypeSearch, SearchArrow, StepTour,
           TypeInPalette, MoveInPalette, MenuArrow, FocusSearch, EscapeSearch, TogglePalette,
           OpenPalette, ClosePalette, PickAnalysis, BrowseProjects, UserMenu, GoToSettings,
           Leave, ComeBack
  <2>2. Unguarded({})
    BY DEF Unguarded
  <2> QED
    BY <2>1, <2>2, HandlersUnguarded
<1>2. ASSUME SendSearch \/ StartTour \/ \E c : SearchAnswered(c) PROVE Unguarded(calls')
  BY <1>2, HandlersUnguarded DEF SendSearch, StartTour, SearchAnswered, GuardedOps
<1> QED
  BY <1>1, <1>2

LEMMA StaleUnguarded ==
  ASSUME NEW cs, Unguarded(cs)
  PROVE  Unguarded({[c EXCEPT !.arg.stale = TRUE] : c \in cs})
<1>1. ASSUME NEW c \in cs PROVE LET d == [c EXCEPT !.arg.stale = TRUE]
                                IN  IsCall(d) /\ d.op = c.op
  BY <1>1 DEF Unguarded, IsCall, Shaped
<1> QED
  BY <1>1 DEF Unguarded

LEMMA FlatUnguarded ==
  ASSUME Unguarded(calls),
         FlatClicks \/ \E c : LayoutStops(c) \/ LayoutForgotten(c) \/ GrabCanvas(c)
  PROVE  Unguarded(calls')
<1>1. ASSUME NEW u, Given(u) PROVE Unguarded(calls')
  <2>1. \/ \E arg : SendAlso("layout", None, arg, {[c EXCEPT !.arg.stale = TRUE] : c \in calls})
        \/ UNCHANGED calls
    BY <1>1 DEF Given, UpdateElements
  <2> QED
    BY <2>1, StaleUnguarded, SendAlsoUnguarded, HandlersUnguarded DEF GuardedOps
<1>2. CASE FlatClicks
  <2>1. (\E u : Given(u)) \/ Local \/ calls' = {}
    BY <1>2
       DEF FlatClicks, GiveMap, SetDetail, SetLayout, Hide, TapNode, OpenMenu, TapEdge,
           HoverNode, TakeAway, ToggleCleanView, Restyle, ClearSelection, TapBackground,
           ShowDetails, CrossZoom
  <2>2. Unguarded({})
    BY DEF Unguarded
  <2> QED
    BY <1>1, <2>1, <2>2, HandlersUnguarded
<1>3. ASSUME NEW c, LayoutStops(c) \/ LayoutForgotten(c) \/ GrabCanvas(c)
      PROVE  Unguarded(calls')
  BY <1>3, HandlersUnguarded DEF LayoutStops, LayoutForgotten, GrabCanvas
<1> QED
  BY <1>2, <1>3

LEMMA WebglUnguarded ==
  ASSUME Unguarded(calls), WebglNext
  PROVE  Unguarded(calls')
<1>1. \A cs : cs \subseteq calls => Unguarded(cs)
  BY DEF Unguarded
<1>2. ASSUME \/ \E m, s : GiveGraph(m, s)
             \/ \E x : LeaveWebgl(x) \/ SelectInWebgl(x) \/ HoverWebgl(x)
             \/ ResetFlashes \/ ToggleMinimap \/ ToggleExport
             \/ \E c : FlashEnds(c)
      PROVE  Unguarded(calls')
  <2>1. calls' \subseteq calls
    BY <1>2 DEF GiveGraph, LeaveWebgl, SelectInWebgl, HoverWebgl, Rendered, ResetFlashes,
       ToggleMinimap, ToggleExport, FlashEnds, Local, Done
  <2> QED
    BY <1>1, <2>1
<1>3. ASSUME NEW i, Flash(i) PROVE Unguarded(calls')
  BY <1>1, <1>3, SendAlsoUnguarded DEF Flash, GuardedOps
<1> QED
  BY <1>2, <1>3 DEF WebglNext

LEMMA CityUnguarded ==
  ASSUME Unguarded(calls), CityNext
  PROVE  Unguarded(calls')
BY HandlersUnguarded
   DEF CityNext, GiveCity, SelectTower, HoverTower, ChooseMetric, LeaveCity

LEMMA PulseUnguarded ==
  ASSUME Unguarded(calls), PulseNext
  PROVE  Unguarded(calls')
<1>1. ASSUME NEW log, OpenPulse(log) PROVE Unguarded(calls')
  BY <1>1, HandlersUnguarded DEF OpenPulse, GuardedOps
<1>2. CASE ReloadPulse
  <2>1. Unguarded({})
    BY DEF Unguarded
  <2>2. calls' = {} \cup {AskPulse(ui.log, clicks + 1)}
    BY <1>2 DEF ReloadPulse
  <2> QED
    BY <2>1, <2>2, RequestUnguarded DEF AskPulse, GuardedOps
<1>3. ASSUME TogglePlay \/ PulseFrame \/ (\E l : ChooseLens(l)) \/ \E c : PulseDiscovered(c)
      PROVE  Unguarded(calls')
  BY <1>3, HandlersUnguarded DEF TogglePlay, PulseFrame, ChooseLens, PulseDiscovered
<1> QED
  BY <1>1, <1>2, <1>3 DEF PulseNext

LEMMA SessionUnguarded ==
  ASSUME Unguarded(calls), SessionClicks \/ SessionAnswers
  PROVE  Unguarded(calls')
<1>1. \A cs : cs \subseteq calls => Unguarded(cs)
  BY DEF Unguarded
<1>2. ASSUME NEW u, NEW others, Unguarded(others), Render(u, others) PROVE Unguarded(calls')
  BY <1>2, MutedUnguarded DEF Render
<1>3. ASSUME NEW u, NEW op, NEW on, NEW arg, NEW others, others \subseteq calls,
             Further(u, op, on, arg, others), op \notin GuardedOps
      PROVE  Unguarded(calls')
  <2>1. Unguarded(others \cup {Request(op, on, arg, others)})
    BY <1>1, <1>3, RequestUnguarded
  <2> QED
    BY <1>2, <1>3, <2>1 DEF Further
<1>4. ASSUME NEW u, NEW others, others \subseteq calls, Bootstrapped(u, others)
      PROVE  Unguarded(calls')
  <2>1. \/ \E v : Render(v, others)
        \/ \E v, on, arg : Further(v, "me", on, arg, others)
    BY <1>4 DEF Bootstrapped, Validate
  <2> QED
    BY <1>1, <1>2, <1>3, <1>4, <2>1 DEF GuardedOps
<1>5. ASSUME NEW u, NEW path, Reloaded(u, path) PROVE Unguarded(calls')
  <2>1. PICK arg : calls' = {} \cup {Request("demoStatus", None, arg, {})}
    BY <1>5 DEF Reloaded
  <2> QED
    BY <1>1, <2>1, RequestUnguarded DEF GuardedOps
<1>6. ASSUME NEW c, NEW u, Intercepted(c, u) PROVE Unguarded(calls')
  <2>1. PICK v : Reloaded(v, "login") \/ Bootstrapped(v, calls \ {c}) \/ Render(v, calls \ {c})
    BY <1>6 DEF Intercepted
  <2> QED
    BY <1>1, <1>2, <1>4, <1>5, <2>1
<1>7. ASSUME NEW user, (\E right : SubmitLogin(user, right)) \/ SubmitRegister(user)
                       \/ SubmitActivate(user)
      PROVE  Unguarded(calls')
  <2>1. PICK u, op, on, arg :
          Further(u, op, on, arg, calls) /\ op \in {"login", "register", "activate"}
    BY <1>7 DEF SubmitLogin, SubmitRegister, SubmitActivate
  <2> QED
    BY <1>3, <2>1 DEF GuardedOps
<1>8. ASSUME NEW path, FollowLink(path) \/ OpenAddress(path) PROVE Unguarded(calls')
  BY <1>2, <1>5, <1>8 DEF FollowLink, OpenAddress
<1>9. ASSUME NEW t, TokenExpires(t) PROVE Unguarded(calls')
  BY <1>9 DEF TokenExpires
<1>10. ASSUME SignOut \/ UseApp PROVE Unguarded(calls')
  <2>1. PICK u, op, on, arg :
          Further(u, op, on, arg, calls) /\ op \in {"logout", "use"}
    BY <1>10 DEF SignOut, UseApp
  <2> QED
    BY <1>3, <2>1 DEF GuardedOps
<1>11. ASSUME NEW c, \/ DemoStatusKnown(c) \/ DemoLoggedIn(c) \/ ProfileKnown(c)
                     \/ LoginAnswered(c) \/ Registered(c) \/ Activated(c) \/ Used(c)
       PROVE  Unguarded(calls')
  <2>1. \/ \E u : Bootstrapped(u, calls \ {c}) \/ Intercepted(c, u) \/ Render(u, calls \ {c})
        \/ \E u, op, on, arg : /\ Further(u, op, on, arg, calls \ {c})
                               /\ op \in {"demoLogin", "me", "login"}
    BY <1>11 DEF DemoStatusKnown, DemoLoggedIn, ProfileKnown, LoginAnswered, Registered,
                 Activated, Used
  <2> QED
    BY <1>1, <1>2, <1>3, <1>4, <1>6, <2>1 DEF GuardedOps
<1> QED
  BY <1>7, <1>8, <1>9, <1>10, <1>11 DEF SessionClicks, SessionAnswers

-----------------------------------------------------------------------------
(* What is answered or refused                                              *)

LEMMA GuardsReplied ==
  ASSUME NEW c \in calls, Replied(c), NEW flag, NEW ops, NEW then, NEW args,
         Guards(flag, ops, then, args)
  PROVE  Guards(flag, ops, then, args)'
<1>1. PICK d : calls' = (calls \ {c}) \cup {d} /\ Same(d, c)
  BY DEF Replied
<1>2. Lone(calls', ops, then, args, ui[flag])
  BY <1>1, LoneReplied DEF Guards
<1> QED
  BY <1>2 DEF Guards, Replied

\* Whoever waits for a call still does once it is answered.
LEMMA SavesReplied ==
  ASSUME SavesInv, page' = page, page # "projects", NEW c \in calls, Replied(c)
  PROVE  SavesInv'
<1>1. PICK d : calls' = (calls \ {c}) \cup {d} /\ Same(d, c)
  BY DEF Replied
<1>2. ui' = ui
  BY DEF Replied
<1>3. ASSUME NEW ops, Calls(calls, ops) PROVE Calls(calls', ops)
  BY <1>1, <1>3, CallsReplied
<1>4. ASSUME NEW ops, NEW busy, Lone(calls, ops, {}, {}, busy)
      PROVE  Lone(calls', ops, {}, {}, busy)
  BY <1>1, <1>4, LoneReplied
<1>5. ASSUME RulesSaves PROVE RulesSaves'
  <2>1. \A e \in calls' : e.op = "runOpenRule" => e.on \in Items
    BY <1>1, <1>5 DEF RulesSaves, Same
  <2> QED
    BY <1>3, <1>5, <2>1, GuardsReplied DEF RulesSaves
<1>6. ASSUME ReportsSaves PROVE ReportsSaves'
  BY <1>3, <1>6, GuardsReplied DEF ReportsSaves
<1>7. ASSUME KpisSaves PROVE KpisSaves'
  BY <1>3, <1>7, GuardsReplied DEF KpisSaves
<1>8. ASSUME TemplatesSaves PROVE TemplatesSaves'
  BY <1>3, <1>8, GuardsReplied DEF TemplatesSaves
<1>9. ASSUME InitiativesSaves PROVE InitiativesSaves'
  BY <1>3, <1>9, GuardsReplied DEF InitiativesSaves
<1>10. ASSUME ChangesSaves PROVE ChangesSaves'
  BY <1>3, <1>10, GuardsReplied DEF ChangesSaves
<1>11. ASSUME MiningSaves PROVE MiningSaves'
  BY <1>3, <1>11, GuardsReplied DEF MiningSaves
<1>12. ASSUME DashboardsSaves PROVE DashboardsSaves'
  BY <1>3, <1>12, GuardsReplied DEF DashboardsSaves
<1>13. ASSUME EditorSaves PROVE EditorSaves'
  <2>1. Lone(calls', {"restoreVersion"}, {}, {}, ui.versions.open /\ ui.versions.restoring)
    BY <1>4, <1>13 DEF EditorSaves
  <2> QED
    BY <1>2, <1>3, <1>13, <2>1 DEF EditorSaves
<1>14. ASSUME BuilderSaves PROVE BuilderSaves'
  BY <1>3, <1>14, GuardsReplied DEF BuilderSaves
<1>15. ASSUME StoreSaves PROVE StoreSaves'
  BY <1>3, <1>15, GuardsReplied DEF StoreSaves
<1>16. ASSUME UploadSaves PROVE UploadSaves'
  <2>1. Lone(calls', {"uploadLog", "previewLog"}, {}, {},
             ui.step = "upload" /\ ui.file # None /\ ui.status = "uploading")
    BY <1>4, <1>16 DEF UploadSaves
  <2> QED
    BY <1>2, <1>3, <1>16, <2>1, GuardsReplied DEF UploadSaves
<1>17. ASSUME ChatSaves PROVE ChatSaves'
  BY <1>3, <1>17, GuardsReplied DEF ChatSaves
<1>18. ASSUME OcpmSaves PROVE OcpmSaves'
  <2>1. \A e \in calls' : e.op = "uploadOcel" => e.arg = "upload"
    BY <1>1, <1>18 DEF OcpmSaves, Same
  <2> QED
    BY <1>3, <1>18, <2>1, GuardsReplied DEF OcpmSaves
<1>19. ASSUME Unguarded(calls) PROVE Unguarded(calls')
  BY <1>1, <1>19 DEF Unguarded, Same
<1> QED
  BY <1>5, <1>6, <1>7, <1>8, <1>9, <1>10, <1>11, <1>12, <1>13, <1>14, <1>15, <1>16, <1>17,
     <1>18, <1>19 DEF SavesInv

\* On the page of the projects, what was seeded has an id.
LEMMA ProjectsReplied ==
  ASSUME ProjectsSaves, NEW c \in calls, Refuse(c) \/ \E o \in ProjectsServer(c) : Serve(c, o)
  PROVE  ProjectsSaves'
<1>1. IsCall(c)
  BY DEF ProjectsSaves, Calls
<1>2. Replied(c)
  BY <1>1, RepliedIs
<1>3. PICK d : calls' = (calls \ {c}) \cup {d} /\ Same(d, c)
  BY <1>2 DEF Replied
<1>4. Calls(calls', {"seedSample", "importProject"})
  BY <1>3, CallsReplied DEF ProjectsSaves
<1>5. \A e \in calls' : e.op = "seedSample" /\ e.stage = "ok" => e.ans.id \in Items
  <2>1. CASE Refuse(c)
    <3>1. PICK e : e = [c EXCEPT !.stage = "failed"]
      OBVIOUS
    <3>2. SameCall(e, c, "failed")
      BY <1>1, <3>1, RefusedIs
    <3>3. calls' = (calls \ {c}) \cup {e}
      BY <2>1, <3>1 DEF Refuse
    <3> QED
      BY <3>2, <3>3 DEF ProjectsSaves, SameCall
  <2>2. ASSUME NEW o \in ProjectsServer(c), Serve(c, o)
        PROVE  \A e \in calls' : e.op = "seedSample" /\ e.stage = "ok" => e.ans.id \in Items
    <3>1. PICK stage : stage = IF o.ans = None THEN "failed" ELSE "ok"
      OBVIOUS
    <3>2. PICK e : e = [c EXCEPT !.stage = stage, !.ans = o.ans]
      OBVIOUS
    <3>3. calls' = (calls \ {c}) \cup {e}
      BY <2>2, <3>1, <3>2, Zenon DEF Serve
    <3>4. e.op = c.op /\ e.ans = o.ans
      BY <1>1, <3>2 DEF IsCall, Shaped
    <3>5. c.op = "seedSample" => o.ans.id \in Items
      BY DEF ProjectsServer, Outcome
    <3> QED
      BY <3>3, <3>4, <3>5 DEF ProjectsSaves
  <2> QED
    BY <2>1, <2>2
<1> QED
  BY <1>2, <1>4, <1>5, GuardsReplied DEF ProjectsSaves

-----------------------------------------------------------------------------
(* The first calls                                                          *)

OtherPages ==
  {"alerts", "inbox", "journeys", "connectors", "process", "views", "governance", "session",
   "account", "project", "shell", "header", "flat", "webgl", "city", "pulse", "form",
   "benchmark"}

\* What SavesInv says of the mounted page.
LEMMA SavesInvIs ==
  /\ page = "rules" => (SavesInv <=> RulesSaves)
  /\ page = "reports" => (SavesInv <=> ReportsSaves)
  /\ page = "kpis" => (SavesInv <=> KpisSaves)
  /\ page = "templates" => (SavesInv <=> TemplatesSaves)
  /\ page = "initiatives" => (SavesInv <=> InitiativesSaves)
  /\ page = "changes" => (SavesInv <=> ChangesSaves)
  /\ page = "mining" => (SavesInv <=> MiningSaves)
  /\ page = "dashboards" => (SavesInv <=> DashboardsSaves)
  /\ page = "projects" => (SavesInv <=> ProjectsSaves)
  /\ page = "editor" => (SavesInv <=> EditorSaves)
  /\ page = "builder" => (SavesInv <=> BuilderSaves)
  /\ page = "store" => (SavesInv <=> StoreSaves)
  /\ page = "upload" => (SavesInv <=> UploadSaves)
  /\ page = "chat" => (SavesInv <=> ChatSaves)
  /\ page = "ocpm" => (SavesInv <=> OcpmSaves)
  /\ page \in OtherPages => (SavesInv <=> Unguarded(calls))
BY DEF SavesInv, OtherPages

LEMMA FirstCall ==
  ASSUME NEW op, NEW on, NEW arg, NEW others
  PROVE  \E r : {Request(op, on, arg, others)} = {r} /\ Made(r, op, on, arg)
BY RequestIs DEF Made

LEMMA SavesInit == Init => SavesInv
<1> USE DEF Guards, Lone, Waited, Calls, Made, GuardedOps
<1>1. RulesInit => RulesSaves
  BY DEF RulesInit, RulesSaves
<1>2. ASSUME NEW p, ReportsInit(p) PROVE ReportsSaves
  BY <1>2, FirstCall DEF ReportsInit, ReportsSaves
<1>3. KpisInit => KpisSaves
  BY DEF KpisInit, KpisSaves
<1>4. None \notin {"save", "create", "mine", "import", "convert"} \cup Items
  BY SpaAssumption DEF Waits
<1>5. TemplatesInit => TemplatesSaves
  BY <1>4, FirstCall DEF TemplatesInit, TemplatesSaves
<1>6. ASSUME NEW p, NEW prefill, InitiativesInit(p, prefill) PROVE InitiativesSaves
  BY <1>4, <1>6, FirstCall DEF InitiativesInit, InitiativesSaves
<1>7. ChangesInit => ChangesSaves
  BY FirstCall DEF ChangesInit, ChangesSaves
<1>8. ASSUME NEW p \in Projects, MiningInit(p) PROVE MiningSaves
  BY <1>4, <1>8, RequestIs DEF MiningInit, MiningSaves, MiningLoads
<1>9. DashboardsInit => DashboardsSaves
  BY FirstCall DEF DashboardsInit, DashboardsSaves
<1>10. ProjectsInit => ProjectsSaves
  BY <1>4, FirstCall DEF ProjectsInit, ProjectsSaves
<1>11. EditorInit => EditorSaves
  BY FirstCall DEF EditorInit, EditorSaves, EditorStart, ClosedVersions
<1>12. BuilderInit => BuilderSaves
  BY FirstCall DEF BuilderInit, BuilderSaves
<1>13. ASSUME NEW view, NEW log, StoreInit(view, log) PROVE StoreSaves
  BY <1>13, FirstCall DEF StoreInit, StoreSaves
<1>14. ASSUME NEW p, UploadInit(p) PROVE UploadSaves
  BY <1>14, FirstCall DEF UploadInit, UploadSaves
<1>15. ASSUME NEW kind, NEW log, NEW asked, ChatInit(kind, log, asked) PROVE ChatSaves
  BY <1>15 DEF ChatInit, ChatSaves
<1>16. ASSUME NEW route, OcpmInit(route) PROVE OcpmSaves
  <2>1. PICK loads : loads = {Request("loadOcpmLogs", None, None, {})}
    OBVIOUS
  <2>2. PICK k, r : /\ calls \subseteq {k, r}
                    /\ Made(k, "loadOcpmLogs", None, None) /\ Made(r, "getSummary", route, "route")
    <3>1. calls \subseteq {Request("loadOcpmLogs", None, None, {}),
                           Request("getSummary", route, "route", loads)}
      BY <1>16, <2>1 DEF OcpmInit
    <3>2. /\ Made(Request("loadOcpmLogs", None, None, {}), "loadOcpmLogs", None, None)
          /\ Made(Request("getSummary", route, "route", loads), "getSummary", route, "route")
      BY RequestIs
    <3> QED
      BY <3>1, <3>2
  <2>3. "converting" \in DOMAIN ui /\ ui.converting = FALSE
    BY <1>16 DEF OcpmInit
  <2> QED
    BY <1>4, <2>2, <2>3 DEF OcpmSaves
<1> HIDE DEF Guards, Lone, Waited, Calls, Made
<1>17. Unguarded({})
  BY DEF Unguarded
<1>18. ASSUME NEW op, NEW on, NEW arg, op \notin GuardedOps
       PROVE  Unguarded({Request(op, on, arg, {})})
  BY <1>18, RequestIs DEF Unguarded
<1>19. ASSUME \/ AlertsInit \/ InboxInit \/ ConnectorsInit \/ EntriesInit \/ CapabilitiesInit
              \/ SettingsInit \/ UsersInit \/ KeysInit \/ ConnectorFormInit
              \/ \E p : BenchmarkInit(p) \/ ProjectInit(p) \/ JourneysInit(p)
              \/ \E path, t, demo : SessionInit(path, t, demo)
              \/ \E last, log, all : ShellInit(last, log, all)
              \/ \E at, last, off : HeaderInit(at, last, off)
              \/ \E m : FlatInit(m) \/ WebglInit(m) \/ CityInit(m)
              \/ \E log, kept, bare : PulseInit(log, kept, bare)
              \/ \E view, log : ViewsInit(view, log)
       PROVE  Unguarded(calls)
  <2>1. ASSUME \/ AlertsInit \/ InboxInit \/ ConnectorsInit \/ EntriesInit \/ CapabilitiesInit
               \/ SettingsInit \/ UsersInit \/ KeysInit \/ ConnectorFormInit
        PROVE  Unguarded(calls)
    BY <2>1, <1>17, <1>18
       DEF AlertsInit, InboxInit, ConnectorsInit, EntriesInit, CapabilitiesInit, SettingsInit,
           UsersInit, KeysInit, ConnectorFormInit
  <2>2. ASSUME NEW p, BenchmarkInit(p) \/ JourneysInit(p) PROVE Unguarded(calls)
    BY <2>2, <1>18 DEF BenchmarkInit, JourneysInit
  <2>3. ASSUME NEW p, ProjectInit(p) PROVE Unguarded(calls)
    BY <2>3, <1>17, <1>18, RequestIs DEF ProjectInit, Unguarded
  <2>4. ASSUME NEW path, NEW t, NEW demo, SessionInit(path, t, demo) PROVE Unguarded(calls)
    BY <2>4, <1>18 DEF SessionInit
  <2>5. ASSUME NEW last, NEW log, NEW all, ShellInit(last, log, all) PROVE Unguarded(calls)
    BY <2>5, <1>17 DEF ShellInit
  <2>6. ASSUME NEW m, FlatInit(m) \/ WebglInit(m) \/ CityInit(m) PROVE Unguarded(calls)
    <3>1. calls = {} \/ \E arg : calls = {Request("layout", None, arg, {})}
      BY <2>6, Zenon DEF FlatInit, WebglInit, CityInit
    <3> QED
      BY <3>1, <1>17, <1>18
  <2>7. ASSUME NEW log, NEW kept, NEW bare, PulseInit(log, kept, bare) PROVE Unguarded(calls)
    BY <2>7, <1>17, <1>18 DEF PulseInit, AskPulse
  <2>8. ASSUME NEW view, NEW log, ViewsInit(view, log) PROVE Unguarded(calls)
    BY <2>8, <1>17, <1>18 DEF ViewsInit
  <2>9. ASSUME NEW at, NEW last, NEW off, HeaderInit(at, last, off) PROVE Unguarded(calls)
    BY <2>9, <1>17 DEF HeaderInit
  <2> HIDE DEF GuardedOps
  <2> QED
    BY <1>19, <2>1, <2>2, <2>3, <2>4, <2>5, <2>6, <2>7, <2>8, <2>9
<1>20. ASSUME NEW log, ProcessInit(log) PROVE Unguarded(calls)
  <2>1. \E key : calls = {Request("loadEventLog", "log", log, {}),
                          Request("discover", "map", key, {})}
    BY <1>20 DEF ProcessInit
  <2> QED
    BY <2>1, RequestIs DEF Unguarded
<1> HIDE DEF GuardedOps
<1>21. ASSUME \/ RulesInit \/ KpisInit \/ TemplatesInit \/ ChangesInit \/ DashboardsInit
              \/ ProjectsInit \/ EditorInit \/ BuilderInit
       PROVE  SavesInv
  BY <1>1, <1>3, <1>5, <1>7, <1>9, <1>10, <1>11, <1>12, <1>21, SavesInvIs
     DEF RulesInit, KpisInit, TemplatesInit, ChangesInit, DashboardsInit, ProjectsInit,
         EditorInit, BuilderInit
<1>22. ASSUME \/ \E p \in Projects : ReportsInit(p) \/ MiningInit(p) \/ UploadInit(p)
              \/ \E p, prefill : InitiativesInit(p, prefill)
              \/ \E view, log : StoreInit(view, log)
              \/ \E kind, log, asked : ChatInit(kind, log, asked)
              \/ \E route : OcpmInit(route)
       PROVE  SavesInv
  <2>1. ASSUME NEW p \in Projects, ReportsInit(p) \/ MiningInit(p) \/ UploadInit(p)
        PROVE  SavesInv
    BY <1>2, <1>8, <1>14, <2>1, SavesInvIs DEF ReportsInit, MiningInit, UploadInit
  <2>2. ASSUME NEW p, NEW prefill, InitiativesInit(p, prefill) PROVE SavesInv
    BY <1>6, <2>2, SavesInvIs DEF InitiativesInit
  <2>3. ASSUME NEW view, NEW log, StoreInit(view, log) PROVE SavesInv
    BY <1>13, <2>3, SavesInvIs DEF StoreInit
  <2>4. ASSUME NEW kind, NEW log, NEW asked, ChatInit(kind, log, asked) PROVE SavesInv
    BY <1>15, <2>4, SavesInvIs DEF ChatInit
  <2>5. ASSUME NEW route, OcpmInit(route) PROVE SavesInv
    BY <1>16, <2>5, SavesInvIs DEF OcpmInit
  <2> QED
    BY <1>22, <2>1, <2>2, <2>3, <2>4, <2>5
<1>23. ASSUME \/ AlertsInit \/ InboxInit \/ ConnectorsInit \/ EntriesInit \/ CapabilitiesInit
              \/ SettingsInit \/ UsersInit \/ KeysInit \/ ConnectorFormInit
              \/ \E p : BenchmarkInit(p) \/ ProjectInit(p) \/ JourneysInit(p)
              \/ \E path, t, demo : SessionInit(path, t, demo)
              \/ \E last, log, all : ShellInit(last, log, all)
              \/ \E at, last, off : HeaderInit(at, last, off)
              \/ \E m : FlatInit(m) \/ WebglInit(m) \/ CityInit(m)
              \/ \E log, kept, bare : PulseInit(log, kept, bare)
              \/ \E view, log : ViewsInit(view, log)
              \/ \E log : ProcessInit(log)
       PROVE  SavesInv
  <2>1. page \in OtherPages
    BY <1>23
       DEF AlertsInit, InboxInit, ConnectorsInit, EntriesInit, CapabilitiesInit, SettingsInit,
           UsersInit, KeysInit, ConnectorFormInit, BenchmarkInit, ProjectInit, JourneysInit,
           SessionInit, ShellInit, HeaderInit, FlatInit, WebglInit, CityInit, PulseInit, ViewsInit,
           ProcessInit, OtherPages
  <2>2. Unguarded(calls)
    BY <1>19, <1>20, <1>23
  <2> QED
    BY <2>1, <2>2, SavesInvIs
<1> QED
  BY <1>21, <1>22, <1>23 DEF Init

-----------------------------------------------------------------------------
(* Every step, and what it means                                            *)

LEMMA AnsweredSaves ==
  ASSUME SavesInv, page' = page, NEW c \in calls,
         Refuse(c) \/ (page # "projects" /\ \E o : Serve(c, o))
  PROVE  SavesInv'
<1>1. IsCall(c)
  BY DEF SavesInv, RulesSaves, ReportsSaves, KpisSaves, TemplatesSaves, InitiativesSaves,
         ChangesSaves, MiningSaves, DashboardsSaves, ProjectsSaves, EditorSaves,
         BuilderSaves, StoreSaves, UploadSaves, ChatSaves, OcpmSaves, Calls, Unguarded
<1>2. CASE page # "projects"
  BY <1>1, <1>2, RepliedIs, SavesReplied
<1>3. CASE page = "projects"
  <2>1. ProjectsSaves'
    BY <1>3, ProjectsReplied, SavesInvIs
  <2> QED
    BY <1>3, <2>1 DEF SavesInv
<1> QED
  BY <1>2, <1>3

LEMMA SavesStep ==
  ASSUME SavesInv, [Next]_spaVars
  PROVE  SavesInv'
<1>1. page' = page
  BY PageStays
<1>2. /\ page = "rules" => (SavesInv' <=> RulesSaves')
      /\ page = "reports" => (SavesInv' <=> ReportsSaves')
      /\ page = "kpis" => (SavesInv' <=> KpisSaves')
      /\ page = "templates" => (SavesInv' <=> TemplatesSaves')
      /\ page = "initiatives" => (SavesInv' <=> InitiativesSaves')
      /\ page = "changes" => (SavesInv' <=> ChangesSaves')
      /\ page = "mining" => (SavesInv' <=> MiningSaves')
      /\ page = "dashboards" => (SavesInv' <=> DashboardsSaves')
      /\ page = "projects" => (SavesInv' <=> ProjectsSaves')
      /\ page = "editor" => (SavesInv' <=> EditorSaves')
      /\ page = "builder" => (SavesInv' <=> BuilderSaves')
      /\ page = "store" => (SavesInv' <=> StoreSaves')
      /\ page = "upload" => (SavesInv' <=> UploadSaves')
      /\ page = "chat" => (SavesInv' <=> ChatSaves')
      /\ page = "ocpm" => (SavesInv' <=> OcpmSaves')
      /\ page \in OtherPages => (SavesInv' <=> Unguarded(calls'))
  BY <1>1 DEF SavesInv, OtherPages
<1>3. CASE RulesNext
  BY <1>1, <1>2, <1>3, SavesInvIs, RulesSavesStep, AnsweredSaves DEF RulesNext
<1>4. CASE ReportsNext
  BY <1>1, <1>2, <1>4, SavesInvIs, ReportsSavesStep, AnsweredSaves DEF ReportsNext
<1>5. CASE KpisNext
  BY <1>1, <1>2, <1>5, SavesInvIs, KpisSavesStep, AnsweredSaves DEF KpisNext
<1>6. CASE TemplatesNext
  BY <1>1, <1>2, <1>6, SavesInvIs, TemplatesSavesStep, AnsweredSaves DEF TemplatesNext
<1>7. CASE InitiativesNext
  BY <1>1, <1>2, <1>7, SavesInvIs, InitiativesSavesStep, AnsweredSaves DEF InitiativesNext
<1>8. CASE ChangesNext
  BY <1>1, <1>2, <1>8, SavesInvIs, ChangesSavesStep, AnsweredSaves DEF ChangesNext
<1>9. CASE MiningNext
  BY <1>1, <1>2, <1>9, SavesInvIs, MiningSavesStep, AnsweredSaves DEF MiningNext
<1>10. CASE DashboardsNext
  BY <1>1, <1>2, <1>10, SavesInvIs, DashboardsSavesStep, AnsweredSaves DEF DashboardsNext
<1>11. CASE EditorNext
  BY <1>1, <1>2, <1>11, SavesInvIs, EditorSavesStep, AnsweredSaves DEF EditorNext
<1>12. CASE BuilderNext
  BY <1>1, <1>2, <1>12, SavesInvIs, BuilderSavesStep, AnsweredSaves DEF BuilderNext
<1>13. CASE StoreNext
  BY <1>1, <1>2, <1>13, SavesInvIs, StoreSavesStep, AnsweredSaves DEF StoreNext
<1>14. CASE UploadNext
  BY <1>1, <1>2, <1>14, SavesInvIs, UploadSavesStep, AnsweredSaves DEF UploadNext,
     UploadServer
<1>15. CASE ChatNext
  BY <1>1, <1>2, <1>15, SavesInvIs, ChatSavesStep, AnsweredSaves DEF ChatNext, ChatServer
<1>16. CASE OcpmNext
  BY <1>1, <1>2, <1>16, SavesInvIs, OcpmSavesStep, AnsweredSaves DEF OcpmNext, OcpmServer
<1>17. CASE ProjectsNext
  BY <1>1, <1>2, <1>17, SavesInvIs, ProjectsSavesStep, ProjectsReplied DEF ProjectsNext
<1>18. CASE AlertsNext
  BY <1>1, <1>2, <1>18, SavesInvIs, AlertsUnguarded, AnsweredSaves DEF AlertsNext,
     OtherPages
<1>19. CASE InboxNext
  BY <1>1, <1>2, <1>19, SavesInvIs, InboxUnguarded, AnsweredSaves DEF InboxNext, OtherPages
<1>20. CASE JourneysNext
  BY <1>1, <1>2, <1>20, SavesInvIs, JourneysUnguarded, AnsweredSaves DEF JourneysNext,
     OtherPages
<1>21. CASE ConnectorsNext
  BY <1>1, <1>2, <1>21, SavesInvIs, ConnectorsUnguarded, AnsweredSaves DEF ConnectorsNext,
     OtherPages
<1>22. CASE ProcessNext
  BY <1>1, <1>2, <1>22, SavesInvIs, ProcessUnguarded, AnsweredSaves DEF ProcessNext,
     OtherPages
<1>23. CASE ViewsNext
  BY <1>1, <1>2, <1>23, SavesInvIs, ViewsUnguarded, AnsweredSaves DEF ViewsNext, OtherPages
<1>24. CASE GovernanceNext
  BY <1>1, <1>2, <1>24, SavesInvIs, GovernanceUnguarded, AnsweredSaves DEF GovernanceNext,
     CapabilitiesServer, EntriesServer, OtherPages
<1>25. CASE SessionNext
  BY <1>1, <1>2, <1>25, SavesInvIs, SessionUnguarded, AnsweredSaves DEF SessionNext,
     SessionServer, OtherPages
<1>26. CASE AccountNext
  BY <1>1, <1>2, <1>26, SavesInvIs, AccountUnguarded, AnsweredSaves DEF AccountNext,
     SettingsServer, UsersServer, KeysServer, OtherPages
<1>27. CASE ProjectNext
  BY <1>1, <1>2, <1>27, SavesInvIs, ProjectUnguarded, AnsweredSaves DEF ProjectNext,
     ProjectServer, OtherPages
<1>28. CASE ShellNext
  BY <1>1, <1>2, <1>28, SavesInvIs, ShellUnguarded, AnsweredSaves DEF ShellNext,
     ShellServer, OtherPages
<1>29. CASE HeaderNext
  BY <1>1, <1>2, <1>29, SavesInvIs, HeaderUnguarded DEF HeaderNext, OtherPages
<1>30. CASE FlatNext
  BY <1>1, <1>2, <1>30, SavesInvIs, FlatUnguarded DEF FlatNext, OtherPages
<1>31. CASE WebglNext
  BY <1>1, <1>2, <1>31, SavesInvIs, WebglUnguarded DEF WebglNext, OtherPages
<1>32. CASE CityNext
  BY <1>1, <1>2, <1>32, SavesInvIs, CityUnguarded DEF CityNext, OtherPages
<1>33. CASE PulseNext
  BY <1>1, <1>2, <1>33, SavesInvIs, PulseUnguarded, AnsweredSaves DEF PulseNext, OtherPages
<1>34. CASE ConnectorFormNext
  BY <1>1, <1>2, <1>34, SavesInvIs, FormUnguarded, AnsweredSaves DEF ConnectorFormNext,
     OtherPages
<1>35. CASE BenchmarkNext
  BY <1>1, <1>2, <1>35, SavesInvIs, BenchmarkUnguarded, AnsweredSaves DEF BenchmarkNext,
     OtherPages
<1>36. ASSUME NEW c \in calls, Refuse(c) PROVE SavesInv'
  BY <1>1, <1>36, AnsweredSaves
<1>37. CASE UNCHANGED spaVars
  BY <1>37 DEF spaVars, SavesInv, RulesSaves, ReportsSaves, KpisSaves, TemplatesSaves,
     InitiativesSaves, ChangesSaves, MiningSaves, DashboardsSaves, ProjectsSaves, EditorSaves,
     BuilderSaves, StoreSaves, UploadSaves, ChatSaves, OcpmSaves, Guards
<1> QED
  BY <1>3, <1>4, <1>5, <1>6, <1>7, <1>8, <1>9, <1>10, <1>11, <1>12, <1>13, <1>14, <1>15,
     <1>16, <1>17, <1>18, <1>19, <1>20, <1>21, <1>22, <1>23, <1>24, <1>25, <1>26, <1>27,
     <1>28, <1>29, <1>30, <1>31, <1>32, <1>33, <1>34, <1>35, <1>36, <1>37 DEF Next

\* Two calls of which a disabled button allows one.
Rivals(c, d) == \E ops \in Guarded : {c.op, d.op} \subseteq ops

LEMMA SavesMean ==
  ASSUME SavesInv
  PROVE  OneSave
<1> SUFFICES ASSUME NEW c \in calls, NEW d \in calls, c # d, c.op \in GuardedOps,
                    d.op \in GuardedOps, Rivals(c, d)
             PROVE  FALSE
  BY GuardedAre DEF OneSave, InFlight, Rivals
<1>1. ~Unguarded(calls)
  BY DEF Unguarded
<1>2. ASSUME NEW ops, NEW then, NEW args, NEW busy, Lone(calls, ops, then, args, busy),
             c.op \in ops, d.op \in ops
      PROVE  FALSE
  BY <1>2 DEF Lone, Waited
<1>3. /\ {c.op, d.op} # {"minePatterns", "crossLink"}
      /\ {c.op, d.op} # {"seedSample", "importProject"}
      /\ {c.op, d.op} # {"uploadRaw", "buildLog"}
      /\ {c.op, d.op} # {"uploadLog", "setMapping"}
  BY DEF Rivals, Guarded
<1>4. ~(RulesSaves \/ ReportsSaves \/ KpisSaves \/ TemplatesSaves \/ InitiativesSaves)
  BY <1>2 DEF RulesSaves, ReportsSaves, KpisSaves, TemplatesSaves, InitiativesSaves, Calls,
     Guards
<1>5. ~(ChangesSaves \/ DashboardsSaves \/ EditorSaves \/ StoreSaves \/ ChatSaves \/ OcpmSaves)
  BY <1>2 DEF ChangesSaves, DashboardsSaves, EditorSaves, StoreSaves, ChatSaves, OcpmSaves,
              Calls, Guards
<1>6. ~(MiningSaves \/ ProjectsSaves)
  BY <1>2, <1>3 DEF MiningSaves, ProjectsSaves, Calls, Guards
<1>7. ~(BuilderSaves \/ UploadSaves)
  BY <1>2, <1>3 DEF BuilderSaves, UploadSaves, Calls, Guards
<1> QED
  BY <1>1, <1>4, <1>5, <1>6, <1>7 DEF SavesInv

\* Of the calls that a disabled button guards there is at most one in flight: a
\* second click, a failed call or a call that goes on with another never makes a
\* page create, build, seed, import or restore twice, whatever the number of
\* clicks, of rows and of failures (the buttons with disabled={saving},
\* {creating}, {mining}, {importing}, ... of the pages).
THEOREM SavesAreSingle == Spec => []OneSave
<1>1. SavesInv /\ [Next]_spaVars => SavesInv'
  BY SavesStep
<1>2. SavesInv => OneSave
  BY SavesMean
<1> QED
  BY <1>1, <1>2, SavesInit, PTL DEF Spec

=============================================================================
