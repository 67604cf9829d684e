---------------------------- MODULE AnalysisViews ---------------------------
(***************************************************************************)
(* The views that load one analysis of a log and show it: pages, panes,      *)
(* drawers and cards.  Each is described by what its effect and its render do *)
(* besides the common: load when opened, show a spinner meanwhile and an      *)
(* error in place of the result, and take whatever answer comes.              *)
(*                                                                         *)
(* keyed       another log mounts it anew                                    *)
(* guarded     the cleanup drops the answers of the loads before             *)
(* cached      an answer is kept for the session and spares the next call    *)
(* forgives    ... and clears the error                                      *)
(* setting     something the user sets is part of what is asked              *)
(* held        ... and cannot be set while loading                           *)
(* asked       a button asks, disabled meanwhile                             *)
(* clears      a load starts from nothing                                    *)
(* drops       a failure leaves nothing                                      *)
(* parts       several calls, some of which may fail                         *)
(* keepsError  a load does not clear the error                               *)
(* silent      a failure is not kept                                         *)
(* lenient     ... unless nothing was shown                                  *)
(* again       an error offers another try                                   *)
(* refresh     a button loads again, error or not                            *)
(* anytime     ... even while loading                                        *)
(* regenerates once asked, each setting chosen asks again, held meanwhile     *)
(* reload      an error offers to reload the page                            *)
(* global      it is not about a log                                         *)
(***************************************************************************)
EXTENDS Spa

\* hooks/useAnalysisData.ts
UseAnalysisData == {"guarded", "cached", "forgives"}

\* Pages
Drift == {"guarded", "setting", "again"}
CasesAtRisk == {"setting", "refresh"}
ModelHealth == {"guarded", "drops", "silent"}
SocialNetwork == {"cached", "again"}
DottedChart == {"cached", "again"}
Rework == {"cached", "again"}
Lineage == {"again"}
AutomationRoi == {"guarded", "reload"}
Overview == {"global", "again"}
UsageAdmin == {"global", "setting", "refresh"}
AuditLog == {"global", "setting", "refresh", "anytime"}
SharedDashboard == {"keepsError"}
Comparison == {"asked", "setting", "clears"}
CausalMap == {"guarded", "setting", "reload"}
ProcessAnimation == {"guarded", "keepsError"}
MissionControl == {"setting", "parts", "again"}
ProcessHealth == {"guarded", "parts", "reload"}
Simulation == {"asked", "setting", "clears", "silent"}
Sustainability == {"again"}
HealthTab == {"global", "guarded", "drops", "refresh"}

\* The analysis hub mounts its views anew for each log.
Hub == UseAnalysisData \cup {"keyed"}
FeatureExport == Hub
CaseOverlap == Hub
PerformanceDFG == Hub
EventuallyFollowsGraph == Hub \cup {"again"}
PerformanceSpectrum == Hub
BatchDetection == Hub
DeclareRules == Hub
LogSkeleton == Hub
CalendarHeatmap == Hub
TemporalProfile == Hub \cup {"again"}
AgentMining == Hub
OrgRoles == {"keyed", "cached"}
SNAView == {"keyed", "cached", "forgives", "setting", "clears"}
FourEyes == {"keyed", "asked", "setting", "clears"}
ComplianceDashboard == {"keyed", "asked", "setting", "clears"}

\* So does the hub of object-centric analyses.
OCPetriNetPanel == {"keyed", "cached"}
OPeraPerformancePanel == {"keyed", "cached"}
TemporalSummaryPanel == {"keyed", "cached"}
ConnectedComponentsPanel == {"keyed", "cached"}
ObjectGraphPanel == {"keyed", "cached", "forgives", "setting", "clears"}
ObjectFeaturesPanel == {"keyed", "cached", "forgives", "setting", "clears"}
StateAwarePanel == {"keyed", "asked", "setting", "clears"}
ImprovementReport == {"guarded"}
NarrativeBlock == {"guarded"}
ExplainDrawer == {"guarded"}
AnalysisSection == {"cached", "parts", "silent", "lenient"}
OCELInsightsPanel == {"cached", "drops", "silent"}

\* Panes, drawers and cards of other pages
DataQualityCard == UseAnalysisData
InsightsPanel == UseAnalysisData \cup {"silent"}
QuickSnapshot == {"guarded", "clears"}
HappyPathView == {}
BPMNViewer == {"guarded", "setting", "clears"}
CaseExplorer == {}
CaseDetail == {"setting"}
AnimationController == {"keepsError"}
ActivityDetailModal == {"setting", "clears"}
EdgeDetailModal == {"guarded", "setting"}
ActivityTreemapDrawer == {"setting"}
AttributeHistogram == {}
VariantExplainDrawer == {"guarded"}
VariantEvolution == {"setting", "silent"}
RiskExplanationCard == {"guarded", "setting"}
CostOfQualityCard == {"setting", "held", "drops", "again"}
DpBenchmarkPanel == {"asked", "setting", "drops", "again"}
ComplianceMatrix == {"setting", "drops"}
SideBySideConformance == {"guarded"}
StochasticConformance == {"again"}
WhatIfSlider == {"setting", "drops", "silent"}
AutomationCandidates == {"setting", "drops", "silent"}
CaseGantt == {"silent"}
InterAppGraph == {}
AppTeamHeatmap == {}
DESParameters == {"guarded", "silent"}
DESPanel == {"asked", "setting", "clears", "silent"}
ExportWorkflow == {"asked", "setting", "drops", "again", "regenerates"}

Views ==
  [drift |-> Drift, casesAtRisk |-> CasesAtRisk, modelHealth |-> ModelHealth,
   socialNetwork |-> SocialNetwork, dottedChart |-> DottedChart, rework |-> Rework,
   lineage |-> Lineage, automationRoi |-> AutomationRoi, overview |-> Overview,
   usage |-> UsageAdmin, shared |-> SharedDashboard, comparison |-> Comparison,
   causalMap |-> CausalMap, animation |-> ProcessAnimation,
   mission |-> MissionControl, health |-> ProcessHealth, simulation |-> Simulation,
   sustainability |-> Sustainability, system |-> HealthTab,
   features |-> FeatureExport, overlap |-> CaseOverlap, pdfg |-> PerformanceDFG,
   efg |-> EventuallyFollowsGraph, spectrum |-> PerformanceSpectrum,
   batches |-> BatchDetection, declare |-> DeclareRules, skeleton |-> LogSkeleton,
   calendar |-> CalendarHeatmap, temporal |-> TemporalProfile, agents |-> AgentMining,
   roles |-> OrgRoles, sna |-> SNAView, fourEyes |-> FourEyes,
   timedDeclare |-> ComplianceDashboard, petriNet |-> OCPetriNetPanel,
   opera |-> OPeraPerformancePanel, ocelTime |-> TemporalSummaryPanel,
   components |-> ConnectedComponentsPanel, graph |-> ObjectGraphPanel,
   objects |-> ObjectFeaturesPanel, states |-> StateAwarePanel,
   improvements |-> ImprovementReport, narrative |-> NarrativeBlock,
   finding |-> ExplainDrawer, section |-> AnalysisSection,
   ocelInsights |-> OCELInsightsPanel, quality |-> DataQualityCard,
   insights |-> InsightsPanel, snapshot |-> QuickSnapshot, happyPath |-> HappyPathView,
   bpmn |-> BPMNViewer, cases |-> CaseExplorer, caseDetail |-> CaseDetail,
   controller |-> AnimationController, activity |-> ActivityDetailModal,
   edge |-> EdgeDetailModal, treemap |-> ActivityTreemapDrawer,
   histogram |-> AttributeHistogram, explain |-> VariantExplainDrawer,
   evolution |-> VariantEvolution, risk |-> RiskExplanationCard,
   quality_cost |-> CostOfQualityCard, dp |-> DpBenchmarkPanel,
   matrix |-> ComplianceMatrix, sideBySide |-> SideBySideConformance,
   stochastic |-> StochasticConformance, whatIf |-> WhatIfSlider,
   candidates |-> AutomationCandidates, gantt |-> CaseGantt, apps |-> InterAppGraph,
   teams |-> AppTeamHeatmap, desParameters |-> DESParameters, des |-> DESPanel,
   auditLog |-> AuditLog, workflow |-> ExportWorkflow]

\* What an analysis is of.
Key == [log : Projects, setting : BOOLEAN]

\* No result is not a result of some log.
ASSUME ViewsAssumption == None \notin Key

\* Of several parts "rest" are those that may fail alone; "error" is what failed.
ViewsUi == [view : DOMAIN Views, log : Projects, setting : BOOLEAN,
            shown : Key \cup {None}, rest : Key \cup {None}, asked : Key \cup {None},
            error : Key \cup {None}, loading : BOOLEAN, retried : BOOLEAN]

KeyOf(u) == [log |-> u.log, setting |-> u.setting]

Is(trait) == trait \in Views[ui.view]

Mounted(view, log) ==
  [view |-> view, log |-> log, setting |-> FALSE, shown |-> None, rest |-> None,
   asked |-> None, error |-> None, loading |-> FALSE, retried |-> FALSE]

\* An answer the page no longer takes is kept all the same where answers are.
Dropped(others) ==
  {[c EXCEPT !.arg.live = FALSE] : c \in {d \in others : "cached" \in Views[d.on]}}

Overlaps(others) == clash \/ \E c \in others : c.arg.live

Cached(u) == "cached" \in Views[u.view] /\ KeyOf(u) \in db /\ ~u.retried

\* A load, with "others" in flight.
Load(u, others) ==
  LET asking == [key |-> KeyOf(u), live |-> TRUE, blank |-> u.shown = None]
  IN  IF Cached(u)
      THEN /\ ui' = [u EXCEPT !.shown = KeyOf(u), !.rest = KeyOf(u), !.loading = FALSE,
                              !.error = IF Is("forgives") THEN None ELSE @]
           /\ calls' = others /\ clash' = Overlaps(others)
      ELSE /\ ui' = [u EXCEPT !.loading = TRUE, !.asked = KeyOf(u),
                              !.error = IF Is("keepsError") THEN @ ELSE None,
                              !.shown = IF Is("clears") THEN None ELSE @,
                              !.rest = IF Is("clears") THEN None ELSE @]
           /\ calls' = others \cup {Request("analyse", u.view, asking, others)}
           /\ clash' = Overlaps(others)

\* Mutant: an effect without a cleanup.
EffectUncleaned(u) == Load(u, calls)

\* The effect runs again, after its cleanup.
Effect(u) == Load(u, IF Is("guarded") THEN Dropped(calls) ELSE calls)

ViewsInit(view, log) ==
  LET u      == Mounted(view, log)
      asking == [key |-> KeyOf(u), live |-> TRUE, blank |-> TRUE]
  IN  /\ page = "views"
      /\ db = {}
      /\ IF "asked" \in Views[view] THEN ui = u /\ calls = {}
         ELSE /\ ui = [u EXCEPT !.loading = TRUE, !.asked = KeyOf(u)]
              /\ calls = {Request("analyse", view, asking, {})}

\* The address, a select or the page around names another log.
Rekeyed(u) == IF Is("keyed") THEN Mounted(u.view, u.log) ELSE u

OpenOtherLog(log) ==
  LET u      == Rekeyed([ui EXCEPT !.log = log, !.setting = @ /\ ~Is("held")])
      others == IF Is("keyed") THEN Dropped(calls) ELSE calls
  IN  /\ log # ui.log /\ ~Is("global")
      /\ IF Is("asked") THEN ui' = u /\ calls' = others /\ UNCHANGED clash
         ELSE Load(u, IF Is("guarded") THEN Dropped(others) ELSE others)
      /\ Calling

\* Something was generated, or could not be.
Generated == Is("regenerates") /\ (ui.shown # None \/ ui.error # None)

ChangeSetting ==
  LET u == [ui EXCEPT !.setting = ~@]
  IN  /\ Is("setting") /\ (Is("held") \/ Is("regenerates") => ~ui.loading)
      /\ CASE Generated -> Load(u, calls)
           [] Is("asked") /\ ~Generated -> ui' = u /\ UNCHANGED <<calls, clash>>
           [] OTHER -> Effect(u)
      /\ Calling

\* handleRun, handleCompare, check
Ask == Is("asked") /\ ~ui.loading /\ ~Generated /\ Load(ui, calls) /\ Calling

\* ErrorState's button, or the setting that is chosen already; a counter of tries
\* that is not zero bypasses the cache.
Retry ==
  /\ ~ui.loading \/ Is("anytime")
  /\ Is("refresh") \/ (Is("again") /\ ui.error # None) \/ Generated
  /\ IF Is("asked") THEN Load(ui, calls)
     ELSE Effect([ui EXCEPT !.retried = TRUE, !.setting = @ /\ ~Is("held")])
  /\ Calling

\* window.location.reload
ReloadPage ==
  LET u == Mounted(ui.view, ui.log)
  IN  /\ Is("reload") /\ ~ui.loading /\ ui.error # None
      /\ ui' = [u EXCEPT !.loading = TRUE, !.asked = KeyOf(u)]
      /\ calls' = {Request("analyse", ui.view,
                           [key |-> KeyOf(u), live |-> TRUE, blank |-> TRUE], {})}
      /\ db' = {}
      /\ Click /\ UNCHANGED <<page, faults, clash>>

\* Of the calls that load the parts one fails.
LosePart(c) ==
  /\ Is("parts") /\ c.stage = "ok" /\ faults < MaxFaults
  /\ faults' = faults + 1
  /\ calls' = (calls \ {c}) \cup {[c EXCEPT !.stage = "part"]}
  /\ UNCHANGED <<page, ui, db, clicks, clash>>

Told(c) == ~Is("silent") \/ (Is("lenient") /\ c.arg.blank)

Analysed(c) ==
  /\ ui' = IF ~c.arg.live THEN ui
           ELSE [ui EXCEPT !.shown = c.arg.key, !.loading = FALSE,
                           !.rest = IF c.stage = "ok" THEN c.arg.key ELSE @,
                           !.error = IF c.stage = "part" /\ Is("lenient") /\ c.arg.blank
                                     THEN c.arg.key ELSE @]
  /\ db' = IF Is("cached") /\ c.stage = "ok" THEN db \cup {c.arg.key} ELSE db
  /\ Done(c) /\ UNCHANGED <<page, clicks, faults>>

AnalysisFailed(c) ==
  /\ ui' = IF ~c.arg.live THEN ui
           ELSE [ui EXCEPT !.loading = FALSE,
                           !.error = IF Told(c) THEN c.arg.key ELSE @,
                           !.shown = IF Is("drops") THEN None ELSE @,
                           !.rest = IF Is("drops") THEN None ELSE @]
  /\ Done(c) /\ Handling

\* Mutant: the error is shown beside the result.
DisplayedBeside(result) == result

\* The result on the screen: an error takes its place.
Displayed(result) == IF ui.error # None /\ ~Is("lenient") THEN None ELSE result

----------------------------------------------------------------------------

ViewsClicks ==
  \/ \E log \in Projects : OpenOtherLog(log)
  \/ ChangeSetting \/ Ask \/ Retry \/ ReloadPage

ViewsAnswers ==
  \/ \E c \in calls : LosePart(c)
  \/ \E c \in {d \in calls : d.stage \in {"ok", "part"}} : Analysed(c)
  \/ \E c \in Refused("analyse") : AnalysisFailed(c)

ViewsNext == page = "views" /\ (ViewsClicks \/ ViewsAnswers)

----------------------------------------------------------------------------
(***************************************************************************)
(* store/miningStore.ts and the pages that read it (variants, bottlenecks,   *)
(* conformance, root causes): the results of one log at a time, one error and *)
(* one loading flag per analysis.  The store outlives its pages.             *)
(***************************************************************************)

MiningViews == {"variants", "bottlenecks", "conformance", "rootCause"}

\* "owner" is the log the store says its results are of.
StoreUi == [view : MiningViews, log : Projects, owner : Projects \cup {None},
            result : [MiningViews -> Projects \cup {None}],
            busy : [MiningViews -> BOOLEAN], error : BOOLEAN, exporting : BOOLEAN]

\* _miningDefaults
MiningDefaults(u) == [u EXCEPT !.result = [v \in MiningViews |-> None], !.error = FALSE]

\* The log of the store, for which the others' results are dropped.
Owned(u, log) ==
  IF u.owner = log THEN u ELSE [MiningDefaults(u) EXCEPT !.owner = log]

\* Another analysis of the same log is none of its business.
Crossed(view, log) ==
  clash \/ \E c \in InFlight({"getAnalysis"}) : c.on = view \/ c.arg # log

\* fetchVariants and its like: nothing when the result is there.
FetchAnalysis(u, view, log, others) ==
  LET owned == Owned(u, log)
  IN  IF owned.result[view] # None
      THEN ui' = owned /\ calls' = others /\ UNCHANGED clash
      ELSE /\ ui' = [owned EXCEPT !.busy[view] = TRUE, !.error = FALSE]
           /\ calls' = others \cup {Request("getAnalysis", view, log, others)}
           /\ clash' = Crossed(view, log)

StoreInit(view, log) ==
  /\ page = "store"
  /\ db = Ok
  /\ ui = [view |-> view, log |-> log, owner |-> log,
           result |-> [v \in MiningViews |-> None],
           busy |-> [v \in MiningViews |-> v = view], error |-> FALSE,
           exporting |-> FALSE]
  /\ calls = {Request("getAnalysis", view, log, {})}

\* The result is stored whatever log the store is of by then.
AnalysisFetched(c) ==
  /\ ui' = IF c.stage = "ok"
           THEN [ui EXCEPT !.result[c.on] = c.arg, !.busy[c.on] = FALSE]
           ELSE [ui EXCEPT !.busy[c.on] = FALSE, !.error = TRUE]
  /\ Done(c) /\ Handling

\* A link to another analysis or another log; the page's effect fetches.  A page
\* that is left takes no answer, the store does.
OpenMiningPage(view, log) ==
  LET stays == view = ui.view
  IN  /\ <<view, log>> # <<ui.view, ui.log>>
      /\ FetchAnalysis([ui EXCEPT !.view = view, !.log = log, !.exporting = @ /\ stays],
                       view, log,
                       IF stays THEN calls ELSE calls \ InFlight({"exportPdf"}))
      /\ Calling

\* The error's button; a result that is there makes it do nothing.
RetryAnalysis ==
  /\ ~ui.busy[ui.view] /\ ui.error
  /\ FetchAnalysis(ui, ui.view, ui.log, calls) /\ Calling

ResultShown == ~ui.busy[ui.view] /\ ~ui.error

ExportConformancePdf ==
  /\ ui.view = "conformance" /\ ResultShown /\ ui.result["conformance"] # None
  /\ ~ui.exporting
  /\ ui' = [ui EXCEPT !.exporting = TRUE] /\ Send("exportPdf", "pdf", ui.log) /\ Calling

PdfExported(c) ==
  /\ ui' = [ui EXCEPT !.exporting = FALSE] /\ Done(c) /\ Handling

----------------------------------------------------------------------------

StoreClicks ==
  \/ \E view \in MiningViews, log \in Projects : OpenMiningPage(view, log)
  \/ RetryAnalysis \/ ExportConformancePdf

StoreAnswers ==
  \/ \E c \in Settled("getAnalysis") : AnalysisFetched(c)
  \/ \E c \in Settled("exportPdf") : PdfExported(c)

StoreNext == page = "store" /\ (StoreClicks \/ StoreAnswers)

=============================================================================
