------------------------------ MODULE KpisPage -------------------------------
(***************************************************************************)
(* pages/KpisPage.tsx: the KPIs of the chosen project.  A row has the        *)
(* definition the forms edit and the value "compute" stores.  ui.logs is the *)
(* project of the logs in useEventLogsStore, ui.log that of the picked one.  *)
(***************************************************************************)
EXTENDS Spa

KpiRow == [def : Nat, value : Nat]

NoKpi == [def |-> 0, value |-> 0]

NoKpis == [k \in Items |-> NoKpi]

KpisUi == [project : Projects \cup {None}, rows : [Items -> KpiRow], loading : BOOLEAN,
           logs : Projects \cup {None}, log : Projects \cup {None},
           create : BOOLEAN, creating : BOOLEAN,
           edit : Items \cup {None}, editing : BOOLEAN, computing : SUBSET Items]

KpisInit ==
  /\ page = "kpis"
  /\ db = [k \in Items |-> IF k \in Existing THEN [def |-> 1, value |-> 0] ELSE NoKpi]
  /\ ui = [project |-> None, rows |-> NoKpis, loading |-> FALSE,
           logs |-> None, log |-> None, create |-> FALSE, creating |-> FALSE,
           edit |-> None, editing |-> FALSE, computing |-> {}]
  /\ calls = {}

NoKpiForm == ~ui.create /\ ui.edit = None

KpiShown(k) == ui.rows[k].def # 0 /\ ~ui.loading /\ NoKpiForm

\* The select, and the three effects on activeProjectId.  The spinner takes
\* the cards away, and with them what they know to be computing.
ChooseKpiProject(p) ==
  /\ p # ui.project /\ NoKpiForm
  /\ ui' = [ui EXCEPT !.project = p, !.loading = TRUE, !.log = None, !.computing = {}]
  /\ SendAlso("loadKpis", p, None, calls \cup {Request("loadKpiLogs", p, None, calls)})
  /\ Calling

RefreshKpis ==
  /\ ui.project # None /\ ~ui.loading /\ NoKpiForm
  /\ ui' = [ui EXCEPT !.loading = TRUE, !.computing = {}]
  /\ Send("loadKpis", ui.project, None)
  /\ Calling

KpisLoaded(c) ==
  /\ ui' = [ui EXCEPT !.loading = FALSE,
                      !.rows = IF c.stage = "ok" THEN c.ans.rows ELSE @]
  /\ Done(c) /\ Handling

\* fetchEventLogs of the store; the logs it had stay when it fails.
KpiLogsLoaded(c) ==
  /\ ui' = IF c.stage = "ok" THEN [ui EXCEPT !.logs = c.on] ELSE ui
  /\ Done(c) /\ Handling

PickKpiLog ==
  /\ ui.project # None /\ NoKpiForm /\ ui.logs # None /\ ui.log # ui.logs
  /\ ui' = [ui EXCEPT !.log = ui.logs]
  /\ Local

OpenKpiForm(k) ==
  /\ NoKpiForm /\ ui.project # None
  /\ \/ k = None /\ ui' = [ui EXCEPT !.create = TRUE]
     \/ k \in Items /\ KpiShown(k) /\ ui' = [ui EXCEPT !.edit = k]
  /\ Local

CloseKpiForm ==
  /\ ~NoKpiForm
  /\ ui' = [ui EXCEPT !.create = FALSE, !.edit = None]
  /\ Local

CreateKpi ==
  /\ ui.create /\ ~ui.creating
  /\ ui' = [ui EXCEPT !.creating = TRUE]
  /\ Send("createKpi", ui.project, None)
  /\ Calling

\* Added to the rows listed by then.
KpiCreated(c) ==
  /\ ui' = IF c.stage = "ok"
           THEN [ui EXCEPT !.creating = FALSE, !.create = FALSE,
                           !.rows[c.ans.id] = [def |-> 1, value |-> 0]]
           ELSE [ui EXCEPT !.creating = FALSE]
  /\ Done(c) /\ Handling

EditKpi ==
  /\ ui.edit # None /\ ~ui.editing
  /\ ui' = [ui EXCEPT !.editing = TRUE]
  /\ Send("updateKpi", ui.edit, None)
  /\ Calling

ReplaceKpi(k, row) == [ui EXCEPT !.rows[k] = IF @ = NoKpi THEN NoKpi ELSE row]

KpiEdited(c) ==
  /\ ui' = IF c.stage = "ok"
           THEN [ReplaceKpi(c.on, c.ans.row) EXCEPT !.editing = FALSE, !.edit = None]
           ELSE [ui EXCEPT !.editing = FALSE]
  /\ Done(c) /\ Handling

DeleteKpi(k) ==
  /\ KpiShown(k)
  /\ Send("deleteKpi", k, None)
  /\ UNCHANGED ui /\ Calling

KpiDeleted(c) ==
  /\ ui' = IF c.stage = "ok" THEN [ui EXCEPT !.rows[c.on] = NoKpi] ELSE ui
  /\ Done(c) /\ Handling

\* handleCompute of a card, with the row and the log of that time.
ComputeKpi(k) ==
  /\ KpiShown(k) /\ ui.log # None /\ k \notin ui.computing
  /\ ui' = [ui EXCEPT !.computing = @ \cup {k}]
  /\ Send("computeKpi", k, [row |-> ui.rows[k], log |-> ui.log])
  /\ Calling

\* The value is merged into the row of the click.
KpiComputed(c) ==
  /\ ui' = [IF c.stage = "ok"
            THEN ReplaceKpi(c.on, [c.arg.row EXCEPT !.value = c.ans.value])
            ELSE ui
            EXCEPT !.computing = @ \ {c.on}]
  /\ Done(c) /\ Handling

----------------------------------------------------------------------------

\* api/custom_kpis.py
KpisServer(c) ==
  LET k == c.on
  IN  CASE c.op = "loadKpis" ->
             {Outcome(db, [rows |-> [i \in Items |->
                             IF ProjectOf[i] = k THEN db[i] ELSE NoKpi]])}
        [] c.op = "loadKpiLogs" -> {Outcome(db, Ok)}
        [] c.op = "createKpi" ->
             {Outcome([db EXCEPT ![i] = [def |-> 1, value |-> 0]], [id |-> i]) :
                i \in {j \in Items : ProjectOf[j] = k /\ db[j] = NoKpi}}
        [] OTHER ->
             {IF db[k] = NoKpi THEN NotFound
              ELSE CASE c.op = "deleteKpi" -> Outcome([db EXCEPT ![k] = NoKpi], Ok)
                     [] c.op = "computeKpi" ->
                          Outcome([db EXCEPT ![k].value = @ + 1],
                                  [value |-> db[k].value + 1])
                     [] OTHER ->
                          Outcome([db EXCEPT ![k].def = @ + 1],
                                  [row |-> [db[k] EXCEPT !.def = @ + 1]])}

KpisClicks ==
  \/ \E p \in Projects : ChooseKpiProject(p)
  \/ RefreshKpis \/ PickKpiLog
  \/ \E k \in Items \cup {None} : OpenKpiForm(k)
  \/ CloseKpiForm \/ CreateKpi \/ EditKpi
  \/ \E k \in Items : DeleteKpi(k) \/ ComputeKpi(k)

KpisAnswers ==
  \/ \E c \in Settled("loadKpis") : KpisLoaded(c)
  \/ \E c \in Settled("loadKpiLogs") : KpiLogsLoaded(c)
  \/ \E c \in Settled("createKpi") : KpiCreated(c)
  \/ \E c \in Settled("updateKpi") : KpiEdited(c)
  \/ \E c \in Settled("deleteKpi") : KpiDeleted(c)
  \/ \E c \in Settled("computeKpi") : KpiComputed(c)

KpisNext ==
  /\ page = "kpis"
  /\ \/ KpisClicks
     \/ KpisAnswers
     \/ \E c \in calls : \E o \in KpisServer(c) : Serve(c, o)

----------------------------------------------------------------------------
(***************************************************************************)
(* pages/JourneyMapPage.tsx: the customer journeys of the project in the      *)
(* address, one of them selected, and its stages.  A stage is there when its *)
(* version is not 0; 1 and 2 exist at the start, 3 stands for a new one.     *)
(***************************************************************************)

StageIds == 1..3

Journey == [name : Nat, stages : [StageIds -> Nat]]

NewJourney == [name |-> 1, stages |-> [s \in StageIds |-> 0]]

OldJourney == [name |-> 1, stages |-> [s \in StageIds |-> IF s = 3 THEN 0 ELSE 1]]

NoJourneys == [j \in Items |-> None]

JourneysUi == [project : Projects, list : [Items -> Journey \cup {None}],
               selected : [id : Items, row : Journey] \cup {None},
               loading : BOOLEAN, error : BOOLEAN, form : Items \cup {"new", "closed"},
               saving : BOOLEAN, stageSaving : BOOLEAN]

JourneysInit(p) ==
  /\ page = "journeys"
  /\ db = [j \in Items |-> IF j \in Existing THEN OldJourney ELSE None]
  /\ ui = [project |-> p, list |-> NoJourneys, selected |-> None, loading |-> TRUE,
           error |-> FALSE, form |-> "closed", saving |-> FALSE, stageSaving |-> FALSE]
  /\ calls = {Request("loadJourneys", p, None, {})}

\* The page, with the selected journey in it, or a spinner, or an error.
JourneysShown == ~ui.loading /\ ~ui.error

NoJourneyForm == JourneysShown /\ ui.form = "closed"

\* load of the render whose effect or Retry button runs it: it remembers the
\* journey selected then.  The spinner drops the state of the components below.
LoadJourneys(p) ==
  /\ p # ui.project \/ (ui.error /\ ~ui.loading)
  /\ ui' = [ui EXCEPT !.project = p, !.loading = TRUE, !.error = FALSE,
                      !.saving = FALSE, !.stageSaving = FALSE]
  /\ Send("loadJourneys", p, IF ui.selected = None THEN None ELSE ui.selected.id)
  /\ Calling

Listed(list) == {j \in Items : list[j] # None}

At(list, j) == [id |-> j, row |-> list[j]]

\* The journey selected before if it is still there, else the first, whichever
\* that is; without one before, none is selected by an empty list.
JourneysLoaded(c) ==
  /\ IF c.stage = "failed" THEN ui' = [ui EXCEPT !.loading = FALSE, !.error = TRUE]
     ELSE LET rows == c.ans.list  there == Listed(rows)
          IN  \E s \in IF there = {} THEN {IF c.arg = None THEN ui.selected ELSE None}
                       ELSE {At(rows, j) : j \in there \cap
                                (IF c.arg \in there THEN {c.arg} ELSE Items)} :
                ui' = [ui EXCEPT !.loading = FALSE, !.list = rows, !.selected = s]
  /\ Done(c) /\ Handling

SelectJourney(j) ==
  /\ NoJourneyForm /\ ui.list[j] # None /\ ui.selected # At(ui.list, j)
  /\ ui' = [ui EXCEPT !.selected = At(ui.list, j)]
  /\ Local

\* handleNewJourney and handleEditJourney
OpenJourneyForm(f) ==
  /\ NoJourneyForm /\ (f = "new" \/ (f \in Items /\ ui.list[f] # None))
  /\ ui' = [ui EXCEPT !.form = f]
  /\ Local

CloseJourneyForm ==
  /\ JourneysShown /\ ui.form # "closed"
  /\ ui' = [ui EXCEPT !.form = "closed"]
  /\ Local

\* handleSave of JourneyEditor
SaveJourney ==
  /\ JourneysShown /\ ui.form # "closed" /\ ~ui.saving
  /\ ui' = [ui EXCEPT !.saving = TRUE]
  /\ IF ui.form = "new" THEN Send("createJourney", ui.project, None)
     ELSE Send("updateJourney", ui.form, None)
  /\ Calling

\* handleJourneySaved, then onClose: whatever is selected, this one is now.
JourneySaved(c) ==
  /\ ui' = IF c.stage = "ok"
           THEN [ui EXCEPT !.saving = FALSE, !.form = "closed",
                           !.list[c.ans.id] = c.ans.row,
                           !.selected = [id |-> c.ans.id, row |-> c.ans.row]]
           ELSE [ui EXCEPT !.saving = FALSE]
  /\ Done(c) /\ Handling

\* handleDeleteJourney keeps the list of the click.
DeleteJourney(j) ==
  /\ NoJourneyForm /\ ui.list[j] # None
  /\ Send("deleteJourney", j, [list |-> ui.list])
  /\ UNCHANGED ui /\ Calling

\* When it was the selected one, another of the list of the click follows.
JourneyDeleted(c) ==
  LET others == Listed(c.arg.list) \ {c.on}
      next == IF others = {} THEN {None} ELSE {At(c.arg.list, j) : j \in others}
  IN  /\ IF c.stage = "failed" THEN UNCHANGED ui
         ELSE \E s \in IF ui.selected # None /\ ui.selected.id = c.on THEN next
                       ELSE {ui.selected} :
                ui' = [ui EXCEPT !.list[c.on] = None, !.selected = s]
      /\ Done(c) /\ Handling

\* persistStages sends every stage of the journey as it was shown at the click.
PersistStages(stages) ==
  /\ ui' = [ui EXCEPT !.stageSaving = TRUE]
  /\ Send("saveStages", ui.selected.id, [base |-> ui.selected, stages |-> stages])
  /\ Calling

\* handleSaveStage of a new stage: the button that opens its form is disabled
\* while stages are saved.
AddStage ==
  /\ NoJourneyForm /\ ui.selected # None /\ ~ui.stageSaving
  /\ ui.selected.row.stages[3] = 0
  /\ PersistStages([ui.selected.row.stages EXCEPT ![3] = 1])

\* handleSaveStage of another; the buttons of a stage are always enabled.
EditStage(s) ==
  /\ NoJourneyForm /\ ui.selected # None /\ ui.selected.row.stages[s] # 0
  /\ PersistStages([ui.selected.row.stages EXCEPT ![s] = @ + 1])

DeleteStage(s) ==
  /\ NoJourneyForm /\ ui.selected # None /\ ui.selected.row.stages[s] # 0
  /\ PersistStages([ui.selected.row.stages EXCEPT ![s] = 0])

\* handleStagesChange of the render of the click: its selected journey comes
\* back with the stored stages.
StagesSaved(c) ==
  LET j == c.on
      row == [c.arg.base.row EXCEPT !.stages = c.ans.row.stages]
  IN  /\ ui' = IF c.stage = "ok"
               THEN [ui EXCEPT !.stageSaving = FALSE,
                               !.list[j] = IF @ = None THEN None ELSE row,
                               !.selected = [id |-> j, row |-> row]]
               ELSE [ui EXCEPT !.stageSaving = FALSE]
      /\ Done(c) /\ Handling

----------------------------------------------------------------------------

\* api/journeys.py; the stages sent replace the stages stored.
JourneysServer(c) ==
  LET j == c.on
  IN  CASE c.op = "loadJourneys" ->
             {Outcome(db, [list |-> [i \in Items |->
                             IF ProjectOf[i] = j THEN db[i] ELSE None]])}
        [] c.op = "createJourney" ->
             {Outcome([db EXCEPT ![i] = NewJourney], [id |-> i, row |-> NewJourney]) :
                i \in {k \in Items : ProjectOf[k] = j /\ db[k] = None}}
        [] OTHER ->
             IF db[j] = None THEN {NotFound}
             ELSE CASE c.op = "deleteJourney" -> {Outcome([db EXCEPT ![j] = None], Ok)}
                    [] c.op = "updateJourney" ->
                         LET row == [db[j] EXCEPT !.name = @ + 1]
                         IN  {Outcome([db EXCEPT ![j] = row], [id |-> j, row |-> row])}
                    [] c.op = "saveStages" ->
                         LET row == [db[j] EXCEPT !.stages = c.arg.stages]
                         IN  {Outcome([db EXCEPT ![j] = row], [row |-> row])}

JourneysClicks ==
  \/ \E p \in Projects : LoadJourneys(p)
  \/ \E f \in Items \cup {"new"} : OpenJourneyForm(f)
  \/ CloseJourneyForm \/ SaveJourney \/ AddStage
  \/ \E j \in Items : SelectJourney(j) \/ DeleteJourney(j)
  \/ \E s \in StageIds : EditStage(s) \/ DeleteStage(s)

JourneysAnswers ==
  \/ \E c \in Settled("loadJourneys") : JourneysLoaded(c)
  \/ \E c \in Settled("createJourney") \cup Settled("updateJourney") : JourneySaved(c)
  \/ \E c \in Settled("deleteJourney") : JourneyDeleted(c)
  \/ \E c \in Settled("saveStages") : StagesSaved(c)

JourneysNext ==
  /\ page = "journeys"
  /\ \/ JourneysClicks
     \/ JourneysAnswers
     \/ \E c \in calls : \E o \in JourneysServer(c) : Serve(c, o)

=============================================================================
