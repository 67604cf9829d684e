------------------------------ MODULE RowPages ------------------------------
(***************************************************************************)
(* Four pages that show rows of the database as a list: the initiatives of a  *)
(* project, the user's tasks, the process templates and the task patterns.    *)
(***************************************************************************)
EXTENDS Spa

----------------------------------------------------------------------------
(***************************************************************************)
(* pages/InitiativesPage.tsx: the improvement initiatives of the project in   *)
(* the address.  Whatever changes one loads the whole list again.            *)
(***************************************************************************)

InitiativesUi == [project : Projects, rows : [Items -> Nat],
                  loading : BOOLEAN, form : BOOLEAN, creating : BOOLEAN]

\* "prefill": opened from another page with a form to fill in.
InitiativesInit(p, prefill) ==
  /\ page = "initiatives"
  /\ db = FirstRows
  /\ ui = [project |-> p, rows |-> NoRows,
           loading |-> TRUE, form |-> prefill, creating |-> FALSE]
  /\ calls = {Request("loadInitiatives", p, None, {})}

\* The spinner takes the place of the page and of its form.
InitiativesShown == ~ui.loading

InitiativeShown(i) == InitiativesShown /\ ~ui.form /\ ui.rows[i] # 0

\* The address changes: the effect on projectId runs load.  What else it
\* fetches only fills the selects of the form.
GoToInitiatives(p) ==
  /\ p # ui.project
  /\ ui' = [ui EXCEPT !.project = p, !.loading = TRUE]
  /\ Send("loadInitiatives", p, None)
  /\ Calling

\* The list and its summary; an error is a notification.  A create waits.
InitiativesLoaded(c) ==
  /\ ui' = [ui EXCEPT !.loading = FALSE,
                      !.creating = @ /\ c.arg # "create",
                      !.rows = IF c.stage = "ok" THEN c.ans.rows ELSE @]
  /\ Done(c) /\ Handling

OpenInitiativeForm ==
  /\ InitiativesShown /\ ~ui.form
  /\ ui' = [ui EXCEPT !.form = TRUE]
  /\ Local

CloseInitiativeForm ==
  /\ InitiativesShown /\ ui.form
  /\ ui' = [ui EXCEPT !.form = FALSE]
  /\ Local

\* onSubmit of a valid form; the button is disabled while isSubmitting.
CreateInitiative ==
  /\ InitiativesShown /\ ui.form /\ ~ui.creating
  /\ ui' = [ui EXCEPT !.creating = TRUE]
  /\ Send("createInitiative", ui.project, None)
  /\ Calling

\* load() of the render that was clicked: of the project of that time.
InitiativeCreated(c) ==
  /\ IF c.stage = "ok"
     THEN /\ ui' = [ui EXCEPT !.form = FALSE, !.loading = TRUE]
          /\ Then(c, "loadInitiatives", c.on, "create")
     ELSE ui' = [ui EXCEPT !.creating = FALSE] /\ Done(c)
  /\ Handling

MeasureInitiative(i) ==
  /\ InitiativeShown(i)
  /\ Send("measureInitiative", i, ui.project)
  /\ UNCHANGED ui /\ Calling

DeleteInitiative(i) ==
  /\ InitiativeShown(i)
  /\ Send("deleteInitiative", i, ui.project)
  /\ UNCHANGED ui /\ Calling

InitiativeChanged(c) ==
  /\ IF c.stage = "ok"
     THEN ui' = [ui EXCEPT !.loading = TRUE] /\ Then(c, "loadInitiatives", c.arg, None)
     ELSE UNCHANGED ui /\ Done(c)
  /\ Handling

----------------------------------------------------------------------------

\* api/initiatives.py
InitiativesServer(c) ==
  CASE c.op = "loadInitiatives" -> {Outcome(db, [rows |-> RowsOf(c.on, db)])}
    [] c.op = "createInitiative" ->
         {Outcome([db EXCEPT ![i] = 1], Ok) : i \in Vacant(c.on, db)}
    [] OTHER ->
         {IF db[c.on] = 0 THEN NotFound
          ELSE Outcome([db EXCEPT ![c.on] = IF c.op = "deleteInitiative" THEN 0 ELSE @ + 1],
                       Ok)}

InitiativesClicks ==
  \/ \E p \in Projects : GoToInitiatives(p)
  \/ OpenInitiativeForm \/ CloseInitiativeForm \/ CreateInitiative
  \/ \E i \in Items : MeasureInitiative(i) \/ DeleteInitiative(i)

InitiativesAnswers ==
  \/ \E c \in Settled("loadInitiatives") : InitiativesLoaded(c)
  \/ \E c \in Settled("createInitiative") : InitiativeCreated(c)
  \/ \E c \in Settled("measureInitiative") \cup Settled("deleteInitiative") :
       InitiativeChanged(c)

InitiativesNext ==
  /\ page = "initiatives"
  /\ \/ InitiativesClicks
     \/ InitiativesAnswers
     \/ \E c \in calls : \E o \in InitiativesServer(c) : Serve(c, o)

----------------------------------------------------------------------------
(***************************************************************************)
(* pages/InboxPage.tsx: every task of the user with a summary of them (the    *)
(* counts of the tabs), a pane with the selected one, and a form.            *)
(* The summary is shown here as the rows it was counted from.                *)
(***************************************************************************)

InboxUi == [rows : [Items -> Nat], summary : [Items -> Nat], loading : BOOLEAN,
            selected : Items \cup {None}, form : BOOLEAN]

InboxInit ==
  /\ page = "inbox"
  /\ db = FirstRows
  /\ ui = [rows |-> NoRows, summary |-> NoRows, loading |-> TRUE, selected |-> None,
           form |-> FALSE]
  /\ calls = {Request("loadInbox", None, None, {})}

\* The spinner is for an empty list only.
InboxShown == ~(ui.loading /\ ui.rows = NoRows)

InboxLoaded(c) ==
  /\ ui' = IF c.stage = "ok"
           THEN [ui EXCEPT !.loading = FALSE, !.rows = c.ans.rows, !.summary = c.ans.rows]
           ELSE [ui EXCEPT !.loading = FALSE]
  /\ Done(c) /\ Handling

SelectTask(t) ==
  /\ InboxShown /\ ~ui.form /\ ui.rows[t] # 0 /\ ui.selected # t
  /\ ui' = [ui EXCEPT !.selected = t]
  /\ Local

CloseTask ==
  /\ InboxShown /\ ~ui.form /\ ui.selected # None
  /\ ui' = [ui EXCEPT !.selected = None]
  /\ Local

OpenTaskForm ==
  /\ InboxShown /\ ~ui.form
  /\ ui' = [ui EXCEPT !.form = TRUE]
  /\ Local

CloseTaskForm ==
  /\ InboxShown /\ ui.form
  /\ ui' = [ui EXCEPT !.form = FALSE]
  /\ Local

\* updateStatus and deleteTask are called from the pane, with its task.
ActOnTask(op) ==
  /\ InboxShown /\ ~ui.form /\ ui.selected # None
  /\ Send(op, ui.selected, None)
  /\ UNCHANGED ui /\ Calling

\* The pane goes back to the task of the click.
TaskUpdated(c) ==
  /\ IF c.stage = "ok"
     THEN /\ ui' = [ui EXCEPT !.rows[c.on] = IF @ = 0 THEN 0 ELSE c.ans.row,
                              !.selected = c.on]
          /\ Then(c, "loadSummary", None, None)
     ELSE UNCHANGED ui /\ Done(c)
  /\ Handling

\* The pane closes, whichever task it shows by now.
TaskDeleted(c) ==
  /\ IF c.stage = "ok"
     THEN /\ ui' = [ui EXCEPT !.rows[c.on] = 0, !.selected = None]
          /\ Then(c, "loadSummary", None, None)
     ELSE UNCHANGED ui /\ Done(c)
  /\ Handling

\* handleCreate: a title and a project; not kept from starting twice.
CreateTask ==
  /\ InboxShown /\ ui.form
  /\ \E p \in Projects : Send("createTask", p, None)
  /\ UNCHANGED ui /\ Calling

TaskCreated(c) ==
  /\ IF c.stage = "ok"
     THEN /\ ui' = [ui EXCEPT !.rows[c.ans.id] = 1]
          /\ Then(c, "loadSummary", None, "create")
     ELSE UNCHANGED ui /\ Done(c)
  /\ Handling

\* loadSummary keeps the old one when it fails; a create goes on with its form.
SummaryLoaded(c) ==
  /\ ui' = [ui EXCEPT !.summary = IF c.stage = "ok" THEN c.ans.rows ELSE @,
                      !.form = @ /\ c.arg # "create"]
  /\ Done(c) /\ Handling

----------------------------------------------------------------------------

\* api/tasks.py
InboxServer(c) ==
  CASE c.op \in {"loadInbox", "loadSummary"} -> {Outcome(db, [rows |-> db])}
    [] c.op = "createTask" ->
         {Outcome([db EXCEPT ![i] = 1], [id |-> i]) : i \in Vacant(c.on, db)}
    [] OTHER ->
         {IF db[c.on] = 0 THEN NotFound
          ELSE IF c.op = "deleteTask" THEN Outcome([db EXCEPT ![c.on] = 0], Ok)
          ELSE Outcome([db EXCEPT ![c.on] = @ + 1], [row |-> db[c.on] + 1])}

InboxClicks ==
  \/ \E t \in Items : SelectTask(t)
  \/ CloseTask \/ OpenTaskForm \/ CloseTaskForm \/ CreateTask
  \/ \E op \in {"updateTask", "deleteTask"} : ActOnTask(op)

InboxAnswers ==
  \/ \E c \in Settled("loadInbox") : InboxLoaded(c)
  \/ \E c \in Settled("updateTask") : TaskUpdated(c)
  \/ \E c \in Settled("deleteTask") : TaskDeleted(c)
  \/ \E c \in Settled("createTask") : TaskCreated(c)
  \/ \E c \in Settled("loadSummary") : SummaryLoaded(c)

InboxNext ==
  /\ page = "inbox"
  /\ \/ InboxClicks
     \/ InboxAnswers
     \/ \E c \in calls : \E o \in InboxServer(c) : Serve(c, o)

----------------------------------------------------------------------------
(***************************************************************************)
(* pages/TemplatesPage.tsx: every process template, a button that installs    *)
(* the built-in ones, and a form for one's own.  The built-in templates are  *)
(* the items of one project.                                                 *)
(***************************************************************************)

TemplatesUi == [rows : [Items -> Nat], loading : BOOLEAN, form : BOOLEAN, saving : BOOLEAN]

TemplatesInit ==
  /\ page = "templates"
  /\ db = FirstRows
  /\ ui = [rows |-> NoRows, loading |-> TRUE, form |-> FALSE, saving |-> FALSE]
  /\ calls = {Request("loadTemplates", None, None, {})}

\* loadTemplates; the save that waits for it closes the form.
TemplatesLoaded(c) ==
  /\ ui' = [ui EXCEPT !.loading = FALSE,
                      !.form = @ /\ c.arg # "save",
                      !.saving = @ /\ c.arg # "save",
                      !.rows = IF c.stage = "ok" THEN c.ans.rows ELSE @]
  /\ Done(c) /\ Handling

\* handleSeedTemplates
SeedTemplates ==
  /\ ~ui.loading /\ ~ui.form
  /\ Send("seedTemplates", None, None)
  /\ UNCHANGED ui /\ Calling

\* The list is loaded again, not awaited.
TemplatesSeeded(c) ==
  /\ IF c.stage = "ok"
     THEN ui' = [ui EXCEPT !.loading = TRUE] /\ Then(c, "loadTemplates", None, None)
     ELSE UNCHANGED ui /\ Done(c)
  /\ Handling

OpenTemplateForm ==
  /\ ~ui.loading /\ ~ui.form
  /\ ui' = [ui EXCEPT !.form = TRUE]
  /\ Local

CloseTemplateForm ==
  /\ ~ui.loading /\ ui.form
  /\ ui' = [ui EXCEPT !.form = FALSE]
  /\ Local

\* handleCreateTemplate with a name.
CreateTemplate ==
  /\ ~ui.loading /\ ui.form /\ ~ui.saving
  /\ ui' = [ui EXCEPT !.saving = TRUE]
  /\ Send("createTemplate", None, None)
  /\ Calling

TemplateCreated(c) ==
  /\ IF c.stage = "ok"
     THEN ui' = [ui EXCEPT !.loading = TRUE] /\ Then(c, "loadTemplates", None, "save")
     ELSE ui' = [ui EXCEPT !.saving = FALSE] /\ Done(c)
  /\ Handling

----------------------------------------------------------------------------

BuiltIn == {i \in Items : ProjectOf[i] = CHOOSE p \in Projects : TRUE}

\* api/templates.py; seeding adds the built-in templates that are missing.
TemplatesServer(c) ==
  CASE c.op = "loadTemplates" -> {Outcome(db, [rows |-> db])}
    [] c.op = "seedTemplates" ->
         {Outcome([i \in Items |-> IF i \in BuiltIn THEN 1 ELSE db[i]], Ok)}
    [] c.op = "createTemplate" ->
         {Outcome([db EXCEPT ![i] = 1], Ok) : i \in {j \in Items \ BuiltIn : db[j] = 0}}

TemplatesClicks == SeedTemplates \/ OpenTemplateForm \/ CloseTemplateForm \/ CreateTemplate

TemplatesAnswers ==
  \/ \E c \in Settled("loadTemplates") : TemplatesLoaded(c)
  \/ \E c \in Settled("seedTemplates") : TemplatesSeeded(c)
  \/ \E c \in Settled("createTemplate") : TemplateCreated(c)

TemplatesNext ==
  /\ page = "templates"
  /\ \/ TemplatesClicks
     \/ TemplatesAnswers
     \/ \E c \in calls : \E o \in TemplatesServer(c) : Serve(c, o)

----------------------------------------------------------------------------
(***************************************************************************)
(* pages/TaskMiningPage.tsx: the task patterns mined in the project in the    *)
(* address, and the links of the patterns to the activities of an event log.  *)
(* Patterns are known by how often they were mined; a log by its project.    *)
(* The list of recordings is only shown and left out.                        *)
(***************************************************************************)

NoPatterns == [p \in Projects |-> 0]

MiningUi == [project : Projects, patterns : [Projects -> Nat], loading : BOOLEAN,
             mining : BOOLEAN, linking : BOOLEAN, logs : Projects \cup {None},
             log : Projects \cup {None}, links : [of : Projects, log : Projects] \cup {None}]

\* loadPatterns and loadEventLogs of the effect on projectId; "arg" is whether
\* no log is selected at that time.
MiningLoads(p, others) ==
  {Request("loadPatterns", p, None, others),
   Request("loadMiningLogs", p, IF ui.log = None THEN "pick" ELSE None, others)}

MiningInit(p) ==
  /\ page = "mining"
  /\ db = NoPatterns
  /\ ui = [project |-> p, patterns |-> NoPatterns, loading |-> TRUE, mining |-> FALSE,
           linking |-> FALSE, logs |-> None, log |-> None, links |-> None]
  /\ calls = MiningLoads(p, {})

GoToMining(p) ==
  /\ p # ui.project
  /\ ui' = [ui EXCEPT !.project = p, !.loading = TRUE]
  /\ calls' = calls \cup MiningLoads(p, calls)
  /\ clash' = (clash \/ \E c \in calls : c.op \notin Aside)
  /\ Calling

\* A run of the miner waits for the list.
PatternsLoaded(c) ==
  /\ ui' = [ui EXCEPT !.loading = FALSE,
                      !.mining = @ /\ c.arg # "mine",
                      !.patterns = IF c.stage = "ok" THEN c.ans.patterns ELSE @]
  /\ Done(c) /\ Handling

\* The first log is selected when none was at the time of the call.
MiningLogsLoaded(c) ==
  /\ ui' = IF c.stage = "ok"
           THEN [ui EXCEPT !.logs = c.on, !.log = IF c.arg = "pick" THEN c.on ELSE @]
           ELSE ui
  /\ Done(c) /\ Handling

SelectMiningLog ==
  /\ ui.logs # None /\ ui.log # ui.logs
  /\ ui' = [ui EXCEPT !.log = ui.logs]
  /\ Local

\* runMining
MinePatterns ==
  /\ ~ui.mining
  /\ ui' = [ui EXCEPT !.mining = TRUE]
  /\ Send("minePatterns", ui.project, None)
  /\ Calling

\* With no recording there is a message instead of patterns.
PatternsMined(c) ==
  /\ IF c.stage = "ok" /\ ~c.ans.message
     THEN ui' = [ui EXCEPT !.loading = TRUE] /\ Then(c, "loadPatterns", c.on, "mine")
     ELSE ui' = [ui EXCEPT !.mining = FALSE] /\ Done(c)
  /\ Handling

\* runCrossLink
CrossLink ==
  /\ ~ui.linking /\ ui.log # None /\ ui.patterns # NoPatterns
  /\ ui' = [ui EXCEPT !.linking = TRUE]
  /\ Send("crossLink", ui.project, ui.log)
  /\ Calling

CrossLinked(c) ==
  /\ ui' = [ui EXCEPT !.linking = FALSE,
                      !.links = IF c.stage = "ok" THEN [of |-> c.on, log |-> c.arg] ELSE @]
  /\ Done(c) /\ Handling

----------------------------------------------------------------------------

\* api/task_mining.py; mining replaces the patterns of the project.
MiningServer(c) ==
  LET p == c.on
  IN  CASE c.op = "loadPatterns" ->
             {Outcome(db, [patterns |-> [q \in Projects |-> IF q = p THEN db[p] ELSE 0]])}
        [] c.op = "minePatterns" ->
             {Outcome([db EXCEPT ![p] = @ + 1], [message |-> FALSE]),
              Outcome(db, [message |-> TRUE])}
        [] OTHER -> {Outcome(db, Ok)}

MiningClicks ==
  \/ \E p \in Projects : GoToMining(p)
  \/ SelectMiningLog \/ MinePatterns \/ CrossLink

MiningAnswers ==
  \/ \E c \in Settled("loadPatterns") : PatternsLoaded(c)
  \/ \E c \in Settled("loadMiningLogs") : MiningLogsLoaded(c)
  \/ \E c \in Settled("minePatterns") : PatternsMined(c)
  \/ \E c \in Settled("crossLink") : CrossLinked(c)

MiningNext ==
  /\ page = "mining"
  /\ \/ MiningClicks
     \/ MiningAnswers
     \/ \E c \in calls : \E o \in MiningServer(c) : Serve(c, o)

=============================================================================
