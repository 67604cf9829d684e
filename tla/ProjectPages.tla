---------------------------- MODULE ProjectPages ----------------------------
(***************************************************************************)
(* pages/ProjectsPage.tsx with store/projectsStore.ts: every project of the   *)
(* user; create, sample data, import, export, delete.  Items stand for       *)
(* projects here.  ui.left: the user has been taken to another page.         *)
(***************************************************************************)
EXTENDS Spa, Sequences

ProjectsUi == [rows : [Items -> Nat], loading : BOOLEAN, form : BOOLEAN, creating : BOOLEAN,
               seeding : BOOLEAN, importing : BOOLEAN, exporting : Items \cup {None},
               left : BOOLEAN]

ProjectsInit ==
  /\ page = "projects"
  /\ db = FirstRows
  /\ ui = [rows |-> NoRows, loading |-> TRUE, form |-> FALSE, creating |-> FALSE,
           seeding |-> FALSE, importing |-> FALSE, exporting |-> None, left |-> FALSE]
  /\ calls = {Request("fetchProjects", None, None, {})}

\* The spinner is for an empty list only.
ProjectsShown == ~ui.left /\ ~(ui.loading /\ ui.rows = NoRows)

\* fetchProjects of the store keeps its error: what waits for it goes on.
ProjectsFetched(c) ==
  /\ ui' = [ui EXCEPT !.loading = FALSE,
                      !.importing = @ /\ c.arg # "import",
                      !.rows = IF c.stage = "ok" THEN c.ans.rows ELSE @]
  /\ IF c.arg \in Items THEN Then(c, "sampleLogs", c.arg, None) ELSE Done(c)
  /\ Handling

OpenProjectForm ==
  /\ ProjectsShown /\ ~ui.form
  /\ ui' = [ui EXCEPT !.form = TRUE]
  /\ Local

CloseProjectForm ==
  /\ ProjectsShown /\ ui.form
  /\ ui' = [ui EXCEPT !.form = FALSE]
  /\ Local

\* handleCreate: the button is disabled while one is under way, the Enter key
\* of the name field is not.
CreateProject(enter) ==
  /\ ProjectsShown /\ ui.form
  /\ enter \/ ~ui.creating
  /\ ui' = [ui EXCEPT !.creating = TRUE]
  /\ Send("createProject", None, None)
  /\ Calling

\* Added to the projects of that time, then on to its page.
ProjectCreated(c) ==
  /\ ui' = IF c.stage = "ok"
           THEN [ui EXCEPT !.rows[c.ans.id] = 1, !.form = FALSE, !.creating = FALSE,
                           !.left = TRUE]
           ELSE [ui EXCEPT !.creating = FALSE]
  /\ Done(c) /\ Handling

\* handleSeedSample
SeedSample ==
  /\ ProjectsShown /\ ~ui.form /\ ~ui.seeding
  /\ ui' = [ui EXCEPT !.seeding = TRUE]
  /\ Send("seedSample", None, None)
  /\ Calling

SampleSeeded(c) ==
  /\ IF c.stage = "ok"
     THEN ui' = [ui EXCEPT !.loading = TRUE] /\ Then(c, "fetchProjects", None, c.ans.id)
     ELSE ui' = [ui EXCEPT !.seeding = FALSE] /\ Done(c)
  /\ Handling

\* To the map of the sample's log, or to the project when that fails.
SampleLogsListed(c) ==
  /\ ui' = [ui EXCEPT !.seeding = FALSE, !.left = TRUE]
  /\ Done(c) /\ Handling

\* handleImportFile; a file that is no manifest is refused before the call.
ImportProject ==
  /\ ProjectsShown /\ ~ui.form /\ ~ui.importing
  /\ ui' = [ui EXCEPT !.importing = TRUE]
  /\ Send("importProject", None, None)
  /\ Calling

ProjectImported(c) ==
  /\ IF c.stage = "ok"
     THEN ui' = [ui EXCEPT !.loading = TRUE] /\ Then(c, "fetchProjects", None, "import")
     ELSE ui' = [ui EXCEPT !.importing = FALSE] /\ Done(c)
  /\ Handling

ExportProject(i) ==
  /\ ProjectsShown /\ ~ui.form /\ ui.rows[i] # 0 /\ ui.exporting # i
  /\ ui' = [ui EXCEPT !.exporting = i]
  /\ Send("exportProject", i, None)
  /\ Calling

ProjectExported(c) ==
  /\ ui' = [ui EXCEPT !.exporting = None]
  /\ Done(c) /\ Handling

DeleteProject(i) ==
  /\ ProjectsShown /\ ~ui.form /\ ui.rows[i] # 0
  /\ Send("deleteProject", i, None)
  /\ UNCHANGED ui /\ Calling

ProjectDeleted(c) ==
  /\ ui' = IF c.stage = "ok" THEN [ui EXCEPT !.rows[c.on] = 0] ELSE ui
  /\ Done(c) /\ Handling

----------------------------------------------------------------------------

\* api/projects.py and api/project_io.py
ProjectsServer(c) ==
  CASE c.op = "fetchProjects" -> {Outcome(db, [rows |-> db])}
    [] c.op \in {"createProject", "seedSample", "importProject"} ->
         {Outcome([db EXCEPT ![i] = 1], [id |-> i]) : i \in {j \in Items : db[j] = 0}}
    [] OTHER ->
         {IF db[c.on] = 0 THEN NotFound
          ELSE Outcome(IF c.op = "deleteProject" THEN [db EXCEPT ![c.on] = 0] ELSE db, Ok)}

ProjectsClicks ==
  \/ OpenProjectForm \/ CloseProjectForm \/ SeedSample \/ ImportProject
  \/ \E enter \in BOOLEAN : CreateProject(enter)
  \/ \E i \in Items : ExportProject(i) \/ DeleteProject(i)

ProjectsAnswers ==
  \/ \E c \in Settled("fetchProjects") : ProjectsFetched(c)
  \/ \E c \in Settled("createProject") : ProjectCreated(c)
  \/ \E c \in Settled("seedSample") : SampleSeeded(c)
  \/ \E c \in Settled("sampleLogs") : SampleLogsListed(c)
  \/ \E c \in Settled("importProject") : ProjectImported(c)
  \/ \E c \in Settled("exportProject") : ProjectExported(c)
  \/ \E c \in Settled("deleteProject") : ProjectDeleted(c)

ProjectsNext ==
  /\ page = "projects"
  /\ \/ ProjectsClicks
     \/ ProjectsAnswers
     \/ \E c \in calls : \E o \in ProjectsServer(c) : Serve(c, o)

----------------------------------------------------------------------------
(***************************************************************************)
(* pages/ProjectDetailPage.tsx and store/eventLogsStore.ts: the logs of a     *)
(* project, asked for again every three seconds while one is processed.       *)
(***************************************************************************)

\* A log that does not exist, is processed, or no longer is: ready or in error.
LogStates == 0..2

Processing == 1

\* "maps" are the statuses that each interval so far knows of, the last one of the
\* running interval, if any; "told" counts what was announced of each log.
ProjectUi == [left : BOOLEAN, address : Projects, project : Projects \cup {None},
              loading : BOOLEAN, rows : [Items -> LogStates], listing : BOOLEAN,
              maps : Seq([Items -> LogStates]),
              watching : BOOLEAN, told : [Items -> 0..2]]

ProjectInit(p) ==
  /\ page = "project"
  /\ db = FirstRows
  /\ ui = [left |-> FALSE, address |-> p, project |-> None, loading |-> TRUE,
           rows |-> NoRows, listing |-> TRUE, maps |-> <<>>, watching |-> FALSE,
           told |-> [i \in Items |-> 0]]
  /\ LET first == Request("getProject", p, None, {})
     IN  calls = {first, Request("listLogs", p, [map |-> 0], {first})}

\* The effect that sets the interval; "anew" when the address has changed.
Watch(u, anew) ==
  LET busy == \E i \in Items : u.rows[i] = Processing
  IN  IF busy /\ (anew \/ ~u.watching)
      THEN [u EXCEPT !.watching = TRUE, !.maps = Append(@, u.rows)]
      ELSE [u EXCEPT !.watching = busy]

\* Bound of the calls in flight when another address is opened.
MaxInFlight == 1

\* Another project's address.
OpenProject(p) ==
  LET u == [ui EXCEPT !.address = p, !.loading = TRUE, !.listing = TRUE]
      g == Request("getProject", p, None, calls)
  IN  /\ ~ui.left /\ p # ui.address /\ Cardinality(calls) <= MaxInFlight
      /\ ui' = Watch(u, TRUE)
      /\ calls' = calls \cup {g, Request("listLogs", p, [map |-> 0], calls \cup {g})}
      /\ clash' = (clash \/ calls # {})
      /\ Calling

\* loadProject; a project that cannot be loaded leads back to the projects.
ProjectKnown(c) ==
  /\ ui' = IF ui.left THEN ui
           ELSE IF c.stage = "ok"
           THEN [ui EXCEPT !.project = c.on, !.loading = FALSE]
           ELSE [ui EXCEPT !.loading = FALSE, !.left = TRUE, !.watching = FALSE]
  /\ Done(c) /\ Handling

\* The list, and what the interval that asked for it has to tell; on a failure the
\* list that is there is compared.
LogsKnown(c) ==
  LET rows == IF c.stage = "ok" THEN c.ans.rows ELSE ui.rows
      u    == Watch([ui EXCEPT !.rows = rows, !.listing = FALSE], FALSE)
      k    == c.arg.map
      Flipped(i) == ui.maps[k][i] = Processing /\ rows[i] = 2
  IN  /\ ui' = IF ui.left THEN ui
               ELSE IF k = 0 THEN u
               ELSE [u EXCEPT !.maps[k] = [i \in Items |-> IF rows[i] = 0 THEN @[i] ELSE rows[i]],
                              !.told = [i \in Items |-> IF Flipped(i) THEN @[i] + 1 ELSE @[i]]]
      /\ Done(c) /\ Handling

\* The interval's tick.
Poll ==
  /\ ~ui.left /\ ui.watching
  /\ ui' = [ui EXCEPT !.listing = TRUE]
  /\ Send("listLogs", ui.address, [map |-> Len(ui.maps)]) /\ Calling

ProjectShown == ~ui.left /\ ~ui.loading /\ ui.project # None

\* Once confirmed.
DeleteLog(i) ==
  /\ ProjectShown /\ ui.rows[i] # 0
  /\ UNCHANGED ui /\ Send("deleteLog", i, None) /\ Calling

LogDeleted(c) ==
  /\ ui' = IF ui.left \/ c.stage = "failed" THEN ui
           ELSE Watch([ui EXCEPT !.rows[c.on] = 0], FALSE)
  /\ Done(c) /\ Handling

\* A tool, a log that is ready, the projects; the interval is cleared.
LeaveProject ==
  /\ ProjectShown /\ ui' = [ui EXCEPT !.left = TRUE, !.watching = FALSE] /\ Local

----------------------------------------------------------------------------

\* The worker is through with a log.
Finish(i) ==
  /\ db[i] = Processing
  /\ db' = [db EXCEPT ![i] = 2]
  /\ Click /\ UNCHANGED <<page, ui, calls, faults, clash>>

ProjectServer(c) ==
  \/ c.op = "getProject" /\ Serve(c, Outcome(db, Ok))
  \/ c.op = "listLogs" /\ Serve(c, Outcome(db, [rows |-> RowsOf(c.on, db)]))
  \/ /\ c.op = "deleteLog"
     /\ Serve(c, IF db[c.on] = 0 THEN NotFound ELSE Outcome([db EXCEPT ![c.on] = 0], Ok))

\* The logs of the address, but for those still being asked about; what was
\* processed before the eyes of the user was told once.
ProjectFollows ==
  \/ ui.left
  \/ /\ ui.project = ui.address
     /\ ui.watching = (\E i \in Items : ui.rows[i] = Processing)
     /\ \A i \in Items : /\ ui.rows[i] \in {RowsOf(ui.address, db)[i], Processing}
                         /\ ui.told[i] <= 1

ProjectClicks ==
  \/ \E p \in Projects : OpenProject(p)
  \/ \E i \in Items : DeleteLog(i) \/ Finish(i)
  \/ Poll \/ LeaveProject

ProjectAnswers ==
  \/ \E c \in Settled("getProject") : ProjectKnown(c)
  \/ \E c \in Settled("listLogs") : LogsKnown(c)
  \/ \E c \in Settled("deleteLog") : LogDeleted(c)

ProjectNext ==
  /\ page = "project"
  /\ \/ ProjectClicks \/ ProjectAnswers \/ \E c \in calls : ProjectServer(c)

=============================================================================
