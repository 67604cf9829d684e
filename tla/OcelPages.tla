----------------------------- MODULE OcelPages ------------------------------
(***************************************************************************)
(* pages/OCPMPage.tsx: an object-centric log is named by the address,         *)
(* uploaded, or converted from an event log; its summary is loaded and its    *)
(* graph discovered.  An object-centric log is one of Projects, an event log  *)
(* an item.  The two addresses of the page are one mounted page.             *)
(***************************************************************************)
EXTENDS Spa

OcpmUi == [route : Projects \cup {None}, left : BOOLEAN, logsLoading : BOOLEAN,
           logs : BOOLEAN, picked : Items \cup {None}, columns : BOOLEAN,
           uploading : BOOLEAN, converting : BOOLEAN, discovering : BOOLEAN,
           summary : Projects \cup {None}, dfg : Projects \cup {None},
           tab : {"overview", "analysis", "improvements"}]

\* The effect on the address; a summary that is there makes it do nothing.
AutoLoad(u, others) ==
  IF u.route = None \/ u.summary # None
  THEN ui' = u /\ calls' = others /\ UNCHANGED clash
  ELSE /\ ui' = [u EXCEPT !.discovering = TRUE]
       /\ SendAlso("getSummary", u.route, "route", others)

OcpmInit(route) ==
  /\ page = "ocpm"
  /\ db = IF route = None THEN {} ELSE {route}
  /\ ui = [route |-> route, left |-> FALSE, logsLoading |-> TRUE, logs |-> FALSE,
           picked |-> None, columns |-> FALSE, uploading |-> FALSE, converting |-> FALSE,
           discovering |-> route # None, summary |-> None, dfg |-> None,
           tab |-> "overview"]
  /\ LET loads == {Request("loadOcpmLogs", None, None, {})}
     IN  calls = IF route = None THEN loads
                 ELSE loads \cup {Request("getSummary", route, "route", loads)}

\* Links, and the browser's back and forward.
VisitOcpm(route) ==
  /\ ~ui.left /\ route # ui.route /\ route \in db \cup {None}
  /\ AutoLoad([ui EXCEPT !.route = route], calls) /\ Calling

OcpmLogsLoaded(c) ==
  /\ ui' = [ui EXCEPT !.logsLoading = FALSE, !.logs = @ \/ c.stage = "ok"]
  /\ Done(c) /\ Handling

\* The panels to upload and to convert; a spinner stands for them as long as the
\* address names a log.
EntryPanels == ~ui.left /\ ui.summary = None /\ ui.route = None /\ ~ui.discovering

\* A file dropped is taken while another is uploaded.
UploadOcel ==
  /\ EntryPanels
  /\ ui' = [ui EXCEPT !.uploading = TRUE] /\ Send("uploadOcel", None, "upload")
  /\ Calling

PickLog(log) ==
  /\ EntryPanels /\ ~ui.logsLoading /\ ui.logs
  /\ ui' = [ui EXCEPT !.picked = log, !.columns = FALSE] /\ Local

PickColumns ==
  /\ EntryPanels /\ ui.picked # None
  /\ ui' = [ui EXCEPT !.columns = ~@] /\ Local

Convert ==
  /\ EntryPanels /\ ui.picked # None /\ ui.columns /\ ~ui.converting
  /\ ui' = [ui EXCEPT !.converting = TRUE] /\ Send("convertLog", ui.picked, "convert")
  /\ Calling

\* The flag of the handler that a call belongs to.
Through(u, handler) ==
  [u EXCEPT !.uploading = @ /\ handler # "upload",
            !.converting = @ /\ handler # "convert"]

\* The new log's id, with which its summary is loaded.
OcelStored(c) ==
  /\ IF c.stage = "ok"
     THEN ui' = ui /\ Then(c, "getSummary", c.ans.id, c.arg)
     ELSE ui' = Through(ui, c.arg) /\ Done(c)
  /\ Handling

\* handleSummaryLoaded
OcelSummaryLoaded(c) ==
  /\ IF c.stage = "ok"
     THEN /\ ui' = [ui EXCEPT !.summary = c.on, !.dfg = None, !.discovering = TRUE]
          /\ Then(c, "discoverOcel", c.on, c.arg)
     ELSE /\ ui' = [Through(ui, c.arg) EXCEPT !.discovering = @ /\ c.arg # "route"]
          /\ Done(c)
  /\ Handling

OcelDiscovered(c) ==
  /\ ui' = [Through(ui, c.arg) EXCEPT !.dfg = IF c.stage = "ok" THEN c.on ELSE @,
                                      !.discovering = FALSE]
  /\ Done(c) /\ Handling

OcelShown == ~ui.left /\ ui.summary # None

\* Every type is a button of its own.
Flatten ==
  /\ OcelShown /\ ui.tab = "overview"
  /\ UNCHANGED ui /\ Send("flatten", ui.summary, "flatten") /\ Calling

\* The flattened log is opened, even after another summary was.
Flattened(c) ==
  /\ ui' = [ui EXCEPT !.left = @ \/ c.stage = "ok"] /\ Done(c) /\ Handling

SetPageTab(tab) ==
  /\ OcelShown /\ tab # ui.tab /\ ui' = [ui EXCEPT !.tab = tab] /\ Local

ResetOcel ==
  /\ OcelShown
  /\ ui' = [ui EXCEPT !.summary = None, !.dfg = None, !.tab = "overview"]
  /\ Local

----------------------------------------------------------------------------

OcpmServer(c) ==
  \/ /\ c.op \in {"uploadOcel", "convertLog"}
     /\ \E id \in Projects \ db : Serve(c, Outcome(db \cup {id}, [id |-> id]))
  \/ c.op = "flatten" /\ Serve(c, Outcome(db, Ok))

OcpmClicks ==
  \/ \E route \in Projects \cup {None} : VisitOcpm(route)
  \/ \E log \in Existing : PickLog(log)
  \/ \E tab \in {"overview", "analysis", "improvements"} : SetPageTab(tab)
  \/ UploadOcel \/ PickColumns \/ Convert \/ Flatten \/ ResetOcel

OcpmAnswers ==
  \/ \E c \in Settled("loadOcpmLogs") : OcpmLogsLoaded(c)
  \/ \E c \in Settled("uploadOcel") \cup Settled("convertLog") : OcelStored(c)
  \/ \E c \in Settled("getSummary") : OcelSummaryLoaded(c)
  \/ \E c \in Settled("discoverOcel") : OcelDiscovered(c)
  \/ \E c \in Settled("flatten") : Flattened(c)

OcpmNext ==
  page = "ocpm" /\ (OcpmClicks \/ OcpmAnswers \/ \E c \in calls : OcpmServer(c))

\* The graph is the one of the log whose summary is shown, and that log is stored.
OcpmFollows == ui.summary # None => ui.dfg = ui.summary /\ ui.summary \in db

----------------------------------------------------------------------------
(***************************************************************************)
(* pages/BenchmarkPage.tsx: logs of a project side by side.  Every change of  *)
(* the selection computes the comparison again; a slice of an object-centric  *)
(* log is flattened when it is first chosen.                                 *)
(***************************************************************************)

\* The logs with a case column are those that exist at the start; the others
\* are the slices of object-centric logs, by the flat log they become.
Slices == Items \ Existing

LogsIn(p) == {i \in Existing : ProjectOf[i] = p}

\* The comparison is known by the logs it compares.
BenchmarkUi ==
  [project : Projects, logs : Projects \cup {None}, selected : SUBSET Items,
   result : SUBSET Items, loading : BOOLEAN, running : BOOLEAN, error : BOOLEAN,
   flattening : SUBSET Slices, flat : SUBSET Slices]

BenchmarkInit(p) ==
  /\ page = "benchmark"
  /\ db = {}
  /\ ui = [project |-> p, logs |-> None, selected |-> {}, result |-> {},
           loading |-> TRUE, running |-> FALSE, error |-> FALSE, flattening |-> {}, flat |-> {}]
  /\ calls = {Request("loadEventLogs", p, None, {})}

BenchmarkShown == ~ui.loading /\ ~ui.error

\* runBenchmark, with the calls that stay in flight.
Compare(new, others) ==
  IF new.selected = {}
  THEN ui' = [new EXCEPT !.result = {}] /\ calls' = others /\ UNCHANGED clash
  ELSE /\ ui' = [new EXCEPT !.running = TRUE, !.error = FALSE]
       /\ SendAlso("benchmark", "selection", [of |-> new.selected], others)

\* The effect of the selection.
Reselected(new, others) ==
  IF new.selected # ui.selected THEN Compare(new, others)
  ELSE ui' = new /\ calls' = others /\ UNCHANGED clash

\* At most four are chosen at first.
BenchmarkLogsLoaded(c) ==
  /\ IF c.stage = "ok"
     THEN \E first \in SUBSET LogsIn(c.on) :
            /\ Cardinality(first) = IF Cardinality(LogsIn(c.on)) < 4
                                    THEN Cardinality(LogsIn(c.on)) ELSE 4
            /\ Reselected([ui EXCEPT !.loading = FALSE, !.logs = c.on, !.selected = first],
                          calls \ {c})
     ELSE ui' = [ui EXCEPT !.loading = FALSE] /\ Done(c)
  /\ Handling

\* The page stays mounted for another project, with its slices and selection.
OpenBenchmark(p) ==
  /\ p # ui.project
  /\ ui' = [ui EXCEPT !.project = p]
  /\ Send("loadEventLogs", p, None)
  /\ Calling

Toggled(set, i) == IF i \in set THEN set \ {i} ELSE set \cup {i}

ToggleLog(i) ==
  /\ BenchmarkShown /\ ui.logs # None /\ i \in LogsIn(ui.logs)
  /\ Reselected([ui EXCEPT !.selected = Toggled(@, i)], calls)
  /\ Calling

\* toggleOcelSlice: flattened before, it is chosen or dropped at once.
ToggleSlice(s) ==
  /\ BenchmarkShown /\ ProjectOf[s] = ui.logs /\ s \notin ui.flattening
  /\ IF s \in ui.flat
     THEN Reselected([ui EXCEPT !.selected = Toggled(@, s)], calls)
     ELSE /\ ui' = [ui EXCEPT !.flattening = @ \cup {s}]
          /\ Send("flattenSlice", s, None)
  /\ Calling

SliceFlattened(c) ==
  LET idle == [ui EXCEPT !.flattening = @ \ {c.on}]
  IN /\ IF c.stage = "ok"
        THEN Reselected([idle EXCEPT !.flat = @ \cup {c.on}, !.selected = @ \cup {c.on}],
                        calls \ {c})
        ELSE ui' = idle /\ Done(c)
     /\ Handling

\* No later request is waited for: the first answer stops the spinner.
Benchmarked(c) ==
  /\ ui' = [ui EXCEPT !.running = FALSE, !.error = (c.stage = "failed"),
                      !.result = IF c.stage = "ok" THEN c.arg.of ELSE {}]
  /\ Done(c) /\ Handling

RetryBenchmark ==
  /\ ui.error /\ ~ui.loading
  /\ Compare(ui, calls)
  /\ Calling

----------------------------------------------------------------------------

\* list_event_logs leaves out hidden logs; flatten_ocel makes one of a slice, or
\* replaces the one it made before.
BenchmarkServer(c) ==
  {Outcome(IF c.op = "flattenSlice" THEN db \cup {c.on} ELSE db, Ok)}

BenchmarkClicks ==
  \/ \E p \in Projects : OpenBenchmark(p)
  \/ \E i \in Existing : ToggleLog(i)
  \/ \E s \in Slices : ToggleSlice(s)
  \/ RetryBenchmark

BenchmarkAnswers ==
  \/ \E c \in Settled("loadEventLogs") : BenchmarkLogsLoaded(c)
  \/ \E c \in Settled("flattenSlice") : SliceFlattened(c)
  \/ \E c \in Settled("benchmark") : Benchmarked(c)

BenchmarkNext ==
  /\ page = "benchmark"
  /\ \/ BenchmarkClicks
     \/ BenchmarkAnswers
     \/ \E c \in calls : \E o \in BenchmarkServer(c) : Serve(c, o)

\* What is compared is what is chosen; with nothing chosen, a late answer may stay.
BenchmarkFollows ==
  /\ ui.logs = ui.project
  /\ ui.selected = {} \/ ui.result = ui.selected
  /\ ui.selected \cap Slices \subseteq ui.flat /\ ui.flat = db

=============================================================================
