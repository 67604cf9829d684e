--------------------------- MODULE LogBuilderPage ---------------------------
(***************************************************************************)
(* pages/EventLogBuilderPage.tsx: tables are uploaded, joined and turned into *)
(* an event log.  A table is an item and stands for the column of it that can *)
(* be a case id, a time or an object type; "pack" is a column a content pack  *)
(* names.                                                                    *)
(***************************************************************************)
EXTENDS Spa, Sequences

Columns == Items \cup {"pack"}

Source == [table : Items, left : Items \cup {None}, right : BOOLEAN]

BuilderUi == [sources : Seq(Source), uploading : BOOLEAN, building : BOOLEAN,
              mode : {"standard", "ocel"}, caseId : Columns \cup {None},
              objects : SUBSET Items, events : SUBSET (Columns \cup {None}),
              packs : BOOLEAN, pack : BOOLEAN,
              suggesting : BOOLEAN, note : BOOLEAN, left : BOOLEAN]

\* db.staged: the uploaded tables; db.stale: the user has started over while an
\* answer was awaited, or removed a table.
BuilderInit ==
  /\ page = "builder"
  /\ db = [staged |-> {}, stale |-> FALSE]
  /\ ui = [sources |-> <<>>, uploading |-> FALSE, building |-> FALSE, mode |-> "standard",
           caseId |-> None, objects |-> {}, events |-> {}, packs |-> FALSE, pack |-> FALSE,
           suggesting |-> FALSE, note |-> FALSE, left |-> FALSE]
  /\ calls = {Request("loadPacks", None, None, {})}

PacksLoaded(c) ==
  /\ ui' = IF c.stage = "ok" THEN [ui EXCEPT !.packs = TRUE] ELSE ui
  /\ Done(c) /\ Handling

TablesOf(sources) == {sources[k].table : k \in DOMAIN sources}

WideColumns == TablesOf(ui.sources)

\* The spinner of an upload takes the place of the page.
BuilderShown == ~ui.uploading /\ ~ui.left

Configuring == BuilderShown /\ ui.sources # <<>>

\* The file of handleUpload or handleAddSource.
ChooseFile(t) ==
  /\ BuilderShown /\ t \notin WideColumns \cup db.staged
  /\ ui' = [ui EXCEPT !.uploading = TRUE, !.note = @ /\ ui.sources # <<>>]
  /\ Send("uploadRaw", t, [cols |-> WideColumns, mode |-> ui.mode])
  /\ Calling

\* handleUpload asks for a mapping, or takes the times as events.
FirstUploaded(c) ==
  /\ ui' = [ui EXCEPT !.uploading = FALSE,
                      !.sources = <<[table |-> c.on, left |-> None, right |-> FALSE]>>,
                      !.suggesting = @ \/ c.arg.mode = "standard",
                      !.events = IF c.arg.mode = "ocel" THEN {c.on} ELSE @]
  /\ IF c.arg.mode = "ocel" THEN Done(c)
     ELSE Then(c, "suggestMapping", None, [cols |-> {c.on}, table |-> c.on])

\* handleAddSource: joined by a column the tables of the click share, if any.
NextUploaded(c) ==
  \E shared \in c.arg.cols \cup {None} :
    /\ ui' = [ui EXCEPT !.uploading = FALSE,
                        !.sources = Append(@, [table |-> c.on, left |-> shared,
                                               right |-> shared # None])]
    /\ Done(c)

TableUploaded(c) ==
  /\ \/ c.stage = "failed" /\ ui' = [ui EXCEPT !.uploading = FALSE] /\ Done(c)
     \/ c.stage = "ok" /\ c.arg.cols = {} /\ FirstUploaded(c)
     \/ c.stage = "ok" /\ c.arg.cols # {} /\ NextUploaded(c)
  /\ Handling

\* Any but the first; what refers to its columns stays.
RemoveSource(k) ==
  /\ Configuring /\ k \in 2..Len(ui.sources)
  /\ ui' = [ui EXCEPT !.sources = SubSeq(@, 1, k - 1) \o SubSeq(@, k + 1, Len(@))]
  /\ db' = [db EXCEPT !.stale = TRUE]
  /\ Click /\ UNCHANGED <<page, calls, faults, clash>>

\* The left column is one of the tables before.
SetJoin(k, column) ==
  /\ Configuring /\ k \in 2..Len(ui.sources)
  /\ column \in TablesOf(SubSeq(ui.sources, 1, k - 1)) \cup {None}
  /\ ui.sources[k].left # column
  /\ ui' = [ui EXCEPT !.sources[k].left = column, !.sources[k].right = TRUE]
  /\ Local

ResetBuilder ==
  /\ Configuring
  /\ ui' = [ui EXCEPT !.sources = <<>>, !.events = {}, !.caseId = None, !.objects = {},
                      !.pack = FALSE, !.note = FALSE]
  /\ db' = [db EXCEPT !.stale = @ \/ calls # {}]
  /\ Click /\ UNCHANGED <<page, calls, faults, clash>>

\* applyRecipe and clearRecipe
ApplyPack ==
  /\ Configuring /\ ui.packs
  /\ ui' = [ui EXCEPT !.pack = TRUE, !.mode = "standard", !.caseId = "pack",
                      !.events = {"pack"}]
  /\ Local

ClearPack == Configuring /\ ui.pack /\ ui' = [ui EXCEPT !.pack = FALSE] /\ Local

SetBuildMode ==
  /\ Configuring
  /\ ui' = [ui EXCEPT !.mode = IF @ = "ocel" THEN "standard" ELSE "ocel"]
  /\ Local

ToggleObjectType(column) ==
  /\ Configuring /\ ui.mode = "ocel" /\ column \in WideColumns
  /\ ui' = [ui EXCEPT !.objects = IF column \in @ THEN @ \ {column} ELSE @ \cup {column}]
  /\ Local

SetCaseId(column) ==
  /\ Configuring /\ ui.mode = "standard" /\ column \in WideColumns /\ ui.caseId # column
  /\ ui' = [ui EXCEPT !.caseId = column]
  /\ Local

AddEvent ==
  /\ Configuring /\ None \notin ui.events
  /\ ui' = [ui EXCEPT !.events = @ \cup {None}]
  /\ Local

UpdateEvent(old, column) ==
  /\ Configuring /\ old \in ui.events /\ column \in WideColumns \ ui.events
  /\ ui' = [ui EXCEPT !.events = (@ \ {old}) \cup {column}]
  /\ Local

RemoveEvent(old) ==
  /\ Configuring /\ old \in ui.events
  /\ ui' = [ui EXCEPT !.events = @ \ {old}]
  /\ Local

SuggestMapping ==
  /\ Configuring /\ ui.mode = "standard" /\ ~ui.pack /\ ~ui.suggesting
  /\ ui' = [ui EXCEPT !.suggesting = TRUE]
  /\ Send("suggestMapping", None, [cols |-> WideColumns, table |-> ui.sources[1].table])
  /\ Calling

\* applySuggestion writes over what has been chosen meanwhile.
MappingSuggested(c) ==
  /\ ui' = IF c.stage = "failed" THEN [ui EXCEPT !.suggesting = FALSE]
           ELSE [ui EXCEPT !.suggesting = FALSE, !.note = TRUE,
                           !.caseId = IF c.ans.case THEN c.arg.table ELSE @,
                           !.events = IF c.ans.time THEN c.arg.cols ELSE @]
  /\ Done(c) /\ Handling

JoinsConfigured ==
  \A k \in 2..Len(ui.sources) : ui.sources[k].left # None /\ ui.sources[k].right

CanBuild ==
  /\ JoinsConfigured
  /\ IF ui.mode = "ocel" THEN ui.objects # {} ELSE ui.caseId # None
  /\ ui.events # {} /\ None \notin ui.events

\* handleBuild
BuildLog ==
  /\ Configuring /\ CanBuild /\ ~ui.building
  /\ ui' = [ui EXCEPT !.building = TRUE]
  /\ Send("buildLog", None,
          [sources |-> ui.sources, events |-> ui.events,
           keys |-> IF ui.mode = "ocel" THEN ui.objects ELSE {ui.caseId}])
  /\ Calling

LogBuilt(c) ==
  /\ ui' = IF c.stage = "ok" THEN [ui EXCEPT !.building = FALSE, !.left = TRUE]
           ELSE [ui EXCEPT !.building = FALSE]
  /\ Done(c) /\ Handling

\* The tables are there to be built from, and the mapping is of their columns.
BuilderFollows ==
  /\ WideColumns \subseteq db.staged
  /\ db.stale \/ {ui.caseId} \cup ui.objects \cup ui.events
                   \subseteq WideColumns \cup {None, "pack"}

----------------------------------------------------------------------------

\* Every table is still there and every column is one of theirs.
Buildable(spec) ==
  LET tables == TablesOf(spec.sources)
  IN  /\ tables \subseteq db.staged
      /\ spec.events \cup spec.keys \subseteq tables
      /\ \A k \in 2..Len(spec.sources) :
           spec.sources[k].left \in TablesOf(SubSeq(spec.sources, 1, k - 1))

\* api/log_builder.py; a build that succeeds removes its tables.
BuilderServer(c) ==
  CASE c.op = "loadPacks" -> {Outcome(db, Ok)}
    [] c.op = "uploadRaw" -> {Outcome([db EXCEPT !.staged = @ \cup {c.on}], Ok)}
    [] c.op = "suggestMapping" ->
         IF c.arg.table \in db.staged
         THEN {Outcome(db, [case |-> k, time |-> t]) : k, t \in BOOLEAN}
         ELSE {NotFound}
    [] c.op = "buildLog" ->
         {IF Buildable(c.arg)
          THEN Outcome([db EXCEPT !.staged = @ \ TablesOf(c.arg.sources)], Ok)
          ELSE NotFound}

BuilderClicks ==
  \/ \E t \in Items : ChooseFile(t)
  \/ \E k \in 2..Len(ui.sources) : RemoveSource(k) \/ \E t \in Items \cup {None} : SetJoin(k, t)
  \/ ResetBuilder \/ ApplyPack \/ ClearPack \/ SetBuildMode \/ SuggestMapping
  \/ \E t \in Items : ToggleObjectType(t) \/ SetCaseId(t)
  \/ AddEvent \/ BuildLog
  \/ \E old \in ui.events : RemoveEvent(old) \/ \E t \in Items : UpdateEvent(old, t)

BuilderAnswers ==
  \/ \E c \in Settled("loadPacks") : PacksLoaded(c)
  \/ \E c \in Settled("uploadRaw") : TableUploaded(c)
  \/ \E c \in Settled("suggestMapping") : MappingSuggested(c)
  \/ \E c \in Settled("buildLog") : LogBuilt(c)

BuilderNext ==
  /\ page = "builder"
  /\ \/ BuilderClicks
     \/ BuilderAnswers
     \/ \E c \in calls : \E o \in BuilderServer(c) : Serve(c, o)

=============================================================================
