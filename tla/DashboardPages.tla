--------------------------- MODULE DashboardPages ---------------------------
(***************************************************************************)
(* pages/DashboardsPage.tsx: every dashboard of the user; create, which goes  *)
(* on to the new one's page, and delete.                                     *)
(***************************************************************************)
EXTENDS Spa

\* The lists of the application are finite.
ASSUME RowsAssumption == IsFiniteSet(Items)

DashboardsUi == [rows : [Items -> Nat], loading : BOOLEAN, form : BOOLEAN,
                 creating : BOOLEAN, left : BOOLEAN]

DashboardsInit ==
  /\ page = "dashboards"
  /\ db = FirstRows
  /\ ui = [rows |-> NoRows, loading |-> TRUE, form |-> FALSE, creating |-> FALSE,
           left |-> FALSE]
  /\ calls = {Request("loadDashboards", None, None, {})}

DashboardsLoaded(c) ==
  /\ ui' = [ui EXCEPT !.loading = FALSE,
                      !.rows = IF c.stage = "ok" THEN c.ans.rows ELSE @]
  /\ Done(c) /\ Handling

OpenDashboardForm ==
  /\ ~ui.left /\ ~ui.loading /\ ~ui.form
  /\ ui' = [ui EXCEPT !.form = TRUE]
  /\ Local

CloseDashboardForm ==
  /\ ~ui.left /\ ui.form
  /\ ui' = [ui EXCEPT !.form = FALSE]
  /\ Local

\* handleCreate with a name and a project.
CreateDashboard ==
  /\ ~ui.left /\ ui.form /\ ~ui.creating
  /\ ui' = [ui EXCEPT !.creating = TRUE]
  /\ \E p \in Projects : Send("createDashboard", p, None)
  /\ Calling

DashboardCreated(c) ==
  /\ ui' = [ui EXCEPT !.creating = FALSE, !.form = @ /\ c.stage = "failed",
                      !.left = @ \/ c.stage = "ok"]
  /\ Done(c) /\ Handling

DeleteDashboard(d) ==
  /\ ~ui.left /\ ~ui.loading /\ ~ui.form /\ ui.rows[d] # 0
  /\ Send("deleteDashboard", d, None)
  /\ UNCHANGED ui /\ Calling

DashboardDeleted(c) ==
  /\ ui' = IF c.stage = "ok" THEN [ui EXCEPT !.rows[c.on] = 0] ELSE ui
  /\ Done(c) /\ Handling

----------------------------------------------------------------------------

\* api/dashboards.py
DashboardsServer(c) ==
  CASE c.op = "loadDashboards" -> {Outcome(db, [rows |-> db])}
    [] c.op = "createDashboard" -> {Outcome([db EXCEPT ![i] = 1], Ok) : i \in Vacant(c.on, db)}
    [] OTHER -> {IF db[c.on] = 0 THEN NotFound ELSE Outcome([db EXCEPT ![c.on] = 0], Ok)}

DashboardsClicks ==
  \/ OpenDashboardForm \/ CloseDashboardForm \/ CreateDashboard
  \/ \E d \in Items : DeleteDashboard(d)

DashboardsAnswers ==
  \/ \E c \in Settled("loadDashboards") : DashboardsLoaded(c)
  \/ \E c \in Settled("createDashboard") : DashboardCreated(c)
  \/ \E c \in Settled("deleteDashboard") : DashboardDeleted(c)

DashboardsNext ==
  /\ page = "dashboards"
  /\ \/ DashboardsClicks
     \/ DashboardsAnswers
     \/ \E c \in calls : \E o \in DashboardsServer(c) : Serve(c, o)

----------------------------------------------------------------------------
(***************************************************************************)
(* pages/DashboardViewPage.tsx with the grid, the forms and the versions of   *)
(* one dashboard.  Every change of a widget sends the list of all widgets,    *)
(* made from the list the handler's render had.                              *)
(***************************************************************************)

Widget == [version : Nat, x : 0..11, y : Nat, w : 1..12, h : Nat]

Layouts == [Items -> Widget \cup {None}]

NoWidgets == [i \in Items |-> None]

Placed(layout) == {i \in Items : layout[i] # None}

Sizes == {<<3, 2>>, <<6, 3>>}

NewWidget(size, slot) ==
  [version |-> 1, x |-> slot[2], y |-> slot[1], w |-> size[1], h |-> size[2]]

ClosedVersions ==
  [open |-> FALSE, list |-> {}, loading |-> FALSE, error |-> FALSE, modal |-> FALSE,
   saving |-> FALSE, pending |-> None, restoring |-> FALSE]

OpenVersions == [ClosedVersions EXCEPT !.open = TRUE, !.loading = TRUE]

VersionsUi ==
  [open : BOOLEAN, list : SUBSET Layouts, loading : BOOLEAN, error : BOOLEAN,
   modal : BOOLEAN, saving : BOOLEAN, pending : Layouts \cup {None}, restoring : BOOLEAN]

EditorUi ==
  [widgets : Layouts, loading : BOOLEAN, error : BOOLEAN, edit : BOOLEAN,
   add : {"closed", "manual", "ai"}, asking : BOOLEAN,
   settings : [on : Items, widget : Widget] \cup {None},
   confirm : [on : Items, base : Layouts] \cup {None}, versions : VersionsUi]

EditorStart ==
  [widgets |-> NoWidgets, loading |-> TRUE, error |-> FALSE, edit |-> FALSE,
   add |-> "closed", asking |-> FALSE, settings |-> None, confirm |-> None,
   versions |-> ClosedVersions]

\* db.loose: two widgets of different sizes have changed places, or the settings
\* of a widget have been saved with a place or a size it had before.
EditorInit ==
  /\ page = "editor"
  /\ \E first, second \in Existing :
       /\ second = first => Existing = {first}
       /\ db = [widgets |-> [i \in Items |-> IF i = first THEN NewWidget(<<3, 2>>, <<0, 0>>)
                                           ELSE IF i = second THEN NewWidget(<<6, 3>>, <<0, 3>>)
                                           ELSE None],
                versions |-> {NoWidgets}, loose |-> FALSE]
  /\ ui = EditorStart
  /\ calls = {Request("loadDashboard", None, None, {})}

\* The dashboard, or an error with nothing but the way back.
EditorShown == ~ui.loading /\ ~ui.error

\* No modal covers the page.
NoModal == /\ EditorShown /\ ui.add = "closed" /\ ui.settings = None /\ ui.confirm = None
           /\ ~ui.versions.modal /\ ui.versions.pending = None

EditorLoaded(c) ==
  /\ ui' = IF c.stage = "ok" THEN [ui EXCEPT !.loading = FALSE, !.widgets = c.ans.widgets]
           ELSE [ui EXCEPT !.loading = FALSE, !.error = TRUE]
  /\ Done(c) /\ Handling

ToggleEdit == NoModal /\ ui' = [ui EXCEPT !.edit = ~@] /\ Local

----------------------------------------------------------------------------
(* The layout                                                               *)

Beside(a, b) == a.x < b.x + b.w /\ a.x + a.w > b.x

Covers(a, b) == Beside(a, b) /\ a.y < b.y + b.h /\ a.y + a.h > b.y

Bottom(widgets) ==
  CHOOSE b \in {0} \cup {u.y + u.h : u \in widgets} : \A u \in widgets : u.y + u.h <= b

WidgetsOf(layout) == {layout[i] : i \in Placed(layout)}

\* The place furthest to the left in the topmost row.
FirstOf(places) ==
  LET row == Least({s[1] : s \in places})
  IN  <<row, Least({s[2] : s \in {t \in places : t[1] = row}})>>

\* Rows taken as if every widget were one row high.
FindSlotOnRow(layout, size) ==
  LET widgets == WidgetsOf(layout)
      free == {s \in (0..Bottom(widgets)) \X (0..(12 - size[1])) :
                 \A u \in widgets : u.y # s[1] \/ ~Beside(NewWidget(size, s), u)}
  IN  FirstOf(free)

\* findSlot: the first free place, row by row, or a row of its own.
FindSlot(layout, size) ==
  LET widgets == WidgetsOf(layout)
      free == {s \in (0..Bottom(widgets)) \X (0..(12 - size[1])) :
                 \A u \in widgets : ~Covers(NewWidget(size, s), u)}
  IN  IF free = {} THEN <<Bottom(widgets), 0>>
      ELSE FirstOf(free)

\* repack's order: from the top, from the left within a row.
Above(a, b) == a.y < b.y \/ (a.y = b.y /\ a.x < b.x)

Sorted(layout) ==
  LET n == Cardinality(Placed(layout))
  IN  CHOOSE s \in [1..n -> Placed(layout)] :
        \A j, k \in 1..n : j < k => s[j] # s[k] /\ ~Above(layout[s[k]], layout[s[j]])

\* As high as those that are packed already allow.
Lifted(layout, i, packed) ==
  LET over == {u \in WidgetsOf(packed) : Beside(u, layout[i])}
  IN  [packed EXCEPT ![i] = [layout[i] EXCEPT !.y = Bottom(over)]]

\* The first k of them packed.
Packed(layout, order) ==
  LET packed[k \in 0..Cardinality(Placed(layout))] ==
        IF k = 0 THEN NoWidgets ELSE Lifted(layout, order[k], packed[k - 1])
  IN  packed

Repack(layout) == Packed(layout, Sorted(layout))[Cardinality(Placed(layout))]

----------------------------------------------------------------------------
(* Changes                                                                  *)

Put(layout, after, loose) ==
  Send("putWidgets", None, [widgets |-> layout, after |-> after, loose |-> loose])

WithNew(layout, i, size) == [layout EXCEPT ![i] = NewWidget(size, FindSlot(layout, size))]

OpenAdd == NoModal /\ ui' = [ui EXCEPT !.add = "manual"] /\ Local

CloseAdd ==
  /\ EditorShown /\ ui.add # "closed"
  /\ ui' = [ui EXCEPT !.add = "closed"]
  /\ Local

ChooseAddMode ==
  /\ EditorShown /\ ui.add # "closed"
  /\ ui' = [ui EXCEPT !.add = IF @ = "ai" THEN "manual" ELSE "ai"]
  /\ Local

\* handleAddWidget and commitWidget; the button stays enabled.
AddWidget(i, size) ==
  /\ EditorShown /\ ui.add = "manual" /\ ui.widgets[i] = None
  /\ Put(WithNew(ui.widgets, i, size), "add", FALSE)
  /\ UNCHANGED ui /\ Calling

\* handleAskAI; Ctrl+Enter asks again while an answer is awaited.
AskAI ==
  /\ EditorShown /\ ui.add = "ai" /\ Placed(ui.widgets) # Items
  /\ ui' = [ui EXCEPT !.asking = TRUE]
  /\ Send("textToWidget", None, [widgets |-> ui.widgets, after |-> "ask"])
  /\ Calling

\* commitWidget, with the widgets of the time of the question.
AIAnswered(c) ==
  /\ IF c.stage = "failed" THEN ui' = [ui EXCEPT !.asking = FALSE] /\ Done(c)
     ELSE /\ \E i \in Items \ Placed(c.arg.widgets) :
               Then(c, "putWidgets", None,
                    [widgets |-> WithNew(c.arg.widgets, i, c.ans.size), after |-> "ai", loose |-> FALSE])
          /\ UNCHANGED ui
  /\ Handling

\* The trash button asks first; the handler is that of the render of the click.
AskDeleteWidget(i) ==
  /\ NoModal /\ ui.widgets[i] # None
  /\ ui' = [ui EXCEPT !.confirm = [on |-> i, base |-> ui.widgets]]
  /\ Local

CancelDeleteWidget ==
  /\ EditorShown /\ ui.confirm # None
  /\ ui' = [ui EXCEPT !.confirm = None]
  /\ Local

DeleteWidget ==
  /\ EditorShown /\ ui.confirm # None
  /\ ui' = [ui EXCEPT !.confirm = None]
  /\ Put(Repack([ui.confirm.base EXCEPT ![ui.confirm.on] = None]), "delete", FALSE)
  /\ Calling

\* Dropping one widget on another: they swap places and keep their sizes.
SwapWidgets(i, j) ==
  LET a == ui.widgets[i]  b == ui.widgets[j]
  IN  /\ NoModal /\ ui.edit /\ i # j /\ a # None /\ b # None
      /\ Put([ui.widgets EXCEPT ![i] = [a EXCEPT !.x = b.x, !.y = b.y],
                                ![j] = [b EXCEPT !.x = a.x, !.y = a.y]],
             "swap", <<a.w, a.h>> # <<b.w, b.h>>)
      /\ UNCHANGED ui /\ Calling

OpenSettings(i) ==
  /\ NoModal /\ ui.widgets[i] # None
  /\ ui' = [ui EXCEPT !.settings = [on |-> i, widget |-> ui.widgets[i]]]
  /\ Local

CloseSettings ==
  /\ EditorShown /\ ui.settings # None
  /\ ui' = [ui EXCEPT !.settings = None]
  /\ Local

\* The widget as the modal got it, changed, into the widgets of now.
SaveSettings ==
  /\ EditorShown /\ ui.settings # None
  /\ LET i == ui.settings.on  old == ui.settings.widget  now == ui.widgets[i]
     IN  IF now = None THEN Put(ui.widgets, "settings", FALSE)
         ELSE Put([ui.widgets EXCEPT ![i] = [old EXCEPT !.version = @ + 1]],
                  "settings",
                  <<old.x, old.y, old.w, old.h>> # <<now.x, now.y, now.w, now.h>>)
  /\ UNCHANGED ui /\ Calling

\* Calls of the versions panel go on without it when it is closed or the error
\* takes its place; of its answers only that of a restore does anything.
WithoutPanel(cs) ==
  {IF c.op = "saveVersion" THEN [c EXCEPT !.op = "lateVersion"]
   ELSE IF c.op = "restoreVersion" THEN [c EXCEPT !.op = "lateRestore"] ELSE c :
     c \in {d \in cs : d.op # "loadVersions"}}

\* updateDashboard keeps its error to itself: the handlers go on as after a
\* success, over the error screen.
WidgetsPut(c) ==
  /\ ui' = LET after == c.arg.after
               closed == [ui EXCEPT !.add = IF after \in {"add", "ai"} THEN "closed" ELSE @,
                                    !.settings = IF after = "settings" THEN None ELSE @,
                                    !.asking = IF after = "ai" THEN FALSE ELSE @]
           IN  IF c.stage = "ok" THEN [closed EXCEPT !.widgets = c.ans.widgets]
               ELSE [closed EXCEPT !.error = TRUE, !.versions = ClosedVersions]
  /\ calls' = IF c.stage = "ok" THEN calls \ {c} ELSE WithoutPanel(calls \ {c})
  /\ UNCHANGED clash /\ Handling

----------------------------------------------------------------------------
(* DashboardVersionsPanel                                                   *)

ToggleVersions ==
  /\ NoModal
  /\ IF ui.versions.open
     THEN /\ ui' = [ui EXCEPT !.versions = ClosedVersions]
          /\ calls' = WithoutPanel(calls) /\ UNCHANGED clash
     ELSE /\ ui' = [ui EXCEPT !.versions = OpenVersions]
          /\ Send("loadVersions", None, None)
  /\ Calling

VersionsShown == NoModal /\ ui.versions.open /\ ~ui.versions.loading

RetryVersions ==
  /\ VersionsShown /\ ui.versions.error
  /\ ui' = [ui EXCEPT !.versions.loading = TRUE, !.versions.error = FALSE]
  /\ Send("loadVersions", None, None)
  /\ Calling

VersionsLoaded(c) ==
  /\ ui' = IF c.stage = "ok"
           THEN [ui EXCEPT !.versions.loading = FALSE, !.versions.list = c.ans.list]
           ELSE [ui EXCEPT !.versions.loading = FALSE, !.versions.error = TRUE]
  /\ Done(c) /\ Handling

OpenVersionForm ==
  /\ NoModal /\ ui.versions.open
  /\ ui' = [ui EXCEPT !.versions.modal = TRUE]
  /\ Local

\* The button waits for the answer, Enter in the field does not.
SaveVersion ==
  /\ EditorShown /\ ui.versions.modal
  /\ ui' = [ui EXCEPT !.versions.saving = TRUE]
  /\ Send("saveVersion", None, [widgets |-> ui.widgets])
  /\ Calling

VersionSaved(c) ==
  /\ ui' = IF c.stage = "ok"
           THEN [ui EXCEPT !.versions.saving = FALSE, !.versions.modal = FALSE,
                           !.versions.list = @ \cup {c.ans.widgets}]
           ELSE [ui EXCEPT !.versions.saving = FALSE]
  /\ Done(c) /\ Handling

AskRestore(layout) ==
  /\ VersionsShown /\ ~ui.versions.error /\ ~ui.versions.restoring
  /\ layout \in ui.versions.list
  /\ ui' = [ui EXCEPT !.versions.pending = layout]
  /\ Local

CloseVersionModal ==
  /\ EditorShown /\ (ui.versions.modal \/ ui.versions.pending # None)
  /\ ui' = [ui EXCEPT !.versions.modal = FALSE, !.versions.pending = None]
  /\ Local

ConfirmRestore ==
  /\ EditorShown /\ ui.versions.pending # None /\ ~ui.versions.restoring
  /\ ui' = [ui EXCEPT !.versions.restoring = TRUE]
  /\ Send("restoreVersion", None, [widgets |-> ui.versions.pending])
  /\ Calling

\* What may still reach the server when the page is loaded again.
Abandoned(cs) ==
  {[c EXCEPT !.op = IF c.op = "putWidgets" THEN "latePut" ELSE "lateVersion"] :
     c \in {d \in cs : d.stage = "sent" /\ d.op \in {"putWidgets", "saveVersion"}}}

\* onRestored: window.location.reload()
VersionRestored(c) ==
  /\ IF c.stage = "ok"
     THEN /\ ui' = EditorStart
          /\ SendAlso("loadDashboard", None, None, Abandoned(calls \ {c}))
     ELSE /\ ui' = IF c.op = "restoreVersion" THEN [ui EXCEPT !.versions.restoring = FALSE]
                   ELSE ui
          /\ Done(c)
  /\ Handling

\* The browser drops it, or its answer.
DropLate(c) == UNCHANGED ui /\ Done(c) /\ Handling

----------------------------------------------------------------------------

\* api/dashboards.py, api/version_history.py and the keyword router.
EditorServer(c) ==
  CASE c.op = "loadDashboard" -> {Outcome(db, [widgets |-> db.widgets])}
    [] c.op = "loadVersions" -> {Outcome(db, [list |-> db.versions])}
    [] c.op = "textToWidget" -> {Outcome(db, [size |-> s]) : s \in Sizes}
    [] c.op \in {"putWidgets", "latePut"} ->
         {Outcome([db EXCEPT !.widgets = c.arg.widgets, !.loose = @ \/ c.arg.loose],
                  [widgets |-> c.arg.widgets])}
    [] c.op \in {"saveVersion", "lateVersion"} ->
         {Outcome([db EXCEPT !.versions = @ \cup {c.arg.widgets}], [widgets |-> c.arg.widgets])}
    [] c.op \in {"restoreVersion", "lateRestore"} ->
         {Outcome([db EXCEPT !.widgets = c.arg.widgets], Ok)}

EditorClicks ==
  \/ ToggleEdit \/ OpenAdd \/ CloseAdd \/ ChooseAddMode \/ AskAI
  \/ \E i \in Items, size \in Sizes : AddWidget(i, size)
  \/ \E i \in Items : AskDeleteWidget(i) \/ OpenSettings(i)
  \/ \E i \in Items, j \in Items : SwapWidgets(i, j)
  \/ CancelDeleteWidget \/ DeleteWidget \/ CloseSettings \/ SaveSettings
  \/ ToggleVersions \/ RetryVersions \/ OpenVersionForm \/ SaveVersion
  \/ \E layout \in ui.versions.list : AskRestore(layout)
  \/ CloseVersionModal \/ ConfirmRestore

EditorAnswers ==
  \/ \E c \in Settled("loadDashboard") : EditorLoaded(c)
  \/ \E c \in Settled("textToWidget") : AIAnswered(c)
  \/ \E c \in Settled("putWidgets") : WidgetsPut(c)
  \/ \E c \in Settled("loadVersions") : VersionsLoaded(c)
  \/ \E c \in Settled("saveVersion") : VersionSaved(c)
  \/ \E c \in Settled("restoreVersion") \cup Settled("lateRestore") : VersionRestored(c)
  \/ \E c \in InFlight({"latePut", "lateVersion"}) : DropLate(c)

EditorNext ==
  /\ page = "editor"
  /\ \/ EditorClicks
     \/ EditorAnswers
     \/ \E c \in calls : \E o \in EditorServer(c) : Serve(c, o)

=============================================================================
