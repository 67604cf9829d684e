------------------------------ MODULE MapScenes ------------------------------
(***************************************************************************)
(* The two other pictures of a discovered map: components/ProcessMap/         *)
(* ProcessMapSigma.tsx (WebGL, "webgl") and ProcessCityCanvas.tsx (the city). *)
(* The page around them gives maps, what is hidden and, to the WebGL map, the *)
(* selection; the city's is its own.  What the WebGL map waits for are the    *)
(* timers of the replay's flashes.                                          *)
(***************************************************************************)
EXTENDS FlatMap

Graphs == [nodes : SUBSET Items, edges : SUBSET Pairs]

NoGraph == [nodes |-> {}, edges |-> {}]

----------------------------------------------------------------------------
(* ProcessMapSigma.tsx                                                      *)

\* "overview" is what the minimap has drawn; "broken": a reducer threw, and the error
\* boundary has taken the page away.
WebglUi == [given : Maps, shown : BOOLEAN, hidden : SUBSET Items,
            selected : Items \cup {None}, hovered : Items \cup {None},
            graph : Graphs, flashing : SUBSET Items,
            minimapOpen : BOOLEAN, overview : SUBSET Items, exportOpen : BOOLEAN,
            broken : BOOLEAN]

\* builtGraph: every edge between activities that are not hidden.
BuiltGraph(u) ==
  LET nodes == u.given.nodes \ u.hidden
  IN  [nodes |-> nodes, edges |-> {u.given.edges[k] : k \in Within(u.given, nodes)}]

\* What the reducers bring out: the pointer's activity before the selected one.
Focus(u) == IF u.hovered # None THEN u.hovered ELSE u.selected

\* nodeReducer asks the graph for the neighbours of the focus for every activity that
\* does not flash, and the graph throws if it is not there.
Throws(u) ==
  /\ Focus(u) \notin u.graph.nodes \cup {None}
  /\ u.graph.nodes \ u.flashing # {}

\* drawMinimap, after every rendering.
Redrawn(u) == [u EXCEPT !.overview = IF u.minimapOpen THEN u.graph.nodes ELSE {}]

\* Unmounted by the page, or by the error boundary.
NoRenderer(u) ==
  [u EXCEPT !.shown = FALSE, !.hovered = None, !.graph = NoGraph, !.flashing = {},
            !.minimapOpen = TRUE, !.overview = {}, !.exportOpen = FALSE]

\* An effect that renders u; nothing but the reducers throws.
Rendered(u, timers) ==
  /\ ui' = IF Throws(u) THEN [NoRenderer(u) EXCEPT !.broken = TRUE] ELSE Redrawn(u)
  /\ calls' = IF Throws(u) THEN {} ELSE timers
  /\ UNCHANGED clash

\* Mutant: flashes outlive the graph they are on.
RebuiltFlashing(u) == [u EXCEPT !.graph = BuiltGraph(u)]

\* The graph is another: the renderer is made anew, the flashes are cleared.  No event
\* tells that the pointer has left what is gone.
RebuiltSigma(u) == [u EXCEPT !.graph = BuiltGraph(u), !.flashing = {}]

WebglInit(m) ==
  LET u == [given |-> m, shown |-> TRUE, hidden |-> {}, selected |-> None,
            hovered |-> None, graph |-> NoGraph, flashing |-> {}, minimapOpen |-> TRUE,
            overview |-> {}, exportOpen |-> FALSE, broken |-> FALSE]
  IN  page = "webgl" /\ db = None /\ calls = {} /\ ui = Redrawn(RebuiltSigma(u))

\* A press of the mouse beside the export's menu closes it.
OffMenu(u) == {u, [u EXCEPT !.exportOpen = FALSE]}

\* The page gives another map, mounting the canvas if need be; it hides or shows
\* activities, the numbers on the labels or the theme are others.
GiveGraph(m, hidden) ==
  /\ ~ui.broken
  /\ \E u \in OffMenu(ui) :
       Rendered(RebuiltSigma([u EXCEPT !.given = m, !.hidden = hidden, !.shown = TRUE]), {})
  /\ Calling

\* For a spinner or the other renderer, with which another activity may be selected.
LeaveWebgl(x) ==
  /\ ui.shown /\ x \in ui.given.nodes \cup {None}
  /\ ui' = [NoRenderer(ui) EXCEPT !.selected = x]
  /\ calls' = {} /\ UNCHANGED clash /\ Calling

\* handleClickNode, or the button that clears the selection: the page selects, and
\* the reducers run again.
SelectInWebgl(x) ==
  /\ ui.shown /\ x # ui.selected /\ x \in ui.graph.nodes \cup {None}
  /\ \E u \in OffMenu(ui) : Rendered([u EXCEPT !.selected = x], calls)
  /\ Calling

\* The pointer comes to an activity, or leaves the one it is on.
HoverWebgl(x) ==
  /\ ui.shown /\ x # ui.hovered
  /\ x \in ui.graph.nodes \/ (x = None /\ ui.hovered \in ui.graph.nodes)
  /\ Rendered([ui EXCEPT !.hovered = x], calls) /\ Calling

\* A flash of the replay and its timer, instead of the one it had; an activity that is
\* not in the graph is passed over.
Flash(i) ==
  /\ i \in ui.graph.nodes
  /\ ui' = [ui EXCEPT !.flashing = @ \cup {i}]
  /\ SendAlso("flash", i, None, {c \in calls : c.on # i}) /\ Calling

FlashEnds(c) ==
  /\ ui' = [ui EXCEPT !.flashing = @ \ {c.on}]
  /\ Done(c) /\ Handling

\* The replay is stopped or starts again.
ResetFlashes ==
  /\ ui.flashing # {} /\ ui' = [ui EXCEPT !.flashing = {}]
  /\ calls' = {} /\ UNCHANGED clash /\ Calling

\* Both are there with an activity only; the menu that was open comes back with one.
ToggleMinimap ==
  /\ ui.graph.nodes # {}
  /\ \E u \in OffMenu(ui) : ui' = Redrawn([u EXCEPT !.minimapOpen = ~@])
  /\ Local

ToggleExport ==
  /\ ui.graph.nodes # {} /\ ui' = [ui EXCEPT !.exportOpen = ~@] /\ Local

\* As long as it stands, the WebGL map has the graph of the map and of what is hidden,
\* in the overview too, and flashes only what is on it, each flash with its timer.
WebglRight ==
  LET built == IF ui.shown THEN BuiltGraph(ui) ELSE NoGraph
  IN  /\ ui.graph = built
      /\ ui.overview = IF ui.minimapOpen THEN built.nodes ELSE {}
      /\ ui.flashing \subseteq built.nodes
      /\ ui.flashing = {c.on : c \in calls}

WebglNext ==
  /\ page = "webgl"
  /\ \/ \E m \in GivenMaps : GiveGraph(m, ui.hidden)
     \/ \E s \in SUBSET ui.given.nodes : GiveGraph(ui.given, s)
     \/ \E x \in Items \cup {None} : LeaveWebgl(x) \/ SelectInWebgl(x) \/ HoverWebgl(x)
     \/ \E i \in Items : Flash(i)
     \/ ResetFlashes \/ ToggleMinimap \/ ToggleExport
     \/ \E c \in calls : FlashEnds(c)

----------------------------------------------------------------------------
(* ProcessCityCanvas.tsx                                                    *)

\* maxStreets
MaxStreets == 80

\* "focus" is what the scene has picked out, "selected" what the panel tells of it.
\* Where the towers stand is left out.
CityUi == [given : Maps, shown : BOOLEAN, towers : SUBSET Items, streets : SUBSET Pairs,
           focus : Items \cup {None},
           selected : [at : Items, near : SUBSET Items] \cup {None},
           hover : Items \cup {None}]

CityStreets(m) ==
  {e \in {m.edges[k] : k \in Kept(m, DOMAIN m.edges, MaxStreets)} : e[1] # e[2]}

\* The effect that builds the scene; a map without activities leaves the panel.
BuiltCity(u) ==
  IF u.given.nodes = {}
  THEN [u EXCEPT !.towers = {}, !.streets = {}, !.focus = None]
  ELSE [u EXCEPT !.towers = u.given.nodes, !.streets = CityStreets(u.given),
                 !.focus = None, !.selected = None]

NoCity(m, shown) ==
  [given |-> m, shown |-> shown, towers |-> {}, streets |-> {}, focus |-> None,
   selected |-> None, hover |-> None]

CityInit(m) == page = "city" /\ db = None /\ calls = {} /\ ui = BuiltCity(NoCity(m, TRUE))

\* Another map, which needs no spinner here; the tip stays till the pointer moves.
GiveCity(m) ==
  /\ ui' = BuiltCity(IF ui.shown THEN [ui EXCEPT !.given = m] ELSE NoCity(m, TRUE))
  /\ Local

\* Another metric of the towers' height; without towers nothing is built anew.
ChooseMetric == ui.towers # {} /\ ui' = BuiltCity(ui) /\ Local

LeaveCity == ui.shown /\ ui' = NoCity(ui.given, FALSE) /\ Local

Near(u, i) == {j \in u.towers : <<i, j>> \in u.streets \/ <<j, i>> \in u.streets}

\* A tap on a tower or beside them all, Escape, a chip or the button of the panel, which
\* does nothing once the scene is gone.
SelectTower(x) ==
  /\ ui.towers # {} /\ x \in ui.towers \cup {None}
  /\ ui' = [ui EXCEPT !.focus = x,
                      !.selected = IF x = None THEN None ELSE [at |-> x, near |-> Near(ui, x)]]
  /\ Local

HoverTower(x) ==
  /\ x # ui.hover /\ ui.towers # {} /\ x \in ui.towers \cup {None}
  /\ ui' = [ui EXCEPT !.hover = x] /\ Local

\* As long as a tower stands, the panel tells of the one the scene has picked out and
\* of those a street joins to it.
CityRight ==
  /\ ui.towers = IF ui.shown THEN ui.given.nodes ELSE {}
  /\ ui.towers = {} => ui.streets = {} /\ ui.focus = None
  /\ ui.towers # {} =>
       IF ui.focus = None THEN ui.selected = None
       ELSE /\ ui.focus \in ui.towers
            /\ ui.selected = [at |-> ui.focus, near |-> Near(ui, ui.focus)]
  /\ \A e \in ui.streets : {e[1], e[2]} \subseteq ui.towers

CityNext ==
  /\ page = "city"
  /\ \/ \E m \in GivenMaps : GiveCity(m)
     \/ \E x \in Items \cup {None} : SelectTower(x) \/ HoverTower(x)
     \/ ChooseMetric \/ LeaveCity

=============================================================================
