------------------------------- MODULE FlatMap -------------------------------
(***************************************************************************)
(* components/ProcessMap/ProcessMap.tsx with utils/simplifyGraph.ts: the     *)
(* discovered map as cytoscape draws it.  The page around it                 *)
(* (ProcessViewPage.tsx) gives it maps and settings, takes it away for a      *)
(* spinner or the other renderer, and keeps the selection and the menu.  A    *)
(* layout is animated; what is to be done after it waits for the next layout *)
(* that stops.  The calls in flight are the layouts.                        *)
(***************************************************************************)
EXTENDS Spa, Sequences

CONSTANT GivenMaps  \* the maps that are discovered

Pairs == Items \X Items

\* A map: its activities, its edges by falling frequency, and the activities that
\* are first or last in a case.
Maps == [nodes : SUBSET Items, edges : Seq(Pairs), first : SUBSET Items, last : SUBSET Items]

EndsOf(m, k) == {m.edges[k][1], m.edges[k][2]}

ASSUME MapAssumption ==
  /\ \A m \in GivenMaps : m \in Maps /\ \A k \in DOMAIN m.edges : EndsOf(m, k) \subseteq m.nodes
  /\ None \notin Pairs

MapLayouts == {"dagre", "circle"}

\* Per cent of the edges.
DetailLevels == {20, 40, 60, 80, 100}

----------------------------------------------------------------------------
(* utils/simplifyGraph.ts, on the positions of the edges                     *)

TargetOf(complexity, n) == (complexity * n + 99) \div 100

\* The strongest of those that leave (1) or enter (2) the same activity.
Strongest(m, edges, k, end) ==
  \A j \in edges : j < k => m.edges[j][end] # m.edges[k][end]

\* Mutant: only the last activities keep theirs.
KeptUnanchored(m, edges, target) ==
  {k \in edges : \/ Cardinality({j \in edges : j <= k}) <= target
                 \/ m.edges[k][2] \in m.last /\ Strongest(m, edges, k, 2)}

\* The strongest edges, and the strongest one out of each first and into each last
\* activity.
Kept(m, edges, target) ==
  {k \in edges :
     \/ Cardinality({j \in edges : j <= k}) <= target
     \/ m.edges[k][1] \in m.first /\ Strongest(m, edges, k, 1)
     \/ m.edges[k][2] \in m.last /\ Strongest(m, edges, k, 2)}

Within(m, nodes) == {k \in DOMAIN m.edges : EndsOf(m, k) \subseteq nodes}

Joined(m, edges) == UNION {EndsOf(m, k) : k \in edges}

\* getFilteredElements: what is hidden goes first; then activities without an edge,
\* unless all would.
ElementsOf(u) ==
  LET nodes == u.given.nodes \ u.hidden
      edges == Within(u.given, nodes)
      kept  == Kept(u.given, edges, TargetOf(u.complexity, Cardinality(edges)))
      drawn == Joined(u.given, kept)
  IN  [nodes |-> IF drawn = {} THEN nodes ELSE drawn,
       edges |-> {u.given.edges[k] : k \in kept}]

----------------------------------------------------------------------------
(* State: the page's, then what goes with the canvas: the elements of cy with  *)
(* what is marked on them, and what it does with its layouts                 *)

FlatUi == [given : Maps, shown : BOOLEAN, complexity : DetailLevels, clean : BOOLEAN,
           layout : MapLayouts, hidden : SUBSET Items,
           selected : Items \cup {None}, menu : Items \cup {None},
           hover : Items \cup {None}, far : BOOLEAN,
           cy : [nodes : SUBSET Items, edges : SUBSET Pairs, far : BOOLEAN,
                 picked : Items \cup Pairs \cup {None}, dimmed : SUBSET Items],
           fitted : BOOLEAN, key : MapLayouts \cup {None},
           waiting : SUBSET [fit : BOOLEAN, tree : BOOLEAN],
           spread : BOOLEAN, framed : BOOLEAN]

NoElements == [nodes |-> {}, edges |-> {}, far |-> FALSE, picked |-> None, dimmed |-> {}]

Neighbours(cy, i) == {j \in cy.nodes : <<i, j>> \in cy.edges \/ <<j, i>> \in cy.edges}

\* applySelectionHighlight: picks the selected activity if it is drawn and dims what
\* is not beside it.
Highlight(cy, selected) ==
  IF selected \in cy.nodes
  THEN [cy EXCEPT !.picked = selected,
                  !.dimmed = cy.nodes \ (Neighbours(cy, selected) \cup {selected})]
  ELSE [cy EXCEPT !.picked = None, !.dimmed = {}]

\* cy.add: new elements have nothing on them; those out of sight are marked so.
Added(u) ==
  [nodes |-> ElementsOf(u).nodes, edges |-> ElementsOf(u).edges, far |-> u.far,
   picked |-> None, dimmed |-> {}]

\* Mutant: the new elements are not highlighted.
DrawnBare(u) == Added(u)

Drawn(u) == Highlight(Added(u), u.selected)

\* Only the first map that is not empty, and another layout, move the camera.
FitsNow(u) ==
  /\ u.cy.nodes # {}
  /\ ~u.fitted \/ (u.key # None /\ u.key # u.layout)

\* runLayout registers its handler for the next layout that stops.
LaidOut(u) ==
  [u EXCEPT !.fitted = @ \/ FitsNow(u),
            !.key = IF u.cy.nodes # {} THEN u.layout ELSE @,
            !.waiting = @ \cup {[fit |-> FitsNow(u), tree |-> u.layout = "dagre"]},
            !.spread = FALSE]

\* The canvas is destroyed, and what it knew with it.
Unmounted(u) ==
  [u EXCEPT !.shown = FALSE, !.hover = None, !.far = FALSE, !.cy = NoElements,
            !.fitted = FALSE, !.key = None, !.waiting = {}, !.spread = FALSE,
            !.framed = FALSE]

\* The effect that updates the elements; a layout under way loses them.
UpdateElements(u) ==
  /\ ui' = LaidOut([u EXCEPT !.cy = Drawn(u)])
  /\ SendAlso("layout", None, [fit |-> FitsNow([u EXCEPT !.cy = Drawn(u)]), stale |-> FALSE],
              {[c EXCEPT !.arg.stale = TRUE] : c \in calls})

\* What the page around it has changed reaches the canvas if there is one.
Given(u) ==
  /\ IF u.shown THEN UpdateElements(u) ELSE ui' = u /\ UNCHANGED <<calls, clash>>
  /\ Calling

FlatInit(m) ==
  LET u == [given |-> m, shown |-> TRUE, complexity |-> 80, clean |-> FALSE,
            layout |-> "dagre", hidden |-> {}, selected |-> None, menu |-> None,
            hover |-> None, far |-> FALSE, cy |-> NoElements, fitted |-> FALSE,
            key |-> None, waiting |-> {}, spread |-> FALSE, framed |-> FALSE]
      v == [u EXCEPT !.cy = Drawn(u)]
  IN  /\ page = "flat" /\ db = None
      /\ ui = LaidOut(v)
      /\ calls = {Request("layout", None, [fit |-> FitsNow(v), stale |-> FALSE], {})}

----------------------------------------------------------------------------
(* What the page gives                                                      *)

\* A click beside the menu closes it.
Shut == [ui EXCEPT !.menu = None]

\* Another filter, algorithm or log: a map that is cached replaces the one there is,
\* any other comes after a spinner; so does the map after the other renderer.
GiveMap(m) == Given([Shut EXCEPT !.given = m, !.shown = TRUE])

TakeAway ==
  /\ ui.shown /\ ui' = Unmounted(Shut)
  /\ calls' = {} /\ UNCHANGED clash /\ Calling

SetDetail(d) ==
  /\ d # ui.complexity \/ ui.clean
  /\ IF d # ui.complexity THEN Given([Shut EXCEPT !.complexity = d, !.clean = FALSE])
     ELSE ui' = [Shut EXCEPT !.clean = FALSE] /\ Local

\* Clean view gives all of a map as small as these, and leaving it all of any.
ToggleCleanView ==
  /\ IF ui.complexity # 100 THEN Given([Shut EXCEPT !.complexity = 100, !.clean = ~@])
     ELSE ui' = [Shut EXCEPT !.clean = ~@] /\ Local

SetLayout(l) == l # ui.layout /\ Given([Shut EXCEPT !.layout = l])

\* MapToolbar: one activity, those that were searched for, all.
Hide(s) ==
  /\ ui.shown /\ s # ui.hidden
  /\ \/ s = {}
     \/ \E i \in ui.given.nodes : s = ui.hidden \ {i}
     \/ \E found \in SUBSET ui.given.nodes : s = ui.hidden \cup found
  /\ Given([Shut EXCEPT !.hidden = s])

\* The theme, the numbers on the labels, the slow activities marked.
Restyle == ui.shown /\ Given(Shut)

\* The effect on selectedNode.
Selected(u, x) ==
  [u EXCEPT !.selected = x,
            !.cy = IF u.selected = x \/ ~u.shown THEN @ ELSE Highlight(@, x)]

\* The button of the panel beside the map.
ClearSelection ==
  /\ ui.selected \in ui.given.nodes
  /\ ui' = Selected(Shut, None) /\ Local

----------------------------------------------------------------------------
(* What the user does on it                                                 *)

\* cytoscape picks what is tapped, the page selects it; the chip it adds to the
\* filter may bring another map (GiveMap).
TapNode(i) ==
  /\ i \in ui.cy.nodes
  /\ ui' = [Selected(Shut, i) EXCEPT !.cy.picked = i] /\ Local

\* The page selects nothing: the rest stays dimmed for the activity that was.
TapEdge(e) ==
  /\ e \in ui.cy.edges
  /\ ui' = [Shut EXCEPT !.cy.picked = e] /\ Local

TapBackground ==
  /\ ui.shown /\ {ui.cy.picked, ui.selected} # {None}
  /\ ui' = [Selected(Shut, None) EXCEPT !.cy.picked = None] /\ Local

OpenMenu(i) == i \in ui.cy.nodes /\ ui' = [ui EXCEPT !.menu = i] /\ Local

\* "Show details" of the menu, whose activity may be gone.
ShowDetails == ui.menu # None /\ ui' = Selected(Shut, ui.menu) /\ Local

\* The tip; elements that are removed do not tell that the pointer leaves.
HoverNode(x) ==
  /\ ui.shown /\ x # ui.hover /\ x \in ui.cy.nodes \cup {None}
  /\ ui' = [ui EXCEPT !.hover = x] /\ Local

\* onZoom: the labels of the edges go and come back.
CrossZoom ==
  /\ ui.shown /\ ui' = [ui EXCEPT !.far = ~@, !.cy.far = ~ui.far] /\ Local

----------------------------------------------------------------------------
(* Layouts                                                                  *)

\* All handlers that wait run, also those of layouts that still go on and will move
\* the activities again; a map too small or too large for the frame is fitted.
LayoutStops(c) ==
  /\ \E poor \in BOOLEAN :
       ui' = [ui EXCEPT !.waiting = {},
                        !.spread = \E h \in ui.waiting : h.tree,
                        !.framed = @ \/ (ui.waiting # {} /\ poor) \/ \E h \in ui.waiting : h.fit]
  /\ Done(c) /\ Handling

\* Its elements are gone: it may not be heard.
LayoutForgotten(c) == c.arg.stale /\ UNCHANGED ui /\ Done(c) /\ Handling

\* stopAnim: the user's wheel or hand stops the camera, and with it the layout's end.
GrabCanvas(c) ==
  /\ c.arg.fit /\ faults < MaxFaults
  /\ faults' = faults + 1
  /\ Done(c) /\ UNCHANGED <<page, ui, db, clicks>>

----------------------------------------------------------------------------

Isolated(cy) == {i \in cy.nodes : Neighbours(cy, i) \subseteq {i}}

\* Once a layout has stopped that nothing overlapped, activities without an edge to
\* another lie beside each other, and the first map has been brought into the frame.
FlatSettled ==
  ui.shown =>
    /\ ui.layout = "dagre" /\ Cardinality(Isolated(ui.cy)) > 1 => ui.spread
    /\ ui.cy.nodes # {} => ui.framed

\* The canvas draws what the map and the settings make it draw, with the labels of
\* the zoom; the selected activity is picked unless an edge is, and the others are
\* dimmed for it and for nothing else.
FlatRight ==
  IF ~ui.shown THEN ui.cy = NoElements /\ calls = {}
  ELSE /\ ui.cy.nodes = ElementsOf(ui).nodes /\ ui.cy.edges = ElementsOf(ui).edges
       /\ ui.cy.far = ui.far
       /\ ui.cy.dimmed = Highlight(ui.cy, ui.selected).dimmed
       /\ ui.cy.picked \in ui.cy.edges \cup {Highlight(ui.cy, ui.selected).picked, None}
       /\ ui.cy.picked = None => ui.selected \notin ui.cy.nodes

\* However few edges are kept and whatever is hidden, a map with activities left is
\* not blank, its edges join what is drawn, and a first or last activity that has an
\* edge keeps one.
MapAnchored ==
  LET m    == ui.given
      left == {k \in DOMAIN m.edges : EndsOf(m, k) \cap ui.hidden = {}}
      cy   == ui.cy
  IN  ui.shown =>
        /\ m.nodes \subseteq ui.hidden \/ cy.nodes # {}
        /\ \A e \in cy.edges : {e[1], e[2]} \subseteq cy.nodes
        /\ \A k \in left :
             /\ m.edges[k][1] \in m.first => \E e \in cy.edges : e[1] = m.edges[k][1]
             /\ m.edges[k][2] \in m.last => \E e \in cy.edges : e[2] = m.edges[k][2]

FlatClicks ==
  \/ \E m \in GivenMaps : GiveMap(m)
  \/ \E d \in DetailLevels : SetDetail(d)
  \/ \E l \in MapLayouts : SetLayout(l)
  \/ \E s \in SUBSET Items : Hide(s)
  \/ \E i \in Items : TapNode(i) \/ OpenMenu(i)
  \/ \E e \in ui.cy.edges : TapEdge(e)
  \/ \E x \in Items \cup {None} : HoverNode(x)
  \/ TakeAway \/ ToggleCleanView \/ Restyle \/ ClearSelection \/ TapBackground
  \/ ShowDetails \/ CrossZoom

FlatNext ==
  /\ page = "flat"
  /\ \/ FlatClicks
     \/ \E c \in calls : LayoutStops(c) \/ LayoutForgotten(c) \/ GrabCanvas(c)

=============================================================================
