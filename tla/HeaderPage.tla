------------------------------ MODULE HeaderPage ------------------------------
(***************************************************************************)
(* components/Layout/Header, ProcessMap/AnalysisPalette and                   *)
(* Onboarding/ProductTour: what lies over every page of a signed-in user.      *)
(* A search is sent once the typing pauses; what is typed is the name of a     *)
(* project, which finds it and its logs.                                     *)
(***************************************************************************)
EXTENDS Spa, Sequences

\* Analyses of the palette: a page of its own or a tab of the map, and the words that
\* match; the hub recommends some whatever the log is like.
Analyses ==
  <<[kind |-> "page", name |-> "mission", words |-> {"home"}, best |-> FALSE],
    [kind |-> "page", name |-> "rework", words |-> {"loops"}, best |-> FALSE],
    [kind |-> "hub", name |-> "spectrum", words |-> {"loops"}, best |-> TRUE]>>

Words == {"home", "loops", "why"}

\* An address: the kind of page, the log it is of, and the analysis in it.
Place(kind, log, name) == [kind |-> kind, log |-> log, name |-> name]

Addresses == {Place(k, None, None) : k \in {"login", "settings", "projects", "other"}}
  \cup {Place("process", i, x) : i \in Existing, x \in {None, "ask", "spectrum"}}
  \cup {Place("analysis", i, x) : i \in Existing, x \in {"mission", "rework"}}

\* The tabs of a map are in the query of its address, which does not count here.
PathOf(at) == IF at.kind = "process" THEN [at EXCEPT !.name = None] ELSE at

Login == Place("login", None, None)

\* The tour of an address: the longest prefix that has one.
Tours == {"welcome", "process"}

TourOf(at) == IF at.kind = "process" THEN "process" ELSE "welcome"

\* Rows of the search; the analysis that is active in the palette; the entry of the
\* menu that has the focus, and the step of the tour, 0 without one.
HeaderUi ==
  [at : Addresses, lastLog : Existing \cup {None},
   search : [query : Projects \cup {None}, due : Projects \cup {None},
             found : Projects \cup {None}, open : BOOLEAN, loading : BOOLEAN,
             active : 0..(Cardinality(Existing) + 1)],
   palette : [open : BOOLEAN, query : Words \cup {None}, active : 0..4],
   menu : 0..3,
   tour : [off : BOOLEAN, id : Tours \cup {None}, due : Tours \cup {None}, step : 0..2,
           done : SUBSET Tours]]

NoSearch == [query |-> None, due |-> None, found |-> None, open |-> FALSE,
             loading |-> FALSE, active |-> 0]

NoPalette == [open |-> FALSE, query |-> None, active |-> 0]

\* The effects of an address; another path sets the tour's timer anew.
Reached(u, at) ==
  [u EXCEPT !.at = at,
            !.lastLog = IF at.log = None THEN @ ELSE at.log,
            !.tour.due = IF PathOf(at) = PathOf(u.at) THEN @
                         ELSE IF u.tour.off \/ TourOf(at) \in u.tour.done THEN None
                         ELSE TourOf(at)]

HeaderInit(at, last, off) ==
  /\ page = "header" /\ db = None /\ calls = {}
  /\ ui = Reached([at |-> Login, lastLog |-> last, search |-> NoSearch,
                   palette |-> NoPalette, menu |-> 0,
                   tour |-> [off |-> off, id |-> None, due |-> None, step |-> 0, done |-> {}]],
                  at)

\* A click beside the results and the menu closes both.
Outside(u) == [u EXCEPT !.search.open = FALSE, !.search.active = 0, !.menu = 0]

HeaderShown == ui.at # Login

\* The palette lies over all the rest.
Uncovered == HeaderShown /\ ~ui.palette.open

\* Links of the sidebar and of the page, and what the browser does by itself.
FollowAddress(at) ==
  /\ HeaderShown /\ at # Login
  /\ \E u \in {ui, Outside(ui)} : ui' = Reached(u, at)
  /\ Local

----------------------------------------------------------------------------
(* Search                                                                   *)

\* resultPath of each result: the project, its logs; an activity leads to its log, too.
Hits(q) ==
  IF q = None THEN {}
  ELSE {Place("projects", None, None)} \cup
       {Place("process", i, None) : i \in {j \in Existing : ProjectOf[j] = q}}

HitRows(s) == Cardinality(Hits(s.found))

TypeSearch(q) ==
  /\ Uncovered /\ q # ui.search.query
  /\ ui' = [ui EXCEPT
       !.menu = 0,
       !.search = IF q = None THEN [NoSearch EXCEPT !.loading = ui.search.loading]
                  ELSE [@ EXCEPT !.query = q, !.due = q, !.active = 0]]
  /\ Local

\* The timer after the typing; it is not cleared when the header goes.
SendSearch ==
  /\ ui.search.due # None
  /\ ui' = [ui EXCEPT !.search.due = None, !.search.loading = TRUE]
  /\ Send("search", ui.search.due, None) /\ Handling

\* An answer, also to what is not asked any more, opens the results.
SearchAnswered(c) ==
  /\ ui' = [ui EXCEPT !.search.loading = FALSE,
                      !.search.found = IF c.stage = "ok" THEN c.on ELSE None,
                      !.search.open = @ \/ c.stage = "ok"]
  /\ Done(c) /\ Handling

FocusSearch ==
  /\ Uncovered
  /\ ui' = [ui EXCEPT !.menu = 0, !.search.open = @ \/ ui.search.found # None] /\ Local

\* Row 0 is the input, which has the focus again after the first result.
SearchArrow(down) ==
  /\ Uncovered /\ ui.search.open /\ ui.search.found # None
  /\ ui' = [ui EXCEPT !.search.active =
              IF ~down THEN IF @ > 0 THEN @ - 1 ELSE 0
              ELSE IF @ < HitRows(ui.search) THEN @ + 1 ELSE HitRows(ui.search)]
  /\ Local

\* In the input it leaves the field; on a result the focus goes back to the input, whose
\* handler opens the results again.
EscapeSearch ==
  /\ Uncovered /\ ui.search.open
  /\ ui' = [ui EXCEPT !.search.active = 0,
                      !.search.open = /\ ui.search.active > 0 /\ ~ui.search.loading
                                        /\ ui.search.found # None]
  /\ Local

\* A search that waits for its timer is still sent.
ChooseHit(at) ==
  LET u == [ui EXCEPT !.search = [NoSearch EXCEPT !.due = ui.search.due], !.menu = 0]
  IN  /\ Uncovered /\ ui.search.open /\ ~ui.search.loading /\ at \in Hits(ui.search.found)
      /\ ui' = Reached(u, at) /\ Local

----------------------------------------------------------------------------
(* Palette                                                                  *)

Target == IF ui.at.log # None THEN ui.at.log ELSE ui.lastLog

Best(a) == a.best

\* Without a query, what is recommended comes first, and again in its place.
Offered(query) ==
  LET matches(a) == query \in a.words
  IN  IF query = None THEN SelectSeq(Analyses, Best) \o Analyses
      ELSE SelectSeq(Analyses, matches)

\* The last row hands the query to the assistant.
PaletteRows(query) == Len(Offered(query)) + (IF query = None THEN 0 ELSE 1)

\* The shortcut toggles it, but not while something is typed; buttons open it.
TogglePalette ==
  /\ HeaderShown
  /\ ui' = [ui EXCEPT !.palette = [NoPalette EXCEPT !.open = ~ui.palette.open]] /\ Local

OpenPalette ==
  /\ Uncovered
  /\ ui' = [Outside(ui) EXCEPT !.palette = [NoPalette EXCEPT !.open = TRUE]] /\ Local

\* Escape; the cross, a click beside it.
ClosePalette ==
  /\ ui.palette.open
  /\ \E u \in {ui, Outside(ui)} : ui' = [u EXCEPT !.palette = NoPalette]
  /\ Local

\* Without a log there is nothing to type for.
TypeInPalette(q) ==
  /\ ui.palette.open /\ Target # None /\ q # ui.palette.query
  /\ ui' = [ui EXCEPT !.palette.query = q, !.palette.active = 0] /\ Local

\* The arrows go round; the pointer takes the row it is on.
MoveInPalette(k) ==
  LET n == PaletteRows(ui.palette.query)
  IN  /\ ui.palette.open /\ Target # None /\ k \in 0..(n - 1) /\ k # ui.palette.active
      /\ ui' = [ui EXCEPT !.palette.active = k] /\ Local

\* Enter takes the active row; a click the one it hits, which is active by then.
PickAnalysis ==
  LET offered == Offered(ui.palette.query)
      k  == ui.palette.active + 1
      to == IF k > Len(offered) THEN Place("process", Target, "ask")
            ELSE IF offered[k].kind = "page" THEN Place("analysis", Target, offered[k].name)
            ELSE Place("process", Target, offered[k].name)
  IN  /\ ui.palette.open /\ Target # None
      /\ \E u \in {ui, Outside(ui)} : ui' = Reached([u EXCEPT !.palette = NoPalette], to)
      /\ Local

\* What the palette offers to who has not opened a log yet.
BrowseProjects ==
  /\ ui.palette.open /\ Target = None
  /\ ui' = Reached([Outside(ui) EXCEPT !.palette = NoPalette], Place("projects", None, None))
  /\ Local

----------------------------------------------------------------------------
(* User menu and tour                                                       *)

UserMenu ==
  /\ Uncovered
  /\ ui' = [Outside(ui) EXCEPT !.menu = IF ui.menu = 0 THEN 1 ELSE 0] /\ Local

\* The entries in a ring; Escape and Tab close the menu.
MenuArrow(k) ==
  /\ Uncovered /\ ui.menu # 0 /\ k \in {0, (ui.menu % 3) + 1, ((ui.menu + 1) % 3) + 1}
  /\ ui' = [ui EXCEPT !.menu = k] /\ Local

\* Profile and settings lead to one page.
GoToSettings ==
  /\ Uncovered /\ ui.menu # 0
  /\ ui' = Reached(Outside(ui), Place("settings", None, None)) /\ Local

\* "Sign out", here or in the sidebar: the header goes with all that is only its own; a
\* tour that runs, too.
Leave ==
  /\ Uncovered
  /\ ui' = [ui EXCEPT !.at = Login, !.search = NoSearch, !.menu = 0,
                      !.tour.id = None, !.tour.due = None, !.tour.step = 0]
  /\ calls' = {} /\ UNCHANGED clash /\ Calling

ComeBack ==
  /\ ~HeaderShown /\ ui' = Reached(ui, Place("other", None, None)) /\ Local

\* The tour of the address, in place of one that still runs.
StartTour ==
  /\ ui.tour.due # None
  /\ ui' = [ui EXCEPT !.tour.id = ui.tour.due, !.tour.due = None, !.tour.step = 1]
  /\ UNCHANGED <<calls, clash>> /\ Handling

\* "Next", and "Finish" on the last step; the cross.
StepTour(skip) ==
  /\ ui.tour.step # 0
  /\ ui' = IF skip \/ ui.tour.step = 2
           THEN [Outside(ui) EXCEPT !.tour.done = @ \cup {ui.tour.id}, !.tour.id = None,
                                    !.tour.step = 0]
           ELSE [Outside(ui) EXCEPT !.tour.step = 2]
  /\ Local

----------------------------------------------------------------------------

\* A search that was typed shows what it has found.
HeaderFollows ==
  ui.search.query # None /\ ui.search.due = None => ui.search.found = ui.search.query

HeaderClicks ==
  \/ \E at \in Addresses : FollowAddress(at) \/ ChooseHit(at)
  \/ \E q \in Projects \cup {None} : TypeSearch(q)
  \/ \E b \in BOOLEAN : SearchArrow(b) \/ StepTour(b)
  \/ \E q \in Words \cup {None} : TypeInPalette(q)
  \/ \E k \in 0..4 : MoveInPalette(k) \/ MenuArrow(k)
  \/ FocusSearch \/ EscapeSearch \/ TogglePalette \/ OpenPalette \/ ClosePalette
  \/ PickAnalysis \/ BrowseProjects \/ UserMenu \/ GoToSettings \/ Leave \/ ComeBack

HeaderNext ==
  /\ page = "header"
  /\ \/ HeaderClicks \/ SendSearch \/ StartTour
     \/ \E c \in Settled("search") : SearchAnswered(c)

=============================================================================
