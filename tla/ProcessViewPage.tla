--------------------------- MODULE ProcessViewPage ---------------------------
(***************************************************************************)
(* pages/ProcessViewPage.tsx with the hooks and the store it filters by: a    *)
(* log's process map, scoped by the sidebar and by the filter chips.  The page *)
(* stays mounted when another log is opened.  A project is an event log, an   *)
(* item is a facet of it (an activity, an edge, a value); a log of more than  *)
(* one facet is large.  The panes beside the map are in AnalysisViews.       *)
(***************************************************************************)
EXTENDS Spa

Algorithms == {"dfg", "inductive"}

Chip == [facet : Items, panel : BOOLEAN, off : BOOLEAN]

\* What a map is discovered from.
MapKey == [log : Projects, algorithm : Algorithms, noise : BOOLEAN,
           keep : SUBSET Items, without : SUBSET Items]

ProcessUi == [log : Projects, eventLog : Projects \cup {None}, logLoading : BOOLEAN,
              algorithm : Algorithms, noise : BOOLEAN,
              keep : SUBSET Items, without : SUBSET Items, chips : SUBSET Chip,
              map : MapKey \cup {None}, loading : BOOLEAN, error : BOOLEAN,
              landed : Projects \cup {None}, sigma : BOOLEAN, clean : BOOLEAN,
              tab : {"map", "city", "other"}]

\* store/analysisCache.ts: the cache is the session's, not the page's.
NoCache == [maps |-> {}, logs |-> {}, chosen |-> FALSE]

Facets(log) == {f \in Items : ProjectOf[f] = log}

LargeLog(log) == Cardinality(Facets(log)) > 1

\* filterStore's toProcessFilter
ToProcessFilter(u) == {c.facet : c \in {d \in u.chips : ~d.off}}

SupportsNoise(u) == u.algorithm = "inductive"

\* stableFilters and stableParams: the sidebar and the chips together.
ScopeOf(u) == [log |-> u.log, algorithm |-> u.algorithm,
               noise |-> SupportsNoise(u) /\ u.noise,
               keep |-> u.keep \cup ToProcessFilter(u), without |-> u.without]

\* What a log is shown as is chosen once per log, when it is opened or when its
\* map comes: by the size of the map the page has at that moment.
Landed(u) ==
  IF u.map = None \/ u.landed = u.log THEN u
  ELSE [u EXCEPT !.landed = u.log, !.sigma = LargeLog(u.map.log),
                 !.clean = @ \/ LargeLog(u.map.log),
                 !.tab = IF LargeLog(u.map.log) THEN "city" ELSE @]

\* fetchDiscovery, with "others" in flight, whose answers come after.
FetchDiscovery(u, key, others) ==
  IF key \in db.maps
  THEN /\ ui' = Landed([u EXCEPT !.map = key, !.loading = FALSE])
       /\ calls' = others
       /\ clash' = (clash \/ \E c \in others : c.op = "discover" /\ c.arg # key)
  ELSE /\ ui' = Landed([u EXCEPT !.loading = TRUE, !.error = FALSE])
       /\ SendAlso("discover", "map", key, others)

\* The first of two calls of one click: the map it shows, or asks for.
Shown(u, key) == IF key \in db.maps THEN [u EXCEPT !.map = key] ELSE u

Asked(key) ==
  IF key \in db.maps THEN {} ELSE {Request("discover", "map", key, calls)}

\* The effect of useProcessMap runs when what it depends on has changed.
Rescoped(u) ==
  IF ScopeOf(u) = ScopeOf(ui) THEN ui' = Landed(u) /\ UNCHANGED <<calls, clash>>
  ELSE FetchDiscovery(u, ScopeOf(u), calls)

ProcessInit(log) ==
  LET u == [log |-> log, eventLog |-> None, logLoading |-> TRUE,
            algorithm |-> "dfg", noise |-> FALSE, keep |-> {}, without |-> {},
            chips |-> {}, map |-> None, loading |-> TRUE, error |-> FALSE,
            landed |-> None, sigma |-> FALSE, clean |-> FALSE, tab |-> "map"]
  IN  /\ page = "process"
      /\ db = NoCache
      /\ ui = u
      /\ calls = {Request("loadEventLog", "log", log, {}),
                  Request("discover", "map", ScopeOf(u), {})}

\* Loading or not found otherwise.
ProcessShown == ~ui.logLoading /\ ui.eventLog # None

MapShown == ProcessShown /\ ui.tab = "map"

\* useEventLogData with the summary it goes on with.
EventLogLoaded(c) ==
  /\ IF c.stage = "ok"
     THEN /\ ui' = [ui EXCEPT !.eventLog = c.arg, !.logLoading = FALSE]
          /\ db' = [db EXCEPT !.logs = @ \cup {c.arg}]
     ELSE ui' = [ui EXCEPT !.logLoading = FALSE] /\ UNCHANGED db
  /\ Done(c) /\ UNCHANGED <<page, clicks, faults>>

\* fetchDiscovery's answer; an error leaves the map that is there.
MapDiscovered(c) ==
  /\ IF c.stage = "ok"
     THEN /\ ui' = Landed([ui EXCEPT !.map = c.arg, !.loading = FALSE])
          /\ db' = [db EXCEPT !.maps = @ \cup {c.arg}]
     ELSE ui' = [ui EXCEPT !.error = TRUE, !.loading = FALSE] /\ UNCHANGED db
  /\ Done(c) /\ UNCHANGED <<page, clicks, faults>>

\* Shown only while there is no map at all.
RetryDiscovery ==
  /\ MapShown /\ ~ui.loading /\ ui.map = None /\ ui.error
  /\ FetchDiscovery(ui, ScopeOf(ui), calls) /\ Calling

\* useFilterUrlSync's setEventLog: the chips of the log that was open.
WipeChips(u) == [u EXCEPT !.chips = {}]

\* The header's search or the palette opens another log.  The map is asked for
\* with the chips of the log before, and again once they are gone.
OpenLog(log) ==
  LET opened == Landed([ui EXCEPT !.log = log, !.logLoading = log \notin db.logs,
                                  !.eventLog = IF log \in db.logs THEN log ELSE @])
      wiped  == WipeChips(Shown(opened, ScopeOf(opened)))
      asked  == IF ScopeOf(opened) = ScopeOf(wiped) THEN {} ELSE Asked(ScopeOf(opened))
      named  == IF log \in db.logs THEN {} ELSE {Request("loadEventLog", "log", log, calls)}
  IN  /\ log # ui.log
      /\ FetchDiscovery(wiped, ScopeOf(wiped), calls \cup asked \cup named)
      /\ db' = [db EXCEPT !.chosen = FALSE]
      /\ Click /\ UNCHANGED <<page, faults>>

\* handleAlgorithmChange asks with the noise there was; so does then the effect,
\* with none.
ChooseAlgorithm(a) ==
  LET key    == [ScopeOf(ui) EXCEPT !.algorithm = a]
      chosen == [Shown(ui, key) EXCEPT !.algorithm = a, !.noise = FALSE]
  IN  /\ MapShown /\ a # ui.algorithm
      /\ FetchDiscovery(chosen, ScopeOf(chosen), calls \cup Asked(key))
      /\ Calling

SetNoise ==
  /\ MapShown /\ SupportsNoise(ui)
  /\ Rescoped([ui EXCEPT !.noise = ~@]) /\ Calling

\* useProcessFilters: the sidebar's chips are made anew, the others stay.
ReflectPanel(u) ==
  [u EXCEPT !.chips = {c \in @ : ~c.panel}
     \cup {[facet |-> f, panel |-> TRUE, off |-> FALSE] : f \in u.keep}]

\* FilterPanel, or an edge's dialog; what the log's options offer can be added.
FilterWith(f) ==
  /\ MapShown /\ f \in Facets(ui.log) \cup ui.keep
  /\ Rescoped(ReflectPanel([ui EXCEPT !.keep = IF f \in @ THEN @ \ {f} ELSE @ \cup {f}]))
  /\ Calling

FilterWithout(f) ==
  /\ MapShown /\ f \in Facets(ui.log) \cup ui.without
  /\ Rescoped(ReflectPanel([ui EXCEPT !.without = IF f \in @ THEN @ \ {f} ELSE @ \cup {f}]))
  /\ Calling

\* A click on a node of the map, or its menu.
AddChip(f) ==
  /\ MapShown /\ ~ui.loading /\ ui.map # None /\ f \in Facets(ui.map.log)
  /\ [facet |-> f, panel |-> FALSE, off |-> FALSE] \notin ui.chips
  /\ Rescoped([ui EXCEPT !.chips = @ \cup {[facet |-> f, panel |-> FALSE, off |-> FALSE]}])
  /\ Calling

\* FilterChipBar, there with a map.
ChipsShown == MapShown /\ ~ui.loading /\ ui.map # None

ToggleChip(chip) ==
  /\ ChipsShown /\ chip \in ui.chips
  /\ Rescoped([ui EXCEPT !.chips = (@ \ {chip}) \cup {[chip EXCEPT !.off = ~@]}])
  /\ Calling

RemoveChip(chip) ==
  /\ ChipsShown /\ chip \in ui.chips
  /\ Rescoped([ui EXCEPT !.chips = @ \ {chip}]) /\ Calling

ClearChips ==
  /\ ChipsShown /\ ui.chips # {} /\ Rescoped([ui EXCEPT !.chips = {}]) /\ Calling

ChooseTab(t) ==
  /\ ProcessShown /\ t # ui.tab /\ ui' = [ui EXCEPT !.tab = t] /\ Local

\* Either renderer, by hand.
ChooseEngine ==
  /\ MapShown /\ ui' = [ui EXCEPT !.sigma = ~@]
  /\ db' = [db EXCEPT !.chosen = TRUE]
  /\ Click /\ UNCHANGED <<page, calls, faults, clash>>

----------------------------------------------------------------------------

ProcessClicks ==
  \/ RetryDiscovery \/ SetNoise \/ ClearChips \/ ChooseEngine
  \/ \E log \in Projects : OpenLog(log)
  \/ \E a \in Algorithms : ChooseAlgorithm(a)
  \/ \E f \in Items : FilterWith(f) \/ FilterWithout(f) \/ AddChip(f)
  \/ \E chip \in ui.chips : ToggleChip(chip) \/ RemoveChip(chip)
  \/ \E t \in {"map", "city", "other"} : ChooseTab(t)

ProcessAnswers ==
  \/ \E c \in Settled("loadEventLog") : EventLogLoaded(c)
  \/ \E c \in Settled("discover") : MapDiscovered(c)

\* The server only reads.
ProcessNext == page = "process" /\ (ProcessClicks \/ ProcessAnswers)

=============================================================================
