------------------------------ MODULE PulsePage ------------------------------
(***************************************************************************)
(* pages/ProcessPulsePage.tsx: a log's map on a stage, built by an effect     *)
(* when the map it has is another, coloured by a lens, with particles along   *)
(* its edges.  A spinner, an error or a map without activities takes the     *)
(* stage away; the graph stays with the stage it was built on.  The server's  *)
(* maps are cached for the session.  A project is an event log; its name in   *)
(* the heading, speed and zoom are left out.                                *)
(***************************************************************************)
EXTENDS Spa

Lenses == {"throughput", "duration", "health"}

\* The answer of one discovery; two of the same log are different objects.
PulseMap == [log : Projects, n : Nat]

\* "here": the graph was built on the stage that is shown.
PulseGraph == [map : PulseMap, lens : Lenses, here : BOOLEAN]

\* No map and no graph are neither.
ASSUME PulseAssumption == None \notin PulseMap \cup PulseGraph

\* "back": the stage came back and the map did not change.
PulseUi == [log : Projects, map : PulseMap \cup {None}, loading : BOOLEAN,
            error : BOOLEAN, lens : Lenses, playing : BOOLEAN,
            graph : PulseGraph \cup {None},
            particles : PulseMap \cup {None}, back : BOOLEAN]

OnStage(u) == ~u.loading /\ ~u.error /\ u.map # None /\ u.map.log \notin db.bare

\* Mutant: the particles of the map before stay.
PulseBuiltUnder(u) ==
  IF OnStage(u)
  THEN [u EXCEPT !.graph = [map |-> u.map, lens |-> u.lens, here |-> TRUE], !.back = FALSE]
  ELSE [u EXCEPT !.graph = None, !.back = FALSE]

\* The effects after the map has changed: the graph is built in the colours of the
\* activities and takes those of the lens, the particles are gone.
PulseBuilt(u) ==
  IF OnStage(u)
  THEN [u EXCEPT !.graph = [map |-> u.map, lens |-> u.lens, here |-> TRUE],
                 !.particles = None, !.back = FALSE]
  ELSE [u EXCEPT !.graph = None, !.back = FALSE]

\* A render of the state u.
PulseRendered(u) ==
  IF u.map # ui.map THEN PulseBuilt(u)
  ELSE [u EXCEPT !.graph = IF u.graph = None THEN None
                           ELSE [u.graph EXCEPT !.here = @ /\ OnStage(u)],
                 !.back = @ \/ (OnStage(u) /\ ~OnStage(ui))]

PulseMounted(log, map) ==
  [log |-> log, map |-> map, loading |-> map = None, error |-> FALSE,
   lens |-> "throughput", playing |-> TRUE, graph |-> None, particles |-> None,
   back |-> FALSE]

AskPulse(log, n) == Request("discover", "pulse", [log |-> log, n |-> n], {})

\* "bare" are the logs whose map has no activities.
PulseInit(log, kept, bare) ==
  LET map == IF kept THEN [log |-> log, n |-> 0] ELSE None
      u   == PulseMounted(log, map)
  IN  /\ page = "pulse"
      /\ db = [kept |-> [p \in Projects |-> IF p = log THEN map ELSE None], bare |-> bare]
      /\ ui = IF kept THEN PulseBuilt(u) ELSE u
      /\ calls = IF kept THEN {} ELSE {AskPulse(log, 0)}

\* The sidebar's switcher opens another log on this page; a map that is cached is
\* shown at once, and an error before it is not cleared.
OpenPulse(log) ==
  LET u == [ui EXCEPT !.log = log]
  IN  /\ log # ui.log
      /\ IF db.kept[log] # None
         THEN /\ ui' = PulseRendered([u EXCEPT !.map = db.kept[log], !.loading = FALSE])
              /\ UNCHANGED calls
              /\ clash' = (clash \/ calls # {})
         ELSE /\ ui' = PulseRendered([u EXCEPT !.loading = TRUE, !.error = FALSE])
              /\ Send("discover", "pulse", [log |-> log, n |-> clicks + 1])
      /\ Calling

\* The answer is taken for whatever log is open.
PulseDiscovered(c) ==
  /\ IF c.stage = "ok"
     THEN /\ db' = [db EXCEPT !.kept[c.arg.log] = c.arg]
          /\ ui' = PulseRendered([ui EXCEPT !.map = c.arg, !.loading = FALSE])
     ELSE /\ ui' = PulseRendered([ui EXCEPT !.error = TRUE, !.loading = FALSE])
          /\ UNCHANGED db
  /\ Done(c) /\ UNCHANGED <<page, clicks, faults>>

\* The error's button loads the whole page again.
ReloadPulse ==
  /\ ~ui.loading /\ ui.error
  /\ ui' = PulseMounted(ui.log, None)
  /\ calls' = {AskPulse(ui.log, clicks + 1)}
  /\ db' = [db EXCEPT !.kept = [p \in Projects |-> None]]
  /\ Click /\ UNCHANGED <<page, faults, clash>>

Toolbar == ~ui.loading /\ ~ui.error

\* The nodes are recoloured, wherever the graph is.
ChooseLens(l) ==
  /\ Toolbar /\ l # ui.lens
  /\ ui' = [ui EXCEPT !.lens = l,
                      !.graph = IF @ = None THEN None ELSE [@ EXCEPT !.lens = l]]
  /\ Local

TogglePlay == Toolbar /\ ui' = [ui EXCEPT !.playing = ~@] /\ Local

\* A frame of the loop, which runs as long as the page does.
PulseFrame ==
  /\ OnStage(ui) /\ ui.graph # None /\ ui.playing /\ ui.particles # ui.graph.map
  /\ ui' = [ui EXCEPT !.particles = ui.graph.map]
  /\ UNCHANGED <<page, db, calls, clicks, faults, clash>>

PulseFollows == ui.map # None /\ ui.map.log = ui.log

\* However logs are opened and calls fail and overlap, the stage has on it the graph
\* of the map the page has, in the colours of the lens, and no particle runs along
\* the edges of another; but for a stage that came back with the map it had.
PulseRight ==
  OnStage(ui) /\ ~ui.back =>
    /\ ui.graph = [map |-> ui.map, lens |-> ui.lens, here |-> TRUE]
    /\ ui.particles \in {None, ui.map}

PulseNext ==
  /\ page = "pulse"
  /\ \/ \E log \in Projects : OpenPulse(log)
     \/ \E l \in Lenses : ChooseLens(l)
     \/ ReloadPulse \/ TogglePlay \/ PulseFrame
     \/ \E c \in Settled("discover") : PulseDiscovered(c)

=============================================================================
