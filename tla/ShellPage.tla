------------------------------ MODULE ShellPage ------------------------------
(***************************************************************************)
(* components/Layout/ProjectSwitcher, Sidebar and ActiveLogNav with           *)
(* ProjectPickerPage and store/uiStore.ts: what every page has beside it.     *)
(* The address gives a project, or a log whose project is looked up; the last *)
(* ones are remembered.  What lies in the header is in HeaderPage.            *)
(***************************************************************************)
EXTENDS Spa

Route(kind, id) == [kind |-> kind, id |-> id]

Elsewhere == Route("other", None)

Picker == Route("picker", None)

Routes == {Elsewhere, Picker} \cup {Route("project", p) : p \in Projects}
            \cup {Route("log", i) : i \in Existing}

ShellUi == [at : Routes, pid : Projects \cup {None}, project : Projects \cup {None},
            named : Items \cup {None}, lastProject : Projects \cup {None},
            lastLog : Items \cup {None}, listed : SUBSET Projects, listing : BOOLEAN,
            sidebar : BOOLEAN, dropdown : BOOLEAN]

----------------------------------------------------------------------------
(* Addresses                                                                *)

\* The picker goes on by itself with the project of before, or the only one.
AutoTarget(u) ==
  IF u.lastProject \in u.listed THEN u.lastProject
  ELSE IF Cardinality(u.listed) = 1 THEN CHOOSE p \in u.listed : TRUE
  ELSE None

Heading(u, r) ==
  IF r = Picker /\ ~u.listing /\ AutoTarget(u) # None
  THEN Route("project", AutoTarget(u)) ELSE r

\* The effects of an address; on the picker, even one that goes on at once, the
\* switcher has no project.
Arrived(u, r) ==
  LET to == Heading(u, r)
      on == IF to.kind = "project" THEN to.id ELSE None
  IN  [u EXCEPT !.at = to, !.listing = @ \/ r = Picker, !.named = None,
                !.pid = IF to.kind = "log" THEN @ ELSE on,
                !.project = IF r.kind \in {"log", "project"} THEN @ ELSE None,
                !.lastProject = IF on = None THEN @ ELSE on,
                !.lastLog = IF to.kind = "log" THEN to.id ELSE @]

\* The cleanup of the switcher's effect.
Cancelled(others) ==
  {IF c.op \in {"switchProject", "resolveLog"} THEN [c EXCEPT !.arg = [live |-> FALSE]]
   ELSE c : c \in others}

LookUp(others, op, on) == others \cup {Request(op, on, [live |-> TRUE], others)}

\* "u" goes to r, with "others" in flight.
Visit(u, r, others) ==
  LET v    == Arrived(u, r)
      list == IF r = Picker THEN LookUp(Cancelled(others), "pickProjects", None)
              ELSE Cancelled(others)
  IN  /\ ui' = v
      /\ calls' = CASE v.at.kind = "project" -> LookUp(list, "switchProject", v.at.id)
                    [] v.at.kind = "log" -> LookUp(list, "resolveLog", v.at.id)
                    [] OTHER -> list
      /\ clash' = (clash \/ others # {})

ShellInit(last, log, all) ==
  /\ page = "shell" /\ db = all /\ calls = {}
  /\ ui = [at |-> Elsewhere, pid |-> None, project |-> None, named |-> None,
           lastProject |-> last, lastLog |-> log, listed |-> {}, listing |-> FALSE,
           sidebar |-> TRUE, dropdown |-> FALSE]

----------------------------------------------------------------------------
(* Sidebar and switcher                                                     *)

\* The switcher has no place on a page without a project.
HasPlace(u) == u.at.kind \in {"project", "log"}

\* A press of the mouse beside the dropdown closes it, if it has a place.
Pressed(u) == [u EXCEPT !.dropdown = @ /\ ~HasPlace(u)]

\* A link of the sidebar, which hides the sidebar in a narrow window.
Linked(u, narrow) == [u EXCEPT !.sidebar = @ /\ ~narrow]

\* To another address: with a link of the sidebar, a link elsewhere, the keyboard or the
\* buttons of the browser.  The palette leads to the last log, which may be gone.
Navigate(r) ==
  /\ r # ui.at /\ (r.kind = "project" => r.id \in db)
  /\ r.kind = "log" => r.id = ui.lastLog \/ ProjectOf[r.id] \in db
  /\ \E u \in {ui, Pressed(ui), Linked(Pressed(ui), TRUE)} : Visit(u, r, calls)
  /\ Calling

ToggleSidebar == ui' = [Pressed(ui) EXCEPT !.sidebar = ~@] /\ Local

\* The buttons in it that open the palette.
OpenSidebar == ui' = [Pressed(ui) EXCEPT !.sidebar = TRUE] /\ Local

\* A collapsed sidebar opens first.
ClickSwitcher ==
  /\ HasPlace(ui)
  /\ ui' = IF ui.sidebar THEN [ui EXCEPT !.dropdown = ~@] ELSE [ui EXCEPT !.sidebar = TRUE]
  /\ Local

\* A link of the dropdown: of the log of the address, or of the project that is looked
\* up, which may still be the one before.
SwitcherLink(r, narrow) ==
  /\ ui.dropdown /\ ui.sidebar /\ HasPlace(ui)
  /\ \/ r = ui.at
     \/ ui.pid # None /\ r = Route("project", ui.pid)
  /\ LET u == Linked([ui EXCEPT !.dropdown = FALSE], narrow)
     IN  IF r = ui.at THEN ui' = u /\ UNCHANGED <<calls, clash>> ELSE Visit(u, r, calls)
  /\ Calling

----------------------------------------------------------------------------
(* Answers                                                                  *)

LogResolved(c) ==
  LET p == ProjectOf[c.on]
  IN  IF ~c.arg.live THEN UNCHANGED ui /\ Done(c) /\ Handling
      ELSE IF c.stage = "failed"
      THEN ui' = [ui EXCEPT !.project = None, !.pid = None] /\ Done(c) /\ Handling
      ELSE /\ ui' = [ui EXCEPT !.named = c.on, !.pid = p, !.lastProject = p]
           /\ Then(c, "switchProject", p, [live |-> TRUE]) /\ Handling

\* On a log's page a failure also forgets which project it was.
ProjectSwitched(c) ==
  /\ ui' = IF ~c.arg.live THEN ui
           ELSE IF c.stage = "ok" THEN [ui EXCEPT !.project = c.on]
           ELSE [ui EXCEPT !.project = None, !.pid = IF ui.at.kind = "log" THEN None ELSE @]
  /\ Done(c) /\ Handling

\* The list of the picker, which then may go on by itself.
ProjectsPicked(c) ==
  LET u == [ui EXCEPT !.listing = FALSE,
                      !.listed = IF c.stage = "ok" THEN c.ans.all ELSE @]
  IN  /\ IF u.at = Picker /\ Heading(u, Picker) # Picker
         THEN Visit(u, Heading(u, Picker), calls \ {c})
         ELSE ui' = u /\ Done(c)
      /\ Handling

----------------------------------------------------------------------------

ShellServer(c) ==
  \/ /\ c.op = "switchProject"
     /\ Serve(c, IF c.on \in db THEN Outcome(db, Ok) ELSE NotFound)
  \/ /\ c.op = "resolveLog"
     /\ Serve(c, IF ProjectOf[c.on] \in db THEN Outcome(db, Ok) ELSE NotFound)
  \/ c.op = "pickProjects" /\ Serve(c, Outcome(db, [all |-> db]))

\* The project of the address.
ContextOf(r) ==
  CASE r.kind = "project" -> r.id
    [] r.kind = "log" -> ProjectOf[r.id]
    [] OTHER -> None

\* The switcher shows the project and the log of the address, whatever was still
\* being looked up when it changed, and both are remembered.
SwitcherRight ==
  LET p == ContextOf(ui.at)
  IN  IF p = None \/ p \notin db THEN ui.pid = None /\ ui.project = None
      ELSE /\ ui.pid = p /\ ui.project = p /\ ui.lastProject = p
           /\ ui.at.kind = "log" => ui.named = ui.at.id /\ ui.lastLog = ui.at.id

\* The picker does not stay when the choice is plain.
ShellFollows == ui.at = Picker => AutoTarget(ui) = None

ShellClicks ==
  \/ \E r \in Routes : Navigate(r)
  \/ \E r \in Routes, narrow \in BOOLEAN : SwitcherLink(r, narrow)
  \/ ToggleSidebar \/ OpenSidebar \/ ClickSwitcher

ShellAnswers ==
  \/ \E c \in Settled("resolveLog") : LogResolved(c)
  \/ \E c \in Settled("switchProject") : ProjectSwitched(c)
  \/ \E c \in Settled("pickProjects") : ProjectsPicked(c)

ShellNext ==
  /\ page = "shell"
  /\ \/ ShellClicks \/ ShellAnswers \/ \E c \in calls : ShellServer(c)

=============================================================================
