--------------------------- MODULE ActionRulesPage ---------------------------
(***************************************************************************)
(* pages/ActionRulesPage.tsx: the rules of the chosen project, a form to     *)
(* create or edit one, switches, "run now" and the history of each rule.     *)
(* ui.logs is the project whose event logs the form offers.                  *)
(***************************************************************************)
EXTENDS Spa

RulesUi == [project : Projects \cup {None}, rows : [Items -> Nat],
            logs : Projects \cup {None}, loading : BOOLEAN, saving : BOOLEAN,
            running : Items \cup {None}, form : Items \cup {"new", "closed"},
            history : [Items -> Nat \cup {None}], expanded : Items \cup {None}]

RulesInit ==
  /\ page = "rules"
  /\ db = [row |-> FirstRows, fired |-> NoRows]
  /\ ui = [project |-> None, rows |-> NoRows, logs |-> None, loading |-> FALSE,
           saving |-> FALSE, running |-> None, form |-> "closed",
           history |-> [i \in Items |-> None], expanded |-> None]
  /\ calls = {}

\* What is listed can be clicked, unless a form covers it.
RuleShown(r) == ui.rows[r] # 0 /\ ~ui.loading /\ ui.form = "closed"

\* The select; the effect on projectId runs loadForProject.
ChooseRulesProject(p) ==
  /\ p # ui.project
  /\ ui.form = "closed"
  /\ ui' = [ui EXCEPT !.project = p, !.loading = TRUE]
  /\ Send("loadRules", p, None)
  /\ Calling

\* Promise.all of rules, logs and connectors, in loadForProject; what waits
\* for it then goes on: the save, or the run, which reloads an open history.
RulesLoaded(c) ==
  /\ ui' = [ui EXCEPT
       !.loading = FALSE,
       !.rows = IF c.stage = "ok" THEN c.ans.rows ELSE @,
       !.logs = IF c.stage = "ok" THEN c.on ELSE @,
       !.saving = IF c.arg = "save" THEN FALSE ELSE @,
       !.running = IF c.arg = "run" THEN None ELSE @]
  /\ IF c.arg \in Items THEN Then(c, "loadHistory", c.arg, "run") ELSE Done(c)
  /\ Handling

OpenRuleForm(f) ==
  /\ f = "new" \/ (f \in Items /\ RuleShown(f))
  /\ ui.project # None /\ ui.form = "closed"
  /\ ui' = [ui EXCEPT !.form = f]
  /\ Local

CloseRuleForm ==
  /\ ui.form # "closed"
  /\ ui' = [ui EXCEPT !.form = "closed"]
  /\ Local

\* Mutant: the button stays enabled while a save is under way.
SaveRuleAgain ==
  /\ ui.form # "closed" /\ ui.logs # None
  /\ ui' = [ui EXCEPT !.saving = TRUE]
  /\ IF ui.form = "new"
     THEN Send("createRule", ui.project, ui.logs)
     ELSE Send("updateRule", ui.form, ui.project)
  /\ Calling

\* handleSave of the form: an event log must be chosen; the button is disabled
\* while a save is under way.
SaveRule ==
  /\ ui.form # "closed" /\ ui.logs # None /\ ~ui.saving
  /\ ui' = [ui EXCEPT !.saving = TRUE]
  /\ IF ui.form = "new"
     THEN Send("createRule", ui.project, ui.logs)
     ELSE Send("updateRule", ui.form, ui.project)
  /\ Calling

\* A saved form closes whichever form is open, and the list is loaded again
\* for the project of the time of the click.
RuleSaved(c) ==
  /\ IF c.stage = "ok"
     THEN /\ ui' = [ui EXCEPT !.form = "closed", !.loading = TRUE]
          /\ Then(c, "loadRules", IF c.op = "createRule" THEN c.on ELSE c.arg, "save")
     ELSE ui' = [ui EXCEPT !.saving = FALSE] /\ Done(c)
  /\ Handling

ToggleRule(r) ==
  /\ RuleShown(r)
  /\ Send("toggleRule", r, None)
  /\ UNCHANGED ui /\ Calling

RuleToggled(c) ==
  /\ ui' = IF c.stage = "ok" /\ ui.rows[c.on] # 0 THEN [ui EXCEPT !.rows[c.on] = c.ans.row] ELSE ui
  /\ Done(c) /\ Handling

RemoveRule(r) ==
  /\ RuleShown(r)
  /\ Send("deleteRule", r, None)
  /\ UNCHANGED ui /\ Calling

\* Mutant: the row of a deleted rule stays.
RuleRemovedStays(c) == UNCHANGED ui /\ Done(c) /\ Handling

RuleRemoved(c) ==
  /\ ui' = IF c.stage = "ok" THEN [ui EXCEPT !.rows[c.on] = 0] ELSE ui
  /\ Done(c) /\ Handling

\* A run of the rule whose history is open loads the history when it is through.
RunOps == {"runRule", "runOpenRule"}

\* handleRunNow keeps the project and the open history of the click.
RunRule(r) ==
  /\ RuleShown(r) /\ ui.running # r
  /\ ui' = [ui EXCEPT !.running = r]
  /\ Send(IF ui.expanded = r THEN "runOpenRule" ELSE "runRule", r, ui.project)
  /\ Calling

RuleRan(c) ==
  /\ IF c.stage = "ok"
     THEN /\ ui' = [ui EXCEPT !.loading = TRUE]
          /\ Then(c, "loadRules", c.arg, IF c.op = "runOpenRule" THEN c.on ELSE "run")
     ELSE ui' = [ui EXCEPT !.running = None] /\ Done(c)
  /\ Handling

\* toggleHistory: a history that was loaded once is shown as it is.
ExpandHistory(r) ==
  /\ RuleShown(r)
  /\ ui' = [ui EXCEPT !.expanded = IF @ = r THEN None ELSE r]
  /\ IF ui.expanded # r /\ ui.history[r] = None
     THEN Send("loadHistory", r, None) /\ Calling
     ELSE Local

\* loadExecutions; a failure is an empty history.
HistoryLoaded(c) ==
  /\ ui' = [ui EXCEPT
       !.history[c.on] = IF c.stage = "ok" THEN c.ans.list ELSE 0,
       !.running = IF c.arg = "run" THEN None ELSE @]
  /\ Done(c) /\ Handling

----------------------------------------------------------------------------

\* api/action_rules.py.  evaluate with dry_run=false records executions.
RulesServer(c) ==
  LET row == db.row  r == c.on
  IN  IF c.op = "createRule"
      THEN {Outcome([db EXCEPT !.row[i] = 1], Ok) : i \in Vacant(c.on, row)}
      ELSE IF c.op = "loadRules" THEN {Outcome(db, [rows |-> RowsOf(c.on, row)])}
      ELSE IF row[r] = 0 THEN {NotFound}
      ELSE {CASE c.op = "deleteRule" -> Outcome([db EXCEPT !.row[r] = 0, !.fired[r] = 0], Ok)
              [] c.op \in RunOps ->
                   Outcome([db EXCEPT !.row[r] = @ + 1, !.fired[r] = @ + 1], Ok)
              [] c.op = "loadHistory" -> Outcome(db, [list |-> db.fired[r]])
              [] OTHER -> Outcome([db EXCEPT !.row[r] = @ + 1], [row |-> row[r] + 1])}

RulesClicks ==
  \/ \E p \in Projects : ChooseRulesProject(p)
  \/ \E f \in Items \cup {"new"} : OpenRuleForm(f)
  \/ CloseRuleForm \/ SaveRule
  \/ \E r \in Items : ToggleRule(r) \/ RemoveRule(r) \/ RunRule(r) \/ ExpandHistory(r)

RulesAnswers ==
  \/ \E c \in Settled("loadRules") : RulesLoaded(c)
  \/ \E c \in Settled("createRule") \cup Settled("updateRule") : RuleSaved(c)
  \/ \E c \in Settled("toggleRule") : RuleToggled(c)
  \/ \E c \in Settled("deleteRule") : RuleRemoved(c)
  \/ \E c \in UNION {Settled(op) : op \in RunOps} : RuleRan(c)
  \/ \E c \in Settled("loadHistory") : HistoryLoaded(c)

RulesNext ==
  /\ page = "rules"
  /\ RulesClicks \/ RulesAnswers \/ \E c \in calls : \E o \in RulesServer(c) : Serve(c, o)

=============================================================================
