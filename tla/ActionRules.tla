----------------------------- MODULE ActionRules -----------------------------
(***************************************************************************)
(* The action rules of one project.  Every five minutes beat has            *)
(* evaluate_action_rules walk the enabled rules: a rule that is not in its   *)
(* cooldown and matches some cases has its action delivered and its          *)
(* bookkeeping committed, rule by rule.  Users evaluate, switch and delete   *)
(* rules meanwhile, and runs of the task may overlap.                        *)
(*                                                                         *)
(* A firing stands for all its matched cases.  The action of an External     *)
(* rule (e-mail, webhook, Slack, ticket) takes effect when it is dispatched; *)
(* that of another rule is rows of the transaction.                          *)
(***************************************************************************)
EXTENDS Integers, FiniteSets

CONSTANTS
  Rules,      \* the project's rules
  NoRule,     \* no rule at hand
  External,   \* rules whose action leaves the database
  Matching,   \* rules whose condition always matches some case
  Failing,    \* rules whose evaluation may raise, e.g. on an unreadable file
  Runs,       \* executions of evaluate_action_rules at one time
  Requests,   \* manual evaluations at one time
  Cooldown,   \* cooldown_seconds
  RunBound,   \* task_time_limit: a run is killed after it
  MaxTime,    \* bound of the clock
  MaxFires,   \* bound of the recorded firings of a rule
  MaxFaults   \* bound of the failed commits and killed workers

ASSUME RulesAssumption ==
  /\ NoRule \notin Rules
  /\ Runs \cap Requests = {} /\ IsFiniteSet(Runs \cup Requests)
  /\ Cooldown \in Nat /\ RunBound \in Nat
  /\ MaxTime \in Nat /\ MaxFires \in Nat /\ MaxFaults \in Nat

VARIABLES
  clock,       \* from 1
  rule,        \* the action_rules rows
  executions,  \* how many action_rule_executions rows each rule has
  delivered,   \* per rule: how often its action took effect, and when last
  proc,        \* per run and request: where it is and what it loaded
  faults,      \* faults so far
  overlapped   \* two runs have overlapped, or a user has evaluated a rule

vars == <<clock, rule, executions, delivered, proc, faults, overlapped>>

Procs == Runs \cup Requests

\* SQL NULL of a timestamp.
Null == 0

Row == [exists : BOOLEAN, enabled : BOOLEAN, count : Nat, last : Nat]

NewRow == [exists |-> TRUE, enabled |-> TRUE, count |-> 0, last |-> Null]

Idle == [pc |-> "idle", todo |-> {}, now |-> Null, rule |-> NoRule, count |-> 0]

Proc == [pc : {"idle", "queued", "looping", "loaded", "dispatched"},
         todo : SUBSET Rules, now : Nat, rule : Rules \cup {NoRule}, count : Nat]

TypeOK ==
  /\ clock \in Nat \ {0}
  /\ rule \in [Rules -> Row]
  /\ executions \in [Rules -> Nat]
  /\ delivered \in [Rules -> [times : Nat, at : Nat]]
  /\ proc \in [Procs -> Proc]
  /\ \A p \in Procs : proc[p].pc \in {"loaded", "dispatched"} => proc[p].rule \in Rules
  /\ faults \in 0..MaxFaults
  /\ overlapped \in BOOLEAN

Init ==
  /\ clock = 1
  /\ rule = [r \in Rules |-> NewRow]
  /\ executions = [r \in Rules |-> 0]
  /\ delivered = [r \in Rules |-> [times |-> 0, at |-> Null]]
  /\ proc = [p \in Procs |-> Idle]
  /\ faults = 0
  /\ overlapped = FALSE

Become(p, state) == proc' = [proc EXCEPT ![p] = state]

Finish(p) == Become(p, Idle)

Fault == faults < MaxFaults /\ faults' = faults + 1

\* The loop goes on to the next rule of the snapshot, if there is one.
Continue(p, todo) ==
  Become(p, IF todo = {}
            THEN Idle
            ELSE [Idle EXCEPT !.pc = "looping", !.todo = todo, !.now = proc[p].now])

AtWork(p) == proc[p].pc \in {"looping", "loaded", "dispatched"}

Running(p) == p \in Runs /\ AtWork(p)

Tick ==
  /\ clock < MaxTime
  /\ \A p \in Procs : Running(p) => clock - proc[p].now < RunBound
  /\ clock' = clock + 1
  /\ UNCHANGED <<rule, executions, delivered, proc, faults, overlapped>>

----------------------------------------------------------------------------
(* evaluate_action_rules                                                    *)

Enabled(r) == rule[r].exists /\ rule[r].enabled

\* dispatch_all_action_rules: one message per project with an enabled rule.
Dispatch(p) ==
  /\ proc[p].pc = "idle"
  /\ \E r \in Rules : Enabled(r)
  /\ Become(p, [Idle EXCEPT !.pc = "queued"])
  /\ UNCHANGED <<clock, rule, executions, delivered, faults, overlapped>>

\* The ids of the enabled rules, and the one "now" of the whole run.
Start(p) ==
  /\ proc[p].pc = "queued"
  /\ LET todo == {r \in Rules : Enabled(r)}
     IN  Become(p, IF todo = {}
                   THEN Idle
                   ELSE [Idle EXCEPT !.pc = "looping", !.todo = todo, !.now = clock])
  /\ overlapped' = (overlapped \/ \E q \in Procs : AtWork(q))
  /\ UNCHANGED <<clock, rule, executions, delivered, faults>>

\* Mutant: the cooldown is compared the wrong way round.
InCooldownReversed(r, now) ==
  rule[r].last # Null /\ now - rule[r].last >= Cooldown

InCooldown(r, now) == rule[r].last # Null /\ now - rule[r].last < Cooldown

NextRule(p, r) == proc[p].pc = "looping" /\ r \in proc[p].todo

\* Gone, switched off, in its cooldown, or nothing matches.
SkipRule(p, r) ==
  /\ NextRule(p, r)
  /\ ~Enabled(r) \/ InCooldown(r, proc[p].now) \/ r \notin Matching
  /\ Continue(p, proc[p].todo \ {r})
  /\ UNCHANGED <<clock, rule, executions, delivered, faults, overlapped>>

\* Mutant: an exception ends the run.
FailRuleEndsRun(p, r) ==
  /\ NextRule(p, r)
  /\ r \in Failing /\ Enabled(r) /\ ~InCooldown(r, proc[p].now)
  /\ Finish(p)
  /\ UNCHANGED <<clock, rule, executions, delivered, faults, overlapped>>

\* The per-rule try: log the exception, roll back, go on.
FailRule(p, r) ==
  /\ NextRule(p, r)
  /\ r \in Failing /\ Enabled(r) /\ ~InCooldown(r, proc[p].now)
  /\ Continue(p, proc[p].todo \ {r})
  /\ UNCHANGED <<clock, rule, executions, delivered, faults, overlapped>>

\* The rule is due and some cases match.
LoadRule(p, r) ==
  /\ NextRule(p, r)
  /\ Enabled(r)
  /\ ~InCooldown(r, proc[p].now)
  /\ Become(p, [proc[p] EXCEPT !.pc = "loaded", !.todo = @ \ {r},
                               !.rule = r, !.count = rule[r].count])
  /\ UNCHANGED <<clock, rule, executions, delivered, faults, overlapped>>

\* POST /action-rules/{id}/evaluate?dry_run=false knows no cooldown and does
\* not ask whether the rule is enabled.
ManualLoad(p, r) ==
  /\ proc[p].pc = "idle"
  /\ rule[r].exists
  /\ Become(p, [Idle EXCEPT !.pc = "loaded", !.rule = r, !.count = rule[r].count])
  /\ overlapped' = TRUE
  /\ UNCHANGED <<clock, rule, executions, delivered, faults>>

Delivery(r) ==
  delivered' = [delivered EXCEPT ![r] = [times |-> @.times + 1, at |-> clock]]

\* Mutant: the action is dispatched again while the rule is not yet committed.
DispatchActionsUncounted(p) ==
  /\ proc[p].pc \in {"loaded", "dispatched"}
  /\ Become(p, [proc[p] EXCEPT !.pc = "dispatched"])
  /\ IF proc[p].rule \in External
     THEN delivered[proc[p].rule].times < MaxFires /\ Delivery(proc[p].rule)
     ELSE UNCHANGED delivered
  /\ UNCHANGED <<clock, rule, executions, faults, overlapped>>

\* dispatch_action for every matched case.
DispatchActions(p) ==
  /\ proc[p].pc = "loaded"
  /\ Become(p, [proc[p] EXCEPT !.pc = "dispatched"])
  /\ IF proc[p].rule \in External
     THEN delivered[proc[p].rule].times < MaxFires /\ Delivery(proc[p].rule)
     ELSE UNCHANGED delivered
  /\ UNCHANGED <<clock, rule, executions, faults, overlapped>>

\* Mutant: the executions are rolled back, the count is not.
CommitRuleWithoutExecution(p) ==
  LET r == proc[p].rule
  IN  /\ proc[p].pc = "dispatched"
      /\ rule[r].exists
      /\ rule' = [rule EXCEPT ![r].count = proc[p].count + 1,
                              ![r].last = IF p \in Runs THEN proc[p].now ELSE clock]
      /\ UNCHANGED executions
      /\ IF r \in External THEN UNCHANGED delivered ELSE Delivery(r)
      /\ Continue(p, proc[p].todo)
      /\ UNCHANGED <<clock, faults, overlapped>>

\* Executions, Task rows, the count read before and the time, in one
\* transaction: the time is the run's "now", or that of the request.
CommitRule(p) ==
  LET r == proc[p].rule
  IN  /\ proc[p].pc = "dispatched"
      /\ rule[r].exists
      /\ executions[r] < MaxFires
      /\ rule' = [rule EXCEPT ![r].count = proc[p].count + 1,
                              ![r].last = IF p \in Runs THEN proc[p].now ELSE clock]
      /\ executions' = [executions EXCEPT ![r] = @ + 1]
      /\ IF r \in External THEN UNCHANGED delivered ELSE Delivery(r)
      /\ Continue(p, proc[p].todo)
      /\ UNCHANGED <<clock, faults, overlapped>>

\* The transaction fails: the rule was deleted, or the database went away.
RollbackRule(p) ==
  /\ proc[p].pc = "dispatched"
  /\ \/ ~rule[proc[p].rule].exists /\ UNCHANGED faults
     \/ Fault
  /\ Continue(p, proc[p].todo)
  /\ UNCHANGED <<clock, rule, executions, delivered, overlapped>>

\* The worker is killed, or the API process restarted.
Crash(p) ==
  /\ proc[p].pc \in {"looping", "loaded", "dispatched"}
  /\ Fault
  /\ Finish(p)
  /\ UNCHANGED <<clock, rule, executions, delivered, overlapped>>

----------------------------------------------------------------------------
(* The other writers of the rows                                            *)

\* Mutant: switching a rule backdates its last firing to make it due.
UpdateRuleBackdates(r, enabled) ==
  /\ rule[r].exists
  /\ rule' = [rule EXCEPT ![r].enabled = enabled, ![r].last = clock - Cooldown]
  /\ UNCHANGED <<clock, executions, delivered, proc, faults, overlapped>>

UpdateRule(r, enabled) ==
  /\ rule[r].exists
  /\ rule' = [rule EXCEPT ![r].enabled = enabled]
  /\ UNCHANGED <<clock, executions, delivered, proc, faults, overlapped>>

\* The executions go with the rule (ON DELETE CASCADE).
DeleteRule(r) ==
  /\ rule[r].exists
  /\ rule' = [rule EXCEPT ![r].exists = FALSE]
  /\ executions' = [executions EXCEPT ![r] = 0]
  /\ UNCHANGED <<clock, delivered, proc, faults, overlapped>>

----------------------------------------------------------------------------

Walk(p) == \E r \in Rules : SkipRule(p, r) \/ FailRule(p, r) \/ LoadRule(p, r)

Fire(p) == DispatchActions(p) \/ CommitRule(p) \/ RollbackRule(p)

Next ==
  \/ Tick
  \/ \E p \in Runs : Dispatch(p) \/ Start(p) \/ Walk(p)
  \/ \E p \in Requests, r \in Rules : ManualLoad(p, r)
  \/ \E p \in Procs : Fire(p) \/ Crash(p)
  \/ \E r \in Rules : DeleteRule(r) \/ \E enabled \in BOOLEAN : UpdateRule(r, enabled)

Spec == Init /\ [][Next]_vars

\* Beat fires, workers take messages and go on.
Fairness ==
  /\ WF_vars(\E p \in Runs : Dispatch(p))
  /\ \A p \in Runs : WF_vars(Start(p) \/ Walk(p) \/ Fire(p))

FairSpec == Spec /\ Fairness

----------------------------------------------------------------------------
(* What must hold                                                           *)

\* trigger_count never runs ahead of the recorded executions, however
\* evaluations overlap, fail and die (tasks.py evaluate_action_rules,
\* action_rules.py evaluate_rule_endpoint).
NeverOvercounted == \A r \in Rules : rule[r].exists => rule[r].count <= executions[r]

\* One evaluation at a time, and nothing has failed.
Undisturbed == ~overlapped /\ faults = 0

\* tasks.py:791-793: "The rule-metadata bookkeeping (last_triggered_at,
\* trigger_count, ActionRuleExecution rows) is committed on the same async
\* session so it stays consistent with the inserted Tasks"; it does while evaluations
\* neither overlap nor fail.
CountsAgree == Undisturbed => \A r \in Rules : rule[r].exists => rule[r].count = executions[r]

\* What separates two deliveries of a rule: the cooldown less the time a run
\* may take, for last_triggered_at is the start of the run
\* (tasks.py evaluate_action_rules, now).
Spaced(gap) ==
  \A r \in Rules :
    delivered'[r].times # delivered[r].times
      => delivered[r].times = 0 \/ clock - delivered[r].at >= gap

DeliveriesSpaced == [][Undisturbed' => Spaced(Cooldown - RunBound)]_vars

\* A delivery is made and not yet committed.
Uncommitted(p, r) ==
  proc[p].rule = r /\ proc[p].pc = "dispatched" /\ r \in External

InFlight(r) == Cardinality({p \in Procs : Uncommitted(p, r)})

\* What a rule has done and its history agree, however evaluations overlap: an
\* execution without its effect there never is, and an effect without an execution
\* is about to be committed or is one that a failed commit or a dead process has
\* left behind (tasks.py evaluate_action_rules, action_engine.py dispatch_action).
EffectsRecorded ==
  \A r \in Rules : rule[r].exists =>
    /\ executions[r] + InFlight(r) <= delivered[r].times
    /\ delivered[r].times <= executions[r] + InFlight(r) + faults

\* MaxFires stops the model, not the code.
AtBound == \E r \in Rules : executions[r] = MaxFires \/ delivered[r].times = MaxFires

\* A rule that matches fires, whatever the other rules of its project do: a
\* failing rule does not end the run (tasks.py, the per-rule try).
EnabledRulesFire ==
  \A r \in Matching \ Failing :
    Enabled(r) ~> delivered[r].times > 0 \/ ~Enabled(r) \/ AtBound

----------------------------------------------------------------------------
(* The inductive invariants behind NeverOvercounted and, for runs that do   *)
(* not overlap, CountsAgree and DeliveriesSpaced                            *)

Firing(p) == proc[p].pc \in {"loaded", "dispatched"}

OvercountInv ==
  /\ NeverOvercounted
  /\ \A p \in Procs : Firing(p) /\ rule[proc[p].rule].exists
                         => proc[p].count <= executions[proc[p].rule]

\* A delivery is still to come.
Due(p, r) ==
  /\ proc[p].rule = r
  /\ proc[p].pc = "loaded" \/ (proc[p].pc = "dispatched" /\ r \notin External)

\* One run is at work.
Alone == \A p, q \in Procs : AtWork(p) /\ AtWork(q) => p \in Runs /\ p = q

SerialFacts ==
  /\ Alone
  /\ \A p \in Runs : Running(p) =>
        proc[p].now # Null /\ proc[p].now <= clock /\ clock <= proc[p].now + RunBound
  /\ \A r \in Rules : rule[r].exists => rule[r].count = executions[r]
  /\ \A p \in Runs : Firing(p) /\ rule[proc[p].rule].exists
                        => proc[p].count = rule[proc[p].rule].count
  /\ \A r \in Rules : rule[r].exists /\ delivered[r].times # 0 =>
        \/ rule[r].last # Null /\ delivered[r].at <= rule[r].last + RunBound
        \/ \E p \in Runs : Uncommitted(p, r)
  /\ \A r \in Rules, p \in Runs : Uncommitted(p, r) =>
        delivered[r].at <= proc[p].now + RunBound
  /\ \A r \in Rules, p \in Runs : Due(p, r) =>
        delivered[r].times = 0 \/ delivered[r].at + Cooldown <= proc[p].now + RunBound

SerialInv == Undisturbed => SerialFacts

=============================================================================
