-------------------------- MODULE ActionRules_proofs --------------------------
(***************************************************************************)
(* For every set of rules, runs and requests: types, and that trigger_count *)
(* never runs ahead of the executions.  Until evaluations overlap or fail:   *)
(* the count is the number of executions, and deliveries of a rule are at    *)
(* least the cooldown less a run's time apart.                               *)
(***************************************************************************)
EXTENDS ActionRules, FiniteSetTheorems, TLAPS

\* The states that the steps of a run or a request give it.
LEMMA ProcTypes ==
  ASSUME TypeOK, NEW p \in Procs
  PROVE  /\ Idle \in Proc
         /\ [Idle EXCEPT !.pc = "queued"] \in Proc
         /\ \A todo \in SUBSET Rules, now \in Nat :
              [Idle EXCEPT !.pc = "looping", !.todo = todo, !.now = now] \in Proc
         /\ \A r \in Rules, n \in Nat :
              /\ [proc[p] EXCEPT !.pc = "loaded", !.todo = @ \ {r},
                                 !.rule = r, !.count = n] \in Proc
              /\ [Idle EXCEPT !.pc = "loaded", !.rule = r, !.count = n] \in Proc
         /\ [proc[p] EXCEPT !.pc = "dispatched"] \in Proc
<1>1. Null \in Nat /\ {} \subseteq Rules /\ NoRule \in Rules \cup {NoRule}
      /\ proc[p] \in Proc
  BY DEF Null, TypeOK
<1> HIDE DEF Null
<1>2. Idle \in Proc
  BY <1>1 DEF Idle, Proc
<1>3. [Idle EXCEPT !.pc = "queued"] \in Proc
  BY <1>1 DEF Idle, Proc
<1>4. ASSUME NEW todo \in SUBSET Rules, NEW now \in Nat
      PROVE  [Idle EXCEPT !.pc = "looping", !.todo = todo, !.now = now] \in Proc
  BY <1>1 DEF Idle, Proc
<1>5. ASSUME NEW r \in Rules, NEW n \in Nat
      PROVE  /\ [proc[p] EXCEPT !.pc = "loaded", !.todo = @ \ {r},
                                !.rule = r, !.count = n] \in Proc
             /\ [Idle EXCEPT !.pc = "loaded", !.rule = r, !.count = n] \in Proc
  BY <1>1 DEF Idle, Proc
<1>6. [proc[p] EXCEPT !.pc = "dispatched"] \in Proc
  BY <1>1 DEF Proc
<1> QED BY <1>2, <1>3, <1>4, <1>5, <1>6

\* Storing one process's state.
LEMMA BecomeType ==
  ASSUME TypeOK, NEW p \in Procs, NEW s \in Proc, Become(p, s)
  PROVE  /\ proc' \in [Procs -> Proc]
         /\ proc'[p] = s
         /\ \A q \in Procs \ {p} : proc'[q] = proc[q]
  BY DEF TypeOK, Become

\* After a rule: the next one, or the end of the run.
LEMMA ContinueType ==
  ASSUME TypeOK, NEW p \in Procs, NEW todo \in SUBSET Rules, Continue(p, todo)
  PROVE  /\ proc' \in [Procs -> Proc]
         /\ proc'[p].pc \in {"idle", "looping"}
         /\ proc'[p].pc = "looping" => proc'[p].now = proc[p].now
         /\ \A q \in Procs \ {p} : proc'[q] = proc[q]
<1>1. proc[p].now \in Nat
  BY DEF TypeOK, Proc
<1>2. CASE todo = {}
  <2>1. proc'[p] = Idle /\ proc' \in [Procs -> Proc]
        /\ \A q \in Procs \ {p} : proc'[q] = proc[q]
    BY <1>2, ProcTypes, BecomeType DEF Continue
  <2> QED BY <2>1 DEF Idle
<1>3. CASE todo # {}
  <2> DEFINE s == [Idle EXCEPT !.pc = "looping", !.todo = todo, !.now = proc[p].now]
  <2>1. proc'[p] = s /\ proc' \in [Procs -> Proc]
        /\ \A q \in Procs \ {p} : proc'[q] = proc[q]
    BY <1>1, <1>3, ProcTypes, BecomeType DEF Continue
  <2>2. s.pc = "looping" /\ s.now = proc[p].now
    BY DEF Idle
  <2> QED BY <2>1, <2>2
<1> QED BY <1>2, <1>3

\* What each step makes of its process: the types, where it goes, what it holds.
LEMMA ProcStep ==
  ASSUME TypeOK, NEW p \in Procs
  PROVE  /\ Dispatch(p) => proc' \in [Procs -> Proc] /\ proc'[p].pc = "queued"
         /\ Start(p) => /\ proc' \in [Procs -> Proc]
                        /\ proc'[p].pc \in {"idle", "looping"}
                        /\ proc'[p].pc = "looping" => proc'[p].now = clock
         /\ \A r \in Rules : SkipRule(p, r) \/ FailRule(p, r) =>
              /\ proc' \in [Procs -> Proc] /\ proc[p].pc = "looping"
              /\ proc'[p].pc \in {"idle", "looping"}
              /\ proc'[p].pc = "looping" => proc'[p].now = proc[p].now
         /\ \A r \in Rules : LoadRule(p, r) =>
              /\ proc' \in [Procs -> Proc] /\ proc[p].pc = "looping"
              /\ proc'[p].pc = "loaded" /\ proc'[p].rule = r
              /\ proc'[p].count = rule[r].count /\ proc'[p].now = proc[p].now
         /\ \A r \in Rules : ManualLoad(p, r) =>
              /\ proc' \in [Procs -> Proc] /\ proc'[p].pc = "loaded"
              /\ proc'[p].rule = r /\ proc'[p].count = rule[r].count
         /\ DispatchActions(p) =>
              /\ proc' \in [Procs -> Proc] /\ proc'[p].pc = "dispatched"
              /\ proc'[p].rule = proc[p].rule /\ proc'[p].count = proc[p].count
              /\ proc'[p].now = proc[p].now
         /\ CommitRule(p) \/ RollbackRule(p) =>
              /\ proc' \in [Procs -> Proc]
              /\ proc'[p].pc \in {"idle", "looping"}
              /\ proc'[p].pc = "looping" => proc'[p].now = proc[p].now
         /\ Crash(p) => proc' \in [Procs -> Proc] /\ proc'[p].pc = "idle"
<1>0. /\ proc[p] \in Proc /\ proc[p].todo \in SUBSET Rules /\ clock \in Nat
      /\ \A r \in Rules : rule[r].count \in Nat
      /\ {r \in Rules : Enabled(r)} \in SUBSET Rules
      /\ \A r \in Rules : proc[p].todo \ {r} \in SUBSET Rules
  BY DEF TypeOK, Proc, Row
<1>1. Dispatch(p) => proc' \in [Procs -> Proc] /\ proc'[p].pc = "queued"
  <2> SUFFICES ASSUME Dispatch(p) PROVE proc' \in [Procs -> Proc] /\ proc'[p].pc = "queued"
    OBVIOUS
  <2>1. proc' \in [Procs -> Proc] /\ proc'[p] = [Idle EXCEPT !.pc = "queued"]
    BY ProcTypes, BecomeType DEF Dispatch
  <2> QED BY <2>1 DEF Idle
<1>2. ASSUME Start(p)
      PROVE  /\ proc' \in [Procs -> Proc]
             /\ proc'[p].pc \in {"idle", "looping"}
             /\ proc'[p].pc = "looping" => proc'[p].now = clock
  <2> DEFINE todo == {r \in Rules : Enabled(r)}
             s == [Idle EXCEPT !.pc = "looping", !.todo = todo, !.now = clock]
  <2>1. CASE todo = {}
    <3>1. proc' \in [Procs -> Proc] /\ proc'[p] = Idle
      BY <1>2, <2>1, ProcTypes, BecomeType DEF Start
    <3> QED BY <3>1 DEF Idle
  <2>2. CASE todo # {}
    <3>1. proc' \in [Procs -> Proc] /\ proc'[p] = s
      BY <1>0, <1>2, <2>2, ProcTypes, BecomeType DEF Start
    <3>2. s.pc = "looping" /\ s.now = clock
      BY DEF Idle
    <3> QED BY <3>1, <3>2
  <2> QED BY <2>1, <2>2
<1>3. ASSUME NEW r \in Rules, SkipRule(p, r) \/ FailRule(p, r)
      PROVE  /\ proc' \in [Procs -> Proc] /\ proc[p].pc = "looping"
             /\ proc'[p].pc \in {"idle", "looping"}
             /\ proc'[p].pc = "looping" => proc'[p].now = proc[p].now
  BY <1>0, <1>3, ContinueType DEF SkipRule, FailRule, NextRule
<1>4. ASSUME NEW r \in Rules, LoadRule(p, r)
      PROVE  /\ proc' \in [Procs -> Proc] /\ proc[p].pc = "looping"
             /\ proc'[p].pc = "loaded" /\ proc'[p].rule = r
             /\ proc'[p].count = rule[r].count /\ proc'[p].now = proc[p].now
  <2>1. /\ proc' \in [Procs -> Proc]
        /\ proc'[p] = [proc[p] EXCEPT !.pc = "loaded", !.todo = @ \ {r},
                                      !.rule = r, !.count = rule[r].count]
    BY <1>0, <1>4, ProcTypes, BecomeType DEF LoadRule
  <2> QED BY <1>0, <1>4, <2>1 DEF Proc, LoadRule, NextRule
<1>5. ASSUME NEW r \in Rules, ManualLoad(p, r)
      PROVE  /\ proc' \in [Procs -> Proc] /\ proc'[p].pc = "loaded"
             /\ proc'[p].rule = r /\ proc'[p].count = rule[r].count
  <2>1. /\ proc' \in [Procs -> Proc]
        /\ proc'[p] = [Idle EXCEPT !.pc = "loaded", !.rule = r, !.count = rule[r].count]
    BY <1>0, <1>5, ProcTypes, BecomeType DEF ManualLoad
  <2> QED BY <2>1 DEF Idle
<1>6. ASSUME DispatchActions(p)
      PROVE  /\ proc' \in [Procs -> Proc] /\ proc'[p].pc = "dispatched"
             /\ proc'[p].rule = proc[p].rule /\ proc'[p].count = proc[p].count
             /\ proc'[p].now = proc[p].now
  <2>1. /\ proc' \in [Procs -> Proc]
        /\ proc'[p] = [proc[p] EXCEPT !.pc = "dispatched"]
    BY <1>6, ProcTypes, BecomeType DEF DispatchActions
  <2> QED BY <1>0, <2>1 DEF Proc
<1>7. ASSUME CommitRule(p) \/ RollbackRule(p)
      PROVE  /\ proc' \in [Procs -> Proc]
             /\ proc'[p].pc \in {"idle", "looping"}
             /\ proc'[p].pc = "looping" => proc'[p].now = proc[p].now
  <2>1. Continue(p, proc[p].todo)
    BY <1>7 DEF CommitRule, RollbackRule
  <2> QED BY <1>0, <2>1, ContinueType
<1>8. ASSUME Crash(p)
      PROVE  proc' \in [Procs -> Proc] /\ proc'[p].pc = "idle"
  <2>1. proc' \in [Procs -> Proc] /\ proc'[p] = Idle
    BY <1>8, ProcTypes, BecomeType DEF Crash, Finish
  <2> QED BY <2>1 DEF Idle
<1> QED BY <1>1, <1>2, <1>3, <1>4, <1>5, <1>6, <1>7, <1>8

\* The steps of one process.
ProcAction(p) ==
  \/ p \in Runs /\ (Dispatch(p) \/ Start(p) \/ Walk(p))
  \/ p \in Requests /\ \E r \in Rules : ManualLoad(p, r)
  \/ Fire(p) \/ Crash(p)

LEMMA OthersStay ==
  ASSUME NEW p \in Procs, TypeOK, ProcAction(p)
  PROVE  /\ \A q \in Procs \ {p} : proc'[q] = proc[q]
         /\ clock' = clock
         /\ \A r \in Rules : rule'[r].exists = rule[r].exists
<1>1. \A q \in Procs \ {p} : proc'[q] = proc[q]
  BY DEF ProcAction, Walk, Fire, Dispatch, Start, SkipRule, FailRule, LoadRule, ManualLoad,
         DispatchActions, CommitRule, RollbackRule, Crash, Continue, Finish, Become, TypeOK
<1>2. clock' = clock
  BY DEF ProcAction, Walk, Fire, Dispatch, Start, SkipRule, FailRule, LoadRule, ManualLoad,
         DispatchActions, CommitRule, RollbackRule, Crash
<1>3. \A r \in Rules : rule'[r].exists = rule[r].exists
  <2>1. CASE CommitRule(p)
    <3>1. rule' = [rule EXCEPT ![proc[p].rule].count = proc[p].count + 1,
                               ![proc[p].rule].last = IF p \in Runs THEN proc[p].now ELSE clock]
      BY <2>1 DEF CommitRule
    <3> QED BY <3>1 DEF TypeOK, Row
  <2>2. CASE ~CommitRule(p)
    BY <2>2 DEF ProcAction, Walk, Fire, Dispatch, Start, SkipRule, FailRule, LoadRule,
           ManualLoad, DispatchActions, RollbackRule, Crash
  <2> QED BY <2>1, <2>2
<1> QED BY <1>1, <1>2, <1>3

\* The rows, executions and processes of the action rules keep their types.
THEOREM TypeCorrect == Spec => []TypeOK
<1>1. Init => TypeOK
  <2> SUFFICES ASSUME Init PROVE TypeOK
    OBVIOUS
  <2>1. NewRow \in Row
    BY DEF NewRow, Row, Null
  <2>2. Idle \in Proc /\ Idle.pc = "idle"
    BY DEF Idle, Proc, Null
  <2>3. 0 \in 0..MaxFaults /\ [times |-> 0, at |-> Null] \in [times : Nat, at : Nat]
    BY RulesAssumption DEF Null
  <2>4. overlapped \in BOOLEAN
    BY DEF Init
  <2>5. /\ clock = 1 /\ faults = 0
        /\ rule = [r \in Rules |-> NewRow] /\ executions = [r \in Rules |-> 0]
        /\ delivered = [r \in Rules |-> [times |-> 0, at |-> Null]]
        /\ proc = [p \in Procs |-> Idle]
    BY DEF Init
  <2> QED BY <2>1, <2>2, <2>3, <2>4, <2>5 DEF TypeOK
<1>2. TypeOK /\ [Next]_vars => TypeOK'
  <2> SUFFICES ASSUME TypeOK, [Next]_vars PROVE TypeOK'
    OBVIOUS
  <2>1. CASE Tick
    BY <2>1 DEF Tick, TypeOK
  <2>2. ASSUME NEW p \in Procs, ProcAction(p) PROVE TypeOK'
    <3>1. clock' \in Nat \ {0}
      BY <2>2, OthersStay DEF TypeOK
    <3>2. /\ proc' \in [Procs -> Proc]
          /\ proc'[p].pc \in {"loaded", "dispatched"} => proc'[p].rule \in Rules
      <4>1. ASSUME NEW r \in Rules,
                   SkipRule(p, r) \/ FailRule(p, r) \/ LoadRule(p, r) \/ ManualLoad(p, r)
            PROVE  /\ proc' \in [Procs -> Proc]
                   /\ proc'[p].pc \in {"loaded", "dispatched"} => proc'[p].rule \in Rules
        BY <4>1, ProcStep
      <4>2. ASSUME DispatchActions(p) PROVE proc[p].rule \in Rules
        BY <4>2 DEF DispatchActions, TypeOK
      <4> QED BY <2>2, <4>1, <4>2, ProcStep DEF ProcAction, Walk, Fire
    <3>3. \A q \in Procs : proc'[q].pc \in {"loaded", "dispatched"} => proc'[q].rule \in Rules
      BY <2>2, <3>2, OthersStay DEF TypeOK
    <3>4. faults' \in 0..MaxFaults
      <4>1. UNCHANGED faults \/ Fault
        BY <2>2 DEF ProcAction, Walk, Fire, Dispatch, Start, SkipRule, FailRule, LoadRule,
             ManualLoad, DispatchActions, CommitRule, RollbackRule, Crash
      <4> QED BY <4>1, RulesAssumption DEF TypeOK, Fault
    <3>5. rule' \in [Rules -> Row] /\ executions' \in [Rules -> Nat]
      <4>1. CASE CommitRule(p)
        <5>1. proc[p].rule \in Rules /\ proc[p].count + 1 \in Nat
              /\ (IF p \in Runs THEN proc[p].now ELSE clock) \in Nat
          <6>1. proc[p] \in Proc /\ clock \in Nat
            BY DEF TypeOK
          <6>2. proc[p].rule \in Rules
            BY <4>1 DEF CommitRule, TypeOK
          <6> QED BY <6>1, <6>2 DEF Proc
        <5> DEFINE r == proc[p].rule
                   t == IF p \in Runs THEN proc[p].now ELSE clock
        <5>2. /\ rule' = [rule EXCEPT ![r].count = proc[p].count + 1, ![r].last = t]
              /\ executions' = [executions EXCEPT ![r] = @ + 1]
          BY <4>1 DEF CommitRule
        <5>3. rule \in [Rules -> Row] /\ executions \in [Rules -> Nat]
          BY DEF TypeOK
        <5> HIDE DEF r, t
        <5>4. r \in Rules /\ proc[p].count + 1 \in Nat /\ t \in Nat
          BY <5>1 DEF r, t
        <5>5. [rule[r] EXCEPT !.count = proc[p].count + 1, !.last = t] \in Row
          BY <5>3, <5>4 DEF Row
        <5>6. rule' = [rule EXCEPT ![r] =
                         [rule[r] EXCEPT !.count = proc[p].count + 1, !.last = t]]
          BY <5>2, <5>3, <5>4 DEF Row
        <5> QED BY <5>2, <5>3, <5>4, <5>5, <5>6
      <4>2. CASE ~CommitRule(p)
        BY <2>2, <4>2 DEF TypeOK, ProcAction, Walk, Fire, Dispatch, Start, SkipRule, FailRule,
             LoadRule, ManualLoad, DispatchActions, RollbackRule, Crash
      <4> QED BY <4>1, <4>2
    <3>6. delivered' \in [Rules -> [times : Nat, at : Nat]]
      <4>1. ASSUME NEW r \in Rules, Delivery(r)
            PROVE  delivered' \in [Rules -> [times : Nat, at : Nat]]
        BY <4>1 DEF Delivery, TypeOK
      <4>2. CASE delivered' = delivered
        BY <4>2 DEF TypeOK
      <4>3. CASE CommitRule(p)
        BY <4>1, <4>2, <4>3 DEF CommitRule, TypeOK
      <4>4. CASE DispatchActions(p)
        BY <4>1, <4>2, <4>4 DEF DispatchActions, TypeOK
      <4>5. CASE ~CommitRule(p) /\ ~DispatchActions(p)
        BY <2>2, <4>2, <4>5 DEF ProcAction, Walk, Fire, Dispatch, Start, SkipRule, FailRule,
             LoadRule, ManualLoad, RollbackRule, Crash
      <4> QED BY <4>3, <4>4, <4>5
    <3>7. overlapped' \in BOOLEAN
      BY <2>2 DEF TypeOK, ProcAction, Walk, Fire, Dispatch, Start, SkipRule, FailRule, LoadRule,
           ManualLoad, DispatchActions, CommitRule, RollbackRule, Crash
    <3> QED BY <3>1, <3>2, <3>3, <3>4, <3>5, <3>6, <3>7 DEF TypeOK
  <2>3. ASSUME NEW r \in Rules, NEW enabled \in BOOLEAN, UpdateRule(r, enabled) PROVE TypeOK'
    BY <2>3 DEF UpdateRule, TypeOK, Row
  <2>4. ASSUME NEW r \in Rules, DeleteRule(r) PROVE TypeOK'
    BY <2>4 DEF DeleteRule, TypeOK, Row
  <2>5. CASE UNCHANGED vars
    BY <2>5 DEF TypeOK, vars
  <2> QED BY <2>1, <2>2, <2>3, <2>4, <2>5 DEF Next, ProcAction, Procs
<1> QED BY <1>1, <1>2, PTL DEF Spec

-----------------------------------------------------------------------------
(* trigger_count and executions                                              *)

\* What CommitRule makes of the count and the executions.
LEMMA Counted ==
  ASSUME TypeOK, NEW p \in Procs, CommitRule(p)
  PROVE  /\ proc[p].rule \in Rules /\ Firing(p) /\ rule[proc[p].rule].exists
         /\ rule'[proc[p].rule].count = proc[p].count + 1
         /\ rule'[proc[p].rule].last = IF p \in Runs THEN proc[p].now ELSE clock
         /\ executions'[proc[p].rule] = executions[proc[p].rule] + 1
         /\ \A r \in Rules \ {proc[p].rule} :
              rule'[r] = rule[r] /\ executions'[r] = executions[r]
<1>1. proc[p].rule \in Rules
  BY DEF CommitRule, TypeOK
<1> QED BY <1>1 DEF CommitRule, TypeOK, Row, Firing

LEMMA OthersUncounted ==
  ASSUME TypeOK, NEW p \in Procs, ProcAction(p), ~CommitRule(p)
  PROVE  rule' = rule /\ executions' = executions
  BY DEF ProcAction, Walk, Fire, Dispatch, Start, SkipRule, FailRule, LoadRule,
         ManualLoad, DispatchActions, RollbackRule, Crash

\* A process that fires after a step did so before, for the same rule, or
\* has just loaded the rule and its count.
LEMMA FiringStep ==
  ASSUME TypeOK, NEW p \in Procs, ProcAction(p), Firing(p)'
  PROVE  /\ ~CommitRule(p)
         /\ \/ Firing(p) /\ proc'[p].rule = proc[p].rule /\ proc'[p].count = proc[p].count
            \/ proc'[p].rule \in Rules /\ proc'[p].count = rule[proc'[p].rule].count
<1>1. ~CommitRule(p) /\ ~RollbackRule(p) /\ ~Crash(p) /\ ~Dispatch(p) /\ ~Start(p)
      /\ \A r \in Rules : ~SkipRule(p, r) /\ ~FailRule(p, r)
  BY ProcStep DEF Firing
<1>2. CASE DispatchActions(p)
  BY <1>1, <1>2, ProcStep DEF DispatchActions, Firing
<1>3. ASSUME NEW r \in Rules, LoadRule(p, r) \/ ManualLoad(p, r)
      PROVE  proc'[p].rule \in Rules /\ proc'[p].count = rule[proc'[p].rule].count
  BY <1>3, ProcStep
<1> QED BY <1>1, <1>2, <1>3 DEF ProcAction, Walk, Fire

LEMMA OvercountStep == TypeOK /\ TypeOK' /\ OvercountInv /\ [Next]_vars => OvercountInv'
<1> SUFFICES ASSUME TypeOK, TypeOK', OvercountInv, [Next]_vars PROVE OvercountInv'
  OBVIOUS
<1>1. ASSUME NEW p \in Procs, ProcAction(p) PROVE OvercountInv'
  <2>1. /\ \A q \in Procs \ {p} : proc'[q] = proc[q]
        /\ \A r \in Rules : rule'[r].exists = rule[r].exists
    BY <1>1, OthersStay
  <2>2. CASE CommitRule(p)
    <3>1. ~Firing(p)'
      BY <1>1, <2>2, FiringStep
    <3>2. NeverOvercounted'
      <4>1. \A r \in Rules : rule[r].count \in Nat /\ executions[r] \in Nat
            /\ proc[p].count \in Nat
        BY DEF TypeOK, Row, Proc
      <4> QED BY <2>1, <2>2, <4>1, Counted DEF OvercountInv, NeverOvercounted
    <3>3. ASSUME NEW q \in Procs \ {p}, Firing(q), rule[proc[q].rule].exists
          PROVE  proc[q].count <= executions'[proc[q].rule]
      <4>1. proc[q].rule \in Rules /\ proc[q].count \in Nat
            /\ \A r \in Rules : executions[r] \in Nat
        BY <3>3 DEF Firing, TypeOK, Proc
      <4> QED BY <2>2, <3>3, <4>1, Counted DEF OvercountInv
    <3>4. \A q \in Procs \ {p} : Firing(q) => proc[q].rule \in Rules
      BY DEF Firing, TypeOK
    <3> QED BY <2>1, <3>1, <3>2, <3>3, <3>4 DEF OvercountInv, Firing
  <2>3. CASE ~CommitRule(p)
    <3>1. rule' = rule /\ executions' = executions
      BY <1>1, <2>3, OthersUncounted
    <3>2. ASSUME Firing(p)', rule'[proc'[p].rule].exists
          PROVE  proc'[p].count <= executions'[proc'[p].rule]
      BY <1>1, <3>1, <3>2, FiringStep DEF OvercountInv, NeverOvercounted
    <3> QED BY <2>1, <3>1, <3>2 DEF OvercountInv, NeverOvercounted, Firing
  <2> QED BY <2>2, <2>3
<1>2. ASSUME NEW r \in Rules, NEW enabled \in BOOLEAN, UpdateRule(r, enabled)
      PROVE  OvercountInv'
  <2>1. /\ executions' = executions /\ proc' = proc
        /\ \A s \in Rules : rule'[s].exists = rule[s].exists /\ rule'[s].count = rule[s].count
    BY <1>2 DEF UpdateRule, TypeOK, Row
  <2>2. \A p \in Procs : Firing(p) => proc[p].rule \in Rules
    BY DEF Firing, TypeOK
  <2> QED BY <2>1, <2>2 DEF OvercountInv, NeverOvercounted, Firing
<1>3. ASSUME NEW r \in Rules, DeleteRule(r) PROVE OvercountInv'
  <2>1. /\ proc' = proc /\ ~rule'[r].exists
        /\ \A s \in Rules \ {r} : rule'[s] = rule[s] /\ executions'[s] = executions[s]
    BY <1>3 DEF DeleteRule, TypeOK, Row
  <2>2. \A p \in Procs : Firing(p) => proc[p].rule \in Rules
    BY DEF Firing, TypeOK
  <2> QED BY <2>1, <2>2 DEF OvercountInv, NeverOvercounted, Firing
<1>4. CASE Tick \/ UNCHANGED vars
  BY <1>4 DEF Tick, vars, OvercountInv, NeverOvercounted, Firing
<1> QED BY <1>1, <1>2, <1>3, <1>4 DEF Next, ProcAction, Procs

\* trigger_count is at most the number of executions, however scheduled and
\* manual evaluations overlap, fail and die.
THEOREM CountsNeverRunAhead == Spec => []NeverOvercounted
<1>1. Init => OvercountInv
  BY DEF Init, OvercountInv, NeverOvercounted, NewRow, Idle, Firing
<1>2. OvercountInv => NeverOvercounted
  BY DEF OvercountInv
<1> QED BY <1>1, <1>2, OvercountStep, TypeCorrect, PTL DEF Spec

-----------------------------------------------------------------------------
(* The effects and their history                                             *)

\* The number of effects about to be committed follows the step of one process.
LEMMA Flights ==
  ASSUME NEW p \in Procs, NEW r \in Rules,
         \A q \in Procs \ {p} : proc'[q] = proc[q]
  PROVE  /\ InFlight(r) \in Nat
         /\ Uncommitted(p, r)' = Uncommitted(p, r) => InFlight(r)' = InFlight(r)
         /\ ~Uncommitted(p, r) /\ Uncommitted(p, r)' => InFlight(r)' = InFlight(r) + 1
         /\ Uncommitted(p, r) /\ ~Uncommitted(p, r)' => InFlight(r)' = InFlight(r) - 1
<1> DEFINE before == {q \in Procs : Uncommitted(q, r)}
           after == {q \in Procs : Uncommitted(q, r)'}
<1>1. IsFiniteSet(before)
  BY RulesAssumption, FS_Subset DEF Procs
<1>2. InFlight(r) = Cardinality(before) /\ InFlight(r)' = Cardinality(after)
  BY DEF InFlight
<1>3. \A q \in Procs \ {p} : q \in after <=> q \in before
  BY DEF Uncommitted
<1>4. /\ p \in before <=> Uncommitted(p, r)
      /\ p \in after <=> Uncommitted(p, r)'
  OBVIOUS
<1>5. before \subseteq Procs /\ after \subseteq Procs
  OBVIOUS
<1> HIDE DEF before, after
<1>6. Cardinality(before) \in Nat
  BY <1>1, FS_CardinalityType
<1>7. CASE Uncommitted(p, r)' = Uncommitted(p, r)
  <2>1. after = before
    BY <1>3, <1>4, <1>5, <1>7
  <2> QED BY <1>2, <1>6, <1>7, <2>1
<1>8. CASE ~Uncommitted(p, r) /\ Uncommitted(p, r)'
  <2>1. after = before \cup {p} /\ p \notin before
    BY <1>3, <1>4, <1>5, <1>8
  <2>2. Cardinality(after) = Cardinality(before) + 1
    BY <1>1, <2>1, FS_AddElement
  <2> QED BY <1>2, <1>6, <1>8, <2>2
<1>9. CASE Uncommitted(p, r) /\ ~Uncommitted(p, r)'
  <2>1. after = before \ {p} /\ p \in before
    BY <1>3, <1>4, <1>5, <1>9
  <2>2. Cardinality(after) = Cardinality(before) - 1
    BY <1>1, <2>1, FS_RemoveElement
  <2> QED BY <1>2, <1>6, <1>9, <2>2
<1> QED BY <1>7, <1>8, <1>9 DEF Uncommitted

\* What the step of a process that fires makes of one rule: an effect goes out,
\* is recorded, or is left behind by a failure.
LEMMA EffectStep ==
  ASSUME TypeOK, NEW p \in Procs, ProcAction(p), NEW r \in Rules, rule[r].exists
  PROVE  \/ /\ Uncommitted(p, r)' = Uncommitted(p, r)
            /\ faults' \in {faults, faults + 1}
            /\ \/ /\ executions'[r] = executions[r]
                  /\ delivered'[r].times = delivered[r].times
               \/ /\ executions'[r] = executions[r] + 1
                  /\ delivered'[r].times = delivered[r].times + 1
         \/ /\ ~Uncommitted(p, r) /\ Uncommitted(p, r)'
            /\ faults' = faults /\ executions'[r] = executions[r]
            /\ delivered'[r].times = delivered[r].times + 1
         \/ /\ Uncommitted(p, r) /\ ~Uncommitted(p, r)'
            /\ faults' = faults /\ executions'[r] = executions[r] + 1
            /\ delivered'[r].times = delivered[r].times
         \/ /\ Uncommitted(p, r) /\ ~Uncommitted(p, r)'
            /\ faults' = faults + 1 /\ executions'[r] = executions[r]
            /\ delivered'[r].times = delivered[r].times
<1>1. \A s \in Rules : Delivery(s) =>
         /\ delivered'[s].times = delivered[s].times + 1
         /\ \A t \in Rules \ {s} : delivered'[t] = delivered[t]
  BY DEF Delivery, TypeOK
<1>2. CASE DispatchActions(p)
  <2>1. /\ proc[p].pc = "loaded" /\ proc'[p].pc = "dispatched"
        /\ proc'[p].rule = proc[p].rule /\ proc[p].rule \in Rules
        /\ faults' = faults /\ executions' = executions
    BY <1>2, ProcStep DEF DispatchActions, TypeOK
  <2>2. IF proc[p].rule \in External THEN Delivery(proc[p].rule) ELSE delivered' = delivered
    BY <1>2 DEF DispatchActions
  <2> QED BY <1>1, <2>1, <2>2 DEF Uncommitted
<1>3. CASE CommitRule(p)
  <2>1. /\ proc[p].pc = "dispatched" /\ proc'[p].pc # "dispatched"
        /\ proc[p].rule \in Rules /\ faults' = faults
    BY <1>3, ProcStep, Counted DEF CommitRule
  <2>2. IF proc[p].rule \in External THEN delivered' = delivered ELSE Delivery(proc[p].rule)
    BY <1>3 DEF CommitRule
  <2>3. /\ executions'[proc[p].rule] = executions[proc[p].rule] + 1
        /\ \A s \in Rules \ {proc[p].rule} : executions'[s] = executions[s]
    BY <1>3, Counted
  <2> QED BY <1>1, <2>1, <2>2, <2>3 DEF Uncommitted
<1>4. CASE RollbackRule(p) \/ Crash(p)
  <2>1. /\ proc'[p].pc # "dispatched"
        /\ executions' = executions /\ delivered' = delivered
        /\ faults' \in {faults, faults + 1}
    BY <1>4, ProcStep DEF RollbackRule, Crash, Fault
  <2>2. Uncommitted(p, r) => faults' = faults + 1
    BY <1>4 DEF Uncommitted, RollbackRule, Crash, Fault
  <2> QED BY <2>1, <2>2 DEF Uncommitted
<1>5. CASE ~DispatchActions(p) /\ ~CommitRule(p) /\ ~RollbackRule(p) /\ ~Crash(p)
  <2>1. executions' = executions /\ delivered' = delivered /\ faults' = faults
    BY <1>5 DEF ProcAction, Walk, Fire, Dispatch, Start, SkipRule, FailRule, LoadRule, ManualLoad
  <2>2. proc[p].pc # "dispatched"
    BY <1>5 DEF ProcAction, Walk, Fire, Dispatch, Start, SkipRule, FailRule, LoadRule, ManualLoad,
         NextRule
  <2>3. proc'[p].pc # "dispatched"
    BY <1>5, ProcStep DEF ProcAction, Walk, Fire
  <2> QED BY <2>1, <2>2, <2>3 DEF Uncommitted
<1> QED BY <1>2, <1>3, <1>4, <1>5

LEMMA EffectsStep == TypeOK /\ TypeOK' /\ EffectsRecorded /\ [Next]_vars => EffectsRecorded'
<1> SUFFICES ASSUME TypeOK, TypeOK', EffectsRecorded, [Next]_vars,
                    NEW r \in Rules, rule'[r].exists
             PROVE  /\ executions'[r] + InFlight(r)' <= delivered'[r].times
                    /\ delivered'[r].times <= executions'[r] + InFlight(r)' + faults'
  BY DEF EffectsRecorded
<1>1. ASSUME NEW p \in Procs, ProcAction(p)
      PROVE  /\ executions'[r] + InFlight(r)' <= delivered'[r].times
             /\ delivered'[r].times <= executions'[r] + InFlight(r)' + faults'
  <2>1. /\ \A q \in Procs \ {p} : proc'[q] = proc[q]
        /\ rule[r].exists
    BY <1>1, OthersStay
  <2>2. /\ executions[r] + InFlight(r) <= delivered[r].times
        /\ delivered[r].times <= executions[r] + InFlight(r) + faults
    BY <2>1 DEF EffectsRecorded
  <2>3. /\ executions[r] \in Nat /\ delivered[r].times \in Nat /\ faults \in Nat
        /\ executions'[r] \in Nat /\ delivered'[r].times \in Nat /\ faults' \in Nat
    BY RulesAssumption DEF TypeOK
  <2>4. /\ InFlight(r) \in Nat
        /\ Uncommitted(p, r)' = Uncommitted(p, r) => InFlight(r)' = InFlight(r)
        /\ ~Uncommitted(p, r) /\ Uncommitted(p, r)' => InFlight(r)' = InFlight(r) + 1
        /\ Uncommitted(p, r) /\ ~Uncommitted(p, r)' => InFlight(r)' = InFlight(r) - 1
    BY <2>1, Flights
  <2> QED BY <1>1, <2>1, <2>2, <2>3, <2>4, EffectStep
<1>2. ASSUME UNCHANGED <<executions, delivered, proc, faults>>, rule[r].exists
      PROVE  /\ executions'[r] + InFlight(r)' <= delivered'[r].times
             /\ delivered'[r].times <= executions'[r] + InFlight(r)' + faults'
  <2>1. InFlight(r)' = InFlight(r)
    BY <1>2 DEF InFlight, Uncommitted
  <2> QED BY <1>2, <2>1 DEF EffectsRecorded
<1>3. CASE Tick \/ UNCHANGED vars
  BY <1>2, <1>3 DEF Tick, vars
<1>4. ASSUME NEW s \in Rules, NEW enabled \in BOOLEAN, UpdateRule(s, enabled)
      PROVE  UNCHANGED <<executions, delivered, proc, faults>> /\ rule[r].exists
  BY <1>4 DEF UpdateRule, TypeOK, Row
<1>5. ASSUME NEW s \in Rules, DeleteRule(s)
      PROVE  /\ executions'[r] + InFlight(r)' <= delivered'[r].times
             /\ delivered'[r].times <= executions'[r] + InFlight(r)' + faults'
  <2>1. /\ UNCHANGED <<delivered, proc, faults>> /\ r # s
        /\ executions'[r] = executions[r] /\ rule[r].exists
    BY <1>5 DEF DeleteRule, TypeOK, Row
  <2>2. InFlight(r)' = InFlight(r)
    BY <2>1 DEF InFlight, Uncommitted
  <2> QED BY <2>1, <2>2 DEF EffectsRecorded
<1> QED BY <1>1, <1>2, <1>3, <1>4, <1>5 DEF Next, ProcAction, Procs

\* An execution has had its effect, and an effect without an execution is about to
\* be committed or was left behind by a failed commit or a dead process.
THEOREM EffectsAreRecorded == Spec => []EffectsRecorded
<1>1. Init => EffectsRecorded
  <2> SUFFICES ASSUME Init, NEW r \in Rules
               PROVE  /\ executions[r] + InFlight(r) <= delivered[r].times
                      /\ delivered[r].times <= executions[r] + InFlight(r) + faults
    BY DEF EffectsRecorded
  <2>1. \A p \in Procs : proc[p].pc = "idle"
    BY DEF Init, Idle
  <2>2. InFlight(r) = 0
    BY <2>1, FS_EmptySet DEF InFlight, Uncommitted
  <2>3. executions[r] = 0 /\ delivered[r].times = 0 /\ faults = 0
    BY DEF Init
  <2> QED BY <2>2, <2>3
<1> QED BY <1>1, EffectsStep, TypeCorrect, PTL DEF Spec

-----------------------------------------------------------------------------
(* As long as evaluations neither overlap nor fail                           *)

\* The times of a delivery.
LEMMA Delivered ==
  ASSUME TypeOK, NEW r \in Rules, Delivery(r)
  PROVE  /\ delivered'[r].times # 0 /\ delivered'[r].at = clock
         /\ \A s \in Rules \ {r} : delivered'[s] = delivered[s]
  BY DEF Delivery, TypeOK

\* Nothing is delivered but by dispatching the action of an External rule or
\* committing the rows of another one.
LEMMA DeliveryStep ==
  ASSUME TypeOK, NEW p \in Procs, ProcAction(p), delivered' # delivered
  PROVE  /\ proc[p].rule \in Rules /\ Delivery(proc[p].rule) /\ Due(p, proc[p].rule)
         /\ \/ DispatchActions(p) /\ proc[p].rule \in External
            \/ CommitRule(p) /\ proc[p].rule \notin External
<1>1. DispatchActions(p) \/ CommitRule(p)
  BY DEF ProcAction, Walk, Fire, Dispatch, Start, SkipRule, FailRule, LoadRule,
         ManualLoad, RollbackRule, Crash
<1>2. proc[p].rule \in Rules
  BY <1>1 DEF DispatchActions, CommitRule, TypeOK
<1>3. CASE DispatchActions(p)
  <2>1. proc[p].rule \in External /\ Delivery(proc[p].rule) /\ proc[p].pc = "loaded"
    BY <1>3 DEF DispatchActions
  <2>2. Due(p, proc[p].rule)
    BY <2>1 DEF Due
  <2> QED BY <1>2, <1>3, <2>1, <2>2
<1>4. CASE CommitRule(p)
  BY <1>2, <1>4 DEF CommitRule, Due
<1> QED BY <1>1, <1>3, <1>4

\* What has overlapped or failed stays so, and a step that keeps Undisturbed
\* is of a scheduled run that is alone at work.
LEMMA UndisturbedStep ==
  ASSUME TypeOK, TypeOK', SerialInv, [Next]_vars, Undisturbed'
  PROVE  /\ Undisturbed /\ SerialFacts /\ ~Fault
         /\ \A p \in Procs : ~Crash(p) /\ \A r \in Rules : ~ManualLoad(p, r)
         /\ \A p \in Procs : ProcAction(p) /\ ~Dispatch(p) =>
              p \in Runs /\ \A q \in Procs \ {p} : ~AtWork(q)
<1>1. faults' = 0 /\ ~overlapped' /\ faults \in Nat /\ overlapped \in BOOLEAN
  BY RulesAssumption DEF Undisturbed, TypeOK
<1>2. ~Fault /\ \A p \in Procs : ~Crash(p) /\ \A r \in Rules : ~ManualLoad(p, r)
  <2>1. ~Fault
    BY <1>1 DEF Fault
  <2>2. \A p \in Procs, r \in Rules : ManualLoad(p, r) => overlapped'
    BY DEF ManualLoad
  <2> QED BY <1>1, <2>1, <2>2 DEF Crash
<1>3. ASSUME NEW p \in Procs, ProcAction(p)
      PROVE  faults = 0 /\ ~overlapped
  BY <1>1, <1>2, <1>3 DEF ProcAction, Walk, Fire, Dispatch, Start, SkipRule, FailRule, LoadRule,
       DispatchActions, CommitRule, RollbackRule
<1>4. ASSUME Tick \/ UNCHANGED vars \/ \E r \in Rules : DeleteRule(r)
                 \/ \E enabled \in BOOLEAN : UpdateRule(r, enabled)
      PROVE  faults = 0 /\ ~overlapped
  BY <1>1, <1>4 DEF Tick, vars, DeleteRule, UpdateRule
<1>5. Undisturbed
  BY <1>3, <1>4 DEF Next, ProcAction, Procs, Undisturbed
<1>6. SerialFacts
  BY <1>5 DEF SerialInv
<1>7. ASSUME NEW p \in Procs, ProcAction(p), ~Dispatch(p)
      PROVE  p \in Runs /\ \A q \in Procs \ {p} : ~AtWork(q)
  <2>1. CASE p \in Runs /\ Start(p)
    BY <1>1, <2>1 DEF Start
  <2>2. CASE Fire(p) \/ Walk(p)
    <3>1. AtWork(p)
      BY <2>2 DEF Fire, DispatchActions, CommitRule, RollbackRule, Walk, SkipRule, FailRule,
           LoadRule, NextRule, AtWork
    <3> QED BY <1>6, <3>1 DEF SerialFacts, Alone
  <2> QED BY <1>2, <1>7, <2>1, <2>2 DEF ProcAction
<1> QED BY <1>2, <1>5, <1>6, <1>7

LEMMA SerialStep ==
  ASSUME TypeOK, TypeOK', SerialInv, SerialFacts, [Next]_vars, Undisturbed'
  PROVE  SerialFacts'
<1>0. /\ ~Fault
      /\ \A r \in Rules : /\ rule[r].last \in Nat /\ delivered[r].at \in Nat
                          /\ rule'[r].last \in Nat /\ delivered'[r].at \in Nat
      /\ \A p \in Runs : proc[p].now \in Nat /\ proc'[p].now \in Nat
      /\ \A p \in Procs : Firing(p) => proc[p].rule \in Rules
      /\ clock \in Nat /\ clock # Null /\ RunBound \in Nat /\ Cooldown \in Nat
  BY RulesAssumption, UndisturbedStep DEF Procs, TypeOK, Row, Proc, Firing, Null
<1>1. ASSUME NEW p \in Procs, ProcAction(p), ~Dispatch(p) PROVE SerialFacts'
  <2>0. /\ p \in Runs /\ ~Crash(p) /\ p \notin Requests
        /\ \A q \in Procs \ {p} : ~AtWork(q)
    BY <1>1, UndisturbedStep, RulesAssumption
  <2>1. /\ \A q \in Procs \ {p} : proc'[q] = proc[q] /\ ~AtWork(q) /\ ~AtWork(q)'
        /\ clock' = clock
        /\ \A r \in Rules : rule'[r].exists = rule[r].exists
        /\ p \in Runs /\ p \in Procs /\ p \notin Requests /\ Runs \subseteq Procs
        /\ Alone'
    <3>1. /\ \A q \in Procs \ {p} : proc'[q] = proc[q]
          /\ clock' = clock
          /\ \A r \in Rules : rule'[r].exists = rule[r].exists
      BY <1>1, OthersStay
    <3> QED BY <2>0, <3>1 DEF AtWork, Procs, Alone
  <2>a. \A q \in Runs \ {p} :
          /\ ~Running(q) /\ ~Running(q)' /\ ~Firing(q) /\ ~Firing(q)'
          /\ \A s \in Rules : ~Due(q, s) /\ ~Due(q, s)' /\ ~Uncommitted(q, s) /\ ~Uncommitted(q, s)'
    BY <2>1 DEF AtWork, Running, Firing, Due, Uncommitted
  <2>2. Running(p)' => /\ proc'[p].now # Null /\ proc'[p].now <= clock'
                       /\ clock' <= proc'[p].now + RunBound
    <3>1. CASE Start(p)
      BY <1>0, <2>1, <3>1, ProcStep DEF Running, AtWork
    <3>2. CASE Dispatch(p) \/ Crash(p)
      BY <2>1, <3>2, ProcStep DEF Running, AtWork
    <3>3. CASE ~Start(p) /\ ~Dispatch(p) /\ ~Crash(p)
      <4>1. Running(p)' => Running(p) /\ proc'[p].now = proc[p].now
        <5>1. ASSUME NEW r \in Rules, SkipRule(p, r) \/ FailRule(p, r) \/ LoadRule(p, r)
              PROVE  Running(p)' => Running(p) /\ proc'[p].now = proc[p].now
          BY <2>1, <5>1, ProcStep DEF Running, AtWork
        <5>2. ASSUME Fire(p)
              PROVE  Running(p)' => Running(p) /\ proc'[p].now = proc[p].now
          <6>1. proc[p].pc \in {"loaded", "dispatched"}
            BY <5>2 DEF Fire, DispatchActions, CommitRule, RollbackRule
          <6> QED BY <2>1, <5>2, <6>1, ProcStep DEF Running, AtWork, Fire
        <5> QED BY <1>1, <2>1, <3>3, <5>1, <5>2 DEF ProcAction, Walk
      <4> QED BY <2>1, <4>1 DEF SerialFacts
    <3> QED BY <3>1, <3>2, <3>3
  <2>3. CASE CommitRule(p)
    <3> DEFINE r == proc[p].rule
    <3>1. /\ r \in Rules /\ Firing(p) /\ rule[r].exists
          /\ rule'[r].count = proc[p].count + 1
          /\ rule'[r].last = proc[p].now
          /\ executions'[r] = executions[r] + 1
          /\ \A s \in Rules \ {r} : rule'[s] = rule[s] /\ executions'[s] = executions[s]
          /\ proc[p].pc = "dispatched"
      BY <2>1, <2>3, Counted DEF CommitRule
    <3>2. ~Firing(p)' /\ (\A s \in Rules : ~Due(p, s)' /\ ~Uncommitted(p, s)')
      <4>1. ~Firing(p)'
        BY <1>1, <2>1, <2>3, FiringStep
      <4> QED BY <4>1 DEF Firing, Due, Uncommitted
    <3>3. \A s \in Rules : rule'[s].exists => rule'[s].count = executions'[s]
      BY <2>1, <3>1 DEF SerialFacts
    <3>4. proc[p].now # Null /\ proc[p].now <= clock /\ clock <= proc[p].now + RunBound
      BY <2>1, <3>1 DEF SerialFacts, Running, AtWork
    <3>5. delivered'[r].times # 0 => delivered'[r].at <= rule'[r].last + RunBound
      <4>1. CASE r \in External
        <5>1. Uncommitted(p, r) /\ delivered' = delivered
          BY <2>3, <3>1, <4>1 DEF Uncommitted, CommitRule
        <5> QED BY <2>1, <3>1, <2>a, <5>1 DEF SerialFacts
      <4>2. CASE r \notin External
        <5>1. Delivery(r)
          BY <2>3, <4>2 DEF CommitRule
        <5> QED
          <6> HIDE DEF r
          <6> QED BY <3>1, <3>4, <5>1, Delivered
      <4> QED BY <4>1, <4>2
    <3>6. \A s \in Rules \ {r} : delivered'[s] = delivered[s]
      BY <2>3, <3>1, Delivered DEF CommitRule
    <3>7. \A s \in Rules \ {r}, q \in Runs : ~Uncommitted(q, s)
      BY <2>1, <2>a DEF Uncommitted
    <3>8. \A s \in Rules : rule'[s].exists /\ delivered'[s].times # 0 =>
            rule'[s].last # Null /\ delivered'[s].at <= rule'[s].last + RunBound
      BY <2>1, <3>1, <3>4, <3>5, <3>6, <3>7 DEF SerialFacts
    <3> QED BY <2>1, <2>a, <2>2, <3>2, <3>3, <3>8 DEF SerialFacts
  <2>4. CASE ~CommitRule(p)
    <3>1. rule' = rule /\ executions' = executions
      BY <1>1, <2>1, <2>4, OthersUncounted
    <3>2. \A s \in Rules : rule'[s].exists => rule'[s].count = executions'[s]
      BY <3>1 DEF SerialFacts
    <3>3. Firing(p)' /\ rule'[proc'[p].rule].exists =>
            proc'[p].count = rule'[proc'[p].rule].count
      BY <1>1, <2>1, <3>1, FiringStep DEF SerialFacts
    <3>4. CASE DispatchActions(p)
      <4> DEFINE r == proc[p].rule
      <4>1. /\ r \in Rules /\ proc[p].pc = "loaded" /\ proc'[p].pc = "dispatched"
            /\ proc'[p].rule = r /\ proc'[p].now = proc[p].now
            /\ proc[p].now <= clock /\ clock <= proc[p].now + RunBound
        <5>1. proc[p].pc = "loaded"
          BY <3>4 DEF DispatchActions
        <5> QED BY <1>0, <2>1, <3>4, <5>1, ProcStep DEF SerialFacts, Alone, AtWork, Running, Firing
      <4>2. CASE r \in External
        <5>1. delivered'[r].at = clock /\ \A s \in Rules \ {r} : delivered'[s] = delivered[s]
          BY <3>4, <4>1, <4>2, Delivered DEF DispatchActions
        <5>2. \A s \in Rules, q \in Runs : ~Uncommitted(q, s)
          BY <2>1, <2>a, <4>1 DEF Uncommitted
        <5>3. \A s \in Rules : Uncommitted(p, s)' <=> s = r
          BY <4>1, <4>2 DEF Uncommitted
        <5>4. \A s \in Rules : ~Due(p, s)'
          BY <4>1, <4>2 DEF Due
        <5>5. \A s \in Rules : rule'[s].exists /\ delivered'[s].times # 0 =>
                \/ rule'[s].last # Null /\ delivered'[s].at <= rule'[s].last + RunBound
                \/ Uncommitted(p, s)'
          <6> HIDE DEF r
          <6> QED BY <3>1, <5>1, <5>2, <5>3 DEF SerialFacts
        <5>6. \A s \in Rules : Uncommitted(p, s)' =>
                delivered'[s].at <= proc'[p].now + RunBound
          <6> HIDE DEF r
          <6> QED BY <4>1, <5>1, <5>3
        <5> QED BY <2>1, <2>a, <2>2, <3>2, <3>3, <5>4, <5>5, <5>6 DEF SerialFacts
      <4>3. CASE r \notin External
        <5>1. delivered' = delivered
          BY <3>4, <4>3 DEF DispatchActions
        <5>2. \A s \in Rules : /\ ~Uncommitted(p, s)
                               /\ ~Uncommitted(p, s)'
                               /\ Due(p, s)' => Due(p, s)
          BY <4>1, <4>3 DEF Uncommitted, Due
        <5>3. \A s \in Rules : rule'[s].exists /\ delivered'[s].times # 0 =>
                rule'[s].last # Null /\ delivered'[s].at <= rule'[s].last + RunBound
          BY <2>1, <2>a, <3>1, <5>1, <5>2 DEF SerialFacts
        <5>4. \A s \in Rules : Due(p, s)' =>
                delivered'[s].times = 0
                  \/ delivered'[s].at + Cooldown <= proc'[p].now + RunBound
          <6> HIDE DEF r
          <6> QED BY <2>1, <4>1, <5>1, <5>2 DEF SerialFacts
        <5> QED BY <2>1, <2>a, <2>2, <3>2, <3>3, <5>2, <5>3, <5>4 DEF SerialFacts
      <4> QED BY <4>2, <4>3
    <3>5. CASE ~DispatchActions(p)
      <4>1. delivered' = delivered
        BY <1>1, <2>1, <2>4, <3>5, DeliveryStep
      <4>2. \A s \in Rules : ~Uncommitted(p, s)'
        <5>1. proc'[p].pc # "dispatched"
          <6>1. ASSUME NEW s \in Rules,
                       SkipRule(p, s) \/ FailRule(p, s) \/ LoadRule(p, s)
                PROVE  proc'[p].pc # "dispatched"
            BY <2>1, <6>1, ProcStep
          <6> QED BY <1>1, <2>1, <2>4, <3>5, <6>1, ProcStep DEF ProcAction, Walk, Fire
        <5> QED BY <5>1 DEF Uncommitted
      <4>3. \A s \in Rules : Uncommitted(p, s) => ~rule[s].exists
        <5>1. ASSUME NEW s \in Rules, Uncommitted(p, s) PROVE ~rule[s].exists
          <6>1. proc[p].pc = "dispatched" /\ proc[p].rule = s
            BY <5>1 DEF Uncommitted
          <6>2. RollbackRule(p)
            <7>1. ~Start(p) /\ ~Dispatch(p) /\ ~Crash(p) /\ ~Walk(p)
              BY <1>0, <6>1 DEF Start, Dispatch, Crash, Walk, SkipRule, FailRule, LoadRule,
                               NextRule
            <7> QED BY <1>1, <2>1, <2>4, <3>5, <7>1 DEF ProcAction, Fire
          <6> QED BY <1>0, <6>1, <6>2 DEF RollbackRule
        <5> QED BY <5>1
      <4>4. \A s \in Rules : rule'[s].exists /\ delivered'[s].times # 0 =>
              rule'[s].last # Null /\ delivered'[s].at <= rule'[s].last + RunBound
        BY <2>1, <2>a, <3>1, <4>1, <4>3 DEF SerialFacts
      <4>5. ASSUME NEW s \in Rules, Due(p, s)'
            PROVE  delivered'[s].times = 0
                     \/ delivered'[s].at + Cooldown <= proc'[p].now + RunBound
        <5>1. proc'[p].pc \in {"loaded", "dispatched"} /\ proc'[p].rule = s
          BY <4>5 DEF Due
        <5>2. PICK t \in Rules : LoadRule(p, t)
          <6>1. ASSUME NEW t \in Rules, SkipRule(p, t) \/ FailRule(p, t)
                PROVE  proc'[p].pc \notin {"loaded", "dispatched"}
            BY <2>1, <6>1, ProcStep
          <6> QED BY <1>1, <2>1, <2>4, <3>5, <5>1, <6>1, ProcStep DEF ProcAction, Walk, Fire
        <5>3. /\ t = s /\ proc'[p].now = proc[p].now /\ proc[p].pc = "looping"
          BY <2>1, <5>1, <5>2, ProcStep
        <5>4. rule[s].exists /\ ~InCooldown(s, proc[p].now)
          BY <5>2, <5>3 DEF LoadRule, Enabled
        <5>5. \A q \in Runs : ~Uncommitted(q, s)
          BY <2>1, <2>a, <5>3 DEF Uncommitted
        <5>6. delivered[s].times = 0
                \/ (rule[s].last # Null /\ delivered[s].at <= rule[s].last + RunBound)
          BY <5>4, <5>5 DEF SerialFacts
        <5>7. rule[s].last # Null => rule[s].last + Cooldown <= proc[p].now
          BY <1>0, <2>1, <5>4 DEF InCooldown
        <5> QED BY <1>0, <2>1, <4>1, <5>3, <5>6, <5>7
      <4> QED BY <2>1, <2>a, <2>2, <3>2, <3>3, <4>2, <4>4, <4>5 DEF SerialFacts
    <3> QED BY <3>4, <3>5
  <2> QED BY <2>3, <2>4
<1>2. ASSUME NEW r \in Rules, NEW enabled \in BOOLEAN, UpdateRule(r, enabled)
      PROVE  SerialFacts'
  <2>1. /\ UNCHANGED <<clock, executions, delivered, proc>>
        /\ \A s \in Rules : /\ rule'[s].exists = rule[s].exists
                            /\ rule'[s].count = rule[s].count
                            /\ rule'[s].last = rule[s].last
    BY <1>2 DEF UpdateRule, TypeOK, Row
  <2>2. Alone' /\ \A p \in Runs : Firing(p) => proc[p].rule \in Rules
    BY <1>0, <2>1 DEF SerialFacts, Alone, AtWork, Procs
  <2> QED BY <1>0, <2>1, <2>2 DEF SerialFacts, AtWork, Running, Firing, Due, Uncommitted
<1>3. ASSUME NEW r \in Rules, DeleteRule(r) PROVE SerialFacts'
  <2>1. /\ UNCHANGED <<clock, delivered, proc>> /\ ~rule'[r].exists
        /\ \A s \in Rules \ {r} : rule'[s] = rule[s] /\ executions'[s] = executions[s]
    BY <1>3 DEF DeleteRule, TypeOK, Row
  <2>2. Alone' /\ \A p \in Runs : Firing(p) => proc[p].rule \in Rules
    BY <1>0, <2>1 DEF SerialFacts, Alone, AtWork, Procs
  <2> QED BY <1>0, <2>1, <2>2 DEF SerialFacts, AtWork, Running, Firing, Due, Uncommitted
<1>4. CASE Tick
  <2>1. /\ UNCHANGED <<rule, executions, delivered, proc>> /\ clock' = clock + 1
        /\ \A p \in Runs : Running(p) => clock - proc[p].now < RunBound
    BY <1>4 DEF Tick, Procs
  <2>2. \A p \in Runs : Running(p) => /\ proc[p].now # Null /\ proc[p].now <= clock'
                                      /\ clock' <= proc[p].now + RunBound
    BY <1>0, <2>1 DEF SerialFacts
  <2> QED BY <2>1, <2>2 DEF SerialFacts, Alone, AtWork, Running, Firing, Due, Uncommitted
<1>5. CASE UNCHANGED vars
  BY <1>5 DEF vars, SerialFacts, Alone, AtWork, Running, Firing, Due, Uncommitted
<1>6. ASSUME NEW p \in Procs, Dispatch(p) PROVE SerialFacts'
  <2>1. /\ UNCHANGED <<clock, rule, executions, delivered>>
        /\ \A q \in Procs \ {p} : proc'[q] = proc[q]
        /\ proc'[p].pc = "queued" /\ proc[p].pc = "idle"
    <3>1. proc'[p].pc = "queued"
      BY <1>6, ProcStep
    <3> QED BY <1>6, <3>1 DEF Dispatch, Become, TypeOK
  <2>2. \A r \in Rules : ~Uncommitted(p, r)
    BY <2>1 DEF Uncommitted
  <2> QED BY <1>0, <2>1, <2>2 DEF SerialFacts, Alone, AtWork, Running, Firing, Due, Uncommitted, Procs
<1> QED BY <1>1, <1>2, <1>3, <1>4, <1>5, <1>6 DEF Next, ProcAction, Procs

LEMMA SerialInit == Init => SerialInv
<1> SUFFICES ASSUME Init PROVE SerialInv
  OBVIOUS
<1>1. /\ \A p \in Runs : proc[p].pc = "idle"
      /\ \A r \in Rules : /\ rule[r].count = 0 /\ executions[r] = 0
                          /\ delivered[r].times = 0
  BY DEF Init, Procs, Idle, NewRow
<1>2. \A p \in Procs : proc[p].pc = "idle"
  BY DEF Init, Idle
<1> QED BY <1>1, <1>2 DEF SerialInv, SerialFacts, Alone, AtWork, Running, Firing, Due, Uncommitted

\* A delivery that SerialFacts allow is far enough from the previous one.
LEMMA SpacedStep ==
  ASSUME TypeOK, TypeOK', SerialInv, [Next]_vars, Undisturbed'
  PROVE  Spaced(Cooldown - RunBound)
<1>1. CASE delivered' = delivered
  BY <1>1 DEF Spaced
<1>2. CASE delivered' # delivered
  <2>1. PICK p \in Procs : ProcAction(p)
    BY <1>2 DEF Next, ProcAction, Procs, Tick, UpdateRule, DeleteRule, vars
  <2>2. p \in Runs /\ SerialFacts
    BY <1>2, <2>1, UndisturbedStep DEF Dispatch
  <2>3. proc[p].rule \in Rules /\ Delivery(proc[p].rule) /\ Due(p, proc[p].rule)
    BY <1>2, <2>1, DeliveryStep
  <2> DEFINE r == proc[p].rule
  <2>4. delivered[r].times = 0 \/ delivered[r].at + Cooldown <= proc[p].now + RunBound
    BY <2>2, <2>3 DEF SerialFacts
  <2>5. proc[p].now <= clock
    BY <2>2, <2>3 DEF SerialFacts, Running, AtWork, Due
  <2>6. \A s \in Rules \ {r} : delivered'[s] = delivered[s]
    BY <2>3, Delivered
  <2>7. /\ delivered[r].at \in Nat /\ proc[p].now \in Nat /\ clock \in Nat
        /\ Cooldown \in Nat /\ RunBound \in Nat
    BY <2>3, RulesAssumption DEF TypeOK, Proc
  <2>8. delivered[r].times = 0 \/ clock - delivered[r].at >= Cooldown - RunBound
    <3> HIDE DEF r
    <3> QED BY <2>4, <2>5, <2>7
  <2> QED BY <2>6, <2>8 DEF Spaced
<1> QED BY <1>1, <1>2

\* As long as evaluations neither overlap nor fail, trigger_count is the
\* number of executions.
THEOREM SerialCountsAgree == Spec => []CountsAgree
<1>1. SerialInv => CountsAgree
  BY DEF SerialInv, SerialFacts, CountsAgree
<1>2. TypeOK /\ TypeOK' /\ SerialInv /\ [Next]_vars => SerialInv'
  BY SerialStep, UndisturbedStep DEF SerialInv
<1> QED BY <1>1, <1>2, SerialInit, TypeCorrect, PTL DEF Spec

\* As long as evaluations neither overlap nor fail, a rule's action is
\* delivered at least the cooldown less the longest run apart, whatever is
\* switched, deleted or raises.
THEOREM SerialDeliveriesSpaced == Spec => DeliveriesSpaced
<1>1. TypeOK /\ TypeOK' /\ SerialInv /\ [Next]_vars => SerialInv'
  BY SerialStep, UndisturbedStep DEF SerialInv
<1>2. TypeOK /\ TypeOK' /\ SerialInv /\ [Next]_vars
        => [Undisturbed' => Spaced(Cooldown - RunBound)]_vars
  BY SpacedStep
<1> QED BY <1>1, <1>2, SerialInit, TypeCorrect, PTL DEF Spec, DeliveriesSpaced

=============================================================================
