-------------------------- MODULE AuditStream_proofs --------------------------
(***************************************************************************)
(* For every set of rows and runs, every batch size and any number of       *)
(* faults: the cursor passes only shipped and late rows.  And a single run  *)
(* at a time moves it forward only, and without faults ships nothing twice. *)
(***************************************************************************)
EXTENDS AuditStream, FiniteSetTheorems, TLAPS

\* (created_at, id) orders the rows totally.
LEMMA KeyOrder ==
  ASSUME TypeOK, NEW e \in Entries, NEW f \in Entries, NEW k \in Nat \X Nat
  PROVE  /\ Key(e) \in Nat \X Nat
         /\ ~Before(Key(e), Key(e))
         /\ e # f => Before(Key(e), Key(f)) \/ Before(Key(f), Key(e))
         /\ ~(Before(Key(e), Key(f)) /\ Before(Key(f), Key(e)))
  BY StreamAssumption DEF TypeOK, Key, Before

LEMMA BeforeTransitive ==
  ASSUME NEW k \in Nat \X Nat, NEW l \in Nat \X Nat, NEW m \in Nat \X Nat
  PROVE  /\ Before(k, l) /\ Before(l, m) => Before(k, m)
         /\ ~Before(l, k) /\ ~Before(m, l) => ~Before(m, k)
         /\ Before(k, l) /\ ~Before(m, l) => Before(k, m)
  BY DEF Before

\* A batch is closed: every pending row before one of its rows is in it.
LEMMA FirstClosed ==
  ASSUME TypeOK, NEW S \in SUBSET Entries, NEW e \in First(S), NEW f \in S,
         ~Before(Key(e), Key(f))
  PROVE  f \in First(S)
<1> DEFINE below(g) == {h \in S : Before(Key(h), Key(g))}
<1>1. e \in S /\ Cardinality(below(e)) < Batch
  BY DEF First
<1>2. IsFiniteSet(below(e)) /\ IsFiniteSet(below(f))
  <2>1. IsFiniteSet(S)
    BY StreamAssumption, FS_Subset
  <2> QED BY <2>1, FS_Subset
<1>3. below(f) \subseteq below(e)
  <2>1. ASSUME NEW h \in S, Before(Key(h), Key(f)) PROVE Before(Key(h), Key(e))
    <3>1. Key(h) \in Nat \X Nat /\ Key(f) \in Nat \X Nat /\ Key(e) \in Nat \X Nat
      <4>1. h \in Entries /\ f \in Entries /\ e \in Entries
        BY <1>1
      <4>2. \A g \in Entries : Key(g) \in Nat \X Nat
        BY StreamAssumption DEF TypeOK, Key
      <4> QED BY <4>1, <4>2
    <3> QED BY <2>1, <3>1, BeforeTransitive
  <2> QED BY <2>1
<1>4. Cardinality(below(f)) <= Cardinality(below(e))
  <2> HIDE DEF below
  <2> QED BY <1>2, <1>3, FS_Subset
<1>5. Cardinality(below(f)) \in Nat /\ Cardinality(below(e)) \in Nat
  BY <1>2, FS_CardinalityType
<1> QED
  <2>1. Cardinality(below(f)) < Batch
    <3> HIDE DEF below
    <3> QED BY <1>1, <1>4, <1>5, StreamAssumption
  <2> QED BY <2>1 DEF First

\* The states the actions of stream_audit_to_siem give a run.
LEMMA TaskTypes ==
  ASSUME TypeOK, NEW r \in Runs
  PROVE  /\ Idle \in Task
         /\ [Idle EXCEPT !.pc = "started"] \in Task
         /\ [Idle EXCEPT !.pc = "started", !.connected = TRUE, !.since = cursor] \in Task
         /\ [task[r] EXCEPT !.pc = "read", !.since = NoCursor,
                            !.ship = First(Pending(task[r].since))] \in Task
         /\ [task[r] EXCEPT !.pc = "sent"] \in Task
<1>1. NoCursor \in Nat \X Nat /\ {} \subseteq Entries /\ task[r] \in Task
  BY DEF NoCursor, TypeOK
<1>2. First(Pending(task[r].since)) \subseteq Entries
  BY DEF TypeOK, First, Pending
<1> HIDE DEF NoCursor
<1>3. Idle \in Task
  BY <1>1 DEF Idle, Task
<1>4. [Idle EXCEPT !.pc = "started"] \in Task
  BY <1>1 DEF Idle, Task
<1>5. [Idle EXCEPT !.pc = "started", !.connected = TRUE, !.since = cursor] \in Task
  BY <1>1 DEF Idle, Task, TypeOK
<1>6. [task[r] EXCEPT !.pc = "read", !.since = NoCursor,
                      !.ship = First(Pending(task[r].since))] \in Task
  BY <1>1, <1>2 DEF Task
<1>7. [task[r] EXCEPT !.pc = "sent"] \in Task
  BY <1>1 DEF Task
<1> QED BY <1>3, <1>4, <1>5, <1>6, <1>7

LEMMA BecomeType ==
  ASSUME TypeOK, NEW r \in Runs, NEW s \in Task, Become(r, s)
  PROVE  /\ task' \in [Runs -> Task]
         /\ task'[r] = s
         /\ \A q \in Runs \ {r} : task'[q] = task[q]
  BY DEF TypeOK, Become

\* The rows, the runs and the cursor of stream_audit_to_siem keep their types.
THEOREM TypeCorrect == Spec => []TypeOK
<1>1. Init => TypeOK
  <2> SUFFICES ASSUME Init PROVE TypeOK
    OBVIOUS
  <2>1. NoCursor \in Nat \X Nat
    BY DEF NoCursor
  <2>2. Idle \in Task
    BY <2>1 DEF Idle, Task
  <2>3. 0 \in 0..MaxFaults
    BY StreamAssumption
  <2>4. overlapped \in BOOLEAN
    BY DEF Init
  <2> QED BY <2>1, <2>2, <2>3, <2>4 DEF Init, TypeOK
<1>2. TypeOK /\ [Next]_vars => TypeOK'
  <2> SUFFICES ASSUME TypeOK, [Next]_vars PROVE TypeOK'
    OBVIOUS
  <2>1. ASSUME NEW e \in Entries, BeginInsert(e) PROVE TypeOK'
    BY <2>1 DEF BeginInsert, TypeOK
  <2>2. ASSUME NEW e \in Entries, CommitInsert(e) PROVE TypeOK'
    BY <2>2 DEF CommitInsert, TypeOK
  <2>3. CASE Tick
    BY <2>3 DEF Tick, TypeOK
  <2>4. ASSUME NEW r \in Runs, Stream(r) PROVE TypeOK'
    <3>1. faults' \in 0..MaxFaults
      BY <2>4, StreamAssumption
         DEF TypeOK, Stream, ReadCursor, SelectRows, Post, PostFails,
             PostUnanswered, SaveCursor, SaveFails, Crash, Fault
    <3>2. task' \in [Runs -> Task]
      BY <2>4, TaskTypes, BecomeType
         DEF Stream, ReadCursor, SelectRows, Post, PostFails,
             PostUnanswered, SaveCursor, SaveFails, Crash, Finish
    <3>3. cursor' \in Nat \X Nat
      <4>1. CASE SaveCursor(r)
        BY <4>1, KeyOrder DEF SaveCursor, TypeOK
      <4>2. CASE ~SaveCursor(r)
        BY <4>2, <2>4 DEF TypeOK, Stream, ReadCursor, SelectRows, Post, PostFails,
                       PostUnanswered, SaveFails, Crash
      <4> QED BY <4>1, <4>2
    <3>4. /\ shipped' \subseteq Entries /\ again' \subseteq Entries
          /\ UNCHANGED <<clock, created, committed, late>>
      <4>1. task[r].ship \subseteq Entries
        BY DEF TypeOK, Task
      <4> QED
        BY <2>4, <4>1 DEF TypeOK, Stream, ReadCursor, SelectRows, Post, PostFails,
             PostUnanswered, SaveCursor, SaveFails, Crash, Receive
    <3>5. overlapped' \in BOOLEAN
      BY <2>4 DEF TypeOK, Stream, ReadCursor, SelectRows, Post, PostFails,
           PostUnanswered, SaveCursor, SaveFails, Crash, Overlap
    <3> QED BY <3>1, <3>2, <3>3, <3>4, <3>5 DEF TypeOK
  <2>5. CASE UNCHANGED vars
    BY <2>5 DEF TypeOK, vars
  <2> QED BY <2>1, <2>2, <2>3, <2>4, <2>5 DEF Next
<1> QED BY <1>1, <1>2, PTL DEF Spec

-----------------------------------------------------------------------------
(* The cursor and the rows                                                   *)

\* What is handled stays handled while no row commits.
LEMMA HandledStable ==
  ASSUME TypeOK, NEW k, Handled(k), committed' = committed, late' = late,
         shipped \subseteq shipped', \A e \in committed : created'[e] = created[e]
  PROVE  Handled(k)'
  BY DEF Handled, TypeOK, Key

\* The rows handled below a cursor include every row that commits later.
LEMMA HandledAtCommit ==
  ASSUME TypeOK, KeysInv, NEW e \in Entries, CommitInsert(e), NEW k,
         k = NoCursor \/ \E f \in committed : k = Key(f), Handled(k)
  PROVE  Handled(k)'
<1>1. created[e] # 0 /\ e \notin committed /\ committed' = committed \cup {e}
      /\ created' = created /\ shipped' = shipped /\ late \subseteq late'
  BY DEF CommitInsert
<1>2. ASSUME ~Before(k, Key(e)) PROVE e \in late'
  <2>1. k # NoCursor
    BY <1>1, <1>2 DEF NoCursor, Before, Key, TypeOK
  <2>2. PICK f \in committed : k = Key(f)
    BY <2>1
  <2>3. Before(Key(e), Key(f))
    BY <1>1, <1>2, <2>2, KeyOrder DEF TypeOK
  <2> QED BY <2>3 DEF CommitInsert
<1>3. \A g \in committed' : ~Before(k, Key(g)) => g \in shipped' \cup late'
  BY <1>1, <1>2 DEF Handled
<1> QED BY <1>1, <1>3 DEF Handled, Key

\* A run's state is as good after a step that gives it no new rows.
LEMMA ShipStable ==
  ASSUME TypeOK, StreamInv, NEW r \in Runs, task'[r] = task[r],
         committed' = committed, late' = late, shipped \subseteq shipped',
         \A e \in committed : created'[e] = created[e]
  PROVE  ShipInv(r)'
<1>1. ShipInv(r) /\ committed \subseteq Entries
  BY DEF StreamInv, TypeOK
<1>2. Handled(task[r].since)'
  BY <1>1, HandledStable DEF ShipInv
<1>3. \A e \in committed : Key(e)' = Key(e)
  BY DEF Key
<1> QED BY <1>1, <1>2, <1>3 DEF ShipInv, Handled

\* A finished run holds nothing.
LEMMA IdleShip ==
  ASSUME TypeOK', KeysInv', NEW r \in Runs, task'[r] = Idle
  PROVE  ShipInv(r)'
<1>1. \A e \in committed' : Before(NoCursor, Key(e)')
  BY DEF TypeOK, KeysInv, Key, Before, NoCursor
<1> QED BY <1>1 DEF ShipInv, Handled, Idle, Key

\* Nothing but the rows' own transactions touches rows, keys and lateness.
LEMMA StreamFrame ==
  ASSUME TypeOK, NEW r \in Runs, Stream(r)
  PROVE  /\ UNCHANGED <<clock, created, committed, late>>
         /\ shipped \subseteq shipped'
         /\ \A q \in Runs \ {r} : task'[q] = task[q]
<1>1. UNCHANGED <<clock, created, committed, late>> /\ shipped \subseteq shipped'
  BY DEF Stream, ReadCursor, SelectRows, Post, PostFails, PostUnanswered,
         SaveCursor, SaveFails, Crash, Receive
<1>2. \A q \in Runs \ {r} : task'[q] = task[q]
  BY TaskTypes, BecomeType
     DEF Stream, ReadCursor, SelectRows, Post, PostFails, PostUnanswered,
         SaveCursor, SaveFails, Crash, Finish
<1> QED BY <1>1, <1>2

LEMMA StreamInvStep == TypeOK /\ TypeOK' /\ StreamInv /\ [Next]_vars => StreamInv'
<1> SUFFICES ASSUME TypeOK, TypeOK', StreamInv, [Next]_vars PROVE StreamInv'
  OBVIOUS
<1>1. ASSUME NEW e \in Entries, BeginInsert(e) PROVE StreamInv'
  <2>1. \A f \in committed : created'[f] = created[f]
    BY <1>1 DEF BeginInsert, StreamInv, KeysInv, TypeOK
  <2>2. UNCHANGED <<committed, cursor, task, shipped, late>>
    BY <1>1 DEF BeginInsert
  <2>3. KeysInv'
    BY <2>1, <2>2 DEF StreamInv, KeysInv, Key, TypeOK
  <2>4. Handled(cursor)'
    BY <2>1, <2>2, HandledStable DEF StreamInv, Handled
  <2>5. \A r \in Runs : ShipInv(r)'
    BY <2>1, <2>2, ShipStable
  <2> QED BY <2>3, <2>4, <2>5 DEF StreamInv
<1>2. ASSUME NEW e \in Entries, CommitInsert(e) PROVE StreamInv'
  <2>1. /\ created[e] # 0 /\ e \notin committed /\ committed' = committed \cup {e}
        /\ late \subseteq late'
        /\ UNCHANGED <<created, cursor, task, shipped>>
    BY <1>2 DEF CommitInsert
  <2>2. KeysInv'
    BY <2>1 DEF StreamInv, KeysInv, Key
  <2>3. Handled(cursor)'
    <3>1. \A k : (k = NoCursor \/ \E f \in committed : k = Key(f)) /\ Handled(k)
                   => Handled(k)'
      BY <1>2, HandledAtCommit DEF StreamInv
    <3> QED BY <2>1, <3>1 DEF StreamInv, KeysInv, Handled
  <2>4. ASSUME NEW r \in Runs PROVE ShipInv(r)'
    <3>1. ShipInv(r)
      BY DEF StreamInv
    <3>2. Handled(task[r].since)'
      <4>1. \A k : (k = NoCursor \/ \E f \in committed : k = Key(f)) /\ Handled(k)
                     => Handled(k)'
        BY <1>2, HandledAtCommit DEF StreamInv
      <4> QED BY <2>1, <3>1, <4>1 DEF ShipInv, Handled
    <3>3. ASSUME NEW g \in task[r].ship, ~Before(Key(g), Key(e)) PROVE e \in late'
      <4>1. g \in committed /\ g # e
        BY <2>1, <3>1 DEF ShipInv
      <4>2. Before(Key(e), Key(g))
        BY <3>3, <4>1, KeyOrder DEF TypeOK
      <4> QED BY <1>2, <4>1, <4>2 DEF CommitInsert
    <3> QED BY <2>1, <3>1, <3>2, <3>3 DEF ShipInv, Handled, Key
  <2> QED BY <2>2, <2>3, <2>4 DEF StreamInv
<1>3. CASE Tick
  <2>1. UNCHANGED <<created, committed, cursor, task, shipped, late>>
    BY <1>3 DEF Tick
  <2> QED BY <2>1 DEF StreamInv, KeysInv, Handled, ShipInv, Key
<1>4. ASSUME NEW r \in Runs, Stream(r) PROVE StreamInv'
  <2>1. /\ UNCHANGED <<clock, created, committed, late>>
        /\ shipped \subseteq shipped'
        /\ \A q \in Runs \ {r} : task'[q] = task[q]
    BY <1>4, StreamFrame
  <2>2. ShipInv(r) /\ KeysInv /\ Handled(cursor)
    BY DEF StreamInv
  <2>3. KeysInv' /\ Handled(cursor)'
    <3>1. CASE SaveCursor(r)
      <4>1. PICK e \in Entries : Last(task[r].ship, e) /\ cursor' = Key(e)
        BY <3>1 DEF SaveCursor
      <4>2. e \in task[r].ship /\ task[r].ship \subseteq shipped
            /\ task[r].ship \subseteq committed
        BY <3>1, <4>1, <2>2 DEF SaveCursor, Last, ShipInv
      <4>3. KeysInv'
        BY <2>1, <2>2, <4>1, <4>2 DEF KeysInv, Key
      <4>4. Handled(cursor')
        BY <2>2, <4>1, <4>2 DEF ShipInv, Handled
      <4> QED BY <4>3, <4>4, <2>1 DEF Handled, Key
    <3>2. CASE ~SaveCursor(r)
      <4>1. cursor' = cursor
        BY <1>4, <3>2 DEF Stream, ReadCursor, SelectRows, Post, PostFails,
                          PostUnanswered, SaveFails, Crash
      <4> QED BY <2>1, <2>2, <4>1 DEF KeysInv, Handled, Key
    <3> QED BY <3>1, <3>2
  <2>4. \A q \in Runs \ {r} : ShipInv(q)'
    BY <2>1, ShipStable DEF TypeOK
  <2>5. ShipInv(r)'
    <3>1. CASE ReadCursor(r)
      <4>1. CASE Become(r, [Idle EXCEPT !.pc = "started", !.connected = TRUE, !.since = cursor])
        <5>1. task'[r] = [Idle EXCEPT !.pc = "started", !.connected = TRUE, !.since = cursor]
          BY <4>1, TaskTypes, BecomeType
        <5>2. task'[r].since = cursor /\ task'[r].ship = {} /\ task'[r].pc = "started"
          BY <5>1 DEF Idle
        <5> QED BY <2>1, <2>2, <5>2 DEF KeysInv, ShipInv, Handled, Key
      <4>2. CASE Become(r, [Idle EXCEPT !.pc = "started"])
        <5>1. task'[r] = [Idle EXCEPT !.pc = "started"]
          BY <4>2, TaskTypes, BecomeType
        <5>2. task'[r].since = NoCursor /\ task'[r].ship = {} /\ task'[r].pc = "started"
          BY <5>1 DEF Idle
        <5>3. \A e \in committed' : Before(NoCursor, Key(e)')
          BY <2>3 DEF TypeOK, KeysInv, Key, Before, NoCursor
        <5> QED BY <5>2, <5>3 DEF ShipInv, Handled, Key
      <4> QED BY <3>1, <4>1, <4>2 DEF ReadCursor
    <3>2. CASE SelectRows(r)
      <4>1. CASE Finish(r)
        BY <4>1, <2>3, IdleShip, TaskTypes, BecomeType DEF Finish
      <4>2. CASE ~Finish(r)
        <5> DEFINE rows == Pending(task[r].since)
        <5>1. task'[r] = [task[r] EXCEPT !.pc = "read", !.since = NoCursor, !.ship = First(rows)]
          BY <3>2, <4>2, TaskTypes, BecomeType DEF SelectRows
        <5>2. /\ task'[r].since = NoCursor /\ task'[r].ship = First(rows)
              /\ task'[r].pc = "read"
          BY <5>1 DEF TypeOK, Task
        <5>3. First(rows) \subseteq committed /\ rows \subseteq Entries
          BY DEF First, Pending, TypeOK
        <5>4. \A e \in committed' : Before(NoCursor, Key(e)')
          BY <2>3 DEF TypeOK, KeysInv, Key, Before, NoCursor
        <5>5. ASSUME NEW e \in First(rows), NEW f \in committed, ~Before(Key(e), Key(f))
              PROVE  f \in First(rows) \cup shipped \cup late
          <6>1. CASE f \in rows
            BY <5>3, <5>5, <6>1, FirstClosed
          <6>2. CASE f \notin rows
            BY <2>2, <6>2 DEF Pending, ShipInv, Handled
          <6> QED BY <6>1, <6>2
        <5> QED
          <6> HIDE DEF rows
          <6> QED BY <2>1, <5>2, <5>3, <5>4, <5>5 DEF ShipInv, Handled, Key
      <4> QED BY <4>1, <4>2
    <3>3. CASE Post(r)
      <4>1. CASE Finish(r)
        BY <4>1, <2>3, IdleShip, TaskTypes, BecomeType DEF Finish
      <4>2. CASE ~Finish(r)
        <5>1. task'[r] = [task[r] EXCEPT !.pc = "sent"]
          BY <3>3, <4>2, TaskTypes, BecomeType DEF Post
        <5>2. /\ task'[r].since = task[r].since /\ task'[r].ship = task[r].ship
              /\ task'[r].ship \subseteq shipped'
          BY <3>3, <5>1 DEF TypeOK, Task, Post, Receive
        <5> QED BY <2>1, <2>2, <5>2 DEF ShipInv, Handled, Key
      <4> QED BY <4>1, <4>2
    <3>4. CASE PostFails(r) \/ PostUnanswered(r) \/ SaveCursor(r) \/ SaveFails(r) \/ Crash(r)
      <4>1. Finish(r)
        BY <3>4 DEF PostFails, PostUnanswered, SaveCursor, SaveFails, Crash
      <4> QED BY <4>1, <2>3, IdleShip, TaskTypes, BecomeType DEF Finish
    <3> QED BY <1>4, <3>1, <3>2, <3>3, <3>4 DEF Stream
  <2> QED BY <2>3, <2>4, <2>5 DEF StreamInv
<1>5. CASE UNCHANGED vars
  BY <1>5 DEF vars, StreamInv, KeysInv, Handled, ShipInv, Key
<1> QED BY <1>1, <1>2, <1>3, <1>4, <1>5 DEF Next

LEMMA StreamInvInit == Init => StreamInv
  BY DEF Init, StreamInv, KeysInv, Handled, ShipInv, Idle

\* A committed row behind the cursor was shipped or committed late, for any
\* overlap, failure and death of the runs of stream_audit_to_siem.
THEOREM PassedRowsAreShipped == Spec => []OnlyLateSkipped
<1>1. StreamInv => OnlyLateSkipped
  BY DEF StreamInv, Handled, OnlyLateSkipped, Passed
<1> QED BY <1>1, StreamInvInit, StreamInvStep, TypeCorrect, PTL DEF Spec

-----------------------------------------------------------------------------
(* One run at a time: nothing is shipped twice before the first fault        *)

\* One run is under way, or none.
OneRun == \A q, r \in Runs : task[q].pc # "idle" /\ task[r].pc # "idle" => q = r

\* A row that was shipped is behind the cursor, or about to be.
Accounted(e) == Passed(e) \/ \E r \in Runs : task[r].pc = "sent" /\ e \in task[r].ship

\* What a run has read is ahead of the cursor.
RunAhead(r) ==
  /\ task[r].pc # "idle" => task[r].connected
  /\ task[r].pc = "started" => task[r].since = cursor
  /\ \A e \in task[r].ship : ~Passed(e)
  /\ task[r].ship # {} => task[r].pc \in {"read", "sent"}

OneRunInv ==
  /\ OneRun
  /\ shipped \subseteq committed
  /\ again = {}
  /\ \A e \in shipped : Accounted(e)
  /\ \A r \in Runs : RunAhead(r)

LEMMA OneRunStep ==
  ASSUME TypeOK, StreamInv, OneRunInv, [Next]_vars,
         faults = 0, faults' = 0, ~overlapped'
  PROVE  OneRunInv'
<1>0. ~Fault
  BY DEF Fault
<1>1. ASSUME NEW e \in Entries, BeginInsert(e) PROVE OneRunInv'
  <2>1. /\ UNCHANGED <<committed, cursor, task, shipped, again>>
        /\ \A f \in committed : Key(f)' = Key(f)
    BY <1>1 DEF BeginInsert, StreamInv, KeysInv, TypeOK, Key
  <2>2. \A r \in Runs : task[r].ship \subseteq committed
    BY DEF StreamInv, ShipInv
  <2> QED BY <2>1, <2>2 DEF OneRunInv, OneRun, Accounted, RunAhead, Passed
<1>2. ASSUME NEW e \in Entries, CommitInsert(e) PROVE OneRunInv'
  BY <1>2 DEF CommitInsert, OneRunInv, OneRun, Accounted, RunAhead, Passed, Key
<1>3. CASE Tick
  BY <1>3 DEF Tick, OneRunInv, OneRun, Accounted, RunAhead, Passed, Key
<1>4. ASSUME NEW r \in Runs, Stream(r) PROVE OneRunInv'
  <2>1. /\ UNCHANGED <<created, committed>>
        /\ \A q \in Runs \ {r} : task'[q] = task[q] /\ task[q].pc = "idle"
    <3>1. UNCHANGED <<created, committed>> /\ \A q \in Runs \ {r} : task'[q] = task[q]
      BY <1>4, StreamFrame
    <3>2. CASE ReadCursor(r)
      BY <3>1, <3>2 DEF ReadCursor, Overlap
    <3>3. CASE ~ReadCursor(r)
      <4>1. task[r].pc # "idle"
        BY <1>4, <3>3 DEF Stream, SelectRows, Post, PostFails, PostUnanswered,
                       SaveCursor, SaveFails, Crash
      <4> QED BY <3>1, <4>1 DEF OneRunInv, OneRun
    <3> QED BY <3>1, <3>2, <3>3
  <2>0. /\ OneRun'
        /\ \A q \in Runs \ {r} : RunAhead(q)'
        /\ \A e : Accounted(e)' <=>
             Passed(e)' \/ (task'[r].pc = "sent" /\ e \in task'[r].ship)
    BY <2>1 DEF OneRunInv, OneRun, RunAhead, Accounted
  <2>2. RunAhead(r) /\ ShipInv(r)
    BY DEF OneRunInv, StreamInv
  <2>3. ASSUME Finish(r), UNCHANGED <<cursor, shipped, again>>,
               task[r].pc # "sent"
        PROVE  OneRunInv'
    <3>1. task'[r] = Idle
      BY <2>3, TaskTypes, BecomeType DEF Finish
    <3>2. RunAhead(r)'
      BY <3>1 DEF RunAhead, Idle
    <3>3. \A e \in shipped : Passed(e)
      BY <2>1, <2>3 DEF OneRunInv, Accounted
    <3> QED BY <2>0, <2>1, <2>3, <3>2, <3>3 DEF OneRunInv, Accounted, Passed, Key
  <2>4. CASE ReadCursor(r)
    <3>1. task[r].pc = "idle" /\ UNCHANGED <<cursor, shipped, again>>
          /\ Become(r, [Idle EXCEPT !.pc = "started", !.connected = TRUE, !.since = cursor])
      BY <1>0, <2>4 DEF ReadCursor
    <3>2. task'[r] = [Idle EXCEPT !.pc = "started", !.connected = TRUE, !.since = cursor]
      BY <3>1, TaskTypes, BecomeType
    <3>3. RunAhead(r)'
      BY <3>1, <3>2 DEF RunAhead, Idle
    <3>4. \A e \in shipped : Passed(e)
      BY <2>1, <3>1 DEF OneRunInv, Accounted
    <3> QED BY <2>0, <2>1, <3>1, <3>3, <3>4 DEF OneRunInv, Accounted, Passed, Key
  <2>5. CASE SelectRows(r)
    <3>1. task[r].pc = "started" /\ UNCHANGED <<cursor, shipped, again>>
      BY <2>5 DEF SelectRows
    <3>2. CASE Finish(r)
      BY <2>3, <3>1, <3>2
    <3>3. CASE ~Finish(r)
      <4> DEFINE rows == Pending(task[r].since)
      <4>1. task'[r] = [task[r] EXCEPT !.pc = "read", !.since = NoCursor, !.ship = First(rows)]
        BY <2>5, <3>3, TaskTypes, BecomeType DEF SelectRows
      <4>2. /\ task'[r].ship = First(rows) /\ task'[r].pc = "read"
            /\ task'[r].connected = task[r].connected
        BY <4>1 DEF TypeOK, Task
      <4>3. \A e \in First(rows) : ~Passed(e)
        BY <2>2, <3>1 DEF First, Pending, RunAhead, Passed
      <4>4. RunAhead(r)'
        <5> HIDE DEF rows
        <5> QED BY <2>1, <2>2, <3>1, <4>2, <4>3 DEF RunAhead, Passed, Key
      <4>5. \A e \in shipped : Passed(e)
        BY <2>1, <3>1 DEF OneRunInv, Accounted
      <4> QED BY <2>0, <2>1, <3>1, <4>4, <4>5 DEF OneRunInv, Accounted, Passed, Key
    <3> QED BY <3>2, <3>3
  <2>6. CASE Post(r)
    <3>1. /\ task[r].pc = "read" /\ cursor' = cursor
          /\ shipped' = shipped \cup task[r].ship
          /\ again' = again \cup (task[r].ship \cap shipped)
          /\ Become(r, [task[r] EXCEPT !.pc = "sent"])
      BY <2>2, <2>6 DEF Post, Receive, RunAhead
    <3>2. /\ task'[r].pc = "sent" /\ task'[r].ship = task[r].ship
          /\ task'[r].connected = task[r].connected
      <4>1. task'[r] = [task[r] EXCEPT !.pc = "sent"]
        BY <3>1, TaskTypes, BecomeType
      <4> QED BY <4>1 DEF TypeOK, Task
    <3>3. \A e \in shipped : Passed(e)
      BY <2>1, <3>1 DEF OneRunInv, Accounted
    <3>4. again' = {} /\ shipped' \subseteq committed'
      BY <2>1, <2>2, <3>1, <3>3 DEF OneRunInv, RunAhead, ShipInv
    <3>5. RunAhead(r)'
      BY <2>1, <2>2, <3>1, <3>2 DEF RunAhead, Passed, Key
    <3> QED BY <2>0, <2>1, <3>1, <3>2, <3>3, <3>4, <3>5 DEF OneRunInv, Accounted, Passed, Key
  <2>7. CASE PostFails(r)
    BY <2>3, <2>7 DEF PostFails
  <2>8. CASE SaveCursor(r)
    <3>1. PICK l \in Entries : Last(task[r].ship, l) /\ cursor' = Key(l)
      BY <2>8 DEF SaveCursor
    <3>2. /\ task[r].pc = "sent" /\ UNCHANGED <<shipped, again>>
          /\ task'[r] = Idle
      BY <2>8, TaskTypes, BecomeType DEF SaveCursor, Finish
    <3>3. RunAhead(r)'
      BY <3>2 DEF RunAhead, Idle
    <3>4. ASSUME NEW e \in shipped PROVE ~Before(Key(l), Key(e))
      <4>1. CASE e \in task[r].ship
        BY <3>1, <4>1 DEF Last
      <4>2. CASE e \notin task[r].ship
        <5>1. Passed(e)
          BY <2>1, <4>2 DEF OneRunInv, Accounted
        <5>2. Before(cursor, Key(l))
          BY <2>2, <3>1 DEF Last, RunAhead, Passed
        <5>3. /\ cursor \in Nat \X Nat /\ Key(l) \in Nat \X Nat
              /\ Key(e) \in Nat \X Nat
          BY KeyOrder DEF TypeOK
        <5> QED BY <5>1, <5>2, <5>3, BeforeTransitive DEF Passed
      <4> QED BY <4>1, <4>2
    <3>5. \A e \in shipped' : Accounted(e)'
      BY <2>1, <3>1, <3>2, <3>4 DEF Accounted, Passed, Key
    <3> QED BY <2>0, <2>1, <3>2, <3>3, <3>5 DEF OneRunInv
  <2>9. ~PostUnanswered(r) /\ ~SaveFails(r) /\ ~Crash(r)
    BY <1>0 DEF PostUnanswered, SaveFails, Crash
  <2> QED BY <1>4, <2>4, <2>5, <2>6, <2>7, <2>8, <2>9 DEF Stream
<1>5. CASE UNCHANGED vars
  BY <1>5 DEF vars, OneRunInv, OneRun, Accounted, RunAhead, Passed, Key
<1> QED BY <1>1, <1>2, <1>3, <1>4, <1>5 DEF Next

\* No step takes a fault or an overlap back.
LEMMA FaultsStay ==
  ASSUME TypeOK, [Next]_vars, faults' = 0, ~overlapped'
  PROVE  faults = 0 /\ ~overlapped
<1>1. /\ faults' = faults \/ Fault
      /\ overlapped' = overlapped \/ \E r \in Runs : Overlap(r)
  BY DEF Next, vars, BeginInsert, CommitInsert, Tick, Stream, ReadCursor, SelectRows,
         Post, PostFails, PostUnanswered, SaveCursor, SaveFails, Crash
<1> QED BY <1>1 DEF Fault, Overlap, TypeOK

\* Until two runs overlap, or Redis, an answer of the SIEM or a worker fails,
\* no row is shipped twice (stream_audit_to_siem's cursor).
THEOREM OneRunShipsOnce == Spec => []ReshippedOnlyAfterFault
<1> DEFINE UntilFault == faults = 0 /\ ~overlapped => OneRunInv
<1>1. Init => UntilFault
  BY DEF Init, OneRunInv, OneRun, RunAhead, Idle
<1>2. TypeOK /\ UntilFault => ReshippedOnlyAfterFault
  BY DEF OneRunInv, ReshippedOnlyAfterFault, TypeOK
<1>3. TypeOK /\ StreamInv /\ UntilFault /\ [Next]_vars => UntilFault'
  BY OneRunStep, FaultsStay
<1> QED BY <1>1, <1>2, <1>3, StreamInvInit, StreamInvStep, TypeCorrect, PTL DEF Spec

-----------------------------------------------------------------------------
(* One run at a time, faults or not: the cursor moves forward                *)

\* What a run that will write the cursor has read is ahead of it.
ForwardRun(r) ==
  /\ task[r].pc = "started" /\ task[r].connected => task[r].since = cursor
  /\ task[r].pc \in {"read", "sent"} /\ task[r].connected => \A e \in task[r].ship : ~Passed(e)
  /\ task[r].pc = "sent" => task[r].connected

ForwardInv == OneRun /\ \A r \in Runs : ForwardRun(r)

\* What a run becomes, with the cursor as it is.
LEMMA RunForward ==
  ASSUME TypeOK, ForwardInv, NEW r \in Runs, Stream(r), ~overlapped',
         cursor' = cursor \/ task'[r] = Idle,
         ForwardRun(r)'
  PROVE  ForwardInv'
<1>1. \A q \in Runs \ {r} : task'[q] = task[q]
  BY StreamFrame
<1>2. \A q \in Runs \ {r} : task[q].pc = "idle"
  <2>1. CASE ReadCursor(r)
    BY <2>1 DEF ReadCursor, Overlap
  <2>2. CASE ~ReadCursor(r)
    <3>1. task[r].pc # "idle"
      BY <2>2 DEF Stream, SelectRows, Post, PostFails, PostUnanswered, SaveCursor, SaveFails, Crash
    <3> QED
      BY <3>1 DEF ForwardInv, OneRun
  <2> QED
    BY <2>1, <2>2
<1>3. \A q \in Runs \ {r} : ForwardRun(q)'
  BY <1>1, <1>2 DEF ForwardRun
<1>4. OneRun'
  BY <1>1, <1>2 DEF OneRun
<1> QED
  BY <1>3, <1>4 DEF ForwardInv

LEMMA ForwardStep ==
  ASSUME TypeOK, StreamInv, ForwardInv, [Next]_vars, ~overlapped'
  PROVE  ForwardInv'
<1>1. ASSUME NEW e \in Entries, BeginInsert(e) PROVE ForwardInv'
  <2>1. UNCHANGED <<committed, cursor, task>> /\ \A f \in committed : Key(f)' = Key(f)
    BY <1>1 DEF BeginInsert, StreamInv, KeysInv, TypeOK, Key
  <2>2. \A r \in Runs : task[r].ship \subseteq committed
    BY DEF StreamInv, ShipInv
  <2> QED
    BY <2>1, <2>2 DEF ForwardInv, OneRun, ForwardRun, Passed
<1>2. ASSUME NEW e \in Entries, CommitInsert(e) PROVE ForwardInv'
  BY <1>2 DEF CommitInsert, ForwardInv, OneRun, ForwardRun, Passed, Key
<1>3. CASE Tick
  BY <1>3 DEF Tick, ForwardInv, OneRun, ForwardRun, Passed, Key
<1>4. ASSUME NEW r \in Runs, Stream(r) PROVE ForwardInv'
  <2>1. created' = created /\ ForwardRun(r)
    BY <1>4, StreamFrame DEF ForwardInv
  <2>2. ASSUME Finish(r) PROVE ForwardInv'
    <3>1. task'[r] = Idle
      BY <2>2, TaskTypes, BecomeType DEF Finish
    <3>2. ForwardRun(r)'
      BY <3>1 DEF ForwardRun, Idle
    <3> QED
      BY <1>4, <3>1, <3>2, RunForward
  <2>3. CASE ReadCursor(r)
    <3>1. cursor' = cursor
      BY <2>3 DEF ReadCursor
    <3>2. CASE Become(r, [Idle EXCEPT !.pc = "started", !.connected = TRUE, !.since = cursor])
      <4>1. task'[r] = [Idle EXCEPT !.pc = "started", !.connected = TRUE, !.since = cursor]
        BY <3>2, TaskTypes, BecomeType
      <4>2. ForwardRun(r)'
        BY <3>1, <4>1 DEF ForwardRun, Idle
      <4> QED
        BY <1>4, <3>1, <4>2, RunForward
    <3>3. CASE Become(r, [Idle EXCEPT !.pc = "started"])
      <4>1. task'[r] = [Idle EXCEPT !.pc = "started"]
        BY <3>3, TaskTypes, BecomeType
      <4>2. ForwardRun(r)'
        BY <4>1 DEF ForwardRun, Idle
      <4> QED
        BY <1>4, <3>1, <4>2, RunForward
    <3> QED
      BY <2>3, <3>2, <3>3 DEF ReadCursor
  <2>4. CASE SelectRows(r) /\ ~Finish(r)
    <3> DEFINE rows == Pending(task[r].since)
    <3>1. task'[r] = [task[r] EXCEPT !.pc = "read", !.since = NoCursor, !.ship = First(rows)]
      BY <2>4, TaskTypes, BecomeType DEF SelectRows
    <3>2. /\ task[r].pc = "started" /\ cursor' = cursor
          /\ task'[r].ship = First(rows) /\ task'[r].pc = "read"
          /\ task'[r].connected = task[r].connected
      BY <2>4, <3>1 DEF TypeOK, Task, SelectRows
    <3>3. \A e \in First(rows) : Before(task[r].since, Key(e))
      BY DEF First, Pending
    <3> HIDE DEF rows
    <3>4. ForwardRun(r)'
      BY <2>1, <3>2, <3>3 DEF ForwardRun, Passed, Key
    <3> QED
      BY <1>4, <3>2, <3>4, RunForward
  <2>5. CASE Post(r) /\ ~Finish(r)
    <3>1. task'[r] = [task[r] EXCEPT !.pc = "sent"] /\ task[r].pc = "read" /\ task[r].connected
          /\ cursor' = cursor
      BY <2>5, TaskTypes, BecomeType DEF Post
    <3>2. /\ task'[r].pc = "sent" /\ task'[r].ship = task[r].ship
          /\ task'[r].connected = task[r].connected
      BY <3>1 DEF TypeOK, Task
    <3>3. ForwardRun(r)'
      BY <2>1, <3>1, <3>2 DEF ForwardRun, Passed, Key
    <3> QED
      BY <1>4, <3>1, <3>3, RunForward
  <2>6. CASE PostFails(r) \/ PostUnanswered(r) \/ SaveCursor(r) \/ SaveFails(r) \/ Crash(r)
    BY <2>2, <2>6 DEF PostFails, PostUnanswered, SaveCursor, SaveFails, Crash
  <2> QED
    BY <1>4, <2>2, <2>3, <2>4, <2>5, <2>6 DEF Stream
<1>5. CASE UNCHANGED vars
  BY <1>5 DEF vars, ForwardInv, OneRun, ForwardRun, Passed, Key
<1> QED
  BY <1>1, <1>2, <1>3, <1>4, <1>5 DEF Next

LEMMA OverlapStays ==
  ASSUME TypeOK, [Next]_vars, ~overlapped'
  PROVE  ~overlapped
<1>1. overlapped' = overlapped \/ \E r \in Runs : Overlap(r)
  BY DEF Next, vars, BeginInsert, CommitInsert, Tick, Stream, ReadCursor, SelectRows,
         Post, PostFails, PostUnanswered, SaveCursor, SaveFails, Crash
<1> QED
  BY <1>1 DEF Overlap, TypeOK

\* Only a run that has shipped moves the cursor, to a row it has shipped.
LEMMA CursorStep ==
  ASSUME ForwardInv, [Next]_vars, cursor' # cursor
  PROVE  Before(cursor, cursor')
<1>1. PICK r \in Runs : SaveCursor(r)
  BY DEF Next, vars, BeginInsert, CommitInsert, Tick, Stream, ReadCursor, SelectRows,
         Post, PostFails, PostUnanswered, SaveFails, Crash
<1>2. PICK e \in Entries : Last(task[r].ship, e) /\ cursor' = Key(e)
  BY <1>1 DEF SaveCursor
<1>3. e \in task[r].ship /\ task[r].pc = "sent"
  BY <1>1, <1>2 DEF SaveCursor, Last
<1> QED
  BY <1>2, <1>3 DEF ForwardInv, ForwardRun, Passed

\* Until two runs of stream_audit_to_siem overlap, the cursor in Redis only moves
\* forward, whatever fails: a run that Redis did not answer does not write it.
THEOREM CursorMovesOn == Spec => CursorMovesForward
<1> DEFINE UntilOverlap == ~overlapped => ForwardInv
<1>1. Init => UntilOverlap
  BY DEF Init, ForwardInv, ForwardRun, OneRun, Idle
<1>2. TypeOK /\ StreamInv /\ UntilOverlap /\ [Next]_vars => UntilOverlap'
  BY ForwardStep, OverlapStays
<1>3. TypeOK /\ UntilOverlap /\ [Next]_vars
        => [overlapped' \/ cursor' = cursor \/ Before(cursor, cursor')]_vars
  BY CursorStep, OverlapStays
<1> QED
  BY <1>1, <1>2, <1>3, StreamInvInit, StreamInvStep, TypeCorrect, PTL DEF Spec, CursorMovesForward

=============================================================================
