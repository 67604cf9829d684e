----------------------- MODULE ConnectorSync_proofs -----------------------
(***************************************************************************)
(* For every set of changes, tasks, requests and webhooks: the type        *)
(* invariant, and that nothing is skipped when the overlap window covers   *)
(* the upstream transaction and the fetch.                                 *)
(***************************************************************************)
EXTENDS ConnectorSync, SequenceTheorems, TLAPS

\* The trimmed webhook buffer is a buffer (shopify_webhooks.py:257-258).
LEMMA LatestType ==
  ASSUME NEW b \in Seq(Hooks), NEW h \in Hooks
  PROVE  Latest(Append(b, h)) \in Seq(Hooks)
<1> DEFINE e == Append(b, h)
<1>1. e \in Seq(Hooks) /\ Len(e) \in Nat /\ \A i \in 1..Len(e) : e[i] \in Hooks
  OBVIOUS
<1>2. CASE Len(e) > BufferCap
  <2> DEFINE m == Len(e) - BufferCap + 1
  <2>1. m \in Int /\ \A i \in m..Len(e) : e[i] \in Hooks
    BY <1>1, <1>2, SyncAssumption
  <2>2. SubSeq(e, m, Len(e)) \in Seq(Hooks)
    <3> HIDE DEF e, m
    <3> QED BY <1>1, <2>1, SubSeqProperties
  <2> QED BY <1>2, <2>2 DEF Latest
<1>3. CASE ~(Len(e) > BufferCap)
  BY <1>1, <1>3 DEF Latest
<1> QED BY <1>2, <1>3

\* What the columns of the row are.
LEMMA RowType ==
  ASSUME TypeOK
  PROVE  /\ conn.exists \in BOOLEAN /\ conn.scheduled \in BOOLEAN
         /\ conn.status \in Status /\ conn.cursor \in Nat
         /\ conn.lastSync \in Nat /\ conn.buffer \in Seq(Hooks)
         /\ ComputeSince(conn) \in Int
  BY SyncAssumption DEF TypeOK, Row, ComputeSince, EffectiveSince, Null

\* The states the actions give a handler.
LEMMA ProcTypes ==
  ASSUME TypeOK, NEW r \in 0..MaxRetries
  PROVE  /\ Idle \in Proc /\ Queued(r) \in Proc /\ LoadedForSync(r) \in Proc
         /\ LoadedForTest \in Proc /\ LoadedForHook \in Proc
<1>1. /\ Null \in Nat /\ Null \in Int /\ <<>> \in Seq(Hooks)
      /\ 0 \in 0..MaxRetries /\ {} \in SUBSET Changes
  BY SyncAssumption DEF Null
<1>2. /\ {"none", "sync", "test", "hook"} = Kind
      /\ {"idle", "queued", "loaded", "fetched"} = Step
      /\ "inactive" \in Status
  BY DEF Kind, Step, Status
<1> HIDE DEF Null
<1>3. Idle \in Proc
  BY <1>1, <1>2 DEF Idle, Proc
<1>4. Queued(r) \in Proc
  BY <1>1, <1>2 DEF Queued, Idle, Proc
<1>5. LoadedForSync(r) \in Proc
  BY <1>1, <1>2, RowType DEF LoadedForSync, Idle, Proc
<1>6. LoadedForTest \in Proc
  BY <1>1, <1>2, RowType DEF LoadedForTest, Idle, Proc
<1>7. LoadedForHook \in Proc
  BY <1>1, <1>2, RowType DEF LoadedForHook, Idle, Proc
<1> QED BY <1>3, <1>4, <1>5, <1>6, <1>7

\* Storing one handler's state.
LEMMA BecomeType ==
  ASSUME TypeOK, NEW p \in Procs, NEW s \in Proc, Become(p, s)
  PROVE  proc' \in [Procs -> Proc]
  BY DEF TypeOK, Become

\* The rows, messages and clocks of tasks.py and connectors.py keep their types.
THEOREM TypeCorrect == Spec => []TypeOK
<1> USE SyncAssumption
<1>1. Init => TypeOK
  <2> SUFFICES ASSUME Init PROVE TypeOK
    OBVIOUS
  <2>1. NewRow \in Row
    BY DEF NewRow, Row, Status, Null
  <2>2. Idle \in Proc
    BY DEF Idle, Proc, Kind, Step, Status, Null
  <2> QED
    BY <2>1, <2>2 DEF Init, TypeOK, Null
<1>2. TypeOK /\ [Next]_vars => TypeOK'
  <2> SUFFICES ASSUME TypeOK, [Next]_vars PROVE TypeOK'
    OBVIOUS
  <2>0. /\ 0 \in 0..MaxRetries /\ Tasks \subseteq Procs /\ Requests \subseteq Procs
        /\ Idle \in Proc /\ Queued(0) \in Proc /\ LoadedForSync(0) \in Proc
        /\ LoadedForTest \in Proc /\ LoadedForHook \in Proc
    BY ProcTypes DEF Procs
  <2>1. CASE Environment
    BY <2>1 DEF Environment, UpstreamWrite, UpstreamCommit, Tick, TypeOK
  <2>2. ASSUME NEW p \in Tasks, Scan(p) \/ SyncTaskLoad(p) PROVE TypeOK'
    <3>1. CASE Scan(p)
      BY <3>1, <2>0, BecomeType DEF Scan, TypeOK
    <3>2. CASE SyncTaskLoad(p)
      <4>1. proc[p].retries \in 0..MaxRetries
        BY <2>0 DEF TypeOK, Proc
      <4>2. LoadedForSync(proc[p].retries) \in Proc
        BY <4>1, ProcTypes
      <4> QED
        BY <3>2, <4>2, <2>0, BecomeType DEF SyncTaskLoad, TypeOK
    <3> QED BY <2>2, <3>1, <3>2
  <2>3. ASSUME NEW p \in Requests, Request(p) PROVE TypeOK'
    <3>1. CASE ManualSyncLoad(p)
      BY <3>1, <2>0, BecomeType DEF ManualSyncLoad, TypeOK
    <3>2. CASE TestLoad(p)
      BY <3>2, <2>0, BecomeType DEF TestLoad, TypeOK
    <3>3. CASE HookLoad(p)
      BY <3>3, <2>0, BecomeType DEF HookLoad, TypeOK
    <3>4. ASSUME NEW ok \in BOOLEAN, TestCommit(p, ok) PROVE TypeOK'
      <4>1. conn' \in Row
        BY <3>4, RowType DEF TestCommit, TypeOK, Row, Status, NetChange
      <4> QED
        BY <3>4, <4>1, <2>0, BecomeType DEF TestCommit, Finish, TypeOK
    <3>5. ASSUME NEW h \in Hooks, HookCommit(p, h) PROVE TypeOK'
      <4>1. proc[p].cursor \in Nat /\ proc[p].buffer \in Seq(Hooks)
        BY <2>0 DEF TypeOK, Proc
      <4>2. Latest(Append(proc[p].buffer, h)) \in Seq(Hooks)
        BY <4>1, LatestType
      <4>3. conn' \in Row
        BY <3>5, <4>1, <4>2 DEF HookCommit, TypeOK, Row
      <4>4. accepted' \subseteq Hooks
        BY <3>5 DEF HookCommit, TypeOK
      <4> QED
        BY <3>5, <4>3, <4>4, <2>0, BecomeType DEF HookCommit, Finish, TypeOK
    <3> QED
      BY <2>3, <3>1, <3>2, <3>3, <3>4, <3>5 DEF Request
  <2>4. ASSUME NEW p \in Procs, Sync(p) \/ Crash(p) PROVE TypeOK'
    <3>1. /\ proc[p] \in Proc /\ proc[p].retries \in 0..MaxRetries
          /\ proc[p].got \subseteq Changes /\ proc[p].status \in Status
      BY DEF TypeOK, Proc
    <3>2. CASE FetchData(p)
      <4> DEFINE s == [proc[p] EXCEPT !.pc = "fetched", !.at = clock,
                                      !.got = Selected(proc[p].since),
                                      !.since = Null]
      <4>1. Selected(proc[p].since) \subseteq Changes
        BY DEF Selected, TypeOK
      <4>2. s \in Proc
        <5>1. Null \in Int /\ clock \in Nat /\ "fetched" \in Step
          BY DEF Null, TypeOK, Step
        <5> HIDE DEF Null
        <5> QED BY <3>1, <4>1, <5>1 DEF Proc
      <4>3. Become(p, s)
        BY <3>2 DEF FetchData
      <4>4. proc' \in [Procs -> Proc]
        BY <4>2, <4>3, BecomeType
      <4> QED
        BY <3>2, <4>4 DEF FetchData, TypeOK
    <3>3. ASSUME RetryOrEnd(p) PROVE proc' \in [Procs -> Proc]
      <4>1. CASE p \in Tasks /\ proc[p].retries < MaxRetries
        <5>1. proc[p].retries + 1 \in 0..MaxRetries
          BY <3>1, <4>1
        <5>2. Queued(proc[p].retries + 1) \in Proc
          BY <5>1, ProcTypes
        <5> QED
          BY <3>3, <4>1, <5>2, BecomeType DEF RetryOrEnd
      <4>2. CASE ~(p \in Tasks /\ proc[p].retries < MaxRetries)
        BY <3>3, <4>2, <2>0, BecomeType DEF RetryOrEnd, Finish
      <4> QED BY <4>1, <4>2
    <3>4. CASE SyncCommit(p)
      <4>1. <<>> \in Seq(Hooks)
        OBVIOUS
      <4>2. conn' \in Row
        BY <3>4, <4>1 DEF SyncCommit, TypeOK, Row, Status, NetChange
      <4>3. proc' \in [Procs -> Proc]
        BY <3>4, <2>0, BecomeType DEF SyncCommit, Finish
      <4> QED
        BY <3>4, <3>1, <4>2, <4>3 DEF SyncCommit, TypeOK
    <3>5. CASE SyncFail(p)
      <4>1. conn' \in Row
        BY <3>5 DEF SyncFail, TypeOK, Row, Status, NetChange
      <4> QED
        BY <3>5, <3>3, <4>1 DEF SyncFail, TypeOK
    <3>6. CASE SyncRollback(p)
      BY <3>6, <3>3 DEF SyncRollback, TypeOK
    <3>7. CASE Crash(p)
      BY <3>7, <2>0, BecomeType DEF Crash, Finish, TypeOK
    <3> QED
      BY <2>4, <3>2, <3>4, <3>5, <3>6, <3>7 DEF Sync
  <2>5. ASSUME NEW s \in Status, NEW b \in BOOLEAN, UpdateConnector(s, b)
        PROVE TypeOK'
    BY <2>5 DEF UpdateConnector, Row, TypeOK
  <2>6. CASE DeleteConnector
    BY <2>6 DEF DeleteConnector, Row, TypeOK
  <2>7. CASE UNCHANGED vars
    BY <2>7 DEF vars, TypeOK
  <2> QED
    BY <2>1, <2>2, <2>3, <2>4, <2>5, <2>6, <2>7 DEF Next
<1> QED BY <1>1, <1>2, PTL DEF Spec

----------------------------------------------------------------------------

\* Delivering more, and committing upstream changes that are young, keeps
\* every watermark covered.
LEMMA CoveredStable ==
  ASSUME TypeOK, SourceInv, OverlapCovers, NEW t \in Int, Covered(t),
         t + Overlap <= clock \/ t = Null,
         delivered \subseteq delivered',
         \A c \in visible' : \/ c \in visible /\ stamp'[c] = stamp[c]
                             \/ /\ c \in Changes \ visible /\ stamp'[c] = stamp[c]
                                /\ stamp[c] # Null
  PROVE  Covered(t)'
<1> SUFFICES ASSUME NEW c \in visible', stamp'[c] <= t
             PROVE  c \in delivered'
  BY DEF Covered
<1>1. CASE c \in visible /\ stamp'[c] = stamp[c]
  BY <1>1 DEF Covered
<1>2. CASE c \in Changes \ visible /\ stamp'[c] = stamp[c] /\ stamp[c] # Null
  <2>1. clock - stamp[c] <= Lag /\ stamp[c] \in Nat /\ stamp[c] > 0 /\ clock \in Nat
    BY <1>2 DEF SourceInv, TypeOK, Null
  <2>2. stamp[c] > t
    BY <2>1, SyncAssumption DEF OverlapCovers, Null
  <2> QED BY <1>2, <2>1, <2>2
<1> QED BY <1>1, <1>2

\* What every step of the system does to the clock, the source and the
\* deliveries.
Forward ==
  /\ clock <= clock' /\ delivered \subseteq delivered'
  /\ \A c \in visible' : \/ c \in visible /\ stamp'[c] = stamp[c]
                         \/ /\ c \in Changes \ visible /\ stamp'[c] = stamp[c]
                            /\ stamp[c] # Null
  /\ SourceInv'

LEMMA StepFacts ==
  ASSUME TypeOK, SourceInv, [Next]_vars
  PROVE  Forward
<1> USE DEF SourceInv, TypeOK, Forward
<1>1. ASSUME NEW c \in Changes, UpstreamWrite(c) PROVE Forward
  BY <1>1, SyncAssumption DEF UpstreamWrite, Null
<1>2. ASSUME NEW c \in Changes, UpstreamCommit(c) PROVE Forward
  BY <1>2 DEF UpstreamCommit, Null
<1>3. CASE Tick
  BY <1>3, SyncAssumption DEF Tick, Null
<1>4. CASE UNCHANGED <<clock, stamp, visible>> /\ delivered \subseteq delivered'
  BY <1>4
<1>5. CASE UNCHANGED vars
  BY <1>5, <1>4 DEF vars
<1>6. ASSUME NEW p \in Tasks, Scan(p) \/ SyncTaskLoad(p) PROVE Forward
  BY <1>4, <1>6 DEF Scan, SyncTaskLoad
<1>7. ASSUME NEW p \in Requests, Request(p) PROVE Forward
  BY <1>4, <1>7 DEF Request, ManualSyncLoad, TestLoad, HookLoad, TestCommit, HookCommit
<1>8. ASSUME NEW p \in Procs, Sync(p) \/ Crash(p) PROVE Forward
  BY <1>4, <1>8 DEF Sync, FetchData, SyncCommit, SyncFail, SyncRollback, Crash
<1>9. ASSUME NEW s \in Status, NEW b \in BOOLEAN, UpdateConnector(s, b)
      PROVE  Forward
  BY <1>4, <1>9 DEF UpdateConnector
<1>10. CASE DeleteConnector
  BY <1>4, <1>10 DEF DeleteConnector
<1> HIDE DEF Forward, SourceInv, TypeOK
<1> QED
  BY <1>1, <1>2, <1>3, <1>5, <1>6, <1>7, <1>8, <1>9, <1>10
     DEF Next, Environment

\* A watermark a step leaves alone stays behind the deliveries.
LEMMA BehindStable ==
  ASSUME TypeOK, SourceInv, OverlapCovers, Forward, TypeOK',
         NEW t \in Nat, Behind(t)
  PROVE  Behind(t)'
<1> SUFFICES ASSUME t # Null PROVE t <= clock' /\ Covered(t - Overlap)'
  BY DEF Behind
<1>1. t <= clock /\ Covered(t - Overlap) /\ t - Overlap \in Int
  BY SyncAssumption DEF Behind
<1>2. t <= clock'
  BY <1>1 DEF Forward, TypeOK
<1>3. (t - Overlap) + Overlap <= clock
  BY <1>1, SyncAssumption DEF TypeOK
<1>4. Covered(t - Overlap)'
  BY <1>1, <1>3, CoveredStable DEF Forward
<1> QED BY <1>2, <1>4

LEMMA SinceStable ==
  ASSUME TypeOK, SourceInv, OverlapCovers, Forward, TypeOK',
         NEW t \in Int, SinceOK(t)
  PROVE  SinceOK(t)'
<1>1. CASE t = Null
  BY <1>1 DEF SinceOK
<1>2. CASE t + Overlap <= clock /\ Covered(t)
  <2>0. t + Overlap <= clock \/ t = Null
    BY <1>2
  <2>1. Covered(t)'
    BY <1>2, <2>0, CoveredStable DEF Forward
  <2>2. clock \in Nat /\ clock' \in Nat /\ clock <= clock' /\ Overlap \in Nat
    BY SyncAssumption DEF Forward, TypeOK
  <2>3. t + Overlap <= clock'
    BY <1>2, <2>2
  <2> QED BY <2>1, <2>3 DEF SinceOK
<1> QED BY <1>1, <1>2 DEF SinceOK

\* A source's answer that is carried over a step still lacks only recent
\* changes, as long as the clock respects the bound of the fetch.
LEMMA AnswerStable ==
  ASSUME TypeOK, SourceInv, Forward, TypeOK', NEW p \in Procs,
         AnswerOK(p), proc'[p] = proc[p], clock' - proc[p].at <= FetchBound
  PROVE  AnswerOK(p)'
<1>1. proc[p].at \in Nat
  BY DEF TypeOK, Proc
<1>2. proc'[p].at <= clock' /\ clock' - proc'[p].at <= FetchBound
  BY <1>1 DEF AnswerOK, Forward, TypeOK
<1>3. ASSUME NEW c \in visible', stamp'[c] < proc'[p].at - Lag
      PROVE  c \in proc'[p].got \cup delivered'
  <2>1. CASE c \in visible /\ stamp'[c] = stamp[c]
    BY <2>1, <1>3 DEF AnswerOK, Forward
  <2>2. CASE c \in Changes \ visible /\ stamp'[c] = stamp[c] /\ stamp[c] # Null
    BY <2>2, <1>1, <1>3, SyncAssumption DEF SourceInv, AnswerOK, TypeOK
  <2> QED BY <2>1, <2>2, <1>3 DEF Forward
<1> QED BY <1>2, <1>3 DEF AnswerOK

\* The invariant of a handler that a step leaves alone.
LEMMA ProcKept ==
  ASSUME TypeOK, SyncInv, OverlapCovers, Forward, TypeOK', NEW p \in Procs,
         proc'[p] = proc[p],
         proc[p].pc = "fetched" => clock' - proc[p].at <= FetchBound
  PROVE  ProcInv(p)'
<1>1. /\ SourceInv /\ ProcInv(p)
      /\ proc[p].cursor \in Nat /\ proc[p].since \in Int
  BY DEF SyncInv, TypeOK, Proc
<1>2. Behind(proc[p].cursor)'
  <2> DEFINE t == proc[p].cursor
  <2>1. t \in Nat /\ Behind(t) /\ t' = t
    BY <1>1 DEF ProcInv
  <2>2. Behind(t)'
    <3> SUFFICES ASSUME NEW u \in Nat, Behind(u), u = t PROVE Behind(u)'
      BY <2>1 DEF Behind, Covered
    <3> QED BY <1>1, BehindStable
  <2> QED BY <2>2
<1>3. SinceOK(proc[p].since)'
  <2> SUFFICES ASSUME NEW u \in Int, SinceOK(u), u = proc[p].since PROVE SinceOK(u)'
    BY <1>1 DEF SinceOK, Covered, ProcInv
  <2> QED BY <1>1, SinceStable
<1>4. ASSUME (proc[p].pc = "fetched")' PROVE AnswerOK(p)'
  BY <1>1, <1>4, AnswerStable DEF ProcInv
<1> QED BY <1>2, <1>3, <1>4 DEF ProcInv

\* The since computed from the row is covered, whatever moved the watermark.
LEMMA RowSince ==
  ASSUME TypeOK, SyncInv
  PROVE  SinceOK(ComputeSince(conn)) /\ Covered(ComputeSince(conn))
<1>1. /\ Behind(conn.cursor) /\ Behind(conn.lastSync)
      /\ conn.cursor \in Nat /\ conn.lastSync \in Nat
  BY RowType DEF SyncInv
<1>2. Covered(Null)
  BY DEF Covered, Null, SyncInv, SourceInv, TypeOK
<1>3. ASSUME NEW t \in Nat, Behind(t), t # Null
      PROVE  (t - Overlap) + Overlap <= clock /\ Covered(t - Overlap)
  BY <1>3, SyncAssumption DEF Behind, TypeOK
<1> QED
  BY <1>1, <1>2, <1>3 DEF ComputeSince, EffectiveSince, SinceOK

\* The invariant of a handler that has just loaded the row, or ended.
LEMMA ProcNew ==
  ASSUME TypeOK, SyncInv, OverlapCovers, Forward, TypeOK', NEW p \in Procs,
         proc'[p].pc # "fetched",
         proc'[p].cursor = Null \/ proc'[p].cursor = conn.cursor,
         proc'[p].since = Null \/ proc'[p].since = ComputeSince(conn)
  PROVE  ProcInv(p)'
<1>1. SourceInv /\ proc'[p].cursor \in Nat /\ proc'[p].since \in Int
  BY DEF SyncInv, TypeOK, Proc
<1>2. Behind(proc[p].cursor)'
  <2> SUFFICES ASSUME NEW u \in Nat, u = proc'[p].cursor PROVE Behind(u)'
    BY <1>1 DEF Behind, Covered
  <2>1. Behind(u)
    BY RowType DEF SyncInv, Behind
  <2> QED BY <1>1, <2>1, BehindStable
<1>3. SinceOK(proc[p].since)'
  <2> SUFFICES ASSUME NEW u \in Int, u = proc'[p].since PROVE SinceOK(u)'
    BY <1>1 DEF SinceOK, Covered
  <2>1. SinceOK(u)
    BY RowSince DEF SinceOK
  <2> QED BY <1>1, <2>1, SinceStable
<1> QED BY <1>2, <1>3 DEF ProcInv

\* A step that leaves the clock and the row alone and gives one handler a
\* state of the kind ProcNew speaks of.
LEMMA StepOfOne ==
  ASSUME TypeOK, SyncInv, OverlapCovers, Forward, TypeOK', NEW p \in Procs,
         clock' = clock,
         Behind(conn.cursor)', Behind(conn.lastSync)', ProcInv(p)',
         \A q \in Procs \ {p} : proc'[q] = proc[q]
  PROVE  SyncInv'
<1>1. ASSUME NEW q \in Procs \ {p} PROVE ProcInv(q)'
  <2>1. proc[q].pc = "fetched" => clock' - proc[q].at <= FetchBound
    BY DEF SyncInv, ProcInv, AnswerOK
  <2> QED BY <1>1, <2>1, ProcKept
<1> QED BY <1>1 DEF SyncInv, Forward

LEMMA RowKept ==
  ASSUME TypeOK, SyncInv, OverlapCovers, Forward, TypeOK',
         conn'.cursor = conn.cursor, conn'.lastSync = conn.lastSync
  PROVE  Behind(conn.cursor)' /\ Behind(conn.lastSync)'
<1>1. /\ SourceInv /\ conn.cursor \in Nat /\ conn.lastSync \in Nat
      /\ Behind(conn.cursor) /\ Behind(conn.lastSync)
  BY RowType DEF SyncInv
<1>2. ASSUME NEW u \in Nat, Behind(u), u = conn'.cursor \/ u = conn'.lastSync
      PROVE  Behind(u)'
  BY <1>1, <1>2, BehindStable
<1> QED BY <1>1, <1>2 DEF Behind, Covered

\* A step that loads the row or ends one handler and leaves watermarks alone.
LEMMA StepOfNew ==
  ASSUME TypeOK, SyncInv, OverlapCovers, Forward, TypeOK', NEW p \in Procs,
         NEW s, Become(p, s), s.pc # "fetched", clock' = clock,
         s.cursor = Null \/ s.cursor = conn.cursor,
         s.since = Null \/ s.since = ComputeSince(conn),
         conn'.cursor = conn.cursor, conn'.lastSync = conn.lastSync
  PROVE  SyncInv'
<1>1. proc'[p] = s /\ \A q \in Procs \ {p} : proc'[q] = proc[q]
  BY DEF Become, TypeOK
<1>2. ProcInv(p)'
  BY <1>1, ProcNew
<1> QED BY <1>1, <1>2, RowKept, StepOfOne

\* The commit of a sync: the new watermark is the time of the commit, at most
\* FetchBound after the source's answer, which lacks only changes stamped
\* less than Lag before it; rewound by the overlap it is covered.
LEMMA CommitCovers ==
  ASSUME TypeOK, SyncInv, OverlapCovers, Forward, TypeOK', NEW p \in Procs,
         SyncCommit(p)
  PROVE  Behind(conn.cursor)' /\ Behind(conn.lastSync)'
<1>1. /\ conn'.cursor = clock /\ conn'.lastSync = clock
      /\ clock' = clock /\ visible' = visible /\ stamp' = stamp
      /\ delivered' = delivered \cup proc[p].got
  BY DEF SyncCommit, TypeOK, Row
<1>2. AnswerOK(p) /\ proc[p].at \in Nat /\ clock \in Nat
  BY DEF SyncCommit, SyncInv, ProcInv, TypeOK, Proc
<1>3. ASSUME NEW c \in visible, stamp[c] <= clock - Overlap
      PROVE  c \in delivered'
  <2>1. stamp[c] \in Nat
    BY DEF TypeOK
  <2>2. stamp[c] < proc[p].at - Lag
    BY <1>2, <1>3, <2>1, SyncAssumption DEF AnswerOK, OverlapCovers
  <2> QED BY <1>1, <1>2, <2>2 DEF AnswerOK
<1> QED BY <1>1, <1>2, <1>3 DEF Behind, Covered

\* Every action keeps the invariant.
LEMMA SyncInvStep ==
  ASSUME TypeOK, TypeOK', SyncInv, OverlapCovers, [Next]_vars
  PROVE  SyncInv'
<1>0. Forward /\ Tasks \subseteq Procs /\ Requests \subseteq Procs
  BY StepFacts DEF SyncInv, Procs
<1>i. Idle.pc # "fetched" /\ Idle.cursor = Null /\ Idle.since = Null
  BY DEF Idle
<1>q. \A r : Queued(r).pc # "fetched" /\ Queued(r).cursor = Null /\ Queued(r).since = Null
  BY DEF Queued, Idle
<1>l. \A r : /\ LoadedForSync(r).pc # "fetched" /\ LoadedForSync(r).cursor = Null
             /\ LoadedForSync(r).since = ComputeSince(conn)
  BY DEF LoadedForSync, Idle
<1>1. CASE UNCHANGED <<clock, conn, proc>>
  <2>1. ASSUME NEW p \in Procs PROVE ProcInv(p)'
    <3>1. proc[p].pc = "fetched" => clock' - proc[p].at <= FetchBound
      BY <1>1 DEF SyncInv, ProcInv, AnswerOK
    <3> QED BY <1>0, <1>1, <3>1, ProcKept
  <2> QED BY <1>0, <1>1, <2>1, RowKept DEF SyncInv, Forward
<1>2. CASE Environment
  <2>1. CASE Tick
    <3>1. ASSUME NEW p \in Procs PROVE ProcInv(p)'
      <4>1. proc[p].pc = "fetched" => clock' - proc[p].at <= FetchBound
        BY <2>1, SyncAssumption DEF Tick, TypeOK, Proc
      <4> QED BY <1>0, <2>1, <4>1, ProcKept DEF Tick
    <3> QED BY <1>0, <2>1, <3>1, RowKept DEF SyncInv, Forward, Tick
  <2> QED BY <1>1, <1>2, <2>1 DEF Environment, UpstreamWrite, UpstreamCommit
<1>3. ASSUME NEW p \in Tasks, Scan(p) \/ SyncTaskLoad(p) PROVE SyncInv'
  <2>1. CASE Scan(p)
    BY <1>0, <1>q, <2>1, StepOfNew DEF Scan
  <2>2. CASE SyncTaskLoad(p) /\ conn.exists
    BY <1>0, <1>l, <2>2, StepOfNew DEF SyncTaskLoad
  <2>3. CASE SyncTaskLoad(p) /\ ~conn.exists
    BY <1>0, <1>i, <2>3, StepOfNew DEF SyncTaskLoad
  <2> QED BY <1>3, <2>1, <2>2, <2>3
<1>4. ASSUME NEW p \in Requests, Request(p) PROVE SyncInv'
  <2>1. CASE ManualSyncLoad(p)
    BY <1>0, <1>l, <2>1, StepOfNew DEF ManualSyncLoad
  <2>2. CASE TestLoad(p)
    <3>1. /\ LoadedForTest.pc # "fetched" /\ LoadedForTest.cursor = Null
          /\ LoadedForTest.since = Null
      BY DEF LoadedForTest, Idle
    <3> QED BY <1>0, <2>2, <3>1, StepOfNew DEF TestLoad
  <2>3. CASE HookLoad(p)
    <3>1. /\ LoadedForHook.pc # "fetched" /\ LoadedForHook.cursor = conn.cursor
          /\ LoadedForHook.since = Null
      BY DEF LoadedForHook, Idle
    <3> QED BY <1>0, <2>3, <3>1, StepOfNew DEF HookLoad
  <2>4. ASSUME NEW ok \in BOOLEAN, TestCommit(p, ok) PROVE SyncInv'
    <3>1. conn'.cursor = conn.cursor /\ conn'.lastSync = conn.lastSync
      BY <2>4 DEF TestCommit, TypeOK, Row
    <3> QED BY <1>0, <1>i, <2>4, <3>1, StepOfNew DEF TestCommit, Finish
  <2>5. ASSUME NEW h \in Hooks, HookCommit(p, h) PROVE SyncInv'
    <3>1. CASE ~conn.exists
      BY <1>0, <1>i, <2>5, <3>1, StepOfNew DEF HookCommit, Finish
    <3>2. CASE conn.exists
      <4>1. /\ conn'.cursor = proc[p].cursor /\ conn'.lastSync = conn.lastSync
            /\ clock' = clock /\ Become(p, Idle)
        BY <2>5, <3>2 DEF HookCommit, Finish, TypeOK, Row
      <4>2. /\ SourceInv /\ conn.lastSync \in Nat /\ Behind(conn.lastSync)
            /\ proc[p].cursor \in Nat /\ Behind(proc[p].cursor)
        BY <1>0, RowType DEF SyncInv, ProcInv, TypeOK, Proc
      <4>3. ASSUME NEW u \in Nat, Behind(u),
                   u = conn'.cursor \/ u = conn'.lastSync
            PROVE  Behind(u)'
        BY <1>0, <4>2, <4>3, BehindStable
      <4>4. Behind(conn.cursor)' /\ Behind(conn.lastSync)'
        BY <4>1, <4>2, <4>3 DEF Behind, Covered
      <4>5. proc'[p] = Idle /\ \A q \in Procs \ {p} : proc'[q] = proc[q]
        BY <1>0, <4>1 DEF Become, TypeOK
      <4>6. ProcInv(p)'
        BY <1>0, <1>i, <4>5, ProcNew
      <4> QED BY <1>0, <4>1, <4>4, <4>5, <4>6, StepOfOne
    <3> QED BY <3>1, <3>2
  <2> QED BY <1>4, <2>1, <2>2, <2>3, <2>4, <2>5 DEF Request
<1>5. ASSUME NEW p \in Procs, Sync(p) \/ Crash(p) PROVE SyncInv'
  <2>1. CASE FetchData(p)
    <3> DEFINE s == [proc[p] EXCEPT !.pc = "fetched", !.at = clock,
                                    !.got = Selected(proc[p].since), !.since = Null]
    <3>1. Become(p, s) /\ UNCHANGED <<clock, stamp, visible, conn, delivered>>
      BY <2>1 DEF FetchData
    <3>2. proc'[p] = s /\ \A q \in Procs \ {p} : proc'[q] = proc[q]
      BY <3>1 DEF Become, TypeOK
    <3>3. /\ s.pc = "fetched" /\ s.at = clock /\ s.got = Selected(proc[p].since)
          /\ s.since = Null /\ s.cursor = proc[p].cursor
      BY DEF TypeOK, Proc
    <3> HIDE DEF s
    <3>4. SinceOK(proc[p].since) /\ proc[p].since \in Int /\ Behind(proc[p].cursor)
      BY DEF SyncInv, ProcInv, TypeOK, Proc
    <3>5. Covered(proc[p].since)
      <4>1. Covered(Null)
        BY DEF Covered, Null, SyncInv, SourceInv, TypeOK
      <4> QED BY <3>4, <4>1 DEF SinceOK
    <3>6. AnswerOK(p)'
      <4>1. ASSUME NEW c \in visible PROVE c \in s.got \cup delivered
        BY <3>3, <3>4, <3>5 DEF Covered, Selected, TypeOK
      <4>2. clock <= clock /\ clock - clock <= FetchBound
        BY SyncAssumption DEF TypeOK
      <4> QED BY <3>1, <3>2, <3>3, <4>1, <4>2 DEF AnswerOK
    <3>7. ProcInv(p)'
      BY <3>1, <3>2, <3>3, <3>4, <3>6 DEF ProcInv, Behind, Covered, SinceOK
    <3>8. Behind(conn.cursor)' /\ Behind(conn.lastSync)'
      BY <1>0, <3>1, RowKept
    <3> QED BY <1>0, <3>1, <3>2, <3>7, <3>8, StepOfOne
  <2>2. CASE SyncCommit(p)
    <3>1. proc'[p] = Idle /\ clock' = clock /\ \A q \in Procs \ {p} : proc'[q] = proc[q]
      BY <2>2 DEF SyncCommit, Finish, Become, TypeOK
    <3>2. ProcInv(p)'
      BY <1>0, <1>i, <3>1, ProcNew
    <3> QED BY <1>0, <2>2, <3>1, <3>2, CommitCovers, StepOfOne
  <2>3. ASSUME RetryOrEnd(p), clock' = clock,
               conn'.cursor = conn.cursor, conn'.lastSync = conn.lastSync
        PROVE  SyncInv'
    <3>1. CASE p \in Tasks /\ proc[p].retries < MaxRetries
      BY <1>0, <1>q, <2>3, <3>1, StepOfNew DEF RetryOrEnd
    <3>2. CASE ~(p \in Tasks /\ proc[p].retries < MaxRetries)
      BY <1>0, <1>i, <2>3, <3>2, StepOfNew DEF RetryOrEnd, Finish
    <3> QED BY <3>1, <3>2
  <2>4. CASE SyncFail(p)
    <3>1. conn'.cursor = conn.cursor /\ conn'.lastSync = conn.lastSync
      BY <2>4 DEF SyncFail, TypeOK, Row
    <3> QED BY <2>3, <2>4, <3>1 DEF SyncFail
  <2>5. CASE SyncRollback(p)
    BY <2>3, <2>5 DEF SyncRollback
  <2>6. CASE Crash(p)
    BY <1>0, <1>i, <2>6, StepOfNew DEF Crash, Finish
  <2> QED BY <1>5, <2>1, <2>2, <2>4, <2>5, <2>6 DEF Sync
<1>6. ASSUME NEW s \in Status, NEW b \in BOOLEAN, UpdateConnector(s, b)
      PROVE  SyncInv'
  <2>1. /\ conn'.cursor = conn.cursor /\ conn'.lastSync = conn.lastSync
        /\ UNCHANGED <<clock, proc>>
    BY <1>6 DEF UpdateConnector, TypeOK, Row
  <2>2. ASSUME NEW p \in Procs PROVE ProcInv(p)'
    <3>1. proc[p].pc = "fetched" => clock' - proc[p].at <= FetchBound
      BY <2>1 DEF SyncInv, ProcInv, AnswerOK
    <3> QED BY <1>0, <2>1, <3>1, ProcKept
  <2> QED BY <1>0, <2>1, <2>2, RowKept DEF SyncInv, Forward
<1>7. CASE DeleteConnector
  <2>1. /\ conn'.cursor = conn.cursor /\ conn'.lastSync = conn.lastSync
        /\ UNCHANGED <<clock, proc>>
    BY <1>7 DEF DeleteConnector, TypeOK, Row
  <2>2. ASSUME NEW p \in Procs PROVE ProcInv(p)'
    <3>1. proc[p].pc = "fetched" => clock' - proc[p].at <= FetchBound
      BY <2>1 DEF SyncInv, ProcInv, AnswerOK
    <3> QED BY <1>0, <2>1, <3>1, ProcKept
  <2> QED BY <1>0, <2>1, <2>2, RowKept DEF SyncInv, Forward
<1>8. CASE UNCHANGED vars
  BY <1>1, <1>8 DEF vars
<1> QED
  BY <1>2, <1>3, <1>4, <1>5, <1>6, <1>7, <1>8 DEF Next

\* With an overlap window longer than the upstream transaction and the fetch
\* together, no change is ever left behind the watermark (NothingSkipped),
\* whatever syncs, retries, webhooks, tests and crashes interleave.
THEOREM NothingIsSkipped == OverlapCovers => (Spec => []NothingSkipped)
<1> SUFFICES ASSUME OverlapCovers PROVE Spec => []NothingSkipped
  OBVIOUS
<1>1. Init => SyncInv
  BY SyncAssumption
     DEF Init, SyncInv, SourceInv, ProcInv, Behind, SinceOK, NewRow, Idle, Null
<1>2. TypeOK /\ TypeOK' /\ SyncInv /\ [Next]_vars => SyncInv'
  BY SyncInvStep
<1>3. TypeOK /\ SyncInv => NothingSkipped
  BY RowSince DEF NothingSkipped
<1> QED BY <1>1, <1>2, <1>3, TypeCorrect, PTL DEF Spec

----------------------------------------------------------------------------
(* The connector implements the change feed                                *)

\* What was taken, or is about to be, can be read.
TakenInv ==
  /\ delivered \subseteq visible
  /\ \A p \in Procs : proc[p].got \subseteq visible

LEMMA TakenStep == TypeOK /\ TakenInv /\ [Next]_vars => TakenInv'
<1> SUFFICES ASSUME TypeOK, TakenInv, [Next]_vars PROVE TakenInv'
  OBVIOUS
<1>n. /\ Idle.got = {} /\ LoadedForTest.got = {} /\ LoadedForHook.got = {}
      /\ \A r : Queued(r).got = {} /\ LoadedForSync(r).got = {}
  BY DEF Idle, LoadedForTest, LoadedForHook, Queued, LoadedForSync
<1>1. CASE UNCHANGED <<delivered, proc>> /\ visible \subseteq visible'
  BY <1>1 DEF TakenInv
<1>2. ASSUME NEW p \in Procs, NEW s, Become(p, s), s.got \subseteq visible,
             visible' = visible, delivered' \subseteq visible
      PROVE  TakenInv'
  <2>1. proc'[p] = s /\ \A q \in Procs \ {p} : proc'[q] = proc[q]
    BY <1>2 DEF Become, TypeOK
  <2> QED BY <1>2, <2>1 DEF TakenInv
<1>3. CASE Environment
  BY <1>1, <1>3 DEF Environment, UpstreamWrite, UpstreamCommit, Tick
<1>4. ASSUME NEW p \in Tasks, Scan(p) \/ SyncTaskLoad(p) PROVE TakenInv'
  <2>1. PICK s : Become(p, s) /\ s.got = {} /\ UNCHANGED <<visible, delivered>>
    BY <1>n, <1>4 DEF Scan, SyncTaskLoad
  <2> QED BY <1>2, <2>1 DEF Procs, TakenInv
<1>5. ASSUME NEW p \in Requests, Request(p) PROVE TakenInv'
  <2>1. PICK s : Become(p, s) /\ s.got = {} /\ UNCHANGED <<visible, delivered>>
    BY <1>n, <1>5 DEF Request, ManualSyncLoad, TestLoad, HookLoad, TestCommit,
                     HookCommit, Finish
  <2> QED BY <1>2, <2>1 DEF Procs, TakenInv
<1>6. ASSUME NEW p \in Procs, Sync(p) \/ Crash(p) PROVE TakenInv'
  <2>1. CASE FetchData(p)
    <3> DEFINE s == [proc[p] EXCEPT !.pc = "fetched", !.at = clock,
                                    !.got = Selected(proc[p].since), !.since = Null]
    <3>1. Become(p, s) /\ s.got \subseteq visible /\ UNCHANGED <<visible, delivered>>
      BY <2>1 DEF FetchData, TypeOK, Proc, Selected
    <3> HIDE DEF s
    <3> QED BY <1>2, <3>1 DEF TakenInv
  <2>2. CASE SyncCommit(p)
    BY <1>n, <1>2, <2>2 DEF SyncCommit, Finish, TakenInv
  <2>3. CASE SyncFail(p) \/ SyncRollback(p) \/ Crash(p)
    <3>1. PICK s : Become(p, s) /\ s.got = {} /\ UNCHANGED <<visible, delivered>>
      BY <1>n, <2>3 DEF SyncFail, SyncRollback, Crash, RetryOrEnd, Finish
    <3> QED BY <1>2, <3>1 DEF TakenInv
  <2> QED BY <1>6, <2>1, <2>2, <2>3 DEF Sync
<1>7. CASE UNCHANGED vars
  BY <1>1, <1>7 DEF vars
<1>8. ASSUME NEW s \in Status, NEW b \in BOOLEAN, UpdateConnector(s, b) PROVE TakenInv'
  BY <1>1, <1>8 DEF UpdateConnector
<1>9. CASE DeleteConnector
  BY <1>1, <1>9 DEF DeleteConnector
<1> QED BY <1>3, <1>4, <1>5, <1>6, <1>7, <1>8, <1>9 DEF Next

\* Only the source's steps change what can be read, and nothing taken is
\* given back.
LEMMA StepKinds ==
  ASSUME [Next]_vars
  PROVE  \/ \E c \in Changes : UpstreamWrite(c) \/ UpstreamCommit(c)
         \/ UNCHANGED <<stamp, visible>> /\ delivered \subseteq delivered'
<1> DEFINE Quiet == UNCHANGED <<stamp, visible>> /\ delivered \subseteq delivered'
<1>1. ASSUME NEW p \in Tasks, Scan(p) \/ SyncTaskLoad(p) PROVE Quiet
  BY <1>1 DEF Scan, SyncTaskLoad
<1>2. ASSUME NEW p \in Requests, Request(p) PROVE Quiet
  BY <1>2 DEF Request, ManualSyncLoad, TestLoad, HookLoad, TestCommit, HookCommit
<1>3. ASSUME NEW p \in Procs, Sync(p) \/ Crash(p) PROVE Quiet
  BY <1>3 DEF Sync, FetchData, SyncCommit, SyncFail, SyncRollback, Crash
<1>4. ASSUME NEW s \in Status, NEW b \in BOOLEAN, UpdateConnector(s, b) PROVE Quiet
  BY <1>4 DEF UpdateConnector
<1>5. ASSUME DeleteConnector \/ Tick \/ UNCHANGED vars PROVE Quiet
  BY <1>5 DEF DeleteConnector, Tick, vars
<1> HIDE DEF Quiet
<1>6. (\E c \in Changes : UpstreamWrite(c) \/ UpstreamCommit(c)) \/ Quiet
  BY <1>1, <1>2, <1>3, <1>4, <1>5 DEF Next, Environment
<1> QED BY <1>6 DEF Quiet

\* Every step but those of the source is one of the reader, or stutters.
LEMMA ReaderStep ==
  ASSUME TypeOK', TakenInv', NothingSkipped', UNCHANGED <<stamp, visible>>,
         delivered \subseteq delivered'
  PROVE  Feed!Take
<1>1. Stamped(visible)' = Stamped(visible)
  BY DEF Stamped
<1>2. Stamped(delivered) \subseteq Stamped(delivered)'
  BY DEF Stamped
<1>3. Stamped(delivered)' \subseteq Stamped(visible)
  BY DEF Stamped, TakenInv
<1>4. ComputeSince(conn)' \in Int
  BY SyncAssumption DEF TypeOK, Row, ComputeSince, EffectiveSince, Null
<1>5. \A x \in Stamped(visible) : x[2] <= ComputeSince(conn)' => x \in Stamped(delivered)'
  BY DEF Stamped, NothingSkipped, Covered
<1> QED BY <1>1, <1>2, <1>3, <1>4, <1>5 DEF Feed!Take

\* The source commits above the mark: the overlap covers its transactions.
LEMMA SourceStep ==
  ASSUME OverlapCovers, TypeOK, TakenInv, SyncInv,
         NEW c \in Changes, UpstreamWrite(c) \/ UpstreamCommit(c)
  PROVE  [Feed!Next]_Feed!vars
<1>1. ComputeSince(conn)' = ComputeSince(conn)
  BY DEF UpstreamWrite, UpstreamCommit, ComputeSince, EffectiveSince
<1>2. CASE UpstreamWrite(c)
  <2>1. c \notin visible /\ visible' = visible /\ delivered' = delivered
        /\ \A d \in visible : stamp'[d] = stamp[d]
    BY <1>2 DEF UpstreamWrite, SyncInv, SourceInv, TypeOK
  <2>2. Stamped(visible)' = Stamped(visible) /\ Stamped(delivered)' = Stamped(delivered)
    BY <2>1 DEF Stamped, TakenInv
  <2> QED BY <1>1, <2>2 DEF Feed!vars
<1>3. CASE UpstreamCommit(c)
  <2>1. /\ c \notin visible /\ visible' = visible \cup {c} /\ stamp[c] # Null
        /\ stamp' = stamp /\ delivered' = delivered
    BY <1>3 DEF UpstreamCommit
  <2>2. stamp[c] > ComputeSince(conn)
    <3>1. /\ clock - stamp[c] <= Lag /\ stamp[c] \in Nat /\ clock \in Nat
          /\ ComputeSince(conn) \in Int /\ SinceOK(ComputeSince(conn))
      BY <2>1, RowSince, RowType DEF SyncInv, SourceInv, TypeOK
    <3> QED BY <2>1, <3>1, SyncAssumption DEF SinceOK, OverlapCovers, Null
  <2>3. /\ Stamped(visible) \subseteq Stamped(visible)'
        /\ Stamped(delivered)' = Stamped(delivered)
        /\ \A x \in Stamped(visible)' \ Stamped(visible) : x[2] = stamp[c]
    BY <2>1 DEF Stamped
  <2>4. Feed!Publish
    BY <1>1, <2>2, <2>3 DEF Feed!Publish
  <2> QED BY <2>4 DEF Feed!Next
<1> QED BY <1>2, <1>3

\* The sync tasks, the requests and the webhooks of a connector whose overlap
\* covers the upstream transaction and the fetch implement a change feed
\* (tasks.py, connectors.py, shopify_webhooks.py).
THEOREM ConnectorImplementsFeed == OverlapCovers => (Spec => ImplementsFeed)
<1> SUFFICES ASSUME OverlapCovers PROVE Spec => ImplementsFeed
  OBVIOUS
<1>1. Init => SyncInv /\ TakenInv /\ Feed!Init
  <2>1. Init => SyncInv
    BY SyncAssumption
       DEF Init, SyncInv, SourceInv, ProcInv, Behind, SinceOK, NewRow, Idle, Null
  <2>2. Init => TakenInv
    BY DEF Init, TakenInv, Idle
  <2>3. Init => Feed!Init
    BY DEF Init, Feed!Init, Stamped, ComputeSince, EffectiveSince, NewRow, Null
  <2> QED BY <2>1, <2>2, <2>3
<1>2. TypeOK /\ TypeOK' /\ SyncInv /\ [Next]_vars => SyncInv'
  BY SyncInvStep
<1>3. TypeOK /\ SyncInv => NothingSkipped
  BY RowSince DEF NothingSkipped
<1>4. /\ TypeOK /\ TypeOK' /\ SyncInv /\ NothingSkipped'
      /\ TakenInv /\ TakenInv' /\ [Next]_vars
      => [Feed!Next]_Feed!vars
  <2> SUFFICES ASSUME TypeOK, TypeOK', SyncInv, NothingSkipped',
                      TakenInv, TakenInv', [Next]_vars
               PROVE  [Feed!Next]_Feed!vars
    OBVIOUS
  <2>1. ASSUME NEW c \in Changes, UpstreamWrite(c) \/ UpstreamCommit(c)
        PROVE  [Feed!Next]_Feed!vars
    BY <2>1, SourceStep
  <2>2. CASE UNCHANGED <<stamp, visible>> /\ delivered \subseteq delivered'
    BY <2>2, ReaderStep DEF Feed!Next
  <2> QED BY <2>1, <2>2, StepKinds
<1> QED
  BY <1>1, <1>2, <1>3, <1>4, TakenStep, TypeCorrect, PTL
     DEF Spec, ImplementsFeed, Feed!Spec

=============================================================================
