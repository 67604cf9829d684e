--------------------------- MODULE ConnectorSync ---------------------------
(***************************************************************************)
(* One row of the connectors table and everything that reads and writes    *)
(* it: the scheduled sync task with its retries, the manual sync and the   *)
(* connection test of the API, the Shopify webhook receiver, PUT and       *)
(* DELETE.  The upstream source is external: a change is stamped when it   *)
(* is made and becomes readable when its transaction commits, up to Lag    *)
(* later.                                                                  *)
(*                                                                         *)
(* Every handler loads the row, leaves the database for a while (a fetch,  *)
(* a connection test, reading the request body) and commits afterwards,    *)
(* so handlers interleave between their load and their commit.  The ORM    *)
(* writes a column only when its new value differs from the LOADED one:    *)
(* NetChange below.                                                        *)
(***************************************************************************)
EXTENDS Integers, Sequences

CONSTANTS
  Changes,      \* changes made in the upstream source
  Tasks,        \* sync_connector messages, queued or running, at one time
  Requests,     \* API requests served at one time
  Hooks,        \* webhook events Shopify delivers
  Incremental,  \* meta.supports_incremental of the connector class
  Overlap,      \* config["incremental_overlap_minutes"]
  Lag,          \* longest upstream transaction, from stamp to commit
  FetchBound,   \* longest time from the source's answer to the commit
  Interval,     \* the schedule, as an interval
  MaxRetries,   \* max_retries of the Celery task
  BufferCap,    \* the 10 000 events a webhook buffer keeps
  MaxTime,      \* bound of the clock
  MaxCrashes    \* bound of the worker and API process crashes

ASSUME SyncAssumption ==
  /\ Incremental \in BOOLEAN
  /\ Overlap \in Nat /\ Lag \in Nat /\ FetchBound \in Nat
  /\ Interval \in Nat /\ MaxRetries \in Nat
  /\ BufferCap \in Nat \ {0}
  /\ MaxTime \in Nat /\ MaxCrashes \in Nat
  /\ Tasks \cap Requests = {}

VARIABLES
  clock,      \* utcnow(), from 1
  stamp,      \* when each upstream change was made, Null before
  visible,    \* upstream changes whose transaction has committed
  conn,       \* the connectors row
  proc,       \* per task and request: what it is doing and what it loaded
  delivered,  \* changes in the file of some committed EventLog
  accepted,   \* webhook events answered with HTTP 200
  crashes     \* crashes so far

vars == <<clock, stamp, visible, conn, proc, delivered, accepted, crashes>>

Procs == Tasks \cup Requests

\* SQL NULL of a timestamp.  Timestamps start at 1, so "later than Null" is
\* every row: the full fetch of a connector called without a since.
Null == 0

Status == {"active", "inactive", "error"}

\* error_message, written with status, is left out.
Row == [exists : BOOLEAN, status : Status, scheduled : BOOLEAN,
        lastSync : Nat, cursor : Nat, buffer : Seq(Hooks)]

NewRow == [exists |-> TRUE, status |-> "inactive", scheduled |-> TRUE,
           lastSync |-> Null, cursor |-> Null, buffer |-> <<>>]

Kind == {"none", "sync", "test", "hook"}
Step == {"idle", "queued", "loaded", "fetched"}

\* What a handler remembers: the status it loaded or, for a webhook, the
\* sync_state; its since; what the source answered and when; its retry number.
Idle == [kind |-> "none", pc |-> "idle", status |-> "inactive",
         cursor |-> Null, buffer |-> <<>>, since |-> Null,
         got |-> {}, at |-> Null, retries |-> 0]

Proc == [kind : Kind, pc : Step, status : Status,
         cursor : Nat, buffer : Seq(Hooks), since : Int,
         got : SUBSET Changes, at : Nat, retries : 0..MaxRetries]

TypeOK ==
  /\ clock \in Nat \ {0}
  /\ stamp \in [Changes -> Nat]
  /\ visible \subseteq Changes
  /\ conn \in Row
  /\ proc \in [Procs -> Proc]
  /\ delivered \subseteq Changes
  /\ accepted \subseteq Hooks
  /\ crashes \in Nat

Init ==
  /\ clock = 1
  /\ stamp = [c \in Changes |-> Null]
  /\ visible = {}
  /\ conn = NewRow
  /\ proc = [p \in Procs |-> Idle]
  /\ delivered = {}
  /\ accepted = {}
  /\ crashes = 0

----------------------------------------------------------------------------
(* services/connectors/incremental.py                                      *)

\* Mutant: the overlap is never applied.
EffectiveSinceNoRewind(row) ==
  IF row.cursor # Null THEN row.cursor ELSE row.lastSync

EffectiveSince(row) ==
  LET base == IF row.cursor # Null THEN row.cursor ELSE row.lastSync
  IN  IF base = Null THEN Null ELSE base - Overlap

ComputeSince(row) == IF Incremental THEN EffectiveSince(row) ELSE Null

\* The row filter of the incremental connectors: column > since.
Selected(since) == {c \in visible : stamp[c] > since}

\* The ORM's UPDATE: the column keeps its stored value when the handler
\* assigns what it had loaded.
NetChange(stored, loaded, new) == IF new = loaded THEN stored ELSE new

\* Mutant: a connector that has never synced is never due.
ScheduleDueNotFirst(row) ==
  row.scheduled /\ row.lastSync # Null /\ clock - row.lastSync >= Interval

ScheduleDue(row) ==
  row.scheduled /\ (row.lastSync = Null \/ clock - row.lastSync >= Interval)

\* What a handler holds from its first read of the row on.
Queued(retries) ==
  [Idle EXCEPT !.kind = "sync", !.pc = "queued", !.retries = retries]

LoadedForSync(retries) ==
  [Idle EXCEPT !.kind = "sync", !.pc = "loaded", !.status = conn.status,
               !.since = ComputeSince(conn), !.retries = retries]

LoadedForTest ==
  [Idle EXCEPT !.kind = "test", !.pc = "loaded", !.status = conn.status]

LoadedForHook ==
  [Idle EXCEPT !.kind = "hook", !.pc = "loaded", !.cursor = conn.cursor,
               !.buffer = conn.buffer]

Become(p, state) == proc' = [proc EXCEPT ![p] = state]

Finish(p) == Become(p, Idle)

----------------------------------------------------------------------------
(* The upstream source and time                                            *)

UpstreamWrite(c) ==
  /\ stamp[c] = Null
  /\ stamp' = [stamp EXCEPT ![c] = clock]
  /\ UNCHANGED <<clock, visible, conn, proc, delivered, accepted, crashes>>

UpstreamCommit(c) ==
  /\ stamp[c] # Null
  /\ c \notin visible
  /\ visible' = visible \cup {c}
  /\ UNCHANGED <<clock, stamp, conn, proc, delivered, accepted, crashes>>

Tick ==
  /\ clock < MaxTime
  /\ \A c \in Changes \ visible : stamp[c] # Null => clock - stamp[c] < Lag
  /\ \A p \in Procs : proc[p].pc = "fetched" => clock - proc[p].at < FetchBound
  /\ clock' = clock + 1
  /\ UNCHANGED <<stamp, visible, conn, proc, delivered, accepted, crashes>>

----------------------------------------------------------------------------
(* Scheduled and manual sync                                               *)

\* scan_connector_schedules enqueues sync_connector; nothing marks the
\* connector as having a sync in flight.
Scan(p) ==
  /\ proc[p].pc = "idle"
  /\ conn.exists
  /\ conn.status # "error"
  /\ ScheduleDue(conn)
  /\ Become(p, Queued(0))
  /\ UNCHANGED <<clock, stamp, visible, conn, delivered, accepted, crashes>>

\* A worker takes the message: a missing row ends the task.
SyncTaskLoad(p) ==
  /\ proc[p].pc = "queued"
  /\ Become(p, IF conn.exists THEN LoadedForSync(proc[p].retries) ELSE Idle)
  /\ UNCHANGED <<clock, stamp, visible, conn, delivered, accepted, crashes>>

\* POST /connectors/{id}/sync loads the row as the task does.
ManualSyncLoad(p) ==
  /\ proc[p].pc = "idle"
  /\ conn.exists
  /\ Become(p, LoadedForSync(0))
  /\ UNCHANGED <<clock, stamp, visible, conn, delivered, accepted, crashes>>

\* The source answers fetch_data.
FetchData(p) ==
  /\ proc[p].kind = "sync" /\ proc[p].pc = "loaded"
  /\ Become(p, [proc[p] EXCEPT !.pc = "fetched", !.at = clock,
                               !.got = Selected(proc[p].since),
                               !.since = Null])
  /\ UNCHANGED <<clock, stamp, visible, conn, delivered, accepted, crashes>>

\* Mutant: no limit of retries.
RetryOrEndForever(p) ==
  IF p \in Tasks THEN Become(p, Queued(proc[p].retries + 1)) ELSE Finish(p)

\* A task that raises is queued again until its retries are used up; a
\* request answers 500.
RetryOrEnd(p) ==
  IF p \in Tasks /\ proc[p].retries < MaxRetries
  THEN Become(p, Queued(proc[p].retries + 1))
  ELSE Finish(p)

\* The EventLog row and the connector's new state, in one transaction; the
\* watermark is the time of the commit, not of the fetch.
SyncCommit(p) ==
  /\ proc[p].kind = "sync" /\ proc[p].pc = "fetched"
  /\ conn.exists
  /\ delivered' = delivered \cup proc[p].got
  /\ conn' = [conn EXCEPT
       !.status = NetChange(@, proc[p].status, "active"),
       !.lastSync = clock,
       !.cursor = clock,
       !.buffer = <<>>]
  /\ Finish(p)
  /\ UNCHANGED <<clock, stamp, visible, accepted, crashes>>

\* Mutant: a failed fetch moves the watermark too.
SyncFailMovesMark(p) ==
  /\ proc[p].kind = "sync" /\ proc[p].pc = "loaded"
  /\ conn' = [conn EXCEPT !.status = "error", !.lastSync = clock, !.cursor = clock]
  /\ RetryOrEnd(p)
  /\ UNCHANGED <<clock, stamp, visible, delivered, accepted, crashes>>

\* fetch_data raised: status error, error_message, then the retry.
SyncFail(p) ==
  /\ proc[p].kind = "sync" /\ proc[p].pc = "loaded"
  /\ conn' = IF conn.exists
             THEN [conn EXCEPT !.status = NetChange(@, proc[p].status, "error")]
             ELSE conn
  /\ RetryOrEnd(p)
  /\ UNCHANGED <<clock, stamp, visible, delivered, accepted, crashes>>

\* The commit fails and the transaction with its EventLog is rolled back: the
\* row was deleted during the fetch, or the database went away (a crash).
SyncRollback(p) ==
  /\ proc[p].kind = "sync" /\ proc[p].pc = "fetched"
  /\ \/ ~conn.exists /\ UNCHANGED crashes
     \/ crashes < MaxCrashes /\ crashes' = crashes + 1
  /\ RetryOrEnd(p)
  /\ UNCHANGED <<clock, stamp, visible, conn, delivered, accepted>>

----------------------------------------------------------------------------
(* The other writers of the row                                            *)

TestLoad(p) ==
  /\ proc[p].pc = "idle"
  /\ conn.exists
  /\ Become(p, LoadedForTest)
  /\ UNCHANGED <<clock, stamp, visible, conn, delivered, accepted, crashes>>

TestCommit(p, ok) ==
  /\ proc[p].kind = "test" /\ proc[p].pc = "loaded"
  /\ conn' = IF conn.exists
             THEN [conn EXCEPT !.status =
                     NetChange(@, proc[p].status,
                               IF ok THEN "active" ELSE "error")]
             ELSE conn
  /\ Finish(p)
  /\ UNCHANGED <<clock, stamp, visible, delivered, accepted, crashes>>

\* The receiver loads sync_state, awaits the request body ...
HookLoad(p) ==
  /\ Hooks # {}
  /\ proc[p].pc = "idle"
  /\ conn.exists
  /\ Become(p, LoadedForHook)
  /\ UNCHANGED <<clock, stamp, visible, conn, delivered, accepted, crashes>>

Latest(events) ==
  IF Len(events) > BufferCap
  THEN SubSeq(events, Len(events) - BufferCap + 1, Len(events))
  ELSE events

\* ... and writes back the whole JSON value it loaded, the event appended.
HookCommit(p, h) ==
  /\ proc[p].kind = "hook" /\ proc[p].pc = "loaded"
  /\ \/ /\ conn.exists
        /\ conn' = [conn EXCEPT
                     !.cursor = proc[p].cursor,
                     !.buffer = Latest(Append(proc[p].buffer, h))]
        /\ accepted' = accepted \cup {h}
     \/ /\ ~conn.exists
        /\ UNCHANGED <<conn, accepted>>
  /\ Finish(p)
  /\ UNCHANGED <<clock, stamp, visible, delivered, crashes>>

UpdateConnector(status, scheduled) ==
  /\ conn.exists
  /\ conn' = [conn EXCEPT !.status = status, !.scheduled = scheduled]
  /\ UNCHANGED <<clock, stamp, visible, proc, delivered, accepted, crashes>>

DeleteConnector ==
  /\ conn.exists
  /\ conn' = [conn EXCEPT !.exists = FALSE]
  /\ UNCHANGED <<clock, stamp, visible, proc, delivered, accepted, crashes>>

\* A worker killed by its time limit or an API process restarted: messages
\* are acknowledged on receipt, so the task is gone; queued ones stay.
Crash(p) ==
  /\ crashes < MaxCrashes
  /\ proc[p].pc \in {"loaded", "fetched"}
  /\ crashes' = crashes + 1
  /\ Finish(p)
  /\ UNCHANGED <<clock, stamp, visible, conn, delivered, accepted>>

----------------------------------------------------------------------------

Environment ==
  \/ \E c \in Changes : UpstreamWrite(c) \/ UpstreamCommit(c)
  \/ Tick

Sync(p) == FetchData(p) \/ SyncCommit(p) \/ SyncFail(p) \/ SyncRollback(p)

Request(p) ==
  \/ ManualSyncLoad(p) \/ TestLoad(p) \/ HookLoad(p)
  \/ \E ok \in BOOLEAN : TestCommit(p, ok)
  \/ \E h \in Hooks : HookCommit(p, h)

Next ==
  \/ Environment
  \/ \E p \in Tasks : Scan(p) \/ SyncTaskLoad(p)
  \/ \E p \in Requests : Request(p)
  \/ \E p \in Procs : Sync(p) \/ Crash(p)
  \/ \E status \in Status, scheduled \in BOOLEAN : UpdateConnector(status, scheduled)
  \/ DeleteConnector

Spec == Init /\ [][Next]_vars

\* Beat fires every ten minutes, workers take messages, a fetch answers or
\* fails, and time passes.  Nothing is assumed of users or of the source.
Fairness ==
  /\ WF_vars(Tick)
  /\ \A c \in Changes : WF_vars(UpstreamCommit(c))
  /\ WF_vars(\E p \in Tasks : Scan(p))
  /\ \A p \in Tasks : WF_vars(SyncTaskLoad(p))
  /\ \A p \in Procs : WF_vars(Sync(p))

FairSpec == Spec /\ Fairness

----------------------------------------------------------------------------
(* The promise to the reader of the EventLogs: see ChangeFeed              *)

Stamped(S) == {<<c, stamp[c]>> : c \in S}

Feed == INSTANCE ChangeFeed WITH
          published <- Stamped(visible),
          taken <- Stamped(delivered),
          mark <- ComputeSince(conn)

\* The connector implements a change feed: changes appear above the mark
\* only, and the mark moves only over changes that have been taken.
ImplementsFeed == Feed!Spec

----------------------------------------------------------------------------
(* What must hold                                                          *)

Covered(t) == \A c \in visible : stamp[c] <= t => c \in delivered

\* No change is ever left behind the watermark: whatever the next fetch will
\* not ask for, because it is not later than the since computed from the row,
\* is already in the file of a committed EventLog.  Watermarks are moved by
\* overlapping syncs and moved back by webhook commits
\* (incremental.py compute_since, tasks.py sync_connector).
NothingSkipped == Covered(ComputeSince(conn))

\* A change the source has committed is delivered, unless the connector goes
\* to error, is unscheduled or deleted, or the clock stops too early for one
\* more interval (scan_connector_schedules and the retries of sync_connector).
EventuallyDelivered ==
  \A c \in Changes :
    (c \in visible /\ clock <= MaxTime - Interval - FetchBound)
      ~> \/ c \in delivered
         \/ ~conn.exists \/ ~conn.scheduled \/ conn.status = "error"

\* incremental.py:5-7 on the overlap window: "rows committed late under a
\* long-running upstream transaction [...] are re-fetched rather than missed".
\* A window longer than every upstream transaction is enough for that.
LateCommitsRefetched == Overlap > Lag => NothingSkipped

\* shopify_webhooks.py:250: "The buffer is read + merged during the next
\* scheduled sync run": an event leaves the buffer into an EventLog's file.
InBuffer(h) == \E i \in DOMAIN conn.buffer : conn.buffer[i] = h
BufferMergedBySync ==
  [][\A h \in Hooks : InBuffer(h) /\ ~InBuffer(h)' => h \in delivered']_vars

\* What the overlap window has to cover for NothingSkipped: the upstream
\* transaction AND the time between the fetch and the commit.
OverlapCovers == Overlap > Lag + FetchBound

----------------------------------------------------------------------------
(* The inductive invariant behind NothingSkipped                           *)

\* Upstream: stamps are in the past, and open transactions are young.
SourceInv ==
  /\ \A c \in Changes : stamp[c] <= clock
  /\ \A c \in visible : stamp[c] # Null
  /\ \A c \in Changes \ visible : stamp[c] # Null => clock - stamp[c] <= Lag

\* A watermark, wherever it is kept: in the row or in a webhook's copy of it.
Behind(t) == t # Null => t <= clock /\ Covered(t - Overlap)

\* A since that a running sync will use.
SinceOK(t) == t = Null \/ (t + Overlap <= clock /\ Covered(t))

\* The source's answer lacks only what was stamped close to it.
AnswerOK(p) ==
  /\ proc[p].at <= clock /\ clock - proc[p].at <= FetchBound
  /\ \A c \in visible : stamp[c] < proc[p].at - Lag =>
                            c \in proc[p].got \cup delivered

ProcInv(p) ==
  /\ Behind(proc[p].cursor)
  /\ SinceOK(proc[p].since)
  /\ proc[p].pc = "fetched" => AnswerOK(p)

SyncInv ==
  /\ SourceInv
  /\ Behind(conn.cursor) /\ Behind(conn.lastSync)
  /\ \A p \in Procs : ProcInv(p)

=============================================================================
