----------------------------- MODULE AuditStream -----------------------------
(***************************************************************************)
(* The audit trail and its shipment to a SIEM.  The request middleware      *)
(* inserts one audit row per mutation, each in a transaction of its own;    *)
(* stream_audit_to_siem, started every minute, ships rows in the order of   *)
(* (created_at, id) from a cursor kept in Redis.                            *)
(*                                                                         *)
(* created_at is the database's now(): the START of the inserting           *)
(* transaction.  Rows become visible when it commits, in any order.         *)
(***************************************************************************)
EXTENDS Naturals, FiniteSets

CONSTANTS
  Entries,    \* audit rows, named by their id
  Runs,       \* executions of the task at one time
  Batch,      \* rows shipped by one run: 500
  MaxTime,    \* bound of the clock
  MaxFaults   \* bound of the Redis failures, lost answers and worker crashes

ASSUME StreamAssumption ==
  /\ IsFiniteSet(Entries) /\ Entries \subseteq Nat
  /\ Batch \in Nat \ {0}
  /\ MaxTime \in Nat /\ MaxFaults \in Nat

VARIABLES
  clock,      \* now(), from 1
  created,    \* created_at of each row, 0 before its transaction starts
  committed,  \* rows that readers see
  cursor,     \* the key in Redis
  task,       \* per run: what it is doing and what it has read
  shipped,    \* rows the SIEM has received
  again,      \* rows the SIEM has received more than once
  late,       \* rows that committed after a row with a larger key
  faults,     \* failures so far
  overlapped  \* a run has started while another was under way

vars == <<clock, created, committed, cursor, task, shipped, again, late, faults,
          overlapped>>

\* The absent cursor: every row comes after it.
NoCursor == <<0, 0>>

Key(e) == <<created[e], e>>

Before(k, l) == k[1] < l[1] \/ (k[1] = l[1] /\ k[2] < l[2])

Idle == [pc |-> "idle", connected |-> FALSE, since |-> NoCursor, ship |-> {}]

Task == [pc : {"idle", "started", "read", "sent"}, connected : BOOLEAN,
         since : Nat \X Nat, ship : SUBSET Entries]

TypeOK ==
  /\ clock \in Nat \ {0}
  /\ created \in [Entries -> Nat]
  /\ committed \subseteq Entries
  /\ cursor \in Nat \X Nat
  /\ task \in [Runs -> Task]
  /\ shipped \subseteq Entries
  /\ again \subseteq Entries
  /\ late \subseteq Entries
  /\ faults \in 0..MaxFaults
  /\ overlapped \in BOOLEAN

Init ==
  /\ clock = 1
  /\ created = [e \in Entries |-> 0]
  /\ committed = {}
  /\ cursor = NoCursor
  /\ task = [r \in Runs |-> Idle]
  /\ shipped = {}
  /\ again = {}
  /\ late = {}
  /\ faults = 0
  /\ overlapped = FALSE

Become(r, state) == task' = [task EXCEPT ![r] = state]

Finish(r) == Become(r, Idle)

Fault == faults < MaxFaults /\ faults' = faults + 1

----------------------------------------------------------------------------
(* services/infra/audit.py: the task created after a successful mutation.   *)
(* An insert that fails is logged and forgotten: it never commits.          *)

BeginInsert(e) ==
  /\ created[e] = 0
  /\ created' = [created EXCEPT ![e] = clock]
  /\ UNCHANGED <<clock, committed, cursor, task, shipped, again, late, faults, overlapped>>

CommitInsert(e) ==
  /\ created[e] # 0
  /\ e \notin committed
  /\ committed' = committed \cup {e}
  /\ late' = IF \E f \in committed : Before(Key(e), Key(f))
             THEN late \cup {e}
             ELSE late
  /\ UNCHANGED <<clock, created, cursor, task, shipped, again, faults, overlapped>>

Tick ==
  /\ clock < MaxTime
  /\ clock' = clock + 1
  /\ UNCHANGED <<created, committed, cursor, task, shipped, again, late, faults, overlapped>>

----------------------------------------------------------------------------
(* stream_audit_to_siem                                                     *)

Overlap(r) ==
  overlapped' = (overlapped \/ \E q \in Runs \ {r} : task[q].pc # "idle")

\* Mutant: a Redis that did not answer the read is still written to.
ReadCursorStaysConnected(r) ==
  /\ task[r].pc = "idle"
  /\ \/ Become(r, [Idle EXCEPT !.pc = "started", !.connected = TRUE, !.since = cursor])
        /\ UNCHANGED faults
     \/ Become(r, [Idle EXCEPT !.pc = "started", !.connected = TRUE]) /\ Fault
  /\ Overlap(r)
  /\ UNCHANGED <<clock, created, committed, cursor, shipped, again, late>>

\* Without Redis the run starts from the oldest row and will not write back.
ReadCursor(r) ==
  /\ task[r].pc = "idle"
  /\ \/ Become(r, [Idle EXCEPT !.pc = "started", !.connected = TRUE, !.since = cursor])
        /\ UNCHANGED faults
     \/ Become(r, [Idle EXCEPT !.pc = "started"]) /\ Fault
  /\ Overlap(r)
  /\ UNCHANGED <<clock, created, committed, cursor, shipped, again, late>>

\* Mutant: rows at the cursor's created_at are left out.
PendingLaterOnly(since) == {e \in committed : since[1] < created[e]}

\* Mutant: the row at the cursor is selected again.
PendingFromCursor(since) == {e \in committed : ~Before(Key(e), since)}

Pending(since) == {e \in committed : Before(since, Key(e))}

\* Mutant: LIMIT without ORDER BY.
FirstUnordered(S) == CHOOSE T \in SUBSET S : T # {} /\ Cardinality(T) <= Batch

First(S) == {e \in S : Cardinality({f \in S : Before(Key(f), Key(e))}) < Batch}

SelectRows(r) ==
  /\ task[r].pc = "started"
  /\ LET rows == Pending(task[r].since)
     IN  IF rows = {}
         THEN Finish(r)
         ELSE Become(r, [task[r] EXCEPT !.pc = "read", !.since = NoCursor,
                                        !.ship = First(rows)])
  /\ UNCHANGED <<clock, created, committed, cursor, shipped, again, late, faults, overlapped>>

Receive(rows) ==
  /\ shipped' = shipped \cup rows
  /\ again' = again \cup (rows \cap shipped)

Post(r) ==
  /\ task[r].pc = "read"
  /\ Receive(task[r].ship)
  /\ IF task[r].connected
     THEN Become(r, [task[r] EXCEPT !.pc = "sent"])
     ELSE Finish(r)
  /\ UNCHANGED <<clock, created, committed, cursor, late, faults, overlapped>>

\* The SIEM is unreachable or refuses: the run ends with an error.
PostFails(r) ==
  /\ task[r].pc = "read"
  /\ Finish(r)
  /\ UNCHANGED <<clock, created, committed, cursor, shipped, again, late, faults, overlapped>>

\* The SIEM has received the rows and its answer is lost.
PostUnanswered(r) ==
  /\ task[r].pc = "read"
  /\ Receive(task[r].ship)
  /\ Fault
  /\ Finish(r)
  /\ UNCHANGED <<clock, created, committed, cursor, late, overlapped>>

Last(rows, e) == e \in rows /\ \A f \in rows : ~Before(Key(e), Key(f))

\* Mutant: the cursor keeps the time of the last row only.
SaveCursorWithoutId(r) ==
  /\ task[r].pc = "sent"
  /\ \E e \in Entries : Last(task[r].ship, e) /\ cursor' = <<created[e]>>
  /\ Finish(r)
  /\ UNCHANGED <<clock, created, committed, shipped, again, late, faults, overlapped>>

SaveCursor(r) ==
  /\ task[r].pc = "sent"
  /\ \E e \in Entries : Last(task[r].ship, e) /\ cursor' = Key(e)
  /\ Finish(r)
  /\ UNCHANGED <<clock, created, committed, shipped, again, late, faults, overlapped>>

\* The exception of rc.set is swallowed.
SaveFails(r) ==
  /\ task[r].pc = "sent"
  /\ Fault
  /\ Finish(r)
  /\ UNCHANGED <<clock, created, committed, cursor, shipped, again, late, overlapped>>

\* The worker is killed; its message has been acknowledged long ago.
Crash(r) ==
  /\ task[r].pc # "idle"
  /\ Fault
  /\ Finish(r)
  /\ UNCHANGED <<clock, created, committed, cursor, shipped, again, late, overlapped>>

----------------------------------------------------------------------------

Stream(r) ==
  \/ ReadCursor(r) \/ SelectRows(r)
  \/ Post(r) \/ PostFails(r) \/ PostUnanswered(r)
  \/ SaveCursor(r) \/ SaveFails(r) \/ Crash(r)

Next ==
  \/ \E e \in Entries : BeginInsert(e) \/ CommitInsert(e)
  \/ Tick
  \/ \E r \in Runs : Stream(r)

Spec == Init /\ [][Next]_vars

\* Beat starts a run every minute, a run goes on unless it is killed, and
\* the SIEM accepts a shipment now and then.
Fairness ==
  /\ WF_vars(\E r \in Runs : ReadCursor(r))
  /\ \A r \in Runs : WF_vars(SelectRows(r)) /\ SF_vars(Post(r)) /\ WF_vars(SaveCursor(r))

FairSpec == Spec /\ Fairness

----------------------------------------------------------------------------
(* What must hold                                                           *)

Passed(e) == ~Before(cursor, Key(e))

\* A committed row that the cursor has passed was shipped, unless it
\* committed after a row with a larger (created_at, id): whatever runs
\* overlap, fail or die (stream_audit_to_siem).
OnlyLateSkipped == \A e \in committed : Passed(e) => e \in shipped \cup late

\* Every row that commits in key order reaches the SIEM, however often
\* shipments fail and overlapping runs set the cursor back.
EventuallyShipped == \A e \in Entries : e \in committed \ late ~> e \in shipped

\* tasks.py:1115-1116: "so no event is ever permanently skipped ...
EveryEventShipped == \A e \in Entries : e \in committed ~> e \in shipped

\* "... and none is re-shipped on subsequent runs" (tasks.py:1116): true of
\* runs that do not overlap, until Redis, an answer or a worker is lost.
ReshippedOnlyAfterFault == again # {} => faults > 0 \/ overlapped

\* As long as no run starts before the last one has ended, the cursor only moves
\* forward, also when Redis does not answer the read and the run ships the
\* oldest rows again.
CursorMovesForward ==
  [][overlapped' \/ cursor' = cursor \/ Before(cursor, cursor')]_vars

----------------------------------------------------------------------------
(* The inductive invariant behind OnlyLateSkipped                           *)

\* Committed rows have keys, and the cursor is none of the keys to come.
KeysInv ==
  /\ \A e \in committed : created[e] # 0
  /\ cursor = NoCursor \/ \E e \in committed : cursor = Key(e)

Handled(k) == \A e \in committed : ~Before(k, Key(e)) => e \in shipped \cup late

\* What a run is about to ship is complete up to each of its rows.
ShipInv(r) ==
  /\ task[r].since = NoCursor \/ \E e \in committed : task[r].since = Key(e)
  /\ Handled(task[r].since)
  /\ task[r].ship \subseteq committed
  /\ \A e \in task[r].ship, f \in committed :
        ~Before(Key(e), Key(f)) => f \in task[r].ship \cup shipped \cup late
  /\ task[r].pc = "sent" => task[r].ship \subseteq shipped

StreamInv == KeysInv /\ Handled(cursor) /\ \A r \in Runs : ShipInv(r)

=============================================================================
