---------------------------- MODULE CaptureAgent ----------------------------
(***************************************************************************)
(* The desktop capture agent and the recording it streams to.  The agent    *)
(* collects window changes in a buffer, sends a batch now and then, puts a   *)
(* batch that failed back in front, and, told to stop, sends one last batch  *)
(* and ends the recording.  Its HTTP client gives up on an answer after a    *)
(* time and asks again, while the first request may still be served.         *)
(*                                                                         *)
(* Events are numbered as they are captured.                                *)
(***************************************************************************)
EXTENDS Service, Sequences, FiniteSets

CONSTANTS
  BatchCap,    \* BATCH_CAP
  Retries,     \* tries of a request in the SDK's client
  MaxCaptured  \* bound of the captured events

ASSUME CaptureAssumption ==
  BatchCap \in Nat \ {0} /\ Retries \in Nat \ {0} /\ MaxCaptured \in Nat

VARIABLES
  agent,     \* the agent's process
  posts,     \* its requests that are not through
  recording  \* what the server stores

captureVars == <<agent, posts, recording>>

Events == 1..MaxCaptured

\* A post: "live" while the client waits for it; n tells equal ones apart.
Post(op, events, others) ==
  [n |-> CHOOSE n \in 1..(Cardinality(others) + 1) : \A p \in others : p.n # n,
   op |-> op, events |-> events, stage |-> "sent", count |-> 0, live |-> TRUE]

Post0(op) == Post(op, <<>>, {})

CaptureTypeOK ==
  /\ agent \in [pc : {"creating", "looping", "flushing", "lastFlush", "ending", "gone"},
                buffer : Seq(Events), batch : Seq(Events), tries : 0..Retries,
                captured : 0..MaxCaptured, stopping : BOOLEAN, dropped : BOOLEAN]
  /\ \A p \in posts :
        /\ p.op \in {"create", "ingest", "end"} /\ p.events \in Seq(Events)
        /\ p.stage \in {"sent", "read", "done"} /\ p.count \in Nat /\ p.live \in BOOLEAN
  /\ \A p, q \in posts : p.live /\ q.live => p = q
  /\ recording \in [rows : [Events -> Nat], size : Nat, count : Nat, ended : BOOLEAN]

\* run: the recording is created first.
CaptureInit ==
  /\ agent = [pc |-> "creating", buffer |-> <<>>, batch |-> <<>>, tries |-> 1,
              captured |-> 0, stopping |-> FALSE, dropped |-> FALSE]
  /\ posts = {Post0("create")}
  /\ recording = [rows |-> [e \in Events |-> 0], size |-> 0, count |-> 0, ended |-> FALSE]

Capturing == On("capture") /\ NoFault

----------------------------------------------------------------------------
(* agent.py                                                                 *)

\* The window's title has changed.
CaptureEvent ==
  /\ Capturing
  /\ agent.pc = "looping" /\ ~agent.stopping /\ agent.captured < MaxCaptured
  /\ agent' = [agent EXCEPT !.captured = @ + 1, !.buffer = Append(@, agent.captured + 1)]
  /\ UNCHANGED <<posts, recording>>

Batch == SubSeq(agent.buffer, 1, IF Len(agent.buffer) < BatchCap
                                 THEN Len(agent.buffer) ELSE BatchCap)

Rest == SubSeq(agent.buffer, BatchCap + 1, Len(agent.buffer))

\* _flush of a buffer that is not empty, from the loop or after it.
SendBatch(pc) ==
  /\ agent' = [agent EXCEPT !.pc = pc, !.batch = Batch, !.buffer = Rest, !.tries = 1]
  /\ posts' = posts \cup {Post("ingest", Batch, posts)}

SendEnd(state, others) ==
  /\ agent' = [state EXCEPT !.pc = "ending", !.tries = 1]
  /\ posts' = others \cup {Post("end", <<>>, others)}

\* The flush interval is over.
Flush ==
  /\ Capturing
  /\ agent.pc = "looping" /\ ~agent.stopping /\ agent.buffer # <<>>
  /\ SendBatch("flushing")
  /\ UNCHANGED recording

\* Mutant: with nothing to send there is no end either.
LastFlushOnly ==
  /\ Capturing
  /\ agent.pc = "looping" /\ agent.stopping /\ agent.buffer # <<>>
  /\ SendBatch("lastFlush")
  /\ UNCHANGED recording

\* The loop sees the stop event: a last flush, then the end.
LastFlush ==
  /\ Capturing
  /\ agent.pc = "looping" /\ agent.stopping
  /\ IF agent.buffer = <<>> THEN SendEnd(agent, posts) ELSE SendBatch("lastFlush")
  /\ UNCHANGED recording

\* SIGINT or SIGTERM where the loop takes signal handlers.
StopAgent ==
  /\ Capturing
  /\ agent.pc \in {"creating", "looping", "flushing"} /\ ~agent.stopping
  /\ agent' = [agent EXCEPT !.stopping = TRUE]
  /\ UNCHANGED <<posts, recording>>

\* Elsewhere the task is cancelled at what it awaits: a batch in flight is
\* neither confirmed nor put back, for CancelledError is no Exception.
CancelAgent ==
  /\ Capturing
  /\ agent.pc \in {"creating", "looping", "flushing"} /\ ~agent.stopping
  /\ agent' = [agent EXCEPT !.pc = IF @ = "creating" THEN "gone" ELSE "looping",
                            !.stopping = TRUE, !.batch = <<>>,
                            !.dropped = (@ \/ agent.pc = "flushing")]
  /\ posts' = {[p EXCEPT !.live = FALSE] : p \in {q \in posts : q.stage # "done"}}
  /\ UNCHANGED recording

\* After a flush, successful or not, the loop or the end; after the end, nothing.
Proceed(state, others) ==
  \/ /\ state.pc \in {"flushing", "ending"}
     /\ agent' = [state EXCEPT !.pc = IF @ = "flushing" THEN "looping" ELSE "gone"]
     /\ posts' = others
  \/ state.pc = "lastFlush" /\ SendEnd(state, others)

Waiting == {p \in posts : p.live}

\* The client hands over the answer.
Returned ==
  /\ Capturing
  /\ \E p \in Waiting : p.stage = "done"
  /\ \/ /\ agent.pc = "creating"
        /\ agent' = [agent EXCEPT !.pc = "looping"]
        /\ posts' = posts \ Waiting
     \/ Proceed([agent EXCEPT !.batch = <<>>], posts \ Waiting)
  /\ UNCHANGED recording

\* Mutant: a batch that failed goes behind what was captured meanwhile.
PutBackBehind(state) == [state EXCEPT !.buffer = @ \o state.batch, !.batch = <<>>]

\* Mutant: a batch that failed is logged only.
PutBackDropped(state) == [state EXCEPT !.batch = <<>>]

PutBack(state) == [state EXCEPT !.buffer = state.batch \o @, !.batch = <<>>]

\* The client raises; no recording, no capture.  "others" may still be served.
Raise(others) ==
  \/ agent.pc = "creating" /\ agent' = [agent EXCEPT !.pc = "gone"] /\ posts' = others
  \/ Proceed(PutBack(agent), others)

\* Mutant: one try too many.
RetryPast(p, others) ==
  IF agent.tries <= Retries
  THEN /\ agent' = [agent EXCEPT !.tries = @ + 1]
       /\ posts' = others \cup {Post(p.op, p.events, others)}
  ELSE Raise(others)

\* Out of time, cut off, or answered with 5xx: again, up to three times.
Retry(p, others) ==
  IF agent.tries < Retries
  THEN /\ agent' = [agent EXCEPT !.tries = @ + 1]
       /\ posts' = others \cup {Post(p.op, p.events, others)}
  ELSE Raise(others)

\* The request never arrived, or its commit failed.
PostFails ==
  /\ On("capture") /\ Fault
  /\ \E p \in Waiting : p.stage # "done" /\ Retry(p, posts \ {p})
  /\ UNCHANGED recording

\* Its answer is late or lost.
PostTimesOut ==
  /\ On("capture") /\ Fault
  /\ \E p \in Waiting :
       Retry(p, (posts \ {p}) \cup (IF p.stage = "done" THEN {}
                                    ELSE {[p EXCEPT !.live = FALSE]}))
  /\ UNCHANGED recording

\* Answered with 4xx: not tried again.
PostRejected ==
  /\ On("capture") /\ Fault
  /\ \E p \in Waiting : p.stage = "sent" /\ Raise(posts \ {p})
  /\ UNCHANGED recording

----------------------------------------------------------------------------
(* api/task_mining.py                                                       *)

Served(p) ==
  posts' = (posts \ {p}) \cup (IF p.live THEN {[p EXCEPT !.stage = "done"]} ELSE {})

\* create_recording: if it is not the one the agent hears of, an empty one.
CreateRecording(p) ==
  /\ p.op = "create" /\ p.stage = "sent"
  /\ Served(p)
  /\ UNCHANGED recording

\* ingest_events reads the recording ...
IngestLoad(p) ==
  /\ p.op = "ingest" /\ p.stage = "sent"
  /\ posts' = (posts \ {p}) \cup {[p EXCEPT !.stage = "read", !.count = recording.count]}
  /\ UNCHANGED recording

\* Mutant: the response's total is computed before the commit, and added again.
StoredCountTwice(p) ==
  [rows |-> [e \in Events |-> recording.rows[e] + Cardinality({i \in DOMAIN p.events : p.events[i] = e})],
   size |-> recording.size + Len(p.events),
   count |-> p.count + recording.count + Len(p.events), ended |-> recording.ended]

\* ... and commits the rows with the count it read, advanced.
Stored(p) ==
  [rows |-> [e \in Events |-> recording.rows[e] + Cardinality({i \in DOMAIN p.events : p.events[i] = e})],
   size |-> recording.size + Len(p.events),
   count |-> p.count + Len(p.events), ended |-> recording.ended]

IngestCommit(p) ==
  /\ p.op = "ingest" /\ p.stage = "read"
  /\ recording' = Stored(p)
  /\ Served(p)

EndRecording(p) ==
  /\ p.op = "end" /\ p.stage = "sent"
  /\ recording' = [recording EXCEPT !.ended = TRUE]
  /\ Served(p)

ServePost ==
  /\ Capturing
  /\ \E p \in posts : CreateRecording(p) \/ IngestLoad(p) \/ IngestCommit(p) \/ EndRecording(p)
  /\ UNCHANGED agent

----------------------------------------------------------------------------

\* CreateRecording, IngestLoad ... leave the agent alone.
CaptureNext ==
  \/ CaptureEvent \/ Flush \/ LastFlush \/ StopAgent \/ CancelAgent \/ Returned
  \/ PostFails \/ PostTimesOut \/ PostRejected
  \/ ServePost

\* The agent's process goes on, and what is asked is served.
CaptureFairness ==
  WF_captureVars(LastFlush \/ Returned) /\ WF_captureVars(ServePost)

----------------------------------------------------------------------------
(* What must hold                                                           *)

InSeq(e, s) == \E i \in DOMAIN s : s[i] = e

\* Every event the agent has captured is stored, on its way or in the buffer,
\* whatever fails; only a cancelled flush drops its batch.  At the end, if
\* nothing failed, the buffer holds but what a last batch could not (agent.py
\* _flush, run).
EventsKept ==
  \/ agent.dropped
  \/ /\ \A e \in 1..agent.captured :
           recording.rows[e] > 0 \/ InSeq(e, agent.batch) \/ InSeq(e, agent.buffer)
     /\ agent.pc = "gone" /\ faults = 0 /\ agent.buffer # <<>>
          => Len(agent.buffer) + BatchCap <= agent.captured

\* The server never has an event without those captured before it, and has
\* none twice if nothing failed: a batch that failed goes back in front
\* (agent.py _flush).
StoredInOrder ==
  /\ agent.dropped
       \/ \A e \in Events : \A d \in 1..e : recording.rows[e] > 0 => recording.rows[d] > 0
  /\ faults = 0 => \A e \in Events : recording.rows[e] <= 1

\* event_count never runs ahead of the rows, and is their number as long as
\* batches do not overlap (task_mining.py ingest_events).
EventCountFits ==
  /\ recording.count <= recording.size
  /\ faults = 0 /\ ~agent.dropped => recording.count = recording.size

\* An agent told to stop ends, however its last calls fail (agent.py run).
AgentEnds == agent.stopping ~> agent.pc = "gone"

=============================================================================
