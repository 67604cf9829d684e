--------------------------- MODULE Services_proofs ---------------------------
(***************************************************************************)
(* Proofs about Services: lemmas on each of the seven services, then the     *)
(* theorems.  Each service has an invariant that its own steps keep and the  *)
(* steps of the others do not touch; together with the budget of what may    *)
(* fail they are the invariant of Services.                                  *)
(***************************************************************************)
EXTENDS Services, FiniteSetTheorems, SequenceTheorems, WellFoundedInduction, TLAPS

----------------------------------------------------------------------------
(* CaptureAgent.  The buffer and the batch that is under way are always the   *)
(* last events captured, so a batch that is put back, or sent again while the *)
(* server still has it, is one the server can store.                         *)

\* A record with the fields of a post.
IsPost(p) ==
  p \in [n : {p.n}, op : {p.op}, events : {p.events}, stage : {p.stage},
         count : {p.count}, live : {p.live}]

Captured == agent.captured

Taken == Len(agent.batch)

Waits == Len(agent.buffer)

\* The events up to this one are no longer with the agent.
Sent == Captured - Taken - Waits

\* What the agent has sent or is sending.
Reached == Sent + Taken

Rows(e) == recording.rows[e]

Flushing == agent.pc \in {"flushing", "lastFlush"}

\* The events after the n-th, in order.
Follows(s, n) == \A i \in 1..Len(s) : s[i] = n + i

\* The agent has the last events captured, in order.
LastCaptured ==
  /\ Sent >= 0
  /\ Follows(agent.batch, Sent) /\ Follows(agent.buffer, Sent + Taken)
  /\ ~Flushing => agent.batch = <<>>
  /\ agent.pc = "creating" => agent.buffer = <<>>

\* A post that is waited for is the one the agent's state speaks of; what is
\* answered has been stored.
PostsFit ==
  \A p \in posts :
    /\ IsPost(p)
    /\ p.live => IF p.op = "ingest" THEN Flushing /\ p.events = agent.batch
                                    ELSE agent.pc \in {"creating", "ending"}
    /\ p.stage = "done" => p.live
    /\ p.stage = "read" => p.op = "ingest" /\ p.count <= recording.size
    /\ p.stage = "done" /\ p.op = "ingest" =>
         \A i \in DOMAIN p.events : Rows(p.events[i]) > 0

\* Unless a batch was dropped, what the agent no longer has is stored, and with
\* every event of a post those before it are stored or in the post.
NoGap ==
  ~agent.dropped =>
    /\ \A e \in 1..Sent : Rows(e) > 0
    /\ \A e \in Events : \A d \in 1..e : Rows(e) > 0 => Rows(d) > 0
    /\ \A p \in posts : \A i \in DOMAIN p.events : \A d \in 1..p.events[i] :
         Rows(d) > 0 \/ InSeq(d, p.events)

\* The events of a post that the server has not stored.
Pending(p) == {p.events[i] : i \in IF p.stage = "done" THEN {} ELSE DOMAIN p.events}

\* As long as nothing failed, an event is in one place.
OnePlace ==
  faults = 0 =>
    /\ \A e \in Events : /\ Rows(e) <= 1
                         /\ Rows(e) > 0 => e <= Reached
    /\ \A p \in posts :
         /\ \A e \in Pending(p) : e <= Reached /\ Rows(e) = 0
         /\ \A i, j \in DOMAIN p.events : p.events[i] = p.events[j] => i = j
    /\ \A p, q \in posts : p # q => Pending(p) \cap Pending(q) = {}

\* As long as nothing failed, the last batch is full if something stays behind.
LastIsFull ==
  faults = 0 /\ agent.buffer # <<>> =>
    /\ agent.pc = "lastFlush" => Taken = BatchCap
    /\ agent.pc \in {"ending", "gone"} => Sent >= BatchCap

\* The count is behind the rows, and as long as nothing failed not even that.
CountBehind ==
  /\ recording.count <= recording.size
  /\ faults = 0 /\ ~agent.dropped =>
       /\ recording.count = recording.size
       /\ \A p \in posts : /\ p.op = "ingest" => p.live
                           /\ p.stage = "read" => p.count = recording.size

CaptureInv ==
  CaptureTypeOK /\ LastCaptured /\ PostsFit /\ NoGap /\ OnePlace /\ LastIsFull /\ CountBehind

----------------------------------------------------------------------------
(* Sequences of events                                                      *)

\* How often an event is in a sequence.
LEMMA CountIn ==
  ASSUME NEW s \in Seq(Events), NEW e
  PROVE  LET c == Cardinality({i \in DOMAIN s : s[i] = e})
         IN  /\ c \in Nat
             /\ InSeq(e, s) => c > 0
             /\ ~InSeq(e, s) => c = 0
             /\ (\A i, j \in DOMAIN s : s[i] = s[j] => i = j) => c <= 1
<1> DEFINE I == {i \in DOMAIN s : s[i] = e}
<1>1. DOMAIN s = 1..Len(s) /\ Len(s) \in Nat
  BY LenProperties
<1>2. IsFiniteSet(I)
  <2>1. IsFiniteSet(1..Len(s))
    BY <1>1, FS_Interval
  <2>2. I \subseteq 1..Len(s)
    BY <1>1
  <2> QED
    BY <2>1, <2>2, FS_Subset
<1>3. InSeq(e, s) <=> I # {}
  BY DEF InSeq
<1>4. ASSUME \A i, j \in DOMAIN s : s[i] = s[j] => i = j, NEW i \in I
      PROVE  I = {i}
  BY <1>4
<1>5. Cardinality(I) \in Nat /\ (Cardinality(I) = 0 <=> I = {})
  BY <1>2, FS_CardinalityType, FS_EmptySet
<1>6. ASSUME \A i, j \in DOMAIN s : s[i] = s[j] => i = j, I # {}
      PROVE  Cardinality(I) = 1
  <2>1. PICK i \in I : TRUE
    BY <1>6
  <2>2. I = {i}
    BY <1>4, <1>6
  <2> HIDE DEF I
  <2> QED
    BY <2>2, FS_Singleton
<1> HIDE DEF I
<1>7. /\ Cardinality(I) \in Nat
      /\ InSeq(e, s) => Cardinality(I) > 0
      /\ ~InSeq(e, s) => Cardinality(I) = 0
      /\ (\A i, j \in DOMAIN s : s[i] = s[j] => i = j) => Cardinality(I) <= 1
  BY <1>3, <1>5, <1>6
<1> QED
  BY <1>7 DEF I

LEMMA FollowsAppend ==
  ASSUME NEW s \in Seq(Events), NEW n \in Nat, Follows(s, n), n + Len(s) + 1 \in Events
  PROVE  LET t == Append(s, n + Len(s) + 1)
         IN  t \in Seq(Events) /\ Len(t) = Len(s) + 1 /\ Follows(t, n)
<1> DEFINE t == Append(s, n + Len(s) + 1)
<1>1. Len(s) \in Nat
  BY LenProperties
<1>2. /\ t \in Seq(Events) /\ Len(t) = Len(s) + 1
      /\ \A i \in 1..Len(s) : t[i] = s[i]
      /\ t[Len(s) + 1] = n + (Len(s) + 1)
  BY <1>1, AppendProperties
<1> HIDE DEF t
<1>3. t \in Seq(Events) /\ Len(t) = Len(s) + 1 /\ Follows(t, n)
  BY <1>1, <1>2 DEF Follows
<1> QED
  BY <1>3 DEF t

LEMMA FollowsConcat ==
  ASSUME NEW s \in Seq(Events), NEW t \in Seq(Events), NEW n \in Nat,
         Follows(s, n), Follows(t, n + Len(s))
  PROVE  s \o t \in Seq(Events) /\ Len(s \o t) = Len(s) + Len(t) /\ Follows(s \o t, n)
<1>1. Len(s) \in Nat /\ Len(t) \in Nat
  BY LenProperties
<1>2. /\ s \o t \in Seq(Events) /\ Len(s \o t) = Len(s) + Len(t)
      /\ \A i \in 1..(Len(s) + Len(t)) :
            (s \o t)[i] = IF i <= Len(s) THEN s[i] ELSE t[i - Len(s)]
  BY ConcatProperties
<1>3. ASSUME NEW i \in 1..(Len(s) + Len(t))
      PROVE  (s \o t)[i] = n + i
  <2>1. CASE i <= Len(s)
    BY <1>1, <1>2, <2>1 DEF Follows
  <2>2. CASE i > Len(s)
    <3>1. i - Len(s) \in 1..Len(t) /\ (s \o t)[i] = t[i - Len(s)]
      BY <1>1, <1>2, <2>2
    <3> QED
      BY <1>1, <3>1 DEF Follows
  <2> QED
    BY <1>1, <2>1, <2>2
<1> QED
  BY <1>2, <1>3 DEF Follows

\* An event is in a run of events if it is between its ends.
LEMMA InFollows ==
  ASSUME NEW s \in Seq(Events), NEW n \in Nat, Follows(s, n), NEW e \in Nat
  PROVE  InSeq(e, s) <=> n < e /\ e <= n + Len(s)
<1>1. Len(s) \in Nat /\ DOMAIN s = 1..Len(s)
  BY LenProperties
<1>2. ASSUME n < e, e <= n + Len(s)
      PROVE  InSeq(e, s)
  <2>1. e - n \in 1..Len(s) /\ s[e - n] = e
    BY <1>1, <1>2 DEF Follows
  <2> QED
    BY <1>1, <2>1 DEF InSeq
<1>3. ASSUME InSeq(e, s)
      PROVE  n < e /\ e <= n + Len(s)
  BY <1>1, <1>3 DEF InSeq, Follows
<1> QED
  BY <1>2, <1>3

\* A run of events has none twice.
LEMMA FollowsApart ==
  ASSUME NEW s \in Seq(Events), NEW n \in Nat, Follows(s, n)
  PROVE  \A i, j \in DOMAIN s : s[i] = s[j] => i = j
<1>1. Len(s) \in Nat /\ DOMAIN s = 1..Len(s)
  BY LenProperties
<1> QED
  BY <1>1 DEF Follows

\* What is sent and what stays make up the buffer.
LEMMA BatchAndRest ==
  ASSUME CaptureTypeOK, NEW n \in Nat, Follows(agent.buffer, n)
  PROVE  /\ Batch \in Seq(Events) /\ Rest \in Seq(Events)
         /\ Len(Batch) \in Nat /\ Len(Rest) \in Nat
         /\ Len(Batch) + Len(Rest) = Len(agent.buffer)
         /\ Follows(Batch, n) /\ Follows(Rest, n + Len(Batch))
         /\ Rest # <<>> => Len(Batch) = BatchCap
<1> DEFINE b == agent.buffer
<1>1. b \in Seq(Events) /\ Len(b) \in Nat /\ BatchCap \in Nat \ {0}
  BY CaptureAssumption, LenProperties DEF CaptureTypeOK
<1>2. Follows(b, n)
  OBVIOUS
<1>3. CASE Len(b) < BatchCap
  <2>1. Batch = SubSeq(b, 1, Len(b)) /\ Rest = SubSeq(b, BatchCap + 1, Len(b))
    BY <1>1, <1>3 DEF Batch, Rest
  <2> HIDE DEF b
  <2>2. Batch = b /\ Rest = <<>>
    BY <1>1, <1>3, <2>1, SubSeqFull, SubSeqEmpty
  <2>3. Rest \in Seq(Events) /\ Len(Rest) = 0 /\ Follows(Rest, n + Len(Batch))
    BY <2>2, EmptySeq DEF Follows
  <2> QED
    BY <1>1, <1>2, <2>2, <2>3 DEF b
<1>4. CASE Len(b) >= BatchCap
  <2>1. Batch = SubSeq(b, 1, BatchCap) /\ Rest = SubSeq(b, BatchCap + 1, Len(b))
    BY <1>1, <1>4 DEF Batch, Rest
  <2> HIDE DEF b
  <2>2. \A i \in 1..Len(b) : b[i] \in Events
    BY <1>1, ElementOfSeq
  <2>3. /\ Batch \in Seq(Events) /\ Len(Batch) = BatchCap
        /\ \A i \in 1..BatchCap : Batch[i] = b[i]
    BY <1>1, <1>4, <2>1, <2>2, SubSeqProperties
  <2>4. /\ Rest \in Seq(Events) /\ Len(Rest) = Len(b) - BatchCap
        /\ \A i \in 1..(Len(b) - BatchCap) : Rest[i] = b[BatchCap + i]
    BY <1>1, <1>4, <2>1, <2>2, SubSeqProperties
  <2>5. Follows(Batch, n)
    BY <1>1, <1>2, <1>4, <2>3 DEF Follows
  <2>6. Follows(Rest, n + Len(Batch))
    BY <1>1, <1>2, <1>4, <2>3, <2>4 DEF Follows
  <2>7. Len(Batch) \in Nat /\ Len(Rest) \in Nat /\ Len(Batch) + Len(Rest) = Len(b)
    BY <1>1, <1>4, <2>3, <2>4
  <2> QED
    BY <2>3, <2>4, <2>5, <2>6, <2>7 DEF b
<1> QED
  BY <1>1, <1>3, <1>4

----------------------------------------------------------------------------
(* Posts                                                                    *)

\* A new post is waited for, and nothing has come of it.
LEMMA PostShape ==
  ASSUME NEW op, NEW events, NEW others
  PROVE  LET q == Post(op, events, others)
         IN  /\ IsPost(q) /\ q.op = op /\ q.events = events
             /\ q.stage = "sent" /\ q.count = 0 /\ q.live = TRUE /\ q.live \in BOOLEAN
BY DEF Post, IsPost

\* Posts that nobody waits for any more, as they were.
Left(others) ==
  \A q \in others :
    /\ ~q.live /\ q.stage # "done"
    /\ \E o \in posts : q = o \/ q = [o EXCEPT !.live = FALSE]

LEMMA LeftFits ==
  ASSUME CaptureInv, NEW others, Left(others), NEW q \in others
  PROVE  /\ ~q.live /\ q.stage \in {"sent", "read"} /\ IsPost(q)
         /\ q.op \in {"create", "ingest", "end"} /\ q.events \in Seq(Events)
         /\ q.count \in Nat /\ q.live \in BOOLEAN
         /\ q.stage = "read" => q.op = "ingest" /\ q.count <= recording.size
         /\ ~agent.dropped => \A i \in DOMAIN q.events : \A d \in 1..q.events[i] :
              Rows(d) > 0 \/ InSeq(d, q.events)
<1>1. PICK o \in posts : q = o \/ q = [o EXCEPT !.live = FALSE]
  BY DEF Left
<1>2. ~q.live /\ q.stage # "done"
  BY DEF Left
<1>3. /\ IsPost(o) /\ o.op \in {"create", "ingest", "end"} /\ o.events \in Seq(Events)
      /\ o.stage \in {"sent", "read", "done"} /\ o.count \in Nat /\ o.live \in BOOLEAN
      /\ o.stage = "read" => o.op = "ingest" /\ o.count <= recording.size
  BY DEF CaptureInv, CaptureTypeOK, PostsFit
<1>4. /\ IsPost(q) /\ q.op = o.op /\ q.events = o.events /\ q.stage = o.stage
      /\ q.count = o.count /\ q.live \in BOOLEAN
  BY <1>1, <1>3 DEF IsPost
<1>5. ~agent.dropped => \A i \in DOMAIN o.events : \A d \in 1..o.events[i] :
        Rows(d) > 0 \/ InSeq(d, o.events)
  BY DEF CaptureInv, NoGap
<1> QED
  BY <1>2, <1>3, <1>4, <1>5

\* The agent's numbers.
LEMMA Counted ==
  ASSUME CaptureTypeOK, LastCaptured
  PROVE  /\ Waits \in Nat /\ Taken \in Nat /\ Captured \in Nat /\ Sent \in Nat
         /\ Sent + Taken + Waits = Captured /\ Captured <= MaxCaptured
         /\ MaxCaptured \in Nat /\ BatchCap \in Nat \ {0} /\ Retries \in Nat \ {0}
<1>1. /\ Captured \in Nat /\ Captured <= MaxCaptured
      /\ MaxCaptured \in Nat /\ BatchCap \in Nat \ {0} /\ Retries \in Nat \ {0}
  BY CaptureAssumption DEF CaptureTypeOK, Captured
<1>2. Taken \in Nat /\ Waits \in Nat
  <2>1. agent.buffer \in Seq(Events) /\ agent.batch \in Seq(Events)
    BY DEF CaptureTypeOK
  <2> QED
    BY <2>1, LenProperties DEF Taken, Waits
<1>3. Sent >= 0
  BY DEF LastCaptured
<1> QED
  BY <1>1, <1>2, <1>3 DEF Sent

LEMMA SentIs ==
  ASSUME NEW c \in Nat, NEW t \in Nat, NEW b \in Nat, NEW n \in Nat,
         Captured' = c, Taken' = t, Waits' = b, n + t + b = c
  PROVE  Sent' = n
<1>1. Sent' = Captured' - Taken' - Waits'
  BY DEF Sent
<1>2. Sent' = c - t - b
  BY <1>1
<1>3. c - t - b = n
  OBVIOUS
<1> QED
  BY <1>2, <1>3

----------------------------------------------------------------------------
(* The agent's steps                                                        *)

LEMMA CaptureEventKeeps ==
  ASSUME CaptureInv, CaptureEvent
  PROVE  CaptureInv'
<1>1. CaptureTypeOK /\ LastCaptured /\ PostsFit /\ NoGap /\ OnePlace /\ LastIsFull /\ CountBehind
  BY DEF CaptureInv
<1>2. /\ posts' = posts /\ recording' = recording /\ faults' = faults
      /\ agent.pc = "looping" /\ agent.captured < MaxCaptured
      /\ agent' = [agent EXCEPT !.captured = @ + 1,
                                !.buffer = Append(@, agent.captured + 1)]
  BY DEF CaptureEvent, Capturing, NoFault, serviceVars
<1>3. /\ Waits \in Nat /\ Taken \in Nat /\ Captured \in Nat /\ Sent \in Nat
      /\ Sent + Taken + Waits = Captured /\ MaxCaptured \in Nat
  BY <1>1, Counted
<1>4. Captured + 1 \in Events /\ Captured + 1 \in 0..MaxCaptured
  BY <1>2, <1>3 DEF Events, Captured
<1>5. /\ agent'.captured = Captured + 1 /\ agent'.batch = agent.batch
      /\ agent'.buffer = Append(agent.buffer, Captured + 1)
      /\ agent'.pc = agent.pc /\ agent'.dropped = agent.dropped
  BY <1>1, <1>2 DEF CaptureTypeOK, Captured
<1>6. /\ agent'.buffer \in Seq(Events) /\ Waits' = Waits + 1
      /\ Follows(agent'.buffer, Sent + Taken)
  <2> DEFINE n == Sent + Taken
             b == agent.buffer
             c == Captured + 1
  <2>1. /\ b \in Seq(Events) /\ Follows(b, n) /\ n \in Nat /\ c \in Events
        /\ c = n + Len(b) + 1
    <3>1. b \in Seq(Events)
      BY <1>1 DEF CaptureTypeOK
    <3>2. Follows(b, n)
      BY <1>1 DEF LastCaptured
    <3>3. n \in Nat /\ c \in Events /\ c = n + Waits + 1
      BY <1>3, <1>4
    <3> QED
      BY <3>1, <3>2, <3>3 DEF Waits
  <2>2. agent'.buffer = Append(b, c) /\ Waits = Len(b) /\ Waits' = Len(agent'.buffer)
    BY <1>5 DEF Waits
  <2> HIDE DEF n, b, c
  <2>3. agent'.buffer \in Seq(Events) /\ Len(agent'.buffer) = Len(b) + 1 /\ Follows(agent'.buffer, n)
    BY <2>1, <2>2, FollowsAppend
  <2> QED
    BY <2>2, <2>3 DEF n
<1>7. Captured' = Captured + 1 /\ Taken' = Taken
  BY <1>5 DEF Captured, Taken
<1>8. Sent' = Sent
  BY <1>3, <1>6, <1>7, SentIs
<1>9. CaptureTypeOK'
  BY <1>1, <1>2, <1>4, <1>5, <1>6 DEF CaptureTypeOK
<1>10. LastCaptured' /\ LastIsFull'
  BY <1>1, <1>2, <1>5, <1>6, <1>7, <1>8 DEF LastCaptured, LastIsFull, Flushing
<1>11. PostsFit'
  BY <1>1, <1>2, <1>5 DEF PostsFit, Flushing, IsPost, Rows
<1>12. NoGap'
  BY <1>1, <1>2, <1>5, <1>8 DEF NoGap, InSeq, Rows
<1>13. OnePlace'
  BY <1>1, <1>2, <1>7, <1>8 DEF OnePlace, Pending, Rows, Reached
<1>14. CountBehind'
  BY <1>1, <1>2, <1>5 DEF CountBehind
<1> QED
  BY <1>9, <1>10, <1>11, <1>12, <1>13, <1>14 DEF CaptureInv

LEMMA StopAgentKeeps ==
  ASSUME CaptureInv, StopAgent
  PROVE  CaptureInv'
<1>1. CaptureTypeOK /\ LastCaptured /\ PostsFit /\ NoGap /\ OnePlace /\ LastIsFull /\ CountBehind
  BY DEF CaptureInv
<1>2. /\ posts' = posts /\ recording' = recording /\ faults' = faults
      /\ agent' = [agent EXCEPT !.stopping = TRUE]
  BY DEF StopAgent, Capturing, NoFault, serviceVars
<1>3. /\ agent'.buffer = agent.buffer /\ agent'.batch = agent.batch
      /\ agent'.captured = agent.captured /\ agent'.pc = agent.pc
      /\ agent'.dropped = agent.dropped
  BY <1>1, <1>2 DEF CaptureTypeOK
<1>4. Captured' = Captured /\ Taken' = Taken /\ Waits' = Waits
  BY <1>3 DEF Captured, Taken, Waits
<1>5. Sent' = Sent
  BY <1>4 DEF Sent
<1>6. CaptureTypeOK'
  BY <1>1, <1>2 DEF CaptureTypeOK
<1>7. LastCaptured' /\ LastIsFull'
  BY <1>1, <1>2, <1>3, <1>4, <1>5 DEF LastCaptured, LastIsFull, Flushing
<1>8. PostsFit'
  BY <1>1, <1>2, <1>3 DEF PostsFit, Flushing, IsPost, Rows
<1>9. NoGap'
  BY <1>1, <1>2, <1>3, <1>5 DEF NoGap, InSeq, Rows
<1>10. OnePlace'
  BY <1>1, <1>2, <1>4, <1>5 DEF OnePlace, Pending, Rows, Reached
<1>11. CountBehind'
  BY <1>1, <1>2, <1>3 DEF CountBehind
<1> QED
  BY <1>6, <1>7, <1>8, <1>9, <1>10, <1>11 DEF CaptureInv

\* Nobody waits for a post while the agent is in its loop.
LEMMA NoneWaits ==
  ASSUME CaptureInv, agent.pc = "looping"
  PROVE  \A p \in posts : ~p.live
BY DEF CaptureInv, PostsFit, Flushing

LEMMA SendBatchKeeps ==
  ASSUME CaptureInv, agent.pc = "looping", agent.buffer # <<>>, UNCHANGED <<recording, faults>>,
         NEW pc \in {"flushing", "lastFlush"}, SendBatch(pc)
  PROVE  CaptureInv'
<1>1. CaptureTypeOK /\ LastCaptured /\ PostsFit /\ NoGap /\ OnePlace /\ LastIsFull /\ CountBehind
  BY DEF CaptureInv
<1> DEFINE q == Post("ingest", Batch, posts)
<1>2. /\ IsPost(q) /\ q.op = "ingest" /\ q.events = Batch
      /\ q.stage = "sent" /\ q.count = 0 /\ q.live = TRUE /\ q.live \in BOOLEAN
  BY PostShape
<1>3. /\ posts' = posts \cup {q} /\ recording' = recording /\ faults' = faults
      /\ agent' = [agent EXCEPT !.pc = pc, !.batch = Batch, !.buffer = Rest, !.tries = 1]
  BY DEF SendBatch
<1> HIDE DEF q
<1>4. /\ agent'.buffer = Rest /\ agent'.batch = Batch /\ agent'.pc = pc
      /\ agent'.captured = agent.captured /\ agent'.dropped = agent.dropped
  BY <1>1, <1>3 DEF CaptureTypeOK
<1>5. agent.batch = <<>> /\ Taken = 0
  BY <1>1 DEF LastCaptured, Flushing, Taken
<1>6. /\ Captured \in Nat /\ Sent \in Nat /\ Waits \in Nat /\ Sent + Waits = Captured
      /\ Follows(agent.buffer, Sent)
  BY <1>1, <1>5, Counted DEF LastCaptured
<1>7. /\ Batch \in Seq(Events) /\ Rest \in Seq(Events)
      /\ Follows(Batch, Sent) /\ Follows(Rest, Sent + Len(Batch))
  BY <1>1, <1>6, BatchAndRest
<1>8. /\ Len(Batch) \in Nat /\ Len(Rest) \in Nat /\ Len(Batch) + Len(Rest) = Waits
      /\ Rest # <<>> => Len(Batch) = BatchCap
  BY <1>1, <1>6, BatchAndRest DEF Waits
<1>9. Taken' = Len(Batch) /\ Waits' = Len(Rest) /\ Captured' = Captured
  BY <1>4 DEF Taken, Waits, Captured
<1>10. Sent' = Sent
  BY <1>6, <1>8, <1>9, SentIs
<1>11. CaptureTypeOK'
  <2>1. \A p \in posts : ~p.live
    BY NoneWaits
  <2>2. 1 \in 0..Retries
    BY CaptureAssumption
  <2>3. agent' \in [pc : {"creating", "looping", "flushing", "lastFlush", "ending", "gone"},
                buffer : Seq(Events), batch : Seq(Events), tries : 0..Retries,
                captured : 0..MaxCaptured, stopping : BOOLEAN, dropped : BOOLEAN]
    BY <1>1, <1>3, <1>7, <2>2 DEF CaptureTypeOK
  <2>4. /\ q.op \in {"create", "ingest", "end"} /\ q.events \in Seq(Events)
        /\ q.stage \in {"sent", "read", "done"} /\ q.count \in Nat /\ q.live \in BOOLEAN
    BY <1>2, <1>7
  <2>5. \A p \in posts' :
           /\ p.op \in {"create", "ingest", "end"} /\ p.events \in Seq(Events)
           /\ p.stage \in {"sent", "read", "done"} /\ p.count \in Nat /\ p.live \in BOOLEAN
    BY <1>1, <1>3, <2>4 DEF CaptureTypeOK
  <2>6. \A p1, p2 \in posts' : p1.live /\ p2.live => p1 = p2
    BY <1>3, <2>1
  <2> QED
    BY <1>1, <1>3, <2>3, <2>5, <2>6 DEF CaptureTypeOK
<1>12. LastCaptured'
  BY <1>1, <1>4, <1>6, <1>7, <1>9, <1>10 DEF LastCaptured, Flushing
<1>13. PostsFit'
  BY <1>1, <1>2, <1>3, <1>4, NoneWaits DEF PostsFit, Flushing, IsPost, Rows
<1>14. NoGap'
  <2>1. ASSUME NEW i \in DOMAIN q.events, NEW d \in 1..q.events[i], ~agent.dropped
        PROVE  Rows(d) > 0 \/ InSeq(d, q.events)
    <3>1. i \in DOMAIN Batch /\ Batch[i] \in Events /\ q.events[i] = Batch[i]
      BY <1>2, <1>7, ElementOfSeq, LenProperties
    <3>2. Batch[i] \in Nat /\ InSeq(Batch[i], Batch)
      BY <3>1, CaptureAssumption DEF InSeq, Events
    <3>3. Batch[i] <= Sent + Len(Batch)
      BY <1>6, <1>7, <3>2, InFollows
    <3>4. d \in Nat /\ 1 <= d /\ d <= Sent + Len(Batch)
      BY <1>6, <1>8, <2>1, <3>1, <3>2, <3>3
    <3>5. CASE d <= Sent
      BY <1>1, <1>6, <2>1, <3>4, <3>5 DEF NoGap
    <3>6. CASE d > Sent
      BY <1>2, <1>6, <1>7, <3>4, <3>6, InFollows
    <3> QED
      BY <1>6, <3>4, <3>5, <3>6
  <2> QED
    BY <1>1, <1>3, <1>4, <1>10, <2>1 DEF NoGap, InSeq, Rows
<1>15. OnePlace'
  <2> SUFFICES ASSUME faults = 0
               PROVE  OnePlace'
    BY <1>3 DEF OnePlace
  <2>1. \A i, j \in DOMAIN q.events : q.events[i] = q.events[j] => i = j
    BY <1>2, <1>6, <1>7, FollowsApart
  <2>2. ASSUME NEW e \in Pending(q)
        PROVE  e \in Events /\ e \in Nat /\ Sent < e /\ e <= Sent + Len(Batch)
    <3>1. PICK i \in DOMAIN Batch : e = Batch[i]
      BY <1>2 DEF Pending
    <3>2. e \in Events /\ InSeq(e, Batch)
      BY <1>7, <3>1, ElementOfSeq, LenProperties DEF InSeq
    <3>3. e \in Nat
      BY <3>2 DEF Events
    <3> QED
      BY <1>6, <1>7, <3>2, <3>3, InFollows
  <2>3. /\ \A e \in Events : Rows(e) <= 1 /\ (Rows(e) > 0 => e <= Sent)
        /\ \A p \in posts : \A e \in Pending(p) : e <= Sent /\ Rows(e) = 0
    <3>1. Reached = Sent
      BY <1>5, <1>6 DEF Reached
    <3> QED
      BY <1>1, <3>1 DEF OnePlace
  <2>4. ASSUME NEW e \in Pending(q)
        PROVE  e <= Sent + Len(Batch) /\ Rows(e) = 0 /\ \A p \in posts : e \notin Pending(p)
    <3>1. Rows(e) \in Nat
      BY <1>1, <2>2 DEF CaptureTypeOK, Rows
    <3> QED
      BY <1>6, <2>2, <2>3, <3>1
  <2>5. ASSUME NEW e \in Nat, e <= Sent
        PROVE  e <= Sent + Len(Batch)
    BY <1>6, <1>8, <2>5
  <2>6. \A p \in posts : \A e \in Pending(p) : e \in Nat
    <3>1. \A p \in posts : \A i \in DOMAIN p.events : p.events[i] \in Events
      BY <1>1, ElementOfSeq, LenProperties DEF CaptureTypeOK
    <3> QED
      BY <3>1 DEF Pending, Events
  <2>7. \A e : Rows(e)' = Rows(e)
    BY <1>3 DEF Rows
  <2>8. Reached' = Sent + Len(Batch)
    BY <1>9, <1>10 DEF Reached
  <2>9. \A e \in Events : Rows(e)' <= 1 /\ (Rows(e)' > 0 => e <= Reached')
    BY <2>3, <2>5, <2>7, <2>8 DEF Events
  <2>10. ASSUME NEW p \in posts'
         PROVE  /\ \A e \in Pending(p) : e <= Reached' /\ Rows(e)' = 0
                /\ \A i, j \in DOMAIN p.events : p.events[i] = p.events[j] => i = j
    <3>1. CASE p = q
      BY <2>1, <2>4, <2>7, <2>8, <3>1
    <3>2. CASE p \in posts
      BY <1>1, <2>3, <2>5, <2>6, <2>7, <2>8, <3>2 DEF OnePlace
    <3> QED
      BY <1>3, <3>1, <3>2
  <2>11. ASSUME NEW p1 \in posts', NEW p2 \in posts', p1 # p2
         PROVE  Pending(p1) \cap Pending(p2) = {}
    <3>1. \A p \in posts : Pending(p) \cap Pending(q) = {}
      BY <2>4
    <3> QED
      BY <1>1, <1>3, <2>11, <3>1 DEF OnePlace
  <2> QED
    BY <2>9, <2>10, <2>11 DEF OnePlace, Pending
<1>16. LastIsFull'
  BY <1>1, <1>4, <1>8, <1>9 DEF LastIsFull
<1>17. CountBehind'
  BY <1>1, <1>2, <1>3, <1>4 DEF CountBehind
<1> QED
  BY <1>11, <1>12, <1>13, <1>14, <1>15, <1>16, <1>17 DEF CaptureInv

\* A post as the client begins to wait for it.
Fresh(q) ==
  /\ IsPost(q) /\ q.op \in {"create", "ingest", "end"} /\ q.events \in Seq(Events)
  /\ q.stage = "sent" /\ q.count = 0 /\ q.live \in BOOLEAN /\ q.live
  /\ IF q.op = "ingest" THEN Flushing' /\ q.events = agent'.batch
                        ELSE agent'.pc \in {"creating", "ending"}
  /\ ~agent'.dropped => \A i \in DOMAIN q.events : \A d \in 1..q.events[i] :
        Rows(d) > 0 \/ InSeq(d, q.events)
  /\ faults' = 0 => q.events = <<>>

LEMMA FreshEnd ==
  ASSUME NEW others, agent'.pc = "ending"
  PROVE  Fresh(Post("end", <<>>, others))
<1> DEFINE q == Post("end", <<>>, others)
<1>1. /\ IsPost(q) /\ q.op = "end" /\ q.events = <<>>
      /\ q.stage = "sent" /\ q.count = 0 /\ q.live = TRUE /\ q.live \in BOOLEAN
  BY PostShape
<1> HIDE DEF q
<1>2. q.events \in Seq(Events) /\ DOMAIN q.events = {}
  BY <1>1
<1>3. Fresh(q)
  BY <1>1, <1>2 DEF Fresh
<1> QED
  BY <1>3 DEF q

\* What the steps share that take up posts that nobody waits for any more, and
\* possibly one new post.
LEMMA MovesOn ==
  ASSUME CaptureInv, recording' = recording,
         agent' \in [pc : {"creating", "looping", "flushing", "lastFlush", "ending", "gone"},
                     buffer : Seq(Events), batch : Seq(Events), tries : 0..Retries,
                     captured : 0..MaxCaptured, stopping : BOOLEAN, dropped : BOOLEAN],
         LastCaptured', LastIsFull', NEW m \in Nat, Reached' = m,
         NEW others, Left(others), NEW new, posts' = others \cup new,
         \A q, r \in new : q = r,
         \A q \in new : Fresh(q),
         ~agent'.dropped => ~agent.dropped /\ \A e \in 1..Sent' : Rows(e) > 0,
         faults' = 0 => /\ faults = 0 /\ Reached <= m
                        /\ \A q, r \in others : q # r => Pending(q) \cap Pending(r) = {},
         faults' = 0 /\ ~agent'.dropped => \A q \in others : q.op # "ingest"
  PROVE  CaptureInv'
<1>1. CaptureTypeOK /\ LastCaptured /\ PostsFit /\ NoGap /\ OnePlace /\ LastIsFull /\ CountBehind
  BY DEF CaptureInv
<1>2. \A e : Rows(e)' = Rows(e)
  BY DEF Rows
<1>3. \A q \in others :
        /\ ~q.live /\ q.stage \in {"sent", "read"} /\ IsPost(q)
        /\ q.op \in {"create", "ingest", "end"} /\ q.events \in Seq(Events)
        /\ q.count \in Nat /\ q.live \in BOOLEAN
        /\ q.stage = "read" => q.op = "ingest" /\ q.count <= recording.size
        /\ ~agent.dropped => \A i \in DOMAIN q.events : \A d \in 1..q.events[i] :
             Rows(d) > 0 \/ InSeq(d, q.events)
  BY LeftFits
<1>4. CaptureTypeOK'
  <2>1. \A p \in posts' :
           /\ p.op \in {"create", "ingest", "end"} /\ p.events \in Seq(Events)
           /\ p.stage \in {"sent", "read", "done"} /\ p.count \in Nat /\ p.live \in BOOLEAN
    BY <1>3 DEF Fresh
  <2>2. \A p, q \in posts' : p.live /\ q.live => p = q
    BY <1>3
  <2> QED
    BY <1>1, <2>1, <2>2 DEF CaptureTypeOK
<1>5. PostsFit'
  <2>1. ASSUME NEW p \in others
        PROVE  /\ IsPost(p)
               /\ ~p.live /\ p.stage # "done"
               /\ p.stage = "read" => p.op = "ingest" /\ p.count <= recording.size
    BY <1>3
  <2>2. ASSUME NEW p \in new
        PROVE  /\ IsPost(p)
               /\ p.live => IF p.op = "ingest" THEN Flushing' /\ p.events = agent'.batch
                                               ELSE agent'.pc \in {"creating", "ending"}
               /\ p.stage # "done" /\ p.stage # "read"
    BY DEF Fresh
  <2> QED
    BY <1>2, <2>1, <2>2 DEF PostsFit, IsPost
<1>6. NoGap'
  <2> SUFFICES ASSUME ~agent'.dropped
               PROVE  NoGap'
    BY DEF NoGap
  <2>1. \A e \in Events : \A d \in 1..e : Rows(e) > 0 => Rows(d) > 0
    BY <1>1 DEF NoGap
  <2>2. ASSUME NEW p \in posts', NEW i \in DOMAIN p.events, NEW d \in 1..p.events[i]
        PROVE  Rows(d) > 0 \/ InSeq(d, p.events)
    BY <1>3 DEF Fresh
  <2> QED
    BY <1>2, <2>1, <2>2 DEF NoGap, InSeq
<1>7. OnePlace'
  <2> SUFFICES ASSUME faults' = 0
               PROVE  OnePlace'
    BY DEF OnePlace
  <2>1. faults = 0 /\ Reached <= m
    OBVIOUS
  <2>2. \A q \in new : Pending(q) = {} /\ DOMAIN q.events = {}
    BY DEF Pending, Fresh
  <2>3. \A e \in Events : e \in Nat
    BY DEF Events
  <2>4. Reached \in Nat
    BY <1>1, Counted DEF Reached
  <2>5. ASSUME NEW q \in others
        PROVE  /\ \A e \in Pending(q) : e <= m /\ Rows(e) = 0
               /\ \A i, j \in DOMAIN q.events : q.events[i] = q.events[j] => i = j
    <3>1. PICK o \in posts : q = o \/ q = [o EXCEPT !.live = FALSE]
      BY DEF Left
    <3>2. q.events = o.events /\ q.stage = o.stage
      BY <1>1, <3>1 DEF PostsFit, IsPost
    <3>3. Pending(q) = Pending(o)
      BY <3>2 DEF Pending
    <3>4. \A e \in Pending(o) : e \in Nat
      <4>1. \A i \in DOMAIN o.events : o.events[i] \in Events
        BY <1>1, ElementOfSeq, LenProperties DEF CaptureTypeOK
      <4> QED
        BY <2>3, <4>1 DEF Pending
    <3> QED
      BY <1>1, <2>1, <2>4, <3>2, <3>3, <3>4 DEF OnePlace
  <2>6. \A e \in Events : Rows(e) <= 1 /\ (Rows(e) > 0 => e <= m)
    BY <1>1, <2>1, <2>3, <2>4 DEF OnePlace
  <2> QED
    <3>1. \A e \in Events : Rows(e)' <= 1 /\ (Rows(e)' > 0 => e <= Reached')
      BY <1>2, <2>6
    <3>2. ASSUME NEW p \in posts'
          PROVE  /\ \A e \in Pending(p) : e <= Reached' /\ Rows(e)' = 0
                 /\ \A i, j \in DOMAIN p.events : p.events[i] = p.events[j] => i = j
      BY <1>2, <2>2, <2>5
    <3>3. \A p, q \in posts' : p # q => Pending(p) \cap Pending(q) = {}
      BY <2>2
    <3> QED
      BY <3>1, <3>2, <3>3 DEF OnePlace, Pending
<1>8. CountBehind'
  <2>1. faults' = 0 /\ ~agent'.dropped => faults = 0 /\ ~agent.dropped
    OBVIOUS
  <2>2. ASSUME faults' = 0, ~agent'.dropped, NEW p \in posts'
        PROVE  (p.op = "ingest" => p.live) /\ p.stage # "read"
    BY <1>3, <2>2 DEF Fresh
  <2>3. recording.count <= recording.size
        /\ (faults = 0 /\ ~agent.dropped => recording.count = recording.size)
    BY <1>1 DEF CountBehind
  <2> QED
    BY <2>1, <2>2, <2>3 DEF CountBehind
<1> QED
  BY <1>4, <1>5, <1>6, <1>7, <1>8 DEF CaptureInv

Agent ==
  [pc : {"creating", "looping", "flushing", "lastFlush", "ending", "gone"},
   buffer : Seq(Events), batch : Seq(Events), tries : 0..Retries,
   captured : 0..MaxCaptured, stopping : BOOLEAN, dropped : BOOLEAN]

\* In its loop the agent waits for nothing, so all posts are left.
LEMMA LoopLeaves ==
  ASSUME CaptureInv, agent.pc = "looping"
  PROVE  Left(posts)
BY NoneWaits DEF Left, CaptureInv, PostsFit

LEMMA LastFlushKeeps ==
  ASSUME CaptureInv, LastFlush
  PROVE  CaptureInv'
<1>1. CaptureTypeOK /\ LastCaptured /\ PostsFit /\ NoGap /\ OnePlace /\ LastIsFull /\ CountBehind
  BY DEF CaptureInv
<1>2. recording' = recording /\ faults' = faults /\ agent.pc = "looping"
  BY DEF LastFlush, Capturing, NoFault, serviceVars
<1>3. CASE agent.buffer # <<>>
  BY <1>2, <1>3, SendBatchKeeps DEF LastFlush
<1>4. CASE agent.buffer = <<>>
  <2> DEFINE q == Post("end", <<>>, posts)
  <2>1. posts' = posts \cup {q} /\ agent' = [agent EXCEPT !.pc = "ending", !.tries = 1]
    BY <1>4 DEF LastFlush, SendEnd
  <2> HIDE DEF q
  <2>2. 1 \in 0..Retries
    BY CaptureAssumption
  <2>3. /\ agent' \in Agent /\ agent'.pc = "ending" /\ agent'.dropped = agent.dropped
        /\ agent'.buffer = agent.buffer /\ agent'.batch = agent.batch
        /\ agent'.captured = agent.captured
    BY <1>1, <2>1, <2>2 DEF CaptureTypeOK, Agent
  <2>4. Captured' = Captured /\ Taken' = Taken /\ Waits' = Waits
    BY <2>3 DEF Captured, Taken, Waits
  <2>5. Sent' = Sent /\ Reached' = Reached
    BY <2>4 DEF Sent, Reached
  <2>6. Sent \in Nat /\ Taken \in Nat /\ Reached \in Nat /\ agent.batch = <<>>
    BY <1>1, <1>2, Counted DEF Reached, LastCaptured, Flushing
  <2>7. LastCaptured' /\ LastIsFull'
    BY <1>1, <1>4, <2>3, <2>4, <2>5, <2>6 DEF LastCaptured, LastIsFull, Flushing
  <2>8. Fresh(q)
    BY <2>3, FreshEnd DEF q
  <2> DEFINE new == {q}
  <2>12. posts' = posts \cup new /\ (\A r \in new : Fresh(r)) /\ \A r, t \in new : r = t
    BY <2>1, <2>8
  <2> HIDE DEF new
  <2>9. faults = 0 /\ ~agent.dropped => \A p \in posts : p.op # "ingest"
    BY <1>1, <1>2, NoneWaits DEF CountBehind
  <2>10. faults = 0 => \A p, r \in posts : p # r => Pending(p) \cap Pending(r) = {}
    BY <1>1 DEF OnePlace
  <2>11. ~agent.dropped => \A e \in 1..Sent : Rows(e) > 0
    BY <1>1 DEF NoGap
  <2>13. Left(posts)
    BY <1>2, LoopLeaves
  <2>14. ~agent'.dropped => ~agent.dropped /\ \A e \in 1..Sent' : Rows(e) > 0
    BY <2>3, <2>5, <2>11
  <2>15. faults' = 0 => /\ faults = 0 /\ Reached <= Reached
                        /\ \A q1, r \in posts : q1 # r => Pending(q1) \cap Pending(r) = {}
    BY <1>2, <2>6, <2>10
  <2>16. faults' = 0 /\ ~agent'.dropped => \A q1 \in posts : q1.op # "ingest"
    BY <1>2, <2>3, <2>9
  <2> QED
    BY <1>2, <2>3, <2>5, <2>6, <2>7, <2>12, <2>13, <2>14, <2>15, <2>16, MovesOn DEF Agent
<1> QED
  BY <1>3, <1>4

\* What the agent does after a flush or the end, in the state it is then in.
LEMMA ProceedKeeps ==
  ASSUME CaptureInv, recording' = recording,
         NEW others, Left(others),
         NEW state \in Agent, Proceed(state, others),
         state.pc = agent.pc, state.captured = agent.captured,
         ~state.dropped <=> ~agent.dropped, state.batch = <<>>,
         NEW n \in Nat, n + Len(state.buffer) = Captured, Follows(state.buffer, n),
         ~agent.dropped => \A e \in 1..n : Rows(e) > 0,
         faults' = 0 => /\ faults = 0 /\ Reached <= n
                        /\ \A q, r \in others : q # r => Pending(q) \cap Pending(r) = {},
         faults' = 0 /\ ~agent.dropped => \A q \in others : q.op # "ingest",
         faults' = 0 /\ state.buffer # <<>> /\ agent.pc \in {"lastFlush", "ending"}
           => n >= BatchCap
  PROVE  CaptureInv'
<1>1. CaptureTypeOK /\ LastCaptured
  BY DEF CaptureInv
<1> DEFINE new == IF state.pc = "lastFlush" THEN {Post("end", <<>>, others)} ELSE {}
           pc == IF state.pc = "flushing" THEN "looping"
                 ELSE IF state.pc = "ending" THEN "gone" ELSE "ending"
<1>2. 1 \in 0..Retries
  BY CaptureAssumption
<1>3. /\ agent' \in Agent /\ agent'.pc = pc /\ (~agent'.dropped => ~agent.dropped)
      /\ agent'.buffer = state.buffer /\ agent'.batch = <<>> /\ agent'.captured = agent.captured
  BY <1>2 DEF Proceed, SendEnd, Agent
<1>4. posts' = others \cup new
  BY DEF Proceed, SendEnd
<1>5. /\ agent.pc \in {"flushing", "lastFlush", "ending"}
      /\ \/ pc = "looping" /\ agent.pc = "flushing"
         \/ pc = "gone" /\ agent.pc = "ending"
         \/ pc = "ending" /\ agent.pc = "lastFlush"
  BY DEF Proceed
<1>6. Len(state.buffer) \in Nat /\ Len(<<>>) = 0
  BY LenProperties DEF Agent
<1>7. Captured' = Captured /\ Taken' = 0 /\ Waits' = Len(state.buffer)
  BY <1>3 DEF Captured, Taken, Waits
<1>8. Captured \in Nat
  BY <1>1, Counted
<1>9. Sent' = n
  <2> DEFINE w == Len(state.buffer)
  <2>1. w \in Nat /\ n + w = Captured /\ Taken' = 0 /\ Waits' = w
    BY <1>6, <1>7
  <2> HIDE DEF w
  <2>2. n + 0 + w = Captured
    BY <2>1
  <2> QED
    BY <1>7, <1>8, <2>1, <2>2, SentIs
<1>10. Reached' = n
  BY <1>7, <1>9 DEF Reached
<1>11. LastCaptured'
  <2>1. Follows(agent'.batch, n) /\ Follows(agent'.buffer, n)
    BY <1>3, <1>6 DEF Follows
  <2> QED
    BY <1>3, <1>5, <1>7, <1>9, <2>1 DEF LastCaptured, Flushing
<1>12. LastIsFull'
  BY <1>3, <1>5, <1>9 DEF LastIsFull
<1>13. \A q \in new : Fresh(q)
  BY <1>3, <1>5, FreshEnd
<1>14. \A q, r \in new : q = r
  OBVIOUS
<1> HIDE DEF new, pc
<1> QED
  BY <1>3, <1>4, <1>9, <1>10, <1>11, <1>12, <1>13, <1>14, MovesOn DEF Agent

\* The agent goes on with no new post.
LEMMA GoesOn ==
  ASSUME CaptureInv, recording' = recording, NEW others, Left(others), posts' = others,
         agent' \in Agent, agent'.buffer = agent.buffer, agent'.batch = <<>>,
         agent'.captured = agent.captured, agent'.pc \in {"looping", "gone"},
         agent'.pc = "gone" => faults' # 0 \/ agent.buffer = <<>>,
         ~agent'.dropped => ~agent.dropped /\ agent.batch = <<>>,
         faults' = 0 => /\ faults = 0
                        /\ \A q, r \in others : q # r => Pending(q) \cap Pending(r) = {},
         faults' = 0 /\ ~agent'.dropped => \A q \in others : q.op # "ingest"
  PROVE  CaptureInv'
<1>1. CaptureTypeOK /\ LastCaptured /\ NoGap
  BY DEF CaptureInv
<1>2. /\ Captured \in Nat /\ Sent \in Nat /\ Taken \in Nat /\ Waits \in Nat
      /\ Sent + Taken + Waits = Captured
  BY <1>1, Counted
<1>3. Captured' = Captured /\ Taken' = 0 /\ Waits' = Waits
  BY DEF Captured, Taken, Waits
<1>4. Reached \in Nat /\ Reached + 0 + Waits = Captured
  BY <1>2 DEF Reached
<1>5. Sent' = Reached
  BY <1>2, <1>3, <1>4, SentIs
<1>6. Reached' = Reached
  BY <1>3, <1>4, <1>5 DEF Reached
<1>7. LastCaptured'
  <2>1. Follows(agent'.batch, Reached) /\ Follows(agent'.buffer, Reached)
    BY <1>1 DEF LastCaptured, Follows, Reached
  <2> QED
    BY <1>3, <1>4, <1>5, <2>1 DEF LastCaptured, Flushing
<1>8. LastIsFull'
  BY DEF LastIsFull
<1>9. ~agent'.dropped => \A e \in 1..Sent' : Rows(e) > 0
  <2>1. agent.batch = <<>> => Reached = Sent
    BY <1>2 DEF Reached, Taken
  <2> QED
    BY <1>1, <1>5, <2>1 DEF NoGap
<1> DEFINE new == {}
<1>10. posts' = others \cup new /\ (\A q \in new : Fresh(q)) /\ \A q, r \in new : q = r
  OBVIOUS
<1> HIDE DEF new
<1>11. Reached <= Reached
  BY <1>4
<1> QED
  BY <1>4, <1>6, <1>7, <1>8, <1>9, <1>10, <1>11, MovesOn DEF Agent

LEMMA ReturnedKeeps ==
  ASSUME CaptureInv, Returned
  PROVE  CaptureInv'
<1>1. CaptureTypeOK /\ LastCaptured /\ PostsFit /\ NoGap /\ OnePlace /\ LastIsFull /\ CountBehind
  BY DEF CaptureInv
<1>2. recording' = recording /\ faults' = faults
  BY DEF Returned, Capturing, NoFault, serviceVars
<1>3. PICK p \in posts : p.live /\ p.stage = "done"
  BY DEF Returned, Waiting
<1> DEFINE others == posts \ Waiting
<1>4. Left(others)
  BY <1>1 DEF Left, Waiting, PostsFit
<1>5. faults = 0 => \A q, r \in others : q # r => Pending(q) \cap Pending(r) = {}
  BY <1>1 DEF OnePlace
<1>6. faults = 0 /\ ~agent.dropped => \A q \in others : q.op # "ingest"
  BY <1>1 DEF CountBehind, Waiting
<1> HIDE DEF others
<1>7. CASE agent.pc = "creating"
  <2>1. agent' = [agent EXCEPT !.pc = "looping"] /\ posts' = others
    BY <1>7 DEF Returned, Proceed, others
  <2>2. agent.batch = <<>>
    BY <1>1, <1>7 DEF LastCaptured, Flushing
  <2>3. /\ agent' \in Agent /\ agent'.buffer = agent.buffer /\ agent'.batch = <<>>
        /\ agent'.captured = agent.captured /\ agent'.pc = "looping"
        /\ ~agent'.dropped => ~agent.dropped
    BY <1>1, <2>1, <2>2 DEF CaptureTypeOK, Agent
  <2> QED
    BY <1>2, <1>4, <1>5, <1>6, <2>1, <2>2, <2>3, GoesOn
<1>8. CASE agent.pc # "creating"
  <2> DEFINE state == [agent EXCEPT !.batch = <<>>]
  <2>1. Proceed(state, others)
    BY <1>8 DEF Returned, others
  <2>2. /\ state \in Agent /\ state.pc = agent.pc /\ state.captured = agent.captured
        /\ ~state.dropped <=> ~agent.dropped
        /\ state.batch = <<>> /\ state.buffer = agent.buffer
    <3>1. agent \in Agent /\ <<>> \in Seq(Events)
      BY <1>1 DEF CaptureTypeOK, Agent
    <3>2. state \in Agent
      BY <3>1 DEF Agent
    <3>3. /\ state.pc = agent.pc /\ state.captured = agent.captured
          /\ state.batch = <<>> /\ state.buffer = agent.buffer
      BY <3>1 DEF Agent
    <3>4. ~state.dropped <=> ~agent.dropped
      BY <3>1 DEF Agent
    <3> QED
      BY <3>2, <3>3, <3>4
  <2> HIDE DEF state
  <2>3. agent.pc \in {"flushing", "ending", "lastFlush"}
    BY <2>1, <2>2 DEF Proceed
  <2>4. /\ Sent \in Nat /\ Taken \in Nat /\ Reached \in Nat /\ Reached = Sent + Taken
        /\ Reached + Waits = Captured
    BY <1>1, Counted DEF Reached
  <2>5. Reached + Len(state.buffer) = Captured /\ Follows(state.buffer, Reached)
    BY <1>1, <2>2, <2>4 DEF LastCaptured, Waits
  <2>6. ASSUME ~agent.dropped, NEW e \in 1..Reached
        PROVE  Rows(e) > 0
    <3>1. CASE e <= Sent
      BY <1>1, <2>4, <2>6, <3>1 DEF NoGap
    <3>2. CASE e > Sent
      <4>1. Flushing
        BY <1>1, <2>4, <3>2 DEF LastCaptured, Taken
      <4>2. p.op = "ingest" /\ p.events = agent.batch
        BY <1>1, <1>3, <4>1 DEF PostsFit, Flushing
      <4>3. agent.batch \in Seq(Events) /\ Follows(agent.batch, Sent) /\ Taken = Len(agent.batch)
        BY <1>1 DEF CaptureTypeOK, LastCaptured, Taken
      <4>4. InSeq(e, agent.batch)
        BY <2>4, <3>2, <4>3, InFollows
      <4> QED
        BY <1>1, <1>3, <4>2, <4>4 DEF PostsFit, InSeq
    <3> QED
      BY <2>4, <3>1, <3>2
  <2>7. ASSUME faults' = 0, state.buffer # <<>>, agent.pc \in {"lastFlush", "ending"}
        PROVE  Reached >= BatchCap
    <3>1. BatchCap \in Nat
      BY CaptureAssumption
    <3>2. CASE agent.pc = "lastFlush"
      BY <1>1, <1>2, <2>2, <2>4, <2>7, <3>1, <3>2 DEF LastIsFull, Taken
    <3>3. CASE agent.pc = "ending"
      BY <1>1, <1>2, <2>2, <2>4, <2>7, <3>1, <3>3 DEF LastIsFull
    <3> QED
      BY <2>7, <3>2, <3>3
  <2>8. Reached <= Reached
    BY <2>4
  <2> QED
    BY <1>2, <1>4, <1>5, <1>6, <2>1, <2>2, <2>4, <2>5, <2>6, <2>7, <2>8, ProceedKeeps
<1> QED
  BY <1>7, <1>8

LEMMA CancelAgentKeeps ==
  ASSUME CaptureInv, CancelAgent
  PROVE  CaptureInv'
<1>1. CaptureTypeOK /\ LastCaptured /\ PostsFit /\ NoGap /\ OnePlace /\ LastIsFull /\ CountBehind
  BY DEF CaptureInv
<1> DEFINE others == {[p EXCEPT !.live = FALSE] : p \in {q \in posts : q.stage # "done"}}
<1>2. /\ recording' = recording /\ faults' = faults /\ posts' = others
      /\ agent.pc \in {"creating", "looping", "flushing"}
      /\ agent' = [agent EXCEPT !.pc = IF @ = "creating" THEN "gone" ELSE "looping",
                                !.stopping = TRUE, !.batch = <<>>,
                                !.dropped = (@ \/ agent.pc = "flushing")]
  BY DEF CancelAgent, Capturing, NoFault, serviceVars
<1>3. ASSUME NEW q \in others
      PROVE  \E o \in posts : /\ q = [o EXCEPT !.live = FALSE] /\ o.stage # "done"
                              /\ Pending(q) = Pending(o) /\ q.op = o.op
                              /\ ~q.live /\ q.stage # "done"
  <2>1. PICK o \in posts : q = [o EXCEPT !.live = FALSE] /\ o.stage # "done"
    OBVIOUS
  <2>2. q.events = o.events /\ q.stage = o.stage /\ q.op = o.op /\ ~q.live
    BY <1>1, <2>1 DEF PostsFit, IsPost
  <2>3. Pending(q) = Pending(o)
    BY <2>2 DEF Pending
  <2> HIDE DEF others
  <2> QED
    BY <2>1, <2>2, <2>3
<1> HIDE DEF others
<1>4. Left(others)
  BY <1>3 DEF Left
<1>5. faults = 0 => \A q, r \in others : q # r => Pending(q) \cap Pending(r) = {}
  BY <1>1, <1>3 DEF OnePlace
<1>6. /\ agent' \in Agent /\ agent'.buffer = agent.buffer /\ agent'.batch = <<>>
      /\ agent'.captured = agent.captured
      /\ agent'.pc = IF agent.pc = "creating" THEN "gone" ELSE "looping"
      /\ ~agent'.dropped => ~agent.dropped /\ agent.pc # "flushing"
  <2>1. agent \in Agent
    BY <1>1 DEF CaptureTypeOK, Agent
  <2>2. <<>> \in Seq(Events)
    OBVIOUS
  <2>3. (agent.dropped \/ agent.pc = "flushing") \in BOOLEAN
    OBVIOUS
  <2> QED
    BY <1>2, <2>1, <2>2, <2>3 DEF Agent
<1>7. agent.pc # "flushing" => agent.batch = <<>>
  BY <1>1, <1>2 DEF LastCaptured, Flushing
<1>8. faults = 0 /\ ~agent'.dropped => \A q \in others : q.op # "ingest"
  BY <1>1, <1>2, <1>3, <1>6 DEF CountBehind, PostsFit, Flushing
<1>9. agent.pc = "creating" => agent.buffer = <<>>
  BY <1>1 DEF LastCaptured
<1> QED
  BY <1>2, <1>4, <1>5, <1>6, <1>7, <1>8, <1>9, GoesOn

----------------------------------------------------------------------------
(* Calls that fail                                                          *)

\* The posts that a failed call leaves.
LEMMA RaiseKeeps ==
  ASSUME CaptureInv, recording' = recording, faults \in Nat, faults' = faults + 1,
         NEW others, Left(others), Raise(others)
  PROVE  CaptureInv'
<1>1. CaptureTypeOK /\ LastCaptured /\ NoGap
  BY DEF CaptureInv
<1>2. faults' # 0
  OBVIOUS
<1>3. agent \in Agent
  BY <1>1 DEF CaptureTypeOK, Agent
<1>4. CASE agent.pc = "creating" /\ agent' = [agent EXCEPT !.pc = "gone"] /\ posts' = others
  <2>1. /\ agent' \in Agent /\ agent'.pc = "gone" /\ agent'.buffer = agent.buffer
        /\ agent'.batch = agent.batch /\ agent'.captured = agent.captured
    BY <1>3, <1>4 DEF Agent
  <2>2. ~agent'.dropped => ~agent.dropped
    BY <1>3, <1>4 DEF Agent
  <2>3. agent.batch = <<>>
    BY <1>1, <1>4 DEF LastCaptured, Flushing
  <2> QED
    BY <1>2, <1>4, <2>1, <2>2, <2>3, GoesOn
<1>5. CASE Proceed(PutBack(agent), others)
  <2> DEFINE state == PutBack(agent)
  <2>1. agent.batch \in Seq(Events) /\ agent.buffer \in Seq(Events) /\ <<>> \in Seq(Events)
    BY <1>3 DEF Agent
  <2>2. Follows(agent.batch, Sent) /\ Follows(agent.buffer, Sent + Taken)
    BY <1>1 DEF LastCaptured
  <2>3. Sent \in Nat /\ Taken \in Nat /\ Waits \in Nat /\ Sent + Taken + Waits = Captured
    BY <1>1, Counted
  <2> DEFINE b == agent.batch \o agent.buffer
  <2>4. b \in Seq(Events) /\ Len(b) = Taken + Waits /\ Follows(b, Sent)
    BY <2>1, <2>2, <2>3, FollowsConcat DEF Taken, Waits
  <2>5. state = [agent EXCEPT !.buffer = b, !.batch = <<>>]
    BY <1>3 DEF PutBack, Agent
  <2> HIDE DEF b, state
  <2>6. /\ state \in Agent /\ state.pc = agent.pc /\ state.captured = agent.captured
        /\ state.batch = <<>> /\ state.buffer = b
    BY <1>3, <2>1, <2>4, <2>5 DEF Agent
  <2>7. ~state.dropped <=> ~agent.dropped
    BY <1>3, <2>5 DEF Agent
  <2>8. Sent + Len(b) = Captured
    BY <2>3, <2>4
  <2>9. Proceed(state, others)
    BY <1>5 DEF state
  <2>10. ~agent.dropped => \A e \in 1..Sent : Rows(e) > 0
    BY <1>1 DEF NoGap
  <2> QED
    BY <1>2, <2>3, <2>4, <2>6, <2>7, <2>8, <2>9, <2>10, ProceedKeeps
<1> QED
  BY <1>4, <1>5 DEF Raise

LEMMA RetryKeeps ==
  ASSUME CaptureInv, recording' = recording, faults \in Nat, faults' = faults + 1,
         NEW p \in Waiting, NEW others, Left(others), Retry(p, others)
  PROVE  CaptureInv'
<1>1. CaptureTypeOK /\ LastCaptured /\ PostsFit /\ NoGap
  BY DEF CaptureInv
<1>2. faults' # 0
  OBVIOUS
<1>3. agent \in Agent /\ p \in posts /\ p.live
  BY <1>1 DEF CaptureTypeOK, Agent, Waiting
<1>4. CASE agent.tries < Retries
  <2> DEFINE q == Post(p.op, p.events, others)
             new == {q}
  <2>1. agent' = [agent EXCEPT !.tries = @ + 1] /\ posts' = others \cup new
    BY <1>4 DEF Retry
  <2>2. agent.tries + 1 \in 0..Retries
    BY <1>3, <1>4, CaptureAssumption DEF Agent
  <2>3. /\ agent' \in Agent /\ agent'.pc = agent.pc /\ agent'.buffer = agent.buffer
        /\ agent'.batch = agent.batch /\ agent'.captured = agent.captured
    BY <1>3, <2>1, <2>2 DEF Agent
  <2>4. ~agent'.dropped => ~agent.dropped
    BY <1>3, <2>1 DEF Agent
  <2>5. /\ IsPost(q) /\ q.op = p.op /\ q.events = p.events
        /\ q.stage = "sent" /\ q.count = 0 /\ q.live = TRUE /\ q.live \in BOOLEAN
    BY PostShape
  <2> HIDE DEF q
  <2>6. Fresh(q)
    <3>1. p.op \in {"create", "ingest", "end"} /\ p.events \in Seq(Events)
      BY <1>1, <1>3 DEF CaptureTypeOK
    <3>2. IF p.op = "ingest" THEN Flushing' /\ p.events = agent'.batch
                             ELSE agent'.pc \in {"creating", "ending"}
      BY <1>1, <1>3, <2>3 DEF PostsFit, Flushing
    <3>3. ~agent.dropped => \A i \in DOMAIN p.events : \A d \in 1..p.events[i] :
            Rows(d) > 0 \/ InSeq(d, p.events)
      BY <1>1, <1>3 DEF NoGap
    <3> QED
      BY <1>2, <2>4, <2>5, <3>1, <3>2, <3>3 DEF Fresh
  <2>7. (\A r \in new : Fresh(r)) /\ \A r, t \in new : r = t
    BY <2>6
  <2> HIDE DEF new
  <2>8. Captured' = Captured /\ Taken' = Taken /\ Waits' = Waits
    BY <2>3 DEF Captured, Taken, Waits
  <2>9. Sent' = Sent /\ Reached' = Reached
    BY <2>8 DEF Sent, Reached
  <2>10. Reached \in Nat
    BY <1>1, Counted DEF Reached
  <2>11. LastCaptured' /\ LastIsFull'
    BY <1>1, <1>2, <2>3, <2>8, <2>9 DEF LastCaptured, LastIsFull, Flushing
  <2>12. ~agent'.dropped => ~agent.dropped /\ \A e \in 1..Sent' : Rows(e) > 0
    BY <1>1, <2>4, <2>9 DEF NoGap
  <2> QED
    BY <1>2, <2>1, <2>3, <2>7, <2>9, <2>10, <2>11, <2>12, MovesOn DEF Agent
<1>5. CASE ~(agent.tries < Retries)
  BY <1>5, RaiseKeeps DEF Retry
<1> QED
  BY <1>4, <1>5

\* What is left of the posts if the one that was waited for is given up.
LEMMA GivenUp ==
  ASSUME CaptureInv, NEW p \in Waiting
  PROVE  /\ Left(posts \ {p})
         /\ p.stage # "done" => Left((posts \ {p}) \cup {[p EXCEPT !.live = FALSE]})
<1>1. CaptureTypeOK /\ PostsFit /\ p \in posts /\ p.live
  BY DEF CaptureInv, Waiting
<1>2. \A q \in posts \ {p} : ~q.live /\ q.stage # "done"
  BY <1>1 DEF CaptureTypeOK, PostsFit
<1>3. Left(posts \ {p})
  BY <1>2 DEF Left
<1> DEFINE d == [p EXCEPT !.live = FALSE]
<1>4. ~d.live /\ d.stage = p.stage
  BY <1>1 DEF PostsFit, IsPost
<1>5. \E o \in posts : d = o \/ d = [o EXCEPT !.live = FALSE]
  BY <1>1
<1> HIDE DEF d
<1>6. p.stage # "done" => Left((posts \ {p}) \cup {d})
  BY <1>2, <1>4, <1>5 DEF Left
<1> QED
  BY <1>3, <1>6 DEF d

LEMMA FailureKeeps ==
  ASSUME CaptureInv, faults \in Nat, PostFails \/ PostTimesOut \/ PostRejected
  PROVE  CaptureInv'
<1>1. recording' = recording /\ faults' = faults + 1
  BY DEF PostFails, PostTimesOut, PostRejected, Fault
<1>2. CASE PostFails
  BY <1>1, <1>2, RetryKeeps, GivenUp DEF PostFails
<1>3. CASE PostTimesOut
  <2>1. PICK p \in Waiting :
          Retry(p, (posts \ {p}) \cup (IF p.stage = "done" THEN {}
                                       ELSE {[p EXCEPT !.live = FALSE]}))
    BY <1>3 DEF PostTimesOut
  <2> DEFINE others == (posts \ {p}) \cup (IF p.stage = "done" THEN {}
                                           ELSE {[p EXCEPT !.live = FALSE]})
  <2>2. Left(others)
    <3>1. CASE p.stage = "done"
      <4>1. others = posts \ {p}
        BY <3>1
      <4> QED
        BY <4>1, GivenUp
    <3>2. CASE p.stage # "done"
      <4>1. others = (posts \ {p}) \cup {[p EXCEPT !.live = FALSE]}
        BY <3>2
      <4> QED
        BY <3>2, <4>1, GivenUp
    <3> QED
      BY <3>1, <3>2
  <2>3. Retry(p, others)
    BY <2>1
  <2> HIDE DEF others
  <2> QED
    BY <1>1, <2>2, <2>3, RetryKeeps
<1>4. CASE PostRejected
  BY <1>1, <1>4, RaiseKeeps, GivenUp DEF PostRejected
<1> QED
  BY <1>2, <1>3, <1>4

----------------------------------------------------------------------------
(* The server's steps                                                       *)

\* What the steps share that serve one post and leave the agent alone.
LEMMA ServedKeeps ==
  ASSUME CaptureInv, agent' = agent, faults' = faults, NEW p \in posts, p.stage # "done",
         NEW new, posts' = (posts \ {p}) \cup new,
         \A q \in new : /\ IsPost(q) /\ q.op = p.op /\ q.events = p.events
                        /\ q.stage \in {"read", "done"} /\ q.count \in Nat
                        /\ q.live \in BOOLEAN /\ (q.live => p.live)
                        /\ q.stage = "done" => q.live,
         \A q, r \in new : q = r,
         recording' \in [rows : [Events -> Nat], size : Nat, count : Nat, ended : BOOLEAN],
         \A e \in Events : Rows(e)' >= Rows(e),
         recording'.size >= recording.size,
         \A q \in new : q.stage = "done" /\ q.op = "ingest" =>
            \A i \in DOMAIN q.events : Rows(q.events[i])' > 0,
         \A q \in new : q.stage = "read" => q.op = "ingest" /\ q.count <= recording'.size,
         \A e \in Events : Rows(e)' > 0 =>
            \/ Rows(e) > 0
            \/ InSeq(e, p.events) /\ \A d \in Events : InSeq(d, p.events) => Rows(d)' > 0,
         faults = 0 => \A e \in Events :
            /\ e \notin Pending(p) => Rows(e)' = Rows(e)
            /\ e \in Pending(p) => /\ Rows(e)' <= 1
                                   /\ Rows(e)' > 0 => \A q \in new : q.stage = "done",
         CountBehind'
  PROVE  CaptureInv'
<1>1. CaptureTypeOK /\ LastCaptured /\ PostsFit /\ NoGap /\ OnePlace /\ LastIsFull /\ CountBehind
  BY DEF CaptureInv
<1>2. Captured' = Captured /\ Taken' = Taken /\ Waits' = Waits
  BY DEF Captured, Taken, Waits
<1>3. Sent' = Sent /\ Reached' = Reached
  BY <1>2 DEF Sent, Reached
<1>4. CaptureTypeOK'
  <2>1. p.op \in {"create", "ingest", "end"} /\ p.events \in Seq(Events) /\ p.live \in BOOLEAN
    BY <1>1 DEF CaptureTypeOK
  <2>2. \A q \in posts' :
           /\ q.op \in {"create", "ingest", "end"} /\ q.events \in Seq(Events)
           /\ q.stage \in {"sent", "read", "done"} /\ q.count \in Nat /\ q.live \in BOOLEAN
    BY <1>1, <2>1 DEF CaptureTypeOK
  <2>3. \A q, r \in posts' : q.live /\ r.live => q = r
    BY <1>1 DEF CaptureTypeOK
  <2> QED
    BY <1>1, <2>2, <2>3 DEF CaptureTypeOK
<1>5. LastCaptured' /\ LastIsFull'
  BY <1>1, <1>2, <1>3 DEF LastCaptured, LastIsFull, Flushing
<1>6. PostsFit'
  <2>1. ASSUME NEW q \in posts'
        PROVE  /\ IsPost(q)
               /\ q.live => IF q.op = "ingest" THEN Flushing /\ q.events = agent.batch
                                               ELSE agent.pc \in {"creating", "ending"}
               /\ q.stage = "done" => q.live
    BY <1>1 DEF PostsFit
  <2>2. ASSUME NEW q \in posts', q.stage = "read"
        PROVE  q.op = "ingest" /\ q.count <= recording'.size
    <3>1. recording.size \in Nat /\ recording'.size \in Nat /\ recording'.size >= recording.size
      BY <1>1 DEF CaptureTypeOK
    <3>2. CASE q \in posts
      <4>1. q.op = "ingest" /\ q.count <= recording.size /\ q.count \in Nat
        BY <1>1, <2>2, <3>2 DEF PostsFit, CaptureTypeOK
      <4> QED
        BY <3>1, <4>1
    <3> QED
      BY <2>2, <3>2
  <2>3. ASSUME NEW q \in posts', q.stage = "done", q.op = "ingest", NEW i \in DOMAIN q.events
        PROVE  Rows(q.events[i])' > 0
    <3>1. CASE q \in posts
      <4>1. q.events[i] \in Events /\ Rows(q.events[i]) > 0
        BY SMTT(20), <1>1, <2>3, <3>1, ElementOfSeq, LenProperties DEF PostsFit, CaptureTypeOK
      <4> DEFINE e == q.events[i]
      <4>2. Rows(e) \in Nat /\ Rows(e)' \in Nat
        BY <1>1, <4>1 DEF CaptureTypeOK, Rows
      <4>3. Rows(e)' >= Rows(e) /\ Rows(e) > 0
        BY <4>1
      <4> HIDE DEF e
      <4>4. Rows(e)' > 0
        BY <4>2, <4>3
      <4> QED
        BY <4>4 DEF e
    <3> QED
      BY <2>3, <3>1
  <2> QED
    BY <2>1, <2>2, <2>3 DEF PostsFit, IsPost, Flushing
<1>7. \A e \in Events : Rows(e) \in Nat /\ Rows(e)' \in Nat /\ (Rows(e) > 0 => Rows(e)' > 0)
  <2>1. \A e \in Events : Rows(e) \in Nat /\ Rows(e)' \in Nat
    BY <1>1 DEF CaptureTypeOK, Rows
  <2> QED
    BY <2>1
<1>8. \A q \in posts : \A i \in DOMAIN q.events : q.events[i] \in Events
  BY <1>1, ElementOfSeq, LenProperties DEF CaptureTypeOK
<1>9. \A e \in Events : e \in Nat /\ \A d \in 1..e : d \in Events
  BY CaptureAssumption DEF Events
<1>10. NoGap'
  <2> SUFFICES ASSUME ~agent.dropped
               PROVE  NoGap'
    BY DEF NoGap
  <2>1. /\ \A e \in 1..Sent : Rows(e) > 0
        /\ \A e \in Events : \A d \in 1..e : Rows(e) > 0 => Rows(d) > 0
        /\ \A q \in posts : \A i \in DOMAIN q.events : \A d \in 1..q.events[i] :
             Rows(d) > 0 \/ InSeq(d, q.events)
    BY <1>1 DEF NoGap
  <2>2. \A e \in 1..Sent : e \in Events
    <3>1. Sent \in Nat /\ Sent <= MaxCaptured /\ MaxCaptured \in Nat
      BY <1>1, Counted
    <3> QED
      BY <3>1 DEF Events
  <2>3. \A e \in 1..Sent : Rows(e)' > 0
    BY <1>7, <2>1, <2>2
  <2>4. ASSUME NEW e \in Events, NEW d \in 1..e, Rows(e)' > 0
        PROVE  Rows(d)' > 0
    <3>1. d \in Events
      BY <1>9
    <3>2. CASE Rows(e) > 0
      BY <1>7, <2>1, <3>1, <3>2
    <3>3. CASE InSeq(e, p.events) /\ \A c \in Events : InSeq(c, p.events) => Rows(c)' > 0
      BY <1>7, <2>1, <3>1, <3>3 DEF InSeq
    <3> QED
      BY <2>4, <3>2, <3>3
  <2>5. ASSUME NEW q \in posts', NEW i \in DOMAIN q.events, NEW d \in 1..q.events[i]
        PROVE  Rows(d)' > 0 \/ InSeq(d, q.events)
    <3>1. PICK o \in posts : o.events = q.events
      OBVIOUS
    <3>2. d \in Events
      BY <1>8, <1>9, <3>1
    <3> QED
      BY <1>7, <2>1, <3>1, <3>2
  <2> QED
    BY <1>3, <2>3, <2>4, <2>5 DEF NoGap, InSeq
<1>11. OnePlace'
  <2> SUFFICES ASSUME faults = 0
               PROVE  OnePlace'
    BY DEF OnePlace
  <2>1. /\ \A e \in Events : Rows(e) <= 1 /\ (Rows(e) > 0 => e <= Reached)
        /\ \A q \in posts : /\ \A e \in Pending(q) : e <= Reached /\ Rows(e) = 0
                            /\ \A i, j \in DOMAIN q.events : q.events[i] = q.events[j] => i = j
        /\ \A q, r \in posts : q # r => Pending(q) \cap Pending(r) = {}
    BY <1>1 DEF OnePlace
  <2>2. \A e \in Events : /\ e \notin Pending(p) => Rows(e)' = Rows(e)
                          /\ e \in Pending(p) => Rows(e)' <= 1
    OBVIOUS
  <2>3. \A e \in Events : Rows(e)' <= 1 /\ (Rows(e)' > 0 => e <= Reached)
    BY <2>1, <2>2
  <2>4. \A q \in posts : \A e \in Pending(q) : e \in Events
    BY <1>8 DEF Pending
  <2>5. \A q \in new : Pending(q) \subseteq Pending(p) /\ (q.stage = "done" => Pending(q) = {})
    BY DEF Pending
  <2>6. ASSUME NEW q \in posts'
        PROVE  /\ \A e \in Pending(q) : e <= Reached /\ Rows(e)' = 0
               /\ \A i, j \in DOMAIN q.events : q.events[i] = q.events[j] => i = j
    <3>1. CASE q \in posts \ {p}
      BY <2>1, <2>2, <2>4, <3>1
    <3>2. CASE q \in new
      <4>1. ASSUME NEW e \in Pending(q)
            PROVE  e <= Reached /\ Rows(e)' = 0
        <5>1. e \in Events /\ e \in Pending(p) /\ q.stage # "done"
          BY <2>4, <2>5, <3>2
        <5>2. ~(Rows(e)' > 0)
          BY <3>2, <5>1
        <5>3. Rows(e)' \in Nat
          BY <1>7, <5>1
        <5>4. Rows(e)' = 0
          BY <5>2, <5>3
        <5> QED
          BY <2>1, <5>1, <5>4
      <4> QED
        BY <2>1, <3>2, <4>1
    <3> QED
      BY <3>1, <3>2
  <2>7. \A q, r \in posts' : q # r => Pending(q) \cap Pending(r) = {}
    BY <2>1, <2>5
  <2> QED
    BY SMTT(20), <1>3, <2>3, <2>6, <2>7 DEF OnePlace, Pending
<1> QED
  BY <1>4, <1>5, <1>6, <1>10, <1>11 DEF CaptureInv

\* What comes of a post that has been served.
LEMMA Answered ==
  ASSUME CaptureInv, NEW p \in posts, Served(p)
  PROVE  LET new == IF p.live THEN {[p EXCEPT !.stage = "done"]} ELSE {}
         IN  /\ posts' = (posts \ {p}) \cup new
             /\ \A q \in new : /\ IsPost(q) /\ q.op = p.op /\ q.events = p.events
                               /\ q.stage = "done" /\ q.count = p.count /\ q.count \in Nat
                               /\ q.live \in BOOLEAN /\ q.live /\ p.live
             /\ \A q, r \in new : q = r
<1>1. IsPost(p) /\ p.count \in Nat /\ p.live \in BOOLEAN
  BY DEF CaptureInv, CaptureTypeOK, PostsFit
<1> DEFINE d == [p EXCEPT !.stage = "done"]
<1>2. ASSUME p.live
      PROVE  /\ IsPost(d) /\ d.op = p.op /\ d.events = p.events /\ d.stage = "done"
             /\ d.count = p.count /\ d.live \in BOOLEAN /\ d.live
  <2>1. IsPost(d)
    BY <1>1 DEF IsPost
  <2>2. /\ d.op = p.op /\ d.events = p.events /\ d.stage = "done" /\ d.count = p.count
    BY <1>1 DEF IsPost
  <2>3. d.live \in BOOLEAN
    BY <1>1 DEF IsPost
  <2>4. d.live
    BY <1>1, <1>2 DEF IsPost
  <2> QED
    BY <2>1, <2>2, <2>3, <2>4
<1> HIDE DEF d
<1> DEFINE new == IF p.live THEN {d} ELSE {}
<1>3. posts' = (posts \ {p}) \cup new
  BY DEF Served, d
<1>4. /\ \A q \in new : /\ IsPost(q) /\ q.op = p.op /\ q.events = p.events
                        /\ q.stage = "done" /\ q.count = p.count /\ q.count \in Nat
                        /\ q.live \in BOOLEAN /\ q.live /\ p.live
      /\ \A q, r \in new : q = r
  BY <1>1, <1>2
<1> QED
  BY <1>3, <1>4 DEF d

LEMMA IngestLoadKeeps ==
  ASSUME CaptureInv, agent' = agent, faults' = faults, recording' = recording,
         NEW p \in posts, IngestLoad(p)
  PROVE  CaptureInv'
<1>1. CaptureTypeOK /\ PostsFit /\ OnePlace /\ CountBehind
  BY DEF CaptureInv
<1> DEFINE c == recording.count
           d == [p EXCEPT !.stage = "read", !.count = c]
           new == {d}
<1>2. p.op = "ingest" /\ p.stage = "sent" /\ posts' = (posts \ {p}) \cup new
  BY DEF IngestLoad
<1>3. IsPost(p) /\ c \in Nat /\ recording.size \in Nat /\ p.live \in BOOLEAN
  BY <1>1 DEF PostsFit, CaptureTypeOK
<1>11. c = recording.count
  OBVIOUS
<1> HIDE DEF c
<1>4. /\ IsPost(d) /\ d.op = p.op /\ d.events = p.events /\ d.stage = "read"
      /\ d.count = c /\ d.live \in BOOLEAN /\ (d.live => p.live)
      /\ (p.live => d.live)
  <2>1. IsPost(d)
    BY <1>3 DEF IsPost
  <2>2. /\ d.op = p.op /\ d.events = p.events /\ d.stage = "read" /\ d.count = c
    BY <1>3 DEF IsPost
  <2>3. d.live \in BOOLEAN
    BY <1>3 DEF IsPost
  <2>4. (d.live => p.live) /\ (p.live => d.live)
    BY <1>3 DEF IsPost
  <2> QED
    BY <2>1, <2>2, <2>3, <2>4
<1> HIDE DEF d
<1>5. \A q \in new : /\ IsPost(q) /\ q.op = p.op /\ q.events = p.events
                     /\ q.stage \in {"read", "done"} /\ q.count \in Nat
                     /\ q.live \in BOOLEAN /\ (q.live => p.live)
                     /\ (q.stage = "done" => q.live)
                     /\ q.stage # "done"
                     /\ (q.stage = "read" => q.op = "ingest" /\ q.count <= recording.size)
  BY <1>1, <1>2, <1>3, <1>4, <1>11 DEF CountBehind
<1>6. \A q, r \in new : q = r
  OBVIOUS
<1>7. recording' \in [rows : [Events -> Nat], size : Nat, count : Nat, ended : BOOLEAN]
  BY <1>1 DEF CaptureTypeOK
<1>8. /\ \A e \in Events : Rows(e)' = Rows(e) /\ Rows(e) \in Nat
      /\ recording'.size >= recording.size /\ recording'.size = recording.size
  BY <1>1, <1>3 DEF Rows, CaptureTypeOK
<1>9. /\ \A e \in Events : Rows(e)' >= Rows(e)
      /\ faults = 0 => \A e \in Events :
           /\ e \notin Pending(p) => Rows(e)' = Rows(e)
           /\ e \in Pending(p) => Rows(e)' <= 1 /\ ~(Rows(e)' > 0)
  BY <1>1, <1>8 DEF OnePlace
<1>10. CountBehind'
  BY <1>1, <1>2, <1>4, <1>11 DEF CountBehind
<1> HIDE DEF new
<1> QED
  BY <1>2, <1>5, <1>6, <1>7, <1>8, <1>9, <1>10, ServedKeeps

\* The recording is created or ended.
LEMMA RowsStayKeeps ==
  ASSUME CaptureInv, agent' = agent, faults' = faults, NEW p \in posts,
         (CreateRecording(p) /\ recording' = recording) \/ EndRecording(p)
  PROVE  CaptureInv'
<1>1. CaptureTypeOK /\ PostsFit /\ OnePlace /\ CountBehind
  BY DEF CaptureInv
<1>2. Served(p) /\ p.stage = "sent" /\ p.op \in {"create", "end"}
  BY DEF CreateRecording, EndRecording
<1> DEFINE new == IF p.live THEN {[p EXCEPT !.stage = "done"]} ELSE {}
<1>3. /\ posts' = (posts \ {p}) \cup new
      /\ \A q \in new : /\ IsPost(q) /\ q.op = p.op /\ q.events = p.events
                        /\ q.stage = "done" /\ q.count = p.count /\ q.count \in Nat
                        /\ q.live \in BOOLEAN /\ q.live /\ p.live
      /\ \A q, r \in new : q = r
  BY <1>2, Answered
<1> HIDE DEF new
<1>4. recording' \in [rows : [Events -> Nat], size : Nat, count : Nat, ended : BOOLEAN]
  BY <1>1 DEF CaptureTypeOK, EndRecording
<1>5. /\ recording'.rows = recording.rows /\ recording'.size = recording.size
      /\ recording'.count = recording.count /\ recording.size \in Nat
  BY <1>1 DEF CaptureTypeOK, EndRecording
<1>6. \A e \in Events : Rows(e)' = Rows(e) /\ Rows(e) \in Nat
  BY <1>1, <1>5 DEF Rows, CaptureTypeOK
<1>7. recording'.size >= recording.size
  BY <1>5
<1>8. /\ \A e \in Events : Rows(e)' >= Rows(e)
      /\ faults = 0 => \A e \in Events :
           /\ e \notin Pending(p) => Rows(e)' = Rows(e)
           /\ e \in Pending(p) => Rows(e)' <= 1 /\ ~(Rows(e)' > 0)
  BY <1>1, <1>6 DEF OnePlace
<1>9. CountBehind'
  BY <1>1, <1>2, <1>3, <1>5 DEF CountBehind
<1> QED
  BY <1>2, <1>3, <1>4, <1>6, <1>7, <1>8, <1>9, ServedKeeps

LEMMA IngestCommitKeeps ==
  ASSUME CaptureInv, agent' = agent, faults' = faults, NEW p \in posts, IngestCommit(p)
  PROVE  CaptureInv'
<1>1. CaptureTypeOK /\ PostsFit /\ OnePlace /\ CountBehind
  BY DEF CaptureInv
<1>2. Served(p) /\ p.stage = "read" /\ p.op = "ingest"
  BY DEF IngestCommit
<1> DEFINE new == IF p.live THEN {[p EXCEPT !.stage = "done"]} ELSE {}
<1>3. /\ posts' = (posts \ {p}) \cup new
      /\ \A q \in new : /\ IsPost(q) /\ q.op = p.op /\ q.events = p.events
                        /\ q.stage = "done" /\ q.count = p.count /\ q.count \in Nat
                        /\ q.live \in BOOLEAN /\ q.live /\ p.live
      /\ \A q, r \in new : q = r
  BY <1>2, Answered
<1> HIDE DEF new
<1> DEFINE c(e) == Cardinality({i \in DOMAIN p.events : p.events[i] = e})
           k == p.count
           l == Len(p.events)
           size == recording.size
<1>4. /\ p.events \in Seq(Events) /\ l \in Nat /\ k \in Nat /\ size \in Nat
      /\ k <= size
  <2>1. p.events \in Seq(Events)
    BY <1>1 DEF CaptureTypeOK
  <2>2. l \in Nat
    BY <2>1, LenProperties
  <2>3. k \in Nat /\ size \in Nat /\ k <= size
    BY <1>1, <1>2 DEF CaptureTypeOK, PostsFit
  <2> QED
    BY <2>1, <2>2, <2>3
<1>5. \A e : /\ c(e) \in Nat
             /\ InSeq(e, p.events) => c(e) > 0
             /\ ~InSeq(e, p.events) => c(e) = 0
             /\ (\A i, j \in DOMAIN p.events : p.events[i] = p.events[j] => i = j) => c(e) <= 1
  BY <1>4, CountIn
<1>6. /\ recording' = [rows |-> [e \in Events |-> recording.rows[e] + c(e)],
                       size |-> size + l, count |-> k + l, ended |-> recording.ended]
      /\ recording.ended \in BOOLEAN
  BY <1>1 DEF IngestCommit, Stored, CaptureTypeOK
<1>7. size = recording.size /\ k = p.count
  OBVIOUS
<1>8. \A e \in Events : recording.rows[e] \in Nat /\ Rows(e) = recording.rows[e]
  BY <1>1 DEF CaptureTypeOK, Rows
<1> HIDE DEF c, k, l, size
<1>9. /\ recording' \in [rows : [Events -> Nat], size : Nat, count : Nat, ended : BOOLEAN]
      /\ recording'.size = size + l /\ recording'.count = k + l
      /\ \A e \in Events : recording'.rows[e] = recording.rows[e] + c(e)
  BY <1>4, <1>5, <1>6, <1>8
<1>10. \A e \in Events : Rows(e)' = Rows(e) + c(e) /\ Rows(e) \in Nat
  BY <1>8, <1>9 DEF Rows
<1>11. recording'.size >= recording.size
  BY <1>4, <1>7, <1>9
<1>12. \A e \in Events : /\ Rows(e)' >= Rows(e)
                         /\ InSeq(e, p.events) => Rows(e)' > 0
                         /\ ~InSeq(e, p.events) => Rows(e)' = Rows(e)
  BY <1>5, <1>10
<1>13. \A i \in DOMAIN p.events : p.events[i] \in Events /\ InSeq(p.events[i], p.events)
  BY <1>4, ElementOfSeq, LenProperties DEF InSeq
<1>14. \A e \in Events : Rows(e)' > 0 =>
          \/ Rows(e) > 0
          \/ InSeq(e, p.events) /\ \A d \in Events : InSeq(d, p.events) => Rows(d)' > 0
  BY <1>10, <1>12
<1>15. \A q \in new : q.stage = "done" /\ q.op = "ingest" =>
          \A i \in DOMAIN q.events : Rows(q.events[i])' > 0
  BY <1>3, <1>12, <1>13
<1>16. ASSUME faults = 0, NEW e \in Events
       PROVE  /\ e \notin Pending(p) => Rows(e)' = Rows(e)
              /\ e \in Pending(p) => Rows(e)' <= 1
  <2>1. e \in Pending(p) <=> InSeq(e, p.events)
    BY <1>2 DEF Pending, InSeq
  <2>2. \A i, j \in DOMAIN p.events : p.events[i] = p.events[j] => i = j
    BY <1>1, <1>16 DEF OnePlace
  <2>3. e \in Pending(p) => Rows(e) = 0
    BY <1>1, <1>16 DEF OnePlace
  <2> QED
    BY <1>5, <1>10, <1>12, <2>1, <2>2, <2>3
<1>17. CountBehind'
  <2>1. recording'.count <= recording'.size
    BY <1>4, <1>9
  <2>2. ASSUME faults = 0, ~agent.dropped
        PROVE  /\ recording'.count = recording'.size
               /\ \A q \in posts' : (q.op = "ingest" => q.live) /\ q.stage # "read"
    <3>1. k = size /\ \A q \in posts : q.op = "ingest" => q.live
      BY <1>1, <1>2, <1>7, <2>2 DEF CountBehind
    <3>2. \A q \in posts : q.stage = "read" => q = p
      BY <1>1, <1>2, <3>1 DEF PostsFit, CaptureTypeOK
    <3> QED
      BY <1>3, <1>9, <3>1, <3>2
  <2> QED
    BY <2>1, <2>2 DEF CountBehind
<1>18. p.stage # "done"
  BY <1>2
<1>19. \A q \in new : /\ IsPost(q) /\ q.op = p.op /\ q.events = p.events
                      /\ q.stage \in {"read", "done"} /\ q.count \in Nat
                      /\ q.live \in BOOLEAN /\ (q.live => p.live)
                      /\ (q.stage = "done" => q.live)
                      /\ (q.stage = "read" => q.op = "ingest" /\ q.count <= recording'.size)
  BY <1>3
<1>20. faults = 0 => \A e \in Events :
          /\ e \notin Pending(p) => Rows(e)' = Rows(e)
          /\ e \in Pending(p) => /\ Rows(e)' <= 1
                                 /\ Rows(e)' > 0 => \A q \in new : q.stage = "done"
  BY <1>3, <1>16
<1> QED
  BY <1>3, <1>9, <1>11, <1>12, <1>14, <1>15, <1>17, <1>18, <1>19, <1>20, ServedKeeps

----------------------------------------------------------------------------
(* The invariant                                                            *)

LEMMA CaptureStart ==
  ASSUME CaptureInit
  PROVE  CaptureInv
<1> DEFINE q == Post0("create")
<1>1. /\ IsPost(q) /\ q.op = "create" /\ q.events = <<>>
      /\ q.stage = "sent" /\ q.count = 0 /\ q.live = TRUE /\ q.live \in BOOLEAN
  BY PostShape DEF Post0
<1>2. /\ posts = {q}
      /\ agent = [pc |-> "creating", buffer |-> <<>>, batch |-> <<>>, tries |-> 1,
                  captured |-> 0, stopping |-> FALSE, dropped |-> FALSE]
      /\ recording = [rows |-> [e \in Events |-> 0], size |-> 0, count |-> 0, ended |-> FALSE]
  BY DEF CaptureInit
<1> HIDE DEF q
<1>3. Captured = 0 /\ Taken = 0 /\ Waits = 0
  BY <1>2 DEF Captured, Taken, Waits
<1>4. Sent = 0 /\ Reached = 0
  BY <1>3 DEF Sent, Reached
<1>5. \A e \in Events : Rows(e) = 0
  BY <1>2 DEF Rows
<1>6. CaptureTypeOK
  <2>1. agent \in [pc : {"creating", "looping", "flushing", "lastFlush", "ending", "gone"},
                   buffer : Seq(Events), batch : Seq(Events), tries : 0..Retries,
                   captured : 0..MaxCaptured, stopping : BOOLEAN, dropped : BOOLEAN]
    <3>1. 1 \in 0..Retries /\ 0 \in 0..MaxCaptured /\ <<>> \in Seq(Events)
      BY CaptureAssumption
    <3> QED
      BY <1>2, <3>1
  <2>2. \A p \in posts :
           /\ p.op \in {"create", "ingest", "end"} /\ p.events \in Seq(Events)
           /\ p.stage \in {"sent", "read", "done"} /\ p.count \in Nat /\ p.live \in BOOLEAN
    <3>1. q.events \in Seq(Events) /\ q.count \in Nat
      BY <1>1
    <3>2. q.op \in {"create", "ingest", "end"} /\ q.stage \in {"sent", "read", "done"}
      BY <1>1
    <3> QED
      BY <1>1, <1>2, <3>1, <3>2
  <2>3. recording \in [rows : [Events -> Nat], size : Nat, count : Nat, ended : BOOLEAN]
    BY <1>2
  <2> QED
    BY <1>2, <2>1, <2>2, <2>3 DEF CaptureTypeOK
<1>7. LastCaptured /\ LastIsFull
  BY <1>2, <1>3, <1>4 DEF LastCaptured, LastIsFull, Flushing, Follows
<1>8. PostsFit
  BY <1>1, <1>2 DEF PostsFit
<1>9. NoGap
  BY <1>1, <1>2, <1>4, <1>5 DEF NoGap
<1>10. OnePlace
  BY <1>1, <1>2, <1>4, <1>5 DEF OnePlace, Pending
<1>11. CountBehind
  BY <1>1, <1>2 DEF CountBehind
<1> QED
  BY <1>6, <1>7, <1>8, <1>9, <1>10, <1>11 DEF CaptureInv

LEMMA CaptureStep ==
  ASSUME CaptureInv, faults \in Nat, CaptureNext
  PROVE  CaptureInv'
<1>1. CASE CaptureEvent
  BY <1>1, CaptureEventKeeps
<1>2. CASE Flush
  BY <1>2, SendBatchKeeps DEF Flush, Capturing, NoFault, serviceVars
<1>3. CASE LastFlush
  BY <1>3, LastFlushKeeps
<1>4. CASE StopAgent
  BY <1>4, StopAgentKeeps
<1>5. CASE CancelAgent
  BY <1>5, CancelAgentKeeps
<1>6. CASE Returned
  BY <1>6, ReturnedKeeps
<1>7. CASE PostFails \/ PostTimesOut \/ PostRejected
  BY <1>7, FailureKeeps
<1>8. CASE ServePost
  <2>1. agent' = agent /\ faults' = faults
    BY <1>8 DEF ServePost, Capturing, NoFault, serviceVars
  <2>2. PICK p \in posts :
          CreateRecording(p) \/ IngestLoad(p) \/ IngestCommit(p) \/ EndRecording(p)
    BY <1>8 DEF ServePost
  <2>3. CASE CreateRecording(p) \/ EndRecording(p)
    BY <2>1, <2>3, RowsStayKeeps DEF CreateRecording
  <2>4. CASE IngestLoad(p)
    BY <2>1, <2>4, IngestLoadKeeps DEF IngestLoad
  <2>5. CASE IngestCommit(p)
    BY <2>1, <2>5, IngestCommitKeeps
  <2> QED
    BY <2>2, <2>3, <2>4, <2>5
<1> QED
  BY <1>1, <1>2, <1>3, <1>4, <1>5, <1>6, <1>7, <1>8 DEF CaptureNext

\* Other services leave the agent alone, whatever fails there.
LEMMA CaptureElse ==
  ASSUME CaptureInv, faults \in Nat, UNCHANGED captureVars, faults' = faults \/ faults' = faults + 1
  PROVE  CaptureInv'
<1>1. CaptureTypeOK /\ LastCaptured /\ PostsFit /\ NoGap /\ OnePlace /\ LastIsFull /\ CountBehind
  BY DEF CaptureInv
<1>2. agent' = agent /\ posts' = posts /\ recording' = recording
  BY DEF captureVars
<1>3. faults' = 0 => faults = 0
  OBVIOUS
<1>4. Captured' = Captured /\ Taken' = Taken /\ Waits' = Waits
  BY <1>2 DEF Captured, Taken, Waits
<1>5. Sent' = Sent /\ Reached' = Reached
  BY <1>4 DEF Sent, Reached
<1>6. \A e : Rows(e)' = Rows(e)
  BY <1>2 DEF Rows
<1>7. CaptureTypeOK'
  BY <1>1, <1>2 DEF CaptureTypeOK
<1>8. LastCaptured' /\ LastIsFull'
  BY <1>1, <1>2, <1>3, <1>4, <1>5 DEF LastCaptured, LastIsFull, Flushing
<1>9. PostsFit'
  BY <1>1, <1>2, <1>6 DEF PostsFit, Flushing, IsPost
<1>10. NoGap'
  BY <1>1, <1>2, <1>5, <1>6 DEF NoGap, InSeq
<1>11. OnePlace'
  BY <1>1, <1>2, <1>3, <1>5, <1>6 DEF OnePlace, Pending
<1>12. CountBehind'
  BY <1>1, <1>2, <1>3 DEF CountBehind
<1> QED
  BY <1>7, <1>8, <1>9, <1>10, <1>11, <1>12 DEF CaptureInv

\* The invariant says all that the properties say.
LEMMA CaptureFits ==
  ASSUME CaptureInv
  PROVE  CaptureTypeOK /\ EventsKept /\ StoredInOrder /\ EventCountFits
<1>1. CaptureTypeOK /\ LastCaptured /\ PostsFit /\ NoGap /\ OnePlace /\ LastIsFull /\ CountBehind
  BY DEF CaptureInv
<1>2. /\ Waits \in Nat /\ Taken \in Nat /\ Captured \in Nat /\ Sent \in Nat
      /\ Sent + Taken + Waits = Captured /\ Captured <= MaxCaptured /\ MaxCaptured \in Nat
      /\ BatchCap \in Nat \ {0}
  BY <1>1, Counted
<1>3. Captured = agent.captured /\ Taken = Len(agent.batch) /\ Waits = Len(agent.buffer)
  BY DEF Captured, Taken, Waits
<1>4. ASSUME ~agent.dropped, NEW e \in 1..Captured
      PROVE  recording.rows[e] > 0 \/ InSeq(e, agent.batch) \/ InSeq(e, agent.buffer)
  <2>1. e \in Nat /\ e <= Sent + Taken + Waits
    BY <1>2
  <2>2. CASE e <= Sent
    BY <1>1, <1>2, <1>4, <2>2 DEF NoGap, Rows
  <2>3. CASE e > Sent /\ e <= Sent + Taken
    <3>1. agent.batch \in Seq(Events) /\ Follows(agent.batch, Sent)
      BY <1>1 DEF CaptureTypeOK, LastCaptured
    <3> QED
      BY <1>2, <1>3, <2>1, <2>3, <3>1, InFollows
  <2>4. CASE e > Sent + Taken
    <3>1. agent.buffer \in Seq(Events) /\ Follows(agent.buffer, Sent + Taken)
      BY <1>1 DEF CaptureTypeOK, LastCaptured
    <3> DEFINE n == Sent + Taken
    <3>2. n \in Nat /\ n < e /\ e <= n + Waits
      BY <1>2, <2>1, <2>4
    <3>3. Follows(agent.buffer, n)
      BY <3>1
    <3> HIDE DEF n
    <3> QED
      BY <1>3, <2>1, <3>1, <3>2, <3>3, InFollows
  <2> QED
    BY <1>2, <2>1, <2>2, <2>3, <2>4
<1>5. ASSUME agent.pc = "gone", faults = 0, agent.buffer # <<>>
      PROVE  Waits + BatchCap <= Captured
  <2>1. Sent >= BatchCap
    BY <1>1, <1>5 DEF LastIsFull
  <2> QED
    BY <1>2, <2>1
<1>6. EventsKept
  BY <1>3, <1>4, <1>5 DEF EventsKept
<1>7. StoredInOrder
  BY <1>1 DEF StoredInOrder, NoGap, OnePlace, Rows
<1>8. EventCountFits
  BY <1>1 DEF EventCountFits, CountBehind
<1> QED
  BY <1>1, <1>6, <1>7, <1>8

----------------------------------------------------------------------------
(* EventLogs                                                                *)

\* A record with the fields of a job.
IsJob(j) ==
  j \in [n : {j.n}, kind : {j.kind}, stage : {j.stage}, tries : {j.tries}, row : {j.row}]

\* The row has a mapping as soon as one was set, which is after the upload.
MappingCounted ==
  /\ log.mapping # Unset <=> mapped > 0
  /\ mapped > 0 => upload = "over"

\* As long as nothing crossed, a mapped log has statistics tasks only, and one
\* of them at most is at work.
StatsAlone ==
  /\ upload = "over" /\ \A j \in jobs : j.kind = "stats"
  /\ \A j, k \in jobs : j.stage = "loaded" /\ k.stage = "loaded" => j = k

\* The task at work has the row as it is.
RowsFresh ==
  \A j \in jobs : j.stage = "loaded" =>
    j.row.mapping = log.mapping /\ j.row.events = log.events /\ j.row.cases = log.cases

\* The statistics are right, or a task is on its way.
StatsComing == jobs = {} => log.cases = log.mapping /\ log.events = log.mapping

LogInv ==
  /\ LogTypeOK /\ \A j \in jobs : IsJob(j)
  /\ MappingCounted
  /\ ~spoilt /\ mapped > 0 => StatsAlone /\ (log.exists /\ log.file => RowsFresh /\ StatsComing)

LEMMA LogFits ==
  ASSUME LogInv
  PROVE  LogTypeOK /\ StatsFit
<1>1. LogTypeOK /\ MappingCounted
  BY DEF LogInv
<1>2. ASSUME log.exists, log.file, log.mapping # Unset, jobs = {}, ~spoilt
      PROVE  log.cases = log.mapping /\ log.events = log.mapping
  BY <1>2 DEF LogInv, MappingCounted, StatsComing
<1> QED
  BY <1>1, <1>2 DEF StatsFit

LEMMA NoLogRow == NoLog \in LogRow
BY DEF NoLog, LogRow

LEMMA LogStart ==
  ASSUME LogInit
  PROVE  LogInv
<1>1. /\ log = [exists |-> FALSE, file |-> FALSE, status |-> "processing",
                mapping |-> Unset, events |-> Unset, cases |-> Unset]
      /\ jobs = {} /\ mapped = 0 /\ spoilt = FALSE /\ lost = FALSE
      /\ upload = "new" /\ removal = "none"
  BY DEF LogInit, NoLog
<1>2. log \in LogRow
  BY NoLogRow DEF LogInit
<1>3. 0 \in 0..MaxMapped
  BY EventLogsAssumption
<1>4. LogTypeOK
  BY <1>1, <1>2, <1>3 DEF LogTypeOK
<1> QED
  BY <1>1, <1>4 DEF LogInv, MappingCounted

\* A new job.
LEMMA JobShape ==
  ASSUME NEW kind \in {"process", "stats"}, NEW stage \in {"queued", "loaded"},
         NEW tries \in 1..JobTries, NEW row \in LogRow, NEW others
  PROVE  LET j == Job(kind, stage, tries, row, others)
         IN  /\ IsJob(j) /\ j.kind = kind /\ j.stage = stage /\ j.row = row
             /\ j.tries \in 1..JobTries /\ j.row \in LogRow
BY DEF Job, IsJob

\* A job that is tried again.
LEMMA AgainShape ==
  ASSUME LogInv, NEW j \in jobs, Again(j)
  PROVE  \A k \in jobs' :
           \/ k \in jobs \ {j}
           \/ /\ IsJob(k) /\ k.kind = j.kind /\ k.stage = "queued"
              /\ k.tries \in 1..JobTries /\ k.row \in LogRow
              /\ j.tries < JobTries
<1>1. IsJob(j) /\ j.tries \in 1..JobTries
  BY DEF LogInv, LogTypeOK
<1> DEFINE d == [j EXCEPT !.stage = "queued", !.tries = @ + 1, !.row = NoLog]
<1>2. CASE j.tries < JobTries
  <2>1. j.tries + 1 \in 1..JobTries
    BY <1>1, <1>2, EventLogsAssumption
  <2>2. IsJob(d) /\ d.kind = j.kind /\ d.stage = "queued" /\ d.row = NoLog /\ d.tries = j.tries + 1
    BY <1>1 DEF IsJob
  <2>3. jobs' = (jobs \ {j}) \cup {d}
    BY <1>2 DEF Again
  <2> HIDE DEF d
  <2> QED
    BY <1>2, <2>1, <2>2, <2>3, NoLogRow
<1>3. CASE ~(j.tries < JobTries)
  BY <1>3 DEF Again
<1> QED
  BY <1>2, <1>3

\* A message in the place of a job, with what a job has.
IsRetry(k) ==
  /\ IsJob(k) /\ k.stage = "queued" /\ k.tries \in 1..JobTries /\ k.row \in LogRow
  /\ \E j \in jobs : k.kind = j.kind

JobOK(j) ==
  /\ IsJob(j) /\ j.kind \in {"process", "stats"} /\ j.stage \in {"queued", "loaded"}
  /\ j.tries \in 1..JobTries /\ j.row \in LogRow

\* Jobs that end or go back to the queue leave the rest as it was.
LEMMA JobsFollow ==
  ASSUME LogInv, upload' = upload, \A k \in jobs' : k \in jobs \/ IsRetry(k)
  PROVE  /\ \A k \in jobs' : JobOK(k)
         /\ StatsAlone => StatsAlone'
         /\ RowsFresh /\ log'.mapping = log.mapping /\ log'.events = log.events
              /\ log'.cases = log.cases => RowsFresh'
<1>1. \A j \in jobs : JobOK(j)
  BY DEF LogInv, LogTypeOK, JobOK
<1>2. \A k \in jobs' : JobOK(k)
  BY <1>1 DEF IsRetry, JobOK
<1>3. \A k \in jobs' : k.stage = "loaded" => k \in jobs
  BY DEF IsRetry
<1>4. \A k \in jobs' : \E j \in jobs : k.kind = j.kind
  BY DEF IsRetry
<1>5. StatsAlone => StatsAlone'
  BY <1>3, <1>4 DEF StatsAlone
<1>6. ASSUME RowsFresh, log'.mapping = log.mapping, log'.events = log.events, log'.cases = log.cases
      PROVE  RowsFresh'
  BY <1>3, <1>6 DEF RowsFresh
<1> QED
  BY <1>2, <1>5, <1>6

LEMMA AgainFollows ==
  ASSUME LogInv, NEW j \in jobs, Again(j)
  PROVE  \A k \in jobs' : k \in jobs \/ IsRetry(k)
BY AgainShape DEF IsRetry

\* A job that is loaded.
LEMMA LoadShape ==
  ASSUME LogInv, NEW j \in jobs, Load(j)
  PROVE  /\ \A k \in jobs' : \/ k \in jobs \ {j}
                             \/ JobOK(k) /\ k.kind = j.kind /\ k.stage = "loaded" /\ k.row = log
         /\ \A k, l \in jobs' : k \in jobs \ {j} \/ l \in jobs \ {j} \/ k = l
         /\ jobs' # {}
<1>1. JobOK(j) /\ log \in LogRow
  BY DEF LogInv, LogTypeOK, JobOK
<1> DEFINE d == [j EXCEPT !.stage = "loaded", !.row = log]
<1>2. IsJob(d) /\ d.kind = j.kind /\ d.stage = "loaded" /\ d.row = log /\ d.tries = j.tries
  BY <1>1 DEF IsJob, JobOK
<1>3. jobs' = (jobs \ {j}) \cup {d}
  BY DEF Load
<1> HIDE DEF d
<1>4. JobOK(d)
  BY <1>1, <1>2 DEF JobOK
<1> QED
  BY <1>2, <1>3, <1>4

\* With the types of the jobs and the row, and the mappings as they were, only
\* a log that has one is left to look at.
LEMMA Unmapped ==
  ASSUME LogInv, mapped' = mapped, log'.mapping = log.mapping, upload' = upload \/ upload' = "over"
                                                                \/ ~(mapped > 0),
         LogTypeOK', \A k \in jobs' : JobOK(k), spoilt' \/ ~(mapped > 0)
  PROVE  LogInv'
<1>1. MappingCounted'
  BY DEF LogInv, MappingCounted
<1> QED
  BY <1>1 DEF LogInv, JobOK

\* What the request does before the first mapping.
LEMMA UploadKeeps ==
  ASSUME LogInv, StoreUpload \/ HandOver \/ TakeInline \/ ProcessInline
  PROVE  LogInv'
<1>1. LogTypeOK /\ MappingCounted /\ \A j \in jobs : JobOK(j)
  BY DEF LogInv, LogTypeOK, JobOK
<1>2. mapped' = mapped /\ removal' = removal /\ lost' = lost
  BY DEF StoreUpload, HandOver, TakeInline, ProcessInline
<1>3. upload # "over"
  BY DEF StoreUpload, HandOver, TakeInline, ProcessInline
<1>4. ~(mapped > 0) /\ log.mapping = Unset
  BY <1>1, <1>3 DEF MappingCounted
<1>5. log' \in LogRow /\ log'.mapping = Unset
  <2>1. CASE StoreUpload
    BY <2>1, NoLogRow DEF StoreUpload, NoLog, LogRow
  <2>2. CASE ProcessInline
    <3>1. log \in LogRow
      BY <1>1 DEF LogTypeOK
    <3>2. \/ log' = log \/ log' = [log EXCEPT !.status = "error"]
          \/ log' = [log EXCEPT !.status = "ready", !.events = Raw]
      BY <2>2 DEF ProcessInline
    <3> QED
      BY <3>1, <3>2, <1>4 DEF LogRow
  <2>3. CASE HandOver \/ TakeInline
    BY <2>3, <1>1, <1>4 DEF HandOver, TakeInline, LogTypeOK
  <2> QED
    BY <2>1, <2>2, <2>3
<1>6. \A k \in jobs' : JobOK(k)
  <2>1. CASE HandOver
    <3>1. 1 \in 1..JobTries
      BY EventLogsAssumption
    <3>2. JobOK(Job("process", "queued", 1, NoLog, jobs))
      BY <3>1, NoLogRow, JobShape DEF JobOK
    <3> QED
      BY <2>1, <3>2, <1>1 DEF HandOver
  <2>2. CASE ~HandOver
    BY <2>2, <1>1 DEF StoreUpload, TakeInline, ProcessInline
  <2> QED
    BY <2>1, <2>2
<1>7. spoilt' \in BOOLEAN /\ upload' \in {"new", "stored", "inline", "over"}
  BY <1>1 DEF StoreUpload, HandOver, TakeInline, ProcessInline, LogTypeOK
<1>8. LogTypeOK'
  BY <1>1, <1>2, <1>5, <1>6, <1>7 DEF LogTypeOK, JobOK
<1> QED
  BY <1>2, <1>4, <1>5, <1>6, <1>8, Unmapped

\* A process task at work or queued: nothing is mapped, or the tasks crossed.
LEMMA ProcessKeeps ==
  ASSUME LogInv, NEW j \in jobs,
         ProcessLoad(j) \/ ProcessCommit(j) \/ ProcessFail(j) \/ ProcessCommitFails(j)
  PROVE  LogInv'
<1>1. LogTypeOK /\ MappingCounted /\ (\A i \in jobs : JobOK(i)) /\ j.kind = "process"
  BY DEF LogInv, LogTypeOK, JobOK, ProcessLoad, ProcessCommit, ProcessFail, ProcessCommitFails
<1>2. mapped' = mapped /\ removal' = removal /\ upload' = upload
  BY DEF ProcessLoad, ProcessCommit, ProcessFail, ProcessCommitFails
<1>3. spoilt \/ ~(mapped > 0)
  BY <1>1 DEF LogInv, StatsAlone
<1>4. spoilt' \in BOOLEAN /\ lost' \in BOOLEAN /\ (spoilt => spoilt')
  BY <1>1 DEF ProcessLoad, ProcessCommit, ProcessFail, ProcessCommitFails, LogTypeOK, Crossed
<1>5. log' \in LogRow /\ log'.mapping = log.mapping
  <2>1. log \in LogRow
    BY <1>1 DEF LogTypeOK
  <2>2. ASSUME NEW status \in {"ready", "error"}
        PROVE  Changed(j, "status", status) \in {"processing", "ready", "error"}
    BY <2>1 DEF Changed, LogRow
  <2>3. Changed(j, "events", Raw) \in Mappings \cup {Raw, Unset}
    BY <2>1 DEF Changed, LogRow
  <2>4. CASE UNCHANGED log \/ FileMissing
    BY <2>1, <2>4 DEF FileMissing, LogRow
  <2>5. CASE log' = [log EXCEPT !.events = Changed(j, "events", Raw),
                                !.status = Changed(j, "status", "ready")]
    BY <2>1, <2>2, <2>3, <2>5 DEF LogRow
  <2>6. CASE log' = [log EXCEPT !.status = Changed(j, "status", "error")]
    BY <2>1, <2>2, <2>6 DEF LogRow
  <2> QED
    BY <2>4, <2>5, <2>6 DEF ProcessLoad, ProcessCommit, ProcessFail, ProcessCommitFails
<1>6. \A k \in jobs' : JobOK(k)
  <2>1. CASE Load(j)
    BY <2>1, <1>1, LoadShape
  <2>2. CASE Ended(j)
    BY <2>2, <1>1 DEF Ended
  <2>3. CASE Again(j)
    BY <2>3, <1>1, AgainShape DEF JobOK
  <2> QED
    BY <2>1, <2>2, <2>3 DEF ProcessLoad, ProcessCommit, ProcessFail, ProcessCommitFails
<1>7. LogTypeOK'
  BY <1>1, <1>2, <1>4, <1>5, <1>6 DEF LogTypeOK, JobOK
<1> QED
  BY <1>2, <1>3, <1>4, <1>5, <1>6, <1>7, Unmapped

LEMMA StatsLoadKeeps ==
  ASSUME LogInv, NEW j \in jobs, StatsLoad(j)
  PROVE  LogInv'
<1>1. LogTypeOK /\ MappingCounted /\ (\A i \in jobs : JobOK(i)) /\ j.kind = "stats"
  BY DEF LogInv, LogTypeOK, JobOK, StatsLoad
<1>2. UNCHANGED <<log, upload, removal, mapped, lost>>
  BY DEF StatsLoad
<1>3. spoilt' \in BOOLEAN /\ (spoilt => spoilt')
  BY <1>1 DEF StatsLoad, LogTypeOK, Crossed
<1>4. CASE StatsWanted /\ Load(j) /\ Crossed
  <2>1. \A k \in jobs' : JobOK(k)
    BY <1>1, <1>4, LoadShape
  <2>2. LogTypeOK' /\ MappingCounted'
    BY <1>1, <1>2, <1>3, <2>1 DEF LogTypeOK, JobOK, MappingCounted
  <2>3. ASSUME ~spoilt', mapped > 0
        PROVE  StatsAlone' /\ RowsFresh' /\ StatsComing'
    <3>1. StatsAlone
      BY <1>3, <2>3 DEF LogInv
    <3>2. \A i \in jobs : i.stage # "loaded"
      BY <1>1, <1>4, <2>3 DEF Crossed, Loaded, JobOK
    <3>3. \A k \in jobs' : k.stage = "loaded" => k \notin jobs \ {j} /\ k.row = log
      BY <1>4, <3>2, LoadShape
    <3>4. StatsAlone'
      BY <1>1, <1>2, <1>4, <3>1, <3>3, LoadShape DEF StatsAlone
    <3>5. RowsFresh'
      BY <1>2, <3>3 DEF RowsFresh
    <3>6. StatsComing'
      BY <1>4, LoadShape DEF StatsComing
    <3> QED
      BY <3>4, <3>5, <3>6
  <2> QED
    BY <1>2, <2>1, <2>2, <2>3 DEF LogInv, JobOK
<1>5. CASE ~StatsWanted /\ Ended(j) /\ UNCHANGED spoilt
  <2>1. \A k \in jobs' : k \in jobs
    BY <1>5 DEF Ended
  <2>2. LogTypeOK' /\ MappingCounted'
    BY <1>1, <1>2, <1>3, <2>1 DEF LogTypeOK, MappingCounted
  <2>3. ASSUME ~spoilt', mapped > 0
        PROVE  StatsAlone' /\ ~(log.exists /\ log.file)
    BY <1>1, <1>2, <1>5, <2>1, <2>3, JobsFollow DEF LogInv, StatsWanted, MappingCounted
  <2> QED
    BY <1>1, <1>2, <2>1, <2>2, <2>3 DEF LogInv, JobOK
<1> QED
  BY <1>4, <1>5 DEF StatsLoad

\* The statistics that are committed are those of the mapping that is set.
LEMMA StatsCommitKeeps ==
  ASSUME LogInv, NEW j \in jobs, StatsCommit(j)
  PROVE  LogInv'
<1>1. LogTypeOK /\ MappingCounted /\ (\A i \in jobs : JobOK(i)) /\ log \in LogRow
  BY DEF LogInv, LogTypeOK, JobOK
<1>2. UNCHANGED <<upload, removal, mapped, spoilt, lost>> /\ j.stage = "loaded"
  BY DEF StatsCommit
<1>3. CASE log.exists
  <2>1. jobs' = jobs \ {j}
    BY <1>3 DEF StatsCommit, Ended
  <2> DEFINE m == j.row.mapping
             e == Changed(j, "events", m)
             c == Changed(j, "cases", m)
  <2>2. m \in Mappings \cup {Unset}
    BY <1>1 DEF JobOK, LogRow
  <2>3. e \in Mappings \cup {Raw, Unset} /\ c \in Mappings \cup {Unset}
    BY <1>1, <2>2 DEF Changed, LogRow
  <2>4. log' = [log EXCEPT !.events = e, !.cases = c]
    BY <1>3 DEF StatsCommit
  <2>5. RowsFresh => m = log.mapping /\ (e = m) /\ (c = m)
    BY <1>2 DEF RowsFresh, Changed
  <2> HIDE DEF m, e, c
  <2>6. /\ log' \in LogRow /\ log'.mapping = log.mapping /\ log'.events = e /\ log'.cases = c
        /\ log'.exists = log.exists /\ log'.file = log.file
    BY <1>1, <2>3, <2>4 DEF LogRow
  <2>7. LogTypeOK' /\ MappingCounted'
    BY <1>1, <1>2, <2>1, <2>6 DEF LogTypeOK, MappingCounted
  <2>8. ASSUME ~spoilt, mapped > 0
        PROVE  StatsAlone' /\ (log.exists /\ log.file => RowsFresh' /\ StatsComing')
    <3>1. StatsAlone /\ (log.exists /\ log.file => RowsFresh)
      BY <2>8 DEF LogInv
    <3>2. \A k \in jobs' : k.stage # "loaded"
      BY <1>2, <2>1, <3>1 DEF StatsAlone
    <3>3. StatsAlone'
      BY <1>2, <2>1, <3>1 DEF StatsAlone
    <3>4. RowsFresh'
      BY <3>2 DEF RowsFresh
    <3>5. log.exists /\ log.file => StatsComing'
      BY <2>5, <2>6, <3>1 DEF StatsComing
    <3> QED
      BY <3>3, <3>4, <3>5
  <2> QED
    BY <1>1, <1>2, <2>1, <2>6, <2>7, <2>8 DEF LogInv, JobOK
<1>4. CASE ~log.exists
  <2>1. Again(j) /\ log' = log
    BY <1>4 DEF StatsCommit
  <2>2. \A k \in jobs' : JobOK(k)
    BY <1>1, <1>2, <2>1, AgainFollows, JobsFollow
  <2>3. LogTypeOK' /\ MappingCounted'
    BY <1>1, <1>2, <2>1, <2>2 DEF LogTypeOK, MappingCounted, JobOK
  <2>4. StatsAlone => StatsAlone'
    BY <1>2, <2>1, AgainFollows, JobsFollow
  <2> QED
    BY <1>2, <1>4, <2>1, <2>2, <2>3, <2>4 DEF LogInv, JobOK
<1> QED
  BY <1>3, <1>4

\* A task that fails is tried again, or it was the last time.
LEMMA StatsFailKeeps ==
  ASSUME LogInv, NEW j \in jobs, StatsFail(j)
  PROVE  LogInv'
<1>1. LogTypeOK /\ MappingCounted
  BY DEF LogInv
<1>2. UNCHANGED <<log, upload, removal, mapped, lost>> /\ Again(j)
      /\ spoilt' = (spoilt \/ j.tries = JobTries)
  BY DEF StatsFail
<1>3. \A k \in jobs' : JobOK(k)
  BY <1>2, AgainFollows, JobsFollow
<1>4. LogTypeOK' /\ MappingCounted'
  BY <1>1, <1>2, <1>3 DEF LogTypeOK, MappingCounted, JobOK
<1>5. ASSUME ~spoilt', mapped > 0
      PROVE  StatsAlone' /\ (log.exists /\ log.file => RowsFresh' /\ StatsComing')
  <2>1. StatsAlone /\ (log.exists /\ log.file => RowsFresh)
    BY <1>2, <1>5 DEF LogInv
  <2>2. j.tries < JobTries
    <3>1. j.tries # JobTries
      BY <1>2, <1>5, Zenon
    <3>2. j.tries \in 1..JobTries /\ JobTries \in Nat
      BY <1>1, EventLogsAssumption DEF LogTypeOK
    <3> QED
      BY <3>1, <3>2
  <2>3. jobs' # {}
    BY <1>2, <2>2 DEF Again
  <2> QED
    BY <1>2, <2>1, <2>3, AgainFollows, JobsFollow DEF StatsComing
<1> QED
  BY <1>2, <1>3, <1>4, <1>5 DEF LogInv, JobOK

LEMMA WorkerDiesKeeps ==
  ASSUME LogInv, WorkerDies
  PROVE  LogInv'
<1>1. LogTypeOK /\ MappingCounted /\ (\A i \in jobs : JobOK(i))
  BY DEF LogInv, LogTypeOK, JobOK
<1>2. UNCHANGED <<log, removal, mapped>>
  BY DEF WorkerDies
<1>3. spoilt' \/ ~(mapped > 0)
  BY <1>1 DEF WorkerDies, MappingCounted
<1>4. jobs' \subseteq jobs /\ spoilt' \in BOOLEAN /\ lost' \in BOOLEAN
      /\ (upload' = upload \/ upload' = "over")
  BY <1>1 DEF WorkerDies, Ended, LogTypeOK
<1>5. LogTypeOK' /\ \A k \in jobs' : JobOK(k)
  BY <1>1, <1>2, <1>4 DEF LogTypeOK
<1> QED
  BY <1>2, <1>3, <1>4, <1>5, Unmapped

\* A mapping that is set has its task at once.
LEMMA SetMappingKeeps ==
  ASSUME LogInv, NEW m \in Mappings, SetMapping(m)
  PROVE  LogInv'
<1>1. LogTypeOK /\ MappingCounted /\ (\A i \in jobs : JobOK(i)) /\ log \in LogRow
  BY DEF LogInv, LogTypeOK, JobOK
<1>2. log' \in LogRow /\ log'.mapping = m /\ m # Unset
  BY <1>1, EventLogsAssumption DEF SetMapping, LogRow
<1>3. upload = "over" /\ UNCHANGED <<upload, removal, lost>>
  BY DEF SetMapping
<1>4. mapped' \in 0..MaxMapped /\ mapped' > 0
  BY <1>1, EventLogsAssumption DEF SetMapping, LogTypeOK
<1>5. PICK stage \in {"queued", "loaded"}, tries \in 1..JobTries, row \in LogRow :
        jobs' = jobs \cup {Job("stats", stage, tries, row, jobs)}
        /\ (stage = "loaded" => row = log')
  <2>1. 1 \in 1..JobTries /\ JobTries \in 1..JobTries
    BY EventLogsAssumption
  <2> QED
    BY <1>2, <2>1, NoLogRow DEF SetMapping
<1> DEFINE d == Job("stats", stage, tries, row, jobs)
<1>6. JobOK(d) /\ d.kind = "stats" /\ (d.stage = "loaded" => d.row = log')
  BY <1>5, JobShape DEF JobOK
<1>7. jobs' = jobs \cup {d}
  BY <1>5
<1> HIDE DEF d
<1>8. spoilt' \in BOOLEAN
  BY <1>1 DEF SetMapping, LogTypeOK
<1>9. LogTypeOK' /\ MappingCounted' /\ \A k \in jobs' : JobOK(k)
  BY <1>1, <1>2, <1>3, <1>4, <1>6, <1>7, <1>8 DEF LogTypeOK, MappingCounted, JobOK
<1>10. ASSUME ~spoilt'
       PROVE  StatsAlone' /\ RowsFresh' /\ StatsComing'
  <2>1. \A j \in jobs : j.kind # "process" /\ j.stage # "loaded"
    BY <1>10 DEF SetMapping
  <2>2. \A j \in jobs : j.kind = "stats"
    BY <1>1, <2>1 DEF JobOK
  <2>3. StatsAlone'
    BY <1>3, <1>6, <1>7, <2>1, <2>2 DEF StatsAlone
  <2>4. RowsFresh'
    BY <1>6, <1>7, <2>1 DEF RowsFresh
  <2>5. StatsComing'
    BY <1>7 DEF StatsComing
  <2> QED
    BY <2>3, <2>4, <2>5
<1> QED
  BY <1>9, <1>10 DEF LogInv, JobOK

LEMMA RemovalKeeps ==
  ASSUME LogInv, Unlink \/ DeleteLog
  PROVE  LogInv'
<1>1. LogTypeOK /\ MappingCounted /\ log \in LogRow
  BY DEF LogInv, LogTypeOK
<1>2. UNCHANGED <<upload, jobs, mapped, spoilt, lost>> /\ removal' \in {"none", "unlinked"}
  BY DEF Unlink, DeleteLog
<1>3. \/ log' = log \/ log' = [log EXCEPT !.file = FALSE] \/ log' = [log EXCEPT !.exists = FALSE]
  BY DEF Unlink, DeleteLog
<1>4. /\ log' \in LogRow /\ log'.mapping = log.mapping /\ log'.events = log.events
      /\ log'.cases = log.cases
      /\ log'.exists /\ log'.file => log.exists /\ log.file
  BY <1>1, <1>3 DEF LogRow
<1>5. LogTypeOK' /\ MappingCounted'
  BY <1>1, <1>2, <1>4 DEF LogTypeOK, MappingCounted
<1>6. (StatsAlone => StatsAlone') /\ (RowsFresh => RowsFresh') /\ (StatsComing => StatsComing')
  BY <1>2, <1>4 DEF StatsAlone, RowsFresh, StatsComing
<1> QED
  BY <1>2, <1>4, <1>5, <1>6 DEF LogInv, IsJob

LEMMA LogStep ==
  ASSUME LogInv, LogNext
  PROVE  LogInv'
<1>1. ASSUME NEW j \in jobs, JobStep(j)
      PROVE  LogInv'
  BY <1>1, ProcessKeeps, StatsLoadKeeps, StatsCommitKeeps, StatsFailKeeps DEF JobStep
<1> QED
  BY <1>1, UploadKeeps, WorkerDiesKeeps, SetMappingKeeps, RemovalKeeps DEF LogNext

LEMMA LogElse ==
  ASSUME LogInv, UNCHANGED logVars
  PROVE  LogInv'
BY DEF LogInv, logVars, LogTypeOK, MappingCounted, StatsAlone, RowsFresh, StatsComing, IsJob

----------------------------------------------------------------------------
(* Notices: the alert rules                                                 *)

\* Only a run has alerts in its session.
AlertInv ==
  /\ AlertTypeOK
  /\ \A t \in AlertTasks : sweep[t].pc # "running" => sweep[t].fired = {}
  /\ AlertsRecorded

LEMMA AlertStart ==
  ASSUME AlertInit
  PROVE  AlertInv
BY DEF AlertInit, AlertInv, AlertTypeOK, AlertsRecorded, NoSweep

LEMMA DispatchAlertsKeeps ==
  ASSUME AlertInv, NEW t \in AlertTasks, DispatchAlerts(t)
  PROVE  AlertInv'
BY SMTT(20) DEF DispatchAlerts, AlertInv, AlertTypeOK, AlertsRecorded

LEMMA StartSweepKeeps ==
  ASSUME AlertInv, NEW t \in AlertTasks, StartSweep(t)
  PROVE  AlertInv'
BY DEF StartSweep, AlertInv, AlertTypeOK, AlertsRecorded, NoSweep

\* What a task becomes, and what that means for the invariant.
LEMMA SweepBecomes ==
  ASSUME AlertInv, NEW t \in AlertTasks,
         NEW next \in [pc : {"idle", "queued", "running"}, todo : SUBSET Alerts,
                       seen : SUBSET Alerts, fired : SUBSET Alerts],
         sweep' = [sweep EXCEPT ![t] = next], alert' = alert,
         next.fired \subseteq next.seen, next.pc # "running" => next.fired = {},
         told' \subseteq told \cup next.fired, undone' \in BOOLEAN, undone => undone',
         sweep[t].fired \subseteq next.fired \/ undone'
  PROVE  AlertInv'
<1>1. AlertTypeOK'
  BY DEF AlertInv, AlertTypeOK
<1>2. \A u \in AlertTasks : sweep'[u] = IF u = t THEN next ELSE sweep[u]
  BY DEF AlertInv, AlertTypeOK
<1>3. \A u \in AlertTasks : sweep'[u].pc # "running" => sweep'[u].fired = {}
  BY <1>2 DEF AlertInv
<1>4. undone' \/ \A u \in AlertTasks : sweep[u].fired \subseteq sweep'[u].fired
  BY <1>2
<1>5. AlertsRecorded'
  BY <1>2, <1>4 DEF AlertInv, AlertTypeOK, AlertsRecorded
<1> QED
  BY <1>1, <1>3, <1>5 DEF AlertInv

\* A message that goes out is in the session of the run that sent it.
LEMMA VisitAlertKeeps ==
  ASSUME AlertInv, NEW t \in AlertTasks, VisitAlert(t)
  PROVE  AlertInv'
<1>1. PICK a \in sweep[t].todo : SkipAlert(t, a) \/ CheckAlert(t, a) \/ NotifyAlert(t, a)
  BY DEF VisitAlert
<1>2. sweep[t] \in [pc : {"idle", "queued", "running"}, todo : SUBSET Alerts,
                    seen : SUBSET Alerts, fired : SUBSET Alerts]
      /\ sweep[t].fired \subseteq sweep[t].seen /\ DOMAIN sweep = AlertTasks
  BY DEF AlertInv, AlertTypeOK
<1>3. a \in Alerts /\ undone \in BOOLEAN /\ undone' = undone /\ alert' = alert
      /\ sweep[t].pc = "running"
  BY <1>2 DEF AlertInv, AlertTypeOK, VisitAlert
<1> DEFINE left == sweep[t].todo \ {a}
           was == sweep[t].seen
           seen == was \cup {a}
           fired == sweep[t].fired \cup {a}
           skipped == [sweep[t] EXCEPT !.todo = left]
           checked == [sweep[t] EXCEPT !.todo = left, !.seen = seen]
           notified == [sweep[t] EXCEPT !.todo = left, !.seen = seen, !.fired = fired]
<1>4. CASE SkipAlert(t, a)
  <2>1. sweep' = [sweep EXCEPT ![t] = skipped] /\ told' = told
    BY <1>2, <1>4 DEF SkipAlert
  <2> QED
    BY <1>2, <1>3, <2>1, SweepBecomes
<1>5. CASE CheckAlert(t, a)
  <2>1. sweep' = [sweep EXCEPT ![t] = checked] /\ told' = told
    BY <1>2, <1>5 DEF CheckAlert
  <2> QED
    BY <1>2, <1>3, <2>1, SweepBecomes
<1>6. CASE NotifyAlert(t, a)
  <2>1. sweep' = [sweep EXCEPT ![t] = notified] /\ told' = told \cup {a}
    BY <1>2, <1>6 DEF NotifyAlert
  <2> QED
    BY <1>2, <1>3, <2>1, SweepBecomes
<1> QED
  BY <1>1, <1>4, <1>5, <1>6

\* The commit sets what the run had in its session.
LEMMA CommitSweepKeeps ==
  ASSUME AlertInv, NEW t \in AlertTasks, CommitSweep(t)
  PROVE  AlertInv'
<1>1. AlertTypeOK' /\ \A u \in AlertTasks : sweep'[u].pc # "running" => sweep'[u].fired = {}
  BY DEF CommitSweep, AlertInv, AlertTypeOK, NoSweep
<1>2. AlertsRecorded'
  BY DEF CommitSweep, AlertInv, AlertTypeOK, AlertsRecorded, NoSweep
<1> QED
  BY <1>1, <1>2 DEF AlertInv

LEMMA LostSweepKeeps ==
  ASSUME AlertInv, NEW t \in AlertTasks, RollbackSweep(t) \/ SweepDies(t)
  PROVE  AlertInv'
<1>1. NoSweep \in [pc : {"idle", "queued", "running"}, todo : SUBSET Alerts,
                  seen : SUBSET Alerts, fired : SUBSET Alerts]
      /\ NoSweep.fired = {}
  BY DEF NoSweep
<1>2. sweep' = [sweep EXCEPT ![t] = NoSweep] /\ undone' = TRUE /\ UNCHANGED <<alert, told>>
  BY DEF RollbackSweep, SweepDies
<1> QED
  BY <1>1, <1>2, SweepBecomes

LEMMA AlertRowKeeps ==
  ASSUME AlertInv, NEW a \in Alerts, SwitchAlert(a) \/ DeleteAlert(a)
  PROVE  AlertInv'
<1>1. CASE SwitchAlert(a)
  BY <1>1 DEF SwitchAlert, AlertInv, AlertTypeOK, AlertsRecorded
<1>2. CASE DeleteAlert(a)
  <2>1. AlertTypeOK'
    BY <1>2 DEF DeleteAlert, AlertInv, AlertTypeOK, NoAlert
  <2>2. AlertsRecorded'
    BY <1>2 DEF DeleteAlert, AlertInv, AlertTypeOK, AlertsRecorded
  <2> QED
    BY <1>2, <2>1, <2>2 DEF DeleteAlert, AlertInv
<1> QED
  BY <1>1, <1>2

LEMMA AlertStep ==
  ASSUME AlertInv, AlertNext
  PROVE  AlertInv'
BY DispatchAlertsKeeps, StartSweepKeeps, VisitAlertKeeps, CommitSweepKeeps, LostSweepKeeps,
   AlertRowKeeps DEF AlertNext, SweepStep

LEMMA AlertElse ==
  ASSUME AlertInv, UNCHANGED alertVars
  PROVE  AlertInv'
BY DEF AlertInv, alertVars, AlertTypeOK, AlertsRecorded

----------------------------------------------------------------------------
(* Notices: the reports                                                     *)

\* A record with the fields of a send.
IsSend(s) == s \in [n : {s.n}, stage : {s.stage}, count : {s.count}]

SendOK(s) == IsSend(s) /\ s.stage \in {"queued", "loaded", "mailed"} /\ s.count \in Nat

\* What is or will be committed counts no more than the mails that went out.
CountCovered ==
  /\ report.count <= mails.times
  /\ mails.times = 0 => mails.at = Never
  /\ \A s \in sends : (s.stage = "loaded" => s.count <= mails.times)
                   /\ (s.stage = "mailed" => s.count + 1 <= mails.times)

Spaced == mails.times = 0 \/ day - mails.at >= Period

\* As long as sends neither overlapped nor failed there is one at most; before
\* its mail the last one is a period ago, and its commit counts the mail.
SendsInStep ==
  /\ \A s, t \in sends : s = t
  /\ \A s \in sends : /\ s.stage # "mailed" => Spaced
                      /\ s.stage = "loaded" => s.count = mails.times
                      /\ s.stage = "mailed" => s.count + 1 = mails.times
  /\ report.last <= day
  /\ report.exists /\ (\A s \in sends : s.stage # "mailed") =>
       report.count = mails.times /\ report.last >= mails.at
                                  /\ (report.last = Never => mails.times = 0)

ReportInv ==
  /\ ReportTypeOK /\ \A s \in sends : IsSend(s)
  /\ CountCovered
  /\ ~doubled /\ faults = 0 => SendsInStep

LEMMA ReportFits ==
  ASSUME ReportInv
  PROVE  ReportTypeOK /\ MailsCounted
BY DEF ReportInv, CountCovered, SendsInStep, MailsCounted

LEMMA ReportStart ==
  ASSUME ReportInit
  PROVE  ReportInv
<1>1. /\ day = 1 /\ sends = {} /\ doubled = FALSE
      /\ report = [exists |-> TRUE, active |-> TRUE, last |-> 0, count |-> 0]
      /\ mails = [times |-> 0, at |-> 0]
  BY DEF ReportInit, Never
<1>2. report \in ReportRow
  BY <1>1 DEF ReportRow
<1>3. 1 \in 1..(MaxDay + 1) /\ 0 \in 0..MaxMails
  BY ReportAssumption
<1>4. mails \in [times : 0..MaxMails, at : Nat] /\ mails.at <= day
  BY <1>1, <1>3
<1>5. ReportTypeOK
  BY <1>1, <1>2, <1>3, <1>4 DEF ReportTypeOK
<1> QED
  BY <1>1, <1>5 DEF ReportInv, CountCovered, SendsInStep, Never

LEMMA SendShape ==
  ASSUME NEW stage \in {"queued", "loaded", "mailed"}, NEW count \in Nat, NEW others
  PROVE  LET s == Send0(stage, count, others)
         IN  SendOK(s) /\ s.stage = stage /\ s.count = count
BY DEF Send0, SendOK, IsSend

LEMMA AdvanceShape ==
  ASSUME NEW s \in sends, SendOK(s), NEW stage \in {"queued", "loaded", "mailed"}, NEW count \in Nat,
         Advance(s, stage, count)
  PROVE  \E d : SendOK(d) /\ d.stage = stage /\ d.count = count /\ sends' = (sends \ {s}) \cup {d}
<1> DEFINE d == [s EXCEPT !.stage = stage, !.count = count]
<1>1. IsSend(d) /\ d.stage = stage /\ d.count = count
  BY DEF SendOK, IsSend
<1>2. sends' = (sends \ {s}) \cup {d}
  BY DEF Advance
<1> HIDE DEF d
<1> QED
  BY <1>1, <1>2 DEF SendOK

\* The types that the steps below start from.
LEMMA ReportTypes ==
  ASSUME ReportInv
  PROVE  /\ day \in Nat /\ day >= 1 /\ report \in ReportRow
         /\ mails \in [times : Nat, at : Nat] /\ mails.at <= day
         /\ doubled \in BOOLEAN /\ \A s \in sends : SendOK(s)
BY ReportAssumption DEF ReportInv, ReportTypeOK, SendOK

LEMMA NextDayKeeps ==
  ASSUME ReportInv, NextDay
  PROVE  ReportInv'
<1>1. /\ day \in Nat /\ day >= 1 /\ mails \in [times : Nat, at : Nat] /\ mails.at <= day
      /\ report \in ReportRow
  BY ReportTypes
<1>2. PICK d \in Nat : d = day + 1 /\ day' = d /\ d \in 1..(MaxDay + 1)
  BY <1>1, ReportAssumption DEF NextDay
<1>3. report' = report /\ sends' = sends /\ mails' = mails /\ doubled' = doubled /\ faults' = faults
  BY DEF NextDay, Reporting, NoFault, serviceVars
<1>4. ReportTypeOK'
  BY <1>1, <1>2, <1>3 DEF ReportInv, ReportTypeOK
<1>5. CountCovered' /\ \A s \in sends' : IsSend(s)
  BY <1>3 DEF ReportInv, CountCovered
<1>6. Spaced => Spaced'
  BY <1>1, <1>2, <1>3, ReportAssumption DEF Spaced
<1>7. report.last <= day => report.last <= d
  BY <1>1, <1>2 DEF ReportRow
<1>8. SendsInStep => SendsInStep'
  BY <1>2, <1>3, <1>6, <1>7 DEF SendsInStep
<1> QED
  BY <1>3, <1>4, <1>5, <1>8 DEF ReportInv

\* Beat queues a report that is due, which the last mail is a period ago for.
LEMMA QueueKeeps ==
  ASSUME ReportInv, DispatchReport \/ SendNow
  PROVE  ReportInv'
<1>1. /\ day \in Nat /\ day >= 1 /\ mails \in [times : Nat, at : Nat] /\ mails.at <= day
      /\ report \in ReportRow /\ \A s \in sends : SendOK(s)
  BY ReportTypes
<1>2. report' = report /\ day' = day /\ mails' = mails /\ faults' = faults
  BY DEF DispatchReport, SendNow, Reporting, NoFault, serviceVars, Queue
<1>3. PICK d : SendOK(d) /\ d.stage = "queued" /\ sends' = sends \cup {d}
  BY SendShape DEF DispatchReport, SendNow, Queue
<1>4. doubled' \in BOOLEAN
  BY ReportTypes DEF DispatchReport, SendNow
<1>5. ReportTypeOK' /\ \A s \in sends' : IsSend(s)
  BY <1>1, <1>2, <1>3, <1>4 DEF ReportInv, ReportTypeOK, SendOK
<1>6. CountCovered'
  BY <1>2, <1>3 DEF ReportInv, CountCovered
<1>7. ASSUME ~doubled', faults = 0
      PROVE  SendsInStep'
  <2>1. ~doubled /\ sends = {} /\ Due /\ report.exists
    BY <1>7 DEF DispatchReport, SendNow
  <2>2. /\ report.count = mails.times /\ report.last >= mails.at /\ report.last <= day
        /\ (report.last = Never => mails.times = 0)
    BY <1>7, <2>1 DEF ReportInv, SendsInStep
  <2>3. Spaced
    <3> DEFINE at == mails.at
               last == report.last
    <3>1. at \in Nat /\ last \in Nat
      BY <1>1 DEF ReportRow
    <3>2. last = Never \/ day - last >= Period
      BY <2>1 DEF Due
    <3>3. last >= at /\ (last = Never => mails.times = 0)
      BY <2>2
    <3> HIDE DEF at, last
    <3>4. last = Never \/ day - at >= Period
      BY <1>1, <3>1, <3>2, <3>3, ReportAssumption
    <3> QED
      BY <3>3, <3>4 DEF Spaced, at
  <2>4. Spaced'
    BY <1>2, <2>3 DEF Spaced
  <2>5. sends' = {d}
    BY <1>3, <2>1
  <2> QED
    BY <1>2, <1>3, <2>2, <2>4, <2>5 DEF SendsInStep
<1> QED
  BY <1>2, <1>5, <1>6, <1>7 DEF ReportInv

LEMMA LoadReportKeeps ==
  ASSUME ReportInv, NEW s \in sends, LoadReport(s)
  PROVE  ReportInv'
<1>1. /\ day \in Nat /\ day >= 1 /\ mails \in [times : Nat, at : Nat] /\ mails.at <= day
      /\ report \in ReportRow /\ SendOK(s) /\ (\A t \in sends : SendOK(t)) /\ report.count \in Nat
  BY ReportTypes DEF ReportRow
<1>2. /\ report' = report /\ day' = day /\ mails' = mails /\ faults' = faults /\ doubled' = doubled
      /\ s.stage = "queued"
  BY DEF LoadReport, Reporting, NoFault, serviceVars
<1>3. Spaced' = Spaced
  BY <1>2 DEF Spaced
<1>4. CASE report.exists /\ report.active
  <2>1. PICK d : SendOK(d) /\ d.stage = "loaded" /\ d.count = report.count
                 /\ sends' = (sends \ {s}) \cup {d}
    BY <1>1, <1>4, AdvanceShape DEF LoadReport
  <2>2. ReportTypeOK' /\ \A t \in sends' : IsSend(t)
    BY <1>1, <1>2, <2>1 DEF ReportInv, ReportTypeOK, SendOK
  <2>3. CountCovered'
    BY <1>2, <2>1 DEF ReportInv, CountCovered
  <2>4. ASSUME SendsInStep
        PROVE  SendsInStep'
    <3>1. sends' = {d}
      BY <2>1, <2>4 DEF SendsInStep
    <3>2. Spaced /\ report.count = mails.times
      BY <1>2, <1>4, <2>4 DEF SendsInStep
    <3> QED
      BY <1>2, <1>3, <2>1, <2>4, <3>1, <3>2 DEF SendsInStep
  <2> QED
    BY <1>2, <2>2, <2>3, <2>4 DEF ReportInv
<1>5. CASE ~(report.exists /\ report.active)
  <2>1. sends' = sends \ {s}
    BY <1>5 DEF LoadReport
  <2>2. ReportTypeOK' /\ \A t \in sends' : IsSend(t)
    BY <1>2, <2>1 DEF ReportInv, ReportTypeOK
  <2>3. CountCovered'
    BY <1>2, <2>1 DEF ReportInv, CountCovered
  <2>4. ASSUME SendsInStep
        PROVE  SendsInStep'
    <3>1. sends' = {}
      BY <2>1, <2>4 DEF SendsInStep
    <3> QED
      BY <1>2, <2>4, <3>1 DEF SendsInStep
  <2> QED
    BY <1>2, <2>2, <2>3, <2>4 DEF ReportInv
<1> QED
  BY <1>4, <1>5

LEMMA SendMailKeeps ==
  ASSUME ReportInv, NEW s \in sends, SendMail(s)
  PROVE  ReportInv'
<1> DEFINE n == mails.times
<1>1. /\ day \in Nat /\ day >= 1 /\ n \in Nat
      /\ report \in ReportRow /\ SendOK(s) /\ (\A t \in sends : SendOK(t))
  BY ReportTypes
<1>2. /\ report' = report /\ day' = day /\ faults' = faults /\ doubled' = doubled
      /\ s.stage = "loaded"
  BY DEF SendMail, Reporting, NoFault, serviceVars
<1>3. PICK m \in 0..MaxMails : m = n + 1 /\ mails' = [times |-> m, at |-> day]
  BY <1>1, ReportAssumption DEF SendMail
<1>4. PICK d : SendOK(d) /\ d.stage = "mailed" /\ d.count = s.count
               /\ sends' = (sends \ {s}) \cup {d}
  <2>1. s.count \in Nat
    BY <1>1 DEF SendOK
  <2> QED
    BY <1>1, <2>1, AdvanceShape DEF SendMail
<1>5. ReportTypeOK' /\ \A t \in sends' : IsSend(t)
  BY <1>1, <1>2, <1>3, <1>4 DEF ReportInv, ReportTypeOK, SendOK
<1>6. /\ report.count <= n
      /\ \A t \in sends : (t.stage = "loaded" => t.count <= n) /\ (t.stage = "mailed" => t.count + 1 <= n)
  BY DEF ReportInv, CountCovered
<1>7. report.count \in Nat /\ \A t \in sends : t.count \in Nat
  BY <1>1 DEF ReportRow, SendOK
<1>8. mails'.times = m /\ mails'.at = day
  BY <1>3
<1> HIDE DEF n
<1>9. CountCovered'
  <2>1. report.count <= m /\ ~(m = 0)
    BY <1>1, <1>3, <1>6, <1>7
  <2>2. ASSUME NEW t \in sends'
        PROVE  (t.stage = "loaded" => t.count <= m) /\ (t.stage = "mailed" => t.count + 1 <= m)
    <3>1. CASE t = d
      <4>1. s.count <= n /\ d.count = s.count /\ s.count \in Nat
        BY <1>2, <1>4, <1>6, <1>7
      <4>2. s.count + 1 <= m /\ s.count <= m
        BY <1>1, <1>3, <4>1
      <4> QED
        BY <3>1, <4>1, <4>2
    <3>2. CASE t \in sends
      <4> DEFINE c == t.count
      <4>1. c \in Nat /\ (t.stage = "loaded" => c <= n) /\ (t.stage = "mailed" => c + 1 <= n)
        BY <1>6, <1>7, <3>2
      <4> HIDE DEF c
      <4>2. (t.stage = "loaded" => c <= m) /\ (t.stage = "mailed" => c + 1 <= m)
        BY <1>1, <1>3, <4>1
      <4> QED
        BY <4>2 DEF c
    <3> QED
      BY <1>4, <3>1, <3>2
  <2> QED
    BY <1>2, <1>8, <2>1, <2>2 DEF CountCovered
<1>10. ASSUME SendsInStep
       PROVE  SendsInStep'
  <2>1. sends' = {d}
    BY <1>4, <1>10 DEF SendsInStep
  <2>2. s.count = n /\ report.last <= day
    BY <1>2, <1>10 DEF SendsInStep, n
  <2>3. d.count + 1 = m
    BY <1>3, <1>4, <2>2
  <2> QED
    BY <1>2, <1>4, <1>8, <2>1, <2>2, <2>3 DEF SendsInStep
<1> QED
  BY <1>2, <1>5, <1>9, <1>10 DEF ReportInv

LEMMA MarkSentKeeps ==
  ASSUME ReportInv, NEW s \in sends, MarkSent(s)
  PROVE  ReportInv'
<1>1. /\ day \in Nat /\ day >= 1 /\ mails \in [times : Nat, at : Nat] /\ mails.at <= day
      /\ report \in ReportRow /\ SendOK(s) /\ (\A t \in sends : SendOK(t))
  BY ReportTypes
<1>2. /\ mails' = mails /\ day' = day /\ faults' = faults /\ doubled' = doubled
      /\ s.stage = "mailed" /\ sends' = sends \ {s}
  BY DEF MarkSent, Reporting, NoFault, serviceVars
<1>3. PICK c \in Nat : c = s.count + 1 /\ c <= mails.times
  BY <1>1, <1>2 DEF SendOK, ReportInv, CountCovered
<1>4. report' = IF report.exists THEN [report EXCEPT !.last = day, !.count = c] ELSE report
  BY <1>3 DEF MarkSent
<1>5. report' \in ReportRow /\ report'.exists = report.exists
  BY <1>1, <1>4 DEF ReportRow
<1>6. report'.count <= mails.times
  BY <1>1, <1>3, <1>4 DEF ReportInv, CountCovered, ReportRow
<1>7. ReportTypeOK' /\ CountCovered' /\ \A t \in sends' : IsSend(t)
  BY <1>2, <1>5, <1>6 DEF ReportInv, ReportTypeOK, CountCovered
<1>8. ASSUME SendsInStep
      PROVE  SendsInStep'
  <2>1. sends' = {} /\ c = mails.times
    BY <1>2, <1>3, <1>8 DEF SendsInStep
  <2>2. report'.last <= day
    BY <1>1, <1>4, <1>8 DEF SendsInStep, ReportRow
  <2>3. report'.exists => report'.count = mails.times /\ report'.last = day
    BY <1>1, <1>4, <1>5, <2>1 DEF ReportRow
  <2>4. day >= mails.at /\ day # Never
    BY <1>1 DEF Never
  <2> QED
    BY <1>2, <2>1, <2>2, <2>3, <2>4 DEF SendsInStep
<1> QED
  BY <1>2, <1>7, <1>8 DEF ReportInv

LEMMA SendFailsKeeps ==
  ASSUME ReportInv, faults \in Nat, NEW s \in sends, SendFails(s)
  PROVE  ReportInv'
<1>1. /\ report' = report /\ day' = day /\ mails' = mails /\ doubled' = doubled
      /\ sends' = sends \ {s}
  BY DEF SendFails
<1>2. PICK k \in Nat : faults' = k /\ k # 0
  BY DEF SendFails, Fault
<1> QED
  BY <1>1, <1>2 DEF ReportInv, ReportTypeOK, CountCovered

LEMMA ReportRowKeeps ==
  ASSUME ReportInv, SwitchReport \/ DeleteReport
  PROVE  ReportInv'
<1>1. report \in ReportRow
  BY ReportTypes
<1>2. sends' = sends /\ day' = day /\ mails' = mails /\ doubled' = doubled /\ faults' = faults
  BY DEF SwitchReport, DeleteReport, Reporting, NoFault, serviceVars
<1>3. report' \in ReportRow /\ report'.count = report.count /\ report'.last = report.last
      /\ (report'.exists => report.exists)
  BY <1>1 DEF SwitchReport, DeleteReport, ReportRow
<1>4. ReportTypeOK' /\ CountCovered' /\ \A s \in sends' : IsSend(s)
  BY <1>2, <1>3 DEF ReportInv, ReportTypeOK, CountCovered
<1>5. SendsInStep => SendsInStep'
  BY <1>2, <1>3 DEF SendsInStep, Spaced
<1> QED
  BY <1>2, <1>4, <1>5 DEF ReportInv

LEMMA ReportStep ==
  ASSUME ReportInv, faults \in Nat, ReportNext
  PROVE  ReportInv'
BY NextDayKeeps, QueueKeeps, LoadReportKeeps, SendMailKeeps, MarkSentKeeps, SendFailsKeeps,
   ReportRowKeeps DEF ReportNext, SendStep

\* What another service does counts against the same budget of faults only.
LEMMA ReportElse ==
  ASSUME ReportInv, UNCHANGED reportVars, faults' = 0 => faults = 0
  PROVE  ReportInv'
BY DEF ReportInv, reportVars, ReportTypeOK, CountCovered, SendsInStep, Spaced, IsSend

\* A mail that goes out was loaded when the last one was a period ago.
LEMMA ReportSpaces ==
  ASSUME ReportInv, faults \in Nat, ReportNext
  PROVE  mails'.times # mails.times /\ mails.times # 0
           => doubled \/ faults > 0 \/ day - mails.at >= Period
<1>1. ASSUME NEW s \in sends, SendMail(s), faults = 0, ~doubled, mails.times # 0
      PROVE  day - mails.at >= Period
  BY <1>1 DEF SendMail, ReportInv, SendsInStep, Spaced
<1>2. mails' = mails \/ \E s \in sends : SendMail(s)
  BY DEF ReportNext, NextDay, DispatchReport, SendNow, Queue, SendStep, LoadReport, MarkSent,
         SendFails, SwitchReport, DeleteReport
<1>3. faults = 0 \/ faults > 0
  OBVIOUS
<1> QED
  BY <1>1, <1>2, <1>3

----------------------------------------------------------------------------
(* Lists of numbers in order                                                *)

\* A set of numbers has a least one.
LEMMA LeastNatural ==
  ASSUME NEW S \in SUBSET Nat, S # {}
  PROVE  \E x \in S : \A y \in S : x <= y
<1> DEFINE R == OpToRel(<, Nat)
<1>1. IsWellFoundedOn(R, Nat)
  BY NatLessThanWellFounded
<1>2. \A x, y \in Nat : x < y => <<x, y>> \in R
  BY DEF OpToRel
<1> HIDE DEF R
<1>3. PICK x \in S : \A y \in S : ~(<<y, x>> \in R)
  BY <1>1, WFMin, Zenon
<1>4. ASSUME NEW y \in S
      PROVE  x <= y
  <2>1. ~(y < x)
    BY <1>2, <1>3
  <2>2. x \in Nat /\ y \in Nat
    OBVIOUS
  <2> QED
    BY <2>1, <2>2
<1> QED
  BY <1>4

Rising(f, n) == \A i, j \in 1..n : i < j => f[i] < f[j]

\* Every finite set of numbers can be listed in order: the least one first,
\* then the others, of which there is one less.
LEMMA CanBeListed ==
  ASSUME NEW S \in SUBSET Nat, IsFiniteSet(S)
  PROVE  \E f \in [1..Cardinality(S) -> S] : Rising(f, Cardinality(S))
<1> DEFINE Listable(T) == \E f \in [1..Cardinality(T) -> T] : Rising(f, Cardinality(T))
           Sizes == {n \in Nat : \E T \in SUBSET S : Cardinality(T) = n /\ ~Listable(T)}
<1>1. S \in SUBSET S /\ Cardinality(S) \in Nat
  BY FS_CardinalityType
<1>2. ASSUME Sizes # {}
      PROVE  FALSE
  <2>1. PICK n \in Sizes : \A k \in Sizes : n <= k
    BY <1>2, LeastNatural
  <2>2. PICK T \in SUBSET S : Cardinality(T) = n /\ ~Listable(T)
    OBVIOUS
  <2>3. IsFiniteSet(T) /\ n \in Nat
    BY FS_Subset
  <2>4. T # {}
    <3>1. ASSUME T = {}
          PROVE  Listable(T)
      <4>1. n = 0 /\ 1..n = {}
        BY <2>2, <3>1, FS_EmptySet
      <4>2. [i \in 1..n |-> 0] \in [1..n -> T]
        BY <4>1
      <4>3. Rising([i \in 1..n |-> 0], n)
        BY <4>1 DEF Rising
      <4> QED
        BY <2>2, <4>2, <4>3
    <3> QED
      BY <2>2, <3>1
  <2>5. PICK x \in T : \A y \in T : x <= y
    BY <2>4, LeastNatural
  <2> DEFINE U == T \ {x}
  <2>6. IsFiniteSet(U) /\ Cardinality(U) = n - 1
    BY <2>2, <2>3, FS_RemoveElement
  <2>7. PICK m \in Nat : m = n - 1 /\ n = m + 1 /\ Cardinality(U) = m
    BY <2>6, FS_CardinalityType
  <2>8. ~(m \in Sizes)
    BY <2>1, <2>7
  <2>9. Listable(U)
    BY <2>7, <2>8
  <2>10. PICK f \in [1..m -> U] : Rising(f, m)
    BY <2>7, <2>9
  <2> HIDE DEF U
  <2> DEFINE g == [i \in 1..n |-> IF i = 1 THEN x ELSE f[i - 1]]
  <2>11. \A i \in 1..n : i # 1 => i - 1 \in 1..m
    BY <2>7
  <2>12. g \in [1..n -> T]
    BY <2>11 DEF U
  <2>13. ASSUME NEW i \in 1..n, NEW j \in 1..n, i < j
         PROVE  g[i] < g[j]
    <3>1. j # 1 /\ j - 1 \in 1..m /\ g[j] = f[j - 1]
      BY <2>11, <2>13
    <3>2. f[j - 1] \in U /\ f[j - 1] \in Nat /\ x \in Nat
      BY <3>1 DEF U
    <3>3. CASE i = 1
      <4>1. x <= f[j - 1] /\ x # f[j - 1]
        BY <2>5, <3>2 DEF U
      <4> QED
        BY <3>1, <3>2, <3>3, <4>1
    <3>4. CASE i # 1
      <4>1. i - 1 \in 1..m /\ i - 1 < j - 1 /\ g[i] = f[i - 1]
        BY <2>11, <2>13, <3>4
      <4> QED
        BY <2>10, <3>1, <4>1 DEF Rising
    <3> QED
      BY <3>3, <3>4
  <2>14. Listable(T)
    <3>1. Rising(g, n)
      BY <2>13 DEF Rising
    <3> HIDE DEF g
    <3> QED
      BY <2>2, <2>12, <3>1
  <2> QED
    BY <2>2, <2>14
<1>3. Listable(S)
  BY <1>1, <1>2
<1> QED
  BY <1>3

\* Listed in order, each number has its place, and only one.
LEMMA InOrderLists ==
  ASSUME NEW S \in SUBSET Nat, IsFiniteSet(S)
  PROVE  /\ Cardinality(S) \in Nat
         /\ InOrder(S) \in [1..Cardinality(S) -> S]
         /\ Rising(InOrder(S), Cardinality(S))
         /\ \A i, j \in 1..Cardinality(S) : InOrder(S)[i] = InOrder(S)[j] => i = j
         /\ \A x \in S : \E i \in 1..Cardinality(S) : InOrder(S)[i] = x
<1> DEFINE n == Cardinality(S)
           f == InOrder(S)
<1>1. n \in Nat
  BY FS_CardinalityType
<1>2. f \in [1..n -> S] /\ \A i, j \in 1..n : i < j => f[i] < f[j]
  BY CanBeListed DEF InOrder, Rising
<1> HIDE DEF n, f
<1>3. ASSUME NEW i \in 1..n, NEW j \in 1..n, f[i] = f[j]
      PROVE  i = j
  <2>1. f[i] \in Nat
    BY <1>2
  <2>2. ~(i < j) /\ ~(j < i)
    BY <1>2, <1>3, <2>1
  <2> QED
    BY <1>1, <2>2
<1>4. f \in Surjection(1..n, S)
  <2>1. f \in Injection(1..n, S)
    BY <1>2, <1>3 DEF Injection, IsInjective
  <2>2. Cardinality(1..n) = n
    <3>1. Cardinality(1..n) = IF 1 > n THEN 0 ELSE n - 1 + 1
      BY <1>1, FS_Interval
    <3> QED
      BY <1>1, <3>1
  <2> QED
    BY <2>1, <2>2, FS_Injection DEF n
<1> QED
  BY <1>1, <1>2, <1>3, <1>4 DEF Surjection, Rising, n, f

Lists(f, n, S) == f \in [1..n -> S] /\ Rising(f, n) /\ \A x \in S : \E i \in 1..n : f[i] = x

\* There is only one such list.
LEMMA OnlyOrder ==
  ASSUME NEW n \in Nat, NEW m \in Nat, NEW S \in SUBSET Nat, NEW f, NEW g,
         Lists(f, n, S), Lists(g, m, S)
  PROVE  n = m /\ f = g
<1>0. /\ f \in [1..n -> S] /\ g \in [1..m -> S] /\ Rising(f, n) /\ Rising(g, m)
      /\ \A x \in S : \E i \in 1..n : f[i] = x
      /\ \A x \in S : \E i \in 1..m : g[i] = x
  BY DEF Lists
<1> DEFINE Apart == {i \in Nat : ~(i \in 1..n <=> i \in 1..m) \/ (i \in 1..n /\ f[i] # g[i])}
<1>1. \A i \in 1..n : f[i] \in Nat
  BY <1>0
<1>2. \A i \in 1..m : g[i] \in Nat
  BY <1>0
<1>3. ASSUME NEW i \in Apart, \A j \in Apart : i <= j
      PROVE  FALSE
  <2>1. i \in Nat /\ (i \in 1..n \/ i \in 1..m)
    OBVIOUS
  <2>2. \A j \in 1..(i - 1) : j \in 1..n /\ j \in 1..m /\ f[j] = g[j]
    <3>1. ASSUME NEW j \in 1..(i - 1)
          PROVE  j \notin Apart /\ (j \in 1..n \/ j \in 1..m)
      BY <1>3, <2>1, <3>1
    <3> QED
      BY <3>1
  <2>3. CASE i \in 1..n
    <3>1. PICK k \in 1..m : g[k] = f[i]
      BY <1>0, <2>3
    <3>2. ASSUME k < i
          PROVE  FALSE
      <4>1. k \in 1..(i - 1)
        BY <2>1, <3>2
      <4>2. f[k] = f[i] /\ k \in 1..n
        BY <2>2, <3>1, <4>1
      <4> QED
        BY <1>0, <1>1, <2>3, <3>2, <4>2 DEF Rising
    <3>3. k # i
      BY <2>3, <3>1
    <3>4. i < k /\ i \in 1..m
      BY <2>1, <2>3, <3>2, <3>3
    <3>5. g[i] < f[i]
      BY <1>0, <3>1, <3>4 DEF Rising
    <3>6. PICK l \in 1..n : f[l] = g[i]
      BY <1>0, <3>4
    <3>7. ASSUME l < i
          PROVE  FALSE
      <4>1. l \in 1..(i - 1)
        BY <2>1, <3>7
      <4>2. g[l] = g[i] /\ l \in 1..m
        BY <2>2, <3>6, <4>1
      <4> QED
        BY <1>0, <1>2, <3>4, <3>7, <4>2 DEF Rising
    <3>8. i < l
      BY <2>3, <3>5, <3>6, <3>7, <1>1
    <3>9. f[i] < f[l]
      BY <1>0, <2>3, <3>8 DEF Rising
    <3> QED
      BY <1>1, <1>2, <2>3, <3>4, <3>5, <3>6, <3>9
  <2>4. CASE i \notin 1..n
    <3>1. i \in 1..m
      BY <2>1, <2>4
    <3>2. PICK k \in 1..n : f[k] = g[i]
      BY <1>0, <3>1
    <3>3. k < i
      BY <2>1, <2>4, <3>1, <3>2
    <3>4. k \in 1..m /\ g[k] = g[i]
      BY <2>1, <2>2, <3>2, <3>3
    <3> QED
      BY <1>0, <1>2, <3>1, <3>3, <3>4 DEF Rising
  <2> QED
    BY <2>3, <2>4
<1>4. Apart = {}
  <2>1. Apart \in SUBSET Nat
    OBVIOUS
  <2> HIDE DEF Apart
  <2> QED
    BY <1>3, <2>1, LeastNatural
<1>5. \A i \in Nat : (i \in 1..n <=> i \in 1..m) /\ (i \in 1..n => f[i] = g[i])
  BY <1>4
<1>6. n = m
  <2>1. n \in 1..n \/ n = 0
    OBVIOUS
  <2>2. m \in 1..m \/ m = 0
    OBVIOUS
  <2> QED
    BY <1>5, <2>1, <2>2
<1> QED
  BY <1>0, <1>5, <1>6

----------------------------------------------------------------------------
(* LiveMetrics                                                              *)

\* What stays in the list when some are taken out of it.
LEMMA RemainingLists ==
  ASSUME subscribers \in Seq(Sockets), NEW dead
  PROVE  LET left == Remaining(dead)
         IN  /\ left \in Seq(Sockets)
             /\ \A s : (\E i \in DOMAIN left : left[i] = s)
                         <=> Listed(s) /\ \A k \in DOMAIN dead : dead[k] # s
             /\ (\A i, j \in DOMAIN subscribers : subscribers[i] = subscribers[j] => i = j)
                  => \A i, j \in DOMAIN left : left[i] = left[j] => i = j
<1> DEFINE K == {i \in DOMAIN subscribers : \A k \in DOMAIN dead : dead[k] # subscribers[i]}
           n == Cardinality(K)
           kept == InOrder(K)
           left == Remaining(dead)
<1>1. DOMAIN subscribers = 1..Len(subscribers) /\ Len(subscribers) \in Nat
  BY LenProperties
<1>2. K \in SUBSET (1..Len(subscribers))
  BY <1>1
<1>3. IsFiniteSet(1..Len(subscribers))
  BY <1>1, FS_Interval
<1>4. IsFiniteSet(K)
  BY <1>2, <1>3, FS_Subset
<1>5. K \in SUBSET Nat
  BY <1>1
<1>6. /\ n \in Nat /\ kept \in [1..n -> K]
      /\ \A i, j \in 1..n : kept[i] = kept[j] => i = j
      /\ \A x \in K : \E i \in 1..n : kept[i] = x
  <2> HIDE DEF K
  <2> QED
    BY <1>4, <1>5, InOrderLists
<1>7. left = [j \in DOMAIN kept |-> subscribers[kept[j]]]
  BY DEF Remaining
<1>8. \A i \in K : subscribers[i] \in Sockets
  BY <1>1, ElementOfSeq
<1>9. \A i : i \in K <=> i \in DOMAIN subscribers /\ \A k \in DOMAIN dead : dead[k] # subscribers[i]
  OBVIOUS
<1> HIDE DEF K, n, kept, left
<1>10. DOMAIN left = 1..n /\ left \in [1..n -> Sockets] /\ \A j \in 1..n : left[j] = subscribers[kept[j]]
  BY <1>6, <1>7, <1>8
<1>11. left \in Seq(Sockets)
  BY <1>6, <1>10
<1>12. ASSUME NEW s
       PROVE  (\E i \in DOMAIN left : left[i] = s)
                <=> Listed(s) /\ \A k \in DOMAIN dead : dead[k] # s
  <2>1. ASSUME NEW i \in 1..n, left[i] = s
        PROVE  Listed(s) /\ \A k \in DOMAIN dead : dead[k] # s
    <3>1. kept[i] \in K /\ subscribers[kept[i]] = s
      BY <1>6, <1>10, <2>1
    <3> QED
      BY <1>9, <3>1 DEF Listed
  <2>2. ASSUME Listed(s), \A k \in DOMAIN dead : dead[k] # s
        PROVE  \E i \in 1..n : left[i] = s
    <3>1. PICK x \in DOMAIN subscribers : subscribers[x] = s
      BY <2>2 DEF Listed
    <3>2. PICK i \in 1..n : kept[i] = x
      BY <1>6, <1>9, <2>2, <3>1
    <3> QED
      BY <1>10, <3>1, <3>2
  <2> QED
    BY <1>10, <2>1, <2>2
<1>13. ASSUME \A i, j \in DOMAIN subscribers : subscribers[i] = subscribers[j] => i = j,
              NEW i \in DOMAIN left, NEW j \in DOMAIN left, left[i] = left[j]
       PROVE  i = j
  BY <1>6, <1>9, <1>10, <1>13
<1> QED
  BY <1>11, <1>12, <1>13 DEF left

Busy(s) == socket[s].pc \in {"counted", "sending"}

Gone(s) == ~socket[s].open /\ socket[s].pc # "closed"

Heard(s) == socket[s].seen = received

\* Who is open is in the list, who is in it has connected, and is in it once.
ListFits ==
  /\ \A i, j \in DOMAIN subscribers : subscribers[i] = subscribers[j] => i = j
  /\ \A s \in Sockets : (Listed(s) => socket[s].pc # "closed") /\ (socket[s].open => Listed(s))

\* A broadcast takes only those for dead that have gone.
DeadGone == \A s \in Sockets : \A k \in DOMAIN socket[s].dead : Gone(socket[s].dead[k])

\* As long as Redis works and nobody meets a broadcast there is one at most,
\* and it has reached who stands before its index in the list.
OnCourse(s) ==
  /\ socket[s].total = received
  /\ \A i \in DOMAIN subscribers :
       i < socket[s].next /\ subscribers[i] \in audience => Heard(subscribers[i])
  /\ \A k \in DOMAIN socket[s].dead : Listed(socket[s].dead[k])

BroadcastFits ==
  /\ counters.redis = received
  /\ \A s, t \in Sockets : Busy(s) /\ Busy(t) => s = t
  /\ (\A s \in Sockets : ~Busy(s)) => \A s \in audience : Heard(s)
  /\ \A s \in Sockets : socket[s].pc = "sending" => OnCourse(s)
  /\ \A s \in Sockets : socket[s].pc = "over" => ~Listed(s)

LiveInv ==
  /\ LiveTypeOK /\ ListFits /\ DeadGone
  /\ \A s \in audience : socket[s].open
  /\ faults = 0 /\ ~entangled => BroadcastFits

SocketRow == [pc : {"closed", "receiving", "counted", "sending", "over"},
              open : BOOLEAN, total : Nat, next : Nat \ {0}, dead : Seq(Sockets), seen : Nat]

LEMMA LiveFits ==
  ASSUME LiveInv
  PROVE  LiveTypeOK /\ ListenersKept /\ UpdatesReach
<1>1. ASSUME NEW s \in Sockets, socket[s].open
      PROVE  \E i \in DOMAIN subscribers :
               \A j \in DOMAIN subscribers : subscribers[j] = s <=> j = i
  BY <1>1 DEF LiveInv, ListFits, Listed
<1>2. UpdatesReach
  <2>1. ASSUME faults = 0, ~entangled, \A s \in Sockets : socket[s].pc \in {"closed", "receiving", "over"}
        PROVE  \A s \in audience : socket[s].seen = received
    BY <2>1 DEF LiveInv, BroadcastFits, Busy, Heard
  <2> QED
    BY <2>1 DEF UpdatesReach, LiveInv, BroadcastFits
<1> QED
  BY <1>1, <1>2 DEF LiveInv, ListenersKept

LEMMA LiveStart ==
  ASSUME LiveInit
  PROVE  LiveInv
<1>1. NewSocket \in SocketRow /\ NewSocket.pc = "closed" /\ ~NewSocket.open /\ NewSocket.dead = <<>>
  BY EmptySeq DEF NewSocket, SocketRow
<1>2. /\ subscribers = <<>> /\ socket = [s \in Sockets |-> NewSocket]
      /\ counters = [redis |-> 0, memory |-> 0]
      /\ received = 0 /\ audience = {} /\ entangled = FALSE
  BY DEF LiveInit
<1>3. \A s \in Sockets : socket[s] = NewSocket
  BY <1>2
<1>4. LiveTypeOK
  <2>1. 0 \in 0..MaxEvents /\ <<>> \in Seq(Sockets)
    BY LiveAssumption, EmptySeq
  <2>2. socket \in [Sockets -> SocketRow]
    BY <1>1, <1>2
  <2> QED
    BY <1>2, <2>1, <2>2 DEF LiveTypeOK, SocketRow
<1>5. DOMAIN subscribers = {} /\ \A s \in Sockets : DOMAIN socket[s].dead = {}
  BY <1>1, <1>2, <1>3
<1>6. ListFits /\ DeadGone
  BY <1>1, <1>3, <1>5 DEF ListFits, DeadGone, Listed
<1>7. BroadcastFits
  BY <1>1, <1>2, <1>3 DEF BroadcastFits, Busy
<1> QED
  BY <1>2, <1>4, <1>6, <1>7 DEF LiveInv

\* The types that the steps below start from.
LEMMA LiveTypes ==
  ASSUME LiveInv
  PROVE  /\ subscribers \in Seq(Sockets) /\ socket \in [Sockets -> SocketRow]
         /\ DOMAIN subscribers = 1..Len(subscribers) /\ Len(subscribers) \in Nat
         /\ \A i \in DOMAIN subscribers : subscribers[i] \in Sockets
         /\ \A s \in Sockets : \A k \in DOMAIN socket[s].dead : socket[s].dead[k] \in Sockets
         /\ counters \in [redis : Nat, memory : Nat] /\ received \in 0..MaxEvents /\ received \in Nat
         /\ audience \subseteq Sockets /\ entangled \in BOOLEAN
<1>1. LiveTypeOK
  BY DEF LiveInv
<1>2. socket \in [Sockets -> SocketRow]
  BY <1>1 DEF LiveTypeOK, SocketRow
<1>3. \A s \in Sockets : socket[s].dead \in Seq(Sockets)
  BY <1>2 DEF SocketRow
<1>4. \A s \in Sockets : \A k \in DOMAIN socket[s].dead : socket[s].dead[k] \in Sockets
  BY <1>3, ElementOfSeq, LenProperties
<1>5. subscribers \in Seq(Sockets)
  BY <1>1 DEF LiveTypeOK
<1> QED
  BY <1>1, <1>2, <1>4, <1>5, ElementOfSeq, LenProperties, LiveAssumption DEF LiveTypeOK

LEMMA SocketBecomes ==
  ASSUME socket \in [Sockets -> SocketRow], NEW s \in Sockets, NEW next \in SocketRow,
         socket' = [socket EXCEPT ![s] = next]
  PROVE  /\ socket' \in [Sockets -> SocketRow] /\ socket'[s] = next
         /\ \A t \in Sockets : t # s => socket'[t] = socket[t]
OBVIOUS

\* The rows that a broadcast starts and ends with.
LEMMA RowSends ==
  ASSUME NEW row \in SocketRow, NEW total \in Nat, NEW none \in Seq(Sockets)
  PROVE  [row EXCEPT !.pc = "sending", !.total = total, !.next = 1, !.dead = none, !.seen = total]
           \in SocketRow
<1> DEFINE N == Nat
           I == Nat \ {0}
           D == Seq(Sockets)
<1>1. SocketRow = [pc : {"closed", "receiving", "counted", "sending", "over"}, open : BOOLEAN,
                   total : N, next : I, dead : D, seen : N]
  BY DEF SocketRow
<1>2. total \in N /\ 1 \in I /\ none \in D
  OBVIOUS
<1> HIDE DEF N, I, D
<1> QED
  BY <1>1, <1>2

LEMMA RowDone ==
  ASSUME NEW row \in SocketRow, NEW none \in Seq(Sockets)
  PROVE  [row EXCEPT !.pc = "receiving", !.total = 0, !.next = 1, !.dead = none] \in SocketRow
<1> DEFINE N == Nat
           I == Nat \ {0}
           D == Seq(Sockets)
<1>1. SocketRow = [pc : {"closed", "receiving", "counted", "sending", "over"}, open : BOOLEAN,
                   total : N, next : I, dead : D, seen : N]
  BY DEF SocketRow
<1>2. 0 \in N /\ 1 \in I /\ none \in D
  OBVIOUS
<1> HIDE DEF N, I, D
<1> QED
  BY <1>1, <1>2

LEMMA NewSocketRow ==
  /\ NewSocket \in SocketRow /\ NewSocket.pc = "closed" /\ ~NewSocket.open /\ NewSocket.dead = <<>>
BY EmptySeq DEF NewSocket, SocketRow

LEMMA LiveTypesStay ==
  ASSUME LiveInv, socket' \in [Sockets -> SocketRow],
         UNCHANGED <<subscribers, counters, received, audience, entangled>>
  PROVE  LiveTypeOK'
BY DEF LiveInv, LiveTypeOK, SocketRow

LEMMA ConnectedRow ==
  ASSUME NEW r \in SocketRow
  PROVE  LET next == [r EXCEPT !.pc = "receiving", !.open = TRUE]
         IN  next \in SocketRow /\ next.pc = "receiving" /\ next.open /\ next.dead = r.dead
BY DEF SocketRow

LEMMA ConnectKeeps ==
  ASSUME LiveInv, NEW s \in Sockets, Connect(s)
  PROVE  LiveInv'
<1>1. /\ subscribers \in Seq(Sockets) /\ socket \in [Sockets -> SocketRow]
      /\ DOMAIN subscribers = 1..Len(subscribers) /\ Len(subscribers) \in Nat
      /\ audience \subseteq Sockets
      /\ \A u \in Sockets : \A k \in DOMAIN socket[u].dead : socket[u].dead[k] \in Sockets
  BY LiveTypes
<1>2. /\ subscribers' = Append(subscribers, s) /\ socket[s].pc = "closed"
      /\ UNCHANGED <<counters, received, audience, entangled, faults>>
  BY DEF Connect, Living, NoFault, serviceVars, Handler
<1>3. /\ socket' \in [Sockets -> SocketRow]
      /\ \A t \in Sockets : t # s => socket'[t] = socket[t]
      /\ socket'[s].pc = "receiving" /\ socket'[s].open /\ socket'[s].dead = socket[s].dead
  <2> DEFINE next == [socket[s] EXCEPT !.pc = "receiving", !.open = TRUE]
  <2>1. next \in SocketRow /\ next.pc = "receiving" /\ next.open /\ next.dead = socket[s].dead
    BY <1>1, ConnectedRow
  <2>2. socket' = [socket EXCEPT ![s] = next]
    BY <1>1 DEF Connect, SocketRow
  <2> HIDE DEF next
  <2> QED
    BY <1>1, <2>1, <2>2, SocketBecomes
<1>4. ~socket[s].open /\ ~Listed(s) /\ s \notin audience
  BY <1>2 DEF LiveInv, ListFits
<1>5. PICK n \in Nat : n = Len(subscribers) + 1 /\ DOMAIN subscribers' = 1..n
                       /\ DOMAIN subscribers = 1..(n - 1)
                       /\ subscribers' \in Seq(Sockets) /\ subscribers'[n] = s
                       /\ \A i \in 1..(n - 1) : subscribers'[i] = subscribers[i]
  BY <1>1, <1>2, AppendProperties, LenProperties
<1>6. \A i \in 1..n : i = n \/ i \in 1..(n - 1)
  OBVIOUS
<1>7. \A i \in DOMAIN subscribers : i \in DOMAIN subscribers' /\ subscribers'[i] = subscribers[i]
  BY <1>5
<1>8. \A i \in DOMAIN subscribers' : i \in DOMAIN subscribers \/ (i = n /\ subscribers'[i] = s)
  BY <1>5, <1>6
<1>9. n \in DOMAIN subscribers' /\ subscribers'[n] = s
  BY <1>1, <1>5
<1> HIDE <1>5
<1>10. \A t \in Sockets : Listed(t)' <=> Listed(t) \/ t = s
  BY <1>7, <1>8, <1>9 DEF Listed
<1>11. LiveTypeOK'
  BY <1>2, <1>3, <1>5 DEF LiveInv, LiveTypeOK, SocketRow
<1>12. ListFits'
  <2>1. \A i, j \in DOMAIN subscribers' : subscribers'[i] = subscribers'[j] => i = j
    BY <1>4, <1>7, <1>8 DEF LiveInv, ListFits, Listed
  <2>2. \A t \in Sockets : (Listed(t)' => socket'[t].pc # "closed") /\ (socket'[t].open => Listed(t)')
    BY <1>3, <1>10 DEF LiveInv, ListFits
  <2> QED
    BY <2>1, <2>2 DEF ListFits
<1>13. DeadGone'
  BY SMTT(20), <1>1, <1>2, <1>3 DEF LiveInv, DeadGone, Gone
<1>14. \A t \in audience' : socket'[t].open
  BY <1>1, <1>2, <1>3, <1>4 DEF LiveInv
<1>15. ASSUME BroadcastFits
       PROVE  BroadcastFits'
  <2>1. \A t \in Sockets : Busy(t)' <=> Busy(t)
    BY <1>2, <1>3 DEF Busy
  <2>2. \A t \in audience : Heard(t)' <=> Heard(t)
    BY <1>1, <1>2, <1>3, <1>4 DEF Heard
  <2>3. (\A t \in Sockets : ~Busy(t)') => \A t \in audience' : Heard(t)'
    BY <1>2, <1>15, <2>1, <2>2 DEF BroadcastFits
  <2>4. ASSUME NEW t \in Sockets, socket'[t].pc = "sending"
        PROVE  OnCourse(t)'
    <3>1. t # s /\ socket'[t] = socket[t] /\ OnCourse(t)
      BY <1>3, <1>15, <2>4 DEF BroadcastFits
    <3>2. ASSUME NEW i \in DOMAIN subscribers', i < socket[t].next, subscribers'[i] \in audience
          PROVE  socket'[subscribers'[i]].seen = received
      <4>1. i \in DOMAIN subscribers /\ subscribers'[i] = subscribers[i]
        BY <1>4, <1>7, <1>8, <3>2
      <4>2. Heard(subscribers[i])
        BY <3>1, <3>2, <4>1 DEF OnCourse
      <4>3. subscribers[i] \in Sockets /\ subscribers[i] # s
        BY <1>1, <1>4, <3>2, <4>1
      <4> QED
        BY <1>3, <4>1, <4>2, <4>3 DEF Heard
    <3>3. \A k \in DOMAIN socket[t].dead : socket[t].dead[k] \in Sockets /\ Listed(socket[t].dead[k])
      BY <1>1, <3>1 DEF OnCourse
    <3>4. \A k \in DOMAIN socket[t].dead : \E i \in DOMAIN subscribers' : subscribers'[i] = socket[t].dead[k]
      BY <1>7, <3>3 DEF Listed
    <3> QED
      BY <1>2, <3>1, <3>2, <3>4 DEF OnCourse, Heard, Listed
  <2>5. \A t \in Sockets : socket'[t].pc = "over" => ~Listed(t)'
    BY <1>3, <1>10, <1>15 DEF BroadcastFits
  <2>6. \A t, u \in Sockets : Busy(t)' /\ Busy(u)' => t = u
    BY <1>15, <2>1 DEF BroadcastFits
  <2> QED
    BY <1>2, <1>15, <2>3, <2>4, <2>5, <2>6 DEF BroadcastFits
<1> QED
  BY <1>2, <1>11, <1>12, <1>13, <1>14, <1>15 DEF LiveInv

LEMMA CloseKeeps ==
  ASSUME LiveInv, NEW s \in Sockets, Close(s)
  PROVE  LiveInv'
<1>1. /\ socket \in [Sockets -> SocketRow] /\ audience \subseteq Sockets
      /\ \A u \in Sockets : \A k \in DOMAIN socket[u].dead : socket[u].dead[k] \in Sockets
      /\ \A i \in DOMAIN subscribers : subscribers[i] \in Sockets
  BY LiveTypes
<1>2. /\ audience' = audience \ {s}
      /\ UNCHANGED <<subscribers, counters, received, entangled, faults>>
  BY DEF Close, Living, NoFault, serviceVars
<1>3. /\ socket' \in [Sockets -> SocketRow]
      /\ \A t \in Sockets : t # s => socket'[t] = socket[t]
      /\ socket'[s].pc = socket[s].pc /\ ~socket'[s].open /\ socket'[s].dead = socket[s].dead
      /\ socket'[s].total = socket[s].total /\ socket'[s].next = socket[s].next
  <2> DEFINE next == [socket[s] EXCEPT !.open = FALSE, !.seen = 0]
  <2>1. /\ next \in SocketRow /\ next.pc = socket[s].pc /\ ~next.open /\ next.dead = socket[s].dead
        /\ next.total = socket[s].total /\ next.next = socket[s].next
    BY <1>1 DEF SocketRow
  <2>2. socket' = [socket EXCEPT ![s] = next]
    BY <1>1 DEF Close, SocketRow
  <2> HIDE DEF next
  <2> QED
    BY <1>1, <2>1, <2>2, SocketBecomes
<1>4. \A t : Listed(t)' <=> Listed(t)
  BY <1>2 DEF Listed
<1>5. LiveTypeOK'
  BY <1>1, <1>2, <1>3 DEF LiveInv, LiveTypeOK, SocketRow
<1>6. ListFits'
  BY <1>2, <1>3, <1>4 DEF LiveInv, ListFits
<1>7. DeadGone'
  BY <1>1, <1>3 DEF LiveInv, DeadGone, Gone
<1>8. \A t \in audience' : socket'[t].open /\ socket'[t] = socket[t]
  BY <1>1, <1>2, <1>3 DEF LiveInv
<1>9. ASSUME BroadcastFits
      PROVE  BroadcastFits'
  <2>1. \A t \in Sockets : Busy(t)' <=> Busy(t)
    BY <1>3 DEF Busy
  <2>2. \A t \in audience' : Heard(t)' <=> Heard(t)
    BY <1>2, <1>8 DEF Heard
  <2>3. (\A t \in Sockets : ~Busy(t)') => \A t \in audience' : Heard(t)'
    BY <1>2, <1>9, <2>1, <2>2 DEF BroadcastFits
  <2>4. \A t \in Sockets : /\ socket'[t].pc = socket[t].pc /\ socket'[t].total = socket[t].total
                           /\ socket'[t].next = socket[t].next /\ socket'[t].dead = socket[t].dead
    BY <1>3
  <2>5. ASSUME NEW t \in Sockets, socket'[t].pc = "sending"
        PROVE  OnCourse(t)'
    <3>1. OnCourse(t)
      BY <1>9, <2>4, <2>5 DEF BroadcastFits
    <3>2. \A u \in audience' : u \in audience /\ socket'[u] = socket[u]
      BY <1>2, <1>8
    <3> QED
      BY <1>2, <2>4, <3>1, <3>2 DEF OnCourse, Heard, Listed
  <2>6. \A t, u \in Sockets : Busy(t)' /\ Busy(u)' => t = u
    BY <1>9, <2>1 DEF BroadcastFits
  <2> QED
    BY <1>2, <1>4, <1>9, <2>3, <2>4, <2>5, <2>6 DEF BroadcastFits
<1> QED
  BY <1>2, <1>5, <1>6, <1>7, <1>8, <1>9 DEF LiveInv

LEMMA HandlerEndsKeeps ==
  ASSUME LiveInv, NEW s \in Sockets, HandlerEnds(s)
  PROVE  LiveInv'
<1>1. /\ subscribers \in Seq(Sockets) /\ socket \in [Sockets -> SocketRow] /\ audience \subseteq Sockets
      /\ \A u \in Sockets : \A k \in DOMAIN socket[u].dead : socket[u].dead[k] \in Sockets
      /\ entangled \in BOOLEAN
  BY LiveTypes
<1>2. /\ subscribers' = Remaining(<<s>>) /\ ~socket[s].open /\ socket[s].pc \in {"receiving", "counted"}
      /\ UNCHANGED <<counters, received, audience, faults>>
      /\ entangled' = (entangled \/ Sending # {} \/ Handler(s, "counted"))
  BY DEF HandlerEnds, Living, NoFault, serviceVars
<1>3. /\ socket' \in [Sockets -> SocketRow]
      /\ \A t \in Sockets : t # s => socket'[t] = socket[t]
      /\ socket'[s].pc = "over" /\ ~socket'[s].open /\ socket'[s].dead = socket[s].dead
      /\ socket'[s].seen = socket[s].seen
  <2> DEFINE next == [socket[s] EXCEPT !.pc = "over"]
  <2>1. /\ next \in SocketRow /\ next.pc = "over" /\ next.open = socket[s].open /\ next.dead = socket[s].dead
        /\ next.seen = socket[s].seen
    BY <1>1 DEF SocketRow
  <2>2. socket' = [socket EXCEPT ![s] = next]
    BY <1>1 DEF HandlerEnds, SocketRow
  <2> HIDE DEF next
  <2> QED
    BY <1>1, <1>2, <2>1, <2>2, SocketBecomes
<1>4. /\ subscribers' \in Seq(Sockets)
      /\ \A t : (\E i \in DOMAIN subscribers' : subscribers'[i] = t) <=> Listed(t) /\ t # s
      /\ \A i, j \in DOMAIN subscribers' : subscribers'[i] = subscribers'[j] => i = j
  <2>1. \A t : (\A k \in DOMAIN <<s>> : <<s>>[k] # t) <=> t # s
    OBVIOUS
  <2>2. \A i, j \in DOMAIN subscribers : subscribers[i] = subscribers[j] => i = j
    BY DEF LiveInv, ListFits
  <2> DEFINE dead == <<s>>
  <2>3. subscribers' = Remaining(dead)
    BY <1>2
  <2>4. \A t : (\A k \in DOMAIN dead : dead[k] # t) <=> t # s
    BY <2>1
  <2> HIDE DEF dead
  <2> QED
    BY <1>1, <2>2, <2>3, <2>4, RemainingLists
<1>5. \A t : Listed(t)' <=> Listed(t) /\ t # s
  BY <1>4 DEF Listed
<1>6. LiveTypeOK'
  BY <1>1, <1>2, <1>3, <1>4 DEF LiveInv, LiveTypeOK, SocketRow
<1>7. ListFits'
  BY SMTT(20), <1>2, <1>3, <1>4, <1>5 DEF LiveInv, ListFits
<1>8. DeadGone'
  BY <1>1, <1>2, <1>3 DEF LiveInv, DeadGone, Gone
<1>9. \A t \in audience' : socket'[t].open
  BY <1>1, <1>2, <1>3 DEF LiveInv
<1>10. ASSUME BroadcastFits, ~entangled'
       PROVE  BroadcastFits'
  <2>1. socket[s].pc = "receiving" /\ \A t \in Sockets : socket[t].pc # "sending"
    BY <1>2, <1>10 DEF Sending, Handler
  <2>2. \A t \in Sockets : (Busy(t)' <=> Busy(t)) /\ (Heard(t)' <=> Heard(t))
    BY <1>2, <1>3, <2>1 DEF Busy, Heard
  <2>3. \A t, u \in Sockets : Busy(t)' /\ Busy(u)' => t = u
    BY <1>10, <2>2 DEF BroadcastFits
  <2>4. (\A t \in Sockets : ~Busy(t)') => \A t \in audience' : Heard(t)'
    BY <1>1, <1>2, <1>10, <2>2 DEF BroadcastFits
  <2>5. \A t \in Sockets : socket'[t].pc # "sending"
    BY <1>3, <2>1
  <2>6. \A t \in Sockets : socket'[t].pc = "over" => ~Listed(t)'
    BY <1>3, <1>5, <1>10 DEF BroadcastFits
  <2> QED
    BY <1>2, <1>10, <2>3, <2>4, <2>5, <2>6 DEF BroadcastFits
<1> QED
  BY <1>1, <1>2, <1>6, <1>7, <1>8, <1>9, <1>10 DEF LiveInv

\* What failed counts, so that nothing has as long as the count is 0.
LEMMA FaultCounts ==
  ASSUME faults \in Nat, Fault
  PROVE  faults' # 0
<1>1. PICK n \in Nat : faults' = n /\ n # 0
  BY DEF Fault
<1> QED
  BY <1>1

LEMMA CountEventKeeps ==
  ASSUME LiveInv, faults \in Nat, NEW s \in Sockets, CountEvent(s)
  PROVE  LiveInv'
<1>1. /\ socket \in [Sockets -> SocketRow]
      /\ \A u \in Sockets : \A k \in DOMAIN socket[u].dead : socket[u].dead[k] \in Sockets
      /\ entangled \in BOOLEAN /\ received \in Nat
      /\ counters \in [redis : Nat, memory : Nat] /\ counters.redis \in Nat /\ counters.memory \in Nat
  BY LiveTypes
<1>2. /\ subscribers' = subscribers /\ socket[s].pc = "receiving"
      /\ audience' = {t \in Sockets : socket[t].open /\ Listed(t)}
      /\ entangled' = (entangled \/ \E t \in Sockets : socket[t].pc \in {"counted", "sending"})
      /\ received < MaxEvents
  BY DEF CountEvent, Handler
<1>3. /\ socket' \in [Sockets -> SocketRow]
      /\ \A t \in Sockets : t # s => socket'[t] = socket[t]
      /\ socket'[s].pc = "counted" /\ socket'[s].open = socket[s].open
      /\ socket'[s].dead = socket[s].dead
  <2> DEFINE next == [socket[s] EXCEPT !.pc = "counted"]
  <2>1. /\ next \in SocketRow /\ next.pc = "counted" /\ next.open = socket[s].open
        /\ next.dead = socket[s].dead
    BY <1>1 DEF SocketRow
  <2>2. socket' = [socket EXCEPT ![s] = next]
    BY <1>1 DEF CountEvent, SocketRow
  <2> HIDE DEF next
  <2> QED
    BY <1>1, <2>1, <2>2, SocketBecomes
<1>4. PICK n \in 0..MaxEvents : n = received + 1 /\ received' = n
  BY <1>1, LiveAssumption DEF CountEvent
<1>5. counters' \in [redis : Nat, memory : Nat]
      /\ (faults' = 0 => counters'.redis = counters.redis + 1 /\ faults = 0)
  <2>1. CASE Living /\ counters' = [counters EXCEPT !.redis = @ + 1]
    <3>1. faults' = faults
      BY <2>1 DEF Living, NoFault, serviceVars
    <3> QED
      BY <1>1, <2>1, <3>1
  <2>2. CASE Fault /\ \E k \in {0, 1} : counters' = [redis |-> counters.redis + k,
                                                    memory |-> counters.memory + 1]
    BY <1>1, <2>2, FaultCounts
  <2> QED
    BY <2>1, <2>2 DEF CountEvent
<1>6. \A t : Listed(t)' <=> Listed(t)
  BY <1>2 DEF Listed
<1>7. LiveTypeOK'
  <2>1. audience' \subseteq Sockets /\ entangled' \in BOOLEAN
    BY <1>1, <1>2
  <2> QED
    BY <1>2, <1>3, <1>4, <1>5, <2>1 DEF LiveInv, LiveTypeOK, SocketRow
<1>8. ListFits'
  BY <1>2, <1>3, <1>6 DEF LiveInv, ListFits
<1>9. DeadGone'
  BY <1>1, <1>2, <1>3 DEF LiveInv, DeadGone, Gone
<1>10. \A t \in audience' : socket'[t].open
  BY <1>2, <1>3
<1>11. ASSUME BroadcastFits, ~entangled', faults' = 0
       PROVE  BroadcastFits'
  <2>1. \A t \in Sockets : ~Busy(t)
    BY <1>2, <1>11 DEF Busy
  <2>2. \A t \in Sockets : Busy(t)' => t = s
    BY <1>3, <2>1 DEF Busy
  <2>3. Busy(s)'
    BY <1>3 DEF Busy
  <2>4. \A t \in Sockets : socket'[t].pc # "sending"
    BY <1>3, <2>1 DEF Busy
  <2>5. \A t \in Sockets : socket'[t].pc = "over" => ~Listed(t)'
    BY <1>3, <1>6, <1>11 DEF BroadcastFits
  <2>6. counters'.redis = received'
    BY <1>4, <1>5, <1>11 DEF BroadcastFits
  <2> QED
    BY <2>2, <2>3, <2>4, <2>5, <2>6 DEF BroadcastFits
<1> QED
  BY <1>1, <1>2, <1>5, <1>7, <1>8, <1>9, <1>10, <1>11 DEF LiveInv

LEMMA ReadKpisKeeps ==
  ASSUME LiveInv, faults \in Nat, NEW s \in Sockets, ReadKpis(s)
  PROVE  LiveInv'
<1>1. /\ subscribers \in Seq(Sockets) /\ socket \in [Sockets -> SocketRow] /\ audience \subseteq Sockets
      /\ DOMAIN subscribers = 1..Len(subscribers)
      /\ \A u \in Sockets : \A k \in DOMAIN socket[u].dead : socket[u].dead[k] \in Sockets
      /\ counters \in [redis : Nat, memory : Nat]
  BY LiveTypes
<1>2. /\ UNCHANGED <<subscribers, counters, received, audience, entangled>>
      /\ socket[s].pc = "counted"
  BY DEF ReadKpis, Handler
<1>3. PICK total \in {counters.redis, counters.memory} :
        /\ \/ Living /\ total = counters.redis
           \/ On("live") /\ Fault /\ total = counters.memory
        /\ socket' = [socket EXCEPT ![s] = [@ EXCEPT !.pc = "sending", !.total = total,
                                                    !.next = 1, !.dead = <<>>, !.seen = total]]
  BY DEF ReadKpis
<1>4. faults' = 0 => faults = 0 /\ total = counters.redis
  BY <1>3, FaultCounts DEF Living, NoFault, serviceVars
<1>5. total \in Nat
  BY <1>1
<1>6. /\ socket' \in [Sockets -> SocketRow]
      /\ \A t \in Sockets : t # s => socket'[t] = socket[t]
      /\ socket'[s].pc = "sending" /\ socket'[s].open = socket[s].open
      /\ socket'[s].dead = <<>> /\ socket'[s].total = total /\ socket'[s].next = 1
  <2>1. PICK none \in Seq(Sockets) : none = <<>>
    BY EmptySeq
  <2> DEFINE next == [socket[s] EXCEPT !.pc = "sending", !.total = total,
                                       !.next = 1, !.dead = none, !.seen = total]
  <2>2. socket[s] \in SocketRow
    BY <1>1
  <2>3. /\ next.pc = "sending" /\ next.open = socket[s].open
        /\ next.dead = none /\ next.total = total /\ next.next = 1
    BY <1>5, <2>2 DEF SocketRow
  <2>4. socket' = [socket EXCEPT ![s] = next]
    BY <1>1, <1>3, <2>1
  <2>6. next \in SocketRow
    BY <1>5, <2>1, <2>2, RowSends
  <2> HIDE DEF next
  <2> QED
    BY <1>1, <2>1, <2>3, <2>4, <2>6, SocketBecomes
<1>7. \A t : Listed(t)' <=> Listed(t)
  BY <1>2 DEF Listed
<1>8. LiveTypeOK'
  BY <1>2, <1>6 DEF LiveInv, LiveTypeOK, SocketRow
<1>9. ListFits'
  BY <1>2, <1>6, <1>7 DEF LiveInv, ListFits
<1>10. DeadGone'
  BY <1>1, <1>2, <1>6 DEF LiveInv, DeadGone, Gone
<1>11. \A t \in audience' : socket'[t].open
  BY <1>1, <1>2, <1>6 DEF LiveInv
<1>12. ASSUME BroadcastFits, faults' = 0
       PROVE  BroadcastFits'
  <2>1. \A t \in Sockets : Busy(t)' <=> Busy(t)
    BY <1>2, <1>6 DEF Busy
  <2>2. Busy(s)
    BY <1>2 DEF Busy
  <2>3. \A t \in Sockets : Busy(t)' => t = s
    BY <1>12, <2>1, <2>2 DEF BroadcastFits
  <2>4. \A t \in Sockets : socket'[t].pc = "sending" => t = s
    BY <2>3 DEF Busy
  <2>5. OnCourse(s)'
    <3>1. total = received
      BY <1>4, <1>12 DEF BroadcastFits
    <3>2. \A i \in DOMAIN subscribers : ~(i < 1)
      BY <1>1
    <3> QED
      BY <1>2, <1>6, <3>1, <3>2 DEF OnCourse
  <2>6. \A t \in Sockets : socket'[t].pc = "over" => ~Listed(t)'
    BY <1>6, <1>7, <1>12 DEF BroadcastFits
  <2> QED
    BY <1>2, <1>12, <2>1, <2>2, <2>3, <2>4, <2>5, <2>6 DEF BroadcastFits
<1> QED
  BY <1>2, <1>4, <1>8, <1>9, <1>10, <1>11, <1>12 DEF LiveInv

LEMMA BroadcastToKeeps ==
  ASSUME LiveInv, NEW s \in Sockets, BroadcastTo(s)
  PROVE  LiveInv'
<1> DEFINE n == socket[s].next
           t == subscribers[n]
           sent == socket[s].total
           was == socket[s].dead
<1>1. /\ subscribers \in Seq(Sockets) /\ socket \in [Sockets -> SocketRow] /\ audience \subseteq Sockets
      /\ DOMAIN subscribers = 1..Len(subscribers) /\ Len(subscribers) \in Nat
      /\ \A i \in DOMAIN subscribers : subscribers[i] \in Sockets
      /\ \A u \in Sockets : \A k \in DOMAIN socket[u].dead : socket[u].dead[k] \in Sockets
  BY LiveTypes
<1>2. /\ UNCHANGED <<subscribers, counters, received, audience, entangled, faults>>
      /\ socket[s].pc = "sending" /\ n <= Len(subscribers)
  BY DEF BroadcastTo, Living, NoFault, serviceVars, Handler
<1>10. socket' = IF socket[t].open
                 THEN [[socket EXCEPT ![s].next = @ + 1] EXCEPT ![t].seen = sent]
                 ELSE [[socket EXCEPT ![s].next = @ + 1] EXCEPT ![s].dead = Append(@, t)]
  BY DEF BroadcastTo
<1>3. n \in Nat \ {0} /\ sent \in Nat /\ was \in Seq(Sockets)
  BY <1>1 DEF SocketRow
<1>4. n \in DOMAIN subscribers /\ t \in Sockets
  BY <1>1, <1>2, <1>3
<1>5. Listed(t) /\ socket[t].pc # "closed"
  BY <1>4 DEF Listed, LiveInv, ListFits
<1>6. PICK m \in Nat \ {0} : m = n + 1
  BY <1>3
<1>7. PICK more \in Seq(Sockets) : more = Append(was, t)
  BY <1>3, <1>4, AppendProperties
<1> HIDE DEF n, t, sent, was
<1>8. CASE socket[t].open
  <2> DEFINE on == [socket[s] EXCEPT !.next = m]
             heard == [(IF t = s THEN on ELSE socket[t]) EXCEPT !.seen = sent]
  <2>1. /\ on \in SocketRow /\ on.pc = socket[s].pc /\ on.open = socket[s].open
        /\ on.dead = socket[s].dead /\ on.total = socket[s].total /\ on.next = m
        /\ on.seen = socket[s].seen
    BY <1>1 DEF SocketRow
  <2>2. /\ [socket EXCEPT ![s].next = @ + 1] = [socket EXCEPT ![s] = on]
    BY <1>1, <1>6 DEF n, SocketRow
  <2> DEFINE mid == [socket EXCEPT ![s] = on]
  <2>3. /\ mid \in [Sockets -> SocketRow] /\ mid[s] = on
        /\ \A u \in Sockets : u # s => mid[u] = socket[u]
    BY <1>1, <2>1
  <2> HIDE DEF on
  <2>4. /\ heard \in SocketRow /\ heard.seen = sent
        /\ LET old == IF t = s THEN on ELSE socket[t]
           IN  /\ heard.pc = old.pc /\ heard.open = old.open /\ heard.dead = old.dead
               /\ heard.total = old.total /\ heard.next = old.next
    BY <1>1, <1>3, <1>4, <2>1 DEF SocketRow
  <2>5. socket' = [mid EXCEPT ![t] = [mid[t] EXCEPT !.seen = sent]]
    BY <1>10, <1>4, <1>8, <2>2, <2>3
  <2>6. mid[t] = IF t = s THEN on ELSE socket[t]
    BY <1>4, <2>3
  <2>7. socket' = [mid EXCEPT ![t] = heard]
    BY <2>5, <2>6
  <2> HIDE DEF mid, heard
  <2>8. /\ socket' \in [Sockets -> SocketRow] /\ socket'[t] = heard
        /\ \A u \in Sockets : u # t => socket'[u] = mid[u]
    BY <1>4, <2>3, <2>4, <2>7
  <2>9. /\ \A u \in Sockets : /\ socket'[u].pc = socket[u].pc /\ socket'[u].open = socket[u].open
                              /\ socket'[u].dead = socket[u].dead
                              /\ socket'[u].total = socket[u].total
                              /\ u # s => socket'[u].next = socket[u].next
                              /\ u # t => socket'[u].seen = socket[u].seen
        /\ socket'[s].next = m /\ socket'[t].seen = sent
    BY <1>4, <2>1, <2>3, <2>4, <2>8
  <2>10. LiveTypeOK'
    BY <1>2, <2>8, LiveTypesStay
  <2>11. ListFits'
    BY <1>2, <2>9 DEF LiveInv, ListFits, Listed
  <2>12. DeadGone'
    BY <1>1, <2>9 DEF LiveInv, DeadGone, Gone
  <2>13. \A u \in audience' : socket'[u].open
    BY <1>1, <1>2, <2>9 DEF LiveInv
  <2>14. ASSUME BroadcastFits
         PROVE  BroadcastFits'
    <3>1. \A u \in Sockets : Busy(u)' <=> Busy(u)
      BY <2>9 DEF Busy
    <3>2. Busy(s)
      BY <1>2 DEF Busy
    <3>3. OnCourse(s)
      BY <1>2, <2>14 DEF BroadcastFits
    <3>4. sent = received
      BY <3>3 DEF OnCourse, sent
    <3>5. \A u \in Sockets : Heard(u) => Heard(u)'
      BY <1>2, <2>9, <3>4 DEF Heard
    <3>6. ASSUME NEW i \in DOMAIN subscribers, i < m, subscribers[i] \in audience
          PROVE  socket'[subscribers[i]].seen = received
      <4>1. CASE i = n
        BY <2>9, <3>4, <4>1 DEF t
      <4>2. CASE i # n
        <5>1. i < n
          BY <1>1, <1>3, <1>6, <3>6, <4>2
        <5>2. Heard(subscribers[i]) /\ subscribers[i] \in Sockets
          BY <1>1, <3>3, <3>6, <5>1 DEF OnCourse, n
        <5> QED
          BY <1>2, <3>5, <5>2 DEF Heard
      <4> QED
        BY <4>1, <4>2
    <3>7. OnCourse(s)'
      <4>1. socket'[s].total = received /\ socket'[s].dead = socket[s].dead
        BY <2>9, <3>3 DEF OnCourse
      <4> QED
        BY <1>2, <2>9, <3>3, <3>6, <4>1 DEF OnCourse, Listed, Heard
    <3>8. \A u \in Sockets : socket'[u].pc = "sending" => u = s
      BY <2>9, <2>14, <3>2 DEF BroadcastFits, Busy
    <3>9. \A u \in Sockets : socket'[u].pc = "over" => ~Listed(u)'
      BY <1>2, <2>9, <2>14 DEF BroadcastFits, Listed
    <3> QED
      BY <1>2, <2>14, <3>1, <3>2, <3>7, <3>8, <3>9 DEF BroadcastFits
  <2> QED
    BY <1>2, <2>10, <2>11, <2>12, <2>13, <2>14 DEF LiveInv
<1>9. CASE ~socket[t].open
  <2> DEFINE next == [socket[s] EXCEPT !.next = m, !.dead = more]
  <2>1. /\ next \in SocketRow /\ next.pc = socket[s].pc /\ next.open = socket[s].open
        /\ next.dead = more /\ next.total = socket[s].total /\ next.next = m
        /\ next.seen = socket[s].seen
    BY <1>1 DEF SocketRow
  <2>2. socket' = [socket EXCEPT ![s] = next]
    BY <1>1, <1>10, <1>6, <1>7, <1>9 DEF n, was, SocketRow
  <2> HIDE DEF next
  <2>3. /\ socket' \in [Sockets -> SocketRow] /\ socket'[s] = next
        /\ \A u \in Sockets : u # s => socket'[u] = socket[u]
    BY <1>1, <2>1, <2>2, SocketBecomes
  <2>4. \A u \in Sockets : /\ socket'[u].pc = socket[u].pc /\ socket'[u].open = socket[u].open
                           /\ socket'[u].seen = socket[u].seen
    BY <2>1, <2>3
  <2>5. \A k \in DOMAIN more : more[k] = t \/ \E l \in DOMAIN was : more[k] = was[l]
    <3>1. /\ Len(was) \in Nat /\ DOMAIN was = 1..Len(was) /\ DOMAIN more = 1..Len(more)
          /\ Len(more) = Len(was) + 1 /\ more[Len(was) + 1] = t
          /\ \A i \in 1..Len(was) : more[i] = was[i]
      BY <1>3, <1>4, <1>7, LenProperties, AppendProperties
    <3> QED
      BY <3>1
  <2>6. LiveTypeOK'
    BY <1>2, <2>3, LiveTypesStay
  <2>7. ListFits'
    BY <1>2, <2>4 DEF LiveInv, ListFits, Listed
  <2>8. \A u \in Sockets : Gone(u)' <=> Gone(u)
    BY <2>4 DEF Gone
  <2>9. \A k \in DOMAIN was : was[k] \in Sockets /\ Gone(was[k])
    BY <1>1 DEF LiveInv, DeadGone, was
  <2>10. Gone(t)
    BY <1>5, <1>9 DEF Gone
  <2>11. \A k \in DOMAIN more : more[k] \in Sockets /\ Gone(more[k])
    BY <1>4, <2>5, <2>9, <2>10
  <2>12. \A u \in Sockets : \A k \in DOMAIN socket'[u].dead :
           socket'[u].dead[k] \in Sockets /\ Gone(socket'[u].dead[k])
    BY <1>1, <2>1, <2>3, <2>11 DEF LiveInv, DeadGone
  <2>13. DeadGone'
    BY <2>4, <2>12 DEF DeadGone, Gone
  <2>14. \A u \in audience' : socket'[u].open
    BY <1>1, <1>2, <2>4 DEF LiveInv
  <2>15. ASSUME BroadcastFits
         PROVE  BroadcastFits'
    <3>1. \A u \in Sockets : Busy(u)' <=> Busy(u)
      BY <2>4 DEF Busy
    <3>2. Busy(s)
      BY <1>2 DEF Busy
    <3>3. OnCourse(s)
      BY <1>2, <2>15 DEF BroadcastFits
    <3>4. ASSUME NEW i \in DOMAIN subscribers, i < m, subscribers[i] \in audience
          PROVE  i < n
      <4>1. i # n
        BY <1>9, <3>4 DEF LiveInv, t
      <4> QED
        BY <1>1, <1>3, <1>6, <3>4, <4>1
    <3>5. \A k \in DOMAIN more : Listed(more[k])
      BY <1>5, <2>5, <3>3 DEF OnCourse, was
    <3>6. \A u \in Sockets : Heard(u)' <=> Heard(u)
      BY <1>2, <2>4 DEF Heard
    <3>7. OnCourse(s)'
      <4>1. socket'[s].total = received /\ socket'[s].dead = more /\ socket'[s].next = m
        BY <2>1, <2>3, <3>3 DEF OnCourse
      <4>2. ASSUME NEW i \in DOMAIN subscribers, i < m, subscribers[i] \in audience
            PROVE  socket'[subscribers[i]].seen = received
        <5>1. Heard(subscribers[i]) /\ subscribers[i] \in Sockets
          BY <1>1, <3>3, <3>4, <4>2 DEF OnCourse, n
        <5> QED
          BY <1>2, <3>6, <5>1 DEF Heard
      <4> QED
        BY <1>2, <3>5, <4>1, <4>2 DEF OnCourse, Listed, Heard
    <3>8. \A u \in Sockets : socket'[u].pc = "sending" => u = s
      BY <2>4, <2>15, <3>2 DEF BroadcastFits, Busy
    <3>9. \A u \in Sockets : socket'[u].pc = "over" => ~Listed(u)'
      BY <1>2, <2>4, <2>15 DEF BroadcastFits, Listed
    <3> QED
      BY <1>2, <2>15, <3>1, <3>2, <3>7, <3>8, <3>9 DEF BroadcastFits
  <2> QED
    BY <1>2, <2>6, <2>7, <2>13, <2>14, <2>15 DEF LiveInv
<1> QED
  BY <1>8, <1>9

\* The end of a broadcast takes out of the list only who has gone.
LEMMA BroadcastEndsKeeps ==
  ASSUME LiveInv, NEW s \in Sockets, BroadcastEnds(s)
  PROVE  LiveInv'
<1> DEFINE dead == socket[s].dead
           gone == {i \in DOMAIN dead : ~Listed(dead[i])}
           upTo == IF gone = {} THEN Len(dead) ELSE (CHOOSE i \in gone : \A j \in gone : i <= j) - 1
           removed == SubSeq(dead, 1, upTo)
<1>1. /\ subscribers \in Seq(Sockets) /\ socket \in [Sockets -> SocketRow] /\ audience \subseteq Sockets
      /\ DOMAIN subscribers = 1..Len(subscribers) /\ Len(subscribers) \in Nat
      /\ \A u \in Sockets : \A k \in DOMAIN socket[u].dead : socket[u].dead[k] \in Sockets
      /\ entangled \in BOOLEAN
  BY LiveTypes
<1>2. /\ subscribers' = Remaining(removed) /\ socket[s].pc = "sending"
      /\ socket[s].next > Len(subscribers)
      /\ socket' = [socket EXCEPT ![s] =
                      IF gone = {}
                      THEN [@ EXCEPT !.pc = "receiving", !.total = 0, !.next = 1, !.dead = <<>>]
                      ELSE [NewSocket EXCEPT !.pc = "over"]]
      /\ entangled' = (entangled \/ (dead # <<>> /\ Sending # {s}))
      /\ audience' = {t \in audience : socket'[t].open}
      /\ UNCHANGED <<counters, received, faults>>
  BY DEF BroadcastEnds, Living, NoFault, serviceVars, Handler
<1>3. socket[s] \in SocketRow /\ dead \in Seq(Sockets) /\ socket[s].next \in Nat
  BY <1>1 DEF SocketRow
<1>4. Len(dead) \in Nat /\ DOMAIN dead = 1..Len(dead)
  BY <1>3, LenProperties
<1>5. upTo \in 0..Len(dead)
  <2>1. gone \in SUBSET Nat /\ gone \subseteq 1..Len(dead)
    BY <1>4
  <2>2. ASSUME gone # {}
        PROVE  (CHOOSE i \in gone : \A j \in gone : i <= j) \in gone
    <3>1. \E i \in gone : \A j \in gone : i <= j
      <4> HIDE DEF gone
      <4> QED
        BY <2>1, <2>2, LeastNatural
    <3> QED
      BY <3>1
  <2> DEFINE first == CHOOSE i \in gone : \A j \in gone : i <= j
  <2>3. upTo = IF gone = {} THEN Len(dead) ELSE first - 1
    OBVIOUS
  <2>4. gone # {} => first \in 1..Len(dead)
    BY <2>1, <2>2
  <2> HIDE DEF first, upTo, gone, dead
  <2> QED
    BY <1>4, <2>3, <2>4
<1>6. \A k \in DOMAIN removed : \E l \in DOMAIN dead : removed[k] = dead[l]
  <2> HIDE DEF upTo, dead
  <2>1. \A i \in 1..upTo : dead[i] \in Sockets
    BY <1>3, <1>4, <1>5, ElementOfSeq
  <2>2. /\ removed \in Seq(Sockets) /\ Len(removed) = IF 1 <= upTo THEN upTo - 1 + 1 ELSE 0
        /\ \A i \in 1..(upTo - 1 + 1) : removed[i] = dead[1 + i - 1]
    BY <1>5, <2>1, SubSeqProperties
  <2>3. DOMAIN removed = 1..Len(removed)
    BY <2>2, LenProperties
  <2> HIDE DEF removed
  <2>4. Len(removed) = upTo
    BY <1>5, <2>2
  <2>5. \A i \in 1..upTo : i \in 1..(upTo - 1 + 1) /\ 1 + i - 1 = i /\ i \in DOMAIN dead
    BY <1>4, <1>5
  <2> QED
    BY <2>2, <2>3, <2>4, <2>5
<1>7. \A k \in DOMAIN removed : removed[k] \in Sockets /\ Gone(removed[k])
  BY <1>1, <1>6 DEF LiveInv, DeadGone
<1>8. gone = {} => \A k \in DOMAIN dead : Listed(dead[k])
  OBVIOUS
<1>9. (\A k \in DOMAIN dead : Listed(dead[k])) => gone = {}
  OBVIOUS
<1> HIDE DEF removed, upTo, gone, dead
<1>10. /\ socket' \in [Sockets -> SocketRow]
       /\ \A t \in Sockets : t # s => socket'[t] = socket[t]
       /\ socket'[s].pc = (IF gone = {} THEN "receiving" ELSE "over")
       /\ (socket'[s].open <=> socket[s].open /\ gone = {})
       /\ socket'[s].dead = <<>>
       /\ (gone = {} => socket'[s].seen = socket[s].seen)
  <2>1. PICK none \in Seq(Sockets) : none = <<>>
    BY EmptySeq
  <2> DEFINE done == [socket[s] EXCEPT !.pc = "receiving", !.total = 0, !.next = 1, !.dead = none]
             over == [NewSocket EXCEPT !.pc = "over"]
             next == IF gone = {} THEN done ELSE over
  <2>2. done \in SocketRow
    BY <1>3, <2>1, RowDone
  <2>3. done.pc = "receiving" /\ done.dead = none /\ done.open = socket[s].open /\ done.seen = socket[s].seen
    BY <1>3 DEF SocketRow
  <2>4. over \in SocketRow /\ over.pc = "over" /\ ~over.open /\ over.dead = <<>>
    BY NewSocketRow DEF SocketRow
  <2>5. socket' = [socket EXCEPT ![s] = next]
    BY <1>1, <1>2, <2>1
  <2> HIDE DEF done, over
  <2>6. next \in SocketRow
    BY <2>2, <2>4
  <2>7. /\ socket' \in [Sockets -> SocketRow] /\ socket'[s] = next
        /\ \A t \in Sockets : t # s => socket'[t] = socket[t]
    BY <1>1, <2>5, <2>6, SocketBecomes
  <2> QED
    BY <2>1, <2>3, <2>4, <2>7
<1>11. /\ subscribers' \in Seq(Sockets)
       /\ \A t : (\E i \in DOMAIN subscribers' : subscribers'[i] = t)
                   <=> Listed(t) /\ \A k \in DOMAIN removed : removed[k] # t
       /\ \A i, j \in DOMAIN subscribers' : subscribers'[i] = subscribers'[j] => i = j
  <2>1. \A i, j \in DOMAIN subscribers : subscribers[i] = subscribers[j] => i = j
    BY DEF LiveInv, ListFits
  <2> QED
    BY <1>1, <1>2, <2>1, RemainingLists
<1>12. \A t : Listed(t)' <=> Listed(t) /\ \A k \in DOMAIN removed : removed[k] # t
  BY <1>11 DEF Listed
<1>13. \A t \in Sockets : /\ socket'[t].open => socket[t].open
                          /\ socket'[t].pc = "closed" <=> socket[t].pc = "closed"
                          /\ Gone(t) => Gone(t)'
  BY <1>2, <1>10 DEF Gone
<1>14. LiveTypeOK'
  <2>1. audience' \subseteq Sockets /\ entangled' \in BOOLEAN
    BY <1>1, <1>2
  <2> QED
    BY <1>2, <1>10, <1>11, <2>1 DEF LiveInv, LiveTypeOK, SocketRow
<1>15. ListFits'
  <2>1. ASSUME NEW t \in Sockets
        PROVE  (Listed(t)' => socket'[t].pc # "closed") /\ (socket'[t].open => Listed(t)')
    BY <1>7, <1>12, <1>13 DEF LiveInv, ListFits, Gone
  <2> QED
    BY <1>11, <2>1 DEF ListFits
<1>16. DeadGone'
  <2>1. ASSUME NEW t \in Sockets, NEW k \in DOMAIN socket'[t].dead
        PROVE  t # s /\ socket'[t].dead = socket[t].dead
    BY <1>10, <2>1
  <2>2. \A t \in Sockets : \A k \in DOMAIN socket'[t].dead :
          socket'[t].dead[k] \in Sockets /\ Gone(socket'[t].dead[k])
    BY <1>1, <2>1 DEF LiveInv, DeadGone
  <2>3. \A t \in Sockets : Gone(t) => ~socket'[t].open /\ socket'[t].pc # "closed"
    BY <1>13 DEF Gone
  <2> QED
    BY <2>2, <2>3 DEF DeadGone, Gone
<1>17. \A t \in audience' : socket'[t].open /\ t \in audience
  BY <1>2
<1>18. ASSUME BroadcastFits
       PROVE  BroadcastFits'
  <2>1. Busy(s) /\ OnCourse(s)
    BY <1>2, <1>18 DEF Busy, BroadcastFits
  <2>2. gone = {}
    BY <1>9, <2>1 DEF OnCourse, dead
  <2>3. \A t \in Sockets : ~Busy(t)'
    BY <1>10, <1>18, <2>1, <2>2 DEF BroadcastFits, Busy
  <2>4. ASSUME NEW t \in audience'
        PROVE  Heard(t)'
    <3>1. t \in audience /\ t \in Sockets /\ Listed(t)
      BY <1>1, <1>17 DEF LiveInv, ListFits
    <3>2. PICK i \in DOMAIN subscribers : subscribers[i] = t
      BY <3>1 DEF Listed
    <3>3. i < socket[s].next
      BY <1>1, <1>2, <1>3
    <3>4. Heard(t)
      BY <2>1, <3>1, <3>2, <3>3 DEF OnCourse
    <3> QED
      BY <1>2, <1>10, <2>2, <3>1, <3>4 DEF Heard
  <2>5. \A t \in Sockets : socket'[t].pc # "sending"
    BY <2>3 DEF Busy
  <2>6. \A t \in Sockets : socket'[t].pc = "over" => ~Listed(t)'
    BY <1>10, <1>12, <1>18, <2>2 DEF BroadcastFits
  <2> QED
    BY <1>2, <1>18, <2>3, <2>4, <2>5, <2>6 DEF BroadcastFits
<1> QED
  BY <1>1, <1>2, <1>14, <1>15, <1>16, <1>17, <1>18 DEF LiveInv

LEMMA LiveStep ==
  ASSUME LiveInv, faults \in Nat, LiveNext
  PROVE  LiveInv'
BY ConnectKeeps, CloseKeeps, HandlerEndsKeeps, CountEventKeeps, ReadKpisKeeps,
   BroadcastToKeeps, BroadcastEndsKeeps DEF LiveNext

LEMMA LiveElse ==
  ASSUME LiveInv, UNCHANGED liveVars, faults' = 0 => faults = 0
  PROVE  LiveInv'
<1>1. UNCHANGED <<subscribers, socket, counters, received, audience, entangled>>
  BY DEF liveVars
<1>2. LiveTypeOK'
  BY <1>1, LiveTypes, LiveTypesStay
<1>3. ListFits'
  BY <1>1 DEF LiveInv, ListFits, Listed
<1>4. DeadGone'
  BY <1>1 DEF LiveInv, DeadGone, Gone
<1>5. BroadcastFits => BroadcastFits'
  BY <1>1 DEF BroadcastFits, OnCourse, Listed, Busy, Heard
<1> QED
  BY <1>1, <1>2, <1>3, <1>4, <1>5 DEF LiveInv

----------------------------------------------------------------------------
(* LiveMetrics: the viewers of a dashboard                                  *)

Announcing(v) == outgoing[v].kind = "presence"

\* As long as announcements did not overlap there is one at most, of the list
\* as it is; who does not show the list has still to get it.
HubInStep ==
  /\ \A v, w \in Viewers : Announcing(v) /\ Announcing(w) => v = w
  /\ \A v \in Viewers : Announcing(v) => outgoing[v].viewers = present
  /\ \A w \in present : viewer[w].open =>
       shown[w] = present \/ \E v \in Viewers : Announcing(v) /\ w \in outgoing[v].todo

HubInv ==
  /\ HubTypeOK
  /\ \A v \in Viewers : viewer[v].pc \in {"away", "receiving"} => outgoing[v].kind = "none"
  /\ ~mingled => HubInStep

Outgoing == [kind : {"none", "presence", "edit"}, todo : SUBSET Viewers, viewers : SUBSET Viewers]

LEMMA HubFits ==
  ASSUME HubInv
  PROVE  HubTypeOK /\ PresenceFits
BY DEF HubInv, HubInStep, HubTypeOK, PresenceFits, Announcing

LEMMA HubStart ==
  ASSUME HubInit
  PROVE  HubInv
BY DEF HubInit, HubInv, HubInStep, HubTypeOK, Announcing, NoBroadcast

\* An announcement that overlaps no other is of the list as it is.
LEMMA AnnounceKeeps ==
  ASSUME HubInv, NEW v \in Viewers, NEW list \in SUBSET Viewers, Announce(v, list),
         NEW next \in [pc : {"sending", "left"}, open : BOOLEAN],
         viewer' = [viewer EXCEPT ![v] = next]
  PROVE  HubInv'
<1> DEFINE o == [kind |-> "presence", todo |-> list, viewers |-> list]
<1>1. /\ outgoing' = [outgoing EXCEPT ![v] = o] /\ present' = list /\ shown' = shown
      /\ mingled' = (mingled \/ \E w \in Viewers : Announcing(w))
  BY DEF Announce, Recipients, Announcing
<1>2. o \in Outgoing /\ o.kind = "presence" /\ o.todo = list /\ o.viewers = list
  BY DEF Outgoing
<1> HIDE DEF o
<1>3. outgoing' \in [Viewers -> Outgoing]
  BY <1>1, <1>2 DEF HubInv, HubTypeOK, Outgoing
<1>4. mingled' \in BOOLEAN
  BY <1>1 DEF HubInv, HubTypeOK
<1>5. viewer' \in [Viewers -> [pc : {"away", "receiving", "sending", "left"}, open : BOOLEAN]]
  BY DEF HubInv, HubTypeOK
<1>6. HubTypeOK'
  BY <1>1, <1>3, <1>4, <1>5 DEF HubInv, HubTypeOK, Outgoing
<1>7. /\ \A w \in Viewers : outgoing'[w] = IF w = v THEN o ELSE outgoing[w]
      /\ \A w \in Viewers : viewer'[w] = IF w = v THEN next ELSE viewer[w]
  BY <1>1 DEF HubInv, HubTypeOK
<1>8. ASSUME NEW w \in Viewers, viewer'[w].pc \in {"away", "receiving"}
      PROVE  outgoing'[w].kind = "none"
  BY <1>7, <1>8 DEF HubInv
<1>9. ASSUME ~mingled'
      PROVE  HubInStep'
  <2>1. \A w \in Viewers : outgoing'[w].kind = "presence" <=> w = v
    BY <1>1, <1>2, <1>7, <1>9 DEF Announcing
  <2> QED
    BY <1>1, <1>2, <1>7, <2>1 DEF HubInStep, Announcing
<1> QED
  BY <1>6, <1>8, <1>9 DEF HubInv

LEMMA CloseViewerKeeps ==
  ASSUME HubInv, NEW v \in Viewers, CloseViewer(v)
  PROVE  HubInv'
<1>1. HubTypeOK'
  BY DEF CloseViewer, HubInv, HubTypeOK
<1>2. \A w \in Viewers : /\ viewer'[w].pc = viewer[w].pc
                         /\ w # v => viewer'[w] = viewer[w] /\ shown'[w] = shown[w]
                         /\ w = v => ~viewer'[w].open
  BY DEF CloseViewer, HubInv, HubTypeOK
<1>3. present' = present /\ outgoing' = outgoing /\ mingled' = mingled
  BY DEF CloseViewer
<1>4. present \subseteq Viewers
  BY DEF HubInv, HubTypeOK
<1>5. HubInStep => HubInStep'
  BY <1>2, <1>3, <1>4 DEF HubInStep, Announcing
<1> QED
  BY <1>1, <1>2, <1>3, <1>5 DEF HubInv

LEMMA PassEditKeeps ==
  ASSUME HubInv, NEW v \in Viewers, PassEdit(v)
  PROVE  HubInv'
<1> DEFINE o == [NoBroadcast EXCEPT !.kind = "edit", !.todo = present \ {v}]
<1>1. o \in Outgoing /\ o.kind = "edit"
  BY DEF NoBroadcast, Outgoing, HubInv, HubTypeOK
<1>2. outgoing' = [outgoing EXCEPT ![v] = o] /\ UNCHANGED <<present, shown, mingled>>
  BY DEF PassEdit
<1> HIDE DEF o
<1>3. HubTypeOK'
  <2>1. outgoing' \in [Viewers -> Outgoing]
    BY <1>1, <1>2 DEF HubInv, HubTypeOK, Outgoing
  <2>2. viewer' \in [Viewers -> [pc : {"away", "receiving", "sending", "left"}, open : BOOLEAN]]
    BY DEF PassEdit, HubInv, HubTypeOK
  <2> QED
    BY <1>2, <2>1, <2>2 DEF HubInv, HubTypeOK, Outgoing
<1>4. /\ \A w \in Viewers : outgoing'[w] = IF w = v THEN o ELSE outgoing[w]
      /\ \A w \in Viewers : viewer'[w].open = viewer[w].open
                            /\ (w = v => viewer'[w].pc = "sending")
                            /\ (w # v => viewer'[w] = viewer[w])
  BY <1>2 DEF PassEdit, HubInv, HubTypeOK
<1>5. outgoing[v].kind = "none"
  BY DEF PassEdit, HubInv
<1>6. HubInStep => HubInStep'
  <2>1. \A w \in Viewers : (outgoing'[w].kind = "presence" <=> outgoing[w].kind = "presence")
                           /\ (outgoing[w].kind = "presence" => outgoing'[w] = outgoing[w])
    BY <1>1, <1>4, <1>5
  <2>2. present \subseteq Viewers
    BY DEF HubInv, HubTypeOK
  <2> QED
    BY <1>2, <1>4, <2>1, <2>2 DEF HubInStep, Announcing
<1> QED
  BY <1>2, <1>3, <1>4, <1>6 DEF HubInv

LEMMA SendToKeeps ==
  ASSUME HubInv, NEW v \in Viewers, NEW w \in Viewers, SendTo(v, w)
  PROVE  HubInv'
<1> DEFINE left == outgoing[v].todo \ {w}
           o == [outgoing[v] EXCEPT !.todo = left]
<1>1. outgoing[v] \in Outgoing /\ w \in outgoing[v].todo /\ present \subseteq Viewers
  BY DEF SendTo, HubInv, HubTypeOK, Outgoing
<1>2. /\ o \in Outgoing /\ o.kind = outgoing[v].kind /\ o.viewers = outgoing[v].viewers
      /\ o.todo = outgoing[v].todo \ {w}
  BY <1>1 DEF Outgoing
<1>3. outgoing' = [outgoing EXCEPT ![v] = o] /\ UNCHANGED <<viewer, present, mingled>>
  BY DEF SendTo, HubInv, HubTypeOK
<1> HIDE DEF o, left
<1>4. shown' = IF viewer[w].open /\ outgoing[v].kind = "presence"
               THEN [shown EXCEPT ![w] = outgoing[v].viewers] ELSE shown
  BY DEF SendTo
<1>5. outgoing' \in [Viewers -> Outgoing] /\ shown' \in [Viewers -> SUBSET Viewers]
  BY <1>1, <1>2, <1>3, <1>4 DEF HubInv, HubTypeOK, Outgoing
<1>6. HubTypeOK'
  BY <1>3, <1>5 DEF HubInv, HubTypeOK, Outgoing
<1>7. \A u \in Viewers : outgoing'[u] = IF u = v THEN o ELSE outgoing[u]
  BY <1>3 DEF HubInv, HubTypeOK
<1>8. \A u \in Viewers : outgoing'[u].kind = outgoing[u].kind
                         /\ outgoing'[u].viewers = outgoing[u].viewers
  BY <1>2, <1>7
<1>9. \A u \in Viewers : u # w => shown'[u] = shown[u]
  BY <1>4 DEF HubInv, HubTypeOK
<1>10. viewer[w].open /\ Announcing(v) => shown'[w] = outgoing[v].viewers
  BY <1>4 DEF HubInv, HubTypeOK, Announcing
<1>11. ~Announcing(v) => shown' = shown
  BY <1>4 DEF Announcing
<1>12. ASSUME HubInStep
       PROVE  HubInStep'
  <2>1. \A u, x \in Viewers : Announcing(u)' /\ Announcing(x)' => u = x
    BY <1>8, <1>12 DEF HubInStep, Announcing
  <2>2. \A u \in Viewers : Announcing(u)' => outgoing'[u].viewers = present'
    BY <1>3, <1>8, <1>12 DEF HubInStep, Announcing
  <2>3. ASSUME NEW x \in present, viewer[x].open, shown'[x] # present
        PROVE  \E u \in Viewers : Announcing(u)' /\ x \in outgoing'[u].todo
    <3>1. x \in Viewers
      BY <1>1, <2>3
    <3>2. shown[x] # present
      <4>1. CASE x = w /\ Announcing(v)
        BY <1>10, <1>12, <2>3, <4>1 DEF HubInStep
      <4>2. CASE ~(x = w /\ Announcing(v))
        BY <1>9, <1>11, <2>3, <3>1, <4>2
      <4> QED
        BY <4>1, <4>2
    <3>3. PICK u \in Viewers : Announcing(u) /\ x \in outgoing[u].todo
      BY <1>12, <2>3, <3>2 DEF HubInStep
    <3>4. ~(u = v /\ x = w)
      BY <1>10, <1>12, <2>3, <3>3 DEF HubInStep
    <3>5. x \in outgoing'[u].todo
      BY <1>2, <1>7, <3>3, <3>4
    <3> QED
      BY <1>8, <3>3, <3>5 DEF Announcing
  <2> QED
    BY <1>3, <2>1, <2>2, <2>3 DEF HubInStep
<1> QED
  BY <1>3, <1>6, <1>8, <1>12 DEF HubInv

LEMMA EndBroadcastKeeps ==
  ASSUME HubInv, NEW v \in Viewers, EndBroadcast(v)
  PROVE  HubInv'
<1>1. /\ NoBroadcast \in Outgoing /\ NoBroadcast.kind = "none"
      /\ outgoing[v].todo = {} /\ present \subseteq Viewers
      /\ outgoing' = [outgoing EXCEPT ![v] = NoBroadcast] /\ UNCHANGED <<present, shown, mingled>>
  BY DEF NoBroadcast, Outgoing, EndBroadcast, HubInv, HubTypeOK
<1>2. HubTypeOK'
  <2>1. outgoing' \in [Viewers -> Outgoing]
    BY <1>1 DEF HubInv, HubTypeOK, Outgoing
  <2>2. viewer' \in [Viewers -> [pc : {"away", "receiving", "sending", "left"}, open : BOOLEAN]]
    BY DEF EndBroadcast, HubInv, HubTypeOK
  <2> QED
    BY <1>1, <2>1, <2>2 DEF HubInv, HubTypeOK, Outgoing
<1>3. /\ \A w \in Viewers : outgoing'[w] = IF w = v THEN NoBroadcast ELSE outgoing[w]
      /\ \A w \in Viewers : viewer'[w].open = viewer[w].open
                            /\ (w # v => viewer'[w] = viewer[w])
  BY <1>1 DEF EndBroadcast, HubInv, HubTypeOK
<1>4. \A w \in Viewers : viewer'[w].pc \in {"away", "receiving"} => outgoing'[w].kind = "none"
  BY <1>1, <1>3 DEF HubInv
<1>5. HubInStep => HubInStep'
  BY <1>1, <1>3 DEF HubInStep, Announcing
<1> QED
  BY <1>1, <1>2, <1>4, <1>5 DEF HubInv

LEMMA HubStep ==
  ASSUME HubInv, HubNext
  PROVE  HubInv'
<1>1. PICK v \in Viewers : \/ JoinDashboard(v) \/ CloseViewer(v) \/ LeaveDashboard(v)
                           \/ PassEdit(v) \/ EndBroadcast(v)
                           \/ \E w \in Viewers : SendTo(v, w)
  BY DEF HubNext
<1>2. present \subseteq Viewers
  BY DEF HubInv, HubTypeOK
<1>3. CASE JoinDashboard(v)
  <2> DEFINE next == [pc |-> "sending", open |-> TRUE]
  <2>1. next \in [pc : {"sending", "left"}, open : BOOLEAN]
    OBVIOUS
  <2>2. present \cup {v} \in SUBSET Viewers
    BY <1>2
  <2>3. Announce(v, present \cup {v}) /\ viewer' = [viewer EXCEPT ![v] = next]
    BY <1>3 DEF JoinDashboard
  <2> HIDE DEF next
  <2> QED
    BY <2>1, <2>2, <2>3, AnnounceKeeps
<1>4. CASE LeaveDashboard(v)
  <2> DEFINE next == [viewer[v] EXCEPT !.pc = "left"]
  <2>1. next \in [pc : {"sending", "left"}, open : BOOLEAN]
    BY DEF HubInv, HubTypeOK
  <2>2. present \ {v} \in SUBSET Viewers
    BY <1>2
  <2>3. Announce(v, present \ {v}) /\ viewer' = [viewer EXCEPT ![v] = next]
    BY <1>4 DEF LeaveDashboard, HubInv, HubTypeOK
  <2> HIDE DEF next
  <2> QED
    BY <2>1, <2>2, <2>3, AnnounceKeeps
<1> QED
  BY <1>1, <1>3, <1>4, CloseViewerKeeps, PassEditKeeps, EndBroadcastKeeps, SendToKeeps

LEMMA HubElse ==
  ASSUME HubInv, UNCHANGED hubVars
  PROVE  HubInv'
BY DEF HubInv, hubVars, HubTypeOK, HubInStep, Announcing

----------------------------------------------------------------------------
(* PagedFetch                                                               *)

\* What SubSeq leaves of a list from an index on.
LEMMA SubSeqPlaces ==
  ASSUME NEW S, NEW list \in Seq(S), NEW m \in Nat \ {0}, NEW n \in Nat,
         n <= Len(list), m <= n + 1
  PROVE  LET part == SubSeq(list, m, n)
         IN  /\ part \in Seq(S) /\ Len(part) = n - m + 1
             /\ \A i \in 1..(n - m + 1) : part[i] = list[m + i - 1]
<1>1. DOMAIN list = 1..Len(list) /\ Len(list) \in Nat /\ \A i \in 1..Len(list) : list[i] \in S
  BY LenProperties, ElementOfSeq
<1> DEFINE len == Len(list)
<1>2. \A i \in m..n : i \in 1..len
  BY <1>1
<1>3. \A i \in m..n : list[i] \in S
  BY <1>1, <1>2
<1>4. m \in Int /\ n \in Int
  OBVIOUS
<1> DEFINE part == SubSeq(list, m, n)
<1>5. /\ part \in Seq(S) /\ Len(part) = (IF m <= n THEN n - m + 1 ELSE 0)
      /\ \A i \in 1..(n - m + 1) : part[i] = list[m + i - 1]
  BY <1>3, <1>4, SubSeqProperties
<1> HIDE DEF part
<1>6. Len(part) = n - m + 1
  BY <1>5
<1> QED
  BY <1>5, <1>6 DEF part

\* Two lists with the same places are the same.
LEMMA PageFollows ==
  ASSUME NEW S, NEW L \in Seq(S), NEW a \in Nat, NEW r \in Nat, NEW n \in Nat, n = Len(L),
         a + r <= n
  PROVE  SubSeq(L, 1, a) \o SubSeq(SubSeq(L, a + 1, n), 1, r) = SubSeq(L, 1, a + r)
<1> DEFINE rows == SubSeq(L, 1, a)
           from == SubSeq(L, a + 1, n)
           records == SubSeq(from, 1, r)
           all == SubSeq(L, 1, a + r)
<1>1. a <= n /\ a + 1 \in Nat \ {0} /\ a + 1 <= n + 1 /\ n - (a + 1) + 1 = n - a /\ a + r \in Nat
      /\ 1 \in Nat \ {0} /\ 1 <= a + 1 /\ 1 <= r + 1 /\ 1 <= a + r + 1
      /\ a - 1 + 1 = a /\ r - 1 + 1 = r /\ a + r - 1 + 1 = a + r /\ r <= n - a
  OBVIOUS
<1>2. rows \in Seq(S) /\ Len(rows) = a /\ \A i \in 1..a : rows[i] = L[1 + i - 1]
  <2>1. a <= Len(L) /\ 1 \in Nat \ {0} /\ 1 <= a + 1 /\ a - 1 + 1 = a
    BY <1>1
  <2> QED
    BY <2>1, SubSeqPlaces
<1>3. from \in Seq(S) /\ Len(from) = n - a /\ \A i \in 1..(n - a) : from[i] = L[(a + 1) + i - 1]
  BY <1>1, SubSeqPlaces
<1>4. all \in Seq(S) /\ Len(all) = a + r /\ \A i \in 1..(a + r) : all[i] = L[1 + i - 1]
  BY <1>1, SubSeqPlaces
<1> HIDE DEF rows, from, all
<1>5. records \in Seq(S) /\ Len(records) = r /\ \A i \in 1..r : records[i] = from[1 + i - 1]
  BY <1>1, <1>3, SubSeqPlaces
<1> HIDE DEF records
<1> DEFINE both == rows \o records
<1>6. /\ both \in Seq(S) /\ Len(both) = a + r
      /\ \A i \in 1..(a + r) : both[i] = IF i <= a THEN rows[i] ELSE records[i - a]
  <2>1. /\ both \in Seq(S) /\ Len(both) = Len(rows) + Len(records)
        /\ \A i \in 1..(Len(rows) + Len(records)) :
             both[i] = IF i <= Len(rows) THEN rows[i] ELSE records[i - Len(rows)]
    BY <1>2, <1>5, ConcatProperties
  <2>2. Len(rows) = a /\ Len(records) = r
    BY <1>2, <1>5
  <2> HIDE DEF both
  <2> QED
    BY <2>1, <2>2
<1> HIDE DEF both
<1>7. ASSUME NEW i \in 1..(a + r)
      PROVE  both[i] = all[i]
  <2>1. CASE i <= a
    <3>1. i \in 1..a /\ 1 + i - 1 = i
      BY <2>1
    <3> QED
      BY <1>2, <1>4, <1>6, <2>1, <3>1
  <2>2. CASE ~(i <= a)
    <3>1. i - a \in 1..r /\ i - a \in 1..(n - a) /\ 1 + (i - a) - 1 = i - a
          /\ (a + 1) + (i - a) - 1 = i /\ 1 + i - 1 = i
      BY <1>1, <2>2
    <3>2. both[i] = records[i - a] /\ records[i - a] = from[i - a] /\ from[i - a] = L[i]
      BY <1>3, <1>5, <1>6, <2>2, <3>1
    <3>3. all[i] = L[i]
      BY <1>4, <3>1
    <3> QED
      BY <3>2, <3>3
  <2> QED
    BY <2>1, <2>2
<1>8. both = all
  BY <1>4, <1>6, <1>7, SeqEqual
<1> QED
  BY <1>8 DEF both, all, records, from, rows

\* A page that follows in order keeps the rows in order.
LEMMA PageRises ==
  ASSUME NEW S \in SUBSET Nat, NEW rows \in Seq(S), NEW records \in Seq(S),
         NEW a \in Nat, NEW r \in Nat, Len(rows) = a, Len(records) = r,
         Rising(rows, a), Rising(records, r),
         \A i \in 1..a : \A j \in 1..r : rows[i] < records[j]
  PROVE  Rising(rows \o records, a + r)
<1> DEFINE both == rows \o records
<1>1. \A i \in 1..(a + r) : both[i] = IF i <= a THEN rows[i] ELSE records[i - a]
  BY ConcatProperties
<1> HIDE DEF both
<1>2. ASSUME NEW i \in 1..(a + r), NEW j \in 1..(a + r), i < j
      PROVE  both[i] < both[j]
  <2>1. CASE j <= a
    <3>1. i \in 1..a /\ j \in 1..a /\ i <= a
      BY <1>2, <2>1
    <3>2. both[i] = rows[i] /\ both[j] = rows[j]
      BY <1>1, <2>1, <3>1
    <3> QED
      BY <1>2, <3>1, <3>2 DEF Rising
  <2>2. CASE i <= a /\ ~(j <= a)
    <3>1. i \in 1..a /\ j - a \in 1..r
      BY <2>2
    <3>2. both[i] = rows[i] /\ both[j] = records[j - a]
      BY <1>1, <2>2
    <3> QED
      BY <3>1, <3>2
  <2>3. CASE ~(i <= a)
    <3>1. i - a \in 1..r /\ j - a \in 1..r /\ i - a < j - a /\ ~(j <= a)
      BY <1>2, <2>3
    <3>2. both[i] = records[i - a] /\ both[j] = records[j - a]
      BY <1>1, <2>3, <3>1
    <3> QED
      BY <3>1, <3>2 DEF Rising
  <2> QED
    BY <2>1, <2>2, <2>3
<1> QED
  BY <1>2 DEF Rising, both

\* A beginning of an ordered list is in order.
LEMMA BeginningRises ==
  ASSUME NEW S, NEW list \in Seq(S), NEW n \in Nat, n <= Len(list), Rising(list, Len(list))
  PROVE  Rising(SubSeq(list, 1, n), n)
<1> DEFINE part == SubSeq(list, 1, n)
<1>1. Len(list) \in Nat
  BY LenProperties
<1>2. 1 \in Nat \ {0} /\ 1 <= n + 1 /\ n - 1 + 1 = n
  OBVIOUS
<1>3. \A i \in 1..n : part[i] = list[1 + i - 1]
  BY <1>2, SubSeqPlaces
<1> HIDE DEF part
<1>4. \A i \in 1..n : i \in 1..Len(list) /\ part[i] = list[i]
  BY <1>1, <1>3
<1> QED
  BY <1>4 DEF Rising, part

\* A set of keys, listed.
LEMMA KeysListed ==
  ASSUME NEW K \in SUBSET Keys
  PROVE  /\ InOrder(K) \in Seq(Keys) /\ Len(InOrder(K)) = Cardinality(K) /\ Cardinality(K) \in Nat
         /\ InOrder(K) \in [1..Cardinality(K) -> K]
         /\ Rising(InOrder(K), Cardinality(K))
         /\ \A x \in K : \E i \in 1..Cardinality(K) : InOrder(K)[i] = x
<1>1. K \in SUBSET Nat
  BY FetchAssumption DEF Keys
<1>2. IsFiniteSet(Keys)
  BY FetchAssumption, FS_Interval DEF Keys
<1>3. IsFiniteSet(K)
  BY <1>2, FS_Subset
<1> DEFINE n == Cardinality(K)
           f == InOrder(K)
<1>4. /\ n \in Nat /\ f \in [1..n -> K] /\ Rising(f, n)
      /\ \A x \in K : \E i \in 1..n : f[i] = x
  BY <1>1, <1>3, InOrderLists
<1> HIDE DEF n, f
<1>5. f \in [1..n -> Keys]
  BY <1>4
<1>6. f \in Seq(Keys) /\ Len(f) = n
  BY <1>4, <1>5
<1> QED
  BY <1>4, <1>6 DEF n, f

\* What comes after a key of the list is the rest of the list.
LEMMA TokenRest ==
  ASSUME NEW K \in SUBSET Keys, NEW p \in Nat, NEW after \in Nat, p <= Cardinality(K),
         after = IF p = 0 THEN 0 ELSE InOrder(K)[p]
  PROVE  InOrder({k \in K : k > after}) = SubSeq(InOrder(K), p + 1, Cardinality(K))
<1> DEFINE L == InOrder(K)
           n == Cardinality(K)
           T == {k \in K : k > after}
           rest == SubSeq(L, p + 1, n)
<1>1. /\ L \in Seq(Keys) /\ Len(L) = n /\ n \in Nat /\ L \in [1..n -> K] /\ Rising(L, n)
      /\ \A x \in K : \E i \in 1..n : L[i] = x
  BY KeysListed
<1> HIDE DEF L, n
<1>2. p <= n /\ after = (IF p = 0 THEN 0 ELSE L[p])
  BY DEF L, n
<1>3. p + 1 \in Nat \ {0} /\ p + 1 <= n + 1 /\ n <= n /\ n - (p + 1) + 1 = n - p /\ n - p \in Nat
  BY <1>1, <1>2
<1>4. rest \in Seq(Keys) /\ Len(rest) = n - p /\ \A i \in 1..(n - p) : rest[i] = L[(p + 1) + i - 1]
  BY <1>1, <1>3, SubSeqPlaces
<1> HIDE DEF rest
<1>5. \A i \in 1..(n - p) : p + i \in 1..n /\ rest[i] = L[p + i]
  <2>1. \A i \in 1..(n - p) : p + i \in 1..n /\ (p + 1) + i - 1 = p + i
    BY <1>1, <1>2
  <2> QED
    BY <1>4, <2>1
<1>6. \A k \in K : k \in Nat /\ k > 0
  BY FetchAssumption DEF Keys
<1>7. ASSUME NEW i \in 1..(n - p)
      PROVE  rest[i] \in T
  <2>1. p + i \in 1..n /\ rest[i] = L[p + i] /\ L[p + i] \in K
    BY <1>1, <1>5
  <2>2. CASE p = 0
    BY <1>2, <1>6, <2>1, <2>2
  <2>3. CASE p # 0
    <3>1. p \in 1..n /\ p < p + i
      BY <1>1, <1>2, <2>3
    <3>2. L[p] < L[p + i]
      BY <1>1, <2>1, <3>1 DEF Rising
    <3>3. L[p] \in Nat /\ L[p + i] \in Nat
      BY <1>1, <1>6, <2>1, <3>1
    <3> QED
      BY <1>2, <2>1, <2>3, <3>2, <3>3
  <2> QED
    BY <2>2, <2>3
<1>8. rest \in [1..(n - p) -> T]
  <2>1. DOMAIN rest = 1..(n - p) /\ rest \in [1..(n - p) -> Keys]
    BY <1>4, LenProperties
  <2> HIDE DEF T
  <2> QED
    BY <1>7, <2>1
<1>9. Rising(rest, n - p)
  <2>1. ASSUME NEW i \in 1..(n - p), NEW j \in 1..(n - p), i < j
        PROVE  rest[i] < rest[j]
    <3>1. p + i \in 1..n /\ p + j \in 1..n /\ p + i < p + j
      BY <1>5, <2>1
    <3> QED
      BY <1>1, <1>5, <3>1 DEF Rising
  <2> QED
    BY <2>1 DEF Rising
<1>10. ASSUME NEW x \in T
       PROVE  \E i \in 1..(n - p) : rest[i] = x
  <2>1. PICK j \in 1..n : L[j] = x
    BY <1>1
  <2>2. j > p
    <3>1. ASSUME j <= p
          PROVE  FALSE
      <4>1. p # 0 /\ p \in 1..n
        BY <1>1, <1>2, <3>1
      <4>2. L[p] \in Nat /\ L[j] \in Nat /\ L[j] > L[p]
        BY <1>1, <1>2, <1>6, <2>1, <4>1
      <4>3. j = p \/ j < p
        BY <1>1, <3>1
      <4> QED
        BY <1>1, <4>1, <4>2, <4>3 DEF Rising
    <3> QED
      BY <1>1, <3>1
  <2>3. j - p \in 1..(n - p) /\ p + (j - p) = j
    BY <1>1, <1>2, <2>2
  <2> QED
    BY <1>5, <2>1, <2>3
<1> DEFINE m == Cardinality(T)
           g == InOrder(T)
<1>11. T \in SUBSET Keys
  OBVIOUS
<1>12. T \in SUBSET Nat
  BY <1>6
<1> HIDE DEF T
<1>13. /\ m \in Nat /\ g \in [1..m -> T] /\ Rising(g, m)
       /\ \A x \in T : \E i \in 1..m : g[i] = x
  BY <1>11, KeysListed
<1> HIDE DEF m, g
<1>14. PICK q \in Nat : q = n - p
  BY <1>3
<1>15. rest \in [1..q -> T] /\ Rising(rest, q) /\ \A x \in T : \E i \in 1..q : rest[i] = x
  BY <1>8, <1>9, <1>10, <1>14
<1>16. Lists(rest, q, T) /\ Lists(g, m, T)
  BY <1>13, <1>15 DEF Lists
<1>17. g = rest
  BY <1>12, <1>13, <1>16, OnlyOrder
<1> QED
  BY <1>17 DEF g, T, rest, L, n

\* A beginning of a beginning.
LEMMA BeginningOf ==
  ASSUME NEW S, NEW list \in Seq(S), NEW b \in Nat, NEW m \in Nat, b <= Len(list), m <= b
  PROVE  SubSeq(SubSeq(list, 1, b), 1, m) = SubSeq(list, 1, m)
<1> DEFINE part == SubSeq(list, 1, b)
           short == SubSeq(list, 1, m)
<1>1. Len(list) \in Nat
  BY LenProperties
<1>2. /\ 1 \in Nat \ {0} /\ 1 <= b + 1 /\ 1 <= m + 1 /\ b - 1 + 1 = b /\ m - 1 + 1 = m
      /\ m <= Len(list)
  BY <1>1
<1>3. part \in Seq(S) /\ Len(part) = b /\ \A i \in 1..b : part[i] = list[1 + i - 1]
  BY <1>2, SubSeqPlaces
<1>4. short \in Seq(S) /\ Len(short) = m /\ \A i \in 1..m : short[i] = list[1 + i - 1]
  BY <1>2, SubSeqPlaces
<1> HIDE DEF part, short
<1> DEFINE again == SubSeq(part, 1, m)
<1>5. again \in Seq(S) /\ Len(again) = m /\ \A i \in 1..m : again[i] = part[1 + i - 1]
  BY <1>2, <1>3, SubSeqPlaces
<1> HIDE DEF again
<1>6. \A i \in 1..m : i \in 1..b /\ 1 + i - 1 = i
  OBVIOUS
<1>7. \A i \in 1..m : again[i] = short[i]
  BY <1>3, <1>4, <1>5, <1>6
<1>8. again = short
  BY <1>4, <1>5, <1>7, SeqEqual
<1> QED
  BY <1>8 DEF again, part, short

\* The rows of a fetch and what they stand for: in order with tokens; while it
\* asks, the place it has come to and, in a source that has not changed, a
\* beginning of the source; once it is through, the first of the source.
RowsFit(pc, rows, max, after, paging, K, moved) ==
  /\ rows \in Seq(Keys) /\ Len(rows) <= max
  /\ paging = "token" => Rising(rows, Len(rows))
  /\ pc = "asking" => after = (IF paging # "token" THEN Len(rows)
                               ELSE IF Len(rows) = 0 THEN 0 ELSE rows[Len(rows)])
  /\ pc = "asking" /\ ~moved => Len(rows) <= Cardinality(K) /\ rows = SubSeq(InOrder(K), 1, Len(rows))
  /\ pc = "done" /\ ~moved => rows = SubSeq(InOrder(K), 1, Smaller(max, Cardinality(K)))

\* What the source still has, for a source with keys K.
StillToCome(paging, K, after) ==
  IF paging = "token" THEN InOrder({k \in K : k > after})
  ELSE SubSeq(InOrder(K), after + 1, Cardinality(K))

\* What is still to come: rows, after the last one that came where tokens tell,
\* and the rest of a source that has not changed.
LEMMA RestFits ==
  ASSUME NEW K \in SUBSET Keys, NEW paging, NEW rows, NEW max, NEW after \in Nat, NEW moved \in BOOLEAN,
         RowsFit("asking", rows, max, after, paging, K, moved)
  PROVE  /\ StillToCome(paging, K, after) \in Seq(Keys)
         /\ paging = "token" => /\ Rising(StillToCome(paging, K, after), Len(StillToCome(paging, K, after)))
                                /\ \A i \in 1..Len(StillToCome(paging, K, after)) : StillToCome(paging, K, after)[i] > after
         /\ ~moved => StillToCome(paging, K, after) = SubSeq(InOrder(K), Len(rows) + 1, Cardinality(K))
<1> DEFINE L == InOrder(K)
           n == Cardinality(K)
           a == Len(rows)
           T == {k \in K : k > after}
<1>1. L \in Seq(Keys) /\ Len(L) = n /\ n \in Nat
  BY KeysListed
<1>2. rows \in Seq(Keys) /\ a \in Nat
  BY LenProperties DEF RowsFit
<1>3. CASE paging = "token"
  <2>1. T \in SUBSET Keys /\ StillToCome(paging, K, after) = InOrder(T)
    BY <1>3 DEF StillToCome
  <2>2. \A x \in T : x > after
    OBVIOUS
  <2> DEFINE g == InOrder(T)
             m == Cardinality(T)
  <2> HIDE DEF T
  <2>3. g \in Seq(Keys) /\ Len(g) = m /\ m \in Nat /\ g \in [1..m -> T] /\ Rising(g, m)
    BY <2>1, KeysListed
  <2> HIDE DEF g, m
  <2>4. \A i \in 1..Len(g) : g[i] > after
    BY <2>2, <2>3
  <2>5. ASSUME ~moved
        PROVE  g = SubSeq(L, a + 1, n)
    <3>1. /\ after = (IF a = 0 THEN 0 ELSE rows[a]) /\ a <= n
          /\ rows = SubSeq(L, 1, a)
      BY <1>3, <2>5 DEF RowsFit
    <3>2. 1 \in Nat \ {0} /\ 1 <= a + 1 /\ a - 1 + 1 = a
      BY <1>2
    <3> HIDE DEF L, n, a
    <3>3. \A i \in 1..a : SubSeq(L, 1, a)[i] = L[1 + i - 1]
      BY <1>1, <1>2, <3>1, <3>2, SubSeqPlaces
    <3>4. a # 0 => rows[a] = L[a]
      <4>1. a # 0 => a \in 1..a /\ 1 + a - 1 = a
        BY <1>2
      <4> QED
        BY <3>1, <3>3, <4>1
    <3>5. after = IF a = 0 THEN 0 ELSE L[a]
      BY <3>1, <3>4
    <3>6. InOrder({k \in K : k > after}) = SubSeq(InOrder(K), a + 1, Cardinality(K))
      BY <1>2, <3>1, <3>5, TokenRest DEF L, n
    <3> QED
      BY <3>6 DEF g, T, L, n
  <2> QED
    BY <1>3, <2>1, <2>3, <2>4, <2>5 DEF g
<1>4. CASE paging # "token"
  <2>1. StillToCome(paging, K, after) = SubSeq(L, after + 1, n)
    BY <1>4 DEF StillToCome
  <2>2. \A i \in 1..n : L[i] \in Keys
    BY <1>1, ElementOfSeq
  <2>3. after + 1 \in Int /\ n \in Int /\ \A i \in (after + 1)..n : i \in 1..n
    BY <1>1
  <2> HIDE DEF L, n, a
  <2>4. \A i \in (after + 1)..n : L[i] \in Keys
    BY <2>2, <2>3
  <2>5. SubSeq(L, after + 1, n) \in Seq(Keys)
    BY <2>3, <2>4, SubSeqProperties
  <2>6. ~moved => after = a
    BY <1>4 DEF RowsFit, a
  <2> QED
    BY <1>4, <2>1, <2>5, <2>6 DEF L, n, a
<1> QED
  BY <1>3, <1>4

\* How many records a page has.
PageLength(limit, cap, n) == Smaller(Smaller(limit, cap), n)

LEMMA PageHasRecords ==
  ASSUME NEW limit \in Nat, NEW cap \in Nat, NEW n \in Nat, limit > 0, cap > 0
  PROVE  /\ PageLength(limit, cap, n) \in Nat /\ PageLength(limit, cap, n) <= n
         /\ PageLength(limit, cap, n) = 0 => n = 0
  BY DEF PageLength, Smaller

\* The rows with the next page: they fit as what is still to be asked for, and,
\* cut at max or when there is nothing more, as what there is.
LEMMA PageFits ==
  ASSUME NEW K \in SUBSET Keys, NEW paging, NEW rows, NEW max \in Nat, NEW after \in Nat,
         NEW moved \in BOOLEAN, RowsFit("asking", rows, max, after, paging, K, moved),
         NEW r \in Nat, r <= Len(StillToCome(paging, K, after))
  PROVE  LET both == rows \o SubSeq(StillToCome(paging, K, after), 1, r)
         IN  /\ both \in Seq(Keys)
             /\ Len(both) \in Nat
             /\ Len(both) >= max => RowsFit("done", SubSeq(both, 1, max), max, after, paging, K, moved)
             /\ Len(both) < max /\ r = Len(StillToCome(paging, K, after))
                  => RowsFit("done", both, max, after, paging, K, moved)
             /\ Len(both) < max /\ r # 0
                  => /\ Len(both) # 0 /\ both[Len(both)] \in Nat
                     /\ RowsFit("asking", both, max, IF paging = "token" THEN both[Len(both)] ELSE Len(both),
                                paging, K, moved)
<1> DEFINE L == InOrder(K)
           n == Cardinality(K)
           a == Len(rows)
           from == StillToCome(paging, K, after)
           f == Len(from)
           records == SubSeq(from, 1, r)
           both == rows \o records
           b == Len(both)
           first == SubSeq(both, 1, max)
<1>1. L \in Seq(Keys) /\ Len(L) = n /\ n \in Nat
  BY KeysListed
<1>2. rows \in Seq(Keys) /\ a \in Nat /\ Len(rows) = a /\ a <= max
  BY LenProperties DEF RowsFit
<1>3. /\ from \in Seq(Keys) /\ f \in Nat /\ Len(from) = f /\ r <= f
      /\ paging = "token" => Rising(from, f) /\ \A i \in 1..f : from[i] > after
      /\ ~moved => from = SubSeq(L, a + 1, n)
  <2>1. f \in Nat
    BY RestFits, LenProperties
  <2> QED
    BY <2>1, RestFits
<1>4. Keys \in SUBSET Nat
  BY FetchAssumption DEF Keys
<1>5. /\ paging = "token" => Rising(rows, a) /\ after = IF a = 0 THEN 0 ELSE rows[a]
      /\ ~moved => a <= n /\ rows = SubSeq(L, 1, a)
  BY DEF RowsFit
<1>6. 1 \in Nat \ {0} /\ 1 <= r + 1 /\ r - 1 + 1 = r /\ 1 <= max + 1 /\ max - 1 + 1 = max /\ a + r \in Nat
  BY <1>2
<1> HIDE DEF L, n, a, from, f
<1>7. records \in Seq(Keys) /\ Len(records) = r /\ \A i \in 1..r : records[i] = from[1 + i - 1]
  BY <1>3, <1>6, SubSeqPlaces
<1> HIDE DEF records
<1>8. both \in Seq(Keys) /\ Len(both) = a + r
  BY <1>2, <1>7, ConcatProperties
<1> HIDE DEF both
<1>9. b = a + r /\ b \in Nat
  BY <1>6, <1>8
<1> HIDE DEF b
<1>10. \A i \in 1..b : both[i] \in Nat
  BY <1>4, <1>8, <1>9, ElementOfSeq
<1>11. ASSUME paging = "token"
       PROVE  Rising(both, b)
  <2>1. Rising(records, r)
    BY <1>3, <1>11, BeginningRises DEF records
  <2>2. \A i \in 1..r : records[i] = from[i] /\ i \in 1..f
    <3>1. \A i \in 1..r : 1 + i - 1 = i /\ i \in 1..f
      BY <1>3
    <3> QED
      BY <1>7, <3>1
  <2>3. \A i \in 1..r : records[i] > after
    BY <1>3, <1>11, <2>2
  <2>4. \A i \in 1..a : rows[i] \in Nat
    BY <1>2, <1>4, ElementOfSeq
  <2>5. \A i \in 1..r : records[i] \in Nat
    BY <1>4, <1>7, ElementOfSeq
  <2>6. ASSUME NEW i \in 1..a, NEW j \in 1..r
        PROVE  rows[i] < records[j]
    <3>1. a # 0 /\ a \in 1..a /\ (i = a \/ i < a)
      BY <1>2
    <3>2. i = a \/ rows[i] < rows[a]
      BY <1>5, <1>11, <3>1 DEF Rising
    <3>3. after = rows[a]
      BY <1>5, <1>11, <3>1
    <3> QED
      BY <2>3, <2>4, <2>5, <3>1, <3>2, <3>3
  <2>7. Rising(rows, a)
    BY <1>5, <1>11
  <2>8. Rising(rows \o records, a + r)
    BY <1>2, <1>4, <1>7, <2>1, <2>6, <2>7, PageRises
  <2> QED
    BY <1>9, <2>8 DEF both
<1>12. ASSUME ~moved
       PROVE  both = SubSeq(L, 1, b) /\ b <= n /\ f = n - a
  <2>1. a <= n /\ rows = SubSeq(L, 1, a) /\ from = SubSeq(L, a + 1, n)
    BY <1>3, <1>5, <1>12
  <2>2. a + 1 \in Nat \ {0} /\ n <= n /\ a + 1 <= n + 1 /\ n - (a + 1) + 1 = n - a
    BY <1>1, <1>2, <2>1
  <2>3. Len(SubSeq(L, a + 1, n)) = n - a
    BY <1>1, <2>2, SubSeqPlaces
  <2>4. f = n - a
    BY <1>3, <2>1, <2>3
  <2>5. a + r <= n
    BY <1>1, <1>2, <1>3, <2>4
  <2>6. SubSeq(L, 1, a) \o SubSeq(SubSeq(L, a + 1, n), 1, r) = SubSeq(L, 1, a + r)
    BY <1>1, <1>2, <2>5, PageFollows
  <2> QED
    BY <1>9, <2>1, <2>4, <2>5, <2>6 DEF both, records
<1>13. ASSUME b >= max
       PROVE  RowsFit("done", first, max, after, paging, K, moved)
  <2>1. first \in Seq(Keys) /\ Len(first) = max
    BY <1>6, <1>8, <1>9, <1>13, SubSeqPlaces
  <2>2. paging = "token" => Rising(first, max)
    BY <1>8, <1>9, <1>11, <1>13, BeginningRises
  <2>3. ~moved => first = SubSeq(L, 1, Smaller(max, n))
    <3>1. ASSUME ~moved
          PROVE  first = SubSeq(L, 1, max) /\ max <= n
      <4>1. both = SubSeq(L, 1, b) /\ b <= Len(L) /\ max <= b /\ max <= n
        BY <1>1, <1>9, <1>12, <1>13, <3>1
      <4>2. SubSeq(SubSeq(L, 1, b), 1, max) = SubSeq(L, 1, max)
        BY <1>1, <1>9, <4>1, BeginningOf
      <4> QED
        BY <4>1, <4>2
    <3>2. max <= n => Smaller(max, n) = max
      BY <1>1 DEF Smaller
    <3> QED
      BY <3>1, <3>2
  <2> HIDE DEF first
  <2> QED
    BY <2>1, <2>2, <2>3 DEF RowsFit, L, n
<1>14. ASSUME b < max, r = f
       PROVE  RowsFit("done", both, max, after, paging, K, moved)
  <2>1. ~moved => both = SubSeq(L, 1, Smaller(max, n))
    <3>1. ASSUME ~moved
          PROVE  both = SubSeq(L, 1, b) /\ b = n
      BY <1>1, <1>2, <1>9, <1>12, <1>14, <3>1
    <3>2. b = n => Smaller(max, n) = n
      BY <1>1, <1>14 DEF Smaller
    <3> QED
      BY <3>1, <3>2
  <2>2. Len(both) <= max
    BY <1>9, <1>14 DEF b
  <2> QED
    BY <1>8, <1>11, <2>1, <2>2 DEF RowsFit, L, n, b
<1>15. ASSUME b < max, r # 0
       PROVE  /\ b # 0 /\ both[b] \in Nat
              /\ RowsFit("asking", both, max, IF paging = "token" THEN both[b] ELSE b, paging, K, moved)
  <2>1. b # 0 /\ b \in 1..b /\ b <= max
    BY <1>2, <1>9, <1>15
  <2>2. both[b] \in Nat
    BY <1>10, <2>1
  <2>3. ~moved => b <= n /\ both = SubSeq(L, 1, b)
    BY <1>12
  <2> QED
    BY <1>8, <1>11, <2>1, <2>2, <2>3 DEF RowsFit, L, n, b
<1>16. /\ both \in Seq(Keys)
       /\ b \in Nat
       /\ b >= max => RowsFit("done", first, max, after, paging, K, moved)
       /\ b < max /\ r = f => RowsFit("done", both, max, after, paging, K, moved)
       /\ b < max /\ r # 0
            => /\ b # 0 /\ both[b] \in Nat
               /\ RowsFit("asking", both, max, IF paging = "token" THEN both[b] ELSE b, paging, K, moved)
  BY <1>8, <1>9, <1>13, <1>14, <1>15
<1> QED
  BY <1>16 DEF first, b, both, records, f, from

FetchInv ==
  /\ origin \in [keys : SUBSET Keys, paging : {"offset", "more", "token"}, cap : 1..PageSize]
  /\ fetch \in [pc : {"asking", "done", "failed"}, rows : Seq(Keys), max : 0..MaxRecords,
                limit : 1..PageSize, after : Nat, tries : 0..FetchRetries]
  /\ shifted \in BOOLEAN
  /\ RowsFit(fetch.pc, fetch.rows, fetch.max, fetch.after, origin.paging, origin.keys, shifted)

LEMMA PageLimits ==
  ASSUME NEW w \in Nat
  PROVE  PageLimit(w) \in 1..PageSize
<1>1. PageSize \in Nat /\ PageSize # 0
  BY FetchAssumption
<1> QED
  BY <1>1 DEF PageLimit, Smaller

LEMMA FetchStart ==
  ASSUME FetchInit
  PROVE  FetchInv
<1>1. PICK max \in 0..MaxRecords :
         fetch = [pc |-> "asking", rows |-> <<>>, max |-> max, limit |-> PageLimit(max),
                  after |-> 0, tries |-> 0]
  BY DEF FetchInit
<1>2. max \in Nat /\ PageLimit(max) \in 1..PageSize /\ 0 \in 0..FetchRetries
  BY FetchAssumption, PageLimits
<1>3. <<>> \in Seq(Keys) /\ Len(<<>>) = 0
  OBVIOUS
<1>4. fetch \in [pc : {"asking", "done", "failed"}, rows : Seq(Keys), max : 0..MaxRecords,
                 limit : 1..PageSize, after : Nat, tries : 0..FetchRetries]
  BY <1>1, <1>2, <1>3
<1>5. /\ origin \in [keys : SUBSET Keys, paging : {"offset", "more", "token"}, cap : 1..PageSize]
      /\ shifted = FALSE
  BY DEF FetchInit
<1>6. origin.keys \in SUBSET Keys
  BY <1>5
<1> DEFINE K == origin.keys
           L == InOrder(K)
<1>7. L \in Seq(Keys) /\ Len(L) = Cardinality(K) /\ Cardinality(K) \in Nat
  BY <1>6, KeysListed
<1> HIDE DEF K, L
<1>8. 1 \in Nat \ {0} /\ 0 \in Nat /\ 0 <= Cardinality(K) /\ 1 <= 0 + 1 /\ 0 - 1 + 1 = 0
  BY <1>7
<1>9. SubSeq(L, 1, 0) \in Seq(Keys) /\ Len(SubSeq(L, 1, 0)) = 0
  BY <1>7, <1>8, SubSeqPlaces
<1>10. SubSeq(L, 1, 0) = <<>>
  BY <1>9, EmptySeq
<1>11. Rising(<<>>, 0)
  BY DEF Rising
<1>12. RowsFit("asking", <<>>, max, 0, origin.paging, K, shifted)
  BY <1>2, <1>3, <1>8, <1>10, <1>11 DEF RowsFit, L
<1>13. fetch.pc = "asking" /\ fetch.rows = <<>> /\ fetch.max = max /\ fetch.after = 0
  BY <1>1
<1> QED
  BY <1>4, <1>5, <1>12, <1>13 DEF FetchInv, K

\* Paginator.take_page: the rows there are after the page.
LEMMA TakePageStep ==
  ASSUME FetchInv, TakePage
  PROVE  FetchInv'
<1> DEFINE K == origin.keys
           paging == origin.paging
           rows == fetch.rows
           max == fetch.max
           after == fetch.after
           r == PageLength(fetch.limit, origin.cap, Len(From))
           both == rows \o Records
           b == Len(both)
           shape == [pc : {"asking", "done", "failed"}, rows : Seq(Keys), max : 0..MaxRecords,
                     limit : 1..PageSize, after : Nat, tries : 0..FetchRetries]
<1>1. /\ K \in SUBSET Keys /\ max \in Nat /\ max \in 0..MaxRecords /\ after \in Nat
      /\ fetch \in shape /\ fetch.pc = "asking" /\ shifted \in BOOLEAN
      /\ origin' = origin /\ shifted' = shifted
  BY FetchAssumption DEF FetchInv, TakePage
<1>2. RowsFit("asking", rows, max, after, paging, K, shifted)
  BY <1>1 DEF FetchInv
<1>3. From = StillToCome(paging, K, after)
  <2>1. Len(InOrder(K)) = Cardinality(K)
    BY <1>1, KeysListed
  <2> QED
    BY <2>1 DEF From, Listing, StillToCome
<1>4. Records = SubSeq(From, 1, r)
  BY DEF Records, PageLength
<1>5. Len(From) \in Nat /\ From \in Seq(Keys)
  <2> HIDE DEF K, paging, rows, max, after
  <2>0. StillToCome(paging, K, after) \in Seq(Keys)
    BY <1>1, <1>2, RestFits
  <2>1. From \in Seq(Keys)
    BY <1>3, <2>0
  <2> QED
    BY <2>1, LenProperties
<1>6. fetch.limit \in Nat /\ fetch.limit > 0 /\ origin.cap \in Nat /\ origin.cap > 0
  BY FetchAssumption DEF FetchInv
<1>7. r \in Nat /\ r <= Len(From) /\ (r = 0 => Len(From) = 0)
  BY <1>5, <1>6, PageHasRecords
<1> HIDE DEF r, K
<1>8. Records \in Seq(Keys) /\ Len(Records) = r
  <2>1. 1 \in Nat \ {0} /\ 1 <= r + 1 /\ r - 1 + 1 = r
    BY <1>7
  <2> QED
    BY <1>4, <1>5, <1>7, <2>1, SubSeqPlaces
<1>9. /\ Through => r = Len(From)
      /\ ~Through => r # 0
  <2>1. Records = <<>> <=> r = 0
    BY <1>8, EmptySeq
  <2>2. ~More => r = Len(From)
    BY <1>5, <1>7, <1>8 DEF More
  <2> QED
    BY <1>7, <2>1, <2>2 DEF Through
<1>10. /\ both \in Seq(Keys)
       /\ b \in Nat
       /\ b >= max => RowsFit("done", SubSeq(both, 1, max), max, after, paging, K, shifted)
       /\ b < max /\ r = Len(From) => RowsFit("done", both, max, after, paging, K, shifted)
       /\ b < max /\ r # 0
            => /\ b # 0 /\ both[b] \in Nat
               /\ RowsFit("asking", both, max, IF paging = "token" THEN both[b] ELSE b, paging, K, shifted)
  <2> HIDE DEF K, paging, rows, max, after, shape
  <2>1. r <= Len(StillToCome(paging, K, after))
    BY <1>3, <1>7
  <2>2. Records = SubSeq(StillToCome(paging, K, after), 1, r)
    BY <1>3, <1>4
  <2>3. r \in Nat /\ K \in SUBSET Keys /\ max \in Nat /\ after \in Nat /\ shifted \in BOOLEAN
    BY <1>1, <1>7
  <2> DEFINE all == rows \o SubSeq(StillToCome(paging, K, after), 1, r)
  <2>4. /\ all \in Seq(Keys)
        /\ Len(all) \in Nat
        /\ Len(all) >= max => RowsFit("done", SubSeq(all, 1, max), max, after, paging, K, shifted)
        /\ Len(all) < max /\ r = Len(StillToCome(paging, K, after))
             => RowsFit("done", all, max, after, paging, K, shifted)
        /\ Len(all) < max /\ r # 0
             => /\ Len(all) # 0 /\ all[Len(all)] \in Nat
                /\ RowsFit("asking", all, max, IF paging = "token" THEN all[Len(all)] ELSE Len(all),
                           paging, K, shifted)
    BY <1>2, <2>1, <2>3, PageFits
  <2>5. both = all
    BY <2>2
  <2> HIDE DEF all, both
  <2> QED
    BY <1>3, <2>4, <2>5
<1>11. fetch' = IF b >= max
                THEN [fetch EXCEPT !.pc = "done", !.rows = SubSeq(both, 1, max)]
                ELSE IF Through
                THEN [fetch EXCEPT !.pc = "done", !.rows = both]
                ELSE [fetch EXCEPT !.rows = both, !.tries = 0, !.after = NextAfter(both),
                                   !.limit = PageLimit(max - b)]
  BY DEF TakePage
<1>12. NextAfter(both) = IF paging = "token" THEN both[b] ELSE b
  BY DEF NextAfter
<1> HIDE DEF both, b
<1>13. ASSUME NEW pc \in {"asking", "done"}, NEW kept, NEW next \in Nat, NEW limit \in 1..PageSize,
              NEW tries \in 0..FetchRetries, RowsFit(pc, kept, max, next, paging, K, shifted),
              fetch' = [fetch EXCEPT !.pc = pc, !.rows = kept, !.tries = tries, !.after = next, !.limit = limit]
       PROVE  FetchInv'
  <2>1. kept \in Seq(Keys)
    BY <1>13 DEF RowsFit
  <2>2. /\ fetch' \in shape
        /\ fetch'.pc = pc /\ fetch'.rows = kept /\ fetch'.max = max /\ fetch'.after = next
    BY <1>1, <1>13, <2>1
  <2>3. RowsFit(fetch'.pc, fetch'.rows, fetch'.max, fetch'.after, origin'.paging, origin'.keys, shifted')
    BY <1>1, <1>13, <2>2 DEF K
  <2>4. origin' \in [keys : SUBSET Keys, paging : {"offset", "more", "token"}, cap : 1..PageSize]
        /\ shifted' \in BOOLEAN
    BY <1>1 DEF FetchInv
  <2> QED
    BY <2>2, <2>3, <2>4 DEF FetchInv
<1>14. CASE b >= max
  <2>1. RowsFit("done", SubSeq(both, 1, max), max, after, paging, K, shifted)
    BY <1>10, <1>14
  <2>2. fetch' = [fetch EXCEPT !.pc = "done", !.rows = SubSeq(both, 1, max)]
    BY <1>11, <1>14
  <2>3. fetch' = [fetch EXCEPT !.pc = "done", !.rows = SubSeq(both, 1, max), !.tries = fetch.tries,
                               !.after = after, !.limit = fetch.limit]
    BY <1>1, <2>2
  <2>4. fetch.tries \in 0..FetchRetries /\ fetch.limit \in 1..PageSize
    BY <1>1
  <2> QED
    BY <1>1, <1>13, <2>1, <2>3, <2>4
<1>15. CASE ~(b >= max) /\ Through
  <2>1. RowsFit("done", both, max, after, paging, K, shifted)
    BY <1>1, <1>9, <1>10, <1>15
  <2>2. fetch' = [fetch EXCEPT !.pc = "done", !.rows = both]
    BY <1>11, <1>15
  <2>3. fetch' = [fetch EXCEPT !.pc = "done", !.rows = both, !.tries = fetch.tries,
                               !.after = after, !.limit = fetch.limit]
    BY <1>1, <2>2
  <2>4. fetch.tries \in 0..FetchRetries /\ fetch.limit \in 1..PageSize
    BY <1>1
  <2> QED
    BY <1>1, <1>13, <2>1, <2>3, <2>4
<1>16. CASE ~(b >= max) /\ ~Through
  <2>1. /\ b # 0 /\ both[b] \in Nat
        /\ RowsFit("asking", both, max, NextAfter(both), paging, K, shifted)
    BY <1>1, <1>9, <1>10, <1>12, <1>16
  <2>2. NextAfter(both) \in Nat
    BY <1>10, <1>12, <2>1
  <2>3. PageLimit(max - b) \in 1..PageSize
    <3>1. max - b \in Nat
      BY <1>1, <1>10, <1>16
    <3> QED
      BY <3>1, PageLimits
  <2>4. fetch' = [fetch EXCEPT !.rows = both, !.tries = 0, !.after = NextAfter(both),
                               !.limit = PageLimit(max - b)]
    BY <1>11, <1>16
  <2>5. fetch' = [fetch EXCEPT !.pc = "asking", !.rows = both, !.tries = 0, !.after = NextAfter(both),
                               !.limit = PageLimit(max - b)]
    BY <1>1, <2>4
  <2>6. 0 \in 0..FetchRetries
    BY FetchAssumption
  <2> QED
    BY <1>13, <2>1, <2>2, <2>3, <2>5, <2>6
<1> QED
  BY <1>14, <1>15, <1>16

LEMMA FetchStep ==
  ASSUME FetchInv, FetchNext
  PROVE  FetchInv'
<1> DEFINE shape == [pc : {"asking", "done", "failed"}, rows : Seq(Keys), max : 0..MaxRecords,
                     limit : 1..PageSize, after : Nat, tries : 0..FetchRetries]
           sources == [keys : SUBSET Keys, paging : {"offset", "more", "token"}, cap : 1..PageSize]
<1>1. /\ origin \in sources /\ fetch \in shape /\ shifted \in BOOLEAN
      /\ RowsFit(fetch.pc, fetch.rows, fetch.max, fetch.after, origin.paging, origin.keys, shifted)
  BY DEF FetchInv
<1>2. CASE TakePage
  BY <1>2, TakePageStep
<1>3. CASE RefusePage
  <2>1. origin' = origin /\ shifted' = shifted
    BY <1>3 DEF RefusePage
  <2>2. CASE fetch.tries < FetchRetries /\ fetch' = [fetch EXCEPT !.tries = @ + 1]
    <3>1. fetch.tries + 1 \in 0..FetchRetries
      BY <1>1, <2>2, FetchAssumption
    <3>2. fetch' \in shape
      BY <1>1, <2>2, <3>1
    <3>3. /\ fetch'.pc = fetch.pc /\ fetch'.rows = fetch.rows
          /\ fetch'.max = fetch.max /\ fetch'.after = fetch.after
      BY <1>1, <2>2
    <3> QED
      BY <1>1, <2>1, <3>2, <3>3 DEF FetchInv
  <2>3. CASE fetch' = [fetch EXCEPT !.pc = "failed", !.rows = <<>>]
    <3>1. fetch' \in shape
      <4>1. <<>> \in Seq(Keys)
        OBVIOUS
      <4> QED
        BY <1>1, <2>3, <4>1
    <3>2. fetch'.pc = "failed" /\ fetch'.rows = <<>> /\ fetch'.max = fetch.max
      BY <1>1, <2>3
    <3>3. fetch.max \in Nat
      BY <1>1, FetchAssumption
    <3>4. <<>> \in Seq(Keys) /\ Len(<<>>) = 0 /\ Rising(<<>>, 0)
      BY DEF Rising
    <3>5. RowsFit("failed", <<>>, fetch.max, fetch'.after, origin.paging, origin.keys, shifted)
      BY <3>3, <3>4 DEF RowsFit
    <3> QED
      BY <1>1, <2>1, <3>1, <3>2, <3>5 DEF FetchInv
  <2> QED
    BY <1>3, <2>2, <2>3 DEF RefusePage
<1>4. CASE ShiftSource
  <2>1. fetch' = fetch /\ shifted' = TRUE
    BY <1>4 DEF ShiftSource
  <2>2. PICK k \in Keys :
          origin' = [origin EXCEPT !.keys = IF k \in @ THEN @ \ {k} ELSE @ \cup {k}]
    BY <1>4 DEF ShiftSource
  <2>3. origin' \in sources /\ origin'.paging = origin.paging
    BY <1>1, <2>2
  <2>4. RowsFit(fetch.pc, fetch.rows, fetch.max, fetch.after, origin.paging, origin'.keys, TRUE)
    BY <1>1 DEF RowsFit
  <2> QED
    BY <1>1, <2>1, <2>3, <2>4 DEF FetchInv
<1> QED
  BY <1>2, <1>3, <1>4 DEF FetchNext

LEMMA FetchElse ==
  ASSUME FetchInv, UNCHANGED fetchVars
  PROVE  FetchInv'
  BY DEF FetchInv, fetchVars

LEMMA FetchFitsInv ==
  ASSUME FetchInv
  PROVE  FetchTypeOK /\ FetchFits
<1>1. FetchTypeOK
  BY DEF FetchInv, FetchTypeOK
<1> DEFINE rows == fetch.rows
           K == origin.keys
           L == InOrder(K)
<1>2. K \in SUBSET Keys /\ rows \in Seq(Keys)
      /\ RowsFit(fetch.pc, rows, fetch.max, fetch.after, origin.paging, K, shifted)
  BY DEF FetchInv
<1>3. Len(L) = Cardinality(K)
  BY <1>2, KeysListed
<1>4. DOMAIN rows = 1..Len(rows)
  BY <1>2, LenProperties
<1>5. Listing = L
  BY DEF Listing
<1> HIDE DEF rows, K, L
<1>6. ASSUME fetch.pc = "done"
      PROVE  /\ Len(rows) <= fetch.max
             /\ ~shifted => rows = SubSeq(L, 1, Smaller(fetch.max, Len(L)))
             /\ origin.paging = "token" => \A i, j \in DOMAIN rows : i < j => rows[i] < rows[j]
  BY <1>2, <1>3, <1>4, <1>6 DEF RowsFit, Rising, L
<1>7. FetchFits
  BY <1>5, <1>6 DEF FetchFits, rows
<1> QED
  BY <1>1, <1>7

----------------------------------------------------------------------------
(* Services                                                                 *)

\* What has failed is within the budget of the service.
BudgetFits == service \in DOMAIN MaxFaults /\ faults \in 0..MaxFaults[service]

LEMMA BudgetCounts ==
  ASSUME BudgetFits
  PROVE  faults \in Nat /\ MaxFaults[service] \in Nat
<1>1. MaxFaults[service] \in Nat
  BY ServiceAssumption DEF BudgetFits
<1> QED
  BY <1>1 DEF BudgetFits

\* Nothing fails, or one thing within the budget.
LEMMA BudgetKeeps ==
  ASSUME BudgetFits, NoFault \/ Fault
  PROVE  /\ BudgetFits'
         /\ faults' = faults \/ faults' = faults + 1
         /\ faults' = 0 => faults = 0
<1>1. faults \in Nat /\ MaxFaults[service] \in Nat
  BY BudgetCounts
<1>2. CASE NoFault
  BY <1>1, <1>2 DEF NoFault, serviceVars, BudgetFits
<1>3. CASE Fault
  <2>1. faults < MaxFaults[service] /\ faults' = faults + 1 /\ service' = service
    BY <1>3 DEF Fault
  <2>2. faults + 1 \in 0..MaxFaults[service]
    BY <1>1, <2>1
  <2> QED
    BY <1>1, <2>1, <2>2 DEF BudgetFits
<1> QED
  BY <1>2, <1>3

\* A step either has nothing fail or one thing.
LEMMA CaptureFaults ==
  ASSUME CaptureNext
  PROVE  NoFault \/ Fault
  BY DEF CaptureNext, CaptureEvent, Flush, LastFlush, StopAgent, CancelAgent, Returned,
         PostFails, PostTimesOut, PostRejected, ServePost, Capturing,
         Served, CreateRecording, IngestLoad, IngestCommit, EndRecording

LEMMA LogFaults ==
  ASSUME LogNext
  PROVE  NoFault \/ Fault
  BY DEF LogNext, StoreUpload, HandOver, TakeInline, ProcessInline, JobStep, ProcessLoad, ProcessCommit,
         ProcessFail, ProcessCommitFails, StatsLoad, StatsCommit, StatsFail, WorkerDies, SetMapping,
         Unlink, DeleteLog, Logging

LEMMA ReportFaults ==
  ASSUME ReportNext
  PROVE  NoFault \/ Fault
  BY DEF ReportNext, NextDay, DispatchReport, SendNow, SendStep, LoadReport, SendMail, MarkSent,
         SendFails, SwitchReport, DeleteReport, Reporting

LEMMA AlertFaults ==
  ASSUME AlertNext
  PROVE  NoFault \/ Fault
  BY DEF AlertNext, DispatchAlerts, SweepStep, StartSweep, VisitAlert, CommitSweep, RollbackSweep,
         SweepDies, SwitchAlert, DeleteAlert, Alerting

LEMMA LiveFaults ==
  ASSUME LiveNext
  PROVE  NoFault \/ Fault
  BY DEF LiveNext, Connect, Close, HandlerEnds, CountEvent, ReadKpis, BroadcastTo, BroadcastEnds, Living

LEMMA HubFaults ==
  ASSUME HubNext
  PROVE  NoFault \/ Fault
  BY DEF HubNext, JoinDashboard, CloseViewer, LeaveDashboard, PassEdit, EndBroadcast, SendTo, Sharing

LEMMA FetchFaults ==
  ASSUME FetchNext
  PROVE  NoFault \/ Fault
  BY DEF FetchNext, TakePage, RefusePage, ShiftSource, Fetching

\* The invariant of the services.
ServicesInv ==
  /\ BudgetFits
  /\ CaptureInv /\ LogInv /\ ReportInv /\ AlertInv
  /\ LiveInv /\ HubInv /\ FetchInv

LEMMA ServicesStart ==
  ASSUME Init
  PROVE  ServicesInv
<1>1. BudgetFits
  <2>1. service \in DOMAIN MaxFaults /\ faults = 0
    BY DEF Init
  <2>2. MaxFaults[service] \in Nat
    BY <2>1, ServiceAssumption
  <2> QED
    BY <2>1, <2>2 DEF BudgetFits
<1>2. CaptureInit /\ LogInit /\ ReportInit /\ AlertInit /\ LiveInit /\ HubInit /\ FetchInit
  BY DEF Init
<1> QED
  BY <1>1, <1>2, CaptureStart, LogStart, ReportStart, AlertStart, LiveStart, HubStart, FetchStart
     DEF ServicesInv

\* Each step is one service's; the others stay as they are.
LEMMA ServicesStep ==
  ASSUME ServicesInv, [Next]_vars
  PROVE  ServicesInv'
<1>1. /\ BudgetFits /\ faults \in Nat
      /\ CaptureInv /\ LogInv /\ ReportInv /\ AlertInv
      /\ LiveInv /\ HubInv /\ FetchInv
  BY BudgetCounts DEF ServicesInv
<1>2. ASSUME UNCHANGED vars
      PROVE  ServicesInv'
  <2>1. /\ UNCHANGED serviceVars /\ UNCHANGED captureVars /\ UNCHANGED logVars /\ UNCHANGED reportVars
        /\ UNCHANGED alertVars /\ UNCHANGED liveVars /\ UNCHANGED hubVars /\ UNCHANGED fetchVars
    BY <1>2 DEF vars
  <2>2. BudgetFits' /\ faults' = faults
    BY <1>1, <2>1 DEF serviceVars, BudgetFits
  <2> QED
    BY <1>1, <2>1, <2>2, CaptureElse, LogElse, ReportElse, AlertElse, LiveElse, HubElse, FetchElse
       DEF ServicesInv
<1>3. ASSUME NoFault \/ Fault
      PROVE  /\ BudgetFits' /\ (faults' = faults \/ faults' = faults + 1)
             /\ faults' = 0 => faults = 0
  BY <1>1, <1>3, BudgetKeeps
<1>4. CASE CaptureNext /\ UNCHANGED <<logVars, reportVars, alertVars, liveVars, hubVars, fetchVars>>
  <2>1. /\ UNCHANGED logVars /\ UNCHANGED reportVars /\ UNCHANGED alertVars
        /\ UNCHANGED liveVars /\ UNCHANGED hubVars /\ UNCHANGED fetchVars
    BY <1>4
  <2>2. NoFault \/ Fault
    BY <1>4, CaptureFaults
  <2> QED
    BY <1>1, <1>3, <1>4, <2>1, <2>2,
       CaptureStep, LogElse, ReportElse, AlertElse, LiveElse, HubElse, FetchElse DEF ServicesInv
<1>5. CASE LogNext /\ UNCHANGED <<captureVars, reportVars, alertVars, liveVars, hubVars, fetchVars>>
  <2>1. /\ UNCHANGED captureVars /\ UNCHANGED reportVars /\ UNCHANGED alertVars
        /\ UNCHANGED liveVars /\ UNCHANGED hubVars /\ UNCHANGED fetchVars
    BY <1>5
  <2>2. NoFault \/ Fault
    BY <1>5, LogFaults
  <2> QED
    BY <1>1, <1>3, <1>5, <2>1, <2>2,
       CaptureElse, LogStep, ReportElse, AlertElse, LiveElse, HubElse, FetchElse DEF ServicesInv
<1>6. CASE ReportNext /\ UNCHANGED <<captureVars, logVars, alertVars, liveVars, hubVars, fetchVars>>
  <2>1. /\ UNCHANGED captureVars /\ UNCHANGED logVars /\ UNCHANGED alertVars
        /\ UNCHANGED liveVars /\ UNCHANGED hubVars /\ UNCHANGED fetchVars
    BY <1>6
  <2>2. NoFault \/ Fault
    BY <1>6, ReportFaults
  <2> QED
    BY <1>1, <1>3, <1>6, <2>1, <2>2,
       CaptureElse, LogElse, ReportStep, AlertElse, LiveElse, HubElse, FetchElse DEF ServicesInv
<1>7. CASE AlertNext /\ UNCHANGED <<captureVars, logVars, reportVars, liveVars, hubVars, fetchVars>>
  <2>1. /\ UNCHANGED captureVars /\ UNCHANGED logVars /\ UNCHANGED reportVars
        /\ UNCHANGED liveVars /\ UNCHANGED hubVars /\ UNCHANGED fetchVars
    BY <1>7
  <2>2. NoFault \/ Fault
    BY <1>7, AlertFaults
  <2> QED
    BY <1>1, <1>3, <1>7, <2>1, <2>2,
       CaptureElse, LogElse, ReportElse, AlertStep, LiveElse, HubElse, FetchElse DEF ServicesInv
<1>8. CASE LiveNext /\ UNCHANGED <<captureVars, logVars, reportVars, alertVars, hubVars, fetchVars>>
  <2>1. /\ UNCHANGED captureVars /\ UNCHANGED logVars /\ UNCHANGED reportVars
        /\ UNCHANGED alertVars /\ UNCHANGED hubVars /\ UNCHANGED fetchVars
    BY <1>8
  <2>2. NoFault \/ Fault
    BY <1>8, LiveFaults
  <2> QED
    BY <1>1, <1>3, <1>8, <2>1, <2>2,
       CaptureElse, LogElse, ReportElse, AlertElse, LiveStep, HubElse, FetchElse DEF ServicesInv
<1>9. CASE HubNext /\ UNCHANGED <<captureVars, logVars, reportVars, alertVars, liveVars, fetchVars>>
  <2>1. /\ UNCHANGED captureVars /\ UNCHANGED logVars /\ UNCHANGED reportVars
        /\ UNCHANGED alertVars /\ UNCHANGED liveVars /\ UNCHANGED fetchVars
    BY <1>9
  <2>2. NoFault \/ Fault
    BY <1>9, HubFaults
  <2> QED
    BY <1>1, <1>3, <1>9, <2>1, <2>2,
       CaptureElse, LogElse, ReportElse, AlertElse, LiveElse, HubStep, FetchElse DEF ServicesInv
<1>10. CASE FetchNext /\ UNCHANGED <<captureVars, logVars, reportVars, alertVars, liveVars, hubVars>>
  <2>1. /\ UNCHANGED captureVars /\ UNCHANGED logVars /\ UNCHANGED reportVars
        /\ UNCHANGED alertVars /\ UNCHANGED liveVars /\ UNCHANGED hubVars
    BY <1>10
  <2>2. NoFault \/ Fault
    BY <1>10, FetchFaults
  <2> QED
    BY <1>1, <1>3, <1>10, <2>1, <2>2,
       CaptureElse, LogElse, ReportElse, AlertElse, LiveElse, HubElse, FetchStep DEF ServicesInv
<1> QED
  BY <1>2, <1>4, <1>5, <1>6, <1>7, <1>8, <1>9, <1>10 DEF Next

\* The invariant always holds.
THEOREM ServicesCorrect == Spec => []ServicesInv
<1>1. Init => ServicesInv
  BY ServicesStart
<1>2. ServicesInv /\ [Next]_vars => ServicesInv'
  BY ServicesStep
<1> QED
  BY <1>1, <1>2, PTL DEF Spec

\* The variables have their types.
THEOREM TypeCorrect == Spec => []TypeOK
<1>1. ServicesInv => TypeOK
  BY CaptureFits, LogFits, ReportFits, LiveFits, HubFits, FetchFitsInv
     DEF ServicesInv, BudgetFits, AlertInv, TypeOK
<1> QED
  BY <1>1, ServicesCorrect, PTL

\* Unless a flush was cancelled, every event the agent captured is stored, on its
\* way or in the buffer, whatever fails (agent.py _flush, run).
THEOREM EventsAreKept == Spec => []EventsKept
<1>1. ServicesInv => EventsKept
  BY CaptureFits DEF ServicesInv
<1> QED
  BY <1>1, ServicesCorrect, PTL

\* The server has what the agent captured, in order and, if nothing fails, not
\* twice; event_count never runs ahead of the rows (task_mining.py ingest_events).
THEOREM RecordingsFit == Spec => []RecordingFits
<1>1. ServicesInv => RecordingFits
  BY CaptureFits DEF ServicesInv, RecordingFits
<1> QED
  BY <1>1, ServicesCorrect, PTL

\* When all tasks are through, a log with a file has the statistics of the mapping
\* set last, unless tasks overlapped, failed or died (compute_event_log_stats).
THEOREM StatsAreRight == Spec => []StatsFit
<1>1. ServicesInv => StatsFit
  BY LogFits DEF ServicesInv
<1> QED
  BY <1>1, ServicesCorrect, PTL

\* What was mailed or notified is recorded once the task is through, unless it was
\* done twice at a time or its commit failed (send_scheduled_report, evaluate_alerts).
THEOREM NoticesAreRecorded == Spec => []NoticesRecorded
<1>1. ServicesInv => NoticesRecorded
  BY ReportFits DEF ServicesInv, AlertInv, NoticesRecorded
<1> QED
  BY <1>1, ServicesCorrect, PTL

\* Who listens stays in the list and gets the totals (LiveMetrics.broadcast).
THEOREM LiveIsRight == Spec => []LiveRight
<1>1. ServicesInv => LiveRight
  BY LiveFits DEF ServicesInv, LiveRight
<1> QED
  BY <1>1, ServicesCorrect, PTL

\* When no announcement is under way, every open client shows who is there, unless
\* announcements overlapped (streaming.py _broadcast_presence).
THEOREM PresenceIsRight == Spec => []PresenceFits
<1>1. ServicesInv => PresenceFits
  BY HubFits DEF ServicesInv
<1> QED
  BY <1>1, ServicesCorrect, PTL

\* A fetch that is through has the first rows of the source, each once and in
\* order, however short its pages were (paginate).
THEOREM FetchIsRight == Spec => []FetchFits
<1>1. ServicesInv => FetchFits
  BY FetchFitsInv DEF ServicesInv
<1> QED
  BY <1>1, ServicesCorrect, PTL

\* Two mails of a report are its period apart, unless a message was queued while
\* another was under way or by hand, or a send failed after its mail
\* (dispatch_scheduled_reports, send_scheduled_report).
THEOREM MailsAreSpaced == Spec => MailsSpaced
<1> DEFINE InTime == mails'.times # mails.times /\ mails.times # 0
                       => doubled \/ faults > 0 \/ day - mails.at >= Period
<1>1. ASSUME ServicesInv, [Next]_vars
      PROVE  [InTime]_reportVars
  <2>1. CASE ReportNext
    <3>1. ReportInv /\ faults \in Nat
      BY <1>1, BudgetCounts DEF ServicesInv
    <3> QED
      BY <2>1, <3>1, ReportSpaces
  <2>2. CASE ~ReportNext
    <3>1. UNCHANGED reportVars
      BY <1>1, <2>2 DEF Next, vars
    <3> QED
      BY <3>1
  <2> QED
    BY <2>1, <2>2
<1> QED
  BY <1>1, ServicesCorrect, PTL DEF Spec, MailsSpaced

=============================================================================
