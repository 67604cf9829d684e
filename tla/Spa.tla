--------------------------------- MODULE Spa ---------------------------------
(***************************************************************************)
(* The browser's side of the application: one page is mounted, the user      *)
(* acts on it, its handlers call the API and go on when the call is          *)
(* answered.  Calls overlap and are served and answered in any order; one    *)
(* may fail.                                                                *)
(*                                                                         *)
(* A page module names its own requests, says what the API does with them    *)
(* and what the page does with the answers.  A page's state does not outlive *)
(* the page, so the page is chosen once.                                     *)
(***************************************************************************)
EXTENDS Naturals, FiniteSets

CONSTANTS
  Projects,   \* projects, or whatever a page lets the user choose between
  Items,      \* rows that exist or may come to exist
  ProjectOf,  \* the project of each
  Existing,   \* those that exist at the start
  None,       \* no project, no item
  MaxClicks,  \* bound of what the user does on each page
  MaxFaults   \* bound of the calls that fail

\* What a call may carry to say which handler waits for it; no id of a row is one.
Waits == {"save", "run", "mine", "create", "import", "convert"}

ASSUME SpaAssumption ==
  /\ ProjectOf \in [Items -> Projects] /\ Existing \subseteq Items
  /\ None \notin Projects \cup Items
  /\ MaxClicks \in [DOMAIN MaxClicks -> Nat] /\ MaxFaults \in Nat
  /\ ({None} \cup Projects \cup Items) \cap Waits = {}

VARIABLES
  page,    \* the mounted page
  ui,      \* its state
  db,      \* what the server stores of the page's subject
  calls,   \* the calls in flight
  clicks,  \* what the user has done so far
  faults,  \* calls that failed so far
  clash    \* two calls about the same thing have been in flight together

spaVars == <<page, ui, db, calls, clicks, faults, clash>>

\* Calls that read what does not change: it makes no difference when they are
\* served, and asked twice they answer the same.
Readings == {"discover", "loadEventLog", "analyse", "getAnalysis", "exportPdf",
             "previewLog", "chatSuggestions", "loadOcpmLogs", "getSummary",
             "discoverOcel", "getProject", "search", "getRegistry", "benchmark"}

\* A call: its op, what it is about, an argument, and the answer when there
\* is one; n tells equal calls apart.
Request(op, on, arg, others) ==
  [n |-> CHOOSE n \in 1..(Cardinality(others) + 1) : \A c \in others : c.n # n,
   op |-> op, on |-> on, arg |-> arg,
   stage |-> IF op \in Readings THEN "ok" ELSE "sent", ans |-> None]

\* A call about a project, or about nothing in particular, is about all.
SameSubject(a, b) == a = b \/ {a, b} \cap (Projects \cup {None}) # {}

\* Calls whose answers only offer something to choose from.
Aside == {"loadKpiLogs", "loadMiningLogs", "loadPacks", "chatSuggestions",
          "loadOcpmLogs"}

Repeated(c, op, on, arg) == op \in Readings /\ c.op = op /\ c.on = on /\ c.arg = arg

\* "others" are the calls that stay in flight.
SendAlso(op, on, arg, others) ==
  /\ calls' = others \cup {Request(op, on, arg, others)}
  /\ clash' = (clash \/ \E c \in others : /\ {c.op, op} \cap Aside = {}
                                          /\ SameSubject(c.on, on)
                                          /\ ~Repeated(c, op, on, arg))

Send(op, on, arg) == SendAlso(op, on, arg, calls)

\* The handler of c goes on with another call, or is through.
Then(c, op, on, arg) == SendAlso(op, on, arg, calls \ {c})

Done(c) == calls' = calls \ {c} /\ UNCHANGED clash

Click == clicks < MaxClicks[page] /\ clicks' = clicks + 1

\* A click that only changes the page.
Local == Click /\ UNCHANGED <<page, db, calls, faults, clash>>

\* A click that sends a call.
Calling == Click /\ UNCHANGED <<page, db, faults>>

\* The page handles an answer.
Handling == UNCHANGED <<page, db, clicks, faults>>

Answered(op) == {c \in calls : c.op = op /\ c.stage = "ok"}

Refused(op) == {c \in calls : c.op = op /\ c.stage = "failed"}

Settled(op) == Answered(op) \cup Refused(op)

InFlight(ops) == {c \in calls : c.op \in ops}

\* One outcome of a call at the server: what is stored then, and the answer.
Outcome(store, reply) == [db |-> store, ans |-> reply]

\* An answer the page makes no use of.
Ok == [ok |-> TRUE]

\* No answer is not an answer.
ASSUME AnswerAssumption == None # Ok

\* 404 and the like: nothing changes and the handler's catch runs.
NotFound == Outcome(db, None)

Serve(c, outcome) ==
  /\ c.stage = "sent"
  /\ db' = outcome.db
  /\ calls' = (calls \ {c})
       \cup {[c EXCEPT !.stage = IF outcome.ans = None THEN "failed" ELSE "ok",
                       !.ans = outcome.ans]}
  /\ UNCHANGED <<page, ui, clicks, faults, clash>>

\* What a page waits for that is no call to the API: animations and timers.
Timers == {"layout", "flash"}

\* The call fails before it takes effect.
Refuse(c) ==
  /\ c.op \notin Timers
  /\ c.stage = "sent" \/ (c.stage = "ok" /\ c.op \in Readings)
  /\ faults < MaxFaults
  /\ faults' = faults + 1
  /\ calls' = (calls \ {c}) \cup {[c EXCEPT !.stage = "failed"]}
  /\ UNCHANGED <<page, ui, db, clicks, clash>>

Quiet == calls = {}

\* Rows by version, 0 for none.
NoRows == [i \in Items |-> 0]

FirstRows == [i \in Items |-> IF i \in Existing THEN 1 ELSE 0]

RowsOf(p, rows) == [i \in Items |-> IF ProjectOf[i] = p THEN rows[i] ELSE 0]

Vacant(p, rows) == {i \in Items : ProjectOf[i] = p /\ rows[i] = 0}

Least(numbers) == CHOOSE n \in numbers : \A m \in numbers : n <= m

\* Nothing failed and no two calls about the same thing overlapped.
Orderly == faults = 0 /\ ~clash

=============================================================================
