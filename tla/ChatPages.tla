------------------------------ MODULE ChatPages ------------------------------
(***************************************************************************)
(* The conversations with a model: components/AI/FloatingAIChat.tsx, a panel  *)
(* beside every page of a log, AnalysisHub/AskAI.tsx, a view of one log, and  *)
(* Connectors/ExtractionCopilot.tsx, a dialog.  Answers of the first two are  *)
(* read line by line (api/ai.ts, chatStream).                                *)
(***************************************************************************)
EXTENDS Spa

LOCAL INSTANCE Sequences

Chats == {"panel", "view", "copilot"}

\* What an answer has so far: nothing, a part, all; or the text of an error.
Texts == {"none", "part", "all", "error"}

\* Tool calls by what is known of them.
Tools == {"none", "started", "shown"}

Message == [of : Nat, role : {"user", "assistant"}, text : Texts, tool : Tools,
            streaming : BOOLEAN]

\* "counter" numbers the questions.
ChatUi == [kind : Chats, log : Projects \cup {None}, open : BOOLEAN, question : BOOLEAN,
           prefill : BOOLEAN, messages : Seq(Message), counter : Nat, loading : BOOLEAN,
           mode : {"chat", "agent"}, suggested : Projects \cup {None}, steps : Nat]

Question(n) == [of |-> n, role |-> "user", text |-> "all", tool |-> "none",
                streaming |-> FALSE]

Answer(n, text) == [of |-> n, role |-> "assistant", text |-> text, tool |-> "none",
                    streaming |-> FALSE]

\* A page's view is asked what its address says (?q=).
ChatInit(kind, log, asked) ==
  /\ page = "chat"
  /\ kind = "view" => log # None
  /\ kind = "copilot" => log = None
  /\ asked => kind = "view"
  /\ db = Ok
  /\ ui = [kind |-> kind, log |-> log, open |-> kind = "view", question |-> FALSE,
           prefill |-> asked, messages |-> <<>>, counter |-> 0, loading |-> FALSE,
           mode |-> "chat", suggested |-> None, steps |-> 0]
  /\ calls = {}

\* The effect on [open, eventLogId]: the one before is cancelled.
SuggestionsAsked(u) ==
  LET others == calls \ InFlight({"chatSuggestions"})
  IN  /\ calls' = IF u.open /\ u.log # None
                  THEN others \cup {Request("chatSuggestions", u.log, None, others)}
                  ELSE others
      /\ UNCHANGED clash

\* Suggestions and findings of the log; the server never sends an empty list.
Suggested(c) ==
  /\ ui' = [ui EXCEPT !.suggested = IF c.stage = "ok" THEN c.on ELSE None]
  /\ Done(c) /\ Handling

\* The header's button, or a finding that brings its question.
OpenPanel(prefill) ==
  /\ ui.kind = "panel" /\ ~ui.open
  /\ ui' = [ui EXCEPT !.open = TRUE, !.question = @ \/ prefill]
  /\ SuggestionsAsked(ui') /\ Calling

ClosePanel ==
  /\ ui.kind = "panel" /\ ui.open
  /\ ui' = [ui EXCEPT !.open = FALSE] /\ SuggestionsAsked(ui') /\ Calling

\* The user goes to another page; the panel and its messages stay.
GoToLog(log) ==
  /\ ui.kind = "panel" /\ log # ui.log
  /\ ui' = [ui EXCEPT !.log = log]
  /\ SuggestionsAsked(ui') /\ Calling

Asking == ui.open /\ ~ui.loading /\ (ui.kind = "panel" => ui.log # None)

\* Typed, or taken from the suggestions.
TypeQuestion ==
  /\ Asking /\ ~ui.question /\ ui' = [ui EXCEPT !.question = TRUE] /\ Local

\* The user's message and an answer to be filled are added together.
AskModel(u) ==
  LET n == u.counter + 1
      op == IF u.mode = "chat" THEN "chatStream" ELSE "agentRun"
  IN  /\ ui' = [u EXCEPT !.question = FALSE, !.prefill = FALSE, !.counter = n,
                         !.messages = @ \o <<Question(n),
                                             [Answer(n, "none") EXCEPT !.streaming = TRUE]>>,
                         !.loading = TRUE]
      /\ Send(op, n, u.log)

AskQuestion ==
  /\ ui.kind # "copilot" /\ Asking /\ ui.question /\ AskModel(ui) /\ Calling

\* The view asks a suggestion at once.
AskSuggestion == ui.kind = "view" /\ Asking /\ AskModel(ui) /\ Calling

AskFromAddress ==
  /\ ui.kind = "view" /\ ui.prefill /\ ~ui.loading /\ AskModel(ui) /\ Handling

SetChatMode(mode) ==
  /\ ui.kind = "view" /\ mode # ui.mode /\ ui' = [ui EXCEPT !.mode = mode] /\ Local

ClearChat ==
  /\ ui.kind = "view" /\ ~ui.loading /\ ui.messages # <<>>
  /\ ui' = [ui EXCEPT !.messages = <<>>] /\ Local

\* Every message of that number that is not the user's.
WithAnswer(u, n, With(_)) ==
  [u EXCEPT !.messages =
     [k \in DOMAIN @ |-> IF @[k].of = n /\ @[k].role = "assistant" THEN With(@[k])
                         ELSE @[k]]]

AnswerOf(n) ==
  {m \in {ui.messages[k] : k \in DOMAIN ui.messages} : m.of = n /\ m.role = "assistant"}

StreamLine(c, With(_)) ==
  /\ ui' = WithAnswer(ui, c.on, With) /\ UNCHANGED <<calls, clash>> /\ Handling

\* Lines of a stream: a chunk, a tool that starts (once), its result.
ChunkRead(c) ==
  /\ \E m \in AnswerOf(c.on) : m.text \in {"none", "part"}
  /\ StreamLine(c, LAMBDA m : [m EXCEPT !.text = IF @ = "none" THEN "part" ELSE "all"])

ToolStartRead(c) ==
  /\ \E m \in AnswerOf(c.on) : m.tool = "none" /\ m.text = "none"
  /\ StreamLine(c, LAMBDA m : [m EXCEPT !.tool = "started"])

ToolResultRead(c) ==
  /\ \E m \in AnswerOf(c.on) : m.tool = "started"
  /\ StreamLine(c, LAMBDA m : [m EXCEPT !.tool = "shown"])

Closed(u, n, text) ==
  [WithAnswer(u, n, LAMBDA m : [m EXCEPT !.text = text, !.streaming = FALSE])
     EXCEPT !.loading = FALSE]

\* The stream is at its end.
StreamRead(c) ==
  /\ \E m \in AnswerOf(c.on) : m.text = "all"
  /\ ui' = Closed(ui, c.on, "all") /\ Done(c) /\ Handling

\* The stream breaks off: an answer begun is taken for the whole, unless the
\* connection says there was an error.
StreamBroken(c) ==
  /\ faults < MaxFaults /\ faults' = faults + 1
  /\ \E m \in AnswerOf(c.on), reported \in BOOLEAN :
       /\ m.text # "all"
       /\ ui' = Closed(ui, c.on, IF reported \/ (m.text = "none" /\ m.tool = "none")
                                 THEN "error" ELSE m.text)
  /\ Done(c) /\ UNCHANGED <<page, db, clicks>>

StreamRefused(c) ==
  /\ ui' = Closed(ui, c.on, "error") /\ Done(c) /\ Handling

AgentRan(c) ==
  /\ ui' = IF c.stage = "failed" THEN Closed(ui, c.on, "error")
           ELSE WithAnswer(Closed(ui, c.on, "all"), c.on,
                           LAMBDA m : [m EXCEPT !.tool = "started"])
  /\ Done(c) /\ Handling

\* Opened again the dialog starts anew, except for what it waits for.
OpenCopilot ==
  /\ ui.kind = "copilot" /\ ~ui.open
  /\ ui' = [ui EXCEPT !.open = TRUE, !.messages = <<>>, !.steps = 0, !.question = FALSE]
  /\ clash' = (clash \/ ui.loading)
  /\ Click /\ UNCHANGED <<page, db, calls, faults>>

CloseCopilot ==
  /\ ui.kind = "copilot" /\ ui.open /\ ui' = [ui EXCEPT !.open = FALSE] /\ Local

SendCopilot ==
  LET n == ui.counter + 1
  IN  /\ ui.kind = "copilot" /\ Asking /\ ui.question
      /\ ui' = [ui EXCEPT !.question = FALSE, !.counter = n, !.loading = TRUE,
                          !.messages = Append(@, Question(n))]
      /\ Send("extractLog", n, None) /\ Calling

\* The answer is added to whatever conversation there is.
CopilotAnswered(c) ==
  /\ ui' = IF c.stage = "ok"
           THEN [ui EXCEPT !.messages = Append(@, Answer(c.on, "all")), !.loading = FALSE,
                           !.steps = c.on]
           ELSE [ui EXCEPT !.messages = Append(@, Answer(c.on, "error")),
                           !.loading = FALSE]
  /\ Done(c) /\ Handling

----------------------------------------------------------------------------

\* The model answers; what it says is not modelled.
ChatServer(c) == Serve(c, Outcome(db, Ok))

ChatClicks ==
  \/ \E prefill \in BOOLEAN : OpenPanel(prefill)
  \/ \E log \in Projects \cup {None} : GoToLog(log)
  \/ \E mode \in {"chat", "agent"} : SetChatMode(mode)
  \/ ClosePanel \/ TypeQuestion \/ AskQuestion \/ AskSuggestion \/ ClearChat
  \/ OpenCopilot \/ CloseCopilot \/ SendCopilot

ChatAnswers ==
  \/ AskFromAddress
  \/ \E c \in Settled("chatSuggestions") : Suggested(c)
  \/ \E c \in Answered("chatStream") :
       ChunkRead(c) \/ ToolStartRead(c) \/ ToolResultRead(c) \/ StreamRead(c)
         \/ StreamBroken(c)
  \/ \E c \in Refused("chatStream") : StreamRefused(c)
  \/ \E c \in Settled("agentRun") : AgentRan(c)
  \/ \E c \in Settled("extractLog") : CopilotAnswered(c)

ChatNext ==
  page = "chat" /\ (ChatClicks \/ ChatAnswers \/ \E c \in calls : ChatServer(c))

\* Question and answer alternate, each answer the one of the question above it,
\* and the suggestions are the open log's.
ChatFollows ==
  /\ \A k \in DOMAIN ui.messages :
       IF k % 2 = 1 THEN ui.messages[k].role = "user"
       ELSE ui.messages[k] = [ui.messages[k] EXCEPT !.role = "assistant",
                                                    !.of = ui.messages[k - 1].of,
                                                    !.text = "all"]
  /\ Len(ui.messages) % 2 = 0
  /\ ui.kind = "panel" /\ ui.open /\ ui.log # None => ui.suggested = ui.log

=============================================================================
