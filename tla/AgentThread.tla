---------------------------- MODULE AgentThread ----------------------------
(***************************************************************************)
(* The native agent's conversation thread (crates/agent/src/thread.rs):    *)
(* the message history, the message being streamed (pending_message), the  *)
(* turn task that drives requests and tool calls, cancellation, retries,   *)
(* truncation, automatic compaction and title generation.                  *)
(*                                                                         *)
(* Everything runs on the foreground executor of one application, so the   *)
(* code between two awaits runs without interleaving.  An action is such a *)
(* segment, or a part of one: a turn whose pc is in Inside is in the       *)
(* middle of a segment and no other action may happen (see Quiet).         *)
(*                                                                         *)
(* Abstractions.  Text is one flag; the order of the parts of an agent     *)
(* message is dropped; a tool use is its id.  If a second task is started  *)
(* for the same tool use (possible only for a cancelled turn) the two are  *)
(* merged.  Events of a stream are handled one at a time.  Subagents, the  *)
(* thread summary and the event stream's non-terminal events are left out. *)
(***************************************************************************)
EXTENDS Integers, Sequences, FiniteSets

CONSTANTS
  None,             \* absent value (Rust's Option::None)
  MaxTurns,         \* bound: turns started in a behaviour
  MaxSends,         \* bound: user messages sent in a behaviour
  MaxInterrupts,    \* bound: calls of cancel and truncate in a behaviour
  MaxMessages,      \* bound: length of the history up to which a stream may start messages
  Tools,            \* tool uses the model may ask for
  StreamingTools,   \* those of tools that accept streaming input
  UnknownTools,     \* those that name no enabled tool
  ErrorKinds,       \* completion errors the provider may report
  Events,           \* kinds of completion events the provider may send
  Ops,              \* operations the user may perform
  PreservedTurns,   \* AUTO_COMPACT_PRESERVED_TURNS
  HasSummarizer     \* summarization_model.is_some()

Turns == 1..MaxTurns

AllEvents == {"start", "text", "details", "usage", "partial", "full",
              "invalid", "refusal", "max_tokens", "error"}
AllOps == {"resume", "truncate", "set_model", "queue", "title"}

\* MAX_RETRY_ATTEMPTS
MAX_RETRY_ATTEMPTS == 4

\* Classes of LanguageModelCompletionError, by how retry_strategy_for treats
\* them.  "no_plan" is any error of a hosted model used without a plan.
AllErrors == {"too_many_requests", "overloaded", "upstream_busy", "upstream_500",
              "upstream_other", "api_internal", "transport", "http_fatal", "auth",
              "stream_ended", "http_4xx_5xx", "payment_required", "other", "no_plan"}

\* retry_strategy_for, reduced to how often the request may be retried
\* (0 where the code returns None)
RetryLimit(e) ==
  CASE e \in {"too_many_requests", "overloaded", "upstream_busy"} -> MAX_RETRY_ATTEMPTS
    [] e \in {"upstream_500", "api_internal", "transport", "http_4xx_5xx"} -> 3
    [] e \in {"upstream_other", "other"} -> 2
    [] e = "stream_ended" -> 1
    [] OTHER -> 0

ASSUME BoundsAssumption ==
  /\ MaxTurns \in Nat /\ MaxSends \in Nat /\ MaxInterrupts \in Nat /\ MaxMessages \in Nat
  /\ PreservedTurns \in Nat \ {0}
  /\ HasSummarizer \in BOOLEAN
ASSUME NoneAssumption == None \notin Nat
ASSUME AlphabetAssumption ==
  /\ StreamingTools \subseteq Tools /\ UnknownTools \subseteq Tools
  /\ ErrorKinds \subseteq AllErrors /\ Events \subseteq AllEvents /\ Ops \subseteq AllOps

VARIABLES
  messages,    \* Thread.messages
  pending,     \* Thread.pending_message
  usage,       \* Thread.request_token_usage, per user message id
  model,       \* Thread.model.is_some()
  queued,      \* Thread.has_queued_message
  compaction,  \* Thread.pending_auto_compaction
  title,       \* Thread.title and the state of its generation
  running,     \* the turn in Thread.running_turn
  streaming,   \* running_turn.streaming_tool_inputs
  pc,          \* where each turn task is
  cancelled,   \* value of each turn's cancellation channel
  local,       \* locals of run_turn and run_turn_internal of each turn
  stop,        \* terminal events sent on each turn's event stream
  waiters,     \* turns whose cancel task has not flushed yet
  tool,        \* tool uses and their tasks
  missing,     \* tool uses answered by "No tool named ... exists"
  hist         \* history: counters and what the properties observe

threadVars == <<messages, pending, usage, model, queued, compaction, title>>
turnVars == <<running, streaming, pc, cancelled, local, stop, waiters>>
toolVars == <<tool, missing>>
vars == <<threadVars, turnVars, toolVars, hist>>

(***************************************************************************)
(* Messages.  Id 0 is the synthetic message of a compaction.               *)
(***************************************************************************)
SummaryId == 0
UserIds == 0..MaxSends

\* Message::User, Message::Resume, Message::Agent.  "by" is a history field:
\* the turns that wrote into the message.
UserMessage == [kind : {"user"}, id : UserIds]
ResumeMessage == [kind : {"resume"}]
AgentMessage == [kind : {"agent"}, text : BOOLEAN, uses : SUBSET Tools,
                 results : SUBSET Tools, canceled : SUBSET Tools, by : SUBSET Turns]
Message == UserMessage \cup ResumeMessage \cup AgentMessage

ASSUME NoMessageAssumption == None \notin AgentMessage

User(id) == [kind |-> "user", id |-> id]
Resumed == [kind |-> "resume"]
EmptyMessage == [kind |-> "agent", text |-> FALSE, uses |-> {}, results |-> {},
                 canceled |-> {}, by |-> {}]

Compaction == [boundary : Nat, prefix : Seq(Message)]

Levels == {"none", "low", "high"}
TitleStates == [value : {"none", "generated", "user"},
                generation : {"idle", "running", "failed"}, asked : BOOLEAN]
PCs == {"idle", "start", "request", "opened", "stream", "round", "tools", "wrap",
        "retry", "end", "done"}
Inside == {"round", "wrap", "end"}
Outcomes == {"ok", "refusal", "max_tokens", "error"}
StopReasons == {"end_turn", "refusal", "max_tokens", "error", "cancelled"}
Inputs == {"none", "partial", "full", "invalid", "closed"}
Tasks == {"none", "running", "ok", "err", "early", "used", "dropped"}

Locals == [seen : BOOLEAN, error : AllErrors \cup {"none"}, ended : BOOLEAN,
           attempt : Nat, ix : Nat, outcome : Outcomes, prompt : UserIds]
ToolStates == [owner : Turns \cup {None}, stage : {"new", "partial", "final"},
               input : Inputs, task : Tasks]
History == [turns : 0..MaxTurns, sent : 0..MaxSends, interrupts : 0..MaxInterrupts,
            impatient : BOOLEAN, voided : SUBSET Turns]

NoLocals == [seen |-> FALSE, error |-> "none", ended |-> FALSE, attempt |-> 0,
             ix |-> 0, outcome |-> "ok", prompt |-> SummaryId]

TypeOK ==
  /\ messages \in Seq(Message)
  /\ pending \in AgentMessage \cup {None}
  /\ usage \in [UserIds -> Levels]
  /\ model \in BOOLEAN /\ queued \in BOOLEAN
  /\ compaction \in Compaction \cup {None}
  /\ title \in TitleStates
  /\ running \in Turns \cup {None}
  /\ streaming \in SUBSET Tools
  /\ pc \in [Turns -> PCs]
  /\ cancelled \in [Turns -> BOOLEAN]
  /\ local \in [Turns -> Locals]
  /\ stop \in [Turns -> Seq(StopReasons)]
  /\ waiters \in SUBSET Turns
  /\ tool \in [Tools -> ToolStates]
  /\ missing \in SUBSET Tools
  /\ hist \in History

\* A new thread, or one loaded with a title; without "set_model" a model is set
Init ==
  /\ messages = <<>>
  /\ pending = None
  /\ usage = [i \in UserIds |-> "none"]
  /\ model \in (IF "set_model" \in Ops THEN BOOLEAN ELSE {TRUE})
  /\ queued = FALSE
  /\ compaction = None
  /\ title = [value |-> IF "title" \in Ops THEN "none" ELSE "user",
              generation |-> "idle", asked |-> FALSE]
  /\ running = None
  /\ streaming = {}
  /\ pc = [t \in Turns |-> "idle"]
  /\ cancelled = [t \in Turns |-> FALSE]
  /\ local = [t \in Turns |-> NoLocals]
  /\ stop = [t \in Turns |-> <<>>]
  /\ waiters = {}
  /\ tool = [u \in Tools |-> [owner |-> None, stage |-> "new", input |-> "none",
                              task |-> "none"]]
  /\ missing = {}
  /\ hist = [turns |-> 0, sent |-> 0, interrupts |-> 0, impatient |-> FALSE, voided |-> {}]
-----------------------------------------------------------------------------
(***************************************************************************)
(* Operators the handlers are built from.                                  *)
(***************************************************************************)
\* No task is in the middle of a segment, so the executor may run another one
Quiet == \A t \in Turns : pc[t] \notin Inside

Alive(t) == pc[t] \notin {"idle", "done"}

\* flush_pending_message: what happens to the history.  Tool uses without a
\* result are answered with "Tool canceled by user"; a message without
\* content is dropped.
AnsweredMutant(m) == m
Answered(m) == [m EXCEPT !.canceled = m.canceled \cup (m.uses \ m.results)]
HasContent(m) == m.text \/ m.uses # {}
Flushed(ms) == IF pending # None /\ HasContent(pending)
               THEN Append(ms, Answered(pending)) ELSE ms

\* pending_message(): the message being streamed, created if there is none
PendingMessage(t) == LET m == IF pending = None THEN EmptyMessage ELSE pending
                     IN  [m EXCEPT !.by = m.by \cup {t}]

\* Dropping a ToolInputSender: its tool sees the input end
CloseInputs(S) == [u \in Tools |-> IF u \in S THEN [tool[u] EXCEPT !.input = "closed"]
                                   ELSE tool[u]]

UserIndices(ms) == {i \in 1..Len(ms) : ms[i].kind = "user"}

\* last_user_message: its id, or None
LastUser(ms) == IF UserIndices(ms) = {} THEN None
                ELSE ms[CHOOSE i \in UserIndices(ms) : \A j \in UserIndices(ms) : j <= i].id

\* auto_compaction_boundary: the number of messages before the preserved tail
AutoCompactionBoundary(ms) ==
  LET users == UserIndices(ms)
      first == {i \in users : Cardinality({j \in users : j >= i}) = PreservedTurns}
  IN  IF Cardinality(users) <= PreservedTurns \/ first = {} THEN None
      ELSE (CHOOSE i \in first : TRUE) - 1

\* latest_token_usage is at or above AUTO_COMPACT_THRESHOLD
ContextFull(ms) == model /\ LastUser(ms) # None /\ usage[LastUser(ms)] = "high"

\* maybe_trigger_auto_compaction and compact_thread, at the end of a turn
\* (running_turn and pending_message are None there)
TriggeredCompaction(ms) ==
  IF compaction = None /\ HasSummarizer /\ ContextFull(ms) /\ AutoCompactionBoundary(ms) # None
  THEN LET b == AutoCompactionBoundary(ms) IN [boundary |-> b, prefix |-> SubSeq(ms, 1, b)]
  ELSE compaction

\* generate_title
GeneratedTitle(asked) ==
  [title EXCEPT !.generation = IF HasSummarizer THEN "running" ELSE "idle", !.asked = asked]

Moved(t, where) == pc' = [pc EXCEPT ![t] = where]
-----------------------------------------------------------------------------
(***************************************************************************)
(* Operations of the thread's owner.                                       *)
(***************************************************************************)
\* running_turn.take()
TakeRunningTurnMutant == running' = running
TakeRunningTurn == running' = None

\* The task cancel spawns: it awaits the turn task and then flushes
SpawnCancelTaskMutant == waiters' = waiters
SpawnCancelTask == waiters' = waiters \cup ({running} \ {None})

\* pending_auto_compaction.take()
DropCompactionMutant == compaction' = compaction
DropCompaction == compaction' = None

\* message_ix of a new turn
MessageIxMutant(ms) == Len(ms) - 2
MessageIx(ms) == Len(ms) - 1

\* cancel on a running turn: RunningTurn::cancel sets the channel, reports the
\* cancellation and drops the input senders; a task is left behind that
\* waits for the turn task and flushes
CancelRunning ==
  /\ cancelled' = [t \in Turns |-> cancelled[t] \/ t = running]
  /\ stop' = [t \in Turns |-> IF t = running THEN Append(stop[t], "cancelled") ELSE stop[t]]
  /\ SpawnCancelTask
  /\ streaming' = {}
  /\ tool' = CloseInputs(streaming)

\* Some turn task, or a task left by cancel, has not finished
Unsettled == waiters # {} \/ \E t \in Turns : Alive(t)

\* run_turn: flush, cancel, record the index of the last message, spawn
RunTurn(ms, id) ==
  LET t == hist.turns + 1
  IN  /\ hist.turns < MaxTurns
      /\ messages' = Flushed(ms)
      /\ pending' = None
      /\ CancelRunning
      /\ running' = t
      /\ Moved(t, "start")
      /\ local' = [local EXCEPT ![t] = [NoLocals EXCEPT !.ix = MessageIx(Flushed(ms)),
                                                        !.prompt = id]]
      /\ hist' = [hist EXCEPT !.turns = t, !.sent = IF id = SummaryId THEN @ ELSE id,
                              !.impatient = @ \/ Unsettled]
      /\ UNCHANGED <<usage, model, queued, compaction, title, missing>>

\* send: the message is pushed first, then run_turn, unless there is no model
Send ==
  LET id == hist.sent + 1
      ms == Append(messages, User(id))
  IN  /\ Quiet
      /\ hist.sent < MaxSends
      /\ \/ model /\ RunTurn(ms, id)
         \/ /\ ~model
            /\ messages' = ms
            /\ hist' = [hist EXCEPT !.sent = id, !.impatient = @ \/ Unsettled]
            /\ UNCHANGED <<pending, usage, model, queued, compaction, title, turnVars, toolVars>>

\* resume: no check for a model
Resume ==
  /\ Quiet
  /\ "resume" \in Ops
  /\ RunTurn(Append(messages, Resumed), SummaryId)

\* cancel
Cancel ==
  /\ Quiet
  /\ hist.interrupts < MaxInterrupts
  /\ hist' = [hist EXCEPT !.interrupts = @ + 1,
                          !.impatient = @ \/ (running = None /\ Unsettled)]
  /\ IF running = None
     THEN /\ messages' = Flushed(messages)
          /\ pending' = None
          /\ UNCHANGED <<turnVars, tool>>
     ELSE /\ CancelRunning
          /\ TakeRunningTurn
          /\ UNCHANGED <<messages, pending, pc, local>>
  /\ UNCHANGED <<usage, model, queued, compaction, title, missing>>

\* truncate: cancel, drop the pending message and the compaction, then drain
\* from the message on, if it is there
Truncate(id) ==
  LET ms == IF running = None THEN Flushed(messages) ELSE messages
      noted == [hist EXCEPT !.interrupts = @ + 1, !.impatient = @ \/ Unsettled]
      at == {i \in 1..Len(ms) : ms[i] = User(id)}
      position == CHOOSE i \in at : TRUE      \* ids are unique
      drained == {i \in UserIds : \E j \in 1..Len(ms) : j >= position /\ ms[j] = User(i)}
  IN  /\ Quiet
      /\ "truncate" \in Ops
      /\ hist.interrupts < MaxInterrupts
      /\ CancelRunning
      /\ TakeRunningTurn
      /\ pending' = None
      /\ DropCompaction
      /\ IF at = {}
         THEN messages' = ms /\ usage' = usage /\ hist' = noted
         ELSE /\ messages' = SubSeq(ms, 1, position - 1)
              /\ usage' = [i \in UserIds |-> IF i \in drained THEN "none" ELSE usage[i]]
              /\ hist' = [noted EXCEPT !.voided = @ \cup {t \in Turns : Alive(t) /\ local[t].prompt \in drained}]
      /\ UNCHANGED <<model, queued, title, pc, local, missing>>

\* set_model, by the user or when the registry's default model appears
SetModel ==
  /\ Quiet
  /\ "set_model" \in Ops
  /\ model' = TRUE
  /\ UNCHANGED <<messages, pending, usage, queued, compaction, title, turnVars, toolVars, hist>>

\* set_has_queued_message
SetHasQueuedMessage(b) ==
  /\ Quiet
  /\ "queue" \in Ops
  /\ queued' = b
  /\ UNCHANGED <<messages, pending, usage, model, compaction, title, turnVars, toolVars, hist>>

\* set_title by the user: a generation in flight is dropped
UserTitleMutant == [title EXCEPT !.value = "user", !.asked = FALSE]
UserTitle == [value |-> "user", generation |-> "idle", asked |-> FALSE]
SetTitle ==
  /\ Quiet
  /\ "title" \in Ops
  /\ title' = UserTitle
  /\ UNCHANGED <<messages, pending, usage, model, queued, compaction, turnVars, toolVars, hist>>

\* generate_title by the user ("regenerate")
RegenerateTitle ==
  /\ Quiet
  /\ "title" \in Ops
  /\ title' = GeneratedTitle(TRUE)
  /\ UNCHANGED <<messages, pending, usage, model, queued, compaction, turnVars, toolVars, hist>>

\* The title task's last segment
TitleGenerated(ok) ==
  /\ Quiet
  /\ title.generation = "running"
  /\ title' = IF ok THEN [title EXCEPT !.value = "generated", !.generation = "idle"]
              ELSE [title EXCEPT !.generation = "failed"]
  /\ UNCHANGED <<messages, pending, usage, model, queued, compaction, turnVars, toolVars, hist>>

\* The compaction task's last segment: apply_compaction_summary, or nothing
\* when the summarization failed or was empty
CompactionDone(ok) ==
  LET b == compaction.boundary
  IN  /\ Quiet
      /\ compaction # None
      /\ compaction' = None
      /\ IF ok /\ b <= Len(messages)
         THEN /\ messages' = <<User(SummaryId)>> \o SubSeq(messages, b + 1, Len(messages))
              /\ usage' = [i \in UserIds |-> "none"]
         ELSE UNCHANGED <<messages, usage>>
      /\ UNCHANGED <<pending, model, queued, title, turnVars, toolVars, hist>>
-----------------------------------------------------------------------------
(***************************************************************************)
(* The turn task: run_turn's spawned closure around run_turn_internal.     *)
(***************************************************************************)
UnchangedButMessages == UNCHANGED <<usage, model, queued, compaction, title>>

\* The top of the loop: read the model, build the request, and await
\* stream_completion; without a model the turn fails
AskModel(t, loc) ==
  IF model
  THEN Moved(t, "request") /\ local' = [local EXCEPT ![t] = loc]
  ELSE Moved(t, "end") /\ local' = [local EXCEPT ![t] = [loc EXCEPT !.outcome = "error"]]

StartTurn(t) ==
  /\ Quiet
  /\ pc[t] = "start"
  /\ AskModel(t, local[t])
  /\ UNCHANGED <<threadVars, running, streaming, cancelled, stop, waiters, toolVars, hist>>

\* stream_completion succeeded; the locals of the round are fresh
StreamOpened(t) ==
  /\ Quiet
  /\ pc[t] = "request"
  /\ Moved(t, "opened")
  /\ local' = [local EXCEPT ![t] = [@ EXCEPT !.error = "none", !.seen = FALSE,
                                                         !.ended = FALSE]]
  /\ UNCHANGED <<threadVars, running, streaming, cancelled, stop, waiters, toolVars, hist>>

\* The inner loop is left; b says whether the cancellation was seen, e which
\* error is kept.  No further event of the stream is read.
LeaveStream(t, b, e) ==
  /\ Moved(t, "round")
  /\ local' = [local EXCEPT ![t] = [@ EXCEPT !.seen = b, !.error = e]]
  /\ tool' = [u \in Tools |-> IF tool[u].owner = t THEN [tool[u] EXCEPT !.stage = "final"]
                              ELSE tool[u]]
  /\ UNCHANGED <<threadVars, running, streaming, cancelled, stop, waiters, missing, hist>>

\* stream_completion failed: the loop runs over an empty stream, where the end
\* of the stream and a pending cancellation are both ready
StreamFailed(t, e) ==
  /\ Quiet
  /\ pc[t] = "request"
  /\ \E b \in {FALSE, cancelled[t]} : LeaveStream(t, b, e)

Streaming(t) == Quiet /\ pc[t] \in {"opened", "stream"}

StreamEnded(t) == Streaming(t) /\ LeaveStream(t, FALSE, "none")

StreamError(t, e) == Streaming(t) /\ "error" \in Events /\ LeaveStream(t, FALSE, e)

\* cancellation_rx.changed() is ready once cancel has been called
CancellationSeen(t) == Streaming(t) /\ cancelled[t] /\ LeaveStream(t, TRUE, "none")

\* A tool result is ready while the stream is still open.  It is kept for
\* later; if the tool failed while its input is still streaming the loop ends.
ToolResultEarly(t, u) ==
  /\ Streaming(t)
  /\ tool[u].owner = t
  /\ \/ /\ tool[u].task = "err" \/ u \in missing
        /\ u \in streaming
        /\ LeaveStream(t, FALSE, "none")
     \/ /\ tool[u].task = "ok" \/ (tool[u].task = "err" /\ u \notin streaming)
        /\ tool' = [tool EXCEPT ![u].task = "early"]
        /\ UNCHANGED <<threadVars, turnVars, missing, hist>>
-----------------------------------------------------------------------------
(***************************************************************************)
(* handle_completion_event, one action per kind of event.                  *)
(***************************************************************************)
\* StartMessage: flush, then an empty message.  Some providers send one for each
\* message item of a response, also after a tool use: the use is then stored as
\* cancelled, and its result comes with a later message.
StartMessageEvent(t) ==
  /\ Streaming(t)
  /\ "start" \in Events
  /\ Len(messages) < MaxMessages
  /\ messages' = Flushed(messages)
  /\ pending' = [EmptyMessage EXCEPT !.by = {t}]
  /\ Moved(t, "stream")
  /\ UnchangedButMessages
  /\ UNCHANGED <<running, streaming, cancelled, local, stop, waiters, toolVars, hist>>

\* Text, Thinking and RedactedThinking append content
TextEvent(t) ==
  /\ Streaming(t)
  /\ "text" \in Events
  /\ pending' = [PendingMessage(t) EXCEPT !.text = TRUE]
  /\ Moved(t, "stream")
  /\ UNCHANGED messages /\ UnchangedButMessages
  /\ UNCHANGED <<running, streaming, cancelled, local, stop, waiters, toolVars, hist>>

\* ReasoningDetails creates the pending message but adds no content
ReasoningDetailsEvent(t) ==
  /\ Streaming(t)
  /\ "details" \in Events
  /\ pending' = PendingMessage(t)
  /\ Moved(t, "stream")
  /\ UNCHANGED messages /\ UnchangedButMessages
  /\ UNCHANGED <<running, streaming, cancelled, local, stop, waiters, toolVars, hist>>

\* UsageUpdate: recorded under the last user message, if there is one
UsageUpdateEvent(t, level) ==
  /\ Streaming(t)
  /\ "usage" \in Events
  /\ usage' = IF LastUser(messages) = None THEN usage
              ELSE [usage EXCEPT ![LastUser(messages)] = level]
  /\ Moved(t, "stream")
  /\ UNCHANGED <<messages, pending, model, queued, compaction, title>>
  /\ UNCHANGED <<running, streaming, cancelled, local, stop, waiters, toolVars, hist>>

\* ToolUse with partial or full input, ToolUseJsonParseError ("invalid").  A
\* stream sends partial inputs of a tool use and then its final one.  The tool
\* is looked up in the turn that is running now, which a cancelled turn no
\* longer is.
ToolUseEvent(t, u, input) ==
  LET known == running # None /\ u \notin UnknownTools
      final == input # "partial"
      starts == known /\ u \notin streaming /\ (final \/ u \in StreamingTools)
      feeds == known /\ u \in streaming /\ final
  IN  /\ Streaming(t)
      /\ input \in Events
      /\ tool[u].owner \in {None, t}
      /\ tool[u].stage # "final"
      /\ pending' = [PendingMessage(t) EXCEPT !.uses = @ \cup {u}]
      /\ Moved(t, "stream")
      /\ missing' = IF known THEN missing ELSE missing \cup {u}
      /\ streaming' = IF feeds THEN streaming \ {u}
                      ELSE IF starts /\ ~final THEN streaming \cup {u} ELSE streaming
      /\ tool' = [tool EXCEPT ![u] =
                    [owner |-> t, stage |-> IF final THEN "final" ELSE "partial",
                     input |-> IF starts \/ feeds THEN input ELSE @.input,
                     task  |-> IF starts THEN "running" ELSE @.task]]
      /\ UNCHANGED messages /\ UnchangedButMessages
      /\ UNCHANGED <<running, cancelled, local, stop, waiters, hist>>

\* Stop(Refusal) and Stop(MaxTokens) leave run_turn_internal at once: the tool
\* tasks of the round are dropped, nothing is drained or flushed
TurnFailedEvent(t, outcome) ==
  /\ Streaming(t)
  /\ outcome \in Events
  /\ Moved(t, "end")
  /\ local' = [local EXCEPT ![t].outcome = outcome]
  /\ tool' = [u \in Tools |->
                IF tool[u].owner # t THEN tool[u]
                ELSE [tool[u] EXCEPT !.stage = "final",
                        !.task = IF @ \in {"none", "used"} THEN @ ELSE "dropped"]]
  /\ missing' = {u \in missing : tool[u].owner # t}
  /\ UNCHANGED <<threadVars, running, streaming, cancelled, stop, waiters, hist>>
-----------------------------------------------------------------------------
(***************************************************************************)
(* After the inner loop.                                                   *)
(***************************************************************************)
Outstanding(t) == {u \in Tools : tool[u].owner = t /\ tool[u].task = "running"}
Ready(t) == {u \in Tools : /\ tool[u].owner = t
                           /\ tool[u].task \in {"ok", "err", "early"} \/ u \in missing}

\* process_tool_result for the results in S
ProcessToolResults(t, S) ==
  pending' = IF S = {} THEN pending
             ELSE [PendingMessage(t) EXCEPT !.results = @ \cup S]

Used(S) == [u \in Tools |-> IF u \in S /\ tool[u].task \in {"ok", "err", "early"}
                            THEN [tool[u] EXCEPT !.task = "used"] ELSE tool[u]]

\* streaming_tool_inputs.drain() of the turn that is running now
DrainedInputsMutant == {}
DrainedInputs == streaming

\* The senders that are left are dropped; early results are processed; then the tools are awaited
AfterStream(t) ==
  /\ pc[t] = "round"
  /\ streaming' = streaming \ DrainedInputs
  /\ tool' = [u \in Tools |-> IF u \in DrainedInputs THEN [Used(Ready(t))[u] EXCEPT !.input = "closed"]
                              ELSE Used(Ready(t))[u]]
  /\ missing' = missing \ Ready(t)
  /\ ProcessToolResults(t, Ready(t))
  /\ local' = [local EXCEPT ![t].ended = (Ready(t) = {} /\ Outstanding(t) = {})]
  /\ Moved(t, IF Outstanding(t) = {} THEN "wrap" ELSE "tools")
  /\ UNCHANGED messages /\ UnchangedButMessages
  /\ UNCHANGED <<running, cancelled, stop, waiters, hist>>

\* tool_results.next().await, which does not watch the cancellation
ToolsPolled(t) ==
  /\ Quiet
  /\ pc[t] = "tools"
  /\ Ready(t) # {}
  /\ tool' = Used(Ready(t))
  /\ missing' = missing \ Ready(t)
  /\ ProcessToolResults(t, Ready(t))
  /\ Moved(t, IF Outstanding(t) = {} THEN "wrap" ELSE "tools")
  /\ UNCHANGED messages /\ UnchangedButMessages
  /\ UNCHANGED <<running, streaming, cancelled, local, stop, waiters, hist>>

\* attempt += 1
NextAttemptMutant(l) == l.attempt
NextAttempt(l) == l.attempt + 1

\* flush, start the title, then leave, retry (handle_completion_error), or go
\* on with the tools' results
WrapRound(t) ==
  LET l == local[t]
      attempt == NextAttempt(l)
      retry == l.error # "none" /\ model /\ attempt <= RetryLimit(l.error)
      leave(outcome) == /\ Moved(t, "end")
                        /\ local' = [local EXCEPT ![t].outcome = outcome]
  IN  /\ pc[t] = "wrap"
      /\ messages' = Flushed(messages)
      /\ pending' = None
      /\ title' = IF title.value = "none" /\ title.generation # "running"
                  THEN GeneratedTitle(FALSE) ELSE title
      /\ \/ l.seen /\ leave("ok")
         \/ /\ ~l.seen /\ retry
            /\ Moved(t, "retry")
            /\ local' = [local EXCEPT ![t].attempt = attempt]
         \/ ~l.seen /\ l.error # "none" /\ ~retry /\ leave("error")
         \/ ~l.seen /\ l.error = "none" /\ (l.ended \/ queued) /\ leave("ok")
         \/ /\ ~l.seen /\ l.error = "none" /\ ~l.ended /\ ~queued
            /\ AskModel(t, [l EXCEPT !.attempt = 0])
      /\ UNCHANGED <<usage, model, queued, compaction>>
      /\ UNCHANGED <<running, streaming, cancelled, stop, waiters, toolVars, hist>>

\* The retry delay is over: a Resume message follows an agent message without
\* tool results, and the request is sent again
RetryTimer(t) ==
  LET last == messages[Len(messages)]
      cut == messages # <<>> /\ last.kind = "agent" /\ last.results \cup last.canceled = {}
  IN  /\ Quiet
      /\ pc[t] = "retry"
      /\ messages' = IF cut THEN Append(messages, Resumed) ELSE messages
      /\ AskModel(t, local[t])
      /\ UNCHANGED pending /\ UnchangedButMessages
      /\ UNCHANGED <<running, streaming, cancelled, stop, waiters, toolVars, hist>>

RetryCancelled(t) ==
  /\ Quiet
  /\ pc[t] = "retry"
  /\ cancelled[t]
  /\ Moved(t, "end")
  /\ local' = [local EXCEPT ![t].outcome = "ok"]
  /\ UNCHANGED <<threadVars, running, streaming, cancelled, stop, waiters, toolVars, hist>>

\* *cancellation_rx.borrow() when run_turn_internal has returned
WasCancelledMutant(t) == FALSE
WasCancelled(t) == cancelled[t]

StopFor(outcome) == IF outcome = "ok" THEN "end_turn" ELSE outcome

\* The end of the spawned closure.  A cancelled turn touches nothing; otherwise
\* flush, report how the turn ended (a refusal also truncates the history to
\* message_ix), give up running_turn and see whether to compact.
EndTurn(t) ==
  LET outcome == local[t].outcome
      flushed == Flushed(messages)
      ms == IF outcome = "refusal" /\ local[t].ix <= Len(flushed)
            THEN SubSeq(flushed, 1, local[t].ix) ELSE flushed
  IN  /\ pc[t] = "end"
      /\ Moved(t, "done")
      /\ local' = [local EXCEPT ![t] = [NoLocals EXCEPT !.prompt = local[t].prompt]]
      /\ IF WasCancelled(t)
         THEN UNCHANGED <<messages, pending, stop, running, streaming, tool, compaction>>
         ELSE /\ messages' = ms
              /\ pending' = None
              /\ stop' = [stop EXCEPT ![t] = Append(@, StopFor(outcome))]
              /\ TakeRunningTurn
              /\ streaming' = {}
              /\ tool' = CloseInputs(streaming)
              /\ compaction' = TriggeredCompaction(ms)
      /\ UNCHANGED <<usage, model, queued, title, cancelled, waiters, missing, hist>>

\* The task cancel left behind: the turn task has ended, flush
CancelFlush(t) ==
  /\ Quiet
  /\ t \in waiters
  /\ pc[t] = "done"
  /\ waiters' = waiters \ {t}
  /\ messages' = Flushed(messages)
  /\ pending' = None
  /\ UnchangedButMessages
  /\ UNCHANGED <<running, streaming, pc, cancelled, local, stop, toolVars, hist>>
-----------------------------------------------------------------------------
(***************************************************************************)
(* Tools (external).  A tool may finish once it has its whole input; while *)
(* its input is streaming it may only fail.                                *)
(***************************************************************************)
ToolFinished(u, ok) ==
  /\ Quiet
  /\ tool[u].task = "running"
  /\ ok => tool[u].input = "full"
  /\ tool' = [tool EXCEPT ![u].task = IF ok THEN "ok" ELSE "err"]
  /\ UNCHANGED <<threadVars, turnVars, missing, hist>>

ToolReturns(u) == tool[u].input # "partial" /\ \E ok \in BOOLEAN : ToolFinished(u, ok)
-----------------------------------------------------------------------------
UserStep ==
  \/ Send \/ Resume \/ Cancel \/ SetModel \/ SetTitle \/ RegenerateTitle
  \/ \E id \in 1..hist.sent : Truncate(id)
  \/ \E b \in BOOLEAN : SetHasQueuedMessage(b)

EventStep(t) ==
  \/ StartMessageEvent(t) \/ TextEvent(t) \/ ReasoningDetailsEvent(t)
  \/ \E level \in {"low", "high"} : UsageUpdateEvent(t, level)
  \/ \E u \in Tools, input \in {"partial", "full", "invalid"} : ToolUseEvent(t, u, input)
  \/ \E outcome \in {"refusal", "max_tokens"} : TurnFailedEvent(t, outcome)
  \/ \E e \in ErrorKinds : StreamError(t, e)

TaskStep(t) ==
  \/ StartTurn(t)
  \/ \/ StreamOpened(t) \/ \E e \in ErrorKinds : StreamFailed(t, e)
  \/ \E u \in Tools : ToolResultEarly(t, u)
  \/ CancellationSeen(t)
  \/ AfterStream(t) \/ ToolsPolled(t) \/ WrapRound(t)
  \/ RetryTimer(t) \/ RetryCancelled(t)
  \/ EndTurn(t) \/ CancelFlush(t)

Next ==
  \/ UserStep
  \/ \E t \in Turns : EventStep(t) \/ StreamEnded(t) \/ TaskStep(t)
  \/ \E u \in Tools, ok \in BOOLEAN : ToolFinished(u, ok)
  \/ \E ok \in BOOLEAN : TitleGenerated(ok) \/ CompactionDone(ok)

Spec == Init /\ [][Next]_vars

\* The executor polls every task that is ready; streams end, requests are
\* answered, timers fire, and a tool that has its whole input returns.
Fairness ==
  /\ \A t \in Turns : WF_vars(TaskStep(t)) /\ WF_vars(StreamEnded(t))
  /\ \A u \in Tools : WF_vars(ToolReturns(u))
  /\ WF_vars(\E ok \in BOOLEAN : TitleGenerated(ok))
  /\ WF_vars(\E ok \in BOOLEAN : CompactionDone(ok))

FairSpec == Spec /\ Fairness
-----------------------------------------------------------------------------
(***************************************************************************)
(* Properties.                                                             *)
(***************************************************************************)
\* A turn task that is alive and not cancelled is the one in running_turn, and
\* running_turn holds nothing else: a finished or cancelled turn never stays
\* there and never clears a newer turn (run_turn's "it might be a NEW turn now")
SingleLiveTurn == \A t \in Turns : (Alive(t) /\ ~cancelled[t]) <=> t = running

\* Every turn that is over has reported exactly one terminal event on its event
\* stream, and the running turn has reported none: run_turn's receiver always
\* learns how the turn ended, and never twice (cancel races the natural end)
OneTerminalEvent ==
  \A t \in Turns : Len(stop[t]) = IF t <= hist.turns /\ t # running THEN 1 ELSE 0

\* A pending message has someone who will flush it: a live turn task, or a task
\* left behind by cancel
PendingHasOwner == pending # None => Unsettled

\* Once its stream is left, a turn never waits for a tool that itself waits for
\* input: the senders left over are dropped before the tools are awaited
ToolInputsClosed ==
  \A t \in Turns, u \in Tools :
    pc[t] \in {"tools", "wrap"} /\ tool[u].owner = t /\ tool[u].task = "running"
      => tool[u].input # "partial"

\* A compaction in flight still summarizes the messages it will replace: no
\* operation touches the history before its boundary without dropping it
CompactionPrefixStable ==
  compaction # None => /\ compaction.boundary <= Len(messages)
                       /\ SubSeq(messages, 1, compaction.boundary) = compaction.prefix

\* No user message comes after position j of ms, up to position i
Unprompted(ms, j, i) == \A k \in (j + 1)..i : ms[k].kind # "user"

\* Before position i a message of the same turn says that the use u was cancelled
CutOff(ms, i, u) ==
  \E j \in 1..i : ms[j].kind = "agent" /\ u \in ms[j].canceled /\ Unprompted(ms, j, i)

\* The last user message up to position i is id
Prompted(ms, i, id) == \E j \in 1..i : ms[j] = User(id) /\ Unprompted(ms, j, i)

\* As long as the owner lets a turn (and its cancellation) settle before the next
\* send, resume, truncate or second cancel: every agent message answers all its
\* tool uses, as the next request needs it; it has no other results, except those
\* of uses that a StartMessage cut off, which the turn stored as cancelled before;
\* and it was written by one turn, between that turn's prompt and the next one
\* (flush_pending_message and everyone who calls it)
PatientHistory ==
  ~hist.impatient =>
    \A i \in 1..Len(messages) : messages[i].kind = "agent" =>
      LET m == messages[i]
      IN  /\ m.uses \subseteq m.results \cup m.canceled
          /\ \A u \in (m.results \cup m.canceled) \ m.uses : CutOff(messages, i - 1, u)
          /\ \E t \in Turns : /\ m.by = {t}
                              /\ local[t].prompt # SummaryId =>
                                   Prompted(messages, i - 1, local[t].prompt)

\* A title the user typed is replaced by a generated one only if the user asked
\* for a new title after typing it
UserTitleKept ==
  [][title.value = "user" /\ title'.value = "generated" => title.asked]_vars

\* Every turn task ends, cancelled or not, when the model asks for finitely many
\* tool uses: retries run out, and no tool waits for input for ever
TurnsEnd == \A t \in Turns : Alive(t) ~> (pc[t] = "done")

\* Nothing stays in pending_message for ever once no turn is running
PendingSettles == (pending # None /\ running = None) ~> (pending = None \/ running # None)
=============================================================================
