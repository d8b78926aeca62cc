------------------------ MODULE AgentThreadProofs ------------------------
(***************************************************************************)
(* Invariants of AgentThread for every value of its constants.             *)
(***************************************************************************)
EXTENDS AgentThread, SequenceTheorems, TLAPS

\* Flushing the pending message (flush_pending_message) appends at most one
\* well-formed agent message to the history
LEMMA FlushedType ==
  ASSUME TypeOK, NEW ms \in Seq(Message)
  PROVE  /\ Flushed(ms) \in Seq(Message)
         /\ Len(Flushed(ms)) \in Nat /\ Len(Flushed(ms)) >= Len(ms)
<1>1. CASE pending # None /\ HasContent(pending)
  <2>1. pending \in AgentMessage
    BY <1>1 DEF TypeOK
  <2>2. Answered(pending) \in AgentMessage
    BY <2>1 DEF Answered, AgentMessage
  <2>3. Answered(pending) \in Message
    BY <2>2 DEF Message
  <2>4. Flushed(ms) = Append(ms, Answered(pending))
    BY <1>1 DEF Flushed
  <2> QED
    BY <2>3, <2>4
<1>2. CASE ~(pending # None /\ HasContent(pending))
  BY <1>2 DEF Flushed
<1> QED
  BY <1>1, <1>2

\* The message a turn writes into (pending_message) is well formed
LEMMA PendingMessageType ==
  ASSUME TypeOK, NEW t \in Turns
  PROVE  PendingMessage(t) \in AgentMessage
<1>1. EmptyMessage \in AgentMessage
  BY DEF EmptyMessage, AgentMessage
<1> DEFINE m == IF pending = None THEN EmptyMessage ELSE pending
<1>2. m \in AgentMessage
  BY <1>1 DEF TypeOK
<1>3. PendingMessage(t) = [m EXCEPT !.by = m.by \cup {t}]
  BY DEF PendingMessage
<1> HIDE DEF m
<1> QED
  BY <1>2, <1>3 DEF AgentMessage

\* Dropping input senders keeps the tools well formed
LEMMA CloseInputsType ==
  ASSUME TypeOK, NEW S
  PROVE  CloseInputs(S) \in [Tools -> ToolStates]
<1> SUFFICES ASSUME NEW u \in Tools
             PROVE  [tool[u] EXCEPT !.input = "closed"] \in ToolStates
  BY DEF CloseInputs, TypeOK
<1> QED
  BY DEF TypeOK, ToolStates, Inputs

\* CancelRunning is typed
LEMMA CancelRunningType ==
  ASSUME TypeOK, CancelRunning
  PROVE  /\ cancelled' \in [Turns -> BOOLEAN]
         /\ stop' \in [Turns -> Seq(StopReasons)]
         /\ waiters' \in SUBSET Turns
         /\ streaming' \in SUBSET Tools
         /\ tool' \in [Tools -> ToolStates]
<1>1. tool' \in [Tools -> ToolStates]
  BY CloseInputsType DEF CancelRunning, SpawnCancelTask
<1>2. \A t \in Turns : Append(stop[t], "cancelled") \in Seq(StopReasons)
  BY DEF TypeOK, StopReasons
<1>3. stop' \in [Turns -> Seq(StopReasons)]
  BY <1>2 DEF CancelRunning, SpawnCancelTask, TypeOK
<1> QED
  BY <1>1, <1>3 DEF CancelRunning, SpawnCancelTask, TypeOK

\* Starting a turn (run_turn) is typed
LEMMA RunTurnType ==
  ASSUME TypeOK, NEW ms \in Seq(Message), Len(ms) > 0, NEW id \in UserIds, RunTurn(ms, id)
  PROVE  TypeOK'
<1> DEFINE t == hist.turns + 1
<1>1. t \in Turns
  BY BoundsAssumption DEF TypeOK, RunTurn, History, Turns
<1>2. messages' \in Seq(Message) /\ Len(Flushed(ms)) - 1 \in Nat
  BY FlushedType DEF RunTurn
<1>3. pc' \in [Turns -> PCs]
  BY DEF RunTurn, Moved, TypeOK, PCs
<1>4. local' \in [Turns -> Locals]
  <2> DEFINE n == Len(Flushed(ms)) - 1
             l == [NoLocals EXCEPT !.ix = n, !.prompt = id]
  <2>1. n \in Nat
    BY <1>2
  <2> HIDE DEF n
  <2>2. l \in Locals
    BY <2>1 DEF NoLocals, Locals, Outcomes
  <2>3. local' = [local EXCEPT ![t] = l]
    BY DEF RunTurn, MessageIx, n
  <2> HIDE DEF l
  <2> QED
    BY <2>2, <2>3 DEF TypeOK
<1>5. hist' \in History
  <2> DEFINE b == hist.impatient \/ Unsettled
             s == IF id = SummaryId THEN hist.sent ELSE id
  <2>1. b \in BOOLEAN
    OBVIOUS
  <2>2. s \in 0..MaxSends
    BY DEF TypeOK, History, UserIds
  <2>3. hist' = [hist EXCEPT !.turns = t, !.sent = s, !.impatient = b]
    BY DEF RunTurn
  <2>4. t \in 0..MaxTurns
    BY <1>1, BoundsAssumption DEF Turns
  <2> HIDE DEF t, b, s
  <2> QED
    BY <2>1, <2>2, <2>3, <2>4 DEF TypeOK, History
<1>6. CancelRunning
  BY DEF RunTurn
<1> QED
  BY <1>1, <1>2, <1>3, <1>4, <1>5, <1>6, CancelRunningType DEF RunTurn, TypeOK

\* Leaving the inner loop is typed
LEMMA LeaveStreamType ==
  ASSUME TypeOK, NEW t \in Turns, NEW b \in BOOLEAN, NEW e \in AllErrors \cup {"none"},
         LeaveStream(t, b, e)
  PROVE  TypeOK'
<1>1. tool' \in [Tools -> ToolStates]
  BY ZenonT(30) DEF LeaveStream, TypeOK, ToolStates
<1>2. local' \in [Turns -> Locals]
  BY ZenonT(30) DEF LeaveStream, TypeOK, Locals
<1> QED
  BY <1>1, <1>2 DEF LeaveStream, Moved, threadVars, TypeOK, PCs

\* Going on to the next request is typed
LEMMA AskModelType ==
  ASSUME TypeOK, NEW t \in Turns, NEW loc \in Locals, AskModel(t, loc)
  PROVE  local' \in [Turns -> Locals] /\ pc' \in [Turns -> PCs]
<1>1. [loc EXCEPT !.outcome = "error"] \in Locals
  BY DEF Locals, Outcomes
<1> QED
  BY <1>1 DEF AskModel, Moved, TypeOK, PCs

\* Processing tool results keeps the pending message well formed
LEMMA ProcessToolResultsType ==
  ASSUME TypeOK, NEW t \in Turns, NEW S \in SUBSET Tools, ProcessToolResults(t, S)
  PROVE  pending' \in AgentMessage \cup {None}
<1>1. [PendingMessage(t) EXCEPT !.results = @ \cup S] \in AgentMessage
  BY PendingMessageType DEF AgentMessage
<1> QED
  BY <1>1 DEF ProcessToolResults, TypeOK

\* Marking tool results as used is typed
LEMMA UsedType ==
  ASSUME TypeOK, NEW S
  PROVE  Used(S) \in [Tools -> ToolStates]
<1> SUFFICES ASSUME NEW u \in Tools
             PROVE  [tool[u] EXCEPT !.task = "used"] \in ToolStates
  BY DEF Used, TypeOK
<1> QED
  BY DEF TypeOK, ToolStates, Tasks

\* A compaction triggered at the end of a turn is well formed
LEMMA TriggeredCompactionType ==
  ASSUME TypeOK, NEW ms \in Seq(Message)
  PROVE  TriggeredCompaction(ms) \in Compaction \cup {None}
<1> DEFINE b == AutoCompactionBoundary(ms)
           users == UserIndices(ms)
           first == {i \in users : Cardinality({j \in users : j >= i}) = PreservedTurns}
<1>1. ASSUME b # None PROVE b \in 0..Len(ms)
  <2>1. first # {} /\ b = (CHOOSE i \in first : TRUE) - 1
    BY <1>1 DEF AutoCompactionBoundary
  <2>2. first \subseteq 1..Len(ms)
    BY DEF UserIndices
  <2> HIDE DEF b, first
  <2>3. (CHOOSE i \in first : TRUE) \in 1..Len(ms)
    BY <2>1, <2>2
  <2> QED
    BY <2>1, <2>3
<1>2. ASSUME b # None PROVE SubSeq(ms, 1, b) \in Seq(Message)
  <2> HIDE DEF b
  <2> QED
    BY <1>1, <1>2, SubSeqProperties
<1>3. ASSUME b # None PROVE [boundary |-> b, prefix |-> SubSeq(ms, 1, b)] \in Compaction
  <2>1. b \in Nat /\ SubSeq(ms, 1, b) \in Seq(Message)
    BY <1>1, <1>2, <1>3
  <2> HIDE DEF b
  <2> QED
    BY <2>1 DEF Compaction
<1> QED
  BY <1>3 DEF TriggeredCompaction, TypeOK

\* The end of a turn is typed
LEMMA EndTurnType ==
  ASSUME TypeOK, NEW t \in Turns, EndTurn(t)
  PROVE  TypeOK'
<1> DEFINE outcome == local[t].outcome
           flushed == Flushed(messages)
           ms == IF outcome = "refusal" /\ local[t].ix <= Len(flushed)
                 THEN SubSeq(flushed, 1, local[t].ix) ELSE flushed
<1>1. flushed \in Seq(Message) /\ local[t].ix \in Nat
  BY FlushedType DEF TypeOK, Locals
<1>2. ms \in Seq(Message)
  <2> HIDE DEF flushed
  <2>1. CASE outcome = "refusal" /\ local[t].ix <= Len(flushed)
    <3>1. SubSeq(flushed, 1, local[t].ix) \in Seq(Message)
      BY <1>1, <2>1, SubSeqProperties
    <3> QED
      BY <2>1, <3>1
  <2>2. CASE ~(outcome = "refusal" /\ local[t].ix <= Len(flushed))
    BY <1>1, <2>2
  <2> QED
    BY <2>1, <2>2
<1>3. local' \in [Turns -> Locals]
  <2>1. local[t].prompt \in UserIds
    BY DEF TypeOK, Locals
  <2>2. [NoLocals EXCEPT !.prompt = local[t].prompt] \in Locals
    BY <2>1 DEF NoLocals, Locals, Outcomes
  <2> QED
    BY <2>2 DEF EndTurn, WasCancelled, TakeRunningTurn, TypeOK
<1>4. pc' \in [Turns -> PCs]
  BY DEF EndTurn, WasCancelled, TakeRunningTurn, Moved, TypeOK, PCs
<1>5. CASE cancelled[t]
  BY <1>3, <1>4, <1>5 DEF EndTurn, WasCancelled, TakeRunningTurn, TypeOK
<1>6. CASE ~cancelled[t]
  <2>1. messages' = ms /\ compaction' = TriggeredCompaction(ms)
    BY <1>6 DEF EndTurn, WasCancelled, TakeRunningTurn
  <2>2. messages' \in Seq(Message) /\ compaction' \in Compaction \cup {None}
    BY <1>2, <2>1, TriggeredCompactionType
  <2>3. StopFor(outcome) \in StopReasons
    BY DEF StopFor, StopReasons, TypeOK, Locals, Outcomes
  <2>4. stop' \in [Turns -> Seq(StopReasons)]
    <3>1. stop' = [stop EXCEPT ![t] = Append(stop[t], StopFor(outcome))]
      BY <1>6 DEF EndTurn, WasCancelled, TakeRunningTurn
    <3> QED
      BY <2>3, <3>1 DEF TypeOK
  <2>5. tool' \in [Tools -> ToolStates]
    BY <1>6, CloseInputsType DEF EndTurn, WasCancelled, TakeRunningTurn
  <2> QED
    BY <1>3, <1>4, <1>6, <2>2, <2>4, <2>5 DEF EndTurn, WasCancelled, TakeRunningTurn, TypeOK
<1> QED
  BY <1>5, <1>6

\* Every completion event (handle_completion_event) keeps the state well formed
LEMMA EventStepType ==
  ASSUME TypeOK, NEW t \in Turns, EventStep(t)
  PROVE  TypeOK'
<1> USE DEF threadVars, turnVars, toolVars, Moved, UnchangedButMessages, TakeRunningTurn
<1>1. CASE StartMessageEvent(t)
  <2>1. [EmptyMessage EXCEPT !.by = {t}] \in AgentMessage
    BY DEF EmptyMessage, AgentMessage
  <2> QED
    BY <1>1, <2>1, FlushedType DEF StartMessageEvent, TypeOK, PCs
<1>2. CASE TextEvent(t)
  <2>1. \A b \in BOOLEAN : [PendingMessage(t) EXCEPT !.text = b] \in AgentMessage
    BY PendingMessageType DEF AgentMessage
  <2> QED
    BY <1>2, <2>1 DEF TextEvent, TypeOK, PCs
<1>3. CASE ReasoningDetailsEvent(t)
  BY <1>3, PendingMessageType DEF ReasoningDetailsEvent, TypeOK, PCs
<1>4. ASSUME NEW level \in {"low", "high"}, UsageUpdateEvent(t, level) PROVE TypeOK'
  BY <1>4 DEF UsageUpdateEvent, TypeOK, PCs, Levels
<1>5. ASSUME NEW u \in Tools, NEW input \in {"partial", "full", "invalid"},
             ToolUseEvent(t, u, input)
      PROVE  TypeOK'
  <2>1. [PendingMessage(t) EXCEPT !.uses = @ \cup {u}] \in AgentMessage
    BY PendingMessageType DEF AgentMessage
  <2>2. tool' \in [Tools -> ToolStates]
    BY <1>5 DEF ToolUseEvent, TypeOK, ToolStates, Inputs, Tasks
  <2>3. pc' \in [Turns -> PCs]
    BY <1>5 DEF ToolUseEvent, TypeOK, PCs
  <2>4. missing' \in SUBSET Tools /\ streaming' \in SUBSET Tools
    BY <1>5 DEF ToolUseEvent, TypeOK
  <2> QED
    BY <1>5, <2>1, <2>2, <2>3, <2>4 DEF ToolUseEvent, TypeOK
<1>6. ASSUME NEW outcome \in {"refusal", "max_tokens"}, TurnFailedEvent(t, outcome)
      PROVE  TypeOK'
  <2>1. tool' \in [Tools -> ToolStates]
    <3>1. \A u \in Tools, x \in Tasks :
            [tool[u] EXCEPT !.stage = "final", !.task = x] \in ToolStates
      BY DEF TypeOK, ToolStates
    <3>2. \A u \in Tools :
            (IF tool[u].task \in {"none", "used"} THEN tool[u].task ELSE "dropped") \in Tasks
      BY DEF TypeOK, ToolStates, Tasks
    <3>3. \A u \in Tools : tool[u] \in ToolStates
      BY DEF TypeOK
    <3> QED
      BY <1>6, <3>1, <3>2, <3>3 DEF TurnFailedEvent
  <2>2. local' \in [Turns -> Locals] /\ pc' \in [Turns -> PCs]
    BY <1>6, ZenonT(30) DEF TurnFailedEvent, TypeOK, Locals, Outcomes, PCs
  <2> QED
    BY <1>6, <2>1, <2>2 DEF TurnFailedEvent, TypeOK
<1>7. ASSUME NEW e \in ErrorKinds, StreamError(t, e) PROVE TypeOK'
  BY <1>7, LeaveStreamType, AlphabetAssumption DEF StreamError
<1> QED
  BY <1>1, <1>2, <1>3, <1>4, <1>5, <1>6, <1>7 DEF EventStep

\* Every segment of the turn task, and of the task cancel leaves behind, keeps
\* the state well formed
LEMMA TaskStepType ==
  ASSUME TypeOK, NEW t \in Turns, TaskStep(t) \/ StreamEnded(t)
  PROVE  TypeOK'
<1> USE DEF threadVars, turnVars, toolVars, Moved, UnchangedButMessages, TakeRunningTurn
<1>1. CASE StartTurn(t)
  BY <1>1, AskModelType DEF StartTurn, TypeOK
<1>2. CASE StreamOpened(t)
  <2>1. local' \in [Turns -> Locals]
    BY <1>2, ZenonT(30) DEF StreamOpened, TypeOK, Locals
  <2> QED
    BY <1>2, <2>1 DEF StreamOpened, TypeOK, PCs
<1>3. ASSUME NEW e \in ErrorKinds, StreamFailed(t, e) PROVE TypeOK'
  <2>1. cancelled[t] \in BOOLEAN
    BY DEF TypeOK
  <2>2. PICK b \in {FALSE, cancelled[t]} : LeaveStream(t, b, e)
    BY <1>3 DEF StreamFailed
  <2>3. b \in BOOLEAN
    BY <2>1
  <2> QED
    BY <2>2, <2>3, LeaveStreamType, AlphabetAssumption
<1>4. ASSUME NEW u \in Tools, ToolResultEarly(t, u) PROVE TypeOK'
  <2>1. CASE LeaveStream(t, FALSE, "none")
    BY <2>1, LeaveStreamType
  <2>2. CASE tool' = [tool EXCEPT ![u].task = "early"] /\ UNCHANGED <<threadVars, turnVars, missing, hist>>
    BY <2>2, ZenonT(30) DEF TypeOK, ToolStates, Tasks
  <2> QED
    BY <1>4, <2>1, <2>2 DEF ToolResultEarly
<1>5. CASE CancellationSeen(t) \/ StreamEnded(t)
  BY <1>5, LeaveStreamType DEF CancellationSeen, StreamEnded
<1>6. CASE AfterStream(t)
  <2>1. ProcessToolResults(t, Ready(t)) /\ Ready(t) \in SUBSET Tools
    BY <1>6 DEF AfterStream, DrainedInputs, Ready
  <2>2. pending' \in AgentMessage \cup {None}
    BY <2>1, ProcessToolResultsType
  <2>3. tool' \in [Tools -> ToolStates]
    <3>1. Used(Ready(t)) \in [Tools -> ToolStates]
      BY UsedType
    <3>2. \A u \in Tools : [Used(Ready(t))[u] EXCEPT !.input = "closed"] \in ToolStates
      BY <3>1 DEF ToolStates, Inputs
    <3> QED
      BY <1>6, <3>1, <3>2 DEF AfterStream, DrainedInputs
  <2>4. local' \in [Turns -> Locals]
    <3> DEFINE b == Ready(t) = {} /\ Outstanding(t) = {}
    <3>1. b \in BOOLEAN
      OBVIOUS
    <3>2. local' = [local EXCEPT ![t].ended = b]
      BY <1>6 DEF AfterStream, DrainedInputs
    <3> HIDE DEF b
    <3> QED
      BY <3>1, <3>2, ZenonT(30) DEF TypeOK, Locals
  <2>5. pc' \in [Turns -> PCs]
    BY <1>6 DEF AfterStream, DrainedInputs, TypeOK, PCs
  <2> QED
    BY <1>6, <2>2, <2>3, <2>4, <2>5 DEF AfterStream, DrainedInputs, TypeOK
<1>7. CASE ToolsPolled(t)
  <2>1. ProcessToolResults(t, Ready(t)) /\ Ready(t) \in SUBSET Tools
    BY <1>7 DEF ToolsPolled, Ready
  <2>2. pending' \in AgentMessage \cup {None}
    BY <2>1, ProcessToolResultsType
  <2>3. pc' \in [Turns -> PCs]
    BY <1>7 DEF ToolsPolled, TypeOK, PCs
  <2> QED
    BY <1>7, <2>2, <2>3, UsedType DEF ToolsPolled, TypeOK
<1>8. CASE WrapRound(t)
  <2>1. messages' \in Seq(Message)
    BY <1>8, FlushedType DEF WrapRound, NextAttempt, TypeOK
  <2>2. title' \in TitleStates
    BY <1>8 DEF WrapRound, NextAttempt, TypeOK, TitleStates, GeneratedTitle
  <2>3. local' \in [Turns -> Locals] /\ pc' \in [Turns -> PCs]
    <3> DEFINE l == local[t]
    <3>1. l \in Locals /\ [l EXCEPT !.attempt = 0] \in Locals
      BY DEF TypeOK, Locals
    <3>2. l.attempt + 1 \in Nat
      BY DEF TypeOK, Locals
    <3>3. CASE AskModel(t, [l EXCEPT !.attempt = 0])
      BY <3>1, <3>3, AskModelType
    <3>4. ASSUME NEW outcome \in Outcomes, pc' = [pc EXCEPT ![t] = "end"],
                 local' = [local EXCEPT ![t].outcome = outcome]
          PROVE  local' \in [Turns -> Locals] /\ pc' \in [Turns -> PCs]
      BY <3>4, ZenonT(30) DEF TypeOK, Locals, PCs
    <3>5. CASE pc' = [pc EXCEPT ![t] = "retry"] /\ local' = [local EXCEPT ![t].attempt = l.attempt + 1]
      BY <3>2, <3>5, ZenonT(30) DEF TypeOK, Locals, PCs
    <3> QED
      BY <1>8, <3>3, <3>4, <3>5 DEF WrapRound, NextAttempt, Outcomes
  <2> QED
    BY <1>8, <2>1, <2>2, <2>3 DEF WrapRound, NextAttempt, TypeOK
<1>9. CASE RetryTimer(t)
  <2>1. Resumed \in Message
    BY DEF Resumed, Message, ResumeMessage
  <2>2. messages' \in Seq(Message)
    BY <1>9, <2>1 DEF RetryTimer, TypeOK
  <2>3. local' \in [Turns -> Locals] /\ pc' \in [Turns -> PCs]
    BY <1>9, AskModelType DEF RetryTimer, TypeOK
  <2> QED
    BY <1>9, <2>2, <2>3 DEF RetryTimer, TypeOK
<1>10. CASE RetryCancelled(t)
  <2>1. local' \in [Turns -> Locals]
    <3>1. local' = [local EXCEPT ![t].outcome = "ok"]
      BY <1>10 DEF RetryCancelled
    <3> QED
      BY <3>1, ZenonT(30) DEF TypeOK, Locals, Outcomes
  <2> QED
    BY <1>10, <2>1 DEF RetryCancelled, TypeOK, PCs
<1>11. CASE EndTurn(t)
  BY <1>11, EndTurnType
<1>12. CASE CancelFlush(t)
  BY <1>12, FlushedType DEF CancelFlush, TypeOK
<1> QED
  BY <1>1, <1>2, <1>3, <1>4, <1>5, <1>6, <1>7, <1>8, <1>9, <1>10, <1>11, <1>12 DEF TaskStep

\* Every step of the thread keeps its state well formed
LEMMA TypeStep == TypeOK /\ [Next]_vars => TypeOK'
<1> SUFFICES ASSUME TypeOK, [Next]_vars PROVE TypeOK'
  OBVIOUS
<1> USE DEF threadVars, turnVars, toolVars, Moved, UnchangedButMessages, TakeRunningTurn
<1>1. CASE Send
  <2> DEFINE id == hist.sent + 1
             ms == Append(messages, User(id))
  <2>1. id \in UserIds
    BY <1>1, BoundsAssumption DEF Send, TypeOK, History, UserIds
  <2>2. User(id) \in Message
    BY <2>1 DEF User, Message, UserMessage
  <2>3. ms \in Seq(Message) /\ Len(ms) > 0
    BY <2>2 DEF TypeOK
  <2>4. CASE RunTurn(ms, id)
    BY <2>1, <2>3, <2>4, RunTurnType
  <2>5. CASE messages' = ms /\ hist' = [hist EXCEPT !.sent = id, !.impatient = @ \/ Unsettled] /\
             UNCHANGED <<pending, usage, model, queued, compaction, title, turnVars, toolVars>>
    <3>1. hist' \in History
      <4> DEFINE b == hist.impatient \/ Unsettled
      <4>1. b \in BOOLEAN
        BY DEF TypeOK, History, Unsettled
      <4>2. hist' = [hist EXCEPT !.sent = id, !.impatient = b]
        BY <2>5
      <4> HIDE DEF b, id
      <4> QED
        BY <2>1, <4>1, <4>2 DEF TypeOK, History, UserIds
    <3> QED
      BY <2>3, <2>5, <3>1 DEF TypeOK
  <2> QED
    BY <1>1, <2>4, <2>5 DEF Send
<1>2. CASE Resume
  <2> DEFINE ms == Append(messages, Resumed)
  <2>1. Resumed \in Message
    BY DEF Resumed, Message, ResumeMessage
  <2>2. ms \in Seq(Message) /\ Len(ms) > 0
    BY <2>1 DEF TypeOK
  <2>3. SummaryId \in UserIds
    BY BoundsAssumption DEF SummaryId, UserIds
  <2>4. RunTurn(ms, SummaryId)
    BY <1>2 DEF Resume
  <2> QED
    BY <2>2, <2>3, <2>4, RunTurnType
<1>3. CASE Cancel
  <2> DEFINE b == hist.impatient \/ (running = None /\ Unsettled)
             n == hist.interrupts + 1
  <2>1. b \in BOOLEAN
    OBVIOUS
  <2>2. n \in 0..MaxInterrupts
    BY <1>3, BoundsAssumption DEF Cancel, TypeOK, History
  <2>3. hist' = [hist EXCEPT !.interrupts = n, !.impatient = b]
    BY <1>3 DEF Cancel
  <2> HIDE DEF b, n
  <2>4. hist' \in History
    BY <2>1, <2>2, <2>3 DEF TypeOK, History
  <2>5. CASE running = None
    BY <1>3, <2>4, <2>5, FlushedType DEF Cancel, TypeOK
  <2>6. CASE running # None
    BY <1>3, <2>4, <2>6, CancelRunningType DEF Cancel, TypeOK
  <2> QED
    BY <2>5, <2>6
<1>4. CASE SetModel \/ SetTitle \/ RegenerateTitle
  <2>1. CASE SetModel
    BY <2>1 DEF SetModel, TypeOK
  <2>2. CASE SetTitle
    BY <2>2 DEF SetTitle, UserTitle, TypeOK, TitleStates
  <2>3. CASE RegenerateTitle
    <3>1. \A b \in BOOLEAN, g \in {"running", "idle"} :
             [title EXCEPT !.generation = g, !.asked = b] \in TitleStates
      BY DEF TypeOK, TitleStates
    <3>2. title' \in TitleStates
      BY <2>3, <3>1 DEF RegenerateTitle, GeneratedTitle
    <3> QED
      BY <2>3, <3>2 DEF RegenerateTitle, TypeOK
  <2> QED
    BY <1>4, <2>1, <2>2, <2>3
<1>5. ASSUME NEW id \in 1..hist.sent, Truncate(id) PROVE TypeOK'
  <2> DEFINE ms == IF running = None THEN Flushed(messages) ELSE messages
             noted == [hist EXCEPT !.interrupts = @ + 1, !.impatient = @ \/ Unsettled]
             at == {i \in 1..Len(ms) : ms[i] = User(id)}
             position == CHOOSE i \in at : TRUE
             drained == {i \in UserIds : \E j \in 1..Len(ms) : j >= position /\ ms[j] = User(i)}
  <2>1. ms \in Seq(Message)
    BY FlushedType DEF TypeOK
  <2>2. noted \in History
    <3> DEFINE b == hist.impatient \/ Unsettled
               n == hist.interrupts + 1
    <3>1. b \in BOOLEAN
      OBVIOUS
    <3>2. n \in 0..MaxInterrupts
      BY <1>5, BoundsAssumption DEF Truncate, DropCompaction, TypeOK, History
    <3>3. noted = [hist EXCEPT !.interrupts = n, !.impatient = b]
      OBVIOUS
    <3> HIDE DEF b, n, noted
    <3> QED
      BY <3>1, <3>2, <3>3 DEF TypeOK, History
  <2>3. messages' \in Seq(Message) /\ usage' \in [UserIds -> Levels] /\ hist' \in History
    <3>1. CASE at = {}
      <4>1. messages' = ms /\ usage' = usage /\ hist' = noted
        BY <1>5, <3>1 DEF Truncate
      <4> QED
        BY <2>1, <2>2, <4>1 DEF TypeOK
    <3>2. CASE at # {}
      <4>1. messages' = SubSeq(ms, 1, position - 1)
        BY <1>5, <3>2 DEF Truncate
      <4>2. usage' = [i \in UserIds |-> IF i \in drained THEN "none" ELSE usage[i]]
        BY <1>5, <3>2 DEF Truncate
      <4>3. hist' = [noted EXCEPT !.voided = @ \cup {t \in Turns : Alive(t) /\ local[t].prompt \in drained}]
        BY <1>5, <3>2 DEF Truncate
      <4> HIDE DEF noted, drained
      <4>4. usage' \in [UserIds -> Levels]
        BY <4>2 DEF TypeOK, Levels
      <4>5. hist' \in History
        BY <2>2, <4>3 DEF History
      <4>7. position \in at
        BY <3>2
      <4> HIDE DEF position
      <4>8. position \in 1..Len(ms)
        BY <4>7
      <4> HIDE DEF ms
      <4>9. SubSeq(ms, 1, position - 1) \in Seq(Message)
        BY <2>1, <4>8, SubSeqProperties
      <4> QED
        BY <4>1, <4>4, <4>5, <4>9
    <3> QED
      BY <3>1, <3>2
  <2>4. CancelRunning
    BY <1>5 DEF Truncate
  <2> QED
    BY <1>5, <2>3, <2>4, CancelRunningType DEF Truncate, DropCompaction, TypeOK
<1>6. ASSUME NEW b \in BOOLEAN, SetHasQueuedMessage(b) PROVE TypeOK'
  BY <1>6 DEF SetHasQueuedMessage, TypeOK
<1>7. ASSUME NEW t \in Turns, EventStep(t) PROVE TypeOK'
  BY <1>7, EventStepType
<1>8. ASSUME NEW t \in Turns, TaskStep(t) \/ StreamEnded(t) PROVE TypeOK'
  BY <1>8, TaskStepType
<1>9. ASSUME NEW u \in Tools, NEW ok \in BOOLEAN, ToolFinished(u, ok) PROVE TypeOK'
  <2> DEFINE r == IF ok THEN "ok" ELSE "err"
  <2>1. r \in Tasks
    BY DEF Tasks
  <2>2. tool' = [tool EXCEPT ![u].task = r]
    BY <1>9 DEF ToolFinished
  <2> HIDE DEF r
  <2>3. tool' \in [Tools -> ToolStates]
    BY <2>1, <2>2 DEF TypeOK, ToolStates
  <2> QED
    BY <1>9, <2>3 DEF ToolFinished, TypeOK
<1>10. ASSUME NEW ok \in BOOLEAN, TitleGenerated(ok) PROVE TypeOK'
  BY <1>10 DEF TitleGenerated, TypeOK, TitleStates
<1>11. ASSUME NEW ok \in BOOLEAN, CompactionDone(ok) PROVE TypeOK'
  <2> DEFINE b == compaction.boundary
  <2>1. b \in Nat
    BY <1>11 DEF CompactionDone, TypeOK, Compaction
  <2>2. CASE ok /\ b <= Len(messages)
    <3>1. User(SummaryId) \in Message
      BY BoundsAssumption DEF User, Message, UserMessage, UserIds, SummaryId
    <3>2. SubSeq(messages, b + 1, Len(messages)) \in Seq(Message)
      BY <2>1, <2>2, SubSeqProperties DEF TypeOK
    <3>3. <<User(SummaryId)>> \o SubSeq(messages, b + 1, Len(messages)) \in Seq(Message)
      BY <3>1, <3>2
    <3> QED
      BY <1>11, <2>2, <3>3 DEF CompactionDone, TypeOK, Levels
  <2>3. CASE ~(ok /\ b <= Len(messages))
    BY <1>11, <2>3 DEF CompactionDone, TypeOK
  <2> QED
    BY <2>2, <2>3
<1>12. CASE UNCHANGED vars
  BY <1>12 DEF vars, TypeOK
<1> QED
  BY <1>1, <1>2, <1>3, <1>4, <1>5, <1>6, <1>7, <1>8, <1>9, <1>10, <1>11, <1>12
     DEF Next, UserStep

\* The state of the thread is always well formed
THEOREM TypeCorrect == Spec => []TypeOK
<1>1. Init => TypeOK
  <2> SUFFICES ASSUME Init PROVE TypeOK
    OBVIOUS
  <2>1. NoLocals \in Locals
    BY BoundsAssumption DEF NoLocals, Locals, Outcomes, SummaryId, UserIds
  <2>2. title \in TitleStates
    BY DEF Init, TitleStates
  <2>3. hist \in History
    BY BoundsAssumption DEF Init, History
  <2>4. tool \in [Tools -> ToolStates]
    BY DEF Init, ToolStates, Inputs, Tasks
  <2>5. model \in BOOLEAN
    BY DEF Init
  <2>6. messages \in Seq(Message) /\ stop \in [Turns -> Seq(StopReasons)]
    BY DEF Init
  <2>7. cancelled \in [Turns -> BOOLEAN] /\ queued \in BOOLEAN
    BY DEF Init
  <2>8. pc \in [Turns -> PCs] /\ usage \in [UserIds -> Levels]
    BY DEF Init, PCs, Levels
  <2> QED
    BY <2>1, <2>2, <2>3, <2>4, <2>5, <2>6, <2>7, <2>8 DEF Init, TypeOK
<1> QED
  BY <1>1, TypeStep, PTL DEF Spec
-----------------------------------------------------------------------------
(***************************************************************************)
(* The control invariant.  SingleLiveTurn, OneTerminalEvent and            *)
(* PendingHasOwner are not inductive alone: they need that turn ids are    *)
(* handed out in order and that every cancelled turn task that is still    *)
(* alive has a task waiting for it.                                        *)
(***************************************************************************)
StartedTurns == \A t \in Turns : pc[t] = "idle" <=> t > hist.turns
CancelledStarted == \A t \in Turns : cancelled[t] => pc[t] # "idle"
CancelledHaveWaiters == \A t \in Turns : cancelled[t] /\ Alive(t) => t \in waiters

ControlInv ==
  /\ StartedTurns
  /\ CancelledStarted
  /\ CancelledHaveWaiters
  /\ SingleLiveTurn
  /\ OneTerminalEvent
  /\ PendingHasOwner

AwakePCs == PCs \ {"idle", "done"}

\* A step in which a live turn task goes on and nobody else moves keeps the
\* control invariant, whatever it does to the pending message
LEMMA ControlMove ==
  ASSUME TypeOK, ControlInv, NEW t \in Turns, Alive(t), NEW w \in AwakePCs,
         pc' = [pc EXCEPT ![t] = w], UNCHANGED <<running, cancelled, stop, waiters, hist>>
  PROVE  ControlInv'
<1>1. \A s \in Turns : Alive(s)' <=> Alive(s)
  BY DEF TypeOK, Alive, AwakePCs
<1>2. StartedTurns'
  BY DEF TypeOK, ControlInv, StartedTurns, Alive, AwakePCs
<1>3. CancelledStarted' /\ CancelledHaveWaiters' /\ SingleLiveTurn' /\ OneTerminalEvent'
  BY <1>1 DEF TypeOK, ControlInv, CancelledStarted, CancelledHaveWaiters, SingleLiveTurn,
              OneTerminalEvent, AwakePCs
<1>4. PendingHasOwner'
  BY <1>1 DEF PendingHasOwner, Unsettled
<1> QED
  BY <1>2, <1>3, <1>4 DEF ControlInv

\* So does a step that moves no task and at most empties the pending message
LEMMA ControlIdle ==
  ASSUME TypeOK, ControlInv, UNCHANGED <<pc, running, cancelled, stop, waiters>>,
         hist'.turns = hist.turns, pending' \in {pending, None}
  PROVE  ControlInv'
BY DEF ControlInv, StartedTurns, CancelledStarted, CancelledHaveWaiters, SingleLiveTurn,
       OneTerminalEvent, PendingHasOwner, Unsettled, Alive

\* Cancelling the running turn, with no new one, keeps the control invariant:
\* the turn's task becomes the business of the task that cancel spawns
LEMMA ControlCancel ==
  ASSUME TypeOK, ControlInv, CancelRunning, running' = None, pc' = pc,
         hist'.turns = hist.turns, pending' \in {pending, None}
  PROVE  ControlInv'
<1>1. \A s \in Turns : Alive(s)' <=> Alive(s)
  BY DEF Alive
<1>2. \A s \in Turns : cancelled'[s] <=> (cancelled[s] \/ s = running)
  BY DEF CancelRunning, SpawnCancelTask
<1>3. StartedTurns' /\ CancelledStarted'
  BY <1>2 DEF ControlInv, StartedTurns, CancelledStarted, SingleLiveTurn, Alive
<1>4. waiters \subseteq waiters' /\ \A s \in Turns : s = running => s \in waiters'
  BY NoneAssumption DEF CancelRunning, SpawnCancelTask, Turns
<1>5. CancelledHaveWaiters'
  BY <1>1, <1>2, <1>4 DEF ControlInv, CancelledHaveWaiters
<1>6. SingleLiveTurn'
  BY <1>1, <1>2, NoneAssumption DEF ControlInv, SingleLiveTurn, Turns
<1>7. OneTerminalEvent'
  <2> SUFFICES ASSUME NEW s \in Turns
               PROVE  Len(stop'[s]) = IF s <= hist.turns THEN 1 ELSE 0
    BY NoneAssumption DEF OneTerminalEvent, Turns
  <2>1. stop[s] \in Seq(StopReasons) /\ "cancelled" \in StopReasons
    BY DEF TypeOK, StopReasons
  <2>2. CASE s = running
    <3>1. stop'[s] = Append(stop[s], "cancelled") /\ Len(stop[s]) = 0
      BY <2>2 DEF CancelRunning, SpawnCancelTask, ControlInv, OneTerminalEvent
    <3>2. pc[s] # "idle"
      BY <2>2 DEF ControlInv, SingleLiveTurn, Alive
    <3>3. s <= hist.turns
      BY <3>2 DEF ControlInv, StartedTurns, Turns, TypeOK, History
    <3> QED
      BY <2>1, <3>1, <3>3
  <2>3. CASE s # running
    BY <2>3 DEF CancelRunning, SpawnCancelTask, ControlInv, OneTerminalEvent
  <2> QED
    BY <2>2, <2>3
<1>8. PendingHasOwner'
  BY <1>1, <1>4 DEF ControlInv, PendingHasOwner, Unsettled
<1> QED
  BY <1>3, <1>5, <1>6, <1>7, <1>8 DEF ControlInv

\* Starting a turn keeps the control invariant: the new turn is the only live
\* one that is not cancelled, and the old one has reported its end
LEMMA ControlRunTurn ==
  ASSUME TypeOK, ControlInv, NEW ms, NEW id, RunTurn(ms, id)
  PROVE  ControlInv'
<1> DEFINE t == hist.turns + 1
<1>1. t \in Turns /\ hist.turns \in Nat
  BY BoundsAssumption DEF TypeOK, RunTurn, History, Turns
<1>2. hist'.turns = t
  BY DEF RunTurn, TypeOK, History
<1>3. pc' = [pc EXCEPT ![t] = "start"] /\ running' = t /\ pending' = None /\ CancelRunning
  BY DEF RunTurn, Moved
<1>4. pc[t] = "idle" /\ ~cancelled[t] /\ running # t
  BY <1>1 DEF ControlInv, StartedTurns, CancelledStarted, SingleLiveTurn, Alive
<1>5. \A s \in Turns : cancelled'[s] <=> (cancelled[s] \/ s = running)
  BY <1>3 DEF CancelRunning, SpawnCancelTask
<1>6. \A s \in Turns : s # t => pc'[s] = pc[s]
  BY <1>3 DEF TypeOK
<1>7. pc'[t] = "start"
  BY <1>1, <1>3 DEF TypeOK
<1> HIDE DEF t
<1>8. StartedTurns'
  <2> SUFFICES ASSUME NEW s \in Turns PROVE pc'[s] = "idle" <=> s > t
    BY <1>2 DEF StartedTurns
  <2> QED
    BY <1>1, <1>4, <1>6, <1>7 DEF ControlInv, StartedTurns, Turns, t
<1>9. CancelledStarted'
  BY <1>5, <1>6, <1>7 DEF ControlInv, CancelledStarted, SingleLiveTurn, Alive
<1>10. waiters \subseteq waiters' /\ \A s \in Turns : s = running => s \in waiters'
  BY <1>3, NoneAssumption DEF CancelRunning, SpawnCancelTask, Turns
<1>11. CancelledHaveWaiters'
  BY <1>4, <1>5, <1>6, <1>10 DEF ControlInv, CancelledHaveWaiters, Alive
<1>12. SingleLiveTurn'
  BY <1>1, <1>3, <1>4, <1>5, <1>6, <1>7 DEF ControlInv, SingleLiveTurn, Alive
<1>13. OneTerminalEvent'
  <2> SUFFICES ASSUME NEW s \in Turns
               PROVE  Len(stop'[s]) = IF s <= t /\ s # t THEN 1 ELSE 0
    BY <1>2, <1>3 DEF OneTerminalEvent
  <2>1. stop[s] \in Seq(StopReasons) /\ "cancelled" \in StopReasons
    BY DEF TypeOK, StopReasons
  <2>2. CASE s = running
    <3>1. stop'[s] = Append(stop[s], "cancelled") /\ Len(stop[s]) = 0
      BY <1>3, <2>2 DEF CancelRunning, SpawnCancelTask, ControlInv, OneTerminalEvent
    <3>2. pc[s] # "idle"
      BY <2>2 DEF ControlInv, SingleLiveTurn, Alive
    <3>3. s <= hist.turns
      BY <1>1, <3>2 DEF ControlInv, StartedTurns, Turns
    <3> QED
      BY <1>1, <2>1, <3>1, <3>3 DEF t, Turns
  <2>3. CASE s # running
    <3>1. Len(stop'[s]) = IF s <= hist.turns THEN 1 ELSE 0
      BY <1>3, <2>3 DEF CancelRunning, SpawnCancelTask, ControlInv, OneTerminalEvent
    <3> QED
      BY <1>1, <3>1 DEF t, Turns
  <2> QED
    BY <2>2, <2>3
<1>14. PendingHasOwner'
  BY <1>3 DEF PendingHasOwner
<1> QED
  BY <1>8, <1>9, <1>11, <1>12, <1>13, <1>14 DEF ControlInv

\* The end of a turn keeps the control invariant: either the turn was cancelled
\* and a task waits for it, or it was the running turn, reports its end once
\* and leaves nothing pending
LEMMA ControlEndTurn ==
  ASSUME TypeOK, ControlInv, NEW t \in Turns, EndTurn(t)
  PROVE  ControlInv'
<1>1. pc[t] = "end" /\ pc' = [pc EXCEPT ![t] = "done"] /\ UNCHANGED <<cancelled, waiters, hist>>
  BY DEF EndTurn, WasCancelled, TakeRunningTurn, Moved
<1>2. \A s \in Turns : s # t => pc'[s] = pc[s]
  BY <1>1 DEF TypeOK
<1>3. pc'[t] = "done"
  BY <1>1 DEF TypeOK
<1>4. StartedTurns' /\ CancelledStarted' /\ CancelledHaveWaiters'
  BY <1>1, <1>2, <1>3
     DEF ControlInv, StartedTurns, CancelledStarted, CancelledHaveWaiters, Alive
<1>5. CASE cancelled[t]
  <2>1. UNCHANGED <<pending, stop, running>>
    BY <1>5 DEF EndTurn, WasCancelled, TakeRunningTurn
  <2>2. t \in waiters /\ t # running
    BY <1>1, <1>5 DEF ControlInv, CancelledHaveWaiters, SingleLiveTurn, Alive
  <2>3. SingleLiveTurn' /\ OneTerminalEvent'
    BY <1>1, <1>2, <1>3, <2>1, <2>2 DEF ControlInv, SingleLiveTurn, OneTerminalEvent, Alive
  <2>4. PendingHasOwner'
    BY <1>1, <2>2 DEF PendingHasOwner, Unsettled
  <2> QED
    BY <1>4, <2>3, <2>4 DEF ControlInv
<1>6. CASE ~cancelled[t]
  <2>1. pending' = None /\ running' = None
    BY <1>6 DEF EndTurn, WasCancelled, TakeRunningTurn
  <2>2. PICK r : stop' = [stop EXCEPT ![t] = Append(stop[t], r)] /\ r \in StopReasons
    <3>1. StopFor(local[t].outcome) \in StopReasons
      BY DEF StopFor, StopReasons, TypeOK, Locals, Outcomes
    <3> QED
      BY <1>6, <3>1 DEF EndTurn, WasCancelled, TakeRunningTurn
  <2>3. t = running
    BY <1>1, <1>6 DEF ControlInv, SingleLiveTurn, Alive
  <2>4. SingleLiveTurn'
    BY <1>1, <1>2, <1>3, <2>1, <2>3, NoneAssumption DEF ControlInv, SingleLiveTurn, Alive, Turns
  <2>5. t <= hist.turns
    BY <1>1 DEF ControlInv, StartedTurns, Turns, TypeOK, History
  <2>6. OneTerminalEvent'
    <3> SUFFICES ASSUME NEW s \in Turns
                 PROVE  Len(stop'[s]) = IF s <= hist.turns THEN 1 ELSE 0
      BY <1>1, <2>1, NoneAssumption DEF OneTerminalEvent, Turns
    <3>1. CASE s = t
      <4>1. Len(stop[t]) = 0 /\ stop[t] \in Seq(StopReasons)
        BY <2>3 DEF ControlInv, OneTerminalEvent, TypeOK
      <4>2. stop'[t] = Append(stop[t], r)
        BY <2>2 DEF TypeOK
      <4> QED
        BY <2>2, <2>5, <3>1, <4>1, <4>2
    <3>2. CASE s # t
      <4>1. stop'[s] = stop[s]
        BY <2>2, <3>2 DEF TypeOK
      <4> QED
        BY <2>3, <3>2, <4>1 DEF ControlInv, OneTerminalEvent
    <3> QED
      BY <3>1, <3>2
  <2>7. PendingHasOwner'
    BY <2>1 DEF PendingHasOwner
  <2> QED
    BY <1>4, <2>4, <2>6, <2>7 DEF ControlInv
<1> QED
  BY <1>5, <1>6

\* Every step keeps the control invariant
LEMMA ControlStep == TypeOK /\ ControlInv /\ [Next]_vars => ControlInv'
<1> SUFFICES ASSUME TypeOK, ControlInv, [Next]_vars PROVE ControlInv'
  OBVIOUS
<1> USE DEF threadVars, turnVars, toolVars, Moved, UnchangedButMessages, TakeRunningTurn
<1>1. CASE Send \/ Resume
  <2>1. CASE \E ms, id : RunTurn(ms, id)
    BY <2>1, ControlRunTurn
  <2>2. CASE /\ UNCHANGED <<pending, turnVars>>
             /\ hist' = [hist EXCEPT !.sent = hist.sent + 1, !.impatient = @ \/ Unsettled]
    <3>1. hist'.turns = hist.turns
      BY <2>2 DEF TypeOK, History
    <3> QED
      BY <2>2, <3>1, ControlIdle
  <2> QED
    BY <1>1, <2>1, <2>2 DEF Send, Resume
<1>2. CASE Cancel
  <2>1. hist'.turns = hist.turns
    BY <1>2 DEF Cancel, TypeOK, History
  <2>2. CASE running = None
    BY <1>2, <2>1, <2>2, ControlIdle DEF Cancel
  <2>3. CASE running # None
    BY <1>2, <2>1, <2>3, ControlCancel DEF Cancel
  <2> QED
    BY <2>2, <2>3
<1>3. ASSUME NEW id \in 1..hist.sent, Truncate(id) PROVE ControlInv'
  <2>1. hist'.turns = hist.turns
    BY <1>3 DEF Truncate, DropCompaction, TypeOK, History
  <2> QED
    BY <1>3, <2>1, ControlCancel DEF Truncate
<1>4. CASE SetModel \/ SetTitle \/ RegenerateTitle
           \/ (\E b \in BOOLEAN : SetHasQueuedMessage(b) \/ TitleGenerated(b) \/ CompactionDone(b))
           \/ (\E u \in Tools, ok \in BOOLEAN : ToolFinished(u, ok))
  <2>1. UNCHANGED <<pending, pc, running, cancelled, stop, waiters, hist>>
    BY <1>4 DEF SetModel, SetTitle, RegenerateTitle, SetHasQueuedMessage, TitleGenerated,
                CompactionDone, ToolFinished
  <2> QED
    BY <2>1, ControlIdle
<1>5. ASSUME NEW t \in Turns, EventStep(t) \/ StreamEnded(t) PROVE ControlInv'
  <2>1. /\ pc[t] \in {"opened", "stream"}
        /\ UNCHANGED <<running, cancelled, stop, waiters, hist>>
        /\ \E w \in {"stream", "round", "end"} : pc' = [pc EXCEPT ![t] = w]
    BY <1>5 DEF EventStep, StartMessageEvent, TextEvent, ReasoningDetailsEvent, UsageUpdateEvent,
                ToolUseEvent, TurnFailedEvent, StreamError, StreamEnded, Streaming, LeaveStream
  <2> QED
    BY <2>1, ControlMove DEF Alive, AwakePCs, PCs
<1>6. ASSUME NEW t \in Turns, TaskStep(t) PROVE ControlInv'
  <2>1. CASE \E u \in Tools : ToolResultEarly(t, u)
    <3>1. PICK u \in Tools : ToolResultEarly(t, u)
      BY <2>1
    <3>2. CASE LeaveStream(t, FALSE, "none")
      BY <3>1, <3>2, ControlMove
         DEF ToolResultEarly, LeaveStream, Streaming, Alive, AwakePCs, PCs
    <3>3. CASE UNCHANGED <<threadVars, turnVars, missing, hist>>
      BY <3>3, ControlIdle
    <3> QED
      BY <3>1, <3>2, <3>3 DEF ToolResultEarly
  <2>2. CASE EndTurn(t)
    BY <2>2, ControlEndTurn
  <2>3. CASE CancelFlush(t)
    BY <2>3 DEF CancelFlush, ControlInv, StartedTurns, CancelledStarted, CancelledHaveWaiters,
                SingleLiveTurn, OneTerminalEvent, PendingHasOwner, Alive
  <2>4. CASE StartTurn(t) \/ StreamOpened(t) \/ (\E e \in ErrorKinds : StreamFailed(t, e))
             \/ CancellationSeen(t) \/ AfterStream(t) \/ ToolsPolled(t) \/ WrapRound(t)
             \/ RetryTimer(t) \/ RetryCancelled(t)
    <3>1. /\ pc[t] \in AwakePCs
          /\ UNCHANGED <<running, cancelled, stop, waiters, hist>>
          /\ \E w \in AwakePCs : pc' = [pc EXCEPT ![t] = w]
      BY <2>4 DEF StartTurn, StreamOpened, StreamFailed, CancellationSeen, AfterStream,
                  ToolsPolled, WrapRound, RetryTimer, RetryCancelled, Streaming, LeaveStream,
                  AskModel, AwakePCs, PCs
    <3> QED
      BY <3>1, ControlMove DEF Alive, AwakePCs
  <2> QED
    BY <1>6, <2>1, <2>2, <2>3, <2>4 DEF TaskStep
<1>7. CASE UNCHANGED vars
  BY <1>7, ControlIdle DEF vars
<1> QED
  BY <1>1, <1>2, <1>3, <1>4, <1>5, <1>6, <1>7 DEF Next, UserStep

\* The control invariant holds in every reachable state
THEOREM ControlSafe == Spec => []ControlInv
<1>1. Init => ControlInv
  BY BoundsAssumption, NoneAssumption
     DEF Init, ControlInv, StartedTurns, CancelledStarted, CancelledHaveWaiters, SingleLiveTurn,
         OneTerminalEvent, PendingHasOwner, Alive, Turns
<1> QED
  BY <1>1, ControlStep, TypeCorrect, PTL DEF Spec

\* At most one turn task is alive without being cancelled, and it is the one in
\* running_turn
THEOREM SingleLiveTurnSafe == Spec => []SingleLiveTurn
<1>1. ControlInv => SingleLiveTurn
  BY DEF ControlInv
<1> QED
  BY <1>1, ControlSafe, PTL

\* Every turn reports exactly one terminal event, when it is over
THEOREM OneTerminalEventSafe == Spec => []OneTerminalEvent
<1>1. ControlInv => OneTerminalEvent
  BY DEF ControlInv
<1> QED
  BY <1>1, ControlSafe, PTL

\* A pending message always has a task that will flush it
THEOREM PendingHasOwnerSafe == Spec => []PendingHasOwner
<1>1. ControlInv => PendingHasOwner
  BY DEF ControlInv
<1> QED
  BY <1>1, ControlSafe, PTL
-----------------------------------------------------------------------------
(***************************************************************************)
(* Streaming tool inputs.  A tool that still waits for input has its       *)
(* sender in the running turn's streaming_tool_inputs, so emptying that    *)
(* map before the tools are awaited unblocks every tool of the turn.       *)
(***************************************************************************)
WaitingHaveSenders ==
  \A u \in Tools : tool[u].task = "running" /\ tool[u].input = "partial" => u \in streaming

InputInv == WaitingHaveSenders /\ ToolInputsClosed

\* A step that changes no tool and no sender, and does not take a turn past its
\* stream, keeps the invariant
LEMMA InputFrame ==
  ASSUME TypeOK, InputInv, UNCHANGED <<tool, streaming>>, NEW t \in Turns, NEW w,
         pc' = [pc EXCEPT ![t] = w], w \in {"tools", "wrap"} => pc[t] \in {"tools", "wrap"}
  PROVE  InputInv'
BY DEF TypeOK, InputInv, WaitingHaveSenders, ToolInputsClosed

\* Dropping every sender keeps the invariant
LEMMA InputClose ==
  ASSUME TypeOK, InputInv, tool' = CloseInputs(streaming), NEW t \in Turns, NEW w,
         pc' = [pc EXCEPT ![t] = w], w \notin {"tools", "wrap"}
  PROVE  InputInv'
<1>1. \A u \in Tools : /\ tool'[u].task = tool[u].task /\ tool'[u].owner = tool[u].owner
                        /\ tool'[u].input = IF u \in streaming THEN "closed" ELSE tool[u].input
  BY DEF CloseInputs, TypeOK, ToolStates
<1> QED
  BY <1>1 DEF TypeOK, InputInv, WaitingHaveSenders, ToolInputsClosed

\* The same when no turn moves
LEMMA InputCloseIdle ==
  ASSUME TypeOK, InputInv, tool' = CloseInputs(streaming), pc' = pc
  PROVE  InputInv'
<1>1. \A u \in Tools : /\ tool'[u].task = tool[u].task /\ tool'[u].owner = tool[u].owner
                        /\ tool'[u].input = IF u \in streaming THEN "closed" ELSE tool[u].input
  BY DEF CloseInputs, TypeOK, ToolStates
<1> QED
  BY <1>1 DEF InputInv, WaitingHaveSenders, ToolInputsClosed

\* Leaving the stream keeps the invariant
LEMMA InputLeave ==
  ASSUME TypeOK, InputInv, NEW t \in Turns, NEW b, NEW e, LeaveStream(t, b, e)
  PROVE  InputInv'
<1>1. \A u \in Tools : /\ tool'[u].task = tool[u].task /\ tool'[u].owner = tool[u].owner
                        /\ tool'[u].input = tool[u].input
  BY DEF LeaveStream, TypeOK, ToolStates
<1>2. streaming' = streaming /\ pc' = [pc EXCEPT ![t] = "round"]
  BY DEF LeaveStream, Moved
<1> QED
  BY <1>1, <1>2 DEF TypeOK, InputInv, WaitingHaveSenders, ToolInputsClosed

\* Every step keeps the invariant
LEMMA InputStep == TypeOK /\ InputInv /\ [Next]_vars => InputInv'
<1> SUFFICES ASSUME TypeOK, InputInv, [Next]_vars PROVE InputInv'
  OBVIOUS
<1> USE DEF threadVars, turnVars, toolVars, Moved, UnchangedButMessages, TakeRunningTurn
<1>1. CASE Send \/ Resume
  <2>1. CASE \E ms, id : RunTurn(ms, id)
    <3> DEFINE t == hist.turns + 1
    <3>1. t \in Turns
      BY <2>1, BoundsAssumption DEF TypeOK, RunTurn, History, Turns
    <3>2. tool' = CloseInputs(streaming) /\ pc' = [pc EXCEPT ![t] = "start"]
      BY <2>1 DEF RunTurn, CancelRunning, SpawnCancelTask
    <3> HIDE DEF t
    <3> QED
      BY <3>1, <3>2, InputClose
  <2>2. CASE UNCHANGED <<turnVars, toolVars>>
    BY <2>2 DEF InputInv, WaitingHaveSenders, ToolInputsClosed
  <2> QED
    BY <1>1, <2>1, <2>2 DEF Send, Resume
<1>2. CASE Cancel
  <2>1. CASE running = None
    BY <1>2, <2>1 DEF Cancel, InputInv, WaitingHaveSenders, ToolInputsClosed
  <2>2. CASE running # None
    BY <1>2, <2>2, InputCloseIdle DEF Cancel, CancelRunning
  <2> QED
    BY <2>1, <2>2
<1>3. ASSUME NEW id \in 1..hist.sent, Truncate(id) PROVE InputInv'
  BY <1>3, InputCloseIdle DEF Truncate, CancelRunning
<1>4. CASE SetModel \/ SetTitle \/ RegenerateTitle
           \/ (\E b \in BOOLEAN : SetHasQueuedMessage(b) \/ TitleGenerated(b) \/ CompactionDone(b))
  <2>1. UNCHANGED <<pc, tool, streaming>>
    BY <1>4 DEF SetModel, SetTitle, RegenerateTitle, SetHasQueuedMessage, TitleGenerated,
                CompactionDone
  <2> QED
    BY <2>1 DEF InputInv, WaitingHaveSenders, ToolInputsClosed
<1>5. ASSUME NEW u \in Tools, NEW ok \in BOOLEAN, ToolFinished(u, ok) PROVE InputInv'
  <2> DEFINE r == IF ok THEN "ok" ELSE "err"
  <2>1. r # "running" /\ tool' = [tool EXCEPT ![u].task = r] /\ UNCHANGED <<pc, streaming>>
    BY <1>5 DEF ToolFinished
  <2> HIDE DEF r
  <2> QED
    BY <2>1 DEF TypeOK, ToolStates, InputInv, WaitingHaveSenders, ToolInputsClosed
<1>6. ASSUME NEW t \in Turns, EventStep(t) PROVE InputInv'
  <2>1. CASE StartMessageEvent(t) \/ TextEvent(t) \/ ReasoningDetailsEvent(t)
             \/ \E level \in {"low", "high"} : UsageUpdateEvent(t, level)
    <3>1. UNCHANGED <<tool, streaming>> /\ pc' = [pc EXCEPT ![t] = "stream"]
      BY <2>1 DEF StartMessageEvent, TextEvent, ReasoningDetailsEvent, UsageUpdateEvent
    <3> QED
      BY <3>1, InputFrame
  <2>2. ASSUME NEW u \in Tools, NEW input \in {"partial", "full", "invalid"},
               ToolUseEvent(t, u, input)
        PROVE  InputInv'
    <3>1. pc[t] \in {"opened", "stream"} /\ pc' = [pc EXCEPT ![t] = "stream"]
      BY <2>2 DEF ToolUseEvent, Streaming
    <3>2. \A v \in Tools : v # u => tool'[v] = tool[v]
      BY <2>2 DEF ToolUseEvent, TypeOK
    <3>3. tool'[u].owner = t
      BY <2>2 DEF ToolUseEvent, TypeOK
    <3>4. streaming \ {u} \subseteq streaming'
      BY <2>2 DEF ToolUseEvent
    <3>5. tool'[u].task = "running" /\ tool'[u].input = "partial" => u \in streaming'
      BY <2>2 DEF ToolUseEvent, TypeOK, ToolStates, InputInv, WaitingHaveSenders
    <3>6. WaitingHaveSenders'
      BY <3>2, <3>4, <3>5 DEF InputInv, WaitingHaveSenders
    <3>7. ToolInputsClosed'
      BY <3>1, <3>2, <3>3 DEF TypeOK, InputInv, ToolInputsClosed
    <3> QED
      BY <3>6, <3>7 DEF InputInv
  <2>3. ASSUME NEW outcome \in {"refusal", "max_tokens"}, TurnFailedEvent(t, outcome)
        PROVE  InputInv'
    <3>1. pc' = [pc EXCEPT ![t] = "end"] /\ streaming' = streaming
      BY <2>3 DEF TurnFailedEvent
    <3>2. \A u \in Tools : /\ tool'[u].task = "running" => tool[u].task = "running"
                            /\ tool'[u].owner = tool[u].owner /\ tool'[u].input = tool[u].input
      <4> SUFFICES ASSUME NEW u \in Tools
                   PROVE  /\ tool'[u].task = "running" => tool[u].task = "running"
                          /\ tool'[u].owner = tool[u].owner /\ tool'[u].input = tool[u].input
        OBVIOUS
      <4> DEFINE x == IF tool[u].task \in {"none", "used"} THEN tool[u].task ELSE "dropped"
      <4>1. x # "running"
        OBVIOUS
      <4>2. tool'[u] = IF tool[u].owner # t THEN tool[u]
                       ELSE [tool[u] EXCEPT !.stage = "final", !.task = x]
        BY <2>3 DEF TurnFailedEvent
      <4> HIDE DEF x
      <4> QED
        BY <4>1, <4>2 DEF TypeOK, ToolStates
    <3> QED
      BY <3>1, <3>2 DEF TypeOK, InputInv, WaitingHaveSenders, ToolInputsClosed
  <2>4. CASE \E e \in ErrorKinds : StreamError(t, e)
    BY <2>4, InputLeave DEF StreamError
  <2> QED
    BY <1>6, <2>1, <2>2, <2>3, <2>4 DEF EventStep
<1>7. ASSUME NEW t \in Turns, TaskStep(t) \/ StreamEnded(t) PROVE InputInv'
  <2>1. CASE StartTurn(t) \/ StreamOpened(t) \/ WrapRound(t) \/ RetryTimer(t) \/ RetryCancelled(t)
    <3>1. /\ UNCHANGED <<tool, streaming>>
          /\ \E w \in {"request", "end", "opened", "retry"} : pc' = [pc EXCEPT ![t] = w]
      BY <2>1 DEF StartTurn, StreamOpened, WrapRound, RetryTimer, RetryCancelled, AskModel
    <3> QED
      BY <3>1, InputFrame
  <2>2. CASE (\E e \in ErrorKinds : StreamFailed(t, e)) \/ CancellationSeen(t) \/ StreamEnded(t)
    BY <2>2, InputLeave DEF StreamFailed, CancellationSeen, StreamEnded
  <2>3. ASSUME NEW u \in Tools, ToolResultEarly(t, u) PROVE InputInv'
    <3>1. CASE LeaveStream(t, FALSE, "none")
      BY <3>1, InputLeave
    <3>2. CASE tool' = [tool EXCEPT ![u].task = "early"] /\ UNCHANGED <<threadVars, turnVars, missing, hist>>
      BY <3>2 DEF TypeOK, ToolStates, InputInv, WaitingHaveSenders, ToolInputsClosed
    <3> QED
      BY <2>3, <3>1, <3>2 DEF ToolResultEarly
  <2>4. \A u \in Tools : /\ Used(Ready(t))[u].task = "running" => tool[u].task = "running"
                          /\ Used(Ready(t))[u].owner = tool[u].owner
                          /\ Used(Ready(t))[u].input = tool[u].input
    BY DEF Used, TypeOK, ToolStates
  <2>5. CASE AfterStream(t)
    <3>1. pc[t] = "round" /\ \E w \in {"tools", "wrap"} : pc' = [pc EXCEPT ![t] = w]
      BY <2>5 DEF AfterStream, DrainedInputs
    <3>2. \A u \in Tools : /\ tool'[u].task = "running" => tool[u].task = "running"
                            /\ tool'[u].owner = tool[u].owner
                            /\ tool'[u].input = IF u \in streaming THEN "closed" ELSE tool[u].input
      <4>1. Used(Ready(t)) \in [Tools -> ToolStates]
        BY UsedType
      <4>2. \A u \in Tools : tool'[u] = IF u \in streaming
                                         THEN [Used(Ready(t))[u] EXCEPT !.input = "closed"]
                                         ELSE Used(Ready(t))[u]
        BY <2>5 DEF AfterStream, DrainedInputs
      <4> QED
        BY <2>4, <4>1, <4>2 DEF ToolStates
    <3>3. \A u \in Tools : tool'[u].task = "running" => tool'[u].input # "partial"
      BY <3>2 DEF InputInv, WaitingHaveSenders
    <3> QED
      BY <3>3 DEF InputInv, WaitingHaveSenders, ToolInputsClosed
  <2>6. CASE ToolsPolled(t)
    <3>1. /\ pc[t] = "tools" /\ streaming' = streaming /\ tool' = Used(Ready(t))
          /\ \E w \in {"tools", "wrap"} : pc' = [pc EXCEPT ![t] = w]
      BY <2>6 DEF ToolsPolled
    <3>2. \A s \in Turns : pc'[s] \in {"tools", "wrap"} => pc[s] \in {"tools", "wrap"}
      BY <3>1 DEF TypeOK
    <3>3. \A u \in Tools : /\ tool'[u].task = "running" => tool[u].task = "running"
                            /\ tool'[u].owner = tool[u].owner /\ tool'[u].input = tool[u].input
      BY <2>4, <3>1
    <3> QED
      BY <3>1, <3>2, <3>3 DEF InputInv, WaitingHaveSenders, ToolInputsClosed
  <2>7. CASE EndTurn(t)
    <3>1. pc' = [pc EXCEPT ![t] = "done"]
      BY <2>7 DEF EndTurn, WasCancelled, TakeRunningTurn, Moved
    <3>2. CASE cancelled[t]
      <4>1. UNCHANGED <<tool, streaming>>
        BY <2>7, <3>2 DEF EndTurn, WasCancelled, TakeRunningTurn
      <4>2. "done" \notin {"tools", "wrap"}
        OBVIOUS
      <4> QED
        BY <3>1, <4>1, <4>2, InputFrame
    <3>3. CASE ~cancelled[t]
      <4>1. tool' = CloseInputs(streaming)
        BY <2>7, <3>3 DEF EndTurn, WasCancelled, TakeRunningTurn
      <4> QED
        BY <3>1, <4>1, InputClose
    <3> QED
      BY <3>2, <3>3
  <2>8. CASE CancelFlush(t)
    BY <2>8 DEF CancelFlush, InputInv, WaitingHaveSenders, ToolInputsClosed
  <2> QED
    BY <1>7, <2>1, <2>2, <2>3, <2>5, <2>6, <2>7, <2>8 DEF TaskStep
<1>8. CASE UNCHANGED vars
  BY <1>8 DEF vars, InputInv, WaitingHaveSenders, ToolInputsClosed
<1> QED
  BY <1>1, <1>2, <1>3, <1>4, <1>5, <1>6, <1>7, <1>8 DEF Next, UserStep

\* A turn past its stream never waits for a tool that waits for input: the
\* deadlock run_turn_internal avoids by dropping the senders that are left
THEOREM ToolInputsClosedSafe == Spec => []ToolInputsClosed
<1>1. Init => InputInv
  BY DEF Init, InputInv, WaitingHaveSenders, ToolInputsClosed
<1>2. InputInv => ToolInputsClosed
  BY DEF InputInv
<1> QED
  BY <1>1, <1>2, InputStep, TypeCorrect, PTL DEF Spec
=============================================================================
