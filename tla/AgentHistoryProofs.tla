------------------------ MODULE AgentHistoryProofs ------------------------
(***************************************************************************)
(* What AgentThread does to the title and to the message history, for      *)
(* every value of its constants.                                           *)
(***************************************************************************)
EXTENDS AgentThreadProofs, FiniteSetTheorems

(***************************************************************************)
(* The title.  A generation that runs while the title is the user's was    *)
(* asked for by the user.                                                  *)
(***************************************************************************)
TitleAsked == title.value = "user" /\ title.generation = "running" => title.asked

\* No step leaves a generation behind that could replace a title the user
\* typed afterwards, and no step replaces it
LEMMA TitleStep ==
  ASSUME TypeOK, TitleAsked, [Next]_vars
  PROVE  /\ TitleAsked'
         /\ title.value = "user" /\ title'.value = "generated" => title.asked
<1> USE DEF threadVars, turnVars, toolVars, UnchangedButMessages
<1>1. CASE UNCHANGED title
  BY <1>1 DEF TitleAsked, TypeOK, TitleStates
<1>2. CASE SetTitle
  BY <1>2 DEF SetTitle, UserTitle, TitleAsked
<1>3. CASE RegenerateTitle
  <2>1. title'.value = title.value /\ title'.asked
    BY <1>3 DEF RegenerateTitle, GeneratedTitle, TypeOK, TitleStates
  <2> QED
    BY <2>1 DEF TitleAsked
<1>4. ASSUME NEW ok \in BOOLEAN, TitleGenerated(ok)
      PROVE  /\ TitleAsked'
             /\ title.value = "user" /\ title'.value = "generated" => title.asked
  <2>1. title.generation = "running"
    BY <1>4 DEF TitleGenerated
  <2>2. title'.generation # "running"
    BY <1>4 DEF TitleGenerated, TypeOK, TitleStates
  <2> QED
    BY <2>1, <2>2 DEF TitleAsked
<1>5. ASSUME NEW t \in Turns, WrapRound(t)
      PROVE  /\ TitleAsked'
             /\ title.value = "user" /\ title'.value = "generated" => title.asked
  <2>1. title' = title \/ (title.value = "none" /\ title' = GeneratedTitle(FALSE))
    BY <1>5 DEF WrapRound
  <2>2. CASE title.value = "none" /\ title' = GeneratedTitle(FALSE)
    <3>1. title'.value = "none"
      BY <2>2 DEF GeneratedTitle, TypeOK, TitleStates
    <3> QED
      BY <2>2, <3>1 DEF TitleAsked
  <2> QED
    BY <1>1, <2>1, <2>2
<1>6. CASE Send \/ Resume \/ Cancel \/ SetModel
           \/ (\E id \in 1..hist.sent : Truncate(id))
           \/ (\E b \in BOOLEAN : SetHasQueuedMessage(b) \/ CompactionDone(b))
           \/ (\E u \in Tools, ok \in BOOLEAN : ToolFinished(u, ok))
  <2>1. UNCHANGED title
    BY <1>6 DEF Send, Resume, RunTurn, Cancel, SetModel, Truncate, SetHasQueuedMessage,
                CompactionDone, ToolFinished
  <2> QED
    BY <1>1, <2>1
<1>7. ASSUME NEW t \in Turns, EventStep(t) \/ StreamEnded(t) PROVE UNCHANGED title
  BY <1>7 DEF EventStep, StartMessageEvent, TextEvent, ReasoningDetailsEvent, UsageUpdateEvent,
              ToolUseEvent, TurnFailedEvent, StreamError, StreamEnded, LeaveStream
<1>8. ASSUME NEW t \in Turns, TaskStep(t), ~WrapRound(t) PROVE UNCHANGED title
  BY <1>8 DEF TaskStep, StartTurn, StreamOpened, StreamFailed, ToolResultEarly, CancellationSeen,
              AfterStream, ToolsPolled, RetryTimer, RetryCancelled, EndTurn, CancelFlush, LeaveStream
<1>9. CASE UNCHANGED vars
  BY <1>1, <1>9 DEF vars
<1> QED
  BY <1>1, <1>2, <1>3, <1>4, <1>5, <1>6, <1>7, <1>8, <1>9 DEF Next, UserStep, TaskStep

\* A title the user typed is replaced by a generated one only on request
\* (set_title drops pending_title_generation)
THEOREM UserTitleSafe == Spec => UserTitleKept
<1>1. Init => TitleAsked
  BY DEF Init, TitleAsked
<1>2. TypeOK /\ TitleAsked /\ [Next]_vars => TitleAsked'
  BY TitleStep
<1>3. TypeOK /\ TitleAsked /\ [Next]_vars
        => [title.value = "user" /\ title'.value = "generated" => title.asked]_vars
  BY TitleStep
<1> QED
  BY <1>1, <1>2, <1>3, TypeCorrect, PTL DEF Spec, UserTitleKept

-----------------------------------------------------------------------------
(***************************************************************************)
(* A compaction in flight.  The history in front of its boundary stays     *)
(* because everything appends, except truncate, which drops the            *)
(* compaction, and a refusal, which cuts at the message_ix of the running  *)
(* turn: the turn started after the compaction, so that index is behind    *)
(* the boundary.  The message after the boundary is a user message: the    *)
(* compaction takes no part of a turn.                                     *)
(***************************************************************************)
TurnsAfterCompaction ==
  compaction # None =>
    \A t \in Turns : Alive(t) /\ ~cancelled[t] => local[t].ix > compaction.boundary

BoundaryIsPrompt ==
  compaction # None => /\ compaction.boundary < Len(messages)
                       /\ messages[compaction.boundary + 1].kind = "user"

CompactionInv == CompactionPrefixStable /\ TurnsAfterCompaction /\ BoundaryIsPrompt

\* The history ms continued
Continues(ms, more) ==
  Len(ms) <= Len(more) /\ \A i \in 1..Len(ms) : more[i] = ms[i]

\* A part of the history does not see what is appended behind it
LEMMA PrefixKept ==
  ASSUME NEW ms \in Seq(Message), NEW more \in Seq(Message), Continues(ms, more),
         NEW b \in Nat, b <= Len(ms)
  PROVE  SubSeq(more, 1, b) = SubSeq(ms, 1, b)
<1>1. \A i \in 1..b : ms[i] \in Message /\ more[i] \in Message /\ more[i] = ms[i]
  BY DEF Continues
<1>2. /\ SubSeq(ms, 1, b) \in Seq(Message) /\ Len(SubSeq(ms, 1, b)) = b
      /\ \A i \in 1..b : SubSeq(ms, 1, b)[i] = ms[i]
  BY <1>1, SubSeqProperties
<1>3. /\ SubSeq(more, 1, b) \in Seq(Message) /\ Len(SubSeq(more, 1, b)) = b
      /\ \A i \in 1..b : SubSeq(more, 1, b)[i] = more[i]
  BY <1>1, SubSeqProperties
<1> QED
  BY <1>1, <1>2, <1>3, SeqEqual

\* Appending and flushing continue the history
LEMMA AppendContinues ==
  ASSUME NEW ms \in Seq(Message), NEW m \in Message
  PROVE  Continues(ms, Append(ms, m))
BY AppendProperties DEF Continues

\* So does flush_pending_message, which appends at most one message
LEMMA FlushedContinues ==
  ASSUME TypeOK, NEW ms \in Seq(Message)
  PROVE  Continues(ms, Flushed(ms))
<1>1. CASE pending # None /\ HasContent(pending)
  <2>1. pending \in AgentMessage
    BY <1>1 DEF TypeOK
  <2>2. Answered(pending) \in AgentMessage
    BY <2>1 DEF Answered, AgentMessage
  <2>3. Answered(pending) \in Message
    BY <2>2 DEF Message
  <2>4. Flushed(ms) = Append(ms, Answered(pending))
    BY <1>1 DEF Flushed
  <2> QED
    BY <2>3, <2>4, AppendContinues
<1>2. CASE ~(pending # None /\ HasContent(pending))
  BY <1>2 DEF Flushed, Continues
<1> QED
  BY <1>1, <1>2

\* The same for the history as a whole
LEMMA MessagesContinue ==
  ASSUME TypeOK
  PROVE  Continues(messages, messages) /\ Continues(messages, Flushed(messages))
<1>1. messages \in Seq(Message)
  BY DEF TypeOK
<1> QED
  BY <1>1, FlushedContinues DEF Continues

\* A step that only continues the history, starts no turn and moves no
\* message_ix keeps the compaction valid
LEMMA CompactionFrame ==
  ASSUME TypeOK, TypeOK', CompactionInv, compaction' = compaction,
         Continues(messages, messages'),
         \A s \in Turns : Alive(s)' /\ ~cancelled'[s] =>
           Alive(s) /\ ~cancelled[s] /\ local'[s].ix = local[s].ix
  PROVE  CompactionInv'
<1> SUFFICES ASSUME compaction # None PROVE CompactionInv'
  BY DEF CompactionInv, CompactionPrefixStable, TurnsAfterCompaction, BoundaryIsPrompt
<1> DEFINE b == compaction.boundary
<1>1. b \in Nat /\ b <= Len(messages) /\ SubSeq(messages, 1, b) = compaction.prefix
  BY DEF TypeOK, Compaction, CompactionInv, CompactionPrefixStable
<1>2. messages \in Seq(Message) /\ messages' \in Seq(Message)
  BY DEF TypeOK
<1>3. Len(messages) <= Len(messages')
  BY DEF Continues
<1>4. b <= Len(messages')
  BY <1>1, <1>2, <1>3
<1>5. SubSeq(messages', 1, b) = SubSeq(messages, 1, b)
  BY <1>1, <1>2, PrefixKept
<1>6. CompactionPrefixStable'
  BY <1>1, <1>4, <1>5 DEF CompactionPrefixStable
<1>7. TurnsAfterCompaction'
  BY DEF CompactionInv, TurnsAfterCompaction
<1>8. BoundaryIsPrompt'
  <2>1. b < Len(messages) /\ messages[b + 1].kind = "user"
    BY DEF CompactionInv, BoundaryIsPrompt
  <2>2. b + 1 \in 1..Len(messages) /\ b < Len(messages')
    BY <1>1, <1>2, <1>3, <2>1
  <2> QED
    BY <2>1, <2>2 DEF BoundaryIsPrompt, Continues
<1> QED
  BY <1>6, <1>7, <1>8 DEF CompactionInv

\* No turn's message_ix or prompt moves, and only t changes its locals
KeepsIx(t) ==
  /\ local'[t].ix = local[t].ix /\ local'[t].prompt = local[t].prompt
  /\ \A s \in Turns : s # t => local'[s] = local[s]

\* Leaving the stream moves none
LEMMA LeaveKeepsIx ==
  ASSUME TypeOK, NEW t \in Turns, NEW b, NEW e, LeaveStream(t, b, e)
  PROVE  KeepsIx(t)
BY DEF LeaveStream, TypeOK, Locals, KeepsIx

\* Asking the model at the top of the loop moves none
LEMMA AskKeepsIx ==
  ASSUME TypeOK, NEW t \in Turns, NEW loc \in Locals,
         loc.ix = local[t].ix, loc.prompt = local[t].prompt, AskModel(t, loc)
  PROVE  KeepsIx(t)
<1>1. CASE local' = [local EXCEPT ![t] = loc]
  BY <1>1 DEF TypeOK, KeepsIx
<1>2. CASE local' = [local EXCEPT ![t] = [loc EXCEPT !.outcome = "error"]]
  BY <1>2 DEF TypeOK, Locals, KeepsIx
<1> QED
  BY <1>1, <1>2 DEF AskModel

\* The same when the number of attempts starts again
LEMMA AskAgainKeepsIx ==
  ASSUME TypeOK, NEW t \in Turns, AskModel(t, [local[t] EXCEPT !.attempt = 0])
  PROVE  KeepsIx(t)
<1> DEFINE loc == [local[t] EXCEPT !.attempt = 0]
<1>1. loc \in Locals /\ loc.ix = local[t].ix /\ loc.prompt = local[t].prompt
  BY DEF TypeOK, Locals
<1> HIDE DEF loc
<1> QED
  BY <1>1, AskKeepsIx DEF loc

\* Nor does a change of the other locals of the turn
LEMMA UpdateKeepsIx ==
  ASSUME TypeOK, NEW t \in Turns, NEW x,
         \/ local' = [local EXCEPT ![t].outcome = x]
         \/ local' = [local EXCEPT ![t].attempt = x]
         \/ local' = [local EXCEPT ![t].ended = x]
         \/ local' = [local EXCEPT ![t] = [@ EXCEPT !.error = "none", !.seen = FALSE, !.ended = FALSE]]
  PROVE  KeepsIx(t)
<1>1. local[t] \in Locals
  BY DEF TypeOK
<1>2. PICK l : local' = [local EXCEPT ![t] = l] /\ l.ix = local[t].ix /\ l.prompt = local[t].prompt
  <2>1. CASE local' = [local EXCEPT ![t].outcome = x]
    <3> DEFINE l == [local[t] EXCEPT !.outcome = x]
    <3>1. l.ix = local[t].ix /\ l.prompt = local[t].prompt
      BY <1>1 DEF Locals
    <3>2. local' = [local EXCEPT ![t] = l]
      BY <2>1
    <3> HIDE DEF l
    <3> QED
      BY <3>1, <3>2
  <2>2. CASE local' = [local EXCEPT ![t].attempt = x]
    <3> DEFINE l == [local[t] EXCEPT !.attempt = x]
    <3>1. l.ix = local[t].ix /\ l.prompt = local[t].prompt
      BY <1>1 DEF Locals
    <3>2. local' = [local EXCEPT ![t] = l]
      BY <2>2
    <3> HIDE DEF l
    <3> QED
      BY <3>1, <3>2
  <2>3. CASE local' = [local EXCEPT ![t].ended = x]
    <3> DEFINE l == [local[t] EXCEPT !.ended = x]
    <3>1. l.ix = local[t].ix /\ l.prompt = local[t].prompt
      BY <1>1 DEF Locals
    <3>2. local' = [local EXCEPT ![t] = l]
      BY <2>3
    <3> HIDE DEF l
    <3> QED
      BY <3>1, <3>2
  <2>4. CASE local' = [local EXCEPT ![t] = [@ EXCEPT !.error = "none", !.seen = FALSE, !.ended = FALSE]]
    <3> DEFINE l == [local[t] EXCEPT !.error = "none", !.seen = FALSE, !.ended = FALSE]
    <3>1. l.ix = local[t].ix /\ l.prompt = local[t].prompt
      BY <1>1 DEF Locals
    <3>2. local' = [local EXCEPT ![t] = l]
      BY <2>4
    <3> HIDE DEF l
    <3> QED
      BY <3>1, <3>2
  <2> QED
    BY <2>1, <2>2, <2>3, <2>4
<1> QED
  BY <1>2 DEF TypeOK, KeepsIx

\* The events of a stream and its end move none
LEMMA StreamKeepsIx ==
  ASSUME TypeOK, NEW t \in Turns, EventStep(t) \/ StreamEnded(t)
  PROVE  KeepsIx(t)
<1> USE DEF turnVars
<1>1. CASE \E outcome \in {"refusal", "max_tokens"} : TurnFailedEvent(t, outcome)
  BY <1>1, UpdateKeepsIx DEF TurnFailedEvent
<1>2. CASE (\E e \in ErrorKinds : StreamError(t, e)) \/ StreamEnded(t)
  BY <1>2, LeaveKeepsIx DEF StreamError, StreamEnded
<1>3. CASE UNCHANGED local
  BY <1>3 DEF KeepsIx
<1> QED
  BY <1>1, <1>2, <1>3
     DEF EventStep, StartMessageEvent, TextEvent, ReasoningDetailsEvent, UsageUpdateEvent, ToolUseEvent

\* Nor do the steps of the task before its end
LEMMA TaskKeepsIx ==
  ASSUME TypeOK, NEW t \in Turns,
         \/ StartTurn(t) \/ StreamOpened(t) \/ (\E e \in ErrorKinds : StreamFailed(t, e))
         \/ CancellationSeen(t) \/ AfterStream(t) \/ ToolsPolled(t) \/ WrapRound(t)
         \/ RetryTimer(t) \/ RetryCancelled(t)
  PROVE  KeepsIx(t)
<1>1. CASE StartTurn(t) \/ RetryTimer(t)
  BY <1>1, AskKeepsIx DEF StartTurn, RetryTimer, TypeOK
<1>2. CASE CancellationSeen(t) \/ (\E e \in ErrorKinds : StreamFailed(t, e))
  BY <1>2, LeaveKeepsIx DEF StreamFailed, CancellationSeen
<1>3. CASE StreamOpened(t) \/ AfterStream(t) \/ RetryCancelled(t)
  BY <1>3, UpdateKeepsIx DEF StreamOpened, AfterStream, RetryCancelled
<1>4. CASE ToolsPolled(t)
  BY <1>4 DEF ToolsPolled, KeepsIx
<1>5. CASE WrapRound(t)
  <2>1. \/ \E outcome : local' = [local EXCEPT ![t].outcome = outcome]
        \/ local' = [local EXCEPT ![t].attempt = NextAttempt(local[t])]
        \/ AskModel(t, [local[t] EXCEPT !.attempt = 0])
    BY <1>5 DEF WrapRound
  <2>2. CASE AskModel(t, [local[t] EXCEPT !.attempt = 0])
    BY <2>2, AskAgainKeepsIx
  <2> QED
    BY <2>1, <2>2, UpdateKeepsIx
<1> QED
  BY <1>1, <1>2, <1>3, <1>4, <1>5

\* A turn that only goes on
LEMMA CompactionMove ==
  ASSUME TypeOK, TypeOK', CompactionInv, compaction' = compaction, cancelled' = cancelled,
         Continues(messages, messages'), NEW t \in Turns, Alive(t), NEW w,
         pc' = [pc EXCEPT ![t] = w], KeepsIx(t)
  PROVE  CompactionInv'
<1>1. \A s \in Turns : Alive(s)' /\ ~cancelled'[s] =>
           Alive(s) /\ ~cancelled[s] /\ local'[s].ix = local[s].ix
  BY DEF Alive, TypeOK, KeepsIx
<1> QED
  BY <1>1, CompactionFrame

\* A new turn starts behind everything that is in the history
LEMMA CompactionRunTurn ==
  ASSUME TypeOK, TypeOK', ControlInv, CompactionInv, NEW m \in Message, NEW id \in UserIds,
         RunTurn(Append(messages, m), id)
  PROVE  CompactionInv'
<1> DEFINE t == hist.turns + 1
           ms == Append(messages, m)
           more == Flushed(ms)
<1>1. t \in Turns /\ pc[t] = "idle"
  BY BoundsAssumption DEF RunTurn, TypeOK, History, Turns, ControlInv, StartedTurns
<1>2. messages' = more /\ compaction' = compaction
  BY DEF RunTurn
<1>3. messages \in Seq(Message) /\ ms \in Seq(Message)
  BY AppendProperties DEF TypeOK
<1>4. Continues(messages, ms) /\ Len(ms) = Len(messages) + 1
  BY <1>3, AppendContinues, AppendProperties
<1>5. Continues(ms, more) /\ more \in Seq(Message)
  BY <1>3, FlushedContinues, FlushedType
<1> HIDE DEF ms
<1>6. Continues(messages, more) /\ MessageIx(more) >= Len(messages)
  <2> HIDE DEF more
  <2>1. Len(messages) \in Nat /\ Len(ms) \in Nat /\ Len(more) \in Nat
    BY <1>3, <1>5
  <2> QED
    BY <1>4, <1>5, <2>1 DEF Continues, MessageIx
<1>7. local'[t].ix = MessageIx(more) /\ \A s \in Turns : s # t => local'[s] = local[s]
  <2> DEFINE new == [NoLocals EXCEPT !.ix = MessageIx(more), !.prompt = id]
  <2>1. local' = [local EXCEPT ![t] = new]
    BY DEF RunTurn, ms
  <2>2. new.ix = MessageIx(more)
    BY DEF NoLocals
  <2> HIDE DEF new, more, t
  <2> QED
    BY <1>1, <2>1, <2>2 DEF TypeOK
<1>8. pc' = [pc EXCEPT ![t] = "start"]
  BY DEF RunTurn, Moved
<1>9. \A s \in Turns : cancelled[s] => cancelled'[s]
  BY DEF RunTurn, CancelRunning
<1> HIDE DEF more, t
<1> SUFFICES ASSUME compaction # None PROVE CompactionInv'
  BY <1>2 DEF CompactionInv, CompactionPrefixStable, TurnsAfterCompaction, BoundaryIsPrompt
<1> DEFINE b == compaction.boundary
<1>10. /\ b \in Nat /\ b <= Len(messages) /\ SubSeq(messages, 1, b) = compaction.prefix
       /\ b < Len(messages) /\ messages[b + 1].kind = "user"
  BY DEF TypeOK, Compaction, CompactionInv, CompactionPrefixStable, BoundaryIsPrompt
<1>11. SubSeq(more, 1, b) = SubSeq(messages, 1, b)
  BY <1>3, <1>5, <1>6, <1>10, PrefixKept
<1>12. b < Len(more) /\ b <= Len(more) /\ MessageIx(more) > b /\ more[b + 1] = messages[b + 1]
  <2>1. Len(messages) \in Nat /\ Len(more) \in Nat /\ MessageIx(more) \in Int
    BY <1>3, <1>5 DEF MessageIx
  <2> QED
    BY <1>6, <1>10, <2>1 DEF Continues
<1>13. CompactionPrefixStable'
  BY <1>2, <1>10, <1>11, <1>12 DEF CompactionPrefixStable
<1>14. TurnsAfterCompaction'
  <2> SUFFICES ASSUME NEW s \in Turns, Alive(s)', ~cancelled'[s] PROVE local'[s].ix > b
    BY <1>2 DEF TurnsAfterCompaction
  <2>1. CASE s = t
    BY <1>7, <1>12, <2>1
  <2>2. CASE s # t
    <3>1. pc'[s] = pc[s]
      BY <1>8, <2>2 DEF TypeOK
    <3> QED
      BY <1>7, <1>9, <2>2, <3>1 DEF Alive, CompactionInv, TurnsAfterCompaction
  <2> QED
    BY <2>1, <2>2
<1>15. BoundaryIsPrompt'
  BY <1>2, <1>10, <1>12 DEF BoundaryIsPrompt
<1> QED
  BY <1>13, <1>14, <1>15 DEF CompactionInv

\* The boundary of a new compaction lies in the history, before a user message
LEMMA BoundaryInHistory ==
  ASSUME NEW ms \in Seq(Message), AutoCompactionBoundary(ms) # None
  PROVE  LET b == AutoCompactionBoundary(ms)
         IN  b \in 0..Len(ms) /\ b < Len(ms) /\ ms[b + 1].kind = "user"
<1> DEFINE users == UserIndices(ms)
           first == {i \in users : Cardinality({j \in users : j >= i}) = PreservedTurns}
<1>1. first # {} /\ AutoCompactionBoundary(ms) = (CHOOSE i \in first : TRUE) - 1
  BY DEF AutoCompactionBoundary
<1>2. \A i \in first : i \in 1..Len(ms) /\ ms[i].kind = "user"
  BY DEF UserIndices
<1> HIDE DEF first
<1> DEFINE i == CHOOSE i \in first : TRUE
<1>3. i \in first /\ AutoCompactionBoundary(ms) = i - 1
  BY <1>1
<1> HIDE DEF i
<1>4. i \in 1..Len(ms) /\ ms[i].kind = "user" /\ i - 1 + 1 = i
  BY <1>2, <1>3
<1> QED
  BY <1>3, <1>4

\* The end of a turn: a refusal cuts behind the boundary, and a compaction that
\* starts summarizes the history as it is then
LEMMA CompactionEndTurn ==
  ASSUME TypeOK, TypeOK', ControlInv, CompactionInv, NEW t \in Turns, EndTurn(t)
  PROVE  CompactionInv'
<1> DEFINE flushed == Flushed(messages)
           refused == local[t].outcome = "refusal" /\ local[t].ix <= Len(flushed)
           ms == IF refused THEN SubSeq(flushed, 1, local[t].ix) ELSE flushed
<1>1. pc[t] = "end" /\ pc' = [pc EXCEPT ![t] = "done"] /\ cancelled' = cancelled
  BY DEF EndTurn, Moved
<1>2. \A s \in Turns : s # t => pc'[s] = pc[s] /\ local'[s] = local[s]
  BY DEF EndTurn, Moved, TypeOK
<1>3. \A s \in Turns : Alive(s)' => s # t /\ Alive(s)
  BY <1>1, <1>2 DEF Alive, TypeOK
<1>4. CASE cancelled[t]
  <2>1. messages' = messages /\ compaction' = compaction
    BY <1>4 DEF EndTurn, WasCancelled
  <2>2. Continues(messages, messages')
    BY <2>1, MessagesContinue
  <2>3. \A s \in Turns : Alive(s)' /\ ~cancelled'[s] =>
           Alive(s) /\ ~cancelled[s] /\ local'[s].ix = local[s].ix
    BY <1>1, <1>2, <1>3
  <2> QED
    BY <2>1, <2>2, <2>3, CompactionFrame
<1>5. CASE ~cancelled[t]
  <2>1. messages' = ms /\ compaction' = TriggeredCompaction(ms)
    BY <1>5 DEF EndTurn, WasCancelled
  <2>2. \A s \in Turns : ~(Alive(s)' /\ ~cancelled'[s])
    BY <1>1, <1>3, <1>5 DEF ControlInv, SingleLiveTurn, Alive
  <2>3. TurnsAfterCompaction'
    BY <2>2 DEF TurnsAfterCompaction
  <2>4. messages \in Seq(Message) /\ flushed \in Seq(Message) /\ ms \in Seq(Message)
    BY <2>1, FlushedType DEF TypeOK
  <2>5. Continues(messages, flushed)
    BY MessagesContinue
  <2>6. CASE compaction # None
    <3> DEFINE b == compaction.boundary
    <3>1. /\ b \in Nat /\ b <= Len(messages) /\ SubSeq(messages, 1, b) = compaction.prefix
          /\ b < Len(messages) /\ messages[b + 1].kind = "user"
      BY <2>6 DEF TypeOK, Compaction, CompactionInv, CompactionPrefixStable, BoundaryIsPrompt
    <3>2. local[t].ix > b /\ local[t].ix \in Nat
      BY <1>1, <1>5, <2>6 DEF Alive, CompactionInv, TurnsAfterCompaction, TypeOK, Locals
    <3>3. compaction' = compaction
      BY <2>1, <2>6 DEF TriggeredCompaction
    <3>4. /\ SubSeq(flushed, 1, b) = compaction.prefix /\ b <= Len(flushed)
          /\ b < Len(flushed) /\ flushed[b + 1].kind = "user"
      <4> HIDE DEF flushed
      <4>1. SubSeq(flushed, 1, b) = SubSeq(messages, 1, b)
        BY <2>4, <2>5, <3>1, PrefixKept
      <4> HIDE DEF b, ms
      <4>2. b + 1 \in 1..Len(messages) /\ Len(flushed) \in Nat /\ Len(messages) \in Nat
        BY <2>4, <3>1
      <4>3. flushed[b + 1] = messages[b + 1] /\ Len(messages) <= Len(flushed)
        BY <2>5, <4>2 DEF Continues
      <4> QED
        BY <3>1, <4>1, <4>2, <4>3
    <3> HIDE DEF flushed
    <3>5. CASE refused
      <4> DEFINE ix == local[t].ix
      <4>1. ms = SubSeq(flushed, 1, ix) /\ ix \in 0..Len(flushed) /\ b < ix
        BY <3>2, <3>5
      <4>2. /\ Len(SubSeq(flushed, 1, ix)) = ix
            /\ \A i \in 1..ix : SubSeq(flushed, 1, ix)[i] = flushed[i]
        <5> HIDE DEF ix, ms
        <5>1. \A i \in 1..ix : flushed[i] \in Message
          BY <2>4, <4>1
        <5> QED
          BY <4>1, <5>1, SubSeqProperties
      <4> HIDE DEF ms, ix
      <4>3. Continues(ms, flushed) /\ b <= Len(ms) /\ b < Len(ms) /\ ms[b + 1] = flushed[b + 1]
        <5> HIDE DEF b
        <5>1. b + 1 \in 1..ix /\ Len(ms) = ix /\ ix <= Len(flushed)
          BY <2>4, <3>1, <4>1, <4>2
        <5> QED
          BY <3>1, <4>1, <4>2, <5>1 DEF Continues
      <4>4. SubSeq(flushed, 1, b) = SubSeq(ms, 1, b)
        BY <2>4, <3>1, <4>3, PrefixKept
      <4> QED
        BY <2>1, <2>3, <3>3, <3>4, <4>3, <4>4 DEF CompactionInv, CompactionPrefixStable, BoundaryIsPrompt
    <3>6. CASE ~refused
      BY <2>1, <2>3, <3>3, <3>4, <3>6 DEF CompactionInv, CompactionPrefixStable, BoundaryIsPrompt
    <3> QED
      BY <3>5, <3>6
  <2>7. CASE compaction = None
    <3> HIDE DEF ms
    <3> DEFINE b == AutoCompactionBoundary(ms)
    <3> SUFFICES ASSUME compaction' # None PROVE CompactionPrefixStable' /\ BoundaryIsPrompt'
      BY <2>3 DEF CompactionInv, CompactionPrefixStable, BoundaryIsPrompt
    <3>1. b # None /\ compaction' = [boundary |-> b, prefix |-> SubSeq(ms, 1, b)]
      BY <2>1, <2>7 DEF TriggeredCompaction
    <3>2. b \in 0..Len(ms) /\ b < Len(ms) /\ ms[b + 1].kind = "user"
      BY <2>4, <3>1, BoundaryInHistory
    <3> HIDE DEF b
    <3> QED
      BY <2>1, <2>4, <3>1, <3>2 DEF CompactionPrefixStable, BoundaryIsPrompt
  <2> QED
    BY <2>6, <2>7
<1> QED
  BY <1>4, <1>5

\* Every step keeps the compaction valid
LEMMA CompactionStep ==
  TypeOK /\ TypeOK' /\ ControlInv /\ CompactionInv /\ [Next]_vars => CompactionInv'
<1> SUFFICES ASSUME TypeOK, TypeOK', ControlInv, CompactionInv, [Next]_vars
             PROVE  CompactionInv'
  OBVIOUS
<1> USE DEF threadVars, turnVars, toolVars, Moved, UnchangedButMessages
<1>1. Continues(messages, messages) /\ Continues(messages, Flushed(messages))
  BY MessagesContinue
<1>2. CASE Send
  <2>1. User(hist.sent + 1) \in Message /\ hist.sent + 1 \in UserIds
    <3>1. hist.sent + 1 \in UserIds
      <4>1. hist.sent \in 0..MaxSends /\ hist.sent < MaxSends
        BY <1>2 DEF Send, TypeOK, History
      <4> QED
        BY <4>1, BoundsAssumption DEF UserIds
    <3> QED
      BY <3>1 DEF User, Message, UserMessage
  <2>2. CASE RunTurn(Append(messages, User(hist.sent + 1)), hist.sent + 1)
    BY <2>1, <2>2, CompactionRunTurn
  <2>3. CASE messages' = Append(messages, User(hist.sent + 1)) /\ UNCHANGED <<compaction, turnVars>>
    <3>1. Continues(messages, messages')
      BY <2>1, <2>3, AppendContinues DEF TypeOK
    <3> QED
      BY <2>3, <3>1, CompactionFrame DEF Alive
  <2> QED
    BY <1>2, <2>2, <2>3 DEF Send
<1>3. CASE Resume
  <2>1. Resumed \in Message /\ SummaryId \in UserIds
    BY BoundsAssumption DEF Resumed, Message, ResumeMessage, SummaryId, UserIds
  <2> QED
    BY <1>3, <2>1, CompactionRunTurn DEF Resume
<1>4. CASE Cancel
  <2>1. /\ messages' = messages \/ messages' = Flushed(messages)
        /\ UNCHANGED <<compaction, pc, local>>
    BY <1>4 DEF Cancel
  <2>2. \A s \in Turns : cancelled[s] => cancelled'[s]
    BY <1>4 DEF Cancel, CancelRunning
  <2>3. Continues(messages, messages')
    BY <1>1, <2>1
  <2> QED
    BY <2>1, <2>2, <2>3, CompactionFrame DEF Alive
<1>5. CASE (\E id \in 1..hist.sent : Truncate(id)) \/ \E ok \in BOOLEAN : CompactionDone(ok)
  <2>1. compaction' = None
    BY <1>5 DEF Truncate, DropCompaction, CompactionDone
  <2> QED
    BY <2>1 DEF CompactionInv, CompactionPrefixStable, TurnsAfterCompaction, BoundaryIsPrompt
<1>6. CASE SetModel \/ SetTitle \/ RegenerateTitle \/ UNCHANGED vars
           \/ (\E b \in BOOLEAN : SetHasQueuedMessage(b) \/ TitleGenerated(b))
           \/ (\E u \in Tools, ok \in BOOLEAN : ToolFinished(u, ok))
  <2>1. UNCHANGED <<messages, compaction, pc, cancelled, local>>
    BY <1>6 DEF SetModel, SetTitle, RegenerateTitle, SetHasQueuedMessage, TitleGenerated,
                ToolFinished, vars
  <2> QED
    BY <2>1 DEF CompactionInv, CompactionPrefixStable, TurnsAfterCompaction, BoundaryIsPrompt, Alive
<1>7. ASSUME NEW t \in Turns, EventStep(t) \/ StreamEnded(t) PROVE CompactionInv'
  <2>1. /\ pc[t] \in {"opened", "stream"} /\ UNCHANGED <<compaction, cancelled>>
        /\ \E w \in {"stream", "round", "end"} : pc' = [pc EXCEPT ![t] = w]
    BY <1>7 DEF EventStep, StartMessageEvent, TextEvent, ReasoningDetailsEvent, UsageUpdateEvent,
                ToolUseEvent, TurnFailedEvent, StreamError, StreamEnded, Streaming, LeaveStream
  <2>2. messages' = messages \/ messages' = Flushed(messages)
    BY <1>7 DEF EventStep, StartMessageEvent, TextEvent, ReasoningDetailsEvent, UsageUpdateEvent,
                ToolUseEvent, TurnFailedEvent, StreamError, StreamEnded, LeaveStream
  <2>3. KeepsIx(t)
    BY <1>7, StreamKeepsIx
  <2>4. Continues(messages, messages') /\ Alive(t)
    BY <1>1, <2>1, <2>2 DEF Alive
  <2> QED
    BY <2>1, <2>3, <2>4, CompactionMove
<1>8. ASSUME NEW t \in Turns, TaskStep(t) PROVE CompactionInv'
  <2>1. CASE EndTurn(t)
    BY <2>1, CompactionEndTurn
  <2>2. CASE CancelFlush(t) \/ (\E u \in Tools : ToolResultEarly(t, u) /\ UNCHANGED <<threadVars, turnVars>>)
    <3>1. /\ messages' = messages \/ messages' = Flushed(messages)
          /\ UNCHANGED <<compaction, pc, cancelled, local>>
      BY <2>2 DEF CancelFlush
    <3>2. Continues(messages, messages')
      BY <1>1, <3>1
    <3> QED
      BY <3>1, <3>2, CompactionFrame DEF Alive
  <2>3. CASE StartTurn(t) \/ StreamOpened(t) \/ (\E e \in ErrorKinds : StreamFailed(t, e))
             \/ CancellationSeen(t) \/ (\E u \in Tools : ToolResultEarly(t, u) /\ LeaveStream(t, FALSE, "none"))
             \/ AfterStream(t) \/ ToolsPolled(t) \/ WrapRound(t) \/ RetryTimer(t) \/ RetryCancelled(t)
    <3>1. /\ Alive(t) /\ UNCHANGED <<compaction, cancelled>>
          /\ \E w \in AwakePCs : pc' = [pc EXCEPT ![t] = w]
      BY <2>3 DEF StartTurn, StreamOpened, StreamFailed, CancellationSeen, ToolResultEarly, AfterStream,
                  ToolsPolled, WrapRound, RetryTimer, RetryCancelled, Streaming, LeaveStream,
                  AskModel, AwakePCs, PCs, Alive
    <3>2. KeepsIx(t)
      <4>1. CASE LeaveStream(t, FALSE, "none")
        BY <4>1, LeaveKeepsIx
      <4> QED
        BY <2>3, <4>1, TaskKeepsIx
    <3>3. Continues(messages, messages')
      <4>1. CASE RetryTimer(t)
        <5>1. Resumed \in Message
          BY DEF Resumed, Message, ResumeMessage
        <5>2. messages' = messages \/ messages' = Append(messages, Resumed)
          BY <4>1 DEF RetryTimer
        <5> QED
          BY <1>1, <5>1, <5>2, AppendContinues DEF TypeOK
      <4>2. CASE ~RetryTimer(t)
        <5>1. messages' = messages \/ messages' = Flushed(messages)
          BY <2>3, <4>2 DEF StartTurn, StreamOpened, StreamFailed, CancellationSeen, ToolResultEarly,
                       AfterStream, ToolsPolled, WrapRound, RetryCancelled, LeaveStream
        <5> QED
          BY <1>1, <5>1
      <4> QED
        BY <4>1, <4>2
    <3> QED
      BY <3>1, <3>2, <3>3, CompactionMove
  <2>4. ASSUME NEW u \in Tools, ToolResultEarly(t, u)
        PROVE  LeaveStream(t, FALSE, "none") \/ UNCHANGED <<threadVars, turnVars>>
    BY <2>4 DEF ToolResultEarly
  <2> QED
    BY <1>8, <2>1, <2>2, <2>3, <2>4 DEF TaskStep
<1> QED
  BY <1>2, <1>3, <1>4, <1>5, <1>6, <1>7, <1>8 DEF Next, UserStep

\* What a compaction will replace when it ends (apply_compaction_summary) is
\* what it was asked to summarize
THEOREM CompactionSafe == Spec => []CompactionPrefixStable
<1>1. Init => CompactionInv
  BY DEF Init, CompactionInv, CompactionPrefixStable, TurnsAfterCompaction, BoundaryIsPrompt
<1>2. CompactionInv => CompactionPrefixStable
  BY DEF CompactionInv
<1>3. TypeOK /\ ControlInv /\ CompactionInv /\ [Next]_vars => CompactionInv'
  BY TypeStep, CompactionStep
<1> QED
  BY <1>1, <1>2, <1>3, TypeCorrect, ControlSafe, PTL DEF Spec

-----------------------------------------------------------------------------
(***************************************************************************)
(* The history of a patient owner.  PatientHistory is not inductive alone. *)
(* As long as nobody was impatient, only the last turn has a task that is  *)
(* alive or waited for; the pending message is that turn's, and its prompt *)
(* is the last user message; and a tool use whose result is still to come  *)
(* is in the pending message, or in a message of the turn that was stored  *)
(* with the use cancelled when a StartMessage came.  For the last part a   *)
(* pending message must have no results while the stream is open, and a    *)
(* new turn must not find tools of its own: owners are turns that were     *)
(* started.                                                                *)
(***************************************************************************)
\* A tool use whose result will be written into the pending message
Busy(u) == tool[u].task \in {"running", "ok", "err", "early"} \/ u \in missing

OwnersStarted == \A u \in Tools : tool[u].owner # None => tool[u].owner <= hist.turns
OnlyLastTurn == \A t \in Turns : Alive(t) \/ t \in waiters => t = hist.turns
PendingIsOwn ==
  pending # None =>
    /\ pending.by = {hist.turns} /\ pending.canceled = {}
    /\ \A u \in pending.results \ pending.uses : CutOff(messages, Len(messages), u)

\* Where a turn may have tools to wait for
ToolPCs == {"stream", "round", "tools"}
ToolsPending(t) ==
  \A u \in Tools : tool[u].owner = t /\ Busy(u) =>
    /\ pc[t] \in ToolPCs
    /\ (pending # None /\ u \in pending.uses) \/ CutOff(messages, Len(messages), u)
NoResultsYet(t) == pc[t] \notin {"tools", "wrap"} /\ pending # None => pending.results = {}
AllToolsPending == \A t \in Turns : Alive(t) => ToolsPending(t) /\ NoResultsYet(t)

TurnPrompted(t) ==
  local[t].prompt # SummaryId => Prompted(messages, Len(messages), local[t].prompt)
LastPrompted == \A t \in Turns : Alive(t) \/ t \in waiters => TurnPrompted(t)

\* The prompts of the turns that were started
Prompts == [t \in 1..hist.turns |-> local[t].prompt]

\* What PatientHistory says of a message m behind the first i messages of ms
Answers(ms, i, m, p) ==
  m.kind = "agent" =>
    /\ m.uses \subseteq m.results \cup m.canceled
    /\ \A u \in (m.results \cup m.canceled) \ m.uses : CutOff(ms, i, u)
    /\ \E t \in DOMAIN p : m.by = {t} /\ (p[t] # SummaryId => Prompted(ms, i, p[t]))
AllComplete(ms, p) == \A i \in 1..Len(ms) : Answers(ms, i - 1, ms[i], p)

PatientInv ==
  /\ OwnersStarted
  /\ ~hist.impatient => /\ OnlyLastTurn /\ PendingIsOwn /\ AllToolsPending /\ LastPrompted
                        /\ AllComplete(messages, Prompts)

\* What was said of the end of ms can be said of the end of more
Carries(ms, more) ==
  /\ \A u : CutOff(ms, Len(ms), u) => CutOff(more, Len(more), u)
  /\ \A id : Prompted(ms, Len(ms), id) => Prompted(more, Len(more), id)

\* What is said of a position depends on the messages up to it only
LEMMA SamePrefix ==
  ASSUME NEW ms \in Seq(Message), NEW more \in Seq(Message), Continues(ms, more),
         NEW i \in 0..Len(ms)
  PROVE  /\ \A u : CutOff(ms, i, u) <=> CutOff(more, i, u)
         /\ \A id : Prompted(ms, i, id) <=> Prompted(more, i, id)
<1>1. \A k \in 1..i : more[k] = ms[k]
  BY DEF Continues
<1>2. \A j \in 1..i : Unprompted(ms, j, i) <=> Unprompted(more, j, i)
  BY <1>1 DEF Unprompted
<1> QED
  BY <1>1, <1>2 DEF CutOff, Prompted

\* So a message stays complete in a history that has the same beginning
LEMMA SameAnswers ==
  ASSUME NEW ms \in Seq(Message), NEW more \in Seq(Message), Continues(ms, more),
         NEW i \in 0..Len(ms), NEW m, NEW p
  PROVE  Answers(ms, i, m, p) <=> Answers(more, i, m, p)
BY SamePrefix DEF Answers

\* Later turns do not matter
LEMMA PromptsGrow ==
  ASSUME NEW ms, NEW p, NEW q, AllComplete(ms, p), DOMAIN p \subseteq DOMAIN q,
         \A t \in DOMAIN p : q[t] = p[t]
  PROVE  AllComplete(ms, q)
BY DEF AllComplete, Answers

\* Appending to a history of complete messages
LEMMA AppendComplete ==
  ASSUME NEW ms \in Seq(Message), NEW p, AllComplete(ms, p), NEW m \in Message,
         Answers(ms, Len(ms), m, p)
  PROVE  AllComplete(Append(ms, m), p)
<1> DEFINE more == Append(ms, m)
<1>1. /\ more \in Seq(Message) /\ Len(more) = Len(ms) + 1 /\ more[Len(ms) + 1] = m
      /\ \A i \in 1..Len(ms) : more[i] = ms[i]
  BY AppendProperties
<1>2. Continues(ms, more)
  BY AppendContinues
<1> HIDE DEF more
<1> SUFFICES ASSUME NEW i \in 1..Len(more) PROVE Answers(more, i - 1, more[i], p)
  BY DEF AllComplete, more
<1>3. i \in 1..Len(ms) \/ i = Len(ms) + 1
  BY <1>1
<1>4. i - 1 \in 0..Len(ms)
  BY <1>3
<1>5. Answers(ms, i - 1, more[i], p)
  <2>1. CASE i \in 1..Len(ms)
    <3>1. more[i] = ms[i] /\ Answers(ms, i - 1, ms[i], p)
      BY <1>1, <2>1 DEF AllComplete
    <3> QED
      BY <3>1
  <2>2. CASE i = Len(ms) + 1
    <3>1. more[i] = m /\ i - 1 = Len(ms)
      BY <1>1, <2>2
    <3> QED
      BY <3>1
  <2> QED
    BY <1>3, <2>1, <2>2
<1> QED
  BY <1>1, <1>2, <1>4, <1>5, SameAnswers

\* The beginning of a history of complete messages (truncate, refusal)
LEMMA PartComplete ==
  ASSUME NEW ms \in Seq(Message), NEW p, AllComplete(ms, p), NEW b \in 0..Len(ms)
  PROVE  AllComplete(SubSeq(ms, 1, b), p)
<1> DEFINE part == SubSeq(ms, 1, b)
<1>1. \A i \in 1..b : ms[i] \in Message
  OBVIOUS
<1>2. part \in Seq(Message) /\ Len(part) = b /\ \A i \in 1..b : part[i] = ms[i]
  BY <1>1, SubSeqProperties
<1> HIDE DEF part
<1>3. Continues(part, ms)
  BY <1>2 DEF Continues
<1> SUFFICES ASSUME NEW i \in 1..Len(part) PROVE Answers(part, i - 1, part[i], p)
  BY DEF AllComplete, part
<1>4. i - 1 \in 0..Len(part) /\ part[i] = ms[i] /\ i \in 1..Len(ms)
  BY <1>2
<1>5. Answers(ms, i - 1, part[i], p)
  BY <1>4 DEF AllComplete
<1> QED
  BY <1>2, <1>3, <1>4, <1>5, SameAnswers

\* Messages that are not the agent's have nothing to answer
LEMMA UserAnswers == \A ms, i, id, p : Answers(ms, i, User(id), p) /\ Answers(ms, i, Resumed, p)
BY DEF Answers, User, Resumed

\* A message that is not the user's leaves the turn as it was
LEMMA AppendCarries ==
  ASSUME NEW ms \in Seq(Message), NEW m \in Message, m.kind # "user"
  PROVE  Carries(ms, Append(ms, m))
<1> DEFINE more == Append(ms, m)
<1>1. /\ Len(more) = Len(ms) + 1 /\ more[Len(ms) + 1] = m /\ Len(ms) \in Nat
      /\ \A i \in 1..Len(ms) : more[i] = ms[i]
  BY AppendProperties
<1> HIDE DEF more
<1>2. ASSUME NEW j \in 1..Len(ms), Unprompted(ms, j, Len(ms))
      PROVE  j \in 1..Len(more) /\ more[j] = ms[j] /\ Unprompted(more, j, Len(more))
  <2>1. \A k \in (j + 1)..Len(more) : k = Len(ms) + 1 \/ (k \in 1..Len(ms) /\ k \in (j + 1)..Len(ms))
    BY <1>1
  <2>2. \A k \in (j + 1)..Len(more) : more[k].kind # "user"
    BY <1>1, <1>2, <2>1 DEF Unprompted
  <2> QED
    BY <1>1, <2>2 DEF Unprompted
<1> QED
  BY <1>2 DEF Carries, CutOff, Prompted, more

\* Flushing is such a step
LEMMA FlushCarries ==
  ASSUME TypeOK
  PROVE  Carries(messages, messages) /\ Carries(messages, Flushed(messages))
<1>1. Carries(messages, messages)
  BY DEF Carries
<1>2. CASE pending # None /\ HasContent(pending)
  <2>1. pending \in AgentMessage
    BY <1>2 DEF TypeOK
  <2>2. Answered(pending) \in AgentMessage
    BY <2>1 DEF Answered, AgentMessage
  <2>3. Answered(pending) \in Message /\ Answered(pending).kind # "user"
    BY <2>2 DEF Message, AgentMessage
  <2>4. Flushed(messages) = Append(messages, Answered(pending)) /\ messages \in Seq(Message)
    BY <1>2 DEF Flushed, TypeOK
  <2> QED
    BY <1>1, <2>3, <2>4, AppendCarries
<1>3. CASE ~(pending # None /\ HasContent(pending))
  BY <1>1, <1>3 DEF Flushed
<1> QED
  BY <1>2, <1>3

\* Flushing answers every tool use of the pending message
LEMMA FlushComplete ==
  ASSUME TypeOK, PendingIsOwn, AllComplete(messages, Prompts), NEW t \in Turns, t = hist.turns,
         TurnPrompted(t)
  PROVE  AllComplete(Flushed(messages), Prompts)
<1>1. CASE pending # None /\ HasContent(pending)
  <2> DEFINE m == Answered(pending)
             n == Len(messages)
  <2>1. pending \in AgentMessage
    BY <1>1 DEF TypeOK
  <2>2. /\ m \in AgentMessage
        /\ m.by = {t} /\ m.results = pending.results /\ m.uses = pending.uses
        /\ m.canceled = pending.uses \ pending.results
    BY <1>1, <2>1 DEF Answered, AgentMessage, PendingIsOwn
  <2>3. t \in DOMAIN Prompts /\ Prompts[t] = local[t].prompt
    BY DEF Prompts, Turns
  <2>4. \A u \in pending.results \ pending.uses : CutOff(messages, n, u)
    BY <1>1 DEF PendingIsOwn
  <2>5. Prompts[t] # SummaryId => Prompted(messages, n, Prompts[t])
    BY <2>3 DEF TurnPrompted
  <2>6. Flushed(messages) = Append(messages, m) /\ messages \in Seq(Message)
    BY <1>1 DEF Flushed, TypeOK
  <2> HIDE DEF m, n
  <2>7. m \in Message /\ Answers(messages, n, m, Prompts)
    BY <2>2, <2>3, <2>4, <2>5 DEF Answers, Message
  <2> QED
    BY <2>6, <2>7, AppendComplete DEF n
<1>2. CASE ~(pending # None /\ HasContent(pending))
  BY <1>2 DEF Flushed
<1> QED
  BY <1>1, <1>2

\* The prompts of the turns that were started stay
LEMMA PromptsKept ==
  ASSUME TypeOK, hist'.turns = hist.turns, \A s \in Turns : local'[s].prompt = local[s].prompt
  PROVE  Prompts' = Prompts
<1>1. 1..hist.turns \subseteq Turns
  BY BoundsAssumption DEF TypeOK, History, Turns
<1> QED
  BY <1>1 DEF Prompts

\* Every step that starts no turn keeps them
LEMMA PromptsStep ==
  ASSUME TypeOK, [Next]_vars, hist'.turns = hist.turns
  PROVE  Prompts' = Prompts
<1> USE DEF threadVars, turnVars, toolVars
<1>1. CASE UNCHANGED local
  BY <1>1, PromptsKept
<1>2. ASSUME NEW t \in Turns, KeepsIx(t) PROVE Prompts' = Prompts
  <2>1. \A s \in Turns : local'[s].prompt = local[s].prompt
    BY <1>2 DEF KeepsIx
  <2> QED
    BY <2>1, PromptsKept
<1>3. ASSUME NEW t \in Turns, EndTurn(t) PROVE Prompts' = Prompts
  <2> DEFINE l == [NoLocals EXCEPT !.prompt = local[t].prompt]
  <2>1. local' = [local EXCEPT ![t] = l]
    BY <1>3 DEF EndTurn
  <2>2. l.prompt = local[t].prompt
    BY DEF NoLocals
  <2> HIDE DEF l
  <2>3. \A s \in Turns : local'[s].prompt = local[s].prompt
    BY <2>1, <2>2 DEF TypeOK
  <2> QED
    BY <2>3, PromptsKept
<1>4. ASSUME NEW ms, NEW id, RunTurn(ms, id) PROVE FALSE
  <2>1. hist.turns \in Nat
    BY BoundsAssumption DEF TypeOK, History
  <2>2. hist'.turns = hist.turns + 1
    BY <1>4 DEF RunTurn, TypeOK, History
  <2> QED
    BY <2>1, <2>2
<1>5. CASE UserStep \/ UNCHANGED vars
           \/ (\E u \in Tools, ok \in BOOLEAN : ToolFinished(u, ok))
           \/ (\E ok \in BOOLEAN : TitleGenerated(ok) \/ CompactionDone(ok))
  <2>1. UNCHANGED local
    BY <1>4, <1>5 DEF UserStep, Send, Resume, Cancel, SetModel, SetTitle, RegenerateTitle, Truncate,
                      SetHasQueuedMessage, ToolFinished, TitleGenerated, CompactionDone, vars
  <2> QED
    BY <1>1, <2>1
<1>6. ASSUME NEW t \in Turns, EventStep(t) \/ StreamEnded(t) PROVE Prompts' = Prompts
  BY <1>2, <1>6, StreamKeepsIx
<1>7. ASSUME NEW t \in Turns, TaskStep(t) PROVE Prompts' = Prompts
  <2>1. ASSUME NEW u \in Tools, ToolResultEarly(t, u) PROVE Prompts' = Prompts
    <3>1. CASE LeaveStream(t, FALSE, "none")
      BY <1>2, <3>1, LeaveKeepsIx
    <3> QED
      BY <1>1, <2>1, <3>1 DEF ToolResultEarly
  <2>2. CASE CancelFlush(t)
    BY <1>1, <2>2 DEF CancelFlush
  <2> QED
    BY <1>2, <1>3, <1>7, <2>1, <2>2, TaskKeepsIx DEF TaskStep
<1> QED
  BY <1>5, <1>6, <1>7 DEF Next

\* In particular that of the last turn
LEMMA LastPromptKept ==
  ASSUME Prompts' = Prompts, hist'.turns = hist.turns, NEW t \in Turns, t = hist.turns
  PROVE  local'[t].prompt = local[t].prompt
<1>1. t \in 1..hist.turns /\ t \in 1..hist'.turns
  BY DEF Turns
<1>2. Prompts[t] = local[t].prompt /\ Prompts'[t] = local'[t].prompt
  BY <1>1 DEF Prompts
<1> QED
  BY <1>2

\* A task cancel left behind waits for a turn that was cancelled
WaitersCancelled == \A t \in Turns : t \in waiters => cancelled[t]

LEMMA WaitersStep == TypeOK /\ WaitersCancelled /\ [Next]_vars => WaitersCancelled'
<1> SUFFICES ASSUME TypeOK, WaitersCancelled, [Next]_vars PROVE WaitersCancelled'
  OBVIOUS
<1> USE DEF threadVars, turnVars, toolVars
<1>1. CASE UNCHANGED cancelled /\ waiters' \subseteq waiters
  BY <1>1 DEF WaitersCancelled
<1>2. CASE CancelRunning
  BY <1>2 DEF CancelRunning, SpawnCancelTask, WaitersCancelled
<1>3. CASE UserStep \/ UNCHANGED vars
           \/ (\E u \in Tools, ok \in BOOLEAN : ToolFinished(u, ok))
           \/ (\E ok \in BOOLEAN : TitleGenerated(ok) \/ CompactionDone(ok))
  BY <1>1, <1>2, <1>3 DEF UserStep, Send, Resume, RunTurn, Cancel, SetModel, SetTitle, RegenerateTitle,
                          Truncate, SetHasQueuedMessage, ToolFinished, TitleGenerated, CompactionDone, vars
<1>4. ASSUME NEW t \in Turns, EventStep(t) \/ StreamEnded(t) PROVE WaitersCancelled'
  BY <1>1, <1>4 DEF EventStep, StartMessageEvent, TextEvent, ReasoningDetailsEvent, UsageUpdateEvent,
                    ToolUseEvent, TurnFailedEvent, StreamError, StreamEnded, LeaveStream
<1>5. ASSUME NEW t \in Turns, TaskStep(t) PROVE WaitersCancelled'
  BY <1>1, <1>5 DEF TaskStep, StartTurn, StreamOpened, StreamFailed, ToolResultEarly, CancellationSeen,
                    AfterStream, ToolsPolled, WrapRound, RetryTimer, RetryCancelled, EndTurn, CancelFlush,
                    LeaveStream
<1> QED
  BY <1>3, <1>4, <1>5 DEF Next

\* A message of the last turn that answers only tool uses of its own, or that the
\* turn has stored as cancelled
OwnMessage(m) ==
  /\ m \in AgentMessage /\ m.by = {hist.turns} /\ m.canceled = {}
  /\ \A u \in m.results \ m.uses : CutOff(messages, Len(messages), u)

\* The message the last turn writes into stays its own
LEMMA PendingMessageOwn ==
  ASSUME TypeOK, PendingIsOwn, NEW t \in Turns, t = hist.turns
  PROVE  LET m == PendingMessage(t)
         IN  /\ OwnMessage(m)
             /\ pending # None => m.uses = pending.uses /\ m.results = pending.results
             /\ pending = None => m.results = {}
<1> DEFINE o == IF pending = None THEN EmptyMessage ELSE pending
           m == PendingMessage(t)
<1>1. EmptyMessage \in AgentMessage
  BY DEF EmptyMessage, AgentMessage
<1>2. o \in AgentMessage
  BY <1>1 DEF TypeOK
<1>3. /\ o.by \cup {t} = {t} /\ o.canceled = {}
      /\ \A u \in o.results \ o.uses : CutOff(messages, Len(messages), u)
  <2>1. CASE pending = None
    BY <2>1 DEF EmptyMessage
  <2>2. CASE pending # None
    BY <2>2 DEF PendingIsOwn
  <2> QED
    BY <2>1, <2>2
<1>4. m = [o EXCEPT !.by = o.by \cup {t}]
  BY DEF PendingMessage
<1>5. pending # None => o = pending
  OBVIOUS
<1>6. pending = None => o.results = {}
  BY DEF EmptyMessage
<1> HIDE DEF o, m
<1>7. m \in AgentMessage /\ m.by = {t} /\ m.canceled = o.canceled /\ m.uses = o.uses /\ m.results = o.results
  BY <1>2, <1>3, <1>4 DEF AgentMessage
<1> QED
  BY <1>3, <1>5, <1>6, <1>7 DEF m, OwnMessage

\* What a step of the turn t does to the tools and to the pending message is
\* all that matters: no other turn is alive
LEMMA PatientMove ==
  ASSUME TypeOK, ControlInv, PatientInv, NEW t \in Turns, Alive(t), NEW w,
         pc' = [pc EXCEPT ![t] = w], w # "idle", UNCHANGED <<waiters, hist>>, Prompts' = Prompts,
         \A u \in Tools : tool'[u].owner \in {tool[u].owner, t},
         ~hist.impatient /\ t = hist.turns =>
           /\ PendingIsOwn' /\ AllComplete(messages', Prompts)
           /\ w # "done" => ToolsPending(t)' /\ NoResultsYet(t)'
           /\ Carries(messages, messages') \/ (w = "done" /\ t \notin waiters)
  PROVE  PatientInv'
<1>1. t <= hist.turns
  BY DEF ControlInv, StartedTurns, Alive, Turns, TypeOK, History
<1>2. OwnersStarted'
  BY <1>1 DEF PatientInv, OwnersStarted
<1>3. \A s \in Turns : pc'[s] = IF s = t THEN w ELSE pc[s]
  BY DEF TypeOK
<1> SUFFICES ASSUME ~hist.impatient
             PROVE  /\ OnlyLastTurn' /\ PendingIsOwn' /\ AllToolsPending' /\ LastPrompted'
                    /\ AllComplete(messages', Prompts')
  BY <1>2 DEF PatientInv
<1>4. OnlyLastTurn /\ t = hist.turns /\ TurnPrompted(t)
  BY DEF PatientInv, OnlyLastTurn, LastPrompted
<1>5. OnlyLastTurn'
  BY <1>3, <1>4 DEF OnlyLastTurn, Alive
<1>6. AllToolsPending'
  <2> SUFFICES ASSUME NEW s \in Turns, Alive(s)' PROVE ToolsPending(s)' /\ NoResultsYet(s)'
    BY DEF AllToolsPending
  <2>1. s = t
    BY <1>4, <1>5 DEF OnlyLastTurn
  <2>2. w # "done"
    BY <1>3, <2>1 DEF Alive
  <2> QED
    BY <1>4, <2>1, <2>2
<1>7. LastPrompted'
  <2> SUFFICES ASSUME NEW s \in Turns, Alive(s)' \/ s \in waiters' PROVE TurnPrompted(s)'
    BY DEF LastPrompted
  <2>1. s = t
    BY <1>4, <1>5 DEF OnlyLastTurn
  <2>2. Carries(messages, messages')
    BY <1>3, <1>4, <2>1 DEF Alive
  <2>3. local'[t].prompt = local[t].prompt
    BY <1>4, LastPromptKept
  <2> QED
    BY <1>4, <2>1, <2>2, <2>3 DEF TurnPrompted, Carries
<1> QED
  BY <1>4, <1>5, <1>6, <1>7

\* What the invariant says of the last turn
LEMMA PatientTurn ==
  ASSUME PatientInv, NEW t \in Turns, Alive(t), ~hist.impatient
  PROVE  /\ PendingIsOwn /\ AllComplete(messages, Prompts) /\ ToolsPending(t) /\ NoResultsYet(t)
         /\ TurnPrompted(t) /\ t = hist.turns
BY DEF PatientInv, AllToolsPending, LastPrompted, OnlyLastTurn

\* A turn that goes on without touching tasks of tools or the pending message
LEMMA PatientGoesOn ==
  ASSUME TypeOK, ControlInv, PatientInv, NEW t \in Turns, Alive(t), NEW w \in AwakePCs,
         pc' = [pc EXCEPT ![t] = w], pc[t] \in ToolPCs => w \in ToolPCs, pc[t] \notin {"tools", "wrap"},
         UNCHANGED <<waiters, hist, pending, missing>>, Prompts' = Prompts,
         messages' = messages \/ messages' = Append(messages, Resumed),
         \A u \in Tools : tool'[u].owner = tool[u].owner /\ tool'[u].task = tool[u].task
  PROVE  PatientInv'
<1>1. messages \in Seq(Message) /\ Resumed \in Message /\ Resumed.kind # "user"
  BY DEF TypeOK, Resumed, Message, ResumeMessage
<1>2. Carries(messages, messages')
  BY <1>1, AppendCarries, FlushCarries
<1>3. ASSUME ~hist.impatient
      PROVE  /\ PendingIsOwn' /\ AllComplete(messages', Prompts)
             /\ ToolsPending(t)' /\ NoResultsYet(t)'
  <2>1. PendingIsOwn /\ AllComplete(messages, Prompts) /\ ToolsPending(t) /\ NoResultsYet(t)
    BY <1>3, PatientTurn
  <2>2. PendingIsOwn'
    BY <1>2, <2>1 DEF PendingIsOwn, Carries
  <2>3. AllComplete(messages', Prompts)
    BY <1>1, <2>1, AppendComplete, UserAnswers
  <2>4. pc'[t] = w
    BY DEF TypeOK
  <2>5. \A u \in Tools : Busy(u)' <=> Busy(u)
    BY DEF Busy
  <2>6. ToolsPending(t)'
    BY <1>2, <2>1, <2>4, <2>5 DEF ToolsPending, Carries
  <2>7. NoResultsYet(t)'
    BY <2>1 DEF NoResultsYet
  <2> QED
    BY <2>2, <2>3, <2>6, <2>7
<1>4. w # "idle"
  BY DEF AwakePCs
<1>5. \A u \in Tools : tool'[u].owner \in {tool[u].owner, t}
  OBVIOUS
<1> QED
  BY <1>2, <1>3, <1>4, <1>5, PatientMove

\* Leaving the stream does that
LEMMA PatientLeave ==
  ASSUME TypeOK, ControlInv, PatientInv, Prompts' = Prompts, NEW t \in Turns,
         pc[t] \in {"request", "opened", "stream"}, NEW b, NEW e, LeaveStream(t, b, e)
  PROVE  PatientInv'
<1>1. \A u \in Tools : tool'[u].owner = tool[u].owner /\ tool'[u].task = tool[u].task
  BY DEF LeaveStream, TypeOK, ToolStates
<1>2. pc' = [pc EXCEPT ![t] = "round"] /\ UNCHANGED <<waiters, hist, pending, missing, messages>>
  BY DEF LeaveStream, Moved, threadVars
<1>3. "round" \in AwakePCs /\ "round" \in ToolPCs /\ Alive(t)
  BY DEF AwakePCs, PCs, ToolPCs, Alive
<1> QED
  BY <1>1, <1>2, <1>3, PatientGoesOn

\* Steps that move no task of a turn and keep the tools' results where they go
LEMMA PatientIdle ==
  ASSUME TypeOK, PatientInv, UNCHANGED <<pc, missing, pending>>, Prompts' = Prompts,
         \A u \in Tools : tool'[u].owner = tool[u].owner /\ (Busy(u)' => Busy(u)),
         hist'.turns = hist.turns, ~hist'.impatient => ~hist.impatient,
         \A t \in Turns : t \in waiters' => t \in waiters \/ Alive(t),
         Carries(messages, messages'),
         AllComplete(messages, Prompts) => AllComplete(messages', Prompts)
  PROVE  PatientInv'
<1>1. OwnersStarted'
  BY DEF PatientInv, OwnersStarted
<1> SUFFICES ASSUME ~hist'.impatient
             PROVE  /\ OnlyLastTurn' /\ PendingIsOwn' /\ AllToolsPending' /\ LastPrompted'
                    /\ AllComplete(messages', Prompts')
  BY <1>1 DEF PatientInv
<1>2. /\ OnlyLastTurn /\ PendingIsOwn /\ AllToolsPending /\ LastPrompted
      /\ AllComplete(messages, Prompts) /\ ~hist.impatient
  BY DEF PatientInv
<1>3. OnlyLastTurn' /\ PendingIsOwn'
  BY <1>2 DEF OnlyLastTurn, PendingIsOwn, Alive, Carries
<1>4. AllToolsPending'
  BY <1>2 DEF AllToolsPending, ToolsPending, NoResultsYet, Alive, Carries
<1>5. LastPrompted'
  <2> SUFFICES ASSUME NEW s \in Turns, Alive(s)' \/ s \in waiters' PROVE TurnPrompted(s)'
    BY DEF LastPrompted
  <2>1. s = hist.turns /\ TurnPrompted(s)
    BY <1>2 DEF OnlyLastTurn, LastPrompted, Alive
  <2>2. local'[s].prompt = local[s].prompt
    BY <2>1, LastPromptKept
  <2> QED
    BY <2>1, <2>2 DEF TurnPrompted, Carries
<1> QED
  BY <1>2, <1>3, <1>4, <1>5

\* Steps after which nothing is under way
LEMMA PatientQuiet ==
  ASSUME OwnersStarted',
         ~hist'.impatient => ~Unsettled' /\ pending' = None /\ AllComplete(messages', Prompts')
  PROVE  PatientInv'
BY DEF PatientInv, Unsettled, OnlyLastTurn, PendingIsOwn, AllToolsPending, LastPrompted

\* Closing inputs does not touch owners and tasks
LEMMA CloseKeepsTasks ==
  ASSUME TypeOK, NEW S, tool' = CloseInputs(S)
  PROVE  \A u \in Tools : tool'[u].owner = tool[u].owner /\ tool'[u].task = tool[u].task
BY DEF CloseInputs, TypeOK, ToolStates

\* When everything has settled no turn is running and nothing is pending
LEMMA SettledMeansIdle ==
  ASSUME TypeOK, ControlInv, ~Unsettled
  PROVE  running = None /\ pending = None /\ waiters = {} /\ \A t \in Turns : ~Alive(t)
BY DEF TypeOK, Unsettled, ControlInv, SingleLiveTurn, PendingHasOwner

\* A patient owner starts a turn when the last one has settled
LEMMA PatientRunTurn ==
  ASSUME TypeOK, ControlInv, PatientInv, NEW m \in Message, m.kind # "agent", NEW id,
         id # SummaryId => m = User(id), RunTurn(Append(messages, m), id)
  PROVE  PatientInv'
<1>1. PICK t \in Turns : t = hist.turns + 1 /\ hist.turns \in Nat /\ hist'.turns = t
  BY BoundsAssumption DEF RunTurn, TypeOK, History, Turns
<1>2. \A u \in Tools : tool'[u].owner = tool[u].owner /\ tool'[u].task = tool[u].task
  BY CloseKeepsTasks DEF RunTurn, CancelRunning
<1>3. missing' = missing /\ pending' = None /\ messages' = Flushed(Append(messages, m))
  BY DEF RunTurn
<1>4. \A u \in Tools : tool[u].owner # None => tool[u].owner \in Nat /\ tool[u].owner <= hist.turns
  BY DEF PatientInv, OwnersStarted, TypeOK, ToolStates, Turns
<1>5. OwnersStarted'
  BY <1>1, <1>2, <1>4 DEF OwnersStarted
<1> SUFFICES ASSUME ~hist'.impatient
             PROVE  /\ OnlyLastTurn' /\ PendingIsOwn' /\ AllToolsPending' /\ LastPrompted'
                    /\ AllComplete(messages', Prompts')
  BY <1>5 DEF PatientInv
<1>6. ~hist.impatient /\ ~Unsettled
  BY DEF RunTurn, TypeOK, History
<1>7. running = None /\ pending = None /\ waiters = {} /\ \A s \in Turns : ~Alive(s)
  BY <1>6, SettledMeansIdle
<1>8. waiters' = {}
  BY <1>7 DEF RunTurn, CancelRunning, SpawnCancelTask
<1>9. pc' = [pc EXCEPT ![t] = "start"]
  BY <1>1 DEF RunTurn, Moved
<1>10. local'[t].prompt = id /\ \A s \in Turns : s # t => local'[s] = local[s]
  <2> DEFINE new == [NoLocals EXCEPT !.ix = MessageIx(Flushed(Append(messages, m))), !.prompt = id]
  <2>1. local' = [local EXCEPT ![t] = new]
    BY <1>1 DEF RunTurn
  <2>2. new.prompt = id
    BY DEF NoLocals
  <2> HIDE DEF new
  <2> QED
    BY <1>1, <2>1, <2>2 DEF TypeOK
<1>11. DOMAIN Prompts = 1..hist.turns /\ DOMAIN Prompts' = 1..t /\ 1..t \subseteq Turns
  <2>1. DOMAIN Prompts = 1..hist.turns /\ DOMAIN Prompts' = 1..hist'.turns
    BY DEF Prompts
  <2>2. 1..t \subseteq Turns
    BY <1>1, BoundsAssumption DEF Turns
  <2> QED
    BY <1>1, <2>1, <2>2
<1>12. DOMAIN Prompts \subseteq DOMAIN Prompts' /\ \A s \in DOMAIN Prompts : s # t
  BY <1>1, <1>11
<1>13. \A s \in DOMAIN Prompts : Prompts'[s] = Prompts[s]
  BY <1>1, <1>10, <1>11, <1>12 DEF Prompts
<1>14. messages' = Append(messages, m) /\ messages \in Seq(Message)
  BY <1>3, <1>7 DEF Flushed, TypeOK
<1>15. AllComplete(messages', Prompts')
  <2>1. AllComplete(messages, Prompts')
    BY <1>6, <1>12, <1>13, PromptsGrow DEF PatientInv
  <2>2. Answers(messages, Len(messages), m, Prompts')
    BY DEF Answers
  <2> QED
    BY <1>14, <2>1, <2>2, AppendComplete
<1>16. \A s \in Turns : Alive(s)' => s = t
  BY <1>7, <1>9 DEF Alive, TypeOK
<1>17. OnlyLastTurn'
  BY <1>1, <1>8, <1>16 DEF OnlyLastTurn
<1>18. PendingIsOwn'
  BY <1>3 DEF PendingIsOwn
<1>19. AllToolsPending'
  <2>1. \A u \in Tools : tool'[u].owner # t
    <3>1. t # None /\ ~(t <= hist.turns)
      BY <1>1, NoneAssumption DEF Turns
    <3> QED
      BY <1>2, <1>4, <3>1
  <2> QED
    BY <1>3, <1>16, <2>1 DEF AllToolsPending, ToolsPending, NoResultsYet
<1>20. TurnPrompted(t)'
  <2> SUFFICES ASSUME id # SummaryId PROVE Prompted(messages', Len(messages'), id)
    BY <1>10 DEF TurnPrompted
  <2> DEFINE n == Len(messages')
  <2>1. n \in 1..n /\ messages'[n] = User(id)
    BY <1>14, AppendProperties
  <2>2. \A k \in (n + 1)..n : FALSE
    BY <2>1
  <2> HIDE DEF n
  <2> QED
    BY <2>1, <2>2 DEF Prompted, Unprompted, n
<1>21. LastPrompted'
  BY <1>8, <1>16, <1>20 DEF LastPrompted
<1> QED
  BY <1>15, <1>17, <1>18, <1>19, <1>21

\* A patient owner cancels a running turn, once
LEMMA PatientCancel ==
  ASSUME TypeOK, ControlInv, PatientInv, Cancel, Prompts' = Prompts
  PROVE  PatientInv'
<1>1. hist'.turns = hist.turns /\ (~hist'.impatient => ~hist.impatient)
  BY DEF Cancel, TypeOK, History
<1>2. CASE running = None
  <2>1. UNCHANGED tool /\ pending' = None /\ messages' = Flushed(messages) /\ UNCHANGED <<pc, waiters>>
    BY <1>2 DEF Cancel, turnVars
  <2>2. OwnersStarted'
    BY <1>1, <2>1 DEF PatientInv, OwnersStarted
  <2>3. ASSUME ~hist'.impatient PROVE ~Unsettled' /\ AllComplete(messages', Prompts)
    <3>1. ~Unsettled
      BY <1>2, <2>3 DEF Cancel, TypeOK, History
    <3>2. pending = None /\ AllComplete(messages, Prompts)
      BY <1>1, <2>3, <3>1, SettledMeansIdle DEF PatientInv
    <3> QED
      BY <2>1, <3>1, <3>2 DEF Flushed, Unsettled, Alive
  <2> QED
    BY <2>1, <2>2, <2>3, PatientQuiet
<1>3. CASE running # None
  <2>1. CancelRunning /\ UNCHANGED <<messages, pending, pc, missing>>
    BY <1>3 DEF Cancel
  <2>2. \A u \in Tools : tool'[u].owner = tool[u].owner /\ (Busy(u)' => Busy(u))
    BY <2>1, CloseKeepsTasks DEF CancelRunning, Busy
  <2>3. \A t \in Turns : t \in waiters' => t \in waiters \/ Alive(t)
    BY <2>1 DEF CancelRunning, SpawnCancelTask, ControlInv, SingleLiveTurn
  <2> QED
    BY <1>1, <2>1, <2>2, <2>3, PatientIdle, FlushCarries
<1> QED
  BY <1>2, <1>3

\* A patient owner truncates when everything has settled
LEMMA PatientTruncate ==
  ASSUME TypeOK, ControlInv, PatientInv, Prompts' = Prompts, NEW id \in 1..hist.sent, Truncate(id)
  PROVE  PatientInv'
<1> DEFINE ms == IF running = None THEN Flushed(messages) ELSE messages
           at == {i \in 1..Len(ms) : ms[i] = User(id)}
           position == CHOOSE i \in at : TRUE
<1>1. hist'.turns = hist.turns /\ (~hist'.impatient => ~hist.impatient /\ ~Unsettled)
  BY DEF Truncate, TypeOK, History
<1>2. CancelRunning /\ pc' = pc /\ pending' = None
  BY DEF Truncate
<1>3. messages' = ms \/ (at # {} /\ messages' = SubSeq(ms, 1, position - 1))
  BY DEF Truncate
<1>4. OwnersStarted'
  BY <1>1, <1>2, CloseKeepsTasks DEF CancelRunning, PatientInv, OwnersStarted
<1>5. ASSUME ~hist'.impatient PROVE ~Unsettled' /\ AllComplete(messages', Prompts)
  <2>1. running = None /\ pending = None /\ waiters = {} /\ \A t \in Turns : ~Alive(t)
    BY <1>1, <1>5, SettledMeansIdle
  <2>2. waiters' = {}
    BY <1>2, <2>1 DEF CancelRunning, SpawnCancelTask
  <2>3. ms = messages
    BY <2>1 DEF Flushed
  <2>4. messages \in Seq(Message) /\ AllComplete(messages, Prompts)
    BY <1>1, <1>5 DEF TypeOK, PatientInv
  <2>5. CASE at # {} /\ messages' = SubSeq(ms, 1, position - 1)
    <3>1. position \in 1..Len(ms)
      BY <2>5
    <3> HIDE DEF position, ms
    <3>2. position - 1 \in 0..Len(ms)
      BY <2>3, <2>4, <3>1
    <3> QED
      BY <1>2, <2>1, <2>2, <2>3, <2>4, <2>5, <3>2, PartComplete DEF Unsettled, Alive
  <2> QED
    BY <1>2, <1>3, <2>1, <2>2, <2>3, <2>4, <2>5 DEF Unsettled, Alive
<1> QED
  BY <1>2, <1>4, <1>5, PatientQuiet

\* A history cut before a user message, with a new message in front: nothing that
\* was said of a later position rested on what was cut off
LEMMA CutBefore ==
  ASSUME NEW ms \in Seq(Message), NEW b \in Nat, b < Len(ms), ms[b + 1].kind = "user",
         NEW more, Len(more) = Len(ms) - b + 1, \A k \in 2..Len(more) : more[k] = ms[k + b - 1],
         NEW i \in (b + 1)..Len(ms)
  PROVE  /\ \A u : CutOff(ms, i, u) => CutOff(more, i - b + 1, u)
         /\ \A id : Prompted(ms, i, id) => Prompted(more, i - b + 1, id)
<1> DEFINE n == i - b + 1
<1>1. Len(ms) \in Nat /\ i \in Nat /\ n \in 2..Len(more)
  OBVIOUS
<1>2. ASSUME NEW j \in 1..i, Unprompted(ms, j, i)
      PROVE  /\ j - b + 1 \in 1..n /\ more[j - b + 1] = ms[j]
             /\ Unprompted(more, j - b + 1, n)
  <2>1. ~(b + 1 \in (j + 1)..i)
    BY <1>2 DEF Unprompted
  <2>2. j >= b + 1
    BY <1>1, <2>1
  <2>3. j - b + 1 \in 2..Len(more) /\ j - b + 1 \in 1..n /\ (j - b + 1) + b - 1 = j
    BY <1>1, <2>2
  <2>4. more[j - b + 1] = ms[j]
    BY <2>3
  <2>5. ASSUME NEW k \in (j - b + 2)..n PROVE more[k].kind # "user"
    <3>1. k \in 2..Len(more) /\ k + b - 1 \in (j + 1)..i
      BY <1>1, <2>2
    <3> QED
      BY <1>2, <3>1 DEF Unprompted
  <2>6. (j - b + 1) + 1 = j - b + 2
    BY <1>1, <2>2
  <2> QED
    BY <2>3, <2>4, <2>5, <2>6 DEF Unprompted
<1> HIDE DEF n
<1> QED
  BY <1>2 DEF CutOff, Prompted, n

\* The compaction replaces a part of the history by a user message
LEMMA PatientCompaction ==
  ASSUME TypeOK, CompactionInv, PatientInv, Prompts' = Prompts, NEW ok \in BOOLEAN, CompactionDone(ok)
  PROVE  PatientInv'
<1> DEFINE b == compaction.boundary
<1>1. UNCHANGED <<pc, missing, pending, hist, tool, waiters>>
  BY DEF CompactionDone, turnVars, toolVars
<1>2. /\ Carries(messages, messages')
      /\ AllComplete(messages, Prompts) => AllComplete(messages', Prompts)
  <2>1. CASE messages' = messages
    BY <2>1, FlushCarries
  <2>2. CASE messages' = <<User(SummaryId)>> \o SubSeq(messages, b + 1, Len(messages))
    <3> DEFINE rest == SubSeq(messages, b + 1, Len(messages))
               n == Len(messages)
    <3>1. b \in Nat /\ messages \in Seq(Message) /\ b < n /\ messages[b + 1].kind = "user"
      BY DEF CompactionDone, TypeOK, Compaction, CompactionInv, BoundaryIsPrompt
    <3>2. rest \in Seq(Message) /\ Len(rest) = n - b /\ \A i \in 1..(n - b) : rest[i] = messages[b + i]
      <4> HIDE DEF b
      <4>1. \A i \in (b + 1)..n : messages[i] \in Message
        BY <3>1
      <4> HIDE DEF n
      <4>2. b + 1 \in Int /\ n \in Int /\ b + 1 <= n /\ n - (b + 1) + 1 = n - b
        BY <3>1 DEF n
      <4>3. /\ rest \in Seq(Message) /\ Len(rest) = n - (b + 1) + 1
            /\ \A i \in 1..(n - (b + 1) + 1) : rest[i] = messages[b + 1 + i - 1]
        BY <4>1, <4>2, SubSeqProperties DEF n
      <4>4. \A i \in 1..(n - b) : b + 1 + i - 1 = b + i
        BY <3>1
      <4> QED
        BY <4>2, <4>3, <4>4
    <3>3. <<User(SummaryId)>> \in Seq(Message)
      BY BoundsAssumption DEF User, Message, UserMessage, UserIds, SummaryId
    <3> HIDE DEF rest
    <3>4. messages' = <<User(SummaryId)>> \o rest
      BY <2>2 DEF rest
    <3>5. /\ Len(messages') = 1 + Len(rest)
          /\ \A i \in 1..(1 + Len(rest)) : messages'[i] = IF i <= 1 THEN User(SummaryId) ELSE rest[i - 1]
      <4> DEFINE new == <<User(SummaryId)>>
      <4>1. Len(new) = 1 /\ new[1] = User(SummaryId)
        OBVIOUS
      <4> HIDE DEF new
      <4>2. /\ Len(new \o rest) = Len(new) + Len(rest)
            /\ \A i \in 1..(Len(new) + Len(rest)) :
                 (new \o rest)[i] = IF i <= Len(new) THEN new[i] ELSE rest[i - Len(new)]
        BY <3>2, <3>3, ConcatProperties DEF new
      <4> QED
        BY <3>4, <4>1, <4>2 DEF new
    <3> HIDE DEF b, n
    <3>6. n \in Nat /\ n = Len(messages)
      BY <3>1 DEF n
    <3>7. Len(messages') = n - b + 1 /\ messages'[1] = User(SummaryId)
      BY <3>1, <3>2, <3>5, <3>6
    <3>8. \A k \in 2..Len(messages') : messages'[k] = messages[k + b - 1]
      <4> SUFFICES ASSUME NEW k \in 2..Len(messages') PROVE messages'[k] = messages[k + b - 1]
        OBVIOUS
      <4>0. k \in 2..(n - b + 1) /\ b \in Int /\ n \in Int
        BY <3>1, <3>6, <3>7
      <4>1. k - 1 \in 1..(n - b) /\ ~(k <= 1) /\ b + (k - 1) = k + b - 1 /\ k \in 1..(1 + (n - b))
        BY <4>0
      <4> QED
        BY <3>2, <3>5, <4>1
    <3>9. \A i \in (b + 1)..n :
            /\ \A u : CutOff(messages, i, u) => CutOff(messages', i - b + 1, u)
            /\ \A id : Prompted(messages, i, id) => Prompted(messages', i - b + 1, id)
      BY <3>1, <3>6, <3>7, <3>8, CutBefore
    <3>10. Carries(messages, messages')
      <4>1. n \in (b + 1)..n
        BY <3>1, <3>6
      <4> QED
        BY <3>6, <3>7, <3>9, <4>1 DEF Carries
    <3>11. ASSUME AllComplete(messages, Prompts) PROVE AllComplete(messages', Prompts)
      <4> SUFFICES ASSUME NEW k \in 1..Len(messages') PROVE Answers(messages', k - 1, messages'[k], Prompts)
        BY DEF AllComplete
      <4>1. CASE k = 1
        BY <3>7, <4>1, UserAnswers
      <4>2. CASE k # 1
        <5> DEFINE i == k + b - 1
        <5>1. i \in (b + 1)..n /\ i \in 1..n /\ messages'[k] = messages[i]
          BY <3>1, <3>6, <3>7, <3>8, <4>2
        <5>2. CASE i = b + 1
          BY <3>1, <5>1, <5>2 DEF Answers
        <5>3. CASE i # b + 1
          <6>1. i - 1 \in (b + 1)..n /\ (i - 1) - b + 1 = k - 1
            BY <3>1, <3>6, <5>1, <5>3
          <6>2. Answers(messages, i - 1, messages[i], Prompts)
            BY <3>6, <3>11, <5>1 DEF AllComplete
          <6> HIDE DEF i
          <6>3. /\ \A u : CutOff(messages, i - 1, u) => CutOff(messages', k - 1, u)
                /\ \A id : Prompted(messages, i - 1, id) => Prompted(messages', k - 1, id)
            BY <3>9, <6>1
          <6> QED
            BY <5>1, <6>2, <6>3 DEF Answers
        <5> QED
          BY <5>2, <5>3
      <4> QED
        BY <4>1, <4>2
    <3> QED
      BY <3>10, <3>11
  <2> QED
    BY <2>1, <2>2 DEF CompactionDone
<1> QED
  BY <1>1, <1>2, PatientIdle DEF Busy

\* Writing content into the pending message during the stream
LEMMA PatientWrite ==
  ASSUME TypeOK, ControlInv, PatientInv, NEW t \in Turns, pc[t] \in {"opened", "stream"},
         pc' = [pc EXCEPT ![t] = "stream"], UNCHANGED <<waiters, hist, toolVars, messages>>,
         Prompts' = Prompts,
         ~hist.impatient /\ t = hist.turns =>
           /\ OwnMessage(pending')
           /\ pending # None => pending.uses \subseteq pending'.uses /\ pending'.results = pending.results
           /\ pending = None => pending'.results = {}
  PROVE  PatientInv'
<1>1. Alive(t) /\ pc'[t] = "stream"
  BY DEF Alive, TypeOK
<1>2. ASSUME ~hist.impatient, t = hist.turns
      PROVE  /\ PendingIsOwn' /\ AllComplete(messages', Prompts)
             /\ ToolsPending(t)' /\ NoResultsYet(t)'
  <2>1. PendingIsOwn /\ AllComplete(messages, Prompts) /\ ToolsPending(t) /\ NoResultsYet(t)
    BY <1>1, <1>2, PatientTurn
  <2>2. /\ OwnMessage(pending')
        /\ pending # None => pending.uses \subseteq pending'.uses /\ pending'.results = pending.results
        /\ pending = None => pending'.results = {}
    BY <1>2
  <2>3. pending' # None
    BY <2>2, NoMessageAssumption DEF OwnMessage
  <2>4. PendingIsOwn'
    BY <2>2 DEF PendingIsOwn, OwnMessage
  <2>5. ToolsPending(t)'
    BY <1>1, <2>1, <2>2, <2>3 DEF ToolsPending, Busy, toolVars, ToolPCs
  <2>6. NoResultsYet(t)'
    BY <2>1, <2>2 DEF NoResultsYet
  <2> QED
    BY <2>1, <2>4, <2>5, <2>6
<1>3. \A u \in Tools : tool'[u].owner \in {tool[u].owner, t}
  BY DEF toolVars
<1>4. Carries(messages, messages')
  BY FlushCarries
<1> QED
  BY <1>1, <1>2, <1>3, <1>4, PatientMove

\* Text and reasoning details
LEMMA PatientText ==
  ASSUME TypeOK, ControlInv, PatientInv, Prompts' = Prompts, NEW t \in Turns,
         TextEvent(t) \/ ReasoningDetailsEvent(t)
  PROVE  PatientInv'
<1> DEFINE m == PendingMessage(t)
<1>1. /\ pc[t] \in {"opened", "stream"} /\ pc' = [pc EXCEPT ![t] = "stream"]
      /\ UNCHANGED <<waiters, hist, toolVars, messages>>
      /\ pending' = m \/ pending' = [m EXCEPT !.text = TRUE]
  BY DEF TextEvent, ReasoningDetailsEvent, Streaming, Moved
<1>2. ASSUME ~hist.impatient, t = hist.turns
      PROVE  /\ OwnMessage(pending')
             /\ pending # None => pending.uses \subseteq pending'.uses /\ pending'.results = pending.results
             /\ pending = None => pending'.results = {}
  <2>1. PendingIsOwn
    BY <1>2 DEF PatientInv
  <2>2. /\ OwnMessage(m)
        /\ pending # None => m.uses = pending.uses /\ m.results = pending.results
        /\ pending = None => m.results = {}
    BY <1>2, <2>1, PendingMessageOwn
  <2> HIDE DEF m
  <2>3. CASE pending' = m
    BY <2>2, <2>3
  <2>4. CASE pending' = [m EXCEPT !.text = TRUE]
    <3>1. /\ pending' \in AgentMessage /\ pending'.by = m.by /\ pending'.canceled = m.canceled
          /\ pending'.uses = m.uses /\ pending'.results = m.results
      BY <2>2, <2>4 DEF OwnMessage, AgentMessage
    <3> QED
      BY <2>2, <3>1 DEF OwnMessage
  <2> QED
    BY <1>1, <2>3, <2>4
<1> QED
  BY <1>1, <1>2, PatientWrite

\* A tool use that is flushed without its result is stored as cancelled
LEMMA FlushCutsOff ==
  ASSUME TypeOK, pending # None, NEW u \in pending.uses, u \notin pending.results
  PROVE  LET ms == Flushed(messages) IN CutOff(ms, Len(ms), u)
<1> DEFINE ms == Flushed(messages)
           m == Answered(pending)
<1>1. pending \in AgentMessage
  BY DEF TypeOK
<1>2. m \in AgentMessage /\ u \in m.canceled
  BY <1>1 DEF Answered, AgentMessage
<1>3. m \in Message /\ m.kind = "agent"
  BY <1>2 DEF Message, AgentMessage
<1>4. ms = Append(messages, m) /\ messages \in Seq(Message)
  BY DEF Flushed, HasContent, TypeOK
<1> HIDE DEF ms, m
<1>5. Len(ms) = Len(messages) + 1 /\ Len(messages) \in Nat /\ ms[Len(messages) + 1] = m
  BY <1>3, <1>4, AppendProperties
<1>6. PICK n \in Nat : n = Len(ms) /\ n \in 1..n /\ ms[n] = m
  BY <1>5
<1>7. \A k \in (n + 1)..n : FALSE
  OBVIOUS
<1>8. Unprompted(ms, n, n)
  BY <1>7 DEF Unprompted
<1> QED
  BY <1>2, <1>3, <1>6, <1>8 DEF CutOff, ms

\* StartMessage flushes what the stream has sent so far
LEMMA PatientStart ==
  ASSUME TypeOK, ControlInv, PatientInv, Prompts' = Prompts, NEW t \in Turns, StartMessageEvent(t)
  PROVE  PatientInv'
<1>1. /\ pc[t] \in {"opened", "stream"} /\ pc' = [pc EXCEPT ![t] = "stream"]
      /\ UNCHANGED <<waiters, hist, tool, missing>> /\ messages' = Flushed(messages)
      /\ pending' = [EmptyMessage EXCEPT !.by = {t}]
  BY DEF StartMessageEvent, Streaming, Moved, toolVars
<1>2. Alive(t) /\ pc'[t] = "stream"
  BY <1>1 DEF Alive, TypeOK
<1>3. Carries(messages, messages')
  BY <1>1, FlushCarries
<1>4. pending'.by = {t} /\ pending'.canceled = {} /\ pending'.results = {}
  BY <1>1 DEF EmptyMessage
<1>5. ASSUME ~hist.impatient, t = hist.turns
      PROVE  /\ PendingIsOwn' /\ AllComplete(messages', Prompts)
             /\ ToolsPending(t)' /\ NoResultsYet(t)'
  <2>1. /\ PendingIsOwn /\ AllComplete(messages, Prompts) /\ ToolsPending(t) /\ NoResultsYet(t)
        /\ TurnPrompted(t)
    BY <1>2, <1>5, PatientTurn
  <2>2. AllComplete(messages', Prompts)
    BY <1>1, <1>5, <2>1, FlushComplete
  <2>3. PendingIsOwn'
    BY <1>1, <1>4, <1>5 DEF PendingIsOwn
  <2>4. ToolsPending(t)'
    <3> SUFFICES ASSUME NEW u \in Tools, tool'[u].owner = t, Busy(u)'
                 PROVE  CutOff(messages', Len(messages'), u)
      BY <1>2 DEF ToolsPending, ToolPCs
    <3>1. (pending # None /\ u \in pending.uses) \/ CutOff(messages, Len(messages), u)
      BY <1>1, <2>1 DEF ToolsPending, Busy
    <3>2. CASE pending # None /\ u \in pending.uses
      <4>1. u \notin pending.results
        BY <1>1, <2>1, <3>2 DEF NoResultsYet
      <4> QED
        BY <1>1, <3>2, <4>1, FlushCutsOff
    <3> QED
      BY <1>3, <3>1, <3>2 DEF Carries
  <2>5. NoResultsYet(t)'
    BY <1>4 DEF NoResultsYet
  <2> QED
    BY <2>2, <2>3, <2>4, <2>5
<1> QED
  BY <1>1, <1>2, <1>3, <1>5, PatientMove

\* A tool use is in the pending message from its first event on
LEMMA PatientToolUse ==
  ASSUME TypeOK, ControlInv, PatientInv, Prompts' = Prompts, NEW t \in Turns, NEW u \in Tools,
         NEW input \in {"partial", "full", "invalid"}, ToolUseEvent(t, u, input)
  PROVE  PatientInv'
<1> DEFINE m == PendingMessage(t)
<1>1. /\ pc[t] \in {"opened", "stream"} /\ pc' = [pc EXCEPT ![t] = "stream"]
      /\ UNCHANGED <<waiters, hist, messages>>
      /\ pending' = [m EXCEPT !.uses = @ \cup {u}]
  BY DEF ToolUseEvent, Streaming, Moved
<1>2. tool'[u].owner = t /\ \A v \in Tools : v # u => tool'[v] = tool[v]
  BY DEF ToolUseEvent, TypeOK
<1>3. missing' \ {u} \subseteq missing
  BY DEF ToolUseEvent
<1>4. Alive(t) /\ pc'[t] = "stream"
  BY <1>1 DEF Alive, TypeOK
<1>5. ASSUME ~hist.impatient, t = hist.turns
      PROVE  /\ PendingIsOwn' /\ AllComplete(messages', Prompts)
             /\ ToolsPending(t)' /\ NoResultsYet(t)'
  <2>1. PendingIsOwn /\ AllComplete(messages, Prompts) /\ ToolsPending(t) /\ NoResultsYet(t)
    BY <1>4, <1>5, PatientTurn
  <2>2. /\ OwnMessage(m)
        /\ pending # None => m.uses = pending.uses /\ m.results = pending.results
        /\ pending = None => m.results = {}
    BY <1>5, <2>1, PendingMessageOwn
  <2> HIDE DEF m
  <2>3. pending' = [m EXCEPT !.uses = m.uses \cup {u}]
    BY <1>1
  <2>4. /\ pending' \in AgentMessage /\ pending'.uses = m.uses \cup {u}
        /\ pending'.by = m.by /\ pending'.canceled = m.canceled /\ pending'.results = m.results
    BY <2>2, <2>3 DEF OwnMessage, AgentMessage
  <2>5. pending' # None
    BY <2>4, NoMessageAssumption
  <2>6. PendingIsOwn'
    BY <1>1, <2>2, <2>4 DEF PendingIsOwn, OwnMessage
  <2>7. ToolsPending(t)'
    <3> SUFFICES ASSUME NEW v \in Tools, tool'[v].owner = t, Busy(v)'
                 PROVE  v \in pending'.uses \/ CutOff(messages', Len(messages'), v)
      BY <1>4, <2>5 DEF ToolsPending, ToolPCs
    <3>1. CASE v # u
      <4>1. tool[v].owner = t /\ Busy(v)
        BY <1>2, <1>3, <3>1 DEF Busy
      <4> QED
        BY <1>1, <2>1, <2>2, <2>4, <4>1 DEF ToolsPending
    <3> QED
      BY <2>4, <3>1
  <2>8. NoResultsYet(t)'
    BY <1>1, <2>1, <2>2, <2>4 DEF NoResultsYet
  <2> QED
    BY <1>1, <2>1, <2>6, <2>7, <2>8
<1>6. \A v \in Tools : tool'[v].owner \in {tool[v].owner, t}
  BY <1>2
<1>7. Carries(messages, messages')
  BY <1>1, FlushCarries
<1> QED
  BY <1>1, <1>4, <1>5, <1>6, <1>7, PatientMove

\* A refusal drops the tools of the turn
LEMMA PatientFailed ==
  ASSUME TypeOK, ControlInv, PatientInv, Prompts' = Prompts, NEW t \in Turns, NEW outcome,
         TurnFailedEvent(t, outcome)
  PROVE  PatientInv'
<1>1. /\ pc[t] \in {"opened", "stream"} /\ pc' = [pc EXCEPT ![t] = "end"]
      /\ UNCHANGED <<waiters, hist, messages, pending>>
      /\ missing' = {u \in missing : tool[u].owner # t}
  BY DEF TurnFailedEvent, Streaming, Moved, threadVars
<1>2. ASSUME NEW u \in Tools
      PROVE  /\ tool'[u].owner = tool[u].owner
             /\ tool[u].owner = t => tool'[u].task \in {"none", "used", "dropped"}
  <2> DEFINE x == IF tool[u].task \in {"none", "used"} THEN tool[u].task ELSE "dropped"
  <2>1. x \in {"none", "used", "dropped"}
    OBVIOUS
  <2>2. tool'[u] = IF tool[u].owner # t THEN tool[u]
                   ELSE [tool[u] EXCEPT !.stage = "final", !.task = x]
    BY DEF TurnFailedEvent
  <2> HIDE DEF x
  <2> QED
    BY <2>1, <2>2 DEF TypeOK, ToolStates
<1>3. Alive(t)
  BY <1>1 DEF Alive
<1>4. ASSUME ~hist.impatient
      PROVE  /\ PendingIsOwn' /\ AllComplete(messages', Prompts)
             /\ ToolsPending(t)' /\ NoResultsYet(t)'
  <2>1. PendingIsOwn /\ AllComplete(messages, Prompts) /\ NoResultsYet(t)
    BY <1>3, <1>4, PatientTurn
  <2>2. \A u \in Tools : tool'[u].owner = t => ~Busy(u)'
    <3> SUFFICES ASSUME NEW u \in Tools, tool'[u].owner = t PROVE ~Busy(u)'
      OBVIOUS
    <3>1. tool[u].owner = t /\ tool'[u].task \in {"none", "used", "dropped"}
      BY <1>2
    <3>2. u \notin missing'
      BY <1>1, <3>1
    <3> QED
      BY <3>1, <3>2 DEF Busy
  <2>3. NoResultsYet(t)'
    BY <1>1, <2>1 DEF NoResultsYet
  <2> QED
    BY <1>1, <2>1, <2>2, <2>3 DEF PendingIsOwn, ToolsPending
<1>5. \A u \in Tools : tool'[u].owner \in {tool[u].owner, t}
  BY <1>2
<1>6. Carries(messages, messages')
  BY <1>1, FlushCarries
<1> QED
  BY <1>1, <1>3, <1>4, <1>5, <1>6, PatientMove

\* The results that are there are processed; the tools still running stay
\* where they were, and without them the round is over
LEMMA PatientResults ==
  ASSUME TypeOK, ControlInv, PatientInv, Prompts' = Prompts, NEW t \in Turns,
         AfterStream(t) \/ ToolsPolled(t)
  PROVE  PatientInv'
<1> DEFINE m == PendingMessage(t)
           R == Ready(t)
           w == IF Outstanding(t) = {} THEN "wrap" ELSE "tools"
<1>1. /\ pc[t] \in {"round", "tools"} /\ pc' = [pc EXCEPT ![t] = w]
      /\ UNCHANGED <<waiters, hist, messages>> /\ missing' = missing \ R
      /\ ProcessToolResults(t, R)
  BY DEF AfterStream, ToolsPolled, Moved
<1>2. \A u \in Tools : /\ tool'[u].owner = tool[u].owner
                        /\ tool'[u].task = IF u \in R /\ tool[u].task \in {"ok", "err", "early"}
                                           THEN "used" ELSE tool[u].task
  <2>1. Used(R) \in [Tools -> ToolStates]
    BY UsedType
  <2>2. \A u \in Tools : /\ Used(R)[u].owner = tool[u].owner
                          /\ Used(R)[u].task = IF u \in R /\ tool[u].task \in {"ok", "err", "early"}
                                               THEN "used" ELSE tool[u].task
    <3> HIDE DEF R
    <3> QED
      BY DEF Used, TypeOK, ToolStates
  <2> HIDE DEF R
  <2>3. CASE ToolsPolled(t)
    BY <2>2, <2>3 DEF ToolsPolled, R
  <2>4. CASE AfterStream(t)
    <3>1. \A u \in Tools : tool'[u] = IF u \in DrainedInputs THEN [Used(R)[u] EXCEPT !.input = "closed"]
                                       ELSE Used(R)[u]
      BY <2>4 DEF AfterStream, R
    <3>2. \A u \in Tools : tool'[u].owner = Used(R)[u].owner /\ tool'[u].task = Used(R)[u].task
      BY <2>1, <3>1 DEF ToolStates
    <3> QED
      BY <2>2, <3>2
  <2> QED
    BY <2>3, <2>4
<1>3. Alive(t) /\ w # "idle" /\ w # "done"
  BY <1>1 DEF Alive
<1>4. ASSUME NEW u \in Tools, tool'[u].owner = t, Busy(u)'
      PROVE  u \in Outstanding(t) /\ tool[u].owner = t /\ Busy(u)
  <2>1. tool[u].owner = t
    BY <1>2, <1>4
  <2>2. CASE u \in R
    <3>1. u \notin missing'
      BY <1>1, <2>2
    <3>2. tool'[u].task \in {"running", "ok", "err", "early"}
      BY <1>4, <3>1 DEF Busy
    <3>3. tool[u].task = "running"
      BY <1>2, <2>2, <3>2
    <3> QED
      BY <2>1, <3>3 DEF Outstanding, Busy
  <2>3. CASE u \notin R
    <3>1. tool'[u].task = tool[u].task /\ u \notin missing /\ tool[u].task \notin {"ok", "err", "early"}
      BY <1>2, <2>1, <2>3 DEF Ready
    <3>2. u \notin missing'
      BY <1>1, <3>1
    <3>3. tool[u].task = "running"
      BY <1>4, <3>1, <3>2 DEF Busy
    <3> QED
      BY <2>1, <3>3 DEF Outstanding, Busy
  <2> QED
    BY <2>2, <2>3
<1>5. pc'[t] = w /\ w \in {"tools", "wrap"}
  <2>1. w \in {"tools", "wrap"}
    OBVIOUS
  <2> HIDE DEF w
  <2> QED
    BY <1>1, <2>1 DEF TypeOK
<1>6. ASSUME ~hist.impatient, t = hist.turns
      PROVE  /\ PendingIsOwn' /\ AllComplete(messages', Prompts)
             /\ ToolsPending(t)' /\ NoResultsYet(t)'
  <2>1. PendingIsOwn /\ AllComplete(messages, Prompts) /\ ToolsPending(t)
    BY <1>3, <1>6, PatientTurn
  <2>2. /\ R \subseteq Tools
        /\ \A u \in R : \/ pending # None /\ u \in pending.uses
                        \/ CutOff(messages, Len(messages), u)
    BY <2>1 DEF ToolsPending, Ready, Busy
  <2>3. PendingIsOwn' /\ (pending # None => pending' # None /\ pending'.uses = pending.uses)
    <3>1. CASE R = {}
      BY <1>1, <2>1, <3>1 DEF ProcessToolResults, PendingIsOwn
    <3>2. CASE R # {}
      <4>1. OwnMessage(m) /\ (pending # None => m.uses = pending.uses)
        BY <1>6, <2>1, PendingMessageOwn
      <4> HIDE DEF m, R
      <4>2. pending' = [m EXCEPT !.results = m.results \cup R]
        BY <1>1, <3>2 DEF ProcessToolResults, m
      <4>3. /\ pending' \in AgentMessage /\ pending'.uses = m.uses /\ pending'.by = m.by
            /\ pending'.canceled = m.canceled /\ pending'.results = m.results \cup R
        BY <2>2, <4>1, <4>2 DEF OwnMessage, AgentMessage
      <4>4. pending' # None
        BY <4>3, NoMessageAssumption
      <4>5. \A u \in pending'.results \ pending'.uses : CutOff(messages, Len(messages), u)
        BY <2>2, <4>1, <4>3 DEF OwnMessage
      <4> QED
        BY <1>1, <4>1, <4>3, <4>4, <4>5 DEF OwnMessage, PendingIsOwn
    <3> QED
      BY <3>1, <3>2
  <2>4. ToolsPending(t)'
    <3> SUFFICES ASSUME NEW u \in Tools, tool'[u].owner = t, Busy(u)'
                 PROVE  /\ pc'[t] \in ToolPCs
                        /\ (pending' # None /\ u \in pending'.uses) \/ CutOff(messages', Len(messages'), u)
      BY DEF ToolsPending
    <3>1. u \in Outstanding(t) /\ tool[u].owner = t /\ Busy(u)
      BY <1>4
    <3>2. (pending # None /\ u \in pending.uses) \/ CutOff(messages, Len(messages), u)
      BY <2>1, <3>1 DEF ToolsPending
    <3>3. w = "tools"
      BY <3>1
    <3> HIDE DEF w
    <3> QED
      BY <1>1, <1>5, <2>3, <3>2, <3>3 DEF ToolPCs
  <2>5. NoResultsYet(t)'
    <3> HIDE DEF w
    <3> QED
      BY <1>5 DEF NoResultsYet
  <2> QED
    BY <1>1, <2>1, <2>3, <2>4, <2>5
<1>7. \A u \in Tools : tool'[u].owner \in {tool[u].owner, t}
  BY <1>2
<1>8. Carries(messages, messages')
  BY <1>1, FlushCarries
<1> HIDE DEF w
<1> QED
  BY <1>1, <1>3, <1>6, <1>7, <1>8, PatientMove

\* The round is flushed once all its tools have answered
LEMMA PatientWrap ==
  ASSUME TypeOK, ControlInv, PatientInv, Prompts' = Prompts, NEW t \in Turns, WrapRound(t)
  PROVE  PatientInv'
<1>1. /\ pc[t] = "wrap" /\ \E w \in {"end", "retry", "request"} : pc' = [pc EXCEPT ![t] = w]
      /\ UNCHANGED <<waiters, hist, tool, missing>> /\ messages' = Flushed(messages) /\ pending' = None
  BY DEF WrapRound, AskModel, Moved, toolVars
<1>2. Alive(t)
  BY <1>1 DEF Alive
<1>3. ASSUME ~hist.impatient
      PROVE  /\ PendingIsOwn' /\ AllComplete(messages', Prompts)
             /\ ToolsPending(t)' /\ NoResultsYet(t)'
  <2>1. /\ PendingIsOwn /\ AllComplete(messages, Prompts) /\ ToolsPending(t)
        /\ TurnPrompted(t) /\ t = hist.turns
    BY <1>2, <1>3, PatientTurn
  <2>2. AllComplete(messages', Prompts)
    BY <1>1, <2>1, FlushComplete
  <2>3. PendingIsOwn' /\ ToolsPending(t)' /\ NoResultsYet(t)'
    BY <1>1, <2>1 DEF PendingIsOwn, ToolsPending, NoResultsYet, Busy, ToolPCs
  <2> QED
    BY <2>2, <2>3
<1>4. \A u \in Tools : tool'[u].owner \in {tool[u].owner, t}
  BY <1>1
<1>5. PICK w \in {"end", "retry", "request"} : pc' = [pc EXCEPT ![t] = w]
  BY <1>1
<1>6. w # "idle"
  BY <1>5
<1>7. Carries(messages, messages')
  BY <1>1, FlushCarries
<1> QED
  BY <1>1, <1>2, <1>3, <1>4, <1>5, <1>6, <1>7, PatientMove

\* The end of the turn flushes, or leaves that to the task that waits for it
LEMMA PatientEndTurn ==
  ASSUME TypeOK, ControlInv, WaitersCancelled, PatientInv, Prompts' = Prompts, NEW t \in Turns,
         EndTurn(t)
  PROVE  PatientInv'
<1> DEFINE flushed == Flushed(messages)
           ix == local[t].ix
<1>1. /\ pc[t] = "end" /\ pc' = [pc EXCEPT ![t] = "done"] /\ UNCHANGED <<waiters, hist, missing>>
  BY DEF EndTurn, Moved
<1>2. \A u \in Tools : tool'[u].owner \in {tool[u].owner, t}
  <2>1. tool' = tool \/ tool' = CloseInputs(streaming)
    BY DEF EndTurn
  <2> QED
    BY <2>1, CloseKeepsTasks
<1>3. Alive(t)
  BY <1>1 DEF Alive
<1>4. ASSUME ~hist.impatient PROVE PendingIsOwn' /\ AllComplete(messages', Prompts)
  <2>1. PendingIsOwn /\ AllComplete(messages, Prompts) /\ TurnPrompted(t) /\ t = hist.turns
    BY <1>3, <1>4, PatientTurn
  <2>2. flushed \in Seq(Message) /\ AllComplete(flushed, Prompts)
    BY <2>1, FlushComplete, FlushedType DEF TypeOK
  <2>3. CASE cancelled[t]
    BY <1>1, <2>1, <2>3 DEF EndTurn, WasCancelled, PendingIsOwn
  <2>4. CASE ~cancelled[t]
    <3>1. /\ pending' = None
          /\ messages' = flushed \/ (ix <= Len(flushed) /\ messages' = SubSeq(flushed, 1, ix))
      BY <2>4 DEF EndTurn, WasCancelled
    <3>2. ix \in Nat
      BY DEF TypeOK, Locals
    <3> HIDE DEF flushed, ix
    <3>3. ASSUME ix <= Len(flushed) PROVE AllComplete(SubSeq(flushed, 1, ix), Prompts)
      <4>1. ix \in 0..Len(flushed)
        BY <2>2, <3>2, <3>3
      <4> QED
        BY <2>2, <4>1, PartComplete
    <3> QED
      BY <2>2, <3>1, <3>3 DEF PendingIsOwn
  <2> QED
    BY <2>3, <2>4
<1>5. Carries(messages, messages') \/ t \notin waiters
  <2>1. CASE cancelled[t]
    BY <2>1, FlushCarries DEF EndTurn, WasCancelled
  <2> QED
    BY <2>1 DEF WaitersCancelled
<1>6. "done" # "idle"
  OBVIOUS
<1> QED
  BY <1>1, <1>2, <1>3, <1>4, <1>5, <1>6, PatientMove

\* The task cancel left behind flushes when its turn is done
LEMMA PatientFlush ==
  ASSUME TypeOK, ControlInv, PatientInv, Prompts' = Prompts, NEW t \in Turns, CancelFlush(t)
  PROVE  PatientInv'
<1>1. /\ t \in waiters /\ pc[t] = "done" /\ waiters' = waiters \ {t}
      /\ messages' = Flushed(messages) /\ pending' = None /\ UNCHANGED <<pc, tool, hist>>
  BY DEF CancelFlush, toolVars
<1>2. OwnersStarted'
  BY <1>1 DEF PatientInv, OwnersStarted
<1>3. ASSUME ~hist.impatient PROVE ~Unsettled' /\ AllComplete(messages', Prompts)
  <2>1. PendingIsOwn /\ AllComplete(messages, Prompts) /\ OnlyLastTurn /\ LastPrompted
    BY <1>3 DEF PatientInv
  <2>2. \A s \in Turns : ~Alive(s) /\ (s \in waiters => s = t)
    BY <1>1, <2>1 DEF OnlyLastTurn, Alive
  <2>3. ~Unsettled'
    BY <1>1, <2>2 DEF Unsettled, Alive, TypeOK
  <2>4. TurnPrompted(t) /\ t = hist.turns
    BY <1>1, <2>1 DEF LastPrompted, OnlyLastTurn
  <2> QED
    BY <1>1, <2>1, <2>3, <2>4, FlushComplete
<1> QED
  BY <1>1, <1>2, <1>3, PatientQuiet

\* The step of a new turn
LEMMA PatientSend ==
  ASSUME TypeOK, ControlInv, PatientInv, [Next]_vars, Send \/ Resume
  PROVE  PatientInv'
<1>1. CASE Send
  <2> DEFINE id == hist.sent + 1
  <2>1. User(id) \in Message /\ User(id).kind # "agent"
    <3>1. hist.sent \in 0..MaxSends /\ hist.sent < MaxSends
      BY <1>1 DEF Send, TypeOK, History
    <3>2. id \in UserIds
      BY <3>1, BoundsAssumption DEF UserIds
    <3> HIDE DEF id
    <3> QED
      BY <3>2 DEF User, Message, UserMessage
  <2>2. CASE RunTurn(Append(messages, User(id)), id)
    BY <2>1, <2>2, PatientRunTurn
  <2>3. CASE /\ messages' = Append(messages, User(id))
             /\ hist' = [hist EXCEPT !.sent = id, !.impatient = @ \/ Unsettled]
             /\ UNCHANGED <<pending, turnVars, toolVars>>
    <3>1. hist'.turns = hist.turns /\ (~hist'.impatient => ~hist.impatient /\ ~Unsettled)
      BY <2>3 DEF TypeOK, History
    <3>2. Prompts' = Prompts
      BY <3>1, PromptsStep
    <3>3. OwnersStarted'
      BY <2>3, <3>1 DEF PatientInv, OwnersStarted, toolVars
    <3>4. ASSUME ~hist'.impatient PROVE ~Unsettled' /\ pending' = None /\ AllComplete(messages', Prompts')
      <4>1. pending = None /\ AllComplete(messages, Prompts) /\ ~Unsettled
        BY <3>1, <3>4, SettledMeansIdle DEF PatientInv
      <4>2. AllComplete(messages', Prompts)
        BY <2>1, <2>3, <4>1, AppendComplete, UserAnswers DEF TypeOK
      <4> QED
        BY <2>3, <3>2, <4>1, <4>2 DEF Unsettled, Alive, turnVars
    <3> QED
      BY <3>3, <3>4, PatientQuiet
  <2> QED
    BY <1>1, <2>2, <2>3 DEF Send
<1>2. CASE Resume
  <2>1. Resumed \in Message /\ Resumed.kind # "agent"
    BY DEF Resumed, Message, ResumeMessage
  <2> QED
    BY <1>2, <2>1, PatientRunTurn DEF Resume
<1> QED
  BY <1>1, <1>2

\* Every step keeps the invariant
LEMMA PatientStep ==
  TypeOK /\ ControlInv /\ CompactionInv /\ WaitersCancelled /\ PatientInv /\ [Next]_vars => PatientInv'
<1> SUFFICES ASSUME TypeOK, ControlInv, CompactionInv, WaitersCancelled, PatientInv, [Next]_vars,
                    ~Send, ~Resume
             PROVE  PatientInv'
  BY PatientSend
<1> USE DEF threadVars, turnVars, toolVars, Moved, UnchangedButMessages
<1>1. hist'.turns = hist.turns
  <2>1. CASE UNCHANGED hist
    BY <2>1
  <2>2. CASE Cancel \/ \E id \in 1..hist.sent : Truncate(id)
    BY <2>2 DEF Cancel, Truncate, TypeOK, History
  <2>3. CASE SetModel \/ SetTitle \/ RegenerateTitle \/ (\E b \in BOOLEAN : SetHasQueuedMessage(b))
             \/ (\E u \in Tools, ok \in BOOLEAN : ToolFinished(u, ok)) \/ UNCHANGED vars
             \/ (\E ok \in BOOLEAN : TitleGenerated(ok) \/ CompactionDone(ok))
    BY <2>1, <2>3 DEF SetModel, SetTitle, RegenerateTitle, SetHasQueuedMessage, TitleGenerated,
                      CompactionDone, ToolFinished, vars
  <2>4. ASSUME NEW t \in Turns, EventStep(t) \/ StreamEnded(t) PROVE UNCHANGED hist
    BY <2>4 DEF EventStep, StartMessageEvent, TextEvent, ReasoningDetailsEvent, UsageUpdateEvent,
                ToolUseEvent, TurnFailedEvent, StreamError, StreamEnded, LeaveStream
  <2>5. ASSUME NEW t \in Turns, TaskStep(t) PROVE UNCHANGED hist
    BY <2>5 DEF TaskStep, StartTurn, StreamOpened, StreamFailed, ToolResultEarly, CancellationSeen,
                AfterStream, ToolsPolled, WrapRound, RetryTimer, RetryCancelled, EndTurn, CancelFlush,
                LeaveStream
  <2> QED
    BY <2>1, <2>2, <2>3, <2>4, <2>5 DEF Next, UserStep
<1>2. Prompts' = Prompts
  BY <1>1, PromptsStep
<1>3. CASE Cancel \/ (\E id \in 1..hist.sent : Truncate(id)) \/ \E ok \in BOOLEAN : CompactionDone(ok)
  BY <1>2, <1>3, PatientCancel, PatientTruncate, PatientCompaction
<1>4. CASE SetModel \/ SetTitle \/ RegenerateTitle \/ UNCHANGED vars
           \/ (\E b \in BOOLEAN : SetHasQueuedMessage(b) \/ TitleGenerated(b))
  <2>1. UNCHANGED <<messages, pending, pc, waiters, tool, missing, hist>>
    BY <1>4 DEF SetModel, SetTitle, RegenerateTitle, SetHasQueuedMessage, TitleGenerated, vars
  <2> QED
    BY <1>2, <2>1, PatientIdle, FlushCarries DEF Busy
<1>5. ASSUME NEW u \in Tools, NEW ok \in BOOLEAN, ToolFinished(u, ok) PROVE PatientInv'
  <2> DEFINE r == IF ok THEN "ok" ELSE "err"
  <2>1. /\ tool[u].task = "running" /\ tool' = [tool EXCEPT ![u].task = r]
        /\ UNCHANGED <<messages, pending, pc, waiters, missing, hist>>
    BY <1>5 DEF ToolFinished
  <2> HIDE DEF r
  <2>2. \A v \in Tools : tool'[v].owner = tool[v].owner /\ (Busy(v)' => Busy(v))
    BY <2>1 DEF TypeOK, ToolStates, Busy
  <2> QED
    BY <1>2, <2>1, <2>2, PatientIdle, FlushCarries
<1>6. ASSUME NEW t \in Turns, EventStep(t) PROVE PatientInv'
  <2>1. ASSUME NEW level \in {"low", "high"}, UsageUpdateEvent(t, level) PROVE PatientInv'
    <3>1. /\ pc[t] \in {"opened", "stream"} /\ pc' = [pc EXCEPT ![t] = "stream"]
          /\ UNCHANGED <<messages, pending, waiters, tool, missing, hist>>
      BY <2>1 DEF UsageUpdateEvent, Streaming
    <3>2. /\ Alive(t) /\ "stream" \in AwakePCs /\ "stream" \in ToolPCs
          /\ pc[t] \notin {"tools", "wrap"}
      BY <3>1 DEF Alive, AwakePCs, PCs, ToolPCs
    <3> QED
      BY <1>2, <3>1, <3>2, PatientGoesOn
  <2>2. ASSUME NEW e \in ErrorKinds, StreamError(t, e) PROVE PatientInv'
    BY <1>2, <2>2, PatientLeave DEF StreamError, Streaming
  <2> QED
    BY <1>2, <1>6, <2>1, <2>2, PatientText, PatientStart, PatientToolUse, PatientFailed DEF EventStep
<1>7. ASSUME NEW t \in Turns, TaskStep(t) \/ StreamEnded(t) PROVE PatientInv'
  <2>1. CASE (\E e \in ErrorKinds : StreamFailed(t, e)) \/ CancellationSeen(t) \/ StreamEnded(t)
    BY <1>2, <2>1, PatientLeave DEF StreamFailed, CancellationSeen, StreamEnded, Streaming
  <2>2. ASSUME NEW u \in Tools, ToolResultEarly(t, u) PROVE PatientInv'
    <3>1. CASE LeaveStream(t, FALSE, "none")
      BY <1>2, <2>2, <3>1, PatientLeave DEF ToolResultEarly, Streaming
    <3>2. CASE /\ tool[u].task \in {"ok", "err"} /\ tool' = [tool EXCEPT ![u].task = "early"]
               /\ UNCHANGED <<threadVars, turnVars, missing, hist>>
      <4>1. \A v \in Tools : tool'[v].owner = tool[v].owner /\ (Busy(v)' => Busy(v))
        BY <3>2 DEF TypeOK, ToolStates, Busy
      <4> QED
        BY <1>2, <3>2, <4>1, PatientIdle, FlushCarries
    <3> QED
      BY <2>2, <3>1, <3>2 DEF ToolResultEarly
  <2>3. CASE StartTurn(t) \/ StreamOpened(t) \/ RetryTimer(t) \/ RetryCancelled(t)
    <3>1. /\ pc[t] \in {"start", "request", "retry"}
          /\ \E w \in {"request", "end", "opened"} : pc' = [pc EXCEPT ![t] = w]
          /\ UNCHANGED <<pending, waiters, tool, missing, hist>>
          /\ messages' = messages \/ messages' = Append(messages, Resumed)
      BY <2>3 DEF StartTurn, StreamOpened, RetryTimer, RetryCancelled, AskModel
    <3>2. /\ Alive(t) /\ pc[t] \notin ToolPCs /\ {"request", "end", "opened"} \subseteq AwakePCs
          /\ pc[t] \notin {"tools", "wrap"}
      BY <3>1 DEF Alive, AwakePCs, PCs, ToolPCs
    <3> QED
      BY <1>2, <3>1, <3>2, PatientGoesOn
  <2> QED
    BY <1>2, <1>7, <2>1, <2>2, <2>3, PatientResults, PatientWrap, PatientEndTurn, PatientFlush
       DEF TaskStep
<1> QED
  BY <1>3, <1>4, <1>5, <1>6, <1>7 DEF Next, UserStep

\* With a patient owner every agent message answers all its tool uses; it has
\* other results only of uses that the same turn stored as cancelled before, when a
\* StartMessage cut them off; and it was written by one turn, whose prompt is the
\* last user message before it (handle_completion_event, flush_pending_message)
THEOREM PatientHistorySafe == Spec => []PatientHistory
<1>1. Init => PatientInv /\ CompactionInv /\ WaitersCancelled
  <2> SUFFICES ASSUME Init PROVE PatientInv /\ CompactionInv /\ WaitersCancelled
    OBVIOUS
  <2>1. OwnersStarted /\ WaitersCancelled
    BY DEF Init, OwnersStarted, WaitersCancelled
  <2>2. \A t \in Turns : ~Alive(t) /\ t \notin waiters
    BY DEF Init, Alive
  <2>3. pending = None /\ Len(messages) = 0 /\ compaction = None
    BY DEF Init
  <2>4. CompactionInv
    BY <2>3 DEF CompactionInv, CompactionPrefixStable, TurnsAfterCompaction, BoundaryIsPrompt
  <2> QED
    BY <2>1, <2>2, <2>3, <2>4 DEF PatientInv, OnlyLastTurn, PendingIsOwn, AllToolsPending, LastPrompted,
                                  AllComplete
<1>2. TypeOK /\ PatientInv => PatientHistory
  <2> SUFFICES ASSUME TypeOK, PatientInv, ~hist.impatient, NEW i \in 1..Len(messages),
                      messages[i].kind = "agent"
               PROVE  LET m == messages[i]
                      IN  /\ m.uses \subseteq m.results \cup m.canceled
                          /\ \A u \in (m.results \cup m.canceled) \ m.uses : CutOff(messages, i - 1, u)
                          /\ \E t \in Turns : /\ m.by = {t}
                                              /\ local[t].prompt # SummaryId =>
                                                   Prompted(messages, i - 1, local[t].prompt)
    BY DEF PatientHistory
  <2>1. Answers(messages, i - 1, messages[i], Prompts)
    BY DEF PatientInv, AllComplete
  <2>2. \A t \in DOMAIN Prompts : t \in Turns /\ Prompts[t] = local[t].prompt
    BY BoundsAssumption DEF Prompts, TypeOK, History, Turns
  <2> QED
    BY <2>1, <2>2 DEF Answers
<1>3. TypeOK /\ ControlInv /\ CompactionInv /\ WaitersCancelled /\ PatientInv /\ [Next]_vars
        => CompactionInv' /\ WaitersCancelled' /\ PatientInv'
  BY TypeStep, CompactionStep, WaitersStep, PatientStep
<1> QED
  BY <1>1, <1>2, <1>3, TypeCorrect, ControlSafe, PTL DEF Spec

=============================================================================
