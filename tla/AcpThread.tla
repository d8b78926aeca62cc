----------------------------- MODULE AcpThread -----------------------------
(***************************************************************************)
(* The thread the user sees (crates/acp_thread/src/acp_thread.rs), over any *)
(* agent connection: its entries (user messages and tool calls), the turn  *)
(* that is running, cancellation, tool call authorization, checkpoints,    *)
(* rewinding, and what happens when a prompt is answered.                  *)
(*                                                                         *)
(* All of it runs on the foreground executor: an action is the code        *)
(* between two awaits.  A turn has two tasks: send_task, which calls the   *)
(* agent, and the task run_turn returns, which handles the response; in    *)
(* between there are awaits on git, where the user may act.                *)
(*                                                                         *)
(* Left out: assistant text and its streaming buffer, user messages that   *)
(* an agent echoes or replays, plans, terminals, titles, token usage.      *)
(***************************************************************************)
EXTENDS Integers, Sequences, FiniteSets

CONSTANTS
  None,        \* Rust's Option::None
  MaxTurns,    \* bound: turns started
  MaxCancels,  \* bound: cancellations by the user
  MaxRewinds,  \* bound: rewinds
  Calls,       \* ids of tool calls
  Answers,     \* how the agent may answer a prompt
  Ops          \* what the user may do besides send and cancel

Turns == 1..MaxTurns
AllAnswers == {"end_turn", "cancelled", "refusal", "max_tokens", "error"}
AllOps == {"retry", "restore", "rewind", "authorize"}

ASSUME AcpAssumption ==
  /\ MaxTurns \in Nat /\ MaxCancels \in Nat /\ MaxRewinds \in Nat
  /\ None \notin Nat \cup AllAnswers
  /\ Answers \subseteq AllAnswers /\ Ops \subseteq AllOps

VARIABLES
  entries,    \* AcpThread.entries
  turnId,     \* AcpThread.turn_id
  running,    \* AcpThread.running_turn: its id
  hadError,   \* AcpThread.had_error
  send,       \* send_task of each turn
  awaits,     \* the turn whose send_task a send_task is waiting for
  handler,    \* the task that handles the response of each turn
  target,     \* user message whose checkpoint that task compares
  response,   \* what each prompt was answered, until it is handled
  resend,     \* turns started by retry, which push no user message
  told,       \* turns whose prompt the agent was told to cancel, until it answers
  slot,       \* the view's _cancel_task: a turn whose send_task it holds
  rewinding,  \* messages for which the task of rewind has yet to run
  hist        \* history: counters and what the properties observe

turnVars == <<turnId, running, hadError>>
taskVars == <<send, awaits, handler, target, response, resend>>
vars == <<entries, turnVars, taskVars, told, slot, rewinding, hist>>

Statuses == {"pending", "waiting", "in_progress", "completed", "failed", "rejected", "canceled"}
AgentStatuses == {"pending", "in_progress", "completed", "failed"}
SendStages == {"idle", "waiting", "checkpoint", "prompting", "done", "dropped"}
HandlerStages == {"idle", "waiting", "comparing", "finishing", "done"}

\* A user message has the id of its turn; "taken" is a history field, the turn
\* that took its checkpoint.  "by" is the turn that made a tool call.
UserEntry == [kind : {"user"}, id : Turns, checkpoint : {"none", "hidden", "shown"},
              taken : Turns \cup {None}]
ToolEntry == [kind : {"tool"}, id : Calls, status : Statuses, output : BOOLEAN, by : Turns]
Entry == UserEntry \cup ToolEntry

\* cancelled: turns that cancel took out of running_turn
\* rushed: turns started while the send_task of a cancelled one was running
History == [cancels : 0..MaxCancels, rewinds : 0..MaxRewinds,
            cancelled : SUBSET Turns, rushed : SUBSET Turns]

TypeOK ==
  /\ entries \in Seq(Entry)
  /\ turnId \in 0..MaxTurns
  /\ running \in Turns \cup {None}
  /\ hadError \in BOOLEAN
  /\ send \in [Turns -> SendStages]
  /\ awaits \in [Turns -> Turns \cup {None}]
  /\ handler \in [Turns -> HandlerStages]
  /\ target \in [Turns -> Turns \cup {None}]
  /\ response \in [Turns -> AllAnswers \cup {None}]
  /\ resend \in SUBSET Turns
  /\ told \in SUBSET Turns
  /\ slot \in Turns \cup {None}
  /\ rewinding \in SUBSET Turns
  /\ hist \in History

Init ==
  /\ entries = <<>>
  /\ turnId = 0
  /\ running = None
  /\ hadError = FALSE
  /\ send = [t \in Turns |-> "idle"]
  /\ awaits = [t \in Turns |-> None]
  /\ handler = [t \in Turns |-> "idle"]
  /\ target = [t \in Turns |-> None]
  /\ response = [t \in Turns |-> None]
  /\ resend = {}
  /\ told = {}
  /\ slot = None
  /\ rewinding = {}
  /\ hist = [cancels |-> 0, rewinds |-> 0, cancelled |-> {}, rushed |-> {}]
-----------------------------------------------------------------------------
(***************************************************************************)
(* Entries.                                                                *)
(***************************************************************************)
UserIndices(es) == {i \in 1..Len(es) : es[i].kind = "user"}

\* last_user_message: its index
LastUser(es) == CHOOSE i \in UserIndices(es) : \A j \in UserIndices(es) : j <= i

\* user_message_mut, index_for_tool_call: the indices (at most one)
UserAt(es, id) == {i \in UserIndices(es) : es[i].id = id}
CallAt(es, c) == {i \in 1..Len(es) : es[i].kind = "tool" /\ es[i].id = c}

\* mark_pending_tools_as_canceled
MarkCanceled(es) ==
  [i \in 1..Len(es) |->
     IF es[i].kind = "tool" /\ es[i].status \in {"pending", "waiting", "in_progress"}
     THEN [es[i] EXCEPT !.status = "canceled"] ELSE es[i]]
-----------------------------------------------------------------------------
(***************************************************************************)
(* Turns and cancellation.                                                 *)
(***************************************************************************)
\* The send_task of a turn is over: it has sent the response, or it was dropped
FinishedMutant(t) == send[t] = "done"
Finished(t) == send[t] \in {"done", "dropped"}

\* cancel: the turn is taken, the agent told, its tool calls marked; nothing
\* when no turn is running
CanceledEntries == IF running = None THEN entries ELSE MarkCanceled(entries)
TellAgent == told' = IF running = None THEN told
                     ELSE told \cup {t \in Turns : send[t] = "prompting"}
NoteCancelled == [hist EXCEPT !.cancelled = @ \cup ({running} \ {None})]

\* Dropping the task that cancel returned for s drops the send_task of s, and
\* with it the tasks that one is still waiting for
DroppedWith(s) ==
  IF s = None THEN {}
  ELSE {t \in 1..s : /\ ~Finished(t)
                     /\ \A u \in t + 1..s : send[u] = "waiting" /\ awaits[u] = u - 1}

\* The cancel_task that run_turn hands to the new send_task
CancelTaskMutant == None
CancelTaskByIdMutant == turnId
CancelTask == running

\* run_turn: cancel, then two new tasks
RunTurn(again) ==
  LET t == turnId + 1
  IN  /\ turnId < MaxTurns
      /\ turnId' = t
      /\ running' = t
      /\ hadError' = FALSE
      /\ entries' = CanceledEntries
      /\ TellAgent
      /\ send' = [send EXCEPT ![t] = "waiting"]
      /\ awaits' = [awaits EXCEPT ![t] = CancelTask]
      /\ handler' = [handler EXCEPT ![t] = "waiting"]
      /\ resend' = IF again THEN resend \cup {t} ELSE resend
      /\ hist' = [NoteCancelled EXCEPT !.rushed =
                    IF running = None /\ \E s \in 1..turnId : ~Finished(s)
                    THEN @ \cup {t} ELSE @]
      /\ UNCHANGED <<target, response, slot, rewinding>>

Send == RunTurn(FALSE)
Retry == "retry" \in Ops /\ RunTurn(TRUE)

\* The stop button (cancel_generation): the task cancel returns replaces the
\* one of the last stop, which is dropped
CancelGeneration ==
  /\ hist.cancels < MaxCancels
  /\ running' = None
  /\ entries' = CanceledEntries
  /\ TellAgent
  /\ slot' = running
  /\ send' = [t \in Turns |-> IF t \in DroppedWith(slot) THEN "dropped" ELSE send[t]]
  /\ hist' = [NoteCancelled EXCEPT !.cancels = @ + 1]
  /\ UNCHANGED <<turnId, hadError, awaits, handler, target, response, resend, rewinding>>

\* cancel by code that keeps the task until it is done (send now, stop subagent)
CancelDetached ==
  /\ hist.cancels < MaxCancels
  /\ running # None
  /\ running' = None
  /\ entries' = CanceledEntries
  /\ TellAgent
  /\ hist' = [NoteCancelled EXCEPT !.cancels = @ + 1]
  /\ UNCHANGED <<turnId, hadError, taskVars, slot, rewinding>>

\* rewind(id) for a message of the thread, by regenerate
Rewind(id) ==
  /\ "rewind" \in Ops
  /\ hist.rewinds < MaxRewinds
  /\ UserAt(entries, id) # {}
  /\ rewinding' = rewinding \cup {id}
  /\ hist' = [hist EXCEPT !.rewinds = @ + 1]
  /\ UNCHANGED <<entries, turnVars, taskVars, told, slot>>

\* restore_checkpoint(id): cancel, then rewind
RestoreCheckpoint(id) ==
  /\ "restore" \in Ops
  /\ hist.rewinds < MaxRewinds
  /\ UserAt(entries, id) # {}
  /\ running' = None
  /\ entries' = CanceledEntries
  /\ TellAgent
  /\ rewinding' = rewinding \cup {id}
  /\ hist' = [NoteCancelled EXCEPT !.rewinds = @ + 1]
  /\ UNCHANGED <<turnId, hadError, taskVars, slot>>

\* The task of rewind: the agent truncates its own history (and, the native
\* one, cancels), or fails; then the entries go, if the message is still there
RewindRuns(id, ok) ==
  LET at == UserAt(entries, id)
  IN  /\ id \in rewinding
      /\ rewinding' = rewinding \ {id}
      /\ told' = told \cup {t \in Turns : send[t] = "prompting"}
      /\ entries' = IF ok /\ at # {} THEN SubSeq(entries, 1, (CHOOSE i \in at : TRUE) - 1)
                    ELSE entries
      /\ UNCHANGED <<turnVars, taskVars, slot, hist>>

\* authorize_tool_call, from a button that is there while the call is waiting
AuthorizeToolCall(c, allow) ==
  /\ "authorize" \in Ops
  /\ \E i \in CallAt(entries, c) :
       /\ entries[i].status = "waiting"
       /\ entries' = [entries EXCEPT ![i].status = IF allow THEN "in_progress" ELSE "rejected"]
  /\ UNCHANGED <<turnVars, taskVars, told, slot, rewinding, hist>>
-----------------------------------------------------------------------------
(***************************************************************************)
(* send_task.                                                              *)
(***************************************************************************)
\* cancel_task is done.  send pushes the user message and asks git for a
\* checkpoint; retry calls the agent at once
SendTaskStarts(t) ==
  /\ send[t] = "waiting"
  /\ awaits[t] # None => Finished(awaits[t])
  /\ IF t \in resend
     THEN entries' = entries /\ send' = [send EXCEPT ![t] = "prompting"]
     ELSE /\ entries' = Append(entries, [kind |-> "user", id |-> t, checkpoint |-> "none",
                                         taken |-> None])
          /\ send' = [send EXCEPT ![t] = "checkpoint"]
  /\ awaits' = [awaits EXCEPT ![t] = None]
  /\ UNCHANGED <<turnVars, handler, target, response, resend, told, slot, rewinding, hist>>

\* git answered, or failed: the checkpoint goes to the last user message, and
\* the agent is prompted
CheckpointTaken(t, ok) ==
  /\ send[t] = "checkpoint"
  /\ entries' = IF UserIndices(entries) = {} THEN entries
                ELSE [entries EXCEPT ![LastUser(entries)] =
                        [@ EXCEPT !.checkpoint = IF ok THEN "hidden" ELSE "none",
                                  !.taken = IF ok THEN t ELSE None]]
  /\ send' = [send EXCEPT ![t] = "prompting"]
  /\ UNCHANGED <<turnVars, awaits, handler, target, response, resend, told, slot, rewinding, hist>>
-----------------------------------------------------------------------------
(***************************************************************************)
(* The agent (external): while a prompt runs it reports tool calls, asks   *)
(* for permission, and in the end answers.                                 *)
(***************************************************************************)
NewCall(c, status, output, t) ==
  [kind |-> "tool", id |-> c, status |-> status, output |-> output, by |-> t]

SetCall(c, status, output) ==
  [i \in 1..Len(entries) |->
     IF i \in CallAt(entries, c)
     THEN [entries[i] EXCEPT !.status = status, !.output = @ \/ output] ELSE entries[i]]

\* upsert_tool_call_inner
UpsertToolCall(t, c, status, output) ==
  /\ send[t] = "prompting"
  /\ entries' = IF CallAt(entries, c) = {} THEN Append(entries, NewCall(c, status, output, t))
                ELSE SetCall(c, status, output)
  /\ UNCHANGED <<turnVars, taskVars, told, slot, rewinding, hist>>

\* request_tool_call_authorization
RequestToolCallAuthorization(t, c) == UpsertToolCall(t, c, "waiting", FALSE)

\* update_tool_call; an unknown call becomes a failed one
UpdateToolCall(t, c, status, output) ==
  /\ send[t] = "prompting"
  /\ entries' = IF CallAt(entries, c) = {} THEN Append(entries, NewCall(c, "failed", FALSE, t))
                ELSE SetCall(c, status, output)
  /\ UNCHANGED <<turnVars, taskVars, told, slot, rewinding, hist>>

\* An agent that waits for permission does not answer unless it is told to
\* cancel, or fails
Answered(t, r) ==
  /\ send[t] = "prompting"
  /\ \/ r = "error" \/ t \in told
     \/ ~\E i \in 1..Len(entries) : entries[i].kind = "tool" /\ entries[i].status = "waiting"
                                    /\ entries[i].by = t
  /\ send' = [send EXCEPT ![t] = "done"]
  /\ response' = [response EXCEPT ![t] = r]
  /\ told' = told \ {t}
  /\ UNCHANGED <<entries, turnVars, awaits, handler, target, resend, slot, rewinding, hist>>
-----------------------------------------------------------------------------
(***************************************************************************)
(* The task that handles the response.                                     *)
(***************************************************************************)
\* is_same_turn
IsSameTurnMutant(t) == TRUE
IsSameTurn(t) == running = t

\* A refusal drops the last user message and what follows, unless a tool call
\* after it has completed with output
AfterRefusal(es) ==
  LET last == LastUser(es)
      toolOutput == \E i \in last + 1..Len(es) :
                      es[i].kind = "tool" /\ es[i].status = "completed" /\ es[i].output
  IN  IF UserIndices(es) = {} \/ toolOutput THEN es ELSE SubSeq(es, 1, last - 1)

\* The last segment of the task; a send_task that was dropped has no response
Finish(t) ==
  LET r == response[t]
  IN  /\ handler' = [handler EXCEPT ![t] = "done"]
      /\ response' = [response EXCEPT ![t] = None]
      /\ IF r = None
         THEN UNCHANGED <<entries, running, hadError>>
         ELSE /\ running' = IF IsSameTurn(t) THEN None ELSE running
              /\ hadError' = (hadError \/ r \in {"max_tokens", "refusal", "error"})
              /\ entries' = CASE r = "cancelled" -> MarkCanceled(entries)
                              [] r = "refusal"   -> AfterRefusal(entries)
                              [] OTHER           -> entries

\* The response is there: update_last_checkpoint, which waits for git if the
\* last user message has a checkpoint
ResponseReceived(t) ==
  LET last == LastUser(entries)
      compare == UserIndices(entries) # {} /\ entries[last].checkpoint # "none"
  IN  /\ handler[t] = "waiting"
      /\ Finished(t)
      /\ \/ /\ compare
            /\ handler' = [handler EXCEPT ![t] = "comparing"]
            /\ target' = [target EXCEPT ![t] = entries[last].id]
            /\ UNCHANGED <<entries, running, hadError, response>>
         \/ ~compare /\ Finish(t) /\ UNCHANGED target
      /\ UNCHANGED <<turnId, send, awaits, resend, told, slot, rewinding, hist>>

\* git has compared: the checkpoint is shown if the tree changed; the message
\* may be gone, or git may have failed
CheckpointCompared(t, result) ==
  /\ handler[t] = "comparing"
  /\ handler' = [handler EXCEPT ![t] = "finishing"]
  /\ target' = [target EXCEPT ![t] = None]
  /\ entries' = [i \in 1..Len(entries) |->
                   IF result # "failed" /\ i \in UserAt(entries, target[t])
                      /\ entries[i].checkpoint # "none"
                   THEN [entries[i] EXCEPT !.checkpoint = IF result = "equal" THEN "hidden" ELSE "shown"]
                   ELSE entries[i]]
  /\ UNCHANGED <<turnVars, send, awaits, response, resend, told, slot, rewinding, hist>>

FinishTurn(t) ==
  /\ handler[t] = "finishing"
  /\ Finish(t)
  /\ UNCHANGED <<turnId, send, awaits, target, resend, told, slot, rewinding, hist>>
-----------------------------------------------------------------------------
UserStep ==
  \/ Send \/ Retry \/ CancelGeneration \/ CancelDetached
  \/ \E id \in Turns : Rewind(id) \/ RestoreCheckpoint(id)
  \/ \E c \in Calls, allow \in BOOLEAN : AuthorizeToolCall(c, allow)

\* Output comes with the completion of a call
Outputs(status) == IF status = "completed" THEN BOOLEAN ELSE {FALSE}

AgentStep(t) ==
  \/ \E c \in Calls : RequestToolCallAuthorization(t, c)
  \/ \E c \in Calls, status \in AgentStatuses :
       \E output \in Outputs(status) : UpsertToolCall(t, c, status, output)
  \/ \E c \in Calls, status \in AgentStatuses :
       \E output \in Outputs(status) : UpdateToolCall(t, c, status, output)

TaskStep(t) ==
  \/ SendTaskStarts(t)
  \/ \E ok \in BOOLEAN : CheckpointTaken(t, ok)
  \/ ResponseReceived(t)
  \/ \E result \in {"failed", "equal", "different"} : CheckpointCompared(t, result)
  \/ FinishTurn(t)

Next ==
  \/ UserStep
  \/ \E t \in Turns : AgentStep(t) \/ TaskStep(t) \/ \E r \in Answers : Answered(t, r)
  \/ \E id \in Turns, ok \in BOOLEAN : RewindRuns(id, ok)

Spec == Init /\ [][Next]_vars

\* The executor runs tasks that are ready, git answers, and so does the agent
\* when it is not waiting for the user
Fairness ==
  /\ \A t \in Turns : WF_vars(TaskStep(t)) /\ WF_vars(\E r \in Answers : Answered(t, r))
  /\ \A id \in Turns : WF_vars(\E ok \in BOOLEAN : RewindRuns(id, ok))

FairSpec == Spec /\ Fairness
-----------------------------------------------------------------------------
\* status() says Generating exactly while the last turn is neither cancelled nor
\* over: an old turn that ends late does not clear running_turn for a newer
\* one, and no turn leaves itself there
StatusTruthful ==
  running = IF turnId > 0 /\ turnId \notin hist.cancelled /\ handler[turnId] # "done"
            THEN turnId ELSE None

\* Two turns talk to git or the agent at the same time only if one of them, or
\* one between, was started after a cancel that its caller did not wait for:
\* otherwise every send_task has waited for the chain of tasks before it
Active(t) == send[t] \in {"checkpoint", "prompting"}
PromptsSerialized ==
  \A t, u \in Turns : t < u /\ Active(t) /\ Active(u) => \E s \in t + 1..u : s \in hist.rushed

\* As long as no turn was rushed, a checkpoint is stored with the message of the
\* turn that took it, unless that message was removed before git answered: the
\* message is looked up after the await, as the last one
OwnCheckpoints ==
  hist.rushed = {} =>
    \A i \in UserIndices(entries) :
      LET taker == entries[i].taken
      IN  taker \notin {None, entries[i].id} => UserAt(entries, taker) = {}

\* Every turn comes to an end, unless a tool call waits for the user
TurnsSettle ==
  \A t \in Turns : handler[t] = "waiting" ~>
    \/ handler[t] = "done"
    \/ \E i \in 1..Len(entries) : entries[i].kind = "tool" /\ entries[i].status = "waiting"
=============================================================================
