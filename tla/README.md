# Formal models of Stcode's agent and remote connection

Stcode is a fork of the Zed editor (Rust, about two hundred crates). What is
its own, and what is hard to test, is the agent: conversations with a language
model that run tools, can be stopped, rewound and resent at any moment, and are
driven by many small tasks on one event loop, the review of what the agent
writes, and the connection to a remote project. This directory holds TLA+
specifications of that core, the TLC configurations that check them and TLAPS
proofs. `PROJECT.json` is the index: components, runs, mutants, the
correspondence of definitions and source lines, findings, hazards, theorems.

## The system

| Component | Source | State | Operations |
|---|---|---|---|
| Agent thread | `crates/agent/src/thread.rs` | messages, pending message, running turn, cancellation channel, streaming tool inputs, token usage, compaction and title tasks | send, resume, cancel, truncate, set_title, the turn task with its requests, events, tools and retries |
| Watch channel | `crates/watch/src/watch.rs` | value, version, closed, wakers | send, receiver, clone, borrow, changed (poll, drop), drop of the sender |
| ACP thread | `crates/acp_thread/src/acp_thread.rs` | entries, turn id, running turn, had_error, tool call statuses, checkpoints | send, retry, cancel, restore_checkpoint, rewind, tool call updates, authorize_tool_call |
| Thread view | `crates/agent_ui/src/conversation_view/thread_view.rs` | the task of the last stop, message queue | stop, send now, queue |
| Native agent sessions | `crates/agent/src/agent.rs` | sessions and pending sessions with reference counts, save tasks | open, close, summarise; forwards a turn's events to the ACP thread, saves threads |
| Threads database | `crates/agent/src/db.rs` | a row per thread | save, load, on a background thread |
| Action log | `crates/action_log/src/action_log.rs` | tracked buffers: diff base, unreviewed edits, snapshot, status, queue of snapshots | buffer_read/created/edited, will_delete_buffer, the diff task, keep, reject, undo |
| Tool permissions | `crates/agent/src/tool_permissions.rs` | none | decide allow, deny, confirm from rules |
| Context server client | `crates/context_server/src/client.rs` | response handlers, next id | request, notify, timeout, cancel |
| Remote client | `crates/remote/src/remote_client.rs` | connection state and its tasks; message ids, unacknowledged messages | connect, heartbeat, monitor, reconnect, shutdown; send, acknowledge, flush, resend |
| Remote server | `crates/remote_server/src/server.rs` | its queue of outgoing messages | accept loop, the other channel client |
| RPC peer | `crates/rpc/src/peer.rs` | connections, response channels | request, respond, keepalive |
| Text CRDT | `crates/text`, `crates/clock` | fragments, version vectors, undo map | edit, apply remote operation, undo |
| SQLite connections | `crates/sqlez` | write queues | write, read |
| Executor | `crates/scheduler`, `crates/gpui` | task queues | the environment of everything above |

How they interact. The user acts on the thread view, which calls the ACP
thread; the ACP thread calls an agent connection. For the native agent that is
a session that calls the agent thread and forwards the events of its stream
back into the ACP thread's entries. A turn of the agent thread is told to stop
through a watch channel, which its tools listen to as well. Tools announce their
edits to the action log, which the user reviews them in. A session is saved to
the database whenever its thread changes. Everything but the
watch channel, the database and the remote server lives on the foreground executor: code between two awaits is
atomic, and every await is a point where any other task or a click may come
in. That is where the behaviour is hard:

- a turn that is cancelled does not end at once. It runs on until its task sees
  the cancellation, or until its tools return, while the next turn is running;
- state is read before an await and used after it: the index of a prompt, the
  boundary of a compaction, "the last user message", the task of a stop;
- two layers each have a notion of the running turn, a cancel and a refusal;
- a background computation starts from copies and writes its result over fields
  that have changed since: the diff of a reviewed file, a save, a reconnection;
- a connection is lost between a message and its acknowledgement, or between the
  two halves of the resend after an earlier loss;
- failures come between the parts of one operation: a stream that ends between
  a tool call and its result, git failing in the middle of a send, an error
  while a permission is being asked for.

What makes each component correct: the agent thread has one live turn, reports
the end of each turn once, keeps a history in which each tool use is answered,
never deadlocks on a tool's input and ends every turn. The watch channel loses
no value and no wake-up. The ACP thread shows the truth about what is running,
does not prompt the agent twice at once, keeps checkpoints with the messages they
belong to and ends every turn. A session lives as long as someone holds it and
its changes reach the database. The action log asks for a review of exactly the agent's
changes, and a reject restores no change the agent announced that the user did not accept. The remote channel delivers each
message, in order at its first delivery; the client reconnects a bounded number of times, one
attempt at a time, and says so when it gives up.

## Modules

| Module | Models | Role |
|---|---|---|
| `AgentThread` | the agent thread and its turn tasks | state, actions, properties |
| `AgentThreadProofs` | theorems about it | |
| `AgentHistoryProofs` | theorems about its title, compactions and message history | |
| `WatchRegister` | what a watch channel promises | abstract specification |
| `WatchChannel` | the watch channel | implements `WatchRegister` |
| `WatchChannelProofs` | theorems about it | |
| `AcpThread` | the ACP thread and the view's cancel tasks | state, actions, properties |
| `AcpThreadProofs` | theorems about it | |
| `AgentSessions` | a session of the native agent and its row in the database | state, actions, properties |
| `AgentSessionsProofs` | theorems about it | |
| `ActionLog` | the review of the agent's edits to one buffer | state, actions, properties |
| `ActionLogProofs` | theorems about it | |
| `ActionLogClaims` | what a comment says of it and the code does not do | |
| `ReliableChannel` | what one direction of a remote connection promises | abstract specification |
| `RemoteChannel` | both channel clients and what a lost connection loses | implements `ReliableChannel`, twice |
| `RemoteChannelProofs` | theorems about it | |
| `RemoteClient` | the connection state machine | state, actions, properties |
| `RemoteClientProofs` | theorems about it | |

Definitions that end in `Mutant` are plausible bugs. They are used by nobody; each
takes the place of the definition that follows it to show that a property notices.

### AgentThread

An action is a segment of code between two awaits. A segment that is long is
split; a turn whose `pc` is in `Inside` is in the middle of one and every other
action waits (`Quiet`), so the split adds no interleaving. `pc` follows
`run_turn` and `run_turn_internal`:

`start` → `request` (awaits `stream_completion`) → `opened`/`stream` (the
`select!` over events, tool results and cancellation) → `round` (drop senders,
early results) → `tools` (awaits the tools, not the cancellation) → `wrap`
(flush, title, retry or next round) → `retry` (the delay) → `end` (the closure
around `run_turn_internal`) → `done`.

Turns are numbered; several may be alive, of which one is in `running_turn`.
`waiters` are the tasks that `cancel` leaves behind. `tool` has, for each tool
use, its owner, what the model has sent of it, the state of its input channel and of its
task. Text is one flag per message, a tool use is its id, token usage is low or
high, errors are classes by the way `retry_strategy_for` treats them. `hist`
holds counters for the bounds and two ghosts: `impatient`, which says that the owner acted
before an earlier turn or its cancel task had settled, and `voided`, the turns whose
prompt was truncated away while they were alive.

`StartMessage` may come at any point of a stream: some providers send one for each message item of a response. The flush
it causes stores a tool use whose tool is still running as cancelled, and the result goes into a later message, which then has
a result without its use. `MaxMessages` bounds the history up to which a stream may do that.

Merged or left out: a second task for the same tool use (only a cancelled turn can
start one) is merged with the first; a batch of events is handled one event at
a time, which allows more interleavings than the code; subagents,
`summary()`, profiles, feedback and telemetry.

### WatchRegister and WatchChannel

A section under the lock is an action. `send` wakes its wakers after the lock,
one action each, so a receiver can be polled, dropped or registered again in
between. A receiver has a `stage`: no handle, idle, a future that must be polled,
a parked future. `select!` may poll a parked future that was not woken, so polling is
always allowed and fairness obliges it only for futures that are new or woken.
`stamp` is a ghost: the value the channel held when the receiver last read the version.

`WatchRegister` has no versions and wakers: a handle has seen the current value
or not. `WatchChannel` refines it with `seen` as "has the current version"; a waiting
future is one that is ready or parked.

### AcpThread

A turn has a send task (wait for the cancelled turn's send task, push the message,
await git, prompt the agent, await the answer) and a task that handles the
answer (await git's comparison, then clear the running turn, set statuses, truncate on a
refusal). `send` and `handler` say where they are. The task that `cancel` returns is the
send task: run_turn hands it to the next turn (`awaits`), the stop button keeps
it in the view (`slot`) and a second stop drops it (`DroppedWith`). The agent is
external: it reports and updates tool calls, asks for permission and answers; one
that waits for a permission answers only when it is told to cancel or fails. git
may fail. `hist.cancelled` and `hist.rushed` are ghosts: the turns that
cancel took, and the turns that were started while the send task of a cancelled
turn was alive and nobody waited for it.

### AgentSessions

One thread, the clients that hold it (views and summaries), and the database. The content of a thread is the
set of changes its messages, its title and its draft prompt have, so that a state that is saved, loaded or lost can be compared
with what was made. What the agent streams is in `streamed` (`pending_message`) until a flush makes it a message; `to_db` leaves it out, so a
save does, and the last close drops it with the thread. `latest` is a ghost: the content after the last change of it. `Open` is `open_thread` with its three cases: the session is there, a load is
under way and is joined, or a load is started. The load task is `ReadRow` or `LoadFails`, `Register`
(the pending references become the session's), `ReplayEnds` or `ReplayFails`. `Edit`, `Stream`, `Flush` and `Truncate` notify the
observer of `register_session`, which calls `save_thread` (`Changes`); a draft prompt does not, but the view schedules a save, whose timer
notifies later (`ScheduledSave`). An empty thread is not saved: one that a truncation emptied keeps its old row and comes back with it. A save captures the content at once and replaces `pending_save`: the one it replaces is dropped unless the
database has begun to write it (`saving`, `writing`). The save of a closed session belongs to whoever closed it
(`closing`). `faults` records three things that can lose changes of the content: a row that was read while a closed session was
still being saved, two writes at a time, a failed write. `leaked` counts references nobody gives back.

Left out: the projects map (one project), deletion, other threads, and the format of a row.

### ActionLog

One buffer. A text is `Empty` or gives each of a few regions its contents; regions are separated by lines nobody
changes, so the row arithmetic of the code (hunks shifted by deltas) becomes a choice by region, and a diff against
the empty text is one hunk. `tracked` is the `TrackedBuffer`: `queue` is the channel `diff_update`, `flight` what the diff
task has computed and not written back, `fresh` says that the stored version is the buffer's, `changed` that the
`BufferDiff` has hunks. The diff task takes one snapshot at a time (`TrackEdits`, up to its await), sets the
`BufferDiff` (`SetDiff`) and, after another await, the fields of the log (`UpdateDiff`); a keep, a
reject or an edit may come in between. `AgentEdit` is an edit and its `buffer_edited` in one update, as the tools do
it for what they write themselves; any other edit of the buffer, a reject's included, is queued as the user's by the buffer's event. That goes for what a
formatter writes: when `format_on_save` is not off, a tool has the file formatted (`Format`), and announces it only after the format and the save (`SaveAnnounced`, with `unsaved` up to then; it is not certain
to happen, as one of the tools announces only what was formatted). One tool edits the buffer at a time. The formatter shares the bound of the agent's edits. `Commit` is external;
a committed text is the buffer's, as if it was saved. `FileAppeared` is a file that comes back, or that is there and is saved or renamed. `touched`, `accepted`, `taken`, `byUser` and `raced` are ghosts:
`accepted` has what the file held at first and what the user wrote, kept, committed or restored; `taken` has what the log took into its base without being told whose it is, the text it found when tracking began and a formatter's changes.
`touched` holds the regions the agent changed since their last review. A keep or a reject takes the reviewed hunks out of it, but a region which a queued entry of the
agent still changes stays (`AgentPending`, `Cleared`, `Rejected`): its hunk comes back when that entry is applied. While some of the queued texts are empty and others are not, every region counts as changed.

Left out: linked action logs (a subagent's), file read times, telemetry, `diff_stats`, `stale_buffers`, a whole-file overwrite of a
file with contents, hunks that grow together, and a reject or an undo of single regions of a file that was emptied meanwhile.

### ReliableChannel and RemoteChannel

`RemoteChannel` has both `ChannelClient`s. `wire[s]` holds what is under way to `s`. The client's outgoing channel
belongs to a proxy process: while there is none, what it sends is dropped. The server's outlives connections: what the
accept loop has not written is written to the next one. `Break` loses a suffix of what the client wrote and a prefix of what the server
queued (it was written to the dead connection). `Reconnect` is `ChannelClient::reconnect` with the flush
request of `resync`, `Resend` its second half; a `resync` that times out is a `Break`. Responses are modelled as far as they move
`max_received` and wake `resync`; a handler's answer is another message. `settled[s]` is a ghost: `s` has handled the
handshake of this connection.

The code does not deliver in order unconditionally. A message sent between a reconnection and the resend reaches the peer before
older, lost ones, and nothing on the receiving side checks ids; so does an answer, which has an id and moves `max_received` past them.
`spoiled[s]` records that a message or an answer of `s` was under way behind a lost message; `ReliableChannel` promises order only before that. Duplicates are part of the promise: a handler may see again what it has seen.

### RemoteClient

`state` is the client's state, `conn[o]` the connection and the monitor and heartbeat tasks that `o` holds: the state, the task that
builds a connection (`new` or a reconnect task), or the future of `shutdown_processes`. Dropping the owner drops the
tasks. `builder` is the progress of `new` and of a reconnect task. ReconnectFailed exists only inside one update
of the code and is `builder = "failed"` here. `hb = "unarmed"` is a heartbeat loop whose keepalive
timer has fired and was not set again. `tries` counts attempts independently of the code's own count.

How the two fit: `RemoteClient` says when `Reconnect`, `Resend` and `Break` of `RemoteChannel` may happen (`ConnectEnds`,
`ResyncAnswered`, `IoChange` and `KillEnds`). `RemoteChannel` allows them at any time, which is more.

## Runs

All runs use small sets of model values; bounds are the constants that start with `Max`.

| Run | Checks | Bounds and why they are enough |
|---|---|---|
| `thread_turns` | `TypeOK`, `SingleLiveTurn`, `OneTerminalEvent`, `PendingHasOwner`, `PatientHistory`, `TurnsEnd`, `PendingSettles` | fairness; two turns, two prompts, one interrupt or truncation, one streaming tool, one retryable error: an old and a new turn overlap in every pair of stages |
| `thread_rounds` | `ToolInputsClosed`, `PatientHistory` | one turn, a streaming tool and an unknown one, a retryable and a fatal error, all kinds of input; messages started while the history has fewer than two, so that one cuts off a tool use and its result comes later |
| `thread_background` | `CompactionPrefixStable`, `UserTitleKept` | three prompts with one preserved, so that a compaction starts and two further operations meet it; title generation that fails or succeeds, a user who types and asks |
| `watch_channel` | `TypeOK`, `NoLostWakeup`, `WakersExact`, `VersionTellsValue`, `ImplementsRegister`, `NewsDelivered` | fairness; two receivers that can be cloned and dropped, three sends, five wakers, two values |
| `acp_turns` | `TypeOK`, `StatusTruthful`, `PromptsSerialized`, `OwnCheckpoints` | three turns, so that one waits behind another that waits; one stop, one restore or rewind, retries; every prompt is refused, the answer that changes most |
| `acp_settle` | `TurnsSettle` | fairness; two turns, two stops (the second drops the task of the first), one tool call that may ask for permission, answers that report the cancellation |
| `remote_channel` | `SettledMeansUnderWay`, `ReleasedOnlyWhenDelivered`, `ImplementsChannels`, `EventuallyHandled` | fairness; two messages each way and two lost connections: the second loss hits the handshake of the first, and the second message can overtake the first |
| `remote_client` | `TypeOK`, `OneReconnectTask`, `PanicOnlyWhileShuttingDown`, `GivesUpAfterAllAttempts`, `DisconnectedIsFinal`, `ReconnectingEnds`, `SilenceNoticedWhileArmed` | fairness; the code's own limits (five heartbeats, three attempts), no other bound |
| `agent_sessions` | `ReferencesExact`, `NothingLost`, `ClosedIsSaved`, `OpensSettle` | fairness; two clients, two opens after the first session, a change and a draft, so that two saves can overlap and a reopened session can be closed again |
| `action_log` | `OnlyAgentChangesUnreviewed`, `QuietMeansExact` | two regions with two contents, an agent edit with its two announcements, one user edit, two reviews: a keep, a user edit and an agent edit can meet one update in flight; symmetric in the regions; no formatter |
| `action_log_format` | `AnnouncedEditsReviewed` | the same regions and reviews with a formatter: two edits of the agent, or one and one of the formatter, which stands where the user's edit did |
| `action_log_claim_delete` | `DeletedOnlyIfAgentsOwn`, violated | one edit each, one review |

The properties are conditional where the code's promise is. `PatientHistory` holds for an owner
that lets a turn settle (what a compaction does to it is left to the theorem); the findings below say what an impatient one can see. `PromptsSerialized` excuses turns started right after a stop: the
view does not wait for the task of the stop, and neither does the new turn.
`OwnCheckpoints` excuses a message that was removed while git was working.
`NothingLost` and `ClosedIsSaved` excuse the three `faults` and speak neither of an empty thread nor of what is still streamed; `AnnouncedEditsReviewed` excuses a keep that met an update in flight and
what the log has `taken`,
`ImplementsChannels` and `EventuallyHandled` a spoiled direction, `SilenceNoticedWhileArmed` an unarmed timer: in each case the
excuse names the exact event, and the state without the excuse is reachable and violates the property.

Deadlock is not checked: a system in which nothing is running and whose
user does nothing more is a normal end, and so is a run at its bounds.

### Fairness

- agent thread: the foreground executor polls every task that is ready (weak fairness of
  each turn's task steps), providers end their streams and answer requests, timers fire, and a tool
  whose input is complete or closed returns. Nothing is assumed of the user, nor of
  a provider's events. `TurnsEnd` needs the model to ask for finitely many tool uses, which the bound on
  `Tools` gives: a model that calls tools for ever keeps its turn for ever.
- watch channel: `send` finishes once it holds the lock; an executor polls a future that is new or
  woken. A parked future that nobody wakes need not be polled.
- ACP thread: tasks that are ready run, git answers, the agent answers a prompt unless it waits
  for the user. `TurnsSettle` therefore allows a turn to stay while a tool call waits for permission.
- sessions: the load task and the database's threads run. Nothing is assumed of clients.
- remote channel: receive loops and `resync` run, and a lost connection is replaced (the remote client's job); losing
  one is bounded, not fair. `EventuallyHandled` is about what happens after the last loss.
- remote client: tasks run, timers fire, and killing, connecting and resyncing end one way or the other (each has
  a timeout or an exit). Nothing is assumed of the network or of calls.

## Findings

`action_log_claim_delete` checks what a comment says and is expected to be violated (`PROJECT.json` quotes the line): a file the agent created is
deleted by a reject "only [...] if we're certain it contains only AI content". The version that is compared was stored at the
agent's last read or edit, so a user's edit before that is not seen, and the file goes with the user's text. The shortest
behaviour has one edit of each, a read and a reject; the tool's own last announcement does as well as the read.

Other disagreements and risks met while modelling. They are reachable in the models; the properties are stated so as to say what holds in spite of them.

Agent thread
- The cancel task of an old turn flushes the new turn's half-streamed message (`thread.rs:1671`), the race the comment at 2023 means to avoid:
  the flush at the start of `run_turn` does not help when the old task ends later.
- A cancelled turn that is still streaming writes and is flushed after `truncate` (comment at `thread.rs:1830`).
- A `StartMessage` after a tool use (`thread.rs:2389`) stores the use as cancelled although its tool runs on; the result is stored with a message that has no such use, where the next request does not expect it.
- A refused prompt stays in the history if a compaction ended during its turn, or if it was sent over a pending message:
  `message_ix` (`thread.rs:2031`) then points elsewhere.
- "Retry all other 4xx and 5xx errors once." (`thread.rs:3310`) stands above three attempts, "Conservatively assume that any
  other errors are non-retryable" (`thread.rs:3323`) above two.

ACP thread
- A turn cancelled while it waits for git prompts the agent afterwards (`acp_thread.rs:2236`; the comment at 2452 says that restoring a checkpoint
  cancels any in-progress generation).
- A refusal handled late removes the next turn's prompt (`acp_thread.rs:2370`); a cancelled response handled late marks the next turn's tool
  calls as canceled (`acp_thread.rs:2338`, against the doc comment at 586).

Sessions
- A view that resets closes its session in a detached task and opens it again (`conversation_view.rs:731`): the row may be read before the closing save is written,
  and the reopened thread lacks the last changes. Its next save then overwrites them.
- A session that is closed while the agent answers loses what was streamed since the last flush: `to_db` (`thread.rs:1373`) copies the messages and not `pending_message`, and `close_session` neither flushes nor cancels.
- A thread that was truncated to nothing is not saved (`agent.rs:1065`): its row keeps the old messages, and the next load shows them.
- A summary that fails (`agent.rs:1026`) and a view that goes away while loading never give back their reference: the session stays loaded.
- Two saves of one thread run on different threads of the database's executor; the older may be written last. A failed save is logged and not repeated.

Action log
- A keep that arrives while the diff task is between its awaits is overwritten by the base the task had copied (`action_log.rs:332`, 523): the hunk comes back. For a created file
  the status has changed to modified by then, so a later reject empties the file.
- What a formatter changes on behalf of a tool (`edit_file_tool.rs:432`) is queued as the user's: outside the agent's hunks it gets into the base and is never reviewed.
- An edit announced for a buffer that is no longer tracked (after a reject, or when the file was deleted) makes the agent's text the new base: it is never
  reviewed. `undo_last_reject` takes this path for a created file; on a tracked buffer its text is queued as the user's, so the restored change is not offered for review either.
- `buffer_created` on a tracked buffer drops the queue, so a user's edit that was not applied yet is missing from the content a reject restores.

Remote
- A heartbeat answered when none was missed continues past the reset of the keepalive timer (`remote_client.rs:784`, 796). The loop then waits for incoming bytes only; a link
  that is silent from then on is not noticed until the process ends.
- If the proxy ends between the answer to `resync` (or to the first ping) and the installation of the new state, its monitor finds a state that
  does not allow reconnecting and gives up; the client is then Connected over a dead proxy, and its heartbeat has stopped with the closed activity channel.
- `force_heartbeat_timeout` takes the state before it looks at it, so outside Connected the client is left without a state (`remote_client.rs:1028`); `handle_heartbeat_result` panics
  when a heartbeat ends in the 50 ms after `shutdown_processes`.
- Order can be violated after a reconnection, as described under `RemoteChannel`, and a message can then be released by the acknowledgement of a later one and be lost.

## Proofs

The theorems hold for every value of the constants that satisfies the named assumptions, which TLC evaluates on every run:
bounds are naturals; a sentinel (`None`, `NoConn`, `NoThread`, `Empty`) differs from the values it stands beside; alphabets are
subsets of the full ones; there are finitely many clients of a session and receivers of a channel; a buffer has
at least two regions; the limits of missed heartbeats and of reconnection attempts are positive; and for the watch channel the numbers of sends and of wakers are smaller than the counters' modulus, so that no counter
wraps. Every proof has the same form: an inductive invariant, a lemma for each action (or for the part of it
that disturbs the invariant), and the property as a consequence.

`AgentThreadProofs`
- `TypeCorrect`: one lemma per operator that builds messages, tools or locals, then one step per action.
- `ControlSafe`: `ControlInv` is inductive relative to `TypeOK`. `SingleLiveTurn`, `OneTerminalEvent` and
  `PendingHasOwner` are not inductive alone. They need that turn ids are used in order (a new turn's
  stream is empty), that only started turns are cancelled, and that a cancelled turn which is still alive has a
  cancel task: that task is the owner of what the turn may still write. Most actions only move one live turn, which
  `ControlMove` covers; starting, cancelling and ending a turn have lemmas of their own.
- `SingleLiveTurnSafe`, `OneTerminalEventSafe`, `PendingHasOwnerSafe` follow.
- `ToolInputsClosedSafe`: inductive with `WaitingHaveSenders`: a tool that still waits for input has its sender in
  the running turn's map, also when the tool belongs to a cancelled turn. So emptying the map unblocks the tools of any turn.

`AgentHistoryProofs`
- `UserTitleSafe`: while the title is the user's and a title is being generated, the user was the one who asked for it.
- `CompactionSafe`: `CompactionPrefixStable` is inductive with `TurnsAfterCompaction`: the message index which the running
  turn computed at its start is behind the last compaction, so that what a refusal truncates is too.
- `PatientHistorySafe`: `PatientInv`. As long as nobody acted while a cancelled turn was not over (`impatient`), only the last turn is alive or waited for (`OnlyLastTurn`, with `WaitersCancelled`);
  the pending message is its own (`PendingIsOwn`) and its prompt is the last user message (`LastPrompted`); a use whose result is still to come is in the pending message, or was stored as cancelled by the same turn
  (`AllToolsPending`, `CutOff`), so that its result has a place; and every message in the history is complete (`AllComplete`). A compaction must not cut between a turn's prompt and its messages: `BoundaryIsPrompt`, part of
  `CompactionInv`, says that what follows its boundary is a prompt.

`WatchChannelProofs`
- `IInvHolds`: types, counters within their bounds (so they do not wrap), distinct waker ids, wakers in the map are those
  of futures without news, and `WakersExact`.
- `TypeCorrect`, `WakersExactHolds`; `NoLostWakeupHolds` and `VersionTellsValueHolds` are inductive relative to `IInv`.
- `ChannelImplementsRegister`: every step of the channel is a step of `WatchRegister` under the mapping, or leaves its
  variables unchanged. It needs `Bounded`: a new version differs from every version a receiver holds.

`AcpThreadProofs`
- `Invariance`: `IInv`, from which `TypeCorrect`, `StatusIsTruthful`, `PromptsAreSerialized` and `CheckpointsAreOwn` follow.
- `StatusTruthful` needs `ResponsesThere`: a send task that is over has left a response for the handler of the running turn.
- `PromptsSerialized` needs `Chain`: while a send task is not over, every turn after it, up to a rushed one, waits for the turn just before it.
- `OwnCheckpoints` needs `MessagesPushed` and `LastMessage`: while no turn was rushed, the message of a turn that waits for its checkpoint is the last one,
  which is the one `last_user_message` finds.

`AgentSessionsProofs`
- `ReferencesAreExact`: inductive with `LoadPlace`: a load under way and a session exclude each other, and a load that has registered its session still has a
  client that waits for it or one that left. The counts are cardinalities of sets of clients; joining and leaving change them by one.
- `ChangesAreKept`: `AllChanges` says where the content after the last change is, unless a fault was met: in the session, in the row that was just read, in the save
  of the closed session, in the only write under way, or in the row. The content of a thread that was emptied is only in its session.

`ActionLogProofs`
- `Invariance`: `IInv`. Of the tracked buffer it says: the text last queued is the buffer's, and outside the
  unreviewed hunks the base is the snapshot (`Sound`); the hunks are the differences (`Diffed`); unless a keep arrived while an update was in flight, what is in the base, or will get there, is
  `Allowed`: `accepted`, or `taken` (`Sourced`). The saved undo fits the texts it is applied to (`Fits`). There is a lemma for each operation of the log.
- `QuietIsExact` and `BaseIsReviewed` (`AnnouncedEditsReviewed`) follow.
- `Attribution`: `AttributionInv`, relative to `IInv`. `OnlyAgentChangesUnreviewed` speaks of a state without queued updates, so the invariant follows a region through the queue: a region that is not
  `touched` is changed by no queued entry of the agent, and the base agrees there with the text the queue starts from, or a queued entry brings back what the base holds (`Follows`). Empty texts, which are one hunk
  whatever the regions, and the update in flight have conjuncts of their own. `OnlyTheAgents` follows.
  The first attempt at this proof failed for a reason: with two agent edits, two user edits and two rejects, more than the run's bounds allowed, a reject of an emptied file cleared `touched` while an entry of the agent was
  queued, and the property was false. The code was not at fault; the history variable forgot the queued entry, which `AgentPending` and `Rejected` now keep.

`RemoteChannelProofs`
- `Invariance`: `IInv`. For each direction: the buffer is sorted, ids grow with the messages' numbers and are ones that were given out (`Numbered`), and so are the acknowledged ids (`AcksGiven`).
  Unless the direction is spoiled: everything on the wire is preceded there by the undelivered messages before it (`Ordered`), what was sent is delivered or kept (`Retained`), and an
  acknowledgement on its way covers only what was delivered (`AcksCover`). `Opening` says what a new connection starts with, `InFlight` that a settled end waits for nothing.
- `NothingWaits` is `SettledMeansUnderWay`.
- `HandoverHolds`: `Handover`, which follows a reconnection from the first lost connection to the second. Before any loss no direction is spoiled (`Fresh`). Up to the second loss every message that was sent is
  delivered, on the wire or buffered (`Accounted`). After the first loss, what reaches the server ahead of the client's flush acknowledges only what was delivered (`ServerAsked`, `FlushFirst`).
  For the client: until the server has read the flush, every acknowledgement that may reach the client covers only what was delivered (`Asking`); afterwards the answer is on the wire and this holds of
  what is ahead of it (`Answering`). An end that has handled the handshake is settled, and releases only what is under way (`InFlight`).
- `ReleasedSafely` is `ReleasedOnlyWhenDelivered`: `IInv` gives its first half (only a spoiled direction releases a message that was not delivered), `Handover` the second (such a
  message is still on the wire, unless the connection was lost twice).
- `Implementation`: each direction implements `ReliableChannel`. The attempt to prove it showed that an answer, too, can overtake a lost message: `Overtakes` in `RemoteChannel` counts answers for that reason.

`RemoteClientProofs`
- `Core`: which connection state goes with which progress of the task that builds a connection, that `attempts` and `tries` agree while
  a client reconnects (`StateMatches`), who holds a connection (`ConnsMatch`), and types. The history flags are kept apart; `StepFlags` says in which of four ways a step may change them
  (`KeepsFlags`, `Reconnects`, `Panics`, `Installs`).
- `TypeCorrect`, `ReconnectsApart`, `PanicConfined` and `AttemptsUsedUp` follow, and `StaysDisconnected` is an action property of the same invariant.

Every invariant of the passing runs, and every action property, is stated by a theorem. Only model-checked is liveness (`TurnsEnd`, `PendingSettles`, `NewsDelivered`, `TurnsSettle`, `EventuallyHandled`, `ReconnectingEnds`,
`SilenceNoticedWhileArmed`, `ClosedIsSaved`, `OpensSettle`), which is out of the prover's reach.

No theorem needs induction over data: where a smallest or a largest element is wanted, it is taken from the well-foundedness of the naturals.

## Not modelled

Rendering, layout and input (`editor`, `gpui`, the `*_ui` crates), languages, themes, settings; language servers, worktrees and git, which
orchestrate external processes; providers' wire formats. These are most of the repository's lines and hold little state whose interleavings a model could explore; the models
cover the agent, its review and persistence, and the remote connection.

Subagents and the thread summary are the parts of `thread.rs` with state of their own that are missing, the message queue that of the thread view.
The context server client matches requests and answers by id as `ChannelClient` does, without a buffer; the RPC peer is the same
protocol over a websocket; `sqlez` serialises writes in one queue. `ToolPermissions` is a pure decision whose difficulty is in its regular expressions, which a model would
leave out. The text CRDT needs anchors, fragments and an undo map before anything can be said, and is beyond a small instance.

## Plan

1. Done: `AgentThread`, `WatchRegister`, `WatchChannel`, `AcpThread`, their runs, and the proofs above.
2. Done: `ReliableChannel`, `RemoteChannel` and `RemoteClient`; `AgentSessions`; `ActionLog`.
3. Done: the proofs of every safety property of every module.
4. The rest of `thread.rs`: subagents, `summary()`; the message queue of the view: a queued message is sent exactly once.
5. `ContextServerClient`: request ids, timeouts and cancellations against late answers.
