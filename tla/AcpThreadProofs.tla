-------------------------- MODULE AcpThreadProofs --------------------------
(***************************************************************************)
(* Invariants of AcpThread for every number of turns, tool calls and       *)
(* operations of the user.                                                 *)
(***************************************************************************)
EXTENDS AcpThread, SequenceTheorems, WellFoundedInduction, TLAPS

\* A turn has tasks exactly when it was started, and only started turns were
\* cancelled or are kept by the view
OnlyStarted ==
  /\ \A t \in Turns : send[t] = "idle" <=> t > turnId
  /\ \A t \in Turns : handler[t] = "idle" <=> t > turnId
  /\ hist.cancelled \subseteq 1..turnId
  /\ slot # None => slot <= turnId

\* The handler of the running turn will find a response
ResponsesThere ==
  \A t \in Turns :
    /\ send[t] = "done" /\ handler[t] # "done" => response[t] # None
    /\ send[t] = "dropped" => running # t
    /\ handler[t] \in {"comparing", "finishing"} => Finished(t)

\* While a send_task is not over, the turns after it up to a rushed one wait,
\* each for the turn before it
Unrushed(t, u) == \A s \in t + 1..u : s \notin hist.rushed
Chain ==
  \A t, u \in Turns :
    t < u /\ u <= turnId /\ ~Finished(t) /\ Unrushed(t, u)
      => send[u] = "waiting" /\ awaits[u] = u - 1

\* A message and a checkpoint are there only after their turn has pushed its
\* message; and while no turn was rushed the message of a turn that waits for
\* its checkpoint is the last one
Pushed(t) == send[t] \notin {"idle", "waiting"}
MessagesPushed ==
  \A i \in UserIndices(entries) :
    /\ Pushed(entries[i].id)
    /\ entries[i].taken # None => Pushed(entries[i].taken)
LastMessage ==
  hist.rushed = {} =>
    \A t \in Turns : send[t] = "checkpoint" =>
      \A i, j \in UserIndices(entries) : entries[i].id = t => j <= i

\* The inductive invariant
IInv == /\ TypeOK /\ OnlyStarted /\ ResponsesThere /\ Chain /\ MessagesPushed /\ LastMessage
        /\ StatusTruthful /\ OwnCheckpoints

-----------------------------------------------------------------------------
\* A non-empty set of naturals has a least member
LEMMA LeastExists ==
  ASSUME NEW T, T \subseteq Nat, T # {}
  PROVE  \E x \in T : \A y \in T : x <= y
<1>1. PICK x \in T : \A y \in T : <<y, x>> \notin OpToRel(<, Nat)
  BY NatLessThanWellFounded, WFMin
<1>2. \A a, b \in Nat : a < b => <<a, b>> \in OpToRel(<, Nat)
  BY Zenon DEF OpToRel
<1>3. \A y \in T : ~(y < x) /\ x \in Nat /\ y \in Nat
  BY <1>1, <1>2, Zenon
<1> QED
  BY <1>3

\* last_user_message finds the last of the user messages
LEMMA LastUserLast ==
  ASSUME NEW es \in Seq(Entry), UserIndices(es) # {}
  PROVE  /\ LastUser(es) \in UserIndices(es)
         /\ \A j \in UserIndices(es) : j <= LastUser(es)
<1> DEFINE n == Len(es)
           T == UserIndices(es)
           U == {k \in Nat : n - k \in T}
<1>1. n \in Nat /\ T \subseteq 1..n
  BY DEF UserIndices
<1>2. \A y \in T : n - y \in Nat /\ n - (n - y) = y
  BY <1>1
<1>3. U \subseteq Nat /\ U # {}
  BY <1>2
<1>4. PICK u \in U : \A v \in U : u <= v
  BY <1>3, LeastExists
<1>5. \A y \in T : u <= n - y
  BY <1>2, <1>4
<1>6. \E x \in T : \A y \in T : y <= x
  BY <1>1, <1>4, <1>5
<1> QED
  BY <1>6 DEF LastUser

\* User messages have the fields of a user message
LEMMA UserEntryAt ==
  ASSUME NEW es \in Seq(Entry), NEW i \in UserIndices(es)
  PROVE  i \in 1..Len(es) /\ es[i] \in UserEntry
BY DEF UserIndices, Entry, UserEntry, ToolEntry

\* fs has no user messages but those of es: steps on tool calls, on visibility
\* of checkpoints, and steps that remove entries
Derived(es, fs) ==
  /\ fs \in Seq(Entry)
  /\ \A i \in UserIndices(fs) : /\ i \in UserIndices(es)
                                /\ fs[i].id = es[i].id /\ fs[i].taken = es[i].taken

\* mark_pending_tools_as_canceled
LEMMA MarkCanceledDerived ==
  ASSUME NEW es \in Seq(Entry)
  PROVE  Derived(es, MarkCanceled(es))
<1> DEFINE fs == MarkCanceled(es)
<1>1. \A i \in 1..Len(es) : fs[i] \in Entry /\ (fs[i].kind = "user" => fs[i] = es[i])
  <2> TAKE i \in 1..Len(es)
  <2>1. es[i] \in Entry
    OBVIOUS
  <2>2. CASE es[i].kind = "tool"
    BY <2>1, <2>2 DEF MarkCanceled, Entry, UserEntry, ToolEntry, Statuses
  <2>3. CASE es[i].kind # "tool"
    BY <2>1, <2>3 DEF MarkCanceled
  <2> QED
    BY <2>2, <2>3
<1>2. fs \in [1..Len(es) -> Entry] /\ Len(es) \in Nat
  BY <1>1 DEF MarkCanceled
<1>3. fs \in Seq(Entry) /\ Len(fs) = Len(es)
  BY <1>2
<1> HIDE DEF fs
<1>4. Derived(es, fs)
  BY <1>1, <1>3 DEF Derived, UserIndices
<1> QED
  BY <1>4 DEF fs

\* Entries that are replaced one by one, and stay what they are where they are
\* user messages
LEMMA MapDerived ==
  ASSUME NEW es \in Seq(Entry), NEW fs \in [1..Len(es) -> Entry],
         \A i \in 1..Len(es) : fs[i].kind = "user" =>
           es[i].kind = "user" /\ fs[i].id = es[i].id /\ fs[i].taken = es[i].taken
  PROVE  Derived(es, fs)
<1>1. fs \in Seq(Entry) /\ Len(fs) = Len(es)
  OBVIOUS
<1> QED
  BY <1>1 DEF Derived, UserIndices

\* A prefix, as rewind and a refusal leave it
LEMMA PrefixDerived ==
  ASSUME NEW es \in Seq(Entry), NEW n \in 0..Len(es)
  PROVE  Derived(es, SubSeq(es, 1, n))
<1> DEFINE fs == SubSeq(es, 1, n)
<1>1. \A i \in 1..n : es[i] \in Entry
  OBVIOUS
<1>2. fs \in Seq(Entry) /\ Len(fs) = n /\ \A i \in 1..n : fs[i] = es[i]
  BY <1>1, SubSeqProperties
<1> HIDE DEF fs
<1>3. Derived(es, fs)
  BY <1>2 DEF Derived, UserIndices
<1> QED
  BY <1>3 DEF fs

\* A new tool call
LEMMA AppendDerived ==
  ASSUME NEW es \in Seq(Entry), NEW e \in ToolEntry
  PROVE  Derived(es, Append(es, e))
<1> DEFINE fs == Append(es, e)
<1>1. e \in Entry /\ e.kind = "tool"
  BY DEF Entry, ToolEntry
<1>2. /\ fs \in Seq(Entry) /\ Len(fs) = Len(es) + 1 /\ fs[Len(es) + 1] = e
      /\ \A i \in 1..Len(es) : fs[i] = es[i]
  BY <1>1, AppendProperties
<1> HIDE DEF fs
<1>3. Derived(es, fs)
  BY <1>1, <1>2 DEF Derived, UserIndices
<1> QED
  BY <1>3 DEF fs

\* upsert_tool_call_inner and update_tool_call on a known call
LEMMA SetCallDerived ==
  ASSUME entries \in Seq(Entry), NEW c, NEW status \in Statuses, NEW output \in BOOLEAN
  PROVE  Derived(entries, SetCall(c, status, output))
<1> DEFINE fs == SetCall(c, status, output)
<1>1. ASSUME NEW i \in 1..Len(entries)
      PROVE  /\ fs[i] \in Entry
             /\ fs[i].kind = "user" => fs[i] = entries[i]
  <2>1. entries[i] \in Entry
    OBVIOUS
  <2>2. CASE i \in CallAt(entries, c)
    <3>1. entries[i] \in ToolEntry
      BY <2>1, <2>2 DEF CallAt, Entry, UserEntry
    <3>2. fs[i] = [entries[i] EXCEPT !.status = status, !.output = entries[i].output \/ output]
      BY <2>2 DEF SetCall
    <3>3. fs[i] \in ToolEntry
      <4> DEFINE b == entries[i].output \/ output
      <4>1. b \in BOOLEAN
        OBVIOUS
      <4> HIDE DEF b
      <4>2. [entries[i] EXCEPT !.status = status, !.output = b] \in ToolEntry
        BY <3>1, <4>1 DEF ToolEntry
      <4> QED
        BY <3>2, <4>2 DEF b
    <3> QED
      BY <3>3 DEF ToolEntry, Entry
  <2>3. CASE i \notin CallAt(entries, c)
    BY <2>1, <2>3 DEF SetCall
  <2> QED
    BY <2>2, <2>3
<1>2. fs \in [1..Len(entries) -> Entry]
  BY <1>1 DEF SetCall
<1> HIDE DEF fs
<1>3. Derived(entries, fs)
  BY <1>1, <1>2, MapDerived
<1> QED
  BY <1>3 DEF fs

\* A refusal
LEMMA AfterRefusalDerived ==
  ASSUME NEW es \in Seq(Entry)
  PROVE  Derived(es, AfterRefusal(es))
<1>1. CASE AfterRefusal(es) = es
  BY <1>1 DEF Derived
<1>2. CASE AfterRefusal(es) # es
  <2>1. UserIndices(es) # {} /\ AfterRefusal(es) = SubSeq(es, 1, LastUser(es) - 1)
    BY <1>2 DEF AfterRefusal
  <2>2. LastUser(es) - 1 \in 0..Len(es)
    BY <2>1, LastUserLast DEF UserIndices
  <2> QED
    BY <2>1, <2>2, PrefixDerived
<1> QED
  BY <1>1, <1>2

-----------------------------------------------------------------------------
\* What a step must do for the parts of the invariant about messages to hold
\* after it
LEMMA MessagesKept ==
  ASSUME TypeOK, MessagesPushed, LastMessage, OwnCheckpoints, Derived(entries, entries'),
         \A t \in Turns : Pushed(t) => Pushed(t)',
         \A t \in Turns : send'[t] = "checkpoint" => send[t] = "checkpoint",
         hist.rushed \subseteq hist'.rushed
  PROVE  MessagesPushed' /\ LastMessage' /\ OwnCheckpoints'
<1>1. ASSUME NEW i \in UserIndices(entries')
      PROVE  /\ i \in UserIndices(entries) /\ entries'[i].id = entries[i].id
             /\ entries'[i].taken = entries[i].taken
             /\ entries[i].id \in Turns /\ entries[i].taken \in Turns \cup {None}
  <2>1. i \in UserIndices(entries) /\ entries \in Seq(Entry)
    BY <1>1 DEF Derived, TypeOK
  <2>2. entries[i] \in UserEntry
    BY <2>1, UserEntryAt
  <2> QED
    BY <1>1, <2>1, <2>2 DEF Derived, UserEntry
<1>2. MessagesPushed'
  BY <1>1 DEF MessagesPushed
<1>3. LastMessage'
  BY <1>1 DEF LastMessage
<1>4. ASSUME NEW k PROVE UserAt(entries', k) \subseteq UserAt(entries, k)
  BY <1>1 DEF UserAt
<1>5. OwnCheckpoints'
  BY <1>1, <1>4 DEF OwnCheckpoints
<1> QED
  BY <1>2, <1>3, <1>5

\* Chain survives steps that start no turn and take nothing from waiting tasks
LEMMA ChainKept ==
  ASSUME Chain, turnId' = turnId, hist'.rushed = hist.rushed,
         \A t \in Turns : Finished(t) => Finished(t)',
         \A t \in Turns : send[t] = "waiting" => send'[t] = "waiting" /\ awaits'[t] = awaits[t]
  PROVE  Chain'
BY DEF Chain, Unrushed

\* Steps that touch neither the turns nor their tasks
LEMMA TurnsUntouched ==
  ASSUME IInv, UNCHANGED <<turnVars, taskVars, slot>>, Derived(entries, entries'),
         hist' \in History, hist'.cancelled = hist.cancelled, hist'.rushed = hist.rushed,
         told' \in SUBSET Turns, rewinding' \in SUBSET Turns
  PROVE  IInv'
<1>1. TypeOK'
  BY DEF IInv, TypeOK, Derived, turnVars, taskVars
<1>2. OnlyStarted' /\ ResponsesThere' /\ StatusTruthful' /\ Chain'
  BY DEF IInv, OnlyStarted, ResponsesThere, StatusTruthful, Chain, Unrushed, Finished, turnVars, taskVars
<1>3. MessagesPushed' /\ LastMessage' /\ OwnCheckpoints'
  BY MessagesKept DEF IInv, Pushed, taskVars
<1> QED
  BY <1>1, <1>2, <1>3 DEF IInv

\* The history record after a rewind, or after a cancel
LEMMA HistoryCounts ==
  ASSUME hist \in History, running \in Turns \cup {None}
  PROVE  /\ NoteCancelled \in History
         /\ NoteCancelled.cancelled = hist.cancelled \cup ({running} \ {None})
         /\ NoteCancelled.rushed = hist.rushed
         /\ NoteCancelled.cancels = hist.cancels /\ NoteCancelled.rewinds = hist.rewinds
BY DEF History, NoteCancelled

\* Counting a rewind changes nothing else of the history
LEMMA CountRewind ==
  ASSUME NEW h \in History, h.rewinds < MaxRewinds, NEW g, g = [h EXCEPT !.rewinds = @ + 1]
  PROVE  g \in History /\ g.cancelled = h.cancelled /\ g.rushed = h.rushed
BY AcpAssumption DEF History

\* Nor does counting a cancel
LEMMA CountCancel ==
  ASSUME NEW h \in History, h.cancels < MaxCancels, NEW g, g = [h EXCEPT !.cancels = @ + 1]
  PROVE  g \in History /\ g.cancelled = h.cancelled /\ g.rushed = h.rushed
BY AcpAssumption DEF History

-----------------------------------------------------------------------------
\* The agent's reports on tool calls
LEMMA AgentStepInv ==
  ASSUME IInv, NEW t \in Turns, AgentStep(t)
  PROVE  IInv'
<1>1. /\ UNCHANGED <<turnVars, taskVars, told, slot, rewinding, hist>>
      /\ \E c \in Calls, status \in Statuses, output \in BOOLEAN :
           entries' \in {SetCall(c, status, output), Append(entries, NewCall(c, status, output, t))}
  BY DEF AgentStep, RequestToolCallAuthorization, UpsertToolCall, UpdateToolCall, AgentStatuses,
         Statuses, Outputs
<1>2. PICK c \in Calls, status \in Statuses, output \in BOOLEAN :
        entries' \in {SetCall(c, status, output), Append(entries, NewCall(c, status, output, t))}
  BY <1>1
<1>3. entries \in Seq(Entry)
  BY DEF IInv, TypeOK
<1>4. NewCall(c, status, output, t) \in ToolEntry
  BY DEF NewCall, ToolEntry
<1>5. Derived(entries, entries')
  BY <1>2, <1>3, <1>4, SetCallDerived, AppendDerived
<1> QED
  BY <1>1, <1>5, TurnsUntouched DEF IInv, TypeOK

\* authorize_tool_call
LEMMA AuthorizeInv ==
  ASSUME IInv, NEW c \in Calls, NEW allow \in BOOLEAN, AuthorizeToolCall(c, allow)
  PROVE  IInv'
<1> DEFINE st == IF allow THEN "in_progress" ELSE "rejected"
<1>1. PICK i \in CallAt(entries, c) : entries' = [entries EXCEPT ![i].status = st]
  BY DEF AuthorizeToolCall
<1>2. /\ entries \in Seq(Entry) /\ i \in 1..Len(entries) /\ entries[i] \in ToolEntry
  BY <1>1 DEF IInv, TypeOK, CallAt, Entry, UserEntry
<1>3. st \in Statuses
  BY DEF Statuses
<1> HIDE DEF st
<1> DEFINE e == [entries[i] EXCEPT !.status = st]
<1>4. e \in ToolEntry /\ e.kind = "tool"
  BY <1>2, <1>3 DEF ToolEntry
<1>5. entries' = [entries EXCEPT ![i] = e]
  BY <1>1, <1>2
<1> HIDE DEF e
<1>6. /\ entries' \in [1..Len(entries) -> Entry] /\ entries'[i] = e
      /\ \A j \in 1..Len(entries) : j # i => entries'[j] = entries[j]
  BY <1>2, <1>4, <1>5 DEF Entry
<1>7. Derived(entries, entries')
  BY <1>2, <1>4, <1>6, MapDerived
<1> QED
  BY <1>7, TurnsUntouched DEF AuthorizeToolCall, IInv, TypeOK

\* rewind and its task
LEMMA RewindInv ==
  ASSUME IInv, NEW id \in Turns, Rewind(id) \/ \E ok \in BOOLEAN : RewindRuns(id, ok)
  PROVE  IInv'
<1>1. entries \in Seq(Entry) /\ Derived(entries, entries)
  BY DEF IInv, TypeOK, Derived
<1>2. CASE Rewind(id)
  <2>1. /\ hist' \in History /\ hist'.cancelled = hist.cancelled
        /\ hist'.rushed = hist.rushed
    BY <1>2, CountRewind DEF Rewind, IInv, TypeOK
  <2> QED
    BY <1>1, <1>2, <2>1, TurnsUntouched DEF Rewind, IInv, TypeOK
<1>3. ASSUME NEW ok \in BOOLEAN, RewindRuns(id, ok)
      PROVE  IInv'
  <2> DEFINE at == UserAt(entries, id)
             i == CHOOSE i \in at : TRUE
  <2>1. CASE ok /\ at # {}
    <3>1. i \in 1..Len(entries)
      BY <2>1 DEF UserAt, UserIndices
    <3>2. entries' = SubSeq(entries, 1, i - 1)
      BY <1>3, <2>1 DEF RewindRuns
    <3> HIDE DEF i
    <3>3. i - 1 \in 0..Len(entries)
      BY <1>1, <3>1
    <3>4. Derived(entries, entries')
      BY <1>1, <3>2, <3>3, PrefixDerived
    <3> QED
      BY <1>3, <3>4, TurnsUntouched DEF RewindRuns, IInv, TypeOK
  <2>2. CASE ~(ok /\ at # {})
    <3>1. entries' = entries
      BY <1>3, <2>2 DEF RewindRuns
    <3> QED
      BY <1>1, <1>3, <3>1, TurnsUntouched DEF RewindRuns, IInv, TypeOK
  <2> QED
    BY <2>1, <2>2
<1> QED
  BY <1>2, <1>3

\* What cancel does to the messages
LEMMA CanceledDerived ==
  ASSUME TypeOK
  PROVE  Derived(entries, CanceledEntries)
<1>1. entries \in Seq(Entry)
  BY DEF TypeOK
<1>2. Derived(entries, entries)
  BY <1>1 DEF Derived
<1> QED
  BY <1>1, <1>2, MarkCanceledDerived DEF CanceledEntries

\* cancel, whether or not its task is kept: the turn that was running counts as
\* cancelled, and some send_tasks that it is not may be dropped
LEMMA CancelInv ==
  ASSUME IInv, running' = None, entries' = CanceledEntries, TellAgent,
         hist' \in History, hist'.cancelled = hist.cancelled \cup ({running} \ {None}),
         hist'.rushed = hist.rushed, slot' \in {slot, running}, rewinding' \in SUBSET Turns,
         UNCHANGED <<turnId, hadError, awaits, handler, target, response, resend>>,
         NEW D \in SUBSET Turns,
         send' = [t \in Turns |-> IF t \in D THEN "dropped" ELSE send[t]],
         \A t \in D : send[t] # "idle",
         \A u \in D : \A t \in Turns :
           t < u /\ u <= turnId /\ ~Finished(t) /\ Unrushed(t, u) => t \in D
  PROVE  IInv'
<1>1. /\ \A t \in D : send'[t] = "dropped"
      /\ \A t \in Turns : t \notin D => send'[t] = send[t]
  OBVIOUS
<1>2. Derived(entries, entries')
  BY CanceledDerived DEF IInv
<1>3. TypeOK'
  <2>1. send' \in [Turns -> SendStages]
    BY DEF IInv, TypeOK, SendStages
  <2>2. told' \in SUBSET Turns
    BY DEF IInv, TypeOK, TellAgent
  <2> QED
    BY <1>2, <2>1, <2>2 DEF IInv, TypeOK, Derived
<1>4. OnlyStarted'
  <2>1. running \in {turnId, None} /\ (running # None => turnId > 0)
    BY DEF IInv, StatusTruthful
  <2>2. hist'.cancelled \subseteq 1..turnId
    BY <2>1 DEF IInv, OnlyStarted, TypeOK
  <2>3. slot' # None => slot' <= turnId
    BY <2>1 DEF IInv, OnlyStarted, TypeOK
  <2> QED
    BY <1>1, <2>2, <2>3 DEF IInv, OnlyStarted
<1>5. ResponsesThere'
  BY <1>1, AcpAssumption DEF IInv, ResponsesThere, Finished, Turns
<1>6. StatusTruthful'
  BY AcpAssumption DEF IInv, StatusTruthful, TypeOK, Turns
<1>7. Chain'
  <2> SUFFICES ASSUME NEW t \in Turns, NEW u \in Turns, t < u, u <= turnId, ~Finished(t)',
                      Unrushed(t, u)
               PROVE  send'[u] = "waiting" /\ awaits[u] = u - 1
    BY DEF Chain, Unrushed
  <2>1. t \notin D /\ ~Finished(t)
    BY <1>1 DEF Finished
  <2>2. send[u] = "waiting" /\ awaits[u] = u - 1
    BY <2>1 DEF IInv, Chain
  <2>3. u \notin D
    BY <2>1
  <2> QED
    BY <1>1, <2>2, <2>3
<1>8. MessagesPushed' /\ LastMessage' /\ OwnCheckpoints'
  BY <1>1, <1>2, MessagesKept DEF IInv, Pushed
<1> QED
  BY <1>3, <1>4, <1>5, <1>6, <1>7, <1>8 DEF IInv

\* The three callers of cancel that start no turn
LEMMA CancelsInv ==
  ASSUME IInv, \/ CancelGeneration \/ CancelDetached
               \/ \E id \in Turns : RestoreCheckpoint(id)
  PROVE  IInv'
<1>1. /\ hist \in History /\ NoteCancelled \in History /\ NoteCancelled.rushed = hist.rushed
      /\ NoteCancelled.cancelled = hist.cancelled \cup ({running} \ {None})
      /\ NoteCancelled.cancels = hist.cancels /\ NoteCancelled.rewinds = hist.rewinds
  BY HistoryCounts DEF IInv, TypeOK
<1>2. ASSUME running' = None, entries' = CanceledEntries, TellAgent,
             hist' \in History, hist'.cancelled = hist.cancelled \cup ({running} \ {None}),
             hist'.rushed = hist.rushed, rewinding' \in SUBSET Turns,
             UNCHANGED <<turnId, hadError, taskVars, slot>>
      PROVE  IInv'
  <2>1. send' = [t \in Turns |-> IF t \in {} THEN "dropped" ELSE send[t]]
    BY <1>2 DEF IInv, TypeOK, taskVars
  <2>2. {} \in SUBSET Turns
    OBVIOUS
  <2>3. UNCHANGED <<turnId, hadError, awaits, handler, target, response, resend>> /\ slot' \in {slot, running}
    BY <1>2 DEF taskVars
  <2> QED
    BY <1>2, <2>1, <2>2, <2>3, CancelInv
<1>3. CASE CancelDetached
  <2>1. hist' \in History /\ hist'.cancelled = NoteCancelled.cancelled /\ hist'.rushed = hist.rushed
    BY <1>1, <1>3, CountCancel DEF CancelDetached
  <2> QED
    BY <1>1, <1>2, <1>3, <2>1 DEF CancelDetached, IInv, TypeOK
<1>4. ASSUME NEW id \in Turns, RestoreCheckpoint(id)
      PROVE  IInv'
  <2>1. hist' \in History /\ hist'.cancelled = NoteCancelled.cancelled /\ hist'.rushed = hist.rushed
    BY <1>1, <1>4, CountRewind DEF RestoreCheckpoint
  <2> QED
    BY <1>1, <1>2, <1>4, <2>1 DEF RestoreCheckpoint, IInv, TypeOK
<1>5. CASE CancelGeneration
  <2> DEFINE D == DroppedWith(slot)
  <2>1. hist' \in History /\ hist'.cancelled = NoteCancelled.cancelled /\ hist'.rushed = hist.rushed
    BY <1>1, <1>5, CountCancel DEF CancelGeneration
  <2>2. slot \in Turns \cup {None} /\ running \in Turns \cup {None} /\ turnId \in 0..MaxTurns
    BY DEF IInv, TypeOK
  <2>3. D \in SUBSET Turns
    BY <2>2, AcpAssumption DEF DroppedWith, Turns
  <2>4. ASSUME NEW u \in D, NEW t \in Turns, t < u, u <= turnId, ~Finished(t), Unrushed(t, u)
        PROVE  t \in D
    <3>1. slot \in Turns /\ u \in 1..slot /\ \A v \in u + 1..slot : send[v] = "waiting" /\ awaits[v] = v - 1
      BY <2>2 DEF DroppedWith
    <3>2. ASSUME NEW v \in t + 1..u PROVE send[v] = "waiting" /\ awaits[v] = v - 1
      <4>1. v \in Turns /\ t < v /\ v <= turnId /\ Unrushed(t, v)
        BY <2>2, <2>3, <2>4, AcpAssumption DEF Turns, Unrushed
      <4> QED
        BY <2>4, <4>1 DEF IInv, Chain
    <3>3. \A v \in t + 1..slot : v \in t + 1..u \/ v \in u + 1..slot
      BY <2>3, <3>1 DEF Turns
    <3>4. t \in 1..slot
      BY <2>3, <2>4, <3>1 DEF Turns
    <3>5. slot # None
      BY <3>1, AcpAssumption DEF Turns
    <3> QED
      BY <2>4, <3>1, <3>2, <3>3, <3>4, <3>5 DEF DroppedWith
  <2>5. ASSUME NEW t \in D PROVE send[t] # "idle"
    <3>1. slot # None /\ t \in 1..slot
      BY DEF DroppedWith
    <3>2. slot \in 1..turnId
      BY <2>2, <3>1 DEF IInv, OnlyStarted, Turns
    <3> QED
      BY <2>2, <2>3, <3>1, <3>2 DEF IInv, OnlyStarted, Turns
  <2>6. send' = [t \in Turns |-> IF t \in D THEN "dropped" ELSE send[t]] /\ slot' \in {slot, running}
    BY <1>5 DEF CancelGeneration
  <2> HIDE DEF D
  <2> QED
    BY <1>1, <1>5, <2>1, <2>3, <2>4, <2>5, <2>6, CancelInv DEF CancelGeneration, IInv, TypeOK
<1> QED
  BY <1>3, <1>4, <1>5

-----------------------------------------------------------------------------
\* run_turn: the new turn waits for the one before it, or is rushed
LEMMA RunTurnInv ==
  ASSUME IInv, NEW again \in BOOLEAN, RunTurn(again)
  PROVE  IInv'
<1> DEFINE u == turnId + 1
<1>1. /\ turnId \in 0..MaxTurns /\ u \in Turns /\ u \in Nat
      /\ turnId' = u /\ running' = u
  BY AcpAssumption DEF IInv, TypeOK, Turns, RunTurn
<1>2. /\ send' = [send EXCEPT ![u] = "waiting"] /\ awaits' = [awaits EXCEPT ![u] = running]
      /\ handler' = [handler EXCEPT ![u] = "waiting"]
  BY DEF RunTurn, CancelTask
<1>3. /\ send \in [Turns -> SendStages] /\ awaits \in [Turns -> Turns \cup {None}]
      /\ handler \in [Turns -> HandlerStages] /\ running \in Turns \cup {None}
  BY DEF IInv, TypeOK
<1>4. /\ send'[u] = "waiting" /\ awaits'[u] = running /\ handler'[u] = "waiting"
      /\ \A t \in Turns : t # u => /\ send'[t] = send[t] /\ awaits'[t] = awaits[t]
                                  /\ handler'[t] = handler[t]
  BY <1>1, <1>2, <1>3
<1>5. /\ NoteCancelled \in History /\ NoteCancelled.rushed = hist.rushed
      /\ NoteCancelled.cancelled = hist.cancelled \cup ({running} \ {None})
  BY HistoryCounts DEF IInv, TypeOK
<1> DEFINE r == IF running = None /\ \E s \in 1..turnId : ~Finished(s)
                THEN hist.rushed \cup {u} ELSE hist.rushed
<1>6. hist' = [NoteCancelled EXCEPT !.rushed = r]
  BY <1>5 DEF RunTurn
<1>7. r \in SUBSET Turns
  BY <1>1 DEF IInv, TypeOK, History
<1>8. /\ hist' \in History /\ hist'.rushed = r
      /\ hist'.cancelled = hist.cancelled \cup ({running} \ {None})
  <2> HIDE DEF r
  <2> QED
    BY <1>5, <1>6, <1>7 DEF History
<1>9. running \in {turnId, None} /\ (running # None => turnId > 0)
  BY DEF IInv, StatusTruthful
<1>10. Derived(entries, entries')
  BY CanceledDerived DEF IInv, RunTurn
<1>11. TypeOK'
  <2>1. /\ send' \in [Turns -> SendStages] /\ awaits' \in [Turns -> Turns \cup {None}]
        /\ handler' \in [Turns -> HandlerStages]
    BY <1>1, <1>2, <1>3 DEF SendStages, HandlerStages
  <2>2. told' \in SUBSET Turns /\ resend' \in SUBSET Turns
    BY <1>1 DEF IInv, TypeOK, RunTurn, TellAgent
  <2>3. hadError' \in BOOLEAN
    BY DEF RunTurn
  <2>4. turnId' \in 0..MaxTurns /\ running' \in Turns \cup {None}
    BY <1>1, AcpAssumption DEF Turns
  <2> QED
    BY <1>8, <1>10, <2>1, <2>2, <2>3, <2>4 DEF IInv, TypeOK, Derived, RunTurn
<1>12. OnlyStarted'
  <2>1. hist'.cancelled \subseteq 1..turnId
    BY <1>1, <1>8, <1>9 DEF IInv, OnlyStarted
  <2>2. \A t \in Turns : /\ send'[t] = "idle" <=> t > u
                         /\ handler'[t] = "idle" <=> t > u
    <3> TAKE t \in Turns
    <3>1. t \in Nat
      BY DEF Turns
    <3>2. CASE t = u
      BY <1>1, <1>4, <3>2
    <3>3. CASE t # u
      <4>1. t > turnId <=> t > u
        BY <1>1, <3>1, <3>3
      <4> QED
        BY <1>4, <3>3, <4>1 DEF IInv, OnlyStarted
    <3> QED
      BY <3>2, <3>3
  <2>3. slot' # None => slot' <= u
    BY <1>1 DEF IInv, OnlyStarted, RunTurn, TypeOK, Turns
  <2> QED
    BY <1>1, <2>1, <2>2, <2>3 DEF OnlyStarted
<1>13. ResponsesThere'
  BY <1>1, <1>4 DEF IInv, ResponsesThere, Finished, RunTurn
<1>14. StatusTruthful'
  <2>1. u \notin hist'.cancelled /\ u > 0
    BY <1>1, <1>8, <1>9 DEF IInv, OnlyStarted
  <2> QED
    BY <1>1, <1>4, <2>1 DEF StatusTruthful
<1>15. Chain'
  <2> SUFFICES ASSUME NEW t \in Turns, NEW v \in Turns, t < v, v <= u, ~Finished(t)',
                      Unrushed(t, v)'
               PROVE  send'[v] = "waiting" /\ awaits'[v] = v - 1
    BY <1>1 DEF Chain
  <2>1. t \in Nat /\ v \in Nat /\ t # u /\ t \in 1..turnId
    BY <1>1 DEF Turns
  <2>2. ~Finished(t)
    BY <1>4, <2>1 DEF Finished
  <2>3. CASE v = u
    <3>1. u \in t + 1..v
      BY <1>1, <2>1, <2>3
    <3>2. u \notin r
      BY <1>8, <3>1 DEF Unrushed
    <3>3. running = turnId
      BY <1>9, <2>1, <2>2, <3>2
    <3> QED
      BY <1>1, <1>4, <2>3, <3>3
  <2>4. CASE v # u
    <3>1. Unrushed(t, v)
      BY <1>8 DEF Unrushed
    <3>2. v <= turnId
      BY <1>1, <2>1, <2>4
    <3> QED
      BY <1>4, <2>2, <2>4, <3>1, <3>2 DEF IInv, Chain
  <2> QED
    BY <2>3, <2>4
<1>16. MessagesPushed' /\ LastMessage' /\ OwnCheckpoints'
  <2>1. hist.rushed \subseteq hist'.rushed
    BY <1>8
  <2>2. send[u] = "idle"
    BY <1>1 DEF IInv, OnlyStarted
  <2>3. \A t \in Turns : Pushed(t) => Pushed(t)'
    BY <1>1, <1>4, <2>2 DEF Pushed
  <2>4. \A t \in Turns : send'[t] = "checkpoint" => send[t] = "checkpoint"
    BY <1>4
  <2> QED
    BY <1>10, <2>1, <2>3, <2>4, MessagesKept DEF IInv
<1> QED
  BY <1>11, <1>12, <1>13, <1>14, <1>15, <1>16 DEF IInv

-----------------------------------------------------------------------------
\* The tasks of a turn: what remains of the turn parts of the invariant when
\* send_task t moves on and starts or finishes no turn
LEMMA SendMoves ==
  ASSUME IInv, NEW t \in Turns, NEW st \in SendStages \ {"idle", "dropped"},
         send[t] # "idle", send' = [send EXCEPT ![t] = st],
         UNCHANGED <<turnVars, handler, target, resend, slot, rewinding, hist>>,
         told' \in SUBSET Turns, entries' \in Seq(Entry),
         awaits' \in [Turns -> Turns \cup {None}], response' \in [Turns -> AllAnswers \cup {None}],
         \A s \in Turns : s # t => response'[s] = response[s],
         ~Finished(t), st = "done" => response'[t] # None
  PROVE  TypeOK' /\ OnlyStarted' /\ ResponsesThere' /\ StatusTruthful'
<1>1. send \in [Turns -> SendStages] /\ send'[t] = st /\ \A s \in Turns : s # t => send'[s] = send[s]
  BY DEF IInv, TypeOK
<1>2. send' \in [Turns -> SendStages]
  BY <1>1
<1>3. TypeOK'
  BY <1>2 DEF IInv, TypeOK, turnVars
<1>4. OnlyStarted'
  BY <1>1 DEF IInv, OnlyStarted, turnVars
<1>5. ResponsesThere'
  BY <1>1 DEF IInv, ResponsesThere, Finished, turnVars
<1>6. StatusTruthful'
  BY DEF IInv, StatusTruthful, turnVars
<1> QED
  BY <1>3, <1>4, <1>5, <1>6

\* When a send_task whose predecessor is over starts, every turn before it back
\* to a rushed one is over
LEMMA StartsAlone ==
  ASSUME IInv, NEW t \in Turns, send[t] = "waiting", awaits[t] # None => Finished(awaits[t]),
         NEW a \in Turns, a < t, Unrushed(a, t)
  PROVE  Finished(a)
<1> SUFFICES ASSUME ~Finished(a) PROVE FALSE
  OBVIOUS
<1>1. t <= turnId /\ t \in Nat /\ a \in Nat /\ turnId \in Nat
  BY DEF IInv, OnlyStarted, TypeOK, Turns
<1>2. awaits[t] = t - 1
  BY <1>1 DEF IInv, Chain
<1>3. t - 1 \in Turns /\ t - 1 # None /\ a <= t - 1 /\ t - 1 <= turnId
  BY <1>1, AcpAssumption DEF Turns
<1>4. Finished(t - 1)
  BY <1>2, <1>3
<1>5. a < t - 1
  BY <1>1, <1>3, <1>4
<1>6. Unrushed(a, t - 1)
  BY <1>1 DEF Unrushed
<1>7. send[t - 1] = "waiting"
  BY <1>3, <1>5, <1>6 DEF IInv, Chain
<1> QED
  BY <1>4, <1>7 DEF Finished

\* The send task of a turn starts: it has waited for the earlier prompt
LEMMA SendTaskStartsInv ==
  ASSUME IInv, NEW t \in Turns, SendTaskStarts(t)
  PROVE  IInv'
<1> DEFINE st == IF t \in resend THEN "prompting" ELSE "checkpoint"
           e == [kind |-> "user", id |-> t, checkpoint |-> "none", taken |-> None]
<1>1. /\ send[t] = "waiting" /\ (awaits[t] # None => Finished(awaits[t]))
      /\ send' = [send EXCEPT ![t] = st] /\ st \in {"checkpoint", "prompting"}
      /\ awaits' = [awaits EXCEPT ![t] = None]
      /\ UNCHANGED <<turnVars, handler, target, response, resend, told, slot, rewinding, hist>>
  BY DEF SendTaskStarts
<1>2. entries' = IF t \in resend THEN entries ELSE Append(entries, e)
  BY DEF SendTaskStarts
<1>3. /\ entries \in Seq(Entry) /\ send \in [Turns -> SendStages]
      /\ awaits \in [Turns -> Turns \cup {None}]
  BY DEF IInv, TypeOK
<1> HIDE DEF st
<1>4. /\ send'[t] = st /\ \A s \in Turns : s # t => send'[s] = send[s] /\ awaits'[s] = awaits[s]
  BY <1>1, <1>3
<1>5. e \in UserEntry /\ e.kind = "user" /\ e.id = t /\ e.taken = None
  BY DEF UserEntry
<1> HIDE DEF e
<1>6. entries' \in Seq(Entry)
  BY <1>2, <1>3, <1>5, AppendProperties DEF Entry
<1>7. TypeOK' /\ OnlyStarted' /\ ResponsesThere' /\ StatusTruthful'
  <2>1. awaits' \in [Turns -> Turns \cup {None}]
    BY <1>1, <1>3
  <2>2. st \in SendStages \ {"idle", "dropped"} /\ st # "done"
    BY <1>1 DEF SendStages
  <2>3. ~Finished(t) /\ send[t] # "idle"
    BY <1>1 DEF Finished
  <2>4. told' \in SUBSET Turns /\ response' \in [Turns -> AllAnswers \cup {None}] /\ response' = response
    BY <1>1 DEF IInv, TypeOK
  <2> QED
    BY <1>1, <1>6, <2>1, <2>2, <2>3, <2>4, SendMoves
<1>8. Chain'
  <2> SUFFICES ASSUME NEW a \in Turns, NEW u \in Turns, a < u, u <= turnId, ~Finished(a)',
                      Unrushed(a, u)
               PROVE  send'[u] = "waiting" /\ awaits'[u] = u - 1
    BY <1>1 DEF Chain, Unrushed, turnVars
  <2>1. ~Finished(a)
    BY <1>1, <1>4 DEF Finished
  <2>2. u # t
    BY <1>1, <2>1, StartsAlone
  <2> QED
    BY <1>4, <2>1, <2>2 DEF IInv, Chain
<1>9. CASE t \in resend
  <2>1. Derived(entries, entries')
    BY <1>2, <1>3, <1>9 DEF Derived
  <2>2. st = "prompting" /\ hist' = hist
    BY <1>1, <1>9 DEF st
  <2>3. /\ \A s \in Turns : Pushed(s) => Pushed(s)'
        /\ \A s \in Turns : send'[s] = "checkpoint" => send[s] = "checkpoint"
    BY <1>1, <1>4, <2>2 DEF Pushed
  <2>4. MessagesPushed' /\ LastMessage' /\ OwnCheckpoints'
    BY <2>1, <2>2, <2>3, MessagesKept DEF IInv
  <2> QED
    BY <1>7, <1>8, <2>4 DEF IInv
<1>10. CASE t \notin resend
  <2> DEFINE n == Len(entries) + 1
  <2>1. /\ Len(entries') = n /\ n \in Nat /\ entries'[n] = e
        /\ \A i \in 1..Len(entries) : entries'[i] = entries[i]
    BY <1>2, <1>3, <1>5, <1>10, AppendProperties DEF Entry
  <2>2. /\ n \in UserIndices(entries')
        /\ \A i \in UserIndices(entries') :
             i = n \/ (i \in UserIndices(entries) /\ entries'[i] = entries[i] /\ i <= n)
    BY <1>3, <1>5, <2>1 DEF UserIndices
  <2>3. \A i \in UserIndices(entries) :
          /\ Pushed(entries[i].id) /\ entries[i].id \in Turns
          /\ entries[i].taken # None => Pushed(entries[i].taken) /\ entries[i].taken \in Turns
    BY <1>3, UserEntryAt DEF IInv, MessagesPushed, UserEntry
  <2>4. ~Pushed(t) /\ Pushed(t)' /\ \A s \in Turns : Pushed(s) => Pushed(s)'
    BY <1>1, <1>4 DEF Pushed
  <2>5. MessagesPushed'
    BY <1>5, <2>1, <2>2, <2>3, <2>4 DEF MessagesPushed
  <2>6. \A i \in UserIndices(entries) : entries[i].id # t /\ entries[i].taken # t
    BY <2>3, <2>4, AcpAssumption DEF Turns
  <2>7. LastMessage'
    <3> SUFFICES ASSUME hist.rushed = {}, NEW s \in Turns, send'[s] = "checkpoint",
                        NEW i \in UserIndices(entries'), NEW j \in UserIndices(entries'),
                        entries'[i].id = s
                 PROVE  j <= i
      BY <1>1 DEF LastMessage
    <3>1. CASE s = t
      BY <1>5, <2>1, <2>2, <2>6, <3>1
    <3>2. CASE s # t
      <4>1. send[s] = "checkpoint" /\ ~Finished(s) /\ ~Finished(t)
        BY <1>1, <1>4, <3>2 DEF Finished
      <4>2. s <= turnId /\ t <= turnId
        BY <1>1, <4>1 DEF IInv, OnlyStarted, TypeOK, Turns
      <4>3. Unrushed(s, t) /\ Unrushed(t, s)
        BY DEF Unrushed
      <4>4. ~(s < t)
        BY <1>1, <4>1, <4>3, StartsAlone
      <4>5. ~(t < s)
        BY <4>1, <4>2, <4>3 DEF IInv, Chain
      <4> QED
        BY <3>2, <4>4, <4>5 DEF Turns
    <3> QED
      BY <3>1, <3>2
  <2>8. OwnCheckpoints'
    <3> SUFFICES ASSUME hist.rushed = {}, NEW i \in UserIndices(entries'),
                        entries'[i].taken \notin {None, entries'[i].id}
                 PROVE  UserAt(entries', entries'[i].taken) = {}
      BY <1>1 DEF OwnCheckpoints
    <3>1. i \in UserIndices(entries) /\ entries'[i] = entries[i]
      BY <1>5, <2>1, <2>2
    <3>2. UserAt(entries, entries[i].taken) = {}
      BY <3>1 DEF IInv, OwnCheckpoints
    <3>3. entries[i].taken # t
      BY <2>6, <3>1
    <3> QED
      BY <1>5, <2>1, <2>2, <3>1, <3>2, <3>3 DEF UserAt
  <2> QED
    BY <1>7, <1>8, <2>5, <2>7, <2>8 DEF IInv
<1> QED
  BY <1>9, <1>10

\* update of one user message: the checkpoint goes to the last one
LEMMA CheckpointTakenInv ==
  ASSUME IInv, NEW t \in Turns, NEW ok \in BOOLEAN, CheckpointTaken(t, ok)
  PROVE  IInv'
<1>1. /\ send[t] = "checkpoint" /\ send' = [send EXCEPT ![t] = "prompting"]
      /\ UNCHANGED <<turnVars, awaits, handler, target, response, resend, told, slot, rewinding, hist>>
  BY DEF CheckpointTaken
<1>2. entries \in Seq(Entry) /\ send \in [Turns -> SendStages]
  BY DEF IInv, TypeOK
<1>3. send'[t] = "prompting" /\ \A s \in Turns : s # t => send'[s] = send[s]
  BY <1>1, <1>2
<1>4. /\ \A s \in Turns : Pushed(s) => Pushed(s)'
      /\ \A s \in Turns : send'[s] = "checkpoint" => send[s] = "checkpoint" /\ s # t
      /\ Pushed(t)'
  BY <1>1, <1>3 DEF Pushed
<1>5. Chain'
  BY <1>1, <1>3, ChainKept DEF IInv, Finished, turnVars
<1>6. ASSUME entries' \in Seq(Entry)
      PROVE  TypeOK' /\ OnlyStarted' /\ ResponsesThere' /\ StatusTruthful'
  <2>1. "prompting" \in SendStages \ {"idle", "dropped"} /\ ~Finished(t) /\ send[t] # "idle"
    BY <1>1 DEF SendStages, Finished
  <2>2. /\ told' \in SUBSET Turns /\ response' \in [Turns -> AllAnswers \cup {None}]
        /\ response' = response /\ awaits' \in [Turns -> Turns \cup {None}]
    BY <1>1 DEF IInv, TypeOK
  <2> QED
    BY <1>1, <1>6, <2>1, <2>2, SendMoves
<1>7. CASE UserIndices(entries) = {}
  <2>1. entries' = entries /\ Derived(entries, entries')
    BY <1>2, <1>7 DEF CheckpointTaken, Derived
  <2>2. MessagesPushed' /\ LastMessage' /\ OwnCheckpoints'
    BY <1>1, <1>4, <2>1, MessagesKept DEF IInv
  <2> QED
    BY <1>2, <1>5, <1>6, <2>1, <2>2 DEF IInv
<1>8. CASE UserIndices(entries) # {}
  <2> DEFINE last == LastUser(entries)
             cp == IF ok THEN "hidden" ELSE "none"
             tk == IF ok THEN t ELSE None
             e == [entries[last] EXCEPT !.checkpoint = cp, !.taken = tk]
  <2>1. last \in UserIndices(entries) /\ \A j \in UserIndices(entries) : j <= last
    BY <1>2, <1>8, LastUserLast
  <2>2. last \in 1..Len(entries) /\ entries[last] \in UserEntry
    BY <1>2, <2>1, UserEntryAt
  <2>3. entries' = [entries EXCEPT ![last] = e]
    BY <1>2, <1>8, <2>2 DEF CheckpointTaken
  <2>4. cp \in {"none", "hidden", "shown"} /\ tk \in {t, None}
    OBVIOUS
  <2> HIDE DEF last, cp, tk
  <2>5. e \in UserEntry /\ e.kind = "user" /\ e.id = entries[last].id /\ e.taken = tk
    BY <2>2, <2>4 DEF UserEntry
  <2> HIDE DEF e
  <2>6. entries' \in Seq(Entry) /\ Len(entries') = Len(entries)
    BY <1>2, <2>2, <2>3, <2>5 DEF Entry
  <2>7. /\ entries'[last] = e
        /\ \A i \in 1..Len(entries) : i # last => entries'[i] = entries[i]
    BY <1>2, <2>2, <2>3
  <2>8. UserIndices(entries') = UserIndices(entries)
    BY <2>1, <2>5, <2>6, <2>7 DEF UserIndices
  <2>9. ASSUME NEW i \in UserIndices(entries')
        PROVE  /\ i \in UserIndices(entries) /\ entries'[i].id = entries[i].id
               /\ entries[i].id \in Turns /\ entries[i].taken \in Turns \cup {None}
               /\ i # last => entries'[i].taken = entries[i].taken
    <3>1. i \in UserIndices(entries) /\ i \in 1..Len(entries) /\ entries[i] \in UserEntry
      BY <1>2, <2>8, UserEntryAt
    <3> QED
      BY <2>5, <2>7, <3>1 DEF UserEntry
  <2>10. MessagesPushed'
    BY <1>4, <2>4, <2>5, <2>7, <2>9 DEF IInv, MessagesPushed
  <2>11. LastMessage'
    BY <1>1, <1>4, <2>9 DEF IInv, LastMessage
  <2>12. ASSUME NEW k PROVE UserAt(entries', k) = UserAt(entries, k)
    BY <2>8, <2>9 DEF UserAt
  <2>13. OwnCheckpoints'
    <3> SUFFICES ASSUME hist.rushed = {}, NEW i \in UserIndices(entries'),
                        entries'[i].taken \notin {None, entries'[i].id}
                 PROVE  UserAt(entries', entries'[i].taken) = {}
      BY <1>1 DEF OwnCheckpoints
    <3>1. CASE i # last
      BY <2>9, <2>12, <3>1 DEF IInv, OwnCheckpoints
    <3>2. CASE i = last
      <4>1. entries'[i].taken = t /\ entries[last].id # t
        BY <2>4, <2>5, <2>7, <3>2
      <4>2. ASSUME NEW k \in UserIndices(entries), entries[k].id = t
            PROVE  FALSE
        <5>1. last <= k
          BY <1>1, <2>1, <4>2 DEF IInv, LastMessage
        <5>2. k = last
          BY <2>1, <2>2, <4>2, <5>1 DEF UserIndices
        <5> QED
          BY <4>1, <4>2, <5>2
      <4> QED
        BY <2>12, <4>1, <4>2 DEF UserAt
    <3> QED
      BY <3>1, <3>2
  <2> QED
    BY <1>5, <1>6, <2>6, <2>10, <2>11, <2>13 DEF IInv
<1> QED
  BY <1>7, <1>8

\* The agent answers
LEMMA AnsweredInv ==
  ASSUME IInv, NEW t \in Turns, NEW r \in Answers, Answered(t, r)
  PROVE  IInv'
<1>1. /\ send[t] = "prompting" /\ send' = [send EXCEPT ![t] = "done"]
      /\ response' = [response EXCEPT ![t] = r] /\ told' = told \ {t}
      /\ UNCHANGED <<entries, turnVars, awaits, handler, target, resend, slot, rewinding, hist>>
  BY DEF Answered
<1>2. /\ entries \in Seq(Entry) /\ send \in [Turns -> SendStages]
      /\ response \in [Turns -> AllAnswers \cup {None}] /\ told \in SUBSET Turns
      /\ awaits \in [Turns -> Turns \cup {None}]
  BY DEF IInv, TypeOK
<1>3. r \in AllAnswers /\ r # None
  BY AcpAssumption
<1>4. /\ send'[t] = "done" /\ response'[t] # None
      /\ \A s \in Turns : s # t => send'[s] = send[s] /\ response'[s] = response[s]
      /\ response' \in [Turns -> AllAnswers \cup {None}]
  BY <1>1, <1>2, <1>3
<1>5. "done" \in SendStages \ {"idle", "dropped"} /\ ~Finished(t) /\ send[t] # "idle"
  BY <1>1 DEF SendStages, Finished
<1>6. TypeOK' /\ OnlyStarted' /\ ResponsesThere' /\ StatusTruthful'
  BY <1>1, <1>2, <1>4, <1>5, SendMoves
<1>7. Chain'
  BY <1>1, <1>4, ChainKept DEF IInv, Finished, turnVars
<1>8. Derived(entries, entries')
  BY <1>1, <1>2 DEF Derived
<1>9. MessagesPushed' /\ LastMessage' /\ OwnCheckpoints'
  BY <1>1, <1>4, <1>8, MessagesKept DEF IInv, Pushed
<1> QED
  BY <1>6, <1>7, <1>9 DEF IInv

\* Steps of the handler that do not end the turn
LEMMA HandlerMoves ==
  ASSUME IInv, NEW t \in Turns, NEW st \in {"comparing", "finishing"},
         handler[t] \notin {"idle", "done"}, Finished(t), handler' = [handler EXCEPT ![t] = st],
         target' \in [Turns -> Turns \cup {None}], Derived(entries, entries'),
         UNCHANGED <<turnVars, send, awaits, response, resend, told, slot, rewinding, hist>>
  PROVE  IInv'
<1>1. /\ handler \in [Turns -> HandlerStages] /\ handler'[t] = st
      /\ \A s \in Turns : s # t => handler'[s] = handler[s]
  BY DEF IInv, TypeOK
<1>2. TypeOK'
  <2>1. handler' \in [Turns -> HandlerStages]
    BY <1>1 DEF HandlerStages
  <2> QED
    BY <2>1 DEF IInv, TypeOK, turnVars, Derived
<1>3. OnlyStarted'
  BY <1>1 DEF IInv, OnlyStarted, turnVars
<1>4. ResponsesThere'
  BY <1>1 DEF IInv, ResponsesThere, Finished, turnVars
<1>5. StatusTruthful'
  BY <1>1 DEF IInv, StatusTruthful, turnVars, TypeOK, Turns
<1>6. Chain'
  BY ChainKept DEF IInv, Finished, turnVars
<1>7. MessagesPushed' /\ LastMessage' /\ OwnCheckpoints'
  BY MessagesKept DEF IInv, Pushed
<1> QED
  BY <1>2, <1>3, <1>4, <1>5, <1>6, <1>7 DEF IInv

\* The end of a turn
LEMMA FinishInv ==
  ASSUME IInv, NEW t \in Turns, Finish(t), Finished(t), handler[t] \notin {"idle", "done"},
         UNCHANGED <<turnId, send, awaits, target, resend, told, slot, rewinding, hist>>
  PROVE  IInv'
<1>1. /\ handler \in [Turns -> HandlerStages] /\ response \in [Turns -> AllAnswers \cup {None}]
      /\ entries \in Seq(Entry) /\ running \in Turns \cup {None}
  BY DEF IInv, TypeOK
<1>2. handler' = [handler EXCEPT ![t] = "done"] /\ response' = [response EXCEPT ![t] = None]
  BY DEF Finish
<1>3. /\ handler'[t] = "done" /\ response'[t] = None
      /\ \A s \in Turns : s # t => handler'[s] = handler[s] /\ response'[s] = response[s]
  BY <1>1, <1>2
<1>4. running \in {turnId, None} /\ turnId \in 0..MaxTurns
  BY DEF IInv, StatusTruthful, TypeOK
<1>5. running' = IF running = t THEN None ELSE running
  <2>1. CASE response[t] = None
    <3>1. running # t
      BY <2>1 DEF IInv, ResponsesThere, Finished
    <3> QED
      BY <2>1, <3>1 DEF Finish
  <2>2. CASE response[t] # None
    BY <2>2 DEF Finish, IsSameTurn
  <2> QED
    BY <2>1, <2>2
<1>6. Derived(entries, entries')
  <2>1. Derived(entries, entries)
    BY <1>1 DEF Derived
  <2>2. entries' \in {entries, MarkCanceled(entries), AfterRefusal(entries)}
    BY DEF Finish
  <2> QED
    BY <1>1, <2>1, <2>2, MarkCanceledDerived, AfterRefusalDerived
<1>7. TypeOK'
  <2>1. handler' \in [Turns -> HandlerStages] /\ response' \in [Turns -> AllAnswers \cup {None}]
    BY <1>1, <1>2 DEF HandlerStages
  <2>2. hadError' \in BOOLEAN
    <3>1. hadError \in BOOLEAN
      BY DEF IInv, TypeOK
    <3> QED
      BY <3>1, Zenon DEF Finish
  <2>3. running' \in Turns \cup {None}
    BY <1>1, <1>5
  <2> QED
    BY <1>6, <2>1, <2>2, <2>3 DEF IInv, TypeOK, Derived
<1>8. OnlyStarted'
  BY <1>3 DEF IInv, OnlyStarted
<1>9. ResponsesThere'
  BY <1>3, <1>5, AcpAssumption DEF IInv, ResponsesThere, Finished, Turns
<1>10. StatusTruthful'
  <2>1. turnId > 0 => turnId \in Turns
    BY <1>4, AcpAssumption DEF Turns
  <2>2. t # None
    BY AcpAssumption DEF Turns
  <2>3. running = IF turnId > 0 /\ turnId \notin hist.cancelled /\ handler[turnId] # "done"
                  THEN turnId ELSE None
    BY DEF IInv, StatusTruthful
  <2>4. CASE t = turnId
    BY <1>3, <1>4, <1>5, <2>2, <2>3, <2>4 DEF StatusTruthful
  <2>5. CASE t # turnId
    BY <1>3, <1>4, <1>5, <2>1, <2>2, <2>3, <2>5 DEF StatusTruthful
  <2> QED
    BY <2>4, <2>5
<1>11. Chain'
  BY ChainKept DEF IInv, Finished
<1>12. MessagesPushed' /\ LastMessage' /\ OwnCheckpoints'
  BY <1>6, MessagesKept DEF IInv, Pushed
<1> QED
  BY <1>7, <1>8, <1>9, <1>10, <1>11, <1>12 DEF IInv

\* The task that handles the response
LEMMA HandlerInv ==
  ASSUME IInv, NEW t \in Turns,
         \/ ResponseReceived(t) \/ FinishTurn(t)
         \/ \E result \in {"failed", "equal", "different"} : CheckpointCompared(t, result)
  PROVE  IInv'
<1>1. entries \in Seq(Entry) /\ Derived(entries, entries) /\ target \in [Turns -> Turns \cup {None}]
  BY DEF IInv, TypeOK, Derived
<1>2. CASE FinishTurn(t)
  <2>1. Finished(t) /\ handler[t] \notin {"idle", "done"}
    BY <1>2 DEF FinishTurn, IInv, ResponsesThere
  <2> QED
    BY <1>2, <2>1, FinishInv DEF FinishTurn
<1>3. CASE ResponseReceived(t)
  <2> DEFINE last == LastUser(entries)
             compare == UserIndices(entries) # {} /\ entries[last].checkpoint # "none"
  <2>1. Finished(t) /\ handler[t] \notin {"idle", "done"}
    BY <1>3 DEF ResponseReceived
  <2>2. CASE ~compare
    BY <1>3, <2>1, <2>2, FinishInv DEF ResponseReceived
  <2>3. CASE compare
    <3>1. last \in UserIndices(entries)
      BY <1>1, <2>3, LastUserLast
    <3>2. entries[last].id \in Turns
      BY <1>1, <3>1, UserEntryAt DEF UserEntry
    <3>3. /\ handler' = [handler EXCEPT ![t] = "comparing"]
          /\ target' = [target EXCEPT ![t] = entries[last].id]
          /\ entries' = entries
          /\ UNCHANGED <<turnVars, send, awaits, response, resend, told, slot, rewinding, hist>>
      BY <1>3, <2>3 DEF ResponseReceived, turnVars
    <3>4. target' \in [Turns -> Turns \cup {None}]
      BY <1>1, <3>2, <3>3
    <3> QED
      BY <1>1, <2>1, <3>3, <3>4, HandlerMoves
  <2> QED
    BY <2>2, <2>3
<1>4. ASSUME NEW result \in {"failed", "equal", "different"}, CheckpointCompared(t, result)
      PROVE  IInv'
  <2>1. Finished(t) /\ handler[t] \notin {"idle", "done"}
    BY <1>4 DEF CheckpointCompared, IInv, ResponsesThere
  <2>2. target' \in [Turns -> Turns \cup {None}]
    BY <1>1, <1>4 DEF CheckpointCompared
  <2> DEFINE cp == IF result = "equal" THEN "hidden" ELSE "shown"
             set(i) == result # "failed" /\ i \in UserAt(entries, target[t]) /\ entries[i].checkpoint # "none"
  <2>3. entries' = [i \in 1..Len(entries) |->
                      IF set(i) THEN [entries[i] EXCEPT !.checkpoint = cp] ELSE entries[i]]
    BY <1>4 DEF CheckpointCompared
  <2>4. cp \in {"none", "hidden", "shown"}
    OBVIOUS
  <2> HIDE DEF cp
  <2>5. ASSUME NEW i \in 1..Len(entries)
        PROVE  /\ entries'[i] \in Entry
               /\ entries'[i].kind = "user" =>
                    /\ entries[i].kind = "user" /\ entries'[i].id = entries[i].id
                    /\ entries'[i].taken = entries[i].taken
    <3>1. entries[i] \in Entry
      BY <1>1
    <3>2. CASE set(i)
      <4>1. entries[i] \in UserEntry
        BY <1>1, <3>2, UserEntryAt DEF UserAt
      <4> DEFINE e == [entries[i] EXCEPT !.checkpoint = cp]
      <4>2. /\ e \in UserEntry /\ e.kind = "user" /\ e.id = entries[i].id
            /\ e.taken = entries[i].taken /\ entries[i].kind = "user"
        BY <2>4, <4>1 DEF UserEntry
      <4>3. entries'[i] = e
        BY <2>3, <3>2
      <4> QED
        BY <4>2, <4>3 DEF Entry
    <3>3. CASE ~set(i)
      BY <2>3, <3>1, <3>3
    <3> QED
      BY <3>2, <3>3
  <2>6. entries' \in [1..Len(entries) -> Entry]
    BY <2>3, <2>5
  <2>7. Derived(entries, entries')
    BY <1>1, <2>5, <2>6, MapDerived
  <2> QED
    BY <1>4, <2>1, <2>2, <2>7, HandlerMoves DEF CheckpointCompared
<1> QED
  BY <1>2, <1>3, <1>4

-----------------------------------------------------------------------------
\* A new thread satisfies the invariant
LEMMA InitInv ==
  ASSUME Init
  PROVE  IInv
<1>1. Len(entries) = 0 /\ entries \in Seq(Entry) /\ UserIndices(entries) = {}
  BY DEF Init, UserIndices
<1>2. hist \in History /\ hist.cancelled = {}
  BY AcpAssumption DEF Init, History
<1>3. TypeOK
  <2>1. /\ send \in [Turns -> SendStages] /\ handler \in [Turns -> HandlerStages]
        /\ awaits \in [Turns -> Turns \cup {None}] /\ target \in [Turns -> Turns \cup {None}]
        /\ response \in [Turns -> AllAnswers \cup {None}]
    BY DEF Init, SendStages, HandlerStages
  <2>2. turnId \in 0..MaxTurns
    BY AcpAssumption DEF Init
  <2>3. hadError \in BOOLEAN
    BY DEF Init
  <2>4. /\ running \in Turns \cup {None} /\ slot \in Turns \cup {None} /\ resend \in SUBSET Turns
        /\ told \in SUBSET Turns /\ rewinding \in SUBSET Turns
    BY DEF Init
  <2> QED
    BY <1>1, <1>2, <2>1, <2>2, <2>3, <2>4 DEF TypeOK
<1>4. OnlyStarted /\ ResponsesThere /\ StatusTruthful
  BY <1>2, AcpAssumption DEF Init, OnlyStarted, ResponsesThere, StatusTruthful, Turns, Finished
<1>5. Chain
  BY DEF Init, Chain, Turns
<1>6. MessagesPushed /\ LastMessage /\ OwnCheckpoints
  BY <1>1 DEF MessagesPushed, LastMessage, OwnCheckpoints
<1> QED
  BY <1>3, <1>4, <1>5, <1>6 DEF IInv

\* Every step of the thread, its tasks and the agent keeps it
LEMMA StepInv ==
  ASSUME IInv, [Next]_vars
  PROVE  IInv'
<1>1. CASE UNCHANGED vars
  <2>1. Derived(entries, entries')
    BY <1>1 DEF vars, IInv, TypeOK, Derived
  <2> QED
    BY <1>1, <2>1, TurnsUntouched DEF vars, IInv, TypeOK
<1>2. CASE UserStep
  <2>1. CASE Send \/ Retry
    BY <2>1, RunTurnInv DEF Send, Retry
  <2>2. CASE CancelGeneration \/ CancelDetached \/ \E id \in Turns : RestoreCheckpoint(id)
    BY <2>2, CancelsInv
  <2>3. CASE \E id \in Turns : Rewind(id)
    BY <2>3, RewindInv
  <2>4. CASE \E c \in Calls, allow \in BOOLEAN : AuthorizeToolCall(c, allow)
    BY <2>4, AuthorizeInv
  <2> QED
    BY <1>2, <2>1, <2>2, <2>3, <2>4 DEF UserStep
<1>3. ASSUME NEW t \in Turns, TaskStep(t) PROVE IInv'
  BY <1>3, SendTaskStartsInv, CheckpointTakenInv, HandlerInv DEF TaskStep
<1>4. ASSUME NEW t \in Turns, AgentStep(t) PROVE IInv'
  BY <1>4, AgentStepInv
<1>5. ASSUME NEW t \in Turns, NEW r \in Answers, Answered(t, r) PROVE IInv'
  BY <1>5, AnsweredInv
<1>6. ASSUME NEW id \in Turns, NEW ok \in BOOLEAN, RewindRuns(id, ok) PROVE IInv'
  BY <1>6, RewindInv
<1> QED
  BY <1>1, <1>2, <1>3, <1>4, <1>5, <1>6 DEF Next

\* The invariant holds in every state of every behaviour
THEOREM Invariance == Spec => []IInv
BY InitInv, StepInv, PTL DEF Spec

\* The state of a thread is well formed: the last user message always has an
\* index, and no counter passes its bound
THEOREM TypeCorrect == Spec => []TypeOK
<1>1. IInv => TypeOK
  BY DEF IInv
<1> QED
  BY <1>1, Invariance, PTL

\* status() of acp_thread.rs is Generating exactly while the last turn is
\* neither cancelled nor over, however late the handlers of older turns run
THEOREM StatusIsTruthful == Spec => []StatusTruthful
<1>1. IInv => StatusTruthful
  BY DEF IInv
<1> QED
  BY <1>1, Invariance, PTL

\* Two prompts run at once only across a turn that was started after a cancel
\* nobody waited for
THEOREM PromptsAreSerialized == Spec => []PromptsSerialized
<1>1. ASSUME IInv PROVE PromptsSerialized
  <2> SUFFICES ASSUME NEW t \in Turns, NEW u \in Turns, t < u, Active(t), Active(u),
                      Unrushed(t, u)
               PROVE  FALSE
    BY DEF PromptsSerialized, Unrushed
  <2>1. ~Finished(t) /\ send[u] # "waiting" /\ send[u] # "idle"
    BY DEF Active, Finished
  <2>2. u <= turnId
    BY <1>1, <2>1 DEF IInv, OnlyStarted, TypeOK, Turns
  <2> QED
    BY <1>1, <2>1, <2>2 DEF IInv, Chain
<1> QED
  BY <1>1, Invariance, PTL

\* While no turn was rushed, the checkpoint that send_task stores after its
\* await lands on its own message, or on another only if its own is gone
THEOREM CheckpointsAreOwn == Spec => []OwnCheckpoints
<1>1. IInv => OwnCheckpoints
  BY DEF IInv
<1> QED
  BY <1>1, Invariance, PTL
=============================================================================
