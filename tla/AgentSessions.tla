---------------------------- MODULE AgentSessions ---------------------------
(***************************************************************************)
(* One session of the native agent (NativeAgent in crates/agent/src/agent.rs)*)
(* and the row of the threads database it is saved to                        *)
(* (crates/agent/src/db.rs).  Views open and close the session, a summary     *)
(* borrows it; loads are shared, references are counted, and every change     *)
(* spawns a save that replaces the one before it.  The content of a thread   *)
(* is the set of changes its messages, its title and its draft prompt have;  *)
(* what an agent has streamed into pending_message is no part of it yet.     *)
(***************************************************************************)
EXTENDS Naturals, FiniteSets

CONSTANTS Clients,    \* views and summaries that may use the session
          Edits,      \* changes of messages and title
          Drafts,     \* changes of the draft prompt
          MaxOpens,   \* bound: calls that open the session
          NoThread    \* no session, no load, no save, no row

ASSUME ClientsAssumption == IsFiniteSet(Clients) /\ MaxOpens \in Nat

Contents == SUBSET (Edits \cup Drafts)
Sessions == [refs : Nat, content : Contents, streamed : SUBSET Edits, id : Nat]

ASSUME NoThreadAssumption == (\A content \in Contents : content # NoThread) /\ NoThread \notin Sessions

VARIABLES
  session,   \* sessions[id]: reference count, content, pending_message, identity
  pending,   \* pending_sessions[id]: its reference count, 0 when absent
  loader,    \* the load task: "idle", "reading", "read" or "replaying"
  loaded,    \* the row the load task has read
  saving,    \* content of the session's pending_save, not yet being written
  closing,   \* contents of the saves that closed sessions left to their closers
  writing,   \* contents that a database thread is writing
  row,       \* the thread's row
  client,    \* client[c]: "out", "waiting", "view" or "summary"
  uses,      \* uses[c]: identity of the AcpThread that client c was given
  made,      \* all changes ever made
  latest,    \* history: the content of the thread after its last change
  opens,     \* opens so far; also the identity of the next session
  leaked,    \* references that nobody will give back
  faults     \* what has happened that may lose changes: "early read" of a row,
             \* "overlap" of two writes, a "failed" write

vars == <<session, pending, loader, loaded, saving, closing, writing, row, client, uses,
          made, latest, opens, leaked, faults>>

saveVars == <<saving, closing, writing, row>>
loadVars == <<pending, loader, loaded>>

\* new_session: a view has the only reference to an empty thread without row
Init ==
  /\ session = [refs |-> 1, content |-> {}, streamed |-> {}, id |-> 0]
  /\ pending = 0 /\ loader = "idle" /\ loaded = NoThread
  /\ saving = NoThread /\ closing = {} /\ writing = {} /\ row = NoThread
  /\ \E c \in Clients :
       client = [d \in Clients |-> IF d = c THEN "view" ELSE "out"]
  /\ uses = [c \in Clients |-> 0]
  /\ made = {} /\ latest = {} /\ opens = 0 /\ leaked = 0 /\ faults = {}

Registered == session # NoThread

\* Thread::is_empty: no message and no title
IsEmpty(content) == content \cap Edits = {}

(***************************************************************************)
(* open_thread, for a view (load_session) or for thread_summary: a loaded    *)
(* session is shared, a load under way is joined, otherwise one is started.  *)
(***************************************************************************)
Open(c) ==
  /\ client[c] = "out" /\ opens < MaxOpens
  /\ opens' = opens + 1
  /\ \/ /\ Registered
        /\ session' = [session EXCEPT !.refs = @ + 1]
        /\ \E kind \in {"view", "summary"} : client' = [client EXCEPT ![c] = kind]
        /\ uses' = [uses EXCEPT ![c] = session.id]
        /\ UNCHANGED loadVars
     \/ /\ ~Registered /\ pending > 0
        /\ pending' = pending + 1
        /\ client' = [client EXCEPT ![c] = "waiting"]
        /\ UNCHANGED <<session, uses, loader, loaded>>
     \/ /\ ~Registered /\ pending = 0
        /\ pending' = 1 /\ loader' = "reading"
        /\ client' = [client EXCEPT ![c] = "waiting"]
        /\ UNCHANGED <<session, uses, loaded>>
  /\ UNCHANGED <<saveVars, made, latest, leaked, faults>>

\* a view that goes away while it is loading does not close the session
Abandon(c) ==
  /\ client[c] = "waiting"
  /\ client' = [client EXCEPT ![c] = "out"]
  /\ leaked' = leaked + 1
  /\ UNCHANGED <<session, loadVars, saveVars, uses, made, latest, opens, faults>>

Waiting == {c \in Clients : client[c] = "waiting"}

Outstanding == closing # {} \/ writing # {}

\* the load task reads the row; without one everyone who waits is told so and
\* the references of the pending session are gone with it
ReadRow ==
  /\ loader = "reading" /\ row # NoThread
  /\ loader' = "read" /\ loaded' = row
  /\ faults' = faults \cup (IF Outstanding THEN {"early read"} ELSE {})
  /\ UNCHANGED <<session, pending, saveVars, client, uses, made, latest, opens, leaked>>

\* Mutant: those who joined the load are not told.
LoadFailsMutant ==
  /\ loader = "reading"
  /\ loader' = "idle" /\ pending' = 0 /\ leaked' = 0
  /\ UNCHANGED <<session, loaded, saveVars, client, uses, made, latest, opens, faults>>

LoadFails ==
  /\ loader = "reading"
  /\ loader' = "idle" /\ pending' = 0 /\ leaked' = 0
  /\ client' = [c \in Clients |-> IF c \in Waiting THEN "out" ELSE client[c]]
  /\ UNCHANGED <<session, loaded, saveVars, uses, made, latest, opens, faults>>

\* Mutant: the session starts with one reference.
RegisterMutant ==
  /\ loader = "read"
  /\ session' = [refs |-> 1, content |-> loaded, streamed |-> {}, id |-> opens]
  /\ pending' = 0 /\ loader' = "replaying" /\ loaded' = NoThread
  /\ latest' = IF IsEmpty(latest) THEN loaded ELSE latest
  /\ UNCHANGED <<saveVars, client, uses, made, opens, leaked, faults>>

\* the pending references become the session's (register_session); a thread that
\* was emptied comes back as it was last saved
Register ==
  /\ loader = "read"
  /\ session' = [refs |-> pending, content |-> loaded, streamed |-> {}, id |-> opens]
  /\ pending' = 0 /\ loader' = "replaying" /\ loaded' = NoThread
  /\ latest' = IF IsEmpty(latest) THEN loaded ELSE latest
  /\ UNCHANGED <<saveVars, client, uses, made, opens, leaked, faults>>

\* the history was replayed into the AcpThread; the waiting clients get it
ReplayEnds ==
  /\ loader = "replaying" /\ loader' = "idle"
  /\ client' \in [Clients -> {"out", "waiting", "view", "summary"}]
  /\ \A c \in Clients : IF c \in Waiting THEN client'[c] \in {"view", "summary"}
                                         ELSE client'[c] = client[c]
  /\ uses' = [c \in Clients |-> IF c \in Waiting THEN session.id ELSE uses[c]]
  /\ UNCHANGED <<session, pending, loaded, saveVars, made, latest, opens, leaked, faults>>

\* or the replay failed: they get the error, the session stays
ReplayFails ==
  /\ loader = "replaying" /\ loader' = "idle"
  /\ client' = [c \in Clients |-> IF c \in Waiting THEN "out" ELSE client[c]]
  /\ leaked' = leaked + Cardinality(Waiting)
  /\ UNCHANGED <<session, pending, loaded, saveVars, uses, made, latest, opens, faults>>

(***************************************************************************)
(* save_thread and to_db: an empty thread is not saved; otherwise the        *)
(* content, draft included and pending_message left out, is taken now, and   *)
(* the save replaces pending_save, which drops the older one unless the      *)
(* database is already writing it.                                           *)
(***************************************************************************)
\* Mutant: the draft prompt is not saved.
SavedMutant(content) == IF IsEmpty(content) THEN saving ELSE content \ Drafts

\* Mutant: a save that waits for the database is not replaced.
SavedOnceMutant(content) == IF IsEmpty(content) \/ saving # NoThread THEN saving ELSE content

Saved(content) == IF IsEmpty(content) THEN saving ELSE content

Used == \E c \in Clients : client[c] = "view"

\* What the content becomes when content is the session's and pending_message is
\* left with streamed; the thread notifies and its observer saves it
Changes(content, streamed) ==
  /\ session' = [session EXCEPT !.content = content, !.streamed = streamed]
  /\ saving' = Saved(content)
  /\ UNCHANGED <<loadVars, closing, writing, row, client, uses, opens, leaked, faults>>

\* a message is sent, or the title changes or is generated
Edit(e) ==
  /\ Registered /\ e \in Edits \ made
  /\ made' = made \cup {e} /\ latest' = latest \cup {e}
  /\ Changes(session.content \cup {e}, session.streamed)

\* a batch of the agent's answer is streamed into pending_message
Stream(e) ==
  /\ Registered /\ e \in Edits \ made
  /\ made' = made \cup {e} /\ UNCHANGED latest
  /\ Changes(session.content, session.streamed \cup {e})

\* flush_pending_message
Flush ==
  /\ Registered /\ session.streamed # {}
  /\ latest' = latest \cup session.streamed /\ UNCHANGED made
  /\ Changes(session.content \cup session.streamed, {})

\* truncate drops messages, and pending_message.  Which changes are those of the
\* last messages is left open.
Truncate ==
  /\ Registered /\ Used
  /\ \E S \in SUBSET (session.content \cap Edits) \ {{}} :
       /\ latest' = latest \ S
       /\ Changes(session.content \ S, {})
  /\ UNCHANGED made

\* the draft prompt changes, which does not notify
SetDraftPrompt(d) ==
  /\ Registered /\ Used /\ d \in Drafts \ made
  /\ made' = made \cup {d} /\ latest' = latest \cup {d}
  /\ session' = [session EXCEPT !.content = @ \cup {d}]
  /\ UNCHANGED <<loadVars, saveVars, client, uses, opens, leaked, faults>>

\* schedule_save of the view, after a draft or a scroll: its timer notifies
ScheduledSave ==
  /\ Registered /\ Used
  /\ Changes(session.content, session.streamed)
  /\ UNCHANGED <<made, latest>>

\* close_session: the last reference saves the thread, removes the session and
\* leaves the save to the caller, who detaches it.  The turn is dropped with the
\* thread, and with it what pending_message holds.
CloseSession ==
  \/ /\ ~Registered
     /\ UNCHANGED <<session, saving, closing>>
  \/ /\ Registered /\ session.refs > 1
     /\ session' = [session EXCEPT !.refs = @ - 1]
     /\ UNCHANGED <<saving, closing>>
  \/ /\ Registered /\ session.refs <= 1
     /\ closing' = closing \cup ({Saved(session.content)} \ {NoThread})
     /\ saving' = NoThread
     /\ session' = NoThread

\* a view is released or reset, or a summary was generated
Close(c) ==
  /\ client[c] \in {"view", "summary"}
  /\ client' = [client EXCEPT ![c] = "out"]
  /\ CloseSession
  /\ UNCHANGED <<loadVars, writing, row, uses, made, latest, opens, leaked, faults>>

\* the summary failed: thread_summary returns before it closes the session
SummaryFails(c) ==
  /\ client[c] = "summary"
  /\ client' = [client EXCEPT ![c] = "out"]
  /\ leaked' = leaked + 1
  /\ UNCHANGED <<session, loadVars, saveVars, uses, made, latest, opens, faults>>

(***************************************************************************)
(* The database runs save_thread_sync on a thread of its own: once begun, a  *)
(* write cannot be dropped, and two of them finish in either order.  A       *)
(* failure is only logged.                                                   *)
(***************************************************************************)
BeginWrite ==
  /\ \/ /\ saving # NoThread
        /\ writing' = writing \cup {saving} /\ saving' = NoThread /\ UNCHANGED closing
     \/ \E content \in closing :
          /\ writing' = writing \cup {content} /\ closing' = closing \ {content}
          /\ UNCHANGED saving
  /\ faults' = faults \cup (IF writing # {} THEN {"overlap"} ELSE {})
  /\ UNCHANGED <<session, loadVars, row, client, uses, made, latest, opens, leaked>>

EndWrite ==
  /\ \E content \in writing :
       /\ writing' = writing \ {content}
       /\ \/ row' = content /\ UNCHANGED faults
          \/ UNCHANGED row /\ faults' = faults \cup {"failed"}
  /\ UNCHANGED <<session, loadVars, saving, closing, client, uses, made, latest, opens, leaked>>

Load == ReadRow \/ LoadFails \/ Register \/ ReplayEnds \/ ReplayFails

Next == \/ \E c \in Clients : Open(c) \/ Abandon(c) \/ Close(c) \/ SummaryFails(c)
        \/ \E e \in Edits : Edit(e) \/ Stream(e)
        \/ \E d \in Drafts : SetDraftPrompt(d)
        \/ Flush \/ Truncate \/ ScheduledSave
        \/ Load \/ BeginWrite \/ EndWrite

Spec == Init /\ [][Next]_vars

\* the load task and the database threads run
Fairness == WF_vars(Load) /\ WF_vars(BeginWrite) /\ WF_vars(EndWrite)

FairSpec == Spec /\ Fairness
-----------------------------------------------------------------------------
(***************************************************************************)
(* Properties.                                                               *)
(***************************************************************************)

Holders == {c \in Clients : client[c] \in {"view", "summary"}}

\* The session and the load that becomes one count exactly the clients that have
\* it, wait for it or have left without closing it, so it is never unloaded under
\* a holder (thread_summary unwraps it) and is unloaded after the last close;
\* and all holders share one AcpThread, also those who joined a load late.
ReferencesExact ==
  /\ (IF Registered THEN session.refs ELSE pending)
       = Cardinality(Holders) + Cardinality(Waiting) + leaked
  /\ \A c \in Holders : Registered /\ uses[c] = session.id

Kept(content) == content = latest

SomewhereKept ==
  \/ Registered /\ Kept(session.content)
  \/ loader = "read" /\ Kept(loaded)
  \/ ~Registered /\ \E content \in closing \cup writing : Kept(content)
  \/ ~Registered /\ row # NoThread /\ Kept(row)

\* The thread as it was after its last change is not lost, and no older one takes
\* its place: the open session has it, or the load that reopens the session does,
\* or the save under way or the row.  This needs that no row is read while a closed
\* session is still being saved, that no two writes overlap and that writes
\* succeed.  An empty thread is not kept, and no thread has what the agent was
\* still streaming when it was closed (save_thread, to_db, close_session).
NothingLost == (faults = {} /\ ~IsEmpty(latest)) => SomewhereKept

\* Once the last one to use the session has closed it, the row is in the end what
\* the thread was, unless a fault was met or the thread was empty.
ClosedIsSaved ==
  (~Registered /\ ~IsEmpty(latest)) ~> ((row # NoThread /\ Kept(row)) \/ Registered \/ faults # {})

\* A client that waits for a load gets the session or an error, also when others
\* join the load, leave it, or the history cannot be replayed.
OpensSettle == \A c \in Clients : (client[c] = "waiting") ~> (client[c] # "waiting")
=============================================================================
