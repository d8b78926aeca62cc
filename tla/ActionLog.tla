----------------------------- MODULE ActionLog -----------------------------
(***************************************************************************)
(* The review of an agent's edits to one buffer (crates/action_log).  The  *)
(* log keeps a diff base, the text the user has reviewed, and the hunks in *)
(* which the buffer differs from it.  A background task brings both up to  *)
(* date: it takes one queued snapshot at a time, copies the diff base,     *)
(* rebases it while the foreground goes on, and writes the result back.    *)
(*                                                                         *)
(* A text is Empty or gives each region of the file its contents; regions  *)
(* are separated by lines nobody changes, so hunks never merge, except     *)
(* that a diff against the empty text is one hunk, the whole file.         *)
(*                                                                         *)
(* The log learns of an edit in two ways: a tool announces its own with    *)
(* buffer_edited, and every other edit of a tracked buffer counts as the   *)
(* user's.  That includes what a formatter writes when a tool has the file *)
(* formatted: the tool announces the result only after the await.          *)
(***************************************************************************)
EXTENDS Sequences, FiniteSets, Naturals, TLC

CONSTANTS
  Regions,     \* parts of the file that are edited independently
  Contents,    \* what a region may hold
  Original,    \* the member of Contents an existing file starts with
  Empty,       \* the empty text
  FormatOnSave,   \* the setting: tools have the files they edited formatted
  None,
  MaxAgentEdits, MaxUserEdits,
  MaxReviews   \* bounds; reviews are keeps, rejects, undos and commits

ASSUME Bounds == /\ Cardinality(Regions) >= 2
                 /\ Original \in Contents
                 /\ FormatOnSave \in BOOLEAN
                 /\ {MaxAgentEdits, MaxUserEdits, MaxReviews} \subseteq Nat

VARIABLES
  text,       \* the buffer's text
  disk,       \* whether the buffer's file exists
  tracked,    \* the TrackedBuffer, or None
  undo,       \* last_reject_undo
  unsaved,    \* a tool has edited, and is about to save and to announce once more
  agentEdits, userEdits, reviews,
  touched,    \* history: regions the agent changed since the last review of them
  accepted,   \* history: contents per region of the file as it was at first, and
              \* those the user wrote, kept, committed or restored
  taken,      \* history: contents per region nobody announced as the agent's: those
              \* found when tracking began, and a formatter's since then
  byUser,     \* history: regions of a created file that hold what the user typed
  raced       \* history: a keep arrived while an update was in flight

vars == <<text, disk, tracked, undo, unsaved, agentEdits, userEdits, reviews,
          touched, accepted, taken, byUser, raced>>

Symmetry == Permutations(Regions)

Texts == [Regions -> Contents] \cup {Empty}

\* An update that track_edits has read and not yet written back
Flights == [base : Texts, snapshot : Texts, shown : BOOLEAN]

TrackedBuffers ==
  [status : {"modified", "created", "deleted"}, existing : Texts \cup {None}, base : Texts,
   unreviewed : SUBSET SUBSET Regions, snapshot : Texts, fresh : BOOLEAN, changed : BOOLEAN,
   queue : Seq([author : {"agent", "user"}, text : Texts]), flight : Flights \cup {None},
   commit : Texts \cup {None}]

ASSUME Distinct == /\ Empty \notin Contents /\ Empty \notin [Regions -> Contents]
                   /\ None \notin Texts /\ None \notin Flights /\ None \notin TrackedBuffers

At(t, r) == IF t = Empty THEN Empty ELSE t[r]

\* t with the regions in h taken from s.
Take(h, s, t) ==
  IF h = {} THEN t ELSE IF h = Regions THEN s
  ELSE [r \in Regions |-> IF r \in h THEN s[r] ELSE t[r]]

\* The hunks of a line diff: one per region that differs, or the whole file.
Hunks(s, t) ==
  IF s = t THEN {}
  ELSE IF Empty \in {s, t} THEN {Regions}
  ELSE {{r} : r \in {q \in Regions : s[q] # t[q]}}

\* History: contents per region, with those of t in the regions h.
Also(contents, h, t) ==
  [r \in Regions |-> contents[r] \cup IF r \in h THEN {At(t, r)} ELSE {}]
Accept(h, t) == Also(accepted, h, t)
Found(t) == [r \in Regions |-> {At(t, r)}]

Init ==
  /\ disk \in BOOLEAN
  /\ text = IF disk THEN [r \in Regions |-> Original] ELSE Empty
  /\ tracked = None
  /\ undo = None
  /\ unsaved = FALSE
  /\ agentEdits = 0 /\ userEdits = 0 /\ reviews = 0
  /\ touched = {}
  /\ accepted = Found(text)
  /\ taken = Found(text)
  /\ byUser = {}
  /\ raced = FALSE

-----------------------------------------------------------------------------
(* Tracking. *)

\* The TrackedBuffer that or_insert_with builds for a buffer that was read.
Record(s) ==
  [status     |-> "modified",
   existing   |-> None,
   base       |-> s,
   unreviewed |-> {},
   snapshot   |-> s,
   fresh      |-> TRUE,      \* version = the buffer's version
   changed    |-> FALSE,     \* the BufferDiff has hunks (has_edits)
   queue      |-> <<>>,
   flight     |-> None,
   commit     |-> None]      \* a committed text not taken up yet

\* track_buffer_internal.  A buffer that becomes "created" gets a new record:
\* its queue and its update in flight are dropped.
Track(created, s) ==
  IF created
  THEN [Record(s) EXCEPT
          !.status = "created",
          !.existing = IF tracked = None THEN IF disk THEN s ELSE None
                       ELSE IF tracked.status = "created" THEN tracked.existing
                       ELSE tracked.base,
          !.base = Empty,
          !.unreviewed = {Regions}]
  ELSE IF tracked = None THEN Record(s) ELSE [tracked EXCEPT !.fresh = TRUE]

ScheduleDiffUpdate(t, author, s) ==
  [t EXCEPT !.queue = Append(@, [author |-> author, text |-> s])]

\* History: regions with changes in flight, or with agent changes in the queue; all
\* of them when the file is emptied or filled on the way, which is one hunk.
AgentPending(t) ==
  LET last  == IF t.flight = None THEN t.snapshot ELSE t.flight.snapshot
      texts == {t.snapshot, last} \cup {t.queue[i].text : i \in DOMAIN t.queue}
  IN IF Empty \in texts /\ texts # {Empty} THEN Regions
     ELSE UNION (Hunks(t.snapshot, last) \cup
                 UNION {Hunks(IF i = 1 THEN last ELSE t.queue[i - 1].text, t.queue[i].text) :
                          i \in {j \in DOMAIN t.queue : t.queue[j].author = "agent"}})

\* History: a buffer that starts to be tracked is taken as it is found.
Starts(s) == taken' = IF tracked = None THEN Found(s) ELSE taken

BufferRead ==
  /\ tracked' = Track(FALSE, text)
  /\ touched' = IF tracked = None THEN {} ELSE touched
  /\ Starts(text)
  /\ UNCHANGED <<text, disk, undo, unsaved, agentEdits, userEdits, reviews, accepted, byUser, raced>>

BufferCreated ==
  /\ tracked' = Track(TRUE, text)
  /\ touched' = Regions
  /\ Starts(text)
  /\ byUser' = {}
  /\ UNCHANGED <<text, disk, undo, unsaved, agentEdits, userEdits, reviews, accepted, raced>>

\* One edit: a region, or the contents of a file that was empty.
Edited(t) ==
  IF t = Empty THEN {[r \in Regions |-> c] : c \in Contents}
  ELSE {s \in Texts \ {Empty} : Cardinality({r \in Regions : s[r] # t[r]}) = 1}

\* buffer_edited: the record it leaves when the buffer's text is s.
BufferEdited(s) ==
  ScheduleDiffUpdate([Track(FALSE, s) EXCEPT !.status = IF @ = "deleted" THEN "modified" ELSE @],
                     "agent", s)

\* A tool edits the buffer and calls buffer_edited in the same update.  When the
\* record is gone (the file was rejected or deleted) the new one starts with the
\* agent's text as its base.
AgentEdit ==
  /\ agentEdits < MaxAgentEdits
  /\ agentEdits' = agentEdits + 1
  /\ \E s \in Edited(text) :
       /\ text' = s
       /\ tracked' = BufferEdited(s)
       /\ touched' = IF tracked = None THEN {} ELSE touched \cup UNION Hunks(text, s)
       /\ Starts(s)
       /\ byUser' = byUser \ UNION Hunks(text, s)
  /\ unsaved' = TRUE
  /\ UNCHANGED <<disk, undo, userEdits, reviews, accepted, raced>>

\* handle_buffer_event(Edited): any edit buffer_edited did not announce.
UserEdited(s) ==
  /\ text' = s
  /\ tracked' = IF tracked = None THEN None
                ELSE ScheduleDiffUpdate([tracked EXCEPT !.fresh = FALSE], "user", s)

UserEdit ==
  /\ userEdits < MaxUserEdits
  /\ \E s \in Edited(text) :
       /\ UserEdited(s)
       /\ accepted' = Accept(UNION Hunks(text, s), s)
       /\ byUser' = IF tracked # None /\ tracked.status = "created"
                    THEN byUser \cup UNION Hunks(text, s) ELSE byUser
  /\ userEdits' = userEdits + 1
  /\ UNCHANGED <<disk, undo, unsaved, agentEdits, reviews, touched, taken, raced>>

\* The formatter a tool started changes a region, which the log takes for the
\* user's edit.
Format ==
  /\ unsaved /\ FormatOnSave
  /\ text # Empty
  /\ agentEdits < MaxAgentEdits
  /\ agentEdits' = agentEdits + 1
  /\ \E s \in Edited(text) :
       /\ UserEdited(s)
       /\ taken' = Also(taken, UNION Hunks(text, s), s)
       /\ byUser' = byUser \ UNION Hunks(text, s)
  /\ UNCHANGED <<disk, undo, unsaved, userEdits, reviews, touched, accepted, raced>>

\* The tool calls buffer_edited once more, after the formatter and the save.
SaveAnnounced ==
  /\ unsaved
  /\ unsaved' = FALSE
  /\ tracked' = BufferEdited(text)
  /\ touched' = IF tracked = None THEN {} ELSE touched
  /\ Starts(text)
  /\ UNCHANGED <<text, disk, undo, agentEdits, userEdits, reviews, accepted, byUser, raced>>

\* The deleted text is queued twice: by will_delete_buffer as the agent's
\* and by the event of set_text as the user's, unless the buffer was empty.
WillDeleteBuffer ==
  /\ LET t == Track(FALSE, text)
         d == ScheduleDiffUpdate([t EXCEPT !.status = "deleted"], "agent", Empty)
     IN IF t.status = "created"
        THEN tracked' = None /\ UNCHANGED <<text, touched, taken>>
        ELSE IF t.status = "modified"
        THEN /\ text' = Empty
             /\ tracked' = IF text = Empty THEN d
                           ELSE ScheduleDiffUpdate([d EXCEPT !.fresh = FALSE], "user", Empty)
             /\ touched' = Regions
             /\ Starts(text)
        ELSE tracked' = t /\ UNCHANGED <<text, touched, taken>>
  /\ UNCHANGED <<disk, undo, unsaved, agentEdits, userEdits, reviews, accepted, byUser, raced>>

\* handle_buffer_file_changed, for a file that is deleted by the tool or by
\* another program, and for one that is saved, renamed or comes back.
FileDeleted ==
  /\ disk
  /\ disk' = FALSE
  /\ tracked' = IF tracked # None /\ tracked.status # "deleted" THEN None ELSE tracked
  /\ UNCHANGED <<text, undo, unsaved, agentEdits, userEdits, reviews, touched, accepted, taken,
                 byUser, raced>>

FileAppeared ==
  /\ disk' = TRUE
  /\ IF tracked # None /\ tracked.status = "deleted"
     THEN /\ tracked' = Record(text)
          /\ touched' = {}
          /\ taken' = Found(text)
     ELSE UNCHANGED <<tracked, touched, taken>>
  /\ UNCHANGED <<text, undo, unsaved, agentEdits, userEdits, reviews, accepted, byUser, raced>>

-----------------------------------------------------------------------------
(* The task that maintains the diff. *)

\* Mutant: a user's edit conflicts with any hunk of the file.
ApplyNonConflictingEditsMutant(hunks, old, new, b) ==
  IF hunks = {} THEN new ELSE b

\* apply_non_conflicting_edits: the user's changes outside every hunk.
ApplyNonConflictingEdits(hunks, old, new, b) ==
  LET free == {h \in Hunks(old, new) : h \cap UNION hunks = {}}
  IN Take(UNION free, new, b)

\* Mutant: the author of the change is not looked at.
TrackEditsMutant ==
  /\ tracked # None /\ tracked.flight = None /\ tracked.queue # <<>>
  /\ LET u == Head(tracked.queue)
         b == ApplyNonConflictingEdits(tracked.unreviewed, tracked.snapshot, u.text, tracked.base)
     IN tracked' = [tracked EXCEPT !.queue = Tail(@),
                                   !.flight = [base |-> b, snapshot |-> u.text, shown |-> FALSE]]
  /\ UNCHANGED <<text, disk, undo, unsaved, agentEdits, userEdits, reviews, touched, accepted,
                 taken, byUser, raced>>

\* track_edits up to its await: what it reads now decides what it will write.
TrackEdits ==
  /\ tracked # None /\ tracked.flight = None /\ tracked.queue # <<>>
  /\ LET u == Head(tracked.queue)
         b == IF u.author = "user"
              THEN ApplyNonConflictingEdits(tracked.unreviewed, tracked.snapshot, u.text, tracked.base)
              ELSE tracked.base
     IN tracked' = [tracked EXCEPT !.queue = Tail(@),
                                   !.flight = [base |-> b, snapshot |-> u.text, shown |-> FALSE]]
  /\ UNCHANGED <<text, disk, undo, unsaved, agentEdits, userEdits, reviews, touched, accepted,
                 taken, byUser, raced>>

\* keep_committed_edits: hunks that were committed as they are count as kept.
\* Whether a whole-file hunk lines up with the committed one depends on the
\* file's last newline.  Buffer updates are taken first (select_biased).
KeepCommittedEdits ==
  /\ tracked # None /\ tracked.flight = None /\ tracked.queue = <<>>
  /\ tracked.commit # None
  /\ \E matches \in BOOLEAN :
       LET kept == {h \in tracked.unreviewed :
                      /\ \A r \in h : At(tracked.commit, r) = At(tracked.snapshot, r)
                      /\ h = Regions => matches}
       IN tracked' = [tracked EXCEPT
                        !.commit = None,
                        !.flight = [base |-> Take(UNION kept, tracked.snapshot, tracked.base),
                                    snapshot |-> tracked.snapshot, shown |-> FALSE]]
  /\ UNCHANGED <<text, disk, undo, unsaved, agentEdits, userEdits, reviews, touched, accepted,
                 taken, byUser, raced>>

\* update_diff: the BufferDiff is set first, the log's own fields after
\* another await.
SetDiff ==
  /\ tracked # None /\ tracked.flight # None /\ ~tracked.flight.shown
  /\ tracked' = [tracked EXCEPT
                   !.changed = Hunks(tracked.flight.base, tracked.flight.snapshot) # {},
                   !.flight.shown = TRUE]
  /\ UNCHANGED <<text, disk, undo, unsaved, agentEdits, userEdits, reviews, touched, accepted,
                 taken, byUser, raced>>

\* Mutant: the hunks are taken against the base before the update.
UpdateDiffMutant ==
  /\ tracked # None /\ tracked.flight # None /\ tracked.flight.shown
  /\ tracked' = [tracked EXCEPT
                   !.base = tracked.flight.base,
                   !.snapshot = tracked.flight.snapshot,
                   !.unreviewed = Hunks(tracked.base, tracked.flight.snapshot),
                   !.flight = None]
  /\ UNCHANGED <<text, disk, undo, unsaved, agentEdits, userEdits, reviews, touched, accepted,
                 taken, byUser, raced>>

UpdateDiff ==
  /\ tracked # None /\ tracked.flight # None /\ tracked.flight.shown
  /\ tracked' = [tracked EXCEPT
                   !.base = tracked.flight.base,
                   !.snapshot = tracked.flight.snapshot,
                   !.unreviewed = Hunks(tracked.flight.base, tracked.flight.snapshot),
                   !.flight = None]
  /\ UNCHANGED <<text, disk, undo, unsaved, agentEdits, userEdits, reviews, touched, accepted,
                 taken, byUser, raced>>

-----------------------------------------------------------------------------
(* Review. *)

Reviewed == reviews < MaxReviews /\ reviews' = reviews + 1

\* What a keep of the regions h leaves of a record that is not "deleted".
Kept(t, h, rest) ==
  ScheduleDiffUpdate(
    [t EXCEPT !.base = Take(h, t.snapshot, @),
              !.unreviewed = rest,
              !.status = IF rest = {} THEN "modified" ELSE @,
              !.existing = IF rest = {} THEN None ELSE @], "user", text)

\* History: reviewed hunks, except those with agent changes still to be diffed.
Cleared(H) == UNION {h \in H : h \cap AgentPending(tracked) = {}}

\* History of a keep; one that leaves no hunk accepts the whole file.
KeepHistory(H) ==
  LET all  == H = tracked.unreviewed
      rest == {{r} : r \in Regions \ UNION H}
  IN /\ accepted' = Accept(IF all THEN Regions ELSE UNION H, tracked.snapshot)
     /\ touched' = IF tracked.flight # None THEN touched
                   ELSE touched \ Cleared(IF all THEN H \cup rest ELSE H)
     /\ raced' = (raced \/ tracked.flight # None)

KeepEditsInRange ==
  /\ Reviewed
  /\ tracked # None
  /\ \E H \in SUBSET tracked.unreviewed :
       IF tracked.status = "deleted"
       THEN tracked' = None /\ UNCHANGED <<touched, accepted, raced>>
       ELSE /\ tracked' = Kept(tracked, UNION H, tracked.unreviewed \ H)
            /\ KeepHistory(H)
  /\ UNCHANGED <<text, disk, undo, unsaved, agentEdits, userEdits, taken, byUser>>

KeepAllEdits ==
  /\ Reviewed
  /\ tracked # None
  /\ IF tracked.status = "deleted"
     THEN tracked' = None /\ UNCHANGED <<touched, accepted, raced>>
     ELSE /\ tracked' = Kept(tracked, Regions, {})
          /\ KeepHistory(tracked.unreviewed)
  /\ UNCHANGED <<text, disk, undo, unsaved, agentEdits, userEdits, taken, byUser>>

\* History of a reject: when the file is rejected as one hunk before the agent's
\* changes of a part of it were diffed, it counts as changed as a whole.
Rejected(H) ==
  LET left == touched \ Cleared(H)
  IN IF Regions \in H /\ left # {} THEN Regions ELSE left

\* reject_edits_in_ranges of the hunks in H; when it returns nothing to undo,
\* last_reject_undo is old.
\* The rejected text is written by a plain edit, so it is queued as the user's.
\* Neither a reject nor an undo of single regions of a file that was emptied in
\* between is modelled: it would leave a part of a file.
Reject(H, old) ==
  CASE tracked.status = "created" /\ tracked.existing # None ->
         /\ text' = tracked.existing
         /\ tracked' = None
         /\ undo' = [hunks |-> {Regions}, text |-> text]
         /\ UNCHANGED <<disk, touched>>
    [] tracked.status = "created" /\ tracked.existing = None ->
         /\ disk' = IF tracked.fresh /\ text = tracked.snapshot THEN FALSE ELSE disk
         /\ tracked' = None
         /\ undo' = old
         /\ UNCHANGED <<text, touched>>
    [] tracked.status = "deleted" ->
         /\ text' = tracked.base
         /\ tracked' = Record(tracked.base)
         /\ undo' = old
         /\ touched' = {}
         /\ UNCHANGED disk
    [] tracked.status = "modified" ->
         /\ text = Empty => H \subseteq {Regions}
         /\ LET h == UNION H
                s == Take(h, tracked.base, text)
            IN /\ text' = s
               /\ tracked' = IF s = text THEN tracked
                             ELSE ScheduleDiffUpdate([tracked EXCEPT !.fresh = FALSE], "user", s)
               /\ touched' = Rejected(H)
               /\ undo' = IF H = {} THEN old ELSE [hunks |-> H, text |-> text]
         /\ UNCHANGED disk

\* From a review: the hunks the user chose.
RejectEditsInRanges ==
  /\ Reviewed
  /\ tracked # None
  /\ \E H \in SUBSET tracked.unreviewed : Reject(H, undo)
  /\ UNCHANGED <<unsaved, agentEdits, userEdits, accepted, taken, byUser, raced>>

\* Only buffers whose BufferDiff has hunks are rejected; what could be undone
\* before is forgotten in any case.
RejectAllEdits ==
  /\ Reviewed
  /\ IF tracked # None /\ tracked.changed THEN Reject(tracked.unreviewed, None)
     ELSE undo' = None /\ UNCHANGED <<text, disk, tracked, touched>>
  /\ UNCHANGED <<unsaved, agentEdits, userEdits, accepted, taken, byUser, raced>>

\* The restored text is announced as the agent's only when the buffer is not
\* tracked any more; otherwise its Edited event makes it the user's.
UndoLastReject ==
  /\ Reviewed
  /\ undo # None
  /\ text = Empty => undo.hunks = {Regions}
  /\ undo' = None
  /\ LET h == UNION undo.hunks
         s == Take(h, undo.text, text)
     IN /\ text' = s
        /\ accepted' = Accept(h, s)
        /\ Starts(s)
        /\ tracked' = IF tracked = None
                      THEN BufferEdited(s)
                      ELSE ScheduleDiffUpdate([tracked EXCEPT !.fresh = FALSE], "user", s)
        /\ touched' = IF tracked = None THEN {} ELSE touched \cup h
  /\ UNCHANGED <<disk, unsaved, agentEdits, userEdits, byUser, raced>>

\* The user commits the file (external): BaseTextChanged will be handled.
Commit ==
  /\ Reviewed
  /\ tracked # None /\ disk
  /\ tracked' = [tracked EXCEPT !.commit = text]
  /\ accepted' = Accept(Regions, text)
  /\ UNCHANGED <<text, disk, undo, unsaved, agentEdits, userEdits, touched, taken, byUser, raced>>

Next ==
  \/ BufferRead
  \/ BufferCreated
  \/ AgentEdit
  \/ UserEdit
  \/ Format
  \/ SaveAnnounced
  \/ WillDeleteBuffer
  \/ FileDeleted
  \/ FileAppeared
  \/ TrackEdits
  \/ KeepCommittedEdits
  \/ SetDiff
  \/ UpdateDiff
  \/ KeepEditsInRange
  \/ KeepAllEdits
  \/ RejectEditsInRanges
  \/ RejectAllEdits
  \/ UndoLastReject
  \/ Commit

Spec == Init /\ [][Next]_vars

-----------------------------------------------------------------------------
(* Properties. *)

Quiet == tracked # None /\ tracked.flight = None /\ tracked.queue = <<>>

\* Once every queued update is applied, the hunks applied to the diff base give
\* the buffer, whatever was kept, rejected or committed while updates were on
\* their way (the quiesce check of test_random_diffs).  A file that was only
\* announced with buffer_created has not been diffed yet.
QuietMeansExact ==
  Quiet /\ (tracked.status = "created" => tracked.changed) => /\ tracked.snapshot = text
           /\ tracked.unreviewed = Hunks(tracked.base, text)
           /\ tracked.changed = (tracked.unreviewed # {})

\* Every hunk that waits for review holds a change the agent made since the
\* user kept or rejected that region, or since tracking began: what the user
\* types elsewhere is taken into the diff base, and a hunk that was accepted
\* while no update was in flight does not come back.
OnlyAgentChangesUnreviewed ==
  Quiet => \A h \in tracked.unreviewed : h \cap touched # {}

\* Nothing the agent announced since the buffer is tracked gets into the diff
\* base, or into what a created file replaced, without the user: what a reject
\* restores is the file as it was at first, or the user wrote, kept, committed or
\* restored it, or the log took it without being told whose it is.  That is what
\* it found in the buffer when tracking began or began again, even if the agent
\* had written it, and what a formatter that a tool started has changed.  A keep
\* that raced an update in flight is left out.
AnnouncedEditsReviewed ==
  tracked # None /\ ~raced =>
    \A r \in Regions :
      /\ tracked.status # "created" => At(tracked.base, r) \in accepted[r] \cup taken[r]
      /\ tracked.existing # None => At(tracked.existing, r) \in accepted[r] \cup taken[r]
=============================================================================
