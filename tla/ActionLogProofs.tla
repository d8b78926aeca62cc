--------------------------- MODULE ActionLogProofs --------------------------
(***************************************************************************)
(* Invariants of ActionLog for any file, any number of edits by the agent  *)
(* and by the user, and any order of reviews and diff updates.             *)
(***************************************************************************)
EXTENDS ActionLog, SequenceTheorems, FiniteSetTheorems, TLAPS

Entries == [author : {"agent", "user"}, text : Texts]
Undos == [hunks : SUBSET SUBSET Regions, text : Texts]

Singles == {{r} : r \in Regions}

\* The text the i-th queued update is diffed against, and the last text queued
Before(t, i) ==
  IF i > 1 THEN t.queue[i - 1].text
  ELSE IF t.flight # None THEN t.flight.snapshot ELSE t.snapshot
Latest(t) == Before(t, Len(t.queue) + 1)

\* Hunks of single regions have both texts
Fits(H, s, x) == H \subseteq {Regions} \/ (H \subseteq Singles /\ s # Empty /\ x # Empty)

\* A record when the buffer holds x: the last update queued is the buffer's text,
\* and what is not under review is equal in the diff base and the snapshot
Sound(t, x) ==
  /\ t \in TrackedBuffers
  /\ Latest(t) = x
  /\ Fits(t.unreviewed, t.base, t.snapshot)
  /\ t.flight = None =>
       \A r \in Regions \ UNION t.unreviewed : At(t.base, r) = At(t.snapshot, r)
  /\ t.flight # None /\ t.flight.shown =>
       t.changed = (Hunks(t.flight.base, t.flight.snapshot) # {})

\* The diff is that of the diff base and the snapshot when nothing is on its way
Diffed(t) ==
  t.flight = None /\ t.queue = <<>> /\ (t.status = "created" => t.changed) =>
    /\ t.unreviewed = Hunks(t.base, t.snapshot)
    /\ t.changed = (t.unreviewed # {})

\* What the diff base may hold: what the user has accepted, and what the log took
\* without being told that it is the agent's
Allowed == [r \in Regions |-> accepted[r] \cup taken[r]]

\* Every region of x holds something that is allowed
From(x, acc) == \A r \in Regions : At(x, r) \in acc[r]

\* What is or will become part of the diff base is allowed
Sourced(t, acc) ==
  /\ t.status # "created" => From(t.base, acc)
  /\ t.status # "created" /\ t.flight # None => From(t.flight.base, acc)
  /\ t.existing # None => From(t.existing, acc)
  /\ t.commit # None => From(t.commit, acc)
  /\ \A i \in 1..Len(t.queue) : t.queue[i].author = "user" =>
       \A r \in Regions : At(t.queue[i].text, r) # At(Before(t, i), r) =>
                            At(t.queue[i].text, r) \in acc[r]

\* A record when the buffer holds x, the base may hold acc, and a keep raced if rc
Well(t, x, acc, rc) == Sound(t, x) /\ Diffed(t) /\ (~rc => Sourced(t, acc))

\* The inductive invariant
IInv ==
  /\ text \in Texts /\ disk \in BOOLEAN /\ raced \in BOOLEAN
  /\ Allowed \in [Regions -> SUBSET (Contents \cup {Empty})]
  /\ undo # None => undo \in Undos /\ Fits(undo.hunks, undo.text, undo.text)
  /\ tracked # None => Well(tracked, text, Allowed, raced)

-----------------------------------------------------------------------------
(* Texts and hunks. *)

\* No region is the whole file.
LEMMA RegionsApart == Regions # {} /\ \A r : {r} # Regions
<1>1. Cardinality({}) = 0
  BY FS_EmptySet
<1>2. \A r : Cardinality({r}) = 1
  BY FS_Singleton
<1>3. Cardinality(Regions) # 0 /\ Cardinality(Regions) # 1
  BY Bounds
<1> QED BY <1>1, <1>2, <1>3

\* At gives a text's contents, and Empty only for the empty text.
LEMMA AtTyped ==
  ASSUME NEW x \in Texts, NEW r \in Regions
  PROVE  /\ At(x, r) \in Contents \cup {Empty}
         /\ At(x, r) = Empty <=> x = Empty
BY Distinct DEF At, Texts

\* Taking the regions h of s into x, where h is trivial or both texts have regions.
LEMMA TakeAt ==
  ASSUME NEW h \in SUBSET Regions, NEW s \in Texts, NEW x \in Texts,
         h = {} \/ h = Regions \/ (s # Empty /\ x # Empty)
  PROVE  /\ Take(h, s, x) \in Texts
         /\ \A r \in h : At(Take(h, s, x), r) = At(s, r)
         /\ \A r \in Regions \ h : At(Take(h, s, x), r) = At(x, r)
         /\ s # Empty /\ x # Empty => Take(h, s, x) # Empty
<1>1. CASE h = {}
  BY <1>1 DEF Take
<1>2. CASE h = Regions
  BY <1>2 DEF Take
<1>3. CASE h # {} /\ h # Regions
  <2> DEFINE y == [r \in Regions |-> IF r \in h THEN s[r] ELSE x[r]]
  <2>1. Take(h, s, x) = y
    BY <1>3 DEF Take
  <2>2. s \in [Regions -> Contents] /\ x \in [Regions -> Contents]
    BY <1>3 DEF Texts
  <2>3. y \in [Regions -> Contents] /\ \A r \in Regions : y[r] = IF r \in h THEN s[r] ELSE x[r]
    BY <2>2
  <2>4. y # Empty /\ s # Empty /\ x # Empty
    BY <2>2, <2>3, Distinct
  <2> HIDE DEF y
  <2> QED BY <2>1, <2>2, <2>3, <2>4 DEF At, Texts
<1> QED BY <1>1, <1>2, <1>3

\* A diff has the hunks where the texts differ, single regions only between
\* texts that have regions.
LEMMA HunksOf ==
  ASSUME NEW s \in Texts, NEW x \in Texts
  PROVE  /\ Hunks(s, x) \in SUBSET SUBSET Regions
         /\ Fits(Hunks(s, x), s, x)
         /\ \A r \in Regions : r \in UNION Hunks(s, x) <=> At(s, r) # At(x, r)
<1>1. CASE s = x
  BY <1>1 DEF Hunks, Fits
<1>2. CASE s # x /\ Empty \in {s, x}
  <2>1. Hunks(s, x) = {Regions}
    BY <1>2 DEF Hunks
  <2>2. \A r \in Regions : At(s, r) # At(x, r)
    BY <1>2, AtTyped
  <2> QED BY <2>1, <2>2 DEF Fits
<1>3. CASE s # x /\ Empty \notin {s, x}
  <2>1. Hunks(s, x) = {{r} : r \in {q \in Regions : s[q] # x[q]}}
    BY <1>3 DEF Hunks
  <2>2. Hunks(s, x) \subseteq Singles
    BY <2>1 DEF Singles
  <2>3. \A r \in Regions : At(s, r) = s[r] /\ At(x, r) = x[r]
    BY <1>3 DEF At
  <2> QED BY <1>3, <2>1, <2>2, <2>3 DEF Fits, Singles
<1> QED BY <1>1, <1>2, <1>3

\* H are some of the hunks G, and cover the regions h
Covers(H, h, G) == G \subseteq SUBSET Regions /\ H \subseteq G /\ h = UNION H

\* What Fits says of some of the hunks and the regions they cover.
LEMMA FitsPart ==
  ASSUME NEW G, NEW s, NEW x, Fits(G, s, x), NEW H, NEW h, Covers(H, h, G)
  PROVE  /\ Fits(H, s, x)
         /\ h \in SUBSET Regions
         /\ h = {} \/ h = Regions \/ (s # Empty /\ x # Empty)
<1> USE DEF Covers
<1>1. Fits(H, s, x)
  BY DEF Fits
<1>2. h \in SUBSET Regions
  OBVIOUS
<1>3. CASE H \subseteq {Regions}
  <2>1. H = {} \/ H = {Regions}
    BY <1>3
  <2> QED BY <1>1, <1>2, <2>1
<1>4. CASE s # Empty /\ x # Empty
  BY <1>1, <1>2, <1>4
<1> QED BY <1>1, <1>3, <1>4 DEF Fits

\* One edit gives a text.
LEMMA EditedTyped ==
  ASSUME NEW x \in Texts, NEW s \in Edited(x)
  PROVE  s \in Texts
BY DEF Edited, Texts

-----------------------------------------------------------------------------
(* Records. *)

\* A record that counts the whole buffer as reviewed.
LEMMA RecordSound ==
  ASSUME NEW s \in Texts
  PROVE  /\ Sound(Record(s), s) /\ Diffed(Record(s))
         /\ Record(s).status = "modified"
         /\ \A acc : From(s, acc) => Sourced(Record(s), acc)
<1> DEFINE t == Record(s)
<1>1. /\ t.status = "modified" /\ t.existing = None /\ t.base = s /\ t.unreviewed = {}
      /\ t.snapshot = s /\ t.changed = FALSE /\ t.queue = <<>> /\ t.flight = None
      /\ t.commit = None /\ Len(t.queue) = 0
  BY DEF Record
<1>2. t \in TrackedBuffers
  BY DEF Record, TrackedBuffers
<1> HIDE DEF t
<1>3. Latest(t) = s
  BY <1>1 DEF Latest, Before
<1>4. Sound(t, s)
  BY <1>1, <1>2, <1>3 DEF Sound, Fits
<1>5. Diffed(t)
  <2>1. Hunks(s, s) = {}
    BY DEF Hunks
  <2> QED BY <1>1, <2>1 DEF Diffed
<1>6. ASSUME NEW acc, From(s, acc)
      PROVE  Sourced(t, acc)
  BY <1>1, <1>6 DEF Sourced
<1> QED BY <1>1, <1>4, <1>5, <1>6 DEF t

\* Records that differ only in what the invariant does not speak of.
LEMMA Alike ==
  ASSUME NEW t \in TrackedBuffers, NEW u \in TrackedBuffers, NEW x,
         u.status = "created" <=> t.status = "created",
         u.existing = t.existing, u.base = t.base, u.unreviewed = t.unreviewed,
         u.snapshot = t.snapshot, u.changed = t.changed, u.queue = t.queue,
         u.flight = t.flight, u.commit = t.commit
  PROVE  /\ Sound(t, x) => Sound(u, x)
         /\ Diffed(t) => Diffed(u)
         /\ \A acc : Sourced(t, acc) => Sourced(u, acc)
<1>1. \A i : Before(u, i) = Before(t, i)
  BY DEF Before
<1>2. Latest(u) = Latest(t)
  BY <1>1 DEF Latest
<1>3. Sound(t, x) => Sound(u, x)
  BY <1>2 DEF Sound
<1>4. Diffed(t) => Diffed(u)
  BY DEF Diffed
<1>5. ASSUME NEW acc, Sourced(t, acc)
      PROVE  Sourced(u, acc)
  BY <1>1, <1>5 DEF Sourced
<1> QED BY <1>3, <1>4, <1>5

\* Nothing that was allowed is taken back.
LEMMA SourcedGrows ==
  ASSUME NEW t, NEW acc, NEW more, \A r \in Regions : acc[r] \subseteq more[r]
  PROVE  /\ Sourced(t, acc) => Sourced(t, more)
         /\ \A x : From(x, acc) => From(x, more)
<1>1. \A x : From(x, acc) => From(x, more)
  BY DEF From
<1>2. ASSUME Sourced(t, acc)
      PROVE  Sourced(t, more)
  BY <1>1, <1>2 DEF Sourced
<1> QED BY <1>1, <1>2

\* Queueing an update: the buffer's text becomes s, and what a user's update
\* changes must have been accepted.
LEMMA ScheduleSound ==
  ASSUME NEW t, NEW x, NEW s \in Texts, NEW a \in {"agent", "user"}, Sound(t, x)
  PROVE  /\ Sound(ScheduleDiffUpdate(t, a, s), s)
         /\ Diffed(ScheduleDiffUpdate(t, a, s))
         /\ \A acc : /\ Sourced(t, acc)
                     /\ a = "user" => \A r \in Regions : At(s, r) # At(x, r) => At(s, r) \in acc[r]
                     => Sourced(ScheduleDiffUpdate(t, a, s), acc)
<1> DEFINE e == [author |-> a, text |-> s]
           u == ScheduleDiffUpdate(t, a, s)
           n == Len(t.queue)
<1>1. t \in TrackedBuffers /\ Latest(t) = x
  BY DEF Sound
<1>2. t.queue \in Seq(Entries) /\ e \in Entries /\ n \in Nat
  BY <1>1 DEF TrackedBuffers, Entries
<1>3. u = [t EXCEPT !.queue = Append(t.queue, e)]
  BY DEF ScheduleDiffUpdate
<1>4. /\ u.queue = Append(t.queue, e)
      /\ u.status = t.status /\ u.existing = t.existing /\ u.base = t.base
      /\ u.unreviewed = t.unreviewed /\ u.snapshot = t.snapshot /\ u.changed = t.changed
      /\ u.flight = t.flight /\ u.commit = t.commit
  BY <1>1, <1>3 DEF TrackedBuffers
<1>5. /\ Append(t.queue, e) \in Seq(Entries)
      /\ Len(Append(t.queue, e)) = n + 1
      /\ Append(t.queue, e)[n + 1] = e
      /\ \A i \in 1..n : Append(t.queue, e)[i] = t.queue[i]
  BY <1>2
<1>6. u \in TrackedBuffers
  BY <1>1, <1>3, <1>5 DEF TrackedBuffers, Entries
<1>7. e.author = a /\ e.text = s
  OBVIOUS
<1> HIDE DEF u, e, n
<1>8. Latest(u) = s
  BY <1>2, <1>4, <1>5, <1>7 DEF Latest, Before
<1>9. \A i \in 1..(n + 1) : Before(u, i) = Before(t, i)
  BY <1>2, <1>4, <1>5 DEF Before
<1>10. Sound(u, s)
  BY <1>4, <1>6, <1>8 DEF Sound
<1>11. Diffed(u)
  <2>1. u.queue # <<>>
    BY <1>2, <1>4, <1>5
  <2> QED BY <2>1 DEF Diffed
<1>12. ASSUME NEW acc, Sourced(t, acc),
              a = "user" => \A r \in Regions : At(s, r) # At(x, r) => At(s, r) \in acc[r]
       PROVE  Sourced(u, acc)
  <2>1. Before(u, n + 1) = x
    BY <1>1, <1>2, <1>9 DEF Latest, n
  <2>2. ASSUME NEW i \in 1..(n + 1), u.queue[i].author = "user",
               NEW r \in Regions, At(u.queue[i].text, r) # At(Before(u, i), r)
        PROVE  At(u.queue[i].text, r) \in acc[r]
    <3>1. CASE i = n + 1
      BY <1>4, <1>5, <1>7, <1>12, <2>1, <2>2, <3>1
    <3>2. CASE i # n + 1
      <4>1. i \in 1..n
        BY <1>2, <3>2
      <4>2. u.queue[i] = t.queue[i] /\ Before(u, i) = Before(t, i)
        BY <1>2, <1>4, <1>5, <1>9, <4>1
      <4> QED BY <1>12, <2>2, <4>1, <4>2 DEF Sourced, n
    <3> QED BY <3>1, <3>2
  <2>3. Len(u.queue) = n + 1
    BY <1>4, <1>5
  <2> QED BY <1>4, <1>12, <2>2, <2>3 DEF Sourced
<1> QED BY <1>10, <1>11, <1>12 DEF u

\* The same of a buffer that is well kept: a new record, another version or
\* status, more that is allowed, and one more update.
LEMMA RecordWell ==
  ASSUME NEW s \in Texts, NEW acc, NEW rc, From(s, acc)
  PROVE  Well(Record(s), s, acc, rc)
BY RecordSound DEF Well

\* Records that agree in what is diffed are well formed together.
LEMMA AlikeWell ==
  ASSUME NEW t, NEW u \in TrackedBuffers, NEW x, NEW acc, NEW rc, Well(t, x, acc, rc),
         u.status = "created" <=> t.status = "created",
         u.existing = t.existing, u.base = t.base, u.unreviewed = t.unreviewed,
         u.snapshot = t.snapshot, u.changed = t.changed, u.queue = t.queue,
         u.flight = t.flight, u.commit = t.commit
  PROVE  Well(u, x, acc, rc)
<1>1. t \in TrackedBuffers
  BY DEF Well, Sound
<1>2. /\ Sound(t, x) => Sound(u, x)
      /\ Diffed(t) => Diffed(u)
      /\ Sourced(t, acc) => Sourced(u, acc)
  BY <1>1, Alike, Zenon
<1> QED BY <1>2 DEF Well

\* More allowed contents do not spoil a record.
LEMMA WellGrows ==
  ASSUME NEW t, NEW x, NEW acc, NEW more, NEW rc, Well(t, x, acc, rc),
         \A r \in Regions : acc[r] \subseteq more[r]
  PROVE  Well(t, x, more, rc)
BY SourcedGrows DEF Well

\* Queuing an update with the buffer's new text (schedule_diff_update).
LEMMA ScheduleWell ==
  ASSUME NEW t, NEW x, NEW acc, NEW rc, Well(t, x, acc, rc),
         NEW s \in Texts, NEW a \in {"agent", "user"},
         a = "user" => \A r \in Regions : At(s, r) # At(x, r) => At(s, r) \in acc[r]
  PROVE  Well(ScheduleDiffUpdate(t, a, s), s, acc, rc)
<1>1. Sound(t, x) /\ (~rc => Sourced(t, acc))
  BY DEF Well
<1>2. /\ Sound(ScheduleDiffUpdate(t, a, s), s)
      /\ Diffed(ScheduleDiffUpdate(t, a, s))
      /\ Sourced(t, acc) => Sourced(ScheduleDiffUpdate(t, a, s), acc)
  BY <1>1, ScheduleSound, Zenon
<1> QED BY <1>1, <1>2 DEF Well

\* Changing the version or an undecided status does no harm.
LEMMA FreshWell ==
  ASSUME NEW t, NEW x, NEW acc, NEW rc, Well(t, x, acc, rc), NEW b \in BOOLEAN,
         NEW st \in {"modified", "created", "deleted"},
         st = "created" <=> t.status = "created"
  PROVE  /\ Well([t EXCEPT !.fresh = b], x, acc, rc)
         /\ Well([t EXCEPT !.status = st], x, acc, rc)
         /\ Well([t EXCEPT !.status = st, !.fresh = b], x, acc, rc)
         /\ [t EXCEPT !.fresh = b].status = t.status
<1>1. t \in TrackedBuffers
  BY DEF Well, Sound
<1>2. Well([t EXCEPT !.fresh = b], x, acc, rc)
  <2> DEFINE u == [t EXCEPT !.fresh = b]
  <2>1. /\ u \in TrackedBuffers /\ u.status = t.status
        /\ u.existing = t.existing /\ u.base = t.base /\ u.unreviewed = t.unreviewed
        /\ u.snapshot = t.snapshot /\ u.changed = t.changed /\ u.queue = t.queue
        /\ u.flight = t.flight /\ u.commit = t.commit
    BY <1>1 DEF TrackedBuffers
  <2> HIDE DEF u
  <2>2. Well(u, x, acc, rc)
    BY <2>1, AlikeWell
  <2> QED BY <2>2 DEF u
<1>3. Well([t EXCEPT !.status = st], x, acc, rc)
  <2> DEFINE u == [t EXCEPT !.status = st]
  <2>1. /\ u \in TrackedBuffers /\ u.status = st
        /\ u.existing = t.existing /\ u.base = t.base /\ u.unreviewed = t.unreviewed
        /\ u.snapshot = t.snapshot /\ u.changed = t.changed /\ u.queue = t.queue
        /\ u.flight = t.flight /\ u.commit = t.commit
    BY <1>1 DEF TrackedBuffers
  <2> HIDE DEF u
  <2>2. Well(u, x, acc, rc)
    BY <2>1, AlikeWell
  <2> QED BY <2>2 DEF u
<1>4. Well([t EXCEPT !.status = st, !.fresh = b], x, acc, rc)
  <2> DEFINE u == [t EXCEPT !.status = st, !.fresh = b]
  <2>1. /\ u \in TrackedBuffers /\ u.status = st
        /\ u.existing = t.existing /\ u.base = t.base /\ u.unreviewed = t.unreviewed
        /\ u.snapshot = t.snapshot /\ u.changed = t.changed /\ u.queue = t.queue
        /\ u.flight = t.flight /\ u.commit = t.commit
    BY <1>1 DEF TrackedBuffers
  <2> HIDE DEF u
  <2>2. Well(u, x, acc, rc)
    BY <2>1, AlikeWell
  <2> QED BY <2>2 DEF u
<1>5. [t EXCEPT !.fresh = b].status = t.status
  BY <1>1 DEF TrackedBuffers
<1> QED BY <1>2, <1>3, <1>4, <1>5

\* The user accepts x in the regions h, or a formatter writes it there.
LEMMA Accepting ==
  ASSUME IInv, NEW h \in SUBSET Regions, NEW x \in Texts,
         \/ accepted' = Accept(h, x) /\ taken' = taken
         \/ accepted' = accepted /\ taken' = Also(taken, h, x)
  PROVE  /\ Allowed' \in [Regions -> SUBSET (Contents \cup {Empty})]
         /\ \A r \in Regions : Allowed[r] \subseteq Allowed'[r]
         /\ \A r \in h : At(x, r) \in Allowed'[r]
         /\ h = Regions => From(x, Allowed')
<1>1. Allowed \in [Regions -> SUBSET (Contents \cup {Empty})]
  BY DEF IInv
<1>2. \A r \in Regions : At(x, r) \in Contents \cup {Empty}
  BY AtTyped
<1>3. \A r \in Regions : Allowed'[r] = Allowed[r] \cup IF r \in h THEN {At(x, r)} ELSE {}
  BY DEF Accept, Also, Allowed
<1>4. Allowed' = [r \in Regions |-> Allowed'[r]]
  BY DEF Allowed
<1>5. Allowed' \in [Regions -> SUBSET (Contents \cup {Empty})]
  <2>1. \A r \in Regions : Allowed'[r] \in SUBSET (Contents \cup {Empty})
    BY <1>1, <1>2, <1>3
  <2> QED BY <1>4, <2>1
<1>6. /\ \A r \in Regions : Allowed[r] \subseteq Allowed'[r]
      /\ \A r \in h : At(x, r) \in Allowed'[r]
  BY <1>3
<1> QED BY <1>5, <1>6 DEF From

\* Tracking begins with x, which the user may have restored in a part h.
LEMMA Finding ==
  ASSUME IInv, NEW x \in Texts, taken' = Found(x), NEW h \in SUBSET Regions,
         accepted' = accepted \/ accepted' = Accept(h, x)
  PROVE  Allowed' \in [Regions -> SUBSET (Contents \cup {Empty})] /\ From(x, Allowed')
<1>1. Allowed \in [Regions -> SUBSET (Contents \cup {Empty})]
  BY DEF IInv
<1>2. \A r \in Regions : At(x, r) \in Contents \cup {Empty}
  BY AtTyped
<1>3. \A r \in Regions : At(x, r) \in Allowed'[r] /\ Allowed'[r] \subseteq Allowed[r] \cup {At(x, r)}
  BY DEF Accept, Also, Found, Allowed
<1>4. Allowed' = [r \in Regions |-> Allowed'[r]]
  BY DEF Allowed
<1>5. \A r \in Regions : Allowed'[r] \in SUBSET (Contents \cup {Empty})
  BY <1>1, <1>2, <1>3
<1> QED BY <1>3, <1>4, <1>5 DEF From

\* The other steps leave what is allowed as it is.
LEMMA Staying == accepted' = accepted /\ taken' = taken => Allowed' = Allowed
BY DEF Allowed

\* Every action but the buffer's own fields: what a step must give.
LEMMA Assemble ==
  ASSUME IInv, text' \in Texts, disk' \in BOOLEAN, raced' \in BOOLEAN,
         Allowed' \in [Regions -> SUBSET (Contents \cup {Empty})],
         undo' # None => undo' \in Undos /\ Fits(undo'.hunks, undo'.text, undo'.text),
         tracked' # None => Well(tracked', text', Allowed', raced')
  PROVE  IInv'
BY DEF IInv

-----------------------------------------------------------------------------
(* Tracking. *)

\* What the invariant says, in the parts the actions use.
LEMMA Parts ==
  ASSUME IInv
  PROVE  /\ text \in Texts /\ disk \in BOOLEAN /\ raced \in BOOLEAN
         /\ Allowed \in [Regions -> SUBSET (Contents \cup {Empty})]
         /\ undo # None => undo \in Undos /\ Fits(undo.hunks, undo.text, undo.text)
         /\ tracked # None => Well(tracked, text, Allowed, raced) /\ tracked \in TrackedBuffers
         /\ \A r \in Regions : Allowed[r] \subseteq Allowed[r]
BY DEF IInv, Well, Sound

\* buffer_read starts to track a buffer or marks the record as fresh.
LEMMA BufferReadStep ==
  ASSUME IInv, BufferRead
  PROVE  IInv'
<1>1. /\ text' = text /\ disk' = disk /\ undo' = undo /\ raced' = raced
      /\ tracked' = Track(FALSE, text)
  BY DEF BufferRead
<1>2. CASE tracked = None
  <2>1. taken' = Found(text) /\ accepted' = accepted /\ tracked' = Record(text)
    BY <1>1, <1>2 DEF BufferRead, Starts, Track
  <2>2. From(text, Allowed') /\ Allowed' \in [Regions -> SUBSET (Contents \cup {Empty})]
    BY <2>1, Finding, Parts
  <2>3. Well(tracked', text', Allowed', raced')
    BY <1>1, <2>1, <2>2, RecordWell, Parts
  <2> QED BY <1>1, <2>2, <2>3, Assemble, Parts
<1>3. CASE tracked # None
  <2>1. Allowed' = Allowed /\ tracked' = [tracked EXCEPT !.fresh = TRUE]
    BY <1>1, <1>3, Staying DEF BufferRead, Starts, Track
  <2>2. tracked.status \in {"modified", "created", "deleted"}
    BY <1>3, Parts DEF TrackedBuffers
  <2>3. Well(tracked, text, Allowed, raced)
    BY <1>3, Parts
  <2>4. Well([tracked EXCEPT !.fresh = TRUE], text, Allowed, raced)
    BY <2>2, <2>3, FreshWell, Zenon
  <2> QED BY <1>1, <2>1, <2>4, Assemble, Parts
<1> QED BY <1>2, <1>3

\* A created file's record: the whole file waits for review.
LEMMA BufferCreatedStep ==
  ASSUME IInv, BufferCreated
  PROVE  IInv'
<1> DEFINE ex == IF tracked = None THEN IF disk THEN text ELSE None
                 ELSE IF tracked.status = "created" THEN tracked.existing ELSE tracked.base
           u == [Record(text) EXCEPT !.status = "created", !.existing = ex,
                                     !.base = Empty, !.unreviewed = {Regions}]
<1>1. /\ text' = text /\ disk' = disk /\ undo' = undo /\ raced' = raced
      /\ accepted' = accepted /\ taken' = IF tracked = None THEN Found(text) ELSE taken
  BY DEF BufferCreated, Starts
<1>2. tracked' = u
  BY DEF BufferCreated, Track
<1>3. ex \in Texts \cup {None}
  BY Parts DEF TrackedBuffers
<1>4. /\ Allowed' \in [Regions -> SUBSET (Contents \cup {Empty})]
      /\ tracked = None => From(text, Allowed')
      /\ tracked # None => Allowed' = Allowed
  <2>1. CASE tracked = None
    BY <1>1, <2>1, Finding, Parts
  <2>2. CASE tracked # None
    BY <1>1, <2>2, Staying, Parts
  <2> QED BY <2>1, <2>2
<1>5. ~raced /\ ex # None => From(ex, Allowed')
  <2>1. CASE tracked = None
    BY <1>4, <2>1
  <2>2. CASE tracked # None
    <3>1. ~raced => Sourced(tracked, Allowed)
      BY <2>2, Parts DEF Well
    <3> QED BY <1>4, <2>2, <3>1 DEF Sourced
  <2> QED BY <2>1, <2>2
<1> HIDE DEF ex
<1>6. /\ u.status = "created" /\ u.existing = ex /\ u.base = Empty /\ u.unreviewed = {Regions}
      /\ u.snapshot = text /\ u.changed = FALSE /\ u.queue = <<>> /\ u.flight = None
      /\ u.commit = None /\ Len(u.queue) = 0
  BY DEF Record
<1>7. u \in TrackedBuffers
  <2>1. text \in Texts /\ Empty \in Texts /\ {Regions} \in SUBSET SUBSET Regions
    BY Parts DEF Texts
  <2>2. Record(text) \in TrackedBuffers
    BY <2>1, RecordSound DEF Sound
  <2> QED BY <1>3, <2>1, <2>2 DEF TrackedBuffers
<1> HIDE DEF u
<1>8. Sound(u, text)
  <2>1. Latest(u) = text
    BY <1>6 DEF Latest, Before
  <2>2. UNION u.unreviewed = Regions
    BY <1>6
  <2> QED BY <1>6, <1>7, <2>1, <2>2 DEF Sound, Fits
<1>9. Diffed(u)
  BY <1>6 DEF Diffed
<1>10. ~raced => Sourced(u, Allowed')
  BY <1>5, <1>6 DEF Sourced
<1>11. Well(tracked', text', Allowed', raced')
  BY <1>1, <1>2, <1>8, <1>9, <1>10 DEF Well
<1> QED BY <1>1, <1>4, <1>11, Assemble, Parts

\* The record buffer_edited leaves.
LEMMA BufferEditedWell ==
  ASSUME IInv, NEW s \in Texts, NEW acc,
         tracked = None => From(s, acc), tracked # None => acc = Allowed
  PROVE  Well(BufferEdited(s), s, acc, raced)
<1> DEFINE t == Track(FALSE, s)
           u == [t EXCEPT !.status = IF @ = "deleted" THEN "modified" ELSE @]
           x == IF tracked = None THEN s ELSE text
<1>1. BufferEdited(s) = ScheduleDiffUpdate(u, "agent", s)
  BY DEF BufferEdited
<1>2. Well(t, x, acc, raced)
  <2>1. CASE tracked = None
    BY <2>1, RecordWell DEF Track
  <2>2. CASE tracked # None
    <3>1. t = [tracked EXCEPT !.fresh = TRUE]
      BY <2>2 DEF Track
    <3>2. tracked.status \in {"modified", "created", "deleted"}
      BY <2>2, Parts DEF TrackedBuffers
    <3>3. Well(tracked, text, Allowed, raced)
      BY <2>2, Parts
    <3>4. Well([tracked EXCEPT !.fresh = TRUE], text, Allowed, raced)
      BY <3>2, <3>3, FreshWell, Zenon
    <3> QED BY <2>2, <3>1, <3>4
  <2> QED BY <2>1, <2>2
<1> HIDE DEF t, x
<1>3. t \in TrackedBuffers
  BY <1>2 DEF Well, Sound
<1> DEFINE st == IF t.status = "deleted" THEN "modified" ELSE t.status
<1>4. st \in {"modified", "created", "deleted"} /\ (st = "created" <=> t.status = "created")
  BY <1>3 DEF TrackedBuffers
<1>5. u = [t EXCEPT !.status = st]
  OBVIOUS
<1> HIDE DEF st, u
<1>6. Well(u, x, acc, raced)
  BY <1>2, <1>4, <1>5, FreshWell
<1>7. Well(ScheduleDiffUpdate(u, "agent", s), s, acc, raced)
  BY <1>6, ScheduleWell
<1> QED BY <1>1, <1>7

\* A text announced with buffer_edited.
LEMMA Announcing ==
  ASSUME IInv, NEW s \in Texts, text' = s, tracked' = BufferEdited(s), Starts(s),
         UNCHANGED <<disk, undo, raced, accepted>>
  PROVE  IInv'
<1>1. /\ Allowed' \in [Regions -> SUBSET (Contents \cup {Empty})]
      /\ tracked = None => From(s, Allowed')
      /\ tracked # None => Allowed' = Allowed
  <2>1. CASE tracked = None
    BY <2>1, Finding DEF Starts
  <2>2. CASE tracked # None
    BY <2>2, Staying, Parts DEF Starts
  <2> QED BY <2>1, <2>2
<1>2. Well(tracked', text', Allowed', raced')
  BY <1>1, BufferEditedWell
<1> QED BY <1>1, <1>2, Assemble, Parts

\* An edit by a tool, and its last announcement, after the formatter.
LEMMA AgentEditStep ==
  ASSUME IInv, AgentEdit \/ SaveAnnounced
  PROVE  IInv'
<1>1. PICK s \in Edited(text) \cup {text} : text' = s /\ tracked' = BufferEdited(s) /\ Starts(s)
  BY DEF AgentEdit, SaveAnnounced
<1>2. UNCHANGED <<disk, undo, raced, accepted>>
  BY DEF AgentEdit, SaveAnnounced
<1>3. s \in Texts
  BY EditedTyped, Parts
<1> QED BY <1>1, <1>2, <1>3, Announcing

\* An edit by the user or a formatter, queued by handle_buffer_edited.
LEMMA UserEditStep ==
  ASSUME IInv, UserEdit \/ Format
  PROVE  IInv'
<1>1. PICK s \in Edited(text) :
        /\ UserEdited(s)
        /\ \/ accepted' = Accept(UNION Hunks(text, s), s) /\ taken' = taken
           \/ accepted' = accepted /\ taken' = Also(taken, UNION Hunks(text, s), s)
  BY DEF UserEdit, Format
<1>2. disk' = disk /\ undo' = undo /\ raced' = raced
  BY DEF UserEdit, Format
<1>3. s \in Texts /\ text \in Texts
  BY EditedTyped, Parts
<1> DEFINE h == UNION Hunks(text, s)
<1>4. /\ h \in SUBSET Regions
      /\ \A r \in Regions : At(s, r) # At(text, r) => r \in h
  BY <1>3, HunksOf
<1>5. /\ text' = s
      /\ \/ accepted' = Accept(h, s) /\ taken' = taken
         \/ accepted' = accepted /\ taken' = Also(taken, h, s)
  BY <1>1 DEF UserEdited
<1> HIDE DEF h
<1>6. /\ Allowed' \in [Regions -> SUBSET (Contents \cup {Empty})]
      /\ \A r \in Regions : Allowed[r] \subseteq Allowed'[r]
      /\ \A r \in Regions : At(s, r) # At(text, r) => At(s, r) \in Allowed'[r]
  BY <1>3, <1>4, <1>5, Accepting
<1>7. ASSUME tracked' # None
      PROVE  Well(tracked', text', Allowed', raced')
  <2> DEFINE t == [tracked EXCEPT !.fresh = FALSE]
  <2>1. tracked # None /\ tracked' = ScheduleDiffUpdate(t, "user", s)
    BY <1>1, <1>7 DEF UserEdited
  <2>2. tracked.status \in {"modified", "created", "deleted"}
    BY <2>1, Parts DEF TrackedBuffers
  <2>3. Well(tracked, text, Allowed, raced)
    BY <2>1, Parts
  <2>4. Well(t, text, Allowed, raced)
    BY <2>2, <2>3, FreshWell, Zenon
  <2> HIDE DEF t
  <2>5. Well(t, text, Allowed', raced)
    BY <1>6, <2>4, WellGrows
  <2>6. Well(ScheduleDiffUpdate(t, "user", s), s, Allowed', raced)
    BY <1>3, <1>6, <2>5, ScheduleWell
  <2> QED BY <1>2, <1>5, <2>1, <2>6
<1> QED BY <1>2, <1>3, <1>5, <1>6, <1>7, Assemble, Parts

\* will_delete_buffer queues the empty text, once or twice.
LEMMA WillDeleteBufferStep ==
  ASSUME IInv, WillDeleteBuffer
  PROVE  IInv'
<1> DEFINE t == Track(FALSE, text)
<1>1. disk' = disk /\ undo' = undo /\ raced' = raced
  BY DEF WillDeleteBuffer
<1>2. CASE t.status = "created"
  <2>1. tracked' = None /\ text' = text /\ Allowed' = Allowed
    BY <1>2, Staying DEF WillDeleteBuffer
  <2> QED BY <1>1, <2>1, Assemble, Parts
<1>3. CASE t.status = "modified"
  <2> DEFINE u == [t EXCEPT !.status = "deleted"]
             d == ScheduleDiffUpdate(u, "agent", Empty)
             v == [d EXCEPT !.fresh = FALSE]
  <2>1. /\ text' = Empty /\ accepted' = accepted /\ Starts(text)
        /\ tracked' = IF text = Empty THEN d ELSE ScheduleDiffUpdate(v, "user", Empty)
    BY <1>3 DEF WillDeleteBuffer
  <2>2. /\ Allowed' \in [Regions -> SUBSET (Contents \cup {Empty})]
        /\ tracked = None => From(text, Allowed')
        /\ tracked # None => Allowed' = Allowed
    <3>1. CASE tracked = None
      BY <2>1, <3>1, Finding, Parts DEF Starts
    <3>2. CASE tracked # None
      BY <2>1, <3>2, Staying, Parts DEF Starts
    <3> QED BY <3>1, <3>2
  <2>3. Well(t, text, Allowed', raced)
    <3>1. CASE tracked = None
      BY <2>2, <3>1, RecordWell, Parts DEF Track
    <3>2. CASE tracked # None
      <4>1. t = [tracked EXCEPT !.fresh = TRUE]
        BY <3>2 DEF Track
      <4>2. tracked.status \in {"modified", "created", "deleted"}
        BY <3>2, Parts DEF TrackedBuffers
      <4>3. Well(tracked, text, Allowed, raced)
        BY <3>2, Parts
      <4>4. Well([tracked EXCEPT !.fresh = TRUE], text, Allowed, raced)
        BY <4>2, <4>3, FreshWell, Zenon
      <4> QED BY <2>2, <3>2, <4>1, <4>4
    <3> QED BY <3>1, <3>2
  <2> HIDE DEF t
  <2>4. Well(u, text, Allowed', raced)
    BY <1>3, <2>3, FreshWell
  <2>5. Empty \in Texts
    BY DEF Texts
  <2> HIDE DEF u
  <2>6. Well(d, Empty, Allowed', raced)
    BY <2>4, <2>5, ScheduleWell
  <2> HIDE DEF d
  <2>7. Well(v, Empty, Allowed', raced)
    <3>1. d.status \in {"modified", "created", "deleted"}
      BY <2>6 DEF Well, Sound, TrackedBuffers
    <3> QED BY <2>6, <3>1, FreshWell, Zenon
  <2> HIDE DEF v
  <2>8. Well(ScheduleDiffUpdate(v, "user", Empty), Empty, Allowed', raced)
    BY <2>5, <2>7, ScheduleWell
  <2> QED BY <1>1, <2>1, <2>2, <2>5, <2>6, <2>8, Assemble, Parts
<1>4. CASE t.status \notin {"created", "modified"}
  <2>1. tracked' = t /\ text' = text /\ Allowed' = Allowed
    BY <1>4, Staying DEF WillDeleteBuffer
  <2>2. tracked # None
    BY <1>4, RecordSound, Parts DEF Track
  <2>3. t = [tracked EXCEPT !.fresh = TRUE]
    BY <2>2 DEF Track
  <2>4. tracked.status \in {"modified", "created", "deleted"}
    BY <2>2, Parts DEF TrackedBuffers
  <2>5. Well(tracked, text, Allowed, raced)
    BY <2>2, Parts
  <2>6. Well([tracked EXCEPT !.fresh = TRUE], text, Allowed, raced)
    BY <2>4, <2>5, FreshWell, Zenon
  <2> QED BY <1>1, <2>1, <2>3, <2>6, Assemble, Parts
<1> QED BY <1>2, <1>3, <1>4

\* The file is deleted: a record that does not wait for that is dropped.
LEMMA FileDeletedStep ==
  ASSUME IInv, FileDeleted
  PROVE  IInv'
<1>1. /\ text' = text /\ disk' = FALSE /\ undo' = undo /\ raced' = raced /\ Allowed' = Allowed
      /\ tracked' # None => tracked' = tracked
  BY Staying DEF FileDeleted
<1> QED BY <1>1, Assemble, Parts

\* A deleted file comes back: its record starts afresh.
LEMMA FileAppearedStep ==
  ASSUME IInv, FileAppeared
  PROVE  IInv'
<1>1. text' = text /\ disk' = TRUE /\ undo' = undo /\ raced' = raced
  BY DEF FileAppeared
<1>2. CASE tracked # None /\ tracked.status = "deleted"
  <2>1. tracked' = Record(text) /\ taken' = Found(text) /\ accepted' = accepted
    BY <1>2 DEF FileAppeared
  <2>2. From(text, Allowed') /\ Allowed' \in [Regions -> SUBSET (Contents \cup {Empty})]
    BY <2>1, Finding, Parts
  <2>3. Well(tracked', text', Allowed', raced')
    BY <1>1, <2>1, <2>2, RecordWell, Parts
  <2> QED BY <1>1, <2>2, <2>3, Assemble, Parts
<1>3. CASE ~(tracked # None /\ tracked.status = "deleted")
  <2>1. tracked' = tracked /\ Allowed' = Allowed
    BY <1>3, Staying DEF FileAppeared
  <2> QED BY <1>1, <2>1, Assemble, Parts
<1> QED BY <1>2, <1>3

-----------------------------------------------------------------------------
(* The diff. *)

\* Where the diff base is empty and the snapshot is not, the whole file is
\* under review.
LEMMA EmptyBaseReviewed ==
  ASSUME NEW t, NEW x, Sound(t, x), t.flight = None, t.base = Empty, t.snapshot # Empty,
         NEW r \in Regions
  PROVE  r \in UNION t.unreviewed
<1>1. t.base \in Texts /\ t.snapshot \in Texts
  BY DEF Sound, TrackedBuffers
<1>2. At(t.base, r) # At(t.snapshot, r)
  BY <1>1, AtTyped
<1> QED BY <1>2 DEF Sound

\* Rebasing the diff base over a user's update.
LEMMA Rebase ==
  ASSUME NEW t, NEW x, Sound(t, x), t.flight = None, NEW new \in Texts
  PROVE  LET b == ApplyNonConflictingEdits(t.unreviewed, t.snapshot, new, t.base)
         IN  /\ b \in Texts
             /\ \A r \in Regions : \/ At(b, r) = At(t.base, r)
                                   \/ At(b, r) = At(new, r) /\ At(new, r) # At(t.snapshot, r)
             /\ \A r \in Regions : At(new, r) # At(t.snapshot, r) =>
                  \/ At(b, r) = At(new, r)
                  \/ \E h \in Hunks(t.snapshot, new) : r \in h /\ h \cap UNION t.unreviewed # {}
<1> DEFINE G == Hunks(t.snapshot, new)
           free == {h \in G : h \cap UNION t.unreviewed = {}}
           f == UNION free
<1>1. t.base \in Texts /\ t.snapshot \in Texts /\ t.unreviewed \in SUBSET SUBSET Regions
  BY DEF Sound, TrackedBuffers
<1>2. /\ Covers(free, f, G) /\ Fits(G, t.snapshot, new)
      /\ \A r \in Regions : r \in UNION G <=> At(t.snapshot, r) # At(new, r)
  BY <1>1, HunksOf DEF Covers
<1>3. /\ free \subseteq G /\ f = UNION free /\ \A h \in free : h \cap UNION t.unreviewed = {}
      /\ G = Hunks(t.snapshot, new) /\ \A h \in G : h \cap UNION t.unreviewed # {} \/ h \in free
  OBVIOUS
<1>4. ApplyNonConflictingEdits(t.unreviewed, t.snapshot, new, t.base) = Take(f, new, t.base)
  BY DEF ApplyNonConflictingEdits
<1> HIDE DEF G, free, f
<1>5. /\ f \in SUBSET Regions
      /\ f = {} \/ f = Regions \/ (t.snapshot # Empty /\ new # Empty)
  BY <1>2, FitsPart
<1>6. f = {} \/ f = Regions \/ (new # Empty /\ t.base # Empty)
  <2>1. ASSUME t.base = Empty, t.snapshot # Empty
        PROVE  f = {}
    <3>1. \A r \in Regions : r \in UNION t.unreviewed
      BY <2>1, EmptyBaseReviewed
    <3> QED BY <1>3, <1>5, <3>1
  <2> QED BY <1>5, <2>1
<1>7. /\ Take(f, new, t.base) \in Texts
      /\ \A r \in f : At(Take(f, new, t.base), r) = At(new, r)
      /\ \A r \in Regions \ f : At(Take(f, new, t.base), r) = At(t.base, r)
  BY <1>1, <1>5, <1>6, TakeAt
<1>8. \A r \in f : At(new, r) # At(t.snapshot, r)
  BY <1>2, <1>3, <1>5
<1>9. \A r \in Regions : At(new, r) # At(t.snapshot, r) =>
        r \in f \/ \E h \in G : r \in h /\ h \cap UNION t.unreviewed # {}
  BY <1>2, <1>3
<1> QED BY <1>3, <1>4, <1>7, <1>8, <1>9

\* track_edits takes the first update of the queue.
LEMMA TakenUp ==
  ASSUME NEW t, NEW x, NEW acc, NEW rc, Well(t, x, acc, rc), t.flight = None, t.queue # <<>>,
         NEW b \in Texts, ~rc /\ t.status # "created" => From(b, acc)
  PROVE  Well([t EXCEPT !.queue = Tail(t.queue),
                        !.flight = [base |-> b, snapshot |-> Head(t.queue).text, shown |-> FALSE]],
              x, acc, rc)
<1> DEFINE f == [base |-> b, snapshot |-> Head(t.queue).text, shown |-> FALSE]
           q == Tail(t.queue)
           u == [t EXCEPT !.queue = q, !.flight = f]
           n == Len(t.queue)
<1>1. Sound(t, x) /\ t \in TrackedBuffers /\ Latest(t) = x
  BY DEF Well, Sound
<1>2. t.queue \in Seq(Entries) /\ n \in Nat \ {0}
  <2>1. t.queue \in Seq(Entries)
    BY <1>1 DEF TrackedBuffers, Entries
  <2> QED BY <2>1
<1>3. /\ q \in Seq(Entries) /\ Len(q) = n - 1 /\ \A i \in 1..(n - 1) : q[i] = t.queue[i + 1]
      /\ Head(t.queue) = t.queue[1] /\ t.queue[1] \in Entries
  BY <1>2
<1>4. f \in Flights /\ f # None
  <2>1. f \in Flights
    BY <1>3 DEF Flights, Entries
  <2> QED BY <2>1, Distinct
<1>5. f.base = b /\ f.snapshot = t.queue[1].text /\ f.shown = FALSE
  BY <1>3
<1> HIDE DEF f, q, n
<1>6. u \in TrackedBuffers
  BY <1>1, <1>3, <1>4 DEF TrackedBuffers, Entries
<1>7. /\ u.queue = q /\ u.flight = f
      /\ u.status = t.status /\ u.existing = t.existing /\ u.base = t.base
      /\ u.unreviewed = t.unreviewed /\ u.snapshot = t.snapshot /\ u.changed = t.changed
      /\ u.commit = t.commit
  BY <1>1 DEF TrackedBuffers
<1> HIDE DEF u
<1>8. \A i \in 1..n : Before(u, i) = Before(t, i + 1)
  <2> TAKE i \in 1..n
  <2>1. CASE i = 1
    BY <1>2, <1>4, <1>5, <1>7, <2>1 DEF Before
  <2>2. CASE i # 1
    <3>1. i - 1 \in 1..(n - 1) /\ i > 1 /\ i + 1 > 1 /\ (i - 1) + 1 = i /\ (i + 1) - 1 = i
      BY <1>2, <2>2
    <3>2. q[i - 1] = t.queue[i]
      BY <1>3, <3>1
    <3> QED BY <1>7, <3>1, <3>2 DEF Before
  <2> QED BY <2>1, <2>2
<1>9. Latest(u) = x
  <2>1. n \in 1..n /\ Len(u.queue) + 1 = n
    BY <1>2, <1>3, <1>7
  <2> QED BY <1>1, <1>8, <2>1 DEF Latest, n
<1>10. Sound(u, x)
  BY <1>1, <1>4, <1>5, <1>6, <1>7, <1>9 DEF Sound
<1>11. Diffed(u)
  BY <1>4, <1>7 DEF Diffed
<1>12. ASSUME ~rc
       PROVE  Sourced(u, acc)
  <2>1. Sourced(t, acc)
    BY <1>12 DEF Well
  <2>2. ASSUME NEW i \in 1..(n - 1), u.queue[i].author = "user",
               NEW r \in Regions, At(u.queue[i].text, r) # At(Before(u, i), r)
        PROVE  At(u.queue[i].text, r) \in acc[r]
    <3>1. i + 1 \in 1..n /\ i \in 1..n
      BY <1>2
    <3>2. u.queue[i] = t.queue[i + 1] /\ Before(u, i) = Before(t, i + 1)
      BY <1>3, <1>7, <1>8, <3>1
    <3> QED BY <2>1, <2>2, <3>1, <3>2 DEF Sourced, n
  <2>3. Len(u.queue) = n - 1
    BY <1>3, <1>7
  <2> QED BY <1>5, <1>7, <1>12, <2>1, <2>2, <2>3 DEF Sourced
<1>13. Well(u, x, acc, rc)
  BY <1>10, <1>11, <1>12 DEF Well
<1> QED BY <1>13 DEF u, q, f

\* track_edits takes an update from the queue.
LEMMA TrackEditsStep ==
  ASSUME IInv, TrackEdits
  PROVE  IInv'
<1> DEFINE e == Head(tracked.queue)
           b == IF e.author = "user"
                THEN ApplyNonConflictingEdits(tracked.unreviewed, tracked.snapshot, e.text, tracked.base)
                ELSE tracked.base
           u == [tracked EXCEPT !.queue = Tail(tracked.queue),
                                !.flight = [base |-> b, snapshot |-> Head(tracked.queue).text,
                                            shown |-> FALSE]]
<1>1. /\ tracked # None /\ tracked.flight = None /\ tracked.queue # <<>>
      /\ text' = text /\ disk' = disk /\ undo' = undo /\ raced' = raced /\ Allowed' = Allowed
  BY Staying DEF TrackEdits
<1>2. tracked' = u
  BY DEF TrackEdits
<1>3. Well(tracked, text, Allowed, raced) /\ tracked \in TrackedBuffers
  BY <1>1, Parts
<1>4. /\ tracked.queue \in Seq(Entries) /\ tracked.base \in Texts /\ tracked.snapshot \in Texts
      /\ Len(tracked.queue) \in Nat \ {0}
  BY <1>1, <1>3 DEF TrackedBuffers, Entries
<1>5. e = tracked.queue[1] /\ e.text \in Texts /\ 1 \in 1..Len(tracked.queue)
  <2>1. e = tracked.queue[1] /\ e \in Entries /\ 1 \in 1..Len(tracked.queue)
    BY <1>4
  <2> HIDE DEF e
  <2> QED BY <2>1 DEF Entries
<1>6. /\ b \in Texts
      /\ e.author # "user" => b = tracked.base
      /\ e.author = "user" =>
           \A r \in Regions : \/ At(b, r) = At(tracked.base, r)
                              \/ At(b, r) = At(e.text, r) /\ At(e.text, r) # At(tracked.snapshot, r)
  <2>1. CASE e.author = "user"
    <3>1. Sound(tracked, text)
      BY <1>3 DEF Well
    <3> HIDE DEF e
    <3> QED BY <1>1, <1>5, <2>1, <3>1, Rebase
  <2>2. CASE e.author # "user"
    BY <1>4, <2>2
  <2> QED BY <2>1, <2>2
<1> HIDE DEF b
<1>7. ASSUME ~raced, tracked.status # "created"
      PROVE  From(b, Allowed)
  <2>1. Sourced(tracked, Allowed) /\ From(tracked.base, Allowed)
    BY <1>3, <1>7 DEF Well, Sourced
  <2>2. Before(tracked, 1) = tracked.snapshot
    BY <1>1 DEF Before
  <2>3. ASSUME e.author = "user", NEW r \in Regions, At(e.text, r) # At(tracked.snapshot, r)
        PROVE  At(e.text, r) \in Allowed[r]
    BY <1>5, <2>1, <2>2, <2>3 DEF Sourced
  <2> HIDE DEF e
  <2> QED BY <1>6, <2>1, <2>3 DEF From
<1>8. Well(u, text, Allowed, raced)
  BY <1>1, <1>3, <1>6, <1>7, TakenUp
<1> HIDE DEF u
<1> QED BY <1>1, <1>2, <1>8, Assemble, Parts

\* keep_committed_edits: the hunks taken hold what was committed.
LEMMA KeepCommittedEditsStep ==
  ASSUME IInv, KeepCommittedEdits
  PROVE  IInv'
<1>1. /\ tracked # None /\ tracked.flight = None /\ tracked.queue = <<>> /\ tracked.commit # None
      /\ text' = text /\ disk' = disk /\ undo' = undo /\ raced' = raced /\ Allowed' = Allowed
  BY Staying DEF KeepCommittedEdits
<1>2. Well(tracked, text, Allowed, raced) /\ tracked \in TrackedBuffers
  BY <1>1, Parts
<1>3. Sound(tracked, text) /\ Latest(tracked) = text
  BY <1>2 DEF Well, Sound
<1>4. /\ tracked.base \in Texts /\ tracked.snapshot \in Texts /\ tracked.commit \in Texts
      /\ tracked.unreviewed \in SUBSET SUBSET Regions
  BY <1>1, <1>2 DEF TrackedBuffers
<1>5. PICK K \in SUBSET tracked.unreviewed :
        /\ \A h \in K : \A r \in h : At(tracked.commit, r) = At(tracked.snapshot, r)
        /\ tracked' = [tracked EXCEPT
                         !.commit = None,
                         !.flight = [base |-> Take(UNION K, tracked.snapshot, tracked.base),
                                     snapshot |-> tracked.snapshot, shown |-> FALSE]]
  <2>1. PICK m \in BOOLEAN :
          LET kept == {h \in tracked.unreviewed :
                         /\ \A r \in h : At(tracked.commit, r) = At(tracked.snapshot, r)
                         /\ h = Regions => m}
          IN tracked' = [tracked EXCEPT
                           !.commit = None,
                           !.flight = [base |-> Take(UNION kept, tracked.snapshot, tracked.base),
                                       snapshot |-> tracked.snapshot, shown |-> FALSE]]
    BY DEF KeepCommittedEdits
  <2> DEFINE kept == {h \in tracked.unreviewed :
                        /\ \A r \in h : At(tracked.commit, r) = At(tracked.snapshot, r)
                        /\ h = Regions => m}
  <2>2. kept \in SUBSET tracked.unreviewed
    OBVIOUS
  <2>3. \A h \in kept : \A r \in h : At(tracked.commit, r) = At(tracked.snapshot, r)
    OBVIOUS
  <2> QED BY <2>1, <2>2, <2>3
<1> DEFINE g == UNION K
           b == Take(g, tracked.snapshot, tracked.base)
           f == [base |-> b, snapshot |-> tracked.snapshot, shown |-> FALSE]
           u == [tracked EXCEPT !.commit = None, !.flight = f]
<1>6. tracked' = u
  BY <1>5
<1>7. Covers(K, g, tracked.unreviewed) /\ Fits(tracked.unreviewed, tracked.base, tracked.snapshot)
  BY <1>3, <1>4 DEF Covers, Sound
<1>8. \A r \in g : At(tracked.commit, r) = At(tracked.snapshot, r)
  BY <1>5
<1> HIDE DEF g
<1>9. /\ g \in SUBSET Regions
      /\ g = {} \/ g = Regions \/ (tracked.base # Empty /\ tracked.snapshot # Empty)
  BY <1>7, FitsPart
<1>10. /\ b \in Texts
       /\ \A r \in g : At(b, r) = At(tracked.snapshot, r)
       /\ \A r \in Regions \ g : At(b, r) = At(tracked.base, r)
  BY <1>4, <1>9, TakeAt
<1> HIDE DEF b
<1>11. f \in Flights /\ f.base = b /\ f.snapshot = tracked.snapshot /\ f.shown = FALSE
  BY <1>4, <1>10 DEF Flights
<1>12. f # None
  BY <1>11, Distinct
<1> HIDE DEF f
<1>13. u \in TrackedBuffers
  BY <1>2, <1>11 DEF TrackedBuffers
<1>14. /\ u.commit = None /\ u.flight = f /\ u.queue = <<>>
       /\ u.status = tracked.status /\ u.existing = tracked.existing /\ u.base = tracked.base
       /\ u.unreviewed = tracked.unreviewed /\ u.snapshot = tracked.snapshot
       /\ u.changed = tracked.changed
  BY <1>1, <1>2 DEF TrackedBuffers
<1> HIDE DEF u
<1>15. Latest(u) = text
  <2>1. Len(<<>>) = 0
    OBVIOUS
  <2>2. Latest(tracked) = tracked.snapshot
    BY <1>1, <2>1 DEF Latest, Before
  <2>3. Latest(u) = f.snapshot
    BY <1>12, <1>14, <2>1 DEF Latest, Before
  <2> QED BY <1>3, <1>11, <2>2, <2>3
<1>16. Sound(u, text)
  BY <1>3, <1>11, <1>12, <1>13, <1>14, <1>15 DEF Sound
<1>17. Diffed(u)
  BY <1>12, <1>14 DEF Diffed
<1>18. ASSUME ~raced
       PROVE  Sourced(u, Allowed)
  <2>1. Sourced(tracked, Allowed)
    BY <1>2, <1>18 DEF Well
  <2>2. ASSUME tracked.status # "created"
        PROVE  From(b, Allowed)
    <3>1. From(tracked.base, Allowed) /\ From(tracked.commit, Allowed)
      BY <1>1, <2>1, <2>2 DEF Sourced
    <3> QED BY <1>8, <1>9, <1>10, <3>1 DEF From
  <2>3. Len(u.queue) = 0
    BY <1>14
  <2> QED BY <1>11, <1>14, <2>1, <2>2, <2>3 DEF Sourced
<1>19. Well(tracked', text', Allowed', raced')
  BY <1>1, <1>6, <1>16, <1>17, <1>18 DEF Well
<1> QED BY <1>1, <1>19, Assemble, Parts

\* update_diff, first part: the BufferDiff is set.
LEMMA SetDiffStep ==
  ASSUME IInv, SetDiff
  PROVE  IInv'
<1> DEFINE c == Hunks(tracked.flight.base, tracked.flight.snapshot) # {}
           u == [tracked EXCEPT !.changed = c, !.flight.shown = TRUE]
<1>1. /\ tracked # None /\ tracked.flight # None
      /\ text' = text /\ disk' = disk /\ undo' = undo /\ raced' = raced /\ Allowed' = Allowed
      /\ tracked' = u
  BY Staying DEF SetDiff
<1>2. Well(tracked, text, Allowed, raced) /\ tracked \in TrackedBuffers
  BY <1>1, Parts
<1>3. Sound(tracked, text) /\ Latest(tracked) = text
  BY <1>2 DEF Well, Sound
<1> DEFINE f == [tracked.flight EXCEPT !.shown = TRUE]
<1>4. tracked.flight \in Flights
  BY <1>1, <1>2 DEF TrackedBuffers
<1>5. /\ f \in Flights /\ f.base = tracked.flight.base /\ f.snapshot = tracked.flight.snapshot
      /\ f # None
  <2>1. f \in Flights /\ f.base = tracked.flight.base /\ f.snapshot = tracked.flight.snapshot
    BY <1>4 DEF Flights
  <2> QED BY <2>1, Distinct
<1>6. u = [tracked EXCEPT !.changed = c, !.flight = f]
  BY <1>2 DEF TrackedBuffers
<1>7. c \in BOOLEAN
  OBVIOUS
<1> HIDE DEF u, f, c
<1>8. u \in TrackedBuffers
  BY <1>2, <1>5, <1>6, <1>7 DEF TrackedBuffers
<1>9. /\ u.changed = c /\ u.flight = f /\ u.queue = tracked.queue
      /\ u.status = tracked.status /\ u.existing = tracked.existing /\ u.base = tracked.base
      /\ u.unreviewed = tracked.unreviewed /\ u.snapshot = tracked.snapshot
      /\ u.commit = tracked.commit
  BY <1>2, <1>6 DEF TrackedBuffers
<1>10. \A i : Before(u, i) = Before(tracked, i)
  BY <1>1, <1>5, <1>9 DEF Before
<1>11. Latest(u) = text
  BY <1>3, <1>9, <1>10 DEF Latest
<1>12. u.changed = (Hunks(u.flight.base, u.flight.snapshot) # {})
  BY <1>5, <1>9 DEF c
<1>13. Sound(u, text)
  BY <1>1, <1>3, <1>5, <1>8, <1>9, <1>11, <1>12 DEF Sound
<1>14. Diffed(u)
  BY <1>5, <1>9 DEF Diffed
<1>15. ASSUME ~raced
       PROVE  Sourced(u, Allowed)
  <2>1. Sourced(tracked, Allowed)
    BY <1>2, <1>15 DEF Well
  <2> QED BY <1>1, <1>5, <1>9, <1>10, <2>1 DEF Sourced
<1>16. Well(tracked', text', Allowed', raced')
  BY <1>1, <1>13, <1>14, <1>15 DEF Well
<1> QED BY <1>1, <1>16, Assemble, Parts

\* update_diff, second part: base, snapshot and hunks are written back.
LEMMA UpdateDiffStep ==
  ASSUME IInv, UpdateDiff
  PROVE  IInv'
<1> DEFINE f == tracked.flight
           H == Hunks(f.base, f.snapshot)
           u == [tracked EXCEPT !.base = f.base, !.snapshot = f.snapshot,
                                !.unreviewed = H, !.flight = None]
<1>1. /\ tracked # None /\ f # None /\ f.shown
      /\ text' = text /\ disk' = disk /\ undo' = undo /\ raced' = raced /\ Allowed' = Allowed
      /\ tracked' = u
  BY Staying DEF UpdateDiff
<1>2. Well(tracked, text, Allowed, raced) /\ tracked \in TrackedBuffers
  BY <1>1, Parts
<1>3. Sound(tracked, text) /\ Latest(tracked) = text
  BY <1>2 DEF Well, Sound
<1>4. f.base \in Texts /\ f.snapshot \in Texts
  <2>1. f \in Flights
    BY <1>1, <1>2 DEF TrackedBuffers
  <2> HIDE DEF f
  <2> QED BY <2>1 DEF Flights
<1>5. /\ H \in SUBSET SUBSET Regions /\ Fits(H, f.base, f.snapshot)
      /\ \A r \in Regions : r \in UNION H <=> At(f.base, r) # At(f.snapshot, r)
  BY <1>4, HunksOf
<1>6. tracked.changed = (H # {})
  BY <1>1, <1>3 DEF Sound
<1> DEFINE b == f.base
           s == f.snapshot
<1>7. b \in Texts /\ s \in Texts
  BY <1>4
<1>8. u = [tracked EXCEPT !.base = b, !.snapshot = s, !.unreviewed = H, !.flight = None]
  OBVIOUS
<1>9. H = Hunks(b, s) /\ b = tracked.flight.base /\ s = tracked.flight.snapshot
  OBVIOUS
<1> HIDE DEF u, H, b, s
<1>10. u \in TrackedBuffers
  BY <1>2, <1>5, <1>7, <1>8 DEF TrackedBuffers
<1>11. /\ u.base = b /\ u.snapshot = s /\ u.unreviewed = H /\ u.flight = None
       /\ u.queue = tracked.queue /\ u.status = tracked.status /\ u.existing = tracked.existing
       /\ u.changed = tracked.changed /\ u.commit = tracked.commit
  BY <1>2, <1>8 DEF TrackedBuffers
<1>12. \A i : Before(u, i) = Before(tracked, i)
  BY <1>1, <1>9, <1>11 DEF Before
<1>13. Latest(u) = text
  BY <1>3, <1>11, <1>12 DEF Latest
<1>14. Sound(u, text)
  <2>1. \A r \in Regions \ UNION u.unreviewed : At(u.base, r) = At(u.snapshot, r)
    BY <1>5, <1>9, <1>11
  <2> QED BY <1>5, <1>9, <1>10, <1>11, <1>13, <2>1 DEF Sound
<1>15. Diffed(u)
  BY <1>6, <1>9, <1>11 DEF Diffed
<1>16. ASSUME ~raced
       PROVE  Sourced(u, Allowed)
  <2>1. Sourced(tracked, Allowed)
    BY <1>2, <1>16 DEF Well
  <2> QED BY <1>1, <1>9, <1>11, <1>12, <2>1 DEF Sourced
<1>17. Well(tracked', text', Allowed', raced')
  BY <1>1, <1>14, <1>15, <1>16 DEF Well
<1> QED BY <1>1, <1>17, Assemble, Parts

-----------------------------------------------------------------------------
(* Review. *)

\* A keep of the regions h leaves the hunks rest.  What is kept is accepted, all
\* of the file when no hunk is left; a keep that races an update is only typed.
LEMMA KeptWell ==
  ASSUME IInv, tracked # None, NEW h \in SUBSET Regions, NEW rest \in SUBSET tracked.unreviewed,
         h = {} \/ h = Regions \/ (tracked.snapshot # Empty /\ tracked.base # Empty),
         \A r \in UNION tracked.unreviewed : r \in h \/ r \in UNION rest,
         NEW acc, \A r \in Regions : Allowed[r] \subseteq acc[r],
         \A r \in h : At(tracked.snapshot, r) \in acc[r],
         rest = {} => From(tracked.snapshot, acc),
         NEW rc, ~rc => ~raced /\ tracked.flight = None
  PROVE  Well(Kept(tracked, h, rest), text, acc, rc)
<1> DEFINE b == Take(h, tracked.snapshot, tracked.base)
           st == IF rest = {} THEN "modified" ELSE tracked.status
           ex == IF rest = {} THEN None ELSE tracked.existing
           u == [tracked EXCEPT !.base = b, !.unreviewed = rest, !.status = st, !.existing = ex]
<1>1. Kept(tracked, h, rest) = ScheduleDiffUpdate(u, "user", text)
  BY DEF Kept
<1>2. Well(tracked, text, Allowed, raced) /\ tracked \in TrackedBuffers
  BY Parts
<1>3. Sound(tracked, text) /\ Latest(tracked) = text
  BY <1>2 DEF Well, Sound
<1>4. /\ tracked.base \in Texts /\ tracked.snapshot \in Texts
      /\ tracked.unreviewed \in SUBSET SUBSET Regions
      /\ tracked.status \in {"modified", "created", "deleted"}
      /\ tracked.existing \in Texts \cup {None}
  BY <1>2 DEF TrackedBuffers
<1>5. /\ b \in Texts
      /\ \A r \in h : At(b, r) = At(tracked.snapshot, r)
      /\ \A r \in Regions \ h : At(b, r) = At(tracked.base, r)
      /\ tracked.snapshot # Empty /\ tracked.base # Empty => b # Empty
  BY <1>4, TakeAt
<1>6. /\ st \in {"modified", "created", "deleted"} /\ ex \in Texts \cup {None}
      /\ st # "created" => tracked.status # "created" \/ rest = {}
      /\ ex # None => ex = tracked.existing
  BY <1>4
<1> HIDE DEF b, st, ex
<1>7. rest \in SUBSET SUBSET Regions
  BY <1>4
<1>8. u \in TrackedBuffers
  BY <1>2, <1>5, <1>6, <1>7 DEF TrackedBuffers
<1>9. /\ u.base = b /\ u.unreviewed = rest /\ u.status = st /\ u.existing = ex
      /\ u.snapshot = tracked.snapshot /\ u.changed = tracked.changed /\ u.queue = tracked.queue
      /\ u.flight = tracked.flight /\ u.commit = tracked.commit
  BY <1>2 DEF TrackedBuffers
<1> HIDE DEF u
<1>10. \A i : Before(u, i) = Before(tracked, i)
  BY <1>9 DEF Before
<1>11. Latest(u) = text
  BY <1>3, <1>9, <1>10 DEF Latest
<1>12. Fits(rest, b, tracked.snapshot)
  <2>1. Fits(tracked.unreviewed, tracked.base, tracked.snapshot)
    BY <1>3 DEF Sound
  <2>2. CASE tracked.unreviewed \subseteq {Regions}
    BY <2>2 DEF Fits
  <2>3. CASE tracked.unreviewed \subseteq Singles /\ tracked.base # Empty /\ tracked.snapshot # Empty
    BY <1>5, <2>3 DEF Fits
  <2> QED BY <2>1, <2>2, <2>3 DEF Fits
<1>13. tracked.flight = None =>
         \A r \in Regions \ UNION rest : At(b, r) = At(tracked.snapshot, r)
  <2>1. tracked.flight = None =>
          \A r \in Regions \ UNION tracked.unreviewed : At(tracked.base, r) = At(tracked.snapshot, r)
    BY <1>3 DEF Sound
  <2> QED BY <1>5, <2>1
<1>14. Sound(u, text)
  BY <1>3, <1>8, <1>9, <1>11, <1>12, <1>13 DEF Sound
<1>15. ASSUME ~rc
       PROVE  Sourced(u, acc)
  <2>1. Sourced(tracked, acc) /\ tracked.flight = None
    <3>1. Sourced(tracked, Allowed) /\ tracked.flight = None
      BY <1>2, <1>15 DEF Well
    <3> QED BY <3>1, SourcedGrows
  <2>2. ASSUME st # "created"
        PROVE  From(b, acc)
    <3>1. CASE rest = {}
      <4>1. \A r \in Regions : At(b, r) = At(tracked.snapshot, r)
        BY <1>13, <2>1, <3>1
      <4> QED BY <3>1, <4>1 DEF From
    <3>2. CASE rest # {}
      <4>1. From(tracked.base, acc)
        BY <1>6, <2>1, <2>2, <3>2 DEF Sourced
      <4> QED BY <1>5, <4>1 DEF From
    <3> QED BY <3>1, <3>2
  <2> QED BY <1>6, <1>9, <1>10, <2>1, <2>2 DEF Sourced
<1>16. Sound(ScheduleDiffUpdate(u, "user", text), text) /\ Diffed(ScheduleDiffUpdate(u, "user", text))
  BY <1>14, ScheduleSound, Parts
<1>17. ~rc => Sourced(ScheduleDiffUpdate(u, "user", text), acc)
  BY <1>14, <1>15, ScheduleSound, Parts
<1> QED BY <1>1, <1>16, <1>17 DEF Well

\* A keep of the hunks H.
LEMMA KeepEditsInRangeStep ==
  ASSUME IInv, KeepEditsInRange
  PROVE  IInv'
<1>1. /\ tracked # None
      /\ text' = text /\ disk' = disk /\ undo' = undo /\ taken' = taken
  BY DEF KeepEditsInRange
<1>2. PICK H \in SUBSET tracked.unreviewed :
        IF tracked.status = "deleted"
        THEN tracked' = None /\ UNCHANGED <<touched, accepted, raced>>
        ELSE /\ tracked' = Kept(tracked, UNION H, tracked.unreviewed \ H)
             /\ KeepHistory(H)
  BY DEF KeepEditsInRange
<1>3. CASE tracked.status = "deleted"
  BY <1>1, <1>2, <1>3, Assemble, Staying, Parts
<1>4. CASE tracked.status # "deleted"
  <2> DEFINE h == UNION H
             g == IF H = tracked.unreviewed THEN Regions ELSE h
             rest == tracked.unreviewed \ H
  <2>1. /\ accepted' = Accept(g, tracked.snapshot)
        /\ raced' = (raced \/ tracked.flight # None)
        /\ tracked' = Kept(tracked, h, rest)
    BY <1>2, <1>4 DEF KeepHistory
  <2>2. /\ tracked.base \in Texts /\ tracked.snapshot \in Texts
        /\ tracked.unreviewed \in SUBSET SUBSET Regions
        /\ Fits(tracked.unreviewed, tracked.base, tracked.snapshot)
    <3>1. tracked \in TrackedBuffers /\ Sound(tracked, text)
      BY <1>1, Parts DEF Well
    <3> QED BY <3>1 DEF TrackedBuffers, Sound
  <2>3. /\ rest \in SUBSET tracked.unreviewed
        /\ \A r \in UNION tracked.unreviewed : r \in h \/ r \in UNION rest
        /\ rest = {} => g = Regions
        /\ Covers(H, h, tracked.unreviewed)
    <3>1. rest \in SUBSET tracked.unreviewed /\ (rest = {} => H = tracked.unreviewed)
      OBVIOUS
    <3>2. \A r \in UNION tracked.unreviewed : r \in h \/ r \in UNION rest
      OBVIOUS
    <3>3. Covers(H, h, tracked.unreviewed)
      BY <2>2 DEF Covers
    <3> QED BY <3>1, <3>2, <3>3
  <2> HIDE DEF h, rest
  <2>4. /\ h \in SUBSET Regions
        /\ h = {} \/ h = Regions \/ (tracked.base # Empty /\ tracked.snapshot # Empty)
    BY <2>2, <2>3, FitsPart
  <2>5. g \in SUBSET Regions /\ h \subseteq g
    BY <2>4
  <2> HIDE DEF g
  <2>6. /\ Allowed' \in [Regions -> SUBSET (Contents \cup {Empty})]
        /\ \A r \in Regions : Allowed[r] \subseteq Allowed'[r]
        /\ \A r \in h : At(tracked.snapshot, r) \in Allowed'[r]
        /\ rest = {} => From(tracked.snapshot, Allowed')
    BY <1>1, <2>1, <2>2, <2>3, <2>5, Accepting
  <2>7. Well(Kept(tracked, h, rest), text, Allowed', raced')
    BY <1>1, <2>1, <2>3, <2>4, <2>6, KeptWell
  <2>8. raced' \in BOOLEAN
    BY <2>1, Parts
  <2> QED BY <1>1, <2>1, <2>6, <2>7, <2>8, Assemble, Parts
<1> QED BY <1>3, <1>4

\* keep_all_edits.
LEMMA KeepAllEditsStep ==
  ASSUME IInv, KeepAllEdits
  PROVE  IInv'
<1>1. /\ tracked # None
      /\ text' = text /\ disk' = disk /\ undo' = undo /\ taken' = taken
  BY DEF KeepAllEdits
<1>2. CASE tracked.status = "deleted"
  <2>1. tracked' = None /\ Allowed' = Allowed /\ raced' = raced
    BY <1>1, <1>2, Staying DEF KeepAllEdits
  <2> QED BY <1>1, <2>1, Assemble, Parts
<1>3. CASE tracked.status # "deleted"
  <2>1. /\ accepted' = Accept(Regions, tracked.snapshot)
        /\ raced' = (raced \/ tracked.flight # None)
        /\ tracked' = Kept(tracked, Regions, {})
    BY <1>3 DEF KeepAllEdits, KeepHistory
  <2>2. tracked.snapshot \in Texts /\ tracked.unreviewed \in SUBSET SUBSET Regions
    BY <1>1, Parts DEF TrackedBuffers
  <2>3. /\ Allowed' \in [Regions -> SUBSET (Contents \cup {Empty})]
        /\ \A r \in Regions : Allowed[r] \subseteq Allowed'[r]
        /\ \A r \in Regions : At(tracked.snapshot, r) \in Allowed'[r]
        /\ From(tracked.snapshot, Allowed')
    BY <1>1, <2>1, <2>2, Accepting
  <2>4. Well(Kept(tracked, Regions, {}), text, Allowed', raced')
    BY <1>1, <2>1, <2>2, <2>3, KeptWell
  <2>5. raced' \in BOOLEAN
    BY <2>1, Parts
  <2> QED BY <1>1, <2>1, <2>3, <2>4, <2>5, Assemble, Parts
<1> QED BY <1>2, <1>3

\* A reject, whichever hunks: the text it writes is the diff base's where it
\* writes at all.
LEMMA RejectStep ==
  ASSUME IInv, tracked # None, NEW H \in SUBSET tracked.unreviewed, NEW old, Reject(H, old),
         old # None => old \in Undos /\ Fits(old.hunks, old.text, old.text),
         raced' = raced, Allowed' = Allowed
  PROVE  IInv'
<1>1. Well(tracked, text, Allowed, raced) /\ tracked \in TrackedBuffers /\ Sound(tracked, text)
  BY Parts DEF Well
<1>2. /\ tracked.base \in Texts /\ tracked.snapshot \in Texts
      /\ tracked.unreviewed \in SUBSET SUBSET Regions
      /\ tracked.existing \in Texts \cup {None}
      /\ tracked.status \in {"modified", "created", "deleted"}
  BY <1>1 DEF TrackedBuffers
<1>3. CASE tracked.status = "created" /\ tracked.existing # None
  <2>1. /\ text' = tracked.existing /\ tracked' = None /\ disk' = disk
        /\ undo' = [hunks |-> {Regions}, text |-> text]
    BY <1>3 DEF Reject
  <2>2. undo' \in Undos /\ Fits(undo'.hunks, undo'.text, undo'.text)
    BY <2>1, Parts DEF Undos, Fits
  <2> QED BY <1>2, <1>3, <2>1, <2>2, Assemble, Parts
<1>4. CASE tracked.status = "created" /\ tracked.existing = None
  <2>1. tracked' = None /\ undo' = old /\ text' = text /\ disk' \in BOOLEAN
    BY <1>4, Parts DEF Reject
  <2> QED BY <2>1, Assemble, Parts
<1>5. CASE tracked.status = "deleted"
  <2>1. /\ text' = tracked.base /\ tracked' = Record(tracked.base) /\ undo' = old
        /\ disk' = disk
    BY <1>5 DEF Reject
  <2>2. Sound(tracked', text') /\ Diffed(tracked')
    BY <1>2, <2>1, RecordSound
  <2>3. ~raced => Sourced(tracked', Allowed)
    <3>1. ~raced => From(tracked.base, Allowed)
      BY <1>1, <1>5 DEF Well, Sourced
    <3> QED BY <1>2, <2>1, <3>1, RecordSound
  <2>4. Well(tracked', text', Allowed', raced')
    BY <2>1, <2>2, <2>3 DEF Well
  <2> QED BY <1>2, <2>1, <2>4, Assemble, Parts
<1>6. CASE tracked.status = "modified"
  <2> DEFINE h == UNION H
             s == Take(h, tracked.base, text)
             t == [tracked EXCEPT !.fresh = FALSE]
  <2>1. /\ text = Empty => H \subseteq {Regions}
        /\ text' = s /\ disk' = disk
        /\ tracked' = IF s = text THEN tracked ELSE ScheduleDiffUpdate(t, "user", s)
        /\ undo' = IF H = {} THEN old ELSE [hunks |-> H, text |-> text]
    BY <1>6 DEF Reject
  <2>2. Covers(H, h, tracked.unreviewed) /\ Fits(tracked.unreviewed, tracked.base, tracked.snapshot)
    BY <1>1, <1>2 DEF Covers, Sound
  <2>3. text = Empty => h = {} \/ h = Regions
    <3>1. text = Empty => H = {} \/ H = {Regions}
      BY <2>1
    <3> QED BY <3>1
  <2> HIDE DEF h
  <2>4. /\ Fits(H, tracked.base, tracked.snapshot)
        /\ h \in SUBSET Regions
        /\ h = {} \/ h = Regions \/ (tracked.base # Empty /\ tracked.snapshot # Empty)
    BY <2>2, FitsPart
  <2>5. /\ s \in Texts
        /\ \A r \in h : At(s, r) = At(tracked.base, r)
        /\ \A r \in Regions \ h : At(s, r) = At(text, r)
    BY <1>2, <2>3, <2>4, TakeAt, Parts, ZenonT(30)
  <2> HIDE DEF s
  <2>6. undo' # None => undo' \in Undos /\ Fits(undo'.hunks, undo'.text, undo'.text)
    <3>1. CASE H = {}
      BY <2>1, <3>1
    <3>2. CASE H # {}
      <4>1. undo'.hunks = H /\ undo'.text = text /\ undo' \in Undos
        BY <1>2, <2>1, <3>2, Parts DEF Undos
      <4>2. Fits(H, text, text)
        BY <2>1, <2>4 DEF Fits
      <4> QED BY <4>1, <4>2
    <3> QED BY <3>1, <3>2
  <2>7. Well(tracked', text', Allowed', raced')
    <3>1. CASE s = text
      BY <1>1, <2>1, <3>1
    <3>2. CASE s # text
      <4>1. Well(t, text, Allowed, raced)
        BY <1>1, <1>2, FreshWell, Zenon
      <4> HIDE DEF t
      <4>2. Sound(t, text)
        BY <4>1 DEF Well
      <4>3. Sound(ScheduleDiffUpdate(t, "user", s), s) /\ Diffed(ScheduleDiffUpdate(t, "user", s))
        BY <2>5, <4>2, ScheduleSound
      <4>4. ASSUME ~raced
            PROVE  Sourced(ScheduleDiffUpdate(t, "user", s), Allowed)
        <5>1. From(tracked.base, Allowed)
          BY <1>1, <1>6, <4>4 DEF Well, Sourced
        <5>2. \A r \in Regions : At(s, r) # At(text, r) => At(s, r) \in Allowed[r]
          BY <2>5, <5>1 DEF From
        <5>3. Sourced(t, Allowed)
          BY <4>1, <4>4 DEF Well
        <5> QED BY <2>5, <4>2, <5>2, <5>3, ScheduleSound
      <4>5. Well(ScheduleDiffUpdate(t, "user", s), s, Allowed, raced)
        BY <4>3, <4>4 DEF Well
      <4> QED BY <2>1, <3>2, <4>5
    <3> QED BY <3>1, <3>2
  <2> QED BY <2>1, <2>5, <2>6, <2>7, Assemble, Parts
<1> QED BY <1>2, <1>3, <1>4, <1>5, <1>6

\* reject_edits_in_ranges, called for a review.
LEMMA RejectEditsInRangesStep ==
  ASSUME IInv, RejectEditsInRanges
  PROVE  IInv'
<1>1. PICK H \in SUBSET tracked.unreviewed : Reject(H, undo)
  BY DEF RejectEditsInRanges
<1>2. tracked # None /\ raced' = raced /\ Allowed' = Allowed
  BY Staying DEF RejectEditsInRanges
<1> QED BY <1>1, <1>2, RejectStep, Parts

\* reject_all_edits.
LEMMA RejectAllEditsStep ==
  ASSUME IInv, RejectAllEdits
  PROVE  IInv'
<1>1. raced' = raced /\ Allowed' = Allowed
  BY Staying DEF RejectAllEdits
<1>2. CASE tracked # None /\ tracked.changed
  <2>1. Reject(tracked.unreviewed, None)
    BY <1>2 DEF RejectAllEdits
  <2>2. tracked.unreviewed \in SUBSET tracked.unreviewed
    OBVIOUS
  <2> QED BY <1>1, <1>2, <2>1, <2>2, RejectStep
<1>3. CASE ~(tracked # None /\ tracked.changed)
  <2>1. undo' = None /\ UNCHANGED <<text, disk, tracked, touched>>
    BY <1>3 DEF RejectAllEdits
  <2> QED BY <1>1, <2>1, Assemble, Parts
<1> QED BY <1>2, <1>3

\* Undo writes back what a reject removed; the user is taken to want it.
LEMMA UndoLastRejectStep ==
  ASSUME IInv, UndoLastReject
  PROVE  IInv'
<1> DEFINE h == UNION undo.hunks
           s == Take(h, undo.text, text)
           t == [tracked EXCEPT !.fresh = FALSE]
<1>1. /\ undo # None /\ (text = Empty => undo.hunks = {Regions})
      /\ undo' = None /\ text' = s /\ disk' = disk /\ raced' = raced
      /\ accepted' = Accept(h, s) /\ taken' = IF tracked = None THEN Found(s) ELSE taken
      /\ tracked' = IF tracked = None THEN BufferEdited(s) ELSE ScheduleDiffUpdate(t, "user", s)
  BY DEF UndoLastReject, Starts
<1>2. /\ undo.hunks \in SUBSET SUBSET Regions /\ undo.text \in Texts
      /\ Fits(undo.hunks, undo.text, undo.text)
  BY <1>1, Parts DEF Undos
<1>3. Covers(undo.hunks, h, undo.hunks) /\ (text = Empty => h = Regions)
  BY <1>1, <1>2 DEF Covers
<1> HIDE DEF h
<1>4. h \in SUBSET Regions /\ (h = {} \/ h = Regions \/ undo.text # Empty)
  BY <1>2, <1>3, FitsPart
<1>5. s \in Texts /\ \A r \in Regions \ h : At(s, r) = At(text, r)
  BY <1>2, <1>3, <1>4, TakeAt, Parts
<1> HIDE DEF s
<1>6. CASE tracked = None
  <2>1. Allowed' \in [Regions -> SUBSET (Contents \cup {Empty})] /\ From(s, Allowed')
    BY <1>1, <1>4, <1>5, <1>6, Finding
  <2>2. Well(BufferEdited(s), s, Allowed', raced)
    BY <1>5, <1>6, <2>1, BufferEditedWell
  <2> QED BY <1>1, <1>5, <1>6, <2>1, <2>2, Assemble, Parts
<1>7. CASE tracked # None
  <2>1. accepted' = Accept(h, s) /\ taken' = taken
    BY <1>1, <1>7
  <2>2. /\ Allowed' \in [Regions -> SUBSET (Contents \cup {Empty})]
        /\ \A r \in Regions : Allowed[r] \subseteq Allowed'[r]
        /\ \A r \in h : At(s, r) \in Allowed'[r]
    BY <1>4, <1>5, <2>1, Accepting
  <2>3. \A r \in Regions : At(s, r) # At(text, r) => At(s, r) \in Allowed'[r]
    BY <1>5, <2>2
  <2>4. Well(tracked, text, Allowed, raced) /\ tracked.status \in {"modified", "created", "deleted"}
    BY <1>7, Parts DEF TrackedBuffers
  <2>5. Well(t, text, Allowed, raced)
    BY <2>4, FreshWell, Zenon
  <2> HIDE DEF t
  <2>6. Well(t, text, Allowed', raced)
    BY <2>2, <2>5, WellGrows
  <2>7. Well(ScheduleDiffUpdate(t, "user", s), s, Allowed', raced)
    BY <1>5, <2>3, <2>6, ScheduleWell
  <2> QED BY <1>1, <1>5, <1>7, <2>2, <2>7, Assemble, Parts
<1> QED BY <1>6, <1>7

\* A commit leaves its text for the task that maintains the diff.
LEMMA CommitStep ==
  ASSUME IInv, Commit
  PROVE  IInv'
<1> DEFINE u == [tracked EXCEPT !.commit = text]
<1>1. /\ tracked # None /\ tracked' = u /\ accepted' = Accept(Regions, text) /\ taken' = taken
      /\ text' = text /\ disk' = disk /\ undo' = undo /\ raced' = raced
  BY DEF Commit
<1>2. /\ Allowed' \in [Regions -> SUBSET (Contents \cup {Empty})]
      /\ \A r \in Regions : Allowed[r] \subseteq Allowed'[r]
      /\ From(text, Allowed')
  BY <1>1, Accepting, Parts
<1>3. Well(tracked, text, Allowed', raced) /\ tracked \in TrackedBuffers /\ text \in Texts
  BY <1>1, <1>2, WellGrows, Parts
<1>4. u \in TrackedBuffers
  BY <1>3 DEF TrackedBuffers
<1>5. /\ u.commit = text /\ u.status = tracked.status /\ u.existing = tracked.existing
      /\ u.base = tracked.base /\ u.unreviewed = tracked.unreviewed
      /\ u.snapshot = tracked.snapshot /\ u.changed = tracked.changed
      /\ u.queue = tracked.queue /\ u.flight = tracked.flight
  BY <1>3 DEF TrackedBuffers
<1> HIDE DEF u
<1>6. \A i : Before(u, i) = Before(tracked, i)
  BY <1>5 DEF Before
<1>7. Latest(u) = Latest(tracked)
  BY <1>5, <1>6 DEF Latest
<1>8. Sound(u, text)
  BY <1>3, <1>4, <1>5, <1>7 DEF Well, Sound
<1>9. Diffed(u)
  BY <1>3, <1>5 DEF Well, Diffed
<1>10. ~raced => Sourced(u, Allowed')
  BY <1>2, <1>3, <1>5, <1>6 DEF Well, Sourced
<1>11. Well(tracked', text', Allowed', raced')
  BY <1>1, <1>8, <1>9, <1>10 DEF Well
<1> QED BY <1>1, <1>2, <1>11, Assemble, Parts

-----------------------------------------------------------------------------
(* Theorems. *)

\* Nothing is tracked at the start.
LEMMA Initially == Init => IInv
<1> SUFFICES ASSUME Init
             PROVE  IInv
  OBVIOUS
<1>1. text \in Texts
  BY Bounds DEF Init, Texts
<1>2. \A r \in Regions : At(text, r) \in Contents \cup {Empty}
  BY <1>1, AtTyped
<1>3. Allowed \in [Regions -> SUBSET (Contents \cup {Empty})]
  BY <1>2 DEF Init, Allowed, Found
<1> QED BY <1>1, <1>3 DEF Init, IInv

\* Every step keeps the invariant.
LEMMA Stepwise == IInv /\ [Next]_vars => IInv'
<1> SUFFICES ASSUME IInv, [Next]_vars
             PROVE  IInv'
  OBVIOUS
<1>1. CASE UNCHANGED vars
  BY <1>1, Assemble, Staying, Parts DEF vars
<1>2. CASE Next
  BY <1>2, BufferReadStep, BufferCreatedStep, AgentEditStep, UserEditStep, WillDeleteBufferStep,
     FileDeletedStep, FileAppearedStep, TrackEditsStep, KeepCommittedEditsStep, SetDiffStep,
     UpdateDiffStep, KeepEditsInRangeStep, KeepAllEditsStep, RejectEditsInRangesStep,
     RejectAllEditsStep, UndoLastRejectStep, CommitStep DEF Next
<1> QED BY <1>1, <1>2

\* The invariant holds of every reachable state, whatever the file's regions
\* and however many edits and reviews there are.
THEOREM Invariance == Spec => []IInv
BY Initially, Stepwise, PTL DEF Spec

\* When every update is applied the log shows exactly the differences between
\* the diff base and the buffer (track_edits, update_diff), in whatever order
\* edits, keeps, rejects, undos and commits met the updates on their way.
THEOREM QuietIsExact == Spec => []QuietMeansExact
<1>1. ASSUME IInv, Quiet, tracked.status = "created" => tracked.changed
      PROVE  /\ tracked.snapshot = text
             /\ tracked.unreviewed = Hunks(tracked.base, text)
             /\ tracked.changed = (tracked.unreviewed # {})
  <2>1. tracked # None /\ tracked.flight = None /\ tracked.queue = <<>>
    BY <1>1 DEF Quiet
  <2>2. Latest(tracked) = text /\ Diffed(tracked)
    BY <1>1, <2>1, Parts DEF Well, Sound
  <2>3. tracked.snapshot = text
    <3>1. Len(<<>>) + 1 = 1
      OBVIOUS
    <3> QED BY <2>1, <2>2, <3>1 DEF Latest, Before
  <2> QED BY <1>1, <2>1, <2>2, <2>3 DEF Diffed
<1>2. IInv => QuietMeansExact
  BY <1>1 DEF QuietMeansExact
<1> QED BY <1>2, Invariance, PTL

\* What a reject writes back is never a change that the agent announced while
\* the buffer was tracked and the user did not accept, as long as no keep raced an
\* update in flight.  The log takes in by itself only the text it finds when
\* tracking begins and the changes of a formatter.
THEOREM BaseIsReviewed == Spec => []AnnouncedEditsReviewed
<1>1. \A r \in Regions : Allowed[r] = accepted[r] \cup taken[r]
  BY DEF Allowed
<1>2. IInv => AnnouncedEditsReviewed
  BY <1>1, Parts DEF Well, Sourced, From, AnnouncedEditsReviewed
<1> QED BY <1>2, Invariance, PTL

-----------------------------------------------------------------------------
(***************************************************************************)
(* Whose changes wait for review.  The diff base must follow the buffer in *)
(* every region that the agent did not touch, through all updates that are *)
(* still to be diffed.                                                     *)
(***************************************************************************)

\* The diff base that the next queued update meets
Base(t) == IF t.flight = None THEN t.base ELSE t.flight.base

\* Up to the i-th queued update the agent leaves region r alone
LeftAlone(t, r, i) ==
  \A j \in 1..i : t.queue[j].author = "agent" => At(t.queue[j].text, r) = At(Before(t, j), r)

\* The diff base agrees with the text in r, or one of the first i updates restores
\* what it holds: until then the user's changes of r conflict, and afterwards the
\* base takes them
Agrees(t, r, i) ==
  \/ At(Base(t), r) = At(Before(t, 1), r)
  \/ \E m \in 1..i : At(t.queue[m].text, r) = At(Base(t), r)

Follows(t, r, i) == LeftAlone(t, r, i) /\ Agrees(t, r, i)

\* The i-th queued update empties or fills the file: one hunk, which conflicts with
\* any other
Wholesale(t, i) == t.queue[i].text = Empty <=> Before(t, i) # Empty

\* What holds of a record when the regions T are touched
UntouchedFollow(t, T) == \A r \in Regions \ T : Follows(t, r, Len(t.queue))
WholeFollows(t, T) ==
  T # Regions =>
    /\ \A i \in 1..Len(t.queue) : Wholesale(t, i) => \A r \in Regions : Follows(t, r, i)
    /\ Latest(t) = Empty => \A r \in Regions : Follows(t, r, Len(t.queue))

\* A hunk differs in every region, unless the file was only announced
HunksDiffer(t, T) ==
  t.flight = None =>
    \A h \in t.unreviewed :
      \/ \A r \in h : At(t.base, r) # At(t.snapshot, r)
      \/ h = Regions /\ T = Regions /\ t.status = "created"

\* Where an update in flight changes no text, it changes the base only to that text
FlightKeeps(t) ==
  t.flight # None =>
    \A r \in UNION t.unreviewed :
      At(t.snapshot, r) = At(t.flight.snapshot, r) =>
        At(t.flight.base, r) \in {At(t.base, r), At(t.snapshot, r)}

Attributed(t, T) ==
  UntouchedFollow(t, T) /\ WholeFollows(t, T) /\ HunksDiffer(t, T) /\ FlightKeeps(t)

\* The inductive invariant, beside IInv
AttributionInv ==
  /\ touched \subseteq Regions
  /\ tracked # None => Attributed(tracked, touched)

\* Records with the same queue, where the second meets it with the same text and
\* with a base that is the same or nearer to that text.
LEMMA Nearer ==
  ASSUME NEW t, NEW u, u.queue = t.queue, Before(u, 1) = Before(t, 1),
         \A r \in Regions : At(Base(u), r) \in {At(Base(t), r), At(Before(t, 1), r)}
  PROVE  /\ \A i : Before(u, i) = Before(t, i)
         /\ \A r \in Regions : \A i :
              /\ LeftAlone(t, r, i) => LeftAlone(u, r, i)
              /\ Agrees(t, r, i) => Agrees(u, r, i)
              /\ Follows(t, r, i) => Follows(u, r, i)
         /\ \A T : UntouchedFollow(t, T) => UntouchedFollow(u, T)
         /\ \A T : WholeFollows(t, T) => WholeFollows(u, T)
<1>1. \A i : Before(u, i) = Before(t, i)
  BY DEF Before
<1>2. \A r, i : LeftAlone(t, r, i) => LeftAlone(u, r, i)
  BY <1>1 DEF LeftAlone
<1>3. \A r \in Regions : \A i : Agrees(t, r, i) => Agrees(u, r, i)
  BY DEF Agrees
<1>4. \A r \in Regions : \A i : Follows(t, r, i) => Follows(u, r, i)
  BY <1>2, <1>3 DEF Follows
<1>5. \A T : UntouchedFollow(t, T) => UntouchedFollow(u, T)
  BY <1>4 DEF UntouchedFollow
<1>6. ASSUME NEW T, WholeFollows(t, T)
      PROVE  WholeFollows(u, T)
  <2>1. Latest(u) = Latest(t)
    BY <1>1 DEF Latest
  <2>2. \A i : Wholesale(u, i) <=> Wholesale(t, i)
    BY <1>1 DEF Wholesale
  <2> QED BY <1>4, <1>6, <2>1, <2>2 DEF WholeFollows
<1> QED BY <1>1, <1>2, <1>3, <1>4, <1>5, <1>6

\* Records that differ only in what the attribution does not speak of.
LEMMA AlikeAttributed ==
  ASSUME NEW t, NEW u, NEW T, Attributed(t, T),
         u.queue = t.queue, u.flight = t.flight, u.base = t.base, u.snapshot = t.snapshot,
         u.unreviewed = t.unreviewed, u.status = "created" <=> t.status = "created"
  PROVE  Attributed(u, T)
<1>1. Base(u) = Base(t) /\ Before(u, 1) = Before(t, 1)
  BY DEF Base, Before
<1>2. UntouchedFollow(u, T) /\ WholeFollows(u, T)
  BY <1>1, Nearer DEF Attributed
<1>3. HunksDiffer(u, T) /\ FlightKeeps(u)
  BY DEF Attributed, HunksDiffer, FlightKeeps
<1> QED BY <1>2, <1>3 DEF Attributed

\* Queueing an update, field by field.
LEMMA Scheduled ==
  ASSUME NEW t \in TrackedBuffers, NEW s \in Texts, NEW a \in {"agent", "user"}
  PROVE  LET u == ScheduleDiffUpdate(t, a, s)
             n == Len(t.queue)
         IN  /\ n \in Nat /\ Len(u.queue) = n + 1
             /\ u.queue[n + 1].author = a /\ u.queue[n + 1].text = s
             /\ \A i \in 1..n : u.queue[i] = t.queue[i]
             /\ \A i \in 1..(n + 1) : Before(u, i) = Before(t, i)
             /\ Before(u, n + 1) = Latest(t) /\ Latest(u) = s
             /\ u.flight = t.flight /\ u.base = t.base /\ u.snapshot = t.snapshot
             /\ u.unreviewed = t.unreviewed /\ u.status = t.status
<1> DEFINE e == [author |-> a, text |-> s]
           q == Append(t.queue, e)
           u == ScheduleDiffUpdate(t, a, s)
           n == Len(t.queue)
<1>1. t.queue \in Seq(Entries) /\ e \in Entries
  BY DEF TrackedBuffers, Entries
<1>2. n \in Nat /\ Len(q) = n + 1 /\ q[n + 1] = e /\ \A i \in 1..n : q[i] = t.queue[i]
  BY <1>1
<1>3. /\ u.queue = q /\ u.flight = t.flight /\ u.base = t.base /\ u.snapshot = t.snapshot
      /\ u.unreviewed = t.unreviewed /\ u.status = t.status
  BY DEF ScheduleDiffUpdate, TrackedBuffers
<1>4. e.author = a /\ e.text = s
  OBVIOUS
<1> HIDE DEF q, e, u, n
<1>5. \A i \in 1..(n + 1) : Before(u, i) = Before(t, i)
  BY <1>2, <1>3 DEF Before
<1>6. Before(u, n + 1) = Latest(t)
  BY <1>2, <1>5 DEF Latest, n
<1>7. Latest(u) = s
  BY <1>2, <1>3, <1>4 DEF Latest, Before
<1> QED BY <1>2, <1>3, <1>4, <1>5, <1>6, <1>7 DEF u, n

\* Follows of a prefix of the queue is not disturbed by a further update.
LEMMA PrefixFollows ==
  ASSUME NEW t \in TrackedBuffers, NEW s \in Texts, NEW a \in {"agent", "user"},
         NEW r, NEW i \in 0..Len(t.queue), Follows(t, r, i)
  PROVE  Follows(ScheduleDiffUpdate(t, a, s), r, i)
<1> DEFINE u == ScheduleDiffUpdate(t, a, s)
           n == Len(t.queue)
<1>1. /\ n \in Nat /\ \A j \in 1..n : u.queue[j] = t.queue[j]
      /\ \A j \in 1..(n + 1) : Before(u, j) = Before(t, j)
      /\ u.flight = t.flight /\ u.base = t.base
  BY Scheduled
<1> HIDE DEF u
<1>2. \A j \in 1..i : j \in 1..n /\ j \in 1..(n + 1)
  BY <1>1
<1>3. Base(u) = Base(t) /\ Before(u, 1) = Before(t, 1)
  BY <1>1 DEF Base
<1>4. LeftAlone(u, r, i)
  BY <1>1, <1>2 DEF Follows, LeftAlone
<1>5. Agrees(u, r, i)
  BY <1>1, <1>2, <1>3 DEF Follows, Agrees
<1> QED BY <1>4, <1>5 DEF Follows, u

\* One more update, of the user's or where the agent leaves r alone: r follows
\* when it did so before, or when the update restores the base.
LEMMA OneMoreFollows ==
  ASSUME NEW t \in TrackedBuffers, NEW s \in Texts, NEW a \in {"agent", "user"},
         NEW r \in Regions, LeftAlone(t, r, Len(t.queue)),
         Agrees(t, r, Len(t.queue)) \/ At(s, r) = At(Base(t), r),
         a = "agent" => At(s, r) = At(Latest(t), r)
  PROVE  Follows(ScheduleDiffUpdate(t, a, s), r, Len(t.queue) + 1)
<1> DEFINE u == ScheduleDiffUpdate(t, a, s)
           n == Len(t.queue)
<1>1. /\ n \in Nat /\ \A j \in 1..n : u.queue[j] = t.queue[j]
      /\ u.queue[n + 1].author = a /\ u.queue[n + 1].text = s
      /\ \A j \in 1..(n + 1) : Before(u, j) = Before(t, j)
      /\ Before(u, n + 1) = Latest(t)
      /\ u.flight = t.flight /\ u.base = t.base
  BY Scheduled
<1> HIDE DEF u
<1>2. Base(u) = Base(t) /\ Before(u, 1) = Before(t, 1)
  BY <1>1 DEF Base
<1>3. LeftAlone(u, r, n + 1)
  <2> SUFFICES ASSUME NEW j \in 1..(n + 1), u.queue[j].author = "agent"
               PROVE  At(u.queue[j].text, r) = At(Before(u, j), r)
    BY DEF LeftAlone
  <2>1. CASE j = n + 1
    BY <1>1, <2>1
  <2>2. CASE j # n + 1
    <3>1. j \in 1..n
      BY <1>1, <2>2
    <3> QED BY <1>1, <3>1 DEF LeftAlone
  <2> QED BY <2>1, <2>2
<1>4. Agrees(u, r, n + 1)
  <2>1. CASE Agrees(t, r, n)
    <3>1. \A m \in 1..n : m \in 1..(n + 1)
      BY <1>1
    <3> QED BY <1>1, <1>2, <2>1, <3>1 DEF Agrees
  <2>2. CASE At(s, r) = At(Base(t), r)
    <3>1. n + 1 \in 1..(n + 1)
      BY <1>1
    <3> QED BY <1>1, <1>2, <2>2, <3>1 DEF Agrees
  <2> QED BY <2>1, <2>2
<1> QED BY <1>3, <1>4 DEF Follows, u

\* One more update in the queue, when the regions T are touched afterwards.
LEMMA QueuedAttributed ==
  ASSUME NEW t \in TrackedBuffers, NEW s \in Texts, NEW a \in {"agent", "user"},
         NEW T \in SUBSET Regions,
         HunksDiffer(t, T), FlightKeeps(t),
         \A r \in Regions \ T :
           /\ LeftAlone(t, r, Len(t.queue))
           /\ Agrees(t, r, Len(t.queue)) \/ At(s, r) = At(Base(t), r)
           /\ a = "agent" => At(s, r) = At(Latest(t), r),
         T # Regions =>
           /\ \A i \in 1..Len(t.queue) : Wholesale(t, i) => \A r \in Regions : Follows(t, r, i)
           /\ \/ T = {}
              \/ /\ s = Empty => Latest(t) = Empty
                 /\ Latest(t) = Empty => \A r \in Regions : Follows(t, r, Len(t.queue))
  PROVE  Attributed(ScheduleDiffUpdate(t, a, s), T)
<1> DEFINE u == ScheduleDiffUpdate(t, a, s)
           n == Len(t.queue)
<1>1. /\ n \in Nat /\ Len(u.queue) = n + 1 /\ \A j \in 1..n : u.queue[j] = t.queue[j]
      /\ u.queue[n + 1].author = a /\ u.queue[n + 1].text = s
      /\ \A j \in 1..(n + 1) : Before(u, j) = Before(t, j)
      /\ Before(u, n + 1) = Latest(t) /\ Latest(u) = s
      /\ u.flight = t.flight /\ u.base = t.base /\ u.snapshot = t.snapshot
      /\ u.unreviewed = t.unreviewed /\ u.status = t.status
  BY Scheduled
<1>2. \A r \in Regions \ T : Follows(u, r, n + 1)
  BY OneMoreFollows
<1>3. \A r, i : i \in 0..n /\ Follows(t, r, i) => Follows(u, r, i)
  BY PrefixFollows
<1>4. HunksDiffer(u, T) /\ FlightKeeps(u)
  BY <1>1 DEF HunksDiffer, FlightKeeps
<1>5. UntouchedFollow(u, T)
  BY <1>1, <1>2 DEF UntouchedFollow
<1>6. ASSUME T # Regions, s = Empty \/ Wholesale(u, n + 1), NEW r \in Regions
      PROVE  Follows(u, r, n + 1)
  <2>1. CASE T = {}
    BY <1>2, <2>1
  <2>2. CASE T # {}
    <3>1. Latest(t) = Empty /\ Follows(t, r, n)
      BY <1>1, <1>6, <2>2 DEF Wholesale
    <3>2. a = "agent" => s = Empty
      <4>1. PICK o \in Regions : o \notin T
        BY <1>6
      <4>2. a = "agent" => At(s, o) = Empty
        BY <3>1, <4>1 DEF At
      <4> QED BY <4>2, AtTyped
    <3>3. a = "agent" => At(s, r) = At(Latest(t), r)
      BY <3>1, <3>2
    <3> HIDE DEF u
    <3>4. LeftAlone(t, r, n) /\ Agrees(t, r, n)
      BY <3>1 DEF Follows
    <3> QED BY <3>3, <3>4, OneMoreFollows DEF u
  <2> QED BY <2>1, <2>2
<1>7. ASSUME T # Regions, NEW i \in 1..(n + 1), Wholesale(u, i), NEW r \in Regions
      PROVE  Follows(u, r, i)
  <2>1. CASE i = n + 1
    BY <1>6, <1>7, <2>1
  <2>2. CASE i # n + 1
    <3>1. i \in 1..n /\ i \in 0..n
      BY <1>1, <2>2
    <3>2. Wholesale(t, i)
      BY <1>1, <1>7, <3>1 DEF Wholesale
    <3> QED BY <1>3, <1>7, <3>1, <3>2
  <2> QED BY <2>1, <2>2
<1> HIDE DEF u
<1>8. WholeFollows(u, T)
  BY <1>1, <1>6, <1>7 DEF WholeFollows
<1> QED BY <1>4, <1>5, <1>8 DEF Attributed, u

\* track_edits takes up an update: the queue moves up by one.
LEMMA TakenView ==
  ASSUME NEW t \in TrackedBuffers, t.flight = None, t.queue # <<>>, NEW b \in Texts
  PROVE  LET u == [t EXCEPT !.queue = Tail(t.queue),
                            !.flight = [base |-> b, snapshot |-> Head(t.queue).text, shown |-> FALSE]]
             n == Len(t.queue)
         IN  /\ n \in Nat \ {0} /\ Len(u.queue) = n - 1
             /\ t.queue[1] \in Entries /\ Before(t, 1) = t.snapshot /\ Base(t) = t.base
             /\ \A j \in 1..(n - 1) : u.queue[j] = t.queue[j + 1]
             /\ \A j \in 1..n : Before(u, j) = Before(t, j + 1)
             /\ Latest(u) = Latest(t)
             /\ Base(u) = b /\ Before(u, 1) = t.queue[1].text
             /\ u.flight # None /\ u.flight.snapshot = t.queue[1].text /\ u.flight.base = b
             /\ u.base = t.base /\ u.snapshot = t.snapshot /\ u.unreviewed = t.unreviewed
<1> DEFINE f == [base |-> b, snapshot |-> Head(t.queue).text, shown |-> FALSE]
           q == Tail(t.queue)
           u == [t EXCEPT !.queue = q, !.flight = f]
           n == Len(t.queue)
<1>1. t.queue \in Seq(Entries)
  BY DEF TrackedBuffers, Entries
<1>2. /\ n \in Nat \ {0} /\ Len(q) = n - 1 /\ \A j \in 1..(n - 1) : q[j] = t.queue[j + 1]
      /\ Head(t.queue) = t.queue[1] /\ t.queue[1] \in Entries
  BY <1>1
<1>3. f.base = b /\ f.snapshot = t.queue[1].text
  BY <1>2
<1>4. f # None
  <2>1. f \in Flights
    BY <1>2 DEF Flights, Entries
  <2> QED BY <2>1, Distinct
<1> HIDE DEF f, q, n
<1>5. /\ u.queue = q /\ u.flight = f /\ u.base = t.base /\ u.snapshot = t.snapshot
      /\ u.unreviewed = t.unreviewed
  BY DEF TrackedBuffers
<1> HIDE DEF u
<1>6. Before(u, 1) = t.queue[1].text /\ Base(u) = b /\ Before(t, 1) = t.snapshot /\ Base(t) = t.base
  BY <1>3, <1>4, <1>5 DEF Before, Base
<1>7. \A j \in 1..n : Before(u, j) = Before(t, j + 1)
  <2> TAKE j \in 1..n
  <2>1. CASE j = 1
    BY <1>6, <2>1 DEF Before
  <2>2. CASE j # 1
    <3>1. j - 1 \in 1..(n - 1) /\ j > 1 /\ j + 1 > 1 /\ (j - 1) + 1 = j /\ (j + 1) - 1 = j
      BY <1>2, <2>2
    <3>2. q[j - 1] = t.queue[j]
      BY <1>2, <3>1
    <3> QED BY <1>5, <3>1, <3>2 DEF Before
  <2> QED BY <2>1, <2>2
<1>8. Latest(u) = Latest(t)
  <2>1. n \in 1..n /\ Len(u.queue) + 1 = n
    BY <1>2, <1>5
  <2> QED BY <1>7, <2>1 DEF Latest, n
<1> QED BY <1>2, <1>3, <1>4, <1>5, <1>6, <1>7, <1>8 DEF u, q, f, n

\* What the rebase of the diff base does to a region that follows: it agrees with
\* the new text, or it is kept for a later update that restores it.
LEMMA RebaseFollows ==
  ASSUME NEW t, NEW x, Sound(t, x), t.flight = None, NEW T, T # Regions, HunksDiffer(t, T),
         NEW e \in Entries, t.queue[1] = e, NEW b \in Texts,
         e.author # "user" => b = t.base,
         e.author = "user" =>
           /\ \A r \in Regions : \/ At(b, r) = At(t.base, r)
                                 \/ At(b, r) = At(e.text, r) /\ At(e.text, r) # At(t.snapshot, r)
           /\ \A r \in Regions : At(e.text, r) # At(t.snapshot, r) =>
                \/ At(b, r) = At(e.text, r)
                \/ \E h \in Hunks(t.snapshot, e.text) : r \in h /\ h \cap UNION t.unreviewed # {},
         NEW r \in Regions, NEW i \in Nat, i >= 1, Follows(t, r, i),
         Wholesale(t, 1) => \A o \in Regions : Follows(t, o, 1)
  PROVE  \/ At(b, r) = At(e.text, r)
         \/ At(b, r) = At(t.base, r) /\ \E m \in 2..i : At(t.queue[m].text, r) = At(t.base, r)
<1>1. t.base \in Texts /\ t.snapshot \in Texts /\ t.unreviewed \in SUBSET SUBSET Regions
  BY DEF Sound, TrackedBuffers
<1>2. e.text \in Texts /\ e.author \in {"agent", "user"}
  BY DEF Entries
<1>3. Before(t, 1) = t.snapshot /\ Base(t) = t.base
  BY DEF Before, Base
<1>4. \/ At(t.base, r) = At(t.snapshot, r)
      \/ At(e.text, r) = At(t.base, r)
      \/ \E m \in 2..i : At(t.queue[m].text, r) = At(t.base, r)
  <2>1. \A m \in 1..i : m = 1 \/ m \in 2..i
    OBVIOUS
  <2> QED BY <1>3, <2>1 DEF Follows, Agrees
<1>5. CASE At(e.text, r) = At(t.snapshot, r)
  <2>1. At(b, r) = At(t.base, r)
    BY <1>2, <1>5
  <2> QED BY <1>4, <1>5, <2>1
<1>6. CASE At(e.text, r) # At(t.snapshot, r) /\ At(b, r) # At(e.text, r)
  <2>1. e.author = "user"
    <3>1. 1 \in 1..i
      OBVIOUS
    <3> QED BY <1>2, <1>3, <1>6, <3>1 DEF Follows, LeftAlone
  <2>2. At(b, r) = At(t.base, r)
    BY <1>6, <2>1
  <2>3. At(t.base, r) # At(t.snapshot, r)
    <3> SUFFICES ASSUME At(t.base, r) = At(t.snapshot, r)
                 PROVE  FALSE
      OBVIOUS
    <3>1. PICK h \in Hunks(t.snapshot, e.text) : r \in h /\ h \cap UNION t.unreviewed # {}
      BY <1>6, <2>1
    <3>2. PICK o \in h : o \in UNION t.unreviewed
      BY <3>1
    <3>3. PICK g \in t.unreviewed : o \in g
      BY <3>2
    <3>4. o \in Regions /\ At(t.base, o) # At(t.snapshot, o)
      BY <1>1, <3>3 DEF HunksDiffer
    <3>5. t.snapshot # e.text /\ Empty \in {t.snapshot, e.text}
      <4>1. t.snapshot # e.text
        BY <1>6
      <4>2. ASSUME Empty \notin {t.snapshot, e.text}
            PROVE  FALSE
        <5>1. Hunks(t.snapshot, e.text) =
                {{p} : p \in {q \in Regions : t.snapshot[q] # e.text[q]}}
          BY <4>1, <4>2 DEF Hunks
        <5>2. o = r
          BY <3>1, <3>2, <5>1
        <5> QED BY <3>4, <5>2
      <4> QED BY <4>1, <4>2
    <3>6. Wholesale(t, 1)
      BY <1>3, <3>5 DEF Wholesale
    <3>7. At(e.text, o) = At(t.base, o)
      <4>1. Agrees(t, o, 1)
        BY <3>4, <3>6 DEF Follows
      <4>2. \A m \in 1..1 : m = 1
        OBVIOUS
      <4> QED BY <1>3, <3>4, <4>1, <4>2 DEF Agrees
    <3>8. /\ At(t.base, r) = Empty <=> t.base = Empty
          /\ At(t.base, o) = Empty <=> t.base = Empty
          /\ At(t.snapshot, r) = Empty <=> t.snapshot = Empty
          /\ At(e.text, o) = Empty <=> e.text = Empty
      BY <1>1, <1>2, <3>4, AtTyped
    <3> QED BY <3>5, <3>7, <3>8
  <2> QED BY <1>4, <1>6, <2>2, <2>3
<1> QED BY <1>5, <1>6

\* A region that follows up to the i-th update still does when the first is taken.
LEMMA TakenFollows ==
  ASSUME NEW t \in TrackedBuffers, t.flight = None, t.queue # <<>>, NEW b \in Texts,
         NEW r \in Regions, NEW i \in 1..Len(t.queue), LeftAlone(t, r, i),
         \/ At(b, r) = At(t.queue[1].text, r)
         \/ At(b, r) = At(t.base, r) /\ \E m \in 2..i : At(t.queue[m].text, r) = At(t.base, r)
  PROVE  Follows([t EXCEPT !.queue = Tail(t.queue),
                           !.flight = [base |-> b, snapshot |-> Head(t.queue).text, shown |-> FALSE]],
                 r, i - 1)
<1> DEFINE u == [t EXCEPT !.queue = Tail(t.queue),
                          !.flight = [base |-> b, snapshot |-> Head(t.queue).text, shown |-> FALSE]]
           n == Len(t.queue)
<1>1. /\ n \in Nat \ {0}
      /\ \A j \in 1..(n - 1) : u.queue[j] = t.queue[j + 1]
      /\ \A j \in 1..n : Before(u, j) = Before(t, j + 1)
      /\ Base(u) = b /\ Before(u, 1) = t.queue[1].text
  BY TakenView
<1> HIDE DEF u
<1>2. \A j \in 1..(i - 1) : j \in 1..(n - 1) /\ j \in 1..n /\ j + 1 \in 1..i
  BY <1>1
<1>3. LeftAlone(u, r, i - 1)
  BY <1>1, <1>2 DEF LeftAlone
<1>4. Agrees(u, r, i - 1)
  <2>1. CASE At(b, r) = At(t.queue[1].text, r)
    BY <1>1, <2>1 DEF Agrees
  <2>2. CASE At(b, r) = At(t.base, r) /\ \E m \in 2..i : At(t.queue[m].text, r) = At(t.base, r)
    <3>1. PICK m \in 2..i : At(t.queue[m].text, r) = At(t.base, r)
      BY <2>2
    <3>2. m - 1 \in 1..(i - 1) /\ m - 1 \in 1..(n - 1) /\ (m - 1) + 1 = m
      BY <1>1
    <3>3. At(u.queue[m - 1].text, r) = At(b, r)
      BY <1>1, <2>2, <3>1, <3>2
    <3> QED BY <1>1, <3>2, <3>3 DEF Agrees
  <2> QED BY <2>1, <2>2
<1> QED BY <1>3, <1>4 DEF Follows, u

\* track_edits keeps the attribution.
LEMMA TakenAttributed ==
  ASSUME NEW t, NEW x, Sound(t, x), t.flight = None, t.queue # <<>>, NEW T \in SUBSET Regions,
         Attributed(t, T), NEW b \in Texts,
         t.queue[1].author # "user" => b = t.base,
         t.queue[1].author = "user" =>
           /\ \A r \in Regions :
                \/ At(b, r) = At(t.base, r)
                \/ At(b, r) = At(t.queue[1].text, r) /\ At(t.queue[1].text, r) # At(t.snapshot, r)
           /\ \A r \in Regions : At(t.queue[1].text, r) # At(t.snapshot, r) =>
                \/ At(b, r) = At(t.queue[1].text, r)
                \/ \E h \in Hunks(t.snapshot, t.queue[1].text) :
                     r \in h /\ h \cap UNION t.unreviewed # {}
  PROVE  Attributed([t EXCEPT !.queue = Tail(t.queue),
                              !.flight = [base |-> b, snapshot |-> Head(t.queue).text,
                                          shown |-> FALSE]], T)
<1> DEFINE u == [t EXCEPT !.queue = Tail(t.queue),
                          !.flight = [base |-> b, snapshot |-> Head(t.queue).text, shown |-> FALSE]]
           n == Len(t.queue)
<1>1. t \in TrackedBuffers
  BY DEF Sound
<1>2. /\ n \in Nat \ {0} /\ Len(u.queue) = n - 1
      /\ t.queue[1] \in Entries
      /\ \A j \in 1..(n - 1) : u.queue[j] = t.queue[j + 1]
      /\ \A j \in 1..n : Before(u, j) = Before(t, j + 1)
      /\ Latest(u) = Latest(t)
      /\ u.flight # None /\ u.flight.snapshot = t.queue[1].text /\ u.flight.base = b
      /\ u.base = t.base /\ u.snapshot = t.snapshot /\ u.unreviewed = t.unreviewed
  BY <1>1, TakenView, ZenonT(60)
<1>3. 1 \in 1..n
  BY <1>2
<1>4. ASSUME T # Regions, NEW r \in Regions, NEW i \in 1..n, Follows(t, r, i)
      PROVE  Follows(u, r, i - 1)
  <2>1. Wholesale(t, 1) => \A o \in Regions : Follows(t, o, 1)
    BY <1>3, <1>4 DEF Attributed, WholeFollows
  <2>2. HunksDiffer(t, T) /\ LeftAlone(t, r, i) /\ i \in Nat /\ i >= 1
    BY <1>2, <1>4 DEF Attributed, Follows
  <2> DEFINE e == t.queue[1]
  <2>3. e \in Entries /\ t.queue[1] = e
    BY <1>2
  <2>4. /\ e.author # "user" => b = t.base
        /\ e.author = "user" =>
             /\ \A o \in Regions : \/ At(b, o) = At(t.base, o)
                                   \/ At(b, o) = At(e.text, o) /\ At(e.text, o) # At(t.snapshot, o)
             /\ \A o \in Regions : At(e.text, o) # At(t.snapshot, o) =>
                  \/ At(b, o) = At(e.text, o)
                  \/ \E h \in Hunks(t.snapshot, e.text) : o \in h /\ h \cap UNION t.unreviewed # {}
    OBVIOUS
  <2> HIDE DEF e
  <2>5. \/ At(b, r) = At(e.text, r)
        \/ At(b, r) = At(t.base, r) /\ \E m \in 2..i : At(t.queue[m].text, r) = At(t.base, r)
    BY <1>4, <2>1, <2>2, <2>3, <2>4, RebaseFollows
  <2> QED BY <1>1, <2>2, <2>3, <2>5, TakenFollows
<1> HIDE DEF u
<1>5. UntouchedFollow(u, T)
  <2> SUFFICES ASSUME NEW r \in Regions \ T
               PROVE  Follows(u, r, Len(u.queue))
    BY DEF UntouchedFollow
  <2>1. Follows(t, r, n) /\ T # Regions /\ n \in 1..n
    BY <1>2 DEF Attributed, UntouchedFollow
  <2> QED BY <1>2, <1>4, <2>1
<1>6. WholeFollows(u, T)
  <2> SUFFICES ASSUME T # Regions
               PROVE  /\ \A i \in 1..(n - 1) : Wholesale(u, i) =>
                                                 \A r \in Regions : Follows(u, r, i)
                      /\ Latest(t) = Empty => \A r \in Regions : Follows(u, r, n - 1)
    BY <1>2 DEF WholeFollows
  <2>1. ASSUME NEW i \in 1..(n - 1), Wholesale(u, i), NEW r \in Regions
        PROVE  Follows(u, r, i)
    <3>1. i + 1 \in 1..n /\ i \in 1..n /\ (i + 1) - 1 = i
      BY <1>2
    <3>2. Wholesale(t, i + 1)
      BY <1>2, <2>1, <3>1 DEF Wholesale
    <3>3. Follows(t, r, i + 1)
      BY <3>1, <3>2 DEF Attributed, WholeFollows
    <3>4. Follows(u, r, (i + 1) - 1)
      BY <1>4, <3>1, <3>3
    <3> QED BY <3>1, <3>4
  <2>2. ASSUME Latest(t) = Empty, NEW r \in Regions
        PROVE  Follows(u, r, n - 1)
    <3>1. Follows(t, r, n) /\ n \in 1..n
      BY <1>2, <2>2 DEF Attributed, WholeFollows
    <3> QED BY <1>4, <3>1
  <2> QED BY <2>1, <2>2
<1>7. HunksDiffer(u, T)
  BY <1>2 DEF HunksDiffer
<1>8. FlightKeeps(u)
  <2> SUFFICES ASSUME NEW r \in UNION t.unreviewed, At(t.snapshot, r) = At(t.queue[1].text, r)
               PROVE  At(b, r) = At(t.base, r)
    BY <1>2 DEF FlightKeeps
  <2>1. r \in Regions /\ t.queue[1].author \in {"agent", "user"}
    BY <1>1, <1>2 DEF TrackedBuffers, Entries
  <2> QED BY <2>1
<1> QED BY <1>5, <1>6, <1>7, <1>8 DEF Attributed, u

\* Regions without pending changes: the file is neither emptied nor filled on the
\* way, and the agent leaves them alone.
LEMMA NotPending ==
  ASSUME NEW t \in TrackedBuffers, NEW r \in Regions, r \notin AgentPending(t)
  PROVE  /\ \A i \in 1..Len(t.queue) : ~Wholesale(t, i)
         /\ LeftAlone(t, r, Len(t.queue))
         /\ At(t.snapshot, r) = At(Before(t, 1), r)
         /\ Latest(t) = Empty => /\ t.snapshot = Empty /\ Before(t, 1) = Empty
                                 /\ \A i \in 1..Len(t.queue) :
                                      t.queue[i].text = Empty /\ Before(t, i) = Empty
<1> DEFINE last == IF t.flight = None THEN t.snapshot ELSE t.flight.snapshot
           n == Len(t.queue)
           texts == {t.snapshot, last} \cup {t.queue[i].text : i \in DOMAIN t.queue}
           agents == {j \in DOMAIN t.queue : t.queue[j].author = "agent"}
           G == UNION {Hunks(IF i = 1 THEN last ELSE t.queue[i - 1].text, t.queue[i].text) :
                         i \in agents}
<1>1. t.queue \in Seq(Entries) /\ t.snapshot \in Texts /\ last \in Texts
  <2>1. t.flight # None => t.flight \in Flights
    BY DEF TrackedBuffers
  <2>2. t.flight # None => t.flight.snapshot \in Texts
    BY <2>1 DEF Flights
  <2> QED BY <2>2 DEF TrackedBuffers, Entries
<1>2. /\ n \in Nat /\ DOMAIN t.queue = 1..n
      /\ \A i \in 1..n : t.queue[i] \in Entries
  BY <1>1
<1>3. \A i \in 1..n : t.queue[i].text \in Texts
  BY <1>2 DEF Entries
<1>4. Before(t, 1) = last
  BY DEF Before
<1>5. \A i \in 1..n : Before(t, i) = IF i = 1 THEN last ELSE t.queue[i - 1].text
  BY <1>2, <1>4 DEF Before
<1>6. /\ ~(Empty \in texts /\ texts # {Empty})
      /\ r \notin UNION (Hunks(t.snapshot, last) \cup G)
  BY DEF AgentPending
<1>7. last \in texts /\ t.snapshot \in texts /\ \A i \in 1..n : t.queue[i].text \in texts
  BY <1>2
<1> HIDE DEF texts, last
<1>8. \A i \in 1..n : Before(t, i) \in texts /\ Before(t, i) \in Texts
  <2> TAKE i \in 1..n
  <2>1. CASE i = 1
    BY <1>1, <1>4, <1>7, <2>1
  <2>2. CASE i # 1
    <3>1. i - 1 \in 1..n
      BY <1>2, <2>2
    <3> QED BY <1>3, <1>5, <1>7, <2>2, <3>1
  <2> QED BY <2>1, <2>2
<1>9. \A i \in 1..n : ~Wholesale(t, i)
  BY <1>6, <1>7, <1>8 DEF Wholesale
<1>10. LeftAlone(t, r, n)
  <2> SUFFICES ASSUME NEW j \in 1..n, t.queue[j].author = "agent"
               PROVE  At(t.queue[j].text, r) = At(Before(t, j), r)
    BY DEF LeftAlone
  <2>1. j \in agents
    BY <1>2
  <2>2. r \notin UNION Hunks(Before(t, j), t.queue[j].text)
    BY <1>5, <1>6, <2>1
  <2> QED BY <1>3, <1>8, <2>2, HunksOf
<1>11. At(t.snapshot, r) = At(Before(t, 1), r)
  <2>1. r \notin UNION Hunks(t.snapshot, last)
    BY <1>6
  <2> QED BY <1>1, <1>4, <2>1, HunksOf
<1>12. Latest(t) \in texts
  <2>1. CASE n = 0
    BY <1>4, <1>7, <2>1 DEF Latest
  <2>2. CASE n # 0
    <3>1. n \in 1..n /\ n + 1 > 1 /\ (n + 1) - 1 = n
      BY <1>2, <2>2
    <3> QED BY <1>7, <3>1 DEF Latest, Before
  <2> QED BY <2>1, <2>2
<1>13. ASSUME Latest(t) = Empty
       PROVE  /\ t.snapshot = Empty /\ Before(t, 1) = Empty
              /\ \A i \in 1..n : t.queue[i].text = Empty /\ Before(t, i) = Empty
  <2>1. texts = {Empty}
    BY <1>6, <1>12, <1>13
  <2> QED BY <1>4, <1>7, <1>8, <2>1
<1> QED BY <1>9, <1>10, <1>11, <1>13

\* A keep of the regions h leaves the hunks rest, and the regions T2 of T touched
Keeps(t, h, rest, T, T2) ==
  /\ rest \subseteq t.unreviewed
  /\ h = {} \/ h = Regions \/ (t.snapshot # Empty /\ t.base # Empty)
  /\ \A r \in UNION t.unreviewed : r \in h \/ r \in UNION rest
  /\ \A g \in rest : g \cap h = {}
  /\ T2 \subseteq T
  /\ t.flight # None => T2 = T
  /\ \A r \in T \ T2 : r \notin AgentPending(t) /\ (r \in h \/ r \notin UNION t.unreviewed)

\* A keep does not unsettle the attribution.
LEMMA KeptAttributed ==
  ASSUME NEW t, Sound(t, text), text \in Texts, NEW T \in SUBSET Regions, Attributed(t, T),
         NEW h \in SUBSET Regions, NEW rest, NEW T2, Keeps(t, h, rest, T, T2)
  PROVE  Attributed(Kept(t, h, rest), T2)
<1> DEFINE b == Take(h, t.snapshot, t.base)
           st == IF rest = {} THEN "modified" ELSE t.status
           ex == IF rest = {} THEN None ELSE t.existing
           u == [t EXCEPT !.base = b, !.unreviewed = rest, !.status = st, !.existing = ex]
           n == Len(t.queue)
<1>1. Kept(t, h, rest) = ScheduleDiffUpdate(u, "user", text)
  BY DEF Kept
<1>2. t \in TrackedBuffers /\ Latest(t) = text
  BY DEF Sound
<1>3. /\ t.base \in Texts /\ t.snapshot \in Texts /\ t.unreviewed \in SUBSET SUBSET Regions
      /\ t.status \in {"modified", "created", "deleted"} /\ t.existing \in Texts \cup {None}
  BY <1>2 DEF TrackedBuffers
<1>4. /\ b \in Texts
      /\ \A r \in h : At(b, r) = At(t.snapshot, r)
      /\ \A r \in Regions \ h : At(b, r) = At(t.base, r)
  <2>1. h = {} \/ h = Regions \/ (t.snapshot # Empty /\ t.base # Empty)
    BY DEF Keeps
  <2> QED BY <1>3, <2>1, TakeAt
<1>5. /\ st \in {"modified", "created", "deleted"} /\ ex \in Texts \cup {None}
      /\ rest # {} => st = t.status
  BY <1>3
<1> HIDE DEF b, st, ex
<1>6. u \in TrackedBuffers
  BY <1>2, <1>3, <1>4, <1>5 DEF TrackedBuffers, Keeps
<1>7. /\ u.base = b /\ u.unreviewed = rest /\ u.status = st
      /\ u.snapshot = t.snapshot /\ u.queue = t.queue /\ u.flight = t.flight
  BY <1>2 DEF TrackedBuffers
<1> HIDE DEF u
<1>8. /\ Before(u, 1) = Before(t, 1)
      /\ t.flight = None => Before(t, 1) = t.snapshot /\ Base(t) = t.base /\ Base(u) = b
      /\ t.flight # None => Base(u) = Base(t)
  BY <1>7 DEF Before, Base
<1>9. \A r \in Regions : At(Base(u), r) \in {At(Base(t), r), At(Before(t, 1), r)}
  BY <1>4, <1>8
<1>10. /\ \A i : Before(u, i) = Before(t, i)
       /\ \A r \in Regions : \A i :
            /\ LeftAlone(t, r, i) => LeftAlone(u, r, i)
            /\ Follows(t, r, i) => Follows(u, r, i)
       /\ WholeFollows(t, T) => WholeFollows(u, T)
  <2>1. u.queue = t.queue /\ Before(u, 1) = Before(t, 1)
    BY <1>7, <1>8
  <2>2. \A i : Before(u, i) = Before(t, i)
    BY <1>9, <2>1, Nearer
  <2>3. \A r \in Regions : \A i :
          /\ LeftAlone(t, r, i) => LeftAlone(u, r, i)
          /\ Follows(t, r, i) => Follows(u, r, i)
    <3> SUFFICES ASSUME NEW r \in Regions, NEW i
                 PROVE  /\ LeftAlone(t, r, i) => LeftAlone(u, r, i)
                        /\ Follows(t, r, i) => Follows(u, r, i)
      OBVIOUS
    <3>1. LeftAlone(t, r, i) => LeftAlone(u, r, i)
      BY <2>1, <2>2 DEF LeftAlone
    <3>2. Agrees(t, r, i) => Agrees(u, r, i)
      BY <1>9, <2>1 DEF Agrees
    <3> QED BY <3>1, <3>2 DEF Follows
  <2>4. WholeFollows(t, T) => WholeFollows(u, T)
    BY <1>9, <2>1, Nearer
  <2> QED BY <2>2, <2>3, <2>4
<1>11. Latest(u) = text /\ \A i : Wholesale(u, i) <=> Wholesale(t, i)
  BY <1>2, <1>7, <1>10 DEF Latest, Wholesale
<1>12. \A r \in Regions \ T2 : LeftAlone(u, r, n) /\ Agrees(u, r, n)
  <2> TAKE r \in Regions \ T2
  <2>1. CASE r \notin T
    BY <1>10, <2>1 DEF Attributed, UntouchedFollow, Follows
  <2>2. CASE r \in T
    <3>1. t.flight = None /\ LeftAlone(t, r, n)
      BY <1>2, <2>2, NotPending DEF Keeps
    <3>2. At(b, r) = At(t.snapshot, r)
      BY <1>4, <2>2, <3>1 DEF Sound, Keeps
    <3> QED BY <1>8, <1>10, <3>1, <3>2 DEF Agrees
  <2> QED BY <2>1, <2>2
<1>13. HunksDiffer(u, T2)
  <2> SUFFICES ASSUME t.flight = None, NEW g \in rest
               PROVE  \/ \A r \in g : At(b, r) # At(t.snapshot, r)
                      \/ g = Regions /\ T2 = Regions /\ st = "created"
    BY <1>7 DEF HunksDiffer
  <2>1. CASE \A r \in g : At(t.base, r) # At(t.snapshot, r)
    <3>1. \A r \in g : r \in Regions \ h
      BY <1>3 DEF Keeps
    <3> QED BY <1>4, <2>1, <3>1
  <2>2. CASE g = Regions /\ T = Regions /\ t.status = "created"
    <3>1. h = {} /\ \A r \in Regions : r \in UNION t.unreviewed
      BY <2>2 DEF Keeps
    <3>2. T2 = Regions
      BY <2>2, <3>1 DEF Keeps
    <3> QED BY <1>5, <2>2, <3>2
  <2> QED BY <2>1, <2>2 DEF Attributed, HunksDiffer, Keeps
<1>14. FlightKeeps(u)
  <2> SUFFICES ASSUME t.flight # None, NEW r \in UNION rest,
                      At(t.snapshot, r) = At(t.flight.snapshot, r)
               PROVE  At(t.flight.base, r) \in {At(b, r), At(t.snapshot, r)}
    BY <1>7 DEF FlightKeeps
  <2>1. r \in UNION t.unreviewed /\ r \in Regions \ h
    BY <1>3 DEF Keeps
  <2> QED BY <1>4, <2>1 DEF Attributed, FlightKeeps
<1>15. ASSUME T2 # Regions
       PROVE  /\ \A i \in 1..n : Wholesale(t, i) => \A r \in Regions : Follows(u, r, i)
              /\ text = Empty => \A r \in Regions : Follows(u, r, n)
  <2>1. CASE T # Regions
    BY <1>2, <1>10, <2>1 DEF Attributed, WholeFollows, Keeps
  <2>2. CASE T = Regions
    <3>1. PICK o \in Regions : o \notin T2
      BY <1>15, <2>2 DEF Keeps
    <3>2. t.flight = None /\ o \notin AgentPending(t) /\ (o \in h \/ o \notin UNION t.unreviewed)
      BY <2>2, <3>1 DEF Keeps
    <3>3. \A i \in 1..n : ~Wholesale(t, i)
      BY <1>2, <3>2, NotPending
    <3>4. ASSUME text = Empty, NEW r \in Regions
          PROVE  Follows(u, r, n)
      <4>1. /\ t.snapshot = Empty
            /\ \A i \in 1..n : t.queue[i].text = Empty /\ Before(t, i) = Empty
        BY <1>2, <3>2, <3>4, NotPending
      <4>2. LeftAlone(u, r, n)
        BY <1>7, <1>10, <4>1 DEF LeftAlone
      <4>3. t.unreviewed \subseteq {Regions}
        BY <4>1 DEF Sound, Fits
      <4>4. At(b, r) = At(t.snapshot, r)
        <5>1. CASE r \in h
          BY <1>4, <5>1
        <5>2. CASE r \notin h
          <6>1. r \notin UNION t.unreviewed
            BY <3>2, <4>1, <4>3, <5>2 DEF Keeps
          <6> QED BY <1>4, <3>2, <5>2, <6>1 DEF Sound
        <5> QED BY <5>1, <5>2
      <4> QED BY <1>8, <3>2, <4>2, <4>4 DEF Follows, Agrees
    <3> QED BY <3>3, <3>4
  <2> QED BY <2>1, <2>2
<1>16. T2 \in SUBSET Regions /\ Len(u.queue) = n
  BY <1>7 DEF Keeps
<1>17. Attributed(ScheduleDiffUpdate(u, "user", text), T2)
  BY <1>6, <1>11, <1>12, <1>13, <1>14, <1>15, <1>16, QueuedAttributed
<1> QED BY <1>1, <1>17

-----------------------------------------------------------------------------
(* The attribution, action by action. *)

\* What is tracked, and whose it is.
LEMMA AttributedParts ==
  ASSUME IInv, AttributionInv
  PROVE  /\ text \in Texts /\ touched \in SUBSET Regions
         /\ tracked # None => /\ Sound(tracked, text) /\ tracked \in TrackedBuffers
                              /\ Attributed(tracked, touched)
                              /\ tracked.status \in {"modified", "created", "deleted"}
<1>1. text \in Texts /\ (tracked # None => Sound(tracked, text) /\ tracked \in TrackedBuffers)
  BY Parts DEF Well
<1>2. tracked # None => tracked.status \in {"modified", "created", "deleted"}
  BY <1>1 DEF TrackedBuffers
<1> QED BY <1>1, <1>2 DEF AttributionInv

\* What a step must give.
LEMMA AssembleAttributed ==
  ASSUME touched' \in SUBSET Regions, tracked' # None => Attributed(tracked', touched')
  PROVE  AttributionInv'
BY DEF AttributionInv

\* In a new record nothing waits for review.
LEMMA RecordAttributed ==
  ASSUME NEW s \in Texts, NEW T
  PROVE  Attributed(Record(s), T)
<1> DEFINE t == Record(s)
<1>1. /\ t.base = s /\ t.unreviewed = {} /\ t.snapshot = s /\ t.queue = <<>> /\ t.flight = None
      /\ Len(t.queue) = 0
  BY DEF Record
<1> HIDE DEF t
<1>2. Base(t) = s /\ Before(t, 1) = s
  BY <1>1 DEF Base, Before
<1>3. \A r : Follows(t, r, 0)
  BY <1>2 DEF Follows, LeftAlone, Agrees
<1>4. UntouchedFollow(t, T) /\ WholeFollows(t, T)
  BY <1>1, <1>3 DEF UntouchedFollow, WholeFollows
<1>5. HunksDiffer(t, T) /\ FlightKeeps(t)
  BY <1>1 DEF HunksDiffer, FlightKeeps
<1> QED BY <1>4, <1>5 DEF Attributed, t

\* Another version or status, with the status "created" neither gained nor lost.
LEMMA FreshAttributed ==
  ASSUME NEW t \in TrackedBuffers, NEW x, Sound(t, x), NEW T, Attributed(t, T), NEW b \in BOOLEAN,
         NEW st \in {"modified", "created", "deleted"}, st = "created" <=> t.status = "created"
  PROVE  /\ LET u == [t EXCEPT !.fresh = b] IN Sound(u, x) /\ Attributed(u, T)
         /\ LET u == [t EXCEPT !.status = st] IN Sound(u, x) /\ Attributed(u, T)
         /\ LET u == [t EXCEPT !.status = st, !.fresh = b] IN Sound(u, x) /\ Attributed(u, T)
<1>1. ASSUME NEW u \in TrackedBuffers, u.status = "created" <=> t.status = "created",
             u.existing = t.existing, u.base = t.base, u.unreviewed = t.unreviewed,
             u.snapshot = t.snapshot, u.changed = t.changed, u.queue = t.queue,
             u.flight = t.flight, u.commit = t.commit
      PROVE  Sound(u, x) /\ Attributed(u, T)
  <2>1. Sound(u, x)
    BY <1>1, Alike
  <2>2. Attributed(u, T)
    BY <1>1, AlikeAttributed
  <2> QED BY <2>1, <2>2
<1>2. LET u == [t EXCEPT !.fresh = b] IN Sound(u, x) /\ Attributed(u, T)
  <2> DEFINE u == [t EXCEPT !.fresh = b]
  <2>1. /\ u \in TrackedBuffers /\ u.status = t.status
        /\ u.existing = t.existing /\ u.base = t.base /\ u.unreviewed = t.unreviewed
        /\ u.snapshot = t.snapshot /\ u.changed = t.changed /\ u.queue = t.queue
        /\ u.flight = t.flight /\ u.commit = t.commit
    BY DEF TrackedBuffers
  <2> HIDE DEF u
  <2>2. Sound(u, x) /\ Attributed(u, T)
    BY <1>1, <2>1
  <2> QED BY <2>2 DEF u
<1>3. LET u == [t EXCEPT !.status = st] IN Sound(u, x) /\ Attributed(u, T)
  <2> DEFINE u == [t EXCEPT !.status = st]
  <2>1. /\ u \in TrackedBuffers /\ u.status = st
        /\ u.existing = t.existing /\ u.base = t.base /\ u.unreviewed = t.unreviewed
        /\ u.snapshot = t.snapshot /\ u.changed = t.changed /\ u.queue = t.queue
        /\ u.flight = t.flight /\ u.commit = t.commit
    BY DEF TrackedBuffers
  <2> HIDE DEF u
  <2>2. Sound(u, x) /\ Attributed(u, T)
    BY <1>1, <2>1
  <2> QED BY <2>2 DEF u
<1>4. LET u == [t EXCEPT !.status = st, !.fresh = b] IN Sound(u, x) /\ Attributed(u, T)
  <2> DEFINE u == [t EXCEPT !.status = st, !.fresh = b]
  <2>1. /\ u \in TrackedBuffers /\ u.status = st
        /\ u.existing = t.existing /\ u.base = t.base /\ u.unreviewed = t.unreviewed
        /\ u.snapshot = t.snapshot /\ u.changed = t.changed /\ u.queue = t.queue
        /\ u.flight = t.flight /\ u.commit = t.commit
    BY DEF TrackedBuffers
  <2> HIDE DEF u
  <2>2. Sound(u, x) /\ Attributed(u, T)
    BY <1>1, <2>1
  <2> QED BY <2>2 DEF u
<1> QED BY <1>2, <1>3, <1>4

\* An edit is queued; where the agent changes the text, T2 has the regions.
LEMMA EditAttributed ==
  ASSUME NEW t, NEW x, Sound(t, x), NEW T \in SUBSET Regions, Attributed(t, T),
         NEW T2 \in SUBSET Regions, T \subseteq T2, NEW s \in Texts, NEW a \in {"agent", "user"},
         a = "agent" => \A r \in Regions \ T2 : At(s, r) = At(x, r),
         T2 = Regions \/ T2 = {} \/ (s = Empty => x = Empty)
  PROVE  Attributed(ScheduleDiffUpdate(t, a, s), T2)
<1>1. t \in TrackedBuffers /\ Latest(t) = x
  BY DEF Sound
<1>2. HunksDiffer(t, T2) /\ FlightKeeps(t)
  <2>1. T = Regions => T2 = Regions
    OBVIOUS
  <2> QED BY <2>1 DEF Attributed, HunksDiffer
<1>3. \A r \in Regions \ T2 :
        /\ LeftAlone(t, r, Len(t.queue))
        /\ Agrees(t, r, Len(t.queue)) \/ At(s, r) = At(Base(t), r)
        /\ a = "agent" => At(s, r) = At(Latest(t), r)
  BY <1>1 DEF Attributed, UntouchedFollow, Follows
<1>4. T2 # Regions =>
        /\ \A i \in 1..Len(t.queue) : Wholesale(t, i) => \A r \in Regions : Follows(t, r, i)
        /\ \/ T2 = {}
           \/ /\ s = Empty => Latest(t) = Empty
              /\ Latest(t) = Empty => \A r \in Regions : Follows(t, r, Len(t.queue))
  <2>1. T2 # Regions => T # Regions
    OBVIOUS
  <2> QED BY <1>1, <2>1 DEF Attributed, WholeFollows
<1> QED BY <1>1, <1>2, <1>3, <1>4, QueuedAttributed

\* buffer_read: a new record, or another version.
LEMMA BufferReadAttributed ==
  ASSUME IInv, AttributionInv, BufferRead
  PROVE  AttributionInv'
<1>1. CASE tracked = None
  <2>1. tracked' = Record(text) /\ touched' = {}
    BY <1>1 DEF BufferRead, Track
  <2> QED BY <2>1, RecordAttributed, AttributedParts, AssembleAttributed
<1>2. CASE tracked # None
  <2>1. tracked' = [tracked EXCEPT !.fresh = TRUE] /\ touched' = touched
    BY <1>2 DEF BufferRead, Track
  <2>2. /\ Sound(tracked, text) /\ tracked \in TrackedBuffers /\ Attributed(tracked, touched)
        /\ tracked.status \in {"modified", "created", "deleted"}
    BY <1>2, AttributedParts
  <2>3. Attributed([tracked EXCEPT !.fresh = TRUE], touched)
    BY <2>2, FreshAttributed
  <2> QED BY <2>1, <2>3, AttributedParts, AssembleAttributed
<1> QED BY <1>1, <1>2

\* buffer_created: the whole file is the agent's.
LEMMA BufferCreatedAttributed ==
  ASSUME IInv, AttributionInv, BufferCreated
  PROVE  AttributionInv'
<1> DEFINE u == Track(TRUE, text)
<1>1. tracked' = u /\ touched' = Regions
  BY DEF BufferCreated
<1>2. /\ u.status = "created" /\ u.unreviewed = {Regions} /\ u.queue = <<>> /\ u.flight = None
      /\ Len(u.queue) = 0
  BY DEF Track, Record
<1> HIDE DEF u
<1>3. Attributed(u, Regions)
  BY <1>2 DEF Attributed, UntouchedFollow, WholeFollows, HunksDiffer, FlightKeeps
<1> QED BY <1>1, <1>3, AssembleAttributed

\* The record buffer_edited leaves: a new one starts with the agent's text, otherwise
\* T has the regions in which the text changes.
LEMMA BufferEditedAttributed ==
  ASSUME IInv, AttributionInv, NEW s \in Texts, NEW T \in SUBSET Regions,
         tracked = None => T = {},
         tracked # None => /\ touched \subseteq T /\ (s = Empty => text = Empty)
                           /\ \A r \in Regions \ T : At(s, r) = At(text, r)
  PROVE  Attributed(BufferEdited(s), T)
<1> DEFINE t == Track(FALSE, s)
           u == [t EXCEPT !.status = IF @ = "deleted" THEN "modified" ELSE @]
           x == IF tracked = None THEN s ELSE text
           T0 == IF tracked = None THEN T ELSE touched
<1>1. BufferEdited(s) = ScheduleDiffUpdate(u, "agent", s)
  BY DEF BufferEdited
<1>2. t \in TrackedBuffers /\ Sound(t, x) /\ Attributed(t, T0)
  <2>1. CASE tracked = None
    <3>1. Sound(Record(s), s) /\ Attributed(Record(s), T)
      BY RecordSound, RecordAttributed
    <3> QED BY <2>1, <3>1 DEF Track, Sound
  <2>2. CASE tracked # None
    <3>1. /\ Sound(tracked, text) /\ tracked \in TrackedBuffers /\ Attributed(tracked, touched)
          /\ tracked.status \in {"modified", "created", "deleted"}
      BY <2>2, AttributedParts
    <3>2. LET v == [tracked EXCEPT !.fresh = TRUE] IN Sound(v, text) /\ Attributed(v, touched)
      BY <3>1, FreshAttributed
    <3>3. t = [tracked EXCEPT !.fresh = TRUE]
      BY <2>2 DEF Track
    <3> QED BY <2>2, <3>2, <3>3 DEF Sound
  <2> QED BY <2>1, <2>2
<1>3. /\ T0 \in SUBSET Regions /\ T0 \subseteq T
      /\ \A r \in Regions \ T : At(s, r) = At(x, r)
      /\ T = Regions \/ T = {} \/ (s = Empty => x = Empty)
  BY AttributedParts
<1> HIDE DEF t, x, T0
<1> DEFINE st == IF t.status = "deleted" THEN "modified" ELSE t.status
<1>4. st \in {"modified", "created", "deleted"} /\ (st = "created" <=> t.status = "created")
  BY <1>2 DEF TrackedBuffers
<1>5. u = [t EXCEPT !.status = st]
  OBVIOUS
<1> HIDE DEF st
<1>6. Sound(u, x) /\ Attributed(u, T0)
  BY <1>2, <1>4, <1>5, FreshAttributed
<1> HIDE DEF u
<1>7. Attributed(ScheduleDiffUpdate(u, "agent", s), T)
  BY <1>3, <1>6, EditAttributed
<1> QED BY <1>1, <1>7

\* An edit never empties a file.
LEMMA EditedFull ==
  ASSUME NEW x \in Texts, NEW s \in Edited(x)
  PROVE  s # Empty
BY Distinct DEF Edited, Texts

\* An agent's edit, announced with buffer_edited.
LEMMA AgentEditAttributed ==
  ASSUME IInv, AttributionInv, AgentEdit
  PROVE  AttributionInv'
<1>1. PICK s \in Edited(text) :
        /\ tracked' = BufferEdited(s)
        /\ touched' = IF tracked = None THEN {} ELSE touched \cup UNION Hunks(text, s)
  BY DEF AgentEdit
<1>2. s \in Texts /\ s # Empty /\ text \in Texts /\ touched \in SUBSET Regions
  BY EditedTyped, EditedFull, AttributedParts
<1>3. /\ UNION Hunks(text, s) \in SUBSET Regions
      /\ \A r \in Regions : r \notin UNION Hunks(text, s) => At(s, r) = At(text, r)
  BY <1>2, HunksOf
<1>4. /\ touched' \in SUBSET Regions
      /\ tracked = None => touched' = {}
      /\ tracked # None => /\ touched \subseteq touched' /\ (s = Empty => text = Empty)
                           /\ \A r \in Regions \ touched' : At(s, r) = At(text, r)
  BY <1>1, <1>2, <1>3
<1>5. Attributed(BufferEdited(s), touched')
  BY <1>2, <1>4, BufferEditedAttributed
<1> QED BY <1>1, <1>4, <1>5, AssembleAttributed

\* A tool announces what it had formatted: the text stays.
LEMMA SaveAnnouncedAttributed ==
  ASSUME IInv, AttributionInv, SaveAnnounced
  PROVE  AttributionInv'
<1>1. tracked' = BufferEdited(text) /\ touched' = IF tracked = None THEN {} ELSE touched
  BY DEF SaveAnnounced
<1>2. text \in Texts /\ touched' \in SUBSET Regions
  BY <1>1, AttributedParts
<1>3. Attributed(BufferEdited(text), touched')
  BY <1>1, <1>2, BufferEditedAttributed
<1> QED BY <1>1, <1>2, <1>3, AssembleAttributed

\* An edit of the user's, or of a formatter.
LEMMA UserEditAttributed ==
  ASSUME IInv, AttributionInv, UserEdit \/ Format
  PROVE  AttributionInv'
<1>1. touched' = touched
  BY DEF UserEdit, Format
<1>2. PICK s \in Edited(text) : UserEdited(s)
  BY DEF UserEdit, Format
<1>3. s \in Texts /\ s # Empty /\ text \in Texts /\ touched \in SUBSET Regions
  BY EditedTyped, EditedFull, AttributedParts
<1>4. CASE tracked = None
  <2>1. tracked' = None
    BY <1>2, <1>4 DEF UserEdited
  <2> QED BY <1>1, <1>3, <2>1, AssembleAttributed
<1>5. CASE tracked # None
  <2> DEFINE t == [tracked EXCEPT !.fresh = FALSE]
  <2>1. tracked' = ScheduleDiffUpdate(t, "user", s)
    BY <1>2, <1>5 DEF UserEdited
  <2>2. /\ Sound(tracked, text) /\ tracked \in TrackedBuffers /\ Attributed(tracked, touched)
        /\ tracked.status \in {"modified", "created", "deleted"}
    BY <1>5, AttributedParts
  <2>3. Sound(t, text) /\ Attributed(t, touched)
    BY <2>2, FreshAttributed
  <2> HIDE DEF t
  <2>4. Attributed(ScheduleDiffUpdate(t, "user", s), touched)
    BY <1>3, <2>3, EditAttributed
  <2> QED BY <1>1, <1>3, <2>1, <2>4, AssembleAttributed
<1> QED BY <1>4, <1>5

\* will_delete_buffer: the whole file is the agent's.
LEMMA WillDeleteBufferAttributed ==
  ASSUME IInv, AttributionInv, WillDeleteBuffer
  PROVE  AttributionInv'
<1> DEFINE t == Track(FALSE, text)
<1>1. t \in TrackedBuffers /\ Sound(t, text) /\ Attributed(t, touched)
  <2>1. CASE tracked = None
    <3>1. Sound(Record(text), text) /\ Attributed(Record(text), touched)
      BY RecordSound, RecordAttributed, AttributedParts
    <3> QED BY <2>1, <3>1 DEF Track, Sound
  <2>2. CASE tracked # None
    <3>1. /\ Sound(tracked, text) /\ tracked \in TrackedBuffers /\ Attributed(tracked, touched)
          /\ tracked.status \in {"modified", "created", "deleted"}
      BY <2>2, AttributedParts
    <3>2. LET v == [tracked EXCEPT !.fresh = TRUE] IN Sound(v, text) /\ Attributed(v, touched)
      BY <3>1, FreshAttributed
    <3>3. t = [tracked EXCEPT !.fresh = TRUE]
      BY <2>2 DEF Track
    <3> QED BY <3>2, <3>3 DEF Sound
  <2> QED BY <2>1, <2>2
<1>2. CASE t.status = "created"
  <2>1. tracked' = None /\ touched' = touched
    BY <1>2 DEF WillDeleteBuffer
  <2> QED BY <2>1, AttributedParts, AssembleAttributed
<1>3. CASE t.status = "modified"
  <2> DEFINE u == [t EXCEPT !.status = "deleted"]
             v == ScheduleDiffUpdate(u, "agent", Empty)
             w == [v EXCEPT !.fresh = FALSE]
  <2>1. /\ touched' = Regions
        /\ tracked' = IF text = Empty THEN v ELSE ScheduleDiffUpdate(w, "user", Empty)
    BY <1>3 DEF WillDeleteBuffer
  <2> HIDE DEF t
  <2>2. Sound(u, text) /\ Attributed(u, touched)
    BY <1>1, <1>3, FreshAttributed
  <2>3. Empty \in Texts /\ touched \in SUBSET Regions
    BY AttributedParts DEF Texts
  <2> HIDE DEF u
  <2>4. Attributed(v, Regions)
    BY <2>2, <2>3, EditAttributed
  <2>5. Sound(v, Empty)
    BY <2>2, <2>3, ScheduleSound
  <2> HIDE DEF v
  <2>6. v \in TrackedBuffers /\ v.status \in {"modified", "created", "deleted"}
    BY <2>5 DEF Sound, TrackedBuffers
  <2>7. Sound(w, Empty) /\ Attributed(w, Regions)
    BY <2>4, <2>5, <2>6, FreshAttributed
  <2> HIDE DEF w
  <2>8. Attributed(ScheduleDiffUpdate(w, "user", Empty), Regions)
    BY <2>3, <2>7, EditAttributed
  <2> QED BY <2>1, <2>4, <2>8, AssembleAttributed
<1>4. CASE t.status \notin {"created", "modified"}
  <2>1. tracked' = t /\ touched' = touched
    BY <1>4 DEF WillDeleteBuffer
  <2> QED BY <1>1, <2>1, AttributedParts, AssembleAttributed
<1> QED BY <1>2, <1>3, <1>4

\* The file is deleted, or comes back.
LEMMA FileAttributed ==
  ASSUME IInv, AttributionInv, FileDeleted \/ FileAppeared
  PROVE  AttributionInv'
<1>1. CASE FileDeleted
  <2>1. touched' = touched /\ (tracked' # None => tracked' = tracked)
    BY <1>1 DEF FileDeleted
  <2> QED BY <2>1, AttributedParts, AssembleAttributed
<1>2. CASE FileAppeared /\ tracked # None /\ tracked.status = "deleted"
  <2>1. tracked' = Record(text) /\ touched' = {}
    BY <1>2 DEF FileAppeared
  <2> QED BY <2>1, RecordAttributed, AttributedParts, AssembleAttributed
<1>3. CASE FileAppeared /\ ~(tracked # None /\ tracked.status = "deleted")
  <2>1. tracked' = tracked /\ touched' = touched
    BY <1>3 DEF FileAppeared
  <2> QED BY <2>1, AttributedParts, AssembleAttributed
<1> QED BY <1>1, <1>2, <1>3

\* track_edits takes an update from the queue.
LEMMA TrackEditsAttributed ==
  ASSUME IInv, AttributionInv, TrackEdits
  PROVE  AttributionInv'
<1> DEFINE e == Head(tracked.queue)
           b == IF e.author = "user"
                THEN ApplyNonConflictingEdits(tracked.unreviewed, tracked.snapshot, e.text, tracked.base)
                ELSE tracked.base
           u == [tracked EXCEPT !.queue = Tail(tracked.queue),
                                !.flight = [base |-> b, snapshot |-> Head(tracked.queue).text,
                                            shown |-> FALSE]]
<1>1. tracked # None /\ tracked.flight = None /\ tracked.queue # <<>> /\ touched' = touched
  BY DEF TrackEdits
<1>2. tracked' = u
  BY DEF TrackEdits
<1>3. /\ Sound(tracked, text) /\ tracked \in TrackedBuffers /\ Attributed(tracked, touched)
      /\ touched \in SUBSET Regions
  BY <1>1, AttributedParts
<1>4. tracked.queue \in Seq(Entries) /\ tracked.base \in Texts
  BY <1>3 DEF TrackedBuffers, Entries
<1>5. e = tracked.queue[1] /\ e \in Entries
  BY <1>1, <1>4
<1> HIDE DEF e
<1>6. e.text \in Texts
  BY <1>5 DEF Entries
<1>7. /\ b \in Texts
      /\ e.author # "user" => b = tracked.base
      /\ e.author = "user" =>
           /\ \A r \in Regions :
                \/ At(b, r) = At(tracked.base, r)
                \/ At(b, r) = At(e.text, r) /\ At(e.text, r) # At(tracked.snapshot, r)
           /\ \A r \in Regions : At(e.text, r) # At(tracked.snapshot, r) =>
                \/ At(b, r) = At(e.text, r)
                \/ \E h \in Hunks(tracked.snapshot, e.text) :
                     r \in h /\ h \cap UNION tracked.unreviewed # {}
  <2>1. CASE e.author = "user"
    BY <1>1, <1>3, <1>6, <2>1, Rebase
  <2>2. CASE e.author # "user"
    BY <1>4, <2>2
  <2> QED BY <2>1, <2>2
<1> HIDE DEF b
<1>8. Attributed(u, touched)
  BY <1>1, <1>3, <1>5, <1>7, TakenAttributed
<1> HIDE DEF u
<1> QED BY <1>1, <1>2, <1>3, <1>8, AssembleAttributed

\* An update is in flight that changes no text: the base takes some hunks from it.
LEMMA KeepCommittedEditsAttributed ==
  ASSUME IInv, AttributionInv, KeepCommittedEdits
  PROVE  AttributionInv'
<1>1. /\ tracked # None /\ tracked.flight = None /\ tracked.queue = <<>> /\ touched' = touched
  BY DEF KeepCommittedEdits
<1>2. /\ Sound(tracked, text) /\ tracked \in TrackedBuffers /\ Attributed(tracked, touched)
      /\ touched \in SUBSET Regions
  BY <1>1, AttributedParts
<1>3. /\ tracked.base \in Texts /\ tracked.snapshot \in Texts
      /\ tracked.unreviewed \in SUBSET SUBSET Regions
      /\ Fits(tracked.unreviewed, tracked.base, tracked.snapshot)
  BY <1>2 DEF TrackedBuffers, Sound
<1>4. PICK K \in SUBSET tracked.unreviewed :
        tracked' = [tracked EXCEPT
                      !.commit = None,
                      !.flight = [base |-> Take(UNION K, tracked.snapshot, tracked.base),
                                  snapshot |-> tracked.snapshot, shown |-> FALSE]]
  <2>1. PICK m \in BOOLEAN :
          LET kept == {h \in tracked.unreviewed :
                         /\ \A r \in h : At(tracked.commit, r) = At(tracked.snapshot, r)
                         /\ h = Regions => m}
          IN tracked' = [tracked EXCEPT
                           !.commit = None,
                           !.flight = [base |-> Take(UNION kept, tracked.snapshot, tracked.base),
                                       snapshot |-> tracked.snapshot, shown |-> FALSE]]
    BY DEF KeepCommittedEdits
  <2> DEFINE kept == {h \in tracked.unreviewed :
                        /\ \A r \in h : At(tracked.commit, r) = At(tracked.snapshot, r)
                        /\ h = Regions => m}
  <2>2. kept \in SUBSET tracked.unreviewed
    OBVIOUS
  <2> QED BY <2>1, <2>2
<1> DEFINE g == UNION K
           b == Take(g, tracked.snapshot, tracked.base)
           f == [base |-> b, snapshot |-> tracked.snapshot, shown |-> FALSE]
           u == [tracked EXCEPT !.commit = None, !.flight = f]
<1>5. tracked' = u
  BY <1>4
<1>6. Covers(K, g, tracked.unreviewed)
  BY <1>3 DEF Covers
<1> HIDE DEF g
<1>7. /\ g \in SUBSET Regions
      /\ g = {} \/ g = Regions \/ (tracked.base # Empty /\ tracked.snapshot # Empty)
  BY <1>3, <1>6, FitsPart
<1>8. /\ b \in Texts
      /\ \A r \in g : At(b, r) = At(tracked.snapshot, r)
      /\ \A r \in Regions \ g : At(b, r) = At(tracked.base, r)
  BY <1>3, <1>7, TakeAt
<1> HIDE DEF b
<1>9. f \in Flights /\ f.base = b /\ f.snapshot = tracked.snapshot
  BY <1>3, <1>8 DEF Flights
<1>10. f # None
  BY <1>9, Distinct
<1> HIDE DEF f
<1>11. /\ u.flight = f /\ u.queue = tracked.queue /\ u.base = tracked.base
       /\ u.unreviewed = tracked.unreviewed /\ u.snapshot = tracked.snapshot
  BY <1>2 DEF TrackedBuffers
<1> HIDE DEF u
<1>12. /\ Before(u, 1) = tracked.snapshot /\ Before(tracked, 1) = tracked.snapshot
       /\ Base(u) = b /\ Base(tracked) = tracked.base
  BY <1>1, <1>9, <1>10, <1>11 DEF Before, Base
<1>13. UntouchedFollow(u, touched) /\ WholeFollows(u, touched)
  <2>1. \A r \in Regions : At(Base(u), r) \in {At(Base(tracked), r), At(Before(tracked, 1), r)}
    BY <1>8, <1>12
  <2> QED BY <1>2, <1>11, <1>12, <2>1, Nearer DEF Attributed
<1>14. HunksDiffer(u, touched)
  BY <1>10, <1>11 DEF HunksDiffer
<1>15. FlightKeeps(u)
  <2>1. \A r \in UNION tracked.unreviewed : At(b, r) \in {At(tracked.base, r), At(tracked.snapshot, r)}
    BY <1>3, <1>8
  <2> QED BY <1>9, <1>11, <2>1 DEF FlightKeeps
<1>16. Attributed(u, touched)
  BY <1>13, <1>14, <1>15 DEF Attributed
<1> QED BY <1>1, <1>2, <1>5, <1>16, AssembleAttributed

\* update_diff, first part: no field changes that the attribution speaks of.
LEMMA SetDiffAttributed ==
  ASSUME IInv, AttributionInv, SetDiff
  PROVE  AttributionInv'
<1> DEFINE c == Hunks(tracked.flight.base, tracked.flight.snapshot) # {}
           f == [tracked.flight EXCEPT !.shown = TRUE]
           u == [tracked EXCEPT !.changed = c, !.flight.shown = TRUE]
<1>1. tracked # None /\ tracked.flight # None /\ touched' = touched /\ tracked' = u
  BY DEF SetDiff
<1>2. tracked \in TrackedBuffers /\ Attributed(tracked, touched) /\ touched \in SUBSET Regions
  BY <1>1, AttributedParts
<1>3. f.base = tracked.flight.base /\ f.snapshot = tracked.flight.snapshot /\ f # None
  <2>1. tracked.flight \in Flights
    BY <1>1, <1>2 DEF TrackedBuffers
  <2>2. f \in Flights /\ f.base = tracked.flight.base /\ f.snapshot = tracked.flight.snapshot
    BY <2>1 DEF Flights
  <2> QED BY <2>2, Distinct
<1>4. u = [tracked EXCEPT !.changed = c, !.flight = f]
  BY <1>2 DEF TrackedBuffers
<1> HIDE DEF u, f, c
<1>5. /\ u.flight = f /\ u.queue = tracked.queue /\ u.base = tracked.base
      /\ u.unreviewed = tracked.unreviewed /\ u.snapshot = tracked.snapshot
  BY <1>2, <1>4 DEF TrackedBuffers
<1>6. Before(u, 1) = Before(tracked, 1) /\ Base(u) = Base(tracked)
  BY <1>1, <1>3, <1>5 DEF Before, Base
<1>7. UntouchedFollow(u, touched) /\ WholeFollows(u, touched)
  BY <1>2, <1>5, <1>6, Nearer DEF Attributed
<1>8. HunksDiffer(u, touched) /\ FlightKeeps(u)
  BY <1>1, <1>2, <1>3, <1>5 DEF Attributed, HunksDiffer, FlightKeeps
<1>9. Attributed(u, touched)
  BY <1>7, <1>8 DEF Attributed
<1> QED BY <1>1, <1>2, <1>9, AssembleAttributed

\* update_diff, second part: the hunks are where the new base and snapshot differ.
LEMMA UpdateDiffAttributed ==
  ASSUME IInv, AttributionInv, UpdateDiff
  PROVE  AttributionInv'
<1> DEFINE b == tracked.flight.base
           s == tracked.flight.snapshot
           H == Hunks(b, s)
           u == [tracked EXCEPT !.base = b, !.snapshot = s, !.unreviewed = H, !.flight = None]
<1>1. tracked # None /\ tracked.flight # None /\ touched' = touched /\ tracked' = u
  BY DEF UpdateDiff
<1>2. tracked \in TrackedBuffers /\ Attributed(tracked, touched) /\ touched \in SUBSET Regions
  BY <1>1, AttributedParts
<1>3. b \in Texts /\ s \in Texts
  <2>1. tracked.flight \in Flights
    BY <1>1, <1>2 DEF TrackedBuffers
  <2> QED BY <2>1 DEF Flights
<1>4. \A h \in H : \A r \in h : At(b, r) # At(s, r)
  BY <1>3, HunksOf
<1>5. Before(tracked, 1) = s /\ Base(tracked) = b
  BY <1>1 DEF Before, Base
<1> HIDE DEF b, s, H
<1>6. /\ u.flight = None /\ u.queue = tracked.queue /\ u.base = b /\ u.snapshot = s
      /\ u.unreviewed = H
  BY <1>2 DEF TrackedBuffers
<1> HIDE DEF u
<1>7. Before(u, 1) = s /\ Base(u) = b
  BY <1>6 DEF Before, Base
<1>8. UntouchedFollow(u, touched) /\ WholeFollows(u, touched)
  BY <1>2, <1>5, <1>6, <1>7, Nearer DEF Attributed
<1>9. HunksDiffer(u, touched) /\ FlightKeeps(u)
  BY <1>4, <1>6 DEF HunksDiffer, FlightKeeps
<1>10. Attributed(u, touched)
  BY <1>8, <1>9 DEF Attributed
<1> QED BY <1>1, <1>2, <1>10, AssembleAttributed

\* A commit.
LEMMA CommitAttributed ==
  ASSUME IInv, AttributionInv, Commit
  PROVE  AttributionInv'
<1> DEFINE u == [tracked EXCEPT !.commit = text]
<1>1. tracked # None /\ touched' = touched /\ tracked' = u
  BY DEF Commit
<1>2. tracked \in TrackedBuffers /\ Attributed(tracked, touched) /\ touched \in SUBSET Regions
  BY <1>1, AttributedParts
<1>3. /\ u.flight = tracked.flight /\ u.queue = tracked.queue /\ u.base = tracked.base
      /\ u.unreviewed = tracked.unreviewed /\ u.snapshot = tracked.snapshot
      /\ u.status = tracked.status
  BY <1>2 DEF TrackedBuffers
<1> HIDE DEF u
<1>4. Attributed(u, touched)
  BY <1>2, <1>3, AlikeAttributed
<1> QED BY <1>1, <1>2, <1>4, AssembleAttributed

\* The hunks of one diff have no region in common.
LEMMA HunksApart ==
  ASSUME NEW G, NEW s, NEW x, Fits(G, s, x), NEW H \in SUBSET G, NEW g \in G \ H
  PROVE  g \cap UNION H = {}
<1>1. CASE G \subseteq {Regions}
  <2>1. H = {}
    BY <1>1
  <2> QED BY <2>1
<1>2. CASE G \subseteq Singles
  <2> SUFFICES ASSUME NEW r \in g, NEW h \in H, r \in h
               PROVE  FALSE
    OBVIOUS
  <2>1. g = {r} /\ h = {r}
    BY <1>2 DEF Singles
  <2> QED BY <2>1
<1> QED BY <1>1, <1>2 DEF Fits

\* What a keep of the hunks H takes off the touched regions.
LEMMA KeptTouched ==
  ASSUME NEW H, KeepHistory(H), touched \in SUBSET Regions
  PROVE  /\ touched' \subseteq touched
         /\ tracked.flight # None => touched' = touched
         /\ \A r \in touched \ touched' :
              r \notin AgentPending(tracked) /\ (r \in UNION H \/ r \notin UNION tracked.unreviewed)
<1> DEFINE G == IF H = tracked.unreviewed THEN H \cup {{r} : r \in Regions \ UNION H} ELSE H
<1>1. touched' = IF tracked.flight # None THEN touched ELSE touched \ Cleared(G)
  BY DEF KeepHistory
<1>2. ASSUME NEW r \in Cleared(G)
      PROVE  r \notin AgentPending(tracked) /\ (r \in UNION H \/ r \notin UNION tracked.unreviewed)
  <2>1. PICK g \in G : r \in g /\ g \cap AgentPending(tracked) = {}
    BY DEF Cleared
  <2>2. g \in H \/ (H = tracked.unreviewed /\ \E q \in Regions \ UNION H : g = {q})
    BY <2>1
  <2> HIDE DEF G
  <2>3. r \in UNION H \/ r \notin UNION tracked.unreviewed
    BY <2>1, <2>2
  <2> QED BY <2>1, <2>3
<1> HIDE DEF G
<1> QED BY <1>1, <1>2

\* keep_edits_in_range.
LEMMA KeepEditsInRangeAttributed ==
  ASSUME IInv, AttributionInv, KeepEditsInRange
  PROVE  AttributionInv'
<1>1. tracked # None
  BY DEF KeepEditsInRange
<1>2. PICK H \in SUBSET tracked.unreviewed :
        IF tracked.status = "deleted"
        THEN tracked' = None /\ UNCHANGED <<touched, accepted, raced>>
        ELSE /\ tracked' = Kept(tracked, UNION H, tracked.unreviewed \ H)
             /\ KeepHistory(H)
  BY DEF KeepEditsInRange
<1>3. CASE tracked.status = "deleted"
  BY <1>2, <1>3, AttributedParts, AssembleAttributed
<1>4. CASE tracked.status # "deleted"
  <2> DEFINE h == UNION H
             rest == tracked.unreviewed \ H
  <2>1. tracked' = Kept(tracked, h, rest) /\ KeepHistory(H)
    BY <1>2, <1>4
  <2>2. /\ Sound(tracked, text) /\ tracked \in TrackedBuffers /\ Attributed(tracked, touched)
        /\ text \in Texts /\ touched \in SUBSET Regions
    BY <1>1, AttributedParts
  <2>3. /\ tracked.unreviewed \in SUBSET SUBSET Regions
        /\ Fits(tracked.unreviewed, tracked.base, tracked.snapshot)
    BY <2>2 DEF TrackedBuffers, Sound
  <2>4. /\ touched' \subseteq touched
        /\ tracked.flight # None => touched' = touched
        /\ \A r \in touched \ touched' :
             r \notin AgentPending(tracked) /\ (r \in h \/ r \notin UNION tracked.unreviewed)
    BY <2>1, <2>2, KeptTouched
  <2>5. \A g \in rest : g \cap h = {}
    BY <2>3, HunksApart
  <2>6. /\ rest \subseteq tracked.unreviewed
        /\ \A r \in UNION tracked.unreviewed : r \in h \/ r \in UNION rest
        /\ Covers(H, h, tracked.unreviewed)
    BY <2>3 DEF Covers
  <2> HIDE DEF h, rest
  <2>7. /\ h \in SUBSET Regions
        /\ h = {} \/ h = Regions \/ (tracked.base # Empty /\ tracked.snapshot # Empty)
    BY <2>3, <2>6, FitsPart
  <2>8. Keeps(tracked, h, rest, touched, touched')
    BY <2>4, <2>5, <2>6, <2>7 DEF Keeps
  <2>9. Attributed(Kept(tracked, h, rest), touched')
    BY <2>2, <2>7, <2>8, KeptAttributed
  <2> QED BY <2>1, <2>2, <2>4, <2>9, AssembleAttributed
<1> QED BY <1>3, <1>4

\* keep_all_edits.
LEMMA KeepAllEditsAttributed ==
  ASSUME IInv, AttributionInv, KeepAllEdits
  PROVE  AttributionInv'
<1>1. tracked # None
  BY DEF KeepAllEdits
<1>2. CASE tracked.status = "deleted"
  <2>1. tracked' = None /\ touched' = touched
    BY <1>2 DEF KeepAllEdits
  <2> QED BY <2>1, AttributedParts, AssembleAttributed
<1>3. CASE tracked.status # "deleted"
  <2>1. tracked' = Kept(tracked, Regions, {}) /\ KeepHistory(tracked.unreviewed)
    BY <1>3 DEF KeepAllEdits
  <2>2. /\ Sound(tracked, text) /\ tracked \in TrackedBuffers /\ Attributed(tracked, touched)
        /\ text \in Texts /\ touched \in SUBSET Regions
    BY <1>1, AttributedParts
  <2>3. tracked.unreviewed \in SUBSET SUBSET Regions
    BY <2>2 DEF TrackedBuffers
  <2>4. /\ touched' \subseteq touched
        /\ tracked.flight # None => touched' = touched
        /\ \A r \in touched \ touched' :
             /\ r \notin AgentPending(tracked)
             /\ r \in UNION tracked.unreviewed \/ r \notin UNION tracked.unreviewed
    BY <2>1, <2>2, KeptTouched
  <2>5. Keeps(tracked, Regions, {}, touched, touched')
    BY <2>2, <2>3, <2>4 DEF Keeps
  <2>6. Attributed(Kept(tracked, Regions, {}), touched')
    BY <2>2, <2>5, KeptAttributed
  <2> QED BY <2>1, <2>2, <2>4, <2>6, AssembleAttributed
<1> QED BY <1>2, <1>3

\* The last text restores the base, or there is nothing queued and they agree.
LEMMA LatestAgrees ==
  ASSUME NEW t \in TrackedBuffers, NEW r, At(Latest(t), r) = At(Base(t), r)
  PROVE  Agrees(t, r, Len(t.queue))
<1> DEFINE n == Len(t.queue)
<1>1. n \in Nat
  <2>1. t.queue \in Seq(Entries)
    BY DEF TrackedBuffers, Entries
  <2> QED BY <2>1
<1>2. CASE n = 0
  BY <1>2 DEF Latest, Agrees
<1>3. CASE n # 0
  <2>1. n \in 1..n /\ n + 1 > 1 /\ (n + 1) - 1 = n
    BY <1>1, <1>3
  <2>2. Latest(t) = t.queue[n].text
    BY <2>1 DEF Latest, Before
  <2> QED BY <2>1, <2>2 DEF Agrees
<1> QED BY <1>2, <1>3

\* A hunk without pending changes: each of its regions agrees with the text, or the
\* base that the next update meets is the one a reject writes back.
LEMMA ClearedHunk ==
  ASSUME NEW t \in TrackedBuffers, NEW T, Attributed(t, T), NEW g \in t.unreviewed, NEW r \in g,
         g \cap AgentPending(t) = {}
  PROVE  /\ LeftAlone(t, r, Len(t.queue))
         /\ Agrees(t, r, Len(t.queue)) \/ At(Base(t), r) = At(t.base, r)
         /\ \A i \in 1..Len(t.queue) : ~Wholesale(t, i)
<1>1. r \in Regions /\ r \notin AgentPending(t)
  BY DEF TrackedBuffers
<1>2. /\ \A i \in 1..Len(t.queue) : ~Wholesale(t, i)
      /\ LeftAlone(t, r, Len(t.queue))
      /\ At(t.snapshot, r) = At(Before(t, 1), r)
  BY <1>1, NotPending
<1>3. CASE t.flight = None
  BY <1>2, <1>3 DEF Base
<1>4. CASE t.flight # None
  <2>1. Base(t) = t.flight.base /\ Before(t, 1) = t.flight.snapshot
    BY <1>4 DEF Base, Before
  <2>2. r \in UNION t.unreviewed
    OBVIOUS
  <2>3. At(t.flight.base, r) \in {At(t.base, r), At(t.snapshot, r)}
    BY <1>2, <1>4, <2>1, <2>2 DEF Attributed, FlightKeeps
  <2>4. Agrees(t, r, Len(t.queue)) \/ At(Base(t), r) = At(t.base, r)
    BY <1>2, <2>1, <2>3 DEF Agrees
  <2> QED BY <1>2, <2>4
<1> QED BY <1>3, <1>4

\* A reject of the hunks H when the buffer holds x leaves T2 of the regions T touched
Rejects(t, x, H, T, T2) ==
  /\ H \subseteq t.unreviewed
  /\ x = Empty => H \subseteq {Regions}
  /\ T2 \subseteq Regions
  /\ \A r \in T \ T2 : \E g \in H : r \in g /\ g \cap AgentPending(t) = {}
  /\ Regions \in H => T2 = {} \/ T2 = Regions

\* A reject in a modified file keeps the attribution, whether or not it changes the text.
LEMMA RejectedAttributed ==
  ASSUME NEW t, NEW x \in Texts, Sound(t, x), NEW T \in SUBSET Regions, Attributed(t, T),
         t.status = "modified", NEW H, NEW T2, Rejects(t, x, H, T, T2)
  PROVE  LET s == Take(UNION H, t.base, x)
         IN  Attributed(IF s = x THEN t ELSE ScheduleDiffUpdate(t, "user", s), T2)
<1> DEFINE h == UNION H
           s == Take(h, t.base, x)
           n == Len(t.queue)
<1>1. t \in TrackedBuffers /\ Latest(t) = x /\ Fits(t.unreviewed, t.base, t.snapshot)
  BY DEF Sound
<1>2. /\ t.base \in Texts /\ t.unreviewed \in SUBSET SUBSET Regions
      /\ Covers(H, h, t.unreviewed) /\ T2 \in SUBSET Regions
  BY <1>1 DEF TrackedBuffers, Covers, Rejects
<1>3. x = Empty => H = {} \/ H = {Regions}
  BY DEF Rejects
<1>4. H = {} => s = x
  BY DEF Take
<1>5. x = Empty => h = {} \/ h = Regions
  BY <1>3
<1>6. /\ h \in SUBSET Regions /\ Fits(H, t.base, t.snapshot)
      /\ h = {} \/ h = Regions \/ (t.base # Empty /\ t.snapshot # Empty)
  <2> HIDE DEF h
  <2> QED BY <1>1, <1>2, FitsPart
<1>7. /\ s \in Texts
      /\ \A r \in h : At(s, r) = At(t.base, r)
      /\ t.base # Empty /\ x # Empty => s # Empty
  <2>1. h = {} \/ h = Regions \/ (t.base # Empty /\ x # Empty)
    BY <1>5, <1>6
  <2> HIDE DEF h
  <2> QED BY <1>2, <1>6, <2>1, TakeAt
<1> HIDE DEF s
<1>8. ASSUME NEW r \in Regions \ T2
      PROVE  /\ LeftAlone(t, r, n)
             /\ Agrees(t, r, n) \/ At(s, r) = At(Base(t), r)
  <2>1. CASE r \notin T
    BY <2>1 DEF Attributed, UntouchedFollow, Follows
  <2>2. CASE r \in T
    <3>1. PICK g \in H : r \in g /\ g \cap AgentPending(t) = {}
      BY <2>2 DEF Rejects
    <3>2. g \in t.unreviewed /\ r \in h
      BY <3>1 DEF Rejects
    <3>3. LeftAlone(t, r, n) /\ (Agrees(t, r, n) \/ At(Base(t), r) = At(t.base, r))
      BY <1>1, <3>1, <3>2, ClearedHunk
    <3> QED BY <1>7, <3>2, <3>3
  <2> QED BY <2>1, <2>2
<1>9. ASSUME T2 # Regions, NEW i \in 1..n, Wholesale(t, i), NEW r \in Regions
      PROVE  Follows(t, r, i)
  <2>1. CASE T # Regions
    BY <1>9, <2>1 DEF Attributed, WholeFollows
  <2>2. CASE T = Regions
    <3>1. PICK o \in T \ T2 : TRUE
      BY <1>2, <1>9, <2>2
    <3>2. PICK g \in H : o \in g /\ g \cap AgentPending(t) = {}
      BY <3>1 DEF Rejects
    <3>3. g \in t.unreviewed
      BY DEF Rejects
    <3> QED BY <1>1, <1>9, <3>2, <3>3, ClearedHunk
  <2> QED BY <2>1, <2>2
<1>10. HunksDiffer(t, T2) /\ FlightKeeps(t)
  BY DEF Attributed, HunksDiffer
<1>11. CASE s = x
  <2>1. ASSUME NEW r \in Regions \ T2
        PROVE  Follows(t, r, n)
    BY <1>1, <1>8, <1>11, <2>1, LatestAgrees DEF Follows
  <2>2. UntouchedFollow(t, T2)
    BY <2>1 DEF UntouchedFollow
  <2>3. ASSUME T2 # Regions, x = Empty, NEW r \in Regions
        PROVE  Follows(t, r, n)
    <3>1. CASE T # Regions
      BY <1>1, <2>3, <3>1 DEF Attributed, WholeFollows
    <3>2. CASE T = Regions
      <4>1. PICK o \in T \ T2 : TRUE
        BY <1>2, <2>3, <3>2
      <4>2. H # {}
        BY <4>1 DEF Rejects
      <4>3. Regions \in H /\ T2 = {}
        BY <1>3, <2>3, <4>2 DEF Rejects
      <4> QED BY <2>1, <4>3
    <3> QED BY <3>1, <3>2
  <2>4. WholeFollows(t, T2)
    BY <1>1, <1>9, <2>3 DEF WholeFollows
  <2> QED BY <1>10, <1>11, <2>2, <2>4 DEF Attributed, s
<1>12. CASE s # x
  <2>1. T2 # Regions /\ T2 # {} => x # Empty /\ s # Empty
    <3>1. ASSUME T2 # Regions, T2 # {}
          PROVE  Regions \notin H /\ H # {}
      BY <1>4, <1>12, <3>1 DEF Rejects
    <3>2. ASSUME Regions \notin H, H # {}
          PROVE  x # Empty /\ t.base # Empty
      BY <1>3, <1>6, <3>2 DEF Fits
    <3> QED BY <1>7, <3>1, <3>2
  <2>2. Attributed(ScheduleDiffUpdate(t, "user", s), T2)
    <3>1. \A r \in Regions \ T2 :
            /\ LeftAlone(t, r, n)
            /\ Agrees(t, r, n) \/ At(s, r) = At(Base(t), r)
            /\ "user" = "agent" => At(s, r) = At(Latest(t), r)
      BY <1>8
    <3>2. T2 # Regions =>
            /\ \A i \in 1..n : Wholesale(t, i) => \A r \in Regions : Follows(t, r, i)
            /\ \/ T2 = {}
               \/ /\ s = Empty => Latest(t) = Empty
                  /\ Latest(t) = Empty => \A r \in Regions : Follows(t, r, n)
      BY <1>1, <1>9, <2>1
    <3> QED BY <1>1, <1>2, <1>7, <1>10, <3>1, <3>2, QueuedAttributed
  <2> QED BY <1>12, <2>2 DEF s
<1> QED BY <1>11, <1>12

\* reject_edits_in_ranges, whichever hunks.
LEMMA RejectAttributed ==
  ASSUME IInv, AttributionInv, tracked # None, NEW H \in SUBSET tracked.unreviewed, NEW old,
         Reject(H, old)
  PROVE  AttributionInv'
<1>1. /\ Sound(tracked, text) /\ tracked \in TrackedBuffers /\ Attributed(tracked, touched)
      /\ text \in Texts /\ touched \in SUBSET Regions
      /\ tracked.status \in {"modified", "created", "deleted"}
  BY AttributedParts
<1>2. CASE tracked.status = "created"
  <2>1. tracked' = None /\ touched' = touched
    BY <1>2 DEF Reject
  <2> QED BY <1>1, <2>1, AssembleAttributed
<1>3. CASE tracked.status = "deleted"
  <2>1. tracked' = Record(tracked.base) /\ touched' = {}
    BY <1>3 DEF Reject
  <2>2. tracked.base \in Texts
    BY <1>1 DEF TrackedBuffers
  <2> QED BY <2>1, <2>2, RecordAttributed, AssembleAttributed
<1>4. CASE tracked.status = "modified"
  <2> DEFINE s == Take(UNION H, tracked.base, text)
             t == [tracked EXCEPT !.fresh = FALSE]
             T2 == Rejected(H)
  <2>1. /\ text = Empty => H \subseteq {Regions}
        /\ tracked' = IF s = text THEN tracked ELSE ScheduleDiffUpdate(t, "user", s)
        /\ touched' = T2
    BY <1>4 DEF Reject
  <2>2. /\ T2 \subseteq Regions
        /\ \A r \in touched \ T2 : \E g \in H : r \in g /\ g \cap AgentPending(tracked) = {}
        /\ Regions \in H => T2 = {} \/ T2 = Regions
    BY <1>1 DEF Rejected, Cleared
  <2> HIDE DEF T2
  <2>3. Rejects(tracked, text, H, touched, T2)
    BY <2>1, <2>2 DEF Rejects
  <2>4. Sound(t, text) /\ Attributed(t, touched)
    BY <1>1, FreshAttributed
  <2>5. /\ t.base = tracked.base /\ t.unreviewed = tracked.unreviewed /\ t.status = tracked.status
        /\ t.flight = tracked.flight /\ t.snapshot = tracked.snapshot /\ t.queue = tracked.queue
    BY <1>1 DEF TrackedBuffers
  <2> HIDE DEF t
  <2>6. AgentPending(t) = AgentPending(tracked)
    BY <2>5 DEF AgentPending
  <2>7. Rejects(t, text, H, touched, T2)
    BY <2>3, <2>5, <2>6 DEF Rejects
  <2>8. CASE s = text
    <3>1. Attributed(tracked, T2)
      BY <1>1, <1>4, <2>3, <2>8, RejectedAttributed
    <3> QED BY <2>1, <2>2, <2>8, <3>1, AssembleAttributed
  <2>9. CASE s # text
    <3>1. Take(UNION H, t.base, text) = s
      BY <2>5
    <3>2. Attributed(ScheduleDiffUpdate(t, "user", s), T2)
      BY <1>1, <1>4, <2>4, <2>5, <2>7, <2>9, <3>1, RejectedAttributed
    <3> QED BY <2>1, <2>2, <2>9, <3>2, AssembleAttributed
  <2> QED BY <2>8, <2>9
<1> QED BY <1>1, <1>2, <1>3, <1>4

\* A reject in a review, and of everything.
LEMMA RejectsAttributed ==
  ASSUME IInv, AttributionInv, RejectEditsInRanges \/ RejectAllEdits
  PROVE  AttributionInv'
<1>1. CASE RejectEditsInRanges
  <2>1. tracked # None
    BY <1>1 DEF RejectEditsInRanges
  <2>2. PICK H \in SUBSET tracked.unreviewed : Reject(H, undo)
    BY <1>1 DEF RejectEditsInRanges
  <2> QED BY <2>1, <2>2, RejectAttributed
<1>2. CASE RejectAllEdits /\ tracked # None /\ tracked.changed
  <2>1. Reject(tracked.unreviewed, None)
    BY <1>2 DEF RejectAllEdits
  <2>2. tracked.unreviewed \in SUBSET tracked.unreviewed
    OBVIOUS
  <2> QED BY <1>2, <2>1, <2>2, RejectAttributed
<1>3. CASE RejectAllEdits /\ ~(tracked # None /\ tracked.changed)
  <2>1. tracked' = tracked /\ touched' = touched
    BY <1>3 DEF RejectAllEdits
  <2> QED BY <2>1, AttributedParts, AssembleAttributed
<1> QED BY <1>1, <1>2, <1>3

\* undo_last_reject brings the agent's changes back.
LEMMA UndoLastRejectAttributed ==
  ASSUME IInv, AttributionInv, UndoLastReject
  PROVE  AttributionInv'
<1> DEFINE h == UNION undo.hunks
           s == Take(h, undo.text, text)
           t == [tracked EXCEPT !.fresh = FALSE]
<1>1. /\ undo # None /\ (text = Empty => undo.hunks = {Regions})
      /\ touched' = IF tracked = None THEN {} ELSE touched \cup h
      /\ tracked' = IF tracked = None THEN BufferEdited(s) ELSE ScheduleDiffUpdate(t, "user", s)
  BY DEF UndoLastReject
<1>2. /\ undo.hunks \in SUBSET SUBSET Regions /\ undo.text \in Texts
      /\ Fits(undo.hunks, undo.text, undo.text)
  BY <1>1, Parts DEF Undos
<1>3. Covers(undo.hunks, h, undo.hunks) /\ (text = Empty => h = Regions)
  BY <1>1, <1>2 DEF Covers
<1> HIDE DEF h
<1>4. h \in SUBSET Regions /\ (h = {} \/ h = Regions \/ undo.text # Empty)
  BY <1>2, <1>3, FitsPart
<1>5. text \in Texts /\ touched \in SUBSET Regions
  BY AttributedParts
<1>6. s \in Texts /\ (undo.text # Empty /\ text # Empty => s # Empty)
  BY <1>2, <1>3, <1>4, <1>5, TakeAt
<1>7. h = {} => s = text
  BY DEF Take
<1> HIDE DEF s
<1>8. CASE tracked = None
  <2>1. Attributed(BufferEdited(s), {})
    BY <1>6, <1>8, BufferEditedAttributed
  <2> QED BY <1>1, <1>8, <2>1, AssembleAttributed
<1>9. CASE tracked # None
  <2>1. /\ Sound(tracked, text) /\ tracked \in TrackedBuffers /\ Attributed(tracked, touched)
        /\ tracked.status \in {"modified", "created", "deleted"}
    BY <1>9, AttributedParts
  <2>2. Sound(t, text) /\ Attributed(t, touched)
    BY <2>1, FreshAttributed
  <2> HIDE DEF t
  <2>3. /\ touched \cup h \in SUBSET Regions /\ touched \subseteq touched \cup h
        /\ touched \cup h = Regions \/ (s = Empty => text = Empty)
    BY <1>3, <1>4, <1>5, <1>6, <1>7
  <2>4. Attributed(ScheduleDiffUpdate(t, "user", s), touched \cup h)
    BY <1>5, <1>6, <2>2, <2>3, EditAttributed
  <2> QED BY <1>1, <1>9, <2>3, <2>4, AssembleAttributed
<1> QED BY <1>8, <1>9

\* Every step keeps the attribution.
LEMMA StepwiseAttributed == IInv /\ AttributionInv /\ [Next]_vars => AttributionInv'
<1> SUFFICES ASSUME IInv, AttributionInv, [Next]_vars
             PROVE  AttributionInv'
  OBVIOUS
<1>1. CASE UNCHANGED vars
  BY <1>1, AttributedParts, AssembleAttributed DEF vars
<1>2. CASE Next
  BY <1>2, BufferReadAttributed, BufferCreatedAttributed, AgentEditAttributed, UserEditAttributed,
     SaveAnnouncedAttributed, WillDeleteBufferAttributed, FileAttributed, TrackEditsAttributed,
     KeepCommittedEditsAttributed, SetDiffAttributed, UpdateDiffAttributed,
     KeepEditsInRangeAttributed, KeepAllEditsAttributed, RejectsAttributed,
     UndoLastRejectAttributed, CommitAttributed DEF Next
<1> QED BY <1>1, <1>2

\* The diff base follows the buffer wherever the agent did not touch it, in every
\* reachable state, whatever the file's regions and the number of edits and reviews.
THEOREM Attribution == Spec => []AttributionInv
<1>1. Init => AttributionInv
  BY DEF Init, AttributionInv
<1> QED BY <1>1, StepwiseAttributed, Invariance, PTL DEF Spec

\* Once every queued update is applied, each hunk that waits for review has a
\* region that the agent changed since its last review: apply_non_conflicting_edits
\* leaves no trace of what only the user typed, and a hunk that was kept or
\* rejected does not come back.
THEOREM OnlyTheAgents == Spec => []OnlyAgentChangesUnreviewed
<1>1. ASSUME IInv, AttributionInv, Quiet, NEW h \in tracked.unreviewed
      PROVE  h \cap touched # {}
  <2>1. tracked # None /\ tracked.flight = None /\ tracked.queue = <<>>
    BY <1>1 DEF Quiet
  <2>2. /\ Sound(tracked, text) /\ Attributed(tracked, touched) /\ tracked \in TrackedBuffers
        /\ Diffed(tracked)
    BY <1>1, <2>1, AttributedParts, Parts DEF Well
  <2>3. /\ tracked.unreviewed \in SUBSET SUBSET Regions
        /\ Fits(tracked.unreviewed, tracked.base, tracked.snapshot)
    BY <2>2 DEF TrackedBuffers, Sound
  <2>4. PICK r \in h : r \in Regions
    <3>1. h = Regions \/ \E r \in Regions : h = {r}
      BY <2>3 DEF Fits, Singles
    <3> QED BY <3>1, RegionsApart
  <2>5. CASE h = Regions /\ touched = Regions
    BY <2>4, <2>5
  <2>6. CASE ~(h = Regions /\ touched = Regions)
    <3>1. At(tracked.base, r) # At(tracked.snapshot, r)
      BY <2>1, <2>2, <2>6 DEF Attributed, HunksDiffer
    <3>2. ASSUME r \notin touched
          PROVE  At(tracked.base, r) = At(tracked.snapshot, r)
      <4>1. Len(tracked.queue) = 0 /\ 1..0 = {}
        BY <2>1
      <4>2. Agrees(tracked, r, 0)
        BY <2>2, <2>4, <3>2, <4>1 DEF Attributed, UntouchedFollow, Follows
      <4>3. Base(tracked) = tracked.base /\ Before(tracked, 1) = tracked.snapshot
        BY <2>1 DEF Base, Before
      <4> QED BY <4>1, <4>2, <4>3 DEF Agrees
    <3> QED BY <3>1, <3>2
  <2> QED BY <2>5, <2>6
<1>2. IInv /\ AttributionInv => OnlyAgentChangesUnreviewed
  BY <1>1 DEF OnlyAgentChangesUnreviewed
<1> QED BY <1>2, Invariance, Attribution, PTL

=============================================================================
