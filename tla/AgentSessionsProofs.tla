------------------------ MODULE AgentSessionsProofs ------------------------
(***************************************************************************)
(* Invariants of AgentSessions for every set of clients and changes.       *)
(***************************************************************************)
EXTENDS AgentSessions, FiniteSetTheorems, TLAPS

\* Contents that were worth saving
Stored == {x \in Contents : ~IsEmpty(x)}

Typed ==
  /\ session \in Sessions \cup {NoThread}
  /\ pending \in Nat /\ leaked \in Nat /\ opens \in Nat
  /\ loader \in {"idle", "reading", "read", "replaying"}
  /\ client \in [Clients -> {"out", "waiting", "view", "summary"}]
  /\ uses \in [Clients -> Nat]

\* A load and a session exclude each other, and the load that has registered its
\* session still has a client that waits, or one that left
LoadPlace ==
  /\ loader \in {"reading", "read"} <=> pending > 0
  /\ pending > 0 => ~Registered
  /\ loader = "replaying" => Registered /\ Cardinality(Waiting) + leaked > 0

References == Typed /\ LoadPlace /\ ReferencesExact

\* What is saved, being saved or loaded was worth saving
SavesTyped ==
  /\ latest \in Contents
  /\ saving \in Stored \cup {NoThread}
  /\ closing \in SUBSET Stored /\ writing \in SUBSET Stored
  /\ row \in Stored \cup {NoThread}
  /\ loader = "read" => loaded \in Stored
  /\ ~Registered => saving = NoThread

\* Where the thread is as its last change left it: in the session, in the row that
\* was read, in the save of the closed session, in the only write, or in the row.
\* An emptied thread is only in its session
AllChanges ==
  faults = {} =>
    /\ Registered => session.content = latest /\ closing = {}
    /\ loader = "read" => (IsEmpty(latest) \/ loaded = latest) /\ closing = {}
    /\ ~Registered /\ loader # "read" /\ ~IsEmpty(latest) =>
         \/ closing = {latest}
         \/ closing = {} /\ writing = {latest}
         \/ closing = {} /\ writing = {} /\ row = latest

\* The inductive invariant
IInv == References /\ SavesTyped /\ AllChanges

-----------------------------------------------------------------------------
\* The clients that have the session and those that wait for it are finite sets
LEMMA FiniteClients ==
  ASSUME NEW S \in SUBSET Clients
  PROVE  IsFiniteSet(S) /\ Cardinality(S) \in Nat
BY ClientsAssumption, FS_Subset, FS_CardinalityType

\* One client more or less
LEMMA OneMore ==
  ASSUME NEW S \in SUBSET Clients, NEW c \in Clients, c \notin S
  PROVE  Cardinality(S \cup {c}) = Cardinality(S) + 1
BY FiniteClients, FS_AddElement

\* Taking one client out of a set
LEMMA OneLess ==
  ASSUME NEW S \in SUBSET Clients, NEW c \in S
  PROVE  Cardinality(S \ {c}) = Cardinality(S) - 1 /\ Cardinality(S) > 0
<1>1. Cardinality(S \ {c}) = Cardinality(S) - 1 /\ Cardinality(S \ {c}) \in Nat /\ Cardinality(S) \in Nat
  BY FiniteClients, FS_RemoveElement
<1> QED
  BY <1>1

\* A client holds a thread or waits for one, not both
LEMMA Subsets == Holders \in SUBSET Clients /\ Waiting \in SUBSET Clients /\ Holders \cap Waiting = {}
BY DEF Holders, Waiting

\* How the counts follow one client: it opens a session, joins a load, gives up
\* waiting, or goes away
LEMMA ClientMoves ==
  ASSUME Typed, NEW c \in Clients, NEW k \in {"out", "waiting", "view", "summary"},
         client' = [client EXCEPT ![c] = k]
  PROVE  /\ client' \in [Clients -> {"out", "waiting", "view", "summary"}]
         /\ client[c] = "out" /\ k \in {"view", "summary"} =>
              /\ Holders' = Holders \cup {c} /\ Waiting' = Waiting
              /\ Cardinality(Holders') = Cardinality(Holders) + 1
         /\ client[c] = "out" /\ k = "waiting" =>
              /\ Holders' = Holders /\ Cardinality(Waiting') = Cardinality(Waiting) + 1
         /\ client[c] = "waiting" /\ k = "out" =>
              /\ Holders' = Holders
              /\ Cardinality(Waiting') = Cardinality(Waiting) - 1 /\ Cardinality(Waiting) > 0
         /\ client[c] \in {"view", "summary"} /\ k = "out" =>
              /\ c \in Holders /\ Holders' = Holders \ {c} /\ Waiting' = Waiting
              /\ Cardinality(Holders') = Cardinality(Holders) - 1 /\ Cardinality(Holders) > 0
<1>1. /\ client' \in [Clients -> {"out", "waiting", "view", "summary"}] /\ client'[c] = k
      /\ \A d \in Clients : d # c => client'[d] = client[d]
  BY DEF Typed
<1>2. Holders \in SUBSET Clients /\ Waiting \in SUBSET Clients
  BY Subsets
<1>3. CASE client[c] = "out" /\ k \in {"view", "summary"}
  <2>1. Holders' = Holders \cup {c} /\ Waiting' = Waiting /\ c \notin Holders
    BY <1>1, <1>3 DEF Holders, Waiting
  <2> QED
    BY <1>1, <1>2, <1>3, <2>1, OneMore
<1>4. CASE client[c] = "out" /\ k = "waiting"
  <2>1. Holders' = Holders /\ Waiting' = Waiting \cup {c} /\ c \notin Waiting
    BY <1>1, <1>4 DEF Holders, Waiting
  <2> QED
    BY <1>1, <1>2, <1>4, <2>1, OneMore
<1>5. CASE client[c] = "waiting" /\ k = "out"
  <2>1. Holders' = Holders /\ Waiting' = Waiting \ {c} /\ c \in Waiting
    BY <1>1, <1>5 DEF Holders, Waiting
  <2> QED
    BY <1>1, <1>2, <1>5, <2>1, OneLess
<1>6. CASE client[c] \in {"view", "summary"} /\ k = "out"
  <2>1. Holders' = Holders \ {c} /\ Waiting' = Waiting /\ c \in Holders
    BY <1>1, <1>6 DEF Holders, Waiting
  <2> QED
    BY <1>1, <1>2, <1>6, <2>1, OneLess
<1> QED
  BY <1>1, <1>3, <1>4, <1>5, <1>6

\* Sizes are numbers
LEMMA SizesTyped ==
  /\ Cardinality(Holders) \in Nat /\ Cardinality(Waiting) \in Nat
  /\ Cardinality(Holders)' \in Nat /\ Cardinality(Waiting)' \in Nat
BY FiniteClients DEF Holders, Waiting

\* Counting a reference
LEMMA RefsChange ==
  ASSUME NEW s \in Sessions, NEW n \in Nat
  PROVE  LET r == [s EXCEPT !.refs = n]
         IN  r \in Sessions /\ r # NoThread /\ r.refs = n /\ r.content = s.content /\ r.id = s.id
BY NoThreadAssumption DEF Sessions

-----------------------------------------------------------------------------
\* Clients come
LEMMA OpenRefs ==
  ASSUME References, NEW c \in Clients, Open(c)
  PROVE  References'
<1>1. Typed /\ LoadPlace /\ ReferencesExact
  BY DEF References
<1>2. client[c] = "out" /\ opens' = opens + 1 /\ leaked' = leaked /\ c \notin Holders
  BY DEF Open, Holders
<1>3. CASE Registered
  <2>1. /\ session' = [session EXCEPT !.refs = session.refs + 1] /\ UNCHANGED loadVars
        /\ uses' = [uses EXCEPT ![c] = session.id]
    BY <1>3 DEF Open
  <2>2. PICK k \in {"view", "summary"} : client' = [client EXCEPT ![c] = k]
    BY <1>3 DEF Open
  <2>3. session \in Sessions /\ session.refs + 1 \in Nat /\ session.id \in Nat /\ session.refs \in Nat
    BY <1>1, <1>3 DEF Typed, Registered, Sessions
  <2>4. session' \in Sessions /\ Registered' /\ session'.refs = session.refs + 1 /\ session'.id = session.id
    BY <2>1, <2>3, RefsChange DEF Registered
  <2>5. /\ client' \in [Clients -> {"out", "waiting", "view", "summary"}]
        /\ Holders' = Holders \cup {c} /\ Waiting' = Waiting
        /\ Cardinality(Holders') = Cardinality(Holders) + 1
    BY <1>1, <1>2, <2>2, ClientMoves
  <2>6. uses' \in [Clients -> Nat] /\ uses'[c] = session.id /\ \A d \in Clients : d # c => uses'[d] = uses[d]
    BY <1>1, <2>1, <2>3 DEF Typed
  <2>7. Typed'
    BY <1>1, <1>2, <2>1, <2>4, <2>5, <2>6 DEF Typed, loadVars
  <2>8. LoadPlace'
    BY <1>1, <1>2, <1>3, <2>1, <2>4, <2>5 DEF LoadPlace, loadVars
  <2>9. ReferencesExact'
    <3>1. session'.refs = Cardinality(Holders') + Cardinality(Waiting') + leaked'
      BY <1>1, <1>2, <1>3, <2>3, <2>4, <2>5, SizesTyped DEF ReferencesExact, Typed
    <3>2. \A d \in Holders' : uses'[d] = session.id
      BY <1>1, <1>3, <2>5, <2>6, Subsets DEF ReferencesExact
    <3> QED
      BY <2>4, <3>1, <3>2 DEF ReferencesExact
  <2> QED
    BY <2>7, <2>8, <2>9 DEF References
<1>4. CASE ~Registered
  <2>1. /\ session' = session /\ uses' = uses /\ client' = [client EXCEPT ![c] = "waiting"]
        /\ pending' = pending + 1 /\ loader' = IF pending = 0 THEN "reading" ELSE loader
    BY <1>1, <1>4 DEF Open, Typed
  <2>2. /\ client' \in [Clients -> {"out", "waiting", "view", "summary"}]
        /\ Holders' = Holders /\ Cardinality(Waiting') = Cardinality(Waiting) + 1
    BY <1>1, <1>2, <2>1, ClientMoves
  <2>3. Typed'
    BY <1>1, <1>2, <2>1, <2>2 DEF Typed
  <2>4. LoadPlace'
    BY <1>1, <1>4, <2>1 DEF LoadPlace, Typed, Registered
  <2>5. ReferencesExact'
    BY <1>1, <1>2, <1>4, <2>1, <2>2, SizesTyped DEF ReferencesExact, Registered, Typed
  <2> QED
    BY <2>3, <2>4, <2>5 DEF References
<1> QED
  BY <1>3, <1>4

\* Clients leave without closing: a view while it loads, a summary that failed
LEMMA LeaveRefs ==
  ASSUME References, NEW c \in Clients, Abandon(c) \/ SummaryFails(c)
  PROVE  References'
<1>1. Typed /\ LoadPlace /\ ReferencesExact
  BY DEF References
<1>2. /\ client[c] \in {"waiting", "summary"} /\ client' = [client EXCEPT ![c] = "out"]
      /\ leaked' = leaked + 1 /\ UNCHANGED <<session, loadVars, uses, opens>>
  BY DEF Abandon, SummaryFails
<1>3. client' \in [Clients -> {"out", "waiting", "view", "summary"}]
  BY <1>1, <1>2, ClientMoves
<1>4. /\ Holders' \subseteq Holders
      /\ Cardinality(Holders') + Cardinality(Waiting') + 1 = Cardinality(Holders) + Cardinality(Waiting)
      /\ Cardinality(Waiting') + leaked' >= Cardinality(Waiting) + leaked
  <2>1. CASE client[c] = "waiting"
    <3>1. /\ Holders' = Holders /\ Cardinality(Waiting') = Cardinality(Waiting) - 1
      BY <1>1, <1>2, <2>1, ClientMoves
    <3> QED
      BY <1>1, <1>2, <3>1, SizesTyped DEF Typed
  <2>2. CASE client[c] = "summary"
    <3>1. /\ Holders' = Holders \ {c} /\ Waiting' = Waiting
          /\ Cardinality(Holders') = Cardinality(Holders) - 1
      BY <1>1, <1>2, <2>2, ClientMoves
    <3> QED
      BY <1>1, <1>2, <3>1, SizesTyped DEF Typed
  <2> QED
    BY <1>2, <2>1, <2>2
<1>5. Typed'
  BY <1>1, <1>2, <1>3 DEF Typed, loadVars
<1>6. LoadPlace'
  BY <1>1, <1>2, <1>4, SizesTyped DEF LoadPlace, loadVars, Registered, Typed
<1>7. ReferencesExact'
  BY <1>1, <1>2, <1>4, SizesTyped DEF ReferencesExact, loadVars, Registered, Typed
<1> QED
  BY <1>5, <1>6, <1>7 DEF References

\* close_session: the session goes with the last reference
LEMMA CloseRefs ==
  ASSUME References, NEW c \in Clients, Close(c)
  PROVE  References'
<1>1. Typed /\ LoadPlace /\ ReferencesExact
  BY DEF References
<1>2. /\ client[c] \in {"view", "summary"} /\ client' = [client EXCEPT ![c] = "out"] /\ CloseSession
      /\ UNCHANGED <<loadVars, uses, opens, leaked>>
  BY DEF Close
<1>3. /\ c \in Holders /\ Holders' = Holders \ {c} /\ Waiting' = Waiting
      /\ Cardinality(Holders') = Cardinality(Holders) - 1 /\ Cardinality(Holders) > 0
      /\ client' \in [Clients -> {"out", "waiting", "view", "summary"}]
  BY <1>1, <1>2, ClientMoves
<1>4. /\ Registered /\ session \in Sessions /\ session.refs \in Nat /\ pending = 0
      /\ session.refs = Cardinality(Holders) + Cardinality(Waiting) + leaked
  BY <1>1, <1>3 DEF ReferencesExact, Typed, LoadPlace, Registered, Sessions
<1>5. CASE session.refs > 1
  <2>1. session' = [session EXCEPT !.refs = session.refs - 1]
    BY <1>2, <1>4, <1>5 DEF CloseSession
  <2>2. session' \in Sessions /\ Registered' /\ session'.refs = session.refs - 1 /\ session'.id = session.id
    BY <1>4, <1>5, <2>1, RefsChange DEF Registered
  <2>3. Typed'
    BY <1>1, <1>2, <1>3, <2>2 DEF Typed, loadVars
  <2>4. LoadPlace'
    BY <1>1, <1>2, <1>3, <1>4, <2>2 DEF LoadPlace, loadVars
  <2>5. ReferencesExact'
    BY <1>1, <1>2, <1>3, <1>4, <2>2, SizesTyped DEF ReferencesExact, Typed
  <2> QED
    BY <2>3, <2>4, <2>5 DEF References
<1>6. CASE session.refs <= 1
  <2>1. session' = NoThread /\ ~Registered'
    BY <1>2, <1>4, <1>6 DEF CloseSession, Registered
  <2>2. Cardinality(Holders') = 0 /\ Cardinality(Waiting') = 0 /\ leaked = 0 /\ Cardinality(Waiting) = 0
    BY <1>1, <1>3, <1>4, <1>6, SizesTyped DEF Typed
  <2>3. Holders' = {}
    <3>1. Holders' \in SUBSET Clients
      BY <1>3, Subsets
    <3> QED
      BY <2>2, <3>1, FiniteClients, FS_EmptySet
  <2>4. Typed'
    BY <1>1, <1>2, <1>3, <2>1 DEF Typed, loadVars
  <2>5. LoadPlace'
    BY <1>1, <1>2, <1>4, <2>1, <2>2 DEF LoadPlace, loadVars
  <2>6. ReferencesExact'
    BY <1>2, <1>4, <2>1, <2>2, <2>3 DEF ReferencesExact, loadVars
  <2> QED
    BY <2>4, <2>5, <2>6 DEF References
<1> QED
  BY <1>4, <1>5, <1>6

\* The load task
LEMMA LoadRefs ==
  ASSUME References, SavesTyped, Load
  PROVE  References'
<1>1. Typed /\ LoadPlace /\ ReferencesExact
  BY DEF References
<1>2. CASE ReadRow
  <2>1. UNCHANGED <<session, pending, client, uses, opens, leaked>> /\ loader = "reading" /\ loader' = "read"
    BY <1>2 DEF ReadRow
  <2>2. Holders' = Holders /\ Waiting' = Waiting
    BY <2>1 DEF Holders, Waiting
  <2> QED
    BY <1>1, <2>1, <2>2 DEF References, Typed, LoadPlace, ReferencesExact, Registered
<1>3. CASE LoadFails
  <2>1. /\ loader = "reading" /\ loader' = "idle" /\ pending' = 0 /\ leaked' = 0
        /\ client' = [d \in Clients |-> IF d \in Waiting THEN "out" ELSE client[d]]
        /\ UNCHANGED <<session, uses, opens>>
    BY <1>3 DEF LoadFails
  <2>2. ~Registered /\ Holders = {}
    BY <1>1, <2>1 DEF LoadPlace, ReferencesExact
  <2>3. Holders' = {} /\ Waiting' = {}
    BY <1>1, <2>1, <2>2 DEF Holders, Waiting, Typed
  <2>4. Cardinality(Holders') = 0 /\ Cardinality(Waiting') = 0
    BY <2>3, FS_EmptySet
  <2>5. Typed'
    BY <1>1, <2>1 DEF Typed
  <2> QED
    BY <2>1, <2>2, <2>3, <2>4, <2>5 DEF References, LoadPlace, ReferencesExact, Registered
<1>4. CASE Register
  <2>1. /\ loader = "read" /\ pending' = 0 /\ loader' = "replaying"
        /\ session' = [refs |-> pending, content |-> loaded, streamed |-> {}, id |-> opens]
        /\ UNCHANGED <<client, uses, opens, leaked>>
    BY <1>4 DEF Register
  <2>2. Holders' = Holders /\ Waiting' = Waiting
    BY <2>1 DEF Holders, Waiting
  <2>3. ~Registered /\ pending > 0 /\ Holders = {} /\ Cardinality(Holders) = 0
    BY <1>1, <2>1, FS_EmptySet DEF LoadPlace, ReferencesExact
  <2>4. loaded \in Contents
    BY <2>1 DEF SavesTyped, Stored
  <2>5. session' \in Sessions /\ session'.refs = pending /\ Registered'
    BY <1>1, <2>1, <2>4, NoThreadAssumption DEF Typed, Sessions, Registered
  <2>6. Typed'
    BY <1>1, <2>1, <2>5 DEF Typed
  <2>7. pending = Cardinality(Waiting) + leaked
    BY <1>1, <2>3, SizesTyped DEF ReferencesExact, Typed
  <2>8. LoadPlace'
    BY <2>1, <2>2, <2>3, <2>5, <2>7 DEF LoadPlace
  <2>9. ReferencesExact'
    BY <1>1, <2>1, <2>2, <2>3, <2>5, <2>7, SizesTyped DEF ReferencesExact, Typed
  <2> QED
    BY <2>6, <2>8, <2>9 DEF References
<1>5. CASE ReplayEnds
  <2>1. /\ loader = "replaying" /\ loader' = "idle"
        /\ client' \in [Clients -> {"out", "waiting", "view", "summary"}]
        /\ \A c \in Clients : IF c \in Waiting THEN client'[c] \in {"view", "summary"}
                                              ELSE client'[c] = client[c]
        /\ uses' = [c \in Clients |-> IF c \in Waiting THEN session.id ELSE uses[c]]
        /\ UNCHANGED <<session, pending, opens, leaked>>
    BY <1>5 DEF ReplayEnds
  <2>2. Registered /\ session \in Sessions /\ session.id \in Nat /\ pending = 0
    BY <1>1, <2>1 DEF LoadPlace, Typed, Registered, Sessions
  <2>3. Holders' = Holders \cup Waiting /\ Waiting' = {}
    BY <2>1 DEF Holders, Waiting
  <2>4. /\ Cardinality(Holders') = Cardinality(Holders) + Cardinality(Waiting)
        /\ Cardinality(Waiting') = 0
    <3>1. Cardinality(Holders \cup Waiting) = Cardinality(Holders) + Cardinality(Waiting) - Cardinality(Holders \cap Waiting)
      BY Subsets, FiniteClients, FS_Union
    <3>2. Cardinality(Holders \cap Waiting) = 0
      BY Subsets, FS_EmptySet
    <3>3. Cardinality(Waiting') = 0
      BY <2>3, FS_EmptySet
    <3> QED
      BY <2>3, <3>1, <3>2, <3>3, SizesTyped
  <2>5. Typed'
    BY <1>1, <2>1, <2>2 DEF Typed
  <2>6. LoadPlace'
    BY <2>1, <2>2 DEF LoadPlace
  <2>7. \A c \in Holders' : uses'[c] = session.id
    BY <1>1, <2>1, <2>3, Subsets DEF ReferencesExact
  <2>8. ReferencesExact'
    <3>1. session.refs = Cardinality(Holders) + Cardinality(Waiting) + leaked
      BY <1>1, <2>2 DEF ReferencesExact
    <3>2. session'.refs = Cardinality(Holders') + Cardinality(Waiting') + leaked'
      BY <1>1, <2>1, <2>4, <3>1, SizesTyped DEF Typed
    <3> QED
      BY <2>1, <2>2, <2>7, <3>2 DEF ReferencesExact, Registered
  <2> QED
    BY <2>5, <2>6, <2>8 DEF References
<1>6. CASE ReplayFails
  <2>1. /\ loader = "replaying" /\ loader' = "idle"
        /\ client' = [c \in Clients |-> IF c \in Waiting THEN "out" ELSE client[c]]
        /\ leaked' = leaked + Cardinality(Waiting)
        /\ UNCHANGED <<session, pending, uses, opens>>
    BY <1>6 DEF ReplayFails
  <2>2. Registered /\ pending = 0
    BY <1>1, <2>1 DEF LoadPlace, Typed
  <2>3. Holders' = Holders /\ Waiting' = {} /\ Cardinality(Waiting') = 0
    BY <2>1, FS_EmptySet DEF Holders, Waiting
  <2>4. Typed'
    BY <1>1, <2>1, SizesTyped DEF Typed
  <2>5. LoadPlace'
    BY <2>1, <2>2 DEF LoadPlace
  <2>6. ReferencesExact'
    BY <1>1, <2>1, <2>2, <2>3, SizesTyped DEF ReferencesExact, Registered, Typed
  <2> QED
    BY <2>4, <2>5, <2>6 DEF References
<1> QED
  BY <1>2, <1>3, <1>4, <1>5, <1>6 DEF Load

\* Steps that touch no client, no load and no count
LEMMA RefsKept ==
  ASSUME References, UNCHANGED <<pending, loader, client, uses, opens, leaked>>,
         \/ session' = session
         \/ /\ Registered /\ Registered' /\ session' \in Sessions
            /\ session'.refs = session.refs /\ session'.id = session.id
  PROVE  References'
<1>1. Holders' = Holders /\ Waiting' = Waiting
  BY DEF Holders, Waiting
<1>2. Registered' = Registered /\ (Registered => session'.refs = session.refs /\ session'.id = session.id)
  BY DEF Registered
<1> QED
  BY <1>1, <1>2 DEF References, Typed, LoadPlace, ReferencesExact

-----------------------------------------------------------------------------
\* A change of the thread, of its pending message or of its draft prompt
LEMMA ChangeInv ==
  ASSUME IInv, Registered, NEW x \in Contents, NEW y \in SUBSET Edits,
         session' = [session EXCEPT !.content = x, !.streamed = y],
         latest' \in Contents, session.content = latest => latest' = x,
         saving' \in {saving, Saved(x)},
         UNCHANGED <<loadVars, closing, writing, row, client, uses, opens, leaked, faults>>
  PROVE  IInv'
<1>1. session \in Sessions
  BY DEF IInv, References, Typed, Registered
<1>2. /\ session' \in Sessions /\ Registered' /\ session'.refs = session.refs
      /\ session'.content = x /\ session'.id = session.id
  <2>1. ASSUME NEW s \in Sessions, NEW r, r = [s EXCEPT !.content = x, !.streamed = y]
        PROVE  r \in Sessions /\ r # NoThread /\ r.refs = s.refs /\ r.content = x /\ r.id = s.id
    BY <2>1, NoThreadAssumption DEF Sessions
  <2> QED
    BY <1>1, <2>1 DEF Registered
<1>3. References'
  BY <1>2, RefsKept DEF IInv, loadVars
<1>4. saving' \in Stored \cup {NoThread}
  BY DEF Saved, Stored, IInv, SavesTyped
<1>5. SavesTyped'
  BY <1>2, <1>4 DEF SavesTyped, IInv, loadVars
<1>6. loader # "read"
  BY DEF IInv, References, LoadPlace
<1>7. AllChanges'
  BY <1>2, <1>6 DEF IInv, AllChanges, loadVars
<1> QED
  BY <1>3, <1>5, <1>7 DEF IInv

\* Steps of clients and of the load that leave the session's content and the
\* saves alone, and register no session
LEMMA ChangesKept ==
  ASSUME IInv, References', UNCHANGED <<saveVars, loaded, latest, faults>>,
         Registered' = Registered, Registered => session'.content = session.content,
         loader' = "read" <=> loader = "read"
  PROVE  IInv'
<1>2. SavesTyped'
  BY DEF IInv, SavesTyped, saveVars
<1>3. AllChanges'
  BY DEF IInv, AllChanges, saveVars
<1> QED
  BY <1>2, <1>3 DEF IInv

\* close_session: the last close hands everything the session has to its save
LEMMA CloseInv ==
  ASSUME IInv, NEW c \in Clients, Close(c)
  PROVE  IInv'
<1>1. References'
  BY CloseRefs DEF IInv
<1>2. Registered /\ session \in Sessions /\ loader # "read"
  <2>1. c \in Holders
    BY DEF Close, Holders
  <2> QED
    BY <2>1 DEF IInv, References, ReferencesExact, LoadPlace, Typed, Registered
<1>3. UNCHANGED <<loader, loaded, writing, row, latest, faults>> /\ CloseSession
  BY DEF Close, loadVars
<1>4. NoThread \notin Contents
  BY NoThreadAssumption
<1>5. CASE session.refs > 1
  <2>1. session' = [session EXCEPT !.refs = session.refs - 1] /\ saving' = saving /\ closing' = closing
    BY <1>2, <1>3, <1>5 DEF CloseSession, Sessions
  <2>2. session.refs - 1 \in Nat
    BY <1>2, <1>5 DEF Sessions
  <2>3. Registered' /\ session'.content = session.content
    BY <1>2, <2>1, <2>2, RefsChange DEF Registered
  <2> QED
    BY <1>1, <1>2, <1>3, <2>1, <2>3, ChangesKept DEF saveVars
<1>6. CASE session.refs <= 1
  <2> DEFINE x == Saved(session.content)
  <2>1. closing' = closing \cup ({x} \ {NoThread}) /\ saving' = NoThread /\ ~Registered'
    BY <1>2, <1>3, <1>6 DEF CloseSession, Sessions, Registered
  <2>2. session.content \in Contents
    BY <1>2 DEF Sessions
  <2>3. x \in Stored \cup {NoThread}
    BY <2>2 DEF Saved, Stored, IInv, SavesTyped
  <2>4. SavesTyped'
    <3> HIDE DEF x
    <3> QED
      BY <1>3, <1>4, <2>1, <2>3 DEF IInv, SavesTyped
  <2>5. AllChanges'
    <3> SUFFICES ASSUME faults = {}, ~IsEmpty(latest)
                 PROVE  closing' = {latest}
      BY <1>2, <1>3, <2>1 DEF AllChanges
    <3>1. session.content = latest /\ closing = {}
      BY <1>2 DEF IInv, AllChanges
    <3>2. x = latest /\ latest # NoThread
      BY <1>4, <2>2, <3>1 DEF Saved
    <3> QED
      BY <2>1, <3>1, <3>2
  <2> QED
    BY <1>1, <2>4, <2>5 DEF IInv
<1>7. session.refs \in Nat
  BY <1>2 DEF Sessions
<1> QED
  BY <1>5, <1>6, <1>7

\* The load task reads a row that has everything, or the read was early
LEMMA ReadRowInv ==
  ASSUME IInv, ReadRow
  PROVE  IInv'
<1>1. References'
  BY LoadRefs DEF IInv, Load
<1>2. /\ loader = "reading" /\ row # NoThread /\ loader' = "read" /\ loaded' = row
      /\ faults' = faults \cup (IF Outstanding THEN {"early read"} ELSE {})
      /\ UNCHANGED <<session, saveVars, latest>>
  BY DEF ReadRow
<1>3. ~Registered /\ ~Registered'
  BY <1>2 DEF IInv, References, LoadPlace, Registered
<1>4. row \in Stored
  BY <1>2 DEF IInv, SavesTyped
<1>5. SavesTyped'
  BY <1>2, <1>3, <1>4 DEF IInv, SavesTyped, saveVars
<1>6. AllChanges'
  <2> SUFFICES ASSUME faults' = {}
               PROVE  (IsEmpty(latest) \/ loaded' = latest) /\ closing = {}
    BY <1>2, <1>3 DEF AllChanges, saveVars
  <2>1. faults = {} /\ closing = {} /\ writing = {}
    BY <1>2 DEF Outstanding
  <2> QED
    BY <1>2, <1>3, <2>1 DEF IInv, AllChanges
<1> QED
  BY <1>1, <1>5, <1>6 DEF IInv

\* register_session: the thread is in the map with the references of its waiters
LEMMA RegisterInv ==
  ASSUME IInv, Register
  PROVE  IInv'
<1>1. References'
  BY LoadRefs DEF IInv, Load
<1>2. /\ loader = "read" /\ loader' = "replaying"
      /\ session' = [refs |-> pending, content |-> loaded, streamed |-> {}, id |-> opens]
      /\ latest' = IF IsEmpty(latest) THEN loaded ELSE latest
      /\ UNCHANGED <<saveVars, faults>>
  BY DEF Register
<1>3. ~Registered /\ loaded \in Stored /\ loaded \in Contents
  BY <1>2 DEF IInv, References, LoadPlace, SavesTyped, Stored
<1>4. Registered' /\ session'.content = loaded
  BY <1>1, <1>2 DEF References, LoadPlace
<1>5. SavesTyped'
  BY <1>2, <1>3, <1>4 DEF IInv, SavesTyped, saveVars
<1>6. AllChanges'
  BY <1>2, <1>4 DEF IInv, AllChanges, saveVars
<1> QED
  BY <1>1, <1>5, <1>6 DEF IInv

\* The database begins a write
LEMMA BeginWriteInv ==
  ASSUME IInv, BeginWrite
  PROVE  IInv'
<1>1. /\ UNCHANGED <<session, loadVars, row, client, uses, latest, opens, leaked>>
      /\ faults' = faults \cup (IF writing # {} THEN {"overlap"} ELSE {})
  BY DEF BeginWrite
<1>2. References'
  BY <1>1, RefsKept DEF IInv, loadVars
<1>3. Registered' = Registered /\ loader' = loader /\ loaded' = loaded
  BY <1>1 DEF Registered, loadVars
<1>4. CASE /\ saving # NoThread /\ writing' = writing \cup {saving} /\ saving' = NoThread
           /\ closing' = closing
  <2>1. Registered /\ loader # "read"
    BY <1>4 DEF IInv, SavesTyped, References, LoadPlace
  <2>2. SavesTyped'
    BY <1>1, <1>3, <1>4 DEF IInv, SavesTyped
  <2>3. AllChanges'
    BY <1>1, <1>3, <1>4, <2>1 DEF IInv, AllChanges
  <2> QED
    BY <1>2, <2>2, <2>3 DEF IInv
<1>5. ASSUME NEW x \in closing, writing' = writing \cup {x}, closing' = closing \ {x}, saving' = saving
      PROVE  IInv'
  <2>1. SavesTyped'
    BY <1>1, <1>3, <1>5 DEF IInv, SavesTyped
  <2>2. AllChanges'
    <3> SUFFICES ASSUME faults' = {} PROVE AllChanges'
      BY DEF AllChanges
    <3>1. faults = {} /\ writing = {}
      BY <1>1
    <3>2. ~Registered /\ loader # "read"
      BY <1>5, <3>1 DEF IInv, AllChanges
    <3>3. IsEmpty(latest) \/ closing = {latest}
      BY <1>5, <3>1, <3>2 DEF IInv, AllChanges
    <3> QED
      BY <1>1, <1>3, <1>5, <3>1, <3>2, <3>3 DEF AllChanges
  <2> QED
    BY <1>2, <2>1, <2>2 DEF IInv
<1> QED
  BY <1>4, <1>5 DEF BeginWrite

\* A write to the threads database ends
LEMMA EndWriteInv ==
  ASSUME IInv, EndWrite
  PROVE  IInv'
<1>1. UNCHANGED <<session, loadVars, saving, closing, client, uses, latest, opens, leaked>>
  BY DEF EndWrite
<1>2. PICK x \in writing : /\ writing' = writing \ {x}
                          /\ \/ row' = x /\ faults' = faults
                             \/ row' = row /\ faults' = faults \cup {"failed"}
  BY DEF EndWrite
<1>3. References'
  BY <1>1, RefsKept DEF IInv, loadVars
<1>4. Registered' = Registered /\ loader' = loader /\ loaded' = loaded
  BY <1>1 DEF Registered, loadVars
<1>5. x \in Stored
  BY DEF IInv, SavesTyped
<1>6. SavesTyped'
  BY <1>1, <1>2, <1>4, <1>5 DEF IInv, SavesTyped
<1>7. AllChanges'
  <2> SUFFICES ASSUME faults' = {} PROVE AllChanges'
    BY DEF AllChanges
  <2>1. faults = {} /\ row' = x
    BY <1>2
  <2>2. writing = {latest} => writing' = {} /\ row' = latest
    BY <1>2, <2>1
  <2> QED
    BY <1>1, <1>2, <1>4, <2>1, <2>2 DEF IInv, AllChanges
<1> QED
  BY <1>3, <1>6, <1>7 DEF IInv

-----------------------------------------------------------------------------
\* An agent without sessions satisfies the invariant
LEMMA InitInv ==
  ASSUME Init
  PROVE  IInv
<1>1. PICK c \in Clients : client = [d \in Clients |-> IF d = c THEN "view" ELSE "out"]
  BY DEF Init
<1>2. Holders = {c} /\ Waiting = {}
  BY <1>1 DEF Holders, Waiting
<1>3. Cardinality(Holders) = 1 /\ Cardinality(Waiting) = 0
  BY <1>2, FS_Singleton, FS_EmptySet
<1>4. session \in Sessions /\ Registered /\ session.refs = 1 /\ session.id = 0 /\ session.content = {}
  BY NoThreadAssumption DEF Init, Sessions, Contents, Registered
<1>5. Typed
  BY <1>1, <1>4 DEF Init, Typed
<1>6. LoadPlace
  BY DEF Init, LoadPlace
<1>7. ReferencesExact
  BY <1>2, <1>3, <1>4 DEF Init, ReferencesExact
<1>8. SavesTyped
  BY <1>4 DEF Init, SavesTyped, Contents
<1>9. AllChanges
  BY <1>4 DEF Init, AllChanges
<1> QED
  BY <1>5, <1>6, <1>7, <1>8, <1>9 DEF IInv, References

\* Every step keeps it
LEMMA StepInv ==
  ASSUME IInv, [Next]_vars
  PROVE  IInv'
<1>1. CASE UNCHANGED vars
  <2>1. References'
    BY <1>1, RefsKept DEF IInv, vars
  <2> QED
    BY <1>1, <2>1, ChangesKept DEF vars, saveVars, Registered
<1>2. ASSUME NEW c \in Clients, Open(c) PROVE IInv'
  <2>1. References'
    BY <1>2, OpenRefs DEF IInv
  <2>2. loader' = "read" <=> loader = "read"
    BY <1>2 DEF Open, loadVars, IInv, References, LoadPlace
  <2>3. Registered' = Registered /\ (Registered => session'.content = session.content)
    <3>1. CASE Registered
      <4>1. session \in Sessions /\ session' = [session EXCEPT !.refs = session.refs + 1]
        BY <1>2, <3>1 DEF Open, IInv, References, Typed, Registered
      <4>2. session.refs + 1 \in Nat
        BY <4>1 DEF Sessions
      <4> QED
        BY <3>1, <4>1, <4>2, RefsChange DEF Registered
    <3>2. CASE ~Registered
      BY <1>2, <3>2 DEF Open, Registered
    <3> QED
      BY <3>1, <3>2
  <2>4. UNCHANGED <<saveVars, loaded, latest, faults>>
    BY <1>2 DEF Open, loadVars
  <2> QED
    BY <2>1, <2>2, <2>3, <2>4, ChangesKept
<1>3. ASSUME NEW c \in Clients, Abandon(c) \/ SummaryFails(c) PROVE IInv'
  <2>1. References'
    BY <1>3, LeaveRefs DEF IInv
  <2> QED
    BY <1>3, <2>1, ChangesKept DEF Abandon, SummaryFails, loadVars, Registered
<1>4. ASSUME NEW c \in Clients, Close(c) PROVE IInv'
  BY <1>4, CloseInv
<1> DEFINE content == session.content
           streamed == session.streamed
<1>5. Registered => content \in Contents /\ streamed \in SUBSET Edits /\ session \in Sessions
  BY DEF IInv, References, Typed, Registered, Sessions
<1>6. latest \in Contents
  BY DEF IInv, SavesTyped
<1>10. ASSUME NEW e \in Edits, Edit(e) PROVE IInv'
  <2>1. content \cup {e} \in Contents /\ latest \cup {e} \in Contents
    BY <1>5, <1>6, <1>10 DEF Edit, Contents
  <2> QED
    BY <1>5, <1>10, <2>1, ChangeInv DEF Edit, Changes
<1>11. ASSUME NEW e \in Edits, Stream(e) PROVE IInv'
  BY <1>5, <1>6, <1>11, ChangeInv DEF Stream, Changes
<1>12. CASE Flush
  <2>1. content \cup streamed \in Contents /\ latest \cup streamed \in Contents
    BY <1>5, <1>6, <1>12 DEF Flush, Contents
  <2> DEFINE x == content \cup streamed
  <2>2. /\ session' = [session EXCEPT !.content = x, !.streamed = {}] /\ saving' = Saved(x) /\ Registered
        /\ UNCHANGED <<loadVars, closing, writing, row, client, uses, opens, leaked, faults>>
    BY <1>12 DEF Flush, Changes
  <2>3. latest' \in Contents /\ (content = latest => latest' = x) /\ {} \in SUBSET Edits
    BY <1>12, <2>1 DEF Flush
  <2> HIDE DEF x, content, streamed
  <2>4. x \in Contents
    BY <2>1 DEF x
  <2> QED
    BY <2>2, <2>3, <2>4, ChangeInv DEF content
<1>13. CASE Truncate
  <2>1. PICK S \in SUBSET (content \cap Edits) : latest' = latest \ S /\ Changes(content \ S, {})
    BY <1>13 DEF Truncate
  <2>2. content \ S \in Contents /\ latest \ S \in Contents
    BY <1>5, <1>6, <1>13 DEF Truncate, Contents
  <2> QED
    BY <1>5, <1>13, <2>1, <2>2, ChangeInv DEF Truncate, Changes
<1>14. ASSUME NEW d \in Drafts, SetDraftPrompt(d) PROVE IInv'
  <2>1. content \cup {d} \in Contents /\ latest \cup {d} \in Contents
    BY <1>5, <1>6, <1>14 DEF SetDraftPrompt, Contents
  <2>2. session' = [session EXCEPT !.content = content \cup {d}, !.streamed = streamed]
    BY <1>5, <1>14 DEF SetDraftPrompt, Sessions
  <2> QED
    BY <1>5, <1>14, <2>1, <2>2, ChangeInv DEF SetDraftPrompt, saveVars
<1>15. CASE ScheduledSave
  BY <1>5, <1>6, <1>15, ChangeInv DEF ScheduledSave, Changes
<1>7. CASE Load
  <2>1. CASE ReadRow
    BY <2>1, ReadRowInv
  <2>2. CASE Register
    BY <2>2, RegisterInv
  <2>3. CASE LoadFails \/ ReplayEnds \/ ReplayFails
    <3>1. References'
      BY <1>7, LoadRefs DEF IInv
    <3> QED
      BY <2>3, <3>1, ChangesKept DEF LoadFails, ReplayEnds, ReplayFails, Registered
  <2> QED
    BY <1>7, <2>1, <2>2, <2>3 DEF Load
<1>8. CASE BeginWrite
  BY <1>8, BeginWriteInv
<1>9. CASE EndWrite
  BY <1>9, EndWriteInv
<1> QED
  BY <1>1, <1>2, <1>3, <1>4, <1>7, <1>8, <1>9, <1>10, <1>11, <1>12, <1>13, <1>14, <1>15 DEF Next

\* The invariant holds in every state of every behaviour
THEOREM Invariance == Spec => []IInv
BY InitInv, StepInv, PTL DEF Spec

\* The reference counts of sessions and pending_sessions are exact, for any
\* number of views and summaries that open, join, abandon and close
THEOREM ReferencesAreExact == Spec => []ReferencesExact
<1>1. IInv => ReferencesExact
  BY DEF IInv, References
<1> QED
  BY <1>1, Invariance, PTL

\* save_thread, close_session and the database keep the thread as it was after the
\* last change of its messages, title or draft, unless a row is read early, two
\* writes overlap, a write fails or the thread has become empty.  What was still
\* streamed into pending_message at the last close is no such change
THEOREM ChangesAreKept == Spec => []NothingLost
<1>1. ASSUME IInv PROVE NothingLost
  <2> SUFFICES ASSUME faults = {}, ~IsEmpty(latest) PROVE SomewhereKept
    BY DEF NothingLost
  <2>1. CASE Registered
    BY <1>1, <2>1 DEF IInv, AllChanges, SomewhereKept, Kept
  <2>2. CASE loader = "read"
    BY <1>1, <2>2 DEF IInv, AllChanges, SomewhereKept, Kept
  <2>3. CASE ~Registered /\ loader # "read"
    <3>1. latest # NoThread
      BY <1>1, NoThreadAssumption DEF IInv, SavesTyped
    <3> QED
      BY <1>1, <2>3, <3>1 DEF IInv, AllChanges, SomewhereKept, Kept
  <2> QED
    BY <2>1, <2>2, <2>3
<1> QED
  BY <1>1, Invariance, PTL
=============================================================================
