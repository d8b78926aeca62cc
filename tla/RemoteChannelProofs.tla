------------------------- MODULE RemoteChannelProofs ------------------------
(***************************************************************************)
(* Invariants of RemoteChannel, and the refinement of ReliableChannel, for *)
(* any number of messages and of lost connections.                         *)
(***************************************************************************)
EXTENDS RemoteChannel, SequenceTheorems, WellFoundedInduction, TLAPS

Envelope == [kind : {"data", "flush", "ack", "started"}, id : Nat, ack : Nat \cup {None},
             re : Nat \cup {None}, n : Nat]

Typed ==
  /\ next \in [Sides -> Nat] /\ maxReceived \in [Sides -> Nat] /\ sent \in [Sides -> Nat]
  /\ buffer \in [Sides -> Seq(Envelope)] /\ wire \in [Sides -> Seq(Envelope)]
  /\ got \in [Sides -> Seq(Nat)]
  /\ settled \in [Sides -> BOOLEAN] /\ spoiled \in [Sides -> BOOLEAN]
  /\ link \in {"up", "down"} /\ flush \in Nat \cup {None} /\ resending \in BOOLEAN
  /\ breaks \in Nat

\* Envelopes that a receiver counts in max_received
Counts(x) == x.kind \in {"data", "ack"}

\* The numbers and ids of a sender with next id nx that has sent st messages: w is
\* the wire to its peer, b its buffer.  Ids grow with the numbers, the buffer is
\* sorted, and an answer shares its id with no message.
Genuine(x, nx, st) ==
  /\ x.kind = "data" => x.n \in 1..st
  /\ x.kind # "data" => x.n = 0
  /\ Counts(x) => x.id < nx
InStep(x, y) ==
  /\ x.n < y.n /\ y.kind = "data" => x.id < y.id
  /\ y.n < x.n /\ y.kind = "data" => y.id < x.id
  /\ y.kind = "ack" => x.id # y.id
Numbered(w, b, nx, st) ==
  /\ \A i \in 1..Len(w) : Genuine(w[i], nx, st)
  /\ \A k \in 1..Len(b) : b[k].kind = "data" /\ Genuine(b[k], nx, st)
  /\ \A j, k \in 1..Len(b) : j < k => b[j].id < b[k].id
  /\ \A i \in 1..Len(w), k \in 1..Len(b) : InStep(b[k], w[i])
  /\ \A j, k \in 1..Len(b) : InStep(b[k], b[j])

\* Everything on the wire that counts is preceded by the buffered messages before it
Ordered(w, b, g) ==
  \A i \in 1..Len(w), k \in 1..Len(b) :
    Counts(w[i]) /\ b[k].id < w[i].id /\ b[k].n \notin Range(g) =>
      \E j \in 1..(i - 1) : w[j].n = b[k].n

\* Every message is delivered or buffered
Retained(b, g, st) == \A n \in 1..st : n \in Range(g) \/ \E k \in 1..Len(b) : b[k].n = n

\* An acknowledgement covers only delivered messages
Covered(b, g, a) == \A k \in 1..Len(b) : b[k].id <= a => b[k].n \in Range(g)

\* Acknowledgements cover only ids that were given out; before it has received
\* anything the server acknowledges 0, which is never a message of the client
Given(s, a) == a < next[s] \/ (s = "client" /\ a = 0)

\* The acknowledgements of messages of s: under way, in the copies its peer keeps
\* for a resend, and the one its peer would send now
Acks(q) == {q[i].ack : i \in 1..Len(q)} \ {None}
Acknowledged(s) ==
  Acks(wire[s]) \cup Acks(buffer[Peer(s)])
    \cup {a \in {maxReceived[Peer(s)]} : Opened \/ s = "client"}

AcksGiven(s) == \A a \in Acknowledged(s) : Given(s, a)
AcksCover(s) == \A a \in Acknowledged(s) : Covered(buffer[s], got[Peer(s)], a)

Unspoiled(s) ==
  /\ Ordered(wire[Peer(s)], buffer[s], got[Peer(s)])
  /\ Retained(buffer[s], got[Peer(s)], sent[s])
  /\ AcksCover(s)

\* What holds of the messages from s to its peer
Direction(s) ==
  /\ Numbered(wire[Peer(s)], buffer[s], next[s], sent[s])
  /\ AcksGiven(s)
  /\ ~spoiled[s] => Unspoiled(s)

NoFlush(q) == \A i \in 1..Len(q) : q[i].kind # "flush"

\* Before the ping of RemoteClient::new was answered the client has sent nothing,
\* and it has answered the server before it gets there; only the client flushes
Opening ==
  /\ ~Opened => buffer["client"] = <<>> /\ sent["client"] = 0 /\ Acks(wire["server"]) = {}
  /\ Opened => next["client"] > 0
  /\ breaks = 0 /\ next["client"] = 0 =>
       wire["client"] # <<>> /\ wire["client"][1].kind = "started"
  /\ NoFlush(wire["client"])

\* What is not acknowledged is under way or delivered
UnderWay(s) == Numbers(buffer[s]) \subseteq Numbers(wire[Peer(s)]) \cup Range(got[Peer(s)])
InFlight ==
  /\ \A s \in Sides : (settled[s] \/ breaks = 0) => UnderWay(s)
  /\ (settled["client"] \/ breaks = 0) => link = "up"

Core ==
  /\ Typed /\ Opening /\ InFlight
  /\ \A s \in Sides : Direction(s)

\* resync() runs only after a connection was lost
Idle == breaks = 0 => flush = None /\ ~resending

\* The inductive invariant
IInv == Core /\ Idle

-----------------------------------------------------------------------------
\* A non-empty set of naturals has a least member
LEMMA LeastExists ==
  ASSUME NEW T, T \subseteq Nat, T # {}
  PROVE  Min(T) \in T /\ \A y \in T : Min(T) <= y
<1>1. PICK x \in T : \A y \in T : <<y, x>> \notin OpToRel(<, Nat)
  BY NatLessThanWellFounded, WFMin
<1>2. \A a, b \in Nat : a < b => <<a, b>> \in OpToRel(<, Nat)
  BY Zenon DEF OpToRel
<1>3. \A y \in T : ~(y < x) /\ x \in Nat /\ y \in Nat
  BY <1>1, <1>2, Zenon
<1>4. \E z \in T : \A y \in T : z <= y
  BY <1>3
<1> QED
  BY <1>4 DEF Min

\* The fields of envelopes
LEMMA Fields ==
  ASSUME NEW b \in Seq(Envelope), NEW k \in 1..Len(b)
  PROVE  /\ b[k] \in Envelope /\ b[k].id \in Nat /\ b[k].n \in Nat /\ b[k].ack \in Nat \cup {None}
         /\ b[k].kind \in {"data", "flush", "ack", "started"}
<1>1. b[k] \in Envelope
  OBVIOUS
<1> QED
  BY <1>1 DEF Envelope

\* u is b without its first d elements
Suffix(u, b, d) ==
  /\ u \in Seq(Envelope) /\ d \in 0..Len(b) /\ Len(u) = Len(b) - d
  /\ \A k \in 1..Len(u) : u[k] = b[k + d]

\* What an acknowledgement leaves of a buffer, and what it releases
LEMMA UnacknowledgedIsSuffix ==
  ASSUME NEW b \in Seq(Envelope), NEW a \in Nat \cup {None}
  PROVE  \E d \in 0..Len(b) : /\ Suffix(Unacknowledged(b, a), b, d)
                             /\ \A k \in 1..d : a # None /\ b[k].id <= a
<1> DEFINE I == {i \in 1..Len(b) : b[i].id > a}
           first == IF I # {} THEN Min(I) ELSE 0
<1>1. Len(b) \in Nat /\ \A k \in 1..Len(b) : b[k] \in Envelope /\ b[k].id \in Nat
  BY Fields
<1>2. CASE a = None
  <2>1. Unacknowledged(b, a) = b
    BY <1>2 DEF Unacknowledged
  <2>2. Suffix(b, b, 0)
    BY <1>1 DEF Suffix
  <2> QED
    BY <1>1, <2>1, <2>2
<1>3. CASE a # None
  <2>1. a \in Nat
    BY <1>3
  <2>2. Unacknowledged(b, a) = IF first = 0 THEN <<>> ELSE SubSeq(b, first, Len(b))
    BY <1>3 DEF Unacknowledged, SelectInSeq
  <2>3. CASE I = {}
    <3>1. Unacknowledged(b, a) = <<>>
      BY <2>2, <2>3
    <3>2. Suffix(<<>>, b, Len(b))
      BY <1>1 DEF Suffix
    <3>3. \A k \in 1..Len(b) : b[k].id <= a
      BY <1>1, <2>1, <2>3
    <3> QED
      BY <1>1, <1>3, <3>1, <3>2, <3>3
  <2>4. CASE I # {}
    <3>1. I \subseteq Nat
      OBVIOUS
    <3>2. Min(I) \in I /\ \A y \in I : Min(I) <= y
      BY <2>4, <3>1, LeastExists
    <3> HIDE DEF I
    <3>3. first \in 1..Len(b) /\ \A y \in I : first <= y
      BY <2>4, <3>2 DEF I
    <3>4. Unacknowledged(b, a) = SubSeq(b, first, Len(b))
      BY <2>2, <3>3
    <3> HIDE DEF first
    <3>5. \A i \in first..Len(b) : b[i] \in Envelope
      BY <1>1, <3>3
    <3>6. /\ SubSeq(b, first, Len(b)) \in Seq(Envelope)
          /\ Len(SubSeq(b, first, Len(b))) = Len(b) - (first - 1)
          /\ \A k \in 1..(Len(b) - (first - 1)) : SubSeq(b, first, Len(b))[k] = b[k + (first - 1)]
      BY <1>1, <3>3, <3>5, SubSeqProperties
    <3>7. Suffix(SubSeq(b, first, Len(b)), b, first - 1)
      BY <1>1, <3>3, <3>6 DEF Suffix
    <3>8. \A k \in 1..(first - 1) : b[k].id <= a
      BY <1>1, <2>1, <3>3 DEF I
    <3> QED
      BY <1>1, <1>3, <3>3, <3>4, <3>7, <3>8
  <2> QED
    BY <2>3, <2>4
<1> QED
  BY <1>2, <1>3

\* Elements of a concatenation
LEMMA Concat ==
  ASSUME NEW w \in Seq(Envelope), NEW e \in Seq(Envelope)
  PROVE  /\ w \o e \in Seq(Envelope) /\ Len(w \o e) = Len(w) + Len(e)
         /\ \A i \in 1..Len(w) : (w \o e)[i] = w[i]
         /\ \A i \in 1..Len(e) : (w \o e)[Len(w) + i] = e[i]
         /\ \A i \in 1..(Len(w) + Len(e)) : i \in 1..Len(w) \/ i - Len(w) \in 1..Len(e)
<1>1. /\ w \o e \in Seq(Envelope) /\ Len(w \o e) = Len(w) + Len(e)
      /\ \A i \in 1..Len(w) + Len(e) : (w \o e)[i] = IF i <= Len(w) THEN w[i] ELSE e[i - Len(w)]
  BY ConcatProperties
<1>2. Len(w) \in Nat /\ Len(e) \in Nat
  OBVIOUS
<1>3. \A i \in 1..Len(e) : Len(w) + i \in 1..(Len(w) + Len(e)) /\ ~(Len(w) + i <= Len(w)) /\ (Len(w) + i) - Len(w) = i
  BY <1>2
<1>4. \A i \in 1..Len(w) : i \in 1..(Len(w) + Len(e)) /\ i <= Len(w)
  BY <1>2
<1> QED
  BY <1>1, <1>2, <1>3, <1>4

\* An envelope of a concatenation is one of the first or of the second part
LEMMA ConcatElements ==
  ASSUME NEW w \in Seq(Envelope), NEW e \in Seq(Envelope)
  PROVE  \A i \in 1..Len(w \o e) : \/ i \in 1..Len(w) /\ (w \o e)[i] = w[i]
                                   \/ \E j \in 1..Len(e) : i = Len(w) + j /\ (w \o e)[i] = e[j]
<1> TAKE i \in 1..Len(w \o e)
<1>1. CASE i \in 1..Len(w)
  BY <1>1, Concat
<1>2. CASE i - Len(w) \in 1..Len(e)
  <2>1. PICK j \in 1..Len(e) : i = Len(w) + j
    <3>1. i = Len(w) + (i - Len(w))
      OBVIOUS
    <3> QED
      BY <1>2, <3>1
  <2>2. (w \o e)[Len(w) + j] = e[j]
    BY Concat, ZenonT(30)
  <2> QED
    BY <2>1, <2>2, ZenonT(30)
<1> QED
  BY <1>1, <1>2, Concat

\* Acknowledgements of concatenations and of parts
LEMMA ConcatAcks ==
  ASSUME NEW w \in Seq(Envelope), NEW e \in Seq(Envelope)
  PROVE  Acks(w \o e) = Acks(w) \cup Acks(e)
<1> DEFINE v == w \o e
<1>1. \A i \in 1..Len(v) : \/ i \in 1..Len(w) /\ v[i] = w[i]
                           \/ \E j \in 1..Len(e) : i = Len(w) + j /\ v[i] = e[j]
  BY ConcatElements, ZenonT(30)
<1>2. /\ \A i \in 1..Len(w) : i \in 1..Len(v) /\ v[i] = w[i]
      /\ \A i \in 1..Len(e) : Len(w) + i \in 1..Len(v) /\ v[Len(w) + i] = e[i]
  BY Concat
<1> HIDE DEF v
<1>3. Acks(v) \subseteq Acks(w) \cup Acks(e)
  <2> SUFFICES ASSUME NEW i \in 1..Len(v), v[i].ack # None
               PROVE  v[i].ack \in Acks(w) \cup Acks(e)
    BY DEF Acks
  <2> QED
    BY <1>1 DEF Acks
<1>4. Acks(w) \subseteq Acks(v)
  BY <1>2, Zenon DEF Acks
<1>5. Acks(e) \subseteq Acks(v)
  BY <1>2, Zenon DEF Acks
<1> QED
  BY <1>3, <1>4, <1>5 DEF v

\* A part of a sequence carries no other acknowledgements
LEMMA PartAcks ==
  ASSUME NEW v, NEW w, \A i \in 1..Len(v) : \E j \in 1..Len(w) : v[i] = w[j]
  PROVE  Acks(v) \subseteq Acks(w)
BY DEF Acks

\* No flush in either part, none in the whole
LEMMA ConcatNoFlush ==
  ASSUME NEW w \in Seq(Envelope), NEW e \in Seq(Envelope), NoFlush(w), NoFlush(e)
  PROVE  NoFlush(w \o e)
<1> DEFINE v == w \o e
<1>1. \A i \in 1..Len(v) : \/ i \in 1..Len(w) /\ v[i] = w[i]
                           \/ \E j \in 1..Len(e) : i = Len(w) + j /\ v[i] = e[j]
  BY ConcatElements, ZenonT(30)
<1> HIDE DEF v
<1>2. NoFlush(v)
  BY <1>1 DEF NoFlush
<1> QED
  BY <1>2 DEF v

\* No flush in the whole, none in a part
LEMMA PartNoFlush ==
  ASSUME NEW v, NEW w, \A i \in 1..Len(v) : \E j \in 1..Len(w) : v[i] = w[j], NoFlush(w)
  PROVE  NoFlush(v)
BY DEF NoFlush

-----------------------------------------------------------------------------
\* What the sender's bookkeeping keeps through
\* a buffer that loses its front,
LEMMA SuffixKeeps ==
  ASSUME NEW w \in Seq(Envelope), NEW b \in Seq(Envelope), NEW g, NEW nx, NEW st,
         NEW u, NEW d, Suffix(u, b, d)
  PROVE  /\ Numbered(w, b, nx, st) => Numbered(w, u, nx, st)
         /\ Ordered(w, b, g) => Ordered(w, u, g)
         /\ \A a : Covered(b, g, a) => Covered(u, g, a)
<1>1. \A k \in 1..Len(u) : k + d \in 1..Len(b) /\ u[k] = b[k + d] /\ k \in Int /\ d \in Int
  BY DEF Suffix
<1>2. \A j, k \in 1..Len(u) : j < k => j + d < k + d
  BY <1>1
<1>3. Numbered(w, b, nx, st) => Numbered(w, u, nx, st)
  BY <1>1, <1>2 DEF Numbered
<1>4. Ordered(w, b, g) => Ordered(w, u, g)
  BY <1>1 DEF Ordered
<1>5. \A a : Covered(b, g, a) => Covered(u, g, a)
  BY <1>1 DEF Covered
<1> QED
  BY <1>3, <1>4, <1>5

\* a wire that loses some of its envelopes,
LEMMA FewerNumbered ==
  ASSUME NEW w \in Seq(Envelope), NEW v \in Seq(Envelope), NEW b, NEW nx, NEW st,
         \A i \in 1..Len(v) : \E j \in 1..Len(w) : v[i] = w[j], Numbered(w, b, nx, st)
  PROVE  Numbered(v, b, nx, st)
BY DEF Numbered

\* new envelopes,
LEMMA MoreNumbered ==
  ASSUME NEW w \in Seq(Envelope), NEW e \in Seq(Envelope), NEW b, NEW nx, NEW st,
         Numbered(w, b, nx, st), \A i \in 1..Len(e) : Genuine(e[i], nx, st),
         \A i \in 1..Len(e), k \in 1..Len(b) : InStep(b[k], e[i])
  PROVE  Numbered(w \o e, b, nx, st)
<1> DEFINE v == w \o e
<1>1. \A i \in 1..Len(v) : (i \in 1..Len(w) /\ v[i] = w[i]) \/ \E j \in 1..Len(e) : v[i] = e[j]
  <2>1. \A i \in 1..Len(v) : \/ i \in 1..Len(w) /\ v[i] = w[i]
                             \/ \E j \in 1..Len(e) : i = Len(w) + j /\ v[i] = e[j]
    BY ConcatElements, ZenonT(30)
  <2> HIDE DEF v
  <2> QED
    BY <2>1
<1> HIDE DEF v
<1>2. Numbered(v, b, nx, st)
  BY <1>1 DEF Numbered
<1> QED
  BY <1>2 DEF v

\* and higher bounds
LEMMA HigherNumbered ==
  ASSUME NEW w \in Seq(Envelope), NEW b \in Seq(Envelope), NEW nx \in Nat, NEW st \in Nat,
         NEW mx \in Nat, NEW rt \in Nat, nx <= mx, st <= rt, Numbered(w, b, nx, st)
  PROVE  Numbered(w, b, mx, rt)
<1>1. \A x \in Envelope : Genuine(x, nx, st) => Genuine(x, mx, rt)
  BY DEF Genuine, Envelope
<1>2. (\A i \in 1..Len(w) : w[i] \in Envelope) /\ (\A k \in 1..Len(b) : b[k] \in Envelope)
  OBVIOUS
<1> QED
  BY <1>1, <1>2 DEF Numbered

\* The order on the wire survives the receipt of its first envelope,
LEMMA PopOrdered ==
  ASSUME NEW w \in Seq(Envelope), w # <<>>, NEW b \in Seq(Envelope), NEW g, NEW f,
         Ordered(w, b, g), Range(g) \subseteq Range(f),
         \A k \in 1..Len(b) : b[k].n = w[1].n => b[k].n \in Range(f)
  PROVE  Ordered(Tail(w), b, f)
<1> DEFINE v == Tail(w)
<1>1. v \in Seq(Envelope) /\ Len(v) = Len(w) - 1 /\ Len(w) \in Nat /\ \A i \in 1..Len(v) : v[i] = w[i + 1]
  BY HeadTailProperties
<1> HIDE DEF v
<1>2. Ordered(v, b, f)
  <2> SUFFICES ASSUME NEW i \in 1..Len(v), NEW k \in 1..Len(b), Counts(v[i]),
                      b[k].id < v[i].id, b[k].n \notin Range(f)
               PROVE  \E j \in 1..(i - 1) : v[j].n = b[k].n
    BY DEF Ordered
  <2>1. i + 1 \in 1..Len(w) /\ v[i] = w[i + 1]
    BY <1>1
  <2>2. PICK j \in 1..((i + 1) - 1) : w[j].n = b[k].n
    BY <2>1 DEF Ordered
  <2>3. j # 1
    BY <2>2
  <2>4. j - 1 \in 1..(i - 1) /\ j - 1 \in 1..Len(v) /\ (j - 1) + 1 = j
    BY <1>1, <2>1, <2>3
  <2> QED
    BY <1>1, <2>2, <2>4
<1> QED
  BY <1>2 DEF v

\* a flush or an announcement behind it,
LEMMA PlainOrdered ==
  ASSUME NEW w \in Seq(Envelope), NEW e \in Seq(Envelope), NEW b, NEW g, Ordered(w, b, g),
         \A i \in 1..Len(e) : ~Counts(e[i])
  PROVE  Ordered(w \o e, b, g)
<1> DEFINE v == w \o e
<1>1. /\ Len(v) = Len(w) + Len(e) /\ \A i \in 1..Len(w) : v[i] = w[i]
      /\ \A i \in 1..Len(e) : v[Len(w) + i] = e[i]
      /\ \A i \in 1..(Len(w) + Len(e)) : i \in 1..Len(w) \/ i - Len(w) \in 1..Len(e)
  BY Concat
<1> HIDE DEF v
<1>2. \A i \in 1..Len(v) : Counts(v[i]) => i \in 1..Len(w)
  <2> TAKE i \in 1..Len(v)
  <2>1. CASE i - Len(w) \in 1..Len(e)
    <3>1. Len(w) + (i - Len(w)) = i
      OBVIOUS
    <3> QED
      BY <1>1, <2>1, <3>1
  <2> QED
    BY <1>1, <2>1
<1>3. Ordered(v, b, g)
  <2> SUFFICES ASSUME NEW i \in 1..Len(v), NEW k \in 1..Len(b), Counts(v[i]),
                      b[k].id < v[i].id, b[k].n \notin Range(g)
               PROVE  \E j \in 1..(i - 1) : v[j].n = b[k].n
    BY DEF Ordered
  <2>1. i \in 1..Len(w) /\ v[i] = w[i]
    BY <1>1, <1>2
  <2>2. PICK j \in 1..(i - 1) : w[j].n = b[k].n
    BY <2>1 DEF Ordered
  <2>3. j \in 1..Len(w)
    BY <2>1
  <2> QED
    BY <1>1, <2>2, <2>3
<1> QED
  BY <1>3 DEF v

\* and the whole buffer again, with or without an answer after it
LEMMA ResentOrdered ==
  ASSUME NEW w \in Seq(Envelope), NEW b \in Seq(Envelope), NEW e \in Seq(Envelope), NEW g,
         Ordered(w, b, g), \A j, k \in 1..Len(b) : j < k => b[j].id < b[k].id,
         Len(e) >= Len(b), Len(e) <= Len(b) + 1, \A k \in 1..Len(b) : e[k] = b[k]
  PROVE  Ordered(w \o e, b, g)
<1> DEFINE v == w \o e
<1>1. /\ Len(v) = Len(w) + Len(e) /\ \A i \in 1..Len(w) : v[i] = w[i]
      /\ \A i \in 1..Len(e) : v[Len(w) + i] = e[i]
      /\ \A i \in 1..(Len(w) + Len(e)) : i \in 1..Len(w) \/ i - Len(w) \in 1..Len(e)
  BY Concat
<1>2. Len(w) \in Nat /\ Len(e) \in Nat /\ Len(b) \in Nat
  OBVIOUS
<1>3. \A k \in 1..Len(b) : b[k].id \in Nat
  BY Fields
<1> HIDE DEF v
<1>4. Ordered(v, b, g)
  <2> SUFFICES ASSUME NEW i \in 1..Len(v), NEW k \in 1..Len(b), Counts(v[i]),
                      b[k].id < v[i].id, b[k].n \notin Range(g)
               PROVE  \E j \in 1..(i - 1) : v[j].n = b[k].n
    BY DEF Ordered
  <2>1. CASE i \in 1..Len(w)
    <3>1. v[i] = w[i]
      BY <1>1, <2>1
    <3>2. PICK j \in 1..(i - 1) : w[j].n = b[k].n
      BY <2>1, <3>1 DEF Ordered
    <3>3. j \in 1..Len(w)
      BY <2>1
    <3> QED
      BY <1>1, <3>2, <3>3
  <2>2. CASE i - Len(w) \in 1..Len(e)
    <3>1. PICK q \in 1..Len(e) : i = Len(w) + q /\ v[i] = e[q]
      <4>1. i = Len(w) + (i - Len(w))
        BY <1>1, <1>2, <2>2
      <4> QED
        BY <1>1, <2>2, <4>1
    <3>2. k < q
      <4>1. CASE q \in 1..Len(b)
        <5>1. b[k].id < b[q].id
          BY <3>1, <4>1
        <5>2. ~(q <= k)
          BY <1>2, <1>3, <4>1, <5>1
        <5> QED
          BY <1>2, <4>1, <5>2
      <4>2. CASE q \notin 1..Len(b)
        BY <1>2, <2>2, <4>2
      <4> QED
        BY <4>1, <4>2
    <3>3. Len(w) + k \in 1..(i - 1) /\ k \in 1..Len(e)
      BY <1>2, <3>1, <3>2
    <3>4. v[Len(w) + k] = b[k]
      BY <1>1, <3>3
    <3> QED
      BY <3>3, <3>4
  <2> QED
    BY <1>1, <2>1, <2>2
<1> QED
  BY <1>4 DEF v

-----------------------------------------------------------------------------
\* The two ends
LEMMA Peers ==
  ASSUME NEW s \in Sides
  PROVE  Peer(s) \in Sides /\ Peer(s) # s /\ Peer(Peer(s)) = s /\ Sides = {s, Peer(s)}
BY DEF Sides, Peer

\* What has been delivered when one more message is handled
LEMMA DeliveredAppend ==
  ASSUME NEW g \in Seq(Nat), NEW n \in Nat
  PROVE  Range(Append(g, n)) = Range(g) \cup {n}
<1>1. /\ Append(g, n) \in Seq(Nat) /\ Len(Append(g, n)) = Len(g) + 1
      /\ \A i \in 1..Len(g) : Append(g, n)[i] = g[i]
      /\ Append(g, n)[Len(g) + 1] = n
  BY AppendProperties
<1>2. DOMAIN g = 1..Len(g) /\ DOMAIN Append(g, n) = 1..(Len(g) + 1) /\ Len(g) \in Nat
  BY <1>1
<1>3. 1..(Len(g) + 1) = 1..Len(g) \cup {Len(g) + 1}
  BY <1>2
<1> HIDE DEF Sides
<1> QED
  BY <1>1, <1>2, <1>3 DEF Range

\* What the parts of the invariant say of the first envelope on a wire
LEMMA First ==
  ASSUME NEW w \in Seq(Envelope), w # <<>>
  PROVE  /\ Len(w) \in Nat /\ 1 \in 1..Len(w) /\ Head(w) = w[1] /\ Tail(w) \in Seq(Envelope)
         /\ Len(Tail(w)) = Len(w) - 1
         /\ \A i \in 1..Len(Tail(w)) : i + 1 \in 1..Len(w) /\ Tail(w)[i] = w[i + 1]
BY HeadTailProperties

\* A receipt moves the acknowledgement only to what covers delivered messages
LEMMA HeadCovers ==
  ASSUME NEW w \in Seq(Envelope), w # <<>>, NEW b \in Seq(Envelope), NEW g \in Seq(Nat),
         NEW nx, NEW st, Numbered(w, b, nx, st), Ordered(w, b, g), Counts(w[1]),
         NEW f, Range(g) \subseteq Range(f), w[1].kind = "data" => w[1].n \in Range(f)
  PROVE  Covered(b, f, w[1].id)
<1> SUFFICES ASSUME NEW k \in 1..Len(b), b[k].id <= w[1].id PROVE b[k].n \in Range(f)
  BY DEF Covered
<1>1. 1 \in 1..Len(w)
  BY First
<1>2. b[k].id \in Nat /\ b[k].n \in Nat /\ w[1].id \in Nat /\ w[1].n \in Nat
  BY <1>1, Fields
<1>3. CASE b[k].id < w[1].id
  BY <1>1, <1>3 DEF Ordered
<1>4. CASE b[k].id = w[1].id
  <2>1. InStep(b[k], w[1])
    BY <1>1 DEF Numbered
  <2>2. w[1].kind = "data" /\ b[k].n = w[1].n
    BY <1>2, <1>4, <2>1 DEF InStep, Counts
  <2> QED
    BY <2>2
<1> QED
  BY <1>2, <1>3, <1>4

\* Acknowledged ids are numbers
LEMMA AcknowledgedTyped ==
  ASSUME Typed, NEW s \in Sides
  PROVE  Acknowledged(s) \subseteq Nat
<1>1. wire[s] \in Seq(Envelope) /\ buffer[Peer(s)] \in Seq(Envelope) /\ maxReceived[Peer(s)] \in Nat
  BY Peers DEF Typed
<1>2. \A q \in Seq(Envelope) : Acks(q) \subseteq Nat
  BY Fields DEF Acks
<1> QED
  BY <1>1, <1>2 DEF Acknowledged

\* What a received acknowledgement releases was delivered
LEMMA ReleaseRetains ==
  ASSUME NEW b \in Seq(Envelope), NEW g, NEW st, NEW a, NEW u, NEW d, Suffix(u, b, d),
         Retained(b, g, st), \A k \in 1..d : b[k].id <= a, d > 0 => Covered(b, g, a)
  PROVE  Retained(u, g, st)
<1> SUFFICES ASSUME NEW n \in 1..st, n \notin Range(g)
             PROVE  \E k \in 1..Len(u) : u[k].n = n
  BY DEF Retained
<1>1. PICK k \in 1..Len(b) : b[k].n = n
  BY DEF Retained
<1>2. k \notin 1..d
  BY <1>1 DEF Covered, Suffix
<1>3. k - d \in 1..Len(u) /\ (k - d) + d = k
  BY <1>2 DEF Suffix
<1> QED
  BY <1>1, <1>3 DEF Suffix

\* A step of the receive loop of s: e is what s sends, nx the next id after it, f
\* what the handlers of s have seen then, and mr the newest id received
Received(s, e, nx, f, mr) ==
  /\ wire[s] # <<>>
  /\ buffer' = [buffer EXCEPT ![s] = Left(s)]
  /\ wire' = [wire EXCEPT ![s] = Tail(wire[s]), ![Peer(s)] = wire[Peer(s)] \o e]
  /\ next' = [next EXCEPT ![s] = nx] /\ sent' = sent
  /\ got' = [got EXCEPT ![s] = f] /\ maxReceived' = [maxReceived EXCEPT ![s] = mr]
  /\ f = IF Head(wire[s]).kind = "data" THEN Append(got[s], Head(wire[s]).n) ELSE got[s]
  /\ mr = IF Counts(Head(wire[s])) THEN Head(wire[s]).id ELSE maxReceived[s]

\* The two ends of the channel and the types of what they keep
LEMMA Ends ==
  ASSUME Typed, NEW s \in Sides, NEW p, p = Peer(s)
  PROVE  /\ p \in Sides /\ p # s /\ Peer(p) = s /\ Peer(s) = p /\ Sides = {s, p}
         /\ wire[s] \in Seq(Envelope) /\ wire[p] \in Seq(Envelope) /\ buffer[s] \in Seq(Envelope)
         /\ buffer[p] \in Seq(Envelope) /\ got[s] \in Seq(Nat) /\ got[p] \in Seq(Nat)
         /\ next[s] \in Nat /\ next[p] \in Nat /\ sent[s] \in Nat /\ sent[p] \in Nat
         /\ maxReceived[s] \in Nat /\ maxReceived[p] \in Nat
BY Peers DEF Typed

\* What handling an envelope changes at both ends
LEMMA Changes ==
  ASSUME Typed, NEW s \in Sides, NEW p, p = Peer(s), NEW h, h = Head(wire[s]), NEW u, u = Left(s),
         NEW e \in Seq(Envelope), NEW nx \in Nat, NEW f, NEW mr, Received(s, e, nx, f, mr)
  PROVE  /\ buffer'[s] = u /\ buffer'[p] = buffer[p] /\ wire'[s] = Tail(wire[s])
         /\ wire'[p] = wire[p] \o e /\ next'[s] = nx /\ next'[p] = next[p]
         /\ got'[s] = f /\ got'[p] = got[p] /\ maxReceived'[s] = mr
         /\ maxReceived'[p] = maxReceived[p] /\ sent' = sent /\ wire[s] # <<>>
<1>1. p \in Sides /\ p # s
  BY Ends
<1> QED
  BY <1>1 DEF Received, Typed

\* The envelope that is handled is the first on the wire
LEMMA Popped ==
  ASSUME Typed, NEW s \in Sides, wire[s] # <<>>, NEW h, h = Head(wire[s])
  PROVE  /\ 1 \in 1..Len(wire[s]) /\ h = wire[s][1] /\ h \in Envelope /\ h.id \in Nat /\ h.n \in Nat
         /\ h.ack \in Nat \cup {None}
<1>1. wire[s] \in Seq(Envelope)
  BY DEF Typed
<1>2. 1 \in 1..Len(wire[s]) /\ h = wire[s][1]
  BY <1>1, First
<1> QED
  BY <1>1, <1>2, Fields

\* An acknowledgement releases the front of the buffer, up to its id
LEMMA Released ==
  ASSUME Typed, NEW s \in Sides, wire[s] # <<>>, NEW h, h = Head(wire[s]), NEW u, u = Left(s)
  PROVE  /\ \E d \in 0..Len(buffer[s]) : /\ Suffix(u, buffer[s], d)
                                         /\ \A k \in 1..d : h.ack # None /\ buffer[s][k].id <= h.ack
         /\ u \in Seq(Envelope)
         /\ \A k \in 1..Len(u) : \E j \in 1..Len(buffer[s]) : u[k] = buffer[s][j]
<1>1. buffer[s] \in Seq(Envelope)
  BY DEF Typed
<1>2. PICK d \in 0..Len(buffer[s]) : /\ Suffix(u, buffer[s], d)
                                     /\ \A k \in 1..d : h.ack # None /\ buffer[s][k].id <= h.ack
  BY <1>1, Popped, UnacknowledgedIsSuffix DEF Left
<1>3. u \in Seq(Envelope) /\ \A k \in 1..Len(u) : \E j \in 1..Len(buffer[s]) : u[k] = buffer[s][j]
  BY <1>2 DEF Suffix
<1> QED
  BY <1>2, <1>3, Zenon

\* What is left is a part of the buffer
LEMMA LeftIsPart ==
  ASSUME Typed, NEW s \in Sides, wire[s] # <<>>
  PROVE  /\ Left(s) \in Seq(Envelope)
         /\ \A k \in 1..Len(Left(s)) : \E j \in 1..Len(buffer[s]) : Left(s)[k] = buffer[s][j]
BY Released

\* What such a step does to the directions
LEMMA Receive ==
  ASSUME Core, NEW s \in Sides, NEW p, p = Peer(s), NEW h, h = Head(wire[s]), NEW u, u = Left(s),
         NEW e \in Seq(Envelope), NEW nx \in Nat, nx >= next[s], NEW f, NEW mr,
         Received(s, e, nx, f, mr),
         \A i \in 1..Len(e) : Genuine(e[i], nx, sent[s]),
         \A i \in 1..Len(e), k \in 1..Len(u) : InStep(u[k], e[i]),
         Acks(e) \subseteq Acks(u),
         \A t \in Sides : spoiled[t] => spoiled'[t],
         ~spoiled'[s] => (Ordered(wire[p], u, got[p]) => Ordered(wire[p] \o e, u, got[p])),
         Opened => Opened', (Opened' /\ ~Opened) => (s = "client" /\ h.kind = "ack")
  PROVE  \A t \in Sides : Direction(t)'
<1> Typed
  BY DEF Core
<1>1. p \in Sides /\ p # s /\ Peer(p) = s /\ Peer(s) = p /\ Sides = {s, p}
  BY Peers
<1>2. /\ wire[s] \in Seq(Envelope) /\ wire[p] \in Seq(Envelope) /\ buffer[s] \in Seq(Envelope)
      /\ buffer[p] \in Seq(Envelope) /\ got[s] \in Seq(Nat) /\ got[p] \in Seq(Nat)
      /\ next[s] \in Nat /\ next[p] \in Nat /\ sent[s] \in Nat /\ sent[p] \in Nat
      /\ maxReceived[s] \in Nat /\ maxReceived[p] \in Nat /\ wire[s] # <<>> /\ sent' = sent
  BY Ends, Changes
<1>3. /\ buffer'[s] = u /\ buffer'[p] = buffer[p] /\ wire'[s] = Tail(wire[s])
      /\ wire'[p] = wire[p] \o e /\ next'[s] = nx /\ next'[p] = next[p]
      /\ got'[s] = f /\ got'[p] = got[p] /\ maxReceived'[s] = mr /\ maxReceived'[p] = maxReceived[p]
  BY <1>1 DEF Received, Typed
<1>4. /\ 1 \in 1..Len(wire[s]) /\ h = wire[s][1] /\ h \in Envelope /\ h.id \in Nat /\ h.n \in Nat
      /\ h.ack \in Nat \cup {None}
  BY <1>2, Popped
<1>5. PICK d \in 0..Len(buffer[s]) : /\ Suffix(u, buffer[s], d)
                                     /\ \A k \in 1..d : h.ack # None /\ buffer[s][k].id <= h.ack
  BY <1>2, Released
<1>6. u \in Seq(Envelope) /\ \A k \in 1..Len(u) : \E j \in 1..Len(buffer[s]) : u[k] = buffer[s][j]
  BY <1>5 DEF Suffix
<1>21. /\ f = IF h.kind = "data" THEN Append(got[s], h.n) ELSE got[s]
       /\ mr = IF Counts(h) THEN h.id ELSE maxReceived[s]
  BY DEF Received
<1>7. \A i \in 1..Len(Tail(wire[s])) : \E j \in 1..Len(wire[s]) : Tail(wire[s])[i] = wire[s][j]
  BY <1>2, First
<1>8. /\ Numbered(wire[p], buffer[s], next[s], sent[s]) /\ Numbered(wire[s], buffer[p], next[p], sent[p])
      /\ AcksGiven(s) /\ AcksGiven(p)
      /\ ~spoiled'[s] => Unspoiled(s)
      /\ ~spoiled'[p] => Unspoiled(p)
  BY <1>1 DEF Core, Direction
<1>9. Acks(u) \subseteq Acks(buffer[s]) /\ Acks(Tail(wire[s])) \subseteq Acks(wire[s])
  <2>1. Acks(u) \subseteq Acks(buffer[s])
    BY <1>6, PartAcks, ZenonT(60)
  <2>2. Acks(Tail(wire[s])) \subseteq Acks(wire[s])
    BY <1>7, PartAcks, Zenon
  <2> QED
    BY <2>1, <2>2
<1>10. Acks(wire[p] \o e) \subseteq Acks(wire[p]) \cup Acks(buffer[s])
  <2>1. Acks(wire[p] \o e) = Acks(wire[p]) \cup Acks(e)
    BY <1>2, ConcatAcks
  <2> QED
    BY <1>9, <2>1
<1>11. Acknowledged(s)' \subseteq Acknowledged(s)
  <2>1. Acknowledged(s)' = Acks(Tail(wire[s])) \cup Acks(buffer[p])
                             \cup {a \in {maxReceived[p]} : Opened' \/ s = "client"}
    BY <1>1, <1>3 DEF Acknowledged
  <2>2. Acknowledged(s) = Acks(wire[s]) \cup Acks(buffer[p])
                            \cup {a \in {maxReceived[p]} : Opened \/ s = "client"}
    BY <1>1 DEF Acknowledged
  <2> QED
    BY <1>9, <2>1, <2>2
<1>12. Acknowledged(p)' \subseteq Acknowledged(p) \cup {a \in {h.id} : Counts(h)}
  <2>1. Acknowledged(p)' = Acks(wire[p] \o e) \cup Acks(u)
                             \cup {a \in {mr} : Opened' \/ p = "client"}
    BY <1>1, <1>3 DEF Acknowledged
  <2>2. Acknowledged(p) = Acks(wire[p]) \cup Acks(buffer[s])
                            \cup {a \in {maxReceived[s]} : Opened \/ p = "client"}
    BY <1>1 DEF Acknowledged
  <2>3. {a \in {mr} : Opened' \/ p = "client"} \subseteq
          {a \in {maxReceived[s]} : Opened \/ p = "client"} \cup {a \in {h.id} : Counts(h)}
    BY <1>21 DEF Counts
  <2> QED
    BY <1>9, <1>10, <2>1, <2>2, <2>3
<1>13. Numbered(wire[p] \o e, u, nx, sent[s])
  <2>1. Numbered(wire[p], u, next[s], sent[s])
    BY <1>2, <1>5, <1>8, SuffixKeeps
  <2>2. next[s] <= nx /\ sent[s] <= sent[s]
    BY <1>2
  <2>3. Numbered(wire[p], u, nx, sent[s])
    BY <1>2, <1>6, <2>1, <2>2, HigherNumbered, Zenon
  <2> QED
    BY <1>2, <2>3, MoreNumbered
<1>14. Numbered(Tail(wire[s]), buffer[p], next[p], sent[p])
  BY <1>2, <1>7, <1>8, First, FewerNumbered
<1>15. Acknowledged(s) \subseteq Nat /\ Acknowledged(p) \subseteq Nat
  BY <1>1, AcknowledgedTyped DEF Core
<1>16. AcksGiven(s)'
  <2>1. \A a \in Nat : Given(s, a) => Given(s, a)'
    BY <1>2, <1>3 DEF Given
  <2> QED
    BY <1>8, <1>11, <1>15, <2>1 DEF AcksGiven
<1>17. AcksGiven(p)'
  <2>1. \A a : Given(p, a)' <=> Given(p, a)
    BY <1>3 DEF Given
  <2>2. Counts(h) => Given(p, h.id)
    BY <1>4, <1>8 DEF Numbered, Genuine, Given
  <2> QED
    BY <1>8, <1>12, <2>1, <2>2 DEF AcksGiven
<1>18. Range(got[s]) \subseteq Range(f) /\ (h.kind = "data" => h.n \in Range(f))
  <2>1. CASE h.kind = "data"
    <3>1. f = Append(got[s], h.n)
      BY <1>21, <2>1
    <3> QED
      <4>1. Range(Append(got[s], h.n)) = Range(got[s]) \cup {h.n}
        BY <1>2, <1>4, DeliveredAppend
      <4> HIDE DEF Range
      <4> QED
        BY <3>1, <4>1
  <2>2. CASE h.kind # "data"
    BY <1>21, <2>2
  <2> QED
    BY <2>1, <2>2
<1>19. ASSUME ~spoiled'[s] PROVE Unspoiled(s)'
  <2>1. Ordered(wire[p], buffer[s], got[p]) /\ Retained(buffer[s], got[p], sent[s]) /\ AcksCover(s)
    BY <1>1, <1>8, <1>19 DEF Unspoiled
  <2>2. Ordered(wire[p] \o e, u, got[p])
    <3>1. Ordered(wire[p], u, got[p])
      BY <1>2, <1>5, <2>1, SuffixKeeps
    <3> QED
      BY <1>19, <3>1
  <2>3. Retained(u, got[p], sent[s])
    <3>1. h.ack # None => h.ack \in Acknowledged(s)
      BY <1>4 DEF Acknowledged, Acks
    <3>2. d > 0 => Covered(buffer[s], got[p], h.ack)
      BY <1>1, <1>5, <2>1, <3>1 DEF AcksCover
    <3> QED
      BY <1>2, <1>5, <2>1, <3>2, ReleaseRetains
  <2>4. \A a : Covered(buffer[s], got[p], a) => Covered(u, got[p], a)
    BY <1>2, <1>5, SuffixKeeps
  <2>5. \A a \in Acknowledged(s)' : Covered(u, got[p], a)
    BY <1>1, <1>11, <2>1, <2>4 DEF AcksCover
  <2>6. AcksCover(s)'
    BY <1>1, <1>3, <2>5 DEF AcksCover
  <2> QED
    BY <1>1, <1>2, <1>3, <2>2, <2>3, <2>6 DEF Unspoiled
<1>20. ASSUME ~spoiled'[p] PROVE Unspoiled(p)'
  <2>1. Ordered(wire[s], buffer[p], got[s]) /\ Retained(buffer[p], got[s], sent[p]) /\ AcksCover(p)
    BY <1>1, <1>8, <1>20 DEF Unspoiled
  <2>2. \A k \in 1..Len(buffer[p]) : buffer[p][k].n = wire[s][1].n => buffer[p][k].n \in Range(f)
    <3> TAKE k \in 1..Len(buffer[p])
    <3>1. Genuine(h, next[p], sent[p]) /\ buffer[p][k].kind = "data" /\ Genuine(buffer[p][k], next[p], sent[p])
      BY <1>4, <1>8 DEF Numbered
    <3>2. buffer[p][k].n \in 1..sent[p] /\ (h.kind # "data" => h.n = 0)
      BY <3>1, Zenon DEF Genuine
    <3>3. buffer[p][k].n # 0
      BY <1>2, <3>2, SMTT(30)
    <3> QED
      BY <1>4, <1>18, <3>2, <3>3
  <2>3. Ordered(Tail(wire[s]), buffer[p], f)
    BY <1>2, <1>18, <2>1, <2>2, PopOrdered
  <2>4. Retained(buffer[p], f, sent[p])
    BY <1>18, <2>1 DEF Retained
  <2>5. \A a : Covered(buffer[p], got[s], a) => Covered(buffer[p], f, a)
    BY <1>18 DEF Covered
  <2>6. Counts(h) => Covered(buffer[p], f, h.id)
    BY <1>2, <1>4, <1>8, <1>18, <2>1, HeadCovers
  <2>7. \A a \in Acknowledged(p)' : Covered(buffer[p], f, a)
    BY <1>1, <1>12, <2>1, <2>5, <2>6 DEF AcksCover
  <2>8. AcksCover(p)'
    BY <1>1, <1>3, <2>7 DEF AcksCover
  <2> QED
    BY <1>1, <1>2, <1>3, <2>3, <2>4, <2>8 DEF Unspoiled
<1> QED
  BY <1>1, <1>2, <1>3, <1>13, <1>14, <1>16, <1>17, <1>19, <1>20 DEF Direction

-----------------------------------------------------------------------------
\* The numbers on a wire
LEMMA NumbersOf ==
  ASSUME NEW q \in Seq(Envelope), NEW n
  PROVE  n \in Numbers(q) <=> n # 0 /\ \E i \in 1..Len(q) : q[i].n = n
<1>1. DOMAIN q = 1..Len(q)
  OBVIOUS
<1> QED
  BY <1>1 DEF Numbers

\* The data on a wire that grows
LEMMA ConcatNumbers ==
  ASSUME NEW w \in Seq(Envelope), NEW e \in Seq(Envelope)
  PROVE  Numbers(w) \cup Numbers(e) \subseteq Numbers(w \o e)
<1> DEFINE v == w \o e
<1>1. v \in Seq(Envelope)
  BY Concat
<1>2. /\ \A i \in 1..Len(w) : i \in 1..Len(v) /\ v[i] = w[i]
      /\ \A i \in 1..Len(e) : Len(w) + i \in 1..Len(v) /\ v[Len(w) + i] = e[i]
  BY Concat
<1> HIDE DEF v
<1>3. \A n : n \in Numbers(w) => n \in Numbers(v)
  BY <1>1, <1>2, NumbersOf, SMTT(30)
<1>4. \A n : n \in Numbers(e) => n \in Numbers(v)
  BY <1>1, <1>2, NumbersOf
<1>5. Numbers(w) \cup Numbers(e) \subseteq Numbers(v)
  BY <1>3, <1>4
<1> QED
  BY <1>5 DEF v

\* The data in a part of a wire or a buffer
LEMMA PartNumbers ==
  ASSUME NEW v \in Seq(Envelope), NEW w \in Seq(Envelope),
         \A i \in 1..Len(v) : \E j \in 1..Len(w) : v[i] = w[j]
  PROVE  Numbers(v) \subseteq Numbers(w)
<1>1. \A n : n \in Numbers(v) => n \in Numbers(w)
  BY NumbersOf
<1> QED
  BY <1>1

\* The data on a wire whose first envelope is taken
LEMMA PopNumbers ==
  ASSUME NEW w \in Seq(Envelope), w # <<>>
  PROVE  Numbers(w) \subseteq Numbers(Tail(w)) \cup ({w[1].n} \ {0})
<1>1. Len(w) \in Nat /\ Tail(w) \in Seq(Envelope) /\ Len(Tail(w)) = Len(w) - 1
  BY First
<1>2. \A i \in 1..Len(Tail(w)) : Tail(w)[i] = w[i + 1]
  BY First
<1> DEFINE v == Tail(w)
<1> HIDE DEF v
<1> SUFFICES ASSUME NEW n \in Numbers(w), n # w[1].n PROVE n \in Numbers(v)
  BY NumbersOf DEF v
<1>3. n # 0 /\ \E i \in 1..Len(w) : w[i].n = n
  BY NumbersOf
<1>4. PICK i \in 1..Len(w) : w[i].n = n
  BY <1>3
<1>5. i # 1
  BY <1>4
<1>6. i - 1 \in 1..Len(v) /\ (i - 1) + 1 = i
  BY <1>1, <1>5 DEF v
<1>7. v[i - 1].n = n
  BY <1>2, <1>4, <1>6 DEF v
<1> QED
  BY <1>1, <1>3, <1>6, <1>7, NumbersOf DEF v

\* A wire that nothing overtakes is ordered
LEMMA NotOvertaken ==
  ASSUME NEW w \in Seq(Envelope), NEW b \in Seq(Envelope), NEW g,
         ~\E i \in DOMAIN w, m \in Range(b) :
            /\ w[i].kind \in {"data", "ack"} /\ m.id < w[i].id
            /\ m.n \notin Range(g) /\ \A j \in 1..(i - 1) : w[j].n # m.n
  PROVE  Ordered(w, b, g)
<1>1. DOMAIN w = 1..Len(w) /\ DOMAIN b = 1..Len(b)
  OBVIOUS
<1>2. \A k \in 1..Len(b) : b[k] \in Range(b)
  BY <1>1 DEF Range
<1> QED
  BY <1>1, <1>2 DEF Ordered, Counts

-----------------------------------------------------------------------------
\* What a step of the receive loop does to the rest of the state
LEMMA ReceivedTyped ==
  ASSUME Typed, NEW s \in Sides, NEW e \in Seq(Envelope), NEW nx \in Nat, NEW f, NEW mr,
         Received(s, e, nx, f, mr)
  PROVE  /\ next' \in [Sides -> Nat] /\ maxReceived' \in [Sides -> Nat] /\ sent' \in [Sides -> Nat]
         /\ buffer' \in [Sides -> Seq(Envelope)] /\ wire' \in [Sides -> Seq(Envelope)]
         /\ got' \in [Sides -> Seq(Nat)]
<1>1. wire[s] # <<>>
  BY DEF Received
<1>2. Left(s) \in Seq(Envelope)
  BY <1>1, Released
<1>3. wire[s] \in Seq(Envelope) /\ wire[Peer(s)] \in Seq(Envelope) /\ got[s] \in Seq(Nat) /\ maxReceived[s] \in Nat
  BY Ends
<1>4. Tail(wire[s]) \in Seq(Envelope) /\ wire[Peer(s)] \o e \in Seq(Envelope)
  BY <1>1, <1>3, First, Concat
<1>5. Head(wire[s]).n \in Nat /\ Head(wire[s]).id \in Nat
  BY <1>1, Popped
<1>6. f \in Seq(Nat)
  <2>1. Append(got[s], Head(wire[s]).n) \in Seq(Nat)
    BY <1>3, <1>5
  <2> QED
    BY <1>3, <2>1 DEF Received
<1>7. mr \in Nat
  BY <1>3, <1>5 DEF Received
<1>8. wire' \in [Sides -> Seq(Envelope)]
  BY <1>4 DEF Received, Typed
<1>9. buffer' \in [Sides -> Seq(Envelope)]
  BY <1>2 DEF Received, Typed
<1>10. got' \in [Sides -> Seq(Nat)]
  BY <1>6 DEF Received, Typed
<1>11. maxReceived' \in [Sides -> Nat] /\ next' \in [Sides -> Nat] /\ sent' \in [Sides -> Nat]
  BY <1>7 DEF Received, Typed
<1> QED
  BY <1>8, <1>9, <1>10, <1>11

\* nothing that was delivered or under way is lost,
LEMMA ReceivedUnderWay ==
  ASSUME Core, NEW s \in Sides, NEW e \in Seq(Envelope), NEW nx \in Nat, NEW f, NEW mr,
         Received(s, e, nx, f, mr), NEW t \in Sides, UnderWay(t)
  PROVE  UnderWay(t)'
<1> DEFINE p == Peer(s)
           h == Head(wire[s])
           u == Left(s)
<1> Typed
  BY DEF Core
<1>1. p \in Sides /\ Peer(p) = s /\ Peer(s) = p /\ Sides = {s, p}
  BY Peers
<1>2. /\ buffer'[s] = u /\ buffer'[p] = buffer[p] /\ wire'[s] = Tail(wire[s])
      /\ wire'[p] = wire[p] \o e /\ got'[s] = f /\ got'[p] = got[p] /\ wire[s] # <<>>
  BY Changes
<1>3. /\ wire[s] \in Seq(Envelope) /\ wire[p] \in Seq(Envelope) /\ buffer[s] \in Seq(Envelope)
      /\ got[s] \in Seq(Nat) /\ next[p] \in Nat /\ sent[p] \in Nat
  BY <1>1 DEF Typed
<1>4. h = wire[s][1] /\ 1 \in 1..Len(wire[s]) /\ h.n \in Nat
  BY <1>2, Popped
<1>5. CASE t = s
  <2>1. Numbers(u) \subseteq Numbers(buffer[s])
    <3>1. u \in Seq(Envelope) /\ \A k \in 1..Len(u) : \E j \in 1..Len(buffer[s]) : u[k] = buffer[s][j]
      BY <1>2, Released, SMTT(30)
    <3> HIDE DEF u
    <3> QED
      BY <1>3, <3>1, PartNumbers
  <2>2. Numbers(wire[p]) \subseteq Numbers(wire[p] \o e)
    BY <1>3, ConcatNumbers
  <2>3. Numbers(buffer[s]) \subseteq Numbers(wire[p]) \cup Range(got[p])
    BY <1>1, <1>5 DEF UnderWay
  <2> HIDE DEF p, u
  <2>4. Numbers(u) \subseteq Numbers(wire[p] \o e) \cup Range(got[p])
    BY <2>1, <2>2, <2>3
  <2> QED
    BY <1>1, <1>2, <1>5, <2>4 DEF UnderWay
<1>6. CASE t = p
  <2>1. Numbers(wire[s]) \subseteq Numbers(Tail(wire[s])) \cup ({h.n} \ {0})
    BY <1>2, <1>3, <1>4, PopNumbers
  <2>2. h.kind # "data" => h.n = 0
    BY <1>1, <1>4 DEF Core, Direction, Numbered, Genuine
  <2>3. Range(got[s]) \cup ({h.n} \ {0}) \subseteq Range(f)
    <3>1. CASE h.kind = "data"
      <4>1. f = Append(got[s], h.n)
        BY <3>1 DEF Received
      <4>2. Range(Append(got[s], h.n)) = Range(got[s]) \cup {h.n}
        BY <1>3, <1>4, DeliveredAppend
      <4> QED
        BY <4>1, <4>2
    <3>2. CASE h.kind # "data"
      BY <2>2, <3>2 DEF Received
    <3> QED
      BY <3>1, <3>2
  <2>4. Numbers(buffer[p]) \subseteq Numbers(wire[s]) \cup Range(got[s])
    BY <1>1, <1>6 DEF UnderWay
  <2> HIDE DEF p, h
  <2>5. Numbers(buffer[p]) \subseteq Numbers(Tail(wire[s])) \cup Range(f)
    BY <2>1, <2>3, <2>4
  <2> QED
    BY <1>1, <1>2, <1>6, <2>5 DEF UnderWay
<1> QED
  BY <1>1, <1>5, <1>6

\* and the opening of the connection goes as described
LEMMA ReceivedOpening ==
  ASSUME Core, NEW s \in Sides, NEW e \in Seq(Envelope), NEW nx \in Nat, nx >= next[s], NEW f, NEW mr,
         Received(s, e, nx, f, mr), breaks' = breaks, Acks(e) \subseteq Acks(Left(s)),
         Opened => Opened', (Opened' /\ ~Opened) => (s = "client" /\ Head(wire[s]).kind = "ack"),
         Head(wire[s]).kind = "started" => nx > next[s],
         NoFlush(e)
  PROVE  Opening'
<1> DEFINE p == Peer(s)
           h == Head(wire[s])
           u == Left(s)
<1> Typed /\ Opening
  BY DEF Core
<1>1. p \in Sides /\ Peer(p) = s /\ Peer(s) = p /\ Sides = {s, p} /\ Sides = {"client", "server"}
  BY Peers DEF Sides
<1>2. /\ buffer'[s] = u /\ buffer'[p] = buffer[p] /\ wire'[s] = Tail(wire[s])
      /\ wire'[p] = wire[p] \o e /\ next'[s] = nx /\ next'[p] = next[p] /\ sent' = sent
      /\ wire[s] # <<>>
  BY Changes
<1>3. /\ wire[s] \in Seq(Envelope) /\ wire[p] \in Seq(Envelope) /\ buffer[s] \in Seq(Envelope)
      /\ next["client"] \in Nat /\ breaks \in Nat /\ next[s] \in Nat
  BY <1>1 DEF Typed
<1>4. h = wire[s][1] /\ 1 \in 1..Len(wire[s])
  BY <1>2, Popped
<1>5. u \in Seq(Envelope) /\ \A k \in 1..Len(u) : \E j \in 1..Len(buffer[s]) : u[k] = buffer[s][j]
  BY <1>2, LeftIsPart
<1>6. Acks(wire'[s]) \subseteq Acks(wire[s]) /\ Acks(wire'[p]) \subseteq Acks(wire[p]) \cup Acks(buffer[s])
  <2>1. \A i \in 1..Len(Tail(wire[s])) : \E j \in 1..Len(wire[s]) : Tail(wire[s])[i] = wire[s][j]
    BY <1>2, <1>3, First
  <2>2. Acks(Tail(wire[s])) \subseteq Acks(wire[s])
    BY <2>1, PartAcks, Zenon
  <2>3. Acks(u) \subseteq Acks(buffer[s])
    BY <1>5, PartAcks, Zenon
  <2>4. Acks(wire[p] \o e) = Acks(wire[p]) \cup Acks(e)
    BY <1>3, ConcatAcks
  <2> QED
    BY <1>2, <2>2, <2>3, <2>4
<1>7. ~Opened' => buffer'["client"] = <<>> /\ sent'["client"] = 0 /\ Acks(wire'["server"]) = {}
  <2> SUFFICES ASSUME ~Opened'
               PROVE  buffer'["client"] = <<>> /\ sent'["client"] = 0 /\ Acks(wire'["server"]) = {}
    OBVIOUS
  <2>1. buffer["client"] = <<>> /\ sent["client"] = 0 /\ Acks(wire["server"]) = {}
    BY DEF Opening
  <2>2. CASE s = "client"
    <3>1. Len(u) = 0
      BY <1>5, <2>1, <2>2
    <3>2. u = <<>>
      BY <1>5, <3>1
    <3>3. p = "server" /\ Acks(buffer[s]) = {}
      BY <2>1, <2>2 DEF Peer, Acks
    <3> QED
      BY <1>2, <1>6, <2>1, <2>2, <3>2, <3>3
  <2>3. CASE s = "server"
    <3>1. p = "client"
      BY <2>3 DEF Peer
    <3> QED
      BY <1>2, <1>6, <2>1, <2>3, <3>1
  <2> QED
    BY <1>1, <2>2, <2>3
<1>8. next'["client"] \in Nat /\ next'["client"] >= next["client"]
  <2>1. CASE s = "client"
    BY <1>2, <1>3, <2>1
  <2>2. CASE p = "client"
    BY <1>2, <1>3, <2>2
  <2> QED
    BY <1>1, <2>1, <2>2
<1>9. Opened' => next'["client"] > 0
  <2>1. CASE Opened
    BY <1>3, <1>8, <2>1 DEF Opening
  <2>2. CASE Opened' /\ ~Opened
    <3>1. s = "client" /\ h.kind = "ack" /\ breaks = 0
      BY <1>3, <2>2 DEF Opened
    <3>2. next["client"] # 0
      BY <1>4, <3>1 DEF Opening
    <3> QED
      BY <1>3, <1>8, <3>2
  <2> QED
    BY <2>1, <2>2
<1>10. breaks' = 0 /\ next'["client"] = 0 =>
         wire'["client"] # <<>> /\ wire'["client"][1].kind = "started"
  <2> SUFFICES ASSUME breaks' = 0, next'["client"] = 0
               PROVE  wire'["client"] # <<>> /\ wire'["client"][1].kind = "started"
    OBVIOUS
  <2>1. breaks = 0 /\ next["client"] = 0
    BY <1>3, <1>8
  <2>2. wire["client"] # <<>> /\ wire["client"][1].kind = "started"
    BY <2>1 DEF Opening
  <2>3. s # "client"
    BY <1>2, <1>3, <1>4, <2>1, <2>2
  <2>4. p = "client"
    BY <1>1, <2>3
  <2>5. wire[p] # <<>> /\ Len(wire[p]) \in Nat
    BY <1>3, <2>2, <2>4
  <2>6. 1 \in 1..Len(wire[p])
    BY <1>3, <2>5
  <2>7. (wire[p] \o e)[1] = wire[p][1] /\ Len(wire[p] \o e) = Len(wire[p]) + Len(e) /\ Len(e) \in Nat
    BY <1>3, <2>6, Concat
  <2>8. wire[p] \o e # <<>>
    BY <2>6, <2>7
  <2> QED
    BY <1>2, <2>2, <2>4, <2>7, <2>8
<1>11. NoFlush(wire'["client"])
  <2>1. NoFlush(wire["client"])
    BY DEF Opening
  <2>2. CASE s = "client"
    <3>1. \A i \in 1..Len(Tail(wire[s])) : \E j \in 1..Len(wire[s]) : Tail(wire[s])[i] = wire[s][j]
      BY <1>2, <1>3, First
    <3>2. NoFlush(Tail(wire[s]))
      <4>1. NoFlush(wire[s])
        BY <2>1, <2>2
      <4> QED
        BY <3>1, <4>1, PartNoFlush, Zenon
    <3> QED
      BY <1>2, <2>2, <3>2
  <2>3. CASE p = "client"
    <3>1. NoFlush(wire[p] \o e)
      BY <1>3, <2>1, <2>3, ConcatNoFlush
    <3> QED
      BY <1>2, <2>3, <3>1
  <2> QED
    BY <1>1, <2>2, <2>3
<1> QED
  BY <1>7, <1>9, <1>10, <1>11 DEF Opening

-----------------------------------------------------------------------------
\* What the receive loop sends fits: an answer, alone
LEMMA AnswerFits ==
  ASSUME NEW w, NEW u \in Seq(Envelope), NEW nx \in Nat, NEW st \in Nat, Numbered(w, u, nx, st),
         NEW re \in Nat \cup {None}, NEW a, a = Ack(nx, re)
  PROVE  /\ a \in Envelope /\ a.ack = None /\ a.kind = "ack" /\ Genuine(a, nx + 1, st)
         /\ \A k \in 1..Len(u) : InStep(u[k], a)
<1>1. a \in Envelope /\ a.ack = None /\ a.kind = "ack" /\ a.n = 0 /\ a.id = nx
  BY DEF Ack, Envelope
<1>2. Genuine(a, nx + 1, st)
  BY <1>1 DEF Genuine, Counts
<1>3. \A k \in 1..Len(u) : u[k].id \in Nat /\ u[k].id < nx
  BY Fields DEF Numbered, Genuine, Counts
<1>4. \A k \in 1..Len(u) : InStep(u[k], a)
  BY <1>1, <1>3 DEF InStep
<1> QED
  BY <1>1, <1>2, <1>4

\* A lone acknowledgement is numbered as the sender's next envelope
LEMMA AloneFits ==
  ASSUME NEW w, NEW u \in Seq(Envelope), NEW nx \in Nat, NEW st \in Nat, Numbered(w, u, nx, st),
         NEW re \in Nat \cup {None}, NEW e, e = <<Ack(nx, re)>>
  PROVE  /\ e \in Seq(Envelope) /\ NoFlush(e) /\ Acks(e) \subseteq Acks(u)
         /\ \A i \in 1..Len(e) : Genuine(e[i], nx + 1, st)
         /\ \A i \in 1..Len(e), k \in 1..Len(u) : InStep(u[k], e[i])
<1> DEFINE a == Ack(nx, re)
<1>1. /\ a \in Envelope /\ a.ack = None /\ a.kind = "ack" /\ Genuine(a, nx + 1, st)
      /\ \A k \in 1..Len(u) : InStep(u[k], a)
  BY AnswerFits
<1>2. e = <<a>>
  OBVIOUS
<1> HIDE DEF a
<1>3. e \in Seq(Envelope) /\ \A i \in 1..Len(e) : e[i] = a
  BY <1>1, <1>2
<1>4. NoFlush(e) /\ Acks(e) = {}
  BY <1>1, <1>3 DEF NoFlush, Acks
<1> QED
  BY <1>1, <1>3, <1>4

\* and after the whole buffer
LEMMA AppendNumbersAcks ==
  ASSUME NEW u \in Seq(Envelope), NEW a \in Envelope, a.ack = None, NEW e, e = Append(u, a)
  PROVE  Numbers(u) \subseteq Numbers(e) /\ Acks(e) \subseteq Acks(u)
<1>1. /\ e \in Seq(Envelope) /\ Len(e) = Len(u) + 1 /\ Len(u) \in Nat
      /\ \A k \in 1..Len(u) : e[k] = u[k] /\ k \in 1..Len(e)
      /\ \A i \in 1..Len(e) : i \in 1..Len(u) \/ e[i] = a
  BY AppendProperties
<1>2. Acks(e) \subseteq Acks(u)
  BY <1>1 DEF Acks
<1>3. Numbers(u) \subseteq Numbers(e)
  BY <1>1, PartNumbers
<1> QED
  BY <1>2, <1>3

\* The buffer sent again, followed by an acknowledgement, is numbered as before
LEMMA ResendFits ==
  ASSUME NEW w, NEW u \in Seq(Envelope), NEW nx \in Nat, NEW st \in Nat, Numbered(w, u, nx, st),
         NEW re \in Nat \cup {None}, NEW e, e = Append(u, Ack(nx, re))
  PROVE  /\ NoFlush(e)
         /\ \A i \in 1..Len(e) : Genuine(e[i], nx + 1, st)
         /\ \A i \in 1..Len(e), k \in 1..Len(u) : InStep(u[k], e[i])
<1> DEFINE a == Ack(nx, re)
<1>1. /\ a \in Envelope /\ a.ack = None /\ a.kind = "ack" /\ Genuine(a, nx + 1, st)
      /\ \A k \in 1..Len(u) : InStep(u[k], a)
  BY AnswerFits
<1>2. e = Append(u, a)
  OBVIOUS
<1> HIDE DEF a
<1>3. /\ e \in Seq(Envelope) /\ Len(e) = Len(u) + 1 /\ Len(u) \in Nat
      /\ \A k \in 1..Len(u) : e[k] = u[k] /\ k \in 1..Len(e)
      /\ \A i \in 1..Len(e) : i \in 1..Len(u) \/ e[i] = a
  BY <1>1, <1>2, AppendProperties
<1>4. \A x \in Envelope : Genuine(x, nx, st) => Genuine(x, nx + 1, st)
  BY DEF Genuine, Envelope
<1>5. \A k \in 1..Len(u) : u[k] \in Envelope /\ u[k].kind = "data" /\ Genuine(u[k], nx, st)
  BY Fields DEF Numbered
<1>6. \A i \in 1..Len(e) : Genuine(e[i], nx + 1, st)
  BY <1>1, <1>3, <1>4, <1>5
<1>7. \A j, k \in 1..Len(u) : InStep(u[k], u[j])
  BY DEF Numbered
<1>8. \A i \in 1..Len(e), k \in 1..Len(u) : InStep(u[k], e[i])
  BY <1>1, <1>3, <1>7
<1>9. NoFlush(e)
  BY <1>1, <1>3, <1>5 DEF NoFlush
<1> QED
  BY <1>6, <1>8, <1>9

\* The buffer stays numbered when its front is released
LEMMA LeftNumbered ==
  ASSUME Core, NEW s \in Sides, wire[s] # <<>>
  PROVE  Numbered(wire[Peer(s)], Left(s), next[s], sent[s])
<1>1. wire[Peer(s)] \in Seq(Envelope) /\ buffer[s] \in Seq(Envelope) /\ Typed
  BY Peers DEF Core, Typed
<1>2. PICK d \in 0..Len(buffer[s]) : Suffix(Left(s), buffer[s], d)
  BY <1>1, Released
<1>3. Numbered(wire[Peer(s)], buffer[s], next[s], sent[s])
  BY DEF Core, Direction
<1> QED
  BY <1>1, <1>2, <1>3, SuffixKeeps

\* A step of the receive loop preserves the invariant when what it sends fits, and
\* it settles only an end whose messages are under way
LEMMA Handled ==
  ASSUME Core, NEW s \in Sides, NEW h, h = Head(wire[s]), NEW u, u = Left(s),
         NEW e \in Seq(Envelope), NEW nx \in Nat, nx >= next[s], NEW f, NEW mr,
         Received(s, e, nx, f, mr),
         \A i \in 1..Len(e) : Genuine(e[i], nx, sent[s]),
         \A i \in 1..Len(e), k \in 1..Len(u) : InStep(u[k], e[i]),
         Acks(e) \subseteq Acks(u), NoFlush(e), h.kind = "started" => nx > next[s],
         spoiled' \in [Sides -> BOOLEAN], \A t \in Sides : spoiled[t] => spoiled'[t],
         ~spoiled'[s] =>
           (Ordered(wire[Peer(s)], u, got[Peer(s)]) => Ordered(wire[Peer(s)] \o e, u, got[Peer(s)])),
         settled' \in [Sides -> BOOLEAN], \A t \in Sides : settled[t] => settled'[t],
         \A t \in Sides : settled'[t] => settled[t] \/ breaks = 0 \/ (t = s /\ UnderWay(s)'),
         (settled'["client"] /\ ~settled["client"] /\ breaks = 0) => (s = "client" /\ h.kind = "ack"),
         flush' \in Nat \cup {None}, resending' \in BOOLEAN, link' = link, breaks' = breaks,
         s = "client" => link = "up"
  PROVE  Core'
<1>1. Typed /\ breaks \in Nat /\ link \in {"up", "down"} /\ InFlight /\ "client" \in Sides
  BY DEF Core, Typed, Sides
<1>2. Opened => Opened'
  BY <1>1 DEF Opened
<1>3. (Opened' /\ ~Opened) => (s = "client" /\ h.kind = "ack")
  BY <1>1 DEF Opened
<1>4. \A t \in Sides : Direction(t)'
  BY <1>2, <1>3, Receive, Zenon
<1>5. Opening'
  BY <1>2, <1>3, ReceivedOpening, Zenon
<1>6. Typed'
  <2>1. /\ next' \in [Sides -> Nat] /\ maxReceived' \in [Sides -> Nat] /\ sent' \in [Sides -> Nat]
        /\ buffer' \in [Sides -> Seq(Envelope)] /\ wire' \in [Sides -> Seq(Envelope)]
        /\ got' \in [Sides -> Seq(Nat)]
    BY <1>1, ReceivedTyped, Zenon
  <2> QED
    BY <1>1, <2>1, Zenon DEF Typed
<1>7. InFlight'
  <2>1. \A t \in Sides : UnderWay(t) => UnderWay(t)'
    BY ReceivedUnderWay, Zenon
  <2>2. \A t \in Sides : (settled'[t] \/ breaks' = 0) => UnderWay(t)'
    BY <1>1, <2>1, Zenon DEF InFlight
  <2>3. (settled'["client"] \/ breaks' = 0) => link' = "up"
    BY <1>1, Zenon DEF InFlight
  <2> QED
    BY <2>2, <2>3 DEF InFlight
<1> QED
  BY <1>4, <1>5, <1>6, <1>7 DEF Core

\* What holds when an envelope is handled
LEMMA ReceiverFacts ==
  ASSUME Core, NEW s \in Sides, NEW kind, Incoming(s, kind)
  PROVE  /\ wire[s] # <<>> /\ Head(wire[s]).kind = kind /\ (s = "client" => link = "up")
         /\ Typed /\ Left(s) \in Seq(Envelope) /\ Head(wire[s]).id \in Nat
         /\ next[s] \in Nat /\ sent[s] \in Nat /\ buffer[s] \in Seq(Envelope)
         /\ wire[Peer(s)] \in Seq(Envelope) /\ breaks \in Nat /\ got[s] \in Seq(Nat)
         /\ Numbered(wire[Peer(s)], Left(s), next[s], sent[s])
         /\ \A e : Out(s, e) = wire[Peer(s)] \o e
<1>1. wire[s] # <<>> /\ Head(wire[s]).kind = kind /\ (s = "client" => link = "up") /\ Typed
  BY DEF Incoming, Core
<1>2. Left(s) \in Seq(Envelope)
  BY <1>1, LeftIsPart
<1>3. Head(wire[s]).id \in Nat
  BY <1>1, Popped
<1>4. Numbered(wire[Peer(s)], Left(s), next[s], sent[s])
  BY <1>1, LeftNumbered
<1>5. /\ next[s] \in Nat /\ sent[s] \in Nat /\ buffer[s] \in Seq(Envelope) /\ got[s] \in Seq(Nat)
      /\ wire[Peer(s)] \in Seq(Envelope) /\ breaks \in Nat
  BY <1>1, Peers DEF Typed
<1>6. Reaches(s)
  BY <1>1 DEF Reaches, Sides
<1>7. \A e : Out(s, e) = wire[Peer(s)] \o e
  BY <1>6 DEF Out
<1> QED
  BY <1>1, <1>2, <1>3, <1>4, <1>5, <1>7

\* A FlushBufferedMessages is answered by the buffer and an Ack
LEMMA HandleFlushStep ==
  ASSUME Core, NEW s \in Sides, HandleFlush(s)
  PROVE  Core'
<1> DEFINE p == Peer(s)
           h == Head(wire[s])
           u == Left(s)
           e == Append(u, Ack(next[s], h.id))
           nx == next[s] + 1
<1>1. Incoming(s, "flush")
  BY DEF HandleFlush
<1>2. /\ wire[s] # <<>> /\ h.kind = "flush" /\ (s = "client" => link = "up") /\ Typed
      /\ u \in Seq(Envelope) /\ h.id \in Nat /\ next[s] \in Nat /\ sent[s] \in Nat
      /\ wire[p] \in Seq(Envelope) /\ Numbered(wire[p], u, next[s], sent[s])
      /\ Out(s, e) = wire[p] \o e
  BY <1>1, ReceiverFacts
<1>3. /\ e \in Seq(Envelope) /\ NoFlush(e) /\ Acks(e) \subseteq Acks(u)
      /\ \A i \in 1..Len(e) : Genuine(e[i], nx, sent[s])
      /\ \A i \in 1..Len(e), k \in 1..Len(u) : InStep(u[k], e[i])
      /\ Numbers(u) \subseteq Numbers(e)
      /\ Len(e) = Len(u) + 1 /\ \A k \in 1..Len(u) : e[k] = u[k]
  <2>1. h.id \in Nat \cup {None} /\ e = Append(u, Ack(next[s], h.id)) /\ nx = next[s] + 1
    BY <1>2
  <2> HIDE DEF u, h, p, e, nx
  <2> DEFINE a == Ack(next[s], h.id)
  <2>8. a \in Envelope /\ a.ack = None
    BY <1>2, <2>1 DEF Ack, Envelope
  <2>9. e = Append(u, a)
    BY <2>1
  <2> HIDE DEF a
  <2>2. e \in Seq(Envelope) /\ Len(e) = Len(u) + 1 /\ \A k \in 1..Len(u) : e[k] = u[k]
    BY <1>2, <2>8, <2>9, AppendProperties
  <2>3. \A i \in 1..Len(e) : Genuine(e[i], nx, sent[s])
    BY <1>2, <2>1, ResendFits
  <2>4. \A i \in 1..Len(e), k \in 1..Len(u) : InStep(u[k], e[i])
    BY <1>2, <2>1, ResendFits
  <2>5. Numbers(u) \subseteq Numbers(e)
    BY <1>2, <2>8, <2>9, AppendNumbersAcks
  <2>6. NoFlush(e)
    BY <1>2, <2>1, ResendFits
  <2>7. Acks(e) \subseteq Acks(u)
    BY <1>2, <2>8, <2>9, AppendNumbersAcks
  <2> QED
    BY <2>2, <2>3, <2>4, <2>5, <2>6, <2>7
<1>4. /\ buffer' = [buffer EXCEPT ![s] = u]
      /\ wire' = [wire EXCEPT ![s] = Tail(wire[s]), ![p] = wire[p] \o e]
      /\ next' = [next EXCEPT ![s] = nx]
      /\ settled' = [settled EXCEPT ![s] = TRUE]
      /\ UNCHANGED <<maxReceived, link, flush, resending, sent, got, spoiled, breaks>>
  BY <1>2 DEF HandleFlush
<1>5. nx \in Nat /\ nx >= next[s] /\ h.kind # "started" /\ h.kind # "data" /\ ~Counts(h)
  BY <1>2 DEF Counts
<1>6. Ordered(wire[p], u, got[p]) => Ordered(wire[p] \o e, u, got[p])
  <2>1. \A j, k \in 1..Len(u) : j < k => u[j].id < u[k].id
    BY <1>2 DEF Numbered
  <2>2. Len(e) >= Len(u) /\ Len(e) <= Len(u) + 1
    BY <1>2, <1>3
  <2> HIDE DEF e, u, p
  <2> QED
    BY <1>2, <1>3, <2>1, <2>2, ResentOrdered
<1> HIDE DEF e, u, h, nx
<1>7. Received(s, e, nx, got[s], maxReceived[s])
  <2>1. got' = [got EXCEPT ![s] = got[s]] /\ maxReceived' = [maxReceived EXCEPT ![s] = maxReceived[s]]
    BY <1>2, <1>4 DEF Typed
  <2> QED
    BY <1>2, <1>4, <1>5, <2>1 DEF Received, h, u, p
<1>8. UnderWay(s)'
  <2>1. Numbers(wire[p]) \cup Numbers(e) \subseteq Numbers(wire[p] \o e)
    BY <1>2, <1>3, ConcatNumbers
  <2>2. wire'[p] = wire[p] \o e /\ buffer'[s] = u
    BY <1>2, <1>4, Peers DEF Typed
  <2> QED
    BY <1>3, <2>1, <2>2 DEF UnderWay, p
<1>9. settled' \in [Sides -> BOOLEAN] /\ spoiled' \in [Sides -> BOOLEAN]
  BY <1>2, <1>4 DEF Typed
<1>10. /\ \A t \in Sides : settled[t] => settled'[t]
       /\ \A t \in Sides : settled'[t] => settled[t] \/ breaks = 0 \/ (t = s /\ UnderWay(s)')
  BY <1>2, <1>4, <1>8 DEF Typed
<1>11. s # "client"
  <2>1. wire[s] \in Seq(Envelope)
    BY <1>2 DEF Typed
  <2>2. h = wire[s][1] /\ 1 \in 1..Len(wire[s])
    BY <1>2, <2>1, First DEF h
  <2>3. NoFlush(wire["client"])
    BY DEF Core, Opening
  <2> QED
    BY <1>2, <2>2, <2>3 DEF NoFlush
<1>12. settled'["client"] => settled["client"]
  BY <1>2, <1>4, <1>11 DEF Typed, Sides
<1>13. flush' \in Nat \cup {None} /\ resending' \in BOOLEAN /\ link' = link /\ breaks' = breaks
  BY <1>2, <1>4 DEF Typed
<1>14. \A t \in Sides : spoiled[t] => spoiled'[t]
  BY <1>4
<1> QED
  BY <1>2, <1>3, <1>5, <1>6, <1>7, <1>9, <1>10, <1>12, <1>13, <1>14, Handled, Zenon DEF h, u, p

\* What the ghost variable says after a step that updates it
LEMMA SpoilOrders ==
  ASSUME Typed, Spoil, NEW s \in Sides, wire'[Peer(s)] \in Seq(Envelope), buffer'[s] \in Seq(Envelope)
  PROVE  /\ spoiled' \in [Sides -> BOOLEAN] /\ \A t \in Sides : spoiled[t] => spoiled'[t]
         /\ ~spoiled'[s] => Ordered(wire'[Peer(s)], buffer'[s], got'[Peer(s)])
<1>1. spoiled' \in [Sides -> BOOLEAN] /\ \A t \in Sides : spoiled[t] => spoiled'[t]
  BY DEF Spoil
<1>2. ~spoiled'[s] => ~Overtakes(s)'
  BY DEF Spoil
<1>3. ~Overtakes(s)' => Ordered(wire'[Peer(s)], buffer'[s], got'[Peer(s)])
  BY NotOvertaken DEF Overtakes
<1> QED
  BY <1>1, <1>2, <1>3

\* RemoteStarted is answered by an Ack and nothing is sent again
LEMMA HandleStartedStep ==
  ASSUME Core, NEW s \in Sides, HandleStarted(s)
  PROVE  Core'
<1> DEFINE p == Peer(s)
           h == Head(wire[s])
           u == Left(s)
           e == <<Ack(next[s], 0)>>
           nx == next[s] + 1
<1>1. Incoming(s, "started")
  BY DEF HandleStarted
<1>2. /\ wire[s] # <<>> /\ h.kind = "started" /\ (s = "client" => link = "up") /\ Typed
      /\ u \in Seq(Envelope) /\ h.id \in Nat /\ next[s] \in Nat /\ sent[s] \in Nat
      /\ wire[p] \in Seq(Envelope) /\ Numbered(wire[p], u, next[s], sent[s])
      /\ Out(s, e) = wire[p] \o e
  BY <1>1, ReceiverFacts
<1>3. /\ e \in Seq(Envelope) /\ NoFlush(e) /\ Acks(e) \subseteq Acks(u)
      /\ \A i \in 1..Len(e) : Genuine(e[i], nx, sent[s])
      /\ \A i \in 1..Len(e), k \in 1..Len(u) : InStep(u[k], e[i])
  <2>1. e = <<Ack(next[s], 0)>> /\ nx = next[s] + 1 /\ 0 \in Nat \cup {None}
    OBVIOUS
  <2> HIDE DEF u, h, p, e, nx
  <2>2. e \in Seq(Envelope)
    BY <1>2, <2>1 DEF Ack, Envelope
  <2>3. NoFlush(e)
    BY <2>1 DEF Ack, NoFlush
  <2>4. Acks(e) \subseteq Acks(u)
    BY <2>1 DEF Ack, Acks
  <2>5. \A i \in 1..Len(e) : Genuine(e[i], nx, sent[s])
    BY <1>2, <2>1, AloneFits
  <2>6. \A i \in 1..Len(e), k \in 1..Len(u) : InStep(u[k], e[i])
    BY <1>2, <2>1, AloneFits
  <2> QED
    BY <2>2, <2>3, <2>4, <2>5, <2>6
<1>4. /\ buffer' = [buffer EXCEPT ![s] = u]
      /\ wire' = [wire EXCEPT ![s] = Tail(wire[s]), ![p] = wire[p] \o e]
      /\ next' = [next EXCEPT ![s] = nx]
      /\ settled' = [settled EXCEPT ![s] = settled[s] \/ (s = "server" /\ breaks = 0)]
      /\ UNCHANGED <<maxReceived, link, flush, resending, sent, got, breaks>> /\ Spoil
  BY <1>2 DEF HandleStarted
<1>5. nx \in Nat /\ nx >= next[s] /\ nx > next[s] /\ h.kind # "data" /\ ~Counts(h)
  BY <1>2 DEF Counts
<1>6. wire'[p] = wire[p] \o e /\ buffer'[s] = u /\ got' = got
  BY <1>2, <1>4, Peers DEF Typed
<1>7. wire'[p] \in Seq(Envelope) /\ buffer'[s] \in Seq(Envelope)
  BY <1>2, <1>3, <1>6, Concat
<1> HIDE DEF e, u, h, nx
<1>8. /\ spoiled' \in [Sides -> BOOLEAN] /\ \A t \in Sides : spoiled[t] => spoiled'[t]
      /\ ~spoiled'[s] => Ordered(wire[p] \o e, u, got[p])
  BY <1>2, <1>4, <1>6, <1>7, SpoilOrders
<1>9. Received(s, e, nx, got[s], maxReceived[s])
  <2>1. got' = [got EXCEPT ![s] = got[s]] /\ maxReceived' = [maxReceived EXCEPT ![s] = maxReceived[s]]
    BY <1>2, <1>4 DEF Typed
  <2> QED
    BY <1>2, <1>4, <1>5, <2>1 DEF Received, h, u, p
<1>10. settled' \in [Sides -> BOOLEAN]
  BY <1>2, <1>4 DEF Typed
<1>11. /\ \A t \in Sides : settled[t] => settled'[t]
       /\ \A t \in Sides : settled'[t] => settled[t] \/ breaks = 0
       /\ settled'["client"] => settled["client"]
  BY <1>2, <1>4 DEF Typed, Sides
<1>12. flush' \in Nat \cup {None} /\ resending' \in BOOLEAN /\ link' = link /\ breaks' = breaks
  BY <1>2, <1>4 DEF Typed
<1> QED
  BY <1>2, <1>3, <1>5, <1>8, <1>9, <1>10, <1>11, <1>12, Handled, Zenon DEF h, u, p

\* The receipt of a message or an answer, which sends nothing
LEMMA NothingFits ==
  ASSUME Typed, NEW s \in Sides, NEW u
  PROVE  /\ <<>> \in Seq(Envelope) /\ NoFlush(<<>>) /\ Acks(<<>>) \subseteq Acks(u)
         /\ wire[Peer(s)] \o <<>> = wire[Peer(s)]
         /\ [wire EXCEPT ![s] = Tail(wire[s])] =
              [wire EXCEPT ![s] = Tail(wire[s]), ![Peer(s)] = wire[Peer(s)] \o <<>>]
<1>1. <<>> \in Seq(Envelope) /\ NoFlush(<<>>) /\ Acks(<<>>) \subseteq Acks(u)
  BY DEF NoFlush, Acks
<1>2. wire[Peer(s)] \in Seq(Envelope) /\ Peer(s) # s /\ Peer(s) \in Sides
  BY Peers DEF Typed
<1>3. wire[Peer(s)] \o <<>> = wire[Peer(s)]
  BY <1>2
<1>4. [wire EXCEPT ![s] = Tail(wire[s])] = [wire EXCEPT ![s] = Tail(wire[s]), ![Peer(s)] = wire[Peer(s)]]
  BY <1>2 DEF Typed
<1> QED
  BY <1>1, <1>3, <1>4

\* An application message is handled and its id becomes the newest received
LEMMA HandleDataStep ==
  ASSUME Core, NEW s \in Sides, HandleData(s)
  PROVE  Core'
<1> DEFINE p == Peer(s)
           h == Head(wire[s])
           u == Left(s)
           f == Append(got[s], h.n)
<1>1. Incoming(s, "data")
  BY DEF HandleData
<1>2. /\ wire[s] # <<>> /\ h.kind = "data" /\ (s = "client" => link = "up") /\ Typed
      /\ next[s] \in Nat
  BY <1>1, ReceiverFacts
<1>3. /\ buffer' = [buffer EXCEPT ![s] = u]
      /\ wire' = [wire EXCEPT ![s] = Tail(wire[s]), ![p] = wire[p] \o <<>>]
      /\ maxReceived' = [maxReceived EXCEPT ![s] = h.id]
      /\ got' = [got EXCEPT ![s] = f]
      /\ UNCHANGED <<next, link, flush, resending, settled, sent, spoiled, breaks>>
  BY <1>2, NothingFits DEF HandleData
<1>4. Counts(h) /\ h.kind # "started" /\ next[s] >= next[s]
  BY <1>2 DEF Counts
<1> HIDE DEF u, h
<1>5. Received(s, <<>>, next[s], f, h.id)
  <2>1. next' = [next EXCEPT ![s] = next[s]]
    BY <1>2, <1>3 DEF Typed
  <2> QED
    BY <1>2, <1>3, <1>4, <2>1 DEF Received, h, u, p
<1>6. /\ <<>> \in Seq(Envelope) /\ NoFlush(<<>>) /\ Acks(<<>>) \subseteq Acks(u)
      /\ wire[p] \o <<>> = wire[p]
  BY <1>2, NothingFits
<1>7. \A i \in 1..Len(<<>>) : FALSE
  OBVIOUS
<1>8. /\ settled' \in [Sides -> BOOLEAN] /\ spoiled' \in [Sides -> BOOLEAN]
      /\ flush' \in Nat \cup {None} /\ resending' \in BOOLEAN /\ link' = link /\ breaks' = breaks
      /\ settled' = settled /\ spoiled' = spoiled
  BY <1>2, <1>3 DEF Typed
<1> QED
  BY <1>2, <1>4, <1>5, <1>6, <1>7, <1>8, Handled, Zenon DEF h, u, p

\* An Ack is received like any message; the one that answers the flush wakes resync()
LEMMA HandleAckStep ==
  ASSUME Core, NEW s \in Sides, HandleAck(s)
  PROVE  Core'
<1> DEFINE p == Peer(s)
           h == Head(wire[s])
           u == Left(s)
<1>1. Incoming(s, "ack")
  BY DEF HandleAck
<1>2. /\ wire[s] # <<>> /\ h.kind = "ack" /\ (s = "client" => link = "up") /\ Typed
      /\ next[s] \in Nat
  BY <1>1, ReceiverFacts
<1>3. /\ buffer' = [buffer EXCEPT ![s] = u]
      /\ wire' = [wire EXCEPT ![s] = Tail(wire[s]), ![p] = wire[p] \o <<>>]
      /\ maxReceived' = [maxReceived EXCEPT ![s] = h.id]
      /\ settled' = [settled EXCEPT ![s] = settled[s] \/ (s = "client" /\ breaks = 0)]
      /\ UNCHANGED <<next, link, sent, got, spoiled, breaks>>
  BY <1>2, NothingFits DEF HandleAck
<1>4. flush' \in Nat \cup {None} /\ resending' \in BOOLEAN
  <2>1. flush' \in {None, flush} /\ resending' \in BOOLEAN
    BY <1>2 DEF HandleAck, Typed
  <2> QED
    BY <1>2, <2>1 DEF Typed
<1>5. Counts(h) /\ h.kind # "started" /\ h.kind # "data" /\ next[s] >= next[s]
  BY <1>2 DEF Counts
<1> HIDE DEF u, h
<1>6. Received(s, <<>>, next[s], got[s], h.id)
  <2>1. next' = [next EXCEPT ![s] = next[s]] /\ got' = [got EXCEPT ![s] = got[s]]
    BY <1>2, <1>3 DEF Typed
  <2> QED
    BY <1>2, <1>3, <1>5, <2>1 DEF Received, h, u, p
<1>7. /\ <<>> \in Seq(Envelope) /\ NoFlush(<<>>) /\ Acks(<<>>) \subseteq Acks(u)
      /\ wire[p] \o <<>> = wire[p]
  BY <1>2, NothingFits
<1>8. \A i \in 1..Len(<<>>) : FALSE
  OBVIOUS
<1>9. settled' \in [Sides -> BOOLEAN] /\ spoiled' \in [Sides -> BOOLEAN] /\ spoiled' = spoiled
  BY <1>2, <1>3 DEF Typed
<1>10. /\ \A t \in Sides : settled[t] => settled'[t]
       /\ \A t \in Sides : settled'[t] => settled[t] \/ breaks = 0
       /\ (settled'["client"] /\ ~settled["client"]) => s = "client"
  BY <1>2, <1>3 DEF Typed, Sides
<1>11. link' = link /\ breaks' = breaks
  BY <1>3
<1> QED
  BY <1>2, <1>4, <1>5, <1>6, <1>7, <1>8, <1>9, <1>10, <1>11, Handled, Zenon DEF h, u, p

-----------------------------------------------------------------------------
\* What resync() writes: e behind what is under way to the server
LEMMA Written ==
  ASSUME Core, NEW e \in Seq(Envelope), NEW nx \in Nat, nx >= next["client"], Opened, Opened',
         UNCHANGED <<buffer, maxReceived, sent, got, spoiled>>,
         wire' = [wire EXCEPT !["server"] = wire["server"] \o e],
         next' = [next EXCEPT !["client"] = nx],
         \A i \in 1..Len(e) : Genuine(e[i], nx, sent["client"]),
         \A i \in 1..Len(e), k \in 1..Len(buffer["client"]) : InStep(buffer["client"][k], e[i]),
         Acks(e) \subseteq Acknowledged("server"),
         Ordered(wire["server"], buffer["client"], got["server"]) =>
           Ordered(wire["server"] \o e, buffer["client"], got["server"]),
         breaks' # 0
  PROVE  /\ \A t \in Sides : Direction(t)'
         /\ \A t \in Sides : UnderWay(t) => UnderWay(t)'
         /\ Opening'
         /\ next' \in [Sides -> Nat] /\ wire' \in [Sides -> Seq(Envelope)]
<1>1. /\ Sides = {"client", "server"} /\ Peer("client") = "server" /\ Peer("server") = "client"
      /\ Typed /\ "client" \in Sides /\ "server" \in Sides
  BY DEF Sides, Peer, Core
<1>2. /\ wire["server"] \in Seq(Envelope) /\ buffer["client"] \in Seq(Envelope)
      /\ next["client"] \in Nat /\ sent["client"] \in Nat /\ wire["client"] \in Seq(Envelope)
  BY <1>1 DEF Typed
<1>3. /\ wire'["server"] = wire["server"] \o e /\ wire'["client"] = wire["client"]
      /\ next'["client"] = nx /\ next'["server"] = next["server"]
      /\ wire["server"] \o e \in Seq(Envelope)
  BY <1>1, <1>2, Concat DEF Typed
<1>4. next' \in [Sides -> Nat] /\ wire' \in [Sides -> Seq(Envelope)]
  BY <1>1, <1>2, <1>3 DEF Typed
<1>5. Acknowledged("client")' = Acknowledged("client")
  BY <1>1, <1>3 DEF Acknowledged
<1>6. Acknowledged("server")' \subseteq Acknowledged("server")
  <2>1. Acks(wire["server"] \o e) = Acks(wire["server"]) \cup Acks(e)
    BY <1>2, ConcatAcks
  <2>2. Acknowledged("server")' =
          Acks(wire["server"] \o e) \cup Acks(buffer["client"]) \cup {maxReceived["client"]}
    BY <1>1, <1>3 DEF Acknowledged
  <2>3. Acknowledged("server") =
          Acks(wire["server"]) \cup Acks(buffer["client"]) \cup {maxReceived["client"]}
    BY <1>1 DEF Acknowledged
  <2> QED
    BY <2>1, <2>2, <2>3
<1>7. Acknowledged("client") \subseteq Nat
  BY <1>1, AcknowledgedTyped
<1>8. Direction("client") /\ Direction("server")
  BY <1>1 DEF Core
<1>9. Direction("client")'
  <2>1. Numbered(wire["server"] \o e, buffer["client"], nx, sent["client"])
    <3>1. Numbered(wire["server"], buffer["client"], next["client"], sent["client"])
      BY <1>1, <1>8 DEF Direction
    <3>2. next["client"] <= nx /\ sent["client"] <= sent["client"]
      BY <1>2
    <3>3. Numbered(wire["server"], buffer["client"], nx, sent["client"])
      BY <1>2, <3>1, <3>2, HigherNumbered
    <3> QED
      BY <1>2, <3>3, MoreNumbered
  <2>2. AcksGiven("client")'
    <3>1. \A a \in Nat : Given("client", a) => Given("client", a)'
      BY <1>2, <1>3 DEF Given
    <3> QED
      BY <1>5, <1>7, <1>8, <3>1 DEF AcksGiven, Direction
  <2>3. ~spoiled["client"] => Unspoiled("client")'
    BY <1>1, <1>3, <1>5, <1>8 DEF Direction, Unspoiled, AcksCover
  <2> QED
    BY <1>1, <1>3, <2>1, <2>2, <2>3 DEF Direction
<1>10. Direction("server")'
  <2>1. \A a : Given("server", a)' <=> Given("server", a)
    BY <1>3 DEF Given
  <2>2. AcksGiven("server")'
    BY <1>6, <1>8, <2>1 DEF AcksGiven, Direction
  <2>3. ~spoiled["server"] => Unspoiled("server")'
    BY <1>1, <1>3, <1>6, <1>8 DEF Direction, Unspoiled, AcksCover
  <2> QED
    BY <1>1, <1>3, <1>8, <2>2, <2>3 DEF Direction
<1>11. \A t \in Sides : UnderWay(t) => UnderWay(t)'
  <2>1. Numbers(wire["server"]) \subseteq Numbers(wire["server"] \o e)
    BY <1>2, ConcatNumbers
  <2>2. UnderWay("client") => UnderWay("client")'
    BY <1>1, <1>3, <2>1 DEF UnderWay
  <2>3. UnderWay("server") => UnderWay("server")'
    BY <1>1, <1>3 DEF UnderWay
  <2> QED
    BY <1>1, <2>2, <2>3
<1>12. Opening'
  <2>1. next["client"] > 0 /\ NoFlush(wire["client"])
    BY DEF Core, Opening
  <2>2. nx > 0
    BY <1>2, <2>1
  <2> QED
    BY <1>3, <2>1, <2>2 DEF Opening
<1> QED
  BY <1>1, <1>4, <1>9, <1>10, <1>11, <1>12

\* The second half of resync(): the client's whole buffer again
LEMMA ResendStep ==
  ASSUME IInv, Resend
  PROVE  Core'
<1> DEFINE e == IF link = "up" THEN buffer["client"] ELSE <<>>
<1>1. /\ Core /\ Typed /\ Sides = {"client", "server"} /\ Peer("client") = "server"
      /\ Peer("server") = "client" /\ breaks \in Nat /\ breaks # 0 /\ Opened
  BY DEF IInv, Idle, Resend, Core, Typed, Opened, Sides, Peer
<1>2. /\ wire["server"] \in Seq(Envelope) /\ buffer["client"] \in Seq(Envelope)
      /\ next["client"] \in Nat /\ sent["client"] \in Nat
  BY <1>1 DEF Typed
<1>3. Numbered(wire["server"], buffer["client"], next["client"], sent["client"])
  BY <1>1 DEF Core, Direction
<1>4. /\ e \in Seq(Envelope)
      /\ \A i \in 1..Len(e) : Genuine(e[i], next["client"], sent["client"])
      /\ \A i \in 1..Len(e), k \in 1..Len(buffer["client"]) : InStep(buffer["client"][k], e[i])
      /\ Acks(e) \subseteq Acks(buffer["client"])
  <2>1. CASE link = "up"
    BY <1>2, <1>3, <2>1 DEF Numbered
  <2>2. CASE link # "up"
    BY <2>2 DEF Acks
  <2> QED
    BY <2>1, <2>2
<1>5. Acks(e) \subseteq Acknowledged("server")
  BY <1>1, <1>4 DEF Acknowledged
<1>6. Ordered(wire["server"], buffer["client"], got["server"]) =>
        Ordered(wire["server"] \o e, buffer["client"], got["server"])
  <2>1. CASE link = "up"
    <3>1. e = buffer["client"] /\ Len(e) >= Len(buffer["client"]) /\ Len(e) <= Len(buffer["client"]) + 1
      BY <1>2, <2>1
    <3>2. \A j, k \in 1..Len(buffer["client"]) : j < k => buffer["client"][j].id < buffer["client"][k].id
      BY <1>3 DEF Numbered
    <3> HIDE DEF e
    <3> QED
      BY <1>2, <3>1, <3>2, ResentOrdered
  <2>2. CASE link # "up"
    <3>1. wire["server"] \o e = wire["server"]
      BY <1>2, <2>2
    <3> QED
      BY <3>1
  <2> QED
    BY <2>1, <2>2
<1>7. /\ wire' = [wire EXCEPT !["server"] = wire["server"] \o e]
      /\ next' = [next EXCEPT !["client"] = next["client"]]
      /\ settled' = [settled EXCEPT !["client"] = (link = "up")]
      /\ resending' = FALSE
      /\ UNCHANGED <<next, buffer, maxReceived, link, flush, sent, got, spoiled, breaks>>
  <2>1. Out("client", buffer["client"]) = wire["server"] \o e
    <3>1. CASE link = "up"
      BY <1>1, <3>1 DEF Out, Reaches
    <3>2. CASE link # "up"
      BY <1>1, <1>2, <3>2 DEF Out, Reaches
    <3> QED
      BY <3>1, <3>2
  <2> QED
    BY <1>1, <2>1 DEF Resend, Typed
<1>8. Opened' /\ breaks' # 0 /\ next["client"] >= next["client"]
  BY <1>1, <1>2, <1>7 DEF Opened
<1>9. link = "up" => UnderWay("client")'
  <2> SUFFICES ASSUME link = "up" PROVE UnderWay("client")'
    OBVIOUS
  <2>1. wire'["server"] = wire["server"] \o buffer["client"] /\ buffer'["client"] = buffer["client"]
    BY <1>1, <1>7 DEF Typed
  <2>2. Numbers(buffer["client"]) \subseteq Numbers(wire["server"] \o buffer["client"])
    BY <1>2, ConcatNumbers
  <2> QED
    BY <1>1, <2>1, <2>2 DEF UnderWay
<1> HIDE DEF e
<1>10. /\ \A t \in Sides : Direction(t)'
       /\ \A t \in Sides : UnderWay(t) => UnderWay(t)'
       /\ Opening'
       /\ next' \in [Sides -> Nat] /\ wire' \in [Sides -> Seq(Envelope)]
  BY <1>1, <1>2, <1>4, <1>5, <1>6, <1>7, <1>8, Written
<1>11. settled' \in [Sides -> BOOLEAN]
  BY <1>1, <1>7 DEF Typed
<1>12. Typed'
  BY <1>1, <1>7, <1>10, <1>11 DEF Typed
<1>13. InFlight'
  <2>1. InFlight /\ settled \in [Sides -> BOOLEAN]
    BY <1>1 DEF Core, Typed
  <2>2. settled'["server"] = settled["server"] /\ settled'["client"] = (link = "up")
    BY <1>1, <1>7, <2>1
  <2>3. settled'["server"] => UnderWay("server")'
    BY <1>1, <1>10, <2>1, <2>2 DEF InFlight
  <2>4. settled'["client"] => UnderWay("client")' /\ link' = "up"
    BY <1>7, <1>9, <2>2
  <2> QED
    BY <1>1, <1>8, <2>3, <2>4 DEF InFlight
<1> QED
  BY <1>10, <1>12, <1>13 DEF Core

\* reconnect and the first half of resync(): a flush, then RemoteStarted
LEMMA ReconnectStep ==
  ASSUME IInv, Reconnect
  PROVE  Core'
<1> DEFINE a == Flush(next["client"], maxReceived["client"])
           e == <<a, Started>>
           nx == next["client"] + 1
<1>1. /\ Core /\ Typed /\ Sides = {"client", "server"} /\ Peer("client") = "server"
      /\ Peer("server") = "client" /\ link = "down" /\ InFlight /\ breaks \in Nat
  BY DEF IInv, Reconnect, Core, Typed, Sides, Peer
<1>2. breaks # 0 /\ Opened
  BY <1>1 DEF InFlight, Opened
<1>3. /\ wire["server"] \in Seq(Envelope) /\ buffer["client"] \in Seq(Envelope)
      /\ next["client"] \in Nat /\ sent["client"] \in Nat /\ maxReceived["client"] \in Nat
  BY <1>1 DEF Typed
<1>4. /\ a \in Envelope /\ a.kind = "flush" /\ a.n = 0 /\ a.ack = maxReceived["client"]
      /\ Started \in Envelope /\ Started.kind = "started" /\ Started.n = 0 /\ Started.ack = None
  BY <1>3 DEF Flush, Started, Envelope
<1>5. wire' = [wire EXCEPT !["server"] = wire["server"] \o e] /\ next' = [next EXCEPT !["client"] = nx]
  BY DEF Reconnect
<1> HIDE DEF a
<1>6. e \in Seq(Envelope) /\ \A i \in 1..Len(e) : e[i] = a \/ e[i] = Started
  BY <1>4
<1> HIDE DEF e
<1>7. /\ \A i \in 1..Len(e) : Genuine(e[i], nx, sent["client"]) /\ ~Counts(e[i])
      /\ \A i \in 1..Len(e), k \in 1..Len(buffer["client"]) : InStep(buffer["client"][k], e[i])
  BY <1>4, <1>6 DEF Genuine, Counts, InStep
<1>8. Acks(e) \subseteq Acknowledged("server")
  <2>1. Acks(e) \subseteq {maxReceived["client"]}
    BY <1>4, <1>6 DEF Acks
  <2> QED
    BY <1>1, <1>2, <2>1 DEF Acknowledged
<1>9. Ordered(wire["server"], buffer["client"], got["server"]) =>
        Ordered(wire["server"] \o e, buffer["client"], got["server"])
  BY <1>3, <1>6, <1>7, PlainOrdered
<1>10. nx \in Nat /\ nx >= next["client"]
  BY <1>3
<1>11. UNCHANGED <<buffer, maxReceived, resending, settled, sent, got, spoiled, breaks>>
  BY DEF Reconnect
<1>12. Opened' /\ breaks' # 0
  BY <1>1, <1>2, <1>11 DEF Opened
<1> HIDE DEF nx
<1>13. /\ \A t \in Sides : Direction(t)'
       /\ \A t \in Sides : UnderWay(t) => UnderWay(t)'
       /\ Opening'
       /\ next' \in [Sides -> Nat] /\ wire' \in [Sides -> Seq(Envelope)]
  BY <1>1, <1>2, <1>5, <1>6, <1>7, <1>8, <1>9, <1>10, <1>11, <1>12, Written
<1>14. Typed'
  <2>1. flush' \in Nat \cup {None} /\ link' \in {"up", "down"}
    BY <1>3 DEF Reconnect
  <2> QED
    BY <1>1, <1>11, <1>13, <2>1 DEF Typed
<1>15. InFlight'
  BY <1>1, <1>11, <1>12, <1>13 DEF InFlight
<1> QED
  BY <1>13, <1>14, <1>15 DEF Core

\* A message is numbered past everything before it
LEMMA NewNumbered ==
  ASSUME NEW w \in Seq(Envelope), NEW b \in Seq(Envelope), NEW nx \in Nat, NEW st \in Nat,
         Numbered(w, b, nx, st), NEW x \in Envelope, x.kind = "data", x.id = nx, x.n = st + 1,
         NEW v \in Seq(Envelope), \A i \in 1..Len(v) : v[i] = x \/ \E j \in 1..Len(w) : v[i] = w[j],
         NEW c, c = Append(b, x)
  PROVE  Numbered(v, c, nx + 1, st + 1)
<1>1. /\ c \in Seq(Envelope) /\ Len(c) = Len(b) + 1 /\ Len(b) \in Nat
      /\ \A k \in 1..Len(b) : c[k] = b[k] /\ k \in 1..Len(c)
      /\ \A i \in 1..Len(c) : i \in 1..Len(b) \/ (i = Len(b) + 1 /\ c[i] = x)
  BY AppendProperties
<1> HIDE DEF Envelope
<1>2. \A y \in Envelope : Genuine(y, nx, st) => Genuine(y, nx + 1, st + 1)
  BY DEF Genuine, Envelope
<1>3. Genuine(x, nx + 1, st + 1)
  BY DEF Genuine, Envelope
<1>4. /\ \A i \in 1..Len(w) : w[i] \in Envelope /\ Genuine(w[i], nx, st)
      /\ \A k \in 1..Len(b) : b[k] \in Envelope /\ b[k].kind = "data" /\ Genuine(b[k], nx, st)
  BY Fields DEF Numbered
<1>5. \A y \in Envelope : Genuine(y, nx, st) => InStep(x, y)
  BY DEF Genuine, InStep, Counts, Envelope
<1>6. \A y \in Envelope : y.kind = "data" /\ Genuine(y, nx, st) => InStep(y, x)
  BY DEF Genuine, InStep, Counts, Envelope
<1>7. InStep(x, x)
  BY DEF InStep, Envelope
<1>8. \A i \in 1..Len(v) : Genuine(v[i], nx + 1, st + 1)
  BY <1>2, <1>3, <1>4
<1>9. \A k \in 1..Len(c) : c[k].kind = "data" /\ Genuine(c[k], nx + 1, st + 1)
  BY <1>1, <1>2, <1>3, <1>4
<1>10. \A j, k \in 1..Len(c) : j < k => c[j].id < c[k].id
  <2> SUFFICES ASSUME NEW j \in 1..Len(c), NEW k \in 1..Len(c), j < k PROVE c[j].id < c[k].id
    OBVIOUS
  <2>1. j \in 1..Len(b) /\ c[j] = b[j]
    BY <1>1
  <2>2. CASE k \in 1..Len(b)
    BY <1>1, <2>1, <2>2 DEF Numbered
  <2>3. CASE k = Len(b) + 1
    <3>1. c[k] = x /\ b[j].kind = "data" /\ Genuine(b[j], nx, st)
      BY <1>1, <1>4, <2>1, <2>3
    <3> QED
      BY <2>1, <3>1 DEF Genuine, Counts
  <2> QED
    BY <1>1, <2>2, <2>3
<1>11. \A i \in 1..Len(v), k \in 1..Len(c) : InStep(c[k], v[i])
  <2>1. \A i \in 1..Len(w), k \in 1..Len(b) : InStep(b[k], w[i])
    BY DEF Numbered
  <2> QED
    BY <1>1, <1>4, <1>5, <1>6, <1>7, <2>1
<1>12. \A j, k \in 1..Len(c) : InStep(c[k], c[j])
  <2>1. \A j, k \in 1..Len(b) : InStep(b[k], b[j])
    BY DEF Numbered
  <2> QED
    BY <1>1, <1>4, <1>5, <1>6, <1>7, <2>1
<1> QED
  BY <1>8, <1>9, <1>10, <1>11, <1>12 DEF Numbered

\* One more envelope at the end of a queue
LEMMA OneMore ==
  ASSUME NEW w \in Seq(Envelope), NEW x \in Envelope, NEW v, v = Append(w, x)
  PROVE  /\ v \in Seq(Envelope) /\ Len(v) = Len(w) + 1
         /\ \A i \in 1..Len(w) : i \in 1..Len(v) /\ v[i] = w[i]
         /\ Len(w) + 1 \in 1..Len(v) /\ v[Len(w) + 1] = x
         /\ \A i \in 1..Len(v) : v[i] = x \/ \E j \in 1..Len(w) : v[i] = w[j]
<1>2. /\ v \in Seq(Envelope) /\ Len(v) = Len(w) + 1 /\ Len(w) \in Nat
      /\ \A i \in 1..Len(w) : i \in 1..Len(v) /\ v[i] = w[i]
      /\ Len(w) + 1 \in 1..Len(v) /\ v[Len(w) + 1] = x
      /\ \A i \in 1..Len(v) : i \in 1..Len(w) \/ v[i] = x
  BY AppendProperties
<1>3. \A i \in 1..Len(v) : v[i] = x \/ \E j \in 1..Len(w) : v[i] = w[j]
  BY <1>2
<1> QED
  BY <1>2, <1>3

\* Acknowledgements and data of a sequence with one more envelope
LEMMA SetsOfOneMore ==
  ASSUME NEW w \in Seq(Envelope), NEW x \in Envelope, NEW v \in Seq(Envelope),
         \A i \in 1..Len(w) : i \in 1..Len(v) /\ v[i] = w[i],
         Len(w) + 1 \in 1..Len(v), v[Len(w) + 1] = x,
         \A i \in 1..Len(v) : v[i] = x \/ \E j \in 1..Len(w) : v[i] = w[j]
  PROVE  /\ Acks(v) \subseteq Acks(w) \cup {x.ack}
         /\ Numbers(v) = Numbers(w) \cup ({x.n} \ {0})
<1>1. Acks(v) \subseteq Acks(w) \cup {x.ack}
  BY DEF Acks
<1>2. Numbers(v) \subseteq Numbers(w) \cup ({x.n} \ {0})
  <2> SUFFICES ASSUME NEW n \in Numbers(v), n # x.n PROVE n \in Numbers(w)
    BY NumbersOf
  <2>1. n # 0 /\ \E i \in 1..Len(v) : v[i].n = n
    BY NumbersOf
  <2> QED
    BY <2>1, NumbersOf
<1>3. Numbers(w) \subseteq Numbers(v)
  <2>1. \A i \in 1..Len(w) : \E j \in 1..Len(v) : w[i] = v[j]
    OBVIOUS
  <2> QED
    BY <2>1, PartNumbers
<1>4. x.n # 0 => x.n \in Numbers(v)
  BY NumbersOf
<1> QED
  BY <1>1, <1>2, <1>3, <1>4

\* The same for Append
LEMMA OneMoreSets ==
  ASSUME NEW w \in Seq(Envelope), NEW x \in Envelope
  PROVE  /\ Acks(Append(w, x)) \subseteq Acks(w) \cup {x.ack}
         /\ Numbers(Append(w, x)) = Numbers(w) \cup ({x.n} \ {0})
<1> DEFINE v == Append(w, x)
<1>1. /\ v \in Seq(Envelope) /\ \A i \in 1..Len(w) : i \in 1..Len(v) /\ v[i] = w[i]
      /\ Len(w) + 1 \in 1..Len(v) /\ v[Len(w) + 1] = x
      /\ \A i \in 1..Len(v) : v[i] = x \/ \E j \in 1..Len(w) : v[i] = w[j]
  BY OneMore
<1> HIDE DEF v
<1>2. Acks(v) \subseteq Acks(w) \cup {x.ack} /\ Numbers(v) = Numbers(w) \cup ({x.n} \ {0})
  BY <1>1, SetsOfOneMore
<1> QED
  BY <1>2 DEF v

\* send_dynamic: the envelope is numbered, buffered and put on the wire
LEMMA SendStep ==
  ASSUME Core, NEW s \in Sides, Send(s)
  PROVE  Core'
<1> DEFINE p == Peer(s)
           x == Data(next[s], maxReceived[s], sent[s] + 1)
           v == Out(s, <<x>>)
           c == Append(buffer[s], x)
<1>1. /\ p \in Sides /\ p # s /\ Peer(p) = s /\ Peer(s) = p /\ Sides = {s, p} /\ Typed
      /\ Sides = {"client", "server"}
  BY Peers DEF Core, Sides
<1>2. /\ wire[p] \in Seq(Envelope) /\ wire[s] \in Seq(Envelope) /\ buffer[s] \in Seq(Envelope)
      /\ buffer[p] \in Seq(Envelope) /\ next[s] \in Nat /\ sent[s] \in Nat /\ maxReceived[s] \in Nat
      /\ next[p] \in Nat
  BY <1>1 DEF Typed
<1>3. /\ x \in Envelope /\ x.kind = "data" /\ x.id = next[s] /\ x.n = sent[s] + 1
      /\ x.ack = maxReceived[s] /\ x.n # 0 /\ x.id \in Nat
  BY <1>2 DEF Data, Envelope
<1>4. /\ buffer' = [buffer EXCEPT ![s] = c] /\ wire' = [wire EXCEPT ![p] = v]
      /\ next' = [next EXCEPT ![s] = next[s] + 1] /\ sent' = [sent EXCEPT ![s] = sent[s] + 1]
      /\ UNCHANGED <<maxReceived, link, flush, resending, settled, got, breaks>> /\ Spoil
      /\ s = "client" => Opened
  BY DEF Send
<1>5. v = IF Reaches(s) THEN Append(wire[p], x) ELSE wire[p]
  <2>1. wire[p] \o <<x>> = Append(wire[p], x)
    BY <1>2, <1>3
  <2> QED
    BY <2>1 DEF Out
<1>6. Reaches(s) => v = Append(wire[p], x)
  BY <1>5
<1> HIDE DEF x, v
<1>7. /\ c \in Seq(Envelope) /\ Len(c) = Len(buffer[s]) + 1
      /\ \A i \in 1..Len(buffer[s]) : i \in 1..Len(c) /\ c[i] = buffer[s][i]
      /\ Len(buffer[s]) + 1 \in 1..Len(c) /\ c[Len(buffer[s]) + 1] = x
      /\ \A i \in 1..Len(c) : c[i] = x \/ \E j \in 1..Len(buffer[s]) : c[i] = buffer[s][j]
      /\ Acks(c) \subseteq Acks(buffer[s]) \cup {maxReceived[s]}
      /\ Numbers(c) = Numbers(buffer[s]) \cup {x.n}
  <2>1. c = Append(buffer[s], x)
    OBVIOUS
  <2> HIDE DEF c
  <2>2. /\ c \in Seq(Envelope) /\ Len(c) = Len(buffer[s]) + 1
        /\ \A i \in 1..Len(buffer[s]) : i \in 1..Len(c) /\ c[i] = buffer[s][i]
        /\ Len(buffer[s]) + 1 \in 1..Len(c) /\ c[Len(buffer[s]) + 1] = x
    BY <1>2, <1>3, <2>1, OneMore
  <2>3. \A i \in 1..Len(c) : c[i] = x \/ \E j \in 1..Len(buffer[s]) : c[i] = buffer[s][j]
    BY <1>2, <1>3, <2>1, OneMore
  <2>4. /\ Acks(c) \subseteq Acks(buffer[s]) \cup {x.ack}
        /\ Numbers(c) = Numbers(buffer[s]) \cup ({x.n} \ {0})
    BY <1>2, <1>3, <2>1, OneMoreSets, Zenon
  <2> QED
    BY <1>3, <2>2, <2>3, <2>4
<1>8. /\ v \in Seq(Envelope) /\ \A i \in 1..Len(v) : v[i] = x \/ \E j \in 1..Len(wire[p]) : v[i] = wire[p][j]
      /\ Acks(v) \subseteq Acks(wire[p]) \cup {maxReceived[s]}
      /\ Numbers(wire[p]) \subseteq Numbers(v)
      /\ Reaches(s) => x.n \in Numbers(v)
  <2>1. CASE ~Reaches(s)
    BY <1>2, <1>5, <2>1
  <2>2. CASE Reaches(s)
    <3>1. v = Append(wire[p], x)
      BY <1>6, <2>2
    <3> HIDE DEF p
    <3>2. v \in Seq(Envelope) /\ \A i \in 1..Len(v) : v[i] = x \/ \E j \in 1..Len(wire[p]) : v[i] = wire[p][j]
      BY <1>2, <1>3, <3>1, OneMore
    <3>3. /\ Acks(v) \subseteq Acks(wire[p]) \cup {x.ack}
          /\ Numbers(v) = Numbers(wire[p]) \cup ({x.n} \ {0})
      BY <1>2, <1>3, <3>1, OneMoreSets, Zenon
    <3> QED
      BY <1>3, <3>2, <3>3
  <2> QED
    BY <2>1, <2>2
<1>9. /\ buffer'[s] = c /\ buffer'[p] = buffer[p] /\ wire'[p] = v /\ wire'[s] = wire[s]
      /\ next'[s] = next[s] + 1 /\ next'[p] = next[p] /\ sent'[s] = sent[s] + 1 /\ sent'[p] = sent[p]
      /\ got' = got /\ maxReceived' = maxReceived /\ (Opened' <=> Opened)
  BY <1>1, <1>4 DEF Typed, Opened
<1>10. /\ next' \in [Sides -> Nat] /\ sent' \in [Sides -> Nat]
       /\ buffer' \in [Sides -> Seq(Envelope)] /\ wire' \in [Sides -> Seq(Envelope)]
  BY <1>1, <1>2, <1>4, <1>7, <1>8, SMTT(30) DEF Typed
<1> HIDE DEF c
<1>11. /\ spoiled' \in [Sides -> BOOLEAN] /\ \A t \in Sides : spoiled[t] => spoiled'[t]
       /\ ~spoiled'[s] => Ordered(v, c, got[p])
  BY <1>1, <1>4, <1>7, <1>8, <1>9, SpoilOrders
<1>12. Typed'
  BY <1>1, <1>4, <1>10, <1>11 DEF Typed
<1>13. Acknowledged(s)' = Acknowledged(s)
  BY <1>1, <1>9 DEF Acknowledged
<1>14. Acknowledged(p)' \subseteq Acknowledged(p)
  <2>1. Acknowledged(p)' = Acks(v) \cup Acks(c) \cup {a \in {maxReceived[s]} : Opened \/ p = "client"}
    BY <1>1, <1>9 DEF Acknowledged
  <2>2. Acknowledged(p) = Acks(wire[p]) \cup Acks(buffer[s])
                            \cup {a \in {maxReceived[s]} : Opened \/ p = "client"}
    BY <1>1 DEF Acknowledged
  <2>3. Opened \/ p = "client"
    BY <1>1, <1>4
  <2> QED
    BY <1>7, <1>8, <2>1, <2>2, <2>3
<1>15. Direction(s) /\ Direction(p)
  BY <1>1 DEF Core
<1>16. Numbered(v, c, next[s] + 1, sent[s] + 1)
  <2>1. Numbered(wire[p], buffer[s], next[s], sent[s])
    BY <1>15 DEF Direction, p
  <2> HIDE DEF p
  <2> QED
    BY <1>2, <1>3, <1>8, <2>1, NewNumbered DEF c
<1>17. AcksGiven(s)'
  <2>1. \A a \in Nat : Given(s, a) => Given(s, a)'
    BY <1>2, <1>9 DEF Given
  <2>2. Acknowledged(s) \subseteq Nat
    BY <1>1, AcknowledgedTyped
  <2> QED
    BY <1>13, <1>15, <2>1, <2>2 DEF AcksGiven, Direction
<1>18. AcksGiven(p)'
  <2>1. \A a : Given(p, a)' <=> Given(p, a)
    BY <1>9 DEF Given
  <2> QED
    BY <1>14, <1>15, <2>1 DEF AcksGiven, Direction
<1>19. ASSUME ~spoiled'[s] PROVE Unspoiled(s)'
  <2>1. Retained(buffer[s], got[p], sent[s]) /\ AcksCover(s) /\ AcksGiven(s)
    BY <1>1, <1>11, <1>15, <1>19 DEF Direction, Unspoiled
  <2>2. Retained(c, got[p], sent[s] + 1)
    <3> SUFFICES ASSUME NEW n \in 1..(sent[s] + 1)
                 PROVE  n \in Range(got[p]) \/ \E k \in 1..Len(c) : c[k].n = n
      BY DEF Retained
    <3>1. CASE n \in 1..sent[s]
      BY <1>7, <2>1, <3>1 DEF Retained
    <3>2. CASE n = sent[s] + 1
      BY <1>3, <1>7, <3>2
    <3> QED
      BY <1>2, <3>1, <3>2
  <2>3. \A a \in Acknowledged(s) : Covered(c, got[p], a)
    <3> TAKE a \in Acknowledged(s)
    <3>1. a \in Nat /\ Given(s, a) /\ Covered(buffer[s], got[p], a)
      BY <1>1, <2>1, AcknowledgedTyped DEF AcksGiven, AcksCover
    <3>2. s = "client" => next["client"] > 0
      BY <1>4 DEF Core, Opening
    <3>3. ~(x.id <= a)
      BY <1>2, <1>3, <3>1, <3>2 DEF Given
    <3> QED
      BY <1>7, <3>1, <3>3 DEF Covered
  <2>4. AcksCover(s)'
    BY <1>1, <1>9, <1>13, <2>3 DEF AcksCover
  <2> QED
    BY <1>1, <1>9, <1>11, <1>19, <2>2, <2>4 DEF Unspoiled
<1>20. ASSUME ~spoiled'[p] PROVE Unspoiled(p)'
  <2>1. Ordered(wire[s], buffer[p], got[s]) /\ Retained(buffer[p], got[s], sent[p]) /\ AcksCover(p)
    BY <1>1, <1>11, <1>15, <1>20 DEF Direction, Unspoiled
  <2>2. AcksCover(p)'
    BY <1>1, <1>9, <1>14, <2>1 DEF AcksCover
  <2> QED
    BY <1>1, <1>9, <2>1, <2>2 DEF Unspoiled
<1>21. \A t \in Sides : Direction(t)'
  <2>1. Direction(s)'
    BY <1>1, <1>9, <1>16, <1>17, <1>19 DEF Direction
  <2>2. Direction(p)'
    BY <1>1, <1>9, <1>15, <1>18, <1>20 DEF Direction
  <2> QED
    BY <1>1, <2>1, <2>2
<1>22. InFlight'
  <2>1. InFlight /\ settled' = settled /\ breaks' = breaks /\ link' = link
    BY <1>4 DEF Core
  <2>2. (settled[s] \/ breaks = 0) => UnderWay(s)'
    <3> SUFFICES ASSUME settled[s] \/ breaks = 0 PROVE UnderWay(s)'
      OBVIOUS
    <3>1. UnderWay(s) /\ Reaches(s)
      BY <1>1, <2>1 DEF InFlight, Reaches
    <3>2. Numbers(buffer[s]) \subseteq Numbers(wire[p]) \cup Range(got[p])
      BY <3>1 DEF UnderWay
    <3>3. Numbers(c) \subseteq Numbers(v) \cup Range(got[p])
      BY <1>7, <1>8, <3>1, <3>2
    <3> QED
      BY <1>9, <3>3 DEF UnderWay
  <2>3. UnderWay(p) => UnderWay(p)'
    BY <1>1, <1>9 DEF UnderWay
  <2> QED
    BY <1>1, <2>1, <2>2, <2>3 DEF InFlight
<1>23. Opening'
  <2>1. Opening /\ breaks' = breaks
    BY <1>4 DEF Core
  <2>2. CASE s = "client"
    <3>1. p = "server" /\ Opened /\ next["client"] \in Nat
      BY <1>2, <1>4, <2>2 DEF Peer
    <3>2. next'["client"] > 0
      BY <1>2, <1>9, <2>2
    <3> QED
      BY <1>9, <2>1, <2>2, <3>1, <3>2 DEF Opening
  <2>3. CASE s = "server"
    <3>1. p = "client"
      BY <2>3 DEF Peer
    <3>2. NoFlush(v)
      BY <1>3, <1>8, <2>1, <3>1 DEF NoFlush, Opening
    <3>3. Reaches(s)
      BY <2>3 DEF Reaches
    <3>4. wire[p] # <<>> => v # <<>> /\ v[1] = wire[p][1]
      <4>1. v = Append(wire[p], x)
        BY <1>6, <3>3
      <4>2. Len(v) = Len(wire[p]) + 1 /\ \A i \in 1..Len(wire[p]) : v[i] = wire[p][i]
        BY <1>2, <1>3, <4>1, OneMore
      <4>3. wire[p] # <<>> => 1 \in 1..Len(wire[p])
        BY <1>2
      <4>4. v # <<>>
        BY <1>2, <1>8, <4>2
      <4> QED
        BY <4>2, <4>3, <4>4
    <3> QED
      BY <1>9, <2>1, <2>3, <3>1, <3>2, <3>4 DEF Opening
  <2> QED
    BY <1>1, <2>2, <2>3
<1> QED
  BY <1>12, <1>21, <1>22, <1>23 DEF Core

\* A piece of a queue
LEMMA Piece ==
  ASSUME NEW w \in Seq(Envelope), NEW m \in 1..(Len(w) + 1), NEW n \in 0..Len(w)
  PROVE  /\ SubSeq(w, m, n) \in Seq(Envelope)
         /\ \A i \in 1..Len(SubSeq(w, m, n)) : \E j \in 1..Len(w) : SubSeq(w, m, n)[i] = w[j]
<1>1. Len(w) \in Nat /\ \A i \in m..n : w[i] \in Envelope
  OBVIOUS
<1>2. /\ SubSeq(w, m, n) \in Seq(Envelope)
      /\ Len(SubSeq(w, m, n)) = IF m <= n THEN n - m + 1 ELSE 0
      /\ \A i \in 1..(n - m + 1) : SubSeq(w, m, n)[i] = w[m + i - 1]
  BY <1>1, SubSeqProperties
<1>3. \A i \in 1..Len(SubSeq(w, m, n)) : m <= n /\ i \in 1..(n - m + 1)
  BY <1>2
<1>4. \A i \in 1..(n - m + 1) : m <= n => m + i - 1 \in 1..Len(w)
  BY <1>1
<1> QED
  BY <1>2, <1>3, <1>4

\* The connection breaks: a part of what is on the wires is lost
LEMMA BreakStep ==
  ASSUME Core, Break
  PROVE  Core'
<1>1. /\ Typed /\ Sides = {"client", "server"} /\ Peer("client") = "server"
      /\ Peer("server") = "client" /\ Opened /\ breaks \in Nat /\ "client" \in Sides
      /\ "server" \in Sides
  BY DEF Break, Core, Typed, Sides, Peer
<1>2. wire["server"] \in Seq(Envelope) /\ wire["client"] \in Seq(Envelope)
  BY <1>1 DEF Typed
<1>3. PICK read \in 0..Len(wire["server"]), written \in 0..Len(wire["client"]) :
        wire' = [wire EXCEPT !["server"] = SubSeq(@, 1, read),
                             !["client"] = SubSeq(@, written + 1, Len(@))]
  BY DEF Break
<1>4. /\ wire'["server"] = SubSeq(wire["server"], 1, read)
      /\ wire'["client"] = SubSeq(wire["client"], written + 1, Len(wire["client"]))
  BY <1>1, <1>3 DEF Typed
<1>5. /\ Len(wire["server"]) \in Nat /\ Len(wire["client"]) \in Nat
      /\ 1 \in 1..(Len(wire["server"]) + 1) /\ written + 1 \in 1..(Len(wire["client"]) + 1)
      /\ Len(wire["client"]) \in 0..Len(wire["client"])
  BY <1>2
<1>6. \A s \in Sides : /\ wire'[s] \in Seq(Envelope)
                       /\ \A i \in 1..Len(wire'[s]) : \E j \in 1..Len(wire[s]) : wire'[s][i] = wire[s][j]
  <2>1. /\ wire'["server"] \in Seq(Envelope)
        /\ \A i \in 1..Len(wire'["server"]) : \E j \in 1..Len(wire["server"]) : wire'["server"][i] = wire["server"][j]
    BY <1>2, <1>4, <1>5, Piece
  <2>2. /\ wire'["client"] \in Seq(Envelope)
        /\ \A i \in 1..Len(wire'["client"]) : \E j \in 1..Len(wire["client"]) : wire'["client"][i] = wire["client"][j]
    BY <1>2, <1>4, <1>5, Piece
  <2> TAKE s \in Sides
  <2>3. CASE s = "server"
    BY <2>1, <2>3, Zenon
  <2>4. CASE s = "client"
    BY <2>2, <2>4, Zenon
  <2> QED
    BY <1>1, <2>3, <2>4
<1>7. /\ link' = "down" /\ breaks' = breaks + 1 /\ settled' = [s \in Sides |-> FALSE]
      /\ UNCHANGED <<next, buffer, maxReceived, flush, resending, sent, got>> /\ Spoil
  BY DEF Break
<1>8. breaks' \in Nat /\ breaks' # 0 /\ Opened'
  BY <1>1, <1>7 DEF Opened
<1>9. \A s \in Sides : /\ wire'[Peer(s)] \in Seq(Envelope) /\ buffer'[s] \in Seq(Envelope)
  BY <1>1, <1>6, <1>7 DEF Typed
<1>10. /\ spoiled' \in [Sides -> BOOLEAN] /\ \A t \in Sides : spoiled[t] => spoiled'[t]
       /\ \A s \in Sides : ~spoiled'[s] => Ordered(wire'[Peer(s)], buffer'[s], got'[Peer(s)])
  BY <1>1, <1>7, <1>9, SpoilOrders
<1>11. Typed'
  <2>1. wire' \in [Sides -> Seq(Envelope)]
    BY <1>1, <1>3, <1>4, <1>6 DEF Typed
  <2>2. settled' \in [Sides -> BOOLEAN]
    BY <1>7
  <2> QED
    BY <1>1, <1>7, <1>8, <1>10, <2>1, <2>2 DEF Typed
<1>12. ASSUME NEW s \in Sides PROVE Direction(s)'
  <2>1. Peer(s) \in Sides /\ Direction(s) /\ buffer[s] \in Seq(Envelope) /\ wire[Peer(s)] \in Seq(Envelope)
    BY <1>1 DEF Core, Typed
  <2>2. Numbered(wire'[Peer(s)], buffer[s], next[s], sent[s])
    BY <1>6, <2>1, FewerNumbered DEF Direction
  <2>3. Acknowledged(s)' \subseteq Acknowledged(s)
    <3>1. \A i \in 1..Len(wire'[s]) : \E j \in 1..Len(wire[s]) : wire'[s][i] = wire[s][j]
      BY <1>6
    <3>2. Acks(wire'[s]) \subseteq Acks(wire[s])
      BY <3>1, PartAcks, Zenon
    <3> QED
      BY <1>1, <1>7, <3>2 DEF Acknowledged
  <2>4. AcksGiven(s)'
    <3>1. \A a : Given(s, a)' <=> Given(s, a)
      BY <1>7 DEF Given
    <3> QED
      BY <2>1, <2>3, <3>1 DEF Direction, AcksGiven
  <2>5. ASSUME ~spoiled'[s] PROVE Unspoiled(s)'
    <3>1. Retained(buffer[s], got[Peer(s)], sent[s]) /\ AcksCover(s)
      BY <1>10, <2>1, <2>5 DEF Direction, Unspoiled
    <3>2. AcksCover(s)'
      BY <1>7, <2>3, <3>1 DEF AcksCover
    <3> QED
      BY <1>7, <1>10, <2>5, <3>1, <3>2 DEF Unspoiled
  <2> QED
    BY <1>7, <2>2, <2>4, <2>5 DEF Direction
<1>13. Opening'
  <2>1. next["client"] > 0 /\ NoFlush(wire["client"])
    BY <1>1 DEF Core, Opening
  <2>2. NoFlush(wire'["client"])
    <3>1. \A i \in 1..Len(wire'["client"]) : \E j \in 1..Len(wire["client"]) : wire'["client"][i] = wire["client"][j]
      BY <1>1, <1>6
    <3> QED
      BY <2>1, <3>1, PartNoFlush, Zenon
  <2> QED
    BY <1>7, <1>8, <2>1, <2>2 DEF Opening
<1>14. InFlight'
  BY <1>1, <1>7, <1>8 DEF InFlight
<1> QED
  BY <1>11, <1>12, <1>13, <1>14 DEF Core

-----------------------------------------------------------------------------
\* A new connection satisfies the invariant
LEMMA InitIInv == Init => IInv
<1> SUFFICES ASSUME Init PROVE IInv
  OBVIOUS
<1>1. Started \in Envelope /\ Started.kind = "started" /\ Started.ack = None /\ Started.n = 0
  BY DEF Started, Envelope
<1>2. /\ next = [s \in Sides |-> 0] /\ maxReceived = [s \in Sides |-> 0]
      /\ buffer = [s \in Sides |-> <<>>] /\ wire = [s \in Sides |-> <<Started>>]
      /\ link = "up" /\ flush = None /\ resending = FALSE
      /\ settled = [s \in Sides |-> FALSE] /\ sent = [s \in Sides |-> 0]
      /\ got = [s \in Sides |-> <<>>] /\ spoiled = [s \in Sides |-> FALSE] /\ breaks = 0
  BY DEF Init
<1> HIDE DEF Started
<1>3. <<Started>> \in Seq(Envelope) /\ Len(<<Started>>) = 1 /\ <<Started>>[1] = Started /\ <<Started>> # <<>>
  BY <1>1
<1>4. Typed
  <2>1. /\ next \in [Sides -> Nat] /\ maxReceived \in [Sides -> Nat] /\ sent \in [Sides -> Nat]
        /\ link \in {"up", "down"} /\ flush \in Nat \cup {None} /\ breaks \in Nat
    BY <1>2
  <2>2. settled \in [Sides -> BOOLEAN] /\ spoiled \in [Sides -> BOOLEAN] /\ resending \in BOOLEAN
    BY <1>2
  <2>3. buffer \in [Sides -> Seq(Envelope)] /\ got \in [Sides -> Seq(Nat)]
    BY <1>2
  <2>4. wire \in [Sides -> Seq(Envelope)]
    BY <1>2, <1>3
  <2> QED
    BY <2>1, <2>2, <2>3, <2>4 DEF Typed
<1>5. "client" \in Sides /\ "server" \in Sides /\ Idle /\ ~Opened
  BY <1>2 DEF Sides, Idle, Opened
<1>6. Acks(<<Started>>) = {} /\ Acks(<<>>) = {} /\ Numbers(<<>>) = {} /\ NoFlush(<<Started>>)
  BY <1>1, <1>3 DEF Acks, Numbers, NoFlush
<1>7. Opening
  BY <1>1, <1>2, <1>3, <1>5, <1>6 DEF Opening
<1>8. InFlight
  BY <1>2, <1>6 DEF InFlight, UnderWay
<1>9. ASSUME NEW s \in Sides PROVE Direction(s)
  <2>1. Peer(s) \in Sides
    BY Peers
  <2>2. /\ wire[Peer(s)] = <<Started>> /\ wire[s] = <<Started>> /\ buffer[s] = <<>>
        /\ buffer[Peer(s)] = <<>> /\ next[s] = 0 /\ sent[s] = 0 /\ maxReceived[Peer(s)] = 0
    BY <1>2, <2>1
  <2>3. Numbered(<<Started>>, <<>>, 0, 0)
    BY <1>1, <1>3 DEF Numbered, Genuine, Counts
  <2>4. Acknowledged(s) = {a \in {0} : s = "client"}
    BY <1>5, <1>6, <2>2 DEF Acknowledged
  <2>5. AcksGiven(s)
    BY <2>4 DEF AcksGiven, Given
  <2>6. Unspoiled(s)
    BY <2>2 DEF Unspoiled, Ordered, Retained, AcksCover, Covered
  <2> QED
    BY <2>2, <2>3, <2>5, <2>6 DEF Direction
<1> QED
  BY <1>4, <1>5, <1>7, <1>8, <1>9 DEF IInv, Core

\* resync() runs only after a connection was lost
LEMMA IdleStep ==
  ASSUME IInv, [Next]_vars
  PROVE  Idle'
<1>1. Idle /\ InFlight /\ breaks \in Nat
  BY DEF IInv, Core, Typed
<1>2. ASSUME NEW s \in Sides, Send(s) \/ HandleFlush(s) \/ HandleStarted(s) \/ HandleData(s)
      PROVE  UNCHANGED <<flush, resending, breaks>>
  BY <1>2 DEF Send, HandleFlush, HandleStarted, HandleData
<1>3. ASSUME NEW s \in Sides, HandleAck(s)
      PROVE  Idle'
  BY <1>1, <1>3 DEF HandleAck, Idle
<1>4. ASSUME Resend PROVE Idle'
  BY <1>1, <1>4 DEF Resend, Idle
<1>5. ASSUME Break PROVE Idle'
  BY <1>1, <1>5 DEF Break, Idle
<1>6. ASSUME Reconnect PROVE Idle'
  BY <1>1, <1>6 DEF Reconnect, Idle, InFlight
<1>7. ASSUME UNCHANGED vars PROVE Idle'
  BY <1>1, <1>7 DEF vars, Idle
<1> QED
  BY <1>1, <1>2, <1>3, <1>4, <1>5, <1>6, <1>7 DEF Next, Handle, Idle

\* Every step keeps the invariant
LEMMA NextIInv ==
  ASSUME IInv, [Next]_vars
  PROVE  IInv'
<1>1. Core
  BY DEF IInv
<1>2. ASSUME NEW s \in Sides, Send(s) PROVE Core'
  BY <1>1, <1>2, SendStep
<1>3. ASSUME NEW s \in Sides, Handle(s) PROVE Core'
  BY <1>1, <1>3, HandleFlushStep, HandleStartedStep, HandleDataStep, HandleAckStep DEF Handle
<1>4. ASSUME Resend PROVE Core'
  BY <1>4, ResendStep
<1>5. ASSUME Break PROVE Core'
  BY <1>1, <1>5, BreakStep
<1>6. ASSUME Reconnect PROVE Core'
  BY <1>6, ReconnectStep
<1>7. ASSUME UNCHANGED vars PROVE Core'
  BY <1>1, <1>7 DEF vars, Core, Typed, Opening, InFlight, Direction, AcksGiven, Given, Acknowledged,
       Unspoiled, AcksCover, UnderWay, Opened
<1>8. Core'
  BY <1>2, <1>3, <1>4, <1>5, <1>6, <1>7 DEF Next
<1> QED
  BY <1>8, IdleStep DEF IInv

\* The invariant holds in every reachable state of the two channel clients
THEOREM Invariance == Spec => []IInv
<1>1. IInv /\ [Next]_vars => IInv'
  BY NextIInv
<1> QED
  BY <1>1, InitIInv, PTL DEF Spec

\* An end that has handled the handshake of a connection (the flush, its answer and
\* the resend) has nothing to wait for: every buffered message is under way or delivered
THEOREM NothingWaits == Spec => []SettledMeansUnderWay
<1>1. IInv => SettledMeansUnderWay
  BY DEF IInv, Core, InFlight, UnderWay, SettledMeansUnderWay, Lost
<1> QED
  BY <1>1, Invariance, PTL

\* A message that left its sender's buffer undelivered left it in a channel that was
\* spoiled
LEMMA Releasing ==
  ASSUME IInv, NEW s \in Sides, NEW n \in 1..MaxSend, n <= sent[s], n \notin Range(got[Peer(s)]),
         n \notin Numbers(buffer[s])
  PROVE  spoiled[s]
<1> SUFFICES ASSUME ~spoiled[s] PROVE FALSE
  OBVIOUS
<1>1. Retained(buffer[s], got[Peer(s)], sent[s]) /\ buffer[s] \in Seq(Envelope) /\ sent[s] \in Nat
  BY DEF IInv, Core, Direction, Unspoiled, Typed
<1>2. n \in 1..sent[s] /\ n # 0
  BY <1>1, BoundsAssumption
<1>3. PICK k \in 1..Len(buffer[s]) : buffer[s][k].n = n
  BY <1>1, <1>2 DEF Retained
<1> QED
  BY <1>1, <1>2, <1>3, NumbersOf

-----------------------------------------------------------------------------
\* A message that is received when all is in order is the next one, or was received before
LEMMA InOrder ==
  ASSUME Core, NEW s \in Sides, HandleData(s), ~spoiled[Peer(s)], NEW k \in 1..(Head(wire[s]).n - 1)
  PROVE  k \in Range(got[s])
<1> DEFINE p == Peer(s)
           h == wire[s][1]
<1>1. /\ p \in Sides /\ Peer(p) = s /\ Typed /\ wire[s] # <<>> /\ Head(wire[s]).kind = "data"
  BY Peers DEF HandleData, Incoming, Core
<1>2. Head(wire[s]) = h /\ 1 \in 1..Len(wire[s]) /\ h \in Envelope /\ h.n \in Nat /\ h.id \in Nat
  BY <1>1, Popped
<1>3. /\ Numbered(wire[s], buffer[p], next[p], sent[p])
      /\ Ordered(wire[s], buffer[p], got[s]) /\ Retained(buffer[p], got[s], sent[p])
  BY <1>1 DEF Core, Direction, Unspoiled
<1>4. buffer[p] \in Seq(Envelope) /\ sent[p] \in Nat
  BY <1>1 DEF Typed
<1>5. h.kind = "data" /\ Counts(h) /\ Genuine(h, next[p], sent[p])
  BY <1>1, <1>2, <1>3 DEF Numbered, Counts
<1>6. k \in 1..sent[p]
  BY <1>2, <1>4, <1>5 DEF Genuine
<1>7. ASSUME NEW j \in 1..Len(buffer[p]), buffer[p][j].n = k, k \notin Range(got[s])
      PROVE  FALSE
  <2>1. InStep(buffer[p][j], h) /\ buffer[p][j].n < h.n
    BY <1>2, <1>3, <1>7 DEF Numbered
  <2>2. buffer[p][j].id < h.id
    BY <1>5, <2>1 DEF InStep
  <2>3. \E i \in 1..(1 - 1) : wire[s][i].n = buffer[p][j].n
    BY <1>2, <1>3, <1>5, <1>7, <2>2 DEF Ordered
  <2> QED
    BY <2>3
<1> QED
  BY <1>3, <1>6, <1>7 DEF Retained

\* What a step does to a direction: nothing, a send, a spoiling or a delivery
Moves(t) ==
  \/ sent'[t] = sent[t] + 1 /\ spoiled'[t] \in {spoiled[t], TRUE} /\ got'[Peer(t)] = got[Peer(t)]
  \/ spoiled'[t] = TRUE /\ sent'[t] = sent[t] /\ got'[Peer(t)] = got[Peer(t)]
  \/ \E n \in 1..sent[t] :
       /\ spoiled[t] \/ \A k \in 1..(n - 1) : k \in Range(got[Peer(t)])
       /\ got'[Peer(t)] = Append(got[Peer(t)], n)
       /\ sent'[t] = sent[t] /\ spoiled'[t] = spoiled[t]
  \/ sent'[t] = sent[t] /\ got'[Peer(t)] = got[Peer(t)] /\ spoiled'[t] = spoiled[t]

\* Every step moves each direction as ReliableChannel allows, or not at all
LEMMA EveryStepMoves ==
  ASSUME Core, [Next]_vars, NEW t \in Sides
  PROVE  Moves(t)
<1>1. Typed /\ Peer(t) \in Sides /\ Peer(t) # t /\ Peer(Peer(t)) = t /\ Sides = {t, Peer(t)}
  BY Peers DEF Core
<1>2. spoiled[t] \in BOOLEAN
  BY <1>1 DEF Typed
<1>3. ASSUME Spoil PROVE spoiled'[t] \in {spoiled[t], TRUE}
  BY <1>2, <1>3 DEF Spoil
<1>4. ASSUME NEW s \in Sides, Send(s) PROVE Moves(t)
  <2>1. got' = got /\ Spoil /\ sent' = [sent EXCEPT ![s] = sent[s] + 1]
    BY <1>4 DEF Send
  <2>2. sent'[t] = IF t = s THEN sent[t] + 1 ELSE sent[t]
    BY <1>1, <2>1 DEF Typed
  <2> QED
    BY <1>3, <2>1, <2>2 DEF Moves
<1>5. ASSUME NEW s \in Sides, HandleFlush(s) \/ HandleAck(s) PROVE Moves(t)
  BY <1>5 DEF HandleFlush, HandleAck, Moves
<1>6. ASSUME NEW s \in Sides, HandleStarted(s) PROVE Moves(t)
  <2>1. got' = got /\ Spoil /\ sent' = sent
    BY <1>6 DEF HandleStarted
  <2> QED
    BY <1>3, <2>1 DEF Moves
<1>7. ASSUME NEW s \in Sides, HandleData(s) PROVE Moves(t)
  <2>1. sent' = sent /\ spoiled' = spoiled /\ got' = [got EXCEPT ![s] = Append(got[s], Head(wire[s]).n)]
    BY <1>7 DEF HandleData
  <2>2. CASE s = t
    <3>1. got'[Peer(t)] = got[Peer(t)]
      BY <1>1, <2>1, <2>2 DEF Typed
    <3> QED
      BY <2>1, <3>1 DEF Moves
  <2>3. CASE s = Peer(t)
    <3> DEFINE n == Head(wire[s]).n
    <3>1. n \in 1..sent[t]
      <4>1. wire[s] # <<>> /\ Head(wire[s]).kind = "data"
        BY <1>7 DEF HandleData, Incoming
      <4>2. Head(wire[s]) = wire[s][1] /\ 1 \in 1..Len(wire[s])
        BY <1>1, <4>1, Popped
      <4>3. Numbered(wire[s], buffer[t], next[t], sent[t])
        BY <2>3 DEF Core, Direction
      <4> QED
        BY <4>1, <4>2, <4>3 DEF Numbered, Genuine
    <3>2. spoiled[t] \/ \A k \in 1..(n - 1) : k \in Range(got[s])
      BY <1>1, <1>7, <2>3, InOrder
    <3>3. got'[s] = Append(got[s], n)
      BY <1>1, <2>1 DEF Typed
    <3> HIDE DEF n
    <3> QED
      BY <2>1, <2>3, <3>1, <3>2, <3>3 DEF Moves
  <2> QED
    BY <1>1, <2>2, <2>3
<1>8. ASSUME Resend \/ Reconnect PROVE Moves(t)
  BY <1>8 DEF Resend, Reconnect, Moves
<1>9. ASSUME Break PROVE Moves(t)
  <2>1. got' = got /\ Spoil /\ sent' = sent
    BY <1>9 DEF Break
  <2> QED
    BY <1>3, <2>1 DEF Moves
<1>10. ASSUME UNCHANGED vars PROVE Moves(t)
  BY <1>10 DEF vars, Moves
<1> QED
  BY <1>4, <1>5, <1>6, <1>7, <1>8, <1>9, <1>10 DEF Next, Handle

\* Both directions of the connection implement ReliableChannel: the handlers see
\* first deliveries in the order of the sends, whatever is lost, resent and
\* acknowledged in between, until a direction is spoiled
THEOREM Implementation == Spec => ImplementsChannels
<1>1. Init => ToServer!Init /\ ToClient!Init
  BY DEF Init, ToServer!Init, ToClient!Init, Sides
<1>2. ASSUME IInv, [Next]_vars PROVE [ToServer!Next]_(ToServer!vars)
  <2>1. Moves("client") /\ Peer("client") = "server"
    BY <1>2, EveryStepMoves DEF IInv, Sides, Peer
  <2>2. Range(got["server"]) = ToServer!Numbers(got["server"])
    BY DEF Range, ToServer!Numbers
  <2> QED
    BY <2>1, <2>2 DEF Moves, ToServer!Next, ToServer!vars, ToServer!Send, ToServer!Spoil, ToServer!Deliver
<1>3. ASSUME IInv, [Next]_vars PROVE [ToClient!Next]_(ToClient!vars)
  <2>1. Moves("server") /\ Peer("server") = "client"
    BY <1>3, EveryStepMoves DEF IInv, Sides, Peer
  <2>2. Range(got["client"]) = ToClient!Numbers(got["client"])
    BY DEF Range, ToClient!Numbers
  <2> QED
    BY <2>1, <2>2 DEF Moves, ToClient!Next, ToClient!vars, ToClient!Send, ToClient!Spoil, ToClient!Deliver
<1> QED
  BY <1>1, <1>2, <1>3, Invariance, PTL DEF Spec, ImplementsChannels, ToServer!Spec, ToClient!Spec

-----------------------------------------------------------------------------
(***************************************************************************)
(* Up to its second lost connection a channel forgets nothing, spoiled or   *)
(* not.  After the first one each end may release what an old                *)
(* acknowledgement covers only until it takes part in the handshake; these   *)
(* are the acknowledgements ahead of the flush, and ahead of its answer.     *)
(***************************************************************************)
Flushes == {x \in Envelope : x.kind = "flush"}
Answers(f) == {x \in Envelope : x.kind = "ack" /\ x.re = f}

\* None of the envelopes in M is before position i of q
Ahead(q, i, M) == \A j \in 1..(i - 1) : q[j] \notin M

\* Covered and Ordered, of the front of a wire
CoveredUntil(q, M, b, g) ==
  \A i \in 1..Len(q) : Ahead(q, i, M) /\ q[i].ack # None => Covered(b, g, q[i].ack)
OrderedUntil(q, M, b, g) ==
  \A i \in 1..Len(q), k \in 1..Len(b) :
    Ahead(q, i, M) /\ Counts(q[i]) /\ b[k].id < q[i].id /\ b[k].n \notin Range(g) =>
      \E j \in 1..(i - 1) : q[j].n = b[k].n

\* The front of a wire behaves like the whole of it: more is delivered,
LEMMA DeliverUntil ==
  ASSUME NEW w, NEW M, NEW b, NEW g, NEW f, Range(g) \subseteq Range(f)
  PROVE  /\ CoveredUntil(w, M, b, g) => CoveredUntil(w, M, b, f)
         /\ \A a : Covered(b, g, a) => Covered(b, f, a)
BY DEF CoveredUntil, Covered

\* the buffer loses its front,
LEMMA SuffixUntil ==
  ASSUME NEW w, NEW M, NEW b \in Seq(Envelope), NEW g, NEW u, NEW d, Suffix(u, b, d)
  PROVE  /\ CoveredUntil(w, M, b, g) => CoveredUntil(w, M, u, g)
         /\ OrderedUntil(w, M, b, g) => OrderedUntil(w, M, u, g)
<1>1. \A k \in 1..Len(u) : k + d \in 1..Len(b) /\ u[k] = b[k + d]
  BY DEF Suffix
<1>2. CoveredUntil(w, M, b, g) => CoveredUntil(w, M, u, g)
  BY <1>1 DEF CoveredUntil, Covered
<1>3. OrderedUntil(w, M, b, g) => OrderedUntil(w, M, u, g)
  BY <1>1 DEF OrderedUntil
<1> QED
  BY <1>2, <1>3

\* Positions of the rest of a wire
LEMMA AheadOfTail ==
  ASSUME NEW w \in Seq(Envelope), w # <<>>, NEW M, w[1] \notin M, NEW i \in 1..Len(Tail(w)),
         Ahead(Tail(w), i, M)
  PROVE  i + 1 \in 1..Len(w) /\ Tail(w)[i] = w[i + 1] /\ Ahead(w, i + 1, M)
<1> DEFINE v == Tail(w)
<1>1. Len(w) \in Nat /\ Len(v) = Len(w) - 1 /\ \A j \in 1..Len(v) : j + 1 \in 1..Len(w) /\ v[j] = w[j + 1]
  BY First
<1> HIDE DEF v
<1>2. ASSUME NEW j \in 1..((i + 1) - 1) PROVE w[j] \notin M
  <2>1. CASE j = 1
    BY <2>1
  <2>2. CASE j # 1
    <3>1. j - 1 \in 1..(i - 1) /\ j - 1 \in 1..Len(v) /\ (j - 1) + 1 = j
      BY <1>1, <2>2 DEF v
    <3>2. v[j - 1] \notin M
      BY <3>1 DEF Ahead, v
    <3> QED
      BY <1>1, <3>1, <3>2
  <2> QED
    BY <2>1, <2>2
<1> QED
  BY <1>1, <1>2 DEF Ahead, v

\* the first envelope is received,
LEMMA PopUntil ==
  ASSUME NEW w \in Seq(Envelope), w # <<>>, NEW M, w[1] \notin M, NEW b, NEW g,
         CoveredUntil(w, M, b, g)
  PROVE  CoveredUntil(Tail(w), M, b, g)
<1> SUFFICES ASSUME NEW i \in 1..Len(Tail(w)), Ahead(Tail(w), i, M), Tail(w)[i].ack # None
             PROVE  Covered(b, g, Tail(w)[i].ack)
  BY DEF CoveredUntil
<1>1. i + 1 \in 1..Len(w) /\ Tail(w)[i] = w[i + 1] /\ Ahead(w, i + 1, M)
  BY AheadOfTail
<1> QED
  BY <1>1 DEF CoveredUntil

LEMMA PopOrderedUntil ==
  ASSUME NEW w \in Seq(Envelope), w # <<>>, NEW M, w[1] \notin M, NEW b \in Seq(Envelope), NEW g, NEW f,
         OrderedUntil(w, M, b, g), Range(g) \subseteq Range(f),
         \A k \in 1..Len(b) : b[k].n = w[1].n => b[k].n \in Range(f)
  PROVE  OrderedUntil(Tail(w), M, b, f)
<1> DEFINE v == Tail(w)
<1>1. Len(v) = Len(w) - 1 /\ Len(w) \in Nat /\ \A i \in 1..Len(v) : v[i] = w[i + 1]
  BY First
<1> SUFFICES ASSUME NEW i \in 1..Len(v), NEW k \in 1..Len(b), Ahead(v, i, M), Counts(v[i]),
                    b[k].id < v[i].id, b[k].n \notin Range(f)
             PROVE  \E j \in 1..(i - 1) : v[j].n = b[k].n
  BY DEF OrderedUntil
<1>2. i + 1 \in 1..Len(w) /\ v[i] = w[i + 1] /\ Ahead(w, i + 1, M)
  BY AheadOfTail
<1> HIDE DEF v
<1>3. PICK j \in 1..((i + 1) - 1) : w[j].n = b[k].n
  BY <1>2 DEF OrderedUntil
<1>4. j # 1
  BY <1>3
<1>5. j - 1 \in 1..(i - 1) /\ j - 1 \in 1..Len(v) /\ (j - 1) + 1 = j
  BY <1>1, <1>2, <1>4
<1> QED
  BY <1>1, <1>3, <1>5

\* something is written behind an envelope in M,
LEMMA AheadOfMore ==
  ASSUME NEW w \in Seq(Envelope), NEW e \in Seq(Envelope), NEW M, NEW i \in 1..Len(w \o e),
         Ahead(w \o e, i, M), \E j \in 1..Len(w) : w[j] \in M
  PROVE  i \in 1..Len(w) /\ (w \o e)[i] = w[i] /\ Ahead(w, i, M)
<1> DEFINE v == w \o e
<1>1. /\ Len(v) = Len(w) + Len(e) /\ Len(w) \in Nat /\ Len(e) \in Nat
      /\ \A j \in 1..Len(w) : v[j] = w[j]
  BY Concat
<1> HIDE DEF v
<1>2. PICK j \in 1..Len(w) : w[j] \in M
  OBVIOUS
<1>3. j \notin 1..(i - 1)
  BY <1>1, <1>2 DEF Ahead, v
<1>4. i \in 1..Len(w)
  BY <1>1, <1>3 DEF v
<1>5. Ahead(w, i, M)
  BY <1>1, <1>4 DEF Ahead, v
<1> QED
  BY <1>1, <1>4, <1>5 DEF v

LEMMA BehindUntil ==
  ASSUME NEW w \in Seq(Envelope), NEW e \in Seq(Envelope), NEW M, \E j \in 1..Len(w) : w[j] \in M,
         NEW b, NEW g
  PROVE  /\ CoveredUntil(w, M, b, g) => CoveredUntil(w \o e, M, b, g)
         /\ OrderedUntil(w, M, b, g) => OrderedUntil(w \o e, M, b, g)
<1> DEFINE v == w \o e
<1>1. \A i \in 1..Len(v) : Ahead(v, i, M) => i \in 1..Len(w) /\ v[i] = w[i] /\ Ahead(w, i, M)
  BY AheadOfMore
<1>2. Len(w) \in Nat /\ \A j \in 1..Len(w) : v[j] = w[j]
  BY Concat
<1> HIDE DEF v
<1>3. CoveredUntil(w, M, b, g) => CoveredUntil(v, M, b, g)
  BY <1>1 DEF CoveredUntil
<1>4. ASSUME OrderedUntil(w, M, b, g) PROVE OrderedUntil(v, M, b, g)
  <2> SUFFICES ASSUME NEW i \in 1..Len(v), NEW k \in 1..Len(b), Ahead(v, i, M), Counts(v[i]),
                      b[k].id < v[i].id, b[k].n \notin Range(g)
               PROVE  \E j \in 1..(i - 1) : v[j].n = b[k].n
    BY DEF OrderedUntil
  <2>1. i \in 1..Len(w) /\ v[i] = w[i] /\ Ahead(w, i, M)
    BY <1>1
  <2>2. PICK j \in 1..(i - 1) : w[j].n = b[k].n
    BY <1>4, <2>1 DEF OrderedUntil
  <2>3. j \in 1..Len(w)
    BY <1>2, <2>1
  <2> QED
    BY <1>2, <2>2, <2>3
<1> QED
  BY <1>3, <1>4 DEF v

\* a message is sent whose id no acknowledgement covers and nothing counts beyond,
LEMMA NewestUntil ==
  ASSUME NEW w, NEW M, NEW b \in Seq(Envelope), NEW x \in Envelope, NEW g
  PROVE  /\ CoveredUntil(w, M, b, g) /\ (\A i \in 1..Len(w) : w[i].ack # None => ~(x.id <= w[i].ack))
              => CoveredUntil(w, M, Append(b, x), g)
         /\ OrderedUntil(w, M, b, g) /\ (\A i \in 1..Len(w) : Counts(w[i]) => ~(x.id < w[i].id))
              => OrderedUntil(w, M, Append(b, x), g)
         /\ \A a : Covered(b, g, a) /\ ~(x.id <= a) => Covered(Append(b, x), g, a)
<1> DEFINE c == Append(b, x)
<1>1. \A k \in 1..Len(c) : c[k] = x \/ \E l \in 1..Len(b) : c[k] = b[l]
  BY OneMore
<1> HIDE DEF c
<1>2. \A a : Covered(b, g, a) /\ ~(x.id <= a) => Covered(c, g, a)
  BY <1>1 DEF Covered
<1>3. CoveredUntil(w, M, b, g) /\ (\A i \in 1..Len(w) : w[i].ack # None => ~(x.id <= w[i].ack))
        => CoveredUntil(w, M, c, g)
  BY <1>2 DEF CoveredUntil
<1>4. OrderedUntil(w, M, b, g) /\ (\A i \in 1..Len(w) : Counts(w[i]) => ~(x.id < w[i].id))
        => OrderedUntil(w, M, c, g)
  <2> SUFFICES ASSUME OrderedUntil(w, M, b, g), \A i \in 1..Len(w) : Counts(w[i]) => ~(x.id < w[i].id),
                      NEW i \in 1..Len(w), NEW k \in 1..Len(c), Ahead(w, i, M), Counts(w[i]),
                      c[k].id < w[i].id, c[k].n \notin Range(g)
               PROVE  \E j \in 1..(i - 1) : w[j].n = c[k].n
    BY DEF OrderedUntil
  <2>1. c[k] # x
    BY Zenon
  <2>2. PICK l \in 1..Len(b) : c[k] = b[l]
    BY <1>1, <2>1, Zenon
  <2>3. \E j \in 1..(i - 1) : w[j].n = b[l].n
    BY <2>2 DEF OrderedUntil
  <2> QED
    BY <2>2, <2>3, Zenon
<1> QED
  BY <1>2, <1>3, <1>4 DEF c

\* and the first envelope is the newest received
LEMMA HeadCoversUntil ==
  ASSUME NEW w \in Seq(Envelope), w # <<>>, NEW M, NEW b \in Seq(Envelope), NEW g \in Seq(Nat),
         NEW nx, NEW st, Numbered(w, b, nx, st), OrderedUntil(w, M, b, g), Counts(w[1]),
         NEW f, Range(g) \subseteq Range(f), w[1].kind = "data" => w[1].n \in Range(f)
  PROVE  Covered(b, f, w[1].id)
<1>1. 1 \in 1..Len(w)
  BY First
<1>2. Ahead(w, 1, M)
  BY DEF Ahead
<1> DEFINE v == <<w[1]>>
<1>3. v \in Seq(Envelope) /\ v # <<>> /\ Len(v) = 1 /\ v[1] = w[1]
  BY <1>1, Fields
<1> HIDE DEF v
<1>4. \A k \in 1..Len(b) : b[k].id < w[1].id => b[k].n \in Range(g)
  BY <1>1, <1>2 DEF OrderedUntil
<1>5. Ordered(v, b, g)
  BY <1>3, <1>4 DEF Ordered
<1>6. Numbered(v, b, nx, st)
  <2>1. \A i \in 1..Len(v) : i = 1
    BY <1>3
  <2>2. \A i \in 1..Len(v) : \E j \in 1..Len(w) : v[i] = w[j]
    BY <1>1, <1>3, <2>1, Zenon
  <2> QED
    BY <1>3, <2>2, FewerNumbered, Zenon
<1>7. Counts(v[1]) /\ (v[1].kind = "data" => v[1].n \in Range(f))
  BY <1>3
<1> QED
  BY <1>3, <1>5, <1>6, <1>7, HeadCovers

\* The front of a wire whose acknowledgements are all covered, and of an ordered one
LEMMA WholeUntil ==
  ASSUME NEW w, NEW M, NEW b, NEW g
  PROVE  /\ (\A a \in Acks(w) : Covered(b, g, a)) => CoveredUntil(w, M, b, g)
         /\ Ordered(w, b, g) => OrderedUntil(w, M, b, g)
BY DEF CoveredUntil, OrderedUntil, Ordered, Acks

\* What the server may have read of the wire is ordered like the wire
LEMMA PrefixOrdered ==
  ASSUME NEW w \in Seq(Envelope), NEW r \in 0..Len(w), NEW b, NEW g, Ordered(w, b, g)
  PROVE  Ordered(SubSeq(w, 1, r), b, g)
<1> DEFINE v == SubSeq(w, 1, r)
<1>1. Len(w) \in Nat /\ \A i \in 1..r : w[i] \in Envelope
  OBVIOUS
<1>2. Len(v) = (IF 1 <= r THEN r - 1 + 1 ELSE 0) /\ \A i \in 1..(r - 1 + 1) : v[i] = w[1 + i - 1]
  BY <1>1, SubSeqProperties
<1> HIDE DEF v
<1>3. Len(v) = r /\ \A i \in 1..r : i \in 1..Len(w) /\ v[i] = w[i]
  BY <1>1, <1>2
<1>4. Ordered(v, b, g)
  <2> SUFFICES ASSUME NEW i \in 1..Len(v), NEW k \in 1..Len(b), Counts(v[i]),
                      b[k].id < v[i].id, b[k].n \notin Range(g)
               PROVE  \E j \in 1..(i - 1) : v[j].n = b[k].n
    BY DEF Ordered
  <2>1. i \in 1..Len(w) /\ v[i] = w[i]
    BY <1>3
  <2>2. PICK j \in 1..(i - 1) : w[j].n = b[k].n
    BY <2>1 DEF Ordered
  <2> QED
    BY <1>1, <1>3, <2>2
<1> QED
  BY <1>4 DEF v

\* A flush whose acknowledgement is covered, and the announcement behind it
LEMMA FlushUntil ==
  ASSUME NEW w \in Seq(Envelope), NEW x \in Envelope, x.kind = "flush", NEW y \in Envelope,
         y.kind = "started", NEW e, e = <<x, y>>, NEW b, NEW g
  PROVE  /\ CoveredUntil(w, Flushes, b, g) /\ Covered(b, g, x.ack) => CoveredUntil(w \o e, Flushes, b, g)
         /\ OrderedUntil(w, Flushes, b, g) => OrderedUntil(w \o e, Flushes, b, g)
<1>0. e \in Seq(Envelope) /\ Len(e) = 2 /\ e[1] = x /\ e[2] = y
  OBVIOUS
<1> DEFINE v == w \o e
<1>1. /\ Len(w) \in Nat /\ \A i \in 1..Len(w) : i \in 1..Len(v) /\ v[i] = w[i]
      /\ Len(w) + 1 \in 1..Len(v) /\ v[Len(w) + 1] = x
      /\ Len(v) = Len(w) + 2 /\ v[Len(w) + 2] = y
  BY <1>0, Concat
<1> HIDE DEF v
<1>2. x \in Flushes /\ ~Counts(x) /\ ~Counts(y)
  BY DEF Flushes, Counts
<1>3. \A i \in 1..Len(v) : i \in 1..Len(w) \/ (i = Len(w) + 1 /\ v[i] = x) \/ (i = Len(w) + 2 /\ v[i] = y)
  BY <1>1
<1>4. \A i \in 1..Len(v) : i = Len(w) + 2 => ~Ahead(v, i, Flushes)
  <2>1. Len(w) + 1 \in 1..((Len(w) + 2) - 1)
    BY <1>1
  <2> QED
    BY <1>1, <1>2, <2>1 DEF Ahead
<1>5. \A i \in 1..Len(w) : Ahead(v, i, Flushes) => Ahead(w, i, Flushes)
  BY <1>1 DEF Ahead
<1>6. CoveredUntil(w, Flushes, b, g) /\ Covered(b, g, x.ack) => CoveredUntil(v, Flushes, b, g)
  BY <1>1, <1>3, <1>4, <1>5 DEF CoveredUntil
<1>7. ASSUME OrderedUntil(w, Flushes, b, g) PROVE OrderedUntil(v, Flushes, b, g)
  <2> SUFFICES ASSUME NEW i \in 1..Len(v), NEW k \in 1..Len(b), Ahead(v, i, Flushes), Counts(v[i]),
                      b[k].id < v[i].id, b[k].n \notin Range(g)
               PROVE  \E j \in 1..(i - 1) : v[j].n = b[k].n
    BY DEF OrderedUntil
  <2>1. i \in 1..Len(w) /\ v[i] = w[i] /\ Ahead(w, i, Flushes)
    BY <1>1, <1>2, <1>3, <1>5
  <2>2. PICK j \in 1..(i - 1) : w[j].n = b[k].n
    BY <1>7, <2>1 DEF OrderedUntil
  <2>3. j \in 1..Len(w)
    BY <1>1, <2>1
  <2> QED
    BY <1>1, <2>2, <2>3
<1> QED
  BY <1>6, <1>7 DEF v

LEMMA OneFlush ==
  ASSUME NEW w \in Seq(Envelope), NEW x \in Envelope, x.kind = "flush", NEW y \in Envelope,
         y.kind = "started", NEW e, e = <<x, y>>, NoFlush(w)
  PROVE  /\ ~NoFlush(w \o e)
         /\ \A i \in 1..Len(w \o e) : (w \o e)[i].kind = "flush" => (w \o e)[i] = x
<1>0. e \in Seq(Envelope) /\ Len(e) = 2 /\ e[1] = x /\ e[2] = y
  OBVIOUS
<1> DEFINE v == w \o e
<1>1. /\ Len(w) \in Nat /\ \A i \in 1..Len(w) : i \in 1..Len(v) /\ v[i] = w[i]
      /\ Len(w) + 1 \in 1..Len(v) /\ v[Len(w) + 1] = x
      /\ Len(v) = Len(w) + 2 /\ v[Len(w) + 2] = y
  BY <1>0, Concat
<1> HIDE DEF v
<1>2. \A i \in 1..Len(v) : i \in 1..Len(w) \/ v[i] = x \/ v[i] = y
  BY <1>1
<1>3. ~NoFlush(v)
  BY <1>1 DEF NoFlush
<1>4. \A i \in 1..Len(v) : v[i].kind = "flush" => v[i] = x
  BY <1>1, <1>2 DEF NoFlush
<1> QED
  BY <1>3, <1>4 DEF v

-----------------------------------------------------------------------------
\* Until the server has handled the flush: b is its buffer, w the wire to it, g what
\* the client has handled and a what the client would acknowledge
FlushFirst(w, b, g, a, lk) ==
  /\ CoveredUntil(w, Flushes, b, g)
  /\ lk = "down" => NoFlush(w) /\ Covered(b, g, a)
  /\ lk = "up" => ~NoFlush(w)

\* Meanwhile the client waits for an answer to the flush fl that the server has not
\* read: b is its buffer, w the wire to the server, g what the server has handled and A
\* the acknowledgements that may reach the client
Asking(w, b, g, A, lk, fl) ==
  /\ \A a \in A : Covered(b, g, a)
  /\ OrderedUntil(w, Flushes, b, g)
  /\ lk = "up" => fl # None /\ \A i \in 1..Len(w) : w[i].kind = "flush" => w[i].id = fl

\* Afterwards the answer is on the wire w to the client
Answering(w, b, g, lk, fl) ==
  /\ lk = "up" /\ fl # None
  /\ \E j \in 1..Len(w) : w[j] \in Answers(fl)
  /\ CoveredUntil(w, Answers(fl), b, g)

Fresh == breaks = 0 => NoFlush(wire["server"]) /\ \A s \in Sides : ~spoiled[s]

\* Nothing is forgotten
Remembered(s) ==
  \A n \in 1..sent[s] :
    n \in Range(got[Peer(s)]) \/ n \in Numbers(wire[Peer(s)]) \/ n \in Numbers(buffer[s])
Accounted == breaks \in {0, 1} => \A s \in Sides : Remembered(s)

ServerAsked ==
  breaks = 1 /\ ~settled["server"] =>
    FlushFirst(wire["server"], buffer["server"], got["client"], maxReceived["client"], link)

ClientAsks ==
  /\ breaks = 1 /\ resending => link = "up"
  /\ breaks = 1 /\ ~settled["client"] /\ ~settled["server"] /\ ~resending =>
       Asking(wire["server"], buffer["client"], got["server"], Acknowledged("client"), link, flush)
  /\ breaks = 1 /\ ~settled["client"] /\ settled["server"] /\ ~resending =>
       Answering(wire["client"], buffer["client"], got["server"], link, flush)

Handover == Fresh /\ Accounted /\ ServerAsked /\ ClientAsks

\* A step of a receive loop, whatever the envelope
LEMMA HandleView ==
  ASSUME Core, NEW s \in Sides, Handle(s)
  PROVE  \E e \in Seq(Envelope), nx \in Nat : \E f, mr :
           /\ Received(s, e, nx, f, mr) /\ NoFlush(e) /\ Acks(e) \subseteq Acks(Left(s))
           /\ Head(wire[s]).kind = "flush" => e = Append(Left(s), Ack(next[s], Head(wire[s]).id))
<1> DEFINE p == Peer(s)
           h == Head(wire[s])
           u == Left(s)
<1>1. Typed
  BY DEF Core
<1>2. ASSUME HandleFlush(s)
      PROVE  \E e \in Seq(Envelope), nx \in Nat : \E f, mr :
               /\ Received(s, e, nx, f, mr) /\ NoFlush(e) /\ Acks(e) \subseteq Acks(u)
               /\ h.kind = "flush" => e = Append(u, Ack(next[s], h.id))
  <2> DEFINE e == Append(u, Ack(next[s], h.id))
             nx == next[s] + 1
  <2>1. Incoming(s, "flush")
    BY <1>2 DEF HandleFlush
  <2>2. /\ wire[s] # <<>> /\ h.kind = "flush" /\ u \in Seq(Envelope) /\ h.id \in Nat
        /\ next[s] \in Nat /\ sent[s] \in Nat /\ wire[p] \in Seq(Envelope)
        /\ Numbered(wire[p], u, next[s], sent[s]) /\ Out(s, e) = wire[p] \o e
    BY <2>1, ReceiverFacts
  <2>3. /\ buffer' = [buffer EXCEPT ![s] = u]
        /\ wire' = [wire EXCEPT ![s] = Tail(wire[s]), ![p] = wire[p] \o e]
        /\ next' = [next EXCEPT ![s] = nx] /\ UNCHANGED <<maxReceived, sent, got>>
    BY <1>2, <2>2 DEF HandleFlush
  <2>4. got' = [got EXCEPT ![s] = got[s]] /\ maxReceived' = [maxReceived EXCEPT ![s] = maxReceived[s]]
    BY <1>1, <2>3 DEF Typed
  <2>5. nx \in Nat /\ h.kind # "data" /\ ~Counts(h)
    BY <2>2 DEF Counts
  <2>6. Ack(next[s], h.id) \in Envelope /\ Ack(next[s], h.id).ack = None
    BY <2>2 DEF Ack, Envelope
  <2>7. e \in Seq(Envelope) /\ Acks(e) \subseteq Acks(u)
    <3> DEFINE a == Ack(next[s], h.id)
    <3>1. a \in Envelope /\ a.ack = None /\ e = Append(u, a)
      BY <2>6
    <3> HIDE DEF u, h, a, e
    <3>2. Acks(e) \subseteq Acks(u)
      BY <2>2, <3>1, AppendNumbersAcks
    <3>3. e \in Seq(Envelope)
      BY <2>2, <3>1, OneMore
    <3> QED
      BY <3>2, <3>3
  <2>8. NoFlush(e)
    <3> HIDE DEF u, h
    <3>1. h.id \in Nat \cup {None}
      BY <2>2
    <3> QED
      BY <2>2, <3>1, ResendFits
  <2> HIDE DEF e, u, h, nx
  <2>9. Received(s, e, nx, got[s], maxReceived[s])
    BY <2>2, <2>3, <2>4, <2>5 DEF Received, h, u, p
  <2> QED
    BY <2>5, <2>7, <2>8, <2>9 DEF e
<1>3. ASSUME HandleStarted(s)
      PROVE  \E e \in Seq(Envelope), nx \in Nat : \E f, mr :
               /\ Received(s, e, nx, f, mr) /\ NoFlush(e) /\ Acks(e) \subseteq Acks(u) /\ h.kind # "flush"
  <2> DEFINE e == <<Ack(next[s], 0)>>
             nx == next[s] + 1
  <2>1. Incoming(s, "started")
    BY <1>3 DEF HandleStarted
  <2>2. /\ wire[s] # <<>> /\ h.kind = "started" /\ next[s] \in Nat /\ wire[p] \in Seq(Envelope)
        /\ Out(s, e) = wire[p] \o e
    BY <2>1, ReceiverFacts
  <2>3. /\ buffer' = [buffer EXCEPT ![s] = u]
        /\ wire' = [wire EXCEPT ![s] = Tail(wire[s]), ![p] = wire[p] \o e]
        /\ next' = [next EXCEPT ![s] = nx] /\ UNCHANGED <<maxReceived, sent, got>>
    BY <1>3, <2>2 DEF HandleStarted
  <2>4. got' = [got EXCEPT ![s] = got[s]] /\ maxReceived' = [maxReceived EXCEPT ![s] = maxReceived[s]]
    BY <1>1, <2>3 DEF Typed
  <2>5. nx \in Nat /\ h.kind # "data" /\ ~Counts(h) /\ h.kind # "flush"
    BY <2>2 DEF Counts
  <2>6. e \in Seq(Envelope)
    BY <2>2 DEF Ack, Envelope
  <2>7. NoFlush(e) /\ Acks(e) \subseteq Acks(u)
    BY DEF Ack, NoFlush, Acks
  <2> HIDE DEF e, u, h, nx
  <2>9. Received(s, e, nx, got[s], maxReceived[s])
    BY <2>2, <2>3, <2>4, <2>5 DEF Received, h, u, p
  <2> QED
    BY <2>5, <2>6, <2>7, <2>9
<1>4. ASSUME HandleData(s) \/ HandleAck(s)
      PROVE  \E e \in Seq(Envelope), nx \in Nat : \E f, mr :
               /\ Received(s, e, nx, f, mr) /\ NoFlush(e) /\ Acks(e) \subseteq Acks(u) /\ h.kind # "flush"
  <2> DEFINE f == IF h.kind = "data" THEN Append(got[s], h.n) ELSE got[s]
  <2>1. Incoming(s, "data") \/ Incoming(s, "ack")
    BY <1>4 DEF HandleData, HandleAck
  <2>2. /\ wire[s] # <<>> /\ next[s] \in Nat /\ got[s] \in Seq(Nat) /\ h.kind \in {"data", "ack"}
    BY <2>1, ReceiverFacts
  <2>3. /\ buffer' = [buffer EXCEPT ![s] = u]
        /\ wire' = [wire EXCEPT ![s] = Tail(wire[s]), ![p] = wire[p] \o <<>>]
        /\ maxReceived' = [maxReceived EXCEPT ![s] = h.id] /\ UNCHANGED <<next, sent>>
    BY <1>1, <1>4, NothingFits DEF HandleData, HandleAck
  <2>4. got' = [got EXCEPT ![s] = f]
    <3>1. CASE HandleData(s)
      BY <3>1 DEF HandleData, Incoming
    <3>2. CASE HandleAck(s)
      <4>1. h.kind # "data" /\ got' = got
        BY <3>2 DEF HandleAck, Incoming
      <4> QED
        BY <1>1, <4>1 DEF Typed
    <3> QED
      BY <1>4, <3>1, <3>2
  <2>5. Counts(h) /\ h.kind # "flush" /\ next' = [next EXCEPT ![s] = next[s]]
    BY <1>1, <2>2, <2>3 DEF Counts, Typed
  <2>6. /\ <<>> \in Seq(Envelope) /\ NoFlush(<<>>) /\ Acks(<<>>) \subseteq Acks(u)
    BY <1>1, NothingFits
  <2> HIDE DEF u, h
  <2>7. Received(s, <<>>, next[s], f, h.id)
    BY <2>2, <2>3, <2>4, <2>5 DEF Received, h, u, p
  <2> QED
    BY <2>2, <2>5, <2>6, <2>7
<1> QED
  BY <1>2, <1>3, <1>4, Zenon DEF Handle

\* and what it does to the flags of the handshake
LEMMA HandleFlags ==
  ASSUME Core, NEW s \in Sides, Handle(s)
  PROVE  /\ link' = link /\ breaks' = breaks
         /\ s = "client" => link = "up" /\ ~resending /\ Head(wire[s]).kind # "flush"
         /\ s = "server" => flush' = flush /\ (resending' <=> resending)
                              /\ (settled'["client"] <=> settled["client"])
         /\ breaks = 1 /\ Head(wire[s]).kind # "flush" => \A t \in Sides : settled'[t] <=> settled[t]
         /\ Head(wire[s]).kind = "flush" => settled'["server"]
         /\ s = "client" /\ ~resending' => flush' = flush /\ (flush # None => Head(wire[s]) \notin Answers(flush))
<1> DEFINE h == Head(wire[s])
<1>1. Typed /\ wire[s] # <<>> /\ (s = "client" => link = "up" /\ ~resending)
  BY DEF Core, Handle, HandleFlush, HandleStarted, HandleData, HandleAck, Incoming
<1>2. link' = link /\ breaks' = breaks
  BY DEF Handle, HandleFlush, HandleStarted, HandleData, HandleAck
<1>3. h = wire[s][1] /\ 1 \in 1..Len(wire[s])
  BY <1>1, Popped
<1>4. s = "client" => h.kind # "flush"
  BY <1>3 DEF Core, Opening, NoFlush
<1>5. s = "server" => flush' = flush /\ (resending' <=> resending)
  BY DEF Handle, HandleFlush, HandleStarted, HandleData, HandleAck
<1>6. s = "server" => (settled'["client"] <=> settled["client"])
  BY <1>1 DEF Handle, HandleFlush, HandleStarted, HandleData, HandleAck, Typed, Sides
<1>7. ASSUME breaks = 1, h.kind # "flush", NEW t \in Sides PROVE settled'[t] <=> settled[t]
  <2>1. ~HandleFlush(s)
    BY <1>7 DEF HandleFlush, Incoming
  <2>2. CASE HandleStarted(s)
    BY <1>1, <1>7, <2>2 DEF HandleStarted, Typed
  <2>3. CASE HandleData(s)
    BY <1>1, <2>3 DEF HandleData
  <2>4. CASE HandleAck(s)
    BY <1>1, <1>7, <2>4 DEF HandleAck, Typed
  <2> QED
    BY <2>1, <2>2, <2>3, <2>4 DEF Handle
<1>8. h.kind = "flush" => settled'["server"]
  <2> SUFFICES ASSUME h.kind = "flush" PROVE settled'["server"]
    OBVIOUS
  <2>1. HandleFlush(s)
    BY DEF Handle, HandleStarted, HandleData, HandleAck, Incoming
  <2>2. s = "server"
    BY <1>4 DEF Sides
  <2> QED
    BY <1>1, <2>1, <2>2 DEF HandleFlush, Typed
<1>9. ASSUME s = "client", ~resending' PROVE flush' = flush /\ (flush # None => h \notin Answers(flush))
  <2>1. CASE HandleAck(s)
    BY <1>9, <2>1 DEF HandleAck, Answers
  <2>2. CASE ~HandleAck(s)
    <3>1. h.kind # "ack" /\ flush' = flush
      BY <2>2 DEF Handle, HandleFlush, HandleStarted, HandleData, Incoming
    <3> QED
      BY <3>1 DEF Answers
  <2> QED
    BY <2>1, <2>2
<1> QED
  BY <1>1, <1>2, <1>4, <1>5, <1>6, <1>7, <1>8, <1>9

\* What is taken from a wire is delivered
LEMMA Delivers ==
  ASSUME Core, NEW s \in Sides, NEW e, NEW nx, NEW f, NEW mr, Received(s, e, nx, f, mr)
  PROVE  /\ Range(got[s]) \subseteq Range(f)
         /\ Head(wire[s]).kind = "data" => Head(wire[s]).n \in Range(f)
         /\ Numbers(wire[s]) \subseteq Numbers(Tail(wire[s])) \cup Range(f)
         /\ \A k \in 1..Len(buffer[Peer(s)]) :
              buffer[Peer(s)][k].n = Head(wire[s]).n => buffer[Peer(s)][k].n \in Range(f)
<1> DEFINE h == Head(wire[s])
           p == Peer(s)
<1>1. Typed /\ wire[s] # <<>> /\ p \in Sides /\ Peer(p) = s
  BY Peers DEF Core, Received
<1>2. /\ 1 \in 1..Len(wire[s]) /\ h = wire[s][1] /\ h.n \in Nat /\ wire[s] \in Seq(Envelope)
      /\ got[s] \in Seq(Nat) /\ sent[p] \in Nat
  BY <1>1, Popped DEF Typed
<1>3. Numbered(wire[s], buffer[p], next[p], sent[p])
  BY <1>1 DEF Core, Direction
<1>4. h.kind # "data" => h.n = 0
  BY <1>2, <1>3 DEF Numbered, Genuine
<1>5. f = IF h.kind = "data" THEN Append(got[s], h.n) ELSE got[s]
  BY DEF Received
<1>6. Range(Append(got[s], h.n)) = Range(got[s]) \cup {h.n}
  BY <1>2, DeliveredAppend
<1> HIDE DEF h
<1>7. Range(got[s]) \subseteq Range(f) /\ (h.kind = "data" => h.n \in Range(f))
  BY <1>5, <1>6
<1>8. Numbers(wire[s]) \subseteq Numbers(Tail(wire[s])) \cup ({h.n} \ {0})
  BY <1>1, <1>2, PopNumbers
<1>9. Numbers(wire[s]) \subseteq Numbers(Tail(wire[s])) \cup Range(f)
  BY <1>4, <1>7, <1>8
<1>10. ASSUME NEW k \in 1..Len(buffer[p]), buffer[p][k].n = h.n PROVE buffer[p][k].n \in Range(f)
  <2>1. buffer[p][k].n \in 1..sent[p]
    BY <1>3 DEF Numbered, Genuine
  <2>2. buffer[p][k].n # 0
    BY <1>2, <2>1
  <2> QED
    BY <1>4, <1>7, <1>10, <2>2
<1> QED
  BY <1>7, <1>9, <1>10 DEF h

\* A receipt forgets nothing when what it releases is delivered or under way
LEMMA ReceivedRemembered ==
  ASSUME Core, NEW s \in Sides, NEW e \in Seq(Envelope), NEW nx \in Nat, NEW f, NEW mr,
         Received(s, e, nx, f, mr), NEW t \in Sides, Remembered(t),
         \/ UnderWay(s)
         \/ Head(wire[s]).ack # None => Covered(buffer[s], got[Peer(s)], Head(wire[s]).ack)
  PROVE  Remembered(t)'
<1> DEFINE p == Peer(s)
           h == Head(wire[s])
           u == Left(s)
<1> Typed
  BY DEF Core
<1>1. p \in Sides /\ Peer(p) = s /\ Peer(s) = p /\ Sides = {s, p}
  BY Peers
<1>2. /\ buffer'[s] = u /\ buffer'[p] = buffer[p] /\ wire'[s] = Tail(wire[s])
      /\ wire'[p] = wire[p] \o e /\ got'[s] = f /\ got'[p] = got[p] /\ wire[s] # <<>> /\ sent' = sent
  BY Changes
<1>3. wire[p] \in Seq(Envelope) /\ buffer[s] \in Seq(Envelope) /\ sent[s] \in Nat
  BY <1>1 DEF Typed
<1>4. CASE t = s
  <2>1. PICK d \in 0..Len(buffer[s]) : /\ Suffix(u, buffer[s], d)
                                       /\ \A k \in 1..d : h.ack # None /\ buffer[s][k].id <= h.ack
    BY <1>2, Released
  <2>2. Numbers(wire[p]) \subseteq Numbers(wire[p] \o e)
    BY <1>3, ConcatNumbers
  <2> HIDE DEF u, h, p
  <2>3. ASSUME NEW n \in Numbers(buffer[s])
        PROVE  n \in Range(got[p]) \/ n \in Numbers(wire[p]) \/ n \in Numbers(u)
    <3>1. PICK k \in 1..Len(buffer[s]) : n # 0 /\ buffer[s][k].n = n
      BY <1>3, NumbersOf
    <3>2. CASE k \in 1..d
      <4>1. CASE UnderWay(s)
        BY <4>1 DEF UnderWay, p
      <4>2. CASE h.ack # None => Covered(buffer[s], got[p], h.ack)
        BY <2>1, <3>1, <3>2, <4>2 DEF Covered
      <4> QED
        BY <4>1, <4>2 DEF h, p
    <3>3. CASE k \notin 1..d
      <4>1. k - d \in 1..Len(u) /\ (k - d) + d = k /\ u \in Seq(Envelope)
        BY <2>1, <3>3 DEF Suffix
      <4>2. u[k - d].n = n
        BY <2>1, <3>1, <4>1 DEF Suffix
      <4> QED
        BY <3>1, <4>1, <4>2, NumbersOf
    <3> QED
      BY <3>2, <3>3
  <2>4. ASSUME NEW n \in 1..sent[s]
        PROVE  n \in Range(got[p]) \/ n \in Numbers(wire[p] \o e) \/ n \in Numbers(u)
    BY <1>1, <1>4, <2>2, <2>3 DEF Remembered
  <2> QED
    BY <1>1, <1>2, <1>4, <2>4 DEF Remembered
<1>5. CASE t = p
  <2>1. Range(got[s]) \subseteq Range(f) /\ Numbers(wire[s]) \subseteq Numbers(Tail(wire[s])) \cup Range(f)
    BY Delivers
  <2> HIDE DEF u, h, p
  <2>2. ASSUME NEW n \in 1..sent[p]
        PROVE  n \in Range(f) \/ n \in Numbers(Tail(wire[s])) \/ n \in Numbers(buffer[p])
    BY <1>1, <1>5, <2>1 DEF Remembered
  <2> QED
    BY <1>1, <1>2, <1>5, <2>2 DEF Remembered
<1> QED
  BY <1>1, <1>4, <1>5

\* and it does, up to the second lost connection
LEMMA HandleAccounted ==
  ASSUME Core, Handover, NEW s \in Sides, Handle(s)
  PROVE  Accounted'
<1> DEFINE p == Peer(s)
           h == Head(wire[s])
<1>1. PICK e \in Seq(Envelope), nx \in Nat : \E f, mr : Received(s, e, nx, f, mr)
  BY HandleView
<1>2. PICK f, mr : Received(s, e, nx, f, mr)
  BY <1>1
<1>3. breaks' = breaks /\ Sides = {"client", "server"} /\ Peer("client") = "server" /\ Peer("server") = "client"
  BY HandleFlags DEF Sides, Peer
<1>4. (s = "client" => link = "up" /\ ~resending) /\ settled \in [Sides -> BOOLEAN] /\ wire[s] # <<>> /\ Typed
  BY <1>2, HandleFlags DEF Core, Typed, Received
<1>5. 1 \in 1..Len(wire[s]) /\ h = wire[s][1]
  BY <1>4, Popped
<1>6. \A M : Ahead(wire[s], 1, M)
  BY DEF Ahead
<1> HIDE DEF h
<1>7. ASSUME breaks \in {0, 1}
      PROVE  UnderWay(s) \/ (h.ack # None => Covered(buffer[s], got[p], h.ack))
  <2>1. CASE breaks = 0 \/ settled[s]
    BY <2>1 DEF Core, InFlight
  <2>2. CASE breaks = 1 /\ ~settled[s] /\ s = "server"
    <3>1. CoveredUntil(wire[s], Flushes, buffer[s], got[p])
      BY <1>3, <2>2 DEF Handover, ServerAsked, FlushFirst
    <3> QED
      BY <1>5, <1>6, <3>1 DEF CoveredUntil
  <2>3. CASE breaks = 1 /\ ~settled[s] /\ s = "client" /\ ~settled["server"]
    <3>1. \A a \in Acknowledged(s) : Covered(buffer[s], got[p], a)
      BY <1>3, <1>4, <2>3 DEF Handover, ClientAsks, Asking
    <3>2. h.ack # None => h.ack \in Acknowledged(s)
      BY <1>5 DEF Acknowledged, Acks
    <3> QED
      BY <3>1, <3>2
  <2>4. CASE breaks = 1 /\ ~settled[s] /\ s = "client" /\ settled["server"]
    <3>1. CoveredUntil(wire[s], Answers(flush), buffer[s], got[p])
      BY <1>3, <1>4, <2>4 DEF Handover, ClientAsks, Answering
    <3> QED
      BY <1>5, <1>6, <3>1 DEF CoveredUntil
  <2> QED
    BY <1>3, <1>7, <2>1, <2>2, <2>3, <2>4
<1>8. ASSUME breaks \in {0, 1}, NEW t \in Sides PROVE Remembered(t)'
  <2>1. Remembered(t)
    BY <1>8 DEF Handover, Accounted
  <2> QED
    BY <1>2, <1>7, <1>8, <2>1, ReceivedRemembered DEF h, p
<1> QED
  BY <1>3, <1>8 DEF Accounted

-----------------------------------------------------------------------------
\* Before a connection is lost nothing can be overtaken: what is written last comes
\* behind everything in the buffer
LEMMA LastOrdered ==
  ASSUME NEW w \in Seq(Envelope), NEW b \in Seq(Envelope), NEW g, NEW x \in Envelope, Ordered(w, b, g),
         Numbers(b) \subseteq Numbers(w) \cup Range(g), \A k \in 1..Len(b) : b[k].n # 0
  PROVE  Ordered(w \o <<x>>, b, g)
<1> DEFINE e == <<x>>
           v == w \o e
<1>0. e \in Seq(Envelope) /\ Len(e) = 1 /\ e[1] = x
  OBVIOUS
<1> HIDE DEF e
<1>1. /\ Len(w) \in Nat /\ Len(v) = Len(w) + 1 /\ \A i \in 1..Len(w) : v[i] = w[i]
      /\ v[Len(w) + 1] = x
  <2>1. /\ Len(v) = Len(w) + Len(e) /\ \A i \in 1..Len(w) : v[i] = w[i]
        /\ \A i \in 1..Len(e) : v[Len(w) + i] = e[i]
    BY <1>0, Concat, Zenon
  <2> HIDE DEF v
  <2>2. 1 \in 1..Len(e) /\ Len(w) \in Nat
    BY <1>0
  <2> QED
    BY <1>0, <2>1, <2>2
<1> HIDE DEF v
<1>2. Ordered(v, b, g)
  <2> SUFFICES ASSUME NEW i \in 1..Len(v), NEW k \in 1..Len(b), Counts(v[i]),
                      b[k].id < v[i].id, b[k].n \notin Range(g)
               PROVE  \E j \in 1..(i - 1) : v[j].n = b[k].n
    BY DEF Ordered
  <2>1. CASE i \in 1..Len(w)
    <3>1. PICK j \in 1..(i - 1) : w[j].n = b[k].n
      BY <1>1, <2>1 DEF Ordered
    <3>2. j \in 1..Len(w)
      BY <1>1, <2>1
    <3> QED
      BY <1>1, <3>1, <3>2
  <2>2. CASE i = Len(w) + 1
    <3>1. b[k].n \in Numbers(b)
      BY NumbersOf
    <3>2. PICK j \in 1..Len(w) : w[j].n = b[k].n
      BY <3>1, NumbersOf
    <3> QED
      BY <1>1, <2>2, <3>2
  <2> QED
    BY <1>1, <2>1, <2>2
<1> QED
  BY <1>2 DEF v, e

\* the newest message is before nothing on the wire,
LEMMA NewestOrdered ==
  ASSUME NEW w, NEW b \in Seq(Envelope), NEW x \in Envelope, NEW g, Ordered(w, b, g),
         \A i \in 1..Len(w) : Counts(w[i]) => ~(x.id < w[i].id)
  PROVE  Ordered(w, Append(b, x), g)
<1> DEFINE c == Append(b, x)
<1>1. \A k \in 1..Len(c) : c[k] = x \/ \E l \in 1..Len(b) : c[k] = b[l]
  BY OneMore
<1> HIDE DEF c
<1>2. Ordered(w, c, g)
  <2> SUFFICES ASSUME NEW i \in 1..Len(w), NEW k \in 1..Len(c), Counts(w[i]), c[k].id < w[i].id,
                      c[k].n \notin Range(g)
               PROVE  \E j \in 1..(i - 1) : w[j].n = c[k].n
    BY DEF Ordered
  <2>1. c[k] # x
    BY Zenon
  <2>2. PICK l \in 1..Len(b) : c[k] = b[l]
    BY <1>1, <2>1, Zenon
  <2>3. \E j \in 1..(i - 1) : w[j].n = b[l].n
    BY <2>2 DEF Ordered
  <2> QED
    BY <2>2, <2>3, Zenon
<1> QED
  BY <1>2 DEF c

\* and an ordered wire spoils nothing
LEMMA OrderedSpoilsNot ==
  ASSUME NEW s \in Sides, Spoil, ~spoiled[s], wire'[Peer(s)] \in Seq(Envelope), buffer'[s] \in Seq(Envelope),
         Ordered(wire'[Peer(s)], buffer'[s], got'[Peer(s)])
  PROVE  ~spoiled'[s]
<1> DEFINE w == wire'[Peer(s)]
           b == buffer'[s]
           g == got'[Peer(s)]
<1>1. w \in Seq(Envelope) /\ b \in Seq(Envelope) /\ Ordered(w, b, g)
  OBVIOUS
<1>2. (~\E i \in DOMAIN w, m \in Range(b) :
            /\ w[i].kind \in {"data", "ack"} /\ m.id < w[i].id
            /\ m.n \notin Range(g) /\ \A j \in 1..(i - 1) : w[j].n # m.n) => ~Overtakes(s)'
  BY DEF Overtakes
<1> HIDE DEF w, b, g
<1>3. DOMAIN w = 1..Len(w) /\ DOMAIN b = 1..Len(b)
  BY <1>1
<1>4. \A m \in Range(b) : \E k \in 1..Len(b) : m = b[k]
  BY <1>3 DEF Range
<1>5. ~Overtakes(s)'
  BY <1>1, <1>2, <1>3, <1>4 DEF Ordered, Counts
<1> QED
  BY <1>5 DEF Spoil

\* What an end knows of the messages it buffers
LEMMA BufferFacts ==
  ASSUME Core, NEW s \in Sides
  PROVE  /\ buffer[s] \in Seq(Envelope) /\ wire[s] \in Seq(Envelope) /\ wire[Peer(s)] \in Seq(Envelope)
         /\ next[s] \in Nat /\ sent[s] \in Nat /\ Typed /\ breaks \in Nat
         /\ \A k \in 1..Len(buffer[s]) : buffer[s][k].n # 0
         /\ \A i \in 1..Len(wire[Peer(s)]) :
              wire[Peer(s)][i].id \in Nat /\ (Counts(wire[Peer(s)][i]) => wire[Peer(s)][i].id < next[s])
<1>1. /\ buffer[s] \in Seq(Envelope) /\ wire[s] \in Seq(Envelope) /\ wire[Peer(s)] \in Seq(Envelope)
      /\ next[s] \in Nat /\ sent[s] \in Nat /\ Typed /\ breaks \in Nat
  BY Peers DEF Core, Typed
<1>2. Numbered(wire[Peer(s)], buffer[s], next[s], sent[s])
  BY DEF Core, Direction
<1>3. \A k \in 1..Len(buffer[s]) : buffer[s][k].n \in 1..sent[s]
  BY <1>2 DEF Numbered, Genuine
<1>4. \A k \in 1..Len(buffer[s]) : buffer[s][k].n # 0
  BY <1>1, <1>3
<1>5. \A i \in 1..Len(wire[Peer(s)]) :
        wire[Peer(s)][i].id \in Nat /\ (Counts(wire[Peer(s)][i]) => wire[Peer(s)][i].id < next[s])
  BY <1>1, <1>2, Fields DEF Numbered, Genuine
<1> QED
  BY <1>1, <1>4, <1>5

\* Before a connection is lost both ends are in order
LEMMA FreshOrdered ==
  ASSUME Core, Fresh, breaks = 0, NEW s \in Sides
  PROVE  /\ ~spoiled[s] /\ Ordered(wire[Peer(s)], buffer[s], got[Peer(s)]) /\ UnderWay(s) /\ link = "up"
         /\ Retained(buffer[s], got[Peer(s)], sent[s]) /\ AcksCover(s) /\ NoFlush(wire["server"])
BY DEF Core, Fresh, Direction, Unspoiled, InFlight

\* An announcement is answered behind everything that is buffered
LEMMA StartedFresh ==
  ASSUME Core, Fresh, breaks = 0, NEW s \in Sides, HandleStarted(s), NEW t \in Sides
  PROVE  ~spoiled'[t]
<1> DEFINE p == Peer(s)
           x == Ack(next[s], 0)
           u == Left(s)
<1>1. Incoming(s, "started") /\ Spoil /\ got' = got
  BY DEF HandleStarted
<1>2. wire[s] # <<>> /\ Head(wire[s]).kind = "started" /\ Out(s, <<x>>) = wire[p] \o <<x>>
  BY <1>1, ReceiverFacts
<1>3. p \in Sides /\ p # s /\ Peer(p) = s /\ Peer(s) = p /\ Sides = {s, p} /\ Typed
  BY Peers DEF Core
<1>4. /\ wire[s] \in Seq(Envelope) /\ wire[p] \in Seq(Envelope) /\ buffer[s] \in Seq(Envelope)
      /\ buffer[p] \in Seq(Envelope) /\ next[s] \in Nat /\ x \in Envelope
      /\ \A k \in 1..Len(buffer[s]) : buffer[s][k].n # 0
      /\ \A k \in 1..Len(buffer[p]) : buffer[p][k].n # 0
  BY <1>3, BufferFacts DEF Ack, Envelope
<1>5. /\ wire'[s] = Tail(wire[s]) /\ wire'[p] = wire[p] \o <<x>> /\ buffer'[s] = u /\ buffer'[p] = buffer[p]
  BY <1>2, <1>3 DEF HandleStarted, Typed
<1>6. /\ ~spoiled[s] /\ Ordered(wire[p], buffer[s], got[p]) /\ UnderWay(s)
      /\ ~spoiled[p] /\ Ordered(wire[s], buffer[p], got[s])
  BY <1>3, FreshOrdered
<1>7. CASE t = s
  <2> HIDE DEF x
  <2>1. Numbers(buffer[s]) \subseteq Numbers(wire[p]) \cup Range(got[p])
    BY <1>6 DEF UnderWay
  <2>2. Ordered(wire[p] \o <<x>>, buffer[s], got[p])
    BY <1>4, <1>6, <2>1, LastOrdered
  <2>3. PICK d \in 0..Len(buffer[s]) : Suffix(u, buffer[s], d)
    BY <1>2, <1>3, Released
  <2>4. <<x>> \in Seq(Envelope)
    BY <1>4
  <2>5. wire[p] \o <<x>> \in Seq(Envelope) /\ u \in Seq(Envelope)
    BY <1>4, <2>3, <2>4, Concat DEF Suffix
  <2> DEFINE v == wire[p] \o <<x>>
  <2> HIDE DEF u, p, v
  <2>6. Ordered(v, u, got[p])
    BY <1>4, <2>2, <2>3, <2>5, SuffixKeeps DEF v
  <2> QED
    BY <1>1, <1>5, <1>6, <1>7, <2>5, <2>6, OrderedSpoilsNot DEF v, p
<1>8. CASE t = p
  <2>1. wire[s][1].n = 0
    <3>1. wire[s][1].kind = "started" /\ 1 \in 1..Len(wire[s])
      BY <1>2, <1>4, First
    <3>2. Numbered(wire[s], buffer[p], next[p], sent[p])
      BY <1>3 DEF Core, Direction
    <3> QED
      BY <3>1, <3>2 DEF Numbered, Genuine
  <2>2. Ordered(Tail(wire[s]), buffer[p], got[s])
    BY <1>2, <1>4, <1>6, <2>1, PopOrdered
  <2>3. Tail(wire[s]) \in Seq(Envelope)
    BY <1>2, <1>4, First
  <2> QED
    BY <1>1, <1>3, <1>4, <1>5, <1>6, <1>8, <2>2, <2>3, OrderedSpoilsNot
<1> QED
  BY <1>3, <1>7, <1>8

\* The receive loops keep it that way
LEMMA HandleFresh ==
  ASSUME Core, Fresh, NEW s \in Sides, Handle(s)
  PROVE  Fresh'
<1>1. PICK e \in Seq(Envelope), nx \in Nat : \E f, mr : Received(s, e, nx, f, mr) /\ NoFlush(e)
  BY HandleView
<1>2. PICK f, mr : Received(s, e, nx, f, mr) /\ NoFlush(e)
  BY <1>1
<1>3. breaks' = breaks /\ Typed /\ Sides = {"client", "server"} /\ Peer("client") = "server"
  BY HandleFlags DEF Core, Sides, Peer
<1>4. wire[s] # <<>> /\ wire["server"] \in Seq(Envelope) /\ wire[s] \in Seq(Envelope)
  BY <1>2, <1>3 DEF Received, Typed
<1>5. ASSUME breaks = 0 PROVE NoFlush(wire'["server"])
  <2>1. NoFlush(wire["server"])
    BY <1>5 DEF Fresh
  <2>2. CASE s = "server"
    <3>1. wire'["server"] = Tail(wire["server"])
      BY <1>2, <1>3, <2>2, Changes
    <3>2. \A i \in 1..Len(Tail(wire["server"])) : \E j \in 1..Len(wire["server"]) : Tail(wire["server"])[i] = wire["server"][j]
      BY <1>4, <2>2, First
    <3> QED
      BY <2>1, <3>1, <3>2, PartNoFlush, Zenon
  <2>3. CASE s = "client"
    <3>1. wire'["server"] = wire["server"] \o e
      BY <1>2, <1>3, <2>3, Changes
    <3> QED
      BY <1>2, <1>4, <2>1, <3>1, ConcatNoFlush
  <2> QED
    BY <1>3, <2>2, <2>3
<1>6. ASSUME breaks = 0, NEW t \in Sides PROVE ~spoiled'[t]
  <2>1. ~spoiled[t]
    BY <1>6 DEF Fresh
  <2>2. CASE HandleStarted(s)
    BY <1>6, <2>2, StartedFresh
  <2>3. CASE ~HandleStarted(s)
    <3>1. spoiled' = spoiled
      BY <2>3 DEF Handle, HandleFlush, HandleData, HandleAck
    <3> QED
      BY <2>1, <3>1
  <2> QED
    BY <2>2, <2>3
<1> QED
  BY <1>3, <1>5, <1>6 DEF Fresh

-----------------------------------------------------------------------------
\* A wire with a flush
LEMMA HasFlush ==
  ASSUME NEW w \in Seq(Envelope)
  PROVE  ~NoFlush(w) <=> \E j \in 1..Len(w) : w[j] \in Flushes
<1>1. \A j \in 1..Len(w) : w[j] \in Envelope
  OBVIOUS
<1> QED
  BY <1>1 DEF NoFlush, Flushes

\* A flush stays on the wire until it is read
LEMMA FlushStays ==
  ASSUME NEW w \in Seq(Envelope), NEW e \in Seq(Envelope), ~NoFlush(w)
  PROVE  ~NoFlush(w \o e) /\ (w # <<>> /\ w[1].kind # "flush" => ~NoFlush(Tail(w)))
<1>1. PICK j \in 1..Len(w) : w[j].kind = "flush"
  BY DEF NoFlush
<1>2. ~NoFlush(w \o e)
  <2>1. j \in 1..Len(w \o e) /\ (w \o e)[j] = w[j]
    BY Concat
  <2> QED
    BY <1>1, <2>1 DEF NoFlush
<1>3. ASSUME w # <<>>, w[1].kind # "flush" PROVE ~NoFlush(Tail(w))
  <2> DEFINE v == Tail(w)
  <2>1. Len(w) \in Nat /\ Len(v) = Len(w) - 1 /\ \A i \in 1..Len(v) : v[i] = w[i + 1]
    BY <1>3, First
  <2> HIDE DEF v
  <2>2. j # 1
    BY <1>1, <1>3
  <2>3. j - 1 \in 1..Len(v) /\ (j - 1) + 1 = j
    BY <2>1, <2>2
  <2>4. v[j - 1].kind = "flush"
    BY <1>1, <2>1, <2>3
  <2>5. ~NoFlush(v)
    BY <2>3, <2>4 DEF NoFlush
  <2> QED
    BY <2>5 DEF v
<1> QED
  BY <1>2, <1>3

\* The server's side of the handshake when the server reads something else,
LEMMA FlushFirstPop ==
  ASSUME NEW w \in Seq(Envelope), w # <<>>, w[1].kind # "flush", NEW b \in Seq(Envelope), NEW g, NEW a,
         NEW lk, NEW u, NEW d, Suffix(u, b, d), FlushFirst(w, b, g, a, lk)
  PROVE  FlushFirst(Tail(w), u, g, a, lk)
<1>1. w[1] \notin Flushes
  BY DEF Flushes
<1>2. CoveredUntil(Tail(w), Flushes, u, g)
  <2>1. CoveredUntil(w, Flushes, u, g)
    BY SuffixUntil DEF FlushFirst
  <2> QED
    BY <1>1, <2>1, PopUntil
<1>3. lk = "down" => NoFlush(Tail(w))
  <2>1. \A i \in 1..Len(Tail(w)) : \E j \in 1..Len(w) : Tail(w)[i] = w[j]
    BY First
  <2> QED
    BY <2>1, PartNoFlush, Zenon DEF FlushFirst
<1>4. Covered(b, g, a) => Covered(u, g, a)
  BY SuffixKeeps
<1>5. lk = "up" => ~NoFlush(Tail(w))
  <2>1. <<>> \in Seq(Envelope)
    OBVIOUS
  <2> QED
    BY <2>1, FlushStays DEF FlushFirst
<1> QED
  BY <1>2, <1>3, <1>4, <1>5 DEF FlushFirst

\* and when the client writes behind the flush
LEMMA FlushFirstBehind ==
  ASSUME NEW w \in Seq(Envelope), NEW e \in Seq(Envelope), NEW b, NEW g, NEW f, NEW a, NEW c,
         Range(g) \subseteq Range(f), FlushFirst(w, b, g, a, "up")
  PROVE  FlushFirst(w \o e, b, f, c, "up")
<1>1. CoveredUntil(w, Flushes, b, f)
  BY DeliverUntil DEF FlushFirst
<1>2. ~NoFlush(w)
  BY DEF FlushFirst
<1>3. \E j \in 1..Len(w) : w[j] \in Flushes
  BY <1>2, HasFlush
<1>4. CoveredUntil(w \o e, Flushes, b, f)
  BY <1>1, <1>3, BehindUntil
<1> QED
  BY <1>2, <1>4, FlushStays DEF FlushFirst

\* The client's side while the server has not read the flush: the client reads,
LEMMA AskingBehind ==
  ASSUME NEW w \in Seq(Envelope), NEW e \in Seq(Envelope), NoFlush(e), ~NoFlush(w), NEW b \in Seq(Envelope),
         NEW g, NEW A, NEW B, B \subseteq A, NEW fl, NEW u, NEW d, Suffix(u, b, d),
         Asking(w, b, g, A, "up", fl)
  PROVE  Asking(w \o e, u, g, B, "up", fl)
<1>1. \A a \in B : Covered(u, g, a)
  BY SuffixKeeps DEF Asking
<1>2. \E j \in 1..Len(w) : w[j] \in Flushes
  BY HasFlush
<1>3. OrderedUntil(w, Flushes, u, g)
  BY SuffixUntil DEF Asking
<1>4. OrderedUntil(w \o e, Flushes, u, g)
  BY <1>2, <1>3, BehindUntil
<1> DEFINE v == w \o e
<1>5. \A i \in 1..Len(v) : \/ i \in 1..Len(w) /\ v[i] = w[i]
                           \/ \E j \in 1..Len(e) : i = Len(w) + j /\ v[i] = e[j]
  BY ConcatElements, ZenonT(30)
<1> HIDE DEF v
<1>6. fl # None /\ \A i \in 1..Len(v) : v[i].kind = "flush" => v[i].id = fl
  BY <1>5 DEF Asking, NoFlush
<1> QED
  BY <1>1, <1>4, <1>6 DEF Asking, v

\* and the server reads something else
LEMMA AskingPop ==
  ASSUME NEW w \in Seq(Envelope), w # <<>>, w[1].kind # "flush", NEW b \in Seq(Envelope), NEW g \in Seq(Nat),
         NEW f, NEW A, NEW B, B \subseteq A \cup {a \in {w[1].id} : Counts(w[1])}, NEW lk, NEW fl,
         NEW nx, NEW st, Numbered(w, b, nx, st), Range(g) \subseteq Range(f),
         w[1].kind = "data" => w[1].n \in Range(f),
         \A k \in 1..Len(b) : b[k].n = w[1].n => b[k].n \in Range(f),
         Asking(w, b, g, A, lk, fl)
  PROVE  Asking(Tail(w), b, f, B, lk, fl)
<1>1. w[1] \notin Flushes
  BY DEF Flushes
<1>2. OrderedUntil(Tail(w), Flushes, b, f)
  BY <1>1, PopOrderedUntil DEF Asking
<1>3. Counts(w[1]) => Covered(b, f, w[1].id)
  BY HeadCoversUntil DEF Asking
<1>4. \A a \in B : Covered(b, f, a)
  BY <1>3, DeliverUntil DEF Asking
<1>5. \A i \in 1..Len(Tail(w)) : \E j \in 1..Len(w) : Tail(w)[i] = w[j]
  BY First
<1> QED
  BY <1>2, <1>4, <1>5 DEF Asking

\* The server reads the flush and answers it: e is what it sends
LEMMA AskingAnswered ==
  ASSUME NEW w \in Seq(Envelope), w # <<>>, w[1].kind = "flush", NEW v \in Seq(Envelope), NEW u \in Seq(Envelope),
         NEW b, NEW g, NEW A, Acks(v) \cup Acks(u) \subseteq A, NEW nx \in Nat,
         NEW e \in Seq(Envelope), e = Append(u, Ack(nx, w[1].id)), Acks(e) \subseteq Acks(u), NEW fl,
         Asking(w, b, g, A, "up", fl)
  PROVE  Answering(v \o e, b, g, "up", fl)
<1>1. 1 \in 1..Len(w) /\ w[1].id \in Nat
  BY First, Fields
<1>2. w[1].id = fl /\ fl # None
  BY <1>1 DEF Asking
<1> DEFINE x == Ack(nx, w[1].id)
<1>3. x \in Envelope /\ x \in Answers(fl)
  BY <1>1, <1>2 DEF Ack, Envelope, Answers
<1> HIDE DEF x
<1>4. Len(e) \in 1..Len(e) /\ e[Len(e)] = x
  <2>1. Len(u) + 1 \in 1..Len(e) /\ e[Len(u) + 1] = x /\ Len(e) = Len(u) + 1
    BY <1>3, OneMore DEF x
  <2> QED
    BY <2>1
<1>5. Len(v) + Len(e) \in 1..Len(v \o e) /\ (v \o e)[Len(v) + Len(e)] = x
  <2>1. Len(v \o e) = Len(v) + Len(e) /\ \A i \in 1..Len(e) : (v \o e)[Len(v) + i] = e[i]
    BY Concat, Zenon
  <2>2. Len(v) \in Nat /\ Len(e) \in Nat /\ Len(e) >= 1
    BY <1>4
  <2>3. Len(v) + Len(e) \in 1..(Len(v) + Len(e))
    BY <2>2
  <2> QED
    BY <1>4, <2>1, <2>3, Zenon
<1>6. Acks(v \o e) \subseteq A
  <2>1. Acks(v \o e) = Acks(v) \cup Acks(e)
    BY ConcatAcks
  <2> QED
    BY <2>1
<1>7. CoveredUntil(v \o e, Answers(fl), b, g)
  BY <1>6, WholeUntil DEF Asking
<1> QED
  BY <1>2, <1>3, <1>5, <1>7, Zenon DEF Answering

\* The answer stays ahead of the client until it is read
LEMMA AnsweringPop ==
  ASSUME NEW w \in Seq(Envelope), w # <<>>, NEW fl, w[1] \notin Answers(fl), NEW b \in Seq(Envelope), NEW g,
         NEW u, NEW d, Suffix(u, b, d), NEW lk, Answering(w, b, g, lk, fl)
  PROVE  Answering(Tail(w), u, g, lk, fl)
<1>1. CoveredUntil(Tail(w), Answers(fl), u, g)
  <2>1. CoveredUntil(w, Answers(fl), u, g)
    BY SuffixUntil DEF Answering
  <2> QED
    BY <2>1, PopUntil
<1>2. PICK j \in 1..Len(w) : w[j] \in Answers(fl)
  BY DEF Answering
<1> DEFINE v == Tail(w)
<1>3. Len(w) \in Nat /\ Len(v) = Len(w) - 1 /\ \A i \in 1..Len(v) : v[i] = w[i + 1]
  BY First
<1> HIDE DEF v
<1>4. j # 1
  BY <1>2
<1>5. j - 1 \in 1..Len(v) /\ (j - 1) + 1 = j
  BY <1>3, <1>4
<1>6. v[j - 1] \in Answers(fl)
  BY <1>2, <1>3, <1>5
<1> QED
  BY <1>1, <1>5, <1>6, Zenon DEF Answering, v

LEMMA AnsweringBehind ==
  ASSUME NEW w \in Seq(Envelope), NEW e \in Seq(Envelope), NEW b, NEW g, NEW f, Range(g) \subseteq Range(f),
         NEW lk, NEW fl, Answering(w, b, g, lk, fl)
  PROVE  Answering(w \o e, b, f, lk, fl)
<1>1. PICK j \in 1..Len(w) : w[j] \in Answers(fl)
  BY DEF Answering
<1>2. CoveredUntil(w, Answers(fl), b, f)
  BY DeliverUntil DEF Answering
<1>3. CoveredUntil(w \o e, Answers(fl), b, f)
  BY <1>1, <1>2, BehindUntil
<1>4. j \in 1..Len(w \o e) /\ (w \o e)[j] = w[j]
  BY Concat
<1> QED
  BY <1>1, <1>3, <1>4, Zenon DEF Answering

-----------------------------------------------------------------------------
\* The acknowledgements of messages of the client, when either end reads
LEMMA ReceivedAcks ==
  ASSUME Typed, NEW s \in Sides, NEW e \in Seq(Envelope), NEW nx \in Nat, NEW f, NEW mr,
         Received(s, e, nx, f, mr), Acks(e) \subseteq Acks(Left(s))
  PROVE  Acknowledged("client")' \subseteq
           Acknowledged("client") \cup {a \in {Head(wire[s]).id} : s = "server" /\ Counts(Head(wire[s]))}
<1> DEFINE p == Peer(s)
           h == Head(wire[s])
           u == Left(s)
<1>1. p \in Sides /\ Peer(p) = s /\ Peer(s) = p /\ Sides = {s, p} /\ wire[s] # <<>>
  BY Peers DEF Received
<1>2. /\ buffer'[s] = u /\ buffer'[p] = buffer[p] /\ wire'[s] = Tail(wire[s])
      /\ wire'[p] = wire[p] \o e /\ maxReceived'[s] = mr /\ maxReceived'[p] = maxReceived[p]
  BY Changes
<1>3. wire[s] \in Seq(Envelope) /\ wire[p] \in Seq(Envelope)
  BY <1>1 DEF Typed
<1>4. Acks(u) \subseteq Acks(buffer[s])
  <2>1. \A k \in 1..Len(u) : \E j \in 1..Len(buffer[s]) : u[k] = buffer[s][j]
    BY <1>1, LeftIsPart
  <2> HIDE DEF u
  <2> QED
    BY <2>1, PartAcks, Zenon
<1>5. Acks(Tail(wire[s])) \subseteq Acks(wire[s])
  <2>1. \A i \in 1..Len(Tail(wire[s])) : \E j \in 1..Len(wire[s]) : Tail(wire[s])[i] = wire[s][j]
    BY <1>1, <1>3, First
  <2> QED
    BY <2>1, PartAcks, Zenon
<1>6. Acks(wire[p] \o e) = Acks(wire[p]) \cup Acks(e)
  BY <1>3, ConcatAcks
<1>7. mr = IF Counts(h) THEN h.id ELSE maxReceived[s]
  BY DEF Received
<1> HIDE DEF u, h
<1>8. Peer("client") = "server" /\ Peer("server") = "client" /\ Sides = {"client", "server"}
  BY DEF Peer, Sides
<1>9. /\ Acknowledged("client") = Acks(wire["client"]) \cup Acks(buffer["server"]) \cup {maxReceived["server"]}
      /\ Acknowledged("client")' = Acks(wire'["client"]) \cup Acks(buffer'["server"]) \cup {maxReceived'["server"]}
  BY <1>8 DEF Acknowledged
<1>10. CASE s = "client"
  BY <1>2, <1>5, <1>8, <1>9, <1>10
<1>11. CASE s = "server"
  <2>1. Acks(wire'["client"]) \subseteq Acks(wire["client"]) \cup Acks(buffer["server"])
    BY <1>2, <1>4, <1>6, <1>8, <1>11 DEF u
  <2>2. Acks(buffer'["server"]) \subseteq Acks(buffer["server"])
    BY <1>2, <1>4, <1>11
  <2>3. maxReceived'["server"] \in {maxReceived["server"]} \cup {a \in {h.id} : Counts(h)}
    BY <1>2, <1>7, <1>11
  <2> QED
    BY <1>9, <1>11, <2>1, <2>2, <2>3 DEF h
<1> QED
  BY <1>8, <1>10, <1>11

\* The server's side of the handshake while the ends read
LEMMA HandleServerAsked ==
  ASSUME Core, Handover, NEW s \in Sides, Handle(s)
  PROVE  ServerAsked'
<1> SUFFICES ASSUME breaks' = 1, ~settled'["server"]
             PROVE  FlushFirst(wire'["server"], buffer'["server"], got'["client"], maxReceived'["client"], link')
  BY DEF ServerAsked
<1>1. PICK e \in Seq(Envelope), nx \in Nat : \E f, mr : Received(s, e, nx, f, mr)
  BY HandleView
<1>2. PICK f, mr : Received(s, e, nx, f, mr)
  BY <1>1
<1>3. /\ breaks = 1 /\ link' = link /\ Typed /\ Sides = {"client", "server"} /\ Peer("client") = "server"
      /\ Peer("server") = "client" /\ wire[s] # <<>>
  BY <1>2, HandleFlags DEF Core, Sides, Peer, Received
<1>4. Head(wire[s]).kind # "flush" /\ ~settled["server"]
  BY <1>3, HandleFlags
<1>5. FlushFirst(wire["server"], buffer["server"], got["client"], maxReceived["client"], link)
  BY <1>3, <1>4 DEF Handover, ServerAsked
<1>6. /\ wire[s] \in Seq(Envelope) /\ wire["server"] \in Seq(Envelope) /\ buffer["server"] \in Seq(Envelope)
  BY <1>3 DEF Typed
<1>7. CASE s = "server"
  <2>1. /\ wire'["server"] = Tail(wire["server"]) /\ buffer'["server"] = Left("server")
        /\ got'["client"] = got["client"] /\ maxReceived'["client"] = maxReceived["client"]
    BY <1>2, <1>3, <1>7, Changes
  <2>2. PICK d \in 0..Len(buffer["server"]) : Suffix(Left("server"), buffer["server"], d)
    BY <1>3, <1>7, Released
  <2>3. wire["server"][1].kind # "flush"
    BY <1>3, <1>4, <1>6, <1>7, First
  <2> DEFINE u == Left("server")
  <2> HIDE DEF u
  <2>4. FlushFirst(Tail(wire["server"]), u, got["client"], maxReceived["client"], link)
    BY <1>3, <1>5, <1>6, <1>7, <2>2, <2>3, FlushFirstPop DEF u
  <2> QED
    BY <1>3, <2>1, <2>4 DEF u
<1>8. CASE s = "client"
  <2>1. /\ wire'["server"] = wire["server"] \o e /\ buffer'["server"] = buffer["server"]
        /\ got'["client"] = f
    BY <1>2, <1>3, <1>8, Changes
  <2>2. Range(got["client"]) \subseteq Range(f) /\ link = "up"
    BY <1>2, <1>8, Delivers, HandleFlags
  <2>3. FlushFirst(wire["server"] \o e, buffer["server"], f, maxReceived'["client"], "up")
    BY <1>5, <1>6, <2>2, FlushFirstBehind
  <2> QED
    BY <1>3, <2>1, <2>2, <2>3
<1> QED
  BY <1>3, <1>7, <1>8

\* The client's side before the server has read the flush
LEMMA HandleAsking ==
  ASSUME Core, Handover, NEW s \in Sides, Handle(s), breaks' = 1, ~settled'["client"], ~settled'["server"],
         ~resending'
  PROVE  Asking(wire'["server"], buffer'["client"], got'["server"], Acknowledged("client")', link', flush')
<1>1. PICK e \in Seq(Envelope), nx \in Nat : \E f, mr :
        Received(s, e, nx, f, mr) /\ NoFlush(e) /\ Acks(e) \subseteq Acks(Left(s))
  BY HandleView
<1>2. PICK f, mr : Received(s, e, nx, f, mr) /\ NoFlush(e) /\ Acks(e) \subseteq Acks(Left(s))
  BY <1>1
<1>3. /\ breaks = 1 /\ link' = link /\ Typed /\ Sides = {"client", "server"} /\ Peer("client") = "server"
      /\ Peer("server") = "client" /\ wire[s] # <<>>
  BY <1>2, HandleFlags DEF Core, Sides, Peer, Received
<1>4. Head(wire[s]).kind # "flush" /\ ~settled["server"] /\ ~settled["client"] /\ ~resending /\ flush' = flush
  BY <1>3, HandleFlags
<1> DEFINE A == Acknowledged("client")
           B == Acknowledged("client")'
<1>5. Asking(wire["server"], buffer["client"], got["server"], A, link, flush)
  BY <1>3, <1>4 DEF Handover, ClientAsks
<1>6. B \subseteq A \cup {a \in {Head(wire[s]).id} : s = "server" /\ Counts(Head(wire[s]))}
  BY <1>2, <1>3, ReceivedAcks
<1> HIDE DEF A, B
<1>7. /\ wire[s] \in Seq(Envelope) /\ wire["server"] \in Seq(Envelope) /\ buffer["client"] \in Seq(Envelope)
      /\ got["server"] \in Seq(Nat)
  BY <1>3 DEF Typed
<1>8. CASE s = "server"
  <2>1. /\ wire'["server"] = Tail(wire["server"]) /\ buffer'["client"] = buffer["client"]
        /\ got'["server"] = f
    BY <1>2, <1>3, <1>8, Changes
  <2> DEFINE w == wire["server"]
             b == buffer["client"]
  <2>2. w[1] = Head(w) /\ w \in Seq(Envelope) /\ w # <<>> /\ b \in Seq(Envelope)
    BY <1>3, <1>7, <1>8, First
  <2>3. /\ Range(got["server"]) \subseteq Range(f) /\ (w[1].kind = "data" => w[1].n \in Range(f))
        /\ \A k \in 1..Len(b) : b[k].n = w[1].n => b[k].n \in Range(f)
    BY <1>2, <1>3, <1>8, <2>2, Delivers
  <2>4. Numbered(w, b, next["client"], sent["client"])
    BY <1>3 DEF Core, Direction
  <2>5. w[1].kind # "flush" /\ B \subseteq A \cup {a \in {w[1].id} : Counts(w[1])}
    BY <1>4, <1>6, <1>8, <2>2
  <2>6. Asking(w, b, got["server"], A, link, flush)
    BY <1>5
  <2> HIDE DEF w, b
  <2>7. Asking(Tail(w), b, f, B, link, flush)
    BY <1>7, <2>2, <2>3, <2>4, <2>5, <2>6, AskingPop, Zenon
  <2> QED
    BY <1>3, <1>4, <2>1, <2>7 DEF w, b, B
<1>9. CASE s = "client"
  <2>1. /\ wire'["server"] = wire["server"] \o e /\ buffer'["client"] = Left("client")
        /\ got'["server"] = got["server"]
    BY <1>2, <1>3, <1>9, Changes
  <2> DEFINE u == Left("client")
  <2>2. PICK d \in 0..Len(buffer["client"]) : Suffix(u, buffer["client"], d)
    BY <1>3, <1>9, Released
  <2>3. link = "up" /\ B \subseteq A
    BY <1>6, <1>9, HandleFlags
  <2>4. ~NoFlush(wire["server"])
    BY <1>3, <1>4, <2>3 DEF Handover, ServerAsked, FlushFirst
  <2> HIDE DEF u
  <2>5. Asking(wire["server"] \o e, u, got["server"], B, "up", flush)
    BY <1>2, <1>5, <1>7, <2>2, <2>3, <2>4, AskingBehind
  <2> QED
    BY <1>3, <1>4, <2>1, <2>3, <2>5 DEF u, B
<1> QED
  BY <1>3, <1>8, <1>9

\* and after it
LEMMA HandleAnswering ==
  ASSUME Core, Handover, NEW s \in Sides, Handle(s), breaks' = 1, ~settled'["client"], settled'["server"],
         ~resending'
  PROVE  Answering(wire'["client"], buffer'["client"], got'["server"], link', flush')
<1>1. PICK e \in Seq(Envelope), nx \in Nat : \E f, mr :
        /\ Received(s, e, nx, f, mr) /\ Acks(e) \subseteq Acks(Left(s))
        /\ Head(wire[s]).kind = "flush" => e = Append(Left(s), Ack(next[s], Head(wire[s]).id))
  BY HandleView
<1>2. PICK f, mr : /\ Received(s, e, nx, f, mr) /\ Acks(e) \subseteq Acks(Left(s))
                   /\ Head(wire[s]).kind = "flush" => e = Append(Left(s), Ack(next[s], Head(wire[s]).id))
  BY <1>1
<1>3. /\ breaks = 1 /\ link' = link /\ Typed /\ Sides = {"client", "server"} /\ Peer("client") = "server"
      /\ Peer("server") = "client" /\ wire[s] # <<>>
  BY <1>2, HandleFlags DEF Core, Sides, Peer, Received
<1>4. ~settled["client"] /\ ~resending /\ flush' = flush
  BY <1>3, HandleFlags
<1>7. /\ wire[s] \in Seq(Envelope) /\ wire["server"] \in Seq(Envelope) /\ buffer["client"] \in Seq(Envelope)
      /\ wire["client"] \in Seq(Envelope) /\ got["server"] \in Seq(Nat) /\ next["server"] \in Nat
  BY <1>3 DEF Typed
<1>8. CASE s = "client"
  <2>1. /\ wire'["client"] = Tail(wire["client"]) /\ buffer'["client"] = Left("client")
        /\ got'["server"] = got["server"]
    BY <1>2, <1>3, <1>8, Changes
  <2> DEFINE u == Left("client")
  <2>2. PICK d \in 0..Len(buffer["client"]) : Suffix(u, buffer["client"], d)
    BY <1>3, <1>8, Released
  <2> HIDE DEF u
  <2>3. settled["server"]
    BY <1>3, <1>8, HandleFlags
  <2>4. Answering(wire["client"], buffer["client"], got["server"], link, flush)
    BY <1>3, <1>4, <2>3 DEF Handover, ClientAsks
  <2>5. wire["client"][1] \notin Answers(flush)
    <3>1. flush # None
      BY <2>4 DEF Answering
    <3>2. Head(wire[s]) \notin Answers(flush)
      BY <1>8, <3>1, HandleFlags
    <3> QED
      BY <1>3, <1>7, <1>8, <3>2, First
  <2>6. Answering(Tail(wire["client"]), u, got["server"], link, flush)
    BY <1>3, <1>7, <1>8, <2>2, <2>4, <2>5, AnsweringPop
  <2> QED
    BY <1>3, <1>4, <2>1, <2>6 DEF u
<1>9. CASE s = "server" /\ settled["server"]
  <2>1. /\ wire'["client"] = wire["client"] \o e /\ buffer'["client"] = buffer["client"]
        /\ got'["server"] = f
    BY <1>2, <1>3, <1>9, Changes
  <2>2. Range(got["server"]) \subseteq Range(f)
    BY <1>2, <1>9, Delivers
  <2>3. Answering(wire["client"], buffer["client"], got["server"], link, flush)
    BY <1>3, <1>4, <1>9 DEF Handover, ClientAsks
  <2>4. Answering(wire["client"] \o e, buffer["client"], f, link, flush)
    BY <1>7, <2>2, <2>3, AnsweringBehind
  <2> QED
    BY <1>3, <1>4, <2>1, <2>4
<1>10. CASE s = "server" /\ ~settled["server"]
  <2>1. Head(wire["server"]).kind = "flush"
    BY <1>3, <1>10, HandleFlags
  <2>2. /\ wire'["client"] = wire["client"] \o e /\ buffer'["client"] = buffer["client"]
        /\ got'["server"] = f
    BY <1>2, <1>3, <1>10, Changes
  <2>3. f = got["server"]
    BY <1>2, <1>10, <2>1 DEF Received
  <2> DEFINE w == wire["server"]
             u == Left("server")
             A == Acknowledged("client")
  <2>4. w \in Seq(Envelope) /\ w # <<>> /\ w[1] = Head(w) /\ 1 \in 1..Len(w)
    BY <1>3, <1>7, <1>10, First
  <2>5. Asking(w, buffer["client"], got["server"], A, link, flush)
    BY <1>3, <1>4, <1>10 DEF Handover, ClientAsks
  <2>6. link = "up"
    <3>1. ~NoFlush(w)
      BY <2>1, <2>4 DEF NoFlush
    <3>2. link # "down"
      BY <1>3, <1>10, <3>1 DEF Handover, ServerAsked, FlushFirst
    <3> QED
      BY <1>3, <3>2 DEF Typed
  <2>7. u \in Seq(Envelope) /\ Acks(u) \subseteq Acks(buffer["server"])
    <3>1. u \in Seq(Envelope) /\ \A k \in 1..Len(u) : \E j \in 1..Len(buffer["server"]) : u[k] = buffer["server"][j]
      BY <1>3, <1>10, LeftIsPart
    <3> HIDE DEF u
    <3> QED
      BY <3>1, PartAcks, Zenon
  <2>8. Acks(wire["client"]) \cup Acks(u) \subseteq A
    BY <1>3, <2>7 DEF Acknowledged
  <2>9. e = Append(u, Ack(next["server"], w[1].id)) /\ Acks(e) \subseteq Acks(u) /\ w[1].kind = "flush"
    BY <1>2, <1>10, <2>1, <2>4
  <2> HIDE DEF w, u, A
  <2>10. Answering(wire["client"] \o e, buffer["client"], got["server"], "up", flush)
    BY <1>7, <2>4, <2>5, <2>6, <2>7, <2>8, <2>9, AskingAnswered
  <2> QED
    BY <1>3, <1>4, <2>2, <2>3, <2>6, <2>10
<1> QED
  BY <1>3, <1>8, <1>9, <1>10

\* A step of a receive loop keeps the handshake as described
LEMMA HandleHandover ==
  ASSUME Core, Handover, NEW s \in Sides, Handle(s)
  PROVE  Handover'
<1>1. Fresh' /\ Accounted' /\ ServerAsked'
  BY HandleFresh, HandleAccounted, HandleServerAsked DEF Handover
<1>2. breaks' = 1 /\ resending' => link' = "up"
  BY HandleFlags DEF Handover, ClientAsks, Sides
<1>3. ClientAsks'
  BY <1>2, HandleAsking, HandleAnswering DEF ClientAsks
<1> QED
  BY <1>1, <1>3 DEF Handover

-----------------------------------------------------------------------------
\* What send_buffered changes
LEMMA SendView ==
  ASSUME Core, NEW s \in Sides, Send(s), NEW x, x = Data(next[s], maxReceived[s], sent[s] + 1)
  PROVE  /\ x \in Envelope /\ x.kind = "data" /\ x.id = next[s] /\ x.ack = maxReceived[s]
         /\ x.n = sent[s] + 1
         /\ wire'[s] = wire[s] /\ wire'[Peer(s)] = Out(s, <<x>>)
         /\ Out(s, <<x>>) = (IF s = "server" \/ link = "up" THEN wire[Peer(s)] \o <<x>> ELSE wire[Peer(s)])
         /\ buffer'[s] = Append(buffer[s], x) /\ buffer'[Peer(s)] = buffer[Peer(s)]
         /\ sent'[s] = sent[s] + 1 /\ sent'[Peer(s)] = sent[Peer(s)]
         /\ <<x>> \in Seq(Envelope) /\ NoFlush(<<x>>) /\ Spoil
         /\ UNCHANGED <<maxReceived, link, flush, resending, settled, got, breaks>>
<1>1. Typed /\ Peer(s) \in Sides /\ Peer(s) # s
  BY Peers DEF Core
<1>2. next[s] \in Nat /\ maxReceived[s] \in Nat /\ sent[s] \in Nat
  BY <1>1 DEF Typed
<1>3. /\ x \in Envelope /\ x.kind = "data" /\ x.id = next[s] /\ x.ack = maxReceived[s]
      /\ x.n = sent[s] + 1
  BY <1>2 DEF Data, Envelope
<1>4. /\ buffer' = [buffer EXCEPT ![s] = Append(buffer[s], x)]
      /\ wire' = [wire EXCEPT ![Peer(s)] = Out(s, <<x>>)]
      /\ sent' = [sent EXCEPT ![s] = sent[s] + 1] /\ Spoil
      /\ UNCHANGED <<maxReceived, link, flush, resending, settled, got, breaks>>
  BY DEF Send
<1> HIDE DEF Out
<1>5. /\ wire'[s] = wire[s] /\ wire'[Peer(s)] = Out(s, <<x>>)
      /\ buffer'[s] = Append(buffer[s], x) /\ buffer'[Peer(s)] = buffer[Peer(s)]
      /\ sent'[s] = sent[s] + 1 /\ sent'[Peer(s)] = sent[Peer(s)]
  BY <1>1, <1>4 DEF Typed
<1>6. <<x>> \in Seq(Envelope) /\ NoFlush(<<x>>)
  BY <1>3 DEF NoFlush
<1>7. Out(s, <<x>>) = (IF s = "server" \/ link = "up" THEN wire[Peer(s)] \o <<x>> ELSE wire[Peer(s)])
  BY DEF Out, Reaches
<1> QED
  BY <1>3, <1>4, <1>5, <1>6, <1>7

\* Before a connection is lost it spoils nothing,
LEMMA SendFresh ==
  ASSUME Core, Fresh, NEW s \in Sides, Send(s)
  PROVE  Fresh'
<1> DEFINE p == Peer(s)
           x == Data(next[s], maxReceived[s], sent[s] + 1)
<1>1. /\ x \in Envelope /\ x.id = next[s] /\ wire'[s] = wire[s] /\ wire'[p] = Out(s, <<x>>)
      /\ Out(s, <<x>>) = (IF s = "server" \/ link = "up" THEN wire[Peer(s)] \o <<x>> ELSE wire[Peer(s)])
      /\ buffer'[s] = Append(buffer[s], x) /\ buffer'[p] = buffer[p]
      /\ <<x>> \in Seq(Envelope) /\ NoFlush(<<x>>) /\ Spoil /\ got' = got /\ breaks' = breaks
  BY SendView
<1> HIDE DEF x
<1>2. p \in Sides /\ p # s /\ Peer(p) = s /\ Peer(s) = p /\ Sides = {s, p} /\ Sides = {"client", "server"}
  BY Peers DEF Sides
<1>3. /\ wire[s] \in Seq(Envelope) /\ wire[p] \in Seq(Envelope) /\ buffer[s] \in Seq(Envelope)
      /\ buffer[p] \in Seq(Envelope) /\ next[s] \in Nat
      /\ \A k \in 1..Len(buffer[s]) : buffer[s][k].n # 0
      /\ \A i \in 1..Len(wire[p]) : wire[p][i].id \in Nat /\ (Counts(wire[p][i]) => wire[p][i].id < next[s])
  BY <1>2, BufferFacts
<1> SUFFICES ASSUME breaks = 0
             PROVE  NoFlush(wire'["server"]) /\ \A t \in Sides : ~spoiled'[t]
  BY <1>1 DEF Fresh
<1>4. /\ ~spoiled[s] /\ Ordered(wire[p], buffer[s], got[p]) /\ UnderWay(s)
      /\ ~spoiled[p] /\ Ordered(wire[s], buffer[p], got[s]) /\ link = "up" /\ NoFlush(wire["server"])
  BY <1>2, FreshOrdered
<1> DEFINE v == wire[p] \o <<x>>
<1>5. wire'[p] = v /\ v \in Seq(Envelope)
  BY <1>1, <1>2, <1>3, <1>4, Concat
<1>6. \A i \in 1..Len(v) : \/ i \in 1..Len(wire[p]) /\ v[i] = wire[p][i]
                           \/ \E j \in 1..Len(<<x>>) : i = Len(wire[p]) + j /\ v[i] = <<x>>[j]
  BY <1>1, <1>3, ConcatElements, ZenonT(30)
<1>7. NoFlush(wire'["server"])
  <2>1. CASE s = "server"
    BY <1>1, <1>4, <2>1
  <2>2. CASE s = "client"
    <3>1. p = "server"
      BY <2>2 DEF Peer
    <3> QED
      BY <1>1, <1>3, <1>4, <1>5, <3>1, ConcatNoFlush
  <2> QED
    BY <1>2, <2>1, <2>2
<1>8. ~spoiled'[p]
  BY <1>1, <1>2, <1>3, <1>4, OrderedSpoilsNot
<1>9. Ordered(v, buffer[s], got[p])
  <2>1. Numbers(buffer[s]) \subseteq Numbers(wire[p]) \cup Range(got[p])
    BY <1>4 DEF UnderWay
  <2> QED
    BY <1>1, <1>3, <1>4, <2>1, LastOrdered
<1> HIDE DEF v, p
<1>10. \A i \in 1..Len(v) : Counts(v[i]) => ~(x.id < v[i].id)
  <2>1. \A j \in 1..Len(<<x>>) : <<x>>[j] = x
    OBVIOUS
  <2>2. \A i \in 1..Len(v) : v[i] = x \/ \E j \in 1..Len(wire[p]) : v[i] = wire[p][j]
    BY <1>6, <2>1, Zenon
  <2>3. \A j \in 1..Len(wire[p]) : Counts(wire[p][j]) => ~(x.id < wire[p][j].id)
    BY <1>1, <1>3
  <2>4. ~(x.id < x.id)
    BY <1>1, <1>3
  <2> QED
    BY <2>2, <2>3, <2>4, Zenon
<1>11. Ordered(v, Append(buffer[s], x), got[p])
  BY <1>1, <1>3, <1>9, <1>10, NewestOrdered
<1>12. Append(buffer[s], x) \in Seq(Envelope)
  BY <1>1, <1>3
<1>13. ~spoiled'[s]
  BY <1>1, <1>2, <1>4, <1>5, <1>11, <1>12, OrderedSpoilsNot
<1> QED
  BY <1>2, <1>7, <1>8, <1>13

\* it is remembered in the buffer,
LEMMA SendRemembered ==
  ASSUME Core, NEW s \in Sides, Send(s), NEW t \in Sides, Remembered(t)
  PROVE  Remembered(t)'
<1> DEFINE p == Peer(s)
           x == Data(next[s], maxReceived[s], sent[s] + 1)
<1>1. /\ x \in Envelope /\ x.n = sent[s] + 1 /\ wire'[s] = wire[s] /\ wire'[p] = Out(s, <<x>>)
      /\ Out(s, <<x>>) = (IF s = "server" \/ link = "up" THEN wire[Peer(s)] \o <<x>> ELSE wire[Peer(s)])
      /\ buffer'[s] = Append(buffer[s], x) /\ buffer'[p] = buffer[p]
      /\ sent'[s] = sent[s] + 1 /\ sent'[p] = sent[p] /\ <<x>> \in Seq(Envelope) /\ got' = got
  BY SendView
<1> HIDE DEF x
<1>2. p \in Sides /\ Peer(p) = s /\ Peer(s) = p /\ Sides = {s, p}
  BY Peers
<1>3. wire[p] \in Seq(Envelope) /\ buffer[s] \in Seq(Envelope) /\ sent[s] \in Nat
  BY <1>2, BufferFacts
<1>4. CASE t = p
  BY <1>1, <1>2, <1>4 DEF Remembered
<1>5. CASE t = s
  <2>1. Numbers(Append(buffer[s], x)) = Numbers(buffer[s]) \cup ({x.n} \ {0})
    BY <1>1, <1>3, OneMoreSets
  <2>2. Numbers(wire[p]) \subseteq Numbers(wire[p] \o <<x>>)
    BY <1>1, <1>3, ConcatNumbers
  <2>3. Numbers(wire[p]) \subseteq Numbers(wire'[p])
    BY <1>1, <2>2
  <2>4. \A n \in 1..(sent[s] + 1) : n \in 1..sent[s] \/ (n = x.n /\ n # 0)
    BY <1>1, <1>3
  <2> HIDE DEF p
  <2>5. ASSUME NEW n \in 1..(sent[s] + 1)
        PROVE  n \in Range(got[p]) \/ n \in Numbers(wire'[p]) \/ n \in Numbers(Append(buffer[s], x))
    BY <1>2, <1>5, <2>1, <2>3, <2>4 DEF Remembered
  <2> QED
    BY <1>1, <1>2, <1>5, <2>5 DEF Remembered
<1> QED
  BY <1>2, <1>4, <1>5

\* and no acknowledgement covers it yet
LEMMA SendNotCovered ==
  ASSUME Core, NEW s \in Sides, breaks = 1, NEW a \in Acknowledged(s)
  PROVE  ~(next[s] <= a)
<1>1. Given(s, a) /\ a \in Nat /\ next[s] \in Nat /\ (s = "client" => next[s] > 0)
  BY AcknowledgedTyped DEF Core, Direction, AcksGiven, Opening, Opened, Typed
<1> QED
  BY <1>1 DEF Given

\* The handshake when an end sends: the server's side,
LEMMA SendServerAsked ==
  ASSUME Core, Handover, NEW s \in Sides, Send(s)
  PROVE  ServerAsked'
<1> DEFINE x == Data(next[s], maxReceived[s], sent[s] + 1)
<1>1. /\ x \in Envelope /\ x.id = next[s] /\ wire'[s] = wire[s] /\ wire'[Peer(s)] = Out(s, <<x>>)
      /\ Out(s, <<x>>) = (IF s = "server" \/ link = "up" THEN wire[Peer(s)] \o <<x>> ELSE wire[Peer(s)])
      /\ buffer'[s] = Append(buffer[s], x) /\ buffer'[Peer(s)] = buffer[Peer(s)]
      /\ <<x>> \in Seq(Envelope) /\ got' = got /\ breaks' = breaks /\ link' = link
      /\ maxReceived' = maxReceived /\ settled' = settled
  BY SendView
<1> HIDE DEF x
<1> SUFFICES ASSUME breaks = 1, ~settled["server"]
             PROVE  FlushFirst(wire'["server"], buffer'["server"], got["client"], maxReceived["client"], link)
  BY <1>1 DEF ServerAsked
<1>2. FlushFirst(wire["server"], buffer["server"], got["client"], maxReceived["client"], link)
  BY DEF Handover, ServerAsked
<1>3. /\ Sides = {"client", "server"} /\ Peer("client") = "server" /\ Peer("server") = "client" /\ Typed
      /\ Opened
  BY DEF Sides, Peer, Core, Opened
<1>4. wire["server"] \in Seq(Envelope) /\ buffer["server"] \in Seq(Envelope)
  BY <1>3 DEF Typed
<1>5. CASE s = "client"
  <2>1. CASE link = "up"
    <3>1. FlushFirst(wire["server"] \o <<x>>, buffer["server"], got["client"], maxReceived["client"], "up")
      BY <1>1, <1>2, <1>4, <2>1, FlushFirstBehind
    <3> QED
      BY <1>1, <1>3, <1>5, <2>1, <3>1
  <2>2. CASE link # "up"
    BY <1>1, <1>2, <1>3, <1>5, <2>2
  <2> QED
    BY <2>1, <2>2
<1>6. CASE s = "server"
  <2>1. \A i \in 1..Len(wire[s]) : wire[s][i].ack # None => wire[s][i].ack \in Acknowledged(s)
    BY DEF Acknowledged, Acks
  <2>2. maxReceived["client"] \in Acknowledged(s)
    BY <1>3, <1>6 DEF Acknowledged
  <2>3. \A a \in Acknowledged(s) : ~(x.id <= a)
    BY <1>1, SendNotCovered
  <2> DEFINE b == buffer["server"]
             w == wire["server"]
             g == got["client"]
  <2>4. \A i \in 1..Len(w) : w[i].ack # None => ~(x.id <= w[i].ack)
    BY <1>6, <2>1, <2>3
  <2> HIDE DEF b, w, g
  <2>5. /\ CoveredUntil(w, Flushes, b, g) => CoveredUntil(w, Flushes, Append(b, x), g)
        /\ Covered(b, g, maxReceived["client"]) => Covered(Append(b, x), g, maxReceived["client"])
    BY <1>1, <1>4, <2>2, <2>3, <2>4, NewestUntil DEF b
  <2>6. FlushFirst(w, Append(b, x), g, maxReceived["client"], link)
    BY <1>2, <2>5 DEF FlushFirst, b, w, g
  <2> QED
    BY <1>1, <1>6, <2>6 DEF b, w, g
<1> QED
  BY <1>3, <1>5, <1>6

\* and the client's
LEMMA SendClientAsks ==
  ASSUME Core, Handover, NEW s \in Sides, Send(s)
  PROVE  ClientAsks'
<1> DEFINE x == Data(next[s], maxReceived[s], sent[s] + 1)
           A == Acknowledged("client")
           B == Acknowledged("client")'
           b == buffer["client"]
           g == got["server"]
<1>1. /\ x \in Envelope /\ x.id = next[s] /\ wire'[s] = wire[s] /\ wire'[Peer(s)] = Out(s, <<x>>)
      /\ Out(s, <<x>>) = (IF s = "server" \/ link = "up" THEN wire[Peer(s)] \o <<x>> ELSE wire[Peer(s)])
      /\ buffer'[s] = Append(buffer[s], x) /\ buffer'[Peer(s)] = buffer[Peer(s)] /\ x.ack = maxReceived[s]
      /\ <<x>> \in Seq(Envelope) /\ NoFlush(<<x>>) /\ got' = got /\ breaks' = breaks /\ link' = link
      /\ maxReceived' = maxReceived /\ settled' = settled /\ flush' = flush /\ resending' = resending
  BY SendView
<1> HIDE DEF x
<1>2. /\ Sides = {"client", "server"} /\ Peer("client") = "server" /\ Peer("server") = "client" /\ Typed
  BY DEF Sides, Peer, Core
<1>3. wire["server"] \in Seq(Envelope) /\ b \in Seq(Envelope) /\ wire["client"] \in Seq(Envelope)
      /\ buffer["server"] \in Seq(Envelope) /\ Append(b, x) \in Seq(Envelope)
  BY <1>1, <1>2 DEF Typed
<1>4. /\ A = Acks(wire["client"]) \cup Acks(buffer["server"]) \cup {maxReceived["server"]}
      /\ B = Acks(wire'["client"]) \cup Acks(buffer'["server"]) \cup {maxReceived["server"]}
  BY <1>1, <1>2 DEF Acknowledged
<1>5. B \subseteq A
  <2>1. CASE s = "client"
    BY <1>1, <1>2, <1>4, <2>1
  <2>2. CASE s = "server"
    <3>1. Acks(Append(buffer["server"], x)) \subseteq Acks(buffer["server"]) \cup {x.ack}
      BY <1>1, <1>3, OneMoreSets
    <3>2. Acks(wire["client"] \o <<x>>) = Acks(wire["client"]) \cup Acks(<<x>>)
      BY <1>1, <1>3, ConcatAcks
    <3>3. Acks(<<x>>) \subseteq {x.ack}
      BY DEF Acks
    <3> QED
      BY <1>1, <1>2, <1>4, <2>2, <3>1, <3>2, <3>3
  <2> QED
    BY <1>2, <2>1, <2>2
<1>6. ASSUME breaks = 1, s = "client" PROVE \A a \in A : ~(x.id <= a)
  BY <1>1, <1>6, SendNotCovered
<1>7. ASSUME s = "client" PROVE \A i \in 1..Len(wire["server"]) : Counts(wire["server"][i]) => ~(x.id < wire["server"][i].id)
  <2>1. /\ next["client"] \in Nat
        /\ \A i \in 1..Len(wire["server"]) :
             wire["server"][i].id \in Nat /\ (Counts(wire["server"][i]) => wire["server"][i].id < next["client"])
    BY <1>2, <1>7, BufferFacts
  <2> QED
    BY <1>1, <1>7, <2>1
<1>8. ASSUME breaks = 1, ~settled["client"], ~settled["server"], ~resending
      PROVE  Asking(wire'["server"], buffer'["client"], got["server"], B, link, flush)
  <2>1. Asking(wire["server"], b, g, A, link, flush)
    BY <1>8 DEF Handover, ClientAsks
  <2>2. CASE s = "server"
    <3> HIDE DEF A, B
    <3>1. Asking(wire["server"], b, g, B, link, flush)
      BY <1>5, <2>1 DEF Asking
    <3> QED
      BY <1>1, <1>2, <2>2, <3>1
  <2>3. CASE s = "client"
    <3> DEFINE c == Append(b, x)
               w == wire["server"]
    <3>1. /\ \A a \in A : ~(x.id <= a)
          /\ \A i \in 1..Len(w) : Counts(w[i]) => ~(x.id < w[i].id)
      BY <1>6, <1>7, <1>8, <2>3
    <3> HIDE DEF A, B, b, g, c, w
    <3>2. \A a \in A : Covered(b, g, a) => Covered(c, g, a)
      BY <1>1, <1>3, <3>1, NewestUntil DEF c
    <3>3. OrderedUntil(w, Flushes, b, g) => OrderedUntil(w, Flushes, c, g)
      BY <1>1, <1>3, <3>1, NewestUntil DEF c
    <3>4. Asking(w, c, g, A, link, flush)
      BY <2>1, <3>2, <3>3 DEF Asking, w
    <3>5. Asking(w, c, g, B, link, flush)
      BY <1>5, <3>4 DEF Asking
    <3>6. CASE link = "up"
      <4>1. ~NoFlush(w)
        BY <1>8, <3>6 DEF Handover, ServerAsked, FlushFirst, w
      <4>2. Suffix(c, c, 0) /\ c \in Seq(Envelope)
        BY <1>3 DEF Suffix, c
      <4>3. Asking(w \o <<x>>, c, g, B, "up", flush)
        BY <1>1, <1>3, <3>4, <3>6, <4>1, <4>2, <1>5, AskingBehind DEF w
      <4> QED
        BY <1>1, <1>2, <2>3, <3>6, <4>3 DEF w, c, g, b
    <3>7. CASE link # "up"
      BY <1>1, <1>2, <2>3, <3>5, <3>7 DEF w, c, g, b
    <3> QED
      BY <3>6, <3>7
  <2> QED
    BY <1>2, <2>2, <2>3
<1>9. ASSUME breaks = 1, ~settled["client"], settled["server"], ~resending
      PROVE  Answering(wire'["client"], buffer'["client"], got["server"], link, flush)
  <2>1. Answering(wire["client"], b, g, link, flush)
    BY <1>9 DEF Handover, ClientAsks
  <2>2. CASE s = "server"
    <3>1. Answering(wire["client"] \o <<x>>, b, g, link, flush)
      BY <1>1, <1>3, <2>1, AnsweringBehind
    <3> QED
      BY <1>1, <1>2, <2>2, <3>1
  <2>3. CASE s = "client"
    <3> DEFINE w == wire["client"]
    <3>1. \A i \in 1..Len(w) : w[i].ack # None => w[i].ack \in A
      BY <1>4 DEF Acks
    <3>2. \A i \in 1..Len(w) : w[i].ack # None => ~(x.id <= w[i].ack)
      BY <1>6, <1>9, <2>3, <3>1
    <3> HIDE DEF w, b, g
    <3>3. CoveredUntil(w, Answers(flush), b, g) => CoveredUntil(w, Answers(flush), Append(b, x), g)
      BY <1>1, <1>3, <3>2, NewestUntil
    <3>4. Answering(w, Append(b, x), g, link, flush)
      BY <2>1, <3>3 DEF Answering, w
    <3> QED
      BY <1>1, <2>3, <3>4 DEF w, b, g
  <2> QED
    BY <1>2, <2>2, <2>3
<1>10. breaks = 1 /\ resending => link = "up"
  BY DEF Handover, ClientAsks
<1> QED
  BY <1>1, <1>8, <1>9, <1>10 DEF ClientAsks

LEMMA SendHandover ==
  ASSUME Core, Handover, NEW s \in Sides, Send(s)
  PROVE  Handover'
<1>1. Fresh'
  BY SendFresh DEF Handover
<1>2. breaks' = breaks
  BY DEF Send
<1>3. Accounted'
  BY <1>2, SendRemembered DEF Handover, Accounted
<1> QED
  BY <1>1, <1>3, SendServerAsked, SendClientAsks DEF Handover

-----------------------------------------------------------------------------
\* More on the wires and nothing released: nothing is forgotten
LEMMA WrittenRemembered ==
  ASSUME Core, NEW e \in Seq(Envelope), NEW t \in Sides, Remembered(t),
         wire' = [wire EXCEPT !["server"] = wire["server"] \o e], UNCHANGED <<buffer, sent, got>>
  PROVE  Remembered(t)'
<1>1. Typed /\ Peer(t) \in Sides /\ Sides = {"client", "server"} /\ wire["server"] \in Seq(Envelope)
  BY Peers DEF Core, Sides, Typed
<1>2. Numbers(wire["server"]) \subseteq Numbers(wire["server"] \o e)
  BY <1>1, ConcatNumbers
<1>3. wire'["server"] = wire["server"] \o e /\ wire'["client"] = wire["client"]
  BY <1>1 DEF Typed
<1>4. Numbers(wire[Peer(t)]) \subseteq Numbers(wire'[Peer(t)])
  BY <1>1, <1>2, <1>3
<1> QED
  BY <1>4 DEF Remembered

\* The client resends its buffer and has settled
LEMMA ResendHandover ==
  ASSUME IInv, Handover, Resend
  PROVE  Handover'
<1> DEFINE e == IF link = "up" THEN buffer["client"] ELSE <<>>
<1>1. /\ Core /\ Typed /\ Sides = {"client", "server"} /\ Peer("client") = "server"
      /\ breaks \in Nat /\ breaks # 0 /\ resending
  BY DEF IInv, Idle, Resend, Core, Typed, Sides, Peer
<1>2. wire["server"] \in Seq(Envelope) /\ buffer["client"] \in Seq(Envelope)
  BY <1>1 DEF Typed
<1>3. e \in Seq(Envelope) /\ wire["server"] \o <<>> = wire["server"]
  BY <1>2
<1>4. Out("client", buffer["client"]) = wire["server"] \o e
  BY <1>1, <1>3 DEF Out, Reaches
<1>5. /\ wire' = [wire EXCEPT !["server"] = wire["server"] \o e] /\ ~resending'
      /\ settled' = [settled EXCEPT !["client"] = (link = "up")]
      /\ UNCHANGED <<buffer, maxReceived, link, sent, got, breaks>>
  BY <1>4 DEF Resend
<1>6. wire'["server"] = wire["server"] \o e /\ (settled'["client"] <=> link = "up") /\ settled'["server"] = settled["server"]
  BY <1>1, <1>5 DEF Typed
<1> HIDE DEF e
<1>7. Fresh'
  BY <1>1, <1>5 DEF Fresh
<1>8. Accounted'
  <2> SUFFICES ASSUME breaks \in {0, 1}, NEW t \in Sides PROVE Remembered(t)'
    BY <1>5 DEF Accounted
  <2>1. Remembered(t)
    BY DEF Handover, Accounted
  <2> QED
    BY <1>1, <1>3, <1>5, <2>1, WrittenRemembered
<1>9. breaks = 1 => link = "up"
  BY <1>1 DEF Handover, ClientAsks
<1>10. ServerAsked'
  <2> SUFFICES ASSUME breaks = 1, ~settled["server"]
               PROVE  FlushFirst(wire'["server"], buffer["server"], got["client"], maxReceived["client"], link)
    BY <1>5, <1>6 DEF ServerAsked
  <2>1. FlushFirst(wire["server"], buffer["server"], got["client"], maxReceived["client"], "up")
    BY <1>9 DEF Handover, ServerAsked
  <2> QED
    BY <1>2, <1>3, <1>6, <1>9, <2>1, FlushFirstBehind
<1>11. ClientAsks'
  BY <1>5, <1>6, <1>9 DEF ClientAsks
<1> QED
  BY <1>7, <1>8, <1>10, <1>11 DEF Handover

\* The client reconnects and asks
LEMMA ReconnectHandover ==
  ASSUME IInv, Handover, Reconnect
  PROVE  Handover'
<1> DEFINE x == Flush(next["client"], maxReceived["client"])
           e == <<x, Started>>
           w == wire["server"]
<1>1. /\ Core /\ Typed /\ Sides = {"client", "server"} /\ Peer("client") = "server"
      /\ link = "down" /\ ~resending /\ InFlight /\ breaks \in Nat
  BY DEF IInv, Reconnect, Core, Typed, Sides, Peer
<1>2. breaks # 0
  BY <1>1 DEF InFlight
<1>3. /\ w \in Seq(Envelope) /\ buffer["client"] \in Seq(Envelope)
      /\ next["client"] \in Nat /\ maxReceived["client"] \in Nat
  BY <1>1 DEF Typed
<1>4. /\ x \in Envelope /\ x.kind = "flush" /\ x.id = next["client"] /\ x.ack = maxReceived["client"]
      /\ Started \in Envelope /\ Started.kind = "started"
  BY <1>3 DEF Flush, Started, Envelope
<1>5. /\ wire' = [wire EXCEPT !["server"] = w \o e] /\ link' = "up" /\ flush' = next["client"]
      /\ UNCHANGED <<buffer, maxReceived, resending, settled, sent, got, spoiled, breaks>>
  BY DEF Reconnect
<1>6. wire'["server"] = w \o e /\ wire'["client"] = wire["client"]
  BY <1>1, <1>5 DEF Typed
<1> HIDE DEF x, Started
<1>7. e \in Seq(Envelope)
  BY <1>4
<1>8. Fresh'
  BY <1>2, <1>5 DEF Fresh
<1>9. Accounted'
  <2> SUFFICES ASSUME breaks \in {0, 1}, NEW t \in Sides PROVE Remembered(t)'
    BY <1>5 DEF Accounted
  <2>1. Remembered(t)
    BY DEF Handover, Accounted
  <2> HIDE DEF e
  <2> QED
    BY <1>1, <1>5, <1>7, <2>1, WrittenRemembered
<1>10. \A b, g : /\ CoveredUntil(w, Flushes, b, g) /\ Covered(b, g, x.ack) => CoveredUntil(w \o e, Flushes, b, g)
                 /\ OrderedUntil(w, Flushes, b, g) => OrderedUntil(w \o e, Flushes, b, g)
  <2> TAKE b, g
  <2> HIDE DEF w
  <2> QED
    BY <1>3, <1>4, FlushUntil
<1>11. ASSUME NoFlush(w)
       PROVE  /\ ~NoFlush(w \o e)
              /\ \A i \in 1..Len(w \o e) : (w \o e)[i].kind = "flush" => (w \o e)[i] = x
  <2> HIDE DEF w
  <2> QED
    BY <1>3, <1>4, <1>11, OneFlush
<1> HIDE DEF e, w
<1>12. ServerAsked'
  <2> SUFFICES ASSUME breaks = 1, ~settled["server"]
               PROVE  FlushFirst(w \o e, buffer["server"], got["client"], maxReceived["client"], "up")
    BY <1>5, <1>6 DEF ServerAsked
  <2>1. FlushFirst(w, buffer["server"], got["client"], maxReceived["client"], "down")
    BY <1>1 DEF Handover, ServerAsked, w
  <2> QED
    BY <1>4, <1>10, <1>11, <2>1 DEF FlushFirst
<1>13. ASSUME breaks = 1, ~settled["client"], ~settled["server"]
       PROVE  Asking(w \o e, buffer["client"], got["server"], Acknowledged("client")', "up", next["client"])
  <2>1. Asking(w, buffer["client"], got["server"], Acknowledged("client"), "down", flush)
    BY <1>1, <1>13 DEF Handover, ClientAsks, w
  <2>2. Acknowledged("client")' = Acknowledged("client")
    BY <1>1, <1>5, <1>6 DEF Acknowledged
  <2>3. NoFlush(w)
    BY <1>1, <1>13 DEF Handover, ServerAsked, FlushFirst, w
  <2>4. next["client"] # None
    BY <1>3, NoneAssumption
  <2>5. \A i \in 1..Len(w \o e) : (w \o e)[i].kind = "flush" => (w \o e)[i].id = next["client"]
    BY <1>4, <1>11, <2>3
  <2>6. OrderedUntil(w \o e, Flushes, buffer["client"], got["server"])
    BY <1>10, <2>1 DEF Asking
  <2> QED
    BY <2>1, <2>2, <2>4, <2>5, <2>6 DEF Asking
<1>14. ASSUME breaks = 1, ~settled["client"] PROVE ~settled["server"]
  BY <1>1, <1>14 DEF Handover, ClientAsks, Answering
<1>15. ClientAsks'
  BY <1>1, <1>5, <1>6, <1>13, <1>14 DEF ClientAsks
<1> QED
  BY <1>8, <1>9, <1>12, <1>15 DEF Handover

\* The first connection is lost in order
LEMMA BreakHandover ==
  ASSUME IInv, Handover, Break
  PROVE  Handover'
<1>1. /\ Core /\ Typed /\ Sides = {"client", "server"} /\ Peer("client") = "server"
      /\ Peer("server") = "client" /\ Opened /\ breaks \in Nat
  BY DEF IInv, Break, Core, Typed, Sides, Peer
<1>2. wire["server"] \in Seq(Envelope) /\ wire["client"] \in Seq(Envelope)
  BY <1>1 DEF Typed
<1>3. PICK read \in 0..Len(wire["server"]), written \in 0..Len(wire["client"]) :
        wire' = [wire EXCEPT !["server"] = SubSeq(@, 1, read),
                             !["client"] = SubSeq(@, written + 1, Len(@))]
  BY DEF Break
<1> DEFINE w == wire["server"]
           v == SubSeq(w, 1, read)
           y == SubSeq(wire["client"], written + 1, Len(wire["client"]))
<1>4. wire'["server"] = v /\ wire'["client"] = y
  BY <1>1, <1>3 DEF Typed
<1>5. /\ breaks' = breaks + 1 /\ link' = "down" /\ ~settled'["server"] /\ ~settled'["client"]
      /\ UNCHANGED <<buffer, maxReceived, flush, resending, sent, got>>
  BY <1>1 DEF Break
<1>6. Len(w) \in Nat /\ read \in 0..Len(w) /\ 1 \in 1..(Len(w) + 1) /\ w \in Seq(Envelope)
  BY <1>2
<1>7. \A i \in 1..Len(v) : \E j \in 1..Len(w) : v[i] = w[j]
  BY <1>6, Piece
<1>8. \A i \in 1..Len(y) : \E j \in 1..Len(wire["client"]) : y[i] = wire["client"][j]
  <2>1. written + 1 \in 1..(Len(wire["client"]) + 1) /\ Len(wire["client"]) \in 0..Len(wire["client"])
    BY <1>2
  <2> QED
    BY <1>2, <2>1, Piece
<1> HIDE DEF v, w, y
<1>9. Fresh'
  BY <1>1, <1>5 DEF Fresh
<1>10. breaks' \in {0, 1} => breaks = 0
  BY <1>1, <1>5
<1> SUFFICES ASSUME breaks = 0 PROVE Accounted' /\ ServerAsked' /\ ClientAsks'
  <2>1. CASE breaks = 0
    BY <1>9, <2>1 DEF Handover
  <2>2. CASE breaks # 0
    BY <1>9, <1>10, <2>2 DEF Handover, Accounted, ServerAsked, ClientAsks
  <2> QED
    BY <2>1, <2>2
<1>11. /\ \A s \in Sides : Retained(buffer[s], got[Peer(s)], sent[s]) /\ AcksCover(s)
       /\ Ordered(w, buffer["client"], got["server"]) /\ NoFlush(w) /\ ~resending
  BY <1>1, FreshOrdered DEF Handover, IInv, Idle, w
<1>12. Accounted'
  <2> SUFFICES ASSUME NEW s \in Sides, NEW n \in 1..sent[s]
               PROVE  n \in Range(got[Peer(s)]) \/ n \in Numbers(buffer[s])
    BY <1>5 DEF Accounted, Remembered
  <2>1. sent[s] \in Nat /\ buffer[s] \in Seq(Envelope)
    BY <1>1 DEF Typed
  <2>2. n # 0
    BY <2>1
  <2>3. n \in Range(got[Peer(s)]) \/ \E k \in 1..Len(buffer[s]) : buffer[s][k].n = n
    BY <1>11 DEF Retained
  <2> QED
    BY <2>1, <2>2, <2>3, NumbersOf
<1>13. Acks(v) \subseteq Acks(w) /\ Acks(y) \subseteq Acks(wire["client"]) /\ NoFlush(v)
  BY <1>7, <1>8, <1>11, PartAcks, PartNoFlush, Zenon
<1>14. ServerAsked'
  <2>1. Acks(w) \cup {maxReceived["client"]} \subseteq Acknowledged("server")
    BY <1>1 DEF Acknowledged, w
  <2>2. \A a \in Acknowledged("server") : Covered(buffer["server"], got["client"], a)
    BY <1>1, <1>11 DEF AcksCover
  <2>3. CoveredUntil(v, Flushes, buffer["server"], got["client"])
    BY <1>13, <2>1, <2>2, WholeUntil
  <2>4. FlushFirst(v, buffer["server"], got["client"], maxReceived["client"], "down")
    BY <1>13, <2>1, <2>2, <2>3 DEF FlushFirst
  <2> QED
    BY <1>4, <1>5, <2>4 DEF ServerAsked
<1>15. ClientAsks'
  <2>1. /\ Acknowledged("client") = Acks(wire["client"]) \cup Acks(buffer["server"]) \cup {maxReceived["server"]}
        /\ Acknowledged("client")' = Acks(y) \cup Acks(buffer["server"]) \cup {maxReceived["server"]}
    BY <1>1, <1>4, <1>5 DEF Acknowledged
  <2>2. \A a \in Acknowledged("client") : Covered(buffer["client"], got["server"], a)
    BY <1>1, <1>11 DEF AcksCover
  <2>3. \A a \in Acknowledged("client")' : Covered(buffer["client"], got["server"], a)
    BY <1>13, <2>1, <2>2
  <2>4. Ordered(v, buffer["client"], got["server"])
    BY <1>6, <1>11, PrefixOrdered DEF v
  <2>5. OrderedUntil(v, Flushes, buffer["client"], got["server"])
    BY <2>4, WholeUntil
  <2>6. Asking(v, buffer["client"], got["server"], Acknowledged("client")', "down", flush)
    BY <2>3, <2>5 DEF Asking
  <2> QED
    BY <1>4, <1>5, <1>11, <2>6 DEF ClientAsks
<1> QED
  BY <1>12, <1>14, <1>15

\* The handshake starts as described,
LEMMA InitHandover == Init => Handover
<1> SUFFICES ASSUME Init PROVE Handover
  OBVIOUS
<1>1. /\ wire = [s \in Sides |-> <<Started>>] /\ sent = [s \in Sides |-> 0]
      /\ spoiled = [s \in Sides |-> FALSE] /\ breaks = 0
  BY DEF Init
<1>2. Fresh
  BY <1>1 DEF Fresh, NoFlush, Started, Sides
<1>3. Accounted
  BY <1>1 DEF Accounted, Remembered
<1> QED
  BY <1>1, <1>2, <1>3 DEF Handover, ServerAsked, ClientAsks

\* and every step keeps it so
LEMMA NextHandover ==
  ASSUME IInv, Handover, [Next]_vars
  PROVE  Handover'
<1>1. Core
  BY DEF IInv
<1>2. ASSUME NEW s \in Sides, Send(s) PROVE Handover'
  BY <1>1, <1>2, SendHandover
<1>3. ASSUME NEW s \in Sides, Handle(s) PROVE Handover'
  BY <1>1, <1>3, HandleHandover
<1>4. ASSUME UNCHANGED vars PROVE Handover'
  BY <1>4 DEF vars, Handover, Fresh, Accounted, Remembered, ServerAsked, ClientAsks, Acknowledged, Opened
<1> QED
  BY <1>2, <1>3, <1>4, ResendHandover, BreakHandover, ReconnectHandover DEF Next

\* Nothing is forgotten up to the second lost connection
THEOREM HandoverHolds == Spec => [](IInv /\ Handover)
<1>1. IInv /\ Handover /\ [Next]_vars => (IInv /\ Handover)'
  BY NextIInv, NextHandover
<1> QED
  BY <1>1, InitIInv, InitHandover, PTL DEF Spec

\* A message leaves the sender's buffer (pop_front in start_handling_messages) only
\* when it was delivered, unless its channel was spoiled; and then a copy of it is
\* still under way, unless a second connection was lost
THEOREM ReleasedSafely == Spec => []ReleasedOnlyWhenDelivered
<1>1. ASSUME IInv, Handover, NEW s \in Sides, NEW n \in 1..MaxSend, n <= sent[s],
             n \notin Range(got[Peer(s)]), n \notin Numbers(buffer[s])
      PROVE  spoiled[s] /\ (n \in Numbers(wire[Peer(s)]) \/ breaks >= 2)
  <2>1. sent[s] \in Nat /\ breaks \in Nat
    BY <1>1 DEF IInv, Core, Typed
  <2>2. n \in 1..sent[s]
    BY <1>1, <2>1, BoundsAssumption
  <2>3. breaks \in {0, 1} => n \in Numbers(wire[Peer(s)])
    BY <1>1, <2>2 DEF Handover, Accounted, Remembered
  <2>4. spoiled[s]
    BY <1>1, Releasing
  <2> QED
    BY <2>1, <2>3, <2>4
<1>2. IInv /\ Handover => ReleasedOnlyWhenDelivered
  BY <1>1 DEF ReleasedOnlyWhenDelivered
<1> QED
  BY <1>2, HandoverHolds, PTL

=============================================================================
