------------------------- MODULE WatchChannelProofs -------------------------
(***************************************************************************)
(* Proofs about the watch channel, for any receivers, values and bounds.   *)
(* The inductive invariant adds to the checked properties that the waker   *)
(* ids of parked futures are distinct and not in the future, that wakers   *)
(* in the map are those of futures without news, and that no handle is     *)
(* ahead of the channel.                                                   *)
(***************************************************************************)
EXTENDS WatchChannel, TLAPS

Parked(r) == receiver[r].stage = "parked"

\* Counters stay within their bounds, so none of them wraps around
Bounded ==
  /\ version <= MaxSends /\ nextWakerId <= MaxWakers
  /\ \A r \in Receivers : receiver[r].version <= version
  /\ \A r \in Receivers : Parked(r) => receiver[r].id <= nextWakerId

\* Waker ids identify futures
IdsDistinct ==
  \A r, q \in Receivers : Parked(r) /\ Parked(q) /\ receiver[r].id = receiver[q].id => r = q

\* A future in the map waits for news; the sender's stages agree
MapWaits ==
  /\ \A w \in wakers : ~HasNews(w.of)
  /\ toWake # {} => sender = "waking"
  /\ sender = "gone" <=> closed

IInv == TypeOK /\ Bounded /\ IdsDistinct /\ MapWaits /\ WakersExact

\* A handle without a registered waker
LEMMA QuietHandle ==
  ASSUME NEW s \in {"none", "idle", "ready"}, NEW n \in Counter, NEW v \in Values
  PROVE  [stage |-> s, version |-> n, id |-> None, woken |-> FALSE, stamp |-> v] \in Handle
  BY DEF Handle

\* A future that registers a waker
LEMMA ParkHandle ==
  ASSUME NEW h \in Handle, NEW i \in Counter
  PROVE  [h EXCEPT !.stage = "parked", !.id = i, !.woken = FALSE] \in Handle
<1>1. CASE h \in [stage : {"none", "idle", "ready"}, version : Counter,
                  id : {None}, woken : {FALSE}, stamp : Values]
  BY <1>1 DEF Handle
<1>2. CASE h \in [stage : {"parked"}, version : Counter, id : Counter,
                  woken : BOOLEAN, stamp : Values]
  BY <1>2 DEF Handle
<1> QED
  BY <1>1, <1>2 DEF Handle

\* A new channel satisfies the invariant
LEMMA InitIInv == Init => IInv
<1> SUFFICES ASSUME Init PROVE IInv
  OBVIOUS
<1> USE WatchAssumption DEF Init, NoHandle
<1>1. PICK r \in Receivers :
        receiver = [q \in Receivers |-> IF q = r THEN [NoHandle(value) EXCEPT !.stage = "idle"]
                                        ELSE NoHandle(value)]
  OBVIOUS
<1>2. \A q \in Receivers :
        /\ receiver[q] = [stage |-> receiver[q].stage, version |-> 0, id |-> None,
                           woken |-> FALSE, stamp |-> value]
        /\ receiver[q].stage \in {"none", "idle", "ready"}
  BY <1>1
<1>3. 0 \in Counter
  BY DEF Counter
<1>4. ASSUME NEW q \in Receivers PROVE receiver[q] \in Handle
  <2> DEFINE s == receiver[q].stage
  <2>1. /\ receiver[q] = [stage |-> s, version |-> 0, id |-> None,
                           woken |-> FALSE, stamp |-> value]
        /\ s \in {"none", "idle", "ready"} /\ value \in Values
    BY <1>2
  <2> HIDE DEF s
  <2>2. [stage |-> s, version |-> 0, id |-> None, woken |-> FALSE, stamp |-> value] \in Handle
    BY <2>1, <1>3, QuietHandle
  <2> QED
    BY <2>1, <2>2
<1>5. TypeOK
  BY <1>1, <1>3, <1>4 DEF TypeOK
<1>6. Bounded /\ IdsDistinct /\ MapWaits /\ WakersExact
  BY <1>2 DEF Bounded, IdsDistinct, MapWaits, WakersExact, Parked, HasNews
<1> QED
  BY <1>5, <1>6 DEF IInv

\* Below its bound a counter is incremented without wrapping around
LEMMA IncIsPlusOne ==
  ASSUME NEW n \in Nat, n < Modulus - 1
  PROVE  WrappingInc(n) = n + 1
  BY WatchAssumption DEF WrappingInc

\* Every operation of the channel preserves the types
LEMMA NextTypeOK == IInv /\ [Next]_vars => TypeOK'
<1> SUFFICES ASSUME IInv, [Next]_vars PROVE TypeOK'
  OBVIOUS
<1> USE WatchAssumption DEF IInv, TypeOK, Handle, Counter, Waker
<1>1. ASSUME NEW v \in Values, Send(v) PROVE TypeOK'
  <2>1. CASE SoleOwner
    BY <1>1, <2>1 DEF Send
  <2>2. CASE ~SoleOwner
    <3>1. version < Modulus - 1 /\ version \in Nat
      BY <1>1 DEF Send
    <3>2. version' = version + 1
      BY <1>1, <2>2, <3>1, IncIsPlusOne DEF Send, BumpVersion
    <3>3. version' \in Counter
      BY <3>1, <3>2
    <3> QED
      BY <1>1, <2>2, <3>3 DEF Send
  <2> QED
    BY <2>1, <2>2
<1>2. ASSUME NEW w \in toWake, Wake(w) PROVE TypeOK'
  <2> DEFINE h == receiver[w.of]
  <2>1. w.of \in Receivers /\ h \in Handle
    BY <1>2
  <2>2. [h EXCEPT !.woken = @ \/ h.stage = "parked"] \in Handle
    <3>1. CASE h.stage = "parked"
      <4>1. [h EXCEPT !.woken = @ \/ h.stage = "parked"] = [h EXCEPT !.woken = TRUE]
        BY <3>1, <2>1
      <4>2. h \in [stage : {"parked"}, version : Counter, id : Counter,
                   woken : BOOLEAN, stamp : Values]
        BY <3>1, <2>1
      <4> QED
        BY <4>1, <4>2
    <3>2. CASE h.stage # "parked"
      <4>1. h.woken = FALSE /\ (h.woken \/ h.stage = "parked") = FALSE
        BY <3>2, <2>1
      <4> QED
        BY <4>1, <2>1, <3>2
    <3> QED
      BY <3>1, <3>2
  <2>3. Woken(w.of) \in [Receivers -> Handle]
    BY <2>1, <2>2 DEF Woken
  <2> QED
    BY <1>2, <2>3 DEF Wake
<1>3. CASE SendReturns
  BY <1>3 DEF SendReturns
<1>4. CASE DropSender
  <2>1. WokenByDrop \in [Receivers -> Handle]
    <3>1. \A r \in Receivers : (\E w \in wakers : w.of = r) => Parked(r)
      BY DEF WakersExact, Parked
    <3>2. ASSUME NEW r \in Receivers PROVE WokenByDrop[r] \in Handle
      <4> DEFINE b == \E w \in wakers : w.of = r
      <4>1. WokenByDrop[r] = [receiver[r] EXCEPT !.woken = @ \/ b] /\ b \in BOOLEAN
        BY DEF WokenByDrop
      <4>2. receiver[r] \in Handle /\ (b => Parked(r))
        BY <3>1
      <4> HIDE DEF b
      <4>3. CASE Parked(r)
        <5>1. receiver[r] \in [stage : {"parked"}, version : Counter, id : Counter,
                               woken : BOOLEAN, stamp : Values]
          BY <4>2, <4>3 DEF Parked
        <5>2. (receiver[r].woken \/ b) \in BOOLEAN
          BY Zenon
        <5> QED
          BY <4>1, <5>1, <5>2, Zenon
      <4>4. CASE ~Parked(r)
        <5>1. (receiver[r].woken \/ b) = receiver[r].woken
          BY <4>1, <4>2, <4>4 DEF Parked
        <5> QED
          BY <4>1, <4>2, <5>1
      <4> QED
        BY <4>3, <4>4
    <3> QED
      BY <3>2 DEF WokenByDrop
  <2> QED
    BY <1>4, <2>1 DEF DropSender
<1>5. ASSUME NEW r \in Receivers, NewReceiver(r) PROVE TypeOK'
  BY <1>5, QuietHandle DEF NewReceiver, NoHandle
<1>6. ASSUME NEW r \in Receivers, DropReceiver(r) PROVE TypeOK'
  <2> DEFINE h == [stage |-> "none", version |-> 0, id |-> None, woken |-> FALSE, stamp |-> value]
  <2>1. 0 \in Counter /\ receiver' = [receiver EXCEPT ![r] = h]
    BY <1>6 DEF DropReceiver, NoHandle
  <2>2. h \in Handle
    BY <2>1, QuietHandle
  <2> HIDE DEF h
  <2> QED
    BY <1>6, <2>1, <2>2, ZenonT(30) DEF DropReceiver
<1>7. ASSUME NEW r \in Receivers, Borrow(r) PROVE TypeOK'
  BY <1>7, ZenonT(30) DEF Borrow
<1>8. ASSUME NEW r \in Receivers, Changed(r) PROVE TypeOK'
  BY <1>8, ZenonT(30) DEF Changed
<1>9. ASSUME NEW r \in Receivers, PollChanged(r) PROVE TypeOK'
  BY <1>9, ZenonT(30) DEF PollChanged, Completed, Futures
<1>10. ASSUME NEW r \in Receivers, PollClosed(r) PROVE TypeOK'
  BY <1>10, ZenonT(30) DEF PollClosed, Completed, Futures, Unregistered
<1>11. ASSUME NEW r \in Receivers, PollPending(r) PROVE TypeOK'
  <2>1. WrappingInc(nextWakerId) \in Counter
    BY <1>11, IncIsPlusOne DEF PollPending
  <2> DEFINE h == [receiver[r] EXCEPT !.stage = "parked", !.id = WrappingInc(nextWakerId),
                                      !.woken = FALSE]
  <2>2. receiver' = [receiver EXCEPT ![r] = h]
    BY <1>11 DEF PollPending
  <2>3. h \in Handle
    BY <2>1, ParkHandle, ZenonT(30)
  <2>4. wakers' \in SUBSET Waker
    BY <1>11, <2>1 DEF PollPending, Unregistered
  <2>5. nextWakerId' \in Counter
    BY <1>11, <2>1 DEF PollPending
  <2> HIDE DEF h
  <2>6. receiver' \in [Receivers -> Handle]
    BY <2>2, <2>3
  <2>7. UNCHANGED <<value, version, closed, sender, toWake>>
    BY <1>11 DEF PollPending
  <2> QED
    BY <2>4, <2>5, <2>6, <2>7
<1>12. ASSUME NEW r \in Receivers, DropChanged(r) PROVE TypeOK'
  BY <1>12, ZenonT(30) DEF DropChanged, Completed, Futures, Unregistered
<1>13. ASSUME NEW r \in Receivers, NEW q \in Receivers, CloneReceiver(r, q) PROVE TypeOK'
  BY <1>13 DEF CloneReceiver
<1>14. CASE UNCHANGED vars
  BY <1>14 DEF vars
<1> QED
  BY <1>1, <1>2, <1>3, <1>4, <1>5, <1>6, <1>7, <1>8, <1>9, <1>10, <1>11, <1>12, <1>13, <1>14
  DEF Next, Poll

\* How a step of a receiver's own changes the handles, in one formula: what is
\* kept is a handle that did not move
LEMMA OthersKept ==
  ASSUME IInv, NEW r \in Receivers,
         \/ NewReceiver(r) \/ DropReceiver(r) \/ Borrow(r) \/ Changed(r)
         \/ Poll(r) \/ DropChanged(r)
  PROVE  \A q \in Receivers \ {r} : receiver'[q] = receiver[q]
  BY DEF IInv, TypeOK, NewReceiver, DropReceiver, Borrow, Changed, Poll, PollChanged,
         PollClosed, PollPending, DropChanged

\* The same for the handle that moves: where it is, what it has seen and under
\* which id it is registered
LEMMA HandleAfter ==
  ASSUME IInv, NEW r \in Receivers
  PROVE  /\ NewReceiver(r) => ~Parked(r) /\ ~Parked(r)' /\ receiver'[r].version = version
         /\ DropReceiver(r) => ~Parked(r) /\ ~Parked(r)' /\ receiver'[r].version = 0
         /\ Borrow(r) => ~Parked(r) /\ ~Parked(r)' /\ receiver'[r].version = version
         /\ Changed(r) => ~Parked(r) /\ ~Parked(r)' /\ receiver'[r].version = receiver[r].version
         /\ PollChanged(r) => ~Parked(r)' /\ receiver'[r].version = version
         /\ PollClosed(r) => ~Parked(r)' /\ receiver'[r].version = receiver[r].version
         /\ DropChanged(r) => ~Parked(r)' /\ receiver'[r].version = receiver[r].version
         /\ PollPending(r) => /\ Parked(r)' /\ receiver'[r].version = receiver[r].version
                              /\ receiver'[r].id = nextWakerId'
<1> USE DEF IInv, TypeOK, Parked
<1>0. receiver[r] \in Handle
  OBVIOUS
<1>1. DOMAIN receiver = Receivers /\ DOMAIN receiver[r] = {"stage", "version", "id", "woken", "stamp"}
  BY <1>0 DEF Handle
<1>2. NewReceiver(r) => ~Parked(r) /\ ~Parked(r)' /\ receiver'[r].version = version
  BY <1>1 DEF NewReceiver, NoHandle
<1>3. DropReceiver(r) => ~Parked(r) /\ ~Parked(r)' /\ receiver'[r].version = 0
  BY <1>1 DEF DropReceiver, NoHandle
<1>4. Borrow(r) => ~Parked(r) /\ ~Parked(r)' /\ receiver'[r].version = version
  BY <1>1 DEF Borrow
<1>5. Changed(r) => ~Parked(r) /\ ~Parked(r)' /\ receiver'[r].version = receiver[r].version
  BY <1>1 DEF Changed
<1>6. PollChanged(r) => ~Parked(r)' /\ receiver'[r].version = version
  BY <1>1 DEF PollChanged, Completed
<1>7. PollClosed(r) => ~Parked(r)' /\ receiver'[r].version = receiver[r].version
  BY <1>1 DEF PollClosed, Completed
<1>8. DropChanged(r) => ~Parked(r)' /\ receiver'[r].version = receiver[r].version
  BY <1>1 DEF DropChanged, Completed
<1>9. PollPending(r) => /\ Parked(r)' /\ receiver'[r].version = receiver[r].version
                        /\ receiver'[r].id = nextWakerId'
  BY <1>1 DEF PollPending
<1> QED
  BY <1>2, <1>3, <1>4, <1>5, <1>6, <1>7, <1>8, <1>9

\* Waking changes nothing but the wake-up flag
LEMMA WakeKeeps ==
  ASSUME IInv, (\E w \in toWake : Wake(w)) \/ DropSender, NEW q \in Receivers
  PROVE  /\ receiver'[q].stage = receiver[q].stage
         /\ receiver'[q].version = receiver[q].version
         /\ receiver'[q].id = receiver[q].id
         /\ receiver'[q].stamp = receiver[q].stamp
<1>1. DOMAIN receiver = Receivers /\ DOMAIN receiver[q] = {"stage", "version", "id", "woken", "stamp"}
  BY DEF IInv, TypeOK, Handle
<1>2. ASSUME NEW w \in toWake, Wake(w)
      PROVE \/ receiver'[q] = receiver[q]
            \/ receiver'[q] = [receiver[q] EXCEPT !.woken = @ \/ receiver[q].stage = "parked"]
  BY <1>1, <1>2 DEF Wake, Woken
<1>3. ASSUME DropSender
      PROVE receiver'[q] = [receiver[q] EXCEPT !.woken = @ \/ \E w \in wakers : w.of = q]
  BY <1>3 DEF DropSender, WokenByDrop
<1> QED
  BY <1>1, <1>2, <1>3

\* Sending bumps the version unless nobody receives
LEMMA SendBumps ==
  ASSUME IInv, NEW v \in Values, Send(v)
  PROVE  /\ receiver' = receiver /\ closed' = closed /\ nextWakerId' = nextWakerId
         /\ version' \in Nat /\ version' <= MaxSends
         /\ \/ Handles = {} /\ version' = version /\ wakers' = wakers /\ toWake' = toWake
                           /\ sender' = "idle"
            \/ version' = version + 1 /\ wakers' = {} /\ toWake' = wakers /\ sender' = "waking"
<1>1. version \in Nat /\ version < MaxSends /\ version < Modulus - 1 /\ sender = "idle"
  BY WatchAssumption DEF IInv, TypeOK, Counter, Send
<1>2. WrappingInc(version) = version + 1
  BY <1>1, IncIsPlusOne
<1> QED
  BY <1>1, <1>2, WatchAssumption DEF Send, SoleOwner, BumpVersion

\* The counters are numbers
LEMMA CountersAreNumbers ==
  ASSUME IInv
  PROVE  /\ version \in Nat /\ nextWakerId \in Nat
         /\ \A q \in Receivers : receiver[q].version \in Nat
         /\ \A q \in Receivers : Parked(q) => receiver[q].id \in Nat
<1>1. Counter \subseteq Nat /\ version \in Counter /\ nextWakerId \in Counter
  BY WatchAssumption DEF Counter, IInv, TypeOK
<1>2. ASSUME NEW q \in Receivers PROVE receiver[q].version \in Counter /\ (Parked(q) => receiver[q].id \in Counter)
  <2>1. receiver[q] \in Handle
    BY DEF IInv, TypeOK
  <2> QED
    BY <2>1 DEF Handle, Parked
<1> QED
  BY <1>1, <1>2

\* Bounded is preserved
LEMMA NextBounded == IInv /\ [Next]_vars => Bounded'
<1> SUFFICES ASSUME IInv, [Next]_vars PROVE Bounded'
  OBVIOUS
<1> USE WatchAssumption DEF Bounded
<1>0. /\ version \in Nat /\ nextWakerId \in Nat /\ Bounded
      /\ \A q \in Receivers : receiver[q].version \in Nat
      /\ \A q \in Receivers : Parked(q) => receiver[q].id \in Nat
  BY CountersAreNumbers DEF IInv
<1>1. ASSUME NEW v \in Values, Send(v) PROVE Bounded'
  BY <1>0, <1>1, SendBumps DEF Parked
<1>2. CASE (\E w \in toWake : Wake(w)) \/ DropSender
  <2>1. version' = version /\ nextWakerId' = nextWakerId
    BY <1>2 DEF Wake, DropSender
  <2> QED
    BY <1>0, <1>2, <2>1, WakeKeeps DEF Parked
<1>3. CASE SendReturns \/ UNCHANGED vars
  BY <1>0, <1>3 DEF SendReturns, vars, Parked
<1>4. ASSUME NEW r \in Receivers,
             \/ NewReceiver(r) \/ DropReceiver(r) \/ Borrow(r) \/ Changed(r)
             \/ PollChanged(r) \/ PollClosed(r) \/ DropChanged(r)
      PROVE Bounded'
  <2>1. version' = version /\ nextWakerId' = nextWakerId
    BY <1>4 DEF NewReceiver, DropReceiver, Borrow, Changed, PollChanged, PollClosed, DropChanged
  <2>2. \A q \in Receivers \ {r} : receiver'[q] = receiver[q]
    BY <1>4, OthersKept DEF Poll
  <2>3. ~Parked(r)' /\ receiver'[r].version \in {0, version, receiver[r].version}
    BY <1>4, HandleAfter
  <2> QED
    BY <1>0, <2>1, <2>2, <2>3 DEF Parked
<1>5. ASSUME NEW r \in Receivers, PollPending(r) PROVE Bounded'
  <2>1. version' = version /\ nextWakerId' = nextWakerId + 1 /\ nextWakerId < MaxWakers
    BY <1>0, <1>5, IncIsPlusOne DEF PollPending
  <2>2. \A q \in Receivers \ {r} : receiver'[q] = receiver[q]
    BY <1>5, OthersKept DEF Poll
  <2>3. Parked(r)' /\ receiver'[r].version = receiver[r].version /\ receiver'[r].id = nextWakerId'
    BY <1>5, HandleAfter
  <2> QED
    BY <1>0, <2>1, <2>2, <2>3 DEF Parked
<1>6. ASSUME NEW r \in Receivers, NEW q \in Receivers, CloneReceiver(r, q) PROVE Bounded'
  BY <1>0, <1>6 DEF CloneReceiver, Parked, IInv, TypeOK
<1> QED
  BY <1>1, <1>2, <1>3, <1>4, <1>5, <1>6 DEF Next, Poll

\* Waker ids stay distinct
LEMMA NextIdsDistinct == IInv /\ [Next]_vars => IdsDistinct'
<1> SUFFICES ASSUME IInv, [Next]_vars PROVE IdsDistinct'
  OBVIOUS
<1> USE WatchAssumption DEF IdsDistinct
<1>0. /\ nextWakerId \in Nat /\ IdsDistinct
      /\ \A q \in Receivers : Parked(q) => receiver[q].id \in Nat /\ receiver[q].id <= nextWakerId
  BY CountersAreNumbers DEF IInv, Bounded
<1>1. CASE (\E v \in Values : Send(v)) \/ SendReturns \/ UNCHANGED vars
  <2>1. receiver' = receiver
    BY <1>1 DEF Send, SendReturns, vars
  <2> QED
    BY <1>0, <2>1 DEF Parked
<1>2. CASE (\E w \in toWake : Wake(w)) \/ DropSender
  BY <1>0, <1>2, WakeKeeps DEF Parked
<1>4. ASSUME NEW r \in Receivers,
             \/ NewReceiver(r) \/ DropReceiver(r) \/ Borrow(r) \/ Changed(r)
             \/ PollChanged(r) \/ PollClosed(r) \/ DropChanged(r)
      PROVE IdsDistinct'
  <2>1. \A q \in Receivers \ {r} : receiver'[q] = receiver[q]
    BY <1>4, OthersKept DEF Poll
  <2>2. ~Parked(r)'
    BY <1>4, HandleAfter
  <2> QED
    BY <1>0, <2>1, <2>2 DEF Parked
<1>5. ASSUME NEW r \in Receivers, PollPending(r) PROVE IdsDistinct'
  <2>1. nextWakerId' = nextWakerId + 1
    BY <1>0, <1>5, IncIsPlusOne DEF PollPending
  <2>2. \A q \in Receivers \ {r} : receiver'[q] = receiver[q]
    BY <1>5, OthersKept DEF Poll
  <2>3. Parked(r)' /\ receiver'[r].id = nextWakerId'
    BY <1>5, HandleAfter
  <2> QED
    BY <1>0, <2>1, <2>2, <2>3 DEF Parked
<1>6. ASSUME NEW r \in Receivers, NEW q \in Receivers, CloneReceiver(r, q) PROVE IdsDistinct'
  BY <1>0, <1>6 DEF CloneReceiver, Parked, IInv, TypeOK
<1> QED
  BY <1>1, <1>2, <1>4, <1>5, <1>6 DEF Next, Poll

\* Unregistering a future leaves the others registered
LEMMA OtherId ==
  ASSUME IInv, NEW r \in Receivers, NEW q \in Receivers, q # r, Parked(q)
  PROVE  receiver[q].id # receiver[r].id
<1>1. CASE Parked(r)
  BY <1>1 DEF IInv, IdsDistinct
<1>2. CASE ~Parked(r)
  <2>1. receiver[r] \in Handle
    BY DEF IInv, TypeOK
  <2>2. receiver[r].id = None
    BY <2>1, <1>2 DEF Handle, Parked
  <2> QED
    BY <2>2, CountersAreNumbers, WatchAssumption
<1> QED
  BY <1>1, <1>2

\* The map of wakers stays the futures that wait
LEMMA NextMap == IInv /\ [Next]_vars => MapWaits' /\ WakersExact'
<1> SUFFICES ASSUME IInv, [Next]_vars PROVE MapWaits' /\ WakersExact'
  OBVIOUS
<1> USE DEF MapWaits, WakersExact, HasNews
<1>0. /\ MapWaits /\ WakersExact /\ IdsDistinct
      /\ version \in Nat /\ \A q \in Receivers : receiver[q].version \in Nat
      /\ \A q \in Receivers : receiver[q].version <= version
      /\ \A w \in wakers : w.of \in Receivers /\ w = [id |-> w.id, of |-> w.of]
      /\ sender \in {"idle", "waking", "gone"}
  BY CountersAreNumbers DEF IInv, TypeOK, Waker, Bounded
<1>1. ASSUME NEW v \in Values, Send(v) PROVE MapWaits' /\ WakersExact'
  <2>0. sender = "idle"
    BY <1>1 DEF Send
  <2>1. CASE Handles = {} /\ version' = version /\ wakers' = wakers /\ toWake' = toWake
                           /\ sender' = "idle"
    BY <1>0, <1>1, <2>0, <2>1, SendBumps
  <2>2. CASE version' = version + 1 /\ wakers' = {} /\ toWake' = wakers /\ sender' = "waking"
    BY <1>0, <1>1, <2>0, <2>2, SendBumps
  <2> QED
    BY <1>1, <2>1, <2>2, SendBumps
<1>2. ASSUME NEW w \in toWake, Wake(w) PROVE MapWaits' /\ WakersExact'
  <2>1. UNCHANGED <<version, closed, wakers, sender>> /\ toWake' \subseteq toWake
    BY <1>2 DEF Wake
  <2> QED
    BY <1>0, <1>2, <2>1, WakeKeeps
<1>3. CASE DropSender
  <2>1. UNCHANGED <<version, toWake>> /\ closed' = TRUE /\ wakers' = {} /\ sender' = "gone" /\ sender = "idle"
    BY <1>3 DEF DropSender
  <2> QED
    BY <1>0, <1>3, <2>1, WakeKeeps
<1>4. CASE SendReturns \/ UNCHANGED vars
  BY <1>0, <1>4 DEF SendReturns, vars
<1>5. ASSUME NEW r \in Receivers,
             NewReceiver(r) \/ DropReceiver(r) \/ Borrow(r) \/ Changed(r)
      PROVE MapWaits' /\ WakersExact'
  <2>1. UNCHANGED <<version, closed, wakers, sender, toWake>>
    BY <1>5 DEF NewReceiver, DropReceiver, Borrow, Changed
  <2>2. \A q \in Receivers \ {r} : receiver'[q] = receiver[q]
    BY <1>5, OthersKept
  <2>3. ~Parked(r) /\ ~Parked(r)'
    BY <1>5, HandleAfter
  <2> QED
    BY <1>0, <2>1, <2>2, <2>3 DEF Parked
<1>6. ASSUME NEW r \in Receivers, PollChanged(r) PROVE MapWaits' /\ WakersExact'
  <2>1. UNCHANGED <<version, closed, wakers, sender, toWake>> /\ version # receiver[r].version
    BY <1>6 DEF PollChanged
  <2>2. \A q \in Receivers \ {r} : receiver'[q] = receiver[q]
    BY <1>6, OthersKept DEF Poll
  <2>3. ~Parked(r)'
    BY <1>6, HandleAfter
  <2>4. \A w \in wakers : w.of # r
    BY <1>0, <2>1
  <2> QED
    BY <1>0, <2>1, <2>2, <2>3, <2>4 DEF Parked
<1>7. ASSUME NEW r \in Receivers, PollClosed(r) \/ DropChanged(r) PROVE MapWaits' /\ WakersExact'
  <2>1. UNCHANGED <<version, closed, sender, toWake>> /\ wakers' = {w \in wakers : w.id # receiver[r].id}
    BY <1>7 DEF PollClosed, DropChanged, Unregistered
  <2>2. \A q \in Receivers \ {r} : receiver'[q] = receiver[q]
    BY <1>7, OthersKept DEF Poll
  <2>3. ~Parked(r)'
    BY <1>7, HandleAfter
  <2>4. \A w \in wakers' : w.of # r
    BY <1>0, <2>1
  <2>5. ASSUME NEW q \in Receivers, q # r, Parked(q), ~HasNews(q)
        PROVE [id |-> receiver[q].id, of |-> q] \in wakers'
    <3>1. [id |-> receiver[q].id, of |-> q] \in wakers
      BY <1>0, <2>5 DEF Parked
    <3>2. receiver[q].id # receiver[r].id
      BY <2>5, OtherId
    <3> QED
      BY <2>1, <3>1, <3>2
  <2> QED
    BY <1>0, <2>1, <2>2, <2>3, <2>4, <2>5 DEF Parked
<1>8. ASSUME NEW r \in Receivers, PollPending(r) PROVE MapWaits' /\ WakersExact'
  <2> DEFINE i == nextWakerId'
  <2>1. /\ UNCHANGED <<version, closed, sender, toWake>> /\ ~HasNews(r)
        /\ wakers' = {w \in wakers : w.id # receiver[r].id} \cup {[id |-> i, of |-> r]}
    BY <1>8, <1>0 DEF PollPending, Unregistered, IInv, TypeOK
  <2>2. \A q \in Receivers \ {r} : receiver'[q] = receiver[q]
    BY <1>8, OthersKept DEF Poll
  <2>3. Parked(r)' /\ receiver'[r].version = receiver[r].version /\ receiver'[r].id = i
    BY <1>8, HandleAfter
  <2>4. \A w \in wakers : w.id # receiver[r].id => w.of # r
    BY <1>0
  <2>5. ASSUME NEW q \in Receivers, q # r, Parked(q), ~HasNews(q)
        PROVE [id |-> receiver[q].id, of |-> q] \in wakers'
    <3>1. [id |-> receiver[q].id, of |-> q] \in wakers
      BY <1>0, <2>5 DEF Parked
    <3>2. receiver[q].id # receiver[r].id
      BY <2>5, OtherId
    <3> QED
      BY <2>1, <3>1, <3>2
  <2> HIDE DEF i
  <2> QED
    BY <1>0, <2>1, <2>2, <2>3, <2>4, <2>5 DEF Parked
<1>9. ASSUME NEW r \in Receivers, NEW q \in Receivers, CloneReceiver(r, q) PROVE MapWaits' /\ WakersExact'
  BY <1>0, <1>9 DEF CloneReceiver, IInv, TypeOK
<1> QED
  BY <1>1, <1>2, <1>3, <1>4, <1>5, <1>6, <1>7, <1>8, <1>9 DEF Next, Poll

\* The inductive invariant holds throughout
THEOREM IInvHolds == Spec => []IInv
<1>1. IInv /\ [Next]_vars => IInv'
  BY NextTypeOK, NextBounded, NextIdsDistinct, NextMap DEF IInv
<1> QED
  BY InitIInv, <1>1, PTL DEF Spec

\* Type correctness of the channel
THEOREM TypeCorrect == Spec => []TypeOK
<1>1. IInv => TypeOK
  BY DEF IInv
<1> QED
  BY <1>1, IInvHolds, PTL

\* The wakers in the map are exactly those of the futures that wait for news
THEOREM WakersExactHolds == Spec => []WakersExact
<1>1. IInv => WakersExact
  BY DEF IInv
<1> QED
  BY <1>1, IInvHolds, PTL

\* No wake-up is lost, whatever polls race the wakes of send
THEOREM NoLostWakeupHolds == Spec => []NoLostWakeup
<1>1. Init => NoLostWakeup
  BY DEF Init, NoLostWakeup, NoHandle
<1>2. IInv /\ NoLostWakeup /\ [Next]_vars => NoLostWakeup'
  <2> SUFFICES ASSUME IInv, NoLostWakeup, [Next]_vars, NEW p \in Receivers,
                      Parked(p)', HasNews(p)'
               PROVE  receiver'[p].woken \/ \E w \in toWake' : w.of = p
    BY DEF NoLostWakeup, Parked
  <2> USE DEF HasNews
  <2>0. /\ MapWaits /\ WakersExact
        /\ Parked(p) /\ HasNews(p) => receiver[p].woken \/ \E w \in toWake : w.of = p
        /\ DOMAIN receiver = Receivers
        /\ DOMAIN receiver[p] = {"stage", "version", "id", "woken", "stamp"}
    BY DEF IInv, NoLostWakeup, Parked, TypeOK, Handle
  <2>1. ASSUME NEW v \in Values, Send(v)
        PROVE receiver'[p].woken \/ \E w \in toWake' : w.of = p
    <3>1. Parked(p) /\ p \in Handles /\ toWake = {}
      BY <2>1, <2>0, SendBumps DEF Parked, Handles, Send, MapWaits
    <3>2. toWake' = wakers /\ receiver' = receiver
      BY <2>1, <3>1, SendBumps
    <3>3. CASE HasNews(p)
      BY <2>0, <3>1, <3>2, <3>3
    <3>4. CASE ~HasNews(p)
      BY <2>0, <3>1, <3>2, <3>4 DEF WakersExact, Parked
    <3> QED
      BY <3>3, <3>4
  <2>2. ASSUME NEW w \in toWake, Wake(w)
        PROVE receiver'[p].woken \/ \E u \in toWake' : u.of = p
    <3>1. Parked(p) /\ HasNews(p)
      BY <2>2, WakeKeeps DEF Parked, Wake
    <3>2. CASE w.of = p
      <4>1. receiver'[p] = [receiver[p] EXCEPT !.woken = @ \/ receiver[p].stage = "parked"]
        BY <2>0, <2>2, <3>2 DEF Wake, Woken
      <4>2. receiver'[p].woken = (receiver[p].woken \/ receiver[p].stage = "parked")
        BY <4>1, <2>0
      <4> QED
        BY <4>2, <3>1, Zenon DEF Parked
    <3>3. CASE w.of # p
      <4>1. receiver'[p] = receiver[p]
        BY <2>0, <2>2, <3>3 DEF Wake, Woken
      <4> QED
        BY <2>0, <2>2, <3>1, <3>3, <4>1 DEF Wake
    <3> QED
      BY <3>2, <3>3
  <2>3. CASE DropSender
    <3>1. Parked(p) /\ toWake = {}
      <4>1. sender = "idle"
        BY <2>3 DEF DropSender
      <4>2. toWake = {}
        BY <2>0, <4>1 DEF MapWaits
      <4> QED
        BY <2>3, <4>2, WakeKeeps DEF Parked
    <3>2. receiver'[p].woken = (receiver[p].woken \/ \E w \in wakers : w.of = p)
      <4> DEFINE b == \E w \in wakers : w.of = p
      <4>1. receiver'[p] = [receiver[p] EXCEPT !.woken = @ \/ b]
        BY <2>3 DEF DropSender, WokenByDrop
      <4> HIDE DEF b
      <4>2. receiver'[p].woken = (receiver[p].woken \/ b)
        BY <4>1, <2>0
      <4> QED
        BY <4>2 DEF b
    <3>3. receiver[p].woken \/ \E w \in wakers : w.of = p
      BY <2>0, <3>1 DEF WakersExact, Parked
    <3> QED
      BY <3>2, <3>3, Zenon
  <2>4. CASE SendReturns \/ UNCHANGED vars
    BY <2>0, <2>4 DEF SendReturns, vars, Parked
  <2>5. ASSUME NEW r \in Receivers,
               \/ NewReceiver(r) \/ DropReceiver(r) \/ Borrow(r) \/ Changed(r)
               \/ PollChanged(r) \/ PollClosed(r) \/ DropChanged(r)
        PROVE receiver'[p].woken \/ \E w \in toWake' : w.of = p
    <3>1. UNCHANGED <<version, closed, toWake>>
      BY <2>5 DEF NewReceiver, DropReceiver, Borrow, Changed, PollChanged, PollClosed, DropChanged
    <3>2. p # r
      BY <2>5, HandleAfter
    <3>3. receiver'[p] = receiver[p]
      BY <2>5, <3>2, OthersKept DEF Poll
    <3> QED
      BY <2>0, <3>1, <3>3 DEF Parked
  <2>6. ASSUME NEW r \in Receivers, PollPending(r)
        PROVE receiver'[p].woken \/ \E w \in toWake' : w.of = p
    <3>1. UNCHANGED <<version, closed, toWake>> /\ ~HasNews(r)
      BY <2>6 DEF PollPending, IInv, TypeOK
    <3>2. p # r
      BY <2>6, <3>1, HandleAfter
    <3>3. receiver'[p] = receiver[p]
      BY <2>6, <3>2, OthersKept DEF Poll
    <3> QED
      BY <2>0, <3>1, <3>3 DEF Parked
  <2>7. ASSUME NEW r \in Receivers, NEW q \in Receivers, CloneReceiver(r, q)
        PROVE receiver'[p].woken \/ \E w \in toWake' : w.of = p
    BY <2>0, <2>7 DEF CloneReceiver, Parked
  <2> QED
    BY <2>1, <2>2, <2>3, <2>4, <2>5, <2>6, <2>7 DEF Next, Poll
<1> QED
  BY <1>1, <1>2, IInvHolds, PTL DEF Spec

\* A handle with the channel's version has seen the channel's value
THEOREM VersionTellsValueHolds == Spec => []VersionTellsValue
<1>1. Init => VersionTellsValue
  BY DEF Init, VersionTellsValue, NoHandle, Handles
<1>2. IInv /\ VersionTellsValue /\ [Next]_vars => VersionTellsValue'
  <2> SUFFICES ASSUME IInv, VersionTellsValue, [Next]_vars, NEW p \in Receivers,
                      receiver'[p].stage # "none", receiver'[p].version = version'
               PROVE  receiver'[p].stamp = value'
    BY DEF VersionTellsValue, Handles
  <2>0. /\ receiver[p].stage # "none" /\ receiver[p].version = version => receiver[p].stamp = value
        /\ DOMAIN receiver = Receivers
        /\ DOMAIN receiver[p] = {"stage", "version", "id", "woken", "stamp"}
        /\ version \in Nat /\ receiver[p].version \in Nat /\ receiver[p].version <= version
    BY CountersAreNumbers DEF IInv, VersionTellsValue, Handles, TypeOK, Handle, Bounded
  <2>1. ASSUME NEW v \in Values, Send(v) PROVE receiver'[p].stamp = value'
    BY <2>0, <2>1, SendBumps DEF Handles
  <2>2. CASE (\E w \in toWake : Wake(w)) \/ DropSender
    <3>1. UNCHANGED <<version, value>>
      BY <2>2 DEF Wake, DropSender
    <3> QED
      BY <2>0, <2>2, <3>1, WakeKeeps
  <2>3. CASE SendReturns \/ UNCHANGED vars
    BY <2>0, <2>3 DEF SendReturns, vars
  <2>4. ASSUME NEW r \in Receivers,
               \/ NewReceiver(r) \/ DropReceiver(r) \/ Borrow(r) \/ Changed(r)
               \/ PollChanged(r) \/ PollClosed(r) \/ PollPending(r) \/ DropChanged(r)
        PROVE receiver'[p].stamp = value'
    <3>1. UNCHANGED <<version, value>>
      BY <2>4 DEF NewReceiver, DropReceiver, Borrow, Changed, PollChanged, PollClosed,
                  PollPending, DropChanged
    <3>2. CASE p # r
      BY <2>0, <2>4, <3>1, <3>2, OthersKept DEF Poll
    <3>3. CASE p = r /\ (NewReceiver(r) \/ DropReceiver(r) \/ Borrow(r) \/ Changed(r))
      <4>1. CASE NewReceiver(r) \/ DropReceiver(r)
        <5>1. NoHandle(value).stamp = value
              /\ [NoHandle(value) EXCEPT !.stage = "idle", !.version = version].stamp = value
          BY DEF NoHandle
        <5>2. receiver'[r].stamp = value
          BY <2>0, <3>3, <4>1, <5>1 DEF NewReceiver, DropReceiver
        <5> QED
          BY <3>1, <3>3, <5>2
      <4>2. CASE Borrow(r)
        BY <2>0, <3>1, <3>3, <4>2 DEF Borrow
      <4>3. CASE Changed(r)
        BY <2>0, <3>1, <3>3, <4>3 DEF Changed
      <4> QED
        BY <3>3, <4>1, <4>2, <4>3
    <3>4. CASE p = r /\ (PollChanged(r) \/ PollClosed(r) \/ PollPending(r) \/ DropChanged(r))
      <4>1. receiver[r].stage # "none"
        BY <3>4 DEF PollChanged, PollClosed, PollPending, DropChanged, Futures
      <4> QED
        BY <2>0, <3>1, <3>4, <4>1, ZenonT(30) DEF PollChanged, PollClosed, PollPending, DropChanged, Completed
    <3> QED
      BY <2>4, <3>2, <3>3, <3>4
  <2>5. ASSUME NEW r \in Receivers, NEW q \in Receivers, CloneReceiver(r, q)
        PROVE receiver'[p].stamp = value'
    <3>1. UNCHANGED <<version, value>> /\ receiver' = [receiver EXCEPT ![q] = receiver[r]]
          /\ receiver[r].stage = "idle"
      BY <2>5 DEF CloneReceiver
    <3>2. receiver[r].version = version => receiver[r].stamp = value
      BY <3>1 DEF VersionTellsValue, Handles
    <3> QED
      BY <2>0, <3>1, <3>2
  <2> QED
    BY <2>1, <2>2, <2>3, <2>4, <2>5 DEF Next, Poll
<1> QED
  BY <1>1, <1>2, IInvHolds, PTL DEF Spec

\* A channel nobody could observe differently: the register stutters
LEMMA SameView ==
  ASSUME UNCHANGED <<value, closed>>,
         \A q \in Receivers : View(receiver[q], version)' = View(receiver[q], version)
  PROVE  UNCHANGED Register!vars
  BY DEF Register!vars

\* Every step of the channel is a step of the register, or none
LEMMA StepRefines ==
  ASSUME IInv, [Next]_vars
  PROVE  [Register!Next]_(Register!vars)
<1>0. /\ DOMAIN receiver = Receivers
      /\ \A q \in Receivers : /\ receiver[q].stage \in {"none", "idle", "ready", "parked"}
                               /\ DOMAIN receiver[q] = {"stage", "version", "id", "woken", "stamp"}
                               /\ receiver[q].version \in Nat /\ receiver[q].version <= version
      /\ version \in Nat /\ MapWaits
  BY CountersAreNumbers DEF IInv, TypeOK, Handle, Bounded
<1>1. ASSUME NEW v \in Values, Send(v) PROVE Register!Write(v)
  <2>1. ASSUME NEW q \in Receivers
        PROVE View(receiver[q], version)' = [stage |-> View(receiver[q], version).stage, seen |-> FALSE]
    <3>1. receiver' = receiver /\ (receiver[q].stage = "none" \/ receiver[q].version # version')
      BY <1>0, <1>1, SendBumps DEF Handles
    <3>2. (receiver[q].stage # "none" /\ receiver[q].version = version') = FALSE
      BY <3>1
    <3>3. View(receiver[q], version)' = View(receiver[q], version')
      BY <3>1 DEF View
    <3> QED
      BY <3>2, <3>3 DEF View
  <2>2. value' = v /\ ~closed /\ closed' = closed
    BY <1>0, <1>1 DEF Send, MapWaits
  <2> QED
    BY <2>1, <2>2 DEF Register!Write
<1>2. ASSUME NEW w \in toWake, Wake(w) PROVE UNCHANGED Register!vars
  <2>1. UNCHANGED <<value, closed, version>>
    BY <1>2 DEF Wake
  <2> QED
    BY <1>2, <2>1, WakeKeeps, SameView DEF View
<1>3. CASE SendReturns \/ UNCHANGED vars
  BY <1>3, SameView DEF SendReturns, vars, View
<1>4. CASE DropSender
  <2>1. UNCHANGED <<value, version>> /\ closed' = TRUE /\ ~closed
    BY <1>0, <1>4 DEF DropSender, MapWaits
  <2>2. \A q \in Receivers : View(receiver[q], version)' = View(receiver[q], version)
    BY <1>4, <2>1, WakeKeeps DEF View
  <2>3. Register!Close
    BY <2>1, <2>2 DEF Register!Close
  <2> QED
    BY <2>3 DEF Register!Next
<1>5. ASSUME NEW r \in Receivers, NewReceiver(r) PROVE Register!Subscribe(r)
  BY <1>0, <1>5 DEF NewReceiver, NoHandle, View, Register!Subscribe, MapWaits
<1>6. ASSUME NEW r \in Receivers, DropReceiver(r) PROVE Register!Unsubscribe(r)
  BY <1>0, <1>6 DEF DropReceiver, NoHandle, View, Register!Unsubscribe, Register!Absent
<1>7. ASSUME NEW r \in Receivers, Borrow(r) PROVE Register!Read(r)
  BY <1>0, <1>7 DEF Borrow, View, Register!Read
<1>8. ASSUME NEW r \in Receivers, Changed(r) PROVE Register!Wait(r)
  BY <1>0, <1>8 DEF Changed, View, Register!Wait
<1>9. ASSUME NEW r \in Receivers, PollChanged(r) PROVE Register!WaitEnds(r)
  BY <1>0, <1>9 DEF PollChanged, Completed, Futures, View, Register!WaitEnds
<1>10. ASSUME NEW r \in Receivers, PollClosed(r) PROVE Register!WaitEnds(r)
  BY <1>0, <1>10 DEF PollClosed, Completed, Futures, View, Register!WaitEnds
<1>11. ASSUME NEW r \in Receivers, PollPending(r) PROVE UNCHANGED Register!vars
  BY <1>0, <1>11, SameView DEF PollPending, Futures, View
<1>12. ASSUME NEW r \in Receivers, DropChanged(r) PROVE Register!GiveUp(r)
  BY <1>0, <1>12 DEF DropChanged, Completed, Futures, View, Register!GiveUp
<1>13. ASSUME NEW r \in Receivers, NEW q \in Receivers, CloneReceiver(r, q) PROVE Register!Clone(r, q)
  BY <1>0, <1>13 DEF CloneReceiver, View, Register!Clone
<1> QED
  BY <1>1, <1>2, <1>3, <1>4, <1>5, <1>6, <1>7, <1>8, <1>9, <1>10, <1>11, <1>12, <1>13
  DEF Next, Poll, Register!Next

\* The channel implements the register
THEOREM ChannelImplementsRegister == Spec => ImplementsRegister
<1>1. Init => Register!Init
  <2> SUFFICES ASSUME Init PROVE Register!Init
    OBVIOUS
  <2>1. PICK r \in Receivers :
          receiver = [q \in Receivers |-> IF q = r THEN [NoHandle(value) EXCEPT !.stage = "idle"]
                                          ELSE NoHandle(value)]
    BY DEF Init
  <2>2. \A q \in Receivers : View(receiver[q], version) =
          IF q = r THEN [stage |-> "idle", seen |-> TRUE] ELSE [stage |-> "none", seen |-> FALSE]
    BY <2>1 DEF Init, NoHandle, View
  <2> QED
    BY <2>2 DEF Init, Register!Init, Register!Absent
<1>2. IInv /\ [Next]_vars => [Register!Next]_(Register!vars)
  BY StepRefines
<1> QED
  BY <1>1, <1>2, IInvHolds, PTL DEF Spec, ImplementsRegister, Register!Spec
=============================================================================
