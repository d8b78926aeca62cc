---------------------------- MODULE WatchChannel ----------------------------
(***************************************************************************)
(* The watch channel (crates/watch/src/watch.rs): one Sender, any number   *)
(* of Receivers on other threads, a value with a version, and the wakers   *)
(* of the futures that Receiver::changed returned.  The cancellation of an *)
(* agent turn and much else in the editor is such a channel.               *)
(*                                                                         *)
(* A section under the lock is one action.  send wakes its wakers after it *)
(* has released the lock, so each wake is an action of its own.            *)
(***************************************************************************)
EXTENDS Integers, FiniteSets

CONSTANTS
  Receivers,   \* handles a program may hold, over its whole life
  Values,      \* values that are sent
  None,        \* Rust's Option::None
  Modulus,     \* number of values of a usize
  MaxSends,    \* bound: values sent
  MaxWakers    \* bound: wakers registered

ASSUME WatchAssumption ==
  /\ Modulus \in Nat /\ MaxSends \in Nat /\ MaxWakers \in Nat
  /\ MaxSends < Modulus /\ MaxWakers < Modulus   \* no counter wraps around
  /\ None \notin Nat /\ IsFiniteSet(Receivers)

VARIABLES
  value,         \* State.value
  version,       \* State.version
  closed,        \* State.closed
  wakers,        \* State.wakers: registered waker ids, each with its receiver
  nextWakerId,   \* State.next_waker_id
  sender,        \* "idle", "waking" (inside send, after the lock), "gone"
  toWake,        \* the wakers send took and has still to wake
  receiver       \* each handle, its future and the task that polls it

vars == <<value, version, closed, wakers, nextWakerId, sender, toWake, receiver>>

Counter == 0..(Modulus - 1)
Waker == [id : Counter, of : Receivers]

\* stage: "none" (no such handle), "idle" (no future), "ready" (a future that
\*        has to be polled), "parked" (it returned Pending)
\* id:    pending_waker_id of the future
\* stamp: history, the value the channel held when the version was read
Handle == [stage : {"none", "idle", "ready"}, version : Counter, id : {None},
           woken : {FALSE}, stamp : Values]
          \cup [stage : {"parked"}, version : Counter, id : Counter,
                woken : BOOLEAN, stamp : Values]

TypeOK ==
  /\ value \in Values
  /\ version \in Counter
  /\ closed \in BOOLEAN
  /\ wakers \in SUBSET Waker
  /\ nextWakerId \in Counter
  /\ sender \in {"idle", "waking", "gone"}
  /\ toWake \in SUBSET Waker
  /\ receiver \in [Receivers -> Handle]

Handles == {r \in Receivers : receiver[r].stage # "none"}
Futures == {r \in Receivers : receiver[r].stage \in {"ready", "parked"}}

NoHandle(v) == [stage |-> "none", version |-> 0, id |-> None, woken |-> FALSE, stamp |-> v]

\* channel(value)
Init ==
  /\ value \in Values
  /\ version = 0
  /\ closed = FALSE
  /\ wakers = {}
  /\ nextWakerId = 0
  /\ sender = "idle"
  /\ toWake = {}
  /\ \E r \in Receivers :
       receiver = [q \in Receivers |->
                     IF q = r THEN [NoHandle(value) EXCEPT !.stage = "idle"]
                     ELSE NoHandle(value)]
-----------------------------------------------------------------------------
\* usize::wrapping_add(1)
WrappingInc(n) == IF n + 1 = Modulus THEN 0 ELSE n + 1

\* The wake of a task that may by now be doing something else
Woken(r) == [receiver EXCEPT ![r].woken = @ \/ receiver[r].stage = "parked"]

\* Arc::get_mut: the sender holds the only reference to the state
SoleOwnerMutant == Cardinality(Handles) <= 1
SoleOwner == Handles = {}

\* state.version in send
BumpVersionMutant == version' = version
BumpVersion == version' = WrappingInc(version)

\* Sender::send, up to the release of the lock.  Without receivers the value
\* is replaced and nothing else (Err(NoReceiverError)).
Send(v) ==
  /\ sender = "idle"
  /\ version < MaxSends
  /\ value' = v
  /\ IF SoleOwner
     THEN UNCHANGED <<version, wakers, sender, toWake>>
     ELSE /\ BumpVersion
          /\ toWake' = wakers
          /\ wakers' = {}
          /\ sender' = "waking"
  /\ UNCHANGED <<closed, nextWakerId, receiver>>

\* The loop of send after the lock: one waker.wake() each
Wake(w) ==
  /\ sender = "waking"
  /\ w \in toWake
  /\ toWake' = toWake \ {w}
  /\ receiver' = Woken(w.of)
  /\ UNCHANGED <<value, version, closed, wakers, nextWakerId, sender>>

\* send returns Ok(())
SendReturns ==
  /\ sender = "waking"
  /\ toWake = {}
  /\ sender' = "idle"
  /\ UNCHANGED <<value, version, closed, wakers, nextWakerId, toWake, receiver>>

\* Drop for Sender wakes everybody with the lock held
WokenByDropMutant == receiver
WokenByDrop == [r \in Receivers |->
                  [receiver[r] EXCEPT !.woken = @ \/ \E w \in wakers : w.of = r]]
DropSender ==
  /\ sender = "idle"
  /\ sender' = "gone"
  /\ closed' = TRUE
  /\ wakers' = {}
  /\ receiver' = WokenByDrop
  /\ UNCHANGED <<value, version, nextWakerId, toWake>>

\* Sender::receiver: a handle that has seen the current version
NewReceiver(r) ==
  /\ sender = "idle"
  /\ receiver[r].stage = "none"
  /\ receiver' = [receiver EXCEPT ![r] = [NoHandle(value) EXCEPT !.stage = "idle",
                                                                 !.version = version]]
  /\ UNCHANGED <<value, version, closed, wakers, nextWakerId, sender, toWake>>

\* Receiver::clone: the copy has seen what the original has seen
CloneReceiver(r, q) ==
  /\ receiver[r].stage = "idle"
  /\ receiver[q].stage = "none"
  /\ receiver' = [receiver EXCEPT ![q] = receiver[r]]
  /\ UNCHANGED <<value, version, closed, wakers, nextWakerId, sender, toWake>>

\* A handle is dropped; changed borrows it, so it has no future
DropReceiver(r) ==
  /\ receiver[r].stage = "idle"
  /\ receiver' = [receiver EXCEPT ![r] = NoHandle(value)]
  /\ UNCHANGED <<value, version, closed, wakers, nextWakerId, sender, toWake>>

\* Receiver::borrow marks the value as seen
Borrow(r) ==
  /\ receiver[r].stage = "idle"
  /\ receiver' = [receiver EXCEPT ![r].version = version, ![r].stamp = value]
  /\ UNCHANGED <<value, version, closed, wakers, nextWakerId, sender, toWake>>

\* Receiver::changed: the future exists and its task will poll it
Changed(r) ==
  /\ receiver[r].stage = "idle"
  /\ receiver' = [receiver EXCEPT ![r].stage = "ready", ![r].id = None]
  /\ UNCHANGED <<value, version, closed, wakers, nextWakerId, sender, toWake>>

\* A future is done with: its waker id goes with it
CompletedMutant(r) == [receiver[r] EXCEPT !.stage = "idle", !.woken = FALSE]
Completed(r) == [receiver[r] EXCEPT !.stage = "idle", !.id = None, !.woken = FALSE]

\* Drop for Changed, on the waker registered under the future's id
UnregisteredMutant(r) == wakers
Unregistered(r) == {w \in wakers : w.id # receiver[r].id}

\* Changed::poll when a new value is there.  The id is forgotten, so the drop
\* of the future that follows removes nothing.
PollChanged(r) ==
  /\ r \in Futures
  /\ version # receiver[r].version
  /\ receiver' = [receiver EXCEPT ![r] = [Completed(r) EXCEPT !.version = version,
                                                              !.stamp = value]]
  /\ UNCHANGED <<value, version, closed, wakers, nextWakerId, sender, toWake>>

\* Changed::poll when the sender is gone, and the drop of the future
PollClosed(r) ==
  /\ r \in Futures
  /\ version = receiver[r].version
  /\ closed
  /\ receiver' = [receiver EXCEPT ![r] = Completed(r)]
  /\ wakers' = Unregistered(r)
  /\ UNCHANGED <<value, version, closed, nextWakerId, sender, toWake>>

\* Changed::poll that has to wait, perhaps again (select! polls a future whose
\* waker was not woken): the old waker is replaced by a new one
PollPending(r) ==
  LET id == WrappingInc(nextWakerId)
  IN  /\ r \in Futures
      /\ version = receiver[r].version
      /\ ~closed
      /\ nextWakerId < MaxWakers
      /\ wakers' = Unregistered(r) \cup {[id |-> id, of |-> r]}
      /\ nextWakerId' = id
      /\ receiver' = [receiver EXCEPT ![r].stage = "parked", ![r].id = id,
                                      ![r].woken = FALSE]
      /\ UNCHANGED <<value, version, closed, sender, toWake>>

\* The future is dropped before it completes (select! took another branch)
DropChanged(r) ==
  /\ r \in Futures
  /\ receiver' = [receiver EXCEPT ![r] = Completed(r)]
  /\ wakers' = Unregistered(r)
  /\ UNCHANGED <<value, version, closed, nextWakerId, sender, toWake>>
-----------------------------------------------------------------------------
Poll(r) == PollChanged(r) \/ PollClosed(r) \/ PollPending(r)

Next ==
  \/ \E v \in Values : Send(v)
  \/ \E w \in toWake : Wake(w)
  \/ SendReturns \/ DropSender
  \/ \E r \in Receivers :
       \/ NewReceiver(r) \/ DropReceiver(r) \/ Borrow(r) \/ Changed(r)
       \/ Poll(r) \/ DropChanged(r)
       \/ \E q \in Receivers : CloneReceiver(r, q)

Spec == Init /\ [][Next]_vars

\* send runs to its end once it has the lock; the executor polls a task when
\* it starts to wait and whenever it was woken, and nothing else obliges it to
Obliged(r) == receiver[r].stage = "ready" \/ receiver[r].woken
Fairness ==
  /\ WF_vars(SendReturns \/ \E w \in toWake : Wake(w))
  /\ \A r \in Receivers : WF_vars(Obliged(r) /\ Poll(r))

FairSpec == Spec /\ Fairness
-----------------------------------------------------------------------------
\* A future has news when it should complete: an unseen version, or no sender
HasNews(r) == receiver[r].version # version \/ closed

\* No wake-up is lost: a parked future with news has been woken, or send still
\* holds one of its wakers.  Polls race send's wakes, which come after the lock
NoLostWakeup ==
  \A r \in Receivers : receiver[r].stage = "parked" /\ HasNews(r) =>
    receiver[r].woken \/ \E w \in toWake : w.of = r

\* The map of wakers holds exactly the parked futures that wait for news, each
\* under the id the future remembers: futures that completed or were dropped
\* leave nothing behind ("to avoid a memory leak"; also send's debug_assert that
\* without receivers there are no wakers)
WakersExact ==
  /\ \A w \in wakers : receiver[w.of].stage = "parked" /\ receiver[w.of].id = w.id
  /\ \A r \in Receivers : receiver[r].stage = "parked" /\ ~HasNews(r) =>
       [id |-> receiver[r].id, of |-> r] \in wakers

\* No value goes unnoticed: a handle whose version is the channel's version has
\* seen the value that the channel holds (send without receivers changes the
\* value and not the version)
VersionTellsValue ==
  \A r \in Handles : receiver[r].version = version => receiver[r].stamp = value

\* The register this channel implements: versions become "seen", a future that
\* was created and has not completed becomes a wait, wakers disappear
View(h, n) == [stage |-> IF h.stage \in {"ready", "parked"} THEN "waiting" ELSE h.stage,
               seen  |-> h.stage # "none" /\ h.version = n]
Register == INSTANCE WatchRegister WITH
              handle <- [r \in Receivers |-> View(receiver[r], version)]

\* The channel is a register: every send that a receiver could observe makes all
\* of them behind, changed completes only for one that is behind or closed
ImplementsRegister == Register!Spec

\* And changed does complete then: what send and the drop of the sender do to the
\* wakers is enough for an executor that polls a task only when it was woken
NewsDelivered == Register!Fairness
=============================================================================
