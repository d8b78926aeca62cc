---------------------------- MODULE WatchRegister ----------------------------
(***************************************************************************)
(* What a watch channel promises (crates/watch): a register with one       *)
(* writer.  A receiver has seen the current value or it has not; every     *)
(* write makes all receivers behind; one that waits for a change goes on   *)
(* once it is behind or the writer is gone.  No versions, no wakers.       *)
(***************************************************************************)
CONSTANTS Receivers, Values

VARIABLES
  value,    \* the value held
  closed,   \* the writer is gone
  handle    \* what each receiver does, and whether it has seen the value

vars == <<value, closed, handle>>

Absent == [stage |-> "none", seen |-> FALSE]

Init ==
  /\ value \in Values
  /\ closed = FALSE
  /\ \E r \in Receivers :
       handle = [q \in Receivers |-> IF q = r THEN [stage |-> "idle", seen |-> TRUE]
                                     ELSE Absent]

Write(v) ==
  /\ ~closed
  /\ value' = v
  /\ handle' = [r \in Receivers |-> [stage |-> handle[r].stage, seen |-> FALSE]]
  /\ UNCHANGED closed

Close ==
  /\ ~closed
  /\ closed' = TRUE
  /\ UNCHANGED <<value, handle>>

Subscribe(r) ==
  /\ ~closed
  /\ handle[r].stage = "none"
  /\ handle' = [handle EXCEPT ![r] = [stage |-> "idle", seen |-> TRUE]]
  /\ UNCHANGED <<value, closed>>

Clone(r, q) ==
  /\ handle[r].stage = "idle"
  /\ handle[q].stage = "none"
  /\ handle' = [handle EXCEPT ![q] = handle[r]]
  /\ UNCHANGED <<value, closed>>

Unsubscribe(r) ==
  /\ handle[r].stage = "idle"
  /\ handle' = [handle EXCEPT ![r] = Absent]
  /\ UNCHANGED <<value, closed>>

Read(r) ==
  /\ handle[r].stage = "idle"
  /\ handle' = [handle EXCEPT ![r].seen = TRUE]
  /\ UNCHANGED <<value, closed>>

Wait(r) ==
  /\ handle[r].stage = "idle"
  /\ handle' = [handle EXCEPT ![r].stage = "waiting"]
  /\ UNCHANGED <<value, closed>>

\* The wait ends with the value seen, or because the writer is gone
WaitEnds(r) ==
  /\ handle[r].stage = "waiting"
  /\ ~handle[r].seen \/ closed
  /\ handle' = [handle EXCEPT ![r] = [stage |-> "idle", seen |-> TRUE]]
  /\ UNCHANGED <<value, closed>>

GiveUp(r) ==
  /\ handle[r].stage = "waiting"
  /\ handle' = [handle EXCEPT ![r].stage = "idle"]
  /\ UNCHANGED <<value, closed>>

Next ==
  \/ \E v \in Values : Write(v)
  \/ Close
  \/ \E r \in Receivers :
       \/ Subscribe(r) \/ Unsubscribe(r) \/ Read(r) \/ Wait(r) \/ WaitEnds(r) \/ GiveUp(r)
       \/ \E q \in Receivers : Clone(r, q)

Spec == Init /\ [][Next]_vars

\* A wait that can end does end
Fairness == \A r \in Receivers : WF_vars(WaitEnds(r))
=============================================================================
