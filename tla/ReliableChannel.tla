-------------------------- MODULE ReliableChannel --------------------------
(***************************************************************************)
(* What one direction of the remote connection promises to the code above  *)
(* it (crates/remote/src/remote_client.rs, ChannelClient): messages are     *)
(* numbered in the order they are sent; the receiver's handlers see every    *)
(* message for the first time in that order, and may see again, after a      *)
(* reconnection, any message they have already seen.  The promise is void    *)
(* (spoiled) once a message or an answer is under way although an earlier    *)
(* message was lost; from then on messages may be seen in any order.         *)
(***************************************************************************)
EXTENDS Naturals, Sequences

VARIABLES sent,     \* how many messages the sender's code has sent
          got,      \* the numbers the receiver's handlers were called with
          spoiled   \* something was under way behind a lost message

vars == <<sent, got, spoiled>>

Numbers(s) == {s[i] : i \in DOMAIN s}

Init == sent = 0 /\ got = <<>> /\ spoiled = FALSE

Send == /\ sent' = sent + 1
        /\ spoiled' \in {spoiled, TRUE}
        /\ UNCHANGED got

\* a connection is lost between two messages, or an answer overtakes one
Spoil == spoiled' = TRUE /\ UNCHANGED <<sent, got>>

\* a first delivery is of the successor of the newest message delivered
Deliver == \E n \in 1..sent :
             /\ spoiled \/ \A k \in 1..(n - 1) : k \in Numbers(got)
             /\ got' = Append(got, n)
             /\ UNCHANGED <<sent, spoiled>>

Next == Send \/ Spoil \/ Deliver

Spec == Init /\ [][Next]_vars
=============================================================================
