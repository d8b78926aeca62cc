---------------------------- MODULE RemoteChannel ---------------------------
(***************************************************************************)
(* The two ChannelClients of a remote project                               *)
(* (crates/remote/src/remote_client.rs) and the stream between them, which  *)
(* the server's accept loop (crates/remote_server/src/server.rs) keeps       *)
(* alive across connections.  A buffered message stays with its sender until *)
(* the peer acknowledges its id; after a reconnection the client asks the    *)
(* server to flush its buffer, and resends its own when that is answered.    *)
(***************************************************************************)
EXTENDS Naturals, Sequences, SequencesExt

CONSTANTS MaxSend,     \* bound: application messages per side
          MaxBreaks,   \* bound: connections lost
          None         \* an absent ack_id, responding_to or request

ASSUME BoundsAssumption == MaxSend \in Nat /\ MaxBreaks \in Nat
ASSUME NoneAssumption == None \notin Nat

Sides == {"client", "server"}

Peer(s) == IF s = "client" THEN "server" ELSE "client"

VARIABLES
  next,         \* next[s]: the id the next message of s gets
  buffer,       \* buffer[s]: sent messages the peer has not acknowledged
  maxReceived,  \* maxReceived[s]: the id s reports in its ack_id
  wire,         \* wire[s]: messages under way to s, oldest first
  link,         \* the transport: "up" or "down"
  flush,        \* the id of the flush request resync() waits for, or None
  resending,    \* the flush was answered; resync() is about to resend
  settled,      \* settled[s]: s has handled the handshake of this connection
  sent, got,    \* sent[s]: messages s sent; got[s]: numbers s's handlers saw
  spoiled,      \* spoiled[s]: a message or answer of s was under way behind a lost
                \* message
  breaks        \* connections lost so far

vars == <<next, buffer, maxReceived, wire, link, flush, resending, settled,
          sent, got, spoiled, breaks>>

(***************************************************************************)
(* Envelopes.  ack is ack_id, re is responding_to, n the number of an        *)
(* application message.                                                      *)
(***************************************************************************)
Data(id, ack, n) == [kind |-> "data", id |-> id, ack |-> ack, re |-> None, n |-> n]
Flush(id, ack)   == [kind |-> "flush", id |-> id, ack |-> ack, re |-> None, n |-> 0]
Ack(id, re)      == [kind |-> "ack", id |-> id, ack |-> None, re |-> re, n |-> 0]
Started          == [kind |-> "started", id |-> 0, ack |-> None, re |-> None, n |-> 0]

\* both ends start by announcing themselves (start_handling_messages)
Init ==
  /\ next = [s \in Sides |-> 0] /\ maxReceived = [s \in Sides |-> 0]
  /\ buffer = [s \in Sides |-> <<>>]
  /\ wire = [s \in Sides |-> <<Started>>]
  /\ link = "up" /\ flush = None /\ resending = FALSE
  /\ settled = [s \in Sides |-> FALSE]
  /\ sent = [s \in Sides |-> 0] /\ got = [s \in Sides |-> <<>>]
  /\ spoiled = [s \in Sides |-> FALSE] /\ breaks = 0

(***************************************************************************)
(* outgoing_tx.  The client's leads to the current proxy process, and while  *)
(* there is none an envelope is dropped; the server's queue outlives the     *)
(* connection, so what it holds is written to the next one.                  *)
(***************************************************************************)
Reaches(s) == s = "server" \/ link = "up"

Out(s, envelopes) == IF Reaches(s) THEN wire[Peer(s)] \o envelopes ELSE wire[Peer(s)]

Numbers(q) == {q[i].n : i \in DOMAIN q} \ {0}

\* messages of s that were put on a wire and will not arrive unless resent
Lost(s) == Numbers(buffer[s]) \ (Numbers(wire[Peer(s)]) \cup Range(got[Peer(s)]))

\* something of s that counts as a receipt of everything before it is under way,
\* and an earlier message is neither delivered nor ahead of it
Overtakes(s) ==
  LET w == wire[Peer(s)] IN
    \E i \in DOMAIN w, m \in Range(buffer[s]) :
      /\ w[i].kind \in {"data", "ack"} /\ m.id < w[i].id
      /\ m.n \notin Range(got[Peer(s)]) /\ \A j \in 1..(i - 1) : w[j].n # m.n

Spoil == spoiled' = [s \in Sides |-> spoiled[s] \/ Overtakes(s)']

\* RemoteClient::new has returned: its ping was answered
Opened == breaks > 0 \/ settled["client"]

\* send_buffered
Send(s) ==
  /\ sent[s] < MaxSend
  /\ s = "client" => Opened
  /\ LET e == Data(next[s], maxReceived[s], sent[s] + 1) IN
       /\ buffer' = [buffer EXCEPT ![s] = Append(@, e)]
       /\ wire' = [wire EXCEPT ![Peer(s)] = Out(s, <<e>>)]
  /\ next' = [next EXCEPT ![s] = @ + 1]
  /\ sent' = [sent EXCEPT ![s] = @ + 1]
  /\ UNCHANGED <<maxReceived, link, flush, resending, settled, got, breaks>>
  /\ Spoil

\* Mutant: one message too many is released.
UnacknowledgedMutant(buf, ack) ==
  IF ack = None THEN buf
  ELSE LET first == SelectInSeq(buf, LAMBDA m : m.id > ack + 1)
       IN  IF first = 0 THEN <<>> ELSE SubSeq(buf, first, Len(buf))

\* what is left of a buffer when its front is popped while the id <= ack
Unacknowledged(buf, ack) ==
  IF ack = None THEN buf
  ELSE LET first == SelectInSeq(buf, LAMBDA m : m.id > ack)
       IN  IF first = 0 THEN <<>> ELSE SubSeq(buf, first, Len(buf))

(***************************************************************************)
(* The receive loop.  The client's waits while resync() uses the answer it   *)
(* was handed.  Every envelope first releases the buffered messages that its *)
(* ack_id covers.                                                            *)
(***************************************************************************)
Incoming(s, kind) ==
  /\ s = "client" => link = "up" /\ ~resending
  /\ wire[s] # <<>> /\ Head(wire[s]).kind = kind

Left(s) == Unacknowledged(buffer[s], Head(wire[s]).ack)

\* Mutant: the flush is answered and nothing is resent.
HandleFlushMutant(s) ==
  /\ Incoming(s, "flush")
  /\ buffer' = [buffer EXCEPT ![s] = Left(s)]
  /\ wire' = [wire EXCEPT ![s] = Tail(@),
                          ![Peer(s)] = Out(s, <<Ack(next[s], Head(wire[s]).id)>>)]
  /\ next' = [next EXCEPT ![s] = @ + 1]
  /\ settled' = [settled EXCEPT ![s] = TRUE]
  /\ UNCHANGED <<maxReceived, link, flush, resending, sent, got, spoiled, breaks>>

\* FlushBufferedMessages: the whole buffer again, then the answer; continue
HandleFlush(s) ==
  /\ Incoming(s, "flush")
  /\ buffer' = [buffer EXCEPT ![s] = Left(s)]
  /\ wire' = [wire EXCEPT ![s] = Tail(@),
                          ![Peer(s)] = Out(s, Append(Left(s), Ack(next[s], Head(wire[s]).id)))]
  /\ next' = [next EXCEPT ![s] = @ + 1]
  /\ settled' = [settled EXCEPT ![s] = TRUE]
  /\ UNCHANGED <<maxReceived, link, flush, resending, sent, got, spoiled, breaks>>

\* RemoteStarted: answered like a flush, without resending anything
HandleStarted(s) ==
  /\ Incoming(s, "started")
  /\ buffer' = [buffer EXCEPT ![s] = Left(s)]
  /\ wire' = [wire EXCEPT ![s] = Tail(@), ![Peer(s)] = Out(s, <<Ack(next[s], 0)>>)]
  /\ next' = [next EXCEPT ![s] = @ + 1]
  /\ settled' = [settled EXCEPT ![s] = @ \/ (s = "server" /\ breaks = 0)]
  /\ UNCHANGED <<maxReceived, link, flush, resending, sent, got, breaks>>
  /\ Spoil

\* an application message: its id becomes the newest received, whatever it is,
\* and its handler runs
HandleData(s) ==
  /\ Incoming(s, "data")
  /\ buffer' = [buffer EXCEPT ![s] = Left(s)]
  /\ wire' = [wire EXCEPT ![s] = Tail(@)]
  /\ maxReceived' = [maxReceived EXCEPT ![s] = Head(wire[s]).id]
  /\ got' = [got EXCEPT ![s] = Append(@, Head(wire[s]).n)]
  /\ UNCHANGED <<next, link, flush, resending, settled, sent, spoiled, breaks>>

\* an answer is received like any message; the one resync() waits for wakes it
HandleAck(s) ==
  /\ Incoming(s, "ack")
  /\ buffer' = [buffer EXCEPT ![s] = Left(s)]
  /\ wire' = [wire EXCEPT ![s] = Tail(@)]
  /\ maxReceived' = [maxReceived EXCEPT ![s] = Head(wire[s]).id]
  /\ LET answersFlush == s = "client" /\ flush # None /\ Head(wire[s]).re = flush IN
       /\ resending' = (resending \/ answersFlush)
       /\ flush' = IF answersFlush THEN None ELSE flush
  /\ settled' = [settled EXCEPT ![s] = @ \/ (s = "client" /\ breaks = 0)]
  /\ UNCHANGED <<next, link, sent, got, spoiled, breaks>>

\* Mutant: the oldest message is skipped.
ResendMutant ==
  /\ resending
  /\ wire' = [wire EXCEPT !["server"] =
                Out("client", SubSeq(buffer["client"], 2, Len(buffer["client"])))]
  /\ resending' = FALSE
  /\ settled' = [settled EXCEPT !["client"] = (link = "up")]
  /\ UNCHANGED <<next, buffer, maxReceived, link, flush, sent, got, spoiled, breaks>>

\* Mutant: the answer to the flush ends resync().
ResendNothingMutant ==
  /\ resending
  /\ resending' = FALSE
  /\ settled' = [settled EXCEPT !["client"] = (link = "up")]
  /\ UNCHANGED <<next, buffer, maxReceived, wire, link, flush, sent, got, spoiled, breaks>>

\* the second half of resync(): the client's whole buffer again
Resend ==
  /\ resending
  /\ wire' = [wire EXCEPT !["server"] = Out("client", buffer["client"])]
  /\ resending' = FALSE
  /\ settled' = [settled EXCEPT !["client"] = (link = "up")]
  /\ UNCHANGED <<next, buffer, maxReceived, link, flush, sent, got, spoiled, breaks>>

(***************************************************************************)
(* The connection dies, or is killed because resync() timed out.  Of what    *)
(* the client wrote the server may have read a prefix; of what the server    *)
(* queued, a prefix had been written to the dead connection.                 *)
(***************************************************************************)
Break ==
  /\ link = "up" /\ Opened /\ breaks < MaxBreaks
  /\ \E read \in 0..Len(wire["server"]), written \in 0..Len(wire["client"]) :
       wire' = [wire EXCEPT !["server"] = SubSeq(@, 1, read),
                            !["client"] = SubSeq(@, written + 1, Len(@))]
  /\ link' = "down" /\ breaks' = breaks + 1
  /\ settled' = [s \in Sides |-> FALSE]
  /\ UNCHANGED <<next, buffer, maxReceived, flush, resending, sent, got>>
  /\ Spoil

\* ChannelClient::reconnect and the first half of resync(): the flush request is
\* written before the new receive loop announces itself
Reconnect ==
  /\ link = "down" /\ ~resending
  /\ link' = "up"
  /\ flush' = next["client"]
  /\ next' = [next EXCEPT !["client"] = @ + 1]
  /\ wire' = [wire EXCEPT !["server"] =
                @ \o <<Flush(next["client"], maxReceived["client"]), Started>>]
  /\ UNCHANGED <<buffer, maxReceived, resending, settled, sent, got, spoiled, breaks>>

Handle(s) == HandleFlush(s) \/ HandleStarted(s) \/ HandleData(s) \/ HandleAck(s)

Next == \/ \E s \in Sides : Send(s) \/ Handle(s)
        \/ Resend \/ Break \/ Reconnect

Spec == Init /\ [][Next]_vars

\* the receive loops and resync() are tasks the executor runs; a lost connection
\* is retried (RemoteClient); losing one is not fair, and Break is bounded
Fairness == /\ \A s \in Sides : WF_vars(Handle(s))
            /\ WF_vars(Resend) /\ WF_vars(Reconnect)

FairSpec == Spec /\ Fairness
-----------------------------------------------------------------------------
(***************************************************************************)
(* Properties.                                                               *)
(***************************************************************************)

ToServer == INSTANCE ReliableChannel
              WITH sent <- sent["client"], got <- got["server"], spoiled <- spoiled["client"]

ToClient == INSTANCE ReliableChannel
              WITH sent <- sent["server"], got <- got["client"], spoiled <- spoiled["server"]

\* Each direction is a reliable channel: across lost connections, acknowledgements
\* whose ids go backwards, and flushes that are answered late, the handlers see
\* first deliveries in the order of the sends, as long as no message was put on
\* the wire behind a lost one (send_buffered, start_handling_messages, resync).
ImplementsChannels == ToServer!Spec /\ ToClient!Spec

\* Once an end has handled the handshake of a connection, everything it sent and
\* has not been told is received is delivered or under way again, whether or not
\* the channel was spoiled: nothing waits for the next reconnection.
SettledMeansUnderWay == \A s \in Sides : settled[s] => Lost(s) = {}

\* A message leaves the sender's buffer only when it was delivered, unless the
\* channel was spoiled: then an acknowledgement of something later may cover it.
\* It is then gone for good only if a second connection was lost.
ReleasedOnlyWhenDelivered ==
  \A s \in Sides, n \in 1..MaxSend :
    n <= sent[s] /\ n \notin Range(got[Peer(s)]) /\ n \notin Numbers(buffer[s]) =>
      /\ spoiled[s]
      /\ n \in Numbers(wire[Peer(s)]) \/ breaks >= 2

\* What is sent is handled in the end: after the last lost connection the flush,
\* its answer and the two resends bring every message that was not spoiled.
EventuallyHandled ==
  \A s \in Sides, n \in 1..MaxSend :
    (sent[s] >= n) ~> (n \in Range(got[Peer(s)]) \/ spoiled[s])
=============================================================================
