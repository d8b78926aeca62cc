---------------------------- MODULE RemoteClient ----------------------------
(***************************************************************************)
(* The connection state machine of a remote project (RemoteClient in         *)
(* crates/remote/src/remote_client.rs): the first connection, the monitor    *)
(* and heartbeat tasks of an installed connection, reconnection with a       *)
(* bounded number of attempts, and shutdown.  A task lives as long as its    *)
(* owner: the client's state, the task that is building a connection, or     *)
(* the future shutdown_processes returned.                                   *)
(***************************************************************************)
EXTENDS Naturals

CONSTANTS MaxMissed,     \* MAX_MISSED_HEARTBEATS
          MaxAttempts,   \* MAX_RECONNECT_ATTEMPTS
          NoConn         \* an owner that holds no connection

ASSUME LimitsAssumption == MaxMissed \in Nat \ {0} /\ MaxAttempts \in Nat \ {0}

Owners == {"state", "builder", "shutdown"}

VARIABLES
  state,      \* RemoteClient.state; "none" when it was taken
  missed,     \* missed_heartbeats of State::HeartbeatMissed
  attempts,   \* attempts of the reconnection under way
  conn,       \* conn[o]: the connection and tasks owner o holds
  builder,    \* progress of new() or of the reconnect task
  tries,      \* attempts started since a connection was last installed
  forced,     \* force_heartbeat_timeout skipped the attempts
  told,       \* RemoteClientEvent::Disconnected was emitted
  overlap,    \* a reconnect task was started while one was running
  panicked    \* state.take().unwrap() met an absent state

vars == <<state, missed, attempts, conn, builder, tries, forced, told, overlap, panicked>>

States == {"connecting", "connected", "missed", "reconnecting", "exhausted",
           "not_running", "none"}

\* io: the proxy process; hb: the heartbeat task (unarmed: waiting for activity
\* with its keepalive timer spent); beats: its count of missed heartbeats
Conns == [io : {"up", "silent", "died", "gone"}, monitor : {"absent", "waiting", "done"},
          hb : {"absent", "armed", "unarmed", "pinging", "stopped"}, beats : 0..MaxMissed]

ASSUME NoConnAssumption == NoConn \notin Conns

TypeOK ==
  /\ state \in States /\ missed \in 0..MaxMissed /\ attempts \in 0..MaxAttempts
  /\ conn \in [Owners -> Conns \cup {NoConn}]
  /\ conn["state"] # NoConn <=> state \in {"connected", "missed"}
  /\ builder \in {"idle", "starting", "pinging", "answered", "killing", "connecting",
                  "resyncing", "connected", "failed"}
  /\ tries \in 0..MaxAttempts
  /\ forced \in BOOLEAN /\ told \in BOOLEAN /\ overlap \in BOOLEAN /\ panicked \in BOOLEAN

Fresh == [io |-> "up", monitor |-> "absent", hb |-> "absent", beats |-> 0]

\* new(): the proxy is started and RemoteStarted awaited
Init ==
  /\ state = "connecting" /\ missed = 0 /\ attempts = 0
  /\ conn = [o \in Owners |-> IF o = "builder" THEN Fresh ELSE NoConn]
  /\ builder = "starting" /\ tries = 0
  /\ forced = FALSE /\ told = FALSE /\ overlap = FALSE /\ panicked = FALSE

Live == ~panicked

Alive(o) == conn[o] # NoConn

(***************************************************************************)
(* State changes shared by the handlers.  held is what the owner o of the    *)
(* task that runs the handler holds afterwards, unless it is dropped.        *)
(***************************************************************************)
\* set_state of a state in which nothing more is tried
Disconnect(new) ==
  /\ state' = new /\ told' = TRUE
  /\ conn' = [conn EXCEPT !["state"] = NoConn]

\* Mutant: one attempt more than the limit.
ReconnectMutant(done) ==
  IF done > MaxAttempts
  THEN /\ Disconnect("exhausted")
       /\ attempts' = 0 /\ builder' = "idle"
       /\ UNCHANGED <<tries, overlap>>
  ELSE /\ state' = "reconnecting" /\ attempts' = done + 1
       /\ conn' = [conn EXCEPT !["state"] = NoConn]
       /\ builder' = "killing" /\ tries' = tries + 1
       /\ overlap' = (overlap \/ builder \notin {"idle", "failed"})
       /\ UNCHANGED told

\* Mutant: the last attempt is not made.
ReconnectEarlyMutant(done) ==
  IF done + 1 >= MaxAttempts
  THEN /\ Disconnect("exhausted")
       /\ attempts' = 0 /\ builder' = "idle"
       /\ UNCHANGED <<tries, overlap>>
  ELSE /\ state' = "reconnecting" /\ attempts' = done + 1
       /\ conn' = [conn EXCEPT !["state"] = NoConn]
       /\ builder' = "killing" /\ tries' = tries + 1
       /\ overlap' = (overlap \/ builder \notin {"idle", "failed"})
       /\ UNCHANGED told

\* reconnect() from Connected or HeartbeatMissed (done = 0), or from
\* ReconnectFailed after done attempts; the tasks of the old connection are dropped
Reconnect(done) ==
  IF done + 1 > MaxAttempts
  THEN /\ Disconnect("exhausted")
       /\ attempts' = 0 /\ builder' = "idle"
       /\ UNCHANGED <<tries, overlap>>
  ELSE /\ state' = "reconnecting" /\ attempts' = done + 1
       /\ conn' = [conn EXCEPT !["state"] = NoConn]
       /\ builder' = "killing" /\ tries' = tries + 1
       /\ overlap' = (overlap \/ builder \notin {"idle", "failed"})
       /\ UNCHANGED told

\* Mutant: a reconnection under way can be started again.
CanReconnectMutant == state \in {"connected", "missed", "reconnecting"}

CanReconnect == state \in {"connected", "missed"}

\* reconnect(cx).ok() from a task: nothing happens unless the state allows it
TryReconnect(o, held) ==
  \/ /\ CanReconnect
     /\ Reconnect(0) /\ missed' = 0 /\ UNCHANGED <<forced, panicked>>
  \/ /\ ~CanReconnect
     /\ conn' = [conn EXCEPT ![o] = held]
     /\ UNCHANGED <<state, missed, attempts, builder, tries, forced, told, overlap, panicked>>

(***************************************************************************)
(* new(): nothing is retried, a failure or a cancellation drops everything.  *)
(***************************************************************************)
RemoteStarted ==
  /\ Live /\ builder = "starting" /\ conn["builder"].io = "up"
  /\ builder' = "pinging"
  /\ conn' = [conn EXCEPT !["builder"].monitor = "waiting"]
  /\ UNCHANGED <<state, missed, attempts, tries, forced, told, overlap, panicked>>

PingAnswered ==
  /\ Live /\ builder = "pinging" /\ conn["builder"].io = "up"
  /\ builder' = "answered"
  /\ UNCHANGED <<state, missed, attempts, conn, tries, forced, told, overlap, panicked>>

\* the state is overwritten, whatever the monitor did meanwhile
InstallFirst ==
  /\ Live /\ builder = "answered"
  /\ state' = "connected" /\ builder' = "idle"
  /\ conn' = [conn EXCEPT !["state"] = [conn["builder"] EXCEPT !.hb = "armed"],
                          !["builder"] = NoConn]
  /\ UNCHANGED <<missed, attempts, tries, forced, told, overlap, panicked>>

NewFails ==
  /\ Live /\ builder \in {"starting", "pinging"}
  /\ state' = "none" /\ builder' = "idle"
  /\ conn' = [conn EXCEPT !["builder"] = NoConn]
  /\ UNCHANGED <<missed, attempts, tries, forced, told, overlap, panicked>>

(***************************************************************************)
(* The proxy process (external): it may stop delivering for a while, die     *)
(* (force_disconnect kills it), or exit with the code that says the server   *)
(* is not running.                                                           *)
(***************************************************************************)
IoChange(o) ==
  /\ Live /\ Alive(o) /\ conn[o].io \in {"up", "silent"}
  /\ \E io \in {"up", "silent", "died", "gone"} \ {conn[o].io} :
       conn' = [conn EXCEPT ![o].io = io]
  /\ UNCHANGED <<state, missed, attempts, builder, tries, forced, told, overlap, panicked>>

Ended(o) == Alive(o) /\ conn[o].io \in {"died", "gone"}

\* monitor(): ServerNotRunning is set in any state; otherwise reconnect
Monitor(o) ==
  /\ Live /\ Ended(o) /\ conn[o].monitor = "waiting"
  /\ LET held == [conn[o] EXCEPT !.monitor = "done"] IN
       \/ conn[o].io = "died" /\ TryReconnect(o, held)
       \/ /\ conn[o].io = "gone"
          /\ state' = "not_running" /\ told' = TRUE
          /\ conn' = [conn EXCEPT ![o] = held, !["state"] = NoConn]
          /\ UNCHANGED <<missed, attempts, builder, tries, forced, overlap, panicked>>

(***************************************************************************)
(* heartbeat(): a timer, reset after each round, sends a ping; any incoming  *)
(* bytes are activity.  A closed activity channel ends the loop, and counts  *)
(* as an answer when a ping is out.                                          *)
(***************************************************************************)
Beating(o, hb) == Live /\ o # "builder" /\ Alive(o) /\ conn[o].hb \in hb

\* handle_heartbeat_result
HandleHeartbeat(o, held) ==
  \/ /\ state = "none" /\ panicked' = TRUE
     /\ UNCHANGED <<state, missed, attempts, conn, builder, tries, forced, told, overlap>>
  \/ /\ state # "none" /\ held.beats >= MaxMissed
     /\ TryReconnect(o, [held EXCEPT !.hb = "stopped"])
  \/ /\ state # "none" /\ held.beats < MaxMissed
     /\ conn' = [conn EXCEPT ![o] = held]
     /\ state' = CASE state = "missed" /\ held.beats = 0   -> "connected"
                   [] state = "connected" /\ held.beats > 0 -> "missed"
                   [] OTHER -> state
     /\ missed' = CASE state' # "missed" -> 0
                    [] state' = "missed" /\ held.beats > 0 -> missed + 1
                    [] OTHER -> missed
     /\ UNCHANGED <<attempts, builder, tries, forced, told, overlap, panicked>>

OnlyConn(o, held) ==
  /\ conn' = [conn EXCEPT ![o] = held]
  /\ UNCHANGED <<state, missed, attempts, builder, tries, forced, told, overlap, panicked>>

KeepaliveTimer(o) ==
  /\ Beating(o, {"armed"}) /\ ~Ended(o)
  /\ OnlyConn(o, [conn[o] EXCEPT !.hb = "pinging"])

Activity(o) ==
  /\ Beating(o, {"armed", "unarmed"}) /\ conn[o].io = "up"
  /\ LET held == [conn[o] EXCEPT !.hb = "armed", !.beats = 0] IN
       IF conn[o].beats # 0 THEN HandleHeartbeat(o, held) ELSE OnlyConn(o, held)

\* an answer when nothing was missed continues the loop past the timer's reset
HeartbeatAnswered(o) ==
  /\ Beating(o, {"pinging"}) /\ conn[o].io # "silent"
  /\ IF conn[o].beats # 0
     THEN HandleHeartbeat(o, [conn[o] EXCEPT !.hb = "armed", !.beats = 0])
     ELSE OnlyConn(o, [conn[o] EXCEPT !.hb = "unarmed"])

\* Mutant: an unanswered ping is not counted.
HeartbeatMissedMutant(o) ==
  /\ Beating(o, {"pinging"}) /\ ~Ended(o)
  /\ OnlyConn(o, [conn[o] EXCEPT !.hb = "armed"])

HeartbeatMissed(o) ==
  /\ Beating(o, {"pinging"}) /\ ~Ended(o)
  /\ HandleHeartbeat(o, [conn[o] EXCEPT !.hb = "armed", !.beats = @ + 1])

HeartbeatStops(o) ==
  /\ Beating(o, {"armed", "unarmed"}) /\ Ended(o)
  /\ OnlyConn(o, [conn[o] EXCEPT !.hb = "stopped"])

(***************************************************************************)
(* The reconnect task: kill the old connection, connect, resync, and hand    *)
(* the resulting state to the task that installs it.                         *)
(***************************************************************************)
BuilderStep(from, to, held) ==
  /\ Live /\ builder = from /\ builder' = to
  /\ conn' = [conn EXCEPT !["builder"] = held]
  /\ UNCHANGED <<state, missed, attempts, tries, forced, told, overlap, panicked>>

KillEnds == \E to \in {"connecting", "failed"} : BuilderStep("killing", to, NoConn)

ConnectEnds == \/ BuilderStep("connecting", "resyncing", [Fresh EXCEPT !.monitor = "waiting"])
               \/ BuilderStep("connecting", "failed", NoConn)

ResyncAnswered == /\ builder = "resyncing" /\ conn["builder"].io = "up"
                  /\ BuilderStep("resyncing", "connected", [conn["builder"] EXCEPT !.hb = "armed"])

ResyncFails == BuilderStep("resyncing", "failed", NoConn)

\* Mutant: the result is used in any state.
InstallReconnectedMutant ==
  /\ Live /\ builder = "connected" /\ builder' = "idle" /\ attempts' = 0
  /\ state' = "connected" /\ tries' = 0
  /\ conn' = [conn EXCEPT !["builder"] = NoConn, !["state"] = conn["builder"]]
  /\ UNCHANGED <<missed, forced, told, overlap, panicked>>

\* the result is used only while the state still is Reconnecting
InstallReconnected ==
  /\ Live /\ builder = "connected" /\ builder' = "idle" /\ attempts' = 0
  /\ LET use == state = "reconnecting" IN
       /\ state' = IF use THEN "connected" ELSE state
       /\ tries' = IF use THEN 0 ELSE tries
       /\ conn' = [conn EXCEPT !["builder"] = NoConn,
                               !["state"] = IF use THEN conn["builder"] ELSE @]
  /\ UNCHANGED <<missed, forced, told, overlap, panicked>>

\* Mutant: a failed attempt is not followed by another one.
InstallFailedMutant ==
  /\ Live /\ builder = "failed" /\ builder' = "idle" /\ attempts' = 0
  /\ UNCHANGED <<state, conn, tries, told, overlap, missed, forced, panicked>>

InstallFailed ==
  /\ Live /\ builder = "failed"
  /\ \/ state = "reconnecting" /\ Reconnect(attempts)
     \/ /\ state # "reconnecting" /\ builder' = "idle" /\ attempts' = 0
        /\ UNCHANGED <<state, conn, tries, told, overlap>>
  /\ UNCHANGED <<missed, forced, panicked>>

(***************************************************************************)
(* Calls of the application, which holds the client once new() returned.     *)
(***************************************************************************)
Returned == Live /\ builder \notin {"starting", "pinging", "answered"}

\* the tasks of a connected client live 50 ms longer, in the returned future
ShutdownProcesses ==
  /\ Returned /\ state # "none"
  /\ state' = "none" /\ missed' = 0
  /\ conn' = [conn EXCEPT !["state"] = NoConn,
                          !["shutdown"] = IF state = "connected" THEN conn["state"] ELSE @]
  /\ UNCHANGED <<attempts, builder, tries, forced, told, overlap, panicked>>

ShutdownEnds ==
  /\ Live /\ Alive("shutdown") /\ OnlyConn("shutdown", NoConn)

\* Mutant: the tasks of the connection whose state was taken go on.
ForceHeartbeatTimeoutMutant ==
  /\ Returned /\ state' = "none" /\ missed' = 0
  /\ UNCHANGED <<attempts, conn, builder, tries, forced, told, overlap, panicked>>

\* the state is taken before it is looked at
ForceHeartbeatTimeout ==
  /\ Returned
  /\ \/ /\ state = "connected" /\ \E done \in {0, MaxAttempts} :
             Reconnect(done) /\ forced' = (forced \/ done = MaxAttempts)
     \/ /\ state # "connected" /\ state' = "none"
        /\ conn' = [conn EXCEPT !["state"] = NoConn]
        /\ UNCHANGED <<attempts, builder, tries, forced, told, overlap>>
  /\ missed' = 0 /\ UNCHANGED panicked

Heartbeat(o) == KeepaliveTimer(o) \/ HeartbeatAnswered(o) \/ HeartbeatMissed(o) \/ HeartbeatStops(o)

Build == \/ RemoteStarted \/ PingAnswered \/ InstallFirst \/ NewFails
         \/ KillEnds \/ ConnectEnds \/ ResyncAnswered \/ ResyncFails
         \/ InstallReconnected \/ InstallFailed

Next == \/ \E o \in Owners : IoChange(o) \/ Monitor(o) \/ Heartbeat(o) \/ Activity(o)
        \/ Build \/ ShutdownProcesses \/ ShutdownEnds \/ ForceHeartbeatTimeout

Spec == Init /\ [][Next]_vars

\* the tasks run, the heartbeat's timers fire, and killing, connecting and
\* resyncing end one way or the other; activity and calls need never come
Fairness == /\ \A o \in Owners : WF_vars(Monitor(o)) /\ WF_vars(Heartbeat(o))
            /\ WF_vars(Build) /\ WF_vars(ShutdownEnds)

FairSpec == Spec /\ Fairness
-----------------------------------------------------------------------------
(***************************************************************************)
(* Properties.                                                               *)
(***************************************************************************)

\* A reconnect task is never started while another one runs: the monitors of two
\* connections, the heartbeat and the installer of a failed attempt all call
\* reconnect(), and can_reconnect() has to keep them apart.
OneReconnectTask == ~overlap

\* handle_heartbeat_result's unwrap of the state can only fail in the 50 ms after
\* shutdown_processes took it, although the state is also taken by
\* force_heartbeat_timeout and by reconnect().
PanicOnlyWhileShuttingDown == panicked => Alive("shutdown")

\* The client gives up only when MAX_RECONNECT_ATTEMPTS attempts were started
\* since the last installed connection, however failures, dying connections and
\* missed heartbeats mix, or when it was told to by force_heartbeat_timeout.
GivesUpAfterAllAttempts == state = "exhausted" => tries = MaxAttempts \/ forced

\* A client that reported Disconnected stays so: the result of a reconnect task
\* that was still running is dropped.  Left out is the moment in which new() has
\* its first answer (builder = "answered"): it installs its connection whatever
\* the monitor has reported meanwhile.
DisconnectedIsFinal ==
  [][(state \in {"exhausted", "not_running"} /\ builder # "answered")
       => state' \in {state, "none"}]_vars

\* Reconnecting ends: with a connection, with a Disconnected event, or because
\* the state was taken away by shutdown_processes or force_heartbeat_timeout.
ReconnectingEnds ==
  (state = "reconnecting") ~> (state = "connected" \/ told \/ state = "none" \/ panicked)

\* A connection that stays silent while its heartbeat timer keeps being reset is
\* given up after MAX_MISSED_HEARTBEATS.
SilenceNoticedWhileArmed ==
  []<>(~Alive("state") \/ conn["state"].io # "silent" \/ conn["state"].hb = "unarmed")
=============================================================================
