------------------------- MODULE RemoteClientProofs -------------------------
(***************************************************************************)
(* Invariants of RemoteClient for every MAX_MISSED_HEARTBEATS and            *)
(* MAX_RECONNECT_ATTEMPTS.                                                   *)
(***************************************************************************)
EXTENDS RemoteClient, TLAPS

\* new() has not returned yet; the reconnect task is running
Making == builder \in {"starting", "pinging", "answered"}
Building == builder \in {"killing", "connecting", "resyncing", "connected", "failed"}

\* Which state goes with which progress of the builder, and what the counters
\* are in it
StateMatches ==
  /\ Making => /\ state \in {"connecting", "not_running"}
               /\ tries = 0 /\ attempts = 0 /\ missed = 0
  /\ state = "connecting" => Making
  /\ state \in {"connected", "missed"} => builder = "idle" /\ tries = 0
  /\ state = "reconnecting" => Building /\ attempts = tries
  /\ state \in {"connected", "reconnecting"} => missed = 0
  /\ state = "exhausted" => builder = "idle"

\* Which owners hold a connection, and what its heartbeat task has counted
ConnsMatch ==
  /\ Alive("builder") <=> Making \/ builder \in {"resyncing", "connected"}
  /\ Alive("builder") => conn["builder"].beats = 0
  /\ \A o \in Owners : Alive(o) /\ conn[o].hb # "stopped" => conn[o].beats < MaxMissed
  /\ state = "connected" => conn["state"].beats = 0
  /\ state = "missed" => missed = conn["state"].beats
  /\ Alive("shutdown") => state \in {"none", "not_running"} /\ ~Making

\* TypeOK in two parts, and the part of the invariant without the flags
Flags == {forced, told, overlap, panicked} \subseteq BOOLEAN
Typed ==
  /\ state \in States /\ missed \in 0..MaxMissed /\ attempts \in 0..MaxAttempts
  /\ conn \in [Owners -> Conns \cup {NoConn}]
  /\ Alive("state") <=> state \in {"connected", "missed"}
  /\ Making \/ Building \/ builder = "idle"
  /\ tries \in 0..MaxAttempts
Core == Typed /\ StateMatches /\ ConnsMatch

\* The inductive invariant
IInv == Core /\ Flags /\ OneReconnectTask /\ PanicOnlyWhileShuttingDown /\ GivesUpAfterAllAttempts

\* The type invariant, with the Boolean flags apart
LEMMA TypeParts == TypeOK <=> Typed /\ Flags
BY DEF TypeOK, Typed, Flags, Making, Building, Alive

\* The missed beats a connection counts
LEMMA BeatsType == \A c \in Conns : c.beats \in 0..MaxMissed
BY DEF Conns

\* Updates of a connection: the state of its io task
LEMMA SetIo ==
  ASSUME NEW c \in Conns, NEW x \in {"up", "silent", "died", "gone"}, NEW d,
         d = [c EXCEPT !.io = x]
  PROVE  d \in Conns /\ d.hb = c.hb /\ d.beats = c.beats
BY DEF Conns

\* Its monitor
LEMMA SetMonitor ==
  ASSUME NEW c \in Conns, NEW x \in {"absent", "waiting", "done"}, NEW d,
         d = [c EXCEPT !.monitor = x]
  PROVE  d \in Conns /\ d.hb = c.hb /\ d.beats = c.beats
BY DEF Conns

HbStages == {"absent", "armed", "unarmed", "pinging", "stopped"}

\* Its heartbeat
LEMMA SetHb ==
  ASSUME NEW c \in Conns, NEW x \in HbStages, NEW d, d = [c EXCEPT !.hb = x]
  PROVE  d \in Conns /\ d.hb = x /\ d.beats = c.beats
BY DEF Conns, HbStages

\* The proxy that new() or the reconnect task starts is well formed
LEMMA FreshConn == Fresh \in Conns /\ Fresh.beats = 0 /\ Fresh.hb = "absent"
BY LimitsAssumption DEF Fresh, Conns

\* A new client satisfies the invariant
LEMMA InitInv == Init => IInv
<1> SUFFICES ASSUME Init PROVE IInv
  OBVIOUS
<1>1. /\ conn \in [Owners -> Conns \cup {NoConn}]
      /\ conn["builder"] = Fresh /\ conn["state"] = NoConn /\ conn["shutdown"] = NoConn
  BY FreshConn DEF Init, Owners
<1>2. Typed /\ StateMatches
  BY <1>1, LimitsAssumption DEF Init, Typed, StateMatches, States, Alive, Making, Building
<1>3. ConnsMatch
  BY <1>1, FreshConn, LimitsAssumption, NoConnAssumption DEF Init, ConnsMatch, Making, Alive, Owners
<1>4. OneReconnectTask /\ PanicOnlyWhileShuttingDown /\ Flags
  BY DEF Init, OneReconnectTask, PanicOnlyWhileShuttingDown, Flags
<1>5. GivesUpAfterAllAttempts
  BY DEF Init, GivesUpAfterAllAttempts
<1> QED
  BY <1>2, <1>3, <1>4, <1>5 DEF IInv, Core

\* reconnect() from a state with an installed connection, or after a failed attempt
LEMMA ReconnectCore ==
  ASSUME Core, NEW done \in 0..MaxAttempts, Reconnect(done), missed' = 0,
         \/ state \in {"connected", "missed"} /\ done \in {0, MaxAttempts}
         \/ state = "reconnecting" /\ builder = "failed" /\ done = attempts
  PROVE  Core'
<1>1. /\ conn' \in [Owners -> Conns \cup {NoConn}]
      /\ conn'["state"] = NoConn /\ conn'["builder"] = conn["builder"]
      /\ conn'["shutdown"] = conn["shutdown"]
  BY DEF Reconnect, Disconnect, Core, Typed, Owners
<1>2. conn["builder"] = NoConn /\ conn["shutdown"] = NoConn
  BY DEF Core, Typed, StateMatches, ConnsMatch, Making, Building, Alive
<1>3. ConnsMatch'
  BY <1>1, <1>2 DEF Reconnect, Disconnect, ConnsMatch, Making, Alive, Owners
<1>4. Typed' /\ StateMatches'
  BY <1>1, <1>2, LimitsAssumption
  DEF Reconnect, Disconnect, Core, Typed, StateMatches, States, Making, Building, Alive
<1> QED
  BY <1>3, <1>4 DEF Core

\* A task changes only the connection its owner holds
LEMMA OwnerCore ==
  ASSUME Core, NEW o \in Owners, Alive(o), NEW held \in Conns,
         conn' = [conn EXCEPT ![o] = held],
         held.hb # "stopped" => held.beats < MaxMissed,
         held.beats = conn[o].beats \/ o = "shutdown",
         UNCHANGED <<state, missed, attempts, builder, tries>>
  PROVE  Core'
<1>1. /\ conn' \in [Owners -> Conns \cup {NoConn}]
      /\ conn'[o] = held /\ \A p \in Owners \ {o} : conn'[p] = conn[p]
  BY DEF Core, Typed
<1>2. \A p \in Owners : Alive(p)' <=> Alive(p)
  BY <1>1, NoConnAssumption DEF Alive
<1>3. Typed'
  BY <1>1, <1>2 DEF Core, Typed, Owners, Making, Building
<1>4. StateMatches'
  BY DEF Core, StateMatches, Making, Building
<1>5. ConnsMatch'
  BY <1>1, <1>2 DEF Core, Typed, ConnsMatch, Owners, Making
<1> QED
  BY <1>3, <1>4, <1>5 DEF Core

\* reconnect(cx).ok() from a task of owner o
LEMMA TryReconnectCore ==
  ASSUME Core, NEW o \in Owners, Alive(o), NEW held \in Conns, TryReconnect(o, held),
         held.hb # "stopped" => held.beats < MaxMissed,
         o = "shutdown" \/ held.beats = conn[o].beats \/ CanReconnect
  PROVE  Core'
<1>1. CASE CanReconnect
  BY <1>1, ReconnectCore, LimitsAssumption DEF TryReconnect, CanReconnect
<1>2. CASE ~CanReconnect
  BY <1>2, OwnerCore DEF TryReconnect
<1> QED
  BY <1>1, <1>2

\* What a living connection is, and where it can be
LEMMA Holding ==
  ASSUME Core, NEW o \in Owners, Alive(o)
  PROVE  /\ conn[o] \in Conns
         /\ conn[o].hb # "stopped" => conn[o].beats < MaxMissed
         /\ o = "builder" => conn[o].beats = 0
         /\ o = "state" => CanReconnect
         /\ o = "shutdown" => state \in {"none", "not_running"}
BY DEF Core, Typed, ConnsMatch, Alive, CanReconnect

\* The monitor task sees its connection end
LEMMA MonitorCore ==
  ASSUME Core, NEW o \in Owners, Monitor(o)
  PROVE  Core'
<1> DEFINE held == [conn[o] EXCEPT !.monitor = "done"]
<1>1. Alive(o) /\ conn[o] \in Conns
  BY Holding DEF Monitor, Ended
<1>2. held \in Conns /\ held.hb = conn[o].hb /\ held.beats = conn[o].beats
  BY <1>1, SetMonitor
<1>3. held.hb # "stopped" => held.beats < MaxMissed
  BY <1>1, <1>2, Holding
<1>4. CASE conn[o].io = "died"
  <2>1. TryReconnect(o, held)
    BY <1>4 DEF Monitor
  <2> HIDE DEF held
  <2> QED
    BY <1>1, <1>2, <1>3, <2>1, TryReconnectCore
<1>5. CASE conn[o].io # "died"
  <2>1. /\ state' = "not_running"
        /\ conn' = [conn EXCEPT ![o] = held, !["state"] = NoConn]
        /\ UNCHANGED <<missed, attempts, builder, tries>>
    BY <1>5 DEF Monitor
  <2> HIDE DEF held
  <2>2. /\ conn' \in [Owners -> Conns \cup {NoConn}]
        /\ conn'["state"] = NoConn
        /\ o # "state" => conn'[o] = held
        /\ \A p \in Owners \ {o, "state"} : conn'[p] = conn[p]
    BY <1>2, <2>1 DEF Core, Typed, Owners
  <2>3. \A p \in Owners \ {"state"} : Alive(p)' <=> Alive(p)
    BY <1>1, <1>2, <2>2, NoConnAssumption DEF Alive
  <2>4. Typed' /\ StateMatches'
    BY <2>1, <2>2 DEF Core, Typed, StateMatches, States, Making, Building, Alive
  <2>5. ConnsMatch'
    BY <1>2, <1>3, <2>1, <2>2, <2>3 DEF Core, ConnsMatch, Making, Alive, Owners
  <2> QED
    BY <2>4, <2>5 DEF Core
<1> QED
  BY <1>4, <1>5

\* Steps that leave the variables of Core alone
LEMMA UnchangedCore ==
  ASSUME Core, UNCHANGED <<state, missed, attempts, conn, builder, tries>>
  PROVE  Core'
BY DEF Core, Typed, StateMatches, ConnsMatch, Making, Building, Alive

\* handle_heartbeat_result, called with one more missed heartbeat or with none
LEMMA HandleHeartbeatCore ==
  ASSUME Core, NEW o \in {"state", "shutdown"}, Alive(o), NEW held \in Conns,
         HandleHeartbeat(o, held), held.hb = "armed",
         held.beats = 0 \/ held.beats = conn[o].beats + 1
  PROVE  Core'
<1>1. CASE state = "none"
  BY <1>1, UnchangedCore DEF HandleHeartbeat
<1>2. CASE state # "none" /\ held.beats >= MaxMissed
  <2> DEFINE d == [held EXCEPT !.hb = "stopped"]
  <2>1. d \in Conns /\ d.hb = "stopped" /\ d.beats = held.beats
    BY SetHb DEF HbStages
  <2>2. TryReconnect(o, d)
    BY <1>2, BeatsType, LimitsAssumption DEF HandleHeartbeat
  <2> HIDE DEF d
  <2> QED
    BY <2>1, <2>2, TryReconnectCore, Holding DEF Owners
<1>3. CASE state # "none" /\ held.beats < MaxMissed
  <2>1. /\ conn' = [conn EXCEPT ![o] = held]
        /\ state' = CASE state = "missed" /\ held.beats = 0   -> "connected"
                      [] state = "connected" /\ held.beats > 0 -> "missed"
                      [] OTHER -> state
        /\ missed' = CASE state' # "missed" -> 0
                       [] state' = "missed" /\ held.beats > 0 -> missed + 1
                       [] OTHER -> missed
        /\ UNCHANGED <<attempts, builder, tries>>
    BY <1>3, BeatsType, LimitsAssumption DEF HandleHeartbeat
  <2>2. /\ conn' \in [Owners -> Conns \cup {NoConn}]
        /\ conn'[o] = held /\ \A p \in Owners \ {o} : conn'[p] = conn[p]
    BY <2>1 DEF Core, Typed, Owners
  <2>3. \A p \in Owners : Alive(p)' <=> Alive(p)
    BY <2>2, NoConnAssumption DEF Alive, Owners
  <2>4. held.beats \in 0..MaxMissed /\ conn[o].beats \in 0..MaxMissed
    BY BeatsType, Holding DEF Owners
  <2>5. CASE o = "state"
    <3>1. \/ state = "connected" /\ missed = 0 /\ conn[o].beats = 0
          \/ state = "missed" /\ missed = conn[o].beats
      BY <2>5, Holding DEF Core, ConnsMatch, StateMatches, CanReconnect, Owners
    <3>2. \/ state' = "connected" /\ missed' = 0 /\ held.beats = 0
          \/ state' = "missed" /\ missed' = held.beats
      BY <2>1, <2>4, <3>1
    <3>3. Typed' /\ StateMatches'
      BY <1>3, <2>1, <2>2, <2>3, <2>4, <2>5, <3>1, <3>2, LimitsAssumption
      DEF Core, Typed, StateMatches, States, Making, Building, Alive, Owners
    <3>4. ConnsMatch'
      BY <1>3, <2>1, <2>2, <2>3, <2>5, <3>1, <3>2 DEF Core, StateMatches, ConnsMatch, Making, Owners
    <3> QED
      BY <3>3, <3>4 DEF Core
  <2>6. CASE o = "shutdown"
    <3>0. state = "not_running"
      BY <1>3, <2>6, Holding DEF Owners
    <3>1. state = "not_running" /\ state' = state /\ missed' = 0
      BY <2>1, <3>0
    <3>2. Typed' /\ StateMatches'
      BY <2>1, <2>2, <2>3, <2>6, <3>1, LimitsAssumption
      DEF Core, Typed, StateMatches, States, Making, Building, Owners
    <3>3. ConnsMatch'
      BY <1>3, <2>1, <2>2, <2>3, <2>6, <3>1 DEF Core, StateMatches, ConnsMatch, Making, Owners
    <3> QED
      BY <3>2, <3>3 DEF Core
  <2> QED
    BY <2>5, <2>6
<1> QED
  BY <1>1, <1>2, <1>3, BeatsType, LimitsAssumption

\* The heartbeat task ticks, pings, times out or sees activity
LEMMA HeartbeatCore ==
  ASSUME Core, NEW o \in Owners, Heartbeat(o) \/ Activity(o)
  PROVE  Core'
<1>0. 0 \in 0..MaxMissed
  BY LimitsAssumption
<1>1. /\ Alive(o) /\ o \in {"state", "shutdown"} /\ conn[o] \in Conns
      /\ conn[o].hb # "stopped" /\ conn[o].beats < MaxMissed
  BY Holding DEF Heartbeat, Activity, KeepaliveTimer, HeartbeatAnswered, HeartbeatMissed,
                 HeartbeatStops, Beating, Owners
<1>2. ASSUME NEW x \in {"pinging", "armed", "unarmed", "stopped"},
             OnlyConn(o, [conn[o] EXCEPT !.hb = x])
      PROVE  Core'
  <2> DEFINE d == [conn[o] EXCEPT !.hb = x]
  <2>1. d \in Conns /\ d.beats = conn[o].beats /\ conn' = [conn EXCEPT ![o] = d]
    BY <1>1, <1>2, SetHb DEF OnlyConn, HbStages
  <2> HIDE DEF d
  <2> QED
    BY <1>1, <1>2, <2>1, OwnerCore DEF OnlyConn
<1>3. ASSUME NEW n \in 0..MaxMissed, n = 0 \/ n = conn[o].beats + 1,
             HandleHeartbeat(o, [conn[o] EXCEPT !.hb = "armed", !.beats = n])
      PROVE  Core'
  <2> DEFINE d == [conn[o] EXCEPT !.hb = "armed", !.beats = n]
  <2>1. HandleHeartbeat(o, d) /\ d = [conn[o] EXCEPT !.hb = "armed", !.beats = n]
    BY <1>3
  <2> HIDE DEF d
  <2>2. d \in Conns /\ d.hb = "armed" /\ d.beats = n
    BY <1>1, <2>1 DEF Conns
  <2> QED
    BY <1>1, <1>3, <2>1, <2>2, HandleHeartbeatCore
<1>4. CASE KeepaliveTimer(o)
  BY <1>2, <1>4 DEF KeepaliveTimer
<1>5. CASE Activity(o)
  <2>1. CASE conn[o].beats # 0
    <3>1. HandleHeartbeat(o, [conn[o] EXCEPT !.hb = "armed", !.beats = 0])
      BY <1>5, <2>1 DEF Activity
    <3> QED
      BY <1>3, <1>0, <3>1
  <2>2. CASE conn[o].beats = 0
    <3> DEFINE d == [conn[o] EXCEPT !.hb = "armed", !.beats = 0]
    <3>1. OnlyConn(o, d) /\ d = [conn[o] EXCEPT !.hb = "armed", !.beats = 0]
      BY <1>5, <2>2 DEF Activity
    <3> HIDE DEF d
    <3>2. d \in Conns /\ d.hb = "armed" /\ d.beats = 0
      BY <1>0, <1>1, <3>1 DEF Conns
    <3> QED
      BY <1>1, <2>2, <3>1, <3>2, OwnerCore DEF OnlyConn
  <2> QED
    BY <2>1, <2>2
<1>6. CASE HeartbeatAnswered(o)
  <2>1. CASE conn[o].beats # 0
    <3>1. HandleHeartbeat(o, [conn[o] EXCEPT !.hb = "armed", !.beats = 0])
      BY <1>6, <2>1 DEF HeartbeatAnswered
    <3> QED
      BY <1>3, <1>0, <3>1
  <2>2. CASE conn[o].beats = 0
    BY <1>2, <1>6, <2>2 DEF HeartbeatAnswered
  <2> QED
    BY <2>1, <2>2
<1>7. CASE HeartbeatMissed(o)
  <2>1. conn[o].beats + 1 \in 0..MaxMissed
    BY <1>1, BeatsType, LimitsAssumption
  <2> QED
    BY <1>3, <1>7, <2>1 DEF HeartbeatMissed
<1>8. CASE HeartbeatStops(o)
  BY <1>2, <1>8 DEF HeartbeatStops
<1> QED
  BY <1>4, <1>5, <1>6, <1>7, <1>8 DEF Heartbeat

\* The connection goes silent, recovers or dies (external)
LEMMA IoChangeCore ==
  ASSUME Core, NEW o \in Owners, IoChange(o)
  PROVE  Core'
<1>1. Alive(o) /\ conn[o] \in Conns /\ (conn[o].hb # "stopped" => conn[o].beats < MaxMissed)
  BY Holding DEF IoChange
<1>2. PICK io \in {"up", "silent", "died", "gone"} : conn' = [conn EXCEPT ![o].io = io]
  BY DEF IoChange
<1> DEFINE d == [conn[o] EXCEPT !.io = io]
<1>3. conn' = [conn EXCEPT ![o] = d] /\ d = [conn[o] EXCEPT !.io = io]
  BY <1>2
<1> HIDE DEF d
<1>4. d \in Conns /\ d.hb = conn[o].hb /\ d.beats = conn[o].beats
  BY <1>1, <1>3, SetIo
<1> QED
  BY <1>1, <1>3, <1>4, OwnerCore DEF IoChange

\* The steps of new() and of the reconnect task that only move the builder
LEMMA BuilderCore ==
  ASSUME Core, NEW held \in Conns \cup {NoConn}, conn' = [conn EXCEPT !["builder"] = held],
         UNCHANGED <<state, missed, attempts, tries>>,
         \/ builder \in {"starting", "pinging"} /\ builder' \in {"pinging", "answered"}
         \/ /\ builder \in {"killing", "connecting", "resyncing"}
            /\ builder' \in {"connecting", "resyncing", "connected", "failed"},
         held # NoConn <=> builder' \in {"pinging", "answered", "resyncing", "connected"},
         held # NoConn => held.beats = 0
  PROVE  Core'
<1>1. /\ conn' \in [Owners -> Conns \cup {NoConn}]
      /\ conn'["builder"] = held /\ \A p \in Owners \ {"builder"} : conn'[p] = conn[p]
  BY DEF Core, Typed, Owners
<1>2. Typed'
  BY <1>1 DEF Core, Typed, Owners, Making, Building, Alive
<1>3. StateMatches'
  BY DEF Core, Typed, StateMatches, Making, Building
<1>4. ConnsMatch'
  BY <1>1, LimitsAssumption DEF Core, Typed, StateMatches, ConnsMatch, Owners, Making, Building, Alive
<1> QED
  BY <1>2, <1>3, <1>4 DEF Core

\* The first connection is made, or a reconnect task makes a new one
LEMMA BuildCore ==
  ASSUME Core, Build
  PROVE  Core'
<1>1. CASE RemoteStarted
  <2> DEFINE d == [conn["builder"] EXCEPT !.monitor = "waiting"]
  <2>1. conn["builder"] \in Conns /\ conn["builder"] # NoConn /\ conn["builder"].beats = 0
    BY <1>1, Holding DEF RemoteStarted, Core, ConnsMatch, Making, Alive, Owners
  <2>2. d \in Conns /\ d.beats = 0
    BY <2>1, SetMonitor
  <2>3. conn' = [conn EXCEPT !["builder"] = d]
    BY <1>1 DEF RemoteStarted
  <2> HIDE DEF d
  <2> QED
    BY <1>1, <2>2, <2>3, BuilderCore, NoConnAssumption DEF RemoteStarted
<1>2. CASE PingAnswered
  <2>1. conn["builder"] \in Conns /\ conn["builder"] # NoConn /\ conn["builder"].beats = 0
    BY <1>2, Holding DEF PingAnswered, Core, ConnsMatch, Making, Alive, Owners
  <2>2. conn' = [conn EXCEPT !["builder"] = conn["builder"]]
    BY <1>2 DEF PingAnswered, Core, Typed, Owners
  <2> QED
    BY <1>2, <2>1, <2>2, BuilderCore, NoConnAssumption DEF PingAnswered
<1>3. CASE KillEnds
  BY <1>3, BuilderCore DEF KillEnds, BuilderStep
<1>4. CASE ConnectEnds
  <2> DEFINE d == [Fresh EXCEPT !.monitor = "waiting"]
  <2>1. d \in Conns /\ d.beats = 0
    BY FreshConn, SetMonitor
  <2>2. BuilderStep("connecting", "resyncing", d) \/ BuilderStep("connecting", "failed", NoConn)
    BY <1>4 DEF ConnectEnds
  <2> HIDE DEF d
  <2> QED
    BY <2>1, <2>2, BuilderCore, NoConnAssumption DEF BuilderStep
<1>5. CASE ResyncAnswered
  <2> DEFINE d == [conn["builder"] EXCEPT !.hb = "armed"]
  <2>1. conn["builder"] \in Conns /\ conn["builder"] # NoConn /\ conn["builder"].beats = 0
    BY <1>5, Holding DEF ResyncAnswered, BuilderStep, Core, ConnsMatch, Alive, Owners
  <2>2. d \in Conns /\ d.beats = 0
    BY <2>1, SetHb DEF HbStages
  <2>3. BuilderStep("resyncing", "connected", d)
    BY <1>5 DEF ResyncAnswered
  <2> HIDE DEF d
  <2> QED
    BY <2>2, <2>3, BuilderCore, NoConnAssumption DEF BuilderStep
<1>6. CASE ResyncFails
  BY <1>6, BuilderCore DEF ResyncFails, BuilderStep
<1>7. CASE InstallFirst
  <2> DEFINE d == [conn["builder"] EXCEPT !.hb = "armed"]
  <2>1. conn["builder"] \in Conns /\ conn["builder"].beats = 0 /\ conn["shutdown"] = NoConn
    BY <1>7, Holding DEF InstallFirst, Core, ConnsMatch, Making, Alive, Owners
  <2>2. d \in Conns /\ d.beats = 0
    BY <2>1, SetHb DEF HbStages
  <2>3. conn' = [conn EXCEPT !["state"] = d, !["builder"] = NoConn]
    BY <1>7 DEF InstallFirst
  <2> HIDE DEF d
  <2>4. /\ conn' \in [Owners -> Conns \cup {NoConn}]
        /\ conn'["builder"] = NoConn /\ conn'["state"] = d /\ conn'["shutdown"] = NoConn
    BY <2>1, <2>2, <2>3 DEF Core, Typed, Owners
  <2>5. Typed' /\ StateMatches'
    BY <1>7, <2>2, <2>4, NoConnAssumption, LimitsAssumption
    DEF InstallFirst, Core, Typed, StateMatches, States, Making, Building, Alive, Owners
  <2>6. ConnsMatch'
    BY <1>7, <2>2, <2>4, NoConnAssumption, LimitsAssumption
    DEF InstallFirst, Core, ConnsMatch, Making, Alive, Owners
  <2> QED
    BY <2>5, <2>6 DEF Core
<1>8. CASE NewFails
  <2>1. /\ conn["state"] = NoConn /\ conn["shutdown"] = NoConn
        /\ conn' \in [Owners -> Conns \cup {NoConn}]
        /\ \A p \in Owners : conn'[p] = NoConn
    BY <1>8 DEF NewFails, Core, Typed, StateMatches, ConnsMatch, Making, Alive, Owners
  <2>2. Typed' /\ StateMatches'
    BY <1>8, <2>1 DEF NewFails, Core, Typed, StateMatches, States, Making, Building, Alive, Owners
  <2>3. ConnsMatch'
    BY <1>8, <2>1 DEF NewFails, ConnsMatch, Making, Alive, Owners
  <2> QED
    BY <2>2, <2>3 DEF Core
<1>9. CASE InstallReconnected
  <2> DEFINE b == conn["builder"]
  <2>1. /\ b \in Conns /\ b.beats = 0 /\ b # NoConn
        /\ b.hb # "stopped" => b.beats < MaxMissed
    BY <1>9, Holding DEF InstallReconnected, Core, ConnsMatch, Alive, Owners
  <2>2. CASE state = "reconnecting"
    <3>1. conn' = [conn EXCEPT !["builder"] = NoConn, !["state"] = b]
      BY <1>9, <2>2 DEF InstallReconnected
    <3>2. /\ conn' \in [Owners -> Conns \cup {NoConn}]
          /\ conn'["builder"] = NoConn /\ conn'["state"] = b /\ conn'["shutdown"] = NoConn
      BY <2>1, <2>2, <3>1 DEF Core, Typed, ConnsMatch, Alive, Owners
    <3>3. Typed' /\ StateMatches'
      BY <1>9, <2>1, <2>2, <3>2, LimitsAssumption
      DEF InstallReconnected, Core, Typed, StateMatches, States, Making, Building, Alive, Owners
    <3>4. ConnsMatch'
      BY <1>9, <2>1, <2>2, <3>2 DEF InstallReconnected, ConnsMatch, Making, Alive, Owners
    <3> QED
      BY <3>3, <3>4 DEF Core
  <2>3. CASE state # "reconnecting"
    <3>1. /\ conn' \in [Owners -> Conns \cup {NoConn}] /\ conn'["builder"] = NoConn
          /\ \A p \in Owners \ {"builder"} : conn'[p] = conn[p]
          /\ state' = state /\ tries' = tries
      BY <1>9, <2>3 DEF InstallReconnected, Core, Typed, Owners
    <3>2. state \notin {"connected", "missed", "connecting"}
      BY <1>9 DEF InstallReconnected, Core, StateMatches, Making
    <3>3. Typed' /\ StateMatches'
      BY <1>9, <2>3, <3>1, <3>2, LimitsAssumption
      DEF InstallReconnected, Core, Typed, StateMatches, States, Making, Building, Alive, Owners
    <3>4. ConnsMatch'
      BY <1>9, <2>3, <3>1, <3>2 DEF InstallReconnected, Core, ConnsMatch, Making, Alive, Owners
    <3> QED
      BY <3>3, <3>4 DEF Core
  <2> QED
    BY <2>2, <2>3
<1>10. CASE InstallFailed
  <2>1. CASE state = "reconnecting"
    <3>1. missed' = 0 /\ attempts \in 0..MaxAttempts
      BY <1>10, <2>1 DEF InstallFailed, Core, Typed, StateMatches
    <3> QED
      BY <1>10, <2>1, <3>1, ReconnectCore DEF InstallFailed
  <2>2. CASE state # "reconnecting"
    <3>1. UNCHANGED <<state, conn, tries, missed>> /\ builder' = "idle" /\ attempts' = 0
      BY <1>10, <2>2 DEF InstallFailed
    <3> QED
      BY <1>10, <2>2, <3>1, LimitsAssumption
      DEF InstallFailed, Core, Typed, StateMatches, ConnsMatch, Making, Building, Alive
  <2> QED
    BY <2>1, <2>2
<1> QED
  BY <1>1, <1>2, <1>3, <1>4, <1>5, <1>6, <1>7, <1>8, <1>9, <1>10 DEF Build

\* shutdown_processes, the end of its future, and force_heartbeat_timeout
LEMMA CallsCore ==
  ASSUME Core, ShutdownProcesses \/ ShutdownEnds \/ ForceHeartbeatTimeout
  PROVE  Core'
<1>1. CASE ShutdownProcesses
  <2> DEFINE d == IF state = "connected" THEN conn["state"] ELSE conn["shutdown"]
  <2>1. /\ conn' \in [Owners -> Conns \cup {NoConn}]
        /\ conn'["state"] = NoConn /\ conn'["builder"] = conn["builder"] /\ conn'["shutdown"] = d
    BY <1>1 DEF ShutdownProcesses, Core, Typed, Owners
  <2>2. d # NoConn /\ d.hb # "stopped" => d.beats < MaxMissed
    BY DEF Core, ConnsMatch, Alive, Owners
  <2>3. Typed' /\ StateMatches'
    BY <1>1, <2>1, LimitsAssumption
    DEF ShutdownProcesses, Returned, Core, Typed, StateMatches, States, Making, Building, Alive, Owners
  <2> HIDE DEF d
  <2>4. ConnsMatch'
    BY <1>1, <2>1, <2>2 DEF ShutdownProcesses, Returned, Core, ConnsMatch, Making, Alive, Owners
  <2> QED
    BY <2>3, <2>4 DEF Core
<1>2. CASE ShutdownEnds
  <2>1. /\ conn' \in [Owners -> Conns \cup {NoConn}] /\ conn'["shutdown"] = NoConn
        /\ \A p \in Owners \ {"shutdown"} : conn'[p] = conn[p]
        /\ UNCHANGED <<state, missed, attempts, builder, tries>>
    BY <1>2 DEF ShutdownEnds, OnlyConn, Core, Typed, Owners
  <2> QED
    BY <2>1 DEF Core, Typed, StateMatches, ConnsMatch, Making, Building, Alive, Owners
<1>3. CASE ForceHeartbeatTimeout
  <2>1. CASE state = "connected"
    <3>1. PICK done \in {0, MaxAttempts} : Reconnect(done)
      BY <1>3, <2>1 DEF ForceHeartbeatTimeout
    <3>2. done \in 0..MaxAttempts /\ missed' = 0
      BY <1>3, LimitsAssumption DEF ForceHeartbeatTimeout
    <3> QED
      BY <2>1, <3>1, <3>2, ReconnectCore
  <2>2. CASE state # "connected"
    <3>1. /\ conn' \in [Owners -> Conns \cup {NoConn}] /\ conn'["state"] = NoConn
          /\ \A p \in Owners \ {"state"} : conn'[p] = conn[p]
          /\ state' = "none" /\ missed' = 0 /\ UNCHANGED <<attempts, builder, tries>>
      BY <1>3, <2>2 DEF ForceHeartbeatTimeout, Core, Typed, Owners
    <3>2. Typed' /\ StateMatches'
      BY <1>3, <3>1, LimitsAssumption
      DEF ForceHeartbeatTimeout, Returned, Core, Typed, StateMatches, States, Making, Building, Alive, Owners
    <3>3. ConnsMatch'
      BY <1>3, <3>1 DEF ForceHeartbeatTimeout, Returned, Core, ConnsMatch, Making, Alive, Owners
    <3> QED
      BY <3>2, <3>3 DEF Core
  <2> QED
    BY <2>1, <2>2
<1> QED
  BY <1>1, <1>2, <1>3

\* Every step keeps state and tasks in agreement
LEMMA StepCore ==
  ASSUME Core, Next
  PROVE  Core'
BY IoChangeCore, MonitorCore, HeartbeatCore, BuildCore, CallsCore DEF Next

-----------------------------------------------------------------------------
\* How a step may change the flags: a reconnect task is started only when the
\* last one is over, Exhausted is entered only by reconnect(), and the unwrap
\* of the state fails only in a task of the shutdown
Reconnects == \E done \in 0..MaxAttempts :
  /\ Reconnect(done) /\ builder \in {"idle", "failed"} /\ panicked' = panicked
  /\ \/ done = 0 /\ forced' = forced
     \/ done = MaxAttempts /\ forced' = TRUE
     \/ done = tries /\ state = "reconnecting" /\ forced' = forced

KeepsFlags ==
  /\ UNCHANGED <<tries, forced, overlap, panicked>> /\ told' \in {told, TRUE}
  /\ state' = "exhausted" => state = "exhausted"

Panics == Alive("shutdown") /\ UNCHANGED <<state, conn, tries, forced, told, overlap>> /\ panicked' = TRUE

Installs == state' = "connected" /\ UNCHANGED <<forced, told, overlap, panicked>>

\* What a step may do to the flags: nothing, panic, install, or reconnect
LEMMA StepFlags ==
  ASSUME Core, Flags, Next
  PROVE  /\ Live
         /\ Reconnects \/ KeepsFlags \/ Panics \/ Installs
<1>1. ASSUME NEW o \in Owners, NEW held, TryReconnect(o, held)
      PROVE  Reconnects \/ KeepsFlags
  <2>1. CASE CanReconnect
    <3>1. Reconnect(0) /\ UNCHANGED <<forced, panicked>>
      BY <1>1, <2>1 DEF TryReconnect
    <3>2. builder = "idle" /\ 0 \in 0..MaxAttempts
      BY <2>1, LimitsAssumption DEF CanReconnect, Core, StateMatches
    <3> QED
      BY <3>1, <3>2 DEF Reconnects
  <2>2. CASE ~CanReconnect
    BY <1>1, <2>2 DEF TryReconnect, KeepsFlags
  <2> QED
    BY <2>1, <2>2
<1>2. ASSUME NEW o \in Owners, NEW held, Alive(o), o # "builder", HandleHeartbeat(o, held)
      PROVE  Reconnects \/ KeepsFlags \/ Panics
  <2>1. CASE state = "none"
    <3>1. Alive("shutdown")
      BY <1>2, <2>1, Holding DEF CanReconnect, Owners
    <3> QED
      BY <1>2, <2>1, <3>1 DEF HandleHeartbeat, Panics
  <2>2. CASE state # "none"
    <3>1. TryReconnect(o, [held EXCEPT !.hb = "stopped"]) \/ KeepsFlags
      BY <1>2, <2>2 DEF HandleHeartbeat, KeepsFlags
    <3> QED
      BY <1>1, <3>1
  <2> QED
    BY <2>1, <2>2
<1>3. ASSUME NEW o \in Owners, NEW held, OnlyConn(o, held)
      PROVE  KeepsFlags
  BY <1>3 DEF OnlyConn, KeepsFlags
<1>4. ASSUME NEW o \in Owners, IoChange(o)
      PROVE  KeepsFlags
  BY <1>4 DEF IoChange, KeepsFlags
<1>5. ASSUME NEW o \in Owners, Monitor(o)
      PROVE  Reconnects \/ KeepsFlags
  BY <1>1, <1>5 DEF Monitor, KeepsFlags
<1>6. ASSUME NEW o \in Owners, Heartbeat(o) \/ Activity(o)
      PROVE  Reconnects \/ KeepsFlags \/ Panics
  BY <1>2, <1>3, <1>6
  DEF Heartbeat, Activity, KeepaliveTimer, HeartbeatAnswered, HeartbeatMissed, HeartbeatStops, Beating
<1>7. ASSUME Build
      PROVE  Reconnects \/ KeepsFlags \/ Installs
  <2>1. CASE InstallFailed /\ state = "reconnecting"
    <3>1. attempts = tries /\ attempts \in 0..MaxAttempts
      BY <2>1 DEF Core, Typed, StateMatches
    <3> QED
      BY <2>1, <3>1 DEF InstallFailed, Reconnects
  <2>2. CASE ~(InstallFailed /\ state = "reconnecting")
    BY <1>7, <2>2 DEF Build, RemoteStarted, PingAnswered, InstallFirst, NewFails, KillEnds, ConnectEnds,
      ResyncAnswered, ResyncFails, InstallReconnected, InstallFailed, BuilderStep, KeepsFlags, Installs
  <2> QED
    BY <2>1, <2>2
<1>8. ASSUME ForceHeartbeatTimeout
      PROVE  Reconnects \/ KeepsFlags
  <2>1. CASE state = "connected"
    <3>1. PICK done \in {0, MaxAttempts} : Reconnect(done) /\ forced' = (forced \/ done = MaxAttempts)
      BY <1>8, <2>1 DEF ForceHeartbeatTimeout
    <3>2. builder = "idle" /\ done \in 0..MaxAttempts /\ 0 # MaxAttempts
      BY <2>1, LimitsAssumption DEF Core, StateMatches
    <3>3. panicked' = panicked
      BY <1>8 DEF ForceHeartbeatTimeout
    <3>4. CASE done = 0
      <4>1. forced' = forced
        BY <3>1, <3>2, <3>4 DEF Flags
      <4> QED
        BY <3>1, <3>2, <3>3, <3>4, <4>1 DEF Reconnects
    <3>5. CASE done = MaxAttempts
      <4>1. forced' = TRUE
        BY <3>1, <3>5
      <4> QED
        BY <3>1, <3>2, <3>3, <3>5, <4>1 DEF Reconnects
    <3> QED
      BY <3>4, <3>5
  <2>2. CASE state # "connected"
    BY <1>8, <2>2 DEF ForceHeartbeatTimeout, KeepsFlags
  <2> QED
    BY <2>1, <2>2
<1>9. ASSUME ShutdownProcesses \/ ShutdownEnds
      PROVE  KeepsFlags
  BY <1>3, <1>9 DEF ShutdownProcesses, ShutdownEnds, KeepsFlags, Owners
<1>10. Live
  BY DEF Next, IoChange, Monitor, Heartbeat, Activity, KeepaliveTimer, HeartbeatAnswered,
    HeartbeatMissed, HeartbeatStops, Beating, Build, RemoteStarted, PingAnswered, InstallFirst,
    NewFails, KillEnds, ConnectEnds, ResyncAnswered, ResyncFails, InstallReconnected, InstallFailed,
    BuilderStep, ShutdownProcesses, ShutdownEnds, ForceHeartbeatTimeout, Returned
<1> QED
  BY <1>4, <1>5, <1>6, <1>7, <1>8, <1>9, <1>10 DEF Next

\* Every step keeps the invariant
LEMMA StepInv ==
  ASSUME IInv, [Next]_vars
  PROVE  IInv'
<1>1. CASE UNCHANGED vars
  BY <1>1, UnchangedCore DEF vars, IInv, Flags, OneReconnectTask, PanicOnlyWhileShuttingDown,
                             GivesUpAfterAllAttempts, Alive
<1>2. CASE Next
  <2>1. Core' /\ Core /\ Flags
    BY <1>2, StepCore DEF IInv
  <2>2. ~panicked /\ ~overlap
    BY <1>2, <2>1, StepFlags DEF IInv, Live, OneReconnectTask
  <2>3. CASE Reconnects
    <3>1. PICK done \in 0..MaxAttempts :
            /\ Reconnect(done) /\ builder \in {"idle", "failed"} /\ panicked' = panicked
            /\ \/ done = 0 /\ forced' = forced
               \/ done = MaxAttempts /\ forced' = TRUE
               \/ done = tries /\ state = "reconnecting" /\ forced' = forced
      BY <2>3 DEF Reconnects
    <3>2. overlap' \in {overlap, FALSE} /\ told' \in {told, TRUE}
      BY <2>2, <3>1 DEF Reconnect, Disconnect
    <3>3. Flags' /\ OneReconnectTask' /\ PanicOnlyWhileShuttingDown'
      <4>1. forced' \in BOOLEAN
        BY <2>1, <3>1 DEF Flags
      <4>2. told' \in BOOLEAN /\ panicked' \in BOOLEAN
        BY <2>1, <3>1, <3>2 DEF Flags
      <4>3. overlap' = FALSE
        BY <2>1, <2>2, <3>2 DEF Flags
      <4>4. Flags'
        BY <4>1, <4>2, <4>3 DEF Flags
      <4> QED
        BY <2>2, <3>1, <4>3, <4>4 DEF OneReconnectTask, PanicOnlyWhileShuttingDown
    <3>4. state' = "exhausted" => done + 1 > MaxAttempts /\ tries' = tries
      BY <3>1 DEF Reconnect
    <3>5. GivesUpAfterAllAttempts'
      BY <2>1, <3>1, <3>4, LimitsAssumption DEF GivesUpAfterAllAttempts, Core, Typed
    <3> QED
      BY <2>1, <3>3, <3>5 DEF IInv
  <2>4. CASE KeepsFlags
    <3>1. Flags' /\ OneReconnectTask' /\ PanicOnlyWhileShuttingDown'
      BY <2>1, <2>2, <2>4 DEF KeepsFlags, Flags, OneReconnectTask, PanicOnlyWhileShuttingDown
    <3>2. GivesUpAfterAllAttempts'
      BY <2>4 DEF KeepsFlags, IInv, GivesUpAfterAllAttempts
    <3> QED
      BY <2>1, <3>1, <3>2 DEF IInv
  <2>5. CASE Panics
    <3>1. UNCHANGED <<state, tries, forced, told, overlap>> /\ Alive("shutdown")'
      BY <2>5 DEF Panics, Alive
    <3>2. GivesUpAfterAllAttempts' /\ OneReconnectTask' /\ PanicOnlyWhileShuttingDown'
      BY <3>1 DEF IInv, GivesUpAfterAllAttempts, OneReconnectTask, PanicOnlyWhileShuttingDown
    <3>3. Flags'
      BY <2>5, <3>1 DEF IInv, Flags, Panics
    <3> QED
      BY <2>1, <3>2, <3>3 DEF IInv
  <2>6. CASE Installs
    <3>1. Flags' /\ OneReconnectTask' /\ PanicOnlyWhileShuttingDown'
      BY <2>1, <2>2, <2>6 DEF Installs, Flags, OneReconnectTask, PanicOnlyWhileShuttingDown
    <3>2. GivesUpAfterAllAttempts'
      BY <2>6 DEF Installs, GivesUpAfterAllAttempts
    <3> QED
      BY <2>1, <3>1, <3>2 DEF IInv
  <2> QED
    BY <1>2, <2>1, <2>3, <2>4, <2>5, <2>6, StepFlags
<1> QED
  BY <1>1, <1>2

\* State, tasks and attempts always agree
LEMMA Invariance == Spec => []IInv
BY InitInv, StepInv, PTL DEF Spec

\* The types: the connection the state holds is there exactly while the client is
\* connected, and the counters of heartbeats and attempts stay within the limits
\* of handle_heartbeat_result and reconnect()
THEOREM TypeCorrect == Spec => []TypeOK
<1>1. IInv => TypeOK
  BY TypeParts DEF IInv, Core
<1> QED
  BY <1>1, Invariance, PTL

\* can_reconnect() keeps every caller of reconnect() apart
THEOREM ReconnectsApart == Spec => []OneReconnectTask
<1>1. IInv => OneReconnectTask
  BY DEF IInv
<1> QED
  BY <1>1, Invariance, PTL

\* The unwrap in handle_heartbeat_result fails only while shutdown_processes runs
THEOREM PanicConfined == Spec => []PanicOnlyWhileShuttingDown
<1>1. IInv => PanicOnlyWhileShuttingDown
  BY DEF IInv
<1> QED
  BY <1>1, Invariance, PTL

\* Every attempt of MAX_RECONNECT_ATTEMPTS is made before the client gives up
THEOREM AttemptsUsedUp == Spec => []GivesUpAfterAllAttempts
<1>1. IInv => GivesUpAfterAllAttempts
  BY DEF IInv
<1> QED
  BY <1>1, Invariance, PTL

\* No step leads back from a reported disconnection, except the end of new()
\* itself, which overwrites the state
THEOREM StaysDisconnected == Spec => DisconnectedIsFinal
<1>1. ASSUME IInv, [Next]_vars, state \in {"exhausted", "not_running"}, builder # "answered"
      PROVE  state' \in {state, "none"}
  <2>1. CASE UNCHANGED vars
    BY <2>1 DEF vars
  <2>2. ~CanReconnect /\ state \notin {"connected", "reconnecting", "missed", "none"}
    BY <1>1 DEF CanReconnect
  <2>3. state = "exhausted" => \A o \in Owners : ~Alive(o)
    BY <1>1 DEF IInv, Core, Typed, StateMatches, ConnsMatch, Making, Alive, Owners
  <2>4. ASSUME NEW o \in Owners, IoChange(o) \/ Monitor(o) \/ Heartbeat(o) \/ Activity(o)
        PROVE  state' \in {state, "none"}
    BY <1>1, <2>2, <2>3, <2>4 DEF IoChange, Monitor, Ended, Heartbeat, Activity, KeepaliveTimer,
      HeartbeatAnswered, HeartbeatMissed, HeartbeatStops, OnlyConn, HandleHeartbeat, TryReconnect
  <2>5. CASE Build
    BY <1>1, <2>2, <2>5 DEF Build, RemoteStarted, PingAnswered, InstallFirst, NewFails, KillEnds,
      ConnectEnds, ResyncAnswered, ResyncFails, InstallReconnected, InstallFailed, BuilderStep
  <2>6. CASE ShutdownProcesses \/ ShutdownEnds \/ ForceHeartbeatTimeout
    BY <2>2, <2>6 DEF ShutdownProcesses, ShutdownEnds, OnlyConn, ForceHeartbeatTimeout
  <2> QED
    BY <1>1, <2>1, <2>4, <2>5, <2>6 DEF Next
<1> QED
  BY <1>1, Invariance, PTL DEF Spec, DisconnectedIsFinal

=============================================================================
