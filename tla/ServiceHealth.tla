---------------------------- MODULE ServiceHealth ----------------------------
(***************************************************************************)
(* Who notices that a part of the system stopped working: the heartbeats   *)
(* of the services, the watchdog that turns what it observes into rows of  *)
(* service_health_events and events of system.events, the alert worker     *)
(* that turns incidents and recoveries into alerts, and what the API       *)
(* reports.  Redis carries the heartbeats and the events, PostgreSQL the   *)
(* rows and the alerts; both may go away and come back.                    *)
(*                                                                         *)
(* A service of run_service dies when Redis does: the heartbeat that       *)
(* follows a failed tick raises, outside any handler.  The watchdog and    *)
(* the alert worker are such services too.  Docker restarts what died.     *)
(***************************************************************************)
EXTENDS Naturals, Sequences, FiniteSets

CONSTANTS
  WorkerOrder,        \* the workers among ESSENTIAL_SERVICES, in its order
  Contexts,           \* execution contexts, each of which gets an alert
  MaxRetries,         \* deliveries after which a failing event is dead-lettered
  MaxStarted,         \* bound on the services that are ever started
  Scenarios           \* bound: sets of what may go wrong, once each, in one behaviour

Api == "backend-api"
Stores == {"postgres", "redis"}
Essential == <<Api, "postgres", "redis">> \o WorkerOrder
Workers == {WorkerOrder[i] : i \in DOMAIN WorkerOrder}
Beating == {Api} \cup Workers
Services == Beating \cup Stores

(* A store goes away; a service crashes, is stopped, fails a tick although
   the stores are there, or ticks longer than the TTL; the watchdog or the
   alert worker crashes. *)
Mishaps == Stores \cup {"crash", "stop", "failed tick", "late tick", "watchdog", "alert worker"}

ASSUME HealthAssumption ==
  /\ WorkerOrder \in Seq(STRING) /\ Workers \cap ({Api} \cup Stores) = {}
  /\ \A i, j \in DOMAIN WorkerOrder : WorkerOrder[i] = WorkerOrder[j] => i = j
  /\ MaxRetries \in Nat \ {0} /\ MaxStarted \in Nat /\ Scenarios \subseteq SUBSET Mishaps

Published == {"HEALTHY", "DEGRADED", "STOPPED"}
Incidents == {"DEGRADED", "DISCONNECTED"}
States == Published \cup {"STARTING", "DISCONNECTED"}

VARIABLES
  up,                 \* the stores that can be reached
  process,            \* each service: "stopped", "running" or "dead" until Docker restarts it
  beat,               \* the heartbeat key of each service, "none" once it expired
  started,            \* the services an operator started once
  log,                \* service_health_events, in order of insertion
  watch,              \* the watchdog: where it is in its tick
  cursor,             \* its place in ESSENTIAL_SERVICES
  known,              \* the states it read at the start of the tick
  finding,            \* the state it just observed
  published,          \* the incidents and recoveries announced on system.events
  settled,            \* the events acknowledged by the alert worker
  dead,               \* the events it dead-lettered
  deliveries,         \* how often each event was delivered, up to MaxRetries
  dispatch,           \* the alert worker: where it is in its handler
  event,              \* the event it handles
  todo,               \* contexts it has not looked at yet
  alerts,             \* how many alerts each event has in each context
  mishaps             \* what may still go wrong

world == <<up, process, beat, started>>
watchdog == <<log, watch, cursor, known, finding, published>>
worker == <<settled, dead, deliveries, dispatch, event, todo, alerts>>
healthVars == <<world, watchdog, worker, mishaps>>

Entries == DOMAIN log

HealthInit ==
  /\ up = [d \in Stores |-> TRUE]
  /\ process = [s \in Beating |-> "stopped"]
  /\ beat = [s \in Beating |-> "none"] /\ started = {}
  /\ log = <<>> /\ watch = "idle" /\ cursor = 1
  /\ known = [s \in Services |-> "none"] /\ finding = "STARTING"
  /\ published = {} /\ settled = {} /\ dead = {} /\ deliveries = <<>>
  /\ dispatch = "idle" /\ event = 0 /\ todo = {} /\ alerts = <<>>
  /\ mishaps \in Scenarios

Happens(mishap) ==
  /\ mishap \in mishaps
  /\ mishaps' = mishaps \ {mishap}

-----------------------------------------------------------------------------
(* The stores and the services. *)

Outage(d) ==
  /\ up[d] /\ Happens(d)
  /\ up' = [up EXCEPT ![d] = FALSE]
  /\ UNCHANGED <<process, beat, started, watchdog, worker>>

Return(d) ==
  /\ ~up[d]
  /\ up' = [up EXCEPT ![d] = TRUE]
  /\ UNCHANGED <<process, beat, started, watchdog, worker, mishaps>>

Become(s, state) == process' = [process EXCEPT ![s] = state]

Start(s) ==
  /\ process[s] = "stopped"
  /\ started' = started \cup {s} /\ Cardinality(started') <= MaxStarted
  /\ Become(s, "running")
  /\ UNCHANGED <<up, beat, watchdog, worker, mishaps>>

Restart(s) ==
  /\ process[s] = "dead"
  /\ Become(s, "running")
  /\ UNCHANGED <<up, beat, started, watchdog, worker, mishaps>>

ServiceCrash(s) ==
  /\ process[s] = "running" /\ Happens("crash")
  /\ Become(s, "dead")
  /\ UNCHANGED <<up, beat, started, watchdog, worker>>

PublishHeartbeat(s, state) ==
  /\ beat' = [beat EXCEPT ![s] = state]

(* run_once: a tick, then the heartbeat that tells how it went.  Without
   PostgreSQL a tick fails if it has something to do. *)
Tick(s, state) ==
  /\ s \in Workers /\ process[s] = "running" /\ up["redis"]
  /\ IF state = "DEGRADED" /\ up["postgres"] THEN Happens("failed tick") ELSE UNCHANGED mishaps
  /\ PublishHeartbeat(s, state)
  /\ UNCHANGED <<up, process, started, watchdog, worker>>

(* The heartbeat itself raises, in the handler of the failed tick. *)
TickDies(s) ==
  /\ s \in Workers /\ process[s] = "running" /\ ~up["redis"]
  /\ Become(s, "dead")
  /\ UNCHANGED <<up, beat, started, watchdog, worker, mishaps>>

(* The API publishes what it can reach; nothing it fails to do kills it. *)
BackendHeartbeat ==
  /\ process[Api] = "running" /\ up["redis"]
  /\ PublishHeartbeat(Api, IF up["postgres"] THEN "HEALTHY" ELSE "DEGRADED")
  /\ UNCHANGED <<up, process, started, watchdog, worker, mishaps>>

(* SIGTERM between two ticks.  A worker that cannot reach Redis dies of the
   last heartbeat, the API swallows the error: both leave without it. *)
Stop(s) ==
  /\ process[s] = "running" /\ Happens("stop")
  /\ Become(s, "stopped")
  /\ IF up["redis"] THEN PublishHeartbeat(s, "STOPPED") ELSE UNCHANGED beat
  /\ UNCHANGED <<up, started, watchdog, worker>>

Silent(s) == process[s] # "running" \/ ~up["redis"]

(* The key outlives its publisher by the TTL; a tick longer than the TTL
   loses it as well. *)
Expire(s) ==
  /\ beat[s] # "none"
  /\ IF Silent(s) THEN UNCHANGED mishaps ELSE Happens("late tick")
  /\ beat' = [beat EXCEPT ![s] = "none"]
  /\ UNCHANGED <<up, process, started, watchdog, worker>>

-----------------------------------------------------------------------------
(* The watchdog. *)

RowsOf(s) == {i \in Entries : log[i].service = s}

(* A variant: the oldest row is taken for the state. *)
Oldest(s) ==
  IF RowsOf(s) = {} THEN "none"
  ELSE log[CHOOSE i \in RowsOf(s) : \A j \in RowsOf(s) : i <= j].state

Latest(s) ==
  IF RowsOf(s) = {} THEN "none"
  ELSE log[CHOOSE i \in RowsOf(s) : \A j \in RowsOf(s) : j <= i].state

(* The heartbeat of the watchdog itself ends every tick, also one that failed. *)
AfterHeartbeat == IF up["redis"] THEN "idle" ELSE "dead"

\* tick() reads the latest states first; without PostgreSQL it ends here.
StartWatch ==
  /\ watch = "idle"
  /\ IF up["postgres"]
     THEN /\ known' = [s \in Services |-> Latest(s)]
          /\ watch' = "scan"
     ELSE /\ watch' = AfterHeartbeat
          /\ UNCHANGED known
  /\ UNCHANGED <<world, log, cursor, finding, published, worker, mishaps>>

Service == Essential[cursor]

PreviouslySeen == known[Service] \notin {"none", "STARTING"}

(* A variant: without a heartbeat the last state is kept. *)
ObservedLast ==
  IF Service \in Stores
  THEN IF up[Service] THEN "HEALTHY" ELSE "DISCONNECTED"
  ELSE IF beat[Service] # "none" THEN beat[Service]
       ELSE IF known[Service] = "none" THEN "STARTING" ELSE known[Service]

Observed ==
  IF Service \in Stores
  THEN IF up[Service] THEN "HEALTHY" ELSE "DISCONNECTED"
  ELSE IF beat[Service] # "none" THEN beat[Service]
       ELSE IF PreviouslySeen THEN "DISCONNECTED" ELSE "STARTING"

Scanning == watch = "scan" /\ cursor <= Len(Essential)

\* The local variables of a tick that is over.
Forget(label) ==
  /\ watch' = label
  /\ cursor' = 1 /\ known' = [s \in Services |-> "none"] /\ finding' = "STARTING"

Advance == cursor' = cursor + 1 /\ watch' = "scan"

Observe ==
  /\ Scanning
  /\ Service \in Stores \/ up["redis"]
  /\ finding' = Observed
  /\ IF Observed = known[Service] THEN Advance
     ELSE watch' = "insert" /\ UNCHANGED cursor
  /\ UNCHANGED <<world, log, known, published, worker, mishaps>>

(* The heartbeats are read outside any handler: without Redis the tick
   fails, and with the heartbeat of the watchdog its process. *)
TickAborted ==
  /\ Scanning
  /\ Service \notin Stores /\ ~up["redis"]
  /\ Forget("dead")
  /\ UNCHANGED <<world, log, published, worker, mishaps>>

(* The row is committed before the event is published; an error in either
   is logged and the next service is looked at. *)
InsertRow ==
  /\ watch = "insert" /\ up["postgres"]
  /\ log' = Append(log, [service |-> Service, previous |-> known[Service], state |-> finding])
  /\ deliveries' = Append(deliveries, 0)
  /\ alerts' = Append(alerts, [c \in Contexts |-> 0])
  /\ watch' = "publish"
  /\ UNCHANGED <<world, cursor, known, finding, published, settled, dead, dispatch, event, todo, mishaps>>

IsIncident(i) == log[i].state \in Incidents
IsRecovery(i) == log[i].previous \in Incidents /\ log[i].state = "HEALTHY"
Notable(i) == IsIncident(i) \/ IsRecovery(i)

(* The alert worker returns at once from the event of any other transition. *)
PublishTransition ==
  /\ watch = "publish" /\ up["redis"]
  /\ published' = IF Notable(Len(log)) THEN published \cup {Len(log)} ELSE published
  /\ Advance
  /\ UNCHANGED <<world, log, known, finding, worker, mishaps>>

RecordFails ==
  /\ \/ watch = "insert" /\ ~up["postgres"]
     \/ watch = "publish" /\ ~up["redis"]
  /\ Advance
  /\ UNCHANGED <<world, log, known, finding, published, worker, mishaps>>

EndWatch ==
  /\ watch = "scan" /\ cursor > Len(Essential)
  /\ Forget(AfterHeartbeat)
  /\ UNCHANGED <<world, log, published, worker, mishaps>>

WatchdogCrash ==
  /\ watch # "dead" /\ Happens("watchdog")
  /\ Forget("dead")
  /\ UNCHANGED <<world, log, published, worker>>

WatchdogRestart ==
  /\ watch = "dead"
  /\ watch' = "idle"
  /\ UNCHANGED <<world, log, cursor, known, finding, published, worker, mishaps>>

WatchdogStep ==
  \/ StartWatch \/ Observe \/ TickAborted \/ InsertRow \/ PublishTransition
  \/ RecordFails \/ EndWatch \/ WatchdogRestart

-----------------------------------------------------------------------------
(* The alert worker reads system.events through a consumer group: an event
   it did not acknowledge is delivered again. *)

Least(a, b) == IF a < b THEN a ELSE b

Delivered == {i \in published : deliveries[i] > 0}

\* A variant: nothing is reclaimed from the PEL.
OnlyUnread(i) ==
  /\ i \in published \ (settled \cup dead)
  /\ i \notin Delivered /\ \A j \in published \ Delivered : i <= j

\* The oldest event never read, or one that was read and is still pending.
Deliverable(i) ==
  /\ i \in published \ (settled \cup dead)
  /\ i \in Delivered \/ \A j \in published \ Delivered : i <= j

TakeEvent(i) ==
  /\ dispatch = "idle" /\ up["redis"] /\ Deliverable(i)
  /\ event' = i /\ todo' = Contexts
  /\ deliveries' = [deliveries EXCEPT ![i] = Least(MaxRetries, @ + 1)]
  /\ dispatch' = "work"
  /\ UNCHANGED <<world, watchdog, settled, dead, alerts, mishaps>>

\* The local variables of a handler that is over.
Leave(label) == dispatch' = label /\ event' = 0 /\ todo' = {}

\* A variant: the deduplication key is never found.
NeverAlerted(c) == FALSE

AlreadyAlerted(c) == alerts[event][c] > 0

(* The alert is committed, then announced on alert.events; without Redis the
   announcement raises, and so do fail() and the heartbeat. *)
Alert(c) ==
  /\ dispatch = "work" /\ up["postgres"] /\ c \in todo
  /\ IF AlreadyAlerted(c)
     THEN todo' = todo \ {c} /\ UNCHANGED <<alerts, dispatch, event>>
     ELSE /\ alerts' = [alerts EXCEPT ![event][c] = @ + 1]
          /\ IF up["redis"] THEN todo' = todo \ {c} /\ UNCHANGED <<dispatch, event>>
             ELSE Leave("dead")
  /\ UNCHANGED <<world, watchdog, settled, dead, deliveries, mishaps>>

AckEvent ==
  /\ dispatch = "work" /\ todo = {} /\ up["redis"]
  /\ settled' = settled \cup {event}
  /\ Leave("idle")
  /\ UNCHANGED <<world, watchdog, dead, deliveries, alerts, mishaps>>

(* An exception in the handler: fail() copies the event to the dead letters
   once it was delivered often enough, else leaves it in the PEL. *)
FailEvent ==
  /\ dispatch = "work" /\ todo # {} /\ ~up["postgres"] /\ up["redis"]
  /\ dead' = IF deliveries[event] >= MaxRetries THEN dead \cup {event} ELSE dead
  /\ Leave("idle")
  /\ UNCHANGED <<world, watchdog, settled, deliveries, alerts, mishaps>>

(* Without Redis neither XREADGROUP, nor XACK, nor fail(), nor the heartbeat
   works: the process dies, the event stays in the PEL. *)
DispatchDies ==
  /\ ~up["redis"]
  /\ dispatch = "idle" \/ (dispatch = "work" /\ (todo = {} \/ ~up["postgres"]))
  /\ Leave("dead")
  /\ UNCHANGED <<world, watchdog, settled, dead, deliveries, alerts, mishaps>>

DispatchCrash ==
  /\ dispatch # "dead" /\ Happens("alert worker")
  /\ Leave("dead")
  /\ UNCHANGED <<world, watchdog, settled, dead, deliveries, alerts>>

DispatchRestart ==
  /\ dispatch = "dead"
  /\ dispatch' = "idle"
  /\ UNCHANGED <<world, watchdog, settled, dead, deliveries, event, todo, alerts, mishaps>>

AlertStep ==
  \/ \E i \in Entries : TakeEvent(i)
  \/ \E c \in Contexts : Alert(c)
  \/ AckEvent \/ FailEvent \/ DispatchDies \/ DispatchRestart

-----------------------------------------------------------------------------
HealthNext ==
  \/ \E d \in Stores : Outage(d) \/ Return(d)
  \/ \E s \in Beating :
       \/ Start(s) \/ Restart(s) \/ ServiceCrash(s) \/ Stop(s) \/ Expire(s) \/ TickDies(s)
       \/ \E state \in {"HEALTHY", "DEGRADED"} : Tick(s, state)
  \/ BackendHeartbeat
  \/ WatchdogStep \/ WatchdogCrash
  \/ AlertStep \/ DispatchCrash

HealthSpec == HealthInit /\ [][HealthNext]_healthVars

(* Endless loops of ticks, Docker's restart policy and the TTL of the keys.
   Nothing obliges a store to come back or an operator to start a service. *)
Fairness ==
  /\ \A s \in Beating :
       /\ WF_healthVars(Tick(s, "HEALTHY")) /\ WF_healthVars(TickDies(s)) /\ WF_healthVars(Restart(s))
       /\ WF_healthVars(Expire(s) /\ Silent(s))
  /\ WF_healthVars(BackendHeartbeat)
  /\ WF_healthVars(WatchdogStep) /\ WF_healthVars(AlertStep)

FairHealthSpec == HealthSpec /\ Fairness

-----------------------------------------------------------------------------
(* What GET /api/system/health answers for a service: the stores are asked
   directly, the others read from the rows, STARTING if there is none. *)
Report(s) ==
  IF s \in Stores THEN IF up[s] THEN "HEALTHY" ELSE "DISCONNECTED"
  ELSE IF ~up["postgres"] \/ Latest(s) = "none" THEN "STARTING" ELSE Latest(s)

(* The rows of a service tell one story: each one starts where the last one
   ended and changes the state, whatever crashed between two ticks
   (watchdog/main.py:185-203, the deduplication against the rows). *)
RowsChain ==
  \A i \in Entries :
    LET s == log[i].service
        before == {j \in RowsOf(s) : j < i}
    IN  /\ log[i].state # log[i].previous
        /\ IF before = {} THEN log[i].previous = "none"
           ELSE log[i].previous = log[CHOOSE j \in before : \A k \in before : k <= j].state

(* An acknowledged incident or recovery has exactly one alert in each
   context, and no event has two: failures half way through the contexts and
   redeliveries notwithstanding (alert_worker/main.py:136-183). *)
OneAlertPerContext ==
  \A i \in Entries, c \in Contexts :
    /\ alerts[i][c] <= 1
    /\ i \in settled /\ Notable(i) => alerts[i][c] = 1

StoresStay == <>[](\A d \in Stores : up[d])

(* Once the stores stay, what runs is reported HEALTHY again and what stays
   stopped is not reported alive, whatever the watchdog missed while a store
   or itself was down (watchdog/main.py:90-113, 185-203). *)
ReportsConverge ==
  StoresStay =>
    \A s \in Beating :
      /\ <>[](process[s] = "running") => <>[](Report(s) = "HEALTHY")
      /\ <>[](process[s] = "stopped") => <>[](Report(s) \notin {"HEALTHY", "DEGRADED"})

(* Once the stores stay, the alert worker settles every published event. *)
EventsAreSettled == StoresStay => <>[](published = settled \cup dead)
=============================================================================
