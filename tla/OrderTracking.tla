----------------------------- MODULE OrderTracking -----------------------------
(***************************************************************************)
(* The two threads of the order worker that write orders.status: the tick   *)
(* thread of OrderWorker, and the TradeUpdatesListener started by            *)
(* _ensure_listener (order_worker/trade_updates_listener.py).  The listener *)
(* receives the trade_updates stream of Alpaca and applies each event to    *)
(* its row; after a reconnection, and only then, it first asks REST for the *)
(* status of every row believed non terminal, because what was sent while   *)
(* the connection was down is lost.                                         *)
(*                                                                         *)
(* One connected account, whose credentials do not change.                  *)
(***************************************************************************)
EXTENDS OrderWorker, Sequences

CONSTANTS
  MaxDrops,        \* bound: losses of the connection
  MaxWire          \* bound: events on their way at the same time

ASSUME TrackingAssumption ==
  /\ MaxDrops \in Nat
  /\ MaxWire \in Nat
  /\ StreamUp
  /\ MaxChanges = 0
  /\ Accounts = {"readable"}

VARIABLES
  link,            \* "up" when the WebSocket is authenticated and subscribed
  wire,            \* events sent on the connection and not yet received
  lpc,             \* where the listener thread is; "off" when there is none
  firstConnect,    \* first_connect of _supervisor
  seen,            \* the row and the status it is about to write
  listed,          \* rows of the reconciliation still to be asked for
  missed,          \* history: rows whose "fill" the listener will never apply
  drops

listenerVars == <<link, wire, lpc, firstConnect, seen, listed, missed, drops>>
trackingVars == <<vars, listenerVars>>

\* A status reported for an order, by the stream or by REST, and a row as the
\* reconciliation listed it.
News == [order : Commands, as : ObservedStatuses]
Listing == [order : Commands, was : Statuses]
NoNews == [order |-> None, as |-> None]

TrackingInit ==
  /\ Init
  /\ link = "down"
  /\ wire = <<>>
  /\ lpc = "off"
  /\ firstConnect = TRUE
  /\ seen = NoNews
  /\ listed = {}
  /\ missed = {}
  /\ drops = 0

ListenerGoto(step) == lpc' = step

\* Rows whose "fill" is among the events of a part of the wire.
FillsOf(events) == {events[i].order : i \in {j \in DOMAIN events : events[j].as = "fill"}}
FillSeen == IF seen.as = "fill" THEN {seen.order} ELSE {}

-------------------------------------------------------------------------------
(* Alpaca's side of the stream *)

\* The trade_updates event of a change of stage.
EventOf(old, new) ==
  CASE new = "open" -> IF old = "none" THEN "new" ELSE "order_cancel_rejected"
    [] new = "partial" -> IF old = "cancelling" THEN "order_cancel_rejected" ELSE "partial_fill"
    [] new = "cancelling" -> "pending_cancel"
    [] new = "filled" -> "fill"
    [] new \in {"canceled", "rejected"} -> new

\* A change of stage is sent on the connection of the moment, or lost.
Emission ==
  \/ /\ broker' = broker
     /\ UNCHANGED <<wire, missed>>
  \/ \E d \in Commands :
       /\ broker'[d] # broker[d]
       /\ IF link = "up"
            THEN /\ Len(wire) < MaxWire
                 /\ wire' = Append(wire, [order |-> d, as |-> EventOf(broker[d], broker'[d])])
                 /\ UNCHANGED missed
            ELSE /\ missed' = IF broker'[d] = "filled" THEN missed \cup {d} ELSE missed
                 /\ UNCHANGED wire

\* The connection breaks: recv() still returns what had arrived.
Drop ==
  /\ link = "up"
  /\ drops < MaxDrops
  /\ drops' = drops + 1
  /\ link' = "down"
  /\ \E n \in 0 .. Len(wire) :
        /\ wire' = SubSeq(wire, 1, n)
        /\ missed' = missed \cup FillsOf(SubSeq(wire, n + 1, Len(wire)))
  /\ UNCHANGED <<vars, lpc, firstConnect, seen, listed>>

-------------------------------------------------------------------------------
(* The tick thread, the environment and the process *)

WorkerMoves ==
  /\ \/ StartTick
     \/ SweepStep
     \/ TakeStep
     \/ EndTick
     \/ HandlerStep
     \/ EnvironmentStep
  /\ Emission
  /\ UNCHANGED <<link, lpc, firstConnect, seen, listed, drops>>

\* _ensure_listener: a listener is started once per process.
StartListener ==
  /\ EnsureListener
  /\ lpc' = IF lpc = "off" THEN "dial" ELSE lpc
  /\ UNCHANGED <<link, wire, firstConnect, seen, listed, missed, drops>>

\* Both threads die with the process; the next one starts a fresh listener.
ProcessDies ==
  /\ Crash
  /\ link' = "down"
  /\ wire' = <<>>
  /\ missed' = missed \cup FillsOf(wire) \cup FillSeen
  /\ lpc' = "off"
  /\ firstConnect' = TRUE
  /\ seen' = NoNews
  /\ listed' = {}
  /\ UNCHANGED drops

-------------------------------------------------------------------------------
(* The listener thread: _supervisor *)

\* Mutant: on_reconnected is never called.
ConnectOnly ==
  /\ lpc = "dial"
  /\ link' = "up"
  /\ ListenerGoto("receive")
  /\ firstConnect' = FALSE
  /\ UNCHANGED <<vars, wire, seen, listed, missed, drops>>

\* Authenticated and subscribed; on_reconnected runs unless this is the first time.
Connect ==
  /\ lpc = "dial"
  /\ link' = "up"
  /\ ListenerGoto(IF firstConnect THEN "receive" ELSE "scan")
  /\ firstConnect' = FALSE
  /\ UNCHANGED <<vars, wire, seen, listed, missed, drops>>

\* recv() raises once the events that had arrived are consumed.
NoticeDrop ==
  /\ lpc = "receive"
  /\ wire = <<>>
  /\ link = "down"
  /\ ListenerGoto("dial")
  /\ UNCHANGED <<vars, link, wire, firstConnect, seen, listed, missed, drops>>

\* _apply_trade_update_event: the row is looked up by client_order_id.
Receive ==
  /\ lpc = "receive"
  /\ wire # <<>>
  /\ wire' = Tail(wire)
  /\ IF status[Head(wire).order] = "absent"
       THEN UNCHANGED <<lpc, seen>>
       ELSE /\ seen' = Head(wire)
            /\ ListenerGoto("apply")
  /\ UNCHANGED <<vars, link, firstConnect, listed, missed, drops>>

\* Mutants: every update dates a fill; the name REST gives to a fill is tested.
WriteSeenDated ==
  /\ SetStatus(seen.order, seen.as)
  /\ filledAt' = filledAt \cup {seen.order}
  /\ seen' = NoNews
  /\ UNCHANGED <<shape, queueVars, pid, broker, worldVars, tickVars, bounds>>

WriteSeenFilled ==
  /\ SetStatus(seen.order, seen.as)
  /\ filledAt' = IF seen.as = "filled" THEN filledAt \cup {seen.order} ELSE filledAt
  /\ seen' = NoNews
  /\ UNCHANGED <<shape, queueVars, pid, broker, worldVars, tickVars, bounds>>

\* UPDATE orders, whatever the status of the row is by now.
WriteSeen ==
  /\ SetStatus(seen.order, seen.as)
  /\ filledAt' = IF seen.as = "fill" THEN filledAt \cup {seen.order} ELSE filledAt
  /\ seen' = NoNews
  /\ UNCHANGED <<shape, queueVars, pid, broker, worldVars, tickVars, bounds>>

Apply ==
  /\ lpc = "apply"
  /\ WriteSeen
  /\ ListenerGoto("receive")
  /\ UNCHANGED <<link, wire, firstConnect, listed, missed, drops>>

\* The event is dropped, the connection is kept.
ApplyRaises ==
  /\ lpc = "apply"
  /\ ListenerFails
  /\ missed' = missed \cup FillSeen
  /\ seen' = NoNews
  /\ ListenerGoto("receive")
  /\ UNCHANGED <<link, wire, firstConnect, listed, drops>>

\* _reconcile_after_reconnect: the rows, and their statuses of that instant.
ListRows ==
  /\ lpc = "scan"
  /\ listed' = {[order |-> d, was |-> status[d]] : d \in Sweepable}
  /\ ListenerGoto("ask")
  /\ UNCHANGED <<vars, link, wire, firstConnect, seen, missed, drops>>

\* GET /v2/orders/{id}; compared with the status that was listed.
Ask(row) ==
  /\ lpc = "ask"
  /\ row \in listed
  /\ listed' = listed \ {row}
  /\ LET answered == RestStatus[broker[row.order]] IN
       IF answered = row.was
         THEN UNCHANGED <<lpc, seen>>
         ELSE /\ seen' = [order |-> row.order, as |-> answered]
              /\ ListenerGoto("save")
  /\ UNCHANGED <<vars, link, wire, firstConnect, missed, drops>>

\* The row is skipped until the next reconnection.
AskFails(row) ==
  /\ lpc = "ask"
  /\ row \in listed
  /\ ListenerFails
  /\ listed' = listed \ {row}
  /\ UNCHANGED <<link, wire, lpc, firstConnect, seen, missed, drops>>

Save ==
  /\ lpc = "save"
  /\ WriteSeen
  /\ ListenerGoto("ask")
  /\ UNCHANGED <<link, wire, firstConnect, listed, missed, drops>>

\* An exception ends the reconciliation, not the connection.
ReconciliationRaises ==
  /\ lpc \in {"scan", "save"}
  /\ ListenerFails
  /\ seen' = NoNews
  /\ listed' = {}
  /\ ListenerGoto("receive")
  /\ UNCHANGED <<link, wire, firstConnect, missed, drops>>

EndReconciliation ==
  /\ lpc = "ask"
  /\ listed = {}
  /\ ListenerGoto("receive")
  /\ UNCHANGED <<vars, link, wire, firstConnect, seen, listed, missed, drops>>

-------------------------------------------------------------------------------
ListenerThread ==
  \/ Connect
  \/ NoticeDrop
  \/ Receive
  \/ Apply
  \/ ApplyRaises
  \/ ListRows
  \/ \E row \in listed : Ask(row) \/ AskFails(row)
  \/ Save
  \/ ReconciliationRaises
  \/ EndReconciliation

TrackingNext == WorkerMoves \/ StartListener \/ ProcessDies \/ Drop \/ ListenerThread

TrackingSpec == TrackingInit /\ [][TrackingNext]_trackingVars

\* The tick goes on (run_service), and the supervisor reconnects for ever with a
\* bounded backoff.  Nothing is assumed of Alpaca or of the network.
TrackingFairness ==
  /\ WF_trackingVars((WorkerMoves /\ TickStep) \/ StartListener)
  /\ WF_trackingVars(ListenerThread)

FairTrackingSpec == TrackingSpec /\ TrackingFairness

-------------------------------------------------------------------------------
(* Properties *)

\* The listener writes nothing that OrderWorker does not allow it: what is proved
\* of the worker against any stream of true reports holds of the two threads.
ImplementsWorker == Spec

\* No fill slips through: the row of a filled order is dated, or the event that dates
\* it is on the wire or in the listener's hands, or was lost with a connection, a
\* process or a failed callback; neither a late reconciliation nor the other thread
\* takes its place (trade_updates_listener.py, main.py _apply_trade_update_event).
EveryFillIsTracked ==
  \A d \in Commands :
    broker[d] = "filled" => d \in filledAt \cup missed \cup FillsOf(wire) \cup FillSeen

\* Every fill reaches filled_at of its row, however the updates of the tick thread
\* cross it, unless its event was lost with a connection, a process or a failed
\* callback.
FillsArrive ==
  \A d \in Commands : broker[d] = "filled" ~> d \in filledAt \cup missed

Ended == {"filled", "canceled", "rejected"}

Calm == faults = MaxFaults /\ crashes = MaxCrashes

Stranded(d) ==
  /\ d \in Sweepable
  /\ broker[d] \in Ended
  /\ link = "down"
  /\ ~firstConnect

\* The tick thread is about to write the row.
BeingWritten(d) == pc \in {"mark", "record", "refuse"} /\ hand = d

\* A row believed non terminal while the connection is down, although its order has
\* ended, stops being so for good after the reconnection, once no call raises any
\* more: neither a later sweep nor a late event nor a stale listing brings it back.
\* The row of an order that the tick thread is about to write is exempt: the docstring
\* of _reconcile_after_reconnect (main.py:898-902) does not exempt it, but the UPDATE
\* of the sweep (line 873) is unconditional and may put an ended row back for ever.
ReconnectionCatchesUp ==
  \A d \in Commands :
    Calm /\ Stranded(d) /\ ~BeingWritten(d) ~> [](status[d] \notin NonTerminalStatuses)

=============================================================================
