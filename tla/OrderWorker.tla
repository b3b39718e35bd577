------------------------------ MODULE OrderWorker ------------------------------
(***************************************************************************)
(* The order worker (workers/order_worker/main.py), the only service that   *)
(* writes to the broker.  Its tick thread first sweeps the open orders when *)
(* the trading kill switch is engaged, then handles the order commands of  *)
(* its queue: it inserts a row in orders (the write-ahead record), calls    *)
(* Alpaca, updates the row, journals and announces the new status, and      *)
(* acknowledges the command.  Every database, Redis and HTTP call may       *)
(* raise, and the process may die between any two of them.                  *)
(*                                                                         *)
(* Around it: the execution agent submits commands, Alpaca fills and        *)
(* cancels orders and deduplicates on client_order_id as the worker's       *)
(* docstring says or refuses the second submission as its client expects,    *)
(* an operator toggles the switch, users connect and disconnect their        *)
(* accounts, and the trade_updates thread of the same process writes         *)
(* statuses into the same rows (here in its most liberal form;               *)
(* OrderTracking gives the detail).                                          *)
(*                                                                         *)
(* There is one command per risk decision; the row, the idempotency key    *)
(* and the client_order_id are functions of that decision.  The stream and *)
(* the delivery counter are those of EventBus: here a command waits until   *)
(* it is acknowledged.                                                      *)
(***************************************************************************)
EXTENDS Naturals

CONSTANTS
  Commands,        \* order commands, one per risk decision
  Shapes,          \* what a command and its surroundings may look like
  Accounts,        \* the states an account may be in at first
  None,            \* no command in hand
  StreamUp,        \* whether the trade_updates stream ever gets through
  MaxFaults,       \* bound: calls that raise
  MaxCrashes,      \* bound: deaths of the process
  MaxToggles,      \* bound: changes of the kill switch
  MaxChanges       \* bound: changes of an account

\* The facts the worker checks: the OrderCommand contract, the outcome of the
\* risk decision, the user of the envelope, the kind of the execution context,
\* sizing_pending/reference_price, notional/quantity.
Fact ==
  [ valid : BOOLEAN,
    approved : BOOLEAN,
    user : BOOLEAN,
    context : {"PAPER", "REPLAY", "OTHER"},
    sized : BOOLEAN,
    amount : BOOLEAN ]

\* The account of the command's user: not connected, connected with credentials
\* that cannot be decrypted, or usable.
AccountStates == {"none", "unreadable", "readable"}

VARIABLES
  shape,           \* shape[d]: the facts about command d, fixed
  queue,           \* queue[d]: "unsent", "waiting" (stream or PEL) or "settled"
  deliveries,      \* deliveries[d]: its delivery counter, up to 2
  dead,            \* commands copied to the dead-letter stream
  status,          \* orders.status of the row of d, "absent" without a row
  pid,             \* rows whose provider_order_id is known
  filledAt,        \* rows whose filled_at is set
  broker,          \* what has become of the order of d at Alpaca
  engaged,         \* settings:trading_kill_switch_engaged
  account,         \* account[d]: the account of the user of d
  unread,          \* history: commands whose account has been unreadable
  pc,              \* where the tick thread is
  hand,            \* the command or row it is working on
  answer,          \* the status it is about to write
  todo,            \* rows of the sweep still to be cancelled
  creds,           \* rows of users with usable credentials, as the sweep knows them
  faults, crashes, toggles, changes

rowVars == <<status, pid, filledAt>>
queueVars == <<queue, deliveries, dead>>
accountVars == <<account, unread>>
worldVars == <<engaged, accountVars>>
sweepVars == <<todo, creds>>
tickVars == <<pc, hand, answer, sweepVars>>
bounds == <<faults, crashes, toggles, changes>>
vars == <<shape, queueVars, rowVars, broker, worldVars, tickVars, bounds>>

-------------------------------------------------------------------------------
(* Statuses *)

BlockedStatuses ==
  { "blocked_kill_switch", "blocked_invalid_context", "deferred_replay",
    "blocked_sizing_pending", "blocked_missing_sizing",
    "blocked_no_trading_account" }

\* Written by the worker when Alpaca refuses the order or the credentials.
RefusedStatuses == {"rejected", "error_auth"}

\* Alpaca's names: the two interfaces do not share those of partial and full
\* fills ("partial_fill", "fill" on the stream, "partially_filled", "filled"
\* over REST).
LiveStatuses ==
  { "accepted", "new", "partial_fill", "partially_filled", "pending_cancel",
    "order_cancel_rejected" }
FilledStatuses == {"fill", "filled"}
ObservedStatuses == LiveStatuses \cup FilledStatuses \cup {"canceled", "rejected"}

Statuses ==
  {"absent", "pending"} \cup BlockedStatuses \cup RefusedStatuses \cup ObservedStatuses

ASSUME WorkerAssumption ==
  /\ Shapes \subseteq Fact
  /\ Accounts \subseteq AccountStates
  /\ None \notin Commands \cup Statuses
  /\ StreamUp \in BOOLEAN
  /\ MaxFaults \in Nat
  /\ MaxCrashes \in Nat
  /\ MaxToggles \in Nat
  /\ MaxChanges \in Nat

\* Statuses the worker believes may still change.
NonTerminalStatuses ==
  { "pending_new", "new", "accepted", "partial_fill", "pending_cancel",
    "pending_replace", "calculated", "suspended" }

\* The stages of an order at Alpaca ("rejected": taken, then refused by Alpaca
\* itself; "canceled" stands for every other end without a complete fill), and the
\* status REST gives for each.
Stages == {"none", "open", "partial", "cancelling", "filled", "canceled", "rejected"}
Executable == {"open", "partial"}
Alive == Executable \cup {"cancelling"}

RestStatus ==
  [ open |-> "new", partial |-> "partially_filled",
    cancelling |-> "pending_cancel", filled |-> "filled", canceled |-> "canceled",
    rejected |-> "rejected" ]

\* The rows _NON_TERMINAL_ORDERS_ALL_SQL selects.
Sweepable == {d \in pid : status[d] \in NonTerminalStatuses}

-------------------------------------------------------------------------------
(* What the worker decides from the facts *)

\* _determine_pre_alpaca_status; None when the order may be placed.  The account
\* is looked up in a PAPER context only.
PreAlpacaStatus(d) ==
  LET f == shape[d] IN
  IF engaged THEN "blocked_kill_switch"
  ELSE IF f.context = "OTHER" THEN "blocked_invalid_context"
  ELSE IF f.context = "REPLAY" THEN "deferred_replay"
  ELSE IF ~f.sized THEN "blocked_sizing_pending"
  ELSE IF ~f.amount THEN "blocked_missing_sizing"
  ELSE IF account[d] = "none" THEN "blocked_no_trading_account"
  ELSE None

\* Mutant: the outcome of the risk decision is not checked again.
DismissibleUnlessSubmitted(d) == ~(shape[d].valid /\ shape[d].user)

\* Commands _process_envelope drops without a row: broken contract, decision not
\* APPROVED, no user.
Dismissible(d) == ~(shape[d].valid /\ shape[d].approved /\ shape[d].user)

\* Nothing but the kill switch and the account can keep the order from Alpaca.
Placeable(d) ==
  /\ shape[d].valid /\ shape[d].approved /\ shape[d].user
  /\ shape[d].context = "PAPER"
  /\ shape[d].sized
  /\ shape[d].amount

-------------------------------------------------------------------------------
SweepSteps == {"scan", "sweep", "mark", "announce"}
HandlerSteps ==
  {"check", "block", "insert", "place", "record", "refuse", "report", "ack"}
Steps == {"idle", "listen", "loop", "fail"} \cup SweepSteps \cup HandlerSteps

TypeOK ==
  /\ shape \in [Commands -> Shapes]
  /\ queue \in [Commands -> {"unsent", "waiting", "settled"}]
  /\ deliveries \in [Commands -> 0 .. 2]
  /\ dead \subseteq Commands
  /\ status \in [Commands -> Statuses]
  /\ pid \subseteq Commands
  /\ filledAt \subseteq Commands
  /\ broker \in [Commands -> Stages]
  /\ engaged \in BOOLEAN
  /\ account \in [Commands -> AccountStates]
  /\ unread \subseteq Commands
  /\ pc \in Steps
  /\ hand \in Commands \cup {None}
  /\ answer \in Statuses \cup {None}
  /\ todo \subseteq Commands
  /\ creds \subseteq Commands
  /\ faults \in Nat
  /\ crashes \in Nat
  /\ toggles \in Nat
  /\ changes \in Nat

Init ==
  /\ shape \in [Commands -> Shapes]
  /\ queue = [d \in Commands |-> "unsent"]
  /\ deliveries = [d \in Commands |-> 0]
  /\ dead = {}
  /\ status = [d \in Commands |-> "absent"]
  /\ pid = {}
  /\ filledAt = {}
  /\ broker = [d \in Commands |-> "none"]
  /\ engaged = FALSE
  /\ account \in [Commands -> Accounts]
  /\ unread = {d \in Commands : account[d] = "unreadable"}
  /\ pc = "idle"
  /\ hand = None
  /\ answer = None
  /\ todo = {}
  /\ creds = {}
  /\ faults = 0
  /\ crashes = 0
  /\ toggles = 0
  /\ changes = 0

Goto(step) == pc' = step
SetQueue(d, q) == queue' = [queue EXCEPT ![d] = q]
SetStatus(d, s) == status' = [status EXCEPT ![d] = s]
SetBroker(d, b) == broker' = [broker EXCEPT ![d] = b]

\* A call that raises, within the bound.
Fault ==
  /\ faults < MaxFaults
  /\ faults' = faults + 1
  /\ UNCHANGED <<crashes, toggles, changes>>

\* The command leaves the thread's hands.
LetGo ==
  /\ hand' = None
  /\ answer' = None

-------------------------------------------------------------------------------
(* The environment *)

\* The execution agent publishes order.command.prepared.
Submit(d) ==
  /\ queue[d] = "unsent"
  /\ SetQueue(d, "waiting")
  /\ UNCHANGED <<shape, deliveries, dead, rowVars, broker, worldVars, tickVars, bounds>>

\* Alpaca executes, cancels, rejects, or gives up a requested cancellation.
BrokerMove(d, b) ==
  /\ \/ broker[d] = "open" /\ b \in {"partial", "filled", "canceled", "rejected"}
     \/ broker[d] = "partial" /\ b \in {"filled", "canceled"}
     \/ broker[d] = "cancelling" /\ b \in {"open", "partial", "filled", "canceled"}
  /\ SetBroker(d, b)
  /\ UNCHANGED <<shape, queueVars, rowVars, worldVars, tickVars, bounds>>

\* The operator engages or releases the switch (set_trading_kill_switch_engaged).
ToggleKillSwitch ==
  /\ toggles < MaxToggles
  /\ toggles' = toggles + 1
  /\ engaged' = ~engaged
  /\ UNCHANGED <<shape, queueVars, rowVars, broker, accountVars, tickVars, faults, crashes, changes>>

\* A user connects or disconnects the account, or its credentials are encrypted
\* with a key the worker does not have.
ChangeAccount(d, a) ==
  /\ changes < MaxChanges
  /\ changes' = changes + 1
  /\ account[d] # a
  /\ account' = [account EXCEPT ![d] = a]
  /\ unread' = IF a = "unreadable" THEN unread \cup {d} ELSE unread
  /\ UNCHANGED <<shape, queueVars, rowVars, broker, engaged, tickVars, faults, crashes, toggles>>

\* The trade_updates thread writes a status Alpaca has reported, perhaps late:
\* an end is reported only once it has happened, a passing stage at any time.
\* Only the stream's "fill" dates the fill.
ListenerWrites(d, s) ==
  /\ StreamUp
  /\ status[d] # "absent"
  /\ \/ broker[d] # "none" /\ s \in LiveStatuses
     \/ broker[d] = "filled" /\ s \in FilledStatuses
     \/ broker[d] \in {"canceled", "rejected"} /\ s = broker[d]
  /\ SetStatus(d, s)
  /\ filledAt' = IF s = "fill" THEN filledAt \cup {d} ELSE filledAt
  /\ UNCHANGED <<shape, queueVars, pid, broker, worldVars, tickVars, bounds>>

\* A call of that thread raises: it drops what it was about to write.
ListenerFails ==
  /\ StreamUp
  /\ Fault
  /\ UNCHANGED <<shape, queueVars, rowVars, broker, worldVars, tickVars>>

-------------------------------------------------------------------------------
(* The tick: accounts, then the sweep of the kill switch *)

\* Mutant: the switch is not read.
StartTickUnswept ==
  /\ pc = "idle"
  /\ Goto("listen")
  /\ UNCHANGED <<shape, queueVars, rowVars, broker, worldVars, hand, answer, sweepVars, bounds>>

\* The accounts are read, then the switch.
StartTick ==
  /\ pc = "idle"
  /\ IF engaged
       THEN /\ creds' = {d \in Commands : account[d] = "readable"}
            /\ Goto("scan")
       ELSE /\ UNCHANGED creds
            /\ Goto("listen")
  /\ UNCHANGED <<shape, queueVars, rowVars, broker, worldVars, hand, answer, todo, bounds>>

\* _cancel_orders_for_kill_switch: the rows are read once, before the calls.
Scan ==
  /\ pc = "scan"
  /\ todo' = Sweepable
  /\ Goto("sweep")
  /\ UNCHANGED <<shape, queueVars, rowVars, broker, worldVars, hand, answer, creds, bounds>>

\* No connected account of that user when the tick began, or credentials that cannot
\* be decrypted: the order is left alone, at every pass.
SkipOrder(d) ==
  /\ pc = "sweep"
  /\ d \in todo
  /\ d \notin creds
  /\ todo' = todo \ {d}
  /\ UNCHANGED <<shape, queueVars, rowVars, broker, worldVars, pc, hand, answer, creds, bounds>>

\* DELETE accepted (200/204): the cancellation is requested.
CancelAccepted(d) ==
  /\ pc = "sweep"
  /\ d \in todo \cap creds
  /\ broker[d] \in Alive
  /\ SetBroker(d, "cancelling")
  /\ todo' = todo \ {d}
  /\ hand' = d
  /\ Goto("mark")
  /\ UNCHANGED <<shape, queueVars, rowVars, worldVars, answer, creds, bounds>>

\* DELETE refused (422): the row is left as it is.
CancelRefused(d) ==
  /\ pc = "sweep"
  /\ d \in todo \cap creds
  /\ broker[d] \notin Executable
  /\ todo' = todo \ {d}
  /\ UNCHANGED <<shape, queueVars, rowVars, broker, worldVars, pc, hand, answer, creds, bounds>>

\* Timeout, network error, 5xx or 401; Alpaca may have obeyed all the same.
CancelFailed(d) ==
  /\ pc = "sweep"
  /\ d \in todo \cap creds
  /\ Fault
  /\ broker' \in {broker, [broker EXCEPT ![d] = IF @ \in Executable THEN "cancelling" ELSE @]}
  /\ todo' = todo \ {d}
  /\ UNCHANGED <<shape, queueVars, rowVars, worldVars, pc, hand, answer, creds>>

\* The row becomes pending_cancel whatever its status is by now.
MarkPendingCancel ==
  /\ pc = "mark"
  /\ SetStatus(hand, "pending_cancel")
  /\ Goto("announce")
  /\ UNCHANGED <<shape, queueVars, pid, filledAt, broker, worldVars, hand, answer, sweepVars, bounds>>

\* order_events row and order.status.changed event.
AnnounceCancel ==
  /\ pc = "announce"
  /\ LetGo
  /\ Goto("sweep")
  /\ UNCHANGED <<shape, queueVars, rowVars, broker, worldVars, sweepVars, bounds>>

EndSweep ==
  /\ pc = "sweep"
  /\ todo = {}
  /\ creds' = {}
  /\ Goto("listen")
  /\ UNCHANGED <<shape, queueVars, rowVars, broker, worldVars, hand, answer, todo, bounds>>

\* An exception leaves the sweep, not the tick.
SweepRaises ==
  /\ pc \in SweepSteps
  /\ Fault
  /\ LetGo
  /\ todo' = {}
  /\ creds' = {}
  /\ Goto("listen")
  /\ UNCHANGED <<shape, queueVars, rowVars, broker, worldVars>>

\* _ensure_listener for every connected account (see OrderTracking).
EnsureListener ==
  /\ pc = "listen"
  /\ Goto("loop")
  /\ UNCHANGED <<shape, queueVars, rowVars, broker, worldVars, hand, answer, sweepVars, bounds>>

-------------------------------------------------------------------------------
(* The tick: one command after another *)

\* A command of the batch, new or reclaimed.
Take(d) ==
  /\ pc = "loop"
  /\ queue[d] = "waiting"
  /\ deliveries' = [deliveries EXCEPT ![d] = IF @ < 2 THEN @ + 1 ELSE 2]
  /\ hand' = d
  /\ Goto("check")
  /\ UNCHANGED <<shape, queue, dead, rowVars, broker, worldVars, answer, sweepVars, bounds>>

\* No (more) message, or read/reclaim_stale raised.
EndTick ==
  /\ pc = "loop"
  /\ Goto("idle")
  /\ UNCHANGED <<shape, queueVars, rowVars, broker, worldVars, hand, answer, sweepVars, bounds>>

\* Mutant: the invalid command is not copied to the dead-letter stream.
DismissSilently ==
  /\ pc = "check"
  /\ Dismissible(hand)
  /\ Goto("ack")
  /\ UNCHANGED <<shape, queueVars, rowVars, broker, worldVars, hand, answer, sweepVars, bounds>>

\* A command that breaks the contract is copied to the dead-letter stream at
\* once; an unapproved decision, a missing user and credentials that cannot be
\* decrypted are only logged.
Dismiss ==
  /\ pc = "check"
  /\ \/ Dismissible(hand)
     \/ PreAlpacaStatus(hand) = None /\ account[hand] = "unreadable"
  /\ dead' = IF shape[hand].valid THEN dead ELSE dead \cup {hand}
  /\ Goto("ack")
  /\ UNCHANGED <<shape, queue, deliveries, rowVars, broker, worldVars, hand, answer, sweepVars, bounds>>

CheckBlocks ==
  /\ pc = "check"
  /\ ~Dismissible(hand)
  /\ PreAlpacaStatus(hand) # None
  /\ answer' = PreAlpacaStatus(hand)
  /\ Goto("block")
  /\ UNCHANGED <<shape, queueVars, rowVars, broker, worldVars, hand, sweepVars, bounds>>

CheckPasses ==
  /\ pc = "check"
  /\ ~Dismissible(hand)
  /\ PreAlpacaStatus(hand) = None
  /\ account[hand] = "readable"
  /\ Goto("insert")
  /\ UNCHANGED <<shape, queueVars, rowVars, broker, worldVars, hand, answer, sweepVars, bounds>>

\* _process_blocked: INSERT; on IntegrityError the command is a duplicate.
InsertBlocked ==
  /\ pc = "block"
  /\ IF status[hand] = "absent"
       THEN /\ SetStatus(hand, answer)
            /\ Goto("report")
       ELSE /\ UNCHANGED status
            /\ Goto("ack")
  /\ UNCHANGED <<shape, queueVars, pid, filledAt, broker, worldVars, hand, answer, sweepVars, bounds>>

\* Mutant: the status of the duplicate row is not looked at.
InsertThenAlwaysPlace ==
  /\ pc = "insert"
  /\ IF status[hand] = "absent" THEN SetStatus(hand, "pending") ELSE UNCHANGED status
  /\ Goto("place")
  /\ UNCHANGED <<shape, queueVars, pid, filledAt, broker, worldVars, hand, answer, sweepVars, bounds>>

\* _process_ready_to_place: INSERT; on IntegrityError the order is submitted
\* again, with its client_order_id, if its row is still pending.
InsertPending ==
  /\ pc = "insert"
  /\ IF status[hand] = "absent" THEN SetStatus(hand, "pending") ELSE UNCHANGED status
  /\ Goto(IF status[hand] \in {"absent", "pending"} THEN "place" ELSE "ack")
  /\ UNCHANGED <<shape, queueVars, pid, filledAt, broker, worldVars, hand, answer, sweepVars, bounds>>

\* POST answered with an order: a new one, or the existing one of that
\* client_order_id.
PlaceAccepted ==
  /\ pc = "place"
  /\ IF broker[hand] = "none"
       THEN /\ SetBroker(hand, "open")
            /\ answer' = "accepted"
       ELSE /\ answer' = RestStatus[broker[hand]]
            /\ UNCHANGED broker
  /\ Goto("record")
  /\ UNCHANGED <<shape, queueVars, rowVars, worldVars, hand, sweepVars, bounds>>

\* 403, 409 or 422 (AlpacaOrderRejected): Alpaca refuses the order, or the second
\* submission of a client_order_id whose order it has.
PlaceRejected ==
  /\ pc = "place"
  /\ answer' = "rejected"
  /\ Goto("refuse")
  /\ UNCHANGED <<shape, queueVars, rowVars, broker, worldVars, hand, sweepVars, bounds>>

\* 401: Alpaca refuses the credentials, whether or not it has the order.
PlaceUnauthorized ==
  /\ pc = "place"
  /\ Fault
  /\ answer' = "error_auth"
  /\ Goto("refuse")
  /\ UNCHANGED <<shape, queueVars, rowVars, broker, worldVars, hand, sweepVars>>

\* Timeout, network error, 5xx or unreadable answer: the order may exist.
PlaceFailed ==
  /\ pc = "place"
  /\ Fault
  /\ broker' \in {broker, [broker EXCEPT ![hand] = IF @ = "none" THEN "open" ELSE @]}
  /\ Goto("fail")
  /\ UNCHANGED <<shape, queueVars, rowVars, worldVars, hand, answer, sweepVars>>

\* UPDATE orders with the answer and its provider_order_id, whatever the status of
\* the row is by now.
Record ==
  /\ pc = "record"
  /\ SetStatus(hand, answer)
  /\ pid' = pid \cup {hand}
  /\ Goto("report")
  /\ UNCHANGED <<shape, queueVars, filledAt, broker, worldVars, hand, answer, sweepVars, bounds>>

\* Mutant: one UPDATE for every outcome.
RecordRefusalAsOrder ==
  /\ pc = "refuse"
  /\ SetStatus(hand, answer)
  /\ pid' = pid \cup {hand}
  /\ Goto("report")
  /\ UNCHANGED <<shape, queueVars, filledAt, broker, worldVars, hand, answer, sweepVars, bounds>>

\* UPDATE of the status alone, of either kind of refusal.
RecordRefusal ==
  /\ pc = "refuse"
  /\ SetStatus(hand, answer)
  /\ Goto("report")
  /\ UNCHANGED <<shape, queueVars, pid, filledAt, broker, worldVars, hand, answer, sweepVars, bounds>>

\* order_events row and order.status.changed event.
Report ==
  /\ pc = "report"
  /\ Goto("ack")
  /\ UNCHANGED <<shape, queueVars, rowVars, broker, worldVars, hand, answer, sweepVars, bounds>>

\* Mutant: the command is handled and never acknowledged.
AckForgotten ==
  /\ pc = "ack"
  /\ LetGo
  /\ Goto("loop")
  /\ UNCHANGED <<shape, queueVars, rowVars, broker, worldVars, sweepVars, bounds>>

Ack ==
  /\ pc = "ack"
  /\ SetQueue(hand, "settled")
  /\ LetGo
  /\ Goto("loop")
  /\ UNCHANGED <<shape, deliveries, dead, rowVars, broker, worldVars, sweepVars, bounds>>

\* A call of the handler, or the acknowledgement, raises.
HandlerRaises ==
  /\ pc \in HandlerSteps
  /\ Fault
  /\ Goto("fail")
  /\ UNCHANGED <<shape, queueVars, rowVars, broker, worldVars, hand, answer, sweepVars>>

\* XACK took effect but its answer was lost: fail() is called on a settled command.
AckAnswerLost ==
  /\ pc = "ack"
  /\ Fault
  /\ SetQueue(hand, "settled")
  /\ Goto("fail")
  /\ UNCHANGED <<shape, deliveries, dead, rowVars, broker, worldVars, hand, answer, sweepVars>>

\* EventConsumer.fail below max_retries: the command stays in the PEL.
FailAndRetry ==
  /\ pc = "fail"
  /\ LetGo
  /\ Goto("loop")
  /\ UNCHANGED <<shape, queueVars, rowVars, broker, worldVars, sweepVars, bounds>>

\* EventConsumer.fail at max_retries.
FailAndGiveUp ==
  /\ pc = "fail"
  /\ dead' = dead \cup {hand}
  /\ SetQueue(hand, "settled")
  /\ LetGo
  /\ Goto("loop")
  /\ UNCHANGED <<shape, deliveries, rowVars, broker, worldVars, sweepVars, bounds>>

\* The process dies; the rows, the queue and the broker remain.
Crash ==
  /\ crashes < MaxCrashes
  /\ crashes' = crashes + 1
  /\ LetGo
  /\ todo' = {}
  /\ creds' = {}
  /\ Goto("idle")
  /\ UNCHANGED <<shape, queueVars, rowVars, broker, worldVars, faults, toggles, changes>>

-------------------------------------------------------------------------------
SweepStep ==
  \/ Scan
  \/ \E d \in todo : SkipOrder(d) \/ CancelAccepted(d) \/ CancelRefused(d) \/ CancelFailed(d)
  \/ MarkPendingCancel
  \/ AnnounceCancel
  \/ EndSweep
  \/ SweepRaises

HandlerStep ==
  \/ Dismiss
  \/ CheckBlocks
  \/ CheckPasses
  \/ InsertBlocked
  \/ InsertPending
  \/ PlaceAccepted
  \/ PlaceRejected
  \/ PlaceUnauthorized
  \/ PlaceFailed
  \/ Record
  \/ RecordRefusal
  \/ Report
  \/ Ack
  \/ HandlerRaises
  \/ AckAnswerLost
  \/ FailAndRetry
  \/ FailAndGiveUp

TakeStep == \E d \in Commands : Take(d)

TickStep ==
  \/ StartTick
  \/ SweepStep
  \/ EnsureListener
  \/ TakeStep
  \/ EndTick
  \/ HandlerStep

ListenerStep ==
  \/ \E d \in Commands, s \in ObservedStatuses : ListenerWrites(d, s)
  \/ ListenerFails

EnvironmentStep ==
  \/ \E d \in Commands : Submit(d)
  \/ \E d \in Commands, b \in Stages : BrokerMove(d, b)
  \/ ToggleKillSwitch
  \/ \E d \in Commands, a \in AccountStates : ChangeAccount(d, a)

Next == TickStep \/ ListenerStep \/ EnvironmentStep \/ Crash

Spec == Init /\ [][Next]_vars

\* run_service calls tick for ever and every call of the tick thread returns or
\* raises (HTTP timeout of 10 s); a waiting command is read or reclaimed by some
\* later tick.  Nothing is assumed of the broker, the operator or the listener.
Fairness ==
  /\ WF_vars(TickStep)
  /\ \A d \in Commands : SF_vars(Take(d))

FairSpec == Spec /\ Fairness

-------------------------------------------------------------------------------
(* Properties *)

\* Whatever was retried, redelivered, crashed or toggled, an order exists at the
\* broker only for a command that passed every check and whose row was
\* inserted first; a row blocked once is never submitted later.
OnlyVettedOrders ==
  \A d \in Commands :
    broker[d] # "none" => Placeable(d) /\ status[d] \notin BlockedStatuses \cup {"absent"}

\* What the rows record is true, even when answers are lost, calls are retried and
\* a late answer and a status of the other thread cross: a row with a
\* provider_order_id has an order, filled_at a fill, and a "rejected" row hides a
\* living or executed order only if its command was delivered more than once.
RecordedFactsHold ==
  /\ \A d \in pid : broker[d] # "none"
  /\ \A d \in filledAt : broker[d] = "filled"
  /\ \A d \in Commands :
       status[d] = "rejected" /\ broker[d] \notin {"none", "rejected"} => deliveries[d] > 1

\* A settled command leaves a trace: a row, a dead letter, or it was one of those
\* the worker may drop.
Traced(d) ==
  \/ status[d] # "absent"
  \/ d \in dead
  \/ shape[d].valid /\ (Dismissible(d) \/ d \in unread)

SettledLeavesATrace ==
  \A d \in Commands : queue[d] = "settled" => Traced(d)

\* The row is a write-ahead record: an order is created only while its row is
\* pending, and rows never disappear.
WriteAhead ==
  [][\A d \in Commands :
       /\ broker[d] = "none" /\ broker'[d] # "none" => status[d] = "pending"
       /\ status[d] # "absent" => status'[d] # "absent"]_vars

\* The inductive strengthening of the invariants above: what the thread knows at
\* each step of the command (or row) in its hands.  The step before a call decides
\* what the rows may say after it.
HasOrderRow(d) == status[d] \notin BlockedStatuses \cup {"absent"}

RowsVetted == \A d \in Commands : HasOrderRow(d) => Placeable(d)

HandTyped ==
  /\ pc \in HandlerSteps \cup {"mark", "announce", "fail"} => hand \in Commands
  /\ pc = "block" => answer \in BlockedStatuses
  /\ pc = "record" => answer \in ObservedStatuses
  /\ pc = "refuse" => answer \in RefusedStatuses

HandConsistent ==
  /\ \A d \in Commands : account[d] = "unreadable" => d \in unread
  /\ todo \subseteq pid
  /\ pc = "insert" => Placeable(hand)
  /\ pc = "place" =>
       /\ HasOrderRow(hand)
       /\ broker[hand] = "none" => status[hand] = "pending"
  /\ pc = "record" =>
       /\ HasOrderRow(hand)
       /\ broker[hand] # "none"
       /\ answer = "rejected" => broker[hand] = "rejected"
  /\ pc = "refuse" => HasOrderRow(hand)
  /\ pc = "mark" => broker[hand] # "none"
  /\ pc = "report" => status[hand] # "absent"
  /\ pc = "ack" => Traced(hand)

\* On its first delivery a command has no row, and no order before its POST.
FirstDelivery ==
  /\ pc \in HandlerSteps => deliveries[hand] # 0
  /\ \A d \in Commands : deliveries[d] = 0 => status[d] = "absent"
  /\ pc \in {"check", "block", "insert"} /\ deliveries[hand] = 1 => status[hand] = "absent"
  /\ pc \in {"place", "refuse"} /\ deliveries[hand] = 1 => broker[hand] = "none"

WorkerInv ==
  /\ TypeOK
  /\ HandTyped
  /\ RowsVetted
  /\ OnlyVettedOrders
  /\ RecordedFactsHold
  /\ SettledLeavesATrace
  /\ HandConsistent
  /\ FirstDelivery

\* Every submitted command is settled in the end: by its handling, or by the
\* dead-letter stream.
EventuallySettled ==
  \A d \in Commands : queue[d] = "waiting" ~> queue[d] = "settled"

\* While the switch stays engaged and the account of its user can be used, every
\* executable order whose row can be swept is in the end no longer executable, or
\* its row has left the sweep.
SweepReachesOpenOrders ==
  \A d \in Commands :
    engaged /\ account[d] = "readable" /\ d \in Sweepable /\ broker[d] \in Executable ~>
      ~engaged \/ account[d] # "readable" \/ d \notin Sweepable \/ broker[d] \notin Executable

=============================================================================
