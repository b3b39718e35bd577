--------------------------- MODULE OrderWorkerProofs ---------------------------
(***************************************************************************)
(* WorkerInv is an inductive invariant of OrderWorker for every set of     *)
(* commands and shapes and every bound: with it, type correctness and the  *)
(* safety properties of the worker hold whatever is retried, redelivered,  *)
(* lost or interrupted, and the row is a write-ahead record of the order.  *)
(*                                                                         *)
(* TrackingInv is one of OrderTracking.  The tick thread and the listener  *)
(* together take no step that OrderWorker does not, so whatever is proved  *)
(* of the worker holds of the two threads; and a fill is dated, on its way *)
(* or lost.                                                                *)
(*                                                                         *)
(* The statuses are handled through StatusFacts; the sets themselves stay  *)
(* folded in the proofs about steps.                                       *)
(***************************************************************************)
EXTENDS OrderTracking, TLAPS

\* The families of statuses are disjoint, and the literals belong where they should.
LEMMA StatusFacts ==
  /\ BlockedStatuses \cup RefusedStatuses \cup ObservedStatuses \cup {"absent", "pending"} = Statuses
  /\ {"accepted", "pending_cancel"} \subseteq ObservedStatuses
  /\ {"rejected", "error_auth"} = RefusedStatuses
  /\ ObservedStatuses \cap (BlockedStatuses \cup {"error_auth", "absent", "pending"}) = {}
  /\ BlockedStatuses \cap (RefusedStatuses \cup {"absent", "pending"}) = {}
  /\ LiveStatuses \cup FilledStatuses \cup {"canceled", "rejected"} = ObservedStatuses
  /\ "rejected" \notin LiveStatuses \cup FilledStatuses
  /\ "fill" \in FilledStatuses /\ "fill" \notin LiveStatuses
BY DEF Statuses, BlockedStatuses, RefusedStatuses, ObservedStatuses, LiveStatuses, FilledStatuses

\* What the two tables of the model return.
LEMMA RestStatusObserved ==
  ASSUME NEW b \in Stages, b # "none"
  PROVE  RestStatus[b] \in ObservedStatuses /\ (RestStatus[b] = "rejected" => b = "rejected")
BY DEF Stages, RestStatus, ObservedStatuses, LiveStatuses, FilledStatuses

\* What _determine_pre_alpaca_status returns is None or a blocking status.
LEMMA PreAlpacaStatusBlocks ==
  ASSUME NEW d
  PROVE  PreAlpacaStatus(d) = None \/ PreAlpacaStatus(d) \in BlockedStatuses
<1> DEFINE f == shape[d]
<1>1. CASE engaged
  BY <1>1 DEF PreAlpacaStatus, BlockedStatuses
<1>2. CASE ~engaged /\ f.context \in {"OTHER", "REPLAY"}
  BY <1>2 DEF PreAlpacaStatus, BlockedStatuses
<1>3. CASE ~engaged /\ f.context \notin {"OTHER", "REPLAY"} /\ ~f.sized
  BY <1>3 DEF PreAlpacaStatus, BlockedStatuses
<1>4. CASE ~engaged /\ f.context \notin {"OTHER", "REPLAY"} /\ f.sized
  BY <1>4 DEF PreAlpacaStatus, BlockedStatuses
<1> QED
  BY <1>1, <1>2, <1>3, <1>4

\* A command without a status to block it passed every check.
LEMMA CheckedIsPlaceable ==
  ASSUME NEW d \in Commands,
         shape[d] \in Fact,
         ~Dismissible(d),
         PreAlpacaStatus(d) = None
  PROVE  Placeable(d)
<1>1. \A s \in BlockedStatuses : s # None
  BY WorkerAssumption, StatusFacts
<1>2. ~engaged
  BY <1>1 DEF PreAlpacaStatus, BlockedStatuses
<1>3. shape[d].context \notin {"OTHER", "REPLAY"}
  BY <1>1, <1>2 DEF PreAlpacaStatus, BlockedStatuses
<1>4. shape[d].sized
  BY <1>1, <1>2, <1>3 DEF PreAlpacaStatus, BlockedStatuses
<1>5. shape[d].amount
  BY <1>1, <1>2, <1>3, <1>4 DEF PreAlpacaStatus, BlockedStatuses
<1> QED
  BY <1>3, <1>4, <1>5 DEF Placeable, Dismissible, Fact

-------------------------------------------------------------------------------
(* Types *)

\* A step keeps the types, and what the tick thread holds at each of its steps.
LEMMA TypePreserved ==
  ASSUME TypeOK, HandTyped, [Next]_vars
  PROVE  TypeOK' /\ HandTyped'
<1> USE DEF TypeOK, HandTyped, rowVars, queueVars, tickVars, bounds, Goto, SetQueue,
           SetStatus, SetBroker, Fault, LetGo, Steps, SweepSteps, HandlerSteps, worldVars, accountVars,
           sweepVars
<1> USE StatusFacts
<1>1. CASE StartTick
  BY <1>1 DEF StartTick
<1>2. CASE Scan
  BY <1>2 DEF Scan, Sweepable
<1>3. ASSUME NEW d \in todo, CancelAccepted(d) PROVE TypeOK' /\ HandTyped'
  BY <1>3 DEF CancelAccepted, Stages
<1>4. ASSUME NEW d \in todo, CancelRefused(d) PROVE TypeOK' /\ HandTyped'
  BY <1>4 DEF CancelRefused
<1>5. ASSUME NEW d \in todo, CancelFailed(d) PROVE TypeOK' /\ HandTyped'
  BY <1>5 DEF CancelFailed, Stages
<1>6. CASE MarkPendingCancel
  BY <1>6 DEF MarkPendingCancel
<1>7. CASE AnnounceCancel
  BY <1>7 DEF AnnounceCancel
<1>8. CASE EndSweep
  BY <1>8 DEF EndSweep
<1>9. CASE SweepRaises
  BY <1>9 DEF SweepRaises
<1>10. CASE EnsureListener
  BY <1>10 DEF EnsureListener
<1>11. ASSUME NEW d \in Commands, Take(d) PROVE TypeOK' /\ HandTyped'
  BY <1>11 DEF Take
<1>12. CASE EndTick
  BY <1>12 DEF EndTick
<1>13. CASE Dismiss
  BY <1>13 DEF Dismiss
<1>14. CASE CheckBlocks
  BY PreAlpacaStatusBlocks, <1>14 DEF CheckBlocks
<1>15. CASE CheckPasses
  BY <1>15 DEF CheckPasses
<1>16. CASE InsertBlocked
  BY <1>16 DEF InsertBlocked
<1>17. CASE InsertPending
  BY <1>17 DEF InsertPending
<1>18. CASE PlaceAccepted
  BY RestStatusObserved, <1>18 DEF PlaceAccepted, Stages
<1>19. CASE PlaceRejected
  BY <1>19 DEF PlaceRejected
<1>20. CASE PlaceUnauthorized
  BY <1>20 DEF PlaceUnauthorized
<1>21. CASE PlaceFailed
  BY <1>21 DEF PlaceFailed, Stages
<1>22. CASE Record
  BY <1>22 DEF Record
<1>23. CASE Report
  BY <1>23 DEF Report
<1>24. CASE Ack
  BY <1>24 DEF Ack
<1>25. CASE HandlerRaises
  BY <1>25 DEF HandlerRaises
<1>26. CASE AckAnswerLost
  BY <1>26 DEF AckAnswerLost
<1>27. CASE FailAndRetry
  BY <1>27 DEF FailAndRetry
<1>28. CASE FailAndGiveUp
  BY <1>28 DEF FailAndGiveUp
<1>29. ASSUME NEW d \in Commands, NEW s \in ObservedStatuses, ListenerWrites(d, s)
    PROVE TypeOK' /\ HandTyped'
  BY <1>29 DEF ListenerWrites
<1>30. CASE ListenerFails
  BY <1>30 DEF ListenerFails
<1>31. ASSUME NEW d \in Commands, Submit(d) PROVE TypeOK' /\ HandTyped'
  BY <1>31 DEF Submit
<1>32. ASSUME NEW d \in Commands, NEW b \in Stages, BrokerMove(d, b) PROVE TypeOK' /\ HandTyped'
  BY <1>32 DEF BrokerMove
<1>33. CASE ToggleKillSwitch
  BY <1>33 DEF ToggleKillSwitch
<1>34. CASE Crash
  BY <1>34 DEF Crash
<1>35. CASE UNCHANGED vars
  BY <1>35 DEF vars
<1>36. ASSUME NEW d \in todo, SkipOrder(d) PROVE TypeOK' /\ HandTyped'
  BY <1>36 DEF SkipOrder
<1>37. CASE RecordRefusal
  BY <1>37 DEF RecordRefusal
<1>38. ASSUME NEW d \in Commands, NEW a \in AccountStates, ChangeAccount(d, a)
    PROVE TypeOK' /\ HandTyped'
  BY <1>38 DEF ChangeAccount
<1> QED
  BY <1>1, <1>2, <1>3, <1>4, <1>5, <1>6, <1>7, <1>8, <1>9, <1>10, <1>11, <1>12,
     <1>13, <1>14, <1>15, <1>16, <1>17, <1>18, <1>19, <1>20, <1>21, <1>22, <1>23, <1>24,
     <1>25, <1>26, <1>27, <1>28, <1>29, <1>30, <1>31, <1>32, <1>33, <1>34, <1>35, <1>36,
     <1>37, <1>38
     DEF Next, TickStep, SweepStep, HandlerStep, TakeStep, ListenerStep, EnvironmentStep
-------------------------------------------------------------------------------
(* Rows, broker and the trace of a command *)

SafetyInv ==
  RowsVetted /\ OnlyVettedOrders /\ RecordedFactsHold
    /\ SettledLeavesATrace /\ HandConsistent

\* A step keeps the safety invariants and what links the hand to the rows.
LEMMA SafetyPreserved ==
  ASSUME WorkerInv, TypeOK', HandTyped', [Next]_vars
  PROVE  SafetyInv'
<1> USE DEF SafetyInv, WorkerInv, TypeOK, HandTyped, RowsVetted, OnlyVettedOrders,
            RecordedFactsHold, SettledLeavesATrace, HandConsistent,
            HasOrderRow, Traced, Placeable, Dismissible
<1> USE DEF worldVars, accountVars, sweepVars, rowVars, queueVars, tickVars, bounds, Goto, SetQueue, SetStatus, SetBroker,
            Fault, LetGo, Steps, SweepSteps, HandlerSteps
<1> USE StatusFacts
\* Steps that move the thread, the switch or a counter and nothing else.
<1>1. CASE \/ StartTick \/ AnnounceCancel \/ EndSweep \/ SweepRaises \/ EnsureListener
             \/ EndTick \/ HandlerRaises \/ FailAndRetry \/ ToggleKillSwitch \/ Crash \/ ListenerFails
  BY <1>1 DEF StartTick, AnnounceCancel, EndSweep, SweepRaises, EnsureListener, EndTick, HandlerRaises, FailAndRetry, ToggleKillSwitch, Crash, ListenerFails
\* The sweep.
<1>2. CASE Scan
  BY <1>2 DEF Scan, Sweepable
<1>3. ASSUME NEW d \in todo, CancelAccepted(d) PROVE SafetyInv'
  BY <1>3 DEF CancelAccepted, Stages, Executable, Alive
<1>26. ASSUME NEW d \in todo, SkipOrder(d) PROVE SafetyInv'
  BY <1>26 DEF SkipOrder
<1>4. ASSUME NEW d \in todo, CancelRefused(d) PROVE SafetyInv'
  BY <1>4 DEF CancelRefused, Executable
<1>5. ASSUME NEW d \in todo, CancelFailed(d) PROVE SafetyInv'
  BY <1>5 DEF CancelFailed, Stages, Executable
<1>6. CASE MarkPendingCancel
  BY <1>6 DEF MarkPendingCancel
\* One command.
<1>7. ASSUME NEW d \in Commands, Take(d) PROVE SafetyInv'
  BY <1>7 DEF Take
<1>8. CASE Dismiss
  BY <1>8 DEF Dismiss
<1>9. CASE CheckBlocks
  BY PreAlpacaStatusBlocks, <1>9 DEF CheckBlocks
<1>10. CASE CheckPasses
  BY CheckedIsPlaceable, WorkerAssumption, <1>10 DEF CheckPasses
<1>11. CASE InsertBlocked
  BY <1>11 DEF InsertBlocked
<1>12. CASE InsertPending
  BY <1>12 DEF InsertPending
<1>13. CASE PlaceAccepted
  BY RestStatusObserved, <1>13 DEF PlaceAccepted, Stages
<1>14. CASE PlaceRejected
  BY <1>14 DEF PlaceRejected
<1>15. CASE PlaceUnauthorized
  BY <1>15 DEF PlaceUnauthorized
<1>16. CASE PlaceFailed
  BY <1>16 DEF PlaceFailed, Stages
<1>17. CASE Record
  BY <1>17 DEF Record
<1>27. CASE RecordRefusal
  BY <1>27 DEF RecordRefusal, FirstDelivery
<1>18. CASE Report
  BY <1>18 DEF Report
<1>19. CASE Ack
  BY <1>19 DEF Ack
<1>20. CASE AckAnswerLost
  BY <1>20 DEF AckAnswerLost
<1>21. CASE FailAndGiveUp
  BY <1>21 DEF FailAndGiveUp
\* The environment.
<1>22. ASSUME NEW d \in Commands, NEW s \in ObservedStatuses, ListenerWrites(d, s)
    PROVE SafetyInv'
  BY <1>22 DEF ListenerWrites
<1>23. ASSUME NEW d \in Commands, Submit(d) PROVE SafetyInv'
  BY <1>23 DEF Submit
<1>24. ASSUME NEW d \in Commands, NEW b \in Stages, BrokerMove(d, b) PROVE SafetyInv'
  BY <1>24 DEF BrokerMove, Stages
<1>28. ASSUME NEW d \in Commands, NEW a \in AccountStates, ChangeAccount(d, a) PROVE SafetyInv'
  BY <1>28 DEF ChangeAccount
<1>25. CASE UNCHANGED vars
  BY <1>25 DEF vars
<1> QED
  BY <1>1, <1>2, <1>3, <1>4, <1>5, <1>6, <1>7, <1>8, <1>9, <1>10, <1>11, <1>12,
     <1>13, <1>14, <1>15, <1>16, <1>17, <1>18, <1>19, <1>20, <1>21, <1>22, <1>23, <1>24,
     <1>25, <1>26, <1>27, <1>28
     DEF Next, TickStep, SweepStep, HandlerStep, TakeStep, ListenerStep, EnvironmentStep

\* A step keeps what is known of a command that is delivered for the first time.
LEMMA FirstDeliveryPreserved ==
  ASSUME WorkerInv, [Next]_vars
  PROVE  FirstDelivery'
<1> USE DEF WorkerInv, TypeOK, HandTyped, FirstDelivery, HandConsistent, HasOrderRow, OnlyVettedOrders
<1> USE DEF worldVars, accountVars, sweepVars, rowVars, queueVars, tickVars, bounds, Goto, SetQueue,
            SetStatus, SetBroker, Fault, LetGo, Steps, SweepSteps, HandlerSteps
<1>1. CASE \/ StartTick \/ AnnounceCancel \/ EndSweep \/ SweepRaises \/ EnsureListener \/ Scan
             \/ EndTick \/ HandlerRaises \/ FailAndRetry \/ ToggleKillSwitch \/ Crash \/ ListenerFails
  BY <1>1 DEF StartTick, AnnounceCancel, EndSweep, SweepRaises, EnsureListener, EndTick, HandlerRaises, FailAndRetry, ToggleKillSwitch, Crash, ListenerFails, Scan
<1>2. ASSUME NEW d \in todo, SkipOrder(d) \/ CancelAccepted(d) \/ CancelRefused(d) \/ CancelFailed(d)
      PROVE  FirstDelivery'
  BY <1>2 DEF SkipOrder, CancelAccepted, CancelRefused, CancelFailed
<1>3. CASE MarkPendingCancel
  BY <1>3 DEF MarkPendingCancel
<1>4. ASSUME NEW d \in Commands, Take(d) PROVE FirstDelivery'
  BY <1>4 DEF Take
<1>5. CASE Dismiss \/ CheckBlocks \/ CheckPasses
  BY <1>5 DEF Dismiss, CheckBlocks, CheckPasses
<1>6. CASE InsertBlocked \/ InsertPending
  BY StatusFacts, <1>6 DEF InsertBlocked, InsertPending
<1>7. CASE PlaceAccepted \/ PlaceRejected \/ PlaceUnauthorized \/ PlaceFailed
  BY <1>7 DEF PlaceAccepted, PlaceRejected, PlaceUnauthorized, PlaceFailed
<1>8. CASE Record \/ RecordRefusal \/ Report
  BY <1>8 DEF Record, RecordRefusal, Report
<1>9. CASE Ack \/ AckAnswerLost \/ FailAndGiveUp
  BY <1>9 DEF Ack, AckAnswerLost, FailAndGiveUp
<1>10. ASSUME NEW d \in Commands, NEW s \in ObservedStatuses, ListenerWrites(d, s) PROVE FirstDelivery'
  BY <1>10 DEF ListenerWrites
<1>11. ASSUME NEW d \in Commands, Submit(d) \/ \E a \in AccountStates : ChangeAccount(d, a)
       PROVE  FirstDelivery'
  BY <1>11 DEF Submit, ChangeAccount
<1>12. ASSUME NEW d \in Commands, NEW b \in Stages, BrokerMove(d, b) PROVE FirstDelivery'
  BY <1>12 DEF BrokerMove
<1>13. CASE UNCHANGED vars
  BY <1>13 DEF vars
<1> QED
  BY <1>1, <1>2, <1>3, <1>4, <1>5, <1>6, <1>7, <1>8, <1>9, <1>10, <1>11, <1>12, <1>13
     DEF Next, TickStep, SweepStep, HandlerStep, TakeStep, ListenerStep, EnvironmentStep

LEMMA InitEstablishes == Init => WorkerInv
<1> SUFFICES ASSUME Init PROVE WorkerInv
  OBVIOUS
<1>1. TypeOK
  <2>1. /\ account \in [Commands -> AccountStates]
        /\ unread \subseteq Commands
    BY WorkerAssumption DEF Init
  <2>2. /\ status \in [Commands -> Statuses]
        /\ broker \in [Commands -> Stages]
        /\ pc \in Steps
    BY DEF Init, Statuses, Stages, Steps
  <2>3. /\ queue \in [Commands -> {"unsent", "waiting", "settled"}]
        /\ deliveries \in [Commands -> 0 .. 2]
    BY DEF Init
  <2> QED
    BY <2>1, <2>2, <2>3 DEF Init, TypeOK
<1>4. HandTyped
  BY DEF Init, HandTyped, HandlerSteps
<1>2. RowsVetted /\ OnlyVettedOrders /\ RecordedFactsHold
  BY DEF Init, RowsVetted, HasOrderRow, OnlyVettedOrders, RecordedFactsHold
<1>3. SettledLeavesATrace /\ HandConsistent /\ FirstDelivery
  BY DEF Init, SettledLeavesATrace, HandConsistent, FirstDelivery, HandlerSteps
<1> QED
  BY <1>1, <1>2, <1>3, <1>4 DEF WorkerInv

\* WorkerInv is inductive.
THEOREM WorkerInvariant == Spec => []WorkerInv
<1>1. WorkerInv /\ [Next]_vars => WorkerInv'
  BY TypePreserved, SafetyPreserved, FirstDeliveryPreserved DEF WorkerInv, SafetyInv
<1> QED
  BY <1>1, InitEstablishes, PTL DEF Spec

\* For every set of commands and every bound, the variables keep their types.
THEOREM TypeCorrect == Spec => []TypeOK
<1>1. WorkerInv => TypeOK
  BY DEF WorkerInv
<1> QED
  BY <1>1, WorkerInvariant, PTL

\* Only a command that passed every check has an order, and a blocked row never
\* gets one.
THEOREM OnlyVettedOrdersExist == Spec => []OnlyVettedOrders
<1>1. WorkerInv => OnlyVettedOrders
  BY DEF WorkerInv
<1> QED
  BY <1>1, WorkerInvariant, PTL

\* provider_order_id and filled_at are true of the broker, and a refusal recorded on the
\* first delivery of a command hides no order.
THEOREM RecordedFactsAreTrue == Spec => []RecordedFactsHold
<1>1. WorkerInv => RecordedFactsHold
  BY DEF WorkerInv
<1> QED
  BY <1>1, WorkerInvariant, PTL

\* No settled command vanishes.
THEOREM SettledCommandsLeaveATrace == Spec => []SettledLeavesATrace
<1>1. WorkerInv => SettledLeavesATrace
  BY DEF WorkerInv
<1> QED
  BY <1>1, WorkerInvariant, PTL

-------------------------------------------------------------------------------
(* The write-ahead record *)

WrittenAhead ==
  \A d \in Commands :
    /\ broker[d] = "none" /\ broker'[d] # "none" => status[d] = "pending"
    /\ status[d] # "absent" => status'[d] # "absent"

\* Only place_order creates an order, and the row is pending until it has.
LEMMA OrdersAreCreatedFromPendingRows ==
  ASSUME WorkerInv, [Next]_vars, NEW d \in Commands, broker[d] = "none", broker'[d] # "none"
  PROVE  status[d] = "pending"
<1> USE DEF WorkerInv, TypeOK, HandTyped, HandConsistent, HandlerSteps, SetBroker, Executable, Alive
<1>1. CASE PlaceAccepted \/ PlaceFailed
  BY <1>1 DEF PlaceAccepted, PlaceFailed
<1>2. ~SweepStep
  BY DEF SweepStep, Scan, SkipOrder, CancelAccepted, CancelRefused, CancelFailed, MarkPendingCancel,
         AnnounceCancel, EndSweep, SweepRaises
<1>3. ~EnvironmentStep /\ ~ListenerStep /\ ~Crash /\ vars' # vars
  BY DEF EnvironmentStep, Submit, BrokerMove, ToggleKillSwitch, ChangeAccount, ListenerStep, ListenerWrites,
         ListenerFails, Crash, vars
<1>4. ~StartTick /\ ~EnsureListener /\ ~TakeStep /\ ~EndTick
  BY DEF StartTick, EnsureListener, TakeStep, Take, EndTick
<1>5. CASE HandlerStep
  BY <1>1, <1>5 DEF HandlerStep, Dismiss, CheckBlocks, CheckPasses, InsertBlocked, InsertPending,
     PlaceRejected, PlaceUnauthorized, Record, RecordRefusal, Report, Ack, HandlerRaises, AckAnswerLost,
     FailAndRetry, FailAndGiveUp
<1> QED
  BY <1>2, <1>3, <1>4, <1>5 DEF Next, TickStep

\* Every status that is written is one of a row.
LEMMA RowsStay ==
  ASSUME WorkerInv, [Next]_vars, NEW d \in Commands, status[d] # "absent"
  PROVE  status'[d] # "absent"
<1> USE StatusFacts DEF WorkerInv, TypeOK, HandTyped, HandlerSteps, SetStatus, rowVars
<1>1. CASE SweepStep
  BY <1>1 DEF SweepStep, Scan, SkipOrder, CancelAccepted, CancelRefused, CancelFailed, MarkPendingCancel,
         AnnounceCancel, EndSweep, SweepRaises
<1>2. CASE EnvironmentStep \/ ListenerStep \/ Crash \/ vars' = vars
  BY <1>2 DEF EnvironmentStep, Submit, BrokerMove, ToggleKillSwitch, ChangeAccount, ListenerStep,
         ListenerWrites, ListenerFails, Crash, vars
<1>3. CASE StartTick \/ EnsureListener \/ TakeStep \/ EndTick
  BY <1>3 DEF StartTick, EnsureListener, TakeStep, Take, EndTick
<1>4. CASE InsertBlocked \/ InsertPending \/ Record \/ RecordRefusal
  BY <1>4 DEF InsertBlocked, InsertPending, Record, RecordRefusal
<1>5. CASE HandlerStep
  BY <1>4, <1>5 DEF HandlerStep, Dismiss, CheckBlocks, CheckPasses, PlaceAccepted, PlaceRejected,
     PlaceUnauthorized, PlaceFailed, Report, Ack, HandlerRaises, AckAnswerLost, FailAndRetry,
     FailAndGiveUp
<1> QED
  BY <1>1, <1>2, <1>3, <1>5 DEF Next, TickStep

\* An order is created only while its row is pending, and rows never disappear.
THEOREM RowsAreWrittenAhead == Spec => WriteAhead
<1>1. WorkerInv /\ [Next]_vars => [WrittenAhead]_vars
  BY OrdersAreCreatedFromPendingRows, RowsStay DEF WrittenAhead
<1>2. Spec => [][WrittenAhead]_vars
  BY <1>1, WorkerInvariant, PTL DEF Spec
<1> QED
  BY <1>2 DEF WriteAhead, WrittenAhead

-------------------------------------------------------------------------------
(* The listener *)

ListenerSteps == {"off", "dial", "receive", "apply", "scan", "ask", "save"}

\* What Alpaca reports of an order has happened to it.
Holds(n) ==
  \/ broker[n.order] # "none" /\ n.as \in LiveStatuses
  \/ broker[n.order] = "filled" /\ n.as \in FilledStatuses
  \/ broker[n.order] \in {"canceled", "rejected"} /\ n.as = broker[n.order]

TrackingTypeOK ==
  /\ link \in {"up", "down"}
  /\ wire \in Seq(News)
  /\ lpc \in ListenerSteps
  /\ firstConnect \in BOOLEAN
  /\ seen \in News \cup {NoNews}
  /\ listed \subseteq Listing
  /\ missed \subseteq Commands
  /\ drops \in Nat

WireHolds == \A i \in DOMAIN wire : Holds(wire[i])

\* The listener writes into a row what has happened, and only the stream says "fill".
SeenHolds ==
  /\ lpc \in {"apply", "save"} =>
       seen \in News /\ Holds(seen) /\ status[seen.order] # "absent"
  /\ lpc = "save" => seen.as # "fill"
  /\ lpc \notin {"apply", "save"} => seen = NoNews

\* The rows that are reconciled have an order.
ListedExist ==
  \A row \in listed : broker[row.order] # "none" /\ status[row.order] # "absent"

ListenerInv ==
  TrackingTypeOK /\ WireHolds /\ SeenHolds /\ ListedExist /\ EveryFillIsTracked

TrackingInv == WorkerInv /\ ListenerInv

-------------------------------------------------------------------------------
(* What has happened to an order stays *)

\* A step changes the stage of one order at most, which comes into being or has
\* not ended.
LEMMA OneStageMoves ==
  ASSUME WorkerInv, [Next]_vars
  PROVE  \/ broker' = broker
         \/ \E d \in Commands, b \in Stages \ {"none"} :
              broker[d] \notin Ended /\ broker' = [broker EXCEPT ![d] = b]
<1> USE DEF WorkerInv, TypeOK, HandTyped, HandlerSteps, SetBroker, Executable, Alive, Stages, Ended
<1>1. CASE SweepStep
  BY <1>1 DEF SweepStep, Scan, SkipOrder, CancelAccepted, CancelRefused, CancelFailed, MarkPendingCancel,
         AnnounceCancel, EndSweep, SweepRaises
<1>2. CASE EnvironmentStep \/ ListenerStep \/ Crash \/ vars' = vars
  BY <1>2 DEF EnvironmentStep, Submit, BrokerMove, ToggleKillSwitch, ChangeAccount, ListenerStep,
         ListenerWrites, ListenerFails, Crash, vars
<1>3. CASE StartTick \/ EnsureListener \/ TakeStep \/ EndTick
  BY <1>3 DEF StartTick, EnsureListener, TakeStep, Take, EndTick
<1>4. CASE PlaceAccepted \/ PlaceFailed
  BY <1>4 DEF PlaceAccepted, PlaceFailed
<1>5. CASE HandlerStep
  BY <1>4, <1>5 DEF HandlerStep, Dismiss, CheckBlocks, CheckPasses, InsertBlocked, InsertPending,
     PlaceRejected, PlaceUnauthorized, Record, RecordRefusal, Report, Ack, HandlerRaises, AckAnswerLost,
     FailAndRetry, FailAndGiveUp
<1> QED
  BY <1>1, <1>2, <1>3, <1>5 DEF Next, TickStep

\* An order that exists goes on existing, and its end is final.
LEMMA StagesStay ==
  ASSUME WorkerInv, [Next]_vars, NEW d \in Commands
  PROVE  /\ broker[d] # "none" => broker'[d] # "none"
         /\ broker[d] \in Ended => broker'[d] = broker[d]
<1>1. broker \in [Commands -> Stages]
  BY DEF WorkerInv, TypeOK
<1> QED
  BY <1>1, OneStageMoves

LEMMA OneOrderMoves ==
  ASSUME WorkerInv, [Next]_vars, NEW c \in Commands, NEW d \in Commands,
         broker'[c] # broker[c], broker'[d] # broker[d]
  PROVE  c = d
<1>1. broker \in [Commands -> Stages]
  BY DEF WorkerInv, TypeOK
<1> QED
  BY <1>1, OneStageMoves

LEMMA HoldsStays ==
  ASSUME WorkerInv, [Next]_vars, NEW n \in News, Holds(n)
  PROVE  Holds(n)'
<1>1. n.order \in Commands
  BY DEF News
<1> QED
  BY <1>1, StagesStay DEF Holds, Ended

\* The event sent for a change of stage tells it.
LEMMA EventsHold ==
  ASSUME WorkerInv, TypeOK', [Next]_vars, NEW d \in Commands, broker'[d] # broker[d],
         NEW n, n = [order |-> d, as |-> EventOf(broker[d], broker'[d])]
  PROVE  n \in News /\ Holds(n)' /\ (broker'[d] = "filled" => n.as = "fill")
<1>1. broker'[d] \in Stages \ {"none"}
  <2>1. broker[d] \in Stages /\ broker'[d] \in Stages
    BY DEF WorkerInv, TypeOK
  <2> QED
    BY <2>1, StagesStay
<1>2. /\ n.as \in ObservedStatuses
      /\ broker'[d] \notin Ended => n.as \in LiveStatuses
      /\ broker'[d] = "filled" => n.as = "fill"
      /\ broker'[d] \in {"canceled", "rejected"} => n.as = broker'[d]
  BY <1>1 DEF EventOf, Stages, Ended, ObservedStatuses, LiveStatuses, FilledStatuses
<1>3. n.order = d /\ n = [order |-> n.order, as |-> n.as]
  OBVIOUS
<1>4. n \in News
  BY <1>2, <1>3 DEF News
<1>5. Holds(n)'
  BY <1>1, <1>2, <1>3, StatusFacts DEF Holds, Stages, Ended
<1> QED
  BY <1>2, <1>4, <1>5

-------------------------------------------------------------------------------
(* Every step of the two threads is one of OrderWorker *)

\* What the listener writes is one of the writes OrderWorker allows it.
LEMMA SeenIsAllowed ==
  ASSUME TrackingInv, lpc \in {"apply", "save"}, WriteSeen
  PROVE  ListenerStep
<1>1. seen \in News /\ Holds(seen) /\ status[seen.order] # "absent"
  BY DEF TrackingInv, ListenerInv, SeenHolds
<1>2. seen.order \in Commands /\ seen.as \in ObservedStatuses
  BY <1>1 DEF News
<1>3. ListenerWrites(seen.order, seen.as)
  BY <1>1, TrackingAssumption DEF ListenerWrites, Holds, WriteSeen
<1> QED
  BY <1>2, <1>3 DEF ListenerStep

LEMMA StepsOfTheWorker ==
  ASSUME TrackingInv, [TrackingNext]_trackingVars
  PROVE  [Next]_vars
<1>1. CASE WorkerMoves
  BY <1>1 DEF WorkerMoves, Next, TickStep
<1>2. CASE StartListener \/ ProcessDies
  BY <1>2 DEF StartListener, ProcessDies, Next, TickStep
<1>3. CASE Drop \/ Connect \/ NoticeDrop \/ Receive \/ ListRows \/ EndReconciliation
  BY <1>3 DEF Drop, Connect, NoticeDrop, Receive, ListRows, EndReconciliation
<1>4. CASE Apply \/ Save
  BY <1>4, SeenIsAllowed DEF Apply, Save, Next
<1>5. CASE ApplyRaises \/ ReconciliationRaises
  BY <1>5 DEF ApplyRaises, ReconciliationRaises, Next, ListenerStep
<1>6. CASE \E row \in listed : Ask(row) \/ AskFails(row)
  BY <1>6 DEF Ask, AskFails, Next, ListenerStep
<1>7. CASE UNCHANGED trackingVars
  BY <1>7 DEF trackingVars
<1> QED
  BY <1>1, <1>2, <1>3, <1>4, <1>5, <1>6, <1>7 DEF TrackingNext, ListenerThread


-------------------------------------------------------------------------------
(* The listener's own steps *)

\* What is in flight stays true, whoever moves.
LEMMA ReportsStay ==
  ASSUME TrackingInv, [Next]_vars
  PROVE  /\ \A n \in News : Holds(n) => Holds(n)'
         /\ \A d \in Commands : status[d] # "absent" => status'[d] # "absent"
         /\ \A d \in Commands : broker[d] # "none" => broker'[d] # "none"
<1>1. \A n \in News : Holds(n) => Holds(n)'
  BY HoldsStays DEF TrackingInv
<1>2. \A d \in Commands : status[d] # "absent" => status'[d] # "absent"
  BY RowsStay DEF TrackingInv
<1>3. \A d \in Commands : broker[d] # "none" => broker'[d] # "none"
  BY StagesStay DEF TrackingInv
<1> QED
  BY <1>1, <1>2, <1>3

\* filled_at is written by the listener alone.
LEMMA OnlyTheListenerDates ==
  ASSUME StartTick \/ SweepStep \/ TakeStep \/ EndTick \/ HandlerStep \/ EnvironmentStep
  PROVE  filledAt' = filledAt
<1> USE DEF rowVars
<1>1. CASE SweepStep
  BY <1>1 DEF SweepStep, Scan, SkipOrder, CancelAccepted, CancelRefused, CancelFailed, MarkPendingCancel,
         AnnounceCancel, EndSweep, SweepRaises
<1>2. CASE EnvironmentStep
  BY <1>2 DEF EnvironmentStep, Submit, BrokerMove, ToggleKillSwitch, ChangeAccount
<1>3. CASE StartTick \/ TakeStep \/ EndTick
  BY <1>3 DEF StartTick, TakeStep, Take, EndTick
<1>4. CASE HandlerStep
  BY <1>4 DEF HandlerStep, Dismiss, CheckBlocks, CheckPasses, InsertBlocked, InsertPending,
     PlaceAccepted, PlaceRejected, PlaceUnauthorized, PlaceFailed, Record, RecordRefusal, Report, Ack,
     HandlerRaises, AckAnswerLost, FailAndRetry, FailAndGiveUp
<1> QED
  BY <1>1, <1>2, <1>3, <1>4

\* A change of stage is announced, or recorded as missed.
LEMMA EmissionPreserves ==
  ASSUME TrackingInv, WorkerInv', [Next]_vars, Emission, filledAt \subseteq filledAt',
         UNCHANGED <<link, lpc, firstConnect, seen, listed, drops>>
  PROVE  ListenerInv'
<1> USE DEF TrackingInv
<1>1. TrackingTypeOK' /\ WireHolds'
  <2>1. CASE broker' = broker /\ UNCHANGED <<wire, missed>>
    BY <2>1, ReportsStay DEF ListenerInv, TrackingTypeOK, WireHolds
  <2>2. ASSUME NEW d \in Commands, broker'[d] # broker[d], UNCHANGED wire,
               missed' = IF broker'[d] = "filled" THEN missed \cup {d} ELSE missed
        PROVE  TrackingTypeOK' /\ WireHolds'
    BY <2>2, ReportsStay DEF ListenerInv, TrackingTypeOK, WireHolds
  <2>3. ASSUME NEW d \in Commands, broker'[d] # broker[d], UNCHANGED missed,
               wire' = Append(wire, [order |-> d, as |-> EventOf(broker[d], broker'[d])])
        PROVE  TrackingTypeOK' /\ WireHolds'
    <3> PICK n : n = [order |-> d, as |-> EventOf(broker[d], broker'[d])]
      OBVIOUS
    <3>1. n \in News /\ Holds(n)'
      BY <2>3, EventsHold DEF WorkerInv
    <3>2. wire \in Seq(News) /\ wire' = Append(wire, n)
      BY <2>3 DEF ListenerInv, TrackingTypeOK
    <3>3. /\ wire' \in Seq(News) /\ DOMAIN wire' = 1 .. Len(wire) + 1
          /\ \A i \in 1 .. Len(wire) : wire'[i] = wire[i]
          /\ wire'[Len(wire) + 1] = n
      BY <3>1, <3>2
    <3>4. ASSUME NEW i \in DOMAIN wire' PROVE Holds(wire[i])'
      <4>1. CASE i = Len(wire) + 1
        BY <3>1, <3>3, <4>1 DEF Holds
      <4>2. CASE i \in DOMAIN wire
        <5> PICK m : m = wire[i]
          OBVIOUS
        <5>1. wire'[i] = m /\ m \in News /\ Holds(m)
          BY <3>2, <3>3, <4>2 DEF ListenerInv, WireHolds
        <5>2. Holds(m)'
          BY <5>1, ReportsStay
        <5> QED
          BY <5>1, <5>2 DEF Holds
      <4> QED
        BY <3>2, <3>3, <4>1, <4>2
    <3> QED
      BY <2>3, <3>3, <3>4 DEF ListenerInv, TrackingTypeOK, WireHolds
  <2> QED
    BY <2>1, <2>2, <2>3 DEF Emission
<1>2. SeenHolds'
  BY ReportsStay DEF ListenerInv, SeenHolds, News
<1>3. ListedExist'
  BY ReportsStay DEF ListenerInv, TrackingTypeOK, ListedExist, Listing
<1>4. EveryFillIsTracked'
  <2> SUFFICES ASSUME NEW d \in Commands, broker'[d] = "filled"
               PROVE  d \in filledAt' \cup missed' \cup FillsOf(wire)' \cup FillSeen'
    BY DEF EveryFillIsTracked
  <2>1. FillSeen' = FillSeen
    BY DEF FillSeen
  <2>2. missed \subseteq missed' /\ FillsOf(wire) \subseteq FillsOf(wire)'
    <3>1. wire \in Seq(News)
      BY DEF ListenerInv, TrackingTypeOK
    <3>2. \A n : FillsOf(wire) \subseteq FillsOf(Append(wire, n))
      BY <3>1 DEF FillsOf
    <3>3. wire' = wire \/ \E n : wire' = Append(wire, n)
      BY DEF Emission
    <3>4. FillsOf(wire) \subseteq FillsOf(wire)'
      BY <3>2, <3>3 DEF FillsOf
    <3> QED
      BY <3>4 DEF Emission
  <2>3. CASE broker[d] = "filled"
    BY <2>1, <2>2, <2>3 DEF ListenerInv, EveryFillIsTracked
  <2>4. CASE broker[d] # "filled"
    <3> PICK n : n = [order |-> d, as |-> EventOf(broker[d], broker'[d])]
      OBVIOUS
    <3>1. n.order = d /\ n.as = "fill"
      BY <2>4, EventsHold DEF WorkerInv
    <3>2. wire' = Append(wire, n) \/ missed' = missed \cup {d}
      BY <2>4, OneOrderMoves DEF Emission
    <3>3. wire \in Seq(News)
      BY DEF ListenerInv, TrackingTypeOK
    <3>4. d \in FillsOf(Append(wire, n))
      BY <3>1, <3>3 DEF FillsOf
    <3> QED
      BY <3>2, <3>4 DEF FillsOf
  <2> QED
    BY <2>3, <2>4
<1> QED
  BY <1>1, <1>2, <1>3, <1>4 DEF ListenerInv

LEMMA FillsAreCommands ==
  ASSUME TrackingTypeOK
  PROVE  /\ \A events \in Seq(News) : FillsOf(events) \subseteq Commands
         /\ FillSeen \subseteq Commands
<1>1. ASSUME NEW events \in Seq(News) PROVE FillsOf(events) \subseteq Commands
  <2>1. \A j \in DOMAIN events : events[j] \in News
    OBVIOUS
  <2>2. \A n \in News : n.order \in Commands
    BY DEF News
  <2> QED
    BY <2>1, <2>2 DEF FillsOf
<1>2. NoNews.as # "fill"
  BY WorkerAssumption, StatusFacts DEF NoNews, Statuses, ObservedStatuses
<1>3. FillSeen \subseteq Commands
  BY <1>2 DEF TrackingTypeOK, FillSeen, News
<1> QED
  BY <1>1, <1>3

\* The process ends: what was in flight is missed.
LEMMA ProcessDiesPreserves ==
  ASSUME TrackingInv, ProcessDies
  PROVE  ListenerInv'
<1>1. TrackingTypeOK'
  BY FillsAreCommands DEF TrackingInv, ListenerInv, TrackingTypeOK, ProcessDies, ListenerSteps
<1>2. WireHolds' /\ SeenHolds' /\ ListedExist'
  BY DEF ProcessDies, WireHolds, SeenHolds, ListedExist
<1>3. EveryFillIsTracked'
  BY DEF TrackingInv, ListenerInv, EveryFillIsTracked, ProcessDies, Crash, rowVars
<1> QED
  BY <1>1, <1>2, <1>3 DEF ListenerInv

LEMMA DropPreserves ==
  ASSUME TrackingInv, Drop
  PROVE  ListenerInv'
<1> PICK n \in 0 .. Len(wire) :
      /\ wire' = SubSeq(wire, 1, n)
      /\ missed' = missed \cup FillsOf(SubSeq(wire, n + 1, Len(wire)))
  BY DEF Drop
<1>1. wire \in Seq(News)
  BY DEF TrackingInv, ListenerInv, TrackingTypeOK
<1>2. /\ wire' \in Seq(News) /\ DOMAIN wire' = 1 .. n
      /\ \A i \in 1 .. n : wire'[i] = wire[i]
  BY <1>1
<1>3. FillsOf(wire) \subseteq FillsOf(wire)' \cup FillsOf(SubSeq(wire, n + 1, Len(wire)))
  <2> SUFFICES ASSUME NEW j \in DOMAIN wire, wire[j].as = "fill", j \notin 1 .. n
               PROVE  wire[j].order \in FillsOf(SubSeq(wire, n + 1, Len(wire)))
    BY <1>2 DEF FillsOf
  <2> DEFINE lost == SubSeq(wire, n + 1, Len(wire))
  <2>1. j - n \in DOMAIN lost /\ lost[j - n] = wire[j]
    BY <1>1
  <2> HIDE DEF lost
  <2>2. wire[j].order \in FillsOf(lost)
    BY <2>1 DEF FillsOf
  <2> QED
    BY <2>2 DEF lost
<1>4. FillsOf(SubSeq(wire, n + 1, Len(wire))) \subseteq Commands
  <2>1. SubSeq(wire, n + 1, Len(wire)) \in Seq(News)
    BY <1>1
  <2> QED
    BY <2>1, FillsAreCommands DEF TrackingInv, ListenerInv
<1>5. TrackingTypeOK'
  BY <1>2, <1>4 DEF TrackingInv, ListenerInv, TrackingTypeOK, Drop
<1>6. WireHolds'
  BY <1>1, <1>2 DEF TrackingInv, ListenerInv, WireHolds, Holds, Drop, vars
<1>7. SeenHolds' /\ ListedExist'
  BY DEF TrackingInv, ListenerInv, SeenHolds, ListedExist, Holds, Drop, vars, rowVars
<1>8. EveryFillIsTracked'
  BY <1>3 DEF TrackingInv, ListenerInv, EveryFillIsTracked, FillSeen, Drop, vars, rowVars
<1> QED
  BY <1>5, <1>6, <1>7, <1>8 DEF ListenerInv

\* Steps that move the listener and touch no report.
LEMMA MovingPreserves ==
  ASSUME TrackingInv, StartListener \/ Connect \/ NoticeDrop \/ EndReconciliation
  PROVE  ListenerInv'
<1> USE DEF TrackingInv, ListenerInv, StartListener, EnsureListener, Connect, NoticeDrop,
            EndReconciliation, ListenerGoto, vars, rowVars
<1>1. TrackingTypeOK' /\ WireHolds'
  BY DEF TrackingTypeOK, ListenerSteps, WireHolds, Holds
<1>2. SeenHolds'
  BY DEF SeenHolds, Holds
<1>3. ListedExist' /\ EveryFillIsTracked'
  BY DEF ListedExist, EveryFillIsTracked, FillSeen
<1> QED
  BY <1>1, <1>2, <1>3

\* The row of an order exists, so that no event of the wire is ignored.
LEMMA ReceivePreserves ==
  ASSUME TrackingInv, Receive
  PROVE  ListenerInv'
<1> DEFINE n == Head(wire)
<1>1. wire \in Seq(News) /\ wire # <<>> /\ wire' = Tail(wire)
  BY DEF TrackingInv, ListenerInv, TrackingTypeOK, Receive
<1>2. n \in News /\ n = wire[1] /\ 1 \in DOMAIN wire
  BY <1>1
<1>3. Holds(n) /\ status[n.order] # "absent"
  <2>1. Holds(n)
    BY <1>2 DEF TrackingInv, ListenerInv, WireHolds
  <2>2. broker[n.order] # "none" /\ n.order \in Commands
    BY <1>2, <2>1 DEF Holds, News
  <2> QED
    BY <2>1, <2>2 DEF TrackingInv, WorkerInv, OnlyVettedOrders
<1>4. seen' = n /\ lpc' = "apply" /\ lpc = "receive" /\ UNCHANGED <<vars, link, firstConnect, listed, missed, drops>>
  BY <1>3 DEF Receive, ListenerGoto
<1>5. /\ wire' \in Seq(News) /\ DOMAIN wire' = 1 .. Len(wire) - 1
      /\ \A i \in 1 .. Len(wire) - 1 : i + 1 \in DOMAIN wire /\ wire'[i] = wire[i + 1]
  BY <1>1
<1> HIDE DEF n
<1>6. TrackingTypeOK'
  BY <1>2, <1>4, <1>5 DEF TrackingInv, ListenerInv, TrackingTypeOK, ListenerSteps
<1>7. WireHolds'
  BY <1>4, <1>5 DEF TrackingInv, ListenerInv, WireHolds, Holds, vars
<1>8. SeenHolds' /\ ListedExist'
  BY <1>2, <1>3, <1>4 DEF TrackingInv, ListenerInv, SeenHolds, ListedExist, Holds, vars, rowVars
<1>9. FillsOf(wire) \subseteq FillsOf(wire)' \cup FillSeen'
  <2> SUFFICES ASSUME NEW j \in DOMAIN wire, wire[j].as = "fill"
               PROVE  wire[j].order \in FillsOf(wire)' \cup FillSeen'
    BY DEF FillsOf
  <2>1. CASE j = 1
    BY <1>2, <1>4, <2>1 DEF FillSeen
  <2>2. CASE j # 1
    <3>1. j - 1 \in DOMAIN wire' /\ wire'[j - 1] = wire[j]
      BY <1>1, <1>5, <2>2
    <3> QED
      BY <3>1 DEF FillsOf
  <2> QED
    BY <2>1, <2>2
<1>10. FillSeen = {}
  BY <1>4, WorkerAssumption, StatusFacts
     DEF TrackingInv, ListenerInv, SeenHolds, FillSeen, NoNews, Statuses, ObservedStatuses
<1>11. EveryFillIsTracked'
  BY <1>4, <1>9, <1>10 DEF TrackingInv, ListenerInv, EveryFillIsTracked, vars, rowVars
<1> QED
  BY <1>6, <1>7, <1>8, <1>11 DEF ListenerInv

\* Nothing is seen any more, and what was is dated, missed, or came from REST.
LEMMA SettledPreserves ==
  ASSUME TrackingInv, [Next]_vars, Apply \/ ApplyRaises \/ Save \/ ReconciliationRaises
  PROVE  ListenerInv'
<1> USE DEF TrackingInv, ListenerInv, Apply, ApplyRaises, Save, ReconciliationRaises, ListenerGoto
<1>1. seen' = NoNews /\ lpc' \in {"receive", "ask"} /\ listed' \subseteq listed
      /\ missed \subseteq missed' /\ missed' \subseteq missed \cup FillSeen
      /\ UNCHANGED <<link, wire, firstConnect, drops>>
  BY DEF WriteSeen
<1>2. FillSeen \subseteq Commands
  BY FillsAreCommands
<1>3. TrackingTypeOK'
  BY <1>1, <1>2 DEF TrackingTypeOK, ListenerSteps
<1>4. UNCHANGED broker
  BY DEF WriteSeen, ListenerFails
<1>5. WireHolds'
  BY <1>1, <1>4 DEF WireHolds, Holds
<1>6. SeenHolds'
  BY <1>1 DEF SeenHolds
<1>7. ListedExist'
  BY <1>1, ReportsStay DEF ListedExist, TrackingTypeOK, Listing
<1>8. FillSeen \subseteq filledAt' \cup missed' /\ filledAt \subseteq filledAt'
  BY WorkerAssumption, StatusFacts
     DEF FillSeen, SeenHolds, WriteSeen, ListenerFails, rowVars, NoNews, Statuses, ObservedStatuses
<1>9. EveryFillIsTracked'
  BY <1>1, <1>4, <1>8 DEF EveryFillIsTracked
<1> QED
  BY <1>3, <1>5, <1>6, <1>7, <1>9

\* The reconciliation lists rows that have an order, and reports what REST says.
LEMMA ReconcilePreserves ==
  ASSUME TrackingInv, [Next]_vars, ListRows \/ \E row \in listed : Ask(row) \/ AskFails(row)
  PROVE  ListenerInv'
<1> USE DEF TrackingInv, ListenerInv, ListenerGoto
<1>1. FillSeen = {} /\ UNCHANGED <<broker, status, filledAt, link, wire, firstConnect, missed, drops>>
  BY WorkerAssumption, StatusFacts DEF ListRows, Ask, AskFails, ListenerFails, vars, rowVars,
     SeenHolds, FillSeen, NoNews, Statuses, ObservedStatuses
<1>2. WireHolds'
  BY <1>1 DEF WireHolds, Holds
<1>3. EveryFillIsTracked'
  BY <1>1 DEF EveryFillIsTracked
<1>4. CASE ListRows
  <2>1. \A d \in Sweepable : d \in Commands /\ broker[d] # "none" /\ status[d] \in Statuses \ {"absent"}
    BY DEF Sweepable, NonTerminalStatuses, WorkerInv, TypeOK, RecordedFactsHold
  <2>2. TrackingTypeOK' /\ ListedExist'
    BY <1>1, <1>4, <2>1 DEF ListRows, TrackingTypeOK, ListenerSteps, ListedExist, Listing
  <2>3. SeenHolds'
    BY <1>4 DEF ListRows, SeenHolds
  <2> QED
    BY <1>2, <1>3, <2>2, <2>3
<1>5. ASSUME NEW row \in listed, Ask(row) \/ AskFails(row) PROVE ListenerInv'
  <2>1. row.order \in Commands /\ broker[row.order] \in Stages \ {"none"} /\ status[row.order] # "absent"
    BY DEF TrackingTypeOK, Listing, ListedExist, WorkerInv, TypeOK
  <2>2. listed' = listed \ {row}
    BY <1>5 DEF Ask, AskFails
  <2>3. CASE UNCHANGED <<lpc, seen>>
    BY <1>1, <1>2, <1>3, <2>2, <2>3 DEF TrackingTypeOK, SeenHolds, ListedExist, Holds
  <2>4. CASE seen' = [order |-> row.order, as |-> RestStatus[broker[row.order]]] /\ lpc' = "save"
    <3>1. /\ RestStatus[broker[row.order]] \in ObservedStatuses \ {"fill"}
          /\ broker[row.order] = "filled" => RestStatus[broker[row.order]] \in FilledStatuses
          /\ broker[row.order] \in {"canceled", "rejected"} =>
               RestStatus[broker[row.order]] = broker[row.order]
          /\ broker[row.order] \notin Ended => RestStatus[broker[row.order]] \in LiveStatuses
      BY <2>1 DEF RestStatus, Stages, Ended, ObservedStatuses, LiveStatuses, FilledStatuses
    <3>2. seen' \in News /\ Holds(seen)' /\ seen'.as # "fill" /\ seen'.order = row.order
      BY <1>1, <2>1, <2>4, <3>1 DEF News, Holds, Ended
    <3>3. TrackingTypeOK' /\ SeenHolds' /\ ListedExist'
      BY <1>1, <2>1, <2>2, <2>4, <3>2 DEF TrackingTypeOK, ListenerSteps, SeenHolds, ListedExist
    <3> QED
      BY <1>2, <1>3, <3>3
  <2> QED
    BY <1>5, <2>3, <2>4 DEF Ask, AskFails
<1> QED
  BY <1>4, <1>5

-------------------------------------------------------------------------------
(* The refinement *)

LEMMA TrackingStep ==
  ASSUME TrackingInv, [TrackingNext]_trackingVars
  PROVE  TrackingInv'
<1>1. [Next]_vars
  BY StepsOfTheWorker
<1>2. WorkerInv'
  BY <1>1, TypePreserved, SafetyPreserved, FirstDeliveryPreserved DEF TrackingInv, WorkerInv, SafetyInv
<1>3. CASE WorkerMoves
  <2>1. filledAt \subseteq filledAt'
    BY <1>3, OnlyTheListenerDates DEF WorkerMoves
  <2> QED
    BY <1>1, <1>2, <1>3, <2>1, EmissionPreserves DEF WorkerMoves, TrackingInv
<1>4. CASE UNCHANGED trackingVars
  BY <1>2, <1>4 DEF trackingVars, vars, rowVars, listenerVars, TrackingInv, ListenerInv, TrackingTypeOK,
     WireHolds, SeenHolds, ListedExist, EveryFillIsTracked, Holds, FillSeen
<1> QED
  BY <1>1, <1>2, <1>3, <1>4, ProcessDiesPreserves, DropPreserves, MovingPreserves, ReceivePreserves,
     SettledPreserves, ReconcilePreserves DEF TrackingNext, ListenerThread, TrackingInv

LEMMA TrackingInvariant == TrackingSpec => []TrackingInv
<1>1. TrackingInit => TrackingInv
  <2> SUFFICES ASSUME TrackingInit PROVE TrackingInv
    OBVIOUS
  <2>1. WorkerInv
    BY InitEstablishes DEF TrackingInit
  <2>2. ListenerInv
    BY DEF TrackingInit, Init, ListenerInv, TrackingTypeOK, WireHolds, SeenHolds, ListedExist,
       EveryFillIsTracked, ListenerSteps
  <2> QED
    BY <2>1, <2>2 DEF TrackingInv
<1> QED
  BY <1>1, TrackingStep, PTL DEF TrackingSpec

\* The two threads together do nothing that OrderWorker does not: every step of the
\* listener is a write of something Alpaca has reported, or none at all.
THEOREM ListenerImplementsWorker == TrackingSpec => ImplementsWorker
<1>1. TrackingInit => Init
  BY DEF TrackingInit
<1>2. TrackingInv /\ [TrackingNext]_trackingVars => [Next]_vars
  BY StepsOfTheWorker
<1> QED
  BY <1>1, <1>2, TrackingInvariant, PTL DEF TrackingSpec, ImplementsWorker, Spec

\* No fill slips through between the stream, the reconciliation and the rows.
THEOREM FillsAreTracked == TrackingSpec => []EveryFillIsTracked
<1>1. TrackingInv => EveryFillIsTracked
  BY DEF TrackingInv, ListenerInv
<1> QED
  BY <1>1, TrackingInvariant, PTL

\* What is proved of the worker alone holds of its two threads: with the real listener
\* beside it, which writes statuses at any time, no unvetted order, no false row and no
\* command without a trace.
THEOREM RowsAreTrueForBothThreads ==
  TrackingSpec => [](OnlyVettedOrders /\ RecordedFactsHold /\ SettledLeavesATrace)
<1>1. TrackingInv => OnlyVettedOrders /\ RecordedFactsHold /\ SettledLeavesATrace
  BY DEF TrackingInv, WorkerInv
<1> QED
  BY <1>1, TrackingInvariant, PTL

===============================================================================
