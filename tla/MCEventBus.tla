------------------------------ MODULE MCEventBus ------------------------------
(* Model values for the runs of EventBus. *)
EXTENDS EventBus

CONSTANTS m1, m2, c1, c2

TwoMessages == {m1, m2}
\* The second handler never raises, so only the crash keeps it from being settled.
FirstOnly == {m1}
FiveAndThree == [m \in Messages |-> IF m = m1 THEN 5 ELSE 3]
Seven == [m \in Messages |-> 7]

NoPoison == {}
PoisonM1 == {m1}
OneConsumer == {c1}
TwoConsumers == {c1, c2}
=============================================================================
