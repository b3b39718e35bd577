---------------------------- MODULE MCOrderWorker ----------------------------
(* Commands and facts for the run of OrderWorker. *)
EXTENDS OrderWorker

CONSTANT d1

OneCommand == {d1}

Sound ==
  [ valid |-> TRUE, approved |-> TRUE, user |-> TRUE, context |-> "PAPER",
    sized |-> TRUE, amount |-> TRUE ]

\* One way of failing each check, one at a time.
Unsound ==
  { [Sound EXCEPT !.valid = FALSE],
    [Sound EXCEPT !.approved = FALSE],
    [Sound EXCEPT !.user = FALSE],
    [Sound EXCEPT !.context = "REPLAY"],
    [Sound EXCEPT !.context = "OTHER"],
    [Sound EXCEPT !.sized = FALSE],
    [Sound EXCEPT !.amount = FALSE] }

EveryShape == {Sound} \cup Unsound
=============================================================================
