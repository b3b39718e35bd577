--------------------------- MODULE MCOrderTracking ---------------------------
(* One command that passes every check, for the run of OrderTracking. *)
EXTENDS OrderTracking

CONSTANTS d1

OneCommand == {d1}

Sound ==
  [ valid |-> TRUE, approved |-> TRUE, user |-> TRUE, context |-> "PAPER",
    sized |-> TRUE, amount |-> TRUE ]

SoundOnly == {Sound}
UsableOnly == {"readable"}
=============================================================================
