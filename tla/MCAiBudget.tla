----------------------------- MODULE MCAiBudget -----------------------------
(* Settings for the runs of AiBudget. *)
EXTENDS AiBudget

Defaults == [slots |-> 2, budget |-> 3, price |-> 1]

\* Nothing, all that a request can change, and the key alone.
Requests ==
  {[switch |-> FALSE, budget |-> {}, price |-> {}, key |-> None],
   [switch |-> TRUE, budget |-> {}, price |-> {2}, key |-> "clear"],
   [switch |-> TRUE, budget |-> {2}, price |-> {}, key |-> "unencryptable"],
   [switch |-> FALSE, budget |-> {}, price |-> {}, key |-> "set"]}
=============================================================================
