----------------------------- MODULE MCContexts -----------------------------
EXTENDS Contexts

CONSTANTS s1, s2

Rows(minutes, close) == [at : minutes, close : {close}]
Export(day, first, second, close) ==
  [id |-> day, rows |-> [AAPL |-> Rows(first, close), MSFT |-> Rows(second, close)]]
SomeSymbols == {"AAPL", "MSFT"}

Monday == Export("monday", {1, 2}, {1, 2}, 100)

(* One trading day fetched again, with one candle and with other prices,   *)
(* and another day; three exports that are not sound.                      *)
SomeExports ==
  {Monday, Export("monday", {2}, {2}, 100), Export("monday", {1, 2}, {1, 2}, 101),
   Export("tuesday", {1, 3}, {1, 3}, 100),
   Export("monday", {1, 9}, {1, 9}, 100), Export("tuesday", {1}, {1, 2}, 100),
   Export("tuesday", {1}, {2}, 100)}

FirstFile == CHOOSE d \in Datasets : d.candles = Candles(Monday)

(* No dataset: the switches cross.  Monday's: the replay goes on while it  *)
(* is written again.                                                       *)
SomeScenarios ==
  {[file |-> None, changes |-> 5, failures |-> 2, fetches |-> 0],
   [file |-> FirstFile, changes |-> 1, failures |-> 1, fetches |-> 1]}
=============================================================================
