------------------------ MODULE MCDecisionPipeline ------------------------
(* Symbols and candles for the runs of DecisionPipeline. *)
EXTENDS DecisionPipeline

CONSTANT aapl

OneSymbol == {aapl}
BuyOrHold == {"BUY", "HOLD"}
=============================================================================
