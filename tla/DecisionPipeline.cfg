\* One symbol; one candle, analysed again and again, with and without option data;
\* one failure.
SPECIFICATION FairSpec
CONSTANTS
  aapl = aapl
  Symbols <- OneSymbol
  Times = {1}
  Signals <- BuyOrHold
  MaxAnalyses = 1
  MaxFailures = 1
INVARIANTS
  OneCommandPerCandle
  CommandsAreBacked
PROPERTIES
  EveryProposalIsAnswered
