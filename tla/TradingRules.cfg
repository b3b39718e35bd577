SPECIFICATION Spec
CONSTANTS
  Policy <- SmallPolicy
  Limits <- SmallPolicy
  TargetDelta = 50
  MaxActiveStrategies = 3
  MaxCumulativeSymbols = 10
  ShortPeriod = 2
  LongPeriod = 3
  RsiPeriod = 2
  Oversold = 30
  Overbought = 70
  MinConfidence = 6000
  Candles <- SomeCandles
  MaxBars = 5
  Answers <- SomeAnswers
  OfferLists <- Lists
  Prices <- UnderlyingPrices
  Facts <- SomeFacts
  Days = {0, 1}
INVARIANTS
  IndicatorsMatchTheirWindows
  SelectionIsBest
  AiAsksForAHuman
\* one candle series, one proposal and one verdict: then the rules have been applied
CHECK_DEADLOCK FALSE
