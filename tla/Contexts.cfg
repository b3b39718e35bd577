\* Two logins: five selections or activations and two failures without a
\* dataset; one of each, and a second fetch, with Monday's.
SPECIFICATION FairSpec
CONSTANTS
  s1 = s1
  s2 = s2
  None = None
  Sessions = {s1, s2}
  ReplaySymbols <- SomeSymbols
  Exports <- SomeExports
  MaxGap = 3
  Scenarios <- SomeScenarios
INVARIANTS
  AuditTellsTheContext
  OnlyRacesKeepRunning
  NoCandleIsSkipped
PROPERTIES
  RequestsAreAnswered
\* the model stops once its bounds are reached and the requests are answered
CHECK_DEADLOCK FALSE
