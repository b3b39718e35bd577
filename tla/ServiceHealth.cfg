SPECIFICATION FairHealthSpec
CONSTANTS
  WorkerOrder <- OneWorker
  Contexts = {"paper", "replay"}
  MaxRetries = 2
  MaxStarted = 1
  Scenarios <- Pairs
INVARIANTS
  RowsChain
  OneAlertPerContext
PROPERTIES
  ReportsConverge
  EventsAreSettled
