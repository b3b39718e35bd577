\* One command of any shape, any account, two faults, a crash, two toggles of
\* the switch, a change of the account, and any true report of the stream.
SPECIFICATION FairSpec
CONSTANTS
  d1 = d1
  None = None
  Commands <- OneCommand
  Shapes <- EveryShape
  Accounts <- AccountStates
  StreamUp = TRUE
  MaxFaults = 2
  MaxCrashes = 1
  MaxToggles = 2
  MaxChanges = 1
INVARIANTS
  OnlyVettedOrders
  RecordedFactsHold
  SettledLeavesATrace
PROPERTIES
  WriteAhead
  EventuallySettled
  SweepReachesOpenOrders
