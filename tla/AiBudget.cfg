SPECIFICATION FairSpec
CONSTANTS
  Agents = {"strategy-agent", "risk-critic"}
  Editors = {"put"}
  Slots = {2}
  Budgets = {2, 3, 4}
  Prices = {1, 2}
  HardCap = 3
  DefaultSettings <- Defaults
  MaxPerMinute = 1
  Menu <- Requests
  MaxBurst = 2
  MaxPuts = 1
  MaxCrashes = 1
INVARIANTS
  HardCapHolds
PROPERTIES
  SwitchStopsCalls
