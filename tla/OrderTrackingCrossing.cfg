\* One command, one fault, one crash, one toggle, one lost connection.
SPECIFICATION FairTrackingSpec
CONSTANTS
  d1 = d1
  None = None
  Commands <- OneCommand
  Shapes <- SoundOnly
  Accounts <- UsableOnly
  StreamUp = TRUE
  MaxFaults = 1
  MaxCrashes = 1
  MaxToggles = 1
  MaxChanges = 0
  MaxDrops = 1
  MaxWire = 3
PROPERTIES
  ImplementsWorker
  FillsArrive
  ReconnectionCatchesUp
INVARIANTS
  EveryFillIsTracked
