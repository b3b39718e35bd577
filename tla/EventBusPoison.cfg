\* One process, two messages, one of which _decode rejects.
SPECIFICATION Spec
CONSTANTS
  m1 = m1
  m2 = m2
  c1 = c1
  c2 = c2
  None = None
  Messages <- TwoMessages
  Poison <- PoisonM1
  Consumers <- OneConsumer
  BatchSize = 2
  MaxRetries = 2
  MaxLen = 1
  MaxDeliveries <- Seven
  Fragile <- TwoMessages
  MaxCrashes = 0
INVARIANTS
  BoundedRetryThenDeadLetter
