\* Two processes of one group, two messages, one crash; two deliveries before the dead
\* letter, a stream that keeps one entry.
SPECIFICATION FairSpec
CONSTANTS
  m1 = m1
  m2 = m2
  c1 = c1
  c2 = c2
  None = None
  Messages <- TwoMessages
  Poison <- NoPoison
  Consumers <- TwoConsumers
  BatchSize = 2
  MaxRetries = 2
  MaxLen = 1
  MaxDeliveries <- FiveAndThree
  Fragile <- FirstOnly
  MaxCrashes = 1
INVARIANTS
  NothingLost
PROPERTIES
  AtLeastOnce
  EventuallySettled
