\* Two changes or failures: an account may be disconnected and connected again.
SPECIFICATION FairFeedSpec
CONSTANTS
  PaperAccounts = {"a", "b"}
  Contextless = {}
  Credentials = {"k", "l"}
  Symbols = {"AAPL"}
  Threads = {1, 2}
  MaxDisturbances = 2
INVARIANTS
  OneSessionPerAccount
  OldSessionIsTold
PROPERTIES
  FeedCatchesUp
  FeedKeepsFlowing
