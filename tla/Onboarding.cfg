\* Two logins, five requests, two good pairs of keys and a refused one.
SPECIFICATION Spec
CONSTANTS
  s1 = s1
  s2 = s2
  None = None
  Sessions = {s1, s2}
  Keys = {"old", "new", "bad"}
  GoodKeys = {"old", "new"}
  STEP_CODES <- Steps
  Keyed <- StoredKeySteps
  Checked <- ConfigurationSteps
  Writing <- AccountSteps
  MaxRequests = 5
INVARIANTS
  KeysWereAccepted
  CompletedIsPrefix
  ConnectedIsCurrent
\* the model stops once MaxRequests requests have been served
CHECK_DEADLOCK FALSE
