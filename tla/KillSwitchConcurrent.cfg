\* Two sessions, four requests, one of them rolled back at any of its steps.
SPECIFICATION FairSpec
CONSTANTS
  c1 = c1
  c2 = c2
  s1 = s1
  s2 = s2
  s3 = s3
  None = None
  Clients <- TwoClients
  Strategies <- ThreeStrategies
  MaxActive = 1
  MaxSaved = 2
  MaxRequests = 4
  MaxFailures = 1
INVARIANTS FlagMatchesAudit OvershootBounded
PROPERTIES AuditRowIsTrue RequestsComplete
\* the model stops once MaxRequests requests have been served
CHECK_DEADLOCK FALSE
