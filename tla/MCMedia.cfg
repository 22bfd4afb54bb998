SPECIFICATION FairSpec
CONSTANTS
  e1 = e1
  e2 = e2
  p1 = p1
  c1 = c1
  q1 = q1
  q2 = q2
  Item <- MCItem
  Release <- MCRelease
  releaseOf <- MCReleaseOf
  Controller <- MCController
  MaxRearmsPerRun = 1
  MaxRetries = 2
  MaxRecoveries = 1
  Pruned <- MCItem
  Incomplete <- MCPrimary
  Forced <- MCSecond
  Asked <- MCPrimary
  Deletable <- MCPrimary
  SeerrRequest <- MCRequest
  scope <- MCScope
  Bulk = TRUE
INVARIANTS
  TypeOK
  OpenRequestsReachable
PROPERTIES
  GuardedRequestsKept
  RequestServed
