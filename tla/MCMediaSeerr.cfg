SPECIFICATION Spec
CONSTANTS
  e1 = e1
  e2 = e2
  p1 = p1
  c1 = c1
  q1 = q1
  q2 = q2
  Item <- MCItem
  Release <- MCRelease
  releaseOf <- MCReleaseOf
  Controller <- MCController
  MaxRearmsPerRun = 1
  MaxRetries = 2
  MaxRecoveries = 1
  Pruned <- MCItem
  Incomplete <- MCNone
  Forced <- MCNone
  Asked <- MCNone
  Deletable <- MCNone
  SeerrRequest <- MCRequests
  scope <- MCScopes
  Bulk = FALSE
INVARIANT
  OnePrimary
