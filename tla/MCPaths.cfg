SPECIFICATION MCSpec
CONSTANTS
  j1 = j1
  m1 = m1
  f1 = f1
  f2 = f2
  NoJob = NoJob
  Job <- MCJob
  File <- MCFile
  Legacy <- MCNone
  Mounter <- MCMounter
  MaxRevision = 4
  k1 = k1
  k2 = k2
  k3 = k3
  p1 = p1
  p2 = p2
  p3 = p3
  NoPath = NoPath
  Checker <- MCChecker
  ProbePath <- MCProbePath
  Slots = 2
  Item <- MCItem
  MaxFiles = 3
  MaxReports = 1
  d1 = d1
  d2 = d2
  path = path
  c1 = c1
  None = None
  Download <- MCDownload
  Nzb <- MCNone
  InGateway <- MCInGateway
  Path <- MCPath
  WebhookCall <- MCCall
  MaxImports = 2
  BatchSize = 1
  g1 = g1
  r1 = r1
  r2 = r2
  Streamed <- MCStreamed
  Reader <- MCReader
  NoReader = NoReader
  NoFile = NoFile
  MaxLinks = 3
INVARIANTS
  PathsTypesOK
  OnlyNewLinksRefused
  StagedBeforeCompleted
  CleanupLeavesNothing
  ProbeBounded
PROPERTIES
  CompletedAsVerified
  CleanupSettles
  MountingSettles
  ReplacementSpared
  LostRemoved
  RearmsUnblocked
  CapturesHappen
  SourceSettles
  WaitersServed
