SPECIFICATION FairSpec
CONSTANTS
  j1 = j1
  m1 = m1
  f1 = f1
  f2 = f2
  NoJob = NoJob
  Job <- MCJob
  File <- MCFile
  Legacy <- MCNone
  Mounter <- MCMounter
  MaxRevision = 3
PROPERTIES
  VisibleRestaged
