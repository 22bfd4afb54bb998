SPECIFICATION Spec
CONSTANTS
  j1 = j1
  m1 = m1
  f1 = f1
  f2 = f2
  NoJob = NoJob
  Job <- MCJob
  File <- MCFile
  Legacy <- MCJob
  Mounter <- MCMounter
  MaxRevision = 3
PROPERTIES
  CompletedAsVerified
