SPECIFICATION OneAtATime
CONSTANTS
  nzb = nzb
  torrent = torrent
  w1 = w1
  w2 = w2
  c1 = c1
  c1r = c1r
  c2 = c2
  NoFiles = NoFiles
  NoJob = NoJob
  Catalog <- MCCatalog
  Content <- MCContent
  MaxAttempts = 3
  MissingThreshold = 3
  Lease = 2
  SubmitInterval = 2
  PassLimit = 1
  RecoverMissing = TRUE
  Job <- MCBothJobs
  Usenet <- MCOneNzb
  OnAccount <- MCOneTorrent
  Worker <- MCOneWorker
INVARIANTS
  LeaseOutlivesPass
  AtMostOneLiveCopy
PROPERTIES
  CatalogStable
  NoBlindRetry
  ImplementsReleaseJobs
  SubmittingSettles
  UnknownFirstUploadAdopted
