SPECIFICATION AllJobs
CONSTANTS
  nzb = nzb
  torrent = torrent
  w1 = w1
  w2 = w2
  c1 = c1
  c1r = c1r
  c2 = c2
  NoFiles = NoFiles
  NoJob = NoJob
  Catalog <- MCCatalog
  Content <- MCContent
  MaxAttempts = 3
  MissingThreshold = 2
  Lease = 2
  SubmitInterval = 2
  PassLimit = 1
  RecoverMissing = TRUE
  Job <- MCOneNzb
  Usenet <- MCOneNzb
  OnAccount = {}
  Worker <- MCTwoWorkers
PROPERTIES
  NoBlindRetry
