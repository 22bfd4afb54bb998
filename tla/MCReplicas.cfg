SPECIFICATION TorrentAndBoth
CONSTANTS
  nzb = nzb
  torrent = torrent
  w1 = w1
  w2 = w2
  c1 = c1
  c1r = c1r
  c2 = c2
  NoFiles = NoFiles
  NoJob = NoJob
  Catalog <- MCOneCatalog
  Content <- MCContent
  MaxAttempts = 2
  MissingThreshold = 2
  Lease = 2
  SubmitInterval = 2
  PassLimit = 1
  RecoverMissing = TRUE
  Job <- MCBothJobs
  Usenet <- MCOneNzb
  OnAccount <- MCNone
  Worker <- MCTwoWorkers
INVARIANTS
  TypeOK
  UploadBudget
  OneSubmissionInFlight
PROPERTIES
  ImplementsLedger
SYMMETRY MCSymmetry
