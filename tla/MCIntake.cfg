SPECIFICATION MCSpec
CONSTANTS
  s1 = s1
  s2 = s2
  p1 = p1
  p2 = p2
  h1 = h1
  v1 = v1
  a = a
  b = b
  f1 = f1
  f2 = f2
  timer = timer
  hook = hook
  t1 = t1
  t2 = t2
  MaxAdds = 2
  Scan <- MCScan
  Asker <- MCAsker
  Hook <- MCHook
  Viewer <- MCViewer
  Show <- MCShow
  EpisodeFile <- MCFiles
  showOf <- MCShowOf
  Caller <- MCCaller
  Timer = timer
  ScanDebounce = 1
  HookDebounce = 1
  Task <- MCTask
  Dedupe = 3
  Delay = 1
  TimeLimit = 1
  Recent = 8
  HealEvery = 1
  Cooldown = 2
  e1 = e1
  e2 = e2
  e3 = e3
  Entry <- MCEntry
  Wanted <- MCWanted
  Limit = 2
  PageLimit = 3
INVARIANTS
  IntakeTypesOK
  PollRearmsOnce
  RearmsHaveFiles
  AbsenceIsReal
PROPERTIES
  LibraryConverges
  PruneOnlyGone
  EpisodesConverge
  ScansSpaced
  EventsNoted
  MissingIndexed
