CONSTANTS
  n1 = n1
  n2 = n2
  remote = remote
  unknown = unknown
  default = default
  coder = coder
  claude = claude
  notor = notor
  NoPersona = NoPersona
  NoKB = NoKB
  NoSource = NoSource
  Note = {n1, n2}
  RemoteKB = {remote}
  LocalKB = {default}
  Default = default
  Harness = {claude, notor}
  MaxJobs = 4
  Threshold = 2
  Convo <- MCConvo
  Source <- MCSource
SPECIFICATION PSpec
INVARIANTS
  CopiesExplained
  RoutedIsKept
  ChunksCover
  SummaryIsLatest
  HarnessDecides
  LossIsExplained
PROPERTIES
  NothingAfterRefusal
  Delivers
  RunEnds
CHECK_DEADLOCK FALSE
