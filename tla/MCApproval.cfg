CONSTANTS
  f1 = f1
  h1 = h1
  h2 = h2
  k1 = k1
  k2 = k2
  File = {f1}
  Target = {k1, k2}
  Handler = {h1, h2}
  TargetLists <- Lists
  NoFile = NoFile
  Empty = Empty
  Garbage = Garbage
  NoRequest = NoRequest
SPECIFICATION FairSpec
INVARIANTS
  NothingDropped
  OneOutcome
PROPERTY ShutsDownWhenResolved
CHECK_DEADLOCK FALSE
