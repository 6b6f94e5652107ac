CONSTANTS
  LocalUid = {x, y}
  RemoteUid = {p, q, r}
  Scores = {0, 1}
  Threshold = 1
  Limit = 2
  MaxResults = 3
  Local = {local}
  Remote = {east, west}
  Unknown = {gone}
  MaxLines = 2
SPECIFICATION Spec
INVARIANTS
  TypeOK
  NothingTwice
  RankedFairly
  InjectedOnce
  FollowUpCompetes
PROPERTY HookEnds
CHECK_DEADLOCK FALSE
