CONSTANTS
  s1 = s1
  s2 = s2
  r1 = r1
  r2 = r2
  Session = {s1, s2}
  Run = {r1, r2}
  None = None
  Sec = 2
  MaxClock = 5
SPECIFICATION Spec
SYMMETRY Symmetry
INVARIANTS
  NothingMissed
  ScannedOnce
  LastDreamRecorded
PROPERTY TimestampsAdvance
