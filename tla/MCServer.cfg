CONSTANTS
  a = a
  b = b
  c = c
  Uid = {a, b, c}
  Malformed = {c}
  Absent = Absent
  MaxReceives = 2
  MaxFaults = 1
SPECIFICATION Spec
CONSTRAINT Bounded
SYMMETRY Symmetry
INVARIANTS
  TypeOK
  DeletedIsKept
  PushedUnlessFailed
  MirrorUnlessMissed
