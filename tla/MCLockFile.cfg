CONSTANTS
  p1 = p1
  p2 = p2
  Proc = {p1, p2}
  TTL = 3
  Absent = Absent
  Empty = Empty
  Garbage = Garbage
SPECIFICATION FairSpec
INVARIANTS
  ExclusionUnlessHazard
  FileTracksHolder
PROPERTY NeverWedged
