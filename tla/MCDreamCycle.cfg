CONSTANTS
  u1 = u1
  u2 = u2
  u3 = u3
  Uid = {u1, u2, u3}
  Absent = Absent
  MaxActions = 2
SPECIFICATION Spec
CONSTRAINT Bounded
SYMMETRY Symmetry
INVARIANTS
  NothingForgotten
  AtRestCommitted
PROPERTIES
  HeadKeeps
  
CHECK_DEADLOCK FALSE
