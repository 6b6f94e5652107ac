CONSTANTS
  a = a
  b = b
  c = c
  Uid = {a, c}
  Malformed = {c}
  Absent = Absent
  MaxReceives = 2
  MaxFaults = 2
SPECIFICATION FairSpec
PROPERTY QueueDrains
