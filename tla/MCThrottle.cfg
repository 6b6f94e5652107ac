CONSTANTS
  a = a
  b = b
  c3 = c3
  Caller = {a, b, c3}
  MinDelay = 2
  MaxClock = 7
SPECIFICATION ThSpec
SYMMETRY Symmetry
PROPERTY RateKept
