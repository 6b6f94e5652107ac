CONSTANTS
  Day = 24
  Rest = 20
  Interval = 3
  Schedules = {2, 20, 23}
  Busy = 1
  MaxFaults = 1
  Horizon = 80
SPECIFICATION Spec
INVARIANTS
  TypeOK
  EveryDay
  OnceADay
  NotStarved
CHECK_DEADLOCK FALSE
