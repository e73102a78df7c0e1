CONSTANTS
  Seats = {s1, s2}
  NoSeat = none
  LastStreet = 1
  Instances <- PauseInstances
  SitOutAfter = 2
  MaxLate = 1
SPECIFICATION Spec
INVARIANTS StartIsArmed
CHECK_DEADLOCK FALSE
