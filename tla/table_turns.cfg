CONSTANTS
  Seats = {s1, s2}
  NoSeat = none
  LastStreet = 1
  Instances <- TurnInstances
  SitOutAfter = 2
  MaxLate = 1
SPECIFICATION FairSpec
PROPERTIES TurnsAreCharged HandsGoOn
CHECK_DEADLOCK FALSE
