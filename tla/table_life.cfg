CONSTANTS
  Seats = {s1, s2, s3}
  NoSeat = none
  LastStreet = 1
  Instances <- LifeInstances
  SitOutAfter = 2
  MaxLate = 1
SYMMETRY Symmetry
SPECIFICATION Spec
INVARIANTS TableMovesOn SeatsFitTheHand NothingLingers
PROPERTIES HandsEndInResults
CHECK_DEADLOCK FALSE
