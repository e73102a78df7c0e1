CONSTANTS
  Seats = {0, 1, 3}
  MaxSeats = 4
  MaxStack = 5
  StartStacks = {5}
  Configs <- DeadBlindConfigs
  Ranks <- Ranks3
  Strengths <- WeakOrders
  DeckSize = 52
SPECIFICATION Spec
INVARIANTS MatchedMeansEligible
