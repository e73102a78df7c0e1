CONSTANTS
  Seats = {0, 1, 3}
  MaxSeats = 4
  MaxStack = 5
  StartStacks = {1, 2, 3, 4, 5}
  Configs <- AllConfigs
  Ranks <- Ranks3
  Strengths <- WeakOrders
  DeckSize = 52
SPECIFICATION MCSpec
INVARIANTS IInv MatchedCanWin ShowdownPaysReach EveryChipCounts
PROPERTIES ReopenedByFullRaise KeepsTheLedger ShowsItsPhases CardsShownRight
