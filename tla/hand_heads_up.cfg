CONSTANTS
  Seats = {0, 1}
  MaxSeats = 4
  MaxStack = 6
  StartStacks = {1, 3, 6}
  Configs <- HeadsUpConfigs
  Ranks <- CardRanks
  Strengths <- CardStrengths
  DeckSize = 13
  Deck <- SmallDeck
  Deals <- SomeDeals
SPECIFICATION CardFairSpec
INVARIANTS OptionsMatchApply ShowdownByTheRules BoardsAreApart EquityIsFair NotesAreTrue
PROPERTIES HandEnds
