SPECIFICATION Spec
CONSTANTS
    p1 = p1  p2 = p2  p3 = p3
    Players <- Three  MaxSeats = 2
    StartMoney = 1  Settings <- CashAndTournament
    Attempts = 2  QueueCap = 8
    Commands = {"leave", "sit", "miss", "rebuy", "move", "pause", "end", "reveal", "shutdown", "delete", "purge"}
    MaxHands = 2  MaxCommands = 1  MaxFaults = 2  MaxRestarts = 1
INVARIANTS HandRowsOwnOutcome StoreCatchesUp RowsAreSound
CHECK_DEADLOCK FALSE
