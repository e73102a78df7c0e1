SPECIFICATION Spec
CONSTANTS
    p1 = p1  p2 = p2  p3 = p3 
    Players <- Three  MaxSeats = 3  Nobody = nobody
    Cooldown = 2  Settings <- CashGrowing
    Commands = {"move", "leave", "sit", "chips", "settings", "blinds", "pause", "end"}
    MaxHands = 3  MaxCommands = 2
INVARIANTS SeatsAgree
PROPERTIES MovesKeepTheRules HostRulesHold
CHECK_DEADLOCK FALSE
