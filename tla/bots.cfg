\* A bot of either kind and a guest, heads-up, through two turns, a lost
\* connection and a crash.
CONSTANTS
    Inside = {b1}
    Outside = {c1}
    Guests = {g}
    Nobody = nobody
    MaxMail = 1
    MaxSent = 1
    MaxTurns = 2
    MaxDrops = 1
    MaxCrashes = 1

SPECIFICATION MCFairSpec
CHECK_DEADLOCK FALSE
PROPERTIES
    ActsOnTheTable
    BotPlaysItsTurn
    GoneBotEnds
    BustedBotRebuys
