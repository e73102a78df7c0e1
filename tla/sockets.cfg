\* Two connections of one address: both kinds, replacements, a queue of two.
CONSTANTS
    Conns = {c1, c2}
    Endpoints <- Mixes
    People = {ann}
    Nobody = nobody
    QueueMax = 2
    UserSocketLimit = 1
    MaxConnectionsPerIP = 2

SPECIFICATION MCFairSpec
INVARIANTS
    NewestAndOpenAreReached
    QueuedIsWritten
PROPERTIES
    ClosedIsReleased
