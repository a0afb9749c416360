CONSTANTS
    Producers = {r1, r2}
    MaxPush = 3
    Limits = {0, 1, 2}
    InitialLimit = 2
    LostStrategy <- MCStrategy
    PeriodicTimer = TRUE
SPECIFICATION FairSpec
INVARIANTS TypeOK MessagesAccounted InOrder LatestKept QueueBounded OvertakenOnce NoThreadLeft
PROPERTIES MessagesTaken DeactivateReturns
