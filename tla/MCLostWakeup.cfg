CONSTANTS
    Producers = {r1}
    MaxPush = 2
    Limits = {1, 2}
    InitialLimit = 2
    LostStrategy <- MCStrategy
    PeriodicTimer = FALSE
SPECIFICATION FairSpec
PROPERTIES MessagesTaken
