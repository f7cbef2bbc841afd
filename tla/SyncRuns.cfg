CONSTANTS
    c1 = c1
    c2 = c2
    s1 = s1
    h1 = h1
    Nil = Nil
    Configs = {c1, c2}
    Passes = {s1}
    Hands = {h1}
    PauseAfter = 2
    RunsPerHour = 1
    MaxSyncFaults = 1
SPECIFICATION SyncLiveSpec
INVARIANTS
    SyncTypeOK
    OneRunAtATime
    PauseIsEarned

    
