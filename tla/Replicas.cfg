\* Two replicas boot, sweep, nudge and watch the dead-man's switch; they may die.
SPECIFICATION ReplicasSpec
CONSTANTS
    Replicas = {p1, p2}
    NoReplica = NoReplica
    Order <- OneKind
    Requires <- NoneRequired
    Items = 1
    BatchSize = 1
    Blocked <- NoneBlocked
    Histories <- NewKind
    Windows <- NoWindow
    MaxRuns = 3
    MaxTroubles = 1
    Hosts = {w1, w2}
    Tabs = {t1, t2}
    Contacts = {k1, k2}
    Interval = 1
    Grace = 1
    MaxTime = 3
    MaxReleases = 5
    MaxEvents = 2
    Commitments = {1, 2}
    Sweepers = {s1, s2}
    DueAt <- DueInTurn
    QuietTimes = {2}
    Window = 2
    MaxPerDay = 1
    SnoozeTime = 1
    LastTick = 4
    MaxMoves = 2
CHECK_DEADLOCK FALSE
INVARIANTS
    ReplicasTypeOK
    OneOpenSweep
    
    
    
    FiresOnce
    
PROPERTIES
    NeverClobbered
    
    LapseIsServed
    NudgeArrives
