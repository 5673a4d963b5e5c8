\* One process walks two items, beside a manual run; a failure, or the process dies.
SPECIFICATION FairSpec
CONSTANTS
    p1 = p1
    Replicas = {p1}
    NoReplica = NoReplica
    Order <- Chain
    Requires <- ChainRequires
    Items = 2
    BatchSize = 1
    Blocked <- NoneBlocked
    Histories <- Past
    Windows <- Everything
    MaxRuns = 2
    MaxTroubles = 1
 
PROPERTY RunsEnd
CHECK_DEADLOCK FALSE
