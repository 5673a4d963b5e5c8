\* Items in and out of the inbox, merged, linked, filed under topics, and their rows.
SPECIFICATION ItemsSpec
CONSTANTS
    Items = {i1, i2}
    MaxVersions = 6
    Retention = 1
    JobTries = 2
    MaxTags = 2
    MaxOthers = 1
    Recordings = {r1, r2}
    Merged = {m1, m2}
    MergeTries = 2
    MaxTrouble = 4
    Importers = {p1, p2}
    Removers = {d1, d2}
    MaxAsked = 4
    MaxCuts = 1
    RowKeys = {q1, q2}
    MaxAttempts = 2
    RowTries = 2
    MaxUpsets = 2
    Events = {e1}
    Syncers = {c1, c2}
    MaxRows = 4
    MaxShifts = 3
    Gated = {"summary", "embedding"}
    LocalGated = {"embedding"}
    Turns = {"first", "second"}
    MaxWork = 4
CHECK_DEADLOCK FALSE
INVARIANTS
    ItemsTypeOK
    
    ShownIsComplete
    LinksJoinLiveItems
    MergesAreWhole
    
    
    NotResurrected
    BlobBehindRow
    StartedOnce
    HandledStays
    RowsAreNewest
    
    
    ColumnsKept
PROPERTIES
    HistoryKept
