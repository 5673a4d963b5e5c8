\* Three items, two workers; nothing fails.
SPECIFICATION Spec
CONSTANTS
    i1 = i1
    i2 = i2
    i3 = i3
    v1 = v1
    v2 = v2
    Items = {i1, i2, i3}
    Deletable = {i3}
    Values = {v1, v2}
    OccurredAt <- Recorded
    Says <- Heard
    MaxRows = 3
    MaxAttempts <- Extractions
    MaxTries = 1
    Workers = 2
    NoRow = NoRow
    Gone = Gone
INVARIANT ConvergesInAnyOrder
CHECK_DEADLOCK FALSE
