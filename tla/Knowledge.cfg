\* Facts: two items disagree; one is extracted twice, the other deleted; a crash.
\* Entities: two found before, another extraction, a resolver, two corrections.
SPECIFICATION KnowledgeSpec
CONSTANTS
    i1 = i1
    i2 = i2
    i3 = i3
    v1 = v1
    v2 = v2
    Items = {i1, i2}
    Deletable = {i2}
    Values = {v1, v2}
    OccurredAt <- Recorded
    Says <- Heard
    MaxRows = 2
    MaxAttempts <- Extractions
    MaxTries = 2
    Workers = 2
    NoRow = NoRow
    Gone = Gone
    y1 = y1
    y2 = y2
    Names = {"angela", "angela merkel"}
    Length <- Spelling
    Types = {"person", "organization"}
    Contacts = {k1}
    ContactName <- Called
    EntityRuns = {y1, y2, x1}
    Finds <- MayBeFound
    Before <- FoundBefore
    Resolvers = {r1}
    MaxEntities = 3
    MaxCorrections = 2
INVARIANTS
    KnowledgeTypeOK
    OneWinner
    ConvergedAlone
    
PROPERTIES
    CorrectionsHold
CHECK_DEADLOCK FALSE
