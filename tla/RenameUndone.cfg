\* One entity renamed, then extracted again under its old name.
SPECIFICATION RegistrySpec
CONSTANTS
    y1 = y1
    y2 = y2
    Names = {"angela", "angela merkel", "mutti"}
    Length <- Spelling
    Types = {"person", "organization"}
    Contacts = {k1}
    ContactName <- Called
    EntityRuns = {y1, y2, x1}
    Finds <- MayBeFound
    Before <- FoundBefore
    Resolvers = {}
    MaxEntities = 3
    MaxCorrections = 1
INVARIANT RenamesHold
CHECK_DEADLOCK FALSE
