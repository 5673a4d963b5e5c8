SPECIFICATION FairSpec
CONSTANTS
    Kinds <- DocumentKinds
    Deps <- DocumentDeps
    NoGroup = "none"
    Roots <- DocumentRoots
    Relevant <- DocumentRelevant
    Retryable = {}
    Sentinel = "sentinel"
    Gated <- DocumentGated
    LocalKinds <- DocumentLocal
    Bridge <- DocumentBridge
    Verdicts = {"open", "closed"}
    MaxTries = 1
    Budget <- OnceEach
    Mixes <- Failures
PROPERTIES DueIsServed
CHECK_DEADLOCK FALSE
