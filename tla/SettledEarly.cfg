SPECIFICATION FairSpec
CONSTANTS
    Kinds <- AudioKinds
    Deps <- AudioDeps
    NoGroup = "none"
    Roots <- AudioRoots
    Relevant <- AudioKinds
    Retryable = {}
    Sentinel = "sentinel"
    Gated <- AudioGated
    LocalKinds = {}
    Bridge = {}
    Verdicts = {"open", "closed"}
    MaxTries = 2
    Budget <- OnceEach
    Mixes <- Failures
PROPERTIES WaitsForOutcome
CHECK_DEADLOCK FALSE
