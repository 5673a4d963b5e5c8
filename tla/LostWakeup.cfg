SPECIFICATION FairSpec
CONSTANTS
    Kinds <- AudioKinds
    Deps <- AudioDeps
    NoGroup = "none"
    Roots <- AudioRoots
    Relevant <- AudioKinds
    Retryable = {}
    Sentinel = "sentinel"
    Gated <- AudioGated
    LocalKinds = {}
    Bridge = {}
    Verdicts = {"open", "closed"}
    MaxTries = 2
    Budget <- OnceEach
    Mixes = {}
PROPERTIES FiresOnceDependenciesSettle
CHECK_DEADLOCK FALSE
