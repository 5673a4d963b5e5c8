SPECIFICATION Spec
CONSTANTS
    Kinds <- AudioKinds
    Deps <- AudioDeps
    NoGroup = "none"
    Roots <- AudioRoots
    Relevant <- AudioKinds
    Retryable = {}
    Sentinel = "sentinel"
    Gated <- AudioGated
    LocalKinds = {}
    Bridge = {}
    Verdicts = {"open", "closed"}
    MaxTries = 2
    Budget <- OnceEach
    Mixes <- AudioMixes
INVARIANTS TypeOK OncePerGeneration
PROPERTIES ImplementsLedger
CHECK_DEADLOCK FALSE
