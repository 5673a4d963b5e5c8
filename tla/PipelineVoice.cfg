SPECIFICATION Spec
CONSTANTS
    Kinds <- VoiceKinds
    Deps <- VoiceDeps
    NoGroup = "none"
    Roots <- VoiceRoots
    Relevant <- VoiceKinds
    Retryable = {"transcription"}
    Sentinel = "sentinel"
    Gated = {}
    LocalKinds = {}
    Bridge = {}
    Verdicts = {"open"}
    MaxTries = 1
    Budget <- OnceEach
    Mixes <- VoiceMixes
INVARIANTS NoStrandedAttempt NoMissedWork
CHECK_DEADLOCK FALSE
