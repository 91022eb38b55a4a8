\* One request with an edit by another plugin, in every budget situation.
CONSTANTS
    Tools = {"x"}
    NoTool = none
    MaxCapsules = 2
    MaxItemsPerField = 1
    MaxDeltaEvents = 4
    MaxCandidates = 7
    Separator = 1
    BytesPerToken = 2
    MaxCoordinates = 6
    CompactPercent = 75
    ProjectPercent = 80
    ActivationScale = 12
    Role <- MCRole
    Tokens <- MCTokens
    NativeLists <- MCNativeLists
    Foreign = {"note"}
    Answer = "answer"
    Projected = "projection"
    RequestViews <- MCRequestViews
    Prompts = {0, 2}
    Profiles <- MCProfiles
    TrustedUsages = {0, 9}
    Tokenizers <- MCTokenizers
    MaxProposed = 1
    MaxEdits = 1
SPECIFICATION Spec
INVARIANTS
    ProjectedInputFits SelectionKeepsRequired EngineSelectionIsComplete
    NativeHistoryComesBack UsageMaskedOnlyWhileProjected
CHECK_DEADLOCK FALSE
