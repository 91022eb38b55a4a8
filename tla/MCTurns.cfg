\* Two turns of one session with one tool call each, two failures, and a provider
\* whose input holds one tool exchange but not a whole segment.
CONSTANTS
    Turns = {t1, t2}
    Tools = {x}
    NoTool = none
    MaxToolCalls = 1
    MaxFaults = 2
    InputLimit = 6
    MaxEventsPerSegment = 6
    MaxTokensPerSegment = 6
    PromptOverhead = 1
    CanonicalCount <- MCCanonicalCount
    SerializedCount <- MCSerializedCount
SPECIFICATION Spec
INVARIANTS IntentTargetsStablePrefix DeltaAgreesWithJournal SegmentsKeepExchanges
SYMMETRY Symmetry
CHECK_DEADLOCK FALSE
