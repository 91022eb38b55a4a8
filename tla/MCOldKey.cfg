SPECIFICATION Spec
CONSTANTS
    k1 = k1
    k2 = k2
    l1 = l1
    none = none
    OperatorKeys <- MCKeys
    LocalKey = l1
    NoKey = none
    Configs <- MCConfigs
    MaxFaults = 2
INVARIANT OldKeyOpensAfterFailedRotation
