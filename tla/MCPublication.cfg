SPECIFICATION Spec
SYMMETRY EventSymmetry
\* The deliveries, the clock and the epochs are bounded, so an instance may run out of steps.
CHECK_DEADLOCK FALSE
CONSTANTS
    s1 = s1
    s2 = s2
    e1 = e1
    e2 = e2
    e3 = e3
    p1 = p1
    Session = {s1}
    EventId = {e1, e2, e3}
    IdemKey = {e1, e2, e3}
    Payload = {p1}
    Delivery <- OneSession
    Count = {1}
    NoCount = NoCount
    Observed = {1}
    JobId = {1, 2, 3}
    SnapshotId = {n1, n2, n3}
    CapsuleId = {k1, k2}
    Content = {c1, c2}
    Worker = {w1}
    Null = Null
    MaxClock = 0
    MaxDelay = 0
    MaxLease = 1
    MaxRetry = 1
    MaxEpoch = 1
INVARIANTS
    TypeOK
    LinearHistory
    RequestViewSound
    CompactionViewSound
    NoOrphanCapsule
    DemandCarried
PROPERTIES
    PointerAdvances
    CommittedRowsImmutable
