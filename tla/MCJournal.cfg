SPECIFICATION JournalSpec
CONSTANTS
    s1 = s1
    s2 = s2
    e1 = e1
    e2 = e2
    e3 = e3
    k1 = k1
    k2 = k2
    p1 = p1
    p2 = p2
    Session = {s1, s2}
    EventId = {e1, e2, e3}
    IdemKey = {k1, k2}
    Payload = {p1, p2}
    Delivery <- MCDelivery
    Count = {1, 2}
    NoCount = NoCount
    Observed = {1, 2, NoCount}
INVARIANTS
    JournalTypeOK
    JournalContiguous
    DeliveredOnce
    CountedOrIntended
PROPERTIES
    MetricsWriteOnce
