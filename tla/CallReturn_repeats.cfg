SPECIFICATION Spec
CONSTANTS
    Caller = {c1, c2}
    Returner = {r1, r2}
    Rec = {a1, a2}
    Node = {n1, n2}
    None = None
    CallCount = 1
    FirstEpoch = 111
    MaxOsds = 2
    Requested = {1}
    HeaderWord = 111
    Garbage = {0, 111}
    Faults = {"repeatedReply", "errorReply", "unknownReply"}
    c1 = c1
    c2 = c2
    r1 = r1
    r2 = r2
    a1 = a1
    a2 = a2
    n1 = n1
    n2 = n2
INVARIANTS
    IInv
    OwnReply
    NoWriteToDestroyed
    QueueHoldsLiveRecords
    PendingOnce
PROPERTIES
    CompletedOnce
SYMMETRY Symmetric
CHECK_DEADLOCK FALSE
