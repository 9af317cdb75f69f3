SPECIFICATION Spec
CONSTANTS
    Caller = {c1, c2}
    Returner = {r1, r2}
    Rec = {a1, a2}
    Node = {n1, n2, n3, n4}
    None = None
    CallCount = 2
    FirstEpoch = 111
    MaxOsds = 2
    Requested = {1}
    HeaderWord = 2
    Garbage = {0}
    Faults = {"oddLength", "sendFailure"}
    c1 = c1
    c2 = c2
    r1 = r1
    r2 = r2
    a1 = a1
    a2 = a2
    n1 = n1
    n2 = n2
    n3 = n3
    n4 = n4
INVARIANTS
    LossInv
    OwnReply
    NoWriteToDestroyed
PROPERTIES
    WritesWithinBlock
    ImplementsCalls
SYMMETRY Symmetric
