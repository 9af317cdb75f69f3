SPECIFICATION FairSpec
CONSTANTS
    Caller = {c1}
    Returner = {r1}
    Rec = {a1}
    Node = {n1, n2}
    None = None
    CallCount = 1
    FirstEpoch = 111
    MaxOsds = 1
    Requested = {1}
    HeaderWord = 2
    Garbage = {0}
    Faults = {"errorReply"}
    c1 = c1
    r1 = r1
    a1 = a1
    n1 = n1
    n2 = n2
PROPERTIES
    AllCallsReturn
CHECK_DEADLOCK FALSE
