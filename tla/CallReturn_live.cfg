SPECIFICATION FairSpec
CONSTANTS
    Caller = {c1, c2}
    Returner = {r1}
    Rec = {a1, a2}
    Node = {n1, n2, n3}
    None = None
    CallCount = 2
    FirstEpoch = 111
    MaxOsds = 1
    Requested = {1}
    HeaderWord = 2
    Garbage = {0}
    Faults = {}
    c1 = c1
    c2 = c2
    r1 = r1
    a1 = a1
    a2 = a2
    n1 = n1
    n2 = n2
    n3 = n3
PROPERTIES
    AllCallsReturn
    ImplementsFairCalls
