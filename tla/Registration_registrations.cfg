SPECIFICATION FairSpec
CONSTANTS
    n1 = n1
    n2 = n2
    Name = {n1, n2}
    t1 = t1
    t2 = t2
    Tester = {t1, t2}
    ShmIds = {}
    Fds = {0, 1, 4}
    MaxMessages = 3
INVARIANTS
    TypeOK
    VisibleIsServed
    EntryIsItsOwn
    ControlSuffices
    CallsFindAlgorithm
    CallsUseCurrentSocket
PROPERTIES
    MessagesTaken
CHECK_DEADLOCK FALSE
