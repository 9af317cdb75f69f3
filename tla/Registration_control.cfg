SPECIFICATION Spec
CONSTANTS
    n1 = n1
    n2 = n2
    Name = {n1, n2}
    t1 = t1
    t2 = t2
    Tester = {t1, t2}
    ShmIds = {}
    Fds = {0, 1}
    MaxMessages = 2
INVARIANTS
    ControlAsserted
CHECK_DEADLOCK FALSE
