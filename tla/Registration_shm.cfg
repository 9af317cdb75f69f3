SPECIFICATION Spec
CONSTANTS
    n1 = n1
    n2 = n2
    Name = {n1, n2}
    t1 = t1
    t2 = t2
    Tester = {t1, t2}
    ShmIds = {3, 17}
    Fds = {1}
    MaxMessages = 1
INVARIANTS
    SharedMemAnnounced
CHECK_DEADLOCK FALSE
