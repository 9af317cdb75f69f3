SPECIFICATION FairSpec
CONSTANTS
    Test = {"srpc", "shm", "stream", "dgram"}
    Chars = 3
    ExecFails = TRUE
    LoadFails = TRUE
INVARIANTS
    WholeMessageRead
    RunnerSurvives
PROPERTIES
    TestsEnd
CHECK_DEADLOCK FALSE
