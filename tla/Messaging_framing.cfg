SPECIFICATION Spec
CONSTANTS
    NaClVersion = 100
    CoCl2Version = 200
    Value = {0, 200}
    Announced = {1, 298}
    Leftover = {100}
    IntHalf = 300
    MaxSendIovec = 2
    BuffLen = 6
    MaxPayload = 4
    MaxQueued = 1
INVARIANTS
    OnlyOwnWords
    PartsArrive
    IovecFits
CHECK_DEADLOCK FALSE
