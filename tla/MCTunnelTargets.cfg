CONSTANTS
    a = a
    b = b
    Backends <- TwoBackends
    Window = 2
    SyncTicks = 1
    MaxChanges = 3
    MaxFaults = 1
SPECIFICATION FairSpec
INVARIANTS TypeOK PushHolds
PROPERTIES PushNotReverted 
