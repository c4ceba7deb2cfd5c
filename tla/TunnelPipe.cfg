SPECIFICATION FairSpec
CONSTANTS
    Addresses = {1, 3}
    MaxHeader = 1
    MaxBytes = 2
    BufSize = 2
    TcpWindow = 1
    Window = 3
INVARIANTS TypeOK Ordered NoTruncation
PROPERTY Ends
CHECK_DEADLOCK FALSE
