CONSTANTS
    Clients = {"c"}
    Lists <- TwoLists
    MaxDials = 4
    MaxConns = 3
    MaxCuts = 2
    MaxRestarts = 1
SPECIFICATION FairSpec
INVARIANTS TypeOK Registered RoundRobin
PROPERTIES BrokenConnsEnd Recovers
