CONSTANTS
    Replicas = {0, 1}
    MaxKids = 3
    MaxEdits = 2
    MaxMishaps = 1
    MaxFaults = 1
    MaxTime = 1
SPECIFICATION FairSpec
INVARIANTS TypeOK OvershootBounded
PROPERTIES Converges ChildrenCollected
