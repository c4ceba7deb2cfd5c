CONSTANTS
    Replicas = {1, 2}
    MaxKids = 4
    MaxEdits = 1
    MaxMishaps = 0
    MaxFaults = 0
    MaxTime = 1
SPECIFICATION Spec
PROPERTY Kept
