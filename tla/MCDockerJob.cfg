SPECIFICATION Spec
CONSTANTS
    Specs <- AllSpecs
    ExitCodes = {0, 1}
    MaxSlips = 2
    MaxDockerErrs = 1
    MaxRestarts = 1
    MaxTime = 2
INVARIANTS
    TypeOK  NoOrphan
PROPERTIES
    KeepsContract
