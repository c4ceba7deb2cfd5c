CONSTANTS
    web = web
    db = db
    CRs <- Two
    Specs <- Apart
    BrokenCommands = {}
    MaxEdits = 1
    MaxMishaps = 1
    MaxFaults = 1
SPECIFICATION Spec
INVARIANTS NoOrphan 
