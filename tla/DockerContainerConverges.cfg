CONSTANTS
    web = web
    db = db
    CRs <- One
    Specs <- Editing
    BrokenCommands = {"typo"}
    MaxEdits = 2
    MaxMishaps = 1
    MaxFaults = 1
SPECIFICATION FairSpec
INVARIANT NoChurn
PROPERTIES Converges DeletionCompletes
