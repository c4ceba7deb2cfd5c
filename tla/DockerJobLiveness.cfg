SPECIFICATION FairSpec
CONSTANTS
    Specs <- TimedSpecs
    ExitCodes = {0, 1}
    MaxSlips = 1
    MaxDockerErrs = 1
    MaxRestarts = 0
    MaxTime = 3
PROPERTIES
    JobCompletes DeadlineEnforced DeletionCompletes TTLCleansUp
