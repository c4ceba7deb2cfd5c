SPECIFICATION FairSpec
CONSTANTS
    b1 = b1
    b2 = b2
    h1 = h1
    h2 = h2
    Boxes <- TwoBoxes
    RefBox = b1
    Hosts <- TwoHosts
    Modes = {"selector", "ref", "neither"}
    Layouts <- TwoLayouts
    MaxLives = 2
    MaxChanges = 1
    MaxFaults = 1
    MaxTrouble = 3
    MaxImages = 2
INVARIANTS
    TypeOK ClientsAccounted  
PROPERTIES
     DeletionCompletes
