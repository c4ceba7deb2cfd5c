SPECIFICATION FairSpec
CONSTANTS
    b1 = b1
    b2 = b2
    h1 = h1
    h2 = h2
    Boxes <- TwoBoxes
    RefBox = b1
    Hosts <- TwoHosts
    Modes = {"selector"}
    Layouts <- TwoLayouts
    MaxLives = 2
    MaxChanges = 0
    MaxFaults = 0
    MaxTrouble = 2
    MaxImages = 1
PROPERTY
    Connected
