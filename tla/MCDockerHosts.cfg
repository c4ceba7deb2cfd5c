SPECIFICATION FairSpec
CONSTANTS
    u1 = u1
    u2 = u2
    u3 = u3
    c1 = c1
    c2 = c2
    Urls <- ThreeUrls
    BadUrls <- Malformed
    Configs <- ThreeConfigs
    Certs <- TwoCerts
    Starts <- OneStart
    Secrets = {c1}
    TTL = 2
    MaxOpen = 4
    MaxEdits = 2
INVARIANTS
    TypeOK
    StaleNoLonger
    
PROPERTIES
    ReportsConverge
CHECK_DEADLOCK FALSE
