CONSTANTS
    Replicas = {r1, r2, r3}
    CatalogueSize = 2
    Attempts = 2
    MaxTroubles = 2
    MaxPosted = 1
    MaxDeletions = 2

SPECIFICATION FairSpec
INVARIANTS
    StartTypeOK
    SeedsAtMostOnce
    WholeCopies
PROPERTIES
    AllServe
CHECK_DEADLOCK FALSE
