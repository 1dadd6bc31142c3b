SPECIFICATION FairSpec
CONSTANTS
    Faults = {"rollback", "lost", "late", "archive", "crash"}
    MaxFaults = 3

    
PROPERTIES
    PublicCatchesUp
    DeliverySettles
