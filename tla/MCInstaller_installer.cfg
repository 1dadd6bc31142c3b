SPECIFICATION Spec
CONSTANTS
    sda = sda
    sdb = sdb
    Paths <- TwoPaths
    NoPath = NoPath
    Faults = {"swap", "use", "detect", "network", "command", "signal", "umount"}
    MaxFaults = 2
INVARIANTS
    UnchangedMeansUnchanged
    NothingHeld
PROPERTIES
    OnlyConfirmedErased
