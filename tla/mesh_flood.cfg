SPECIFICATION FairSpec
CONSTANTS
    Boxes <- TwoBoxes
    Links <- Pair
    RelayTtl <- UnequalTtls
    LogSize = 2
    Mac = Mac
    None = None
    MaxSent = 3
INVARIANTS
    ActsOnce
    FloodBounded
    ArmStaysLocal
PROPERTIES
    FloodEnds
CHECK_DEADLOCK FALSE
