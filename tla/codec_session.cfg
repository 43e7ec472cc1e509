SPECIFICATION FairSpec
CONSTANTS
    Volumes <- TwoVolumes
    MaxChunks = 1
    MaxFaults = 2
INVARIANTS
    TypeOK
    NoTransferInReset
    StreamsConfigured
    AsleepWhenIdle
    VolumeTold
PROPERTIES
    SessionEnds
