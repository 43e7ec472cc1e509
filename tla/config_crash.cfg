SPECIFICATION Spec
CONSTANTS
    Keys <- ThreeKeys
    Default <- Defaults
    NoFile = NoFile
    Reserved = 9
    Files <- FiveFiles
    Changes <- IdAndDelay
    MaxFaults = 2
INVARIANTS
    ConfigKept
    SavedIsStored
    OthersUntouched
PROPERTIES
    SavesAtomic
