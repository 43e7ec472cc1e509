SPECIFICATION Spec
CONSTANTS
    Keys <- ThreeKeys
    Default <- Defaults
    NoFile = NoFile
    Reserved = 9
    Files <- FiveFiles
    Changes <- IdAndDelay
    MaxFaults = 0
INVARIANT
    HealingIsSafe
