SPECIFICATION Spec
CONSTANTS
    old = old  new = new  big = big
    NoImage = NoImage  Corrupt = Corrupt  Erased = Erased  Torn = Torn  Broken = Broken
    Images <- ThreeImages
    Size <- ImageSizes
    AppPages = 3
    Faults <- AllFaults
    MaxFaults = 2
INVARIANTS
    NeverRunsHalfWritten
