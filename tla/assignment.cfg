SPECIFICATION Spec
CONSTANTS
    Slots = 2
    DelayBits = 2
    SoundBits = 2
    SeqBits = 2
    DelayMax = 3
    Silent = 3
    Boxes = {a, b}
    Shells = {a}
    Mac = mac
    None = None
    Cards <- TwoCards
    Ids = {2, 3}
    Ranges <- TwoRanges
    FirstRange <- ShortRange
    WordMax = 7
    Draws <- SomeDraws
    Seqs = {2}
    MacParts <- TwoMacParts
INVARIANTS
    HeardAsMeant
    PlaysAnExistingFile
    AssignsInRange
PROPERTIES
    PlaysItsPart
