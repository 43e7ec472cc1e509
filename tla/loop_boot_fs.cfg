CONSTANTS
    EVENT_QUEUE_DEPTH = 4
    Stimuli <- VibrationOnly
    Commands <- SaveOnly
SPECIFICATION PrioritySpec
INVARIANTS
    FsExclusive
