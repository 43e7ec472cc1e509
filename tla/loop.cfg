CONSTANTS
    EVENT_QUEUE_DEPTH = 2
    Stimuli <- AllStimuli
    Commands <- AllCommands
SPECIFICATION FairSpec
INVARIANTS
    OneHolder
    PlayRequestNeverRefused
    AudioEventsAlternate
    SessionVibrationDropped
    FsSerialized
PROPERTIES
    QuietsDown
    GateSpec
    PostCompletes
    GateReopens
    ClaimEnds
