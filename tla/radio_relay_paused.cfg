SPECIFICATION Spec
CONSTANTS
    OtaThreads <- MainOnly
    HciFails = FALSE
PROPERTIES
    QuietWhilePaused
