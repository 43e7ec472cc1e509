SPECIFICATION FairSpec
CONSTANTS
    OtaThreads <- MainAndShell
    HciFails = TRUE
INVARIANTS
    TypeOK
    FlagMatchesBurst
    NeverStartedOver
    ListensAtRest
    WindowPausesMesh
PROPERTIES
    OnlyResumeScansUnderBurst
    ScanReturns
    Reconnectable
