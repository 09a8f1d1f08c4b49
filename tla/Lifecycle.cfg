SPECIFICATION FairSpec
CONSTANTS
    MaxInt = 127
    Minute = 2
    Day = 3
    MB = 4
    Environments <- MCEnvironments
    Statements = 3
    MaxActive = 2
INVARIANTS
    TypeOK
    AcceptedIsUsable
    ServingReady
    CleanMeansServed
    FailureReported
    ShutdownNeverStuck
PROPERTIES
    ShutdownEnds
