\* The order of shutdown that plan.md gives, with every setting at its default.
SPECIFICATION FairSpec
CONSTANTS
    MaxInt = 127
    Minute = 2
    Day = 3
    MB = 4
    Environments <- MCDefaults
    Statements = 1
    MaxActive = 1
PROPERTIES
    SignalEnds
