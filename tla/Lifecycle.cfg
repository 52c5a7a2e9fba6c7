SPECIFICATION FairSpec
CONSTANTS
    NumAttempts = 3
    Components <- MCComponents
    TeardownRounds = 2
    MaxUpdates = 2
INVARIANTS TypeOK AlwaysBootable ConfirmedHasRunUnlessEarly PendingIsExact
PROPERTIES SafeModeExactlyWhenDue OrderlyRestartIsClean BrokenImageIsLeft RestartComes
