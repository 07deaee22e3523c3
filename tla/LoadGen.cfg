CONSTANTS
    ArgSets <- SmallArgs
    Outcomes <- SmallOutcomes
    MaxWarmup = 3
SPECIFICATION FairSpec
INVARIANTS
    WindowIsolated
PROPERTIES
    Reports
CHECK_DEADLOCK FALSE
