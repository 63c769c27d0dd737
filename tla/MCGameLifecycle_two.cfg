\* A game that is started, started again, and running when the application exits.
SPECIFICATION FairSpec
CONSTANTS
    MaxRuns = 2
    MaxEvents = 2
    MaxChats = 1
INVARIANTS
    WithdrawnIsSilent
    NothingLost
    SafeUnlessStopped
PROPERTIES
 StopReturns
 FiredIsCalled
\* The application exits, or undefined behaviour was met.
CHECK_DEADLOCK FALSE
