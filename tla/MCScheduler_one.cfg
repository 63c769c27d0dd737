\* One game: ids do not clash; under fairness the scheduler is a timer service
\* whose tasks settle and whose Shutdown returns.
SPECIFICATION FairSpec
CONSTANTS
    g1 = g1
    g2 = g2
    Adders = {g1}
    Delays <- MCDelays
    MaxId = 3
    MaxAdds = 3
    MaxTime = 4
    Garbage <- NoGarbage
PROPERTIES
    ImplementsTimerService
    TaskSettles
    ShutdownReturns
\* The application exits.
CHECK_DEADLOCK FALSE
