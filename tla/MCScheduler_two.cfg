\* Two games: each thread counts its own ids, and they clash.
SPECIFICATION Spec
CONSTANTS
    g1 = g1
    g2 = g2
    Adders = {g1, g2}
    Delays <- MCDelays
    MaxId = 2
    MaxAdds = 2
    MaxTime = 2
    Garbage <- AnyGarbage
SYMMETRY Games
INVARIANTS
    NeverEarly
    NoMissedDeadline
    CancelledNeverRuns
    UncancelledIsKept
    ShutdownIsFinal
\* The application exits.
CHECK_DEADLOCK FALSE
