\* One object and scripts without one, a pool limit of one thread.
SPECIFICATION FairSpec
CONSTANTS
    Objects = {o1}
    States <- MCStates
    Limit = 1
    MaxScripts = 3
INVARIANTS
    OneScriptPerObject
    PoolIsExclusive
    SleepersAreKnown
    SoundUnlessCancelled
PROPERTIES
    SleeperWakes
\* Lua is closed, or undefined behaviour was met.
CHECK_DEADLOCK FALSE
