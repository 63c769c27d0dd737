\* Two connections of one io thread.
SPECIFICATION FairSpec
CONSTANTS
    c1 = c1
    c2 = c2
    Clients = {c1, c2}
    Stream <- Streams
    Prompt = {1}
    Silent = {3}
    Stray = 9
    BodyIds = {1}
    Capacity = 4
    MaxRecords = 1
INVARIANTS
    SoundUnlessShort
    LostOnlyIfDisturbed
PROPERTIES
    EverythingIsRead
\* Connections end.
CHECK_DEADLOCK FALSE
