\* Two clients and two objects, or one client and three objects, of a game that
\* keeps updating.
SPECIFICATION FairSpec
CONSTANTS
    c1 = c1
    c2 = c2
    Clients = {c1, c2}
    MaxObjects = 3
    LevelObjects = 1
    SquadSize = 1
    DropCount = 2
CONSTRAINT
    TwoOrThree
INVARIANTS
    ManagerSound
    OctreeIsLive
    NoGhosts
    AwardedOnce
PROPERTIES
    NamesObjects
    MarkedIsDeleted
\* A crash stops the game.
CHECK_DEADLOCK FALSE
