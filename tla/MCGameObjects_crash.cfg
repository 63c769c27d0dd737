\* Two clients, one of which connects to a running game.
SPECIFICATION Spec
CONSTANTS
    c1 = c1
    c2 = c2
    Clients = {c1, c2}
    MaxObjects = 2
    LevelObjects = 1
    SquadSize = 1
    DropCount = 1
INVARIANTS
    NoCrash
\* A crash stops the game.
CHECK_DEADLOCK FALSE
