\* Two clients, one of which joins a running game.  Squads are empty, so that
\* every object is the level's or a script's.
SPECIFICATION Spec
CONSTANTS
    c1 = c1
    c2 = c2
    Clients = {c1, c2}
    MaxObjects = 2
    LevelObjects = 1
    SquadSize = 0
    DropCount = 1
INVARIANTS
    JoinedKnowWorld
\* A crash stops the game.
CHECK_DEADLOCK FALSE
