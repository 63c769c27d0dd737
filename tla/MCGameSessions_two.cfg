\* Two clients, two users, two players made, grids of two slots.
SPECIFICATION Spec
CONSTANTS
    Addresses = {a1, a2}
    Users = {u1, u2}
    NSlots = 2
    MaxPlayers = 2
    MaxCatalysts = 2
SYMMETRY Symmetric
CONSTRAINT
    TwoExceptions
INVARIANTS
    CatalystsConserved
    NoLostUpdate
    OwnClient
    DungeonHasSquad
