\* Two heroes, the owner's client and another one, one lost packet.
SPECIFICATION Spec
CONSTANTS
    Clients = {owner, guest}
    Owner = owner
    owner = owner
    guest = guest
    LastHero = 1
    StartAttrs = {"AttackSpeedScale"}
    MaxHealth = 2
    MaxOps = 4
    MaxLosses = 1
INVARIANTS
    StaleOnlyIfMissed
    RecordStaleOnlyIfBenched
    AttributesSound
\* Undefined behaviour ends the model.
CHECK_DEADLOCK FALSE
