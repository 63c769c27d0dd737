\* Two effects, three slots, one ability.
SPECIFICATION Spec
CONSTANTS
    e1 = e1
    e2 = e2
    a1 = a1
    Effects = {e1, e2}
    MaxIndex = 3
    Abilities = {a1}
    Durations = {1, 2}
    MaxTime = 3
    MaxEnd = 5
INVARIANTS
    SlotsSound
    CooldownsAgree
PROPERTIES
    CoolsFromNow
