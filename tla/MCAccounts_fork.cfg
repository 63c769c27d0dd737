\* Two accounts and two sessions: Users of the same account side by side.
SPECIFICATION AccountsSpec
CONSTANTS
    Emails = {e1, e2}
    Sessions = {s1, s2}
    Objects = {o1, o2}
    Upgrades = {"cheap", "dear"}
    Cost <- MCCost
    Granted = 1
    Templates = 1
    Rewards = 1
    Wrap = 8
SYMMETRY Symmetric
INVARIANTS
    LoggedInSeesDisk
    AccountsSound
