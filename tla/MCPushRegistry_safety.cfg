\* Two pushes, two operations, two accounts.
CONSTANTS
    Pushes = {p1, p2}
    Ops = {o1, o2}
    Accounts = {a, b}
    NoOne = NoOne
    MaxPacks = 1
    MaxPasswords = 1
SPECIFICATION Spec
SYMMETRY Symmetry
CHECK_DEADLOCK FALSE
INVARIANTS
    RunningIsEntitled
    NoGitBeneathRemoval
PROPERTIES
    FrozenRepository
