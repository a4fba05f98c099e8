\* One push, one operation: a password rotation while a push runs.
CONSTANTS
    Pushes = {p1}
    Ops = {o1}
    Accounts = {a}
    NoOne = NoOne
    MaxPacks = 1
    MaxPasswords = 1
SPECIFICATION Spec
CHECK_DEADLOCK FALSE
INVARIANTS
    RotationStopsPush
