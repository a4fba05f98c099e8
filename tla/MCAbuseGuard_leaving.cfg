\* A container site leaving container mode while its owner is suspended and unsuspended.
CONSTANTS
    Workers = {w1}
    FtpSessions = {}
    Active = {a}
    Passive = {c}
    Kits = {k}
    Clean = Clean
    Absent = Absent
    Containers = TRUE
    Suspensions = TRUE
SPECIFICATION Spec
SYMMETRY Symmetry
CHECK_DEADLOCK FALSE
INVARIANTS
    KitsServedAreReleased
