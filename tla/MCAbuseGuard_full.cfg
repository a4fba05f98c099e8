\* Two requests and an FTP session beside containers, suspensions and the operator.
CONSTANTS
    Workers = {w1, w2}
    FtpSessions = {f1}
    Active = {a}
    Passive = {c}
    Kits = {k}
    Clean = Clean
    Absent = Absent
    Containers = TRUE
    Suspensions = TRUE
SPECIFICATION Spec
SYMMETRY Symmetry
CHECK_DEADLOCK FALSE
INVARIANTS
    NoKitServed
PROPERTIES
    FrozenContent
    ReleasedStaysReleased
