\* One person's two requests on one site: a request that fails counts against the action it was.
CONSTANTS
    Sites = {s1}
    Owner = Owner
    People = {p1}
    Requests = {r1, r2}
    Nothing = Nothing
    Keep = 2
    Window = 1
    Retention = 1
    HeldFor = 2
    LastTime = 3
    MaxEvents = 4
    MaxHolds = 0
    MaxRestarts = 0
SPECIFICATION TrailSpec
CHECK_DEADLOCK FALSE
INVARIANTS
    LinesNameTheAction
