\* One upload that replaces, one restore, and one visitor of the site who uploads,
\* transfers or removes; two top-level entries, one change of owner, one crash.
CONSTANTS
    Replaces = {r1}
    Restores = {s1}
    Uploads = {t}
    Transfers = {t}
    Sessions = {t}
    Paths = {p, q}
    Old = Old
    Absent = Absent
    Unlocked = Unlocked
    Operator = Operator
    Nobody = Nobody
    MaxOwners = 1
    MaxCrashes = 1
SPECIFICATION FairSpec
CHECK_DEADLOCK FALSE
PROPERTIES ImplementsSwitch UploadIsKept RestoresStayHome 
