\* One invitation and two requests of two accounts beside the loop; one admin, four calls, one fault.
CONSTANTS
    Accounts = {x, y}
    Invites = {i}
    Requests = {r1, r2}
    Loop = loop
    Nobody = Nobody
    MaxAdmins = 1
    MaxCalls = 4
    MaxFaults = 1
SPECIFICATION SharesSpec
CHECK_DEADLOCK FALSE
INVARIANTS
    SharesStand
PROPERTIES
    SharesSettle
