SPECIFICATION Spec
CONSTANTS
    Accounts = {alice, bob}
    Sites = {x}
    Offers = {o1}
    Accepts = {r1}
    Loop = loop
    Asks = {c1}
    NoOne = none
    MaxFaults = 1
PROPERTIES ReconcileSparesOwner
CHECK_DEADLOCK FALSE
