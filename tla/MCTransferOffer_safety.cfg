\* Two accounts, two sites, two offers, two accepts and two requests of the sender, as
\* far as Bound lets them meet.
CONSTANTS
    Accounts = {alice, bob}
    Sites = {x, y}
    Offers = {o1, o2}
    Accepts = {r1, r2}
    Loop = loop
    Asks = {c1, c2}
    NoOne = none
    MaxFaults = 2
SPECIFICATION Spec
SYMMETRY Symmetry
CONSTRAINT Bound
CHECK_DEADLOCK FALSE
INVARIANTS
    OneOfferPerSite
    
    AcceptanceGoesForward
PROPERTIES
    MovesOnlyAccepted
