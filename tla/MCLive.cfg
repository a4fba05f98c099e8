\* What must happen in the end, in seven parts; the bounds of each are in MCLive.tla.
CONSTANTS
    None = None
    Unreadable = Unreadable
SPECIFICATION Spec
CHECK_DEADLOCK FALSE
PROPERTIES
    OperationEnds
    LockStands
    TransfersSettle
    
    RenewalArrives
    SignInStands
