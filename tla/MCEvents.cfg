CONSTANTS
    c1 = c1  c2 = c2  status = status  log = log
    Client = {c1, c2}
    Kind = {status, log}
    Mask <- Masks
    MaxCached = 2
    Room = 1
    MaxEvents = 3
    Leavers = {c1}
    Fails = TRUE
SPECIFICATION FairSpec
CHECK_DEADLOCK FALSE
INVARIANTS
    TypeOK
    NoneMissed
PROPERTIES
    Delivered
    Released
