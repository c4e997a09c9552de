CONSTANTS
    p1 = p1  z1 = z1  v1 = v1
    Process = {p1, z1, v1}
    Virtual = {v1}
    Zygote = z1
    Streams <- Mixed
    Closes = {v1}
    Given = {z1}
    MaxFd = 5
SPECIFICATION FairSpec
CHECK_DEADLOCK FALSE
INVARIANTS
    OwnPipes
    WritesAlone
PROPERTIES
    Returned
    NotKeptWaiting
