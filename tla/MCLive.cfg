CONSTANTS
    s1 = s1  s2 = s2  s3 = s3  p1 = p1  p2 = p2  p3 = p3  c1 = c1  c2 = c2
    NoClient = NoClient
    Nobody = Nobody
    Subsystem = {s1, s2}
    Process = {p1, p2}
    Client = {c1, c2}
    Children <- NoChildren
    Processes <- OneEach
    OneShot = {}
    Critical = {}
    Policy <- OnePolicyEach
    Interactive = {}
    MaxRestarts = 1
    MaxProcRestarts = 1
    Slot = {1}
    Commands <- StartStop
    Targets <- Roots
    MaxCommands = 3
    MaxCrashes = 2
    MaxDrops = 0
    MaxAborts = 0
SPECIFICATION FairSpec
CHECK_DEADLOCK FALSE
INVARIANTS
    RunningIsReal
PROPERTIES
    Settles
    RetriesCrashed
    StopsUnwanted
