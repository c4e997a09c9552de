CONSTANTS
    s1 = s1  s2 = s2  s3 = s3  p1 = p1  p2 = p2  p3 = p3  c1 = c1  c2 = c2
    NoClient = NoClient
    Nobody = Nobody
    Subsystem = {s1, s2}
    Process = {p1, p2, p3}
    Client = {c1}
    Children <- NoChildren
    Processes <- TwoAndOne
    OneShot = {}
    Critical = {s2}
    Policy <- Automatic
    Interactive = {}
    MaxRestarts = 1
    MaxProcRestarts = 1
    Slot = {1, 2}
    Commands <- StartStop
    Targets <- Anywhere
    MaxCommands = 2
    MaxCrashes = 1
    MaxDrops = 1
    MaxAborts = 1
SPECIFICATION Spec
CHECK_DEADLOCK FALSE
INVARIANTS
    RefsCountConnections
    OfflineIsClean
    KnowsItsProcesses
    RestartsLimited
PROPERTIES
    OnlineMeansRunning
