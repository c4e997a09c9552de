CONSTANTS
    s1 = s1  s2 = s2  s3 = s3  p1 = p1  p2 = p2  p3 = p3  c1 = c1  c2 = c2
    NoClient = NoClient
    Nobody = Nobody
    Subsystem = {s1, s2, s3}
    Process = {p1, p3}
    Client = {c1, c2}
    Children <- Vee
    Processes <- TopAndShared
    OneShot = {}
    Critical = {}
    Policy <- Automatic
    Interactive = {}
    MaxRestarts = 1
    MaxProcRestarts = 1
    Slot = {1}
    Commands <- Mixed
    Targets <- Roots
    MaxCommands = 3
    MaxCrashes = 0
    MaxDrops = 0
    MaxAborts = 0
SPECIFICATION Spec
CHECK_DEADLOCK FALSE
INVARIANTS
    OnlineIsWanted
PROPERTIES
    ChildrenFirst
