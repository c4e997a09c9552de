CONSTANTS
    s1 = s1  s2 = s2  s3 = s3  p1 = p1  p2 = p2  p3 = p3  c1 = c1  c2 = c2
    NoClient = NoClient
    Nobody = Nobody
    Subsystem = {s1}
    Process = {p1, p2}
    Client = {c1, c2}
    Children <- NoChildren
    Processes <- AllInS1
    OneShot = {p2}
    Critical = {}
    Policy <- ProcessOnly
    Interactive = {c2}
    MaxRestarts = 1
    MaxProcRestarts = 1
    Slot = {1}
    Commands <- Visitor
    Targets <- Anywhere
    MaxCommands = 2
    MaxCrashes = 2
    MaxDrops = 0
    MaxAborts = 0
SPECIFICATION Spec
CHECK_DEADLOCK FALSE
INVARIANTS
    AttemptsLimited
    AlarmsTell
