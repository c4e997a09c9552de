CONSTANTS
    p1 = p1  p2 = p2  z1 = z1  z2 = z2  v1 = v1  n1 = n1  c1 = c1  c2 = c2
    None = None
    Process = {p1, z1, v1}
    Client = {c1}
    Zygote = {z1}
    Virtual = {v1}
    ZygoteName <- OneName
    Notify = {z1, v1}
    Detached = {}
    Critical = {z1}
    Telemetry = {}
    IntTimeout = {p1, z1}
    TermTimeout = {v1}
    MaxLaunches = 2
SPECIFICATION FairSpec
CHECK_DEADLOCK FALSE
INVARIANTS
    TypeOK
    KeepsTrack
    MapsAgree
    StopMeansDead
PROPERTIES
    TellsALife
    StopKills
    LeavesNothing
    ExitIsTold
