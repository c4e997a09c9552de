CONSTANTS
    c1 = c1  c2 = c2  a = a  b = b  g1 = g1  g2 = g2  one = one  two = two
    Compute = {c1, c2}
    Subsystem = {a, b}
    Home <- PairHome
    Procs <- SomeProcs
    Cgroup = {g1}
    Setting = {one, two}
    Configs <- SomeConfigs
    MaxTasks = 1
    MaxStarts = 2
    MaxOthers = 1
SPECIFICATION Spec
CHECK_DEADLOCK FALSE
INVARIANTS
    TypeOK
    OnlyConfigured
    ClosedWhenUnused
    ServedAlone
