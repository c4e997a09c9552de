CONSTANTS
    a = a  b = b  subspace = subspace  h1 = h1  h2 = h2  o1 = o1
    Name = {a, b, subspace}
    Subspace = subspace
    Graphs <- SomeGraphs
    Busy <- FewGraphs
    Handler = {h1}
    Outsider = {o1}
    OutsiderOps = {"start"}
    WordBits = 64
    MaxCommands = 2
    MaxLives = 2
SPECIFICATION FairSpec
CHECK_DEADLOCK FALSE
INVARIANTS
    TypeOK
    LoopsRefused
    AutostartsStay
PROPERTIES
    AllRegistered
