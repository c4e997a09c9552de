CONSTANTS
    s1 = s1  s2 = s2  a = a  ab = ab  one = one  two = two
    StageZero = {s1, s2}
    Capcom = Capcom
    Client = {c1}
    Path = {a, ab}
    Above <- Prefixes
    Value = {one, two}
    Unset = Unset  Null = Null
    Sets <- Tried
    Requests = {"set", "delete", "part", "clear", "get", "upload"}
    MaxRequests = 4
SYMMETRY Alike
SPECIFICATION Spec
CHECK_DEADLOCK FALSE
INVARIANTS
    CopiesAgree
PROPERTIES
    ReadsKeepAnswers
    DiesOfGaps
