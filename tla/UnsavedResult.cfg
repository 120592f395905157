SPECIFICATION Spec
CONSTANTS
    Calls = {k1}
    Sockets = {s1}
    Shapes = {new}
    NewShape = new
    Questions = {}
    Patient = TRUE
    None = None
    Undefined = Undefined
    MaxLogs = 1
    MaxFailures = 0
INVARIANTS
    ResultIsSafe
