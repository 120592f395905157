SPECIFICATION Spec
CONSTANTS
    Calls = {k1, k2}
    Sockets = {s1, s2}
    Shapes = {new, net}
    NewShape = new
    Questions = {"test", "predict"}
    Patient = TRUE
    None = None
    Undefined = Undefined
    MaxLogs = 1
    MaxFailures = 1
INVARIANTS
    IInv
    SocketTracked
    ChartIsLatest
    OneOperation
    FitWhenPatient
PROPERTIES
    UploadsKept
SYMMETRY Symmetry
