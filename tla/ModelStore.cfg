SPECIFICATION Spec
CONSTANTS
    Ids = {m1, m2}
    Requests = {r1, r2, r3}
    Titles = {a, b}
    Infos = {default, net}
    DefaultInfo = default
    None = None
    Gone = Gone
    MaxFailures = 1
SYMMETRY Symmetry
INVARIANTS
    TypeOK
    ModelHasInfo
    IInv
PROPERTIES
    ImplementsAtomicStore
