SPECIFICATION Spec
CONSTANTS
    Clients = {c1, c2}
    Requests = {r1, r2}
    ann = ann
    bob = bob
    a = a
    Names = {ann, bob}
    Emails = {a}
    Forms <- MCForms
    Leavers = {c1}
    None = None
    MaxFailures = 1
INVARIANTS
    UniqueUsers
    SessionAgrees
    IInv
    TokenIsOwn
PROPERTIES
    RefusedRightly
    ImplementsUserDirectory
SYMMETRY Symmetry
