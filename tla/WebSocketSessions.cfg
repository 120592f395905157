SPECIFICATION FairSpec
CONSTANTS
    Conns = {c1}
    Texts <- MCTexts
    MaxCalls = 4
INVARIANTS
    IInv
    
PROPERTIES
    ImplementsChannel
    HandledBeforeDelete
    Reclaimed
