SPECIFICATION FairSessionSpec
CONSTANTS
    Null = Null
    Conns = {c1, c2}
    Threads = {t1, t2}
    Compilers = {h1}
    Leavers = {}
    Jobs <- MCJobs
    Models <- MCModels
    MaxEpochs = 2
    MaxFrames = 0
    Texts <- MCTexts
INVARIANTS
    SessionInv
    NeverCrashes
    ToldAsExpected
PROPERTIES
    FinalResultArrives
    SessionEnds
