SPECIFICATION FairSpec
CONSTANTS
    Null = Null
    Conns = {c1}
    Threads = {t1}
    Compilers = {h1}
    Leavers = {c1}
    Jobs <- OneEpoch
    Models <- TwoModels
    MaxEpochs = 1
    MaxFrames = 3
    Texts <- MCTexts
INVARIANTS
    TypeOK
PROPERTIES
    TrainingEnds
    Reclaimed
