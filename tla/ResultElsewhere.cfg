SPECIFICATION Spec
CONSTANTS
    Null = Null
    Conns = {c1, c2}
    Threads = {t1}
    Compilers = {}
    Leavers = {}
    Jobs <- OneEpoch
    Models <- NoModels
    MaxEpochs = 1
    MaxFrames = 0
    Texts <- MCTexts
PROPERTIES
    ResultToSubmitter
