SPECIFICATION Spec
CONSTANTS
    Null = Null
    Conns = {c1}
    Threads = {t1, t2}
    Compilers = {h1}
    Leavers = {}
    Jobs <- TwoEpochs
    Models <- AllModels
    MaxEpochs = 2
    MaxFrames = 0
    Texts <- MCTexts
INVARIANTS
    Transcripts
    LayersFit
    LayersAsRequested
SYMMETRY ThreadSymmetry
