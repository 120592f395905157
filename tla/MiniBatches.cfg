SPECIFICATION Spec
CONSTANTS
    Samples <- MCSamples
    BatchSizes <- MCBatchSizes
    MaxBatches = 15
INVARIANTS
    EachSampleOnce
    WellSized
    InBounds
    ThrowsIfNotPositive
    IInv
PROPERTIES
    Terminates
\* The generator returns or throws.
CHECK_DEADLOCK FALSE
