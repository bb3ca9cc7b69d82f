CONSTANTS
    Callbacks = 1
    MaxBytes = 2
    SpawnOutputMax = 1
    PipeSize = 2
    MaxOutput = 3
SPECIFICATION Spec
INVARIANT NoTruncatedScript
