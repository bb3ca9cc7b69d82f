CONSTANTS
    Callbacks = 2
    MaxBytes = 1
    SpawnOutputMax = 1
    PipeSize = 2
    MaxOutput = 3
SPECIFICATION FairSpec
INVARIANTS DownloadTypeOK RunsWhatWasApproved SpawnComplete
PROPERTY CallsReturn
