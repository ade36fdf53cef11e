CONSTANTS
    UploadDocs = {}
    WatcherDocs = {w1}
    Files = {f1}
    NoDoc = NoDoc
    NoFile = NoFile
    Faults = FALSE
    MaxRestarts = 0
SPECIFICATION FairSpec
PROPERTY CopiedFileAppears
CHECK_DEADLOCK FALSE
