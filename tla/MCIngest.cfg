CONSTANTS
    UploadDocs = {u1}
    WatcherDocs = {w1}
    Files = {f1, f2}
    NoDoc = NoDoc
    NoFile = NoFile
    Faults = TRUE
    MaxRestarts = 1
SPECIFICATION FairSpec
INVARIANTS TypeOK DeletedStaysGone ReadyIsStored ProcessedWasProcessed
PROPERTIES ImplementsLibrary FilesSettle
CHECK_DEADLOCK FALSE
