CONSTANTS
    ChunkSize = 4
    Overlap = 2
    MaxSentences = 3
    MaxWords = 6
    MaxPieces = 2
    MinWords = 5
    Images = {".gif"}
    Files <- MCFiles
    Documents <- MCDocuments
SPECIFICATION PipelineSpec
INVARIANTS TypeOK ChunksTile SizeBounded TextArrives
PROPERTY Terminates
CHECK_DEADLOCK FALSE
