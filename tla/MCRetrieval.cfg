CONSTANTS
    Docs = {d1, d2}
    Namespaces = {public, internal}
    TTL = 2
    MaxBuild = 1
    MaxQueries = 2
    MaxClock = 4
SPECIFICATION Spec
INVARIANT TypeOK
PROPERTIES RemovedDocLapses CorpusComplete
SYMMETRY Symmetry
CHECK_DEADLOCK FALSE
