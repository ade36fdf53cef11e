CONSTANTS
    Operators = {o1, o2}
    Names <- MCNames
    Within <- MCWithin
    RealmRoles = {"staff"}
    Wanted = {"staff", "typo"}
    Credentials <- MCCredentials
    Env <- MCEnv
    MaxRequests = 3
    Faults = TRUE
SPECIFICATION Spec
INVARIANTS TypeOK LogTruthful ListingAbortsOnlyIf RolesAskedFor
CHECK_DEADLOCK FALSE
