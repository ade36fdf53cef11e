CONSTANTS
    Widgets = {}
    Portals = {p1}
    MaxHistory = 3
    MaxSessions = 2
    ContextSizes = {3}
    Searches <- MCSearches
    PageSizes = {1, 2}
    MaxAsk = 2
    MaxRestarts = 0
SPECIFICATION Spec
INVARIANT FollowUpAccepted
CHECK_DEADLOCK FALSE
