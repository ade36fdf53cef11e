CONSTANTS
    Widgets = {w1}
    Portals = {p1}
    MaxHistory = 2
    MaxSessions = 2
    ContextSizes = {1, 3}
    Searches <- MCSearches
    PageSizes = {1, 2}
    MaxAsk = 2
    MaxRestarts = 1
SPECIFICATION FairSpec
INVARIANTS TypeOK AnswersAudited RecentSessionsKept FlagHonest
PROPERTIES QuestionsSettle FullPagesStay
CHECK_DEADLOCK FALSE
