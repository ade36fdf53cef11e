CONSTANTS
    Users = {u1}
    Products = {p1, p2}
    Workers = 1
    MaxResponses = 2
    Withdrawn = {p1}
    MaxMissed = 2
    MaxTroubles = 1
    MaxShown = 1
    Nearest = 2
SPECIFICATION FairSpec
INVARIANTS ShopTypeOK RecommendationsFit OrderHoldsAddition
PROPERTIES ErrorsHaveCause TasksEnd ServicesComeUp
