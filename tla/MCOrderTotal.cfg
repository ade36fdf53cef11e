CONSTANTS
    NanosMod = 10
    Panic = Panic
    NoMoney = NoMoney
    Currencies = {usd, eur}
    Amounts <- MCAmounts
    MaxItems = 2
    MaxQuantity = 3
SPECIFICATION Spec
INVARIANTS TypeOK TotalsExact NothingPanics
CHECK_DEADLOCK FALSE
