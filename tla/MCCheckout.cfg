CONSTANTS
    Products = {p1, p2}
    Tabs = {t1, t2}
    NoItem = NoItem
    MaxQuantity = 1
    MaxRequests = 4
SPECIFICATION Spec
INVARIANTS CheckoutTypeOK OrderOfSteps NothingVanishes NothingShippedTwice
PROPERTY AtomicWhenSequential
SYMMETRY Symmetry
CHECK_DEADLOCK FALSE
