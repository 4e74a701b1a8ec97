CONSTANTS
    a = a
    c = c
    Signal <- Signals
    Usable = {a, c}
    Exposed = {a}
    DateOf <- Dates
    LastDay = 2
SPECIFICATION FairSpec
INVARIANTS
    DeliveredInOrder
    QuietMeansDelivered
    ClosedLineIsTrue
PROPERTIES
    NeverResentOnceFiled
    OnTimeIsDelivered
