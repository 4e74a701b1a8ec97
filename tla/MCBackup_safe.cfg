CONSTANTS
    daily = daily
    monthly = monthly
    File = {daily, monthly}
    MaxVersion = 1
    MassThreshold = 1
    Torn = Torn
SPECIFICATION Spec
SYMMETRY Symmetry
INVARIANT GoneIsNoticed
PROPERTIES
    GreenMeansBackedUp
    DeletionNeedsAPerson
