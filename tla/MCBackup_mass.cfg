CONSTANTS
    daily = daily
    monthly = monthly
    File = {daily, monthly}
    MaxVersion = 2
    MassThreshold = 1
    Torn = Torn
SPECIFICATION Spec
INVARIANT BlockedStaysBlocked
