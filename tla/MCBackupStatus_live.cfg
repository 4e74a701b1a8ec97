CONSTANTS
    daily = daily
    File = {daily}
    MaxVersion = 2
    MassThreshold = 1
    Torn = Torn
SPECIFICATION FairStatusSpec
INVARIANT QuietMeansPushed
PROPERTY NeverQuietlyBehind
