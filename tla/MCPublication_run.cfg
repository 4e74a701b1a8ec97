CONSTANTS
    alpha = alpha
    beta = beta
    Row = {alpha, beta}
    Sourced <- SourcedOf
    None = None
    Person = Person
    MaxVersion = 2
    MaxFaults = 2
    MaxWrites = 2
SPECIFICATION FairSpec
INVARIANT LeftAloneHasAReason
PROPERTIES
    PeopleKeepTheirWords
    ExitTellsWhatIsShown
    NotionCatchesUp
