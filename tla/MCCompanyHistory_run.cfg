CONSTANTS
    a = a
    b = b
    bare = bare
    old = old
    LastDay = 4
    MonthOf <- FourDays
    Event = {a, b, bare, old}
    Bare = {bare}
    Breaking = {b}
    DayOf <- EventDates
    one = one
    nothing = nothing
    NoText = nothing
    Reviewed = {bare}
    Text = {one}
SPECIFICATION StatusSpec
INVARIANTS
    QuietMeansComplete
    LinesAreTrue
    DeletionIsNoticed
    MonthlyAgrees
PROPERTY KeptReachesMonthly
