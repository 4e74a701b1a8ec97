CONSTANTS
    a = a
    b = b
    c = c
    project = project
    Event <- Events
    Project = {project}
    ProjectOf <- Projects
    Time <- Times
    Minute <- Minutes
    Blocker <- Blockers
    NoEvent = NoEvent
SPECIFICATION FairSpec
INVARIANTS
    DoneIsShown
    BlockerIsNewest
PROPERTY AcceptedIsSynced
