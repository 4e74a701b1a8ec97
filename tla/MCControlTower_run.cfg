CONSTANTS
    projectA = projectA
    projectB = projectB
    backend = backend
    coo = coo
    desktop1 = desktop1
    desktop4 = desktop4
    Name = {1, 2, 3}
    Event <- Events
    Loose <- Sketches
    Project = {projectA, projectB}
    Role = {backend, coo}
    Source = {desktop1, desktop4}
    RoleOf <- RoleOfs
    DayLength = 2
    Window <- Windows
    EndOfTime = 10
    Absent = Absent
    Unreadable = Unreadable
    Days = {0, 1}
    Heading <- Headings
    Unsaid = Unsaid
    DataRequired = DataRequired
    NotApplicable = NotApplicable
    RiskLimit = 1
    ProjectLines = 1
    RecentLimit = 2
    SilentAfter = 2
    CohortDays = {1}
    MonthLength = 1
    Commits <- Logs
    LastInstant = 4
    Budget = 3
SPECIFICATION TowerSpec
CHECK_DEADLOCK FALSE
INVARIANTS
    WhatStandsIsShown
    CountsAgree
    NumbersAreHonest
    CohortsAreHonest
    VerdictsAgree
    NotesAreTrue
