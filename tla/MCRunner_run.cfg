CONSTANTS
    Configurations = {"nothing", "sync and dashboard"}
    MayFail = {"notion_sync", "daily", "late_update"}
    LastRun = 3
    MaxAlive = 2
    Faults = 2
SPECIFICATION FairSpec
INVARIANTS
    ExitTellsTheRun
    MissingStepsAreExplained
    RowsAgreeWithManifest
    QuietScreenIsHonest
PROPERTY PendingRowsAreSent
