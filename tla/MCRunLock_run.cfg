CONSTANTS
    Proc = {p1, p2}
    Id = {i1, i2, i3, i4, i5}
    NoId = NoId
    NoLock = NoLock
    OpenUnlinkable = FALSE
    PidReuse = FALSE
    ProbeErrs = TRUE
SPECIFICATION FairSpec
INVARIANT OneHolderUnlessAstray
PROPERTY StaleLockIsReclaimed
