CONSTANTS
    Proc = {p1, p2}
    Id = {i1, i2, i3, i4, i5}
    NoId = NoId
    NoLock = NoLock
    OpenUnlinkable = FALSE
    PidReuse = TRUE
    ProbeErrs = FALSE
SPECIFICATION Spec
SYMMETRY Symmetry
INVARIANT MutualExclusion
