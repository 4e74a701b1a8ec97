CONSTANTS
    f1 = f1
    f2 = f2
    f3 = f3
    e1 = e1
    Invalid = Invalid
    File = {f1, f2, f3}
    Event = {e1}
    EventIn <- CopyEventIn
    Decision <- Review
SPECIFICATION FairSpec
INVARIANTS
    BurnedOnlyByFault
    QuietMeansRecorded
PROPERTIES
    KeepsLedger
    LinesStay
    ArrivedIsConsumed
