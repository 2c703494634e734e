SPECIFICATION FairSpec
CONSTANTS
    k1 = k1
    k2 = k2
    k3 = k3
    Default = default
    Table = {default, other}
    Key = {k1, k2, k3}
    ReadAs <- Trimmed
    Skipped = {k3}
    OldWal <- WalOfDefault
    MaxWrites = 2
    MaxCrashes = 1
    MaxErrors = 1
    None = None
INVARIANTS
    TypeOK
    FullSaveReadable
    CutSaveLeavesPart
    CopyIsACut
    StorageInv
PROPERTIES
    EventuallySaved
CHECK_DEADLOCK FALSE
