CONSTANTS
    Fields <- MCFields
    Saved <- MCFields
    Required = {"name"}
    Sensitive = {"token"}
    Vals = {"a", "b", "x"}
    Invalid = {"x"}
    Unset = Unset
    Layers <- MCLayers
    Allowed <- MCAllowed
    Edits <- MCEdits
    Threads = {t1, t2}
    EnvPort = "b"
    Faults = TRUE
    MaxSaves = 1
    Bits = 2
    Floats <- MCFloats
    Plain = 4
    Words = {"w"}
    Names <- MCNames
    FileNames <- MCFileNames
    MaxFields = 3
    MaxLeaves = 2
    MaxRecords = 2
    MaxAdded = 6
SPECIFICATION MCSpec
INVARIANTS
    TypesOK
    SnapshotAccepted
    SavedReadsBack
    LogAccounted
PROPERTIES
    SetStays
    ValuesExact
