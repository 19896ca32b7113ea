SPECIFICATION Spec
CONSTANTS
    Values = {0, 1}
    Defaults <- FactorySettings
    SaveTasks = {s1, s2}
    MaxPosts = 2
    MaxSaves = 2
    MaxRestarts = 2
SYMMETRY Symmetry
INVARIANTS
    TypeOK
    RestoredIsWritten
    SavedIsFresh
    QuietSaveIsDurable
    PostedFieldsApplied
CHECK_DEADLOCK FALSE
