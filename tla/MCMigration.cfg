SPECIFICATION MigrationSpec

CONSTANTS
    Names = {"a"}
    LowersAll = FALSE
    Migrators = {m1, m2}
    Replicas = {r1}
    Texts <- MCTexts
    MaxRows = 2
    None = None

INVARIANTS
    ReadyMeansComplete
    OneMatch

PROPERTIES
    ImplementsSchema
    FailsForCause
    SavedIsFound
    MigrationEnds
