CONSTANTS
    Contents <- MCContents
    SerializedLen <- MCSerializedLen
    NoContent = none
    MapSize = 64
    Llmp = TRUE
    Forking = TRUE
    MaxFinds = 3
    MaxFaults = 3
SPECIFICATION FairSpec
INVARIANTS
    TypeOK
    ProgressKept
    DescriptionKept
    NoRespawnAfterExiting
    FilesMatchMap
PROPERTIES
    RecoversAfterCrash
    ExitEnds
