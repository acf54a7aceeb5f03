SPECIFICATION FairSpec
CONSTANTS
    Confs <- AllConfs
    MaxRuns = 3
    PipeSize = 4
INVARIANTS
    WordsInPlace
    ResultsAreTrue
    ChildHasThisInput
    BuildAgrees
PROPERTIES
    CallsReturn
