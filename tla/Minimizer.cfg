SPECIFICATION FairSpec
CONSTANTS
    Indexes = {i1, i2}
    Factors = {2, 3}
    MaxAdds = 3
    MaxReplaces = 2
INVARIANTS
    TypeOK
    StorageInOrder
    RefCntsMatch
PROPERTIES
    TurnsComeRound
