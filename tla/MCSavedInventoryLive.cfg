CONSTANTS
    LastPath = 3
    Parent <- MCParent
    Kinds <- PlainKinds
    Starts <- SmallStarts
    BatchSize = 2
    MaxDisturbances = 2
SPECIFICATION FairSpec
PROPERTIES Converges
