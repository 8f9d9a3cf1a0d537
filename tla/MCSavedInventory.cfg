CONSTANTS
    LastPath = 3
    Parent <- MCParent
    Kinds <- MCKinds
    Starts <- SmallStarts
    BatchSize = 1
    MaxDisturbances = 3
SPECIFICATION Spec
INVARIANTS
    AnchorsKept
    CompleteListingExact
    PassExact
PROPERTIES
    PurgeProved
