SPECIFICATION FairSpec
CONSTANTS
    None = None
    MaxStarts = 2
    BacklogSize = 2
    BindTries = 2
INVARIANTS TypeOK OneTokenEach ServerInPlace
PROPERTY StartsAndStops
