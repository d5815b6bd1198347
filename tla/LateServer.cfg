SPECIFICATION Spec
CONSTANTS
    None = None
    MaxStarts = 2
    BacklogSize = 2
    BindTries = 2
INVARIANT ShutdownReachesServer
