\* Expected to be violated: see the comment of the property.
SPECIFICATION FairSpec
CONSTANTS
    None = None
    Workers = {w1, w2, w3}
    Main = Main
    Clients = {c1}
    BacklogSize = 1
    MaxShutdowns = 1
PROPERTY
    ShutdownTerminates
\* The server really stops once every worker has ended.
CHECK_DEADLOCK FALSE
