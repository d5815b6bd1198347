\* Four workers, and as many calls of shutdown_server().
SPECIFICATION FairSpec
CONSTANTS
    None = None
    Workers = {w1, w2, w3, w4}
    Main = Main
    Clients = {c1, c2}
    BacklogSize = 2
    MaxShutdowns = 4
INVARIANTS
    TypeOK
    OneToken
    NoticesKept
PROPERTIES
    PendingServed
    EnoughShutdowns
\* The server really stops once every worker has ended.
CHECK_DEADLOCK FALSE
