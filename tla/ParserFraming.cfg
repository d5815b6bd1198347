SPECIFICATION FairSpec
CONSTANTS
    None = None
    CR = CR
    LF = LF
    Dot = Dot
    a = a
    u = u
    Bytes <- MCBytes
    Undecodable = {u}
    Lines <- MCLines
    Bodies <- MCBodies
    MessageLimits <- MCLimits
    MaxChunk = 20
INVARIANTS TypeOK Framed
PROPERTY ExchangeSpec
