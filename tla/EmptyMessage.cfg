SPECIFICATION FairSpec
CONSTANTS
    None = None
    CR = CR
    LF = LF
    Dot = Dot
    a = a
    u = u
    Bytes <- MCBytes
    Undecodable = {u}
    Lines <- MCFewLines
    Bodies <- MCWithoutBody
    MessageLimits <- MCLimits
    MaxChunk = 20
PROPERTY LoneDotEndsMessage
