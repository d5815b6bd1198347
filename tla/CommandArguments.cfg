SPECIFICATION Spec
CONSTANTS
    None = None
    Blank = Blank
    Colon = Colon
    Rejected = Rejected
    Crashed = Crashed
    Words <- MCWords
    Logins <- MCLogins
    MaxWords = 3
    MaxBlanks = 1
INVARIANTS TypeOK UnderstoodAsMeant MailAsAnnounced CredentialsAsMeant
