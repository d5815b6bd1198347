\* Expected to be violated: see the comment of the property.
SPECIFICATION Spec
CONSTANTS
    None = None
    h1 = h1
    s1 = s1
    s2 = s2
    r1 = r1
    r2 = r2
    u1 = u1
    u2 = u2
    HeloNames <- MCHeloNames
    Senders <- MCSenders
    Recipients <- MCRecipients
    Users <- MCUsers
    Limits <- MCLimits
    MaxBodySize = 2
    MaxRecipients = 2
PROPERTY
    AcceptedDataIsTransferred
