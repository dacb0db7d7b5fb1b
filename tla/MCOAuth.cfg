SPECIFICATION Spec
CONSTANTS
    c1 = c1
    c2 = c2
    k1 = k1
    k2 = k2
    s1 = s1
    s2 = s2
    Clients <- MCClients
    Codes <- MCCodes
    Sessions <- MCSessions
    CodeClient <- MCCodeClient
    Owner <- MCOwner
    MaxClients = 1
    MaxTokens = 2
CHECK_DEADLOCK FALSE
INVARIANTS
    RotatedTokenDead
    ClientKeepsSession
    RevokedStaysOut
PROPERTIES
    ImplementsSessionLife
