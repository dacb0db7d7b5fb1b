SPECIFICATION BrokerSpec
CONSTANTS
    s1 = s1
    s2 = s2
    s3 = s3
    r1 = r1
    r2 = r2
    Nobody = Nobody
    SessionIds = {s1, s2, s3}
    Readers = {r1, r2}
    MaxSessions = 2
    MaxOutput = 2
    MaxChunk = 2
    MaxWritten = 4
SYMMETRY MCSymmetry
INVARIANTS
    SessionsBounded
PROPERTIES
    ReadsInOrder
CHECK_DEADLOCK FALSE
