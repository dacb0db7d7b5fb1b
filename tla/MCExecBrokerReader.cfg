SPECIFICATION BrokerSpec
CONSTANTS
    s1 = s1
    s2 = s2
    s3 = s3
    r1 = r1
    r2 = r2
    Nobody = Nobody
    SessionIds = {s1}
    Readers = {r1}
    MaxSessions = 1
    MaxOutput = 2
    MaxChunk = 2
    MaxWritten = 4
INVARIANTS
    UntruncatedIsAll
CHECK_DEADLOCK FALSE
