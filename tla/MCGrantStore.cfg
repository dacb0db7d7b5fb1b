SPECIFICATION LiveSpec
CONSTANTS
    Ids = {i1, i2}
    Keys = {k1, k2}
    Payloads = {p1, p2}
    None = None
    MaxGrants = 1
    MaxDeliveries = 1
    MaxCalls = 4
INVARIANTS
    RetiredStaysRetired
    ReceiptsAreHonest
    NoLateReads
    FileLoads
PROPERTIES
    ImplementsLeadDelivery
    CallsSettle
