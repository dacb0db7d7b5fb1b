SPECIFICATION Spec
CONSTANTS
    Pairings = {p1, p2, p3}
    Devices = {d1, d2, d3}
    Codes = {k1, k2}
    None = None
    Ttl = 1
    UnclaimedGrace = 1
    Retention = 2
    MaxDevices = 1
    MaxPending = 2
    MaxTime = 3
SYMMETRY IdSymmetry
CHECK_DEADLOCK FALSE
INVARIANTS
    CapacityBound
    OneDevicePerPairing
    CredentialDurable
